---------------------------- MODULE ScalingProofs ----------------------------
(***************************************************************************)
(* Machine-checked proofs about ScalingManager, alone and driven by an     *)
(* InstanceCluster, for every set of operations, every table of time       *)
(* limits and every bound.                                                 *)
(***************************************************************************)
EXTENDS InstanceCluster, TLAPS

(* What is known of a phase whoever drives the manager: the ids a cluster    *)
(* puts in its phases are not those of InstanceIds.                          *)
PhaseCore(p) ==
    /\ p.name \in ActivePhases \cup TerminalPhases
    /\ p.op \in Operations
    /\ p.at \in Time
    /\ p.from \in ActivePhases \cup {NONE}

CoreType ==
    /\ current_phase = NoPhase \/ PhaseCore(current_phase)
    /\ operation_history \in Seq(Record)
    /\ now \in Time

(* The history agrees with the clock: no record carries a later time stamp. *)
HistoryInPast ==
    \A i \in 1 .. Len(operation_history) :
        /\ operation_history[i].started_at <= now
        /\ operation_history[i].ended_at <= now

(* The inductive invariant.  NoOverlap needs HistoryInPast (the record being *)
(* opened starts now, its predecessor ended in the past) and                 *)
(* HistoryMirrorsPhase (the predecessor is closed because the phase is).     *)
IInv ==
    /\ CoreType
    /\ HistoryMirrorsPhase
    /\ NoOverlap
    /\ RollbackOnlyFailed
    /\ HistoryInPast

-----------------------------------------------------------------------------
(* Replacing the last element of a sequence keeps its length and every other *)
(* element; this is what the methods do to operation_history.last_mut().     *)
LEMMA ReplaceLast ==
    ASSUME NEW S, NEW h \in Seq(S), h # <<>>, NEW r \in S,
           NEW g, g = [h EXCEPT ![Len(h)] = r]
    PROVE  /\ g \in Seq(S)
           /\ Len(g) = Len(h)
           /\ Len(h) \in Nat \ {0}
           /\ g # <<>>
           /\ g[Len(h)] = r
           /\ \A i \in 1 .. Len(h) - 1 : g[i] = h[i]
  OBVIOUS

(* Appending to a sequence keeps every element and puts the new one last.    *)
LEMMA AppendLast ==
    ASSUME NEW S, NEW h \in Seq(S), NEW r \in S, NEW g, g = Append(h, r)
    PROVE  /\ g \in Seq(S)
           /\ Len(g) = Len(h) + 1
           /\ Len(h) \in Nat
           /\ g # <<>>
           /\ g[Len(g)] = r
           /\ \A i \in 1 .. Len(h) : g[i] = h[i]
  OBVIOUS

(* One step that rewrites the last record and leaves the clock alone         *)
(* preserves the invariant when the new phase and the new record agree.      *)
LEMMA RewriteLast ==
    ASSUME IInv, operation_history # <<>>,
           NEW p, PhaseCore(p), NEW r \in Record,
           current_phase' = p,
           operation_history' = [operation_history EXCEPT ![Len(operation_history)] = r],
           now' = now,
           r.op = p.op, r.final_phase = p.name, r.started_at = LastRecord.started_at,
           (r.ended_at = NoTime) <=> (p.name \in ActivePhases),
           r.ended_at <= now,
           r.successful <=> (p.name = "Completed"),
           (r.error # NONE) <=> (p.name = "Failed"),
           r.metadata # {} => r.final_phase = "Failed"
    PROVE  IInv'
  <1> DEFINE h == operation_history  g == operation_history'  n == Len(h)
  <1>1. /\ g \in Seq(Record)  /\ Len(g) = n  /\ n \in Nat \ {0}  /\ g # <<>>
        /\ g[n] = r  /\ \A i \in 1 .. n - 1 : g[i] = h[i]
    BY ReplaceLast DEF IInv, CoreType
  <1>2. h \in Seq(Record) /\ now \in Int
    BY DEF IInv, CoreType, Time
  <1> HIDE DEF h, g, n
  <1>3. CoreType'
    BY <1>1 DEF IInv, CoreType, g
  <1>4. HistoryMirrorsPhase'
    <2>1. p # NoPhase
      BY DEF PhaseCore, NoPhase, ActivePhases, TerminalPhases, NONE
    <2> QED
      BY <1>1, <2>1 DEF HistoryMirrorsPhase, LastRecord, InProgress, g
  <1>5. NoOverlap'
    <2> SUFFICES ASSUME NEW i \in 1 .. n - 1
                 PROVE  /\ g[i].final_phase \in TerminalPhases
                        /\ g[i].ended_at # NoTime
                        /\ g[i].ended_at <= g[i + 1].started_at
      BY <1>1 DEF NoOverlap, g
    <2>1. g[i] = h[i]
      BY <1>1
    <2>2. g[i + 1].started_at = h[i + 1].started_at
      <3>1. CASE i + 1 = n
        BY <1>1, <3>1 DEF LastRecord, n, h
      <3>2. CASE i + 1 # n
        BY <1>1, <3>2
      <3> QED BY <3>1, <3>2
    <2> QED
      BY <2>1, <2>2 DEF IInv, NoOverlap, n, h
  <1>6. RollbackOnlyFailed'
    <2> SUFFICES ASSUME NEW i \in 1 .. n, g[i].metadata # {}
                 PROVE  g[i].final_phase = "Failed"
      BY <1>1 DEF RollbackOnlyFailed, g
    <2>1. CASE i = n
      BY <1>1, <2>1
    <2>2. CASE i # n
      BY <1>1, <2>2 DEF IInv, RollbackOnlyFailed, n, h
    <2> QED BY <2>1, <2>2
  <1>7. HistoryInPast'
    <2> SUFFICES ASSUME NEW i \in 1 .. n
                 PROVE  g[i].started_at <= now /\ g[i].ended_at <= now
      BY <1>1 DEF HistoryInPast, g
    <2>1. CASE i = n
      BY <1>1, <2>1 DEF IInv, HistoryInPast, LastRecord, n, h
    <2>2. CASE i # n
      BY <1>1, <2>2 DEF IInv, HistoryInPast, n, h
    <2> QED BY <2>1, <2>2
  <1> QED
    BY <1>3, <1>4, <1>5, <1>6, <1>7 DEF IInv

(* The common body of the transition_to_* methods preserves the invariant.   *)
LEMMA TransitionStep ==
    ASSUME IInv, NEW s \in ActivePhases, NEW t \in ActivePhases,
           NEW ids, NEW config, transition(s, t, ids, config)
    PROVE  IInv'
  <1> DEFINE p == [name |-> t, op |-> current_phase.op, at |-> now, from |-> NONE,
                   ids |-> ids, config |-> config, results |-> 0]
             r == [LastRecord EXCEPT !.final_phase = t]
  <1>1. /\ PhaseCore(current_phase)  /\ operation_history # <<>>
        /\ operation_history \in Seq(Record)  /\ now \in Time
    BY DEF IInv, CoreType, HistoryMirrorsPhase, NoPhase, transition, ActivePhases, NONE
  <1>2. LastRecord \in Record
    BY <1>1 DEF LastRecord
  <1>3. PhaseCore(p)
    BY <1>1 DEF PhaseCore
  <1>4. r \in Record
    BY <1>2 DEF Record
  <1>5. /\ LastRecord.op = current_phase.op  /\ LastRecord.ended_at = NoTime
        /\ LastRecord.successful = FALSE  /\ LastRecord.error = NONE
        /\ LastRecord.metadata = {}
    <2>1. /\ current_phase.name \in ActivePhases
          /\ current_phase.name \notin {"Completed", "Failed"}
      BY DEF transition, ActivePhases
    <2>2. LastRecord.metadata # {} => LastRecord.final_phase = "Failed"
      BY <1>1 DEF IInv, RollbackOnlyFailed, LastRecord
    <2> QED
      BY <1>1, <1>2, <2>1, <2>2 DEF IInv, HistoryMirrorsPhase, InProgress, Record
  <1>6. /\ r.op = p.op  /\ r.final_phase = p.name  /\ r.started_at = LastRecord.started_at
        /\ r.ended_at = NoTime  /\ r.successful = FALSE  /\ r.error = NONE
        /\ r.metadata = {}
    BY <1>2, <1>5 DEF Record
  <1>7. /\ current_phase' = p
        /\ operation_history' = [operation_history EXCEPT ![Len(operation_history)] = r]
        /\ now' = now
    BY DEF transition, LastRecord
  <1>8. NoTime <= now
    BY <1>1 DEF NoTime, Time
  <1>9. t \notin {"Completed", "Failed"}
    BY DEF ActivePhases
  <1> HIDE DEF p, r
  <1>10. p.name = t
    BY DEF p
  <1> QED
    BY <1>1, <1>3, <1>4, <1>6, <1>7, <1>8, <1>9, <1>10, RewriteLast, Zenon

(* Ending an operation, whatever its outcome, preserves the invariant.       *)
LEMMA CloseStep ==
    ASSUME IInv, NEW name \in TerminalPhases, NEW successful \in BOOLEAN,
           NEW error \in ErrorTypes,
           successful <=> (name = "Completed"), (error # NONE) <=> (name = "Failed"),
           close(name, successful, error)
    PROVE  IInv'
  <1> DEFINE p == [name |-> name, op |-> current_phase.op, at |-> now,
                   from |-> IF name = "Completed" THEN NONE ELSE current_phase.name,
                   ids |-> Nil, config |-> Nil, results |-> 0]
             r == [LastRecord EXCEPT !.final_phase = name, !.ended_at = now,
                                     !.successful = successful, !.error = error]
  <1>1. /\ PhaseCore(current_phase)  /\ operation_history # <<>>
        /\ operation_history \in Seq(Record)  /\ now \in Time
    BY DEF IInv, CoreType, HistoryMirrorsPhase, NoPhase, close, ended_phase, ended_record, InProgress, ActivePhases, NONE
  <1>2. LastRecord \in Record
    BY <1>1 DEF LastRecord
  <1>3. PhaseCore(p)
    BY <1>1, BoundAssumption DEF PhaseCore, close, ended_phase, ended_record, InProgress
  <1>4. r \in Record
    BY <1>1, <1>2, Zenon DEF Record
  <1>5. LastRecord.op = current_phase.op  /\ LastRecord.metadata = {}
    <2>1. current_phase.name # "Failed"
      BY DEF close, ended_phase, ended_record, InProgress, ActivePhases
    <2>2. LastRecord.metadata # {} => LastRecord.final_phase = "Failed"
      BY <1>1 DEF IInv, RollbackOnlyFailed, LastRecord
    <2> QED
      BY <1>1, <2>1, <2>2 DEF IInv, HistoryMirrorsPhase
  <1>6. /\ r.op = p.op  /\ r.final_phase = p.name  /\ r.started_at = LastRecord.started_at
        /\ r.ended_at = now  /\ r.successful = successful  /\ r.error = error
        /\ r.metadata = {}
    BY <1>2, <1>5 DEF Record
  <1>7. /\ current_phase' = p
        /\ operation_history' = [operation_history EXCEPT ![Len(operation_history)] = r]
        /\ now' = now
    BY DEF close, ended_phase, ended_record, LastRecord
  <1>8. now <= now /\ now # NoTime
    BY <1>1, BoundAssumption DEF NoTime, Time
  <1>9. name \notin ActivePhases
    BY DEF ActivePhases, TerminalPhases
  <1> HIDE DEF p, r
  <1>10. p.name = name
    BY DEF p
  <1> QED
    BY <1>1, <1>3, <1>4, <1>6, <1>7, <1>8, <1>9, <1>10, RewriteLast, Zenon

(* start_operation preserves the invariant: it is taken only when no         *)
(* operation is in progress, so the record it leaves behind is closed.       *)
LEMMA StartStep ==
    ASSUME IInv, NEW op \in Operations, start_operation(op)
    PROVE  IInv'
  <1> DEFINE h == operation_history  g == operation_history'  n == Len(h)
             r == [op |-> op, started_at |-> now, ended_at |-> NoTime,
                   final_phase |-> "Requested", successful |-> FALSE, error |-> NONE,
                   phase_history |-> {}, metadata |-> {}]
             p == new_requested(op)
  <1>1. h \in Seq(Record) /\ now \in Time /\ now \in Int /\ NoTime <= now
    BY BoundAssumption DEF IInv, CoreType, Time, NoTime
  <1>2. r \in Record
    BY <1>1 DEF Record, ErrorTypes, NONE, ActivePhases
  <1>3. PhaseCore(p)
    BY <1>1, BoundAssumption DEF PhaseCore, new_requested, ActivePhases
  <1>4. g = Append(h, r) /\ current_phase' = p /\ now' = now /\ ~ InProgress
    BY DEF start_operation
  <1>5. /\ g \in Seq(Record)  /\ Len(g) = n + 1  /\ n \in Nat  /\ g # <<>>
        /\ g[n + 1] = r  /\ \A i \in 1 .. n : g[i] = h[i]
    BY <1>1, <1>2, <1>4, AppendLast
  <1>6. n # 0 => /\ h[n].final_phase \in TerminalPhases
                 /\ h[n].ended_at # NoTime
    <2> SUFFICES ASSUME n # 0
                 PROVE  h[n].final_phase \in TerminalPhases /\ h[n].ended_at # NoTime
      OBVIOUS
    <2>1. h # <<>> /\ current_phase # NoPhase
      BY <1>1 DEF IInv, HistoryMirrorsPhase
    <2>2. PhaseCore(current_phase)
      BY <2>1 DEF IInv, CoreType
    <2> QED
      BY <1>4, <2>1, <2>2 DEF IInv, HistoryMirrorsPhase, LastRecord, InProgress, PhaseCore
  <1> HIDE DEF h, g, n
  <1>7. CoreType'
    BY <1>1, <1>3, <1>4, <1>5 DEF CoreType, g
  <1>8. HistoryMirrorsPhase'
    <2>1. p # NoPhase /\ p.op = op /\ p.name = "Requested"
      BY DEF NoPhase, new_requested, NONE
    <2> QED
      BY <1>4, <1>5, <2>1 DEF HistoryMirrorsPhase, LastRecord, InProgress, ActivePhases, g
  <1>9. NoOverlap'
    <2> SUFFICES ASSUME NEW i \in 1 .. n
                 PROVE  /\ g[i].final_phase \in TerminalPhases
                        /\ g[i].ended_at # NoTime
                        /\ g[i].ended_at <= g[i + 1].started_at
      BY <1>5 DEF NoOverlap, g
    <2>1. CASE i = n
      BY <1>5, <1>6, <2>1 DEF IInv, HistoryInPast, n, h
    <2>2. CASE i # n
      BY <1>5, <2>2 DEF IInv, NoOverlap, n, h
    <2> QED BY <2>1, <2>2
  <1>10. RollbackOnlyFailed'
    <2> SUFFICES ASSUME NEW i \in 1 .. n + 1, g[i].metadata # {}
                 PROVE  g[i].final_phase = "Failed"
      BY <1>5 DEF RollbackOnlyFailed, g
    <2>1. CASE i = n + 1
      BY <1>5, <2>1
    <2>2. CASE i # n + 1
      BY <1>5, <2>2 DEF IInv, RollbackOnlyFailed, n, h
    <2> QED BY <2>1, <2>2
  <1>11. HistoryInPast'
    <2> SUFFICES ASSUME NEW i \in 1 .. n + 1
                 PROVE  g[i].started_at <= now /\ g[i].ended_at <= now
      BY <1>4, <1>5 DEF HistoryInPast, g
    <2>1. CASE i = n + 1
      BY <1>1, <1>5, <2>1
    <2>2. CASE i # n + 1
      BY <1>5, <2>2 DEF IInv, HistoryInPast, n, h
    <2> QED BY <2>1, <2>2
  <1> QED
    BY <1>7, <1>8, <1>9, <1>10, <1>11 DEF IInv

(* A rollback only adds metadata to a record that failed.                    *)
Marks(keys) ==
    /\ current_phase.name = "Failed"
    /\ operation_history' = [operation_history EXCEPT ![Len(operation_history)] =
                                [LastRecord EXCEPT !.metadata = LastRecord.metadata \cup keys]]
    /\ UNCHANGED <<current_phase, now>>

(* rollback_operation writes metadata keys only.                             *)
LEMMA RollbackMarks ==
    ASSUME NEW from, NEW r
    PROVE  RollbackMetadata(from, r) \subseteq MetadataKeys
  BY Zenon DEF RollbackMetadata, RollbackKey, MetadataKeys

(* Marking the record of a failed operation preserves the invariant.         *)
LEMMA MarkStep ==
    ASSUME IInv, NEW keys \in SUBSET MetadataKeys, Marks(keys)
    PROVE  IInv'
  <1> DEFINE r == [LastRecord EXCEPT !.metadata = LastRecord.metadata \cup keys]
  <1>1. /\ PhaseCore(current_phase)  /\ operation_history # <<>>
        /\ operation_history \in Seq(Record)  /\ now \in Time
    BY DEF IInv, CoreType, HistoryMirrorsPhase, NoPhase, Marks, NONE
  <1>2. LastRecord \in Record
    BY <1>1 DEF LastRecord
  <1>4. r \in Record
    BY <1>2 DEF Record
  <1>5. /\ r.op = current_phase.op  /\ r.final_phase = current_phase.name
        /\ r.started_at = LastRecord.started_at
        /\ (r.ended_at = NoTime) <=> (current_phase.name \in ActivePhases)
        /\ r.ended_at <= now
        /\ r.successful <=> (current_phase.name = "Completed")
        /\ (r.error # NONE) <=> (current_phase.name = "Failed")
        /\ r.final_phase = "Failed"
    <2>1. LastRecord.ended_at <= now
      BY <1>1 DEF IInv, HistoryInPast, LastRecord
    <2> QED
      BY <1>1, <1>2, <2>1 DEF IInv, HistoryMirrorsPhase, InProgress, Record, Marks
  <1>6. /\ current_phase' = current_phase
        /\ operation_history' = [operation_history EXCEPT ![Len(operation_history)] = r]
        /\ now' = now
    BY DEF Marks
  <1> HIDE DEF r
  <1> QED
    BY <1>1, <1>4, <1>5, <1>6, RewriteLast, Zenon

(* rollback_operation is such a step.                                        *)
LEMMA RollbackIsMark ==
    ASSUME rollback_operation
    PROVE  Marks(RollbackMetadata(current_phase.from, LastRecord))
  BY DEF rollback_operation, Marks, LastRecord

(* add_verification_result touches nothing the invariant looks at but the    *)
(* result counter of the phase.                                              *)
LEMMA ResultStep ==
    ASSUME IInv, TypeOK, add_verification_result
    PROVE  IInv'
  <1> DEFINE p == [current_phase EXCEPT !.results = @ + 1]
  <1>1. current_phase \in Phase
    BY DEF TypeOK, NoPhase, add_verification_result, NONE
  <1>2. PhaseCore(p) /\ p.name = current_phase.name /\ p.op = current_phase.op
    BY <1>1 DEF Phase, PhaseCore, add_verification_result
  <1>3. current_phase' = p /\ operation_history' = operation_history /\ now' = now
    BY DEF add_verification_result
  <1>4. current_phase # NoPhase /\ p # NoPhase
    BY <1>1, <1>2 DEF Phase, NoPhase, NONE, ActivePhases, TerminalPhases
  <1> HIDE DEF p
  <1>5. CoreType'
    BY <1>2, <1>3 DEF IInv, CoreType
  <1>6. HistoryMirrorsPhase'
    BY <1>2, <1>3, <1>4 DEF IInv, HistoryMirrorsPhase, LastRecord, InProgress
  <1>7. NoOverlap' /\ RollbackOnlyFailed' /\ HistoryInPast'
    BY <1>3 DEF IInv, NoOverlap, RollbackOnlyFailed, HistoryInPast
  <1> QED
    BY <1>5, <1>6, <1>7 DEF IInv

(* The clock moving forward keeps every time stamp in the past.              *)
LEMMA TickStep ==
    ASSUME IInv, Tick
    PROVE  IInv'
  <1>1. now' \in Time /\ now < now' /\ now \in Int /\ now' \in Int
    BY BoundAssumption DEF IInv, CoreType, Time, Tick
  <1>2. current_phase' = current_phase /\ operation_history' = operation_history
    BY DEF Tick
  <1>3. CoreType'
    BY <1>1, <1>2 DEF IInv, CoreType
  <1>4. HistoryMirrorsPhase' /\ NoOverlap' /\ RollbackOnlyFailed'
    BY <1>2 DEF IInv, HistoryMirrorsPhase, LastRecord, InProgress, NoOverlap, RollbackOnlyFailed
  <1>5. HistoryInPast'
    <2> SUFFICES ASSUME NEW i \in 1 .. Len(operation_history)
                 PROVE  /\ operation_history[i].started_at <= now'
                        /\ operation_history[i].ended_at <= now'
      BY <1>2 DEF HistoryInPast
    <2>1. operation_history[i] \in Record
      BY DEF IInv, CoreType
    <2>2. /\ operation_history[i].started_at \in Int
          /\ operation_history[i].ended_at \in Int
      BY <2>1 DEF Record, Time, NoTime
    <2> QED
      BY <1>1, <2>2 DEF IInv, HistoryInPast
  <1> QED
    BY <1>3, <1>4, <1>5 DEF IInv

(* Every step of the manager preserves the inductive invariant.              *)
LEMMA Inductive == IInv /\ TypeOK /\ [Next]_mvars => IInv'
  <1> SUFFICES ASSUME IInv, TypeOK, [Next]_mvars
               PROVE  IInv'
    OBVIOUS
  <1>1. ASSUME NEW op \in Operations, start_operation(op)
        PROVE  IInv'
    BY <1>1, StartStep
  <1>2. CASE transition_to_validating
    BY <1>2, TransitionStep DEF transition_to_validating, ActivePhases
  <1>3. CASE transition_to_planning
    BY <1>3, TransitionStep DEF transition_to_planning, ActivePhases
  <1>4. CASE transition_to_resource_allocating
    BY <1>4, TransitionStep DEF transition_to_resource_allocating, ActivePhases
  <1>5. ASSUME NEW ids \in InstanceIds, transition_to_instance_preparing(ids)
        PROVE  IInv'
    BY <1>5, TransitionStep DEF transition_to_instance_preparing, ActivePhases
  <1>6. ASSUME NEW config \in Configs, transition_to_configuring(config)
        PROVE  IInv'
    BY <1>6, TransitionStep DEF transition_to_configuring, ActivePhases
  <1>7. CASE transition_to_verifying
    BY <1>7, TransitionStep DEF transition_to_verifying, ActivePhases
  <1>8. CASE add_verification_result
    BY <1>8, ResultStep
  <1>9. CASE transition_to_finalizing
    BY <1>9, TransitionStep DEF transition_to_finalizing, ActivePhases
  <1>10. CASE check_timeouts
    BY <1>10, CloseStep, Zenon DEF check_timeouts, TerminalPhases, ErrorTypes, NONE
  <1>11. CASE cancel_operation
    BY <1>11, CloseStep, Zenon DEF cancel_operation, TerminalPhases, ErrorTypes, NONE
  <1>12. ASSUME NEW error \in ErrorTypes \ {NONE, "Timeout"}, fail_operation(error)
         PROVE  IInv'
    BY <1>12, CloseStep, Zenon DEF fail_operation, TerminalPhases
  <1>13. CASE complete_operation
    BY <1>13, CloseStep, Zenon DEF complete_operation, TerminalPhases, ErrorTypes, NONE
  <1>14. CASE rollback_operation
    BY <1>14, RollbackIsMark, RollbackMarks, MarkStep
  <1>15. CASE Tick
    BY <1>15, TickStep, Zenon
  <1>16. CASE UNCHANGED mvars
    BY <1>16 DEF mvars, IInv, CoreType, HistoryMirrorsPhase, LastRecord, InProgress,
                 NoOverlap, RollbackOnlyFailed, HistoryInPast
  <1> QED
    BY <1>1, <1>2, <1>3, <1>4, <1>5, <1>6, <1>7, <1>8, <1>9, <1>10, <1>11, <1>12,
       <1>13, <1>14, <1>15, <1>16, Zenon DEF Next

(* What a manager puts in its phases is typed, too.                          *)
LEMMA PhaseType ==
    ASSUME IInv, TypeOK, [Next]_mvars
    PROVE  current_phase' \in Phase \cup {NoPhase}
  <1>1. now \in Time /\ (InProgress => current_phase \in Phase)
    BY DEF TypeOK, InProgress, NoPhase, ActivePhases, NONE
  <1>2. ASSUME NEW s \in ActivePhases, NEW t \in ActivePhases,
               NEW ids \in InstanceIds \cup {Nil}, NEW config \in Configs \cup {Nil},
               transition(s, t, ids, config)
        PROVE  current_phase' \in Phase
    BY <1>1, <1>2, BoundAssumption DEF Phase, transition, InProgress
  <1>3. ASSUME NEW name \in TerminalPhases, NEW successful, NEW error,
               close(name, successful, error)
        PROVE  current_phase' \in Phase
    BY <1>1, <1>3, BoundAssumption DEF Phase, close, ended_phase, InProgress
  <1>4. ASSUME NEW op \in Operations, start_operation(op)
        PROVE  current_phase' \in Phase
    BY <1>1, <1>4, BoundAssumption DEF start_operation, new_requested, Phase, ActivePhases
  <1>5. CASE add_verification_result
    <2>1. InProgress
      BY <1>5 DEF add_verification_result, InProgress, ActivePhases
    <2> QED
      BY <1>1, <1>5, <2>1, BoundAssumption DEF add_verification_result, Phase
  <1>6. CASE transition_to_validating \/ transition_to_planning \/ transition_to_resource_allocating
    BY <1>2, <1>6 DEF transition_to_validating, transition_to_planning,
                      transition_to_resource_allocating, ActivePhases
  <1>7. CASE transition_to_verifying \/ transition_to_finalizing
    BY <1>2, <1>7 DEF transition_to_verifying, transition_to_finalizing, ActivePhases
  <1>8. CASE \/ \E ids \in InstanceIds : transition_to_instance_preparing(ids)
             \/ \E config \in Configs : transition_to_configuring(config)
    BY <1>2, <1>8 DEF transition_to_instance_preparing, transition_to_configuring, ActivePhases
  <1>9. CASE check_timeouts \/ cancel_operation \/ complete_operation \/ \E error \in ErrorTypes : fail_operation(error)
    BY <1>3, <1>9, Zenon DEF check_timeouts, cancel_operation, complete_operation, fail_operation, TerminalPhases
  <1>10. CASE UNCHANGED current_phase
    BY <1>10 DEF TypeOK
  <1> QED
    BY <1>4, <1>5, <1>6, <1>7, <1>8, <1>9, <1>10 DEF Next, rollback_operation, Tick, mvars

(* The invariant holds of a new manager.                                     *)
LEMMA Initial == Init => IInv /\ TypeOK
  BY BoundAssumption DEF Init, IInv, CoreType, TypeOK, HistoryMirrorsPhase, NoOverlap,
     RollbackOnlyFailed, HistoryInPast, Time

(* The inductive invariant holds in every reachable state.                   *)
THEOREM Invariant == Spec => [](IInv /\ TypeOK)
  <1>1. IInv /\ TypeOK /\ [Next]_mvars => TypeOK'
    <2> SUFFICES ASSUME IInv, TypeOK, [Next]_mvars PROVE TypeOK'
      OBVIOUS
    <2>1. CoreType'
      BY Inductive DEF IInv
    <2> QED
      BY <2>1, PhaseType DEF CoreType, TypeOK
  <1> QED
    BY <1>1, Initial, Inductive, PTL DEF Spec

(* The manager's state is well typed whatever the callers do.                *)
THEOREM TypeCorrect == Spec => []TypeOK
  BY Invariant, PTL

(* The last record always describes the current phase.                       *)
THEOREM MirrorTheorem == Spec => []HistoryMirrorsPhase
  <1>1. IInv => HistoryMirrorsPhase
    BY DEF IInv
  <1> QED
    BY Invariant, <1>1, PTL

(* Operations of one cluster never overlap in time.                          *)
THEOREM NoOverlapTheorem == Spec => []NoOverlap
  <1>1. IInv => NoOverlap
    BY DEF IInv
  <1> QED
    BY Invariant, <1>1, PTL

(* Only operations that failed carry the marks of a rollback.                *)
THEOREM RollbackTheorem == Spec => []RollbackOnlyFailed
  <1>1. IInv => RollbackOnlyFailed
    BY DEF IInv
  <1> QED
    BY Invariant, <1>1, PTL

(* What ClosedRecordsFrozen asks of one step.                                *)
Frozen ==
    /\ Len(operation_history') >= Len(operation_history)
    /\ \A i \in 1 .. Len(operation_history) :
         operation_history[i].ended_at # NoTime =>
            Outcome(operation_history'[i]) = Outcome(operation_history[i])

(* A step that only rewrites the last record of an operation in progress     *)
(* rewrites a record that is open.                                           *)
LEMMA OpenRewriteFrozen ==
    ASSUME IInv, InProgress, NEW r \in Record,
           operation_history' = [operation_history EXCEPT ![Len(operation_history)] = r]
    PROVE  Frozen
  <1> DEFINE h == operation_history
             g == operation_history'
  <1>1. h # <<>> /\ h \in Seq(Record)
    BY DEF IInv, CoreType, HistoryMirrorsPhase, NoPhase, InProgress, ActivePhases, NONE
  <1>2. h[Len(h)].ended_at = NoTime
    BY <1>1 DEF IInv, HistoryMirrorsPhase, LastRecord
  <1>3. /\ Len(g) = Len(h)
        /\ Len(h) \in Nat \ {0}
        /\ \A i \in 1 .. Len(h) - 1 : g[i] = h[i]
    BY <1>1, ReplaceLast
  <1>4. ASSUME NEW i \in 1 .. Len(h), h[i].ended_at # NoTime
        PROVE  Outcome(g[i]) = Outcome(h[i])
    <2> HIDE DEF h, g
    <2>1. i # Len(h)
      BY <1>2, <1>4
    <2>2. i \in 1 .. Len(h) - 1
      BY <1>3, <2>1
    <2>3. g[i] = h[i]
      BY <1>3, <2>2
    <2> QED
      BY <2>3
  <1>5. Len(g) >= Len(h)
    <2> HIDE DEF h, g
    <2> QED
      BY <1>3
  <1> QED
    BY <1>4, <1>5 DEF Frozen

(* Every step of the manager leaves closed records alone.                    *)
LEMMA FrozenStep == IInv /\ [Next]_mvars => Frozen
  <1> SUFFICES ASSUME IInv, [Next]_mvars
               PROVE  Frozen
    OBVIOUS
  <1>h. operation_history \in Seq(Record) /\ now \in Time /\ Len(operation_history) \in Nat
    BY DEF IInv, CoreType
  <1>t. ASSUME NEW s \in ActivePhases, NEW t \in ActivePhases, NEW ids, NEW config,
               transition(s, t, ids, config)
        PROVE  Frozen
    <2> DEFINE r == [LastRecord EXCEPT !.final_phase = t]
    <2>1. InProgress /\ operation_history # <<>>
      BY <1>t DEF IInv, CoreType, HistoryMirrorsPhase, NoPhase, transition, InProgress,
                  ActivePhases, NONE
    <2>2. LastRecord \in Record
      BY <1>h, <2>1 DEF LastRecord
    <2>3. r \in Record
      BY <2>2 DEF Record
    <2>4. operation_history' = [operation_history EXCEPT ![Len(operation_history)] = r]
      BY <1>t DEF transition, LastRecord
    <2> QED
      BY <2>1, <2>3, <2>4, OpenRewriteFrozen, Zenon
  <1>c. ASSUME NEW name \in TerminalPhases, NEW successful \in BOOLEAN,
               NEW error \in ErrorTypes, close(name, successful, error)
        PROVE  Frozen
    <2> DEFINE r == [LastRecord EXCEPT !.final_phase = name, !.ended_at = now,
                                       !.successful = successful, !.error = error]
    <2>1. InProgress /\ operation_history # <<>>
      BY <1>c DEF IInv, CoreType, HistoryMirrorsPhase, NoPhase, close, ended_phase, ended_record, InProgress,
                  ActivePhases, NONE
    <2>2. LastRecord \in Record
      BY <1>h, <2>1 DEF LastRecord
    <2>3. r \in Record
      BY <1>h, <2>2, Zenon DEF Record
    <2>4. operation_history' = [operation_history EXCEPT ![Len(operation_history)] = r]
      BY <1>c DEF close, ended_phase, ended_record, LastRecord
    <2> QED
      BY <2>1, <2>3, <2>4, OpenRewriteFrozen, Zenon
  <1>u. ASSUME operation_history' = operation_history
        PROVE  Frozen
    BY <1>h, <1>u DEF Frozen
  <1>1. ASSUME NEW op \in Operations, start_operation(op)
        PROVE  Frozen
    <2> DEFINE r == [op |-> op, started_at |-> now, ended_at |-> NoTime,
                     final_phase |-> "Requested", successful |-> FALSE, error |-> NONE,
                     phase_history |-> {}, metadata |-> {}]
    <2>1. r \in Record
      BY <1>h DEF Record, ErrorTypes, NONE, ActivePhases
    <2>2. operation_history' = Append(operation_history, r)
      BY <1>1 DEF start_operation
    <2> HIDE DEF r
    <2> QED
      BY <1>h, <2>1, <2>2, AppendLast DEF Frozen
  <1>2. CASE transition_to_validating
    BY <1>2, <1>t DEF transition_to_validating, ActivePhases
  <1>3. CASE transition_to_planning
    BY <1>3, <1>t DEF transition_to_planning, ActivePhases
  <1>4. CASE transition_to_resource_allocating
    BY <1>4, <1>t DEF transition_to_resource_allocating, ActivePhases
  <1>5. ASSUME NEW ids \in InstanceIds, transition_to_instance_preparing(ids)
        PROVE  Frozen
    BY <1>5, <1>t DEF transition_to_instance_preparing, ActivePhases
  <1>6. ASSUME NEW config \in Configs, transition_to_configuring(config)
        PROVE  Frozen
    BY <1>6, <1>t DEF transition_to_configuring, ActivePhases
  <1>7. CASE transition_to_verifying
    BY <1>7, <1>t DEF transition_to_verifying, ActivePhases
  <1>8. CASE add_verification_result
    BY <1>8, <1>u DEF add_verification_result
  <1>9. CASE transition_to_finalizing
    BY <1>9, <1>t DEF transition_to_finalizing, ActivePhases
  <1>10. CASE check_timeouts
    BY <1>10, <1>c, Zenon DEF check_timeouts, TerminalPhases, ErrorTypes, NONE
  <1>11. CASE cancel_operation
    BY <1>11, <1>c, Zenon DEF cancel_operation, TerminalPhases, ErrorTypes, NONE
  <1>12. ASSUME NEW error \in ErrorTypes \ {NONE, "Timeout"}, fail_operation(error)
         PROVE  Frozen
    BY <1>12, <1>c, Zenon DEF fail_operation, TerminalPhases
  <1>13. CASE complete_operation
    BY <1>13, <1>c, Zenon DEF complete_operation, TerminalPhases, ErrorTypes, NONE
  <1>14. CASE rollback_operation
    <2> DEFINE r == [LastRecord EXCEPT
                        !.metadata = @ \cup RollbackMetadata(current_phase.from, LastRecord)]
    <2>1. operation_history # <<>>
      BY <1>14 DEF IInv, HistoryMirrorsPhase, NoPhase, rollback_operation, NONE
    <2>2. LastRecord \in Record
      BY <1>h, <2>1 DEF LastRecord
    <2>3. r \in Record /\ Outcome(r) = Outcome(LastRecord)
      BY <2>2, Zenon DEF Record, Outcome, RollbackMetadata, RollbackKey, MetadataKeys
    <2>4. operation_history' = [operation_history EXCEPT ![Len(operation_history)] = r]
      BY <1>14 DEF rollback_operation, LastRecord
    <2> HIDE DEF r
    <2>5. /\ Len(operation_history') = Len(operation_history)
          /\ operation_history'[Len(operation_history)] = r
          /\ \A i \in 1 .. Len(operation_history) - 1 :
                operation_history'[i] = operation_history[i]
      BY <1>h, <2>1, <2>3, <2>4, ReplaceLast
    <2> QED
      BY <1>h, <2>3, <2>5 DEF Frozen, LastRecord
  <1>15. CASE Tick
    BY <1>15, <1>u DEF Tick
  <1>16. CASE UNCHANGED mvars
    BY <1>16, <1>u DEF mvars
  <1> QED
    BY <1>1, <1>2, <1>3, <1>4, <1>5, <1>6, <1>7, <1>8, <1>9, <1>10, <1>11, <1>12,
       <1>13, <1>14, <1>15, <1>16, Zenon DEF Next

(* No step drops a record or changes the outcome of a closed one.            *)
THEOREM FrozenTheorem == Spec => ClosedRecordsFrozen
  <1>1. IInv /\ [Next]_mvars => [Frozen]_mvars
    BY FrozenStep
  <1>2. Spec => [][Frozen]_mvars
    BY Invariant, <1>1, PTL DEF Spec
  <1> QED
    BY <1>2 DEF ClosedRecordsFrozen, Frozen
-----------------------------------------------------------------------------
(* A sequence that extends another by one element is an Append of it.        *)
LEMMA ExtendIsAppend ==
    ASSUME NEW S, NEW a \in Seq(S), NEW b \in Seq(S), Len(b) = Len(a) + 1,
           \A i \in 1 .. Len(a) : b[i] = a[i]
    PROVE  b = Append(a, b[Len(b)])
  OBVIOUS

(* The number of records that Log shows: all but the open one.               *)
Closed == Len(operation_history) - (IF InProgress THEN 1 ELSE 0)

(* Log is a sequence of that length.                                         *)
LogShape ==
    /\ Closed \in Nat
    /\ Log \in Seq(ActivePhases \cup TerminalPhases)
    /\ Len(Log) = Closed
    /\ \A i \in 1 .. Closed : Log[i] = operation_history[i].final_phase

(* The refinement mapping is well formed wherever the invariant holds.       *)
LEMMA LogType == IInv => LogShape
  <1> SUFFICES ASSUME IInv
               PROVE  LogShape
    OBVIOUS
  <1>1. operation_history \in Seq(Record)
    BY DEF IInv, CoreType
  <1>2. InProgress => operation_history # <<>>
    BY DEF IInv, HistoryMirrorsPhase, InProgress, NoPhase, ActivePhases, NONE
  <1>3. Closed \in Nat /\ Closed <= Len(operation_history)
    BY <1>1, <1>2 DEF Closed
  <1>4. \A i \in 1 .. Closed :
            operation_history[i].final_phase \in ActivePhases \cup TerminalPhases
    <2> SUFFICES ASSUME NEW i \in 1 .. Closed
                 PROVE  operation_history[i].final_phase \in ActivePhases \cup TerminalPhases
      OBVIOUS
    <2>1. operation_history[i] \in Record
      BY <1>1, <1>3
    <2> QED
      BY <2>1 DEF Record
  <1>5. Log = [i \in 1 .. Closed |-> operation_history[i].final_phase]
    BY DEF Log, Closed
  <1> HIDE DEF Closed
  <1> QED
    BY <1>3, <1>4, <1>5 DEF LogShape

(* The same after a step.                                                    *)
LEMMA LogTypeNext == IInv' => LogShape'
  BY LogType, PTL

(* A step that keeps the number of closed records and their outcomes keeps   *)
(* the log.                                                                  *)
LEMMA LogStays ==
    ASSUME IInv, IInv', Closed' = Closed,
           \A i \in 1 .. Closed : operation_history'[i].final_phase = operation_history[i].final_phase
    PROVE  Log' = Log
  BY DEF Log, Closed

(* A step that closes the open record appends its outcome to the log.        *)
LEMMA LogGrows ==
    ASSUME IInv, IInv', Closed' = Closed + 1,
           \A i \in 1 .. Closed : operation_history'[i].final_phase = operation_history[i].final_phase
    PROVE  Log' = Append(Log, operation_history'[Closed + 1].final_phase)
  <1> DEFINE P == ActivePhases \cup TerminalPhases
             h == operation_history
             g == operation_history'
             m == Log
             k == Log'
             n == Closed
  <1>1. n \in Nat /\ m \in Seq(P) /\ Len(m) = n /\ \A i \in 1 .. n : m[i] = h[i].final_phase
    BY LogType DEF LogShape
  <1>2. k \in Seq(P) /\ Len(k) = n + 1 /\ \A i \in 1 .. n + 1 : k[i] = g[i].final_phase
    BY LogTypeNext DEF LogShape
  <1>3. \A i \in 1 .. n : k[i] = m[i]
    BY <1>1, <1>2
  <1>4. n + 1 \in 1 .. n + 1
    BY <1>1
  <1> HIDE DEF P, h, g, m, k, n
  <1>5. k = Append(m, k[n + 1])
    BY <1>1, <1>2, <1>3, ExtendIsAppend
  <1> QED
    BY <1>2, <1>4, <1>5 DEF k, m, g, n

(* Rewriting the last record keeps the outcomes of the records before it.    *)
LEMMA RewriteKeepsOutcomes ==
    ASSUME IInv, operation_history # <<>>, NEW r \in Record,
           operation_history' = [operation_history EXCEPT ![Len(operation_history)] = r]
    PROVE  /\ Len(operation_history') = Len(operation_history)
           /\ Len(operation_history) \in Nat \ {0}
           /\ operation_history'[Len(operation_history)] = r
           /\ \A i \in 1 .. Len(operation_history) - 1 :
                 operation_history'[i].final_phase = operation_history[i].final_phase
  <1>1. operation_history \in Seq(Record)
    BY DEF IInv, CoreType
  <1>2. /\ Len(operation_history') = Len(operation_history)
        /\ Len(operation_history) \in Nat \ {0}
        /\ operation_history'[Len(operation_history)] = r
        /\ \A i \in 1 .. Len(operation_history) - 1 :
              operation_history'[i] = operation_history[i]
    BY <1>1, ReplaceLast
  <1> QED
    BY <1>2, Zenon

(* A transition from one phase to the next is a step of the abstract machine *)
(* to the next stage.                                                        *)
LEMMA TransitionAdvances ==
    ASSUME IInv, IInv', NEW s \in ActivePhases, NEW t \in ActivePhases, NEW ids, NEW config,
           StageOf[t] = StageOf[s] + 1, StageOf[s] \in 1 .. 7,
           transition(s, t, ids, config)
    PROVE  Stage \in 1 .. 7 /\ Stage' = Stage + 1 /\ Log' = Log
  <1> DEFINE r == [LastRecord EXCEPT !.final_phase = t]
  <1>1. InProgress /\ InProgress' /\ operation_history # <<>>
    BY DEF IInv, CoreType, HistoryMirrorsPhase, NoPhase, transition, InProgress, ActivePhases, NONE
  <1>2. LastRecord \in Record
    BY <1>1 DEF IInv, CoreType, LastRecord
  <1>3. r \in Record
    BY <1>2 DEF Record
  <1>4. operation_history' = [operation_history EXCEPT ![Len(operation_history)] = r]
    BY DEF transition, LastRecord
  <1> HIDE DEF r
  <1>5. /\ Len(operation_history') = Len(operation_history)
        /\ \A i \in 1 .. Len(operation_history) - 1 :
              operation_history'[i].final_phase = operation_history[i].final_phase
    BY <1>1, <1>3, <1>4, RewriteKeepsOutcomes
  <1>6. Closed' = Closed /\ Closed = Len(operation_history) - 1
    BY <1>1, <1>5 DEF Closed
  <1>7. Log' = Log
    BY <1>5, <1>6, LogStays, Zenon
  <1>8. Stage = StageOf[s] /\ Stage' = StageOf[t]
    BY <1>1 DEF Stage, transition
  <1> QED
    BY <1>7, <1>8

(* Closing the record of the operation in progress adds its outcome.         *)
LEMMA CloseEnds ==
    ASSUME IInv, IInv', InProgress, ~InProgress', NEW r \in Record,
           operation_history' = [operation_history EXCEPT ![Len(operation_history)] = r]
    PROVE  Stage \in 1 .. 8 /\ Stage' = 0 /\ Log' = Append(Log, r.final_phase)
  <1>1. operation_history # <<>>
    BY DEF IInv, HistoryMirrorsPhase, NoPhase, InProgress, ActivePhases, NONE
  <1>5. /\ Len(operation_history') = Len(operation_history)
        /\ Len(operation_history) \in Nat \ {0}
        /\ operation_history'[Len(operation_history)] = r
        /\ \A i \in 1 .. Len(operation_history) - 1 :
              operation_history'[i].final_phase = operation_history[i].final_phase
    BY <1>1, RewriteKeepsOutcomes
  <1>6. Closed' = Closed + 1 /\ Closed + 1 = Len(operation_history)
    <2>1. Closed = Len(operation_history) - 1
      BY Zenon DEF Closed
    <2>2. Closed' = Len(operation_history') - 0
      BY Zenon DEF Closed
    <2>3. \A n \in Nat \ {0} : n - 0 = (n - 1) + 1 /\ (n - 1) + 1 = n
      OBVIOUS
    <2> QED
      BY <1>5, <2>1, <2>2, <2>3, Zenon
  <1>7. \A i \in 1 .. Closed : operation_history'[i].final_phase = operation_history[i].final_phase
    <2>1. Closed = Len(operation_history) - 1
      BY Zenon DEF Closed
    <2> QED
      BY <1>5, <2>1, Zenon
  <1>8. Log' = Append(Log, r.final_phase)
    BY <1>5, <1>6, <1>7, LogGrows, Zenon
  <1> QED
    BY <1>8 DEF Stage, StageOf, InProgress, ActivePhases

(* The record of an operation that ends now.                                 *)
Closes(r, name, successful, error) ==
    /\ operation_history # <<>> /\ r \in Record
    /\ r.op = LastRecord.op /\ r.started_at = LastRecord.started_at
    /\ r.metadata = LastRecord.metadata /\ r.final_phase = name
    /\ r.ended_at = now /\ r.successful = successful /\ r.error = error

(* close writes such a record.                                               *)
LEMMA CloseRecord ==
    ASSUME IInv, NEW name \in TerminalPhases, NEW successful \in BOOLEAN,
           NEW error \in ErrorTypes, InProgress
    PROVE  Closes(ended_record(LastRecord, name, successful, error), name, successful, error)
  <1>1. operation_history # <<>> /\ operation_history \in Seq(Record) /\ now \in Time
    BY DEF IInv, CoreType, HistoryMirrorsPhase, NoPhase, InProgress, ActivePhases, NONE
  <1>2. LastRecord \in Record
    BY <1>1 DEF LastRecord
  <1> QED
    BY <1>1, <1>2, Zenon DEF Closes, Record, ended_record

(* Ending an operation is the abstract end with the same outcome.            *)
LEMMA CloseRefines ==
    ASSUME IInv, IInv', NEW name \in TerminalPhases, NEW successful \in BOOLEAN,
           NEW error \in ErrorTypes, close(name, successful, error)
    PROVE  Stage \in 1 .. 8 /\ Stage' = 0 /\ Log' = Append(Log, name)
  <1> DEFINE r == ended_record(LastRecord, name, successful, error)
  <1>1. InProgress /\ ~ InProgress'
    BY DEF close, ended_phase, InProgress, ActivePhases, TerminalPhases
  <1>2. Closes(r, name, successful, error)
    BY <1>1, CloseRecord, Zenon
  <1>4. operation_history' = [operation_history EXCEPT ![Len(operation_history)] = r]
    BY DEF close, LastRecord
  <1> HIDE DEF r
  <1>3. r \in Record /\ r.final_phase = name
    BY <1>2 DEF Closes
  <1> QED
    BY <1>1, <1>3, <1>4, CloseEnds, Zenon

(* start_operation is the abstract start: the log does not change, because   *)
(* the new record is open.                                                   *)
LEMMA StartRefines ==
    ASSUME IInv, IInv', NEW op \in Operations, start_operation(op)
    PROVE  Stage = 0 /\ Stage' = 1 /\ Log' = Log
  <1> DEFINE r == [op |-> op, started_at |-> now, ended_at |-> NoTime,
                   final_phase |-> "Requested", successful |-> FALSE, error |-> NONE,
                   phase_history |-> {}, metadata |-> {}]
  <1>1. operation_history \in Seq(Record) /\ now \in Time
    BY Zenon DEF IInv, CoreType
  <1>2. r \in Record
    BY <1>1 DEF Record, ErrorTypes, NONE, ActivePhases
  <1>3. operation_history' = Append(operation_history, r)
    BY DEF start_operation
  <1>4. ~ InProgress /\ InProgress' /\ Stage = 0 /\ Stage' = 1
    BY DEF start_operation, InProgress, new_requested, ActivePhases, Stage, StageOf
  <1> HIDE DEF r
  <1>5. /\ Len(operation_history') = Len(operation_history) + 1
        /\ Len(operation_history) \in Nat
        /\ \A i \in 1 .. Len(operation_history) :
              operation_history'[i] = operation_history[i]
    BY <1>1, <1>2, <1>3, AppendLast
  <1>6. Closed = Len(operation_history) /\ Closed' = Len(operation_history)
    BY <1>4, <1>5 DEF Closed
  <1>7. Log' = Log
    BY <1>5, <1>6, LogStays
  <1> QED
    BY <1>4, <1>7

(* A rollback is invisible to the abstract machine: it changes no outcome.   *)
LEMMA MarkRefines ==
    ASSUME IInv, IInv', NEW keys \in SUBSET MetadataKeys, Marks(keys)
    PROVE  Stage' = Stage /\ Log' = Log
  <1> DEFINE r == [LastRecord EXCEPT !.metadata = LastRecord.metadata \cup keys]
  <1>1. operation_history # <<>> /\ ~ InProgress /\ ~ InProgress'
    BY DEF IInv, HistoryMirrorsPhase, NoPhase, Marks, NONE, InProgress, ActivePhases
  <1>2. LastRecord \in Record
    BY <1>1 DEF IInv, CoreType, LastRecord
  <1>3. r \in Record /\ r.final_phase = LastRecord.final_phase
    BY <1>2 DEF Record
  <1>4. operation_history' = [operation_history EXCEPT ![Len(operation_history)] = r]
    BY DEF Marks
  <1> HIDE DEF r
  <1>5. /\ Len(operation_history') = Len(operation_history)
        /\ Len(operation_history) \in Nat \ {0}
        /\ operation_history'[Len(operation_history)] = r
        /\ \A i \in 1 .. Len(operation_history) - 1 :
              operation_history'[i].final_phase = operation_history[i].final_phase
    BY <1>1, <1>3, <1>4, RewriteKeepsOutcomes
  <1>6. \A i \in 1 .. Len(operation_history) :
            operation_history'[i].final_phase = operation_history[i].final_phase
    BY <1>3, <1>5 DEF LastRecord
  <1>7. Closed = Len(operation_history) /\ Closed' = Closed
    BY <1>1, <1>5 DEF Closed
  <1>8. Log' = Log
    BY <1>6, <1>7, LogStays
  <1> QED
    BY <1>1, <1>8 DEF Stage

LifecycleStep == [Lifecycle!Next]_(Lifecycle!lvars)

(* Every step of the manager is a step of the abstract lifecycle or changes  *)
(* nothing that it shows.                                                    *)
LEMMA RefinementStep ==
    ASSUME IInv, IInv', TypeOK, [Next]_mvars
    PROVE  LifecycleStep
  <1>s. ASSUME Log' = Log, Stage' = Stage
        PROVE  LifecycleStep
    BY <1>s DEF LifecycleStep, Lifecycle!lvars
  <1>u. ASSUME operation_history' = operation_history, current_phase'.name = current_phase.name
        PROVE  LifecycleStep
    BY <1>s, <1>u DEF Log, Stage, InProgress
  <1>t. ASSUME NEW s \in ActivePhases, NEW t \in ActivePhases, NEW ids, NEW config,
               StageOf[t] = StageOf[s] + 1, StageOf[s] \in 1 .. 7,
               transition(s, t, ids, config)
        PROVE  LifecycleStep
    BY <1>t, TransitionAdvances DEF LifecycleStep, Lifecycle!Next, Lifecycle!Advance, Lifecycle!Stages
  <1>c. ASSUME NEW name \in TerminalPhases, NEW successful \in BOOLEAN,
               NEW error \in ErrorTypes, close(name, successful, error)
        PROVE  LifecycleStep
    BY <1>c, CloseRefines DEF LifecycleStep, Lifecycle!Next, Lifecycle!End, Lifecycle!Stages,
                              Lifecycle!Outcomes, TerminalPhases
  <1>1. ASSUME NEW op \in Operations, start_operation(op)
        PROVE  LifecycleStep
    BY <1>1, StartRefines DEF LifecycleStep, Lifecycle!Next, Lifecycle!Start
  <1>2. CASE transition_to_validating
    BY <1>2, <1>t DEF transition_to_validating, ActivePhases, StageOf
  <1>3. CASE transition_to_planning
    BY <1>3, <1>t DEF transition_to_planning, ActivePhases, StageOf
  <1>4. CASE transition_to_resource_allocating
    BY <1>4, <1>t DEF transition_to_resource_allocating, ActivePhases, StageOf
  <1>5. ASSUME NEW ids \in InstanceIds, transition_to_instance_preparing(ids)
        PROVE  LifecycleStep
    BY <1>5, <1>t DEF transition_to_instance_preparing, ActivePhases, StageOf
  <1>6. ASSUME NEW config \in Configs, transition_to_configuring(config)
        PROVE  LifecycleStep
    BY <1>6, <1>t DEF transition_to_configuring, ActivePhases, StageOf
  <1>7. CASE transition_to_verifying
    BY <1>7, <1>t DEF transition_to_verifying, ActivePhases, StageOf
  <1>8. CASE add_verification_result
    <2>1. current_phase \in Phase
      BY <1>8 DEF TypeOK, NoPhase, add_verification_result, NONE
    <2>2. current_phase'.name = current_phase.name
      BY <1>8, <2>1 DEF add_verification_result, Phase
    <2> QED
      BY <1>8, <1>u, <2>2 DEF add_verification_result
  <1>9. CASE transition_to_finalizing
    BY <1>9, <1>t DEF transition_to_finalizing, ActivePhases, StageOf
  <1>10. CASE check_timeouts
    BY <1>10, <1>c, Zenon DEF check_timeouts, TerminalPhases, ErrorTypes
  <1>11. CASE cancel_operation
    BY <1>11, <1>c, Zenon DEF cancel_operation, TerminalPhases, ErrorTypes, NONE
  <1>12. ASSUME NEW error \in ErrorTypes \ {NONE, "Timeout"}, fail_operation(error)
         PROVE  LifecycleStep
    BY <1>12, <1>c, Zenon DEF fail_operation, TerminalPhases
  <1>13. CASE complete_operation
    BY <1>13, <1>c, Zenon DEF complete_operation, TerminalPhases, ErrorTypes, NONE
  <1>14. CASE rollback_operation
    BY <1>14, <1>s, RollbackIsMark, RollbackMarks, MarkRefines
  <1>15. CASE Tick
    BY <1>15, <1>u DEF Tick
  <1>16. CASE UNCHANGED mvars
    BY <1>16, <1>u DEF mvars
  <1> QED
    BY <1>1, <1>2, <1>3, <1>4, <1>5, <1>6, <1>7, <1>8, <1>9, <1>10, <1>11, <1>12,
       <1>13, <1>14, <1>15, <1>16, Zenon DEF Next

(* A new manager maps to the abstract initial state.                         *)
LEMMA RefinementInit == Init => Lifecycle!Init
  BY DEF Init, Lifecycle!Init, Stage, Log, InProgress, NoPhase, ActivePhases, NONE

(* The manager implements the abstract lifecycle, whatever the operations,   *)
(* the time limits and the order of the calls.                               *)
THEOREM LifecycleTheorem == Spec => RefinesLifecycle
  <1>1. IInv /\ IInv' /\ TypeOK /\ [Next]_mvars => [Lifecycle!Next]_(Lifecycle!lvars)
    BY RefinementStep DEF LifecycleStep
  <1> QED
    BY Invariant, RefinementInit, <1>1, PTL DEF Spec, RefinesLifecycle, Lifecycle!Spec

-----------------------------------------------------------------------------
(* The cluster.  Its steps are of a few kinds, and what the invariants say   *)
(* is proved kind by kind.                                                   *)

Outcomes == {"Failed", "Canceled"}

(* The operation goes on to its next phase.                                  *)
Moves(s, t) ==
    /\ StageOf[t] = StageOf[s] + 1 /\ StageOf[s] \in 1 .. 7
    /\ \E ids, config : transition(s, t, ids, config)
    /\ ~ TimedOut
    /\ UNCHANGED <<template, policy, churn, start>>
    /\ s # "Configuring" => members' = members
    /\ s = "Configuring" =>
         \E result \in apply_configuration_changes(Op) : result.ok /\ members' = result.members
    /\ s = "Validating" => validate_scaling_operation(Op)

Moving == \E s, t \in ActivePhases : Moves(s, t)

(* The operation ends without success; a health check rolls it back at once. *)
Stops(name, error) ==
    /\ InProgress
    /\ current_phase' = ended_phase(name)
    /\ \E r \in Record :
         /\ r.op = LastRecord.op /\ r.started_at = LastRecord.started_at
         /\ r.final_phase = name /\ r.ended_at = now /\ r.successful = FALSE /\ r.error = error
         /\ name # "Failed" => r.metadata = {}
         /\ operation_history' = [operation_history EXCEPT ![Len(operation_history)] = r]
    /\ UNCHANGED <<now, template, policy, churn, start>>
    /\ \/ members' = members
       \/ /\ current_phase.name = "Configuring" /\ error = "StepFailed"
          /\ \E result \in apply_configuration_changes(Op) : members' = result.members

Rolls == \E keys \in SUBSET MetadataKeys : Marks(keys) /\ UNCHANGED cvars

(* Somebody changes the cluster.                                             *)
Changes ==
    \/ \E id \in BaseIds : insert(id)
    \/ \E id \in Ids : remove(id) \/ heartbeat(id)
    \/ \E p \in Policies \cup {Nil} : set_scaling_policy(p)
    \/ \E id \in BaseIds \cup {Nil} : set_template_instance_id(id)

(* The phases whose step changes only the manager, when it succeeds.         *)
LEMMA MovesByTransition ==
    ASSUME NEW s \in ActivePhases \ {"Configuring", "Validating"}, NEW t \in ActivePhases,
           NEW ids, NEW config, StageOf[t] = StageOf[s] + 1, StageOf[s] \in 1 .. 7,
           transition(s, t, ids, config), Processing(s), UNCHANGED cvars
    PROVE  Moving
  <1>1. Moves(s, t)
    BY DEF Moves, Processing, cvars
  <1> QED
    BY <1>1, Zenon DEF Moving

(* Failing, timing out and canceling stop an operation.                      *)
LEMMA StopsByClose ==
    ASSUME IInv, NEW name \in Outcomes, NEW error \in ErrorTypes,
           (error # NONE) <=> (name = "Failed"), close(name, FALSE, error),
           UNCHANGED <<template, policy, churn, start>>,
           \/ members' = members
           \/ /\ current_phase.name = "Configuring" /\ error = "StepFailed"
              /\ \E result \in apply_configuration_changes(Op) : members' = result.members
    PROVE  Stops(name, error)
  <1> DEFINE r == ended_record(LastRecord, name, FALSE, error)
  <1>1. InProgress /\ name \in TerminalPhases
    BY DEF close, Outcomes, TerminalPhases
  <1>r. Closes(r, name, FALSE, error)
    BY <1>1, CloseRecord, Zenon
  <1>3. operation_history' = [operation_history EXCEPT ![Len(operation_history)] = r]
    BY Zenon DEF close, LastRecord
  <1> HIDE DEF r
  <1>2. /\ r \in Record /\ r.op = LastRecord.op /\ r.started_at = LastRecord.started_at
        /\ r.final_phase = name /\ r.ended_at = now /\ r.successful = FALSE /\ r.error = error
        /\ r.metadata = LastRecord.metadata /\ operation_history # <<>>
    BY <1>r DEF Closes
  <1>4. LastRecord.metadata = {}
    <2>1. LastRecord.metadata # {} => LastRecord.final_phase = "Failed"
      <3>1. operation_history # <<>> /\ operation_history \in Seq(Record)
        BY <1>2, Zenon DEF IInv, CoreType
      <3> QED
        BY <3>1 DEF IInv, RollbackOnlyFailed, LastRecord
    <2>2. LastRecord.final_phase # "Failed"
      BY <1>1 DEF IInv, HistoryMirrorsPhase, InProgress, ActivePhases, NoPhase, NONE
    <2> QED
      BY <2>1, <2>2
  <1> QED
    BY <1>1, <1>2, <1>3, <1>4, Zenon DEF Stops, close


(* So does a health check, which rolls the operation back at once.           *)
LEMMA StopsByRollBack ==
    ASSUME IInv, NEW error \in {"Timeout", "HealthCheckFailed"}, fail_and_roll_back(error)
    PROVE  Stops("Failed", error)
  <1> DEFINE q == ended_record(LastRecord, "Failed", FALSE, error)
             M == RollbackMetadata(current_phase.name, q) \cup {"cluster_rollback_status"}
             r == [q EXCEPT !.metadata = q.metadata \cup M]
  <1>1. InProgress /\ "Failed" \in TerminalPhases /\ error \in ErrorTypes
    BY DEF fail_and_roll_back, TerminalPhases, ErrorTypes
  <1>q. Closes(q, "Failed", FALSE, error)
    BY <1>1, CloseRecord, Zenon
  <1>2. /\ q \in Record /\ q.op = LastRecord.op /\ q.started_at = LastRecord.started_at
        /\ q.final_phase = "Failed" /\ q.ended_at = now /\ q.successful = FALSE /\ q.error = error
    <2> HIDE DEF q
    <2> QED
      BY <1>q DEF Closes
  <1>3. operation_history' = [operation_history EXCEPT ![Len(operation_history)] = r]
    <2>1. RolledBack(current_phase.name, q) = r
      BY <1>2, Zenon DEF RolledBack, Record
    <2> HIDE DEF r
    <2> QED
      BY <2>1, Zenon DEF fail_and_roll_back, LastRecord
  <1>4. M \subseteq MetadataKeys
    BY RollbackMarks, Zenon DEF MetadataKeys
  <1> HIDE DEF q, M
  <1>5. /\ r \in Record /\ r.op = q.op /\ r.started_at = q.started_at /\ r.final_phase = q.final_phase
        /\ r.ended_at = q.ended_at /\ r.successful = q.successful /\ r.error = q.error
    BY <1>2, <1>4 DEF Record
  <1> HIDE DEF r
  <1> QED
    BY <1>1, <1>2, <1>3, <1>5, Zenon DEF Stops, fail_and_roll_back, cvars

(* rollback_scaling_operation marks the record that failed.                  *)
LEMMA RollsBack ==
    ASSUME IInv, rollback_scaling_operation
    PROVE  Rolls
  <1> DEFINE M == RollbackMetadata(current_phase.from, LastRecord) \cup {"cluster_rollback_status"}
  <1>1. operation_history # <<>> /\ operation_history \in Seq(Record)
    BY DEF IInv, CoreType, HistoryMirrorsPhase, NoPhase, NONE, rollback_scaling_operation
  <1>2. LastRecord \in Record
    BY <1>1 DEF LastRecord
  <1>3. M \subseteq MetadataKeys
    BY RollbackMarks DEF MetadataKeys
  <1>4. RolledBack(current_phase.from, LastRecord) =
            [LastRecord EXCEPT !.metadata = LastRecord.metadata \cup M]
    BY <1>2 DEF RolledBack, Record
  <1> HIDE DEF M
  <1>5. Marks(M)
    BY <1>4, ZenonT(40) DEF rollback_scaling_operation, Marks, LastRecord
  <1> QED
    BY <1>3, <1>5, Zenon DEF Rolls, rollback_scaling_operation

Stopping ==
    \E name \in Outcomes, error \in ErrorTypes :
        ((error # NONE) <=> (name = "Failed")) /\ Stops(name, error)

(* The steps of a cluster.                                                   *)
LEMMA ClusterKinds ==
    ASSUME IInv, ClusterNext
    PROVE  \/ \E op \in Operations : start_scaling_state_machine(op)
           \/ Moving
           \/ Stopping
           \/ process_finalizing
           \/ Rolls
           \/ lose_scaling_manager
           \/ Changes
           \/ Tick /\ UNCHANGED cvars
  <1>1. ASSUME step_failed PROVE Stopping
    BY <1>1, StopsByClose DEF Stopping, step_failed, fail_operation, cvars, Outcomes, ErrorTypes, NONE
  <1>2. CASE process_timeout
    BY <1>2, StopsByClose DEF Stopping, process_timeout, check_timeouts, cvars, Outcomes, ErrorTypes, NONE
  <1>3. CASE cancel_scaling_state_machine
    BY <1>3, StopsByClose DEF Stopping, cancel_scaling_state_machine, cancel_operation, cvars,
                              Outcomes, ErrorTypes, NONE
  <1>4. CASE check_scaling_operation_health
    BY <1>4, StopsByRollBack DEF Stopping, check_scaling_operation_health, Outcomes, ErrorTypes, NONE
  <1>m. ASSUME NEW s, NEW t, NEW ids, NEW config,
               \/ s = "Requested" /\ t = "Validating"
               \/ s = "Planning" /\ t = "ResourceAllocating"
               \/ s = "ResourceAllocating" /\ t = "InstancePreparing"
               \/ s = "InstancePreparing" /\ t = "Configuring"
               \/ s = "Verifying" /\ t = "Finalizing",
               transition(s, t, ids, config), Processing(s), UNCHANGED cvars
        PROVE  Moving
    <2>1. /\ s \in ActivePhases \ {"Configuring", "Validating"} /\ t \in ActivePhases
          /\ StageOf[t] = StageOf[s] + 1 /\ StageOf[s] \in 1 .. 7
      BY <1>m DEF ActivePhases, StageOf
    <2> QED
      BY <1>m, <2>1, MovesByTransition, Zenon
  <1>5. CASE process_requested
    BY <1>5, <1>m, Zenon DEF process_requested, transition_to_validating
  <1>6. CASE process_validating
    <2>1. CASE validate_scaling_operation(Op) /\ transition_to_planning /\ UNCHANGED cvars
      <3>1. Moves("Validating", "Planning")
        BY <1>6, <2>1 DEF process_validating, Processing, transition_to_planning, Moves,
                          ActivePhases, StageOf, cvars
      <3> QED
        BY <3>1 DEF Moving, ActivePhases
    <2> QED
      BY <1>1, <1>6, <2>1 DEF process_validating
  <1>7. CASE process_planning
    BY <1>1, <1>7, <1>m, Zenon DEF process_planning, transition_to_resource_allocating
  <1>8. CASE process_resource_allocating
    BY <1>1, <1>8, <1>m, Zenon DEF process_resource_allocating, transition_to_instance_preparing
  <1>9. CASE process_instance_preparing
    BY <1>1, <1>9, <1>m, Zenon DEF process_instance_preparing, transition_to_configuring
  <1>10. CASE process_configuring
    <2>1. PICK result \in apply_configuration_changes(Op) :
            /\ members' = result.members
            /\ IF result.ok THEN transition_to_verifying ELSE fail_operation("StepFailed")
      BY <1>10, Zenon DEF process_configuring
    <2>2. Processing("Configuring") /\ UNCHANGED <<template, policy, churn, start>>
      BY <1>10 DEF process_configuring
    <2>3. CASE result.ok
      <3>1. StageOf["Verifying"] = StageOf["Configuring"] + 1 /\ StageOf["Configuring"] \in 1 .. 7
        BY DEF StageOf, ActivePhases
      <3>2. Moves("Configuring", "Verifying")
        BY <2>1, <2>2, <2>3, <3>1 DEF Moves, transition_to_verifying, Processing
      <3> QED
        BY <3>2 DEF Moving, ActivePhases
    <2>4. CASE ~result.ok
      <3>1. close("Failed", FALSE, "StepFailed") /\ current_phase.name = "Configuring"
        BY <2>1, <2>2, <2>4, Zenon DEF fail_operation, Processing
      <3>2. Stops("Failed", "StepFailed")
        BY <2>1, <2>2, <3>1, StopsByClose, Zenon DEF Outcomes, ErrorTypes, NONE
      <3> QED
        BY <3>2 DEF Stopping, Outcomes, ErrorTypes, NONE
    <2> QED
      BY <2>3, <2>4
  <1>11. CASE process_verifying
    BY <1>1, <1>11, <1>m, Zenon DEF process_verifying, transition_to_finalizing
  <1> QED
    BY <1>2, <1>3, <1>4, <1>5, <1>6, <1>7, <1>8, <1>9, <1>10, <1>11, RollsBack, Zenon
    DEF ClusterNext, process_scaling_phase, Changes

(* However an operation is stopped, the manager's invariant holds.           *)
LEMMA StopsEnd ==
    ASSUME IInv, NEW name \in Outcomes, NEW error \in ErrorTypes,
           (error # NONE) <=> (name = "Failed"), Stops(name, error)
    PROVE  IInv'
  <1>1. PICK r \in Record :
          /\ r.op = LastRecord.op /\ r.started_at = LastRecord.started_at
          /\ r.final_phase = name /\ r.ended_at = now /\ r.successful = FALSE /\ r.error = error
          /\ name # "Failed" => r.metadata = {}
          /\ operation_history' = [operation_history EXCEPT ![Len(operation_history)] = r]
    BY Zenon DEF Stops
  <1> DEFINE p == ended_phase(name)
  <1>2. InProgress /\ current_phase' = p /\ now' = now
    BY Zenon DEF Stops
  <1>3. PhaseCore(current_phase) /\ operation_history # <<>> /\ now \in Time
    BY <1>2 DEF IInv, CoreType, HistoryMirrorsPhase, InProgress, NoPhase, ActivePhases, NONE
  <1>4. PhaseCore(p) /\ p.op = current_phase.op /\ p.name = name
    BY <1>2, <1>3, Zenon DEF PhaseCore, ended_phase, InProgress, Outcomes, TerminalPhases
  <1>5. LastRecord.op = current_phase.op
    BY <1>3 DEF IInv, HistoryMirrorsPhase
  <1>6. now <= now /\ now # NoTime
    BY <1>3, BoundAssumption DEF NoTime, Time
  <1>7. name \notin ActivePhases /\ name # "Completed"
    BY DEF ActivePhases, Outcomes
  <1> HIDE DEF p
  <1> QED
    BY <1>1, <1>2, <1>3, <1>4, <1>5, <1>6, <1>7, RewriteLast, Zenon

(* Driven by a cluster, the manager keeps its invariant.                     *)
LEMMA ClusterManager ==
    ASSUME IInv, [ClusterNext]_vars
    PROVE  IInv'
  <1>1. ASSUME UNCHANGED mvars PROVE IInv'
    BY <1>1, Zenon DEF mvars, IInv, CoreType, HistoryMirrorsPhase, LastRecord, InProgress,
                NoOverlap, RollbackOnlyFailed, HistoryInPast
  <1>2. CASE \E op \in Operations : start_scaling_state_machine(op)
    BY <1>2, StartStep DEF start_scaling_state_machine
  <1>3. CASE Moving
    BY <1>3, TransitionStep DEF Moving, Moves
  <1>4. CASE process_finalizing
    BY <1>4, CloseStep, Zenon DEF process_finalizing, complete_operation, TerminalPhases, ErrorTypes, NONE
  <1>5. CASE Rolls
    BY <1>5, MarkStep, Zenon DEF Rolls
  <1>6. CASE lose_scaling_manager
    <2>1. current_phase' = NoPhase /\ operation_history' = <<>> /\ now' = now
      BY <1>6 DEF lose_scaling_manager
    <2> QED
      BY <2>1 DEF IInv, CoreType, HistoryMirrorsPhase, NoOverlap, RollbackOnlyFailed, HistoryInPast
  <1>7. CASE Changes
    BY <1>1, <1>7, Zenon DEF Changes, insert, remove, heartbeat, set_scaling_policy,
                      set_template_instance_id, Outside, mvars
  <1>8. CASE Tick /\ UNCHANGED cvars
    BY <1>8, TickStep
  <1>9. CASE UNCHANGED vars
    BY <1>1, <1>9, Zenon DEF vars, mvars
  <1> QED
    BY <1>2, <1>3, <1>4, <1>5, <1>6, <1>7, <1>8, <1>9, ClusterKinds, StopsEnd, Zenon DEF Stopping


(* A new cluster has a new manager.                                          *)
LEMMA ClusterStart == ClusterInit => IInv
  <1> SUFFICES ASSUME ClusterInit PROVE IInv
    OBVIOUS
  <1>1. current_phase = NoPhase /\ operation_history = <<>> /\ now \in Time
    BY ClusterAssumption DEF ClusterInit, Time
  <1> QED
    BY <1>1 DEF IInv, CoreType, HistoryMirrorsPhase, NoOverlap, RollbackOnlyFailed, HistoryInPast

(* What is known of the manager of a cluster.                                *)
THEOREM ManagerInvariant == ClusterSpec => []IInv
  <1>1. IInv /\ [ClusterNext]_vars => IInv'
    BY ClusterManager
  <1> QED
    BY <1>1, ClusterStart, PTL DEF ClusterSpec

(* Whatever the cluster does with its manager, loses it or marks the last    *)
(* record rolled back, that record describes the phase: it is "Failed" when  *)
(* rollback_scaling_operation reads it.                                      *)
THEOREM ClusterMirrorTheorem == ClusterSpec => []HistoryMirrorsPhase
  <1>1. IInv => HistoryMirrorsPhase
    BY DEF IInv
  <1> QED
    BY <1>1, ManagerInvariant, PTL

(* Whatever the time limits, process_scaling_phase, the health check and     *)
(* cancellations never let an operation advance from a phase that has timed  *)
(* out.                                                                      *)
THEOREM NoLateAdvanceTheorem == ClusterSpec => NoLateAdvance
  <1> DEFINE Late == TimedOut /\ current_phase' # current_phase =>
                        current_phase'.name \in {"Failed", "Canceled", NONE}
  <1>1. ASSUME IInv, ClusterNext PROVE Late
    <2>1. CASE \E op \in Operations : start_scaling_state_machine(op)
      BY <2>1 DEF start_scaling_state_machine, start_operation, TimedOut
    <2>2. CASE Moving
      BY <2>2 DEF Moving, Moves
    <2>3. CASE Stopping
      BY <2>3 DEF Stopping, Stops, ended_phase, Outcomes
    <2>4. CASE process_finalizing
      BY <2>4 DEF process_finalizing, Processing
    <2>5. CASE lose_scaling_manager
      BY <2>5 DEF lose_scaling_manager, NoPhase
    <2>6. CASE Rolls \/ Changes \/ Tick
      BY <2>6, Zenon DEF Rolls, Marks, Tick, Changes, insert, remove, heartbeat, set_scaling_policy,
                  set_template_instance_id, Outside
    <2> QED
      BY <1>1, <2>1, <2>2, <2>3, <2>4, <2>5, <2>6, ClusterKinds, Zenon
  <1>2. IInv /\ [ClusterNext]_vars => [Late]_vars
    BY <1>1
  <1>3. ClusterSpec => [][Late]_vars
    BY <1>2, ManagerInvariant, PTL DEF ClusterSpec
  <1> QED
    BY <1>3 DEF NoLateAdvance

(* Driven by a cluster, the manager implements the lifecycle in which an     *)
(* operation succeeds only after the last of its eight phases, whatever the  *)
(* members, policies and time limits, and may be lost with its cluster.      *)
THEOREM ClusterLifecycleTheorem == ClusterSpec => ClusterRefinesLifecycle
  <1>1. ClusterInit => ClusterLifecycle!Init
    BY DEF ClusterInit, ClusterLifecycle!Init, Stage, Log, InProgress, NoPhase, ActivePhases, NONE
  <1> DEFINE Abstract == [ClusterLifecycle!Next]_(ClusterLifecycle!lvars)
  <1>2. ASSUME IInv, IInv', [ClusterNext]_vars PROVE Abstract
    <2>1. ASSUME Stage' = Stage, Log' = Log PROVE Abstract
      BY <2>1 DEF ClusterLifecycle!lvars
    <2>2. CASE \E op \in Operations : start_scaling_state_machine(op)
      <3>1. Stage = 0 /\ Stage' = 1 /\ Log' = Log
        BY <1>2, <2>2, StartRefines DEF start_scaling_state_machine
      <3> QED
        BY <3>1 DEF ClusterLifecycle!Next, ClusterLifecycle!Start
    <2>3. CASE Moving
      <3>1. Stage \in 1 .. 7 /\ Stage' = Stage + 1 /\ Log' = Log
        BY <1>2, <2>3, TransitionAdvances DEF Moving, Moves
      <3> QED
        BY <3>1 DEF ClusterLifecycle!Next, ClusterLifecycle!Advance, ClusterLifecycle!Stages
    <2>4. ASSUME NEW name \in Outcomes, NEW error, Stops(name, error) PROVE Abstract
      <3>1. PICK r \in Record :
              /\ r.final_phase = name
              /\ operation_history' = [operation_history EXCEPT ![Len(operation_history)] = r]
        BY <2>4, Zenon DEF Stops
      <3>2. InProgress /\ ~InProgress'
        BY <2>4 DEF Stops, ended_phase, InProgress, Outcomes, ActivePhases
      <3>3. Stage \in 1 .. 8 /\ Stage' = 0 /\ Log' = Append(Log, name)
        BY <1>2, <3>1, <3>2, CloseEnds, Zenon
      <3> QED
        BY <3>3 DEF ClusterLifecycle!Next, ClusterLifecycle!End, ClusterLifecycle!Stages,
                    ClusterLifecycle!Outcomes, Outcomes
    <2>5. CASE process_finalizing
      <3>1. Stage' = 0 /\ Log' = Append(Log, "Completed")
        BY <1>2, <2>5, CloseRefines, Zenon DEF process_finalizing, complete_operation,
                                         TerminalPhases, ErrorTypes, NONE
      <3>2. Stage = 8
        BY <2>5 DEF process_finalizing, Processing, Stage, StageOf, InProgress, ActivePhases
      <3> QED
        BY <3>1, <3>2 DEF ClusterLifecycle!Next, ClusterLifecycle!End, ClusterLifecycle!Stages,
                          ClusterLifecycle!Outcomes
    <2>6. CASE Rolls
      BY <1>2, <2>1, <2>6, MarkRefines DEF Rolls
    <2>7. CASE lose_scaling_manager
      <3>1. Stage' = 0 /\ Log' = <<>>
        BY <2>7 DEF lose_scaling_manager, NoPhase, NONE, ActivePhases, Stage, Log, InProgress
      <3> QED
        BY <3>1 DEF ClusterLifecycle!Next, ClusterLifecycle!Forget
    <2>8. CASE Changes \/ Tick \/ UNCHANGED vars
      <3>1. UNCHANGED <<current_phase, operation_history>>
        BY <2>8, Zenon DEF Tick, Changes, insert, remove, heartbeat, set_scaling_policy,
                    set_template_instance_id, Outside, vars
      <3> QED
        BY <2>1, <3>1 DEF Stage, Log, InProgress
    <2> QED
      BY <1>2, <2>2, <2>3, <2>4, <2>5, <2>6, <2>7, <2>8, ClusterKinds, Zenon DEF Stopping
  <1>3. IInv /\ IInv' /\ [ClusterNext]_vars => [ClusterLifecycle!Next]_(ClusterLifecycle!lvars)
    BY <1>2
  <1> QED
    BY <1>1, <1>3, ManagerInvariant, PTL DEF ClusterSpec, ClusterRefinesLifecycle, ClusterLifecycle!Spec
-----------------------------------------------------------------------------
(* The members.                                                              *)

(* How often the cluster was changed from outside, and the shape of start.   *)
Counted ==
    /\ churn \in Nat
    /\ start = [members |-> start.members, churn |-> start.churn]

(* Every step of a cluster keeps them.                                       *)
LEMMA CountedStep ==
    ASSUME IInv, Counted, ClusterNext
    PROVE  Counted'
  <1>1. CASE \E op \in Operations : start_scaling_state_machine(op)
    BY <1>1, Zenon DEF start_scaling_state_machine, Counted
  <1>2. CASE Moving \/ Stopping \/ process_finalizing \/ Rolls \/ (Tick /\ UNCHANGED cvars)
    BY <1>2 DEF Moving, Moves, Stopping, Stops, process_finalizing, Rolls, cvars, Counted
  <1>3. CASE lose_scaling_manager
    BY <1>3 DEF lose_scaling_manager, Counted
  <1>4. CASE Changes
    <2>1. churn' \in Nat
      <3>1. churn' = churn + 1
        BY <1>4, Zenon DEF Changes, insert, remove, heartbeat, set_scaling_policy,
                    set_template_instance_id, Outside
      <3> QED
        BY <3>1 DEF Counted
    <2>2. start' = start \/ \E m : start' = [start EXCEPT !.members = m]
      BY <1>4, Zenon DEF Changes, insert, remove, heartbeat, set_scaling_policy, set_template_instance_id
    <2> QED
      BY <2>1, <2>2 DEF Counted
  <1> QED
    BY <1>1, <1>2, <1>3, <1>4, ClusterKinds

(* They hold in a new cluster.                                               *)
LEMMA CountedInit == ClusterInit => Counted
  BY DEF ClusterInit, Counted

(* What is known of the counters the model adds.                             *)
THEOREM CountedInvariant == ClusterSpec => []Counted
  <1>1. IInv /\ Counted /\ [ClusterNext]_vars => Counted'
    <2>1. ASSUME Counted, UNCHANGED vars PROVE Counted'
      BY <2>1 DEF Counted, vars
    <2> QED
      BY <2>1, CountedStep
  <1> QED
    BY <1>1, CountedInit, ManagerInvariant, PTL DEF ClusterSpec

(* Whatever it returns, apply_configuration_changes leaves the template in   *)
(* the cluster.                                                              *)
LEMMA AppliedKeepsTemplate ==
    ASSUME NEW op \in Operations, HasTemplate, NEW result \in apply_configuration_changes(op)
    PROVE  template \in DOMAIN result.members
  <1>1. op.type \in {"ScaleOut", "ScaleIn", "ReplaceInstances"}
    BY OperationAssumption
  <1>2. CASE result = Unapplied
    BY <1>2 DEF Unapplied, HasTemplate, Ids
  <1>3. CASE op.type = "ScaleOut"
    <2>1. result \in apply_scale_out(op)
      BY <1>3, Zenon DEF apply_configuration_changes
    <2>2. ASSUME NEW new, NEW n PROVE template \in DOMAIN Applied(joined(members, new), n).members
      BY DEF Applied, joined, HasTemplate, Ids
    <2> QED
      BY <1>2, <2>1, <2>2, Zenon DEF apply_scale_out
  <1>4. CASE op.type = "ScaleIn"
    <2>1. result \in apply_scale_in(op)
      BY <1>4 DEF apply_configuration_changes
    <2>2. ASSUME NEW sel, template \notin sel, NEW n
          PROVE  template \in DOMAIN Applied([id \in Ids \ sel |-> members[id]], n).members
      BY <2>2 DEF Applied, HasTemplate, Ids
    <2> QED
      BY <1>2, <2>1, <2>2, Zenon DEF apply_scale_in
  <1>5. CASE op.type = "ReplaceInstances"
    <2>1. result \in apply_replace(op)
      BY <1>5, Zenon DEF apply_configuration_changes
    <2>2. ASSUME NEW ids, template \notin ids, NEW n
          PROVE  template \in DOMAIN Applied(replaced(ids), n).members
      BY <2>2 DEF Applied, replaced, HasTemplate, Ids
    <2> QED
      BY <1>2, <2>1, <2>2, Zenon DEF apply_replace
  <1> QED
    BY <1>1, <1>3, <1>4, <1>5, Zenon

(* No step of the driver, of a rollback or of a health check removes the     *)
(* template, whatever operation runs and whatever changed since it was       *)
(* planned.                                                                  *)
THEOREM TemplateTheorem == ClusterSpec => TemplateStays
  <1> DEFINE Stays == HasTemplate /\ churn' = churn => template \in DOMAIN members'
  <1>1. ASSUME IInv, Counted, ClusterNext, HasTemplate, churn' = churn
        PROVE  template \in DOMAIN members'
    <2>1. CASE members' = members
      BY <1>1, <2>1 DEF HasTemplate, Ids
    <2>2. CASE InProgress /\ \E result \in apply_configuration_changes(Op) : members' = result.members
      <3>1. Op \in Operations
        BY <1>1, <2>2 DEF Op, IInv, CoreType, PhaseCore, InProgress, NoPhase, ActivePhases, NONE
      <3> QED
        BY <1>1, <2>2, <3>1, AppliedKeepsTemplate, Zenon
    <2>3. CASE Moving
      <3>1. PICK s \in ActivePhases, t \in ActivePhases : Moves(s, t)
        BY <2>3 DEF Moving
      <3>2. InProgress
        BY <3>1 DEF Moves, transition, InProgress
      <3> QED
        BY <2>1, <2>2, <3>1, <3>2, Zenon DEF Moves
    <2>4. CASE Stopping
      BY <2>1, <2>2, <2>4, Zenon DEF Stopping, Stops
    <2>5. CASE lose_scaling_manager \/ Changes
      <3>1. churn' = churn + 1
        BY <2>5, Zenon DEF lose_scaling_manager, Changes, insert, remove, heartbeat, set_scaling_policy,
                    set_template_instance_id, Outside
      <3> QED
        BY <1>1, <3>1 DEF Counted
    <2>6. CASE (\E op \in Operations : start_scaling_state_machine(op)) \/ process_finalizing
                  \/ Rolls \/ (Tick /\ UNCHANGED cvars)
      <3>1. members' = members
        BY <2>6, Zenon DEF start_scaling_state_machine, process_finalizing, Rolls, cvars
      <3> QED
        BY <2>1, <3>1
    <2> QED
      BY <1>1, <2>3, <2>4, <2>5, <2>6, ClusterKinds, Zenon
  <1>2. IInv /\ Counted /\ [ClusterNext]_vars => [Stays]_vars
    BY <1>1
  <1>3. ClusterSpec => [][Stays]_vars
    BY <1>2, ManagerInvariant, CountedInvariant, PTL DEF ClusterSpec
  <1> QED
    BY <1>3 DEF TemplateStays
-----------------------------------------------------------------------------
(* An operation that ends early leaves no trace.                             *)
Early == ActivePhases \ {"Verifying", "Finalizing"}

Untouched ==
    \/ current_phase.name \in Early
    \/ /\ current_phase.name \in Outcomes
       /\ current_phase.from \in Early
       /\ ~ (current_phase.from = "Configuring" /\ LastRecord.error = "StepFailed")

(* EarlyEndLeavesNoTrace with its premise named.                             *)
LEMMA EarlyMeans == EarlyEndLeavesNoTrace <=> (Untouched => members = start.members)
  BY DEF EarlyEndLeavesNoTrace, Untouched, Early, Outcomes

(* A change from outside does to start.members what it does to members.      *)
LEMMA ChangesAlike ==
    ASSUME Counted, Changes, members = start.members
    PROVE  members' = start'.members
  <1>1. ASSUME NEW id \in BaseIds, insert(id) PROVE members' = start'.members
    BY <1>1, Zenon DEF insert, Counted
  <1>2. ASSUME NEW id \in Ids, remove(id) PROVE members' = start'.members
    BY <1>2, Zenon DEF remove, Counted, Ids
  <1>3. ASSUME NEW id \in Ids, heartbeat(id) PROVE members' = start'.members
    <2>1. members' = [i \in DOMAIN members |->
                        IF i = id THEN [members[i] EXCEPT !.hb = now] ELSE members[i]]
      BY <1>3 DEF heartbeat, Ids
    <2> QED
      BY <1>3, <2>1, Zenon DEF heartbeat, Counted
  <1> QED
    BY <1>1, <1>2, <1>3, Zenon DEF Changes, set_scaling_policy, set_template_instance_id

(* Every step keeps the members of an operation that is early what they      *)
(* should be.                                                                *)
LEMMA EarlyStep ==
    ASSUME IInv, Counted, EarlyEndLeavesNoTrace, ClusterNext
    PROVE  EarlyEndLeavesNoTrace'
  <1> SUFFICES ASSUME Untouched' PROVE members' = start'.members
    BY Zenon DEF EarlyEndLeavesNoTrace, Untouched, Early, Outcomes
  <1>1. ASSUME Untouched, UNCHANGED <<members, start>> PROVE members' = start'.members
    BY <1>1, EarlyMeans, Zenon
  <1>2. CASE \E op \in Operations : start_scaling_state_machine(op)
    BY <1>2 DEF start_scaling_state_machine
  <1>3. CASE Moving
    <2>1. PICK s \in ActivePhases, t \in ActivePhases : Moves(s, t)
      BY <1>3 DEF Moving
    <2>2. current_phase.name = s /\ current_phase'.name = t
      BY <2>1 DEF Moves, transition
    <2>3. t \in Early
      BY <2>2 DEF Untouched, Outcomes, ActivePhases
    <2>4. s \in Early /\ s # "Configuring"
      BY <2>1, <2>3 DEF Moves, StageOf, ActivePhases, Early
    <2> QED
      BY <1>1, <2>1, <2>2, <2>4, Zenon DEF Moves, Untouched
  <1>4. CASE Stopping
    <2>1. PICK name \in Outcomes, error \in ErrorTypes : Stops(name, error)
      BY <1>4 DEF Stopping
    <2>2. PICK r \in Record :
            /\ r.error = error
            /\ operation_history' = [operation_history EXCEPT ![Len(operation_history)] = r]
      BY <2>1, Zenon DEF Stops
    <2>3. InProgress /\ current_phase'.name = name /\ current_phase'.from = current_phase.name
      BY <2>1, Zenon DEF Stops, ended_phase, Outcomes
    <2>4. operation_history \in Seq(Record) /\ operation_history # <<>>
      BY <2>3 DEF IInv, CoreType, HistoryMirrorsPhase, InProgress, NoPhase, ActivePhases, NONE
    <2>5. LastRecord'.error = error
      BY <2>2, <2>4, ReplaceLast DEF LastRecord
    <2>6. /\ current_phase.name \in Early
          /\ ~ (current_phase.name = "Configuring" /\ error = "StepFailed")
      BY <2>3, <2>5 DEF Untouched, Outcomes, Early, ActivePhases
    <2>7. members' = members
      BY <2>1, <2>6, Zenon DEF Stops
    <2> QED
      BY <1>1, <2>1, <2>6, <2>7, Zenon DEF Stops, Untouched
  <1>5. CASE process_finalizing \/ lose_scaling_manager
    <2>1. current_phase'.name \in {"Completed", NONE}
      <3>1. ended_phase("Completed").name = "Completed" /\ NoPhase.name = NONE
        BY DEF ended_phase, NoPhase
      <3> QED
        BY <1>5, <3>1, Zenon DEF process_finalizing, complete_operation, close, lose_scaling_manager
    <2> QED
      BY <2>1 DEF NONE, Untouched, Early, ActivePhases, Outcomes
  <1>6. ASSUME UNCHANGED current_phase, LastRecord'.error = LastRecord.error
        PROVE  Untouched
    BY <1>6, Zenon DEF Untouched
  <1>7. CASE Rolls
    <2>1. PICK keys \in SUBSET MetadataKeys : Marks(keys) /\ UNCHANGED cvars
      BY <1>7 DEF Rolls
    <2>2. operation_history \in Seq(Record) /\ operation_history # <<>>
      BY <2>1 DEF IInv, CoreType, HistoryMirrorsPhase, Marks, NoPhase, NONE
    <2>3. LastRecord \in Record
      BY <2>2 DEF LastRecord
    <2>4. PICK r \in Record :
            /\ r.error = LastRecord.error
            /\ operation_history' = [operation_history EXCEPT ![Len(operation_history)] = r]
      <3> DEFINE r == [LastRecord EXCEPT !.metadata = LastRecord.metadata \cup keys]
      <3>1. r \in Record /\ r.error = LastRecord.error
        BY <2>3, Zenon DEF Record
      <3>2. operation_history' = [operation_history EXCEPT ![Len(operation_history)] = r]
        BY <2>1, Zenon DEF Marks
      <3> HIDE DEF r
      <3> QED
        BY <3>1, <3>2, Zenon
    <2>5. LastRecord'.error = LastRecord.error
      BY <2>2, <2>4, ReplaceLast DEF LastRecord
    <2> QED
      BY <1>1, <1>6, <2>1, <2>5, Zenon DEF Marks, cvars
  <1>8. CASE Changes
    <2>1. UNCHANGED <<current_phase, operation_history>>
      BY <1>8, Zenon DEF Changes, insert, remove, heartbeat, set_scaling_policy,
                         set_template_instance_id, Outside
    <2>2. Untouched
      BY <1>6, <2>1, Zenon DEF LastRecord
    <2> QED
      BY <1>8, <2>2, EarlyMeans, ChangesAlike, Zenon
  <1>9. CASE Tick /\ UNCHANGED cvars
    BY <1>1, <1>6, <1>9, Zenon DEF Tick, cvars, LastRecord
  <1> QED
    BY <1>2, <1>3, <1>4, <1>5, <1>7, <1>8, <1>9, ClusterKinds, Zenon

(* However it ends, by a timeout, a failing step, a cancellation or a health *)
(* check, and whatever happens to the cluster meanwhile, an operation that   *)
(* ends before apply_configuration_changes leaves the members as they would  *)
(* have been without it.                                                     *)
THEOREM EarlyEndTheorem == ClusterSpec => []EarlyEndLeavesNoTrace
  <1>1. ClusterInit => EarlyEndLeavesNoTrace
    BY DEF ClusterInit, EarlyEndLeavesNoTrace
  <1>2. IInv /\ Counted /\ EarlyEndLeavesNoTrace /\ [ClusterNext]_vars => EarlyEndLeavesNoTrace'
    <2>1. ASSUME EarlyEndLeavesNoTrace, UNCHANGED vars PROVE EarlyEndLeavesNoTrace'
      BY <2>1, Zenon DEF EarlyEndLeavesNoTrace, vars, LastRecord
    <2> QED
      BY <2>1, EarlyStep
  <1> QED
    BY <1>1, <1>2, ManagerInvariant, CountedInvariant, PTL DEF ClusterSpec
-----------------------------------------------------------------------------
(* The cooldown.                                                             *)
Scales == {"ScaleOut", "ScaleIn"}

Stamp(pol, type) == IF type = "ScaleOut" THEN pol.last_out ELSE pol.last_in

Cooldown(pol, type) == IF type = "ScaleOut" THEN pol.out_cooldown ELSE pol.in_cooldown

(* A record of a scale-out or a scale-in that succeeded.                     *)
Scaled(r) == r.successful /\ r.op.type \in Scales

(* The stamp of a policy is not before the end of any success of its kind,   *)
(* and successes of one kind are the cooldown apart.                         *)
Spaced(h, pol) ==
    /\ \A i \in 1 .. Len(h) : Scaled(h[i]) =>
          h[i].ended_at > 0 /\ h[i].ended_at <= Stamp(pol, h[i].op.type)
    /\ \A i, j \in 1 .. Len(h) :
          i < j /\ Scaled(h[i]) /\ Scaled(h[j]) /\ h[i].op.type = h[j].op.type
          => h[j].ended_at - h[i].ended_at >= Cooldown(pol, h[i].op.type)

(* The phases that come after the check of the cooldown.                     *)
Validated == ActivePhases \ {"Requested", "Validating"}

(* An operation that was validated stays out of the cooldown, because time   *)
(* only moves forward and no other operation can end before it does.         *)
Cool ==
    current_phase.name \in Validated /\ Op.type \in Scales =>
        ~ in_cooldown(Stamp(policy, Op.type), Cooldown(policy, Op.type))

CoolInv == policy # Nil /\ churn = 0 => Spaced(operation_history, policy) /\ Cool

PolicyType ==
    /\ policy = Nil \/ policy \in Policy
    /\ now >= 1

(* Every step of a cluster keeps the policy well typed.                      *)
LEMMA PolicyStep ==
    ASSUME IInv, PolicyType, ClusterNext
    PROVE  PolicyType'
  <1>1. now \in Time /\ now \in Int
    BY DEF IInv, CoreType, Time
  <1>2. CASE process_finalizing
    BY <1>1, <1>2 DEF process_finalizing, complete_operation, close, finalized_policy, PolicyType, Policy
  <1>3. CASE Tick /\ UNCHANGED cvars
    BY <1>1, <1>3 DEF Tick, cvars, PolicyType
  <1>4. CASE Changes
    <2>1. now' = now /\ (policy' = policy \/ policy' \in Policies \cup {Nil})
      BY <1>4, Zenon DEF Changes, insert, remove, heartbeat, set_scaling_policy,
                         set_template_instance_id, Outside
    <2> QED
      BY <2>1, ClusterAssumption DEF PolicyType
  <1>5. CASE \/ \E op \in Operations : start_scaling_state_machine(op)
             \/ Moving \/ Stopping \/ Rolls \/ lose_scaling_manager
    <2>1. UNCHANGED <<now, policy>>
      BY <1>5, Zenon DEF start_scaling_state_machine, start_operation, Moving, Moves, transition,
                         Stopping, Stops, Rolls, Marks, lose_scaling_manager, cvars
    <2> QED
      BY <2>1 DEF PolicyType
  <1> QED
    BY <1>2, <1>3, <1>4, <1>5, ClusterKinds, Zenon

(* It is in a new cluster.                                                   *)
LEMMA PolicyInit == ClusterInit => PolicyType
  BY ClusterAssumption DEF ClusterInit, PolicyType

(* What is known of the policy: its cooldowns are numbers and its stamps     *)
(* times, and the clock has passed the stamp that means "never".             *)
THEOREM PolicyInvariant == ClusterSpec => []PolicyType
  <1>1. IInv /\ PolicyType /\ [ClusterNext]_vars => PolicyType'
    <2>1. ASSUME PolicyType, UNCHANGED vars PROVE PolicyType'
      BY <2>1 DEF PolicyType, vars
    <2> QED
      BY <2>1, PolicyStep
  <1> QED
    BY <1>1, PolicyInit, ManagerInvariant, PTL DEF ClusterSpec

(* g has no success that h has not.                                          *)
NoNewSuccess(h, g) ==
    \A i \in 1 .. Len(g) :
        Scaled(g[i]) => /\ i \in 1 .. Len(h) /\ Scaled(h[i])
                        /\ g[i].op = h[i].op /\ g[i].ended_at = h[i].ended_at

(* A history without a new success stays spaced.                             *)
LEMMA SpacedKeep ==
    ASSUME NEW h, NEW g, NEW pol, Spaced(h, pol), NoNewSuccess(h, g)
    PROVE  Spaced(g, pol)
  BY Zenon DEF Spaced, NoNewSuccess

(* The positions before the last one.                                        *)
LEMMA NotLast == \A n \in Nat \ {0} : \A i \in 1 .. n : i # n => i \in 1 .. n - 1
  OBVIOUS

(* The positions before an added one.                                        *)
LEMMA NotAdded == \A n \in Nat : \A i \in 1 .. n + 1 : i # n + 1 => i \in 1 .. n
  OBVIOUS

(* The successes after a step that replaces the last record by one that is   *)
(* no success, or marks it.                                                  *)
LEMMA CoolRewrite ==
    ASSUME NEW h \in Seq(Record), h # <<>>, NEW r \in Record,
           NEW g, g = [h EXCEPT ![Len(h)] = r],
           Scaled(r) => /\ Scaled(h[Len(h)]) /\ r.op = h[Len(h)].op
                        /\ r.ended_at = h[Len(h)].ended_at
    PROVE  NoNewSuccess(h, g)
  <1>1. /\ Len(g) = Len(h) /\ Len(h) \in Nat \ {0}
        /\ g[Len(h)] = r /\ \A i \in 1 .. Len(h) - 1 : g[i] = h[i]
    BY ReplaceLast
  <1> SUFFICES ASSUME NEW i \in 1 .. Len(h), Scaled(g[i])
               PROVE  Scaled(h[i]) /\ g[i].op = h[i].op /\ g[i].ended_at = h[i].ended_at
    BY <1>1, Zenon DEF NoNewSuccess
  <1>2. CASE i = Len(h)
    BY <1>1, <1>2, Zenon
  <1>3. CASE i # Len(h)
    <2>1. i \in 1 .. Len(h) - 1
      BY <1>1, <1>3, NotLast, Zenon
    <2> QED
      BY <1>1, <2>1, Zenon
  <1> QED
    BY <1>2, <1>3

(* Opening a record adds no success.                                         *)
LEMMA CoolAppend ==
    ASSUME NEW h \in Seq(Record), NEW r \in Record, NEW g, g = Append(h, r), ~ Scaled(r)
    PROVE  NoNewSuccess(h, g)
  <1>1. /\ Len(g) = Len(h) + 1 /\ Len(h) \in Nat
        /\ g[Len(g)] = r /\ \A i \in 1 .. Len(h) : g[i] = h[i]
    BY AppendLast
  <1> SUFFICES ASSUME NEW i \in 1 .. Len(g), Scaled(g[i])
               PROVE  i \in 1 .. Len(h) /\ g[i] = h[i]
    BY Zenon DEF NoNewSuccess
  <1>2. i # Len(g)
    BY <1>1, Zenon
  <1>3. i \in 1 .. Len(h)
    BY <1>1, <1>2, NotAdded, Zenon
  <1> QED
    BY <1>1, <1>3, Zenon

(* g is h with the last of its n records ended at time, of type t.           *)
EndsScale(h, g, n, t, time) ==
    /\ Len(h) = n /\ Len(g) = n /\ n \in Nat \ {0}
    /\ \A i \in 1 .. n - 1 : g[i] = h[i]
    /\ \A i \in 1 .. n : h[i].ended_at \in Int /\ h[i].ended_at <= time
    /\ g[n].op.type = t /\ g[n].ended_at = time

(* q is pol with the stamp of type t set to time, which is after its         *)
(* cooldown.                                                                 *)
Stamped(pol, q, t, time) ==
    /\ \A u \in Scales : /\ Stamp(pol, u) \in Int /\ Cooldown(pol, u) \in Int
                         /\ Cooldown(q, u) = Cooldown(pol, u)
                         /\ Stamp(q, u) = IF u = t THEN time ELSE Stamp(pol, u)
    /\ Stamp(pol, t) = 0 \/ time - Stamp(pol, t) >= Cooldown(pol, t)

(* finalize_scaling_operation stamps the policy and the operation succeeds:  *)
(* it was out of the cooldown, so its end is far enough from every earlier.  *)
LEMMA SpacedFinalize ==
    ASSUME NEW h, NEW g, NEW n, NEW pol, NEW q, NEW t \in Scales, NEW time \in Nat, time > 0,
           Spaced(h, pol), EndsScale(h, g, n, t, time), Stamped(pol, q, t, time)
    PROVE  Spaced(g, q)
  <1> USE DEF EndsScale, Stamped
  <1>1. ASSUME NEW i \in 1 .. n, Scaled(g[i])
        PROVE  g[i].ended_at > 0 /\ g[i].ended_at <= Stamp(q, g[i].op.type)
    <2>1. CASE i = n
      BY <1>1, <2>1
    <2>2. CASE i # n
      <3>1. g[i] = h[i] /\ i \in 1 .. Len(h)
        BY <2>2, NotLast, Zenon
      <3>2. h[i].ended_at > 0 /\ h[i].ended_at <= Stamp(pol, h[i].op.type) /\ g[i].op.type \in Scales
        BY <1>1, <3>1, Zenon DEF Spaced, Scaled
      <3>3. h[i].ended_at <= time
        BY SMTT(30)
      <3> QED
        BY <3>1, <3>2, <3>3, Zenon
    <2> QED
      BY <2>1, <2>2, ZenonT(40)
  <1>2. ASSUME NEW i \in 1 .. n, NEW j \in 1 .. n, i < j, Scaled(g[i]), Scaled(g[j]),
               g[i].op.type = g[j].op.type
        PROVE  g[j].ended_at - g[i].ended_at >= Cooldown(q, g[i].op.type)
    <2>1. i # n
      BY <1>2
    <2>2. g[i] = h[i] /\ i \in 1 .. Len(h) /\ Scaled(h[i]) /\ g[i].op.type \in Scales
      BY <1>2, <2>1, NotLast, Zenon DEF Scaled
    <2>3. CASE j = n
      <3>1. h[i].op.type = t /\ g[j].ended_at = time
        BY <1>2, <2>2, <2>3, Zenon
      <3>2. h[i].ended_at > 0 /\ h[i].ended_at <= Stamp(pol, t)
        BY <2>2, <3>1, Zenon DEF Spaced
      <3>3. h[i].ended_at \in Int /\ Stamp(pol, t) \in Int /\ Cooldown(pol, t) \in Int
        BY Zenon
      <3>4. time - h[i].ended_at >= Cooldown(pol, t)
        BY <3>2, <3>3
      <3> QED
        BY <2>2, <3>1, <3>4, Zenon
    <2>4. CASE j # n
      <3>1. g[j] = h[j] /\ j \in 1 .. Len(h)
        BY <2>4, NotLast, Zenon
      <3>2. h[j].ended_at - h[i].ended_at >= Cooldown(pol, h[i].op.type)
        BY <1>2, <2>2, <3>1, Zenon DEF Spaced
      <3> QED
        BY <2>2, <3>1, <3>2, Zenon
    <2> QED
      BY <2>3, <2>4, ZenonT(40)
  <1> QED
    BY <1>1, <1>2, Zenon DEF Spaced

(* CoolInv after a step that leaves the policy alone and adds no success.    *)
LEMMA CoolKeep ==
    ASSUME CoolInv, UNCHANGED <<policy, churn>>,
           NoNewSuccess(operation_history, operation_history'),
           policy # Nil /\ churn = 0 /\ Cool => Cool'
    PROVE  CoolInv'
  <1>1. ASSUME policy # Nil, churn = 0 PROVE Spaced(operation_history', policy)
    BY <1>1, SpacedKeep, Zenon DEF CoolInv
  <1> QED
    BY <1>1, Zenon DEF CoolInv

(* finalize_scaling_operation keeps CoolInv.                                 *)
LEMMA CoolFinalize ==
    ASSUME IInv, PolicyType, CoolInv, process_finalizing
    PROVE  CoolInv'
  <1> DEFINE h == operation_history
             g == operation_history'
             n == Len(h)
             r == ended_record(LastRecord, "Completed", TRUE, NONE)
             q == policy'
             t == Op.type
  <1>1. InProgress /\ current_phase.name = "Finalizing" /\ close("Completed", TRUE, NONE)
    BY DEF process_finalizing, Processing, complete_operation, close
  <1>2. Closes(r, "Completed", TRUE, NONE)
    <2>1. "Completed" \in TerminalPhases /\ NONE \in ErrorTypes /\ TRUE \in BOOLEAN
      BY DEF TerminalPhases, ErrorTypes, NONE
    <2> QED
      BY <1>1, <2>1, CloseRecord, Zenon
  <1>3. g = [h EXCEPT ![n] = r] /\ churn' = churn
    BY <1>1, Zenon DEF close, LastRecord, process_finalizing
  <1> HIDE DEF r
  <1>4. /\ r \in Record /\ r.ended_at = now /\ r.op = Op /\ h # <<>> /\ h \in Seq(Record)
        /\ now \in Nat /\ now > 0
    BY <1>2 DEF Closes, IInv, CoreType, HistoryMirrorsPhase, Op, PolicyType, Time
  <1>5. /\ Len(g) = n /\ n \in Nat \ {0} /\ g[n] = r /\ \A i \in 1 .. n - 1 : g[i] = h[i]
    BY <1>3, <1>4, ReplaceLast
  <1>6. Cool'
    <2>1. current_phase'.name \notin Validated
      BY <1>1, Zenon DEF close, ended_phase, Validated, ActivePhases
    <2> QED
      BY <2>1, Zenon DEF Cool
  <1>7. q = finalized_policy(Op) /\ t \in Scales \cup {"ReplaceInstances"}
    BY <1>4, OperationAssumption DEF process_finalizing, Record, Scales
  <1>8. SUFFICES ASSUME q # Nil, churn = 0 PROVE Spaced(g, q)
    BY <1>3, <1>6, Zenon DEF CoolInv
  <1>9. policy # Nil /\ policy \in Policy /\ Spaced(h, policy) /\ Cool
    BY <1>7, <1>8 DEF finalized_policy, PolicyType, CoolInv
  <1>10. CASE t = "ReplaceInstances"
    <2>1. ~ Scaled(r) /\ q = policy
      BY <1>4, <1>7, <1>10 DEF Scaled, Scales, finalized_policy
    <2>2. NoNewSuccess(h, g)
      BY <1>3, <1>4, <2>1, CoolRewrite, Zenon
    <2> QED
      BY <1>9, <2>1, <2>2, SpacedKeep, Zenon
  <1>11. CASE t \in Scales
    <2>1. \A u \in Scales : /\ Stamp(policy, u) \in Int /\ Cooldown(policy, u) \in Int
                            /\ Cooldown(q, u) = Cooldown(policy, u)
                            /\ Stamp(q, u) = IF u = t THEN now ELSE Stamp(policy, u)
      <3>1. \/ t = "ScaleOut" /\ q = [policy EXCEPT !.last_out = now]
            \/ t = "ScaleIn" /\ q = [policy EXCEPT !.last_in = now]
        BY <1>7, <1>9, <1>11 DEF finalized_policy, Scales
      <3> HIDE DEF q, t
      <3> QED
        BY <1>4, <1>9, <3>1 DEF Scales, Stamp, Cooldown, Policy, Time
    <2>2. \A i \in 1 .. n : h[i].ended_at \in Int /\ h[i].ended_at <= now
      <3>1. \A i \in 1 .. n : h[i].ended_at <= now
        BY Zenon DEF IInv, HistoryInPast
      <3>2. \A x \in Record : x.ended_at \in Int
        BY DEF Record, Time, NoTime
      <3>3. \A i \in 1 .. n : h[i] \in Record
        BY <1>4
      <3> QED
        BY <3>1, <3>2, <3>3, Zenon
    <2>3. Stamp(policy, t) = 0 \/ now - Stamp(policy, t) >= Cooldown(policy, t)
      <3>1. ~ in_cooldown(Stamp(policy, t), Cooldown(policy, t))
        BY <1>1, <1>9, <1>11 DEF Cool, Validated, ActivePhases
      <3>2. Stamp(policy, t) \in Int /\ Cooldown(policy, t) \in Int
        BY <1>11, <2>1, Zenon
      <3> QED
        BY <1>4, <3>1, <3>2 DEF in_cooldown
    <2>4. g[n].op.type = t /\ g[n].ended_at = now
      BY <1>4, <1>5, Zenon
    <2>5. Len(h) = n /\ Len(g) = n /\ n \in Nat \ {0} /\ \A i \in 1 .. n - 1 : g[i] = h[i]
      BY <1>5, Zenon
    <2>6. now \in Nat /\ now > 0 /\ Spaced(h, policy)
      BY <1>4, <1>9, Zenon
    <2> HIDE DEF h, g, n, q, t
    <2>7. EndsScale(h, g, n, t, now) /\ Stamped(policy, q, t, now)
      BY <2>1, <2>2, <2>3, <2>4, <2>5, Zenon DEF EndsScale, Stamped
    <2> QED
      BY <1>11, <2>6, <2>7, SpacedFinalize, Zenon
  <1> QED
    BY <1>7, <1>10, <1>11, Zenon

(* Every step of a cluster keeps CoolInv.                                    *)
LEMMA CoolStep ==
    ASSUME IInv, Counted, PolicyType, CoolInv, ClusterNext
    PROVE  CoolInv'
  <1>h. operation_history \in Seq(Record) /\ now \in Int
    BY DEF IInv, CoreType, Time
  <1>1. CASE \E op \in Operations : start_scaling_state_machine(op)
    <2>1. PICK op \in Operations : start_scaling_state_machine(op)
      BY <1>1, Zenon
    <2> DEFINE r == [op |-> op, started_at |-> now, ended_at |-> NoTime,
                     final_phase |-> "Requested", successful |-> FALSE, error |-> NONE,
                     phase_history |-> {}, metadata |-> {}]
    <2>2. r \in Record /\ ~ Scaled(r)
      BY DEF Record, ErrorTypes, NONE, ActivePhases, Scaled, IInv, CoreType
    <2>3. operation_history' = Append(operation_history, r)
      BY <2>1, Zenon DEF start_scaling_state_machine, start_operation
    <2> HIDE DEF r
    <2>4. NoNewSuccess(operation_history, operation_history')
      BY <1>h, <2>2, <2>3, CoolAppend, Zenon
    <2>5. current_phase'.name \notin Validated
      BY <2>1 DEF start_scaling_state_machine, start_operation, new_requested, Validated
    <2> QED
      BY <2>1, <2>4, <2>5, CoolKeep, Zenon DEF start_scaling_state_machine, Cool
  <1>r. ASSUME NEW r \in Record, operation_history # <<>>,
               operation_history' = [operation_history EXCEPT ![Len(operation_history)] = r],
               Scaled(r) => /\ Scaled(LastRecord) /\ r.op = LastRecord.op
                            /\ r.ended_at = LastRecord.ended_at
        PROVE  NoNewSuccess(operation_history, operation_history')
    BY <1>h, <1>r, CoolRewrite, Zenon DEF LastRecord
  <1>p. current_phase # NoPhase => operation_history # <<>> /\ LastRecord \in Record
    BY <1>h DEF IInv, HistoryMirrorsPhase, LastRecord
  <1>2. CASE Moving
    <2>1. PICK s \in ActivePhases, t \in ActivePhases : Moves(s, t)
      BY <1>2 DEF Moving
    <2>2. PICK ids, config : transition(s, t, ids, config)
      BY <2>1, Zenon DEF Moves
    <2>3. current_phase # NoPhase
      BY <2>2 DEF transition, NoPhase, ActivePhases, NONE
    <2> DEFINE r == [LastRecord EXCEPT !.final_phase = t]
    <2>4. /\ r \in Record /\ r.op = LastRecord.op
          /\ r.ended_at = LastRecord.ended_at /\ r.successful = LastRecord.successful
      BY <1>p, <2>3, Zenon DEF Record
    <2>5. operation_history' = [operation_history EXCEPT ![Len(operation_history)] = r]
      BY <2>2 DEF transition, LastRecord
    <2> HIDE DEF r
    <2>6. NoNewSuccess(operation_history, operation_history')
      BY <1>p, <1>r, <2>3, <2>4, <2>5, Zenon DEF Scaled
    <2>7. current_phase.name = s /\ current_phase'.name = t /\ Op' = Op /\ now' = now
      BY <2>2 DEF transition, Op
    <2>8. ASSUME policy # Nil, churn = 0, Cool PROVE Cool'
      <3>1. UNCHANGED policy
        BY <2>1, Zenon DEF Moves
      <3>2. SUFFICES ASSUME t \in Validated, Op.type \in Scales
            PROVE  ~ in_cooldown(Stamp(policy, Op.type), Cooldown(policy, Op.type))
        BY <2>7, <3>1, Zenon DEF Cool, in_cooldown
      <3>3. s \in Validated \/ s = "Validating"
        BY <2>1, <3>2 DEF Moves, StageOf, ActivePhases, Validated
      <3>4. CASE s \in Validated
        BY <2>7, <2>8, <3>2, <3>4, Zenon DEF Cool
      <3>5. CASE s = "Validating"
        BY <2>1, <3>2, <3>5, Zenon DEF Moves, validate_scaling_operation, Stamp, Cooldown, Scales
      <3> QED
        BY <3>3, <3>4, <3>5
    <2> QED
      BY <2>1, <2>6, <2>8, CoolKeep, Zenon DEF Moves
  <1>3. CASE Stopping
    <2>1. PICK name \in Outcomes, error \in ErrorTypes : Stops(name, error)
      BY <1>3 DEF Stopping
    <2>2. PICK r \in Record :
            /\ r.successful = FALSE
            /\ operation_history' = [operation_history EXCEPT ![Len(operation_history)] = r]
      BY <2>1, Zenon DEF Stops
    <2>3. current_phase # NoPhase
      BY <2>1 DEF Stops, InProgress, NoPhase, ActivePhases, NONE
    <2>4. NoNewSuccess(operation_history, operation_history')
      BY <1>p, <1>r, <2>2, <2>3, ZenonT(40) DEF Scaled
    <2>5. current_phase'.name \notin Validated
      BY <2>1 DEF Stops, ended_phase, Outcomes, Validated, ActivePhases
    <2> QED
      BY <2>1, <2>4, <2>5, CoolKeep, Zenon DEF Stops, Cool
  <1>4. CASE Rolls
    <2>1. PICK keys \in SUBSET MetadataKeys : Marks(keys) /\ UNCHANGED cvars
      BY <1>4 DEF Rolls
    <2>2. current_phase # NoPhase
      BY <2>1 DEF Marks, NoPhase, NONE
    <2> DEFINE r == [LastRecord EXCEPT !.metadata = LastRecord.metadata \cup keys]
    <2>3. /\ r \in Record /\ r.op = LastRecord.op
          /\ r.ended_at = LastRecord.ended_at /\ r.successful = LastRecord.successful
      BY <1>p, <2>2, Zenon DEF Record
    <2>4. operation_history' = [operation_history EXCEPT ![Len(operation_history)] = r]
      BY <2>1, Zenon DEF Marks
    <2> HIDE DEF r
    <2>5. NoNewSuccess(operation_history, operation_history')
      BY <1>p, <1>r, <2>2, <2>3, <2>4, Zenon DEF Scaled
    <2>6. Cool => Cool'
      BY <2>1, Zenon DEF Marks, cvars, Cool, Op, in_cooldown
    <2> QED
      BY <2>1, <2>5, <2>6, CoolKeep, Zenon DEF cvars
  <1>5. CASE lose_scaling_manager \/ Changes
    <2>1. churn' = churn + 1
      BY <1>5, Zenon DEF lose_scaling_manager, Changes, insert, remove, heartbeat,
                         set_scaling_policy, set_template_instance_id, Outside
    <2>2. churn' # 0
      BY <2>1 DEF Counted
    <2> QED
      BY <2>2, Zenon DEF CoolInv
  <1>6. CASE Tick /\ UNCHANGED cvars
    <2>1. UNCHANGED <<policy, churn, current_phase, operation_history>> /\ now' = now + 1
      BY <1>6, Zenon DEF Tick, cvars
    <2>2. NoNewSuccess(operation_history, operation_history')
      BY <2>1, Zenon DEF NoNewSuccess
    <2>3. ASSUME policy # Nil, Cool PROVE Cool'
      <3>1. \A last, cooldown \in Int :
                ~ (last # 0 /\ now - last < cooldown) => ~ (last # 0 /\ (now + 1) - last < cooldown)
        BY <1>h
      <3>2. \A u \in Scales : Stamp(policy, u) \in Int /\ Cooldown(policy, u) \in Int
        BY <2>3 DEF PolicyType, Policy, Stamp, Cooldown, Scales, Time
      <3> QED
        BY <2>1, <2>3, <3>1, <3>2, Zenon DEF Cool, Op, in_cooldown
    <2> QED
      BY <2>1, <2>2, <2>3, CoolKeep, Zenon
  <1> QED
    BY <1>1, <1>2, <1>3, <1>4, <1>5, <1>6, CoolFinalize, ClusterKinds, Zenon

(* Whatever the policy, the limits and the order of the calls, two           *)
(* operations of one kind that succeeded under an unchanged policy ended     *)
(* its cooldown apart: validate_scaling_operation reads the stamp that       *)
(* finalize_scaling_operation writes, and no other operation comes between.  *)
THEOREM CooldownTheorem == ClusterSpec => []CooldownBetweenSuccesses
  <1>1. ClusterInit => CoolInv
    BY DEF ClusterInit, CoolInv, Spaced, Cool, NoPhase, NONE, Validated, ActivePhases
  <1>2. IInv /\ Counted /\ PolicyType /\ CoolInv /\ [ClusterNext]_vars => CoolInv'
    <2>1. ASSUME CoolInv, UNCHANGED vars PROVE CoolInv'
      BY <2>1, Zenon DEF vars, CoolInv, Cool, Op, in_cooldown
    <2> QED
      BY <2>1, CoolStep
  <1>3. IInv /\ CoolInv => CooldownBetweenSuccesses
    <2> SUFFICES ASSUME IInv, CoolInv, policy # Nil, churn = 0,
                        NEW i \in 1 .. Len(operation_history), NEW j \in 1 .. Len(operation_history),
                        i < j, operation_history[i].successful, operation_history[j].successful,
                        operation_history[i].op.type = operation_history[j].op.type,
                        operation_history[i].op.type # "ReplaceInstances"
                 PROVE  operation_history[j].ended_at - operation_history[i].ended_at
                            >= Cooldown(policy, operation_history[i].op.type)
      BY Zenon DEF CooldownBetweenSuccesses, Cooldown
    <2>1. operation_history[i].op \in Operations
      <3>1. operation_history[i] \in Record
        BY DEF IInv, CoreType
      <3> QED
        BY <3>1, Zenon DEF Record
    <2>2. operation_history[i].op.type \in Scales
      BY <2>1, OperationAssumption DEF Scales
    <2> QED
      BY <2>2, Zenon DEF CoolInv, Spaced, Scaled
  <1> QED
    BY <1>1, <1>2, <1>3, ManagerInvariant, CountedInvariant, PolicyInvariant, PTL DEF ClusterSpec
=============================================================================
