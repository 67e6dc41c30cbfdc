---------------------------- MODULE RelayNodeProofs ----------------------------
(***************************************************************************)
(* What the relay node keeps, for any number of callers, peers and ids.    *)
(*                                                                         *)
(* SessionsBounded is not inductive: a thread between its check of the     *)
(* limit and its insertion is about to add a session, and so is a packet   *)
(* whose session was removed while its clone was out.  IInv counts these   *)
(* threads with the sessions.                                              *)
(*                                                                         *)
(* SlotsNeverLeak and StatsSettle are about a node at rest.  SlotInv and   *)
(* StatsInv are what they are of a node whose threads are under way: they  *)
(* name the thread that still has to take the id out, or to recount.       *)
(* RelayNodeSteps proves what these rest on.                               *)
(***************************************************************************)
EXTENDS RelayNodeSteps, FiniteSetTheorems

\* The threads that will insert a session that is not in the map, or may.
Pending ==
    {t \in Threads :
        \/ pc[t] \in {"check_client", "insert_session"}
        \/ pc[t] = "insert_clone" /\ local[t].id \notin DOMAIN sessions}

IInv ==
    /\ pc \in [Threads -> Sections] /\ DOMAIN local = Threads
    /\ \A t \in Threads : pc[t] = "insert_clone" => t = "service"
    /\ IsFiniteSet(DOMAIN sessions)
    /\ Cardinality(DOMAIN sessions) + Cardinality(Pending)
          <= max_total_sessions - 1 + Cardinality(Threads)

\* The threads are finitely many, and so are those of them in flight.
LEMMA ThreadsFinite ==
    /\ IsFiniteSet(Threads)
    /\ Cardinality(Threads) \in Nat
    /\ "service" \in Threads
  <1>1. IsFiniteSet(Threads)
    BY LimitsAssumption, FS_Singleton, FS_Union, Zenon DEF Threads
  <1> QED
    BY <1>1, FS_CardinalityType DEF Threads

\* Counting: a step that drops t from a finite set A of threads, and adds at
\* most one element to a finite set S, does not raise the sum of their sizes.
LEMMA OneForOne ==
    ASSUME NEW A, NEW S, NEW t \in A, NEW x, NEW B,
           IsFiniteSet(A), IsFiniteSet(S), B \subseteq A \ {t}
    PROVE  /\ IsFiniteSet(S \cup {x})
           /\ IsFiniteSet(B)
           /\ Cardinality(S \cup {x}) + Cardinality(B) <= Cardinality(S) + Cardinality(A)
  <1>1. /\ IsFiniteSet(S \cup {x}) /\ IsFiniteSet(S)
        /\ \/ Cardinality(S \cup {x}) = Cardinality(S)
           \/ Cardinality(S \cup {x}) = Cardinality(S) + 1
    BY FS_AddElement
  <1>2. IsFiniteSet(A \ {t}) /\ Cardinality(A \ {t}) = Cardinality(A) - 1
    BY FS_RemoveElement
  <1>3. IsFiniteSet(B) /\ Cardinality(B) <= Cardinality(A \ {t})
    BY <1>2, FS_Subset
  <1> QED
    BY <1>1, <1>2, <1>3, FS_CardinalityType

\* The same for a removal: S loses x and the threads in flight gain one.
LEMMA OneForOneBack ==
    ASSUME NEW A, NEW S, NEW x \in S, NEW t, NEW B,
           IsFiniteSet(A), IsFiniteSet(S), B \subseteq A \cup {t}
    PROVE  /\ IsFiniteSet(S \ {x})
           /\ IsFiniteSet(B)
           /\ Cardinality(S \ {x}) + Cardinality(B) <= Cardinality(S) + Cardinality(A)
  <1>1. IsFiniteSet(S \ {x}) /\ Cardinality(S \ {x}) = Cardinality(S) - 1
    BY FS_RemoveElement
  <1>2. /\ IsFiniteSet(A \cup {t})
        /\ \/ Cardinality(A \cup {t}) = Cardinality(A)
           \/ Cardinality(A \cup {t}) = Cardinality(A) + 1
    BY FS_AddElement
  <1>3. IsFiniteSet(B) /\ Cardinality(B) <= Cardinality(A \cup {t})
    BY <1>2, FS_Subset
  <1> QED
    BY <1>1, <1>2, <1>3, FS_CardinalityType

\* Steps that insert nothing and put no thread in flight keep the bound.
LEMMA NoMore ==
    ASSUME IInv, DOMAIN sessions' \subseteq DOMAIN sessions, Pending' \subseteq Pending
    PROVE  /\ IsFiniteSet(DOMAIN sessions')
           /\ Cardinality(DOMAIN sessions') + Cardinality(Pending')
                 <= max_total_sessions - 1 + Cardinality(Threads)
  <1>1. IsFiniteSet(Pending) /\ Pending \subseteq Threads
    BY ThreadsFinite, FS_Subset DEF Pending
  <1>2. Cardinality(DOMAIN sessions') <= Cardinality(DOMAIN sessions)
           /\ IsFiniteSet(DOMAIN sessions')
    BY FS_Subset DEF IInv
  <1>3. Cardinality(Pending') <= Cardinality(Pending) /\ IsFiniteSet(Pending')
    BY <1>1, FS_Subset
  <1> QED
    BY <1>1, <1>2, <1>3, ThreadsFinite, FS_CardinalityType, LimitsAssumption DEF IInv

\* A thread that passes the check of max_total_sessions keeps the bound, however
\* many threads have passed it before.
LEMMA Checked ==
    ASSUME IInv, Cardinality(DOMAIN sessions) < max_total_sessions,
           DOMAIN sessions' = DOMAIN sessions, Pending' \subseteq Threads
    PROVE  /\ IsFiniteSet(DOMAIN sessions')
           /\ Cardinality(DOMAIN sessions') + Cardinality(Pending')
                 <= max_total_sessions - 1 + Cardinality(Threads)
  <1>1. IsFiniteSet(Pending') /\ Cardinality(Pending') <= Cardinality(Threads)
    BY ThreadsFinite, FS_Subset
  <1> QED
    BY <1>1, ThreadsFinite, FS_CardinalityType, LimitsAssumption DEF IInv

\* The control part of IInv and the bound are kept by every step.
LEMMA Step ==
    ASSUME IInv, [Next]_vars
    PROVE  IInv'
  <1> USE DEF At, Goto, Return, Hold, Free
  <1>0. /\ pc \in [Threads -> Sections] /\ DOMAIN local = Threads
        /\ "service" \in Threads /\ IsFiniteSet(Pending) /\ IsFiniteSet(DOMAIN sessions)
    BY ThreadsFinite, FS_Subset DEF IInv, Pending
  <1> DEFINE Bound == /\ IsFiniteSet(DOMAIN sessions)
                      /\ Cardinality(DOMAIN sessions) + Cardinality(Pending)
                            <= max_total_sessions - 1 + Cardinality(Threads)
             Control == /\ pc \in [Threads -> Sections] /\ DOMAIN local = Threads
                        /\ \A t \in Threads : pc[t] = "insert_clone" => t = "service"
  <1>1. ASSUME NEW c \in Callers, NEW p \in Peers, NEW q \in Peers, create_session(c, p, q)
        PROVE  Control' /\ Bound'
    <2>1. DOMAIN sessions' = DOMAIN sessions /\ Pending' \subseteq Threads
      BY <1>1 DEF create_session, Pending
    <2>2. Control'
      BY <1>0, <1>1 DEF create_session, IInv, Sections, Threads
    <2> QED
      BY <1>1, <2>1, <2>2, Checked, Zenon DEF create_session
  <1>2. ASSUME NEW c \in Callers, check_client(c)
        PROVE  Control' /\ Bound'
    <2>1. c \in Threads
      BY DEF Threads
    <2>2. DOMAIN sessions' \subseteq DOMAIN sessions
      BY <1>2, Zenon DEF check_client
    <2>3. Pending' \subseteq Pending
      BY <1>0, <1>2, <2>1, Zenon DEF check_client, NewSession, Pending
    <2>4. Control'
      BY <1>0, <1>2, <2>1, Zenon DEF check_client, NewSession, IInv, Sections
    <2> QED
      BY <2>2, <2>3, <2>4, NoMore, Zenon
  <1>3. ASSUME NEW p \in Peers, NEW q \in Peers, process_connection_request(p, q)
        PROVE  Control' /\ Bound'
    <2>1. DOMAIN sessions' \subseteq DOMAIN sessions
      BY <1>3 DEF process_connection_request
    <2>2. Pending' \subseteq Pending
      BY <1>0, <1>3, Zenon DEF process_connection_request, Pending
    <2>3. Control'
      BY <1>0, <1>3, Zenon DEF process_connection_request, IInv, Sections
    <2> QED
      BY <2>1, <2>2, <2>3, NoMore, Zenon
  <1>4. ASSUME check_total PROVE Control' /\ Bound'
    <2>1. CASE Cardinality(DOMAIN sessions) < max_total_sessions
      <3>1. DOMAIN sessions' = DOMAIN sessions /\ Pending' \subseteq Threads
        BY <1>4, Zenon DEF check_total, Pending
      <3>2. Control'
        BY <1>0, <1>4, <2>1, Zenon DEF check_total, NewSession, IInv, Sections
      <3> QED
        BY <2>1, <3>1, <3>2, Checked, Zenon
    <2>2. CASE ~ (Cardinality(DOMAIN sessions) < max_total_sessions)
      <3>1. DOMAIN sessions' \subseteq DOMAIN sessions
        BY <1>4 DEF check_total
      <3>2. Pending' \subseteq Pending
        BY <1>0, <1>4, <2>2, ZenonT(40) DEF check_total, Pending
      <3>3. Control'
        BY <1>0, <1>4, <2>2, Zenon DEF check_total, IInv, Sections
      <3> QED
        BY <3>1, <3>2, <3>3, NoMore, Zenon
    <2> QED
      BY <2>1, <2>2
  <1>5. ASSUME NEW t \in Threads, insert_session(t)
        PROVE  Control' /\ Bound'
    <2>1. DOMAIN sessions' = DOMAIN sessions \cup {local[t].id}
      BY <1>5 DEF insert_session, Put
    <2>2. t \in Pending
      BY <1>5 DEF insert_session, Pending
    <2>3. Pending' \subseteq Pending \ {t}
      BY <1>0, <1>5, <2>1, Zenon DEF insert_session, Pending
    <2>4. Control'
      BY <1>0, <1>5, Zenon DEF insert_session, IInv, Sections
    <2>5. /\ IsFiniteSet(DOMAIN sessions') /\ IsFiniteSet(Pending')
          /\ Cardinality(DOMAIN sessions') + Cardinality(Pending')
                <= Cardinality(DOMAIN sessions) + Cardinality(Pending)
      <3>1. /\ IsFiniteSet(DOMAIN sessions \cup {local[t].id}) /\ IsFiniteSet(Pending')
            /\ Cardinality(DOMAIN sessions \cup {local[t].id}) + Cardinality(Pending')
                  <= Cardinality(DOMAIN sessions) + Cardinality(Pending)
        BY <1>0, <2>2, <2>3, OneForOne, Zenon
      <3> QED
        BY <2>1, <3>1
    <2> QED
      <3>1. /\ Cardinality(DOMAIN sessions') \in Nat /\ Cardinality(Pending') \in Nat
            /\ Cardinality(DOMAIN sessions) \in Nat /\ Cardinality(Pending) \in Nat
            /\ Cardinality(Threads) \in Nat
        BY <1>0, <2>5, ThreadsFinite, FS_CardinalityType, Zenon DEF IInv
      <3>2. max_total_sessions \in Nat
        BY LimitsAssumption, Zenon
      <3>3. Cardinality(DOMAIN sessions) + Cardinality(Pending)
               <= max_total_sessions - 1 + Cardinality(Threads)
        BY <1>0, Zenon DEF IInv
      <3>4. Cardinality(DOMAIN sessions') + Cardinality(Pending')
               <= max_total_sessions - 1 + Cardinality(Threads)
        BY <2>5, <3>1, <3>2, <3>3
      <3> QED
        BY <2>4, <2>5, <3>4, Zenon
  <1>6. ASSUME insert_clone PROVE Control' /\ Bound'
    <2>1. DOMAIN sessions' = DOMAIN sessions \cup {local["service"].id}
      BY <1>6 DEF insert_clone, Put
    <2>2. Control'
      BY <1>0, <1>6, Zenon DEF insert_clone, IInv, Sections
    <2>3. Pending' \subseteq Pending \ {"service"}
      BY <1>0, <1>6, <2>1, Zenon DEF insert_clone, Pending
    <2>4. CASE local["service"].id \in DOMAIN sessions
      BY <2>1, <2>2, <2>3, <2>4, NoMore, Zenon
    <2>5. CASE local["service"].id \notin DOMAIN sessions
      <3>1. "service" \in Pending
        BY <1>0, <1>6, <2>5, Zenon DEF insert_clone, Pending
      <3>2. /\ IsFiniteSet(DOMAIN sessions') /\ IsFiniteSet(Pending')
            /\ Cardinality(DOMAIN sessions') + Cardinality(Pending')
                  <= Cardinality(DOMAIN sessions) + Cardinality(Pending)
        <4> DEFINE t == "service"
                   x == local["service"].id
        <4>0. t \in Pending /\ Pending' \subseteq Pending \ {t}
          BY <2>3, <3>1
        <4> HIDE DEF t, x
        <4>1. /\ IsFiniteSet(DOMAIN sessions \cup {x}) /\ IsFiniteSet(Pending')
              /\ Cardinality(DOMAIN sessions \cup {x}) + Cardinality(Pending')
                    <= Cardinality(DOMAIN sessions) + Cardinality(Pending)
          BY <1>0, <4>0, OneForOne, Zenon
        <4> QED
          BY <2>1, <4>1 DEF x
      <3> QED
        BY <1>0, <2>2, <3>2, ThreadsFinite, FS_CardinalityType, LimitsAssumption, SMTT(30) DEF IInv
    <2> QED
      BY <2>4, <2>5
  <1>7. ASSUME NEW t \in Threads, remove_from_sessions(t)
        PROVE  Control' /\ Bound'
    <2>1. DOMAIN sessions' = DOMAIN sessions \ {local[t].id}
      BY <1>7 DEF remove_from_sessions, Drop
    <2>2. Control'
      BY <1>0, <1>7, Zenon DEF remove_from_sessions, IInv, Sections
    <2>3. CASE local[t].id \in DOMAIN sessions
      <3>1. Pending' \subseteq Pending \cup {"service"}
        BY <1>0, <1>7, <2>1, Zenon DEF remove_from_sessions, Pending, IInv
      <3>2. /\ IsFiniteSet(DOMAIN sessions') /\ IsFiniteSet(Pending')
            /\ Cardinality(DOMAIN sessions') + Cardinality(Pending')
                  <= Cardinality(DOMAIN sessions) + Cardinality(Pending)
        <4>1. /\ IsFiniteSet(DOMAIN sessions \ {local[t].id}) /\ IsFiniteSet(Pending')
              /\ Cardinality(DOMAIN sessions \ {local[t].id}) + Cardinality(Pending')
                    <= Cardinality(DOMAIN sessions) + Cardinality(Pending)
          BY <1>0, <2>3, <3>1, OneForOneBack, ZenonT(40)
        <4> QED
          BY <2>1, <4>1
      <3> QED
        BY <1>0, <2>2, <3>2, ThreadsFinite, FS_CardinalityType, LimitsAssumption, SMTT(30) DEF IInv
    <2>4. CASE local[t].id \notin DOMAIN sessions
      <3>1. DOMAIN sessions' = DOMAIN sessions
        BY <2>1, <2>4
      <3>2. Pending' \subseteq Pending
        BY <1>0, <1>7, <3>1, Zenon DEF remove_from_sessions, Pending
      <3> QED
        BY <2>2, <3>1, <3>2, NoMore
    <2> QED
      BY <2>3, <2>4, Zenon
  \* All other steps insert nothing and put no thread in flight.
  <1> DEFINE Quiet == /\ DOMAIN sessions' \subseteq DOMAIN sessions
                      /\ DOMAIN sessions \subseteq DOMAIN sessions'
                      /\ \A t \in Threads :
                            \/ pc'[t] = pc[t] /\ local'[t].id = local[t].id
                            \/ pc'[t] \in Sections \ {"check_client", "insert_session", "insert_clone"}
                            \/ /\ t = "service" /\ pc'[t] = "insert_clone"
                               /\ local'[t].id \in DOMAIN sessions
                      /\ pc' \in [Threads -> Sections] /\ DOMAIN local' = Threads
  <1>8. ASSUME Quiet PROVE Control' /\ Bound'
    <2>1. DOMAIN sessions' \subseteq DOMAIN sessions
      BY <1>8
    <2>2. Pending' \subseteq Pending
      BY <1>8 DEF Pending
    <2>3. Control'
      BY <1>8, Zenon DEF IInv
    <2> QED
      BY <2>1, <2>2, <2>3, NoMore, Zenon
  <1>9. ASSUME NEW t \in Threads,
               \/ insert_initiator(t) \/ insert_target(t)
               \/ remove_from_initiator(t) \/ remove_from_target(t) \/ stats(t)
        PROVE  Quiet
    BY <1>0, <1>9 DEF insert_initiator, insert_target, remove_from_initiator,
                      remove_from_target, stats, Sections
  <1>10. ASSUME set_address PROVE Quiet
    BY <1>0, <1>10 DEF set_address, Sections
  <1>11. ASSUME NEW id \in SessionIds, process_relay_packet(id) PROVE Quiet
    BY <1>0, <1>11 DEF process_relay_packet, Known, Sections
  <1>12. ASSUME NEW id \in SessionIds, process_heartbeat(id) PROVE Quiet
    BY <1>0, <1>12 DEF process_heartbeat, Sections
  <1>13. ASSUME NEW c \in Callers, NEW id \in SessionIds, NEW duration,
                \/ extend_session(c, id, duration) \/ update_session_stats(c, id)
         PROVE  Quiet
    BY <1>0, <1>13 DEF extend_session, update_session_stats
  <1>14. ASSUME NEW c \in Callers, NEW id \in SessionIds, remove_session(c, id) PROVE Quiet
    BY <1>0, <1>14, Zenon DEF remove_session, Sections
  <1>15. ASSUME perform_maintenance \/ collect_expired \/ maintenance_done PROVE Quiet
    BY <1>0, <1>15, Zenon DEF perform_maintenance, collect_expired, maintenance_done, Sections
  <1>16. ASSUME NEW id \in SessionIds, next_expired(id) PROVE Quiet
    BY <1>0, <1>16, Zenon DEF next_expired, Sections
  <1>17. ASSUME no_maintenance \/ no_packet PROVE Quiet
    BY <1>0, <1>17 DEF no_maintenance, no_packet, Sections
  <1>18. ASSUME Tick PROVE Quiet
    BY <1>0, <1>18 DEF Tick
  <1>19. ASSUME UNCHANGED vars PROVE Quiet
    BY <1>0, <1>19, Zenon DEF vars
  <1>20. ASSUME NEW t \in Threads, Finish(t) PROVE Control' /\ Bound'
    BY <1>5, <1>7, <1>8, <1>9, <1>20, Zenon DEF Finish
  <1>21. ASSUME Service PROVE Control' /\ Bound'
    BY <1>0, <1>3, <1>4, <1>6, <1>8, <1>10, <1>11, <1>12, <1>15, <1>16, <1>17, <1>20, <1>21, ZenonT(40)
       DEF Service
  <1>22. ASSUME NEW c \in Callers, Call(c) \/ check_client(c) \/ Finish(c)
         PROVE  Control' /\ Bound'
    <2>1. c \in Threads
      BY SMTT(30) DEF Threads
    <2> QED
      BY <1>1, <1>2, <1>8, <1>13, <1>14, <1>20, <1>22, <2>1, ZenonT(40) DEF Call
  <1>23. Control' /\ Bound'
    BY <1>8, <1>18, <1>19, <1>21, <1>22, ZenonT(40) DEF Next
  <1> QED
    BY <1>23 DEF IInv

\* Initially nothing is in the map and no thread is in flight.
LEMMA Start ==
    ASSUME Init
    PROVE  IInv
  <1>1. pc \in [Threads -> Sections] /\ DOMAIN local = Threads /\ \A t \in Threads : pc[t] # "insert_clone"
    BY DEF Init, Sections
  <1>2. DOMAIN sessions = {} /\ Pending = {}
    BY DEF Init, Pending
  <1>3. IsFiniteSet({}) /\ Cardinality({}) = 0
    BY FS_EmptySet
  <1> QED
    BY <1>1, <1>2, <1>3, ThreadsFinite, LimitsAssumption DEF IInv

\* For any number of callers, peers and session ids, and any limit, the relay
\* node never holds more than max_total_sessions - 1 sessions and one for each
\* thread: the checks of create_session and process_connection_request, which
\* let go of the lock before they insert, are late by no more than that.
THEOREM BoundedTheorem == Spec => []SessionsBounded
  <1>1. Init => IInv
    BY Start
  <1>2. IInv /\ [Next]_vars => IInv'
    BY Step
  <1>3. IInv => SessionsBounded
    <2> SUFFICES ASSUME IInv PROVE SessionsBounded
      OBVIOUS
    <2>1. IsFiniteSet(Pending)
      BY ThreadsFinite, FS_Subset, Zenon DEF Pending
    <2> QED
      BY <2>1, ThreadsFinite, FS_CardinalityType, LimitsAssumption DEF IInv, SessionsBounded
  <1> QED
    BY <1>1, <1>2, <1>3, PTL DEF Spec

-----------------------------------------------------------------------------
(* The node at rest                                                         *)

\* An id in the initiator index is that of a live session, or about to be taken out.
SlotInv ==
    \A p \in Peers : \A id \in initiator_sessions[p] :
        \/ id \in DOMAIN sessions
        \/ \E t \in Threads : pc[t] = "remove_initiator" /\ local[t].id = id

\* The count is right, or a recount is to come, or a session was written back.
StatsInv ==
    \/ active_sessions = Cardinality(DOMAIN sessions)
    \/ \E t \in Threads : pc[t] \in Recounting
    \/ \E id \in DOMAIN sessions : id \notin initiator_sessions[sessions[id].initiator]

RInv ==
    /\ TypeInv /\ LocalInv /\ IInv /\ active_sessions \in Nat
    /\ OwnerInv /\ NewInv /\ SlotInv /\ StatsInv /\ OrderInv

\* The map, the index and the threads name the same initiator of an id.
LEMMA OneInitiator ==
    ASSUME TypeInv, OwnerInv
    PROVE  /\ \A id \in DOMAIN sessions : \A p : KnownFrom(id, p) => p = sessions[id].initiator
           /\ \A p \in Peers : \A id \in initiator_sessions[p] : \A q : KnownFrom(id, q) => q = p
           /\ \A p \in Peers : \A id \in initiator_sessions[p] :
                  id \in DOMAIN sessions => sessions[id].initiator = p
  <1>1. PICK owner \in [SessionIds -> Peers \cup {NoSession}] : Agree(owner)
    BY DEF OwnerInv
  <1>2. /\ DOMAIN sessions \subseteq SessionIds /\ NoSession \notin SessionIds
        /\ \A p \in Peers : initiator_sessions[p] \subseteq SessionIds
    BY TypeParts, Zenon DEF SessionsType, IndexType
  <1>3. \A id \in SessionIds : \A p : KnownFrom(id, p) => p = owner[id]
    BY <1>1, <1>2, Zenon DEF Agree, KnownFrom
  <1> QED
    BY <1>1, <1>2, <1>3, Zenon DEF Agree

\* Who takes a session out of the map takes its id out of the index next.
LEMMA SlotStep ==
    ASSUME TypeInv, LocalInv, OwnerInv, NewInv, SlotInv, [Next]_vars
    PROVE  SlotInv'
  <1>1. ASSUME NEW u \in Threads, NEW x, Does(u, x) PROVE SlotInv'
    <2> SUFFICES ASSUME NEW p \in Peers, NEW id \in initiator_sessions'[p], id \notin DOMAIN sessions'
                 PROVE  \E t \in Threads : pc'[t] = "remove_initiator" /\ local'[t].id = id
      BY DEF SlotInv
    <2>1. id \in initiator_sessions[p]
      <3>1. CASE id \notin initiator_sessions[p]
        <4>1. pc[u] = "insert_initiator" /\ id = local[u].id /\ UNCHANGED sessions
          BY <1>1, <3>1, Zenon DEF Does, Settled
        <4>2. id \in DOMAIN sessions
          BY <4>1, Zenon DEF NewInv, NewOf
        <4> QED
          BY <4>1, <4>2, Zenon
      <3> QED
        BY <3>1
    <2>2. CASE id \in DOMAIN sessions
      BY <1>1, <2>2, Zenon DEF Does, Settled
    <2>3. CASE id \notin DOMAIN sessions
      <3>1. PICK t \in Threads : pc[t] = "remove_initiator" /\ local[t].id = id
        BY <2>1, <2>3, Zenon DEF SlotInv
      <3>2. CASE t = u
        <4>1. id \notin initiator_sessions'[local[u].s.initiator]
          BY <1>1, <3>1, <3>2, Zenon DEF Does, Settled
        <4>2. local[u].s.initiator = p
          <5>1. KnownFrom(id, local[u].s.initiator)
            BY <3>1, <3>2, Zenon DEF KnownFrom
          <5> QED
            BY <2>1, <5>1, OneInitiator, Zenon
        <4> QED
          BY <4>1, <4>2, Zenon
      <3>3. CASE t # u
        BY <1>1, <3>1, <3>3, Zenon DEF Does, Turn
      <3> QED
        BY <3>2, <3>3, Zenon
    <2> QED
      BY <2>2, <2>3, Zenon
  <1>2. ASSUME NEW t \in Threads, Creates(t) PROVE SlotInv'
    <2>1. /\ \A u \in Threads \ {t} : pc'[u] = pc[u] /\ local'[u] = local[u]
          /\ pc[t] # "remove_initiator" /\ UNCHANGED <<sessions, initiator_sessions>>
      BY <1>2, Draws, Zenon DEF Turn, Creates
    <2> QED
      BY <2>1 DEF SlotInv
  <1>3. CASE Tick
    <2>1. /\ DOMAIN sessions' = DOMAIN sessions /\ UNCHANGED <<pc, initiator_sessions>>
          /\ \A t \in Threads : local'[t].id = local[t].id
      BY <1>3, Ticks, Zenon DEF Tick
    <2> QED
      BY <2>1, Zenon DEF SlotInv
  <1>4. CASE UNCHANGED vars
    BY <1>4 DEF vars, SlotInv
  <1> QED
    BY <1>1, <1>2, <1>3, <1>4, StepKinds, InsertsSession, ZenonT(40)

\* Who changes the map recounts before its call ends, unless it wrote back a
\* session that was removed meanwhile; that one is in no index.
LEMMA StatsStep ==
    ASSUME TypeInv, LocalInv, OwnerInv, NewInv, SlotInv, StatsInv, TypeInv', [Next]_vars
    PROVE  StatsInv'
  <1>1. ASSUME NEW u \in Threads, NEW x \in SessionIds \cup {NoSession}, Does(u, x) PROVE StatsInv'
    <2> SUFFICES ASSUME \A t \in Threads : pc'[t] \notin Recounting,
                        active_sessions' # Cardinality(DOMAIN sessions')
                 PROVE  \E id \in DOMAIN sessions' :
                            id \notin initiator_sessions'[sessions'[id].initiator]
      BY DEF StatsInv
    <2>1. /\ UNCHANGED active_sessions
          /\ \A t \in Threads : pc[t] \notin Recounting
      BY <1>1, Zenon DEF Does, Settled, Turn
    <2>2. /\ DOMAIN sessions \subseteq DOMAIN sessions'
          /\ \A p \in Peers : initiator_sessions'[p] \subseteq initiator_sessions[p]
          /\ \A id \in DOMAIN sessions' \ DOMAIN sessions : id = local[u].id
      BY <1>1, Zenon DEF Does, Settled, Recounting
    <2>3. /\ DOMAIN sessions' \subseteq SessionIds
          /\ \A id \in DOMAIN sessions' : sessions'[id].initiator \in Peers
      BY DEF TypeInv, SessionsType, RelaySession
    <2>4. CASE DOMAIN sessions' = DOMAIN sessions
      <3>1. PICK id \in DOMAIN sessions : id \notin initiator_sessions[sessions[id].initiator]
        BY <2>1, <2>4, Zenon DEF StatsInv
      <3>2. sessions'[id].initiator = sessions[id].initiator
        <4>1. CASE id = x
          <5>1. KnownFrom(id, sessions'[id].initiator)
            BY <1>1, <2>4, <4>1, Zenon DEF Does, Moved
          <5> QED
            BY <5>1, OneInitiator, Zenon
        <4>2. CASE id # x
          BY <1>1, <2>3, <2>4, <4>2, Zenon DEF Does, Moved
        <4> QED
          BY <4>1, <4>2
      <3> QED
        BY <2>2, <2>3, <2>4, <3>1, <3>2, ZenonT(40)
    <2>5. CASE DOMAIN sessions' # DOMAIN sessions
      <3>1. PICK id \in DOMAIN sessions' : id \notin DOMAIN sessions
        BY <2>2, <2>5, Zenon
      <3>2. \A p \in Peers : id \notin initiator_sessions[p]
        BY <2>1, <3>1, Zenon DEF SlotInv, Recounting
      <3> QED
        BY <2>2, <2>3, <3>1, <3>2, Zenon
    <2> QED
      BY <2>4, <2>5, Zenon
  <1>2. ASSUME NEW t \in Threads, Creates(t) PROVE StatsInv'
    <2>1. /\ \A u \in Threads \ {t} : pc'[u] = pc[u]
          /\ pc[t] \notin Recounting
          /\ UNCHANGED <<sessions, initiator_sessions, active_sessions>>
      BY <1>2, Draws, Zenon DEF Turn, Creates, Recounting
    <2> QED
      BY <2>1, Zenon DEF StatsInv
  <1>3. CASE Tick
    <2>1. /\ DOMAIN sessions' = DOMAIN sessions
          /\ UNCHANGED <<pc, initiator_sessions, active_sessions>>
          /\ \A id \in DOMAIN sessions : sessions'[id].initiator = sessions[id].initiator
      BY <1>3, OlderSession, TypeParts, Zenon DEF Tick, SessionsType, Continues
    <2> QED
      BY <2>1 DEF StatsInv
  <1>4. CASE UNCHANGED vars
    BY <1>4 DEF vars, StatsInv
  <1> QED
    BY <1>1, <1>2, <1>3, <1>4, StepKinds, InsertsSession, TypeParts, Zenon

\* Addresses are learnt in order, also in what is about to be written.
LEMMA OrderStep ==
    ASSUME TypeInv, LocalInv, TypeInv', OrderInv, [Next]_vars
    PROVE  OrderInv'
  <1>1. ASSUME NEW u \in Threads, NEW x \in SessionIds \cup {NoSession}, Does(u, x) PROVE OrderInv'
    <2>1. ASSUME NEW id \in DOMAIN sessions' PROVE InOrder(sessions'[id])
      <3>1. id \in SessionIds
        BY DEF TypeInv, SessionsType
      <3> QED
        BY <1>1, <3>1, Zenon DEF Does, Moved, Ordered, OrderInv
    <2>2. ASSUME NEW t \in Threads, pc'[t] \in Writing PROVE InOrder(local'[t].s)
      BY <1>1, <2>2, Zenon DEF Does, Turn, Ordered, OrderInv
    <2> QED
      BY <2>1, <2>2, Zenon DEF OrderInv, InOrder
  <1>2. ASSUME NEW t \in Threads, Creates(t) PROVE OrderInv'
    <2>1. /\ \A u \in Threads \ {t} : pc'[u] = pc[u] /\ local'[u] = local[u]
          /\ InOrder(local'[t].s) /\ UNCHANGED sessions
      BY <1>2, Draws, Zenon DEF Turn, Creates
    <2> QED
      BY <2>1, Zenon DEF OrderInv, InOrder
  <1>3. CASE Tick
    <2>1. \A id \in DOMAIN sessions : InOrder(sessions'[id])
      BY <1>3, OlderSession, TypeParts, Zenon DEF Tick, SessionsType, Continues, OrderInv
    <2>2. \A t \in Threads : pc[t] \in Writing => InOrder(local'[t].s)
      BY <1>3, Ticks, OlderSession, Zenon DEF Continues, OrderInv
    <2> QED
      BY <1>3, <2>1, <2>2, Zenon DEF OrderInv, InOrder, Tick
  <1>4. CASE UNCHANGED vars
    BY <1>4 DEF vars, OrderInv, InOrder
  <1> QED
    BY <1>1, <1>2, <1>3, <1>4, StepKinds, InsertsSession, TypeParts, ZenonT(40)

\* The counter is only ever set to the size of the map.
LEMMA CountStep ==
    ASSUME TypeInv, LocalInv, IInv', active_sessions \in Nat, [Next]_vars
    PROVE  active_sessions' \in Nat
  <1>1. Cardinality(DOMAIN sessions') \in Nat
    BY FS_CardinalityType DEF IInv
  <1>2. UNCHANGED active_sessions \/ active_sessions' = Cardinality(DOMAIN sessions')
    BY StepKinds, InsertsSession, Zenon DEF Does, Settled, Creates, Tick, vars
  <1> QED
    BY <1>1, <1>2, Zenon

\* The invariant holds at the start, and every step keeps it.
LEMMA Kept ==
    /\ Init => RInv
    /\ RInv /\ [Next]_vars => RInv'
  <1>1. ASSUME Init PROVE RInv
    <2>1. /\ DOMAIN sessions = {} /\ active_sessions = 0
          /\ \A p \in Peers : initiator_sessions[p] = {}
          /\ \A t \in Threads : pc[t] \in {"idle", "receive"} /\ local[t].id = NoSession
      BY <1>1 DEF Init, Nothing
    <2>2. OwnerInv
      <3>1. [id \in SessionIds |-> NoSession] \in [SessionIds -> Peers \cup {NoSession}]
        BY Zenon
      <3> QED
        BY <2>1, <3>1, Zenon DEF OwnerInv, Agree
    <2>3. StatsInv
      BY <2>1, FS_EmptySet, Zenon DEF StatsInv
    <2>4. NewInv /\ SlotInv /\ OrderInv
      BY <2>1 DEF NewInv, NewOf, NewSections, SlotInv, OrderInv, Writing
    <2> QED
      BY <1>1, <2>1, <2>2, <2>3, <2>4, TypeStart, Start, ZenonT(40) DEF RInv
  <1>2. ASSUME RInv, [Next]_vars PROVE RInv'
    <2>1. /\ TypeInv /\ LocalInv /\ IInv /\ active_sessions \in Nat
          /\ OwnerInv /\ NewInv /\ SlotInv /\ StatsInv /\ OrderInv
      BY <1>2, Zenon DEF RInv
    <2>2. TypeInv' /\ LocalInv' /\ IInv'
      BY <1>2, <2>1, TypeStep, Step, Zenon
    <2>3. OwnerInv' /\ NewInv' /\ SlotInv' /\ StatsInv' /\ OrderInv' /\ active_sessions' \in Nat
      BY <1>2, <2>1, <2>2, OwnerStep, NewStep, SlotStep, StatsStep, OrderStep, CountStep, ZenonT(40)
    <2> QED
      BY <2>2, <2>3, Zenon DEF RInv
  <1> QED
    BY <1>1, <1>2, Zenon

\* The maps, the indices, the counter and the locals of every thread have their
\* types after any interleaving of the critical sections of RelayNode, whatever
\* the ids, the peers, the callers and the limits.
THEOREM TypeCorrect == Spec => []TypeOK
  <1>1. RInv => TypeOK
    BY DEF RInv, TypeInv, SessionsType, IndexType, ControlType, RelayLocal, Ends, TypeOK
  <1> QED
    BY <1>1, Kept, PTL DEF Spec

\* remove_session never leaves the slot of a client taken: whatever creates,
\* removes, expires and writes back sessions meanwhile, once no call is under
\* way each id in initiator_sessions is that of a live session of that client.
THEOREM SlotsTheorem == Spec => []SlotsNeverLeak
  <1>1. RInv => SlotsNeverLeak
    <2> SUFFICES ASSUME RInv, AtRest, NEW p \in Peers, NEW id \in initiator_sessions[p]
                 PROVE  id \in DOMAIN sessions /\ sessions[id].initiator = p
      BY DEF SlotsNeverLeak
    <2>1. TypeInv /\ OwnerInv /\ SlotInv /\ \A t \in Threads : pc[t] # "remove_initiator"
      BY DEF RInv, AtRest, Free
    <2>2. id \in DOMAIN sessions
      BY <2>1 DEF SlotInv
    <2> QED
      BY <2>1, <2>2, OneInitiator, Zenon
  <1> QED
    BY <1>1, Kept, PTL DEF Spec

\* active_sessions of RelayStats is the number of sessions whenever no call is
\* under way and no session was written back after its removal, however the
\* recounts of the threads were interleaved.
THEOREM StatsTheorem == Spec => []StatsSettle
  <1>1. RInv => StatsSettle
    BY DEF RInv, StatsInv, StatsSettle, AtRest, Free, Recounting, Indexed
  <1> QED
    BY <1>1, Kept, PTL DEF Spec

\* No session knows the address of its target and not the one of its initiator,
\* although a packet is handled on a clone that is written back later.
THEOREM AddressesTheorem == Spec => []AddressesInOrder
  <1>1. RInv => AddressesInOrder
    BY DEF RInv, OrderInv, InOrder, AddressesInOrder
  <1> QED
    BY <1>1, Kept, PTL DEF Spec
================================================================================
