---------------------------- MODULE RelayNodeSteps -----------------------------
(***************************************************************************)
(* What the steps of a relay node do to the sessions and to what its       *)
(* threads hold of them, for any number of callers, peers and ids: every   *)
(* thread holds what its next section expects, everybody agrees on the     *)
(* initiator of a session, and a new session is its creator's alone until  *)
(* it is in the index.                                                     *)
(***************************************************************************)
EXTENDS RelayNode, TLAPS

\* What a thread holds of a session that is in the map.
Ends == [initiator : Peers, target : Peers]

RelayLocal == [id : SessionIds \cup {NoSession}, s : RelaySession \cup Ends \cup {NoSession}]

\* The sections that hold the id and the ends of a session.
Indexing == {"insert_initiator", "insert_target", "set_address", "remove_session",
             "remove_initiator", "remove_target"}

\* The locals of a thread, by the section it runs next.
LocalOf(t) ==
    /\ pc[t] \in {"check_client", "check_total"} =>
           local[t].id = NoSession /\ local[t].s \in Ends
    /\ pc[t] \in {"insert_session", "insert_clone"} =>
           local[t].id \in SessionIds /\ local[t].s \in RelaySession
    /\ pc[t] \in Indexing => local[t].id \in SessionIds /\ local[t].s \in Ends
    /\ Free(t) => local[t] = Nothing

LocalInv == \A t \in Threads : LocalOf(t)

SessionsType ==
    DOMAIN sessions \subseteq SessionIds /\ \A id \in DOMAIN sessions : sessions[id] \in RelaySession

ControlType ==
    /\ pc \in [Threads -> Sections]
    /\ local \in [Threads -> RelayLocal]
    /\ late \subseteq Threads

IndexType ==
    /\ initiator_sessions \in [Peers -> SUBSET SessionIds]
    /\ target_sessions \in [Peers -> SUBSET SessionIds]
    /\ maintenance_due \in BOOLEAN
    /\ expired \subseteq SessionIds

\* TypeOK but for the count.
TypeInv == SessionsType /\ IndexType /\ ControlType

\* The type invariant, in the parts that steps change together.
LEMMA TypeParts ==
    ASSUME TypeInv
    PROVE  /\ ControlType /\ SessionsType /\ IndexType
           /\ NoSession \notin SessionIds
           /\ \A t \in Threads : local[t].id \in SessionIds \cup {NoSession}
  BY LimitsAssumption DEF TypeInv, ControlType, RelayLocal

\* The service loop is one of the threads.
LEMMA ServiceThread == "service" \in Threads
  BY DEF Threads

\* A new session, and the ends of one.
LEMMA NewIn ==
    ASSUME NEW p \in Peers, NEW q \in Peers
    PROVE  new_session(p, q) \in RelaySession /\ new_session(p, q).initiator = p
  <1>1. 0 \in 0 .. session_inactivity_timeout + 1 /\ session_expiration \in -1 .. session_expiration
    BY LimitsAssumption
  <1> QED
    BY <1>1 DEF RelaySession, new_session

\* What remove_session keeps of a session are its two ends.
LEMMA PeersIn ==
    ASSUME NEW s \in RelaySession
    PROVE  PeersOf(s) \in Ends /\ PeersOf(s).initiator = s.initiator
  BY DEF RelaySession, PeersOf, Ends

\* The addresses of a session are learnt in order.
InOrder(s) == s.target_known => s.initiator_known

\* A session after a step that changes it: the same session, in order if it was.
Continues(s, r) ==
    /\ r \in RelaySession
    /\ r.initiator = s.initiator
    /\ InOrder(s) => InOrder(r)

\* The ways a session is written.
LEMMA Refreshed ==
    ASSUME NEW s \in RelaySession
    PROVE  Continues(s, [s EXCEPT !.idle = 0])
  <1>1. 0 \in 0 .. session_inactivity_timeout + 1
    BY LimitsAssumption
  <1> QED
    BY <1>1 DEF RelaySession, Continues, InOrder

\* A session that is given more time is the same session,
LEMMA Extended ==
    ASSUME NEW s \in RelaySession, NEW d \in 0 .. session_expiration
    PROVE  Continues(s, [s EXCEPT !.left = d])
  <1>1. d \in -1 .. session_expiration
    BY LimitsAssumption
  <1> QED
    BY <1>1 DEF RelaySession, Continues, InOrder

\* so is one whose heartbeat came,
LEMMA Beaten ==
    ASSUME NEW s \in RelaySession
    PROVE  Continues(s, [s EXCEPT !.idle = 0, !.left = session_expiration])
  <1>1. 0 \in 0 .. session_inactivity_timeout + 1 /\ session_expiration \in -1 .. session_expiration
    BY LimitsAssumption
  <1> QED
    BY <1>1, Zenon DEF RelaySession, Continues, InOrder

\* one whose initiator has become known,
LEMMA Addressed ==
    ASSUME NEW s \in RelaySession
    PROVE  Continues(s, [s EXCEPT !.initiator_known = TRUE])
  BY Zenon DEF RelaySession, Continues, InOrder

\* and the copy that process_relay_packet has updated.
LEMMA Cloned ==
    ASSUME NEW s \in RelaySession
    PROVE  /\ Continues(s, [s EXCEPT !.initiator_known = TRUE, !.idle = 0])
           /\ s.initiator_known => Continues(s, [s EXCEPT !.target_known = TRUE, !.idle = 0])
  <1>1. 0 \in 0 .. session_inactivity_timeout + 1
    BY LimitsAssumption
  <1>2. Continues(s, [s EXCEPT !.initiator_known = TRUE, !.idle = 0])
    BY <1>1, Zenon DEF RelaySession, Continues, InOrder
  <1>3. s.initiator_known => Continues(s, [s EXCEPT !.target_known = TRUE, !.idle = 0])
    BY <1>1, Zenon DEF RelaySession, Continues, InOrder
  <1> QED
    BY <1>2, <1>3

\* The smaller and the larger of two numbers.
LEMMA MinMax ==
    ASSUME NEW a \in Int, NEW b \in Int
    PROVE  /\ Min({a, b}) = IF a <= b THEN a ELSE b
           /\ Max({a, b}) = IF a >= b THEN a ELSE b
  BY DEF Min, Max

\* A session that grows older stays what it is.
LEMMA OlderSession ==
    ASSUME NEW s \in RelaySession
    PROVE  /\ Continues(s, Older(s))
           /\ Older(s).idle <= s.idle + 1 /\ Older(s).left >= s.left - 1
  <1>1. s.idle \in 0 .. session_inactivity_timeout + 1 /\ s.left \in -1 .. session_expiration
    BY DEF RelaySession
  <1>2. Min({s.idle + 1, session_inactivity_timeout + 1}) \in 0 .. session_inactivity_timeout + 1
           /\ Min({s.idle + 1, session_inactivity_timeout + 1}) <= s.idle + 1
    BY <1>1, MinMax, LimitsAssumption
  <1>3. Max({s.left - 1, -1}) \in -1 .. session_expiration /\ Max({s.left - 1, -1}) >= s.left - 1
    <2>1. s.left - 1 \in Int /\ -1 \in Int
      BY <1>1, LimitsAssumption
    <2>2. Max({s.left - 1, -1}) = IF s.left - 1 >= -1 THEN s.left - 1 ELSE -1
      BY <2>1, MinMax, Zenon
    <2> QED
      BY <1>1, <2>2, LimitsAssumption
  <1> DEFINE i == Min({s.idle + 1, session_inactivity_timeout + 1})
             l == Max({s.left - 1, -1})
  <1>4. Older(s) = [s EXCEPT !.idle = i, !.left = l]
    BY DEF Older
  <1> HIDE DEF i, l
  <1>5. i \in 0 .. session_inactivity_timeout + 1 /\ l \in -1 .. session_expiration
    BY <1>2, <1>3 DEF i, l
  <1>6. Older(s).idle = i /\ Older(s).left = l
    BY <1>4, <1>5 DEF RelaySession
  <1>7. Continues(s, Older(s))
    BY <1>4, <1>5, Zenon DEF RelaySession, Continues, InOrder
  <1> QED
    BY <1>2, <1>3, <1>6, <1>7 DEF i, l

\* The steps that change the sessions in place.
LEMMA InPlace ==
    ASSUME SessionsType,
           \/ Tick \/ set_address
           \/ \E id \in SessionIds : process_heartbeat(id)
           \/ \E c \in Callers, id \in SessionIds :
                  \/ update_session_stats(c, id)
                  \/ \E d \in 0 .. session_expiration : extend_session(c, id, d)
    PROVE  /\ DOMAIN sessions' = DOMAIN sessions
           /\ \A i \in DOMAIN sessions : Continues(sessions[i], sessions'[i])
  <1>0. \A i \in DOMAIN sessions : sessions[i] \in RelaySession /\ Continues(sessions[i], sessions[i])
    BY DEF SessionsType, Continues
  <1>1. CASE Tick
    <2>1. /\ DOMAIN sessions' = DOMAIN sessions
          /\ \A i \in DOMAIN sessions : sessions'[i] = Older(sessions[i])
      BY <1>1 DEF Tick
    <2> QED
      BY <1>0, <2>1, OlderSession
  <1>2. CASE set_address
    <2>1. DOMAIN sessions' = DOMAIN sessions
      BY <1>2 DEF set_address
    <2>2. ASSUME NEW i \in DOMAIN sessions PROVE Continues(sessions[i], sessions'[i])
      <3>1. sessions'[i] \in {sessions[i], [sessions[i] EXCEPT !.initiator_known = TRUE]}
        BY <1>2 DEF set_address
      <3> QED
        BY <1>0, <3>1, Addressed
    <2> QED
      BY <2>1, <2>2
  <1>3. ASSUME NEW id \in SessionIds, process_heartbeat(id)
        PROVE  /\ DOMAIN sessions' = DOMAIN sessions
               /\ \A i \in DOMAIN sessions : Continues(sessions[i], sessions'[i])
    <2>1. /\ id \in DOMAIN sessions /\ DOMAIN sessions' = DOMAIN sessions
          /\ sessions'[id] = [sessions[id] EXCEPT !.idle = 0, !.left = session_expiration]
          /\ \A i \in DOMAIN sessions : i # id => sessions'[i] = sessions[i]
      BY <1>3 DEF process_heartbeat, Known
    <2>2. Continues(sessions[id], sessions'[id])
      BY <1>0, <2>1, Beaten, Zenon
    <2> QED
      BY <1>0, <2>1, <2>2
  <1>4. ASSUME NEW c \in Callers, NEW id \in SessionIds, update_session_stats(c, id)
        PROVE  /\ DOMAIN sessions' = DOMAIN sessions
               /\ \A i \in DOMAIN sessions : Continues(sessions[i], sessions'[i])
    <2>1. /\ id \in DOMAIN sessions /\ DOMAIN sessions' = DOMAIN sessions
          /\ sessions'[id] = [sessions[id] EXCEPT !.idle = 0]
          /\ \A i \in DOMAIN sessions : i # id => sessions'[i] = sessions[i]
      BY <1>4 DEF update_session_stats, Known
    <2>2. Continues(sessions[id], sessions'[id])
      BY <1>0, <2>1, Refreshed
    <2> QED
      BY <1>0, <2>1, <2>2
  <1>5. ASSUME NEW c \in Callers, NEW id \in SessionIds, NEW d \in 0 .. session_expiration,
               extend_session(c, id, d)
        PROVE  /\ DOMAIN sessions' = DOMAIN sessions
               /\ \A i \in DOMAIN sessions : Continues(sessions[i], sessions'[i])
    <2>1. /\ id \in DOMAIN sessions /\ DOMAIN sessions' = DOMAIN sessions
          /\ sessions'[id] = [sessions[id] EXCEPT !.left = d]
          /\ \A i \in DOMAIN sessions : i # id => sessions'[i] = sessions[i]
      BY <1>5 DEF extend_session, Known
    <2>2. Continues(sessions[id], sessions'[id])
      BY <1>0, <2>1, Extended
    <2> QED
      BY <1>0, <2>1, <2>2
  <1> QED
    BY <1>1, <1>2, <1>3, <1>4, <1>5

\* A relay packet takes a clone of a session that goes on from it.
LEMMA TakesClone ==
    ASSUME SessionsType, NEW id \in SessionIds, process_relay_packet(id)
    PROVE  \E s \in RelaySession : Continues(sessions[id], s) /\ Hold("service", id, s)
  <1>1. id \in DOMAIN sessions /\ sessions[id] \in RelaySession
    BY DEF process_relay_packet, Known, SessionsType
  <1> DEFINE a == [sessions[id] EXCEPT !.initiator_known = TRUE, !.idle = 0]
             b == [sessions[id] EXCEPT !.target_known = TRUE, !.idle = 0]
  <1>2. Hold("service", id, a) \/ (sessions[id].initiator_known /\ Hold("service", id, b))
    BY DEF process_relay_packet
  <1>3. Continues(sessions[id], a) /\ (sessions[id].initiator_known => Continues(sessions[id], b))
    BY <1>1, Cloned, Zenon
  <1> HIDE DEF a, b
  <1>4. \A s : Continues(sessions[id], s) => s \in RelaySession
    BY DEF Continues
  <1> QED
    BY <1>2, <1>3, <1>4

\* No step gives the map anything but sessions.
LEMMA SessionsTypes ==
    ASSUME TypeInv, LocalInv, [Next]_vars
    PROVE  SessionsType'
  <1>0. SessionsType
    BY DEF TypeInv
  <1>1. ASSUME NEW t \in Threads, insert_session(t) PROVE SessionsType'
    <2>1. local[t].id \in SessionIds /\ local[t].s \in RelaySession
      BY <1>1 DEF insert_session, At, LocalInv, LocalOf
    <2> QED
      BY <1>0, <1>1, <2>1 DEF SessionsType, insert_session, Put
  <1>2. ASSUME insert_clone PROVE SessionsType'
    <2>1. local["service"].id \in SessionIds /\ local["service"].s \in RelaySession
      BY <1>2, ServiceThread DEF insert_clone, At, LocalInv, LocalOf
    <2> QED
      BY <1>0, <1>2, <2>1 DEF SessionsType, insert_clone, Put
  <1>3. ASSUME DOMAIN sessions' = DOMAIN sessions,
               \A i \in DOMAIN sessions : Continues(sessions[i], sessions'[i])
        PROVE  SessionsType'
    BY <1>0, <1>3 DEF SessionsType, Continues
  <1>4. ASSUME set_address \/ \E id \in SessionIds : process_heartbeat(id) PROVE SessionsType'
    BY <1>0, <1>3, <1>4, InPlace
  <1>5. ASSUME NEW c \in Callers, NEW id \in SessionIds, NEW duration \in 0 .. session_expiration,
               extend_session(c, id, duration)
        PROVE  SessionsType'
    BY <1>0, <1>3, <1>5, InPlace
  <1>6. ASSUME NEW c \in Callers, NEW id \in SessionIds, update_session_stats(c, id)
        PROVE  SessionsType'
    BY <1>0, <1>3, <1>6, InPlace
  <1>7. ASSUME NEW t \in Threads, remove_from_sessions(t) PROVE SessionsType'
    BY <1>0, <1>7 DEF SessionsType, remove_from_sessions, Drop
  <1>8. ASSUME Tick PROVE SessionsType'
    BY <1>0, <1>3, <1>8, InPlace
  <1>9. UNCHANGED sessions => SessionsType'
    BY <1>0, Zenon DEF SessionsType
  <1>10. ASSUME NEW t \in Threads, Finish(t) PROVE SessionsType'
    BY <1>1, <1>7, <1>9, <1>10
       DEF Finish, insert_initiator, insert_target, remove_from_initiator, remove_from_target, stats
  <1>11. ASSUME Service PROVE SessionsType'
    BY <1>2, <1>4, <1>9, <1>10, <1>11, ServiceThread, Zenon
       DEF Service, process_connection_request, check_total, process_relay_packet,
           perform_maintenance, collect_expired, next_expired, maintenance_done, no_maintenance,
           no_packet
  <1>12. ASSUME NEW c \in Callers, Call(c) \/ check_client(c) \/ Finish(c) PROVE SessionsType'
    BY <1>5, <1>6, <1>9, <1>10, <1>12, Zenon DEF Call, create_session, remove_session, check_client, Threads
  <1> QED
    BY <1>8, <1>9, <1>11, <1>12 DEF Next, vars

\* Nor the indexes and the ids to remove anything but ids.
LEMMA IndexTypes ==
    ASSUME TypeInv, LocalInv, [Next]_vars
    PROVE  IndexType'
  <1>0. IndexType /\ DOMAIN sessions \subseteq SessionIds
    BY Zenon DEF TypeInv, SessionsType
  <1>1. ASSUME NEW t \in Threads, insert_initiator(t) \/ insert_target(t) PROVE IndexType'
    <2>1. local[t].id \in SessionIds /\ local[t].s.initiator \in Peers /\ local[t].s.target \in Peers
      BY <1>1 DEF insert_initiator, insert_target, At, LocalInv, LocalOf, Indexing, Ends
    <2> QED
      BY <1>0, <1>1, <2>1 DEF IndexType, insert_initiator, insert_target
  <1>2. ASSUME NEW t \in Threads, remove_from_initiator(t) \/ remove_from_target(t) PROVE IndexType'
    BY <1>0, <1>2 DEF IndexType, remove_from_initiator, remove_from_target
  <1>3. ASSUME NEW t \in Threads, stats(t) PROVE IndexType'
    BY <1>0, <1>3 DEF IndexType, stats
  <1>4. ASSUME perform_maintenance \/ collect_expired \/ maintenance_done PROVE IndexType'
    BY <1>0, <1>4, Zenon DEF IndexType, perform_maintenance, collect_expired, maintenance_done
  <1>5. ASSUME NEW id \in SessionIds, next_expired(id) PROVE IndexType'
    BY <1>0, <1>5 DEF IndexType, next_expired
  <1>6. ASSUME Tick PROVE IndexType'
    BY <1>0, <1>6 DEF IndexType, Tick
  <1>7. UNCHANGED <<initiator_sessions, target_sessions, maintenance_due, expired>> => IndexType'
    BY <1>0 DEF IndexType
  <1>8. ASSUME NEW t \in Threads, Finish(t) PROVE IndexType'
    BY <1>1, <1>2, <1>3, <1>7, <1>8 DEF Finish, insert_session, remove_from_sessions
  <1>9. ASSUME Service PROVE IndexType'
    BY <1>4, <1>5, <1>7, <1>8, <1>9, ServiceThread, Zenon
       DEF Service, process_connection_request, check_total, set_address, process_relay_packet,
           process_heartbeat, insert_clone, no_maintenance, no_packet
  <1>10. ASSUME NEW c \in Callers, Call(c) \/ check_client(c) \/ Finish(c) PROVE IndexType'
    BY <1>7, <1>8, <1>10, Zenon
       DEF Call, create_session, remove_session, update_session_stats, extend_session, check_client,
           Threads
  <1> QED
    BY <1>6, <1>7, <1>9, <1>10 DEF Next, vars

-----------------------------------------------------------------------------
(* What a step of one thread does                                           *)

\* Only thread u moves.
Turn(u) ==
    /\ ControlType'
    /\ \A t \in Threads \ {u} : pc'[t] = pc[t] /\ local'[t] = local[t] /\ (t \in late' <=> t \in late)

\* What Goto, Hold and Return change.
LEMMA Goes ==
    ASSUME ControlType, NEW u \in Threads, NEW c \in Sections, Goto(u, c), UNCHANGED local
    PROVE  Turn(u) /\ pc'[u] = c /\ local'[u] = local[u]
  BY DEF Turn, Goto, ControlType

\* A thread goes on to a section with an id and a session in hand.
LEMMA Holds ==
    ASSUME ControlType, NEW u \in Threads, NEW c \in Sections, Goto(u, c),
           NEW id \in SessionIds \cup {NoSession}, NEW s \in RelaySession \cup Ends, Hold(u, id, s)
    PROVE  Turn(u) /\ pc'[u] = c /\ local'[u].id = id /\ local'[u].s = s /\ late' = late
  <1>1. [id |-> id, s |-> s] \in RelayLocal
    BY DEF RelayLocal
  <1> DEFINE r == [id |-> id, s |-> s]
  <1>2. local' = [local EXCEPT ![u] = r] /\ r.id = id /\ r.s = s
    BY DEF Hold
  <1> HIDE DEF r
  <1>3. local' \in [Threads -> RelayLocal] /\ local'[u] = r
        /\ \A t \in Threads \ {u} : local'[t] = local[t]
    BY <1>1, <1>2 DEF ControlType, r
  <1>4. /\ pc' \in [Threads -> Sections] /\ late' = late /\ pc'[u] = c
        /\ \A t \in Threads \ {u} : pc'[t] = pc[t]
    BY DEF Goto, ControlType
  <1> QED
    BY <1>2, <1>3, <1>4 DEF Turn, ControlType

\* A call returns: its locals are gone.
LEMMA Returns ==
    ASSUME ControlType, NEW u \in Threads, NEW c \in {"idle", "receive"},
           pc' = [pc EXCEPT ![u] = c], late' = late \ {u}, local' = [local EXCEPT ![u] = Nothing]
    PROVE  Turn(u) /\ pc'[u] = c /\ local'[u] = Nothing
  <1>1. Nothing \in RelayLocal /\ c \in Sections
    BY DEF Nothing, RelayLocal, Sections
  <1> QED
    BY <1>1 DEF Turn, ControlType

\* The initiator a thread or the map has for an id before the step.
KnownFrom(id, p) ==
    \/ id \in DOMAIN sessions /\ sessions[id].initiator = p
    \/ \E t \in Threads : local[t].id = id /\ local[t].s.initiator = p

\* The step is about the session x: nothing else of the map changes, u holds the id
\* it had, or one it found, and nobody learns a new initiator of an id.
Moved(u, x) ==
    /\ \A t \in Threads \ {u} : pc'[t] = pc[t] /\ local'[t] = local[t] /\ (t \in late' <=> t \in late)
    /\ x = local[u].id \/ x \in Known
    /\ \A id \in SessionIds \ {x} :
           /\ id \in DOMAIN sessions' <=> id \in DOMAIN sessions
           /\ id \in DOMAIN sessions => sessions'[id] = sessions[id]
    /\ x \in DOMAIN sessions' => x \in SessionIds /\ KnownFrom(x, sessions'[x].initiator)
    /\ local'[u].id \in {NoSession, local[u].id} \cup Known \cup expired
    /\ local'[u].id # NoSession => KnownFrom(local'[u].id, local'[u].s.initiator)
    /\ \A p \in Peers : \A id \in initiator_sessions'[p] :
           id \in initiator_sessions[p] \/ KnownFrom(id, p)
    /\ \A id \in expired' \ expired :
           id \in DOMAIN sessions /\ (is_expired(sessions[id]) \/ is_inactive(sessions[id]))

\* The sections after which a thread recounts before its call ends.
Recounting == {"insert_initiator", "insert_target", "set_address", "stats", "collect", "next",
               "remove_session", "remove_initiator", "remove_target"}

\* The index and the count follow the map: who removes a session goes on to the
\* index, and whoever adds or removes one goes on to recount, but for a clone.
Settled(u) ==
    /\ \A p \in Peers : \A id \in initiator_sessions'[p] \ initiator_sessions[p] :
           /\ pc[u] = "insert_initiator" /\ id = local[u].id
           /\ pc'[u] = "insert_target" /\ UNCHANGED sessions
    /\ \A id \in DOMAIN sessions \ DOMAIN sessions' : pc'[u] = "remove_initiator" /\ local'[u].id = id
    /\ \A id \in DOMAIN sessions' \ DOMAIN sessions :
           pc'[u] \in Recounting \/ (pc[u] = "insert_clone" /\ id = local[u].id)
    /\ pc[u] = "remove_initiator" => local[u].id \notin initiator_sessions'[local[u].s.initiator]
    /\ \/ active_sessions' = Cardinality(DOMAIN sessions')
       \/ UNCHANGED active_sessions /\ (pc[u] \in Recounting => pc'[u] \in Recounting)

\* The sections that write the session they hold.
Writing == {"insert_session", "insert_clone"}

\* The addresses of a session are in order, also in what is about to be written.
OrderInv ==
    /\ \A id \in DOMAIN sessions : InOrder(sessions[id])
    /\ \A t \in Threads : pc[t] \in Writing => InOrder(local[t].s)

Ordered(u, x) ==
    OrderInv => /\ x \in DOMAIN sessions' => InOrder(sessions'[x])
                /\ pc'[u] \in Writing => InOrder(local'[u].s)

\* The sections of a session that is not in the initiator index yet.
NewSections == {"insert_session", "insert_initiator"}

Does(u, x) == Turn(u) /\ LocalInv' /\ Moved(u, x) /\ Settled(u) /\ Ordered(u, x)

\* The draw of an id.
Creates(t) ==
    /\ pc[t] \in {"check_client", "check_total"}
    /\ NewSession(t)
    /\ UNCHANGED <<sessions, initiator_sessions, target_sessions, active_sessions, expired>>

\* The others keep their locals.
LEMMA OneMoves ==
    ASSUME LocalInv, NEW u \in Threads, Turn(u), LocalOf(u)'
    PROVE  LocalInv'
  <1>1. ASSUME NEW t \in Threads \ {u} PROVE LocalOf(t)'
    BY <1>1, Zenon DEF Turn, LocalInv, LocalOf, Free
  <1> QED
    BY <1>1 DEF LocalInv

\* A thread that goes on with what it holds or ends its call; it may change the
\* session x in place.
LEMMA GoesOn ==
    ASSUME TypeInv, LocalInv, NEW u \in Threads, NEW x,
           Turn(u), pc'[u] \notin NewSections,
           \/ local'[u] = Nothing /\ pc'[u] \in {"idle", "receive"}
           \/ local'[u] = local[u] /\ pc'[u] \in {"stats", "collect", "next"}
           \/ local'[u] = local[u] /\ pc[u] \in Indexing /\ pc'[u] \in Indexing
           \/ local'[u] = local[u] /\ pc[u] \in {"idle", "receive"} /\ pc'[u] \in {"idle", "receive"},
           x = local[u].id \/ x \in Known,
           DOMAIN sessions' = DOMAIN sessions,
           \A id \in DOMAIN sessions : id # x => sessions'[id] = sessions[id],
           x \in DOMAIN sessions => Continues(sessions[x], sessions'[x]),
           UNCHANGED initiator_sessions, pc[u] # "remove_initiator",
           \A id \in expired' \ expired :
               id \in DOMAIN sessions /\ (is_expired(sessions[id]) \/ is_inactive(sessions[id])),
           \/ active_sessions' = Cardinality(DOMAIN sessions)
           \/ UNCHANGED active_sessions /\ (pc[u] \in Recounting => pc'[u] \in Recounting)
    PROVE  Does(u, x)
  <1>1. LocalOf(u)'
    BY Zenon DEF LocalInv, LocalOf, Free, Indexing
  <1>2. Moved(u, x)
    <2>1. DOMAIN sessions \subseteq SessionIds
      BY Zenon DEF TypeInv, SessionsType
    <2>2. local'[u].id = NoSession \/ local'[u] = local[u]
      BY DEF Nothing
    <2> QED
      BY <2>1, <2>2, Zenon DEF Turn, Moved, KnownFrom, Continues
  <1>3. Settled(u)
    BY DEF Settled
  <1>4. Ordered(u, x)
    BY Zenon DEF Ordered, OrderInv, Writing, Indexing, Continues
  <1> QED
    BY <1>1, <1>2, <1>3, <1>4, OneMoves, Zenon DEF Does

\* A thread that takes hold of a session in the map, or of the ends of none.
LEMMA TakesHold ==
    ASSUME TypeInv, LocalInv, NEW u \in Threads, NEW id, NEW s,
           Turn(u), local'[u].id = id, local'[u].s = s,
           \/ pc'[u] \in {"check_client", "check_total"} /\ id = NoSession /\ s \in Ends
           \/ pc'[u] = "insert_clone" /\ id \in Known /\ Continues(sessions[id], s)
           \/ /\ pc'[u] = "remove_session" /\ id \in DOMAIN sessions /\ id \in Known \cup expired
              /\ s \in Ends /\ s.initiator = sessions[id].initiator,
           UNCHANGED <<sessions, initiator_sessions, active_sessions>>, expired' \subseteq expired,
           pc[u] # "remove_initiator", pc[u] \in Recounting => pc'[u] \in Recounting
    PROVE  Does(u, local[u].id)
  <1>0. DOMAIN sessions \subseteq SessionIds /\ Known \subseteq DOMAIN sessions
        /\ NoSession \notin SessionIds /\ local[u].id \in SessionIds \cup {NoSession}
    BY TypeParts, Zenon DEF SessionsType, Known
  <1>1. LocalOf(u)'
    BY <1>0, Zenon DEF LocalOf, Free, Indexing, Continues
  <1>2. Moved(u, local[u].id)
    BY <1>0, Zenon DEF Turn, Moved, KnownFrom, Continues
  <1>3. Settled(u)
    BY DEF Settled
  <1>4. Ordered(u, local[u].id)
    BY <1>0, Zenon DEF Ordered, OrderInv, Writing, Continues
  <1> QED
    BY <1>1, <1>2, <1>3, <1>4, OneMoves, Zenon DEF Does

\* Sessions that come and go.
LEMMA InsertsSession ==
    ASSUME TypeInv, LocalInv, NEW t \in Threads, insert_session(t)
    PROVE  Does(t, local[t].id) /\ pc'[t] = "insert_initiator" /\ late' = late
           /\ local'[t].id = local[t].id
           /\ local[t].id \in DOMAIN sessions' /\ sessions'[local[t].id] = local[t].s
  <1>1. /\ pc[t] = "insert_session" /\ local[t].id \in SessionIds /\ local[t].s \in RelaySession
        /\ DOMAIN sessions \subseteq SessionIds
    BY DEF insert_session, At, LocalInv, LocalOf, TypeInv, SessionsType
  <1>2. PeersOf(local[t].s) \in Ends /\ PeersOf(local[t].s).initiator = local[t].s.initiator
    BY <1>1, PeersIn
  <1>3. /\ sessions' = Put(local[t].id, local[t].s)
        /\ Hold(t, local[t].id, PeersOf(local[t].s)) /\ Goto(t, "insert_initiator")
        /\ UNCHANGED <<initiator_sessions, active_sessions, expired>>
    BY Zenon DEF insert_session
  <1>4. /\ Turn(t) /\ pc'[t] = "insert_initiator" /\ late' = late
        /\ local'[t].id = local[t].id /\ local'[t].s = PeersOf(local[t].s)
    BY <1>1, <1>2, <1>3, Holds, TypeParts DEF Sections
  <1>5. /\ DOMAIN sessions' = DOMAIN sessions \cup {local[t].id} /\ sessions'[local[t].id] = local[t].s
        /\ \A id \in DOMAIN sessions : id # local[t].id => sessions'[id] = sessions[id]
    BY <1>3 DEF Put
  <1>6. LocalInv'
    BY <1>1, <1>2, <1>4, OneMoves, Zenon DEF LocalOf, Free, Indexing
  <1>7. Moved(t, local[t].id)
    BY <1>1, <1>2, <1>3, <1>4, <1>5, Zenon DEF Turn, Moved, KnownFrom
  <1>8. Settled(t)
    BY <1>1, <1>3, <1>4, <1>5, Zenon DEF Settled, Recounting
  <1>9. Ordered(t, local[t].id)
    BY <1>1, <1>4, <1>5 DEF Ordered, OrderInv, Writing
  <1> QED
    BY <1>4, <1>5, <1>6, <1>7, <1>8, <1>9, Zenon DEF Does

\* The service loop writes back the session of the packet it has processed.
LEMMA InsertsClone ==
    ASSUME TypeInv, LocalInv, insert_clone
    PROVE  Does("service", local["service"].id) /\ pc'["service"] = "idle"
  <1> DEFINE t == "service"
  <1>1. /\ t \in Threads /\ pc[t] = "insert_clone"
        /\ local[t].id \in SessionIds /\ local[t].s \in RelaySession
        /\ DOMAIN sessions \subseteq SessionIds
    BY ServiceThread DEF insert_clone, At, LocalInv, LocalOf, TypeInv, SessionsType
  <1>2. /\ sessions' = Put(local[t].id, local[t].s) /\ Return(t)
        /\ UNCHANGED <<initiator_sessions, active_sessions, expired>>
    BY DEF insert_clone
  <1> HIDE DEF t
  <1>3. Turn(t) /\ pc'[t] = "idle" /\ local'[t] = Nothing /\ local'[t].id = NoSession
    <2>1. pc' = [pc EXCEPT ![t] = "idle"] /\ late' = late \ {t} /\ local' = [local EXCEPT ![t] = Nothing]
      BY <1>2 DEF Return
    <2>2. Turn(t) /\ pc'[t] = "idle" /\ local'[t] = Nothing
      BY <1>1, <2>1, Returns, TypeParts, Zenon
    <2> QED
      BY <2>2 DEF Nothing
  <1>4. /\ DOMAIN sessions' = DOMAIN sessions \cup {local[t].id} /\ sessions'[local[t].id] = local[t].s
        /\ \A id \in DOMAIN sessions : id # local[t].id => sessions'[id] = sessions[id]
    BY <1>2 DEF Put
  <1>5. LocalInv'
    BY <1>1, <1>3, OneMoves, Zenon DEF LocalOf, Indexing
  <1>6. Moved(t, local[t].id)
    BY <1>1, <1>2, <1>3, <1>4, Zenon DEF Turn, Moved, KnownFrom
  <1>7. Settled(t)
    BY <1>1, <1>2, <1>3, <1>4, Zenon DEF Settled, Recounting
  <1>8. Ordered(t, local[t].id)
    BY <1>1, <1>3, <1>4 DEF Ordered, OrderInv, Writing
  <1> QED
    BY <1>3, <1>5, <1>6, <1>7, <1>8, Zenon DEF Does, t

\* remove_session takes the session out of the map.
LEMMA Removes ==
    ASSUME TypeInv, LocalInv, NEW t \in Threads, remove_from_sessions(t)
    PROVE  Does(t, local[t].id) /\ pc'[t] = "remove_initiator"
  <1>1. /\ pc[t] = "remove_session" /\ local[t].id \in SessionIds /\ local[t].s \in Ends
        /\ DOMAIN sessions \subseteq SessionIds
    BY DEF remove_from_sessions, At, LocalInv, LocalOf, Indexing, TypeInv, SessionsType
  <1>2. /\ sessions' = Drop(local[t].id) /\ Goto(t, "remove_initiator")
        /\ UNCHANGED <<initiator_sessions, active_sessions, expired, local>>
    BY DEF remove_from_sessions
  <1>3. Turn(t) /\ pc'[t] = "remove_initiator" /\ local'[t] = local[t]
    BY <1>2, Goes, TypeParts DEF Sections
  <1>4. /\ DOMAIN sessions' = DOMAIN sessions \ {local[t].id}
        /\ \A id \in DOMAIN sessions' : sessions'[id] = sessions[id]
    BY <1>2 DEF Drop
  <1>5. LocalInv'
    BY <1>1, <1>3, OneMoves, Zenon DEF LocalOf, Free, Indexing
  <1>6. Moved(t, local[t].id)
    BY <1>1, <1>2, <1>3, <1>4, Zenon DEF Turn, Moved, KnownFrom
  <1>7. Settled(t)
    BY <1>1, <1>2, <1>3, <1>4 DEF Settled, Recounting
  <1>8. Ordered(t, local[t].id)
    BY <1>3, <1>4 DEF Ordered, Writing
  <1> QED
    BY <1>3, <1>5, <1>6, <1>7, <1>8, Zenon DEF Does

\* Ids that enter and leave the index.
LEMMA Indexes ==
    ASSUME TypeInv, LocalInv, NEW t \in Threads, insert_initiator(t) \/ remove_from_initiator(t)
    PROVE  Does(t, local[t].id) /\ pc'[t] \in {"insert_target", "remove_target"}
  <1>1. /\ pc[t] \in Indexing /\ local[t].id \in SessionIds
        /\ local[t].s \in Ends /\ local[t].s.initiator \in Peers
        /\ DOMAIN sessions \subseteq SessionIds
    BY Zenon DEF insert_initiator, remove_from_initiator, At, LocalInv, LocalOf, Indexing, TypeInv,
           SessionsType, Ends
  <1>2. /\ \/ pc[t] = "insert_initiator" /\ Goto(t, "insert_target")
           \/ pc[t] = "remove_initiator" /\ Goto(t, "remove_target")
        /\ UNCHANGED <<sessions, active_sessions, expired, local>>
    BY DEF insert_initiator, remove_from_initiator, At
  <1>3. Turn(t) /\ local'[t] = local[t]
        /\ \/ pc[t] = "insert_initiator" /\ pc'[t] = "insert_target"
           \/ pc[t] = "remove_initiator" /\ pc'[t] = "remove_target"
    BY <1>2, Goes, TypeParts, Zenon DEF Sections
  <1>4. /\ \A p \in Peers : \A id \in initiator_sessions'[p] \ initiator_sessions[p] :
               pc[t] = "insert_initiator" /\ id = local[t].id /\ p = local[t].s.initiator
        /\ pc[t] = "remove_initiator" => local[t].id \notin initiator_sessions'[local[t].s.initiator]
    BY <1>1, TypeParts, SMTT(30) DEF insert_initiator, remove_from_initiator, At, IndexType
  <1>5. LocalInv'
    BY <1>1, <1>3, OneMoves, SMTT(30) DEF LocalOf, Free, Indexing
  <1>6. Moved(t, local[t].id)
    BY <1>1, <1>2, <1>3, <1>4, Zenon DEF Turn, Moved, KnownFrom
  <1>7. Settled(t)
    BY <1>2, <1>3, <1>4 DEF Settled, Recounting
  <1>8. Ordered(t, local[t].id)
    BY <1>2, <1>3 DEF Ordered, OrderInv, Writing
  <1> QED
    BY <1>3, <1>5, <1>6, <1>7, <1>8, Zenon DEF Does

\* The same with no change to the map.
LEMMA Quietly ==
    ASSUME TypeInv, LocalInv, NEW u \in Threads, Turn(u),
           \/ local'[u] = Nothing /\ pc'[u] \in {"idle", "receive"}
           \/ local'[u] = local[u] /\ pc'[u] \in {"stats", "collect", "next"}
           \/ local'[u] = local[u] /\ pc[u] \in Indexing /\ pc'[u] \in Indexing \ NewSections
           \/ local'[u] = local[u] /\ pc[u] \in {"idle", "receive"} /\ pc'[u] \in {"idle", "receive"},
           UNCHANGED <<sessions, initiator_sessions>>, pc[u] # "remove_initiator",
           \A id \in expired' \ expired :
               id \in DOMAIN sessions /\ (is_expired(sessions[id]) \/ is_inactive(sessions[id])),
           \/ active_sessions' = Cardinality(DOMAIN sessions)
           \/ UNCHANGED active_sessions /\ (pc[u] \in Recounting => pc'[u] \in Recounting)
    PROVE  Does(u, local[u].id) /\ pc'[u] \notin NewSections
  <1>1. pc'[u] \notin NewSections
    BY DEF NewSections
  <1>2. local[u].id \in DOMAIN sessions => Continues(sessions[local[u].id], sessions'[local[u].id])
    BY TypeParts, Zenon DEF SessionsType, Continues
  <1>3. Does(u, local[u].id)
    BY <1>1, <1>2, GoesOn
  <1> QED
    BY <1>1, <1>3

\* The steps of the service thread that neither add nor remove a session.
LEMMA ServiceSteps ==
    ASSUME TypeInv, LocalInv,
           \/ set_address \/ \E id \in SessionIds : process_relay_packet(id) \/ process_heartbeat(id)
           \/ perform_maintenance \/ collect_expired \/ maintenance_done \/ no_maintenance \/ no_packet
    PROVE  \E x \in SessionIds \cup {NoSession} : Does("service", x) /\ pc'["service"] \notin NewSections
  <1> DEFINE u == "service"
  <1>0. u \in Threads /\ ControlType /\ SessionsType /\ local[u].id \in SessionIds \cup {NoSession}
    BY ServiceThread, TypeParts
  <1>1. CASE set_address
    <2>1. /\ pc[u] = "set_address" /\ Goto(u, "stats") /\ UNCHANGED local
          /\ UNCHANGED <<initiator_sessions, active_sessions, expired>>
          /\ \A id \in DOMAIN sessions : id # local[u].id => sessions'[id] = sessions[id]
      BY <1>1 DEF set_address, At
    <2>2. /\ DOMAIN sessions' = DOMAIN sessions
          /\ local[u].id \in DOMAIN sessions => Continues(sessions[local[u].id], sessions'[local[u].id])
      BY <1>0, <1>1, InPlace
    <2>3. Turn(u) /\ pc'[u] = "stats" /\ local'[u] = local[u]
      BY <1>0, <2>1, Goes, Zenon DEF Sections
    <2> HIDE DEF u
    <2>4. Does(u, local[u].id) /\ pc'[u] \notin NewSections
      BY <1>0, <2>1, <2>2, <2>3, GoesOn, Zenon DEF Recounting, NewSections
    <2> QED
      BY <1>0, <2>4 DEF u
  <1>2. ASSUME NEW id \in SessionIds, process_relay_packet(id)
        PROVE  Does(u, local[u].id) /\ pc'[u] \notin NewSections
    <2>1. /\ pc[u] = "receive" /\ id \in Known /\ Goto(u, "insert_clone")
          /\ UNCHANGED <<sessions, initiator_sessions, active_sessions, expired>>
      BY <1>2, Zenon DEF process_relay_packet, At
    <2>2. PICK s \in RelaySession : Continues(sessions[id], s) /\ Hold(u, id, s)
      BY <1>0, <1>2, TakesClone, Zenon
    <2> HIDE DEF u
    <2>3. Turn(u) /\ pc'[u] = "insert_clone" /\ local'[u].id = id /\ local'[u].s = s
      BY <1>0, <2>1, <2>2, Holds, Zenon DEF Sections
    <2> QED
      BY <1>0, <2>1, <2>2, <2>3, TakesHold DEF Recounting, NewSections
  <1>3. ASSUME NEW id \in SessionIds, process_heartbeat(id)
        PROVE  Does(u, id) /\ pc'[u] \notin NewSections
    <2>1. /\ pc[u] = "receive" /\ id \in Known /\ Return(u)
          /\ UNCHANGED <<initiator_sessions, active_sessions, expired>>
          /\ \A i \in DOMAIN sessions : i # id => sessions'[i] = sessions[i]
      BY <1>3, Zenon DEF process_heartbeat, At
    <2>2. /\ DOMAIN sessions' = DOMAIN sessions
          /\ id \in DOMAIN sessions => Continues(sessions[id], sessions'[id])
      BY <1>0, <1>3, InPlace
    <2> HIDE DEF u
    <2>3. Turn(u) /\ pc'[u] = "idle" /\ local'[u] = Nothing
      BY <1>0, <2>1, Returns, Zenon DEF Return
    <2> QED
      BY <1>0, <2>1, <2>2, <2>3, GoesOn DEF Recounting, NewSections
  <1>4. CASE perform_maintenance \/ collect_expired \/ no_maintenance
    <2>1. /\ UNCHANGED <<sessions, initiator_sessions, local>>
          /\ \/ /\ pc[u] = "idle" /\ Goto(u, "collect") /\ UNCHANGED expired
                /\ active_sessions' = Cardinality(DOMAIN sessions)
             \/ pc[u] = "collect" /\ Goto(u, "next") /\ UNCHANGED active_sessions
             \/ pc[u] = "idle" /\ Goto(u, "receive") /\ UNCHANGED <<active_sessions, expired>>
      BY <1>4 DEF perform_maintenance, collect_expired, no_maintenance, At
    <2>2. \A id \in expired' \ expired :
              id \in DOMAIN sessions /\ (is_expired(sessions[id]) \/ is_inactive(sessions[id]))
      BY <1>4 DEF perform_maintenance, collect_expired, no_maintenance
    <2> HIDE DEF u
    <2>3. /\ Turn(u) /\ local'[u] = local[u]
          /\ \/ pc[u] = "idle" /\ pc'[u] \in {"collect", "receive"}
             \/ pc[u] = "collect" /\ pc'[u] = "next"
      BY <1>0, <2>1, Goes, Zenon DEF Sections
    <2>4. Does(u, local[u].id) /\ pc'[u] \notin NewSections
      BY <1>0, <2>1, <2>2, <2>3, Quietly DEF Recounting
    <2> QED
      BY <1>0, <2>4 DEF u
  <1>5. CASE maintenance_done \/ no_packet
    <2>1. /\ UNCHANGED <<sessions, initiator_sessions, expired>>
          /\ \/ pc[u] = "receive" /\ UNCHANGED active_sessions
             \/ pc[u] = "next" /\ active_sessions' = Cardinality(DOMAIN sessions)
          /\ pc' = [pc EXCEPT ![u] = "receive"] \/ pc' = [pc EXCEPT ![u] = "idle"]
          /\ late' = late \ {u} /\ local' = [local EXCEPT ![u] = Nothing]
      BY <1>5 DEF maintenance_done, no_packet, Return, At
    <2> HIDE DEF u
    <2>2. Turn(u) /\ pc'[u] \in {"idle", "receive"} /\ local'[u] = Nothing
      BY <1>0, <2>1, Returns, Zenon
    <2>3. Does(u, local[u].id) /\ pc'[u] \notin NewSections
      BY <1>0, <2>1, <2>2, Quietly DEF Recounting
    <2> QED
      BY <1>0, <2>3 DEF u
  <1> QED
    BY <1>0, <1>1, <1>2, <1>3, <1>4, <1>5

\* The steps of any thread that neither add nor remove a session.
LEMMA ThreadSteps ==
    ASSUME TypeInv, LocalInv, NEW u \in Threads,
           \/ insert_target(u) \/ remove_from_target(u) \/ stats(u)
           \/ pc[u] \in {"check_client", "check_total"} /\ Return(u)
              /\ UNCHANGED <<sessions, initiator_sessions, active_sessions, expired>>
    PROVE  Does(u, local[u].id) /\ pc'[u] \notin NewSections
  <1>1. CASE insert_target(u) \/ remove_from_target(u)
    <2>1. /\ pc[u] \in {"insert_target", "remove_target"}
          /\ Goto(u, "set_address") \/ Goto(u, "stats") \/ Goto(u, "next")
          /\ UNCHANGED <<sessions, initiator_sessions, active_sessions, expired, local>>
      BY <1>1 DEF insert_target, remove_from_target, At
    <2>2. Turn(u) /\ pc'[u] \in {"set_address", "stats", "next"} /\ local'[u] = local[u]
      BY <2>1, Goes, TypeParts, Zenon DEF Sections
    <2> QED
      BY <2>1, <2>2, Quietly, Zenon DEF Indexing, NewSections, Recounting
  <1>2. CASE ~(insert_target(u) \/ remove_from_target(u))
    <2>1. /\ pc[u] \in {"stats", "check_client", "check_total"} /\ Return(u)
          /\ UNCHANGED <<sessions, initiator_sessions, expired>>
          /\ \/ active_sessions' = Cardinality(DOMAIN sessions)
             \/ pc[u] # "stats" /\ UNCHANGED active_sessions
      BY <1>2 DEF stats, At
    <2>2. Turn(u) /\ pc'[u] = "idle" /\ local'[u] = Nothing
      BY <2>1, Returns, TypeParts, Zenon DEF Return
    <2> QED
      BY <2>1, <2>2, Quietly DEF Recounting
  <1> QED
    BY <1>1, <1>2, SMTT(30)

\* Asking for a session, and taking one to remove it.
LEMMA Asks ==
    ASSUME TypeInv, LocalInv, NEW u \in Threads, NEW p \in Peers, NEW q \in Peers,
           pc[u] \in {"idle", "receive"}, Goto(u, "check_client") \/ Goto(u, "check_total"),
           Hold(u, NoSession, [initiator |-> p, target |-> q]),
           UNCHANGED <<sessions, initiator_sessions, active_sessions, expired>>
    PROVE  Does(u, local[u].id) /\ pc'[u] \notin NewSections
  <1> DEFINE s == [initiator |-> p, target |-> q]
  <1>1. s \in Ends /\ Hold(u, NoSession, s)
    BY Zenon DEF Ends
  <1> HIDE DEF s
  <1>2. /\ Turn(u) /\ pc'[u] \in {"check_client", "check_total"}
        /\ local'[u].id = NoSession /\ local'[u].s = s
    BY <1>1, Holds, TypeParts, Zenon DEF Sections
  <1> QED
    BY <1>1, <1>2, TakesHold DEF Recounting, NewSections

\* A thread takes up a session to remove it.
LEMMA Picks ==
    ASSUME TypeInv, LocalInv, NEW u \in Threads, NEW id \in SessionIds, id \in DOMAIN sessions,
           id \in Known \cup expired, pc[u] \in {"idle", "next"},
           Hold(u, id, PeersOf(sessions[id])), Goto(u, "remove_session"),
           UNCHANGED <<sessions, initiator_sessions, active_sessions>>, expired' \subseteq expired
    PROVE  Does(u, local[u].id) /\ pc'[u] \notin NewSections
  <1> DEFINE s == PeersOf(sessions[id])
  <1>1. s \in Ends /\ s.initiator = sessions[id].initiator /\ Hold(u, id, s)
    BY PeersIn, TypeParts, Zenon DEF SessionsType
  <1> HIDE DEF s
  <1>2. Turn(u) /\ pc'[u] = "remove_session" /\ local'[u].id = id /\ local'[u].s = s
    BY <1>1, Holds, TypeParts DEF Sections
  <1> QED
    BY <1>1, <1>2, TakesHold, Zenon DEF Recounting, NewSections

\* The next id to remove is taken, or skipped.
LEMMA PicksNext ==
    ASSUME TypeInv, LocalInv, NEW id \in SessionIds, next_expired(id)
    PROVE  Does("service", local["service"].id) /\ pc'["service"] \notin NewSections
  <1>1. /\ pc["service"] = "next" /\ id \in expired /\ expired' \subseteq expired
        /\ UNCHANGED <<sessions, initiator_sessions, active_sessions>>
    BY DEF next_expired, At
  <1>2. CASE id \in DOMAIN sessions
    <2>1. Hold("service", id, PeersOf(sessions[id])) /\ Goto("service", "remove_session")
      BY <1>2 DEF next_expired
    <2> QED
      BY <1>1, <1>2, <2>1, Picks, ServiceThread
  <1>3. CASE id \notin DOMAIN sessions
    <2>1. UNCHANGED <<local, pc, late>>
      BY <1>3 DEF next_expired
    <2>2. Turn("service")
      BY <2>1, TypeParts, Zenon DEF Turn, ControlType
    <2> QED
      BY <1>1, <2>1, <2>2, Quietly, ServiceThread
  <1> QED
    BY <1>2, <1>3

\* What a caller does to a session in place.
LEMMA Touches ==
    ASSUME TypeInv, LocalInv, NEW c \in Callers, NEW id \in SessionIds,
           \/ update_session_stats(c, id)
           \/ \E d \in 0 .. session_expiration : extend_session(c, id, d)
    PROVE  Does(c, id) /\ pc'[c] \notin NewSections
  <1>1. /\ c \in Threads /\ pc[c] = "idle" /\ id \in Known
        /\ UNCHANGED <<initiator_sessions, active_sessions, expired, pc, local, late>>
        /\ \A i \in DOMAIN sessions : i # id => sessions'[i] = sessions[i]
    BY DEF update_session_stats, extend_session, At, Threads
  <1>2. /\ DOMAIN sessions' = DOMAIN sessions
        /\ id \in DOMAIN sessions => Continues(sessions[id], sessions'[id])
    BY InPlace, TypeParts
  <1>3. Turn(c)
    BY <1>1, TypeParts DEF Turn, ControlType
  <1> QED
    BY <1>1, <1>2, <1>3, GoesOn DEF NewSections

\* Every step is the tick, the draw of an id, or one of the above.
LEMMA StepKinds ==
    ASSUME TypeInv, LocalInv, [Next]_vars
    PROVE  \/ Tick
           \/ \E t \in Threads : Creates(t)
           \/ \E t \in Threads : insert_session(t)
           \/ \E u \in Threads, x \in SessionIds \cup {NoSession} :
                  Does(u, x) /\ pc'[u] \notin NewSections
           \/ UNCHANGED vars
  <1> DEFINE Some == \E u \in Threads, x \in SessionIds \cup {NoSession} :
                         Does(u, x) /\ pc'[u] \notin NewSections
  <1>0. "service" \in Threads /\ \A t \in Threads : local[t].id \in SessionIds \cup {NoSession}
    BY ServiceThread, TypeParts
  <1>1. ASSUME NEW u \in Threads, Does(u, local[u].id), pc'[u] \notin NewSections PROVE Some
    BY <1>0, <1>1, Zenon
  <1>2. ASSUME NEW t \in Threads, Finish(t) PROVE Some \/ insert_session(t)
    BY <1>1, <1>2, Removes, Indexes, ThreadSteps DEF Finish, NewSections
  <1>3. ASSUME NEW c \in Callers, Call(c) PROVE Some
    <2>1. c \in Threads
      BY DEF Threads
    <2>2. ASSUME NEW p \in Peers, NEW q \in Peers, create_session(c, p, q) PROVE Some
      BY <1>1, <2>1, <2>2, Asks, Zenon DEF create_session, At
    <2>3. ASSUME NEW id \in SessionIds, remove_session(c, id) PROVE Some
      BY <1>1, <2>1, <2>3, Picks DEF remove_session, At, Known
    <2>4. ASSUME NEW id \in SessionIds,
                 \/ update_session_stats(c, id)
                 \/ \E d \in 0 .. session_expiration : extend_session(c, id, d)
          PROVE  Some
      BY <2>1, <2>4, Touches
    <2> HIDE DEF Some
    <2> QED
      BY <1>3, <2>2, <2>3, <2>4 DEF Call
  <1>4. ASSUME NEW u \in Threads, check_client(u) \/ (u = "service" /\ check_total)
        PROVE  Some \/ Creates(u)
    <2>1. /\ pc[u] \in {"check_client", "check_total"}
          /\ NewSession(u) \/ Return(u)
          /\ UNCHANGED <<sessions, initiator_sessions, target_sessions, active_sessions, expired>>
      BY <1>4 DEF check_client, check_total, At
    <2> QED
      BY <1>1, <2>1, ThreadSteps, Zenon DEF Creates
  <1>5. ASSUME Service PROVE Some \/ Creates("service") \/ insert_session("service")
    <2>1. ASSUME NEW p \in Peers, NEW q \in Peers, process_connection_request(p, q) PROVE Some
      BY <1>0, <1>1, <2>1, Asks DEF process_connection_request, At
    <2>2. ASSUME NEW id \in SessionIds, next_expired(id) PROVE Some
      BY <1>0, <1>1, <2>2, PicksNext
    <2>3. ASSUME insert_clone PROVE Some
      BY <1>0, <1>1, <2>3, InsertsClone DEF NewSections
    <2>4. ASSUME \/ set_address \/ \E id \in SessionIds : process_relay_packet(id) \/ process_heartbeat(id)
                 \/ perform_maintenance \/ collect_expired \/ maintenance_done \/ no_maintenance
                 \/ no_packet
          PROVE  Some
      BY <1>0, <2>4, ServiceSteps
    <2> HIDE DEF Some
    <2> QED
      BY <1>0, <1>2, <1>4, <1>5, <2>1, <2>2, <2>3, <2>4, Zenon DEF Service
  <1> HIDE DEF Some
  <1> QED
    BY <1>0, <1>2, <1>3, <1>4, <1>5, Zenon DEF Next, Threads, Some

\* A tick ages the sessions, and the ones about to be written.
LEMMA Ticks ==
    ASSUME TypeInv, LocalInv, Tick
    PROVE  /\ ControlType' /\ LocalInv'
           /\ \A t \in Threads :
                  /\ local'[t].id = local[t].id
                  /\ pc[t] \notin Writing => local'[t] = local[t]
                  /\ pc[t] \in Writing =>
                         local[t].s \in RelaySession /\ local'[t].s = Older(local[t].s)
  <1>1. ASSUME NEW t \in Threads
        PROVE  /\ local'[t] \in RelayLocal /\ local'[t].id = local[t].id /\ LocalOf(t)'
               /\ pc[t] \notin Writing => local'[t] = local[t]
               /\ pc[t] \in Writing =>
                      local[t].s \in RelaySession /\ local'[t].s = Older(local[t].s)
    <2>0. pc'[t] = pc[t] /\ local[t] \in RelayLocal
      BY TypeParts, Zenon DEF Tick, ControlType
    <2>1. CASE pc[t] \in Writing
      <3>1. local[t].id \in SessionIds /\ local[t].s \in RelaySession
        BY <2>1 DEF LocalInv, LocalOf, Writing
      <3>2. local'[t] = [local[t] EXCEPT !.s = Older(local[t].s)]
        BY <2>1 DEF Tick, Writing
      <3>3. Older(local[t].s) \in RelaySession
        BY <3>1, OlderSession DEF Continues
      <3>4. local'[t] \in RelayLocal /\ local'[t].id = local[t].id /\ local'[t].s = Older(local[t].s)
        BY <2>0, <3>2, <3>3, Zenon DEF RelayLocal
      <3> QED
        BY <2>0, <2>1, <3>1, <3>3, <3>4, Zenon DEF LocalOf, Indexing, Free, Writing
    <2>2. CASE pc[t] \notin Writing
      <3>1. local'[t] = local[t]
        BY <2>2 DEF Tick, Writing
      <3> QED
        BY <2>0, <2>2, <3>1 DEF LocalInv, LocalOf, Free
    <2> QED
      BY <2>1, <2>2
  <1>2. pc' = pc /\ late' \subseteq Threads /\ local' = [t \in Threads |-> local'[t]]
    BY Zenon DEF Tick
  <1> QED
    BY <1>1, <1>2, TypeParts, Zenon DEF ControlType, LocalInv

\* A thread that draws an id holds a new session under it.
LEMMA Draws ==
    ASSUME TypeInv, LocalInv, NEW t \in Threads, Creates(t)
    PROVE  /\ Turn(t) /\ LocalInv' /\ pc'[t] = "insert_session" /\ late' = late
           /\ local'[t].id \in Fresh /\ local[t].s.initiator \in Peers
           /\ local'[t].s \in RelaySession /\ local'[t].s.initiator = local[t].s.initiator
           /\ local'[t].s.idle = 0 /\ local'[t].s.left = session_expiration
           /\ InOrder(local'[t].s)
  <1>1. local[t].s.initiator \in Peers /\ local[t].s.target \in Peers
    BY DEF Creates, LocalInv, LocalOf, Ends
  <1>2. PICK s \in RelaySession : s = new_session(local[t].s.initiator, local[t].s.target)
    BY <1>1, NewIn, Zenon
  <1>3. /\ s.idle = 0 /\ s.left = session_expiration /\ InOrder(s)
        /\ s.initiator = local[t].s.initiator
    BY <1>1, <1>2, Zenon DEF new_session, InOrder
  <1>4. PICK id \in Fresh : Hold(t, id, s) /\ Goto(t, "insert_session")
    BY <1>2, Zenon DEF Creates, NewSession
  <1>5. id \in SessionIds
    BY Zenon DEF Fresh
  <1>6. /\ Turn(t) /\ pc'[t] = "insert_session" /\ local'[t].id = id /\ local'[t].s = s
        /\ late' = late
    BY <1>2, <1>4, <1>5, TypeParts, Holds, SMTT(30) DEF Sections
  <1>7. LocalInv'
    BY <1>2, <1>5, <1>6, OneMoves DEF LocalOf, Free, Indexing
  <1> QED
    BY <1>1, <1>2, <1>3, <1>4, <1>6, <1>7, Zenon

\* The types and the locals hold from the start, and every step keeps them.
LEMMA TypeStart ==
    ASSUME Init
    PROVE  TypeInv /\ LocalInv
  <1>1. DOMAIN sessions = {} /\ Nothing \in RelayLocal
    BY DEF Init, Nothing, RelayLocal
  <1>2. ControlType /\ IndexType /\ SessionsType
    BY <1>1, Zenon DEF Init, ControlType, IndexType, SessionsType, Sections
  <1>3. LocalInv
    BY DEF Init, LocalInv, LocalOf, Indexing
  <1> QED
    BY <1>2, <1>3 DEF TypeInv

\* Every step keeps the types and what the threads have in hand.
LEMMA TypeStep ==
    ASSUME TypeInv, LocalInv, [Next]_vars
    PROVE  TypeInv' /\ LocalInv'
  <1>1. ControlType' /\ LocalInv'
    <2>1. ASSUME NEW t \in Threads, insert_session(t) PROVE ControlType' /\ LocalInv'
      BY <2>1, InsertsSession DEF Does, Turn
    <2>2. ASSUME NEW t \in Threads, Creates(t) PROVE ControlType' /\ LocalInv'
      BY <2>2, Draws DEF Turn
    <2>3. ASSUME NEW u, NEW x, Does(u, x) PROVE ControlType' /\ LocalInv'
      BY <2>3, Zenon DEF Does, Turn
    <2>4. CASE UNCHANGED vars
      BY <2>4, TypeParts, SMTT(30) DEF vars, ControlType, LocalInv, LocalOf, Free
    <2> QED
      BY <2>1, <2>2, <2>3, <2>4, StepKinds, Ticks, Zenon
  <1> QED
    BY <1>1, SessionsTypes, IndexTypes, Zenon DEF TypeInv

-----------------------------------------------------------------------------
(* The slots of a client.  SlotsNeverLeak and StatsSettle are about a node at  *)
(* rest and follow from what its threads still have to do: SlotInv says who    *)
(* takes an id out of the index, StatsInv who recounts.  That a new session is *)
(* not removed before its id is in the index is NewInv, and rests on the age   *)
(* of the session: no call lasts longer than a tick.                           *)

\* Everybody who has an id knows the same initiator for it.
Agree(owner) ==
    /\ \A id \in DOMAIN sessions : sessions[id].initiator = owner[id]
    /\ \A p \in Peers : \A id \in initiator_sessions[p] : owner[id] = p
    /\ \A t \in Threads : local[t].id # NoSession => local[t].s.initiator = owner[local[t].id]

OwnerInv == \E owner \in [SessionIds -> Peers \cup {NoSession}] : Agree(owner)

\* A session is not older than the call that creates it.
Young(s, t) ==
    /\ s.idle <= (IF t \in late THEN 1 ELSE 0)
    /\ s.left >= session_expiration - (IF t \in late THEN 1 ELSE 0)

\* Until its id is in the initiator index, a new session is its creator's alone.
NewOf(t) ==
    /\ pc[t] \in NewSections =>
           /\ \A u \in Threads \ {t} : local[u].id # local[t].id
           /\ local[t].id \notin expired
    /\ pc[t] = "insert_session" =>
           local[t].id \notin DOMAIN sessions /\ Young(local[t].s, t)
    /\ pc[t] = "insert_initiator" =>
           local[t].id \in DOMAIN sessions /\ Young(sessions[local[t].id], t)

NewInv == \A t \in Threads : NewOf(t)

\* Everybody agrees after every step.
LEMMA OwnerStep ==
    ASSUME TypeInv, LocalInv, TypeInv', OwnerInv, [Next]_vars
    PROVE  OwnerInv'
  <1>0. /\ DOMAIN sessions \subseteq SessionIds /\ DOMAIN sessions' \subseteq SessionIds
        /\ \A p \in Peers : initiator_sessions'[p] \subseteq SessionIds
        /\ \A t \in Threads : local[t].id \in SessionIds \cup {NoSession}
        /\ \A t \in Threads : local'[t].id \in SessionIds \cup {NoSession}
        /\ NoSession \notin SessionIds
    BY TypeParts DEF TypeInv, SessionsType, IndexType, ControlType, RelayLocal
  <1>1. PICK owner \in [SessionIds -> Peers \cup {NoSession}] : Agree(owner)
    BY Zenon DEF OwnerInv
  <1>2. \A id \in SessionIds : \A p : KnownFrom(id, p) => owner[id] = p
    BY <1>0, <1>1 DEF Agree, KnownFrom
  <1>3. CASE Tick
    <2>1. /\ DOMAIN sessions' = DOMAIN sessions /\ UNCHANGED initiator_sessions
          /\ \A id \in DOMAIN sessions : sessions'[id].initiator = sessions[id].initiator
      BY <1>3, OlderSession, TypeParts, Zenon DEF Tick, SessionsType, Continues
    <2>2. \A t \in Threads : local'[t].id = local[t].id /\ local'[t].s.initiator = local[t].s.initiator
      BY <1>3, Ticks, OlderSession, Zenon DEF Continues
    <2>3. Agree(owner)'
      BY <1>1, <2>1, <2>2 DEF Agree
    <2> QED
      BY <2>3 DEF OwnerInv
  <1>4. ASSUME NEW t \in Threads, Creates(t) PROVE OwnerInv'
    <2>1. PICK id \in Fresh : local'[t].id = id
      BY <1>4, Draws
    <2>2. PICK p \in Peers : local'[t].s.initiator = p
      BY <1>4, Draws, Zenon
    <2>3. /\ \A u \in Threads \ {t} : local'[u] = local[u]
          /\ UNCHANGED <<sessions, initiator_sessions>>
      BY <1>4, Draws, Zenon DEF Creates, Turn
    <2>4. /\ id \in SessionIds /\ id \notin DOMAIN sessions
          /\ \A q \in Peers : id \notin initiator_sessions[q]
          /\ \A u \in Threads : local[u].id # id
      BY DEF Fresh
    <2>5. PICK o \in [SessionIds -> Peers \cup {NoSession}] :
              o[id] = p /\ \A i \in SessionIds \ {id} : o[i] = owner[i]
      <3>1. [owner EXCEPT ![id] = p] \in [SessionIds -> Peers \cup {NoSession}]
        BY Zenon
      <3> QED
        BY <2>4, <3>1, Zenon
    <2>6. Agree(o)'
      BY <1>0, <1>1, <2>1, <2>2, <2>3, <2>4, <2>5 DEF Agree
    <2> QED
      BY <2>6 DEF OwnerInv
  <1>5. ASSUME NEW u \in Threads, NEW x \in SessionIds \cup {NoSession}, Moved(u, x) PROVE OwnerInv'
    <2>1. \A id \in DOMAIN sessions' : sessions'[id].initiator = owner[id]
      <3>1. ASSUME NEW id \in DOMAIN sessions', id # x PROVE sessions'[id].initiator = owner[id]
        <4>1. id \in DOMAIN sessions /\ sessions'[id] = sessions[id]
          BY <1>0, <1>5, <3>1, Zenon DEF Moved
        <4> QED
          BY <1>1, <4>1, Zenon DEF Agree
      <3>2. x \in DOMAIN sessions' => sessions'[x].initiator = owner[x]
        <4>1. x \in DOMAIN sessions' => x \in SessionIds /\ KnownFrom(x, sessions'[x].initiator)
          BY <1>5, Zenon DEF Moved
        <4> QED
          BY <1>2, <4>1, Zenon
      <3> QED
        BY <3>1, <3>2, Zenon
    <2>2. \A p \in Peers : \A id \in initiator_sessions'[p] : owner[id] = p
      BY <1>0, <1>1, <1>2, <1>5, ZenonT(40) DEF Moved, Agree
    <2>3. \A t \in Threads : local'[t].id # NoSession => local'[t].s.initiator = owner[local'[t].id]
      BY <1>0, <1>1, <1>2, <1>5 DEF Moved, Agree
    <2>4. Agree(owner)'
      BY <2>1, <2>2, <2>3, Zenon DEF Agree
    <2> QED
      BY <2>4, Zenon DEF OwnerInv
  <1>6. CASE UNCHANGED vars
    BY <1>6 DEF vars, OwnerInv, Agree
  <1> QED
    BY <1>0, <1>3, <1>4, <1>5, <1>6, StepKinds, InsertsSession, ZenonT(40) DEF Does

\* A session whose call lasts has not expired, and is not inactive.
LEMMA YoungLives ==
    ASSUME NEW s \in RelaySession, NEW t, Young(s, t)
    PROVE  ~is_expired(s) /\ ~is_inactive(s)
  BY LimitsAssumption DEF Young, is_expired, is_inactive, RelaySession

\* A tick ages a new session once in the call that creates it.
LEMMA NewTick ==
    ASSUME TypeInv, LocalInv, NewInv, Tick
    PROVE  NewInv'
  <1>1. /\ pc' = pc /\ expired' = expired /\ late = {}
        /\ DOMAIN sessions' = DOMAIN sessions
        /\ \A id \in DOMAIN sessions : sessions'[id] = Older(sessions[id])
        /\ late' = {t \in Threads : ~ Free(t)}
    BY DEF Tick
  <1>2. \A t \in Threads : /\ local'[t].id = local[t].id
                           /\ pc[t] = "insert_session" =>
                                  local[t].s \in RelaySession /\ local'[t].s = Older(local[t].s)
    BY Ticks DEF Writing
  <1>3. ASSUME NEW t \in Threads, ~Free(t), NEW s \in RelaySession, Young(s, t),
               NEW r, r = Older(s)
        PROVE  r.idle <= 1 /\ r.left >= session_expiration - 1 /\ t \in late'
    <2>1. t \notin late /\ t \in late'
      BY <1>1, <1>3
    <2>2. s.idle <= 0 /\ s.left >= session_expiration /\ s.idle \in Nat /\ s.left \in Int
      BY <1>3, <2>1, LimitsAssumption DEF Young, RelaySession
    <2>3. r.idle <= s.idle + 1 /\ r.left >= s.left - 1 /\ r \in RelaySession
      BY <1>3, OlderSession, Zenon DEF Continues
    <2>4. r.idle \in Int /\ r.left \in Int
      BY <2>3, LimitsAssumption DEF RelaySession
    <2> QED
      BY <2>1, <2>2, <2>3, <2>4, LimitsAssumption
  <1>4. ASSUME NEW t \in Threads PROVE NewOf(t)'
    <2>1. pc[t] \in NewSections => ~Free(t)
      BY DEF Free, NewSections
    <2>2. NewOf(t)
      BY Zenon DEF NewInv
    <2>3. pc[t] = "insert_initiator" => sessions[local[t].id] \in RelaySession
      BY <2>2, TypeParts, Zenon DEF NewOf, SessionsType
    <2>4. pc[t] = "insert_session" => Young(local[t].s, t)'
      BY <1>2, <1>3, <2>1, <2>2, Zenon DEF NewOf, NewSections, Young
    <2>5. pc[t] = "insert_initiator" => Young(sessions[local[t].id], t)'
      BY <1>1, <1>2, <1>3, <2>1, <2>2, <2>3 DEF NewOf, NewSections, Young
    <2> QED
      BY <1>1, <1>2, <2>2, <2>4, <2>5 DEF NewOf
  <1> QED
    BY <1>4 DEF NewInv

\* The id a thread draws is nobody else's, and its session is new.
LEMMA NewDrawn ==
    ASSUME TypeInv, LocalInv, NewInv, NEW t \in Threads, Creates(t)
    PROVE  NewInv'
  <1>1. /\ pc'[t] = "insert_session" /\ late' = late /\ local'[t].id \in Fresh
        /\ local'[t].s.idle = 0 /\ local'[t].s.left = session_expiration
        /\ \A u \in Threads \ {t} : local'[u] = local[u] /\ pc'[u] = pc[u]
    BY Draws, Zenon DEF Turn
  <1>2. /\ local'[t].id \notin DOMAIN sessions /\ local'[t].id \notin expired
        /\ \A u \in Threads : local[u].id # local'[t].id
    BY <1>1 DEF Fresh
  <1>3. UNCHANGED <<sessions, expired>>
    BY Zenon DEF Creates
  <1>4. NewOf(t)'
    <2>1. Young(local[t].s, t)'
      BY <1>1, LimitsAssumption, SMTT(30) DEF Young
    <2> QED
      BY <1>1, <1>2, <1>3, <2>1, Zenon DEF NewOf
  <1>5. ASSUME NEW u \in Threads \ {t} PROVE NewOf(u)'
    <2>1. NewOf(u)
      BY Zenon DEF NewInv
    <2> QED
      BY <1>1, <1>2, <1>3, <2>1 DEF NewOf, Young
  <1> QED
    BY <1>4, <1>5, Zenon DEF NewInv

\* What one thread does leaves the new sessions of the others alone.
LEMMA NewOthers ==
    ASSUME TypeInv, LocalInv, NewInv, NEW u \in Threads, NEW x \in SessionIds \cup {NoSession},
           Moved(u, x), NEW t \in Threads \ {u}
    PROVE  NewOf(t)'
  <1>1. /\ pc'[t] = pc[t] /\ local'[t] = local[t] /\ (t \in late' <=> t \in late)
        /\ \A v \in Threads \ {t, u} : local'[v] = local[v]
    BY Zenon DEF Moved
  <1>2. NewOf(t)
    BY Zenon DEF NewInv
  <1> SUFFICES ASSUME pc[t] \in NewSections PROVE NewOf(t)'
    BY <1>1, ZenonT(40) DEF NewOf, NewSections
  <1>3. /\ local[t].id \in SessionIds /\ local[t].id \notin expired
        /\ \A v \in Threads \ {t} : local[v].id # local[t].id
    BY <1>2, Zenon DEF NewOf, LocalInv, LocalOf, NewSections, Indexing
  <1>4. local[t].id \notin Known
    BY <1>2, Zenon DEF NewOf, Known, At, NewSections
  <1>5. x # local[t].id /\ local'[u].id # local[t].id
    BY <1>3, <1>4, TypeParts, ZenonT(40) DEF Moved
  <1>6. local[t].id \notin expired'
    <2>1. local[t].id \in DOMAIN sessions =>
              ~is_expired(sessions[local[t].id]) /\ ~is_inactive(sessions[local[t].id])
      BY <1>2, TypeParts, YoungLives, Zenon DEF NewOf, NewSections, SessionsType
    <2> QED
      BY <1>3, <2>1, Zenon DEF Moved
  <1>7. /\ local[t].id \in DOMAIN sessions' <=> local[t].id \in DOMAIN sessions
        /\ local[t].id \in DOMAIN sessions => sessions'[local[t].id] = sessions[local[t].id]
    BY <1>3, <1>5, ZenonT(40) DEF Moved
  <1>8. \A v \in Threads \ {t} : local'[v].id # local'[t].id
    BY <1>1, <1>3, <1>5
  <1> QED
    BY <1>1, <1>2, <1>6, <1>7, <1>8, Zenon DEF NewOf, Young

\* A new session is its creator's alone after every step, until it is in the index.
LEMMA NewStep ==
    ASSUME TypeInv, LocalInv, NewInv, [Next]_vars
    PROVE  NewInv'
  <1>1. ASSUME NEW t \in Threads, insert_session(t) PROVE NewInv'
    <2>1. /\ NewOf(t) /\ pc[t] = "insert_session" /\ UNCHANGED expired
      BY <1>1, Zenon DEF NewInv, insert_session, At
    <2>2. /\ Moved(t, local[t].id) /\ pc'[t] = "insert_initiator" /\ late' = late
          /\ local'[t].id = local[t].id
          /\ local[t].id \in DOMAIN sessions' /\ sessions'[local[t].id] = local[t].s
      BY <1>1, InsertsSession, Zenon DEF Does
    <2>3. Young(sessions[local[t].id], t)'
      BY <2>1, <2>2, Zenon DEF NewOf, Young
    <2>4. NewOf(t)'
      BY <2>1, <2>2, <2>3, Zenon DEF NewOf, NewSections, Moved
    <2> QED
      BY <2>2, <2>4, NewOthers, TypeParts, SMTT(30) DEF NewInv
  <1>2. ASSUME NEW u \in Threads, NEW x \in SessionIds \cup {NoSession}, Does(u, x),
               pc'[u] \notin NewSections
        PROVE  NewInv'
    <2>1. NewOf(u)'
      BY <1>2, Zenon DEF NewOf, NewSections
    <2> QED
      BY <1>2, <2>1, NewOthers DEF NewInv, Does
  <1>3. CASE UNCHANGED vars
    BY <1>3 DEF vars, NewInv, NewOf, Young
  <1> QED
    BY <1>1, <1>2, <1>3, StepKinds, NewTick, NewDrawn, Zenon
================================================================================
