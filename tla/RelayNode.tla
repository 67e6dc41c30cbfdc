------------------------------- MODULE RelayNode -------------------------------
(***************************************************************************)
(* form-net/formnet/src/relay/service.rs: the sessions of a relay node.    *)
(*                                                                         *)
(* One service thread receives datagrams and runs maintenance; any number  *)
(* of callers use the public methods of the same RelayNode.  sessions, the *)
(* two indexes and the statistics are behind locks of their own, so every  *)
(* locked section is one step and the sections of different threads        *)
(* interleave.                                                             *)
(*                                                                         *)
(* A datagram that a size or rate limit drops, and a request that is       *)
(* refused, changes nothing that is modelled here.  An address is only     *)
(* known or not known.  Times are counted in ticks, relative to now.       *)
(***************************************************************************)
EXTENDS Integers, FiniteSets, FiniteSetsExt

CONSTANTS
    Callers,                        \* threads that use the public methods
    SessionIds,                     \* the ids generate_session_id may draw
    Peers,                          \* public keys
    max_total_sessions,             \* ResourceLimits
    max_sessions_per_client,
    session_inactivity_timeout,
    session_expiration,             \* DEFAULT_SESSION_EXPIRATION
    NoSession

ASSUME LimitsAssumption ==
    /\ IsFiniteSet(Callers) /\ "service" \notin Callers
    /\ NoSession \notin SessionIds
    /\ max_total_sessions \in Nat \ {0}
    /\ max_sessions_per_client \in Nat \ {0}
    /\ session_inactivity_timeout \in Nat \ {0}
    /\ session_expiration \in Nat \ {0}

VARIABLES
    sessions,               \* id -> session, defined for the live sessions
    initiator_sessions,     \* public key -> ids; {} stands for no entry
    target_sessions,
    active_sessions,        \* the counter in RelayStats
    maintenance_due,        \* last_maintenance.elapsed() >= maintenance_interval
    pc,                     \* the section each thread runs next
    local,                  \* the id and the session each thread holds
    expired,                \* ids maintenance still has to remove
    late                    \* threads whose call has lasted a tick already

vars == <<sessions, initiator_sessions, target_sessions, active_sessions,
          maintenance_due, pc, local, expired, late>>

Threads == Callers \cup {"service"}

RelaySession ==
    [initiator : Peers, target : Peers,
     initiator_known : BOOLEAN, target_known : BOOLEAN,
     idle : 0 .. session_inactivity_timeout + 1,    \* since last_activity
     left : -1 .. session_expiration]               \* until expires_at

\* The service thread is idle at the top of its loop, and receives after it.
Sections == {"idle", "receive", "check_client", "check_total", "insert_session",
             "insert_initiator", "insert_target", "set_address", "stats",
             "insert_clone", "collect", "next", "remove_session",
             "remove_initiator", "remove_target"}

\* A slip: the session expires later than DEFAULT_SESSION_EXPIRATION.
new_session_longer(p, q) ==
    [initiator |-> p, target |-> q,
     initiator_known |-> FALSE, target_known |-> FALSE,
     idle |-> 0, left |-> session_expiration + 1]

new_session(p, q) ==
    [initiator |-> p, target |-> q,
     initiator_known |-> FALSE, target_known |-> FALSE,
     idle |-> 0, left |-> session_expiration]

is_expired(s) == s.left < 0

is_inactive(s) == s.idle > session_inactivity_timeout

PeersOf(s) == [initiator |-> s.initiator, target |-> s.target]

At(t, section) == pc[t] = section

Free(t) == pc[t] \in {"idle", "receive"}

Goto(t, section) == pc' = [pc EXCEPT ![t] = section] /\ UNCHANGED late

Nothing == [id |-> NoSession, s |-> NoSession]

\* The call ends: its locals are gone.
Return(t) ==
    /\ pc' = [pc EXCEPT ![t] = "idle"]
    /\ late' = late \ {t}
    /\ local' = [local EXCEPT ![t] = Nothing]

Hold(t, id, s) == local' = [local EXCEPT ![t] = [id |-> id, s |-> s]]

Put(id, s) == [i \in DOMAIN sessions \cup {id} |-> IF i = id THEN s ELSE sessions[i]]

Drop(id) == [i \in DOMAIN sessions \ {id} |-> sessions[i]]

\* A random 64-bit id: one that nobody uses.
Fresh ==
    {id \in SessionIds :
        /\ id \notin DOMAIN sessions \cup expired
        /\ \A p \in Peers : id \notin initiator_sessions[p] \cup target_sessions[p]
        /\ \A t \in Threads : local[t].id # id}

\* The bound on ids: a session is asked for only while each thread could draw one.
IdsLeft == Cardinality(Fresh) >= Cardinality(Threads)

\* The live ids someone other than the creating thread can name: an id becomes
\* visible when it enters the initiator index.
Known ==
    {id \in DOMAIN sessions :
        \A t \in Threads : At(t, "insert_initiator") => local[t].id # id}

Init ==
    /\ sessions = [id \in {} |-> NoSession]
    /\ initiator_sessions = [p \in Peers |-> {}]
    /\ target_sessions = [p \in Peers |-> {}]
    /\ active_sessions = 0
    /\ maintenance_due = FALSE
    /\ pc = [t \in Threads |-> "idle"]
    /\ local = [t \in Threads |-> Nothing]
    /\ expired = {}
    /\ late = {}

-------------------------------------------------------------------------------
(***************************************************************************)
(* Creating a session: create_session for a caller, process_connection_    *)
(* request for the service thread.  They check the two limits in opposite  *)
(* orders, and insert only after both read locks are released.             *)
(***************************************************************************)
create_session(c, p, q) ==
    /\ At(c, "idle") /\ IdsLeft
    /\ Cardinality(DOMAIN sessions) < max_total_sessions
    /\ Goto(c, "check_client")
    /\ Hold(c, NoSession, [initiator |-> p, target |-> q])
    /\ UNCHANGED <<sessions, initiator_sessions, target_sessions, active_sessions,
                   maintenance_due, expired>>

\* RelaySession::new under an id of its own, once the second limit is passed.
NewSession(t) ==
    /\ \E id \in Fresh : Hold(t, id, new_session(local[t].s.initiator, local[t].s.target))
    /\ Goto(t, "insert_session")

check_client(c) ==
    /\ At(c, "check_client")
    /\ IF Cardinality(initiator_sessions[local[c].s.initiator]) < max_sessions_per_client
       THEN NewSession(c)
       ELSE Return(c)
    /\ UNCHANGED <<sessions, initiator_sessions, target_sessions, active_sessions,
                   maintenance_due, expired>>

process_connection_request(p, q) ==
    /\ At("service", "receive") /\ IdsLeft
    /\ Cardinality(initiator_sessions[p]) < max_sessions_per_client
    /\ Goto("service", "check_total")
    /\ Hold("service", NoSession, [initiator |-> p, target |-> q])
    /\ UNCHANGED <<sessions, initiator_sessions, target_sessions, active_sessions,
                   maintenance_due, expired>>

\* A slip: the limit on all sessions is not checked.
check_total_skipped ==
    /\ At("service", "check_total")
    /\ NewSession("service")
    /\ UNCHANGED <<sessions, initiator_sessions, target_sessions, active_sessions,
                   maintenance_due, expired>>

check_total ==
    /\ At("service", "check_total")
    /\ IF Cardinality(DOMAIN sessions) < max_total_sessions
       THEN NewSession("service")
       ELSE Return("service")
    /\ UNCHANGED <<sessions, initiator_sessions, target_sessions, active_sessions,
                   maintenance_due, expired>>

insert_session(t) ==
    /\ At(t, "insert_session")
    /\ sessions' = Put(local[t].id, local[t].s)
    /\ Hold(t, local[t].id, PeersOf(local[t].s))
    /\ Goto(t, "insert_initiator")
    /\ UNCHANGED <<initiator_sessions, target_sessions, active_sessions,
                   maintenance_due, expired>>

insert_initiator(t) ==
    /\ At(t, "insert_initiator")
    /\ initiator_sessions' =
           [initiator_sessions EXCEPT ![local[t].s.initiator] = @ \cup {local[t].id}]
    /\ Goto(t, "insert_target")
    /\ UNCHANGED <<sessions, target_sessions, active_sessions, maintenance_due, local, expired>>

insert_target(t) ==
    /\ At(t, "insert_target")
    /\ target_sessions' =
           [target_sessions EXCEPT ![local[t].s.target] = @ \cup {local[t].id}]
    /\ Goto(t, IF t = "service" THEN "set_address" ELSE "stats")
    /\ UNCHANGED <<sessions, initiator_sessions, active_sessions, maintenance_due, local, expired>>

\* A session that is gone already is left alone.
set_address ==
    /\ At("service", "set_address")
    /\ sessions' = [id \in DOMAIN sessions |->
                       IF id = local["service"].id
                       THEN [sessions[id] EXCEPT !.initiator_known = TRUE]
                       ELSE sessions[id]]
    /\ Goto("service", "stats")
    /\ UNCHANGED <<initiator_sessions, target_sessions, active_sessions,
                   maintenance_due, local, expired>>

\* A slip: only the service thread recounts.
stats_service_only(t) ==
    /\ At(t, "stats")
    /\ active_sessions' = IF t = "service" THEN Cardinality(DOMAIN sessions) ELSE active_sessions
    /\ Return(t)
    /\ UNCHANGED <<sessions, initiator_sessions, target_sessions, maintenance_due, expired>>

\* create_session, remove_session and a connection request end by recounting.
stats(t) ==
    /\ At(t, "stats")
    /\ active_sessions' = Cardinality(DOMAIN sessions)
    /\ Return(t)
    /\ UNCHANGED <<sessions, initiator_sessions, target_sessions, maintenance_due, expired>>

-------------------------------------------------------------------------------
(***************************************************************************)
(* Using a session.  Sessions are changed in place under the write lock,   *)
(* except by a relay packet: it clones the session under the read lock and *)
(* writes the clone back under the write lock.                             *)
(***************************************************************************)
\* A slip: a packet for the initiator is taken before its address is known.
process_relay_packet_early(id) ==
    /\ At("service", "receive")
    /\ id \in Known
    /\ Hold("service", id, [sessions[id] EXCEPT !.target_known = TRUE, !.idle = 0])
    /\ Goto("service", "insert_clone")
    /\ UNCHANGED <<sessions, initiator_sessions, target_sessions, active_sessions,
                   maintenance_due, expired>>

\* A packet needs the address of the other end and records that of its sender.
process_relay_packet(id) ==
    /\ At("service", "receive")
    /\ id \in Known
    /\ LET s == sessions[id]
       IN  \/ /\ s.initiator # s.target /\ s.target_known
              /\ Hold("service", id, [s EXCEPT !.initiator_known = TRUE, !.idle = 0])
           \/ /\ s.initiator_known
              /\ Hold("service", id, [s EXCEPT !.target_known = TRUE, !.idle = 0])
    /\ Goto("service", "insert_clone")
    /\ UNCHANGED <<sessions, initiator_sessions, target_sessions, active_sessions,
                   maintenance_due, expired>>

insert_clone ==
    /\ At("service", "insert_clone")
    /\ sessions' = Put(local["service"].id, local["service"].s)
    /\ Return("service")
    /\ UNCHANGED <<initiator_sessions, target_sessions, active_sessions,
                   maintenance_due, expired>>

process_heartbeat(id) ==
    /\ At("service", "receive")
    /\ id \in Known
    /\ sessions' = [sessions EXCEPT ![id].idle = 0, ![id].left = session_expiration]
    /\ Return("service")
    /\ UNCHANGED <<initiator_sessions, target_sessions, active_sessions,
                   maintenance_due, expired>>

extend_session(c, id, duration) ==
    /\ At(c, "idle")
    /\ id \in Known
    /\ sessions' = [sessions EXCEPT ![id].left = duration]
    /\ UNCHANGED <<initiator_sessions, target_sessions, active_sessions,
                   maintenance_due, pc, local, expired, late>>

update_session_stats(c, id) ==
    /\ At(c, "idle")
    /\ id \in Known
    /\ sessions' = [sessions EXCEPT ![id].idle = 0]
    /\ UNCHANGED <<initiator_sessions, target_sessions, active_sessions,
                   maintenance_due, pc, local, expired, late>>

-------------------------------------------------------------------------------
(***************************************************************************)
(* Removing sessions: remove_session for a caller, maintenance for the     *)
(* service thread, which collects the ids under one read lock and removes  *)
(* them one by one afterwards.                                             *)
(***************************************************************************)
remove_session(c, id) ==
    /\ At(c, "idle")
    /\ id \in Known
    /\ Hold(c, id, PeersOf(sessions[id]))
    /\ Goto(c, "remove_session")
    /\ UNCHANGED <<sessions, initiator_sessions, target_sessions, active_sessions,
                   maintenance_due, expired>>

remove_from_sessions(t) ==
    /\ At(t, "remove_session")
    /\ sessions' = Drop(local[t].id)
    /\ Goto(t, "remove_initiator")
    /\ UNCHANGED <<initiator_sessions, target_sessions, active_sessions,
                   maintenance_due, local, expired>>

\* A slip: the id is looked for under the public key of the target.
remove_from_initiator_swapped(t) ==
    /\ At(t, "remove_initiator")
    /\ initiator_sessions' =
           [initiator_sessions EXCEPT ![local[t].s.target] = @ \ {local[t].id}]
    /\ Goto(t, "remove_target")
    /\ UNCHANGED <<sessions, target_sessions, active_sessions, maintenance_due, local, expired>>

remove_from_initiator(t) ==
    /\ At(t, "remove_initiator")
    /\ initiator_sessions' =
           [initiator_sessions EXCEPT ![local[t].s.initiator] = @ \ {local[t].id}]
    /\ Goto(t, "remove_target")
    /\ UNCHANGED <<sessions, target_sessions, active_sessions, maintenance_due, local, expired>>

remove_from_target(t) ==
    /\ At(t, "remove_target")
    /\ target_sessions' =
           [target_sessions EXCEPT ![local[t].s.target] = @ \ {local[t].id}]
    /\ Goto(t, IF t = "service" THEN "next" ELSE "stats")
    /\ UNCHANGED <<sessions, initiator_sessions, active_sessions, maintenance_due, local, expired>>

perform_maintenance ==
    /\ At("service", "idle") /\ maintenance_due
    /\ active_sessions' = Cardinality(DOMAIN sessions)
    /\ Goto("service", "collect")
    /\ UNCHANGED <<sessions, initiator_sessions, target_sessions, maintenance_due,
                   local, expired>>

\* A slip: sessions that are only inactive are not collected.
collect_expired_only ==
    /\ At("service", "collect")
    /\ expired' = {id \in DOMAIN sessions : is_expired(sessions[id])}
    /\ Goto("service", "next")
    /\ UNCHANGED <<sessions, initiator_sessions, target_sessions, active_sessions,
                   maintenance_due, local>>

collect_expired ==
    /\ At("service", "collect")
    /\ expired' = {id \in DOMAIN sessions :
                      is_expired(sessions[id]) \/ is_inactive(sessions[id])}
    /\ Goto("service", "next")
    /\ UNCHANGED <<sessions, initiator_sessions, target_sessions, active_sessions,
                   maintenance_due, local>>

\* An id that somebody else has removed since is skipped.
next_expired(id) ==
    /\ At("service", "next")
    /\ id \in expired
    /\ expired' = expired \ {id}
    /\ IF id \in DOMAIN sessions
       THEN Hold("service", id, PeersOf(sessions[id])) /\ Goto("service", "remove_session")
       ELSE UNCHANGED <<local, pc, late>>
    /\ UNCHANGED <<sessions, initiator_sessions, target_sessions, active_sessions,
                   maintenance_due>>

\* The loop goes on with one attempt to receive.
maintenance_done ==
    /\ At("service", "next") /\ expired = {}
    /\ active_sessions' = Cardinality(DOMAIN sessions)
    /\ maintenance_due' = FALSE
    /\ pc' = [pc EXCEPT !["service"] = "receive"]
    /\ late' = late \ {"service"}
    /\ local' = [local EXCEPT !["service"] = Nothing]
    /\ UNCHANGED <<sessions, initiator_sessions, target_sessions, expired>>

no_maintenance ==
    /\ At("service", "idle") /\ ~ maintenance_due
    /\ Goto("service", "receive")
    /\ UNCHANGED <<sessions, initiator_sessions, target_sessions, active_sessions,
                   maintenance_due, local, expired>>

\* Nothing to receive, or a datagram that is dropped or refused.
no_packet ==
    /\ At("service", "receive")
    /\ Return("service")
    /\ UNCHANGED <<sessions, initiator_sessions, target_sessions, active_sessions,
                   maintenance_due, expired>>

-------------------------------------------------------------------------------
Older(s) ==
    [s EXCEPT !.idle = Min({@ + 1, session_inactivity_timeout + 1}),
              !.left = Max({@ - 1, -1})]

\* Time passes, also for a session a thread is about to write.  No call takes
\* longer than a tick: one that has lasted into this one ends before the next.
Tick ==
    /\ late = {}
    /\ late' = {t \in Threads : ~ Free(t)}
    /\ sessions' = [id \in DOMAIN sessions |-> Older(sessions[id])]
    /\ local' = [t \in Threads |->
                    IF pc[t] \in {"insert_session", "insert_clone"}
                    THEN [local[t] EXCEPT !.s = Older(@)]
                    ELSE local[t]]
    /\ maintenance_due' = TRUE
    /\ UNCHANGED <<initiator_sessions, target_sessions, active_sessions, pc, expired>>

\* What a thread does once a call has begun.
Finish(t) ==
    \/ insert_session(t)
    \/ insert_initiator(t)
    \/ insert_target(t)
    \/ remove_from_sessions(t)
    \/ remove_from_initiator(t)
    \/ remove_from_target(t)
    \/ stats(t)

Service ==
    \/ \E p, q \in Peers : process_connection_request(p, q)
    \/ check_total
    \/ set_address
    \/ \E id \in SessionIds : process_relay_packet(id) \/ process_heartbeat(id)
    \/ insert_clone
    \/ perform_maintenance
    \/ collect_expired
    \/ \E id \in SessionIds : next_expired(id)
    \/ maintenance_done
    \/ no_maintenance
    \/ no_packet
    \/ Finish("service")

Call(c) ==
    \/ \E p, q \in Peers : create_session(c, p, q)
    \/ \E id \in SessionIds :
        \/ remove_session(c, id)
        \/ update_session_stats(c, id)
        \/ \E duration \in 0 .. session_expiration : extend_session(c, id, duration)

Next ==
    \/ Service
    \/ \E c \in Callers : Call(c) \/ check_client(c) \/ Finish(c)
    \/ Tick

Spec == Init /\ [][Next]_vars

\* The loop of the service thread runs, calls that were made end, and time
\* passes.  Nobody has to send anything or to make a call.
FairSpec ==
    /\ Spec
    /\ WF_vars(Service)
    /\ \A c \in Callers : WF_vars(check_client(c) \/ Finish(c))
    /\ WF_vars(Tick)

-------------------------------------------------------------------------------
\* The locals and the control state agree with what the sections expect.
TypeOK ==
    /\ DOMAIN sessions \subseteq SessionIds
    /\ \A id \in DOMAIN sessions : sessions[id] \in RelaySession
    /\ initiator_sessions \in [Peers -> SUBSET SessionIds]
    /\ target_sessions \in [Peers -> SUBSET SessionIds]
    /\ active_sessions \in Nat
    /\ maintenance_due \in BOOLEAN
    /\ pc \in [Threads -> Sections]
    /\ local \in [Threads -> [id : SessionIds \cup {NoSession},
                              s : RelaySession \cup [initiator : Peers, target : Peers]
                                    \cup {NoSession}]]
    /\ expired \subseteq SessionIds
    /\ late \subseteq Threads

AtRest == \A t \in Threads : Free(t)

\* Between a check of max_total_sessions and the insertion anyone else may pass
\* the same check, and a packet may write back a session that was removed: every
\* thread can exceed the limit by at most one session, together.
SessionsBounded ==
    Cardinality(DOMAIN sessions) <= max_total_sessions - 1 + Cardinality(Threads)

\* Whatever order creations, removals and maintenance ran in, once no call is in
\* progress each id a client is charged for is a live session of that client:
\* no slot of max_sessions_per_client is lost for good.
SlotsNeverLeak ==
    AtRest =>
        \A p \in Peers : \A id \in initiator_sessions[p] :
            id \in DOMAIN sessions /\ sessions[id].initiator = p

Indexed(id) ==
    /\ id \in initiator_sessions[sessions[id].initiator]
    /\ id \in target_sessions[sessions[id].target]

\* active_sessions is recounted after every change of the map by the thread that
\* made it, so with no call in progress it is exact, unless a packet has written
\* back a removed session.
StatsSettle ==
    (AtRest /\ \A id \in DOMAIN sessions : Indexed(id)) =>
        active_sessions = Cardinality(DOMAIN sessions)

\* The target of a session becomes reachable only after the initiator is: a
\* session made by create_session, which records no address, forwards nothing.
AddressesInOrder ==
    \A id \in DOMAIN sessions : sessions[id].target_known => sessions[id].initiator_known

\* A session that has expired or fallen inactive is removed by maintenance, or
\* somebody extends or uses it first.  Packets alone do not keep a session that
\* has expired, and one that a packet wrote back after its removal goes too.
StaleSessionsGo ==
    \A id \in SessionIds :
        []<>(id \in DOMAIN sessions =>
                ~ is_expired(sessions[id]) /\ ~ is_inactive(sessions[id]))

\* What find_sessions_for_pubkey returns when it runs alone.
find_sessions_for_pubkey(p) == initiator_sessions[p] \cup target_sessions[p]

\* "Find all sessions for a given public key (as either initiator or target)".
FindsAllSessions ==
    AtRest =>
        \A p \in Peers :
            {id \in DOMAIN sessions : p \in {sessions[id].initiator, sessions[id].target}}
                \subseteq find_sessions_for_pubkey(p)
================================================================================
