---------------------------- MODULE StateService ----------------------------
(***************************************************************************)
(* The HTTP service of form-state on every node: one tokio Mutex around    *)
(* the DataStore, request handlers that hold it while they await other     *)
(* services, and the calls between nodes and to the message queue of       *)
(* form-p2p that ask for such a mutex in turn.                             *)
(*                                                                         *)
(* The contents of the store are left out: what matters here is who holds  *)
(* a mutex, who waits for one, what is answered and what is published.     *)
(*                                                                         *)
(* A call to another handler of form-state (the Op sent to a peer, the     *)
(* list of admins read by the queue, the full state read by a bootstrap)   *)
(* is one step, enabled when the mutex it needs is free: the callee takes  *)
(* it, answers and releases it without awaiting anything.                  *)
(***************************************************************************)
EXTENDS Naturals, Sequences, FiniteSets

CONSTANTS
    Nodes,          \* the nodes of the network, whose operators are its admins
    Requests,       \* requests of clients under way at the same time
    Kinds,          \* the kinds of requests that clients send
    Creds,          \* the credentials that they present
    AllowInternal   \* ALLOW_INTERNAL_ENDPOINTS is "true" on every node

AllKinds == {"network_write", "instance_write", "read", "update_account", "delete_account",
             "transfer", "request_vanity", "bootstrap"}

AllCreds == {"none", "trusted", "node", "stranger"}

ASSUME NodesAssumption == Nodes # {}
ASSUME KindsAssumption == Kinds \subseteq AllKinds
ASSUME CredsAssumption == Creds \subseteq AllCreds
ASSUME AllowInternalAssumption == AllowInternal \in BOOLEAN

(***************************************************************************)
(* Publishes[k][i] is TRUE when the i-th message that a request of kind k  *)
(* writes to the queue must be accepted for the request to go on, FALSE    *)
(* when a failure is only logged.                                          *)
(***************************************************************************)
Publishes ==
    [update_account |-> <<TRUE, FALSE>>,
     delete_account |-> <<FALSE>>,
     transfer       |-> <<TRUE, TRUE, TRUE, FALSE>>]

(* A request runs in the task <<r, 0>>; the others are tasks spawned for it. *)
Tasks == Requests \X (0 .. 4)
Own(r) == <<r, 0>>

Free == <<>>

Replies == {"waiting", "success", "failure", "unauthorized", "reset"}

VARIABLES
    req,    \* kind, credentials and node of each request, and its answer
    pc,     \* what each task does next
    todo,   \* the nodes that each task has still to call
    lock,   \* the task that holds the mutex of each node
    queue   \* how many messages of each request its node tried to publish, and which the queue took

vars == <<req, pc, todo, lock, queue>>

At(t) == req[t[1]].at

(* The admins that the datastore of a node may know at a time: it learns of them one by one. *)
get_all_active_admin == SUBSET Nodes

Init ==
    /\ req \in [Requests -> [kind : {"read"}, cred : {"none"}, at : {CHOOSE n \in Nodes : TRUE},
                             reply : {"unauthorized"}]]
    /\ pc = [t \in Tasks |-> "idle"]
    /\ todo = [t \in Tasks |-> {}]
    /\ lock = [n \in Nodes |-> Free]
    /\ queue = [r \in Requests |-> [tried |-> 0, taken |-> {}]]

-----------------------------------------------------------------------------
(* The request ends with the answer a, and releases the mutex if it has it. *)
Answer(r, a) ==
    /\ req' = [req EXCEPT ![r].reply = a]
    /\ pc' = [pc EXCEPT ![Own(r)] = "done"]
    /\ lock' = [n \in Nodes |-> IF lock[n] = Own(r) THEN Free ELSE lock[n]]

(* The routes behind node_auth_middleware. *)
network_writers_api == {"network_write"}

(* A client sends a request to a node. *)
arrive(r) ==
    /\ \A t \in Tasks : t[1] = r => pc[t] \in {"idle", "done"}
    /\ \E n \in Nodes, k \in Kinds, c \in Creds :
         /\ k \notin network_writers_api => c = "none"
         /\ req' = [req EXCEPT ![r] =
                      [kind |-> k, cred |-> c, at |-> n, reply |-> "waiting"]]
         /\ pc' = [t \in Tasks |->
                     IF t[1] # r THEN pc[t]
                     ELSE IF t # Own(r) THEN "idle"
                     ELSE IF k \in network_writers_api THEN "auth" ELSE "handler"]
    /\ queue' = [queue EXCEPT ![r] = [tried |-> 0, taken |-> {}]]
    /\ UNCHANGED <<todo, lock>>

(***************************************************************************)
(* The server is started without ConnectInfo and no client of the service  *)
(* sets x-forwarded-for, so that no request counts as a local one.         *)
(***************************************************************************)
is_localhost_request(r) == FALSE

Admitted(r) == is_localhost_request(r) \/ AllowInternal \/ req[r].cred = "trusted"

(***************************************************************************)
(* "node" is the key of a registered node and "stranger" another one, each *)
(* with a node id: both are looked up under the mutex, and with the former *)
(* the middleware still holds the mutex while it runs the handler.         *)
(***************************************************************************)
node_auth_middleware(r) ==
    /\ pc[Own(r)] = "auth"
    /\ \/ /\ Admitted(r)
          /\ pc' = [pc EXCEPT ![Own(r)] = "handler"]
          /\ UNCHANGED <<req, lock>>
       \/ /\ ~Admitted(r)
          /\ req[r].cred = "none"
          /\ Answer(r, "unauthorized")
       \/ /\ ~Admitted(r)
          /\ req[r].cred \in {"node", "stranger"}
          /\ lock[req[r].at] = Free
          /\ IF req[r].cred = "node"
             THEN /\ pc' = [pc EXCEPT ![Own(r)] = "handler"]
                  /\ lock' = [lock EXCEPT ![req[r].at] = Own(r)]
                  /\ UNCHANGED req
             ELSE Answer(r, "unauthorized")
    /\ UNCHANGED <<todo, queue>>

-----------------------------------------------------------------------------
(* The handler takes the mutex of its node. *)
Locks(r) ==
    /\ pc[Own(r)] = "handler"
    /\ lock[req[r].at] = Free

Continue(r, next) ==
    /\ lock' = [lock EXCEPT ![req[r].at] = Own(r)]
    /\ pc' = [pc EXCEPT ![Own(r)] = next]
    /\ UNCHANGED req

(* Handlers that answer without awaiting anything. *)
read(r) ==
    /\ Locks(r)
    /\ req[r].kind = "read"
    /\ \E a \in {"success", "failure"} : Answer(r, a)
    /\ UNCHANGED <<todo, queue>>

(* The endpoints whose handler applies an Op and shares it with the peers, as "/name". *)
peer_endpoints == [slashes : {1}, name : {"user/create", "user/update", "user/disable"}]
redeem_endpoints == [slashes : {1}, name : {"user/redeem", "user/delete"}]
cidr_endpoints == [slashes : {1}, name : {"cidr/create", "cidr/update", "cidr/delete"}]
assoc_endpoints == [slashes : {1}, name : {"assoc/create", "assoc/delete"}]
node_endpoints == [slashes : {1}, name : {"node/create", "node/update"}]
instance_endpoints == [slashes : {1}, name : {"instance/create", "instance/update"}]
endpoints == peer_endpoints \cup redeem_endpoints \cup cidr_endpoints \cup assoc_endpoints
               \cup node_endpoints \cup instance_endpoints

(***************************************************************************)
(* The Op is applied to the store and the handler shares it, mutex held;   *)
(* the Op of a peer and a request that is rejected are answered at once.   *)
(***************************************************************************)
write(r) ==
    /\ Locks(r)
    /\ req[r].kind \in {"network_write", "instance_write"}
    /\ \/ /\ Continue(r, "broadcast")
          /\ \E peers \in get_all_active_admin :
               todo' = [todo EXCEPT ![Own(r)] = peers \ {req[r].at}]
       \/ /\ \E a \in {"success", "failure"} : Answer(r, a)
          /\ UNCHANGED todo
    /\ UNCHANGED queue

(* The path of the URL "http://{ip}:3004/{endpoint}". *)
PathFixed(endpoint) == endpoint
Path(endpoint) == [endpoint EXCEPT !.slashes = @ + 1]

(* The routes that the router of a peer knows, and whether the path of some endpoint is one. *)
routes == endpoints
Routed == \E e \in endpoints : Path(e) \in routes

(* The POST is repeated until the peer accepts it. *)
send_until_accepted(r) ==
    /\ pc[Own(r)] = "broadcast"
    /\ \E p \in todo[Own(r)] :
         /\ Routed /\ lock[p] = Free
         /\ todo' = [todo EXCEPT ![Own(r)] = @ \ {p}]
    /\ UNCHANGED <<req, pc, lock, queue>>

(***************************************************************************)
(* A POST to one peer. A route that the peer knows waits there for the     *)
(* mutex; any other path is answered 404, which is printed and forgotten,  *)
(* as is a peer that cannot be reached.                                    *)
(***************************************************************************)
send(r) ==
    /\ pc[Own(r)] = "broadcast"
    /\ \E p \in todo[Own(r)] :
         /\ Routed => lock[p] = Free
         /\ todo' = [todo EXCEPT ![Own(r)] = @ \ {p}]
    /\ UNCHANGED <<req, pc, lock, queue>>

(* Every peer has been tried; the store is written to disk. *)
broadcast_done(r) ==
    /\ pc[Own(r)] = "broadcast"
    /\ todo[Own(r)] = {}
    /\ Answer(r, "success")
    /\ UNCHANGED <<todo, queue>>

-----------------------------------------------------------------------------
(* The checks, then the changes of the store and their messages, mutex held. *)
Publishing(r) ==
    /\ \/ Answer(r, "failure")
       \/ Continue(r, "publish")
    /\ UNCHANGED <<todo, queue>>

update_account(r) ==
    /\ Locks(r)
    /\ req[r].kind = "update_account"
    /\ Publishing(r)

delete_account(r) ==
    /\ Locks(r)
    /\ req[r].kind = "delete_account"
    /\ Publishing(r)

transfer_instance_ownership(r) ==
    /\ Locks(r)
    /\ req[r].kind = "transfer"
    /\ Publishing(r)

(* The queue spreads a message in a task of its own. *)
Spawn(r, t) == [pc EXCEPT ![t] = "list_admin"]

(* One message has been tried: the handler goes on to the next, or answers. *)
Tried(r, next, taken) ==
    /\ queue' = [queue EXCEPT ![r] = [tried |-> @.tried + 1, taken |-> @.taken \cup taken]]
    /\ IF queue[r].tried + 1 = Len(Publishes[req[r].kind])
       THEN /\ pc' = [next EXCEPT ![Own(r)] = "done"]
            /\ req' = [req EXCEPT ![r].reply = "success"]
            /\ lock' = [lock EXCEPT ![req[r].at] = Free]
       ELSE /\ pc' = next
            /\ UNCHANGED <<req, lock>>

(* The queue takes the message and answers before it spreads it. *)
write_local(r) ==
    /\ pc[Own(r)] = "publish"
    /\ LET i == queue[r].tried + 1 IN Tried(r, Spawn(r, <<r, i>>), {i})
    /\ UNCHANGED todo

write_to_queue_ignored(r) ==
    /\ pc[Own(r)] = "publish"
    /\ Tried(r, pc, {})
    /\ UNCHANGED todo

(***************************************************************************)
(* A queue that cannot be reached or refuses the message, or one that has  *)
(* taken it when the connection breaks. A message that must be published   *)
(* ends the request here: what it changed in the store so far stays, and   *)
(* so do the messages before this one.                                     *)
(***************************************************************************)
write_to_queue_failed(r) ==
    /\ pc[Own(r)] = "publish"
    /\ LET i == queue[r].tried + 1
       IN \E taken \in {{}, {i}} :
            LET next == IF taken = {} THEN pc ELSE Spawn(r, <<r, i>>)
            IN IF Publishes[req[r].kind][i]
               THEN /\ req' = [req EXCEPT ![r].reply = "failure"]
                    /\ pc' = [next EXCEPT ![Own(r)] = "done"]
                    /\ lock' = [lock EXCEPT ![req[r].at] = Free]
                    /\ queue' = [queue EXCEPT ![r] = [tried |-> i, taken |-> @.taken \cup taken]]
               ELSE Tried(r, next, taken)
    /\ UNCHANGED todo

(***************************************************************************)
(* The queue asks its datastore for the admins, or gives the message up.   *)
(* The calls to the queues of the admins that follow need no mutex.        *)
(***************************************************************************)
get_peers(t) ==
    /\ pc[t] = "list_admin"
    /\ \E reached \in BOOLEAN : reached => lock[At(t)] = Free
    /\ pc' = [pc EXCEPT ![t] = "done"]
    /\ UNCHANGED <<req, todo, lock, queue>>

-----------------------------------------------------------------------------
(* A domain for the instances of a build, unless it is assigned already. *)
request_vanity(r) ==
    /\ Locks(r)
    /\ req[r].kind = "request_vanity"
    /\ \/ Answer(r, "failure")
       \/ Continue(r, "self_call")
    /\ UNCHANGED <<todo, queue>>

(***************************************************************************)
(* The handler posts to /dns/create of its own node, without a key and     *)
(* with the mutex held. A request that is not admitted is answered 401,    *)
(* which is no JSON; one that is admitted needs the mutex. The updates of  *)
(* the instances that follow may still fail.                               *)
(***************************************************************************)
create_dns_record(r) ==
    /\ pc[Own(r)] = "self_call"
    /\ AllowInternal => lock[req[r].at] = Free
    /\ \E a \in {"success", "failure"} : (a = "success" => AllowInternal) /\ Answer(r, a)
    /\ UNCHANGED <<todo, queue>>

-----------------------------------------------------------------------------
(* The node has joined formnet: a task will fetch the state of the admins. *)
complete_bootstrap(r) ==
    /\ Locks(r)
    /\ req[r].kind = "bootstrap"
    /\ req' = [req EXCEPT ![r].reply = "success"]
    /\ pc' = [pc EXCEPT ![Own(r)] = "done", ![<<r, 1>>] = "fetch"]
    /\ \E admins \in get_all_active_admin : todo' = [todo EXCEPT ![<<r, 1>>] = admins]
    /\ UNCHANGED <<lock, queue>>

(* The full state of one admin, under its mutex; or an error, logged. *)
full_state(t) ==
    /\ pc[t] = "fetch"
    /\ \E p \in todo[t] :
         /\ todo' = [todo EXCEPT ![t] = @ \ {p}]
         /\ \/ /\ lock[p] = Free
               /\ pc' = [pc EXCEPT ![t] = "merge"]
            \/ UNCHANGED pc
    /\ UNCHANGED <<req, lock, queue>>

(* The state is merged under the node's own mutex. *)
merge(t) ==
    /\ pc[t] = "merge"
    /\ lock[At(t)] = Free
    /\ pc' = [pc EXCEPT ![t] = "fetch"]
    /\ UNCHANGED <<req, todo, lock, queue>>

bootstrap_done(t) ==
    /\ pc[t] = "fetch"
    /\ todo[t] = {}
    /\ pc' = [pc EXCEPT ![t] = "done"]
    /\ UNCHANGED <<req, todo, lock, queue>>

-----------------------------------------------------------------------------
restart_keeps_todo(n) ==
    /\ lock' = [lock EXCEPT ![n] = Free]
    /\ req' = [r \in Requests |->
                 IF req[r].at = n /\ req[r].reply = "waiting"
                 THEN [req[r] EXCEPT !.reply = "reset"] ELSE req[r]]
    /\ LET gone == {t \in Tasks : At(t) = n /\ pc[t] \notin {"idle", "done", "list_admin"}}
       IN pc' = [t \in Tasks |-> IF t \in gone THEN "done" ELSE pc[t]]
    /\ UNCHANGED <<todo, queue>>

(***************************************************************************)
(* form-state is killed and started again on a node. Its connections are   *)
(* reset and its tasks gone; the queue is another process and goes on.     *)
(***************************************************************************)
restart(n) ==
    /\ lock' = [lock EXCEPT ![n] = Free]
    /\ req' = [r \in Requests |->
                 IF req[r].at = n /\ req[r].reply = "waiting"
                 THEN [req[r] EXCEPT !.reply = "reset"] ELSE req[r]]
    /\ LET gone == {t \in Tasks : At(t) = n /\ pc[t] \notin {"idle", "done", "list_admin"}}
       IN /\ pc' = [t \in Tasks |-> IF t \in gone THEN "done" ELSE pc[t]]
          /\ todo' = [t \in Tasks |-> IF t \in gone THEN {} ELSE todo[t]]
    /\ UNCHANGED queue

-----------------------------------------------------------------------------
Handler(r) ==
    \/ node_auth_middleware(r)
    \/ read(r)
    \/ write(r)
    \/ send(r)
    \/ broadcast_done(r)
    \/ update_account(r)
    \/ delete_account(r)
    \/ transfer_instance_ownership(r)
    \/ write_local(r)
    \/ write_to_queue_failed(r)
    \/ request_vanity(r)
    \/ create_dns_record(r)
    \/ complete_bootstrap(r)

Spawned(t) ==
    \/ get_peers(t)
    \/ full_state(t)
    \/ merge(t)
    \/ bootstrap_done(t)

Next ==
    \/ \E r \in Requests : arrive(r) \/ Handler(r)
    \/ \E t \in Tasks : Spawned(t)
    \/ \E n \in Nodes : restart(n)

Spec == Init /\ [][Next]_vars

(***************************************************************************)
(* The runtime runs every task that can run, and the Mutex of tokio serves *)
(* its waiters in order, so that a handler that finds the mutex free again *)
(* and again gets it. Nothing is asked of clients, of restarts, nor of the *)
(* spawned tasks: no handler waits for one.                                *)
(***************************************************************************)
Fairness == \A r \in Requests : SF_vars(Handler(r))

FairSpec == Spec /\ Fairness

-----------------------------------------------------------------------------
(***************************************************************************)
(* The type of the state; only tasks that call nodes one by one have nodes *)
(* left to call, and the queue has taken only messages that were tried.    *)
(***************************************************************************)
TypeOK ==
    /\ req \in [Requests -> [kind : AllKinds, cred : AllCreds, at : Nodes, reply : Replies]]
    /\ pc \in [Tasks -> {"idle", "auth", "handler", "broadcast", "publish", "self_call", "list_admin",
                         "fetch", "merge", "done"}]
    /\ todo \in [Tasks -> SUBSET Nodes]
    /\ \A t \in Tasks : todo[t] # {} => pc[t] \in {"broadcast", "fetch", "merge"}
    /\ lock \in [Nodes -> Tasks \cup {Free}]
    /\ queue \in [Requests -> [tried : 0 .. 4, taken : SUBSET (1 .. 4)]]
    /\ \A r \in Requests : queue[r].taken \subseteq 1 .. queue[r].tried

(* The nodes whose mutex task t may have to wait for before its next step. *)
WaitsFor(t) ==
    {n \in Nodes :
        \/ n = At(t) /\ pc[t] \in {"handler", "merge", "list_admin"}
        \/ n = At(t) /\ pc[t] = "self_call" /\ AllowInternal
        \/ n \in todo[t] /\ pc[t] = "broadcast" /\ Routed
        \/ n \in todo[t] /\ pc[t] = "fetch"}

(***************************************************************************)
(* A task that holds the mutex of a node never waits for a mutex, its own  *)
(* or that of a peer: handlers keep the guard of state.lock().await while  *)
(* they await calls to peers, to the queue and to their own node, and none *)
(* of those calls may come back to a mutex.                                *)
(***************************************************************************)
NoHoldAndWait ==
    \A n \in Nodes : lock[n] # Free => WaitsFor(lock[n]) = {}

(***************************************************************************)
(* An account change that is answered with success has every message that  *)
(* handle_account_op and handle_instance_op must publish in the queue of   *)
(* the node, whichever of the writes to the queue failed on the way.       *)
(***************************************************************************)
SuccessMeansPublished ==
    \A r \in Requests :
        req[r].reply = "success" /\ req[r].kind \in DOMAIN Publishes =>
            \A i \in 1 .. Len(Publishes[req[r].kind]) :
                Publishes[req[r].kind][i] => i \in queue[r].taken

(***************************************************************************)
(* Every request is answered, or its connection is reset by a restart: no  *)
(* order in which handlers, peers, bootstraps and the queue take the       *)
(* mutexes leaves one of them waiting for ever.                            *)
(***************************************************************************)
RequestsAnswered ==
    \A r \in Requests : req[r].reply = "waiting" ~> req[r].reply # "waiting"
=============================================================================
