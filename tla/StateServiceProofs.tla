------------------------- MODULE StateServiceProofs -------------------------
(***************************************************************************)
(* For any number of nodes and of requests: no handler of the state        *)
(* service waits for a mutex while it holds one, in the configurations in  *)
(* which that is so; in all of them success means published, and the       *)
(* tasks, their calls and the queue keep their types.                      *)
(***************************************************************************)
EXTENDS StateService, TLAPS

(***************************************************************************)
(* Without ALLOW_INTERNAL_ENDPOINTS no request presents the key of a node, *)
(* and with it no vanity domain is requested: in both cases the code takes *)
(* the mutex twice.                                                        *)
(***************************************************************************)
SafeConfiguration ==
    /\ "node" \in Creds => AllowInternal
    /\ "request_vanity" \in Kinds => ~AllowInternal

PCs == {"idle", "auth", "handler", "broadcast", "publish", "self_call", "list_admin", "fetch",
        "merge", "done"}

ReqType ==
    /\ req \in [Requests -> [kind : AllKinds, cred : AllCreds, at : Nodes, reply : Replies]]
    /\ \A r \in Requests : req[r].kind = "request_vanity" => "request_vanity" \in Kinds
    /\ \A r \in Requests : req[r].cred = "node" => "node" \in Creds

QueueType == queue \in [Requests -> [tried : Nat, taken : SUBSET Nat]]

(* What a request may be doing while it holds the mutex of its node. *)
Holding(r) ==
    \/ pc[Own(r)] \in {"broadcast", "publish"}
    \/ pc[Own(r)] = "self_call" /\ ~AllowInternal

Held(n) == \E r \in Requests : lock[n] = Own(r) /\ req[r].at = n /\ Holding(r)

(***************************************************************************)
(* A mutex is held by a request at its own node only, and only while the   *)
(* request awaits a call that needs no mutex.                              *)
(***************************************************************************)
HoldInv ==
    /\ ReqType
    /\ QueueType
    /\ pc \in [Tasks -> PCs]
    /\ lock \in [Nodes -> Tasks \cup {Free}]
    /\ \A n \in Nodes : lock[n] # Free => Held(n)

-----------------------------------------------------------------------------
(* The task of a request is no other request's, and none of those the queue spawns. *)
LEMMA OwnFacts ==
    ASSUME NEW r \in Requests
    PROVE  /\ Own(r) \in Tasks
           /\ Own(r) # Free
           /\ Own(r)[1] = r
           /\ \A q \in Requests : Own(q) = Own(r) => q = r
           /\ \A q \in Requests, i \in 1 .. 4 : <<q, i>> \in Tasks /\ <<q, i>> # Own(r)
  BY DEF Own, Tasks, Free

(***************************************************************************)
(* The URL of send has one slash more than any route: no Op of a broadcast *)
(* reaches a handler of the peer.                                          *)
(***************************************************************************)
LEMMA NotRouted == ~Routed
<1> SUFFICES ASSUME NEW e \in endpoints, Path(e) \in endpoints
             PROVE  FALSE
  BY DEF Routed, routes
<1>1. \A d \in endpoints : d.slashes = 1
  BY DEF endpoints, peer_endpoints, redeem_endpoints, cidr_endpoints, assoc_endpoints,
         node_endpoints, instance_endpoints
<1>2. DOMAIN e = {"slashes", "name"}
  BY DEF endpoints, peer_endpoints, redeem_endpoints, cidr_endpoints, assoc_endpoints,
         node_endpoints, instance_endpoints
<1>3. Path(e).slashes = e.slashes + 1
  BY <1>2 DEF Path
<1> QED
  BY <1>1, <1>3

-----------------------------------------------------------------------------
(* At the start no mutex is held.                                            *)
LEMMA InitHoldInv ==
    ASSUME Init
    PROVE  HoldInv
<1>1. (CHOOSE n \in Nodes : TRUE) \in Nodes
  BY NodesAssumption
<1>2. \A r \in Requests : /\ req[r] \in [kind : AllKinds, cred : AllCreds, at : Nodes, reply : Replies]
                          /\ req[r].kind = "read" /\ req[r].cred = "none"
  BY <1>1 DEF Init, AllKinds, AllCreds, Replies
<1>3. ReqType
  BY <1>1, <1>2 DEF Init, ReqType, AllKinds, AllCreds, Replies
<1> QED
  BY <1>3 DEF Init, HoldInv, QueueType, PCs, Free

(* An answer leaves the rest of the request as it is. *)
LEMMA ReplyType ==
    ASSUME ReqType, NEW r \in Requests, NEW a \in Replies,
           req' = [req EXCEPT ![r].reply = a]
    PROVE  ReqType' /\ \A q \in Requests : req'[q].at = req[q].at
<1>1. req' \in [Requests -> [kind : AllKinds, cred : AllCreds, at : Nodes, reply : Replies]]
  BY DEF ReqType
<1>2. \A q \in Requests : /\ req'[q].kind = req[q].kind /\ req'[q].cred = req[q].cred
                          /\ req'[q].at = req[q].at
  BY DEF ReqType
<1> QED
  BY <1>1, <1>2 DEF ReqType

(* A request that ends gives up the mutex it holds. *)
LEMMA AnswerStep ==
    ASSUME HoldInv, NEW r \in Requests, NEW a \in Replies, Answer(r, a), QueueType'
    PROVE  HoldInv'
<1> USE OwnFacts
<1>2. \A q \in Requests : req'[q].at = req[q].at
  BY ReplyType DEF HoldInv, Answer
<1>3. ReqType'
  BY ReplyType, Zenon DEF HoldInv, Answer
<1>4. pc' \in [Tasks -> PCs] /\ lock' \in [Nodes -> Tasks \cup {Free}]
  BY DEF HoldInv, Answer, PCs
<1>5. ASSUME NEW n \in Nodes, lock'[n] # Free
      PROVE  Held(n)'
  <2>1. lock[n] # Own(r) /\ lock'[n] = lock[n]
    BY <1>5 DEF Answer
  <2>2. PICK q \in Requests : lock[n] = Own(q) /\ req[q].at = n /\ Holding(q)
    BY <1>5, <2>1 DEF HoldInv, Held
  <2>3. pc'[Own(q)] = pc[Own(q)]
    BY <2>1, <2>2 DEF Answer, HoldInv
  <2> QED
    BY <1>2, <2>1, <2>2, <2>3 DEF Held, Holding
<1> QED
  BY <1>3, <1>4, <1>5 DEF HoldInv

(* A handler that goes on with the mutex. *)
LEMMA ContinueStep ==
    ASSUME HoldInv, NEW r \in Requests, NEW next \in {"broadcast", "publish", "self_call"},
           next = "self_call" => ~AllowInternal,
           Locks(r), Continue(r, next), QueueType'
    PROVE  HoldInv'
<1> USE OwnFacts
<1>1. ReqType' /\ req' = req
  BY DEF HoldInv, ReqType, Continue
<1>2. pc' \in [Tasks -> PCs] /\ lock' \in [Nodes -> Tasks \cup {Free}]
  BY Zenon DEF HoldInv, Continue, PCs
<1>3. ASSUME NEW n \in Nodes, lock'[n] # Free
      PROVE  Held(n)'
  <2>1. CASE n = req[r].at
    <3>1. lock'[n] = Own(r) /\ pc'[Own(r)] = next
      BY <2>1 DEF Continue, HoldInv
    <3> QED
      BY <1>1, <2>1, <3>1 DEF Held, Holding
  <2>2. CASE n # req[r].at
    <3>1. lock'[n] = lock[n]
      BY <2>2 DEF Continue, HoldInv
    <3>2. PICK q \in Requests : lock[n] = Own(q) /\ req[q].at = n /\ Holding(q)
      BY <1>3, <3>1 DEF HoldInv, Held
    <3>3. pc'[Own(q)] = pc[Own(q)]
      BY <2>2, <3>2 DEF Continue, HoldInv
    <3> QED
      BY <1>1, <3>1, <3>2, <3>3 DEF Held, Holding
  <2> QED
    BY <2>1, <2>2
<1> QED
  BY <1>1, <1>2, <1>3 DEF HoldInv

(* Steps that leave the mutexes, and what their holders do, alone. *)
LEMMA OtherStep ==
    ASSUME HoldInv, lock' = lock, ReqType', QueueType', pc' \in [Tasks -> PCs],
           \A q \in Requests : Holding(q) => pc'[Own(q)] = pc[Own(q)] /\ req'[q].at = req[q].at
    PROVE  HoldInv'
<1>1. ASSUME NEW n \in Nodes, lock'[n] # Free
      PROVE  Held(n)'
  <2>1. PICK q \in Requests : lock[n] = Own(q) /\ req[q].at = n /\ Holding(q)
    BY <1>1 DEF HoldInv, Held
  <2> QED
    BY <2>1 DEF Held, Holding
<1> QED
  BY <1>1 DEF HoldInv

(* A handler that ends after it tried to publish. *)
LEMMA ReleaseStep ==
    ASSUME HoldInv, NEW r \in Requests, NEW a \in Replies, NEW next \in [Tasks -> PCs],
           \A q \in Requests : next[Own(q)] = pc[Own(q)],
           req' = [req EXCEPT ![r].reply = a],
           pc' = [next EXCEPT ![Own(r)] = "done"],
           lock' = [lock EXCEPT ![req[r].at] = Free],
           QueueType'
    PROVE  HoldInv'
<1> USE OwnFacts
<1>2. \A q \in Requests : req'[q].at = req[q].at
  BY ReplyType, Zenon DEF HoldInv
<1>3. ReqType'
  BY ReplyType, Zenon DEF HoldInv
<1>4. pc' \in [Tasks -> PCs] /\ lock' \in [Nodes -> Tasks \cup {Free}]
  BY Zenon DEF HoldInv, PCs
<1>5. ASSUME NEW n \in Nodes, lock'[n] # Free
      PROVE  Held(n)'
  <2>1. req[r].at # n /\ lock'[n] = lock[n]
    BY <1>5 DEF HoldInv
  <2>2. PICK q \in Requests : lock[n] = Own(q) /\ req[q].at = n /\ Holding(q)
    BY <1>5, <2>1 DEF HoldInv, Held
  <2>3. pc'[Own(q)] = pc[Own(q)]
    BY <2>1, <2>2 DEF HoldInv
  <2> QED
    BY <1>2, <2>1, <2>2, <2>3 DEF Held, Holding
<1> QED
  BY <1>3, <1>4, <1>5 DEF HoldInv

(* The tasks that the queue spawns are not those of the requests. *)
LEMMA SpawnType ==
    ASSUME HoldInv, NEW r \in Requests
    PROVE  /\ queue[r].tried + 1 \in Nat
           /\ Spawn(r, <<r, queue[r].tried + 1>>) \in [Tasks -> PCs]
           /\ \A q \in Requests : Spawn(r, <<r, queue[r].tried + 1>>)[Own(q)] = pc[Own(q)]
<1>1. queue[r].tried \in Nat
  BY DEF HoldInv, QueueType
<1>2. \A q \in Requests : <<r, queue[r].tried + 1>> # Own(q)
  BY <1>1 DEF Own
<1>3. Spawn(r, <<r, queue[r].tried + 1>>) \in [Tasks -> PCs]
  BY Zenon DEF HoldInv, Spawn, PCs
<1>4. ASSUME NEW q \in Requests
      PROVE  Spawn(r, <<r, queue[r].tried + 1>>)[Own(q)] = pc[Own(q)]
  BY <1>2, OwnFacts DEF HoldInv, Spawn
<1> QED
  BY <1>1, <1>3, <1>4

(* A message has been tried, and the queue has taken it or not.              *)
LEMMA TriedStep ==
    ASSUME HoldInv, NEW r \in Requests, NEW next \in [Tasks -> PCs], NEW taken \in SUBSET Nat,
           \A q \in Requests : next[Own(q)] = pc[Own(q)],
           Tried(r, next, taken)
    PROVE  HoldInv'
<1>1. QueueType'
  BY DEF HoldInv, QueueType, Tried
<1>2. CASE queue[r].tried + 1 = Len(Publishes[req[r].kind])
  <2>1. "success" \in Replies
    BY DEF Replies
  <2> QED
    BY <1>1, <1>2, <2>1, ReleaseStep DEF Tried
<1>3. CASE queue[r].tried + 1 # Len(Publishes[req[r].kind])
  <2>1. ReqType' /\ req' = req /\ lock' = lock /\ pc' = next
    BY <1>3 DEF Tried, HoldInv, ReqType
  <2> QED
    BY <1>1, <2>1, OtherStep
<1> QED
  BY <1>2, <1>3

-----------------------------------------------------------------------------
(* A request arrives at a node.                                              *)
LEMMA ArriveStep ==
    ASSUME HoldInv, NEW r \in Requests, arrive(r)
    PROVE  HoldInv'
<1>1. PICK n \in Nodes, k \in Kinds, c \in Creds :
        /\ req' = [req EXCEPT ![r] = [kind |-> k, cred |-> c, at |-> n, reply |-> "waiting"]]
        /\ pc' = [t \in Tasks |->
                    IF t[1] # r THEN pc[t]
                    ELSE IF t # Own(r) THEN "idle"
                    ELSE IF k \in network_writers_api THEN "auth" ELSE "handler"]
  BY Zenon DEF arrive
<1>2. k \in AllKinds /\ c \in AllCreds /\ "waiting" \in Replies
  BY KindsAssumption, CredsAssumption DEF Replies
<1>3. req' \in [Requests -> [kind : AllKinds, cred : AllCreds, at : Nodes, reply : Replies]]
  BY <1>1, <1>2 DEF HoldInv, ReqType
<1>4. \A q \in Requests : req'[q] = IF q = r THEN [kind |-> k, cred |-> c, at |-> n, reply |-> "waiting"]
                                    ELSE req[q]
  BY <1>1 DEF HoldInv, ReqType
<1>5. ReqType'
  BY <1>3, <1>4 DEF HoldInv, ReqType
<1>6. QueueType'
  BY DEF arrive, HoldInv, QueueType
<1>7. pc' \in [Tasks -> PCs]
  BY <1>1 DEF HoldInv, PCs
<1>8. pc[Own(r)] \in {"idle", "done"}
  BY OwnFacts DEF arrive
<1>9. ASSUME NEW q \in Requests, Holding(q)
      PROVE  pc'[Own(q)] = pc[Own(q)] /\ req'[q].at = req[q].at
  <2>1. q # r
    BY <1>8, <1>9 DEF Holding
  <2>2. Own(q) \in Tasks /\ Own(q)[1] = q
    BY OwnFacts
  <2> QED
    BY <1>1, <1>4, <2>1, <2>2
<1> QED
  BY <1>5, <1>6, <1>7, <1>9, OtherStep, Zenon DEF arrive

(* Where the middleware would hold the mutex it admits the request before. *)
LEMMA MiddlewareStep ==
    ASSUME SafeConfiguration, HoldInv, NEW r \in Requests, node_auth_middleware(r)
    PROVE  HoldInv'
<1>1. QueueType' /\ "unauthorized" \in Replies
  BY DEF node_auth_middleware, HoldInv, QueueType, Replies
<1>2. CASE Admitted(r) /\ pc' = [pc EXCEPT ![Own(r)] = "handler"] /\ UNCHANGED <<req, lock>>
  <2>1. ReqType' /\ pc' \in [Tasks -> PCs]
    BY <1>2, Zenon DEF HoldInv, ReqType, PCs
  <2>2. ASSUME NEW q \in Requests, Holding(q)
        PROVE  pc'[Own(q)] = pc[Own(q)] /\ req'[q].at = req[q].at
    <3>1. q # r
      BY <2>2 DEF Holding, node_auth_middleware
    <3> QED
      BY <1>2, <3>1, OwnFacts DEF HoldInv
  <2> QED
    BY <1>1, <1>2, <2>1, <2>2, OtherStep
<1>3. CASE Answer(r, "unauthorized")
  BY <1>1, <1>3, AnswerStep
<1>4. ~Admitted(r) => req[r].cred # "node"
  BY DEF Admitted, SafeConfiguration, HoldInv, ReqType
<1> QED
  BY <1>2, <1>3, <1>4 DEF node_auth_middleware

(* A handler takes the mutex, calls out, or answers.                         *)
LEMMA HandlerStep ==
    ASSUME SafeConfiguration, HoldInv, NEW r \in Requests, Handler(r)
    PROVE  HoldInv'
<1> DEFINE Queue == queue' = queue
<1>0. Queue => QueueType'
  BY DEF HoldInv, QueueType
<1>a. \A a \in {"success", "failure"} : a \in Replies
  BY DEF Replies
<1>1. CASE node_auth_middleware(r)
  BY <1>1, MiddlewareStep
<1>2. CASE read(r)
  BY <1>0, <1>a, <1>2, AnswerStep DEF read
<1>3. CASE write(r)
  <2>1. CASE \E a \in {"success", "failure"} : Answer(r, a)
    BY <1>0, <1>a, <1>3, <2>1, AnswerStep DEF write
  <2>2. CASE Continue(r, "broadcast")
    BY <1>0, <1>3, <2>2, ContinueStep DEF write
  <2> QED
    BY <1>3, <2>1, <2>2 DEF write
<1>4. CASE send(r)
  BY <1>0, <1>4, OtherStep DEF send, HoldInv, ReqType
<1>5. CASE broadcast_done(r)
  BY <1>0, <1>a, <1>5, AnswerStep DEF broadcast_done
<1>6. ASSUME Locks(r), Publishing(r)
      PROVE  HoldInv'
  <2>1. CASE Answer(r, "failure")
    BY <1>0, <1>a, <1>6, <2>1, AnswerStep DEF Publishing
  <2>2. CASE Continue(r, "publish")
    BY <1>0, <1>6, <2>2, ContinueStep DEF Publishing
  <2> QED
    BY <1>6, <2>1, <2>2 DEF Publishing
<1>7. CASE update_account(r) \/ delete_account(r) \/ transfer_instance_ownership(r)
  BY <1>6, <1>7 DEF update_account, delete_account, transfer_instance_ownership
<1>8. CASE write_local(r)
  <2>1. {queue[r].tried + 1} \in SUBSET Nat
    BY SpawnType, Zenon
  <2>2. Tried(r, Spawn(r, <<r, queue[r].tried + 1>>), {queue[r].tried + 1})
    BY <1>8 DEF write_local
  <2> QED
    BY <2>1, <2>2, SpawnType, TriedStep
<1>9. CASE write_to_queue_failed(r)
  <2> DEFINE i == queue[r].tried + 1
  <2>1. PICK taken \in {{}, {i}} :
          LET next == IF taken = {} THEN pc ELSE Spawn(r, <<r, i>>)
          IN IF Publishes[req[r].kind][i]
             THEN /\ req' = [req EXCEPT ![r].reply = "failure"]
                  /\ pc' = [next EXCEPT ![Own(r)] = "done"]
                  /\ lock' = [lock EXCEPT ![req[r].at] = Free]
                  /\ queue' = [queue EXCEPT ![r] = [tried |-> i, taken |-> @.taken \cup taken]]
             ELSE Tried(r, next, taken)
    BY <1>9, Zenon DEF write_to_queue_failed
  <2> DEFINE next == IF taken = {} THEN pc ELSE Spawn(r, <<r, i>>)
  <2>2. next \in [Tasks -> PCs] /\ \A q \in Requests : next[Own(q)] = pc[Own(q)]
    BY SpawnType DEF HoldInv
  <2>3. i \in Nat /\ taken \in SUBSET Nat
    BY SpawnType, Zenon
  <2>4. CASE Publishes[req[r].kind][i]
    <3>1. QueueType'
      BY <2>1, <2>3, <2>4 DEF HoldInv, QueueType
    <3>2. /\ req' = [req EXCEPT ![r].reply = "failure"]
          /\ pc' = [next EXCEPT ![Own(r)] = "done"]
          /\ lock' = [lock EXCEPT ![req[r].at] = Free]
      BY <2>1, <2>4
    <3> HIDE DEF next
    <3> QED
      BY <1>a, <2>2, <3>1, <3>2, ReleaseStep, Zenon
  <2>5. CASE ~Publishes[req[r].kind][i]
    <3>1. Tried(r, next, taken)
      BY <2>1, <2>5
    <3> HIDE DEF next
    <3> QED
      BY <2>2, <2>3, <3>1, TriedStep
  <2> QED
    BY <2>4, <2>5
<1>10. CASE request_vanity(r)
  <2>1. CASE Answer(r, "failure")
    BY <1>0, <1>a, <1>10, <2>1, AnswerStep DEF request_vanity
  <2>2. CASE Continue(r, "self_call")
    <3>1. ~AllowInternal
      BY <1>10 DEF request_vanity, SafeConfiguration, HoldInv, ReqType
    <3> QED
      BY <1>0, <1>10, <2>2, <3>1, ContinueStep DEF request_vanity
  <2> QED
    BY <1>10, <2>1, <2>2 DEF request_vanity
<1>11. CASE create_dns_record(r)
  BY <1>0, <1>a, <1>11, AnswerStep DEF create_dns_record
<1>12. CASE complete_bootstrap(r)
  <2>1. ReqType' /\ \A q \in Requests : req'[q].at = req[q].at
    BY <1>a, <1>12, ReplyType, Zenon DEF complete_bootstrap, HoldInv
  <2>2. pc' \in [Tasks -> PCs]
    BY <1>12, Zenon DEF complete_bootstrap, HoldInv, PCs
  <2>3. ASSUME NEW q \in Requests, Holding(q)
        PROVE  pc'[Own(q)] = pc[Own(q)]
    <3>1. q # r
      BY <1>12, <2>3 DEF Holding, complete_bootstrap, Locks
    <3>2. Own(q) # Own(r) /\ Own(q) # <<r, 1>> /\ Own(q) \in Tasks
      BY <3>1, OwnFacts
    <3> QED
      BY <1>12, <3>2 DEF complete_bootstrap, HoldInv
  <2> QED
    BY <1>0, <1>12, <2>1, <2>2, <2>3, OtherStep, Zenon DEF complete_bootstrap
<1> QED
  BY <1>1, <1>2, <1>3, <1>4, <1>5, <1>7, <1>8, <1>9, <1>10, <1>11, <1>12 DEF Handler

(* The tasks of the queue and of a bootstrap hold no mutex between steps. *)
LEMMA SpawnedStep ==
    ASSUME HoldInv, NEW t \in Tasks, Spawned(t)
    PROVE  HoldInv'
<1>1. req' = req /\ lock' = lock /\ queue' = queue /\ pc[t] \in {"list_admin", "fetch", "merge"}
  BY DEF Spawned, get_peers, full_state, merge, bootstrap_done
<1>2. \E next \in {"fetch", "merge", "done"} : pc' = [pc EXCEPT ![t] = next] \/ pc' = pc
  BY DEF Spawned, get_peers, full_state, merge, bootstrap_done
<1>3. pc' \in [Tasks -> PCs]
  BY <1>2 DEF HoldInv, PCs
<1>4. ASSUME NEW q \in Requests, Holding(q)
      PROVE  pc'[Own(q)] = pc[Own(q)] /\ req'[q].at = req[q].at
  <2>1. Own(q) # t /\ Own(q) \in Tasks
    BY <1>1, <1>4, OwnFacts DEF Holding
  <2> QED
    BY <1>1, <1>2, <2>1 DEF HoldInv
<1>5. ReqType' /\ QueueType'
  BY <1>1 DEF HoldInv, ReqType, QueueType
<1> QED
  BY <1>1, <1>3, <1>4, <1>5, OtherStep

(* A node restarts: its tasks are gone, and its mutex is free.               *)
LEMMA RestartStep ==
    ASSUME HoldInv, NEW n \in Nodes, restart(n)
    PROVE  HoldInv'
<1>1. \A r \in Requests : \/ req'[r] = [req[r] EXCEPT !.reply = "reset"]
                          \/ req'[r] = req[r]
  BY DEF restart
<1>2. \A r \in Requests :
        /\ req'[r] \in [kind : AllKinds, cred : AllCreds, at : Nodes, reply : Replies]
        /\ req'[r].kind = req[r].kind /\ req'[r].cred = req[r].cred /\ req'[r].at = req[r].at
  <2> TAKE r \in Requests
  <2>1. req[r] \in [kind : AllKinds, cred : AllCreds, at : Nodes, reply : Replies]
    BY DEF HoldInv, ReqType
  <2> QED
    BY <1>1, <2>1, Zenon DEF Replies
<1>3. ReqType'
  BY <1>2 DEF restart, HoldInv, ReqType
<1>4. QueueType' /\ lock' \in [Nodes -> Tasks \cup {Free}]
  BY DEF restart, HoldInv, QueueType
<1>5. pc' \in [Tasks -> PCs]
  BY DEF restart, HoldInv, PCs
<1>6. ASSUME NEW m \in Nodes, lock'[m] # Free
      PROVE  Held(m)'
  <2>1. m # n /\ lock'[m] = lock[m]
    BY <1>6 DEF restart, HoldInv
  <2>2. PICK q \in Requests : lock[m] = Own(q) /\ req[q].at = m /\ Holding(q)
    BY <1>6, <2>1 DEF HoldInv, Held
  <2>3. Own(q) \in Tasks /\ At(Own(q)) # n
    BY <2>1, <2>2, OwnFacts DEF At
  <2>4. pc'[Own(q)] = pc[Own(q)]
    BY <2>3 DEF restart
  <2> QED
    BY <1>2, <2>1, <2>2, <2>4 DEF Held, Holding
<1> QED
  BY <1>3, <1>4, <1>5, <1>6 DEF HoldInv

(* The invariant is enough: who holds a mutex waits for none.                *)
LEMMA HoldInvImplies ==
    ASSUME HoldInv
    PROVE  NoHoldAndWait
<1> SUFFICES ASSUME NEW n \in Nodes, lock[n] # Free
             PROVE  WaitsFor(lock[n]) = {}
  BY DEF NoHoldAndWait
<1>1. PICK r \in Requests : lock[n] = Own(r) /\ Holding(r)
  BY DEF HoldInv, Held
<1> QED
  BY <1>1, NotRouted DEF WaitsFor, Holding

(***************************************************************************)
(* In a safe configuration no task that holds the mutex of a node waits    *)
(* for a mutex: the handlers of form-state, however many run on however    *)
(* many nodes, cannot block each other for ever through the calls they     *)
(* await under state.lock().await.                                         *)
(***************************************************************************)
THEOREM NoHoldAndWaitTheorem ==
    ASSUME SafeConfiguration
    PROVE  Spec => []NoHoldAndWait
<1>1. Init => HoldInv
  BY InitHoldInv
<1>2. HoldInv /\ [Next]_vars => HoldInv'
  <2> SUFFICES ASSUME HoldInv, [Next]_vars
               PROVE  HoldInv'
    OBVIOUS
  <2>1. CASE \E r \in Requests : arrive(r)
    BY <2>1, ArriveStep
  <2>2. CASE \E r \in Requests : Handler(r)
    BY <2>2, HandlerStep
  <2>3. CASE \E t \in Tasks : Spawned(t)
    BY <2>3, SpawnedStep
  <2>4. CASE \E n \in Nodes : restart(n)
    BY <2>4, RestartStep
  <2>5. CASE UNCHANGED vars
    BY <2>5 DEF vars, HoldInv, ReqType, QueueType, Held, Holding
  <2> QED
    BY <2>1, <2>2, <2>3, <2>4, <2>5 DEF Next
<1>3. HoldInv => NoHoldAndWait
  BY HoldInvImplies
<1> QED
  BY <1>1, <1>2, <1>3, PTL DEF Spec

-----------------------------------------------------------------------------
(***************************************************************************)
(* What is published, in every configuration.                              *)
(***************************************************************************)
TypeInv ==
    /\ ReqType
    /\ QueueType
    /\ pc \in [Tasks -> PCs]

Publisher(r) == req[r].kind \in DOMAIN Publishes

(* The messages of r that must be published, among those tried, are in the queue. *)
TakenSoFar(r) ==
    \A i \in 1 .. queue[r].tried : Publishes[req[r].kind][i] => i \in queue[r].taken

(***************************************************************************)
(* Where a request is says what it has published: nothing before its       *)
(* handler has the mutex, all it must when it is answered with success.    *)
(***************************************************************************)
PubInv(r) ==
    /\ pc[Own(r)] = "broadcast" => req[r].kind \in {"network_write", "instance_write"}
    /\ pc[Own(r)] = "self_call" => req[r].kind = "request_vanity"
    /\ pc[Own(r)] = "publish" => Publisher(r) /\ req[r].reply = "waiting"
    /\ pc[Own(r)] \in {"auth", "handler"} => queue[r].tried = 0 /\ req[r].reply = "waiting"
    /\ Publisher(r) /\ req[r].reply \in {"waiting", "success"} => TakenSoFar(r)
    /\ Publisher(r) /\ req[r].reply = "success" => queue[r].tried = Len(Publishes[req[r].kind])

PublishInv == TypeInv /\ \A r \in Requests : PubInv(r)

(* The kinds of request that publish.                                        *)
LEMMA Publishing3 ==
    DOMAIN Publishes = {"update_account", "delete_account", "transfer"}
  BY DEF Publishes

(* A step of one request concerns that request only. *)
LEMMA LocalStep ==
    ASSUME PublishInv, TypeInv', NEW r \in Requests, PubInv(r)',
           \A q \in Requests \ {r} : /\ req'[q] = req[q] /\ queue'[q] = queue[q]
                                     /\ pc'[Own(q)] = pc[Own(q)]
    PROVE  PublishInv'
<1>1. ASSUME NEW q \in Requests, q # r
      PROVE  PubInv(q)'
  BY <1>1, ZenonT(40) DEF PublishInv, PubInv, Publisher, TakenSoFar
<1> QED
  BY <1>1, Zenon DEF PublishInv

(* The answer of a handler that publishes nothing, or that failed. *)
LEMMA AnswerPub ==
    ASSUME PublishInv, NEW r \in Requests, NEW a \in Replies, Answer(r, a), queue' = queue,
           a = "success" => ~Publisher(r), a # "waiting"
    PROVE  PublishInv'
<1>1. TypeInv'
  BY ReplyType, Zenon DEF PublishInv, TypeInv, QueueType, Answer, PCs
<1>2. \A q \in Requests : /\ req'[q].kind = req[q].kind
                          /\ q # r => req'[q] = req[q] /\ pc'[Own(q)] = pc[Own(q)]
  BY OwnFacts DEF PublishInv, TypeInv, ReqType, Answer
<1>3. req'[r].reply = a /\ pc'[Own(r)] = "done"
  BY OwnFacts DEF PublishInv, TypeInv, ReqType, Answer
<1>4. PubInv(r)'
  BY <1>2, <1>3, Zenon DEF PublishInv, PubInv, Publisher, TakenSoFar
<1> QED
  BY <1>1, <1>2, <1>4, LocalStep

(* A handler that has the mutex goes on to its next call.                    *)
LEMMA ContinuePub ==
    ASSUME PublishInv, NEW r \in Requests, NEW next \in {"broadcast", "publish", "self_call"},
           Locks(r), Continue(r, next), queue' = queue,
           next = "broadcast" => req[r].kind \in {"network_write", "instance_write"},
           next = "self_call" => req[r].kind = "request_vanity",
           next = "publish" => Publisher(r)
    PROVE  PublishInv'
<1>1. TypeInv'
  BY Zenon DEF PublishInv, TypeInv, ReqType, QueueType, Continue, PCs
<1>2. \A q \in Requests \ {r} : pc'[Own(q)] = pc[Own(q)]
  BY OwnFacts DEF PublishInv, TypeInv, Continue
<1>3. pc'[Own(r)] = next /\ req' = req
  BY OwnFacts, Zenon DEF PublishInv, TypeInv, Continue
<1>4. PubInv(r)'
  BY <1>3 DEF PublishInv, PubInv, Publisher, TakenSoFar, Locks
<1> QED
  BY <1>1, <1>2, <1>3, <1>4, LocalStep

(* A task that the queue spawns is no request's own.                         *)
LEMMA SpawnPub ==
    ASSUME PublishInv, NEW r \in Requests
    PROVE  /\ queue[r].tried + 1 \in Nat
           /\ Spawn(r, <<r, queue[r].tried + 1>>) \in [Tasks -> PCs]
           /\ \A q \in Requests : Spawn(r, <<r, queue[r].tried + 1>>)[Own(q)] = pc[Own(q)]
<1>1. queue[r].tried \in Nat
  BY DEF PublishInv, TypeInv, QueueType
<1>2. \A q \in Requests : <<r, queue[r].tried + 1>> # Own(q)
  BY <1>1 DEF Own
<1>3. Spawn(r, <<r, queue[r].tried + 1>>) \in [Tasks -> PCs]
  BY Zenon DEF PublishInv, TypeInv, Spawn, PCs
<1>4. ASSUME NEW q \in Requests
      PROVE  Spawn(r, <<r, queue[r].tried + 1>>)[Own(q)] = pc[Own(q)]
  BY <1>2, OwnFacts DEF PublishInv, TypeInv, Spawn
<1> QED
  BY <1>1, <1>3, <1>4

(* A message was tried; if it had to be published, the queue took it. *)
LEMMA TriedPub ==
    ASSUME PublishInv, NEW r \in Requests, NEW next \in [Tasks -> PCs], NEW taken \in SUBSET Nat,
           \A q \in Requests : next[Own(q)] = pc[Own(q)],
           pc[Own(r)] = "publish",
           Publishes[req[r].kind][queue[r].tried + 1] => queue[r].tried + 1 \in taken,
           Tried(r, next, taken)
    PROVE  PublishInv'
<1>1. QueueType' /\ queue[r].tried \in Nat
  BY DEF PublishInv, TypeInv, QueueType, Tried
<1>2. queue'[r].tried = queue[r].tried + 1 /\ queue'[r].taken = queue[r].taken \cup taken
  BY DEF PublishInv, TypeInv, QueueType, Tried
<1>3. \A q \in Requests \ {r} : queue'[q] = queue[q]
  BY Zenon DEF PublishInv, TypeInv, QueueType, Tried
<1>4. Publisher(r) /\ req[r].reply = "waiting" /\ TakenSoFar(r)
  BY DEF PublishInv, PubInv
<1>5. ASSUME NEW i \in 1 .. queue[r].tried + 1, Publishes[req[r].kind][i]
      PROVE  i \in queue'[r].taken
  BY <1>1, <1>2, <1>4, <1>5 DEF TakenSoFar
<1>6. CASE queue[r].tried + 1 = Len(Publishes[req[r].kind])
  <2>1. ReqType'
    BY <1>6, ReplyType DEF Tried, PublishInv, TypeInv, Replies
  <2>2. pc' = [next EXCEPT ![Own(r)] = "done"] /\ req' = [req EXCEPT ![r].reply = "success"]
    BY <1>6 DEF Tried
  <2>3. pc' \in [Tasks -> PCs]
    BY <2>2, Zenon DEF PCs
  <2>4. \A q \in Requests \ {r} : req'[q] = req[q] /\ pc'[Own(q)] = pc[Own(q)]
    BY <2>2, OwnFacts DEF PublishInv, TypeInv, ReqType
  <2>5. req'[r].kind = req[r].kind /\ req'[r].reply = "success" /\ pc'[Own(r)] = "done"
    BY <2>2, OwnFacts DEF PublishInv, TypeInv, ReqType
  <2>6. PubInv(r)'
    BY <1>2, <1>5, <1>6, <2>5 DEF PubInv, TakenSoFar, Publisher
  <2> QED
    BY <1>1, <1>3, <2>1, <2>3, <2>4, <2>6, LocalStep DEF TypeInv
<1>7. CASE queue[r].tried + 1 # Len(Publishes[req[r].kind])
  <2>1. req' = req /\ pc' = next
    BY <1>7 DEF Tried
  <2>2. TypeInv'
    BY <1>1, <2>1, Zenon DEF PublishInv, TypeInv, ReqType
  <2>3. PubInv(r)'
    BY <1>2, <1>4, <1>5, <2>1 DEF PubInv, TakenSoFar, Publisher
  <2> QED
    BY <1>3, <2>1, <2>2, <2>3, LocalStep
<1> QED
  BY <1>6, <1>7

(* A request that arrives has published nothing.                             *)
LEMMA ArrivePub ==
    ASSUME PublishInv, NEW r \in Requests, arrive(r)
    PROVE  PublishInv'
<1>1. PICK n \in Nodes, k \in Kinds, c \in Creds :
        /\ req' = [req EXCEPT ![r] = [kind |-> k, cred |-> c, at |-> n, reply |-> "waiting"]]
        /\ pc' = [t \in Tasks |->
                    IF t[1] # r THEN pc[t]
                    ELSE IF t # Own(r) THEN "idle"
                    ELSE IF k \in network_writers_api THEN "auth" ELSE "handler"]
  BY ZenonT(40) DEF arrive
<1>2. k \in AllKinds /\ c \in AllCreds /\ "waiting" \in Replies
  BY KindsAssumption, CredsAssumption DEF Replies
<1>3. req' \in [Requests -> [kind : AllKinds, cred : AllCreds, at : Nodes, reply : Replies]]
  BY <1>1, <1>2 DEF PublishInv, TypeInv, ReqType
<1>4. \A q \in Requests : req'[q] = IF q = r THEN [kind |-> k, cred |-> c, at |-> n, reply |-> "waiting"]
                                    ELSE req[q]
  BY <1>1 DEF PublishInv, TypeInv, ReqType
<1>5. ReqType'
  <2>1. \A q \in Requests : req[q].kind = "request_vanity" => "request_vanity" \in Kinds
    BY Zenon DEF PublishInv, TypeInv, ReqType
  <2>2. \A q \in Requests : req[q].cred = "node" => "node" \in Creds
    BY Zenon DEF PublishInv, TypeInv, ReqType
  <2>3. req'[r].kind = k /\ req'[r].cred = c /\ \A q \in Requests \ {r} : req'[q] = req[q]
    BY <1>4
  <2>4. \A q \in Requests : req'[q].kind = "request_vanity" => "request_vanity" \in Kinds
    BY <2>1, <2>3
  <2>5. \A q \in Requests : req'[q].cred = "node" => "node" \in Creds
    BY <2>2, <2>3
  <2> QED
    BY <1>3, <2>4, <2>5, Zenon DEF ReqType
<1>6. QueueType' /\ queue'[r].tried = 0 /\ \A q \in Requests \ {r} : queue'[q] = queue[q]
  BY DEF arrive, PublishInv, TypeInv, QueueType
<1>7. pc' \in [Tasks -> PCs]
  BY <1>1 DEF PublishInv, TypeInv, PCs
<1>8. pc'[Own(r)] \in {"auth", "handler"} /\ \A q \in Requests \ {r} : pc'[Own(q)] = pc[Own(q)]
  BY <1>1, OwnFacts
<1>9. PubInv(r)'
  BY <1>4, <1>6, <1>8 DEF PubInv, TakenSoFar, Publisher
<1> QED
  BY <1>4, <1>5, <1>6, <1>7, <1>8, <1>9, LocalStep DEF TypeInv

(* Nothing is published before the handler runs.                             *)
LEMMA MiddlewarePub ==
    ASSUME PublishInv, NEW r \in Requests, node_auth_middleware(r)
    PROVE  PublishInv'
<1>1. "unauthorized" \in Replies /\ queue' = queue
  BY DEF Replies, node_auth_middleware
<1>2. CASE pc' = [pc EXCEPT ![Own(r)] = "handler"] /\ UNCHANGED req
  <2>1. TypeInv'
    BY <1>1, <1>2, Zenon DEF PublishInv, TypeInv, ReqType, QueueType, PCs
  <2>2. pc'[Own(r)] = "handler" /\ \A q \in Requests \ {r} : pc'[Own(q)] = pc[Own(q)]
    BY <1>2, OwnFacts, Zenon DEF PublishInv, TypeInv
  <2>3. PubInv(r)'
    BY <1>1, <1>2, <2>2 DEF PublishInv, PubInv, Publisher, TakenSoFar, node_auth_middleware
  <2> QED
    BY <1>1, <1>2, <2>1, <2>2, <2>3, LocalStep
<1>3. CASE Answer(r, "unauthorized")
  BY <1>1, <1>3, AnswerPub
<1> QED
  BY <1>2, <1>3 DEF node_auth_middleware

(* A message that could not be published: an error if it had to be. *)
LEMMA QueueFailedPub ==
    ASSUME PublishInv, NEW r \in Requests, write_to_queue_failed(r)
    PROVE  PublishInv'
<1> DEFINE i == queue[r].tried + 1
<1>1. PICK taken \in {{}, {i}} :
        LET next == IF taken = {} THEN pc ELSE Spawn(r, <<r, i>>)
        IN IF Publishes[req[r].kind][i]
           THEN /\ req' = [req EXCEPT ![r].reply = "failure"]
                /\ pc' = [next EXCEPT ![Own(r)] = "done"]
                /\ lock' = [lock EXCEPT ![req[r].at] = Free]
                /\ queue' = [queue EXCEPT ![r] = [tried |-> i, taken |-> @.taken \cup taken]]
           ELSE Tried(r, next, taken)
  BY Zenon DEF write_to_queue_failed
<1> DEFINE next == IF taken = {} THEN pc ELSE Spawn(r, <<r, i>>)
<1>2. next \in [Tasks -> PCs] /\ \A q \in Requests : next[Own(q)] = pc[Own(q)]
  BY SpawnPub DEF PublishInv, TypeInv
<1>3. i \in Nat /\ taken \in SUBSET Nat
  BY SpawnPub, Zenon
<1>4. CASE Publishes[req[r].kind][i]
  <2>1. QueueType' /\ \A q \in Requests \ {r} : queue'[q] = queue[q]
    BY <1>1, <1>3, <1>4 DEF PublishInv, TypeInv, QueueType
  <2>2. req' = [req EXCEPT ![r].reply = "failure"] /\ pc' = [next EXCEPT ![Own(r)] = "done"]
    BY <1>1, <1>4
  <2> HIDE DEF next
  <2>3. "failure" \in Replies
    BY DEF Replies
  <2>4. ReqType'
    BY <2>2, <2>3, ReplyType, Zenon DEF PublishInv, TypeInv
  <2>5. pc' \in [Tasks -> PCs]
    BY <1>2, <2>2, Zenon DEF PCs
  <2>6. \A q \in Requests \ {r} : req'[q] = req[q] /\ pc'[Own(q)] = pc[Own(q)]
    BY <1>2, <2>2, OwnFacts DEF PublishInv, TypeInv, ReqType
  <2>7. req'[r].reply = "failure" /\ pc'[Own(r)] = "done"
    BY <1>2, <2>2, OwnFacts DEF PublishInv, TypeInv, ReqType
  <2>8. PubInv(r)'
    BY <2>7, Zenon DEF PubInv
  <2> QED
    BY <2>1, <2>4, <2>5, <2>6, <2>8, LocalStep DEF TypeInv
<1>5. CASE ~Publishes[req[r].kind][i]
  <2>1. Tried(r, next, taken) /\ pc[Own(r)] = "publish"
    BY <1>1, <1>5 DEF write_to_queue_failed
  <2> HIDE DEF next
  <2> QED
    BY <1>2, <1>3, <1>5, <2>1, TriedPub
<1> QED
  BY <1>4, <1>5

(* A handler publishes its messages one by one, and answers after the last.  *)
LEMMA HandlerPub ==
    ASSUME PublishInv, NEW r \in Requests, Handler(r)
    PROVE  PublishInv'
<1>a. \A a \in {"success", "failure"} : a \in Replies /\ a # "waiting"
  BY DEF Replies
<1>b. PubInv(r)
  BY DEF PublishInv
<1>1. CASE node_auth_middleware(r)
  BY <1>1, MiddlewarePub
<1>2. CASE read(r)
  <2>1. ~Publisher(r)
    BY <1>2, Publishing3 DEF read, Publisher
  <2> QED
    BY <1>a, <1>2, <2>1, AnswerPub DEF read
<1>3. CASE write(r)
  <2>1. ~Publisher(r)
    BY <1>3, Publishing3 DEF write, Publisher
  <2>2. CASE \E a \in {"success", "failure"} : Answer(r, a)
    BY <1>a, <1>3, <2>1, <2>2, AnswerPub DEF write
  <2>3. CASE Continue(r, "broadcast")
    BY <1>3, <2>3, ContinuePub, Zenon DEF write
  <2> QED
    BY <1>3, <2>2, <2>3 DEF write
<1>4. CASE send(r)
  BY <1>4 DEF send, PublishInv, TypeInv, ReqType, QueueType, PubInv, Publisher, TakenSoFar
<1>5. CASE broadcast_done(r)
  <2>1. ~Publisher(r)
    BY <1>b, <1>5, Publishing3 DEF broadcast_done, Publisher, PubInv
  <2> QED
    BY <1>a, <1>5, <2>1, AnswerPub, Zenon DEF broadcast_done
<1>6. ASSUME Locks(r), Publisher(r), Publishing(r)
      PROVE  PublishInv'
  <2>1. CASE Answer(r, "failure")
    BY <1>a, <1>6, <2>1, AnswerPub DEF Publishing
  <2>2. CASE Continue(r, "publish")
    BY <1>6, <2>2, ContinuePub DEF Publishing
  <2> QED
    BY <1>6, <2>1, <2>2 DEF Publishing
<1>7. CASE update_account(r) \/ delete_account(r) \/ transfer_instance_ownership(r)
  BY <1>6, <1>7, Publishing3, Zenon
     DEF update_account, delete_account, transfer_instance_ownership, Publisher
<1>8. CASE write_local(r)
  <2>1. {queue[r].tried + 1} \in SUBSET Nat
    BY SpawnPub, Zenon
  <2>2. Tried(r, Spawn(r, <<r, queue[r].tried + 1>>), {queue[r].tried + 1}) /\ pc[Own(r)] = "publish"
    BY <1>8 DEF write_local
  <2> QED
    BY <2>1, <2>2, SpawnPub, TriedPub
<1>9. CASE write_to_queue_failed(r)
  BY <1>9, QueueFailedPub
<1>10. CASE request_vanity(r)
  <2>1. CASE Answer(r, "failure")
    BY <1>a, <1>10, <2>1, AnswerPub DEF request_vanity
  <2>2. CASE Continue(r, "self_call")
    BY <1>10, <2>2, ContinuePub DEF request_vanity
  <2> QED
    BY <1>10, <2>1, <2>2 DEF request_vanity
<1>11. CASE create_dns_record(r)
  <2>1. ~Publisher(r)
    BY <1>b, <1>11, Publishing3 DEF create_dns_record, Publisher, PubInv
  <2> QED
    BY <1>a, <1>11, <2>1, AnswerPub, Zenon DEF create_dns_record
<1>12. CASE complete_bootstrap(r)
  <2>1. req' = [req EXCEPT ![r].reply = "success"] /\ queue' = queue /\ req[r].kind = "bootstrap"
    BY <1>12 DEF complete_bootstrap
  <2>2. ReqType' /\ QueueType'
    BY <1>a, <2>1, ReplyType, Zenon DEF PublishInv, TypeInv, QueueType
  <2>3. pc' \in [Tasks -> PCs]
    BY <1>12, Zenon DEF complete_bootstrap, PublishInv, TypeInv, PCs
  <2>4. \A q \in Requests \ {r} : req'[q] = req[q] /\ pc'[Own(q)] = pc[Own(q)]
    BY <1>12, <2>1, OwnFacts, SMTT(30) DEF complete_bootstrap, PublishInv, TypeInv, ReqType
  <2>5. req'[r].kind = "bootstrap" /\ pc'[Own(r)] = "done"
    <3>1. Own(r) \in Tasks /\ <<r, 1>> \in Tasks /\ <<r, 1>> # Own(r)
      BY DEF Own, Tasks
    <3>2. req'[r].kind = "bootstrap"
      BY <2>1 DEF PublishInv, TypeInv, ReqType
    <3> QED
      BY <1>12, <3>1, <3>2 DEF complete_bootstrap, PublishInv, TypeInv
  <2>6. PubInv(r)'
    BY <2>5, Publishing3, Zenon DEF PubInv, Publisher
  <2> QED
    BY <2>1, <2>2, <2>3, <2>4, <2>6, LocalStep DEF TypeInv
<1> QED
  BY <1>1, <1>2, <1>3, <1>4, <1>5, <1>7, <1>8, <1>9, <1>10, <1>11, <1>12 DEF Handler

(* Spawned tasks publish nothing of their own.                               *)
LEMMA SpawnedPub ==
    ASSUME PublishInv, NEW t \in Tasks, Spawned(t)
    PROVE  PublishInv'
<1>1. req' = req /\ queue' = queue
  BY DEF Spawned, get_peers, full_state, merge, bootstrap_done
<1>2. \E next \in {"fetch", "merge", "done"} : pc' = [pc EXCEPT ![t] = next] \/ pc' = pc
  BY DEF Spawned, get_peers, full_state, merge, bootstrap_done
<1>3. TypeInv'
  BY <1>1, <1>2 DEF PublishInv, TypeInv, ReqType, QueueType, PCs
<1>4. \A q \in Requests : pc'[Own(q)] = pc[Own(q)] \/ pc'[Own(q)] \in {"fetch", "merge", "done"}
  BY <1>2, OwnFacts DEF PublishInv, TypeInv
<1> QED
  BY <1>1, <1>3, <1>4 DEF PublishInv, PubInv, Publisher, TakenSoFar

(* A restart ends the requests of a node without a success.                  *)
LEMMA RestartPub ==
    ASSUME PublishInv, NEW n \in Nodes, restart(n)
    PROVE  PublishInv'
<1>1. \A r \in Requests : \/ req'[r] = [req[r] EXCEPT !.reply = "reset"]
                          \/ req'[r] = req[r]
  BY DEF restart
<1>2. \A r \in Requests :
        /\ req'[r] \in [kind : AllKinds, cred : AllCreds, at : Nodes, reply : Replies]
        /\ req'[r].kind = req[r].kind /\ req'[r].cred = req[r].cred
  <2> TAKE r \in Requests
  <2>1. req[r] \in [kind : AllKinds, cred : AllCreds, at : Nodes, reply : Replies]
    BY DEF PublishInv, TypeInv, ReqType
  <2> QED
    BY <1>1, <2>1, Zenon DEF Replies
<1>3. ReqType'
  BY <1>2 DEF restart, PublishInv, TypeInv, ReqType
<1>4. QueueType' /\ pc' \in [Tasks -> PCs] /\ queue' = queue
  BY DEF restart, PublishInv, TypeInv, QueueType, PCs
<1>5. ASSUME NEW r \in Requests
      PROVE  PubInv(r)'
  <2>1. PubInv(r) /\ Own(r) \in Tasks /\ At(Own(r)) = req[r].at /\ pc[Own(r)] \in PCs
    BY OwnFacts DEF PublishInv, TypeInv, At
  <2>2. req[r] \in [kind : AllKinds, cred : AllCreds, at : Nodes, reply : Replies]
    BY Zenon DEF PublishInv, TypeInv, ReqType
  <2>3. CASE req[r].at = n
    <3>1. pc'[Own(r)] \in {"idle", "done", "list_admin"}
      BY <2>1, <2>3 DEF restart, PCs
    <3>2. req'[r].reply \in {req[r].reply, "reset"}
      BY <1>1, <2>2, Zenon
    <3> QED
      BY <1>2, <1>4, <2>1, <3>1, <3>2 DEF PubInv, Publisher, TakenSoFar
  <2>4. CASE req[r].at # n
    <3>1. pc'[Own(r)] = pc[Own(r)] /\ req'[r] = req[r]
      BY <2>1, <2>4, Zenon DEF restart
    <3> QED
      BY <1>4, <2>1, <3>1 DEF PubInv, Publisher, TakenSoFar
  <2> QED
    BY <2>3, <2>4
<1> QED
  BY <1>3, <1>4, <1>5 DEF PublishInv, TypeInv

(* The invariant holds at the start.                                         *)
LEMMA PublishStart ==
    ASSUME Init
    PROVE  PublishInv
<1>1. TypeInv
  BY InitHoldInv DEF HoldInv, TypeInv
<1>2. \A r \in Requests : req[r].kind = "read" /\ pc[Own(r)] = "idle"
  BY OwnFacts DEF Init
<1> QED
  BY <1>1, <1>2, Publishing3 DEF PublishInv, PubInv, Publisher

(* Every step preserves it.                                                  *)
LEMMA PublishStep ==
    ASSUME PublishInv, [Next]_vars
    PROVE  PublishInv'
<1>1. CASE \E r \in Requests : arrive(r)
  BY <1>1, ArrivePub
<1>2. CASE \E r \in Requests : Handler(r)
  BY <1>2, HandlerPub
<1>3. CASE \E t \in Tasks : Spawned(t)
  BY <1>3, SpawnedPub
<1>4. CASE \E n \in Nodes : restart(n)
  BY <1>4, RestartPub
<1>5. CASE UNCHANGED vars
  BY <1>5, Zenon DEF vars, PublishInv, TypeInv, ReqType, QueueType, PubInv, Publisher, TakenSoFar
<1> QED
  BY <1>1, <1>2, <1>3, <1>4, <1>5 DEF Next

(***************************************************************************)
(* Whatever the configuration, the writes to the queue that fail and the   *)
(* restarts, an account change answered with success has every message     *)
(* that handle_account_op and handle_instance_op must publish in the queue.*)
(***************************************************************************)
THEOREM SuccessMeansPublishedTheorem == Spec => []SuccessMeansPublished
<1>1. Init => PublishInv
  BY PublishStart
<1>2. PublishInv /\ [Next]_vars => PublishInv'
  BY PublishStep
<1>3. PublishInv => SuccessMeansPublished
  BY DEF PublishInv, PubInv, Publisher, TakenSoFar, SuccessMeansPublished
<1> QED
  BY <1>1, <1>2, <1>3, PTL DEF Spec

-----------------------------------------------------------------------------
(***************************************************************************)
(* Who has calls left, and how many messages a request may try.            *)
(***************************************************************************)
CountInv(r) ==
    /\ queue[r].tried <= 4
    /\ queue[r].taken \subseteq 1 .. queue[r].tried
    /\ pc[Own(r)] = "publish" => queue[r].tried < Len(Publishes[req[r].kind])

(***************************************************************************)
(* The tasks of a request that publishes have no node left to call: the    *)
(* queue may spawn any of them.                                            *)
(***************************************************************************)
TaskInv ==
    /\ lock \in [Nodes -> Tasks \cup {Free}]
    /\ todo \in [Tasks -> SUBSET Nodes]
    /\ \A t \in Tasks :
           todo[t] # {} => pc[t] \in {"broadcast", "fetch", "merge"} /\ ~Publisher(t[1])
    /\ \A r \in Requests : CountInv(r)

(* A request publishes one message at least, and four at most.               *)
LEMMA AtMostFour ==
    ASSUME NEW r, Publisher(r)
    PROVE  /\ Len(Publishes[req[r].kind]) \in Nat
           /\ 0 < Len(Publishes[req[r].kind])
           /\ Len(Publishes[req[r].kind]) <= 4
<1>1. Len(Publishes[req[r].kind]) \in {1, 2, 4}
  BY DEF Publisher, Publishes
<1>2. \A n \in {1, 2, 4} : n \in Nat /\ 0 < n /\ n <= 4
  OBVIOUS
<1> QED
  BY <1>1, <1>2, Zenon

(* A step of the tasks of one request. *)
LEMMA TaskStep ==
    ASSUME PublishInv, TaskInv, NEW r \in Requests,
           lock' \in [Nodes -> Tasks \cup {Free}], todo' \in [Tasks -> SUBSET Nodes],
           \A q \in Requests \ {r} : req'[q].kind = req[q].kind /\ queue'[q] = queue[q],
           \A t \in Tasks : t[1] # r => pc'[t] = pc[t] /\ todo'[t] = todo[t],
           \A t \in Tasks : t[1] = r /\ todo'[t] # {} =>
               pc'[t] \in {"broadcast", "fetch", "merge"} /\ ~Publisher(r)',
           CountInv(r)'
    PROVE  TaskInv'
<1>1. ASSUME NEW q \in Requests, q # r PROVE CountInv(q)'
  BY <1>1, OwnFacts, Zenon DEF TaskInv, CountInv
<1>2. ASSUME NEW t \in Tasks, todo'[t] # {}
      PROVE  pc'[t] \in {"broadcast", "fetch", "merge"} /\ ~Publisher(t[1])'
  <2>1. t[1] \in Requests
    BY DEF Tasks
  <2> QED
    BY <1>2, <2>1, Zenon DEF TaskInv, Publisher
<1> QED
  BY <1>1, <1>2, Zenon DEF TaskInv

(* An answer does not change the kind of a request.                          *)
LEMMA KindStays ==
    ASSUME ReqType, NEW r \in Requests, NEW a, req' = [req EXCEPT ![r].reply = a]
    PROVE  \A q \in Requests : req'[q].kind = req[q].kind
  BY ZenonT(40) DEF ReqType

(* A request that ends has no node left to call. *)
LEMMA AnswerTask ==
    ASSUME PublishInv, TaskInv, NEW r \in Requests, NEW a, Answer(r, a),
           UNCHANGED <<queue, todo>>, todo[Own(r)] = {}
    PROVE  TaskInv'
<1>1. \A q \in Requests : req'[q].kind = req[q].kind
  BY KindStays DEF PublishInv, TypeInv, Answer
<1>2. pc'[Own(r)] = "done" /\ \A t \in Tasks \ {Own(r)} : pc'[t] = pc[t]
  BY OwnFacts DEF PublishInv, TypeInv, Answer
<1>3. lock' \in [Nodes -> Tasks \cup {Free}]
  BY Zenon DEF TaskInv, Answer
<1>4. CountInv(r)'
  BY <1>2, Zenon DEF TaskInv, CountInv
<1>5. \A t \in Tasks : t[1] = r /\ todo'[t] # {} =>
          pc'[t] \in {"broadcast", "fetch", "merge"} /\ ~Publisher(r)'
  BY <1>1, <1>2 DEF TaskInv, Publisher
<1>6. todo' \in [Tasks -> SUBSET Nodes]
  BY Zenon DEF TaskInv
<1> QED
  BY <1>1, <1>2, <1>3, <1>4, <1>5, <1>6, OwnFacts, TaskStep

(* A handler that goes on with the mutex, to call the nodes S. *)
LEMMA ContinueTask ==
    ASSUME PublishInv, TaskInv, NEW r \in Requests, NEW next \in {"broadcast", "publish", "self_call"},
           NEW S \in SUBSET Nodes, Locks(r), Continue(r, next), queue' = queue,
           todo' = [todo EXCEPT ![Own(r)] = S],
           S # {} => next = "broadcast" /\ ~Publisher(r),
           next = "publish" => Publisher(r)
    PROVE  TaskInv'
<1>1. pc'[Own(r)] = next /\ \A t \in Tasks \ {Own(r)} : pc'[t] = pc[t]
  BY OwnFacts, Zenon DEF PublishInv, TypeInv, Continue
<1>2. /\ todo' \in [Tasks -> SUBSET Nodes] /\ todo'[Own(r)] = S
      /\ \A t \in Tasks \ {Own(r)} : todo'[t] = todo[t]
  BY OwnFacts DEF TaskInv
<1>3. lock' \in [Nodes -> Tasks \cup {Free}] /\ req' = req
  BY OwnFacts, Zenon DEF TaskInv, Continue
<1>4. CountInv(r)'
  <2>1. queue[r].tried = 0 /\ CountInv(r)
    BY DEF PublishInv, PubInv, Locks, TaskInv
  <2>2. pc'[Own(r)] = "publish" => 0 < Len(Publishes[req[r].kind])
    BY <1>1, AtMostFour, Zenon
  <2> QED
    BY <1>3, <2>1, <2>2, Zenon DEF CountInv
<1>5. \A t \in Tasks : t[1] = r /\ todo'[t] # {} =>
          pc'[t] \in {"broadcast", "fetch", "merge"} /\ ~Publisher(r)'
  BY <1>1, <1>2, <1>3 DEF TaskInv, Publisher
<1> QED
  BY <1>1, <1>2, <1>3, <1>4, <1>5, OwnFacts, TaskStep, ZenonT(40)

(* There is an index for the message that is tried next.                     *)
LEMMA OneLess ==
    ASSUME NEW n \in Nat, NEW m \in Nat, n < m, m <= 4
    PROVE  n + 1 <= 4
  OBVIOUS

(* The messages that were taken are among those that were tried.             *)
LEMMA OneMore ==
    ASSUME NEW n \in Nat, NEW S \in SUBSET (1 .. n), NEW T \in {{}, {n + 1}}
    PROVE  S \cup T \subseteq 1 .. (n + 1)
<1> SUFFICES ASSUME NEW x \in S \cup T PROVE x \in 1 .. (n + 1)
  BY Zenon
<1>1. CASE x \in S
  <2>1. x \in 1 .. n
    BY <1>1, Zenon
  <2> QED
    BY <2>1
<1>2. CASE x = n + 1
  BY <1>2
<1> QED
  BY <1>1, <1>2, Zenon

(* A message was tried: the tasks of its request have no node left to call. *)
LEMMA PublishTask ==
    ASSUME PublishInv, TaskInv, NEW r \in Requests, pc[Own(r)] = "publish",
           NEW next \in {pc, Spawn(r, <<r, queue[r].tried + 1>>)},
           NEW taken \in {{}, {queue[r].tried + 1}}, NEW a,
           queue' = [queue EXCEPT ![r] = [tried |-> queue[r].tried + 1, taken |-> queue[r].taken \cup taken]],
           todo' = todo,
           \/ /\ pc' = [next EXCEPT ![Own(r)] = "done"] /\ req' = [req EXCEPT ![r].reply = a]
              /\ lock' = [lock EXCEPT ![req[r].at] = Free]
           \/ /\ pc' = next /\ UNCHANGED <<req, lock>>
              /\ queue[r].tried + 1 # Len(Publishes[req[r].kind])
    PROVE  TaskInv'
<1>1. \A q \in Requests : req'[q].kind = req[q].kind
  BY KindStays, Zenon DEF PublishInv, TypeInv
<1>2. /\ Publisher(r) /\ CountInv(r)
      /\ Len(Publishes[req[r].kind]) \in Nat /\ Len(Publishes[req[r].kind]) <= 4
      /\ queue[r].tried \in Nat /\ queue[r].tried < Len(Publishes[req[r].kind])
  BY AtMostFour DEF PublishInv, PubInv, TypeInv, QueueType, TaskInv, CountInv
<1>3. /\ queue'[r].tried = queue[r].tried + 1 /\ queue'[r].taken = queue[r].taken \cup taken
      /\ \A q \in Requests \ {r} : queue'[q] = queue[q]
  BY DEF PublishInv, TypeInv, QueueType
<1>4. \A t \in Tasks : t[1] # r => next[t] = pc[t]
  BY DEF PublishInv, TypeInv, Spawn
<1>5. \A t \in Tasks : t[1] # r => pc'[t] = pc[t]
  BY <1>4, OwnFacts DEF PublishInv, TypeInv, Spawn
<1>6. CountInv(r)'
  <2>1. queue'[r].tried <= 4 /\ queue'[r].taken \subseteq 1 .. queue'[r].tried
    <3>1. queue[r].taken \subseteq 1 .. queue[r].tried
      BY <1>2 DEF CountInv
    <3>2. queue[r].taken \cup taken \subseteq 1 .. (queue[r].tried + 1) /\ queue[r].tried + 1 <= 4
      <4>1. queue[r].tried + 1 <= 4
        BY <1>2, OneLess, Zenon
      <4> QED
        BY <1>2, <3>1, <4>1, OneMore, Zenon
    <3> QED
      BY <1>3, <3>2, Zenon
  <2>2. pc'[Own(r)] = "publish" => queue'[r].tried < Len(Publishes[req'[r].kind])
    <3>1. CASE pc' = [next EXCEPT ![Own(r)] = "done"]
      BY <3>1, OwnFacts DEF PublishInv, TypeInv, Spawn
    <3>2. CASE queue[r].tried + 1 # Len(Publishes[req[r].kind])
      BY <1>1, <1>2, <1>3, <3>2
    <3> QED
      BY <3>1, <3>2
  <2> QED
    BY <2>1, <2>2 DEF CountInv
<1>7. lock' \in [Nodes -> Tasks \cup {Free}] /\ todo' \in [Tasks -> SUBSET Nodes]
  BY DEF TaskInv
<1>8. \A t \in Tasks : t[1] = r => todo'[t] = {}
  BY <1>2 DEF TaskInv
<1> QED
  BY <1>1, <1>3, <1>5, <1>6, <1>7, <1>8, TaskStep

(* The handler of a request.                                                 *)
LEMMA HandlerTask ==
    ASSUME PublishInv, TaskInv, NEW r \in Requests, Handler(r)
    PROVE  TaskInv'
<1>0. /\ pc[Own(r)] \in {"auth", "handler", "publish", "self_call"} => todo[Own(r)] = {}
      /\ Own(r) \in Tasks /\ todo \in [Tasks -> SUBSET Nodes]
  BY OwnFacts, Zenon DEF TaskInv
<1>1. ASSUME NEW a, Answer(r, a), UNCHANGED <<todo, queue>>, todo[Own(r)] = {}
      PROVE  TaskInv'
  BY <1>1, AnswerTask
<1>2. ASSUME NEW next \in {"publish", "self_call"}, Locks(r), Continue(r, next),
             UNCHANGED <<todo, queue>>, next = "publish" => Publisher(r)
      PROVE  TaskInv'
  <2>1. todo' = [todo EXCEPT ![Own(r)] = {}]
    BY <1>0, <1>2 DEF Locks
  <2> QED
    BY <1>2, <2>1, ContinueTask, Zenon
<1>3. CASE node_auth_middleware(r)
  <2>1. CASE pc' = [pc EXCEPT ![Own(r)] = "handler"] /\ UNCHANGED req
    <3>1. pc'[Own(r)] = "handler" /\ \A t \in Tasks \ {Own(r)} : pc'[t] = pc[t]
      BY <1>0, <2>1, Zenon DEF PublishInv, TypeInv
    <3>2. \/ Answer(r, "unauthorized") \/ UNCHANGED lock
          \/ lock' = [lock EXCEPT ![req[r].at] = Own(r)]
      BY <1>3 DEF node_auth_middleware
    <3>3. lock' \in [Nodes -> Tasks \cup {Free}]
      BY <1>0, <3>2, Zenon DEF Answer, TaskInv
    <3>4. CountInv(r)'
      BY <1>3, <3>1 DEF node_auth_middleware, TaskInv, CountInv
    <3>5. UNCHANGED <<todo, queue>>
      BY <1>3, Zenon DEF node_auth_middleware
    <3>6. \A t \in Tasks : t[1] = r /\ todo'[t] # {} =>
              pc'[t] \in {"broadcast", "fetch", "merge"} /\ ~Publisher(r)'
      BY <1>0, <1>3, <2>1, <3>1, <3>5, Zenon DEF node_auth_middleware, TaskInv, Publisher
    <3> QED
      BY <1>0, <2>1, <3>1, <3>3, <3>4, <3>5, <3>6, OwnFacts, TaskStep
  <2>2. CASE Answer(r, "unauthorized")
    BY <1>0, <1>1, <1>3, <2>2, Zenon DEF node_auth_middleware
  <2> QED
    BY <1>3, <2>1, <2>2, Zenon DEF node_auth_middleware
<1>4. CASE read(r) \/ create_dns_record(r)
  BY <1>0, <1>1, <1>4 DEF read, create_dns_record, Locks
<1>5. CASE write(r)
  <2>1. CASE Continue(r, "broadcast")
    <3>1. \/ UNCHANGED todo
          \/ \E peers \in get_all_active_admin : todo' = [todo EXCEPT ![Own(r)] = peers \ {req[r].at}]
      BY <1>5 DEF write
    <3>2. PICK S \in SUBSET Nodes : todo' = [todo EXCEPT ![Own(r)] = S]
      BY <1>0, <3>1, Zenon DEF get_all_active_admin
    <3>3. ~Publisher(r) /\ Locks(r) /\ queue' = queue
      BY <1>5, Publishing3, Zenon DEF write, Publisher
    <3> QED
      BY <2>1, <3>2, <3>3, ContinueTask, Zenon
  <2>2. CASE \E a \in {"success", "failure"} : Answer(r, a) /\ UNCHANGED todo
    BY <1>0, <1>1, <1>5, <2>2, Zenon DEF write, Locks
  <2> QED
    BY <1>5, <2>1, <2>2 DEF write
<1>6. CASE send(r)
  <2>1. PICK p \in todo[Own(r)] : todo' = [todo EXCEPT ![Own(r)] = @ \ {p}]
    BY <1>6, Zenon DEF send
  <2>2. /\ UNCHANGED <<req, pc, lock, queue>> /\ todo' \in [Tasks -> SUBSET Nodes]
        /\ \A t \in Tasks : todo'[t] \subseteq todo[t] /\ (t[1] # r => todo'[t] = todo[t])
    BY <1>0, <1>6, <2>1, OwnFacts, Zenon DEF send
  <2>3. CountInv(r)' /\ lock' \in [Nodes -> Tasks \cup {Free}]
    BY <2>2 DEF TaskInv, CountInv
  <2>4. \A t \in Tasks : t[1] = r /\ todo'[t] # {} =>
            pc'[t] \in {"broadcast", "fetch", "merge"} /\ ~Publisher(r)'
    BY <2>2 DEF TaskInv, Publisher
  <2> QED
    BY <2>2, <2>3, <2>4, TaskStep
<1>7. CASE broadcast_done(r)
  BY <1>1, <1>7, Zenon DEF broadcast_done
<1>8. CASE update_account(r) \/ delete_account(r) \/ transfer_instance_ownership(r)
  <2>1. Locks(r) /\ Publishing(r) /\ Publisher(r)
    BY <1>8, Publishing3, Zenon DEF update_account, delete_account, transfer_instance_ownership, Publisher
  <2> QED
    BY <1>0, <1>1, <1>2, <2>1 DEF Publishing, Locks
<1>9. CASE request_vanity(r)
  BY <1>0, <1>1, <1>2, <1>9 DEF request_vanity, Locks
<1> DEFINE i == queue[r].tried + 1
           next(taken) == IF taken = {} THEN pc ELSE Spawn(r, <<r, i>>)
<1>10. ASSUME pc[Own(r)] = "publish", NEW taken \in {{}, {i}}, todo' = todo,
              Tried(r, next(taken), taken)
       PROVE  TaskInv'
  <2>1. next(taken) \in {pc, Spawn(r, <<r, i>>)}
    OBVIOUS
  <2>2. /\ queue' = [queue EXCEPT ![r] = [tried |-> i, taken |-> queue[r].taken \cup taken]]
        /\ \/ /\ pc' = [next(taken) EXCEPT ![Own(r)] = "done"]
              /\ req' = [req EXCEPT ![r].reply = "success"]
              /\ lock' = [lock EXCEPT ![req[r].at] = Free]
           \/ /\ pc' = next(taken) /\ UNCHANGED <<req, lock>>
              /\ i # Len(Publishes[req[r].kind])
    BY <1>10, Zenon DEF Tried, PublishInv, TypeInv, QueueType
  <2> HIDE DEF next
  <2> QED
    BY <1>10, <2>1, <2>2, PublishTask, Zenon
<1>11. CASE write_local(r)
  <2>1. Tried(r, next({i}), {i}) /\ pc[Own(r)] = "publish" /\ todo' = todo
    BY <1>11 DEF write_local
  <2> HIDE DEF next
  <2> QED
    BY <1>10, <2>1
<1>12. CASE write_to_queue_failed(r)
  <2>1. PICK taken \in {{}, {i}} :
          IF Publishes[req[r].kind][i]
          THEN /\ req' = [req EXCEPT ![r].reply = "failure"]
               /\ pc' = [next(taken) EXCEPT ![Own(r)] = "done"]
               /\ lock' = [lock EXCEPT ![req[r].at] = Free]
               /\ queue' = [queue EXCEPT ![r] = [tried |-> i, taken |-> @.taken \cup taken]]
          ELSE Tried(r, next(taken), taken)
    BY <1>12, Zenon DEF write_to_queue_failed
  <2>2. next(taken) \in {pc, Spawn(r, <<r, i>>)} /\ pc[Own(r)] = "publish" /\ todo' = todo
    BY <1>12 DEF write_to_queue_failed
  <2> HIDE DEF next
  <2>3. CASE Publishes[req[r].kind][i]
    <3>1. queue' = [queue EXCEPT ![r] = [tried |-> i, taken |-> queue[r].taken \cup taken]]
      BY <2>1, <2>3 DEF PublishInv, TypeInv, QueueType
    <3> QED
      BY <2>1, <2>2, <2>3, <3>1, PublishTask, Zenon
  <2>4. CASE ~Publishes[req[r].kind][i]
    BY <1>10, <2>1, <2>2, <2>4, Zenon
  <2> QED
    BY <2>3, <2>4
<1>13. CASE complete_bootstrap(r)
  <2>1. PICK admins \in SUBSET Nodes : todo' = [todo EXCEPT ![<<r, 1>>] = admins]
    BY <1>13, Zenon DEF complete_bootstrap, get_all_active_admin
  <2>2. <<r, 1>> \in Tasks /\ <<r, 1>> # Own(r) /\ <<r, 1>>[1] = r
    BY DEF Tasks, Own
  <2>3. /\ pc'[Own(r)] = "done" /\ pc'[<<r, 1>>] = "fetch"
        /\ \A t \in Tasks \ {Own(r), <<r, 1>>} : pc'[t] = pc[t]
    BY <1>0, <1>13, <2>2 DEF complete_bootstrap, PublishInv, TypeInv
  <2>4. /\ todo' \in [Tasks -> SUBSET Nodes] /\ UNCHANGED <<lock, queue>>
        /\ \A t \in Tasks \ {<<r, 1>>} : todo'[t] = todo[t]
    BY <1>0, <1>13, <2>1, <2>2 DEF complete_bootstrap
  <2>5. req[r].kind = "bootstrap" /\ \A q \in Requests : req'[q].kind = req[q].kind
    BY <1>13, KindStays, Zenon DEF complete_bootstrap, PublishInv, TypeInv
  <2>6. CountInv(r)' /\ lock' \in [Nodes -> Tasks \cup {Free}]
    BY <2>3, <2>4 DEF TaskInv, CountInv
  <2>7. \A t \in Tasks : t[1] = r /\ todo'[t] # {} =>
            pc'[t] \in {"broadcast", "fetch", "merge"} /\ ~Publisher(r)'
    BY <1>0, <1>13, <2>3, <2>4, <2>5, Publishing3, ZenonT(40) DEF complete_bootstrap, Locks, TaskInv, Publisher
  <2> QED
    BY <2>2, <2>3, <2>4, <2>5, <2>6, <2>7, OwnFacts, TaskStep
<1> QED
  BY <1>3, <1>4, <1>5, <1>6, <1>7, <1>8, <1>9, <1>11, <1>12, <1>13, Zenon DEF Handler

(* The other steps. *)
LEMMA ArriveTask ==
    ASSUME PublishInv, TaskInv, NEW r \in Requests, arrive(r)
    PROVE  TaskInv'
<1>1. /\ \A q \in Requests \ {r} : req'[q].kind = req[q].kind
      /\ \A t \in Tasks : t[1] # r => pc'[t] = pc[t]
      /\ pc'[Own(r)] \in {"auth", "handler"} /\ UNCHANGED <<todo, lock>>
  BY OwnFacts, SMTT(30) DEF arrive, PublishInv, TypeInv, ReqType
<1>2. /\ queue'[r].tried = 0 /\ queue'[r].taken = {}
      /\ \A q \in Requests \ {r} : queue'[q] = queue[q]
  BY Zenon DEF arrive, PublishInv, TypeInv, QueueType
<1>3. \A t \in Tasks : t[1] = r => todo'[t] = {}
  BY <1>1, Zenon DEF arrive, TaskInv
<1>4. CountInv(r)'
  BY <1>1, <1>2, SMTT(30) DEF CountInv
<1>5. lock' \in [Nodes -> Tasks \cup {Free}] /\ todo' \in [Tasks -> SUBSET Nodes]
  BY <1>1, Zenon DEF TaskInv
<1> QED
  BY <1>1, <1>2, <1>3, <1>4, <1>5, TaskStep, Zenon

(* A task the queue has spawned.                                             *)
LEMMA SpawnedTask ==
    ASSUME PublishInv, TaskInv, NEW t \in Tasks, Spawned(t)
    PROVE  TaskInv'
<1>0. t[1] \in Requests
  BY Zenon DEF Tasks
<1>1. /\ req' = req /\ queue' = queue /\ lock' = lock
      /\ \A u \in Tasks \ {t} : pc'[u] = pc[u] /\ todo'[u] = todo[u]
      /\ todo' \in [Tasks -> SUBSET Nodes] /\ todo'[t] \subseteq todo[t]
      /\ pc'[t] \in {"fetch", "merge"} \/ (pc'[t] = "done" /\ todo'[t] = {})
  <2>1. CASE get_peers(t)
    BY <2>1 DEF get_peers, PublishInv, TypeInv, TaskInv
  <2>2. CASE full_state(t)
    BY <2>2 DEF full_state, PublishInv, TypeInv, TaskInv
  <2>3. CASE merge(t) \/ bootstrap_done(t)
    BY <2>3, Zenon DEF merge, bootstrap_done, PublishInv, TypeInv, TaskInv
  <2> QED
    BY <2>1, <2>2, <2>3 DEF Spawned
<1>2. CountInv(t[1])'
  BY <1>0, <1>1, OwnFacts, Zenon DEF TaskInv, CountInv
<1>3. \A u \in Tasks : u[1] = t[1] /\ todo'[u] # {} =>
          pc'[u] \in {"broadcast", "fetch", "merge"} /\ ~Publisher(t[1])'
  BY <1>1 DEF TaskInv, Publisher
<1>4. lock' \in [Nodes -> Tasks \cup {Free}]
  BY <1>1, Zenon DEF TaskInv
<1> QED
  BY <1>0, <1>1, <1>2, <1>3, <1>4, TaskStep

(* A restart of a node.                                                      *)
LEMMA RestartTask ==
    ASSUME PublishInv, TaskInv, NEW n \in Nodes, restart(n)
    PROVE  TaskInv'
<1>1. \A r \in Requests : req'[r].kind = req[r].kind
  <2> TAKE r \in Requests
  <2>1. /\ req'[r] = [req[r] EXCEPT !.reply = "reset"] \/ req'[r] = req[r]
        /\ req[r] \in [kind : AllKinds, cred : AllCreds, at : Nodes, reply : Replies]
    BY DEF restart, PublishInv, TypeInv, ReqType
  <2> QED
    BY <2>1
<1>2. /\ \A t \in Tasks : \/ pc'[t] = "done" /\ todo'[t] = {}
                          \/ pc'[t] = pc[t] /\ todo'[t] = todo[t]
      /\ todo' \in [Tasks -> SUBSET Nodes] /\ queue' = queue
      /\ lock' \in [Nodes -> Tasks \cup {Free}]
  BY Zenon DEF restart, TaskInv
<1>3. ASSUME NEW r \in Requests PROVE CountInv(r)'
  BY <1>1, <1>2, OwnFacts DEF TaskInv, CountInv
<1>4. ASSUME NEW t \in Tasks, todo'[t] # {}
      PROVE  pc'[t] \in {"broadcast", "fetch", "merge"} /\ ~Publisher(t[1])'
  <2>1. t[1] \in Requests
    BY DEF Tasks
  <2> QED
    BY <1>1, <1>2, <1>4, <2>1 DEF TaskInv, Publisher
<1> QED
  BY <1>2, <1>3, <1>4 DEF TaskInv

(***************************************************************************)
(* The tasks of the service are well typed whatever is lost, refused or    *)
(* restarted: a task with nodes left to call is one that calls them, so a  *)
(* restart leaves none behind, no request tries more than four messages,   *)
(* and the queue holds no message that was not tried.                      *)
(***************************************************************************)
THEOREM TypeCorrect == Spec => []TypeOK
<1>1. Init => PublishInv /\ TaskInv
  <2> SUFFICES ASSUME Init PROVE TaskInv
    BY PublishStart
  <2>1. \A r \in Requests : CountInv(r)
    BY OwnFacts DEF Init, CountInv
  <2> QED
    BY <2>1 DEF Init, TaskInv
<1>2. PublishInv /\ TaskInv /\ [Next]_vars => PublishInv' /\ TaskInv'
  <2> SUFFICES ASSUME PublishInv, TaskInv, [Next]_vars PROVE TaskInv'
    BY PublishStep, Zenon
  <2>1. CASE UNCHANGED vars
    BY <2>1 DEF vars, TaskInv, CountInv, Publisher
  <2> QED
    BY <2>1, HandlerTask, ArriveTask, SpawnedTask, RestartTask DEF Next
<1>3. PublishInv /\ TaskInv => TypeOK
  <2> SUFFICES ASSUME PublishInv, TaskInv PROVE TypeOK
    OBVIOUS
  <2>1. queue \in [Requests -> [tried : 0 .. 4, taken : SUBSET (1 .. 4)]]
    <3>1. \A r \in Requests : /\ queue[r] \in [tried : Nat, taken : SUBSET Nat]
                              /\ queue[r].tried \in 0 .. 4 /\ queue[r].taken \in SUBSET (1 .. 4)
      BY SMTT(30) DEF PublishInv, TypeInv, QueueType, TaskInv, CountInv
    <3>2. \A r \in Requests : queue[r] \in [tried : 0 .. 4, taken : SUBSET (1 .. 4)]
      BY <3>1
    <3> QED
      BY <3>2 DEF PublishInv, TypeInv, QueueType
  <2> QED
    BY <2>1 DEF PublishInv, TypeInv, ReqType, PCs, TaskInv, CountInv, TypeOK
<1> QED
  BY <1>1, <1>2, <1>3, PTL DEF Spec
=============================================================================
