------------------------------- MODULE Relay -------------------------------
(***************************************************************************)
(* The broker's relay between RPC callers and one prover (rpc/src/broker). *)
(*                                                                         *)
(* Every RPC call is a task of its own.  It takes the session of the       *)
(* prover, or makes one; registers a one-slot channel under a fresh id;    *)
(* queues the request; and waits for its slot, with a timeout at either    *)
(* step.  A connector task per session connects to the prover, drains the  *)
(* queue, and puts what comes back into the slot its id names.  A          *)
(* subscription is such a call whose caller is kept, once answered, as a   *)
(* receiver of orders.  All tasks run concurrently: a step below is what a *)
(* task does between two awaits or two operations on a shared map.         *)
(*                                                                         *)
(* The prover and the network are the environment: a prover works on a     *)
(* request it received and answers over the same connection, in any order, *)
(* or never; a connection may break at any time and loses what is under    *)
(* way in both directions.                                                 *)
(***************************************************************************)
EXTENDS Integers, Sequences, FiniteSets

CONSTANTS
    Requests,       \* calls that go through relay: trade, get_nonce, ...
    Subscribers,    \* calls of subscribe_trading, one per user
    QueueSize,      \* what the channel to the connector holds
    MaxConnections  \* connections a session makes (a bound)

ASSUME CallsAssumption ==
    Requests \cap Subscribers = {} /\ IsFiniteSet(Requests) /\ IsFiniteSet(Subscribers)
ASSUME QueueAssumption == QueueSize \in Nat \ {0} /\ MaxConnections \in Nat

Calls == Requests \cup Subscribers
(* A call makes one session at most. *)
Sessions == 1..Cardinality(Calls)

VARIABLES
    endpoint,   \* whether DominatorSettings has an endpoint for the prover
    cache,      \* backend_sessions: the session of the prover, or 0
    created,    \* sessions made so far
    pc,         \* where the task of a call is
    session,    \* the session a call uses, or 0
    id,         \* the id of a call's request, or 0
    slot,       \* the channel of a call: the call it holds the answer to, or None
    refused,    \* calls the prover answers with an error
    nextId,     \* BackendSession.id
    reqs,       \* BackendSession.reqs: pairs of an id and the call whose channel it is
    subs,       \* BackendSession.subs
    queue,      \* BackendSession.to_back
    link,       \* "down", "up", or "gone" when the connector has returned
    connects,   \* connections made so far
    asked,      \* requests the prover has received over this connection and not answered
    incoming,   \* answers on their way to the connector
    known,      \* subscribers the prover has accepted over this connection
    served,     \* how often the prover has worked on the request of a call
    overtaken   \* subscribers answered before, and stored after, a connection was made

tasks == <<pc, session, id>>
state == <<nextId, reqs, subs, queue>>
net == <<link, connects, asked, incoming, known>>
prover == <<served, refused>>
vars == <<endpoint, cache, created, tasks, slot, prover, state, net, overtaken>>

None == "none"
Message == [id : Nat, of : Calls]
Steps == {"idle", "creating", "starting", "sending", "waiting", "accepting",
          "answered", "failed"}
Ended == {"answered", "failed"}

TypeOK ==
    /\ endpoint \in BOOLEAN
    /\ created \in 0..Cardinality(Calls)
    /\ cache \in 0..created
    /\ pc \in [Calls -> Steps]
    /\ session \in [Calls -> 0..created]
    /\ id \in [Calls -> Nat]
    /\ slot \in [Calls -> Calls \cup {None}]
    /\ refused \subseteq Calls
    /\ nextId \in [Sessions -> Nat \ {0}]
    /\ reqs \in [Sessions -> SUBSET (Nat \X Calls)]
    /\ subs \in [Sessions -> SUBSET Subscribers]
    /\ queue \in [Sessions -> Seq(Message)]
    /\ link \in [Sessions -> {"down", "up", "gone"}]
    /\ connects \in [Sessions -> Nat]
    /\ asked \in [Sessions -> SUBSET Message]
    /\ incoming \in [Sessions -> Seq(Message)]
    /\ known \in [Sessions -> SUBSET Subscribers]
    /\ served \in [Calls -> Nat]
    /\ overtaken \subseteq Subscribers

Init ==
    /\ endpoint \in BOOLEAN
    /\ cache = 0
    /\ created = 0
    /\ pc = [c \in Calls |-> "idle"]
    /\ session = [c \in Calls |-> 0]
    /\ id = [c \in Calls |-> 0]
    /\ slot = [c \in Calls |-> None]
    /\ refused = {}
    /\ nextId = [s \in Sessions |-> 1]
    /\ reqs = [s \in Sessions |-> {}]
    /\ subs = [s \in Sessions |-> {}]
    /\ queue = [s \in Sessions |-> <<>>]
    /\ link = [s \in Sessions |-> "down"]
    /\ connects = [s \in Sessions |-> 0]
    /\ asked = [s \in Sessions |-> {}]
    /\ incoming = [s \in Sessions |-> <<>>]
    /\ known = [s \in Sessions |-> {}]
    /\ served = [c \in Calls |-> 0]
    /\ overtaken = {}

-----------------------------------------------------------------------------
(* The session of a call: looked up in one step, made and stored in        *)
(* another.                                                                *)

Go(c, step) == pc' = [pc EXCEPT ![c] = step]

(* backend_sessions.get, and the endpoint if there is no session yet. *)
Lookup(c) ==
    /\ pc[c] = "idle"
    /\ \/ cache # 0 /\ session' = [session EXCEPT ![c] = cache] /\ Go(c, "starting")
       \/ cache = 0 /\ endpoint /\ Go(c, "creating") /\ UNCHANGED session
       \/ cache = 0 /\ ~endpoint /\ Go(c, "failed") /\ UNCHANGED session
    /\ UNCHANGED <<endpoint, cache, created, id, slot, prover, state, net, overtaken>>

CreateUncounted(c) == \* mutant: a session nobody accounts for
    /\ pc[c] = "creating"
    /\ cache' = created + 1
    /\ session' = [session EXCEPT ![c] = created + 1]
    /\ Go(c, "starting")
    /\ UNCHANGED <<endpoint, created, id, slot, prover, state, net, overtaken>>

(* BackendSession::init and backend_sessions.insert, which replaces the    *)
(* session another task may have stored since the lookup.                  *)
Create(c) ==
    /\ pc[c] = "creating"
    /\ created' = created + 1
    /\ cache' = created + 1
    /\ session' = [session EXCEPT ![c] = created + 1]
    /\ Go(c, "starting")
    /\ UNCHANGED <<endpoint, id, slot, prover, state, net, overtaken>>

(* get_broker_public fails: there is no key in the keystore. *)
NoBrokerKey(c) ==
    /\ pc[c] = "starting"
    /\ Go(c, "failed")
    /\ UNCHANGED <<endpoint, cache, created, session, id, slot, prover, state, net, overtaken>>

-----------------------------------------------------------------------------
(* relay and multiplex. *)

StartWithLastId(c) == \* mutant: the id is not taken
    /\ pc[c] = "starting"
    /\ LET s == session[c]
           i == nextId[s]
       IN  /\ id' = [id EXCEPT ![c] = i]
           /\ reqs' = [reqs EXCEPT ![s] = {e \in @ : e[1] # i} \cup {<<i, c>>}]
    /\ Go(c, "sending")
    /\ UNCHANGED <<endpoint, cache, created, session, slot, prover, nextId, subs, queue, net, overtaken>>

(* A fresh id, and the channel of the call under it. *)
Start(c) ==
    /\ pc[c] = "starting"
    /\ LET s == session[c]
           i == nextId[s]
       IN  /\ nextId' = [nextId EXCEPT ![s] = i + 1]
           /\ id' = [id EXCEPT ![c] = i]
           /\ reqs' = [reqs EXCEPT ![s] = {e \in @ : e[1] # i} \cup {<<i, c>>}]
    /\ Go(c, "sending")
    /\ UNCHANGED <<endpoint, cache, created, session, slot, prover, subs, queue, net, overtaken>>

(* to_back.send, which waits while the channel is full. *)
Enqueue(c) ==
    /\ pc[c] = "sending"
    /\ LET s == session[c]
       IN  /\ Len(queue[s]) < QueueSize
           /\ queue' = [queue EXCEPT ![s] = Append(@, [id |-> id[c], of |-> c])]
    /\ Go(c, "waiting")
    /\ UNCHANGED <<endpoint, cache, created, session, id, slot, prover, nextId, reqs, subs, net, overtaken>>

SendTimeoutConnected(c) == \* mutant: only over a connection
    /\ pc[c] = "sending"
    /\ link[session[c]] = "up"
    /\ Go(c, "failed")
    /\ UNCHANGED <<endpoint, cache, created, session, id, slot, prover, state, net, overtaken>>

(* Two seconds later the call gives up; relay takes its channel out of     *)
(* reqs again, multiplex does not.                                         *)
SendTimeout(c) ==
    /\ pc[c] = "sending"
    /\ reqs' = IF c \in Requests
               THEN [reqs EXCEPT ![session[c]] = @ \ {<<id[c], c>>}]
               ELSE reqs
    /\ Go(c, "failed")
    /\ UNCHANGED <<endpoint, cache, created, session, id, slot, prover, nextId, subs, queue, net, overtaken>>

(* rx.recv: an answer ends a request, be it an error; an accepted          *)
(* subscription has to be stored, unless the client is gone.               *)
Receive(c) ==
    /\ pc[c] = "waiting"
    /\ slot[c] # None
    /\ \/ (c \in Requests \/ c \in refused) /\ Go(c, "answered")
       \/ c \in Subscribers \ refused /\ (Go(c, "accepting") \/ Go(c, "failed"))
    /\ UNCHANGED <<endpoint, cache, created, session, id, slot, prover, state, net, overtaken>>

(* The wait for the answer ends after two seconds, or five; the channel    *)
(* stays in reqs.                                                          *)
WaitTimeout(c) ==
    /\ pc[c] = "waiting"
    /\ Go(c, "failed")
    /\ UNCHANGED <<endpoint, cache, created, session, id, slot, prover, state, net, overtaken>>

(* subs.insert, after sink.accept. *)
Subscribe(c) ==
    /\ pc[c] = "accepting"
    /\ subs' = [subs EXCEPT ![session[c]] = @ \cup {c}]
    /\ Go(c, "answered")
    /\ UNCHANGED <<endpoint, cache, created, session, id, slot, prover, nextId, reqs, queue, net, overtaken>>

Task(c) ==
    \/ Create(c) \/ NoBrokerKey(c) \/ Start(c)
    \/ Enqueue(c) \/ SendTimeout(c)
    \/ Receive(c) \/ WaitTimeout(c) \/ Subscribe(c)

-----------------------------------------------------------------------------
(* The connector task of a session (start_inner). *)

(* Answered subscribers whose tasks have not stored them yet. *)
Overtaken(s) ==
    {u \in Subscribers : session[u] = s /\ slot[u] # None /\ pc[u] \in {"waiting", "accepting"}}

ConnectKeepsSubs(s) == \* mutant: the old subscriptions are kept
    /\ s <= created /\ link[s] = "down" /\ endpoint
    /\ connects[s] < MaxConnections
    /\ link' = [link EXCEPT ![s] = "up"]
    /\ connects' = [connects EXCEPT ![s] = @ + 1]
    /\ nextId' = [nextId EXCEPT ![s] = @ + 1]
    /\ overtaken' = overtaken \cup Overtaken(s)
    /\ UNCHANGED <<endpoint, cache, created, tasks, slot, prover, reqs, subs, queue,
                   asked, incoming, known>>

(* init_connection succeeds: an id goes to sub_trading, whose answer finds *)
(* no channel, and all subscriptions are dropped.  An attempt that fails   *)
(* is made again a second later and changes nothing but the next id.       *)
Connect(s) ==
    /\ s <= created /\ link[s] = "down" /\ endpoint
    /\ connects[s] < MaxConnections
    /\ link' = [link EXCEPT ![s] = "up"]
    /\ connects' = [connects EXCEPT ![s] = @ + 1]
    /\ nextId' = [nextId EXCEPT ![s] = @ + 1]
    /\ subs' = [subs EXCEPT ![s] = {}]
    /\ overtaken' = overtaken \cup Overtaken(s)
    /\ UNCHANGED <<endpoint, cache, created, tasks, slot, prover, reqs, queue,
                   asked, incoming, known>>

(* What is under way when the connection ends is lost; what is queued and  *)
(* what is registered stays.                                               *)
Disconnected(s) ==
    /\ link' = [link EXCEPT ![s] = "down"]
    /\ asked' = [asked EXCEPT ![s] = {}]
    /\ incoming' = [incoming EXCEPT ![s] = <<>>]
    /\ known' = [known EXCEPT ![s] = {}]
    /\ UNCHANGED connects

(* from_front.recv, and conn.send of what it returned. *)
SendOut(s) ==
    /\ link[s] = "up" /\ queue[s] # <<>>
    /\ queue' = [queue EXCEPT ![s] = Tail(@)]
    /\ asked' = [asked EXCEPT ![s] = @ \cup {Head(queue[s])}]
    /\ UNCHANGED <<endpoint, cache, created, tasks, slot, prover, nextId, reqs, subs,
                   link, connects, incoming, known, overtaken>>

(* The send fails: the request has left the queue and is lost. *)
SendFails(s) ==
    /\ link[s] = "up" /\ queue[s] # <<>>
    /\ queue' = [queue EXCEPT ![s] = Tail(@)]
    /\ Disconnected(s)
    /\ UNCHANGED <<endpoint, cache, created, tasks, slot, prover, nextId, reqs, subs, overtaken>>

(* Close, an error, the end of the stream or a failed ping. *)
Break(s) ==
    /\ link[s] = "up"
    /\ Disconnected(s)
    /\ UNCHANGED <<endpoint, cache, created, tasks, slot, prover, state, overtaken>>

Entries(s, i) == {e \in reqs[s] : e[1] = i}

DeliverKeepsEntry(s) == \* mutant: get instead of remove
    /\ link[s] = "up" /\ incoming[s] # <<>>
    /\ LET m == Head(incoming[s])
       IN  slot' = [c \in Calls |->
                      IF <<m.id, c>> \in reqs[s] /\ pc[c] \notin Ended THEN m.of ELSE slot[c]]
    /\ incoming' = [incoming EXCEPT ![s] = Tail(@)]
    /\ UNCHANGED <<endpoint, cache, created, tasks, prover, state,
                   link, connects, asked, known, overtaken>>

(* An answer goes to the channel under its id, if there is one, and is     *)
(* dropped if nobody listens to the channel any more.                      *)
Deliver(s) ==
    /\ link[s] = "up" /\ incoming[s] # <<>>
    /\ LET m == Head(incoming[s])
       IN  /\ reqs' = [reqs EXCEPT ![s] = @ \ Entries(s, m.id)]
           /\ slot' = [c \in Calls |->
                         IF <<m.id, c>> \in reqs[s] /\ pc[c] \notin Ended THEN m.of ELSE slot[c]]
    /\ incoming' = [incoming EXCEPT ![s] = Tail(@)]
    /\ UNCHANGED <<endpoint, cache, created, tasks, prover, nextId, subs, queue,
                   link, connects, asked, known, overtaken>>

(* An order for a subscriber whose client is gone: sink.send fails. *)
PushFails(s, u) ==
    /\ link[s] = "up"
    /\ u \in known[s] \cap subs[s]
    /\ subs' = [subs EXCEPT ![s] = @ \ {u}]
    /\ UNCHANGED <<endpoint, cache, created, tasks, slot, prover, nextId, reqs, queue, net, overtaken>>

(* A session that another one replaced, and that no call uses any more: the *)
(* queue has no sender left, so the connector returns, and with it go the   *)
(* subscriptions made through this session.                                 *)
Return(s) ==
    /\ s <= created /\ s # cache
    /\ link[s] = "up" /\ queue[s] = <<>>
    /\ \A c \in Calls : session[c] = s => pc[c] \in Ended
    /\ link' = [link EXCEPT ![s] = "gone"]
    /\ subs' = [subs EXCEPT ![s] = {}]
    /\ asked' = [asked EXCEPT ![s] = {}]
    /\ incoming' = [incoming EXCEPT ![s] = <<>>]
    /\ known' = [known EXCEPT ![s] = {}]
    /\ UNCHANGED <<endpoint, cache, created, tasks, slot, prover, nextId, reqs, queue,
                   connects, overtaken>>

-----------------------------------------------------------------------------
(* The environment. *)

(* The prover works on a request it received and answers, with a result or *)
(* an error; from then on it sends an accepted subscriber its orders.      *)
Serve(s, m) ==
    /\ link[s] = "up" /\ m \in asked[s]
    /\ asked' = [asked EXCEPT ![s] = @ \ {m}]
    /\ incoming' = [incoming EXCEPT ![s] = Append(@, m)]
    /\ served' = [served EXCEPT ![m.of] = @ + 1]
    /\ \/ refused' = refused \cup {m.of} /\ UNCHANGED known
       \/ /\ known' = [known EXCEPT ![s] = @ \cup ({m.of} \cap Subscribers)]
          /\ UNCHANGED refused
    /\ UNCHANGED <<endpoint, cache, created, tasks, slot, state, link, connects, overtaken>>

(* The dominator sets its endpoint (dominator_set_rpc_endpoint). *)
SetEndpoint ==
    /\ ~endpoint
    /\ endpoint' = TRUE
    /\ UNCHANGED <<cache, created, tasks, slot, prover, state, net, overtaken>>

Connector(s) ==
    \/ Connect(s) \/ SendOut(s) \/ SendFails(s) \/ Break(s) \/ Deliver(s) \/ Return(s)
    \/ \E u \in Subscribers : PushFails(s, u)

Next ==
    \/ \E c \in Calls : Lookup(c) \/ Task(c)
    \/ \E s \in Sessions : Connector(s) \/ \E m \in asked[s] : Serve(s, m)
    \/ SetEndpoint

Spec == Init /\ [][Next]_vars

(* A task that can go on does: timers fire, and what a task waits for is   *)
(* taken when it is there.  Nothing is assumed of the connector, of the    *)
(* network or of the prover.                                               *)
FairSpec == Spec /\ \A c \in Calls : WF_vars(Task(c))

-----------------------------------------------------------------------------
(* Properties. *)

Ledger == INSTANCE Answers WITH
    served <- served,
    outcome <- [c \in Calls |-> CASE pc[c] = "answered" -> slot[c]
                                  [] pc[c] = "failed" -> "failed"
                                  [] OTHER -> "pending"]

(* The relay implements Answers: through shared ids, queues, late answers, *)
(* lost connections and sessions that replace each other, no call is       *)
(* answered with the answer to another, none ends twice, and no request    *)
(* reaches the prover a second time.                                       *)
OwnAnswerOnce == Ledger!Spec

UnderWay(s) == {queue[s][i] : i \in DOMAIN queue[s]} \cup asked[s]
               \cup {incoming[s][i] : i \in DOMAIN incoming[s]}

(* Every channel in reqs is that of a call without an answer, still under  *)
(* way or timed out; and a request under way whose caller waits finds the  *)
(* caller's channel under its id when its answer comes.                    *)
EntriesMatchCalls ==
    \A s \in Sessions :
        /\ \A e \in reqs[s] :
              /\ session[e[2]] = s /\ id[e[2]] = e[1] /\ slot[e[2]] = None
              /\ pc[e[2]] \in {"sending", "waiting", "failed"}
        /\ \A m \in UnderWay(s) :
              pc[m.of] = "waiting" => session[m.of] = s /\ <<m.id, m.of>> \in reqs[s]

(* A subscriber the relay keeps on a connection is one the prover knows on *)
(* it, unless a new connection was made between the answer to the          *)
(* subscription and the moment its task stored it.                         *)
SubscribersAreKnown ==
    \A s \in Sessions : link[s] = "up" => subs[s] \subseteq known[s] \cup overtaken

(* What the relay remembers is right: no channel, and no subscriber, is    *)
(* filed where the answers and the trading keys that come do not belong.   *)
RecordsAreRight == TypeOK /\ EntriesMatchCalls /\ SubscribersAreKnown

(* Every call ends, with its queue full, its connection down and a prover  *)
(* that never answers.                                                     *)
EveryCallEnds == \A c \in Calls : pc[c] # "idle" ~> pc[c] \in Ended
=============================================================================
