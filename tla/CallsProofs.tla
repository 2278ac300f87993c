---------------------------- MODULE CallsProofs ----------------------------
(***************************************************************************)
(* Proofs about calls: those that Relay carries to a prover, and those of  *)
(* Agent that accounts sign.                                               *)
(*                                                                         *)
(* Relay, for any number of calls and sessions, any size of the queue and  *)
(* any number of connections: the records the relay keeps are right        *)
(* (RecordsAreRight), and it implements Answers (OwnAnswerOnce).  The      *)
(* inductive invariant says where a call, its channel and its request can  *)
(* be at the same time: ids of a session are given out once, a request is  *)
(* in one place at most, and the prover has worked on it exactly if it has *)
(* left the queue's side for the other.                                    *)
(*                                                                         *)
(* Agent, for any users, fees, stakes, funds and calls: the pallets that   *)
(* share the ledger agree on it (LedgersAgree), a nonce is good for one    *)
(* thing in a life of its account (OneUsePerLife), and a market keeps the  *)
(* terms of its dominator (TermsAreTheDominators).  A block releases from  *)
(* the vaults one after another, each on the balances the last one left,   *)
(* so the proof goes along the vaults: what is due to one of a sound fund  *)
(* is there, because no other touches what is reserved for it, however     *)
(* unsound the funds of the others are.                                    *)
(***************************************************************************)
EXTENDS Relay, Agent, SumsProofs, FiniteSetTheorems, TLAPS


-----------------------------------------------------------------------------
(* Channels as sets of messages. *)

In(q) == {q[i] : i \in DOMAIN q}

(* No call has two messages in a channel. *)
Distinct(q) == \A i, j \in DOMAIN q : i # j => q[i].of # q[j].of

LEMMA Appended ==
  ASSUME NEW q \in Seq(Message), NEW m \in Message
  PROVE  /\ Append(q, m) \in Seq(Message)
         /\ In(Append(q, m)) = In(q) \cup {m}
         /\ Distinct(q) /\ (\A n \in In(q) : n.of # m.of) => Distinct(Append(q, m))
<1> DEFINE r == Append(q, m)
<1>1. /\ r \in Seq(Message) /\ Len(r) = Len(q) + 1
      /\ \A i \in 1..Len(q) : r[i] = q[i]
      /\ r[Len(q) + 1] = m
      /\ DOMAIN q = 1..Len(q) /\ DOMAIN r = 1..(Len(q) + 1) /\ Len(q) \in Nat
  OBVIOUS
<1> HIDE DEF r
<1>2. In(r) = In(q) \cup {m}
  BY <1>1 DEF In
<1>3. ASSUME Distinct(q), \A n \in In(q) : n.of # m.of PROVE Distinct(r)
  BY <1>1, <1>3 DEF In, Distinct
<1> QED
  BY <1>1, <1>2, <1>3 DEF r

LEMMA Taken ==
  ASSUME NEW q \in Seq(Message), q # <<>>
  PROVE  /\ Tail(q) \in Seq(Message) /\ Head(q) \in Message
         /\ Head(q) \in In(q) /\ In(Tail(q)) \subseteq In(q)
         /\ Distinct(q) => Distinct(Tail(q)) /\ \A n \in In(Tail(q)) : n.of # Head(q).of
<1> DEFINE r == Tail(q)
<1>1. /\ r \in Seq(Message) /\ Len(q) \in Nat \ {0}
      /\ \A i \in 1..(Len(q) - 1) : r[i] = q[i + 1]
      /\ Head(q) = q[1]
      /\ DOMAIN q = 1..Len(q) /\ DOMAIN r = 1..(Len(q) - 1)
  OBVIOUS
<1>2. q[1] \in Message
  BY <1>1
<1> HIDE DEF r
<1>3. Head(q) \in In(q) /\ In(r) \subseteq In(q)
  BY <1>1 DEF In
<1>4. ASSUME Distinct(q) PROVE Distinct(r) /\ \A n \in In(r) : n.of # Head(q).of
  <2>1. \A i \in DOMAIN r : i + 1 \in DOMAIN q /\ r[i] = q[i + 1] /\ i \in Int
    BY <1>1
  <2>2. Distinct(r)
    BY <1>4, <2>1 DEF Distinct
  <2>3. \A i \in DOMAIN r : r[i].of # q[1].of
    <3>1. \A i \in DOMAIN r : i + 1 # 1 /\ 1 \in DOMAIN q
      BY <1>1
    <3> QED
      BY <1>4, <2>1, <3>1 DEF Distinct
  <2> QED
    BY <1>1, <2>2, <2>3 DEF In
<1> QED
  BY <1>1, <1>2, <1>3, <1>4 DEF r

LEMMA Emptied == In(<<>>) = {} /\ Distinct(<<>>) /\ <<>> \in Seq(Message)
BY DEF In, Distinct

-----------------------------------------------------------------------------
(* The inductive invariant. *)

(* Calls that have no session of their own yet. *)
Fresh == {c \in Calls : pc[c] \in {"idle", "creating"}}
SessionsSuffice == created + Cardinality(Fresh) <= Cardinality(Calls)

(* Before its request is queued, and when it has an id. *)
Early == {"idle", "creating", "starting", "sending"}

CallsPlaced ==
  \A c \in Calls :
    /\ pc[c] \in {"idle", "creating", "starting"} => id[c] = 0
    /\ pc[c] \in {"sending", "waiting", "accepting", "answered"} => id[c] # 0
    /\ pc[c] = "starting" => session[c] # 0
    /\ id[c] # 0 => session[c] # 0 /\ id[c] < nextId[session[c]]
    /\ served[c] \in {0, 1}
    /\ pc[c] \in Early => served[c] = 0
    /\ slot[c] # None => slot[c] = c /\ served[c] = 1
    /\ pc[c] = "accepting" => c \in Subscribers \ refused /\ slot[c] # None

IdsDiffer ==
  \A c, d \in Calls : c # d /\ id[c] # 0 /\ id[c] = id[d] => session[c] # session[d]

(* The channels in reqs. *)
EntriesPlaced ==
  /\ \A s \in Sessions : \A e \in reqs[s] :
        /\ session[e[2]] = s /\ id[e[2]] = e[1] /\ slot[e[2]] = None
        /\ pc[e[2]] \in {"sending", "waiting", "failed"}
  /\ \A c \in Calls : pc[c] = "sending" => <<id[c], c>> \in reqs[session[c]]

(* The messages of a session. *)
Unserved(s) == In(queue[s]) \cup asked[s]
MailPlaced ==
  \A s \in Sessions :
    /\ \A m \in Unserved(s) \cup In(incoming[s]) :
          /\ session[m.of] = s /\ id[m.of] = m.id /\ m.id # 0 /\ pc[m.of] \notin Early
          /\ pc[m.of] = "waiting" => <<m.id, m.of>> \in reqs[s]
    /\ \A m \in Unserved(s) : served[m.of] = 0
    /\ \A m \in In(incoming[s]) :
          /\ served[m.of] = 1
          /\ m.of \in Subscribers => m.of \in refused \cup known[s]
    /\ \A m \in In(queue[s]), n \in asked[s] : m.of # n.of
    /\ Distinct(queue[s]) /\ Distinct(incoming[s])

(* Subscribers that are answered are known until a connection is made. *)
AnswersAreKnown ==
  \A c \in Subscribers :
    slot[c] # None /\ c \notin refused /\ pc[c] \in {"waiting", "accepting"} =>
      (session[c] \in Sessions /\ (link[session[c]] = "up" => c \in known[session[c]] \cup overtaken))

Placed ==
  /\ TypeOK /\ SessionsSuffice /\ CallsPlaced /\ IdsDiffer
  /\ EntriesPlaced /\ MailPlaced /\ AnswersAreKnown /\ SubscribersAreKnown

LEMMA CallsFinite == IsFiniteSet(Calls) /\ Cardinality(Calls) \in Nat
BY CallsAssumption, FS_Union, FS_CardinalityType DEF Calls

(* A call with an id has a session. *)
LEMMA SessionOf ==
  ASSUME Placed, NEW c \in Calls
  PROVE  /\ session[c] \in 0..created /\ created \in Nat /\ created <= Cardinality(Calls)
         /\ session[c] # 0 => session[c] \in Sessions
<1>1. session[c] \in 0..created /\ created \in 0..Cardinality(Calls)
  BY DEF Placed, TypeOK
<1> QED
  BY <1>1, CallsFinite DEF Sessions

(* The invariant says what the run checks. *)
LEMMA PlacedIsRight == Placed => RecordsAreRight
<1> SUFFICES ASSUME Placed PROVE EntriesMatchCalls
  BY DEF Placed, RecordsAreRight
<1>2. ASSUME NEW s \in Sessions, NEW m \in UnderWay(s), pc[m.of] = "waiting"
      PROVE  session[m.of] = s /\ <<m.id, m.of>> \in reqs[s]
  <2>1. m \in Unserved(s) \cup In(incoming[s])
    BY DEF UnderWay, Unserved, In
  <2> QED
    BY <1>2, <2>1 DEF Placed, MailPlaced
<1> QED
  BY <1>2 DEF EntriesMatchCalls, Placed, EntriesPlaced

-----------------------------------------------------------------------------
(* Sessions never outnumber the calls. *)

LEMMA FreshKept ==
  ASSUME Placed, Fresh' \subseteq Fresh, created' = created
  PROVE  SessionsSuffice'
<1>1. Fresh \subseteq Calls
  BY DEF Fresh
<1>2. IsFiniteSet(Fresh)
  BY <1>1, CallsFinite, FS_Subset
<1>3. IsFiniteSet(Fresh') /\ Cardinality(Fresh') <= Cardinality(Fresh)
  BY <1>2, FS_Subset
<1>4. Cardinality(Fresh') \in Nat /\ Cardinality(Fresh) \in Nat /\ created \in Nat
  BY <1>2, <1>3, FS_CardinalityType, SessionOf, CallsFinite DEF Placed, TypeOK
<1> QED
  BY <1>3, <1>4, CallsFinite DEF Placed, SessionsSuffice

LEMMA FreshSpent ==
  ASSUME Placed, NEW c \in Fresh, Fresh' = Fresh \ {c}, created' = created + 1
  PROVE  SessionsSuffice' /\ created < Cardinality(Calls)
<1>1. Fresh \subseteq Calls
  BY DEF Fresh
<1>2. IsFiniteSet(Fresh)
  BY <1>1, CallsFinite, FS_Subset
<1>3. Cardinality(Fresh \ {c}) = Cardinality(Fresh) - 1
  BY <1>2, FS_RemoveElement
<1>4. Cardinality(Fresh) \in Nat /\ created \in Nat
  BY <1>2, FS_CardinalityType, CallsFinite DEF Placed, TypeOK
<1>5. Cardinality(Fresh) # 0
  BY <1>2, FS_EmptySet
<1> QED
  BY <1>3, <1>4, <1>5, CallsFinite DEF Placed, SessionsSuffice

-----------------------------------------------------------------------------
(* What is in the records of a session. *)
LEMMA Contents ==
  ASSUME Placed, NEW s \in Sessions
  PROVE  /\ \A e \in reqs[s] : e[1] \in Nat /\ e[2] \in Calls /\ e = <<e[1], e[2]>>
         /\ \A m \in Unserved(s) \cup In(incoming[s]) : m \in Message /\ m.id \in Nat /\ m.of \in Calls
<1>1. /\ reqs[s] \in SUBSET (Nat \X Calls)
      /\ queue[s] \in Seq(Message) /\ incoming[s] \in Seq(Message)
      /\ asked[s] \in SUBSET Message
  BY DEF Placed, TypeOK
<1>2. \A q \in Seq(Message) : In(q) \subseteq Message
  BY DEF In
<1>3. \A m \in Message : m.id \in Nat /\ m.of \in Calls
  BY DEF Message
<1> QED
  BY <1>1, <1>2, <1>3 DEF Unserved

(* A call that has no id yet takes a session or gives up. *)
LEMMA EarlyStep ==
  ASSUME Placed, NEW c \in Calls, NEW p \in {"creating", "starting", "failed"}, NEW x \in Nat,
         pc[c] \in {"idle", "creating", "starting"},
         pc' = [pc EXCEPT ![c] = p], session' = [session EXCEPT ![c] = x],
         p = "starting" => x # 0,
         UNCHANGED <<id, slot, prover, state, net, overtaken>>,
         TypeOK', SessionsSuffice'
  PROVE  Placed'
<1>1. /\ id' = id /\ slot' = slot /\ served' = served /\ refused' = refused
      /\ nextId' = nextId /\ reqs' = reqs /\ subs' = subs /\ queue' = queue
      /\ link' = link /\ asked' = asked /\ incoming' = incoming /\ known' = known
      /\ overtaken' = overtaken
  BY DEF prover, state, net
<1>2. /\ pc'[c] = p /\ session'[c] = x
      /\ \A d \in Calls : d # c => pc'[d] = pc[d] /\ session'[d] = session[d]
  BY DEF Placed, TypeOK
<1>3. id[c] = 0 /\ served[c] = 0 /\ slot[c] = None
  BY DEF Placed, CallsPlaced, Early
<1>4. \A s \in Sessions : /\ \A e \in reqs[s] : e[2] \in Calls \ {c}
                          /\ \A m \in Unserved(s) \cup In(incoming[s]) : m.of \in Calls \ {c}
  <2> TAKE s \in Sessions
  <2>1. \A e \in reqs[s] : e[2] \in Calls /\ pc[e[2]] \in {"sending", "waiting", "failed"}
    BY Contents DEF Placed, EntriesPlaced
  <2>2. \A m \in Unserved(s) \cup In(incoming[s]) : m.of \in Calls /\ pc[m.of] \notin Early
    BY Contents DEF Placed, MailPlaced
  <2> QED
    BY <2>1, <2>2 DEF Early
<1>5. CallsPlaced'
  BY <1>1, <1>2, <1>3 DEF Placed, CallsPlaced, Early
<1>6. IdsDiffer'
  BY <1>1, <1>2, <1>3 DEF Placed, IdsDiffer
<1>7. EntriesPlaced'
  BY <1>1, <1>2, <1>4 DEF Placed, EntriesPlaced
<1>8. MailPlaced'
  BY <1>1, <1>2, <1>4 DEF Placed, MailPlaced, Unserved
<1>9. AnswersAreKnown' /\ SubscribersAreKnown'
  BY <1>1, <1>2, <1>3, CallsAssumption DEF Placed, AnswersAreKnown, SubscribersAreKnown, Calls
<1> QED
  BY <1>5, <1>6, <1>7, <1>8, <1>9 DEF Placed

(* A call whose request is queued ends, or is accepted. *)
LEMMA LateStep ==
  ASSUME Placed, NEW c \in Calls, NEW p \in {"accepting", "answered", "failed"},
         pc[c] \in {"waiting", "accepting"},
         pc' = [pc EXCEPT ![c] = p],
         p # "failed" => slot[c] # None,
         p = "accepting" => c \in Subscribers \ refused,
         UNCHANGED <<created, session, id, slot, prover, nextId, reqs, queue, net, overtaken>>,
         TypeOK', SubscribersAreKnown'
  PROVE  Placed'
<1>1. /\ id' = id /\ slot' = slot /\ served' = served /\ refused' = refused
      /\ nextId' = nextId /\ reqs' = reqs /\ queue' = queue /\ session' = session
      /\ link' = link /\ asked' = asked /\ incoming' = incoming /\ known' = known
      /\ overtaken' = overtaken /\ created' = created
  BY DEF prover, net
<1>2. pc'[c] = p /\ \A d \in Calls : d # c => pc'[d] = pc[d]
  BY DEF Placed, TypeOK
<1>3. SessionsSuffice'
  <2>1. Fresh' \subseteq Fresh
    BY <1>2 DEF Fresh
  <2> QED
    BY <1>1, <2>1, FreshKept
<1>5. CallsPlaced'
  BY <1>1, <1>2 DEF Placed, CallsPlaced, Early
<1>6. IdsDiffer'
  BY <1>1 DEF Placed, IdsDiffer
<1>7. EntriesPlaced'
  BY <1>1, <1>2, Contents DEF Placed, EntriesPlaced
<1>8. MailPlaced'
  BY <1>1, <1>2, Contents DEF Placed, MailPlaced, Unserved, Early
<1>9. AnswersAreKnown'
  BY <1>1, <1>2, CallsAssumption DEF Placed, AnswersAreKnown, Calls
<1> QED
  BY <1>3, <1>5, <1>6, <1>7, <1>8, <1>9 DEF Placed

-----------------------------------------------------------------------------
(* The steps of a task. *)

LEMMA LookupPlaced ==
  ASSUME Placed, NEW c \in Calls, Lookup(c)
  PROVE  Placed'
<1>1. TypeOK'
  BY DEF Placed, Lookup, Go, state, prover, net, TypeOK, Steps
<1>2. SessionsSuffice'
  <2>1. Fresh' \subseteq Fresh /\ created' = created
    BY DEF Placed, TypeOK, Fresh, Lookup, Go
  <2> QED
    BY <2>1, FreshKept
<1>3. session = [session EXCEPT ![c] = session[c]]
  BY DEF Placed, TypeOK
<1>4. pc[c] \in {"idle", "creating", "starting"} /\ UNCHANGED <<id, slot, prover, state, net, overtaken>>
  BY DEF Lookup
<1>6. cache \in Nat /\ session[c] \in Nat
  BY CallsFinite DEF Placed, TypeOK
<1>5. PICK p \in {"creating", "starting", "failed"}, x \in {cache, session[c]} :
        /\ pc' = [pc EXCEPT ![c] = p] /\ session' = [session EXCEPT ![c] = x]
        /\ p = "starting" => x # 0
  BY <1>3 DEF Lookup, Go
<1> QED
  BY <1>1, <1>2, <1>4, <1>5, <1>6, EarlyStep

LEMMA CreatePlaced ==
  ASSUME Placed, NEW c \in Calls, Create(c)
  PROVE  Placed'
<1>1. SessionsSuffice' /\ created < Cardinality(Calls)
  <2>1. c \in Fresh /\ Fresh' = Fresh \ {c} /\ created' = created + 1
    BY DEF Placed, TypeOK, Fresh, Create, Go
  <2> QED
    BY <2>1, FreshSpent
<1>2. created + 1 \in 0..Cardinality(Calls) /\ created + 1 # 0 /\ created + 1 \in Nat
  BY <1>1, CallsFinite DEF Placed, TypeOK
<1>3. TypeOK'
  BY <1>2 DEF Placed, Create, Go, state, prover, net, TypeOK, Steps
<1>4. /\ pc[c] \in {"idle", "creating", "starting"}
      /\ UNCHANGED <<id, slot, prover, state, net, overtaken>>
      /\ pc' = [pc EXCEPT ![c] = "starting"] /\ session' = [session EXCEPT ![c] = created + 1]
  BY DEF Create, Go
<1> QED
  BY <1>1, <1>2, <1>3, <1>4, EarlyStep

LEMMA NoBrokerKeyPlaced ==
  ASSUME Placed, NEW c \in Calls, NoBrokerKey(c)
  PROVE  Placed'
<1>1. TypeOK'
  BY DEF Placed, NoBrokerKey, Go, state, prover, net, TypeOK, Steps
<1>2. SessionsSuffice'
  <2>1. Fresh' \subseteq Fresh /\ created' = created
    BY DEF Placed, TypeOK, Fresh, NoBrokerKey, Go
  <2> QED
    BY <2>1, FreshKept
<1>3. /\ pc[c] \in {"idle", "creating", "starting"}
      /\ UNCHANGED <<id, slot, prover, state, net, overtaken>>
      /\ pc' = [pc EXCEPT ![c] = "failed"] /\ session' = [session EXCEPT ![c] = session[c]]
      /\ session[c] \in Nat
  BY CallsFinite DEF NoBrokerKey, Go, Placed, TypeOK
<1> QED
  BY <1>1, <1>2, <1>3, EarlyStep

LEMMA WaitPlaced ==
  ASSUME Placed, NEW c \in Calls, Receive(c) \/ WaitTimeout(c) \/ Subscribe(c)
  PROVE  Placed'
<1>1. TypeOK'
  <2>1. pc' \in [Calls -> Steps]
    BY DEF Placed, TypeOK, Receive, WaitTimeout, Subscribe, Go, Steps
  <2>2. subs' \in [Sessions -> SUBSET Subscribers]
    BY DEF Placed, TypeOK, Receive, WaitTimeout, Subscribe, CallsPlaced, state
  <2> QED
    BY <2>1, <2>2 DEF Placed, TypeOK, Receive, WaitTimeout, Subscribe, state, prover, net
<1>2. SubscribersAreKnown'
  <2>1. CASE Subscribe(c)
    <3>1. c \in Subscribers \ refused /\ slot[c] # None /\ pc[c] = "accepting"
      BY <2>1 DEF Subscribe, Placed, CallsPlaced
    <3>2. session[c] \in Sessions /\ (link[session[c]] = "up" => c \in known[session[c]] \cup overtaken)
      BY <3>1 DEF Placed, AnswersAreKnown
    <3>3. \A s \in Sessions : subs'[s] \subseteq subs[s] \cup (IF s = session[c] THEN {c} ELSE {})
      BY <2>1 DEF Subscribe, Placed, TypeOK
    <3> QED
      BY <2>1, <3>2, <3>3 DEF Subscribe, Placed, SubscribersAreKnown, net
  <2>2. CASE Receive(c) \/ WaitTimeout(c)
    BY <2>2 DEF Receive, WaitTimeout, Placed, SubscribersAreKnown, net, state
  <2> QED
    BY <2>1, <2>2
<1>3. /\ pc[c] \in {"waiting", "accepting"}
      /\ UNCHANGED <<created, session, id, slot, prover, nextId, reqs, queue, net, overtaken>>
  BY DEF Receive, WaitTimeout, Subscribe, state
<1>4. \E p \in {"accepting", "answered", "failed"} :
        /\ pc' = [pc EXCEPT ![c] = p]
        /\ p # "failed" => slot[c] # None
        /\ p = "accepting" => c \in Subscribers \ refused
  BY DEF Receive, WaitTimeout, Subscribe, Go, Placed, CallsPlaced
<1> QED
  BY <1>1, <1>2, <1>3, <1>4, LateStep

LEMMA StartPlaced ==
  ASSUME Placed, NEW c \in Calls, Start(c)
  PROVE  Placed'
<1> DEFINE s0 == session[c]
           i == nextId[s0]
<1>1. /\ s0 \in Sessions /\ s0 # 0 /\ i \in Nat \ {0} /\ id[c] = 0 /\ served[c] = 0 /\ slot[c] = None
      /\ \A d \in Calls : session[d] = s0 => id[d] < i
  <2>1. s0 \in Sessions /\ s0 # 0 /\ id[c] = 0 /\ served[c] = 0 /\ slot[c] = None
    BY SessionOf DEF Start, Placed, CallsPlaced, Early
  <2>2. i \in Nat \ {0} /\ \A d \in Calls : id[d] \in Nat
    BY <2>1 DEF Placed, TypeOK
  <2> QED
    BY <2>1, <2>2 DEF Placed, CallsPlaced
<1>2. \A e \in reqs[s0] : e[1] # i
  BY <1>1, Contents DEF Placed, EntriesPlaced
<1>3. /\ pc[c] = "starting" /\ session' = session /\ slot' = slot
      /\ served' = served /\ refused' = refused /\ queue' = queue /\ subs' = subs
      /\ link' = link /\ asked' = asked /\ incoming' = incoming /\ known' = known
      /\ overtaken' = overtaken /\ created' = created /\ cache' = cache /\ endpoint' = endpoint
      /\ connects' = connects
  BY DEF Start, prover, net
<1>4. /\ pc'[c] = "sending" /\ id'[c] = i
      /\ \A d \in Calls : d # c => pc'[d] = pc[d] /\ id'[d] = id[d]
      /\ nextId'[s0] = i + 1 /\ \A s \in Sessions : s # s0 => nextId'[s] = nextId[s]
      /\ pc' \in [Calls -> Steps] /\ id' \in [Calls -> Nat] /\ nextId' \in [Sessions -> Nat \ {0}]
  BY <1>1 DEF Start, Go, Placed, TypeOK, Steps
<1>5. /\ reqs'[s0] = reqs[s0] \cup {<<i, c>>}
      /\ \A s \in Sessions : s # s0 => reqs'[s] = reqs[s]
      /\ reqs' \in [Sessions -> SUBSET (Nat \X Calls)]
  <2>1. {e \in reqs[s0] : e[1] # i} = reqs[s0]
    BY <1>2
  <2> QED
    BY <1>1, <2>1 DEF Start, Placed, TypeOK
<1>6. \A s \in Sessions : /\ \A e \in reqs[s] : e[2] \in Calls \ {c}
                          /\ \A m \in Unserved(s) \cup In(incoming[s]) : m.of \in Calls \ {c}
  <2> TAKE s \in Sessions
  <2>1. \A e \in reqs[s] : e[2] \in Calls /\ pc[e[2]] \in {"sending", "waiting", "failed"}
    BY Contents DEF Placed, EntriesPlaced
  <2>2. \A m \in Unserved(s) \cup In(incoming[s]) : m.of \in Calls /\ pc[m.of] \notin Early
    BY Contents DEF Placed, MailPlaced
  <2> QED
    BY <1>3, <2>1, <2>2 DEF Early
<1>7. TypeOK'
  BY <1>3, <1>4, <1>5 DEF Placed, TypeOK
<1>8. SessionsSuffice'
  <2>1. Fresh' \subseteq Fresh
    BY <1>4 DEF Fresh
  <2> QED
    BY <1>3, <2>1, FreshKept
<1>9. CallsPlaced'
  <2> SUFFICES ASSUME NEW d \in Calls PROVE CallsPlaced!(d)'
    BY DEF CallsPlaced
  <2>1. id[d] \in Nat /\ (session[d] # 0 => session[d] \in Sessions)
        /\ (\A s \in Sessions : nextId[s] \in Nat /\ nextId'[s] \in {nextId[s], nextId[s] + 1})
    BY <1>4, SessionOf DEF Placed, TypeOK
  <2>2. CASE d = c
    BY <1>1, <1>3, <1>4, <2>2 DEF Early
  <2>3. CASE d # c
    BY <1>3, <1>4, <2>1, <2>3 DEF Placed, CallsPlaced, Early
  <2> QED
    BY <2>2, <2>3
<1>10. IdsDiffer'
  BY <1>1, <1>3, <1>4 DEF Placed, IdsDiffer
<1>11. EntriesPlaced'
  <2>1. ASSUME NEW s \in Sessions, NEW e \in reqs'[s]
        PROVE  /\ session'[e[2]] = s /\ id'[e[2]] = e[1] /\ slot'[e[2]] = None
               /\ pc'[e[2]] \in {"sending", "waiting", "failed"}
    <3>1. CASE e \in reqs[s]
      BY <1>3, <1>4, <1>6, <3>1 DEF Placed, EntriesPlaced
    <3>2. CASE s = s0 /\ e = <<i, c>>
      BY <1>1, <1>3, <1>4, <3>2
    <3> QED
      BY <1>5, <3>1, <3>2
  <2>2. ASSUME NEW d \in Calls, pc'[d] = "sending"
        PROVE  <<id'[d], d>> \in reqs'[session'[d]]
    <3>1. CASE d = c
      BY <1>3, <1>4, <1>5, <3>1
    <3>2. CASE d # c
      <4>1. id[d] # 0 /\ session[d] # 0 /\ <<id[d], d>> \in reqs[session[d]]
        BY <1>4, <2>2, <3>2 DEF Placed, CallsPlaced, EntriesPlaced
      <4>2. session[d] \in Sessions
        BY <4>1, SessionOf
      <4> QED
        BY <1>3, <1>4, <1>5, <3>2, <4>1, <4>2
    <3> QED
      BY <3>1, <3>2
  <2> QED
    BY <2>1, <2>2 DEF EntriesPlaced
<1>12. MailPlaced'
  <2>1. \A s \in Sessions : reqs[s] \subseteq reqs'[s]
    BY <1>5
  <2> QED
    BY <1>3, <1>4, <1>6, <2>1 DEF Placed, MailPlaced, Unserved
<1>13. AnswersAreKnown' /\ SubscribersAreKnown'
  BY <1>1, <1>3, <1>4, CallsAssumption DEF Placed, AnswersAreKnown, SubscribersAreKnown, Calls
<1> QED
  BY <1>7, <1>8, <1>9, <1>10, <1>11, <1>12, <1>13 DEF Placed

LEMMA EnqueuePlaced ==
  ASSUME Placed, NEW c \in Calls, Enqueue(c)
  PROVE  Placed'
<1> DEFINE s0 == session[c]
           m0 == [id |-> id[c], of |-> c]
<1>1. /\ s0 \in Sessions /\ s0 # 0 /\ id[c] # 0 /\ served[c] = 0 /\ slot[c] = None
      /\ <<id[c], c>> \in reqs[s0] /\ m0 \in Message
  <2>1. s0 # 0 /\ id[c] # 0 /\ served[c] = 0 /\ slot[c] = None /\ <<id[c], c>> \in reqs[s0]
    BY DEF Enqueue, Placed, CallsPlaced, EntriesPlaced, Early
  <2> QED
    BY <2>1, SessionOf DEF Placed, TypeOK, Message
<1>2. /\ pc[c] = "sending" /\ session' = session /\ slot' = slot /\ id' = id /\ reqs' = reqs
      /\ served' = served /\ refused' = refused /\ nextId' = nextId /\ subs' = subs
      /\ link' = link /\ asked' = asked /\ incoming' = incoming /\ known' = known
      /\ overtaken' = overtaken /\ created' = created /\ cache' = cache /\ endpoint' = endpoint
      /\ connects' = connects
  BY DEF Enqueue, prover, net
<1>3. /\ pc'[c] = "waiting" /\ \A d \in Calls : d # c => pc'[d] = pc[d]
      /\ pc' \in [Calls -> Steps]
  BY DEF Enqueue, Go, Placed, TypeOK, Steps
<1>4. \A s \in Sessions : \A m \in Unserved(s) \cup In(incoming[s]) : m.of \in Calls \ {c}
  <2> TAKE s \in Sessions
  <2>1. \A m \in Unserved(s) \cup In(incoming[s]) : m.of \in Calls /\ pc[m.of] \notin Early
    BY Contents DEF Placed, MailPlaced
  <2> QED
    BY <1>2, <2>1 DEF Early
<1>5. /\ queue'[s0] \in Seq(Message) /\ In(queue'[s0]) = In(queue[s0]) \cup {m0}
      /\ Distinct(queue'[s0])
      /\ queue' = [queue EXCEPT ![s0] = queue'[s0]]
  <2>1. queue[s0] \in Seq(Message) /\ Distinct(queue[s0]) /\ queue \in [Sessions -> Seq(Message)]
    BY <1>1 DEF Placed, TypeOK, MailPlaced
  <2>2. \A n \in In(queue[s0]) : n.of # m0.of
    BY <1>1, <1>4 DEF Unserved
  <2>3. queue' = [queue EXCEPT ![s0] = Append(queue[s0], m0)]
    BY DEF Enqueue
  <2>4. queue'[s0] = Append(queue[s0], m0)
    BY <1>1, <2>1, <2>3
  <2> QED
    BY <1>1, <2>1, <2>2, <2>3, <2>4, Appended
<1>6. /\ \A s \in Sessions : s # s0 => queue'[s] = queue[s]
      /\ queue' \in [Sessions -> Seq(Message)]
  BY <1>1, <1>5 DEF Placed, TypeOK
<1>7. TypeOK'
  BY <1>2, <1>3, <1>6 DEF Placed, TypeOK
<1>8. SessionsSuffice'
  <2>1. Fresh' \subseteq Fresh
    BY <1>3 DEF Fresh
  <2> QED
    BY <1>2, <2>1, FreshKept
<1>9. CallsPlaced' /\ IdsDiffer'
  BY <1>1, <1>2, <1>3 DEF Placed, CallsPlaced, IdsDiffer, Early
<1>10. EntriesPlaced'
  BY <1>2, <1>3, Contents DEF Placed, EntriesPlaced
<1>11. MailPlaced'
  <2> SUFFICES ASSUME NEW s \in Sessions PROVE MailPlaced!(s)'
    BY DEF MailPlaced
  <2>1. /\ Unserved(s)' \subseteq Unserved(s) \cup (IF s = s0 THEN {m0} ELSE {})
        /\ In(queue'[s]) \subseteq In(queue[s]) \cup (IF s = s0 THEN {m0} ELSE {})
        /\ Distinct(queue'[s])
    BY <1>2, <1>5, <1>6 DEF Unserved, Placed, MailPlaced
  <2>2. m0.of = c /\ m0.id = id[c]
    OBVIOUS
  <2> HIDE DEF m0
  <2>3. ASSUME NEW m \in Unserved(s)' \cup In(incoming[s])'
        PROVE  /\ session'[m.of] = s /\ id'[m.of] = m.id /\ m.id # 0 /\ pc'[m.of] \notin Early
               /\ pc'[m.of] = "waiting" => <<m.id, m.of>> \in reqs'[s]
    <3>1. CASE m \in Unserved(s) \cup In(incoming[s])
      BY <1>2, <1>3, <1>4, <3>1 DEF Placed, MailPlaced
    <3>2. CASE s = s0 /\ m = m0
      BY <1>1, <1>2, <1>3, <2>2, <3>2 DEF Early
    <3> QED
      BY <1>2, <2>1, <3>1, <3>2
  <2>4. \A m \in Unserved(s)' : served'[m.of] = 0
    BY <1>1, <1>2, <2>1, <2>2 DEF Placed, MailPlaced
  <2>5. \A m \in In(queue[s])', n \in asked'[s] : m.of # n.of
    <3>1. \A n \in asked[s] : n.of # c
      BY <1>4 DEF Unserved
    <3> QED
      BY <1>2, <2>1, <2>2, <3>1 DEF Placed, MailPlaced
  <2> QED
    BY <1>2, <2>1, <2>3, <2>4, <2>5 DEF Placed, MailPlaced
<1>12. AnswersAreKnown' /\ SubscribersAreKnown'
  BY <1>1, <1>2, <1>3, CallsAssumption DEF Placed, AnswersAreKnown, SubscribersAreKnown, Calls
<1> QED
  BY <1>7, <1>8, <1>9, <1>10, <1>11, <1>12 DEF Placed

LEMMA SendTimeoutPlaced ==
  ASSUME Placed, NEW c \in Calls, SendTimeout(c)
  PROVE  Placed'
<1> DEFINE s0 == session[c]
<1>1. s0 \in Sessions /\ id[c] # 0 /\ served[c] = 0 /\ slot[c] = None
  <2>1. s0 # 0 /\ id[c] # 0 /\ served[c] = 0 /\ slot[c] = None
    BY DEF SendTimeout, Placed, CallsPlaced, Early
  <2> QED
    BY <2>1, SessionOf
<1>2. /\ pc[c] = "sending" /\ session' = session /\ slot' = slot /\ id' = id /\ queue' = queue
      /\ served' = served /\ refused' = refused /\ nextId' = nextId /\ subs' = subs
      /\ link' = link /\ asked' = asked /\ incoming' = incoming /\ known' = known
      /\ overtaken' = overtaken /\ created' = created /\ cache' = cache /\ endpoint' = endpoint
      /\ connects' = connects
  BY DEF SendTimeout, prover, net
<1>3. /\ pc'[c] = "failed" /\ \A d \in Calls : d # c => pc'[d] = pc[d]
      /\ pc' \in [Calls -> Steps]
  BY DEF SendTimeout, Go, Placed, TypeOK, Steps
<1>4. /\ reqs' \in [Sessions -> SUBSET (Nat \X Calls)]
      /\ \A s \in Sessions : reqs'[s] \subseteq reqs[s] /\ reqs[s] \ {<<id[c], c>>} \subseteq reqs'[s]
  BY <1>1 DEF SendTimeout, Placed, TypeOK
<1>5. \A s \in Sessions : \A m \in Unserved(s) \cup In(incoming[s]) : m.of \in Calls \ {c}
  <2> TAKE s \in Sessions
  <2>1. \A m \in Unserved(s) \cup In(incoming[s]) : m.of \in Calls /\ pc[m.of] \notin Early
    BY Contents DEF Placed, MailPlaced
  <2> QED
    BY <1>2, <2>1 DEF Early
<1>6. \A s \in Sessions, d \in Calls, j \in Nat :
        d # c /\ <<j, d>> \in reqs[s] => <<j, d>> \in reqs'[s]
  BY <1>4
<1>7. TypeOK'
  BY <1>2, <1>3, <1>4 DEF Placed, TypeOK
<1>8. SessionsSuffice'
  <2>1. Fresh' \subseteq Fresh
    BY <1>3 DEF Fresh
  <2> QED
    BY <1>2, <2>1, FreshKept
<1>9. CallsPlaced' /\ IdsDiffer'
  BY <1>1, <1>2, <1>3 DEF Placed, CallsPlaced, IdsDiffer, Early
<1>10. EntriesPlaced'
  <2>1. ASSUME NEW s \in Sessions, NEW e \in reqs'[s]
        PROVE  /\ session'[e[2]] = s /\ id'[e[2]] = e[1] /\ slot'[e[2]] = None
               /\ pc'[e[2]] \in {"sending", "waiting", "failed"}
    BY <1>2, <1>3, <1>4, Contents DEF Placed, EntriesPlaced
  <2>2. ASSUME NEW d \in Calls, pc'[d] = "sending"
        PROVE  <<id'[d], d>> \in reqs'[session'[d]]
    <3>1. d # c /\ id[d] # 0 /\ session[d] # 0 /\ <<id[d], d>> \in reqs[session[d]]
      BY <1>3, <2>2 DEF Placed, CallsPlaced, EntriesPlaced
    <3>2. session[d] \in Sessions /\ id[d] \in Nat
      BY <3>1, SessionOf DEF Placed, TypeOK
    <3> QED
      BY <1>2, <1>6, <3>1, <3>2
  <2> QED
    BY <2>1, <2>2 DEF EntriesPlaced
<1>11. MailPlaced'
  BY <1>2, <1>3, <1>5, <1>6, Contents DEF Placed, MailPlaced, Unserved
<1>12. AnswersAreKnown' /\ SubscribersAreKnown'
  BY <1>1, <1>2, <1>3, CallsAssumption DEF Placed, AnswersAreKnown, SubscribersAreKnown, Calls
<1> QED
  BY <1>7, <1>8, <1>9, <1>10, <1>11, <1>12 DEF Placed

-----------------------------------------------------------------------------
(* The steps of a connector and of the prover. *)

LEMMA ConnectPlaced ==
  ASSUME Placed, NEW s \in Sessions, Connect(s)
  PROVE  Placed'
<1>1. /\ pc' = pc /\ session' = session /\ id' = id /\ slot' = slot /\ reqs' = reqs
      /\ queue' = queue /\ served' = served /\ refused' = refused
      /\ asked' = asked /\ incoming' = incoming /\ known' = known
      /\ created' = created /\ cache' = cache /\ endpoint' = endpoint
      /\ overtaken' = overtaken \cup Overtaken(s)
  BY DEF Connect, prover, tasks
<1>2. /\ link' \in [Sessions -> {"down", "up", "gone"}] /\ connects' \in [Sessions -> Nat]
      /\ nextId' \in [Sessions -> Nat \ {0}] /\ subs' \in [Sessions -> SUBSET Subscribers]
      /\ \A t \in Sessions : /\ t # s => link'[t] = link[t] /\ subs'[t] = subs[t]
                             /\ nextId'[t] \in {nextId[t], nextId[t] + 1} /\ nextId[t] \in Nat
      /\ subs'[s] = {}
  BY DEF Connect, Placed, TypeOK
<1>3. TypeOK'
  <2>1. overtaken' \subseteq Subscribers
    BY <1>1 DEF Placed, TypeOK, Overtaken
  <2> QED
    BY <1>1, <1>2, <2>1 DEF Placed, TypeOK
<1>4. SessionsSuffice'
  <2>1. Fresh' \subseteq Fresh
    BY <1>1 DEF Fresh
  <2> QED
    BY <1>1, <2>1, FreshKept
<1>5. CallsPlaced'
  <2> SUFFICES ASSUME NEW d \in Calls PROVE CallsPlaced!(d)'
    BY DEF CallsPlaced
  <2>1. id[d] \in Nat /\ (session[d] # 0 => session[d] \in Sessions)
    BY SessionOf DEF Placed, TypeOK
  <2> QED
    BY <1>1, <1>2, <2>1 DEF Placed, CallsPlaced, Early
<1>6. IdsDiffer' /\ EntriesPlaced' /\ MailPlaced'
  BY <1>1 DEF Placed, IdsDiffer, EntriesPlaced, MailPlaced, Unserved
<1>7. AnswersAreKnown'
  BY <1>1, <1>2 DEF Placed, AnswersAreKnown, Overtaken
<1>8. SubscribersAreKnown'
  BY <1>1, <1>2 DEF Placed, SubscribersAreKnown
<1> QED
  BY <1>3, <1>4, <1>5, <1>6, <1>7, <1>8 DEF Placed

LEMMA SendOutPlaced ==
  ASSUME Placed, NEW s \in Sessions, SendOut(s)
  PROVE  Placed'
<1> DEFINE m0 == Head(queue[s])
<1>1. /\ pc' = pc /\ session' = session /\ id' = id /\ slot' = slot /\ reqs' = reqs /\ subs' = subs
      /\ served' = served /\ refused' = refused /\ nextId' = nextId
      /\ link' = link /\ connects' = connects /\ incoming' = incoming /\ known' = known
      /\ created' = created /\ cache' = cache /\ endpoint' = endpoint /\ overtaken' = overtaken
      /\ queue[s] # <<>>
  BY DEF SendOut, prover, tasks
<1>2. queue[s] \in Seq(Message) /\ Distinct(queue[s])
  BY DEF Placed, TypeOK, MailPlaced
<1>3. /\ Tail(queue[s]) \in Seq(Message) /\ m0 \in Message
      /\ m0 \in In(queue[s]) /\ In(Tail(queue[s])) \subseteq In(queue[s])
      /\ Distinct(Tail(queue[s])) /\ \A n \in In(Tail(queue[s])) : n.of # m0.of
  BY <1>1, <1>2, Taken
<1>4. queue'[s] = Tail(queue[s]) /\ \A t \in Sessions : t # s => queue'[t] = queue[t]
  BY DEF SendOut, Placed, TypeOK
<1>5. asked'[s] = asked[s] \cup {m0} /\ \A t \in Sessions : t # s => asked'[t] = asked[t]
  BY DEF SendOut, Placed, TypeOK
<1>6. TypeOK'
  <2>1. queue' \in [Sessions -> Seq(Message)] /\ asked' \in [Sessions -> SUBSET Message]
    BY <1>3 DEF SendOut, Placed, TypeOK
  <2> QED
    BY <1>1, <2>1 DEF Placed, TypeOK
<1> HIDE DEF m0
<1>7. SessionsSuffice' /\ CallsPlaced' /\ IdsDiffer' /\ EntriesPlaced'
  <2>1. Fresh' = Fresh
    BY <1>1 DEF Fresh
  <2> QED
    BY <1>1, <2>1 DEF Placed, SessionsSuffice, CallsPlaced, IdsDiffer, EntriesPlaced
<1>8. MailPlaced'
  <2> SUFFICES ASSUME NEW t \in Sessions PROVE MailPlaced!(t)'
    BY DEF MailPlaced
  <2>1. CASE t # s
    BY <1>1, <1>4, <1>5, <2>1 DEF Placed, MailPlaced, Unserved
  <2>2. CASE t = s
    <3>1. Unserved(s)' \subseteq Unserved(s)
      BY <1>3, <1>4, <1>5 DEF Unserved
    <3>2. \A m \in In(queue[s])', n \in asked'[s] : m.of # n.of
      BY <1>3, <1>4, <1>5 DEF Placed, MailPlaced
    <3> QED
      BY <1>1, <1>3, <1>4, <2>2, <3>1, <3>2 DEF Placed, MailPlaced
  <2> QED
    BY <2>1, <2>2
<1>9. AnswersAreKnown' /\ SubscribersAreKnown'
  BY <1>1 DEF Placed, AnswersAreKnown, SubscribersAreKnown
<1> QED
  BY <1>6, <1>7, <1>8, <1>9 DEF Placed

(* A connection that ends, however it does. *)
LEMMA LinkLost ==
  ASSUME Placed, NEW s \in Sessions, SendFails(s) \/ Break(s) \/ Return(s)
  PROVE  Placed'
<1>1. /\ pc' = pc /\ session' = session /\ id' = id /\ slot' = slot /\ reqs' = reqs
      /\ served' = served /\ refused' = refused /\ nextId' = nextId /\ connects' = connects
      /\ created' = created /\ cache' = cache /\ endpoint' = endpoint /\ overtaken' = overtaken
  BY DEF SendFails, Break, Return, Disconnected, prover, tasks, state
<1>2. /\ queue'[s] \in Seq(Message) /\ Distinct(queue'[s]) /\ In(queue'[s]) \subseteq In(queue[s])
      /\ queue' = [queue EXCEPT ![s] = queue'[s]]
  <2>1. queue[s] \in Seq(Message) /\ Distinct(queue[s]) /\ queue \in [Sessions -> Seq(Message)]
    BY DEF Placed, TypeOK, MailPlaced
  <2>2. CASE SendFails(s)
    <3>1. queue[s] # <<>> /\ queue' = [queue EXCEPT ![s] = Tail(queue[s])]
      BY <2>2 DEF SendFails
    <3>2. queue'[s] = Tail(queue[s])
      BY <2>1, <3>1
    <3> QED
      BY <2>1, <3>1, <3>2, Taken
  <2>3. CASE Break(s) \/ Return(s)
    BY <2>1, <2>3 DEF Break, Return, state
  <2> QED
    BY <2>2, <2>3
<1>3. /\ queue' \in [Sessions -> Seq(Message)]
      /\ \A t \in Sessions : t # s => queue'[t] = queue[t]
  BY <1>2 DEF Placed, TypeOK
<1>4. /\ link' \in [Sessions -> {"down", "up", "gone"}] /\ link'[s] # "up"
      /\ asked' = [asked EXCEPT ![s] = {}] /\ incoming' = [incoming EXCEPT ![s] = <<>>]
      /\ known' = [known EXCEPT ![s] = {}]
      /\ \A t \in Sessions : t # s => link'[t] = link[t]
  BY DEF SendFails, Break, Return, Disconnected, Placed, TypeOK
<1>5. /\ asked'[s] = {} /\ incoming'[s] = <<>> /\ known'[s] = {}
      /\ \A t \in Sessions :
            t # s => asked'[t] = asked[t] /\ incoming'[t] = incoming[t] /\ known'[t] = known[t]
      /\ asked' \in [Sessions -> SUBSET Message] /\ known' \in [Sessions -> SUBSET Subscribers]
      /\ incoming' \in [Sessions -> Seq(Message)]
  BY <1>4, Emptied DEF Placed, TypeOK
<1>6. /\ subs' \in [Sessions -> SUBSET Subscribers]
      /\ \A t \in Sessions : subs'[t] \subseteq subs[t]
  BY DEF SendFails, Break, Return, Disconnected, Placed, TypeOK, state
<1>7. TypeOK'
  BY <1>1, <1>3, <1>4, <1>5, <1>6 DEF Placed, TypeOK
<1>8. SessionsSuffice' /\ CallsPlaced' /\ IdsDiffer' /\ EntriesPlaced'
  <2>1. Fresh' = Fresh
    BY <1>1 DEF Fresh
  <2> QED
    BY <1>1, <2>1 DEF Placed, SessionsSuffice, CallsPlaced, IdsDiffer, EntriesPlaced
<1>9. MailPlaced'
  <2> SUFFICES ASSUME NEW t \in Sessions PROVE MailPlaced!(t)'
    BY DEF MailPlaced
  <2>1. CASE t # s
    <3>1. /\ queue'[t] = queue[t] /\ asked'[t] = asked[t] /\ incoming'[t] = incoming[t]
          /\ known'[t] = known[t] /\ Unserved(t)' = Unserved(t)
      BY <1>3, <1>5, <2>1 DEF Unserved
    <3> QED
      BY <1>1, <3>1 DEF Placed, MailPlaced
  <2>2. CASE t = s
    <3>1. Unserved(s)' \subseteq Unserved(s)
      BY <1>2, <1>5 DEF Unserved
    <3>2. In(incoming[s])' = {} /\ Distinct(incoming[s])'
      BY <1>5, Emptied
    <3> QED
      BY <1>1, <1>2, <1>5, <2>2, <3>1, <3>2 DEF Placed, MailPlaced
  <2> QED
    BY <2>1, <2>2
<1>10. AnswersAreKnown' /\ SubscribersAreKnown'
  BY <1>1, <1>4, <1>5, <1>6 DEF Placed, AnswersAreKnown, SubscribersAreKnown
<1> QED
  BY <1>7, <1>8, <1>9, <1>10 DEF Placed

LEMMA DeliverPlaced ==
  ASSUME Placed, NEW s \in Sessions, Deliver(s)
  PROVE  Placed'
<1> DEFINE m0 == Head(incoming[s])
<1>1. /\ pc' = pc /\ session' = session /\ id' = id /\ queue' = queue /\ subs' = subs
      /\ served' = served /\ refused' = refused /\ nextId' = nextId
      /\ link' = link /\ connects' = connects /\ asked' = asked /\ known' = known
      /\ created' = created /\ cache' = cache /\ endpoint' = endpoint /\ overtaken' = overtaken
      /\ incoming[s] # <<>> /\ link[s] = "up"
  BY DEF Deliver, prover, tasks
<1>2. incoming[s] \in Seq(Message) /\ Distinct(incoming[s])
  BY DEF Placed, TypeOK, MailPlaced
<1>3. /\ Tail(incoming[s]) \in Seq(Message) /\ m0 \in Message
      /\ m0 \in In(incoming[s]) /\ In(Tail(incoming[s])) \subseteq In(incoming[s])
      /\ Distinct(Tail(incoming[s])) /\ \A n \in In(Tail(incoming[s])) : n.of # m0.of
  BY <1>1, <1>2, Taken
<1>4. incoming'[s] = Tail(incoming[s]) /\ \A t \in Sessions : t # s => incoming'[t] = incoming[t]
  BY DEF Deliver, Placed, TypeOK
<1>5. /\ m0.of \in Calls /\ m0.id \in Nat
      /\ session[m0.of] = s /\ id[m0.of] = m0.id /\ m0.id # 0 /\ pc[m0.of] \notin Early /\ served[m0.of] = 1
      /\ m0.of \in Subscribers => m0.of \in refused \cup known[s]
      /\ pc[m0.of] = "waiting" => <<m0.id, m0.of>> \in reqs[s]
  BY <1>3 DEF Placed, MailPlaced, Message
(* The channel under the id is that of the call the answer is for. *)
<1>6. \A e \in reqs[s] : e[1] = m0.id => e[2] = m0.of
  <2> SUFFICES ASSUME NEW e \in reqs[s], e[1] = m0.id PROVE e[2] = m0.of
    OBVIOUS
  <2>1. e[2] \in Calls /\ session[e[2]] = s /\ id[e[2]] = m0.id
    BY Contents DEF Placed, EntriesPlaced
  <2> QED
    BY <1>5, <2>1 DEF Placed, IdsDiffer
<1>7. \A c \in Calls : /\ slot'[c] = slot[c] \/ (c = m0.of /\ slot'[c] = c)
                       /\ c # m0.of => slot'[c] = slot[c]
                       /\ pc[c] = "accepting" => slot'[c] # None
  <2> TAKE c \in Calls
  <2>1. slot'[c] = IF <<m0.id, c>> \in reqs[s] /\ pc[c] \notin Ended THEN m0.of ELSE slot[c]
    BY DEF Deliver
  <2>2. <<m0.id, c>> \in reqs[s] => c = m0.of /\ slot[c] = None
    BY <1>6, Contents DEF Placed, EntriesPlaced
  <2> QED
    BY <2>1, <2>2 DEF Placed, CallsPlaced
<1>8. /\ reqs' \in [Sessions -> SUBSET (Nat \X Calls)]
      /\ \A t \in Sessions : reqs'[t] \subseteq reqs[t]
      /\ \A t \in Sessions : t # s => reqs'[t] = reqs[t]
      /\ \A e \in reqs[s] : e[1] # m0.id => e \in reqs'[s]
      /\ \A e \in reqs'[s] : e[1] # m0.id
  BY <1>5 DEF Deliver, Placed, TypeOK, Entries
<1> HIDE DEF m0
<1>9. TypeOK'
  <2>1. incoming' \in [Sessions -> Seq(Message)]
    BY <1>3 DEF Deliver, Placed, TypeOK
  <2>2. slot' \in [Calls -> Calls \cup {None}]
    BY <1>5, <1>7 DEF Deliver, Placed, TypeOK
  <2> QED
    BY <1>1, <1>8, <2>1, <2>2 DEF Placed, TypeOK
<1>10. SessionsSuffice' /\ IdsDiffer'
  <2>1. Fresh' = Fresh
    BY <1>1 DEF Fresh
  <2> QED
    BY <1>1, <2>1 DEF Placed, SessionsSuffice, IdsDiffer
<1>11. CallsPlaced'
  BY <1>1, <1>5, <1>7 DEF Placed, CallsPlaced, Early
(* The entry of the call that is answered is gone. *)
<1>12. \A t \in Sessions : \A e \in reqs'[t] :
          e[2] \in Calls \ {m0.of} /\ e \in reqs[t] /\ slot'[e[2]] = slot[e[2]]
  <2> TAKE t \in Sessions
  <2> TAKE e \in reqs'[t]
  <2>1. e \in reqs[t] /\ e[2] \in Calls /\ session[e[2]] = t /\ id[e[2]] = e[1]
    BY <1>8, Contents DEF Placed, EntriesPlaced
  <2>2. e[2] # m0.of
    BY <1>5, <1>8, <2>1
  <2> QED
    BY <1>7, <2>1, <2>2
<1>13. EntriesPlaced'
  <2>1. ASSUME NEW d \in Calls, pc'[d] = "sending"
        PROVE  <<id'[d], d>> \in reqs'[session'[d]]
    <3>1. d # m0.of /\ id[d] # 0 /\ session[d] # 0 /\ <<id[d], d>> \in reqs[session[d]]
      BY <1>1, <1>5, <2>1 DEF Placed, CallsPlaced, EntriesPlaced, Early
    <3>2. session[d] \in Sessions
      BY <3>1, SessionOf
    <3>3. session[d] = s => id[d] # m0.id
      BY <1>5, <3>1 DEF Placed, IdsDiffer
    <3> QED
      BY <1>1, <1>8, <3>1, <3>2, <3>3
  <2>2. \A t \in Sessions : \A e \in reqs'[t] :
          /\ session[e[2]] = t /\ id[e[2]] = e[1] /\ slot[e[2]] = None
          /\ pc[e[2]] \in {"sending", "waiting", "failed"}
    BY <1>12 DEF Placed, EntriesPlaced
  <2>3. \A t \in Sessions : \A e \in reqs'[t] :
          /\ session'[e[2]] = t /\ id'[e[2]] = e[1] /\ slot'[e[2]] = None
          /\ pc'[e[2]] \in {"sending", "waiting", "failed"}
    BY <1>1, <1>12, <2>2
  <2> QED
    BY <2>1, <2>3 DEF EntriesPlaced
<1>14. MailPlaced'
  <2> SUFFICES ASSUME NEW t \in Sessions PROVE MailPlaced!(t)'
    BY DEF MailPlaced
  <2>1. CASE t # s
    BY <1>1, <1>4, <1>8, <2>1 DEF Placed, MailPlaced, Unserved
  <2>2. CASE t = s
    <3>1. In(incoming[s])' \subseteq In(incoming[s]) /\ Distinct(incoming[s])'
          /\ \A n \in In(incoming[s])' : n.of # m0.of
      BY <1>3, <1>4
    <3>2. Unserved(s)' = Unserved(s) /\ \A n \in Unserved(s) : n.of # m0.of
      BY <1>1, <1>5 DEF Unserved, Placed, MailPlaced
    <3>3. ASSUME NEW m \in Unserved(s)' \cup In(incoming[s])'
          PROVE  /\ session'[m.of] = s /\ id'[m.of] = m.id /\ m.id # 0 /\ pc'[m.of] \notin Early
                 /\ pc'[m.of] = "waiting" => <<m.id, m.of>> \in reqs'[s]
      <4>1. /\ m \in Unserved(s) \cup In(incoming[s]) /\ m.of # m0.of
        BY <3>1, <3>2
      <4>2. m.of \in Calls /\ m \in Message
        BY <4>1, Contents
      <4>3. /\ session[m.of] = s /\ id[m.of] = m.id /\ m.id # 0 /\ pc[m.of] \notin Early
            /\ pc[m.of] = "waiting" => <<m.id, m.of>> \in reqs[s]
        BY <4>1 DEF Placed, MailPlaced
      <4>4. m.id # m0.id
        BY <1>5, <4>1, <4>2, <4>3 DEF Placed, IdsDiffer
      <4> QED
        BY <1>1, <1>8, <4>3, <4>4
    <3> QED
      BY <1>1, <2>2, <3>1, <3>2, <3>3 DEF Placed, MailPlaced
  <2> QED
    BY <2>1, <2>2
<1>15. AnswersAreKnown' /\ SubscribersAreKnown'
  <2>1. ASSUME NEW c \in Subscribers, slot'[c] # None, c \notin refused', pc'[c] \in {"waiting", "accepting"}
        PROVE  session'[c] \in Sessions /\ (link'[session'[c]] = "up" => c \in known'[session'[c]] \cup overtaken')
    <3>1. CASE slot[c] # None
      BY <1>1, <2>1, <3>1 DEF Placed, AnswersAreKnown
    <3>2. CASE c = m0.of
      BY <1>1, <1>5, <2>1, <3>2
    <3> QED
      BY <1>7, <2>1, <3>1, <3>2 DEF Calls
  <2> QED
    BY <1>1, <2>1 DEF Placed, AnswersAreKnown, SubscribersAreKnown
<1> QED
  BY <1>9, <1>10, <1>11, <1>13, <1>14, <1>15 DEF Placed

LEMMA ServePlaced ==
  ASSUME Placed, NEW s \in Sessions, NEW m0 \in asked[s], Serve(s, m0)
  PROVE  Placed'
<1> DEFINE c0 == m0.of
<1>1. /\ pc' = pc /\ session' = session /\ id' = id /\ queue' = queue /\ subs' = subs
      /\ slot' = slot /\ nextId' = nextId /\ reqs' = reqs /\ link' = link /\ connects' = connects
      /\ created' = created /\ cache' = cache /\ endpoint' = endpoint /\ overtaken' = overtaken
  BY DEF Serve, state, tasks
<1>2. /\ m0 \in Message /\ c0 \in Calls /\ m0.id \in Nat
      /\ session[c0] = s /\ id[c0] = m0.id /\ m0.id # 0 /\ pc[c0] \notin Early /\ served[c0] = 0
      /\ pc[c0] = "waiting" => <<m0.id, c0>> \in reqs[s]
      /\ slot[c0] = None
  <2>1. m0 \in Unserved(s)
    BY DEF Unserved
  <2>2. m0 \in Message /\ c0 \in Calls /\ m0.id \in Nat
    BY <2>1, Contents
  <2>3. /\ session[c0] = s /\ id[c0] = m0.id /\ m0.id # 0 /\ pc[c0] \notin Early /\ served[c0] = 0
        /\ pc[c0] = "waiting" => <<m0.id, c0>> \in reqs[s]
    BY <2>1 DEF Placed, MailPlaced
  <2> QED
    BY <2>2, <2>3 DEF Placed, CallsPlaced
<1>3. /\ served' \in [Calls -> Nat] /\ served'[c0] = 1
      /\ \A d \in Calls : d # c0 => served'[d] = served[d]
  BY <1>2 DEF Serve, Placed, TypeOK
<1>4. /\ refused' \subseteq Calls /\ refused \subseteq refused' /\ refused' \subseteq refused \cup {c0}
      /\ known' \in [Sessions -> SUBSET Subscribers]
      /\ \A t \in Sessions : known[t] \subseteq known'[t]
      /\ c0 \in Subscribers => c0 \in refused' \cup known'[s]
  <2>1. refused \subseteq Calls /\ known \in [Sessions -> SUBSET Subscribers]
    BY DEF Placed, TypeOK
  <2>2. CASE refused' = refused \cup {c0} /\ known' = known
    BY <1>2, <2>1, <2>2
  <2>3. CASE known' = [known EXCEPT ![s] = known[s] \cup ({c0} \cap Subscribers)] /\ refused' = refused
    <3>1. known'[s] = known[s] \cup ({c0} \cap Subscribers)
      BY <2>1, <2>3
    <3>2. \A t \in Sessions : t # s => known'[t] = known[t]
      BY <2>1, <2>3
    <3> QED
      BY <2>1, <2>3, <3>1, <3>2
  <2> QED
    BY <2>2, <2>3 DEF Serve
<1>5. /\ asked'[s] = asked[s] \ {m0} /\ \A t \in Sessions : t # s => asked'[t] = asked[t]
      /\ asked' \in [Sessions -> SUBSET Message]
  BY DEF Serve, Placed, TypeOK
(* No other message is of this call. *)
<1>6. \A t \in Sessions : \A m \in Unserved(t)' \cup In(incoming[t]) :
          m.of # c0 /\ m \in Unserved(t) \cup In(incoming[t])
  <2> TAKE t \in Sessions
  <2>1. ASSUME NEW m \in In(incoming[t]) PROVE m.of # c0
    BY <1>2, <2>1 DEF Placed, MailPlaced
  <2>2. ASSUME NEW m \in In(queue[t]) PROVE m.of # c0
    <3>1. session[m.of] = t
      BY <2>2 DEF Placed, MailPlaced, Unserved
    <3> QED
      BY <1>2, <3>1 DEF Placed, MailPlaced
  <2>3. ASSUME NEW m \in asked'[t] PROVE m.of # c0 /\ m \in asked[t]
    <3>1. m \in asked[t] /\ (m # m0 \/ t # s)
      BY <1>5
    <3>2. session[m.of] = t /\ id[m.of] = m.id /\ m \in Message
      BY <3>1, Contents DEF Placed, MailPlaced, Unserved
    <3>3. m.of = c0 => m = m0
      BY <1>2, <3>2 DEF Message
    <3> QED
      BY <1>2, <3>1, <3>2, <3>3
  <2> QED
    BY <1>1, <2>1, <2>2, <2>3 DEF Unserved
<1>7. /\ incoming'[s] \in Seq(Message) /\ In(incoming'[s]) = In(incoming[s]) \cup {m0}
      /\ Distinct(incoming'[s])
      /\ incoming' = [incoming EXCEPT ![s] = incoming'[s]]
  <2>1. /\ incoming[s] \in Seq(Message) /\ Distinct(incoming[s])
        /\ incoming \in [Sessions -> Seq(Message)]
    BY DEF Placed, TypeOK, MailPlaced
  <2>2. incoming' = [incoming EXCEPT ![s] = Append(incoming[s], m0)]
    BY DEF Serve
  <2>3. incoming'[s] = Append(incoming[s], m0)
    BY <2>1, <2>2
  <2> QED
    BY <1>2, <1>6, <2>1, <2>2, <2>3, Appended
<1>8. /\ \A t \in Sessions : t # s => incoming'[t] = incoming[t]
      /\ incoming' \in [Sessions -> Seq(Message)]
  BY <1>7 DEF Placed, TypeOK
<1> HIDE DEF c0
<1>9. TypeOK'
  BY <1>1, <1>3, <1>4, <1>5, <1>8 DEF Placed, TypeOK
<1>10. SessionsSuffice' /\ IdsDiffer' /\ EntriesPlaced'
  <2>1. Fresh' = Fresh
    BY <1>1 DEF Fresh
  <2> QED
    BY <1>1, <2>1 DEF Placed, SessionsSuffice, IdsDiffer, EntriesPlaced
<1>11. CallsPlaced'
  <2>1. pc[c0] # "accepting"
    BY <1>2 DEF Placed, CallsPlaced
  <2>2. \A c \in Calls : c \in refused' => c \in refused \/ c = c0
    BY <1>4
  <2> QED
    BY <1>1, <1>2, <1>3, <2>1, <2>2 DEF Placed, CallsPlaced, Early
<1>12. MailPlaced'
  <2> SUFFICES ASSUME NEW t \in Sessions PROVE MailPlaced!(t)'
    BY DEF MailPlaced
  <2>1. /\ \A m \in In(incoming[t])' : m \in In(incoming[t]) \/ (t = s /\ m = m0)
        /\ Distinct(incoming[t])'
    BY <1>7, <1>8 DEF Placed, MailPlaced
  <2>2. \A m \in Unserved(t) \cup In(incoming[t]) : m.of \in Calls
    BY Contents
  <2>3. ASSUME NEW m \in Unserved(t)' \cup In(incoming[t])'
        PROVE  /\ session'[m.of] = t /\ id'[m.of] = m.id /\ m.id # 0 /\ pc'[m.of] \notin Early
               /\ pc'[m.of] = "waiting" => <<m.id, m.of>> \in reqs'[t]
    <3>1. m \in Unserved(t) \cup In(incoming[t]) \/ (t = s /\ m = m0)
      BY <1>6, <2>1
    <3>2. CASE m \in Unserved(t) \cup In(incoming[t])
      BY <1>1, <3>2 DEF Placed, MailPlaced
    <3>3. CASE t = s /\ m = m0
      BY <1>1, <1>2, <3>3 DEF c0
    <3> QED
      BY <3>1, <3>2, <3>3
  <2>4. \A m \in Unserved(t)' : served'[m.of] = 0
    <3>1. \A m \in Unserved(t)' : m \in Unserved(t) /\ served'[m.of] = served[m.of]
      <4> SUFFICES ASSUME NEW m \in Unserved(t)' PROVE m \in Unserved(t) /\ served'[m.of] = served[m.of]
        OBVIOUS
      <4>1. m \in Unserved(t)
        BY <1>1, <1>5 DEF Unserved
      <4> QED
        BY <1>3, <1>6, <2>2, <4>1
    <3> QED
      BY <3>1 DEF Placed, MailPlaced
  <2>5. ASSUME NEW m \in In(incoming[t])'
        PROVE  /\ served'[m.of] = 1
               /\ m.of \in Subscribers => m.of \in refused' \cup known'[t]
    <3>1. CASE m \in In(incoming[t])
      <4>1. m.of \in Calls /\ m.of # c0
        BY <1>6, <2>2, <3>1
      <4> QED
        BY <1>3, <1>4, <3>1, <4>1 DEF Placed, MailPlaced
    <3>2. CASE t = s /\ m = m0
      BY <1>3, <1>4, <3>2 DEF c0
    <3> QED
      BY <2>1, <3>1, <3>2
  <2>6. \A m \in In(queue[t])', n \in asked'[t] : m.of # n.of
    <3>1. queue'[t] = queue[t] /\ asked'[t] \subseteq asked[t]
      BY <1>1, <1>5
    <3> QED
      BY <3>1 DEF Placed, MailPlaced
  <2> QED
    BY <1>1, <2>1, <2>3, <2>4, <2>5, <2>6 DEF Placed, MailPlaced
<1>13. AnswersAreKnown' /\ SubscribersAreKnown'
  <2>1. \A c \in Subscribers : c \notin refused' => c \notin refused
    BY <1>4
  <2> QED
    BY <1>1, <1>4, <2>1 DEF Placed, AnswersAreKnown, SubscribersAreKnown
<1> QED
  BY <1>9, <1>10, <1>11, <1>12, <1>13 DEF Placed

LEMMA PushFailsPlaced ==
  ASSUME Placed, NEW s \in Sessions, NEW u \in Subscribers, PushFails(s, u)
  PROVE  Placed'
<1>1. /\ pc' = pc /\ session' = session /\ id' = id /\ queue' = queue /\ slot' = slot
      /\ nextId' = nextId /\ reqs' = reqs /\ link' = link /\ connects' = connects
      /\ served' = served /\ refused' = refused /\ asked' = asked /\ incoming' = incoming
      /\ known' = known /\ created' = created /\ cache' = cache /\ endpoint' = endpoint
      /\ overtaken' = overtaken
  BY DEF PushFails, prover, tasks, net
<1>2. subs' \in [Sessions -> SUBSET Subscribers] /\ \A t \in Sessions : subs'[t] \subseteq subs[t]
  BY DEF PushFails, Placed, TypeOK
<1>3. Fresh' = Fresh
  BY <1>1 DEF Fresh
<1> QED
  BY <1>1, <1>2, <1>3 DEF Placed, TypeOK, SessionsSuffice, CallsPlaced, IdsDiffer, EntriesPlaced,
     MailPlaced, Unserved, AnswersAreKnown, SubscribersAreKnown

(* Steps that touch nothing the invariant is about. *)
LEMMA StutterPlaced ==
  ASSUME Placed, endpoint' \in BOOLEAN,
         UNCHANGED <<cache, created, tasks, slot, prover, state, net, overtaken>>
  PROVE  Placed'
<1>1. /\ pc' = pc /\ session' = session /\ id' = id /\ queue' = queue /\ slot' = slot
      /\ nextId' = nextId /\ reqs' = reqs /\ link' = link /\ connects' = connects
      /\ served' = served /\ refused' = refused /\ asked' = asked /\ incoming' = incoming
      /\ known' = known /\ created' = created /\ cache' = cache /\ subs' = subs
      /\ overtaken' = overtaken
  BY DEF prover, tasks, net, state
<1>2. Fresh' = Fresh
  BY <1>1 DEF Fresh
<1> QED
  BY <1>1, <1>2 DEF Placed, TypeOK, SessionsSuffice, CallsPlaced, IdsDiffer, EntriesPlaced,
     MailPlaced, Unserved, AnswersAreKnown, SubscribersAreKnown

-----------------------------------------------------------------------------
(* The records are right. *)

LEMMA InitPlaced == Init => Placed
<1> SUFFICES ASSUME Init PROVE Placed
  OBVIOUS
<1>1. 0 \in 0..Cardinality(Calls)
  BY CallsFinite
<1>2. TypeOK
  BY <1>1 DEF Init, TypeOK, Steps
<1>3. SessionsSuffice
  <2>1. Fresh = Calls
    BY DEF Init, Fresh
  <2> QED
    BY <2>1, CallsFinite DEF Init, SessionsSuffice
<1>4. CallsPlaced /\ IdsDiffer /\ AnswersAreKnown /\ SubscribersAreKnown
  BY CallsAssumption DEF Init, CallsPlaced, IdsDiffer, AnswersAreKnown, SubscribersAreKnown, Early, Calls
<1>5. EntriesPlaced
  BY DEF Init, EntriesPlaced
<1>6. MailPlaced
  BY Emptied DEF Init, MailPlaced, Unserved
<1> QED
  BY <1>2, <1>3, <1>4, <1>5, <1>6 DEF Placed

LEMMA StepPlaced == Placed /\ [Next]_vars => Placed'
<1> SUFFICES ASSUME Placed, [Next]_vars PROVE Placed'
  OBVIOUS
<1>1. ASSUME NEW c \in Calls, Lookup(c) \/ Task(c) PROVE Placed'
  BY <1>1, LookupPlaced, CreatePlaced, NoBrokerKeyPlaced, StartPlaced, EnqueuePlaced,
     SendTimeoutPlaced, WaitPlaced DEF Task
<1>2. ASSUME NEW s \in Sessions, Connector(s) PROVE Placed'
  BY <1>2, ConnectPlaced, SendOutPlaced, LinkLost, DeliverPlaced, PushFailsPlaced DEF Connector
<1>3. ASSUME NEW s \in Sessions, NEW m \in asked[s], Serve(s, m) PROVE Placed'
  BY <1>3, ServePlaced
<1>4. CASE SetEndpoint
  BY <1>4, StutterPlaced DEF SetEndpoint
<1>5. CASE UNCHANGED vars
  BY <1>5, StutterPlaced DEF vars, Placed, TypeOK
<1> QED
  BY <1>1, <1>2, <1>3, <1>4, <1>5 DEF Next

(* Channels and subscribers are filed where the answers and the orders     *)
(* that come belong: every channel in reqs is that of a call without an    *)
(* answer, a waiting caller's channel is found under its id when the       *)
(* answer comes, and a stored subscriber is one the prover knows on this   *)
(* connection, unless a connection was made in between.                    *)
THEOREM RecordsRight == Spec => []RecordsAreRight
<1>1. Spec => []Placed
  BY InitPlaced, StepPlaced, PTL DEF Spec
<1> QED
  BY <1>1, PlacedIsRight, PTL

-----------------------------------------------------------------------------
(* The relay implements Answers. *)

Outcome == [c \in Calls |-> CASE pc[c] = "answered" -> slot[c]
                              [] pc[c] = "failed" -> "failed"
                              [] OTHER -> "pending"]

(* A step of a task ends its call once, or is none of the ledger's. *)
LEMMA TaskEnds ==
  ASSUME Placed, NEW c \in Calls, Lookup(c) \/ Task(c)
  PROVE  Ledger!Answer(c) \/ Ledger!Fail(c) \/ UNCHANGED <<served, Outcome>>
<1>1. /\ served' = served /\ slot' = slot /\ \A d \in Calls : d # c => pc'[d] = pc[d]
      /\ pc[c] \notin Ended
  BY DEF Lookup, Task, Create, NoBrokerKey, Start, Enqueue, SendTimeout, Receive, WaitTimeout,
         Subscribe, Go, prover, Placed, TypeOK, Ended
<1>2. Outcome[c] = "pending"
  BY <1>1 DEF Outcome, Ended
<1>3. CASE pc'[c] = "answered"
  <2>1. slot[c] # None
    BY <1>3 DEF Lookup, Task, Create, NoBrokerKey, Start, Enqueue, SendTimeout, Receive, WaitTimeout,
                Subscribe, Go, Placed, TypeOK, CallsPlaced
  <2>2. slot[c] = c /\ served[c] = 1
    BY <2>1 DEF Placed, CallsPlaced
  <2>3. Outcome' = [Outcome EXCEPT ![c] = c]
    BY <1>1, <1>3, <2>2 DEF Outcome
  <2> QED
    BY <1>1, <1>2, <2>2, <2>3 DEF Ledger!Answer, Outcome
<1>4. CASE pc'[c] = "failed"
  <2>1. Outcome' = [Outcome EXCEPT ![c] = "failed"]
    BY <1>1, <1>4 DEF Outcome
  <2> QED
    BY <1>1, <1>2, <2>1 DEF Ledger!Fail, Outcome
<1>5. CASE pc'[c] \notin Ended
  <2>1. Outcome' = Outcome
    BY <1>1, <1>5 DEF Outcome, Ended
  <2> QED
    BY <1>1, <2>1
<1> QED
  BY <1>3, <1>4, <1>5 DEF Ended

(* An answer delivered to a channel ends no call by itself. *)
LEMMA ConnectorSilent ==
  ASSUME Placed, NEW s \in Sessions, Connector(s)
  PROVE  UNCHANGED <<served, Outcome>>
<1>1. pc' = pc /\ served' = served
  BY DEF Connector, Connect, SendOut, SendFails, Break, Deliver, Return, PushFails, tasks, prover
<1>2. \A c \in Calls : pc[c] = "answered" => slot'[c] = slot[c]
  <2>1. CASE Deliver(s)
    BY <2>1 DEF Deliver, Ended
  <2>2. CASE ~Deliver(s)
    BY <2>2 DEF Connector, Connect, SendOut, SendFails, Break, Return, PushFails
  <2> QED
    BY <2>1, <2>2
<1> QED
  BY <1>1, <1>2 DEF Outcome

(* The relay implements Answers: the prover works on a request at most     *)
(* once, a call ends at most once, and what it returns is a failure or the *)
(* answer to its own request, through queues, late answers, lost           *)
(* connections and sessions that replace each other.                       *)
THEOREM ImplementsAnswers == Spec => OwnAnswerOnce
<1>1. Init => Ledger!Init
  BY DEF Init, Ledger!Init
<1>2. ASSUME Placed, [Next]_vars PROVE [Ledger!Next]_(Ledger!vars)
  <2>1. ASSUME NEW c \in Calls, Lookup(c) \/ Task(c) PROVE [Ledger!Next]_(Ledger!vars)
    BY <1>2, <2>1, TaskEnds DEF Ledger!Next, Ledger!vars, Outcome
  <2>2. ASSUME NEW s \in Sessions, Connector(s) PROVE [Ledger!Next]_(Ledger!vars)
    BY <1>2, <2>2, ConnectorSilent DEF Ledger!vars, Outcome
  <2>3. ASSUME NEW s \in Sessions, NEW m \in asked[s], Serve(s, m) PROVE [Ledger!Next]_(Ledger!vars)
    <3>1. m \in Unserved(s)
      BY DEF Unserved
    <3>2. m.of \in Calls /\ served[m.of] = 0
      BY <1>2, <3>1, Contents DEF Placed, MailPlaced
    <3>3. served' = [served EXCEPT ![m.of] = 1] /\ pc' = pc /\ slot' = slot
      BY <2>3, <3>2 DEF Serve, tasks
    <3>4. Outcome' = Outcome
      BY <3>3 DEF Outcome
    <3>5. Ledger!Serve(m.of)
      BY <3>2, <3>3, <3>4 DEF Ledger!Serve, Outcome
    <3> QED
      BY <3>2, <3>5 DEF Ledger!Next
  <2>4. CASE SetEndpoint \/ UNCHANGED vars
    <3>1. pc' = pc /\ slot' = slot /\ served' = served
      BY <2>4 DEF SetEndpoint, vars, tasks, prover
    <3> QED
      BY <3>1 DEF Ledger!vars
  <2> QED
    BY <1>2, <2>1, <2>2, <2>3, <2>4 DEF Next
<1> QED
  BY <1>1, <1>2, InitPlaced, StepPlaced, PTL DEF Spec, OwnAnswerOnce, Ledger!Spec

-----------------------------------------------------------------------------
(* Agent: what there is, with the free balances f and the reserved ones r. *)
Both(f, r) == [u \in Users |-> f[u] + r[u]]
Total(f, r) == f[Pot] + SumTo(Both(f, r), NUsers)

LEMMA AgentConstants ==
  /\ NUsers \in Nat /\ MaxBlock \in Nat /\ InitFree \in [Users -> Nat]
  /\ Duration \in Nat \ {0} /\ Width \in Nat \ {0} /\ EpochWidth \in Nat \ {0, 1}
  /\ BrokerStakingThreshold \in Nat
  /\ Dominators \subseteq Users /\ External \subseteq Users
  /\ Fee \in Nat /\ MaxNonce \in Nat
  /\ Pot \in Accounts /\ Users \subseteq Accounts /\ Pot \notin Users /\ Accounts = Users \cup {Pot}
  /\ NoTerms \notin Terms
BY NativeAssumption, FoundationAssumption, MarketAssumption, AgentAssumption DEF Users, Accounts, Pot

LEMMA SupplyIsTotal == Supply = Total(free, reserved) /\ Supply' = Total(free', reserved')
BY DEF Supply, Total, Both

LEMMA TotalIsNatural ==
  ASSUME NEW f \in [Accounts -> Nat], NEW r \in [Users -> Nat]
  PROVE  Total(f, r) \in Nat /\ SumTo(Both(f, r), NUsers) \in Nat
         /\ Both(f, r) \in [1..NUsers -> Nat] /\ Both(f, r) \in [1..NUsers -> Int]
<1>1. Both(f, r) \in [1..NUsers -> Nat]
  BY AgentConstants DEF Both, Users
<1>2. SumTo(Both(f, r), NUsers) \in Nat
  BY <1>1, SumToNat, AgentConstants
<1>3. f[Pot] \in Nat
  BY AgentConstants
<1> QED
  BY <1>1, <1>2, <1>3 DEF Total

(* Nothing but one account's balances changes. *)
LEMMA TotalChanges ==
  ASSUME NEW f \in [Accounts -> Nat], NEW r \in [Users -> Nat],
         NEW g \in [Accounts -> Nat], NEW s \in [Users -> Nat],
         NEW a \in Users, g[Pot] = f[Pot],
         \A u \in Users : u # a => g[u] + s[u] = f[u] + r[u]
  PROVE  Total(g, s) = Total(f, r) + (g[a] + s[a]) - (f[a] + r[a])
<1>1. a \in 1..NUsers /\ NUsers \in Nat
  BY AgentConstants DEF Users
<1>2. \A j \in 1..NUsers : j # a => Both(g, s)[j] = Both(f, r)[j]
  BY DEF Both, Users
<1>3. Both(f, r) \in [1..NUsers -> Int] /\ Both(g, s) \in [1..NUsers -> Int]
  BY TotalIsNatural
<1>4. SumTo(Both(g, s), NUsers) = SumTo(Both(f, r), NUsers) + Both(g, s)[a] - Both(f, r)[a]
  BY <1>1, <1>2, <1>3, SumToChange
<1>5. Both(g, s)[a] = g[a] + s[a] /\ Both(f, r)[a] = f[a] + r[a]
  BY DEF Both
<1>6. SumTo(Both(g, s), NUsers) \in Nat /\ SumTo(Both(f, r), NUsers) \in Nat
  BY TotalIsNatural
<1>7. g[a] \in Nat /\ s[a] \in Nat /\ f[a] \in Nat /\ r[a] \in Nat /\ f[Pot] \in Nat
  BY AgentConstants
<1> QED
  BY <1>4, <1>5, <1>6, <1>7 DEF Total

(* A transfer, pointwise. *)
LEMMA MovedBalances ==
  ASSUME NEW f \in [Accounts -> Nat], NEW a \in Accounts, NEW b \in Accounts,
         NEW x \in Nat, f[a] >= x
  PROVE  /\ Moved(f, a, b, x) \in [Accounts -> Nat]
         /\ a = b => Moved(f, a, b, x) = f
         /\ a # b => /\ Moved(f, a, b, x)[a] = f[a] - x
                     /\ Moved(f, a, b, x)[b] = f[b] + x
         /\ \A c \in Accounts : c # a /\ c # b => Moved(f, a, b, x)[c] = f[c]
         /\ Moved(f, a, b, x)[b] >= x
BY DEF Moved

(* A transfer creates nothing. *)
LEMMA MovedKeepsTotal ==
  ASSUME NEW f \in [Accounts -> Nat], NEW r \in [Users -> Nat],
         NEW a \in Accounts, NEW b \in Accounts, NEW x \in Nat, f[a] >= x
  PROVE  Total(Moved(f, a, b, x), r) = Total(f, r)
<1> DEFINE g == Moved(f, a, b, x)
<1>1. g \in [Accounts -> Nat]
  BY MovedBalances
<1>2. CASE a = b
  BY <1>2, MovedBalances
<1>6. a # b => g[a] = f[a] - x /\ g[b] = f[b] + x
  BY MovedBalances
<1>7. \A c \in Accounts : c # a /\ c # b => g[c] = f[c]
  BY MovedBalances
<1> HIDE DEF g
<1>3. CASE a # b /\ a = Pot
  <2>1. b \in Users /\ \A u \in Users : u # a
    BY <1>3, AgentConstants
  <2>2. g[a] = f[a] - x /\ g[b] = f[b] + x /\ \A u \in Users : u # b => g[u] = f[u]
    BY <1>3, <1>6, <1>7, <2>1, AgentConstants
  <2> DEFINE h == [f EXCEPT ![b] = @ + x]
  <2>3. h \in [Accounts -> Nat] /\ h[Pot] = f[Pot] /\ h[b] = f[b] + x
        /\ \A u \in Users : u # b => h[u] = f[u]
    BY <2>1, AgentConstants
  <2> HIDE DEF h
  <2>4. Total(h, r) = Total(f, r) + (h[b] + r[b]) - (f[b] + r[b])
    BY <2>1, <2>3, TotalChanges
  <2>5. Both(h, r) = Both(g, r)
    BY <2>1, <2>2, <2>3 DEF Both
  <2>6. Total(h, r) \in Nat /\ Total(f, r) \in Nat /\ SumTo(Both(g, r), NUsers) \in Nat
    BY <1>1, <2>3, TotalIsNatural
  <2>7. r[b] \in Nat /\ f[b] \in Nat /\ f[Pot] \in Nat /\ g[Pot] \in Nat
    BY <1>1, <2>1, AgentConstants
  <2>8. Total(g, r) = g[Pot] + SumTo(Both(g, r), NUsers)
        /\ Total(h, r) = f[Pot] + SumTo(Both(g, r), NUsers)
    BY <2>3, <2>5 DEF Total
  <2>9. Total(g, r) = Total(f, r)
    BY <1>3, <2>2, <2>3, <2>4, <2>6, <2>7, <2>8
  <2> QED
    BY <2>9 DEF g
<1>4. CASE a # b /\ b = Pot
  <2>1. a \in Users /\ \A u \in Users : u # b
    BY <1>4, AgentConstants
  <2>2. g[a] = f[a] - x /\ g[b] = f[b] + x /\ \A u \in Users : u # a => g[u] = f[u]
    BY <1>4, <1>6, <1>7, <2>1, AgentConstants
  <2> DEFINE h == [f EXCEPT ![a] = @ - x]
  <2>3. h \in [Accounts -> Nat] /\ h[Pot] = f[Pot] /\ h[a] = f[a] - x
        /\ \A u \in Users : u # a => h[u] = f[u]
    BY <2>1, AgentConstants
  <2> HIDE DEF h
  <2>4. Total(h, r) = Total(f, r) + (h[a] + r[a]) - (f[a] + r[a])
    BY <2>1, <2>3, TotalChanges
  <2>5. Both(h, r) = Both(g, r)
    BY <2>1, <2>2, <2>3 DEF Both
  <2>6. Total(h, r) \in Nat /\ Total(f, r) \in Nat /\ SumTo(Both(g, r), NUsers) \in Nat
    BY <1>1, <2>3, TotalIsNatural
  <2>7. r[a] \in Nat /\ f[a] \in Nat /\ f[Pot] \in Nat /\ g[Pot] \in Nat
    BY <1>1, <2>1, AgentConstants
  <2>8. Total(g, r) = g[Pot] + SumTo(Both(g, r), NUsers)
        /\ Total(h, r) = f[Pot] + SumTo(Both(g, r), NUsers)
    BY <2>3, <2>5 DEF Total
  <2>9. Total(g, r) = Total(f, r)
    BY <1>4, <2>2, <2>3, <2>4, <2>6, <2>7, <2>8
  <2> QED
    BY <2>9 DEF g
<1>5. CASE a # b /\ a # Pot /\ b # Pot
  <2>1. a \in Users /\ b \in Users /\ a \in 1..NUsers /\ b \in 1..NUsers /\ NUsers \in Nat
    BY <1>5, AgentConstants DEF Users
  <2>2. g[a] = f[a] - x /\ g[b] = f[b] + x /\ g[Pot] = f[Pot]
        /\ \A u \in Users : u # a /\ u # b => g[u] = f[u]
    BY <1>5, <1>6, <1>7, AgentConstants
  <2>3. Both(f, r) \in [1..NUsers -> Int] /\ Both(g, r) \in [1..NUsers -> Int]
    BY <1>1, TotalIsNatural
  <2>4. \A k \in 1..NUsers : k # a /\ k # b => Both(g, r)[k] = Both(f, r)[k]
    BY <2>2 DEF Both, Users
  <2>5. SumTo(Both(g, r), NUsers) = SumTo(Both(f, r), NUsers)
          + Both(g, r)[a] - Both(f, r)[a] + Both(g, r)[b] - Both(f, r)[b]
    BY <1>5, <2>1, <2>3, <2>4, SumToChangeTwo
  <2>6. SumTo(Both(g, r), NUsers) \in Nat /\ SumTo(Both(f, r), NUsers) \in Nat
    BY <1>1, TotalIsNatural
  <2>7. Both(g, r)[a] = g[a] + r[a] /\ Both(f, r)[a] = f[a] + r[a]
        /\ Both(g, r)[b] = g[b] + r[b] /\ Both(f, r)[b] = f[b] + r[b]
    BY <2>1 DEF Both
  <2>8. r[a] \in Nat /\ r[b] \in Nat /\ f[a] \in Nat /\ f[b] \in Nat
    BY <2>1
  <2>9. SumTo(Both(g, r), NUsers) = SumTo(Both(f, r), NUsers)
    BY <2>2, <2>5, <2>6, <2>7, <2>8
  <2>10. Total(g, r) = Total(f, r)
    BY <2>2, <2>9 DEF Total
  <2> QED
    BY <2>10 DEF g
<1> QED
  BY <1>2, <1>3, <1>4, <1>5

-----------------------------------------------------------------------------
(* Brokers and markets. *)

Stakes(bs) == [b \in Users |-> bs[b].staked]

(* A market a dominator has opened stays in its hands. *)
OpenedStand ==
    \A k \in MarketKeys : opened[k] # NoTerms
        => markets[k].terms = opened[k] /\ markets[k].status = "Open"

LEMMA StakesAreNatural ==
  ASSUME MarketTypeOK
  PROVE  Stakes(brokers) \in [1..NUsers -> Int] /\ \A b \in Users : brokers[b].staked \in Nat
BY DEF MarketTypeOK, Stakes, Users

LEMMA BackedIsSum == BrokersAreBacked <=> free[Pot] = SumTo(Stakes(brokers), NUsers)
BY DEF BrokersAreBacked, Stakes

(* The records of one broker change by what goes to the pot or leaves it. *)
LEMMA StakesChange ==
  ASSUME MarketTypeOK, MarketTypeOK', NEW b \in Users,
         \A a \in Users : a # b => brokers'[a] = brokers[a]
  PROVE  SumTo(Stakes(brokers'), NUsers)
           = SumTo(Stakes(brokers), NUsers) + brokers'[b].staked - brokers[b].staked
<1>1. Stakes(brokers) \in [1..NUsers -> Int]
  BY StakesAreNatural
<1>2. Stakes(brokers') \in [1..NUsers -> Int]
  BY DEF MarketTypeOK, Stakes, Users
<1>3. b \in 1..NUsers /\ NUsers \in Nat
  BY AgentConstants DEF Users
<1>4. \A j \in 1..NUsers : j # b => Stakes(brokers')[j] = Stakes(brokers)[j]
  BY DEF Stakes, Users
<1>5. SumTo(Stakes(brokers'), NUsers)
        = SumTo(Stakes(brokers), NUsers) + Stakes(brokers')[b] - Stakes(brokers)[b]
  BY <1>1, <1>2, <1>3, <1>4, SumToChange
<1>6. Stakes(brokers')[b] = brokers'[b].staked /\ Stakes(brokers)[b] = brokers[b].staked
  BY DEF Stakes
<1> QED
  BY <1>5, <1>6

LEMMA RegisterBroker ==
  ASSUME NEW f \in [Accounts -> Nat], NEW u \in Users, NEW b \in Users,
         reserved \in [Users -> Nat], MarketTypeOK, OpenedStand,
         f[Pot] = SumTo(Stakes(brokers), NUsers),
         can_register_broker(f, u, b), register_broker(f, u, b)
  PROVE  /\ free' \in [Accounts -> Nat] /\ reserved' = reserved
         /\ MarketTypeOK' /\ OpenedStand'
         /\ free'[Pot] = SumTo(Stakes(brokers'), NUsers)
         /\ Total(free', reserved') = Total(f, reserved)
<1> DEFINE x == BrokerStakingThreshold
<1>1. x \in Nat /\ u \in Accounts /\ Pot \in Accounts /\ u # Pot /\ f[u] >= x
  BY AgentConstants DEF can_register_broker, CanMove
<1>2. free' = Moved(f, u, Pot, x) /\ reserved' = reserved /\ markets' = markets /\ opened' = opened
      /\ brokers' = [brokers EXCEPT ![b] = [beneficiary |-> u, staked |-> x]]
  BY DEF register_broker
<1>3. brokers[b] = NoBroker
  BY DEF can_register_broker
<1> HIDE DEF x
<1>4. free' \in [Accounts -> Nat] /\ free'[Pot] = f[Pot] + x
  <2>1. /\ Moved(f, u, Pot, x) \in [Accounts -> Nat]
        /\ u # Pot => Moved(f, u, Pot, x)[Pot] = f[Pot] + x
    BY <1>1, MovedBalances
  <2> QED
    BY <1>1, <1>2, <2>1
<1>5. Total(free', reserved') = Total(f, reserved)
  BY <1>1, <1>2, MovedKeepsTotal
<1>6. brokers' \in [Users -> [beneficiary : Users \cup {0}, staked : Nat]]
  BY <1>1, <1>2 DEF MarketTypeOK
<1>7. MarketTypeOK' /\ OpenedStand'
  BY <1>2, <1>6 DEF MarketTypeOK, OpenedStand
<1>8. SumTo(Stakes(brokers'), NUsers) = SumTo(Stakes(brokers), NUsers) + x - 0
  <2>1. brokers'[b].staked = x /\ brokers[b].staked = 0
        /\ \A a \in Users : a # b => brokers'[a] = brokers[a]
    BY <1>2, <1>3 DEF MarketTypeOK, NoBroker
  <2> QED
    BY <1>7, <2>1, StakesChange
<1>9. SumTo(Stakes(brokers), NUsers) \in Int
  BY StakesAreNatural, SumToInt, AgentConstants
<1> QED
  BY <1>1, <1>2, <1>4, <1>5, <1>7, <1>8, <1>9

LEMMA DeregisterBroker ==
  ASSUME NEW f \in [Accounts -> Nat], NEW u \in Users, NEW b \in Users,
         reserved \in [Users -> Nat], MarketTypeOK, OpenedStand,
         f[Pot] = SumTo(Stakes(brokers), NUsers),
         can_deregister_broker(f, u, b), deregister_broker(f, u, b)
  PROVE  /\ free' \in [Accounts -> Nat] /\ reserved' = reserved
         /\ MarketTypeOK' /\ OpenedStand'
         /\ free'[Pot] = SumTo(Stakes(brokers'), NUsers)
         /\ Total(free', reserved') = Total(f, reserved)
<1> DEFINE x == brokers[b].staked
<1>1. x \in Nat /\ u \in Accounts /\ Pot \in Accounts /\ u # Pot /\ f[Pot] >= x
  BY AgentConstants, StakesAreNatural DEF can_deregister_broker, CanMove
<1>2. free' = Moved(f, Pot, u, x) /\ reserved' = reserved /\ markets' = markets /\ opened' = opened
      /\ brokers' = [brokers EXCEPT ![b] = NoBroker]
  BY DEF deregister_broker
<1>3. brokers'[b].staked = 0 /\ \A a \in Users : a # b => brokers'[a] = brokers[a]
  BY <1>2 DEF MarketTypeOK, NoBroker
<1>6. brokers' \in [Users -> [beneficiary : Users \cup {0}, staked : Nat]]
  BY <1>2 DEF MarketTypeOK, NoBroker
<1>7. MarketTypeOK' /\ OpenedStand'
  BY <1>2, <1>6 DEF MarketTypeOK, OpenedStand
<1>8. SumTo(Stakes(brokers'), NUsers) = SumTo(Stakes(brokers), NUsers) + 0 - x
  BY <1>3, <1>7, StakesChange
<1> HIDE DEF x
<1>4. free' \in [Accounts -> Nat] /\ free'[Pot] = f[Pot] - x
  BY <1>1, <1>2, MovedBalances
<1>5. Total(free', reserved') = Total(f, reserved)
  BY <1>1, <1>2, MovedKeepsTotal
<1>9. SumTo(Stakes(brokers), NUsers) \in Int
  BY StakesAreNatural, SumToInt, AgentConstants
<1> QED
  BY <1>1, <1>2, <1>4, <1>5, <1>7, <1>8, <1>9

LEMMA MarketCall ==
  ASSUME NEW f \in [Accounts -> Nat], NEW k \in MarketKeys, NEW terms \in Terms,
         MarketTypeOK, OpenedStand,
         \/ can_register_market(k) /\ register_market(f, k, terms)
         \/ can_open_market(k) /\ open_market(f, k, terms)
  PROVE  /\ free' = f /\ reserved' = reserved /\ brokers' = brokers
         /\ MarketTypeOK' /\ OpenedStand'
<1>1. free' = f /\ reserved' = reserved /\ brokers' = brokers
  BY DEF register_market, open_market
<1>2. DOMAIN markets = MarketKeys /\ DOMAIN opened = MarketKeys
  BY DEF MarketTypeOK
<1>3. CASE can_register_market(k) /\ register_market(f, k, terms)
  <2>1. markets' = [markets EXCEPT ![k] = [status |-> "Registered", terms |-> terms]]
        /\ opened' = opened
    BY <1>3 DEF register_market
  <2>2. opened[k] = NoTerms
    BY <1>3 DEF can_register_market, OpenedStand
  <2>3. MarketTypeOK'
    BY <1>1, <2>1 DEF MarketTypeOK
  <2>4. OpenedStand'
    BY <1>2, <2>1, <2>2 DEF OpenedStand
  <2> QED
    BY <1>1, <2>3, <2>4
<1>4. CASE can_open_market(k) /\ open_market(f, k, terms)
  <2>1. markets' = [markets EXCEPT ![k] = [status |-> "Open", terms |-> terms]]
        /\ opened' = [opened EXCEPT ![k] = terms]
    BY <1>4 DEF open_market
  <2>3. MarketTypeOK'
    BY <1>1, <2>1 DEF MarketTypeOK
  <2>4. OpenedStand'
    BY <1>2, <2>1 DEF OpenedStand
  <2> QED
    BY <1>1, <2>3, <2>4
<1> QED
  BY <1>3, <1>4

-----------------------------------------------------------------------------
(* Vaults. *)

(* A vault with a part to come, and an epoch or more between two parts. *)
HasParts(v) == v.times > 0 /\ v.interval > 0

(* The vaults of those that were given sound funds only. *)
SoundVaultsHaveParts == \A b \in Users \ unsound : vaults[b] = NoVault \/ HasParts(vaults[b])

FoundationInv ==
    /\ FoundationTypeOK /\ authorized \in [Users -> Nat]
    /\ SoundVaultsHaveParts /\ ReservedAddsUp /\ ApprovalsArePending

LEMMA EpochsAreNatural ==
  ASSUME now \in Blocks
  PROVE  epoch \in Nat /\ now \in Nat
BY AgentConstants, DivMod DEF epoch, Blocks

LEMMA VaultAmounts ==
  ASSUME NEW v \in VaultType, NEW e \in Nat
  PROVE  /\ v.times \in Nat /\ v.amount \in Nat /\ v.first \in Nat /\ v.delay \in Nat
         /\ v.interval \in Nat /\ v.amount * v.times \in Nat
         /\ TotalOf(v) \in Nat /\ Remaining(v, e) \in Nat
         /\ Sound(v) => TotalOf(v) = v.amount * v.times + v.first
         /\ v.interval > 0 => PartsBy(v, e) \in Nat
<1>1. v.times \in Nat /\ v.amount \in Nat /\ v.first \in Nat /\ v.delay \in Nat
      /\ v.interval \in Nat
  BY AgentConstants DEF VaultType, Amounts, Numbers
<1>2. v.amount * v.times \in Nat
  BY <1>1, ProductNat
<1>3. ASSUME v.interval > 0 PROVE PartsBy(v, e) \in Nat
  <2>1. CASE e < v.delay
    BY <2>1 DEF PartsBy
  <2>2. CASE ~(e < v.delay)
    <3>1. e - v.delay \in Nat
      BY <1>1, <2>2
    <3> QED
      BY <1>1, <1>3, <2>2, <3>1, DivMod DEF PartsBy
  <2> QED
    BY <2>1, <2>2
<1> DEFINE t == v.amount * v.times + v.first
<1>4. t \in Nat /\ Remaining(v, e) \in Nat
  BY <1>1, <1>2 DEF Remaining
<1>5. TotalOf(v) = t % Width
  BY DEF TotalOf
<1>6. Sound(v) => t < Width
  BY DEF Sound
<1> HIDE DEF t
<1>7. TotalOf(v) \in Nat
  BY <1>4, <1>5, DivMod, AgentConstants
<1>8. ASSUME t < Width PROVE t % Width = t
  <2>1. t \in 0..(Width - 1) /\ Width * 0 + t = t
    BY <1>4, <1>8, AgentConstants
  <2>2. (Width * 0 + t) % Width = t
    BY <2>1, DivUnique, AgentConstants
  <2> QED
    BY <2>1, <2>2
<1>9. Sound(v) => TotalOf(v) = t
  BY <1>5, <1>6, <1>8
<1> QED
  BY <1>1, <1>2, <1>3, <1>4, <1>7, <1>9 DEF t

LEMMA NoVaultIsEmpty ==
  ASSUME NEW e \in Nat
  PROVE  NoVault \in VaultType /\ Remaining(NoVault, e) = 0 /\ ~IsRelease(NoVault, e)
<1>1. NoVault \in VaultType
  BY AgentConstants DEF NoVault, VaultType, Amounts, Numbers
<1>2. Remaining(NoVault, e) = 0
  BY DEF NoVault, Remaining
<1> QED
  BY <1>1, <1>2 DEF IsRelease

(* The parts of a new vault: all are releases to come, none is the last. *)
LEMMA PartsOfFund ==
  ASSUME NEW v \in VaultType, HasParts(v), NEW e \in Nat, e < v.delay, NEW i \in 0..(v.times - 1),
         NEW d, d = v.delay + i * v.interval
  PROVE  d > e /\ IsRelease(v, d) /\ d < LastRelease(v, e)
<1>1. v.times \in Nat \ {0} /\ v.delay \in Nat /\ v.interval \in Nat \ {0} /\ i \in Nat /\ i + 1 <= v.times
  BY VaultAmounts DEF HasParts
<1>0. v # NoVault
  BY <1>1 DEF NoVault
<1>2. i * v.interval \in Nat /\ v.interval * i = i * v.interval
  BY <1>1, Products, ProductNat
<1>3. (i * v.interval) % v.interval = 0
  <2>1. (v.interval * i + 0) % v.interval = 0
    BY <1>1, DivUnique, 0 \in 0..(v.interval - 1)
  <2> QED
    BY <1>2, <2>1
<1>4. d - v.delay = i * v.interval /\ d >= v.delay /\ d > e
  BY <1>1, <1>2
<1>5. v.interval * i < v.interval * v.times
  <2>1. v.interval * (i + 1) <= v.interval * v.times
    BY <1>1, ProductMonotone
  <2>2. v.interval * (i + 1) = v.interval * i + v.interval * 1
    BY <1>1, Products
  <2>3. v.interval * v.times \in Nat /\ v.interval * 1 = v.interval
    BY <1>1, ProductNat
  <2> QED
    BY <1>1, <1>2, <2>1, <2>2, <2>3
<1>6. LastRelease(v, e) = v.delay + v.interval * v.times
  <2>1. PartsBy(v, e) = 0
    BY DEF PartsBy
  <2>2. (v.times + 0) * v.interval = v.interval * v.times
    BY <1>1, Products
  <2> QED
    BY <2>1, <2>2 DEF LastRelease
<1>7. v.interval * v.times \in Nat
  BY <1>1, ProductNat
<1> QED
  BY <1>0, <1>1, <1>2, <1>3, <1>4, <1>5, <1>6, <1>7 DEF IsRelease

LEMMA PutIntoVault ==
  ASSUME NEW f \in [Accounts -> Nat], NEW u \in Users, NEW b \in Users, NEW fund \in VaultType,
         NEW need \in BOOLEAN, reserved \in [Users -> Nat], now \in Blocks, now' = now,
         FoundationInv, authorized' = authorized,
         can_put_into_vault(f, u, b, fund), put_into_vault(f, u, b, fund, need)
  PROVE  /\ free' \in [Accounts -> Nat] /\ reserved' \in [Users -> Nat]
         /\ FoundationInv'
         /\ free'[Pot] = f[Pot] /\ Total(free', reserved') = Total(f, reserved)
<1> DEFINE T == TotalOf(fund)
           paid == Moved(f, u, b, T)
           epochs_asked == {fund.delay + i * fund.interval : i \in 0..(fund.times - 1)}
<1>1. epoch \in Nat
  BY EpochsAreNatural
<1>2. T \in Nat /\ (Sound(fund) => Remaining(fund, epoch) = T)
  <2>1. epoch < fund.delay
    BY DEF can_put_into_vault
  <2>2. Remaining(fund, epoch) = fund.amount * fund.times + fund.first
    BY <2>1 DEF Remaining
  <2> QED
    BY <1>1, <2>2, VaultAmounts
<1>3. vaults[b] = NoVault /\ f[u] >= T /\ epoch < fund.delay
  BY DEF can_put_into_vault, CanMove
<1>4. /\ free' = [paid EXCEPT ![b] = @ - T]
      /\ reserved' = [reserved EXCEPT ![b] = @ + T]
      /\ vaults' = [vaults EXCEPT ![b] = fund]
      /\ approvals' = [k \in Users \X Epochs |->
             IF need /\ k[1] = b /\ k[2] \in epochs_asked THEN u ELSE approvals[k]]
      /\ stuck' = stuck /\ unsound' = IF Sound(fund) THEN unsound ELSE unsound \cup {b}
  BY DEF put_into_vault
<1>5. epoch' = epoch
  BY DEF epoch
<1>6. u \in Accounts /\ b \in Accounts /\ b # Pot /\ u # Pot /\ Pot \in Accounts
  BY AgentConstants
<1> HIDE DEF T
<1>7. paid \in [Accounts -> Nat] /\ paid[b] >= T /\ paid[Pot] = f[Pot]
      /\ Total(paid, reserved) = Total(f, reserved)
  <2>1. T \in Nat /\ f[u] >= T
    BY <1>2, <1>3
  <2>2. paid \in [Accounts -> Nat] /\ paid[b] >= T /\ paid[Pot] = f[Pot]
    BY <1>6, <2>1, MovedBalances
  <2>3. Total(paid, reserved) = Total(f, reserved)
    BY <1>6, <2>1, MovedKeepsTotal
  <2> QED
    BY <2>2, <2>3
<1> HIDE DEF paid
<1>8. free' \in [Accounts -> Nat] /\ reserved' \in [Users -> Nat] /\ free'[Pot] = f[Pot]
  BY <1>2, <1>4, <1>6, <1>7
<1>9. Total(free', reserved') = Total(f, reserved)
  <2>1. \A a \in Users : free'[a] + reserved'[a] = paid[a] + reserved[a]
    <3> SUFFICES ASSUME NEW a \in Users PROVE free'[a] + reserved'[a] = paid[a] + reserved[a]
      OBVIOUS
    <3>1. a \in Accounts /\ paid[a] \in Nat /\ reserved[a] \in Nat
      BY <1>7, AgentConstants
    <3> QED
      BY <1>2, <1>4, <1>6, <1>7, <3>1
  <2>2. Both(free', reserved') = Both(paid, reserved)
    BY <2>1 DEF Both
  <2> QED
    BY <1>7, <1>8, <2>2 DEF Total
<1>10. FoundationTypeOK' /\ authorized' \in [Users -> Nat]
  <2>1. vaults' \in [Users -> VaultType] /\ stuck' \in [Users -> Nat] /\ unsound' \subseteq Users
        /\ authorized' \in [Users -> Nat]
    BY <1>4 DEF FoundationInv, FoundationTypeOK
  <2>2. approvals' \in [Users \X Epochs -> Users \cup {Nobody}]
    BY <1>4 DEF FoundationInv, FoundationTypeOK
  <2> QED
    BY <2>1, <2>2 DEF FoundationTypeOK
<1>11. \A a \in Users \ unsound' : a \in Users \ unsound /\ (a = b => Sound(fund))
  BY <1>4
<1>12. SoundVaultsHaveParts'
  BY <1>4, <1>11 DEF FoundationInv, FoundationTypeOK, SoundVaultsHaveParts, Sound, HasParts
<1>13. ReservedAddsUp'
  <2> SUFFICES ASSUME NEW a \in Users \ unsound'
               PROVE  reserved'[a] = Remaining(vaults'[a], epoch) + authorized'[a] + stuck'[a]
    BY <1>5 DEF ReservedAddsUp
  <2>1. /\ reserved[a] = Remaining(vaults[a], epoch) + authorized[a] + stuck[a]
        /\ stuck[a] \in Nat /\ authorized[a] \in Nat /\ vaults[a] \in VaultType
    BY <1>11 DEF FoundationInv, FoundationTypeOK, ReservedAddsUp
  <2>2. CASE a # b
    BY <1>4, <2>1, <2>2 DEF FoundationInv, FoundationTypeOK
  <2>3. CASE a = b
    <3>1. reserved[a] = authorized[a] + stuck[a]
      BY <1>1, <1>3, <2>1, <2>3, NoVaultIsEmpty
    <3>2. reserved'[a] = authorized[a] + stuck[a] + T /\ vaults'[a] = fund /\ stuck'[a] = stuck[a]
      BY <1>4, <2>3, <3>1 DEF FoundationInv, FoundationTypeOK
    <3>3. Remaining(fund, epoch) = T
      BY <1>2, <1>11, <2>3
    <3> QED
      BY <1>2, <2>1, <3>2, <3>3
  <2> QED
    BY <2>2, <2>3
<1>14. ApprovalsArePending'
  <2> SUFFICES ASSUME NEW a \in Users \ unsound', NEW e \in Epochs, approvals'[<<a, e>>] # Nobody
               PROVE  e > epoch /\ IsRelease(vaults'[a], e) /\ e < LastRelease(vaults'[a], epoch)
    BY <1>5 DEF ApprovalsArePending
  <2>1. approvals[<<a, e>>] # Nobody
          => e > epoch /\ IsRelease(vaults[a], e) /\ e < LastRelease(vaults[a], epoch)
    BY <1>11 DEF FoundationInv, ApprovalsArePending
  <2>2. CASE a # b
    <3>1. approvals'[<<a, e>>] = approvals[<<a, e>>] /\ vaults'[a] = vaults[a]
      BY <1>4, <2>2 DEF FoundationInv, FoundationTypeOK
    <3> QED
      BY <2>1, <3>1
  <2>3. CASE a = b
    <3>1. approvals[<<a, e>>] = Nobody
      BY <1>3, <2>1, <2>3 DEF IsRelease
    <3>2. vaults'[a] = fund /\ e \in epochs_asked
      BY <1>4, <2>3, <3>1 DEF FoundationInv, FoundationTypeOK
    <3>3. PICK i \in 0..(fund.times - 1) : e = fund.delay + i * fund.interval
      BY <3>2
    <3>4. HasParts(fund)
      BY <1>11, <2>3 DEF Sound, HasParts
    <3> QED
      BY <1>1, <1>3, <3>2, <3>3, <3>4, PartsOfFund
  <2> QED
    BY <2>2, <2>3
<1> QED
  BY <1>8, <1>9, <1>10, <1>12, <1>13, <1>14 DEF FoundationInv

LEMMA Approve ==
  ASSUME NEW f \in [Accounts -> Nat], NEW u \in Users, NEW b \in Users, NEW e \in Epochs,
         now' = now, authorized' = authorized, FoundationInv, approve(f, u, b, e)
  PROVE  free' = f /\ reserved' = reserved /\ FoundationInv'
<1>1. /\ free' = f /\ reserved' = reserved /\ vaults' = vaults /\ stuck' = stuck
      /\ unsound' = unsound
      /\ approvals' = [approvals EXCEPT ![<<b, e>>] = Nobody] /\ epoch' = epoch
  BY DEF approve, epoch
<1>2. FoundationTypeOK' /\ SoundVaultsHaveParts' /\ ReservedAddsUp' /\ authorized' \in [Users -> Nat]
  BY <1>1 DEF FoundationInv, FoundationTypeOK, SoundVaultsHaveParts, ReservedAddsUp
<1>3. \A k \in Users \X Epochs : approvals'[k] # Nobody => approvals[k] # Nobody
  BY <1>1 DEF FoundationInv, FoundationTypeOK
<1>4. ApprovalsArePending'
  BY <1>1, <1>3 DEF FoundationInv, ApprovalsArePending
<1> QED
  BY <1>1, <1>2, <1>4 DEF FoundationInv

(* authorize and revoke move between what is free and what dominators hold. *)
LEMMA Authorized ==
  ASSUME NEW f \in [Accounts -> Nat], NEW u \in Users, NEW x \in Nat,
         reserved \in [Users -> Nat], now \in Blocks, now' = now,
         FoundationInv, UNCHANGED foundationVars,
         \/ can_reserve(f, u, x) /\ reserve(f, u, x)
         \/ can_unreserve(u, x) /\ unreserve(f, u, x)
  PROVE  /\ free' \in [Accounts -> Nat] /\ reserved' \in [Users -> Nat]
         /\ FoundationInv'
         /\ free'[Pot] = f[Pot] /\ Total(free', reserved') = Total(f, reserved)
<1>1. u \in Accounts /\ u # Pot /\ Pot \in Accounts /\ \A a \in Users : a \in Accounts
  BY AgentConstants
<1>2. f[u] \in Nat /\ reserved[u] \in Nat /\ authorized \in [Users -> Nat] /\ authorized[u] \in Nat
  BY <1>1 DEF FoundationInv
<1>3. PICK y \in Int :
         /\ f[u] - y \in Nat /\ reserved[u] + y \in Nat /\ authorized[u] + y \in Nat
         /\ free' = [f EXCEPT ![u] = f[u] - y]
         /\ reserved' = [reserved EXCEPT ![u] = reserved[u] + y]
         /\ authorized' = [authorized EXCEPT ![u] = authorized[u] + y]
  <2>1. CASE can_reserve(f, u, x) /\ reserve(f, u, x)
    <3>1. f[u] >= x
      BY <2>1 DEF can_reserve, CanMove
    <3>2. f[u] - x \in Nat /\ reserved[u] + x \in Nat /\ authorized[u] + x \in Nat /\ x \in Int
      BY <1>2, <3>1
    <3> QED
      BY <2>1, <3>2 DEF reserve
  <2>2. CASE can_unreserve(u, x) /\ unreserve(f, u, x)
    <3> DEFINE y == 0 - x
    <3>1. reserved[u] >= x /\ authorized[u] >= x
      BY <2>2 DEF can_unreserve
    <3>2. /\ f[u] - y \in Nat /\ reserved[u] + y \in Nat /\ authorized[u] + y \in Nat /\ y \in Int
          /\ f[u] - y = f[u] + x /\ reserved[u] + y = reserved[u] - x
          /\ authorized[u] + y = authorized[u] - x
      BY <1>2, <3>1
    <3>3. /\ free' = [f EXCEPT ![u] = f[u] + x]
          /\ reserved' = [reserved EXCEPT ![u] = reserved[u] - x]
          /\ authorized' = [authorized EXCEPT ![u] = authorized[u] - x]
      BY <2>2 DEF unreserve
    <3> HIDE DEF y
    <3> QED
      BY <3>2, <3>3
  <2> QED
    BY <2>1, <2>2
<1>4. /\ free' \in [Accounts -> Nat] /\ free'[u] = f[u] - y
      /\ \A a \in Accounts : a # u => free'[a] = f[a]
  BY <1>1, <1>3
<1>5. /\ reserved' \in [Users -> Nat] /\ reserved'[u] = reserved[u] + y
      /\ \A a \in Users : a # u => reserved'[a] = reserved[a]
  BY <1>3
<1>6. /\ authorized' \in [Users -> Nat] /\ authorized'[u] = authorized[u] + y
      /\ \A a \in Users : a # u => authorized'[a] = authorized[a]
  BY <1>2, <1>3
<1>7. Total(free', reserved') = Total(f, reserved)
  <2>1. free'[Pot] = f[Pot] /\ \A a \in Users : a # u => free'[a] + reserved'[a] = f[a] + reserved[a]
    BY <1>1, <1>4, <1>5
  <2>2. Total(free', reserved')
          = Total(f, reserved) + (free'[u] + reserved'[u]) - (f[u] + reserved[u])
    BY <1>4, <1>5, <2>1, TotalChanges
  <2>3. Total(f, reserved) \in Nat
    BY TotalIsNatural
  <2> QED
    BY <1>2, <1>3, <1>4, <1>5, <2>2, <2>3
<1>8. /\ vaults' = vaults /\ approvals' = approvals /\ stuck' = stuck /\ unsound' = unsound
      /\ epoch' = epoch
  BY DEF foundationVars, epoch
<1>9. ReservedAddsUp'
  <2> SUFFICES ASSUME NEW b \in Users \ unsound
               PROVE  reserved'[b] = Remaining(vaults[b], epoch) + authorized'[b] + stuck[b]
    BY <1>8 DEF ReservedAddsUp
  <2>1. reserved[b] = Remaining(vaults[b], epoch) + authorized[b] + stuck[b]
    BY DEF FoundationInv, ReservedAddsUp
  <2>2. stuck[b] \in Nat /\ authorized[b] \in Nat
    BY DEF FoundationInv, FoundationTypeOK
  <2>3. Remaining(vaults[b], epoch) \in Nat
    BY EpochsAreNatural, VaultAmounts DEF FoundationInv, FoundationTypeOK
  <2>4. CASE b # u
    BY <1>5, <1>6, <2>1, <2>4
  <2>5. CASE b = u
    BY <1>2, <1>3, <1>5, <1>6, <2>1, <2>2, <2>3, <2>5
  <2> QED
    BY <2>4, <2>5
<1>10. FoundationTypeOK' /\ SoundVaultsHaveParts' /\ ApprovalsArePending'
  BY <1>8 DEF FoundationInv, FoundationTypeOK, SoundVaultsHaveParts, ApprovalsArePending
<1> QED
  BY <1>1, <1>4, <1>5, <1>6, <1>7, <1>9, <1>10 DEF FoundationInv

-----------------------------------------------------------------------------
(* What on_initialize releases. *)

Accs == [free : [Accounts -> Nat], reserved : [Users -> Nat], stuck : [Users -> Nat]]
Now == [free |-> free, reserved |-> reserved, stuck |-> stuck]

DueOf(b, e) ==
    IF ~IsRelease(vaults[b], e) THEN 0
    ELSE IF e = vaults[b].delay THEN vaults[b].first ELSE vaults[b].amount

LEMMA DueIsNatural ==
  ASSUME FoundationTypeOK, NEW b \in Users, NEW e
  PROVE  DueOf(b, e) \in Nat
BY AgentConstants DEF FoundationTypeOK, VaultType, Amounts, DueOf

(* One vault: what is due leaves what is reserved, for good or because it  *)
(* is stuck, if there is as much; nothing is reserved or released for the  *)
(* others, and no token appears or vanishes in any case.                   *)
LEMMA OneVault ==
  ASSUME FoundationTypeOK, NEW l \in Accs, NEW b \in Users, NEW e \in Epochs,
         NEW m, m = AfterVault(l, b, e)
  PROVE  /\ m \in Accs /\ m.free[Pot] = l.free[Pot]
         /\ Total(m.free, m.reserved) = Total(l.free, l.reserved)
         /\ l.reserved[b] >= DueOf(b, e) =>
               m.reserved[b] + DueOf(b, e) + l.stuck[b] = l.reserved[b] + m.stuck[b]
         /\ \A a \in Users : a # b => m.reserved[a] = l.reserved[a] /\ m.stuck[a] = l.stuck[a]
<1> DEFINE d == DueOf(b, e)
           x == IF l.reserved[b] < d THEN l.reserved[b] ELSE d
           a0 == approvals[<<b, e>>]
           to == IF a0 = Nobody THEN b ELSE a0
<1>1. l.free \in [Accounts -> Nat] /\ l.reserved \in [Users -> Nat] /\ l.stuck \in [Users -> Nat]
      /\ l = [free |-> l.free, reserved |-> l.reserved, stuck |-> l.stuck]
  BY DEF Accs
<1>2. d \in Nat /\ x \in Nat /\ x <= l.reserved[b] /\ (l.reserved[b] >= d => x = d)
  BY <1>1, DueIsNatural
<1>3. to \in Users
  BY DEF FoundationTypeOK, Nobody
<1>4. m = IF x = 0 THEN l
          ELSE IF ~Alive(l.free, l.reserved, to) THEN [l EXCEPT !.stuck[b] = @ + x]
          ELSE [l EXCEPT !.free[to] = @ + x, !.reserved[b] = @ - x]
  BY DEF AfterVault, DueOf
<1> HIDE DEF d, x, to
<1>5. CASE x = 0
  <2>1. m = l
    BY <1>4, <1>5
  <2>2. l.reserved[b] \in Nat /\ l.stuck[b] \in Nat
    BY <1>1
  <2>3. l.reserved[b] >= d => m.reserved[b] + d + l.stuck[b] = l.reserved[b] + m.stuck[b]
    BY <1>2, <1>5, <2>1, <2>2
  <2> QED
    BY <2>1, <2>3 DEF d
<1>6. CASE x # 0 /\ ~Alive(l.free, l.reserved, to)
  <2> DEFINE st == [l.stuck EXCEPT ![b] = @ + x]
  <2>0. m = [l EXCEPT !.stuck = st]
    BY <1>4, <1>6
  <2>1. m = [free |-> l.free, reserved |-> l.reserved, stuck |-> st]
    <3> HIDE DEF st
    <3> QED
      BY <2>0 DEF Accs
  <2>2. st \in [Users -> Nat] /\ st[b] = l.stuck[b] + x /\ \A a \in Users : a # b => st[a] = l.stuck[a]
    BY <1>1, <1>2
  <2> HIDE DEF st
  <2>3. m.free = l.free /\ m.reserved = l.reserved /\ m.stuck = st
    BY <2>1
  <2>4. m \in Accs
    BY <1>1, <2>1, <2>2 DEF Accs
  <2>5. l.reserved[b] \in Nat /\ l.stuck[b] \in Nat
    BY <1>1
  <2>6. l.reserved[b] >= d => m.reserved[b] + d + l.stuck[b] = l.reserved[b] + m.stuck[b]
    BY <1>2, <2>2, <2>3, <2>5
  <2> QED
    BY <2>2, <2>3, <2>4, <2>6 DEF d
<1>7. CASE x # 0 /\ Alive(l.free, l.reserved, to)
  <2> DEFINE fr == [l.free EXCEPT ![to] = @ + x]
             re == [l.reserved EXCEPT ![b] = @ - x]
  <2>0. m = [l EXCEPT !.free = fr, !.reserved = re]
    BY <1>4, <1>7
  <2>1. m = [free |-> fr, reserved |-> re, stuck |-> l.stuck]
    <3> HIDE DEF fr, re
    <3> QED
      BY <2>0 DEF Accs
  <2>2. to \in Accounts /\ to # Pot /\ Pot \in Accounts /\ \A u \in Users : u \in Accounts
    BY <1>3, AgentConstants
  <2>3. fr \in [Accounts -> Nat] /\ fr[to] = l.free[to] + x
        /\ \A a \in Accounts : a # to => fr[a] = l.free[a]
    BY <1>1, <1>2, <2>2
  <2>4. re \in [Users -> Nat] /\ re[b] = l.reserved[b] - x
        /\ \A a \in Users : a # b => re[a] = l.reserved[a]
    BY <1>1, <1>2
  <2> HIDE DEF fr, re
  <2>5. m.free = fr /\ m.reserved = re /\ m.stuck = l.stuck
    BY <2>1
  <2>6. m \in Accs
    BY <1>1, <2>1, <2>3, <2>4 DEF Accs
  <2>7. Total(fr, l.reserved) = Total(l.free, l.reserved) + x
    <3>1. fr[Pot] = l.free[Pot] /\ \A u \in Users : u # to => fr[u] + l.reserved[u] = l.free[u] + l.reserved[u]
      BY <2>2, <2>3
    <3>2. Total(fr, l.reserved)
            = Total(l.free, l.reserved) + (fr[to] + l.reserved[to]) - (l.free[to] + l.reserved[to])
      BY <1>1, <1>3, <2>3, <3>1, TotalChanges
    <3>3. Total(l.free, l.reserved) \in Nat /\ l.free[to] \in Nat /\ l.reserved[to] \in Nat
      BY <1>1, <1>3, <2>2, TotalIsNatural
    <3> QED
      BY <1>2, <2>3, <3>2, <3>3
  <2>8. Total(fr, re) = Total(fr, l.reserved) - x
    <3>1. \A u \in Users : u # b => fr[u] + re[u] = fr[u] + l.reserved[u]
      BY <2>4
    <3>2. Total(fr, re) = Total(fr, l.reserved) + (fr[b] + re[b]) - (fr[b] + l.reserved[b])
      BY <1>1, <2>3, <2>4, <3>1, TotalChanges
    <3>3. Total(fr, l.reserved) \in Nat /\ fr[b] \in Nat /\ l.reserved[b] \in Nat
      BY <1>1, <2>2, <2>3, TotalIsNatural
    <3> QED
      BY <1>2, <2>4, <3>2, <3>3
  <2>9. Total(l.free, l.reserved) \in Nat
    BY <1>1, TotalIsNatural
  <2>10. Total(m.free, m.reserved) = Total(l.free, l.reserved)
    BY <1>2, <2>5, <2>7, <2>8, <2>9
  <2>11. l.reserved[b] \in Nat /\ l.stuck[b] \in Nat
    BY <1>1
  <2>12. l.reserved[b] >= d => m.reserved[b] + d + l.stuck[b] = l.reserved[b] + m.stuck[b]
    BY <1>2, <2>4, <2>5, <2>11
  <2>13. m.free[Pot] = l.free[Pot]
    BY <2>2, <2>3, <2>5
  <2> QED
    BY <2>4, <2>5, <2>6, <2>10, <2>12, <2>13 DEF d
<1> QED
  BY <1>5, <1>6, <1>7

(* The vaults up to n, one after another. *)
Releases(s, n, e) ==
    s = [b \in 0..n |-> IF b = 0 THEN Now ELSE AfterVault(s[b - 1], b, e)]

LEMMA ReleasesExist ==
  ASSUME FoundationTypeOK, Now \in Accs, NEW e \in Epochs
  PROVE  \E s \in [0..NUsers -> Accs] : Releases(s, NUsers, e)
<1> DEFINE S == {n \in 0..NUsers : \E s \in [0..n -> Accs] : Releases(s, n, e)}
<1>0. NUsers \in Nat
  BY AgentConstants
<1>1. 0 \in S
  <2>1. [b \in 0..0 |-> Now] \in [0..0 -> Accs] /\ Releases([b \in 0..0 |-> Now], 0, e)
    BY DEF Releases
  <2> QED
    BY <1>0, <2>1
<1>2. ASSUME NEW n \in 0..(NUsers - 1), n \in S PROVE n + 1 \in S
  <2>1. PICK s \in [0..n -> Accs] : Releases(s, n, e)
    BY <1>2
  <2>2. n + 1 \in Users /\ n \in 0..n /\ n \in Nat
    BY <1>0 DEF Users
  <2> DEFINE next == AfterVault(s[n], n + 1, e)
             s2 == [b \in 0..(n + 1) |-> IF b = n + 1 THEN next ELSE s[b]]
  <2>3. next \in Accs
    BY <2>2, OneVault
  <2>4. s2 \in [0..(n + 1) -> Accs]
    BY <2>2, <2>3
  <2>5. \A b \in 0..(n + 1) : s2[b] = IF b = 0 THEN Now ELSE AfterVault(s2[b - 1], b, e)
    <3> SUFFICES ASSUME NEW b \in 0..(n + 1)
                 PROVE  s2[b] = IF b = 0 THEN Now ELSE AfterVault(s2[b - 1], b, e)
      OBVIOUS
    <3>1. CASE b = n + 1
      <4>1. s2[b] = next /\ b # 0 /\ b - 1 = n /\ s2[n] = s[n]
        BY <2>2, <3>1
      <4> QED
        BY <3>1, <4>1
    <3>2. CASE b # n + 1
      <4>1. b \in 0..n /\ s2[b] = s[b] /\ (b # 0 => b - 1 \in 0..(n + 1) /\ b - 1 # n + 1 /\ s2[b - 1] = s[b - 1])
        BY <2>2, <3>2
      <4>2. s[b] = IF b = 0 THEN Now ELSE AfterVault(s[b - 1], b, e)
        BY <2>1, <4>1 DEF Releases
      <4> QED
        BY <4>1, <4>2
    <3> QED
      BY <3>1, <3>2
  <2> HIDE DEF s2
  <2>6. Releases(s2, n + 1, e)
    BY <2>4, <2>5 DEF Releases
  <2> QED
    BY <1>0, <2>2, <2>4, <2>6
<1>3. \A n \in 0..NUsers : n \in S
  BY <1>0, <1>1, <1>2, UpTo, Zenon
<1> QED
  BY <1>0, <1>3

LEMMA AfterVaultsIsLast ==
  ASSUME FoundationTypeOK, Now \in Accs, NEW e \in Epochs
  PROVE  \E s : /\ AfterVaults(e) = s[NUsers] /\ s[0] = Now
                /\ \A n \in 0..(NUsers - 1) : s[n + 1] = AfterVault(s[n], n + 1, e)
<1> DEFINE c == CHOOSE s : s = [b \in 0..NUsers |-> IF b = 0 THEN Now ELSE AfterVault(s[b - 1], b, e)]
<1>1. c = [b \in 0..NUsers |-> IF b = 0 THEN Now ELSE AfterVault(c[b - 1], b, e)]
  <2>1. \E s : s = [b \in 0..NUsers |-> IF b = 0 THEN Now ELSE AfterVault(s[b - 1], b, e)]
    BY ReleasesExist, Zenon DEF Releases
  <2> QED
    BY <2>1, Zenon
<1>2. AfterVaults(e) = c[NUsers]
  BY Zenon DEF AfterVaults, Now
<1> HIDE DEF c
<1>3. c[0] = Now /\ \A n \in 0..(NUsers - 1) : c[n + 1] = AfterVault(c[n], n + 1, e)
  <2>1. 0 \in 0..NUsers
    BY AgentConstants
  <2>2. \A b \in 0..NUsers : c[b] = IF b = 0 THEN Now ELSE AfterVault(c[b - 1], b, e)
    BY <1>1, Zenon
  <2>3. ASSUME NEW n \in 0..(NUsers - 1) PROVE c[n + 1] = AfterVault(c[n], n + 1, e)
    <3>1. n + 1 \in 0..NUsers /\ n + 1 # 0 /\ (n + 1) - 1 = n
      BY AgentConstants
    <3> QED
      BY <2>2, <3>1
  <2> QED
    BY <2>1, <2>2, <2>3
<1> QED
  BY <1>2, <1>3

(* All vaults: each that can releases what it has due, whatever the others. *)
LEMMA AllVaults ==
  ASSUME FoundationTypeOK, Now \in Accs, NEW e \in Epochs,
         NEW l, l = AfterVaults(e)
  PROVE  /\ l \in Accs /\ l.free[Pot] = free[Pot]
         /\ Total(l.free, l.reserved) = Total(free, reserved)
         /\ \A b \in Users : reserved[b] >= DueOf(b, e)
               => l.reserved[b] + DueOf(b, e) + stuck[b] = reserved[b] + l.stuck[b]
<1>1. PICK s : /\ l = s[NUsers] /\ s[0] = Now
               /\ \A n \in 0..(NUsers - 1) : s[n + 1] = AfterVault(s[n], n + 1, e)
  BY AfterVaultsIsLast
<1> DEFINE Done(n, b) ==
             IF b <= n
             THEN reserved[b] >= DueOf(b, e)
                    => s[n].reserved[b] + DueOf(b, e) + stuck[b] = reserved[b] + s[n].stuck[b]
             ELSE s[n].reserved[b] = reserved[b] /\ s[n].stuck[b] = stuck[b]
           S == {n \in 0..NUsers : /\ s[n] \in Accs /\ s[n].free[Pot] = free[Pot]
                                   /\ Total(s[n].free, s[n].reserved) = Total(free, reserved)
                                   /\ \A b \in Users : Done(n, b)}
<1>0. NUsers \in Nat /\ Users = 1..NUsers
  BY AgentConstants DEF Users
<1>2. 0 \in S
  <2>1. Now.free = free /\ Now.reserved = reserved /\ Now.stuck = stuck
    BY DEF Now
  <2>2. \A b \in Users : Done(0, b)
    BY <1>0, <1>1, <2>1
  <2> QED
    BY <1>0, <1>1, <2>1, <2>2
<1>3. ASSUME NEW n \in 0..(NUsers - 1), n \in S PROVE n + 1 \in S
  <2> DEFINE b0 == n + 1
  <2>1. b0 \in Users /\ b0 \in 0..NUsers /\ n \in Nat /\ ~(b0 <= n)
    BY <1>0
  <2>2. s[n] \in Accs /\ s[n].free[Pot] = free[Pot]
        /\ Total(s[n].free, s[n].reserved) = Total(free, reserved) /\ \A b \in Users : Done(n, b)
    BY <1>3
  <2>3. s[b0] = AfterVault(s[n], b0, e)
    BY <1>1
  <2>4. s[n].reserved[b0] = reserved[b0] /\ s[n].stuck[b0] = stuck[b0]
    BY <2>1, <2>2
  <2>6. /\ s[b0] \in Accs /\ s[b0].free[Pot] = s[n].free[Pot]
        /\ Total(s[b0].free, s[b0].reserved) = Total(s[n].free, s[n].reserved)
        /\ s[n].reserved[b0] >= DueOf(b0, e)
             => s[b0].reserved[b0] + DueOf(b0, e) + s[n].stuck[b0] = s[n].reserved[b0] + s[b0].stuck[b0]
        /\ \A a \in Users : a # b0 => s[b0].reserved[a] = s[n].reserved[a] /\ s[b0].stuck[a] = s[n].stuck[a]
    <3> HIDE DEF b0
    <3> QED
      BY <2>1, <2>2, <2>3, OneVault
  <2>7. ASSUME NEW b \in Users PROVE Done(b0, b)
    <3>1. Done(n, b)
      BY <2>2
    <3>2. CASE b = b0
      BY <2>1, <2>4, <2>6, <3>2
    <3>3. CASE b # b0
      <4>1. b <= n <=> b <= b0
        BY <1>0, <2>1, <3>3
      <4>2. s[b0].reserved[b] = s[n].reserved[b] /\ s[b0].stuck[b] = s[n].stuck[b]
        BY <2>6, <3>3
      <4> HIDE DEF b0
      <4> QED
        BY <3>1, <4>1, <4>2
    <3> QED
      BY <3>2, <3>3
  <2> HIDE DEF Done
  <2> QED
    BY <2>1, <2>2, <2>6, <2>7
<1>4. \A n \in 0..NUsers : n \in S
  <2> HIDE DEF S
  <2> QED
    BY <1>0, <1>2, <1>3, UpTo, Zenon
<1>5. NUsers \in S /\ \A b \in Users : b <= NUsers
  BY <1>0, <1>4
<1> QED
  BY <1>1, <1>5

-----------------------------------------------------------------------------
(* A new epoch. *)

LEMMA DivMonotone ==
  ASSUME NEW n \in Nat \ {0}, NEW a \in Nat, NEW b \in Nat, a <= b
  PROVE  a \div n <= b \div n
<1> DEFINE q == a \div n
           p == b \div n
<1>1. q \in Nat /\ p \in Nat /\ a % n \in 0..(n - 1) /\ b % n \in 0..(n - 1)
      /\ a = n * q + (a % n) /\ b = n * p + (b % n)
  BY DivMod
<1> HIDE DEF q, p
<1>2. SUFFICES ASSUME p < q PROVE FALSE
  BY <1>1 DEF q, p
<1>3. n * p + n <= n * q
  BY <1>1, <1>2, ProductOrder
<1>4. n * p \in Nat /\ n * q \in Nat
  BY <1>1, ProductNat
<1> QED
  BY <1>1, <1>3, <1>4

LEMMA EpochInRange ==
  ASSUME NEW b \in Blocks
  PROVE  b \div Duration \in Epochs
<1>1. b \in Nat /\ MaxBlock \in Nat /\ b <= MaxBlock /\ Duration \in Nat \ {0}
  BY AgentConstants DEF Blocks
<1>2. b \div Duration \in Nat /\ MaxBlock \div Duration \in Nat
      /\ b \div Duration <= MaxBlock \div Duration
  BY <1>1, DivMod, DivMonotone
<1> QED
  BY <1>2 DEF Epochs

LEMMA VaultAfterIsVault ==
  ASSUME NEW v \in VaultType, NEW e \in Nat
  PROVE  VaultAfter(v, e) \in VaultType
<1> DEFINE n == IF v.times = 0 THEN EpochWidth - 1 ELSE v.times - 1
<1>1. n \in Numbers
  BY AgentConstants DEF VaultType, Numbers
<1>2. VaultAfter(v, e) \in {v, NoVault, [v EXCEPT !.times = n]}
  BY DEF VaultAfter
<1> HIDE DEF n
<1>3. [v EXCEPT !.times = n] \in VaultType
  BY <1>1 DEF VaultType
<1> QED
  BY <1>2, <1>3, NoVaultIsEmpty

(* What a vault has to come in the next epoch, and what it releases. *)
LEMMA VaultReleases ==
  ASSUME NEW v \in VaultType, v = NoVault \/ HasParts(v), NEW e0 \in Nat, NEW e, e = e0 + 1,
         NEW d, d = IF ~IsRelease(v, e) THEN 0 ELSE IF e = v.delay THEN v.first ELSE v.amount
  PROVE  /\ VaultAfter(v, e) = NoVault \/ HasParts(VaultAfter(v, e))
         /\ Remaining(v, e0) = Remaining(VaultAfter(v, e), e) + d
         /\ Remaining(v, e0) \in Nat /\ d \in Nat /\ d <= Remaining(v, e0)
<1>1. v.times \in Nat /\ v.amount \in Nat /\ v.first \in Nat /\ v.delay \in Nat
      /\ v.interval \in Nat /\ v.amount * v.times \in Nat
  BY VaultAmounts
<1>2. e \in Nat
  OBVIOUS
<1>6. v.amount \in Nat
  BY <1>1
<1>3. CASE ~IsRelease(v, e)
  <2>1. VaultAfter(v, e) = v /\ d = 0
    BY <1>3 DEF VaultAfter
  <2>2. v = NoVault \/ e # v.delay
    <3> SUFFICES ASSUME v # NoVault, e = v.delay PROVE FALSE
      OBVIOUS
    <3>0. v.interval \in Nat \ {0}
      BY <1>1 DEF HasParts
    <3>1. (e - v.delay) % v.interval = 0
      <4>1. e - v.delay = v.interval * 0 + 0 /\ 0 \in 0..(v.interval - 1)
        BY <1>1, <3>0
      <4> QED
        BY <3>0, <4>1, DivUnique
    <3> QED
      BY <1>1, <1>3, <3>0, <3>1 DEF IsRelease
  <2>3. Remaining(v, e0) = Remaining(v, e)
    <3>1. CASE v = NoVault
      BY <1>2, <3>1, NoVaultIsEmpty
    <3>2. CASE e # v.delay
      BY <1>1, <1>2, <3>2 DEF Remaining
    <3> QED
      BY <2>2, <3>1, <3>2
  <2>4. Remaining(v, e0) \in Nat
    BY VaultAmounts
  <2> QED
    BY <2>1, <2>3, <2>4
<1>4. CASE IsRelease(v, e) /\ e = v.delay
  <2>1. VaultAfter(v, e) = v /\ d = v.first
    BY <1>4 DEF VaultAfter
  <2>2. Remaining(v, e0) = v.amount * v.times + v.first /\ Remaining(v, e) = v.amount * v.times + 0
    BY <1>1, <1>2, <1>4 DEF Remaining
  <2> QED
    BY <1>1, <2>1, <2>2
<1>5. CASE IsRelease(v, e) /\ e # v.delay
  <2>1. v.times > 0 /\ v.interval > 0 /\ e > v.delay /\ ~(e < v.delay) /\ ~(e0 < v.delay)
    BY <1>1, <1>2, <1>5 DEF IsRelease, HasParts
  <2>2. d = v.amount /\ Remaining(v, e0) = v.amount * v.times
    BY <1>1, <1>5, <2>1 DEF Remaining
  <2>3. CASE v.times = 1
    <3>1. VaultAfter(v, e) = NoVault
      BY <1>5, <2>3 DEF VaultAfter
    <3>2. v.amount * v.times = v.amount
      BY <1>1, <2>3
    <3> QED
      BY <1>1, <1>2, <2>2, <3>1, <3>2, NoVaultIsEmpty
  <2>4. CASE v.times # 1
    <3> DEFINE w == [v EXCEPT !.times = @ - 1]
    <3>1. VaultAfter(v, e) = w
      BY <1>1, <1>5, <2>1, <2>4 DEF VaultAfter
    <3>2. w.times = v.times - 1 /\ w.amount = v.amount /\ w.delay = v.delay /\ HasParts(w)
      BY <1>1, <2>1, <2>4 DEF VaultType, HasParts
    <3> HIDE DEF w
    <3>3. Remaining(w, e) = v.amount * (v.times - 1)
      BY <1>1, <2>1, <3>2 DEF Remaining
    <3>4. v.amount * (v.times - 1) = v.amount * v.times - v.amount * 1 /\ v.amount * 1 = v.amount
          /\ v.amount * (v.times - 1) \in Nat
      <4>1. v.times - 1 \in Nat /\ 1 \in Int /\ v.times \in Int /\ v.amount \in Int
        BY <1>1, <2>1
      <4> QED
        BY <1>1, <4>1, Products, ProductNat
    <3> DEFINE p == v.amount * v.times
    <3>5. d = v.amount /\ p \in Nat /\ Remaining(v, e0) = p /\ Remaining(w, e) = p - v.amount /\ p - v.amount \in Nat
      BY <1>1, <2>2, <3>3, <3>4
    <3> HIDE DEF p
    <3>6. /\ Remaining(v, e0) = Remaining(w, e) + d
          /\ Remaining(v, e0) \in Nat /\ d \in Nat /\ d <= Remaining(v, e0)
      BY <1>6, <3>5
    <3> QED
      BY <3>1, <3>2, <3>6
  <2> QED
    BY <2>3, <2>4
<1> QED
  BY <1>3, <1>4, <1>5

(* A part that was to come still is, unless it has just come. *)
LEMMA PartsToCome ==
  ASSUME NEW v \in VaultType, HasParts(v), NEW e0 \in Nat, NEW e, e = e0 + 1, NEW c \in Nat,
         c > e0, IsRelease(v, c), c < LastRelease(v, e0), c # e \/ ~IsRelease(v, e)
  PROVE  c > e /\ IsRelease(VaultAfter(v, e), c) /\ c < LastRelease(VaultAfter(v, e), e)
<1> DEFINE n == v.interval
<1>0. v # NoVault
  BY DEF HasParts, NoVault
<1>1. v.times \in Nat /\ v.times > 0 /\ v.delay \in Nat /\ n \in Nat \ {0} /\ e \in Nat /\ c > e
  BY VaultAmounts DEF IsRelease, HasParts
<1>2. CASE e <= v.delay
  <2>1. VaultAfter(v, e) = v
    BY <1>1, <1>2 DEF VaultAfter, IsRelease
  <2>2. PartsBy(v, e0) = 0
    BY <1>1, <1>2 DEF PartsBy
  <2>3. PartsBy(v, e) = 0
    <3>1. CASE e < v.delay
      BY <3>1 DEF PartsBy
    <3>2. CASE e = v.delay
      <4>1. e - v.delay = n * 0 + 0 /\ 0 \in 0..(n - 1)
        BY <1>1, <3>2
      <4>2. (e - v.delay) \div n = 0
        BY <1>1, <4>1, DivUnique
      <4> QED
        BY <1>1, <3>2, <4>2 DEF PartsBy
    <3> QED
      BY <1>1, <1>2, <3>1, <3>2
  <2> QED
    BY <1>1, <2>1, <2>2, <2>3 DEF LastRelease
<1>3. CASE e > v.delay
  <2> DEFINE a == e0 - v.delay
             q == a \div n
  <2>1. a \in Nat /\ e - v.delay = a + 1 /\ q \in Nat
    <3>1. a \in Nat /\ e - v.delay = a + 1
      BY <1>1, <1>3
    <3> QED
      BY <1>1, <3>1, DivMod
  <2>2. PartsBy(v, e0) = q /\ PartsBy(v, e) = (a + 1) \div n
    BY <1>1, <1>3, <2>1 DEF PartsBy
  <2>3. (a + 1) \div n = IF (a + 1) % n = 0 THEN q + 1 ELSE q
    BY <1>1, <2>1, DivNext
  <2>4. IsRelease(v, e) <=> (a + 1) % n = 0
    BY <1>0, <1>1, <1>3, <2>1 DEF IsRelease
  <2>5. CASE ~IsRelease(v, e)
    BY <1>1, <2>2, <2>3, <2>4, <2>5 DEF VaultAfter, LastRelease
  <2>6. CASE IsRelease(v, e) /\ v.times = 1
    <3>1. (a + 1) \div n = q + 1 /\ (a + 1) % n = 0
      BY <2>3, <2>4, <2>6
    <3>2. a + 1 = n * (q + 1)
      <4>1. a + 1 \in Nat /\ n * (q + 1) \in Nat
        BY <1>1, <2>1, ProductNat
      <4>2. a + 1 = n * ((a + 1) \div n) + ((a + 1) % n)
        BY <1>1, <4>1, DivMod
      <4> QED
        BY <3>1, <4>1, <4>2
    <3>3. c < v.delay + (1 + q) * n
      BY <2>2, <2>6 DEF LastRelease
    <3>4. (1 + q) * n = n * (q + 1)
      BY <1>1, <2>1, Products
    <3> QED
      BY <1>1, <2>1, <3>2, <3>3, <3>4
  <2>7. CASE IsRelease(v, e) /\ v.times # 1
    <3> DEFINE w == [v EXCEPT !.times = @ - 1]
    <3>1. VaultAfter(v, e) = w
      BY <1>1, <1>3, <2>7 DEF VaultAfter
    <3>2. w.times = v.times - 1 /\ w.delay = v.delay /\ w.interval = n /\ w # NoVault
      BY <1>1, <2>7 DEF VaultType, NoVault
    <3>3. PartsBy(w, e) = q + 1
      BY <2>2, <2>3, <2>4, <2>7, <3>2 DEF PartsBy
    <3>4. w.times + (q + 1) = v.times + q
      BY <1>1, <2>1, <3>2
    <3>5. LastRelease(w, e) = LastRelease(v, e0)
      BY <2>2, <3>2, <3>3, <3>4 DEF LastRelease
    <3>6. IsRelease(w, c)
      BY <1>1, <2>7, <3>2 DEF IsRelease
    <3> QED
      BY <1>1, <3>1, <3>5, <3>6
  <2> QED
    BY <2>5, <2>6, <2>7
<1> QED
  BY <1>1, <1>2, <1>3

LEMMA BlockStep ==
  ASSUME now \in Blocks, now' \in Blocks, now' = now + 1,
         free \in [Accounts -> Nat], reserved \in [Users -> Nat],
         FoundationInv, authorized' = authorized, initialize(now')
  PROVE  /\ free' \in [Accounts -> Nat] /\ reserved' \in [Users -> Nat]
         /\ FoundationInv' /\ free'[Pot] = free[Pot]
         /\ Total(free', reserved') = Total(free, reserved)
<1>1. now \in Nat /\ Duration \in Nat \ {0} /\ epoch \in Nat
  BY EpochsAreNatural, AgentConstants
<1>2. epoch' = IF (now + 1) % Duration = 0 THEN epoch + 1 ELSE epoch
  BY <1>1, DivNext DEF epoch
<1>3. CASE (now + 1) % Duration # 0
  <2>1. UNCHANGED <<ledger, foundationVars>>
    BY <1>3 DEF initialize
  <2>2. /\ free' = free /\ reserved' = reserved /\ vaults' = vaults /\ approvals' = approvals
        /\ stuck' = stuck /\ unsound' = unsound
    BY <2>1 DEF ledger, foundationVars
  <2>3. epoch' = epoch
    BY <1>2, <1>3
  <2> QED
    BY <2>2, <2>3 DEF FoundationInv, FoundationTypeOK, SoundVaultsHaveParts, ReservedAddsUp,
       ApprovalsArePending
<1>4. CASE (now + 1) % Duration = 0
  <2> DEFINE e == epoch + 1
             l == AfterVaults(e)
  <2>1. epoch' = e /\ e \in Epochs /\ (now + 1) \div Duration = e
    <3>1. epoch' = e
      BY <1>2, <1>4
    <3>2. epoch' \in Epochs
      BY EpochInRange DEF epoch
    <3> QED
      BY <3>1, <3>2 DEF epoch
  <2>2. unlock_fund(e)
    BY <1>4, <2>1 DEF initialize
  <2>3. /\ free' = l.free /\ reserved' = l.reserved /\ stuck' = l.stuck /\ unsound' = unsound
        /\ vaults' = [b \in Users |-> VaultAfter(vaults[b], e)]
        /\ approvals' = [k \in Users \X Epochs |->
               IF k[2] = e /\ IsRelease(vaults[k[1]], e) THEN Nobody ELSE approvals[k]]
    BY <2>2 DEF unlock_fund
  <2>4. /\ FoundationTypeOK /\ SoundVaultsHaveParts /\ ReservedAddsUp /\ ApprovalsArePending
        /\ authorized \in [Users -> Nat]
    BY DEF FoundationInv
  <2>5. Now \in Accs /\ Now.free = free
    BY <2>4 DEF Now, Accs, FoundationTypeOK
  <2>6. ASSUME NEW b \in Users \ unsound
        PROVE  /\ VaultAfter(vaults[b], e) = NoVault \/ HasParts(VaultAfter(vaults[b], e))
               /\ Remaining(vaults[b], epoch) = Remaining(VaultAfter(vaults[b], e), e) + DueOf(b, e)
               /\ DueOf(b, e) \in Nat /\ Remaining(vaults[b], epoch) \in Nat
               /\ DueOf(b, e) <= Remaining(vaults[b], epoch)
    <3>1. vaults[b] \in VaultType /\ (vaults[b] = NoVault \/ HasParts(vaults[b]))
      BY <2>4 DEF FoundationTypeOK, SoundVaultsHaveParts
    <3> QED
      BY <1>1, <3>1, VaultReleases DEF DueOf
  <2>7. ASSUME NEW b \in Users \ unsound PROVE reserved[b] >= DueOf(b, e)
    <3>1. reserved[b] = Remaining(vaults[b], epoch) + authorized[b] + stuck[b]
      BY <2>4 DEF ReservedAddsUp
    <3>2. authorized[b] \in Nat /\ stuck[b] \in Nat
      BY <2>4 DEF FoundationTypeOK
    <3> QED
      BY <2>6, <3>1, <3>2
  <2>8. /\ l \in Accs /\ l.free[Pot] = free[Pot]
        /\ Total(l.free, l.reserved) = Total(free, reserved)
        /\ \A b \in Users : reserved[b] >= DueOf(b, e)
              => l.reserved[b] + DueOf(b, e) + stuck[b] = reserved[b] + l.stuck[b]
    <3> HIDE DEF e
    <3> QED
      BY <2>1, <2>4, <2>5, AllVaults
  <2> HIDE DEF l, e
  <2>9. free' \in [Accounts -> Nat] /\ reserved' \in [Users -> Nat] /\ stuck' \in [Users -> Nat]
    BY <2>3, <2>8 DEF Accs
  <2>10. FoundationTypeOK'
    <3>1. vaults' \in [Users -> VaultType]
      <4>1. e \in Nat
        BY <1>1 DEF e
      <4>2. \A b \in Users : VaultAfter(vaults[b], e) \in VaultType
        BY <2>4, <4>1, VaultAfterIsVault DEF FoundationTypeOK
      <4> QED
        BY <2>3, <4>2
    <3>2. approvals' \in [Users \X Epochs -> Users \cup {Nobody}]
      BY <2>3, <2>4 DEF FoundationTypeOK
    <3> QED
      BY <2>3, <2>4, <2>9, <3>1, <3>2 DEF FoundationTypeOK
  <2>11. SoundVaultsHaveParts'
    BY <2>3, <2>6 DEF SoundVaultsHaveParts
  <2>12. ReservedAddsUp'
    <3> SUFFICES ASSUME NEW b \in Users \ unsound
                 PROVE  reserved'[b] = Remaining(vaults'[b], e) + authorized[b] + stuck'[b]
      BY <2>1, <2>3 DEF ReservedAddsUp
    <3>1. /\ reserved[b] = Remaining(vaults[b], epoch) + authorized[b] + stuck[b]
          /\ stuck[b] \in Nat /\ authorized[b] \in Nat
      BY <2>4 DEF ReservedAddsUp, FoundationTypeOK
    <3>2. vaults'[b] = VaultAfter(vaults[b], e)
      BY <2>3
    <3>3. reserved'[b] + DueOf(b, e) + stuck[b] = reserved[b] + stuck'[b]
      BY <2>3, <2>7, <2>8
    <3>4. Remaining(vaults'[b], e) \in Nat
      <4>1. vaults'[b] \in VaultType /\ e \in Nat
        BY <1>1, <2>10 DEF FoundationTypeOK, e
      <4> QED
        BY <4>1, VaultAmounts
    <3>5. /\ Remaining(vaults[b], epoch) = Remaining(vaults'[b], e) + DueOf(b, e)
          /\ DueOf(b, e) \in Nat
      BY <2>6, <3>2
    <3>6. reserved'[b] \in Nat /\ stuck'[b] \in Nat
      BY <2>9
    <3> QED
      BY <3>1, <3>3, <3>4, <3>5, <3>6
  <2>13. ApprovalsArePending'
    <3> SUFFICES ASSUME NEW b \in Users \ unsound, NEW c \in Epochs, approvals'[<<b, c>>] # Nobody
                 PROVE  c > e /\ IsRelease(vaults'[b], c) /\ c < LastRelease(vaults'[b], e)
      BY <2>1, <2>3 DEF ApprovalsArePending
    <3>1. approvals[<<b, c>>] # Nobody /\ (c # e \/ ~IsRelease(vaults[b], e))
      BY <2>3
    <3>2. c > epoch /\ IsRelease(vaults[b], c) /\ c < LastRelease(vaults[b], epoch)
      BY <2>4, <3>1 DEF ApprovalsArePending
    <3>3. vaults[b] \in VaultType /\ c \in Nat
      BY <2>4, AgentConstants DEF FoundationTypeOK, Epochs
    <3>4. vaults'[b] = VaultAfter(vaults[b], e)
      BY <2>3
    <3>5. HasParts(vaults[b])
      BY <2>4, <3>2 DEF SoundVaultsHaveParts, IsRelease
    <3> QED
      BY <1>1, <3>1, <3>2, <3>3, <3>4, <3>5, PartsToCome DEF e
  <2>14. authorized' \in [Users -> Nat]
    BY <2>4
  <2> QED
    BY <2>3, <2>8, <2>9, <2>10, <2>11, <2>12, <2>13, <2>14 DEF FoundationInv
<1> QED
  BY <1>3, <1>4

-----------------------------------------------------------------------------
(* Calls. *)

LEMMA FoundationStands ==
  ASSUME FoundationInv, reserved' = reserved, now' = now, authorized' = authorized,
         UNCHANGED foundationVars
  PROVE  FoundationInv'
<1>1. /\ vaults' = vaults /\ approvals' = approvals /\ stuck' = stuck /\ unsound' = unsound
      /\ epoch' = epoch
  BY DEF foundationVars, epoch
<1> QED
  BY <1>1 DEF FoundationInv, FoundationTypeOK, SoundVaultsHaveParts, ReservedAddsUp, ApprovalsArePending

LEMMA MarketStands ==
  ASSUME MarketTypeOK, OpenedStand, UNCHANGED marketVars
  PROVE  MarketTypeOK' /\ OpenedStand' /\ brokers' = brokers
BY DEF marketVars, MarketTypeOK, OpenedStand

(* A call that is made, with the arguments of its operation. *)
LEMMA Dispatched ==
  ASSUME NEW f \in [Accounts -> Nat], NEW u \in Users, NEW c \in CallType,
         now \in Blocks, now' = now, reserved \in [Users -> Nat],
         MarketTypeOK, OpenedStand, FoundationInv,
         f[Pot] = SumTo(Stakes(brokers), NUsers),
         Can(f, u, c), Dispatch(f, u, c)
  PROVE  /\ free' \in [Accounts -> Nat] /\ reserved' \in [Users -> Nat]
         /\ MarketTypeOK' /\ OpenedStand' /\ FoundationInv'
         /\ free'[Pot] = SumTo(Stakes(brokers'), NUsers)
         /\ Total(free', reserved') = Total(f, reserved)
<1>1. CASE c.op = "transfer"
  <2>1. c.to \in Users /\ c.amount \in Nat
    BY <1>1 DEF CallType
  <2>2. CanMove(f, u, c.amount)
    BY <1>1 DEF Can
  <2>3. /\ free' = Moved(f, u, c.to, c.amount) /\ reserved' = reserved /\ authorized' = authorized
        /\ UNCHANGED marketVars /\ UNCHANGED foundationVars
    BY <1>1 DEF Dispatch, pallets
  <2>4. u \in Accounts /\ c.to \in Accounts /\ f[u] >= c.amount /\ Pot # u /\ Pot # c.to
    BY <2>1, <2>2, AgentConstants DEF CanMove
  <2>5. free' \in [Accounts -> Nat] /\ free'[Pot] = f[Pot]
    <3>1. Moved(f, u, c.to, c.amount) \in [Accounts -> Nat]
          /\ (u = c.to => Moved(f, u, c.to, c.amount) = f)
          /\ \A d \in Accounts : d # u /\ d # c.to => Moved(f, u, c.to, c.amount)[d] = f[d]
      BY <2>1, <2>4, MovedBalances
    <3> QED
      BY <2>3, <2>4, <3>1, AgentConstants
  <2>6. Total(free', reserved') = Total(f, reserved)
    BY <2>1, <2>3, <2>4, MovedKeepsTotal
  <2> QED
    BY <2>3, <2>5, <2>6, MarketStands, FoundationStands
<1>2. CASE c.op = "register_broker"
  <2>1. c.broker \in Users
    BY <1>2 DEF CallType
  <2>2. can_register_broker(f, u, c.broker) /\ register_broker(f, u, c.broker)
        /\ UNCHANGED foundationVars /\ authorized' = authorized
    BY <1>2 DEF Can, Dispatch
  <2> QED
    BY <2>1, <2>2, RegisterBroker, FoundationStands
<1>3. CASE c.op = "deregister_broker"
  <2>1. c.broker \in Users
    BY <1>3 DEF CallType
  <2>2. can_deregister_broker(f, u, c.broker) /\ deregister_broker(f, u, c.broker)
        /\ UNCHANGED foundationVars /\ authorized' = authorized
    BY <1>3 DEF Can, Dispatch
  <2> QED
    BY <2>1, <2>2, DeregisterBroker, FoundationStands
<1>4. ASSUME NEW k \in MarketKeys, NEW terms \in Terms,
             \/ can_register_market(k) /\ register_market(f, k, terms)
             \/ can_open_market(k) /\ open_market(f, k, terms),
             UNCHANGED foundationVars, authorized' = authorized
      PROVE  /\ free' \in [Accounts -> Nat] /\ reserved' \in [Users -> Nat]
             /\ MarketTypeOK' /\ OpenedStand' /\ FoundationInv'
             /\ free'[Pot] = SumTo(Stakes(brokers'), NUsers)
             /\ Total(free', reserved') = Total(f, reserved)
  <2>2. free' = f /\ reserved' = reserved /\ brokers' = brokers /\ MarketTypeOK' /\ OpenedStand'
    BY <1>4, MarketCall
  <2> QED
    BY <1>4, <2>2, FoundationStands
<1>5. CASE c.op = "apply_for_token_listing"
  <2>1. <<c.dominator, c.symbol>> \in MarketKeys /\ c.terms \in Terms
    BY <1>5 DEF CallType, MarketKeys
  <2>2. can_register_market(<<c.dominator, c.symbol>>)
        /\ register_market(f, <<c.dominator, c.symbol>>, c.terms)
        /\ UNCHANGED foundationVars /\ authorized' = authorized
    BY <1>5 DEF Can, Dispatch
  <2> QED
    BY <1>4, <2>1, <2>2
<1>6. CASE c.op = "open_market"
  <2>1. c.symbol \in Symbols /\ c.terms \in Terms
    BY <1>6 DEF CallType
  <2>2. u \in Dominators /\ can_open_market(<<u, c.symbol>>)
        /\ open_market(f, <<u, c.symbol>>, c.terms)
        /\ UNCHANGED foundationVars /\ authorized' = authorized
    BY <1>6 DEF Can, Dispatch
  <2> QED
    BY <1>4, <2>1, <2>2 DEF MarketKeys
<1>7. CASE c.op \in {"authorize", "revoke"}
  <2>1. c.amount \in Nat
    BY <1>7 DEF CallType
  <2>2. \/ can_reserve(f, u, c.amount) /\ reserve(f, u, c.amount)
        \/ can_unreserve(u, c.amount) /\ unreserve(f, u, c.amount)
    BY <1>7 DEF Can, Dispatch
  <2>3. UNCHANGED marketVars /\ UNCHANGED foundationVars
    BY <1>7 DEF Dispatch
  <2>4. /\ free' \in [Accounts -> Nat] /\ reserved' \in [Users -> Nat] /\ FoundationInv'
        /\ free'[Pot] = f[Pot] /\ Total(free', reserved') = Total(f, reserved)
    BY <2>1, <2>2, <2>3, Authorized
  <2> QED
    BY <2>3, <2>4, MarketStands
<1>8. CASE c.op = "put_into_vault"
  <2>1. c.to \in Users /\ c.fund \in VaultType /\ c.need_to_approve \in BOOLEAN
    BY <1>8 DEF CallType
  <2>2. can_put_into_vault(f, u, c.to, c.fund) /\ put_into_vault(f, u, c.to, c.fund, c.need_to_approve)
        /\ UNCHANGED marketVars /\ authorized' = authorized
    BY <1>8 DEF Can, Dispatch
  <2>3. /\ free' \in [Accounts -> Nat] /\ reserved' \in [Users -> Nat] /\ FoundationInv'
        /\ free'[Pot] = f[Pot] /\ Total(free', reserved') = Total(f, reserved)
    BY <2>1, <2>2, PutIntoVault
  <2> QED
    BY <2>2, <2>3, MarketStands
<1>9. CASE c.op = "approve"
  <2>1. c.of \in Users /\ c.epoch \in Epochs
    BY <1>9 DEF CallType
  <2>2. approve(f, u, c.of, c.epoch) /\ UNCHANGED marketVars /\ authorized' = authorized
    BY <1>9 DEF Can, Dispatch
  <2>3. free' = f /\ reserved' = reserved /\ FoundationInv'
    BY <2>1, <2>2, Approve
  <2> QED
    BY <2>2, <2>3, MarketStands
<1> QED
  BY <1>1, <1>2, <1>3, <1>5, <1>6, <1>7, <1>8, <1>9 DEF CallType

LEMMA Executed ==
  ASSUME NEW f \in [Accounts -> Nat], NEW u \in Users, NEW c \in CallType,
         now \in Blocks, now' = now, reserved \in [Users -> Nat],
         MarketTypeOK, OpenedStand, FoundationInv,
         f[Pot] = SumTo(Stakes(brokers), NUsers), Execute(f, u, c)
  PROVE  /\ free' \in [Accounts -> Nat] /\ reserved' \in [Users -> Nat]
         /\ MarketTypeOK' /\ OpenedStand' /\ FoundationInv'
         /\ free'[Pot] = SumTo(Stakes(brokers'), NUsers)
         /\ Total(free', reserved') = Total(f, reserved)
<1>1. CASE Can(f, u, c) /\ Dispatch(f, u, c)
  BY <1>1, Dispatched
<1>2. CASE free' = f /\ UNCHANGED <<reserved, pallets>>
  <2>1. reserved' = reserved /\ authorized' = authorized
        /\ UNCHANGED marketVars /\ UNCHANGED foundationVars
    BY <1>2 DEF pallets
  <2> QED
    BY <1>2, <2>1, MarketStands, FoundationStands
<1> QED
  BY <1>1, <1>2 DEF Execute

-----------------------------------------------------------------------------
(* Nonces. *)

SigningTypeOK ==
    /\ nonce \in [Users -> 0..(MaxNonce + 1)]
    /\ settings \in [Dominators -> Users \cup {Nobody}]
    /\ uses \in [Users \X Nonces -> Nat]
    /\ burned \in Nat

(* As long as the account lives, and when it dies. *)
LEMMA NoncesStand ==
  ASSUME NEW counted \in [Users -> 0..(MaxNonce + 1)], NEW used \in [Users \X Nonces -> Nat],
         \A u \in Users, n \in Nonces : used[<<u, n>>] = IF n < counted[u] THEN 1 ELSE 0,
         NoncesAre(counted, used)
  PROVE  /\ nonce' \in [Users -> 0..(MaxNonce + 1)] /\ uses' \in [Users \X Nonces -> Nat]
         /\ OneUsePerLife'
<1> DEFINE dead == {u \in Users : Dies(u)}
<1>1. /\ nonce' = [u \in Users |-> IF u \in dead THEN 0 ELSE counted[u]]
      /\ uses' = [k \in Users \X Nonces |-> IF k[1] \in dead THEN 0 ELSE used[k]]
  BY DEF NoncesAre
<1> HIDE DEF dead
<1>2. nonce' \in [Users -> 0..(MaxNonce + 1)] /\ uses' \in [Users \X Nonces -> Nat]
  BY <1>1, AgentConstants
<1>3. ASSUME NEW u \in Users, NEW n \in Nonces
      PROVE  uses'[<<u, n>>] = IF n < nonce'[u] THEN 1 ELSE 0
  <2>1. n \in Nat
    BY AgentConstants DEF Nonces
  <2>2. CASE u \in dead
    BY <1>1, <2>1, <2>2
  <2>3. CASE u \notin dead
    BY <1>1, <2>3
  <2> QED
    BY <2>2, <2>3
<1> QED
  BY <1>2, <1>3 DEF OneUsePerLife

LEMMA NoncesKept ==
  ASSUME nonce \in [Users -> 0..(MaxNonce + 1)], uses \in [Users \X Nonces -> Nat], OneUsePerLife,
         KeepNonces
  PROVE  /\ nonce' \in [Users -> 0..(MaxNonce + 1)] /\ uses' \in [Users \X Nonces -> Nat]
         /\ OneUsePerLife'
BY NoncesStand DEF KeepNonces, OneUsePerLife

LEMMA NonceUsed ==
  ASSUME nonce \in [Users -> 0..(MaxNonce + 1)], uses \in [Users \X Nonces -> Nat], OneUsePerLife,
         NEW u \in Users, NEW n \in Nonces, nonce[u] = n, UseNonce(u, n)
  PROVE  /\ nonce' \in [Users -> 0..(MaxNonce + 1)] /\ uses' \in [Users \X Nonces -> Nat]
         /\ OneUsePerLife'
<1> DEFINE counted == [nonce EXCEPT ![u] = n + 1]
           used == [uses EXCEPT ![<<u, n>>] = uses[<<u, n>>] + 1]
<1>1. /\ NoncesAre(counted, used)
      /\ n \in Nat /\ n <= MaxNonce /\ MaxNonce \in Nat /\ uses[<<u, n>>] \in Nat
  BY AgentConstants DEF UseNonce, Nonces
<1>2. counted \in [Users -> 0..(MaxNonce + 1)] /\ used \in [Users \X Nonces -> Nat]
  BY <1>1
<1>3. ASSUME NEW w \in Users, NEW m \in Nonces
      PROVE  used[<<w, m>>] = IF m < counted[w] THEN 1 ELSE 0
  <2>1. m \in Nat /\ uses[<<w, m>>] = IF m < nonce[w] THEN 1 ELSE 0
    BY <1>3, AgentConstants DEF OneUsePerLife, Nonces
  <2>2. CASE w # u
    BY <1>1, <2>1, <2>2
  <2>3. CASE w = u /\ m # n
    BY <1>1, <2>1, <2>3
  <2>4. CASE w = u /\ m = n
    BY <1>1, <2>1, <2>4
  <2> QED
    BY <2>2, <2>3, <2>4
<1> HIDE DEF counted, used
<1> QED
  BY <1>1, <1>2, <1>3, NoncesStand

-----------------------------------------------------------------------------
(* The invariant: the ledger as the pallets see it, with every vault of a  *)
(* sound fund having a part to come, and every opened market still in its  *)
(* dominator's hands.                                                      *)
AgentInv ==
    /\ LedgerTypeOK /\ MarketTypeOK /\ SigningTypeOK
    /\ FoundationInv /\ OpenedStand /\ OneUsePerLife
    /\ free[Pot] = SumTo(Stakes(brokers), NUsers)
    /\ Total(free, reserved) + burned = SumTo(InitFree, NUsers)

LEMMA AgentInvInitially == AgentInit => AgentInv
<1> SUFFICES ASSUME AgentInit PROVE AgentInv
  OBVIOUS
<1> USE AgentConstants
<1>1. LedgerTypeOK
  BY DEF AgentInit, LedgerInit, LedgerTypeOK, Blocks, Users, Accounts, Pot
<1>2. MarketTypeOK
  BY DEF AgentInit, MarketInit, MarketTypeOK, NoBroker, NoMarket
<1>3. SigningTypeOK
  BY DEF AgentInit, SigningTypeOK, Nobody
<1>4. FoundationTypeOK /\ SoundVaultsHaveParts /\ authorized \in [Users -> Nat]
  BY NoVaultIsEmpty, 0 \in Nat
  DEF AgentInit, FoundationInit, FoundationTypeOK, SoundVaultsHaveParts, Nobody
<1>5. ReservedAddsUp
  <2>1. epoch \in Nat
    BY <1>1, EpochsAreNatural DEF LedgerTypeOK
  <2>2. Remaining(NoVault, epoch) = 0
    BY <2>1, NoVaultIsEmpty
  <2> QED
    BY <2>2 DEF AgentInit, LedgerInit, FoundationInit, ReservedAddsUp
<1>6. ApprovalsArePending
  BY DEF AgentInit, FoundationInit, ApprovalsArePending
<1>7. OpenedStand
  BY DEF AgentInit, MarketInit, OpenedStand
<1>8. OneUsePerLife
  BY DEF AgentInit, OneUsePerLife, Nonces
<1>9. free[Pot] = SumTo(Stakes(brokers), NUsers)
  <2>1. \A j \in 1..NUsers : Stakes(brokers)[j] = 0
    BY DEF AgentInit, MarketInit, Stakes, NoBroker, Users
  <2>2. SumTo(Stakes(brokers), NUsers) = 0
    BY <1>2, <2>1, StakesAreNatural, SumToZeros
  <2>3. free[Pot] = 0
    BY DEF AgentInit, LedgerInit
  <2> QED
    BY <2>2, <2>3
<1>10. Total(free, reserved) + burned = SumTo(InitFree, NUsers)
  <2>1. free[Pot] = 0 /\ burned = 0
    BY DEF AgentInit, LedgerInit
  <2>2. ASSUME NEW u \in Users PROVE free[u] + reserved[u] = InitFree[u]
    BY DEF AgentInit, LedgerInit
  <2>3. Both(free, reserved) = InitFree
    BY <2>2 DEF Both
  <2>4. SumTo(InitFree, NUsers) \in Nat
    BY SumToNat DEF Users
  <2> QED
    BY <2>1, <2>3, <2>4 DEF Total
<1> QED
  BY <1>1, <1>2, <1>3, <1>4, <1>5, <1>6, <1>7, <1>8, <1>9, <1>10 DEF AgentInv, FoundationInv

(* What a call leaves of the invariant when its fee has been taken. *)
LEMMA CallKeepsInv ==
  ASSUME AgentInv, NEW f \in [Accounts -> Nat], NEW fee \in Nat,
         NEW u \in Users, NEW n \in Nonces, NEW c \in CallType,
         f[Pot] = free[Pot], Total(f, reserved) + fee = Total(free, reserved),
         nonce[u] = n, UseNonce(u, n), Execute(f, u, c),
         now' = now, settings' = settings, burned' = burned + fee
  PROVE  AgentInv'
<1>1. /\ LedgerTypeOK /\ MarketTypeOK /\ SigningTypeOK
      /\ FoundationInv /\ OpenedStand /\ OneUsePerLife
      /\ free[Pot] = SumTo(Stakes(brokers), NUsers)
      /\ Total(free, reserved) + burned = SumTo(InitFree, NUsers)
  BY DEF AgentInv
<1>2. now \in Blocks /\ free \in [Accounts -> Nat] /\ reserved \in [Users -> Nat]
  BY <1>1 DEF LedgerTypeOK
<1>3. /\ free' \in [Accounts -> Nat] /\ reserved' \in [Users -> Nat]
      /\ MarketTypeOK' /\ OpenedStand' /\ FoundationInv'
      /\ free'[Pot] = SumTo(Stakes(brokers'), NUsers)
      /\ Total(free', reserved') = Total(f, reserved)
  BY <1>1, <1>2, Executed
<1>4. /\ nonce' \in [Users -> 0..(MaxNonce + 1)] /\ uses' \in [Users \X Nonces -> Nat]
      /\ OneUsePerLife'
  BY <1>1, NonceUsed DEF SigningTypeOK
<1>5. LedgerTypeOK'
  BY <1>2, <1>3 DEF LedgerTypeOK
<1>6. burned \in Nat /\ burned' \in Nat
  BY <1>1 DEF SigningTypeOK
<1>7. SigningTypeOK'
  BY <1>1, <1>4, <1>6 DEF SigningTypeOK
<1>8. Total(free, reserved) \in Nat /\ Total(f, reserved) \in Nat
  BY <1>2, TotalIsNatural
<1>9. Total(free', reserved') + burned' = SumTo(InitFree, NUsers)
  BY <1>1, <1>3, <1>6, <1>8
<1> QED
  BY <1>3, <1>4, <1>5, <1>7, <1>9 DEF AgentInv

LEMMA SubmitKeepsInv ==
  ASSUME AgentInv, NEW u \in Users, NEW n \in Nonces, NEW c \in SignedCalls, Submit(u, n, c)
  PROVE  AgentInv'
<1>1. /\ nonce[u] = n /\ UseNonce(u, n) /\ Execute(free, u, c)
      /\ now' = now /\ settings' = settings /\ burned' = burned
  BY DEF Submit
<1>2. c \in CallType
  BY SignedCallsAssumption
<1>3. free \in [Accounts -> Nat] /\ reserved \in [Users -> Nat] /\ burned \in Nat
  BY DEF AgentInv, LedgerTypeOK, SigningTypeOK
<1>4. Total(free, reserved) + 0 = Total(free, reserved) /\ burned' = burned + 0
  BY <1>1, <1>3, TotalIsNatural
<1> QED
  BY <1>1, <1>2, <1>3, <1>4, CallKeepsInv

LEMMA SubmitExternalKeepsInv ==
  ASSUME AgentInv, NEW u \in Users, NEW n \in Nonces, NEW c \in SignedCalls,
         submit_external_tx(u, n, c)
  PROVE  AgentInv'
<1> DEFINE paid == [free EXCEPT ![u] = @ - Fee]
<1>1. /\ nonce[u] = n /\ UseNonce(u, n) /\ Execute(paid, u, c) /\ now' = now /\ settings' = settings
      /\ burned' = burned + Fee /\ (Fee > 0 => free[u] >= Fee)
  BY DEF submit_external_tx
<1>2. c \in CallType /\ Fee \in Nat /\ u \in Accounts /\ u # Pot /\ Pot \in Accounts
  BY SignedCallsAssumption, AgentConstants
<1>3. free \in [Accounts -> Nat] /\ reserved \in [Users -> Nat]
  BY DEF AgentInv, LedgerTypeOK
<1>4. /\ paid \in [Accounts -> Nat] /\ paid[Pot] = free[Pot] /\ paid[u] = free[u] - Fee
      /\ \A w \in Users : w # u => paid[w] = free[w]
  BY <1>1, <1>2, <1>3, AgentConstants
<1> HIDE DEF paid
<1>5. Total(paid, reserved) = Total(free, reserved) + (paid[u] + reserved[u]) - (free[u] + reserved[u])
  BY <1>3, <1>4, TotalChanges
<1>6. Total(paid, reserved) \in Nat /\ Total(free, reserved) \in Nat
      /\ reserved[u] \in Nat /\ free[u] \in Nat
  BY <1>2, <1>3, <1>4, TotalIsNatural
<1>7. Total(paid, reserved) + Fee = Total(free, reserved)
  BY <1>2, <1>4, <1>5, <1>6
<1> QED
  BY <1>1, <1>2, <1>4, <1>7, CallKeepsInv

LEMMA BeneficiaryKeepsInv ==
  ASSUME AgentInv, NEW d \in Dominators, NEW new \in Users, NEW n \in Nonces,
         dominator_set_beneficiary(d, new, n)
  PROVE  AgentInv'
<1>1. /\ now' = now /\ free' = free /\ reserved' = reserved /\ burned' = burned
      /\ settings' = [settings EXCEPT ![d] = new]
      /\ UNCHANGED marketVars /\ UNCHANGED foundationVars /\ authorized' = authorized
      /\ (IF settings[d] = Nobody THEN UNCHANGED <<nonce, uses>>
          ELSE nonce[settings[d]] = n /\ UseNonce(settings[d], n))
  BY DEF dominator_set_beneficiary, ledger, pallets
<1>2. /\ nonce' \in [Users -> 0..(MaxNonce + 1)] /\ uses' \in [Users \X Nonces -> Nat]
      /\ OneUsePerLife'
  <2>1. CASE settings[d] = Nobody
    BY <1>1, <2>1 DEF AgentInv, SigningTypeOK, OneUsePerLife
  <2>2. CASE settings[d] # Nobody
    <3>1. settings[d] \in Users
      BY <2>2 DEF AgentInv, SigningTypeOK
    <3> QED
      BY <1>1, <2>2, <3>1, NonceUsed DEF AgentInv, SigningTypeOK
  <2> QED
    BY <2>1, <2>2
<1>3. SigningTypeOK'
  BY <1>1, <1>2 DEF AgentInv, SigningTypeOK
<1>4. LedgerTypeOK'
  BY <1>1 DEF AgentInv, LedgerTypeOK
<1>5. MarketTypeOK' /\ OpenedStand' /\ brokers' = brokers
  BY <1>1, MarketStands DEF AgentInv
<1>6. FoundationInv'
  BY <1>1, FoundationStands DEF AgentInv
<1> QED
  BY <1>1, <1>2, <1>3, <1>4, <1>5, <1>6 DEF AgentInv

LEMMA BlockKeepsInv ==
  ASSUME AgentInv, NewBlock
  PROVE  AgentInv'
<1>1. /\ now < MaxBlock /\ now' = now + 1 /\ initialize(now') /\ KeepNonces
      /\ UNCHANGED marketVars /\ authorized' = authorized /\ settings' = settings /\ burned' = burned
  BY DEF NewBlock
<1>2. /\ now \in Blocks /\ free \in [Accounts -> Nat] /\ reserved \in [Users -> Nat] /\ FoundationInv
      /\ MarketTypeOK /\ OpenedStand
  BY DEF AgentInv, LedgerTypeOK
<1>3. now' \in Blocks
  BY <1>1, <1>2, AgentConstants DEF Blocks
<1>4. /\ free' \in [Accounts -> Nat] /\ reserved' \in [Users -> Nat]
      /\ FoundationInv' /\ free'[Pot] = free[Pot]
      /\ Total(free', reserved') = Total(free, reserved)
  BY <1>1, <1>2, <1>3, BlockStep
<1>5. MarketTypeOK' /\ OpenedStand' /\ brokers' = brokers
  BY <1>1, <1>2, MarketStands
<1>6. /\ nonce' \in [Users -> 0..(MaxNonce + 1)] /\ uses' \in [Users \X Nonces -> Nat]
      /\ OneUsePerLife'
  BY <1>1, NoncesKept DEF AgentInv, SigningTypeOK
<1>7. SigningTypeOK'
  BY <1>1, <1>6 DEF AgentInv, SigningTypeOK
<1> QED
  BY <1>1, <1>3, <1>4, <1>5, <1>6, <1>7 DEF AgentInv, LedgerTypeOK

LEMMA AgentStutters ==
  ASSUME AgentInv, UNCHANGED agentVars
  PROVE  AgentInv'
<1>1. /\ now' = now /\ free' = free /\ reserved' = reserved /\ burned' = burned
      /\ nonce' = nonce /\ settings' = settings /\ uses' = uses
      /\ UNCHANGED marketVars /\ UNCHANGED foundationVars /\ authorized' = authorized
  BY DEF agentVars, ledger, pallets
<1>2. MarketTypeOK' /\ OpenedStand' /\ brokers' = brokers
  BY <1>1, MarketStands DEF AgentInv
<1>3. FoundationInv'
  BY <1>1, FoundationStands DEF AgentInv
<1>4. LedgerTypeOK' /\ SigningTypeOK' /\ OneUsePerLife'
  BY <1>1 DEF AgentInv, LedgerTypeOK, SigningTypeOK, OneUsePerLife
<1> QED
  BY <1>1, <1>2, <1>3, <1>4 DEF AgentInv

LEMMA AgentInvAlways == AgentSpec => []AgentInv
<1>1. AgentInv /\ [AgentNext]_agentVars => AgentInv'
  <2> SUFFICES ASSUME AgentInv, [AgentNext]_agentVars PROVE AgentInv'
    OBVIOUS
  <2>1. CASE NewBlock
    BY <2>1, BlockKeepsInv
  <2>2. ASSUME NEW u \in Users, NEW n \in Nonces, NEW c \in SignedCalls,
               Submit(u, n, c) \/ submit_external_tx(u, n, c)
        PROVE  AgentInv'
    BY <2>2, SubmitKeepsInv, SubmitExternalKeepsInv
  <2>3. ASSUME NEW d \in Dominators, NEW new \in Users, NEW n \in Nonces,
               dominator_set_beneficiary(d, new, n)
        PROVE  AgentInv'
    BY <2>3, BeneficiaryKeepsInv
  <2>4. CASE UNCHANGED agentVars
    BY <2>4, AgentStutters
  <2> QED
    BY <2>1, <2>2, <2>3, <2>4 DEF AgentNext
<1> QED
  BY <1>1, AgentInvInitially, PTL DEF AgentSpec

(* The ledger as the pallets see it, for any funds, sound or not: what is  *)
(* reserved of an account with sound funds is what its vault has still to  *)
(* release, what dominators hold of it and what could not be given back;   *)
(* an approval that is asked for is about a part that is to come; every    *)
(* broker's stake is in the pot; and no token appears or vanishes but in   *)
(* fees, whoever's funds release what was never put into them.             *)
THEOREM LedgersAlwaysAgree == AgentSpec => []LedgersAgree
<1>1. AgentInv => LedgersAgree
  <2> SUFFICES ASSUME AgentInv PROVE LedgersAgree
    OBVIOUS
  <2>1. AgentTypeOK
    BY DEF AgentInv, AgentTypeOK, SigningTypeOK, FoundationInv
  <2>2. BrokersAreBacked
    BY BackedIsSum DEF AgentInv
  <2>3. Conservation
    BY SupplyIsTotal DEF AgentInv, Conservation
  <2> QED
    BY <2>1, <2>2, <2>3 DEF AgentInv, FoundationInv, LedgersAgree
<1> QED
  BY <1>1, AgentInvAlways, PTL

(* What was signed with a nonce is done once in a life of the account, in  *)
(* the order of the nonces, whoever submits it; when the account dies its  *)
(* nonces start again, and what was signed is good for once more.          *)
THEOREM NoncesAreUsedOncePerLife == AgentSpec => []OneUsePerLife
<1>1. AgentInv => OneUsePerLife
  BY DEF AgentInv
<1> QED
  BY <1>1, AgentInvAlways, PTL

(* A market a dominator has opened keeps the terms the dominator has set.  *)
THEOREM TermsStayTheDominators == AgentSpec => []TermsAreTheDominators
<1>1. AgentInv => TermsAreTheDominators
  BY DEF AgentInv, OpenedStand, TermsAreTheDominators
<1> QED
  BY <1>1, AgentInvAlways, PTL
=============================================================================
