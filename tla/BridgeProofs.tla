---------------------------- MODULE BridgeProofs ----------------------------
(***************************************************************************)
(* Proofs about the two halves of the bridge: the votes of the relayers    *)
(* (Chainbridge) and the tokens that cross it (Bridge), for any accounts,  *)
(* chains, proposals, decimals, fees and widths.                           *)
(*                                                                         *)
(* Of the votes: the inductive invariant joins the types with the relayer  *)
(* count and with what has been dispatched: the count must be known to be  *)
(* positive before a relayer is removed, and an open proposal must be      *)
(* known to be undispatched before its call is.                            *)
(*                                                                         *)
(* Of the tokens: balances are known to stay below their width only        *)
(* because the accounts' balances add up to the totals of the records, so  *)
(* that the types are inductive together with LedgerIsHeld.  The cover of  *)
(* the supply needs besides that what was announced was of issued tokens,  *)
(* and that associations stay: a contract that went over to a second token *)
(* would take its deposits along.  Conversions are compared in a common    *)
(* unit, the products of powers, and sums over accounts, resource ids and  *)
(* messages are reasoned about with the lemmas on SumFunctionOnSet here.   *)
(***************************************************************************)
EXTENDS Chainbridge, Bridge, SumsProofs, FiniteSetTheorems, TLAPS

VotesInv == TypeOK /\ RelayerCountIsExact /\ DispatchedOnceIfApproved

(* The constants, as the proofs use them. *)
LEMMA Constants ==
    /\ ProposalLifetime \in Nat /\ MaxBlock \in Nat /\ IsFiniteSet(Candidates)
BY CandidatesAssumption, BoundAssumption

(* A proposal nobody has voted on is well typed. *)
LEMMA NoVotesType == NoVotes \in ProposalVotes
BY DEF NoVotes, ProposalVotes

(* The proposal a vote is added to is well typed, and it is the stored one *)
(* unless there is none.                                                   *)
LEMMA BallotType ==
    ASSUME TypeOK, NEW p \in Proposals
    PROVE  /\ Ballot(p) \in ProposalVotes
           /\ votes[p] # NoVotes => Ballot(p) = votes[p]
<1>1. votes[p] \in ProposalVotes
  BY DEF TypeOK
<1>2. now + ProposalLifetime \in Nat
  BY Constants DEF TypeOK
<1> QED
  BY <1>1, <1>2, NoVotesType DEF Ballot, NoVotes, ProposalVotes

(* A vote added to a well-typed proposal leaves it well typed and does not *)
(* touch its status.                                                       *)
LEMMA CommitType ==
    ASSUME NEW v \in ProposalVotes, NEW who \in Candidates, NEW in_favour \in BOOLEAN
    PROVE  /\ commit_vote(v, who, in_favour) \in ProposalVotes
           /\ commit_vote(v, who, in_favour).status = v.status
           /\ commit_vote(v, who, in_favour).expiry = v.expiry
<1>1. v.votes_for \in Seq(Candidates) /\ v.votes_against \in Seq(Candidates)
  BY DEF ProposalVotes
<1>2. Append(v.votes_for, who) \in Seq(Candidates) /\ Append(v.votes_against, who) \in Seq(Candidates)
  BY <1>1
<1> QED
  BY <1>2 DEF commit_vote, ProposalVotes

(* Evaluating gives one of the three statuses of the code. *)
LEMMA CompleteType ==
    ASSUME NEW v
    PROVE  try_to_complete(v) \in {"Initiated", "Approved", "Rejected"}
BY DEF try_to_complete

(* Resolving a proposal that is as good as the stored one keeps the ballot *)
(* well typed and the calls dispatched once.                               *)
LEMMA ResolveStep ==
    ASSUME TypeOK, DispatchedOnceIfApproved,
           NEW p \in Proposals, NEW v \in ProposalVotes,
           votes[p].status # "Approved" \/ v.status = votes[p].status,
           try_resolve_proposal(p, v)
    PROVE  /\ votes' \in [Proposals -> ProposalVotes]
           /\ dispatched' \in [Proposals -> Nat]
           /\ DispatchedOnceIfApproved'
<1> DEFINE s == try_to_complete(v)
<1>1. s \in {"Initiated", "Approved", "Rejected"}
  BY CompleteType
<1>2. [v EXCEPT !.status = s] \in ProposalVotes /\ [v EXCEPT !.status = s].status = s
  BY <1>1 DEF ProposalVotes
<1> HIDE DEF s
<1>3. votes' = [votes EXCEPT ![p] = [v EXCEPT !.status = s]]
  BY DEF try_resolve_proposal, s
<1>4. dispatched' = [dispatched EXCEPT ![p] = IF s = "Approved" THEN @ + 1 ELSE @]
  BY DEF try_resolve_proposal, s
<1>5. v.status = "Initiated"
  BY DEF try_resolve_proposal, is_complete
<1>6. votes \in [Proposals -> ProposalVotes] /\ dispatched \in [Proposals -> Nat]
  BY DEF TypeOK
<1>7. votes[p].status # "Approved" /\ dispatched[p] = 0
  BY <1>5 DEF DispatchedOnceIfApproved
<1>8. votes' \in [Proposals -> ProposalVotes]
  BY <1>2, <1>3, <1>6
<1>9. dispatched' \in [Proposals -> Nat]
  BY <1>4, <1>6, <1>7
<1>10. ASSUME NEW q \in Proposals
       PROVE  dispatched'[q] = IF votes'[q].status = "Approved" THEN 1 ELSE 0
  <2>1. CASE q = p
    <3>1. votes'[q].status = s
      BY <1>2, <1>3, <1>6, <2>1
    <3>2. dispatched'[q] = IF s = "Approved" THEN 1 ELSE 0
      BY <1>4, <1>6, <1>7, <2>1
    <3> QED
      BY <3>1, <3>2
  <2>2. CASE q # p
    <3>1. votes'[q] = votes[q] /\ dispatched'[q] = dispatched[q]
      BY <1>3, <1>4, <1>6, <2>2
    <3> QED
      BY <3>1 DEF DispatchedOnceIfApproved
  <2> QED
    BY <2>1, <2>2
<1> QED
  BY <1>8, <1>9, <1>10 DEF DispatchedOnceIfApproved

(* The initial state. *)
LEMMA InitBridge == Init => VotesInv
<1> SUFFICES ASSUME Init PROVE VotesInv
  OBVIOUS
<1>1. TypeOK
  BY Constants, NoVotesType DEF Init, TypeOK, Absent
<1>2. RelayerCountIsExact
  BY FS_EmptySet DEF Init, RelayerCountIsExact
<1>3. DispatchedOnceIfApproved
  BY DEF Init, DispatchedOnceIfApproved, NoVotes
<1> QED
  BY <1>1, <1>2, <1>3 DEF VotesInv

(* A vote or an evaluation: only the ballot changes. *)
LEMMA BallotStep ==
    ASSUME VotesInv, NEW p \in Proposals,
           UNCHANGED <<now, relayers, count, threshold, resources, nonces>>,
           NEW v \in ProposalVotes,
           votes[p].status # "Approved" \/ v.status = votes[p].status,
           try_resolve_proposal(p, v)
    PROVE  VotesInv'
<1>1. TypeOK /\ DispatchedOnceIfApproved /\ RelayerCountIsExact
  BY DEF VotesInv
<1>2. /\ votes' \in [Proposals -> ProposalVotes]
      /\ dispatched' \in [Proposals -> Nat]
      /\ DispatchedOnceIfApproved'
  BY <1>1, ResolveStep
<1>3. TypeOK'
  BY <1>1, <1>2 DEF TypeOK
<1>4. RelayerCountIsExact'
  BY <1>1 DEF RelayerCountIsExact
<1> QED
  BY <1>2, <1>3, <1>4 DEF VotesInv

(* Every step keeps the invariant, action by action. *)
LEMMA NextBridge == VotesInv /\ [Next]_vars => VotesInv'
<1> SUFFICES ASSUME VotesInv, [Next]_vars PROVE VotesInv'
  OBVIOUS
<1>0. TypeOK /\ DispatchedOnceIfApproved /\ RelayerCountIsExact
  BY DEF VotesInv
<1>1. ASSUME NEW n \in 0..MaxThreshold, set_threshold(n) PROVE VotesInv'
  BY <1>0, <1>1, BoundAssumption
     DEF VotesInv, set_threshold, ballots, TypeOK, RelayerCountIsExact, DispatchedOnceIfApproved
<1>2. ASSUME NEW r \in ResourceIds, set_resource(r) \/ remove_resource(r) PROVE VotesInv'
  BY <1>0, <1>2 DEF VotesInv, set_resource, remove_resource, ballots, TypeOK,
                    RelayerCountIsExact, DispatchedOnceIfApproved
<1>3. ASSUME NEW c \in ChainIds, whitelist_chain(c) PROVE VotesInv'
  BY <1>0, <1>3 DEF VotesInv, whitelist_chain, ballots, TypeOK,
                    RelayerCountIsExact, DispatchedOnceIfApproved
<1>4. ASSUME NEW who \in Candidates, add_relayer(who) PROVE VotesInv'
  <2>1. IsFiniteSet(relayers)
    BY <1>0, Constants, FS_Subset DEF TypeOK
  <2>2. Cardinality(relayers \cup {who}) = Cardinality(relayers) + 1
    BY <1>4, <2>1, FS_AddElement DEF add_relayer, is_relayer
  <2>3. RelayerCountIsExact'
    BY <1>0, <1>4, <2>2 DEF add_relayer, RelayerCountIsExact
  <2>4. TypeOK' /\ DispatchedOnceIfApproved'
    BY <1>0, <1>4 DEF add_relayer, ballots, TypeOK, DispatchedOnceIfApproved
  <2> QED
    BY <2>3, <2>4 DEF VotesInv
<1>5. ASSUME NEW who \in Candidates, remove_relayer(who) PROVE VotesInv'
  <2>1. IsFiniteSet(relayers)
    BY <1>0, Constants, FS_Subset DEF TypeOK
  <2>2. Cardinality(relayers \ {who}) = Cardinality(relayers) - 1
    BY <1>5, <2>1, FS_RemoveElement DEF remove_relayer, is_relayer
  <2>3. Cardinality(relayers \ {who}) \in Nat
    BY <2>1, FS_RemoveElement, FS_CardinalityType, FS_Subset
  <2>4. RelayerCountIsExact'
    BY <1>0, <1>5, <2>2 DEF remove_relayer, RelayerCountIsExact
  <2>5. count' \in Nat
    BY <1>0, <1>5, <2>2, <2>3 DEF remove_relayer, RelayerCountIsExact
  <2>6. TypeOK' /\ DispatchedOnceIfApproved'
    BY <1>0, <1>5, <2>5 DEF remove_relayer, ballots, TypeOK, DispatchedOnceIfApproved
  <2> QED
    BY <2>4, <2>6 DEF VotesInv
<1>6. ASSUME NEW p \in Proposals, NEW who \in Candidates, NEW r \in ResourceIds,
             NEW in_favour \in BOOLEAN, Vote(who, p, r, in_favour)
      PROVE  VotesInv'
  <2> DEFINE v == commit_vote(Ballot(p), who, in_favour)
  <2>1. Ballot(p) \in ProposalVotes /\ (votes[p] # NoVotes => Ballot(p) = votes[p])
    BY <1>0, BallotType
  <2>2. v \in ProposalVotes /\ v.status = Ballot(p).status
    BY <2>1, CommitType
  <2>3. votes[p].status # "Approved" \/ v.status = votes[p].status
    BY <2>1, <2>2 DEF NoVotes
  <2>4. /\ try_resolve_proposal(p, v)
        /\ UNCHANGED <<now, relayers, count, threshold, resources, nonces>>
    BY <1>6 DEF Vote
  <2> HIDE DEF v
  <2> QED
    BY <2>2, <2>3, <2>4, BallotStep
<1>7. ASSUME NEW p \in Proposals, eval_vote_state(p) PROVE VotesInv'
  <2>1. votes[p] \in ProposalVotes
    BY <1>0 DEF TypeOK
  <2> QED
    BY <1>7, <2>1, BallotStep DEF eval_vote_state
<1>8. ASSUME NEW c \in ChainIds, transfer_fungible(c) PROVE VotesInv'
  <2>1. nonces[c] + 1 \in Nat
    BY <1>0, <1>8 DEF TypeOK, transfer_fungible, chain_whitelisted
  <2> QED
    BY <1>0, <1>8, <2>1 DEF VotesInv, transfer_fungible, ballots, TypeOK,
                            RelayerCountIsExact, DispatchedOnceIfApproved
<1>9. ASSUME NewBlock PROVE VotesInv'
  BY <1>0, <1>9, Constants DEF VotesInv, NewBlock, ballots, TypeOK,
                    RelayerCountIsExact, DispatchedOnceIfApproved
<1>10. ASSUME UNCHANGED vars PROVE VotesInv'
  BY <1>0, <1>10 DEF VotesInv, vars, TypeOK, RelayerCountIsExact, DispatchedOnceIfApproved
<1> QED
  BY <1>1, <1>2, <1>3, <1>4, <1>5, <1>6, <1>7, <1>8, <1>9, <1>10
     DEF Next, Admin, acknowledge_proposal, reject_proposal

(* The invariant holds in every reachable state. *)
THEOREM VotesInvariant == Spec => []VotesInv
BY InitBridge, NextBridge, PTL DEF Spec

(* RelayerCount is the number of relayers, for any number of accounts and  *)
(* any order of add_relayer and remove_relayer; in particular `*i -= 1' in *)
(* unregister_relayer never underflows.                                    *)
THEOREM CountIsExact == Spec => []RelayerCountIsExact
<1>1. VotesInv => RelayerCountIsExact
  BY DEF VotesInv
<1> QED
  BY <1>1, VotesInvariant, PTL

(* try_resolve_proposal dispatches the call of an approved proposal exactly *)
(* once, and no other call.                                                *)
THEOREM DispatchedOnce == Spec => []DispatchedOnceIfApproved
<1>1. VotesInv => DispatchedOnceIfApproved
  BY DEF VotesInv
<1> QED
  BY <1>1, VotesInvariant, PTL

(* A complete or expired proposal never changes again: every path that     *)
(* writes Votes goes through the checks of commit_vote and                 *)
(* try_resolve_proposal.                                                   *)
THEOREM ClosedStaysClosed == Spec => ClosedIsFinal
<1> DEFINE Final ==
        \A p \in Proposals :
          votes[p] # NoVotes /\ (is_complete(votes[p]) \/ votes[p].expiry <= now)
              => votes'[p] = votes[p] /\ dispatched'[p] = dispatched[p]
<1>1. ASSUME VotesInv, [Next]_vars PROVE [Final]_vars
  <2> SUFFICES ASSUME Next, NEW p \in Proposals, votes[p] # NoVotes,
                      is_complete(votes[p]) \/ votes[p].expiry <= now
               PROVE  votes'[p] = votes[p] /\ dispatched'[p] = dispatched[p]
    BY <1>1
  <2>1. votes \in [Proposals -> ProposalVotes] /\ dispatched \in [Proposals -> Nat]
    BY <1>1 DEF VotesInv, TypeOK
  <2>2. ASSUME NEW q \in Proposals, NEW v, try_resolve_proposal(q, v),
               (v.status = votes[p].status /\ v.expiry = votes[p].expiry) \/ q # p
        PROVE  votes'[p] = votes[p] /\ dispatched'[p] = dispatched[p]
    <3>1. q # p
      BY <2>2 DEF try_resolve_proposal, is_complete, is_expired
    <3> QED
      BY <2>1, <2>2, <3>1 DEF try_resolve_proposal
  <2>3. ASSUME NEW q \in Proposals, NEW who \in Candidates, NEW r \in ResourceIds,
               NEW in_favour \in BOOLEAN, Vote(who, q, r, in_favour)
        PROVE  votes'[p] = votes[p] /\ dispatched'[p] = dispatched[p]
    <3> DEFINE v == commit_vote(Ballot(q), who, in_favour)
    <3>1. Ballot(q) \in ProposalVotes /\ (votes[q] # NoVotes => Ballot(q) = votes[q])
      BY <1>1, BallotType DEF VotesInv
    <3>2. v.status = Ballot(q).status /\ v.expiry = Ballot(q).expiry
      BY <3>1, CommitType
    <3>3. try_resolve_proposal(q, v)
      BY <2>3 DEF Vote
    <3> HIDE DEF v
    <3> QED
      BY <2>2, <3>1, <3>2, <3>3
  <2>4. ASSUME NEW q \in Proposals, eval_vote_state(q)
        PROVE  votes'[p] = votes[p] /\ dispatched'[p] = dispatched[p]
    BY <2>2, <2>4 DEF eval_vote_state
  <2>5. CASE UNCHANGED ballots
    BY <2>5 DEF ballots
  <2>6. \/ UNCHANGED ballots
        \/ \E q \in Proposals, who \in Candidates, r \in ResourceIds, in_favour \in BOOLEAN :
              Vote(who, q, r, in_favour)
        \/ \E q \in Proposals : eval_vote_state(q)
    BY DEF Next, Admin, set_threshold, set_resource, remove_resource, whitelist_chain,
           add_relayer, remove_relayer, acknowledge_proposal, reject_proposal,
           transfer_fungible, NewBlock
  <2> QED
    BY <2>3, <2>4, <2>5, <2>6
<1>2. Spec => [][Final]_vars
  BY <1>1, VotesInvariant, PTL DEF Spec
<1> QED
  BY <1>2 DEF ClosedIsFinal

-----------------------------------------------------------------------------
(* Votes are kept in lists whose lengths are counted, so the quorum rests  *)
(* on nobody being listed twice.                                           *)

NoRepeats(s) == \A i, j \in 1..Len(s) : s[i] = s[j] => i = j

Distinct(v) ==
    /\ NoRepeats(v.votes_for)
    /\ NoRepeats(v.votes_against)
    /\ Members(v.votes_for) \cap Members(v.votes_against) = {}

OneVoteEach == \A p \in Proposals : Distinct(votes[p])

(* A list without repetitions has as many members as entries. *)
LEMMA MembersCount ==
    ASSUME NEW s \in Seq(Candidates), NoRepeats(s)
    PROVE  IsFiniteSet(Members(s)) /\ Cardinality(Members(s)) = Len(s)
<1>1. Len(s) \in Nat /\ DOMAIN s = 1..Len(s)
  OBVIOUS
<1>2. s \in [1..Len(s) -> Members(s)]
  BY <1>1 DEF Members
<1>3. \A m \in Members(s) : \E i \in 1..Len(s) : s[i] = m
  BY <1>1 DEF Members
<1>4. s \in Bijection(1..Len(s), Members(s))
  BY <1>2, <1>3 DEF NoRepeats, Bijection, Injection, Surjection, IsInjective
<1>5. ExistsBijection(1..Len(s), Members(s))
  BY <1>4 DEF ExistsBijection
<1>6. Members(s) \subseteq Candidates
  BY <1>1 DEF Members
<1>7. IsFiniteSet(Members(s))
  BY <1>6, Constants, FS_Subset
<1> QED
  BY <1>1, <1>5, <1>7, FS_CountingElements

(* Appending one who is not in the list adds that one and no repetition.   *)
LEMMA AppendMembers ==
    ASSUME NEW s \in Seq(Candidates), NEW who \in Candidates
    PROVE  /\ Members(Append(s, who)) = Members(s) \cup {who}
           /\ NoRepeats(s) /\ who \notin Members(s) => NoRepeats(Append(s, who))
<1> DEFINE t == Append(s, who)
<1>1. /\ Len(s) \in Nat /\ DOMAIN s = 1..Len(s)
      /\ t \in Seq(Candidates) /\ Len(t) = Len(s) + 1 /\ DOMAIN t = 1..Len(t)
      /\ \A i \in 1..Len(s) : t[i] = s[i]
      /\ t[Len(s) + 1] = who
  OBVIOUS
<1> HIDE DEF t
<1>2. 1..Len(t) = (1..Len(s)) \cup {Len(s) + 1}
  BY <1>1
<1>3. Members(t) = Members(s) \cup {who}
  BY <1>1, <1>2 DEF Members
<1>4. ASSUME NoRepeats(s), who \notin Members(s) PROVE NoRepeats(t)
  <2>1. \A i \in 1..Len(s) : s[i] # who
    BY <1>1, <1>4 DEF Members
  <2> QED
    BY <1>1, <1>2, <1>4, <2>1 DEF NoRepeats
<1> QED
  BY <1>3, <1>4 DEF t

(* A relayer who has not voted yet leaves the votes distinct. *)
LEMMA CommitDistinct ==
    ASSUME NEW v \in ProposalVotes, NEW who \in Candidates, NEW in_favour \in BOOLEAN,
           Distinct(v), ~has_voted(v, who)
    PROVE  Distinct(commit_vote(v, who, in_favour))
<1>1. v.votes_for \in Seq(Candidates) /\ v.votes_against \in Seq(Candidates)
  BY DEF ProposalVotes
<1>2. who \notin Members(v.votes_for) /\ who \notin Members(v.votes_against)
  BY DEF has_voted
<1>3. CASE in_favour
  <2>1. /\ commit_vote(v, who, in_favour).votes_for = Append(v.votes_for, who)
        /\ commit_vote(v, who, in_favour).votes_against = v.votes_against
    BY <1>3 DEF commit_vote, ProposalVotes
  <2> QED
    BY <1>1, <1>2, <2>1, AppendMembers DEF Distinct
<1>4. CASE ~in_favour
  <2>1. /\ commit_vote(v, who, in_favour).votes_for = v.votes_for
        /\ commit_vote(v, who, in_favour).votes_against = Append(v.votes_against, who)
    BY <1>4 DEF commit_vote, ProposalVotes
  <2> QED
    BY <1>1, <1>2, <2>1, AppendMembers DEF Distinct
<1> QED
  BY <1>3, <1>4

(* What resolving a distinct proposal v of p does to every proposal. *)
LEMMA ResolveDistinct ==
    ASSUME VotesInv, OneVoteEach, NEW p \in Proposals, NEW v \in ProposalVotes,
           Distinct(v), try_resolve_proposal(p, v)
    PROVE  /\ OneVoteEach'
           /\ \A q \in Proposals \ {p} :
                 votes'[q] = votes[q] /\ dispatched'[q] = dispatched[q]
           /\ votes'[p].votes_for = v.votes_for
           /\ votes'[p].votes_against = v.votes_against
           /\ votes'[p].status = try_to_complete(v)
           /\ dispatched'[p] # dispatched[p] => try_to_complete(v) = "Approved"
<1> DEFINE s == try_to_complete(v)
           w == [v EXCEPT !.status = s]
<1>1. /\ votes' = [votes EXCEPT ![p] = w]
      /\ dispatched' = [dispatched EXCEPT ![p] = IF s = "Approved" THEN @ + 1 ELSE @]
  BY DEF try_resolve_proposal
<1>2. votes \in [Proposals -> ProposalVotes] /\ dispatched \in [Proposals -> Nat]
  BY DEF VotesInv, TypeOK
<1>3. w.votes_for = v.votes_for /\ w.votes_against = v.votes_against /\ w.status = s
  BY DEF ProposalVotes
<1> HIDE DEF w, s
<1>4. Distinct(w)
  BY <1>3 DEF Distinct
<1>5. votes'[p] = w /\ \A q \in Proposals \ {p} : votes'[q] = votes[q]
  BY <1>1, <1>2
<1>6. \A q \in Proposals \ {p} : dispatched'[q] = dispatched[q]
  BY <1>1, <1>2
<1>7. dispatched'[p] # dispatched[p] => s = "Approved"
  BY <1>1, <1>2
<1>8. OneVoteEach'
  BY <1>4, <1>5 DEF OneVoteEach, Distinct
<1> QED
  BY <1>3, <1>5, <1>6, <1>7, <1>8 DEF s

(* Every step leaves the ballots alone or resolves one distinct proposal.  *)
LEMMA StepResolves ==
    ASSUME VotesInv, OneVoteEach, [Next]_vars
    PROVE  \/ UNCHANGED ballots
           \/ /\ UNCHANGED <<relayers, count, threshold>>
              /\ \E p \in Proposals, v \in ProposalVotes :
                    Distinct(v) /\ try_resolve_proposal(p, v)
<1>1. ASSUME NEW p \in Proposals, NEW who \in Candidates, NEW r \in ResourceIds,
             NEW in_favour \in BOOLEAN, Vote(who, p, r, in_favour)
      PROVE  /\ UNCHANGED <<relayers, count, threshold>>
             /\ \E v \in ProposalVotes : Distinct(v) /\ try_resolve_proposal(p, v)
  <2>1. Ballot(p) \in ProposalVotes
    BY BallotType DEF VotesInv
  <2>2. Distinct(NoVotes)
    BY DEF Distinct, NoVotes, NoRepeats, Members
  <2>3. Distinct(Ballot(p))
    <3>1. CASE votes[p] = NoVotes
      <4>1. Ballot(p).votes_for = NoVotes.votes_for /\ Ballot(p).votes_against = NoVotes.votes_against
        BY <3>1 DEF Ballot, NoVotes
      <4> QED
        BY <2>2, <4>1 DEF Distinct
    <3>2. CASE votes[p] # NoVotes
      BY <3>2 DEF Ballot, OneVoteEach
    <3> QED
      BY <3>1, <3>2
  <2>4. ~has_voted(Ballot(p), who)
    BY <1>1 DEF Vote
  <2>5. /\ Distinct(commit_vote(Ballot(p), who, in_favour))
        /\ commit_vote(Ballot(p), who, in_favour) \in ProposalVotes
    BY <2>1, <2>3, <2>4, CommitDistinct, CommitType
  <2> QED
    BY <1>1, <2>5 DEF Vote
<1>2. ASSUME NEW p \in Proposals, eval_vote_state(p)
      PROVE  /\ UNCHANGED <<relayers, count, threshold>>
             /\ \E v \in ProposalVotes : Distinct(v) /\ try_resolve_proposal(p, v)
  <2>1. votes[p] \in ProposalVotes
    BY DEF VotesInv, TypeOK
  <2> QED
    BY <1>2, <2>1 DEF eval_vote_state, OneVoteEach
<1>3. \/ UNCHANGED ballots
      \/ \E q \in Proposals, who \in Candidates, r \in ResourceIds, in_favour \in BOOLEAN :
            Vote(who, q, r, in_favour)
      \/ \E q \in Proposals : eval_vote_state(q)
  BY DEF Next, Admin, set_threshold, set_resource, remove_resource, whitelist_chain,
         add_relayer, remove_relayer, acknowledge_proposal, reject_proposal,
         transfer_fungible, NewBlock, vars, ballots
<1> QED
  BY <1>1, <1>2, <1>3

(* In every reachable state nobody has more than one vote on a proposal. *)
THEOREM NobodyVotesTwice == Spec => [](VotesInv /\ OneVoteEach)
<1>1. Init => OneVoteEach
  BY DEF Init, OneVoteEach, Distinct, NoVotes, NoRepeats, Members
<1>2. ASSUME VotesInv, OneVoteEach, [Next]_vars PROVE OneVoteEach'
  <2>1. CASE UNCHANGED ballots
    BY <1>2, <2>1 DEF ballots, OneVoteEach
  <2>2. ASSUME NEW p \in Proposals, NEW v \in ProposalVotes, Distinct(v), try_resolve_proposal(p, v)
        PROVE  OneVoteEach'
    BY <1>2, <2>2, ResolveDistinct
  <2> QED
    BY <1>2, <2>1, <2>2, StepResolves
<1> QED
  BY <1>1, <1>2, InitBridge, NextBridge, PTL DEF Spec

(* For any number of relayers: a call is dispatched only when threshold    *)
(* different accounts are in favour of it, none of them counted against.   *)
THEOREM QuorumNeeded == Spec => DispatchNeedsQuorum
<1> DEFINE Quorate ==
        \A p \in Proposals : dispatched'[p] # dispatched[p] =>
          LET in_favour == Members(votes'[p].votes_for)
          IN  /\ Cardinality(in_favour) >= threshold
              /\ in_favour \cap Members(votes'[p].votes_against) = {}
<1>1. ASSUME VotesInv, OneVoteEach, [Next]_vars PROVE [Quorate]_vars
  <2> SUFFICES ASSUME NEW p \in Proposals, dispatched'[p] # dispatched[p]
               PROVE  /\ Cardinality(Members(votes'[p].votes_for)) >= threshold
                      /\ Members(votes'[p].votes_for) \cap Members(votes'[p].votes_against) = {}
    OBVIOUS
  <2>1. ~UNCHANGED ballots
    BY DEF ballots
  <2>2. PICK q \in Proposals, v \in ProposalVotes : Distinct(v) /\ try_resolve_proposal(q, v)
    BY <1>1, <2>1, StepResolves
  <2>3. q = p
    BY <1>1, <2>2, ResolveDistinct
  <2>4. /\ votes'[p].votes_for = v.votes_for
        /\ votes'[p].votes_against = v.votes_against
        /\ try_to_complete(v) = "Approved"
    BY <1>1, <2>2, <2>3, ResolveDistinct
  <2>5. threshold <= Len(v.votes_for)
    BY <2>4 DEF try_to_complete
  <2>6. Cardinality(Members(v.votes_for)) = Len(v.votes_for)
    BY <2>2, MembersCount DEF Distinct, ProposalVotes
  <2> QED
    BY <2>2, <2>4, <2>5, <2>6 DEF Distinct
<1>2. Spec => [][Quorate]_vars
  BY <1>1, NobodyVotesTwice, PTL DEF Spec
<1> QED
  BY <1>2 DEF DispatchNeedsQuorum

(* Those in favour F, those against A and the relayers R: who may still    *)
(* vote and who has voted without being a relayer any more.                *)
LEMMA VotesLeft ==
    ASSUME NEW R, NEW F, NEW A, IsFiniteSet(R), IsFiniteSet(F), IsFiniteSet(A), F \cap A = {}
    PROVE  /\ Cardinality(F) + Cardinality(R \ (F \cup A)) + Cardinality(A)
                = Cardinality(R) + Cardinality((F \cup A) \ R)
           /\ Cardinality(F) \in Nat /\ Cardinality(R \ (F \cup A)) \in Nat
           /\ Cardinality((F \cup A) \ R) \in Nat
<1> DEFINE G == F \cup A
<1>1. IsFiniteSet(G) /\ Cardinality(G) = Cardinality(F) + Cardinality(A) - Cardinality(F \cap A)
  BY FS_Union
<1>2. Cardinality(F \cap A) = 0
  BY FS_EmptySet
<1> HIDE DEF G
<1>3. /\ IsFiniteSet(R \ G) /\ IsFiniteSet(G \ R) /\ IsFiniteSet(R \cap G)
      /\ Cardinality(R \ G) = Cardinality(R) - Cardinality(R \cap G)
      /\ Cardinality(G \ R) = Cardinality(G) - Cardinality(G \cap R)
  BY <1>1, FS_Difference, FS_Intersection
<1>4. Cardinality(R \cap G) = Cardinality(G \cap R)
  <2>1. R \cap G = G \cap R
    OBVIOUS
  <2> QED
    BY <2>1
<1>5. /\ Cardinality(R) \in Nat /\ Cardinality(F) \in Nat /\ Cardinality(A) \in Nat
      /\ Cardinality(R \ G) \in Nat /\ Cardinality(G \ R) \in Nat /\ Cardinality(R \cap G) \in Nat
  BY <1>3, FS_CardinalityType
<1>6. Cardinality(F) + Cardinality(R \ G) + Cardinality(A) = Cardinality(R) + Cardinality(G \ R)
  <2>1. ASSUME NEW f \in Nat, NEW a \in Nat, NEW r \in Nat, NEW both \in Nat,
               NEW g, NEW left, NEW gone,
               g = f + a - 0, left = r - both, gone = g - both
        PROVE  f + left + a = r + gone
    BY <2>1
  <2>2. Cardinality(G) = Cardinality(F) + Cardinality(A) - 0
    BY <1>1, <1>2
  <2>3. Cardinality(G \ R) = Cardinality(G) - Cardinality(R \cap G)
    BY <1>3, <1>4
  <2> QED
    BY <1>3, <1>5, <2>1, <2>2, <2>3
<1> QED
  BY <1>5, <1>6 DEF G

(* For any number of relayers, however often they and the threshold are    *)
(* changed between the votes: a proposal is cancelled only when the votes  *)
(* for it can no longer meet the threshold, but for one vote by each       *)
(* removed voter, and no vote leaves it open when they cannot.             *)
THEOREM HopelessIsCancelled == Spec => CancelledWhenHopeless
<1> DEFINE Hopeless ==
        \A p \in Proposals : votes'[p] # votes[p] =>
          LET v == votes'[p]
          IN  /\ v.status = "Rejected"
                  => MostVotesFor(v) < threshold + Cardinality(RemovedVoters(v))
              /\ v.status = "Initiated"
                  => MostVotesFor(v) >= threshold \/ Cardinality(relayers) < threshold
<1>1. ASSUME VotesInv, OneVoteEach, [Next]_vars PROVE [Hopeless]_vars
  <2> SUFFICES ASSUME NEW p \in Proposals, votes'[p] # votes[p]
               PROVE  /\ votes'[p].status = "Rejected"
                          => MostVotesFor(votes'[p])
                                < threshold + Cardinality(RemovedVoters(votes'[p]))
                      /\ votes'[p].status = "Initiated"
                          => \/ MostVotesFor(votes'[p]) >= threshold
                             \/ Cardinality(relayers) < threshold
    OBVIOUS
  <2>1. ~UNCHANGED ballots
    BY DEF ballots
  <2>2. PICK q \in Proposals, v \in ProposalVotes : Distinct(v) /\ try_resolve_proposal(q, v)
    BY <1>1, <2>1, StepResolves
  <2>3. q = p
    BY <1>1, <2>2, ResolveDistinct
  <2>4. /\ votes'[p].votes_for = v.votes_for /\ votes'[p].votes_against = v.votes_against
        /\ votes'[p].status = try_to_complete(v)
    BY <1>1, <2>2, <2>3, ResolveDistinct
  <2> DEFINE F == Members(v.votes_for)
             A == Members(v.votes_against)
             undecided == Cardinality(relayers \ (F \cup A))
             gone == Cardinality((F \cup A) \ relayers)
             most == Cardinality(F) + undecided
  <2>5. MostVotesFor(votes'[p]) = most /\ Cardinality(RemovedVoters(votes'[p])) = gone
    BY <2>4 DEF MostVotesFor, Undecided, RemovedVoters
  <2>6. /\ IsFiniteSet(F) /\ IsFiniteSet(A) /\ F \cap A = {}
        /\ Cardinality(F) = Len(v.votes_for) /\ Cardinality(A) = Len(v.votes_against)
    <3>1. v.votes_for \in Seq(Candidates) /\ v.votes_against \in Seq(Candidates)
      BY <2>2 DEF ProposalVotes
    <3>2. F \subseteq Candidates /\ A \subseteq Candidates
      BY <3>1 DEF Members
    <3>3. IsFiniteSet(F) /\ IsFiniteSet(A)
      BY <3>2, CandidatesAssumption, FS_Subset
    <3> QED
      BY <2>2, <3>1, <3>3, MembersCount DEF Distinct
  <2>7. IsFiniteSet(relayers) /\ count = Cardinality(relayers)
    BY <1>1, Constants, FS_Subset DEF VotesInv, TypeOK, RelayerCountIsExact
  <2>8. /\ most + Cardinality(A) = count + gone
        /\ Cardinality(F) \in Nat /\ undecided \in Nat /\ gone \in Nat
    BY <2>6, <2>7, VotesLeft
  <2>9. count \in Nat /\ threshold \in Nat
    BY <1>1 DEF VotesInv, TypeOK
  <2>10. Cardinality(A) \in Nat
    BY <2>6, FS_CardinalityType
  <2> DEFINE ayes == Len(v.votes_for)
             nays == Len(v.votes_against)
  <2>11. /\ most \in Nat /\ most + nays = count + gone
         /\ ayes \in Nat /\ nays \in Nat /\ gone \in Nat
    BY <2>6, <2>8, <2>10
  <2> HIDE DEF F, A, most, gone, undecided
  <2>12. try_to_complete(v) = "Rejected" => count < nays + threshold
    BY DEF try_to_complete
  <2>13. try_to_complete(v) = "Initiated"
            => ayes < threshold /\ (count < threshold \/ count >= nays + threshold)
    BY <2>9, <2>11 DEF try_to_complete
  <2> HIDE DEF ayes, nays
  <2>14. try_to_complete(v) = "Rejected" => most < threshold + gone
    BY <2>9, <2>11, <2>12
  <2>15. try_to_complete(v) = "Initiated" => most >= threshold \/ count < threshold
    BY <2>9, <2>11, <2>13
  <2> QED
    BY <2>4, <2>5, <2>7, <2>14, <2>15
<1>2. Spec => [][Hopeless]_vars
  BY <1>1, NobodyVotesTwice, PTL DEF Spec
<1> QED
  BY <1>2 DEF CancelledWhenHopeless

-----------------------------------------------------------------------------
(* The refinement.  A step of the pallet changes the outcome of no         *)
(* proposal, executes or drops one, or is a new block, in which all those  *)
(* are dropped whose lifetime ends.                                        *)

(* A step that writes Votes resolves one proposal, which is new or as it   *)
(* is stored but for the vote that is added.                               *)
LEMMA StepBallot ==
    ASSUME VotesInv, Next, ~UNCHANGED ballots
    PROVE  \E q \in Proposals, v \in ProposalVotes :
              /\ votes[q] = NoVotes \/ (v.status = votes[q].status /\ v.expiry = votes[q].expiry)
              /\ try_resolve_proposal(q, v)
              /\ now' = now
<1>1. ASSUME NEW q \in Proposals, NEW who \in Candidates, NEW r \in ResourceIds,
             NEW in_favour \in BOOLEAN, Vote(who, q, r, in_favour)
      PROVE  \E v \in ProposalVotes :
                /\ votes[q] = NoVotes \/ (v.status = votes[q].status /\ v.expiry = votes[q].expiry)
                /\ try_resolve_proposal(q, v)
                /\ now' = now
  <2> DEFINE v == commit_vote(Ballot(q), who, in_favour)
  <2>1. Ballot(q) \in ProposalVotes /\ (votes[q] # NoVotes => Ballot(q) = votes[q])
    BY BallotType DEF VotesInv
  <2>2. v \in ProposalVotes /\ v.status = Ballot(q).status /\ v.expiry = Ballot(q).expiry
    BY <2>1, CommitType
  <2>3. try_resolve_proposal(q, v) /\ now' = now
    BY <1>1 DEF Vote
  <2> HIDE DEF v
  <2> QED
    BY <2>1, <2>2, <2>3
<1>2. ASSUME NEW q \in Proposals, eval_vote_state(q)
      PROVE  try_resolve_proposal(q, votes[q]) /\ now' = now /\ votes[q] \in ProposalVotes
  BY <1>2 DEF eval_vote_state, VotesInv, TypeOK
<1>3. \/ \E q \in Proposals, who \in Candidates, r \in ResourceIds, in_favour \in BOOLEAN :
            Vote(who, q, r, in_favour)
      \/ \E q \in Proposals : eval_vote_state(q)
  BY DEF Next, Admin, set_threshold, set_resource, remove_resource, whitelist_chain,
         add_relayer, remove_relayer, acknowledge_proposal, reject_proposal,
         transfer_fungible, NewBlock, ballots
<1> QED
  BY <1>1, <1>2, <1>3

(* Resolving changes the outcome of one proposal, which was open.          *)
LEMMA ResolveOutcome ==
    ASSUME VotesInv, NEW q \in Proposals, NEW v \in ProposalVotes,
           votes[q] = NoVotes \/ (v.status = votes[q].status /\ v.expiry = votes[q].expiry),
           try_resolve_proposal(q, v), now' = now
    PROVE  /\ Outcome(q) = "open"
           /\ Outcome(q)' \in {"open", "executed", "dropped"}
           /\ \A p \in Proposals \ {q} : Outcome(p)' = Outcome(p)
<1> DEFINE s == try_to_complete(v)
<1>1. s \in {"Initiated", "Approved", "Rejected"}
  BY CompleteType
<1> HIDE DEF s
<1>2. /\ votes' = [votes EXCEPT ![q] = [v EXCEPT !.status = s]]
      /\ dispatched' = [dispatched EXCEPT ![q] = IF s = "Approved" THEN @ + 1 ELSE @]
  BY DEF try_resolve_proposal, s
<1>3. v.status = "Initiated" /\ ~(v.expiry <= now)
  BY DEF try_resolve_proposal, is_complete, is_expired
<1>4. /\ votes \in [Proposals -> ProposalVotes] /\ dispatched \in [Proposals -> Nat]
      /\ DispatchedOnceIfApproved
  BY DEF VotesInv, TypeOK
<1>5. votes[q] = NoVotes \/ (votes[q].status = "Initiated" /\ ~(votes[q].expiry <= now))
  BY <1>3
<1>6. dispatched[q] = 0
  BY <1>4, <1>5 DEF DispatchedOnceIfApproved, NoVotes
<1>7. Outcome(q) = "open"
  BY <1>5, <1>6 DEF Outcome
<1>8. dispatched'[q] = IF s = "Approved" THEN 1 ELSE 0
  BY <1>2, <1>4, <1>6
<1>9. Outcome(q)' \in {"open", "executed", "dropped"}
  <2>1. CASE s = "Approved"
    BY <1>8, <2>1 DEF Outcome
  <2>2. CASE s # "Approved"
    BY <1>8, <2>2 DEF Outcome
  <2> QED
    BY <2>1, <2>2
<1>10. ASSUME NEW p \in Proposals \ {q} PROVE Outcome(p)' = Outcome(p)
  <2>1. votes'[p] = votes[p] /\ dispatched'[p] = dispatched[p]
    BY <1>2, <1>4, <1>10
  <2> QED
    BY <2>1 DEF Outcome
<1> QED
  BY <1>7, <1>9, <1>10

(* With the ballots unchanged, proposals can only run out of time.         *)
LEMMA TimeOutcome ==
    ASSUME VotesInv, UNCHANGED ballots, now' = now \/ now' = now + 1, NEW p \in Proposals
    PROVE  Outcome(p)' = Outcome(p) \/ (Outcome(p) = "open" /\ Outcome(p)' = "dropped")
<1>1. now \in Nat /\ votes[p] \in ProposalVotes
  BY DEF VotesInv, TypeOK
<1>2. votes[p].expiry \in Nat
  BY <1>1 DEF ProposalVotes
<1>3. votes[p].expiry <= now => votes[p].expiry <= now'
  BY <1>1, <1>2
<1>4. votes' = votes /\ dispatched' = dispatched
  BY DEF ballots
<1> QED
  BY <1>3, <1>4 DEF Outcome

(* The pallet implements Delivery: whatever the relayers vote, in whatever *)
(* order, under whatever thresholds, a proposal is executed once or        *)
(* dropped once, and then nothing happens to it.                           *)
THEOREM ImplementsDelivery == Spec => DeliversOnce
<1> DEFINE o == [p \in Proposals |-> Outcome(p)]
<1>1. Init => Deliveries!Init
  BY DEF Init, Deliveries!Init, Outcome
<1>2. ASSUME VotesInv, [Next]_vars PROVE [Deliveries!Next]_o
  <2>1. ASSUME NEW ms \in SUBSET Proposals, \A p \in ms : Outcome(p) = "open",
               \A p \in Proposals : Outcome(p)' = IF p \in ms THEN "dropped" ELSE Outcome(p)
        PROVE  Deliveries!Next
    <3>1. \A m \in ms : o[m] = "open"
      BY <2>1
    <3>2. o' = [m \in Proposals |-> IF m \in ms THEN "dropped" ELSE o[m]]
      BY <2>1
    <3> QED
      BY <3>1, <3>2 DEF Deliveries!Next, Deliveries!Drop
  <2>2. ASSUME UNCHANGED ballots, now' = now \/ now' = now + 1 PROVE Deliveries!Next
    <3> DEFINE ms == {p \in Proposals : Outcome(p)' # Outcome(p)}
    <3>1. \A p \in Proposals :
             Outcome(p)' = Outcome(p) \/ (Outcome(p) = "open" /\ Outcome(p)' = "dropped")
      BY <1>2, <2>2, TimeOutcome
    <3>2. /\ ms \in SUBSET Proposals /\ \A p \in ms : Outcome(p) = "open"
          /\ \A p \in Proposals : Outcome(p)' = IF p \in ms THEN "dropped" ELSE Outcome(p)
      BY <3>1
    <3> HIDE DEF ms
    <3> QED
      BY <2>1, <3>2
  <2>3. ASSUME Next, ~UNCHANGED ballots PROVE [Deliveries!Next]_o
    <3>1. PICK q \in Proposals, v \in ProposalVotes :
              /\ votes[q] = NoVotes \/ (v.status = votes[q].status /\ v.expiry = votes[q].expiry)
              /\ try_resolve_proposal(q, v)
              /\ now' = now
      BY <1>2, <2>3, StepBallot
    <3>2. /\ Outcome(q) = "open"
          /\ Outcome(q)' \in {"open", "executed", "dropped"}
          /\ \A p \in Proposals \ {q} : Outcome(p)' = Outcome(p)
      BY <1>2, <3>1, ResolveOutcome
    <3>3. CASE Outcome(q)' = "open"
      BY <3>2, <3>3
    <3>4. CASE Outcome(q)' = "dropped"
      BY <2>1, <3>2, <3>4
    <3>5. CASE Outcome(q)' = "executed"
      <4>1. o[q] = "open" /\ o' = [o EXCEPT ![q] = "executed"]
        BY <3>2, <3>5
      <4> QED
        BY <4>1 DEF Deliveries!Next, Deliveries!Execute
    <3> QED
      BY <3>2, <3>3, <3>4, <3>5
  <2>4. \/ UNCHANGED vars
        \/ Next /\ ~UNCHANGED ballots
        \/ UNCHANGED ballots /\ (now' = now \/ now' = now + 1)
    <3>1. Next /\ UNCHANGED ballots => now' = now \/ now' = now + 1
      BY DEF Next, Admin, set_threshold, set_resource, remove_resource, whitelist_chain,
             add_relayer, remove_relayer, acknowledge_proposal, reject_proposal, Vote,
             eval_vote_state, transfer_fungible, NewBlock
    <3> QED
      BY <1>2, <3>1
  <2>5. CASE UNCHANGED vars
    BY <2>2, <2>5 DEF vars, ballots
  <2> QED
    BY <2>2, <2>3, <2>4, <2>5
<1>3. Spec => [][Deliveries!Next]_o
  BY <1>2, VotesInvariant, PTL DEF Spec
<1>4. Spec => Deliveries!Init
  BY <1>1 DEF Spec
<1> QED
  BY <1>3, <1>4, PTL DEF DeliversOnce, Deliveries!Spec

-----------------------------------------------------------------------------

(* A set of subsets of a finite set that contains every set from which no  *)
(* element can be removed without getting into it contains all subsets.    *)
LEMMA SubsetInduction ==
  ASSUME NEW S, IsFiniteSet(S), NEW P,
         \A T \in SUBSET S : (\A x \in T : T \ {x} \in P) => T \in P
  PROVE  \A T \in SUBSET S : T \in P
<1> DEFINE Bad == {T \in SUBSET S : T \notin P}
           Sizes == {n \in Nat : \E T \in Bad : Cardinality(T) = n}
<1> SUFFICES ASSUME Bad # {} PROVE FALSE
  OBVIOUS
<1>1. \A T \in SUBSET S : IsFiniteSet(T) /\ Cardinality(T) \in Nat
  BY FS_Subset, FS_CardinalityType
<1>2. Sizes # {} /\ Sizes \subseteq Nat
  BY <1>1
<1>3. PICK n \in Sizes : \A m \in Sizes : n <= m
  BY <1>2, LeastNat, Zenon
<1>4. PICK T \in Bad : Cardinality(T) = n
  OBVIOUS
<1>5. ASSUME NEW x \in T PROVE T \ {x} \in P
  <2>1. T \ {x} \in SUBSET S /\ Cardinality(T \ {x}) = n - 1 /\ Cardinality(T \ {x}) \in Nat
    BY <1>1, <1>4, FS_RemoveElement
  <2>2. n - 1 \notin Sizes
    BY <1>3, <2>1
  <2> QED
    BY <2>1, <2>2
<1> QED
  BY <1>4, <1>5

-----------------------------------------------------------------------------
(* Sums over finite sets.  SumFunctionOnSet takes out one chosen element   *)
(* after another; SetSums are the sums of all subsets, taken out so.       *)

Choice(T) == CHOOSE x \in T : TRUE
SetSums(f, S, s) ==
  s = [T \in SUBSET S |-> IF T = {} THEN 0 ELSE f[Choice(T)] + s[T \ {Choice(T)}]]

(* The sum is what those sums say of the whole set.                        *)
LEMMA SumIsChosen ==
  ASSUME NEW f, NEW S
  PROVE  SumFunctionOnSet(f, S) = (CHOOSE s : SetSums(f, S, s))[S]
BY Zenon DEF SumFunctionOnSet, FoldFunctionOnSet, MapThenFoldSet, SetSums, Choice

(* What is chosen is an element.                                           *)
LEMMA ChoiceInSet ==
  ASSUME NEW T, T # {}
  PROVE  Choice(T) \in T
BY Zenon DEF Choice

(* A finite set has sums of all its subsets: those of at most n elements   *)
(* give those of at most n + 1.                                            *)
LEMMA SetSumsExist ==
  ASSUME NEW S, IsFiniteSet(S), NEW f, \A x \in S : f[x] \in Int
  PROVE  \E s \in [SUBSET S -> Int] : SetSums(f, S, s)
<1> DEFINE N == Cardinality(S)
           Right(s, T) == s[T] = IF T = {} THEN 0 ELSE f[Choice(T)] + s[T \ {Choice(T)}]
           Up == {n \in 0..N : \E s \in [SUBSET S -> Int] :
                                  \A T \in SUBSET S : Cardinality(T) <= n => Right(s, T)}
<1>0. N \in Nat
  BY FS_CardinalityType
<1>1. \A T \in SUBSET S : /\ IsFiniteSet(T) /\ Cardinality(T) \in Nat /\ Cardinality(T) <= N
                          /\ Cardinality(T) = 0 <=> T = {}
  BY FS_Subset, FS_CardinalityType, FS_EmptySet
<1>2. \A T \in SUBSET S : T # {} => /\ Choice(T) \in T /\ Choice(T) \in S /\ f[Choice(T)] \in Int
                                    /\ T \ {Choice(T)} \in SUBSET S
                                    /\ Cardinality(T \ {Choice(T)}) = Cardinality(T) - 1
  <2> SUFFICES ASSUME NEW T \in SUBSET S, T # {}
               PROVE  /\ Choice(T) \in T /\ Choice(T) \in S /\ f[Choice(T)] \in Int
                      /\ T \ {Choice(T)} \in SUBSET S
                      /\ Cardinality(T \ {Choice(T)}) = Cardinality(T) - 1
    OBVIOUS
  <2>1. Choice(T) \in T
    BY ChoiceInSet
  <2> QED
    BY <1>1, <2>1, FS_RemoveElement
<1> HIDE DEF N
<1>3. 0 \in Up
  <2> DEFINE s == [T \in SUBSET S |-> 0]
  <2>1. s \in [SUBSET S -> Int] /\ \A T \in SUBSET S : Cardinality(T) <= 0 => Right(s, T)
    BY <1>1
  <2> HIDE DEF s, Right
  <2>2. 0 \in 0..N
    BY <1>0
  <2> QED
    BY <2>1, <2>2
<1>4. ASSUME NEW n \in 0..(N - 1), n \in Up PROVE n + 1 \in Up
  <2>1. PICK s \in [SUBSET S -> Int] : \A T \in SUBSET S : Cardinality(T) <= n => Right(s, T)
    BY <1>4
  <2> DEFINE r == [T \in SUBSET S |-> IF Cardinality(T) = n + 1 THEN f[Choice(T)] + s[T \ {Choice(T)}]
                                       ELSE s[T]]
  <2>2. r \in [SUBSET S -> Int]
    <3>1. ASSUME NEW T \in SUBSET S, Cardinality(T) = n + 1
          PROVE  f[Choice(T)] + s[T \ {Choice(T)}] \in Int
      <4>1. T # {}
        BY <1>0, <1>1, <3>1
      <4>2. f[Choice(T)] \in Int /\ T \ {Choice(T)} \in SUBSET S
        BY <1>2, <4>1
      <4> QED
        BY <4>2
    <3> QED
      BY <3>1
  <2>3. ASSUME NEW T \in SUBSET S, Cardinality(T) <= n + 1
        PROVE  Right(r, T)
    <3>1. CASE T = {}
      BY <1>0, <1>1, <2>1, <3>1
    <3>2. CASE T # {}
      <4>1. /\ T \ {Choice(T)} \in SUBSET S
            /\ Cardinality(T \ {Choice(T)}) = Cardinality(T) - 1
        BY <1>2, <3>2
      <4>2. r[T \ {Choice(T)}] = s[T \ {Choice(T)}]
        BY <1>1, <2>3, <4>1
      <4>3. CASE Cardinality(T) = n + 1
        BY <3>2, <4>2, <4>3
      <4>4. CASE Cardinality(T) # n + 1
        <5>1. Cardinality(T) <= n
          BY <1>1, <2>3, <4>4
        <5> QED
          BY <2>1, <3>2, <4>2, <4>4, <5>1
      <4> QED
        BY <4>3, <4>4
    <3> QED
      BY <3>1, <3>2
  <2> HIDE DEF r
  <2>4. n + 1 \in 0..N
    BY <1>0
  <2> QED
    BY <2>2, <2>3, <2>4
<1>5. N \in Up
  <2> HIDE DEF Up
  <2>1. \A n \in 0..N : n \in Up
    BY <1>0, <1>3, <1>4, UpTo, Zenon
  <2> QED
    BY <1>0, <2>1
<1>6. PICK s \in [SUBSET S -> Int] : \A T \in SUBSET S : Cardinality(T) <= N => Right(s, T)
  BY <1>5
<1>7. \A T \in SUBSET S : s[T] = IF T = {} THEN 0 ELSE f[Choice(T)] + s[T \ {Choice(T)}]
  BY <1>1, <1>6
<1>8. s = [T \in SUBSET S |-> s[T]]
  OBVIOUS
<1> QED
  BY <1>7, <1>8 DEF SetSums

(* The sums of the subsets of a set are those of its superset.             *)
LEMMA SetSumsUnique ==
  ASSUME NEW S, IsFiniteSet(S), NEW R \in SUBSET S, NEW f, NEW s, NEW r,
         SetSums(f, S, s), SetSums(f, R, r)
  PROVE  \A T \in SUBSET R : s[T] = r[T]
<1> DEFINE P == {T \in SUBSET R : s[T] = r[T]}
<1>1. ASSUME NEW T \in SUBSET R, \A x \in T : T \ {x} \in P PROVE T \in P
  <2>1. T \in SUBSET S
    OBVIOUS
  <2>2. s[T] = IF T = {} THEN 0 ELSE f[Choice(T)] + s[T \ {Choice(T)}]
    BY <2>1, Zenon DEF SetSums
  <2>3. r[T] = IF T = {} THEN 0 ELSE f[Choice(T)] + r[T \ {Choice(T)}]
    BY Zenon DEF SetSums
  <2>4. CASE T = {}
    BY <2>2, <2>3, <2>4
  <2>5. CASE T # {}
    <3>1. Choice(T) \in T
      BY <2>5, ChoiceInSet
    <3>2. s[T \ {Choice(T)}] = r[T \ {Choice(T)}]
      BY <1>1, <3>1
    <3> QED
      BY <2>2, <2>3, <2>5, <3>2
  <2> QED
    BY <2>4, <2>5
<1>2. IsFiniteSet(R)
  BY FS_Subset
<1> HIDE DEF P
<1>3. \A T \in SUBSET R : T \in P
  BY <1>1, <1>2, SubsetInduction
<1> QED
  BY <1>3 DEF P

(* What SumFunctionOnSet chooses are those sums.                           *)
LEMMA SumOfSet ==
  ASSUME NEW S, IsFiniteSet(S), NEW f, \A x \in S : f[x] \in Int
  PROVE  \E s \in [SUBSET S -> Int] : SetSums(f, S, s) /\ SumFunctionOnSet(f, S) = s[S]
<1> DEFINE c == CHOOSE s : SetSums(f, S, s)
<1>1. PICK s \in [SUBSET S -> Int] : SetSums(f, S, s)
  BY SetSumsExist
<1>2. SetSums(f, S, c)
  BY <1>1, Zenon
<1>3. SumFunctionOnSet(f, S) = c[S]
  BY SumIsChosen
<1> HIDE DEF c
<1>4. c[S] = s[S]
  BY <1>1, <1>2, SetSumsUnique
<1> QED
  BY <1>1, <1>3, <1>4

(* A finite sum of integers is one.                                        *)
LEMMA SumType ==
  ASSUME NEW S, IsFiniteSet(S), NEW f, \A x \in S : f[x] \in Int
  PROVE  SumFunctionOnSet(f, S) \in Int
<1>1. PICK s \in [SUBSET S -> Int] : SumFunctionOnSet(f, S) = s[S]
  BY SumOfSet
<1> QED
  BY <1>1

(* Nothing adds up to nothing.                                             *)
LEMMA SumEmpty ==
  ASSUME NEW f
  PROVE  SumFunctionOnSet(f, {}) = 0
<1>1. IsFiniteSet({})
  BY FS_EmptySet
<1>2. PICK s \in [SUBSET {} -> Int] : SetSums(f, {}, s) /\ SumFunctionOnSet(f, {}) = s[{}]
  BY <1>1, SumOfSet
<1> QED
  BY <1>2 DEF SetSums

(* The chosen element is taken out. *)
LEMMA SumStep ==
  ASSUME NEW S, IsFiniteSet(S), S # {}, NEW f, \A x \in S : f[x] \in Int
  PROVE  SumFunctionOnSet(f, S) = f[Choice(S)] + SumFunctionOnSet(f, S \ {Choice(S)})
<1> DEFINE R == S \ {Choice(S)}
<1>1. R \in SUBSET S /\ IsFiniteSet(R) /\ \A x \in R : f[x] \in Int
  BY FS_Subset
<1>2. PICK s \in [SUBSET S -> Int] : SetSums(f, S, s) /\ SumFunctionOnSet(f, S) = s[S]
  BY SumOfSet
<1>3. PICK r \in [SUBSET R -> Int] : SetSums(f, R, r) /\ SumFunctionOnSet(f, R) = r[R]
  BY <1>1, SumOfSet
<1>4. s[R] = r[R]
  <2> HIDE DEF R
  <2>1. \A T \in SUBSET R : s[T] = r[T]
    BY <1>1, <1>2, <1>3, SetSumsUnique
  <2> QED
    BY <2>1
<1>5. s[S] = f[Choice(S)] + s[R]
  BY <1>2, Zenon DEF SetSums
<1> QED
  BY <1>2, <1>3, <1>4, <1>5

(* Any element can be taken out. *)
LEMMA SumRemove ==
  ASSUME NEW S, IsFiniteSet(S), NEW f, \A x \in S : f[x] \in Int, NEW x \in S
  PROVE  SumFunctionOnSet(f, S) = f[x] + SumFunctionOnSet(f, S \ {x})
<1> DEFINE Sum(T) == SumFunctionOnSet(f, T)
           P == {T \in SUBSET S : \A y \in T : Sum(T) = f[y] + Sum(T \ {y})}
<1>0. \A T \in SUBSET S : IsFiniteSet(T) /\ (\A y \in T : f[y] \in Int) /\ Sum(T) \in Int
  BY FS_Subset, SumType
<1>1. ASSUME NEW T \in SUBSET S, \A y \in T : T \ {y} \in P PROVE T \in P
  <2> SUFFICES ASSUME NEW y \in T PROVE Sum(T) = f[y] + Sum(T \ {y})
    OBVIOUS
  <2> DEFINE c == Choice(T)
  <2>1. c \in T
    BY ChoiceInSet
  <2>2. Sum(T) = f[c] + Sum(T \ {c})
    BY <1>0, SumStep
  <2> HIDE DEF c, Sum
  <2>3. CASE y = c
    BY <2>2, <2>3
  <2>4. CASE y # c
    <3>1. Sum(T \ {c}) = f[y] + Sum((T \ {c}) \ {y})
      BY <1>1, <2>1, <2>4
    <3>2. Sum(T \ {y}) = f[c] + Sum((T \ {y}) \ {c})
      BY <1>1, <2>1, <2>4
    <3>3. (T \ {c}) \ {y} = (T \ {y}) \ {c}
      OBVIOUS
    <3>4. Sum((T \ {y}) \ {c}) \in Int /\ f[c] \in Int /\ f[y] \in Int
      BY <1>0, <2>1
    <3> DEFINE u == Sum((T \ {y}) \ {c})
    <3>5. Sum(T \ {c}) = f[y] + u /\ Sum(T \ {y}) = f[c] + u /\ u \in Int
      BY <3>1, <3>2, <3>3, <3>4
    <3> HIDE DEF u
    <3> QED
      BY <2>2, <3>4, <3>5
  <2> QED
    BY <2>3, <2>4
<1> HIDE DEF P
<1>2. \A T \in SUBSET S : T \in P
  BY <1>1, SubsetInduction
<1> QED
  BY <1>2 DEF P

(* A sum of amounts is an amount, and no part is more than it.             *)
LEMMA SumNat ==
  ASSUME NEW S, IsFiniteSet(S), NEW f, \A x \in S : f[x] \in Nat
  PROVE  SumFunctionOnSet(f, S) \in Nat /\ \A x \in S : f[x] <= SumFunctionOnSet(f, S)
<1> DEFINE P == {T \in SUBSET S : SumFunctionOnSet(f, T) \in Nat}
<1>0. \A x \in S : f[x] \in Int
  OBVIOUS
<1>1. ASSUME NEW T \in SUBSET S, \A y \in T : T \ {y} \in P PROVE T \in P
  <2>1. CASE T = {}
    BY <2>1, SumEmpty
  <2>2. CASE T # {}
    <3>1. PICK y \in T : TRUE
      BY <2>2
    <3>2. SumFunctionOnSet(f, T) = f[y] + SumFunctionOnSet(f, T \ {y})
      BY <1>0, FS_Subset, SumRemove
    <3> QED
      BY <1>1, <3>1, <3>2
  <2> QED
    BY <2>1, <2>2
<1> HIDE DEF P
<1>2. \A T \in SUBSET S : T \in P
  BY <1>1, SubsetInduction
<1>3. \A T \in SUBSET S : SumFunctionOnSet(f, T) \in Nat
  BY <1>2 DEF P
<1>4. ASSUME NEW x \in S PROVE f[x] <= SumFunctionOnSet(f, S)
  <2>1. SumFunctionOnSet(f, S) = f[x] + SumFunctionOnSet(f, S \ {x})
    BY <1>0, SumRemove
  <2>2. SumFunctionOnSet(f, S \ {x}) \in Nat
    BY <1>3
  <2> QED
    BY <2>1, <2>2
<1> QED
  BY <1>3, <1>4

(* A sum of larger numbers is larger.                                      *)
LEMMA SumMonotone ==
  ASSUME NEW S, IsFiniteSet(S), NEW f, NEW g,
         \A x \in S : f[x] \in Int /\ g[x] \in Int /\ f[x] <= g[x]
  PROVE  SumFunctionOnSet(f, S) <= SumFunctionOnSet(g, S)
<1> DEFINE P == {T \in SUBSET S : SumFunctionOnSet(f, T) <= SumFunctionOnSet(g, T)}
<1>1. ASSUME NEW T \in SUBSET S, \A y \in T : T \ {y} \in P PROVE T \in P
  <2>1. CASE T = {}
    BY <2>1, SumEmpty
  <2>2. CASE T # {}
    <3>1. PICK y \in T : TRUE
      BY <2>2
    <3>2. IsFiniteSet(T) /\ IsFiniteSet(T \ {y})
      BY FS_Subset
    <3>3. SumFunctionOnSet(f, T) = f[y] + SumFunctionOnSet(f, T \ {y})
      BY <3>1, <3>2, SumRemove
    <3>4. SumFunctionOnSet(g, T) = g[y] + SumFunctionOnSet(g, T \ {y})
      BY <3>1, <3>2, SumRemove
    <3>5. SumFunctionOnSet(f, T \ {y}) \in Int /\ SumFunctionOnSet(g, T \ {y}) \in Int
      BY <3>2, SumType
    <3>6. SumFunctionOnSet(f, T \ {y}) <= SumFunctionOnSet(g, T \ {y})
      BY <1>1, <3>1
    <3> QED
      BY <3>1, <3>3, <3>4, <3>5, <3>6
  <2> QED
    BY <2>1, <2>2
<1> HIDE DEF P
<1>2. \A T \in SUBSET S : T \in P
  BY <1>1, SubsetInduction
<1> QED
  BY <1>2 DEF P

(* Equal numbers have equal sums.                                          *)
LEMMA SumAgree ==
  ASSUME NEW S, IsFiniteSet(S), NEW f, NEW g,
         \A x \in S : f[x] \in Int /\ g[x] = f[x]
  PROVE  SumFunctionOnSet(g, S) = SumFunctionOnSet(f, S)
<1>1. SumFunctionOnSet(g, S) \in Int /\ SumFunctionOnSet(f, S) \in Int
  BY SumType
<1>2. SumFunctionOnSet(f, S) <= SumFunctionOnSet(g, S) /\ SumFunctionOnSet(g, S) <= SumFunctionOnSet(f, S)
  BY SumMonotone
<1> QED
  BY <1>1, <1>2

(* If one number changes, the sum changes by as much.                      *)
LEMMA SumChange ==
  ASSUME NEW S, IsFiniteSet(S), NEW f, NEW g, NEW x \in S, f[x] \in Int, g[x] \in Int,
         \A y \in S : y # x => f[y] \in Int /\ g[y] = f[y]
  PROVE  SumFunctionOnSet(g, S) = SumFunctionOnSet(f, S) + g[x] - f[x]
<1> DEFINE R == S \ {x}
<1>1. IsFiniteSet(R) /\ \A y \in R : f[y] \in Int /\ g[y] = f[y]
  BY FS_Subset
<1>2. SumFunctionOnSet(f, S) = f[x] + SumFunctionOnSet(f, R)
  BY SumRemove
<1>3. SumFunctionOnSet(g, S) = g[x] + SumFunctionOnSet(g, R)
  BY SumRemove
<1> HIDE DEF R
<1>4. SumFunctionOnSet(g, R) = SumFunctionOnSet(f, R) /\ SumFunctionOnSet(f, R) \in Int
  BY <1>1, SumAgree, SumType
<1> QED
  BY <1>2, <1>3, <1>4

(* Zeros add up to zero.                                                   *)
LEMMA SumZeros ==
  ASSUME NEW S, IsFiniteSet(S), NEW f, \A x \in S : f[x] = 0
  PROVE  SumFunctionOnSet(f, S) = 0
<1> DEFINE P == {T \in SUBSET S : SumFunctionOnSet(f, T) = 0}
<1>1. ASSUME NEW T \in SUBSET S, \A y \in T : T \ {y} \in P PROVE T \in P
  <2>1. CASE T = {}
    BY <2>1, SumEmpty
  <2>2. CASE T # {}
    <3>1. PICK y \in T : TRUE
      BY <2>2
    <3>2. SumFunctionOnSet(f, T) = f[y] + SumFunctionOnSet(f, T \ {y})
      BY FS_Subset, SumRemove
    <3> QED
      BY <1>1, <3>1, <3>2
  <2> QED
    BY <2>1, <2>2
<1> HIDE DEF P
<1>2. \A T \in SUBSET S : T \in P
  BY <1>1, SubsetInduction
<1> QED
  BY <1>2 DEF P

(* A set that has grown by elements that count for nothing. *)
LEMMA SumGrown ==
  ASSUME NEW S, IsFiniteSet(S), NEW R \in SUBSET S, NEW f, \A x \in S : f[x] \in Int,
         \A x \in S \ R : f[x] >= 0
  PROVE  SumFunctionOnSet(f, R) <= SumFunctionOnSet(f, S)
         /\ ((\A x \in S \ R : f[x] = 0) => SumFunctionOnSet(f, R) = SumFunctionOnSet(f, S))
<1> DEFINE Sum(T) == SumFunctionOnSet(f, T)
           P == {T \in SUBSET (S \ R) : /\ Sum(R) <= Sum(R \cup T)
                                        /\ (\A x \in T : f[x] = 0) => Sum(R) = Sum(R \cup T)}
<1>0. IsFiniteSet(S \ R) /\ \A T \in SUBSET S : IsFiniteSet(T) /\ Sum(T) \in Int
  BY FS_Subset, SumType
<1>1. ASSUME NEW T \in SUBSET (S \ R), \A y \in T : T \ {y} \in P PROVE T \in P
  <2>1. CASE T = {}
    <3>1. R \cup T = R
      BY <2>1
    <3> QED
      BY <1>0, <2>1, <3>1
  <2>2. CASE T # {}
    <3>1. PICK y \in T : TRUE
      BY <2>2
    <3>2. (R \cup T) \ {y} = R \cup (T \ {y}) /\ y \in R \cup T /\ R \cup T \in SUBSET S
          /\ R \cup (T \ {y}) \in SUBSET S
      BY <3>1
    <3>3. Sum(R \cup T) = f[y] + Sum((R \cup T) \ {y})
      BY <1>0, <3>2, SumRemove
    <3>4. T \ {y} \in P
      BY <1>1, <3>1
    <3>5. f[y] \in Int /\ f[y] >= 0 /\ Sum(R \cup (T \ {y})) \in Int /\ Sum(R) \in Int
      BY <1>0, <3>1, <3>2
    <3> HIDE DEF Sum
    <3>6. Sum(R) <= Sum(R \cup T)
      BY <3>2, <3>3, <3>4, <3>5
    <3>7. (\A x \in T : f[x] = 0) => Sum(R) = Sum(R \cup T)
      <4> SUFFICES ASSUME \A x \in T : f[x] = 0 PROVE Sum(R) = Sum(R \cup T)
        OBVIOUS
      <4>1. f[y] = 0 /\ \A x \in T \ {y} : f[x] = 0
        BY <3>1
      <4>2. Sum(R) = Sum(R \cup (T \ {y}))
        BY <3>4, <4>1
      <4> QED
        <5>1. Sum(R \cup T) = f[y] + Sum(R \cup (T \ {y}))
          BY <3>2, <3>3
        <5> QED
          BY <3>5, <4>1, <4>2, <5>1
    <3> QED
      BY <3>6, <3>7
  <2> QED
    BY <2>1, <2>2
<1> HIDE DEF P
<1>2. S \ R \in P
  <2> DEFINE rest == S \ R
  <2>1. IsFiniteSet(rest)
    BY <1>0
  <2>2. \A T \in SUBSET rest : (\A y \in T : T \ {y} \in P) => T \in P
    BY <1>1
  <2>3. rest \in SUBSET rest
    OBVIOUS
  <2> HIDE DEF rest
  <2>4. \A T \in SUBSET rest : T \in P
    BY <2>1, <2>2, SubsetInduction, Zenon
  <2>5. rest \in P
    BY <2>3, <2>4, Zenon
  <2> QED
    BY <2>5 DEF rest
<1>3. R \cup (S \ R) = S
  OBVIOUS
<1> QED
  BY <1>2, <1>3 DEF P

-----------------------------------------------------------------------------
(* Decimals. *)

(* The graph of the powers up to n. *)
Powers(n, s) == s = [i \in 0..n |-> IF i = 0 THEN 1 ELSE Base * s[i - 1]]

(* There is such a graph for every n.                                      *)
LEMMA PowersExist ==
  ASSUME NEW N \in Nat
  PROVE  \A n \in 0..N : \E s \in [0..n -> Nat \ {0}] : Powers(n, s)
<1> DEFINE S == {n \in 0..N : \E s \in [0..n -> Nat \ {0}] : Powers(n, s)}
<1>0. Base \in Nat \ {0}
  BY DecimalsAssumption
<1>1. 0 \in S
  <2>1. [i \in 0..0 |-> 1] \in [0..0 -> Nat \ {0}] /\ Powers(0, [i \in 0..0 |-> 1])
    BY DEF Powers
  <2> QED
    BY <2>1
<1>2. ASSUME NEW n \in 0..(N-1), n \in S PROVE n+1 \in S
  <2>1. PICK s \in [0..n -> Nat \ {0}] : Powers(n, s)
    BY <1>2
  <2> DEFINE v == Base * s[n]
             s2 == [i \in 0..(n+1) |-> IF i = n+1 THEN v ELSE s[i]]
  <2>2. v \in Nat \ {0}
    <3>1. s[n] \in Nat \ {0}
      OBVIOUS
    <3> QED
      BY <1>0, <3>1
  <2>3. /\ s[0] = 1
        /\ \A i \in 0..n : i # 0 => s[i] = Base * s[i-1]
    BY <2>1 DEF Powers
  <2>4. s2 \in [0..(n+1) -> Nat \ {0}]
    <3> HIDE DEF v
    <3> QED
      BY <2>2
  <2>5. \A i \in 0..(n+1) : s2[i] = IF i = 0 THEN 1 ELSE Base * s2[i-1]
    <3> TAKE i \in 0..(n+1)
    <3>1. CASE i = n + 1
      <4>1. s2[i] = v /\ i - 1 = n /\ s2[i - 1] = s[n] /\ i # 0
        BY <3>1
      <4> QED
        BY <4>1
    <3>2. CASE i = 0
      BY <2>3, <3>2
    <3>3. CASE i # 0 /\ i # n + 1
      <4>1. s2[i] = s[i] /\ s2[i - 1] = s[i - 1] /\ i \in 0..n
        BY <3>3
      <4> QED
        BY <2>3, <3>3, <4>1
    <3> QED
      BY <3>1, <3>2, <3>3
  <2>6. Powers(n+1, s2)
    BY <2>4, <2>5 DEF Powers
  <2> QED
    BY <2>4, <2>6
<1>3. \A n \in 0..N : n \in S
  BY <1>1, <1>2, UpTo, Zenon
<1>4. QED
  BY <1>3

(* Power is that graph. *)
LEMMA PowerStep ==
  /\ Power[0] = 1
  /\ \A n \in 0..MaxDecimals : n # 0 => Power[n] = Base * Power[n - 1]
<1>1. \E s : Powers(MaxDecimals, s)
  <2>1. MaxDecimals \in 0..MaxDecimals /\ MaxDecimals \in Nat
    BY DecimalsAssumption
  <2> QED
    BY <2>1, PowersExist
<1>2. Powers(MaxDecimals, Power)
  BY <1>1, Zenon DEF Power, Powers
<1> QED
  BY <1>2, DecimalsAssumption DEF Powers

(* Powers are positive numbers.                                            *)
LEMMA PowerNat == \A n \in 0..MaxDecimals : Power[n] \in Nat \ {0}
<1> DEFINE S == {n \in 0..MaxDecimals : Power[n] \in Nat \ {0}}
<1>0. Base \in Nat \ {0} /\ MaxDecimals \in Nat
  BY DecimalsAssumption
<1>1. 0 \in S
  BY <1>0, PowerStep
<1>2. ASSUME NEW n \in 0..(MaxDecimals - 1), n \in S PROVE n + 1 \in S
  <2>1. Power[n + 1] = Base * Power[n] /\ n + 1 \in 0..MaxDecimals
    <3>1. n + 1 \in 0..MaxDecimals /\ n + 1 # 0 /\ (n + 1) - 1 = n
      BY <1>0
    <3> QED
      BY <3>1, PowerStep
  <2> QED
    BY <1>0, <1>2, <2>1
<1>3. \A n \in 0..MaxDecimals : n \in S
  BY <1>0, <1>1, <1>2, UpTo, Zenon
<1> QED
  BY <1>3

(* The power of a sum is a product.                                        *)
LEMMA PowerSum ==
  ASSUME NEW a \in Nat, NEW n \in Nat, a + n <= MaxDecimals
  PROVE  Power[a + n] = Power[a] * Power[n]
<1> DEFINE S == {i \in 0..n : Power[a + i] = Power[a] * Power[i]}
<1>0. Base \in Nat \ {0} /\ MaxDecimals \in Nat
  BY DecimalsAssumption
<1>1. 0 \in S
  <2>1. a \in 0..MaxDecimals /\ 0 \in 0..MaxDecimals /\ a + 0 = a
    BY <1>0
  <2>2. Power[0] = 1 /\ Power[a] \in Nat
    BY <2>1, PowerStep, PowerNat
  <2> QED
    BY <2>1, <2>2
<1>2. ASSUME NEW i \in 0..(n - 1), i \in S PROVE i + 1 \in S
  <2>1. /\ a + (i + 1) \in 0..MaxDecimals /\ a + (i + 1) # 0 /\ (a + (i + 1)) - 1 = a + i
        /\ i + 1 \in 0..MaxDecimals /\ i + 1 # 0 /\ (i + 1) - 1 = i
        /\ a \in 0..MaxDecimals /\ i \in 0..MaxDecimals
    BY <1>0
  <2>2. Power[a + (i + 1)] = Base * Power[a + i] /\ Power[i + 1] = Base * Power[i]
    BY <2>1, PowerStep
  <2>3. Power[a + i] = Power[a] * Power[i]
    BY <1>2
  <2>4. Power[a] \in Nat /\ Power[i] \in Nat
    BY <2>1, PowerNat
  <2>5. Base * (Power[a] * Power[i]) = Power[a] * (Base * Power[i])
    BY <1>0, <2>4
  <2>6. Power[a + (i + 1)] = Power[a] * Power[i + 1]
    BY <2>2, <2>3, <2>5
  <2> QED
    BY <2>6
<1>3. \A i \in 0..n : i \in S
  BY <1>1, <1>2, UpTo, Zenon
<1> QED
  BY <1>3

(* The constants of the token pallet, as the proofs use them.              *)
LEMMA DecimalsType ==
    /\ StandardDecimals \in Nat /\ MaxDecimals \in Nat /\ StandardDecimals <= MaxDecimals
    /\ Width \in Nat \ {0}
BY DecimalsAssumption

(* An amount below the width does not wrap.                                *)
LEMMA SmallMod ==
    ASSUME NEW a \in Nat, NEW n \in Nat \ {0}, a < n
    PROVE  a % n = a
OBVIOUS

(* One unit with more, or with fewer decimals, in the common unit.         *)
LEMMA CommonUnits ==
    ASSUME NEW d \in 0..MaxDecimals
    PROVE  /\ d > StandardDecimals =>
                /\ Power[d - StandardDecimals] \in Nat \ {0}
                /\ Power[MaxDecimals - StandardDecimals]
                     = Power[d - StandardDecimals] * Power[MaxDecimals - d]
           /\ d <= StandardDecimals =>
                /\ Power[StandardDecimals - d] \in Nat \ {0}
                /\ Power[MaxDecimals - d]
                     = Power[StandardDecimals - d] * Power[MaxDecimals - StandardDecimals]
           /\ Power[MaxDecimals - d] \in Nat \ {0}
           /\ Power[MaxDecimals - StandardDecimals] \in Nat \ {0}
<1>1. CASE d > StandardDecimals
  <2>1. /\ d - StandardDecimals \in 0..MaxDecimals /\ MaxDecimals - d \in 0..MaxDecimals
        /\ MaxDecimals - StandardDecimals \in 0..MaxDecimals
        /\ (d - StandardDecimals) + (MaxDecimals - d) = MaxDecimals - StandardDecimals
    BY <1>1, DecimalsType
  <2>2. Power[MaxDecimals - StandardDecimals] = Power[d - StandardDecimals] * Power[MaxDecimals - d]
    <3>1. d - StandardDecimals \in Nat /\ MaxDecimals - d \in Nat
          /\ (d - StandardDecimals) + (MaxDecimals - d) <= MaxDecimals
      BY <2>1
    <3>2. Power[(d - StandardDecimals) + (MaxDecimals - d)] = Power[d - StandardDecimals] * Power[MaxDecimals - d]
      BY <3>1, PowerSum
    <3> QED
      BY <2>1, <3>2
  <2> QED
    BY <1>1, <2>1, <2>2, PowerNat, DecimalsType
<1>2. CASE d <= StandardDecimals
  <2>1. /\ StandardDecimals - d \in 0..MaxDecimals /\ MaxDecimals - d \in 0..MaxDecimals
        /\ MaxDecimals - StandardDecimals \in 0..MaxDecimals
        /\ (StandardDecimals - d) + (MaxDecimals - StandardDecimals) = MaxDecimals - d
    BY <1>2, DecimalsType
  <2>2. Power[MaxDecimals - d] = Power[StandardDecimals - d] * Power[MaxDecimals - StandardDecimals]
    <3>1. StandardDecimals - d \in Nat /\ MaxDecimals - StandardDecimals \in Nat
          /\ (StandardDecimals - d) + (MaxDecimals - StandardDecimals) <= MaxDecimals
      BY <2>1
    <3>2. Power[(StandardDecimals - d) + (MaxDecimals - StandardDecimals)]
            = Power[StandardDecimals - d] * Power[MaxDecimals - StandardDecimals]
      BY <3>1, PowerSum
    <3> QED
      BY <2>1, <3>2
  <2> QED
    BY <1>2, <2>1, <2>2, PowerNat, DecimalsType
<1> QED
  BY <1>1, <1>2, DecimalsType

(* What is converted to the chain's decimals is an amount, too, and never  *)
(* more than it was in the contract's.                                     *)
LEMMA Entering ==
    ASSUME NEW d \in 0..MaxDecimals, NEW amount \in 0..(Width - 1)
    PROVE  /\ to_standard(amount, d) \in 0..(Width - 1)
           /\ to_standard(amount, d) * Power[MaxDecimals - StandardDecimals]
                <= amount * Power[MaxDecimals - d]
<1> DEFINE S == Power[MaxDecimals - StandardDecimals]
           D == Power[MaxDecimals - d]
<1>0. S \in Nat \ {0} /\ D \in Nat \ {0} /\ amount \in Nat /\ Width \in Nat \ {0}
  BY CommonUnits, DecimalsType
<1>1. CASE d > StandardDecimals
  <2> DEFINE P == Power[d - StandardDecimals]
             q == amount \div P
  <2>1. P \in Nat \ {0} /\ S = P * D
    BY <1>1, CommonUnits
  <2>2. q \in Nat /\ P * q <= amount /\ q <= amount
    <3> HIDE DEF P
    <3>1. q \in Nat /\ amount % P \in 0..(P - 1) /\ amount = P * q + (amount % P)
      BY <1>0, <2>1, DivMod
    <3>2. q <= amount
      BY <1>0, <2>1, DivBelow
    <3>3. P * q \in Nat
      BY <2>1, <3>1, ProductNat
    <3> QED
      BY <3>1, <3>2, <3>3
  <2>3. to_standard(amount, d) = q
    BY <1>1, Zenon DEF to_standard
  <2> HIDE DEF P, q, S, D
  <2>4. q * S = D * (P * q)
    BY <1>0, <2>1, <2>2
  <2>5. D * (P * q) <= D * amount
    BY <1>0, <2>1, <2>2, ProductNat, ProductMonotone
  <2>6. q * S <= amount * D
    BY <1>0, <2>4, <2>5, Products
  <2>7. q \in 0..(Width - 1)
    BY <1>0, <2>2
  <2> QED
    BY <2>3, <2>6, <2>7 DEF S, D
<1>2. CASE d <= StandardDecimals
  <2> DEFINE P == Power[StandardDecimals - d]
             x == amount * P
             r == x % Width
  <2>1. P \in Nat \ {0} /\ D = P * S
    BY <1>2, CommonUnits
  <2>2. to_standard(amount, d) = r
    BY <1>2, DecimalsType DEF to_standard
  <2>3. x \in Nat
    BY <1>0, <2>1, ProductNat
  <2>4. r \in 0..(Width - 1) /\ r <= x
    <3> HIDE DEF x
    <3>1. x \div Width \in Nat /\ r \in 0..(Width - 1) /\ x = Width * (x \div Width) + r
      BY <1>0, <2>3, DivMod
    <3>2. Width * (x \div Width) \in Nat
      BY <1>0, <3>1, ProductNat
    <3> QED
      BY <1>0, <3>1, <3>2
  <2> HIDE DEF P, r, S, D
  <2>5. S * r <= S * x
    <3> HIDE DEF x
    <3> QED
      BY <1>0, <2>3, <2>4, ProductMonotone
  <2>6. S * x = amount * D /\ S * r = r * S
    BY <1>0, <2>1, <2>4
  <2>7. r * S <= amount * D
    BY <2>5, <2>6
  <2> QED
    BY <2>2, <2>4, <2>7 DEF S, D
<1> QED
  BY <1>1, <1>2, DecimalsType

(* What is left of a converted amount after the fee is converted back      *)
(* without wrapping, and the rest is the fee and less than one unit.       *)
LEMMA Leaving ==
    ASSUME NEW d \in 0..MaxDecimals, NEW amount \in 0..(Width - 1),
           NEW fee \in Nat, NEW s, s = to_standard(amount, d), fee <= s,
           NEW ext, ext = to_external(s - fee, d),
           NEW back, back = to_standard(ext, d)
    PROVE  /\ ext \in Nat /\ back \in Nat /\ back + fee <= s
           /\ back * Power[MaxDecimals - StandardDecimals] = ext * Power[MaxDecimals - d]
           /\ (s - back - fee) * Power[MaxDecimals - StandardDecimals] < Power[MaxDecimals - d]
<1> DEFINE S == Power[MaxDecimals - StandardDecimals]
           D == Power[MaxDecimals - d]
           n == s - fee
<1>0. /\ S \in Nat \ {0} /\ D \in Nat \ {0} /\ amount \in Nat /\ Width \in Nat \ {0}
      /\ s \in 0..(Width - 1) /\ n \in 0..(Width - 1) /\ n \in Nat /\ s \in Nat
  <2>1. s \in 0..(Width - 1)
    BY Entering
  <2> QED
    BY <2>1, CommonUnits, DecimalsType
<1>1. CASE d > StandardDecimals
  <2> DEFINE P == Power[d - StandardDecimals]
             x == n * P
  <2>1. P \in Nat \ {0} /\ S = P * D
    BY <1>1, CommonUnits
  <2>2. s = amount \div P /\ ext = x % Width /\ back = ext \div P
    <3>1. s = amount \div P
      BY <1>1, Zenon DEF to_standard
    <3>2. ext = x % Width
      BY <1>1, Zenon DEF to_external
    <3>3. back = ext \div P
      BY <1>1, Zenon DEF to_standard
    <3> QED
      BY <3>1, <3>2, <3>3
  <2> HIDE DEF P, S, D
  <2>3. P * n \in Nat /\ x = P * n /\ P * n < Width
    <3>1. amount \div P \in Nat /\ amount % P \in 0..(P - 1) /\ amount = P * (amount \div P) + (amount % P)
      BY <1>0, <2>1, DivMod
    <3>2. P * n \in Nat /\ P * s \in Nat /\ x = P * n
      BY <1>0, <2>1, ProductNat, Products
    <3>3. P * n <= P * s
      <4>1. n <= s /\ n \in Int /\ s \in Int /\ P \in Nat
        BY <1>0, <2>1
      <4> QED
        BY <4>1, ProductMonotone
    <3>4. amount = P * s + (amount % P)
      BY <2>2, <3>1
    <3> HIDE DEF n, x
    <3> QED
      BY <1>0, <3>1, <3>2, <3>3, <3>4
  <2>4. ext = P * n
    <3> HIDE DEF n, x
    <3>1. (P * n) % Width = P * n
      BY <1>0, <2>3, SmallMod
    <3> QED
      BY <2>2, <2>3, <3>1
  <2>5. back = n
    <3> HIDE DEF n, x
    <3>1. 0 \in 0..(P - 1)
      BY <2>1
    <3>2. (P * n + 0) \div P = n
      BY <1>0, <2>1, <3>1, DivUnique
    <3>3. P * n + 0 = P * n
      BY <2>3
    <3> QED
      BY <2>2, <2>4, <3>2, <3>3
  <2>6. back * S = ext * D
    <3>1. n * (P * D) = (P * n) * D
      <4> HIDE DEF n
      <4> QED
        BY <1>0, <2>1
    <3> QED
      BY <2>1, <2>4, <2>5, <3>1
  <2>7. (s - back - fee) * S < D
    <3>1. s - back - fee = 0
      BY <1>0, <2>5
    <3> QED
      BY <1>0, <3>1
  <2> QED
    BY <1>0, <2>3, <2>4, <2>5, <2>6, <2>7 DEF S, D
<1>2. CASE d <= StandardDecimals
  <2> DEFINE P == Power[StandardDecimals - d]
             x == ext * P
             r == n % P
  <2>1. P \in Nat \ {0} /\ D = P * S
    BY <1>2, CommonUnits
  <2>2. ext = n \div P /\ back = x % Width
    BY <1>2, DecimalsType DEF to_external, to_standard
  <2> HIDE DEF P, S, D
  <2>3. ext \in Nat /\ r \in 0..(P - 1) /\ n = P * ext + r
    <3> HIDE DEF n
    <3> QED
      BY <1>0, <2>1, <2>2, DivMod
  <2>4. P * ext \in Nat /\ x = P * ext /\ r \in Nat
    BY <2>1, <2>3, ProductNat, Products
  <2>5. back = P * ext
    <3>1. P * ext \in 0..(Width - 1)
      <4> DEFINE y == P * ext
      <4> HIDE DEF y, n, r
      <4>1. y \in Nat /\ n = y + r /\ r \in Nat
        BY <2>3, <2>4 DEF y
      <4> QED
        BY <1>0, <4>1 DEF y
    <3>2. (P * ext) % Width = P * ext
      BY <1>0, <3>1, SmallMod
    <3> QED
      BY <2>2, <2>4, <3>2
  <2>6. back * S = ext * D
    <3>1. (P * ext) * S = ext * (P * S)
      BY <1>0, <2>1, <2>3
    <3> QED
      BY <2>1, <2>5, <3>1
  <2>7. s - back - fee = r /\ back + fee <= s
    <3> DEFINE y == P * ext
    <3> HIDE DEF y, r
    <3>1. y \in Nat /\ s - fee = y + r /\ r \in Nat /\ back = y
      BY <2>3, <2>4, <2>5 DEF y
    <3>2. s \in Nat
      BY <1>0
    <3>3. s = y + r + fee
      BY <3>1, <3>2
    <3>4. s - y - fee = r /\ y + fee <= s
      BY <3>1, <3>3
    <3> QED
      BY <3>1, <3>4
  <2>8. r * S < D
    <3> HIDE DEF r
    <3>1. S * r + S <= S * P
      BY <1>0, <2>1, <2>3, <2>4, ProductOrder
    <3>2. S * r \in Nat /\ S * r = r * S /\ S * P = D
      BY <1>0, <2>1, <2>4, ProductNat, Products
    <3>3. r * S + S <= D /\ r * S \in Nat
      BY <3>1, <3>2
    <3> QED
      BY <1>0, <3>3
  <2> QED
    BY <2>3, <2>4, <2>5, <2>6, <2>7, <2>8 DEF S, D
<1> QED
  BY <1>1, <1>2, DecimalsType

-----------------------------------------------------------------------------
(* The ledger. *)

(* Balances of any size. *)
Account == [free : Nat, reserved : Nat]
Ledger == [TokenIds -> [Accounts -> Account]]
Has(a) == a.free + a.reserved

(* There are finitely many accounts.                                       *)
LEMMA AccountsFinite == IsFiniteSet(Accounts)
BY IssuanceAssumption

(* What is held of a token is no less than what any account has of it. *)
LEMMA HeldNat ==
    ASSUME NEW b \in Ledger, NEW t \in TokenIds
    PROVE  /\ HeldOf(b, t) \in Nat
           /\ \A a \in Accounts : b[t][a].free + b[t][a].reserved <= HeldOf(b, t)
<1> DEFINE h == [a \in Accounts |-> b[t][a].free + b[t][a].reserved]
<1>1. \A a \in Accounts : h[a] \in Nat
  BY DEF Ledger, Account
<1>2. HeldOf(b, t) = SumFunctionOnSet(h, Accounts)
  BY Zenon DEF HeldOf
<1>3. \A a \in Accounts : h[a] = b[t][a].free + b[t][a].reserved
  OBVIOUS
<1> HIDE DEF h
<1>4. SumFunctionOnSet(h, Accounts) \in Nat /\ \A a \in Accounts : h[a] <= SumFunctionOnSet(h, Accounts)
  BY <1>1, AccountsFinite, SumNat
<1> QED
  BY <1>2, <1>3, <1>4

(* One account changes by an amount, and so does what is held. *)
LEMMA HeldChange ==
    ASSUME NEW b \in Ledger, NEW c \in Ledger, NEW t \in TokenIds, NEW a \in Accounts,
           NEW delta \in Int,
           \A u \in TokenIds \ {t} : c[u] = b[u],
           \A x \in Accounts \ {a} : c[t][x] = b[t][x],
           Has(c[t][a]) = Has(b[t][a]) + delta
    PROVE  /\ HeldOf(c, t) = HeldOf(b, t) + delta
           /\ \A u \in TokenIds \ {t} : HeldOf(c, u) = HeldOf(b, u)
<1> DEFINE h == [x \in Accounts |-> b[t][x].free + b[t][x].reserved]
           g == [x \in Accounts |-> c[t][x].free + c[t][x].reserved]
<1>1. /\ \A x \in Accounts : h[x] \in Int /\ g[x] \in Int
      /\ \A x \in Accounts : x # a => g[x] = h[x]
      /\ g[a] = h[a] + delta
  BY DEF Ledger, Account, Has
<1>2. HeldOf(b, t) = SumFunctionOnSet(h, Accounts) /\ HeldOf(c, t) = SumFunctionOnSet(g, Accounts)
  BY Zenon DEF HeldOf
<1> HIDE DEF h, g
<1>3. SumFunctionOnSet(g, Accounts) = SumFunctionOnSet(h, Accounts) + g[a] - h[a]
  BY <1>1, AccountsFinite, SumChange
<1>4. SumFunctionOnSet(h, Accounts) \in Int
  BY <1>1, AccountsFinite, SumType
<1>5. HeldOf(c, t) = HeldOf(b, t) + delta
  BY <1>1, <1>2, <1>3, <1>4
<1>6. \A u \in TokenIds \ {t} : HeldOf(c, u) = HeldOf(b, u)
  BY Zenon DEF HeldOf
<1> QED
  BY <1>5, <1>6

(* A transfer between two accounts. *)
LEMMA TransferredMoves ==
    ASSUME NEW b \in Ledger, NEW t \in TokenIds, NEW x \in Accounts, NEW y \in Accounts, x # y,
           NEW amount \in Nat, CanTransfer(b, t, x, y, amount),
           NEW c, c = Transferred(b, t, x, y, amount)
    PROVE  /\ c \in Ledger
           /\ \A u \in TokenIds : HeldOf(c, u) = HeldOf(b, u)
           /\ \A u \in TokenIds \ {t} : c[u] = b[u]
           /\ \A a \in Accounts \ {x, y} : c[t][a] = b[t][a]
           /\ c[t][x].free = b[t][x].free - amount /\ c[t][x].reserved = b[t][x].reserved
           /\ c[t][y].free = b[t][y].free + amount /\ c[t][y].reserved = b[t][y].reserved
           /\ amount # 0 => c[t][y].free < Width
           /\ amount <= b[t][x].free
<1>1. CASE amount = 0
  <2>1. c = b
    BY <1>1 DEF Transferred
  <2>2. \A a \in Accounts : b[t][a].free \in Nat
    BY DEF Ledger, Account
  <2> QED
    BY <1>1, <2>1, <2>2
<1>2. CASE amount # 0
  <2> DEFINE m == [b EXCEPT ![t][x].free = b[t][x].free - amount]
  <2>1. amount <= b[t][x].free /\ b[t][y].free + amount < Width
    BY <1>2 DEF CanTransfer
  <2>2. /\ b[t][x].free \in Nat /\ b[t][y].free \in Nat
        /\ b[t][x].reserved \in Nat /\ b[t][y].reserved \in Nat
        /\ b[t][x].free - amount \in Nat
    BY <2>1 DEF Ledger, Account
  <2>3. /\ m \in Ledger
        /\ \A u \in TokenIds \ {t} : m[u] = b[u]
        /\ \A a \in Accounts \ {x} : m[t][a] = b[t][a]
        /\ m[t][x].free = b[t][x].free - amount /\ m[t][x].reserved = b[t][x].reserved
    BY <2>2 DEF Ledger, Account
  <2>4. c = [m EXCEPT ![t][y].free = m[t][y].free + amount]
    <3>1. c = [b EXCEPT ![t][x].free = b[t][x].free - amount, ![t][y].free = b[t][y].free + amount]
      BY <1>2, <2>3 DEF Transferred, Ledger
    <3>2. m[t][y].free = b[t][y].free
      BY <2>3
    <3> QED
      BY <3>1, <3>2
  <2> HIDE DEF m
  <2>5. /\ c \in Ledger
        /\ \A u \in TokenIds \ {t} : c[u] = m[u]
        /\ \A a \in Accounts \ {y} : c[t][a] = m[t][a]
        /\ c[t][y].free = m[t][y].free + amount /\ c[t][y].reserved = m[t][y].reserved
    <3>1. m[t][y].free + amount \in Nat
      BY <2>2, <2>3
    <3> QED
      BY <2>3, <2>4, <3>1 DEF Ledger, Account
  <2>6. Has(m[t][x]) = Has(b[t][x]) + (-amount) /\ -amount \in Int
    BY <2>2, <2>3 DEF Has
  <2>7. Has(c[t][y]) = Has(m[t][y]) + amount /\ amount \in Int
    BY <2>2, <2>3, <2>5 DEF Has
  <2>8. HeldOf(m, t) = HeldOf(b, t) + (-amount) /\ \A u \in TokenIds \ {t} : HeldOf(m, u) = HeldOf(b, u)
    BY <2>3, <2>6, HeldChange
  <2>9. HeldOf(c, t) = HeldOf(m, t) + amount /\ \A u \in TokenIds \ {t} : HeldOf(c, u) = HeldOf(m, u)
    BY <2>3, <2>5, <2>7, HeldChange
  <2>10. HeldOf(b, t) \in Nat
    BY HeldNat
  <2>11. \A u \in TokenIds : HeldOf(c, u) = HeldOf(b, u)
    BY <2>8, <2>9, <2>10
  <2>12. /\ \A u \in TokenIds \ {t} : c[u] = b[u]
         /\ \A a \in Accounts \ {x, y} : c[t][a] = b[t][a]
         /\ c[t][x].free = b[t][x].free - amount /\ c[t][x].reserved = b[t][x].reserved
         /\ c[t][y].free = b[t][y].free + amount /\ c[t][y].reserved = b[t][y].reserved
    BY <2>3, <2>5
  <2> QED
    BY <2>1, <2>5, <2>11, <2>12
<1> QED
  BY <1>1, <1>2

(* What an account has of a token is replaced. *)
Replaced(b, t, x, a) == [b EXCEPT ![t] = [b[t] EXCEPT ![x] = a]]

(* The other accounts, and the other tokens, are left alone.               *)
LEMMA AccountReplaced ==
    ASSUME NEW b \in Ledger, NEW t \in TokenIds, NEW x \in Accounts, NEW a \in Account
    PROVE  /\ Replaced(b, t, x, a) \in Ledger
           /\ \A u \in TokenIds \ {t} : Replaced(b, t, x, a)[u] = b[u]
           /\ \A y \in Accounts \ {x} : Replaced(b, t, x, a)[t][y] = b[t][y]
           /\ Replaced(b, t, x, a)[t][x] = a
<1> DEFINE row == [b[t] EXCEPT ![x] = a]
           c == Replaced(b, t, x, a)
<1>1. /\ row \in [Accounts -> Account] /\ row[x] = a
      /\ \A y \in Accounts \ {x} : row[y] = b[t][y]
  BY DEF Ledger
<1>2. c = [b EXCEPT ![t] = row]
  BY DEF Replaced
<1> HIDE DEF row, c
<1>3. c \in Ledger /\ c[t] = row /\ \A u \in TokenIds \ {t} : c[u] = b[u]
  BY <1>1, <1>2 DEF Ledger
<1>4. /\ c \in Ledger
      /\ \A u \in TokenIds \ {t} : c[u] = b[u]
      /\ \A y \in Accounts \ {x} : c[t][y] = b[t][y]
      /\ c[t][x] = a
  BY <1>1, <1>3
<1> QED
  BY <1>4 DEF c

(* What is held changes by what the account gains.                         *)
LEMMA AccountHeld ==
    ASSUME NEW b \in Ledger, NEW t \in TokenIds, NEW x \in Accounts, NEW a \in Account,
           NEW delta \in Int, Has(a) = Has(b[t][x]) + delta
    PROVE  /\ HeldOf(Replaced(b, t, x, a), t) = HeldOf(b, t) + delta
           /\ \A u \in TokenIds \ {t} : HeldOf(Replaced(b, t, x, a), u) = HeldOf(b, u)
<1> DEFINE c == Replaced(b, t, x, a)
<1>1. /\ c \in Ledger
      /\ \A u \in TokenIds \ {t} : c[u] = b[u]
      /\ \A y \in Accounts \ {x} : c[t][y] = b[t][y]
      /\ c[t][x] = a
  BY AccountReplaced
<1> HIDE DEF c
<1>2. Has(c[t][x]) = Has(b[t][x]) + delta
  BY <1>1
<1>3. HeldOf(c, t) = HeldOf(b, t) + delta /\ \A u \in TokenIds \ {t} : HeldOf(c, u) = HeldOf(b, u)
  BY <1>1, <1>2, HeldChange
<1> QED
  BY <1>3 DEF c

(* The forms in which the ledger does it. *)
WithFree(b, t, x, v) == [b EXCEPT ![t][x].free = v]
WithBoth(b, t, x, v, w) == [b EXCEPT ![t][x].free = v, ![t][x].reserved = w]

(* Each of the two replaces one account.                                   *)
LEMMA AccountSet ==
    ASSUME NEW b \in Ledger, NEW t \in TokenIds, NEW x \in Accounts, NEW v \in Nat, NEW w \in Nat
    PROVE  /\ [free |-> v, reserved |-> w] \in Account
           /\ Has([free |-> v, reserved |-> w]) = v + w
           /\ WithBoth(b, t, x, v, w)
                = Replaced(b, t, x, [free |-> v, reserved |-> w])
           /\ WithFree(b, t, x, v)
                = Replaced(b, t, x, [free |-> v, reserved |-> b[t][x].reserved])
<1>1. b[t][x] \in Account /\ b[t] \in [Accounts -> Account]
  BY DEF Ledger
<1>2. [b[t][x] EXCEPT !.free = v] = [free |-> v, reserved |-> b[t][x].reserved]
  BY <1>1 DEF Account
<1>3. [b EXCEPT ![t][x].free = v]
         = [b EXCEPT ![t] = [b[t] EXCEPT ![x] = [b[t][x] EXCEPT !.free = v]]]
  BY <1>1 DEF Ledger
<1>5. [b EXCEPT ![t][x].free = v, ![t][x].reserved = w]
         = [b EXCEPT ![t] = [b[t] EXCEPT ![x] = [free |-> v, reserved |-> w]]]
  <2> DEFINE r1 == [free |-> v, reserved |-> b[t][x].reserved]
             m == Replaced(b, t, x, r1)
  <2>1. [b EXCEPT ![t][x].free = v] = m
    BY <1>2, <1>3 DEF Replaced
  <2>2. [b EXCEPT ![t][x].free = v, ![t][x].reserved = w] = [m EXCEPT ![t][x].reserved = w]
    BY <2>1
  <2>3. r1 \in Account
    BY <1>1 DEF Account
  <2>4. [r1 EXCEPT !.reserved = w] = [free |-> v, reserved |-> w]
    OBVIOUS
  <2> HIDE DEF r1, m
  <2>5. /\ m \in Ledger /\ m[t][x] = r1
        /\ \A u \in TokenIds \ {t} : m[u] = b[u]
        /\ \A y \in Accounts \ {x} : m[t][y] = b[t][y]
    BY <2>3, AccountReplaced DEF m
  <2>6. [m EXCEPT ![t][x].reserved = w] = [m EXCEPT ![t] = [m[t] EXCEPT ![x] = [m[t][x] EXCEPT !.reserved = w]]]
    BY <2>5 DEF Ledger
  <2>7. [m[t] EXCEPT ![x] = [m[t][x] EXCEPT !.reserved = w]] = [b[t] EXCEPT ![x] = [free |-> v, reserved |-> w]]
    <3>1. m[t] \in [Accounts -> Account] /\ b[t] \in [Accounts -> Account]
      BY <2>5, <1>1 DEF Ledger
    <3> DEFINE r2 == [free |-> v, reserved |-> w]
    <3>2. [m[t][x] EXCEPT !.reserved = w] = r2
      BY <2>4, <2>5
    <3> HIDE DEF r2
    <3>3. [m[t] EXCEPT ![x] = r2] = [b[t] EXCEPT ![x] = r2]
      BY <2>5, <3>1
    <3> QED
      BY <3>2, <3>3 DEF r2
  <2> DEFINE row == [b[t] EXCEPT ![x] = [free |-> v, reserved |-> w]]
  <2>8. [m EXCEPT ![t][x].reserved = w] = [m EXCEPT ![t] = row]
    BY <2>6, <2>7
  <2> HIDE DEF row
  <2>9. [m EXCEPT ![t] = row] = [b EXCEPT ![t] = row]
    BY <2>5 DEF Ledger
  <2> QED
    BY <2>2, <2>8, <2>9 DEF row
<1>6. [free |-> v, reserved |-> w] \in Account /\ Has([free |-> v, reserved |-> w]) = v + w
  BY DEF Account, Has
<1> QED
  BY <1>2, <1>3, <1>5, <1>6 DEF Replaced, WithFree, WithBoth

(* Free tokens are reserved. *)
LEMMA ReservedMoves ==
    ASSUME NEW b \in Ledger, NEW t \in TokenIds, NEW x \in Accounts, NEW amount \in Nat,
           amount <= b[t][x].free
    PROVE  LET c == Reserved(b, t, x, amount)
           IN  /\ c \in Ledger
               /\ \A u \in TokenIds : HeldOf(c, u) = HeldOf(b, u)
               /\ \A u \in TokenIds \ {t} : c[u] = b[u]
               /\ \A a \in Accounts \ {x} : c[t][a] = b[t][a]
               /\ c[t][x].free = b[t][x].free - amount
               /\ c[t][x].reserved = b[t][x].reserved + amount
<1> DEFINE v == b[t][x].free - amount
           w == b[t][x].reserved + amount
           acc == [free |-> v, reserved |-> w]
           c == Reserved(b, t, x, amount)
<1>1. v \in Nat /\ w \in Nat /\ v + w = Has(b[t][x]) + 0
  BY DEF Ledger, Account, Has
<1>2. c = WithBoth(b, t, x, v, w)
  BY Zenon DEF Reserved, WithBoth
<1>3. HeldOf(b, t) \in Nat /\ 0 \in Int
  BY HeldNat
<1>4. acc.free = b[t][x].free - amount /\ acc.reserved = b[t][x].reserved + amount
  OBVIOUS
<1> HIDE DEF v, w, c
<1>5. c = Replaced(b, t, x, acc) /\ acc \in Account /\ Has(acc) = v + w
  BY <1>1, <1>2, AccountSet
<1> HIDE DEF acc
<1>6. Has(acc) = Has(b[t][x]) + 0
  BY <1>1, <1>5
<1>7. HeldOf(c, t) = HeldOf(b, t) + 0 /\ \A u \in TokenIds \ {t} : HeldOf(c, u) = HeldOf(b, u)
  BY <1>3, <1>5, <1>6, AccountHeld
<1>8. /\ c \in Ledger /\ c[t][x] = acc
      /\ \A u \in TokenIds \ {t} : c[u] = b[u]
      /\ \A a \in Accounts \ {x} : c[t][a] = b[t][a]
  BY <1>5, AccountReplaced
<1> QED
  BY <1>3, <1>4, <1>7, <1>8 DEF c

(* Reserved tokens are free again. *)
LEMMA UnreservedMoves ==
    ASSUME NEW b \in Ledger, NEW t \in TokenIds, NEW x \in Accounts, NEW amount \in Nat,
           amount <= b[t][x].reserved
    PROVE  LET c == Unreserved(b, t, x, amount)
           IN  /\ c \in Ledger
               /\ \A u \in TokenIds : HeldOf(c, u) = HeldOf(b, u)
               /\ \A u \in TokenIds \ {t} : c[u] = b[u]
               /\ \A a \in Accounts \ {x} : c[t][a] = b[t][a]
<1> DEFINE v == b[t][x].free + amount
           w == b[t][x].reserved - amount
           acc == [free |-> v, reserved |-> w]
           c == Unreserved(b, t, x, amount)
<1>1. v \in Nat /\ w \in Nat /\ v + w = Has(b[t][x]) + 0
  BY DEF Ledger, Account, Has
<1>2. c = WithBoth(b, t, x, v, w)
  BY Zenon DEF Unreserved, WithBoth
<1>3. HeldOf(b, t) \in Nat /\ 0 \in Int
  BY HeldNat
<1> HIDE DEF v, w, c
<1>5. c = Replaced(b, t, x, acc) /\ acc \in Account /\ Has(acc) = v + w
  BY <1>1, <1>2, AccountSet
<1> HIDE DEF acc
<1>6. Has(acc) = Has(b[t][x]) + 0
  BY <1>1, <1>5
<1>7. HeldOf(c, t) = HeldOf(b, t) + 0 /\ \A u \in TokenIds \ {t} : HeldOf(c, u) = HeldOf(b, u)
  BY <1>3, <1>5, <1>6, AccountHeld
<1>8. /\ c \in Ledger
      /\ \A u \in TokenIds \ {t} : c[u] = b[u]
      /\ \A a \in Accounts \ {x} : c[t][a] = b[t][a]
  BY <1>5, AccountReplaced
<1> QED
  BY <1>3, <1>7, <1>8 DEF c

(* Tokens are added to, or taken from, what an account has free. *)
LEMMA FreeChanges ==
    ASSUME NEW b \in Ledger, NEW t \in TokenIds, NEW x \in Accounts, NEW delta \in Int,
           b[t][x].free + delta \in Nat
    PROVE  LET c == WithFree(b, t, x, b[t][x].free + delta)
           IN  /\ c \in Ledger
               /\ HeldOf(c, t) = HeldOf(b, t) + delta
               /\ \A u \in TokenIds \ {t} : HeldOf(c, u) = HeldOf(b, u)
               /\ \A u \in TokenIds \ {t} : c[u] = b[u]
               /\ \A a \in Accounts \ {x} : c[t][a] = b[t][a]
               /\ c[t][x].free = b[t][x].free + delta /\ c[t][x].reserved = b[t][x].reserved
<1> DEFINE v == b[t][x].free + delta
           w == b[t][x].reserved
           acc == [free |-> v, reserved |-> w]
           c == WithFree(b, t, x, v)
<1>1. v \in Nat /\ w \in Nat /\ v + w = Has(b[t][x]) + delta
  BY DEF Ledger, Account, Has
<1>4. acc.free = b[t][x].free + delta /\ acc.reserved = b[t][x].reserved
  OBVIOUS
<1>5. c = Replaced(b, t, x, acc) /\ acc \in Account /\ Has(acc) = v + w
  <2> HIDE DEF v
  <2> QED
    BY <1>1, AccountSet
<1> HIDE DEF acc, v, w, c
<1>6. Has(acc) = Has(b[t][x]) + delta
  BY <1>1, <1>5
<1>7. HeldOf(c, t) = HeldOf(b, t) + delta /\ \A u \in TokenIds \ {t} : HeldOf(c, u) = HeldOf(b, u)
  BY <1>5, <1>6, AccountHeld
<1>8. /\ c \in Ledger /\ c[t][x] = acc
      /\ \A u \in TokenIds \ {t} : c[u] = b[u]
      /\ \A a \in Accounts \ {x} : c[t][a] = b[t][a]
  BY <1>5, AccountReplaced
<1> QED
  BY <1>4, <1>7, <1>8 DEF c, v

-----------------------------------------------------------------------------
(* Transfers out. *)

(* The accounts of the pallets are accounts, and no users.                 *)
LEMMA AccountIds ==
    /\ Users \subseteq Accounts /\ Treasury \in Accounts /\ Donor \in Accounts /\ BridgeAccount \in Accounts
    /\ Treasury \notin Users /\ Donor \notin Users /\ BridgeAccount \notin Users
    /\ Treasury # Donor /\ Treasury # BridgeAccount /\ Donor # BridgeAccount
BY AccountsAssumption

(* Issued tokens are neither native nor missing.                           *)
LEMMA TokenIdsType ==
    ASSUME TokenTypeOK
    PROVE  /\ Native \in TokenIds /\ \A t \in DOMAIN tokens : t \in TokenIds /\ t # Native /\ t # NoToken
           /\ Len(tokens) \in Nat /\ DOMAIN tokens = 1..Len(tokens) /\ NoToken \notin TokenIds
           /\ \A t \in DOMAIN tokens : tokens[t] \in XToken
BY TokenAssumption DEF TokenTypeOK, TokenIds, Native, NoToken

(* Balances of the right width are balances.                               *)
LEMMA LedgerType == TokenTypeOK => balances \in Ledger
<1> SUFFICES ASSUME TokenTypeOK PROVE balances \in Ledger
  OBVIOUS
<1>1. \A t \in TokenIds, a \in Accounts : balances[t][a] \in [free : 0..(Width - 1), reserved : 0..(Width - 1)]
  BY DEF TokenTypeOK
<1>2. \A t \in TokenIds, a \in Accounts : balances[t][a] \in Account
  BY <1>1 DEF Account
<1> QED
  BY <1>2 DEF TokenTypeOK, Ledger

(* The fee that is quoted. *)
LEMMA FeeNat ==
    ASSUME BridgeTypeOK, NEW t \in TokenIds, NEW c \in Chains
    PROVE  calculate_bridging_fee(c, t) \in Nat
<1>1. get_price(t) \in Nat /\ bridging_fee[c] \in Nat
  BY BridgeAssumption DEF BridgeTypeOK, get_price
<1>2. CASE get_price(t) = 0
  BY <1>2 DEF calculate_bridging_fee
<1>3. CASE get_price(t) # 0
  <2> DEFINE a == get_price(t)
             v == bridging_fee[c]
  <2> HIDE DEF a, v
  <2>1. a \in Nat \ {0} /\ v \in Nat /\ Quintill \in Nat
    BY <1>1, <1>3, BridgeAssumption DEF a, v
  <2>2. v \div a \in Nat /\ v % a \in Nat
    BY <2>1, DivMod
  <2>3. (v \div a) * Quintill \in Nat /\ (v % a) * Quintill \in Nat
    BY <2>1, <2>2, ProductNat
  <2>4. ((v % a) * Quintill) \div a \in Nat
    BY <2>1, <2>3, DivMod
  <2>5. Ratio(v, a) \in Nat
    BY <2>3, <2>4 DEF Ratio
  <2> QED
    BY <2>5 DEF calculate_bridging_fee, a, v
<1> QED
  BY <1>2, <1>3

(* A rounded ratio of amounts is one.                                      *)
LEMMA RatioNat ==
    ASSUME NEW v \in Nat, NEW a \in Nat \ {0}
    PROVE  Ratio(v, a) \in Nat
<1>1. v \div a \in Nat /\ v % a \in Nat /\ Quintill \in Nat
  BY DivMod, BridgeAssumption
<1>2. (v \div a) * Quintill \in Nat /\ (v % a) * Quintill \in Nat
  BY <1>1, ProductNat
<1>3. ((v % a) * Quintill) \div a \in Nat
  BY <1>2, DivMod
<1> QED
  BY <1>2, <1>3 DEF Ratio

(* Native tokens that leave are locked: the bridge account has what is     *)
(* announced on top.                                                       *)
LEMMA LockEffect ==
    ASSUME BridgeTypeOK, NEW u \in Users, NEW amount \in Amounts, NEW r \in Resources, NEW dest \in Chains,
           do_lock(u, amount, r, dest)
    PROVE  /\ is_native_resource(r)
           /\ balances' \in Ledger /\ \A t \in TokenIds : HeldOf(balances', t) = HeldOf(balances, t)
           /\ UNCHANGED <<tokens, byContract>>
           /\ \E n \in Nat : /\ announced' = [announced EXCEPT ![r] = announced[r] + n]
                             /\ balances'[Native][BridgeAccount].free = balances[Native][BridgeAccount].free + n
<1> DEFINE fee == calculate_bridging_fee(dest, Native)
           paid == Transferred(balances, Native, u, Treasury, fee)
<1>1. /\ is_native_resource(r) /\ amount > 2 * fee
      /\ CanTransfer(balances, Native, u, Treasury, fee)
      /\ CanTransfer(paid, Native, u, BridgeAccount, amount - fee)
      /\ balances' = Transferred(paid, Native, u, BridgeAccount, amount - fee)
      /\ Announce(r, amount - fee)
      /\ UNCHANGED <<tokens, byContract>>
  BY DEF do_lock
<1>2. Native \in TokenIds /\ balances \in Ledger
  BY TokenIdsType, LedgerType DEF BridgeTypeOK
<1>3. fee \in Nat /\ amount \in Nat /\ amount - fee \in Nat
  <2>1. fee \in Nat
    BY <1>2, FeeNat
  <2> HIDE DEF fee
  <2>2. amount \in Nat
    BY BridgeAssumption, DecimalsType
  <2> QED
    BY <1>1, <2>1, <2>2
<1>4. u \in Accounts /\ Treasury \in Accounts /\ BridgeAccount \in Accounts
      /\ u # Treasury /\ u # BridgeAccount /\ Treasury # BridgeAccount
  BY AccountIds
<1> HIDE DEF fee
<1>5. /\ paid \in Ledger /\ \A t \in TokenIds : HeldOf(paid, t) = HeldOf(balances, t)
      /\ \A a \in Accounts \ {u, Treasury} : paid[Native][a] = balances[Native][a]
  BY <1>1, <1>2, <1>3, <1>4, TransferredMoves
<1>6. paid[Native][BridgeAccount] = balances[Native][BridgeAccount]
  BY <1>4, <1>5
<1> HIDE DEF paid
<1> DEFINE n == amount - fee
<1> HIDE DEF n
<1>7. /\ CanTransfer(paid, Native, u, BridgeAccount, n)
      /\ balances' = Transferred(paid, Native, u, BridgeAccount, n)
      /\ Announce(r, n) /\ n \in Nat
  BY <1>1, <1>3 DEF n
<1>8. /\ balances' \in Ledger /\ \A t \in TokenIds : HeldOf(balances', t) = HeldOf(paid, t)
      /\ balances'[Native][BridgeAccount].free = paid[Native][BridgeAccount].free + n
  BY <1>2, <1>4, <1>5, <1>7, TransferredMoves
<1>9. announced' = [announced EXCEPT ![r] = announced[r] + n]
  BY <1>7 DEF Announce
<1>10. \A t \in TokenIds : HeldOf(balances', t) = HeldOf(balances, t)
  BY <1>5, <1>8
<1> QED
  BY <1>1, <1>6, <1>7, <1>8, <1>9, <1>10

(* The asset of a resource id is never native; its token is, if the id is. *)
LEMMA TokenOfType ==
    ASSUME BridgeTypeOK, NEW r \in Resources
    PROVE  /\ AssetOf(r) \in 1..MaxTokens \cup {NoToken} /\ AssetOf(r) # Native
           /\ AssetOf(r) # NoToken => AssetOf(r) \in TokenIds
           /\ AssetOf(r) # NoToken /\ exists(AssetOf(r)) => AssetOf(r) \in DOMAIN tokens
           /\ TokenOf(r) = Native <=> is_native_resource(r)
<1>1. <<r[1], r[3]>> \in Chains \X Contracts
  BY DEF Resources
<1>2. AssetOf(r) \in 1..MaxTokens \cup {NoToken}
  BY <1>1 DEF BridgeTypeOK, TokenTypeOK, AssetOf
<1>3. AssetOf(r) # Native /\ (AssetOf(r) # NoToken => AssetOf(r) \in TokenIds)
  BY <1>2, TokenAssumption DEF Native, NoToken, TokenIds
<1> QED
  BY <1>2, <1>3 DEF exists, TokenOf

(* Any other token that leaves is burned, as much as is announced; the     *)
(* treasury is charged the fee and less than one unit of the contract.     *)
LEMMA BurnEffect ==
    ASSUME BridgeTypeOK, NEW u \in Users, NEW amount \in Amounts, NEW r \in Resources, NEW dest \in Chains,
           do_burn_assets(u, amount, r, dest)
    PROVE  LET t == AssetOf(r)
               fee == calculate_bridging_fee(dest, t)
               charged == balances'[t][Treasury].free - balances[t][Treasury].free
           IN  /\ ~is_native_resource(r) /\ t \in DOMAIN tokens
               /\ balances' \in Ledger /\ \A x \in TokenIds \ {t} : balances'[x] = balances[x]
               /\ \A x \in TokenIds \ {t} : HeldOf(balances', x) = HeldOf(balances, x)
               /\ UNCHANGED byContract
               /\ \E ext, back \in Nat :
                     /\ announced' = [announced EXCEPT ![r] = announced[r] + ext]
                     /\ back <= tokens[t].total
                     /\ tokens' = [tokens EXCEPT ![t].total = tokens[t].total + (-back)]
                     /\ HeldOf(balances', t) = HeldOf(balances, t) + (-back)
                     /\ Standard(back) = External(t, ext)
               /\ fee <= charged /\ Standard(charged - fee) < External(t, 1)
<1> DEFINE t == AssetOf(r)
           d == token_external_decimals(t)
           standard == to_standard(amount, d)
           fee == calculate_bridging_fee(dest, t)
           external == to_external(standard - fee, d)
           back == to_standard(external, d)
           actual_fee == standard - back
           paid == Transferred(balances, t, u, Treasury, actual_fee)
<1>1. /\ ~is_native_resource(r)
      /\ t # NoToken /\ exists(t)
      /\ standard > 2 * fee
      /\ CanTransfer(balances, t, u, Treasury, actual_fee)
      /\ CanBurn(paid, t, u, external)
      /\ balances' = Burned(paid, t, u, external)
      /\ tokens' = Supply(t, -back)
      /\ Announce(r, external)
      /\ UNCHANGED byContract
  BY DEF do_burn_assets
<1>2. /\ t \in DOMAIN tokens /\ t \in TokenIds /\ t # Native /\ d = tokens[t].decimals
      /\ tokens[t] \in XToken /\ balances \in Ledger
  <2>1. t \in DOMAIN tokens /\ t \in TokenIds /\ t # Native
    BY <1>1, TokenOfType
  <2> QED
    BY <2>1, TokenIdsType, LedgerType DEF token_external_decimals, BridgeTypeOK
<1>3. d \in 0..MaxDecimals /\ tokens[t].total \in 0..(Width - 1) /\ tokens[t].decimals = d
  BY <1>2 DEF XToken
<1>4. fee \in Nat /\ amount \in 0..(Width - 1)
  BY <1>2, FeeNat, BridgeAssumption, DecimalsType
<1>5. u \in Accounts /\ Treasury \in Accounts /\ u # Treasury
  BY AccountIds
<1>6. standard \in 0..(Width - 1)
  BY <1>3, <1>4, Entering
<1>7. fee <= standard
  <2> HIDE DEF fee, standard
  <2> QED
    BY <1>1, <1>4, <1>6
<1>8. /\ external \in Nat /\ back \in Nat /\ back + fee <= standard
      /\ back * Power[MaxDecimals - StandardDecimals] = external * Power[MaxDecimals - d]
      /\ (standard - back - fee) * Power[MaxDecimals - StandardDecimals] < Power[MaxDecimals - d]
  <2> HIDE DEF fee, d
  <2> QED
    BY <1>3, <1>4, <1>7, Leaving
<1>9. /\ Power[MaxDecimals - d] \in Nat
  BY <1>3, CommonUnits
<1>10. /\ CanBurn(paid, t, u, external) <=>
             back > 0 /\ back <= tokens[t].total /\ back <= paid[t][u].free
       /\ Burned(paid, t, u, external) = WithFree(paid, t, u, paid[t][u].free - back)
  <2>1. to_standard(external, tokens[t].decimals) = back
    BY <1>2
  <2>2. Burned(paid, t, u, external) = WithFree(paid, t, u, paid[t][u].free - to_standard(external, tokens[t].decimals))
    BY Zenon DEF Burned, WithFree
  <2> HIDE DEF paid, external, back
  <2> QED
    BY <2>1, <2>2 DEF CanBurn
<1>11. Standard(back) = External(t, external) /\ External(t, 1) = Power[MaxDecimals - d]
       /\ Standard(actual_fee - fee) = (standard - back - fee) * Power[MaxDecimals - StandardDecimals]
  <2> HIDE DEF back, external, fee, standard, d
  <2> QED
    BY <1>3, <1>8, <1>9 DEF Standard, External
<1> HIDE DEF fee, standard, external, back, d, t
<1>12. actual_fee \in Nat /\ fee <= actual_fee /\ Standard(actual_fee - fee) < External(t, 1)
  BY <1>4, <1>6, <1>8, <1>11
<1> HIDE DEF actual_fee
<1>13. /\ paid \in Ledger /\ \A x \in TokenIds : HeldOf(paid, x) = HeldOf(balances, x)
       /\ \A x \in TokenIds \ {t} : paid[x] = balances[x]
       /\ paid[t][Treasury].free = balances[t][Treasury].free + actual_fee
  BY <1>1, <1>2, <1>5, <1>12, TransferredMoves
<1>14. balances[t][Treasury].free \in Nat /\ paid[t][u].free \in Nat
  BY <1>2, <1>5, <1>13 DEF Ledger, Account
<1> HIDE DEF paid
<1>15. /\ back <= tokens[t].total /\ back <= paid[t][u].free
       /\ balances' = WithFree(paid, t, u, paid[t][u].free - back)
  BY <1>1, <1>10
<1>16. /\ balances' = WithFree(paid, t, u, paid[t][u].free + (-back))
       /\ paid[t][u].free + (-back) \in Nat /\ -back \in Int
  <2>1. paid[t][u].free + (-back) = paid[t][u].free - back
    BY <1>8, <1>14
  <2> QED
    BY <1>8, <1>14, <1>15, <2>1
<1>17. /\ balances' \in Ledger
       /\ HeldOf(balances', t) = HeldOf(paid, t) + (-back)
       /\ \A x \in TokenIds \ {t} : HeldOf(balances', x) = HeldOf(paid, x)
       /\ \A x \in TokenIds \ {t} : balances'[x] = paid[x]
       /\ \A a \in Accounts \ {u} : balances'[t][a] = paid[t][a]
  BY <1>2, <1>5, <1>13, <1>16, FreeChanges
<1>18. balances'[t][Treasury].free - balances[t][Treasury].free = actual_fee
  <2>1. balances'[t][Treasury] = paid[t][Treasury]
    BY <1>5, <1>17
  <2> QED
    BY <1>12, <1>13, <1>14, <2>1
<1>19. announced' = [announced EXCEPT ![r] = announced[r] + external]
  BY <1>1 DEF Announce
<1>20. tokens' = [tokens EXCEPT ![t].total = tokens[t].total + (-back)]
  BY <1>1 DEF Supply
<1>21. /\ \A x \in TokenIds \ {t} : balances'[x] = balances[x]
       /\ \A x \in TokenIds \ {t} : HeldOf(balances', x) = HeldOf(balances, x)
       /\ HeldOf(balances', t) = HeldOf(balances, t) + (-back)
  BY <1>2, <1>13, <1>17
<1>22. /\ ~is_native_resource(r) /\ t \in DOMAIN tokens /\ UNCHANGED byContract
       /\ fee <= balances'[t][Treasury].free - balances[t][Treasury].free
       /\ Standard((balances'[t][Treasury].free - balances[t][Treasury].free) - fee) < External(t, 1)
  BY <1>1, <1>2, <1>12, <1>18
<1>23. \E e, k \in Nat :
          /\ announced' = [announced EXCEPT ![r] = announced[r] + e]
          /\ k <= tokens[t].total
          /\ tokens' = [tokens EXCEPT ![t].total = tokens[t].total + (-k)]
          /\ HeldOf(balances', t) = HeldOf(balances, t) + (-k)
          /\ Standard(k) = External(t, e)
  BY <1>8, <1>11, <1>15, <1>19, <1>20, <1>21
<1> QED
  BY <1>17, <1>21, <1>22, <1>23 DEF t, fee

-----------------------------------------------------------------------------
(* Arrivals. *)

(* A donation reaches its account, and takes nothing from the bridge.      *)
LEMMA DonatedEffect ==
    ASSUME NEW b \in Ledger, NEW u \in Users, Native \in TokenIds
    PROVE  LET c == Donated(b, u)
           IN  /\ c \in Ledger /\ \A t \in TokenIds : HeldOf(c, t) = HeldOf(b, t)
               /\ c[Native][BridgeAccount] = b[Native][BridgeAccount]
               /\ \A t \in TokenIds : c[t][u].free >= b[t][u].free /\ c[t][u].reserved = b[t][u].reserved
<1> DEFINE c == Donated(b, u)
           given == Transferred(b, Native, Donor, u, DonationForAgent)
<1>1. u \in Accounts /\ Donor \in Accounts /\ BridgeAccount \in Accounts
      /\ u # Donor /\ u # BridgeAccount /\ Donor # BridgeAccount
  BY AccountIds
<1>2. \A t \in TokenIds : b[t][u].free \in Nat
  BY <1>1 DEF Ledger, Account
<1>3. CASE CanTransfer(b, Native, Donor, u, DonationForAgent) /\ c = given
  <2>1. DonationForAgent \in Nat
    BY BridgeAssumption
  <2>2. /\ given \in Ledger /\ \A t \in TokenIds : HeldOf(given, t) = HeldOf(b, t)
        /\ \A t \in TokenIds \ {Native} : given[t] = b[t]
        /\ \A a \in Accounts \ {Donor, u} : given[Native][a] = b[Native][a]
        /\ given[Native][u].free = b[Native][u].free + DonationForAgent
        /\ given[Native][u].reserved = b[Native][u].reserved
    BY <1>1, <1>3, <2>1, TransferredMoves
  <2> HIDE DEF given
  <2>3. ASSUME NEW t \in TokenIds
        PROVE  given[t][u].free >= b[t][u].free /\ given[t][u].reserved = b[t][u].reserved
    <3>1. CASE t = Native
      BY <1>2, <2>1, <2>2, <3>1
    <3>2. CASE t # Native
      BY <1>2, <2>2, <3>2
    <3> QED
      BY <3>1, <3>2
  <2>4. given[Native][BridgeAccount] = b[Native][BridgeAccount]
    BY <1>1, <2>2
  <2> HIDE DEF c
  <2> QED
    BY <1>3, <2>2, <2>3, <2>4 DEF c
<1>4. CASE c = b
  BY <1>2, <1>4
<1>5. c = b \/ (CanTransfer(b, Native, Donor, u, DonationForAgent) /\ c = given)
  BY Zenon DEF Donated
<1> QED
  BY <1>3, <1>4, <1>5

(* What a deposit is. *)
LEMMA PendingType ==
    ASSUME BridgeTypeOK, NEW m \in Messages, inbound[m] # NoDeposit
    PROVE  /\ inbound[m].to \in Users /\ inbound[m].amount \in Amounts /\ inbound[m].r_id \in Resources
           /\ inbound[m].outcome \in Outcomes /\ inbound[m] \in DepositType
           /\ inbound[m].amount \in 1..(Width - 1)
           /\ DominatorOf(m) \in Dominators \cup {Nobody}
<1>1. inbound[m] \in DepositType
  BY DEF BridgeTypeOK
<1>2. inbound[m].to \in Users /\ inbound[m].amount \in Amounts /\ inbound[m].r_id \in Resources
      /\ inbound[m].outcome \in Outcomes
  BY <1>1 DEF DepositType
<1>3. inbound[m].r_id[2] \in AssociatedIds
  BY <1>2 DEF Resources
<1>4. DominatorOf(m) \in Dominators \cup {Nobody}
  BY <1>3 DEF DominatorOf, BridgeTypeOK
<1> QED
  BY <1>1, <1>2, <1>4, BridgeAssumption

(* The tokens of a deposit arrive: native ones from the bridge account,    *)
(* others are minted, and never more than the deposit covers.              *)
LEMMA ArrivedEffect ==
    ASSUME BridgeTypeOK, NEW u \in Users, NEW amount \in 1..(Width - 1), NEW r \in Resources,
           CanArrive(TokenOf(r), u, amount)
    PROVE  LET t == TokenOf(r)
               c == Arrived(t, u, amount)
               gained == to_asset_balance(amount, t)
           IN  /\ t \in TokenIds /\ gained \in Nat
               /\ c \in Ledger
               /\ c[t][u].free = balances[t][u].free + gained
               /\ c[t][u].reserved = balances[t][u].reserved
               /\ \A x \in TokenIds \ {t} : c[x] = balances[x]
               /\ \A x \in TokenIds : x # t \/ t = Native => HeldOf(c, x) = HeldOf(balances, x)
               /\ t = Native => /\ is_native_resource(r) /\ gained = amount
                                /\ c[Native][BridgeAccount].free = balances[Native][BridgeAccount].free - amount
               /\ t # Native => /\ ~is_native_resource(r) /\ t = AssetOf(r) /\ t \in DOMAIN tokens
                                /\ HeldOf(c, t) = HeldOf(balances, t) + gained
                                /\ tokens[t].total + gained < Width
                                /\ Standard(gained) <= External(t, amount)
<1> DEFINE t == TokenOf(r)
           c == Arrived(t, u, amount)
           gained == to_asset_balance(amount, t)
<1>1. u \in Accounts /\ BridgeAccount \in Accounts /\ u # BridgeAccount
  BY AccountIds
<1>2. balances \in Ledger /\ Native \in TokenIds
  BY LedgerType, TokenIdsType DEF BridgeTypeOK
<1>3. amount \in Nat /\ amount # 0 /\ amount \in 0..(Width - 1)
  BY DecimalsType
<1>4. CASE t = Native
  <2>1. /\ CanTransfer(balances, Native, BridgeAccount, u, amount)
        /\ c = Transferred(balances, Native, BridgeAccount, u, amount)
    BY <1>4 DEF CanArrive, Arrived
  <2>2. is_native_resource(r) /\ gained = amount
    BY <1>4, TokenOfType DEF to_asset_balance
  <2> HIDE DEF t, c, gained
  <2>3. /\ c \in Ledger
        /\ \A x \in TokenIds : HeldOf(c, x) = HeldOf(balances, x)
        /\ \A x \in TokenIds \ {Native} : c[x] = balances[x]
        /\ c[Native][BridgeAccount].free = balances[Native][BridgeAccount].free - amount
        /\ c[Native][u].free = balances[Native][u].free + amount
        /\ c[Native][u].reserved = balances[Native][u].reserved
    BY <1>1, <1>2, <1>3, <2>1, TransferredMoves
  <2>4. /\ t \in TokenIds /\ gained \in Nat
        /\ c \in Ledger
        /\ c[t][u].free = balances[t][u].free + gained
        /\ c[t][u].reserved = balances[t][u].reserved
        /\ \A x \in TokenIds \ {t} : c[x] = balances[x]
        /\ \A x \in TokenIds : HeldOf(c, x) = HeldOf(balances, x)
    BY <1>2, <1>3, <1>4, <2>2, <2>3
  <2> QED
    BY <1>4, <2>2, <2>3, <2>4 DEF t, c, gained
<1>5. CASE t # Native
  <2> DEFINE d == tokens[t].decimals
  <2>1. /\ t # NoToken /\ exists(t) /\ CanMint(balances, t, u, amount)
        /\ c = Minted(balances, t, u, amount) /\ gained = to_standard(amount, d)
    BY <1>5 DEF CanArrive, Arrived, to_asset_balance
  <2>2. ~is_native_resource(r) /\ t = AssetOf(r)
    BY <1>5, TokenOfType DEF TokenOf
  <2>3. t \in DOMAIN tokens /\ t \in TokenIds
    BY <2>1, <2>2, TokenOfType
  <2>4. d \in 0..MaxDecimals /\ tokens[t].total \in 0..(Width - 1)
    BY <2>3, TokenIdsType DEF BridgeTypeOK, XToken
  <2>5. gained \in 0..(Width - 1) /\ Standard(gained) <= External(t, amount)
    BY <1>3, <2>1, <2>4, Entering DEF Standard, External
  <2>6. tokens[t].total + gained < Width
    BY <1>3, <2>1 DEF CanMint
  <2>7. c = WithFree(balances, t, u, balances[t][u].free + gained)
    <3>1. c = WithFree(balances, t, u, balances[t][u].free + to_standard(amount, tokens[t].decimals))
      BY <2>1, Zenon DEF Minted, WithFree
    <3> HIDE DEF gained, c, t
    <3> QED
      BY <2>1, <3>1
  <2> HIDE DEF t, c, gained
  <2>8. gained \in Nat /\ gained \in Int /\ balances[t][u].free + gained \in Nat
    <3>1. balances[t][u].free \in Nat
      BY <1>1, <1>2, <2>3 DEF Ledger, Account
    <3> QED
      BY <2>5, <3>1
  <2>9. /\ c \in Ledger
        /\ HeldOf(c, t) = HeldOf(balances, t) + gained
        /\ \A x \in TokenIds \ {t} : HeldOf(c, x) = HeldOf(balances, x)
        /\ \A x \in TokenIds \ {t} : c[x] = balances[x]
        /\ c[t][u].free = balances[t][u].free + gained /\ c[t][u].reserved = balances[t][u].reserved
    BY <1>1, <1>2, <2>3, <2>7, <2>8, FreeChanges
  <2> QED
    BY <1>5, <2>2, <2>3, <2>5, <2>6, <2>8, <2>9 DEF t, c, gained
<1> QED
  BY <1>4, <1>5

(* The whole call: the tokens arrive, are reserved if the dominator takes  *)
(* them, and a new account gets its donation.                              *)
LEMMA ArriveEffect ==
    ASSUME BridgeTypeOK, NEW m \in Messages, transfer_in(m)
    PROVE  LET u == inbound[m].to
               amount == inbound[m].amount
               r == inbound[m].r_id
               t == TokenOf(r)
               d == DominatorOf(m)
               gained == to_asset_balance(amount, t)
           IN  /\ t \in TokenIds /\ gained \in Nat
               /\ balances' \in Ledger
               /\ \A x \in TokenIds : x # t \/ t = Native => HeldOf(balances', x) = HeldOf(balances, x)
               /\ t = Native => /\ is_native_resource(r) /\ tokens' = tokens
                                /\ balances'[Native][BridgeAccount].free
                                     = balances[Native][BridgeAccount].free - amount
               /\ t # Native => /\ ~is_native_resource(r) /\ t = AssetOf(r) /\ t \in DOMAIN tokens
                                /\ HeldOf(balances', t) = HeldOf(balances, t) + gained
                                /\ tokens' = [tokens EXCEPT ![t].total = tokens[t].total + gained]
                                /\ tokens[t].total + gained < Width
                                /\ Standard(gained) <= External(t, amount)
                                /\ balances'[Native][BridgeAccount].free
                                     = balances[Native][BridgeAccount].free
               /\ IF d \in active /\ receipts[u][d] = NoReceipt
                  THEN /\ receipts' = [receipts EXCEPT ![u][d] = <<t, gained>>]
                       /\ d \in Dominators
                       /\ balances'[t][u].reserved = balances[t][u].reserved + gained
                  ELSE /\ receipts' = receipts
                       /\ balances'[t][u].free >= balances[t][u].free + gained
<1> DEFINE u == inbound[m].to
           amount == inbound[m].amount
           r == inbound[m].r_id
           t == TokenOf(r)
           d == DominatorOf(m)
           gained == to_asset_balance(amount, t)
           arrived == Arrived(t, u, amount)
           kept == Reserved(arrived, t, u, gained)
<1>1. /\ Pending(m) /\ CanArrive(t, u, amount)
      /\ tokens' = IF t = Native THEN tokens ELSE Supply(t, gained)
      /\ Authorized(m) => /\ balances' = Donated(kept, u)
                          /\ receipts' = [receipts EXCEPT ![u][d] = <<t, gained>>]
      /\ ~Authorized(m) => balances' = Donated(arrived, u) /\ receipts' = receipts
  BY Zenon DEF transfer_in, ArrivesAs
<1>2. Authorized(m) <=> /\ d # Nobody /\ d \in active /\ receipts[u][d] = NoReceipt
                        /\ CanReserve(arrived, t, u, gained)
  BY Zenon DEF Authorized, CanAuthorize
<1>3. u \in Users /\ amount \in 1..(Width - 1) /\ r \in Resources
  BY <1>1, PendingType DEF Pending
<1>4. u \in Accounts /\ BridgeAccount \in Accounts /\ u # BridgeAccount
  BY <1>3, AccountIds
<1>5. balances \in Ledger /\ Native \in TokenIds
  BY LedgerType, TokenIdsType DEF BridgeTypeOK
<1>6. /\ t \in TokenIds /\ gained \in Nat
      /\ arrived \in Ledger
      /\ arrived[t][u].free = balances[t][u].free + gained
      /\ arrived[t][u].reserved = balances[t][u].reserved
      /\ \A x \in TokenIds \ {t} : arrived[x] = balances[x]
      /\ \A x \in TokenIds : x # t \/ t = Native => HeldOf(arrived, x) = HeldOf(balances, x)
      /\ t = Native => /\ is_native_resource(r) /\ gained = amount
                       /\ arrived[Native][BridgeAccount].free = balances[Native][BridgeAccount].free - amount
      /\ t # Native => /\ ~is_native_resource(r) /\ t = AssetOf(r) /\ t \in DOMAIN tokens
                       /\ HeldOf(arrived, t) = HeldOf(balances, t) + gained
                       /\ tokens[t].total + gained < Width
                       /\ Standard(gained) <= External(t, amount)
  <2> HIDE DEF u, amount, r
  <2> QED
    BY <1>1, <1>3, ArrivedEffect
<1>7. t # Native => tokens' = [tokens EXCEPT ![t].total = tokens[t].total + gained]
  BY <1>1 DEF Supply
<1>8. d \in active => d \in Dominators /\ d # Nobody
  BY BridgeAssumption DEF BridgeTypeOK
<1> HIDE DEF u, amount, r, t, d, gained, arrived
<1>9. t # Native => arrived[Native][BridgeAccount].free = balances[Native][BridgeAccount].free
  BY <1>5, <1>6
<1>10. balances[t][u].free \in Nat /\ gained <= arrived[t][u].free
  BY <1>4, <1>5, <1>6 DEF Ledger, Account
<1>11. Authorized(m) <=> d \in active /\ receipts[u][d] = NoReceipt
  BY <1>2, <1>8, <1>10 DEF CanReserve
<1>12. CASE Authorized(m)
  <2>1. /\ kept \in Ledger
        /\ \A x \in TokenIds : HeldOf(kept, x) = HeldOf(arrived, x)
        /\ \A x \in TokenIds \ {t} : kept[x] = arrived[x]
        /\ \A a \in Accounts \ {u} : kept[t][a] = arrived[t][a]
        /\ kept[t][u].reserved = arrived[t][u].reserved + gained
    BY <1>4, <1>6, <1>10, ReservedMoves
  <2>2. kept[Native][BridgeAccount] = arrived[Native][BridgeAccount]
    <3>1. CASE t = Native
      BY <1>4, <2>1, <3>1
    <3>2. CASE t # Native
      BY <1>5, <2>1, <3>2
    <3> QED
      BY <3>1, <3>2
  <2> HIDE DEF kept
  <2>3. balances' = Donated(kept, u)
    BY <1>1, <1>12
  <2>4. /\ balances' \in Ledger /\ \A x \in TokenIds : HeldOf(balances', x) = HeldOf(kept, x)
        /\ balances'[Native][BridgeAccount] = kept[Native][BridgeAccount]
        /\ balances'[t][u].reserved = kept[t][u].reserved
    BY <1>3, <1>5, <1>6, <2>1, <2>3, DonatedEffect
  <2>5. \A x \in TokenIds : HeldOf(balances', x) = HeldOf(arrived, x)
    BY <2>1, <2>4
  <2>6. balances'[t][u].reserved = balances[t][u].reserved + gained
    BY <1>6, <2>1, <2>4
  <2>7. balances'[Native][BridgeAccount].free = arrived[Native][BridgeAccount].free
    BY <2>2, <2>4
  <2>8. d \in active /\ receipts[u][d] = NoReceipt /\ d \in Dominators
        /\ receipts' = [receipts EXCEPT ![u][d] = <<t, gained>>]
    BY <1>1, <1>8, <1>11, <1>12
  <2>9. /\ \A x \in TokenIds : x # t \/ t = Native => HeldOf(balances', x) = HeldOf(balances, x)
        /\ t # Native => HeldOf(balances', t) = HeldOf(balances, t) + gained
    BY <1>6, <2>5
  <2> QED
    BY <1>1, <1>6, <1>7, <1>9, <2>4, <2>6, <2>7, <2>8, <2>9 DEF u, amount, r, t, d, gained
<1>13. CASE ~Authorized(m)
  <2>1. balances' = Donated(arrived, u) /\ receipts' = receipts
    BY <1>1, <1>13
  <2>2. /\ balances' \in Ledger /\ \A x \in TokenIds : HeldOf(balances', x) = HeldOf(arrived, x)
        /\ balances'[Native][BridgeAccount] = arrived[Native][BridgeAccount]
        /\ balances'[t][u].free >= arrived[t][u].free
    BY <1>3, <1>5, <1>6, <2>1, DonatedEffect
  <2>3. balances'[t][u].free >= balances[t][u].free + gained
    BY <1>6, <2>2
  <2>4. ~(d \in active /\ receipts[u][d] = NoReceipt)
    BY <1>11, <1>13
  <2>5. balances'[Native][BridgeAccount].free = arrived[Native][BridgeAccount].free
    BY <2>2
  <2>6. /\ \A x \in TokenIds : x # t \/ t = Native => HeldOf(balances', x) = HeldOf(balances, x)
        /\ t # Native => HeldOf(balances', t) = HeldOf(balances, t) + gained
    BY <1>6, <2>2
  <2> QED
    BY <1>1, <1>6, <1>7, <1>9, <2>1, <2>2, <2>3, <2>4, <2>5, <2>6 DEF u, amount, r, t, d, gained
<1> QED
  BY <1>12, <1>13

-----------------------------------------------------------------------------
(* What the records tell. *)

(* What is to be held of a token. *)
Genesis == SumFunctionOnSet(InitFree, Accounts)
TotalOf(ts, t) ==
    IF t = Native THEN Genesis - Len(ts) * BurnTAOwhenIssue
    ELSE IF t \in DOMAIN ts THEN ts[t].total ELSE 0

(* Every token is held as its record says; one that was not issued is not. *)
LedgerIsHeld == \A t \in TokenIds : HeldOf(balances, t) = TotalOf(tokens, t)

TokensTypeOK(ts) == ts \in Seq(XToken) /\ Len(ts) <= MaxTokens

(* The issuance at genesis is an amount.                                   *)
LEMMA GenesisType == Genesis \in Nat /\ Genesis < Width
<1>1. \A a \in Accounts : InitFree[a] \in Nat
  BY TokenAssumption
<1> QED
  BY <1>1, AccountsFinite, SumNat, IssuanceAssumption DEF Genesis

(* Balances that add up to the records are amounts. *)
LEMMA LedgerBounded ==
    ASSUME NEW b \in Ledger, NEW ts, TokensTypeOK(ts),
           \A t \in TokenIds : HeldOf(b, t) = TotalOf(ts, t)
    PROVE  b \in [TokenIds -> [Accounts -> [free : 0..(Width - 1), reserved : 0..(Width - 1)]]]
<1>1. ASSUME NEW t \in TokenIds PROVE TotalOf(ts, t) < Width
  <2>1. Len(ts) * BurnTAOwhenIssue \in Nat
    BY TokenAssumption, ProductNat DEF TokensTypeOK
  <2>2. t \in DOMAIN ts => ts[t].total < Width
    <3>1. t \in DOMAIN ts => ts[t] \in XToken
      BY DEF TokensTypeOK
    <3> QED
      BY <3>1, DecimalsType DEF XToken
  <2> QED
    BY <2>1, <2>2, GenesisType, DecimalsType DEF TotalOf
<1>2. ASSUME NEW t \in TokenIds, NEW a \in Accounts
      PROVE  b[t][a] \in [free : 0..(Width - 1), reserved : 0..(Width - 1)]
  <2>1. HeldOf(b, t) < Width
    BY <1>1
  <2>2. b[t][a].free + b[t][a].reserved <= HeldOf(b, t) /\ HeldOf(b, t) \in Nat
    BY HeldNat
  <2>3. b[t][a] \in Account /\ b[t][a].free \in Nat /\ b[t][a].reserved \in Nat
    BY DEF Ledger, Account
  <2>4. b[t][a].free \in 0..(Width - 1) /\ b[t][a].reserved \in 0..(Width - 1)
    BY <2>1, <2>2, <2>3, DecimalsType
  <2> QED
    BY <2>3, <2>4 DEF Account
<1> QED
  BY <1>2 DEF Ledger

(* A change of one record's total. *)
WithTotal(t, n) == [tokens EXCEPT ![t].total = n]

(* Then only its total changes.                                            *)
LEMMA TotalChanges ==
    ASSUME TokenTypeOK, NEW t \in DOMAIN tokens, NEW delta \in Int,
           tokens[t].total + delta \in 0..(Width - 1)
    PROVE  LET ts == WithTotal(t, tokens[t].total + delta)
           IN  /\ TokensTypeOK(ts) /\ DOMAIN ts = DOMAIN tokens /\ Len(ts) = Len(tokens)
               /\ \A x \in DOMAIN tokens : ts[x].decimals = tokens[x].decimals /\ ts[x].stable = tokens[x].stable
               /\ \A x \in DOMAIN tokens \ {t} : ts[x] = tokens[x]
               /\ ts[t].total = tokens[t].total + delta
               /\ TotalOf(ts, t) = TotalOf(tokens, t) + delta
               /\ \A x \in TokenIds \ {t} : TotalOf(ts, x) = TotalOf(tokens, x)
<1> DEFINE ts == WithTotal(t, tokens[t].total + delta)
           n == tokens[t].total + delta
           e == [tokens[t] EXCEPT !.total = n]
<1>1. tokens \in Seq(XToken) /\ Len(tokens) <= MaxTokens /\ tokens[t] \in XToken
  BY DEF TokenTypeOK
<1>2. ts = [tokens EXCEPT ![t] = e]
  BY <1>1 DEF WithTotal
<1>3. n \in 0..(Width - 1)
  OBVIOUS
<1>4. n = tokens[t].total + delta
  OBVIOUS
<1> HIDE DEF n, ts
<1>5. e \in XToken /\ e.total = n /\ e.decimals = tokens[t].decimals /\ e.stable = tokens[t].stable
  BY <1>1, <1>3 DEF XToken
<1> HIDE DEF e
<1>6. /\ ts \in Seq(XToken) /\ Len(ts) = Len(tokens) /\ DOMAIN ts = DOMAIN tokens /\ ts[t] = e
      /\ \A x \in DOMAIN tokens \ {t} : ts[x] = tokens[x]
  BY <1>1, <1>2, <1>5
<1>7. t # Native
  BY TokenIdsType
<1>8. TotalOf(ts, t) = TotalOf(tokens, t) + delta
  BY <1>4, <1>5, <1>6, <1>7 DEF TotalOf
<1>9. \A x \in TokenIds \ {t} : TotalOf(ts, x) = TotalOf(tokens, x)
  BY <1>6 DEF TotalOf
<1>10. \A x \in DOMAIN tokens : ts[x].decimals = tokens[x].decimals /\ ts[x].stable = tokens[x].stable
  BY <1>5, <1>6
<1> QED
  BY <1>1, <1>4, <1>5, <1>6, <1>8, <1>9, <1>10 DEF TokensTypeOK, ts

-----------------------------------------------------------------------------
(* Sums of what was announced and deposited. *)

(* There are finitely many messages and resource ids.                      *)
LEMMA ResourcesFinite ==
    /\ IsFiniteSet(Messages)
    /\ \A R \in SUBSET Resources : IsFiniteSet(R)
BY FiniteAssumption, FS_Subset DEF Resources

(* One amount grows by n, and so does the sum.                             *)
LEMMA SumMore ==
    ASSUME NEW R, IsFiniteSet(R), NEW r \in R, NEW f, NEW g, NEW n \in Nat,
           \A x \in R : f[x] \in Nat, g[r] \in Int,
           \A x \in R : x # r => f[x] \in Int /\ g[x] = f[x]
    PROVE  g[r] - f[r] = n => SumFunctionOnSet(g, R) = SumFunctionOnSet(f, R) + n
<1>1. f[r] \in Int
  OBVIOUS
<1>2. SumFunctionOnSet(g, R) = SumFunctionOnSet(f, R) + g[r] - f[r]
  BY <1>1, SumChange
<1>3. SumFunctionOnSet(f, R) \in Nat
  BY SumNat
<1> QED
  BY <1>1, <1>2, <1>3

More(a, r, n) == [a EXCEPT ![r] = a[r] + n]

(* n more are announced of r, and so of any set of resource ids that       *)
(* contains it.                                                            *)
LEMMA AnnouncedMore ==
    ASSUME NEW a \in [Resources -> Nat], NEW r \in Resources, NEW n \in Nat
    PROVE  LET b == More(a, r, n)
           IN  /\ b \in [Resources -> Nat]
               /\ b[r] = a[r] + n /\ \A x \in Resources : x # r => b[x] = a[x]
               /\ \A R \in SUBSET Resources :
                     /\ SumFunctionOnSet(a, R) \in Nat
                     /\ r \in R => SumFunctionOnSet(b, R) = SumFunctionOnSet(a, R) + n
                     /\ r \notin R => SumFunctionOnSet(b, R) = SumFunctionOnSet(a, R)
<1> DEFINE b == More(a, r, n)
<1>1. /\ b \in [Resources -> Nat] /\ b[r] = a[r] + n /\ a[r] \in Nat
      /\ \A x \in Resources : x # r => b[x] = a[x]
  BY DEF More
<1> HIDE DEF b
<1>2. a[r] \in Nat /\ b[r] \in Int /\ b[r] - a[r] = n
  BY <1>1
<1>3. ASSUME NEW R \in SUBSET Resources
      PROVE  /\ SumFunctionOnSet(a, R) \in Nat
             /\ r \in R => SumFunctionOnSet(b, R) = SumFunctionOnSet(a, R) + n
             /\ r \notin R => SumFunctionOnSet(b, R) = SumFunctionOnSet(a, R)
  <2>1. IsFiniteSet(R) /\ \A x \in R : a[x] \in Nat
    BY ResourcesFinite
  <2>2. SumFunctionOnSet(a, R) \in Nat
    BY <2>1, SumNat
  <2>3. \A x \in R : x # r => a[x] \in Int /\ b[x] = a[x]
    BY <1>1, <2>1
  <2>4. ASSUME r \in R PROVE SumFunctionOnSet(b, R) = SumFunctionOnSet(a, R) + n
    BY <1>2, <2>1, <2>3, <2>4, SumMore
  <2>5. ASSUME r \notin R PROVE SumFunctionOnSet(b, R) = SumFunctionOnSet(a, R)
    <3>1. \A x \in R : a[x] \in Int /\ b[x] = a[x]
      BY <2>3, <2>1, <2>5
    <3> QED
      BY <2>1, <3>1, SumAgree
  <2> QED
    BY <2>2, <2>4, <2>5
<1> QED
  BY <1>1, <1>3 DEF b

Part(i, m, R) == IF i[m].r_id \in R /\ i[m].outcome \in {"executed"} THEN i[m].amount ELSE 0
DepositedIn(i, R) == SumFunctionOnSet([m \in Messages |-> Part(i, m, R)], Messages)
Inbound == [Messages -> DepositType \cup {NoDeposit}]

(* What was deposited and executed, by those parts.                        *)
LEMMA DepositedNow ==
    ASSUME NEW R
    PROVE  Deposited(R, {"executed"}) = DepositedIn(inbound, R)
BY Zenon DEF Deposited, DepositedIn, Part

(* The part of a deposit is an amount.                                     *)
LEMMA PartNat ==
    ASSUME NEW i \in Inbound, NEW R
    PROVE  \A m \in Messages : Part(i, m, R) \in Nat
<1>1. ASSUME NEW m \in Messages PROVE i[m].amount \in Nat
  <2>1. i[m] = NoDeposit => i[m].amount = 0
    BY DEF NoDeposit
  <2>2. i[m] \in DepositType => i[m].amount \in Amounts
    BY DEF DepositType
  <2>3. \A x \in Amounts : x \in Nat
    BY BridgeAssumption, DecimalsType
  <2>4. i[m] \in DepositType \cup {NoDeposit}
    BY DEF Inbound
  <2> QED
    BY <2>1, <2>2, <2>3, <2>4
<1> QED
  BY <1>1 DEF Part

(* One deposit changes its part.                                           *)
LEMMA DepositedChange ==
    ASSUME NEW i \in Inbound, NEW j \in Inbound, NEW R, NEW m \in Messages,
           \A k \in Messages : k # m => j[k] = i[k]
    PROVE  /\ DepositedIn(i, R) \in Nat
           /\ DepositedIn(j, R) = DepositedIn(i, R) + Part(j, m, R) - Part(i, m, R)
<1> DEFINE f == [k \in Messages |-> Part(i, k, R)]
           g == [k \in Messages |-> Part(j, k, R)]
<1>1. /\ f[m] \in Int /\ g[m] \in Int
      /\ \A k \in Messages : f[k] \in Nat
      /\ \A k \in Messages : k # m => f[k] \in Int /\ g[k] = f[k]
  BY PartNat DEF Part
<1>2. f[m] = Part(i, m, R) /\ g[m] = Part(j, m, R)
  OBVIOUS
<1>3. DepositedIn(i, R) = SumFunctionOnSet(f, Messages) /\ DepositedIn(j, R) = SumFunctionOnSet(g, Messages)
  BY Zenon DEF DepositedIn
<1> HIDE DEF f, g
<1>4. SumFunctionOnSet(g, Messages) = SumFunctionOnSet(f, Messages) + g[m] - f[m]
  <2>1. IsFiniteSet(Messages)
    BY ResourcesFinite
  <2> QED
    BY <1>1, <2>1, SumChange
<1>5. SumFunctionOnSet(f, Messages) \in Nat
  BY <1>1, ResourcesFinite, SumNat
<1> QED
  BY <1>2, <1>3, <1>4, <1>5

(* More resource ids have more deposits.                                   *)
LEMMA DepositedMonotone ==
    ASSUME NEW i \in Inbound, NEW R, NEW Q, R \subseteq Q
    PROVE  DepositedIn(i, R) <= DepositedIn(i, Q) /\ DepositedIn(i, R) \in Nat
<1> DEFINE f == [k \in Messages |-> Part(i, k, R)]
           g == [k \in Messages |-> Part(i, k, Q)]
<1>1. \A k \in Messages : Part(i, k, R) \in Nat /\ Part(i, k, Q) \in Nat
  BY PartNat
<1>2. \A k \in Messages : Part(i, k, R) <= Part(i, k, Q)
  BY <1>1 DEF Part
<1>3. \A k \in Messages : f[k] \in Nat /\ f[k] \in Int /\ g[k] \in Int /\ f[k] <= g[k]
  BY <1>1, <1>2
<1>4. DepositedIn(i, R) = SumFunctionOnSet(f, Messages) /\ DepositedIn(i, Q) = SumFunctionOnSet(g, Messages)
  BY Zenon DEF DepositedIn
<1> HIDE DEF f, g
<1>5. SumFunctionOnSet(f, Messages) <= SumFunctionOnSet(g, Messages)
  BY <1>3, ResourcesFinite, SumMonotone
<1>6. SumFunctionOnSet(f, Messages) \in Nat
  BY <1>3, ResourcesFinite, SumNat
<1> QED
  BY <1>4, <1>5, <1>6

(* A deposit is executed or dropped. *)
WithOutcome(i, m, o) == [i EXCEPT ![m].outcome = o]

(* Then only its outcome changes.                                          *)
LEMMA OutcomeSet ==
    ASSUME NEW i \in Inbound, NEW m \in Messages, i[m] # NoDeposit, NEW o \in Outcomes
    PROVE  LET j == WithOutcome(i, m, o)
           IN  /\ j \in Inbound /\ \A k \in Messages : k # m => j[k] = i[k]
               /\ j[m].outcome = o /\ j[m].r_id = i[m].r_id /\ j[m].amount = i[m].amount
               /\ j[m].to = i[m].to
<1> DEFINE e == [i[m] EXCEPT !.outcome = o]
           j == WithOutcome(i, m, o)
<1>1. i[m] \in DepositType
  BY DEF Inbound
<1>2. j = [i EXCEPT ![m] = e]
  BY DEF Inbound, WithOutcome
<1>3. /\ e \in DepositType /\ e.outcome = o /\ e.r_id = i[m].r_id /\ e.amount = i[m].amount
      /\ e.to = i[m].to
  BY <1>1 DEF DepositType
<1> HIDE DEF e
<1>4. j \in Inbound /\ j[m] = e /\ \A k \in Messages : k # m => j[k] = i[k]
  BY <1>2, <1>3 DEF Inbound
<1> QED
  BY <1>3, <1>4

(* What a step is, for the ledger. *)
LEMMA StepCases ==
    ASSUME BridgeNext
    PROVE  \/ UNCHANGED <<tokenVars, inbound, announced>>
           \/ \E t \in DOMAIN tokens : mark_stable(t) /\ UNCHANGED <<inbound, announced>>
           \/ \E a \in Associations : associate_token(a[1], a[2], a[3]) /\ UNCHANGED <<inbound, announced>>
           \/ \E u \in Users, d \in Decimals : Issue(u, d)
           \/ \E u \in Users, amount \in Amounts, r \in Resources, dest \in Chains \ {ThisChain} :
                 do_lock(u, amount, r, dest)
           \/ \E u \in Users, amount \in Amounts, r \in Resources, dest \in Chains \ {ThisChain} :
                 do_burn_assets(u, amount, r, dest)
           \/ \E u \in Users : \E amount \in Amounts, t \in TokenIds, target \in Accounts \ {u} :
                 Transfer(u, t, amount, target)
           \/ \E u \in Users, amount \in Amounts, m \in Messages, r \in Resources :
                 Deposit(m, u, amount, r)
           \/ \E m \in Messages : Drop(m)
           \/ \E m \in Messages : transfer_in(m)
           \/ \E u \in Users, t \in TokenIds : GiveBack(u, t)
<1>1. BridgeAdmin => \/ UNCHANGED <<tokenVars, inbound, announced>>
                     \/ \E t \in DOMAIN tokens : mark_stable(t) /\ UNCHANGED <<inbound, announced>>
                     \/ \E a \in Associations : associate_token(a[1], a[2], a[3]) /\ UNCHANGED <<inbound, announced>>
  BY DEF BridgeAdmin, native_limit, update_bridge_fee, associate_dominator, TokenAdmin
<1>2. ASSUME NEW t \in TokenIds, NEW p \in Trades, set_price(t, p[1], p[2])
      PROVE  UNCHANGED <<tokenVars, inbound, announced>>
  BY <1>2 DEF set_price
<1>3. ASSUME NEW u \in Users, NEW d \in Dominators, AnswerReceipt(u, d)
      PROVE  UNCHANGED <<tokenVars, inbound, announced>>
  BY <1>3 DEF AnswerReceipt
<1>4. ASSUME NEW d \in Dominators, SetActive(d)
      PROVE  UNCHANGED <<tokenVars, inbound, announced>>
  BY <1>4 DEF SetActive
<1>5. ASSUME NEW u \in Users, NEW amount \in Amounts, NEW r \in Resources, NEW dest \in Chains,
             transfer_out(u, amount, r, dest)
      PROVE  dest \in Chains \ {ThisChain} /\ (do_lock(u, amount, r, dest) \/ do_burn_assets(u, amount, r, dest))
  BY <1>5 DEF transfer_out
<1>6. \/ BridgeAdmin
      \/ \E t \in TokenIds, p \in Trades : set_price(t, p[1], p[2])
      \/ \E u \in Users, d \in Decimals : Issue(u, d)
      \/ \E u \in Users, amount \in Amounts, r \in Resources, dest \in Chains : transfer_out(u, amount, r, dest)
      \/ \E u \in Users : \E amount \in Amounts, t \in TokenIds, target \in Accounts \ {u} :
            Transfer(u, t, amount, target)
      \/ \E u \in Users, amount \in Amounts, m \in Messages, r \in Resources : Deposit(m, u, amount, r)
      \/ \E m \in Messages : Drop(m)
      \/ \E m \in Messages : transfer_in(m)
      \/ \E u \in Users, d \in Dominators : AnswerReceipt(u, d)
      \/ \E u \in Users, t \in TokenIds : GiveBack(u, t)
      \/ \E d \in Dominators : SetActive(d)
  BY Zenon DEF BridgeNext
<1>7. CASE BridgeAdmin
  BY <1>1, <1>7, Zenon
<1>8. CASE \E t \in TokenIds, p \in Trades : set_price(t, p[1], p[2])
  BY <1>2, <1>8, Zenon
<1>9. CASE \E u \in Users, amount \in Amounts, r \in Resources, dest \in Chains : transfer_out(u, amount, r, dest)
  <2>1. PICK u \in Users, amount \in Amounts, r \in Resources, dest \in Chains : transfer_out(u, amount, r, dest)
    BY <1>9
  <2>2. dest \in Chains \ {ThisChain} /\ (do_lock(u, amount, r, dest) \/ do_burn_assets(u, amount, r, dest))
    BY <2>1, <1>5
  <2> QED
    BY <2>2, Zenon
<1>10. CASE \E u \in Users, d \in Dominators : AnswerReceipt(u, d)
  BY <1>3, <1>10, Zenon
<1>11. CASE \E d \in Dominators : SetActive(d)
  BY <1>4, <1>11, Zenon
<1> QED
  BY <1>6, <1>7, <1>8, <1>9, <1>10, <1>11, Zenon

(* A token is issued: native tokens are burned for it, and it has no       *)
(* supply.                                                                 *)
LEMMA IssueEffect ==
    ASSUME BridgeTypeOK, NEW u \in Users, NEW d \in Decimals, Issue(u, d)
    PROVE  /\ balances' \in Ledger
           /\ HeldOf(balances', Native) = HeldOf(balances, Native) + (-BurnTAOwhenIssue)
           /\ \A x \in TokenIds \ {Native} : HeldOf(balances', x) = HeldOf(balances, x)
           /\ \A x \in TokenIds \ {Native} : balances'[x] = balances[x]
           /\ balances'[Native][BridgeAccount] = balances[Native][BridgeAccount]
           /\ TokensTypeOK(tokens')
           /\ Len(tokens') = Len(tokens) + 1 /\ DOMAIN tokens' = DOMAIN tokens \cup {Len(tokens) + 1}
           /\ \A x \in DOMAIN tokens : tokens'[x] = tokens[x]
           /\ tokens'[Len(tokens) + 1].total = 0
           /\ Len(tokens) + 1 \notin DOMAIN tokens /\ Len(tokens) + 1 \in TokenIds
           /\ UNCHANGED <<byContract, inbound, announced>>
<1> DEFINE burn == BurnTAOwhenIssue
           e == [decimals |-> d, total |-> 0, stable |-> FALSE]
<1>1. /\ Len(tokens) < MaxTokens /\ d <= MaxDecimals
      /\ burn <= balances[Native][u].free
      /\ balances' = [balances EXCEPT ![Native][u].free = balances[Native][u].free - burn]
      /\ tokens' = Append(tokens, e)
      /\ UNCHANGED <<byContract, inbound, announced>>
  BY DEF Issue, issue
<1>2. balances \in Ledger /\ Native \in TokenIds /\ tokens \in Seq(XToken) /\ Len(tokens) \in Nat
  BY LedgerType, TokenIdsType DEF BridgeTypeOK, TokenTypeOK
<1>3. u \in Accounts /\ BridgeAccount \in Accounts /\ u # BridgeAccount
  BY AccountIds
<1>4. burn \in Nat /\ balances[Native][u].free \in Nat
  BY <1>2, <1>3, TokenAssumption DEF Ledger, Account
<1>5. balances' = WithFree(balances, Native, u, balances[Native][u].free + (-burn))
  <2>1. balances[Native][u].free - burn = balances[Native][u].free + (-burn)
    BY <1>4
  <2>2. balances' = WithFree(balances, Native, u, balances[Native][u].free - burn)
    BY <1>1, Zenon DEF WithFree
  <2> QED
    BY <2>1, <2>2, Zenon
<1>6. -burn \in Int /\ balances[Native][u].free + (-burn) \in Nat
  BY <1>1, <1>4
<1>7. /\ balances' \in Ledger
      /\ HeldOf(balances', Native) = HeldOf(balances, Native) + (-burn)
      /\ \A x \in TokenIds \ {Native} : HeldOf(balances', x) = HeldOf(balances, x)
      /\ \A x \in TokenIds \ {Native} : balances'[x] = balances[x]
      /\ \A a \in Accounts \ {u} : balances'[Native][a] = balances[Native][a]
  BY <1>2, <1>3, <1>5, <1>6, FreeChanges
<1>8. e \in XToken /\ e.total = 0
  BY <1>1, DecimalsAssumption DEF XToken
<1> HIDE DEF e
<1>9. /\ tokens' \in Seq(XToken) /\ Len(tokens') = Len(tokens) + 1
      /\ tokens'[Len(tokens) + 1] = e /\ \A x \in DOMAIN tokens : tokens'[x] = tokens[x]
      /\ DOMAIN tokens' = DOMAIN tokens \cup {Len(tokens) + 1}
      /\ Len(tokens) + 1 \notin DOMAIN tokens
  BY <1>1, <1>2, <1>8
<1>10. Len(tokens') <= MaxTokens /\ Len(tokens) + 1 \in TokenIds
  BY <1>1, <1>2, <1>9, TokenAssumption DEF TokenIds, Native
<1> QED
  BY <1>1, <1>3, <1>7, <1>8, <1>9, <1>10 DEF TokensTypeOK

(* A transfer moves what is held, and takes nothing from the bridge        *)
(* account.                                                                *)
LEMMA TransferEffect ==
    ASSUME BridgeTypeOK, NEW u \in Users, NEW amount \in Amounts, NEW t \in TokenIds,
           NEW target \in Accounts \ {u}, Transfer(u, t, amount, target)
    PROVE  /\ balances' \in Ledger /\ \A x \in TokenIds : HeldOf(balances', x) = HeldOf(balances, x)
           /\ balances'[Native][BridgeAccount].free >= balances[Native][BridgeAccount].free
           /\ UNCHANGED <<tokens, byContract, inbound, announced>>
<1>1. /\ CanTransfer(balances, t, u, target, amount)
      /\ balances' = Transferred(balances, t, u, target, amount)
      /\ UNCHANGED <<tokens, byContract, inbound, announced>>
  BY DEF Transfer, transfer
<1>2. balances \in Ledger /\ Native \in TokenIds /\ u \in Accounts /\ target \in Accounts /\ u # target
      /\ BridgeAccount \in Accounts /\ u # BridgeAccount
  BY LedgerType, TokenIdsType, AccountIds DEF BridgeTypeOK
<1>3. amount \in Nat
  BY BridgeAssumption, DecimalsType
<1>4. /\ balances' \in Ledger /\ \A x \in TokenIds : HeldOf(balances', x) = HeldOf(balances, x)
      /\ \A x \in TokenIds \ {t} : balances'[x] = balances[x]
      /\ \A a \in Accounts \ {u, target} : balances'[t][a] = balances[t][a]
      /\ balances'[t][target].free = balances[t][target].free + amount
  BY <1>1, <1>2, <1>3, TransferredMoves
<1>5. balances[Native][BridgeAccount].free \in Nat
  BY <1>2 DEF Ledger, Account
<1>6. CASE t = Native /\ target = BridgeAccount
  BY <1>1, <1>3, <1>4, <1>5, <1>6
<1>7. CASE ~(t = Native /\ target = BridgeAccount)
  <2>1. balances'[Native][BridgeAccount] = balances[Native][BridgeAccount]
    BY <1>2, <1>4, <1>7
  <2> QED
    BY <1>1, <1>4, <1>5, <2>1
<1> QED
  BY <1>6, <1>7

(* What is given back to an account stays with it.                         *)
LEMMA GiveBackEffect ==
    ASSUME BridgeTypeOK, NEW u \in Users, NEW t \in TokenIds, GiveBack(u, t)
    PROVE  /\ balances' \in Ledger /\ \A x \in TokenIds : HeldOf(balances', x) = HeldOf(balances, x)
           /\ balances'[Native][BridgeAccount] = balances[Native][BridgeAccount]
           /\ UNCHANGED <<tokens, byContract, inbound, announced>>
<1> DEFINE back == balances[t][u].reserved
<1>1. balances' = Unreserved(balances, t, u, back) /\ UNCHANGED <<tokens, byContract, inbound, announced>>
  BY DEF GiveBack
<1>2. balances \in Ledger /\ Native \in TokenIds /\ u \in Accounts
      /\ BridgeAccount \in Accounts /\ u # BridgeAccount
  BY LedgerType, TokenIdsType, AccountIds DEF BridgeTypeOK
<1>3. back \in Nat /\ back <= balances[t][u].reserved
  BY <1>2 DEF Ledger, Account
<1> HIDE DEF back
<1>4. /\ balances' \in Ledger /\ \A x \in TokenIds : HeldOf(balances', x) = HeldOf(balances, x)
      /\ \A x \in TokenIds \ {t} : balances'[x] = balances[x]
      /\ \A a \in Accounts \ {u} : balances'[t][a] = balances[t][a]
  BY <1>1, <1>2, <1>3, UnreservedMoves
<1>5. balances'[Native][BridgeAccount] = balances[Native][BridgeAccount]
  BY <1>2, <1>4
<1> QED
  BY <1>1, <1>4, <1>5

(* A token is marked stable. *)
LEMMA StableEffect ==
    ASSUME TokenTypeOK, NEW t \in DOMAIN tokens, mark_stable(t)
    PROVE  /\ TokensTypeOK(tokens') /\ DOMAIN tokens' = DOMAIN tokens /\ Len(tokens') = Len(tokens)
           /\ \A x \in DOMAIN tokens :
                 tokens'[x].decimals = tokens[x].decimals /\ tokens'[x].total = tokens[x].total
           /\ \A x \in TokenIds : TotalOf(tokens', x) = TotalOf(tokens, x)
           /\ UNCHANGED <<balances, byContract>>
<1> DEFINE e == [tokens[t] EXCEPT !.stable = TRUE]
<1>1. tokens' = [tokens EXCEPT ![t] = e] /\ UNCHANGED <<balances, byContract>>
  BY DEF mark_stable
<1>2. tokens \in Seq(XToken) /\ Len(tokens) <= MaxTokens /\ tokens[t] \in XToken
  BY DEF TokenTypeOK
<1>3. e \in XToken /\ e.total = tokens[t].total /\ e.decimals = tokens[t].decimals
  BY <1>2 DEF XToken
<1> HIDE DEF e
<1>4. /\ tokens' \in Seq(XToken) /\ Len(tokens') = Len(tokens) /\ DOMAIN tokens' = DOMAIN tokens
      /\ tokens'[t] = e /\ \A x \in DOMAIN tokens : x # t => tokens'[x] = tokens[x]
  BY <1>1, <1>2, <1>3
<1>5. \A x \in DOMAIN tokens :
         tokens'[x].decimals = tokens[x].decimals /\ tokens'[x].total = tokens[x].total
  BY <1>3, <1>4
<1>6. \A x \in TokenIds : TotalOf(tokens', x) = TotalOf(tokens, x)
  BY <1>4, <1>5 DEF TotalOf
<1> QED
  BY <1>1, <1>2, <1>4, <1>5, <1>6 DEF TokensTypeOK

(* Every step keeps what is held of each token at what its record says. *)
LEMMA LedgerStep ==
    ASSUME BridgeTypeOK, LedgerIsHeld, BridgeNext
    PROVE  /\ balances' \in Ledger /\ TokensTypeOK(tokens')
           /\ \A t \in TokenIds : HeldOf(balances', t) = TotalOf(tokens', t)
<1>1. balances \in Ledger /\ TokensTypeOK(tokens) /\ Native \in TokenIds
      /\ \A t \in TokenIds : HeldOf(balances, t) = TotalOf(tokens, t)
  BY LedgerType, TokenIdsType DEF BridgeTypeOK, TokenTypeOK, TokensTypeOK, LedgerIsHeld
<1>2. \A t \in TokenIds : HeldOf(balances, t) \in Nat
  BY <1>1, HeldNat
<1>3. CASE UNCHANGED <<balances, tokens>>
  BY <1>1, <1>3
<1>4. ASSUME NEW t \in DOMAIN tokens, mark_stable(t)
      PROVE  /\ balances' \in Ledger /\ TokensTypeOK(tokens')
             /\ \A x \in TokenIds : HeldOf(balances', x) = TotalOf(tokens', x)
  BY <1>1, <1>4, StableEffect DEF BridgeTypeOK
<1>5. ASSUME NEW u \in Users, NEW d \in Decimals, Issue(u, d)
      PROVE  /\ balances' \in Ledger /\ TokensTypeOK(tokens')
             /\ \A x \in TokenIds : HeldOf(balances', x) = TotalOf(tokens', x)
  <2>1. /\ balances' \in Ledger /\ TokensTypeOK(tokens')
        /\ HeldOf(balances', Native) = HeldOf(balances, Native) + (-BurnTAOwhenIssue)
        /\ \A x \in TokenIds \ {Native} : HeldOf(balances', x) = HeldOf(balances, x)
        /\ Len(tokens') = Len(tokens) + 1 /\ DOMAIN tokens' = DOMAIN tokens \cup {Len(tokens) + 1}
        /\ \A x \in DOMAIN tokens : tokens'[x] = tokens[x]
        /\ tokens'[Len(tokens) + 1].total = 0
        /\ Len(tokens) + 1 \notin DOMAIN tokens
    BY <1>5, IssueEffect
  <2>2. TotalOf(tokens', Native) = TotalOf(tokens, Native) + (-BurnTAOwhenIssue)
    <3>1. Len(tokens) \in Nat /\ BurnTAOwhenIssue \in Nat
      BY <1>1, TokenAssumption DEF TokensTypeOK
    <3>2. (Len(tokens) + 1) * BurnTAOwhenIssue = Len(tokens) * BurnTAOwhenIssue + BurnTAOwhenIssue
          /\ Len(tokens) * BurnTAOwhenIssue \in Nat
      BY <3>1
    <3> DEFINE p == Len(tokens) * BurnTAOwhenIssue
    <3> HIDE DEF p
    <3>3. TotalOf(tokens', Native) = Genesis - (p + BurnTAOwhenIssue) /\ TotalOf(tokens, Native) = Genesis - p
      BY <2>1, <3>2 DEF TotalOf, p
    <3> QED
      BY <3>1, <3>2, <3>3, GenesisType DEF p
  <2>3. \A x \in TokenIds \ {Native} : TotalOf(tokens', x) = TotalOf(tokens, x)
    BY <2>1 DEF TotalOf
  <2> QED
    BY <1>1, <2>1, <2>2, <2>3
<1>6. ASSUME NEW u \in Users, NEW amount \in Amounts, NEW r \in Resources, NEW dest \in Chains,
             do_lock(u, amount, r, dest)
      PROVE  /\ balances' \in Ledger /\ TokensTypeOK(tokens')
             /\ \A x \in TokenIds : HeldOf(balances', x) = TotalOf(tokens', x)
  <2>1. balances' \in Ledger /\ tokens' = tokens /\ \A x \in TokenIds : HeldOf(balances', x) = HeldOf(balances, x)
    BY <1>6, LockEffect
  <2> QED
    BY <1>1, <2>1
<1>7. ASSUME NEW u \in Users, NEW amount \in Amounts, NEW r \in Resources, NEW dest \in Chains,
             do_burn_assets(u, amount, r, dest)
      PROVE  /\ balances' \in Ledger /\ TokensTypeOK(tokens')
             /\ \A x \in TokenIds : HeldOf(balances', x) = TotalOf(tokens', x)
  <2> DEFINE t == AssetOf(r)
  <2>1. /\ t \in DOMAIN tokens /\ balances' \in Ledger
        /\ \A x \in TokenIds \ {t} : HeldOf(balances', x) = HeldOf(balances, x)
    BY <1>7, BurnEffect
  <2>2. PICK back \in Nat :
           /\ back <= tokens[t].total
           /\ tokens' = [tokens EXCEPT ![t].total = tokens[t].total + (-back)]
           /\ HeldOf(balances', t) = HeldOf(balances, t) + (-back)
    BY <1>7, BurnEffect
  <2> HIDE DEF t
  <2>6. back <= tokens[t].total /\ tokens' = WithTotal(t, tokens[t].total + (-back))
    BY <2>2, Zenon DEF WithTotal
  <2>3. tokens[t].total \in 0..(Width - 1)
    BY <2>1, TokenIdsType DEF BridgeTypeOK, XToken
  <2>4. tokens[t].total + (-back) \in 0..(Width - 1) /\ -back \in Int
    <3>1. back <= tokens[t].total
      BY <2>6
    <3> QED
      BY <2>3, <3>1, DecimalsType
  <2>5. /\ TokensTypeOK(tokens') /\ TotalOf(tokens', t) = TotalOf(tokens, t) + (-back)
        /\ \A x \in TokenIds \ {t} : TotalOf(tokens', x) = TotalOf(tokens, x)
    BY <2>1, <2>4, <2>6, TotalChanges DEF BridgeTypeOK
  <2> QED
    BY <1>1, <2>1, <2>2, <2>5
<1>8. ASSUME NEW m \in Messages, transfer_in(m)
      PROVE  /\ balances' \in Ledger /\ TokensTypeOK(tokens')
             /\ \A x \in TokenIds : HeldOf(balances', x) = TotalOf(tokens', x)
  <2> DEFINE t == TokenOf(inbound[m].r_id)
             gained == to_asset_balance(inbound[m].amount, t)
  <2>1. /\ t \in TokenIds /\ gained \in Nat
        /\ balances' \in Ledger
        /\ \A x \in TokenIds : x # t \/ t = Native => HeldOf(balances', x) = HeldOf(balances, x)
        /\ t = Native => tokens' = tokens
        /\ t # Native => /\ t \in DOMAIN tokens
                         /\ HeldOf(balances', t) = HeldOf(balances, t) + gained
                         /\ tokens' = [tokens EXCEPT ![t].total = tokens[t].total + gained]
                         /\ tokens[t].total + gained < Width
    BY <1>8, ArriveEffect
  <2> HIDE DEF t, gained
  <2>2. CASE t = Native
    BY <1>1, <2>1, <2>2
  <2>3. CASE t # Native
    <3>1. tokens[t].total \in 0..(Width - 1)
      BY <2>1, <2>3, TokenIdsType DEF BridgeTypeOK, XToken
    <3>2. tokens[t].total + gained \in 0..(Width - 1) /\ gained \in Int
      BY <2>1, <2>3, <3>1, DecimalsType
    <3>5. t \in DOMAIN tokens
      BY <2>1, <2>3
    <3>4. tokens' = WithTotal(t, tokens[t].total + gained)
      BY <2>1, <2>3, Zenon DEF WithTotal
    <3>3. /\ TokensTypeOK(tokens') /\ TotalOf(tokens', t) = TotalOf(tokens, t) + gained
          /\ \A x \in TokenIds \ {t} : TotalOf(tokens', x) = TotalOf(tokens, x)
      BY <3>2, <3>4, <3>5, TotalChanges DEF BridgeTypeOK
    <3> QED
      BY <1>1, <2>1, <2>3, <3>3
  <2> QED
    BY <2>2, <2>3
<1>9. ASSUME NEW u \in Users, NEW amount \in Amounts, NEW t \in TokenIds, NEW target \in Accounts \ {u},
             Transfer(u, t, amount, target)
      PROVE  /\ balances' \in Ledger /\ TokensTypeOK(tokens')
             /\ \A x \in TokenIds : HeldOf(balances', x) = TotalOf(tokens', x)
  <2>1. balances' \in Ledger /\ tokens' = tokens /\ \A x \in TokenIds : HeldOf(balances', x) = HeldOf(balances, x)
    BY <1>9, TransferEffect
  <2> QED
    BY <1>1, <2>1
<1>10. ASSUME NEW u \in Users, NEW t \in TokenIds, GiveBack(u, t)
      PROVE  /\ balances' \in Ledger /\ TokensTypeOK(tokens')
             /\ \A x \in TokenIds : HeldOf(balances', x) = TotalOf(tokens', x)
  <2>1. balances' \in Ledger /\ tokens' = tokens /\ \A x \in TokenIds : HeldOf(balances', x) = HeldOf(balances, x)
    BY <1>10, GiveBackEffect
  <2> QED
    BY <1>1, <2>1
<1>11. /\ \A a \in Associations : associate_token(a[1], a[2], a[3]) => UNCHANGED <<balances, tokens>>
       /\ \A m \in Messages : Drop(m) => UNCHANGED <<balances, tokens>>
       /\ \A m \in Messages, u \in Users, amount \in Amounts, r \in Resources :
             Deposit(m, u, amount, r) => UNCHANGED <<balances, tokens>>
       /\ UNCHANGED tokenVars => UNCHANGED <<balances, tokens>>
  BY DEF associate_token, Drop, Deposit, tokenVars
<1> QED
  BY <1>3, <1>4, <1>5, <1>6, <1>7, <1>8, <1>9, <1>10, <1>11, StepCases

-----------------------------------------------------------------------------
(* Types. *)

(* The types but for the ledger's. *)
RestTypeOK ==
    /\ byContract \in [Chains \X Contracts -> 1..MaxTokens \cup {NoToken}]
    /\ native_check \in BOOLEAN
    /\ bridging_fee \in [Chains -> Nat]
    /\ associated_dominator \in [AssociatedIds -> Dominators \cup {Nobody}]
    /\ prices \in [TokenIds -> Nat]
    /\ active \subseteq Dominators
    /\ receipts \in [Users -> [Dominators -> ReceiptType \cup {NoReceipt}]]
    /\ signed \subseteq Users
    /\ inbound \in Inbound
    /\ announced \in [Resources -> Nat]

(* The two parts of the type invariant.                                    *)
LEMMA TypeParts ==
    /\ BridgeTypeOK => RestTypeOK
    /\ balances' \in [TokenIds -> [Accounts -> [free : 0..(Width - 1), reserved : 0..(Width - 1)]]]
          /\ TokensTypeOK(tokens') /\ RestTypeOK' => BridgeTypeOK'
BY Zenon DEF BridgeTypeOK, TokenTypeOK, RestTypeOK, TokensTypeOK, Inbound

(* A new deposit. *)
LEMMA DepositMade ==
    ASSUME RestTypeOK, NEW m \in Messages, NEW u \in Users, NEW amount \in Amounts, NEW r \in Resources,
           Deposit(m, u, amount, r)
    PROVE  /\ inbound' \in Inbound /\ inbound[m].outcome = "open" /\ inbound'[m].outcome = "open"
           /\ \A k \in Messages : k # m => inbound'[k] = inbound[k]
           /\ UNCHANGED <<tokenVars, settings, verifier, signed, announced>>
<1> DEFINE e == [NoDeposit EXCEPT !.to = u, !.amount = amount, !.r_id = r]
<1>1. /\ inbound' = [inbound EXCEPT ![m] = e] /\ inbound[m] = NoDeposit
      /\ UNCHANGED <<tokenVars, settings, verifier, signed, announced>>
  BY DEF Deposit
<1>2. e \in DepositType /\ e.outcome = "open"
  BY DEF NoDeposit, DepositType, Outcomes
<1>3. inbound[m].outcome = "open"
  BY <1>1 DEF NoDeposit
<1> HIDE DEF e
<1> QED
  BY <1>1, <1>2, <1>3 DEF RestTypeOK, Inbound

(* A deposit that is dropped or executed. *)
LEMMA DepositDone ==
    ASSUME RestTypeOK, NEW m \in Messages, Pending(m), NEW o \in Outcomes,
           inbound' = WithOutcome(inbound, m, o)
    PROVE  /\ inbound' \in Inbound /\ inbound[m].outcome = "open" /\ inbound'[m].outcome = o
           /\ inbound'[m].r_id = inbound[m].r_id /\ inbound'[m].amount = inbound[m].amount
           /\ \A k \in Messages : k # m => inbound'[k] = inbound[k]
<1>1. inbound \in Inbound /\ inbound[m] # NoDeposit /\ inbound[m].outcome = "open"
  BY DEF Pending, RestTypeOK
<1> QED
  BY <1>1, OutcomeSet

(* Every step keeps them.                                                  *)
LEMMA RestStep ==
    ASSUME BridgeTypeOK, BridgeNext
    PROVE  RestTypeOK'
<1>1. RestTypeOK
  BY TypeParts
<1> USE DEF RestTypeOK
<1>2. ASSUME UNCHANGED <<tokenVars, settings, verifier, signed, inbound, announced>>
      PROVE  RestTypeOK'
  BY <1>1, <1>2 DEF tokenVars, settings, verifier
<1>3. CASE BridgeAdmin
  <2>1. ASSUME NEW v \in BOOLEAN, native_limit(v) PROVE RestTypeOK'
    BY <1>1, <2>1 DEF native_limit, tokenVars, verifier
  <2>2. ASSUME NEW c \in Chains \ {ThisChain}, NEW fee \in Fees, update_bridge_fee(c, fee) PROVE RestTypeOK'
    BY <1>1, <2>2, BridgeAssumption DEF update_bridge_fee, tokenVars, verifier
  <2>3. ASSUME NEW i \in AssociatedIds, NEW d \in Dominators, associate_dominator(i, d) PROVE RestTypeOK'
    BY <1>1, <2>3 DEF associate_dominator, tokenVars, verifier
  <2>4. ASSUME NEW t \in DOMAIN tokens, mark_stable(t), UNCHANGED <<settings, verifier, signed, inbound, announced>>
        PROVE  RestTypeOK'
    BY <1>1, <2>4 DEF mark_stable, settings, verifier
  <2>5. ASSUME NEW a \in Associations, associate_token(a[1], a[2], a[3]),
               UNCHANGED <<settings, verifier, signed, inbound, announced>>
        PROVE  RestTypeOK'
    <3>1. a[1] \in Chains /\ a[2] \in Contracts /\ a[3] \in 1..MaxTokens
      BY TokenAssumption
    <3>2. byContract' \in [Chains \X Contracts -> 1..MaxTokens \cup {NoToken}]
      BY <1>1, <2>5, <3>1 DEF associate_token
    <3> QED
      BY <1>1, <2>5, <3>2 DEF settings, verifier
  <2> QED
    BY <1>3, <2>1, <2>2, <2>3, <2>4, <2>5 DEF BridgeAdmin, TokenAdmin
<1>4. ASSUME NEW t \in TokenIds, NEW p \in Trades, set_price(t, p[1], p[2]) PROVE RestTypeOK'
  <2>1. p[1] \in Nat \ {0} /\ p[2] \in Nat
    BY <1>4, BridgeAssumption DEF set_price
  <2>2. Ratio(p[2], p[1]) \in Nat
    BY <2>1, RatioNat
  <2>3. prices' \in [TokenIds -> Nat]
    BY <1>1, <1>4, <2>2 DEF set_price
  <2> QED
    BY <1>1, <1>4, <2>3 DEF set_price, tokenVars, verifier
<1>5. ASSUME NEW u \in Users, NEW d \in Decimals, Issue(u, d) PROVE RestTypeOK'
  BY <1>1, <1>5 DEF Issue, issue, Sign, settings, verifier
<1>6. ASSUME NEW u \in Users, NEW amount \in Amounts, NEW r \in Resources, NEW dest \in Chains,
             do_lock(u, amount, r, dest)
      PROVE  RestTypeOK'
  <2>1. UNCHANGED <<byContract, settings, verifier, inbound>> /\ signed' = signed \cup {u}
    BY <1>6 DEF do_lock, Sign
  <2>2. announced' \in [Resources -> Nat]
    <3>1. PICK n \in Nat : announced' = [announced EXCEPT ![r] = announced[r] + n]
      BY <1>6, LockEffect
    <3> QED
      BY <1>1, <3>1
  <2> QED
    BY <1>1, <2>1, <2>2 DEF settings, verifier
<1>7. ASSUME NEW u \in Users, NEW amount \in Amounts, NEW r \in Resources, NEW dest \in Chains,
             do_burn_assets(u, amount, r, dest)
      PROVE  RestTypeOK'
  <2>1. UNCHANGED <<byContract, settings, verifier, inbound>> /\ signed' = signed \cup {u}
    BY <1>7 DEF do_burn_assets, Sign
  <2>2. announced' \in [Resources -> Nat]
    <3>1. PICK n \in Nat : announced' = [announced EXCEPT ![r] = announced[r] + n]
      BY <1>7, BurnEffect
    <3> QED
      BY <1>1, <3>1
  <2> QED
    BY <1>1, <2>1, <2>2 DEF settings, verifier
<1>8. ASSUME NEW u \in Users, NEW t \in TokenIds, NEW amount \in Amounts, NEW target \in Accounts,
             Transfer(u, t, amount, target)
      PROVE  RestTypeOK'
  BY <1>1, <1>8 DEF Transfer, transfer, Sign, settings, verifier
<1>9. ASSUME NEW m \in Messages, NEW u \in Users, NEW amount \in Amounts, NEW r \in Resources,
             Deposit(m, u, amount, r)
      PROVE  RestTypeOK'
  <2>1. inbound' \in Inbound /\ UNCHANGED <<tokenVars, settings, verifier, signed, announced>>
    BY <1>1, <1>9, DepositMade
  <2> QED
    BY <1>1, <2>1 DEF tokenVars, settings, verifier
<1>10. ASSUME NEW m \in Messages, Drop(m) PROVE RestTypeOK'
  <2>1. /\ Pending(m) /\ inbound' = WithOutcome(inbound, m, "dropped") /\ "dropped" \in Outcomes
        /\ UNCHANGED <<tokenVars, settings, verifier, signed, announced>>
    BY <1>10 DEF Drop, Outcomes, WithOutcome
  <2>2. inbound' \in Inbound
    BY <1>1, <2>1, DepositDone
  <2> QED
    BY <1>1, <2>1, <2>2 DEF tokenVars, settings, verifier
<1>11. ASSUME NEW m \in Messages, transfer_in(m) PROVE RestTypeOK'
  <2>1. /\ Pending(m) /\ inbound' = WithOutcome(inbound, m, "executed") /\ "executed" \in Outcomes
        /\ UNCHANGED <<byContract, settings, active, signed, announced>>
    BY <1>11, Zenon DEF transfer_in, ArrivesAs, Outcomes, WithOutcome
  <2>2. inbound' \in Inbound
    BY <1>1, <2>1, DepositDone
  <2>3. receipts' \in [Users -> [Dominators -> ReceiptType \cup {NoReceipt}]]
    <3> DEFINE u == inbound[m].to
               t == TokenOf(inbound[m].r_id)
               d == DominatorOf(m)
               gained == to_asset_balance(inbound[m].amount, t)
    <3>1. u \in Users /\ inbound[m].amount \in 1..(Width - 1)
      BY <2>1, PendingType DEF Pending
    <3>2. /\ t \in TokenIds /\ gained \in Nat
          /\ t # Native => t \in DOMAIN tokens /\ tokens[t].total + gained < Width
          /\ \/ receipts' = [receipts EXCEPT ![u][d] = <<t, gained>>] /\ d \in Dominators
             \/ receipts' = receipts
      BY <1>11, ArriveEffect
    <3>3. t = Native => gained = inbound[m].amount
      BY DEF to_asset_balance
    <3> HIDE DEF u, t, d, gained
    <3>4. gained \in 0..(Width - 1)
      <4>1. CASE t = Native
        BY <3>1, <3>3, <4>1
      <4>2. CASE t # Native
        <5>1. tokens[t].total \in Nat
          BY <3>2, <4>2, TokenIdsType DEF BridgeTypeOK, XToken
        <5> QED
          BY <3>2, <4>2, <5>1, DecimalsType
      <4> QED
        BY <4>1, <4>2
    <3>5. <<t, gained>> \in ReceiptType
      BY <3>2, <3>4 DEF ReceiptType
    <3> DEFINE x == <<t, gained>>
               RS == ReceiptType \cup {NoReceipt}
    <3>6. x \in RS
      BY <3>5
    <3>7. receipts \in [Users -> [Dominators -> RS]]
      BY <1>1
    <3>8. (receipts' = [receipts EXCEPT ![u][d] = x] /\ d \in Dominators) \/ receipts' = receipts
      BY <3>2
    <3> HIDE DEF x, RS
    <3>9. receipts' \in [Users -> [Dominators -> RS]]
      BY <3>1, <3>6, <3>7, <3>8
    <3> QED
      BY <3>9 DEF RS
  <2> QED
    BY <1>1, <2>1, <2>2, <2>3 DEF settings
<1>12. ASSUME NEW u \in Users, NEW d \in Dominators, AnswerReceipt(u, d) PROVE RestTypeOK'
  <2>1. receipts' \in [Users -> [Dominators -> ReceiptType \cup {NoReceipt}]]
    BY <1>1, <1>12 DEF AnswerReceipt
  <2> QED
    BY <1>1, <1>12, <2>1 DEF AnswerReceipt, tokenVars, settings
<1>13. ASSUME NEW u \in Users, NEW t \in TokenIds, GiveBack(u, t) PROVE RestTypeOK'
  BY <1>1, <1>13 DEF GiveBack, settings, verifier
<1>14. ASSUME NEW d \in Dominators, SetActive(d) PROVE RestTypeOK'
  BY <1>1, <1>14 DEF SetActive, tokenVars, settings
<1> HIDE DEF RestTypeOK
<1>15. ASSUME NEW u \in Users, NEW amount \in Amounts, NEW r \in Resources, NEW dest \in Chains,
             transfer_out(u, amount, r, dest)
      PROVE  RestTypeOK'
  BY <1>6, <1>7, <1>15 DEF transfer_out
<1> QED
  BY <1>3, <1>4, <1>5, <1>8, <1>9, <1>10, <1>11, <1>12, <1>13, <1>14, <1>15, Zenon DEF BridgeNext

-----------------------------------------------------------------------------
(* Native tokens. *)

(* The resource ids of the native token are constant.                      *)
LEMMA NativeResourcesType ==
    NativeResources \in SUBSET Resources /\ NativeResources' = NativeResources
    /\ \A r \in Resources : r \in NativeResources <=> is_native_resource(r)
BY DEF NativeResources, is_native_resource, Resources

(* NativeIsLocked, by the sums above.                                      *)
LEMMA LockedNow ==
    NativeIsLocked <=> SumFunctionOnSet(announced, NativeResources) - DepositedIn(inbound, NativeResources)
                         <= balances[Native][BridgeAccount].free
BY DepositedNow DEF NativeIsLocked

(* NativeIsLocked after a step.                                            *)
LEMMA LockedNext ==
    NativeIsLocked' <=> SumFunctionOnSet(announced', NativeResources) - DepositedIn(inbound', NativeResources)
                          <= balances'[Native][BridgeAccount].free
<1>1. Deposited(NativeResources, {"executed"})' = DepositedIn(inbound', NativeResources)
  BY NativeResourcesType, Zenon DEF Deposited, DepositedIn, Part
<1> QED
  BY <1>1, NativeResourcesType DEF NativeIsLocked

(* Every step keeps the bridge account at what the other chains hold.      *)
LEMMA LockStep ==
    ASSUME BridgeTypeOK, NativeIsLocked, BridgeNext
    PROVE  NativeIsLocked'
<1> DEFINE free == balances[Native][BridgeAccount].free
           out == SumFunctionOnSet(announced, NativeResources)
           back == DepositedIn(inbound, NativeResources)
<1>1. RestTypeOK /\ inbound \in Inbound /\ announced \in [Resources -> Nat]
  BY TypeParts DEF RestTypeOK
<1>2. balances \in Ledger /\ Native \in TokenIds /\ free \in Nat
  BY LedgerType, TokenIdsType, AccountIds DEF BridgeTypeOK, Ledger, Account
<1>3. out \in Nat /\ back \in Nat
  <2>1. back \in Nat
    BY <1>1, DepositedMonotone
  <2>2. IsFiniteSet(NativeResources) /\ \A r \in NativeResources : announced[r] \in Nat
    BY <1>1, ResourcesFinite, NativeResourcesType
  <2> QED
    BY <2>1, <2>2, SumNat
<1>4. out - back <= free
  BY LockedNow
<1>5. ASSUME inbound' = inbound, announced' = announced, balances'[Native][BridgeAccount].free \in Nat,
             balances'[Native][BridgeAccount].free >= free
      PROVE  NativeIsLocked'
  <2> HIDE DEF free
  <2> QED
    BY <1>2, <1>3, <1>4, <1>5, LockedNext
<1> HIDE DEF free, out, back
<1>6. ASSUME UNCHANGED <<balances, inbound, announced>> PROVE NativeIsLocked'
  <2>1. balances'[Native][BridgeAccount].free = free
    BY <1>6 DEF free
  <2> QED
    BY <1>2, <1>5, <1>6, <2>1
<1>7. ASSUME NEW u \in Users, NEW d \in Decimals, Issue(u, d) PROVE NativeIsLocked'
  <2>1. balances'[Native][BridgeAccount].free = free /\ inbound' = inbound /\ announced' = announced
    BY <1>7, IssueEffect DEF free
  <2> QED
    BY <1>2, <1>5, <2>1
<1>8. ASSUME NEW u \in Users, NEW amount \in Amounts, NEW r \in Resources, NEW dest \in Chains,
             do_lock(u, amount, r, dest)
      PROVE  NativeIsLocked'
  <2>1. /\ is_native_resource(r) /\ inbound' = inbound
        /\ \E n \in Nat : /\ announced' = [announced EXCEPT ![r] = announced[r] + n]
                          /\ balances'[Native][BridgeAccount].free = free + n
    BY <1>8, LockEffect DEF free, do_lock
  <2>2. PICK n \in Nat : announced' = More(announced, r, n) /\ balances'[Native][BridgeAccount].free = free + n
    BY <2>1, Zenon DEF More
  <2>3. r \in NativeResources
    BY <2>1, NativeResourcesType
  <2>4. SumFunctionOnSet(announced', NativeResources) = out + n
    BY <1>1, <2>2, <2>3, AnnouncedMore, NativeResourcesType DEF out
  <2>5. DepositedIn(inbound', NativeResources) = back
    BY <2>1 DEF back
  <2> QED
    BY <1>2, <1>3, <1>4, <2>2, <2>4, <2>5, LockedNext
<1>9. ASSUME NEW u \in Users, NEW amount \in Amounts, NEW r \in Resources, NEW dest \in Chains,
             do_burn_assets(u, amount, r, dest)
      PROVE  NativeIsLocked'
  <2>1. /\ ~is_native_resource(r) /\ inbound' = inbound
        /\ AssetOf(r) \in DOMAIN tokens /\ \A x \in TokenIds \ {AssetOf(r)} : balances'[x] = balances[x]
        /\ \E n \in Nat : announced' = [announced EXCEPT ![r] = announced[r] + n]
    <3>1. inbound' = inbound
      BY <1>9 DEF do_burn_assets
    <3> QED
      BY <1>9, <3>1, BurnEffect
  <2>2. PICK n \in Nat : announced' = More(announced, r, n)
    BY <2>1, Zenon DEF More
  <2>3. r \notin NativeResources
    BY <2>1, NativeResourcesType
  <2>4. SumFunctionOnSet(announced', NativeResources) = out
    BY <1>1, <2>2, <2>3, AnnouncedMore, NativeResourcesType DEF out
  <2>5. DepositedIn(inbound', NativeResources) = back
    BY <2>1 DEF back
  <2>6. balances'[Native][BridgeAccount].free = free
    BY <1>2, <2>1, TokenIdsType DEF free, BridgeTypeOK
  <2> QED
    BY <1>4, <2>4, <2>5, <2>6, LockedNext
<1>10. ASSUME NEW u \in Users, NEW amount \in Amounts, NEW t \in TokenIds, NEW target \in Accounts \ {u},
              Transfer(u, t, amount, target)
       PROVE  NativeIsLocked'
  <2>1. /\ balances' \in Ledger /\ balances'[Native][BridgeAccount].free >= free
        /\ inbound' = inbound /\ announced' = announced
    BY <1>10, TransferEffect DEF free
  <2>2. balances'[Native][BridgeAccount].free \in Nat
    BY <1>2, <2>1, AccountIds DEF Ledger, Account
  <2> QED
    BY <1>5, <2>1, <2>2 DEF free
<1>11. ASSUME NEW m \in Messages, NEW u \in Users, NEW amount \in Amounts, NEW r \in Resources,
              Deposit(m, u, amount, r)
       PROVE  NativeIsLocked'
  <2>1. /\ inbound' \in Inbound /\ inbound[m].outcome = "open" /\ inbound'[m].outcome = "open"
        /\ \A k \in Messages : k # m => inbound'[k] = inbound[k]
        /\ UNCHANGED <<balances, announced>>
    BY <1>1, <1>11, DepositMade DEF tokenVars
  <2>2. Part(inbound, m, NativeResources) = 0 /\ Part(inbound', m, NativeResources) = 0
    BY <2>1 DEF Part
  <2>3. DepositedIn(inbound', NativeResources) = back
    BY <1>1, <1>3, <2>1, <2>2, DepositedChange DEF back
  <2> QED
    BY <1>4, <2>1, <2>3, LockedNext DEF free, out
<1>12. ASSUME NEW m \in Messages, Drop(m) PROVE NativeIsLocked'
  <2>1. /\ Pending(m) /\ inbound' = WithOutcome(inbound, m, "dropped") /\ "dropped" \in Outcomes
        /\ UNCHANGED <<balances, announced>>
    BY <1>12 DEF Drop, Outcomes, WithOutcome, tokenVars
  <2>2. /\ inbound' \in Inbound /\ inbound[m].outcome = "open" /\ inbound'[m].outcome = "dropped"
        /\ \A k \in Messages : k # m => inbound'[k] = inbound[k]
    BY <1>1, <2>1, DepositDone
  <2>3. Part(inbound, m, NativeResources) = 0 /\ Part(inbound', m, NativeResources) = 0
    BY <2>2 DEF Part
  <2>4. DepositedIn(inbound', NativeResources) = back
    BY <1>1, <1>3, <2>2, <2>3, DepositedChange DEF back
  <2> QED
    BY <1>4, <2>1, <2>4, LockedNext DEF free, out
<1>13. ASSUME NEW m \in Messages, transfer_in(m) PROVE NativeIsLocked'
  <2> DEFINE r == inbound[m].r_id
             amount == inbound[m].amount
  <2>1. /\ Pending(m) /\ inbound' = WithOutcome(inbound, m, "executed") /\ "executed" \in Outcomes
        /\ announced' = announced
    BY <1>13, Zenon DEF transfer_in, ArrivesAs, Outcomes, WithOutcome
  <2>2. /\ inbound' \in Inbound /\ inbound[m].outcome = "open" /\ inbound'[m].outcome = "executed"
        /\ inbound'[m].r_id = r /\ inbound'[m].amount = amount
        /\ \A k \in Messages : k # m => inbound'[k] = inbound[k]
    BY <1>1, <2>1, DepositDone
  <2>3. r \in Resources /\ amount \in Nat
    BY <2>1, PendingType, DecimalsType DEF Pending
  <2>4. balances'[Native][BridgeAccount].free = free - (IF is_native_resource(r) THEN amount ELSE 0)
    <3>1. /\ TokenOf(r) = Native =>
                is_native_resource(r) /\ balances'[Native][BridgeAccount].free = free - amount
          /\ TokenOf(r) # Native =>
                ~is_native_resource(r) /\ balances'[Native][BridgeAccount].free = free
      BY <1>13, ArriveEffect DEF free
    <3> QED
      BY <1>2, <3>1
  <2> HIDE DEF r, amount
  <2>5. /\ Part(inbound, m, NativeResources) = 0
        /\ Part(inbound', m, NativeResources) = IF is_native_resource(r) THEN amount ELSE 0
    BY <2>2, <2>3, NativeResourcesType DEF Part
  <2>6. DepositedIn(inbound', NativeResources) = back + (IF is_native_resource(r) THEN amount ELSE 0)
    BY <1>1, <1>3, <2>2, <2>3, <2>5, DepositedChange DEF back
  <2> QED
    BY <1>2, <1>3, <1>4, <2>1, <2>3, <2>4, <2>6, LockedNext DEF out
<1>14. ASSUME NEW u \in Users, NEW t \in TokenIds, GiveBack(u, t) PROVE NativeIsLocked'
  <2>1. balances'[Native][BridgeAccount].free = free /\ inbound' = inbound /\ announced' = announced
    BY <1>14, GiveBackEffect DEF free
  <2> QED
    BY <1>2, <1>5, <2>1
<1>15. /\ UNCHANGED <<tokenVars, inbound, announced>> => UNCHANGED <<balances, inbound, announced>>
       /\ \A t \in DOMAIN tokens : mark_stable(t) => UNCHANGED balances
       /\ \A a \in Associations : associate_token(a[1], a[2], a[3]) => UNCHANGED balances
  BY DEF tokenVars, mark_stable, associate_token
<1> QED
  BY <1>6, <1>7, <1>8, <1>9, <1>10, <1>11, <1>12, <1>13, <1>14, <1>15, StepCases

-----------------------------------------------------------------------------
(* Cover. *)

(* A contract is associated with one token, ever. *)
AssociatedOnce ==
    \A a, b \in Associations : a[1] = b[1] /\ a[2] = b[2] => a[3] = b[3]

(* What was announced was of an issued token, and only associations were   *)
(* made that the admin may make.                                           *)
AnnouncedIsIssued ==
    \A r \in Resources : ~is_native_resource(r) /\ announced[r] # 0 => AssetOf(r) \in DOMAIN tokens
ContractsAssociated ==
    \A k \in Chains \X Contracts :
        byContract[k] # NoToken => <<k[1], k[2], byContract[k]>> \in Associations

(* What is to hold of a token, by the numbers. *)
Covered(total, out, in, d) ==
    total * Power[MaxDecimals - StandardDecimals] + out * Power[MaxDecimals - d]
      <= in * Power[MaxDecimals - d]
ResourcesBy(bc, t) == {r \in Resources : ~is_native_resource(r) /\ bc[<<r[1], r[3]>>] = t}

(* As much is burned as is announced.                                      *)
LEMMA CoveredBurn ==
    ASSUME NEW total \in Nat, NEW out \in Nat, NEW in \in Nat, NEW d \in 0..MaxDecimals,
           Covered(total, out, in, d), NEW k \in Nat, NEW e \in Nat,
           k * Power[MaxDecimals - StandardDecimals] = e * Power[MaxDecimals - d]
    PROVE  Covered(total + (-k), out + e, in, d)
<1> DEFINE S == Power[MaxDecimals - StandardDecimals]
           U == Power[MaxDecimals - d]
<1>1. S \in Nat /\ U \in Nat
  BY CommonUnits
<1>2. total * S + out * U <= in * U /\ k * S = e * U
  BY DEF Covered
<1> HIDE DEF S, U
<1>3. (total + (-k)) * S = total * S - k * S /\ (out + e) * U = out * U + e * U
  BY <1>1
<1>4. /\ total * S \in Nat /\ out * U \in Nat /\ in * U \in Nat /\ k * S \in Nat /\ e * U \in Nat
  BY <1>1, ProductNat
<1> DEFINE x == total * S
           y == out * U
           z == in * U
           ks == k * S
           eu == e * U
<1>5. (x - ks) + (y + eu) <= z
  <2>1. x \in Nat /\ y \in Nat /\ z \in Nat /\ ks \in Nat /\ eu \in Nat /\ x + y <= z /\ ks = eu
    BY <1>2, <1>4
  <2> HIDE DEF x, y, z, ks, eu
  <2> QED
    BY <2>1
<1>6. (total + (-k)) * S + (out + e) * U <= in * U
  BY <1>3, <1>5
<1> QED
  BY <1>6 DEF Covered, S, U

(* No more is minted than was deposited.                                   *)
LEMMA CoveredMint ==
    ASSUME NEW total \in Nat, NEW out \in Nat, NEW in \in Nat, NEW d \in 0..MaxDecimals,
           Covered(total, out, in, d), NEW g \in Nat, NEW a \in Nat,
           g * Power[MaxDecimals - StandardDecimals] <= a * Power[MaxDecimals - d]
    PROVE  Covered(total + g, out, in + a, d)
<1> DEFINE S == Power[MaxDecimals - StandardDecimals]
           U == Power[MaxDecimals - d]
<1>1. S \in Nat /\ U \in Nat
  BY CommonUnits
<1>2. total * S + out * U <= in * U /\ g * S <= a * U
  BY DEF Covered
<1> HIDE DEF S, U
<1>3. (total + g) * S = total * S + g * S /\ (in + a) * U = in * U + a * U
  BY <1>1
<1>4. /\ total * S \in Nat /\ out * U \in Nat /\ in * U \in Nat /\ g * S \in Nat /\ a * U \in Nat
  BY <1>1, ProductNat
<1> DEFINE x == total * S
           y == out * U
           z == in * U
           gs == g * S
           au == a * U
<1>5. (x + gs) + y <= z + au
  <2>1. x \in Nat /\ y \in Nat /\ z \in Nat /\ gs \in Nat /\ au \in Nat /\ x + y <= z /\ gs <= au
    BY <1>2, <1>4
  <2> HIDE DEF x, y, z, gs, au
  <2> QED
    BY <2>1
<1>6. (total + g) * S + out * U <= (in + a) * U
  BY <1>3, <1>5
<1> QED
  BY <1>6 DEF Covered, S, U

(* More deposits cover as much.                                            *)
LEMMA CoveredMore ==
    ASSUME NEW total \in Nat, NEW out \in Nat, NEW in \in Nat, NEW d \in 0..MaxDecimals,
           Covered(total, out, in, d), NEW more \in Nat, in <= more
    PROVE  Covered(total, out, more, d)
<1> DEFINE a == more - in
<1>1. a \in Nat /\ more = in + a
  OBVIOUS
<1>2. 0 * Power[MaxDecimals - StandardDecimals] <= a * Power[MaxDecimals - d]
  <2>1. a * Power[MaxDecimals - d] \in Nat /\ 0 * Power[MaxDecimals - StandardDecimals] = 0
    BY <1>1, CommonUnits, ProductNat
  <2> QED
    BY <2>1
<1> HIDE DEF a
<1>3. Covered(total + 0, out, in + a, d)
  BY <1>1, <1>2, CoveredMint
<1> QED
  BY <1>1, <1>3

(* Nothing is covered by anything.                                         *)
LEMMA CoveredNothing ==
    ASSUME NEW in \in Nat, NEW d \in 0..MaxDecimals
    PROVE  Covered(0, 0, in, d)
<1>1. /\ in * Power[MaxDecimals - d] \in Nat
      /\ 0 * Power[MaxDecimals - StandardDecimals] = 0 /\ 0 * Power[MaxDecimals - d] = 0
  BY CommonUnits, ProductNat
<1> QED
  BY <1>1 DEF Covered

(* SupplyIsBacked, by those numbers.                                       *)
LEMMA BackedNow ==
    SupplyIsBacked <=>
        \A t \in DOMAIN tokens :
            Covered(tokens[t].total, SumFunctionOnSet(announced, ResourcesBy(byContract, t)),
                    DepositedIn(inbound, ResourcesBy(byContract, t)), tokens[t].decimals)
<1>1. \A t \in DOMAIN tokens :
         /\ ResourcesOf(t) = ResourcesBy(byContract, t)
         /\ Deposited(ResourcesOf(t), {"executed"}) = DepositedIn(inbound, ResourcesOf(t))
  BY DepositedNow, Zenon DEF ResourcesOf, ResourcesBy, AssetOf
<1> QED
  BY <1>1, Zenon DEF SupplyIsBacked, Covered, Standard, External

(* SupplyIsBacked after a step.                                            *)
LEMMA BackedNext ==
    SupplyIsBacked' <=>
        \A t \in DOMAIN tokens' :
            Covered(tokens'[t].total, SumFunctionOnSet(announced', ResourcesBy(byContract', t)),
                    DepositedIn(inbound', ResourcesBy(byContract', t)), tokens'[t].decimals)
<1>1. \A t \in DOMAIN tokens' :
         /\ ResourcesOf(t)' = ResourcesBy(byContract', t)
         /\ Deposited(ResourcesOf(t), {"executed"})' = DepositedIn(inbound', ResourcesOf(t)')
  BY Zenon DEF ResourcesOf, ResourcesBy, AssetOf, Deposited, DepositedIn, Part, is_native_resource, Resources
<1> QED
  BY <1>1, Zenon DEF SupplyIsBacked, Covered, Standard, External

(* Only the admin changes associations, and an association that was made stays. *)
LEMMA ContractsStep ==
    ASSUME BridgeTypeOK, BridgeNext
    PROVE  \/ byContract' = byContract
           \/ \E a \in Associations : /\ associate_token(a[1], a[2], a[3])
                                      /\ UNCHANGED <<inbound, announced>>
<1>1. /\ \A t \in DOMAIN tokens : mark_stable(t) => byContract' = byContract
      /\ \A u \in Users, d \in Decimals : Issue(u, d) => byContract' = byContract
      /\ \A u \in Users, amount \in Amounts, r \in Resources, dest \in Chains :
            do_lock(u, amount, r, dest) \/ do_burn_assets(u, amount, r, dest) => byContract' = byContract
  <2>1. \A t \in DOMAIN tokens : mark_stable(t) => byContract' = byContract
    BY DEF mark_stable
  <2>2. \A u \in Users, d \in Decimals : Issue(u, d) => byContract' = byContract
    BY DEF Issue, issue
  <2>3. ASSUME NEW u \in Users, NEW amount \in Amounts, NEW r \in Resources, NEW dest \in Chains,
               do_lock(u, amount, r, dest)
        PROVE  byContract' = byContract
    BY <2>3 DEF do_lock
  <2>4. ASSUME NEW u \in Users, NEW amount \in Amounts, NEW r \in Resources, NEW dest \in Chains,
               do_burn_assets(u, amount, r, dest)
        PROVE  byContract' = byContract
    BY <2>4 DEF do_burn_assets
  <2> QED
    BY <2>1, <2>2, <2>3, <2>4
<1>2. /\ \A u \in Users, amount \in Amounts, t \in TokenIds, target \in Accounts :
            Transfer(u, t, amount, target) => byContract' = byContract
      /\ \A u \in Users, amount \in Amounts, m \in Messages, r \in Resources :
            Deposit(m, u, amount, r) => byContract' = byContract
      /\ \A m \in Messages : Drop(m) \/ transfer_in(m) => byContract' = byContract
      /\ \A u \in Users, t \in TokenIds : GiveBack(u, t) => byContract' = byContract
      /\ UNCHANGED tokenVars => byContract' = byContract
  BY DEF Transfer, transfer, Deposit, Drop, transfer_in, ArrivesAs, GiveBack, tokenVars
<1>3. /\ UNCHANGED <<tokenVars, inbound, announced>> => UNCHANGED tokenVars
      /\ \A u \in Users, amount \in Amounts, r \in Resources, dest \in Chains \ {ThisChain} :
            do_lock(u, amount, r, dest) \/ do_burn_assets(u, amount, r, dest) => byContract' = byContract
      /\ \A u \in Users : \A amount \in Amounts, t \in TokenIds, target \in Accounts \ {u} :
            Transfer(u, t, amount, target) => byContract' = byContract
  BY <1>1, <1>2
<1> QED
  BY <1>1, <1>2, <1>3, StepCases, Zenon

(* The admin only makes associations there are, and none that replaces     *)
(* another.                                                                *)
LEMMA ContractsKept ==
    ASSUME AssociatedOnce, BridgeTypeOK, ContractsAssociated, BridgeNext
    PROVE  /\ ContractsAssociated'
           /\ \A k \in Chains \X Contracts : byContract[k] # NoToken => byContract'[k] = byContract[k]
<1>1. CASE byContract' = byContract
  BY <1>1 DEF ContractsAssociated
<1>2. ASSUME NEW a \in Associations, associate_token(a[1], a[2], a[3])
      PROVE  /\ ContractsAssociated'
             /\ \A k \in Chains \X Contracts : byContract[k] # NoToken => byContract'[k] = byContract[k]
  <2>1. a[1] \in Chains /\ a[2] \in Contracts /\ a[3] \in 1..MaxTokens /\ a = <<a[1], a[2], a[3]>>
    BY TokenAssumption
  <2>2. byContract \in [Chains \X Contracts -> 1..MaxTokens \cup {NoToken}]
    BY DEF BridgeTypeOK, TokenTypeOK
  <2> DEFINE key == <<a[1], a[2]>>
  <2>3. key \in Chains \X Contracts /\ byContract'[key] = a[3]
        /\ \A k \in Chains \X Contracts : k # key => byContract'[k] = byContract[k]
    BY <1>2, <2>1, <2>2 DEF associate_token
  <2>4. byContract[key] # NoToken => byContract[key] = a[3]
    <3> SUFFICES ASSUME byContract[key] # NoToken PROVE byContract[key] = a[3]
      OBVIOUS
    <3> DEFINE b == <<a[1], a[2], byContract[key]>>
    <3>1. b \in Associations
      BY <2>3 DEF ContractsAssociated
    <3>2. b[1] = a[1] /\ b[2] = a[2] /\ b[3] = byContract[key]
      OBVIOUS
    <3> HIDE DEF b
    <3> QED
      BY <3>1, <3>2 DEF AssociatedOnce
  <2>5. <<key[1], key[2], byContract'[key]>> \in Associations
    BY <2>1, <2>3
  <2> QED
    BY <2>3, <2>4, <2>5 DEF ContractsAssociated
<1> QED
  BY <1>1, <1>2, ContractsStep

(* Tokens are never withdrawn. *)
LEMMA TokensStay ==
    ASSUME BridgeTypeOK, BridgeNext
    PROVE  DOMAIN tokens \subseteq DOMAIN tokens'
<1>1. tokens \in Seq(XToken)
  BY DEF BridgeTypeOK, TokenTypeOK
<1>2. /\ \A t \in DOMAIN tokens : mark_stable(t) => DOMAIN tokens' = DOMAIN tokens
      /\ \A u \in Users, amount \in Amounts, r \in Resources, dest \in Chains \ {ThisChain} :
            do_lock(u, amount, r, dest) \/ do_burn_assets(u, amount, r, dest) => DOMAIN tokens' = DOMAIN tokens
      /\ \A m \in Messages : transfer_in(m) => DOMAIN tokens' = DOMAIN tokens
  <2>1. \A t \in DOMAIN tokens : mark_stable(t) => DOMAIN tokens' = DOMAIN tokens
    BY <1>1 DEF mark_stable
  <2>2. ASSUME NEW u \in Users, NEW amount \in Amounts, NEW r \in Resources, NEW dest \in Chains \ {ThisChain},
               do_lock(u, amount, r, dest)
        PROVE  DOMAIN tokens' = DOMAIN tokens
    BY <2>2 DEF do_lock
  <2>3. ASSUME NEW u \in Users, NEW amount \in Amounts, NEW r \in Resources, NEW dest \in Chains \ {ThisChain},
               do_burn_assets(u, amount, r, dest)
        PROVE  DOMAIN tokens' = DOMAIN tokens
    <3>1. \E n \in Nat : tokens' = [tokens EXCEPT ![AssetOf(r)].total = tokens[AssetOf(r)].total + (-n)]
      BY <2>3, BurnEffect
    <3> QED
      BY <1>1, <3>1
  <2>4. ASSUME NEW m \in Messages, transfer_in(m) PROVE DOMAIN tokens' = DOMAIN tokens
    BY <1>1, <2>4 DEF transfer_in, ArrivesAs, Supply
  <2> QED
    BY <2>1, <2>2, <2>3, <2>4
<1>3. \A u \in Users, d \in Decimals : Issue(u, d) => DOMAIN tokens \subseteq DOMAIN tokens'
  <2> SUFFICES ASSUME NEW u \in Users, NEW d \in Decimals, Issue(u, d)
               PROVE  DOMAIN tokens \subseteq DOMAIN tokens'
    OBVIOUS
  <2>1. DOMAIN tokens' = DOMAIN tokens \cup {Len(tokens) + 1}
    BY IssueEffect
  <2> QED
    BY <2>1
<1>4. /\ \A u \in Users : \A amount \in Amounts, t \in TokenIds, target \in Accounts \ {u} :
            Transfer(u, t, amount, target) => DOMAIN tokens' = DOMAIN tokens
      /\ \A u \in Users, amount \in Amounts, m \in Messages, r \in Resources :
            Deposit(m, u, amount, r) => DOMAIN tokens' = DOMAIN tokens
      /\ \A m \in Messages : Drop(m) => DOMAIN tokens' = DOMAIN tokens
      /\ \A u \in Users, t \in TokenIds : GiveBack(u, t) => DOMAIN tokens' = DOMAIN tokens
      /\ \A a \in Associations : associate_token(a[1], a[2], a[3]) => DOMAIN tokens' = DOMAIN tokens
      /\ UNCHANGED <<tokenVars, inbound, announced>> => DOMAIN tokens' = DOMAIN tokens
  BY DEF Transfer, transfer, Deposit, Drop, GiveBack, associate_token, tokenVars
<1> QED
  BY <1>2, <1>3, <1>4, StepCases

(* Only burning announces issued tokens. *)
LEMMA AnnouncedChanges ==
    ASSUME BridgeTypeOK, BridgeNext, NEW r \in Resources, ~is_native_resource(r), announced'[r] # announced[r]
    PROVE  \E u \in Users, amount \in Amounts, dest \in Chains \ {ThisChain} : do_burn_assets(u, amount, r, dest)
<1>1. announced \in [Resources -> Nat]
  BY DEF BridgeTypeOK
<1>2. ~UNCHANGED announced
  OBVIOUS
<1>3. /\ \A u \in Users, d \in Decimals : Issue(u, d) => UNCHANGED announced
      /\ \A u \in Users : \A amount \in Amounts, t \in TokenIds, target \in Accounts \ {u} :
            Transfer(u, t, amount, target) => UNCHANGED announced
      /\ \A u \in Users, amount \in Amounts, m \in Messages, x \in Resources :
            Deposit(m, u, amount, x) => UNCHANGED announced
      /\ \A m \in Messages : Drop(m) \/ transfer_in(m) => UNCHANGED announced
      /\ \A u \in Users, t \in TokenIds : GiveBack(u, t) => UNCHANGED announced
  BY DEF Issue, Transfer, Deposit, Drop, transfer_in, ArrivesAs, GiveBack
<1>4. \/ \E u \in Users, amount \in Amounts, x \in Resources, dest \in Chains \ {ThisChain} :
            do_lock(u, amount, x, dest)
      \/ \E u \in Users, amount \in Amounts, x \in Resources, dest \in Chains \ {ThisChain} :
            do_burn_assets(u, amount, x, dest)
  BY <1>2, <1>3, StepCases
<1>5. ASSUME NEW u \in Users, NEW amount \in Amounts, NEW x \in Resources, NEW dest \in Chains \ {ThisChain},
             do_lock(u, amount, x, dest)
      PROVE  FALSE
  BY <1>1, <1>5 DEF do_lock, Announce
<1>6. ASSUME NEW u \in Users, NEW amount \in Amounts, NEW x \in Resources, NEW dest \in Chains \ {ThisChain},
             do_burn_assets(u, amount, x, dest)
      PROVE  x = r
  BY <1>1, <1>6 DEF do_burn_assets, Announce
<1> QED
  BY <1>4, <1>5, <1>6

(* So what was announced stays announced of an issued token.               *)
LEMMA IssuedStep ==
    ASSUME AssociatedOnce, BridgeTypeOK, ContractsAssociated, AnnouncedIsIssued, BridgeNext
    PROVE  AnnouncedIsIssued'
<1> SUFFICES ASSUME NEW r \in Resources, ~is_native_resource(r), announced'[r] # 0
             PROVE  AssetOf(r)' \in DOMAIN tokens'
  BY Zenon DEF AnnouncedIsIssued, is_native_resource, Resources
<1>1. AssetOf(r) \in DOMAIN tokens
  <2>1. CASE announced'[r] = announced[r]
    BY <2>1 DEF AnnouncedIsIssued
  <2>2. CASE announced'[r] # announced[r]
    <3>1. PICK u \in Users, amount \in Amounts, dest \in Chains \ {ThisChain} : do_burn_assets(u, amount, r, dest)
      BY <2>2, AnnouncedChanges
    <3> QED
      BY <3>1, BurnEffect
  <2> QED
    BY <2>1, <2>2
<1>2. AssetOf(r) # NoToken
  BY <1>1, TokenIdsType DEF BridgeTypeOK
<1>3. <<r[1], r[3]>> \in Chains \X Contracts
  BY DEF Resources
<1>4. AssetOf(r)' = AssetOf(r)
  BY <1>2, <1>3, ContractsKept DEF AssetOf
<1> QED
  BY <1>1, <1>4, TokensStay

(* The resource ids of a token.                                            *)
LEMMA ResourcesBySet ==
    ASSUME NEW bc, NEW t
    PROVE  /\ ResourcesBy(bc, t) \in SUBSET Resources
           /\ \A r \in ResourcesBy(bc, t) : ~is_native_resource(r) /\ bc[<<r[1], r[3]>>] = t
           /\ \A r \in Resources : ~is_native_resource(r) /\ bc[<<r[1], r[3]>>] = t => r \in ResourcesBy(bc, t)
BY DEF ResourcesBy

(* The resources of a token, when the admin associates contracts: nothing  *)
(* was announced of those that come to it.                                 *)
LEMMA AssociatedCovers ==
    ASSUME AssociatedOnce, BridgeTypeOK, ContractsAssociated, AnnouncedIsIssued, BridgeNext,
           NEW t \in DOMAIN tokens
    PROVE  /\ DepositedIn(inbound, ResourcesBy(byContract, t)) <= DepositedIn(inbound, ResourcesBy(byContract', t))
           /\ SumFunctionOnSet(announced, ResourcesBy(byContract', t))
                = SumFunctionOnSet(announced, ResourcesBy(byContract, t))
<1> DEFINE R == ResourcesBy(byContract, t)
           S == ResourcesBy(byContract', t)
<1>1. inbound \in Inbound /\ announced \in [Resources -> Nat]
  BY TypeParts DEF RestTypeOK
<1>2. R \in SUBSET Resources /\ S \in SUBSET Resources
  BY ResourcesBySet
<1>3. t # NoToken /\ NoToken \notin DOMAIN tokens
  BY TokenIdsType DEF BridgeTypeOK
<1>4. \A r \in Resources : <<r[1], r[3]>> \in Chains \X Contracts
  BY DEF Resources
<1>5. ASSUME NEW r \in R PROVE r \in S
  <2>1. r \in Resources /\ ~is_native_resource(r) /\ byContract[<<r[1], r[3]>>] = t
    BY ResourcesBySet
  <2>2. byContract'[<<r[1], r[3]>>] = t
    BY <1>3, <1>4, <2>1, ContractsKept
  <2> QED
    BY <2>1, <2>2, ResourcesBySet
<1>6. ASSUME NEW r \in S \ R PROVE announced[r] = 0
  <2>1. r \in Resources /\ ~is_native_resource(r) /\ byContract'[<<r[1], r[3]>>] = t
    BY ResourcesBySet
  <2>2. byContract[<<r[1], r[3]>>] # t
    BY <1>6, <2>1, ResourcesBySet
  <2>3. byContract[<<r[1], r[3]>>] = NoToken
    BY <1>4, <2>1, <2>2, ContractsKept
  <2>4. AssetOf(r) \notin DOMAIN tokens
    BY <1>3, <2>3 DEF AssetOf
  <2> QED
    BY <2>1, <2>4 DEF AnnouncedIsIssued
<1> HIDE DEF R, S
<1>7. R \subseteq S
  BY <1>5
<1>8. DepositedIn(inbound, R) <= DepositedIn(inbound, S)
  BY <1>1, <1>7, DepositedMonotone
<1>9. SumFunctionOnSet(announced, R) = SumFunctionOnSet(announced, S)
  <2>1. R \in SUBSET S /\ IsFiniteSet(S)
    BY <1>2, <1>7, ResourcesFinite
  <2>2. \A r \in S : announced[r] \in Int
    BY <1>1, <1>2
  <2>3. \A r \in S \ R : announced[r] >= 0
    BY <1>6
  <2> QED
    BY <1>6, <2>1, <2>2, <2>3, SumGrown
<1> QED
  BY <1>8, <1>9 DEF R, S

(* What is covered, and by what, are amounts.                              *)
LEMMA BackedNumbers ==
    ASSUME BridgeTypeOK
    PROVE  /\ \A t \in DOMAIN tokens : tokens[t].total \in Nat /\ tokens[t].decimals \in 0..MaxDecimals
           /\ \A R \in SUBSET Resources : SumFunctionOnSet(announced, R) \in Nat
           /\ \A R \in SUBSET Resources : DepositedIn(inbound, R) \in Nat
<1>1. inbound \in Inbound /\ announced \in [Resources -> Nat]
  BY TypeParts DEF RestTypeOK
<1>2. ASSUME NEW t \in DOMAIN tokens PROVE tokens[t].total \in Nat /\ tokens[t].decimals \in 0..MaxDecimals
  BY TokenIdsType, DecimalsType DEF BridgeTypeOK, XToken
<1>3. ASSUME NEW R \in SUBSET Resources PROVE SumFunctionOnSet(announced, R) \in Nat
  <2>1. IsFiniteSet(R) /\ \A r \in R : announced[r] \in Nat
    BY <1>1, ResourcesFinite
  <2> QED
    BY <2>1, SumNat
<1>4. ASSUME NEW R \in SUBSET Resources PROVE DepositedIn(inbound, R) \in Nat
  BY <1>1, DepositedMonotone
<1> QED
  BY <1>2, <1>3, <1>4

(* A step that changes neither supply nor what was announced. *)
LEMMA BackedKept ==
    ASSUME BridgeTypeOK, SupplyIsBacked, DOMAIN tokens' = DOMAIN tokens,
           \A t \in DOMAIN tokens :
              tokens'[t].total = tokens[t].total /\ tokens'[t].decimals = tokens[t].decimals,
           \A t \in DOMAIN tokens :
              SumFunctionOnSet(announced', ResourcesBy(byContract', t))
                = SumFunctionOnSet(announced, ResourcesBy(byContract, t)),
           \A t \in DOMAIN tokens :
              DepositedIn(inbound', ResourcesBy(byContract', t)) \in Nat
              /\ DepositedIn(inbound, ResourcesBy(byContract, t)) <= DepositedIn(inbound', ResourcesBy(byContract', t))
    PROVE  SupplyIsBacked'
<1> SUFFICES ASSUME NEW t \in DOMAIN tokens
             PROVE  Covered(tokens'[t].total, SumFunctionOnSet(announced', ResourcesBy(byContract', t)),
                            DepositedIn(inbound', ResourcesBy(byContract', t)), tokens'[t].decimals)
  BY BackedNext
<1> DEFINE total == tokens[t].total
           d == tokens[t].decimals
           out == SumFunctionOnSet(announced, ResourcesBy(byContract, t))
           in == DepositedIn(inbound, ResourcesBy(byContract, t))
           more == DepositedIn(inbound', ResourcesBy(byContract', t))
<1>1. Covered(total, out, in, d)
  BY BackedNow
<1>2. total \in Nat /\ d \in 0..MaxDecimals /\ out \in Nat /\ in \in Nat
  BY BackedNumbers, ResourcesBySet
<1>3. more \in Nat /\ in <= more
  OBVIOUS
<1>4. tokens'[t].total = total /\ tokens'[t].decimals = d
      /\ SumFunctionOnSet(announced', ResourcesBy(byContract', t)) = out
  OBVIOUS
<1> HIDE DEF total, d, out, in, more
<1>5. Covered(total, out, more, d)
  BY <1>1, <1>2, <1>3, CoveredMore
<1> QED
  BY <1>4, <1>5 DEF more

(* A transfer out of an issued token burns what it announces.              *)
LEMMA BackedBurn ==
    ASSUME BridgeTypeOK, SupplyIsBacked,
           NEW u \in Users, NEW amount \in Amounts, NEW r \in Resources, NEW dest \in Chains,
           do_burn_assets(u, amount, r, dest)
    PROVE  SupplyIsBacked'
<1> DEFINE t == AssetOf(r)
<1>1. ~is_native_resource(r) /\ t \in DOMAIN tokens /\ byContract' = byContract /\ inbound' = inbound
  <2>1. inbound' = inbound
    BY DEF do_burn_assets
  <2> QED
    BY <2>1, BurnEffect
<1>2. \E ext, back \in Nat :
         /\ announced' = More(announced, r, ext)
         /\ back <= tokens[t].total
         /\ tokens' = WithTotal(t, tokens[t].total + (-back))
         /\ Standard(back) = External(t, ext)
  BY BurnEffect, Zenon DEF More, WithTotal
<1>3. PICK ext \in Nat, back \in Nat :
         /\ announced' = More(announced, r, ext)
         /\ back <= tokens[t].total
         /\ tokens' = WithTotal(t, tokens[t].total + (-back))
         /\ Standard(back) = External(t, ext)
  BY <1>2, Zenon
<1>4. r \in ResourcesBy(byContract, t) /\ \A x : x # t => r \notin ResourcesBy(byContract, x)
  BY <1>1, ResourcesBySet DEF AssetOf
<1> HIDE DEF t
<1>5. announced \in [Resources -> Nat]
  BY DEF BridgeTypeOK
<1>6. tokens[t].total \in 0..(Width - 1) /\ tokens[t].total \in Nat
  BY <1>1, TokenIdsType, DecimalsType DEF BridgeTypeOK, XToken
<1>7. tokens[t].total + (-back) \in 0..(Width - 1) /\ -back \in Int
  <2>1. back <= tokens[t].total
    BY <1>3
  <2> QED
    BY <1>6, <2>1, DecimalsType
<1>8. /\ DOMAIN tokens' = DOMAIN tokens /\ tokens'[t].total = tokens[t].total + (-back)
      /\ \A x \in DOMAIN tokens : tokens'[x].decimals = tokens[x].decimals
      /\ \A x \in DOMAIN tokens \ {t} : tokens'[x] = tokens[x]
  <2>1. tokens' = WithTotal(t, tokens[t].total + (-back)) /\ TokenTypeOK /\ t \in DOMAIN tokens
    BY <1>1, <1>3 DEF BridgeTypeOK
  <2> QED
    BY <1>7, <2>1, TotalChanges
<1>9. ASSUME NEW x \in DOMAIN tokens
      PROVE  Covered(tokens'[x].total, SumFunctionOnSet(announced', ResourcesBy(byContract', x)),
                     DepositedIn(inbound', ResourcesBy(byContract', x)), tokens'[x].decimals)
  <2> DEFINE total == tokens[x].total
             d == tokens[x].decimals
             R == ResourcesBy(byContract, x)
             out == SumFunctionOnSet(announced, R)
             in == DepositedIn(inbound, R)
  <2>1. Covered(total, out, in, d)
    BY BackedNow
  <2>2. total \in Nat /\ d \in 0..MaxDecimals /\ out \in Nat /\ in \in Nat /\ R \in SUBSET Resources
    BY BackedNumbers, ResourcesBySet
  <2>3. DepositedIn(inbound', ResourcesBy(byContract', x)) = in /\ tokens'[x].decimals = d
        /\ SumFunctionOnSet(announced', ResourcesBy(byContract', x)) = SumFunctionOnSet(announced', R)
    BY <1>1, <1>8
  <2>4. CASE x = t
    <3>1. SumFunctionOnSet(announced', R) = out + ext
      <4>1. r \in R /\ announced' = More(announced, r, ext)
        BY <1>3, <1>4, <2>4
      <4> QED
        BY <1>5, <2>2, <4>1, AnnouncedMore
    <3>2. back * Power[MaxDecimals - StandardDecimals] = ext * Power[MaxDecimals - d]
      BY <1>3, <2>4 DEF Standard, External
    <3>3. tokens'[x].total = total + (-back)
      BY <1>8, <2>4
    <3> HIDE DEF total, d, R, out, in
    <3>4. Covered(total + (-back), out + ext, in, d)
      BY <2>1, <2>2, <3>2, CoveredBurn
    <3> QED
      BY <2>3, <3>1, <3>3, <3>4
  <2>5. CASE x # t
    <3>1. SumFunctionOnSet(announced', R) = out
      <4>1. r \notin R /\ announced' = More(announced, r, ext)
        BY <1>3, <1>4, <2>5
      <4> QED
        BY <1>5, <2>2, <4>1, AnnouncedMore
    <3>2. tokens'[x].total = total
      BY <1>8, <2>5
    <3> QED
      BY <2>1, <2>3, <3>1, <3>2
  <2> QED
    BY <2>4, <2>5
<1> QED
  BY <1>8, <1>9, BackedNext

(* A mint is covered by the deposit it is for. *)
LEMMA BackedMint ==
    ASSUME BridgeTypeOK, SupplyIsBacked, NEW m \in Messages, transfer_in(m)
    PROVE  SupplyIsBacked'
<1> DEFINE r == inbound[m].r_id
           amount == inbound[m].amount
           t == TokenOf(r)
           gained == to_asset_balance(amount, t)
<1>1. /\ Pending(m) /\ inbound' = WithOutcome(inbound, m, "executed") /\ "executed" \in Outcomes
      /\ announced' = announced /\ byContract' = byContract
  BY Zenon DEF transfer_in, ArrivesAs, Outcomes, WithOutcome
<1>2. RestTypeOK /\ inbound \in Inbound
  BY TypeParts DEF RestTypeOK
<1>3. /\ inbound' \in Inbound /\ inbound[m].outcome = "open" /\ inbound'[m].outcome = "executed"
      /\ inbound'[m].r_id = r /\ inbound'[m].amount = amount
      /\ \A k \in Messages : k # m => inbound'[k] = inbound[k]
  BY <1>1, <1>2, DepositDone
<1>4. r \in Resources /\ amount \in Nat
  BY <1>1, PendingType, DecimalsType DEF Pending
<1>5. /\ t \in TokenIds /\ gained \in Nat
      /\ t = Native => is_native_resource(r) /\ tokens' = tokens
      /\ t # Native => /\ ~is_native_resource(r) /\ t = AssetOf(r) /\ t \in DOMAIN tokens
                       /\ tokens' = WithTotal(t, tokens[t].total + gained)
                       /\ tokens[t].total + gained < Width
                       /\ Standard(gained) <= External(t, amount)
  BY ArriveEffect, Zenon DEF WithTotal
<1> HIDE DEF r, amount, t, gained
<1>6. ASSUME NEW R \in SUBSET Resources
      PROVE  /\ DepositedIn(inbound, R) \in Nat
             /\ DepositedIn(inbound', R) = DepositedIn(inbound, R) + (IF r \in R THEN amount ELSE 0)
  <2>1. Part(inbound, m, R) = 0 /\ Part(inbound', m, R) = IF r \in R THEN amount ELSE 0
    BY <1>3 DEF Part
  <2>2. /\ DepositedIn(inbound, R) \in Nat
        /\ DepositedIn(inbound', R) = DepositedIn(inbound, R) + Part(inbound', m, R) - Part(inbound, m, R)
    BY <1>2, <1>3, DepositedChange
  <2> QED
    BY <1>4, <2>1, <2>2
<1>7. CASE t = Native
  <2>1. \A x \in DOMAIN tokens : r \notin ResourcesBy(byContract, x) /\ ResourcesBy(byContract, x) \in SUBSET Resources
    BY <1>5, <1>7, ResourcesBySet
  <2>2. \A x \in DOMAIN tokens :
           DepositedIn(inbound', ResourcesBy(byContract, x)) = DepositedIn(inbound, ResourcesBy(byContract, x))
    BY <1>6, <2>1
  <2> QED
    BY <1>1, <1>5, <1>7, <2>2, BackedNow, BackedNext
<1>8. CASE t # Native
  <2>1. /\ ~is_native_resource(r) /\ t = AssetOf(r) /\ t \in DOMAIN tokens
        /\ tokens' = WithTotal(t, tokens[t].total + gained)
        /\ tokens[t].total + gained < Width
        /\ Standard(gained) <= External(t, amount)
    BY <1>5, <1>8
  <2>2. tokens[t].total \in Nat
    BY <2>1, BackedNumbers
  <2>3. tokens[t].total + gained \in 0..(Width - 1) /\ gained \in Int
    BY <1>5, <2>1, <2>2, DecimalsType
  <2>4. /\ DOMAIN tokens' = DOMAIN tokens /\ tokens'[t].total = tokens[t].total + gained
        /\ \A x \in DOMAIN tokens : tokens'[x].decimals = tokens[x].decimals
        /\ \A x \in DOMAIN tokens \ {t} : tokens'[x] = tokens[x]
    <3>1. tokens' = WithTotal(t, tokens[t].total + gained) /\ TokenTypeOK /\ t \in DOMAIN tokens
      BY <2>1 DEF BridgeTypeOK
    <3> QED
      BY <2>3, <3>1, TotalChanges
  <2>5. r \in ResourcesBy(byContract, t) /\ \A x : x # t => r \notin ResourcesBy(byContract, x)
    BY <1>4, <2>1, ResourcesBySet DEF AssetOf
  <2>6. ASSUME NEW x \in DOMAIN tokens
        PROVE  Covered(tokens'[x].total, SumFunctionOnSet(announced', ResourcesBy(byContract', x)),
                       DepositedIn(inbound', ResourcesBy(byContract', x)), tokens'[x].decimals)
    <3> DEFINE total == tokens[x].total
               d == tokens[x].decimals
               R == ResourcesBy(byContract, x)
               out == SumFunctionOnSet(announced, R)
               in == DepositedIn(inbound, R)
    <3>1. Covered(total, out, in, d)
      BY BackedNow
    <3>2. total \in Nat /\ d \in 0..MaxDecimals /\ out \in Nat /\ in \in Nat /\ R \in SUBSET Resources
      BY BackedNumbers, ResourcesBySet
    <3>3. SumFunctionOnSet(announced', ResourcesBy(byContract', x)) = out /\ tokens'[x].decimals = d
          /\ DepositedIn(inbound', ResourcesBy(byContract', x)) = DepositedIn(inbound', R)
      BY <1>1, <2>4
    <3>4. CASE x = t
      <4>1. DepositedIn(inbound', R) = in + amount
        BY <1>6, <2>5, <3>2, <3>4
      <4>2. gained * Power[MaxDecimals - StandardDecimals] <= amount * Power[MaxDecimals - d]
        BY <2>1, <3>4 DEF Standard, External
      <4>3. tokens'[x].total = total + gained
        BY <2>4, <3>4
      <4> HIDE DEF total, d, R, out, in
      <4>4. Covered(total + gained, out, in + amount, d)
        BY <1>4, <1>5, <3>1, <3>2, <4>2, CoveredMint
      <4> QED
        BY <3>3, <4>1, <4>3, <4>4
    <3>5. CASE x # t
      <4>1. DepositedIn(inbound', R) = in
        BY <1>6, <2>5, <3>2, <3>5
      <4>2. tokens'[x].total = total
        BY <2>4, <3>5
      <4> QED
        BY <3>1, <3>3, <4>1, <4>2
    <3> QED
      BY <3>4, <3>5
  <2> QED
    BY <2>4, <2>6, BackedNext
<1> QED
  BY <1>7, <1>8

(* A token that is issued has no supply, and nothing of it was announced. *)
LEMMA BackedIssue ==
    ASSUME BridgeTypeOK, SupplyIsBacked, AnnouncedIsIssued, NEW u \in Users, NEW d \in Decimals, Issue(u, d)
    PROVE  SupplyIsBacked'
<1> DEFINE new == Len(tokens) + 1
<1>1. /\ TokensTypeOK(tokens') /\ DOMAIN tokens' = DOMAIN tokens \cup {new}
      /\ \A x \in DOMAIN tokens : tokens'[x] = tokens[x]
      /\ tokens'[new].total = 0 /\ new \notin DOMAIN tokens
      /\ byContract' = byContract /\ inbound' = inbound /\ announced' = announced
  BY IssueEffect
<1>2. tokens'[new].decimals \in 0..MaxDecimals
  <2>1. tokens' \in Seq(XToken) /\ new \in DOMAIN tokens'
    BY <1>1 DEF TokensTypeOK
  <2>2. tokens'[new] \in XToken
    BY <2>1
  <2> QED
    BY <2>2 DEF XToken
<1> HIDE DEF new
<1>3. \A x \in DOMAIN tokens :
         Covered(tokens'[x].total, SumFunctionOnSet(announced', ResourcesBy(byContract', x)),
                 DepositedIn(inbound', ResourcesBy(byContract', x)), tokens'[x].decimals)
  BY <1>1, BackedNow
<1>4. Covered(tokens'[new].total, SumFunctionOnSet(announced', ResourcesBy(byContract', new)),
              DepositedIn(inbound', ResourcesBy(byContract', new)), tokens'[new].decimals)
  <2> DEFINE R == ResourcesBy(byContract, new)
  <2>1. R \in SUBSET Resources /\ IsFiniteSet(R)
    BY ResourcesBySet, ResourcesFinite
  <2>2. ASSUME NEW r \in R PROVE announced[r] = 0
    <3>1. r \in Resources /\ ~is_native_resource(r) /\ AssetOf(r) = new
      BY <2>1, ResourcesBySet DEF AssetOf
    <3> QED
      BY <1>1, <3>1 DEF AnnouncedIsIssued
  <2>3. SumFunctionOnSet(announced, R) = 0
    BY <2>1, <2>2, SumZeros
  <2>4. DepositedIn(inbound, R) \in Nat
    BY <2>1, BackedNumbers
  <2>5. Covered(0, 0, DepositedIn(inbound, R), tokens'[new].decimals)
    BY <1>2, <2>4, CoveredNothing
  <2> QED
    BY <1>1, <2>3, <2>5
<1> QED
  BY <1>1, <1>3, <1>4, BackedNext

(* Resources of native tokens are none of an issued token. *)
LEMMA BackedLock ==
    ASSUME BridgeTypeOK, SupplyIsBacked,
           NEW u \in Users, NEW amount \in Amounts, NEW r \in Resources, NEW dest \in Chains,
           do_lock(u, amount, r, dest)
    PROVE  SupplyIsBacked'
<1>1. /\ is_native_resource(r) /\ tokens' = tokens /\ byContract' = byContract /\ inbound' = inbound
      /\ \E n \in Nat : announced' = More(announced, r, n)
  <2>1. inbound' = inbound
    BY DEF do_lock
  <2>2. /\ is_native_resource(r) /\ tokens' = tokens /\ byContract' = byContract
        /\ \E n \in Nat : announced' = [announced EXCEPT ![r] = announced[r] + n]
    BY LockEffect
  <2> QED
    BY <2>1, <2>2, Zenon DEF More
<1>2. PICK n \in Nat : announced' = More(announced, r, n)
  BY <1>1, Zenon
<1>3. announced \in [Resources -> Nat]
  BY DEF BridgeTypeOK
<1>4. ASSUME NEW t \in DOMAIN tokens
      PROVE  SumFunctionOnSet(announced', ResourcesBy(byContract', t))
               = SumFunctionOnSet(announced, ResourcesBy(byContract, t))
  <2> DEFINE R == ResourcesBy(byContract, t)
  <2>1. R \in SUBSET Resources /\ r \notin R
    BY <1>1, ResourcesBySet
  <2>2. ResourcesBy(byContract', t) = R
    BY <1>1
  <2> HIDE DEF R
  <2>3. SumFunctionOnSet(announced', R) = SumFunctionOnSet(announced, R)
    BY <1>2, <1>3, <2>1, AnnouncedMore
  <2> QED
    BY <2>2, <2>3 DEF R
<1>5. \A t \in DOMAIN tokens :
         DepositedIn(inbound', ResourcesBy(byContract', t)) \in Nat
         /\ DepositedIn(inbound, ResourcesBy(byContract, t)) <= DepositedIn(inbound', ResourcesBy(byContract', t))
  BY <1>1, BackedNumbers, ResourcesBySet
<1> QED
  BY <1>1, <1>4, <1>5, BackedKept

(* Every step keeps the supply covered.                                    *)
LEMMA BackedStep ==
    ASSUME AssociatedOnce, BridgeTypeOK, ContractsAssociated, AnnouncedIsIssued, SupplyIsBacked, BridgeNext
    PROVE  SupplyIsBacked'
<1>1. RestTypeOK /\ inbound \in Inbound
  BY TypeParts DEF RestTypeOK
<1>2. ASSUME byContract' = byContract, announced' = announced, DOMAIN tokens' = DOMAIN tokens,
             \A t \in DOMAIN tokens :
                tokens'[t].total = tokens[t].total /\ tokens'[t].decimals = tokens[t].decimals,
             inbound' \in Inbound,
             \A R \in SUBSET Resources : DepositedIn(inbound', R) = DepositedIn(inbound, R)
      PROVE  SupplyIsBacked'
  <2>1. \A t \in DOMAIN tokens :
           DepositedIn(inbound', ResourcesBy(byContract', t)) \in Nat
           /\ DepositedIn(inbound, ResourcesBy(byContract, t)) <= DepositedIn(inbound', ResourcesBy(byContract', t))
    BY <1>2, BackedNumbers, ResourcesBySet
  <2> QED
    BY <1>2, <2>1, BackedKept
<1>3. ASSUME UNCHANGED <<tokens, byContract, inbound, announced>> PROVE SupplyIsBacked'
  BY <1>1, <1>2, <1>3
<1>4. ASSUME NEW t \in DOMAIN tokens, mark_stable(t), UNCHANGED <<inbound, announced>> PROVE SupplyIsBacked'
  <2>1. TokenTypeOK
    BY DEF BridgeTypeOK
  <2>2. /\ DOMAIN tokens' = DOMAIN tokens /\ byContract' = byContract
        /\ \A x \in DOMAIN tokens :
              tokens'[x].decimals = tokens[x].decimals /\ tokens'[x].total = tokens[x].total
    BY <1>4, <2>1, StableEffect
  <2> QED
    BY <1>1, <1>2, <1>4, <2>2
<1>5. ASSUME NEW a \in Associations, associate_token(a[1], a[2], a[3]), UNCHANGED <<inbound, announced>>
      PROVE  SupplyIsBacked'
  <2>1. tokens' = tokens
    BY <1>5 DEF associate_token
  <2>2. \A t \in DOMAIN tokens :
           /\ DepositedIn(inbound, ResourcesBy(byContract, t)) <= DepositedIn(inbound', ResourcesBy(byContract', t))
           /\ SumFunctionOnSet(announced', ResourcesBy(byContract', t))
                = SumFunctionOnSet(announced, ResourcesBy(byContract, t))
    BY <1>5, AssociatedCovers
  <2>3. \A t \in DOMAIN tokens : DepositedIn(inbound', ResourcesBy(byContract', t)) \in Nat
    BY <1>5, BackedNumbers, ResourcesBySet
  <2> QED
    BY <2>1, <2>2, <2>3, BackedKept
<1>6. ASSUME NEW m \in Messages, inbound' \in Inbound, UNCHANGED <<tokenVars, announced>>,
             inbound[m].outcome # "executed", inbound'[m].outcome # "executed",
             \A k \in Messages : k # m => inbound'[k] = inbound[k]
      PROVE  SupplyIsBacked'
  <2>1. ASSUME NEW R \in SUBSET Resources PROVE DepositedIn(inbound', R) = DepositedIn(inbound, R)
    <3>1. Part(inbound, m, R) = 0 /\ Part(inbound', m, R) = 0
      BY <1>6 DEF Part
    <3>2. /\ DepositedIn(inbound, R) \in Nat
          /\ DepositedIn(inbound', R) = DepositedIn(inbound, R) + Part(inbound', m, R) - Part(inbound, m, R)
      BY <1>1, <1>6, DepositedChange
    <3> QED
      BY <3>1, <3>2
  <2> QED
    BY <1>2, <1>6, <2>1 DEF tokenVars
<1>7. ASSUME NEW m \in Messages, NEW u \in Users, NEW amount \in Amounts, NEW r \in Resources,
             Deposit(m, u, amount, r)
      PROVE  SupplyIsBacked'
  <2>1. /\ inbound' \in Inbound /\ inbound[m].outcome = "open" /\ inbound'[m].outcome = "open"
        /\ \A k \in Messages : k # m => inbound'[k] = inbound[k]
        /\ UNCHANGED <<tokenVars, announced>>
    BY <1>1, <1>7, DepositMade
  <2>2. inbound[m].outcome # "executed" /\ inbound'[m].outcome # "executed"
    BY <2>1
  <2> QED
    BY <1>6, <2>1, <2>2
<1>8. ASSUME NEW m \in Messages, Drop(m) PROVE SupplyIsBacked'
  <2>1. /\ Pending(m) /\ inbound' = WithOutcome(inbound, m, "dropped") /\ "dropped" \in Outcomes
        /\ UNCHANGED <<tokenVars, announced>>
    BY <1>8 DEF Drop, Outcomes, WithOutcome
  <2>2. /\ inbound' \in Inbound /\ inbound[m].outcome = "open" /\ inbound'[m].outcome = "dropped"
        /\ \A k \in Messages : k # m => inbound'[k] = inbound[k]
    BY <1>1, <2>1, DepositDone
  <2>3. inbound[m].outcome # "executed" /\ inbound'[m].outcome # "executed"
    BY <2>2
  <2> QED
    BY <1>6, <2>1, <2>2, <2>3
<1>9. /\ \A u \in Users : \A amount \in Amounts, t \in TokenIds, target \in Accounts \ {u} :
            Transfer(u, t, amount, target) => UNCHANGED <<tokens, byContract, inbound, announced>>
      /\ \A u \in Users, t \in TokenIds :
            GiveBack(u, t) => UNCHANGED <<tokens, byContract, inbound, announced>>
      /\ UNCHANGED <<tokenVars, inbound, announced>> => UNCHANGED <<tokens, byContract, inbound, announced>>
  BY DEF Transfer, transfer, GiveBack, tokenVars
<1>10. /\ \A u \in Users, d \in Decimals : Issue(u, d) => SupplyIsBacked'
       /\ \A u \in Users, amount \in Amounts, r \in Resources, dest \in Chains \ {ThisChain} :
            do_lock(u, amount, r, dest) => SupplyIsBacked'
       /\ \A u \in Users, amount \in Amounts, r \in Resources, dest \in Chains \ {ThisChain} :
            do_burn_assets(u, amount, r, dest) => SupplyIsBacked'
       /\ \A m \in Messages : transfer_in(m) => SupplyIsBacked'
  BY BackedIssue, BackedLock, BackedBurn, BackedMint
<1> QED
  BY <1>3, <1>4, <1>5, <1>7, <1>8, <1>9, <1>10, StepCases, Zenon

-----------------------------------------------------------------------------
(* The ledger at genesis. *)
LEMMA StartLedger ==
    ASSUME BridgeInit
    PROVE  BridgeTypeOK /\ LedgerIsHeld
<1>1. /\ Width \in Nat \ {0} /\ 0 \in 0..(Width - 1) /\ Native \in TokenIds
      /\ \A a \in Accounts : InitFree[a] \in 0..(Width - 1) /\ InitFree[a] \in Nat
  BY DecimalsType, TokenAssumption, DecimalsAssumption DEF TokenIds, Native
<1>2. /\ balances \in [TokenIds -> [Accounts -> [free : 0..(Width - 1), reserved : 0..(Width - 1)]]]
      /\ \A a \in Accounts : balances[Native][a].free = InitFree[a] /\ balances[Native][a].reserved = 0
      /\ \A t \in TokenIds \ {Native}, a \in Accounts : balances[t][a].free = 0 /\ balances[t][a].reserved = 0
  BY <1>1 DEF BridgeInit, TokenInit, Empty
<1>3. tokens = <<>> /\ byContract = [k \in Chains \X Contracts |-> NoToken]
  BY DEF BridgeInit, TokenInit
<1>4. TokenTypeOK
  <2>1. tokens \in Seq(XToken) /\ Len(tokens) <= MaxTokens
    BY <1>3, TokenAssumption
  <2> QED
    BY <1>2, <1>3, <2>1 DEF TokenTypeOK
<1>5. RestTypeOK
  <2>1. byContract \in [Chains \X Contracts -> 1..MaxTokens \cup {NoToken}]
    BY <1>3
  <2> QED
    BY <2>1, BridgeAssumption DEF BridgeInit, RestTypeOK, Inbound
<1>6. BridgeTypeOK
  BY <1>4, <1>5 DEF BridgeTypeOK, RestTypeOK, Inbound
<1>7. ASSUME NEW t \in TokenIds PROVE HeldOf(balances, t) = TotalOf(tokens, t)
  <2> DEFINE f == [a \in Accounts |-> balances[t][a].free + balances[t][a].reserved]
  <2>1. HeldOf(balances, t) = SumFunctionOnSet(f, Accounts)
    BY Zenon DEF HeldOf
  <2>2. CASE t = Native
    <3>1. \A a \in Accounts : InitFree[a] \in Int /\ f[a] = InitFree[a]
      BY <1>1, <1>2, <2>2
    <3> HIDE DEF f
    <3>2. SumFunctionOnSet(f, Accounts) = Genesis
      BY <3>1, AccountsFinite, SumAgree DEF Genesis
    <3>3. Len(tokens) * BurnTAOwhenIssue = 0
      BY <1>3, TokenAssumption
    <3> QED
      BY <2>1, <2>2, <3>2, <3>3, GenesisType DEF TotalOf
  <2>3. CASE t # Native
    <3>1. \A a \in Accounts : f[a] = 0
      BY <1>2, <2>3
    <3> HIDE DEF f
    <3>2. SumFunctionOnSet(f, Accounts) = 0
      BY <3>1, AccountsFinite, SumZeros
    <3>3. TotalOf(tokens, t) = 0
      BY <1>3, <2>3 DEF TotalOf
    <3> QED
      BY <2>1, <3>2, <3>3
  <2> QED
    BY <2>2, <2>3
<1> QED
  BY <1>6, <1>7 DEF LedgerIsHeld

(* Nothing is issued, announced or deposited at genesis.                   *)
LEMMA StartBridge ==
    ASSUME BridgeInit
    PROVE  NativeIsLocked /\ ContractsAssociated /\ AnnouncedIsIssued /\ SupplyIsBacked
<1>1. BridgeTypeOK
  BY StartLedger
<1>2. announced = [r \in Resources |-> 0] /\ tokens = <<>>
      /\ byContract = [k \in Chains \X Contracts |-> NoToken]
  BY DEF BridgeInit, TokenInit
<1>3. NativeIsLocked
  <2>1. \A r \in NativeResources : announced[r] = 0
    BY <1>2, NativeResourcesType
  <2>2. SumFunctionOnSet(announced, NativeResources) = 0
    BY <2>1, ResourcesFinite, NativeResourcesType, SumZeros
  <2>3. DepositedIn(inbound, NativeResources) \in Nat
    BY <1>1, BackedNumbers, NativeResourcesType
  <2>4. balances[Native][BridgeAccount].free \in Nat
    BY <1>1, LedgerType, TokenIdsType, AccountIds DEF BridgeTypeOK, Ledger, Account
  <2> QED
    BY <2>2, <2>3, <2>4, LockedNow
<1>4. DOMAIN tokens = {}
  BY <1>2
<1> QED
  BY <1>2, <1>3, <1>4 DEF ContractsAssociated, AnnouncedIsIssued, SupplyIsBacked

-----------------------------------------------------------------------------
(* What always holds. *)

(* What every step keeps of the ledger, whatever the admin associates. *)
LedgerInv == BridgeTypeOK /\ LedgerIsHeld /\ NativeIsLocked

(* It is inductive.                                                        *)
LEMMA LedgerStays ==
    ASSUME LedgerInv, [BridgeNext]_bridgeVars
    PROVE  LedgerInv'
<1>1. CASE BridgeNext
  <2>1. /\ balances' \in Ledger /\ TokensTypeOK(tokens')
        /\ \A t \in TokenIds : HeldOf(balances', t) = TotalOf(tokens', t)
    BY <1>1, LedgerStep DEF LedgerInv
  <2>2. balances' \in [TokenIds -> [Accounts -> [free : 0..(Width - 1), reserved : 0..(Width - 1)]]]
    BY <2>1, LedgerBounded
  <2>3. RestTypeOK'
    BY <1>1, RestStep DEF LedgerInv
  <2>4. BridgeTypeOK'
    BY <2>1, <2>2, <2>3, TypeParts
  <2>5. LedgerIsHeld'
    <3>1. \A t \in TokenIds : HeldOf(balances, t)' = HeldOf(balances', t) /\ TotalOf(tokens, t)' = TotalOf(tokens', t)
      BY Zenon DEF HeldOf, TotalOf, Genesis
    <3> QED
      BY <2>1, <3>1, Zenon DEF LedgerIsHeld
  <2>6. NativeIsLocked'
    BY <1>1, LockStep DEF LedgerInv
  <2> QED
    BY <2>4, <2>5, <2>6 DEF LedgerInv
<1>2. CASE UNCHANGED bridgeVars
  <2>1. /\ UNCHANGED <<balances, tokens, byContract, native_check, bridging_fee, associated_dominator>>
        /\ UNCHANGED <<prices, active, receipts, signed, inbound, announced>>
    BY <1>2 DEF bridgeVars, tokenVars, settings, verifier
  <2>2. BridgeTypeOK'
    BY <2>1 DEF LedgerInv, BridgeTypeOK, TokenTypeOK
  <2>3. LedgerIsHeld'
    BY <2>1, Zenon DEF LedgerInv, LedgerIsHeld, HeldOf, TotalOf, Genesis
  <2>4. NativeIsLocked'
    BY <2>1, LockedNow, LockedNext DEF LedgerInv
  <2> QED
    BY <2>2, <2>3, <2>4 DEF LedgerInv
<1> QED
  BY <1>1, <1>2

(* So it always holds.                                                     *)
LEMMA LedgerAlways == BridgeSpec => []LedgerInv
<1>1. BridgeInit => LedgerInv
  BY StartLedger, StartBridge DEF LedgerInv
<1> QED
  BY <1>1, LedgerStays, PTL DEF BridgeSpec

(* The records are right then.                                             *)
LEMMA LedgerTells ==
    ASSUME BridgeTypeOK, LedgerIsHeld
    PROVE  SupplyIsHeld
<1>1. ASSUME NEW t \in DOMAIN tokens PROVE Held(t) = tokens[t].total
  <2>1. t \in TokenIds /\ t # Native
    BY TokenIdsType DEF BridgeTypeOK
  <2> QED
    BY <2>1 DEF LedgerIsHeld, Held, TotalOf
<1>2. Held(Native) + Len(tokens) * BurnTAOwhenIssue = Genesis
  <2>1. Native \in TokenIds /\ Len(tokens) \in Nat
    BY TokenIdsType DEF BridgeTypeOK
  <2>2. Held(Native) = Genesis - Len(tokens) * BurnTAOwhenIssue
    BY <2>1 DEF LedgerIsHeld, Held, TotalOf
  <2>3. Len(tokens) * BurnTAOwhenIssue \in Nat
    BY <2>1, TokenAssumption, ProductNat
  <2> DEFINE p == Len(tokens) * BurnTAOwhenIssue
  <2> HIDE DEF p
  <2>4. Held(Native) = Genesis - p /\ p \in Nat
    BY <2>2, <2>3 DEF p
  <2>5. Held(Native) + p = Genesis
    BY <2>4, GenesisType
  <2> QED
    BY <2>5 DEF p
<1> QED
  BY <1>1, <1>2 DEF SupplyIsHeld, Genesis

(* Balances, records, receipts and deposits always have their types; the   *)
(* balances stay below their width because they add up to the totals of    *)
(* the records.                                                            *)
THEOREM BridgeTypes == BridgeSpec => []BridgeTypeOK
<1>1. LedgerInv => BridgeTypeOK
  BY DEF LedgerInv
<1> QED
  BY <1>1, LedgerAlways, PTL

(* Whatever fees, limits, dominators and associations there are, the       *)
(* bridge account can unlock every native token that was announced to      *)
(* another chain and has not come back.                                    *)
THEOREM NativeStaysLocked == BridgeSpec => []NativeIsLocked
<1>1. LedgerInv => NativeIsLocked
  BY DEF LedgerInv
<1> QED
  BY <1>1, LedgerAlways, PTL

(* The supply in the record of a token is what accounts have of it, and    *)
(* native tokens are burned by issuing tokens only.                        *)
THEOREM SupplyStaysHeld == BridgeSpec => []SupplyIsHeld
<1>1. LedgerInv => SupplyIsHeld
  BY LedgerTells DEF LedgerInv
<1> QED
  BY <1>1, LedgerAlways, PTL

(* The inductive invariant, for the cover. *)
CoverInv == LedgerInv /\ ContractsAssociated /\ AnnouncedIsIssued /\ SupplyIsBacked

(* It is inductive if a contract is associated with one token only.        *)
LEMMA CoverStays ==
    ASSUME AssociatedOnce, CoverInv, [BridgeNext]_bridgeVars
    PROVE  CoverInv'
<1>1. LedgerInv'
  BY LedgerStays DEF CoverInv
<1>2. CASE BridgeNext
  <2>1. BridgeTypeOK /\ ContractsAssociated /\ AnnouncedIsIssued /\ SupplyIsBacked
    BY DEF CoverInv, LedgerInv
  <2>2. ContractsAssociated'
    BY <1>2, <2>1, ContractsKept
  <2>3. AnnouncedIsIssued'
    BY <1>2, <2>1, IssuedStep
  <2>4. SupplyIsBacked'
    BY <1>2, <2>1, BackedStep
  <2> QED
    BY <1>1, <2>2, <2>3, <2>4 DEF CoverInv
<1>3. CASE UNCHANGED bridgeVars
  <2>1. UNCHANGED <<tokens, byContract, inbound, announced>>
    BY <1>3 DEF bridgeVars, tokenVars
  <2>2. ContractsAssociated' /\ AnnouncedIsIssued'
    BY <2>1, Zenon DEF CoverInv, ContractsAssociated, AnnouncedIsIssued, AssetOf, is_native_resource, Resources
  <2>3. SupplyIsBacked'
    BY <2>1, BackedNow, BackedNext DEF CoverInv
  <2> QED
    BY <1>1, <2>2, <2>3 DEF CoverInv
<1> QED
  BY <1>2, <1>3

(* If the admin never associates a contract with a second token, all       *)
(* deposits of it stay with the token they were minted for, and every      *)
(* supply is covered by them exactly, through all conversions, fees and    *)
(* failures.                                                               *)
THEOREM StaysSolvent == AssociatedOnce => (BridgeSpec => []BridgeIsSolvent)
<1> SUFFICES ASSUME AssociatedOnce PROVE BridgeSpec => []BridgeIsSolvent
  OBVIOUS
<1>1. BridgeInit => CoverInv
  BY StartLedger, StartBridge DEF CoverInv, LedgerInv
<1>2. CoverInv /\ [BridgeNext]_bridgeVars => CoverInv'
  BY CoverStays
<1>3. CoverInv => BridgeIsSolvent
  BY LedgerTells DEF CoverInv, LedgerInv, BridgeIsSolvent
<1> QED
  BY <1>1, <1>2, <1>3, PTL DEF BridgeSpec

-----------------------------------------------------------------------------
(* What a step may do. *)

(* A step that announces an issued token is a burn.                        *)
LEMMA BurnsWhatIsAnnounced ==
    ASSUME BridgeTypeOK, BridgeNext, NEW t \in DOMAIN tokens, NEW r \in Resources,
           AssetOf(r) = t, announced'[r] # announced[r], ~is_native_resource(r)
    PROVE  LET charged == balances'[t][Treasury].free - balances[t][Treasury].free
               unit == External(t, 1)
           IN  /\ Standard(tokens[t].total - tokens'[t].total) = External(t, announced'[r] - announced[r])
               /\ \E c \in Chains \ {ThisChain} : LET fee == calculate_bridging_fee(c, t)
                                    IN  fee <= charged /\ Standard(charged - fee) < unit
<1> DEFINE charged == balances'[t][Treasury].free - balances[t][Treasury].free
<1>1. PICK u \in Users, amount \in Amounts, dest \in Chains \ {ThisChain} : do_burn_assets(u, amount, r, dest)
  BY AnnouncedChanges
<1>2. /\ \E ext, back \in Nat :
            /\ announced' = [announced EXCEPT ![r] = announced[r] + ext]
            /\ back <= tokens[t].total
            /\ tokens' = [tokens EXCEPT ![t].total = tokens[t].total + (-back)]
            /\ Standard(back) = External(t, ext)
      /\ calculate_bridging_fee(dest, t) <= charged
      /\ Standard(charged - calculate_bridging_fee(dest, t)) < External(t, 1)
  BY <1>1, BurnEffect
<1>3. PICK ext \in Nat, back \in Nat :
         /\ announced' = [announced EXCEPT ![r] = announced[r] + ext]
         /\ tokens' = [tokens EXCEPT ![t].total = tokens[t].total + (-back)]
         /\ Standard(back) = External(t, ext)
  BY <1>2
<1>4. announced \in [Resources -> Nat] /\ tokens \in Seq(XToken) /\ tokens[t].total \in Nat
  BY BackedNumbers DEF BridgeTypeOK, TokenTypeOK
<1>5. announced'[r] - announced[r] = ext
  BY <1>3, <1>4
<1>6. tokens[t].total - tokens'[t].total = back
  <2>1. tokens'[t].total = tokens[t].total + (-back)
    <3>1. tokens[t] \in XToken
      BY TokenIdsType DEF BridgeTypeOK
    <3> QED
      BY <1>3, <1>4, <3>1 DEF XToken
  <2> QED
    BY <1>4, <2>1
<1>7. Standard(tokens[t].total - tokens'[t].total) = External(t, announced'[r] - announced[r])
  BY <1>3, <1>5, <1>6
<1> QED
  BY <1>2, <1>7

(* Every transfer out of an issued token burns exactly what it announces,  *)
(* and charges the fee that was quoted and less than one unit of the       *)
(* contract on top.                                                        *)
THEOREM BurnsAreAnnounced == BridgeSpec => BurnedIsAnnounced
<1>1. ASSUME BridgeTypeOK, [BridgeNext]_bridgeVars
      PROVE  [\A t \in DOMAIN tokens, r \in Resources :
                AssetOf(r) = t /\ announced'[r] # announced[r] /\ ~is_native_resource(r) =>
                  LET charged == balances'[t][Treasury].free - balances[t][Treasury].free
                      unit == External(t, 1)
                  IN  /\ Standard(tokens[t].total - tokens'[t].total) = External(t, announced'[r] - announced[r])
                      /\ \E c \in Chains \ {ThisChain} : LET fee == calculate_bridging_fee(c, t)
                                           IN  fee <= charged /\ Standard(charged - fee) < unit]_bridgeVars
  BY <1>1, BurnsWhatIsAnnounced
<1> QED
  BY <1>1, BridgeTypes, PTL DEF BridgeSpec, BurnedIsAnnounced

(* A deposit is executed by its own call, and by nothing else. *)
LEMMA OutcomeStep ==
    ASSUME BridgeTypeOK, BridgeNext
    PROVE  \/ \A k \in Messages : inbound'[k].outcome = inbound[k].outcome
           \/ \E m \in Messages : /\ inbound[m].outcome = "open"
                                  /\ \/ transfer_in(m) /\ inbound'[m].outcome = "executed"
                                     \/ Drop(m) /\ inbound'[m].outcome = "dropped"
                                  /\ \A k \in Messages : k # m => inbound'[k] = inbound[k]
<1>1. RestTypeOK
  BY TypeParts
<1>2. ASSUME NEW m \in Messages, NEW u \in Users, NEW amount \in Amounts, NEW r \in Resources,
             Deposit(m, u, amount, r)
      PROVE  \A k \in Messages : inbound'[k].outcome = inbound[k].outcome
  BY <1>1, <1>2, DepositMade
<1>3. ASSUME NEW m \in Messages, Drop(m)
      PROVE  inbound[m].outcome = "open" /\ inbound'[m].outcome = "dropped"
             /\ \A k \in Messages : k # m => inbound'[k] = inbound[k]
  <2>1. Pending(m) /\ inbound' = WithOutcome(inbound, m, "dropped") /\ "dropped" \in Outcomes
    BY <1>3 DEF Drop, Outcomes, WithOutcome
  <2> QED
    BY <1>1, <2>1, DepositDone
<1>4. ASSUME NEW m \in Messages, transfer_in(m)
      PROVE  inbound[m].outcome = "open" /\ inbound'[m].outcome = "executed"
             /\ \A k \in Messages : k # m => inbound'[k] = inbound[k]
  <2>1. Pending(m) /\ inbound' = WithOutcome(inbound, m, "executed") /\ "executed" \in Outcomes
    BY <1>4, Zenon DEF transfer_in, ArrivesAs, Outcomes, WithOutcome
  <2> QED
    BY <1>1, <2>1, DepositDone
<1>5. UNCHANGED inbound => \A k \in Messages : inbound'[k].outcome = inbound[k].outcome
  OBVIOUS
<1>6. /\ \A u \in Users, d \in Decimals : Issue(u, d) => UNCHANGED inbound
      /\ \A u \in Users : \A amount \in Amounts, t \in TokenIds, target \in Accounts \ {u} :
            Transfer(u, t, amount, target) => UNCHANGED inbound
      /\ \A u \in Users, t \in TokenIds : GiveBack(u, t) => UNCHANGED inbound
      /\ UNCHANGED <<tokenVars, inbound, announced>> => UNCHANGED inbound
  BY DEF Issue, Transfer, GiveBack
<1>7. \A u \in Users, amount \in Amounts, r \in Resources, dest \in Chains \ {ThisChain} :
         /\ do_lock(u, amount, r, dest) => UNCHANGED inbound
         /\ do_burn_assets(u, amount, r, dest) => UNCHANGED inbound
  <2>1. ASSUME NEW u \in Users, NEW amount \in Amounts, NEW r \in Resources, NEW dest \in Chains,
               do_lock(u, amount, r, dest)
        PROVE  UNCHANGED inbound
    BY <2>1 DEF do_lock
  <2>2. ASSUME NEW u \in Users, NEW amount \in Amounts, NEW r \in Resources, NEW dest \in Chains,
               do_burn_assets(u, amount, r, dest)
        PROVE  UNCHANGED inbound
    BY <2>2 DEF do_burn_assets
  <2> QED
    BY <2>1, <2>2
<1> QED
  BY <1>2, <1>3, <1>4, <1>5, <1>6, <1>7, StepCases

(* A deposit that is executed reaches its dominator, or its account.       *)
LEMMA ArrivesReserved ==
    ASSUME BridgeTypeOK, BridgeNext, NEW m \in Messages,
           inbound'[m].outcome = "executed", inbound[m].outcome = "open"
    PROVE  LET u == inbound[m].to
               t == TokenOf(inbound[m].r_id)
               d == DominatorOf(m)
               gained == to_asset_balance(inbound[m].amount, t)
           IN  IF d \in active /\ receipts[u][d] = NoReceipt
               THEN /\ receipts'[u][d] = <<t, gained>>
                    /\ balances'[t][u].reserved = balances[t][u].reserved + gained
               ELSE receipts' = receipts /\ balances'[t][u].free >= balances[t][u].free + gained
<1> DEFINE u == inbound[m].to
           t == TokenOf(inbound[m].r_id)
           d == DominatorOf(m)
           gained == to_asset_balance(inbound[m].amount, t)
<1>1. transfer_in(m)
  <2>1. inbound'[m].outcome # inbound[m].outcome /\ inbound'[m].outcome # "dropped"
    OBVIOUS
  <2> QED
    BY <2>1, OutcomeStep
<1>2. u \in Users
  BY <1>1, PendingType DEF transfer_in, ArrivesAs, Pending
<1>3. IF d \in active /\ receipts[u][d] = NoReceipt
      THEN /\ receipts' = [receipts EXCEPT ![u][d] = <<t, gained>>]
           /\ d \in Dominators
           /\ balances'[t][u].reserved = balances[t][u].reserved + gained
      ELSE /\ receipts' = receipts
           /\ balances'[t][u].free >= balances[t][u].free + gained
  BY <1>1, ArriveEffect
<1>4. receipts \in [Users -> [Dominators -> ReceiptType \cup {NoReceipt}]]
  BY DEF BridgeTypeOK
<1> HIDE DEF u, t, d, gained
<1>5. ASSUME receipts' = [receipts EXCEPT ![u][d] = <<t, gained>>], d \in Dominators
      PROVE  receipts'[u][d] = <<t, gained>>
  BY <1>2, <1>4, <1>5
<1> QED
  BY <1>3, <1>5 DEF u, t, d, gained

(* Every deposit that arrives for an active dominator is reserved for it   *)
(* in the same step, unless a receipt of the account is pending there.     *)
THEOREM ArrivalsAreReserved == BridgeSpec => ArrivesAtDominator
<1>1. ASSUME BridgeTypeOK, [BridgeNext]_bridgeVars
      PROVE  [\A m \in Messages : inbound'[m].outcome = "executed" /\ inbound[m].outcome = "open" =>
                LET u == inbound[m].to
                    t == TokenOf(inbound[m].r_id)
                    d == DominatorOf(m)
                    gained == to_asset_balance(inbound[m].amount, t)
                IN  IF d \in active /\ receipts[u][d] = NoReceipt
                    THEN /\ receipts'[u][d] = <<t, gained>>
                         /\ balances'[t][u].reserved = balances[t][u].reserved + gained
                    ELSE receipts' = receipts
                         /\ balances'[t][u].free >= balances[t][u].free + gained]_bridgeVars
  BY <1>1, ArrivesReserved
<1> QED
  BY <1>1, BridgeTypes, PTL DEF BridgeSpec, ArrivesAtDominator
=============================================================================
