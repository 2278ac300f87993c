---------------------------- MODULE Chainbridge ----------------------------
(***************************************************************************)
(* Voting on bridge proposals (pallets/chainbridge).                       *)
(*                                                                         *)
(* A deposit on another chain reaches this one as a call that relayers     *)
(* propose and vote on.  The vote that meets the threshold dispatches the  *)
(* call in the same extrinsic; enough votes against cancel it; a proposal  *)
(* that is neither within its lifetime is dead.  The admin may change the  *)
(* relayers, the threshold and the registered resources at any time, and   *)
(* anybody may ask for a proposal to be evaluated again.                   *)
(*                                                                         *)
(* An extrinsic that fails changes nothing.  That includes the vote whose  *)
(* call fails when it is dispatched, so whether a call would fail is not   *)
(* modelled: the step is then not taken.                                   *)
(***************************************************************************)
EXTENDS Integers, Sequences, FiniteSets

CONSTANTS
    Candidates,        \* the accounts that may become relayers
    ChainIds,          \* chain ids
    OwnChain,          \* ChainId of the pallet's configuration
    ResourceIds,       \* resource ids that name a token, or the native one
    Proposals,         \* triples <<source chain, deposit nonce, call>>
    ResourceOf,        \* the resource the call of a proposal transfers
    ProposalLifetime,  \* blocks from the first vote to the expiry
    MaxThreshold,      \* the largest threshold (a bound)
    MaxNonce,          \* the deposits to one chain at most (a bound)
    MaxBlock           \* the last block (a bound)

ASSUME CandidatesAssumption == IsFiniteSet(Candidates)
ASSUME ChainAssumption ==
    /\ \A p \in Proposals : p[1] \in ChainIds
    /\ ResourceOf \in [Proposals -> ResourceIds]
ASSUME BoundAssumption ==
    /\ ProposalLifetime \in Nat \ {0} /\ MaxThreshold \in Nat \ {0}
    /\ MaxNonce \in Nat /\ MaxBlock \in Nat

VARIABLES
    now,        \* the current block
    relayers,   \* the keys of Relayers
    count,      \* RelayerCount
    threshold,  \* RelayerThreshold
    resources,  \* the keys of Resources
    nonces,     \* ChainNonces; Absent for a chain that is not whitelisted
    votes,      \* Votes; NoVotes for a proposal nobody has voted on
    dispatched  \* how often the call of a proposal has been dispatched

vars == <<now, relayers, count, threshold, resources, nonces, votes, dispatched>>
ballots == <<votes, dispatched>>

Absent == -1
NoVotes == [votes_for |-> <<>>, votes_against |-> <<>>, status |-> "None", expiry |-> 0]
ProposalVotes ==
    [votes_for : Seq(Candidates), votes_against : Seq(Candidates),
     status : {"None", "Initiated", "Approved", "Rejected"}, expiry : Nat]

TypeOK ==
    /\ now \in 0..MaxBlock
    /\ relayers \subseteq Candidates
    /\ count \in Nat
    /\ threshold \in Nat \ {0}
    /\ resources \subseteq ResourceIds
    /\ nonces \in [ChainIds -> Nat \cup {Absent}]
    /\ votes \in [Proposals -> ProposalVotes]
    /\ dispatched \in [Proposals -> Nat]

Init ==
    /\ now = 0
    /\ relayers = {}
    /\ count = 0
    /\ threshold = 1
    /\ resources = {}
    /\ nonces = [c \in ChainIds |-> Absent]
    /\ votes = [p \in Proposals |-> NoVotes]
    /\ dispatched = [p \in Proposals |-> 0]

chain_whitelisted(c) == nonces[c] # Absent
is_relayer(who) == who \in relayers
resource_exists(r) == r \in resources
Members(votes_list) == {votes_list[i] : i \in DOMAIN votes_list}

-----------------------------------------------------------------------------
(* What the admin calls. *)

set_threshold(n) ==
    /\ n > 0
    /\ threshold' = n
    /\ UNCHANGED <<now, relayers, count, resources, nonces, ballots>>

set_resource(r) ==
    /\ resources' = resources \cup {r}
    /\ UNCHANGED <<now, relayers, count, threshold, nonces, ballots>>

remove_resource(r) ==
    /\ resources' = resources \ {r}
    /\ UNCHANGED <<now, relayers, count, threshold, nonces, ballots>>

whitelist_chain(c) ==
    /\ c # OwnChain
    /\ ~chain_whitelisted(c)
    /\ nonces' = [nonces EXCEPT ![c] = 0]
    /\ UNCHANGED <<now, relayers, count, threshold, resources, ballots>>

add_relayer(who) ==
    /\ ~is_relayer(who)
    /\ relayers' = relayers \cup {who}
    /\ count' = count + 1
    /\ UNCHANGED <<now, threshold, resources, nonces, ballots>>

remove_relayer(who) ==
    /\ is_relayer(who)
    /\ relayers' = relayers \ {who}
    /\ count' = count - 1
    /\ UNCHANGED <<now, threshold, resources, nonces, ballots>>

-----------------------------------------------------------------------------
(* Votes. *)

is_complete(v) == v.status # "Initiated"
is_expired_late(v) == v.expiry < now \* mutant: one block later
is_expired(v) == v.expiry <= now
never_voted(v, who) == FALSE \* mutant of has_voted
has_voted(v, who) == who \in Members(v.votes_for) \/ who \in Members(v.votes_against)

(* Mutant: as many votes against as could still be spared. *)
try_to_complete_early(v) ==
    CASE threshold <= Len(v.votes_for) -> "Approved"
      [] threshold <= count /\ count <= Len(v.votes_against) + threshold -> "Rejected"
      [] OTHER -> "Initiated"

try_to_complete(v) ==
    CASE threshold <= Len(v.votes_for) -> "Approved"
      [] /\ threshold > Len(v.votes_for)
         /\ threshold <= count
         /\ count < Len(v.votes_against) + threshold -> "Rejected"
      [] OTHER -> "Initiated"

(* The proposal a vote is added to: a new one if there is none yet. *)
Ballot(p) ==
    IF votes[p] = NoVotes
    THEN [NoVotes EXCEPT !.status = "Initiated", !.expiry = now + ProposalLifetime]
    ELSE votes[p]

commit_vote(v, who, in_favour) ==
    IF in_favour THEN [v EXCEPT !.votes_for = Append(@, who)]
                 ELSE [v EXCEPT !.votes_against = Append(@, who)]

(* Mutant: the status is not written back. *)
try_resolve_proposal_unsaved(p, v) ==
    /\ ~is_complete(v) /\ ~is_expired(v)
    /\ votes' = [votes EXCEPT ![p] = v]
    /\ dispatched' = [dispatched EXCEPT ![p] =
           IF try_to_complete(v) = "Approved" THEN @ + 1 ELSE @]

(* The status is stored before the call is dispatched, once. *)
try_resolve_proposal(p, v) ==
    /\ ~is_complete(v) /\ ~is_expired(v)
    /\ votes' = [votes EXCEPT ![p] = [v EXCEPT !.status = try_to_complete(v)]]
    /\ dispatched' = [dispatched EXCEPT ![p] =
           IF try_to_complete(v) = "Approved" THEN @ + 1 ELSE @]

(* acknowledge_proposal and reject_proposal: the resource the relayer      *)
(* names is looked up, and not compared with the one the call transfers.   *)
Vote(who, p, r, in_favour) ==
    LET v == Ballot(p)
    IN  /\ is_relayer(who)
        /\ chain_whitelisted(p[1])
        /\ resource_exists(r)
        /\ ~is_complete(v) /\ ~is_expired(v) /\ ~has_voted(v, who)
        /\ try_resolve_proposal(p, commit_vote(v, who, in_favour))
        /\ UNCHANGED <<now, relayers, count, threshold, resources, nonces>>

acknowledge_proposal(who, p, r) == Vote(who, p, r, TRUE)
reject_proposal(who, p, r) == Vote(who, p, r, FALSE)

(* Anybody may call this one. *)
eval_vote_state(p) ==
    /\ votes[p] # NoVotes
    /\ try_resolve_proposal(p, votes[p])
    /\ UNCHANGED <<now, relayers, count, threshold, resources, nonces>>

-----------------------------------------------------------------------------
(* A transfer out of this chain, fungible or not, takes the next nonce. *)
transfer_fungible(dest) ==
    /\ chain_whitelisted(dest)
    /\ nonces[dest] < MaxNonce
    /\ nonces' = [nonces EXCEPT ![dest] = @ + 1]
    /\ UNCHANGED <<now, relayers, count, threshold, resources, ballots>>

NewBlock ==
    /\ now < MaxBlock
    /\ now' = now + 1
    /\ UNCHANGED <<relayers, count, threshold, resources, nonces, ballots>>

Admin ==
    \/ \E n \in 0..MaxThreshold : set_threshold(n)
    \/ \E r \in ResourceIds : set_resource(r) \/ remove_resource(r)
    \/ \E c \in ChainIds : whitelist_chain(c)
    \/ \E who \in Candidates : add_relayer(who) \/ remove_relayer(who)

Next ==
    \/ Admin
    \/ \E p \in Proposals :
          \/ \E who \in Candidates, r \in ResourceIds :
                acknowledge_proposal(who, p, r) \/ reject_proposal(who, p, r)
          \/ eval_vote_state(p)
    \/ \E c \in ChainIds : transfer_fungible(c)
    \/ NewBlock

Spec == Init /\ [][Next]_vars

(* Blocks keep being produced; nobody has to vote. *)
FairSpec == Spec /\ WF_vars(NewBlock)

-----------------------------------------------------------------------------
(* Properties. *)

(* RelayerCount, which decides how many votes against are enough, is the   *)
(* number of relayers however often they are added and removed.            *)
RelayerCountIsExact == count = Cardinality(relayers)

(* A call is dispatched once if its proposal is approved and never         *)
(* otherwise, whatever votes and evaluations follow.                       *)
DispatchedOnceIfApproved ==
    \A p \in Proposals : dispatched[p] = IF votes[p].status = "Approved" THEN 1 ELSE 0

(* When a call is dispatched, at least threshold different accounts are in *)
(* favour and none of them is also counted against: votes of different     *)
(* blocks, under different thresholds and relayer sets, add up to that.    *)
DispatchNeedsQuorum ==
    [][\A p \in Proposals : dispatched'[p] # dispatched[p] =>
          LET in_favour == Members(votes'[p].votes_for)
          IN  /\ Cardinality(in_favour) >= threshold
              /\ in_favour \cap Members(votes'[p].votes_against) = {}]_vars

(* The votes for a proposal that there can be at most: those that have     *)
(* been cast, by relayers or by accounts that were, and those of the       *)
(* relayers who have not voted.                                            *)
Undecided(v) == relayers \ (Members(v.votes_for) \cup Members(v.votes_against))
MostVotesFor(v) == Cardinality(Members(v.votes_for)) + Cardinality(Undecided(v))

(* Accounts that have voted and are not relayers any more: their votes     *)
(* still count, while RelayerCount does not count them.                    *)
RemovedVoters(v) == (Members(v.votes_for) \cup Members(v.votes_against)) \ relayers

(* A vote or an evaluation cancels a proposal only if it can no longer     *)
(* meet the threshold, but for one vote by each removed voter; and no vote *)
(* leaves a proposal open that can no longer meet the threshold, unless    *)
(* there are fewer relayers than that.                                     *)
CancelledWhenHopeless ==
    [][\A p \in Proposals : votes'[p] # votes[p] =>
          LET v == votes'[p]
          IN  /\ v.status = "Rejected"
                  => MostVotesFor(v) < threshold + Cardinality(RemovedVoters(v))
              /\ v.status = "Initiated"
                  => MostVotesFor(v) >= threshold \/ Cardinality(relayers) < threshold]_vars

(* A proposal that is complete or has expired never changes again: no vote *)
(* is added, no evaluation revives it, the same call cannot be proposed    *)
(* with the same nonce a second time.                                      *)
ClosedIsFinal ==
    [][\A p \in Proposals :
          votes[p] # NoVotes /\ (is_complete(votes[p]) \/ votes[p].expiry <= now)
              => votes'[p] = votes[p] /\ dispatched'[p] = dispatched[p]]_vars

(* What became of a proposal, as those outside see it. *)
Outcome(p) ==
    CASE dispatched[p] > 1 -> "executed again"
      [] dispatched[p] = 1 -> "executed"
      [] dispatched[p] = 0 /\ votes[p] # NoVotes
         /\ (votes[p].status = "Rejected" \/ votes[p].expiry <= now) -> "dropped"
      [] OTHER -> "open"

Deliveries == INSTANCE Delivery WITH
    Messages <- Proposals, outcome <- [p \in Proposals |-> Outcome(p)]

(* Votes, evaluations, retries and changes of the threshold, the relayers  *)
(* and the resources implement Delivery: the call of a proposal is         *)
(* executed once, or the proposal is dropped for good.                     *)
DeliversOnce == Deliveries!Spec

(* Transfers of a resource that has been removed are rejected, as the doc  *)
(* of remove_resource says: no call is dispatched that transfers one.      *)
RemovedResourceRejected ==
    [][\A p \in Proposals : dispatched'[p] # dispatched[p] => ResourceOf[p] \in resources]_vars
=============================================================================
