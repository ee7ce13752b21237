------------------------------ MODULE Auction ------------------------------
(***************************************************************************)
(* The sealed-bid auction that allocates a task (economics/auction.py and  *)
(* economics/utility.py).  Each agent profile bids its utility.            *)
(*                                                                         *)
(* Floats are integers here: expertise, complexity and cost in tenths, a   *)
(* bid in thousandths.  An agent id is a number, in alphabetical order.    *)
(***************************************************************************)
EXTENDS Integers, Sequences, FiniteSets

CONSTANTS
    AuctionTasks,     \* [complexity, required_capability]
    Profiles,         \* [agent_id, capabilities, expertise_score, cost_per_unit]
    MaxProfiles       \* bound on the profiles of an auction

ASSUME AuctionAssumption ==
    /\ MaxProfiles \in Nat
    /\ \A t \in AuctionTasks : t.complexity \in 0..10
    /\ \A p \in Profiles : /\ p.agent_id \in Nat
                           /\ p.expertise_score \in 0..10 /\ p.cost_per_unit \in Nat

VARIABLES
    opportunity,  \* task, profiles and whether the vector probe found something
    allocation    \* the BidResult: a bid for each agent, and the winner

auctionVars == <<opportunity, allocation>>

-----------------------------------------------------------------------------
\* utility: match * expertise - 0.2 * complexity - 0.1 * cost, times 1.2 for an agent
\* with knowledge_retrieval when the probe found something, clamped to [0, 1].
score(t, p, boost) ==
    LET match == IF t.required_capability \in p.capabilities THEN 10 ELSE 3
        raw == (match * p.expertise_score - 2 * t.complexity - p.cost_per_unit)
                  * (IF boost /\ "knowledge_retrieval" \in p.capabilities THEN 12 ELSE 10)
    IN IF raw < 0 THEN 0 ELSE IF raw > 1000 THEN 1000 ELSE raw

\* The dict of bids: of two profiles with one id the later one counts.
bidsOf(t, ps, boost) ==
    [id \in {ps[i].agent_id : i \in DOMAIN ps} |->
        LET i == CHOOSE i \in DOMAIN ps :
                    /\ ps[i].agent_id = id
                    /\ \A j \in DOMAIN ps : ps[j].agent_id = id => j <= i
        IN score(t, ps[i], boost)]

\* (mutant) Sorted by bid and id, both in reverse.
WinnerReversed(bids) ==
    CHOOSE id \in DOMAIN bids :
        \A other \in DOMAIN bids \ {id} :
            bids[other] < bids[id] \/ (bids[other] = bids[id] /\ other < id)

\* Sorted by descending bid, then by id.
winnerOf(bids) ==
    CHOOSE id \in DOMAIN bids :
        \A other \in DOMAIN bids \ {id} :
            bids[other] < bids[id] \/ (bids[other] = bids[id] /\ id < other)

run_auction(t, ps, boost) ==
    /\ opportunity' = [task |-> t, profiles |-> ps, boost |-> boost]
    /\ LET bids == bidsOf(t, ps, boost) IN
         allocation' = [bids |-> bids, winner |-> winnerOf(bids)]

AuctionInit ==
    /\ opportunity = [profiles |-> <<>>]
    /\ allocation = [winner |-> 0]

\* One auction: nothing is kept between two.  Without any profile it raises ValueError.
AuctionNext ==
    /\ opportunity.profiles = <<>>
    /\ \E n \in 1..MaxProfiles : \E ps \in [1..n -> Profiles], t \in AuctionTasks, boost \in BOOLEAN :
          run_auction(t, ps, boost)

AuctionSpec == AuctionInit /\ [][AuctionNext]_auctionVars

-----------------------------------------------------------------------------
\* The task goes to an agent nobody outbids, the alphabetically first of them, at its
\* own bid; the order in which profiles are listed does not matter when their ids
\* differ, nor does a boost cost anybody anything, although it multiplies scores that
\* may be negative (utility.py:68, auction.py:128).
WinnerIsBest ==
    LET ps == opportunity.profiles IN ps # <<>> =>
        LET t == opportunity.task
            ids == {ps[i].agent_id : i \in DOMAIN ps}
            bids == allocation.bids
            turned == [i \in DOMAIN ps |-> ps[Len(ps) + 1 - i]]
        IN /\ allocation.winner \in ids /\ DOMAIN bids = ids
           /\ \A id \in ids :
                 /\ bids[id] \in 0..1000
                 /\ bids[id] <= bids[allocation.winner]
                 /\ bids[id] = bids[allocation.winner] => allocation.winner <= id
           /\ Cardinality(ids) = Len(ps) =>
                 winnerOf(bidsOf(t, turned, opportunity.boost)) = allocation.winner
           /\ \A i \in DOMAIN ps : score(t, ps[i], FALSE) <= score(t, ps[i], TRUE)

=============================================================================
