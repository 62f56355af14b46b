----------------------------- MODULE DraftBoard -----------------------------
(***************************************************************************)
(* The rules of a draft board: what a team's roster is, given the room's   *)
(* initial rosters (keepers) and its active sales, and which sale or which *)
(* list of initial rosters the board accepts.  Pure operators, shared by   *)
(* every module that holds a draft room.                                   *)
(*                                                                         *)
(* An active sale is [source |-> id of the event that recorded it,         *)
(* sale |-> [team, player, price]]; the k-th element of a sequence of      *)
(* active sales is the sale holding sequence index k, or NoSale.           *)
(* A keeper is [team, player, price, round].                               *)
(***************************************************************************)
EXTENDS Integers, Sequences, FiniteSets, FiniteSetsExt

CONSTANTS
    Teams,          \* season.teams
    Players,        \* the player catalogue, by canonical identity
    PositionOf,     \* player -> position
    RosterSlots,    \* the draftable slots of the lineup
    RosterSize,     \* season.settings.roster.rosterSize: every slot, IR and RESERVE included
    Eligible,       \* roster slot -> set of positions it accepts
    RosterMaximum,  \* position -> configured roster maximum
    Snake,          \* draftFormat = "snake"; otherwise an auction
    DraftOrder,     \* teams by draftOrderPosition (snake)
    Rounds,         \* season.settings.snake.rounds
    Budget,         \* season.settings.auction.budgetDollars
    MinBid,         \* season.settings.auction.minimumBidDollars
    NoSale          \* an open sequence index

Positions == {PositionOf[p] : p \in Players}

\* What assertSeasonReady has established before a room exists: a roster size
\* that is the sum of the lineup's slots, draftable or not, whole-dollar amounts,
\* a budget that reserves the minimum bid for all of them, no more rounds than
\* all of them, a snake order naming every team once, and roster maximums that
\* are counts (validateRoster).  The rounds may be more than the draftable slots.
ASSUME SeasonReady ==
    /\ IsFiniteSet(RosterSlots)
    /\ RosterSize \in Nat /\ Cardinality(RosterSlots) <= RosterSize
    /\ Snake \in BOOLEAN
    /\ Rounds \in Nat /\ Rounds <= RosterSize
    /\ Budget \in Nat /\ MinBid \in Nat \ {0}
    /\ Budget >= MinBid * RosterSize
    /\ \A position \in Positions : RosterMaximum[position] \in Nat
    /\ DraftOrder \in Seq(Teams)
    /\ \A t \in Teams : \E i \in DOMAIN DraftOrder : DraftOrder[i] = t
    /\ \A i, j \in DOMAIN DraftOrder : DraftOrder[i] = DraftOrder[j] => i = j

AtLeastZero(n) == IF n < 0 THEN 0 ELSE n

-----------------------------------------------------------------------------
(* Rosters.  Every member keeps where it came from, so that the same       *)
(* player bought twice is two members, as in the array of the code.        *)

KeepersOf(keepers, team) ==
    {[from |-> <<"keeper", i>>, player |-> keepers[i].player, price |-> keepers[i].price] :
        i \in {j \in DOMAIN keepers : keepers[j].team = team}}

ActiveIndices(active) == {k \in DOMAIN active : active[k] # NoSale}

SalesOf(active, team) ==
    {[from |-> <<"sale", k>>, player |-> active[k].sale.player, price |-> active[k].sale.price] :
        k \in {j \in ActiveIndices(active) : active[j].sale.team = team}}

Roster(keepers, active, team) == KeepersOf(keepers, team) \cup SalesOf(active, team)

Spent(roster) == MapThenSumSet(LAMBDA member : member.price, roster)

BudgetRemaining(roster) == Budget - Spent(roster)

RosterSlotsRemaining(roster) ==
    AtLeastZero(Cardinality(RosterSlots) - Cardinality(roster))

\* Mutant of MaxBid: nothing is reserved for the other open slots.
MaxBidWithoutReserve(budgetRemaining, slotsRemaining) ==
    IF slotsRemaining <= 0 THEN 0 ELSE AtLeastZero(budgetRemaining)

MaxBid(budgetRemaining, slotsRemaining) ==
    IF slotsRemaining <= 0 THEN 0
    ELSE AtLeastZero(budgetRemaining - AtLeastZero(slotsRemaining - 1) * MinBid)

PositionCount(roster, position) ==
    Cardinality({member \in roster : PositionOf[member.player] = position})

\* The configured maximum never exceeds the number of slots that accept the position.
PositionMaximum(position) ==
    LET derived == Cardinality({s \in RosterSlots : position \in Eligible[s]})
    IN  IF RosterMaximum[position] < derived THEN RosterMaximum[position] ELSE derived

\* rosterSlotsFor assigns by augmenting paths, so a roster fits exactly when
\* its members can be given distinct slots that accept their positions.
FitsDraftSlots(roster) ==
    \E slotOf \in Injection(roster, RosterSlots) :
        \A member \in roster : PositionOf[member.player] \in Eligible[slotOf[member]]

\* What validateSale and validateInitialRosters both ask of one team.
RosterAccepts(roster, player, price) ==
    /\ RosterSlotsRemaining(roster) > 0
    /\ ~Snake => price <= MaxBid(BudgetRemaining(roster), RosterSlotsRemaining(roster))
    /\ PositionCount(roster, PositionOf[player]) < PositionMaximum(PositionOf[player])
    /\ FitsDraftSlots(roster \cup {[from |-> <<"offered">>, player |-> player, price |-> price]})

-----------------------------------------------------------------------------
(* Snake order.                                                            *)

TeamCount == Len(DraftOrder)

RoundOf(pick) == ((pick - 1) \div TeamCount) + 1

TeamOfPick(pick) ==
    LET place == ((pick - 1) % TeamCount) + 1
    IN  IF RoundOf(pick) % 2 = 1 THEN DraftOrder[place] ELSE DraftOrder[TeamCount + 1 - place]

\* Mutant of KeeperPick: rounds counted from zero.
KeeperPickFromRoundZero(keepers, pick) ==
    \E i \in DOMAIN keepers :
        keepers[i].team = TeamOfPick(pick) /\ keepers[i].round = RoundOf(pick) - 1

KeeperPick(keepers, pick) ==
    \E i \in DOMAIN keepers :
        keepers[i].team = TeamOfPick(pick) /\ keepers[i].round = RoundOf(pick)

\* The picks no keeper has taken, in draft order: sales fill them by sequence index.
OpenPicks(keepers) ==
    LET open[pick \in 0..(Rounds * TeamCount)] ==
            IF pick = 0 THEN << >>
            ELSE IF KeeperPick(keepers, pick) THEN open[pick - 1]
            ELSE Append(open[pick - 1], pick)
    IN  open[Rounds * TeamCount]

\* Mutant of FreeIndices: the next pick is found by counting the sales.
FreeIndicesByCount(keepers, active) ==
    {k \in DOMAIN OpenPicks(keepers) : k > Cardinality(ActiveIndices(active))}

FreeIndices(keepers, active) ==
    {k \in DOMAIN OpenPicks(keepers) : k \notin ActiveIndices(active)}

DraftComplete(keepers, active) == FreeIndices(keepers, active) = {}

TeamOnTheClock(keepers, active) ==
    TeamOfPick(OpenPicks(keepers)[Min(FreeIndices(keepers, active))])

SnakeTurn(keepers, active, team) ==
    /\ ~DraftComplete(keepers, active)
    /\ TeamOnTheClock(keepers, active) = team

-----------------------------------------------------------------------------
(* Acceptance of sales and of initial rosters.                             *)

\* Mutant of Rostered: keepers are forgotten.
RosteredBySale(keepers, active, player) ==
    \E team \in Teams : \E member \in SalesOf(active, team) : member.player = player

Rostered(keepers, active, player) ==
    \E team \in Teams : \E member \in Roster(keepers, active, team) : member.player = player

\* buildSale: an auction price is a positive whole dollar amount.
PositivePrice(price) == Snake \/ price >= 1

ValidSale(keepers, active, sale) ==
    /\ Snake => SnakeTurn(keepers, active, sale.team)
    /\ ~Rostered(keepers, active, sale.player)
    /\ RosterAccepts(Roster(keepers, active, sale.team), sale.player, sale.price)

\* The list is checked keeper by keeper, each against the keepers before it.
ValidInitialRosters(keepers) ==
    \A i \in DOMAIN keepers :
        LET before == SubSeq(keepers, 1, i - 1)
        IN  /\ keepers[i].team \in Teams
            /\ PositivePrice(keepers[i].price)
            /\ ~Rostered(before, << >>, keepers[i].player)
            /\ RosterAccepts(Roster(before, << >>, keepers[i].team),
                             keepers[i].player, keepers[i].price)

AnyOpenRosterSlot(keepers, active) ==
    \E team \in Teams : RosterSlotsRemaining(Roster(keepers, active, team)) > 0
=============================================================================
