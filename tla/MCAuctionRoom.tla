--------------------------- MODULE MCAuctionRoom ---------------------------
(***************************************************************************)
(* RoomSales on a small auction: two teams of two slots, one of which      *)
(* takes only running backs, and a budget of three dollars, so that slots, *)
(* position maximums, money and players all run out within a few sales.    *)
(***************************************************************************)
EXTENDS RoomSales, TLC

CONSTANTS t1, t2, a, b, c, d, back, flex

MCTeams == {t1, t2}
MCPlayers == {a, b, c, d}
MCPositionOf == [p \in MCPlayers |-> IF p = d THEN "WR" ELSE "RB"]
MCRosterSlots == {back, flex}
MCEligible == [s \in MCRosterSlots |-> IF s = back THEN {"RB"} ELSE {"RB", "WR"}]
MCRosterMaximum == [p \in {"RB", "WR"} |-> 2]
MCDraftOrder == <<t1, t2>>

Keeper(team, player, price) == [team |-> team, player |-> player, price |-> price, round |-> 1]

\* One setup has kept the same player twice: the room refuses it.
MCRosterInputs ==
    {<<Keeper(t1, a, 1), Keeper(t2, d, 1)>>,
     <<Keeper(t1, a, 2)>>,
     <<Keeper(t1, a, 1), Keeper(t2, a, 1)>>}

\* b and c are alike.
MCSymmetry == Permutations({b, c})

MCSaleInputs == [team : MCTeams, player : MCPlayers, price : 0..3]
=============================================================================
