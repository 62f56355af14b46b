---------------------------- MODULE MCSnakeRoom ----------------------------
(***************************************************************************)
(* LiveDraftRoom on a small snake draft: two teams of two draftable slots  *)
(* and an IR slot, and three rounds, so the second round runs backwards    *)
(* and the third has no slot.  With and without a keeper that occupies a   *)
(* pick; the keeper of the third round leaves t2 without a slot when its   *)
(* second turn comes.                                                      *)
(***************************************************************************)
EXTENDS LiveDraftRoom

CONSTANTS t1, t2, a, b, c, d, back, flex

MCTeams == {t1, t2}
MCPlayers == {a, b, c, d}
MCPositionOf == [p \in MCPlayers |-> IF p = d THEN "WR" ELSE "RB"]
MCRosterSlots == {back, flex}
MCEligible == [s \in MCRosterSlots |-> IF s = back THEN {"RB"} ELSE {"RB", "WR"}]
MCRosterMaximum == [p \in {"RB", "WR"} |-> 2]
MCDraftOrder == <<t1, t2>>

Keeper(team, player, round) == [team |-> team, player |-> player, price |-> 0, round |-> round]

MCRosterInputs ==
    {<< >>, <<Keeper(t2, a, 2)>>, <<Keeper(t2, a, 3)>>, <<Keeper(t1, a, 1), Keeper(t2, a, 1)>>}

MCSaleInputs == [team : MCTeams, player : MCPlayers, price : {0}]
=============================================================================
