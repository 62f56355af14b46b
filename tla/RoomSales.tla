------------------------------ MODULE RoomSales ------------------------------
(***************************************************************************)
(* The sales table of a draft room stored in Postgres.  Each committed     *)
(* event of LiveDraftRoom changes the table in the same transaction, and   *)
(* a unique index on the players of active rows may refuse the transaction *)
(* and with it the event.                                                  *)
(***************************************************************************)
EXTENDS LiveDraftRoom

VARIABLE sales   \* the status of the row of each event, "none" if it has none

salesVars == <<vars, sales>>

SalesInit == Init /\ sales = << >>

ActiveRows(rows) == {e \in DOMAIN rows : rows[e] = "active"}

\* Mutant of RowsAfter: the row a correction replaced is not activated again.
RowsAfterVoiding(rows, log) ==
    LET event == log[Len(log)]
    IN  CASE event.type = "sale_logged" -> Append(rows, "active")
          [] event.type = "sale_corrected" ->
                Append([rows EXCEPT ![event.corrected] = "corrected"], "active")
          [] event.type = "sale_undone" -> Append([rows EXCEPT ![event.undone] = "voided"], "none")
          [] OTHER -> Append(rows, "none")

RowsAfter(rows, log) ==
    LET event == log[Len(log)]
    IN  CASE event.type = "sale_logged" -> Append(rows, "active")
          [] event.type = "sale_corrected" ->
                Append([rows EXCEPT ![event.corrected] = "corrected"], "active")
          [] event.type = "sale_undone" /\ log[event.undone].type = "sale_corrected" ->
                Append([rows EXCEPT ![event.undone] = "voided",
                                    ![log[event.undone].corrected] = "active"], "none")
          [] event.type = "sale_undone" /\ log[event.undone].type # "sale_corrected" ->
                Append([rows EXCEPT ![event.undone] = "voided"], "none")
          [] OTHER -> Append(rows, "none")

\* Mutant of ActivePlayerKey: the index asks for the team, too.
ActivePlayerOfTeamKey(rows, log) ==
    \A e, f \in ActiveRows(rows) :
        log[e].sale.player = log[f].sale.player /\ log[e].sale.team = log[f].sale.team => e = f

ActivePlayerKey(rows, log) ==
    \A e, f \in ActiveRows(rows) : log[e].sale.player = log[f].sale.player => e = f

\* The rows of a cancelled room are deleted with it.
PersistSaleProjection ==
    /\ sales' = IF events' = << >> THEN << >> ELSE RowsAfter(sales, events')
    /\ ActivePlayerKey(sales', events')

SalesNext == Next /\ PersistSaleProjection

SalesSpec == SalesInit /\ [][SalesNext]_salesVars
-----------------------------------------------------------------------------
(* Properties.                                                             *)

\* The rows tell the same board as the log, through corrections of corrections
\* and their undoing: the active ones are the sources of the active sales, and a
\* row is corrected exactly as long as a correction of it is not undone.
SalesTableMatchesBoard ==
    /\ Len(sales) = revision
    /\ ActiveRows(sales) = {activeSales[k].source : k \in ActiveIndices(activeSales)}
    /\ \A e \in DOMAIN sales :
        sales[e] = "corrected" <=>
            \E c \in DOMAIN sales :
                /\ events[c].type = "sale_corrected" /\ events[c].corrected = e
                /\ sales[c] \in {"active", "corrected"}

\* With the index no player is on two rosters or twice on one, whatever is
\* undone, though the undo of a correction is not validated.
NobodyIsDraftedTwice == EachPlayerOnce
=============================================================================
