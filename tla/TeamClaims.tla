----------------------------- MODULE TeamClaims -----------------------------
(***************************************************************************)
(* Who manages which team of one season: the invitations a commissioner    *)
(* sends, the claims of members, and the columns of three tables they      *)
(* write (league_invitations, league_memberships, fantasy_teams).          *)
(*                                                                         *)
(* Every request first reads what it needs to refuse politely and then     *)
(* writes in one statement or transaction.  A server process handles one   *)
(* of these requests at a time, but several processes may run, so between  *)
(* the reads of a request and its write anything may happen that requests  *)
(* of other processes do.  The reads of a request are one step: each of    *)
(* them only refuses, or picks the invitation to replace.                  *)
(***************************************************************************)
EXTENDS FiniteSets

CONSTANTS
    Users,        \* accounts, each with one email address
    Teams,        \* the teams of the season
    Invites,      \* the ids of invitations; bounds how many are created
    Processes,    \* server processes
    Founders,     \* the members the league starts with
    Nobody, NoTeam, NoInvite

ASSUME ClaimsTyped ==
    /\ Founders \subseteq Users
    /\ Nobody \notin Users
    /\ NoTeam \notin Teams
    /\ NoInvite \notin Invites

VARIABLES
    invites,   \* league_invitations
    owners,    \* fantasy_teams.owner_user_id
    members,   \* the active rows of league_memberships
    started,   \* whether a draft room of the season has started
    calls      \* what each process is about to write

tables == <<invites, owners, members, started>>
claimVars == <<tables, calls>>

NoRow == [kind |-> "none", team |-> NoTeam, email |-> Nobody, status |-> "none", expired |-> FALSE]
LeagueLink == [NoRow EXCEPT !.kind = "league", !.status = "pending"]
TeamLink(t, u) == [NoRow EXCEPT !.kind = "team", !.status = "pending", !.team = t, !.email = u]
Idle == [op |-> "idle", invite |-> NoInvite, user |-> Nobody, team |-> NoTeam]

ClaimsInit ==
    /\ invites = [i \in Invites |-> NoRow]
    /\ owners = [t \in Teams |-> Nobody]
    /\ members = Founders
    /\ started = FALSE
    /\ calls = [p \in Processes |-> Idle]

Rows == [kind : {"none", "team", "league"}, team : Teams \cup {NoTeam},
         email : Users \cup {Nobody},
         status : {"none", "pending", "accepted", "revoked"}, expired : BOOLEAN]

-----------------------------------------------------------------------------
(* What the tables say and what their unique indexes refuse.               *)

Pending(i) == invites[i].status = "pending"
Usable(i) == Pending(i) /\ ~invites[i].expired
Manages(u) == \E t \in Teams : owners[t] = u
ClaimableBy(u) == {t \in Teams : owners[t] \in {Nobody, u}}

\* At most one pending link for a league, one pending invitation for a team.
Taken(rows, row) ==
    \E i \in Invites :
        /\ rows[i].status = "pending"
        /\ rows[i].kind = row.kind
        /\ rows[i].team = row.team

\* Mutant of Inserted: no index on the pending rows.
InsertedTwice(rows, row) ==
    {[rows EXCEPT ![i] = row] : i \in {j \in Invites : rows[j].status = "none"}}

\* A second league link is not inserted; a second one for a team is an error.
Inserted(rows, row) ==
    IF Taken(rows, row) THEN {rows}
    ELSE {[rows EXCEPT ![i] = row] : i \in {j \in Invites : rows[j].status = "none"}}

\* Mutant of OwnerKey: the index is not unique.
OwnerIndexed(os) == os = os

\* A user owns at most one team of the season.
OwnerKey(os) == \A t, s \in Teams : os[t] = os[s] /\ os[t] # Nobody => t = s

-----------------------------------------------------------------------------
(* A request reads and then writes.  One that is refused, rolled back by   *)
(* an index or a lost race, or cut off by a crash writes nothing.          *)

Reads(p, op, i, u, t) ==
    /\ calls[p] = Idle
    /\ calls' = [calls EXCEPT ![p] = [op |-> op, invite |-> i, user |-> u, team |-> t]]
    /\ UNCHANGED tables

Writes(p, op) ==
    /\ calls[p].op = op
    /\ calls' = [calls EXCEPT ![p] = Idle]

Fails(p) ==
    /\ calls[p] # Idle
    /\ calls' = [calls EXCEPT ![p] = Idle]
    /\ UNCHANGED tables

-----------------------------------------------------------------------------
(* The commissioner's requests.                                            *)

ReadLeagueLinks(p) ==
    LET links == {i \in Invites : Pending(i) /\ invites[i].kind = "league"} IN
    IF links = {} THEN Reads(p, "link", NoInvite, Nobody, NoTeam)
    ELSE \E i \in links : Reads(p, "link", i, Nobody, NoTeam)

ReadTeamLinks(p, u, t) ==
    LET links == {i \in Invites : Pending(i) /\ invites[i].kind = "team"}
        toUser == {i \in links : invites[i].email = u}
    IN /\ owners[t] = Nobody
       /\ u \notin members
       /\ \A i \in links : invites[i].team = t => invites[i].email = u
       /\ IF toUser = {} THEN Reads(p, "invite", NoInvite, u, t)
          ELSE \E i \in toUser : invites[i].team = t /\ Reads(p, "invite", i, u, t)

\* A pending invitation is revoked and a new one inserted in its place.
Replaced(i) ==
    IF Pending(i)
    THEN Inserted([invites EXCEPT ![i].status = "revoked"], [invites[i] EXCEPT !.expired = FALSE])
    ELSE {invites}

Issue(p, op, row) ==
    LET i == calls[p].invite IN
    /\ Writes(p, op)
    /\ invites' \in IF i = NoInvite THEN Inserted(invites, row) ELSE Replaced(i)
    /\ UNCHANGED <<owners, members, started>>

IssueLeagueLink(p) == Issue(p, "link", LeagueLink)
IssueTeamLink(p) == Issue(p, "invite", TeamLink(calls[p].team, calls[p].user))

Reissue(i) ==
    /\ Pending(i)
    /\ invites' \in Replaced(i)
    /\ UNCHANGED <<owners, members, started, calls>>

Revoke(i) ==
    /\ Pending(i)
    /\ invites' = [invites EXCEPT ![i].status = "revoked"]
    /\ UNCHANGED <<owners, members, started, calls>>

Expire(i) ==
    /\ Usable(i)
    /\ invites' = [invites EXCEPT ![i].expired = TRUE]
    /\ UNCHANGED <<owners, members, started, calls>>

-----------------------------------------------------------------------------
(* A manager follows an invitation.                                        *)

\* The accept route refuses members; the claim route only those with a team.
ReadTeamInvite(p, i, u) ==
    /\ Usable(i)
    /\ invites[i].kind = "team"
    /\ invites[i].email = u
    /\ u \notin members \/ ~Manages(u)
    /\ owners[invites[i].team] = Nobody
    /\ Reads(p, "accept", i, u, invites[i].team)

Accept(p) ==
    LET i == calls[p].invite
        u == calls[p].user
        t == calls[p].team
    IN /\ Writes(p, "accept")
       /\ Usable(i)
       /\ t \in ClaimableBy(u)
       /\ owners' = [owners EXCEPT ![t] = u]
       /\ OwnerKey(owners')
       /\ members' = members \cup {u}
       /\ invites' = [invites EXCEPT ![i].status = "accepted"]
       /\ UNCHANGED started

\* Mutant of ReadLeagueInvite: any invitation will do.
ReadAnyInvite(p, i, u, t) ==
    /\ Usable(i)
    /\ ~Manages(u)
    /\ Reads(p, "join", i, u, t)

ReadLeagueInvite(p, i, u, t) ==
    /\ Usable(i)
    /\ invites[i].kind = "league"
    /\ ~Manages(u)
    /\ Reads(p, "join", i, u, t)

\* Mutant of Join: the invitation is trusted as it was read.
JoinAsRead(p) ==
    LET u == calls[p].user
        t == calls[p].team
    IN /\ Writes(p, "join")
       /\ \A s \in Teams \ {t} : owners[s] # u
       /\ t \in ClaimableBy(u)
       /\ owners' = [owners EXCEPT ![t] = u]
       /\ members' = members \cup {u}
       /\ UNCHANGED <<invites, started>>

\* A league link stays pending: it is meant for every manager.
Join(p) ==
    LET u == calls[p].user
        t == calls[p].team
    IN /\ Writes(p, "join")
       /\ Usable(calls[p].invite)
       /\ \A s \in Teams \ {t} : owners[s] # u
       /\ t \in ClaimableBy(u)
       /\ owners' = [owners EXCEPT ![t] = u]
       /\ members' = members \cup {u}
       /\ UNCHANGED <<invites, started>>

-----------------------------------------------------------------------------
(* A member claims a team, or changes to another one until the draft has   *)
(* started.                                                                *)

ReadClaim(p, u, t) ==
    /\ u \in members
    /\ t \in ClaimableBy(u)
    /\ Manages(u) /\ owners[t] # u => ~started
    /\ Reads(p, "claim", NoInvite, u, t)

\* Mutant of ClaimedBy: a failed claim is committed.
GivenUpBy(u, t) ==
    LET givenUp == [s \in Teams |-> IF s # t /\ owners[s] = u THEN Nobody ELSE owners[s]] IN
    IF t \in ClaimableBy(u) THEN [givenUp EXCEPT ![t] = u] ELSE givenUp

\* The member's other teams are given up before the claim; when the claim
\* fails the transaction gives them back.
ClaimedBy(u, t) ==
    LET givenUp == [s \in Teams |-> IF s # t /\ owners[s] = u THEN Nobody ELSE owners[s]] IN
    IF t \in ClaimableBy(u) THEN [givenUp EXCEPT ![t] = u] ELSE owners

Claim(p) ==
    /\ Writes(p, "claim")
    /\ calls[p].user \in members
    /\ owners' = ClaimedBy(calls[p].user, calls[p].team)
    /\ UNCHANGED <<invites, members, started>>

\* Starting the draft of the season; see LiveDraftRoom.
StartDraft ==
    /\ ~started
    /\ started' = TRUE
    /\ UNCHANGED <<invites, owners, members, calls>>

-----------------------------------------------------------------------------
ReadStep(p) ==
    \/ ReadLeagueLinks(p)
    \/ \E u \in Users, t \in Teams : ReadTeamLinks(p, u, t) \/ ReadClaim(p, u, t)
    \/ \E i \in Invites, u \in Users : ReadTeamInvite(p, i, u)
    \/ \E i \in Invites, u \in Users, t \in Teams : ReadLeagueInvite(p, i, u, t)

WriteStep(p) ==
    \/ IssueLeagueLink(p) \/ IssueTeamLink(p)
    \/ Accept(p) \/ Join(p) \/ Claim(p)
    \/ Fails(p)

ClaimsNext ==
    \/ \E p \in Processes : ReadStep(p) \/ WriteStep(p)
    \/ \E i \in Invites : Reissue(i) \/ Revoke(i) \/ Expire(i)
    \/ StartDraft

ClaimsSpec == ClaimsInit /\ [][ClaimsNext]_claimVars

-----------------------------------------------------------------------------
\* The types, and that what a request is about to use is what it read: a
\* team's invitation to accept, the league's link to join by.
ClaimsTypeOK ==
    /\ invites \in [Invites -> Rows]
    /\ owners \in [Teams -> Users \cup {Nobody}]
    /\ members \subseteq Users
    /\ started \in BOOLEAN
    /\ calls \in [Processes ->
           [op : {"idle", "link", "invite", "accept", "join", "claim"},
            invite : Invites \cup {NoInvite},
            user : Users \cup {Nobody}, team : Teams \cup {NoTeam}]]
    /\ \A p \in Processes :
        /\ calls[p].op = "accept" =>
            /\ calls[p].invite \in Invites
            /\ invites[calls[p].invite].kind = "team"
            /\ invites[calls[p].invite].team = calls[p].team
            /\ invites[calls[p].invite].email = calls[p].user
        /\ calls[p].op = "join" =>
            /\ calls[p].invite \in Invites
            /\ invites[calls[p].invite].kind = "league"
        /\ calls[p].op \in {"invite", "accept", "join", "claim"} =>
            calls[p].user \in Users /\ calls[p].team \in Teams
    /\ \A i \in Invites :
        /\ invites[i].kind = "none" <=> invites[i].status = "none"
        /\ invites[i].kind = "team" => invites[i].team \in Teams

\* A manager owns at most one team of the season and every owner is an active
\* member, whatever invitations and claims race (claimTeam.ts, joinTeam.ts,
\* accept.ts and the unique index of fantasy_teams).
ManagersOwnOneTeam ==
    /\ \A t, s \in Teams : owners[t] = owners[s] /\ owners[t] # Nobody => t = s
    /\ \A t \in Teams : owners[t] # Nobody => owners[t] \in members

\* The league has at most one pending link and a team at most one pending
\* invitation, though two requests may both have found none (insert.ts,
\* replacePending.ts).
OneLinkEach ==
    \A i, j \in Invites :
        /\ Pending(i)
        /\ Pending(j)
        /\ invites[i].kind = invites[j].kind
        /\ invites[i].team = invites[j].team
        => i = j

\* A manager who has a team has one after every step: nobody takes it away,
\* and a change of team that fails gives the old one back (claimTeam.ts).
NobodyIsDisplaced == [][\A u \in Users : Manages(u) => Manages(u)']_claimVars

\* Whoever becomes a member does so through an invitation that was pending
\* and unexpired when the membership was written, and with a team: the one of
\* the invitation, which is used up and was addressed to them, or any free
\* team by the league's link (accept.ts, joinTeam.ts).
AdmittedByLiveInvitation ==
    [][\A u \in members' \ members :
        \E i \in Invites :
            /\ Usable(i)
            /\ \/ invites[i].kind = "league" /\ Manages(u)'
               \/ /\ invites[i].kind = "team"
                  /\ invites[i].email = u
                  /\ owners'[invites[i].team] = u
                  /\ invites'[i].status = "accepted"]_claimVars
=============================================================================
