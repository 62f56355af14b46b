-------------------------- MODULE TeamClaims_proofs -------------------------
(***************************************************************************)
(* For any users, teams, invitations and server processes: the types, one  *)
(* team for each manager, one pending link for each seat, and what a step  *)
(* may not do to a manager, as theorems of ClaimsSpec.                     *)
(*                                                                         *)
(* The types and the two invariants are inductive together: that a request *)
(* about to accept an invitation still looks at the invitation it read     *)
(* needs that a row once created is never created again, which is in the   *)
(* types.                                                                  *)
(***************************************************************************)
EXTENDS TeamClaims, TLAPS

ClaimsInvariant == ClaimsTypeOK /\ ManagersOwnOneTeam /\ OneLinkEach

-----------------------------------------------------------------------------
(* Lemmas on the tables.                                                   *)

\* What an insertion returns is the table as it was, or with one new row.
LEMMA InsertedRows ==
    ASSUME NEW rows, NEW row, NEW result \in Inserted(rows, row)
    PROVE  \/ result = rows
           \/ /\ ~Taken(rows, row)
              /\ \E i \in Invites :
                    rows[i].status = "none" /\ result = [rows EXCEPT ![i] = row]
  BY DEF Inserted

\* The well-formed tables of invitations.
GoodRows(rows) ==
    /\ rows \in [Invites -> Rows]
    /\ \A i \in Invites :
        /\ rows[i].kind = "none" <=> rows[i].status = "none"
        /\ rows[i].kind = "team" => rows[i].team \in Teams

\* At most one pending row for each seat, of any table.
OneEach(rows) ==
    \A i, j \in Invites :
        /\ rows[i].status = "pending"
        /\ rows[j].status = "pending"
        /\ rows[i].kind = rows[j].kind
        /\ rows[i].team = rows[j].team
        => i = j

\* Inserting a pending row keeps a table well formed, keeps one pending row
\* for each seat, and does not touch the rows that exist.
LEMMA InsertionKeeps ==
    ASSUME NEW rows, GoodRows(rows), OneEach(rows),
           NEW row \in Rows, row.status = "pending", row.kind # "none",
           row.kind = "team" => row.team \in Teams,
           NEW result \in Inserted(rows, row)
    PROVE  /\ GoodRows(result)
           /\ OneEach(result)
           /\ \A i \in Invites : rows[i].status # "none" => result[i] = rows[i]
<1>1. CASE result = rows
  BY <1>1
<1>2. CASE /\ ~Taken(rows, row)
           /\ \E i \in Invites :
                 rows[i].status = "none" /\ result = [rows EXCEPT ![i] = row]
  <2>1. PICK i \in Invites : rows[i].status = "none" /\ result = [rows EXCEPT ![i] = row]
    BY <1>2
  <2>2. GoodRows(result)
    BY <2>1 DEF GoodRows
  <2>3. OneEach(result)
    BY <1>2, <2>1 DEF GoodRows, OneEach, Taken
  <2>4. \A j \in Invites : rows[j].status # "none" => result[j] = rows[j]
    BY <2>1 DEF GoodRows
  <2> QED
    BY <2>2, <2>3, <2>4
<1> QED
  BY <1>1, <1>2, InsertedRows

\* Revoking, accepting or expiring a pending row keeps the table well formed
\* and its seats single.
LEMMA ChangeKeeps ==
    ASSUME NEW rows, GoodRows(rows), OneEach(rows),
           NEW i \in Invites, rows[i].status = "pending",
           NEW row \in Rows, row.kind = rows[i].kind, row.team = rows[i].team,
           row.status # "none"
    PROVE  /\ GoodRows([rows EXCEPT ![i] = row])
           /\ OneEach([rows EXCEPT ![i] = row])
  BY DEF GoodRows, OneEach

\* Replacing an invitation keeps the table well formed and its seats single,
\* and every row that exists keeps its kind, team and address.
LEMMA ReplacementKeeps ==
    ASSUME GoodRows(invites), OneEach(invites), NEW i \in Invites,
           NEW result \in Replaced(i)
    PROVE  /\ GoodRows(result)
           /\ OneEach(result)
           /\ \A j \in Invites : invites[j].status # "none" =>
                 /\ result[j].kind = invites[j].kind
                 /\ result[j].team = invites[j].team
                 /\ result[j].email = invites[j].email
<1>1. CASE ~Pending(i)
  BY <1>1 DEF Replaced
<1>2. CASE Pending(i)
  <2> DEFINE gone == [invites[i] EXCEPT !.status = "revoked"]
             rows == [invites EXCEPT ![i] = gone]
             row == [invites[i] EXCEPT !.expired = FALSE]
  <2>1. invites[i] \in Rows /\ gone \in Rows /\ row \in Rows
    BY DEF GoodRows, Rows
  <2>2. /\ gone.kind = invites[i].kind /\ gone.team = invites[i].team
        /\ gone.email = invites[i].email /\ gone.status = "revoked"
        /\ row.kind = invites[i].kind /\ row.team = invites[i].team
        /\ row.status = "pending"
    BY <2>1, <1>2 DEF Rows, Pending
  <2>3. GoodRows(rows) /\ OneEach(rows)
    BY <1>2, <2>1, <2>2, ChangeKeeps DEF Pending
  <2>4. result \in Inserted(rows, row)
    BY <1>2 DEF Replaced
  <2>5. row.kind # "none" /\ (row.kind = "team" => row.team \in Teams)
    BY <1>2, <2>2 DEF GoodRows, Pending
  <2>6. /\ GoodRows(result) /\ OneEach(result)
        /\ \A j \in Invites : rows[j].status # "none" => result[j] = rows[j]
    BY <2>1, <2>2, <2>3, <2>4, <2>5, InsertionKeeps
  <2>7. \A j \in Invites : invites[j].status # "none" =>
            /\ rows[j].status # "none"
            /\ rows[j].kind = invites[j].kind
            /\ rows[j].team = invites[j].team
            /\ rows[j].email = invites[j].email
    BY <2>2 DEF GoodRows
  <2> QED
    BY <2>6, <2>7
<1> QED
  BY <1>1, <1>2

-----------------------------------------------------------------------------
(* What the invariant says, cut up for the steps.                          *)

Calls == [op : {"idle", "link", "invite", "accept", "join", "claim"},
          invite : Invites \cup {NoInvite},
          user : Users \cup {Nobody}, team : Teams \cup {NoTeam}]

\* What a request is about to use is what it read.
CallFits(rows, c) ==
    /\ c.op = "accept" =>
        /\ c.invite \in Invites
        /\ rows[c.invite].kind = "team"
        /\ rows[c.invite].team = c.team
        /\ rows[c.invite].email = c.user
    /\ c.op = "join" =>
        /\ c.invite \in Invites
        /\ rows[c.invite].kind = "league"
    /\ c.op \in {"invite", "accept", "join", "claim"} => c.user \in Users /\ c.team \in Teams

CallsFit == calls \in [Processes -> Calls] /\ \A p \in Processes : CallFits(invites, calls[p])

\* Who owns what, of any assignment of teams and any members.
OwnersFit(os, ms) ==
    /\ os \in [Teams -> Users \cup {Nobody}]
    /\ ms \subseteq Users
    /\ \A t, s \in Teams : os[t] = os[s] /\ os[t] # Nobody => t = s
    /\ \A t \in Teams : os[t] # Nobody => os[t] \in ms

LEMMA InvariantParts ==
    ClaimsInvariant <=>
        /\ GoodRows(invites) /\ OneEach(invites)
        /\ OwnersFit(owners, members)
        /\ started \in BOOLEAN
        /\ CallsFit
  BY DEF ClaimsInvariant, ClaimsTypeOK, ManagersOwnOneTeam, OneLinkEach, GoodRows, OneEach,
         OwnersFit, CallsFit, CallFits, Calls, Pending

\* The same of the next state.
LEMMA NextParts ==
    ASSUME GoodRows(invites'), OneEach(invites'), OwnersFit(owners', members'),
           started' \in BOOLEAN, CallsFit'
    PROVE  ClaimsInvariant'
  BY DEF ClaimsInvariant, ClaimsTypeOK, ManagersOwnOneTeam, OneLinkEach, GoodRows, OneEach,
         OwnersFit, CallsFit, CallFits, Calls, Pending

\* A request that ends leaves the others as they were.
LEMMA EndedCallsFit ==
    ASSUME CallsFit, NEW p \in Processes, calls' = [calls EXCEPT ![p] = Idle],
           \A c \in Calls : CallFits(invites, c) => CallFits(invites', c)
    PROVE  CallsFit'
<1>1. Idle \in Calls /\ CallFits(invites', Idle)
  BY DEF Idle, Calls, CallFits
<1> QED
  BY <1>1 DEF CallsFit

\* A request that has read fits, if what it read does.
LEMMA BegunCallsFit ==
    ASSUME CallsFit, NEW p \in Processes, NEW op, NEW i, NEW u, NEW t, Reads(p, op, i, u, t),
           [op |-> op, invite |-> i, user |-> u, team |-> t] \in Calls,
           CallFits(invites, [op |-> op, invite |-> i, user |-> u, team |-> t])
    PROVE  CallsFit' /\ UNCHANGED tables
  BY DEF CallsFit, Reads, tables

\* Rows that exist keep their kind, team and address, so requests keep fitting.
LEMMA CallsKeepFitting ==
    ASSUME NEW rows, GoodRows(rows), NEW result,
           \A j \in Invites : rows[j].status # "none" =>
              /\ result[j].kind = rows[j].kind
              /\ result[j].team = rows[j].team
              /\ result[j].email = rows[j].email
    PROVE  \A c \in Calls : CallFits(rows, c) => CallFits(result, c)
  BY DEF CallFits, GoodRows

-----------------------------------------------------------------------------
(* The steps.                                                              *)

LEMMA ReadsKeep ==
    ASSUME ClaimsInvariant, NEW p \in Processes, ReadStep(p)
    PROVE  CallsFit' /\ UNCHANGED tables
<1> USE InvariantParts
<1>0. CallsFit /\ GoodRows(invites)
  OBVIOUS
<1>1. CASE ReadLeagueLinks(p)
  <2>1. \A i \in Invites \cup {NoInvite} :
           LET c == [op |-> "link", invite |-> i, user |-> Nobody, team |-> NoTeam] IN
           c \in Calls /\ CallFits(invites, c)
    BY DEF Calls, CallFits
  <2>2. \E i \in Invites \cup {NoInvite} : Reads(p, "link", i, Nobody, NoTeam)
    BY <1>1 DEF ReadLeagueLinks
  <2> QED
    BY <2>1, <2>2, <1>0, BegunCallsFit
<1>2. ASSUME NEW u \in Users, NEW t \in Teams, ReadTeamLinks(p, u, t)
      PROVE  CallsFit' /\ UNCHANGED tables
  <2>1. \A i \in Invites \cup {NoInvite} :
           LET c == [op |-> "invite", invite |-> i, user |-> u, team |-> t] IN
           c \in Calls /\ CallFits(invites, c)
    BY DEF Calls, CallFits
  <2>2. \E i \in Invites \cup {NoInvite} : Reads(p, "invite", i, u, t)
    BY <1>2 DEF ReadTeamLinks
  <2> QED
    BY <2>1, <2>2, <1>0, BegunCallsFit
<1>3. ASSUME NEW u \in Users, NEW t \in Teams, ReadClaim(p, u, t)
      PROVE  CallsFit' /\ UNCHANGED tables
  <2>1. LET c == [op |-> "claim", invite |-> NoInvite, user |-> u, team |-> t] IN
        c \in Calls /\ CallFits(invites, c)
    BY DEF Calls, CallFits
  <2>2. Reads(p, "claim", NoInvite, u, t)
    BY <1>3 DEF ReadClaim
  <2> QED
    BY <2>1, <2>2, <1>0, BegunCallsFit
<1>4. ASSUME NEW i \in Invites, NEW u \in Users, ReadTeamInvite(p, i, u)
      PROVE  CallsFit' /\ UNCHANGED tables
  <2> DEFINE c == [op |-> "accept", invite |-> i, user |-> u, team |-> invites[i].team]
  <2>1. invites[i].kind = "team" /\ invites[i].email = u /\ invites[i].team \in Teams
    BY <1>4, <1>0 DEF ReadTeamInvite, GoodRows
  <2>2. c \in Calls /\ CallFits(invites, c)
    BY <2>1 DEF Calls, CallFits
  <2>3. Reads(p, "accept", i, u, invites[i].team)
    BY <1>4 DEF ReadTeamInvite
  <2> QED
    BY <2>2, <2>3, <1>0, BegunCallsFit
<1>5. ASSUME NEW i \in Invites, NEW u \in Users, NEW t \in Teams, ReadLeagueInvite(p, i, u, t)
      PROVE  CallsFit' /\ UNCHANGED tables
  <2>1. LET c == [op |-> "join", invite |-> i, user |-> u, team |-> t] IN
        c \in Calls /\ CallFits(invites, c)
    BY <1>5 DEF Calls, CallFits, ReadLeagueInvite
  <2>2. Reads(p, "join", i, u, t)
    BY <1>5 DEF ReadLeagueInvite
  <2> QED
    BY <2>1, <2>2, <1>0, BegunCallsFit
<1> QED
  BY <1>1, <1>2, <1>3, <1>4, <1>5 DEF ReadStep

\* Issuing, by a request that read and with any new row for a seat.
LEMMA IssueKeeps ==
    ASSUME ClaimsInvariant, NEW p \in Processes, NEW op, NEW row \in Rows, Issue(p, op, row),
           row.status = "pending", row.kind # "none", row.kind = "team" => row.team \in Teams
    PROVE  ClaimsInvariant'
<1>0. GoodRows(invites) /\ OneEach(invites) /\ CallsFit /\ OwnersFit(owners, members)
      /\ started \in BOOLEAN
  BY InvariantParts
<1> DEFINE i == calls[p].invite
<1>1. i \in Invites \cup {NoInvite}
  BY <1>0 DEF CallsFit, Calls
<1>2. /\ GoodRows(invites') /\ OneEach(invites')
      /\ \A j \in Invites : invites[j].status # "none" =>
            /\ invites'[j].kind = invites[j].kind
            /\ invites'[j].team = invites[j].team
            /\ invites'[j].email = invites[j].email
  <2>1. CASE i = NoInvite
    <3>1. invites' \in Inserted(invites, row)
      BY <2>1 DEF Issue
    <3> QED
      BY <1>0, <3>1, InsertionKeeps
  <2>2. CASE i # NoInvite
    <3>1. invites' \in Replaced(i)
      BY <2>2 DEF Issue
    <3> QED
      BY <1>0, <1>1, <2>2, <3>1, ReplacementKeeps
  <2> QED
    BY <2>1, <2>2
<1>3. CallsFit'
  <2>1. \A c \in Calls : CallFits(invites, c) => CallFits(invites', c)
    BY <1>0, <1>2, CallsKeepFitting
  <2> QED
    BY <1>0, <2>1, EndedCallsFit DEF Issue, Writes
<1>4. UNCHANGED <<owners, members, started>>
  BY DEF Issue
<1> QED
  BY <1>0, <1>2, <1>3, <1>4, NextParts

LEMMA AcceptKeeps ==
    ASSUME ClaimsInvariant, NEW p \in Processes, Accept(p)
    PROVE  ClaimsInvariant'
<1>0. GoodRows(invites) /\ OneEach(invites) /\ CallsFit /\ OwnersFit(owners, members)
      /\ started \in BOOLEAN
  BY InvariantParts
<1> DEFINE i == calls[p].invite
           row == [invites[i] EXCEPT !.status = "accepted"]
<1>1. i \in Invites /\ calls[p].user \in Users /\ calls[p].team \in Teams
  BY <1>0 DEF Accept, Writes, CallsFit, CallFits
<1>2. /\ invites[i] \in Rows /\ row \in Rows /\ invites[i].status = "pending"
      /\ row.kind = invites[i].kind /\ row.team = invites[i].team
      /\ row.email = invites[i].email /\ row.status = "accepted"
  BY <1>0, <1>1 DEF Accept, Usable, Pending, GoodRows, Rows
<1>3. invites' = [invites EXCEPT ![i] = row]
  BY DEF Accept
<1>4. GoodRows(invites') /\ OneEach(invites')
  BY <1>0, <1>1, <1>2, <1>3, ChangeKeeps
<1>5. CallsFit'
  <2>1. \A j \in Invites :
            /\ invites'[j].kind = invites[j].kind
            /\ invites'[j].team = invites[j].team
            /\ invites'[j].email = invites[j].email
    BY <1>0, <1>2, <1>3 DEF GoodRows
  <2>2. \A c \in Calls : CallFits(invites, c) => CallFits(invites', c)
    BY <1>0, <2>1, CallsKeepFitting
  <2> QED
    BY <1>0, <2>2, EndedCallsFit DEF Accept, Writes
<1>6. OwnersFit(owners', members')
  BY <1>0, <1>1 DEF Accept, OwnersFit, OwnerKey
<1> QED
  BY <1>0, <1>4, <1>5, <1>6, NextParts DEF Accept

LEMMA JoinKeeps ==
    ASSUME ClaimsInvariant, NEW p \in Processes, Join(p)
    PROVE  ClaimsInvariant'
<1>0. GoodRows(invites) /\ OneEach(invites) /\ CallsFit /\ OwnersFit(owners, members)
      /\ started \in BOOLEAN
  BY InvariantParts
<1>1. calls[p].user \in Users /\ calls[p].team \in Teams
  BY <1>0 DEF Join, Writes, CallsFit, CallFits
<1>2. OwnersFit(owners', members')
  BY <1>0, <1>1 DEF Join, OwnersFit
<1>3. CallsFit'
  BY <1>0, EndedCallsFit DEF Join, Writes
<1> QED
  BY <1>0, <1>2, <1>3, NextParts DEF Join

LEMMA ClaimKeeps ==
    ASSUME ClaimsInvariant, ClaimsTyped, NEW p \in Processes, Claim(p)
    PROVE  ClaimsInvariant'
<1>0. GoodRows(invites) /\ OneEach(invites) /\ CallsFit /\ OwnersFit(owners, members)
      /\ started \in BOOLEAN
  BY InvariantParts
<1>1. calls[p].user \in Users /\ calls[p].team \in Teams /\ calls[p].user \in members
  BY <1>0 DEF Claim, Writes, CallsFit, CallFits
<1>2. OwnersFit(owners', members')
  BY <1>0, <1>1 DEF Claim, ClaimedBy, ClaimableBy, OwnersFit
<1>3. CallsFit'
  BY <1>0, EndedCallsFit DEF Claim, Writes
<1> QED
  BY <1>0, <1>2, <1>3, NextParts DEF Claim

\* The changes of one pending row that are not part of a request.
LEMMA RowChangeKeeps ==
    ASSUME ClaimsInvariant, NEW i \in Invites, Reissue(i) \/ Revoke(i) \/ Expire(i)
    PROVE  ClaimsInvariant'
<1>0. GoodRows(invites) /\ OneEach(invites) /\ CallsFit /\ OwnersFit(owners, members)
      /\ started \in BOOLEAN
  BY InvariantParts
<1>1. invites[i] \in Rows /\ invites[i].status = "pending"
  BY <1>0 DEF GoodRows, Reissue, Revoke, Expire, Usable, Pending
<1>2. /\ GoodRows(invites') /\ OneEach(invites')
      /\ \A j \in Invites : invites[j].status # "none" =>
            /\ invites'[j].kind = invites[j].kind
            /\ invites'[j].team = invites[j].team
            /\ invites'[j].email = invites[j].email
  <2>1. CASE Reissue(i)
    BY <1>0, <2>1, ReplacementKeeps DEF Reissue
  <2>2. CASE Revoke(i)
    <3> DEFINE row == [invites[i] EXCEPT !.status = "revoked"]
    <3>1. /\ row \in Rows /\ row.kind = invites[i].kind /\ row.team = invites[i].team
          /\ row.email = invites[i].email /\ row.status = "revoked"
      BY <1>1 DEF Rows
    <3>2. invites' = [invites EXCEPT ![i] = row]
      BY <2>2 DEF Revoke
    <3> HIDE DEF row
    <3>3. GoodRows(invites') /\ OneEach(invites')
      BY <1>0, <1>1, <3>1, <3>2, ChangeKeeps
    <3>4. \A j \in Invites : invites'[j] = IF j = i THEN row ELSE invites[j]
      BY <1>0, <3>2 DEF GoodRows
    <3> QED
      BY <3>1, <3>3, <3>4
  <2>3. CASE Expire(i)
    <3> DEFINE row == [invites[i] EXCEPT !.expired = TRUE]
    <3>1. /\ row \in Rows /\ row.kind = invites[i].kind /\ row.team = invites[i].team
          /\ row.email = invites[i].email /\ row.status = "pending"
      BY <1>1 DEF Rows
    <3>2. invites' = [invites EXCEPT ![i] = row]
      BY <2>3 DEF Expire
    <3> HIDE DEF row
    <3>3. GoodRows(invites') /\ OneEach(invites')
      BY <1>0, <1>1, <3>1, <3>2, ChangeKeeps
    <3>4. \A j \in Invites : invites'[j] = IF j = i THEN row ELSE invites[j]
      BY <1>0, <3>2 DEF GoodRows
    <3> QED
      BY <3>1, <3>3, <3>4
  <2> QED
    BY <2>1, <2>2, <2>3
<1>3. UNCHANGED <<owners, members, started, calls>>
  BY DEF Reissue, Revoke, Expire
<1>4. CallsFit'
  <2>1. \A c \in Calls : CallFits(invites, c) => CallFits(invites', c)
    BY <1>0, <1>2, CallsKeepFitting
  <2> QED
    BY <1>0, <1>3, <2>1 DEF CallsFit
<1> QED
  BY <1>0, <1>2, <1>3, <1>4, NextParts

-----------------------------------------------------------------------------
(* The theorems.                                                           *)

LEMMA InitEstablishes == ClaimsInit => ClaimsInvariant
<1> SUFFICES ASSUME ClaimsInit PROVE ClaimsInvariant
  OBVIOUS
<1>1. GoodRows(invites) /\ OneEach(invites)
  BY DEF ClaimsInit, NoRow, GoodRows, OneEach, Rows
<1>2. OwnersFit(owners, members)
  BY ClaimsTyped DEF ClaimsInit, OwnersFit
<1>3. CallsFit
  BY DEF ClaimsInit, CallsFit, CallFits, Calls, Idle
<1> QED
  BY <1>1, <1>2, <1>3, InvariantParts DEF ClaimsInit

LEMMA NextPreserves == ClaimsInvariant /\ [ClaimsNext]_claimVars => ClaimsInvariant'
<1> SUFFICES ASSUME ClaimsInvariant, [ClaimsNext]_claimVars PROVE ClaimsInvariant'
  OBVIOUS
<1>0. GoodRows(invites) /\ OneEach(invites) /\ CallsFit /\ OwnersFit(owners, members)
      /\ started \in BOOLEAN
  BY InvariantParts
<1>1. ASSUME NEW p \in Processes, ReadStep(p) PROVE ClaimsInvariant'
  <2>1. CallsFit' /\ UNCHANGED tables
    BY <1>1, ReadsKeep
  <2> QED
    BY <1>0, <2>1, NextParts DEF tables
<1>2. ASSUME NEW p \in Processes, IssueLeagueLink(p) PROVE ClaimsInvariant'
  <2>1. /\ LeagueLink \in Rows /\ LeagueLink.status = "pending"
        /\ LeagueLink.kind = "league"
    BY DEF LeagueLink, NoRow, Rows
  <2> QED
    BY <1>2, <2>1, IssueKeeps DEF IssueLeagueLink
<1>3. ASSUME NEW p \in Processes, IssueTeamLink(p) PROVE ClaimsInvariant'
  <2> DEFINE row == TeamLink(calls[p].team, calls[p].user)
  <2>1. calls[p].user \in Users /\ calls[p].team \in Teams
    BY <1>0, <1>3 DEF IssueTeamLink, Issue, Writes, CallsFit, CallFits
  <2>2. row \in Rows /\ row.status = "pending" /\ row.kind = "team" /\ row.team \in Teams
    BY <2>1 DEF TeamLink, NoRow, Rows
  <2>3. Issue(p, "invite", row)
    BY <1>3 DEF IssueTeamLink
  <2> HIDE DEF row
  <2> QED
    BY <2>2, <2>3, IssueKeeps
<1>4. ASSUME NEW p \in Processes, Fails(p) PROVE ClaimsInvariant'
  <2>1. CallsFit'
    BY <1>0, <1>4, EndedCallsFit DEF Fails, tables
  <2> QED
    BY <1>0, <1>4, <2>1, NextParts DEF Fails, tables
<1>5. CASE StartDraft
  BY <1>0, <1>5, NextParts DEF StartDraft, CallsFit
<1>6. CASE UNCHANGED claimVars
  BY <1>0, <1>6, NextParts DEF claimVars, tables, CallsFit
<1> QED
  BY <1>1, <1>2, <1>3, <1>4, <1>5, <1>6, AcceptKeeps, JoinKeeps, ClaimKeeps, RowChangeKeeps,
     ClaimsTyped
     DEF ClaimsNext, WriteStep

\* The inductive invariant: requests use what they read, managers own one
\* team, seats have one pending link.
THEOREM ClaimsInvariantHolds == ClaimsSpec => []ClaimsInvariant
  BY InitEstablishes, NextPreserves, PTL DEF ClaimsSpec

\* However many requests race, what a request is about to write is about the
\* invitation it read (accept.ts, claim.ts).
THEOREM ClaimsAreTyped == ClaimsSpec => []ClaimsTypeOK
<1>1. ClaimsInvariant => ClaimsTypeOK
  BY DEF ClaimsInvariant
<1> QED
  BY <1>1, ClaimsInvariantHolds, PTL

\* Any number of managers, teams and processes: a manager owns at most one
\* team and owners are members.
THEOREM ManagersOwnOneTeamAlways == ClaimsSpec => []ManagersOwnOneTeam
<1>1. ClaimsInvariant => ManagersOwnOneTeam
  BY DEF ClaimsInvariant
<1> QED
  BY <1>1, ClaimsInvariantHolds, PTL

\* One pending link for the league and one for each team, however many
\* invitations are created.
THEOREM OneLinkEachAlways == ClaimsSpec => []OneLinkEach
<1>1. ClaimsInvariant => OneLinkEach
  BY DEF ClaimsInvariant
<1> QED
  BY <1>1, ClaimsInvariantHolds, PTL

\* No step takes a manager's team without giving another.
THEOREM NobodyIsEverDisplaced == ClaimsSpec => NobodyIsDisplaced
<1>1. ASSUME ClaimsInvariant, [ClaimsNext]_claimVars, NEW u \in Users, Manages(u)
      PROVE  Manages(u)'
  <2>0. CallsFit /\ OwnersFit(owners, members)
    BY <1>1, InvariantParts
  <2>1. PICK s \in Teams : owners[s] = u
    BY <1>1 DEF Manages
  <2>2. u # Nobody
    BY ClaimsTyped
  <2>3. ASSUME NEW p \in Processes, Accept(p) \/ Join(p) PROVE Manages(u)'
    <3>1. calls[p].team \in ClaimableBy(calls[p].user)
          /\ owners' = [owners EXCEPT ![calls[p].team] = calls[p].user]
      BY <2>3 DEF Accept, Join
    <3>2. owners'[s] = u
      BY <2>0, <2>1, <2>2, <3>1 DEF ClaimableBy, OwnersFit
    <3> QED
      BY <3>2 DEF Manages
  <2>4. ASSUME NEW p \in Processes, Claim(p) PROVE Manages(u)'
    <3> DEFINE v == calls[p].user
               t == calls[p].team
    <3>1. v \in Users /\ t \in Teams /\ owners' = ClaimedBy(v, t)
      BY <2>0, <2>4 DEF Claim, Writes, CallsFit, CallFits
    <3>2. CASE t \notin ClaimableBy(v)
      BY <2>1, <3>1, <3>2 DEF ClaimedBy, Manages
    <3>3. CASE t \in ClaimableBy(v) /\ v = u
      <4>1. owners'[t] = u
        BY <3>1, <3>3 DEF ClaimedBy
      <4> QED
        BY <3>1, <4>1 DEF Manages
    <3>4. CASE t \in ClaimableBy(v) /\ v # u
      <4>1. s # t
        BY <2>1, <2>2, <3>4 DEF ClaimableBy
      <4>2. owners'[s] = u
        BY <2>1, <3>1, <3>4, <4>1 DEF ClaimedBy
      <4> QED
        BY <4>2 DEF Manages
    <3> QED
      BY <3>2, <3>3, <3>4
  <2>5. CASE UNCHANGED owners
    BY <1>1, <2>5 DEF Manages
  <2>6. \/ UNCHANGED owners
        \/ \E p \in Processes : Accept(p) \/ Join(p) \/ Claim(p)
    <3>1. ASSUME NEW p \in Processes, ReadStep(p) PROVE UNCHANGED owners
      BY <1>1, <3>1, ReadsKeep DEF tables
    <3> QED
      BY <1>1, <3>1 DEF ClaimsNext, WriteStep, IssueLeagueLink, IssueTeamLink, Issue, Fails,
         Reissue, Revoke, Expire, StartDraft, claimVars, tables
  <2> QED
    BY <2>3, <2>4, <2>5, <2>6
<1>2. ClaimsInvariant /\ [ClaimsNext]_claimVars
        => [\A u \in Users : Manages(u) => Manages(u)']_claimVars
  BY <1>1
<1> QED
  BY <1>2, ClaimsInvariantHolds, PTL DEF ClaimsSpec, NobodyIsDisplaced

\* Nobody becomes a member but through an invitation that is pending and
\* unexpired in the very transaction that writes the membership.
THEOREM OnlyLiveInvitationsAdmit == ClaimsSpec => AdmittedByLiveInvitation
<1> DEFINE Admitted(u) ==
             \E i \in Invites :
                /\ Usable(i)
                /\ \/ invites[i].kind = "league" /\ Manages(u)'
                   \/ /\ invites[i].kind = "team"
                      /\ invites[i].email = u
                      /\ owners'[invites[i].team] = u
                      /\ invites'[i].status = "accepted"
<1>1. ASSUME ClaimsInvariant, [ClaimsNext]_claimVars, NEW u \in members' \ members
      PROVE  Admitted(u)
  <2>0. CallsFit /\ OwnersFit(owners, members) /\ GoodRows(invites)
    BY <1>1, InvariantParts
  <2>1. PICK p \in Processes : Accept(p) \/ Join(p)
    <3>1. ASSUME NEW p \in Processes, ReadStep(p) PROVE UNCHANGED members
      BY <1>1, <3>1, ReadsKeep DEF tables
    <3> QED
      BY <1>1, <3>1 DEF ClaimsNext, WriteStep, IssueLeagueLink, IssueTeamLink, Issue, Fails,
         Claim, Reissue, Revoke, Expire, StartDraft, claimVars, tables
  <2>2. CASE Accept(p)
    <3> DEFINE i == calls[p].invite
    <3>1. /\ i \in Invites /\ calls[p].team \in Teams
          /\ invites[i].kind = "team" /\ invites[i].team = calls[p].team
          /\ invites[i].email = calls[p].user
      BY <2>0, <2>2 DEF Accept, Writes, CallsFit, CallFits
    <3>2. u = calls[p].user /\ Usable(i)
      BY <1>1, <2>2 DEF Accept
    <3>3. owners'[invites[i].team] = u
      BY <2>0, <2>2, <3>1, <3>2 DEF Accept, OwnersFit
    <3>4. invites'[i].status = "accepted"
      <4>1. invites' = [invites EXCEPT ![i].status = "accepted"]
        BY <2>2 DEF Accept
      <4>2. invites[i] \in Rows
        BY <2>0, <3>1 DEF GoodRows
      <4> QED
        BY <2>0, <3>1, <4>1, <4>2 DEF GoodRows, Rows
    <3> QED
      BY <3>1, <3>2, <3>3, <3>4
  <2>3. CASE Join(p)
    <3> DEFINE i == calls[p].invite
    <3>1. i \in Invites /\ calls[p].team \in Teams /\ invites[i].kind = "league"
      BY <2>0, <2>3 DEF Join, Writes, CallsFit, CallFits
    <3>2. u = calls[p].user /\ Usable(i)
      BY <1>1, <2>3 DEF Join
    <3>3. Manages(u)'
      BY <2>0, <2>3, <3>1, <3>2 DEF Join, OwnersFit, Manages
    <3> QED
      BY <3>1, <3>2, <3>3
  <2> QED
    BY <2>1, <2>2, <2>3
<1>2. ClaimsInvariant /\ [ClaimsNext]_claimVars
        => [\A u \in members' \ members : Admitted(u)]_claimVars
  BY <1>1
<1> QED
  BY <1>2, ClaimsInvariantHolds, PTL DEF ClaimsSpec, AdmittedByLiveInvitation
=============================================================================
