---------------------------- MODULE MCTeamClaims ----------------------------
\* Two managers to be, one founder, two teams, two server processes.
EXTENDS TeamClaims, TLC

CONSTANTS founder, ann, bea, east, west, i1, i2, i3, p1, p2

MCUsers == {founder, ann, bea}
MCTeams == {east, west}
MCInvites == {i1, i2, i3}
MCProcesses == {p1, p2}
MCFounders == {founder}

\* Neither the managers, the teams, the ids nor the processes are told apart.
MCSymmetry ==
    Permutations({ann, bea}) \cup Permutations(MCTeams)
        \cup Permutations(MCInvites) \cup Permutations(MCProcesses)
=============================================================================
