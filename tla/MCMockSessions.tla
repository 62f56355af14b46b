--------------------------- MODULE MCMockSessions ---------------------------
\* Two seasons, drafts of two picks, and at most one session open in a season.
EXTENDS MockSessions, TLC

CONSTANTS east, west, p1, p2, k1, k2, a, b

MCSeasons == {east, west}
MCSlots == {p1, p2}
MCKeys == {k1, k2}
MCTexts == {a, b}
MCPlayed == {1}
MCSubmissions == {<<k1, a>>, <<k2, b>>}

\* The second pick of a draft is legal after the first only.
MCDrafts == {<< >>, <<a>>, <<a, b>>}
MCFinishedDrafts == {<<a, b>>}

MCSymmetry ==
    Permutations(MCSeasons) \cup Permutations(MCSlots)
=============================================================================
