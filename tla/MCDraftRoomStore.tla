-------------------------- MODULE MCDraftRoomStore --------------------------
(***************************************************************************)
(* DraftRoomStore with two processes and the part of the draft's rules that *)
(* requests can race on: keepers are synchronized and the room is cancelled *)
(* before the start, sales are taken between start and pause, and the room  *)
(* may be ended at any time.                                                *)
(***************************************************************************)
EXTENDS DraftRoomStore, TLC

CONSTANTS s1, s2, k1, k2, k3, season1, season2

MCSlots == {s1, s2}
MCKeys == {k1, k2, k3}
MCBases == {season1, season2}
MCExpectations == 1..3
MCCommands == {"sync_initial_rosters", "start", "log_sale", "pause", "end"}
MCSeasonCommands == {"sync_initial_rosters"}
MCLockedCommands == {"sync_initial_rosters", "start"}

\* What a new room accepts without the season's lock.
UnlockedCommands == {"end"}
NoCommands == {}

MCStatuses == {"setup", "live", "paused", "ended"}

MCStatusAfter(status, command) ==
    CASE command = "start" -> "live"
      [] command = "pause" -> "paused"
      [] command = "end" -> "ended"
      [] OTHER -> status

MCAccepts(room, command) ==
    CASE command = "sync_initial_rosters" -> room.status = "setup"
      [] command = "start" -> room.status = "setup"
      [] command = "end" -> room.status # "ended"
      [] OTHER -> room.status = "live"

MCCancellable(room) ==
    /\ room.status = "setup"
    /\ \A i \in DOMAIN room.log : room.log[i].command \notin {"start", "log_sale"}

MCSymmetry == Permutations(MCSlots) \cup Permutations(MCKeys) \cup Permutations(MCBases)
=============================================================================
