---------------------------- MODULE MCDiplomacy ----------------------------
(* The instance of Diplomacy for TLC: Ann, a person, and Rex, a nation. *)
EXTENDS Diplomacy

CONSTANTS Ann, Rex

NoTeams == [p \in Players |-> p]

\* Every kind of order; a nation breaks, rejects and judges in its own turn.
AllIntents == {<<k, Ann, Rex>> : k \in {"request", "extend", "reject", "break", "start",
                                         "stop", "startAll", "stopAll"}}
              \cup {<<k, Rex, Ann>> : k \in {"request", "extend", "attack", "boat", "mirv"}}
              \cup {<<k, Ann, Ann>> : k \in {"offline", "online"}}
=============================================================================
