----------------------------- MODULE MCWarfare -----------------------------
(* Instances of Warfare for TLC: strips of land, 4 or 5 tiles long. *)
EXTENDS Warfare

Strip(n) == [t \in 1 .. n |-> {t - 1, t + 1} \cap 1 .. n]

Tiles4 == 1 .. 4
Neighbors4 == Strip(4)
Line4 == [t \in 1 .. 4 |-> <<t, 0>>]
Tiles5 == 1 .. 5
Neighbors5 == Strip(5)
Line5 == [t \in 1 .. 5 |-> <<t, 0>>]

\* 2 is enclosed by 1, whose land behind it is enclosed by 2 and 3: when 2 takes tile 1, who
\* inherits tile 4 depends on the order in which 1 came to hold 3 and 4.
Enclave == <<1, 2, 1, 1, 3>>
\* Two players, two tiles each.
TwoByTwo == <<1, 1, 2, 2>>
\* Two islands' worth of land, the channel between them at the free tile.
Islands == <<1, 1, 0, 2>>
TwoAndFree == <<1, 1, 2, 0>>

Troops2 == <<3, 3>>
Troops3 == <<2, 2, 2>>
Troops22 == <<2, 2>>

NoTeams2 == <<1, 2>>
NoTeams3 == <<1, 2, 3>>
OneTeam2 == <<1, 1>>

\* One attack each way, in halves of a troop.
EndsOrders == {<<1, 2, 4>>, <<2, 1, 3>>}
\* 2 breaks out, 1 closes in, perhaps twice, 3 wants its share of 1.
CrowdOrders == {<<1, 2, 2>>, <<1, 2, 1>>, <<2, 1, 1>>, <<3, 1, 1>>}
\* At sea, in halves of a troop: what is merged and what lands may be a troop and a half.
SeaOrders == {<<1, 4, 4>>, <<2, 1, 3>>}
SeaAttacks == {<<1, 2, 3>>, <<2, 1, 5>>}
\* Two teammates: 2 sends a boat to the free tile, 1 attacks 2.
TeamBoats == {<<2, 4, 1>>}
TeamAttacks == {<<1, 2, 2>>}
\* 1 gives what it still has when the gift's turn comes, once or twice.
SeaGifts == {<<1, 2, 4>>}
=============================================================================
