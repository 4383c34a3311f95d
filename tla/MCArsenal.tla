----------------------------- MODULE MCArsenal -----------------------------
(* Instances of Arsenal and Rail for TLC. *)
EXTENDS Rail

Of(kind, p, type, t, u) == [kind |-> kind, by |-> p, type |-> type, tile |-> t, unit |-> u]
BuildOrder(p, type, t) == Of("build", p, type, t, NoUnitId)

\* 1 holds a silo; 2 and its teammate 3 hold a SAM launcher each, 2 on its only tile.
FourTiles == <<1, 2, 1, 3>>
Ring == <<{1}, {2, 4}, {3}, {2, 4}>>
ThreeBases == <<<<"Silo", 1, 1>>, <<"SAM", 2, 2>>, <<"SAM", 3, 4>>>>
TwoAndThree == <<1, 2, 2>>

Plan(O, L, P) == [bases |-> ThreeBases, orders |-> O, landings |-> L, pairs |-> P, trains |-> 0]
Lines(B, O, L, n) == [bases |-> B, orders |-> O, landings |-> L, pairs |-> {}, trains |-> n]
\* A bomb on tile 4 that may hit 2, who may lose its launcher with its land, or become
\* an ally; the silo may be captured.
Duel == Plan({BuildOrder(1, "Bomb", 4), Of("upgrade", 2, "none", 0, 2)},
             {<<1, 2>>, <<3, 1>>}, {{1, 2}})
\* Two bombs from one silo, which grows.
Salvo == Plan({BuildOrder(1, "Bomb", 2), BuildOrder(1, "Bomb", 4), Of("upgrade", 1, "none", 0, 1)},
              {}, {})
\* A MIRV, and a silo to answer it with.
Rain == Plan({BuildOrder(1, "MIRV", 2), BuildOrder(2, "Silo", 3)}, {<<2, 3>>, <<3, 1>>}, {{1, 3}})
\* Structures are built, sold and overrun.
Works == Plan({BuildOrder(1, "Post", 3), BuildOrder(1, "City", 3), Of("delete", 2, "none", 0, 2)},
              {<<1, 2>>, <<2, 3>>, <<2, 2>>}, {})
\* A MIRV on one's own silo, which is reloading.
Backfire == Plan({BuildOrder(1, "MIRV", 1), BuildOrder(1, "Bomb", 4)}, {}, {})
\* Two stations of one city, railroads that are snapped onto, and a city that is sold.
TwoCities == <<<<"City", 2, 2>>, <<"Factory", 1, 1>>, <<"City", 1, 3>>>>
Junction == Lines(TwoCities, {Of("delete", 1, "none", 0, 3)}, {}, 1)
\* A third city comes to the network, and may stand on two of its railroads.
Crossing == Lines(TwoCities, {BuildOrder(3, "City", 4)}, {}, 1)
\* A factory that comes last, between a city and a port, which is overrun.
Branch == Lines(<<<<"Port", 2, 2>>, <<"City", 3, 4>>>>,
                {BuildOrder(1, "Factory", 3)}, {<<1, 2>>}, 1)
AllNear == Tiles \X Tiles
OnlyBackfire == {Backfire}
EveryPlan == {Duel, Salvo, Rain, Works, Backfire, Junction, Crossing, Branch}
=============================================================================
