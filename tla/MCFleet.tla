------------------------------ MODULE MCFleet ------------------------------
(* Instances of Fleet and Doomsday for TLC. *)
EXTENDS Doomsday

OneAndTwo == <<1, 2, 2>>

Port(p, x, level) == [New("Port", p, x) EXCEPT !.level = level]
Warship(p, x, hp) == [New("Warship", p, x) EXCEPT !.health = hp]
Move(p, u, x) == [kind |-> "move", by |-> p, unit |-> u, at |-> x]
Yard(p, x) == [kind |-> "yard", by |-> p, at |-> x]

Nothing == [orders |-> {}, steers |-> {}, landings |-> {}, falls |-> {}, bombs |-> {},
            boats |-> {}, pairs |-> {}, bans |-> {}, voyages |-> 0]

\* 2 trades with 3; 1 hunts from the port between.
Convoy == [first |-> <<>>, land |-> <<2, 0, 0, 1, 0, 0, 3>>, offline |-> {},
           units |-> <<Port(2, 1, 1), Port(1, 4, 1), Port(3, 7, 1)>>, patrols |-> <<1, 4, 7>>,
           todo |-> [Nothing EXCEPT !.voyages = 1, !.landings = {<<1, 7>>, <<3, 4>>},
                                    !.pairs = {{1, 3}}, !.bans = {<<3, 2>>},
                                    !.bombs = {1}, !.orders = {Yard(1, 4)}]]
\* Ships of 1 and 2 fight for the strait, and for a boat.
Strait == [first |-> <<>>, land |-> <<1, 0, 0, 2, 0, 0, 0>>, offline |-> {},
           units |-> <<Port(1, 1, 1), Port(2, 4, 1), Warship(1, 2, MaxHealth), Warship(2, 3, MaxHealth)>>,
           patrols |-> <<1, 4, 2, 3>>,
           todo |-> [Nothing EXCEPT !.boats = {<<2, 2>>}]]
\* Three damaged ships of 1, one of which comes from beyond the border of its port's cell,
\* and another port; 2 takes the first.
Yards == [first |-> <<>>, land |-> <<1, 0, 0, 1, 0, 0, 2>>, offline |-> {},
          units |-> <<Port(1, 4, 1), Port(1, 1, 1), Warship(1, 4, 1), Warship(1, 3, 2), Warship(1, 6, 1)>>,
          patrols |-> <<4, 1, 4, 4, 6>>,
          todo |-> [Nothing EXCEPT !.orders = {Move(1, 3, 6)}, !.landings = {<<2, 4>>}]]
\* 2 takes the land of its teammate 3, whose ships meet those of 1.
Heirs == [first |-> <<>>, land |-> <<2, 3, 0, 1, 0, 0, 0>>, offline |-> {3},
          units |-> <<Port(2, 1, 1), Warship(3, 2, MaxHealth), Warship(1, 3, MaxHealth), Port(1, 4, 1)>>,
          patrols |-> <<1, 2, 3, 4>>,
          todo |-> [Nothing EXCEPT !.falls = {<<2, 3>>, <<1, 3>>}]]
\* 2 holds one place of seven and is repaired there, while the bar rises to two.
Flood == [first |-> <<[kind |-> "clock", ticks |-> 0]>>, land |-> <<0, 0, 1, 1, 2, 0, 0>>, offline |-> {},
          units |-> <<Port(2, 5, 1), Warship(2, 5, MaxHealth)>>, patrols |-> <<5, 5>>,
          todo |-> [Nothing EXCEPT !.landings = {<<2, 4>>, <<1, 5>>}, !.orders = {Yard(2, 5)}]]
\* A nation's ship, damaged, is given another patrol.
Nation == [first |-> <<>>, land |-> <<1, 0, 0, 0, 0, 0, 0>>, offline |-> {},
           units |-> <<Port(1, 1, 1), Warship(1, 2, 1)>>, patrols |-> <<1, 2>>,
           todo |-> [Nothing EXCEPT !.steers = {<<2, 3>>}]]
EveryScenario == {Convoy, Strait, Yards, Heirs, Flood, Nation}
TwoWaves == <<2000, 3000>>
=============================================================================
