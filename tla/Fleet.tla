------------------------------- MODULE Fleet -------------------------------
(***************************************************************************)
(* The navy of the OpenFront engine (src/rust/engine/src): ports, trade    *)
(* ships, warships and their shells.                                       *)
(*                                                                         *)
(* The coast is a row of places, all on one water; a ship under way passes *)
(* one place a turn, and a warship that hunts two.  Ports are finished.    *)
(* Gold is counted in voyages.  Times are kept as ages, which stop growing *)
(* when they no longer matter, and are counted in the turns of the         *)
(* execution that reads them, of which there is one a tick.                *)
(***************************************************************************)
EXTENDS Turns, FiniteSets, Functions

CONSTANTS
    Players,          \* 1 .. n, the small ids
    Team,             \* [Players -> team]
    Places,           \* 1 .. n
    Shoreline,        \* the places where a trade ship is safe
    Sight,            \* the range of a warship, 130 tiles in the code
    PatrolRange,      \* how far from its patrol tile it hunts and cruises, 100
    RepairRange,      \* how near a port it is repaired, 150
    DockRange,        \* how near a port it docks, 5
    Cell,             \* the width of a cell of the units' grid, 100
    MaxHealth,        \* warship_base_max_health
    Damages,          \* of a shell
    Gap,              \* the ticks between two shells, 20
    Grace,            \* the ticks without a retreat after an order, 50
    SafeTicks,        \* the ticks a trade ship is safe after the shore, 20
    MaxFlight,        \* bound: the turns a shell may fly
    ShellLife,        \* the ticks it outlives the ship that shot it, 50
    DockPool,         \* what a port repairs per level and tick, 5
    UnitIds,          \* 1 .. n, bound: units at a time
    Scenarios         \* what stands at the start, and bound: what may come from
                      \* outside in a run, once each

Neutral == 0
None == 0
Unmarked == -1
Ships == {"Warship", "Trade", "Transport"}
UnitTypes == {"Port", "none"} \cup Ships

VARIABLES
    land,         \* map.owner_id of the coast at each place
    allies,       \* Game.alliances: a set of two-player sets
    embargo,      \* Player.embargoes: <<p, q>>, of p against q
    offline,      \* the players that is_disconnected
    unit,         \* the fields of a Unit
    gold,         \* Player.gold: the voyages p was paid for
    under,        \* the seconds since Player.marked_doomsday_clock_tick, or Unmarked;
                  \* Doomsday says how it changes
    todo          \* bound: what may still come from outside

world == <<land, allies, embargo, offline>>
vars == <<loopVars, world, unit, gold, todo>>

UnitType == [type : UnitTypes, holder : Players \cup {Neutral}, at : Places \cup {None},
             health : 0 .. MaxHealth, level : Nat, safe : 0 .. SafeTicks]
NoUnit == [type |-> "none", holder |-> Neutral, at |-> None, health |-> 0, level |-> 0, safe |-> 0]

\* WarshipExecution; goal is its target_tile, port its retreat_port.
ShipType == [kind : {"ship"}, by : Players, unit : UnitIds \cup {None}, patrol : Places, seen : Places,
             goal : Places \cup {None}, port : Places \cup {None}, since : 0 .. Gap + 1,
             grace : 0 .. Grace, sent : SUBSET (Players \X UnitIds),
             retreating : BOOLEAN, docked : BOOLEAN]
\* TradeShipExecution
TradeType == [kind : {"trade"}, by : Players, unit : UnitIds \cup {None}, robbed : BOOLEAN,
              src : UnitIds, srcOwner : Players, dst : UnitIds, dstOwner : Players]
\* ShellExecution; fuse is what is left to destroy_at_tick.
ShellType == [kind : {"shell"}, by : Players, unit : UnitIds, prey : UnitIds, victim : Players,
              built : BOOLEAN, left : 0 .. MaxFlight, fuse : -1 .. ShellLife]
JobType == [kind : {"player"}, by : Players]
           \cup [kind : {"clock"}, ticks : Nat]
           \cup [kind : {"port"}, by : Players, unit : UnitIds]
           \cup [kind : {"yard"}, by : Players, at : Places]
           \cup [kind : {"move"}, by : Players, unit : UnitIds, at : Places]
           \cup ShipType \cup TradeType \cup ShellType

PlayerJob(p) == [kind |-> "player", by |-> p]
PortJob(p, u) == [kind |-> "port", by |-> p, unit |-> u]
ShipJob(p, u, patrol) ==
    [kind |-> "ship", by |-> p, unit |-> u, patrol |-> patrol, seen |-> patrol, goal |-> None,
     port |-> None, since |-> Gap + 1, grace |-> Grace, sent |-> {},
     retreating |-> FALSE, docked |-> FALSE]
TradeJob(p, src, dst, q) ==
    [kind |-> "trade", by |-> p, unit |-> None, robbed |-> FALSE,
     src |-> src, srcOwner |-> p, dst |-> dst, dstOwner |-> q]
ShellJob(p, u, prey, victim) ==
    [kind |-> "shell", by |-> p, unit |-> u, prey |-> prey, victim |-> victim,
     built |-> FALSE, left |-> MaxFlight, fuse |-> -1]

TodoType == [orders : SUBSET ([kind : {"yard"}, by : Players, at : Places]
                              \cup [kind : {"move"}, by : Players, unit : UnitIds, at : Places]),
             steers : SUBSET (UnitIds \X Places),
             landings : SUBSET (Players \X Places), falls : SUBSET (Players \X Players),
             bombs : SUBSET Places, boats : SUBSET (Players \X Places),
             pairs : SUBSET SUBSET Players, bans : SUBSET (Players \X Players), voyages : Nat]
\* Finished ports and warships, with the patrol tiles of the latter.
ScenarioType == [first : Seq([kind : {"clock"}, ticks : Nat]),
                 land : [Places -> Players \cup {Neutral}], offline : SUBSET Players,
                 units : Seq([type : {"Port", "Warship"}, holder : Players, at : Places,
                              health : 1 .. MaxHealth, level : Nat \ {0}, safe : 0 .. SafeTicks]),
                 patrols : Seq(Places), todo : TodoType]

ASSUME FleetAssumption ==
    /\ IsFiniteSet(Players) /\ Players = 1 .. Cardinality(Players)
    /\ IsFiniteSet(Places) /\ Places = 1 .. Cardinality(Places)
    /\ IsFiniteSet(UnitIds) /\ UnitIds = 1 .. Cardinality(UnitIds)
    /\ Shoreline \subseteq Places
    /\ {Sight, PatrolRange, RepairRange, Grace, SafeTicks, MaxFlight, Gap} \subseteq Nat
    /\ {DockRange, Cell} \subseteq Nat /\ DockRange < Cell
    /\ {MaxHealth, ShellLife, DockPool} \subseteq Nat \ {0}
    /\ Damages # {} /\ Damages \subseteq Nat \ {0}
    /\ \A s \in Scenarios : /\ s \in ScenarioType /\ Len(s.patrols) = Len(s.units)
                            /\ 1 .. Len(s.units) \subseteq UnitIds
                            \* Structures keep a distance.
                            /\ \A i, k \in 1 .. Len(s.units) :
                                  (/\ s.units[i].type = "Port" /\ s.units[k].type = "Port"
                                   /\ s.units[i].at = s.units[k].at) => i = k

-----------------------------------------------------------------------------
(* The map, the units and who fights whom. *)

Least(a, b) == IF a < b THEN a ELSE b
Dist(a, b) == IF a < b THEN b - a ELSE a - b
Nearest(S, a) == {x \in S : \A y \in S : Dist(a, x) <= Dist(a, y)}
Toward(a, b) == IF a < b THEN a + 1 ELSE IF a > b THEN a - 1 ELSE a

Has(p) == \E x \in Places : land[x] = p
Exists(u) == unit[u].type # "none"
OfType(T) == {u \in UnitIds : unit[u].type = T}
HeldBy(p) == {u \in UnitIds : unit[u].holder = p}
Ports(p) == HeldBy(p) \cap OfType("Port")
PortsAt(p) == {unit[u].at : u \in Ports(p)}

SameTeam(a, b) == a # b /\ Team[a] = Team[b]
\* is_friendly: who is offline is no friend; can_attack_player_ex asks without that.
Kin(a, b) == a = b \/ SameTeam(a, b) \/ {a, b} \in allies
Friendly(a, b) == a = b \/ (b \notin offline /\ Kin(a, b))
CanTrade(a, b) == a # b /\ {<<a, b>>, <<b, a>>} \cap embargo = {}

Named == UNION {CASE job.kind = "trade" -> {job.unit, job.src, job.dst}
                  [] job.kind = "shell" -> {job.unit, job.prey}
                  [] job.kind = "ship"  -> {job.unit} \cup {t[2] : t \in job.sent}
                  [] OTHER -> {} : job \in Range(execs) \cup Range(uninit)}
\* bound: there are as many units as ids
FreeIds == {u \in UnitIds : ~Exists(u) /\ u \notin Named}
Fresh == CHOOSE u \in FreeIds : TRUE
\* build_unit
New(type, p, x) == [type |-> type, holder |-> p, at |-> x, level |-> 1, safe |-> 0,
                    health |-> IF type = "Warship" THEN MaxHealth ELSE 1]
\* remove_unit
Without(S) == [u \in UnitIds |-> IF u \in S THEN NoUnit ELSE unit[u]]

Tick == UNCHANGED <<world, todo, phase>>

\* The WarshipExecution or PortExecution of each unit.
Start(U, O) == [i \in 1 .. Len(U) |-> IF U[i].type = "Port" THEN PortJob(U[i].holder, i)
                                                           ELSE ShipJob(U[i].holder, i, O[i])]

Init ==
    \E s \in Scenarios :
       /\ land = s.land /\ allies = {} /\ embargo = {} /\ offline = s.offline
       /\ unit = [u \in UnitIds |-> IF u <= Len(s.units) THEN s.units[u] ELSE NoUnit]
       /\ gold = [p \in Players |-> 0]
       /\ LoopInit(s.first \o [p \in Players |-> PlayerJob(p)] \o Start(s.units, s.patrols))
       /\ todo = s.todo

-----------------------------------------------------------------------------
(* execute_next_tick. *)

StartTick == OpenTick /\ UNCHANGED <<world, unit, gold, todo>>
StartInits == AllHadTurns /\ UNCHANGED <<world, unit, gold, todo>>
EndTick ==
    /\ CloseTick
    /\ unit' = [u \in UnitIds |-> [unit[u] EXCEPT !.safe = IF unit[u].type = "Trade"
                                                          THEN Least(@ + 1, SafeTicks) ELSE @]]
    /\ UNCHANGED <<world, gold, todo>>

-----------------------------------------------------------------------------
(* PlayerExecution. *)

\* reconcile_structure_ownership
Reconciled(p) ==
    [u \in UnitIds |->
       IF u \notin Ports(p) \/ land[unit[u].at] = p THEN unit[u]
       ELSE IF land[unit[u].at] = Neutral THEN NoUnit
       ELSE [unit[u] EXCEPT !.holder = land[unit[u].at]]]
\* remove_on_death
Buried(un, p) == [u \in UnitIds |-> IF un[u].holder = p THEN NoUnit ELSE un[u]]

PlayerTurn ==
    /\ Turn("player")
    /\ LET p == Me.by IN
       IF Has(p)
       THEN unit' = Reconciled(p) /\ Stay(Me) /\ UNCHANGED <<allies, gold>>
       ELSE /\ unit' = Buried(Reconciled(p), p)
            /\ allies' = {a \in allies : p \notin a}
            /\ gold' = [gold EXCEPT ![p] = 0]
            /\ Done
    /\ UNCHANGED <<land, embargo, offline, uninit, todo, phase>>

-----------------------------------------------------------------------------
(* PortExecution. *)

TradingPorts(p) == {u \in OfType("Port") : Has(unit[u].holder) /\ CanTrade(unit[u].holder, p)}
PortTurn ==
    /\ Turn("port")
    /\ LET u == Me.unit
           p == unit[u].holder IN
       \/ ~Exists(u) /\ Done /\ UNCHANGED <<uninit, todo>>
       \/ /\ Exists(u) /\ Stay([Me EXCEPT !.by = p])
          /\ \/ UNCHANGED <<uninit, todo>>
             \/ /\ todo.voyages > 0
                /\ \E v \in TradingPorts(p) : Add(<<TradeJob(p, u, v, unit[v].holder)>>)
                /\ todo' = [todo EXCEPT !.voyages = @ - 1]
    /\ UNCHANGED <<world, unit, gold, phase>>

-----------------------------------------------------------------------------
(* TradeShipExecution. *)

\* The ship is built in the first turn, if its port is still its owner's.
TradeFails ==
    /\ Turn("trade") /\ Me.unit = None /\ Me.src \notin Ports(Me.by)
    /\ Done /\ UNCHANGED <<uninit, unit, gold>> /\ Tick

Built == IF Me.unit = None THEN Fresh ELSE Me.unit
WithShip == IF Me.unit = None
            THEN [unit EXCEPT ![Fresh] = New("Trade", Me.by, unit[Me.src].at)]
            ELSE unit
Known(u, q) == IF Exists(u) THEN unit[u].holder ELSE q
Robbed(p) == Me.robbed \/ p # Me.by
SameOwner == Exists(Me.dst) /\ Known(Me.src, Me.srcOwner) = unit[Me.dst].holder
Refused(p) == ~Exists(Me.dst) \/ ~CanTrade(p, unit[Me.dst].holder)
\* The voyage ends unpaid: its ends are one player's, they do not trade any more, or
\* who holds the ship has no port to take it to.
Pointless(p) == \/ SameOwner
                \/ ~Robbed(p) /\ Refused(p)
                \/ Robbed(p) /\ Me.dst \notin HeldBy(p) /\ Ports(p) = {}
\* Where p, who holds the ship at x, takes it.
Bound(p, x) == IF Robbed(p) /\ Me.dst \notin HeldBy(p)
               THEN {u \in Ports(p) : unit[u].at \in Nearest(PortsAt(p), x)}
               ELSE {Me.dst}
PaidAsSent(p) == {Known(Me.src, Me.srcOwner), unit[Me.dst].holder}
\* complete
Paid(p) == IF Robbed(p) THEN {p} ELSE {Known(Me.src, Me.srcOwner), unit[Me.dst].holder}

LeftAtSea(u) == unit
Dismissed(u) == Without({u})
TradeTurn ==
    /\ Turn("trade") /\ (Me.unit # None \/ Me.src \in Ports(Me.by))
    /\ Me.unit = None => FreeIds # {}
    /\ LET u == Built
           p == WithShip[u].holder
           x == WithShip[u].at
       IN
       IF p = Neutral THEN Done /\ UNCHANGED <<unit, gold>>
       ELSE IF Pointless(p)
       THEN Done /\ unit' = Dismissed(u) /\ UNCHANGED gold
       ELSE \E d \in Bound(p, x) :
              LET y == Toward(x, unit[d].at) IN
              IF unit[d].at = x
              THEN /\ Done /\ unit' = Without({u})
                   /\ gold' = [q \in Players |-> IF q \in Paid(p) THEN gold[q] + 1 ELSE gold[q]]
              ELSE /\ unit' = [WithShip EXCEPT ![u].at = y,
                                               ![u].safe = IF y \in Shoreline THEN 0 ELSE @]
                   /\ Stay([Me EXCEPT !.unit = u, !.robbed = Robbed(p), !.dst = d,
                                      !.srcOwner = Known(Me.src, @), !.dstOwner = Known(d, @)])
                   /\ UNCHANGED gold
    /\ UNCHANGED uninit /\ Tick
-----------------------------------------------------------------------------
(* WarshipExecution.  A state of its turn is a record: the execution, the ship,*)
(* the shells shot and the ship taken; "on" says that the turn goes on.        *)

Turning(j, x, hp) == [job |-> j, at |-> x, hp |-> hp, shots |-> <<>>, prize |-> None, on |-> TRUE]

\* ts_unit_grid_query_includes: only the cells of the grid from CellBelow to CellAbove
\* are searched around x.
CeilDiv(a, b) == -((-a) \div b)
CellBelow(x) == (x \div Cell) - CeilDiv(DockRange - (x % Cell), Cell)
CellAbove(x) == (x \div Cell) + CeilDiv(DockRange - (Cell - (x % Cell)), Cell)
GridIncludes(x, y) == CellBelow(x) <= y \div Cell /\ y \div Cell <= CellAbove(x)

\* docked_warships_at_port counts who is not on patrol, under no way, and found there.
Moored(j) == (j.retreating \/ j.docked) /\ j.goal = None
Found(x, y) == GridIncludes(x, y) /\ Dist(x, y) <= DockRange
Neighbours(p, x) == {i \in 1 .. Len(execs) : /\ i # cursor /\ execs[i].kind = "ship" /\ execs[i].by = p
                                           /\ execs[i].unit \in HeldBy(p)
                                           /\ Found(x, unit[execs[i].unit].at) /\ Moored(execs[i])}
Berthed(s, x) == Cardinality(Neighbours(s.job.by, x))
                 + IF Moored(s.job) /\ Found(x, s.at) THEN 1 ELSE 0
LevelAt(p, x) == unit[CHOOSE u \in Ports(p) : unit[u].at = x].level
OverfullOfOthers(s, x) == Cardinality(Neighbours(s.job.by, x)) > LevelAt(s.job.by, x)
\* warship_port_is_full, with and without the ship itself.
Full(s, x) == Berthed(s, x) >= LevelAt(s.job.by, x)
FullOfOthers(s, x) == Cardinality(Neighbours(s.job.by, x)) >= LevelAt(s.job.by, x)

Ashore(s) == [s EXCEPT !.job.retreating = FALSE, !.job.docked = FALSE, !.job.port = None]
GivesUp(s) == [Ashore(s) EXCEPT !.job.goal = None]

\* heal_near_port and heal_at_dock; what is left of a fraction makes one more at times.
NearPort(s) == \E x \in PortsAt(s.job.by) : Dist(s.at, x) <= RepairRange
AtDock(s) == s.job.docked /\ s.job.port \in PortsAt(s.job.by)
Share(s) == LET n == Berthed(s, s.job.port) IN
            IF n = 0 THEN {0}
            ELSE LET h == (LevelAt(s.job.by, s.job.port) * DockPool) \div n IN {h, h + 1}
Repaired(s) == {[s EXCEPT !.hp = Least(MaxHealth, @ + h + (IF NearPort(s) THEN 1 ELSE 0))] :
                  h \in IF AtDock(s) THEN Share(s) ELSE {0}}
HealedThoughDoomed(s) == Repaired(s)
\* in_doomsday_clock: the doomed repair no ship.
InDoomsdayClock(p) == Has(p) /\ under[p] # Unmarked
Healed(s) == IF InDoomsdayClock(s.job.by) THEN {s} ELSE Repaired(s)

OrderedInPort(s) == [s EXCEPT !.job.seen = s.job.patrol,
                              !.job.grace = IF s.job.patrol = s.job.seen THEN @ ELSE 0]
\* handle_manual_patrol_override
Ordered(s) == IF s.job.patrol = s.job.seen THEN s
              ELSE [Ashore(s) EXCEPT !.job.seen = s.job.patrol, !.job.grace = 0]
UndockedIfHealed(s) == IF ~s.job.docked THEN s
                       ELSE IF s.hp < MaxHealth THEN [s EXCEPT !.on = FALSE]
                       ELSE Ashore(s)
\* A docked ship stays until it is healed or the port is lost.
Undocked(s) == IF ~s.job.docked THEN s
               ELSE IF AtDock(s) /\ s.hp < MaxHealth THEN [s EXCEPT !.on = FALSE]
               ELSE Ashore(s)

Docked(u) == \E i \in 1 .. Len(execs) : /\ execs[i].kind = "ship" /\ execs[i].unit = u
                                       /\ execs[i].by = unit[u].holder /\ execs[i].docked
\* trade_ship_destination_owner
Destinations(u) == {Known(execs[i].dst, execs[i].dstOwner) :
                      i \in {j \in 1 .. Len(execs) : execs[j].kind = "trade" /\ execs[j].unit = u}}
Prize(s, u) == LET p == s.job.by IN
               /\ Ports(p) # {} /\ unit[u].safe >= SafeTicks
               /\ \A q \in Destinations(u) : ~Friendly(q, p)
               /\ Dist(s.job.patrol, unit[u].at) <= PatrolRange
Targets(s, T) == {u \in OfType(T) : /\ ~Kin(s.job.by, unit[u].holder)
                                    /\ <<unit[u].holder, u>> \notin s.job.sent
                                    /\ Dist(s.at, unit[u].at) <= Sight
                                    /\ T = "Warship" => ~Docked(u)
                                    /\ T = "Trade" => Prize(s, u)}
\* target: transports first, then warships, then trade ships, the nearest of them.
Best(s, types) ==
    LET first == {T \in types : /\ Targets(s, T) # {}
                                /\ T = "Warship" => Targets(s, "Transport") = {}
                                /\ T = "Trade" => Targets(s, "Transport") \cup Targets(s, "Warship") = {}}
        all == UNION {Targets(s, T) : T \in first}
    IN  {u \in all : unit[u].at \in Nearest({unit[v].at : v \in all}, s.at)}

\* shoot_target: a shell at a transport does not count for the gap to the next.
Shot(s, u) ==
    IF s.job.since <= Gap THEN s
    ELSE [s EXCEPT !.shots = Append(@, ShellJob(s.job.by, s.job.unit, u, unit[u].holder)),
                   !.job.since = IF unit[u].type = "Transport" THEN @ ELSE 0,
                   !.job.sent = IF unit[u].type = "Transport" THEN @ \cup {<<unit[u].holder, u>>} ELSE @]
Fires(s) == LET B == Best(s, {"Transport", "Warship"}) IN
            IF B = {} THEN {s} ELSE {Shot(s, u) : u \in B}

\* refresh_retreat_port
Refreshed(s) ==
    LET mine == PortsAt(s.job.by)
        \* nearest_available_port, of those a condition of being full leaves
        to(S) == {[s EXCEPT !.job.port = x] : x \in Nearest(S, s.at)}
        open == {x \in mine : ~Full(s, x)}
        other == {x \in mine : ~FullOfOthers(s, x)}
        here == s.job.port
    IN  IF here \notin mine
        THEN IF other = {} THEN {[s EXCEPT !.job.port = None]}
             ELSE {[r EXCEPT !.job.goal = None] : r \in to(other)}
        ELSE IF open = {} THEN {s}
        ELSE IF here \notin open THEN to(open)
        \* Only a port that is closer by a quarter is worth it.
        ELSE {IF 4 * Dist(s.at, r.job.port) * Dist(s.at, r.job.port)
                 < 3 * Dist(s.at, here) * Dist(s.at, here) THEN r ELSE s : r \in to(open)}

\* retreat, once there is a port and a shell is shot.
Withdraws(s) ==
    IF Dist(s.at, s.job.port) > DockRange
    THEN [s EXCEPT !.job.goal = s.job.port, !.at = Toward(@, s.job.port), !.on = FALSE]
    ELSE IF ~FullOfOthers(s, s.job.port)
    THEN [s EXCEPT !.job.docked = TRUE, !.job.retreating = FALSE, !.job.goal = None, !.on = FALSE]
    ELSE IF s.hp = MaxHealth THEN GivesUp(s)
    ELSE [s EXCEPT !.on = FALSE]
Retreats(s) == UNION {IF r.job.port = None THEN {GivesUp(r)}
                      ELSE {Withdraws(f) : f \in Fires(r)} : r \in Refreshed(s)}

\* should_start_repair_retreat, by the health before this turn's repair.
Threshold == (MaxHealth * 75) \div 100
Flees(s, hp) == hp < Threshold /\ s.job.grace >= Grace /\ PortsAt(s.job.by) # {}
Fled(s) == {[s EXCEPT !.job.retreating = TRUE, !.job.port = x] : x \in Nearest(PortsAt(s.job.by), s.at)}

\* The way on patrol; a ship that has come to its goal looks for the next one later.
Cruises(s) ==
    IF s.job.goal = None
    THEN {[s EXCEPT !.job.goal = IF x = s.at THEN None ELSE x, !.at = Toward(@, x)] :
            x \in {y \in Places : Dist(s.job.patrol, y) <= PatrolRange}}
    ELSE IF s.job.goal = s.at THEN {[s EXCEPT !.job.goal = None]}
    ELSE {[s EXCEPT !.at = Toward(@, s.job.goal)]}
\* hunt_trade_ship makes two of these steps.
Chase(s, u) == IF s.prize # None THEN s
               ELSE IF s.at = unit[u].at THEN [s EXCEPT !.prize = u]
               ELSE [s EXCEPT !.at = Toward(@, unit[u].at)]
Acts(s) == LET B == Best(s, Ships) IN
           IF B = {} THEN Cruises(s)
           ELSE UNION {IF unit[u].type = "Trade" THEN {Chase(Chase(s, u), u)}
                       ELSE Cruises(Shot(s, u)) : u \in B}

Sorties(s) ==
    LET risen    == {Undocked(Ordered(h)) : h \in Healed(s)}
        retired  == UNION {IF r.on /\ r.job.retreating THEN Retreats(r) ELSE {r} : r \in risen}
        sobered  == UNION {IF r.on /\ Flees(r, s.hp) THEN UNION {Retreats(f) : f \in Fled(r)}
                           ELSE {r} : r \in retired}
    IN  UNION {IF r.on THEN Acts(r) ELSE {r} : r \in sobered}

Aged(j) == [j EXCEPT !.since = Least(@ + 1, Gap + 1), !.grace = Least(@ + 1, Grace)]
ShipTurn ==
    /\ Turn("ship")
    /\ LET u == Me.unit IN
       \/ u \notin HeldBy(Me.by) /\ Done /\ UNCHANGED <<unit, uninit>>
       \/ /\ u \in HeldBy(Me.by)
          /\ \E s \in Sorties(Turning(Aged(Me), unit[u].at, unit[u].health)) :
                /\ unit' = [v \in UnitIds |->
                              IF v = u THEN [unit[u] EXCEPT !.at = s.at, !.health = s.hp]
                              ELSE IF v = s.prize THEN [unit[v] EXCEPT !.holder = Me.by]
                              ELSE unit[v]]
                /\ Stay(s.job) /\ Add(s.shots)
    /\ UNCHANGED gold /\ Tick

-----------------------------------------------------------------------------
(* ShellExecution.  The shell is its player's unit, so it goes when he dies. *)

Fuse == IF Me.fuse > 0 THEN Me.fuse - 1
        ELSE IF Me.fuse < 0 /\ ~Exists(Me.unit) THEN ShellLife
        ELSE Me.fuse
Dead(p) == \A i \in 1 .. Len(execs) : ~(execs[i].kind = "player" /\ execs[i].by = p)
Fails == \/ Me.built /\ Dead(Me.by)
         \/ Me.prey \notin HeldBy(Me.victim)
         \/ Fuse = 0
Hit(u, d) == IF unit[u].health <= d THEN Without({u})
             ELSE [unit EXCEPT ![u].health = @ - d]
ShellTurn ==
    /\ Turn("shell")
    /\ \/ Fails /\ Done /\ UNCHANGED unit
       \/ ~Fails /\ Done /\ \E d \in Damages : unit' = Hit(Me.prey, d)
       \/ /\ ~Fails /\ Me.left > 0
          /\ Stay([Me EXCEPT !.built = TRUE, !.left = @ - 1, !.fuse = Fuse])
          /\ UNCHANGED unit
    /\ UNCHANGED <<uninit, gold>> /\ Tick

-----------------------------------------------------------------------------
(* ConstructionExecution of a warship, and the inits, oldest first. *)

YardTurn ==
    /\ Turn("yard")
    /\ Add(<<ShipJob(Me.by, None, Me.at)>>) /\ Done
    /\ UNCHANGED <<unit, gold>> /\ Tick

Initing == UNCHANGED <<world, gold, todo, phase, cursor>>

InitPlain ==
    /\ \E k \in {"trade", "shell", "yard"} : DueInit(k)
    /\ Append1(New1)
    /\ UNCHANGED unit /\ Initing

\* At the port that is nearest to its patrol tile, if there is one, and the gold.
InitShip ==
    /\ DueInit("ship")
    /\ \/ /\ Has(New1.by) /\ FreeIds # {}
          /\ \E x \in Nearest(PortsAt(New1.by), New1.patrol) :
                unit' = [unit EXCEPT ![Fresh] = New("Warship", New1.by, x)]
          /\ Append1([New1 EXCEPT !.unit = Fresh])
       \/ Drop1 /\ UNCHANGED unit
    /\ Initing

\* move_warships: an order of its owner, to a ship under his command.
InitMove ==
    /\ DueInit("move")
    /\ uninit' = Tail(uninit)
    /\ execs' = [i \in DOMAIN execs |->
                   IF /\ New1.unit \in HeldBy(New1.by)
                      /\ execs[i].kind = "ship" /\ execs[i].by = New1.by
                      /\ execs[i].unit = New1.unit
                   THEN [execs[i] EXCEPT !.patrol = New1.at, !.goal = None]
                   ELSE execs[i]]
    /\ UNCHANGED unit /\ Initing

-----------------------------------------------------------------------------
(* What comes from outside: intents before the tick, and the executions of  *)
(* land war, diplomacy, nations and bombs in theirs.                        *)

Spent(f, x) == todo' = [todo EXCEPT ![f] = @ \ {x}]

\* turn_to_executions: build_unit and move_warship.
Order(x) ==
    /\ phase = "orders" /\ Add(<<x>>) /\ Spent("orders", x)
    /\ x.kind = "move" => x.unit \in OfType("Warship")
    /\ UNCHANGED <<world, unit, gold, execs, phase, cursor>>

Happens == phase = "turns" /\ UNCHANGED <<gold, uninit, phase, cursor>>

\* set_warship_patrol_tile, of a nation.
Steer(x) ==
    /\ Happens /\ Spent("steers", x)
    /\ execs' = [i \in DOMAIN execs |->
                   IF execs[i].kind = "ship" /\ execs[i].unit = x[1] /\ x[1] \in HeldBy(execs[i].by)
                   THEN [execs[i] EXCEPT !.patrol = x[2]] ELSE execs[i]]
    /\ UNCHANGED <<world, unit>>

Conquer(x) ==
    /\ Happens /\ Spent("landings", x)
    /\ Has(x[1]) /\ land[x[2]] # x[1]
    /\ land[x[2]] # Neutral => ~Friendly(x[1], land[x[2]])
    /\ land' = [land EXCEPT ![x[2]] = x[1]]
    /\ UNCHANGED <<allies, embargo, offline, unit, execs>>

HandedOverToAnyone(p, q) == q \in offline
HandedOver(p, q) == q \in offline /\ SameTeam(p, q)
\* conquer_player, and the land that its caller then takes.
Subdue(x) ==
    LET p == x[1]
        q == x[2] IN
    /\ Happens /\ Spent("falls", x)
    /\ Has(p) /\ Has(q) /\ ~Friendly(p, q)
    /\ land' = [y \in Places |-> IF land[y] = q THEN p ELSE land[y]]
    /\ unit' = [u \in UnitIds |->
                  IF /\ HandedOver(p, q)
                     /\ unit[u].holder = q /\ unit[u].type \in {"Warship", "Transport"}
                  THEN [unit[u] EXCEPT !.holder = p] ELSE unit[u]]
    /\ UNCHANGED <<allies, embargo, offline, execs>>

\* detonate
Bomb(x) ==
    /\ Happens /\ Spent("bombs", x)
    /\ land' = [land EXCEPT ![x] = Neutral]
    /\ unit' = Without({u \in UnitIds : unit[u].at = x})
    /\ UNCHANGED <<allies, embargo, offline, execs>>

\* TransportShipExecution: a boat puts to sea, and lands or turns back.
Embark(x) ==
    /\ Happens /\ Spent("boats", x)
    /\ Has(x[1]) /\ FreeIds # {}
    /\ unit' = [unit EXCEPT ![Fresh] = New("Transport", x[1], x[2])]
    /\ UNCHANGED <<world, execs>>
Arrive(u) ==
    /\ Happens
    /\ unit' = Without({u})
    /\ UNCHANGED <<world, execs, todo>>

\* AllianceRequestExecution and EmbargoExecution.
Realign(x) ==
    /\ Happens /\ Spent("pairs", x)
    /\ \A p \in x : Has(p)
    /\ allies' = IF x \in allies THEN allies \ {x} ELSE allies \cup {x}
    /\ UNCHANGED <<land, embargo, offline, unit, execs>>
Ban(x) ==
    /\ Happens /\ Spent("bans", x)
    /\ embargo' = embargo \cup {x}
    /\ UNCHANGED <<land, allies, offline, unit, execs>>

-----------------------------------------------------------------------------
Engine == \/ StartTick \/ StartInits \/ EndTick
          \/ PlayerTurn \/ PortTurn \/ TradeFails \/ TradeTurn
          \/ ShipTurn \/ ShellTurn \/ YardTurn
          \/ InitPlain \/ InitShip \/ InitMove
Outside == \/ \E x \in todo.orders : Order(x)
           \/ \E x \in todo.steers : Steer(x)
           \/ \E x \in todo.landings : Conquer(x)
           \/ \E x \in todo.falls : Subdue(x)
           \/ \E x \in todo.bombs : Bomb(x)
           \/ \E x \in todo.boats : Embark(x)
           \/ \E x \in todo.pairs : Realign(x)
           \/ \E x \in todo.bans : Ban(x)
           \/ \E u \in OfType("Transport") : Arrive(u)


-----------------------------------------------------------------------------
(* Properties. *)

\* A unit that is somewhere is somebody's, and has health.
SoundUnit == {v \in UnitType : IF v.type = "none" THEN v = NoUnit
                              ELSE v.holder # Neutral /\ v.at # None /\ v.health > 0}
UnitsOK == unit \in [UnitIds -> SoundUnit]
TypeOK ==
    /\ land \in [Places -> Players \cup {Neutral}]
    /\ allies \subseteq SUBSET Players /\ embargo \subseteq Players \X Players
    /\ offline \subseteq Players
    /\ UnitsOK
    /\ gold \in [Players -> Nat] /\ under \in [Players -> Nat \cup {Unmarked}]
    /\ todo \in TodoType
    /\ LoopTypeOK(JobType)

ShipJobs == {i \in 1 .. Len(execs) : execs[i].kind = "ship"}
InPort(p, x) == {i \in ShipJobs : /\ execs[i].docked /\ execs[i].port = x /\ execs[i].by = p
                                  /\ execs[i].unit \in HeldBy(p)}
\* The one place in the range of a port at x that the search of the grid leaves out: as
\* far away as a ship may dock, and the first of the next cell.
Beyond(x, y) == y = x + DockRange /\ y % Cell = 0
\* However the ships come, go, wait for one another and choose other ports, no more of
\* them are docked at a port than it has levels, but for the ones beyond the border of
\* its cell: those are not counted and take no berth.
BerthsSuffice ==
    \A u \in OfType("Port") :
        Cardinality({i \in InPort(unit[u].holder, unit[u].at) :
                        ~Beyond(unit[u].at, unit[execs[i].unit].at)}) <= unit[u].level

\* A ship its player has sent somewhere does not turn to a port before the time of
\* grace is over, whatever it has been hit by, and leaves the one it was in.
OrdersComeFirst ==
    \A i \in ShipJobs : execs[i].grace < Grace => ~execs[i].retreating /\ ~execs[i].docked

Steered(u) == {i \in ShipJobs : execs[i].unit = u /\ execs[i].by = unit[u].holder}
Adrift == {u \in OfType("Warship") : Steered(u) = {}}
\* A warship has one WarshipExecution of its holder, and never loses it but to a teammate
\* who takes the ships of one that is offline: conquer_player hands it over without one.
OnlyHeirsDrift ==
    [][/\ \A u \in OfType("Warship") : Cardinality(Steered(u)) <= 1
       /\ \A u \in Adrift' \ Adrift : /\ unit[u].holder \in offline
                                      /\ SameTeam(unit[u].holder, unit'[u].holder)]_vars

Earners == {p \in Players : gold'[p] > gold[p]}
\* Who is paid for a voyage is who it is for: a pirate for a ship it holds and brought
\* to its own port, else the holders of both ports, who are two that trade.
VoyagesPayTheRightOnes ==
    [][Earners # {} =>
         LET ended == Me
             p == IF Me.unit = None THEN Me.by ELSE unit[Me.unit].holder IN
         IF ended.robbed \/ p # ended.by
         THEN Earners = {p} /\ unit[ended.unit].at \in PortsAt(p)
         ELSE /\ Cardinality(Earners) = 2 /\ unit[ended.dst].holder \in Earners
              /\ CanTrade(p, unit[ended.dst].holder)]_vars

\* Every voyage ends, whoever takes the ship and whatever becomes of its ports.
VoyagesEnd == []<>(OfType("Trade") = {})

\* No warship stays in a port, or on the way to one, for ever: it is repaired, gives up,
\* or is sunk.
ShipsReturnToSea ==
    \A u \in UnitIds : []<>(\A i \in ShipJobs : execs[i].unit = u =>
                                              ~execs[i].docked /\ ~execs[i].retreating)
=============================================================================
