------------------------------ MODULE Arsenal ------------------------------
(***************************************************************************)
(* Structures and missiles of the OpenFront engine (src/rust/engine/src):  *)
(* building, capturing, upgrading and deleting structures, launching bombs *)
(* and MIRVs from silos, and shooting them down from SAM launchers.        *)
(*                                                                         *)
(* Cities, factories and ports take their turns in Rail, which completes   *)
(* this module and has the specification of both.                          *)
(*                                                                         *)
(* Geometry is a choice: how long a missile flies, whether a SAM launcher  *)
(* can reach a bomb in this tick, which ready silo is the nearest.  So is  *)
(* whether a player can pay; gold itself is left out.  Times are kept as   *)
(* ages, which stop growing when they no longer matter.  The id of a unit  *)
(* is used again once the unit is gone and no execution names it.          *)
(***************************************************************************)
EXTENDS Turns, FiniteSets, SequencesExt

CONSTANTS
    Players,          \* 1 .. n, the small ids
    Humans,           \* they become allies by asking one another
    Team,             \* [Players -> team]; all different without teams
    Tiles,            \* each stands for an area of land
    Zone,             \* [Tiles -> SUBSET Tiles], what a bomb on the tile may reach
    InitOwner,        \* [Tiles -> Players \cup {0}]
    UnitIds,          \* 1 .. n, bound: units at a time
    Plans,            \* what stands at the start, finished: <<type, holder, tile>>;
                      \* bound: what may come from outside in a run, once each: orders,
                      \* <<player, tile>> landings and {p, q} pairs; how many trains run
    Duration,         \* construction_ticks, 0 with instant_build
    Cooldown,         \* silo_cooldown and sam_cooldown, both 90 in the code
    Flights,          \* the turns a missile may fly before it strikes
    WarheadWaits,     \* the ticks a warhead may wait, 0 .. 14 in the code
    WarheadCount,     \* 350 in the code
    DeletionTicks,    \* DELETION_MARK_DURATION_TICKS
    DeleteCooldown    \* DELETE_UNIT_COOLDOWN_TICKS

Neutral == 0
NoUnitId == 0
Unmarked == -1
Structures == {"City", "Factory", "Port", "Post", "Silo", "SAM"}
Launchers  == {"Silo", "SAM"}
Bombs      == {"Bomb", "MIRV", "Warhead"}
UnitTypes  == Structures \cup Bombs \cup {"Missile", "Train", "none"}

\* build_unit, upgrade_structure and delete_unit, as a player may send them.
OrderType == [kind : {"build"}, by : Players, type : Structures \cup {"Bomb", "MIRV"},
              tile : Tiles, unit : {NoUnitId}]
             \cup [kind : {"upgrade", "delete"}, by : Players, type : {"none"}, tile : {0},
                   unit : UnitIds]
PlanType == [bases : Seq(Structures \X Players \X Tiles), orders : SUBSET OrderType,
             landings : SUBSET (Players \X Tiles), pairs : SUBSET SUBSET Players, trains : Nat]

ASSUME ArsenalAssumption ==
    /\ IsFiniteSet(Players) /\ Players = 1 .. Cardinality(Players) /\ Humans \subseteq Players
    /\ IsFiniteSet(Tiles)
    /\ Zone \in [Tiles -> SUBSET Tiles] /\ \A t \in Tiles : t \in Zone[t]
    /\ InitOwner \in [Tiles -> Players \cup {Neutral}]
    /\ IsFiniteSet(UnitIds) /\ UnitIds = 1 .. Cardinality(UnitIds)
    /\ \A plan \in Plans : plan \in PlanType /\ Len(plan.bases) \in UnitIds
    /\ Duration \in Nat /\ Cooldown \in Nat \ {0} /\ WarheadCount \in Nat \ {0}
    /\ Flights # {} /\ Flights \subseteq Nat
    /\ DeletionTicks \in Nat /\ DeleteCooldown \in Nat

VARIABLES
    owner,        \* map.owner_id
    allies,       \* Game.alliances: a set of two-player sets
    unit,         \* the fields of a Unit
    lastDelete,   \* ticks since Player.last_delete_unit_tick
    todo          \* bound: what may still be ordered and happen from outside

vars == <<loopVars, owner, allies, unit, lastDelete, todo>>

UnitType == [type : UnitTypes, holder : Players \cup {Neutral}, tile : Tiles \cup {0},
             building : BOOLEAN, level : Nat,
             queue : Seq(0 .. Cooldown), locked : BOOLEAN,
             doom : Unmarked .. DeletionTicks + 1]
NoUnit == [type |-> "none", holder |-> Neutral, tile |-> 0, building |-> FALSE, level |-> 0,
           queue |-> <<>>, locked |-> FALSE, doom |-> Unmarked]

Kinds == {"player", "build", "city", "factory", "port", "post", "silo", "sam", "hunt",
          "nuke", "mirv", "upgrade", "delete"}
JobType == [kind : Kinds, by : Players, type : UnitTypes, tile : Tiles \cup {0},
            unit : UnitIds \cup {NoUnitId}, prey : UnitIds \cup {NoUnitId},
            from : UnitIds \cup {NoUnitId}, victim : Players \cup {Neutral},
            left : Nat, wait : Nat]
Job(k, p) == [kind |-> k, by |-> p, type |-> "none", tile |-> 0, unit |-> NoUnitId,
              prey |-> NoUnitId, from |-> NoUnitId, victim |-> Neutral, left |-> 0, wait |-> 0]

-----------------------------------------------------------------------------
(* The map and the units. *)

Land(p) == {t \in Tiles : owner[t] = p}
Has(p) == Land(p) # {}
Exists(u) == unit[u].type # "none"
HeldBy(p) == {u \in UnitIds : unit[u].holder = p}
OfType(T) == {u \in UnitIds : unit[u].type \in T}
On(S) == {u \in OfType(Structures) : unit[u].tile \in S}

SameTeam(a, b) == a # b /\ Team[a] = Team[b]
Friendly(a, b) == a = b \/ SameTeam(a, b) \/ {a, b} \in allies

\* unit_is_in_cooldown: the queue is exactly full.
InCooldown(u) == Len(unit[u].queue) = unit[u].level

\* would_nuke_break_alliance: whom a bomb on t hits, with land or structures.
Threatened(own, un, t) == ({own[s] : s \in Zone[t]} \cup
                           {un[u].holder : u \in {v \in UnitIds : un[v].type \in Structures
                                                              /\ un[v].tile \in Zone[t]}})
                          \ {Neutral}
\* The bombs of p that would hit q.
Aimed(own, un, p, q) == {u \in UnitIds : /\ un[u].type = "Bomb" /\ un[u].holder = p
                                         /\ q \in Threatened(own, un, un[u].tile)}

\* remove_unit
WithoutStructures(S) == [u \in UnitIds |-> IF u \in S /\ unit[u].type \in Structures
                                           THEN NoUnit ELSE unit[u]]
Without(S) == [u \in UnitIds |-> IF u \in S THEN NoUnit ELSE unit[u]]

Named == UNION {{job.unit, job.prey, job.from} : job \in Range(execs) \cup Range(uninit)}
\* bound: there are as many units as ids
FreeIds == {u \in UnitIds : ~Exists(u) /\ u \notin Named}
Fresh == CHOOSE u \in FreeIds : TRUE

\* build_unit
New(type, p, t) == [NoUnit EXCEPT !.type = type, !.holder = p, !.tile = t, !.level = 1]
\* unit_launch
Launched(un, u) == [un EXCEPT ![u].queue = Append(@, 0)]
\* The reload at the head of the turn of a silo or a SAM launcher.
Reloaded(u) == IF unit[u].queue # <<>> /\ unit[u].queue[1] >= Cooldown
               THEN [unit EXCEPT ![u].queue = Tail(@)]
               ELSE unit

-----------------------------------------------------------------------------
(* The executions. *)

Tick == UNCHANGED <<phase, lastDelete, todo>>

Runner(type) == CASE type = "Silo" -> "silo" [] type = "SAM" -> "sam" [] type = "Post" -> "post"
                  [] type = "City" -> "city" [] type = "Port" -> "port" [] OTHER -> "factory"
RunnerOf(type, p, u) == [Job(Runner(type), p) EXCEPT !.unit = u]

-----------------------------------------------------------------------------
\* With other executions that stand in the list before those of the structures.
Init(others) ==
    /\ todo \in Plans
    /\ owner = InitOwner
    /\ allies = {}
    /\ unit = [u \in UnitIds |->
                 IF u <= Len(todo.bases)
                 THEN New(todo.bases[u][1], todo.bases[u][2], todo.bases[u][3])
                 ELSE NoUnit]
    /\ LoopInit([p \in Players |-> Job("player", p)] \o others \o
                [i \in 1 .. Len(todo.bases) |-> RunnerOf(todo.bases[i][1], todo.bases[i][2], i)])
    /\ lastDelete = [p \in Players |-> DeleteCooldown]

-----------------------------------------------------------------------------
(* execute_next_tick. *)

StartTick == OpenTick /\ UNCHANGED <<owner, allies, unit, lastDelete, todo>>
StartInits == AllHadTurns /\ UNCHANGED <<owner, allies, unit, lastDelete, todo>>

Older(age, most) == IF age < most THEN age + 1 ELSE age
EndTick ==
    /\ CloseTick
    /\ unit' = [u \in UnitIds |->
                  [unit[u] EXCEPT
                     !.queue = [i \in DOMAIN @ |-> Older(@[i], Cooldown)],
                     !.doom = IF @ = Unmarked THEN @ ELSE Older(@, DeletionTicks + 1)]]
    /\ lastDelete' = [p \in Players |-> Older(lastDelete[p], DeleteCooldown)]
    /\ UNCHANGED <<owner, allies, todo>>

-----------------------------------------------------------------------------
(* PlayerExecution. *)

CapturedAsItIs(u) == [unit[u] EXCEPT !.holder = owner[unit[u].tile]]
\* capture_unit
Captured(u) == [unit[u] EXCEPT !.holder = owner[unit[u].tile], !.doom = Unmarked]
\* reconcile_structure_ownership: what p still holds follows the land under it.
Reconciled(p) ==
    [u \in UnitIds |->
       IF u \notin HeldBy(p) \cap OfType(Structures) \/ owner[unit[u].tile] = p THEN unit[u]
       ELSE IF owner[unit[u].tile] = Neutral \/ unit[u].type = "Post" THEN NoUnit
       ELSE Captured(u)]
BuriedStructures(un, p) == [u \in UnitIds |-> IF un[u].holder = p /\ un[u].type \in Structures
                                              THEN NoUnit ELSE un[u]]
\* remove_on_death: all but the missiles in flight.
Buried(un, p) == [u \in UnitIds |-> IF un[u].holder = p /\ un[u].type \notin Bombs
                                    THEN NoUnit ELSE un[u]]

PlayerTurn ==
    /\ Turn("player")
    /\ LET p == Me.by IN
       IF Has(p)
       THEN unit' = Reconciled(p) /\ Stay(Me) /\ UNCHANGED allies
       ELSE /\ unit' = Buried(Reconciled(p), p)
            /\ allies' = {a \in allies : p \notin a}
            /\ Done
    /\ UNCHANGED <<owner, uninit>> /\ Tick

-----------------------------------------------------------------------------
(* ConstructionExecution. *)

\* A missile is handed on to an execution of its own.
Delegate ==
    /\ Turn("build") /\ Me.type \notin Structures
    /\ Add(<<[Job(IF Me.type = "MIRV" THEN "mirv" ELSE "nuke", Me.by)
                EXCEPT !.type = Me.type, !.tile = Me.tile]>>)
    /\ Done
    /\ UNCHANGED <<owner, allies, unit>> /\ Tick

Sites(p) == {t \in Land(p) : On({t}) = {}}
Lay ==
    /\ Turn("build") /\ Me.type \in Structures /\ Me.unit = NoUnitId
    /\ owner[Me.tile] = Me.by /\ FreeIds # {}
    /\ \E t \in Sites(Me.by) :
          LET u == Fresh
              new == New(Me.type, Me.by, t) IN
          IF Duration > 0
          THEN /\ unit' = [unit EXCEPT ![u] = [new EXCEPT !.building = TRUE]]
               /\ Stay([Me EXCEPT !.unit = u, !.left = Duration])
               /\ UNCHANGED uninit
          ELSE /\ unit' = [unit EXCEPT ![u] = new]
               /\ Add(<<RunnerOf(Me.type, Me.by, u)>>)
               /\ Done
    /\ UNCHANGED <<owner, allies>> /\ Tick

\* No site, or no gold.
GiveUp ==
    /\ Turn("build") /\ Me.type \in Structures /\ Me.unit = NoUnitId
    /\ Done
    /\ UNCHANGED <<owner, allies, unit, uninit>> /\ Tick

Build ==
    /\ Turn("build") /\ Me.unit # NoUnitId
    /\ LET u == Me.unit IN
       IF ~Exists(u)
       THEN Done /\ UNCHANGED <<unit, uninit>>
       ELSE IF Me.left = 0
       THEN /\ unit' = [unit EXCEPT ![u].building = FALSE]
            /\ Add(<<RunnerOf(Me.type, unit[u].holder, u)>>)
            /\ Done
       ELSE /\ Stay([Me EXCEPT !.by = unit[u].holder, !.left = @ - 1])
            /\ UNCHANGED <<unit, uninit>>
    /\ UNCHANGED <<owner, allies>> /\ Tick

-----------------------------------------------------------------------------
(* What a finished structure does in its turn, for whoever holds it. *)

GoneOrLost == unit[Me.unit].holder # Me.by /\ Done /\ UNCHANGED <<unit, uninit>>
Gone == ~Exists(Me.unit) /\ Done /\ UNCHANGED <<unit, uninit>>
Held == [Me EXCEPT !.by = unit[Me.unit].holder]

\* DefensePostExecution
PostTurn ==
    /\ Turn("post")
    /\ \/ Gone
       \/ Exists(Me.unit) /\ Stay(Held) /\ UNCHANGED <<unit, uninit>>
    /\ UNCHANGED <<owner, allies>> /\ Tick

\* MissileSiloExecution
SiloTurn ==
    /\ Turn("silo")
    /\ \/ Gone
       \/ Exists(Me.unit) /\ Stay(Held) /\ unit' = Reloaded(Me.unit) /\ UNCHANGED uninit
    /\ UNCHANGED <<owner, allies>> /\ Tick

Enemies(T, p) == {u \in OfType(T) : ~Friendly(p, unit[u].holder)}
\* Warheads that come down near the launcher, bombs no other missile is after.
Incoming(p, t) == {u \in Enemies({"Warhead"}, p) : t \in Zone[unit[u].tile]}
PreyOfOthersToo(p) == Enemies({"Bomb"}, p)
Prey(p) == {u \in Enemies({"Bomb"}, p) : ~unit[u].locked}

\* SamLauncherExecution
SamTurn ==
    /\ Turn("sam")
    /\ \/ Gone
       \/ /\ Exists(Me.unit) /\ Stay(Held)
          /\ LET s == Me.unit
                 p == unit[s].holder
                 un == Reloaded(s)
                 ready == Len(un[s].queue) # un[s].level
                 hits == Incoming(p, unit[s].tile)
             IN
             \/ /\ ready /\ hits # {}
                /\ unit' = [u \in UnitIds |-> IF u \in hits THEN NoUnit ELSE Launched(un, s)[u]]
                /\ UNCHANGED uninit
             \/ /\ ready /\ hits = {}
                /\ \E u \in Prey(p), n \in Flights :
                      /\ unit' = [Launched(un, s) EXCEPT ![u].locked = TRUE]
                      /\ Add(<<[Job("hunt", p) EXCEPT !.prey = u, !.from = s, !.left = n,
                                                      !.victim = unit[u].holder]>>)
             \* In cooldown, nothing to shoot at, or nothing within reach yet.
             \/ /\ ~ready \/ hits = {}
                /\ unit' = un /\ UNCHANGED uninit
    /\ UNCHANGED <<owner, allies>> /\ Tick

\* SamMissileExecution
HuntTurn ==
    /\ Turn("hunt") /\ (Me.unit = NoUnitId => FreeIds # {})
    /\ LET born == Me.unit # NoUnitId
           m    == IF born THEN Me.unit ELSE Fresh
           un   == IF born THEN unit ELSE [unit EXCEPT ![m] = New("Missile", Me.by, 0)]
           prey == un[Me.prey].holder = Me.victim
           sam  == un[Me.from].holder = Me.by
       IN
       IF un[m].holder # Me.by
       THEN Done /\ UNCHANGED unit
       ELSE IF ~prey \/ ~sam
       THEN /\ unit' = [u \in UnitIds |-> IF u = m THEN NoUnit
                          ELSE IF u = Me.prey /\ prey THEN [un[u] EXCEPT !.locked = FALSE]
                          ELSE un[u]]
            /\ Done
       ELSE IF Me.left = 0
       THEN unit' = [un EXCEPT ![m] = NoUnit, ![Me.prey] = NoUnit] /\ Done
       ELSE unit' = un /\ Stay([Me EXCEPT !.unit = m, !.left = @ - 1])
    /\ UNCHANGED <<owner, allies, uninit>> /\ Tick

-----------------------------------------------------------------------------
(* NukeExecution: atom and hydrogen bombs, and the warheads of a MIRV. *)

ReadyOrNot(p, t) == {u \in HeldBy(p) \cap OfType({"Silo"}) :
                       Has(p) /\ (owner[t] # Neutral => ~SameTeam(p, owner[t]))}
\* can_build_nuke and nuke_spawn: the silos from which p may launch at t.
Ready(p, t) == {u \in HeldBy(p) \cap OfType({"Silo"}) :
                  /\ Has(p) /\ ~unit[u].building /\ ~InCooldown(u)
                  /\ owner[t] # Neutral => ~SameTeam(p, owner[t])}
Spares(p, t) == \A u \in On(Zone[t]) : ~SameTeam(p, unit[u].holder)

BrokenAtTheCentre(p, t) == {a \in allies : a = {p, owner[t]}}
\* maybe_break_alliances, by a bomb of p on t.
Broken(p, t) == {a \in allies : \E q \in Threatened(owner, unit, t) : a = {p, q}}

Launch ==
    /\ Turn("nuke") /\ Me.unit = NoUnitId /\ FreeIds # {}
    /\ LET u == Fresh IN
       \/ /\ Me.type = "Bomb" /\ Spares(Me.by, Me.tile)
          /\ \E s \in Ready(Me.by, Me.tile), n \in Flights :
                /\ unit' = Launched([unit EXCEPT ![u] = New("Bomb", Me.by, Me.tile)], s)
                /\ Stay([Me EXCEPT !.unit = u, !.left = n])
          /\ allies' = allies \ Broken(Me.by, Me.tile)
       \* A warhead starts where it comes down; a silo that its owner has there
       \* is taken for the one it was launched from, ready or not.
       \/ /\ Me.type = "Warhead"
          /\ LET un == [unit EXCEPT ![u] = New("Warhead", Me.by, Me.tile)]
                 silos == HeldBy(Me.by) \cap OfType({"Silo"}) \cap On({Me.tile})
             IN  \/ silos = {} /\ unit' = un
                 \/ \E s \in silos : unit' = Launched(un, s)
          /\ Stay([Me EXCEPT !.unit = u])
          /\ UNCHANGED allies
    /\ UNCHANGED <<owner, uninit>> /\ Tick

\* No silo is ready, the target is a teammate's, or there is no gold.
Fizzle ==
    /\ Turn("nuke") /\ Me.type = "Bomb" /\ Me.unit = NoUnitId
    /\ Done
    /\ UNCHANGED <<owner, allies, unit, uninit>> /\ Tick

Reach(type, t) == IF type = "Bomb" THEN Zone[t] ELSE {t}
\* detonate: the land at the centre is lost, that around it by chance, and with
\* it every structure within reach, whosever it is, but for those on the very rim,
\* and the trains that happen to be there.
Detonate ==
    LET around == Reach(Me.type, Me.tile) \ {Me.tile} IN
    /\ \E S \in SUBSET around, rim \in SUBSET around, caught \in SUBSET OfType({"Train"}) :
          /\ owner' = [t \in Tiles |-> IF t \in S \cup {Me.tile} THEN Neutral ELSE owner[t]]
          /\ unit' = Without(On({Me.tile} \cup (around \ rim)) \cup caught \cup {Me.unit})
    /\ Done

NukeTurn ==
    /\ Turn("nuke") /\ Me.unit # NoUnitId
    /\ \/ ~Exists(Me.unit) /\ Done /\ UNCHANGED <<owner, unit>>
       \/ /\ Exists(Me.unit) /\ Me.wait > 0
          /\ Stay([Me EXCEPT !.wait = @ - 1]) /\ UNCHANGED <<owner, unit>>
       \/ /\ Exists(Me.unit) /\ Me.wait = 0 /\ Me.left > 0
          /\ Stay([Me EXCEPT !.left = @ - 1]) /\ UNCHANGED <<owner, unit>>
       \/ Exists(Me.unit) /\ Me.wait = 0 /\ Me.left = 0 /\ Detonate
    /\ UNCHANGED <<allies, uninit>> /\ Tick

-----------------------------------------------------------------------------
(* MirvExecution. *)

MirvLaunch ==
    /\ Turn("mirv") /\ Me.unit = NoUnitId
    /\ \/ /\ owner[Me.tile] # Neutral /\ Ready(Me.by, Me.tile) # {} /\ FreeIds # {}
          /\ \E n \in Flights \ {0} :
                LET u == Fresh IN
                /\ unit' = [unit EXCEPT ![u] = New("MIRV", Me.by, Me.tile)]
                /\ Stay([Me EXCEPT !.unit = u, !.left = n - 1])
       \* As in Fizzle.
       \/ Done /\ UNCHANGED unit
    /\ UNCHANGED <<owner, allies, uninit>> /\ Tick

\* select_destinations: the target, and land of whoever held it at the launch.
Warheads(D, w) == [i \in 1 .. Cardinality(D) |->
                     LET t == SetToSeq(D)[i] IN
                     [Job("nuke", Me.by) EXCEPT !.type = "Warhead", !.tile = t, !.wait = w[t]]]
MirvTurn ==
    /\ Turn("mirv") /\ Me.unit # NoUnitId
    /\ \/ Me.left > 0 /\ Stay([Me EXCEPT !.left = @ - 1]) /\ UNCHANGED <<unit, uninit>>
       \/ /\ Me.left = 0
          /\ \E S \in SUBSET (Land(Me.victim) \ {Me.tile}) :
                /\ Cardinality(S) < WarheadCount
                /\ \E w \in [S \cup {Me.tile} -> WarheadWaits] :
                      Add(Warheads(S \cup {Me.tile}, w))
          /\ unit' = Without({Me.unit})
          /\ Done
    /\ UNCHANGED <<owner, allies>> /\ Tick

-----------------------------------------------------------------------------
(* DeleteUnitExecution, once its init has marked the unit. *)

DeleteTurn ==
    /\ Turn("delete")
    /\ \/ unit[Me.unit].holder # Me.by /\ Done /\ UNCHANGED unit
       \/ /\ unit[Me.unit].holder = Me.by /\ unit[Me.unit].doom > DeletionTicks
          /\ unit' = Without({Me.unit}) /\ Done
       \/ /\ unit[Me.unit].holder = Me.by /\ unit[Me.unit].doom <= DeletionTicks
          /\ Stay(Me) /\ UNCHANGED unit
    /\ UNCHANGED <<owner, allies, uninit>> /\ Tick

-----------------------------------------------------------------------------
(* The inits, oldest first. *)

Initing == UNCHANGED <<owner, phase, cursor, todo>>

\* No more than to remember the tick.
InitPlain ==
    /\ \E k \in Kinds \ {"mirv", "upgrade", "delete"} : DueInit(k)
    /\ Append1(New1)
    /\ UNCHANGED <<allies, unit, lastDelete>> /\ Initing

\* The alliance ends before it is known whether the launch will come off.
InitMirv ==
    /\ DueInit("mirv")
    /\ Append1([New1 EXCEPT !.victim = owner[New1.tile]])
    /\ allies' = allies \ {{New1.by, owner[New1.tile]}}
    /\ UNCHANGED <<unit, lastDelete>> /\ Initing

\* upgrade_unit: the new slot starts in its cooldown.
Upgraded(u) == [unit EXCEPT ![u].level = @ + 1,
                            ![u].queue = IF unit[u].type \in Launchers THEN Append(@, 0) ELSE @]
InitUpgrade ==
    /\ DueInit("upgrade") /\ Drop1
    /\ \/ LET u == New1.unit IN
          /\ unit[u].holder = New1.by /\ Has(New1.by) /\ ~unit[u].building
          /\ unit[u].type \in Structures \ {"Post"}
          /\ unit' = Upgraded(u)
       \* Refused: gone, lost, under construction, or no gold.
       \/ UNCHANGED unit
    /\ UNCHANGED <<allies, lastDelete>> /\ Initing

InitDelete ==
    LET u == New1.unit
        p == New1.by
        may == unit[u].holder = p /\ owner[unit[u].tile] = p /\ lastDelete[p] >= DeleteCooldown
    IN
    /\ DueInit("delete")
    /\ \/ /\ may
          /\ unit' = [unit EXCEPT ![u].doom = 0]
          /\ lastDelete' = [lastDelete EXCEPT ![p] = 0]
          /\ Append1(New1)
       \/ ~may /\ Drop1 /\ UNCHANGED <<unit, lastDelete>>
    /\ UNCHANGED allies /\ Initing

-----------------------------------------------------------------------------
(* What comes from outside: intents before the tick, and the executions of *)
(* land war and diplomacy in theirs.                                       *)

Spent(f, x) == todo' = [todo EXCEPT ![f] = @ \ {x}]

\* turn_to_executions: build_unit, upgrade_structure, delete_unit.
Order(x) ==
    /\ phase = "orders"
    /\ Add(<<[Job(x.kind, x.by) EXCEPT !.type = x.type, !.tile = x.tile, !.unit = x.unit]>>)
    /\ x.kind # "build" => x.unit \in HeldBy(x.by) \cap OfType(Structures)
    /\ Spent("orders", x)
    /\ UNCHANGED <<owner, allies, unit, execs, phase, cursor, lastDelete>>

Conquer(x) ==
    /\ phase = "turns"
    /\ owner[x[2]] # x[1] /\ Has(x[1])
    /\ owner[x[2]] # Neutral => ~Friendly(x[1], owner[x[2]])
    /\ owner' = [owner EXCEPT ![x[2]] = x[1]]
    /\ Spent("landings", x)
    /\ UNCHANGED <<allies, unit, execs, uninit, phase, cursor, lastDelete>>

\* create_alliance_request, when the two have asked one another: the bombs that
\* would break the new alliance are called off (cancel_nukes_between_new_allies).
CalledOff(p, q) == Aimed(owner, unit, p, q) \cup Aimed(owner, unit, q, p)
\* accept_alliance_request, the answer of a nation or a bot, leaves them flying.
Ally(x) ==
    /\ phase \in {"turns", "inits"} /\ x \notin allies
    /\ \A p \in x : Has(p)
    /\ allies' = allies \cup {x}
    /\ Spent("pairs", x)
    /\ \/ unit' = Without(UNION {CalledOff(p, q) : p, q \in x})
       \/ ~(x \subseteq Humans) /\ UNCHANGED unit
    /\ UNCHANGED <<owner, execs, uninit, phase, cursor, lastDelete>>

\* break_alliance_between and expire_alliances_for.
Part(x) ==
    /\ phase \in {"turns", "inits"}
    /\ allies' = allies \ {x}
    /\ UNCHANGED <<owner, unit, execs, uninit, phase, cursor, lastDelete, todo>>

-----------------------------------------------------------------------------
Engine == \/ StartTick \/ StartInits \/ EndTick
          \/ PlayerTurn \/ Delegate \/ Lay \/ GiveUp \/ Build
          \/ PostTurn \/ SiloTurn \/ SamTurn \/ HuntTurn
          \/ Launch \/ Fizzle \/ NukeTurn \/ MirvLaunch \/ MirvTurn \/ DeleteTurn
          \/ InitPlain \/ InitMirv \/ InitUpgrade \/ InitDelete
Outside == \/ \E x \in todo.orders : Order(x)
           \/ \E x \in todo.landings : Conquer(x)
           \/ \E x \in todo.pairs : Ally(x)
           \/ \E x \in allies : Part(x)

-----------------------------------------------------------------------------
(* Properties. *)

TypeOK ==
    /\ owner \in [Tiles -> Players \cup {Neutral}]
    /\ allies \subseteq SUBSET Players
    /\ unit \in [UnitIds -> UnitType]
    /\ \A u \in UnitIds : /\ unit[u].holder = Neutral <=> ~Exists(u)
                          /\ unit[u].type \in Structures => unit[u].tile \in Tiles
    /\ lastDelete \in [Players -> 0 .. DeleteCooldown]

Overfull(un) == {u \in UnitIds : un[u].type \in Launchers /\ Len(un[u].queue) > un[u].level}
Falling(un, u) == {w \in UnitIds : un[w].type = "Warhead" /\ un[w].tile = un[u].tile
                                                       /\ un[w].holder = un[u].holder}
\* Only the warheads of its own holder, coming down on it, give a silo more missiles
\* to reload than it has slots: no launch and no upgrade does. unit_is_in_cooldown
\* asks for equality, so with one too many it is ready again, whatever it has fired.
OnlyWarheadsOverfill ==
    [][\A u \in Overfull(unit') \ Overfull(unit) : Falling(unit', u) \ Falling(unit, u) # {}]_vars

\* A silo or launcher that has fired all it has is not ready again before its oldest
\* missile is reloaded: what missile_silo_stays_in_cooldown_for_exactly_silo_cooldown_ticks
\* tests for an ordinary launch.
StaysInCooldown ==
    [][\A u \in OfType(Launchers) :
         InCooldown(u) /\ unit[u].queue[1] < Cooldown /\ unit'[u].type # "none"
            => Len(unit'[u].queue) = unit'[u].level]_vars

AllJobs(k) == {i \in 1 .. Len(execs) : execs[i].kind = k}
NewJobs(k) == {i \in 1 .. Len(uninit) : uninit[i].kind = k}
HuntersOf(u) == Cardinality({i \in AllJobs("hunt") : execs[i].prey = u}) +
                Cardinality({i \in NewJobs("hunt") : uninit[i].prey = u})
Dead(p) == \A i \in AllJobs("player") : execs[i].by # p
\* A bomb is targeted_by_sam exactly while one missile is after it, or for ever
\* when that missile went with its dead owner (SamMissileExecution, remove_on_death).
MarksAreBacked ==
    \A u \in OfType({"Bomb"}) :
        IF unit[u].locked
        THEN HuntersOf(u) = 1 \/ (HuntersOf(u) = 0 /\ \E p \in Players : Dead(p))
        ELSE HuntersOf(u) = 0

RunsOf(k, u) == Cardinality({i \in AllJobs(k) : execs[i].unit = u}) +
                Cardinality({i \in NewJobs(k) : uninit[i].unit = u})
\* Every structure, captured or not, has the one execution that works for it: the
\* ConstructionExecution until it is finished, then its own, and never two.
EveryStructureIsRun ==
    \A u \in OfType(Structures) :
        /\ RunsOf("build", u) = IF unit[u].building THEN 1 ELSE 0
        /\ RunsOf(Runner(unit[u].type), u) = IF unit[u].building THEN 0 ELSE 1

\* A unit marked for deletion belongs to someone who has ordered it: its capture
\* takes the mark off, and a DeleteUnitExecution of its holder will carry it out.
DeletionsAreOrdered ==
    \A u \in OfType(Structures) :
        unit[u].doom # Unmarked =>
            \E i \in AllJobs("delete") : execs[i].unit = u /\ execs[i].by = unit[u].holder

\* A player whose PlayerExecution is over holds nothing but missiles in flight.
TheDeadHoldNothing ==
    \A p \in Players : Dead(p) => HeldBy(p) \subseteq OfType(Bombs)

Standing == {<<unit[u].holder, unit[u].tile>> : u \in OfType(Structures)}
Menaces == {m \in OfType({"Bomb"}) \X Humans :
              LET p == unit[m[1]].holder IN
              /\ p \in Humans /\ {p, m[2]} \in allies
              /\ m[2] \in Threatened(owner, unit, unit[m[1]].tile)}
\* No bomb of a human comes to threaten his human ally unless land or a structure
\* changes hands: a launch breaks the alliances it threatens, and an alliance
\* calls off the bombs (maybe_break_alliances, cancel_nukes_between_new_allies).
NoThreatToAnAlly ==
    [][owner' = owner /\ Standing' \subseteq Standing => Menaces' \subseteq Menaces]_vars

\* With no more orders than Plans has, every missile comes down, whatever becomes
\* of its owner, its silo or its target: the sky is empty again and again.
MissilesComeDown == []<>(OfType(Bombs \cup {"Missile"}) = {})

\* And every silo or launcher that has fired all it has gets a missile back,
\* whoever has captured it meanwhile.
EveryShotReloads == []<>(\A u \in OfType(Launchers) : ~InCooldown(u))
=============================================================================
