# TLA+ models of openfront-ai

These modules specify parts of openfront-ai: a Rust port of the OpenFront.io
engine, a PPO trainer that plays it, and the services that keep its checkpoints
and show its games. TLC checks the modules on small instances; TLAPS proves
theorems about them for every value of their constants.

    tlc -workers 2 -config WarSea.cfg MCWarfare.tla
    tlc -workers 2 -config Arsenal.cfg MCArsenal.tla
    tlc -workers 2 -config Ckpt.cfg Checkpoints.tla
    tlapm DiplomacyProofs.tla
    tlapm WarfareProofs.tla
    tlapm FleetProofs.tla
    tlapm TrainingProofs.tla
    tlapm RailProofs.tla
    tlapm NetworkProofs.tla

`PROJECT.json` ties every definition to the source lines it models, every
property to a mutant of the model that breaks it, and every hazard of the code
to the properties about it.

## 1. Inventory of the system

| Component | Source | State | Operations | What is hard | What makes it correct |
|---|---|---|---|---|---|
| tick loop | `rust/engine/src/game.rs` (`execute_next_tick`), `execution/exec_enum.rs` | `execs`, `uninit`, `ticks`, `spawn_phase` | tick every execution in insertion order, initialise the new ones, drop the inactive | an execution added in a turn is initialised in the same tick; one that was deleted by another still gets a turn | whoever is in the lists is treated once per tick, nobody is lost |
| land war | `execution/attack.rs`, `retreat.rs`, `transport_ship.rs`, `player.rs`, `player_clusters.rs`, `game.rs` | tiles' owners, troops, attacks with registries at both players, transports and their units | order, start, merge, cancel out, retreat, conquer, land, recall, die, annex | attacks deleted by other attacks' inits; targets fixed at launch; orders about attacks that are gone | registries agree with executions; no troops from nowhere; the dead stay dead; every attack ends |
| diplomacy | `execution/alliance_exec.rs`, `embargo_exec.rs`, `nation_alliance.rs`, `mark_disconnected.rs`, `game.rs` | requests, alliances with terms, embargoes, traitor marks | ask, accept, reject, extend, break, expire; declare and lift embargoes | crossing requests; clocks that only run out in the turns of players who may be dead; five ways to break an alliance | one dealing per pair, by consent; all that has a term ends |
| missiles | `nuke_execution.rs`, `mirv_execution.rs`, `missile_silo_execution.rs`, `sam_*` | missiles, queues of silos and SAM launchers, SAM marks | launch, intercept, explode, separate | two SAMs on one missile, owners dying in flight, alliances made while a bomb is under way | a missile comes down or is hit, once; a mark is cleared with its hunter; a shot is reloaded |
| navy | `warship.rs`, `shell_execution.rs`, `trade_ship_execution.rs`, `port_execution.rs` | ships with health and goals, berths, shells, gold under way | patrol, shoot, retreat, dock, repair, capture, trade | captured ships keep their execution; ports fill, fall and move; orders cross retreats | a trade pays once, to whoever it is for; no berth is shared; a ship returns to sea |
| structures | `construction.rs`, `city_execution.rs`, `defense_post_execution.rs`, `delete_unit.rs`, `upgrade_structure.rs` | units under construction, levels, deletion marks | build, upgrade, delete, capture | land lost while building, captures while a deletion is under way | one execution works for a structure, and no deletion outlives a capture |
| trains and rail | `rail.rs`, `train_*`, `factory_execution.rs` | stations, railroads, clusters, trains | connect, snap onto a railroad, merge, remove, recompute, route, pay | two stations of one unit, two railroads between two stations, stations removed with trains under way | five indexes of one graph agree; whoever is near a factory is served; a train's units go with its execution |
| donations | `donate.rs`, `donate_gold.rs` | troops, gold, cooldowns | give | amount fixed in init, given in tick | nothing is made by giving |
| end of game | `win_check.rs`, `doomsday_clock_execution.rs`, `core/doomsday_clock.rs` | winner, marks of the doomed | look at the land, mark, drain | ties, teams, repair while marked | who stays below the bar loses its fleet; one winner, final |
| nations and bots | `nation*.rs`, `ai_attack.rs`, `nuke_ai.rs`, `warship_ai.rs`, `bot/` | relations, timers | decide | heuristics on floats | legal orders only |
| map and water | `map.rs`, `water*.rs`, `spatial.rs`, `unit_grid.rs` | terrain, water graph | path finding, nukes turning land into water | graph rebuilt while ships are under way | version checks |
| replays, RL interface | `intent.rs`, `record.rs`, `replay.rs`, `session.rs`, `rl*.rs`, `obs*.rs`, `rust/ofcore` | none of their own, curriculum stage | translate | parity with the TypeScript engine | pure functions |
| training loop | `rust/oftrain/src/train.rs` (hub, learners, actors, evaluation), `policy.rs`, `nccl` | weights of the replicas, versions, command ids, threads | collect, learn, evaluate, save, resize | every thread may fail while others wait for it; collecting overlaps learning | replicas agree; a version names weights; every run ends |
| checkpoints | `oftrain/src/train.rs`, `ofhub/src/sync.rs`, `scripts/pod_train_v11.sh` | files on the pod and on the hub, the sync manifest | save, prune, snapshot, upload, restore, relaunch | kills between files, files that change while they are copied, failed transfers | nothing is missed, the disk stays bounded |
| showcase, archive | `ofhub/src/daemon.rs`, `hub.rs`, `archive.rs` | clips, state file, revision file | generate, publish, refresh | the policy changes during a generation | a clip is labelled with what played it |
| autoencoder, bridge, scripts | `rust/ofae`, `bridge`, `datagen`, `scripts` | - | numerical training, adapters | - | - |

The engine is single threaded: its concurrency is the interleaving of executions
inside a tick. An execution is added to `uninit` by an intent or by another
execution's turn; it touches players, tiles and other executions' objects through
`Game`. The trainer's hub, learners, actors and evaluation are threads of one process
that talk through channels. The trainer, the sync loop and the launcher are processes
that share a directory and nothing else; the sync loop and the restore share the hub.

## 2. Modules

| Module | What it is |
|---|---|
| `Warfare`, `MCWarfare` | the war for land, driven by the tick loop; strips of four or five tiles |
| `Pacts` | what diplomacy promises, without clocks or executions (abstract; models no code of its own) |
| `Diplomacy`, `MCDiplomacy` | requests, alliances, embargoes, traitor marks; implements `Pacts`; a person and a nation |
| `Turns` | the tick loop as `Arsenal` and `Fleet` use it: turns in the list's order, inits oldest first |
| `Arsenal`, `Rail`, `MCArsenal` | structures, silos, bombs, MIRVs, SAM launchers; stations, railroads and trains upon them; eight plans of what stands and what comes from outside |
| `Fleet`, `MCFleet` | ports, trade ships, warships, shells; six scenarios |
| `Doomsday` | the doomsday clock upon the ships of `Fleet`, and the specification of both |
| `Training`, `MCTraining` | the trainer's threads; two GPUs, two updates, one breakdown |
| `Checkpoints` | trainer, launcher, sync loop and hub |
| `PactsProofs`, `DiplomacyProofs`, `CheckpointsProofs`, `WarfareProofs`, `FleetProofs`, `TrainingProofs`, `RailProofs`, `NetworkProofs` | the theorems |

### Warfare

Every execution is a job with a number, in the order of insertion, which is the
order of turns. `StartTick`, `StartInits` and `EndTick` are the three parts of
`execute_next_tick`; `Due(j, k)` says whose turn it is, `DueInit(j, k)` whose
initialisation. One turn is one step, except for the conquest loop of an attack,
which is one step per tile. `EndTick` appends what was initialised and drops what is
inactive (with the fields of the execution, as the code drops the object).

 - `AttackStarts` is `AttackExecution::init` whole: troops leave home, the attack
   is registered, opposing attacks are fought off oldest first
   (`cancel_opposing_land_attacks`), then the player's other attacks on the same
   target are merged (`merge_outgoing_land_attacks`).
 - `AttackRetreats` ... `AttackConquers` are the branches of `tick` in its order:
   a retreat that was carried out is asked for before the attack's being alive.
 - `RetreatTurn`, `RecallTurn`, `BoatSails`, `BoatMoves`, `BoatLands`,
   `BoatIsLost`, `BoatIsHomeless` are retreat.rs and transport_ship.rs.
 - `PlayerTurn` pays income and may annex surrounded clusters
   (player_clusters.rs); `Reap` is `remove_on_death`.

Troops. A player's are whole, a force's are not: `remove_troops` takes the floor of what
is ordered (`game.rs:1138`, `to_int`) and `add_troops` adds the floor of what comes home, while an
attack or a transport keeps the f64 it was ordered with (`attack.rs:147-150`,
`transport_ship.rs:278-284`). So orders and forces are counted in parts of a troop, `Parts` to the
troop, and `Whole` is the floor. A force that sets out may thus be stronger than what was paid for it, by less than
a troop, and 100.9 merged with 50.9 come home as 151 for the 150 that left: `NoTroopsFromNowhere`
says that this, once for each force that sets out, is all that rounding may make. A finite f64
is a multiple of 1/`Parts` for some `Parts`, and the theorems hold for any; the rounding of f64 arithmetic itself
is left out.

`handle_dead_defender` goes through the tiles of a defender with fewer than
`DeadDefenderTiles` (100) `Passes` (10) times, one tile after the other, each with what the ones before it
have done: `Inherited` is the turn of one tile, `Legacies` the map after all passes, `Ways` the orders in which
the defender may have come to hold its tiles (`owned_tiles`).

Abstractions: what a conquest costs, how many tiles a
turn takes and the income are choices from small sets; which of several neighbours inherits a tile
is a choice (the code takes the first); `frontier` stands for
both the heap `to_conquer` and the set `border_tiles` (a heap may hold a tile
twice: the parameter `twice`); a ship arrives at any time; the alliance changes of
other executions are `Ally`, `Break`, `MarkDisconnected` in either half of the
tick. Gold, relations, embargoes, veterancy and the
statistics are left out, and so is damage to transports by warships and nukes.

A gift of troops (`GiftStarts`, `GiftTurn`) promises an amount in its init, when the
giver may have more than in its turn: attacks and boats of the same tick take troops
in between. What arrives is what was taken (`NoTroopsFromNowhere`). The cooldown
between gifts is exact inside a tick and a choice after it; the configuration that
allows gifts between humans is taken to be on.

### Diplomacy

Orders wait in `queue` until the second half of a tick (`InitOrder`), running
executions take their turns in the first (`TakeTurn`), bots, nations, missiles and
the loss of land act in between (`Answer`, `Betray`, `Judge`, `Bombard`,
`LoseLand`). Turns and initialisations happen in any order: the code's order of
insertion is one of them, so what holds here holds there. Clocks are relative and
saturate one tick after the last comparison they decide, which keeps the states
finite without a bound on time. Who owns land is an input with two constraints
`Warfare` checks: a player that has been reaped never regains land.

`Pacts` knows only offers and pacts. `Diplomacy` is checked and proved to
implement it with `offers <- pending` and `pacts <- Bonds`, so whatever the
thirteen kinds of orders and the five kinds of turns do, an alliance comes from a
request its addressee took up and two players are in one dealing at most.

### Turns, Arsenal

`Turns` is `execute_next_tick` with its list: `execs`, `uninit`, and a cursor that
points at the execution whose turn it is. An execution that is done is dropped at once,
where the code drops it at the end of the tick; nobody looks for an execution that is
done, since who searches the list asks for one that works for a unit which is there.

A unit is a record under an id; ids are used again when nothing names them, as the
code's ids are never, which keeps the states finite and cannot be noticed; there are as many units at a time as ids
(`FreeIds`, a bound). `build_unit`
is `New`, `remove_unit` is `Without`, `capture_unit` is `Captured`. The turns are those
of the executions: `Lay`, `Build`, `GiveUp`, `Delegate` (construction.rs), `SiloTurn`,
`SamTurn`, `HuntTurn` (the SAM's missile), `Launch`, `Fizzle`, `NukeTurn` with
`Detonate`, `MirvLaunch`, `MirvTurn`, `DeleteTurn`, `PostTurn` (defense posts); cities,
factories and ports take theirs in `Rail`; `InitMirv`, `InitUpgrade`, `InitDelete` are
the inits that change anything. `Conquer`, `Ally` and `Part` are what land war and diplomacy do to it.

Abstractions: flights take a number of turns from `Flights`; whether a SAM launcher
reaches a bomb in a tick, which ready silo is the nearest, and whether the player can
pay are choices; a bomb reaches the tiles `Zone` gives, of which the centre is lost
and the others may be. Immunity at the start, gold, the water a bomb may leave behind
and the deaths of troops are left out.

### Rail

`net` is `Game.rail_network` with the flag `has_train_station`: stations with their
railroads and `railroad_by_neighbor` (`via`), `station_by_unit` (`of`), railroads,
clusters and the dirty ones among them. `Rail` completes `Arsenal`: every step of
`Arsenal` goes with `Pruned`, which is what `remove_unit` does to the network, so a
station goes with a structure that is bombed, sold, lost or dies with its owner.
`CityTurn`, `FactoryTurn` and `PortJoins` say who gets a station; `StationTurn` connects
it in its first turn (`Connected` is `connect_station` whole: snapping onto railroads,
else reaching for the structures near, with the clusters this joins) and sends trains;
`RecomputeTurn` parts dirty clusters; `InitTrain` and `TrainTurn` are a train.

Kept as they are, because they decide what a train may do: a unit may have two stations,
of which only the first is removed with it (`Lost`); a second railroad between two
stations takes the first one's place in `railroad_by_neighbor`, and the loss of either
empties it; a station that joins a cluster twice points to it without being in it.

Abstractions: which structures are too near or cannot be reached by rail, their order by
distance, which railroads pass within the snapping radius, embargoes and the time a
railroad takes are choices; a train and its cars are one unit; what a train pays when
it stops (`on_train_stop`) is left out with gold. Ids are used again when nothing
names them, so there are as many stations, railroads and clusters at a time as ids
(a bound): a station is connected only if one more, with all that it may be joined to,
finds ids (`HasIds`). There is one cluster more than stations, because
`recompute_clusters` takes new ones without asking (`RailAssumption`).

### Fleet

The coast is a row of places on one water. `Fleet` shares `Turns` and follows
`WarshipExecution::tick` from its head to its end: `Sorties` composes order, repair,
docking, retreat, decision to retreat, and hunt or patrol; each piece is an operator on
a record that says where the turn stands, and `on` is the code's early return.
`TradeTurn` and `TradeFails` are trade_ship_execution.rs; a pirate's prize turns to the
pirate's nearest port. `ShellTurn` is the shell, `PortTurn` sends trade ships, `YardTurn`
and `InitShip` build a warship, `InitMove` is the order `move_warship`. Land changes
hands by `Conquer`, by `Subdue` (`conquer_player` with its handing over of a lost
connection's ships) and by `Bomb`.

`docked_warships_at_port` counts the ships it finds within `DockRange` (5) of the port through
the units' grid, whose cells are `Cell` (100) wide. The window of cells it searches (`GridIncludes`,
`ts_unit_grid_query_includes`) misses one place: at the full range, where that is the first of the next cell
(a port at x with x % 100 = 95 and a ship at x + 5; the test
`active_healing_matches_ts_unit_grid_boundary_miss`, `warship.rs:1795`, fixes it). A ship that lies there is
not counted, so it docks beside the ships that fill the port, any number of them, and other ships dock
as if it were not there. `BerthsSuffice` leaves these ships out (`Beyond`), and counts all others.

Abstractions: the coast and the grid have one dimension (the code searches both alike); one water component, so every port can be reached; a patrol goal is any
place in its range; damage is from `Damages`; a fraction of repair is one point at some
times; a voyage pays one; which port's voyage begins is a choice; there are as many units at a
time as `UnitIds` (`FreeIds`); veterancy and the statistics are left out.

### Doomsday

`ClockTurn` is the turn of the one `DoomsdayClockExecution`. Every `Second` ticks it
groups who lives into `Sides`, exempts the `Leading` one, and compares the land of the
others with what the wave of the moment asks of them (`Bar`, `Required`): the members
of a side below it are marked, or keep their older mark, all others are cleared
(`Marks`), and the warships of who has been marked for longer than the warning lose a
share of their health that grows with the age of the mark (`Drain`, `Scuttled`). `under`,
a variable of `Fleet`, whose ships are not repaired while it is set (`Healed`), is the age
of the mark in seconds, up to where the drain is at its worst. The job is in
the list of executions before all others, as `bootstrap.rs` puts it there.

Abstractions: land is the coast of `Fleet`, so the levels of the waves are scaled to
seven places (30 percent of them are two); no fallout; the troops, which bleed on the
same schedule, are not in `Fleet`; the winner is never declared.

### Training

`hub` is `run()` with its locals, `pc` where it is: priming, the top of the loop,
gathering a minibatch's packets, waiting for results, for rollouts, or for an
acknowledgement of something on its `agenda` (what the second half of an update does:
stage, saves, refresh, evaluation, shutdown). Each learner and actor has its thread's
place, the commands sent to it, and what it accepted last; replies of the learners come
through one channel. Channels are unbounded and lose nothing, so what the hub sends in
one loop is one step. Weights are the set of optimizer steps taken. `Breakdown` is
whatever may fail: a learner, an actor, an environment's thread or the evaluation returns
an error or panics, a save fails; `MaxFaults` bounds how often.
After an error the hub leaves `run()`: `DropEval` ... `JoinActor` are its locals' drops.

Abstractions: two or more GPUs (a single one has no barrier), training after
start-up, evaluation in its own thread; the watchdog over learners (fifteen seconds
without a reply) is assumed longer than an idle learner takes to answer; the weights'
numbers, the rollouts' contents and the statistics are left out.

### Checkpoints

A file's content is the number of the save that wrote it. `WriteFile` replaces
one file atomically (`save_atomic`), in the order milestone, weights, state,
manifest; `Prune` follows. The trainer may crash at any step, the pod may restart
with its disk or be lost with it. `Boot` is the launcher up to its loop (prune,
restore when latest.* is incomplete, refuse a half checkpoint), `Relaunch` the
loop's body. `SyncStep` is one step of `run_sync`: a file is skipped by its
signature, read, found changed or not, uploaded with retries, recorded. Uploads
may fail, and one that fails may have been carried out; a restore may get a part
of the files.

The launcher starts the sync process once, with `&` (`pod_train_v11.sh:418-422`), and nobody looks after
it. It may end at once, when `whoami` or `ensure_repo` fails (`sync.rs:302-303`), or its state
cannot be read, is another run's, or cannot be saved (311-314, 326): `SyncStarts`. It ends for good when the
directory cannot be listed (329: `DiscoverFails`) or the state cannot be saved, after a new signature
(359) or after an upload that was made or given up (399): `SaveFails`. What it knew but had not saved is lost
with it (`SyncEnds`), so the next process, after the next start of the pod, goes by an older manifest.

Abstractions: a signature is new with every write (the code's is device, inode,
length and the sub-second part of the time of change: see the hazards); milestones'
sidecars, best_eval, curriculum and final files, `dry_run`, `once`, the hub's
commit history and the backoff are left out; a save that is done again after a
crash gets a number of its own.

## 3. What the runs check

| Run | Question | Bounds |
|---|---|---|
| WarCrowd | three players, an enclave: `RegistriesAreExact`, `OneOverlandAttack`, `FriendsKeepTheirLand`, `NoHeadOnAttacks` | 5 tiles of which a defender with fewer than 3 is shared out in 10 passes, 6 executions, 2 troops each, one diplomatic change; 0.8 million states |
| WarSea | transports, recalls, landings, gifts of troops, deaths: `TypeOK`, `TheDeadStayDead`, `EveryBoatIsSteered`, `NoTroopsFromNowhere` | 6 executions: orders of 2 boats, 2 attacks and 1 gift, in halves of a troop, each possibly repeated, 2 diplomatic changes; 2.0 million states |
| WarEnds | `EveryAttackEnds` under fairness | one attack each way, in halves of a troop, both cancellable |
| WarTeam (violation) | `EveryBoatIsSteered` with a disconnected teammate | one boat, one attack |
| Dip | all of diplomacy: `OnePactPerPair`, `RequestsTimeOut`, `AlliancesEndOnTime`, `TemporaryEmbargoEnds`, `PermanentEmbargoStands`, `KeepsPromises` (refinement of `Pacts`) | durations 0 to 2, two orders at a time |
| Arsenal | `MarksAreBacked`, `EveryStructureIsRun`, `DeletionsAreOrdered`, `TheDeadHoldNothing`, `OnlyWarheadsOverfill`, `NoThreatToAnAlly`, `MissilesComeDown`, `EveryShotReloads`; of the railways `NetworkIsSound`, `NearbyAreServed`, `NoTrainIsLeftBehind` | 3 players of whom two are a team, 4 tiles, 5 plans of 2 or 3 orders and as many changes of land and alliances; 3 plans of railways with up to 5 stations and 8 railroads, one train |
| Backfire (violation) | `StaysInCooldown` with a MIRV on one's own silo | one MIRV, one bomb |
| Fleet | `BerthsSuffice`, `OrdersComeFirst`, `OnlyHeirsDrift`, `VoyagesPayTheRightOnes`, `VoyagesEnd`, `ShipsReturnToSea`; of the doomsday clock `DoomedFleetsSink` | 7 places in cells of 5, docking within 1, 6 scenarios of up to 5 ships and ports; a look at the land every two ticks, two waves, a drain from 2 to 50 percent within two seconds |
| Training | `ReplicasAgree`, `VersionsNameWeights`, `ErrorsHaveACause`, `EveryRunEnds` | 2 GPUs, 2 environments each, 2 updates of 2 minibatches, one breakdown |
| Ckpt | `NothingIsMissed`, `MilestonesAreBounded`, `EveryFileIsDealtWith` | two saves, one milestone kept, one retry; the sync process may end at its start and at any error; 3.1 million states |
| CkptBacklog (violation) | `BacklogIsKept` | the same, the milestone's uploads fail |
| CkptRestore (violation) | `RestoresPairsOnly` | one save |

Why the bounds are enough. The hazards of the land war involve at most two attacks
of one player on one target, one attack or boat the other way, and one order that
cancels one of them: 6 executions leave room for all of these beside the two or
three players. Four tiles hold a front with a tile behind it on both sides, or a channel between two islands;
five an enclave whose owner, once dead, leaves two tiles of which one has heirs on both
sides and the other does or does not, by the order in which they are gone through.
`DeadDefenderTiles` is 3 in WarCrowd, so that both sides of its comparison occur, and the code's 100
elsewhere. `Parts` is 2 where troops matter: a merge of two halves makes a troop. It is 1 in WarCrowd,
whose properties are about land and registries. In the diplomacy, durations of up to two ticks let
a request lapse before, in and after the tick of the answer and of the death of
either side; that third players, bots and longer durations change nothing is what
the theorems say. Arsenal's plans pair what interferes: two bombs from one silo, a bomb
and two launchers, a bomb and an alliance, a MIRV and an answer, building, selling and
losing land; flights of none and of two ticks put an event before, between and after
a launch and its strike. The railways' plans have a city with two stations, a city
that comes last and may stand on two railroads, a city that is sold, a factory that comes
last, and a port that is overrun; with them stations of lost units, two railroads between
two stations, ghosts of clusters, ways of four stations and trains that never leave all
occur. Fleet's scenarios are a voyage that is raided, a fight for a
strait, three damaged ships before two ports of one berth each, one of them coming from beyond the border of
a cell, an inheritance, a nation's ship that is given another patrol while it is repaired, and a
player with one place of seven, which builds and repairs ships while the bar rises to
two, and may gain or lose a place before, between and after two drains.
For Training, one breakdown at every place a thread may be suffices to
strand each of the others; two updates put a rollout, a training and a refresh of
neighbouring versions side by side. For the checkpoints,
two saves give a milestone that is pruned while it is read, sent or recorded, and a
latest.* that is replaced while it is; one retry gives a first, a middle and a last
attempt.

Deadlock is checked everywhere but in Training, whose runs end: the tick loop always
has a next step, and so has the sync loop while the pod is up.

Fairness. The host calls `execute_next_tick` for ever, so `WarEnds` assumes `WF` of
`Tick`, Fleet `WF` of `DoomEngine`, and Arsenal that `RailEngine` takes a step again and
again, which is its weak fairness since it always can; `WarEnds` also assumes
that an attack that could go home or
run out in its turn does not for ever idle instead (`SF`): with no border left the
number of tiles of a turn is a random number plus the border's size, which is zero
in some turns and not in others. Orders, alliances, landings and lost connections are not
fair. Training assumes `WF` of `Progress`: threads are scheduled, and computations,
file writes and environments' steps return; breakdowns are owed by nobody.
`Ckpt` assumes only that the sync process, while there is one, takes its steps (`WF` of
`SyncStep`): it waits for nobody, and uploads return
because the client times out. That it goes on for ever is not assumed: it may end at
every error that ends it in the code, and `EveryFileIsDealtWith` asks for nothing unless from some point on there
is a sync process and the trainer and the pod, which are not fair, leave the files alone.

### Disagreements found

 - WarTeam: when a disconnected teammate's last land is taken, `conquer_player`
   gives its transports to the conqueror, and nobody steers them any more
   (`transport_ship.rs:124`), unlike what the list of ported tests at
   `transport_ship.rs:703` expects of the original.
 - Backfire: a warhead that comes down on a silo of its own player is taken for a
   launch from there (`nuke_execution.rs:128`), so a silo may have more missiles to
   reload than slots, and `unit_is_in_cooldown`, which asks for equality
   (`game.rs:1643`), lets it fire again; the test
   `missile_silo_stays_in_cooldown_for_exactly_silo_cooldown_ticks` says what is meant.
 - CkptBacklog: an upload that fails for good is recorded as uploaded
   (`sync.rs:383`); a milestone that was never uploaded is pruned although
   "HF already retains the full historical backlog" (`train.rs:354`).
 - CkptRestore: a restore that gets the weights but not the state leaves the weights
   (`sync.rs:266`); the script it is a port of has a test that nothing is installed.

Facts the models have that no property calls wrong, because nothing says what
the code should do, and that the properties name as their exceptions: a boat takes the
tile it lands on even when it has become a friend's (`FriendsKeepTheirLand`); an attack
whose cancelled retreat was executed and which is merged in the same tick pays its
survivors home and into the merged attack (`NoTroopsFromNowhere`; a test fixes the
behaviour), and a force that sets out keeps a fraction of a troop nobody paid for;
a ship at the full docking range beyond the border of a cell of the grid is counted by nobody (`BerthsSuffice`; a test fixes this too); a bomb stays marked for ever when its hunter goes with its dead owner
(`MarksAreBacked`); an alliance a nation accepts leaves bombs flying
(`NoThreatToAnAlly`); a train whose way cannot be found to its end leaves its units at
its first station (`NoTrainIsLeftBehind`, `train_execution.rs:103`); ships a teammate inherits drift (`OnlyHeirsDrift`); and a run
in which one environment's thread panics while others share its channel never ends
(`Stranded` in `EveryRunEnds`; the launcher uses that mode, `pod_train_v11.sh:106`).
One more has no property: the stations of a cluster need not hang together, even when it
is not dirty. A station that snaps onto two railroads of a cluster points to it without
being in it (`rail.rs:160` says so), does not follow when the cluster is merged, and when
it is removed marks the empty old one, so that the parts of the merged one are never told
apart; a factory then picks destinations that no train can reach. It takes six stations;
with five every clean cluster is whole.

## 4. What is proved

The theorems about diplomacy hold for every set of players, bots and intents and for
every duration that satisfies `DiplomacyAssumption` (a request's cooldown is longer than its
duration; alliances last at least a tick). Those about checkpoints hold for every
number of saves, of milestones kept (at least one) and of retries, and whichever
uploads may fail (`CheckpointsAssumption`). Those about the land war hold for every map,
number of players, teams, orders, losses and number of executions (`WarfareAssumption`).
Those about the navy hold for every coast, players, teams, ranges, times, damages, every
schedule of the doomsday clock, and whatever stands at the start or comes from outside
(`FleetAssumption`, `DoomsdayAssumption`), if no two ports stand at one place: structures
are built 15 tiles apart (`valid_structure_spawn_tiles`, `nation_structures.rs:563`). Those about the trainer hold for every number
of GPUs from two, of environments, rounds, updates and breakdowns
(`TrainingAssumption`). Those about structures, missiles and trains hold for every map,
players, teams, ranges of bombs, durations, and whatever stands at the start or comes from outside
(`ArsenalAssumption`, `RailAssumption`).

 - `DiplomacyProofs`. `TypeCorrect` is the type invariant. `PactInv` strengthens
   `OnePactPerPair` and `EveryRequestIsWatched` with: a request is between two
   players, who have no alliance and no request the other way (`RequestsAreOpen`);
   without it an acceptance could make a second alliance. Every step is
   classified as one that only ends dealings (`Fade`), one that seals requests of one
   player (`Seals`) or one new request (`Asks`), and each class preserves `PactInv`
   and maps to a step of `Pacts`: `OnePactPerPairHolds`, `RequestsAreWatched`, `Consent`.
 - `PactsProofs`. `DealingsAreExclusive`: the abstract specification's promise.
 - The second part of `DiplomacyProofs` is about time. Each clock has an invariant that says what the clock may
   read in each phase of the tick, and that whoever has to act on a clock that has
   run out still has its turn ahead in this tick: `AllianceClock`, `RequestClock`,
   `EmbargoClock`. They rest on `KeeperInv` (the executions of players that have not
   been reaped are running, and of two allies one is) and on `PactInv`. Theorems:
   `EveryPactHasAKeeperHolds`, `AlliancesEnd`, `RequestsEnd`, `TemporaryEmbargoesEnd`,
   `PermanentEmbargoesStand`.
 - `CheckpointsProofs`. `TypeCorrect` is the type invariant. `SkippedIsRecorded` rests
   on `Vigilance`: a steady snapshot is its file (`SnapshotIsTrue`), it is never of a
   file that is up to date (`SnapshotIsNews`, else recording it would overwrite the
   entry of a file that is skipped), and none is alive while the pod is down
   (`DownIsQuiet`, since `Boot` changes files without telling the snapshot). A sync process that ends
   takes its snapshot with it and leaves the manifest as it was saved, which may name fewer files and never a wrong one (`EndsVigilance`).
   `DiskIsBounded` rests on `Trimmed`: there is room for one milestone more when a save
   begins. Its core is `PruningBounds`: of a finite set of milestones at most
   `KeepLast` have fewer than `KeepLast` newer ones, because all of them but the least
   are newer than the least (`LeastNatural`, by well-founded induction on a set).

 - `WarfareProofs`. `Listed`: executions are numbered in the order of insertion, the first
   being the PlayerExecutions, and none changes its kind or owner. `ForcesInv` adds that the
   fields of attacks are well formed, and the two properties it is about; it is inductive
   because of how a step may change who is `Standing`: a retreat, a defeat or a merge
   takes attacks out of the field and out of both registries alike (`EndedIsExact`), a new,
   refused or landed force is in neither, and `AttackStarts` enlists one attack and removes
   the ones it beats or absorbs (`StartKeeps`; every one of them was standing,
   `FallenWereStanding`). Theorems: `RegistriesHold`, `OneOverlandAttackHolds`.
   `LandInv` adds `TheDeadStayDead` and says who may get land or a ship: a conqueror
   touches the tile with land of its own, heirs of a left-over tile and captors of a cluster
   are owners of neighbouring tiles, a boat sails from its owner's shore and lands
   while its unit is there - all of them own something, so they live (`LandIsLived`), and only
   `Reap` ends a PlayerExecution, when its land is gone: `TheDeadStayDeadHolds`. `ShipInv`
   gives `EveryBoatIsSteeredHolds` under `NoTeams`, an assumption `WarTeam` shows to be
   needed.
   The rest is about troops. `Total` adds numbers up by a recursive function on `0 .. n`; induction over a
   set of naturals (`SetInduction`, from the well-foundedness of the naturals) shows that such a function
   exists (`PartialSums`), and that sums are monotone and additive (`SumsTogether`) and change by what
   one summand changes (`TotalChanges`). The first of the attacks a new force meets that outweighs what is
   left of it stops it, and before that one the force outweighs all together (`FirstBlocker`), so what is left is
   neither negative nor more than that attack has (`LeftIsNat`): `WarInv`, hence `TypeCorrect`.
   `NoHeadOnAttacksHolds`: only an attack's own initialisation lets it set out (`OnlyStartsSetOut`).
   `FriendsKeepTheirLandHolds` needs `LoopInv`: a conquest loop was entered against no friend, and nobody makes
   an alliance while it runs. The sharing out of what is left is a recursive function over passes and tiles,
   which is shown to exist (`CourseExists`); whatever the order, after every turn what was not the dead player's is as it was
   and the rest is the conqueror's or that of somebody on the map who is no friend (`OneMoreShared`, `LegaciesAreShared`).
   Heirs and captors are asked for friendship, and the land that goes
   with a cluster is its owner's, since a flood stays inside what it floods (`SpreadStays`).
   `NoTroopsFromNowhereHolds` splits the strength of all sides into home, field and sea, and shows of every
   step by how much each of the three may grow, which together is never more than nothing (`Balance`), or less than a
   troop when a force sets out (`Margin`, from what a floor leaves over, `Division`): nobody
   arrives (`NobodyArrives`), a force takes the troops of home and of what it absorbs (`StartIsPaid`), survivors go
   home (`GoHomeIsIdle`), a gift changes homes, a boat loads (`SailsIsPaid`), lands or turns back. It needs `SeaInv`: a number that
   is not given out has no ship.

 - `FleetProofs`. `StepInv` is the type invariant with `GoodJob` for the executions: a warship
   within its grace neither retreats nor is docked, and a trade ship that is not built has
   never been robbed. The types carry the proof: a step reads the holder, the place or the
   health of a unit only where the unit is there, and units that are there have them
   (`SoundUnit`). A warship's turn is a chain of operators on `GoodTurn`; the links that
   matter are that it flees only with its grace over (`FledGood`), is ashore before a new
   order's grace begins (`OrderedGood`), and docks only when it was fleeing
   (`WithdrawsGood`): `TypeCorrect`, `OrdersComeFirstHolds`. `VoyageInv` adds that what a
   trade ship is sent to is a port, or has been lost: ids that an execution names are not
   given away (`NamedAreTaken`), and no unit changes its kind (`KindsKept`).
   Then a robbed ship's gold goes to who holds the ship, at a port of his, and any other's to the holders
   of both ports, who are two: `VoyagesPayTheRightOnesHolds`. `OneCrew`: no two executions steer
   one ship, because a new one gets an id that no execution names (`InitShipCrews`). In every step an
   execution that commands its ship stays (`JobsKept`) and no warship is built or changes hands
   (`WarshipsKept`), so that none is left adrift (`NoneDrift`); the exceptions are a new ship, which
   comes with its execution, and `SubdueCrews`. A hunter takes nothing but trade ships
   (`CrewSorties`, once more along the chain of a warship's turn): `OnlyHeirsDriftHolds`.
   `BerthInv` counts ships: no more units of a player lie docked where a port finds them than
   it has levels (`Roomy`, and every ship in its range but one `Beyond` is found, `FoundUnlessBeyond`; units, because the places in the list of executions move). It
   needs that a docked ship is at its port and on no way (`Commanded`), so that the ship
   that docks counts every other one (`NeighboursCount`); that a ship leaves its owner's
   hands only by his defeat, so that no execution of the victor's finds a docked ship
   again (`SubdueBerths`); that a warship's turn ends docked only where it was or at a
   port with room (`SortiesLie`); and that ports stand apart (`Apart`). Every other step
   docks nobody and keeps ships where they are (`Settled`, `HandsKept`, `BerthsKept`):
   `BerthsSufficeHolds`.

 - `TrainingProofs`. One inductive invariant of six parts, `Inv`. `Agenda`: what the hub still
   has to do in an update is in an order in which it can be done. `Protocol`: as long
   as the hub has noticed no error, every learner that lives is settled, has an order it
   has not seen, or is in the round the hub decides (`InTime`), and every reply that waits
   answers what the hub asked (`ToThePoint`). `Harmony`: two learners agree on every step
   whose decision both know, counting a step that one of them has still to take
   (`Foreseen`); the agreement of the property alone is not inductive, since
   inside an update learners are apart by one decision. `Versions`: a snapshot's
   version names the steps before it, also where it waits in a command or an
   answer, and no learner that may still step is older than a version given out
   (`MayStep`). `Calm`: without breakdowns every actor is where the hub expects it
   (`ActorInTime`, `UpToDate`), so none of the hub's checks fails. Theorems: `TypeCorrect`,
   `ReplicasAgreeHolds`, `VersionsNameWeightsHolds`, `ErrorsHaveACauseHolds`.

 - `RailProofs`, about the specification of `Arsenal` and `Rail` together. `Base` is the type
   invariant with `Loop` (every execution has the fields its kind uses) and `Names`: the
   unit an execution names is of the kind, and for missiles and trains of the holder, that
   the execution takes it for, or is gone. That holds because an id that is named
   is not given away and units do not turn into others (`Stable`). `Marks` strengthens
   `DeletionsAreOrdered` to initialised executions: a capture clears the mark, and an execution that is done
   has lost its unit: `DeletionsAreOrderedHolds`. A train's turn ends, moves it or finds it gone
   (`NoTrainIsLeftBehindHolds`). `PlayersFirst` (PlayerExecutions stand first),
   `Passengers` (who has ordered a train in this tick has had his turn and lives through it) and `Ghosts` (the
   dead own no land) say together who may still be given something:
   `TheDeadHoldNothingHolds`. `NoThreatToAnAllyHolds` follows the bombs: a new one breaks the
   alliances it threatens (`BombsAreLaunched`), a new alliance calls off those that fly
   (`ThreatsStay`, `ThreatStep`). `OnlyWarheadsOverfillHolds` has one lemma for every way a queue or a
   level changes: none makes a silo fuller than it is (`NoFuller`) but a launch at a silo that is
   full already, and only the launch of a warhead does not ask for a ready one.
   The last two theorems count executions. `None` and `One` say of a set of executions that
   none, or exactly one, of them is in the two lists together, the one that takes turns and the one
   that waits to be initialised; `TallyKeeps` shows once that a step which
   lets nothing of the set in or out (`Steady`, `Quiet`) keeps that number, for removal while the list is walked,
   replacement, appending and a tail. `Staffed`: a structure that is being built has one
   ConstructionExecution and none of its own, a finished one the reverse; a new one is laid by the
   construction that names it (`StaffIsHired`), and `Build` hands over (`StaffTakesOver`):
   `EveryStructureIsRunHolds`. `MarksAreBackedHolds` needs to know why a missile is gone: a
   missile in flight has at most one execution and a player at most one PlayerExecution (`Manned`), so only
   the end of the one or the other takes it away (`MissileGoes`), and an execution whose missile is gone
   has a dead owner (`Steered`). Then a bomb that is marked is let go by the end of the one
   execution after it, or never, when that one went with its owner (`Marked`).

 - `NetworkProofs`, on top of `RailProofs`. rail.rs changes the network in loops: over the
   railroads a new station snaps onto, the structures it reaches for, the members of clusters
   that merge, the railroads of a station that goes, the units that are lost in a step, the dirty
   clusters and their parts. In the model these are folds, which the community modules
   define by recursive functions that `CHOOSE` picks. So the proofs first say that such a function exists and
   what it keeps: the naturals are well-founded, hence a set that has 0 and every
   successor has them all (`NatSets`); hence the function can be built up set by set, and a relation
   between the elements dealt with and the result that holds at first and that each
   step keeps holds in the end (`FoldExists`, `FoldIs`). The loops then differ in the relation they keep.
   `Whole` is the soundness of a network with types, for the ends of railroads whether or not their
   stations stand; what it adds to `NetworkIsSound`, and a step needs, is that an id that is free is
   blank: else a new station's neighbours would remember a railroad to an old one. `Grouped` says that every station points to
   a cluster (not that it is in it, which is not so). Each operation keeps both for every network
   that has them, reachable or not: `TearWhole`, `LayWhole`, `JoinWhole`, `MergeWhole`,
   `ConnectedWhole`, `PrunedWhole`, `RecomputedWhole`. Snapping and reaching count ids on the way: every
   station joined costs one railroad at most (`Grown`), so `HasIds` suffices; and a recomputed
   cluster finds a new one for every part because some cluster is no station's
   (`ClustersAreLeft`). Hence `NetworkIsSoundHolds`.
   `NearbyAreServedHolds` has the invariant `Service`, which TLC checked on the plans of `Arsenal` before
   it was proved. An execution of a city or a factory has had its first turn or not
   (`FirstTurns`); who is served is a city, factory or port that has a station or whose
   TrainStationExecution has not had its turn (`ServedAre`); and if a factory and a city or factory in its range
   have both had their first turn, the second is served (`ReachedAreServed`). It is in the
   first turn of the later one that something can go wrong. By then the other one is finished: it has an execution of
   its own, and by `Staffed` no structure has that and a ConstructionExecution at once (`MakerIs`). So the
   factory finds the city (`FactoryReaches`), or the city the factory (`CityReaches`, since the range is
   symmetric). A TrainStationExecution stays until it has its turn (`StationJobsStay`), and in it
   the unit gets its station (`ServiceGoes`); nothing but its loss takes it away again.

Every safety property that a passing run checks is stated by a theorem. Only model-checked
are the liveness properties (`EveryAttackEnds`, `MissilesComeDown`, `EveryShotReloads`,
`VoyagesEnd`, `ShipsReturnToSea`, `DoomedFleetsSink`, `EveryRunEnds`, `EveryFileIsDealtWith`: liveness
under fairness is out of the prover's reach), and the violations, which are counterexamples.
The type invariants of `Diplomacy`, `Fleet`, `Checkpoints`, `Training` and `Arsenal`,
`EveryPactHasAKeeper` and `EveryRequestIsWatched` are proved and not run.

## 5. Plan

Done: `Warfare`, `Pacts`, `Diplomacy`, `Arsenal`, `Rail`, `Fleet`, `Doomsday`,
`Training`, `Checkpoints`, and the proofs above. Left, in this order:

 1. The win check, and the troops the doomsday clock drains.
 2. The replay spool, and the showcase daemon's check of the policy's revision.
 3. The theorems about these two. Of what is modelled now every safety property that is checked is
    proved; that the stations of a clean cluster hang together is not, because it is not so
    (end of section 3).

## 6. Not modelled

Inside the modelled components: water components and paths (ports under different
waters, ships that cannot arrive), ports under construction, gold costs and the gold of
trains, immunity, veterancy; gifts of gold, emoji and targets; the trainer's start-up, synchronous
evaluation, single-GPU runs and best_eval files.

Whole components: decisions of nations and bots (scores over floats: any order they may
give is in the
models), path finding and water graphs (large computations on concrete maps, tested
against the original engine), observations and tensors, the numerical part of the
trainer and of the autoencoder (most of the lines of the repository: kernels, batches,
curricula, tests), parsing of records, HTTP clients, deployment, and the
TypeScript bridge, whose engine is not in the repository.
