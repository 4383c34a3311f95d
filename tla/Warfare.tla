------------------------------ MODULE Warfare ------------------------------
(***************************************************************************)
(* The war for land of the OpenFront engine (src/rust/engine/src):         *)
(* the executions that move troops and tiles - attack.rs, retreat.rs,      *)
(* transport_ship.rs, donate.rs, player.rs, player_clusters.rs - and what  *)
(* they call of game.rs, driven by the tick loop execute_next_tick.        *)
(*                                                                         *)
(* Every execution is a job.  Jobs are numbered in the order in which they *)
(* were added, which is the order in which execute_next_tick visits them;  *)
(* jobs 1..NumPlayers are the PlayerExecutions added at spawn.  A tick     *)
(* visits the running jobs, then initialises the queued ones, then drops   *)
(* the inactive ones.  The code is single threaded, so a job's turn is one *)
(* step, except for the conquest loop of an attack: one step per tile,     *)
(* with nobody else moving while "looping" holds.                          *)
(*                                                                         *)
(* A player's troops are whole (i32).  Those of an order, an attack or a   *)
(* transport (f64) are counted in parts of a troop, Parts to the troop:    *)
(* what leaves a player or comes home is floored, a force keeps its        *)
(* fraction.  Gold, relations, embargoes and statistics are left out.      *)
(***************************************************************************)
EXTENDS Integers, FiniteSets, FiniteSetsExt

CONSTANTS
    NumPlayers,         \* players have the small ids 1..NumPlayers
    Tiles,              \* the land tiles
    Nowhere,            \* no tile (the None of an Option<TileRef>)
    Neighbors,          \* [Tiles -> SUBSET Tiles], the 4-neighbourhood
    Shore,              \* the land tiles that touch water
    Fringe,             \* the tiles on the map's edge
    Near,               \* [Tiles -> SUBSET Tiles], the 8-neighbourhood
    Pos,                \* [Tiles -> Int \X Int], the coordinates
    Team,               \* [1..NumPlayers -> team]; all different without teams
    InitOwner,          \* [Tiles -> 0..NumPlayers], the land after the spawns
    InitTroops,         \* [1..NumPlayers -> Nat]
    Parts,              \* parts of a troop that the forces are counted in
    Immune,             \* players under spawn immunity for the whole run
    MaxJobs,            \* bound: executions ever added
    AttackOrders,       \* bound: the <<player, target, parts>> ordered in a run
    BoatOrders,         \* bound: the <<player, tile, parts>> ordered in a run
    GiftOrders,         \* bound: the <<player, friend, parts>> given, 0 for a third
    Incomes,            \* what troop_increase_rate may yield in one turn
    MaxTroops,          \* max_troops_for: income and gifts stop here
    AttackerLosses,     \* parts of a troop one conquest may cost the attacker
    DefenderLosses,     \* and troops of the defender
    DeadDefenderTiles,  \* 100 in the code: below this a defender is finished off
    Passes,             \* 10 in the code: how often what it holds is gone through
    CancelDelay,        \* 20 in the code: ticks from a cancel order to the retreat
    MaxBoats,           \* boat_max_number: transports a player may have at sea
    MaxDiplomacy        \* bound: alliance and connection changes

Players == 1 .. NumPlayers
Neutral == 0
Owners  == Players \cup {Neutral}
Jobs    == 1 .. MaxJobs

ASSUME WarfareAssumption ==
    /\ NumPlayers \in Nat \ {0} /\ MaxJobs \in Nat /\ NumPlayers < MaxJobs
    /\ IsFiniteSet(Tiles) /\ Nowhere \notin Tiles
    /\ Neighbors \in [Tiles -> SUBSET Tiles]
    /\ \A s, t \in Tiles : s \in Neighbors[t] <=> t \in Neighbors[s]
    /\ Near \in [Tiles -> SUBSET Tiles] /\ Pos \in [Tiles -> Int \X Int]
    /\ Shore \subseteq Tiles /\ Fringe \subseteq Tiles /\ Immune \subseteq Players
    /\ InitOwner \in [Tiles -> Owners]
    /\ InitTroops \in [Players -> Nat]
    /\ AttackOrders \subseteq Players \X Owners \X Nat
    /\ BoatOrders \subseteq Players \X Tiles \X Nat
    /\ GiftOrders \subseteq Players \X Players \X Nat
    /\ Incomes \subseteq Int /\ MaxTroops \in Nat
    /\ AttackerLosses \subseteq Nat /\ DefenderLosses \subseteq Nat
    /\ Parts \in Nat \ {0} /\ DeadDefenderTiles \in Nat /\ Passes \in Nat
    /\ CancelDelay \in Nat \ {0} /\ MaxBoats \in Nat /\ MaxDiplomacy \in Nat

VARIABLES
    owner,      \* map.owner_id: the owner of every tile
    troops,     \* Player.troops
    ally,       \* Game.alliances: a set of two-player sets
    offline,    \* the players with is_disconnected
    job,        \* what each execution is, and where it stands in the lists
    attack,     \* the fields of the AttackExecutions
    outgoing,   \* Player.outgoing_land_attacks
    incoming,   \* Player.incoming_land_attacks
    boat,       \* the fields of the TransportShipExecutions
    unit,       \* the owner of a boat's unit, Neutral when there is no unit
    order,      \* the fields of the Retreat-, BoatRetreat- and DonateTroopsExecutions
    phase,      \* where execute_next_tick is
    cursor,     \* the last job that has had its turn in this tick
    looping,    \* the job after cursor is inside its conquest loop
    diplomacy   \* bound: diplomatic changes so far

vars == <<owner, troops, ally, offline, job, attack, outgoing, incoming, boat,
          unit, order, phase, cursor, looping, diplomacy>>
world == <<owner, troops, attack, outgoing, incoming, boat, unit, order>>

Kinds == {"none", "player", "attack", "retreat", "boat", "recall", "gift"}
Stages == {"unused", "queued", "inited", "running", "gone"}

JobType == [kind : Kinds, owner : Owners, stage : Stages, active : BOOLEAN]
AttackType == [target : Owners, troops : Nat, source : Tiles \cup {Nowhere},
               frontier : SUBSET Tiles, live : BOOLEAN, retreating : BOOLEAN,
               retreated : BOOLEAN]
BoatType == [target : Owners, troops : Nat, ref : Tiles \cup {Nowhere},
             dst : Tiles \cup {Nowhere}, retreating : BOOLEAN, resolved : BOOLEAN]
\* The attack, the boat or the friend it is about.
OrderType == [of : 0 .. MaxJobs, left : 0 .. CancelDelay, troops : Nat]

NoAttack == [target |-> Neutral, troops |-> 0, source |-> Nowhere, frontier |-> {},
             live |-> FALSE, retreating |-> FALSE, retreated |-> FALSE]
NoBoat == [target |-> Neutral, troops |-> 0, ref |-> Nowhere, dst |-> Nowhere,
           retreating |-> FALSE, resolved |-> FALSE]
NoOrder == [of |-> 0, left |-> 0, troops |-> 0]

-----------------------------------------------------------------------------
(* The map and the friendships. *)

Land(p) == {t \in Tiles : owner[t] = p}
Has(p) == \E t \in Tiles : owner[t] = p
Borders(own, t, p) == \E n \in Neighbors[t] : own[n] = p

\* refresh_to_conquer and add_neighbors: the tiles of g an attack of p may take.
Frontier(p, g) == {t \in Tiles : owner[t] = g /\ Borders(owner, t, p)}
Around(t, g) == {n \in Neighbors[t] : owner[n] = g}

SameTeam(a, b) == Team[a] = Team[b]
\* A disconnected b is nobody's friend; a disconnected a still is.
Friendly(a, b) == \/ a = b
                  \/ b \notin offline /\ (SameTeam(a, b) \/ {a, b} \in ally)
CanAttack(a, b) == ~Friendly(a, b) /\ b \notin Immune

-----------------------------------------------------------------------------
(* The execution lists. *)

Added == {j \in Jobs : job[j].stage # "unused"}
NextJob == Cardinality(Added) + 1

Live(j) == job[j].stage = "running" /\ job[j].active
AtSea == {j \in Jobs : job[j].kind = "boat" /\ job[j].active
                       /\ job[j].stage \notin {"unused", "gone"}}
\* A boat that lands adds an attack, so it keeps a number for it.
Room(n) == Cardinality(Added) + Cardinality(AtSea) + n <= MaxJobs

NewJob(k, p) == [kind |-> k, owner |-> p, stage |-> "queued", active |-> TRUE]

\* The turn of job j: the first running, active execution after the cursor.
Due(j, k) ==
    /\ phase = "tick" /\ j > cursor /\ job[j].kind = k /\ Live(j)
    /\ \A i \in Jobs : cursor < i /\ i < j => ~Live(i)
DueInit(j, k) ==
    /\ phase = "init" /\ job[j].kind = k /\ job[j].stage = "queued"
    /\ \A i \in Jobs : i < j => job[i].stage # "queued"

EndTurn(j) == cursor' = j /\ looping' = FALSE /\ UNCHANGED <<phase, diplomacy>>
Inited(j, keep) == [job EXCEPT ![j] = [@ EXCEPT !.stage = "inited", !.active = keep]]
Retired(j) == [job EXCEPT ![j] = [@ EXCEPT !.active = FALSE]]

-----------------------------------------------------------------------------
(* The attack registries. *)

\* kill_attack: dead, out of both registries, troops left as they are.
Killed(S) == [a \in Jobs |-> IF a \in S THEN [attack[a] EXCEPT !.live = FALSE]
                             ELSE attack[a]]
UnregisteredOnceOnly(S) ==
    /\ outgoing' = [p \in Players |-> outgoing[p] \ S]
    /\ UNCHANGED incoming
Unregistered(S) ==
    /\ outgoing' = [p \in Players |-> outgoing[p] \ S]
    /\ incoming' = [p \in Players |-> incoming[p] \ S]

\* remove_troops and set_troops: never below zero.
MinusUnclamped(a, b) == a - b
Minus(a, b) == IF b <= a THEN a - b ELSE 0

Total(n, f) == LET upto[i \in 0 .. n] == IF i = 0 THEN 0 ELSE upto[i - 1] + f[i] IN upto[n]
SumTroops(S) == Total(MaxJobs, [a \in Jobs |-> IF a \in S THEN attack[a].troops ELSE 0])

OpposingButCancelled(p, g) == {a \in incoming[p] : /\ attack[a].live
                                                    /\ job[a].owner = g
                                                    /\ Has(job[a].owner)
                                                    /\ ~attack[a].retreating}
\* cancel_opposing_land_attacks: the target's live attacks on p, oldest first.
Opposing(p, g) == {a \in incoming[p] : /\ attack[a].live
                                        /\ job[a].owner = g
                                        /\ Has(job[a].owner)}
Before(S, a) == {b \in S : b < a}
\* The first of them that outweighs what is left of n troops stops the attack.
Blockers(S, n) == {a \in S : SumTroops(Before(S, a)) + attack[a].troops > n}

\* merge_outgoing_land_attacks: every other live attack of p on g.
SameButCancelled(p, g, j) == {a \in outgoing[p] \ {j} :
                                /\ attack[a].live /\ attack[a].target = g
                                /\ ~attack[a].retreating}
Same(p, g, j) == {a \in outgoing[p] \ {j} : attack[a].live /\ attack[a].target = g}

-----------------------------------------------------------------------------
(* Conquest. *)

\* conquer_player: the ships of a disconnected teammate go to the conqueror.
Captured(c, g) == IF g \in offline /\ SameTeam(c, g)
                  THEN [b \in Jobs |-> IF unit[b] = g THEN c ELSE unit[b]]
                  ELSE unit

HeirsAnyhow(own, u, p, g) ==
    LET others == {own[n] : n \in Neighbors[u]} \ {Neutral, g}
    IN  IF Borders(own, u, p) THEN {p} ELSE IF others = {} THEN {g} ELSE others
\* handle_dead_defender: a tile u that g still holds goes to p if it touches p, else
\* to some neighbour that is no friend of g, else nowhere.
Heirs(own, u, p, g) ==
    LET others == {own[n] : n \in Neighbors[u]} \ {Neutral, g}
        ready  == {x \in others : ~Friendly(x, g)}
    IN  IF Borders(own, u, p) THEN {p} ELSE IF ready = {} THEN {g} ELSE ready
\* The turn of u, on any of the maps in M.
Inherited(M, u, p, g) ==
    UNION {{[own EXCEPT ![u] = x] : x \in IF own[u] = g THEN Heirs(own, u, p, g) ELSE {own[u]}}
             : own \in M}

\* The orders in which g may have come to hold the tiles of S.
Ways(S) == {w \in [1 .. Cardinality(S) -> S] : \A u \in S : \E i \in DOMAIN w : w[i] = u}
\* The maps that may come of own when the tiles of w are gone through Passes times, each
\* with what the ones before it have done.
Legacies(own, w, p, g) ==
    LET n == Cardinality(DOMAIN w)
        after[i \in 0 .. Passes * n] ==
            IF i = 0 THEN {own} ELSE Inherited(after[i - 1], w[1 + ((i - 1) % n)], p, g)
    IN  after[Passes * n]

\* conquer, then handle_dead_defender.
ConquerTile(p, g, t) ==
    LET own  == [owner EXCEPT ![t] = p]
        rest == {u \in Tiles : own[u] = g}
    IN  IF g # Neutral /\ Cardinality(rest) < DeadDefenderTiles
        THEN /\ unit' = Captured(p, g)
             /\ \E w \in Ways(rest) : owner' \in Legacies(own, w, p, g)
        ELSE owner' = own /\ UNCHANGED unit

-----------------------------------------------------------------------------
Init ==
    /\ owner = InitOwner
    /\ troops = InitTroops
    /\ ally = {} /\ offline = {}
    /\ job = [j \in Jobs |->
                IF j \in Players
                THEN [kind |-> "player", owner |-> j, stage |-> "running", active |-> TRUE]
                ELSE [kind |-> "none", owner |-> Neutral, stage |-> "unused", active |-> FALSE]]
    /\ attack = [j \in Jobs |-> NoAttack]
    /\ outgoing = [p \in Players |-> {}] /\ incoming = [p \in Players |-> {}]
    /\ boat = [j \in Jobs |-> NoBoat]
    /\ unit = [j \in Jobs |-> Neutral]
    /\ order = [j \in Jobs |-> NoOrder]
    /\ phase = "orders" /\ cursor = 0 /\ looping = FALSE
    /\ diplomacy = 0

-----------------------------------------------------------------------------
(* execute_next_tick. *)

StartTick ==
    /\ phase = "orders"
    /\ phase' = "tick" /\ cursor' = 0
    /\ UNCHANGED <<world, ally, offline, job, looping, diplomacy>>

StartInits ==
    /\ phase = "tick"
    /\ \A j \in Jobs : j > cursor => ~Live(j)
    /\ phase' = "init"
    /\ UNCHANGED <<world, ally, offline, job, cursor, looping, diplomacy>>

\* retain drops the inactive ones with all they hold; what was initialised is
\* appended, active or not.
EndTick ==
    LET dropped == {j \in Jobs : job[j].stage = "running" /\ ~job[j].active} IN
    /\ phase = "init"
    /\ \A j \in Jobs : job[j].stage # "queued"
    /\ phase' = "orders"
    /\ attack' = [j \in Jobs |-> IF j \in dropped THEN NoAttack ELSE attack[j]]
    /\ boat' = [j \in Jobs |-> IF j \in dropped THEN NoBoat ELSE boat[j]]
    /\ order' = [j \in Jobs |-> IF j \in dropped THEN NoOrder ELSE order[j]]
    /\ job' = [j \in Jobs |->
                 CASE j \in dropped -> [job[j] EXCEPT !.stage = "gone"]
                   [] job[j].stage = "inited" -> [job[j] EXCEPT !.stage = "running"]
                   [] OTHER -> job[j]]
    /\ UNCHANGED <<owner, troops, ally, offline, outgoing, incoming, unit, cursor,
                   looping, diplomacy>>

-----------------------------------------------------------------------------
(* Orders: a client's intent before the tick (turn_to_executions), or an   *)
(* execution that adds another one in its turn (add_land_attack): the queue *)
(* is initialised after the last turn, so where in the tick that happens    *)
(* matters only when a boat has landed and put its attack in the queue.     *)

Ordering == \/ phase = "orders"
            \/ /\ phase = "tick" /\ \A j \in Jobs : j > cursor => ~Live(j)
               /\ \E j \in Jobs : job[j].stage = "queued" /\ attack[j].source # Nowhere

\* The next job is of kind k and of p, and may add n - 1 more.
Add(k, p, n) ==
    /\ Ordering /\ Room(n)
    /\ job' = [job EXCEPT ![NextJob] = NewJob(k, p)]
    /\ UNCHANGED <<owner, troops, ally, offline, outgoing, incoming, unit,
                   phase, cursor, looping, diplomacy>>

OrderAttack(p, g, n) ==
    /\ Add("attack", p, 1)
    /\ attack' = [attack EXCEPT ![NextJob] = [NoAttack EXCEPT !.target = g, !.troops = n,
                                                              !.live = TRUE]]
    /\ UNCHANGED <<boat, order>>

OrderBoat(p, t, n) ==
    /\ Add("boat", p, 2)
    /\ boat' = [boat EXCEPT ![NextJob] = [NoBoat EXCEPT !.ref = t, !.troops = n]]
    /\ UNCHANGED <<attack, order>>

\* A client cancels an attack it sees in its list; bound: one order at a time.
OrderRetreat(p, a) ==
    /\ a \in outgoing[p]
    /\ \A i \in Jobs : job[i].kind = "retreat" => order[i].of # a
    /\ Add("retreat", p, 1)
    /\ order' = [order EXCEPT ![NextJob] = [NoOrder EXCEPT !.of = a, !.left = CancelDelay]]
    /\ UNCHANGED <<attack, boat>>

OrderRecall(p, b) ==
    /\ unit[b] = p
    /\ \A i \in Jobs : job[i].kind = "recall" => order[i].of # b
    /\ Add("recall", p, 1)
    /\ order' = [order EXCEPT ![NextJob] = [NoOrder EXCEPT !.of = b]]
    /\ UNCHANGED <<attack, boat>>

OrderGift(p, q, n) ==
    /\ Add("gift", p, 1)
    /\ order' = [order EXCEPT ![NextJob] = [NoOrder EXCEPT !.of = q, !.troops = n]]
    /\ UNCHANGED <<attack, boat>>

-----------------------------------------------------------------------------
(* Diplomacy, as this module needs it: an execution that is not modelled   *)
(* here has its turn, in either half of the tick.                          *)

Diplomatic == /\ phase \in {"tick", "init"} /\ ~looping
              /\ diplomacy < MaxDiplomacy /\ diplomacy' = diplomacy + 1
              /\ UNCHANGED <<world, job, phase, cursor, looping>>

\* accept_alliance_pair: the two asked for one another (the sender still had land),
\* or the recipient agreed; neither death nor a common team stands in the way.
Ally(p, q) == /\ Diplomatic /\ p # q /\ {p, q} \notin ally /\ Has(p)
              /\ ally' = ally \cup {{p, q}} /\ UNCHANGED offline

\* break_alliance_between and expire_alliances_for.
Break(p, q) == /\ Diplomatic /\ {p, q} \in ally
               /\ ally' = ally \ {{p, q}} /\ UNCHANGED offline

\* MarkDisconnectedExecution works in its init.
MarkDisconnected(p) == /\ phase = "init" /\ Diplomatic
                       /\ offline' = IF p \in offline THEN offline \ {p} ELSE offline \cup {p}
                       /\ UNCHANGED ally

-----------------------------------------------------------------------------
(* PlayerExecution.tick. *)

\* A player without land dies: remove_on_death.
ReapLeavesShips(j) ==
    LET p == job[j].owner IN
    /\ Due(j, "player") /\ ~Has(p)
    /\ ally' = {pair \in ally : p \notin pair}
    /\ job' = Retired(j)
    /\ EndTurn(j)
    /\ UNCHANGED <<owner, troops, offline, attack, outgoing, incoming, boat, unit, order>>
Reap(j) ==
    LET p == job[j].owner IN
    /\ Due(j, "player") /\ ~Has(p)
    /\ unit' = [b \in Jobs |-> IF unit[b] = p THEN Neutral ELSE unit[b]]
    /\ ally' = {pair \in ally : p \notin pair}
    /\ job' = Retired(j)
    /\ EndTurn(j)
    /\ UNCHANGED <<owner, troops, offline, attack, outgoing, incoming, boat, order>>

\* flood_owned, flood_border_cluster: what is connected to t inside S.
Spread(S, t, adj) ==
    LET grown[n \in 0 .. Cardinality(S)] ==
            IF n = 0 THEN {t}
            ELSE grown[n - 1] \cup (S \cap UNION {adj[u] : u \in grown[n - 1]})
    IN  grown[Cardinality(S)]

\* calculate_clusters: the connected parts of p's border.
Border(p) == {t \in Land(p) : \E n \in Neighbors[t] : owner[n] # p}
Clusters(p) == {Spread(Border(p), t, Near) : t \in Border(p)}
Largest(p) == {T \in Clusters(p) : \A U \in Clusters(p) : Cardinality(U) <= Cardinality(T)}

\* The enemy's bounding box holds the cluster's.
Inscribed(E, T) ==
    \A t \in T, i \in {1, 2} : /\ \E e \in E : Pos[e][i] <= Pos[t][i]
                             /\ \E e \in E : Pos[e][i] >= Pos[t][i]
Rim(T, p) == {n \in Tiles : owner[n] # p /\ \E t \in T : n \in Neighbors[t]}
Hostile(T, p) == {n \in Rim(T, p) : owner[n] # Neutral}

\* is_surrounded, and the stricter surrounded_by_same_enemy for the largest cluster.
Surrounded(T, p) == /\ T \cap (Fringe \cup Shore) = {}
                    /\ Hostile(T, p) # {} /\ Inscribed(Hostile(T, p), T)
SurroundedByOne(T, p) ==
    /\ Surrounded(T, p)
    /\ \E e \in Players : ~Friendly(e, p) /\ \A n \in Rim(T, p) : owner[n] = e

\* get_capturing_player: the neighbour with the largest attack on p, else the one
\* that touches the cluster most often.
Invaders(T, p) == {x \in Players : ~Friendly(x, p) /\ \E n \in Rim(T, p) : owner[n] = x}
Waves(T, p) == {a \in Jobs : /\ job[a].kind = "attack" /\ Live(a) /\ attack[a].live
                             /\ attack[a].target = p /\ attack[a].troops > 0
                             /\ job[a].owner \in Invaders(T, p)}
Touches(x, T) == Cardinality({e \in T \X Tiles : e[2] \in Neighbors[e[1]] /\ owner[e[2]] = x})
Captors(T, p) ==
    IF Waves(T, p) # {}
    THEN {job[a].owner : a \in {b \in Waves(T, p) :
                                 \A c \in Waves(T, p) : attack[c].troops <= attack[b].troops}}
    ELSE {x \in Invaders(T, p) : \A y \in Invaders(T, p) : Touches(y, T) <= Touches(x, T)}

\* The surrounded clusters when L is the largest, and the land behind each.
Doomed(p, L) == {T \in Clusters(p) \ {L} : Surrounded(T, p) /\ Invaders(T, p) # {}}
                \cup {T \in {L} : SurroundedByOne(T, p)}
Behind(T, p) == Spread(Land(p), CHOOSE t \in T : TRUE, Neighbors)

\* maybe_remove_clusters, when its turn in the cadence has come: every surrounded
\* cluster goes with the land behind it; the last to go takes the player with it.
AnnexAll(p, S) ==
    \E captor \in [S -> Players] :
       /\ \A T \in S : captor[T] \in Captors(T, p)
       /\ owner' = [t \in Tiles |-> IF \E T \in S : t \in Behind(T, p)
                                    THEN captor[CHOOSE T \in S : t \in Behind(T, p)]
                                    ELSE owner[t]]
       /\ IF Land(p) = UNION {Behind(T, p) : T \in S}
          THEN \E T \in S : unit' = Captured(captor[T], p)
          ELSE UNCHANGED unit
Annex(p) == \E L \in Largest(p) : Doomed(p, L) # {} /\ AnnexAll(p, Doomed(p, L))

\* Income, then maybe_remove_clusters.
PlayerTurn(j) ==
    LET p == job[j].owner IN
    /\ Due(j, "player") /\ Has(p)
    /\ \E n \in Incomes : troops' = [troops EXCEPT ![p] =
                               IF n < 0 THEN Minus(@, -n)
                               ELSE IF @ < MaxTroops THEN Min({@ + n, MaxTroops}) ELSE @]
    /\ Annex(p) \/ UNCHANGED <<owner, unit>>
    /\ EndTurn(j)
    /\ UNCHANGED <<ally, offline, job, attack, outgoing, incoming, boat, order>>

-----------------------------------------------------------------------------
(* AttackExecution.init. *)

Hopeless(p, g) == g # Neutral /\ ~CanAttack(p, g)

EndInit == UNCHANGED <<phase, cursor, looping, diplomacy>>

AttackRefused(j) ==
    /\ DueInit(j, "attack") /\ Hopeless(job[j].owner, attack[j].target)
    /\ job' = Inited(j, FALSE) /\ EndInit
    /\ UNCHANGED <<world, ally, offline>>

Landed(j) == attack[j].source # Nowhere

\* remove_troops and add_troops: whole troops leave and come home.
Whole(n) == n \div Parts

\* The force that sets out, at most what the player has; that of a landed boat has left
\* home already.
Muster(j) == IF Landed(j) \/ attack[j].troops <= Parts * troops[job[j].owner] THEN attack[j].troops
            ELSE Parts * troops[job[j].owner]

\* The attacks it meets, and the one that stops it.
Facing(j) == IF attack[j].target = Neutral THEN {} ELSE Opposing(job[j].owner, attack[j].target)
Stoppers(j) == Blockers(Facing(j), Muster(j))
Stopped(j) == Stoppers(j) # {}

Beaten(j) == IF Stopped(j) THEN Before(Facing(j), Min(Stoppers(j))) ELSE Facing(j)
Absorbed(j) == IF Stopped(j) \/ Landed(j) THEN {} ELSE Same(job[j].owner, attack[j].target, j)
Fallen(j) == Beaten(j) \cup Absorbed(j) \cup IF Stopped(j) THEN {j} ELSE {}

Enlisted(r, x, j) == [q \in Players |-> (IF q = x THEN r[q] \cup {j} ELSE r[q]) \ Fallen(j)]

\* What is left of the force, and where it starts.
Left(j) == Muster(j) - SumTroops(Beaten(j))
Opening(j) == IF Landed(j) THEN Around(attack[j].source, attack[j].target)
              ELSE Frontier(job[j].owner, attack[j].target)

\* The troops leave home, the attack is entered in the registries, and the target's
\* attacks on p are fought off first: either one of them swallows this attack, or all
\* of them die and it swallows p's other attacks on g - unless it came from a boat.
AttackStarts(j) ==
    LET p    == job[j].owner
        g    == attack[j].target
    IN
    /\ DueInit(j, "attack") /\ ~Hopeless(p, g)
    /\ job' = Inited(j, ~Stopped(j)) /\ EndInit
    /\ troops' = IF Landed(j) THEN troops ELSE [troops EXCEPT ![p] = @ - Whole(Muster(j))]
    /\ attack' =
         [a \in Jobs |->
            IF a = j THEN [attack[j] EXCEPT !.troops = Left(j) + SumTroops(Absorbed(j)),
                                            !.frontier = Opening(j), !.live = ~Stopped(j)]
            ELSE IF a \in Fallen(j) THEN [attack[a] EXCEPT !.live = FALSE]
            ELSE IF Stopped(j) /\ a = Min(Stoppers(j)) THEN [attack[a] EXCEPT !.troops = @ - Left(j)]
            ELSE attack[a]]
    /\ outgoing' = Enlisted(outgoing, p, j)
    /\ incoming' = Enlisted(incoming, g, j)
    /\ UNCHANGED <<owner, ally, offline, boat, unit, order>>

-----------------------------------------------------------------------------
(* AttackExecution.tick. *)

\* retreat(malus): the survivors go home, and the attack is deleted.
GoHome(j, malus) ==
    LET n == attack[j].troops IN
    /\ troops' = [troops EXCEPT ![job[j].owner] = @ + Whole(IF malus THEN (3 * n) \div 4 ELSE n)]
    /\ attack' = [attack EXCEPT ![j] = [@ EXCEPT !.troops = 0, !.live = FALSE]]
    /\ Unregistered({j})
    /\ job' = Retired(j)
    /\ EndTurn(j)

\* A cancelled attack pays its survivors, deleted meanwhile or not.
AttackRetreats(j) ==
    /\ Due(j, "attack") /\ attack[j].retreated
    /\ GoHome(j, attack[j].target # Neutral)
    /\ UNCHANGED <<owner, ally, offline, boat, unit, order>>

\* kill_attack happened in another job's turn.
AttackIsGone(j) ==
    /\ Due(j, "attack") /\ ~attack[j].retreated /\ ~attack[j].live
    /\ job' = Retired(j) /\ EndTurn(j)
    /\ UNCHANGED <<world, ally, offline>>

AttackWaitsFirst(j) ==
    /\ Due(j, "attack") /\ attack[j].live /\ attack[j].retreating
    /\ EndTurn(j) /\ UNCHANGED <<world, ally, offline, job>>
AttackWaits(j) ==
    /\ Due(j, "attack") /\ attack[j].live /\ attack[j].retreating /\ ~attack[j].retreated
    /\ EndTurn(j) /\ UNCHANGED <<world, ally, offline, job>>

TargetIsTeammate(j) == attack[j].target # Neutral
                       /\ SameTeam(job[j].owner, attack[j].target)
TargetIsFriend(j) == attack[j].target # Neutral /\ Friendly(job[j].owner, attack[j].target)

AttackMarches(j) == Due(j, "attack") /\ attack[j].live /\ ~attack[j].retreating
                    /\ ~attack[j].retreated

AttackMeetsFriend(j) ==
    /\ AttackMarches(j) /\ ~looping /\ TargetIsFriend(j)
    /\ GoHome(j, FALSE)
    /\ UNCHANGED <<owner, ally, offline, boat, unit, order>>

\* The conquest loop is entered once per tick, and left when num_tiles_per_tick
\* is used up.
AttackFights(j) == AttackMarches(j) /\ (looping \/ ~TargetIsFriend(j))

\* No border left and the dice add nothing: no conquest in this tick.
AttackIdles(j) ==
    /\ AttackFights(j) /\ ~looping /\ attack[j].frontier = {}
    /\ EndTurn(j) /\ UNCHANGED <<world, ally, offline, job>>

AttackRunsOut(j) ==
    /\ AttackFights(j) /\ attack[j].troops < Parts
    /\ attack' = Killed({j}) /\ Unregistered({j})
    /\ job' = Retired(j) /\ EndTurn(j)
    /\ UNCHANGED <<owner, troops, ally, offline, boat, unit, order>>

AttackRunsDry(j) ==
    /\ AttackFights(j) /\ attack[j].troops >= Parts /\ attack[j].frontier = {}
    /\ GoHome(j, FALSE)
    /\ UNCHANGED <<owner, ally, offline, boat, unit, order>>

Takeable(j, t) == /\ owner[t] = attack[j].target
                  /\ Borders(owner, t, job[j].owner)

AttackSkips(j, t) ==
    /\ AttackFights(j) /\ attack[j].troops >= Parts /\ t \in attack[j].frontier
    /\ ~Takeable(j, t)
    /\ attack' = [attack EXCEPT ![j].frontier = @ \ {t}]
    /\ looping' = TRUE
    /\ UNCHANGED <<owner, troops, ally, offline, job, outgoing, incoming, boat, unit,
                   order, phase, cursor, diplomacy>>

\* The heap after tile t: without it, unless it held it twice, and with its neighbours.
Ahead(j, t, twice) ==
    Around(t, attack[j].target) \cup (attack[j].frontier \ IF twice THEN {} ELSE {t})

\* One round of the loop; again says whether there is another.
AttackConquers(j, t, again, twice) ==
    LET p == job[j].owner
        g == attack[j].target
    IN
    /\ AttackFights(j) /\ attack[j].troops >= Parts /\ t \in attack[j].frontier
    /\ Takeable(j, t)
    /\ \E lost \in AttackerLosses :
         attack' = [attack EXCEPT ![j].troops = Minus(@, lost),
                                  ![j].frontier = Ahead(j, t, twice)]
    /\ \E lost \in IF g = Neutral THEN {0} ELSE DefenderLosses :
         troops' = IF g = Neutral THEN troops
                   ELSE [troops EXCEPT ![g] = Minus(@, lost)]
    /\ ConquerTile(p, g, t)
    /\ looping' = again /\ cursor' = IF again THEN cursor ELSE j
    /\ UNCHANGED <<ally, offline, job, outgoing, incoming, boat, order, phase, diplomacy>>

-----------------------------------------------------------------------------
(* RetreatExecution and BoatRetreatExecution. *)

RetreatStarts(j) ==
    /\ DueInit(j, "retreat") \/ DueInit(j, "recall")
    /\ job' = Inited(j, TRUE) /\ EndInit
    /\ UNCHANGED <<world, ally, offline>>

\* order_retreat in the first turn, execute_retreat after CancelDelay ticks; the
\* latter does not ask whether the attack still lives.
RetreatTurn(j) ==
    LET a     == order[j].of
        left  == order[j].left
        first == left = CancelDelay
        last  == left = 1
    IN
    /\ Due(j, "retreat")
    /\ order' = [order EXCEPT ![j].left = @ - 1]
    /\ attack' = IF job[a].stage # "running" \/ job[a].owner # job[j].owner THEN attack
                 ELSE [attack EXCEPT ![a].retreating = @ \/ (first /\ attack[a].live),
                                     ![a].retreated = @ \/ last]
    /\ job' = IF last THEN Retired(j) ELSE job
    /\ EndTurn(j)
    /\ UNCHANGED <<owner, troops, ally, offline, outgoing, incoming, boat, unit>>

\* order_boat_retreat: only by the one who owns the unit.
RecallTurn(j) ==
    LET b == order[j].of IN
    /\ Due(j, "recall")
    /\ boat' = IF unit[b] = job[j].owner /\ job[b].stage = "running"
               THEN [boat EXCEPT ![b].retreating = TRUE] ELSE boat
    /\ job' = Retired(j) /\ EndTurn(j)
    /\ UNCHANGED <<owner, troops, ally, offline, attack, outgoing, incoming, unit, order>>

-----------------------------------------------------------------------------
(* DonateTroopsExecution. *)

\* The amount is fixed in the init: what was ordered, a third if nothing was, and
\* no more than the friend can hold now.
Promised(j) == Min({IF order[j].troops = 0 THEN Parts * (troops[job[j].owner] \div 3)
                    ELSE order[j].troops, Parts * (MaxTroops - troops[order[j].of])})
GiftStarts(j) ==
    /\ DueInit(j, "gift") /\ EndInit
    /\ IF Promised(j) > 0
       THEN job' = Inited(j, TRUE) /\ order' = [order EXCEPT ![j].troops = Promised(j)]
       ELSE job' = Inited(j, FALSE) /\ UNCHANGED order
    /\ UNCHANGED <<owner, troops, ally, offline, attack, outgoing, incoming, boat, unit>>

\* donation_on_cooldown: certainly when the friend got a gift in this tick, perhaps
\* when an earlier one was ordered (the cooldown of 100 ticks is not counted).
GiftsBefore(j) == {i \in Jobs : /\ i < j /\ job[i].kind = "gift" /\ ~job[i].active
                               /\ job[i].owner = job[j].owner}
GivenNow(j) == {i \in GiftsBefore(j) : /\ job[i].stage = "running" /\ order[i].troops > 0
                                       /\ order[i].of = order[j].of}

CanDonate(j) == LET p == job[j].owner
                    q == order[j].of
                IN  /\ p # q /\ Has(p) /\ Has(q) /\ Friendly(p, q)
                    /\ GivenNow(j) = {}

GivenAsPromised(p, n) == Whole(n)
\* remove_troops: what is taken is what there is.
Given(p, n) == Min({Whole(n), troops[p]})

GiftTurn(j) ==
    LET p == job[j].owner
        q == order[j].of
        n == Given(p, order[j].troops)
    IN
    /\ Due(j, "gift") /\ CanDonate(j)
    /\ troops' = [troops EXCEPT ![p] = Minus(@, n), ![q] = @ + n]
    /\ order' = [order EXCEPT ![j].troops = n]
    /\ job' = Retired(j) /\ EndTurn(j)
    /\ UNCHANGED <<owner, ally, offline, attack, outgoing, incoming, boat, unit>>

GiftRefused(j) ==
    /\ Due(j, "gift")
    /\ ~CanDonate(j) \/ GiftsBefore(j) # {}
    /\ order' = [order EXCEPT ![j].troops = 0]
    /\ job' = Retired(j) /\ EndTurn(j)
    /\ UNCHANGED <<owner, troops, ally, offline, attack, outgoing, incoming, boat, unit>>

-----------------------------------------------------------------------------
(* TransportShipExecution. *)

Boats(p) == {b \in Jobs : unit[b] = p}
\* target_transport_tile: a shore of whoever owns the tile ordered.
Landings(t) == {s \in Shore : owner[s] = owner[t]}
Harbours(p) == {s \in Shore : owner[s] = p}

\* The force that goes aboard: what was ordered, if the player still has it.
AboardAsOrdered(p, n) == n
Aboard(p, n) == Min({n, Parts * troops[p]})
SunkNever(b) == unit
Sunk(b) == [unit EXCEPT ![b] = Neutral]

BoatHopeless(p, t) == \/ Cardinality(Boats(p)) >= MaxBoats
                      \/ owner[t] = p
                      \/ owner[t] # Neutral /\ ~CanAttack(p, owner[t])
                      \/ Landings(t) = {}
                      \/ Harbours(p) = {}

BoatRefused(j) ==
    /\ DueInit(j, "boat") /\ BoatHopeless(job[j].owner, boat[j].ref)
    /\ job' = Inited(j, FALSE) /\ EndInit
    /\ UNCHANGED <<world, ally, offline>>

\* The troops go aboard, no water path is found, and they come back.
BoatFindsNoPath(j) ==
    /\ DueInit(j, "boat") /\ ~BoatHopeless(job[j].owner, boat[j].ref)
    /\ job' = Inited(j, FALSE) /\ EndInit
    /\ UNCHANGED <<world, ally, offline>>

\* target_small_id is the owner of the tile now, and stays so.
BoatSails(j, dst) ==
    LET p == job[j].owner
        n == Aboard(p, boat[j].troops)
    IN
    /\ DueInit(j, "boat") /\ ~BoatHopeless(p, boat[j].ref)
    /\ dst \in Landings(boat[j].ref)
    /\ troops' = [troops EXCEPT ![p] = Minus(@, Whole(n))]
    /\ boat' = [boat EXCEPT ![j] = [@ EXCEPT !.troops = n, !.dst = dst,
                                             !.target = owner[boat[j].ref]]]
    /\ unit' = [unit EXCEPT ![j] = p]
    /\ job' = Inited(j, TRUE) /\ EndInit
    /\ UNCHANGED <<owner, ally, offline, attack, outgoing, incoming, order>>

\* unit_tile looks for the unit among its first owner's units.
BoatIsLost(j) ==
    /\ Due(j, "boat") /\ unit[j] # job[j].owner
    /\ job' = Retired(j) /\ EndTurn(j)
    /\ UNCHANGED <<world, ally, offline>>

\* Where the boat is heading in this turn: a recalled boat first looks for the
\* nearest of its owner's shores.
Steers(j, dst) ==
    IF boat[j].retreating /\ ~boat[j].resolved THEN dst \in Harbours(job[j].owner)
    ELSE dst = boat[j].dst

BoatIsHomeless(j) ==
    LET p == job[j].owner IN
    /\ Due(j, "boat") /\ unit[j] = p
    /\ boat[j].retreating /\ ~boat[j].resolved /\ Harbours(p) = {}
    /\ troops' = [troops EXCEPT ![p] = @ + Whole(boat[j].troops)]
    /\ unit' = Sunk(j)
    /\ job' = Retired(j) /\ EndTurn(j)
    /\ UNCHANGED <<owner, ally, offline, attack, outgoing, incoming, boat, order>>

BoatMoves(j, dst) ==
    /\ Due(j, "boat") /\ unit[j] = job[j].owner /\ Steers(j, dst)
    /\ boat' = [boat EXCEPT ![j] = [@ EXCEPT !.dst = dst, !.resolved = boat[j].retreating]]
    /\ EndTurn(j)
    /\ UNCHANGED <<owner, troops, ally, offline, job, attack, outgoing, incoming, unit, order>>

\* land, on arrival or when there is no path on: the tile is taken whoever holds
\* it, and the troops attack the target of the launch from there - as a new job,
\* initialised at the end of this tick - unless the target has become a friend.
BoatLands(j, dst) ==
    LET p    == job[j].owner
        n    == boat[j].troops
        g    == boat[j].target
        home == owner[dst] = p
        join == ~home /\ g # Neutral /\ Friendly(p, g)
        k    == NextJob
    IN
    /\ Due(j, "boat") /\ unit[j] = p /\ Steers(j, dst)
    /\ unit' = Sunk(j)
    /\ owner' = [owner EXCEPT ![dst] = p]
    /\ troops' = [troops EXCEPT ![p] = @ + (CASE home -> Whole((3 * n) \div 4)
                                              [] join -> Whole(n)
                                              [] OTHER -> 0)]
    /\ IF home \/ join
       THEN job' = Retired(j) /\ UNCHANGED attack
       ELSE /\ job' = [Retired(j) EXCEPT ![k] = NewJob("attack", p)]
            /\ attack' = [attack EXCEPT ![k] =
                            [NoAttack EXCEPT !.target = g, !.troops = n, !.source = dst,
                                             !.live = TRUE]]
    /\ EndTurn(j)
    /\ UNCHANGED <<ally, offline, outgoing, incoming, boat, order>>

-----------------------------------------------------------------------------
Orders ==
    \/ \E o \in AttackOrders : OrderAttack(o[1], o[2], o[3])
    \/ \E o \in BoatOrders : OrderBoat(o[1], o[2], o[3])
    \/ \E o \in GiftOrders : OrderGift(o[1], o[2], o[3])
    \/ \E p \in Players, j \in Jobs : OrderRetreat(p, j) \/ OrderRecall(p, j)

DiplomacyTurn ==
    \/ \E p, q \in Players : Ally(p, q) \/ Break(p, q)
    \/ \E p \in Players : MarkDisconnected(p)

PlayerJob(j) == Reap(j) \/ PlayerTurn(j)

\* Whose turn it is, asked once for all that an attack may do.
AttackTurn(j) ==
    /\ Due(j, "attack")
    /\ \/ AttackRetreats(j) \/ AttackIsGone(j) \/ AttackWaits(j) \/ AttackMeetsFriend(j)
       \/ AttackIdles(j) \/ AttackRunsOut(j) \/ AttackRunsDry(j)
       \/ \E t \in attack[j].frontier : AttackSkips(j, t)
       \/ \E t \in attack[j].frontier, again, twice \in BOOLEAN :
             AttackConquers(j, t, again, twice)

AttackJob(j) == AttackRefused(j) \/ AttackStarts(j) \/ AttackTurn(j)

RetreatJob(j) == RetreatStarts(j) \/ RetreatTurn(j) \/ RecallTurn(j)

GiftJob(j) == GiftStarts(j) \/ GiftTurn(j) \/ GiftRefused(j)

BoatJob(j) ==
    \/ BoatRefused(j) \/ BoatFindsNoPath(j) \/ BoatIsLost(j) \/ BoatIsHomeless(j)
    \/ \E dst \in Tiles : BoatSails(j, dst) \/ BoatMoves(j, dst) \/ BoatLands(j, dst)

Tick ==
    \/ StartTick \/ StartInits \/ EndTick
    \/ \E j \in Players : PlayerJob(j)
    \/ \E j \in Jobs : \/ job[j].kind = "attack" /\ AttackJob(j)
                       \/ job[j].kind \in {"retreat", "recall"} /\ RetreatJob(j)
                       \/ job[j].kind = "gift" /\ GiftJob(j)
                       \/ job[j].kind = "boat" /\ BoatJob(j)

Next == Tick \/ Orders \/ DiplomacyTurn

Spec == Init /\ [][Next]_vars

\* The scheduler keeps ticking, and the dice of attack_tiles_per_tick do not roll
\* zero for ever.
FairSpec == /\ Spec /\ WF_vars(Tick)
            /\ \A j \in Jobs : SF_vars(AttackRunsDry(j) \/ AttackRunsOut(j))

-----------------------------------------------------------------------------
(* Properties. *)

\* Every variable has its type; troops are never negative.
TypeOK ==
    /\ owner \in [Tiles -> Owners] /\ troops \in [Players -> Nat]
    /\ ally \subseteq {{p, q} : p, q \in Players} /\ offline \subseteq Players
    /\ job \in [Jobs -> JobType]
    /\ attack \in [Jobs -> AttackType] /\ boat \in [Jobs -> BoatType]
    /\ outgoing \in [Players -> SUBSET Jobs] /\ incoming \in [Players -> SUBSET Jobs]
    /\ unit \in [Jobs -> Owners] /\ order \in [Jobs -> OrderType]
    /\ phase \in {"orders", "tick", "init"} /\ cursor \in 0 .. MaxJobs
    /\ looping \in BOOLEAN /\ diplomacy \in 0 .. MaxDiplomacy

\* An attack that is under way: initialised and not deleted.
Standing(a) == /\ job[a].kind = "attack" /\ job[a].stage \in {"inited", "running"}
               /\ job[a].active /\ attack[a].live

\* The registries of the two players hold the attacks under way and nothing else,
\* through merges, mutual cancellation, retreats and deaths (register_land_attack,
\* unregister_land_attack): what the observation, the AI and the client's cancel
\* button read is what the executions are doing.
RegistriesAreExact ==
    \A p \in Players :
        /\ outgoing[p] = {a \in Jobs : Standing(a) /\ job[a].owner = p}
        /\ incoming[p] = {a \in Jobs : Standing(a) /\ attack[a].target = p}

\* A player whose PlayerExecution has ended (remove_on_death) never holds a tile
\* or a transport again, whatever of its attacks, boats and orders was still in
\* the lists: nothing would reap it a second time.
TheDeadStayDead ==
    \A p \in Players : ~job[p].active => /\ ~Has(p)
                                          /\ \A b \in Jobs : unit[b] # p

\* After merge_outgoing_land_attacks a player has at most one overland attack on
\* each target; only forces that came by boat stand beside it.
OneOverlandAttack ==
    \A a, b \in Jobs : /\ Standing(a) /\ Standing(b)
                       /\ job[a].owner = job[b].owner /\ attack[a].target = attack[b].target
                       /\ attack[a].source = Nowhere /\ attack[b].source = Nowhere
                       => a = b

\* A transport at sea has an execution that will land it, bring it back or sink
\* it: no unit outlives its TransportShipExecution (and counts against
\* boat_max_number for ever).
EveryBoatIsSteered ==
    \A b \in Jobs : unit[b] # Neutral => job[b].active /\ job[b].owner = unit[b]

InTheField == {a \in Jobs : Standing(a) \/ /\ job[a].stage = "queued" /\ job[a].kind = "attack"
                                           /\ attack[a].source # Nowhere}
Strength == Parts * Total(NumPlayers, troops) + SumTroops(InTheField)
            + Total(MaxJobs, [b \in Jobs |-> IF unit[b] = Neutral THEN 0 ELSE boat[b].troops])

\* Whose turn this step was, and who left home in it.
TurnOf(j, k) == job[j].kind = k /\ cursor' = j /\ cursor # j
SetsOut(j) == /\ job[j].kind = "boat" \/ (job[j].kind = "attack" /\ ~Landed(j))
              /\ job[j].stage = "queued" /\ job'[j].stage = "inited"

\* No order, merge, fight, landing, gift or retreat makes troops: outside of income the
\* strength of all sides never grows - except that a force that leaves home keeps the
\* fraction of its order, less than one troop, of which its player pays the whole troops
\* only (remove_troops), and that an attack whose retreat was executed may have been
\* deleted by a merge in the same tick: its troops already march in the merged attack, and
\* its survivors are paid home as well (the test
\* retreated_attack_deleted_by_same_tick_merge_still_returns_survivors, attack.rs).
NoTroopsFromNowhere ==
    [][Strength' > Strength =>
         \E j \in Jobs : \/ TurnOf(j, "player")
                         \/ TurnOf(j, "attack") /\ attack[j].retreated /\ ~attack[j].live
                         \/ SetsOut(j) /\ Strength' < Strength + Parts]_vars

\* Land changes hands between friends only under a landing boat, whose target was
\* fixed at launch: an attack on a player who has become a friend, the sharing out
\* of a dead defender and the annexation of an enclosed cluster never do it.
FriendsKeepTheirLand ==
    [][\A t \in Tiles : owner[t] # Neutral /\ owner'[t] # owner[t]
                        /\ Friendly(owner'[t], owner[t])
                        => \E j \in Jobs : TurnOf(j, "boat")]_vars

\* When an attack sets out, every attack of its target on its owner is fought off
\* first (cancel_opposing_land_attacks): two players attack one another at the same
\* time only if the older attack's owner holds no land.
NoHeadOnAttacks ==
    [][\A a, b \in Jobs : /\ job[a].stage = "queued" /\ Standing(a)' /\ Standing(b)'
                          /\ job[b].owner = attack[a].target /\ attack[b].target = job[a].owner
                          => ~Has(job[b].owner)]_vars

\* Every attack that sets out ends - by victory, retreat, cancellation or death -
\* and its execution leaves the list: a cancelled one too, however it was merged.
EveryAttackEnds ==
    \A a \in Jobs : job[a].kind = "attack" ~> job[a].stage = "gone"
=============================================================================
