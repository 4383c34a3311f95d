-------------------------------- MODULE Rail --------------------------------
(***************************************************************************)
(* Stations, railroads and trains (src/rust/engine/src/rail.rs and the     *)
(* executions of cities, factories, ports, stations and trains), upon the  *)
(* structures of Arsenal: whatever removes a structure removes a station.  *)
(*                                                                         *)
(* Which structures are too near for a railroad or cannot be reached, how  *)
(* their distances compare, which railroads pass a new station, whom an    *)
(* embargo keeps a train from, and how long it is on its way are choices.  *)
(* A train and its cars are one unit: they are built and removed together. *)
(* The ids of stations, railroads and clusters are used again when nothing *)
(* names them.                                                             *)
(***************************************************************************)
EXTENDS Arsenal

CONSTANTS
    RailRange,      \* the pairs of tiles within train_station_max_range
    StationIds,     \* 1 .. n, bound
    RoadIds,        \* 1 .. n, bound
    ClusterIds,     \* 1 .. n, bound
    MaxHops,        \* MAX_CONNECTION_DISTANCE, 4
    MaxRow,         \* bound: railroads or structures a new station is joined to
    Rides           \* the turns a train may take for a railroad

ASSUME RailAssumption ==
    /\ RailRange \subseteq Tiles \X Tiles
    /\ \A r \in RailRange : <<r[2], r[1]>> \in RailRange
    /\ \A I \in {StationIds, RoadIds, ClusterIds} : IsFiniteSet(I) /\ I = 1 .. Cardinality(I)
    \* Where every station is in a cluster of its own, one is left for recompute_clusters.
    /\ Cardinality(ClusterIds) > Cardinality(StationIds)
    /\ MaxHops \in Nat /\ MaxRow \in Nat /\ Rides # {} /\ Rides \subseteq Nat

VARIABLE net        \* Game.rail_network, and the has_train_station of units

railVars == <<vars, net>>

NoId == 0
NoRoad == <<NoId, NoId>>
\* A station outlives its unit when there are two stations of it.
Lost == -1
StationType == [unit : UnitIds \cup {NoUnitId, Lost}, trades : BOOLEAN,
                cluster : ClusterIds \cup {NoId},
                roads : SUBSET RoadIds,                  \* railroads
                via : [StationIds -> RoadIds \cup {NoId}]]   \* railroad_by_neighbor
NoStation == [unit |-> NoUnitId, trades |-> FALSE, cluster |-> NoId, roads |-> {},
              via |-> [s \in StationIds |-> NoId]]
NetType == [station : [StationIds -> StationType],
            of : [UnitIds -> StationIds \cup {NoId}],      \* station_by_unit
            road : [RoadIds -> (StationIds \cup {NoId}) \X (StationIds \cup {NoId})],
            members : [ClusterIds -> SUBSET StationIds],   \* Cluster.stations
            dirty : Seq(ClusterIds),
            served : SUBSET UnitIds]                       \* Unit.has_train_station
NoNet == [station |-> [s \in StationIds |-> NoStation], of |-> [u \in UnitIds |-> NoId],
          road |-> [r \in RoadIds |-> NoRoad], members |-> [c \in ClusterIds |-> {}],
          dirty |-> <<>>, served |-> {}]

StationJob(p, u, spawns) ==
    [kind |-> "station", by |-> p, unit |-> u, prey |-> NoUnitId, from |-> NoUnitId,
     station |-> NoId, spawns |-> spawns]
TrainJob(p, from, to) ==
    [kind |-> "train", by |-> p, unit |-> NoUnitId, prey |-> NoUnitId, from |-> NoUnitId,
     left |-> 0, path |-> <<from, to>>]
RecomputeJob == Job("recompute", Neutral)

-----------------------------------------------------------------------------
(* The network. *)

Stands(n, s) == n.station[s].unit # NoUnitId
Beside(n, s) == UNION {{n.road[r][1], n.road[r][2]} : r \in n.station[s].roads} \ {s}
\* The stations within k railroads of s.
Within(n, s, k) ==
    LET f[i \in 0 .. k] == IF i = 0 THEN {s} ELSE f[i - 1] \cup UNION {Beside(n, x) : x \in f[i - 1]}
    IN  f[k]
Linked(n, s) == Within(n, s, Cardinality(StationIds))

LeastOf(S) == CHOOSE x \in S : \A y \in S : x <= y
Ridden == UNION {IF job.kind = "train" THEN Range(job.path)
                 ELSE IF job.kind = "station" THEN {job.station} ELSE {} :
                    job \in Range(execs) \cup Range(uninit)}
FreeStations(n) == {s \in StationIds \ Ridden : ~Stands(n, s)}
FreeRoads(n) == {r \in RoadIds : n.road[r] = NoRoad}
FreeClusters(n) == {c \in ClusterIds : /\ n.members[c] = {} /\ c \notin Range(n.dirty)
                                      /\ \A s \in StationIds : n.station[s].cluster # c}
NewStation(n) == LeastOf(FreeStations(n))
NewRoad(n) == LeastOf(FreeRoads(n))
NewCluster(n) == LeastOf(FreeClusters(n))
\* Bound: there are ids for one more station, whatever it is joined to.
HasIds(n) == FreeStations(n) # {} /\ FreeClusters(n) # {} /\ Cardinality(FreeRoads(n)) >= MaxRow

\* Station::add_railroad and remove_railroad, at the end that leads to t. A second
\* railroad between two stations takes the first one's place in railroad_by_neighbor,
\* and with either of them the entry goes.
AddRailroad(station, t, r) == [station EXCEPT !.roads = @ \cup {r}, !.via[t] = r]
RemoveRailroad(station, t, r) == [station EXCEPT !.roads = @ \ {r}, !.via[t] = NoId]
Lay1(n, a, b) ==
    LET r == NewRoad(n) IN
    [n EXCEPT !.road[r] = <<a, b>>, !.station[a] = AddRailroad(@, b, r),
                                    !.station[b] = AddRailroad(@, a, r)]
\* Plausible bug: only the end that is removed forgets the railroad.
TearAtOneEnd(n, r) ==
    LET a == n.road[r][1]
        b == n.road[r][2] IN
    [n EXCEPT !.road[r] = NoRoad, !.station[a] = RemoveRailroad(@, b, r)]
Tear(n, r) ==
    LET a == n.road[r][1]
        b == n.road[r][2] IN
    [n EXCEPT !.road[r] = NoRoad, !.station[a] = RemoveRailroad(@, b, r),
                                  !.station[b] = RemoveRailroad(@, a, r)]

\* cluster_add_station: first it is added, then removed from the cluster it was in,
\* be it the same.
Join(n, c, s) ==
    LET old == n.station[s].cluster
        added == [n.members EXCEPT ![c] = @ \cup {s}] IN
    [n EXCEPT !.station[s].cluster = c,
              !.members = IF old = NoId THEN added ELSE [added EXCEPT ![old] = @ \ {s}]]
JoinAll(n, c, S) == FoldSet(LAMBDA s, m : Join(m, c, s), n, S)
\* merge_clusters
Merge(n, C) == IF Cardinality(C) < 2 THEN n
               ELSE JoinAll(n, NewCluster(n), UNION {n.members[c] : c \in C})

\* connect_to_existing_rails: s comes to stand on the railroads of a row.
SnapTo(acc, r, s) ==
    LET n == acc.net
        a == n.road[r][1]
        b == n.road[r][2]
        m == Lay1(Lay1(Tear(n, r), a, s), s, b)
        c == m.station[a].cluster
    IN  IF c = NoId THEN [acc EXCEPT !.net = m]
        ELSE [net |-> Join(m, c, s), edited |-> acc.edited \cup {c}]
OnRails(n, s, rails) ==
    FoldLeft(LAMBDA acc, r : SnapTo(acc, r, s), [net |-> n, edited |-> {}], rails)

\* connect_to_nearby_stations: the structures of a row, if no way leads there yet.
Reach1(acc, u, s) ==
    LET n == acc.net
        t == n.of[u] IN
    IF t = NoId \/ n.station[t].cluster = NoId \/ s \in Within(n, t, MaxHops) THEN acc
    ELSE LET c == n.station[t].cluster IN
         [net |-> Join(Lay1(n, s, t), c, s), edited |-> acc.edited \cup {c}]
ToStations(n, s, near) ==
    LET acc == FoldLeft(LAMBDA a, u : Reach1(a, u, s), [net |-> n, edited |-> {}], near)
    IN  IF acc.edited = {} THEN Join(acc.net, NewCluster(acc.net), s)
                           ELSE Merge(acc.net, acc.edited)

\* connect_station: the networks that may come of it.
Rows(S) == UNION {{row \in [1 .. k -> S] : IsInjective(row)} : k \in 0 .. MaxRow}
Near(u) == {v \in OfType({"City", "Factory", "Port"}) \ {u} :
                ~unit[v].building /\ <<unit[u].tile, unit[v].tile>> \in RailRange}
Connected(n, s, u) ==
    LET new == [n EXCEPT !.station[s] = [NoStation EXCEPT !.unit = u,
                                            !.trades = unit[u].type \in {"City", "Port"}],
                         !.of[u] = IF @ = NoId THEN s ELSE @]
        snapped == {OnRails(new, s, row) : row \in Rows({r \in RoadIds : n.road[r] # NoRoad})}
    IN  {Merge(acc.net, acc.edited) : acc \in {x \in snapped : x.edited # {}}}
        \cup UNION {{ToStations(acc.net, s, row) : row \in Rows(Near(u))} :
                        acc \in {x \in snapped : x.edited = {}}}

\* remove_station: the first station of a unit goes, a second one stays. A cluster is
\* at most once in dirty_clusters.
WithoutStation(n, u) ==
    LET s == n.of[u]
        c == n.station[s].cluster
        rest == {t \in StationIds \ {s} : n.station[t].unit = u}
        cut == FoldSet(LAMBDA r, m : Tear(m, r), n, n.station[s].roads)
        left == [cut EXCEPT !.station = [t \in StationIds |->
                                IF t = s THEN NoStation
                                ELSE IF t \in rest THEN [@[t] EXCEPT !.unit = Lost] ELSE @[t]],
                            !.of[u] = NoId]
    IN  IF s = NoId THEN n
        ELSE IF c = NoId THEN left
        ELSE LET out == [left EXCEPT !.members[c] = @ \ {s}]
             IN  [out EXCEPT !.dirty = IF out.members[c] = {} THEN RemoveFirst(@, c)
                                       ELSE IF c \in Range(@) THEN @ ELSE Append(@, c)]

\* recompute_clusters: every part of a dirty cluster but the last gets a new one.
Parted(n, c) ==
    LET parts == {Linked(n, s) : s \in n.members[c]} IN
    IF parts = {} THEN {n}
    ELSE {FoldSet(LAMBDA part, m : JoinAll(m, NewCluster(m), part), n, parts \ {last}) :
             last \in parts}
Recomputed(n) ==
    FoldLeft(LAMBDA nets, c : UNION {Parted(m, c) : m \in nets},
             {[n EXCEPT !.dirty = <<>>]}, n.dirty)

-----------------------------------------------------------------------------
(* Who gets a station. *)

Serve(jobs, S) == Add(jobs) /\ net' = [net EXCEPT !.served = @ \cup S]
NotServed == UNCHANGED <<uninit, net>>
FactoryNear(u) == Near(u) \cap OfType({"Factory"}) # {}

\* CityExecution: once, in its first turn, whether it is served already or not.
CityTurn ==
    /\ Turn("city")
    /\ \/ Gone /\ UNCHANGED net
       \/ /\ Exists(Me.unit) /\ Stay([Held EXCEPT !.left = 1])
          /\ IF Me.left = 0 /\ FactoryNear(Me.unit)
             THEN Serve(<<StationJob(Held.by, Me.unit, FALSE)>>, {Me.unit})
             ELSE NotServed
          /\ UNCHANGED unit
    /\ UNCHANGED <<owner, allies>> /\ Tick

\* PortExecution, but for its ships, which are in Fleet: in every turn until it is served.
PortJoins ==
    /\ Turn("port")
    /\ \/ Gone /\ UNCHANGED net
       \/ /\ Exists(Me.unit) /\ Stay(Held)
          /\ IF Me.unit \notin net.served /\ FactoryNear(Me.unit)
             THEN Serve(<<StationJob(Held.by, Me.unit, FALSE)>>, {Me.unit})
             ELSE NotServed
          /\ UNCHANGED unit
    /\ UNCHANGED <<owner, allies>> /\ Tick

UnservedOfHolder(f) == {u \in Near(f) \ net.served : unit[u].holder = unit[f].holder}
Unserved(f) == Near(f) \ net.served
\* FactoryExecution: once, for itself and for what stands near and has no station.
FactoryTurn ==
    /\ Turn("factory")
    /\ \/ Gone /\ UNCHANGED net
       \/ /\ Exists(Me.unit) /\ Stay([Held EXCEPT !.left = 1])
          /\ IF Me.left = 0
             THEN \E row \in SetToAllKPermutations(Unserved(Me.unit)) :
                     /\ Range(row) = Unserved(Me.unit)
                     /\ Serve(<<StationJob(Held.by, Me.unit, TRUE)>> \o
                              [i \in DOMAIN row |->
                                 StationJob(unit[row[i]].holder, row[i], FALSE)],
                              {Me.unit} \cup Range(row))
             ELSE NotServed
          /\ UNCHANGED unit
    /\ UNCHANGED <<owner, allies>> /\ Tick

\* cluster_random_trade_destination
Destinations(n, s) ==
    IF n.station[s].cluster = NoId THEN {}
    ELSE {d \in n.members[n.station[s].cluster] \ {s} : n.station[d].trades}
\* TrainStationExecution
StationTurn ==
    /\ Turn("station")
    /\ \/ Gone /\ UNCHANGED <<net, todo>>
       \/ /\ Exists(Me.unit)
          /\ LET s == IF Me.station = NoId THEN NewStation(net) ELSE Me.station IN
             /\ IF Me.station = NoId THEN HasIds(net) /\ net' \in Connected(net, s, Me.unit)
                                     ELSE UNCHANGED net
             /\ Stay([Held EXCEPT !.station = s])
             /\ \/ UNCHANGED <<uninit, todo>>
                \/ /\ Me.spawns /\ todo.trains > 0
                   /\ \E d \in Destinations(net', s) : Add(<<TrainJob(Held.by, s, d)>>)
                   /\ todo' = [todo EXCEPT !.trains = @ - 1]
          /\ UNCHANGED unit
    /\ UNCHANGED <<owner, allies, phase, lastDelete>>

InitStation ==
    /\ DueInit("station") /\ Append1(New1)
    /\ UNCHANGED <<allies, unit, lastDelete, net>> /\ Initing

-----------------------------------------------------------------------------
(* TrainExecution. *)

\* find_stations_path: a way from a to b without a detour, if they are in one cluster.
Ways(n, a, b) ==
    {w \in SetToAllKPermutations(Linked(n, a)) :
        /\ n.station[b].cluster # NoId /\ n.station[a].cluster = n.station[b].cluster
        /\ w # <<>> /\ w[1] = a /\ w[Len(w)] = b
        /\ \A i \in 1 .. Len(w) - 1 : w[i + 1] \in Beside(n, w[i])}
\* oriented_railroad_tiles
HasWay(n, a, b) == n.station[a].via[b] # NoId

\* The units are built before it is known whether every railroad of the way can be
\* found; if one cannot, they stay at the station for good.
InitTrain ==
    /\ DueInit("train")
    /\ LET ways == Ways(net, New1.path[1], New1.path[2]) IN
       \/ /\ ways = {} \/ \E w \in ways : ~HasWay(net, w[1], w[2])
          /\ Drop1 /\ UNCHANGED unit
       \/ \E w \in ways :
             /\ HasWay(net, w[1], w[2]) /\ FreeIds # {}
             /\ unit' = [unit EXCEPT ![Fresh] = New("Train", New1.by, 0)]
             /\ IF \A i \in 1 .. Len(w) - 1 : HasWay(net, w[i], w[i + 1])
                THEN \E n \in Rides :
                        Append1([New1 EXCEPT !.unit = Fresh, !.path = w, !.left = n])
                ELSE Drop1
    /\ UNCHANGED <<allies, lastDelete, net>> /\ Initing

\* station_active
Active(s) == Stands(net, s) /\ net.station[s].unit # Lost
\* An embargo may keep it from the stations of others.
Refusable(s) == unit[net.station[s].unit].holder # Me.by
\* Plausible bug: only the execution ends.
JustStop == Done /\ UNCHANGED unit
\* delete_train
DeleteTrain ==
    /\ unit' = IF unit[Me.unit].holder = Me.by THEN Without({Me.unit}) ELSE unit
    /\ Done
TrainTurn ==
    /\ Turn("train")
    /\ LET a == Me.path[1]
           b == Me.path[2]
           going == unit[Me.unit].holder = Me.by /\ Active(a) /\ Active(b)
       IN
       \/ ~going /\ DeleteTrain
       \/ going /\ Refusable(b) /\ DeleteTrain
       \/ going /\ Me.left > 0 /\ Stay([Me EXCEPT !.left = @ - 1]) /\ UNCHANGED unit
       \* It has arrived, and goes on unless this is the end, the railroad to the
       \* next station cannot be found, or it is shorter than what is left of the step.
       \/ /\ going /\ Me.left = 0 /\ Len(Me.path) > 2 /\ HasWay(net, b, Me.path[3])
          /\ \E n \in Rides : Stay([Me EXCEPT !.path = Tail(@), !.left = n])
          /\ UNCHANGED unit
       \/ going /\ Me.left = 0 /\ DeleteTrain
    /\ UNCHANGED <<owner, allies, uninit, net>> /\ Tick

-----------------------------------------------------------------------------
\* RecomputeRailClusterExecution, in every tick; it stands before all structures.
RecomputeTurn ==
    /\ Turn("recompute")
    /\ net' \in Recomputed(net)
    /\ Stay(Me)
    /\ UNCHANGED <<owner, allies, unit, uninit>> /\ Tick

\* remove_unit takes the station of the unit with it.
Pruned == LET gone == {u \in net.served : unit'[u].type = "none"} IN
          [FoldSet(LAMBDA u, n : WithoutStation(n, u), net, gone) EXCEPT !.served = @ \ gone]

RailInit == Init(<<RecomputeJob>>) /\ net = NoNet
RailEngine == \/ Engine /\ net' = Pruned
              \/ CityTurn \/ PortJoins \/ FactoryTurn \/ StationTurn \/ InitStation
              \/ InitTrain \/ TrainTurn \/ RecomputeTurn
RailNext == RailEngine \/ (Outside /\ net' = Pruned)
Spec == RailInit /\ [][RailNext]_railVars
\* The ticks go on. The engine has a next step in every state, so this is its weak
\* fairness, without asking TLC for every network that a station could lead to.
FairSpec == Spec /\ []<><<RailEngine>>_railVars

-----------------------------------------------------------------------------
(* Properties. *)

Tracks == {r \in RoadIds : net.road[r] # NoRoad}
\* The network is of one piece of truth, whatever is built, snapped onto and lost: a
\* railroad is listed at its two ends and nowhere else, the ends find each other by one
\* of the railroads between them or not at all, a station that is counted to a cluster
\* says so, and a unit's station is that of the unit (rail.rs: five indexes of one graph).
NetworkIsSound ==
    /\ \A r \in Tracks : /\ net.road[r][1] # net.road[r][2]
                          /\ \A s \in StationIds : r \in net.station[s].roads <=>
                                s \in {net.road[r][1], net.road[r][2]} /\ Stands(net, s)
    /\ \A s \in StationIds : net.station[s].roads \subseteq Tracks
    /\ \A s, t \in StationIds : LET r == net.station[s].via[t] IN
          /\ r = net.station[t].via[s]
          /\ r # NoId => r \in net.station[s].roads \cap net.station[t].roads
    /\ \A c \in ClusterIds : \A s \in net.members[c] :
          Stands(net, s) /\ net.station[s].cluster = c
    /\ \A u \in UnitIds : net.of[u] # NoId => net.station[net.of[u]].unit = u

\* A TrainStationExecution of it has not had its turn.
Awaited(u) == \E job \in Range(execs) \cup Range(uninit) :
                 job.kind = "station" /\ job.unit = u /\ job.station = NoId
TurnOver(u) == \E i \in AllJobs("city") \cup AllJobs("factory") :
                  execs[i].unit = u /\ execs[i].left = 1
\* A city asks for a factory once and a factory for cities once, each when it is finished:
\* whichever comes second, and whoever holds them, the city has its station, or will
\* have it in the turn of a TrainStationExecution.
NearbyAreServed ==
    \A f \in OfType({"Factory"}), u \in OfType({"City", "Factory"}) :
        TurnOver(f) /\ TurnOver(u) /\ (u = f \/ u \in Near(f))
            => u \in net.served /\ (net.of[u] # NoId \/ Awaited(u))

Driven(jobs, u) == \E i \in 1 .. Len(jobs) : jobs[i].kind = "train" /\ jobs[i].unit = u
\* A train that is under way does not lose its execution and stay: whatever becomes of
\* its owner, its stations and its railroads, the units go with the execution. Only a
\* train that never leaves may (TrainExecution::init_impl).
NoTrainIsLeftBehind ==
    [][\A u \in OfType({"Train"}) :
         Driven(execs, u) => unit'[u].type = "none" \/ Driven(execs', u)]_railVars
=============================================================================
