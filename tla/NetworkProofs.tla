---------------------------- MODULE NetworkProofs ----------------------------
(***************************************************************************)
(* Theorems about the railways of Rail: the network is of one piece, and   *)
(* whoever is in reach of a factory is served.                             *)
(***************************************************************************)
EXTENDS RailProofs, WellFoundedInduction

-----------------------------------------------------------------------------
(* Induction on the natural numbers, for the folds. *)

\* The naturals are well-founded, so a set that has 0 and every successor has them all.
LEMMA NatSets ==
    ASSUME NEW S, 0 \in S, \A n \in Nat : n \in S => n + 1 \in S
    PROVE  Nat \subseteq S
<1> DEFINE T == {n \in Nat : n \notin S}
           Less == OpToRel(<, Nat)
<1>1. SUFFICES ASSUME T # {} PROVE FALSE
  OBVIOUS
<1>2. \E x \in T : \A y \in T : <<y, x>> \notin Less
  BY <1>1, NatLessThanWellFounded, WFMin, T \subseteq Nat
<1>3. PICK x \in T : \A y \in T : <<y, x>> \notin Less
  BY <1>2
<1>4. x # 0 /\ x \in Nat
  OBVIOUS
<1>5. x - 1 \in Nat /\ x - 1 < x /\ (x - 1) + 1 = x
  BY <1>4
<1>6. x - 1 \in T
  BY <1>3, <1>5
<1>7. <<x - 1, x>> \in Less
  BY <1>4, <1>5 DEF OpToRel
<1> QED BY <1>3, <1>6, <1>7

-----------------------------------------------------------------------------
(* The network of stations. *)

Ends(n, r) == {n.road[r][1], n.road[r][2]}
Laid(n, r) == n.road[r] # NoRoad
RoadsEnd(n) ==
    \A r \in RoadIds : Laid(n, r) =>
        /\ n.road[r][1] \in StationIds /\ n.road[r][2] \in StationIds
        /\ n.road[r][1] # n.road[r][2]
        /\ \A s \in Ends(n, r) : r \in n.station[s].roads
RoadsListed(n) ==
    \A s \in StationIds : \A r \in n.station[s].roads : Laid(n, r) /\ s \in Ends(n, r)
NeighboursMeet(n) ==
    \A s, t \in StationIds :
        /\ n.station[s].via[t] = n.station[t].via[s]
        /\ n.station[s].via[t] # NoId =>
              s # t /\ n.station[s].via[t] \in n.station[s].roads \cap n.station[t].roads
FreeAreBlank(n) == \A s \in StationIds : ~Stands(n, s) => n.station[s] = NoStation
MembersBelong(n) ==
    \A c \in ClusterIds : \A s \in n.members[c] : Stands(n, s) /\ n.station[s].cluster = c
UnitsAreFound(n) == \A u \in UnitIds : n.of[u] # NoId => n.station[n.of[u]].unit = u
\* The network is sound, and an id that is free is blank.
Whole(n) == /\ n \in NetType /\ RoadsEnd(n) /\ RoadsListed(n) /\ NeighboursMeet(n)
            /\ FreeAreBlank(n) /\ MembersBelong(n) /\ UnitsAreFound(n)

\* Only the railroads differ, or only the clusters do.
Recabled(n, m) ==
    /\ m.of = n.of /\ m.members = n.members /\ m.dirty = n.dirty /\ m.served = n.served
    /\ \A s \in StationIds : /\ m.station[s].unit = n.station[s].unit
                             /\ m.station[s].cluster = n.station[s].cluster
Regrouped(n, m) ==
    /\ m.of = n.of /\ m.road = n.road /\ m.dirty = n.dirty /\ m.served = n.served
    /\ \A s \in StationIds : /\ m.station[s].unit = n.station[s].unit
                             /\ m.station[s].roads = n.station[s].roads
                             /\ m.station[s].via = n.station[s].via

LEMMA Ids == /\ NoId \notin StationIds /\ NoId \notin RoadIds /\ NoId \notin ClusterIds
             /\ StationIds \subseteq Nat /\ RoadIds \subseteq Nat /\ ClusterIds \subseteq Nat
             /\ IsFiniteSet(StationIds) /\ IsFiniteSet(RoadIds) /\ IsFiniteSet(ClusterIds)
             /\ NoUnitId \notin UnitIds /\ UnitIds \subseteq Nat /\ Lost \notin UnitIds /\ Lost # NoUnitId
<1>1. IsFiniteSet(StationIds) /\ IsFiniteSet(RoadIds) /\ IsFiniteSet(ClusterIds) /\ IsFiniteSet(UnitIds)
  BY RailAssumption, ArsenalAssumption
<1>2. /\ Cardinality(StationIds) \in Nat /\ Cardinality(RoadIds) \in Nat
      /\ Cardinality(ClusterIds) \in Nat /\ Cardinality(UnitIds) \in Nat
  BY <1>1, FS_CardinalityType
<1>3. /\ StationIds = 1 .. Cardinality(StationIds) /\ RoadIds = 1 .. Cardinality(RoadIds)
      /\ ClusterIds = 1 .. Cardinality(ClusterIds) /\ UnitIds = 1 .. Cardinality(UnitIds)
  BY RailAssumption, ArsenalAssumption
<1> QED BY <1>1, <1>2, <1>3 DEF NoId, NoUnitId, Lost

LEMMA NetFields ==
    ASSUME NEW n \in NetType
    PROVE  /\ DOMAIN n = {"station", "of", "road", "members", "dirty", "served"}
           /\ n.station \in [StationIds -> StationType]
           /\ n.of \in [UnitIds -> StationIds \cup {NoId}]
           /\ n.road \in [RoadIds -> (StationIds \cup {NoId}) \X (StationIds \cup {NoId})]
           /\ n.members \in [ClusterIds -> SUBSET StationIds]
           /\ n.dirty \in Seq(ClusterIds) /\ n.served \in SUBSET UnitIds
           /\ \A s \in StationIds :
                 /\ n.station[s] \in StationType
                 /\ n.station[s].roads \in SUBSET RoadIds
                 /\ n.station[s].via \in [StationIds -> RoadIds \cup {NoId}]
                 /\ n.station[s].cluster \in ClusterIds \cup {NoId}
                 /\ n.station[s].unit \in UnitIds \cup {NoUnitId, Lost}
<1>1. DOMAIN n = {"station", "of", "road", "members", "dirty", "served"}
  BY DEF NetType
<1>2. /\ n.station \in [StationIds -> StationType]
      /\ n.of \in [UnitIds -> StationIds \cup {NoId}]
      /\ n.road \in [RoadIds -> (StationIds \cup {NoId}) \X (StationIds \cup {NoId})]
      /\ n.members \in [ClusterIds -> SUBSET StationIds]
      /\ n.dirty \in Seq(ClusterIds) /\ n.served \in SUBSET UnitIds
  BY DEF NetType
<1>3. ASSUME NEW s \in StationIds
      PROVE  /\ n.station[s] \in StationType
             /\ n.station[s].roads \in SUBSET RoadIds
             /\ n.station[s].via \in [StationIds -> RoadIds \cup {NoId}]
             /\ n.station[s].cluster \in ClusterIds \cup {NoId}
             /\ n.station[s].unit \in UnitIds \cup {NoUnitId, Lost}
  BY <1>2 DEF StationType
<1> QED BY <1>1, <1>2, <1>3
LEMMA MakesNet ==
    ASSUME NEW n,
           n = [station |-> n.station, of |-> n.of, road |-> n.road, members |-> n.members,
                dirty |-> n.dirty, served |-> n.served],
           n.station \in [StationIds -> StationType],
           n.of \in [UnitIds -> StationIds \cup {NoId}],
           n.road \in [RoadIds -> (StationIds \cup {NoId}) \X (StationIds \cup {NoId})],
           n.members \in [ClusterIds -> SUBSET StationIds],
           n.dirty \in Seq(ClusterIds), n.served \in SUBSET UnitIds
    PROVE  n \in NetType
  BY DEF NetType

LEMMA RecabledBelongs ==
    ASSUME NEW n \in NetType, NEW m, MembersBelong(n), UnitsAreFound(n), Recabled(n, m)
    PROVE  MembersBelong(m) /\ UnitsAreFound(m)
<1>1. MembersBelong(m)
  <2>1. SUFFICES ASSUME NEW c \in ClusterIds, NEW s \in m.members[c]
                 PROVE  Stands(m, s) /\ m.station[s].cluster = c
    BY DEF MembersBelong
  <2>2. s \in n.members[c] /\ s \in StationIds
    BY NetFields DEF Recabled
  <2>3. Stands(n, s) /\ n.station[s].cluster = c
    BY <2>2 DEF MembersBelong
  <2> QED BY <2>2, <2>3 DEF Recabled, Stands
<1>2. UnitsAreFound(m)
  <2>1. SUFFICES ASSUME NEW u \in UnitIds, m.of[u] # NoId PROVE m.station[m.of[u]].unit = u
    BY DEF UnitsAreFound
  <2>2. n.of[u] = m.of[u] /\ n.of[u] \in StationIds
    BY <2>1, NetFields DEF Recabled
  <2>3. n.station[n.of[u]].unit = u
    BY <2>1, <2>2 DEF UnitsAreFound
  <2> QED BY <2>2, <2>3 DEF Recabled
<1> QED BY <1>1, <1>2

-----------------------------------------------------------------------------
(* Railroads. *)

\* What a railroad from a to b changes at its ends.
LEMMA TearFields ==
    ASSUME NEW n \in NetType, NEW r \in RoadIds, NEW a \in StationIds, NEW b \in StationIds,
           n.road[r] = <<a, b>>, a # b, NEW m, m = Tear(n, r)
    PROVE  /\ m \in NetType /\ Recabled(n, m)
           /\ m.road = [n.road EXCEPT ![r] = NoRoad]
           /\ \A s \in StationIds : m.station[s].roads = n.station[s].roads \ (IF s \in {a, b} THEN {r} ELSE {})
           /\ \A s, t \in StationIds :
                 m.station[s].via[t] = IF (s = a /\ t = b) \/ (s = b /\ t = a) THEN NoId
                                       ELSE n.station[s].via[t]
           /\ \A s \in StationIds : s \notin {a, b} => m.station[s] = n.station[s]
<1> DEFINE A == RemoveRailroad(n.station[a], b, r)
           B == RemoveRailroad(n.station[b], a, r)
<1>1. /\ n.station \in [StationIds -> StationType]
      /\ n.road \in [RoadIds -> (StationIds \cup {NoId}) \X (StationIds \cup {NoId})]
      /\ DOMAIN n = {"station", "of", "road", "members", "dirty", "served"}
  BY NetFields
<1>2. n.station[a] \in StationType /\ n.station[b] \in StationType
  BY <1>1
<1>3. A \in StationType /\ B \in StationType
  BY <1>2 DEF StationType, RemoveRailroad
<1>4. n.road[r][1] = a /\ n.road[r][2] = b
  OBVIOUS
<1>5. /\ m.road = [n.road EXCEPT ![r] = NoRoad] /\ m.of = n.of /\ m.members = n.members
      /\ m.dirty = n.dirty /\ m.served = n.served /\ DOMAIN m = DOMAIN n
      /\ m = [station |-> m.station, of |-> m.of, road |-> m.road, members |-> m.members,
              dirty |-> m.dirty, served |-> m.served]
  BY <1>1, <1>4 DEF Tear
<1>7. m.station = [n.station EXCEPT ![a] = A, ![b] = B]
  BY <1>1, <1>4 DEF Tear
<1>8. /\ A.roads = n.station[a].roads \ {r} /\ A.via = [n.station[a].via EXCEPT ![b] = NoId]
      /\ A.unit = n.station[a].unit /\ A.cluster = n.station[a].cluster
      /\ B.roads = n.station[b].roads \ {r} /\ B.via = [n.station[b].via EXCEPT ![a] = NoId]
      /\ B.unit = n.station[b].unit /\ B.cluster = n.station[b].cluster
  BY <1>2 DEF StationType, RemoveRailroad
<1> HIDE DEF A, B
<1>9. m.station \in [StationIds -> StationType]
  BY <1>1, <1>3, <1>7
<1>10. m.road \in [RoadIds -> (StationIds \cup {NoId}) \X (StationIds \cup {NoId})]
  BY <1>1, <1>5 DEF NoRoad
<1>11. m \in NetType
  BY <1>1, <1>5, <1>9, <1>10, NetFields, MakesNet
<1>12. /\ m.station[a] = A /\ m.station[b] = B
       /\ \A s \in StationIds : s \notin {a, b} => m.station[s] = n.station[s]
  BY <1>1, <1>7
<1>13. Recabled(n, m)
  BY <1>5, <1>8, <1>12 DEF Recabled
<1>14. \A s \in StationIds : m.station[s].roads = n.station[s].roads \ (IF s \in {a, b} THEN {r} ELSE {})
  BY <1>8, <1>12
<1>15. n.station[a].via \in [StationIds -> RoadIds \cup {NoId}] /\ n.station[b].via \in [StationIds -> RoadIds \cup {NoId}]
  BY NetFields
<1>16. \A s, t \in StationIds :
          m.station[s].via[t] = IF (s = a /\ t = b) \/ (s = b /\ t = a) THEN NoId ELSE n.station[s].via[t]
  BY <1>8, <1>12, <1>15
<1> QED BY <1>5, <1>11, <1>12, <1>13, <1>14, <1>16

\* A railroad that is torn up leaves no trace.
LEMMA TearWhole ==
    ASSUME NEW n, Whole(n), NEW r \in RoadIds, Laid(n, r), NEW m, m = Tear(n, r)
    PROVE  /\ Whole(m) /\ Recabled(n, m)
           /\ m.road = [n.road EXCEPT ![r] = NoRoad]
           /\ \A s \in StationIds : m.station[s].roads = n.station[s].roads \ {r}
<1>1. PICK a \in StationIds, b \in StationIds : n.road[r] = <<a, b>> /\ a # b
  BY NetFields DEF Whole, RoadsEnd
<1>2. n \in NetType
  BY DEF Whole
<1>3. /\ m \in NetType /\ Recabled(n, m)
      /\ m.road = [n.road EXCEPT ![r] = NoRoad]
      /\ \A s \in StationIds : m.station[s].roads = n.station[s].roads \ (IF s \in {a, b} THEN {r} ELSE {})
      /\ \A s, t \in StationIds :
            m.station[s].via[t] = IF (s = a /\ t = b) \/ (s = b /\ t = a) THEN NoId
                                  ELSE n.station[s].via[t]
      /\ \A s \in StationIds : s \notin {a, b} => m.station[s] = n.station[s]
  BY <1>1, <1>2, TearFields
<1>4. n.road[r][1] = a /\ n.road[r][2] = b /\ Ends(n, r) = {a, b}
  BY <1>1 DEF Ends
<1>5. \A s \in StationIds : r \in n.station[s].roads => s \in {a, b}
  BY <1>4 DEF Whole, RoadsListed
<1>6. \A s \in StationIds : m.station[s].roads = n.station[s].roads \ {r}
  BY <1>3, <1>5
<1>7. /\ \A x \in RoadIds : x # r => m.road[x] = n.road[x]
      /\ m.road[r] = NoRoad
  BY <1>2, <1>3, NetFields
<1>8. /\ ~Laid(m, r)
      /\ \A x \in RoadIds : x # r => (Laid(m, x) <=> Laid(n, x)) /\ Ends(m, x) = Ends(n, x)
  BY <1>7 DEF Laid, Ends
<1>9. RoadsEnd(m)
  <2>1. SUFFICES ASSUME NEW x \in RoadIds, Laid(m, x)
                 PROVE  /\ m.road[x][1] \in StationIds /\ m.road[x][2] \in StationIds
                        /\ m.road[x][1] # m.road[x][2]
                        /\ \A s \in Ends(m, x) : x \in m.station[s].roads
    BY DEF RoadsEnd
  <2>2. x # r /\ Laid(n, x) /\ m.road[x] = n.road[x] /\ Ends(m, x) = Ends(n, x)
    BY <1>7, <1>8, <2>1
  <2>3. /\ n.road[x][1] \in StationIds /\ n.road[x][2] \in StationIds
        /\ n.road[x][1] # n.road[x][2]
        /\ \A s \in Ends(n, x) : x \in n.station[s].roads
    BY <2>2 DEF Whole, RoadsEnd
  <2>4. Ends(n, x) \subseteq StationIds
    BY <2>3 DEF Ends
  <2> QED BY <1>6, <2>2, <2>3, <2>4
<1>10. RoadsListed(m)
  <2>1. SUFFICES ASSUME NEW s \in StationIds, NEW x \in m.station[s].roads
                 PROVE  Laid(m, x) /\ s \in Ends(m, x)
    BY DEF RoadsListed
  <2>2. x \in n.station[s].roads /\ x # r /\ x \in RoadIds
    BY <1>2, <1>6, NetFields
  <2>3. Laid(n, x) /\ s \in Ends(n, x)
    BY <2>2 DEF Whole, RoadsListed
  <2> QED BY <1>8, <2>2, <2>3
<1>11. NeighboursMeet(m)
  <2>1. SUFFICES ASSUME NEW s \in StationIds, NEW t \in StationIds
                 PROVE  /\ m.station[s].via[t] = m.station[t].via[s]
                        /\ m.station[s].via[t] # NoId =>
                              s # t /\ m.station[s].via[t] \in m.station[s].roads \cap m.station[t].roads
    BY DEF NeighboursMeet
  <2>2. /\ n.station[s].via[t] = n.station[t].via[s]
        /\ n.station[s].via[t] # NoId =>
              s # t /\ n.station[s].via[t] \in n.station[s].roads \cap n.station[t].roads
    BY DEF Whole, NeighboursMeet
  <2>3. CASE (s = a /\ t = b) \/ (s = b /\ t = a)
    BY <1>3, <2>3
  <2>4. CASE ~((s = a /\ t = b) \/ (s = b /\ t = a))
    <3>1. m.station[s].via[t] = n.station[s].via[t] /\ m.station[t].via[s] = n.station[t].via[s]
      BY <1>3, <2>4
    <3>2. ASSUME n.station[s].via[t] = r, s # t, r \in n.station[s].roads \cap n.station[t].roads
          PROVE FALSE
      BY <1>5, <2>4, <3>2
    <3> QED BY <1>6, <2>2, <3>1, <3>2
  <2> QED BY <2>3, <2>4
<1>12. FreeAreBlank(m)
  <2>1. SUFFICES ASSUME NEW s \in StationIds, ~Stands(m, s) PROVE m.station[s] = NoStation
    BY DEF FreeAreBlank
  <2>2. ~Stands(n, s)
    BY <1>3, <2>1 DEF Recabled, Stands
  <2>3. n.station[s] = NoStation
    BY <2>2 DEF Whole, FreeAreBlank
  <2>4. r \notin n.station[s].roads
    BY <2>3 DEF NoStation
  <2>5. r \in n.station[a].roads /\ r \in n.station[b].roads
    BY <1>4 DEF Whole, RoadsEnd
  <2>6. s \notin {a, b}
    BY <2>4, <2>5
  <2> QED BY <1>3, <2>3, <2>6
<1>13. MembersBelong(m) /\ UnitsAreFound(m)
  BY <1>2, <1>3, RecabledBelongs DEF Whole
<1> QED BY <1>3, <1>6, <1>9, <1>10, <1>11, <1>12, <1>13 DEF Whole

LEMMA LeastIsIn ==
    ASSUME NEW S, S \subseteq Nat, S # {}
    PROVE  LeastOf(S) \in S
<1> DEFINE T == {n \in Nat : \A x \in S : n <= x}
<1>1. PICK z \in S : TRUE
  OBVIOUS
<1>2. ASSUME \A x \in S : \E y \in S : ~(x <= y) PROVE FALSE
  <2>1. 0 \in T
    OBVIOUS
  <2>2. ASSUME NEW n \in Nat, n \in T PROVE n + 1 \in T
    <3>1. n \notin S
      BY <1>2, <2>2
    <3>2. \A x \in S : n + 1 <= x
      BY <2>2, <3>1
    <3> QED BY <3>2
  <2>3. z + 1 \in T
    <3> HIDE DEF T
    <3> QED BY <2>1, <2>2, NatSets
  <2> QED BY <2>3
<1>3. \E x \in S : \A y \in S : x <= y
  BY <1>2
<1> QED BY <1>3 DEF LeastOf

LEMMA NewIds ==
    ASSUME NEW n
    PROVE  /\ FreeRoads(n) # {} => NewRoad(n) \in FreeRoads(n)
           /\ FreeClusters(n) # {} => NewCluster(n) \in FreeClusters(n)
           /\ FreeStations(n) # {} => NewStation(n) \in FreeStations(n)
<1>1. FreeRoads(n) \subseteq Nat /\ FreeClusters(n) \subseteq Nat /\ FreeStations(n) \subseteq Nat
  BY Ids DEF FreeRoads, FreeClusters, FreeStations
<1> QED BY <1>1, LeastIsIn DEF NewRoad, NewCluster, NewStation

LEMMA LayFields ==
    ASSUME NEW n \in NetType, NEW a \in StationIds, NEW b \in StationIds, a # b,
           NEW r \in RoadIds, r = NewRoad(n), NEW m, m = Lay1(n, a, b)
    PROVE  /\ m \in NetType /\ Recabled(n, m)
           /\ m.road = [n.road EXCEPT ![r] = <<a, b>>]
           /\ \A s \in StationIds : m.station[s].roads = n.station[s].roads \cup (IF s \in {a, b} THEN {r} ELSE {})
           /\ \A s, t \in StationIds :
                 m.station[s].via[t] = IF (s = a /\ t = b) \/ (s = b /\ t = a) THEN r
                                       ELSE n.station[s].via[t]
           /\ \A s \in StationIds : s \notin {a, b} => m.station[s] = n.station[s]
<1> DEFINE A == AddRailroad(n.station[a], b, r)
           B == AddRailroad(n.station[b], a, r)
<1>1. /\ n.station \in [StationIds -> StationType]
      /\ n.road \in [RoadIds -> (StationIds \cup {NoId}) \X (StationIds \cup {NoId})]
      /\ DOMAIN n = {"station", "of", "road", "members", "dirty", "served"}
  BY NetFields
<1>2. n.station[a] \in StationType /\ n.station[b] \in StationType
  BY <1>1
<1>3. A \in StationType /\ B \in StationType
  BY <1>2 DEF StationType, AddRailroad
<1>5. /\ m.road = [n.road EXCEPT ![r] = <<a, b>>] /\ m.of = n.of /\ m.members = n.members
      /\ m.dirty = n.dirty /\ m.served = n.served /\ DOMAIN m = DOMAIN n
      /\ m = [station |-> m.station, of |-> m.of, road |-> m.road, members |-> m.members,
              dirty |-> m.dirty, served |-> m.served]
  BY <1>1 DEF Lay1
<1>7. m.station = [n.station EXCEPT ![a] = A, ![b] = B]
  BY <1>1 DEF Lay1
<1>8. /\ A.roads = n.station[a].roads \cup {r} /\ A.via = [n.station[a].via EXCEPT ![b] = r]
      /\ A.unit = n.station[a].unit /\ A.cluster = n.station[a].cluster
      /\ B.roads = n.station[b].roads \cup {r} /\ B.via = [n.station[b].via EXCEPT ![a] = r]
      /\ B.unit = n.station[b].unit /\ B.cluster = n.station[b].cluster
  BY <1>2 DEF StationType, AddRailroad
<1> HIDE DEF A, B
<1>9. m.station \in [StationIds -> StationType]
  BY <1>1, <1>3, <1>7
<1>10. m.road \in [RoadIds -> (StationIds \cup {NoId}) \X (StationIds \cup {NoId})]
  BY <1>1, <1>5
<1>11. m \in NetType
  BY <1>1, <1>5, <1>9, <1>10, NetFields, MakesNet
<1>12. /\ m.station[a] = A /\ m.station[b] = B
       /\ \A s \in StationIds : s \notin {a, b} => m.station[s] = n.station[s]
  BY <1>1, <1>7
<1>13. Recabled(n, m)
  BY <1>5, <1>8, <1>12 DEF Recabled
<1>14. \A s \in StationIds : m.station[s].roads = n.station[s].roads \cup (IF s \in {a, b} THEN {r} ELSE {})
  BY <1>8, <1>12
<1>15. n.station[a].via \in [StationIds -> RoadIds \cup {NoId}] /\ n.station[b].via \in [StationIds -> RoadIds \cup {NoId}]
  BY NetFields
<1>16. \A s, t \in StationIds :
          m.station[s].via[t] = IF (s = a /\ t = b) \/ (s = b /\ t = a) THEN r ELSE n.station[s].via[t]
  BY <1>8, <1>12, <1>15
<1> QED BY <1>5, <1>11, <1>12, <1>13, <1>14, <1>16

\* A railroad between two stations leads from each to the other.
LEMMA LayWhole ==
    ASSUME NEW n, Whole(n), NEW a \in StationIds, NEW b \in StationIds, a # b,
           Stands(n, a), Stands(n, b), FreeRoads(n) # {}, NEW m, m = Lay1(n, a, b)
    PROVE  /\ Whole(m) /\ Recabled(n, m)
           /\ \A x \in RoadIds : Laid(n, x) => m.road[x] = n.road[x]
           /\ \E r \in FreeRoads(n) : FreeRoads(m) = FreeRoads(n) \ {r}
<1>2. n \in NetType
  BY DEF Whole
<1>1. PICK r \in RoadIds : r = NewRoad(n) /\ r \in FreeRoads(n) /\ ~Laid(n, r)
  BY NewIds DEF FreeRoads, Laid
<1>3. /\ m \in NetType /\ Recabled(n, m)
      /\ m.road = [n.road EXCEPT ![r] = <<a, b>>]
      /\ \A s \in StationIds : m.station[s].roads = n.station[s].roads \cup (IF s \in {a, b} THEN {r} ELSE {})
      /\ \A s, t \in StationIds :
            m.station[s].via[t] = IF (s = a /\ t = b) \/ (s = b /\ t = a) THEN r
                                  ELSE n.station[s].via[t]
      /\ \A s \in StationIds : s \notin {a, b} => m.station[s] = n.station[s]
  BY <1>1, <1>2, LayFields
<1>4. /\ \A x \in RoadIds : x # r => m.road[x] = n.road[x]
      /\ m.road[r] = <<a, b>>
  BY <1>2, <1>3, NetFields
<1>5. <<a, b>> # NoRoad
  BY Ids DEF NoRoad
<1>6. /\ Laid(m, r) /\ Ends(m, r) = {a, b}
      /\ \A x \in RoadIds : x # r => (Laid(m, x) <=> Laid(n, x)) /\ Ends(m, x) = Ends(n, x)
  BY <1>4, <1>5 DEF Laid, Ends
<1>7. FreeRoads(m) = FreeRoads(n) \ {r}
  BY <1>1, <1>4, <1>5 DEF FreeRoads
<1>8. \A s \in StationIds : r \notin n.station[s].roads
  BY <1>1 DEF Whole, RoadsListed
<1>9. RoadsEnd(m)
  <2>1. SUFFICES ASSUME NEW x \in RoadIds, Laid(m, x)
                 PROVE  /\ m.road[x][1] \in StationIds /\ m.road[x][2] \in StationIds
                        /\ m.road[x][1] # m.road[x][2]
                        /\ \A s \in Ends(m, x) : x \in m.station[s].roads
    BY DEF RoadsEnd
  <2>2. CASE x = r
    BY <1>3, <1>4, <1>6, <2>2
  <2>3. CASE x # r
    <3>1. Laid(n, x) /\ m.road[x] = n.road[x] /\ Ends(m, x) = Ends(n, x)
      BY <1>4, <1>6, <2>1, <2>3
    <3>2. /\ n.road[x][1] \in StationIds /\ n.road[x][2] \in StationIds
          /\ n.road[x][1] # n.road[x][2]
          /\ \A s \in Ends(n, x) : x \in n.station[s].roads
      BY <3>1 DEF Whole, RoadsEnd
    <3>3. Ends(n, x) \subseteq StationIds
      BY <3>2 DEF Ends
    <3> QED BY <1>3, <3>1, <3>2, <3>3
  <2> QED BY <2>2, <2>3
<1>10. RoadsListed(m)
  <2>1. SUFFICES ASSUME NEW s \in StationIds, NEW x \in m.station[s].roads
                 PROVE  Laid(m, x) /\ s \in Ends(m, x)
    BY DEF RoadsListed
  <2>2. CASE x \in n.station[s].roads
    <3>1. x # r /\ x \in RoadIds
      BY <1>2, <1>8, <2>2, NetFields
    <3>2. Laid(n, x) /\ s \in Ends(n, x)
      BY <2>2 DEF Whole, RoadsListed
    <3> QED BY <1>6, <3>1, <3>2
  <2>3. CASE x = r /\ s \in {a, b}
    BY <1>6, <2>3
  <2> QED BY <1>3, <2>1, <2>2, <2>3
<1>11. NeighboursMeet(m)
  <2>1. SUFFICES ASSUME NEW s \in StationIds, NEW t \in StationIds
                 PROVE  /\ m.station[s].via[t] = m.station[t].via[s]
                        /\ m.station[s].via[t] # NoId =>
                              s # t /\ m.station[s].via[t] \in m.station[s].roads \cap m.station[t].roads
    BY DEF NeighboursMeet
  <2>2. /\ n.station[s].via[t] = n.station[t].via[s]
        /\ n.station[s].via[t] # NoId =>
              s # t /\ n.station[s].via[t] \in n.station[s].roads \cap n.station[t].roads
    BY DEF Whole, NeighboursMeet
  <2>3. CASE (s = a /\ t = b) \/ (s = b /\ t = a)
    BY <1>3, <2>3
  <2>4. CASE ~((s = a /\ t = b) \/ (s = b /\ t = a))
    <3>1. m.station[s].via[t] = n.station[s].via[t] /\ m.station[t].via[s] = n.station[t].via[s]
      BY <1>3, <2>4
    <3>2. n.station[s].roads \subseteq m.station[s].roads /\ n.station[t].roads \subseteq m.station[t].roads
      BY <1>3
    <3> QED BY <2>2, <3>1, <3>2
  <2> QED BY <2>3, <2>4
<1>12. FreeAreBlank(m)
  <2>1. SUFFICES ASSUME NEW s \in StationIds, ~Stands(m, s) PROVE m.station[s] = NoStation
    BY DEF FreeAreBlank
  <2>2. ~Stands(n, s)
    BY <1>3, <2>1 DEF Recabled, Stands
  <2>3. n.station[s] = NoStation
    BY <2>2 DEF Whole, FreeAreBlank
  <2> QED BY <1>3, <2>2, <2>3
<1>13. MembersBelong(m) /\ UnitsAreFound(m)
  BY <1>2, <1>3, RecabledBelongs DEF Whole
<1>14. \A x \in RoadIds : Laid(n, x) => m.road[x] = n.road[x]
  BY <1>1, <1>4
<1> QED BY <1>1, <1>3, <1>7, <1>9, <1>10, <1>11, <1>12, <1>13, <1>14 DEF Whole

-----------------------------------------------------------------------------
(* Clusters. *)

LEMMA JoinFields ==
    ASSUME NEW n \in NetType, NEW c \in ClusterIds, NEW s \in StationIds, NEW m, m = Join(n, c, s)
    PROVE  /\ m \in NetType /\ Regrouped(n, m)
           /\ m.station[s].cluster = c
           /\ \A t \in StationIds : t # s => m.station[t] = n.station[t]
           /\ \A d \in ClusterIds :
                 m.members[d] = (n.members[d] \cup (IF d = c THEN {s} ELSE {}))
                                \ (IF d = n.station[s].cluster THEN {s} ELSE {})
<1> DEFINE old == n.station[s].cluster
           added == [n.members EXCEPT ![c] = n.members[c] \cup {s}]
           S == [n.station[s] EXCEPT !.cluster = c]
<1>1. /\ n.station \in [StationIds -> StationType] /\ n.station[s] \in StationType
      /\ n.members \in [ClusterIds -> SUBSET StationIds]
      /\ DOMAIN n = {"station", "of", "road", "members", "dirty", "served"}
      /\ old \in ClusterIds \cup {NoId}
  BY NetFields
<1>2. added \in [ClusterIds -> SUBSET StationIds] /\ S \in StationType
  BY <1>1 DEF StationType
<1>3. /\ m.road = n.road /\ m.of = n.of /\ m.dirty = n.dirty /\ m.served = n.served
      /\ m.members = IF old = NoId THEN added ELSE [added EXCEPT ![old] = added[old] \ {s}]
      /\ m = [station |-> m.station, of |-> m.of, road |-> m.road, members |-> m.members,
              dirty |-> m.dirty, served |-> m.served]
  BY <1>1 DEF Join
<1>4. m.station = [n.station EXCEPT ![s].cluster = c]
  BY <1>1 DEF Join
<1>5. m.station = [n.station EXCEPT ![s] = S]
  BY <1>1, <1>4 DEF StationType
<1>6. /\ S.roads = n.station[s].roads /\ S.via = n.station[s].via
      /\ S.unit = n.station[s].unit /\ S.cluster = c
  BY <1>1 DEF StationType
<1>7. \A d \in ClusterIds : m.members[d] = (n.members[d] \cup (IF d = c THEN {s} ELSE {}))
                                \ (IF d = old THEN {s} ELSE {})
  BY <1>1, <1>3, Ids
<1>8. m.members \in [ClusterIds -> SUBSET StationIds]
  BY <1>1, <1>2, <1>3
<1> HIDE DEF S, added
<1>9. m.station[s] = S /\ \A t \in StationIds : t # s => m.station[t] = n.station[t]
  BY <1>1, <1>5
<1>10. m.station \in [StationIds -> StationType]
  BY <1>1, <1>2, <1>5
<1>11. m \in NetType
  BY <1>3, <1>8, <1>10, NetFields, MakesNet
<1>12. Regrouped(n, m)
  BY <1>3, <1>6, <1>9 DEF Regrouped
<1> QED BY <1>6, <1>7, <1>9, <1>11, <1>12

LEMMA RegroupedCables ==
    ASSUME NEW n \in NetType, NEW m \in NetType, Regrouped(n, m),
           RoadsEnd(n), RoadsListed(n), NeighboursMeet(n), UnitsAreFound(n)
    PROVE  RoadsEnd(m) /\ RoadsListed(m) /\ NeighboursMeet(m) /\ UnitsAreFound(m)
           /\ FreeRoads(m) = FreeRoads(n) /\ \A s \in StationIds : Stands(m, s) <=> Stands(n, s)
<1>1. \A r \in RoadIds : (Laid(m, r) <=> Laid(n, r)) /\ Ends(m, r) = Ends(n, r)
  BY DEF Regrouped, Laid, Ends
<1>2. RoadsEnd(m)
  <2>1. SUFFICES ASSUME NEW x \in RoadIds, Laid(m, x)
                 PROVE  /\ m.road[x][1] \in StationIds /\ m.road[x][2] \in StationIds
                        /\ m.road[x][1] # m.road[x][2]
                        /\ \A s \in Ends(m, x) : x \in m.station[s].roads
    BY DEF RoadsEnd
  <2>2. /\ n.road[x][1] \in StationIds /\ n.road[x][2] \in StationIds
        /\ n.road[x][1] # n.road[x][2]
        /\ \A s \in Ends(n, x) : x \in n.station[s].roads
    BY <1>1, <2>1 DEF RoadsEnd
  <2>3. Ends(n, x) \subseteq StationIds
    BY <2>2 DEF Ends
  <2> QED BY <1>1, <2>2, <2>3 DEF Regrouped
<1>3. RoadsListed(m)
  <2>1. SUFFICES ASSUME NEW s \in StationIds, NEW x \in m.station[s].roads
                 PROVE  Laid(m, x) /\ s \in Ends(m, x)
    BY DEF RoadsListed
  <2>2. x \in n.station[s].roads /\ x \in RoadIds
    BY NetFields DEF Regrouped
  <2> QED BY <1>1, <2>2 DEF RoadsListed
<1>4. NeighboursMeet(m)
  BY DEF NeighboursMeet, Regrouped
<1>5. UnitsAreFound(m)
  <2>1. SUFFICES ASSUME NEW u \in UnitIds, m.of[u] # NoId PROVE m.station[m.of[u]].unit = u
    BY DEF UnitsAreFound
  <2>2. n.of[u] = m.of[u] /\ n.of[u] \in StationIds
    BY <2>1, NetFields DEF Regrouped
  <2>3. n.station[n.of[u]].unit = u
    BY <2>1, <2>2 DEF UnitsAreFound
  <2> QED BY <2>2, <2>3 DEF Regrouped
<1>6. FreeRoads(m) = FreeRoads(n) /\ \A s \in StationIds : Stands(m, s) <=> Stands(n, s)
  BY DEF FreeRoads, Regrouped, Stands
<1> QED BY <1>2, <1>3, <1>4, <1>5, <1>6

\* A station that comes to a cluster leaves the one it was in.
LEMMA JoinWhole ==
    ASSUME NEW n, Whole(n), NEW c \in ClusterIds, NEW s \in StationIds, Stands(n, s),
           NEW m, m = Join(n, c, s)
    PROVE  /\ Whole(m) /\ Regrouped(n, m) /\ m.station[s].cluster = c
           /\ \A t \in StationIds : t # s => m.station[t] = n.station[t]
           /\ FreeClusters(n) \ {c} \subseteq FreeClusters(m)
<1>1. n \in NetType
  BY DEF Whole
<1>2. /\ m \in NetType /\ Regrouped(n, m)
      /\ m.station[s].cluster = c
      /\ \A t \in StationIds : t # s => m.station[t] = n.station[t]
      /\ \A d \in ClusterIds :
            m.members[d] = (n.members[d] \cup (IF d = c THEN {s} ELSE {}))
                           \ (IF d = n.station[s].cluster THEN {s} ELSE {})
  BY <1>1, JoinFields
<1>3. /\ RoadsEnd(m) /\ RoadsListed(m) /\ NeighboursMeet(m) /\ UnitsAreFound(m)
      /\ \A t \in StationIds : Stands(m, t) <=> Stands(n, t)
  BY <1>1, <1>2, RegroupedCables DEF Whole
<1>4. FreeAreBlank(m)
  BY <1>2, <1>3 DEF Whole, FreeAreBlank
<1>5. MembersBelong(m)
  <2>1. SUFFICES ASSUME NEW d \in ClusterIds, NEW t \in m.members[d]
                 PROVE  Stands(m, t) /\ m.station[t].cluster = d
    BY DEF MembersBelong
  <2>2. t \in StationIds
    BY <1>2, NetFields
  <2>3. CASE t = s
    <3>1. d # n.station[s].cluster
      BY <1>2, <2>1, <2>3
    <3>2. s \notin n.members[d]
      BY <3>1 DEF Whole, MembersBelong
    <3>3. d = c
      BY <1>2, <2>1, <2>3, <3>2
    <3> QED BY <1>2, <1>3, <2>3, <3>3
  <2>4. CASE t # s
    <3>1. t \in n.members[d]
      BY <1>2, <2>1, <2>4
    <3>2. Stands(n, t) /\ n.station[t].cluster = d
      BY <3>1 DEF Whole, MembersBelong
    <3> QED BY <1>2, <1>3, <2>2, <2>4, <3>2
  <2> QED BY <2>3, <2>4
<1>6. ASSUME NEW d \in FreeClusters(n), d # c PROVE d \in FreeClusters(m)
  <2>1. /\ d \in ClusterIds /\ n.members[d] = {} /\ d \notin Range(n.dirty)
        /\ \A t \in StationIds : n.station[t].cluster # d
    BY <1>6 DEF FreeClusters
  <2>2. m.members[d] = {} /\ d \notin Range(m.dirty)
    BY <1>2, <1>6, <2>1 DEF Regrouped
  <2>3. \A t \in StationIds : m.station[t].cluster # d
    BY <1>2, <1>6, <2>1
  <2> QED BY <2>1, <2>2, <2>3 DEF FreeClusters
<1> QED BY <1>2, <1>3, <1>4, <1>5, <1>6 DEF Whole

-----------------------------------------------------------------------------
(* Folds. *)

\* What a fold over a finite set computes, however its elements are chosen: every relation P
\* between the elements that have been dealt with and the result that holds at first and
\* that each step keeps holds in the end.
Computes(h, S, b, ch, g) ==
    h = [s \in SUBSET S |-> IF s = {} THEN b ELSE g[<<s, h[s \ {ch[s]}]>>]]
LEMMA SmallerSets ==
    ASSUME NEW S, IsFiniteSet(S), NEW D,
           \A s \in SUBSET S : (\A t \in SUBSET S : Cardinality(t) < Cardinality(s) => t \in D) => s \in D
    PROVE  \A s \in SUBSET S : s \in D
<1> DEFINE N == {k \in Nat : \A s \in SUBSET S : Cardinality(s) < k => s \in D}
<1>1. \A s \in SUBSET S : IsFiniteSet(s) /\ Cardinality(s) \in Nat
  BY FS_Subset, FS_CardinalityType
<1>2. 0 \in N
  BY <1>1
<1>3. ASSUME NEW k \in Nat, k \in N PROVE k + 1 \in N
  <2>1. SUFFICES ASSUME NEW s \in SUBSET S, Cardinality(s) < k + 1 PROVE s \in D
    OBVIOUS
  <2>2. \A t \in SUBSET S : Cardinality(t) < Cardinality(s) => t \in D
    BY <1>1, <1>3, <2>1
  <2> QED BY <2>2
<1> HIDE DEF N
<1>4. Nat \subseteq N
  BY <1>2, <1>3, NatSets
<1>5. ASSUME NEW s \in SUBSET S PROVE s \in D
  <2>1. Cardinality(s) + 1 \in N /\ Cardinality(s) < Cardinality(s) + 1
    BY <1>1, <1>4
  <2> QED BY <2>1 DEF N
<1> QED BY <1>5

LEMMA FoldKeeps ==
    ASSUME NEW S, IsFiniteSet(S), NEW P, NEW h, NEW ch,
           <<{}, h[{}]>> \in P,
           \A s \in SUBSET S : s # {} => ch[s] \in s,
           \A s \in SUBSET S : s # {} /\ <<s \ {ch[s]}, h[s \ {ch[s]}]>> \in P => <<s, h[s]>> \in P
    PROVE  <<S, h[S]>> \in P
<1> DEFINE D == {s \in SUBSET S : <<s, h[s]>> \in P}
<1>1. ASSUME NEW s \in SUBSET S, \A t \in SUBSET S : Cardinality(t) < Cardinality(s) => t \in D
      PROVE  s \in D
  <2>1. CASE s = {}
    BY <2>1
  <2>2. CASE s # {}
    <3>1. ch[s] \in s /\ IsFiniteSet(s)
      BY <2>2, FS_Subset
    <3>2. Cardinality(s \ {ch[s]}) < Cardinality(s)
      <4>1. Cardinality(s \ {ch[s]}) = Cardinality(s) - 1
        BY <3>1, FS_RemoveElement
      <4> QED BY <3>1, <4>1, FS_CardinalityType
    <3>3. s \ {ch[s]} \in D
      BY <1>1, <3>2
    <3> QED BY <2>2, <3>3
  <2> QED BY <2>1, <2>2
<1> HIDE DEF D
<1>2. S \in D
  BY <1>1, SmallerSets
<1> QED BY <1>2 DEF D

\* There is such a fold: it is built up set by set.
Folds(S, P, b, ch, g) ==
    /\ IsFiniteSet(S) /\ <<{}, b>> \in P
    /\ \A s \in SUBSET S : s # {} => ch[s] \in s
    /\ \A s \in SUBSET S : \A m : s # {} /\ <<s \ {ch[s]}, m>> \in P => <<s, g[<<s, m>>]>> \in P
LEMMA FoldExists ==
    ASSUME NEW S, NEW P, NEW b, NEW ch, NEW g, Folds(S, P, b, ch, g)
    PROVE  \E h : /\ Computes(h, S, b, ch, g)
                  /\ \A s \in SUBSET S : <<s, h[s]>> \in P
<1> DEFINE Upto(k) == {s \in SUBSET S : Cardinality(s) < k}
           Sofar(h, k) == /\ \A s \in Upto(k) : /\ h[s] = IF s = {} THEN b ELSE g[<<s, h[s \ {ch[s]}]>>]
                                               /\ <<s, h[s]>> \in P
           N == {k \in Nat : \E h : Sofar(h, k)}
<1> USE DEF Folds
<1>1. \A s \in SUBSET S : IsFiniteSet(s) /\ Cardinality(s) \in Nat
  BY FS_Subset, FS_CardinalityType
<1>2. 0 \in N
  <2>1. Sofar({}, 0)
    BY <1>1
  <2> HIDE DEF Sofar
  <2> QED BY <2>1
<1>3. \A s \in SUBSET S : s # {} => s \ {ch[s]} \in SUBSET S /\ Cardinality(s \ {ch[s]}) = Cardinality(s) - 1
  BY <1>1, FS_RemoveElement
<1>4. ASSUME NEW k \in Nat, k \in N PROVE k + 1 \in N
  <2>1. PICK h : Sofar(h, k)
    BY <1>4
  <2> DEFINE f == [s \in SUBSET S |-> IF s = {} THEN b ELSE IF s \in Upto(k) THEN h[s]
                                      ELSE g[<<s, h[s \ {ch[s]}]>>]]
  <2>2. ASSUME NEW s \in Upto(k) PROVE f[s] = h[s]
    BY <2>1
  <2>3. ASSUME NEW s \in Upto(k + 1)
        PROVE  f[s] = (IF s = {} THEN b ELSE g[<<s, f[s \ {ch[s]}]>>]) /\ <<s, f[s]>> \in P
    <3>1. CASE s = {}
      BY <3>1
    <3>2. CASE s # {}
      <4>1. s \ {ch[s]} \in Upto(k)
        BY <1>1, <1>3, <3>2
      <4>2. f[s \ {ch[s]}] = h[s \ {ch[s]}] /\ <<s \ {ch[s]}, h[s \ {ch[s]}]>> \in P
        BY <2>1, <2>2, <4>1
      <4>3. f[s] = g[<<s, h[s \ {ch[s]}]>>]
        BY <2>1, <3>2
      <4>4. <<s, g[<<s, h[s \ {ch[s]}]>>]>> \in P
        BY <3>2, <4>2
      <4> QED BY <3>2, <4>2, <4>3, <4>4
    <3> QED BY <3>1, <3>2
  <2> HIDE DEF f
  <2>4. Sofar(f, k + 1)
    BY <2>3
  <2> HIDE DEF Sofar
  <2> QED BY <2>4
<1> HIDE DEF N
<1>5. Nat \subseteq N
  BY <1>2, <1>4, NatSets
<1>6. Cardinality(S) + 1 \in N
  BY <1>1, <1>5
<1>7. PICK h : Sofar(h, Cardinality(S) + 1)
  BY <1>6 DEF N
<1>8. \A s \in SUBSET S : s \in Upto(Cardinality(S) + 1)
  BY <1>1, FS_Subset, FS_CardinalityType
<1> DEFINE f == [s \in SUBSET S |-> h[s]]
<1>9. \A s \in SUBSET S : f[s] = (IF s = {} THEN b ELSE g[<<s, f[s \ {ch[s]}]>>]) /\ <<s, f[s]>> \in P
  BY <1>7, <1>8
<1>10. f = [s \in SUBSET S |-> IF s = {} THEN b ELSE g[<<s, f[s \ {ch[s]}]>>]]
  BY <1>9
<1> QED BY <1>9, <1>10 DEF Computes

\* The elements of a set in the order in which FoldSet takes them.
Chooser(S) == [s \in SUBSET S |-> CHOOSE x \in s : TRUE]
LEMMA ChooserChooses == \A S : \A s \in SUBSET S : s # {} => Chooser(S)[s] \in s
  BY DEF Chooser
\* Whatever satisfies a fold's equation satisfies what every step of it keeps.
Unfolds(f, S, P, b, ch, g) ==
    /\ f[{}] = b
    /\ \A s \in SUBSET S : s # {} /\ <<s \ {ch[s]}, f[s \ {ch[s]}]>> \in P
                              => f[s] = g[<<s, f[s \ {ch[s]}]>>]
LEMMA FoldIs ==
    ASSUME NEW S, NEW P, NEW b, NEW ch, NEW g, NEW f,
           Folds(S, P, b, ch, g), Unfolds(f, S, P, b, ch, g)
    PROVE  <<S, f[S]>> \in P
<1>1. \A s \in SUBSET S : s # {} /\ <<s \ {ch[s]}, f[s \ {ch[s]}]>> \in P => <<s, f[s]>> \in P
  BY DEF Folds, Unfolds
<1>2. IsFiniteSet(S) /\ <<{}, f[{}]>> \in P /\ \A s \in SUBSET S : s # {} => ch[s] \in s
  BY DEF Folds, Unfolds
<1> QED BY <1>1, <1>2, FoldKeeps

JoinEq(h, n, c, S) ==
    h = [s \in SUBSET S |-> IF s = {} THEN n ELSE LET x == CHOOSE x \in s : TRUE IN Join(h[s \ {x}], c, x)]
LEMMA JoinAllIs == \A n, c, S : JoinAll(n, c, S) = (CHOOSE h : JoinEq(h, n, c, S))[S]
  BY DEF JoinAll, FoldSet, MapThenFoldSet, JoinEq

\* All of them leave their clusters for one.
LEMMA JoinAllWhole ==
    ASSUME NEW n, Whole(n), NEW c \in ClusterIds, NEW S \in SUBSET StationIds,
           \A s \in S : Stands(n, s), NEW m, m = JoinAll(n, c, S)
    PROVE  /\ Whole(m) /\ Regrouped(n, m)
           /\ \A t \in StationIds : m.station[t].cluster = IF t \in S THEN c ELSE n.station[t].cluster
           /\ FreeClusters(n) \ {c} \subseteq FreeClusters(m)
<1> DEFINE Q(s, k) == /\ Whole(k) /\ Regrouped(n, k)
                      /\ \A t \in StationIds : k.station[t].cluster = IF t \in s THEN c
                                                                      ELSE n.station[t].cluster
                      /\ FreeClusters(n) \ {c} \subseteq FreeClusters(k)
           P == {p \in (SUBSET S) \X NetType : Q(p[1], p[2])}
           ch == Chooser(S)
           g == [p \in (SUBSET S) \X NetType |-> Join(p[2], c, ch[p[1]])]
<1>1. IsFiniteSet(S) /\ \A s \in SUBSET S : s # {} => ch[s] \in s
  BY Ids, FS_Subset, ChooserChooses
<1>2. Q({}, n)
  BY DEF Regrouped
<1>3. ASSUME NEW s \in SUBSET S, s # {}, NEW k, Q(s \ {ch[s]}, k) PROVE Q(s, Join(k, c, ch[s]))
  <2> DEFINE x == ch[s]
             j == Join(k, c, x)
  <2>1. x \in s /\ x \in StationIds /\ Stands(k, x)
    BY <1>1, <1>3 DEF Regrouped, Stands
  <2>2. /\ Whole(j) /\ Regrouped(k, j) /\ j.station[x].cluster = c
        /\ \A t \in StationIds : t # x => j.station[t] = k.station[t]
        /\ FreeClusters(k) \ {c} \subseteq FreeClusters(j)
    BY <1>3, <2>1, JoinWhole
  <2> HIDE DEF x, j
  <2>3. Regrouped(n, j)
    BY <1>3, <2>2 DEF Regrouped
  <2>4. FreeClusters(n) \ {c} \subseteq FreeClusters(j)
    BY <1>3, <2>2
  <2>5. ASSUME NEW t \in StationIds
        PROVE  j.station[t].cluster = IF t \in s THEN c ELSE n.station[t].cluster
    <3>1. CASE t = x
      BY <2>1, <2>2, <3>1
    <3>2. CASE t # x
      <4>1. j.station[t].cluster = k.station[t].cluster
        BY <2>2, <3>2
      <4>2. k.station[t].cluster = IF t \in s \ {x} THEN c ELSE n.station[t].cluster
        BY <1>3 DEF x
      <4> QED BY <3>2, <4>1, <4>2
    <3> QED BY <3>1, <3>2
  <2> QED BY <2>2, <2>3, <2>4, <2>5 DEF x, j
<1> HIDE DEF Q
<1>4. \A s, k : Q(s, k) => k \in NetType
  BY DEF Q, Whole
<1>5. Folds(S, P, n, ch, g)
  <2>1. <<{}, n>> \in P
    BY <1>2, <1>4
  <2>2. ASSUME NEW s \in SUBSET S, NEW k, s # {}, <<s \ {ch[s]}, k>> \in P PROVE <<s, g[<<s, k>>]>> \in P
    <3>1. k \in NetType /\ Q(s \ {ch[s]}, k)
      BY <2>2
    <3>2. Q(s, Join(k, c, ch[s]))
      BY <1>3, <2>2, <3>1
    <3>3. g[<<s, k>>] = Join(k, c, ch[s])
      BY <3>1
    <3> QED BY <1>4, <3>2, <3>3
  <2> HIDE DEF P, ch, g
  <2> QED BY <1>1, <2>1, <2>2 DEF Folds
<1>6. PICK h : Computes(h, S, n, ch, g) /\ \A s \in SUBSET S : <<s, h[s]>> \in P
  <2> HIDE DEF P, ch, g
  <2> QED BY <1>5, FoldExists
<1>7. JoinEq(h, n, c, S)
  <2>1. \A s \in SUBSET S : s # {} => g[<<s, h[s \ {ch[s]}]>>] = Join(h[s \ {ch[s]}], c, ch[s])
    BY <1>6
  <2>2. \A s \in SUBSET S : ch[s] = CHOOSE x \in s : TRUE
    BY DEF Chooser
  <2> HIDE DEF ch, g
  <2>3. h = [s \in SUBSET S |-> IF s = {} THEN n ELSE Join(h[s \ {ch[s]}], c, ch[s])]
    BY <1>6, <2>1 DEF Computes
  <2> QED BY <2>2, <2>3 DEF JoinEq
<1>8. PICK f : f = (CHOOSE k : JoinEq(k, n, c, S)) /\ JoinEq(f, n, c, S)
  BY <1>7
<1>9. /\ f[{}] = n
      /\ \A s \in SUBSET S : s # {} => f[s] = Join(f[s \ {ch[s]}], c, ch[s])
  BY <1>8 DEF JoinEq, Chooser
<1>10. Unfolds(f, S, P, n, ch, g)
  <2>1. \A s \in SUBSET S : s # {} /\ <<s \ {ch[s]}, f[s \ {ch[s]}]>> \in P
                               => f[s] = g[<<s, f[s \ {ch[s]}]>>]
    BY <1>9
  <2> HIDE DEF P, ch, g
  <2> QED BY <1>9, <2>1 DEF Unfolds
<1>11. <<S, f[S]>> \in P
  <2> HIDE DEF P, ch, g
  <2> QED BY <1>5, <1>10, FoldIs
<1>12. m = f[S]
  BY <1>8, JoinAllIs
<1> QED BY <1>11, <1>12 DEF Q

\* Every station points to a cluster, though it may not be in it.
Grouped(n) == \A s \in StationIds : Stands(n, s) => n.station[s].cluster # NoId

LEMMA MaxIsIn ==
    ASSUME NEW k \in Nat, NEW S \in SUBSET (1 .. k), S # {}
    PROVE  Max(S) \in S
<1> DEFINE T == {j \in Nat : \A x \in S : x <= k - j}
<1>1. PICK z \in S : z \in 1 .. k
  OBVIOUS
<1>2. ASSUME \A x \in S : \E y \in S : ~(x >= y) PROVE FALSE
  <2>1. 0 \in T
    OBVIOUS
  <2>2. ASSUME NEW n \in Nat, n \in T PROVE n + 1 \in T
    <3>1. k - n \notin S
      BY <1>2, <2>2
    <3>2. ASSUME NEW x \in S PROVE x <= k - (n + 1)
      <4>1. x \in Nat /\ x <= k - n /\ x # k - n
        BY <2>2, <3>1
      <4> QED BY <4>1
    <3> QED BY <3>2
  <2>3. k \in T
    <3> HIDE DEF T
    <3> QED BY <2>1, <2>2, NatSets
  <2> QED BY <1>1, <2>3
<1>3. \E x \in S : \A y \in S : x >= y
  BY <1>2
<1> QED BY <1>3 DEF Max

LEMMA RecabledFrees ==
    ASSUME NEW n, NEW m, Recabled(n, m)
    PROVE  FreeClusters(m) = FreeClusters(n) /\ \A s \in StationIds : Stands(m, s) <=> Stands(n, s)
  BY DEF Recabled, FreeClusters, Stands

\* The members of some clusters get one of their own.
LEMMA MergeWhole ==
    ASSUME NEW n, Whole(n), NEW C \in SUBSET ClusterIds, FreeClusters(n) # {},
           NEW m, m = Merge(n, C)
    PROVE  /\ Whole(m) /\ Regrouped(n, m)
           /\ \A t \in StationIds : n.station[t].cluster # NoId => m.station[t].cluster # NoId
<1>1. CASE Cardinality(C) < 2
  <2>1. m = n
    BY <1>1 DEF Merge
  <2> QED BY <2>1 DEF Regrouped
<1>2. CASE ~(Cardinality(C) < 2)
  <2> DEFINE S == UNION {n.members[c] : c \in C}
  <2>1. m = JoinAll(n, NewCluster(n), S)
    BY <1>2 DEF Merge
  <2>2. NewCluster(n) \in ClusterIds
    BY NewIds DEF FreeClusters
  <2>3. n.members \in [ClusterIds -> SUBSET StationIds]
    BY NetFields DEF Whole
  <2>4. S \in SUBSET StationIds /\ \A s \in S : Stands(n, s)
    BY <2>3 DEF Whole, MembersBelong
  <2> HIDE DEF S
  <2>5. /\ Whole(m) /\ Regrouped(n, m)
        /\ \A t \in StationIds : m.station[t].cluster = IF t \in S THEN NewCluster(n) ELSE n.station[t].cluster
    BY <2>1, <2>2, <2>4, JoinAllWhole
  <2> QED BY <2>2, <2>5, Ids
<1> QED BY <1>1, <1>2

-----------------------------------------------------------------------------
(* A new station. *)

AccType == [net : NetType, edited : SUBSET ClusterIds]
\* What may have become of the network n when s has been joined to k of the others.
Grown(n, s, a, k) ==
    /\ a \in AccType /\ Whole(a.net)
    /\ a.net.of = n.of /\ a.net.dirty = n.dirty /\ a.net.served = n.served
    /\ \A t \in StationIds : /\ a.net.station[t].unit = n.station[t].unit
                             /\ t # s => a.net.station[t].cluster = n.station[t].cluster
    /\ a.edited # {} => a.net.station[s].cluster # NoId
    /\ FreeClusters(n) \subseteq FreeClusters(a.net)
    /\ Cardinality(FreeRoads(a.net)) + k >= Cardinality(FreeRoads(n))

LEMMA FreeRoadsAre == \A n : IsFiniteSet(FreeRoads(n)) /\ Cardinality(FreeRoads(n)) \in Nat
<1> TAKE n
<1>1. FreeRoads(n) \subseteq RoadIds
  BY DEF FreeRoads
<1> QED BY <1>1, Ids, FS_Subset, FS_CardinalityType

\* A station that is snapped onto a railroad cuts it in two.
LEMMA SnapStep ==
    ASSUME NEW n, Whole(n), NEW s \in StationIds, Stands(n, s), NEW r \in RoadIds, Laid(n, r),
           s \notin Ends(n, r), FreeRoads(n) # {},
           \A t \in StationIds : t # s /\ Stands(n, t) => n.station[t].cluster # NoId,
           NEW E \in SUBSET ClusterIds, NEW acc, acc = [net |-> n, edited |-> E],
           NEW a, a = SnapTo(acc, r, s)
    PROVE  /\ Grown(n, s, a, 1) /\ a.edited # {}
           /\ \A x \in RoadIds : Laid(n, x) /\ x # r => a.net.road[x] = n.road[x]
<1> DEFINE p == n.road[r][1]
           q == n.road[r][2]
           n1 == Tear(n, r)
           n2 == Lay1(n1, p, s)
           n3 == Lay1(n2, s, q)
           c == n3.station[p].cluster
           n4 == Join(n3, c, s)
<1>1. /\ p \in StationIds /\ q \in StationIds /\ p # q /\ p # s /\ q # s
      /\ r \in n.station[p].roads /\ r \in n.station[q].roads
  BY DEF Whole, RoadsEnd, Ends
<1>2. Stands(n, p) /\ Stands(n, q)
  BY <1>1 DEF Whole, FreeAreBlank, NoStation
<1>3. /\ Whole(n1) /\ Recabled(n, n1) /\ n1.road = [n.road EXCEPT ![r] = NoRoad]
  BY TearWhole
<1>4. n.road \in [RoadIds -> (StationIds \cup {NoId}) \X (StationIds \cup {NoId})]
  BY NetFields DEF Whole
<1>5. r \notin FreeRoads(n) /\ FreeRoads(n1) = FreeRoads(n) \cup {r}
  BY <1>3, <1>4 DEF FreeRoads, Laid
<1>6. \A x \in RoadIds : x # r => n1.road[x] = n.road[x]
  BY <1>3, <1>4
<1> HIDE DEF n1, p, q
<1>7. Stands(n1, p) /\ Stands(n1, s) /\ Stands(n1, q)
  BY <1>1, <1>2, <1>3, RecabledFrees
<1>8. FreeRoads(n1) # {} /\ n2 = Lay1(n1, p, s) /\ Whole(n1) /\ p \in StationIds /\ p # s
  BY <1>1, <1>3, <1>5
<1> HIDE DEF n2
<1>9. /\ Whole(n2) /\ Recabled(n1, n2)
      /\ \A x \in RoadIds : Laid(n1, x) => n2.road[x] = n1.road[x]
      /\ \E x \in FreeRoads(n1) : FreeRoads(n2) = FreeRoads(n1) \ {x}
  BY <1>7, <1>8, LayWhole
<1>10. PICK x1 \in FreeRoads(n1) : FreeRoads(n2) = FreeRoads(n1) \ {x1}
  BY <1>9
<1>11. Stands(n2, p) /\ Stands(n2, s) /\ Stands(n2, q)
  BY <1>1, <1>7, <1>9, RecabledFrees
<1>12. FreeRoads(n2) # {}
  BY <1>5, <1>10
<1>13. /\ Whole(n3) /\ Recabled(n2, n3)
       /\ \A x \in RoadIds : Laid(n2, x) => n3.road[x] = n2.road[x]
       /\ \E x \in FreeRoads(n2) : FreeRoads(n3) = FreeRoads(n2) \ {x}
  BY <1>1, <1>9, <1>11, <1>12, LayWhole
<1>14. PICK x2 \in FreeRoads(n2) : FreeRoads(n3) = FreeRoads(n2) \ {x2}
  BY <1>13
<1> HIDE DEF n3
<1>15. Stands(n3, p) /\ Stands(n3, s)
  BY <1>1, <1>11, <1>13, RecabledFrees
<1>16. Recabled(n, n3)
  BY <1>3, <1>9, <1>13 DEF Recabled
<1>17. c = n.station[p].cluster /\ c # NoId /\ c \in ClusterIds
  <2>1. c = n.station[p].cluster
    BY <1>1, <1>16 DEF Recabled
  <2>2. n.station[p].cluster # NoId
    BY <1>1, <1>2
  <2>3. n.station[p].cluster \in ClusterIds \cup {NoId}
    BY <1>1, NetFields DEF Whole
  <2> QED BY <2>1, <2>2, <2>3
<1>18. a = [net |-> n4, edited |-> E \cup {c}]
  <2>1. a = IF c = NoId THEN [acc EXCEPT !.net = n3] ELSE [net |-> n4, edited |-> acc.edited \cup {c}]
    BY DEF SnapTo, n3, n2, n1, p, q
  <2> QED BY <1>17, <2>1
<1> HIDE DEF c
<1>19. /\ Whole(n4) /\ Regrouped(n3, n4) /\ n4.station[s].cluster = c
       /\ \A t \in StationIds : t # s => n4.station[t] = n3.station[t]
       /\ FreeClusters(n3) \ {c} \subseteq FreeClusters(n4)
  BY <1>13, <1>15, <1>17, JoinWhole
<1> HIDE DEF n4
<1>20. c \notin FreeClusters(n3) /\ FreeClusters(n3) = FreeClusters(n)
  BY <1>1, <1>16, <1>17, RecabledFrees DEF FreeClusters
<1>21. FreeRoads(n4) = FreeRoads(n3)
  BY <1>19 DEF Regrouped, FreeRoads
<1>22. Cardinality(FreeRoads(n4)) + 1 >= Cardinality(FreeRoads(n))
  <2>1. Cardinality(FreeRoads(n1)) = Cardinality(FreeRoads(n)) + 1
    BY <1>5, FreeRoadsAre, FS_AddElement
  <2>2. Cardinality(FreeRoads(n2)) = Cardinality(FreeRoads(n1)) - 1
    BY <1>10, FreeRoadsAre, FS_RemoveElement
  <2>3. Cardinality(FreeRoads(n3)) = Cardinality(FreeRoads(n2)) - 1
    BY <1>14, FreeRoadsAre, FS_RemoveElement
  <2> QED BY <1>21, <2>1, <2>2, <2>3, FreeRoadsAre
<1>23. \A t \in StationIds : /\ n4.station[t].unit = n.station[t].unit
                             /\ t # s => n4.station[t].cluster = n.station[t].cluster
  BY <1>16, <1>19 DEF Recabled, Regrouped
<1>24. n4.of = n.of /\ n4.dirty = n.dirty /\ n4.served = n.served
  BY <1>16, <1>19 DEF Recabled, Regrouped
<1>25. a \in AccType /\ a.net = n4 /\ a.edited # {}
  BY <1>17, <1>18, <1>19 DEF AccType, Whole
<1>26. Grown(n, s, a, 1)
  BY <1>17, <1>19, <1>20, <1>22, <1>23, <1>24, <1>25 DEF Grown
<1>27. ASSUME NEW x \in RoadIds, Laid(n, x), x # r PROVE n4.road[x] = n.road[x]
  <2>1. n1.road[x] = n.road[x] /\ Laid(n1, x)
    BY <1>6, <1>27 DEF Laid
  <2>2. n2.road[x] = n.road[x] /\ Laid(n2, x)
    BY <1>9, <1>27, <2>1 DEF Laid
  <2>3. n3.road[x] = n.road[x]
    BY <1>13, <2>2
  <2> QED BY <1>19, <2>3 DEF Regrouped
<1> QED BY <1>25, <1>26, <1>27

LEMMA GrownTwice ==
    ASSUME NEW n, NEW s, NEW a, NEW b, NEW j \in Nat, NEW k \in Nat,
           Grown(n, s, a, j), Grown(a.net, s, b, k)
    PROVE  Grown(n, s, b, j + k)
<1>1. Cardinality(FreeRoads(b.net)) + (j + k) >= Cardinality(FreeRoads(n))
  <2>1. /\ Cardinality(FreeRoads(a.net)) + j >= Cardinality(FreeRoads(n))
        /\ Cardinality(FreeRoads(b.net)) + k >= Cardinality(FreeRoads(a.net))
    BY DEF Grown
  <2> QED BY <2>1, FreeRoadsAre
<1>2. /\ b \in AccType /\ Whole(b.net)
      /\ b.net.of = n.of /\ b.net.dirty = n.dirty /\ b.net.served = n.served
      /\ b.edited # {} => b.net.station[s].cluster # NoId
      /\ FreeClusters(n) \subseteq FreeClusters(b.net)
  BY DEF Grown
<1>3. ASSUME NEW t \in StationIds
      PROVE  /\ b.net.station[t].unit = n.station[t].unit
             /\ t # s => b.net.station[t].cluster = n.station[t].cluster
  BY DEF Grown
<1> QED BY <1>1, <1>2, <1>3 DEF Grown
LEMMA NotGrown ==
    ASSUME NEW n, Whole(n), NEW s, NEW a, a = [net |-> n, edited |-> {}]
    PROVE  Grown(n, s, a, 0)
  BY FreeRoadsAre DEF Grown, AccType, Whole
LEMMA AccFields ==
    ASSUME NEW a \in AccType
    PROVE  a.net \in NetType /\ a.edited \in SUBSET ClusterIds /\ a = [net |-> a.net, edited |-> a.edited]
  BY DEF AccType

LEMMA PartsOf ==
    ASSUME NEW k \in Nat
    PROVE  /\ IsFiniteSet(1 .. k) /\ Cardinality(1 .. k) = k
           /\ \A I \in SUBSET (1 .. k) : /\ IsFiniteSet(I) /\ Cardinality(I) \in Nat /\ Cardinality(I) <= k
                                         /\ \A x \in I : Cardinality(I \ {x}) = Cardinality(I) - 1
<1>1. IsFiniteSet(1 .. k) /\ Cardinality(1 .. k) = k
  BY FS_Interval
<1>2. \A I \in SUBSET (1 .. k) : IsFiniteSet(I) /\ Cardinality(I) \in Nat /\ Cardinality(I) <= k
  BY <1>1, FS_Subset, FS_CardinalityType
<1> QED BY <1>1, <1>2, FS_RemoveElement

Latest(k) == [I \in SUBSET (1 .. k) |-> Max(I)]
SnapEq(h, n, s, rails) ==
    h = [I \in SUBSET (DOMAIN rails) |->
           IF I = {} THEN [net |-> n, edited |-> {}] ELSE LET i == Max(I) IN SnapTo(h[I \ {i}], rails[i], s)]
LEMMA OnRailsIs ==
    \A n, s, rails : OnRails(n, s, rails) = (CHOOSE h : SnapEq(h, n, s, rails))[DOMAIN rails]
  BY DEF OnRails, FoldLeft, MapThenFoldSet, SnapEq

LEMMA OnRailsGrow ==
    ASSUME NEW n, Whole(n), NEW s \in StationIds, Stands(n, s),
           \A t \in StationIds : t # s /\ Stands(n, t) => n.station[t].cluster # NoId,
           NEW k \in Nat, NEW rails \in [1 .. k -> {r \in RoadIds : Laid(n, r) /\ s \notin Ends(n, r)}],
           \A i, j \in 1 .. k : rails[i] = rails[j] => i = j,
           k <= Cardinality(FreeRoads(n)), NEW a, a = OnRails(n, s, rails)
    PROVE  /\ Grown(n, s, a, k)
           /\ k = 0 => a = [net |-> n, edited |-> {}]
           /\ k # 0 => a.edited # {}
<1> DEFINE S == 1 .. k
           start == [net |-> n, edited |-> {}]
           Q(I, b) == /\ Grown(n, s, b, Cardinality(I))
                      /\ I = {} => b = start
                      /\ I # {} => b.edited # {}
                      /\ \A i \in S \ I : b.net.road[rails[i]] = n.road[rails[i]]
           P == {p \in (SUBSET S) \X AccType : Q(p[1], p[2])}
           ch == Latest(k)
           g == [p \in (SUBSET S) \X AccType |-> SnapTo(p[2], rails[ch[p[1]]], s)]
<1>1. IsFiniteSet(S) /\ \A I \in SUBSET S : I # {} => ch[I] \in I
  BY PartsOf, MaxIsIn DEF Latest
<1>2. Q({}, start)
  <2>1. Cardinality({}) = 0
    BY FS_EmptySet
  <2> QED BY <2>1, NotGrown
<1>3. ASSUME NEW I \in SUBSET S, I # {}, NEW b, Q(I \ {ch[I]}, b) PROVE Q(I, SnapTo(b, rails[ch[I]], s))
  <2> DEFINE x == ch[I]
             J == I \ {x}
             r == rails[x]
             d == SnapTo(b, r, s)
  <2>1. /\ x \in I /\ x \in S /\ J \in SUBSET S
        /\ Cardinality(I) \in Nat /\ Cardinality(J) = Cardinality(I) - 1 /\ Cardinality(I) <= k
        /\ Cardinality(J) \in Nat
    BY <1>1, <1>3, PartsOf
  <2>2. r \in RoadIds /\ Laid(n, r) /\ s \notin Ends(n, r)
    BY <2>1
  <2>3. /\ Grown(n, s, b, Cardinality(J)) /\ b.net.road[r] = n.road[r]
        /\ \A i \in S \ J : b.net.road[rails[i]] = n.road[rails[i]]
    BY <1>3, <2>1
  <2> HIDE DEF x, J, d
  <2>4. /\ b \in AccType /\ Whole(b.net)
        /\ \A t \in StationIds : /\ b.net.station[t].unit = n.station[t].unit
                                 /\ t # s => b.net.station[t].cluster = n.station[t].cluster
        /\ Cardinality(FreeRoads(b.net)) + Cardinality(J) >= Cardinality(FreeRoads(n))
    BY <2>3 DEF Grown
  <2>5. b = [net |-> b.net, edited |-> b.edited] /\ b.edited \in SUBSET ClusterIds
    BY <2>4, AccFields
  <2>6. Laid(b.net, r) /\ s \notin Ends(b.net, r)
    BY <2>2, <2>3 DEF Laid, Ends
  <2>7. Stands(b.net, s) /\ \A t \in StationIds : t # s /\ Stands(b.net, t) => b.net.station[t].cluster # NoId
    BY <2>4 DEF Stands
  <2>8. FreeRoads(b.net) # {}
    <3>1. Cardinality(FreeRoads(b.net)) > 0
      BY <2>1, <2>4, FreeRoadsAre
    <3> QED BY <3>1, FS_EmptySet
  <2>9. /\ Grown(b.net, s, d, 1) /\ d.edited # {}
        /\ \A y \in RoadIds : Laid(b.net, y) /\ y # r => d.net.road[y] = b.net.road[y]
    <3> HIDE DEF r
    <3>1. d = SnapTo(b, r, s) /\ r \in RoadIds
      BY <2>2 DEF d
    <3> QED BY <2>4, <2>5, <2>6, <2>7, <2>8, <3>1, SnapStep
  <2>10. Grown(n, s, d, Cardinality(I))
    <3>1. Grown(n, s, d, Cardinality(J) + 1)
      BY <2>1, <2>3, <2>9, GrownTwice
    <3>2. Cardinality(J) + 1 = Cardinality(I)
      BY <2>1
    <3> QED BY <3>1, <3>2
  <2>11. ASSUME NEW i \in S \ I PROVE d.net.road[rails[i]] = n.road[rails[i]]
    <3>1. i \in S \ J /\ i # x
      BY <2>1, <2>11 DEF J
    <3>2. rails[i] \in RoadIds /\ Laid(n, rails[i]) /\ rails[i] # r
      BY <2>1, <3>1
    <3>3. b.net.road[rails[i]] = n.road[rails[i]] /\ Laid(b.net, rails[i])
      BY <2>3, <3>1, <3>2 DEF Laid
    <3> QED BY <2>9, <3>2, <3>3
  <2> QED BY <1>3, <2>9, <2>10, <2>11 DEF d, x
<1> HIDE DEF Q
<1>4. \A I, b : Q(I, b) => b \in AccType
  BY DEF Q, Grown
<1>5. Folds(S, P, start, ch, g)
  <2>1. <<{}, start>> \in P
    BY <1>2, <1>4
  <2>2. ASSUME NEW I \in SUBSET S, NEW b, I # {}, <<I \ {ch[I]}, b>> \in P PROVE <<I, g[<<I, b>>]>> \in P
    <3>1. b \in AccType /\ Q(I \ {ch[I]}, b)
      BY <2>2
    <3>2. Q(I, SnapTo(b, rails[ch[I]], s))
      BY <1>3, <2>2, <3>1
    <3>3. g[<<I, b>>] = SnapTo(b, rails[ch[I]], s)
      BY <3>1
    <3>4. SnapTo(b, rails[ch[I]], s) \in AccType
      BY <1>4, <3>2
    <3> HIDE DEF g, ch
    <3> QED BY <3>2, <3>3, <3>4
  <2> HIDE DEF P, ch, g, S, start
  <2> QED BY <1>1, <2>1, <2>2 DEF Folds
<1>6. PICK h : Computes(h, S, start, ch, g) /\ \A I \in SUBSET S : <<I, h[I]>> \in P
  <2> HIDE DEF P, ch, g, S, start
  <2> QED BY <1>5, FoldExists
<1>7. SnapEq(h, n, s, rails)
  <2>1. \A I \in SUBSET S : I # {} => g[<<I, h[I \ {ch[I]}]>>] = SnapTo(h[I \ {ch[I]}], rails[ch[I]], s)
    BY <1>6
  <2>2. \A I \in SUBSET S : ch[I] = Max(I)
    BY DEF Latest
  <2>3. S = DOMAIN rails
    OBVIOUS
  <2> HIDE DEF ch, g, S
  <2>4. h = [I \in SUBSET S |-> IF I = {} THEN start ELSE SnapTo(h[I \ {ch[I]}], rails[ch[I]], s)]
    BY <1>6, <2>1 DEF Computes
  <2> QED BY <2>2, <2>3, <2>4 DEF SnapEq
<1>8. PICK f : f = (CHOOSE h1 : SnapEq(h1, n, s, rails)) /\ SnapEq(f, n, s, rails)
  BY <1>7
<1>9. /\ f[{}] = start
      /\ \A I \in SUBSET S : I # {} => f[I] = SnapTo(f[I \ {ch[I]}], rails[ch[I]], s)
  BY <1>8 DEF SnapEq, Latest
<1>10. Unfolds(f, S, P, start, ch, g)
  <2>1. \A I \in SUBSET S : I # {} /\ <<I \ {ch[I]}, f[I \ {ch[I]}]>> \in P
                               => f[I] = g[<<I, f[I \ {ch[I]}]>>]
    BY <1>9
  <2> HIDE DEF P, ch, g, S, start
  <2> QED BY <1>9, <2>1 DEF Unfolds
<1>11. <<S, f[S]>> \in P
  <2> HIDE DEF P, ch, g, S, start
  <2> QED BY <1>5, <1>10, FoldIs
<1>12. a = f[S]
  <2>1. DOMAIN rails = S
    OBVIOUS
  <2> QED BY <1>8, <2>1, OnRailsIs
<1>13. Q(S, a)
  BY <1>11, <1>12
<1>14. Cardinality(S) = k /\ (k = 0 => S = {}) /\ (k # 0 => S # {})
  BY PartsOf
<1> QED BY <1>13, <1>14 DEF Q

\* A station near by is reached by a railroad, or there is a way to it already.
LEMMA ReachStep ==
    ASSUME NEW n, Whole(n), NEW s \in StationIds, NEW u \in UnitIds, n.station[s].unit = u,
           NEW v \in UnitIds, v # u, FreeRoads(n) # {},
           NEW E \in SUBSET ClusterIds, E # {} => n.station[s].cluster # NoId,
           NEW acc, acc = [net |-> n, edited |-> E], NEW a, a = Reach1(acc, v, s)
    PROVE  Grown(n, s, a, 1)
<1> DEFINE t == n.of[v]
           c == n.station[t].cluster
           n1 == Lay1(n, s, t)
           n2 == Join(n1, c, s)
<1>1. acc.net = n /\ acc.edited = E
  OBVIOUS
<1>2. a = IF t = NoId \/ c = NoId \/ s \in Within(n, t, MaxHops) THEN acc
          ELSE [net |-> n2, edited |-> E \cup {c}]
  BY <1>1 DEF Reach1
<1>3. CASE a = acc
  BY <1>1, <1>3, FreeRoadsAre DEF Grown, AccType, Whole
<1>4. CASE a = [net |-> n2, edited |-> E \cup {c}] /\ t # NoId /\ c # NoId
  <2>1. t \in StationIds /\ n.station[t].unit = v
    BY <1>4, NetFields DEF Whole, UnitsAreFound
  <2>2. t # s /\ Stands(n, s) /\ Stands(n, t)
    BY <2>1, Ids DEF Stands
  <2>3. c \in ClusterIds
    BY <1>4, <2>1, NetFields DEF Whole
  <2> HIDE DEF t, c
  <2>4. n1 = Lay1(n, s, t)
    OBVIOUS
  <2> HIDE DEF n1
  <2>5. /\ Whole(n1) /\ Recabled(n, n1)
        /\ \E x \in FreeRoads(n) : FreeRoads(n1) = FreeRoads(n) \ {x}
    BY <2>1, <2>2, <2>4, LayWhole
  <2>6. Stands(n1, s)
    BY <2>2, <2>5, RecabledFrees
  <2>7. n2 = Join(n1, c, s)
    OBVIOUS
  <2> HIDE DEF n2
  <2>8. /\ Whole(n2) /\ Regrouped(n1, n2) /\ n2.station[s].cluster = c
        /\ \A x \in StationIds : x # s => n2.station[x] = n1.station[x]
        /\ FreeClusters(n1) \ {c} \subseteq FreeClusters(n2)
    BY <2>3, <2>5, <2>6, <2>7, JoinWhole
  <2>9. FreeClusters(n1) = FreeClusters(n) /\ c \notin FreeClusters(n)
    BY <2>1, <2>5, RecabledFrees DEF FreeClusters, c
  <2>10. Cardinality(FreeRoads(n2)) + 1 >= Cardinality(FreeRoads(n))
    <3>1. FreeRoads(n2) = FreeRoads(n1)
      BY <2>8 DEF Regrouped, FreeRoads
    <3>2. PICK x \in FreeRoads(n) : FreeRoads(n1) = FreeRoads(n) \ {x}
      BY <2>5
    <3>3. Cardinality(FreeRoads(n1)) = Cardinality(FreeRoads(n)) - 1
      BY <3>2, FreeRoadsAre, FS_RemoveElement
    <3> QED BY <3>1, <3>3, FreeRoadsAre
  <2>11. \A x \in StationIds : /\ n2.station[x].unit = n.station[x].unit
                               /\ x # s => n2.station[x].cluster = n.station[x].cluster
    BY <2>5, <2>8 DEF Recabled, Regrouped
  <2>12. n2.of = n.of /\ n2.dirty = n.dirty /\ n2.served = n.served
    BY <2>5, <2>8 DEF Recabled, Regrouped
  <2>13. a \in AccType /\ a.net = n2
    BY <1>4, <2>3, <2>8 DEF AccType, Whole
  <2> QED BY <1>4, <2>8, <2>9, <2>10, <2>11, <2>12, <2>13 DEF Grown
<1> QED BY <1>2, <1>3, <1>4

ReachEq(h, n, s, near) ==
    h = [I \in SUBSET (DOMAIN near) |->
           IF I = {} THEN [net |-> n, edited |-> {}] ELSE LET i == Max(I) IN Reach1(h[I \ {i}], near[i], s)]
Reached(n, s, near) == (CHOOSE h : ReachEq(h, n, s, near))[DOMAIN near]
LEMMA ToStationsIs ==
    ASSUME NEW n, NEW s, NEW near, NEW a, a = Reached(n, s, near)
    PROVE  ToStations(n, s, near) = IF a.edited = {} THEN Join(a.net, NewCluster(a.net), s)
                                    ELSE Merge(a.net, a.edited)
<1>1. Reached(n, s, near) = FoldLeft(LAMBDA x, u : Reach1(x, u, s), [net |-> n, edited |-> {}], near)
  BY DEF FoldLeft, MapThenFoldSet, ReachEq, Reached
<1> QED BY <1>1 DEF ToStations

LEMMA ReachedGrows ==
    ASSUME NEW n, Whole(n), NEW s \in StationIds, NEW u \in UnitIds, n.station[s].unit = u,
           NEW k \in Nat, NEW near \in [1 .. k -> UnitIds \ {u}],
           k <= Cardinality(FreeRoads(n)), NEW a, a = Reached(n, s, near)
    PROVE  Grown(n, s, a, k)
<1> DEFINE S == 1 .. k
           start == [net |-> n, edited |-> {}]
           Q(I, b) == Grown(n, s, b, Cardinality(I))
           P == {p \in (SUBSET S) \X AccType : Q(p[1], p[2])}
           ch == Latest(k)
           g == [p \in (SUBSET S) \X AccType |-> Reach1(p[2], near[ch[p[1]]], s)]
<1>1. IsFiniteSet(S) /\ \A I \in SUBSET S : I # {} => ch[I] \in I
  BY PartsOf, MaxIsIn DEF Latest
<1>2. Q({}, start)
  <2>1. Cardinality({}) = 0
    BY FS_EmptySet
  <2> QED BY <2>1, NotGrown
<1>3. ASSUME NEW I \in SUBSET S, I # {}, NEW b, Q(I \ {ch[I]}, b) PROVE Q(I, Reach1(b, near[ch[I]], s))
  <2> DEFINE x == ch[I]
             J == I \ {x}
             d == Reach1(b, near[x], s)
  <2>1. /\ x \in I /\ x \in S /\ J \in SUBSET S
        /\ Cardinality(I) \in Nat /\ Cardinality(J) = Cardinality(I) - 1 /\ Cardinality(I) <= k
        /\ Cardinality(J) \in Nat
    BY <1>1, <1>3, PartsOf
  <2>2. PICK v : v = near[x] /\ v \in UnitIds /\ v # u
    BY <2>1
  <2>3. Grown(n, s, b, Cardinality(J)) /\ d = Reach1(b, v, s)
    BY <1>3, <2>2
  <2> HIDE DEF x, J, d
  <2>4. /\ b \in AccType /\ Whole(b.net) /\ b.net.station[s].unit = u
        /\ b.edited # {} => b.net.station[s].cluster # NoId
        /\ Cardinality(FreeRoads(b.net)) + Cardinality(J) >= Cardinality(FreeRoads(n))
    BY <2>3 DEF Grown
  <2>5. b = [net |-> b.net, edited |-> b.edited] /\ b.edited \in SUBSET ClusterIds
    BY <2>4, AccFields
  <2>6. FreeRoads(b.net) # {}
    <3>1. Cardinality(FreeRoads(b.net)) > 0
      BY <2>1, <2>4, FreeRoadsAre
    <3> QED BY <3>1, FS_EmptySet
  <2>7. Grown(b.net, s, d, 1)
    BY <2>2, <2>3, <2>4, <2>5, <2>6, ReachStep
  <2>8. Grown(n, s, d, Cardinality(J) + 1) /\ Cardinality(J) + 1 = Cardinality(I)
    BY <2>1, <2>3, <2>7, GrownTwice
  <2> QED BY <2>8 DEF d, x
<1> HIDE DEF Q
<1>4. \A I, b : Q(I, b) => b \in AccType
  BY DEF Q, Grown
<1>5. Folds(S, P, start, ch, g)
  <2>1. <<{}, start>> \in P
    BY <1>2, <1>4
  <2>2. ASSUME NEW I \in SUBSET S, NEW b, I # {}, <<I \ {ch[I]}, b>> \in P PROVE <<I, g[<<I, b>>]>> \in P
    <3>1. b \in AccType /\ Q(I \ {ch[I]}, b)
      BY <2>2
    <3>2. Q(I, Reach1(b, near[ch[I]], s))
      BY <1>3, <2>2, <3>1
    <3>3. g[<<I, b>>] = Reach1(b, near[ch[I]], s)
      BY <3>1
    <3>4. Reach1(b, near[ch[I]], s) \in AccType
      BY <1>4, <3>2
    <3> HIDE DEF g, ch
    <3> QED BY <3>2, <3>3, <3>4
  <2> HIDE DEF P, ch, g, S, start
  <2> QED BY <1>1, <2>1, <2>2 DEF Folds
<1>6. PICK h : Computes(h, S, start, ch, g) /\ \A I \in SUBSET S : <<I, h[I]>> \in P
  <2> HIDE DEF P, ch, g, S, start
  <2> QED BY <1>5, FoldExists
<1>7. ReachEq(h, n, s, near)
  <2>1. \A I \in SUBSET S : I # {} => g[<<I, h[I \ {ch[I]}]>>] = Reach1(h[I \ {ch[I]}], near[ch[I]], s)
    BY <1>6
  <2>2. \A I \in SUBSET S : ch[I] = Max(I)
    BY DEF Latest
  <2>3. S = DOMAIN near
    OBVIOUS
  <2> HIDE DEF ch, g, S
  <2>4. h = [I \in SUBSET S |-> IF I = {} THEN start ELSE Reach1(h[I \ {ch[I]}], near[ch[I]], s)]
    BY <1>6, <2>1 DEF Computes
  <2> QED BY <2>2, <2>3, <2>4 DEF ReachEq
<1>8. PICK f : f = (CHOOSE h1 : ReachEq(h1, n, s, near)) /\ ReachEq(f, n, s, near)
  BY <1>7
<1>9. /\ f[{}] = start
      /\ \A I \in SUBSET S : I # {} => f[I] = Reach1(f[I \ {ch[I]}], near[ch[I]], s)
  BY <1>8 DEF ReachEq, Latest
<1>10. Unfolds(f, S, P, start, ch, g)
  <2>1. \A I \in SUBSET S : I # {} /\ <<I \ {ch[I]}, f[I \ {ch[I]}]>> \in P
                               => f[I] = g[<<I, f[I \ {ch[I]}]>>]
    BY <1>9
  <2> HIDE DEF P, ch, g, S, start
  <2> QED BY <1>9, <2>1 DEF Unfolds
<1>11. <<S, f[S]>> \in P
  <2> HIDE DEF P, ch, g, S, start
  <2> QED BY <1>5, <1>10, FoldIs
<1>12. a = f[S]
  <2>1. DOMAIN near = S
    OBVIOUS
  <2> QED BY <1>8, <2>1 DEF Reached
<1>13. Q(S, a)
  BY <1>11, <1>12
<1>14. Cardinality(S) = k
  BY PartsOf
<1> QED BY <1>13, <1>14 DEF Q

\* However many railroads it comes to stand on, or stations it is joined to.
LEMMA GrownWhole ==
    ASSUME NEW n, NEW s \in StationIds, NEW a, NEW k, Grown(n, s, a, k), Stands(n, s),
           \A t \in StationIds : t # s /\ Stands(n, t) => n.station[t].cluster # NoId,
           FreeClusters(n) # {}, NEW m,
           \/ a.edited # {} /\ m = Merge(a.net, a.edited)
           \/ m = Join(a.net, NewCluster(a.net), s)
    PROVE  Whole(m) /\ Grouped(m) /\ m.of = n.of /\ m.served = n.served
<1>1. /\ Whole(a.net) /\ a.net.of = n.of /\ a.net.served = n.served /\ FreeClusters(a.net) # {}
      /\ a.edited \in SUBSET ClusterIds /\ Stands(a.net, s)
      /\ a.edited # {} => a.net.station[s].cluster # NoId
      /\ \A t \in StationIds : t # s /\ Stands(a.net, t) => a.net.station[t].cluster # NoId
  BY AccFields DEF Grown, Stands
<1>2. CASE a.edited # {} /\ m = Merge(a.net, a.edited)
  <2>1. /\ Whole(m) /\ Regrouped(a.net, m)
        /\ \A t \in StationIds : a.net.station[t].cluster # NoId => m.station[t].cluster # NoId
    BY <1>1, <1>2, MergeWhole
  <2>2. Grouped(m)
    BY <1>1, <1>2, <2>1 DEF Grouped, Regrouped, Stands
  <2> QED BY <1>1, <2>1, <2>2 DEF Regrouped
<1>3. CASE m = Join(a.net, NewCluster(a.net), s)
  <2>1. NewCluster(a.net) \in ClusterIds
    BY <1>1, NewIds DEF FreeClusters
  <2>2. /\ Whole(m) /\ Regrouped(a.net, m) /\ m.station[s].cluster = NewCluster(a.net)
        /\ \A t \in StationIds : t # s => m.station[t] = a.net.station[t]
    BY <1>1, <1>3, <2>1, JoinWhole
  <2>3. Grouped(m)
    BY <1>1, <2>1, <2>2, Ids DEF Grouped, Stands
  <2> QED BY <1>1, <2>2, <2>3 DEF Regrouped
<1> QED BY <1>2, <1>3

-----------------------------------------------------------------------------
(* A station that is founded. *)

Founded(n, s, u, b) == [n EXCEPT !.station[s] = [NoStation EXCEPT !.unit = u, !.trades = b],
                                 !.of[u] = IF @ = NoId THEN s ELSE @]
LEMMA FoundedFields ==
    ASSUME NEW n \in NetType, NEW s \in StationIds, NEW u \in UnitIds, NEW b \in BOOLEAN,
           NEW m, m = Founded(n, s, u, b)
    PROVE  /\ m \in NetType
           /\ m.station[s].unit = u /\ m.station[s].cluster = NoId /\ m.station[s].roads = {}
           /\ \A t \in StationIds : m.station[s].via[t] = NoId
           /\ \A t \in StationIds : t # s => m.station[t] = n.station[t]
           /\ m.of = [n.of EXCEPT ![u] = IF n.of[u] = NoId THEN s ELSE n.of[u]]
           /\ m.road = n.road /\ m.members = n.members /\ m.dirty = n.dirty /\ m.served = n.served
<1> DEFINE A == [NoStation EXCEPT !.unit = u, !.trades = b]
<1>1. /\ n.station \in [StationIds -> StationType] /\ n.of \in [UnitIds -> StationIds \cup {NoId}]
      /\ DOMAIN n = {"station", "of", "road", "members", "dirty", "served"}
  BY NetFields
<1>2. A \in StationType /\ A.unit = u /\ A.cluster = NoId /\ A.roads = {}
      /\ \A t \in StationIds : A.via[t] = NoId
  BY DEF NoStation, StationType
<1> HIDE DEF A
<1>3. /\ m.road = n.road /\ m.members = n.members /\ m.dirty = n.dirty /\ m.served = n.served
      /\ m = [station |-> m.station, of |-> m.of, road |-> m.road, members |-> m.members,
              dirty |-> m.dirty, served |-> m.served]
      /\ m.of = [n.of EXCEPT ![u] = IF n.of[u] = NoId THEN s ELSE n.of[u]]
      /\ m.station = [n.station EXCEPT ![s] = A]
  BY <1>1 DEF Founded, A
<1>4. m.station \in [StationIds -> StationType] /\ m.of \in [UnitIds -> StationIds \cup {NoId}]
  BY <1>1, <1>2, <1>3
<1>5. m \in NetType
  BY <1>3, <1>4, NetFields, MakesNet
<1>6. m.station[s] = A /\ \A t \in StationIds : t # s => m.station[t] = n.station[t]
  BY <1>1, <1>3
<1> QED BY <1>2, <1>3, <1>5, <1>6 DEF A

\* A station comes into the world without a railroad and without a cluster.
LEMMA FoundedWhole ==
    ASSUME NEW n, Whole(n), NEW s \in StationIds, ~Stands(n, s), NEW u \in UnitIds,
           NEW b \in BOOLEAN, NEW m, m = Founded(n, s, u, b)
    PROVE  /\ Whole(m) /\ m.station[s].unit = u
           /\ \A t \in StationIds : t # s => m.station[t] = n.station[t]
           /\ \A r \in RoadIds : Laid(m, r) => s \notin Ends(m, r)
           /\ m.of = [n.of EXCEPT ![u] = IF n.of[u] = NoId THEN s ELSE n.of[u]]
           /\ m.road = n.road /\ m.served = n.served
           /\ FreeRoads(m) = FreeRoads(n) /\ FreeClusters(m) = FreeClusters(n)
<1>1. n \in NetType
  BY DEF Whole
<1>2. /\ m \in NetType
      /\ m.station[s].unit = u /\ m.station[s].cluster = NoId /\ m.station[s].roads = {}
      /\ \A t \in StationIds : m.station[s].via[t] = NoId
      /\ \A t \in StationIds : t # s => m.station[t] = n.station[t]
      /\ m.of = [n.of EXCEPT ![u] = IF n.of[u] = NoId THEN s ELSE n.of[u]]
      /\ m.road = n.road /\ m.members = n.members /\ m.dirty = n.dirty /\ m.served = n.served
  BY <1>1, FoundedFields
<1>3. n.station[s] = NoStation
  BY DEF Whole, FreeAreBlank
<1>4. /\ n.station[s].unit = NoUnitId /\ n.station[s].cluster = NoId /\ n.station[s].roads = {}
      /\ \A t \in StationIds : n.station[s].via[t] = NoId
  BY <1>3 DEF NoStation
<1> HIDE DEF NoStation
<1>5. \A r \in RoadIds : (Laid(m, r) <=> Laid(n, r)) /\ Ends(m, r) = Ends(n, r)
  BY <1>2 DEF Laid, Ends
<1>6. \A t \in StationIds : m.station[t].roads = n.station[t].roads
  BY <1>2, <1>4
<1>7. \A t, v \in StationIds : m.station[t].via[v] = n.station[t].via[v]
  BY <1>2, <1>4
<1>8. RoadsEnd(m)
  <2>1. SUFFICES ASSUME NEW x \in RoadIds, Laid(m, x)
                 PROVE  /\ m.road[x][1] \in StationIds /\ m.road[x][2] \in StationIds
                        /\ m.road[x][1] # m.road[x][2]
                        /\ \A t \in Ends(m, x) : x \in m.station[t].roads
    BY DEF RoadsEnd
  <2>2. /\ n.road[x][1] \in StationIds /\ n.road[x][2] \in StationIds
        /\ n.road[x][1] # n.road[x][2]
        /\ \A t \in Ends(n, x) : x \in n.station[t].roads
    BY <1>5, <2>1 DEF Whole, RoadsEnd
  <2>3. Ends(n, x) \subseteq StationIds
    BY <2>2 DEF Ends
  <2> QED BY <1>2, <1>5, <1>6, <2>2, <2>3
<1>9. RoadsListed(m)
  <2>1. SUFFICES ASSUME NEW t \in StationIds, NEW x \in m.station[t].roads
                 PROVE  Laid(m, x) /\ t \in Ends(m, x)
    BY DEF RoadsListed
  <2>2. x \in n.station[t].roads /\ x \in RoadIds
    BY <1>1, <1>6, NetFields
  <2> QED BY <1>5, <2>2 DEF Whole, RoadsListed
<1>10. NeighboursMeet(m)
  BY <1>6, <1>7 DEF Whole, NeighboursMeet
<1>11. FreeAreBlank(m)
  BY <1>2, Ids DEF Whole, FreeAreBlank, Stands
<1>12. MembersBelong(m)
  <2>1. SUFFICES ASSUME NEW c \in ClusterIds, NEW t \in m.members[c]
                 PROVE  Stands(m, t) /\ m.station[t].cluster = c
    BY DEF MembersBelong
  <2>2. t \in n.members[c] /\ t \in StationIds
    BY <1>1, <1>2, NetFields
  <2>3. Stands(n, t) /\ n.station[t].cluster = c
    BY <2>2 DEF Whole, MembersBelong
  <2>4. t # s
    BY <2>3
  <2> QED BY <1>2, <2>2, <2>3, <2>4 DEF Stands
<1>13. UnitsAreFound(m)
  <2>1. SUFFICES ASSUME NEW v \in UnitIds, m.of[v] # NoId PROVE m.station[m.of[v]].unit = v
    BY DEF UnitsAreFound
  <2>2. n.of \in [UnitIds -> StationIds \cup {NoId}]
    BY <1>1, NetFields
  <2>3. CASE n.of[v] # NoId
    <3>1. m.of[v] = n.of[v] /\ n.of[v] \in StationIds
      BY <1>2, <2>2, <2>3
    <3>2. n.station[n.of[v]].unit = v
      BY <2>3 DEF Whole, UnitsAreFound
    <3>3. n.of[v] # s
      BY <1>4, <3>2, Ids
    <3> QED BY <1>2, <3>1, <3>2, <3>3
  <2>4. CASE n.of[v] = NoId
    <3>1. v = u /\ m.of[v] = s
      BY <1>2, <2>1, <2>2, <2>4
    <3> QED BY <1>2, <3>1
  <2> QED BY <2>3, <2>4
<1>14. \A r \in RoadIds : Laid(m, r) => s \notin Ends(m, r)
  BY <1>2, <1>8 DEF RoadsEnd
<1>15. FreeRoads(m) = FreeRoads(n)
  BY <1>2 DEF FreeRoads
<1>16. \A t \in StationIds : m.station[t].cluster = n.station[t].cluster
  BY <1>2, <1>4
<1>17. FreeClusters(m) = FreeClusters(n)
  BY <1>2, <1>16 DEF FreeClusters
<1> QED BY <1>2, <1>8, <1>9, <1>10, <1>11, <1>12, <1>13, <1>14, <1>15, <1>17 DEF Whole

LEMMA RowsAre ==
    ASSUME NEW S, NEW row \in Rows(S)
    PROVE  \E k \in Nat : /\ k <= MaxRow /\ row \in [1 .. k -> S]
                          /\ \A i, j \in 1 .. k : row[i] = row[j] => i = j
<1>1. PICK k \in 0 .. MaxRow : row \in [1 .. k -> S] /\ IsInjective(row)
  BY DEF Rows
<1>2. k \in Nat /\ k <= MaxRow
  BY <1>1, RailAssumption
<1>3. \A i, j \in 1 .. k : row[i] = row[j] => i = j
  BY <1>1 DEF IsInjective
<1> QED BY <1>1, <1>2, <1>3

\* Whatever network comes of a new station is sound.
LEMMA ConnectedWhole ==
    ASSUME NEW n, Whole(n), Grouped(n), NEW s \in StationIds, ~Stands(n, s), NEW u \in UnitIds,
           FreeClusters(n) # {}, Cardinality(FreeRoads(n)) >= MaxRow, NEW m \in Connected(n, s, u)
    PROVE  /\ Whole(m) /\ Grouped(m) /\ m.served = n.served
           /\ m.of = [n.of EXCEPT ![u] = IF n.of[u] = NoId THEN s ELSE n.of[u]]
<1> DEFINE b == unit[u].type \in {"City", "Port"}
           new == Founded(n, s, u, b)
           Roads == {r \in RoadIds : n.road[r] # NoRoad}
           snapped == {OnRails(new, s, row) : row \in Rows(Roads)}
<1>1. Connected(n, s, u) =
        {Merge(acc.net, acc.edited) : acc \in {x \in snapped : x.edited # {}}}
        \cup UNION {{ToStations(acc.net, s, row) : row \in Rows(Near(u))} :
                        acc \in {x \in snapped : x.edited = {}}}
  BY DEF Connected, Founded
<1>2. b \in BOOLEAN
  OBVIOUS
<1> HIDE DEF b
<1>3. PICK k : k = new
  OBVIOUS
<1>4. /\ Whole(k) /\ k.station[s].unit = u
      /\ \A t \in StationIds : t # s => k.station[t] = n.station[t]
      /\ \A r \in RoadIds : Laid(k, r) => s \notin Ends(k, r)
      /\ k.of = [n.of EXCEPT ![u] = IF n.of[u] = NoId THEN s ELSE n.of[u]]
      /\ k.road = n.road /\ k.served = n.served
      /\ FreeRoads(k) = FreeRoads(n) /\ FreeClusters(k) = FreeClusters(n)
  BY <1>2, <1>3, FoundedWhole
<1>6. Stands(k, s) /\ \A t \in StationIds : t # s /\ Stands(k, t) => k.station[t].cluster # NoId
  BY <1>4, Ids DEF Stands, Grouped
<1>7. FreeClusters(k) # {} /\ Cardinality(FreeRoads(k)) \in Nat
  BY <1>4, FreeRoadsAre
<1>8. Roads = {r \in RoadIds : Laid(k, r) /\ s \notin Ends(k, r)}
  BY <1>4 DEF Laid
<1>9. \A acc \in snapped :
         \E j \in Nat : Grown(k, s, acc, j) /\ (acc.edited = {} => acc.net = k)
  <2>1. SUFFICES ASSUME NEW row \in Rows(Roads), NEW acc, acc = OnRails(k, s, row)
                 PROVE  \E j \in Nat : Grown(k, s, acc, j) /\ (acc.edited = {} => acc.net = k)
    BY <1>3
  <2>2. PICK j \in Nat : /\ j <= MaxRow /\ row \in [1 .. j -> Roads]
                         /\ \A x, y \in 1 .. j : row[x] = row[y] => x = y
    BY RowsAre
  <2>3. j <= Cardinality(FreeRoads(k))
    BY <1>4, <1>7, <2>2, RailAssumption
  <2> HIDE DEF Roads
  <2>4. row \in [1 .. j -> {r \in RoadIds : Laid(k, r) /\ s \notin Ends(k, r)}]
    BY <1>8, <2>2
  <2>5. /\ Grown(k, s, acc, j)
        /\ j = 0 => acc = [net |-> k, edited |-> {}]
        /\ j # 0 => acc.edited # {}
    BY <1>4, <1>6, <2>1, <2>2, <2>3, <2>4, OnRailsGrow
  <2> QED BY <2>5
<1> HIDE DEF new, snapped
<1>10. CASE \E acc \in snapped : acc.edited # {} /\ m = Merge(acc.net, acc.edited)
  <2>1. PICK acc \in snapped : acc.edited # {} /\ m = Merge(acc.net, acc.edited)
    BY <1>10
  <2>2. PICK j \in Nat : Grown(k, s, acc, j)
    BY <1>9
  <2>3. Whole(m) /\ Grouped(m) /\ m.of = k.of /\ m.served = k.served
    BY <1>6, <1>7, <2>1, <2>2, GrownWhole
  <2> QED BY <1>4, <2>3
<1>11. CASE \E acc \in snapped : acc.edited = {} /\ \E row \in Rows(Near(u)) : m = ToStations(acc.net, s, row)
  <2>1. PICK acc \in snapped, row \in Rows(Near(u)) : acc.edited = {} /\ m = ToStations(acc.net, s, row)
    BY <1>11
  <2>2. acc.net = k
    BY <1>9, <2>1
  <2>3. PICK j \in Nat : j <= MaxRow /\ row \in [1 .. j -> Near(u)]
    BY RowsAre
  <2>4. j <= Cardinality(FreeRoads(k))
    BY <1>4, <1>7, <2>3, RailAssumption
  <2>5. row \in [1 .. j -> UnitIds \ {u}]
    BY <2>3 DEF Near, OfType
  <2>6. PICK a : a = Reached(k, s, row)
    OBVIOUS
  <2>7. Grown(k, s, a, j)
    BY <1>4, <2>4, <2>5, <2>6, ReachedGrows
  <2>8. m = IF a.edited = {} THEN Join(a.net, NewCluster(a.net), s) ELSE Merge(a.net, a.edited)
    BY <2>1, <2>2, <2>6, ToStationsIs
  <2>9. Whole(m) /\ Grouped(m) /\ m.of = k.of /\ m.served = k.served
    BY <1>6, <1>7, <2>7, <2>8, GrownWhole
  <2> QED BY <1>4, <2>9
<1> QED BY <1>1, <1>10, <1>11

-----------------------------------------------------------------------------
(* A station goes. *)

TornEq(h, n, R) ==
    h = [I \in SUBSET R |-> IF I = {} THEN n ELSE LET r == CHOOSE r \in I : TRUE IN Tear(h[I \ {r}], r)]
Torn(n, R) == (CHOOSE h : TornEq(h, n, R))[R]

\* Whatever railroads are torn up one by one.
LEMMA TornWhole ==
    ASSUME NEW n, Whole(n), NEW R \in SUBSET RoadIds, \A r \in R : Laid(n, r), NEW m, m = Torn(n, R)
    PROVE  /\ Whole(m) /\ Recabled(n, m)
           /\ \A t \in StationIds : m.station[t].roads = n.station[t].roads \ R
<1> DEFINE Q(I, k) == /\ Whole(k) /\ Recabled(n, k)
                      /\ \A t \in StationIds : k.station[t].roads = n.station[t].roads \ I
                      /\ \A r \in R \ I : k.road[r] = n.road[r]
           P == {p \in (SUBSET R) \X NetType : Q(p[1], p[2])}
           ch == Chooser(R)
           g == [p \in (SUBSET R) \X NetType |-> Tear(p[2], ch[p[1]])]
<1>1. IsFiniteSet(R) /\ \A I \in SUBSET R : I # {} => ch[I] \in I
  BY Ids, FS_Subset, ChooserChooses
<1>2. Q({}, n)
  BY DEF Recabled
<1>3. ASSUME NEW I \in SUBSET R, I # {}, NEW k, Q(I \ {ch[I]}, k) PROVE Q(I, Tear(k, ch[I]))
  <2> DEFINE x == ch[I]
             j == Tear(k, x)
  <2>1. x \in I /\ x \in RoadIds /\ x \in R \ (I \ {x})
    BY <1>1, <1>3
  <2>2. Laid(k, x)
    BY <1>3, <2>1 DEF Laid
  <2>3. /\ Whole(j) /\ Recabled(k, j) /\ j.road = [k.road EXCEPT ![x] = NoRoad]
        /\ \A t \in StationIds : j.station[t].roads = k.station[t].roads \ {x}
    BY <1>3, <2>1, <2>2, TearWhole
  <2> HIDE DEF x, j
  <2>4. Recabled(n, j)
    BY <1>3, <2>3 DEF Recabled
  <2>5. ASSUME NEW r \in R \ I PROVE j.road[r] = n.road[r]
    <3>1. r # x /\ r \in R \ (I \ {x}) /\ r \in RoadIds
      BY <2>1
    <3>2. k.road \in [RoadIds -> (StationIds \cup {NoId}) \X (StationIds \cup {NoId})]
      BY <1>3, NetFields DEF Whole
    <3>3. k.road[r] = n.road[r]
      BY <1>3, <3>1 DEF x
    <3> QED BY <2>3, <3>1, <3>2, <3>3
  <2>6. \A t \in StationIds : j.station[t].roads = n.station[t].roads \ I
    <3>1. \A t \in StationIds : k.station[t].roads = n.station[t].roads \ (I \ {x})
      BY <1>3 DEF x
    <3> QED BY <2>1, <2>3, <3>1
  <2> QED BY <2>3, <2>4, <2>5, <2>6 DEF x, j
<1> HIDE DEF Q
<1>4. \A I, k : Q(I, k) => k \in NetType
  BY DEF Q, Whole
<1>5. Folds(R, P, n, ch, g)
  <2>1. <<{}, n>> \in P
    BY <1>2, <1>4
  <2>2. ASSUME NEW I \in SUBSET R, NEW k, I # {}, <<I \ {ch[I]}, k>> \in P PROVE <<I, g[<<I, k>>]>> \in P
    <3>1. k \in NetType /\ Q(I \ {ch[I]}, k)
      BY <2>2
    <3>2. Q(I, Tear(k, ch[I]))
      BY <1>3, <2>2, <3>1
    <3>3. g[<<I, k>>] = Tear(k, ch[I])
      BY <3>1
    <3> QED BY <1>4, <3>2, <3>3
  <2> HIDE DEF P, ch, g
  <2> QED BY <1>1, <2>1, <2>2 DEF Folds
<1>6. PICK h : Computes(h, R, n, ch, g) /\ \A I \in SUBSET R : <<I, h[I]>> \in P
  <2> HIDE DEF P, ch, g
  <2> QED BY <1>5, FoldExists
<1>7. TornEq(h, n, R)
  <2>1. \A I \in SUBSET R : I # {} => g[<<I, h[I \ {ch[I]}]>>] = Tear(h[I \ {ch[I]}], ch[I])
    BY <1>6
  <2>2. \A I \in SUBSET R : ch[I] = CHOOSE x \in I : TRUE
    BY DEF Chooser
  <2> HIDE DEF ch, g
  <2>3. h = [I \in SUBSET R |-> IF I = {} THEN n ELSE Tear(h[I \ {ch[I]}], ch[I])]
    BY <1>6, <2>1 DEF Computes
  <2> QED BY <2>2, <2>3 DEF TornEq
<1>8. PICK f : f = (CHOOSE k : TornEq(k, n, R)) /\ TornEq(f, n, R)
  BY <1>7
<1>9. /\ f[{}] = n
      /\ \A I \in SUBSET R : I # {} => f[I] = Tear(f[I \ {ch[I]}], ch[I])
  BY <1>8 DEF TornEq, Chooser
<1>10. Unfolds(f, R, P, n, ch, g)
  <2>1. \A I \in SUBSET R : I # {} /\ <<I \ {ch[I]}, f[I \ {ch[I]}]>> \in P
                               => f[I] = g[<<I, f[I \ {ch[I]}]>>]
    BY <1>9
  <2> HIDE DEF P, ch, g
  <2> QED BY <1>9, <2>1 DEF Unfolds
<1>11. <<R, f[R]>> \in P
  <2> HIDE DEF P, ch, g
  <2> QED BY <1>5, <1>10, FoldIs
<1>12. m = f[R]
  BY <1>8 DEF Torn
<1> QED BY <1>11, <1>12 DEF Q

LEMMA RemoveFirstKeeps ==
    ASSUME NEW S, NEW q \in Seq(S), NEW e
    PROVE  RemoveFirst(q, e) \in Seq(S)
<1> DEFINE I == {i \in 1 .. Len(q) : q[i] = e}
<1>1. CASE I = {}
  BY <1>1 DEF RemoveFirst
<1>2. CASE I # {}
  <2>1. Min(I) \in I
    <3>0. I \subseteq Nat /\ I # {}
      BY <1>2
    <3> HIDE DEF I
    <3>1. LeastOf(I) \in I
      BY <3>0, LeastIsIn
    <3> QED BY <3>1 DEF LeastOf, Min
  <2>2. RemoveFirst(q, e) = SubSeq(q, 1, Min(I) - 1) \o SubSeq(q, Min(I) + 1, Len(q))
    BY <1>2 DEF RemoveFirst, RemoveAt, SelectInSeq
  <2>3. PICK i \in 1 .. Len(q) : i = Min(I)
    BY <2>1
  <2>4. SubSeq(q, 1, i - 1) \in Seq(S) /\ SubSeq(q, i + 1, Len(q)) \in Seq(S)
    <3>1. /\ i \in Int /\ i - 1 \in Int /\ i + 1 \in Int /\ Len(q) \in Int
          /\ \A k \in 1 .. i - 1 : q[k] \in S
          /\ \A k \in i + 1 .. Len(q) : q[k] \in S
      OBVIOUS
    <3> QED BY <3>1, SubSeqProperties
  <2>5. SubSeq(q, 1, i - 1) \o SubSeq(q, i + 1, Len(q)) \in Seq(S)
    BY <2>4, ConcatProperties
  <2> QED BY <2>2, <2>3, <2>5
<1> QED BY <1>1, <1>2

Left(n, u) ==
    [Torn(n, n.station[n.of[u]].roads) EXCEPT
        !.station = [t \in StationIds |->
                        IF t = n.of[u] THEN NoStation
                        ELSE IF t \in {x \in StationIds \ {n.of[u]} : n.station[x].unit = u}
                             THEN [@[t] EXCEPT !.unit = Lost] ELSE @[t]],
        !.of[u] = NoId]
Quit(n, s, c) == [n EXCEPT !.members[c] = @ \ {s}]
Noted(n, c) == [n EXCEPT !.dirty = IF n.members[c] = {} THEN RemoveFirst(@, c)
                                    ELSE IF c \in Range(@) THEN @ ELSE Append(@, c)]
LEMMA WithoutIs ==
    ASSUME NEW n, NEW u, n.of[u] # NoId, n.station[n.of[u]].cluster # NoId
    PROVE  WithoutStation(n, u) =
              Noted(Quit(Left(n, u), n.of[u], n.station[n.of[u]].cluster), n.station[n.of[u]].cluster)
<1>1. Torn(n, n.station[n.of[u]].roads) = FoldSet(LAMBDA r, m : Tear(m, r), n, n.station[n.of[u]].roads)
  BY DEF FoldSet, MapThenFoldSet, TornEq, Torn
<1>2. Left(n, u) =
        [FoldSet(LAMBDA r, m : Tear(m, r), n, n.station[n.of[u]].roads) EXCEPT
            !.station = [t \in StationIds |->
                        IF t = n.of[u] THEN NoStation
                        ELSE IF t \in {x \in StationIds \ {n.of[u]} : n.station[x].unit = u}
                             THEN [@[t] EXCEPT !.unit = Lost] ELSE @[t]],
            !.of[u] = NoId]
  BY <1>1 DEF Left
<1> QED BY <1>2 DEF WithoutStation, Noted, Quit

LEMMA LeftFields ==
    ASSUME NEW n, Whole(n), NEW u \in UnitIds, NEW s \in StationIds, s = n.of[u], NEW m, m = Left(n, u)
    PROVE  /\ m \in NetType
           /\ m.station[s] = NoStation
           /\ \A t \in StationIds : t # s =>
                 /\ m.station[t].unit = IF n.station[t].unit = u THEN Lost ELSE n.station[t].unit
                 /\ m.station[t].cluster = n.station[t].cluster
           /\ m.of = [n.of EXCEPT ![u] = NoId]
           /\ m.members = n.members /\ m.dirty = n.dirty /\ m.served = n.served
           /\ RoadsEnd(m) /\ RoadsListed(m) /\ NeighboursMeet(m) /\ FreeAreBlank(m)
<1> DEFINE cut == Torn(n, n.station[n.of[u]].roads)
           Where(t) == IF t = s THEN NoStation
                    ELSE IF n.station[t].unit = u THEN [cut.station[t] EXCEPT !.unit = Lost]
                    ELSE cut.station[t]
           stations == [t \in StationIds |-> Where(t)]
<1>1. n \in NetType /\ n.station[s].unit = u
  BY Ids DEF Whole, UnitsAreFound
<1>2. n.station[s].roads \in SUBSET RoadIds /\ \A r \in n.station[s].roads : Laid(n, r)
  BY <1>1, NetFields DEF Whole, RoadsListed
<1>3. PICK k : k = cut
  OBVIOUS
<1>4. /\ Whole(k) /\ Recabled(n, k)
      /\ \A t \in StationIds : k.station[t].roads = n.station[t].roads \ n.station[s].roads
  BY <1>2, <1>3, TornWhole
<1>5. k \in NetType /\ k.station[s].roads = {}
  BY <1>4 DEF Whole
<1>6. /\ DOMAIN k = {"station", "of", "road", "members", "dirty", "served"}
      /\ k.station \in [StationIds -> StationType] /\ k.of \in [UnitIds -> StationIds \cup {NoId}]
  BY <1>5, NetFields
<1>7. m = [k EXCEPT !.station = stations, !.of[u] = NoId]
  <2>1. \A t \in StationIds : t \in {x \in StationIds \ {n.of[u]} : n.station[x].unit = u}
                              <=> t # s /\ n.station[t].unit = u
    OBVIOUS
  <2>2. stations = [t \in StationIds |->
                      IF t = n.of[u] THEN NoStation
                      ELSE IF t \in {x \in StationIds \ {n.of[u]} : n.station[x].unit = u}
                           THEN [k.station[t] EXCEPT !.unit = Lost] ELSE k.station[t]]
    BY <1>3, <2>1
  <2> QED BY <1>3, <2>2 DEF Left
<1> HIDE DEF cut
<1>8. NoStation \in StationType
  BY DEF NoStation, StationType
<1>9. \A t \in StationIds : Where(t) \in StationType
  BY <1>3, <1>6, <1>8 DEF StationType
<1>10. ASSUME NEW t \in StationIds, t # s
       PROVE  /\ Where(t).unit = IF n.station[t].unit = u THEN Lost ELSE n.station[t].unit
              /\ Where(t).cluster = n.station[t].cluster
              /\ Where(t).roads = k.station[t].roads /\ Where(t).via = k.station[t].via
              /\ n.station[t].unit # u => Where(t) = k.station[t]
  <2>1. k.station[t] \in StationType /\ k.station[t].unit = n.station[t].unit
        /\ k.station[t].cluster = n.station[t].cluster
    BY <1>4, <1>6 DEF Recabled
  <2> QED BY <1>3, <1>10, <2>1 DEF StationType
<1>11. Where(s) = NoStation
  OBVIOUS
<1>12. \A t \in StationIds : stations[t] = Where(t)
  OBVIOUS
<1> HIDE DEF Where
<1>13. stations \in [StationIds -> StationType]
  BY <1>9
<1> HIDE DEF stations
<1>14. /\ m.station = stations /\ m.of = [k.of EXCEPT ![u] = NoId] /\ m.road = k.road
       /\ m.members = k.members /\ m.dirty = k.dirty /\ m.served = k.served
       /\ m = [station |-> m.station, of |-> m.of, road |-> m.road, members |-> m.members,
               dirty |-> m.dirty, served |-> m.served]
  BY <1>6, <1>7
<1>15. m.of \in [UnitIds -> StationIds \cup {NoId}]
  BY <1>6, <1>14
<1>16. m \in NetType
  BY <1>5, <1>13, <1>14, <1>15, NetFields, MakesNet
<1>17. m.station[s] = NoStation /\ m.station[s].roads = {} /\ \A t \in StationIds : m.station[s].via[t] = NoId
  BY <1>11, <1>12, <1>14 DEF NoStation
<1>18. \A t \in StationIds : m.station[t].roads = k.station[t].roads
  BY <1>5, <1>10, <1>12, <1>14, <1>17
<1>19. \A t \in StationIds : k.station[s].via[t] = NoId /\ k.station[t].via[s] = NoId
  BY <1>4, <1>5 DEF Whole, NeighboursMeet
<1>20. \A t, v \in StationIds : m.station[t].via[v] = k.station[t].via[v]
  BY <1>10, <1>12, <1>14, <1>17, <1>19
<1>21. \A r \in RoadIds : (Laid(m, r) <=> Laid(k, r)) /\ Ends(m, r) = Ends(k, r)
  BY <1>14 DEF Laid, Ends
<1>22. RoadsEnd(m)
  <2>1. SUFFICES ASSUME NEW x \in RoadIds, Laid(m, x)
                 PROVE  /\ m.road[x][1] \in StationIds /\ m.road[x][2] \in StationIds
                        /\ m.road[x][1] # m.road[x][2]
                        /\ \A t \in Ends(m, x) : x \in m.station[t].roads
    BY DEF RoadsEnd
  <2>2. /\ k.road[x][1] \in StationIds /\ k.road[x][2] \in StationIds
        /\ k.road[x][1] # k.road[x][2]
        /\ \A t \in Ends(k, x) : x \in k.station[t].roads
    BY <1>4, <1>21, <2>1 DEF Whole, RoadsEnd
  <2>3. Ends(k, x) \subseteq StationIds
    BY <2>2 DEF Ends
  <2> QED BY <1>14, <1>18, <1>21, <2>2, <2>3
<1>23. RoadsListed(m)
  <2>1. SUFFICES ASSUME NEW t \in StationIds, NEW x \in m.station[t].roads
                 PROVE  Laid(m, x) /\ t \in Ends(m, x)
    BY DEF RoadsListed
  <2>2. x \in k.station[t].roads /\ x \in RoadIds
    BY <1>5, <1>18, NetFields
  <2> QED BY <1>4, <1>21, <2>2 DEF Whole, RoadsListed
<1>24. NeighboursMeet(m)
  BY <1>4, <1>18, <1>20 DEF Whole, NeighboursMeet
<1>25. \A t \in StationIds : t # s =>
          /\ m.station[t].unit = IF n.station[t].unit = u THEN Lost ELSE n.station[t].unit
          /\ m.station[t].cluster = n.station[t].cluster
          /\ n.station[t].unit # u => m.station[t] = k.station[t]
  BY <1>10, <1>12, <1>14
<1>26. FreeAreBlank(m)
  <2>1. SUFFICES ASSUME NEW t \in StationIds, ~Stands(m, t), t # s PROVE m.station[t] = NoStation
    BY <1>17 DEF FreeAreBlank
  <2>2. n.station[t].unit # u /\ m.station[t] = k.station[t]
    BY <1>25, <2>1, Ids DEF Stands
  <2>3. ~Stands(k, t)
    BY <2>1, <2>2 DEF Stands
  <2> QED BY <1>4, <2>2, <2>3 DEF Whole, FreeAreBlank
<1>27. m.of = [n.of EXCEPT ![u] = NoId] /\ m.members = n.members /\ m.dirty = n.dirty /\ m.served = n.served
  BY <1>4, <1>14 DEF Recabled
<1> QED BY <1>16, <1>17, <1>22, <1>23, <1>24, <1>25, <1>26, <1>27

\* Only the members of clusters, or the list of dirty ones, differ.
LEMMA SameStations ==
    ASSUME NEW n \in NetType, NEW m \in NetType, m.station = n.station, m.road = n.road, m.of = n.of,
           RoadsEnd(n), RoadsListed(n), NeighboursMeet(n), FreeAreBlank(n)
    PROVE  RoadsEnd(m) /\ RoadsListed(m) /\ NeighboursMeet(m) /\ FreeAreBlank(m)
<1>1. \A r \in RoadIds : (Laid(m, r) <=> Laid(n, r)) /\ Ends(m, r) = Ends(n, r)
  BY DEF Laid, Ends
<1>2. RoadsEnd(m)
  BY <1>1 DEF RoadsEnd
<1>3. RoadsListed(m)
  <2>1. SUFFICES ASSUME NEW t \in StationIds, NEW x \in m.station[t].roads
                 PROVE  Laid(m, x) /\ t \in Ends(m, x)
    BY DEF RoadsListed
  <2>2. x \in n.station[t].roads /\ x \in RoadIds
    BY NetFields
  <2> QED BY <1>1, <2>2 DEF RoadsListed
<1>4. NeighboursMeet(m) /\ FreeAreBlank(m)
  BY DEF NeighboursMeet, FreeAreBlank, Stands
<1> QED BY <1>2, <1>3, <1>4

LEMMA MarkFields ==
    ASSUME NEW n \in NetType, NEW s \in StationIds, NEW c \in ClusterIds, NEW m, m = Noted(Quit(n, s, c), c)
    PROVE  /\ m \in NetType /\ m.station = n.station /\ m.road = n.road /\ m.of = n.of
           /\ m.served = n.served /\ m.members = [n.members EXCEPT ![c] = n.members[c] \ {s}]
<1> DEFINE k == Quit(n, s, c)
<1>1. /\ DOMAIN n = {"station", "of", "road", "members", "dirty", "served"}
      /\ n.members \in [ClusterIds -> SUBSET StationIds] /\ n.dirty \in Seq(ClusterIds)
  BY NetFields
<1>2. /\ k.station = n.station /\ k.road = n.road /\ k.of = n.of /\ k.served = n.served
      /\ k.dirty = n.dirty /\ k.members = [n.members EXCEPT ![c] = n.members[c] \ {s}]
      /\ DOMAIN k = DOMAIN n
  BY <1>1 DEF Quit
<1>3. k = [station |-> k.station, of |-> k.of, road |-> k.road, members |-> k.members,
           dirty |-> k.dirty, served |-> k.served]
  <2>1. k = [n EXCEPT !.members = [n.members EXCEPT ![c] = n.members[c] \ {s}]]
    BY <1>1 DEF Quit
  <2> HIDE DEF k
  <2> QED BY <1>1, <2>1
<1> HIDE DEF k
<1>4. k.members \in [ClusterIds -> SUBSET StationIds]
  BY <1>1, <1>2
<1>5. m = Noted(k, c)
  BY DEF k
<1>6. /\ m.station = k.station /\ m.road = k.road /\ m.of = k.of /\ m.served = k.served
      /\ m.members = k.members
      /\ m.dirty = IF k.members[c] = {} THEN RemoveFirst(k.dirty, c)
                   ELSE IF c \in Range(k.dirty) THEN k.dirty ELSE Append(k.dirty, c)
      /\ m = [station |-> m.station, of |-> m.of, road |-> m.road, members |-> m.members,
              dirty |-> m.dirty, served |-> m.served]
  BY <1>1, <1>2, <1>3, <1>5 DEF Noted
<1>7. m.dirty \in Seq(ClusterIds)
  BY <1>1, <1>2, <1>6, RemoveFirstKeeps
<1>8. m \in NetType
  <2>1. /\ m.station \in [StationIds -> StationType] /\ m.of \in [UnitIds -> StationIds \cup {NoId}]
        /\ m.road \in [RoadIds -> (StationIds \cup {NoId}) \X (StationIds \cup {NoId})]
        /\ m.members \in [ClusterIds -> SUBSET StationIds] /\ m.served \in SUBSET UnitIds
    BY <1>2, <1>4, <1>6, NetFields
  <2> QED BY <1>6, <1>7, <2>1, MakesNet
<1> QED BY <1>2, <1>6, <1>8

\* A station that goes takes its railroads with it, and nothing names it.
LEMMA WithoutWhole ==
    ASSUME NEW n, Whole(n), Grouped(n), NEW u \in UnitIds, NEW m, m = WithoutStation(n, u)
    PROVE  /\ Whole(m) /\ Grouped(m) /\ m.served = n.served
           /\ m.of = [n.of EXCEPT ![u] = NoId]
<1>0. n \in NetType /\ n.of \in [UnitIds -> StationIds \cup {NoId}]
  BY NetFields DEF Whole
<1>1. CASE n.of[u] = NoId
  <2>1. m = n
    BY <1>1 DEF WithoutStation
  <2> QED BY <1>0, <1>1, <2>1
<1>2. CASE n.of[u] # NoId
  <2> DEFINE s == n.of[u]
             c == n.station[s].cluster
             left == Left(n, u)
  <2>1. s \in StationIds /\ n.station[s].unit = u /\ Stands(n, s)
    BY <1>0, <1>2, Ids DEF Whole, UnitsAreFound, Stands
  <2>2. c \in ClusterIds
    BY <1>0, <2>1, NetFields DEF Grouped
  <2>3. m = Noted(Quit(left, s, c), c)
    BY <1>2, <2>2, WithoutIs, Ids
  <2> HIDE DEF s, c
  <2>4. s = n.of[u] /\ left = Left(n, u)
    BY DEF s
  <2> HIDE DEF left
  <2>5. /\ left \in NetType
        /\ left.station[s] = NoStation
        /\ \A t \in StationIds : t # s =>
              /\ left.station[t].unit = IF n.station[t].unit = u THEN Lost ELSE n.station[t].unit
              /\ left.station[t].cluster = n.station[t].cluster
        /\ left.of = [n.of EXCEPT ![u] = NoId]
        /\ left.members = n.members /\ left.dirty = n.dirty /\ left.served = n.served
        /\ RoadsEnd(left) /\ RoadsListed(left) /\ NeighboursMeet(left) /\ FreeAreBlank(left)
    BY <2>1, <2>4, LeftFields
  <2>6. /\ m \in NetType /\ m.station = left.station /\ m.road = left.road /\ m.of = left.of
        /\ m.served = left.served /\ m.members = [left.members EXCEPT ![c] = left.members[c] \ {s}]
    BY <2>1, <2>2, <2>3, <2>5, MarkFields
  <2>7. RoadsEnd(m) /\ RoadsListed(m) /\ NeighboursMeet(m) /\ FreeAreBlank(m)
    BY <2>5, <2>6, SameStations
  <2>8. MembersBelong(m)
    <3>1. SUFFICES ASSUME NEW d \in ClusterIds, NEW t \in m.members[d]
                   PROVE  Stands(m, t) /\ m.station[t].cluster = d
      BY DEF MembersBelong
    <3>2. n.members \in [ClusterIds -> SUBSET StationIds]
      BY <1>0, NetFields
    <3>3. t \in n.members[d] /\ t \in StationIds /\ (d = c => t # s)
      BY <2>2, <2>5, <2>6, <3>2
    <3>4. Stands(n, t) /\ n.station[t].cluster = d
      BY <3>3 DEF Whole, MembersBelong
    <3>5. t # s
      BY <3>3, <3>4 DEF c
    <3> QED BY <2>5, <2>6, <3>3, <3>4, <3>5, Ids DEF Stands
  <2>9. UnitsAreFound(m)
    <3>1. SUFFICES ASSUME NEW v \in UnitIds, m.of[v] # NoId PROVE m.station[m.of[v]].unit = v
      BY DEF UnitsAreFound
    <3>2. v # u /\ m.of[v] = n.of[v] /\ n.of[v] \in StationIds
      BY <1>0, <2>5, <2>6, <3>1
    <3>3. n.station[n.of[v]].unit = v
      BY <3>1, <3>2 DEF Whole, UnitsAreFound
    <3>4. n.of[v] # s
      BY <2>1, <3>2, <3>3
    <3> QED BY <2>5, <2>6, <3>2, <3>3, <3>4
  <2>10. Grouped(m)
    <3>1. SUFFICES ASSUME NEW t \in StationIds, Stands(m, t) PROVE m.station[t].cluster # NoId
      BY DEF Grouped
    <3>2. t # s
      BY <2>5, <2>6, <3>1 DEF Stands, NoStation
    <3>3. Stands(n, t)
      BY <2>5, <2>6, <3>1, <3>2, Ids DEF Stands
    <3> QED BY <2>5, <2>6, <3>2, <3>3 DEF Grouped
  <2> QED BY <2>5, <2>6, <2>7, <2>8, <2>9, <2>10 DEF Whole
<1> QED BY <1>1, <1>2

ClearedEq(h, n, G) ==
    h = [I \in SUBSET G |-> IF I = {} THEN n
                            ELSE LET u == CHOOSE u \in I : TRUE IN WithoutStation(h[I \ {u}], u)]
Cleared(n, G) == (CHOOSE h : ClearedEq(h, n, G))[G]

\* Whatever units go in one step.
LEMMA ClearedWhole ==
    ASSUME NEW n, Whole(n), Grouped(n), NEW G \in SUBSET UnitIds, NEW m, m = Cleared(n, G)
    PROVE  /\ Whole(m) /\ Grouped(m) /\ m.served = n.served
           /\ m.of = [u \in UnitIds |-> IF u \in G THEN NoId ELSE n.of[u]]
<1> DEFINE Q(I, k) == /\ Whole(k) /\ Grouped(k) /\ k.served = n.served
                      /\ k.of = [u \in UnitIds |-> IF u \in I THEN NoId ELSE n.of[u]]
           P == {p \in (SUBSET G) \X NetType : Q(p[1], p[2])}
           ch == Chooser(G)
           g == [p \in (SUBSET G) \X NetType |-> WithoutStation(p[2], ch[p[1]])]
<1>1. IsFiniteSet(G) /\ \A I \in SUBSET G : I # {} => ch[I] \in I
  <2>1. IsFiniteSet(UnitIds)
    BY ArsenalAssumption
  <2> QED BY <2>1, FS_Subset, ChooserChooses
<1>2. Q({}, n)
  <2>1. n.of \in [UnitIds -> StationIds \cup {NoId}]
    BY NetFields DEF Whole
  <2> QED BY <2>1
<1>3. ASSUME NEW I \in SUBSET G, I # {}, NEW k, Q(I \ {ch[I]}, k) PROVE Q(I, WithoutStation(k, ch[I]))
  <2> DEFINE x == ch[I]
             j == WithoutStation(k, x)
  <2>1. x \in I /\ x \in UnitIds
    BY <1>1, <1>3
  <2>2. /\ Whole(j) /\ Grouped(j) /\ j.served = k.served /\ j.of = [k.of EXCEPT ![x] = NoId]
    BY <1>3, <2>1, WithoutWhole
  <2>3. k.of = [u \in UnitIds |-> IF u \in I \ {x} THEN NoId ELSE n.of[u]] /\ k.served = n.served
    BY <1>3
  <2> HIDE DEF x, j
  <2>4. j.of = [u \in UnitIds |-> IF u \in I THEN NoId ELSE n.of[u]]
    BY <2>1, <2>2, <2>3
  <2> QED BY <2>2, <2>3, <2>4 DEF x, j
<1> HIDE DEF Q
<1>4. \A I, k : Q(I, k) => k \in NetType
  BY DEF Q, Whole
<1>5. Folds(G, P, n, ch, g)
  <2>1. <<{}, n>> \in P
    BY <1>2, <1>4
  <2>2. ASSUME NEW I \in SUBSET G, NEW k, I # {}, <<I \ {ch[I]}, k>> \in P PROVE <<I, g[<<I, k>>]>> \in P
    <3>1. k \in NetType /\ Q(I \ {ch[I]}, k)
      BY <2>2
    <3>2. Q(I, WithoutStation(k, ch[I]))
      BY <1>3, <2>2, <3>1
    <3>3. g[<<I, k>>] = WithoutStation(k, ch[I])
      BY <3>1
    <3> QED BY <1>4, <3>2, <3>3
  <2> HIDE DEF P, ch, g
  <2> QED BY <1>1, <2>1, <2>2 DEF Folds
<1>6. PICK h : Computes(h, G, n, ch, g) /\ \A I \in SUBSET G : <<I, h[I]>> \in P
  <2> HIDE DEF P, ch, g
  <2> QED BY <1>5, FoldExists
<1>7. ClearedEq(h, n, G)
  <2>1. \A I \in SUBSET G : I # {} => g[<<I, h[I \ {ch[I]}]>>] = WithoutStation(h[I \ {ch[I]}], ch[I])
    BY <1>6
  <2>2. \A I \in SUBSET G : ch[I] = CHOOSE x \in I : TRUE
    BY DEF Chooser
  <2> HIDE DEF ch, g
  <2>3. h = [I \in SUBSET G |-> IF I = {} THEN n ELSE WithoutStation(h[I \ {ch[I]}], ch[I])]
    BY <1>6, <2>1 DEF Computes
  <2> QED BY <2>2, <2>3 DEF ClearedEq
<1>8. PICK f : f = (CHOOSE k : ClearedEq(k, n, G)) /\ ClearedEq(f, n, G)
  BY <1>7
<1>9. /\ f[{}] = n
      /\ \A I \in SUBSET G : I # {} => f[I] = WithoutStation(f[I \ {ch[I]}], ch[I])
  BY <1>8 DEF ClearedEq, Chooser
<1>10. Unfolds(f, G, P, n, ch, g)
  <2>1. \A I \in SUBSET G : I # {} /\ <<I \ {ch[I]}, f[I \ {ch[I]}]>> \in P
                               => f[I] = g[<<I, f[I \ {ch[I]}]>>]
    BY <1>9
  <2> HIDE DEF P, ch, g
  <2> QED BY <1>9, <2>1 DEF Unfolds
<1>11. <<G, f[G]>> \in P
  <2> HIDE DEF P, ch, g
  <2> QED BY <1>5, <1>10, FoldIs
<1>12. m = f[G]
  BY <1>8 DEF Cleared
<1> QED BY <1>11, <1>12 DEF Q

LEMMA ServedFields ==
    ASSUME NEW n, Whole(n), Grouped(n), NEW S \in SUBSET UnitIds, NEW m, m = [n EXCEPT !.served = S]
    PROVE  Whole(m) /\ Grouped(m) /\ m.served = S /\ m.of = n.of
<1>1. n \in NetType
  BY DEF Whole
<1>2. DOMAIN n = {"station", "of", "road", "members", "dirty", "served"}
  BY <1>1, NetFields
<1>3. /\ m.station = n.station /\ m.road = n.road /\ m.of = n.of /\ m.members = n.members
      /\ m.dirty = n.dirty /\ m.served = S
      /\ m = [station |-> m.station, of |-> m.of, road |-> m.road, members |-> m.members,
              dirty |-> m.dirty, served |-> m.served]
  BY <1>2
<1>4. m \in NetType
  BY <1>1, <1>3, NetFields, MakesNet
<1>5. RoadsEnd(m) /\ RoadsListed(m) /\ NeighboursMeet(m) /\ FreeAreBlank(m)
  BY <1>1, <1>3, <1>4, SameStations DEF Whole
<1>6. MembersBelong(m) /\ UnitsAreFound(m) /\ Grouped(m)
  BY <1>3 DEF Whole, MembersBelong, UnitsAreFound, Grouped, Stands
<1> QED BY <1>3, <1>4, <1>5, <1>6 DEF Whole

LEMMA PrunedWhole ==
    ASSUME Whole(net), Grouped(net), NEW m, m = Pruned
    PROVE  /\ Whole(m) /\ Grouped(m)
           /\ m.served = {u \in net.served : unit'[u].type # "none"}
           /\ \A u \in UnitIds : m.of[u] = IF u \in net.served /\ unit'[u].type = "none"
                                           THEN NoId ELSE net.of[u]
<1> DEFINE gone == {u \in net.served : unit'[u].type = "none"}
<1>1. PICK k : k = Cleared(net, gone)
  OBVIOUS
<1>2. net.served \in SUBSET UnitIds
  BY NetFields DEF Whole
<1>3. gone \in SUBSET UnitIds
  BY <1>2
<1>4. Cleared(net, gone) = FoldSet(LAMBDA u, n : WithoutStation(n, u), net, gone)
  BY DEF FoldSet, MapThenFoldSet, ClearedEq, Cleared
<1>5. m = [k EXCEPT !.served = k.served \ gone]
  BY <1>1, <1>4 DEF Pruned
<1> HIDE DEF gone
<1>6. /\ Whole(k) /\ Grouped(k) /\ k.served = net.served
      /\ k.of = [u \in UnitIds |-> IF u \in gone THEN NoId ELSE net.of[u]]
  BY <1>1, <1>3, ClearedWhole
<1>7. net.served \ gone \in SUBSET UnitIds
  BY <1>2
<1>8. Whole(m) /\ Grouped(m) /\ m.served = net.served \ gone /\ m.of = k.of
  <2>1. m = [k EXCEPT !.served = net.served \ gone]
    BY <1>5, <1>6
  <2> QED BY <1>6, <1>7, <2>1, ServedFields
<1> QED BY <1>6, <1>8 DEF gone

-----------------------------------------------------------------------------
(* What is linked. *)

\* The first k iterates of a function that stays in D.
LEMMA IterateExists ==
    ASSUME NEW k \in Nat, NEW D, NEW b \in D, NEW step \in [D -> D]
    PROVE  \E h : /\ h = [i \in 0 .. k |-> IF i = 0 THEN b ELSE step[h[i - 1]]]
                  /\ \A i \in 0 .. k : h[i] \in D
<1> DEFINE Sofar(h, j) == \A i \in 0 .. j : h[i] = (IF i = 0 THEN b ELSE step[h[i - 1]]) /\ h[i] \in D
           N == {j \in Nat : \E h : Sofar(h, j)}
<1>1. 0 \in N
  <2>1. Sofar([i \in 0 .. 0 |-> b], 0)
    OBVIOUS
  <2> HIDE DEF Sofar
  <2> QED BY <2>1
<1>2. ASSUME NEW j \in Nat, j \in N PROVE j + 1 \in N
  <2>1. PICK h : Sofar(h, j)
    BY <1>2
  <2> DEFINE f == [i \in 0 .. j + 1 |-> IF i = j + 1 THEN step[h[j]] ELSE h[i]]
  <2>2. ASSUME NEW i \in 0 .. j + 1
        PROVE  f[i] = (IF i = 0 THEN b ELSE step[f[i - 1]]) /\ f[i] \in D
    <3>1. CASE i = j + 1
      <4>1. i # 0 /\ i - 1 = j /\ j \in 0 .. j + 1 /\ j # j + 1 /\ j \in 0 .. j
        BY <3>1
      <4>2. f[i] = step[h[j]] /\ f[i - 1] = h[j] /\ h[j] \in D
        BY <2>1, <3>1, <4>1
      <4> QED BY <4>1, <4>2
    <3>2. CASE i # j + 1
      <4>1. i \in 0 .. j /\ f[i] = h[i]
        BY <3>2
      <4>2. i # 0 => i - 1 \in 0 .. j /\ f[i - 1] = h[i - 1]
        BY <4>1
      <4> QED BY <2>1, <4>1, <4>2
    <3> QED BY <3>1, <3>2
  <2> HIDE DEF f
  <2>3. Sofar(f, j + 1)
    BY <2>2
  <2> HIDE DEF Sofar
  <2> QED BY <2>3
<1> HIDE DEF N
<1>3. k \in N
  BY <1>1, <1>2, NatSets
<1>4. PICK h : Sofar(h, k)
  BY <1>3 DEF N
<1> DEFINE f == [i \in 0 .. k |-> h[i]]
<1>5. ASSUME NEW i \in 0 .. k PROVE f[i] = (IF i = 0 THEN b ELSE step[f[i - 1]]) /\ f[i] \in D
  <2>1. i # 0 => i - 1 \in 0 .. k /\ f[i - 1] = h[i - 1]
    OBVIOUS
  <2> QED BY <1>4, <2>1
<1>6. f = [i \in 0 .. k |-> IF i = 0 THEN b ELSE step[f[i - 1]]]
  <2>1. f = [i \in 0 .. k |-> f[i]]
    OBVIOUS
  <2> HIDE DEF f
  <2> QED BY <1>5, <2>1
<1> QED BY <1>5, <1>6

WithinEq(h, n, s, k) ==
    h = [i \in 0 .. k |-> IF i = 0 THEN {s} ELSE h[i - 1] \cup UNION {Beside(n, x) : x \in h[i - 1]}]
Present(n) == {t \in StationIds : Stands(n, t)}

LEMMA BesideStand ==
    ASSUME NEW n, Whole(n), NEW x \in StationIds
    PROVE  Beside(n, x) \subseteq Present(n)
<1>1. SUFFICES ASSUME NEW r \in n.station[x].roads, NEW t \in Ends(n, r) PROVE t \in Present(n)
  BY DEF Beside, Ends
<1>2. Laid(n, r) /\ r \in RoadIds
  BY NetFields DEF Whole, RoadsListed
<1>3. t \in StationIds /\ r \in n.station[t].roads
  BY <1>2 DEF Whole, RoadsEnd, Ends
<1>4. Stands(n, t)
  BY <1>3 DEF Whole, FreeAreBlank, NoStation
<1> QED BY <1>3, <1>4 DEF Present

\* From a station railroads lead only to stations.
LEMMA WithinStand ==
    ASSUME NEW n, Whole(n), NEW s \in Present(n), NEW k \in Nat
    PROVE  Within(n, s, k) \in SUBSET Present(n)
<1> DEFINE D == SUBSET Present(n)
           step == [S \in D |-> S \cup UNION {Beside(n, x) : x \in S}]
<1>1. \A S \in D : S \cup UNION {Beside(n, x) : x \in S} \in D
  BY BesideStand DEF Present
<1>2. step \in [D -> D] /\ {s} \in D
  BY <1>1
<1>3. PICK h : /\ h = [i \in 0 .. k |-> IF i = 0 THEN {s} ELSE step[h[i - 1]]]
               /\ \A i \in 0 .. k : h[i] \in D
  <2> HIDE DEF D, step
  <2> QED BY <1>2, IterateExists
<1>4. WithinEq(h, n, s, k)
  <2>1. \A i \in 0 .. k : i # 0 => step[h[i - 1]] = h[i - 1] \cup UNION {Beside(n, x) : x \in h[i - 1]}
    <3>1. \A i \in 0 .. k : i # 0 => i - 1 \in 0 .. k
      OBVIOUS
    <3>2. \A i \in 0 .. k : i # 0 => h[i - 1] \in D
      BY <1>3, <3>1
    <3> QED BY <3>2
  <2> HIDE DEF step
  <2> QED BY <1>3, <2>1 DEF WithinEq
<1>5. PICK f : f = (CHOOSE g : WithinEq(g, n, s, k)) /\ WithinEq(f, n, s, k)
  BY <1>4
<1> DEFINE N == {j \in Nat : j <= k => f[j] \in D}
<1>6. 0 \in N
  <2>1. 0 \in 0 .. k
    OBVIOUS
  <2>2. f[0] = {s}
    BY <1>5, <2>1 DEF WithinEq
  <2> QED BY <1>2, <2>2
<1>7. ASSUME NEW j \in Nat, j \in N PROVE j + 1 \in N
  <2>1. SUFFICES ASSUME j + 1 <= k PROVE f[j + 1] \in D
    OBVIOUS
  <2>2. f[j] \in D
    BY <1>7, <2>1
  <2>3. j + 1 \in 0 .. k /\ j + 1 # 0 /\ (j + 1) - 1 = j
    BY <2>1
  <2>4. f[j + 1] = f[j] \cup UNION {Beside(n, x) : x \in f[j]}
    BY <1>5, <2>3 DEF WithinEq
  <2> QED BY <1>1, <2>2, <2>4
<1> HIDE DEF N
<1>8. k \in N
  BY <1>6, <1>7, NatSets
<1>9. f[k] \in D
  BY <1>8 DEF N
<1>10. Within(n, s, k) = (CHOOSE g : WithinEq(g, n, s, k))[k]
  BY DEF Within, WithinEq
<1> QED BY <1>5, <1>9, <1>10

LEMMA LinkedStand ==
    ASSUME NEW n, Whole(n), NEW c \in ClusterIds, NEW s \in n.members[c]
    PROVE  Linked(n, s) \in SUBSET Present(n)
<1>1. s \in StationIds /\ Stands(n, s)
  BY NetFields DEF Whole, MembersBelong
<1>2. Cardinality(StationIds) \in Nat
  BY Ids, FS_CardinalityType
<1>3. s \in Present(n)
  BY <1>1 DEF Present
<1> QED BY <1>2, <1>3, WithinStand DEF Linked

-----------------------------------------------------------------------------
(* Clusters are recomputed. *)

\* A cluster of its own is left for every part.
LEMMA ClustersAreLeft ==
    ASSUME NEW n, Whole(n), n.dirty = <<>>
    PROVE  FreeClusters(n) # {}
<1> DEFINE f == [t \in StationIds |-> n.station[t].cluster]
           T == {f[t] : t \in StationIds}
<1>1. SUFFICES ASSUME FreeClusters(n) = {} PROVE FALSE
  OBVIOUS
<1>2. \A c \in ClusterIds : c \notin Range(n.dirty)
  BY DEF Range
<1>3. ASSUME NEW c \in ClusterIds PROVE \E t \in StationIds : n.station[t].cluster = c
  <2>1. CASE n.members[c] # {}
    <3>1. PICK t \in n.members[c] : TRUE
      BY <2>1
    <3>2. t \in StationIds /\ n.station[t].cluster = c
      BY NetFields DEF Whole, MembersBelong
    <3> QED BY <3>2
  <2>2. CASE n.members[c] = {}
    BY <1>1, <1>2, <2>2 DEF FreeClusters
  <2> QED BY <2>1, <2>2
<1>4. ClusterIds \subseteq T
  BY <1>3
<1>5. f \in Surjection(StationIds, T)
  BY DEF Surjection
<1> HIDE DEF f, T
<1>6. IsFiniteSet(T) /\ Cardinality(T) <= Cardinality(StationIds)
  BY <1>5, Ids, FS_Surjection
<1>7. Cardinality(ClusterIds) <= Cardinality(T)
  BY <1>4, <1>6, FS_Subset
<1>8. /\ Cardinality(ClusterIds) \in Nat /\ Cardinality(T) \in Nat /\ Cardinality(StationIds) \in Nat
      /\ Cardinality(ClusterIds) > Cardinality(StationIds)
  BY <1>6, Ids, RailAssumption, FS_CardinalityType
<1> QED BY <1>6, <1>7, <1>8

SplitEq(h, n, R) ==
    h = [I \in SUBSET R |-> IF I = {} THEN n
                            ELSE LET p == CHOOSE p \in I : TRUE
                                 IN  JoinAll(h[I \ {p}], NewCluster(h[I \ {p}]), p)]
Split(n, R) == (CHOOSE h : SplitEq(h, n, R))[R]

\* Parts of the network may be given clusters of their own, one by one.
LEMMA SplitWhole ==
    ASSUME NEW n, Whole(n), Grouped(n), n.dirty = <<>>, NEW R \in SUBSET (SUBSET Present(n)),
           NEW m, m = Split(n, R)
    PROVE  Whole(m) /\ Grouped(m) /\ Regrouped(n, m)
<1> DEFINE Q(I, k) == Whole(k) /\ Grouped(k) /\ Regrouped(n, k)
           P == {p \in (SUBSET R) \X NetType : Q(p[1], p[2])}
           ch == Chooser(R)
           g == [p \in (SUBSET R) \X NetType |-> JoinAll(p[2], NewCluster(p[2]), ch[p[1]])]
<1>1. IsFiniteSet(R) /\ \A I \in SUBSET R : I # {} => ch[I] \in I
  <2>1. IsFiniteSet(SUBSET StationIds)
    BY Ids, FS_SUBSET
  <2>2. R \in SUBSET (SUBSET StationIds)
    BY DEF Present
  <2> QED BY <2>1, <2>2, FS_Subset, ChooserChooses
<1>2. Q({}, n)
  BY DEF Regrouped
<1>3. ASSUME NEW I \in SUBSET R, I # {}, NEW k, Q(I \ {ch[I]}, k)
      PROVE  Q(I, JoinAll(k, NewCluster(k), ch[I]))
  <2> DEFINE x == ch[I]
             c == NewCluster(k)
             j == JoinAll(k, c, x)
  <2>1. x \in SUBSET Present(n)
    BY <1>1, <1>3
  <2>2. k.dirty = <<>>
    BY <1>3 DEF Regrouped
  <2>3. c \in ClusterIds
    <3>1. Whole(k)
      BY <1>3
    <3>2. FreeClusters(k) # {}
      BY <2>2, <3>1, ClustersAreLeft
    <3>3. NewCluster(k) \in FreeClusters(k)
      BY <3>2, NewIds
    <3> QED BY <3>3 DEF FreeClusters
  <2>4. x \in SUBSET StationIds /\ \A t \in x : Stands(k, t)
    BY <1>3, <2>1 DEF Present, Regrouped, Stands
  <2> HIDE DEF x, c
  <2>5. j = JoinAll(k, c, x)
    OBVIOUS
  <2> HIDE DEF j
  <2>6. /\ Whole(j) /\ Regrouped(k, j)
        /\ \A t \in StationIds : j.station[t].cluster = IF t \in x THEN c ELSE k.station[t].cluster
    BY <1>3, <2>3, <2>4, <2>5, JoinAllWhole
  <2>7. Regrouped(n, j)
    BY <1>3, <2>6 DEF Regrouped
  <2>8. Grouped(j)
    <3>1. SUFFICES ASSUME NEW t \in StationIds, Stands(j, t) PROVE j.station[t].cluster # NoId
      BY DEF Grouped
    <3>2. Stands(k, t)
      BY <2>6, <3>1 DEF Regrouped, Stands
    <3>3. k.station[t].cluster # NoId
      BY <1>3, <3>2 DEF Grouped
    <3> QED BY <2>3, <2>6, <3>3, Ids
  <2> QED BY <2>6, <2>7, <2>8 DEF x, j, c
<1> HIDE DEF Q
<1>4. \A I, k : Q(I, k) => k \in NetType
  BY DEF Q, Whole
<1>5. Folds(R, P, n, ch, g)
  <2>1. <<{}, n>> \in P
    BY <1>2, <1>4
  <2>2. ASSUME NEW I \in SUBSET R, NEW k, I # {}, <<I \ {ch[I]}, k>> \in P PROVE <<I, g[<<I, k>>]>> \in P
    <3>1. k \in NetType /\ Q(I \ {ch[I]}, k)
      BY <2>2
    <3>2. Q(I, JoinAll(k, NewCluster(k), ch[I]))
      BY <1>3, <2>2, <3>1
    <3>3. g[<<I, k>>] = JoinAll(k, NewCluster(k), ch[I])
      BY <3>1
    <3>4. JoinAll(k, NewCluster(k), ch[I]) \in NetType
      BY <1>4, <3>2
    <3> HIDE DEF g, ch
    <3> QED BY <3>2, <3>3, <3>4
  <2> HIDE DEF P, ch, g
  <2> QED BY <1>1, <2>1, <2>2 DEF Folds
<1>6. PICK h : Computes(h, R, n, ch, g) /\ \A I \in SUBSET R : <<I, h[I]>> \in P
  <2> HIDE DEF P, ch, g
  <2> QED BY <1>5, FoldExists
<1>7. SplitEq(h, n, R)
  <2>1. \A I \in SUBSET R :
           I # {} => g[<<I, h[I \ {ch[I]}]>>] = JoinAll(h[I \ {ch[I]}], NewCluster(h[I \ {ch[I]}]), ch[I])
    BY <1>6
  <2>2. \A I \in SUBSET R : ch[I] = CHOOSE x \in I : TRUE
    BY DEF Chooser
  <2> HIDE DEF ch, g
  <2>3. h = [I \in SUBSET R |-> IF I = {} THEN n
                                ELSE JoinAll(h[I \ {ch[I]}], NewCluster(h[I \ {ch[I]}]), ch[I])]
    BY <1>6, <2>1 DEF Computes
  <2> QED BY <2>2, <2>3 DEF SplitEq
<1>8. PICK f : f = (CHOOSE k : SplitEq(k, n, R)) /\ SplitEq(f, n, R)
  BY <1>7
<1>9. /\ f[{}] = n
      /\ \A I \in SUBSET R :
            I # {} => f[I] = JoinAll(f[I \ {ch[I]}], NewCluster(f[I \ {ch[I]}]), ch[I])
  BY <1>8 DEF SplitEq, Chooser
<1>10. Unfolds(f, R, P, n, ch, g)
  <2>1. \A I \in SUBSET R : I # {} /\ <<I \ {ch[I]}, f[I \ {ch[I]}]>> \in P
                               => f[I] = g[<<I, f[I \ {ch[I]}]>>]
    BY <1>9
  <2> HIDE DEF P, ch, g
  <2> QED BY <1>9, <2>1 DEF Unfolds
<1>11. <<R, f[R]>> \in P
  <2> HIDE DEF P, ch, g
  <2> QED BY <1>5, <1>10, FoldIs
<1>12. m = f[R]
  BY <1>8 DEF Split
<1> QED BY <1>11, <1>12 DEF Q

LEMMA PartedWhole ==
    ASSUME NEW n, Whole(n), Grouped(n), n.dirty = <<>>, NEW c \in ClusterIds, NEW m \in Parted(n, c)
    PROVE  Whole(m) /\ Grouped(m) /\ Regrouped(n, m)
<1> DEFINE parts == {Linked(n, s) : s \in n.members[c]}
<1>1. CASE parts = {}
  <2>1. m = n
    BY <1>1 DEF Parted
  <2> QED BY <2>1 DEF Regrouped
<1>2. CASE parts # {}
  <2>1. Parted(n, c) = {FoldSet(LAMBDA part, k : JoinAll(k, NewCluster(k), part), n, parts \ {last}) :
                           last \in parts}
    BY <1>2 DEF Parted
  <2>2. \A R : Split(n, R) = FoldSet(LAMBDA part, k : JoinAll(k, NewCluster(k), part), n, R)
    BY DEF FoldSet, MapThenFoldSet, SplitEq, Split
  <2>3. \A last \in parts :
           Split(n, parts \ {last}) = FoldSet(LAMBDA part, k : JoinAll(k, NewCluster(k), part), n, parts \ {last})
    BY <2>2
  <2>4. PICK last \in parts : m = Split(n, parts \ {last})
    BY <2>1, <2>3
  <2>5. parts \ {last} \in SUBSET (SUBSET Present(n))
    BY LinkedStand
  <2> HIDE DEF parts
  <2> QED BY <2>4, <2>5, SplitWhole
<1> QED BY <1>1, <1>2

LEMMA CleanFields ==
    ASSUME NEW n, Whole(n), Grouped(n), NEW m, m = [n EXCEPT !.dirty = <<>>]
    PROVE  Whole(m) /\ Grouped(m) /\ m.dirty = <<>> /\ m.of = n.of /\ m.served = n.served
<1>1. n \in NetType
  BY DEF Whole
<1>2. DOMAIN n = {"station", "of", "road", "members", "dirty", "served"}
  BY <1>1, NetFields
<1>3. /\ m.station = n.station /\ m.road = n.road /\ m.of = n.of /\ m.members = n.members
      /\ m.dirty = <<>> /\ m.served = n.served
      /\ m = [station |-> m.station, of |-> m.of, road |-> m.road, members |-> m.members,
              dirty |-> m.dirty, served |-> m.served]
  BY <1>2
<1>4. m.dirty \in Seq(ClusterIds)
  BY <1>3
<1>5. m \in NetType
  BY <1>1, <1>3, <1>4, NetFields, MakesNet
<1>6. RoadsEnd(m) /\ RoadsListed(m) /\ NeighboursMeet(m) /\ FreeAreBlank(m)
  BY <1>1, <1>3, <1>5, SameStations DEF Whole
<1>7. MembersBelong(m) /\ UnitsAreFound(m) /\ Grouped(m)
  BY <1>3 DEF Whole, MembersBelong, UnitsAreFound, Grouped, Stands
<1> QED BY <1>3, <1>5, <1>6, <1>7 DEF Whole

Parting(N, c) == UNION {Parted(m, c) : m \in N}
PartEq(h, n) ==
    h = [I \in SUBSET (DOMAIN n.dirty) |->
           IF I = {} THEN {[n EXCEPT !.dirty = <<>>]}
           ELSE LET i == Max(I) IN Parting(h[I \ {i}], n.dirty[i])]
LEMMA RecomputedIs == \A n : Recomputed(n) = (CHOOSE h : PartEq(h, n))[DOMAIN n.dirty]
  BY DEF Recomputed, FoldLeft, MapThenFoldSet, PartEq, Parting

\* Whatever the clusters of the network are cut into.
LEMMA RecomputedWhole ==
    ASSUME NEW n, Whole(n), Grouped(n), NEW m \in Recomputed(n)
    PROVE  Whole(m) /\ Grouped(m) /\ m.of = n.of /\ m.served = n.served
<1> DEFINE k == Len(n.dirty)
           S == 1 .. k
           clean == [n EXCEPT !.dirty = <<>>]
           start == {clean}
           Q(I, N) == \A x \in N : Whole(x) /\ Grouped(x) /\ Regrouped(clean, x)
           P == {p \in (SUBSET S) \X (SUBSET NetType) : Q(p[1], p[2])}
           ch == Latest(k)
           g == [p \in (SUBSET S) \X (SUBSET NetType) |->
                    Parting(p[2], n.dirty[ch[p[1]]])]
<1>0. n.dirty \in Seq(ClusterIds)
  BY NetFields DEF Whole
<1>1. k \in Nat /\ DOMAIN n.dirty = S /\ \A i \in S : n.dirty[i] \in ClusterIds
  BY <1>0
<1>2. Whole(clean) /\ Grouped(clean) /\ clean.dirty = <<>> /\ clean.of = n.of /\ clean.served = n.served
  BY CleanFields
<1> HIDE DEF clean, k
<1>3. IsFiniteSet(S) /\ \A I \in SUBSET S : I # {} => ch[I] \in I
  BY <1>1, PartsOf, MaxIsIn DEF Latest
<1>4. Q({}, start)
  BY <1>2 DEF Regrouped
<1>5. ASSUME NEW I \in SUBSET S, I # {}, NEW N, Q(I \ {ch[I]}, N)
      PROVE  Q(I, Parting(N, n.dirty[ch[I]]))
  <2>1. SUFFICES ASSUME NEW x \in N, NEW y \in Parted(x, n.dirty[ch[I]])
                 PROVE  Whole(y) /\ Grouped(y) /\ Regrouped(clean, y)
    BY DEF Parting
  <2>2. PICK c : c = n.dirty[ch[I]] /\ c \in ClusterIds
    BY <1>1, <1>3, <1>5
  <2>3. Whole(x) /\ Grouped(x) /\ Regrouped(clean, x)
    BY <1>5
  <2>4. x.dirty = <<>> /\ y \in Parted(x, c)
    BY <1>2, <2>2, <2>3 DEF Regrouped
  <2>5. Whole(y) /\ Grouped(y) /\ Regrouped(x, y)
    BY <2>2, <2>3, <2>4, PartedWhole
  <2>6. Regrouped(clean, y)
    BY <2>3, <2>5 DEF Regrouped
  <2> QED BY <2>5, <2>6
<1>6. \A I, N : Q(I, N) => N \in SUBSET NetType
  BY DEF Whole
<1> HIDE DEF Q
<1>7. Folds(S, P, start, ch, g)
  <2>1. <<{}, start>> \in P
    BY <1>4, <1>6
  <2>2. ASSUME NEW I \in SUBSET S, NEW N, I # {}, <<I \ {ch[I]}, N>> \in P PROVE <<I, g[<<I, N>>]>> \in P
    <3>1. N \in SUBSET NetType /\ Q(I \ {ch[I]}, N)
      BY <2>2
    <3>2. Q(I, Parting(N, n.dirty[ch[I]]))
      BY <1>5, <2>2, <3>1
    <3>3. g[<<I, N>>] = Parting(N, n.dirty[ch[I]])
      BY <3>1
    <3>4. Parting(N, n.dirty[ch[I]]) \in SUBSET NetType
      BY <1>6, <3>2
    <3> HIDE DEF g, ch
    <3> QED BY <3>2, <3>3, <3>4
  <2> HIDE DEF P, ch, g, S, start
  <2> QED BY <1>3, <2>1, <2>2 DEF Folds
<1>8. PICK h : Computes(h, S, start, ch, g) /\ \A I \in SUBSET S : <<I, h[I]>> \in P
  <2> HIDE DEF P, ch, g, S, start
  <2> QED BY <1>7, FoldExists
<1>9. PartEq(h, n)
  <2>1. \A I \in SUBSET S :
           I # {} => g[<<I, h[I \ {ch[I]}]>>] = Parting(h[I \ {ch[I]}], n.dirty[ch[I]])
    BY <1>8
  <2>2. \A I \in SUBSET S : ch[I] = Max(I)
    BY DEF Latest
  <2>3. S = DOMAIN n.dirty
    BY <1>1
  <2> HIDE DEF ch, g, S
  <2>4. h = [I \in SUBSET S |-> IF I = {} THEN start
                                ELSE Parting(h[I \ {ch[I]}], n.dirty[ch[I]])]
    BY <1>8, <2>1 DEF Computes
  <2> QED BY <2>2, <2>3, <2>4 DEF PartEq, clean
<1>10. PICK f : f = (CHOOSE h1 : PartEq(h1, n)) /\ PartEq(f, n)
  BY <1>9
<1>11. /\ f[{}] = start
       /\ \A I \in SUBSET S : I # {} => f[I] = Parting(f[I \ {ch[I]}], n.dirty[ch[I]])
  BY <1>1, <1>10 DEF PartEq, Latest, clean
<1>12. Unfolds(f, S, P, start, ch, g)
  <2>1. \A I \in SUBSET S : I # {} /\ <<I \ {ch[I]}, f[I \ {ch[I]}]>> \in P
                               => f[I] = g[<<I, f[I \ {ch[I]}]>>]
    BY <1>11
  <2> HIDE DEF P, ch, g, S, start
  <2> QED BY <1>11, <2>1 DEF Unfolds
<1>13. <<S, f[S]>> \in P
  <2> HIDE DEF P, ch, g, S, start
  <2> QED BY <1>7, <1>12, FoldIs
<1>14. Recomputed(n) = f[S]
  BY <1>1, <1>10, RecomputedIs
<1>15. Q(S, Recomputed(n))
  BY <1>13, <1>14
<1>16. Whole(m) /\ Grouped(m) /\ Regrouped(clean, m)
  BY <1>15 DEF Q
<1> QED BY <1>2, <1>16 DEF Regrouped

-----------------------------------------------------------------------------
(* Every step. *)

LEMMA ServeNet ==
    ASSUME Whole(net), Grouped(net), NEW S, S \subseteq UnitIds, net' = [net EXCEPT !.served = @ \cup S]
    PROVE  Whole(net') /\ Grouped(net') /\ net'.served = net.served \cup S /\ net'.of = net.of
<1>1. net.served \cup S \in SUBSET UnitIds
  BY NetFields DEF Whole
<1> QED BY <1>1, ServedFields

LEMMA NetStep ==
    ASSUME TypeOK, Loop, Names, RailNext, Whole(net), Grouped(net)
    PROVE  Whole(net') /\ Grouped(net')
<1>1. CASE net' = Pruned
  BY <1>1, PrunedWhole
<1>2. CASE net' = net
  BY <1>2
<1>3. CASE CityTurn \/ PortJoins \/ FactoryTurn
  <2>1. PICK k \in {"city", "port", "factory"} : Turn(k)
    BY <1>3 DEF CityTurn, PortJoins, FactoryTurn
  <2>2. unit' = unit
    BY <1>3 DEF CityTurn, PortJoins, FactoryTurn, Gone
  <2>3. Me.unit \in UnitIds
    BY <2>1, <2>2, RailTurn
  <2>4. net' = net \/ \E S \in SUBSET UnitIds : net' = [net EXCEPT !.served = @ \cup S]
    <3>1. CASE CityTurn \/ PortJoins
      BY <2>3, <3>1 DEF CityTurn, PortJoins, Serve, NotServed
    <3>2. CASE FactoryTurn /\ Exists(Me.unit) /\ Me.left = 0
      <4>1. PICK row : Range(row) = Unserved(Me.unit) /\ net' = [net EXCEPT !.served = @ \cup ({Me.unit} \cup Range(row))]
        BY <3>2 DEF FactoryTurn, Gone, Serve
      <4>2. Unserved(Me.unit) \subseteq UnitIds
        BY DEF Unserved, Near, OfType
      <4> QED BY <2>3, <4>1, <4>2
    <3>3. CASE FactoryTurn /\ ~(Exists(Me.unit) /\ Me.left = 0)
      BY <3>3 DEF FactoryTurn, NotServed
    <3> QED BY <1>3, <3>1, <3>2, <3>3
  <2> QED BY <2>4, ServeNet
<1>4. CASE StationTurn /\ net' # net
  <2>1. /\ Turn("station") /\ unit' = unit /\ Me.station = NoId /\ HasIds(net)
        /\ net' \in Connected(net, NewStation(net), Me.unit)
    BY <1>4 DEF StationTurn, Gone
  <2>2. Me.unit \in UnitIds
    BY <2>1, RailTurn
  <2>3. NewStation(net) \in StationIds /\ ~Stands(net, NewStation(net))
    BY <2>1, NewIds DEF HasIds, FreeStations
  <2>4. FreeClusters(net) # {} /\ Cardinality(FreeRoads(net)) >= MaxRow
    BY <2>1 DEF HasIds
  <2> QED BY <2>1, <2>2, <2>3, <2>4, ConnectedWhole
<1>5. CASE RecomputeTurn
  BY <1>5, RecomputedWhole DEF RecomputeTurn
<1>6. CASE InitStation \/ InitTrain \/ TrainTurn
  <2>1. net' = net
    BY <1>6 DEF InitStation, InitTrain, TrainTurn
  <2> QED BY <2>1
<1> QED BY <1>1, <1>2, <1>3, <1>4, <1>5, <1>6 DEF RailNext, RailEngine

LEMMA NoNetWhole == Whole(NoNet) /\ Grouped(NoNet)
<1>1. NoStation \in StationType
  BY DEF NoStation, StationType
<1>2. NoNet \in NetType
  BY <1>1 DEF NoNet, NetType, NoRoad
<1>3. /\ NoStation.unit = NoUnitId /\ NoStation.roads = {}
      /\ \A t \in StationIds : NoStation.via[t] = NoId
  BY DEF NoStation
<1>4. /\ \A s \in StationIds : NoNet.station[s] = NoStation
      /\ \A r \in RoadIds : NoNet.road[r] = NoRoad
      /\ \A c \in ClusterIds : NoNet.members[c] = {}
      /\ \A u \in UnitIds : NoNet.of[u] = NoId
  BY DEF NoNet
<1> HIDE DEF NoNet, NoStation
<1>5. RoadsEnd(NoNet) /\ RoadsListed(NoNet) /\ NeighboursMeet(NoNet) /\ FreeAreBlank(NoNet)
  BY <1>3, <1>4 DEF RoadsEnd, RoadsListed, NeighboursMeet, FreeAreBlank, Laid
<1>6. MembersBelong(NoNet) /\ UnitsAreFound(NoNet) /\ Grouped(NoNet)
  BY <1>3, <1>4 DEF MembersBelong, UnitsAreFound, Grouped, Stands
<1> QED BY <1>2, <1>5, <1>6 DEF Whole

LEMMA NetHolds == Spec => [](Whole(net) /\ Grouped(net))
<1> DEFINE Inv == Whole(net) /\ Grouped(net)
<1>1. RailInit => Inv
  BY NoNetWhole DEF RailInit
<1>2. Base /\ Inv /\ [RailNext]_railVars => Inv'
  <2>1. ASSUME Base, Inv, RailNext PROVE Inv'
    BY <2>1, NetStep DEF Base
  <2>2. ASSUME Inv, UNCHANGED railVars PROVE Inv'
    <3>1. net' = net
      BY <2>2 DEF railVars
    <3> QED BY <2>2, <3>1
  <2> QED BY <2>1, <2>2
<1> QED BY <1>1, <1>2, BaseHolds, PTL DEF Spec

\* Whatever is built, snapped onto, torn up, merged and cut in two, the five indexes of the railways
\* are of one graph: its railroads are listed at their two ends, the ends find each other by one of
\* them, a cluster's stations say so, and a unit's station is that of the unit.
THEOREM NetworkIsSoundHolds == Spec => []NetworkIsSound
<1>1. ASSUME Whole(net) PROVE NetworkIsSound
  <2>1. \A r \in Tracks : /\ net.road[r][1] # net.road[r][2]
                          /\ \A s \in StationIds : r \in net.station[s].roads <=>
                                s \in {net.road[r][1], net.road[r][2]} /\ Stands(net, s)
    <3>1. SUFFICES ASSUME NEW r \in Tracks, NEW s \in StationIds
                   PROVE  /\ net.road[r][1] # net.road[r][2]
                          /\ r \in net.station[s].roads <=>
                                s \in {net.road[r][1], net.road[r][2]} /\ Stands(net, s)
      BY Ids, <1>1 DEF Whole, RoadsEnd, Tracks, Laid
    <3>2. r \in RoadIds /\ Laid(net, r)
      BY DEF Tracks, Laid
    <3>3. ASSUME r \in net.station[s].roads PROVE s \in Ends(net, r) /\ Stands(net, s)
      BY <1>1, <3>3 DEF Whole, RoadsListed, FreeAreBlank, NoStation
    <3>4. /\ net.road[r][1] # net.road[r][2]
          /\ \A t \in Ends(net, r) : r \in net.station[t].roads
      BY <1>1, <3>2 DEF Whole, RoadsEnd
    <3> QED BY <3>3, <3>4 DEF Ends
  <2>2. \A s \in StationIds : net.station[s].roads \subseteq Tracks
    BY <1>1, NetFields DEF Whole, RoadsListed, Tracks, Laid
  <2>3. \A s, t \in StationIds : LET r == net.station[s].via[t] IN
          /\ r = net.station[t].via[s]
          /\ r # NoId => r \in net.station[s].roads \cap net.station[t].roads
    BY <1>1 DEF Whole, NeighboursMeet
  <2>4. /\ \A c \in ClusterIds : \A s \in net.members[c] :
              Stands(net, s) /\ net.station[s].cluster = c
        /\ \A u \in UnitIds : net.of[u] # NoId => net.station[net.of[u]].unit = u
    BY <1>1 DEF Whole, MembersBelong, UnitsAreFound
  <2> QED BY <2>1, <2>2, <2>3, <2>4 DEF NetworkIsSound
<1> QED BY <1>1, NetHolds, PTL

-----------------------------------------------------------------------------
(* Who is served. *)

Makers == {"city", "factory"}
\* A city or a factory makes its stations in its first turn, and then no more.
FirstTurns == /\ \A j \in Range(uninit) :
                    j.kind \in Makers => "left" \in DOMAIN j /\ j.left = 0
              /\ \A j \in Range(execs) :
                    j.kind \in Makers => "left" \in DOMAIN j /\ j.left \in {0, 1}
Over(k, u) == \E j \in Range(execs) : j.kind = k /\ j.unit = u /\ j.left = 1
InReach(f, u) == u = f \/ <<unit[f].tile, unit[u].tile>> \in RailRange
ServedAre == \A u \in net.served : /\ unit[u].type \in {"City", "Factory", "Port"}
                                   /\ net.of[u] # NoId \/ Awaited(u)
ReachedAreServed ==
    \A f, u \in UnitIds :
        Exists(f) /\ Exists(u) /\ InReach(f, u) /\ Over("factory", f) /\ (Over("factory", u) \/ Over("city", u))
            => u \in net.served

\* Whose turn it is has the turn of its kind.
LEMMA RailHow ==
    ASSUME Loop, Acts, NEW k \in {"city", "factory", "station"}, Turn(k), Done \/ \E j : Stay(j)
    PROVE  /\ k = "city" => CityTurn
           /\ k = "factory" => FactoryTurn
           /\ k = "station" => StationTurn
<1>1. Me.kind = k /\ phase = "turns" /\ ~(execs' = execs /\ cursor' = cursor)
  BY MyTurn, TurnEnds DEF Stay
<1>2. CASE \/ Delegate \/ Lay \/ GiveUp \/ Build \/ PostTurn \/ SiloTurn \/ SamTurn \/ PortJoins
           \/ Launch \/ Fizzle \/ NukeTurn \/ MirvLaunch \/ MirvTurn \/ DeleteTurn
           \/ TrainTurn \/ RecomputeTurn \/ PlayerTurn \/ HuntTurn
  <2> DEFINE K == {"build", "post", "silo", "sam", "port", "nuke", "mirv", "delete", "train", "recompute",
                   "player", "hunt"}
  <2>1. \E m \in K : Turn(m)
    <3>1. CASE Delegate \/ Lay \/ GiveUp \/ Build \/ PostTurn \/ SiloTurn \/ SamTurn \/ PortJoins
      BY <3>1 DEF Delegate, Lay, GiveUp, Build, PostTurn, SiloTurn, SamTurn, PortJoins
    <3>2. CASE \/ Launch \/ Fizzle \/ NukeTurn \/ MirvLaunch \/ MirvTurn \/ DeleteTurn
               \/ TrainTurn \/ RecomputeTurn \/ PlayerTurn \/ HuntTurn
      BY <3>2 DEF Launch, Fizzle, NukeTurn, MirvLaunch, MirvTurn, DeleteTurn, TrainTurn,
             RecomputeTurn, PlayerTurn, HuntTurn
    <3> QED BY <1>2, <3>1, <3>2
  <2>2. \E m \in K : Me.kind = m
    BY <2>1, MyTurn
  <2> QED BY <1>1, <2>2
<1>3. CASE CityTurn
  <2>1. Me.kind = "city"
    BY <1>3, MyTurn DEF CityTurn
  <2> QED BY <1>1, <1>3, <2>1
<1>4. CASE FactoryTurn
  <2>1. Me.kind = "factory"
    BY <1>4, MyTurn DEF FactoryTurn
  <2> QED BY <1>1, <1>4, <2>1
<1>5. CASE StationTurn
  <2>1. Me.kind = "station"
    BY <1>5, MyTurn DEF StationTurn
  <2> QED BY <1>1, <1>5, <2>1
<1>6. CASE StartTick \/ StartInits \/ EndTick
  BY <1>1, <1>6 DEF StartTick, StartInits, EndTick, OpenTick, AllHadTurns, CloseTick
<1>7. CASE InitPlain \/ InitMirv \/ InitUpgrade \/ InitDelete \/ InitStation \/ InitTrain
  BY <1>1, <1>7 DEF InitPlain, InitMirv, InitUpgrade, InitDelete, InitStation, InitTrain, DueInit
<1>8. CASE Outside
  <2>1. ASSUME NEW x, Order(x) \/ Conquer(x) \/ Ally(x) \/ Part(x) PROVE execs' = execs /\ cursor' = cursor
    BY <2>1 DEF Order, Conquer, Ally, Part
  <2> QED BY <1>1, <1>8, <2>1 DEF Outside
<1> QED BY <1>2, <1>3, <1>4, <1>5, <1>6, <1>7, <1>8 DEF Acts, Engine

\* They are initialised as they are.
LEMMA InitHow ==
    ASSUME Loop, Acts, NEW k \in {"city", "factory", "station"}, DueInit(k), NEW j, Append1(j)
    PROVE  j = New1
<1>1. execs \in Seq(Range(execs)) /\ New1.kind = k /\ phase = "inits" /\ uninit # <<>>
  BY MyInit DEF Loop
<1>2. ASSUME NEW i, Append1(i) PROVE Len(execs) \in Nat /\ Len(execs') = Len(execs) + 1 /\ execs'[Len(execs) + 1] = i
  BY <1>1, <1>2, Listed, AppendList DEF Append1
<1>3. execs' # execs
  BY <1>2
<1>4. CASE InitPlain \/ InitStation
  BY <1>2, <1>4 DEF InitPlain, InitStation
<1>5. CASE InitMirv \/ InitUpgrade \/ InitDelete \/ InitTrain
  <2>1. \E m \in {"mirv", "upgrade", "delete", "train"} : DueInit(m)
    BY <1>5 DEF InitMirv, InitUpgrade, InitDelete, InitTrain
  <2>2. \E m \in {"mirv", "upgrade", "delete", "train"} : New1.kind = m
    BY <2>1, MyInit
  <2> QED BY <1>1, <2>2
<1>6. CASE \/ Delegate \/ Lay \/ GiveUp \/ Build \/ PostTurn \/ SiloTurn \/ SamTurn \/ PortJoins \/ CityTurn
           \/ FactoryTurn \/ Launch \/ Fizzle \/ NukeTurn \/ MirvLaunch \/ MirvTurn \/ DeleteTurn
           \/ TrainTurn \/ RecomputeTurn \/ PlayerTurn \/ HuntTurn \/ StationTurn
  <2>1. \E m : Turn(m)
    <3>1. CASE \/ Delegate \/ Lay \/ GiveUp \/ Build \/ PostTurn \/ SiloTurn \/ SamTurn \/ PortJoins \/ CityTurn
               \/ FactoryTurn
      BY <3>1 DEF Delegate, Lay, GiveUp, Build, PostTurn, SiloTurn, SamTurn, PortJoins, CityTurn, FactoryTurn
    <3>2. CASE \/ Launch \/ Fizzle \/ NukeTurn \/ MirvLaunch \/ MirvTurn \/ DeleteTurn
               \/ TrainTurn \/ RecomputeTurn \/ PlayerTurn \/ HuntTurn \/ StationTurn
      BY <3>2 DEF Launch, Fizzle, NukeTurn, MirvLaunch, MirvTurn, DeleteTurn, TrainTurn,
             RecomputeTurn, PlayerTurn, HuntTurn, StationTurn
    <3> QED BY <1>6, <3>1, <3>2
  <2> QED BY <1>1, <2>1, MyTurn
<1>7. CASE StartTick \/ StartInits \/ EndTick
  BY <1>3, <1>7 DEF StartTick, StartInits, EndTick, OpenTick, AllHadTurns, CloseTick
<1>8. CASE Outside
  <2>1. ASSUME NEW x, Order(x) \/ Conquer(x) \/ Ally(x) \/ Part(x) PROVE execs' = execs
    BY <2>1 DEF Order, Conquer, Ally, Part
  <2> QED BY <1>3, <1>8, <2>1 DEF Outside
<1> QED BY <1>4, <1>5, <1>6, <1>7, <1>8 DEF Acts, Engine

\* What is added to the new executions of cities and factories has not had a turn.
LEMMA NewMakers ==
    ASSUME TypeOK, Loop, Names, Acts, NEW j \in Range(uninit'), j.kind \in Makers
    PROVE  j \in Range(uninit) \/ ("left" \in DOMAIN j /\ j.left = 0)
<1>1. uninit \in Seq(Range(uninit))
  BY DEF Loop
<1>2. CASE uninit # <<>> /\ uninit' = Tail(uninit)
  <2>1. Range(uninit) = Range(uninit') \cup {uninit[1]}
    BY <1>1, <1>2, TailList
  <2> QED BY <2>1
<1>3. ASSUME NEW js, Add(js), js \in Seq(Range(js)) PROVE j \in Range(uninit) \/ j \in Range(js)
  BY <1>1, <1>3, ConcatList DEF Add, Joined
<1>4. CASE Adds
  BY <1>3, <1>4 DEF Adds, Bystander, Makers
<1>5. ASSUME NEW i, Add(<<i>>) PROVE j \in Range(uninit) \/ j = i
  <2>1. PICK js : js = <<i>> /\ js \in Seq(Range(js)) /\ Range(js) = {i}
    BY OneJob
  <2> QED BY <1>3, <1>5, <2>1
<1>6. \A t, p, u : "left" \in DOMAIN RunnerOf(t, p, u) /\ RunnerOf(t, p, u).left = 0
  BY DEF RunnerOf, Job
<1>7. CASE Lay \/ Build
  <2>1. uninit' = uninit \/ \E t, p, u : Add(<<RunnerOf(t, p, u)>>)
    BY <1>7 DEF Lay, Build
  <2> QED BY <1>5, <1>6, <2>1
<1>8. CASE SamTurn
  <2>1. uninit' = uninit \/ \E i : Add(<<i>>) /\ i.kind \notin Makers
    <3>1. ASSUME NEW u, NEW s, NEW p, NEW n, NEW v,
                 Add(<<[Job("hunt", p) EXCEPT !.prey = u, !.from = s, !.left = n, !.victim = v]>>)
          PROVE  \E i : Add(<<i>>) /\ i.kind \notin Makers
      <4>1. PICK i : i = [Job("hunt", p) EXCEPT !.prey = u, !.from = s, !.left = n, !.victim = v]
        OBVIOUS
      <4>2. i.kind = "hunt"
        BY <4>1 DEF Job
      <4> QED BY <3>1, <4>1, <4>2 DEF Makers
    <3> QED BY <1>8, <3>1 DEF SamTurn, Gone
  <2> QED BY <1>5, <2>1
<1> QED BY <1>2, <1>4, <1>7, <1>8, Added DEF DueInit

\* None leaves the list of new executions but the first, to be initialised.
LEMMA NewKept ==
    ASSUME TypeOK, Loop, Names, Acts, NEW j \in Range(uninit)
    PROVE  j \in Range(uninit') \/ (phase = "inits" /\ j = New1)
<1>1. uninit \in Seq(Range(uninit))
  BY DEF Loop
<1>2. ASSUME uninit # <<>>, uninit' = Tail(uninit) PROVE j \in Range(uninit') \/ j = New1
  <2>1. Range(uninit) = Range(uninit') \cup {uninit[1]}
    BY <1>1, <1>2, TailList
  <2> QED BY <2>1 DEF New1
<1>3. ASSUME NEW js, Add(js), js \in Seq(Range(js)) PROVE j \in Range(uninit')
  BY <1>1, <1>3, ConcatList DEF Add, Joined
<1>4. CASE Adds
  BY <1>3, <1>4 DEF Adds
<1>5. CASE Lay \/ Build \/ SamTurn
  <2>1. ASSUME NEW i, Add(<<i>>) PROVE j \in Range(uninit')
    <3>1. PICK js : js = <<i>> /\ js \in Seq(Range(js)) /\ Range(js) = {i}
      BY OneJob
    <3> QED BY <1>3, <2>1, <3>1
  <2> QED BY <1>5, <2>1, AddsWorker
<1> QED BY <1>2, <1>4, <1>5, Added DEF DueInit

\* In a turn a city or a factory comes to have had its first, or it is as it was.
LEMMA MakersGo ==
    ASSUME Loop, FirstTurns, Acts, NEW j \in Range(execs'), j.kind \in Makers
    PROVE  /\ "left" \in DOMAIN j /\ j.left \in {0, 1}
           /\ \/ \E i \in Range(execs) : i.kind = j.kind /\ i.unit = j.unit /\ i.left = j.left
              \/ j.left = 0
              \/ /\ CityTurn \/ FactoryTurn
                 /\ Me.left = 0 /\ Exists(Me.unit) /\ Me.kind = j.kind /\ Me.unit = j.unit /\ j.left = 1
<1>1. execs \in Seq(Range(execs)) /\ uninit \in Seq(Range(uninit))
  BY DEF Loop
<1>2. ASSUME j \in Range(execs) PROVE "left" \in DOMAIN j /\ j.left \in {0, 1}
  BY <1>2 DEF FirstTurns
<1>3. ASSUME NEW k, Turn(k), Stays, j \notin Range(execs)
      PROVE  /\ CityTurn \/ FactoryTurn
             /\ Exists(Me.unit) /\ Me.kind = j.kind /\ Me.unit = j.unit /\ Me.left \in {0, 1}
             /\ j.left = 1 /\ "left" \in DOMAIN j
  <2>1. Me.kind = k /\ Me \in Range(execs) /\ JobOK(Me) /\ cursor \in 1 .. Len(execs)
    BY <1>3, MyTurn
  <2>2. ASSUME Done PROVE FALSE
    <3>1. execs' = Removed(execs, cursor)
      BY <2>2 DEF Done, Removed
    <3> QED BY <1>1, <1>3, <2>1, <3>1, RemovedList
  <2>3. ASSUME NEW i, Stay(i) PROVE j = i
    <3>1. execs' = [execs EXCEPT ![cursor] = i]
      BY <2>3 DEF Stay
    <3> QED BY <1>1, <1>3, <2>1, <3>1, ExceptList
  <2>4. \E i : Stay(i) /\ Alike(Me, i)
    BY <1>3, <2>2 DEF Stays
  <2>5. j.kind = Me.kind /\ k \in Makers
    BY <2>1, <2>3, <2>4 DEF Alike
  <2>6. CityTurn \/ FactoryTurn
    BY <1>3, <2>4, <2>5, RailHow DEF Makers
  <2>7. Exists(Me.unit) /\ Stay([Held EXCEPT !.left = 1])
    BY <2>2, <2>6 DEF CityTurn, FactoryTurn, Gone
  <2>8. j = [Held EXCEPT !.left = 1]
    BY <2>3, <2>7
  <2>9. j.unit = Me.unit
    BY <2>8 DEF Held
  <2>10. "left" \in DOMAIN Me /\ Me.left \in {0, 1}
    BY <2>1, <2>5 DEF FirstTurns
  <2>11. j.left = 1 /\ "left" \in DOMAIN j
    BY <2>8, <2>10 DEF Held
  <2> QED BY <2>5, <2>6, <2>7, <2>9, <2>10, <2>11
<1>4. ASSUME NEW k, DueInit(k), NEW i, Append1(i), Alike(New1, i), j \notin Range(execs)
      PROVE  "left" \in DOMAIN j /\ j.left = 0
  <2>1. New1.kind = k /\ New1 \in Range(uninit)
    BY <1>4, MyInit
  <2>2. j = i
    <3>1. execs' = Append(execs, i)
      BY <1>4 DEF Append1
    <3>2. Range(execs') = Range(execs) \cup {i}
      BY <1>1, <3>1, AppendList
    <3> QED BY <1>4, <3>2
  <2>3. i.kind = k
    BY <1>4, <2>1 DEF Alike
  <2>4. i = New1
    BY <1>4, <2>2, <2>3, InitHow DEF Makers
  <2> QED BY <2>1, <2>2, <2>4 DEF FirstTurns
<1>5. ASSUME NEW k, Turn(k) PROVE Me \in Range(execs)
  BY <1>5, MyTurn
<1>6. CASE j \in Range(execs)
  BY <1>2, <1>6
<1>7. CASE j \notin Range(execs)
  <2>1. \/ \E k : Turn(k) /\ Stays
        \/ \E k : DueInit(k) /\ \E i : Append1(i) /\ Alike(New1, i)
    BY <1>7, TurnOrNot
  <2>2. CASE \E k : Turn(k) /\ Stays
    BY <1>3, <1>5, <1>7, <2>2
  <2> QED BY <1>4, <1>7, <2>1, <2>2
<1> QED BY <1>6, <1>7

\* A TrainStationExecution stays until it has its turn.
LEMMA StationJobsStay ==
    ASSUME TypeOK, Loop, Names, Acts, NEW j \in Jobs, j.kind = "station"
    PROVE  j \in Jobs' \/ (StationTurn /\ Me = j)
<1>1. execs \in Seq(Range(execs))
  BY DEF Loop
<1>2. CASE j \in Range(execs)
  <2>1. ASSUME NEW k, Turn(k), Stays PROVE j \in Range(execs') \/ (StationTurn /\ Me = j)
    <3>1. PICK i \in 1 .. Len(execs) : j = execs[i]
      BY <1>1, <1>2, Listed
    <3>2. Done \/ \E m : Stay(m)
      BY <2>1 DEF Stays
    <3>3. i # cursor => j \in Range(execs')
      BY <2>1, <3>1, <3>2, TurnKept
    <3>4. CASE i = cursor
      <4>1. Me = j /\ k = "station"
        BY <2>1, <3>1, <3>4, MyTurn
      <4> QED BY <2>1, <3>2, <4>1, RailHow
    <3> QED BY <3>3, <3>4
  <2>2. ASSUME NEW i, Append1(i) PROVE j \in Range(execs')
    <3>1. execs' = Append(execs, i)
      BY <2>2 DEF Append1
    <3>2. Range(execs') = Range(execs) \cup {i}
      BY <1>1, <3>1, AppendList
    <3> QED BY <1>2, <3>2
  <2>3. CASE execs' = execs
    BY <1>2, <2>3 DEF Jobs
  <2> QED BY <2>1, <2>2, <2>3, TurnOrNot DEF Jobs
<1>3. CASE j \in Range(uninit)
  <2>1. CASE phase = "inits" /\ j = New1
    <3>1. ASSUME NEW k, Turn(k) PROVE FALSE
      BY <2>1, <3>1, MyTurn
    <3>2. ASSUME NEW k \in {"upgrade", "delete", "train"}, DueInit(k) PROVE FALSE
      BY <2>1, <3>2, MyInit
    <3>3. ASSUME NEW k, DueInit(k), NEW i, Append1(i) PROVE j \in Jobs'
      <4>1. k = "station"
        BY <2>1, <3>3, MyInit
      <4>2. i = j
        BY <2>1, <3>3, <4>1, InitHow
      <4> QED BY <3>3, <4>2, InitIsThere
    <3>4. CASE execs' = execs /\ (uninit' = uninit \/ Adds)
      <4>1. ASSUME Adds PROVE j \in Range(uninit')
        <5>1. PICK js : Add(js) /\ js \in Seq(Range(js))
          BY <4>1 DEF Adds
        <5>2. uninit \in Seq(Range(uninit)) /\ uninit' = uninit \o js
          BY <5>1 DEF Loop, Add
        <5> QED BY <1>3, <5>1, <5>2, ConcatList DEF Joined
      <4> QED BY <1>3, <3>4, <4>1 DEF Jobs
    <3> QED BY <3>1, <3>2, <3>3, <3>4, Deeds
  <2> QED BY <1>3, <2>1, NewKept DEF Jobs
<1> QED BY <1>2, <1>3 DEF Jobs

\* What an execution names is where it was and what it was, or is gone.
LEMMA NamedGoes ==
    ASSUME TypeOK, Loop, Acts, NEW u \in UnitIds, NEW j \in Jobs, j.unit = u, unit'[u].type # "none"
    PROVE  Exists(u) /\ unit'[u].type = unit[u].type /\ unit'[u].tile = unit[u].tile
<1>1. u \notin FreeIds
  BY JobsNamed
<1>2. ~Exists(u) => unit'[u] = NoUnit \/ unit'[u].type = unit[u].type
  BY <1>1, UnitsGo, InitDeleteUnits, FreshIsFree DEF Follows, Onward
<1>3. unit'[u] # NoUnit
  BY NoUnitSound
<1>4. \E F : Follows(unit[u], unit'[u], F)
  <2>1. CASE InitDelete
    BY <2>1, InitDeleteUnits DEF Onward
  <2> QED BY <1>1, <2>1, UnitsGo, FreshIsFree
<1> QED BY <1>3, <1>4 DEF Follows, Exists

\* What a new TrainStationExecution is.
LEMMA StationJobFields ==
    \A p, u, b : /\ StationJob(p, u, b).kind = "station" /\ StationJob(p, u, b).unit = u
                 /\ StationJob(p, u, b).station = NoId
  BY DEF StationJob
\* A TrainStationExecution of it is new.
Summoned(u) == \E j \in Range(uninit') : j.kind = "station" /\ j.unit = u /\ j.station = NoId

\* Who has a city, a port or a factory served has a station built.
LEMMA CityServes ==
    ASSUME Loop, CityTurn \/ PortJoins
    PROVE  \/ net' = net
           \/ /\ net' = [net EXCEPT !.served = @ \cup {Me.unit}]
              /\ Exists(Me.unit) /\ Summoned(Me.unit)
<1>1. SUFFICES ASSUME NEW p, Exists(Me.unit), Serve(<<StationJob(p, Me.unit, FALSE)>>, {Me.unit})
               PROVE  Summoned(Me.unit)
  BY DEF CityTurn, PortJoins, Serve, NotServed
<1>2. PICK j : j = StationJob(p, Me.unit, FALSE)
  OBVIOUS
<1>3. Add(<<j>>)
  BY <1>1, <1>2 DEF Serve
<1>4. j \in Range(uninit')
  BY <1>3, AddedOne
<1>5. j.kind = "station" /\ j.unit = Me.unit /\ j.station = NoId
  BY <1>2, StationJobFields
<1> QED BY <1>4, <1>5 DEF Summoned

LEMMA FactoryServes ==
    ASSUME Loop, FactoryTurn
    PROVE  \/ net' = net /\ (Exists(Me.unit) => Me.left # 0)
           \/ /\ net' = [net EXCEPT !.served = @ \cup ({Me.unit} \cup Unserved(Me.unit))]
              /\ Exists(Me.unit) /\ \A u \in {Me.unit} \cup Unserved(Me.unit) : Summoned(u)
<1>1. SUFFICES ASSUME NEW row \in SetToAllKPermutations(Unserved(Me.unit)), Exists(Me.unit),
                      Range(row) = Unserved(Me.unit),
                      Serve(<<StationJob(Held.by, Me.unit, TRUE)>> \o
                            [i \in DOMAIN row |-> StationJob(unit[row[i]].holder, row[i], FALSE)],
                            {Me.unit} \cup Range(row))
               PROVE  /\ net' = [net EXCEPT !.served = @ \cup ({Me.unit} \cup Unserved(Me.unit))]
                      /\ \A u \in {Me.unit} \cup Unserved(Me.unit) : Summoned(u)
  BY DEF FactoryTurn, Gone, NotServed
<1>2. PICK S \in SUBSET Unserved(Me.unit) : row \in SetToSeqs(S)
  BY <1>1 DEF SetToAllKPermutations
<1>3. Cardinality(S) \in Nat
  <2>1. S \subseteq UnitIds
    BY DEF Unserved, Near, OfType
  <2> QED BY <2>1, FS_Subset, FS_CardinalityType, ArsenalAssumption
<1>4. row \in [1 .. Cardinality(S) -> S]
  BY <1>2 DEF SetToSeqs
<1>5. PICK n \in Nat : DOMAIN row = 1 .. n
  BY <1>3, <1>4
<1>6. PICK rs : rs = [i \in DOMAIN row |-> StationJob(unit[row[i]].holder, row[i], FALSE)]
  OBVIOUS
<1>7. /\ DOMAIN rs = 1 .. n /\ rs = [i \in 1 .. n |-> rs[i]]
      /\ \A i \in 1 .. n : rs[i] = StationJob(unit[row[i]].holder, row[i], FALSE)
  BY <1>5, <1>6
<1>8. rs \in Seq(Range(rs))
  BY <1>7 DEF Range
<1>9. \A i \in 1 .. n : /\ rs[i] \in Range(rs) /\ rs[i].kind = "station" /\ rs[i].unit = row[i]
                        /\ rs[i].station = NoId
  <2>1. ASSUME NEW i \in 1 .. n
        PROVE  rs[i].kind = "station" /\ rs[i].unit = row[i] /\ rs[i].station = NoId
    <3>1. rs[i] = StationJob(unit[row[i]].holder, row[i], FALSE)
      BY <1>7
    <3> QED BY <3>1 DEF StationJob
  <2>2. \A i \in 1 .. n : rs[i] \in Range(rs)
    BY <1>7 DEF Range
  <2> QED BY <2>1, <2>2
<1>10. PICK j, one : j = StationJob(Held.by, Me.unit, TRUE) /\ one = <<j>>
  OBVIOUS
<1>11. one \in Seq(Range(one)) /\ Range(one) = {j}
  BY <1>10, OneJob
<1>12. j.kind = "station" /\ j.unit = Me.unit /\ j.station = NoId
  <2>1. PICK p : p = Held.by
    OBVIOUS
  <2>2. j = StationJob(p, Me.unit, TRUE)
    BY <1>10, <2>1
  <2> QED BY <2>2, StationJobFields
<1>13. PICK js : js = one \o rs
  OBVIOUS
<1>14. Joined(one, rs, js)
  BY <1>8, <1>11, <1>13, ConcatList
<1>15. js \in Seq(Range(js)) /\ Range(js) = {j} \cup Range(rs)
  BY <1>11, <1>14 DEF Joined
<1>16. uninit' = uninit \o js
  BY <1>1, <1>6, <1>10, <1>13 DEF Serve, Add
<1>17. Joined(uninit, js, uninit')
  BY <1>15, <1>16, ConcatList DEF Loop
<1>18. Range(js) \subseteq Range(uninit')
  BY <1>17 DEF Joined
<1>19. Summoned(Me.unit)
  BY <1>12, <1>15, <1>18 DEF Summoned
<1>20. ASSUME NEW u \in Unserved(Me.unit) PROVE Summoned(u)
  <2>1. PICK i \in 1 .. n : u = row[i]
    BY <1>1, <1>5 DEF Range
  <2>2. rs[i] \in Range(uninit') /\ rs[i].kind = "station" /\ rs[i].unit = u /\ rs[i].station = NoId
    BY <1>9, <1>15, <1>18, <2>1
  <2> QED BY <2>2 DEF Summoned
<1>21. net' = [net EXCEPT !.served = @ \cup ({Me.unit} \cup Unserved(Me.unit))]
  BY <1>1 DEF Serve
<1> QED BY <1>19, <1>20, <1>21

\* The kinds of structures that get a station.
Served == {"City", "Factory", "Port"}
\* What a step may do to who is served, and to the station of a unit.
LEMMA ServiceGoes ==
    ASSUME TypeOK, Loop, Names, RailNext, Whole(net), Grouped(net), NEW u \in UnitIds
    PROVE  /\ u \in net.served /\ unit'[u].type # "none" =>
                u \in net'.served /\ (net.of[u] # NoId => net'.of[u] # NoId)
           /\ u \in net'.served =>
                \/ /\ u \in net.served
                   /\ unit'[u].type # "none" \/ unit' = unit \/ InitTrain \/ TrainTurn
                   /\ net.of[u] # NoId => net'.of[u] # NoId
                \/ Summoned(u) /\ unit' = unit /\ unit[u].type \in Served
           /\ StationTurn /\ Me.unit = u /\ Exists(u) /\ Me.station = NoId => net'.of[u] # NoId
<1>1. ASSUME net' = Pruned, ~StationTurn
      PROVE  /\ u \in net.served /\ unit'[u].type # "none" =>
                  u \in net'.served /\ net'.of[u] = net.of[u]
             /\ u \in net'.served =>
                  u \in net.served /\ unit'[u].type # "none" /\ net'.of[u] = net.of[u]
  BY <1>1, PrunedWhole
<1>2. CASE net' = net /\ ~StationTurn /\ (unit' = unit \/ InitTrain \/ TrainTurn)
  BY <1>2
<1>3. CASE CityTurn \/ PortJoins \/ FactoryTurn
  <2>1. PICK k \in {"city", "port", "factory"} : Turn(k)
    BY <1>3 DEF CityTurn, PortJoins, FactoryTurn
  <2>2. unit' = unit
    BY <1>3 DEF CityTurn, PortJoins, FactoryTurn, Gone
  <2>3. Me.unit \in UnitIds /\ (Exists(Me.unit) => unit[Me.unit].type \in Served)
    BY <2>1, <2>2, RailTurn DEF Served
  <2>4. ~StationTurn
    BY <2>1, MyTurn DEF StationTurn
  <2>5. CASE net' = net
    BY <2>2, <2>4, <2>5
  <2>6. ASSUME NEW S \in SUBSET UnitIds, net' = [net EXCEPT !.served = @ \cup S],
               \A v \in S : Summoned(v) /\ unit[v].type \in Served
        PROVE  /\ net'.of = net.of /\ net'.served = net.served \cup S
               /\ u \in S => Summoned(u) /\ unit[u].type \in Served
    BY <2>6, ServeNet
  <2>7. net' = net \/ \E S \in SUBSET UnitIds : /\ net' = [net EXCEPT !.served = @ \cup S]
                                                /\ \A v \in S : Summoned(v) /\ unit[v].type \in Served
    <3>1. CASE CityTurn \/ PortJoins
      <4>1. CASE net' # net
        <5>1. {Me.unit} \in SUBSET UnitIds
          BY <2>3
        <5>2. /\ net' = [net EXCEPT !.served = @ \cup {Me.unit}]
              /\ \A v \in {Me.unit} : Summoned(v) /\ unit[v].type \in Served
          BY <2>3, <3>1, <4>1, CityServes
        <5> QED BY <5>1, <5>2
      <4> QED BY <4>1
    <3>2. CASE FactoryTurn
      <4>1. CASE net' # net
        <5>1. \A v \in Unserved(Me.unit) : v \in UnitIds /\ unit[v].type \in Served
          BY DEF Unserved, Near, OfType, Served
        <5>2. {Me.unit} \cup Unserved(Me.unit) \in SUBSET UnitIds
          BY <2>3, <5>1
        <5>3. /\ net' = [net EXCEPT !.served = @ \cup ({Me.unit} \cup Unserved(Me.unit))]
              /\ \A v \in {Me.unit} \cup Unserved(Me.unit) : Summoned(v) /\ unit[v].type \in Served
          BY <2>3, <3>2, <4>1, <5>1, FactoryServes
        <5> QED BY <5>2, <5>3
      <4> QED BY <4>1
    <3> QED BY <1>3, <3>1, <3>2
  <2> QED BY <2>2, <2>4, <2>5, <2>6, <2>7
<1>4. CASE StationTurn
  <2>1. Turn("station") /\ unit' = unit
    BY <1>4 DEF StationTurn, Gone
  <2>2. Me.unit \in UnitIds
    BY <2>1, RailTurn
  <2>3. CASE Exists(Me.unit) /\ Me.station = NoId
    <3>1. HasIds(net) /\ net' \in Connected(net, NewStation(net), Me.unit)
      BY <1>4, <2>3 DEF StationTurn, Gone
    <3>2. NewStation(net) \in StationIds /\ ~Stands(net, NewStation(net))
      BY <3>1, NewIds DEF HasIds, FreeStations
    <3>3. FreeClusters(net) # {} /\ Cardinality(FreeRoads(net)) >= MaxRow
      BY <3>1 DEF HasIds
    <3>4. /\ net'.served = net.served
          /\ net'.of = [net.of EXCEPT ![Me.unit] = IF net.of[Me.unit] = NoId THEN NewStation(net) ELSE net.of[Me.unit]]
      BY <2>2, <3>1, <3>2, <3>3, ConnectedWhole
    <3>5. NewStation(net) # NoId
      BY <3>2, Ids
    <3>6. net.of = [v \in UnitIds |-> net.of[v]]
      BY NetFields DEF Whole
    <3>7. /\ net'.of[Me.unit] # NoId
          /\ \A v \in UnitIds : net.of[v] # NoId => net'.of[v] # NoId
      BY <2>2, <3>4, <3>5, <3>6
    <3> QED BY <2>1, <3>4, <3>7
  <2>4. CASE ~(Exists(Me.unit) /\ Me.station = NoId)
    <3>1. net' = net
      BY <1>4, <2>4 DEF StationTurn
    <3> QED BY <2>1, <2>4, <3>1
  <2> QED BY <2>3, <2>4
<1>5. CASE RecomputeTurn
  <2>1. net'.of = net.of /\ net'.served = net.served /\ unit' = unit
    BY <1>5, RecomputedWhole DEF RecomputeTurn
  <2>2. ~StationTurn
    <3>1. Me.kind = "recompute"
      BY <1>5, MyTurn DEF RecomputeTurn
    <3> QED BY <3>1, MyTurn DEF StationTurn
  <2> QED BY <2>1, <2>2
<1>6. CASE InitStation \/ InitTrain \/ TrainTurn
  <2>1. net' = net /\ (unit' = unit \/ InitTrain \/ TrainTurn)
    BY <1>6 DEF InitStation, InitTrain, TrainTurn
  <2>2. ~StationTurn
    <3>1. phase = "inits" \/ Turn("train")
      BY <1>6 DEF InitStation, InitTrain, TrainTurn, DueInit
    <3>2. phase = "inits" \/ Me.kind = "train"
      BY <3>1, MyTurn
    <3> QED BY <3>2, MyTurn DEF StationTurn
  <2> QED BY <1>2, <2>1, <2>2
<1>7. CASE (Engine \/ Outside) /\ net' = Pruned /\ ~StationTurn
  BY <1>1, <1>7
<1>8. CASE (Engine \/ Outside) /\ net' = Pruned /\ StationTurn
  BY <1>4, <1>8
<1> QED BY <1>3, <1>4, <1>5, <1>6, <1>7, <1>8 DEF RailNext, RailEngine

\* Each part of Service, in every step.
LEMMA FirstTurnsStep ==
    ASSUME TypeOK, Loop, Names, FirstTurns, Acts
    PROVE  FirstTurns'
<1>1. ASSUME NEW j \in Range(uninit'), j.kind \in Makers PROVE "left" \in DOMAIN j /\ j.left = 0
  BY <1>1, NewMakers DEF FirstTurns
<1>2. ASSUME NEW j \in Range(execs'), j.kind \in Makers PROVE "left" \in DOMAIN j /\ j.left \in {0, 1}
  BY <1>2, MakersGo
<1> QED BY <1>1, <1>2 DEF FirstTurns

\* A train that comes or goes is no structure.
LEMMA TrainsAreOther ==
    ASSUME TypeOK, Loop, Names, InitTrain \/ TrainTurn, NEW u \in UnitIds, unit[u].type \in Served
    PROVE  unit'[u] = unit[u]
<1>1. CASE InitTrain
  <2>1. unit' = unit \/ (FreeIds # {} /\ unit' = [unit EXCEPT ![Fresh] = New("Train", New1.by, 0)])
    BY <1>1 DEF InitTrain
  <2>2. FreeIds # {} => ~Exists(Fresh)
    BY FreshIsFree
  <2>3. unit = [v \in UnitIds |-> unit[v]]
    BY DEF TypeOK
  <2> QED BY <2>1, <2>2, <2>3 DEF Exists, Served
<1>2. CASE TrainTurn
  <2>1. unit' = unit \/ unit' = Without({Me.unit})
    BY <1>2 DEF TrainTurn, DeleteTrain
  <2>2. Me.kind = "train" /\ Me \in Jobs
    BY <1>2, MyTurn DEF TrainTurn
  <2>3. Fits(Me)
    BY <2>2 DEF Names
  <2>4. u # Me.unit
    <3>1. u # NoUnitId /\ Exists(u)
      BY Numbers DEF Exists, Served
    <3>2. u = Me.unit => <<"train", unit[u].type>> \in Crew
      BY <2>2, <2>3, <3>1 DEF Fits
    <3> QED BY <3>2 DEF Crew, Served
  <2> QED BY <2>1, <2>4 DEF Without
<1> QED BY <1>1, <1>2

LEMMA ServedStep ==
    ASSUME TypeOK, Loop, Names, RailNext, Acts, Whole(net), Grouped(net), ServedAre
    PROVE  ServedAre'
<1>1. Whole(net')
  BY NetStep
<1>2. SUFFICES ASSUME NEW u \in net'.served
               PROVE  /\ unit'[u].type \in Served
                      /\ net'.of[u] # NoId \/ Awaited(u)'
  BY DEF ServedAre, Served
<1>3. u \in UnitIds
  BY <1>1, NetFields DEF Whole
<1>4. CASE Summoned(u) /\ unit' = unit /\ unit[u].type \in Served
  BY <1>4 DEF Summoned, Awaited
<1>5. CASE /\ u \in net.served
           /\ unit'[u].type # "none" \/ unit' = unit \/ InitTrain \/ TrainTurn
           /\ net.of[u] # NoId => net'.of[u] # NoId
  <2>1. unit[u].type \in Served /\ (net.of[u] # NoId \/ Awaited(u))
    BY <1>5 DEF ServedAre, Served
  <2>2. Exists(u)
    BY <2>1 DEF Exists, Served
  <2>3. unit'[u].type = unit[u].type
    BY <1>3, <1>5, <2>1, <2>2, TrainsAreOther, UnitStays
  <2>4. ASSUME Awaited(u) PROVE net'.of[u] # NoId \/ Awaited(u)'
    <3>1. PICK j \in Jobs : j.kind = "station" /\ j.unit = u /\ j.station = NoId
      BY <2>4 DEF Awaited, Jobs
    <3>2. CASE j \in Jobs'
      BY <3>1, <3>2 DEF Awaited, Jobs
    <3>3. CASE StationTurn /\ Me = j
      BY <1>3, <2>2, <3>1, <3>3, ServiceGoes
    <3> QED BY <3>1, <3>2, <3>3, StationJobsStay
  <2> QED BY <1>5, <2>1, <2>3, <2>4
<1> QED BY <1>3, <1>4, <1>5, ServiceGoes

\* A city or a factory that has its execution is finished.
LEMMA MakerIs ==
    ASSUME Loop, Names, Staffed, NEW j \in Range(execs), j.kind \in Makers, Exists(j.unit)
    PROVE  /\ j.unit \in UnitIds /\ ~unit[j.unit].building
           /\ unit[j.unit].type = IF j.kind = "city" THEN "City" ELSE "Factory"
<1>1. j \in Jobs /\ j.unit \in UnitIds /\ j.kind \in Runners
  BY DEF Jobs, Loop, JobOK, Makers, Runners
<1>2. j.unit # NoUnitId
  BY <1>1, Numbers
<1>3. <<j.kind, unit[j.unit].type>> \in Crew
  BY <1>1, <1>2 DEF Names, Fits
<1>4. unit[j.unit].type = IF j.kind = "city" THEN "City" ELSE "Factory"
  BY <1>3 DEF Crew, Makers
<1>5. StaffOf(j.unit)
  BY <1>1, <1>4 DEF Staffed, OfType, Structures
<1>6. j \in Workers(Jobs, j.unit, Runners)
  BY <1>1 DEF Workers
<1>7. At(execs, Workers(Jobs, j.unit, Runners)) # {}
  BY <1>6, SomebodyAt DEF Loop
<1>8. ~unit[j.unit].building
  BY <1>5, <1>7 DEF StaffOf, None
<1> QED BY <1>1, <1>4, <1>8

\* It had its first turn before, or has it now.
LEMMA OverGoes ==
    ASSUME TypeOK, Loop, Names, FirstTurns, Acts, NEW k \in Makers, NEW u \in UnitIds, Over(k, u)',
           unit'[u].type # "none"
    PROVE  /\ Exists(u) /\ unit'[u].tile = unit[u].tile
           /\ \/ Over(k, u)
              \/ /\ CityTurn \/ FactoryTurn
                 /\ Me.left = 0 /\ Me.kind = k /\ Me.unit = u /\ Me \in Range(execs)
<1>1. PICK j \in Range(execs') : j.kind = k /\ j.unit = u /\ j.left = 1
  BY DEF Over
<1>2. CASE \E i \in Range(execs) : i.kind = j.kind /\ i.unit = j.unit /\ i.left = j.left
  <2>1. PICK i \in Range(execs) : i.kind = k /\ i.unit = u /\ i.left = 1
    BY <1>1, <1>2
  <2>2. i \in Jobs
    BY DEF Jobs
  <2> QED BY <2>1, <2>2, NamedGoes DEF Over
<1>3. CASE /\ CityTurn \/ FactoryTurn
           /\ Me.left = 0 /\ Exists(Me.unit) /\ Me.kind = j.kind /\ Me.unit = j.unit /\ j.left = 1
  <2>1. Me \in Range(execs) /\ Me \in Jobs
    BY <1>3, MyTurn DEF CityTurn, FactoryTurn
  <2> QED BY <1>1, <1>3, <2>1, NamedGoes
<1> QED BY <1>1, <1>2, <1>3, MakersGo

\* What a factory of which the first turn is now reaches is served.
LEMMA FactoryReaches ==
    ASSUME TypeOK, Loop, Names, Staffed, Whole(net), Grouped(net), Acts, FactoryTurn, Me.left = 0,
           Exists(Me.unit), NEW u \in UnitIds, Exists(u), InReach(Me.unit, u),
           u = Me.unit \/ \E k \in Makers : Over(k, u)
    PROVE  u \in net'.served
<1>1. net' = [net EXCEPT !.served = @ \cup ({Me.unit} \cup Unserved(Me.unit))]
  BY FactoryServes
<1>2. Me.unit \in UnitIds /\ Unserved(Me.unit) \subseteq UnitIds
  BY MyTurn DEF FactoryTurn, JobOK, Runners, Unserved, Near, OfType
<1>3. {Me.unit} \cup Unserved(Me.unit) \subseteq UnitIds
  BY <1>2
<1>4. net'.served = net.served \cup ({Me.unit} \cup Unserved(Me.unit))
  BY <1>1, <1>3, ServeNet
<1>5. ASSUME u # Me.unit PROVE u \in net.served \cup Unserved(Me.unit)
  <2>1. PICK j \in Range(execs) : j.kind \in Makers /\ j.unit = u
    BY <1>5 DEF Over
  <2>2. ~unit[u].building /\ unit[u].type \in {"City", "Factory"}
    BY <2>1, MakerIs
  <2>3. <<unit[Me.unit].tile, unit[u].tile>> \in RailRange
    BY <1>5 DEF InReach
  <2> QED BY <1>5, <2>2, <2>3 DEF Unserved, Near, OfType
<1> QED BY <1>4, <1>5

\* And so is a city of which the first turn is now, if a factory had its before.
LEMMA CityReaches ==
    ASSUME TypeOK, Loop, Names, Staffed, Whole(net), Grouped(net), Acts, CityTurn, Me.left = 0,
           Exists(Me.unit), NEW f \in UnitIds, Exists(f), InReach(f, Me.unit), Over("factory", f)
    PROVE  Me.unit \in net'.served
<1>1. Me.unit \in UnitIds /\ Me.kind = "city" /\ Me \in Range(execs)
  BY MyTurn DEF CityTurn, JobOK, Runners
<1>2. unit[Me.unit].type = "City"
  BY <1>1, MakerIs DEF Makers
<1>3. PICK j \in Range(execs) : j.kind = "factory" /\ j.unit = f
  BY DEF Over
<1>4. unit[f].type = "Factory" /\ ~unit[f].building
  BY <1>3, MakerIs DEF Makers
<1>5. <<unit[f].tile, unit[Me.unit].tile>> \in RailRange
  BY <1>2, <1>4 DEF InReach
<1>6. <<unit[Me.unit].tile, unit[f].tile>> \in RailRange
  BY <1>5, RailAssumption
<1>7. f \in Near(Me.unit) \cap OfType({"Factory"})
  BY <1>2, <1>4, <1>6 DEF Near, OfType
<1>8. FactoryNear(Me.unit)
  BY <1>7 DEF FactoryNear
<1>9. net' = [net EXCEPT !.served = @ \cup {Me.unit}]
  BY <1>8 DEF CityTurn, Serve, Gone
<1>10. {Me.unit} \subseteq UnitIds
  BY <1>1
<1> QED BY <1>9, <1>10, ServeNet

LEMMA ReachedStep ==
    ASSUME TypeOK, Loop, Names, Staffed, RailNext, Acts, Whole(net), Grouped(net),
           FirstTurns, ReachedAreServed
    PROVE  ReachedAreServed'
<1>1. SUFFICES ASSUME NEW f \in UnitIds, NEW u \in UnitIds, unit'[f].type # "none",
                      unit'[u].type # "none", InReach(f, u)', Over("factory", f)',
                      Over("factory", u)' \/ Over("city", u)'
               PROVE  u \in net'.served
  BY DEF ReachedAreServed, Exists
<1>2. PICK k \in Makers : Over(k, u)'
  BY <1>1 DEF Makers
<1>3. /\ Exists(f) /\ unit'[f].tile = unit[f].tile
      /\ \/ Over("factory", f)
         \/ (CityTurn \/ FactoryTurn) /\ Me.left = 0 /\ Me.kind = "factory" /\ Me.unit = f
  BY <1>1, OverGoes DEF Makers
<1>4. /\ Exists(u) /\ unit'[u].tile = unit[u].tile
      /\ \/ Over(k, u)
         \/ (CityTurn \/ FactoryTurn) /\ Me.left = 0 /\ Me.kind = k /\ Me.unit = u
  BY <1>1, <1>2, OverGoes
<1>5. InReach(f, u)
  BY <1>1, <1>3, <1>4 DEF InReach
<1>6. /\ CityTurn => Me.kind = "city"
      /\ FactoryTurn => Me.kind = "factory"
  BY MyTurn DEF CityTurn, FactoryTurn
<1>7. CASE Over("factory", f) /\ Over(k, u)
  <2>1. u \in net.served
    BY <1>3, <1>4, <1>5, <1>7 DEF ReachedAreServed, Makers
  <2> QED BY <1>1, <2>1, ServiceGoes
<1>8. CASE FactoryTurn /\ Me.left = 0 /\ Me.unit = f
  BY <1>3, <1>4, <1>5, <1>8, FactoryReaches
<1>9. CASE FactoryTurn /\ Me.left = 0 /\ Me.unit = u
  <2>1. InReach(Me.unit, u)
    BY <1>9 DEF InReach
  <2> QED BY <1>4, <1>9, <2>1, FactoryReaches
<1>10. CASE CityTurn /\ Me.left = 0 /\ Me.unit = u /\ Over("factory", f)
  BY <1>3, <1>4, <1>5, <1>10, CityReaches
<1> QED BY <1>3, <1>4, <1>6, <1>7, <1>8, <1>9, <1>10 DEF Makers

\* The inductive invariant of NearbyAreServed.
Service == FirstTurns /\ ServedAre /\ ReachedAreServed
LEMMA FirstService ==
    ASSUME RailInit
    PROVE  Service
<1>1. uninit = <<>> /\ net = NoNet
  BY FirstJobs DEF RailInit
<1>2. \A j \in Range(uninit) : FALSE
  BY <1>1 DEF Range
<1>3. ASSUME NEW j \in Range(execs) PROVE "left" \in DOMAIN j /\ j.left = 0
  <2>1. \A p : "left" \in DOMAIN Job("player", p) /\ Job("player", p).left = 0
    BY DEF Job
  <2>2. "left" \in DOMAIN RecomputeJob /\ RecomputeJob.left = 0
    BY DEF RecomputeJob, Job
  <2>3. \A t, p, u : "left" \in DOMAIN RunnerOf(t, p, u) /\ RunnerOf(t, p, u).left = 0
    BY DEF RunnerOf, Job
  <2> QED BY <2>1, <2>2, <2>3, FirstJobs
<1>4. FirstTurns
  BY <1>2, <1>3 DEF FirstTurns
<1>5. \A k, u : ~Over(k, u)
  BY <1>3 DEF Over
<1>6. net.served = {}
  BY <1>1 DEF NoNet
<1> QED BY <1>4, <1>5, <1>6 DEF Service, ServedAre, ReachedAreServed

LEMMA ServiceHolds == Spec => []Service
<1> DEFINE Net == Whole(net) /\ Grouped(net)
<1>1. RailInit => Service
  BY FirstService
<1>2. Base /\ Staffed /\ Net /\ Service /\ [RailNext]_railVars => Service'
  <2>1. ASSUME Base, Staffed, Net, Service, RailNext PROVE Service'
    <3>1. Acts
      BY <2>1 DEF RailNext, RailEngine, Acts
    <3> QED BY <2>1, <3>1, FirstTurnsStep, ServedStep, ReachedStep DEF Base, Service
  <2>2. ASSUME Service, UNCHANGED railVars PROVE Service'
    <3>1. execs' = execs /\ uninit' = uninit /\ unit' = unit /\ net' = net
      BY <2>2 DEF railVars, vars, loopVars
    <3> QED BY <2>2, <3>1 DEF Service, FirstTurns, ServedAre, ReachedAreServed, Awaited, Over,
               InReach, Exists
  <2> QED BY <2>1, <2>2
<1> QED BY <1>1, <1>2, BaseHolds, StaffedHolds, NetHolds, PTL DEF Spec

\* A city asks for a factory once and a factory for cities once, each when it is finished: whichever
\* comes second, and whoever holds them then, and whatever became of them since, the city is served,
\* and has its station unless the execution that builds it has not had its turn.
THEOREM NearbyAreServedHolds == Spec => []NearbyAreServed
<1>1. ASSUME Base, Service PROVE NearbyAreServed
  <2>1. SUFFICES ASSUME NEW f \in OfType({"Factory"}), NEW u \in OfType({"City", "Factory"}),
                        TurnOver(f), TurnOver(u), u = f \/ u \in Near(f)
                 PROVE  u \in net.served /\ (net.of[u] # NoId \/ Awaited(u))
    BY DEF NearbyAreServed
  <2>2. f \in UnitIds /\ u \in UnitIds /\ unit[f].type = "Factory" /\ Exists(f) /\ Exists(u)
    BY DEF OfType, Exists
  <2>3. ASSUME NEW v \in UnitIds, TurnOver(v) PROVE Over("city", v) \/ Over("factory", v)
    <3>1. PICK i \in 1 .. Len(execs) : /\ execs[i].kind \in {"city", "factory"}
                                       /\ execs[i].unit = v /\ execs[i].left = 1
      BY <2>3 DEF TurnOver, AllJobs
    <3>2. execs[i] \in Range(execs)
      BY <1>1, Listed DEF Base, Loop
    <3> QED BY <3>1, <3>2 DEF Over
  <2>4. ~Over("city", f)
    <3>1. SUFFICES ASSUME NEW j \in Range(execs), j.kind = "city", j.unit = f PROVE FALSE
      BY DEF Over
    <3>2. Fits(j) /\ f # NoUnitId
      BY <1>1, <2>2, Numbers DEF Base, Names, Jobs
    <3> QED BY <2>2, <3>1, <3>2 DEF Fits, Crew
  <2>5. InReach(f, u)
    BY <2>1 DEF InReach, Near
  <2>6. u \in net.served
    BY <1>1, <2>1, <2>2, <2>3, <2>4, <2>5 DEF Service, ReachedAreServed
  <2> QED BY <1>1, <2>6 DEF Service, ServedAre
<1> QED BY <1>1, BaseHolds, ServiceHolds, PTL
=============================================================================
