---------------------------- MODULE FleetProofs ----------------------------
(***************************************************************************)
(* Theorems about Fleet and Doomsday, for any coast, players, teams,       *)
(* ranges, times and scenarios.                                            *)
(***************************************************************************)
EXTENDS Doomsday, FiniteSetTheorems, SequenceTheorems, TLAPS

\* What OrdersComeFirst says of the job of a warship.
Orderly(j) == j.grace < Grace => ~j.retreating /\ ~j.docked
\* Nobody but its sender has held a trade ship that is not built yet.
GoodJob == {j \in JobType : /\ j.kind = "ship" => Orderly(j)
                            /\ j.kind = "trade" => (j.unit = None => ~j.robbed)}

\* A state of a warship's turn.
TurnType == [job : ShipType, at : Places, hp : 1 .. MaxHealth, shots : Seq(ShellType),
             prize : {u \in UnitIds : Exists(u)} \cup {None}, on : BOOLEAN]
GoodTurn == {s \in TurnType : s.job.unit \in UnitIds /\ Orderly(s.job)}
\* A turn on the way to a port, or at it; the port may have been lost.
Fleeing == {s \in GoodTurn : s.job.retreating /\ s.job.grace >= Grace}
Heading == {s \in Fleeing : s.job.port \in Places}

LEMMA Numbers ==
    /\ Grace \in Nat /\ Gap \in Nat /\ MaxFlight \in Nat /\ SafeTicks \in Nat
    /\ MaxHealth \in Nat \ {0} /\ ShellLife \in Nat /\ DockPool \in Nat
    /\ Damages \subseteq Nat \ {0}
  BY FleetAssumption
LEMMA Ranges ==
    \E n \in Nat, m \in Nat, k \in Nat : Players = 1 .. n /\ Places = 1 .. m /\ UnitIds = 1 .. k
  BY FleetAssumption, FS_CardinalityType

-----------------------------------------------------------------------------
(* The pieces of a warship's turn. *)

LEMMA AshoreGood ==
    ASSUME NEW s \in GoodTurn
    PROVE  /\ Ashore(s) \in GoodTurn /\ Ashore(s).job.retreating = FALSE /\ Ashore(s).job.docked = FALSE
           /\ Ashore(s).job.seen = s.job.seen
  BY DEF GoodTurn, TurnType, Ashore, Orderly, ShipType
LEMMA GoalGood ==
    ASSUME NEW s \in GoodTurn, NEW g \in Places \cup {None}
    PROVE  [s EXCEPT !.job.goal = g] \in GoodTurn
  BY DEF GoodTurn, TurnType, Orderly, ShipType
LEMMA GivesUpGood == ASSUME NEW s \in GoodTurn PROVE GivesUp(s) \in GoodTurn
  BY AshoreGood, GoalGood DEF GivesUp
LEMMA SeenGood ==
    ASSUME NEW s \in GoodTurn, NEW x \in Places, s.job.retreating = FALSE, s.job.docked = FALSE
    PROVE  [s EXCEPT !.job.seen = x, !.job.grace = 0] \in GoodTurn
<1>1. 0 \in 0 .. Grace
  BY Numbers
<1> QED BY <1>1 DEF GoodTurn, TurnType, Orderly, ShipType
LEMMA OrderedGood == ASSUME NEW s \in GoodTurn PROVE Ordered(s) \in GoodTurn
<1>1. s.job.patrol \in Places
  BY DEF GoodTurn, TurnType, ShipType
<1> QED BY <1>1, AshoreGood, SeenGood DEF Ordered
\* A turn that is over for the movement.
LEMMA StopGood == ASSUME NEW s \in GoodTurn PROVE [s EXCEPT !.on = FALSE] \in GoodTurn
  BY DEF GoodTurn, TurnType, Orderly, ShipType
LEMMA UndockedGood == ASSUME NEW s \in GoodTurn PROVE Undocked(s) \in GoodTurn
  BY StopGood, AshoreGood DEF Undocked

LEMMA HoldersArePlayers ==
    ASSUME UnitsOK, NEW u \in UnitIds, Exists(u)
    PROVE  /\ unit[u].holder \in Players /\ unit[u].at \in Places /\ unit[u].health \in 1 .. MaxHealth
  BY Numbers DEF UnitsOK, SoundUnit, UnitType, Exists

LEMMA ShellJobGood ==
    ASSUME NEW p \in Players, NEW u \in UnitIds, NEW v \in UnitIds, NEW q \in Players
    PROVE  ShellJob(p, u, v, q) \in ShellType
<1>1. MaxFlight \in 0 .. MaxFlight /\ -1 \in -1 .. ShellLife
  BY Numbers
<1> QED BY <1>1 DEF ShellJob, ShellType

\* A turn after a shell was shot.
Aimed(s, x, n, S) == [s EXCEPT !.shots = x, !.job.since = n, !.job.sent = S]
LEMMA AimedGood ==
    ASSUME NEW s \in GoodTurn, NEW x \in Seq(ShellType), NEW n \in 0 .. Gap + 1,
           NEW S \in SUBSET (Players \X UnitIds)
    PROVE  /\ Aimed(s, x, n, S) \in GoodTurn
           /\ s \in Heading => Aimed(s, x, n, S) \in Heading
<1>1. Aimed(s, x, n, S) \in GoodTurn
  BY DEF GoodTurn, TurnType, ShipType, Orderly, Aimed
<1>2. ASSUME s \in Heading PROVE Aimed(s, x, n, S) \in Heading
  BY <1>1, <1>2 DEF Heading, Fleeing, GoodTurn, TurnType, ShipType, Aimed
<1> QED BY <1>1, <1>2
LEMMA ShotGood ==
    ASSUME NEW s \in GoodTurn, NEW u \in UnitIds, UnitsOK, Exists(u)
    PROVE  Shot(s, u) \in GoodTurn /\ (s \in Heading => Shot(s, u) \in Heading)
<1> DEFINE shell == ShellJob(s.job.by, s.job.unit, u, unit[u].holder)
<1>0. unit[u].holder \in Players
  BY HoldersArePlayers
<1>1. shell \in ShellType
  BY <1>0, ShellJobGood DEF GoodTurn, TurnType, ShipType
<1> HIDE DEF shell
<1>2. Append(s.shots, shell) \in Seq(ShellType)
  BY <1>1 DEF GoodTurn, TurnType
<1>3. 0 \in 0 .. Gap + 1
  BY Numbers
<1>4. s.job.sent \cup {<<unit[u].holder, u>>} \in SUBSET (Players \X UnitIds)
  BY <1>0 DEF GoodTurn, TurnType, ShipType
<1>5. s.job.since \in 0 .. Gap + 1 /\ s.job.sent \in SUBSET (Players \X UnitIds)
  BY DEF GoodTurn, TurnType, ShipType
<1>6. CASE s.job.since <= Gap
  BY <1>6 DEF Shot
<1>7. CASE ~(s.job.since <= Gap) /\ unit[u].type = "Transport"
  <2>1. Shot(s, u) = [s EXCEPT !.shots = Append(@, shell), !.job.since = @,
                               !.job.sent = @ \cup {<<unit[u].holder, u>>}]
    BY <1>7 DEF Shot, shell
  <2>2. Shot(s, u) = Aimed(s, Append(s.shots, shell), s.job.since,
                           s.job.sent \cup {<<unit[u].holder, u>>})
    BY <2>1 DEF Aimed, GoodTurn, TurnType, ShipType
  <2>3. LET r == Aimed(s, Append(s.shots, shell), s.job.since,
                       s.job.sent \cup {<<unit[u].holder, u>>})
        IN  r \in GoodTurn /\ (s \in Heading => r \in Heading)
    BY <1>2, <1>4, <1>5, AimedGood
  <2> QED BY <2>2, <2>3
<1>8. CASE ~(s.job.since <= Gap) /\ unit[u].type # "Transport"
  <2>1. Shot(s, u) = [s EXCEPT !.shots = Append(@, shell), !.job.since = 0, !.job.sent = @]
    BY <1>8 DEF Shot, shell
  <2>2. Shot(s, u) = Aimed(s, Append(s.shots, shell), 0, s.job.sent)
    BY <2>1 DEF Aimed, GoodTurn, TurnType, ShipType
  <2>3. LET r == Aimed(s, Append(s.shots, shell), 0, s.job.sent)
        IN  r \in GoodTurn /\ (s \in Heading => r \in Heading)
    BY <1>2, <1>3, <1>5, AimedGood
  <2> QED BY <2>2, <2>3
<1> QED BY <1>6, <1>7, <1>8

LEMMA PortsAreSomewhere == ASSUME UnitsOK, NEW p \in Players PROVE PortsAt(p) \subseteq Places
<1> SUFFICES ASSUME NEW u \in Ports(p) PROVE unit[u].at \in Places
  BY DEF PortsAt
<1>1. u \in UnitIds /\ Exists(u)
  BY DEF Ports, HeldBy, OfType, Exists
<1> QED BY <1>1, HoldersArePlayers
LEMMA NearestIn == ASSUME NEW S, NEW a PROVE Nearest(S, a) \subseteq S
  BY DEF Nearest
LEMMA TowardIn == ASSUME NEW a \in Places, NEW b \in Places PROVE Toward(a, b) \in Places
  BY Ranges DEF Toward

LEMMA BestExist ==
    ASSUME NEW s, NEW T \in SUBSET Ships, NEW u \in Best(s, T)
    PROVE  u \in UnitIds /\ Exists(u)
<1>1. PICK t \in T : u \in Targets(s, t)
  BY DEF Best
<1>2. t # "none"
  BY DEF Ships
<1> QED BY <1>1, <1>2 DEF Targets, OfType, Exists

LEMMA FiresGood ==
    ASSUME NEW s \in Heading, NEW f \in Fires(s), UnitsOK
    PROVE  f \in Heading
<1>1. ASSUME NEW u \in Best(s, {"Transport", "Warship"}) PROVE Shot(s, u) \in Heading
  <2>1. u \in UnitIds /\ Exists(u)
    BY BestExist DEF Ships
  <2> QED BY <2>1, ShotGood DEF Heading, Fleeing
<1> QED BY <1>1 DEF Fires

LEMMA RefreshedGood ==
    ASSUME NEW s \in Fleeing, NEW r \in Refreshed(s), UnitsOK
    PROVE  r \in Fleeing
<1> DEFINE mine == PortsAt(s.job.by)
<1>1. mine \subseteq Places
  BY PortsAreSomewhere DEF Fleeing, GoodTurn, TurnType, ShipType
<1> HIDE DEF mine
<1>2. ASSUME NEW x \in Places \cup {None}
      PROVE  [s EXCEPT !.job.port = x] \in Fleeing
  BY DEF Fleeing, GoodTurn, TurnType, ShipType, Orderly
<1>3. ASSUME NEW q \in Fleeing
      PROVE  [q EXCEPT !.job.goal = None] \in Fleeing
  BY DEF Fleeing, GoodTurn, TurnType, ShipType, Orderly
<1>4. ASSUME NEW S \in SUBSET mine, NEW q \in {[s EXCEPT !.job.port = x] : x \in Nearest(S, s.at)}
      PROVE  q \in Fleeing
  BY <1>1, <1>2, NearestIn
<1> QED BY <1>2, <1>3, <1>4 DEF Refreshed, mine

LEMMA WithdrawsGood == ASSUME NEW s \in Heading PROVE Withdraws(s) \in GoodTurn
<1>1. s \in GoodTurn /\ s.job.port \in Places /\ s.at \in Places
  BY DEF Heading, Fleeing, GoodTurn, TurnType
<1>2. Toward(s.at, s.job.port) \in Places
  BY <1>1, TowardIn
<1>3. [s EXCEPT !.job.goal = s.job.port, !.at = Toward(@, s.job.port), !.on = FALSE] \in GoodTurn
  BY <1>1, <1>2 DEF GoodTurn, TurnType, ShipType, Orderly
<1>4. [s EXCEPT !.job.docked = TRUE, !.job.retreating = FALSE, !.job.goal = None, !.on = FALSE] \in GoodTurn
  <2>1. ~(s.job.grace < Grace)
    BY Numbers DEF Heading, Fleeing, GoodTurn, TurnType, ShipType
  <2> QED BY <1>1, <2>1 DEF GoodTurn, TurnType, ShipType, Orderly
<1>5. GivesUp(s) \in GoodTurn /\ [s EXCEPT !.on = FALSE] \in GoodTurn
  BY <1>1, GivesUpGood, StopGood
<1> QED BY <1>3, <1>4, <1>5 DEF Withdraws

LEMMA RetreatsGood ==
    ASSUME NEW s \in Fleeing, NEW q \in Retreats(s), UnitsOK
    PROVE  q \in GoodTurn
<1>1. PICK r \in Refreshed(s) : q \in IF r.job.port = None THEN {GivesUp(r)}
                                     ELSE {Withdraws(f) : f \in Fires(r)}
  BY DEF Retreats
<1>2. r \in Fleeing /\ r \in GoodTurn
  BY RefreshedGood DEF Fleeing
<1>3. CASE r.job.port = None
  BY <1>1, <1>2, <1>3, GivesUpGood
<1>4. CASE r.job.port # None
  <2>1. r \in Heading
    BY <1>2, <1>4 DEF Heading, Fleeing, GoodTurn, TurnType, ShipType
  <2> QED BY <1>1, <1>4, <2>1, FiresGood, WithdrawsGood
<1> QED BY <1>3, <1>4

LEMMA FledGood ==
    ASSUME NEW s \in GoodTurn, NEW hp, Flees(s, hp), NEW f \in Fled(s), UnitsOK
    PROVE  f \in Fleeing
<1>1. PICK x \in Nearest(PortsAt(s.job.by), s.at) :
          f = [s EXCEPT !.job.retreating = TRUE, !.job.port = x]
  BY DEF Fled
<1>2. x \in Places
  BY PortsAreSomewhere, NearestIn DEF GoodTurn, TurnType, ShipType
<1>3. s.job.grace >= Grace
  BY DEF Flees
<1>4. ~(s.job.grace < Grace)
  BY <1>3, Numbers DEF GoodTurn, TurnType, ShipType
<1> QED BY <1>1, <1>2, <1>3, <1>4 DEF Fleeing, GoodTurn, TurnType, ShipType, Orderly

LEMMA CruisesGood ==
    ASSUME NEW s \in GoodTurn, NEW q \in Cruises(s)
    PROVE  q \in GoodTurn
<1>1. s.at \in Places /\ s.job.goal \in Places \cup {None}
  BY DEF GoodTurn, TurnType, ShipType
<1>2. ASSUME NEW x \in Places, NEW g \in Places \cup {None}
      PROVE  [s EXCEPT !.job.goal = g, !.at = Toward(@, x)] \in GoodTurn
  <2>1. Toward(s.at, x) \in Places
    BY <1>1, TowardIn
  <2> QED BY <2>1 DEF GoodTurn, TurnType, ShipType, Orderly
<1>3. CASE s.job.goal = None
  <2>1. PICK x \in Places : q = [s EXCEPT !.job.goal = IF x = s.at THEN None ELSE x, !.at = Toward(@, x)]
    BY <1>3 DEF Cruises
  <2> QED BY <1>2, <2>1
<1>4. CASE s.job.goal # None /\ s.job.goal = s.at
  BY <1>4, GoalGood DEF Cruises
<1>5. CASE s.job.goal # None /\ s.job.goal # s.at
  <2>1. q = [s EXCEPT !.at = Toward(@, s.job.goal)]
    BY <1>5 DEF Cruises
  <2>2. Toward(s.at, s.job.goal) \in Places
    BY <1>1, <1>5, TowardIn
  <2> QED BY <2>1, <2>2 DEF GoodTurn, TurnType, ShipType, Orderly
<1> QED BY <1>3, <1>4, <1>5

LEMMA ChaseGood ==
    ASSUME NEW s \in GoodTurn, NEW u \in UnitIds, UnitsOK, Exists(u)
    PROVE  Chase(s, u) \in GoodTurn
<1>1. Toward(s.at, unit[u].at) \in Places
  BY HoldersArePlayers, TowardIn DEF GoodTurn, TurnType
<1>2. [s EXCEPT !.prize = u] \in GoodTurn
  BY DEF GoodTurn, TurnType
<1>3. [s EXCEPT !.at = Toward(@, unit[u].at)] \in GoodTurn
  BY <1>1 DEF GoodTurn, TurnType
<1> QED BY <1>2, <1>3 DEF Chase

LEMMA ActsGood ==
    ASSUME NEW s \in GoodTurn, NEW q \in Acts(s), UnitsOK
    PROVE  q \in GoodTurn
<1>1. CASE Best(s, Ships) = {}
  BY <1>1, CruisesGood DEF Acts
<1>2. CASE Best(s, Ships) # {}
  <2>1. PICK u \in Best(s, Ships) : q \in IF unit[u].type = "Trade" THEN {Chase(Chase(s, u), u)}
                                         ELSE Cruises(Shot(s, u))
    BY <1>2 DEF Acts
  <2>2. u \in UnitIds /\ Exists(u)
    BY BestExist
  <2>3. Chase(Chase(s, u), u) \in GoodTurn /\ Shot(s, u) \in GoodTurn
    BY <2>2, ChaseGood, ShotGood
  <2> QED BY <2>1, <2>3, CruisesGood
<1> QED BY <1>1, <1>2

\* A docked ship gets a share of what the port repairs, which is divided by the ships
\* there; the port is one of its player's, so it has a level.
LEMMA ShareIsNat ==
    ASSUME NEW s \in GoodTurn, UnitsOK, execs \in Seq(JobType), AtDock(s)
    PROVE  Share(s) \subseteq Nat
<1>1. PICK u \in Ports(s.job.by) : unit[u].at = s.job.port
  BY DEF AtDock, PortsAt
<1> DEFINE v == CHOOSE w \in Ports(s.job.by) : unit[w].at = s.job.port
           n == Berthed(s, s.job.port)
<1>2. v \in UnitIds
  BY <1>1 DEF Ports, HeldBy
<1>3. LevelAt(s.job.by, s.job.port) \in Nat
  BY <1>2 DEF LevelAt, UnitsOK, SoundUnit, UnitType
<1>4. n \in Nat
  <2>1. Len(execs) \in Nat
    BY LenProperties
  <2>2. Neighbours(s.job.by, s.job.port) \subseteq 1 .. Len(execs)
    BY DEF Neighbours
  <2>3. IsFiniteSet(1 .. Len(execs))
    BY <2>1, FS_Interval
  <2>4. IsFiniteSet(Neighbours(s.job.by, s.job.port))
    BY <2>2, <2>3, FS_Subset
  <2> QED BY <2>4, FS_CardinalityType DEF Berthed
<1> DEFINE pool == LevelAt(s.job.by, s.job.port) * DockPool
<1>5. pool \in Nat
  BY <1>3, Numbers
<1> HIDE DEF n, pool
<1>6. n # 0 => pool \div n \in Nat
  BY <1>4, <1>5
<1> QED BY <1>6 DEF Share, n, pool

LEMMA HealedGood ==
    ASSUME NEW s \in GoodTurn, NEW r \in Healed(s), UnitsOK, execs \in Seq(JobType)
    PROVE  r \in GoodTurn
<1>1. ASSUME NEW h \in Nat, NEW e \in {0, 1}, r = [s EXCEPT !.hp = Least(MaxHealth, @ + h + e)]
      PROVE  r \in GoodTurn
  <2>1. Least(MaxHealth, s.hp + h + e) \in 1 .. MaxHealth
    BY Numbers DEF GoodTurn, TurnType, Least
  <2> QED BY <1>1, <2>1 DEF GoodTurn, TurnType
<1>2. CASE InDoomsdayClock(s.job.by)
  BY <1>2 DEF Healed
<1>3. CASE ~InDoomsdayClock(s.job.by)
  <2>1. PICK h \in IF AtDock(s) THEN Share(s) ELSE {0} :
            r = [s EXCEPT !.hp = Least(MaxHealth, @ + h + (IF NearPort(s) THEN 1 ELSE 0))]
    BY <1>3 DEF Healed, Repaired
  <2>2. h \in Nat
    <3>1. CASE AtDock(s)
      BY <2>1, <3>1, ShareIsNat
    <3>2. CASE ~AtDock(s)
      BY <2>1, <3>2
    <3> QED BY <3>1, <3>2
  <2> QED BY <1>1, <2>1, <2>2
<1> QED BY <1>2, <1>3

\* Whatever a warship does in its turn leaves it in order: it turns to a port only when
\* its grace is over (FledGood), a new patrol tile brings it ashore before its grace
\* begins (OrderedGood), and a ship that still retreats has not been given one.
LEMMA SortiesGood ==
    ASSUME NEW s \in GoodTurn, NEW q \in Sorties(s), UnitsOK, execs \in Seq(JobType)
    PROVE  q \in GoodTurn
<1> DEFINE risen == {Undocked(Ordered(h)) : h \in Healed(s)}
           retired == UNION {IF r.on /\ r.job.retreating THEN Retreats(r) ELSE {r} : r \in risen}
           sobered == UNION {IF r.on /\ Flees(r, s.hp) THEN UNION {Retreats(f) : f \in Fled(r)}
                             ELSE {r} : r \in retired}
<1>1. risen \subseteq GoodTurn
  BY HealedGood, OrderedGood, UndockedGood
<1>2. ASSUME NEW r \in risen, r.job.retreating PROVE r \in Fleeing
  BY <1>1, <1>2, Numbers DEF Fleeing, GoodTurn, TurnType, ShipType, Orderly
<1>3. retired \subseteq GoodTurn
  BY <1>1, <1>2, RetreatsGood
<1> HIDE DEF risen, retired
<1>4. sobered \subseteq GoodTurn
  BY <1>3, FledGood, RetreatsGood
<1> HIDE DEF sobered
<1>5. PICK r \in sobered : q \in IF r.on THEN Acts(r) ELSE {r}
  BY DEF Sorties, sobered, retired, risen
<1> QED BY <1>4, <1>5, ActsGood

-----------------------------------------------------------------------------
(* The list of executions, and the units. *)

LEMMA StayIn ==
    ASSUME NEW S, execs \in Seq(S), cursor \in Nat \ {0}, cursor <= Len(execs), NEW j \in S, Stay(j)
    PROVE  execs' \in Seq(S) /\ cursor' \in Nat \ {0}
<1>1. cursor \in 1 .. Len(execs)
  BY LenProperties
<1>2. [execs EXCEPT ![cursor] = j] \in Seq(S)
  BY <1>1, ExceptSeq
<1> QED BY <1>2 DEF Stay
LEMMA DoneIn ==
    ASSUME NEW S, execs \in Seq(S), cursor \in Nat \ {0}, cursor <= Len(execs), Done
    PROVE  execs' \in Seq(S) /\ cursor' \in Nat \ {0}
<1>0. Len(execs) \in Nat
  BY LenProperties
<1>1. SubSeq(execs, 1, cursor - 1) \in Seq(S)
  BY <1>0, SubSeqProperties
<1>2. SubSeq(execs, cursor + 1, Len(execs)) \in Seq(S)
  BY <1>0, SubSeqProperties
<1>3. SubSeq(execs, 1, cursor - 1) \o SubSeq(execs, cursor + 1, Len(execs)) \in Seq(S)
  BY <1>1, <1>2, ConcatProperties
<1> QED BY <1>3 DEF Done
LEMMA AddIn ==
    ASSUME NEW S, uninit \in Seq(S), NEW js \in Seq(S), Add(js)
    PROVE  uninit' \in Seq(S)
  BY ConcatProperties DEF Add
LEMMA InitIn ==
    ASSUME NEW S, execs \in Seq(S), uninit \in Seq(S), uninit # <<>>
    PROVE  /\ New1 \in S /\ Tail(uninit) \in Seq(S)
           /\ \A j \in S : Append(execs, j) \in Seq(S)
  BY HeadTailProperties, AppendProperties DEF New1
LEMMA EachIn ==
    ASSUME NEW S, execs \in Seq(S), NEW g \in [DOMAIN execs -> S]
    PROVE  g \in Seq(S)
  BY LenProperties, IsASeq

LEMMA GoodJobsAreJobs == ASSUME NEW q \in Seq(GoodJob) PROVE q \in Seq(JobType)
<1>1. GoodJob \subseteq JobType
  BY DEF GoodJob
<1> QED BY <1>1, SeqMonotonic

\* What the execution whose turn it is may be.
LEMMA MeIs ==
    ASSUME LoopTypeOK(GoodJob), NEW k, Turn(k)
    PROVE  Me \in GoodJob /\ Me \in JobType /\ Me.kind = k /\ cursor <= Len(execs)
           /\ execs \in Seq(GoodJob) /\ uninit \in Seq(GoodJob) /\ cursor \in Nat \ {0}
           /\ phase \in {"orders", "turns", "inits"}
<1>1. cursor \in 1 .. Len(execs)
  BY LenProperties DEF LoopTypeOK, Turn
<1>2. execs[cursor] \in GoodJob
  BY <1>1, ElementOfSeq DEF LoopTypeOK
<1> QED BY <1>2 DEF LoopTypeOK, Turn, Me, GoodJob

LEMMA KindsOfJobs ==
    ASSUME NEW j \in JobType
    PROVE  /\ j.kind = "player" => j \in [kind : {"player"}, by : Players]
           /\ j.kind = "clock"  => j \in [kind : {"clock"}, ticks : Nat]
           /\ j.kind = "port"   => j \in [kind : {"port"}, by : Players, unit : UnitIds]
           /\ j.kind = "yard"   => j \in [kind : {"yard"}, by : Players, at : Places]
           /\ j.kind = "move"   => j \in [kind : {"move"}, by : Players, unit : UnitIds, at : Places]
           /\ j.kind = "ship"   => j \in ShipType
           /\ j.kind = "trade"  => j \in TradeType
           /\ j.kind = "shell"  => j \in ShellType
  BY DEF JobType, ShipType, TradeType, ShellType
\* Only the jobs of warships and trade ships have more to them than their type.
LEMMA OthersAreGood ==
    ASSUME NEW j \in [kind : {"player"}, by : Players]
                  \cup [kind : {"clock"}, ticks : Nat]
                  \cup [kind : {"port"}, by : Players, unit : UnitIds]
                  \cup [kind : {"yard"}, by : Players, at : Places]
                  \cup [kind : {"move"}, by : Players, unit : UnitIds, at : Places]
                  \cup ShellType
    PROVE  j \in GoodJob
<1>1. j \in JobType
  BY DEF JobType
<1>2. j.kind # "ship" /\ j.kind # "trade"
  BY DEF ShellType
<1> QED BY <1>1, <1>2 DEF GoodJob
LEMMA ShipsAreGood ==
    ASSUME NEW j \in ShipType, Orderly(j)
    PROVE  j \in GoodJob
<1>1. j \in JobType /\ j.kind = "ship"
  BY DEF JobType, ShipType
<1> QED BY <1>1 DEF GoodJob
LEMMA TradesAreGood ==
    ASSUME NEW j \in TradeType, j.unit = None => ~j.robbed
    PROVE  j \in GoodJob
<1>1. j \in JobType /\ j.kind = "trade"
  BY DEF JobType, TradeType
<1> QED BY <1>1 DEF GoodJob

LEMMA NoUnitIsSound == NoUnit \in SoundUnit
  BY Numbers DEF NoUnit, SoundUnit, UnitType, UnitTypes
LEMMA NewIsSound ==
    ASSUME NEW type \in {"Port", "Warship", "Trade", "Transport"}, NEW p \in Players, NEW x \in Places
    PROVE  New(type, p, x) \in SoundUnit
<1>1. p # Neutral /\ x # None
  BY Ranges DEF Neutral, None
<1> QED BY <1>1, Numbers DEF New, SoundUnit, UnitType, UnitTypes, Ships
LEMMA HeldIsSound ==
    ASSUME NEW v \in SoundUnit, v.type # "none", NEW p \in Players
    PROVE  [v EXCEPT !.holder = p] \in SoundUnit
<1>1. p # Neutral
  BY Ranges DEF Neutral
<1> QED BY <1>1 DEF SoundUnit, UnitType
LEMMA AgedIsSound ==
    ASSUME NEW v \in SoundUnit, v.type # "none", NEW n \in 0 .. SafeTicks
    PROVE  [v EXCEPT !.safe = n] \in SoundUnit
  BY DEF SoundUnit, UnitType
LEMMA HurtIsSound ==
    ASSUME NEW v \in SoundUnit, v.type # "none", NEW h \in 1 .. MaxHealth
    PROVE  [v EXCEPT !.health = h] \in SoundUnit
<1>1. h \in 0 .. MaxHealth /\ h > 0
  BY Numbers
<1> QED BY <1>1 DEF SoundUnit, UnitType
LEMMA MovedIsSound ==
    ASSUME NEW v \in SoundUnit, v.type # "none", NEW x \in Places, NEW h \in 1 .. MaxHealth,
           NEW n \in 0 .. SafeTicks
    PROVE  /\ [v EXCEPT !.at = x, !.health = h] \in SoundUnit
           /\ [v EXCEPT !.at = x, !.safe = n] \in SoundUnit
<1>1. h \in 0 .. MaxHealth /\ h > 0 /\ x # None
  BY Numbers, Ranges DEF None
<1> QED BY <1>1 DEF SoundUnit, UnitType
LEMMA WithoutIsSound == ASSUME UnitsOK, NEW S PROVE Without(S) \in [UnitIds -> SoundUnit]
  BY NoUnitIsSound DEF UnitsOK, Without
\* What is held is there.
LEMMA HeldExist ==
    ASSUME UnitsOK, NEW p, p # Neutral, NEW u \in HeldBy(p)
    PROVE  u \in UnitIds /\ Exists(u) /\ p \in Players /\ unit[u].at \in Places
  BY HoldersArePlayers DEF UnitsOK, SoundUnit, HeldBy, Exists, NoUnit
LEMMA FreshIsFree == ASSUME FreeIds # {} PROVE Fresh \in UnitIds /\ ~Exists(Fresh)
  BY DEF Fresh, FreeIds

-----------------------------------------------------------------------------
(* Every step keeps the types, and every ship in order. *)

LandOK == /\ land \in [Places -> Players \cup {Neutral}]
          /\ allies \subseteq SUBSET Players /\ embargo \subseteq Players \X Players
          /\ offline \subseteq Players
GoldOK == gold \in [Players -> Nat]
MarksOK == under \in [Players -> Nat \cup {Unmarked}]
TodoOK == todo \in TodoType
StepInv == LandOK /\ UnitsOK /\ GoldOK /\ MarksOK /\ TodoOK /\ LoopTypeOK(GoodJob)

LEMMA InvIsTypes == StepInv => TypeOK
<1>1. LoopTypeOK(GoodJob) => LoopTypeOK(JobType)
  BY GoodJobsAreJobs DEF LoopTypeOK
<1> QED BY <1>1 DEF StepInv, TypeOK, LandOK, GoldOK, MarksOK, TodoOK

\* The invariant of the list, when an execution has had its turn, ...
LEMMA StayKeeps ==
    ASSUME LoopTypeOK(GoodJob), NEW k, Turn(k), NEW j \in GoodJob, Stay(j), UNCHANGED phase,
           uninit' \in Seq(GoodJob)
    PROVE  LoopTypeOK(GoodJob)'
  BY MeIs, StayIn DEF LoopTypeOK
LEMMA DoneKeeps ==
    ASSUME LoopTypeOK(GoodJob), NEW k, Turn(k), Done, UNCHANGED phase, uninit' \in Seq(GoodJob)
    PROVE  LoopTypeOK(GoodJob)'
  BY MeIs, DoneIn DEF LoopTypeOK
LEMMA SameJob == ASSUME LoopTypeOK(GoodJob) PROVE uninit \in Seq(GoodJob)
  BY DEF LoopTypeOK

LEMMA StartTickKeeps == StepInv /\ StartTick /\ UNCHANGED under => StepInv'
  BY DEF StepInv, StartTick, OpenTick, LandOK, UnitsOK, GoldOK, MarksOK, TodoOK, LoopTypeOK, world
LEMMA StartInitsKeeps == StepInv /\ StartInits /\ UNCHANGED under => StepInv'
  BY DEF StepInv, StartInits, AllHadTurns, LandOK, UnitsOK, GoldOK, MarksOK, TodoOK, LoopTypeOK, world
LEMMA EndTickKeeps == StepInv /\ EndTick /\ UNCHANGED under => StepInv'
<1> SUFFICES ASSUME StepInv, EndTick, UNCHANGED under PROVE StepInv'
  OBVIOUS
<1>1. UnitsOK'
  <2>1. ASSUME NEW u \in UnitIds PROVE unit'[u] \in SoundUnit
    <3>0. unit[u] \in SoundUnit
      BY DEF StepInv, UnitsOK
    <3>1. CASE unit[u].type = "Trade"
      <4>1. unit'[u] = [unit[u] EXCEPT !.safe = Least(@ + 1, SafeTicks)]
        BY <3>1 DEF EndTick
      <4>2. Least(unit[u].safe + 1, SafeTicks) \in 0 .. SafeTicks
        BY <3>0, Numbers DEF Least, SoundUnit, UnitType
      <4> QED BY <3>0, <3>1, <4>1, <4>2, AgedIsSound
    <3>2. CASE unit[u].type # "Trade"
      BY <3>0, <3>2 DEF EndTick, SoundUnit, UnitType
    <3> QED BY <3>1, <3>2
  <2> QED BY <2>1 DEF UnitsOK, EndTick
<1> QED BY <1>1 DEF StepInv, EndTick, CloseTick, LandOK, GoldOK, MarksOK, TodoOK, LoopTypeOK, world

LEMMA PlayerTurnKeeps == StepInv /\ PlayerTurn /\ UNCHANGED under => StepInv'
<1> SUFFICES ASSUME StepInv, PlayerTurn, UNCHANGED under PROVE StepInv'
  OBVIOUS
<1> DEFINE p == Me.by
<1>1. Me \in GoodJob /\ p \in Players /\ LoopTypeOK(GoodJob) /\ UnitsOK /\ LandOK /\ GoldOK
  BY MeIs, KindsOfJobs DEF StepInv, PlayerTurn
<1>2. Reconciled(p) \in [UnitIds -> SoundUnit]
  <2>1. ASSUME NEW u \in UnitIds, u \in Ports(p), land[unit[u].at] # Neutral
        PROVE  [unit[u] EXCEPT !.holder = land[unit[u].at]] \in SoundUnit
    <3>1. Exists(u) /\ unit[u].at \in Places
      BY <1>1, <2>1, HoldersArePlayers DEF Ports, OfType, Exists
    <3>2. land[unit[u].at] \in Players
      BY <1>1, <2>1, <3>1 DEF LandOK
    <3> QED BY <1>1, <3>1, <3>2, HeldIsSound DEF UnitsOK, Exists
  <2> QED BY <1>1, <2>1, NoUnitIsSound DEF Reconciled, UnitsOK
<1>3. Buried(Reconciled(p), p) \in [UnitIds -> SoundUnit]
  BY <1>2, NoUnitIsSound DEF Buried
<1>4. UnitsOK' /\ LandOK' /\ GoldOK'
  BY <1>1, <1>2, <1>3 DEF PlayerTurn, UnitsOK, LandOK, GoldOK
<1>5. LoopTypeOK(GoodJob)'
  <2>1. uninit' \in Seq(GoodJob) /\ UNCHANGED phase
    BY <1>1, SameJob DEF PlayerTurn
  <2>2. Stay(Me) \/ Done
    BY DEF PlayerTurn
  <2>3. Turn("player")
    BY DEF PlayerTurn
  <2> QED BY <1>1, <2>1, <2>2, <2>3, StayKeeps, DoneKeeps
<1> QED BY <1>4, <1>5 DEF StepInv, PlayerTurn, MarksOK, TodoOK

LEMMA PortTurnKeeps == StepInv /\ PortTurn /\ UNCHANGED under => StepInv'
<1> SUFFICES ASSUME StepInv, PortTurn, UNCHANGED under PROVE StepInv'
  OBVIOUS
<1> DEFINE u == Me.unit
           p == unit[u].holder
<1>0. Turn("port") /\ LoopTypeOK(GoodJob) /\ UnitsOK /\ uninit \in Seq(GoodJob) /\ UNCHANGED phase
  BY SameJob DEF PortTurn, StepInv
<1>1. Me \in [kind : {"port"}, by : Players, unit : UnitIds]
  BY <1>0, MeIs, KindsOfJobs
<1>2. LandOK' /\ UnitsOK' /\ GoldOK' /\ MarksOK'
  BY DEF StepInv, PortTurn, LandOK, UnitsOK, GoldOK, MarksOK, world
<1>3. CASE ~Exists(u) /\ Done /\ UNCHANGED <<uninit, todo>>
  <2>1. LoopTypeOK(GoodJob)'
    BY <1>0, <1>3, DoneKeeps
  <2> QED BY <1>2, <1>3, <2>1 DEF StepInv, TodoOK
<1>4. CASE Exists(u) /\ Stay([Me EXCEPT !.by = p])
  <2>1. p \in Players
    BY <1>0, <1>1, <1>4, HoldersArePlayers
  <2>2. [Me EXCEPT !.by = p] \in GoodJob
    <3>1. [Me EXCEPT !.by = p] \in [kind : {"port"}, by : Players, unit : UnitIds]
      BY <1>1, <2>1
    <3> QED BY <3>1, OthersAreGood
  <2>3. uninit' \in Seq(GoodJob) /\ TodoOK'
    <3>1. CASE UNCHANGED <<uninit, todo>>
      BY <1>0, <3>1 DEF StepInv, TodoOK
    <3>2. CASE /\ todo.voyages > 0
               /\ \E v \in TradingPorts(p) : Add(<<TradeJob(p, u, v, unit[v].holder)>>)
               /\ todo' = [todo EXCEPT !.voyages = @ - 1]
      <4>1. PICK v \in TradingPorts(p) : Add(<<TradeJob(p, u, v, unit[v].holder)>>)
        BY <3>2
      <4>2. v \in UnitIds /\ unit[v].holder \in Players
        BY <1>0, HoldersArePlayers DEF TradingPorts, OfType, Exists
      <4>3. TradeJob(p, u, v, unit[v].holder) \in TradeType
        BY <1>1, <2>1, <4>2 DEF TradeJob, TradeType
      <4>4. <<TradeJob(p, u, v, unit[v].holder)>> \in Seq(GoodJob)
        BY <4>3, TradesAreGood DEF TradeJob
      <4>5. uninit' \in Seq(GoodJob)
        BY <1>0, <4>1, <4>4, AddIn
      <4>6. TodoOK'
        BY <3>2 DEF StepInv, TodoOK, TodoType
      <4> QED BY <4>5, <4>6
    <3> QED BY <1>4, <3>1, <3>2 DEF PortTurn, Exists
  <2>4. LoopTypeOK(GoodJob)'
    BY <1>0, <1>4, <2>2, <2>3, StayKeeps
  <2> QED BY <1>2, <2>3, <2>4 DEF StepInv
<1> QED BY <1>3, <1>4 DEF PortTurn

LEMMA TradeFailsKeeps == StepInv /\ TradeFails /\ UNCHANGED under => StepInv'
<1> SUFFICES ASSUME StepInv, TradeFails, UNCHANGED under PROVE StepInv'
  OBVIOUS
<1>1. LoopTypeOK(GoodJob)'
  BY SameJob, DoneKeeps DEF StepInv, TradeFails, Tick
<1> QED BY <1>1 DEF StepInv, TradeFails, Tick, LandOK, UnitsOK, GoldOK, MarksOK, TodoOK, world

LEMMA TradeTurnKeeps == StepInv /\ TradeTurn /\ UNCHANGED under => StepInv'
<1> SUFFICES ASSUME StepInv, TradeTurn, UNCHANGED under PROVE StepInv'
  OBVIOUS
<1> DEFINE u == Built
           p == WithShip[u].holder
           x == WithShip[u].at
<1>1. /\ Turn("trade") /\ LoopTypeOK(GoodJob) /\ UnitsOK /\ uninit' \in Seq(GoodJob)
      /\ UNCHANGED phase
  BY SameJob DEF TradeTurn, StepInv, Tick
<1>2. Me \in TradeType
  BY <1>1, MeIs, KindsOfJobs
<1>3. LandOK' /\ MarksOK' /\ TodoOK'
  BY DEF StepInv, TradeTurn, Tick, LandOK, MarksOK, TodoOK, world
<1>4. u \in UnitIds /\ WithShip \in [UnitIds -> SoundUnit]
  <2>1. CASE Me.unit = None
    <3>1. Me.src \in Ports(Me.by) /\ FreeIds # {}
      BY <2>1 DEF TradeTurn
    <3>2. Me.by # Neutral
      BY <1>2, Ranges DEF TradeType, Neutral
    <3>3. Me.by \in Players /\ unit[Me.src].at \in Places
      BY <1>1, <1>2, <3>1, <3>2, HeldExist DEF Ports, TradeType
    <3>4. New("Trade", Me.by, unit[Me.src].at) \in SoundUnit
      BY <3>3, NewIsSound
    <3> QED BY <1>1, <2>1, <3>1, <3>4, FreshIsFree DEF Built, WithShip, UnitsOK
  <2>2. CASE Me.unit # None
    BY <1>1, <1>2, <2>2 DEF Built, WithShip, UnitsOK, TradeType
  <2> QED BY <2>1, <2>2
<1>5. CASE p = Neutral
  <2>1. Done /\ UNCHANGED <<unit, gold>>
    BY <1>5 DEF TradeTurn
  <2>2. LoopTypeOK(GoodJob)'
    BY <1>1, <2>1, DoneKeeps
  <2> QED BY <1>3, <2>1, <2>2 DEF StepInv, UnitsOK, GoldOK
<1>6. CASE p # Neutral /\ Pointless(p)
  <2>1. Done /\ unit' = Dismissed(u) /\ UNCHANGED gold
    BY <1>6 DEF TradeTurn
  <2>2. LoopTypeOK(GoodJob)'
    BY <1>1, <2>1, DoneKeeps
  <2>3. UnitsOK'
    BY <1>1, <2>1, WithoutIsSound DEF UnitsOK, Dismissed
  <2> QED BY <1>3, <2>1, <2>2, <2>3 DEF StepInv, GoldOK
<1>7. CASE p # Neutral /\ ~Pointless(p)
  <2>1. PICK d \in Bound(p, x) :
          LET y == Toward(x, unit[d].at) IN
          IF unit[d].at = x
          THEN /\ Done /\ unit' = Without({u})
               /\ gold' = [q \in Players |-> IF q \in Paid(p) THEN gold[q] + 1 ELSE gold[q]]
          ELSE /\ unit' = [WithShip EXCEPT ![u].at = y,
                                           ![u].safe = IF y \in Shoreline THEN 0 ELSE @]
               /\ Stay([Me EXCEPT !.unit = u, !.robbed = Robbed(p), !.dst = d,
                                  !.srcOwner = Known(Me.src, @), !.dstOwner = Known(d, @)])
               /\ UNCHANGED gold
    BY <1>7 DEF TradeTurn
  <2>2. WithShip[u].type # "none" /\ p \in Players /\ x \in Places
    BY <1>4, <1>7 DEF SoundUnit, UnitType, NoUnit
  <2>3. d \in UnitIds /\ Exists(d) /\ unit[d].at \in Places
    <3>1. CASE Robbed(p) /\ Me.dst \notin HeldBy(p)
      BY <1>1, <1>7, <2>1, <3>1, HeldExist DEF Bound, Ports
    <3>2. CASE Robbed(p) /\ Me.dst \in HeldBy(p)
      BY <1>1, <1>7, <2>1, <3>2, HeldExist DEF Bound
    <3>3. CASE ~Robbed(p)
      BY <1>1, <1>2, <1>7, <2>1, <3>3, HoldersArePlayers DEF Bound, Pointless, Refused, TradeType
    <3> QED BY <3>1, <3>2, <3>3
  <2>4. CASE unit[d].at = x
    <3>1. LoopTypeOK(GoodJob)'
      BY <1>1, <2>1, <2>4, DoneKeeps
    <3>2. UnitsOK'
      BY <1>1, <2>1, <2>4, WithoutIsSound DEF UnitsOK
    <3>3. GoldOK'
      BY <2>1, <2>4 DEF StepInv, GoldOK
    <3> QED BY <1>3, <3>1, <3>2, <3>3 DEF StepInv
  <2>5. CASE unit[d].at # x
    <3> DEFINE y == Toward(x, unit[d].at)
               n == IF y \in Shoreline THEN 0 ELSE WithShip[u].safe
               j == [Me EXCEPT !.unit = u, !.robbed = Robbed(p), !.dst = d,
                               !.srcOwner = Known(Me.src, @), !.dstOwner = Known(d, @)]
    <3>1. y \in Places
      BY <2>2, <2>3, TowardIn
    <3>2. n \in 0 .. SafeTicks
      BY <1>4, Numbers DEF SoundUnit, UnitType
    <3>3. Known(Me.src, Me.srcOwner) \in Players /\ Known(d, Me.dstOwner) \in Players
      BY <1>1, <1>2, <2>3, HoldersArePlayers DEF Known, TradeType
    <3>4. Robbed(p) \in BOOLEAN
      BY <1>2 DEF Robbed, TradeType
    <3>5. j \in TradeType
      BY <1>2, <1>4, <2>3, <3>3, <3>4 DEF TradeType
    <3>6. UnitsOK' /\ GoldOK'
      <4>1. unit' = [WithShip EXCEPT ![u] = [WithShip[u] EXCEPT !.at = y, !.safe = n]]
        BY <1>4, <2>1, <2>5 DEF SoundUnit, UnitType
      <4>2. WithShip[u] \in SoundUnit /\ 1 \in 1 .. MaxHealth
        BY <1>4, Numbers
      <4>3. [WithShip[u] EXCEPT !.at = y, !.safe = n] \in SoundUnit
        BY <2>2, <3>1, <3>2, <4>2, MovedIsSound
      <4> QED BY <1>4, <2>1, <2>5, <4>1, <4>3 DEF UnitsOK, StepInv, GoldOK
    <3>7. LoopTypeOK(GoodJob)'
      <4>1. j \in GoodJob
        <5>1. j.unit # None
          BY <1>2, <1>4, Ranges DEF TradeType, None
        <5> QED BY <3>5, <5>1, TradesAreGood
      <4>2. Stay(j)
        BY <2>1, <2>5
      <4> HIDE DEF j
      <4> QED BY <1>1, <4>1, <4>2, StayKeeps
    <3> QED BY <1>3, <3>6, <3>7 DEF StepInv
  <2> QED BY <2>4, <2>5
<1> QED BY <1>5, <1>6, <1>7

\* What becomes of a ship that its execution still commands.
LEMMA MyShipSails ==
    ASSUME LoopTypeOK(GoodJob), UnitsOK, Turn("ship"), Me.unit \in HeldBy(Me.by)
    PROVE  /\ Me.unit \in UnitIds /\ Exists(Me.unit)
           /\ Turning(Aged(Me), unit[Me.unit].at, unit[Me.unit].health) \in GoodTurn
           /\ Sorties(Turning(Aged(Me), unit[Me.unit].at, unit[Me.unit].health)) \subseteq GoodTurn
<1> DEFINE u == Me.unit
           s0 == Turning(Aged(Me), unit[u].at, unit[u].health)
<1>1. Me \in ShipType /\ Orderly(Me)
  BY MeIs, KindsOfJobs DEF GoodJob
<1>2. u \in UnitIds /\ Exists(u) /\ unit[u].at \in Places /\ unit[u].health \in 1 .. MaxHealth
  <2>1. Me.by # Neutral
    BY <1>1, Ranges DEF ShipType, Neutral
  <2>2. u \in UnitIds /\ Exists(u)
    BY <2>1, HeldExist
  <2> QED BY <2>2, HoldersArePlayers
<1>3. s0 \in GoodTurn
  <2>1. Aged(Me) \in ShipType /\ Orderly(Aged(Me)) /\ Aged(Me).unit = u
    <3>1. Least(Me.since + 1, Gap + 1) \in 0 .. Gap + 1
      BY <1>1, Numbers DEF ShipType, Least
    <3>2. Least(Me.grace + 1, Grace) \in 0 .. Grace
      BY <1>1, Numbers DEF ShipType, Least
    <3>3. Least(Me.grace + 1, Grace) < Grace => Me.grace < Grace
      BY <1>1, Numbers DEF ShipType, Least
    <3> QED BY <1>1, <3>1, <3>2, <3>3 DEF Aged, ShipType, Orderly
  <2>2. <<>> \in Seq(ShellType)
    BY EmptySeq
  <2> QED BY <1>2, <2>1, <2>2 DEF Turning, GoodTurn, TurnType
<1>4. Sorties(s0) \subseteq GoodTurn
  <2>1. execs \in Seq(JobType)
    BY GoodJobsAreJobs DEF LoopTypeOK
  <2> HIDE DEF s0
  <2> QED BY <1>3, <2>1, SortiesGood
<1> QED BY <1>2, <1>3, <1>4

LEMMA ShipTurnKeeps == StepInv /\ ShipTurn /\ UNCHANGED under => StepInv'
<1> SUFFICES ASSUME StepInv, ShipTurn, UNCHANGED under PROVE StepInv'
  OBVIOUS
<1> DEFINE u == Me.unit
           s0 == Turning(Aged(Me), unit[u].at, unit[u].health)
<1>1. /\ Turn("ship") /\ LoopTypeOK(GoodJob) /\ UnitsOK /\ uninit \in Seq(GoodJob)
      /\ UNCHANGED phase
  BY SameJob DEF ShipTurn, StepInv, Tick
<1>2. Me \in ShipType /\ Orderly(Me)
  BY <1>1, MeIs, KindsOfJobs DEF GoodJob
<1>3. LandOK' /\ GoldOK' /\ MarksOK' /\ TodoOK'
  BY DEF StepInv, ShipTurn, Tick, LandOK, GoldOK, MarksOK, TodoOK, world
<1>4. CASE u \notin HeldBy(Me.by)
  <2>1. Done /\ UNCHANGED <<unit, uninit>>
    BY <1>4 DEF ShipTurn
  <2>2. LoopTypeOK(GoodJob)'
    BY <1>1, <2>1, DoneKeeps
  <2> QED BY <1>3, <2>1, <2>2 DEF StepInv, UnitsOK
<1>5. CASE u \in HeldBy(Me.by)
  <2>1. u \in UnitIds /\ Exists(u)
    BY <1>1, <1>5, MyShipSails
  <2>3. PICK s \in Sorties(s0) :
          /\ unit' = [v \in UnitIds |->
                        IF v = u THEN [unit[u] EXCEPT !.at = s.at, !.health = s.hp]
                        ELSE IF v = s.prize THEN [unit[v] EXCEPT !.holder = Me.by]
                        ELSE unit[v]]
          /\ Stay(s.job) /\ Add(s.shots)
    BY <1>5 DEF ShipTurn
  <2>4. s \in GoodTurn
    BY <1>1, <1>5, <2>3, MyShipSails
  <2>5. LoopTypeOK(GoodJob)'
    <3>1. s.job \in GoodJob
      BY <2>4, ShipsAreGood DEF GoodTurn, TurnType
    <3>2. s.shots \in Seq(GoodJob)
      <4>1. ShellType \subseteq GoodJob
        BY OthersAreGood
      <4> QED BY <2>4, <4>1, SeqMonotonic DEF GoodTurn, TurnType
    <3>3. uninit' \in Seq(GoodJob)
      BY <1>1, <2>3, <3>2, AddIn
    <3> QED BY <1>1, <2>3, <3>1, <3>3, StayKeeps
  <2>6. UnitsOK'
    <3>1. ASSUME NEW v \in UnitIds PROVE unit'[v] \in SoundUnit
      <4>1. CASE v = u
        <5>1. unit'[v] = [unit[u] EXCEPT !.at = s.at, !.health = s.hp]
          BY <2>3, <4>1, <2>1
        <5>2. s.at \in Places /\ s.hp \in 1 .. MaxHealth
          BY <2>4 DEF GoodTurn, TurnType
        <5>3. unit[u] \in SoundUnit /\ unit[u].type # "none" /\ 0 \in 0 .. SafeTicks
          BY <1>1, <2>1, Numbers DEF UnitsOK, Exists
        <5>4. [unit[u] EXCEPT !.at = s.at, !.health = s.hp] \in SoundUnit
          <6> DEFINE w == unit[u]
          <6>1. w \in SoundUnit /\ w.type # "none"
            BY <5>3
          <6> HIDE DEF w
          <6>2. [w EXCEPT !.at = s.at, !.health = s.hp] \in SoundUnit
            BY <5>2, <5>3, <6>1, MovedIsSound
          <6> QED BY <6>2 DEF w
        <5> QED BY <5>1, <5>4
      <4>2. CASE v # u /\ v = s.prize
        <5>1. unit'[v] = [unit[v] EXCEPT !.holder = Me.by]
          BY <2>3, <4>2
        <5>2. Exists(v)
          BY <2>4, <4>2, Ranges DEF GoodTurn, TurnType, None
        <5>3. [unit[v] EXCEPT !.holder = Me.by] \in SoundUnit
          BY <1>1, <1>2, <5>2, HeldIsSound DEF UnitsOK, Exists, ShipType
        <5> QED BY <5>1, <5>3
      <4>3. CASE v # u /\ v # s.prize
        BY <1>1, <2>3, <4>3 DEF UnitsOK
      <4> QED BY <4>1, <4>2, <4>3
    <3> QED BY <2>3, <3>1 DEF UnitsOK
  <2> QED BY <1>3, <2>5, <2>6 DEF StepInv
<1> QED BY <1>4, <1>5

LEMMA ShellTurnKeeps == StepInv /\ ShellTurn /\ UNCHANGED under => StepInv'
<1> SUFFICES ASSUME StepInv, ShellTurn, UNCHANGED under PROVE StepInv'
  OBVIOUS
<1>1. /\ Turn("shell") /\ LoopTypeOK(GoodJob) /\ UnitsOK /\ uninit' \in Seq(GoodJob)
      /\ UNCHANGED phase
  BY SameJob DEF ShellTurn, StepInv, Tick
<1>2. Me \in ShellType
  BY <1>1, MeIs, KindsOfJobs
<1>3. LandOK' /\ GoldOK' /\ MarksOK' /\ TodoOK'
  BY DEF StepInv, ShellTurn, Tick, LandOK, GoldOK, MarksOK, TodoOK, world
<1>4. CASE Fails /\ Done /\ UNCHANGED unit
  <2>1. LoopTypeOK(GoodJob)'
    BY <1>1, <1>4, DoneKeeps
  <2> QED BY <1>1, <1>3, <1>4, <2>1 DEF StepInv, UnitsOK
<1>5. CASE ~Fails /\ Done /\ \E d \in Damages : unit' = Hit(Me.prey, d)
  <2>1. LoopTypeOK(GoodJob)'
    BY <1>1, <1>5, DoneKeeps
  <2>2. PICK d \in Damages : unit' = Hit(Me.prey, d)
    BY <1>5
  <2> DEFINE u == Me.prey
             h == unit[u].health - d
  <2>3. u \in UnitIds /\ Exists(u) /\ unit[u].health \in 1 .. MaxHealth
    <3>1. u \in HeldBy(Me.victim) /\ Me.victim # Neutral
      BY <1>2, <1>5, Ranges DEF Fails, ShellType, Neutral
    <3>2. u \in UnitIds /\ Exists(u)
      BY <1>1, <3>1, HeldExist
    <3> QED BY <1>1, <3>2, HoldersArePlayers
  <2>4. CASE unit[u].health <= d
    BY <1>1, <1>3, <2>1, <2>2, <2>4, WithoutIsSound DEF StepInv, UnitsOK, Hit
  <2>5. CASE ~(unit[u].health <= d)
    <3>1. h \in 1 .. MaxHealth
      BY <2>3, <2>5, Numbers
    <3>2. unit[u] \in SoundUnit /\ unit[u].type # "none"
      BY <1>1, <2>3 DEF UnitsOK, Exists
    <3>3. unit' = [unit EXCEPT ![u] = [unit[u] EXCEPT !.health = h]]
      BY <1>1, <2>2, <2>3, <2>5 DEF Hit, UnitsOK, SoundUnit, UnitType
    <3>4. [unit[u] EXCEPT !.health = h] \in SoundUnit
      <4> HIDE DEF h
      <4> QED BY <3>1, <3>2, HurtIsSound
    <3>5. UnitsOK'
      BY <1>1, <3>3, <3>4 DEF UnitsOK
    <3> QED BY <1>3, <2>1, <3>5 DEF StepInv
  <2> QED BY <2>4, <2>5
<1>6. CASE /\ ~Fails /\ Me.left > 0
           /\ Stay([Me EXCEPT !.built = TRUE, !.left = @ - 1, !.fuse = Fuse])
           /\ UNCHANGED unit
  <2> DEFINE j == [Me EXCEPT !.built = TRUE, !.left = @ - 1, !.fuse = Fuse]
  <2>1. Me.left - 1 \in 0 .. MaxFlight
    BY <1>2, <1>6, Numbers DEF ShellType
  <2>2. Fuse \in -1 .. ShellLife
    BY <1>2, Numbers DEF Fuse, ShellType
  <2>3. j \in ShellType
    BY <1>2, <2>1, <2>2 DEF ShellType
  <2>4. j \in GoodJob
    BY <2>3, OthersAreGood
  <2>5. Stay(j)
    BY <1>6
  <2>6. LoopTypeOK(GoodJob)'
    <3> HIDE DEF j
    <3> QED BY <1>1, <2>4, <2>5, StayKeeps
  <2> QED BY <1>1, <1>3, <1>6, <2>6 DEF StepInv, UnitsOK
<1> QED BY <1>4, <1>5, <1>6 DEF ShellTurn

LEMMA YardTurnKeeps == StepInv /\ YardTurn /\ UNCHANGED under => StepInv'
<1> SUFFICES ASSUME StepInv, YardTurn, UNCHANGED under PROVE StepInv'
  OBVIOUS
<1>1. /\ Turn("yard") /\ LoopTypeOK(GoodJob) /\ uninit \in Seq(GoodJob) /\ UNCHANGED phase
      /\ Add(<<ShipJob(Me.by, None, Me.at)>>) /\ Done
  BY SameJob DEF YardTurn, StepInv, Tick
<1>2. Me \in [kind : {"yard"}, by : Players, at : Places]
  BY <1>1, MeIs, KindsOfJobs
<1>3. <<ShipJob(Me.by, None, Me.at)>> \in Seq(GoodJob)
  <2>1. Gap + 1 \in 0 .. Gap + 1 /\ Grace \in 0 .. Grace /\ ~(Grace < Grace)
    BY Numbers
  <2>2. ShipJob(Me.by, None, Me.at) \in ShipType /\ Orderly(ShipJob(Me.by, None, Me.at))
    BY <1>2, <2>1 DEF ShipJob, ShipType, Orderly
  <2> QED BY <2>2, ShipsAreGood
<1>4. uninit' \in Seq(GoodJob)
  BY <1>1, <1>3, AddIn
<1>5. LoopTypeOK(GoodJob)'
  BY <1>1, <1>4, DoneKeeps
<1> QED BY <1>5 DEF StepInv, YardTurn, Tick, LandOK, UnitsOK, GoldOK, MarksOK, TodoOK, world

LEMMA InitPlainKeeps == StepInv /\ InitPlain /\ UNCHANGED under => StepInv'
<1> SUFFICES ASSUME StepInv, InitPlain, UNCHANGED under PROVE StepInv'
  OBVIOUS
<1>1. uninit # <<>> /\ execs \in Seq(GoodJob) /\ uninit \in Seq(GoodJob)
  BY DEF InitPlain, DueInit, StepInv, LoopTypeOK
<1>2. execs' \in Seq(GoodJob) /\ uninit' \in Seq(GoodJob)
  BY <1>1, InitIn DEF InitPlain, Append1
<1> QED BY <1>2 DEF StepInv, InitPlain, Initing, LandOK, UnitsOK, GoldOK, MarksOK, TodoOK,
                    LoopTypeOK, world

LEMMA NewIsPlaced ==
    ASSUME UnitsOK, FreeIds # {}, NEW type \in {"Port", "Warship", "Trade", "Transport"},
           NEW p \in Players, NEW x \in Places
    PROVE  [unit EXCEPT ![Fresh] = New(type, p, x)] \in [UnitIds -> SoundUnit]
  BY FreshIsFree, NewIsSound DEF UnitsOK

LEMMA InitShipKeeps == StepInv /\ InitShip /\ UNCHANGED under => StepInv'
<1> SUFFICES ASSUME StepInv, InitShip, UNCHANGED under PROVE StepInv'
  OBVIOUS
<1>1. /\ uninit # <<>> /\ execs \in Seq(GoodJob) /\ uninit \in Seq(GoodJob) /\ UnitsOK
      /\ uninit[1].kind = "ship"
  BY DEF InitShip, DueInit, StepInv, LoopTypeOK
<1>2. New1 \in ShipType /\ Orderly(New1) /\ Tail(uninit) \in Seq(GoodJob)
  BY <1>1, InitIn, KindsOfJobs DEF GoodJob, New1
<1>3. UnitsOK' /\ execs' \in Seq(GoodJob) /\ uninit' \in Seq(GoodJob)
  <2>1. CASE Drop1 /\ UNCHANGED unit
    BY <1>1, <1>2, <2>1 DEF Drop1, UnitsOK
  <2>2. CASE /\ FreeIds # {}
             /\ \E x \in Nearest(PortsAt(New1.by), New1.patrol) :
                   unit' = [unit EXCEPT ![Fresh] = New("Warship", New1.by, x)]
             /\ Append1([New1 EXCEPT !.unit = Fresh])
    <3>1. PICK x \in Nearest(PortsAt(New1.by), New1.patrol) :
                 unit' = [unit EXCEPT ![Fresh] = New("Warship", New1.by, x)]
      BY <2>2
    <3>2. New1.by \in Players /\ x \in Places
      BY <1>1, <1>2, PortsAreSomewhere, NearestIn DEF ShipType
    <3>3. UnitsOK'
      BY <1>1, <2>2, <3>1, <3>2, NewIsPlaced DEF UnitsOK
    <3>4. [New1 EXCEPT !.unit = Fresh] \in GoodJob
      <4>1. Fresh \in UnitIds
        BY <2>2, FreshIsFree
      <4>2. [New1 EXCEPT !.unit = Fresh] \in ShipType /\ Orderly([New1 EXCEPT !.unit = Fresh])
        BY <1>2, <4>1 DEF ShipType, Orderly
      <4> QED BY <4>2, ShipsAreGood
    <3>5. execs' \in Seq(GoodJob) /\ uninit' \in Seq(GoodJob)
      <4>1. \A j \in GoodJob : Append(execs, j) \in Seq(GoodJob)
        BY <1>1, InitIn
      <4> QED BY <1>2, <2>2, <3>4, <4>1 DEF Append1
    <3> QED BY <3>3, <3>5
  <2> QED BY <2>1, <2>2 DEF InitShip
<1> QED BY <1>3 DEF StepInv, InitShip, Initing, LandOK, GoldOK, MarksOK, TodoOK, LoopTypeOK, world

\* An order gives a ship another patrol tile and no more.
LEMMA RedirectedIsGood ==
    ASSUME NEW j \in GoodJob, j.kind = "ship", NEW x \in Places
    PROVE  /\ [j EXCEPT !.patrol = x] \in GoodJob
           /\ [j EXCEPT !.patrol = x, !.goal = None] \in GoodJob
<1>1. j \in ShipType /\ Orderly(j)
  BY KindsOfJobs DEF GoodJob
<1>2. /\ [j EXCEPT !.patrol = x] \in ShipType /\ Orderly([j EXCEPT !.patrol = x])
  BY <1>1 DEF ShipType, Orderly
<1>3. /\ [j EXCEPT !.patrol = x, !.goal = None] \in ShipType
      /\ Orderly([j EXCEPT !.patrol = x, !.goal = None])
  BY <1>1 DEF ShipType, Orderly
<1> QED BY <1>2, <1>3, ShipsAreGood

LEMMA InitMoveKeeps == StepInv /\ InitMove /\ UNCHANGED under => StepInv'
<1> SUFFICES ASSUME StepInv, InitMove, UNCHANGED under PROVE StepInv'
  OBVIOUS
<1>1. /\ uninit # <<>> /\ execs \in Seq(GoodJob) /\ uninit \in Seq(GoodJob)
      /\ uninit[1].kind = "move"
  BY DEF InitMove, DueInit, StepInv, LoopTypeOK
<1>2. New1.at \in Places /\ Tail(uninit) \in Seq(GoodJob)
  BY <1>1, InitIn, KindsOfJobs DEF GoodJob, New1
<1>3. execs' \in [DOMAIN execs -> GoodJob]
  <2>1. \A i \in DOMAIN execs : execs[i] \in GoodJob
    BY <1>1
  <2> QED BY <1>2, <2>1, RedirectedIsGood DEF InitMove
<1>4. execs' \in Seq(GoodJob) /\ uninit' \in Seq(GoodJob)
  BY <1>1, <1>2, <1>3, EachIn DEF InitMove
<1> QED BY <1>4 DEF StepInv, InitMove, Initing, LandOK, UnitsOK, GoldOK, MarksOK, TodoOK,
                    LoopTypeOK, world

-----------------------------------------------------------------------------
(* What comes from outside. *)

LEMMA SpentKeeps ==
    ASSUME TodoOK, NEW x, NEW f \in {"orders", "steers", "landings", "falls", "bombs", "boats",
                                     "pairs", "bans"}, Spent(f, x)
    PROVE  TodoOK'
  BY DEF TodoOK, TodoType, Spent
LEMMA HappensKeeps ==
    ASSUME LoopTypeOK(GoodJob), Happens, execs' \in Seq(GoodJob)
    PROVE  LoopTypeOK(GoodJob)' /\ UNCHANGED gold
  BY DEF LoopTypeOK, Happens
LEMMA SameJobs == ASSUME LoopTypeOK(GoodJob) PROVE execs \in Seq(GoodJob)
  BY DEF LoopTypeOK

LEMMA OrderKeeps ==
    ASSUME StepInv, NEW x \in todo.orders, Order(x), UNCHANGED under
    PROVE  StepInv'
<1>1. <<x>> \in Seq(GoodJob)
  <2>1. x \in GoodJob
    BY OthersAreGood DEF StepInv, TodoOK, TodoType
  <2> QED BY <2>1
<1>2. uninit' \in Seq(GoodJob)
  BY <1>1, SameJob, AddIn DEF StepInv, Order
<1>3. LoopTypeOK(GoodJob)'
  BY <1>2 DEF StepInv, LoopTypeOK, Order
<1>4. TodoOK'
  BY SpentKeeps DEF StepInv, Order
<1> QED BY <1>3, <1>4 DEF StepInv, Order, LandOK, UnitsOK, GoldOK, MarksOK, world

LEMMA SteerKeeps ==
    ASSUME StepInv, NEW x \in todo.steers, Steer(x), UNCHANGED under
    PROVE  StepInv'
<1>1. x[2] \in Places /\ execs \in Seq(GoodJob)
  BY SameJobs DEF StepInv, TodoOK, TodoType
<1>2. execs' \in [DOMAIN execs -> GoodJob]
  <2>1. \A i \in DOMAIN execs : execs[i] \in GoodJob
    BY <1>1
  <2> QED BY <1>1, <2>1, RedirectedIsGood DEF Steer
<1>3. execs' \in Seq(GoodJob)
  BY <1>1, <1>2, EachIn DEF Steer
<1>4. LoopTypeOK(GoodJob)' /\ UNCHANGED gold
  BY <1>3, HappensKeeps DEF StepInv, Steer
<1>5. TodoOK'
  BY SpentKeeps DEF StepInv, Steer
<1> QED BY <1>4, <1>5 DEF StepInv, Steer, LandOK, UnitsOK, GoldOK, MarksOK, world

LEMMA ConquerKeeps ==
    ASSUME StepInv, NEW x \in todo.landings, Conquer(x), UNCHANGED under
    PROVE  StepInv'
<1>1. LoopTypeOK(GoodJob)' /\ UNCHANGED gold
  BY SameJobs, HappensKeeps DEF StepInv, Conquer
<1>2. TodoOK'
  BY SpentKeeps DEF StepInv, Conquer
<1>3. x[1] \in Players
  BY DEF StepInv, TodoOK, TodoType
<1>4. LandOK'
  BY <1>3 DEF StepInv, Conquer, LandOK
<1> QED BY <1>1, <1>2, <1>4 DEF StepInv, Conquer, UnitsOK, GoldOK, MarksOK

LEMMA SubdueKeeps ==
    ASSUME StepInv, NEW x \in todo.falls, Subdue(x), UNCHANGED under
    PROVE  StepInv'
<1>1. LoopTypeOK(GoodJob)' /\ UNCHANGED gold
  BY SameJobs, HappensKeeps DEF StepInv, Subdue
<1>2. TodoOK'
  BY SpentKeeps DEF StepInv, Subdue
<1>3. x[1] \in Players
  BY DEF StepInv, TodoOK, TodoType
<1>4. LandOK'
  BY <1>3 DEF StepInv, Subdue, LandOK
<1>5. UnitsOK'
  <2>1. ASSUME NEW u \in UnitIds PROVE unit'[u] \in SoundUnit
    <3>1. unit[u] \in SoundUnit
      BY DEF StepInv, UnitsOK
    <3>2. unit[u].type \in {"Warship", "Transport"} => [unit[u] EXCEPT !.holder = x[1]] \in SoundUnit
      BY <1>3, <3>1, HeldIsSound
    <3> QED BY <3>1, <3>2 DEF Subdue
  <2> QED BY <2>1 DEF Subdue, UnitsOK
<1> QED BY <1>1, <1>2, <1>4, <1>5 DEF StepInv, GoldOK, MarksOK

LEMMA BombKeeps ==
    ASSUME StepInv, NEW x \in todo.bombs, Bomb(x), UNCHANGED under
    PROVE  StepInv'
<1>1. LoopTypeOK(GoodJob)' /\ UNCHANGED gold
  BY SameJobs, HappensKeeps DEF StepInv, Bomb
<1>2. TodoOK'
  BY SpentKeeps DEF StepInv, Bomb
<1>3. LandOK'
  BY DEF StepInv, Bomb, LandOK
<1>4. UnitsOK'
  BY WithoutIsSound DEF StepInv, Bomb, UnitsOK
<1> QED BY <1>1, <1>2, <1>3, <1>4 DEF StepInv, GoldOK, MarksOK

LEMMA EmbarkKeeps ==
    ASSUME StepInv, NEW x \in todo.boats, Embark(x), UNCHANGED under
    PROVE  StepInv'
<1>1. LoopTypeOK(GoodJob)' /\ UNCHANGED gold
  BY SameJobs, HappensKeeps DEF StepInv, Embark
<1>2. TodoOK'
  BY SpentKeeps DEF StepInv, Embark
<1>3. x[1] \in Players /\ x[2] \in Places
  BY DEF StepInv, TodoOK, TodoType
<1>4. UnitsOK'
  BY <1>3, NewIsPlaced DEF StepInv, Embark, UnitsOK
<1> QED BY <1>1, <1>2, <1>4 DEF StepInv, Embark, LandOK, GoldOK, MarksOK, world

LEMMA ArriveKeeps ==
    ASSUME StepInv, NEW u, Arrive(u), UNCHANGED under
    PROVE  StepInv'
<1>1. LoopTypeOK(GoodJob)' /\ UNCHANGED gold
  BY SameJobs, HappensKeeps DEF StepInv, Arrive
<1>2. UnitsOK'
  BY WithoutIsSound DEF StepInv, Arrive, UnitsOK
<1> QED BY <1>1, <1>2 DEF StepInv, Arrive, LandOK, GoldOK, MarksOK, TodoOK, world

LEMMA RealignKeeps ==
    ASSUME StepInv, NEW x \in todo.pairs, Realign(x), UNCHANGED under
    PROVE  StepInv'
<1>1. LoopTypeOK(GoodJob)' /\ UNCHANGED gold
  BY SameJobs, HappensKeeps DEF StepInv, Realign
<1>2. TodoOK'
  BY SpentKeeps DEF StepInv, Realign
<1>3. x \subseteq Players
  BY DEF StepInv, TodoOK, TodoType
<1>4. LandOK'
  BY <1>3 DEF StepInv, Realign, LandOK
<1> QED BY <1>1, <1>2, <1>4 DEF StepInv, Realign, UnitsOK, GoldOK, MarksOK

LEMMA BanKeeps ==
    ASSUME StepInv, NEW x \in todo.bans, Ban(x), UNCHANGED under
    PROVE  StepInv'
<1>1. LoopTypeOK(GoodJob)' /\ UNCHANGED gold
  BY SameJobs, HappensKeeps DEF StepInv, Ban
<1>2. TodoOK'
  BY SpentKeeps DEF StepInv, Ban
<1>3. LandOK'
  BY DEF StepInv, TodoOK, TodoType, Ban, LandOK
<1> QED BY <1>1, <1>2, <1>3 DEF StepInv, Ban, UnitsOK, GoldOK, MarksOK

LEMMA OutsideKeeps == StepInv /\ Outside /\ UNCHANGED under => StepInv'
  BY OrderKeeps, SteerKeeps, ConquerKeeps, SubdueKeeps, BombKeeps, EmbarkKeeps, ArriveKeeps,
     RealignKeeps, BanKeeps DEF Outside

-----------------------------------------------------------------------------
(* The doomsday clock. *)

LEMMA ClockNumbers ==
    /\ Second \in Nat \ {0} /\ Ramp \in Nat \ {0} /\ DrainRamp \in Nat \ {0}
    /\ Calm \in Nat /\ Pause \in Nat /\ Warn \in Nat /\ DrainStart \in Nat /\ DrainMax \in Nat
    /\ Len(Levels) \in Nat
<1>1. Levels \in Seq(0 .. 10000)
  BY DoomsdayAssumption
<1>2. Len(Levels) \in Nat
  BY <1>1, LenProperties
<1> QED BY <1>2, DoomsdayAssumption

LEMMA MarksKept == ASSUME MarksOK PROVE Marks \in [Players -> Nat \cup {Unmarked}]
<1>1. ASSUME NEW p \in Players PROVE Entered(p) \in Nat
  <2>1. under[p] + 1 \in Nat
    BY DEF MarksOK, Unmarked
  <2>2. Worst \in Nat
    BY ClockNumbers DEF Worst
  <2> QED BY <2>1, <2>2 DEF Entered, Least
<1> QED BY <1>1 DEF Marks, MarksOK

LEMMA DrainIsPositive ==
    ASSUME NEW t \in Int
    PROVE  Drain(t) \in Int /\ Drain(t) > 0
<1> DEFINE percent == IF t >= DrainRamp THEN DrainMax
                      ELSE DrainStart + ((DrainMax - DrainStart) * t) \div DrainRamp
<1>1. percent \in Int
  <2>1. (DrainMax - DrainStart) * t \in Int
    BY ClockNumbers
  <2>2. ((DrainMax - DrainStart) * t) \div DrainRamp \in Int
    <3> DEFINE n == (DrainMax - DrainStart) * t
    <3> HIDE DEF n
    <3> QED BY <2>1, ClockNumbers DEF n
  <2> QED BY <2>2, ClockNumbers
<1> HIDE DEF percent
<1>2. MaxHealth * percent \in Int
  BY <1>1, Numbers
<1> DEFINE n == MaxHealth * percent
<1>3. n \div 100 \in Int
  <2> HIDE DEF n
  <2> QED BY <1>2 DEF n
<1> DEFINE points == n \div 100
<1>4. Drain(t) = IF points < 1 THEN 1 ELSE points
  BY DEF Drain, percent
<1> HIDE DEF points, n
<1> QED BY <1>3, <1>4 DEF points

LEMMA ScuttledIsSound ==
    ASSUME UnitsOK, MarksOK
    PROVE  Scuttled \in [UnitIds -> SoundUnit]
<1>1. ASSUME NEW u \in UnitIds, unit[u].type = "Warship",
             ~(unit[u].health <= Drain(Entered(unit[u].holder) - Warn))
      PROVE  [unit[u] EXCEPT !.health = @ - Drain(Entered(unit[u].holder) - Warn)] \in SoundUnit
  <2> DEFINE p == unit[u].holder
             d == Drain(Entered(p) - Warn)
             h == unit[u].health - d
  <2>1. Exists(u) /\ p \in Players /\ unit[u].health \in 1 .. MaxHealth
    BY <1>1, HoldersArePlayers DEF Exists
  <2>2. Entered(p) - Warn \in Int
    <3>1. under[p] \in Int
      BY <2>1 DEF MarksOK, Unmarked
    <3> QED BY <3>1, ClockNumbers DEF Entered, Least, Worst
  <2>3. d \in Int /\ d > 0
    BY <2>2, DrainIsPositive
  <2> HIDE DEF d
  <2>4. h \in 1 .. MaxHealth
    BY <1>1, <2>1, <2>3, Numbers DEF d
  <2>5. unit[u] \in SoundUnit /\ unit[u].type # "none"
    BY <1>1 DEF UnitsOK
  <2>6. [unit[u] EXCEPT !.health = h] \in SoundUnit
    <3> HIDE DEF h
    <3> QED BY <2>4, <2>5, HurtIsSound
  <2>7. [unit[u] EXCEPT !.health = @ - d] = [unit[u] EXCEPT !.health = h]
    BY <2>5 DEF SoundUnit, UnitType
  <2> QED BY <2>6, <2>7 DEF d
<1>2. ASSUME NEW u \in UnitIds PROVE Scuttled[u] \in SoundUnit
  BY <1>1, NoUnitIsSound DEF Scuttled, UnitsOK
<1> QED BY <1>2 DEF Scuttled

LEMMA ClockTurnKeeps == StepInv /\ ClockTurn => StepInv'
<1> SUFFICES ASSUME StepInv, ClockTurn PROVE StepInv'
  OBVIOUS
<1>1. /\ Turn("clock") /\ LoopTypeOK(GoodJob) /\ uninit' \in Seq(GoodJob) /\ UNCHANGED phase
  BY SameJob DEF ClockTurn, StepInv, Tick
<1>2. Me \in [kind : {"clock"}, ticks : Nat]
  BY <1>1, MeIs, KindsOfJobs
<1>3. UnitsOK' /\ MarksOK'
  BY MarksKept, ScuttledIsSound DEF StepInv, ClockTurn, UnitsOK, MarksOK
<1>4. LoopTypeOK(GoodJob)'
  <2> DEFINE j == [Me EXCEPT !.ticks = Later(@)]
  <2>1. Later(Me.ticks) \in Nat
    <3>1. LastSecond \in Nat
      <4>1. Len(Levels) * (Ramp + Pause) \in Nat
        BY ClockNumbers
      <4> QED BY <4>1, ClockNumbers DEF LastSecond
    <3> DEFINE last == LastSecond * Second
    <3>2. last \in Nat
      BY <3>1, ClockNumbers
    <3> HIDE DEF last
    <3> QED BY <1>2, <3>2 DEF Later, last
  <2>2. j \in [kind : {"clock"}, ticks : Nat]
    BY <1>2, <2>1
  <2>3. j \in GoodJob
    BY <2>2, OthersAreGood
  <2>4. Stay(j)
    BY DEF ClockTurn
  <2> HIDE DEF j
  <2> QED BY <1>1, <2>3, <2>4, StayKeeps
<1> QED BY <1>3, <1>4 DEF StepInv, ClockTurn, Tick, LandOK, GoldOK, TodoOK, world

-----------------------------------------------------------------------------
(* The specification. *)

LEMMA StartIsGood ==
    ASSUME NEW s \in Scenarios
    PROVE  /\ Start(s.units, s.patrols) \in Seq(GoodJob)
           /\ [u \in UnitIds |-> IF u <= Len(s.units) THEN s.units[u] ELSE NoUnit]
              \in [UnitIds -> SoundUnit]
<1> DEFINE Start0 == [type : {"Port", "Warship"}, holder : Players, at : Places,
                      health : 1 .. MaxHealth, level : Nat \ {0}, safe : 0 .. SafeTicks]
<1>1. /\ s \in ScenarioType /\ s.units \in Seq(Start0) /\ s.patrols \in Seq(Places)
      /\ Len(s.patrols) = Len(s.units) /\ 1 .. Len(s.units) \subseteq UnitIds
  BY FleetAssumption DEF ScenarioType
<1>2. ASSUME NEW i \in 1 .. Len(s.units)
      PROVE  s.units[i] \in Start0 /\ s.patrols[i] \in Places /\ i \in UnitIds
  BY <1>1, ElementOfSeq
<1>3. ASSUME NEW v \in Start0 PROVE v \in SoundUnit /\ v.holder \in Players
  <2>1. v.holder # Neutral /\ v.at # None
    BY Ranges DEF Neutral, None
  <2>2. v.health \in 0 .. MaxHealth /\ v.health > 0
    BY Numbers
  <2> QED BY <2>1, <2>2 DEF SoundUnit, UnitType, UnitTypes, Ships
<1>4. ASSUME NEW i \in 1 .. Len(s.units)
      PROVE  /\ PortJob(s.units[i].holder, i) \in GoodJob
             /\ ShipJob(s.units[i].holder, i, s.patrols[i]) \in GoodJob
  <2>1. s.units[i].holder \in Players /\ s.patrols[i] \in Places /\ i \in UnitIds
    BY <1>2, <1>3
  <2>2. PortJob(s.units[i].holder, i) \in [kind : {"port"}, by : Players, unit : UnitIds]
    BY <2>1 DEF PortJob
  <2>3. Gap + 1 \in 0 .. Gap + 1 /\ Grace \in 0 .. Grace /\ ~(Grace < Grace)
    BY Numbers
  <2>4. /\ ShipJob(s.units[i].holder, i, s.patrols[i]) \in ShipType
        /\ Orderly(ShipJob(s.units[i].holder, i, s.patrols[i]))
    BY <2>1, <2>3 DEF ShipJob, ShipType, Orderly
  <2> QED BY <2>2, <2>4, OthersAreGood, ShipsAreGood
<1>5. Start(s.units, s.patrols) \in Seq(GoodJob)
  <2>1. Len(s.units) \in Nat
    BY <1>1, LenProperties
  <2>2. Start(s.units, s.patrols) \in [1 .. Len(s.units) -> GoodJob]
    BY <1>4 DEF Start
  <2> QED BY <2>1, <2>2, IsASeq
<1>6. ASSUME NEW u \in UnitIds, u <= Len(s.units) PROVE s.units[u] \in SoundUnit
  <2>1. u \in 1 .. Len(s.units)
    BY <1>1, <1>6, LenProperties, Ranges
  <2> QED BY <1>2, <1>3, <2>1
<1> QED BY <1>5, <1>6, NoUnitIsSound

LEMMA InitHolds == DoomInit => StepInv
<1> SUFFICES ASSUME DoomInit PROVE StepInv
  OBVIOUS
<1>1. PICK s \in Scenarios :
        /\ land = s.land /\ allies = {} /\ embargo = {} /\ offline = s.offline
        /\ unit = [u \in UnitIds |-> IF u <= Len(s.units) THEN s.units[u] ELSE NoUnit]
        /\ gold = [p \in Players |-> 0]
        /\ LoopInit(s.first \o [p \in Players |-> PlayerJob(p)] \o Start(s.units, s.patrols))
        /\ todo = s.todo
  BY DEF DoomInit, Init
<1>2. s \in ScenarioType
  BY FleetAssumption
<1>3. LandOK /\ TodoOK /\ GoldOK /\ MarksOK
  BY <1>1, <1>2 DEF LandOK, TodoOK, GoldOK, MarksOK, DoomInit, ScenarioType
<1>4. UnitsOK
  BY <1>1, StartIsGood DEF UnitsOK
<1>5. LoopTypeOK(GoodJob)
  <2> DEFINE players == [p \in Players |-> PlayerJob(p)]
  <2>1. s.first \in Seq(GoodJob)
    <3>1. [kind : {"clock"}, ticks : Nat] \subseteq GoodJob
      BY OthersAreGood
    <3>2. s.first \in Seq([kind : {"clock"}, ticks : Nat])
      BY <1>2 DEF ScenarioType
    <3> QED BY <3>1, <3>2, SeqMonotonic
  <2>2. players \in Seq(GoodJob)
    <3>1. ASSUME NEW p \in Players PROVE PlayerJob(p) \in GoodJob
      <4>1. PlayerJob(p) \in [kind : {"player"}, by : Players]
        BY DEF PlayerJob
      <4> QED BY <4>1, OthersAreGood
    <3>2. PICK n \in Nat : Players = 1 .. n
      BY Ranges
    <3>3. players \in [1 .. n -> GoodJob]
      BY <3>1, <3>2
    <3> QED BY <3>2, <3>3, IsASeq
  <2>3. Start(s.units, s.patrols) \in Seq(GoodJob)
    BY StartIsGood
  <2> HIDE DEF players
  <2>4. s.first \o players \o Start(s.units, s.patrols) \in Seq(GoodJob)
    <3>1. s.first \o players \in Seq(GoodJob)
      BY <2>1, <2>2, ConcatProperties
    <3> QED BY <2>3, <3>1, ConcatProperties
  <2>5. <<>> \in Seq(GoodJob)
    BY EmptySeq
  <2> QED BY <1>1, <2>4, <2>5 DEF LoopInit, LoopTypeOK, players
<1> QED BY <1>3, <1>4, <1>5 DEF StepInv

LEMMA NextKeeps == StepInv /\ [DoomNext]_doomVars => StepInv'
<1> SUFFICES ASSUME StepInv, [DoomNext]_doomVars PROVE StepInv'
  OBVIOUS
<1>1. CASE Engine /\ UNCHANGED under
  BY <1>1, StartTickKeeps, StartInitsKeeps, EndTickKeeps, PlayerTurnKeeps, PortTurnKeeps,
     TradeFailsKeeps, TradeTurnKeeps, ShipTurnKeeps, ShellTurnKeeps, YardTurnKeeps,
     InitPlainKeeps, InitShipKeeps, InitMoveKeeps DEF Engine
<1>2. CASE ClockTurn
  BY <1>2, ClockTurnKeeps
<1>3. CASE Outside /\ UNCHANGED under
  BY <1>3, OutsideKeeps
<1>4. CASE UNCHANGED doomVars
  BY <1>4 DEF StepInv, LandOK, UnitsOK, GoldOK, MarksOK, TodoOK, LoopTypeOK, doomVars, vars,
              world, loopVars
<1> QED BY <1>1, <1>2, <1>3, <1>4 DEF DoomNext, DoomEngine

LEMMA StepInvHolds == Spec => []StepInv
  BY InitHolds, NextKeeps, PTL DEF Spec

\* Every variable keeps its type, whatever is ordered, conquered, bombed or sunk: a unit
\* that is there has a holder, a place and health, and who steers, sends or hunts one
\* names ids, places and players.
THEOREM TypeCorrect == Spec => []TypeOK
  BY StepInvHolds, InvIsTypes, PTL

LEMMA InvIsOrderly == StepInv => OrdersComeFirst
<1> SUFFICES ASSUME StepInv, NEW i \in ShipJobs PROVE Orderly(execs[i])
  BY DEF OrdersComeFirst, Orderly
<1>1. execs \in Seq(GoodJob) /\ i \in 1 .. Len(execs) /\ execs[i].kind = "ship"
  BY DEF StepInv, LoopTypeOK, ShipJobs
<1>2. execs[i] \in GoodJob
  BY <1>1, ElementOfSeq
<1> QED BY <1>1, <1>2 DEF GoodJob

\* A warship that was sent somewhere neither retreats nor stays in port before its grace
\* is over (warship.rs, handle_manual_patrol_override and should_start_repair_retreat).
THEOREM OrdersComeFirstHolds == Spec => []OrdersComeFirst
  BY StepInvHolds, InvIsOrderly, PTL

-----------------------------------------------------------------------------
(* Voyages.  What a trade ship is sent to is a port, until it is lost: an id that is   *)
(* named by an execution is not given to another unit.                                 *)

AtPorts == {j \in GoodJob : j.kind = "trade" => unit[j.dst].type \in {"Port", "none"}}
VoyageInv == StepInv /\ execs \in Seq(AtPorts) /\ uninit \in Seq(AtPorts)

Sailing == {j \in AtPorts : j.kind = "trade" => j.dst \notin FreeIds}
\* A unit remains what it is until it is lost.
KindsKept == \A u \in UnitIds \ FreeIds : unit'[u].type \in {unit[u].type, "none"}

LEMMA NamedAreTaken ==
    ASSUME VoyageInv
    PROVE  execs \in Seq(Sailing) /\ uninit \in Seq(Sailing)
<1>1. ASSUME NEW j \in Range(execs) \cup Range(uninit), j \in AtPorts PROVE j \in Sailing
  <2>1. ASSUME j.kind = "trade" PROVE j.dst \in Named
    BY <1>1, <2>1 DEF Named
  <2> QED BY <1>1, <2>1 DEF Sailing, FreeIds
<1>2. \A i \in DOMAIN execs : execs[i] \in Sailing
  BY <1>1 DEF VoyageInv, Range
<1>3. \A i \in DOMAIN uninit : uninit[i] \in Sailing
  BY <1>1 DEF VoyageInv, Range
<1>4. ASSUME NEW q \in Seq(AtPorts), \A i \in DOMAIN q : q[i] \in Sailing PROVE q \in Seq(Sailing)
  <2>1. q \in [1 .. Len(q) -> Sailing] /\ Len(q) \in Nat
    BY <1>4, LenProperties
  <2> QED BY <2>1, IsASeq
<1> QED BY <1>2, <1>3, <1>4 DEF VoyageInv

LEMMA SailOn ==
    ASSUME StepInv', KindsKept, execs' \in Seq(Sailing), uninit' \in Seq(Sailing)
    PROVE  VoyageInv'
<1>1. ASSUME NEW j \in Sailing PROVE j \in AtPorts'
  <2>1. j \in GoodJob /\ (j.kind = "trade" => /\ unit[j.dst].type \in {"Port", "none"}
                                              /\ j.dst \notin FreeIds)
    BY DEF Sailing, AtPorts
  <2>2. j.kind = "trade" => j.dst \in UnitIds
    BY <2>1, KindsOfJobs DEF GoodJob, TradeType
  <2>3. j.kind = "trade" => unit'[j.dst].type \in {"Port", "none"}
    BY <2>1, <2>2 DEF KindsKept
  <2> QED BY <2>1, <2>3 DEF AtPorts
<1>2. Sailing \subseteq AtPorts'
  BY <1>1
<1>3. execs' \in Seq(AtPorts') /\ uninit' \in Seq(AtPorts')
  BY <1>2, SeqMonotonic
<1> QED BY <1>3 DEF VoyageInv

LEMMA OthersSail == ASSUME NEW j \in GoodJob, j.kind # "trade" PROVE j \in Sailing
  BY DEF Sailing, AtPorts

\* The lists, after a turn and after an initialisation.
LEMMA TurnsSail ==
    ASSUME VoyageInv, NEW k, Turn(k), NEW j, (Stay(j) /\ j \in Sailing) \/ Done
    PROVE  execs' \in Seq(Sailing)
<1>1. execs \in Seq(Sailing) /\ cursor \in Nat \ {0} /\ cursor <= Len(execs)
  BY NamedAreTaken DEF VoyageInv, StepInv, LoopTypeOK, Turn
<1> QED BY <1>1, StayIn, DoneIn
LEMMA AddsSail ==
    ASSUME VoyageInv, NEW js \in Seq(Sailing), Add(js)
    PROVE  uninit' \in Seq(Sailing)
  BY NamedAreTaken, AddIn
LEMMA InitsSail ==
    ASSUME VoyageInv, uninit # <<>>
    PROVE  /\ New1 \in Sailing /\ Tail(uninit) \in Seq(Sailing)
           /\ \A j \in Sailing : Append(execs, j) \in Seq(Sailing)
<1>1. execs \in Seq(Sailing) /\ uninit \in Seq(Sailing)
  BY NamedAreTaken
<1> HIDE DEF Sailing
<1> QED BY <1>1, InitIn
LEMMA MySail == ASSUME VoyageInv, NEW k, Turn(k) PROVE Me \in Sailing
<1>1. execs \in Seq(Sailing) /\ cursor \in 1 .. Len(execs)
  BY NamedAreTaken, LenProperties DEF VoyageInv, StepInv, LoopTypeOK, Turn
<1> QED BY <1>1, ElementOfSeq DEF Me

\* The units, when one is lost or built.
LEMMA WithoutKeeps == ASSUME NEW S, unit' = Without(S) PROVE KindsKept
  BY DEF KindsKept, Without, NoUnit
LEMMA BuildingKeeps ==
    ASSUME UnitsOK, NEW v, unit' = [unit EXCEPT ![Fresh] = v], FreeIds # {}
    PROVE  KindsKept
<1>1. Fresh \in FreeIds
  BY DEF Fresh
<1> QED BY <1>1 DEF KindsKept, UnitsOK

LEMMA IdleVoyages ==
    ASSUME VoyageInv, StepInv', UNCHANGED <<execs, uninit>>, KindsKept
    PROVE  VoyageInv'
  BY NamedAreTaken, SailOn

LEMMA StartTickVoyages == ASSUME VoyageInv, StepInv', StartTick \/ StartInits PROVE VoyageInv'
<1>1. UNCHANGED <<execs, uninit, unit>>
  BY DEF StartTick, OpenTick, StartInits, AllHadTurns
<1> QED BY <1>1, IdleVoyages DEF KindsKept
LEMMA EndTickVoyages == ASSUME VoyageInv, StepInv', EndTick PROVE VoyageInv'
<1>1. ASSUME NEW u \in UnitIds PROVE unit'[u].type = unit[u].type
  <2>1. unit[u] \in UnitType
    BY DEF VoyageInv, StepInv, UnitsOK, SoundUnit
  <2> DEFINE n == IF unit[u].type = "Trade" THEN Least(unit[u].safe + 1, SafeTicks) ELSE unit[u].safe
  <2>2. unit'[u] = [unit[u] EXCEPT !.safe = n]
    BY <2>1 DEF EndTick, UnitType
  <2> HIDE DEF n
  <2> QED BY <2>1, <2>2 DEF UnitType
<1>2. KindsKept
  BY <1>1 DEF KindsKept
<1> QED BY <1>2, IdleVoyages DEF EndTick, CloseTick

LEMMA PlayerTurnVoyages == ASSUME VoyageInv, StepInv', PlayerTurn PROVE VoyageInv'
<1>1. execs' \in Seq(Sailing) /\ uninit' \in Seq(Sailing)
  BY TurnsSail, MySail, NamedAreTaken DEF PlayerTurn
<1>2. ASSUME NEW u \in UnitIds
      PROVE  Reconciled(Me.by)[u].type \in {unit[u].type, "none"}
  <2>1. unit[u] \in UnitType
    BY DEF VoyageInv, StepInv, UnitsOK, SoundUnit
  <2> QED BY <2>1 DEF Reconciled, NoUnit, UnitType
<1>3. ASSUME NEW u \in UnitIds
      PROVE  Buried(Reconciled(Me.by), Me.by)[u].type \in {unit[u].type, "none"}
  BY <1>2 DEF Buried, NoUnit
<1>4. KindsKept
  BY <1>2, <1>3 DEF KindsKept, PlayerTurn
<1> QED BY <1>1, <1>4, SailOn

LEMMA PortTurnVoyages == ASSUME VoyageInv, StepInv', PortTurn PROVE VoyageInv'
<1> DEFINE p == unit[Me.unit].holder
           j == [Me EXCEPT !.by = p]
<1>1. KindsKept
  BY DEF PortTurn, KindsKept
<1>2. execs' \in Seq(Sailing)
  <2>1. CASE Done
    BY <2>1, TurnsSail DEF PortTurn
  <2>2. CASE Stay(j)
    <3>1. Me \in [kind : {"port"}, by : Players, unit : UnitIds]
      BY MeIs, KindsOfJobs DEF PortTurn, VoyageInv, StepInv
    <3>2. j.kind # "trade"
      BY <3>1
    <3>3. j \in GoodJob
      <4>1. cursor \in DOMAIN execs /\ execs' \in Seq(GoodJob)
        BY LenProperties DEF PortTurn, Turn, VoyageInv, StepInv, LoopTypeOK
      <4>2. execs'[cursor] = j /\ cursor \in DOMAIN execs'
        BY <2>2, <4>1 DEF Stay
      <4> QED BY <4>1, <4>2
    <3>4. j \in Sailing
      BY <3>2, <3>3, OthersSail
    <3> HIDE DEF j
    <3> QED BY <2>2, <3>4, TurnsSail DEF PortTurn
  <2> QED BY <2>1, <2>2 DEF PortTurn
<1>3. uninit' \in Seq(Sailing)
  <2>1. CASE UNCHANGED uninit
    BY <2>1, NamedAreTaken
  <2>2. CASE \E v \in TradingPorts(p) : Add(<<TradeJob(p, Me.unit, v, unit[v].holder)>>)
    <3>1. PICK v \in TradingPorts(p) : Add(<<TradeJob(p, Me.unit, v, unit[v].holder)>>)
      BY <2>2
    <3> DEFINE t == TradeJob(p, Me.unit, v, unit[v].holder)
    <3>2. t.dst = v /\ unit[v].type = "Port" /\ v \notin FreeIds
      BY DEF TradeJob, TradingPorts, OfType, FreeIds, Exists
    <3>3. t \in GoodJob
      <4> HIDE DEF t
      <4>1. uninit' = uninit \o <<t>>
        BY <3>1 DEF Add, t
      <4>2. uninit \in Seq(GoodJob) /\ uninit' \in Seq(GoodJob)
        BY DEF VoyageInv, StepInv, LoopTypeOK
      <4>3. uninit'[Len(uninit) + 1] = t /\ Len(uninit) + 1 \in DOMAIN uninit'
        BY <4>1, <4>2
      <4> QED BY <4>2, <4>3
    <3>4. t \in Sailing
      <4> HIDE DEF t
      <4> QED BY <3>2, <3>3 DEF Sailing, AtPorts
    <3> HIDE DEF t
    <3>5. <<t>> \in Seq(Sailing)
      BY <3>4
    <3> QED BY <3>1, <3>5, AddsSail DEF t
  <2> QED BY <2>1, <2>2 DEF PortTurn
<1> QED BY <1>1, <1>2, <1>3, SailOn

LEMMA TradeFailsVoyages == ASSUME VoyageInv, StepInv', TradeFails PROVE VoyageInv'
<1>1. execs' \in Seq(Sailing) /\ uninit' \in Seq(Sailing) /\ KindsKept
  BY TurnsSail, NamedAreTaken DEF TradeFails, KindsKept
<1> QED BY <1>1, SailOn

\* Where a trade ship is taken is a port, or was when it was sent there.
LEMMA BoundIsPort ==
    ASSUME VoyageInv, Turn("trade"), NEW p, p # Neutral, NEW x, NEW d \in Bound(p, x)
    PROVE  /\ d \in UnitIds /\ d \notin FreeIds /\ unit[d].type \in {"Port", "none"}
           /\ Robbed(p) => d \in HeldBy(p)
           /\ ~Robbed(p) => d = Me.dst
<1>1. Me \in Sailing /\ Me \in TradeType /\ Me.kind = "trade"
  BY MySail, MeIs, KindsOfJobs DEF VoyageInv, StepInv
<1>2. CASE Robbed(p) /\ Me.dst \notin HeldBy(p)
  <2>1. d \in Ports(p)
    BY <1>2 DEF Bound
  <2> QED BY <1>2, <2>1 DEF Ports, HeldBy, OfType, FreeIds, Exists
<1>3. CASE ~(Robbed(p) /\ Me.dst \notin HeldBy(p))
  <2>1. d = Me.dst
    BY <1>3 DEF Bound
  <2> QED BY <1>1, <1>3, <2>1 DEF Sailing, AtPorts, TradeType
<1> QED BY <1>2, <1>3

\* The ship of a trade ship's execution, once it is built.
LEMMA ShipAtSea ==
    ASSUME StepInv, Turn("trade"), Me.unit # None \/ Me.src \in Ports(Me.by),
           Me.unit = None => FreeIds # {}
    PROVE  /\ Built \in UnitIds /\ WithShip \in [UnitIds -> SoundUnit]
           /\ \A v \in UnitIds \ FreeIds : WithShip[v] = unit[v]
           /\ Me.unit = None => WithShip[Built].holder = Me.by
           /\ Me.unit # None => Built = Me.unit /\ WithShip = unit
<1>1. Me \in TradeType /\ UnitsOK
  BY MeIs, KindsOfJobs DEF StepInv
<1>2. CASE Me.unit = None
  <2>1. Me.by # Neutral
    BY <1>1, Ranges DEF TradeType, Neutral
  <2>2. Me.by \in Players /\ unit[Me.src].at \in Places
    BY <1>1, <1>2, <2>1, HeldExist DEF Ports, TradeType
  <2>3. New("Trade", Me.by, unit[Me.src].at) \in SoundUnit
    BY <2>2, NewIsSound
  <2>4. Fresh \in FreeIds /\ Fresh \in UnitIds
    BY <1>2 DEF Fresh, FreeIds
  <2>5. New("Trade", Me.by, unit[Me.src].at).holder = Me.by
    BY DEF New
  <2> QED BY <1>1, <1>2, <2>3, <2>4, <2>5 DEF Built, WithShip, UnitsOK
<1>3. CASE Me.unit # None
  BY <1>1, <1>3 DEF Built, WithShip, UnitsOK, TradeType
<1> QED BY <1>2, <1>3

LEMMA TradeTurnVoyages == VoyageInv /\ StepInv' /\ TradeTurn => VoyageInv'
<1> SUFFICES ASSUME VoyageInv, StepInv', TradeTurn PROVE VoyageInv'
  OBVIOUS
<1> DEFINE u == Built
           p == WithShip[u].holder
           x == WithShip[u].at
<1>0. /\ Turn("trade") /\ (Me.unit # None \/ Me.src \in Ports(Me.by))
      /\ Me.unit = None => FreeIds # {}
  BY DEF TradeTurn
<1>1. uninit' \in Seq(Sailing)
  BY NamedAreTaken DEF TradeTurn
<1>2. CASE Done /\ (UNCHANGED unit \/ unit' = Without({u}))
  <2>1. KindsKept
    BY <1>2, WithoutKeeps DEF KindsKept
  <2>2. execs' \in Seq(Sailing)
    BY <1>0, <1>2, TurnsSail
  <2> QED BY <1>1, <2>1, <2>2, SailOn
<1>3. CASE ~(Done /\ (UNCHANGED unit \/ unit' = Without({u})))
  <2>1. p # Neutral
    BY <1>3 DEF TradeTurn
  <2>2. PICK d \in Bound(p, x) :
          LET y == Toward(x, unit[d].at) IN
          /\ unit' = [WithShip EXCEPT ![u].at = y,
                                      ![u].safe = IF y \in Shoreline THEN 0 ELSE @]
          /\ Stay([Me EXCEPT !.unit = u, !.robbed = Robbed(p), !.dst = d,
                             !.srcOwner = Known(Me.src, @), !.dstOwner = Known(d, @)])
    BY <1>3 DEF TradeTurn, Dismissed
  <2> DEFINE j == [Me EXCEPT !.unit = u, !.robbed = Robbed(p), !.dst = d,
                             !.srcOwner = Known(Me.src, @), !.dstOwner = Known(d, @)]
  <2>3. j.dst = d
    BY <1>0, MeIs, KindsOfJobs DEF VoyageInv, StepInv, TradeType
  <2>4. Stay(j)
    BY <2>2
  <2> HIDE DEF j
  <2>5. j \in GoodJob
    <3>1. cursor \in DOMAIN execs /\ execs' \in Seq(GoodJob)
      BY <1>0, LenProperties DEF Turn, VoyageInv, StepInv, LoopTypeOK
    <3>2. execs'[cursor] = j /\ cursor \in DOMAIN execs'
      BY <2>4, <3>1 DEF Stay
    <3> QED BY <3>1, <3>2
  <2>6. j \in Sailing
    BY <1>0, <2>1, <2>3, <2>5, BoundIsPort DEF Sailing, AtPorts
  <2>7. execs' \in Seq(Sailing)
    BY <1>0, <2>4, <2>6, TurnsSail
  <2>8. KindsKept
    <3>1. /\ u \in UnitIds /\ WithShip \in [UnitIds -> SoundUnit]
          /\ \A v \in UnitIds \ FreeIds : WithShip[v] = unit[v]
      BY <1>0, ShipAtSea DEF VoyageInv
    <3>2. ASSUME NEW v \in UnitIds \ FreeIds PROVE unit'[v].type = unit[v].type
      <4>1. WithShip[v] \in UnitType /\ WithShip[v] = unit[v]
        BY <3>1 DEF SoundUnit
      <4> QED BY <2>2, <3>1, <4>1 DEF UnitType
    <3> QED BY <3>2 DEF KindsKept
  <2> QED BY <1>1, <2>7, <2>8, SailOn
<1> QED BY <1>2, <1>3

LEMMA ShipTurnVoyages == VoyageInv /\ StepInv' /\ ShipTurn => VoyageInv'
<1> SUFFICES ASSUME VoyageInv, StepInv', ShipTurn PROVE VoyageInv'
  OBVIOUS
<1> DEFINE u == Me.unit
<1>1. Turn("ship") /\ LoopTypeOK(GoodJob) /\ UnitsOK
  BY DEF ShipTurn, VoyageInv, StepInv
<1>2. CASE Done /\ UNCHANGED <<unit, uninit>>
  <2>1. execs' \in Seq(Sailing) /\ uninit' \in Seq(Sailing)
    BY <1>1, <1>2, TurnsSail, NamedAreTaken
  <2> QED BY <1>2, <2>1, SailOn DEF KindsKept
<1>3. CASE u \in HeldBy(Me.by) /\ ~(Done /\ UNCHANGED <<unit, uninit>>)
  <2>1. PICK s \in Sorties(Turning(Aged(Me), unit[u].at, unit[u].health)) :
          /\ unit' = [v \in UnitIds |->
                        IF v = u THEN [unit[u] EXCEPT !.at = s.at, !.health = s.hp]
                        ELSE IF v = s.prize THEN [unit[v] EXCEPT !.holder = Me.by]
                        ELSE unit[v]]
          /\ Stay(s.job) /\ Add(s.shots)
    BY <1>3 DEF ShipTurn
  <2>2. s \in GoodTurn
    BY <1>1, <1>3, <2>1, MyShipSails
  <2>3. s.job \in GoodJob /\ s.job.kind = "ship"
    BY <2>2, ShipsAreGood DEF GoodTurn, TurnType, ShipType
  <2>4. s.job \in Sailing
    BY <2>3, OthersSail
  <2>5. execs' \in Seq(Sailing)
    BY <1>1, <2>1, <2>4, TurnsSail
  <2>6. s.shots \in Seq(Sailing)
    <3>1. ASSUME NEW j \in ShellType PROVE j \in Sailing
      BY OthersAreGood, OthersSail DEF ShellType
    <3>2. ShellType \subseteq Sailing
      BY <3>1
    <3> QED BY <2>2, <3>2, SeqMonotonic DEF GoodTurn, TurnType
  <2>7. uninit' \in Seq(Sailing)
    BY <2>1, <2>6, AddsSail
  <2>8. KindsKept
    <3>1. ASSUME NEW v \in UnitIds PROVE unit'[v].type = unit[v].type
      <4>1. unit[v] \in UnitType
        BY <1>1 DEF UnitsOK, SoundUnit
      <4> QED BY <2>1, <4>1 DEF UnitType
    <3> QED BY <3>1 DEF KindsKept
  <2> QED BY <2>5, <2>7, <2>8, SailOn
<1> QED BY <1>2, <1>3 DEF ShipTurn

LEMMA ShellTurnVoyages == ASSUME VoyageInv, StepInv', ShellTurn PROVE VoyageInv'
<1>1. Turn("shell") /\ uninit' \in Seq(Sailing) /\ Me \in ShellType /\ UnitsOK
  BY NamedAreTaken, MeIs, KindsOfJobs DEF ShellTurn, VoyageInv, StepInv
<1>2. execs' \in Seq(Sailing)
  <2>1. CASE Done
    BY <1>1, <2>1, TurnsSail
  <2>2. CASE Stay([Me EXCEPT !.built = TRUE, !.left = @ - 1, !.fuse = Fuse])
    <3> DEFINE j == [Me EXCEPT !.built = TRUE, !.left = @ - 1, !.fuse = Fuse]
    <3>1. j.kind # "trade"
      BY <1>1 DEF ShellType
    <3>2. Stay(j)
      BY <2>2
    <3> HIDE DEF j
    <3>3. j \in GoodJob
      <4>1. cursor \in DOMAIN execs /\ execs' \in Seq(GoodJob)
        BY <1>1, LenProperties DEF Turn, VoyageInv, StepInv, LoopTypeOK
      <4>2. execs'[cursor] = j /\ cursor \in DOMAIN execs'
        BY <3>2, <4>1 DEF Stay
      <4> QED BY <4>1, <4>2
    <3>4. j \in Sailing
      BY <3>1, <3>3, OthersSail
    <3> QED BY <1>1, <3>2, <3>4, TurnsSail
  <2> QED BY <2>1, <2>2 DEF ShellTurn
<1>3. KindsKept
  <2>1. CASE UNCHANGED unit
    BY <2>1 DEF KindsKept
  <2>2. ASSUME NEW d \in Damages, unit' = Hit(Me.prey, d) PROVE KindsKept
    <3>1. CASE unit[Me.prey].health <= d
      BY <2>2, <3>1, WithoutKeeps DEF Hit
    <3>2. CASE ~(unit[Me.prey].health <= d)
      <4> DEFINE h == unit[Me.prey].health - d
      <4>1. unit' = [unit EXCEPT ![Me.prey].health = h]
        BY <1>1, <2>2, <3>2 DEF Hit, UnitsOK, SoundUnit, UnitType
      <4> HIDE DEF h
      <4>2. ASSUME NEW v \in UnitIds PROVE unit'[v].type = unit[v].type
        <5>1. unit[v] \in UnitType
          BY <1>1 DEF UnitsOK, SoundUnit
        <5> QED BY <1>1, <4>1, <5>1 DEF UnitsOK, UnitType
      <4> QED BY <4>2 DEF KindsKept
    <3> QED BY <3>1, <3>2
  <2> QED BY <2>1, <2>2 DEF ShellTurn
<1> QED BY <1>1, <1>2, <1>3, SailOn

LEMMA YardTurnVoyages == ASSUME VoyageInv, StepInv', YardTurn PROVE VoyageInv'
<1> DEFINE j == ShipJob(Me.by, None, Me.at)
<1>1. execs' \in Seq(Sailing) /\ KindsKept
  BY TurnsSail DEF YardTurn, KindsKept
<1>2. uninit' \in Seq(Sailing)
  <2>1. j.kind # "trade"
    BY DEF ShipJob
  <2> HIDE DEF j
  <2>2. uninit' = uninit \o <<j>>
    BY DEF YardTurn, Add, j
  <2>3. j \in GoodJob
    <3>1. uninit \in Seq(GoodJob) /\ uninit' \in Seq(GoodJob)
      BY DEF VoyageInv, StepInv, LoopTypeOK
    <3>2. uninit'[Len(uninit) + 1] = j /\ Len(uninit) + 1 \in DOMAIN uninit'
      BY <2>2, <3>1
    <3> QED BY <3>1, <3>2
  <2>4. <<j>> \in Seq(Sailing)
    BY <2>1, <2>3, OthersSail
  <2> QED BY <2>4, AddsSail DEF YardTurn, j
<1> QED BY <1>1, <1>2, SailOn

LEMMA InitPlainVoyages == ASSUME VoyageInv, StepInv', InitPlain PROVE VoyageInv'
<1>1. uninit # <<>>
  BY DEF InitPlain, DueInit
<1>2. execs' \in Seq(Sailing) /\ uninit' \in Seq(Sailing) /\ KindsKept
  BY <1>1, InitsSail DEF InitPlain, Append1, KindsKept
<1> QED BY <1>2, SailOn

LEMMA InitShipVoyages == ASSUME VoyageInv, StepInv', InitShip PROVE VoyageInv'
<1>1. uninit # <<>> /\ uninit[1].kind = "ship" /\ Tail(uninit) \in Seq(Sailing)
  BY InitsSail DEF InitShip, DueInit
<1>2. uninit' \in Seq(Sailing)
  BY <1>1 DEF InitShip, Append1, Drop1
<1>3. CASE Drop1 /\ UNCHANGED unit
  BY <1>2, <1>3, NamedAreTaken, SailOn DEF Drop1, KindsKept
<1>4. CASE /\ FreeIds # {}
           /\ \E x \in Nearest(PortsAt(New1.by), New1.patrol) :
                 unit' = [unit EXCEPT ![Fresh] = New("Warship", New1.by, x)]
           /\ Append1([New1 EXCEPT !.unit = Fresh])
  <2>1. KindsKept
    BY <1>4, BuildingKeeps DEF VoyageInv, StepInv
  <2> DEFINE j == [New1 EXCEPT !.unit = Fresh]
  <2>2. j.kind # "trade"
    <3>1. New1 \in GoodJob /\ New1.kind = "ship"
      BY <1>1, InitIn DEF New1, VoyageInv, StepInv, LoopTypeOK
    <3> QED BY <3>1, KindsOfJobs DEF GoodJob, ShipType
  <2>3. execs' = Append(execs, j)
    BY <1>4 DEF Append1
  <2> HIDE DEF j
  <2>4. j \in GoodJob
    <3>1. execs \in Seq(GoodJob) /\ execs' \in Seq(GoodJob)
      BY DEF VoyageInv, StepInv, LoopTypeOK
    <3>2. execs'[Len(execs) + 1] = j /\ Len(execs) + 1 \in DOMAIN execs'
      BY <2>3, <3>1
    <3> QED BY <3>1, <3>2
  <2>5. execs' \in Seq(Sailing)
    BY <1>1, <2>2, <2>3, <2>4, OthersSail, InitsSail
  <2> QED BY <1>2, <2>1, <2>5, SailOn
<1> QED BY <1>3, <1>4 DEF InitShip

\* Orders to warships leave the voyages alone.
LEMMA RedirectedSail ==
    ASSUME VoyageInv, StepInv', DOMAIN execs' = DOMAIN execs,
           \A i \in DOMAIN execs : execs'[i] = execs[i] \/ execs'[i].kind # "trade"
    PROVE  execs' \in Seq(Sailing)
<1>1. execs' \in Seq(GoodJob) /\ execs \in Seq(Sailing)
  BY NamedAreTaken DEF StepInv, LoopTypeOK
<1>2. \A i \in DOMAIN execs' : execs'[i] \in Sailing
  BY <1>1, OthersSail
<1>3. execs' \in [1 .. Len(execs') -> Sailing] /\ Len(execs') \in Nat
  BY <1>1, <1>2, LenProperties
<1> QED BY <1>3, IsASeq

\* A ship that is given another patrol tile or goal is a ship still.
LEMMA StillAShip ==
    ASSUME NEW j \in GoodJob, j.kind = "ship", NEW x
    PROVE  [j EXCEPT !.patrol = x].kind # "trade" /\ [j EXCEPT !.patrol = x, !.goal = None].kind # "trade"
<1>1. j \in ShipType
  BY KindsOfJobs DEF GoodJob
<1> QED BY <1>1 DEF ShipType

LEMMA InitMoveVoyages == ASSUME VoyageInv, StepInv', InitMove PROVE VoyageInv'
<1>1. uninit' \in Seq(Sailing)
  BY InitsSail DEF InitMove, DueInit
<1>2. execs' \in Seq(Sailing)
  <2>1. \A i \in DOMAIN execs : execs[i] \in GoodJob
    BY DEF VoyageInv, StepInv, LoopTypeOK
  <2>2. /\ DOMAIN execs' = DOMAIN execs
        /\ \A i \in DOMAIN execs : execs'[i] = execs[i] \/ execs'[i].kind # "trade"
    BY <2>1, StillAShip DEF InitMove
  <2> QED BY <2>2, RedirectedSail
<1> QED BY <1>1, <1>2, SailOn DEF InitMove, KindsKept

LEMMA OrderVoyages ==
    ASSUME VoyageInv, StepInv', NEW x \in todo.orders, Order(x)
    PROVE  VoyageInv'
<1>1. x \in GoodJob /\ x.kind # "trade"
  BY OthersAreGood DEF VoyageInv, StepInv, TodoOK, TodoType
<1>2. <<x>> \in Seq(Sailing)
  <2>1. x \in Sailing
    BY <1>1, OthersSail
  <2> QED BY <2>1
<1>3. uninit' \in Seq(Sailing) /\ execs' \in Seq(Sailing)
  BY <1>2, AddsSail, NamedAreTaken DEF Order
<1> QED BY <1>3, SailOn DEF Order, KindsKept
LEMMA SteerVoyages ==
    ASSUME VoyageInv, StepInv', NEW x \in todo.steers, Steer(x)
    PROVE  VoyageInv'
<1>1. uninit' \in Seq(Sailing)
  BY NamedAreTaken DEF Steer, Happens
<1>2. execs' \in Seq(Sailing)
  <2>1. \A i \in DOMAIN execs : execs[i] \in GoodJob
    BY DEF VoyageInv, StepInv, LoopTypeOK
  <2>2. /\ DOMAIN execs' = DOMAIN execs
        /\ \A i \in DOMAIN execs : execs'[i] = execs[i] \/ execs'[i].kind # "trade"
    BY <2>1, StillAShip DEF Steer
  <2> QED BY <2>2, RedirectedSail
<1> QED BY <1>1, <1>2, SailOn DEF Steer, KindsKept
LEMMA SubdueVoyages ==
    ASSUME VoyageInv, StepInv', NEW x \in todo.falls, Subdue(x)
    PROVE  VoyageInv'
<1>1. ASSUME NEW u \in UnitIds PROVE unit'[u].type = unit[u].type
  <2>1. unit[u] \in UnitType
    BY DEF VoyageInv, StepInv, UnitsOK, SoundUnit
  <2> QED BY <2>1 DEF Subdue, UnitType
<1> QED BY <1>1, IdleVoyages DEF Subdue, Happens, KindsKept
LEMMA OutsideVoyages == ASSUME VoyageInv, StepInv', Outside PROVE VoyageInv'
<1>1. ASSUME NEW x \in todo.landings, Conquer(x) PROVE VoyageInv'
  BY <1>1, IdleVoyages DEF Conquer, Happens, KindsKept
<1>2. ASSUME NEW x \in todo.bombs, Bomb(x) PROVE VoyageInv'
  BY <1>2, WithoutKeeps, IdleVoyages DEF Bomb, Happens
<1>3. ASSUME NEW x \in todo.boats, Embark(x) PROVE VoyageInv'
  BY <1>3, BuildingKeeps, IdleVoyages DEF Embark, Happens, VoyageInv, StepInv
<1>4. ASSUME NEW u, Arrive(u) PROVE VoyageInv'
  BY <1>4, WithoutKeeps, IdleVoyages DEF Arrive, Happens
<1>5. ASSUME NEW x \in todo.pairs, Realign(x) PROVE VoyageInv'
  BY <1>5, IdleVoyages DEF Realign, Happens, KindsKept
<1>6. ASSUME NEW x \in todo.bans, Ban(x) PROVE VoyageInv'
  BY <1>6, IdleVoyages DEF Ban, Happens, KindsKept
<1> QED BY <1>1, <1>2, <1>3, <1>4, <1>5, <1>6, OrderVoyages, SteerVoyages, SubdueVoyages DEF Outside

LEMMA ClockTurnVoyages == ASSUME VoyageInv, StepInv', ClockTurn PROVE VoyageInv'
<1> DEFINE j == [Me EXCEPT !.ticks = Later(@)]
<1>1. uninit' \in Seq(Sailing) /\ Turn("clock")
  BY NamedAreTaken DEF ClockTurn
<1>2. execs' \in Seq(Sailing)
  <2>1. j.kind # "trade"
    <3>1. Me \in [kind : {"clock"}, ticks : Nat]
      BY <1>1, MeIs, KindsOfJobs DEF VoyageInv, StepInv
    <3> QED BY <3>1
  <2>2. Stay(j)
    BY DEF ClockTurn
  <2> HIDE DEF j
  <2>3. j \in GoodJob
    <3>1. cursor \in DOMAIN execs /\ execs' \in Seq(GoodJob)
      BY <1>1, LenProperties DEF Turn, VoyageInv, StepInv, LoopTypeOK
    <3>2. execs'[cursor] = j /\ cursor \in DOMAIN execs'
      BY <2>2, <3>1 DEF Stay
    <3> QED BY <3>1, <3>2
  <2>4. j \in Sailing
    BY <2>1, <2>3, OthersSail
  <2> QED BY <1>1, <2>2, <2>4, TurnsSail
<1>3. KindsKept
  <2>1. ASSUME NEW u \in UnitIds PROVE Scuttled[u].type \in {unit[u].type, "none"}
    <3>1. unit[u] \in UnitType
      BY DEF VoyageInv, StepInv, UnitsOK, SoundUnit
    <3> QED BY <3>1 DEF Scuttled, NoUnit, UnitType
  <2> QED BY <2>1 DEF ClockTurn, KindsKept
<1> QED BY <1>1, <1>2, <1>3, SailOn

LEMMA InitVoyages == DoomInit => VoyageInv
<1> SUFFICES ASSUME DoomInit PROVE VoyageInv
  OBVIOUS
<1>1. StepInv
  BY InitHolds
<1>2. uninit = <<>>
  BY DEF DoomInit, Init, LoopInit
<1>3. \A i \in DOMAIN execs : execs[i].kind # "trade"
  <2>1. PICK s \in Scenarios : execs = s.first \o [p \in Players |-> PlayerJob(p)]
                                         \o Start(s.units, s.patrols)
    BY DEF DoomInit, Init, LoopInit
  <2> DEFINE Others == {j \in GoodJob : j.kind # "trade"}
             players == [p \in Players |-> PlayerJob(p)]
  <2>2. s.first \in Seq(Others)
    <3>1. ASSUME NEW j \in [kind : {"clock"}, ticks : Nat] PROVE j \in Others
      BY OthersAreGood
    <3>2. [kind : {"clock"}, ticks : Nat] \subseteq Others
      BY <3>1
    <3>3. s.first \in Seq([kind : {"clock"}, ticks : Nat])
      BY FleetAssumption DEF ScenarioType
    <3> HIDE DEF Others
    <3> QED BY <3>2, <3>3, SeqMonotonic
  <2>3. players \in Seq(Others)
    <3>1. ASSUME NEW p \in Players PROVE PlayerJob(p) \in Others
      <4>1. PlayerJob(p) \in [kind : {"player"}, by : Players]
        BY DEF PlayerJob
      <4> QED BY <4>1, OthersAreGood
    <3>2. PICK n \in Nat : Players = 1 .. n
      BY Ranges
    <3> HIDE DEF Others
    <3>3. players \in [1 .. n -> Others]
      BY <3>1, <3>2
    <3> QED BY <3>2, <3>3, IsASeq
  <2>4. Start(s.units, s.patrols) \in Seq(Others)
    <3>1. Start(s.units, s.patrols) \in Seq(GoodJob)
      BY StartIsGood
    <3>2. \A i \in DOMAIN Start(s.units, s.patrols) : Start(s.units, s.patrols)[i].kind # "trade"
      BY DEF Start, PortJob, ShipJob
    <3> DEFINE q == Start(s.units, s.patrols)
    <3>3. \A i \in DOMAIN q : q[i] \in Others
      BY <3>1, <3>2
    <3> HIDE DEF q, Others
    <3>4. q \in [1 .. Len(q) -> Others] /\ Len(q) \in Nat
      BY <3>1, <3>3, LenProperties DEF q
    <3> QED BY <3>4, IsASeq DEF q
  <2> HIDE DEF players, Others
  <2>5. s.first \o players \in Seq(Others)
    BY <2>2, <2>3, ConcatProperties
  <2>6. execs \in Seq(Others)
    BY <2>1, <2>4, <2>5, ConcatProperties DEF players
  <2> QED BY <2>6 DEF Others
<1>4. execs \in Seq(AtPorts)
  <2>1. execs \in Seq(GoodJob)
    BY <1>1 DEF StepInv, LoopTypeOK
  <2>2. ASSUME NEW i \in DOMAIN execs PROVE execs[i] \in AtPorts
    <3>1. execs[i] \in GoodJob
      BY <2>1
    <3> QED BY <1>3, <3>1 DEF AtPorts
  <2>3. execs \in [1 .. Len(execs) -> AtPorts] /\ Len(execs) \in Nat
    BY <2>1, <2>2, LenProperties
  <2> QED BY <2>3, IsASeq
<1>5. uninit \in Seq(AtPorts)
  BY <1>2, EmptySeq
<1> QED BY <1>1, <1>4, <1>5 DEF VoyageInv

LEMMA VoyagesNext == VoyageInv /\ [DoomNext]_doomVars => VoyageInv'
<1> SUFFICES ASSUME VoyageInv, [DoomNext]_doomVars PROVE VoyageInv'
  OBVIOUS
<1>1. StepInv'
  BY NextKeeps DEF VoyageInv
<1>2. CASE Engine
  BY <1>1, <1>2, StartTickVoyages, EndTickVoyages, PlayerTurnVoyages, PortTurnVoyages,
     TradeFailsVoyages, TradeTurnVoyages, ShipTurnVoyages, ShellTurnVoyages, YardTurnVoyages,
     InitPlainVoyages, InitShipVoyages, InitMoveVoyages DEF Engine
<1>3. CASE ClockTurn
  BY <1>1, <1>3, ClockTurnVoyages
<1>4. CASE Outside
  BY <1>1, <1>4, OutsideVoyages
<1>5. CASE UNCHANGED doomVars
  <2>1. UNCHANGED <<execs, uninit, unit>>
    BY <1>5 DEF doomVars, vars, loopVars
  <2> QED BY <1>1, <2>1, IdleVoyages DEF KindsKept
<1> QED BY <1>2, <1>3, <1>4, <1>5 DEF DoomNext, DoomEngine

\* Nothing but the end of a voyage, in the turn of a trade ship, pays anyone.
LEMMA OnlyVoyagesPay ==
    ASSUME StepInv, [DoomNext]_doomVars, Earners # {}
    PROVE  TradeTurn
<1>1. PICK p \in Players : gold'[p] > gold[p]
  BY DEF Earners
<1>2. gold[p] \in Nat
  BY DEF StepInv, GoldOK
<1>3. gold' # gold
  BY <1>1, <1>2
<1>4. CASE PlayerTurn
  <2>1. gold' = [gold EXCEPT ![Me.by] = 0]
    BY <1>3, <1>4 DEF PlayerTurn
  <2> QED BY <1>1, <1>2, <2>1 DEF StepInv, GoldOK
<1>5. CASE UNCHANGED gold
  BY <1>3, <1>5
<1>6. CASE Engine
  <2>1. PlayerTurn \/ UNCHANGED gold \/ TradeTurn
    BY <1>6 DEF Engine, StartTick, StartInits, EndTick, PortTurn, TradeFails, ShipTurn, ShellTurn,
                YardTurn, InitPlain, InitShip, InitMove, Initing
  <2> QED BY <1>4, <1>5, <2>1
<1>7. CASE ClockTurn
  BY <1>5, <1>7 DEF ClockTurn
<1>8. CASE Outside
  BY <1>5, <1>8 DEF Outside, Order, Steer, Conquer, Subdue, Bomb, Embark, Arrive, Realign, Ban, Happens
<1>9. CASE UNCHANGED doomVars
  BY <1>5, <1>9 DEF doomVars, vars
<1> QED BY <1>6, <1>7, <1>8, <1>9 DEF DoomNext, DoomEngine

LEMMA TwoOfThem == ASSUME NEW a, NEW b, a # b PROVE Cardinality({a, b}) = 2
<1>1. IsFiniteSet({a}) /\ Cardinality({a}) = 1
  BY FS_Singleton
<1>2. b \notin {a} /\ {a} \cup {b} = {a, b}
  OBVIOUS
<1> QED BY <1>1, <1>2, FS_AddElement

LEMMA VoyagePays ==
    ASSUME VoyageInv, TradeTurn, Earners # {}
    PROVE  LET p == IF Me.unit = None THEN Me.by ELSE unit[Me.unit].holder IN
           IF Me.robbed \/ p # Me.by
           THEN Earners = {p} /\ unit[Me.unit].at \in PortsAt(p)
           ELSE /\ Cardinality(Earners) = 2 /\ unit[Me.dst].holder \in Earners
                /\ CanTrade(p, unit[Me.dst].holder)
<1> DEFINE u == Built
           p == WithShip[u].holder
           x == WithShip[u].at
<1>1. /\ Turn("trade") /\ (Me.unit # None \/ Me.src \in Ports(Me.by))
      /\ Me.unit = None => FreeIds # {}
  BY DEF TradeTurn
<1>2. Me \in TradeType /\ Me \in GoodJob /\ Me.kind = "trade" /\ UnitsOK
  BY <1>1, MeIs, KindsOfJobs DEF VoyageInv, StepInv
<1>3. p = IF Me.unit = None THEN Me.by ELSE unit[Me.unit].holder
  BY <1>1, ShipAtSea DEF VoyageInv
<1>4. \A q \in Players : gold[q] \in Nat
  BY DEF VoyageInv, StepInv, GoldOK
<1>5. UNCHANGED gold => Earners = {}
  BY <1>4 DEF Earners
<1>6. p # Neutral /\ ~Pointless(p)
  BY <1>5 DEF TradeTurn
<1>7. PICK d \in Bound(p, x) :
        /\ unit[d].at = x
        /\ gold' = [q \in Players |-> IF q \in Paid(p) THEN gold[q] + 1 ELSE gold[q]]
  BY <1>5, <1>6 DEF TradeTurn
<1>8. Earners = Paid(p) \cap Players
  BY <1>4, <1>7 DEF Earners
<1>9. p \in Players
  BY <1>1, <1>6, ShipAtSea DEF VoyageInv, SoundUnit, UnitType
<1>10. /\ d \in UnitIds /\ d \notin FreeIds /\ unit[d].type \in {"Port", "none"}
       /\ Robbed(p) => d \in HeldBy(p)
       /\ ~Robbed(p) => d = Me.dst
  BY <1>1, <1>6, BoundIsPort
<1> HIDE DEF u, p, x
<1>11. CASE Robbed(p)
  <2>1. Me.unit # None
    BY <1>2, <1>3, <1>11 DEF Robbed, GoodJob
  <2>2. d \in Ports(p)
    <3>1. Exists(d)
      BY <1>2, <1>6, <1>10, <1>11, HeldExist
    <3> QED BY <1>10, <1>11, <3>1 DEF Ports, OfType, Exists
  <2>3. unit[Me.unit].at = unit[d].at
    BY <1>1, <1>7, <2>1, ShipAtSea DEF VoyageInv, u, x
  <2>4. unit[Me.unit].at \in PortsAt(p)
    BY <2>2, <2>3 DEF PortsAt
  <2>5. Earners = {p}
    BY <1>8, <1>9, <1>11 DEF Paid
  <2> QED BY <1>3, <1>11, <2>4, <2>5 DEF Robbed
<1>12. CASE ~Robbed(p)
  <2>1. Exists(Me.dst) /\ CanTrade(p, unit[Me.dst].holder)
    BY <1>6, <1>12 DEF Pointless, Refused
  <2>2. Known(Me.src, Me.srcOwner) # unit[Me.dst].holder
    BY <1>6, <2>1 DEF Pointless, SameOwner
  <2>3. Known(Me.src, Me.srcOwner) \in Players /\ unit[Me.dst].holder \in Players
    BY <1>2, <2>1, HoldersArePlayers DEF Known, TradeType
  <2>4. Earners = {Known(Me.src, Me.srcOwner), unit[Me.dst].holder}
    BY <1>8, <1>12, <2>3 DEF Paid
  <2>5. Cardinality(Earners) = 2
    BY <2>2, <2>4, TwoOfThem
  <2> QED BY <1>3, <1>12, <2>1, <2>4, <2>5 DEF Robbed
<1> QED BY <1>11, <1>12

\* Whoever is paid for a voyage is who it is for, whatever has become of ship, ports,
\* holders and embargoes since it began (trade_ship_execution.rs, complete).
THEOREM VoyagesPayTheRightOnesHolds == Spec => VoyagesPayTheRightOnes
<1> DEFINE Right == LET p == IF Me.unit = None THEN Me.by ELSE unit[Me.unit].holder IN
                    IF Me.robbed \/ p # Me.by
                    THEN Earners = {p} /\ unit[Me.unit].at \in PortsAt(p)
                    ELSE /\ Cardinality(Earners) = 2 /\ unit[Me.dst].holder \in Earners
                         /\ CanTrade(p, unit[Me.dst].holder)
<1>1. VoyageInv /\ [DoomNext]_doomVars => [Earners # {} => Right]_vars
  <2> SUFFICES ASSUME VoyageInv, [DoomNext]_doomVars, Earners # {} PROVE Right
    OBVIOUS
  <2>1. TradeTurn
    BY OnlyVoyagesPay DEF VoyageInv
  <2> QED BY <2>1, VoyagePays
<1>2. Spec => []VoyageInv
  BY InitVoyages, VoyagesNext, PTL DEF Spec
<1>3. VoyagesPayTheRightOnes <=> [][Earners # {} => Right]_vars
  BY DEF VoyagesPayTheRightOnes
<1> HIDE DEF Right
<1> QED BY <1>1, <1>2, <1>3, PTL DEF Spec

-----------------------------------------------------------------------------
(* Crews.  A warship keeps its execution: in its turn it stays the unit of the same    *)
(* player, and what it takes is a trade ship.                                          *)

SameCrew(r, s) == r.job.unit = s.job.unit /\ r.job.by = s.job.by /\ r.prize = s.prize

LEMMA CrewSteps ==
    ASSUME NEW s \in GoodTurn
    PROVE  /\ SameCrew(Ashore(s), s) /\ SameCrew(GivesUp(s), s) /\ SameCrew(Ordered(s), s)
           /\ SameCrew(Undocked(s), s) /\ SameCrew(Withdraws(s), s)
           /\ \A u : SameCrew(Shot(s, u), s)
<1>1. SameCrew(Ashore(s), s) /\ Ashore(s) \in GoodTurn
  BY AshoreGood DEF SameCrew, Ashore, GoodTurn, TurnType, ShipType
<1>2. ASSUME NEW r \in GoodTurn
      PROVE  /\ SameCrew([r EXCEPT !.job.goal = None], r)
             /\ SameCrew([r EXCEPT !.job.seen = s.job.patrol, !.job.grace = 0], r)
             /\ SameCrew([r EXCEPT !.on = FALSE], r)
  BY DEF SameCrew, GoodTurn, TurnType, ShipType
<1>3. SameCrew(GivesUp(s), s) /\ SameCrew(Ordered(s), s) /\ SameCrew(Undocked(s), s)
  <2>1. SameCrew(GivesUp(s), s)
    BY <1>1, <1>2 DEF SameCrew, GivesUp
  <2>2. SameCrew(Ordered(s), s)
    BY <1>1, <1>2 DEF SameCrew, Ordered
  <2>3. SameCrew(Undocked(s), s)
    BY <1>1, <1>2 DEF SameCrew, Undocked
  <2> QED BY <2>1, <2>2, <2>3
<1>4. SameCrew(Withdraws(s), s)
  <2>1. /\ SameCrew([s EXCEPT !.job.goal = s.job.port, !.at = Toward(@, s.job.port), !.on = FALSE], s)
        /\ SameCrew([s EXCEPT !.job.docked = TRUE, !.job.retreating = FALSE, !.job.goal = None,
                              !.on = FALSE], s)
    BY DEF SameCrew, GoodTurn, TurnType, ShipType
  <2> QED BY <1>2, <1>3, <2>1 DEF Withdraws
<1>5. ASSUME NEW u PROVE SameCrew(Shot(s, u), s)
  BY DEF SameCrew, Shot, GoodTurn, TurnType, ShipType
<1> QED BY <1>1, <1>3, <1>4, <1>5

LEMMA CrewHeals ==
    ASSUME NEW s \in GoodTurn, NEW r \in Healed(s)
    PROVE  SameCrew(r, s)
  BY DEF SameCrew, Healed, Repaired, GoodTurn, TurnType, ShipType
LEMMA CrewFires ==
    ASSUME NEW s \in GoodTurn, NEW r \in Fires(s)
    PROVE  SameCrew(r, s)
  BY CrewSteps DEF Fires, SameCrew
LEMMA CrewRefreshes ==
    ASSUME NEW s \in Fleeing, NEW r \in Refreshed(s), UnitsOK
    PROVE  SameCrew(r, s)
<1> DEFINE mine == PortsAt(s.job.by)
           to(S) == {[s EXCEPT !.job.port = x] : x \in Nearest(S, s.at)}
           open == {x \in mine : ~Full(s, x)}
           other == {x \in mine : ~FullOfOthers(s, x)}
           here == s.job.port
<1>1. ASSUME NEW x PROVE SameCrew([s EXCEPT !.job.port = x], s)
  BY DEF SameCrew, Fleeing, GoodTurn, TurnType, ShipType
<1>2. ASSUME NEW x PROVE SameCrew([[s EXCEPT !.job.port = x] EXCEPT !.job.goal = None], s)
  BY DEF SameCrew, Fleeing, GoodTurn, TurnType, ShipType
<1>3. ASSUME NEW S, NEW q \in to(S)
      PROVE  SameCrew(q, s) /\ SameCrew([q EXCEPT !.job.goal = None], s)
  BY <1>1, <1>2
<1>4. SameCrew(s, s)
  BY DEF SameCrew
<1>5. r \in IF here \notin mine
            THEN IF other = {} THEN {[s EXCEPT !.job.port = None]}
                 ELSE {[q EXCEPT !.job.goal = None] : q \in to(other)}
            ELSE IF open = {} THEN {s}
            ELSE IF here \notin open THEN to(open)
            ELSE {IF 4 * Dist(s.at, q.job.port) * Dist(s.at, q.job.port)
                     < 3 * Dist(s.at, here) * Dist(s.at, here) THEN q ELSE s : q \in to(open)}
  BY DEF Refreshed
<1> HIDE DEF mine, to, open, other, here
<1> QED BY <1>1, <1>3, <1>4, <1>5

LEMMA CrewRetreats ==
    ASSUME NEW s \in Fleeing, NEW q \in Retreats(s), UnitsOK
    PROVE  SameCrew(q, s)
<1>1. PICK r \in Refreshed(s) : q \in IF r.job.port = None THEN {GivesUp(r)}
                                     ELSE {Withdraws(f) : f \in Fires(r)}
  BY DEF Retreats
<1>2. r \in Fleeing /\ r \in GoodTurn /\ SameCrew(r, s)
  BY RefreshedGood, CrewRefreshes DEF Fleeing
<1>3. CASE r.job.port = None
  BY <1>1, <1>2, <1>3, CrewSteps DEF SameCrew
<1>4. CASE r.job.port # None
  <2>1. r \in Heading
    BY <1>2, <1>4 DEF Heading, Fleeing, GoodTurn, TurnType, ShipType
  <2>2. PICK f \in Fires(r) : q = Withdraws(f)
    BY <1>1, <1>4
  <2>3. f \in GoodTurn /\ SameCrew(f, r)
    BY <1>2, <2>1, FiresGood, CrewFires DEF Heading, Fleeing
  <2>4. SameCrew(q, f)
    BY <2>2, <2>3, CrewSteps
  <2> QED BY <1>2, <2>3, <2>4 DEF SameCrew
<1> QED BY <1>3, <1>4

LEMMA CrewFlees ==
    ASSUME NEW s \in GoodTurn, NEW f \in Fled(s)
    PROVE  SameCrew(f, s)
<1>1. ASSUME NEW x PROVE SameCrew([s EXCEPT !.job.retreating = TRUE, !.job.port = x], s)
  BY DEF SameCrew, GoodTurn, TurnType, ShipType
<1> QED BY <1>1 DEF Fled
LEMMA CrewCruises ==
    ASSUME NEW s \in GoodTurn, NEW q \in Cruises(s)
    PROVE  SameCrew(q, s)
<1>1. ASSUME NEW x, NEW g
      PROVE  /\ SameCrew([s EXCEPT !.job.goal = g, !.at = Toward(@, x)], s)
             /\ SameCrew([s EXCEPT !.job.goal = g], s)
             /\ SameCrew([s EXCEPT !.at = Toward(@, x)], s)
  BY DEF SameCrew, GoodTurn, TurnType, ShipType
<1>2. CASE s.job.goal = None
  <2>1. PICK x : q = [s EXCEPT !.job.goal = IF x = s.at THEN None ELSE x, !.at = Toward(@, x)]
    BY <1>2 DEF Cruises
  <2> QED BY <1>1, <2>1
<1>3. CASE s.job.goal # None /\ s.job.goal = s.at
  BY <1>1, <1>3 DEF Cruises
<1>4. CASE s.job.goal # None /\ s.job.goal # s.at
  BY <1>1, <1>4 DEF Cruises
<1> QED BY <1>2, <1>3, <1>4

\* A warship's turn ends with the same crew, and with no prize but a trade ship.
Prizes == OfType("Trade") \cup {None}
LEMMA CrewActs ==
    ASSUME NEW s \in GoodTurn, NEW q \in Acts(s), UnitsOK, s.prize \in Prizes
    PROVE  q.job.unit = s.job.unit /\ q.job.by = s.job.by /\ q.prize \in Prizes
<1>1. CASE Best(s, Ships) = {}
  BY <1>1, CrewCruises DEF Acts, SameCrew
<1>2. CASE Best(s, Ships) # {}
  <2>1. PICK u \in Best(s, Ships) : q \in IF unit[u].type = "Trade" THEN {Chase(Chase(s, u), u)}
                                         ELSE Cruises(Shot(s, u))
    BY <1>2 DEF Acts
  <2>2. u \in UnitIds /\ Exists(u)
    BY <2>1, BestExist
  <2>3. CASE unit[u].type = "Trade"
    <3>1. u \in Prizes
      BY <2>2, <2>3 DEF Prizes, OfType
    <3>2. ASSUME NEW r \in GoodTurn, r.prize \in Prizes
          PROVE  /\ Chase(r, u).job = r.job /\ Chase(r, u).prize \in Prizes
      BY <3>1, <3>2 DEF Chase, GoodTurn, TurnType
    <3>3. Chase(s, u) \in GoodTurn
      BY <2>2, ChaseGood
    <3> QED BY <2>1, <2>3, <3>2, <3>3
  <2>4. CASE unit[u].type # "Trade"
    <3>1. Shot(s, u) \in GoodTurn /\ SameCrew(Shot(s, u), s)
      BY <2>2, ShotGood, CrewSteps
    <3>2. SameCrew(q, Shot(s, u))
      BY <2>1, <2>4, <3>1, CrewCruises
    <3> QED BY <3>1, <3>2 DEF SameCrew
  <2> QED BY <2>3, <2>4
<1> QED BY <1>1, <1>2

LEMMA CrewSorties ==
    ASSUME NEW s \in GoodTurn, NEW q \in Sorties(s), UnitsOK, execs \in Seq(JobType), s.prize = None
    PROVE  q.job.unit = s.job.unit /\ q.job.by = s.job.by /\ q.prize \in Prizes
<1> DEFINE Crew == {r \in GoodTurn : SameCrew(r, s)}
           risen == {Undocked(Ordered(h)) : h \in Healed(s)}
           retired == UNION {IF r.on /\ r.job.retreating THEN Retreats(r) ELSE {r} : r \in risen}
           sobered == UNION {IF r.on /\ Flees(r, s.hp) THEN UNION {Retreats(f) : f \in Fled(r)}
                             ELSE {r} : r \in retired}
<1>1. risen \subseteq Crew
  <2> SUFFICES ASSUME NEW h \in Healed(s) PROVE Undocked(Ordered(h)) \in Crew
    OBVIOUS
  <2>1. h \in GoodTurn /\ SameCrew(h, s)
    BY HealedGood, CrewHeals
  <2>2. Ordered(h) \in GoodTurn /\ SameCrew(Ordered(h), h)
    BY <2>1, OrderedGood, CrewSteps
  <2>3. Undocked(Ordered(h)) \in GoodTurn /\ SameCrew(Undocked(Ordered(h)), Ordered(h))
    BY <2>2, UndockedGood, CrewSteps
  <2> QED BY <2>1, <2>2, <2>3 DEF SameCrew
<1>2. ASSUME NEW r \in Crew, r \in Fleeing, NEW t \in Retreats(r) PROVE t \in Crew
  <2>1. t \in GoodTurn /\ SameCrew(t, r)
    BY <1>2, RetreatsGood, CrewRetreats
  <2> QED BY <2>1 DEF SameCrew
<1>3. ASSUME NEW r \in Crew, r.job.retreating PROVE r \in Fleeing
  BY <1>3, Numbers DEF Fleeing, GoodTurn, TurnType, ShipType, Orderly
<1>4. ASSUME NEW r \in Crew, Flees(r, s.hp), NEW f \in Fled(r) PROVE f \in Crew /\ f \in Fleeing
  <2>1. f \in Fleeing /\ SameCrew(f, r)
    BY <1>4, FledGood, CrewFlees
  <2> QED BY <2>1 DEF SameCrew, Fleeing
<1> HIDE DEF Crew, risen
<1>5. retired \subseteq Crew
  BY <1>1, <1>2, <1>3
<1> HIDE DEF retired
<1>6. sobered \subseteq Crew
  BY <1>2, <1>4, <1>5
<1> HIDE DEF sobered
<1>7. PICK r \in sobered : q \in IF r.on THEN Acts(r) ELSE {r}
  BY DEF Sorties, sobered, retired, risen
<1>8. r \in GoodTurn /\ SameCrew(r, s)
  BY <1>6 DEF Crew
<1>9. r.prize \in Prizes
  BY <1>8 DEF SameCrew, Prizes
<1> QED BY <1>7, <1>8, <1>9, CrewActs DEF SameCrew

\* No two executions steer one ship; ...
OneCrew == \A i, k \in ShipJobs : execs[i].unit = execs[k].unit => i = k
CrewInv == StepInv /\ OneCrew
\* ... one that still commands its ship remains, ...
JobsKept == \A i \in ShipJobs :
               execs[i].unit \in UnitIds /\ execs[i].by = unit[execs[i].unit].holder =>
               \E k \in ShipJobs' : execs'[k].unit = execs[i].unit /\ execs'[k].by = execs[i].by
\* ... and no warship is built or changes hands ...
WarshipsKept == \A u \in UnitIds : unit'[u].type = "Warship" =>
                                  unit[u].type = "Warship" /\ unit'[u].holder = unit[u].holder
\* ... but into the hands of an heir.
Heirs == \A u \in Adrift' \ Adrift : /\ unit[u].holder \in offline
                                     /\ SameTeam(unit[u].holder, unit'[u].holder)

LEMMA NoneDrift ==
    ASSUME JobsKept, WarshipsKept
    PROVE  Heirs
<1> SUFFICES ASSUME NEW u \in Adrift', u \notin Adrift PROVE FALSE
  BY DEF Heirs
<1>1. /\ u \in UnitIds /\ unit'[u].type = "Warship"
      /\ ~\E k \in ShipJobs' : execs'[k].unit = u /\ execs'[k].by = unit'[u].holder
  BY DEF Adrift, OfType, Steered
<1>2. unit[u].type = "Warship" /\ unit'[u].holder = unit[u].holder
  BY <1>1 DEF WarshipsKept
<1>3. PICK i \in ShipJobs : execs[i].unit = u /\ execs[i].by = unit[u].holder
  BY <1>1, <1>2 DEF Adrift, OfType, Steered
<1> QED BY <1>1, <1>2, <1>3 DEF JobsKept

LEMMA SameCrews ==
    ASSUME OneCrew, 1 .. Len(execs') = 1 .. Len(execs),
           \A i \in 1 .. Len(execs) :
              /\ execs'[i].kind = execs[i].kind
              /\ execs[i].kind = "ship" =>
                    execs'[i].unit = execs[i].unit /\ execs'[i].by = execs[i].by
    PROVE  OneCrew' /\ JobsKept
<1>1. ShipJobs' = ShipJobs
  BY DEF ShipJobs
<1>2. \A i \in ShipJobs : execs'[i].unit = execs[i].unit /\ execs'[i].by = execs[i].by
  BY DEF ShipJobs
<1> QED BY <1>1, <1>2 DEF OneCrew, JobsKept
LEMMA IdleCrews == ASSUME OneCrew, UNCHANGED execs PROVE OneCrew' /\ JobsKept
  BY SameCrews
LEMMA StayCrews ==
    ASSUME StepInv, OneCrew, NEW k, Turn(k), NEW j, Stay(j), j.kind = k,
           k = "ship" => j.unit = Me.unit /\ j.by = Me.by
    PROVE  OneCrew' /\ JobsKept
<1>1. execs \in Seq(GoodJob) /\ cursor \in 1 .. Len(execs)
  BY LenProperties DEF StepInv, LoopTypeOK, Turn
<1>2. Len(execs') = Len(execs) /\ \A i \in 1 .. Len(execs) : execs'[i] = IF i = cursor THEN j ELSE execs[i]
  BY <1>1, ExceptSeq DEF Stay
<1>3. \A i \in 1 .. Len(execs) :
         /\ execs'[i].kind = execs[i].kind
         /\ execs[i].kind = "ship" => execs'[i].unit = execs[i].unit /\ execs'[i].by = execs[i].by
  BY <1>2 DEF Turn, Me
<1> QED BY <1>2, <1>3, SameCrews

\* When an execution is done, those behind it move up.
LEMMA DoneMoves ==
    ASSUME NEW S, execs \in Seq(S), cursor \in 1 .. Len(execs), Done
    PROVE  /\ Len(execs') = Len(execs) - 1
           /\ \A i \in 1 .. Len(execs') : execs'[i] = execs[IF i < cursor THEN i ELSE i + 1]
<1> DEFINE a == SubSeq(execs, 1, cursor - 1)
           b == SubSeq(execs, cursor + 1, Len(execs))
<1>0. Len(execs) \in Nat
  BY LenProperties
<1>1. a \in Seq(S) /\ Len(a) = cursor - 1 /\ \A i \in 1 .. Len(a) : a[i] = execs[i]
  BY <1>0, SubSeqProperties
<1>2. b \in Seq(S) /\ Len(b) = Len(execs) - cursor /\ \A i \in 1 .. Len(b) : b[i] = execs[cursor + i]
  BY <1>0, SubSeqProperties
<1>3. execs' = a \o b
  BY DEF Done
<1> HIDE DEF a, b
<1>4. Len(a \o b) = Len(a) + Len(b)
  BY <1>1, <1>2, ConcatProperties
<1>5. \A i \in 1 .. Len(a \o b) : (a \o b)[i] = IF i <= Len(a) THEN a[i] ELSE b[i - Len(a)]
  BY <1>1, <1>2, ConcatProperties
<1>6. Len(execs') = Len(execs) - 1
  BY <1>0, <1>1, <1>2, <1>3, <1>4
<1>7. ASSUME NEW i \in 1 .. Len(execs')
      PROVE  execs'[i] = execs[IF i < cursor THEN i ELSE i + 1]
  <2>1. execs'[i] = IF i <= Len(a) THEN a[i] ELSE b[i - Len(a)]
    BY <1>3, <1>5
  <2>2. CASE i < cursor
    BY <1>0, <1>1, <2>1, <2>2
  <2>3. CASE ~(i < cursor)
    <3>1. i - Len(a) \in 1 .. Len(b) /\ cursor + (i - Len(a)) = i + 1 /\ ~(i <= Len(a))
      BY <1>0, <1>1, <1>2, <1>6, <2>3
    <3> QED BY <1>2, <2>1, <2>3, <3>1
  <2> QED BY <2>2, <2>3
<1> QED BY <1>6, <1>7

LEMMA DoneCrews ==
    ASSUME StepInv, OneCrew, NEW k, Turn(k), Done, k = "ship" => Me.unit \notin HeldBy(Me.by)
    PROVE  OneCrew' /\ JobsKept
<1> DEFINE f(i) == IF i < cursor THEN i ELSE i + 1
           g(i) == IF i < cursor THEN i ELSE i - 1
<1>1. execs \in Seq(GoodJob) /\ cursor \in 1 .. Len(execs) /\ Len(execs) \in Nat
  BY LenProperties DEF StepInv, LoopTypeOK, Turn
<1>2. Len(execs') = Len(execs) - 1 /\ \A i \in 1 .. Len(execs') : execs'[i] = execs[f(i)]
  BY <1>1, DoneMoves
<1>3. \A i \in 1 .. Len(execs') : f(i) \in 1 .. Len(execs)
  BY <1>1, <1>2
<1>4. \A i, m \in 1 .. Len(execs') : f(i) = f(m) => i = m
  BY <1>1, <1>2
<1>5. \A i \in 1 .. Len(execs) : i # cursor => g(i) \in 1 .. Len(execs') /\ f(g(i)) = i
  BY <1>1, <1>2
<1> HIDE DEF f, g
<1>6. OneCrew'
  <2> SUFFICES ASSUME NEW i \in ShipJobs', NEW m \in ShipJobs', execs'[i].unit = execs'[m].unit
               PROVE  i = m
    BY DEF OneCrew
  <2>1. i \in 1 .. Len(execs') /\ m \in 1 .. Len(execs') /\ execs'[i].kind = "ship" /\ execs'[m].kind = "ship"
    BY DEF ShipJobs
  <2>2. f(i) \in ShipJobs /\ f(m) \in ShipJobs /\ execs[f(i)].unit = execs[f(m)].unit
    BY <1>2, <1>3, <2>1 DEF ShipJobs
  <2> QED BY <1>4, <2>1, <2>2 DEF OneCrew
<1>7. JobsKept
  <2> SUFFICES ASSUME NEW i \in ShipJobs, execs[i].unit \in UnitIds,
                      execs[i].by = unit[execs[i].unit].holder
               PROVE  \E m \in ShipJobs' : execs'[m].unit = execs[i].unit /\ execs'[m].by = execs[i].by
    BY DEF JobsKept
  <2>1. i \in 1 .. Len(execs) /\ execs[i].kind = "ship"
    BY DEF ShipJobs
  <2>2. i # cursor
    BY <2>1 DEF Turn, Me, HeldBy
  <2>3. g(i) \in 1 .. Len(execs') /\ execs'[g(i)] = execs[i]
    BY <1>2, <1>5, <2>1, <2>2
  <2>4. g(i) \in ShipJobs'
    BY <2>1, <2>3 DEF ShipJobs
  <2> QED BY <2>3, <2>4
<1> QED BY <1>6, <1>7

\* A new execution, of a ship that nobody has steered.
LEMMA AppendCrews ==
    ASSUME StepInv, OneCrew, NEW j, execs' = Append(execs, j),
           j.kind = "ship" => \A i \in ShipJobs : execs[i].unit # j.unit
    PROVE  /\ OneCrew' /\ JobsKept
           /\ Len(execs) + 1 \in 1 .. Len(execs') /\ execs'[Len(execs) + 1] = j
<1>1. execs \in Seq(GoodJob) /\ Len(execs) \in Nat
  BY LenProperties DEF StepInv, LoopTypeOK
<1>2. /\ Len(execs') = Len(execs) + 1 /\ execs'[Len(execs) + 1] = j
      /\ \A i \in 1 .. Len(execs) : execs'[i] = execs[i]
  BY <1>1
<1>3. \A i \in ShipJobs' : i \in ShipJobs \/ (i = Len(execs) + 1 /\ j.kind = "ship")
  BY <1>1, <1>2 DEF ShipJobs
<1>4. \A i \in ShipJobs : i \in 1 .. Len(execs) /\ i \in ShipJobs'
  BY <1>1, <1>2 DEF ShipJobs
<1>5. OneCrew'
  <2> SUFFICES ASSUME NEW i \in ShipJobs', NEW m \in ShipJobs', execs'[i].unit = execs'[m].unit
               PROVE  i = m
    BY DEF OneCrew
  <2> QED BY <1>2, <1>3, <1>4 DEF OneCrew
<1>6. JobsKept
  BY <1>2, <1>4 DEF JobsKept
<1> QED BY <1>1, <1>2, <1>5, <1>6

LEMMA SameShips ==
    ASSUME \A u \in UnitIds : unit'[u].type = unit[u].type /\ unit'[u].holder = unit[u].holder
    PROVE  WarshipsKept
  BY DEF WarshipsKept
LEMMA WithoutShips == ASSUME NEW S, unit' = Without(S) PROVE WarshipsKept
  BY DEF WarshipsKept, Without, NoUnit
LEMMA BuiltShips ==
    ASSUME UnitsOK, NEW v, v.type # "Warship", unit' = [unit EXCEPT ![Fresh] = v]
    PROVE  WarshipsKept
  BY DEF WarshipsKept, UnitsOK

\* The steps in which the executions stay as they are ...
LEMMA IdleHeirs ==
    ASSUME CrewInv, UNCHANGED execs, WarshipsKept
    PROVE  OneCrew' /\ Heirs
  BY IdleCrews, NoneDrift DEF CrewInv
LEMMA LoopCrews == CrewInv /\ (StartTick \/ StartInits) => OneCrew' /\ Heirs
  BY IdleHeirs, SameShips DEF StartTick, OpenTick, StartInits, AllHadTurns
LEMMA EndTickCrews == CrewInv /\ EndTick => OneCrew' /\ Heirs
<1> SUFFICES ASSUME CrewInv, EndTick PROVE OneCrew' /\ Heirs
  OBVIOUS
<1>1. ASSUME NEW u \in UnitIds PROVE unit'[u].type = unit[u].type /\ unit'[u].holder = unit[u].holder
  <2>1. unit[u] \in UnitType
    BY DEF CrewInv, StepInv, UnitsOK, SoundUnit
  <2> DEFINE n == IF unit[u].type = "Trade" THEN Least(unit[u].safe + 1, SafeTicks) ELSE unit[u].safe
  <2>2. unit'[u] = [unit[u] EXCEPT !.safe = n]
    BY <2>1 DEF EndTick, UnitType
  <2> HIDE DEF n
  <2> QED BY <2>1, <2>2 DEF UnitType
<1>2. WarshipsKept
  BY <1>1, SameShips
<1> QED BY <1>2, IdleHeirs DEF EndTick, CloseTick

\* ... and the turns and the initialisations.
LEMMA TurnCrews ==
    ASSUME CrewInv, NEW k, k # "ship", Turn(k), NEW j, (Stay(j) /\ j.kind = k) \/ Done, WarshipsKept
    PROVE  OneCrew' /\ Heirs
<1>1. OneCrew' /\ JobsKept
  BY StayCrews, DoneCrews DEF CrewInv
<1> QED BY <1>1, NoneDrift
LEMMA PlayerTurnCrews == CrewInv /\ PlayerTurn => OneCrew' /\ Heirs
<1> SUFFICES ASSUME CrewInv, PlayerTurn PROVE OneCrew' /\ Heirs
  OBVIOUS
<1>1. ASSUME NEW u \in UnitIds, Reconciled(Me.by)[u].type = "Warship"
      PROVE  Reconciled(Me.by)[u] = unit[u]
  <2>1. unit[u] \in UnitType
    BY DEF CrewInv, StepInv, UnitsOK, SoundUnit
  <2> QED BY <1>1, <2>1 DEF Reconciled, NoUnit, UnitType, Ports, OfType
<1>2. WarshipsKept
  <2>1. CASE Has(Me.by)
    BY <1>1, <2>1 DEF WarshipsKept, PlayerTurn
  <2>2. CASE ~Has(Me.by)
    <3>1. unit' = Buried(Reconciled(Me.by), Me.by)
      BY <2>2 DEF PlayerTurn
    <3> QED BY <1>1, <3>1 DEF WarshipsKept, Buried, NoUnit
  <2> QED BY <2>1, <2>2
<1>3. Turn("player") /\ ((Stay(Me) /\ Me.kind = "player") \/ Done)
  BY DEF PlayerTurn, Turn, Me
<1> QED BY <1>2, <1>3, TurnCrews
LEMMA PortTurnCrews == CrewInv /\ PortTurn => OneCrew' /\ Heirs
<1> SUFFICES ASSUME CrewInv, PortTurn PROVE OneCrew' /\ Heirs
  OBVIOUS
<1> DEFINE j == [Me EXCEPT !.by = unit[Me.unit].holder]
<1>1. Turn("port") /\ WarshipsKept
  BY SameShips DEF PortTurn
<1>2. Me \in [kind : {"port"}, by : Players, unit : UnitIds]
  BY <1>1, MeIs, KindsOfJobs DEF CrewInv, StepInv
<1>3. j.kind = "port"
  BY <1>2
<1>4. Stay(j) \/ Done
  BY DEF PortTurn
<1> HIDE DEF j
<1> QED BY <1>1, <1>3, <1>4, TurnCrews
LEMMA TradeFailsCrews == CrewInv /\ TradeFails => OneCrew' /\ Heirs
<1> SUFFICES ASSUME CrewInv, TradeFails PROVE OneCrew' /\ Heirs
  OBVIOUS
<1>1. Turn("trade") /\ Done /\ WarshipsKept
  BY SameShips DEF TradeFails
<1> QED BY <1>1, TurnCrews
LEMMA TradeTurnCrews == CrewInv /\ TradeTurn => OneCrew' /\ Heirs
<1> SUFFICES ASSUME CrewInv, TradeTurn PROVE OneCrew' /\ Heirs
  OBVIOUS
<1> DEFINE u == Built
           p == WithShip[u].holder
           x == WithShip[u].at
<1>1. Turn("trade") /\ UnitsOK
  BY DEF TradeTurn, CrewInv, StepInv
<1>2. CASE Done /\ (UNCHANGED unit \/ unit' = Without({u}))
  <2>1. WarshipsKept
    BY <1>2, SameShips, WithoutShips
  <2> QED BY <1>1, <1>2, <2>1, TurnCrews
<1>3. CASE ~(Done /\ (UNCHANGED unit \/ unit' = Without({u})))
  <2>1. p # Neutral /\ ~Pointless(p)
    BY <1>3 DEF TradeTurn, Dismissed
  <2>2. PICK d \in Bound(p, x) :
          LET y == Toward(x, unit[d].at) IN
          IF unit[d].at = x
          THEN /\ Done /\ unit' = Without({u})
               /\ gold' = [q \in Players |-> IF q \in Paid(p) THEN gold[q] + 1 ELSE gold[q]]
          ELSE /\ unit' = [WithShip EXCEPT ![u].at = y,
                                           ![u].safe = IF y \in Shoreline THEN 0 ELSE @]
               /\ Stay([Me EXCEPT !.unit = u, !.robbed = Robbed(p), !.dst = d,
                                  !.srcOwner = Known(Me.src, @), !.dstOwner = Known(d, @)])
               /\ UNCHANGED gold
    BY <2>1 DEF TradeTurn
  <2> DEFINE y == Toward(x, unit[d].at)
             j == [Me EXCEPT !.unit = u, !.robbed = Robbed(p), !.dst = d,
                             !.srcOwner = Known(Me.src, @), !.dstOwner = Known(d, @)]
  <2>3. /\ unit' = [WithShip EXCEPT ![u].at = y, ![u].safe = IF y \in Shoreline THEN 0 ELSE @]
        /\ Stay(j)
    BY <1>3, <2>2
  <2>4. j.kind = "trade"
    <3>1. Me \in TradeType
      BY <1>1, MeIs, KindsOfJobs DEF CrewInv, StepInv
    <3> QED BY <3>1 DEF TradeType
  <2> HIDE DEF y, j
  <2>5. WarshipsKept
    <3>1. ASSUME NEW v \in UnitIds
          PROVE  unit'[v].type = WithShip[v].type /\ unit'[v].holder = WithShip[v].holder
      <4>1. WithShip \in [UnitIds -> UnitType \cup {New("Trade", Me.by, unit[Me.src].at)}]
        BY <1>1 DEF WithShip, UnitsOK, SoundUnit
      <4> QED BY <2>3, <4>1 DEF UnitType, New
    <3>2. ASSUME NEW v \in UnitIds, WithShip[v].type = "Warship" PROVE WithShip[v] = unit[v]
      BY <1>1, <3>2 DEF WithShip, New, UnitsOK
    <3> QED BY <3>1, <3>2 DEF WarshipsKept
  <2> QED BY <1>1, <2>3, <2>4, <2>5, TurnCrews
<1> QED BY <1>2, <1>3
LEMMA ShipTurnCrews == CrewInv /\ ShipTurn => OneCrew' /\ Heirs
<1> SUFFICES ASSUME CrewInv, ShipTurn PROVE OneCrew' /\ Heirs
  OBVIOUS
<1> DEFINE u == Me.unit
           s0 == Turning(Aged(Me), unit[u].at, unit[u].health)
<1>1. Turn("ship") /\ LoopTypeOK(GoodJob) /\ UnitsOK /\ StepInv /\ OneCrew
  BY DEF ShipTurn, CrewInv, StepInv
<1>2. CASE u \notin HeldBy(Me.by) /\ Done /\ UNCHANGED <<unit, uninit>>
  <2>1. OneCrew' /\ JobsKept
    BY <1>1, <1>2, DoneCrews
  <2> QED BY <1>2, <2>1, SameShips, NoneDrift
<1>3. CASE u \in HeldBy(Me.by)
  <2>1. PICK s \in Sorties(s0) :
          /\ unit' = [v \in UnitIds |->
                        IF v = u THEN [unit[u] EXCEPT !.at = s.at, !.health = s.hp]
                        ELSE IF v = s.prize THEN [unit[v] EXCEPT !.holder = Me.by]
                        ELSE unit[v]]
          /\ Stay(s.job) /\ Add(s.shots)
    BY <1>3 DEF ShipTurn
  <2>2. s0 \in GoodTurn
    BY <1>1, <1>3, MyShipSails
  <2>3. s0.job.unit = u /\ s0.job.by = Me.by /\ s0.prize = None
    <3>1. Me \in ShipType
      BY <1>1, MeIs, KindsOfJobs
    <3> QED BY <3>1 DEF Turning, Aged, ShipType
  <2>4. s.job.unit = u /\ s.job.by = Me.by /\ s.prize \in Prizes /\ s.job.kind = "ship"
    <3>1. execs \in Seq(JobType)
      BY <1>1, GoodJobsAreJobs DEF LoopTypeOK
    <3> HIDE DEF s0
    <3>2. s.job.unit = u /\ s.job.by = Me.by /\ s.prize \in Prizes
      BY <1>1, <2>1, <2>2, <2>3, <3>1, CrewSorties
    <3>3. s \in GoodTurn
      BY <1>1, <2>1, <2>2, <3>1, SortiesGood
    <3> QED BY <3>2, <3>3 DEF GoodTurn, TurnType, ShipType
  <2> HIDE DEF s0
  <2>5. OneCrew' /\ JobsKept
    BY <1>1, <2>1, <2>4, StayCrews
  <2>6. WarshipsKept
    <3>1. ASSUME NEW v \in UnitIds, unit'[v].type = "Warship"
          PROVE  unit[v].type = "Warship" /\ unit'[v].holder = unit[v].holder
      <4>1. unit[v] \in UnitType
        BY <1>1 DEF UnitsOK, SoundUnit
      <4>2. CASE v = u
        BY <2>1, <3>1, <4>1, <4>2 DEF UnitType
      <4>3. CASE v # u /\ v = s.prize
        <5>1. unit[v].type = "Trade"
          BY <2>4, <4>3, Ranges DEF Prizes, OfType, None
        <5> QED BY <2>1, <3>1, <4>1, <4>3, <5>1 DEF UnitType
      <4>4. CASE v # u /\ v # s.prize
        BY <2>1, <3>1, <4>4
      <4> QED BY <4>2, <4>3, <4>4
    <3> QED BY <3>1 DEF WarshipsKept
  <2> QED BY <2>5, <2>6, NoneDrift
<1> QED BY <1>2, <1>3 DEF ShipTurn

LEMMA ShellTurnCrews == CrewInv /\ ShellTurn => OneCrew' /\ Heirs
<1> SUFFICES ASSUME CrewInv, ShellTurn PROVE OneCrew' /\ Heirs
  OBVIOUS
<1> DEFINE j == [Me EXCEPT !.built = TRUE, !.left = @ - 1, !.fuse = Fuse]
<1>1. Turn("shell") /\ UnitsOK
  BY DEF ShellTurn, CrewInv, StepInv
<1>2. j.kind = "shell"
  <2>1. Me \in ShellType
    BY <1>1, MeIs, KindsOfJobs DEF CrewInv, StepInv
  <2> QED BY <2>1 DEF ShellType
<1>3. Stay(j) \/ Done
  BY DEF ShellTurn
<1>4. WarshipsKept
  <2>1. CASE UNCHANGED unit
    BY <2>1, SameShips
  <2>2. CASE \E d \in Damages : unit' = Hit(Me.prey, d)
    <3>1. PICK d \in Damages : unit' = Hit(Me.prey, d)
      BY <2>2
    <3>2. CASE unit' = Without({Me.prey})
      BY <3>2, WithoutShips
    <3>3. CASE unit' = [unit EXCEPT ![Me.prey].health = @ - d]
      <4>1. ASSUME NEW v \in UnitIds
            PROVE  unit'[v].type = unit[v].type /\ unit'[v].holder = unit[v].holder
        <5>1. unit[v] \in UnitType
          BY <1>1 DEF UnitsOK, SoundUnit
        <5> QED BY <1>1, <3>3, <5>1 DEF UnitType, UnitsOK
      <4> QED BY <4>1, SameShips
    <3> QED BY <3>1, <3>2, <3>3 DEF Hit
  <2> QED BY <2>1, <2>2 DEF ShellTurn
<1> HIDE DEF j
<1> QED BY <1>1, <1>2, <1>3, <1>4, TurnCrews
LEMMA YardTurnCrews == CrewInv /\ YardTurn => OneCrew' /\ Heirs
<1> SUFFICES ASSUME CrewInv, YardTurn PROVE OneCrew' /\ Heirs
  OBVIOUS
<1>1. Turn("yard") /\ Done /\ WarshipsKept
  BY SameShips DEF YardTurn
<1> QED BY <1>1, TurnCrews
LEMMA ClockTurnCrews == CrewInv /\ ClockTurn => OneCrew' /\ Heirs
<1> SUFFICES ASSUME CrewInv, ClockTurn PROVE OneCrew' /\ Heirs
  OBVIOUS
<1> DEFINE j == [Me EXCEPT !.ticks = Later(@)]
<1>1. Turn("clock") /\ Stay(j)
  BY DEF ClockTurn
<1>2. j.kind = "clock"
  <2>1. Me \in [kind : {"clock"}, ticks : Nat]
    BY <1>1, MeIs, KindsOfJobs DEF CrewInv, StepInv
  <2> QED BY <2>1
<1>3. WarshipsKept
  <2>1. ASSUME NEW u \in UnitIds, Scuttled[u].type = "Warship"
        PROVE  unit[u].type = "Warship" /\ Scuttled[u].holder = unit[u].holder
    <3>1. unit[u] \in UnitType
      BY DEF CrewInv, StepInv, UnitsOK, SoundUnit
    <3> QED BY <2>1, <3>1 DEF Scuttled, NoUnit, UnitType
  <2>2. unit' = Scuttled \/ unit' = unit
    BY DEF ClockTurn
  <2> QED BY <2>1, <2>2 DEF WarshipsKept
<1> HIDE DEF j
<1> QED BY <1>1, <1>2, <1>3, TurnCrews

LEMMA InitPlainCrews == CrewInv /\ InitPlain => OneCrew' /\ Heirs
<1> SUFFICES ASSUME CrewInv, InitPlain PROVE OneCrew' /\ Heirs
  OBVIOUS
<1>1. New1.kind # "ship" /\ execs' = Append(execs, New1) /\ UNCHANGED unit
  BY DEF InitPlain, DueInit, New1, Append1
<1>2. OneCrew' /\ JobsKept
  BY <1>1, AppendCrews DEF CrewInv
<1> QED BY <1>1, <1>2, SameShips, NoneDrift

\* A new warship gets an id that no execution names, and its execution at once.
LEMMA InitShipCrews == CrewInv /\ InitShip => OneCrew' /\ Heirs
<1> SUFFICES ASSUME CrewInv, InitShip PROVE OneCrew' /\ Heirs
  OBVIOUS
<1>1. StepInv /\ OneCrew /\ UnitsOK
  BY DEF CrewInv, StepInv
<1>2. CASE Drop1 /\ UNCHANGED unit
  BY <1>2, IdleHeirs, SameShips DEF Drop1
<1>3. CASE /\ FreeIds # {}
           /\ \E x \in Nearest(PortsAt(New1.by), New1.patrol) :
                 unit' = [unit EXCEPT ![Fresh] = New("Warship", New1.by, x)]
           /\ Append1([New1 EXCEPT !.unit = Fresh])
  <2> DEFINE j == [New1 EXCEPT !.unit = Fresh]
             n == Len(execs) + 1
  <2>1. PICK x : unit' = [unit EXCEPT ![Fresh] = New("Warship", New1.by, x)]
    BY <1>3
  <2>2. j.kind = "ship" /\ j.unit = Fresh /\ j.by = New1.by
    <3>1. New1 \in GoodJob /\ New1.kind = "ship"
      BY <1>1, InitIn DEF InitShip, DueInit, StepInv, LoopTypeOK, New1
    <3>2. New1 \in ShipType
      BY <3>1, KindsOfJobs DEF GoodJob
    <3> QED BY <3>2 DEF ShipType
  <2>3. \A i \in ShipJobs : execs[i].unit # Fresh
    <3> SUFFICES ASSUME NEW i \in ShipJobs PROVE execs[i].unit \in Named
      BY <1>3 DEF Fresh, FreeIds
    <3>1. execs[i] \in Range(execs) /\ execs[i].kind = "ship"
      BY <1>1, LenProperties DEF ShipJobs, Range, StepInv, LoopTypeOK
    <3> QED BY <3>1 DEF Named
  <2>4. execs' = Append(execs, j)
    BY <1>3 DEF Append1
  <2> HIDE DEF j
  <2>5. OneCrew' /\ JobsKept /\ n \in 1 .. Len(execs') /\ execs'[n] = j
    BY <1>1, <2>2, <2>3, <2>4, AppendCrews
  <2>6. ASSUME NEW u \in Adrift', u \notin Adrift PROVE FALSE
    <3>1. /\ u \in UnitIds /\ unit'[u].type = "Warship"
          /\ ~\E k \in ShipJobs' : execs'[k].unit = u /\ execs'[k].by = unit'[u].holder
      BY <2>6 DEF Adrift, OfType, Steered
    <3>2. CASE u = Fresh
      <4>1. unit'[u].holder = New1.by
        BY <1>1, <2>1, <3>1, <3>2 DEF UnitsOK, New
      <4>2. n \in ShipJobs'
        BY <2>2, <2>5 DEF ShipJobs
      <4> QED BY <2>2, <2>5, <3>1, <3>2, <4>1, <4>2
    <3>3. CASE u # Fresh
      <4>1. unit'[u] = unit[u]
        BY <1>1, <2>1, <3>1, <3>3 DEF UnitsOK
      <4>2. PICK i \in ShipJobs : execs[i].unit = u /\ execs[i].by = unit[u].holder
        BY <2>6, <3>1, <4>1 DEF Adrift, OfType, Steered
      <4> QED BY <2>5, <3>1, <4>1, <4>2 DEF JobsKept
    <3> QED BY <3>2, <3>3
  <2> QED BY <2>5, <2>6 DEF Heirs
<1> QED BY <1>2, <1>3 DEF InitShip

\* Orders change no crew.
LEMMA StillMine ==
    ASSUME NEW j \in GoodJob, j.kind = "ship", NEW x
    PROVE  /\ [j EXCEPT !.patrol = x].kind = "ship" /\ [j EXCEPT !.patrol = x, !.goal = None].kind = "ship"
           /\ [j EXCEPT !.patrol = x].unit = j.unit /\ [j EXCEPT !.patrol = x, !.goal = None].unit = j.unit
           /\ [j EXCEPT !.patrol = x].by = j.by /\ [j EXCEPT !.patrol = x, !.goal = None].by = j.by
<1>1. j \in ShipType
  BY KindsOfJobs DEF GoodJob
<1> QED BY <1>1 DEF ShipType
LEMMA RedirectedCrews ==
    ASSUME CrewInv, WarshipsKept, DOMAIN execs' = DOMAIN execs, execs' \in Seq(GoodJob),
           \A i \in DOMAIN execs :
              \/ execs'[i] = execs[i]
              \/ /\ execs[i].kind = "ship"
                 /\ \E x : execs'[i] \in {[execs[i] EXCEPT !.patrol = x],
                                          [execs[i] EXCEPT !.patrol = x, !.goal = None]}
    PROVE  OneCrew' /\ Heirs
<1>1. execs \in Seq(GoodJob) /\ DOMAIN execs = 1 .. Len(execs) /\ Len(execs) \in Nat
  BY LenProperties DEF CrewInv, StepInv, LoopTypeOK
<1>2. 1 .. Len(execs') = 1 .. Len(execs)
  <2>1. DOMAIN execs' = 1 .. Len(execs')
    BY LenProperties
  <2> QED BY <1>1, <2>1
<1>3. ASSUME NEW i \in 1 .. Len(execs)
      PROVE  /\ execs'[i].kind = execs[i].kind
             /\ execs[i].kind = "ship" => execs'[i].unit = execs[i].unit /\ execs'[i].by = execs[i].by
  <2>1. execs[i] \in GoodJob
    BY <1>1, ElementOfSeq
  <2>2. CASE execs'[i] = execs[i]
    BY <2>2
  <2>3. CASE execs'[i] # execs[i]
    <3>1. execs[i].kind = "ship"
      BY <1>1, <2>3
    <3>2. PICK x : execs'[i] \in {[execs[i] EXCEPT !.patrol = x],
                                  [execs[i] EXCEPT !.patrol = x, !.goal = None]}
      BY <1>1, <2>3
    <3>3. /\ [execs[i] EXCEPT !.patrol = x].kind = "ship"
          /\ [execs[i] EXCEPT !.patrol = x, !.goal = None].kind = "ship"
          /\ [execs[i] EXCEPT !.patrol = x].unit = execs[i].unit
          /\ [execs[i] EXCEPT !.patrol = x, !.goal = None].unit = execs[i].unit
          /\ [execs[i] EXCEPT !.patrol = x].by = execs[i].by
          /\ [execs[i] EXCEPT !.patrol = x, !.goal = None].by = execs[i].by
      BY <2>1, <3>1, StillMine
    <3> QED BY <3>1, <3>2, <3>3
  <2> QED BY <2>2, <2>3
<1>4. OneCrew' /\ JobsKept
  BY <1>2, <1>3, SameCrews DEF CrewInv
<1> QED BY <1>4, NoneDrift
LEMMA InitMoveCrews == CrewInv /\ StepInv' /\ InitMove => OneCrew' /\ Heirs
<1> SUFFICES ASSUME CrewInv, StepInv', InitMove PROVE OneCrew' /\ Heirs
  OBVIOUS
<1>1. WarshipsKept /\ execs' \in Seq(GoodJob)
  BY SameShips DEF InitMove, StepInv, LoopTypeOK
<1>2. /\ DOMAIN execs' = DOMAIN execs
      /\ \A i \in DOMAIN execs :
            \/ execs'[i] = execs[i]
            \/ /\ execs[i].kind = "ship"
               /\ execs'[i] = [execs[i] EXCEPT !.patrol = New1.at, !.goal = None]
  BY DEF InitMove
<1> QED BY <1>1, <1>2, RedirectedCrews
LEMMA SteerCrews ==
    ASSUME CrewInv, StepInv', NEW x \in todo.steers, Steer(x)
    PROVE  OneCrew' /\ Heirs
<1>1. WarshipsKept /\ execs' \in Seq(GoodJob)
  BY SameShips DEF Steer, StepInv, LoopTypeOK
<1>2. /\ DOMAIN execs' = DOMAIN execs
      /\ \A i \in DOMAIN execs :
            \/ execs'[i] = execs[i]
            \/ execs[i].kind = "ship" /\ execs'[i] = [execs[i] EXCEPT !.patrol = x[2]]
  BY DEF Steer
<1> QED BY <1>1, <1>2, RedirectedCrews

\* A ship that changes hands is one of a player who is offline, and goes to his team.
LEMMA SubdueCrews ==
    ASSUME CrewInv, NEW x \in todo.falls, Subdue(x)
    PROVE  OneCrew' /\ Heirs
<1>1. OneCrew' /\ JobsKept
  BY IdleCrews DEF Subdue, Happens, CrewInv
<1>2. CASE HandedOver(x[1], x[2])
  <2> SUFFICES ASSUME NEW u \in Adrift', u \notin Adrift
               PROVE  unit[u].holder \in offline /\ SameTeam(unit[u].holder, unit'[u].holder)
    BY <1>1 DEF Heirs
  <2>1. /\ u \in UnitIds /\ unit'[u].type = "Warship"
        /\ ~\E k \in ShipJobs' : execs'[k].unit = u /\ execs'[k].by = unit'[u].holder
    BY DEF Adrift, OfType, Steered
  <2>2. unit[u] \in UnitType
    BY <2>1 DEF CrewInv, StepInv, UnitsOK, SoundUnit
  <2>3. unit'[u] = IF unit[u].holder = x[2] /\ unit[u].type \in {"Warship", "Transport"}
                   THEN [unit[u] EXCEPT !.holder = x[1]] ELSE unit[u]
    BY <1>2, <2>1 DEF Subdue
  <2>4. unit[u].type = "Warship"
    BY <2>1, <2>2, <2>3 DEF UnitType
  <2>5. PICK i \in ShipJobs : execs[i].unit = u /\ execs[i].by = unit[u].holder
    BY <2>1, <2>4 DEF Adrift, OfType, Steered
  <2>6. unit'[u].holder # unit[u].holder
    BY <1>1, <2>1, <2>5 DEF JobsKept
  <2>7. unit[u].holder = x[2] /\ unit'[u].holder = x[1]
    BY <2>2, <2>3, <2>6 DEF UnitType
  <2> QED BY <1>2, <2>7 DEF HandedOver, SameTeam
<1>3. CASE ~HandedOver(x[1], x[2])
  BY <1>1, <1>3, SameShips, NoneDrift DEF Subdue
<1> QED BY <1>2, <1>3

LEMMA OutsideCrews == CrewInv /\ StepInv' /\ Outside => OneCrew' /\ Heirs
<1> SUFFICES ASSUME CrewInv, StepInv', Outside PROVE OneCrew' /\ Heirs
  OBVIOUS
<1>0. UnitsOK
  BY DEF CrewInv, StepInv
<1>1. ASSUME NEW x \in todo.orders, Order(x) PROVE OneCrew' /\ Heirs
  BY <1>1, SameShips, IdleHeirs DEF Order
<1>2. ASSUME NEW x \in todo.landings, Conquer(x) PROVE OneCrew' /\ Heirs
  BY <1>2, SameShips, IdleHeirs DEF Conquer
<1>3. ASSUME NEW x \in todo.bombs, Bomb(x) PROVE OneCrew' /\ Heirs
  BY <1>3, WithoutShips, IdleHeirs DEF Bomb
<1>4. ASSUME NEW x \in todo.boats, Embark(x) PROVE OneCrew' /\ Heirs
  <2>1. New("Transport", x[1], x[2]).type # "Warship"
    BY DEF New
  <2>2. unit' = [unit EXCEPT ![Fresh] = New("Transport", x[1], x[2])] /\ UNCHANGED execs
    BY <1>4 DEF Embark
  <2>3. WarshipsKept
    BY <1>0, <2>1, <2>2, BuiltShips
  <2> QED BY <2>2, <2>3, IdleHeirs
<1>5. ASSUME NEW u, Arrive(u) PROVE OneCrew' /\ Heirs
  BY <1>5, WithoutShips, IdleHeirs DEF Arrive
<1>6. ASSUME NEW x \in todo.pairs, Realign(x) PROVE OneCrew' /\ Heirs
  BY <1>6, SameShips, IdleHeirs DEF Realign
<1>7. ASSUME NEW x \in todo.bans, Ban(x) PROVE OneCrew' /\ Heirs
  BY <1>7, SameShips, IdleHeirs DEF Ban
<1> QED BY <1>1, <1>2, <1>3, <1>4, <1>5, <1>6, <1>7, SteerCrews, SubdueCrews DEF Outside

LEMMA CrewsNext == CrewInv /\ [DoomNext]_doomVars => CrewInv' /\ Heirs
<1> SUFFICES ASSUME CrewInv, [DoomNext]_doomVars PROVE CrewInv' /\ Heirs
  OBVIOUS
<1>1. StepInv'
  BY NextKeeps DEF CrewInv
<1>2. OneCrew' /\ Heirs
  <2>1. CASE Engine
    BY <1>1, <2>1, LoopCrews, EndTickCrews, PlayerTurnCrews, PortTurnCrews, TradeFailsCrews,
       TradeTurnCrews, ShipTurnCrews, ShellTurnCrews, YardTurnCrews, InitPlainCrews,
       InitShipCrews, InitMoveCrews DEF Engine
  <2>2. CASE ClockTurn
    BY <2>2, ClockTurnCrews
  <2>3. CASE Outside
    BY <1>1, <2>3, OutsideCrews
  <2>4. CASE UNCHANGED doomVars
    BY <2>4, SameShips, IdleHeirs DEF doomVars, vars, loopVars
  <2> QED BY <2>1, <2>2, <2>3, <2>4 DEF DoomNext, DoomEngine
<1> QED BY <1>1, <1>2 DEF CrewInv

\* At the start the i-th unit has the i-th of the executions that follow the players'.
LEMMA InitCrews == DoomInit => CrewInv
<1> SUFFICES ASSUME DoomInit PROVE CrewInv
  OBVIOUS
<1>1. StepInv
  BY InitHolds
<1>2. PICK s \in Scenarios :
        execs = s.first \o [p \in Players |-> PlayerJob(p)] \o Start(s.units, s.patrols)
  BY DEF DoomInit, Init, LoopInit
<1> DEFINE players == [p \in Players |-> PlayerJob(p)]
           a == s.first \o players
           b == Start(s.units, s.patrols)
           Others == {j \in GoodJob : j.kind # "ship"}
<1>3. a \in Seq(Others)
  <2>1. s.first \in Seq(Others)
    <3>1. ASSUME NEW j \in [kind : {"clock"}, ticks : Nat] PROVE j \in Others
      BY OthersAreGood
    <3>2. [kind : {"clock"}, ticks : Nat] \subseteq Others
      BY <3>1
    <3>3. s.first \in Seq([kind : {"clock"}, ticks : Nat])
      BY FleetAssumption DEF ScenarioType
    <3> HIDE DEF Others
    <3> QED BY <3>2, <3>3, SeqMonotonic
  <2>2. players \in Seq(Others)
    <3>1. ASSUME NEW p \in Players PROVE PlayerJob(p) \in Others
      <4>1. PlayerJob(p) \in [kind : {"player"}, by : Players]
        BY DEF PlayerJob
      <4> QED BY <4>1, OthersAreGood
    <3>2. PICK n \in Nat : Players = 1 .. n
      BY Ranges
    <3> HIDE DEF Others
    <3>3. players \in [1 .. n -> Others]
      BY <3>1, <3>2
    <3> QED BY <3>2, <3>3, IsASeq
  <2> HIDE DEF players, Others
  <2> QED BY <2>1, <2>2, ConcatProperties
<1>4. b \in Seq(GoodJob)
  BY StartIsGood
<1>5. ASSUME NEW i \in 1 .. Len(b), b[i].kind = "ship" PROVE b[i].unit = i
  <2>1. i \in DOMAIN b
    BY <1>4, LenProperties
  <2>2. b[i] = IF s.units[i].type = "Port" THEN PortJob(s.units[i].holder, i)
                                           ELSE ShipJob(s.units[i].holder, i, s.patrols[i])
    BY <2>1 DEF Start
  <2> QED BY <1>5, <2>2 DEF PortJob, ShipJob
<1>6. \A i \in 1 .. Len(a) : a[i].kind # "ship"
  <2>1. \A i \in 1 .. Len(a) : a[i] \in Others
    <3> HIDE DEF a, Others
    <3> QED BY <1>3, ElementOfSeq
  <2> QED BY <2>1
<1>7. execs = a \o b
  BY <1>2
<1> HIDE DEF a, b, players
<1>8. a \in Seq(GoodJob)
  <2>1. Others \subseteq GoodJob
    OBVIOUS
  <2> HIDE DEF Others
  <2> QED BY <1>3, <2>1, SeqMonotonic
<1> HIDE DEF Others
<1>9. /\ Len(a) \in Nat /\ Len(b) \in Nat /\ Len(execs) = Len(a) + Len(b)
      /\ \A i \in 1 .. Len(execs) : execs[i] = IF i <= Len(a) THEN a[i] ELSE b[i - Len(a)]
  BY <1>4, <1>7, <1>8, ConcatProperties, LenProperties
<1>10. ASSUME NEW i \in ShipJobs PROVE i \in Int /\ execs[i].unit = i - Len(a)
  <2>1. i \in 1 .. Len(execs) /\ execs[i].kind = "ship"
    BY DEF ShipJobs
  <2>2. ~(i <= Len(a)) /\ i - Len(a) \in 1 .. Len(b)
    BY <1>6, <1>9, <2>1
  <2> QED BY <1>5, <1>9, <2>1, <2>2
<1>11. OneCrew
  BY <1>9, <1>10 DEF OneCrew
<1> QED BY <1>1, <1>11 DEF CrewInv

LEMMA OneIsEnough == CrewInv => \A u \in OfType("Warship") : Cardinality(Steered(u)) <= 1
<1> SUFFICES ASSUME CrewInv, NEW u PROVE Cardinality(Steered(u)) <= 1
  OBVIOUS
<1>1. CASE Steered(u) = {}
  BY <1>1, FS_EmptySet
<1>2. ASSUME NEW i \in Steered(u) PROVE Cardinality(Steered(u)) <= 1
  <2>1. Steered(u) = {i}
    BY <1>2 DEF CrewInv, OneCrew, Steered
  <2>2. Cardinality({i}) = 1
    BY FS_Singleton
  <2> QED BY <2>1, <2>2
<1> QED BY <1>1, <1>2

\* A warship has one execution of its holder, through capture, orders, death and the reuse
\* of ids, and is left without one only in the hands of a teammate who inherits it from
\* a player that is offline (conquer_player in game.rs).
THEOREM OnlyHeirsDriftHolds == Spec => OnlyHeirsDrift
<1> DEFINE Drift == /\ \A u \in OfType("Warship") : Cardinality(Steered(u)) <= 1
                    /\ \A u \in Adrift' \ Adrift : /\ unit[u].holder \in offline
                                                   /\ SameTeam(unit[u].holder, unit'[u].holder)
<1>1. CrewInv /\ [DoomNext]_doomVars => [Drift]_vars
  BY OneIsEnough, CrewsNext DEF Heirs
<1>2. Spec => []CrewInv
  BY InitCrews, CrewsNext, PTL DEF Spec
<1>3. OnlyHeirsDrift <=> [][Drift]_vars
  BY DEF OnlyHeirsDrift
<1> HIDE DEF Drift
<1> QED BY <1>1, <1>2, <1>3, PTL DEF Spec

-----------------------------------------------------------------------------
(* Berths.  A warship's turn leaves it docked only where it was, or at a port of its   *)
(* player that has room for it.                                                        *)

(* The search of the units' grid. *)

LEMMA Division ==
    ASSUME NEW x \in Nat
    PROVE  /\ x \div Cell \in Int /\ x % Cell \in Nat /\ x % Cell < Cell
           /\ x = (x \div Cell) * Cell + (x % Cell)
<1>1. Cell \in Nat /\ DockRange \in Nat /\ DockRange < Cell
  BY FleetAssumption
<1> QED BY <1>1
\* Quotients of small numbers.
LEMMA SmallQuotient ==
    ASSUME NEW a \in Int, -Cell <= a, a < Cell
    PROVE  a \div Cell = IF a < 0 THEN -1 ELSE 0
<1>1. Cell \in Nat /\ DockRange \in Nat /\ DockRange < Cell
  BY FleetAssumption
<1> QED BY <1>1
LEMMA Quotients ==
    ASSUME NEW q \in Int, NEW r \in Int
    PROVE  /\ q < r => q * Cell + Cell <= r * Cell
           /\ q + 1 < r => q * Cell + 2 * Cell <= r * Cell
           /\ q * Cell \in Int
<1>1. Cell \in Nat /\ DockRange \in Nat /\ DockRange < Cell
  BY FleetAssumption
<1> QED BY <1>1
\* A ship in the range of a port is found, unless it is beyond the border.
LEMMA FoundUnlessBeyond ==
    ASSUME NEW x \in Nat, NEW y \in Nat, Dist(x, y) <= DockRange, ~Beyond(x, y)
    PROVE  GridIncludes(x, y)
<1> DEFINE q == x \div Cell
           r == y \div Cell
           m == x % Cell
           k == y % Cell
<1>1. /\ q \in Int /\ r \in Int /\ m \in Nat /\ k \in Nat /\ m < Cell /\ k < Cell
      /\ x = q * Cell + m /\ y = r * Cell + k
  BY Division
<1>2. DockRange \in Nat /\ Cell \in Nat /\ DockRange < Cell
  BY FleetAssumption
<1>3. ~(y = x + DockRange /\ k = 0) /\ y <= x + DockRange /\ x <= y + DockRange
  BY <1>2 DEF Beyond, Dist
<1>4. CellBelow(x) = q - (IF m < DockRange THEN 1 ELSE 0)
  <2>1. -(DockRange - m) \in Int /\ -Cell <= -(DockRange - m) /\ -(DockRange - m) < Cell
        /\ (-(DockRange - m) < 0 <=> m < DockRange)
    BY <1>1, <1>2
  <2>2. (-(DockRange - m)) \div Cell = IF m < DockRange THEN -1 ELSE 0
    BY <2>1, SmallQuotient
  <2> QED BY <1>1, <2>2 DEF CellBelow, CeilDiv
<1>5. ~(m = 0 /\ DockRange = 0)
      => CellAbove(x) = q + (IF m + DockRange > Cell THEN 1 ELSE 0)
  <2> SUFFICES ASSUME ~(m = 0 /\ DockRange = 0)
               PROVE  CellAbove(x) = q + (IF m + DockRange > Cell THEN 1 ELSE 0)
    OBVIOUS
  <2> DEFINE a == -(DockRange - (Cell - m))
  <2>1. a \in Int /\ -Cell <= a /\ a < Cell /\ (a < 0 <=> m + DockRange > Cell)
    BY <1>1, <1>2
  <2>2. a \div Cell = IF m + DockRange > Cell THEN -1 ELSE 0
    <3> HIDE DEF a
    <3> QED BY <2>1, SmallQuotient
  <2> QED BY <1>1, <2>2 DEF CellAbove, CeilDiv
<1>6. /\ q < r => q * Cell + Cell <= r * Cell
      /\ r < q => r * Cell + Cell <= q * Cell
      /\ q + 1 < r => q * Cell + 2 * Cell <= r * Cell
      /\ r + 1 < q => r * Cell + 2 * Cell <= q * Cell
      /\ q * Cell \in Int /\ r * Cell \in Int
  BY <1>1, Quotients
<1> HIDE DEF q, r, m, k
<1>7. q < r => m + DockRange > Cell /\ r = q + 1
  BY <1>1, <1>2, <1>3, <1>6
<1>8. r < q => m < DockRange /\ r = q - 1
  BY <1>1, <1>2, <1>3, <1>6
<1>9. q = r => ~(m = 0 /\ DockRange = 0)
  BY <1>1, <1>2, <1>3, <1>6
<1>10. r < q /\ m = 0 => DockRange # 0
  BY <1>8, <1>2
<1>11. ~(m = 0 /\ DockRange = 0)
  BY <1>1, <1>2, <1>7, <1>9, <1>10
<1> QED BY <1>1, <1>4, <1>5, <1>7, <1>8, <1>11 DEF GridIncludes, r

\* Where a ship lies in the range of its port.
By(x, y) == Dist(y, x) <= DockRange
Room(p, x) == x \in PortsAt(p) /\ Cardinality(Neighbours(p, x)) < LevelAt(p, x)
\* Where the turn of s may end.
Lies(q, s) == q.job.docked => /\ q.job.goal = None /\ By(q.job.port, q.at)
                              /\ \/ s.job.docked /\ q.job.port = s.job.port /\ q.at = s.at
                                 \/ Room(s.job.by, q.job.port)
Afloat == {s \in GoodTurn : ~s.job.docked}
\* A turn that goes on is one of a ship that is afloat.
Lying(s) == {q \in GoodTurn : Lies(q, s) /\ q.job.by = s.job.by /\ (q.on => ~q.job.docked)}

LEMMA NeighboursAreFinite ==
    ASSUME execs \in Seq(JobType), NEW p, NEW x
    PROVE  IsFiniteSet(Neighbours(p, x)) /\ Cardinality(Neighbours(p, x)) \in Nat
<1>1. Len(execs) \in Nat
  BY LenProperties
<1>2. Neighbours(p, x) \subseteq 1 .. Len(execs) /\ IsFiniteSet(1 .. Len(execs))
  BY <1>1, FS_Interval DEF Neighbours
<1> QED BY <1>2, FS_Subset, FS_CardinalityType
\* The level of the one port at a place.
LEMMA LevelsAreNat ==
    ASSUME UnitsOK, NEW p, NEW x \in PortsAt(p)
    PROVE  LevelAt(p, x) \in Nat
<1>1. PICK u \in Ports(p) : unit[u].at = x
  BY DEF PortsAt
<1> DEFINE v == CHOOSE w \in Ports(p) : unit[w].at = x
<1>2. v \in UnitIds
  BY <1>1 DEF Ports, HeldBy
<1> QED BY <1>2 DEF LevelAt, UnitsOK, SoundUnit, UnitType
LEMMA RoomOfOthers ==
    ASSUME execs \in Seq(JobType), UnitsOK, NEW s, NEW x \in PortsAt(s.job.by), ~FullOfOthers(s, x)
    PROVE  Room(s.job.by, x)
  BY NeighboursAreFinite, LevelsAreNat DEF FullOfOthers, Room

LEMMA AshoreIsAfloat ==
    ASSUME NEW s \in GoodTurn
    PROVE  /\ Ashore(s) \in Afloat /\ Ashore(s).job.by = s.job.by
           /\ GivesUp(s) \in Afloat /\ GivesUp(s).job.by = s.job.by
<1>1. Ashore(s) \in Afloat /\ Ashore(s).job.by = s.job.by
  BY AshoreGood DEF Afloat, Ashore, GoodTurn, TurnType, ShipType
<1>2. GivesUp(s) \in GoodTurn
  BY GivesUpGood
<1> QED BY <1>1, <1>2 DEF GivesUp, Afloat, GoodTurn, TurnType, ShipType
LEMMA AfloatLies ==
    ASSUME NEW s \in GoodTurn, NEW q \in Afloat, q.job.by = s.job.by
    PROVE  q \in Lying(s)
  BY DEF Afloat, Lying, Lies

\* The ship wakes up: it lies where it lay, or is afloat.
LEMMA RisenLie ==
    ASSUME NEW s \in GoodTurn, s.job.docked => s.job.goal = None /\ By(s.job.port, s.at),
           NEW h \in Healed(s), UnitsOK, execs \in Seq(JobType)
    PROVE  Undocked(Ordered(h)) \in Lying(s)
<1> DEFINE o == Ordered(h)
<1>1. h \in GoodTurn /\ h.job = s.job /\ h.at = s.at
  BY HealedGood DEF Healed, Repaired, GoodTurn, TurnType
<1>2. o \in GoodTurn /\ o.job.by = s.job.by /\ (o \in Afloat \/ o = h)
  <2>1. CASE h.job.patrol = h.job.seen
    BY <1>1, <2>1 DEF Ordered
  <2>2. CASE h.job.patrol # h.job.seen
    <3>1. o = [Ashore(h) EXCEPT !.job.seen = h.job.patrol, !.job.grace = 0]
      BY <2>2 DEF Ordered
    <3>2. Ashore(h) \in Afloat /\ Ashore(h).job.by = s.job.by
      BY <1>1, AshoreIsAfloat
    <3>3. o \in GoodTurn
      BY <1>1, OrderedGood
    <3> HIDE DEF o
    <3>5. o.job.by = Ashore(h).job.by /\ o.job.docked = Ashore(h).job.docked
      <4>1. Ashore(h) \in GoodTurn
        BY <3>2 DEF Afloat
      <4>2. PICK a \in GoodTurn : a = Ashore(h)
        BY <4>1
      <4>3. o = [a EXCEPT !.job.seen = h.job.patrol, !.job.grace = 0]
        BY <3>1, <4>2
      <4>4. o.job.by = a.job.by /\ o.job.docked = a.job.docked
        BY <4>3 DEF GoodTurn, TurnType, ShipType
      <4> QED BY <4>2, <4>4
    <3> QED BY <3>2, <3>3, <3>5 DEF Afloat
  <2> QED BY <2>1, <2>2
<1> HIDE DEF o
<1>3. CASE ~o.job.docked
  BY <1>2, <1>3, AfloatLies DEF Undocked, Afloat, o
<1>4. CASE o.job.docked
  <2>1. o = h
    BY <1>2, <1>4 DEF Afloat
  <2>2. Ashore(o) \in Lying(s)
    BY <1>2, AshoreIsAfloat, AfloatLies
  <2>3. [o EXCEPT !.on = FALSE] \in Lying(s)
    <3> DEFINE q == [o EXCEPT !.on = FALSE]
    <3>1. q \in GoodTurn
      BY <1>2, StopGood
    <3>2. q.job = s.job /\ q.at = s.at /\ q.on = FALSE
      BY <1>1, <2>1 DEF GoodTurn, TurnType
    <3> HIDE DEF q
    <3>3. q \in Lying(s)
      BY <3>1, <3>2 DEF Lying, Lies
    <3> QED BY <3>3 DEF q
  <2> QED BY <1>4, <2>2, <2>3 DEF Undocked, o
<1> QED BY <1>3, <1>4

\* On the way to a port: the choice of the port, ...
LEMMA RefreshedIsMine ==
    ASSUME NEW s \in Fleeing, ~s.job.docked, NEW r \in Refreshed(s)
    PROVE  /\ r.job.docked = FALSE /\ r.job.by = s.job.by
           /\ r.job.port = None \/ r.job.port \in PortsAt(s.job.by)
<1> DEFINE mine == PortsAt(s.job.by)
           to(S) == {[s EXCEPT !.job.port = x] : x \in Nearest(S, s.at)}
           open == {x \in mine : ~Full(s, x)}
           other == {x \in mine : ~FullOfOthers(s, x)}
           here == s.job.port
           Fits(q) == /\ q.job.docked = FALSE /\ q.job.by = s.job.by
                      /\ q.job.port = None \/ q.job.port \in mine
<1>0. s.job.docked = FALSE
  BY DEF Fleeing, GoodTurn, TurnType, ShipType
<1>1. ASSUME NEW x, x = None \/ x \in mine
      PROVE  Fits([s EXCEPT !.job.port = x]) /\ Fits([[s EXCEPT !.job.port = x] EXCEPT !.job.goal = None])
  BY <1>0, <1>1 DEF Fleeing, GoodTurn, TurnType, ShipType
<1>2. ASSUME NEW S, S \subseteq mine, NEW q \in to(S)
      PROVE  Fits(q) /\ Fits([q EXCEPT !.job.goal = None])
  <2>1. PICK x \in mine : q = [s EXCEPT !.job.port = x]
    BY <1>2, NearestIn
  <2> HIDE DEF Fits, mine
  <2> QED BY <1>1, <2>1
<1>3. here \in mine => Fits(s)
  BY <1>0
<1>4. r \in IF here \notin mine
            THEN IF other = {} THEN {[s EXCEPT !.job.port = None]}
                 ELSE {[q EXCEPT !.job.goal = None] : q \in to(other)}
            ELSE IF open = {} THEN {s}
            ELSE IF here \notin open THEN to(open)
            ELSE {IF 4 * Dist(s.at, q.job.port) * Dist(s.at, q.job.port)
                     < 3 * Dist(s.at, here) * Dist(s.at, here) THEN q ELSE s : q \in to(open)}
  BY DEF Refreshed
<1>5. other \subseteq mine /\ open \subseteq mine
  OBVIOUS
<1>6. Fits(r)
  <2> HIDE DEF mine, to, open, other, here, Fits
  <2> QED BY <1>1, <1>2, <1>3, <1>4, <1>5
<1> QED BY <1>6

\* ... a shell on the way, ...
LEMMA FiresAtBest ==
    ASSUME NEW s \in GoodTurn, NEW f \in Fires(s)
    PROVE  /\ f.job.docked = s.job.docked /\ f.job.by = s.job.by /\ f.job.port = s.job.port
           /\ f.at = s.at
<1> DEFINE Same(q) == /\ q.job.docked = s.job.docked /\ q.job.by = s.job.by
                      /\ q.job.port = s.job.port /\ q.at = s.at
<1>1. ASSUME NEW u PROVE Same(Shot(s, u))
  BY DEF Shot, GoodTurn, TurnType, ShipType
<1>2. Same(s)
  OBVIOUS
<1> HIDE DEF Same
<1>3. Same(f)
  BY <1>1, <1>2 DEF Fires
<1> QED BY <1>3 DEF Same
\* ... and the port, where it docks if there is room.
LEMMA WithdrawsLies ==
    ASSUME NEW s \in Heading, ~s.job.docked, s.job.port \in PortsAt(s.job.by),
           UnitsOK, execs \in Seq(JobType), NEW t \in GoodTurn, t.job.by = s.job.by
    PROVE  Withdraws(s) \in Lying(t)
<1>0. s \in GoodTurn /\ Withdraws(s) \in GoodTurn
  BY WithdrawsGood DEF Heading, Fleeing
<1>1. CASE Dist(s.at, s.job.port) > DockRange
  <2>1. Withdraws(s) = [s EXCEPT !.job.goal = s.job.port, !.at = Toward(@, s.job.port), !.on = FALSE]
    BY <1>1 DEF Withdraws
  <2>2. Withdraws(s).job.docked = s.job.docked /\ Withdraws(s).job.by = s.job.by
    BY <1>0, <2>1 DEF GoodTurn, TurnType, ShipType
  <2> QED BY <1>0, <2>2, AfloatLies DEF Afloat
<1>2. CASE ~(Dist(s.at, s.job.port) > DockRange) /\ ~FullOfOthers(s, s.job.port)
  <2> DEFINE q == [s EXCEPT !.job.docked = TRUE, !.job.retreating = FALSE, !.job.goal = None, !.on = FALSE]
  <2>1. Withdraws(s) = q
    BY <1>2 DEF Withdraws
  <2>2. /\ q.job.goal = None /\ q.at = s.at /\ q.job.port = s.job.port /\ q.on = FALSE
        /\ q.job.by = s.job.by
    BY <1>0 DEF GoodTurn, TurnType, ShipType
  <2> HIDE DEF q
  <2>3. Room(s.job.by, s.job.port)
    BY <1>2, RoomOfOthers
  <2>4. By(s.job.port, s.at)
    <3>1. s.job.port \in Nat /\ s.at \in Nat
      <4>1. s.job.port \in Places
        BY DEF Heading
      <4>2. s.at \in Places
        BY <1>0 DEF GoodTurn, TurnType
      <4> QED BY <4>1, <4>2, Ranges
    <3>2. DockRange \in Nat
      BY FleetAssumption
    <3>3. Dist(s.at, s.job.port) \in Nat
      BY <3>1 DEF Dist
    <3> QED BY <1>2, <3>2, <3>3 DEF By
  <2> QED BY <1>0, <2>1, <2>2, <2>3, <2>4 DEF Lying, Lies
<1>3. CASE ~(Dist(s.at, s.job.port) > DockRange) /\ FullOfOthers(s, s.job.port)
  <2>1. GivesUp(s) \in Lying(t)
    BY <1>0, AshoreIsAfloat, AfloatLies
  <2>2. [s EXCEPT !.on = FALSE] \in Lying(t)
    <3>1. [s EXCEPT !.on = FALSE] \in GoodTurn
      BY <1>0, StopGood
    <3>2. [s EXCEPT !.on = FALSE].job = s.job
      BY <1>0 DEF GoodTurn, TurnType
    <3> QED BY <3>1, <3>2, AfloatLies DEF Afloat
  <2> QED BY <1>3, <2>1, <2>2 DEF Withdraws
<1> QED BY <1>1, <1>2, <1>3
LEMMA RetreatsLie ==
    ASSUME NEW s \in Fleeing, ~s.job.docked, NEW q \in Retreats(s), UnitsOK, execs \in Seq(JobType),
           NEW t \in GoodTurn, t.job.by = s.job.by
    PROVE  q \in Lying(t)
<1>1. PICK r \in Refreshed(s) : q \in IF r.job.port = None THEN {GivesUp(r)}
                                     ELSE {Withdraws(f) : f \in Fires(r)}
  BY DEF Retreats
<1>2. r \in Fleeing /\ r \in GoodTurn
  BY RefreshedGood DEF Fleeing
<1>3. /\ r.job.docked = FALSE /\ r.job.by = s.job.by
      /\ r.job.port = None \/ r.job.port \in PortsAt(s.job.by)
  BY RefreshedIsMine
<1>4. CASE r.job.port = None
  BY <1>1, <1>2, <1>3, <1>4, AshoreIsAfloat, AfloatLies
<1>5. CASE r.job.port # None
  <2>1. r \in Heading
    BY <1>2, <1>5 DEF Heading, Fleeing, GoodTurn, TurnType, ShipType
  <2>2. PICK f \in Fires(r) : q = Withdraws(f)
    BY <1>1, <1>5
  <2>3. f \in Heading
    BY <2>1, FiresGood
  <2>4. ~f.job.docked /\ f.job.by = s.job.by /\ f.job.port \in PortsAt(f.job.by)
    BY <1>2, <1>3, <1>5, FiresAtBest
  <2> QED BY <2>2, <2>3, <2>4, WithdrawsLies
<1> QED BY <1>4, <1>5

\* At sea nobody docks.
LEMMA CruisesLie ==
    ASSUME NEW s \in Afloat, NEW q \in Cruises(s)
    PROVE  q \in Afloat /\ q.job.by = s.job.by
<1>0. s \in GoodTurn /\ s.job.docked = FALSE /\ q \in GoodTurn
  BY CruisesGood DEF Afloat, GoodTurn, TurnType, ShipType
<1>1. ASSUME NEW x, NEW g
      PROVE  /\ [s EXCEPT !.job.goal = g, !.at = Toward(@, x)].job.docked = s.job.docked
             /\ [s EXCEPT !.job.goal = g].job.docked = s.job.docked
             /\ [s EXCEPT !.at = Toward(@, x)].job.docked = s.job.docked
  BY <1>0 DEF GoodTurn, TurnType, ShipType
<1>2. q.job.docked = s.job.docked
  <2>1. CASE s.job.goal = None
    <3>1. PICK x : q = [s EXCEPT !.job.goal = IF x = s.at THEN None ELSE x, !.at = Toward(@, x)]
      BY <2>1 DEF Cruises
    <3> QED BY <1>1, <3>1
  <2>2. CASE s.job.goal # None /\ s.job.goal = s.at
    BY <1>1, <2>2 DEF Cruises
  <2>3. CASE s.job.goal # None /\ s.job.goal # s.at
    BY <1>1, <2>3 DEF Cruises
  <2> QED BY <2>1, <2>2, <2>3
<1> QED BY <1>0, <1>2, CrewCruises DEF Afloat, SameCrew
LEMMA ActsLie ==
    ASSUME NEW s \in Afloat, NEW q \in Acts(s), UnitsOK
    PROVE  q \in Afloat /\ q.job.by = s.job.by
<1>0. s \in GoodTurn /\ q \in GoodTurn
  BY ActsGood DEF Afloat
<1>1. CASE Best(s, Ships) = {}
  BY <1>1, CruisesLie DEF Acts
<1>2. CASE Best(s, Ships) # {}
  <2>1. PICK u \in Best(s, Ships) : q \in IF unit[u].type = "Trade" THEN {Chase(Chase(s, u), u)}
                                         ELSE Cruises(Shot(s, u))
    BY <1>2 DEF Acts
  <2>2. u \in UnitIds /\ Exists(u)
    BY <2>1, BestExist
  <2>3. CASE unit[u].type = "Trade"
    <3>1. ASSUME NEW r \in GoodTurn PROVE Chase(r, u).job = r.job
      BY DEF Chase, GoodTurn, TurnType
    <3>2. Chase(s, u) \in GoodTurn
      BY <1>0, <2>2, ChaseGood
    <3>3. q.job = s.job
      BY <1>0, <2>1, <2>3, <3>1, <3>2
    <3> QED BY <1>0, <3>3 DEF Afloat
  <2>4. CASE unit[u].type # "Trade"
    <3>1. Shot(s, u) \in GoodTurn
      BY <1>0, <2>2, ShotGood
    <3>2. Shot(s, u).job.docked = s.job.docked /\ Shot(s, u).job.by = s.job.by
      BY <1>0 DEF Shot, GoodTurn, TurnType, ShipType
    <3>3. Shot(s, u) \in Afloat
      BY <3>1, <3>2 DEF Afloat
    <3> QED BY <2>1, <2>4, <3>2, <3>3, CruisesLie
  <2> QED BY <2>3, <2>4
<1> QED BY <1>1, <1>2

LEMMA SortiesLie ==
    ASSUME NEW s \in GoodTurn, s.job.docked => s.job.goal = None /\ By(s.job.port, s.at),
           NEW q \in Sorties(s), UnitsOK, execs \in Seq(JobType)
    PROVE  Lies(q, s)
<1> DEFINE risen == {Undocked(Ordered(h)) : h \in Healed(s)}
           retired == UNION {IF r.on /\ r.job.retreating THEN Retreats(r) ELSE {r} : r \in risen}
           sobered == UNION {IF r.on /\ Flees(r, s.hp) THEN UNION {Retreats(f) : f \in Fled(r)}
                             ELSE {r} : r \in retired}
<1>1. risen \subseteq Lying(s)
  BY RisenLie
<1>2. ASSUME NEW r \in Lying(s), r.on, r.job.retreating, NEW t \in Retreats(r) PROVE t \in Lying(s)
  <2>1. r \in Fleeing /\ ~r.job.docked /\ r.job.by = s.job.by
    BY <1>2, Numbers DEF Lying, Fleeing, GoodTurn, TurnType, ShipType, Orderly
  <2> QED BY <1>2, <2>1, RetreatsLie
<1>3. ASSUME NEW r \in Lying(s), r.on, Flees(r, s.hp), NEW f \in Fled(r), NEW t \in Retreats(f)
      PROVE  t \in Lying(s)
  <2>1. r \in GoodTurn /\ ~r.job.docked /\ r.job.by = s.job.by
    BY <1>3 DEF Lying
  <2>2. f \in Fleeing
    BY <1>3, <2>1, FledGood
  <2>3. f.job.docked = r.job.docked /\ f.job.by = r.job.by
    <3>1. ASSUME NEW x
          PROVE  /\ [r EXCEPT !.job.retreating = TRUE, !.job.port = x].job.docked = r.job.docked
                 /\ [r EXCEPT !.job.retreating = TRUE, !.job.port = x].job.by = r.job.by
      BY <2>1 DEF GoodTurn, TurnType, ShipType
    <3>2. PICK x : f = [r EXCEPT !.job.retreating = TRUE, !.job.port = x]
      BY <1>3 DEF Fled
    <3> QED BY <3>1, <3>2
  <2> QED BY <1>3, <2>1, <2>2, <2>3, RetreatsLie
<1> HIDE DEF risen
<1>4. retired \subseteq Lying(s)
  BY <1>1, <1>2
<1> HIDE DEF retired
<1>5. sobered \subseteq Lying(s)
  BY <1>3, <1>4
<1> HIDE DEF sobered
<1>6. PICK r \in sobered : q \in IF r.on THEN Acts(r) ELSE {r}
  BY DEF Sorties, sobered, retired, risen
<1>7. r \in Lying(s)
  BY <1>5
<1>8. CASE ~r.on
  BY <1>6, <1>7, <1>8 DEF Lying
<1>9. CASE r.on
  <2>1. r \in Afloat
    BY <1>7, <1>9 DEF Lying, Afloat
  <2> QED BY <1>6, <1>9, <2>1, ActsLie DEF Afloat, Lies
<1> QED BY <1>8, <1>9

\* Ports stand apart.
Apart == \A u, v \in OfType("Port") : unit[u].at = unit[v].at => u = v

\* What is not initialised yet has no ship.
Idle(j) == /\ j.kind = "ship" => j.unit = None /\ ~j.docked
           /\ j.kind = "trade" => j.unit = None
\* A ship leaves its owner's hands only by his defeat; and it is where its execution has
\* docked it.
Commanded(j) ==
    /\ j.unit \in UnitIds /\ unit[j.unit].type \in {"Warship", "none"}
    /\ j.unit \in HeldBy(j.by) \/ ~Exists(j.unit) \/ ~Has(j.by)
    /\ j.docked /\ j.unit \in HeldBy(j.by) => j.goal = None /\ By(j.port, unit[j.unit].at)
Manned(j) ==
    /\ j.kind = "ship" => Commanded(j)
    /\ j.kind = "trade" => j.unit = None \/ unit[j.unit].type \in {"Trade", "none"}
MannedInv == /\ \A j \in Range(execs) : Manned(j)
             /\ \A j \in Range(uninit) : Idle(j)

\* The ships of p that are docked at x, but for the ones beyond the border.
Docks(j, p, x) == j.kind = "ship" /\ j.docked /\ j.by = p /\ j.port = x
Moorings(p, x) == {u \in HeldBy(p) : /\ \E j \in Range(execs) : Docks(j, p, x) /\ j.unit = u
                                    /\ ~Beyond(x, unit[u].at)}
Roomy == \A u \in OfType("Port") : \A p \in Players : Cardinality(Moorings(p, unit[u].at)) <= unit[u].level

BerthInv == CrewInv /\ Apart /\ MannedInv /\ Roomy

\* What all units but S keep: a warship stays where it is, and is handed over only by one
\* who has fallen to one who has not; no port is built.
HasThen(p) == \E x \in Places : land'[x] = p
ShipsSettled(S) ==
    \A u \in UnitIds \ FreeIds :
       /\ unit'[u].type \in {unit[u].type, "none"}
       /\ unit'[u].type = "Warship" /\ u \notin S =>
             /\ unit'[u].at = unit[u].at
             /\ \/ unit'[u].holder = unit[u].holder
                \/ Has(unit'[u].holder) /\ ~HasThen(unit[u].holder)
PortsSettled ==
    \A u \in UnitIds : unit'[u].type = "Port" =>
       unit[u].type = "Port" /\ unit'[u].at = unit[u].at /\ unit'[u].level = unit[u].level
\* Who has fallen does not come back.
HasKept == \A p \in Players : HasThen(p) => Has(p)
Settled(S) == ShipsSettled(S) /\ PortsSettled /\ HasKept

\* k is j, but for its orders and its course.
Like(k, j) == /\ k.kind = j.kind
              /\ k.kind \in {"ship", "trade"} => k.unit = j.unit
              /\ k.kind = "ship" => /\ k.by = j.by /\ k.docked = j.docked /\ k.port = j.port
                                    /\ k.goal \in {j.goal, None}
\* The executions are those there were, or are new and not docked.
HandsKept == /\ \A k \in Range(execs') : \/ \E j \in Range(execs) : Like(k, j)
                                         \/ Manned(k)' /\ (k.kind = "ship" => ~k.docked)
             /\ \A k \in Range(uninit') : k \in Range(uninit) \/ Idle(k)

LEMMA RangesAreGood ==
    ASSUME StepInv
    PROVE  Range(execs) \subseteq GoodJob /\ Range(uninit) \subseteq GoodJob
  BY DEF StepInv, LoopTypeOK, Range
LEMMA NamedAreNotFree ==
    ASSUME NEW j \in Range(execs) \cup Range(uninit), j.kind \in {"ship", "trade"}
    PROVE  j.unit \notin FreeIds
<1>1. j.unit \in Named
  BY DEF Named
<1> QED BY <1>1 DEF FreeIds

\* A ship of its execution's player was his already.
LEMMA StillHeld ==
    ASSUME StepInv, StepInv', NEW S, Settled(S), NEW j \in GoodJob, j.kind = "ship", Commanded(j),
           j.unit \notin FreeIds, j.unit \notin S, unit'[j.unit].holder = j.by
    PROVE  /\ j.unit \in HeldBy(j.by) /\ unit'[j.unit].at = unit[j.unit].at
           /\ unit[j.unit].type = "Warship"
<1> DEFINE u == j.unit
<1>1. j.by \in Players /\ j.by # Neutral
  <2>1. j \in ShipType
    BY KindsOfJobs DEF GoodJob
  <2> QED BY <2>1, Ranges DEF ShipType, Neutral
<1>2. u \in UnitIds \ FreeIds
  BY DEF Commanded
<1>3. unit'[u].type # "none"
  BY <1>1, <1>2 DEF StepInv, UnitsOK, SoundUnit, NoUnit
<1>4. unit[u].type = "Warship" /\ unit'[u].type = "Warship"
  BY <1>2, <1>3 DEF Settled, ShipsSettled, Commanded
<1>5. unit'[u].at = unit[u].at /\ (unit[u].holder = j.by \/ Has(j.by))
  BY <1>2, <1>4 DEF Settled, ShipsSettled
<1>6. Exists(u)
  BY <1>4 DEF Exists
<1> QED BY <1>2, <1>4, <1>5, <1>6 DEF Commanded, HeldBy

LEMMA Remains ==
    ASSUME StepInv, StepInv', NEW S, Settled(S), NEW j \in GoodJob, Manned(j),
           j.kind \in {"ship", "trade"} => j.unit \notin FreeIds,
           j.kind = "ship" => j.unit \notin S, NEW k \in GoodJob, Like(k, j)
    PROVE  Manned(k)'
<1>1. ASSUME j.kind = "ship" PROVE Commanded(k)'
  <2> DEFINE u == j.unit
  <2>1. k.unit = u /\ k.by = j.by /\ k.docked = j.docked /\ k.port = j.port /\ k.goal \in {j.goal, None}
    BY <1>1 DEF Like
  <2>2. Commanded(j) /\ u \in UnitIds \ FreeIds /\ u \notin S
    BY <1>1 DEF Manned, Commanded
  <2>3. j.by \in Players
    BY <1>1, KindsOfJobs DEF GoodJob, ShipType
  <2>4. unit'[u].type \in {"Warship", "none"}
    BY <2>2 DEF Commanded, Settled, ShipsSettled
  <2>5. unit'[u].holder = j.by \/ unit'[u].type = "none" \/ ~HasThen(j.by)
    <3>1. CASE u \in HeldBy(j.by)
      BY <2>2, <2>4, <3>1 DEF HeldBy, Settled, ShipsSettled
    <3>2. CASE ~Exists(u)
      BY <2>2, <3>2 DEF Exists, Settled, ShipsSettled
    <3>3. CASE ~Has(j.by)
      BY <2>3, <3>3 DEF Settled, HasKept
    <3> QED BY <2>2, <3>1, <3>2, <3>3 DEF Commanded
  <2>6. ASSUME j.docked, unit'[u].holder = j.by
        PROVE  k.goal = None /\ By(j.port, unit'[u].at)
    <3>1. u \in HeldBy(j.by) /\ unit'[u].at = unit[u].at
      BY <1>1, <2>2, <2>6, StillHeld
    <3> QED BY <2>1, <2>2, <2>6, <3>1 DEF Commanded
  <2> QED BY <2>1, <2>2, <2>4, <2>5, <2>6 DEF Commanded, HeldBy, Exists, Has, HasThen
<1>2. ASSUME j.kind = "trade", j.unit # None PROVE unit'[j.unit].type \in {"Trade", "none"}
  <2>1. j.unit \in UnitIds \ FreeIds
    BY <1>2, KindsOfJobs DEF GoodJob, TradeType
  <2> QED BY <1>2, <2>1 DEF Manned, Settled, ShipsSettled
<1> QED BY <1>1, <1>2 DEF Manned, Like

LEMMA MooringsAreFinite == ASSUME NEW p, NEW x PROVE IsFiniteSet(Moorings(p, x))
<1>1. Moorings(p, x) \subseteq UnitIds /\ IsFiniteSet(UnitIds)
  BY FleetAssumption DEF Moorings, HeldBy
<1> QED BY <1>1, FS_Subset
LEMMA StillApart ==
    ASSUME Apart, PortsSettled
    PROVE  Apart'
  BY DEF Apart, PortsSettled, OfType
\* Where no more ships lie than did, there is room for them.
MooringsThen(p, x) == {u \in UnitIds : /\ unit'[u].holder = p
                                       /\ \E j \in Range(execs') : Docks(j, p, x) /\ j.unit = u
                                       /\ ~Beyond(x, unit'[u].at)}
LEMMA RoomyThen ==
    ASSUME PortsSettled,
           \A u \in OfType("Port") : \A p \in Players :
              Cardinality(MooringsThen(p, unit[u].at)) <= unit[u].level
    PROVE  Roomy'
<1> SUFFICES ASSUME NEW u \in OfType("Port")', NEW p \in Players
             PROVE  Cardinality({v \in HeldBy(p)' :
                                    /\ \E j \in Range(execs') : Docks(j, p, unit'[u].at) /\ j.unit = v
                                    /\ ~Beyond(unit'[u].at, unit'[v].at)}) <= unit'[u].level
  BY DEF Roomy, Moorings
<1>1. u \in OfType("Port") /\ unit'[u].at = unit[u].at /\ unit'[u].level = unit[u].level
  BY DEF OfType, PortsSettled
<1>2. {v \in HeldBy(p)' : /\ \E j \in Range(execs') : Docks(j, p, unit'[u].at) /\ j.unit = v
                          /\ ~Beyond(unit'[u].at, unit'[v].at)}
        = MooringsThen(p, unit[u].at)
  BY <1>1 DEF MooringsThen, HeldBy
<1> QED BY <1>1, <1>2
LEMMA NoMoreMoored ==
    ASSUME Roomy, UnitsOK, NEW u \in OfType("Port"), NEW p \in Players,
           MooringsThen(p, unit[u].at) \subseteq Moorings(p, unit[u].at)
    PROVE  Cardinality(MooringsThen(p, unit[u].at)) <= unit[u].level
<1> DEFINE m == Cardinality(Moorings(p, unit[u].at))
           n == Cardinality(MooringsThen(p, unit[u].at))
<1>1. n <= m /\ m \in Nat /\ n \in Nat
  BY MooringsAreFinite, FS_Subset, FS_CardinalityType
<1>2. m <= unit[u].level
  BY DEF Roomy
<1>3. unit[u].level \in Nat
  BY DEF UnitsOK, SoundUnit, UnitType, OfType
<1> HIDE DEF m, n
<1>4. n <= unit[u].level
  BY <1>1, <1>2, <1>3
<1> QED BY <1>4 DEF n

\* What a step of anyone but a warship keeps.
LEMMA BerthsKept ==
    ASSUME BerthInv, CrewInv', Settled({}), HandsKept
    PROVE  BerthInv'
<1>0. StepInv /\ StepInv' /\ UnitsOK /\ MannedInv /\ Roomy
  BY DEF BerthInv, CrewInv, StepInv
<1>1. /\ \A j \in Range(execs) \cup Range(uninit) : j \in GoodJob
      /\ \A k \in Range(execs') : k \in GoodJob
  BY <1>0, RangesAreGood DEF StepInv, LoopTypeOK, Range
<1>2. \A k \in Range(execs') : Manned(k)'
  <2> SUFFICES ASSUME NEW k \in Range(execs') PROVE Manned(k)'
    OBVIOUS
  <2>1. CASE \E j \in Range(execs) : Like(k, j)
    <3>1. PICK j \in Range(execs) : Like(k, j)
      BY <2>1
    <3>2. Manned(j) /\ j \in GoodJob /\ k \in GoodJob
      BY <1>0, <1>1 DEF MannedInv
    <3>3. j.kind \in {"ship", "trade"} => j.unit \notin FreeIds
      BY NamedAreNotFree
    <3> QED BY <1>0, <3>1, <3>2, <3>3, Remains
  <2> QED BY <2>1 DEF HandsKept
<1>3. \A k \in Range(uninit') : Idle(k)
  BY <1>0 DEF HandsKept, MannedInv
<1>4. ASSUME NEW p \in Players, NEW x PROVE MooringsThen(p, x) \subseteq Moorings(p, x)
  <2> SUFFICES ASSUME NEW u \in MooringsThen(p, x) PROVE u \in Moorings(p, x)
    OBVIOUS
  <2>1. u \in UnitIds /\ unit'[u].holder = p
    BY DEF MooringsThen
  <2>2. PICK k \in Range(execs') : Docks(k, p, x) /\ k.unit = u
    BY DEF MooringsThen
  <2>3. PICK j \in Range(execs) : Like(k, j)
    BY <2>2 DEF HandsKept, Docks
  <2>4. Docks(j, p, x) /\ j.unit = u /\ j.kind = "ship" /\ j.by = p
    BY <2>2, <2>3 DEF Docks, Like
  <2>5. j \in GoodJob /\ Commanded(j) /\ j.unit \notin FreeIds
    BY <1>0, <1>1, <2>4, NamedAreNotFree DEF MannedInv, Manned
  <2>6. u \in HeldBy(p) /\ unit'[u].at = unit[u].at
    BY <1>0, <2>1, <2>4, <2>5, StillHeld
  <2>7. ~Beyond(x, unit[u].at)
    BY <2>6 DEF MooringsThen
  <2> QED BY <2>4, <2>6, <2>7 DEF Moorings
<1>5. Roomy'
  <2>1. PortsSettled
    BY DEF Settled
  <2> QED BY <1>0, <1>4, <2>1, NoMoreMoored, RoomyThen
<1>6. Apart'
  BY StillApart DEF BerthInv, Settled
<1> QED BY <1>2, <1>3, <1>5, <1>6 DEF BerthInv, MannedInv

-----------------------------------------------------------------------------
(* The lists of executions. *)

LEMMA LikeItself == ASSUME NEW j \in GoodJob PROVE Like(j, j)
  BY DEF Like
LEMMA StayRange ==
    ASSUME StepInv, NEW k, Turn(k), NEW j, Stay(j)
    PROVE  /\ Range(execs') \subseteq Range(execs) \cup {j} /\ Me \in Range(execs)
  BY LenProperties DEF Stay, Range, StepInv, LoopTypeOK, Turn, Me
LEMMA DoneRange ==
    ASSUME StepInv, NEW k, Turn(k), Done
    PROVE  Range(execs') \subseteq Range(execs)
<1>1. execs \in Seq(GoodJob) /\ cursor \in 1 .. Len(execs) /\ Len(execs) \in Nat
  BY LenProperties DEF StepInv, LoopTypeOK, Turn
<1>2. Len(execs') = Len(execs) - 1 /\ \A i \in 1 .. Len(execs') : execs'[i] = execs[IF i < cursor THEN i ELSE i + 1]
  BY <1>1, DoneMoves
<1>3. execs' \in Seq(GoodJob)
  BY <1>1, DoneIn DEF Turn
<1>4. DOMAIN execs' = 1 .. Len(execs') /\ DOMAIN execs = 1 .. Len(execs)
  BY <1>1, <1>3, LenProperties
<1>5. ASSUME NEW i \in 1 .. Len(execs') PROVE (IF i < cursor THEN i ELSE i + 1) \in 1 .. Len(execs)
  BY <1>1, <1>2
<1> QED BY <1>2, <1>4, <1>5 DEF Range
LEMMA AddRange ==
    ASSUME StepInv, NEW S, NEW js \in Seq(S), Add(js), js \in Seq(GoodJob)
    PROVE  Range(uninit') \subseteq Range(uninit) \cup S
<1>1. uninit \in Seq(Range(uninit) \cup S)
  <2>1. uninit \in [1 .. Len(uninit) -> Range(uninit) \cup S] /\ Len(uninit) \in Nat
    BY LenProperties DEF StepInv, LoopTypeOK, Range
  <2> QED BY <2>1, IsASeq
<1>2. js \in Seq(Range(uninit) \cup S)
  BY SeqMonotonic
<1>3. uninit' \in Seq(Range(uninit) \cup S)
  BY <1>1, <1>2, AddIn
<1> QED BY <1>3, LenProperties DEF Range
LEMMA InitRange ==
    ASSUME StepInv, uninit # <<>>
    PROVE  /\ New1 \in Range(uninit) /\ Range(Tail(uninit)) \subseteq Range(uninit)
           /\ \A j \in GoodJob : Range(Append(execs, j)) \subseteq Range(execs) \cup {j}
<1>1. execs \in Seq(GoodJob) /\ uninit \in Seq(GoodJob) /\ Len(uninit) \in Nat /\ Len(execs) \in Nat
  BY LenProperties DEF StepInv, LoopTypeOK
<1>2. New1 \in Range(uninit) /\ Range(Tail(uninit)) \subseteq Range(uninit)
  BY <1>1, HeadTailProperties, LenProperties DEF New1, Range
<1>3. ASSUME NEW j \in GoodJob PROVE Range(Append(execs, j)) \subseteq Range(execs) \cup {j}
  BY <1>1, AppendProperties, LenProperties DEF Range
<1> QED BY <1>2, <1>3

-----------------------------------------------------------------------------
(* The steps in which no warship sails. *)

LEMMA SameLand == ASSUME UNCHANGED land PROVE HasKept
  BY DEF HasKept, HasThen, Has
LEMMA EachSettled ==
    ASSUME HasKept,
           \A u \in UnitIds :
              \/ unit'[u].type = "none"
              \/ /\ unit'[u].type = unit[u].type
                 /\ unit[u].type \in {"Port", "Warship"} =>
                       unit'[u].at = unit[u].at /\ unit'[u].level = unit[u].level
                 /\ unit[u].type = "Warship" => unit'[u].holder = unit[u].holder
              \/ u \in FreeIds /\ unit'[u].type # "Port"
    PROVE  Settled({})
<1>1. ShipsSettled({})
  BY DEF ShipsSettled
<1>2. PortsSettled
  BY DEF PortsSettled
<1> QED BY <1>1, <1>2 DEF Settled
LEMMA SameSettled == ASSUME HasKept, UNCHANGED unit PROVE Settled({})
  BY EachSettled
LEMMA WithoutSettled == ASSUME HasKept, NEW S, unit' = Without(S) PROVE Settled({})
<1>1. \A u \in UnitIds : unit'[u] = unit[u] \/ unit'[u].type = "none"
  BY DEF Without, NoUnit
<1> QED BY <1>1, EachSettled
LEMMA BuiltSettled ==
    ASSUME HasKept, UnitsOK, FreeIds # {}, NEW v, v.type # "Port", unit' = [unit EXCEPT ![Fresh] = v]
    PROVE  Settled({})
<1>1. Fresh \in FreeIds
  BY DEF Fresh
<1>2. \A u \in UnitIds : unit'[u] = unit[u] \/ (u \in FreeIds /\ unit'[u] = v)
  BY <1>1 DEF UnitsOK
<1> QED BY <1>2, EachSettled

LEMMA IdleBerths ==
    ASSUME BerthInv, CrewInv', Settled({}), UNCHANGED execs,
           \A k \in Range(uninit') : k \in Range(uninit) \/ Idle(k)
    PROVE  BerthInv'
<1>1. \A k \in Range(execs') : k \in Range(execs) /\ k \in GoodJob
  BY RangesAreGood DEF BerthInv, CrewInv
<1>2. HandsKept
  BY <1>1, LikeItself DEF HandsKept
<1> QED BY <1>2, BerthsKept
LEMMA TurnBerths ==
    ASSUME BerthInv, CrewInv', Settled({}), NEW K, Turn(K), NEW j,
           \/ Done
           \/ /\ Stay(j) /\ j.kind # "ship"
              /\ j.kind = "trade" => j.unit = None \/ unit'[j.unit].type \in {"Trade", "none"},
           \A k \in Range(uninit') : k \in Range(uninit) \/ Idle(k)
    PROVE  BerthInv'
<1>0. StepInv
  BY DEF BerthInv, CrewInv
<1>1. \A k \in Range(execs') : k \in Range(execs) \/ k = j
  BY <1>0, StayRange, DoneRange
<1>2. ASSUME NEW k \in Range(execs'), k \notin Range(execs)
      PROVE  Manned(k)' /\ (k.kind = "ship" => ~k.docked)
  <2>1. k = j /\ ~Done
    BY <1>0, <1>1, <1>2, DoneRange
  <2> QED BY <2>1 DEF Manned
<1>3. \A k \in Range(execs) : Like(k, k)
  BY <1>0, RangesAreGood, LikeItself
<1>4. HandsKept
  BY <1>1, <1>2, <1>3 DEF HandsKept
<1> QED BY <1>4, BerthsKept

LEMMA LoopBerths == BerthInv /\ CrewInv' /\ (StartTick \/ StartInits) => BerthInv'
<1> SUFFICES ASSUME BerthInv, CrewInv', StartTick \/ StartInits PROVE BerthInv'
  OBVIOUS
<1>1. UNCHANGED <<land, unit, execs, uninit>>
  BY DEF StartTick, StartInits, OpenTick, AllHadTurns, world
<1> QED BY <1>1, SameLand, SameSettled, IdleBerths
LEMMA EndTickBerths == BerthInv /\ CrewInv' /\ EndTick => BerthInv'
<1> SUFFICES ASSUME BerthInv, CrewInv', EndTick PROVE BerthInv'
  OBVIOUS
<1>1. HasKept /\ UNCHANGED <<execs, uninit>>
  BY SameLand DEF EndTick, CloseTick, world
<1>2. ASSUME NEW u \in UnitIds
      PROVE  /\ unit'[u].type = unit[u].type /\ unit'[u].at = unit[u].at
             /\ unit'[u].level = unit[u].level /\ unit'[u].holder = unit[u].holder
  <2>1. unit[u] \in UnitType
    BY DEF BerthInv, CrewInv, StepInv, UnitsOK, SoundUnit
  <2> QED BY <2>1 DEF EndTick, UnitType
<1>3. Settled({})
  BY <1>1, <1>2, EachSettled
<1> QED BY <1>1, <1>3, IdleBerths

LEMMA PlayerTurnBerths == BerthInv /\ CrewInv' /\ PlayerTurn => BerthInv'
<1> SUFFICES ASSUME BerthInv, CrewInv', PlayerTurn PROVE BerthInv'
  OBVIOUS
<1> DEFINE rec == Reconciled(Me.by)
<1>1. ASSUME NEW u \in UnitIds
      PROVE  \/ rec[u].type = "none"
             \/ /\ rec[u].type = unit[u].type /\ rec[u].at = unit[u].at /\ rec[u].level = unit[u].level
                /\ unit[u].type = "Warship" => rec[u].holder = unit[u].holder
  <2>1. unit[u] \in UnitType
    BY DEF BerthInv, CrewInv, StepInv, UnitsOK, SoundUnit
  <2> QED BY <2>1 DEF Reconciled, NoUnit, UnitType, Ports, OfType
<1>2. \A u \in UnitIds : unit'[u] = rec[u] \/ unit'[u].type = "none"
  <2>1. CASE Has(Me.by)
    BY <2>1 DEF PlayerTurn
  <2>2. CASE ~Has(Me.by)
    <3>1. unit' = Buried(rec, Me.by)
      BY <2>2 DEF PlayerTurn
    <3> HIDE DEF rec
    <3> QED BY <3>1 DEF Buried, NoUnit
  <2> QED BY <2>1, <2>2
<1>3. HasKept
  BY SameLand DEF PlayerTurn
<1>4. Settled({})
  <2> HIDE DEF rec
  <2> QED BY <1>1, <1>2, <1>3, EachSettled
<1>5. Turn("player") /\ ((Stay(Me) /\ Me.kind = "player") \/ Done) /\ UNCHANGED uninit
  BY DEF PlayerTurn, Turn, Me
<1> DEFINE j == Me
<1>6. (Stay(j) \/ Done) /\ j.kind # "ship" /\ j.kind # "trade"
  BY <1>5 DEF Turn, Me
<1> HIDE DEF j
<1> QED BY <1>4, <1>5, <1>6, TurnBerths

LEMMA PortTurnBerths == BerthInv /\ CrewInv' /\ PortTurn => BerthInv'
<1> SUFFICES ASSUME BerthInv, CrewInv', PortTurn PROVE BerthInv'
  OBVIOUS
<1> DEFINE j == [Me EXCEPT !.by = unit[Me.unit].holder]
<1>0. StepInv /\ Turn("port") /\ (Stay(j) \/ Done)
  BY DEF BerthInv, CrewInv, PortTurn
<1>1. Settled({})
  BY SameLand, SameSettled DEF PortTurn, world
<1>2. j.kind = "port"
  <2>1. Me \in [kind : {"port"}, by : Players, unit : UnitIds]
    BY <1>0, MeIs, KindsOfJobs DEF StepInv
  <2> QED BY <2>1
<1>3. \A k \in Range(uninit') : k \in Range(uninit) \/ Idle(k)
  <2>1. CASE UNCHANGED uninit
    BY <2>1
  <2>2. CASE ~UNCHANGED uninit
    <3> DEFINE p == unit[Me.unit].holder
    <3>1. PICK v \in TradingPorts(p) : Add(<<TradeJob(p, Me.unit, v, unit[v].holder)>>)
      BY <2>2 DEF PortTurn
    <3> DEFINE t == TradeJob(p, Me.unit, v, unit[v].holder)
    <3>2. Idle(t)
      BY DEF Idle, TradeJob
    <3>3. Range(uninit') \subseteq Range(uninit) \cup {t}
      <4> HIDE DEF t
      <4>1. uninit' = uninit \o <<t>> /\ uninit \in Seq(GoodJob) /\ uninit' \in Seq(GoodJob)
        BY <3>1 DEF t, Add, StepInv, BerthInv, CrewInv, LoopTypeOK
      <4>2. uninit' = Append(uninit, t)
        BY <4>1
      <4>3. Len(uninit') = Len(uninit) + 1 /\ Len(uninit) \in Nat
        BY <4>1, <4>2, LenProperties
      <4>4. \A i \in 1 .. Len(uninit') : uninit'[i] = IF i = Len(uninit) + 1 THEN t ELSE uninit[i]
        BY <4>1, <4>2, <4>3
      <4> QED BY <4>1, <4>3, <4>4, LenProperties DEF Range
    <3> HIDE DEF t
    <3> QED BY <3>2, <3>3
  <2> QED BY <2>1, <2>2
<1> HIDE DEF j
<1> QED BY <1>0, <1>1, <1>2, <1>3, TurnBerths

LEMMA TradeFailsBerths == BerthInv /\ CrewInv' /\ TradeFails => BerthInv'
<1> SUFFICES ASSUME BerthInv, CrewInv', TradeFails PROVE BerthInv'
  OBVIOUS
<1>1. Turn("trade") /\ Done /\ UNCHANGED <<land, unit, uninit>>
  BY DEF TradeFails, Tick, world
<1>2. Settled({})
  BY <1>1, SameLand, SameSettled
<1> QED BY <1>1, <1>2, TurnBerths

\* A trade ship sails.
LEMMA TradeTurnBerths == BerthInv /\ CrewInv' /\ TradeTurn => BerthInv'
<1> SUFFICES ASSUME BerthInv, CrewInv', TradeTurn PROVE BerthInv'
  OBVIOUS
<1> DEFINE u == Built
           p == WithShip[u].holder
           x == WithShip[u].at
<1>1. /\ Turn("trade") /\ UnitsOK /\ StepInv /\ UNCHANGED <<land, uninit>>
      /\ Me.unit # None \/ Me.src \in Ports(Me.by)
      /\ Me.unit = None => FreeIds # {}
  BY DEF TradeTurn, BerthInv, CrewInv, StepInv, Tick, world
<1>2. HasKept
  BY <1>1, SameLand
<1>3. CASE Done /\ (UNCHANGED unit \/ unit' = Without({u}))
  <2>1. Settled({})
    BY <1>2, <1>3, SameSettled, WithoutSettled
  <2> QED BY <1>1, <1>3, <2>1, TurnBerths
<1>4. CASE ~(Done /\ (UNCHANGED unit \/ unit' = Without({u})))
  <2>1. p # Neutral /\ ~Pointless(p)
    BY <1>4 DEF TradeTurn, Dismissed
  <2>2. PICK d \in Bound(p, x) :
          LET y == Toward(x, unit[d].at) IN
          IF unit[d].at = x
          THEN /\ Done /\ unit' = Without({u})
               /\ gold' = [q \in Players |-> IF q \in Paid(p) THEN gold[q] + 1 ELSE gold[q]]
          ELSE /\ unit' = [WithShip EXCEPT ![u].at = y,
                                           ![u].safe = IF y \in Shoreline THEN 0 ELSE @]
               /\ Stay([Me EXCEPT !.unit = u, !.robbed = Robbed(p), !.dst = d,
                                  !.srcOwner = Known(Me.src, @), !.dstOwner = Known(d, @)])
               /\ UNCHANGED gold
    BY <2>1 DEF TradeTurn
  <2> DEFINE y == Toward(x, unit[d].at)
             j == [Me EXCEPT !.unit = u, !.robbed = Robbed(p), !.dst = d,
                             !.srcOwner = Known(Me.src, @), !.dstOwner = Known(d, @)]
  <2>3. /\ unit' = [WithShip EXCEPT ![u].at = y, ![u].safe = IF y \in Shoreline THEN 0 ELSE @]
        /\ Stay(j)
    BY <1>4, <2>2
  <2>4. j.kind = "trade" /\ j.unit = u
    <3>1. Me \in TradeType
      BY <1>1, MeIs, KindsOfJobs DEF StepInv
    <3> QED BY <3>1 DEF TradeType
  <2> HIDE DEF y, j
  <2>5. /\ u \in UnitIds /\ WithShip \in [UnitIds -> SoundUnit]
        /\ \A v \in UnitIds \ FreeIds : WithShip[v] = unit[v]
        /\ Me.unit # None => u = Me.unit /\ WithShip = unit
    BY <1>1, ShipAtSea
  <2>6. WithShip[u].type = "Trade"
    <3>1. CASE Me.unit = None
      <4>1. Fresh \in UnitIds
        BY <1>1, <3>1 DEF Fresh, FreeIds
      <4> QED BY <1>1, <3>1, <4>1 DEF WithShip, Built, UnitsOK, New
    <3>2. CASE Me.unit # None
      <4>1. Me \in Range(execs) /\ Me.kind = "trade"
        BY <1>1, StayRange DEF Turn, Me, Range, StepInv, LoopTypeOK
      <4>2. unit[u].type \in {"Trade", "none"}
        BY <2>5, <3>2, <4>1 DEF BerthInv, MannedInv, Manned
      <4>3. unit[u].type # "none"
        BY <1>1, <2>1, <2>5, <3>2 DEF UnitsOK, SoundUnit, NoUnit
      <4> QED BY <2>5, <3>2, <4>2, <4>3
    <3> QED BY <3>1, <3>2
  <2>7. ASSUME NEW v \in UnitIds
        PROVE  /\ unit'[v].type = WithShip[v].type
               /\ v # u => unit'[v] = WithShip[v]
    <3>1. WithShip[v] \in UnitType
      BY <2>5 DEF SoundUnit
    <3> QED BY <2>3, <2>5, <3>1 DEF UnitType
  <2>8. Settled({})
    <3>1. ASSUME NEW v \in UnitIds
          PROVE  \/ unit'[v].type = unit[v].type /\ unit[v].type = "Trade"
                 \/ unit'[v] = unit[v]
                 \/ v \in FreeIds /\ unit'[v].type # "Port"
      <4>1. CASE v = u
        BY <2>5, <2>6, <2>7, <4>1
      <4>2. CASE v # u
        <5>1. Me.unit = None => WithShip[v] = unit[v]
          BY <1>1, <4>2 DEF WithShip, Built, UnitsOK
        <5> QED BY <2>5, <2>7, <4>2, <5>1
      <4> QED BY <4>1, <4>2
    <3> QED BY <1>2, <3>1, EachSettled
  <2>9. unit'[j.unit].type = "Trade"
    BY <2>4, <2>5, <2>6, <2>7
  <2> QED BY <1>1, <2>3, <2>4, <2>8, <2>9, TurnBerths
<1> QED BY <1>3, <1>4

LEMMA ShellTurnBerths == BerthInv /\ CrewInv' /\ ShellTurn => BerthInv'
<1> SUFFICES ASSUME BerthInv, CrewInv', ShellTurn PROVE BerthInv'
  OBVIOUS
<1> DEFINE j == [Me EXCEPT !.built = TRUE, !.left = @ - 1, !.fuse = Fuse]
<1>1. Turn("shell") /\ UnitsOK /\ StepInv /\ UNCHANGED <<land, uninit>>
  BY DEF ShellTurn, BerthInv, CrewInv, StepInv, Tick, world
<1>2. j.kind = "shell"
  <2>1. Me \in ShellType
    BY <1>1, MeIs, KindsOfJobs DEF StepInv
  <2> QED BY <2>1 DEF ShellType
<1>3. Stay(j) \/ Done
  BY DEF ShellTurn
<1>4. HasKept
  BY <1>1, SameLand
<1>5. Settled({})
  <2>1. CASE UNCHANGED unit
    BY <1>4, <2>1, SameSettled
  <2>2. CASE \E d \in Damages : unit' = Hit(Me.prey, d)
    <3>1. PICK d \in Damages : unit' = Hit(Me.prey, d)
      BY <2>2
    <3>2. CASE unit' = Without({Me.prey})
      BY <1>4, <3>2, WithoutSettled
    <3>3. CASE unit' = [unit EXCEPT ![Me.prey].health = @ - d]
      <4>1. ASSUME NEW v \in UnitIds
            PROVE  /\ unit'[v].type = unit[v].type /\ unit'[v].holder = unit[v].holder
                   /\ unit'[v].at = unit[v].at /\ unit'[v].level = unit[v].level
        <5>1. unit[v] \in UnitType
          BY <1>1 DEF UnitsOK, SoundUnit
        <5> QED BY <1>1, <3>3, <5>1 DEF UnitType, UnitsOK
      <4> QED BY <1>4, <4>1, EachSettled
    <3> QED BY <3>1, <3>2, <3>3 DEF Hit
  <2> QED BY <2>1, <2>2 DEF ShellTurn
<1> HIDE DEF j
<1> QED BY <1>1, <1>2, <1>3, <1>5, TurnBerths

LEMMA ClockTurnBerths == BerthInv /\ CrewInv' /\ ClockTurn => BerthInv'
<1> SUFFICES ASSUME BerthInv, CrewInv', ClockTurn PROVE BerthInv'
  OBVIOUS
<1> DEFINE j == [Me EXCEPT !.ticks = Later(@)]
<1>1. Turn("clock") /\ Stay(j) /\ UNCHANGED <<land, uninit>> /\ UnitsOK /\ StepInv
  BY DEF ClockTurn, BerthInv, CrewInv, StepInv, Tick, world
<1>2. j.kind = "clock"
  <2>1. Me \in [kind : {"clock"}, ticks : Nat]
    BY <1>1, MeIs, KindsOfJobs DEF StepInv
  <2> QED BY <2>1
<1>3. Settled({})
  <2>1. ASSUME NEW u \in UnitIds
        PROVE  \/ Scuttled[u].type = "none"
               \/ /\ Scuttled[u].type = unit[u].type /\ Scuttled[u].holder = unit[u].holder
                  /\ Scuttled[u].at = unit[u].at /\ Scuttled[u].level = unit[u].level
    <3>1. unit[u] \in UnitType
      BY <1>1 DEF UnitsOK, SoundUnit
    <3> QED BY <3>1 DEF Scuttled, NoUnit, UnitType
  <2>2. unit' = Scuttled \/ unit' = unit
    BY DEF ClockTurn
  <2>3. HasKept
    BY <1>1, SameLand
  <2> QED BY <2>1, <2>2, <2>3, EachSettled
<1> HIDE DEF j
<1> QED BY <1>1, <1>2, <1>3, TurnBerths

LEMMA YardTurnBerths == BerthInv /\ CrewInv' /\ YardTurn => BerthInv'
<1> SUFFICES ASSUME BerthInv, CrewInv', YardTurn PROVE BerthInv'
  OBVIOUS
<1> DEFINE t == ShipJob(Me.by, None, Me.at)
<1>1. Turn("yard") /\ Done /\ UNCHANGED <<land, unit>> /\ Add(<<t>>) /\ StepInv
  BY DEF YardTurn, Tick, world, BerthInv, CrewInv
<1>2. Settled({})
  BY <1>1, SameLand, SameSettled
<1>3. Idle(t) /\ t \in GoodJob
  <2>1. Idle(t)
    BY DEF Idle, ShipJob
  <2>2. uninit' \in Seq(GoodJob)
    BY DEF CrewInv, StepInv, LoopTypeOK
  <2> HIDE DEF t
  <2>3. Len(uninit) \in Nat /\ uninit \in Seq(GoodJob)
    BY <1>1, LenProperties DEF StepInv, LoopTypeOK
  <2>4. uninit' = Append(uninit, t)
    BY <1>1, <2>3 DEF Add
  <2>5. Len(uninit') = Len(uninit) + 1 /\ uninit'[Len(uninit) + 1] = t
    BY <2>3, <2>4
  <2>6. Len(uninit) + 1 \in 1 .. Len(uninit')
    BY <2>3, <2>5
  <2>7. uninit'[Len(uninit) + 1] \in GoodJob
    BY <2>2, <2>6, ElementOfSeq
  <2> QED BY <2>1, <2>5, <2>7
<1>4. \A k \in Range(uninit') : k \in Range(uninit) \/ Idle(k)
  <2> HIDE DEF t
  <2>1. <<t>> \in Seq({t}) /\ <<t>> \in Seq(GoodJob)
    BY <1>3
  <2>2. Range(uninit') \subseteq Range(uninit) \cup {t}
    BY <1>1, <2>1, AddRange
  <2> QED BY <1>3, <2>2
<1> QED BY <1>1, <1>2, <1>4, TurnBerths

-----------------------------------------------------------------------------
(* The steps of the initialisations, and from outside. *)

LEMMA InitPlainBerths == BerthInv /\ CrewInv' /\ InitPlain => BerthInv'
<1> SUFFICES ASSUME BerthInv, CrewInv', InitPlain PROVE BerthInv'
  OBVIOUS
<1>1. /\ New1.kind # "ship" /\ execs' = Append(execs, New1) /\ uninit' = Tail(uninit)
      /\ uninit # <<>> /\ UNCHANGED <<land, unit>> /\ StepInv
  BY DEF InitPlain, DueInit, New1, Append1, Initing, world, BerthInv, CrewInv
<1>2. Settled({})
  BY <1>1, SameLand, SameSettled
<1>3. New1 \in Range(uninit) /\ New1 \in GoodJob /\ Idle(New1)
  BY <1>1, InitRange, RangesAreGood DEF BerthInv, MannedInv
<1>4. Range(execs') \subseteq Range(execs) \cup {New1} /\ Range(uninit') \subseteq Range(uninit)
  BY <1>1, <1>3, InitRange
<1>5. ASSUME NEW k \in Range(execs'), k \notin Range(execs)
      PROVE  Manned(k)' /\ (k.kind = "ship" => ~k.docked)
  <2>1. k = New1
    BY <1>4, <1>5
  <2>2. k.kind # "ship" /\ (k.kind = "trade" => k.unit = None)
    BY <1>1, <1>3, <2>1 DEF Idle
  <2> QED BY <2>2 DEF Manned
<1>6. HandsKept
  BY <1>1, <1>4, <1>5, LikeItself, RangesAreGood DEF HandsKept
<1> QED BY <1>2, <1>6, BerthsKept

\* A new warship is its player's, and is not docked.
LEMMA InitShipBerths == BerthInv /\ CrewInv' /\ InitShip => BerthInv'
<1> SUFFICES ASSUME BerthInv, CrewInv', InitShip PROVE BerthInv'
  OBVIOUS
<1>1. /\ StepInv /\ UnitsOK /\ UNCHANGED land /\ uninit' = Tail(uninit) /\ uninit # <<>>
      /\ New1.kind = "ship"
  BY DEF InitShip, DueInit, New1, Append1, Drop1, Initing, world, BerthInv, CrewInv, StepInv
<1>2. New1 \in Range(uninit) /\ New1 \in ShipType /\ Idle(New1) /\ Range(uninit') \subseteq Range(uninit)
  <2>1. New1 \in Range(uninit) /\ New1 \in GoodJob /\ Range(uninit') \subseteq Range(uninit)
    BY <1>1, InitRange, RangesAreGood
  <2>2. Idle(New1)
    BY <2>1 DEF BerthInv, MannedInv
  <2>3. New1 \in ShipType
    BY <1>1, <2>1, KindsOfJobs DEF GoodJob
  <2> QED BY <2>1, <2>2, <2>3
<1>3. HasKept
  BY <1>1, SameLand
<1>4. CASE Drop1 /\ UNCHANGED unit
  BY <1>2, <1>3, <1>4, SameSettled, IdleBerths DEF Drop1
<1>5. CASE /\ FreeIds # {}
           /\ \E x \in Nearest(PortsAt(New1.by), New1.patrol) :
                 unit' = [unit EXCEPT ![Fresh] = New("Warship", New1.by, x)]
           /\ Append1([New1 EXCEPT !.unit = Fresh])
  <2> DEFINE j == [New1 EXCEPT !.unit = Fresh]
  <2>1. PICK x : unit' = [unit EXCEPT ![Fresh] = New("Warship", New1.by, x)]
    BY <1>5
  <2>2. j.kind = "ship" /\ j.unit = Fresh /\ j.by = New1.by /\ ~j.docked
    BY <1>1, <1>2 DEF ShipType, Idle
  <2>3. Fresh \in UnitIds
    BY <1>5 DEF Fresh, FreeIds
  <2>4. unit'[Fresh].type = "Warship" /\ unit'[Fresh].holder = New1.by
    BY <1>1, <2>1, <2>3 DEF UnitsOK, New
  <2>5. Settled({})
    <3>1. New("Warship", New1.by, x).type # "Port"
      BY DEF New
    <3> QED BY <1>1, <1>3, <1>5, <2>1, <3>1, BuiltSettled
  <2>6. execs' = Append(execs, j)
    BY <1>5 DEF Append1
  <2> HIDE DEF j
  <2>7. j \in GoodJob
    <3>1. execs \in Seq(GoodJob) /\ execs' \in Seq(GoodJob)
      BY <1>1 DEF StepInv, CrewInv, LoopTypeOK
    <3>2. Len(execs') = Len(execs) + 1 /\ execs'[Len(execs) + 1] = j /\ Len(execs) \in Nat
      BY <2>6, <3>1, LenProperties
    <3>3. Len(execs) + 1 \in 1 .. Len(execs')
      BY <3>2
    <3> QED BY <3>1, <3>2, <3>3, ElementOfSeq
  <2>8. Range(execs') \subseteq Range(execs) \cup {j}
    BY <1>1, <2>6, <2>7, InitRange
  <2>9. ASSUME NEW k \in Range(execs'), k \notin Range(execs)
        PROVE  Manned(k)' /\ (k.kind = "ship" => ~k.docked)
    <3>1. k = j
      BY <2>8, <2>9
    <3>2. k.kind = "ship" /\ k.unit \in UnitIds /\ ~k.docked
      BY <2>2, <2>3, <3>1
    <3>3. unit'[k.unit].type = "Warship" /\ unit'[k.unit].holder = k.by
      BY <2>2, <2>4, <3>1
    <3> QED BY <3>2, <3>3 DEF Manned, Commanded, HeldBy
  <2>10. HandsKept
    BY <1>1, <1>2, <2>9, LikeItself, RangesAreGood DEF HandsKept
  <2> QED BY <2>5, <2>10, BerthsKept
<1> QED BY <1>4, <1>5 DEF InitShip

\* Orders change no berth.
LEMMA LikeRedirected ==
    ASSUME NEW j \in GoodJob, j.kind = "ship", NEW x
    PROVE  Like([j EXCEPT !.patrol = x], j) /\ Like([j EXCEPT !.patrol = x, !.goal = None], j)
<1>1. j \in ShipType
  BY KindsOfJobs DEF GoodJob
<1> QED BY <1>1 DEF Like, ShipType
LEMMA RedirectedBerths ==
    ASSUME BerthInv, CrewInv', Settled({}), DOMAIN execs' = DOMAIN execs,
           Range(uninit') \subseteq Range(uninit),
           \A i \in DOMAIN execs :
              \/ execs'[i] = execs[i]
              \/ /\ execs[i].kind = "ship"
                 /\ \E x : execs'[i] \in {[execs[i] EXCEPT !.patrol = x],
                                          [execs[i] EXCEPT !.patrol = x, !.goal = None]}
    PROVE  BerthInv'
<1>1. ASSUME NEW k \in Range(execs') PROVE \E j \in Range(execs) : Like(k, j)
  <2>1. PICK i \in DOMAIN execs : k = execs'[i]
    BY <1>1 DEF Range
  <2>2. execs[i] \in Range(execs) /\ execs[i] \in GoodJob
    BY RangesAreGood DEF BerthInv, CrewInv, Range
  <2>3. Like(execs'[i], execs[i])
    <3>1. CASE execs'[i] = execs[i]
      BY <2>2, <3>1, LikeItself
    <3>2. CASE execs'[i] # execs[i]
      <4>1. PICK x : execs'[i] \in {[execs[i] EXCEPT !.patrol = x],
                                    [execs[i] EXCEPT !.patrol = x, !.goal = None]}
        BY <3>2
      <4>2. execs[i].kind = "ship"
        BY <3>2
      <4>3. /\ Like([execs[i] EXCEPT !.patrol = x], execs[i])
            /\ Like([execs[i] EXCEPT !.patrol = x, !.goal = None], execs[i])
        BY <2>2, <4>2, LikeRedirected
      <4> QED BY <4>1, <4>3
    <3> QED BY <3>1, <3>2
  <2> QED BY <2>1, <2>2, <2>3
<1>2. HandsKept
  BY <1>1 DEF HandsKept
<1> QED BY <1>2, BerthsKept
LEMMA InitMoveBerths == BerthInv /\ CrewInv' /\ InitMove => BerthInv'
<1> SUFFICES ASSUME BerthInv, CrewInv', InitMove PROVE BerthInv'
  OBVIOUS
<1>1. UNCHANGED <<land, unit>> /\ uninit' = Tail(uninit) /\ uninit # <<>> /\ StepInv
  BY DEF InitMove, DueInit, Initing, world, BerthInv, CrewInv
<1>2. Settled({}) /\ Range(uninit') \subseteq Range(uninit)
  BY <1>1, SameLand, SameSettled, InitRange
<1>3. /\ DOMAIN execs' = DOMAIN execs
      /\ \A i \in DOMAIN execs :
            \/ execs'[i] = execs[i]
            \/ /\ execs[i].kind = "ship"
               /\ execs'[i] = [execs[i] EXCEPT !.patrol = New1.at, !.goal = None]
  BY DEF InitMove
<1> QED BY <1>2, <1>3, RedirectedBerths
LEMMA SteerBerths ==
    ASSUME BerthInv, CrewInv', NEW x \in todo.steers, Steer(x)
    PROVE  BerthInv'
<1>1. UNCHANGED <<land, unit, uninit>>
  BY DEF Steer, Happens, world
<1>2. Settled({}) /\ Range(uninit') \subseteq Range(uninit)
  BY <1>1, SameLand, SameSettled
<1>3. /\ DOMAIN execs' = DOMAIN execs
      /\ \A i \in DOMAIN execs :
            \/ execs'[i] = execs[i]
            \/ execs[i].kind = "ship" /\ execs'[i] = [execs[i] EXCEPT !.patrol = x[2]]
  BY DEF Steer
<1> QED BY <1>2, <1>3, RedirectedBerths

\* Who takes the ships of a player takes all his land: the executions of the fallen do not
\* command them, and the victor's own have lost none of them.
LEMMA SubdueBerths ==
    ASSUME BerthInv, CrewInv', NEW x \in todo.falls, Subdue(x)
    PROVE  BerthInv'
<1> DEFINE p == x[1]
           q == x[2]
<1>0. /\ UnitsOK /\ UNCHANGED <<execs, uninit>> /\ Has(p) /\ Has(q) /\ p # q
      /\ land' = [y \in Places |-> IF land[y] = q THEN p ELSE land[y]]
  BY DEF Subdue, Happens, Friendly, BerthInv, CrewInv, StepInv
<1>1. ~HasThen(q)
  BY <1>0 DEF HasThen
<1>2. HasKept
  <2>1. ASSUME NEW z \in Players, NEW y \in Places, land'[y] = z PROVE Has(z)
    <3>1. CASE land[y] = q
      BY <1>0, <2>1, <3>1
    <3>2. CASE land[y] # q
      BY <1>0, <2>1, <3>2 DEF Has
    <3> QED BY <3>1, <3>2
  <2> QED BY <2>1 DEF HasKept, HasThen
<1>3. ASSUME NEW u \in UnitIds
      PROVE  /\ unit'[u].type = unit[u].type /\ unit'[u].at = unit[u].at /\ unit'[u].level = unit[u].level
             /\ unit'[u].holder = unit[u].holder \/ (unit[u].holder = q /\ unit'[u].holder = p)
  <2>1. unit[u] \in UnitType
    BY <1>0 DEF UnitsOK, SoundUnit
  <2>2. unit'[u] = unit[u] \/ (unit[u].holder = q /\ unit'[u] = [unit[u] EXCEPT !.holder = p])
    BY DEF Subdue
  <2> QED BY <2>1, <2>2 DEF UnitType
<1>4. Settled({})
  <2> HIDE DEF p, q
  <2>1. ShipsSettled({})
    BY <1>0, <1>1, <1>3 DEF ShipsSettled
  <2>2. PortsSettled
    BY <1>3 DEF PortsSettled
  <2> QED BY <1>2, <2>1, <2>2 DEF Settled
<1> QED BY <1>0, <1>4, IdleBerths

LEMMA OutsideBerths == BerthInv /\ CrewInv' /\ Outside => BerthInv'
<1> SUFFICES ASSUME BerthInv, CrewInv', Outside PROVE BerthInv'
  OBVIOUS
<1>0. UnitsOK /\ StepInv
  BY DEF BerthInv, CrewInv, StepInv
<1>1. ASSUME NEW x \in todo.orders, Order(x) PROVE BerthInv'
  <2>1. Settled({}) /\ UNCHANGED execs
    BY <1>1, SameLand, SameSettled DEF Order, world
  <2>2. x \in [kind : {"yard"}, by : Players, at : Places]
               \cup [kind : {"move"}, by : Players, unit : UnitIds, at : Places]
    BY <1>0 DEF StepInv, TodoOK, TodoType
  <2>3. x \in GoodJob
    BY <2>2, OthersAreGood
  <2>4. Idle(x)
    BY <2>2 DEF Idle
  <2>5. Range(uninit') \subseteq Range(uninit) \cup {x}
    <3>1. <<x>> \in Seq({x}) /\ <<x>> \in Seq(GoodJob)
      <4> HIDE DEF GoodJob
      <4> QED BY <2>3
    <3> QED BY <1>0, <1>1, <3>1, AddRange DEF Order
  <2> QED BY <2>1, <2>4, <2>5, IdleBerths
<1>2. ASSUME NEW x \in todo.landings, Conquer(x) PROVE BerthInv'
  <2>1. UNCHANGED <<unit, execs, uninit>> /\ Has(x[1]) /\ land' = [land EXCEPT ![x[2]] = x[1]]
    BY <1>2 DEF Conquer, Happens
  <2>2. HasKept
    <3>1. ASSUME NEW z \in Players, NEW y \in Places, land'[y] = z PROVE Has(z)
      BY <1>0, <2>1, <3>1 DEF Has, StepInv, LandOK
    <3> QED BY <3>1 DEF HasKept, HasThen
  <2> QED BY <2>1, <2>2, SameSettled, IdleBerths
<1>3. ASSUME NEW x \in todo.bombs, Bomb(x) PROVE BerthInv'
  <2>1. UNCHANGED <<execs, uninit>> /\ land' = [land EXCEPT ![x] = Neutral]
    BY <1>3 DEF Bomb, Happens
  <2>2. HasKept
    <3>1. ASSUME NEW z \in Players, NEW y \in Places, land'[y] = z PROVE Has(z)
      <4>1. z # Neutral
        BY Ranges DEF Neutral
      <4> QED BY <1>0, <2>1, <3>1, <4>1 DEF Has, StepInv, LandOK
    <3> QED BY <3>1 DEF HasKept, HasThen
  <2>3. Settled({})
    BY <1>3, <2>2, WithoutSettled DEF Bomb
  <2> QED BY <2>1, <2>3, IdleBerths
<1>4. ASSUME NEW x \in todo.boats, Embark(x) PROVE BerthInv'
  <2>1. New("Transport", x[1], x[2]).type # "Port"
    BY DEF New
  <2>2. /\ unit' = [unit EXCEPT ![Fresh] = New("Transport", x[1], x[2])]
        /\ UNCHANGED <<land, execs, uninit>> /\ FreeIds # {}
    BY <1>4 DEF Embark, Happens, world
  <2>3. Settled({})
    BY <1>0, <2>1, <2>2, SameLand, BuiltSettled
  <2> QED BY <2>2, <2>3, IdleBerths
<1>5. ASSUME NEW u, Arrive(u) PROVE BerthInv'
  <2>1. unit' = Without({u}) /\ UNCHANGED <<land, execs, uninit>>
    BY <1>5 DEF Arrive, Happens, world
  <2> QED BY <2>1, SameLand, WithoutSettled, IdleBerths
<1>6. ASSUME NEW x \in todo.pairs, Realign(x) PROVE BerthInv'
  <2>1. UNCHANGED <<land, unit, execs, uninit>>
    BY <1>6 DEF Realign, Happens
  <2> QED BY <2>1, SameLand, SameSettled, IdleBerths
<1>7. ASSUME NEW x \in todo.bans, Ban(x) PROVE BerthInv'
  <2>1. UNCHANGED <<land, unit, execs, uninit>>
    BY <1>7 DEF Ban, Happens
  <2> QED BY <2>1, SameLand, SameSettled, IdleBerths
<1> QED BY <1>1, <1>2, <1>3, <1>4, <1>5, <1>6, <1>7, SteerBerths, SubdueBerths DEF Outside
-----------------------------------------------------------------------------
(* The turn of a warship. *)

\* The ships that are docked at x, but for the one whose turn it is, are the neighbours
\* it counts.
LEMMA NeighboursCount ==
    ASSUME BerthInv, cursor \in 1 .. Len(execs), NEW p \in Players, NEW x \in Places
    PROVE  Cardinality(Moorings(p, x) \ {Me.unit}) <= Cardinality(Neighbours(p, x))
<1> DEFINE M == Moorings(p, x) \ {Me.unit}
           N == Neighbours(p, x)
           f == [u \in M |-> CHOOSE i \in N : execs[i].unit = u]
<1>1. StepInv /\ execs \in Seq(GoodJob) /\ execs \in Seq(JobType)
  BY GoodJobsAreJobs DEF BerthInv, CrewInv, StepInv, LoopTypeOK
<1>2. ASSUME NEW u \in M PROVE \E i \in N : execs[i].unit = u
  <2>1. PICK j \in Range(execs) : Docks(j, p, x) /\ j.unit = u
    BY DEF Moorings
  <2>2. PICK i \in 1 .. Len(execs) : execs[i] = j
    BY <1>1, LenProperties DEF Range
  <2>3. u \in HeldBy(p) /\ u # Me.unit
    BY DEF Moorings
  <2>4. i # cursor
    BY <2>1, <2>2, <2>3 DEF Me
  <2>5. j.goal = None /\ Found(x, unit[u].at)
    <3>1. j.goal = None /\ By(x, unit[u].at)
      BY <2>1, <2>3 DEF BerthInv, MannedInv, Manned, Commanded, Docks
    <3>2. unit[u].at \in Places
      <4>1. p # Neutral /\ unit[u] \in SoundUnit
        BY <1>1, <2>3, Ranges DEF StepInv, UnitsOK, HeldBy, Neutral
      <4> QED BY <2>3, <4>1 DEF SoundUnit, UnitType, NoUnit, HeldBy
    <3>3. Dist(x, unit[u].at) <= DockRange /\ x \in Nat /\ unit[u].at \in Nat
      BY <3>1, <3>2, Ranges DEF By, Dist
    <3>4. ~Beyond(x, unit[u].at)
      BY DEF Moorings
    <3> QED BY <3>1, <3>3, <3>4, FoundUnlessBeyond DEF Found
  <2>6. i \in N
    BY <2>1, <2>2, <2>3, <2>4, <2>5 DEF Neighbours, Moored, Docks
  <2> QED BY <2>1, <2>2, <2>6
<1> HIDE DEF M, N
<1>3. f \in Injection(M, N)
  <2>1. ASSUME NEW u \in M PROVE f[u] \in N /\ execs[f[u]].unit = u
    BY <1>2
  <2>2. f \in [M -> N]
    BY <2>1
  <2> HIDE DEF f
  <2>3. \A u, v \in M : f[u] = f[v] => u = v
    BY <2>1
  <2> QED BY <2>2, <2>3 DEF Injection, IsInjective
<1>4. IsFiniteSet(N)
  BY <1>1, NeighboursAreFinite DEF N
<1> QED BY <1>3, <1>4, FS_Injection DEF M, N

\* A port that has room for one more still suffices when it has come.
LEMMA OneMoreFits ==
    ASSUME BerthInv, cursor \in 1 .. Len(execs), NEW p \in Players, NEW v \in OfType("Port"),
           Room(p, unit[v].at), NEW B, B \subseteq Moorings(p, unit[v].at) \cup {Me.unit}
    PROVE  Cardinality(B) <= unit[v].level
<1> DEFINE x == unit[v].at
           M == Moorings(p, x) \ {Me.unit}
           m == Cardinality(M)
           n == Cardinality(Neighbours(p, x))
<1>1. execs \in Seq(JobType) /\ UnitsOK /\ Apart
  BY GoodJobsAreJobs DEF BerthInv, CrewInv, StepInv, LoopTypeOK
<1>2. IsFiniteSet(M)
  BY MooringsAreFinite, FS_Subset
<1>3. m \in Nat /\ n \in Nat /\ m <= n
  <2>1. x \in Places
    BY <1>1, PortsAreSomewhere DEF Room
  <2> QED BY <1>1, <1>2, <2>1, FS_CardinalityType, NeighboursAreFinite, NeighboursCount
<1>4. LevelAt(p, x) = unit[v].level
  <2>1. \E u \in Ports(p) : unit[u].at = x
    BY DEF Room, PortsAt
  <2> DEFINE w == CHOOSE u \in Ports(p) : unit[u].at = x
  <2>2. w \in Ports(p) /\ unit[w].at = x
    BY <2>1
  <2>3. w = v
    BY <1>1, <2>2 DEF Apart, Ports
  <2> QED BY <2>3 DEF LevelAt
<1>5. unit[v].level \in Nat
  BY <1>1 DEF UnitsOK, SoundUnit, UnitType, OfType
<1>6. n < unit[v].level
  BY <1>4 DEF Room
<1>7. Me.unit \notin M
  OBVIOUS
<1> HIDE DEF M, n
<1>8. IsFiniteSet(M \cup {Me.unit}) /\ Cardinality(M \cup {Me.unit}) = m + 1
  BY <1>2, <1>7, FS_AddElement
<1>9. B \subseteq M \cup {Me.unit}
  BY DEF M
<1>10. Cardinality(B) <= m + 1 /\ Cardinality(B) \in Nat
  BY <1>8, <1>9, FS_Subset, FS_CardinalityType
<1> HIDE DEF m
<1> QED BY <1>3, <1>5, <1>6, <1>10

LEMMA ShipTurnBerths == BerthInv /\ CrewInv' /\ ShipTurn => BerthInv'
<1> SUFFICES ASSUME BerthInv, CrewInv', ShipTurn PROVE BerthInv'
  OBVIOUS
<1> DEFINE u == Me.unit
           s0 == Turning(Aged(Me), unit[u].at, unit[u].health)
<1>1. /\ Turn("ship") /\ LoopTypeOK(GoodJob) /\ UnitsOK /\ StepInv /\ OneCrew
      /\ MannedInv /\ Roomy /\ StepInv' /\ UnitsOK' /\ UNCHANGED land
  BY DEF ShipTurn, BerthInv, CrewInv, StepInv, Tick, world
<1>2. HasKept
  BY <1>1, SameLand
<1>3. CASE u \notin HeldBy(Me.by) /\ Done /\ UNCHANGED <<unit, uninit>>
  <2>1. Settled({})
    BY <1>2, <1>3, SameSettled
  <2> QED BY <1>1, <1>3, <2>1, TurnBerths
<1>4. CASE u \in HeldBy(Me.by)
  <2>1. PICK s \in Sorties(s0) :
          /\ unit' = [v \in UnitIds |->
                        IF v = u THEN [unit[u] EXCEPT !.at = s.at, !.health = s.hp]
                        ELSE IF v = s.prize THEN [unit[v] EXCEPT !.holder = Me.by]
                        ELSE unit[v]]
          /\ Stay(s.job) /\ Add(s.shots)
    BY <1>4 DEF ShipTurn
  <2>2. s0 \in GoodTurn /\ s \in GoodTurn /\ u \in UnitIds /\ Exists(u)
    BY <1>1, <1>4, <2>1, MyShipSails
  <2>3. Me \in ShipType /\ cursor \in 1 .. Len(execs) /\ execs \in Seq(JobType) /\ Me \in Range(execs)
    BY <1>1, MeIs, KindsOfJobs, LenProperties, GoodJobsAreJobs DEF LoopTypeOK, Turn, Me, Range
  <2>4. /\ s0.job.unit = u /\ s0.job.by = Me.by /\ s0.prize = None /\ s0.at = unit[u].at
        /\ s0.job.docked = Me.docked /\ s0.job.port = Me.port /\ s0.job.goal = Me.goal
    BY <2>3 DEF Turning, Aged, ShipType
  <2>5. Commanded(Me) /\ Me.kind = "ship"
    BY <1>1, <2>3 DEF MannedInv, Manned, Turn, Me
  <2>6. unit[u].type = "Warship" /\ unit[u].holder = Me.by /\ Me.by \in Players
    BY <1>4, <2>2, <2>3, <2>5 DEF Commanded, Exists, HeldBy, ShipType
  <2>7. s0.job.docked => s0.job.goal = None /\ By(s0.job.port, s0.at)
    BY <1>4, <2>4, <2>5 DEF Commanded
  <2> HIDE DEF s0
  <2>8. /\ s.job.unit = u /\ s.job.by = Me.by /\ s.prize \in Prizes /\ s.job.kind = "ship"
        /\ Lies(s, s0)
    <3>1. s.job.unit = u /\ s.job.by = Me.by /\ s.prize \in Prizes
      BY <1>1, <2>1, <2>2, <2>3, <2>4, CrewSorties
    <3>2. Lies(s, s0)
      BY <1>1, <2>1, <2>2, <2>3, <2>7, SortiesLie
    <3> QED BY <2>2, <3>1, <3>2 DEF GoodTurn, TurnType, ShipType
  \* The units.
  <2>9. ASSUME NEW v \in UnitIds
        PROVE  /\ unit'[v].type = unit[v].type /\ unit'[v].level = unit[v].level
               /\ v # u => unit'[v].at = unit[v].at
               /\ v = u => unit'[v].at = s.at
               /\ unit'[v].holder = unit[v].holder \/ unit[v].type = "Trade"
    <3>1. unit[v] \in UnitType
      BY <1>1 DEF UnitsOK, SoundUnit
    <3>2. CASE v = u
      BY <2>1, <3>1, <3>2 DEF UnitType
    <3>3. CASE v # u /\ v = s.prize
      <4>1. unit[v].type = "Trade"
        BY <2>8, <3>3, Ranges DEF Prizes, OfType, None
      <4> QED BY <2>1, <3>1, <3>3, <4>1 DEF UnitType
    <3>4. CASE v # u /\ v # s.prize
      BY <2>1, <3>4
    <3> QED BY <3>2, <3>3, <3>4
  <2>10. Settled({u})
    <3>1. ShipsSettled({u})
      BY <2>9 DEF ShipsSettled
    <3>2. PortsSettled
      BY <2>6, <2>9 DEF PortsSettled
    <3> QED BY <1>2, <3>1, <3>2 DEF Settled
  \* The executions.
  <2>11. ASSUME NEW k \in Range(execs')
         PROVE  k = s.job \/ (k \in Range(execs) /\ (k.kind = "ship" => k.unit # u))
    <3>1. execs \in Seq(GoodJob) /\ Len(execs') = Len(execs)
          /\ \A i \in 1 .. Len(execs) : execs'[i] = IF i = cursor THEN s.job ELSE execs[i]
      BY <1>1, <2>1, <2>3, ExceptSeq DEF Stay, LoopTypeOK
    <3>2. PICK i \in 1 .. Len(execs) : k = execs'[i]
      <4>1. execs' \in Seq(GoodJob)
        BY <1>1 DEF StepInv, LoopTypeOK
      <4> QED BY <2>11, <3>1, <4>1, LenProperties DEF Range
    <3>3. CASE i = cursor
      BY <3>1, <3>2, <3>3
    <3>4. CASE i # cursor
      <4>1. k = execs[i] /\ execs[i] \in Range(execs)
        BY <3>1, <3>2, <3>4, LenProperties DEF Range
      <4>2. execs[i].kind = "ship" => execs[i].unit # u
        <5>1. cursor \in ShipJobs
          BY <2>3, <2>5 DEF ShipJobs, Me
        <5>2. execs[i].kind = "ship" => i \in ShipJobs
          BY DEF ShipJobs
        <5> QED BY <1>1, <3>4, <5>1, <5>2 DEF OneCrew, Me
      <4> QED BY <4>1, <4>2
    <3> QED BY <3>3, <3>4
  <2>12. \A k \in Range(execs') : Manned(k)'
    <3> SUFFICES ASSUME NEW k \in Range(execs') PROVE Manned(k)'
      OBVIOUS
    <3>1. CASE k = s.job
      <4>1. k.kind = "ship" /\ k.unit = u /\ k.by = Me.by
        BY <2>8, <3>1
      <4>2. unit'[u].type = "Warship" /\ unit'[u].holder = Me.by /\ unit'[u].at = s.at
        BY <2>2, <2>6, <2>9
      <4>3. k.docked => k.goal = None /\ By(k.port, s.at)
        BY <2>8, <3>1 DEF Lies
      <4> QED BY <2>2, <4>1, <4>2, <4>3 DEF Manned, Commanded, HeldBy
    <3>2. CASE k # s.job
      <4>1. k \in Range(execs) /\ (k.kind = "ship" => k.unit # u)
        BY <2>11, <3>2
      <4>2. Manned(k) /\ k \in GoodJob /\ Like(k, k)
        BY <1>1, <4>1, RangesAreGood, LikeItself DEF MannedInv
      <4>3. k.kind \in {"ship", "trade"} => k.unit \notin FreeIds
        BY <4>1, NamedAreNotFree
      <4> QED BY <1>1, <2>10, <4>1, <4>2, <4>3, Remains
    <3> QED BY <3>1, <3>2
  <2>13. \A k \in Range(uninit') : Idle(k)
    <3>1. ShellType \subseteq GoodJob
      BY OthersAreGood
    <3>2. s.shots \in Seq(ShellType)
      BY <2>2 DEF GoodTurn, TurnType
    <3>3. s.shots \in Seq(GoodJob)
      BY <3>1, <3>2, SeqMonotonic
    <3>4. Range(uninit') \subseteq Range(uninit) \cup ShellType
      BY <1>1, <2>1, <3>2, <3>3, AddRange
    <3>5. \A k \in ShellType : Idle(k)
      BY DEF ShellType, Idle
    <3> QED BY <1>1, <3>4, <3>5 DEF MannedInv
  \* The berths.
  <2>14. ASSUME NEW p \in Players, NEW x, NEW v \in MooringsThen(p, x),
                v = u => ~(p = Me.by /\ s.job.docked /\ s.job.port = x /\ ~Beyond(x, s.at))
         PROVE  v \in Moorings(p, x) /\ v # u
    <3>1. v \in UnitIds /\ unit'[v].holder = p
      BY DEF MooringsThen
    <3>2. PICK k \in Range(execs') : Docks(k, p, x) /\ k.unit = v
      BY DEF MooringsThen
    <3>3. k # s.job
      <4>1. v = u => ~Beyond(x, s.at)
        BY <2>9 DEF MooringsThen
      <4> QED BY <2>8, <2>14, <3>2, <4>1 DEF Docks
    <3>4. k \in Range(execs) /\ v # u /\ k.kind = "ship" /\ k.by = p
      BY <2>11, <3>2, <3>3 DEF Docks
    <3>5. k \in GoodJob /\ Commanded(k) /\ k.unit \notin FreeIds
      BY <1>1, <3>4, RangesAreGood, NamedAreNotFree DEF MannedInv, Manned
    <3>6. v \in HeldBy(p) /\ unit'[v].at = unit[v].at
      BY <1>1, <2>10, <3>1, <3>2, <3>4, <3>5, StillHeld
    <3>7. ~Beyond(x, unit[v].at)
      BY <3>6 DEF MooringsThen
    <3> QED BY <3>2, <3>4, <3>6, <3>7 DEF Moorings
  <2>15. ASSUME NEW v \in OfType("Port"), NEW p \in Players
         PROVE  Cardinality(MooringsThen(p, unit[v].at)) <= unit[v].level
    <3> DEFINE x == unit[v].at
               mine == p = Me.by /\ s.job.docked /\ s.job.port = x /\ ~Beyond(x, s.at)
               stays == s0.job.docked /\ s.job.port = s0.job.port /\ s.at = s0.at
    <3>1. CASE ~mine
      <4>1. MooringsThen(p, x) \subseteq Moorings(p, x)
        BY <2>14, <3>1
      <4> QED BY <1>1, <4>1, NoMoreMoored
    <3>2. CASE mine /\ stays
      <4>1. u \in Moorings(p, x)
        BY <1>4, <2>3, <2>4, <2>5, <3>2 DEF Moorings, Docks
      <4>2. MooringsThen(p, x) \subseteq Moorings(p, x)
        BY <2>14, <4>1
      <4> QED BY <1>1, <4>2, NoMoreMoored
    <3>3. CASE mine /\ ~stays
      <4>1. Room(p, x)
        BY <2>4, <2>8, <3>3 DEF Lies
      <4>2. MooringsThen(p, x) \subseteq Moorings(p, x) \cup {u}
        BY <2>14
      <4> QED BY <2>3, <4>1, <4>2, OneMoreFits
    <3> QED BY <3>1, <3>2, <3>3
  <2>16. Roomy' /\ Apart'
    <3>1. PortsSettled
      BY <2>10 DEF Settled
    <3> QED BY <2>15, <3>1, RoomyThen, StillApart DEF BerthInv
  <2> QED BY <2>12, <2>13, <2>16 DEF BerthInv, MannedInv
<1> QED BY <1>3, <1>4 DEF ShipTurn

LEMMA BerthsNext == BerthInv /\ [DoomNext]_doomVars => BerthInv'
<1> SUFFICES ASSUME BerthInv, [DoomNext]_doomVars PROVE BerthInv'
  OBVIOUS
<1>1. CrewInv'
  BY CrewsNext DEF BerthInv
<1>2. CASE Engine
  BY <1>1, <1>2, LoopBerths, EndTickBerths, PlayerTurnBerths, PortTurnBerths, TradeFailsBerths,
     TradeTurnBerths, ShipTurnBerths, ShellTurnBerths, YardTurnBerths, InitPlainBerths,
     InitShipBerths, InitMoveBerths DEF Engine
<1>3. CASE ClockTurn
  BY <1>1, <1>3, ClockTurnBerths
<1>4. CASE Outside
  BY <1>1, <1>4, OutsideBerths
<1>5. CASE UNCHANGED doomVars
  <2>1. UNCHANGED <<land, unit, execs, uninit>>
    BY <1>5 DEF doomVars, vars, loopVars, world
  <2> QED BY <1>1, <2>1, SameLand, SameSettled, IdleBerths
<1> QED BY <1>2, <1>3, <1>4, <1>5 DEF DoomNext, DoomEngine

LEMMA InitBerths == DoomInit => BerthInv
<1> SUFFICES ASSUME DoomInit PROVE BerthInv
  OBVIOUS
<1>1. CrewInv /\ StepInv
  BY InitCrews DEF CrewInv
<1>2. uninit = <<>>
  BY DEF DoomInit, Init, LoopInit
<1>3. PICK s \in Scenarios :
        /\ unit = [u \in UnitIds |-> IF u <= Len(s.units) THEN s.units[u] ELSE NoUnit]
        /\ execs = s.first \o [p \in Players |-> PlayerJob(p)] \o Start(s.units, s.patrols)
  BY DEF DoomInit, Init, LoopInit
<1> DEFINE players == [p \in Players |-> PlayerJob(p)]
           b == Start(s.units, s.patrols)
           Plain == {j \in GoodJob : j.kind # "ship" /\ j.kind # "trade"}
           Ready == {j \in GoodJob : Manned(j) /\ (j.kind = "ship" => ~j.docked)}
<1>4. /\ s.units \in Seq([type : {"Port", "Warship"}, holder : Players, at : Places,
                          health : 1 .. MaxHealth, level : Nat \ {0}, safe : 0 .. SafeTicks])
      /\ Len(s.units) \in Nat /\ 1 .. Len(s.units) \subseteq UnitIds
      /\ DOMAIN s.units = 1 .. Len(s.units)
      /\ \A i, k \in 1 .. Len(s.units) :
            (s.units[i].type = "Port" /\ s.units[k].type = "Port" /\ s.units[i].at = s.units[k].at)
            => i = k
  BY FleetAssumption, LenProperties DEF ScenarioType
<1>5. \A i \in 1 .. Len(s.units) :
         /\ unit[i] = s.units[i] /\ unit[i].type \in {"Port", "Warship"}
         /\ i \in UnitIds
  <2>1. \A i \in 1 .. Len(s.units) : s.units[i].type \in {"Port", "Warship"}
    <3> DEFINE U == [type : {"Port", "Warship"}, holder : Players, at : Places,
                     health : 1 .. MaxHealth, level : Nat \ {0}, safe : 0 .. SafeTicks]
    <3>1. s.units \in Seq(U)
      BY <1>4
    <3>2. \A v \in U : v.type \in {"Port", "Warship"}
      OBVIOUS
    <3> HIDE DEF U
    <3> QED BY <1>4, <3>1, <3>2, ElementOfSeq
  <2> QED BY <1>3, <1>4, <2>1
<1>6. \A u \in UnitIds : unit[u].type = "Port" => u \in 1 .. Len(s.units)
  <2>1. \A u \in UnitIds : u \in Nat \ {0}
    BY Ranges
  <2> QED BY <1>3, <1>4, <2>1 DEF NoUnit
<1>7. Apart
  BY <1>4, <1>5, <1>6 DEF Apart, OfType
<1>8. Plain \subseteq Ready
  BY DEF Manned
<1>9. s.first \in Seq(Plain)
  <2>1. ASSUME NEW j \in [kind : {"clock"}, ticks : Nat] PROVE j \in Plain
    BY OthersAreGood
  <2>2. [kind : {"clock"}, ticks : Nat] \subseteq Plain
    BY <2>1
  <2>3. s.first \in Seq([kind : {"clock"}, ticks : Nat])
    BY FleetAssumption DEF ScenarioType
  <2> HIDE DEF Plain
  <2> QED BY <2>2, <2>3, SeqMonotonic
<1>10. players \in Seq(Plain)
  <2>1. ASSUME NEW p \in Players PROVE PlayerJob(p) \in Plain
    <3>1. PlayerJob(p) \in [kind : {"player"}, by : Players]
      BY DEF PlayerJob
    <3> QED BY <3>1, OthersAreGood
  <2>2. PICK n \in Nat : Players = 1 .. n
    BY Ranges
  <2> HIDE DEF Plain
  <2>3. players \in [1 .. n -> Plain]
    BY <2>1, <2>2
  <2> QED BY <2>2, <2>3, IsASeq
<1>11. b \in Seq(Ready)
  <2>1. b \in Seq(GoodJob)
    BY StartIsGood
  <2>2. DOMAIN b = 1 .. Len(s.units) /\ Len(b) \in Nat /\ DOMAIN b = 1 .. Len(b)
    <3>1. DOMAIN b = 1 .. Len(s.units)
      BY DEF Start
    <3> HIDE DEF b
    <3> QED BY <2>1, <3>1, LenProperties
  <2>3. ASSUME NEW i \in 1 .. Len(s.units) PROVE b[i] \in Ready
    <3>1. b[i] \in GoodJob
      BY <2>1, <2>2
    <3>2. b[i] = IF s.units[i].type = "Port" THEN PortJob(s.units[i].holder, i)
                                             ELSE ShipJob(s.units[i].holder, i, s.patrols[i])
      BY DEF Start
    <3>3. CASE s.units[i].type = "Port"
      BY <3>1, <3>2, <3>3 DEF PortJob, Manned
    <3>4. CASE s.units[i].type # "Port"
      <4>1. /\ b[i].kind = "ship" /\ b[i].unit = i /\ b[i].by = unit[i].holder /\ ~b[i].docked
            /\ unit[i].type = "Warship" /\ i \in UnitIds
        BY <1>5, <3>2, <3>4 DEF ShipJob
      <4> QED BY <3>1, <4>1 DEF Manned, Commanded, HeldBy
    <3> QED BY <3>3, <3>4
  <2> HIDE DEF b, Ready
  <2>4. b \in [1 .. Len(b) -> Ready]
    <3>1. b = [i \in DOMAIN b |-> b[i]]
      BY <2>1
    <3> QED BY <2>2, <2>3, <3>1
  <2> QED BY <2>2, <2>4, IsASeq
<1> HIDE DEF players, b, Plain, Ready
<1>12. execs \in Seq(Ready)
  <2>1. s.first \in Seq(Ready) /\ players \in Seq(Ready)
    BY <1>8, <1>9, <1>10, SeqMonotonic
  <2>2. s.first \o players \in Seq(Ready)
    BY <2>1, ConcatProperties
  <2>3. (s.first \o players) \o b \in Seq(Ready)
    BY <1>11, <2>2, ConcatProperties
  <2> QED BY <1>3, <2>3 DEF players, b
<1>13. \A j \in Range(execs) : Manned(j) /\ (j.kind = "ship" => ~j.docked)
  BY <1>12 DEF Range, Ready
<1>14. Range(uninit) = {}
  BY <1>2 DEF Range
<1>15. Roomy
  <2>1. ASSUME NEW p, NEW x PROVE Moorings(p, x) = {}
    BY <1>13 DEF Moorings, Docks
  <2>2. ASSUME NEW u \in OfType("Port") PROVE unit[u].level \in Nat
    BY <1>1 DEF StepInv, UnitsOK, SoundUnit, UnitType, OfType
  <2>3. Cardinality({}) = 0
    BY FS_EmptySet
  <2>4. ASSUME NEW u \in OfType("Port"), NEW p \in Players
        PROVE  Cardinality(Moorings(p, unit[u].at)) <= unit[u].level
    <3>1. Moorings(p, unit[u].at) = {}
      BY <2>1
    <3> HIDE DEF Moorings
    <3>2. Cardinality(Moorings(p, unit[u].at)) = 0
      BY <2>3, <3>1
    <3> QED BY <2>2, <3>2
  <2> QED BY <2>4 DEF Roomy
<1> QED BY <1>1, <1>7, <1>13, <1>14, <1>15 DEF BerthInv, MannedInv

\* The executions that are docked at a port are of as many ships.
LEMMA RoomyBerths == BerthInv => BerthsSuffice
<1> SUFFICES ASSUME BerthInv, NEW v \in OfType("Port")
             PROVE  Cardinality({i \in InPort(unit[v].holder, unit[v].at) :
                                    ~Beyond(unit[v].at, unit[execs[i].unit].at)}) <= unit[v].level
  BY DEF BerthsSuffice
<1> DEFINE p == unit[v].holder
           x == unit[v].at
           I == {i \in InPort(p, x) : ~Beyond(x, unit[execs[i].unit].at)}
           M == Moorings(p, x)
           f == [i \in I |-> execs[i].unit]
<1>1. UnitsOK /\ StepInv /\ OneCrew /\ execs \in Seq(GoodJob)
  BY DEF BerthInv, CrewInv, StepInv, LoopTypeOK
<1>2. p \in Players
  BY <1>1, HoldersArePlayers DEF OfType, Exists
<1>3. Cardinality(M) <= unit[v].level
  BY <1>2 DEF BerthInv, Roomy
<1>4. ASSUME NEW i \in I PROVE execs[i].unit \in M /\ i \in ShipJobs
  <2>1. i \in 1 .. Len(execs) /\ execs[i].kind = "ship"
    BY DEF InPort, ShipJobs
  <2>2. execs[i] \in Range(execs)
    BY <1>1, <2>1, LenProperties DEF Range
  <2> QED BY <2>1, <2>2 DEF InPort, Moorings, Docks
<1>5. unit[v].level \in Nat
  BY <1>1 DEF UnitsOK, SoundUnit, UnitType, OfType
<1>6. IsFiniteSet(M)
  BY MooringsAreFinite
<1> HIDE DEF I, M
<1>7. f \in Injection(I, M)
  BY <1>1, <1>4 DEF OneCrew, Injection, IsInjective
<1>8. Cardinality(I) <= Cardinality(M) /\ Cardinality(I) \in Nat /\ Cardinality(M) \in Nat
  BY <1>6, <1>7, FS_Injection, FS_CardinalityType
<1>9. Cardinality(I) <= unit[v].level
  BY <1>3, <1>5, <1>8
<1> QED BY <1>9 DEF I

\* However the warships of a player come, go, wait, choose other ports, change hands and
\* sink, and whoever takes the port, no more of them are docked at a port than it has levels,
\* whatever the range of a port and the cells of the grid: of the ships in its range the search
\* misses those at the full DockRange across the border of a cell, and no others
\* (warship_port_is_full in game.rs is asked before a ship docks, and what others do in
\* between takes no berth).
THEOREM BerthsSufficeHolds == Spec => []BerthsSuffice
<1>1. Spec => []BerthInv
  BY InitBerths, BerthsNext, PTL DEF Spec
<1> QED BY <1>1, RoomyBerths, PTL
=============================================================================
