--------------------------- MODULE WarfareProofs ---------------------------
(***************************************************************************)
(* Theorems about Warfare, for any map, any players and teams, any orders  *)
(* and any losses.                                                         *)
(***************************************************************************)
EXTENDS Warfare, FiniteSetTheorems, WellFoundedInduction, TLAPS

-----------------------------------------------------------------------------
(* The list of executions. *)

\* Executions are numbered in the order of insertion, and the first ones are the
\* PlayerExecutions.
Listed ==
    /\ job \in [Jobs -> JobType]
    /\ \A p \in Players : job[p].kind = "player" /\ job[p].owner = p
                          /\ job[p].stage # "unused"
    /\ \A j \in Jobs : job[j].kind # "none" => job[j].owner \in Players
    /\ \E n \in 0 .. MaxJobs : Added = 1 .. n

LEMMA Numbers ==
    /\ NumPlayers \in Nat /\ NumPlayers > 0 /\ MaxJobs \in Nat /\ NumPlayers < MaxJobs
    /\ Players \subseteq Jobs /\ Players \subseteq Owners
    /\ Neutral \in Owners /\ Neutral \notin Players
  BY WarfareAssumption DEF Players, Jobs, Owners, Neutral

\* The next number is free, if there is one.
LEMMA NextIsNew ==
    ASSUME Listed
    PROVE  /\ NextJob \in Nat \ {0}
           /\ Added = 1 .. NextJob - 1
           /\ NextJob \in Jobs <=> NextJob <= MaxJobs
           /\ NextJob \in Jobs => job[NextJob].stage = "unused"
<1>1. PICK n \in 0 .. MaxJobs : Added = 1 .. n
  BY DEF Listed
<1>2. Cardinality(1 .. n) = n
  BY <1>1, FS_Interval, Numbers
<1>3. NextJob = n + 1
  BY <1>1, <1>2 DEF NextJob
<1> QED
  BY <1>1, <1>3, Numbers DEF Added, Jobs

LEMMA RoomForOne ==
    ASSUME Listed, NEW n \in {1, 2}, Room(n)
    PROVE  NextJob \in Jobs
<1>1. IsFiniteSet(Jobs)
  BY FS_Interval, Numbers DEF Jobs
<1>2. AtSea \subseteq Jobs /\ IsFiniteSet(AtSea) /\ Cardinality(AtSea) \in Nat
  BY <1>1, FS_Subset, FS_CardinalityType DEF AtSea
<1>3. Cardinality(Added) + 1 <= MaxJobs /\ Cardinality(Added) = NextJob - 1
  <2>1. Added \subseteq Jobs /\ IsFiniteSet(Added) /\ Cardinality(Added) \in Nat
    BY <1>1, FS_Subset, FS_CardinalityType DEF Added
  <2> QED
    BY <1>2, <2>1, Numbers DEF Room, NextJob
<1> QED
  BY <1>3, NextIsNew

\* What the executions of the list may become, apart from new ones.
Moved(j) == /\ job' \in [Jobs -> JobType]
            /\ \A i \in Jobs : /\ job'[i].kind = job[i].kind /\ job'[i].owner = job[i].owner
                               /\ job'[i].stage = "unused" <=> job[i].stage = "unused"
                               /\ i # j => job'[i] = job[i]

LEMMA MovedIsListed ==
    ASSUME Listed, NEW j, Moved(j)
    PROVE  Listed'
<1>1. Added' = Added
  BY DEF Moved, Added
<1> QED
  BY <1>1, Numbers DEF Moved, Listed

LEMMA RetiredMoves ==
    ASSUME Listed, NEW j \in Jobs, job' = Retired(j)
    PROVE  /\ Moved(j)
           /\ job'[j].active = FALSE /\ job'[j].stage = job[j].stage
  BY DEF Listed, JobType, Retired, Moved

LEMMA InitedMoves ==
    ASSUME Listed, NEW j \in Jobs, job[j].stage = "queued", NEW keep \in BOOLEAN,
           job' = Inited(j, keep)
    PROVE  /\ Moved(j)
           /\ job'[j].active = keep /\ job'[j].stage = "inited"
  BY DEF Listed, JobType, Inited, Moved, Stages

LEMMA SameMoves ==
    ASSUME Listed, job' = job, NEW j
    PROVE  Moved(j)
  BY DEF Listed, Moved

LEMMA NewJobType ==
    ASSUME NEW k \in Kinds, NEW p \in Players
    PROVE  /\ NewJob(k, p) \in JobType
           /\ NewJob(k, p).kind = k /\ NewJob(k, p).owner = p /\ NewJob(k, p).stage = "queued"
  BY Numbers DEF NewJob, JobType, Stages

\* A new execution at the end of the list.
LEMMA NewIsListed ==
    ASSUME Listed, NextJob \in Jobs, NEW k \in Kinds, NEW p \in Players,
           job' \in [Jobs -> JobType], job'[NextJob] = NewJob(k, p),
           \A i \in Jobs \ {NextJob} :
              /\ job'[i].kind = job[i].kind /\ job'[i].owner = job[i].owner
              /\ job'[i].stage = "unused" <=> job[i].stage = "unused"
    PROVE  Listed'
<1> DEFINE n == NextJob
<1>1. n \in Nat /\ n > 0 /\ Added = 1 .. n - 1 /\ job[n].stage = "unused" /\ n <= MaxJobs
  BY NextIsNew
<1> HIDE DEF n
<1>2. job'[n].stage # "unused" /\ job'[n].kind = k /\ job'[n].owner = p /\ n \in Jobs
      /\ \A i \in Jobs \ {n} : /\ job'[i].kind = job[i].kind /\ job'[i].owner = job[i].owner
                              /\ job'[i].stage = "unused" <=> job[i].stage = "unused"
  BY NewJobType DEF n
<1>3. Added' = Added \cup {n}
  BY <1>1, <1>2 DEF Added
<1>4. Added' = 1 .. n
  BY <1>1, <1>3
<1>5. n \notin Players
  BY <1>1 DEF Listed
<1> QED
  BY <1>1, <1>2, <1>4, <1>5, Numbers DEF Listed

LEMMA AddIsListed ==
    ASSUME Listed, NEW k \in Kinds, NEW p \in Players, NEW n \in {1, 2}, Add(k, p, n)
    PROVE  /\ Listed' /\ NextJob \in Jobs /\ job[NextJob].stage = "unused"
           /\ job' = [job EXCEPT ![NextJob] = NewJob(k, p)]
<1>1. NextJob \in Jobs /\ job[NextJob].stage = "unused"
  BY RoomForOne, NextIsNew DEF Add
<1>2. job' = [job EXCEPT ![NextJob] = NewJob(k, p)]
  BY DEF Add
<1>3. /\ job' \in [Jobs -> JobType] /\ job'[NextJob] = NewJob(k, p)
      /\ \A i \in Jobs \ {NextJob} : job'[i] = job[i]
  BY <1>1, <1>2, NewJobType DEF Listed
<1> QED
  BY <1>1, <1>2, <1>3, NewIsListed

\* EndTick, and every turn and initialisation that adds nothing.
LEMMA EndTickIsListed == ASSUME Listed, EndTick PROVE Listed'
<1>1. job' \in [Jobs -> JobType]
  BY DEF EndTick, Listed, JobType, Stages
<1>2. \A j \in Jobs : /\ job'[j].kind = job[j].kind /\ job'[j].owner = job[j].owner
                      /\ job'[j].stage = "unused" <=> job[j].stage = "unused"
  BY DEF EndTick, Listed, JobType
<1>3. Added' = Added
  BY <1>2 DEF Added
<1> QED
  BY <1>1, <1>2, <1>3, Numbers DEF Listed

LEMMA OrderIsAdd ==
    ASSUME Orders
    PROVE  \E k \in Kinds, p \in Players, n \in {1, 2} : Add(k, p, n)
<1>1. {"attack", "retreat", "boat", "recall", "gift"} \subseteq Kinds
  BY DEF Kinds
<1>2. ASSUME NEW o \in AttackOrders, OrderAttack(o[1], o[2], o[3])
      PROVE  \E k \in Kinds, p \in Players, n \in {1, 2} : Add(k, p, n)
  BY <1>1, <1>2, WarfareAssumption DEF OrderAttack
<1>3. ASSUME NEW o \in BoatOrders, OrderBoat(o[1], o[2], o[3])
      PROVE  \E k \in Kinds, p \in Players, n \in {1, 2} : Add(k, p, n)
  BY <1>1, <1>3, WarfareAssumption DEF OrderBoat
<1>4. ASSUME NEW o \in GiftOrders, OrderGift(o[1], o[2], o[3])
      PROVE  \E k \in Kinds, p \in Players, n \in {1, 2} : Add(k, p, n)
  BY <1>1, <1>4, WarfareAssumption DEF OrderGift
<1>5. ASSUME NEW p \in Players, NEW a \in Jobs, OrderRetreat(p, a) \/ OrderRecall(p, a)
      PROVE  \E k \in Kinds, q \in Players, n \in {1, 2} : Add(k, q, n)
  BY <1>1, <1>5 DEF OrderRetreat, OrderRecall
<1> QED
  BY <1>2, <1>3, <1>4, <1>5 DEF Orders

LEMMA OrdersListed ==
    ASSUME Listed, Orders
    PROVE  Listed' /\ (\A j \in Jobs : job[j].stage # "unused" => job'[j] = job[j])
<1>1. ASSUME NEW k \in Kinds, NEW p \in Players, NEW n \in {1, 2}, Add(k, p, n)
      PROVE  Listed' /\ (\A j \in Jobs : job[j].stage # "unused" => job'[j] = job[j])
  BY <1>1, AddIsListed DEF Listed
<1> QED
  BY <1>1, OrderIsAdd

\* How the turn or the initialisation of an execution leaves the list.
Stays(j)  == job' = job
Leaves(j) == job' = Retired(j)
Enters(j) == job[j].stage = "queued" /\ \E keep \in BOOLEAN : job' = Inited(j, keep)

LEMMA AttackTurnList ==
    ASSUME NEW j \in Jobs, AttackTurn(j)
    PROVE  Stays(j) \/ Leaves(j)
  BY DEF AttackTurn, AttackRetreats, AttackIsGone, AttackWaits, AttackMeetsFriend, AttackIdles,
         AttackRunsOut, AttackRunsDry, AttackSkips, AttackConquers, GoHome, Stays, Leaves

LEMMA StartsList ==
    ASSUME NEW j \in Jobs, AttackRefused(j) \/ AttackStarts(j) \/ RetreatStarts(j)
                           \/ GiftStarts(j) \/ BoatRefused(j) \/ BoatFindsNoPath(j)
                           \/ (\E dst \in Tiles : BoatSails(j, dst))
    PROVE  Enters(j)
<1>1. CASE AttackRefused(j)
  BY <1>1 DEF AttackRefused, DueInit, Enters
<1>2. CASE AttackStarts(j)
  <2>1. job' = Inited(j, ~Stopped(j)) /\ DueInit(j, "attack")
    BY <1>2 DEF AttackStarts
  <2>2. (~Stopped(j)) \in BOOLEAN
    BY DEF Stopped
  <2> QED
    BY <2>1, <2>2 DEF DueInit, Enters
<1>3. CASE RetreatStarts(j) \/ BoatRefused(j) \/ BoatFindsNoPath(j)
  BY <1>3 DEF RetreatStarts, BoatRefused, BoatFindsNoPath, DueInit, Enters
<1>4. CASE GiftStarts(j)
  <2>1. (job' = Inited(j, TRUE) \/ job' = Inited(j, FALSE)) /\ DueInit(j, "gift")
    BY <1>4 DEF GiftStarts
  <2> QED
    BY <2>1 DEF DueInit, Enters
<1>5. ASSUME NEW dst \in Tiles, BoatSails(j, dst) PROVE Enters(j)
  BY <1>5 DEF BoatSails, DueInit, Enters
<1> QED
  BY <1>1, <1>2, <1>3, <1>4, <1>5

LEMMA OtherTurnsList ==
    ASSUME NEW j \in Jobs, PlayerJob(j) \/ RetreatTurn(j) \/ RecallTurn(j) \/ GiftTurn(j)
                           \/ GiftRefused(j) \/ BoatIsLost(j) \/ BoatIsHomeless(j)
                           \/ (\E dst \in Tiles : BoatMoves(j, dst))
    PROVE  Stays(j) \/ Leaves(j)
  BY DEF PlayerJob, Reap, PlayerTurn, RetreatTurn, RecallTurn, GiftTurn, GiftRefused,
         BoatIsLost, BoatIsHomeless, BoatMoves, Stays, Leaves

LEMMA PlainIsListed ==
    ASSUME Listed, NEW j \in Jobs, Stays(j) \/ Leaves(j) \/ Enters(j)
    PROVE  Moved(j) /\ Listed'
  BY SameMoves, RetiredMoves, InitedMoves, MovedIsListed DEF Stays, Leaves, Enters

\* A landing ends the boat and, perhaps, adds an attack.
LEMMA LandingIsListed ==
    ASSUME Listed, NEW j \in Jobs, NEW dst \in Tiles, BoatLands(j, dst)
    PROVE  /\ Listed' /\ job'[j].active = FALSE
           /\ \A i \in Jobs \ {j} : job[i].stage # "unused" => job'[i] = job[i]
<1>1. Due(j, "boat") /\ job[j].owner \in Players /\ job[j].stage = "running"
  BY DEF BoatLands, Due, Live, Listed
<1>2. CASE job' = Retired(j)
  BY <1>2, RetiredMoves, MovedIsListed DEF Moved
<1>3. CASE job' = [Retired(j) EXCEPT ![NextJob] = NewJob("attack", job[j].owner)]
  <2> DEFINE new == NewJob("attack", job[j].owner)
  <2>1. new \in JobType
    BY <1>1, NewJobType DEF Kinds
  <2>2. NextJob # j
    BY <1>1, NextIsNew
  <2> HIDE DEF new
  <2>3. /\ job' \in [Jobs -> JobType] /\ job'[j].active = FALSE
        /\ \A i \in Jobs \ {NextJob, j} : job'[i] = job[i]
        /\ job'[j].kind = job[j].kind /\ job'[j].owner = job[j].owner
        /\ job'[j].stage = job[j].stage
    BY <1>3, <2>1, <2>2 DEF Listed, JobType, Retired, new
  <2>4. NextJob \in Jobs => job'[NextJob] = new
    BY <1>3 DEF Retired, new, Listed
  <2>5. CASE NextJob \in Jobs
    BY <1>1, <2>3, <2>4, <2>5, NewIsListed, NextIsNew DEF new, Kinds
  <2>6. CASE NextJob \notin Jobs
    <3>1. Moved(j)
      BY <2>3, <2>6 DEF Moved
    <3> QED
      BY <2>3, <2>6, <3>1, MovedIsListed
  <2> QED
    BY <2>5, <2>6
<1> QED
  BY <1>2, <1>3 DEF BoatLands

LEMMA StepListed == Listed /\ [Next]_vars => Listed'
<1> SUFFICES ASSUME Listed, [Next]_vars PROVE Listed'
  OBVIOUS
<1>1. CASE Orders
  BY <1>1, OrdersListed
<1>2. CASE DiplomacyTurn \/ StartTick \/ StartInits \/ UNCHANGED vars
  <2>1. job' = job
    BY <1>2 DEF DiplomacyTurn, Ally, Break, MarkDisconnected, Diplomatic, StartTick, StartInits,
                vars
  <2> QED
    BY <2>1, SameMoves, MovedIsListed
<1>3. CASE EndTick
  BY <1>3, EndTickIsListed
<1>4. ASSUME NEW j \in Players, PlayerJob(j) PROVE Listed'
  BY <1>4, Numbers, OtherTurnsList, PlainIsListed
<1>5. ASSUME NEW j \in Jobs, AttackJob(j) \/ RetreatJob(j) \/ GiftJob(j) PROVE Listed'
  BY <1>5, AttackTurnList, StartsList, OtherTurnsList, PlainIsListed
     DEF AttackJob, RetreatJob, GiftJob
<1>6. ASSUME NEW j \in Jobs, BoatJob(j) PROVE Listed'
  BY <1>6, StartsList, OtherTurnsList, PlainIsListed, LandingIsListed DEF BoatJob
<1> QED
  BY <1>1, <1>2, <1>3, <1>4, <1>5, <1>6 DEF Next, Tick

-----------------------------------------------------------------------------
(* The attacks: records with the fields of AttackExecution, on the map. *)

Fields == {"target", "troops", "source", "frontier", "live", "retreating", "retreated"}

Formed ==
    /\ attack = [a \in Jobs |-> attack[a]]
    /\ \A a \in Jobs : /\ attack[a] = [f \in Fields |-> attack[a][f]]
                       /\ attack[a].source \in Tiles \cup {Nowhere}
                       /\ attack[a].frontier \subseteq Tiles
    /\ outgoing = [p \in Players |-> outgoing[p]]
    /\ incoming = [p \in Players |-> incoming[p]]

\* A formed attack, and one under way when it is new.
WellFormed(r) == /\ r = [f \in Fields |-> r[f]]
                 /\ r.source \in Tiles \cup {Nowhere} /\ r.frontier \subseteq Tiles

LEMMA NewAttackIsFormed ==
    ASSUME NEW g, NEW n, NEW s \in Tiles \cup {Nowhere}, NEW r,
           r = [NoAttack EXCEPT !.target = g, !.troops = n, !.source = s, !.live = TRUE]
    PROVE  WellFormed(r)
  BY DEF WellFormed, NoAttack, Fields

LEMMA NoAttackIsFormed == WellFormed(NoAttack)
  BY DEF WellFormed, NoAttack, Fields

LEMMA OrderedAttackIsFormed ==
    ASSUME NEW g, NEW n, NEW r,
           r = [NoAttack EXCEPT !.target = g, !.troops = n, !.live = TRUE]
    PROVE  WellFormed(r)
  BY DEF WellFormed, NoAttack, Fields

LEMMA SetIsFormed ==
    ASSUME Formed, NEW k, NEW r, WellFormed(r), attack' = [attack EXCEPT ![k] = r],
           outgoing' = outgoing, incoming' = incoming
    PROVE  Formed' /\ (\A a \in Jobs \ {k} : attack'[a] = attack[a])
           /\ (k \in Jobs => attack'[k] = r)
  BY DEF Formed, WellFormed

LEMMA UnregisteredIsFormed ==
    ASSUME NEW S, Unregistered(S)
    PROVE  /\ outgoing' = [p \in Players |-> outgoing'[p]]
           /\ incoming' = [p \in Players |-> incoming'[p]]
           /\ \A p \in Players : outgoing'[p] = outgoing[p] \ S /\ incoming'[p] = incoming[p] \ S
  BY DEF Unregistered

LEMMA KilledIsFormed ==
    ASSUME Formed, NEW S, attack' = Killed(S), Unregistered(S)
    PROVE  /\ Formed'
           /\ \A a \in Jobs : /\ a \notin S => attack'[a] = attack[a]
                              /\ a \in S => ~attack'[a].live
<1>1. attack' = [a \in Jobs |-> IF a \in S THEN [attack[a] EXCEPT !.live = FALSE] ELSE attack[a]]
  BY DEF Killed
<1>2. ASSUME NEW a \in Jobs, a \in S
      PROVE  /\ attack'[a] = [f \in Fields |-> attack'[a][f]] /\ ~attack'[a].live
             /\ attack'[a].source = attack[a].source /\ attack'[a].frontier = attack[a].frontier
  BY <1>1, <1>2 DEF Formed, Fields
<1>3. attack' = [a \in Jobs |-> attack'[a]] /\ \A a \in Jobs \ S : attack'[a] = attack[a]
  BY <1>1
<1> HIDE DEF Fields
<1> QED
  BY <1>2, <1>3, UnregisteredIsFormed DEF Formed

LEMMA GoHomeIsFormed ==
    ASSUME Formed, NEW j \in Jobs, NEW malus, GoHome(j, malus)
    PROVE  /\ Formed' /\ ~attack'[j].live
           /\ \A a \in Jobs \ {j} : attack'[a] = attack[a]
<1>1. attack' = [attack EXCEPT ![j] = [@ EXCEPT !.troops = 0, !.live = FALSE]]
      /\ Unregistered({j})
  BY DEF GoHome
<1>2. /\ attack'[j] = [f \in Fields |-> attack'[j][f]] /\ ~attack'[j].live
      /\ attack'[j].source = attack[j].source /\ attack'[j].frontier = attack[j].frontier
  BY <1>1 DEF Formed, Fields
<1>3. attack' = [a \in Jobs |-> attack'[a]] /\ \A a \in Jobs \ {j} : attack'[a] = attack[a]
  BY <1>1 DEF Formed
<1> QED
  BY <1>1, <1>2, <1>3, UnregisteredIsFormed DEF Formed

-----------------------------------------------------------------------------
(* The registries. *)

ForcesInv == Listed /\ Formed /\ RegistriesAreExact /\ OneOverlandAttack

\* Attacks end, and none begins.
Ended(S) ==
    \A a \in Jobs :
       /\ Standing(a)' <=> Standing(a) /\ a \notin S
       /\ Standing(a) => /\ job'[a].owner = job[a].owner
                         /\ attack'[a].target = attack[a].target
                         /\ attack'[a].source = attack[a].source

LEMMA EndedIsExact ==
    ASSUME RegistriesAreExact, OneOverlandAttack, NEW S, Ended(S),
           \A p \in Players : outgoing'[p] = outgoing[p] \ S /\ incoming'[p] = incoming[p] \ S
    PROVE  RegistriesAreExact' /\ OneOverlandAttack'
<1> USE DEF Ended
<1>1. OneOverlandAttack'
  <2> SUFFICES ASSUME NEW a \in Jobs, NEW b \in Jobs, Standing(a)', Standing(b)',
                      job'[a].owner = job'[b].owner, attack'[a].target = attack'[b].target,
                      attack'[a].source = Nowhere, attack'[b].source = Nowhere
               PROVE  a = b
    BY DEF OneOverlandAttack
  <2> QED
    BY DEF OneOverlandAttack
<1>2. ASSUME NEW p \in Players
      PROVE  /\ outgoing'[p] = {a \in Jobs : Standing(a)' /\ job'[a].owner = p}
             /\ incoming'[p] = {a \in Jobs : Standing(a)' /\ attack'[a].target = p}
  <2>1. /\ outgoing[p] = {a \in Jobs : Standing(a) /\ job[a].owner = p}
        /\ incoming[p] = {a \in Jobs : Standing(a) /\ attack[a].target = p}
    BY DEF RegistriesAreExact
  <2> QED
    BY <2>1
<1> QED
  BY <1>1, <1>2 DEF RegistriesAreExact

\* A turn of something else than an attack.
LEMMA BystanderKeeps ==
    ASSUME ForcesInv, NEW j \in Jobs, Moved(j), job[j].kind # "attack" \/ job' = job,
           attack' = attack, outgoing' = outgoing, incoming' = incoming
    PROVE  ForcesInv'
<1>1. Ended({})
  BY DEF ForcesInv, Moved, Ended, Standing
<1>2. Listed' /\ Formed'
  BY MovedIsListed DEF ForcesInv, Formed
<1> QED
  BY <1>1, <1>2, EndedIsExact DEF ForcesInv

LEMMA StillKeeps ==
    ASSUME ForcesInv, job' = job, attack' = attack, outgoing' = outgoing, incoming' = incoming
    PROVE  ForcesInv'
<1>1. Ended({})
  BY DEF Ended, Standing
<1>2. Formed' /\ Listed'
  BY SameMoves, MovedIsListed DEF ForcesInv, Formed
<1> QED
  BY <1>1, <1>2, EndedIsExact DEF ForcesInv

\* An order adds an execution that is not an attack under way.
LEMMA OrdersKeep == ASSUME ForcesInv, Orders PROVE ForcesInv'
<1> USE DEF ForcesInv
<1>1. /\ Listed' /\ outgoing' = outgoing /\ incoming' = incoming
      /\ \A j \in Jobs : job[j].stage # "unused" => job'[j] = job[j]
  BY OrdersListed DEF Orders, OrderAttack, OrderBoat, OrderGift, OrderRetreat, OrderRecall, Add
<1>2. NextJob \in Jobs /\ job[NextJob].stage = "unused" /\ job'[NextJob].stage = "queued"
      /\ \A j \in Jobs \ {NextJob} : job'[j] = job[j]
  <2>1. ASSUME NEW k \in Kinds, NEW p \in Players, NEW n \in {1, 2}, Add(k, p, n)
        PROVE  NextJob \in Jobs /\ job[NextJob].stage = "unused"
               /\ job'[NextJob].stage = "queued"
               /\ \A j \in Jobs \ {NextJob} : job'[j] = job[j]
    BY <2>1, AddIsListed, NewJobType DEF Listed
  <2> QED
    BY <2>1, OrderIsAdd
<1>3. Formed' /\ \A a \in Jobs \ {NextJob} : attack'[a] = attack[a]
  <2>1. CASE attack' = attack
    BY <1>1, <2>1 DEF Formed
  <2>2. ASSUME NEW o \in AttackOrders, OrderAttack(o[1], o[2], o[3])
        PROVE  Formed' /\ \A a \in Jobs \ {NextJob} : attack'[a] = attack[a]
    BY <1>1, <2>2, OrderedAttackIsFormed, SetIsFormed DEF OrderAttack
  <2> QED
    BY <2>1, <2>2 DEF Orders, OrderBoat, OrderGift, OrderRetreat, OrderRecall
<1>4. Ended({})
  <2>1. ASSUME NEW a \in Jobs PROVE
          /\ Standing(a)' <=> Standing(a)
          /\ Standing(a) => job'[a] = job[a] /\ attack'[a] = attack[a]
    <3>1. CASE a = NextJob
      BY <1>2, <3>1 DEF Standing
    <3>2. CASE a # NextJob
      BY <1>2, <1>3, <3>2 DEF Standing
    <3> QED
      BY <3>1, <3>2
  <2> QED
    BY <2>1 DEF Ended
<1> QED
  BY <1>1, <1>3, <1>4, EndedIsExact

\* What is dropped at the end of a tick had ended.
LEMMA EndTickKeeps == ASSUME ForcesInv, EndTick PROVE ForcesInv'
<1> DEFINE dropped == {j \in Jobs : job[j].stage = "running" /\ ~job[j].active}
<1> USE DEF ForcesInv
<1>1. /\ attack' = [j \in Jobs |-> IF j \in dropped THEN NoAttack ELSE attack[j]]
      /\ outgoing' = outgoing /\ incoming' = incoming
  BY DEF EndTick
<1>2. Formed'
  BY <1>1, NoAttackIsFormed DEF Formed, WellFormed
<1>3. Ended({})
  <2>1. ASSUME NEW a \in Jobs
        PROVE  /\ a \in dropped => ~Standing(a) /\ ~Standing(a)'
               /\ a \notin dropped => /\ Standing(a)' <=> Standing(a)
                                      /\ job'[a].owner = job[a].owner /\ attack'[a] = attack[a]
    BY <1>1 DEF EndTick, Standing, Listed, JobType, Stages
  <2> QED
    BY <2>1 DEF Ended
<1> QED
  BY <1>1, <1>2, <1>3, EndTickIsListed, EndedIsExact

\* An attack that is not let start was not under way.
LEMMA RefusedKeeps == ASSUME ForcesInv, NEW j \in Jobs, AttackRefused(j) PROVE ForcesInv'
<1> USE DEF ForcesInv
<1>1. /\ attack' = attack /\ outgoing' = outgoing /\ incoming' = incoming
      /\ job[j].stage = "queued" /\ job' = Inited(j, FALSE)
  BY DEF AttackRefused, DueInit, world
<1>2. Moved(j) /\ job'[j].active = FALSE
  BY <1>1, InitedMoves
<1>3. Ended({})
  BY <1>1, <1>2 DEF Ended, Standing, Moved
<1> QED
  BY <1>1, <1>2, <1>3, MovedIsListed, EndedIsExact DEF Formed

LEMMA GoHomeKeeps ==
    ASSUME ForcesInv, NEW j \in Jobs, NEW malus, GoHome(j, malus)
    PROVE  ForcesInv'
<1> USE DEF ForcesInv
<1>1. Formed' /\ ~attack'[j].live /\ \A a \in Jobs \ {j} : attack'[a] = attack[a]
  BY GoHomeIsFormed
<1>2. Moved(j) /\ job'[j].active = FALSE
  BY RetiredMoves DEF GoHome
<1>3. attack'[j].target = attack[j].target /\ attack'[j].source = attack[j].source
  BY DEF GoHome, Formed, Fields
<1>4. Ended({j})
  BY <1>1, <1>2, <1>3 DEF Ended, Standing, Moved
<1> QED
  BY <1>1, <1>2, <1>4, MovedIsListed, UnregisteredIsFormed, EndedIsExact DEF GoHome

LEMMA KilledKeeps ==
    ASSUME ForcesInv, NEW j \in Jobs, attack' = Killed({j}), Unregistered({j}),
           job' = Retired(j)
    PROVE  ForcesInv'
<1> USE DEF ForcesInv
<1>1. Formed' /\ ~attack'[j].live /\ \A a \in Jobs \ {j} : attack'[a] = attack[a]
  BY KilledIsFormed
<1>2. Moved(j) /\ job'[j].active = FALSE
  BY RetiredMoves
<1>3. attack'[j].target = attack[j].target /\ attack'[j].source = attack[j].source
  BY DEF Killed, Formed, Fields
<1>4. Ended({j})
  BY <1>1, <1>2, <1>3 DEF Ended, Standing, Moved
<1> QED
  BY <1>1, <1>2, <1>4, MovedIsListed, UnregisteredIsFormed, EndedIsExact

\* A round of the conquest loop, and an order that is carried out, change one attack
\* that stays what it is.
LEMMA ChangedKeeps ==
    ASSUME ForcesInv, NEW j \in Jobs, NEW i \in Jobs, Moved(i),
           job' = job \/ job[i].kind # "attack",
           outgoing' = outgoing, incoming' = incoming,
           attack' = [a \in Jobs |-> attack'[a]],
           \A a \in Jobs \ {j} : attack'[a] = attack[a],
           attack'[j] = [f \in Fields |-> attack'[j][f]],
           attack'[j].source = attack[j].source, attack'[j].frontier \subseteq Tiles,
           attack'[j].target = attack[j].target, attack'[j].live = attack[j].live
    PROVE  ForcesInv'
<1> USE DEF ForcesInv
<1>1. Formed'
  BY DEF Formed
<1>2. Ended({})
  BY DEF Ended, Standing, Moved
<1> QED
  BY <1>1, <1>2, MovedIsListed, EndedIsExact

LEMMA AroundIsLand == ASSUME NEW t \in Tiles, NEW g PROVE Around(t, g) \subseteq Tiles
  BY WarfareAssumption DEF Around

LEMMA SkipsKeeps ==
    ASSUME ForcesInv, NEW j \in Jobs, NEW t, AttackSkips(j, t)
    PROVE  ForcesInv'
<1> USE DEF ForcesInv
<1>1. /\ attack' = [attack EXCEPT ![j].frontier = @ \ {t}] /\ job' = job
      /\ outgoing' = outgoing /\ incoming' = incoming
  BY DEF AttackSkips
<1>2. /\ attack'[j] = [f \in Fields |-> attack'[j][f]]
      /\ attack'[j].source = attack[j].source /\ attack'[j].frontier \subseteq Tiles
      /\ attack'[j].target = attack[j].target /\ attack'[j].live = attack[j].live
  BY <1>1 DEF Formed, Fields
<1>3. attack' = [a \in Jobs |-> attack'[a]] /\ \A a \in Jobs \ {j} : attack'[a] = attack[a]
  BY <1>1 DEF Formed
<1> QED
  BY <1>1, <1>2, <1>3, SameMoves, ChangedKeeps

LEMMA ConquersKeeps ==
    ASSUME ForcesInv, NEW j \in Jobs, NEW t, NEW again \in BOOLEAN, NEW twice \in BOOLEAN,
           AttackConquers(j, t, again, twice)
    PROVE  ForcesInv'
<1> USE DEF ForcesInv
<1>1. t \in attack[j].frontier /\ t \in Tiles
  BY DEF AttackConquers, Formed
<1>2. Ahead(j, t, twice) \subseteq Tiles
  BY <1>1, AroundIsLand DEF Formed, Ahead
<1>3. PICK lost \in AttackerLosses :
        attack' = [attack EXCEPT ![j].troops = Minus(@, lost),
                                 ![j].frontier = Ahead(j, t, twice)]
  BY DEF AttackConquers
<1>4. job' = job /\ outgoing' = outgoing /\ incoming' = incoming
  BY DEF AttackConquers
<1>5. /\ attack'[j] = [f \in Fields |-> attack'[j][f]]
      /\ attack'[j].source = attack[j].source /\ attack'[j].frontier \subseteq Tiles
      /\ attack'[j].target = attack[j].target /\ attack'[j].live = attack[j].live
  BY <1>2, <1>3 DEF Formed, Fields
<1>6. attack' = [a \in Jobs |-> attack'[a]] /\ \A a \in Jobs \ {j} : attack'[a] = attack[a]
  BY <1>3 DEF Formed
<1> QED
  BY <1>4, <1>5, <1>6, SameMoves, ChangedKeeps

LEMMA AttackTurnKeeps == ASSUME ForcesInv, NEW j \in Jobs, AttackTurn(j) PROVE ForcesInv'
<1>1. CASE AttackRetreats(j) \/ AttackMeetsFriend(j) \/ AttackRunsDry(j)
  BY <1>1, GoHomeKeeps DEF AttackRetreats, AttackMeetsFriend, AttackRunsDry
<1>2. CASE AttackIsGone(j)
  <2>1. /\ attack' = attack /\ outgoing' = outgoing /\ incoming' = incoming
        /\ job' = Retired(j) /\ ~attack[j].live
    BY <1>2 DEF AttackIsGone, world
  <2>2. Moved(j)
    BY <2>1, RetiredMoves DEF ForcesInv
  <2>3. Ended({})
    BY <2>1, <2>2 DEF Ended, Standing, Moved
  <2> QED
    BY <2>1, <2>2, <2>3, MovedIsListed, EndedIsExact DEF ForcesInv, Formed
<1>3. CASE AttackWaits(j) \/ AttackIdles(j)
  BY <1>3, StillKeeps DEF AttackWaits, AttackIdles, world
<1>4. CASE AttackRunsOut(j)
  BY <1>4, KilledKeeps DEF AttackRunsOut
<1>5. ASSUME NEW t \in attack[j].frontier, AttackSkips(j, t) PROVE ForcesInv'
  BY <1>5, SkipsKeeps
<1>6. ASSUME NEW t \in attack[j].frontier, NEW again \in BOOLEAN, NEW twice \in BOOLEAN,
             AttackConquers(j, t, again, twice)
      PROVE  ForcesInv'
  BY <1>6, ConquersKeeps
<1> QED
  BY <1>1, <1>2, <1>3, <1>4, <1>5, <1>6 DEF AttackTurn

LEMMA RetreatTurnKeeps == ASSUME ForcesInv, NEW j \in Jobs, RetreatTurn(j) PROVE ForcesInv'
<1> USE DEF ForcesInv
<1> DEFINE a == order[j].of
<1>1. /\ outgoing' = outgoing /\ incoming' = incoming /\ job[j].kind = "retreat"
      /\ job' = job \/ job' = Retired(j)
  BY DEF RetreatTurn, Due
<1>2. Moved(j)
  BY <1>1, SameMoves, RetiredMoves
<1>3. CASE attack' = attack
  BY <1>1, <1>2, <1>3, BystanderKeeps
<1>4. ASSUME NEW x, NEW y,
             attack' = [attack EXCEPT ![a].retreating = x, ![a].retreated = y]
      PROVE  ForcesInv'
  <2> HIDE DEF a
  <2>1. CASE a \in Jobs
    <3>1. /\ attack'[a] = [f \in Fields |-> attack'[a][f]]
          /\ attack'[a].source = attack[a].source /\ attack'[a].frontier \subseteq Tiles
          /\ attack'[a].target = attack[a].target /\ attack'[a].live = attack[a].live
      BY <1>4, <2>1 DEF Formed, Fields
    <3>2. attack' = [i \in Jobs |-> attack'[i]]
          /\ \A i \in Jobs \ {a} : attack'[i] = attack[i]
      BY <1>4 DEF Formed
    <3> QED
      BY <1>1, <1>2, <2>1, <3>1, <3>2, ChangedKeeps
  <2>2. CASE a \notin Jobs
    <3>1. attack' = attack
      BY <1>4, <2>2 DEF Formed
    <3> QED
      BY <1>3, <3>1
  <2> QED
    BY <2>1, <2>2
<1> QED
  BY <1>3, <1>4 DEF RetreatTurn

LEMMA LandsKeeps ==
    ASSUME ForcesInv, NEW j \in Jobs, NEW dst \in Tiles, BoatLands(j, dst)
    PROVE  ForcesInv'
<1> USE DEF ForcesInv
<1>1. /\ Listed' /\ job[j].kind = "boat" /\ job'[j].active = FALSE
      /\ \A i \in Jobs \ {j} : job[i].stage # "unused" => job'[i] = job[i]
      /\ outgoing' = outgoing /\ incoming' = incoming
  BY LandingIsListed DEF BoatLands, Due
<1>2. CASE job' = Retired(j) /\ attack' = attack
  BY <1>1, <1>2, RetiredMoves, BystanderKeeps
<1>3. ASSUME job' = [Retired(j) EXCEPT ![NextJob] = NewJob("attack", job[j].owner)],
             attack' = [attack EXCEPT ![NextJob] =
                          [NoAttack EXCEPT !.target = boat[j].target, !.troops = boat[j].troops,
                                           !.source = dst, !.live = TRUE]]
      PROVE  ForcesInv'
  <2> DEFINE new == [NoAttack EXCEPT !.target = boat[j].target, !.troops = boat[j].troops,
                                     !.source = dst, !.live = TRUE]
  <2>1. WellFormed(new)
    BY NewAttackIsFormed
  <2> HIDE DEF new
  <2>2. Formed' /\ \A a \in Jobs \ {NextJob} : attack'[a] = attack[a]
    BY <1>1, <1>3, <2>1, SetIsFormed DEF new
  <2>3. NextJob \in Jobs => /\ job'[NextJob].stage = "queued"
                            /\ job[NextJob].stage = "unused"
    <3> DEFINE r == NewJob("attack", job[j].owner)
    <3>1. NextJob \in Jobs => job'[NextJob] = r
      BY <1>3 DEF Retired, Listed
    <3>2. r.stage = "queued"
      BY DEF NewJob
    <3> QED
      BY <3>1, <3>2, NextIsNew
  <2>4. ASSUME NEW a \in Jobs
        PROVE  /\ Standing(a)' <=> Standing(a)
               /\ Standing(a) => job'[a] = job[a] /\ attack'[a] = attack[a]
    <3>1. CASE a = NextJob
      BY <2>3, <3>1 DEF Standing
    <3>2. CASE a = j
      BY <1>1, <3>2 DEF Standing
    <3>3. CASE a \notin {NextJob, j} /\ job[a].stage # "unused"
      BY <1>1, <2>2, <3>3 DEF Standing
    <3>4. CASE a \notin {NextJob, j} /\ job[a].stage = "unused"
      <4>1. job'[a] = job[a]
        BY <1>3, <3>4 DEF Retired, Listed
      <4> QED
        BY <3>4, <4>1 DEF Standing
    <3> QED
      BY <3>1, <3>2, <3>3, <3>4
  <2> QED
    <3>1. Ended({})
      BY <2>4 DEF Ended
    <3> QED
      BY <1>1, <2>2, <3>1, EndedIsExact
<1> QED
  BY <1>2, <1>3 DEF BoatLands

\* The attack that sets out meets attacks under way, and takes over those of its owner.
LEMMA FallenWereStanding ==
    ASSUME ForcesInv, NEW j \in Jobs, DueInit(j, "attack")
    PROVE  /\ ~Standing(j) /\ job[j].owner \in Players
           /\ \A a \in Beaten(j) \cup Absorbed(j) : a \in Jobs /\ a # j /\ Standing(a)
           /\ j \in Fallen(j) <=> Stopped(j)
           /\ \A a \in Jobs \ {j} : a \in Fallen(j) <=> a \in Beaten(j) \cup Absorbed(j)
<1> USE DEF ForcesInv
<1>1. ~Standing(j) /\ job[j].owner \in Players
  BY DEF DueInit, Standing, Listed
<1>2. Facing(j) \subseteq incoming[job[j].owner]
  BY DEF Facing, Opposing
<1>3. \A a \in Facing(j) : a \in Jobs /\ Standing(a)
  BY <1>1, <1>2 DEF RegistriesAreExact
<1>4. Beaten(j) \subseteq Facing(j)
  BY DEF Beaten, Before
<1>5. \A a \in Absorbed(j) : a \in Jobs /\ a # j /\ Standing(a)
  BY <1>1 DEF Absorbed, Same, RegistriesAreExact
<1> QED
  BY <1>1, <1>3, <1>4, <1>5 DEF Fallen

LEMMA StartKeeps == ASSUME ForcesInv, NEW j \in Jobs, AttackStarts(j) PROVE ForcesInv'
<1> USE DEF ForcesInv
<1> DEFINE p == job[j].owner
           g == attack[j].target
           joined == Left(j) + SumTroops(Absorbed(j))
<1>1. DueInit(j, "attack") /\ p \in Players /\ ~Standing(j)
  BY FallenWereStanding DEF AttackStarts
<1>2. Moved(j) /\ job'[j].active = ~Stopped(j) /\ job'[j].stage = "inited"
  <2>1. (~Stopped(j)) \in BOOLEAN /\ job' = Inited(j, ~Stopped(j)) /\ job[j].stage = "queued"
    BY <1>1 DEF Stopped, AttackStarts, DueInit
  <2> QED
    BY <2>1, InitedMoves
<1>3. Opening(j) \subseteq Tiles
  BY AroundIsLand DEF Formed, Landed, Frontier, Opening
<1>4. attack' = [a \in Jobs |->
            IF a = j THEN [attack[j] EXCEPT !.troops = joined, !.frontier = Opening(j),
                                            !.live = ~Stopped(j)]
            ELSE IF a \in Fallen(j) THEN [attack[a] EXCEPT !.live = FALSE]
            ELSE IF Stopped(j) /\ a = Min(Stoppers(j)) THEN [attack[a] EXCEPT !.troops = @ - Left(j)]
            ELSE attack[a]]
  BY DEF AttackStarts
<1>5. /\ outgoing' = Enlisted(outgoing, p, j) /\ incoming' = Enlisted(incoming, g, j)
  BY DEF AttackStarts
<1> HIDE DEF joined
<1>6. /\ attack'[j] = [f \in Fields |-> attack'[j][f]] /\ attack'[j].frontier \subseteq Tiles
      /\ attack'[j].source = attack[j].source /\ attack'[j].target = g
      /\ attack'[j].live = ~Stopped(j)
  <2>1. attack'[j] = [attack[j] EXCEPT !.troops = joined, !.frontier = Opening(j),
                                       !.live = ~Stopped(j)]
    BY <1>4
  <2> QED
    BY <1>3, <2>1 DEF Formed, Fields
<1>7. ASSUME NEW a \in Jobs \ {j}
      PROVE  /\ attack'[a] = [f \in Fields |-> attack'[a][f]]
             /\ attack'[a].frontier = attack[a].frontier /\ attack'[a].source = attack[a].source
             /\ attack'[a].target = attack[a].target
             /\ a \in Fallen(j) => ~attack'[a].live
             /\ a \notin Fallen(j) => attack'[a].live = attack[a].live
  <2>1. CASE a \in Fallen(j)
    <3>1. attack'[a] = [attack[a] EXCEPT !.live = FALSE]
      BY <1>4, <2>1
    <3> QED
      BY <2>1, <3>1 DEF Formed, Fields
  <2>2. CASE a \notin Fallen(j) /\ Stopped(j) /\ a = Min(Stoppers(j))
    <3>1. attack'[a] = [attack[a] EXCEPT !.troops = @ - Left(j)]
      BY <1>4, <2>2
    <3> QED
      BY <2>2, <3>1 DEF Formed, Fields
  <2>3. CASE a \notin Fallen(j) /\ ~(Stopped(j) /\ a = Min(Stoppers(j)))
    <3>1. attack'[a] = attack[a]
      BY <1>4, <2>3
    <3> QED
      BY <2>3, <3>1 DEF Formed
  <2> QED
    BY <2>1, <2>2, <2>3
<1>8. Formed'
  <2>1. attack' = [a \in Jobs |-> attack'[a]]
    BY <1>4
  <2>2. /\ outgoing' = [q \in Players |-> outgoing'[q]]
        /\ incoming' = [q \in Players |-> incoming'[q]]
    BY <1>5 DEF Enlisted
  <2>3. \A a \in Jobs : /\ attack'[a] = [f \in Fields |-> attack'[a][f]]
                         /\ attack'[a].source = attack[a].source
                         /\ attack'[a].frontier \subseteq Tiles
    BY <1>6, <1>7 DEF Formed
  <2> QED
    BY <2>1, <2>2, <2>3 DEF Formed
<1>9. \A a \in Jobs : Standing(a)' <=> (IF a = j THEN ~Stopped(j)
                                        ELSE Standing(a) /\ a \notin Fallen(j))
  BY <1>1, <1>2, <1>6, <1>7 DEF Standing, Moved, DueInit
<1>10. RegistriesAreExact'
  <2>1. ASSUME NEW q \in Players
        PROVE  /\ outgoing'[q] = {a \in Jobs : Standing(a)' /\ job'[a].owner = q}
               /\ incoming'[q] = {a \in Jobs : Standing(a)' /\ attack'[a].target = q}
    <3>1. /\ outgoing[q] = {a \in Jobs : Standing(a) /\ job[a].owner = q}
          /\ incoming[q] = {a \in Jobs : Standing(a) /\ attack[a].target = q}
      BY DEF RegistriesAreExact
    <3>2. /\ outgoing'[q] = (IF q = p THEN outgoing[q] \cup {j} ELSE outgoing[q]) \ Fallen(j)
          /\ incoming'[q] = (IF q = g THEN incoming[q] \cup {j} ELSE incoming[q]) \ Fallen(j)
      BY <1>5 DEF Enlisted
    <3>3. \A a \in Jobs : job'[a].owner = job[a].owner /\ attack'[a].target = attack[a].target
      BY <1>2, <1>6, <1>7 DEF Moved
    <3>4. ~Standing(j) /\ (j \in Fallen(j) <=> Stopped(j))
      BY <1>1, FallenWereStanding
    <3> DEFINE stands(a) == IF a = j THEN ~Stopped(j) ELSE Standing(a) /\ a \notin Fallen(j)
    <3>5. /\ outgoing'[q] = {a \in Jobs : stands(a) /\ job[a].owner = q}
          /\ incoming'[q] = {a \in Jobs : stands(a) /\ attack[a].target = q}
      BY <3>1, <3>2, <3>4
    <3> QED
      BY <1>9, <3>3, <3>5
  <2> QED
    BY <2>1 DEF RegistriesAreExact
<1>11. OneOverlandAttack'
  <2>1. ASSUME NEW b \in Jobs \ {j}, Standing(b)', Standing(j)', job'[b].owner = p,
               attack'[b].target = g, attack'[b].source = Nowhere, attack'[j].source = Nowhere
        PROVE  FALSE
    <3>1. ~Stopped(j) /\ ~Landed(j) /\ Standing(b) /\ b \notin Fallen(j)
      BY <1>6, <1>9, <2>1 DEF Landed
    <3>2. job[b].owner = p /\ attack[b].target = g
      BY <1>2, <1>7, <2>1 DEF Moved
    <3>3. b \in Same(p, g, j)
      BY <1>1, <3>1, <3>2 DEF Same, RegistriesAreExact, Standing
    <3> QED
      BY <3>1, <3>3 DEF Absorbed, Fallen
  <2>2. ASSUME NEW a \in Jobs \ {j}, NEW b \in Jobs \ {j}, Standing(a)', Standing(b)',
               job'[a].owner = job'[b].owner, attack'[a].target = attack'[b].target,
               attack'[a].source = Nowhere, attack'[b].source = Nowhere
        PROVE  a = b
    BY <1>2, <1>7, <1>9, <2>2 DEF OneOverlandAttack, Moved
  <2>3. job'[j].owner = p /\ attack'[j].target = g
    BY <1>2, <1>6 DEF Moved
  <2> HIDE DEF p, g
  <2> QED
    BY <2>1, <2>2, <2>3 DEF OneOverlandAttack
<1> QED
  BY <1>2, <1>8, <1>10, <1>11, MovedIsListed

LEMMA InitForces == Init => ForcesInv
<1> SUFFICES ASSUME Init PROVE ForcesInv
  OBVIOUS
<1>1. /\ job = [j \in Jobs |->
                  IF j \in Players
                  THEN [kind |-> "player", owner |-> j, stage |-> "running", active |-> TRUE]
                  ELSE [kind |-> "none", owner |-> Neutral, stage |-> "unused", active |-> FALSE]]
      /\ attack = [j \in Jobs |-> NoAttack]
      /\ outgoing = [p \in Players |-> {}] /\ incoming = [p \in Players |-> {}]
  BY DEF Init
<1>2. Added = 1 .. NumPlayers
  BY <1>1, Numbers DEF Added, Players
<1>3. Listed
  <2>1. /\ [kind |-> "none", owner |-> Neutral, stage |-> "unused", active |-> FALSE] \in JobType
        /\ \A p \in Players : [kind |-> "player", owner |-> p, stage |-> "running",
                               active |-> TRUE] \in JobType
    BY Numbers DEF JobType, Kinds, Stages
  <2>2. job \in [Jobs -> JobType]
    BY <1>1, <2>1
  <2>3. NumPlayers \in 0 .. MaxJobs
    BY Numbers
  <2> QED
    BY <1>1, <1>2, <2>2, <2>3, Numbers DEF Listed
<1>4. Formed
  BY <1>1, NoAttackIsFormed DEF Formed, WellFormed
<1>5. \A a \in Jobs : ~Standing(a)
  BY <1>1 DEF Standing
<1> QED
  BY <1>1, <1>3, <1>4, <1>5 DEF ForcesInv, RegistriesAreExact, OneOverlandAttack

LEMMA StepForces == ForcesInv /\ [Next]_vars => ForcesInv'
<1> SUFFICES ASSUME ForcesInv, [Next]_vars PROVE ForcesInv'
  OBVIOUS
<1> USE DEF ForcesInv
<1>1. CASE Orders
  BY <1>1, OrdersKeep
<1>2. CASE DiplomacyTurn \/ StartTick \/ StartInits \/ UNCHANGED vars
  BY <1>2, StillKeeps DEF DiplomacyTurn, Ally, Break, MarkDisconnected, Diplomatic, StartTick,
                          StartInits, world, vars
<1>3. CASE EndTick
  BY <1>3, EndTickKeeps
<1>4. ASSUME NEW j \in Players, PlayerJob(j) PROVE ForcesInv'
  <2>1. j \in Jobs /\ Moved(j) /\ job[j].kind = "player"
    BY <1>4, Numbers, OtherTurnsList, PlainIsListed DEF Listed
  <2>2. attack' = attack /\ outgoing' = outgoing /\ incoming' = incoming
    BY <1>4 DEF PlayerJob, Reap, PlayerTurn
  <2> QED
    BY <2>1, <2>2, BystanderKeeps
<1>5. ASSUME NEW j \in Jobs, AttackJob(j) PROVE ForcesInv'
  BY <1>5, RefusedKeeps, StartKeeps, AttackTurnKeeps DEF AttackJob
<1>6. ASSUME NEW j \in Jobs, RetreatJob(j) PROVE ForcesInv'
  <2>1. CASE RetreatTurn(j)
    BY <2>1, RetreatTurnKeeps
  <2>2. CASE RetreatStarts(j) \/ RecallTurn(j)
    <3>1. /\ Moved(j) /\ job[j].kind # "attack" /\ attack' = attack
          /\ outgoing' = outgoing /\ incoming' = incoming
      BY <2>2, StartsList, OtherTurnsList, PlainIsListed
         DEF RetreatStarts, RecallTurn, DueInit, Due, world
    <3> QED
      BY <3>1, BystanderKeeps
  <2> QED
    BY <1>6, <2>1, <2>2 DEF RetreatJob
<1>7. ASSUME NEW j \in Jobs, GiftJob(j) PROVE ForcesInv'
  <2>1. /\ Moved(j) /\ job[j].kind = "gift" /\ attack' = attack
        /\ outgoing' = outgoing /\ incoming' = incoming
    BY <1>7, StartsList, OtherTurnsList, PlainIsListed
       DEF GiftJob, GiftStarts, GiftTurn, GiftRefused, DueInit, Due
  <2> QED
    BY <2>1, BystanderKeeps
<1>8. ASSUME NEW j \in Jobs, BoatJob(j) PROVE ForcesInv'
  <2>1. ASSUME NEW dst \in Tiles, BoatLands(j, dst) PROVE ForcesInv'
    BY <2>1, LandsKeeps
  <2>2. CASE \/ BoatRefused(j) \/ BoatFindsNoPath(j) \/ BoatIsLost(j) \/ BoatIsHomeless(j)
             \/ \E dst \in Tiles : BoatSails(j, dst) \/ BoatMoves(j, dst)
    <3>1. Moved(j)
      BY <2>2, StartsList, OtherTurnsList, PlainIsListed
    <3>2. /\ job[j].kind = "boat" /\ attack' = attack
          /\ outgoing' = outgoing /\ incoming' = incoming
      BY <2>2 DEF BoatRefused, BoatFindsNoPath, BoatIsLost, BoatIsHomeless, BoatSails,
                  BoatMoves, DueInit, Due, world
    <3> QED
      BY <3>1, <3>2, BystanderKeeps
  <2> QED
    BY <1>8, <2>1, <2>2 DEF BoatJob
<1> QED
  BY <1>1, <1>2, <1>3, <1>4, <1>5, <1>6, <1>7, <1>8 DEF Next, Tick

LEMMA Forces == Spec => []ForcesInv
  BY InitForces, StepForces, PTL DEF Spec

\* The registries of both players hold the attacks under way and nothing else, for any
\* number of attacks, merges, cancellations, retreats and landings.
THEOREM RegistriesHold == Spec => []RegistriesAreExact
<1>1. ForcesInv => RegistriesAreExact
  BY DEF ForcesInv
<1> QED
  BY <1>1, Forces, PTL

\* However many attacks are ordered, a player has one overland attack on a target.
THEOREM OneOverlandAttackHolds == Spec => []OneOverlandAttack
<1>1. ForcesInv => OneOverlandAttack
  BY DEF ForcesInv
<1> QED
  BY <1>1, Forces, PTL

-----------------------------------------------------------------------------
(* The dead. *)

LandInv ==
    /\ ForcesInv
    /\ owner \in [Tiles -> Owners] /\ unit \in [Jobs -> Owners] /\ offline \subseteq Players
    /\ TheDeadStayDead

\* Nobody, or somebody whose PlayerExecution runs.
Lives(x) == x \in Owners /\ (x \in Players => job[x].active)

LEMMA LandIsLived ==
    ASSUME LandInv
    PROVE  /\ \A t \in Tiles : Lives(owner[t])
           /\ \A b \in Jobs : Lives(unit[b])
           /\ \A p \in Players : Has(p) => Lives(p)
<1>1. \A p \in Players : job[p].active \in BOOLEAN
  BY Numbers DEF LandInv, ForcesInv, Listed, JobType
<1> QED
  BY <1>1, Numbers DEF LandInv, TheDeadStayDead, Has, Lives

\* Land and ships that go to the living, while nobody dies, leave the dead dead.
LEMMA LivingKeep ==
    ASSUME LandInv, ForcesInv', \A p \in Players : job'[p].active = job[p].active,
           owner' = [t \in Tiles |-> owner'[t]], unit' = [b \in Jobs |-> unit'[b]],
           \A t \in Tiles : Lives(owner'[t]), \A b \in Jobs : Lives(unit'[b]),
           offline' \subseteq Players
    PROVE  LandInv'
<1>1. owner' \in [Tiles -> Owners] /\ unit' \in [Jobs -> Owners]
  BY DEF Lives
<1> QED
  BY <1>1 DEF LandInv, TheDeadStayDead, Has, Lives

LEMMA SameLandKeeps ==
    ASSUME LandInv, ForcesInv', \A p \in Players : job'[p].active = job[p].active,
           owner' = owner, unit' = unit, offline' \subseteq Players
    PROVE  LandInv'
<1>1. owner' = [t \in Tiles |-> owner'[t]] /\ unit' = [b \in Jobs |-> unit'[b]]
  BY DEF LandInv
<1> QED
  BY <1>1, LandIsLived, LivingKeep

LEMMA CapturedLive ==
    ASSUME LandInv, NEW c, Lives(c), NEW g
    PROVE  /\ Captured(c, g) = [b \in Jobs |-> Captured(c, g)[b]]
           /\ \A b \in Jobs : Lives(Captured(c, g)[b])
  BY LandIsLived DEF Captured, LandInv

\* Induction over the naturals, for a set.
LEMMA SetInduction ==
    ASSUME NEW S \in SUBSET Nat, 0 \in S, \A n \in S : n + 1 \in S
    PROVE  S = Nat
<1> DEFINE below == {ss \in Nat \X Nat : ss[1] < ss[2]}
           rest == Nat \ S
<1>1. IsWellFoundedOn(below, Nat)
  BY NatLessThanWellFounded, Zenon DEF OpToRel
<1>2. rest \subseteq Nat
  OBVIOUS
<1> SUFFICES ASSUME rest # {} PROVE FALSE
  OBVIOUS
<1>3. PICK m \in rest : \A k \in rest : ~(<<k, m>> \in below)
  <2> HIDE DEF below, rest
  <2> QED
    BY <1>1, <1>2, WFMin, Zenon
<1>4. m \in Nat /\ m # 0 /\ m - 1 \in Nat /\ m - 1 < m
  BY <1>3
<1>5. m - 1 \in S
  BY <1>3, <1>4
<1>6. (m - 1) + 1 \in S
  BY <1>5
<1> QED
  BY <1>3, <1>4, <1>6

\* What may have become of the map own while the land of g was shared out: what was not g's
\* stays, the rest is the conqueror's or that of somebody on the map who is no friend of g.
Shared(new, own, p, g) ==
    /\ new = [u \in Tiles |-> new[u]]
    /\ \A u \in Tiles : \/ new[u] = own[u]
                        \/ own[u] = g /\ \/ new[u] = p
                                         \/ ~Friendly(new[u], g) /\ \E v \in Tiles : own[v] = new[u]
LEMMA OneMoreShared ==
    ASSUME NEW own, NEW p, NEW g, NEW M, \A new \in M : Shared(new, own, p, g), NEW u,
           NEW new \in Inherited(M, u, p, g)
    PROVE  Shared(new, own, p, g)
<1>1. PICK o \in M : \E x \in IF o[u] = g THEN Heirs(o, u, p, g) ELSE {o[u]} : new = [o EXCEPT ![u] = x]
  BY DEF Inherited
<1>2. PICK x \in IF o[u] = g THEN Heirs(o, u, p, g) ELSE {o[u]} : new = [o EXCEPT ![u] = x]
  BY <1>1
<1>3. Shared(o, own, p, g)
  OBVIOUS
<1>4. /\ new = [v \in Tiles |-> new[v]]
      /\ \A v \in Tiles : new[v] = IF v = u THEN x ELSE o[v]
  BY <1>2, <1>3 DEF Shared
<1>5. CASE u \in Tiles /\ o[u] = g /\ x # g
  <2>1. own[u] = g /\ x \in Heirs(o, u, p, g)
    BY <1>2, <1>3, <1>5 DEF Shared
  <2>2. x = p \/ (~Friendly(x, g) /\ \E v \in Neighbors[u] : x = o[v])
    BY <1>5, <2>1 DEF Heirs
  <2>3. Neighbors[u] \subseteq Tiles
    BY <1>5, WarfareAssumption
  <2>4. x = p \/ (~Friendly(x, g) /\ \E v \in Tiles : own[v] = x)
    BY <1>3, <2>2, <2>3 DEF Shared
  <2> QED
    BY <1>3, <1>4, <2>1, <2>4 DEF Shared
<1>6. CASE ~(u \in Tiles /\ o[u] = g /\ x # g)
  <2>1. u \in Tiles => x = o[u]
    BY <1>2, <1>6
  <2>2. \A v \in Tiles : new[v] = o[v]
    BY <1>4, <2>1
  <2> QED
    BY <1>3, <1>4, <2>2 DEF Shared
<1> QED
  BY <1>5, <1>6

\* The maps that n turns may lead to.
Course(m, own, w, p, g, a) ==
    a = [i \in 0 .. m |-> IF i = 0 THEN {own}
                          ELSE Inherited(a[i - 1], w[1 + ((i - 1) % Cardinality(DOMAIN w))], p, g)]
LEMMA CourseExists ==
    ASSUME NEW own, NEW w, NEW p, NEW g, NEW m \in Nat
    PROVE  \E a : Course(m, own, w, p, g, a)
<1> DEFINE next(M, i) == Inherited(M, w[1 + ((i - 1) % Cardinality(DOMAIN w))], p, g)
           R == {n \in Nat : \E a : Course(n, own, w, p, g, a)}
<1>1. 0 \in R
  <2> DEFINE a == [i \in 0 .. 0 |-> {own}]
  <2>1. Course(0, own, w, p, g, a)
    BY DEF Course
  <2> QED
    BY <2>1
<1>2. ASSUME NEW n \in R PROVE n + 1 \in R
  <2>1. PICK a : Course(n, own, w, p, g, a)
    OBVIOUS
  <2> DEFINE b == [i \in 0 .. n + 1 |-> IF i = n + 1 THEN next(a[n], n + 1) ELSE a[i]]
  <2>2. n \in Nat /\ \A i \in 0 .. n : a[i] = IF i = 0 THEN {own} ELSE next(a[i - 1], i)
    BY <2>1 DEF Course
  <2> HIDE DEF next
  <2>3. \A i \in 0 .. n : b[i] = a[i]
    BY <2>2
  <2>4. b[n + 1] = next(b[(n + 1) - 1], n + 1)
    BY <2>2, <2>3
  <2>5. \A i \in 0 .. n + 1 : b[i] = IF i = 0 THEN {own} ELSE next(b[i - 1], i)
    <3> TAKE i \in 0 .. n + 1
    <3>1. CASE i = n + 1
      BY <2>2, <2>4, <3>1
    <3>2. CASE i # n + 1
      <4>1. i \in 0 .. n /\ (i # 0 => i - 1 \in 0 .. n)
        BY <2>2, <3>2
      <4> HIDE DEF b
      <4> QED
        BY <2>2, <2>3, <4>1
    <3> QED
      BY <3>1, <3>2
  <2>6. b = [i \in 0 .. n + 1 |-> b[i]]
    OBVIOUS
  <2> HIDE DEF b
  <2>7. b = [i \in 0 .. n + 1 |-> IF i = 0 THEN {own} ELSE next(b[i - 1], i)]
    BY <2>5, <2>6
  <2>8. Course(n + 1, own, w, p, g, b)
    BY <2>7 DEF Course, next
  <2> QED
    BY <2>2, <2>8
<1>3. R = Nat
  <2> HIDE DEF R
  <2>1. R \in SUBSET Nat
    BY DEF R
  <2> QED
    BY <1>1, <1>2, <2>1, SetInduction
<1> QED
  BY <1>3

\* However often and in whatever order the land of g is gone through.
LEMMA LegaciesAreShared ==
    ASSUME NEW own, own = [u \in Tiles |-> own[u]], NEW p, NEW g, NEW S \in SUBSET Tiles,
           NEW w \in Ways(S), NEW new \in Legacies(own, w, p, g)
    PROVE  Shared(new, own, p, g)
<1> DEFINE n == Cardinality(DOMAIN w)
           m == Passes * n
           after == CHOOSE a : Course(m, own, w, p, g, a)
<1>1. m \in Nat
  <2>1. IsFiniteSet(S)
    BY WarfareAssumption, FS_Subset
  <2>2. Cardinality(S) \in Nat /\ DOMAIN w = 1 .. Cardinality(S)
    BY <2>1, FS_CardinalityType DEF Ways
  <2>3. IsFiniteSet(1 .. Cardinality(S))
    BY <2>2, FS_Interval
  <2>4. n \in Nat
    BY <2>2, <2>3, FS_CardinalityType
  <2>5. Passes \in Nat
    BY WarfareAssumption
  <2> HIDE DEF n
  <2> QED
    BY <2>4, <2>5
<1>2. Course(m, own, w, p, g, after)
  <2> HIDE DEF m
  <2> QED
    BY <1>1, CourseExists
<1>3. Legacies(own, w, p, g) = after[m]
  BY DEF Legacies, Course
<1> HIDE DEF m, after
<1>4. \A i \in 0 .. m : after[i] = IF i = 0 THEN {own} ELSE Inherited(after[i - 1], w[1 + ((i - 1) % n)], p, g)
  BY <1>1, <1>2 DEF Course
<1> HIDE DEF n
<1> DEFINE R == {i \in Nat : i <= m => \A o \in after[i] : Shared(o, own, p, g)}
<1>5. 0 \in R
  <2>1. after[0] = {own}
    <3>1. 0 \in 0 .. m
      BY <1>1
    <3> QED
      BY <1>4, <3>1
  <2>2. Shared(own, own, p, g)
    BY DEF Shared
  <2> QED
    BY <2>1, <2>2
<1>6. ASSUME NEW i \in R PROVE i + 1 \in R
  <2>1. CASE i + 1 <= m
    <3>1. i + 1 \in 0 .. m /\ i + 1 # 0 /\ (i + 1) - 1 = i /\ \A o \in after[i] : Shared(o, own, p, g)
      BY <1>1, <2>1
    <3>2. PICK u : after[i + 1] = Inherited(after[i], u, p, g)
      BY <1>4, <3>1
    <3>3. \A o \in after[i + 1] : Shared(o, own, p, g)
      BY <3>1, <3>2, OneMoreShared
    <3> QED
      BY <3>3
  <2>2. CASE ~(i + 1 <= m)
    BY <2>2
  <2> QED
    BY <2>1, <2>2
<1>7. R = Nat
  <2> HIDE DEF R
  <2>1. R \in SUBSET Nat
    BY DEF R
  <2> QED
    BY <1>5, <1>6, <2>1, SetInduction
<1>8. m \in R
  BY <1>1, <1>7
<1> QED
  BY <1>1, <1>3, <1>8

LEMMA ConquestLives ==
    ASSUME LandInv, NEW p \in Players, Lives(p), NEW g, NEW t \in Tiles, ConquerTile(p, g, t)
    PROVE  /\ owner' = [u \in Tiles |-> owner'[u]] /\ unit' = [b \in Jobs |-> unit'[b]]
           /\ \A u \in Tiles : Lives(owner'[u])
           /\ \A b \in Jobs : Lives(unit'[b])
<1> DEFINE own == [owner EXCEPT ![t] = p]
           rest == {u \in Tiles : own[u] = g}
<1>1. own = [u \in Tiles |-> own[u]] /\ \A u \in Tiles : Lives(own[u])
  BY LandIsLived DEF LandInv
<1>2. unit = [b \in Jobs |-> unit[b]]
  BY DEF LandInv
<1>3. CASE owner' = own /\ unit' = unit
  BY <1>1, <1>2, <1>3, LandIsLived
<1>4. ASSUME unit' = Captured(p, g), NEW w \in Ways(rest), owner' \in Legacies(own, w, p, g)
      PROVE  /\ owner' = [u \in Tiles |-> owner'[u]] /\ unit' = [b \in Jobs |-> unit'[b]]
             /\ \A u \in Tiles : Lives(owner'[u])
             /\ \A b \in Jobs : Lives(unit'[b])
  <2>1. rest \in SUBSET Tiles
    OBVIOUS
  <2>2. Shared(owner', own, p, g)
    <3> HIDE DEF own, rest
    <3> QED
      BY <1>1, <1>4, <2>1, LegaciesAreShared
  <2> HIDE DEF own
  <2>3. owner' = [u \in Tiles |-> owner'[u]] /\ \A u \in Tiles : Lives(owner'[u])
    BY <1>1, <2>2 DEF Shared
  <2> QED
    BY <1>4, <2>3, CapturedLive
<1> QED
  BY <1>3, <1>4 DEF ConquerTile

\* Who captures a cluster holds land beside it.
LEMMA CaptorsLive ==
    ASSUME LandInv, NEW T, NEW p, NEW c \in Players, c \in Captors(T, p)
    PROVE  Lives(c)
<1>1. c \in Invaders(T, p)
  BY DEF Captors, Waves
<1>2. Has(c)
  BY <1>1 DEF Invaders, Rim, Has
<1> QED
  BY <1>2, LandIsLived

LEMMA AnnexationLives ==
    ASSUME LandInv, NEW p \in Players, Annex(p)
    PROVE  /\ owner' = [u \in Tiles |-> owner'[u]] /\ unit' = [b \in Jobs |-> unit'[b]]
           /\ \A u \in Tiles : Lives(owner'[u])
           /\ \A b \in Jobs : Lives(unit'[b])
<1>1. PICK S : AnnexAll(p, S)
  BY DEF Annex
<1>2. PICK captor \in [S -> Players] :
        /\ \A T \in S : captor[T] \in Captors(T, p)
        /\ owner' = [t \in Tiles |-> IF \E T \in S : t \in Behind(T, p)
                                     THEN captor[CHOOSE T \in S : t \in Behind(T, p)]
                                     ELSE owner[t]]
        /\ (\E T \in S : unit' = Captured(captor[T], p)) \/ unit' = unit
  BY <1>1 DEF AnnexAll
<1>3. \A T \in S : captor[T] \in Players /\ Lives(captor[T])
  BY <1>2, CaptorsLive
<1>4. ASSUME NEW t \in Tiles PROVE Lives(owner'[t])
  <2>1. CASE \E T \in S : t \in Behind(T, p)
    <3>1. (CHOOSE T \in S : t \in Behind(T, p)) \in S
      BY <2>1
    <3> QED
      BY <1>2, <1>3, <2>1, <3>1
  <2>2. CASE ~\E T \in S : t \in Behind(T, p)
    BY <1>2, <2>2, LandIsLived
  <2> QED
    BY <2>1, <2>2
<1>5. owner' = [u \in Tiles |-> owner'[u]]
  BY <1>2
<1>6. unit' = [b \in Jobs |-> unit'[b]] /\ \A b \in Jobs : Lives(unit'[b])
  BY <1>2, <1>3, CapturedLive, LandIsLived DEF LandInv
<1> QED
  BY <1>4, <1>5, <1>6

\* No execution but a PlayerExecution's last turn makes a PlayerExecution inactive.
LEMMA NobodyDies ==
    ASSUME LandInv, NEW j \in Jobs, Moved(j), j \notin Players
    PROVE  \A p \in Players : job'[p].active = job[p].active
  BY Numbers DEF Moved

LEMMA OthersAreNoPlayers ==
    ASSUME LandInv, NEW j \in Jobs, job[j].kind # "player"
    PROVE  j \notin Players
  BY DEF LandInv, ForcesInv, Listed

\* Turns that leave land and ships alone.
LEMMA IdleKeeps ==
    ASSUME LandInv, ForcesInv', NEW j \in Jobs, Moved(j), job[j].kind # "player" \/ job' = job,
           owner' = owner, unit' = unit, offline' \subseteq Players
    PROVE  LandInv'
  BY NobodyDies, OthersAreNoPlayers, SameLandKeeps

LEMMA OrdersLand == ASSUME LandInv, ForcesInv', Orders PROVE LandInv'
<1>1. owner' = owner /\ unit' = unit /\ offline' = offline
  BY DEF Orders, OrderAttack, OrderBoat, OrderGift, OrderRetreat, OrderRecall, Add
<1>2. \A p \in Players : job'[p].active = job[p].active
  BY OrdersListed, Numbers DEF LandInv, ForcesInv, Listed
<1> QED
  BY <1>1, <1>2, SameLandKeeps DEF LandInv

LEMMA EndTickLand == ASSUME LandInv, ForcesInv', EndTick PROVE LandInv'
<1>1. \A j \in Jobs : job'[j].active = job[j].active
  BY DEF EndTick, LandInv, ForcesInv, Listed, JobType
<1> QED
  BY <1>1, Numbers, SameLandKeeps DEF EndTick, LandInv

\* A player without land dies, and its ships with it.
LEMMA ReapLand == ASSUME LandInv, ForcesInv', NEW j \in Players, Reap(j) PROVE LandInv'
<1>1. job[j].owner = j /\ j \in Jobs
  BY Numbers DEF LandInv, ForcesInv, Listed
<1>2. /\ ~Has(j) /\ owner' = owner /\ offline' = offline
      /\ unit' = [b \in Jobs |-> IF unit[b] = j THEN Neutral ELSE unit[b]]
      /\ job' = Retired(j)
  BY <1>1 DEF Reap
<1>3. \A p \in Players \ {j} : job'[p] = job[p]
  BY <1>1, <1>2, Numbers, RetiredMoves DEF Moved, LandInv, ForcesInv
<1>4. unit' \in [Jobs -> Owners]
  BY <1>2, Numbers DEF LandInv
<1>5. ASSUME NEW p \in Players, ~job'[p].active
      PROVE  ~Has(p)' /\ \A b \in Jobs : unit'[b] # p
  <2>1. CASE p = j
    BY <1>2, <2>1, Numbers DEF Has
  <2>2. CASE p # j
    BY <1>2, <1>3, <1>5, <2>2, Numbers DEF LandInv, TheDeadStayDead, Has
  <2> QED
    BY <2>1, <2>2
<1> QED
  BY <1>2, <1>4, <1>5 DEF LandInv, TheDeadStayDead

LEMMA PlayerTurnLand == ASSUME LandInv, ForcesInv', NEW j \in Players, PlayerTurn(j) PROVE LandInv'
<1>1. job[j].owner = j
  BY DEF LandInv, ForcesInv, Listed
<1>2. job' = job /\ offline' = offline /\ (Annex(j) \/ (owner' = owner /\ unit' = unit))
  BY <1>1 DEF PlayerTurn
<1>3. CASE Annex(j)
  BY <1>2, <1>3, AnnexationLives, LivingKeep DEF LandInv
<1>4. CASE owner' = owner /\ unit' = unit
  BY <1>2, <1>4, SameLandKeeps DEF LandInv
<1> QED
  BY <1>2, <1>3, <1>4

\* Only a player with land beside the tile conquers it.
LEMMA ConquersLand ==
    ASSUME LandInv, ForcesInv', NEW j \in Jobs, NEW t, NEW again \in BOOLEAN,
           NEW twice \in BOOLEAN, AttackConquers(j, t, again, twice)
    PROVE  LandInv'
<1> DEFINE p == job[j].owner
<1>1. /\ t \in Tiles /\ p \in Players /\ job' = job /\ offline' = offline
      /\ ConquerTile(p, attack[j].target, t)
  BY DEF AttackConquers, AttackFights, AttackMarches, Due, LandInv, ForcesInv, Formed, Listed
<1>2. Has(p)
  <2>1. \E n \in Neighbors[t] : owner[n] = p
    BY DEF AttackConquers, Takeable, Borders
  <2> QED
    BY <1>1, <2>1, WarfareAssumption DEF Has
<1> QED
  BY <1>1, <1>2, LandIsLived, ConquestLives, LivingKeep DEF LandInv

LEMMA SailsLand ==
    ASSUME LandInv, ForcesInv', NEW j \in Jobs, NEW dst \in Tiles, BoatSails(j, dst)
    PROVE  LandInv'
<1> DEFINE p == job[j].owner
<1>1. /\ owner' = owner /\ offline' = offline /\ unit' = [unit EXCEPT ![j] = p]
      /\ job[j].kind = "boat" /\ ~BoatHopeless(p, boat[j].ref)
  BY DEF BoatSails, DueInit
<1>2. Has(p) /\ p \in Players
  <2>1. \E s \in Shore : owner[s] = p
    BY <1>1 DEF BoatHopeless, Harbours
  <2>2. Has(p)
    BY <2>1, WarfareAssumption DEF Has
  <2>3. p \in Players
    BY <1>1 DEF LandInv, ForcesInv, Listed
  <2> QED
    BY <2>2, <2>3
<1>3. Moved(j)
  BY StartsList, PlainIsListed DEF LandInv, ForcesInv
<1>4. /\ \A b \in Jobs : Lives(unit'[b]) /\ unit' = [i \in Jobs |-> unit'[i]]
      /\ \A u \in Tiles : Lives(owner'[u]) /\ owner' = [v \in Tiles |-> owner'[v]]
  BY <1>1, <1>2, LandIsLived DEF LandInv
<1> QED
  BY <1>1, <1>3, <1>4, NobodyDies, OthersAreNoPlayers, LivingKeep DEF LandInv

LEMMA LandsLand ==
    ASSUME LandInv, ForcesInv', NEW j \in Jobs, NEW dst \in Tiles, BoatLands(j, dst)
    PROVE  LandInv'
<1> DEFINE p == job[j].owner
<1>1. /\ owner' = [owner EXCEPT ![dst] = p] /\ unit' = Sunk(j) /\ offline' = offline
      /\ job[j].kind = "boat" /\ unit[j] = p
  BY DEF BoatLands, Due
<1>2. Lives(p)
  BY <1>1, LandIsLived
<1>3. ASSUME NEW i \in Players PROVE job'[i].active = job[i].active
  <2>1. Listed /\ j \notin Players
    BY <1>1, OthersAreNoPlayers DEF LandInv, ForcesInv
  <2>2. i \in Jobs \ {j} /\ job[i].stage # "unused"
    BY <2>1, Numbers DEF Listed
  <2>3. job'[i] = job[i]
    BY <2>1, <2>2, LandingIsListed
  <2> QED
    BY <2>3
<1>4. /\ \A b \in Jobs : Lives(unit'[b]) /\ unit' = [i \in Jobs |-> unit'[i]]
      /\ \A u \in Tiles : Lives(owner'[u]) /\ owner' = [v \in Tiles |-> owner'[v]]
  BY <1>1, <1>2, LandIsLived, Numbers DEF LandInv, Sunk, Lives
<1> QED
  BY <1>1, <1>3, <1>4, LivingKeep DEF LandInv

LEMMA HomelessLand ==
    ASSUME LandInv, ForcesInv', NEW j \in Jobs, BoatIsHomeless(j)
    PROVE  LandInv'
<1>1. /\ owner' = owner /\ unit' = Sunk(j) /\ offline' = offline /\ job[j].kind = "boat"
  BY DEF BoatIsHomeless, Due
<1>2. Moved(j)
  BY OtherTurnsList, PlainIsListed DEF LandInv, ForcesInv
<1>3. \A p \in Players : job'[p].active = job[p].active
  BY <1>1, <1>2, NobodyDies, OthersAreNoPlayers
<1>4. /\ \A b \in Jobs : Lives(unit'[b]) /\ unit' = [i \in Jobs |-> unit'[i]]
      /\ \A u \in Tiles : Lives(owner'[u]) /\ owner' = [v \in Tiles |-> owner'[v]]
  BY <1>1, LandIsLived, Numbers DEF LandInv, Sunk, Lives
<1> QED
  BY <1>1, <1>3, <1>4, LivingKeep DEF LandInv

LEMMA AttackLand ==
    ASSUME LandInv, ForcesInv', NEW j \in Jobs, job[j].kind = "attack", AttackJob(j)
    PROVE  LandInv'
<1>1. CASE \E t, again, twice : again \in BOOLEAN /\ twice \in BOOLEAN
                                 /\ AttackConquers(j, t, again, twice)
  BY <1>1, ConquersLand
<1>2. CASE AttackRefused(j) \/ AttackStarts(j)
  <2>1. Moved(j)
    BY <1>2, StartsList, PlainIsListed DEF LandInv, ForcesInv
  <2>2. owner' = owner /\ unit' = unit /\ offline' = offline
    BY <1>2 DEF AttackRefused, AttackStarts, world
  <2> QED
    BY <2>1, <2>2, IdleKeeps DEF LandInv
<1>3. ASSUME AttackTurn(j),
             ~\E t, again, twice : again \in BOOLEAN /\ twice \in BOOLEAN
                                   /\ AttackConquers(j, t, again, twice)
      PROVE  LandInv'
  <2>1. Moved(j)
    BY <1>3, AttackTurnList, PlainIsListed DEF LandInv, ForcesInv
  <2>2. owner' = owner /\ unit' = unit /\ offline' = offline
    BY <1>3 DEF AttackTurn, AttackRetreats, AttackIsGone, AttackWaits, AttackMeetsFriend,
                AttackIdles, AttackRunsOut, AttackRunsDry, AttackSkips, world
  <2> QED
    BY <2>1, <2>2, IdleKeeps DEF LandInv
<1> QED
  BY <1>1, <1>2, <1>3 DEF AttackJob

LEMMA BoatLand ==
    ASSUME LandInv, ForcesInv', NEW j \in Jobs, job[j].kind = "boat", BoatJob(j)
    PROVE  LandInv'
<1>1. ASSUME NEW dst \in Tiles, BoatSails(j, dst) \/ BoatLands(j, dst) PROVE LandInv'
  BY <1>1, SailsLand, LandsLand
<1>2. CASE BoatIsHomeless(j)
  BY <1>2, HomelessLand
<1>3. CASE BoatRefused(j) \/ BoatFindsNoPath(j) \/ BoatIsLost(j)
           \/ \E dst \in Tiles : BoatMoves(j, dst)
  <2>1. Moved(j)
    BY <1>3, StartsList, OtherTurnsList, PlainIsListed DEF LandInv, ForcesInv
  <2>2. owner' = owner /\ unit' = unit /\ offline' = offline
    BY <1>3 DEF BoatRefused, BoatFindsNoPath, BoatIsLost, BoatMoves, world
  <2> QED
    BY <2>1, <2>2, IdleKeeps DEF LandInv
<1> QED
  BY <1>1, <1>2, <1>3 DEF BoatJob

LEMMA InitLand == Init => LandInv
<1> SUFFICES ASSUME Init PROVE LandInv
  OBVIOUS
<1>1. ForcesInv
  BY InitForces
<1>2. \A p \in Players : job[p].active
  BY Numbers DEF Init
<1>3. owner \in [Tiles -> Owners] /\ unit \in [Jobs -> Owners] /\ offline \subseteq Players
  BY WarfareAssumption, Numbers DEF Init
<1> QED
  BY <1>1, <1>2, <1>3 DEF LandInv, TheDeadStayDead

LEMMA StepLand == LandInv /\ [Next]_vars => LandInv'
<1> SUFFICES ASSUME LandInv, [Next]_vars PROVE LandInv'
  OBVIOUS
<1>0. ForcesInv'
  BY StepForces DEF LandInv
<1>1. CASE Orders
  BY <1>0, <1>1, OrdersLand
<1>2. CASE DiplomacyTurn \/ StartTick \/ StartInits \/ UNCHANGED vars
  <2>1. job' = job /\ owner' = owner /\ unit' = unit
    BY <1>2 DEF DiplomacyTurn, Ally, Break, MarkDisconnected, Diplomatic, StartTick,
                StartInits, world, vars
  <2>2. offline' \subseteq Players
    BY <1>2 DEF DiplomacyTurn, Ally, Break, MarkDisconnected, StartTick, StartInits, vars, LandInv
  <2> QED
    BY <1>0, <2>1, <2>2, SameLandKeeps
<1>3. CASE EndTick
  BY <1>0, <1>3, EndTickLand
<1>4. ASSUME NEW j \in Players, PlayerJob(j) PROVE LandInv'
  BY <1>0, <1>4, ReapLand, PlayerTurnLand DEF PlayerJob
<1>5. ASSUME NEW j \in Jobs, job[j].kind = "attack", AttackJob(j) PROVE LandInv'
  BY <1>0, <1>5, AttackLand
<1>6. ASSUME NEW j \in Jobs, job[j].kind \in {"retreat", "recall"}, RetreatJob(j)
      PROVE  LandInv'
  <2>1. Moved(j)
    BY <1>6, StartsList, OtherTurnsList, PlainIsListed DEF RetreatJob, LandInv, ForcesInv
  <2>2. owner' = owner /\ unit' = unit /\ offline' = offline
    BY <1>6 DEF RetreatJob, RetreatStarts, RetreatTurn, RecallTurn, world
  <2> QED
    BY <1>0, <1>6, <2>1, <2>2, IdleKeeps DEF LandInv
<1>7. ASSUME NEW j \in Jobs, job[j].kind = "gift", GiftJob(j) PROVE LandInv'
  <2>1. Moved(j)
    BY <1>7, StartsList, OtherTurnsList, PlainIsListed DEF GiftJob, LandInv, ForcesInv
  <2>2. owner' = owner /\ unit' = unit /\ offline' = offline
    BY <1>7 DEF GiftJob, GiftStarts, GiftTurn, GiftRefused
  <2> QED
    BY <1>0, <1>7, <2>1, <2>2, IdleKeeps DEF LandInv
<1>8. ASSUME NEW j \in Jobs, job[j].kind = "boat", BoatJob(j) PROVE LandInv'
  BY <1>0, <1>8, BoatLand
<1> QED
  BY <1>1, <1>2, <1>3, <1>4, <1>5, <1>6, <1>7, <1>8 DEF Next, Tick

LEMMA Lands == Spec => []LandInv
  BY InitLand, StepLand, PTL DEF Spec

\* A player who has been reaped holds no tile and no ship ever again, on any map and
\* whatever attacks, landings, annexations and gifts were still on their way.
THEOREM TheDeadStayDeadHolds == Spec => []TheDeadStayDead
<1>1. LandInv => TheDeadStayDead
  BY DEF LandInv
<1> QED
  BY <1>1, Lands, PTL

-----------------------------------------------------------------------------
(* The ships, where no two players are of a team. *)

NoTeams == \A p, q \in Players : SameTeam(p, q) => p = q

\* A ship at sea is steered by the execution of its number, for its first owner.
Steered(b) == /\ job[b].kind = "boat" /\ job[b].active /\ job[b].owner = unit[b]
              /\ job[b].stage \in {"inited", "running"}
ShipInv == LandInv /\ \A b \in Jobs : unit[b] # Neutral => Steered(b)

\* Without teams nobody takes over the ships of another.
LEMMA NothingCaptured ==
    ASSUME NoTeams, LandInv, NEW c \in Players, NEW g
    PROVE  Captured(c, g) = unit
  BY DEF NoTeams, Captured, LandInv

LEMMA ConquestCapturesNothing ==
    ASSUME NoTeams, LandInv, NEW p \in Players, NEW g, NEW t, ConquerTile(p, g, t)
    PROVE  unit' = unit
  BY NothingCaptured DEF ConquerTile

LEMMA AnnexationCapturesNothing ==
    ASSUME NoTeams, LandInv, NEW p, Annex(p)
    PROVE  unit' = unit
<1>1. PICK S : AnnexAll(p, S)
  BY DEF Annex
<1>2. PICK captor \in [S -> Players] :
        (\E T \in S : unit' = Captured(captor[T], p)) \/ unit' = unit
  BY <1>1 DEF AnnexAll
<1> QED
  BY <1>2, NothingCaptured

\* A turn that moves job j and leaves or sinks ships, j's own if j ends.
LEMMA ShipsKeep ==
    ASSUME ShipInv, LandInv', NEW j \in Jobs,
           \A i \in Jobs \ {j} : job[i].stage # "unused" => job'[i] = job[i],
           \A b \in Jobs : unit'[b] \in {unit[b], Neutral},
           unit'[j] = Neutral \/ job' = job
    PROVE  ShipInv'
  BY DEF ShipInv, Steered

\* A turn of an execution that steers no ship.
LEMMA LandlubberKeeps ==
    ASSUME ShipInv, LandInv', NEW j \in Jobs, Moved(j),
           job[j].kind # "boat" \/ job' = job, unit' = unit
    PROVE  ShipInv'
  BY DEF ShipInv, Steered, Moved

LEMMA OrdersShips == ASSUME ShipInv, LandInv', Orders PROVE ShipInv'
<1>1. unit' = unit
  BY DEF Orders, OrderAttack, OrderBoat, OrderGift, OrderRetreat, OrderRecall, Add
<1>2. \A b \in Jobs : job[b].stage # "unused" => job'[b] = job[b]
  BY OrdersListed DEF ShipInv, LandInv, ForcesInv
<1> QED
  BY <1>1, <1>2 DEF ShipInv, Steered

LEMMA EndTickShips == ASSUME ShipInv, LandInv', EndTick PROVE ShipInv'
<1>1. unit' = unit
  BY DEF EndTick
<1>2. ASSUME NEW b \in Jobs, Steered(b) PROVE Steered(b)'
  BY <1>1, <1>2 DEF EndTick, ShipInv, LandInv, ForcesInv, Listed, JobType, Steered
<1> QED
  BY <1>1, <1>2 DEF ShipInv

LEMMA PlayerShips ==
    ASSUME NoTeams, ShipInv, LandInv', NEW j \in Players, PlayerJob(j)
    PROVE  ShipInv'
<1>1. j \in Jobs /\ job[j].kind = "player" /\ Moved(j)
  BY Numbers, OtherTurnsList, PlainIsListed DEF ShipInv, LandInv, ForcesInv, Listed
<1>2. \A b \in Jobs : unit'[b] \in {unit[b], Neutral}
  BY AnnexationCapturesNothing DEF PlayerJob, Reap, PlayerTurn, ShipInv
<1>3. \A i \in Jobs : unit[i] # Neutral => job'[i] = job[i]
  BY <1>1 DEF Moved, ShipInv, Steered
<1> QED
  BY <1>2, <1>3 DEF ShipInv, Steered

LEMMA AttackShips ==
    ASSUME NoTeams, ShipInv, LandInv', NEW j \in Jobs, job[j].kind = "attack", AttackJob(j)
    PROVE  ShipInv'
<1>1. Moved(j) /\ job[j].owner \in Players
  BY StartsList, AttackTurnList, PlainIsListed DEF AttackJob, ShipInv, LandInv, ForcesInv, Listed
<1>2. CASE \E t, again, twice : AttackConquers(j, t, again, twice)
  <2>1. PICK t, again, twice : AttackConquers(j, t, again, twice)
    BY <1>2
  <2>2. unit' = unit
    BY <1>1, <2>1, ConquestCapturesNothing DEF AttackConquers, ShipInv
  <2> QED
    BY <1>1, <2>2, LandlubberKeeps
<1>3. CASE ~\E t, again, twice : AttackConquers(j, t, again, twice)
  <2>1. unit' = unit
    BY <1>3 DEF AttackJob, AttackRefused, AttackStarts, AttackTurn, AttackRetreats, AttackIsGone,
                AttackWaits, AttackMeetsFriend, AttackIdles, AttackRunsOut, AttackRunsDry,
                AttackSkips, world
  <2> QED
    BY <1>1, <2>1, LandlubberKeeps
<1> QED
  BY <1>2, <1>3

\* A boat that has an owner sails, and one that ends has none.
LEMMA BoatShips ==
    ASSUME ShipInv, LandInv', NEW j \in Jobs, job[j].kind = "boat", BoatJob(j)
    PROVE  ShipInv'
<1>1. Listed /\ unit \in [Jobs -> Owners]
  BY DEF ShipInv, LandInv, ForcesInv
<1>2. CASE BoatRefused(j) \/ BoatFindsNoPath(j) \/ BoatIsLost(j)
  <2>1. Moved(j) /\ unit' = unit
    BY <1>1, <1>2, StartsList, OtherTurnsList, PlainIsListed
       DEF BoatRefused, BoatFindsNoPath, BoatIsLost, world
  <2>2. unit[j] = Neutral
    BY <1>2 DEF BoatRefused, BoatFindsNoPath, BoatIsLost, DueInit, ShipInv, Steered
  <2> QED
    BY <2>1, <2>2, ShipsKeep DEF Moved
<1>3. CASE BoatIsHomeless(j)
  <2>1. Moved(j) /\ unit' = Sunk(j)
    BY <1>1, <1>3, OtherTurnsList, PlainIsListed DEF BoatIsHomeless
  <2> QED
    BY <1>1, <2>1, ShipsKeep DEF Moved, Sunk
<1>4. ASSUME NEW dst \in Tiles, BoatMoves(j, dst) PROVE ShipInv'
  <2>1. job' = job /\ unit' = unit
    BY <1>4 DEF BoatMoves
  <2> QED
    BY <2>1 DEF ShipInv, Steered
<1>5. ASSUME NEW dst \in Tiles, BoatLands(j, dst) PROVE ShipInv'
  <2>1. unit' = Sunk(j)
    BY <1>5 DEF BoatLands
  <2>2. \A i \in Jobs \ {j} : job[i].stage # "unused" => job'[i] = job[i]
    BY <1>1, <1>5, LandingIsListed
  <2> QED
    BY <1>1, <2>1, <2>2, ShipsKeep DEF Sunk
<1>6. ASSUME NEW dst \in Tiles, BoatSails(j, dst) PROVE ShipInv'
  <2>1. unit' = [unit EXCEPT ![j] = job[j].owner] /\ job' = Inited(j, TRUE)
        /\ job[j].stage = "queued"
    BY <1>6 DEF BoatSails, DueInit
  <2>2. Moved(j) /\ job'[j].active = TRUE /\ job'[j].stage = "inited"
    BY <1>1, <2>1, InitedMoves
  <2>3. Steered(j)'
    BY <1>1, <2>1, <2>2 DEF Steered, Moved
  <2>4. \A b \in Jobs \ {j} : unit'[b] = unit[b] /\ job'[b] = job[b]
    BY <1>1, <2>1, <2>2 DEF Moved
  <2> QED
    BY <2>3, <2>4 DEF ShipInv, Steered
<1> QED
  BY <1>2, <1>3, <1>4, <1>5, <1>6 DEF BoatJob

LEMMA InitShips == Init => ShipInv
<1>1. Init => \A b \in Jobs : unit[b] = Neutral
  BY DEF Init
<1> QED
  BY <1>1, InitLand DEF ShipInv

LEMMA StepShips == ASSUME NoTeams PROVE ShipInv /\ [Next]_vars => ShipInv'
<1> SUFFICES ASSUME ShipInv, [Next]_vars PROVE ShipInv'
  OBVIOUS
<1>0. LandInv'
  BY StepLand DEF ShipInv
<1>1. CASE Orders
  BY <1>0, <1>1, OrdersShips
<1>2. CASE DiplomacyTurn \/ StartTick \/ StartInits \/ UNCHANGED vars
  <2>1. job' = job /\ unit' = unit
    BY <1>2 DEF DiplomacyTurn, Ally, Break, MarkDisconnected, Diplomatic, StartTick,
                StartInits, world, vars
  <2> QED
    BY <1>0, <2>1 DEF ShipInv, Steered
<1>3. CASE EndTick
  BY <1>0, <1>3, EndTickShips
<1>4. ASSUME NEW j \in Players, PlayerJob(j) PROVE ShipInv'
  BY <1>0, <1>4, PlayerShips
<1>5. ASSUME NEW j \in Jobs, job[j].kind = "attack", AttackJob(j) PROVE ShipInv'
  BY <1>0, <1>5, AttackShips
<1>6. ASSUME NEW j \in Jobs, job[j].kind \in {"retreat", "recall", "gift"},
             RetreatJob(j) \/ GiftJob(j)
      PROVE  ShipInv'
  <2>1. Moved(j)
    BY <1>6, StartsList, OtherTurnsList, PlainIsListed
       DEF RetreatJob, GiftJob, ShipInv, LandInv, ForcesInv
  <2>2. unit' = unit
    BY <1>6 DEF RetreatJob, RetreatStarts, RetreatTurn, RecallTurn, GiftJob, GiftStarts,
                GiftTurn, GiftRefused, world
  <2> QED
    BY <1>0, <1>6, <2>1, <2>2, LandlubberKeeps
<1>7. ASSUME NEW j \in Jobs, job[j].kind = "boat", BoatJob(j) PROVE ShipInv'
  BY <1>0, <1>7, BoatShips
<1> QED
  BY <1>1, <1>2, <1>3, <1>4, <1>5, <1>6, <1>7 DEF Next, Tick

\* In a game without teams every ship at sea belongs to the player whose execution
\* steers it, until it lands or is sunk.  (With teams the run WarTeam shows why not.)
THEOREM EveryBoatIsSteeredHolds == ASSUME NoTeams PROVE Spec => []EveryBoatIsSteered
<1>1. ShipInv => EveryBoatIsSteered
  BY DEF ShipInv, Steered, EveryBoatIsSteered
<1>2. ShipInv /\ [Next]_vars => ShipInv'
  BY StepShips
<1> QED
  BY <1>1, <1>2, InitShips, PTL DEF Spec

-----------------------------------------------------------------------------
(* Sums of troops: what Total computes. *)

\* The partial sums of f.
Partial(n, f, g) == g = [i \in 0 .. n |-> IF i = 0 THEN 0 ELSE g[i - 1] + f[i]]

LEMMA PartialSums ==
    ASSUME NEW f, NEW n \in Nat
    PROVE  \E g : Partial(n, f, g)
<1> DEFINE S == {m \in Nat : \E g : Partial(m, f, g)}
<1>1. 0 \in S
  <2> DEFINE g == [i \in 0 .. 0 |-> 0]
  <2>1. Partial(0, f, g)
    BY DEF Partial
  <2> QED
    BY <2>1
<1>2. ASSUME NEW m \in S PROVE m + 1 \in S
  <2>1. PICK g : Partial(m, f, g)
    OBVIOUS
  <2> DEFINE h == [i \in 0 .. m + 1 |-> IF i = m + 1 THEN g[m] + f[m + 1] ELSE g[i]]
  <2>2. m \in Nat /\ \A i \in 0 .. m : g[i] = IF i = 0 THEN 0 ELSE g[i - 1] + f[i]
    BY <2>1 DEF Partial
  <2>3. \A i \in 0 .. m : h[i] = g[i]
    BY <2>2
  <2>4. h[m + 1] = h[(m + 1) - 1] + f[m + 1]
    BY <2>2, <2>3
  <2>5. \A i \in 0 .. m + 1 : h[i] = IF i = 0 THEN 0 ELSE h[i - 1] + f[i]
    <3> TAKE i \in 0 .. m + 1
    <3>1. CASE i = m + 1
      BY <2>2, <2>4, <3>1
    <3>2. CASE i # m + 1
      <4>1. i \in 0 .. m /\ (i # 0 => i - 1 \in 0 .. m)
        BY <2>2, <3>2
      <4> HIDE DEF h
      <4> QED
        BY <2>2, <2>3, <4>1
    <3> QED
      BY <3>1, <3>2
  <2>6. h = [i \in 0 .. m + 1 |-> h[i]]
    OBVIOUS
  <2> HIDE DEF h
  <2>7. Partial(m + 1, f, h)
    BY <2>5, <2>6 DEF Partial
  <2> QED
    BY <2>2, <2>7
<1>3. S = Nat
  <2> HIDE DEF S
  <2>1. S \in SUBSET Nat
    BY DEF S
  <2> QED
    BY <1>1, <1>2, <2>1, SetInduction
<1> QED
  BY <1>3

\* Total adds up what comes before the last.
LEMMA TotalUnfolds ==
    ASSUME NEW f, NEW n \in Nat
    PROVE  \E g : Partial(n, f, g) /\ Total(n, f) = g[n]
<1> DEFINE upto == CHOOSE g : Partial(n, f, g)
<1>1. Partial(n, f, upto)
  BY PartialSums
<1>2. Total(n, f) = upto[n]
  BY DEF Total, Partial
<1> QED
  BY <1>1, <1>2

\* Two lists of numbers that are added up side by side.
LEMMA SumsTogether ==
    ASSUME NEW n \in Nat, NEW f \in [1 .. n -> Int]
    PROVE  /\ Total(n, f) \in Int
           /\ \A g \in [1 .. n -> Int] :
                 /\ (\A i \in 1 .. n : f[i] <= g[i]) => Total(n, f) <= Total(n, g)
                 /\ \A h \in [1 .. n -> Int] : (\A i \in 1 .. n : h[i] = f[i] + g[i])
                                               => Total(n, h) = Total(n, f) + Total(n, g)
<1>1. PICK F : Partial(n, f, F) /\ Total(n, f) = F[n]
  BY TotalUnfolds
<1>2. F[0] = 0 /\ \A i \in 1 .. n : F[i] = F[i - 1] + f[i]
  BY <1>1 DEF Partial
<1>3. Total(n, f) \in Int
  <2> DEFINE S == {m \in Nat : m <= n => F[m] \in Int}
  <2>1. 0 \in S
    BY <1>2
  <2>2. ASSUME NEW m \in S PROVE m + 1 \in S
    <3>1. CASE m + 1 <= n
      <4>1. m + 1 \in 1 .. n /\ (m + 1) - 1 = m /\ F[m] \in Int
        BY <3>1
      <4>2. F[m + 1] = F[m] + f[m + 1] /\ f[m + 1] \in Int
        BY <1>2, <4>1
      <4> QED
        BY <4>1, <4>2
    <3>2. CASE ~(m + 1 <= n)
      BY <3>2
    <3> QED
      BY <3>1, <3>2
  <2>3. S = Nat
    <3> HIDE DEF S
    <3>1. S \in SUBSET Nat
      BY DEF S
    <3> QED
      BY <2>1, <2>2, <3>1, SetInduction
  <2>4. n \in S
    BY <2>3
  <2> QED
    BY <1>1, <2>4
<1>4. ASSUME NEW g \in [1 .. n -> Int], \A i \in 1 .. n : f[i] <= g[i]
      PROVE  Total(n, f) <= Total(n, g)
  <2>1. PICK G : Partial(n, g, G) /\ Total(n, g) = G[n]
    BY TotalUnfolds
  <2>2. G[0] = 0 /\ \A i \in 1 .. n : G[i] = G[i - 1] + g[i]
    BY <2>1 DEF Partial
  <2> DEFINE S == {m \in Nat : m <= n => F[m] \in Int /\ G[m] \in Int /\ F[m] <= G[m]}
  <2>3. 0 \in S
    BY <1>2, <2>2
  <2>4. ASSUME NEW m \in S PROVE m + 1 \in S
    <3>1. CASE m + 1 <= n
      <4>1. m + 1 \in 1 .. n /\ (m + 1) - 1 = m /\ F[m] \in Int /\ G[m] \in Int /\ F[m] <= G[m]
        BY <3>1
      <4>2. /\ F[m + 1] = F[m] + f[m + 1] /\ f[m + 1] \in Int
            /\ G[m + 1] = G[m] + g[m + 1] /\ g[m + 1] \in Int /\ f[m + 1] <= g[m + 1]
        BY <1>2, <1>4, <2>2, <4>1
      <4> QED
        BY <4>1, <4>2
    <3>2. CASE ~(m + 1 <= n)
      BY <3>2
    <3> QED
      BY <3>1, <3>2
  <2>5. S = Nat
    <3> HIDE DEF S
    <3>1. S \in SUBSET Nat
      BY DEF S
    <3> QED
      BY <2>3, <2>4, <3>1, SetInduction
  <2>6. n \in S
    BY <2>5
  <2> QED
    BY <1>1, <2>1, <2>6
<1>5. ASSUME NEW g \in [1 .. n -> Int], NEW h \in [1 .. n -> Int],
             \A i \in 1 .. n : h[i] = f[i] + g[i]
      PROVE  Total(n, h) = Total(n, f) + Total(n, g)
  <2>1. PICK G : Partial(n, g, G) /\ Total(n, g) = G[n]
    BY TotalUnfolds
  <2>2. G[0] = 0 /\ \A i \in 1 .. n : G[i] = G[i - 1] + g[i]
    BY <2>1 DEF Partial
  <2>3. PICK H : Partial(n, h, H) /\ Total(n, h) = H[n]
    BY TotalUnfolds
  <2>4. H[0] = 0 /\ \A i \in 1 .. n : H[i] = H[i - 1] + h[i]
    BY <2>3 DEF Partial
  <2> DEFINE S == {m \in Nat : m <= n => F[m] \in Int /\ G[m] \in Int /\ H[m] = F[m] + G[m]}
  <2>5. 0 \in S
    BY <1>2, <2>2, <2>4
  <2>6. ASSUME NEW m \in S PROVE m + 1 \in S
    <3>1. CASE m + 1 <= n
      <4>1. m + 1 \in 1 .. n /\ (m + 1) - 1 = m /\ F[m] \in Int /\ G[m] \in Int
            /\ H[m] = F[m] + G[m]
        BY <3>1
      <4>2. /\ F[m + 1] = F[m] + f[m + 1] /\ f[m + 1] \in Int
            /\ G[m + 1] = G[m] + g[m + 1] /\ g[m + 1] \in Int
            /\ H[m + 1] = H[m] + h[m + 1] /\ h[m + 1] = f[m + 1] + g[m + 1]
        BY <1>2, <1>5, <2>2, <2>4, <4>1
      <4> QED
        BY <4>1, <4>2
    <3>2. CASE ~(m + 1 <= n)
      BY <3>2
    <3> QED
      BY <3>1, <3>2
  <2>7. S = Nat
    <3> HIDE DEF S
    <3>1. S \in SUBSET Nat
      BY DEF S
    <3> QED
      BY <2>5, <2>6, <3>1, SetInduction
  <2>8. n \in S
    BY <2>7
  <2> QED
    BY <1>1, <2>1, <2>3, <2>8
<1> QED
  BY <1>3, <1>4, <1>5

\* Zero everywhere but at k.
Point(n, k, v) == [i \in 1 .. n |-> IF i = k THEN v ELSE 0]

LEMMA TotalPoint ==
    ASSUME NEW n \in Nat, NEW k \in 1 .. n, NEW v \in Int
    PROVE  Total(n, Point(n, k, v)) = v
<1> DEFINE f == Point(n, k, v)
<1>1. PICK F : Partial(n, f, F) /\ Total(n, f) = F[n]
  BY TotalUnfolds
<1>2. \A i \in 1 .. n : f[i] = IF i = k THEN v ELSE 0
  BY DEF Point
<1> HIDE DEF f
<1>3. F[0] = 0 /\ \A i \in 1 .. n : F[i] = F[i - 1] + f[i]
  BY <1>1 DEF Partial
<1> DEFINE S == {m \in Nat : m <= n => F[m] = IF m < k THEN 0 ELSE v}
<1>4. 0 \in S
  BY <1>3
<1>5. ASSUME NEW m \in S PROVE m + 1 \in S
  <2>1. CASE m + 1 <= n
    <3>1. m + 1 \in 1 .. n /\ (m + 1) - 1 = m /\ (F[m] = IF m < k THEN 0 ELSE v)
      BY <2>1
    <3>2. F[m + 1] = F[m] + f[m + 1] /\ (f[m + 1] = IF m + 1 = k THEN v ELSE 0)
      BY <1>2, <1>3, <3>1
    <3> QED
      BY <3>1, <3>2
  <2>2. CASE ~(m + 1 <= n)
    BY <2>2
  <2> QED
    BY <2>1, <2>2
<1>6. S = Nat
  <2> HIDE DEF S
  <2>1. S \in SUBSET Nat
    BY DEF S
  <2> QED
    BY <1>4, <1>5, <2>1, SetInduction
<1>7. n \in S
  BY <1>6
<1> QED
  BY <1>1, <1>7 DEF f

\* What is not negative adds up to what is not negative.
LEMMA TotalNat ==
    ASSUME NEW n \in Nat, NEW f \in [1 .. n -> Nat]
    PROVE  Total(n, f) \in Nat
<1> DEFINE z == [i \in 1 .. n |-> 0]
<1>1. z \in [1 .. n -> Int] /\ f \in [1 .. n -> Int] /\ \A i \in 1 .. n : z[i] = 0 /\ f[i] \in Nat
  OBVIOUS
<1> HIDE DEF z
<1>2. \A i \in 1 .. n : z[i] = z[i] + z[i] /\ z[i] <= f[i]
  BY <1>1
<1>3. Total(n, z) \in Int /\ Total(n, z) = Total(n, z) + Total(n, z)
  BY <1>1, <1>2, SumsTogether
<1>4. Total(n, f) \in Int /\ Total(n, z) <= Total(n, f)
  BY <1>1, <1>2, SumsTogether
<1> QED
  BY <1>3, <1>4

\* One summand changes.
LEMMA TotalChanges ==
    ASSUME NEW n \in Nat, NEW f \in [1 .. n -> Int], NEW g \in [1 .. n -> Int],
           NEW k \in 1 .. n, \A i \in 1 .. n : i # k => g[i] = f[i]
    PROVE  Total(n, g) = Total(n, f) + (g[k] - f[k])
<1> DEFINE d == Point(n, k, g[k] - f[k])
<1>1. f[k] \in Int /\ g[k] \in Int /\ g[k] - f[k] \in Int
  OBVIOUS
<1>2. d \in [1 .. n -> Int] /\ \A i \in 1 .. n : d[i] = IF i = k THEN g[k] - f[k] ELSE 0
  BY <1>1 DEF Point
<1>3. Total(n, d) = g[k] - f[k]
  BY <1>1, TotalPoint
<1> HIDE DEF d
<1>4. ASSUME NEW i \in 1 .. n PROVE g[i] = f[i] + d[i]
  <2>1. f[i] \in Int /\ g[i] \in Int
    OBVIOUS
  <2>2. CASE i = k
    BY <1>2, <2>1, <2>2
  <2>3. CASE i # k
    <3>1. g[i] = f[i] /\ d[i] = 0
      BY <1>2, <2>3
    <3> QED
      BY <2>1, <3>1
  <2> QED
    BY <2>2, <2>3
<1>5. Total(n, g) = Total(n, f) + Total(n, d)
  BY <1>2, <1>4, SumsTogether
<1> QED
  BY <1>3, <1>5

-----------------------------------------------------------------------------
(* The troops of a set of attacks. *)

Manned == \A a \in Jobs : attack[a].troops \in Nat

\* What each attack adds to the sum over S.
Share(S) == [a \in Jobs |-> IF a \in S THEN attack[a].troops ELSE 0]

LEMMA ShareIsNat ==
    ASSUME Manned, NEW S
    PROVE  /\ Share(S) \in [1 .. MaxJobs -> Nat] /\ Share(S) \in [1 .. MaxJobs -> Int]
           /\ \A a \in 1 .. MaxJobs : Share(S)[a] = IF a \in S THEN attack[a].troops ELSE 0
           /\ MaxJobs \in Nat /\ SumTroops(S) = Total(MaxJobs, Share(S))
<1>1. SumTroops(S) = Total(MaxJobs, Share(S))
  BY DEF SumTroops, Share
<1>2. /\ Share(S) \in [1 .. MaxJobs -> Nat]
      /\ \A a \in 1 .. MaxJobs : Share(S)[a] = IF a \in S THEN attack[a].troops ELSE 0
  BY DEF Share, Manned, Jobs
<1>3. Share(S) \in [1 .. MaxJobs -> Int]
  BY <1>2
<1> QED
  BY <1>1, <1>2, <1>3, Numbers

LEMMA SumIsNat == ASSUME Manned, NEW S PROVE SumTroops(S) \in Nat
  BY ShareIsNat, TotalNat

\* The troops of more attacks are no fewer.
LEMMA SumGrows == ASSUME Manned, NEW S, NEW T, S \subseteq T PROVE SumTroops(S) <= SumTroops(T)
<1>1. \A a \in 1 .. MaxJobs : Share(S)[a] <= Share(T)[a]
  BY ShareIsNat DEF Manned, Jobs
<1> QED
  BY <1>1, ShareIsNat, SumsTogether

LEMMA SumOfNone == ASSUME Manned PROVE SumTroops({}) = 0
<1>1. \A a \in 1 .. MaxJobs : Share({})[a] = Share({})[a] + Share({})[a]
  BY ShareIsNat
<1>2. SumTroops({}) = SumTroops({}) + SumTroops({})
  BY <1>1, ShareIsNat, SumsTogether
<1> QED
  BY <1>2, SumIsNat

LEMMA SumOfOneMore ==
    ASSUME Manned, NEW S, NEW a \in Jobs, a \notin S
    PROVE  SumTroops(S \cup {a}) = SumTroops(S) + attack[a].troops
<1> DEFINE T == S \cup {a}
<1>1. \A i \in 1 .. MaxJobs : i # a => Share(T)[i] = Share(S)[i]
  BY ShareIsNat
<1>2. Share(T)[a] = attack[a].troops /\ Share(S)[a] = 0 /\ a \in 1 .. MaxJobs
  BY ShareIsNat DEF Jobs
<1>3. attack[a].troops \in Nat
  BY DEF Manned
<1> HIDE DEF T
<1>4. Total(MaxJobs, Share(T)) = Total(MaxJobs, Share(S)) + (Share(T)[a] - Share(S)[a])
  <2>1. /\ Share(S) \in [1 .. MaxJobs -> Int] /\ Share(T) \in [1 .. MaxJobs -> Int]
        /\ MaxJobs \in Nat
    BY ShareIsNat
  <2> QED
    BY <1>1, <1>2, <2>1, TotalChanges
<1>5. SumTroops(T) = SumTroops(S) + (attack[a].troops - 0)
  BY <1>2, <1>4, ShareIsNat
<1> QED
  BY <1>3, <1>5, SumIsNat DEF T

LEMMA SumOfUnion ==
    ASSUME Manned, NEW S, NEW T, S \cap T = {}
    PROVE  SumTroops(S \cup T) = SumTroops(S) + SumTroops(T)
<1>1. ASSUME NEW a \in 1 .. MaxJobs PROVE Share(S \cup T)[a] = Share(S)[a] + Share(T)[a]
  <2>1. attack[a].troops \in Nat
    BY DEF Manned, Jobs
  <2> QED
    BY <2>1, ShareIsNat
<1>2. /\ Share(S) \in [1 .. MaxJobs -> Int] /\ Share(T) \in [1 .. MaxJobs -> Int]
      /\ Share(S \cup T) \in [1 .. MaxJobs -> Int] /\ MaxJobs \in Nat
  BY ShareIsNat
<1>3. Total(MaxJobs, Share(S \cup T)) = Total(MaxJobs, Share(S)) + Total(MaxJobs, Share(T))
  BY <1>1, <1>2, SumsTogether
<1> QED
  BY <1>3, ShareIsNat

\* Every set of jobs that is not empty has a first and a last one.
LEMMA FirstJob ==
    ASSUME NEW S \in SUBSET Nat, S # {}
    PROVE  Min(S) \in S /\ \A b \in S : Min(S) <= b
<1> DEFINE below == {ss \in Nat \X Nat : ss[1] < ss[2]}
<1>1. IsWellFoundedOn(below, Nat)
  BY NatLessThanWellFounded, Zenon DEF OpToRel
<1>2. PICK m \in S : \A k \in S : ~(<<k, m>> \in below)
  <2> HIDE DEF below
  <2> QED
    BY <1>1, WFMin, Zenon
<1>3. ASSUME NEW k \in S PROVE m <= k
  <2>1. k \in Nat /\ m \in Nat
    OBVIOUS
  <2>2. ~(<<k, m>> \in below)
    BY <1>2
  <2>3. ~(k < m)
    BY <2>1, <2>2
  <2> QED
    BY <2>1, <2>3
<1> QED
  BY <1>3 DEF Min

LEMMA LastJob ==
    ASSUME NEW S \in SUBSET Jobs, S # {}
    PROVE  \E m \in S : \A b \in S : b <= m
<1> DEFINE gap == {i \in Nat : \E b \in S : i = MaxJobs - b}
<1>1. S \subseteq 1 .. MaxJobs /\ MaxJobs \in Nat
  BY Numbers DEF Jobs
<1>2. \A b \in S : MaxJobs - b \in gap
  BY <1>1
<1>3. gap \in SUBSET Nat /\ gap # {}
  BY <1>2
<1>4. Min(gap) \in gap /\ \A i \in gap : Min(gap) <= i
  <2> HIDE DEF gap
  <2> QED
    BY <1>3, FirstJob
<1>5. PICK m \in S : Min(gap) = MaxJobs - m
  BY <1>4
<1>6. ASSUME NEW b \in S PROVE b <= m
  <2>1. MaxJobs - m <= MaxJobs - b
    BY <1>2, <1>4, <1>5
  <2> QED
    BY <1>1, <2>1
<1> QED
  BY <1>6

\* Attacks none of which outweighs what the ones before it leave are beaten together.
LEMMA NoBlockerNoStop ==
    ASSUME Manned, NEW S \in SUBSET Jobs, NEW T \in SUBSET S, NEW n \in Nat,
           \A b \in S, a \in T : b < a => b \in T, T \cap Blockers(S, n) = {}
    PROVE  SumTroops(T) <= n
<1>1. CASE T = {}
  BY <1>1, SumOfNone
<1>2. CASE T # {}
  <2>1. PICK a \in T : \A b \in T : b <= a
    BY <1>2, LastJob
  <2>2. S \subseteq Nat
    BY Numbers DEF Jobs
  <2>3. T = Before(S, a) \cup {a} /\ a \notin Before(S, a) /\ a \in Jobs
    <3>1. a \in Nat /\ a \in S /\ a \in Jobs /\ ~(a < a)
      BY <2>2
    <3>2. ASSUME NEW b \in T PROVE b \in Before(S, a) \cup {a}
      <4>1. b \in S /\ b \in Nat /\ b <= a
        BY <2>1, <2>2
      <4> QED
        BY <3>1, <4>1 DEF Before
    <3>3. \A b \in Before(S, a) : b \in T
      BY DEF Before
    <3> QED
      BY <3>1, <3>2, <3>3 DEF Before
  <2>4. ~(SumTroops(Before(S, a)) + attack[a].troops > n)
    BY <2>1 DEF Blockers
  <2>5. SumTroops(T) = SumTroops(Before(S, a)) + attack[a].troops
    BY <2>3, SumOfOneMore
  <2> QED
    BY <2>4, <2>5, SumIsNat
<1> QED
  BY <1>1, <1>2

\* Without a blocker the force holds out against all of S; the first blocker stops it.
LEMMA FirstBlocker ==
    ASSUME Manned, NEW S \in SUBSET Jobs, NEW n \in Nat
    PROVE  /\ Blockers(S, n) = {} => SumTroops(S) <= n
           /\ Blockers(S, n) # {} =>
                 LET m == Min(Blockers(S, n)) IN
                 /\ m \in S /\ m \notin Before(S, m)
                 /\ SumTroops(Before(S, m)) <= n
                 /\ n - SumTroops(Before(S, m)) <= attack[m].troops
<1>1. CASE Blockers(S, n) = {}
  BY <1>1, NoBlockerNoStop
<1>2. CASE Blockers(S, n) # {}
  <2> DEFINE m == Min(Blockers(S, n))
  <2>1. S \subseteq Nat /\ Blockers(S, n) \subseteq S
    BY Numbers DEF Jobs, Blockers
  <2>2. m \in Blockers(S, n) /\ \A b \in Blockers(S, n) : m <= b
    BY <1>2, <2>1, FirstJob
  <2> HIDE DEF m
  <2>3. Before(S, m) \subseteq S /\ Before(S, m) \cap Blockers(S, n) = {}
        /\ \A b \in S, a \in Before(S, m) : b < a => b \in Before(S, m)
    <3>1. ASSUME NEW a \in Before(S, m) PROVE a \in S /\ a < m /\ a \in Nat /\ m \in Nat
      BY <2>1, <2>2 DEF Before
    <3>2. ASSUME NEW a \in Before(S, m) PROVE a \notin Blockers(S, n)
      BY <2>2, <3>1
    <3>3. ASSUME NEW b \in S, NEW a \in Before(S, m), b < a PROVE b \in Before(S, m)
      <4>1. b \in Nat /\ a \in Nat /\ m \in Nat /\ a < m
        BY <2>1, <3>1
      <4>2. b < m
        BY <3>3, <4>1
      <4> QED
        BY <4>2 DEF Before
    <3> QED
      BY <3>1, <3>2, <3>3
  <2>4. SumTroops(Before(S, m)) <= n
    BY <2>3, NoBlockerNoStop
  <2>5. SumTroops(Before(S, m)) + attack[m].troops > n /\ m \in S /\ m \in Jobs
    BY <2>2 DEF Blockers
  <2>6. attack[m].troops \in Nat /\ SumTroops(Before(S, m)) \in Nat
    BY <2>5, SumIsNat DEF Manned
  <2>7. n - SumTroops(Before(S, m)) <= attack[m].troops
    BY <2>5, <2>6
  <2>8. m \notin Before(S, m)
    BY <2>1, <2>5 DEF Before
  <2> QED
    BY <1>2, <2>4, <2>5, <2>7, <2>8 DEF m
<1> QED
  BY <1>1, <1>2

-----------------------------------------------------------------------------
(* Types. *)

\* An order of retreat or a gift that is still to be carried out has a countdown to
\* count down and a friend to go to.
Orderly ==
    \A j \in Jobs : job[j].active \/ job[j].stage = "queued" =>
                       /\ job[j].kind = "retreat" => order[j].left >= 1
                       /\ job[j].kind = "gift" => order[j].of \in Players

\* Where execute_next_tick is.
Clocked == /\ phase \in {"orders", "tick", "init"} /\ cursor \in 0 .. MaxJobs
           /\ looping \in BOOLEAN /\ diplomacy \in 0 .. MaxDiplomacy

Allied == ally \subseteq {{p, q} : p, q \in Players}

\* The part of the type invariant that LandInv does not hold yet.
Typed ==
    /\ troops \in [Players -> Nat] /\ attack \in [Jobs -> AttackType]
    /\ boat \in [Jobs -> BoatType] /\ order \in [Jobs -> OrderType]
    /\ Allied /\ Clocked /\ Orderly

WarInv == LandInv /\ Typed

LEMMA Bounds ==
    /\ CancelDelay \in Nat /\ CancelDelay > 0 /\ MaxTroops \in Nat /\ MaxDiplomacy \in Nat
    /\ MaxJobs \in Nat /\ Nowhere \in Tiles \cup {Nowhere} /\ Tiles \subseteq Tiles \cup {Nowhere}
    /\ Jobs \subseteq 0 .. MaxJobs /\ Players \subseteq 0 .. MaxJobs
  BY WarfareAssumption DEF Jobs, Players

LEMMA Blank == NoAttack \in AttackType /\ NoBoat \in BoatType /\ NoOrder \in OrderType
  BY Bounds, Numbers DEF NoAttack, AttackType, NoBoat, BoatType, NoOrder, OrderType

LEMMA MinOfTwo ==
    ASSUME NEW a \in Int, NEW b \in Int
    PROVE  Min({a, b}) \in {a, b} /\ Min({a, b}) <= a /\ Min({a, b}) <= b
<1>1. \E x \in {a, b} : \A y \in {a, b} : x <= y
  BY SMT
<1>2. /\ Min({a, b}) \in {a, b} /\ \A y \in {a, b} : Min({a, b}) <= y
  BY <1>1 DEF Min
<1> QED
  BY <1>2

LEMMA MinusIsNat == ASSUME NEW a \in Nat, NEW b \in Nat PROVE Minus(a, b) \in Nat /\ Minus(a, b) <= a
  BY DEF Minus

LEMMA ThreeQuarters == ASSUME NEW n \in Nat PROVE (3 * n) \div 4 \in Nat /\ (3 * n) \div 4 <= n
  OBVIOUS

\* What n troops are in parts, and the whole troops in n parts.
Worth(n) == Parts * n
LEMMA PartsArePositive == Parts \in Nat /\ Parts > 0
  BY WarfareAssumption
LEMMA Multiples ==
    ASSUME NEW c \in Nat, c > 0, NEW a \in Int, NEW b \in Int
    PROVE  /\ c * a \in Int /\ c * b \in Int /\ (a \in Nat => c * a \in Nat)
           /\ c * (a + b) = c * a + c * b /\ c * (0 - a) = 0 - c * a
           /\ (a <= b <=> c * a <= c * b)
  OBVIOUS
LEMMA WorthOf ==
    ASSUME NEW a \in Int, NEW b \in Int
    PROVE  /\ Worth(a) \in Int /\ Worth(b) \in Int /\ (a \in Nat => Worth(a) \in Nat)
           /\ Worth(a + b) = Worth(a) + Worth(b) /\ Worth(0 - a) = 0 - Worth(a)
           /\ (a <= b <=> Worth(a) <= Worth(b))
  BY PartsArePositive, Multiples DEF Worth
LEMMA Division ==
    ASSUME NEW n \in Nat, NEW c \in Nat, c > 0
    PROVE  n \div c \in Nat /\ c * (n \div c) <= n /\ n < c * (n \div c) + c
  OBVIOUS
LEMMA WholeIsNat ==
    ASSUME NEW n \in Nat
    PROVE  Whole(n) \in Nat /\ Worth(Whole(n)) <= n /\ n < Worth(Whole(n)) + Parts
  BY PartsArePositive, Division DEF Worth, Whole
LEMMA WholeAtMost ==
    ASSUME NEW n \in Nat, NEW m \in Nat, n <= Worth(m)
    PROVE  Whole(n) <= m
<1> DEFINE w == Whole(n)
<1>1. w \in Nat /\ Worth(w) <= n
  BY WholeIsNat
<1> HIDE DEF w
<1>2. w \in Int /\ m \in Int
  BY <1>1
<1>3. Worth(w) \in Int /\ Worth(m) \in Int /\ (w <= m <=> Worth(w) <= Worth(m))
  BY <1>2, WorthOf
<1> QED
  BY <1>1, <1>3 DEF w

\* The type invariant follows.
LEMMA WarIsTyped == WarInv => TypeOK
<1> SUFFICES ASSUME WarInv PROVE TypeOK
  OBVIOUS
<1>1. outgoing \in [Players -> SUBSET Jobs] /\ incoming \in [Players -> SUBSET Jobs]
  <2>1. /\ outgoing = [p \in Players |-> outgoing[p]] /\ incoming = [p \in Players |-> incoming[p]]
        /\ \A p \in Players : outgoing[p] \in SUBSET Jobs /\ incoming[p] \in SUBSET Jobs
    BY DEF WarInv, LandInv, ForcesInv, Formed, RegistriesAreExact
  <2> QED
    BY <2>1
<1>2. /\ owner \in [Tiles -> Owners] /\ unit \in [Jobs -> Owners] /\ offline \subseteq Players
      /\ job \in [Jobs -> JobType]
  BY DEF WarInv, LandInv, ForcesInv, Listed
<1> QED
  BY <1>1, <1>2 DEF WarInv, Typed, Allied, Clocked, TypeOK

LEMMA WarIsManned == WarInv => Manned
  BY DEF WarInv, Typed, Manned, AttackType

\* The owner of an execution that is due.
LEMMA OwnerIsPlayer ==
    ASSUME WarInv, NEW j \in Jobs, job[j].kind # "none"
    PROVE  job[j].owner \in Players
  BY DEF WarInv, LandInv, ForcesInv, Listed

LEMMA TurnIsClocked ==
    ASSUME Clocked, NEW j \in Jobs, EndTurn(j) \/ EndInit
    PROVE  Clocked'
  BY Bounds DEF Clocked, EndTurn, EndInit

\* What is left to carry out was there before.
LEMMA OrdersStay ==
    ASSUME Orderly, Listed, NEW j \in Jobs, Stays(j) \/ Leaves(j) \/ Enters(j), order' = order
    PROVE  Orderly'
<1>1. ASSUME NEW i \in Jobs, job'[i].active \/ job'[i].stage = "queued"
      PROVE  (job[i].active \/ job[i].stage = "queued") /\ job'[i].kind = job[i].kind
  BY <1>1, RetiredMoves, InitedMoves DEF Stays, Leaves, Enters, Moved
<1> QED
  BY <1>1 DEF Orderly

-----------------------------------------------------------------------------
\* A new execution gets a clean record.
LEMMA OrdersTyped == ASSUME WarInv, Orders PROVE Typed'
<1> DEFINE k == NextJob
<1>1. /\ troops' = troops /\ ally' = ally /\ UNCHANGED <<phase, cursor, looping, diplomacy>>
  BY DEF Orders, OrderAttack, OrderBoat, OrderGift, OrderRetreat, OrderRecall, Add
<1>2. Allied' /\ Clocked' /\ troops' \in [Players -> Nat]
  BY <1>1 DEF WarInv, Typed, Allied, Clocked
<1>3. ASSUME NEW kind \in Kinds, NEW p \in Players, NEW n \in {1, 2}, Add(kind, p, n)
      PROVE  k \in Jobs /\ job'[k].kind = kind /\ \A i \in Jobs \ {k} : job'[i] = job[i]
  BY <1>3, AddIsListed, NewJobType DEF WarInv, LandInv, ForcesInv, Listed
<1>4. /\ attack \in [Jobs -> AttackType] /\ boat \in [Jobs -> BoatType]
      /\ order \in [Jobs -> OrderType] /\ Orderly
  BY DEF WarInv, Typed
<1>5. ASSUME NEW kind \in Kinds, NEW p \in Players, NEW n \in {1, 2}, Add(kind, p, n),
             kind \notin {"retreat", "gift"}, order' = order
      PROVE  Orderly'
  BY <1>3, <1>4, <1>5 DEF Orderly
<1> HIDE DEF k
<1>6. ASSUME NEW o \in AttackOrders, OrderAttack(o[1], o[2], o[3])
      PROVE  Typed'
  <2>1. o[1] \in Players /\ o[2] \in Owners /\ o[3] \in Nat /\ "attack" \in Kinds
    BY WarfareAssumption DEF Kinds
  <2>2. /\ Add("attack", o[1], 1) /\ boat' = boat /\ order' = order
        /\ attack' = [attack EXCEPT ![k] = [NoAttack EXCEPT !.target = o[2], !.troops = o[3],
                                                            !.live = TRUE]]
    BY <1>6 DEF OrderAttack, k
  <2>3. [NoAttack EXCEPT !.target = o[2], !.troops = o[3], !.live = TRUE] \in AttackType
    BY <2>1, Blank DEF AttackType
  <2>4. attack' \in [Jobs -> AttackType]
    BY <1>4, <2>2, <2>3
  <2>5. Orderly'
    BY <1>5, <2>1, <2>2
  <2> QED
    BY <1>2, <1>4, <2>2, <2>4, <2>5 DEF Typed
<1>7. ASSUME NEW o \in BoatOrders, OrderBoat(o[1], o[2], o[3])
      PROVE  Typed'
  <2>1. o[1] \in Players /\ o[2] \in Tiles /\ o[3] \in Nat /\ "boat" \in Kinds
    BY WarfareAssumption DEF Kinds
  <2>2. /\ Add("boat", o[1], 2) /\ attack' = attack /\ order' = order
        /\ boat' = [boat EXCEPT ![k] = [NoBoat EXCEPT !.ref = o[2], !.troops = o[3]]]
    BY <1>7 DEF OrderBoat, k
  <2>3. [NoBoat EXCEPT !.ref = o[2], !.troops = o[3]] \in BoatType
    BY <2>1, Blank DEF BoatType
  <2>4. boat' \in [Jobs -> BoatType]
    BY <1>4, <2>2, <2>3
  <2>5. Orderly'
    BY <1>5, <2>1, <2>2
  <2> QED
    BY <1>2, <1>4, <2>2, <2>4, <2>5 DEF Typed
<1>8. ASSUME NEW kind \in Kinds, NEW p \in Players, Add(kind, p, 1), NEW r \in OrderType,
             order' = [order EXCEPT ![k] = r], attack' = attack, boat' = boat,
             kind = "retreat" => r.left >= 1, kind = "gift" => r.of \in Players
      PROVE  Typed'
  <2>1. k \in Jobs /\ job'[k].kind = kind /\ \A i \in Jobs \ {k} : job'[i] = job[i]
    BY <1>3, <1>8
  <2>2. order' \in [Jobs -> OrderType] /\ order'[k] = r
        /\ \A i \in Jobs \ {k} : order'[i] = order[i]
    BY <1>4, <1>8, <2>1
  <2>3. Orderly'
    BY <1>4, <1>8, <2>1, <2>2 DEF Orderly
  <2> QED
    BY <1>2, <1>4, <1>8, <2>2, <2>3 DEF Typed
<1>9. ASSUME NEW o \in GiftOrders, OrderGift(o[1], o[2], o[3])
      PROVE  Typed'
  <2> DEFINE r == [NoOrder EXCEPT !.of = o[2], !.troops = o[3]]
  <2>1. o[1] \in Players /\ o[2] \in Players /\ o[3] \in Nat /\ "gift" \in Kinds
    BY WarfareAssumption DEF Kinds
  <2>2. r \in OrderType /\ r.of = o[2]
    BY <2>1, Blank, Bounds DEF OrderType, NoOrder
  <2>3. /\ Add("gift", o[1], 1) /\ attack' = attack /\ boat' = boat
        /\ order' = [order EXCEPT ![k] = r]
    BY <1>9 DEF OrderGift, k
  <2> HIDE DEF r
  <2> QED
    BY <1>8, <2>1, <2>2, <2>3
<1>10. ASSUME NEW p \in Players, NEW a \in Jobs, OrderRetreat(p, a)
      PROVE  Typed'
  <2> DEFINE r == [NoOrder EXCEPT !.of = a, !.left = CancelDelay]
  <2>1. r \in OrderType /\ r.left >= 1
    <3>1. CancelDelay \in 0 .. CancelDelay /\ CancelDelay >= 1 /\ a \in 0 .. MaxJobs
          /\ 0 \in Nat
      BY Bounds
    <3>2. r \in OrderType
      BY <3>1, Blank DEF OrderType
    <3>3. r.left = CancelDelay
      BY Blank DEF OrderType
    <3> QED
      BY <3>1, <3>2, <3>3
  <2>0. "retreat" \in Kinds
    BY DEF Kinds
  <2>2. /\ Add("retreat", p, 1) /\ attack' = attack /\ boat' = boat
        /\ order' = [order EXCEPT ![k] = r]
    BY <1>10 DEF OrderRetreat, k
  <2> HIDE DEF r
  <2> QED
    BY <1>8, <2>0, <2>1, <2>2
<1>11. ASSUME NEW p \in Players, NEW a \in Jobs, OrderRecall(p, a)
      PROVE  Typed'
  <2> DEFINE r == [NoOrder EXCEPT !.of = a]
  <2>1. r \in OrderType
    BY Blank, Bounds DEF OrderType, NoOrder
  <2>0. "recall" \in Kinds
    BY DEF Kinds
  <2>2. /\ Add("recall", p, 1) /\ attack' = attack /\ boat' = boat
        /\ order' = [order EXCEPT ![k] = r]
    BY <1>11 DEF OrderRecall, k
  <2> HIDE DEF r
  <2> QED
    BY <1>8, <2>0, <2>1, <2>2
<1> QED
  BY <1>6, <1>7, <1>9, <1>10, <1>11 DEF Orders

LEMMA EndTickTyped == ASSUME WarInv, EndTick PROVE Typed'
<1> DEFINE dropped == {j \in Jobs : job[j].stage = "running" /\ ~job[j].active}
<1>1. /\ attack \in [Jobs -> AttackType] /\ boat \in [Jobs -> BoatType]
      /\ order \in [Jobs -> OrderType] /\ Orderly /\ job \in [Jobs -> JobType]
  BY DEF WarInv, Typed, LandInv, ForcesInv, Listed
<1>2. /\ attack' = [j \in Jobs |-> IF j \in dropped THEN NoAttack ELSE attack[j]]
      /\ boat' = [j \in Jobs |-> IF j \in dropped THEN NoBoat ELSE boat[j]]
      /\ order' = [j \in Jobs |-> IF j \in dropped THEN NoOrder ELSE order[j]]
      /\ troops' = troops /\ ally' = ally /\ phase' = "orders"
      /\ UNCHANGED <<cursor, looping, diplomacy>>
  BY DEF EndTick
<1>3. ASSUME NEW i \in Jobs, job'[i].active \/ job'[i].stage = "queued"
      PROVE  i \notin dropped /\ job'[i].kind = job[i].kind
             /\ (job[i].active \/ job[i].stage = "queued")
  BY <1>1, <1>3 DEF EndTick, JobType
<1> HIDE DEF dropped
<1>4. /\ attack' \in [Jobs -> AttackType] /\ boat' \in [Jobs -> BoatType]
      /\ order' \in [Jobs -> OrderType]
  BY <1>1, <1>2, Blank
<1>5. Orderly'
  BY <1>1, <1>2, <1>3 DEF Orderly
<1>6. Allied' /\ Clocked' /\ troops' \in [Players -> Nat]
  BY <1>2 DEF WarInv, Typed, Allied, Clocked
<1> QED
  BY <1>4, <1>5, <1>6 DEF Typed

LEMMA DiplomacyTyped == ASSUME WarInv, DiplomacyTurn PROVE Typed'
<1>1. /\ UNCHANGED <<world, job, phase, cursor, looping>>
      /\ diplomacy < MaxDiplomacy /\ diplomacy' = diplomacy + 1
  BY DEF DiplomacyTurn, Ally, Break, MarkDisconnected, Diplomatic
<1>2. Allied'
  <2>1. Allied
    BY DEF WarInv, Typed
  <2>2. ASSUME NEW p \in Players, NEW q \in Players, Ally(p, q) \/ Break(p, q) PROVE Allied'
    <3>1. {p, q} \in {{x, y} : x, y \in Players}
      OBVIOUS
    <3> QED
      BY <2>1, <2>2, <3>1 DEF Ally, Break, Allied
  <2>3. ASSUME NEW p \in Players, MarkDisconnected(p) PROVE Allied'
    BY <2>1, <2>3 DEF MarkDisconnected, Allied
  <2> QED
    BY <2>2, <2>3 DEF DiplomacyTurn
<1>3. Clocked'
  BY <1>1, Bounds DEF WarInv, Typed, Clocked
<1> QED
  BY <1>1, <1>2, <1>3 DEF WarInv, Typed, Orderly, world

LEMMA ClockTyped == ASSUME WarInv, StartTick \/ StartInits \/ UNCHANGED vars PROVE Typed'
<1>1. /\ UNCHANGED <<world, ally, job, looping, diplomacy>>
      /\ phase' \in {phase, "tick", "init"} /\ cursor' \in {cursor, 0}
  BY DEF StartTick, StartInits, vars, world
<1>2. Clocked'
  BY <1>1, Bounds DEF WarInv, Typed, Clocked
<1> QED
  BY <1>1, <1>2 DEF WarInv, Typed, Allied, Orderly, world

LEMMA PlayerTyped == ASSUME WarInv, NEW j \in Players, PlayerJob(j) PROVE Typed'
<1>1. j \in Jobs /\ job[j].owner = j /\ Listed
  BY Numbers DEF WarInv, LandInv, ForcesInv, Listed
<1>2. Stays(j) \/ Leaves(j)
  BY <1>1, OtherTurnsList
<1>3. /\ UNCHANGED <<attack, boat, order>> /\ ally' \subseteq ally /\ EndTurn(j)
      /\ Typed
  BY DEF PlayerJob, Reap, PlayerTurn, WarInv
<1>4. Clocked' /\ Orderly' /\ Allied'
  BY <1>1, <1>2, <1>3, TurnIsClocked, OrdersStay DEF Typed, Allied
<1>5. troops' \in [Players -> Nat]
  <2>1. CASE Reap(j)
    BY <1>3, <2>1 DEF Reap, Typed
  <2>2. CASE PlayerTurn(j)
    <3> DEFINE v == troops[j]
    <3>1. PICK n \in Incomes : troops' = [troops EXCEPT ![j] =
                IF n < 0 THEN Minus(@, -n)
                ELSE IF @ < MaxTroops THEN Min({@ + n, MaxTroops}) ELSE @]
      BY <1>1, <2>2 DEF PlayerTurn
    <3>2. n \in Int /\ v \in Nat /\ troops \in [Players -> Nat]
      BY <1>3, WarfareAssumption DEF Typed
    <3>3. n < 0 => Minus(v, -n) \in Nat
      BY <3>2, MinusIsNat
    <3>4. ~(n < 0) => Min({v + n, MaxTroops}) \in Nat
      <4>1. v + n \in Int /\ MaxTroops \in Int
        BY <3>2, Bounds
      <4>2. Min({v + n, MaxTroops}) \in {v + n, MaxTroops}
        BY <4>1, MinOfTwo
      <4> QED
        BY <3>2, <4>2, Bounds
    <3> QED
      BY <3>1, <3>2, <3>3, <3>4
  <2> QED
    BY <2>1, <2>2 DEF PlayerJob
<1> QED
  BY <1>3, <1>4, <1>5 DEF Typed

-----------------------------------------------------------------------------
\* The troops of an attack that sets out.
LEMMA MusterIsNat ==
    ASSUME WarInv, NEW j \in Jobs, DueInit(j, "attack")
    PROVE  /\ Muster(j) \in Nat /\ job[j].owner \in Players
           /\ Whole(Muster(j)) \in Nat
           /\ ~Landed(j) => Whole(Muster(j)) <= troops[job[j].owner]
           /\ Landed(j) => Muster(j) = attack[j].troops
<1> DEFINE n == troops[job[j].owner]
<1>1. attack[j].troops \in Nat /\ job[j].owner \in Players /\ n \in Nat
  BY WarIsManned, OwnerIsPlayer DEF Manned, DueInit, WarInv, Typed
<1>2. Muster(j) = IF Landed(j) \/ attack[j].troops <= Worth(n) THEN attack[j].troops ELSE Worth(n)
  BY DEF Muster, Worth
<1> HIDE DEF n
<1>3. Worth(n) \in Nat
  <2>1. n \in Int
    BY <1>1
  <2> QED
    BY <1>1, <2>1, WorthOf
<1>4. /\ Muster(j) \in Nat /\ (Landed(j) => Muster(j) = attack[j].troops)
      /\ ~Landed(j) => Muster(j) <= Worth(n)
  BY <1>1, <1>2, <1>3
<1>5. Whole(Muster(j)) \in Nat /\ (~Landed(j) => Whole(Muster(j)) <= n)
  BY <1>1, <1>4, WholeIsNat, WholeAtMost
<1> QED
  BY <1>1, <1>4, <1>5 DEF n

LEMMA LeftIsNat ==
    ASSUME WarInv, NEW j \in Jobs, DueInit(j, "attack")
    PROVE  /\ Left(j) \in Nat /\ Left(j) <= Muster(j) /\ Left(j) + SumTroops(Beaten(j)) = Muster(j)
           /\ Stopped(j) => /\ Min(Stoppers(j)) \in Jobs \ Fallen(j) /\ Standing(Min(Stoppers(j)))
                            /\ Left(j) <= attack[Min(Stoppers(j))].troops
<1>1. Muster(j) \in Nat /\ Manned /\ ForcesInv
  BY MusterIsNat, WarIsManned DEF WarInv, LandInv
<1>2. Facing(j) \subseteq incoming[job[j].owner] /\ job[j].owner \in Players /\ ~Standing(j)
  BY <1>1, FallenWereStanding DEF Facing, Opposing
<1>3. Facing(j) \in SUBSET Jobs /\ \A a \in Facing(j) : Standing(a)
  BY <1>1, <1>2 DEF ForcesInv, RegistriesAreExact
<1>4. SumTroops(Beaten(j)) \in Nat
  BY <1>1, SumIsNat
<1>5. CASE ~Stopped(j)
  <2>1. Beaten(j) = Facing(j) /\ Blockers(Facing(j), Muster(j)) = {}
    BY <1>5 DEF Beaten, Stopped, Stoppers
  <2>2. SumTroops(Beaten(j)) <= Muster(j)
    BY <1>1, <1>3, <2>1, FirstBlocker
  <2> QED
    BY <1>1, <1>4, <1>5, <2>2 DEF Left
<1>6. CASE Stopped(j)
  <2> DEFINE m == Min(Stoppers(j))
  <2>1. Beaten(j) = Before(Facing(j), m) /\ Blockers(Facing(j), Muster(j)) # {}
        /\ m = Min(Blockers(Facing(j), Muster(j)))
    BY <1>6 DEF Beaten, Stopped, Stoppers
  <2> DEFINE F == Facing(j)
             n == Muster(j)
  <2> HIDE DEF m, F, n
  <2>2. /\ m \in Facing(j) /\ m \notin Beaten(j) /\ SumTroops(Beaten(j)) <= Muster(j)
        /\ Muster(j) - SumTroops(Beaten(j)) <= attack[m].troops
    <3>1. F \in SUBSET Jobs /\ n \in Nat /\ Blockers(F, n) # {}
      BY <1>1, <1>3, <2>1 DEF F, n
    <3>2. /\ Min(Blockers(F, n)) \in F
          /\ Min(Blockers(F, n)) \notin Before(F, Min(Blockers(F, n)))
          /\ SumTroops(Before(F, Min(Blockers(F, n)))) <= n
          /\ n - SumTroops(Before(F, Min(Blockers(F, n)))) <= attack[Min(Blockers(F, n))].troops
      BY <1>1, <3>1, FirstBlocker
    <3> QED
      BY <2>1, <3>2 DEF F, n
  <2>3. m \in Jobs /\ Standing(m) /\ m # j
    BY <1>2, <1>3, <2>2
  <2>4. m \notin Fallen(j)
    BY <1>6, <2>2, <2>3 DEF Fallen, Absorbed
  <2> QED
    BY <1>1, <1>4, <2>2, <2>3, <2>4 DEF Left, m
<1> QED
  BY <1>5, <1>6

LEMMA StartTyped == ASSUME WarInv, NEW j \in Jobs, AttackStarts(j) PROVE Typed'
<1> DEFINE p == job[j].owner
           m == Min(Stoppers(j))
           joined == Left(j) + SumTroops(Absorbed(j))
<1>1. DueInit(j, "attack") /\ p \in Players /\ Muster(j) \in Nat
      /\ Whole(Muster(j)) \in Nat /\ (~Landed(j) => Whole(Muster(j)) <= troops[p])
  BY MusterIsNat DEF AttackStarts
<1>2. /\ Left(j) \in Nat
      /\ Stopped(j) => m \in Jobs \ Fallen(j) /\ Standing(m) /\ Left(j) <= attack[m].troops
  BY <1>1, LeftIsNat
<1>3. Manned /\ joined \in Nat
  <2>1. Manned /\ SumTroops(Absorbed(j)) \in Nat
    BY WarIsManned, SumIsNat
  <2> QED
    BY <1>2, <2>1
<1>4. Opening(j) \subseteq Tiles
  BY AroundIsLand DEF WarInv, LandInv, ForcesInv, Formed, Landed, Frontier, Opening
<1>5. /\ troops' = IF Landed(j) THEN troops ELSE [troops EXCEPT ![p] = @ - Whole(Muster(j))]
      /\ attack' =
         [a \in Jobs |->
            IF a = j THEN [attack[j] EXCEPT !.troops = joined, !.frontier = Opening(j),
                                            !.live = ~Stopped(j)]
            ELSE IF a \in Fallen(j) THEN [attack[a] EXCEPT !.live = FALSE]
            ELSE IF Stopped(j) /\ a = m THEN [attack[a] EXCEPT !.troops = @ - Left(j)]
            ELSE attack[a]]
      /\ EndInit /\ Enters(j) /\ UNCHANGED <<ally, boat, order>>
  BY StartsList DEF AttackStarts
<1>6. /\ troops \in [Players -> Nat] /\ attack \in [Jobs -> AttackType] /\ Typed /\ Listed
  BY DEF WarInv, Typed, LandInv, ForcesInv
<1>7. Clocked' /\ Orderly'
  BY <1>5, <1>6, TurnIsClocked, OrdersStay DEF Typed
<1> HIDE DEF joined, m
<1>8. troops' \in [Players -> Nat]
  <2>1. troops[p] \in Nat
    BY <1>1, <1>6
  <2>2. ~Landed(j) => troops[p] - Whole(Muster(j)) \in Nat
    BY <1>1, <2>1
  <2> HIDE DEF p
  <2> QED
    BY <1>1, <1>5, <1>6, <2>2
<1>9. ASSUME NEW a \in Jobs PROVE attack'[a] \in AttackType
  <2>1. attack[a] \in AttackType /\ attack[j] \in AttackType
    BY <1>6
  <2>2. CASE a = j
    <3>1. attack'[a] = [attack[j] EXCEPT !.troops = joined, !.frontier = Opening(j),
                                         !.live = ~Stopped(j)]
      BY <1>5, <2>2
    <3>2. (~Stopped(j)) \in BOOLEAN
      BY DEF Stopped
    <3> QED
      BY <1>3, <1>4, <2>1, <3>1, <3>2 DEF AttackType
  <2>3. CASE a # j /\ a \in Fallen(j)
    BY <1>5, <2>1, <2>3 DEF AttackType
  <2>4. CASE a # j /\ a \notin Fallen(j) /\ Stopped(j) /\ a = m
    <3>1. attack'[a] = [attack[a] EXCEPT !.troops = @ - Left(j)]
      BY <1>5, <2>4
    <3>2. attack[a].troops - Left(j) \in Nat
      BY <1>2, <2>1, <2>4 DEF AttackType
    <3> QED
      BY <2>1, <3>1, <3>2 DEF AttackType
  <2>5. CASE a # j /\ a \notin Fallen(j) /\ ~(Stopped(j) /\ a = m)
    BY <1>5, <2>1, <2>5
  <2> QED
    BY <2>2, <2>3, <2>4, <2>5
<1>10. attack' \in [Jobs -> AttackType]
  <2>1. attack' = [a \in Jobs |-> attack'[a]]
    BY <1>5
  <2> QED
    BY <1>9, <2>1
<1> QED
  BY <1>5, <1>6, <1>7, <1>8, <1>10 DEF Typed, Allied

LEMMA GoHomeTyped ==
    ASSUME WarInv, NEW j \in Jobs, job[j].kind = "attack", NEW malus \in BOOLEAN,
           GoHome(j, malus)
    PROVE  troops' \in [Players -> Nat] /\ attack' \in [Jobs -> AttackType]
<1> DEFINE p == job[j].owner
           n == attack[j].troops
<1>1. /\ troops \in [Players -> Nat] /\ attack \in [Jobs -> AttackType] /\ p \in Players
      /\ n \in Nat
  BY OwnerIsPlayer, WarIsManned DEF WarInv, Typed, Manned
<1>2. /\ troops' = [troops EXCEPT ![p] = @ + Whole(IF malus THEN (3 * n) \div 4 ELSE n)]
      /\ attack' = [attack EXCEPT ![j] = [@ EXCEPT !.troops = 0, !.live = FALSE]]
  BY DEF GoHome
<1>3. Whole(IF malus THEN (3 * n) \div 4 ELSE n) \in Nat
  <2>1. (IF malus THEN (3 * n) \div 4 ELSE n) \in Nat
    BY <1>1, ThreeQuarters
  <2> QED
    BY <2>1, WholeIsNat
<1>4. attack' \in [Jobs -> AttackType]
  BY <1>1, <1>2 DEF AttackType
<1> HIDE DEF n, p
<1> QED
  BY <1>1, <1>2, <1>3, <1>4

LEMMA ConquersTyped ==
    ASSUME WarInv, NEW j \in Jobs, NEW t, NEW again \in BOOLEAN, NEW twice \in BOOLEAN,
           AttackConquers(j, t, again, twice)
    PROVE  troops' \in [Players -> Nat] /\ attack' \in [Jobs -> AttackType] /\ Clocked'
<1> DEFINE g == attack[j].target
<1>1. /\ troops \in [Players -> Nat] /\ attack \in [Jobs -> AttackType] /\ Clocked
      /\ attack[j] \in AttackType /\ g \in Owners
  BY DEF WarInv, Typed, AttackType
<1>2. PICK lost \in AttackerLosses :
        attack' = [attack EXCEPT ![j].troops = Minus(@, lost),
                                 ![j].frontier = Ahead(j, t, twice)]
  BY DEF AttackConquers
<1>3. Minus(attack[j].troops, lost) \in Nat
  BY <1>1, MinusIsNat, WarfareAssumption DEF AttackType
<1>4. Ahead(j, t, twice) \subseteq Tiles
  <2>1. t \in Tiles
    BY <1>1 DEF AttackConquers, AttackType
  <2> QED
    BY <1>1, <2>1, AroundIsLand DEF Ahead, AttackType
<1>5. attack' \in [Jobs -> AttackType]
  <2> DEFINE r == [attack[j] EXCEPT !.troops = Minus(attack[j].troops, lost),
                                    !.frontier = Ahead(j, t, twice)]
  <2>1. r \in AttackType
    BY <1>1, <1>3, <1>4 DEF AttackType
  <2>2. attack' = [attack EXCEPT ![j] = r]
    BY <1>1, <1>2 DEF AttackType
  <2> HIDE DEF r
  <2> QED
    BY <1>1, <2>1, <2>2
<1>6. troops' \in [Players -> Nat]
  <2>1. PICK lost2 \in IF g = Neutral THEN {0} ELSE DefenderLosses :
          troops' = IF g = Neutral THEN troops
                    ELSE [troops EXCEPT ![g] = Minus(@, lost2)]
    BY DEF AttackConquers
  <2>2. CASE g = Neutral
    BY <1>1, <2>1, <2>2
  <2>3. CASE g # Neutral
    <3>1. lost2 \in Nat /\ g \in Players /\ troops[g] \in Nat
      BY <1>1, <2>1, <2>3, WarfareAssumption DEF Owners
    <3>2. Minus(troops[g], lost2) \in Nat
      BY <3>1, MinusIsNat
    <3> HIDE DEF g
    <3> QED
      BY <1>1, <2>1, <2>3, <3>1, <3>2
  <2> QED
    BY <2>2, <2>3
<1>7. Clocked'
  <2>1. cursor' \in {cursor, j} /\ looping' = again /\ phase' = phase /\ diplomacy' = diplomacy
    BY DEF AttackConquers
  <2> QED
    BY <1>1, <2>1, Bounds DEF Clocked
<1> QED
  BY <1>5, <1>6, <1>7

LEMMA AttackTyped ==
    ASSUME WarInv, NEW j \in Jobs, job[j].kind = "attack", AttackJob(j)
    PROVE  Typed'
<1>1. Typed /\ Listed
  BY DEF WarInv, LandInv, ForcesInv
<1>2. UNCHANGED <<ally, boat, order>> /\ (Stays(j) \/ Leaves(j) \/ Enters(j))
  <2>1. UNCHANGED <<ally, boat, order>>
    BY DEF AttackJob, AttackRefused, AttackStarts, AttackTurn, AttackRetreats, AttackIsGone,
           AttackWaits, AttackMeetsFriend, AttackIdles, AttackRunsOut, AttackRunsDry,
           AttackSkips, AttackConquers, world
  <2> QED
    BY <2>1, StartsList, AttackTurnList DEF AttackJob
<1>3. Orderly' /\ Allied' /\ boat' \in [Jobs -> BoatType] /\ order' \in [Jobs -> OrderType]
  BY <1>1, <1>2, OrdersStay DEF Typed, Allied
<1>4. CASE AttackStarts(j)
  BY <1>4, StartTyped
<1>5. ASSUME troops' \in [Players -> Nat], attack' \in [Jobs -> AttackType], Clocked'
      PROVE  Typed'
  BY <1>3, <1>5 DEF Typed
<1>6. CASE AttackRefused(j) \/ AttackIsGone(j) \/ AttackWaits(j) \/ AttackIdles(j)
  <2>1. troops' = troops /\ attack' = attack /\ (EndTurn(j) \/ EndInit)
    BY <1>6 DEF AttackRefused, AttackIsGone, AttackWaits, AttackIdles, world
  <2> QED
    BY <1>1, <1>5, <2>1, TurnIsClocked DEF Typed
<1>7. CASE AttackRetreats(j) \/ AttackMeetsFriend(j) \/ AttackRunsDry(j)
  <2>1. PICK malus \in BOOLEAN : GoHome(j, malus)
    <3>1. (attack[j].target # Neutral) \in BOOLEAN
      OBVIOUS
    <3> QED
      BY <1>7, <3>1 DEF AttackRetreats, AttackMeetsFriend, AttackRunsDry
  <2>2. Clocked'
    BY <1>1, <2>1, TurnIsClocked DEF GoHome, Typed
  <2> QED
    BY <1>5, <2>1, <2>2, GoHomeTyped
<1>8. CASE AttackRunsOut(j)
  <2>1. troops' = troops /\ attack' = Killed({j}) /\ EndTurn(j)
    BY <1>8 DEF AttackRunsOut
  <2>2. attack' \in [Jobs -> AttackType]
    BY <1>1, <2>1 DEF Killed, Typed, AttackType
  <2> QED
    BY <1>1, <1>5, <2>1, <2>2, TurnIsClocked DEF Typed
<1>9. ASSUME NEW t, AttackSkips(j, t) PROVE Typed'
  <2>1. /\ troops' = troops /\ attack' = [attack EXCEPT ![j].frontier = @ \ {t}]
        /\ looping' = TRUE /\ UNCHANGED <<phase, cursor, diplomacy>>
    BY <1>9 DEF AttackSkips
  <2>2. attack' \in [Jobs -> AttackType]
    BY <1>1, <2>1 DEF Typed, AttackType
  <2>3. Clocked'
    BY <1>1, <2>1 DEF Typed, Clocked
  <2> QED
    BY <1>1, <1>5, <2>1, <2>2, <2>3 DEF Typed
<1>10. ASSUME NEW t, NEW again \in BOOLEAN, NEW twice \in BOOLEAN,
              AttackConquers(j, t, again, twice)
       PROVE  Typed'
  BY <1>5, <1>10, ConquersTyped
<1> QED
  BY <1>4, <1>6, <1>7, <1>8, <1>9, <1>10 DEF AttackJob, AttackTurn

\* The executions that look at their order.
LEMMA RetreatTurnTyped == ASSUME WarInv, NEW j \in Jobs, RetreatTurn(j) PROVE Typed'
<1> DEFINE a == order[j].of
           left == order[j].left
<1>1. /\ attack \in [Jobs -> AttackType] /\ order \in [Jobs -> OrderType] /\ Typed
      /\ job \in [Jobs -> JobType] /\ Listed
  BY DEF WarInv, Typed, LandInv, ForcesInv, Listed
<1>2. /\ order' = [order EXCEPT ![j].left = left - 1]
      /\ attack' = attack \/ \E x, y \in BOOLEAN :
            attack' = [attack EXCEPT ![a].retreating = x, ![a].retreated = y]
      /\ job' = IF left = 1 THEN Retired(j) ELSE job
      /\ EndTurn(j) /\ Due(j, "retreat") /\ UNCHANGED <<troops, ally, boat>>
  <2>1. attack' = attack \/ \E x, y \in BOOLEAN :
            attack' = [attack EXCEPT ![a].retreating = x, ![a].retreated = y]
    <3>1. attack' = IF job[a].stage # "running" \/ job[a].owner # job[j].owner THEN attack
                    ELSE [attack EXCEPT ![a].retreating = @ \/ (left = CancelDelay /\ attack[a].live),
                                        ![a].retreated = @ \/ (left = 1)]
      BY DEF RetreatTurn
    <3> DEFINE x == attack[a].retreating \/ (left = CancelDelay /\ attack[a].live)
               y == attack[a].retreated \/ (left = 1)
    <3>2. x \in BOOLEAN /\ y \in BOOLEAN
      OBVIOUS
    <3>3. attack' = attack \/ attack' = [attack EXCEPT ![a].retreating = x, ![a].retreated = y]
      BY <3>1
    <3> HIDE DEF x, y
    <3> QED
      BY <3>2, <3>3
  <2>2. order' = [order EXCEPT ![j].left = left - 1]
    BY DEF RetreatTurn
  <2> QED
    BY <2>1, <2>2 DEF RetreatTurn
<1>3. left \in 0 .. CancelDelay /\ left >= 1 /\ left - 1 \in 0 .. CancelDelay
  <2>1. left \in 0 .. CancelDelay
    BY <1>1 DEF OrderType
  <2>2. left >= 1
    BY <1>1, <1>2 DEF Orderly, Due, Live, Typed
  <2> QED
    BY <2>1, <2>2, Bounds
<1>4. order' \in [Jobs -> OrderType] /\ order'[j].left = left - 1
      /\ \A i \in Jobs \ {j} : order'[i] = order[i]
  BY <1>1, <1>2, <1>3 DEF OrderType
<1>5. attack' \in [Jobs -> AttackType]
  <2>1. ASSUME NEW x \in BOOLEAN, NEW y \in BOOLEAN,
               attack' = [attack EXCEPT ![a].retreating = x, ![a].retreated = y]
        PROVE  attack' \in [Jobs -> AttackType]
    <3> HIDE DEF a
    <3> QED
      BY <1>1, <2>1 DEF AttackType
  <2> QED
    BY <1>1, <1>2, <2>1
<1>6. Orderly'
  <2>1. Moved(j) /\ job[j].kind = "retreat" /\ job[j].stage = "running"
        /\ (left = 1 => job'[j].active = FALSE /\ job'[j].stage = "running")
    BY <1>1, <1>2, SameMoves, RetiredMoves DEF Due, Live
  <2>2. ASSUME NEW i \in Jobs, job'[i].active \/ job'[i].stage = "queued"
        PROVE  /\ job'[i].kind = "retreat" => order'[i].left >= 1
               /\ job'[i].kind = "gift" => order'[i].of \in Players
    <3>1. CASE i = j
      <4>1. left # 1
        BY <2>1, <2>2, <3>1
      <4>2. order'[i].left >= 1
        BY <1>3, <1>4, <3>1, <4>1
      <4> QED
        BY <2>1, <3>1, <4>2 DEF Moved
    <3>2. CASE i # j
      BY <1>1, <1>4, <2>1, <2>2, <3>2 DEF Moved, Orderly, Typed
    <3> QED
      BY <3>1, <3>2
  <2> QED
    BY <2>2 DEF Orderly
<1> QED
  BY <1>1, <1>2, <1>4, <1>5, <1>6, TurnIsClocked DEF Typed, Allied

LEMMA RetreatTyped == ASSUME WarInv, NEW j \in Jobs, RetreatJob(j) PROVE Typed'
<1>1. CASE RetreatStarts(j) \/ RecallTurn(j)
  <2>1. /\ UNCHANGED <<troops, ally, attack, order>> /\ (EndTurn(j) \/ EndInit)
        /\ boat' = boat \/ boat' = [boat EXCEPT ![order[j].of].retreating = TRUE]
    BY <1>1 DEF RetreatStarts, RecallTurn, world
  <2>2. Listed /\ Typed /\ (Stays(j) \/ Leaves(j) \/ Enters(j))
    BY <1>1, StartsList, OtherTurnsList DEF WarInv, LandInv, ForcesInv
  <2>3. Orderly' /\ Clocked'
    BY <2>1, <2>2, OrdersStay, TurnIsClocked DEF Typed
  <2>4. boat' \in [Jobs -> BoatType]
    <3> DEFINE b == order[j].of
    <3>1. boat \in [Jobs -> BoatType]
      BY <2>2 DEF Typed
    <3>2. boat' = boat \/ boat' = [boat EXCEPT ![b].retreating = TRUE]
      BY <2>1
    <3> HIDE DEF b
    <3> QED
      BY <3>1, <3>2 DEF BoatType
  <2> QED
    BY <2>1, <2>2, <2>3, <2>4 DEF Typed, Allied
<1> QED
  BY <1>1, RetreatTurnTyped DEF RetreatJob

\* What is given away is there, and arrives.
LEMMA GiftIsThere ==
    ASSUME WarInv, NEW j \in Jobs, GiftTurn(j)
    PROVE  LET p == job[j].owner
               q == order[j].of
               n == Given(p, order[j].troops)
           IN  /\ p \in Players /\ q \in Players /\ p # q
               /\ n \in Nat /\ n <= troops[p] /\ troops[p] \in Nat /\ troops[q] \in Nat
               /\ troops' = [troops EXCEPT ![p] = troops[p] - n, ![q] = troops[q] + n]
<1> DEFINE p == job[j].owner
           q == order[j].of
           n == Given(p, order[j].troops)
<1>1. Due(j, "gift") /\ CanDonate(j)
      /\ troops' = [troops EXCEPT ![p] = Minus(@, n), ![q] = @ + n]
  BY DEF GiftTurn
<1>2. p # q /\ p \in Players /\ q \in Players
  <2>1. p # q
    BY <1>1 DEF CanDonate
  <2>2. p \in Players
    BY <1>1, OwnerIsPlayer DEF Due
  <2>3. q \in Players
    BY <1>1 DEF Due, Live, WarInv, Typed, Orderly
  <2> QED
    BY <2>1, <2>2, <2>3
<1>3. troops[p] \in Nat /\ troops[q] \in Nat /\ order[j].troops \in Nat
  BY <1>2 DEF WarInv, Typed, OrderType
<1>4. n \in Nat /\ n <= troops[p]
  <2> DEFINE w == Whole(order[j].troops)
  <2>1. w \in Nat
    BY <1>3, WholeIsNat
  <2> HIDE DEF w
  <2>2. Min({w, troops[p]}) \in {w, troops[p]} /\ Min({w, troops[p]}) <= troops[p]
    <3>1. w \in Int /\ troops[p] \in Int
      BY <1>3, <2>1
    <3> QED
      BY <3>1, MinOfTwo
  <2>3. n = Min({w, troops[p]})
    BY DEF Given, w
  <2> QED
    BY <1>3, <2>1, <2>2, <2>3
<1>5. Minus(troops[p], n) = troops[p] - n
  BY <1>4 DEF Minus
<1> HIDE DEF n
<1> QED
  BY <1>1, <1>2, <1>3, <1>4, <1>5 DEF n

LEMMA GiftTyped == ASSUME WarInv, NEW j \in Jobs, GiftJob(j) PROVE Typed'
<1>1. /\ troops \in [Players -> Nat] /\ order \in [Jobs -> OrderType] /\ Typed /\ Listed
      /\ order[j] \in OrderType /\ Orderly
  BY DEF WarInv, Typed, LandInv, ForcesInv
<1>2. /\ UNCHANGED <<ally, attack, boat>> /\ (EndTurn(j) \/ EndInit)
      /\ Stays(j) \/ Leaves(j) \/ Enters(j)
  <2>1. UNCHANGED <<ally, attack, boat>> /\ (EndTurn(j) \/ EndInit)
    BY DEF GiftJob, GiftStarts, GiftTurn, GiftRefused
  <2> QED
    BY <2>1, StartsList, OtherTurnsList DEF GiftJob
<1>3. Clocked' /\ Allied' /\ attack' \in [Jobs -> AttackType] /\ boat' \in [Jobs -> BoatType]
  BY <1>1, <1>2, TurnIsClocked DEF Typed, Allied
<1>4. ASSUME NEW n \in Nat, order' = [order EXCEPT ![j].troops = n]
      PROVE  order' \in [Jobs -> OrderType] /\ Orderly'
  <2>1. /\ order' \in [Jobs -> OrderType] /\ order'[j].left = order[j].left
        /\ order'[j].of = order[j].of /\ \A i \in Jobs \ {j} : order'[i] = order[i]
    BY <1>1, <1>4 DEF OrderType
  <2>2. ASSUME NEW i \in Jobs, job'[i].active \/ job'[i].stage = "queued"
        PROVE  (job[i].active \/ job[i].stage = "queued") /\ job'[i].kind = job[i].kind
    BY <1>1, <1>2, <2>2, RetiredMoves, InitedMoves DEF Stays, Leaves, Enters, Moved
  <2>3. \A i \in Jobs : order'[i].left = order[i].left /\ order'[i].of = order[i].of
    BY <2>1
  <2> QED
    BY <1>1, <2>1, <2>2, <2>3 DEF Orderly
<1>5. CASE GiftStarts(j)
  <2>1. troops' = troops /\ DueInit(j, "gift")
        /\ (order' = order \/ (Promised(j) > 0 /\ order' = [order EXCEPT ![j].troops = Promised(j)]))
    BY <1>5 DEF GiftStarts
  <2>2. CASE order' = order
    BY <1>1, <1>2, <1>3, <2>1, <2>2, OrdersStay DEF Typed
  <2>3. CASE Promised(j) > 0 /\ order' = [order EXCEPT ![j].troops = Promised(j)]
    <3> DEFINE p == job[j].owner
               q == order[j].of
               v == IF order[j].troops = 0 THEN Worth(troops[p] \div 3) ELSE order[j].troops
               most == Worth(MaxTroops - troops[q])
    <3>1. p \in Players /\ q \in Players
      BY <1>1, <2>1, OwnerIsPlayer DEF DueInit, Orderly
    <3>2. troops[p] \in Nat /\ troops[q] \in Nat /\ order[j].troops \in Nat
      BY <1>1, <3>1 DEF OrderType
    <3>3. v \in Int /\ most \in Int
      <4>1. troops[p] \div 3 \in Int /\ MaxTroops - troops[q] \in Int
        BY <3>2, Bounds
      <4>2. Worth(troops[p] \div 3) \in Int /\ most \in Int
        BY <4>1, WorthOf
      <4> QED
        BY <3>2, <4>2
    <3>4. Promised(j) = Min({v, most})
      BY DEF Promised, Worth
    <3> HIDE DEF v, most
    <3>5. Promised(j) \in Int
      BY <3>3, <3>4, MinOfTwo
    <3>6. Promised(j) \in Nat
      BY <2>3, <3>5
    <3> QED
      BY <1>1, <1>3, <1>4, <2>1, <2>3, <3>6 DEF Typed
  <2> QED
    BY <2>1, <2>2, <2>3
<1>6. CASE GiftTurn(j)
  <2> DEFINE p == job[j].owner
             q == order[j].of
             n == Given(p, order[j].troops)
  <2>1. /\ p \in Players /\ q \in Players /\ p # q
        /\ n \in Nat /\ n <= troops[p] /\ troops[p] \in Nat /\ troops[q] \in Nat
        /\ troops' = [troops EXCEPT ![p] = troops[p] - n, ![q] = troops[q] + n]
    BY <1>6, GiftIsThere
  <2>2. order' = [order EXCEPT ![j].troops = n]
    BY <1>6 DEF GiftTurn
  <2> HIDE DEF p, q, n
  <2>3. troops' \in [Players -> Nat]
    <3>1. troops[p] - n \in Nat /\ troops[q] + n \in Nat
      BY <2>1
    <3> QED
      BY <1>1, <2>1, <3>1
  <2> QED
    BY <1>3, <1>4, <2>1, <2>2, <2>3 DEF Typed
<1>7. CASE GiftRefused(j)
  <2>1. troops' = troops /\ order' = [order EXCEPT ![j].troops = 0] /\ 0 \in Nat
    BY <1>7 DEF GiftRefused
  <2> QED
    BY <1>1, <1>3, <1>4, <2>1 DEF Typed
<1> QED
  BY <1>5, <1>6, <1>7 DEF GiftJob

-----------------------------------------------------------------------------
\* What goes aboard was at home.
LEMMA AboardIsThere ==
    ASSUME WarInv, NEW j \in Jobs, NEW dst, BoatSails(j, dst)
    PROVE  LET p == job[j].owner
               n == Aboard(p, boat[j].troops)
           IN  /\ p \in Players /\ troops[p] \in Nat /\ n \in Nat
               /\ Whole(n) \in Nat /\ Whole(n) <= troops[p]
               /\ troops' = [troops EXCEPT ![p] = troops[p] - Whole(n)]
<1> DEFINE p == job[j].owner
           n == Aboard(p, boat[j].troops)
           most == Worth(troops[p])
<1>1. DueInit(j, "boat") /\ troops' = [troops EXCEPT ![p] = Minus(@, Whole(n))]
  BY DEF BoatSails
<1>2. p \in Players /\ troops[p] \in Nat /\ boat[j].troops \in Nat
  BY <1>1, OwnerIsPlayer DEF DueInit, WarInv, Typed, BoatType
<1>3. most \in Nat
  BY <1>2, WorthOf
<1>4. n = Min({boat[j].troops, most})
  BY DEF Aboard, Worth
<1> HIDE DEF most
<1>5. n \in Nat /\ n <= most
  <2>1. boat[j].troops \in Int /\ most \in Int
    BY <1>2, <1>3
  <2>2. Min({boat[j].troops, most}) \in {boat[j].troops, most}
        /\ Min({boat[j].troops, most}) <= most
    BY <2>1, MinOfTwo
  <2> QED
    BY <1>2, <1>3, <1>4, <2>2
<1> HIDE DEF n
<1>6. Whole(n) \in Nat /\ Whole(n) <= troops[p]
  BY <1>2, <1>5, WholeIsNat, WholeAtMost DEF most
<1>7. Minus(troops[p], Whole(n)) = troops[p] - Whole(n)
  BY <1>6 DEF Minus
<1> QED
  BY <1>1, <1>2, <1>5, <1>6, <1>7 DEF n

LEMMA SailsTyped ==
    ASSUME WarInv, NEW j \in Jobs, NEW dst \in Tiles, BoatSails(j, dst)
    PROVE  troops' \in [Players -> Nat] /\ boat' \in [Jobs -> BoatType]
<1> DEFINE p == job[j].owner
           n == Aboard(p, boat[j].troops)
           g == owner[boat[j].ref]
<1>1. /\ p \in Players /\ troops[p] \in Nat /\ n \in Nat
      /\ Whole(n) \in Nat /\ Whole(n) <= troops[p]
      /\ troops' = [troops EXCEPT ![p] = troops[p] - Whole(n)]
  BY AboardIsThere
<1>2. /\ boat' = [boat EXCEPT ![j] = [@ EXCEPT !.troops = n, !.dst = dst, !.target = g]]
      /\ dst \in Landings(boat[j].ref)
  BY DEF BoatSails
<1>3. g \in Owners
  BY <1>2 DEF Landings, WarInv, LandInv
<1>4. troops \in [Players -> Nat] /\ boat \in [Jobs -> BoatType]
  BY DEF WarInv, Typed
<1> HIDE DEF n, p, g
<1>5. troops' \in [Players -> Nat]
  <2>1. troops[p] - Whole(n) \in Nat
    BY <1>1
  <2> QED
    BY <1>1, <1>4, <2>1
<1>6. boat' \in [Jobs -> BoatType]
  BY <1>1, <1>2, <1>3, <1>4, Bounds DEF BoatType
<1> QED
  BY <1>5, <1>6

LEMMA LandsTyped ==
    ASSUME WarInv, NEW j \in Jobs, NEW dst \in Tiles, BoatLands(j, dst)
    PROVE  Typed'
<1> DEFINE p == job[j].owner
           n == boat[j].troops
           g == boat[j].target
           k == NextJob
           new == [NoAttack EXCEPT !.target = g, !.troops = n, !.source = dst, !.live = TRUE]
<1>1. /\ troops \in [Players -> Nat] /\ attack \in [Jobs -> AttackType] /\ Typed /\ Listed
      /\ boat \in [Jobs -> BoatType]
  BY DEF WarInv, Typed, LandInv, ForcesInv
<1>2. Due(j, "boat") /\ p \in Players /\ n \in Nat /\ g \in Owners
  BY <1>1, OwnerIsPlayer DEF BoatLands, Due, BoatType
<1>3. \E v \in {Whole((3 * n) \div 4), Whole(n), 0} : troops' = [troops EXCEPT ![p] = @ + v]
  <2> DEFINE v == CASE owner[dst] = p -> Whole((3 * n) \div 4)
                    [] owner[dst] # p /\ g # Neutral /\ Friendly(p, g) -> Whole(n)
                    [] OTHER -> 0
  <2>1. troops' = [troops EXCEPT ![p] = @ + v]
    BY DEF BoatLands
  <2>2. v \in {Whole((3 * n) \div 4), Whole(n), 0}
    <3> HIDE DEF n, p, g
    <3> QED
      OBVIOUS
  <2> HIDE DEF v
  <2> QED
    BY <2>1, <2>2
<1>4. PICK v \in {Whole((3 * n) \div 4), Whole(n), 0} : troops' = [troops EXCEPT ![p] = @ + v]
  BY <1>3
<1>5. troops' \in [Players -> Nat]
  <2>1. v \in Nat
    BY <1>2, <1>4, ThreeQuarters, WholeIsNat
  <2> HIDE DEF p, n
  <2> QED
    BY <1>1, <1>2, <1>4, <2>1
<1>6. new \in AttackType
  BY <1>2, Blank, Bounds DEF AttackType
<1>7. attack' = attack \/ attack' = [attack EXCEPT ![k] = new]
  BY DEF BoatLands
<1>8. attack' \in [Jobs -> AttackType]
  <2> HIDE DEF new, k
  <2> QED
    BY <1>1, <1>6, <1>7
<1>9. UNCHANGED <<ally, boat, order>> /\ EndTurn(j)
  BY DEF BoatLands
<1>10. Orderly'
  <2>1. job' = Retired(j) \/ job' = [Retired(j) EXCEPT ![k] = NewJob("attack", p)]
    BY DEF BoatLands
  <2>2. CASE job' = Retired(j)
    BY <1>1, <1>9, <2>2, OrdersStay DEF Leaves, Typed
  <2>3. CASE job' = [Retired(j) EXCEPT ![k] = NewJob("attack", p)]
    <3>1. ASSUME NEW i \in Jobs \ {k}, job'[i].active \/ job'[i].stage = "queued"
          PROVE  (job[i].active \/ job[i].stage = "queued") /\ job'[i].kind = job[i].kind
      BY <1>1, <2>3, <3>1 DEF Retired, Listed, JobType
    <3>2. k \in Jobs => job'[k].kind = "attack"
      <4>1. "attack" \in Kinds
        BY DEF Kinds
      <4>2. k \in Jobs => job'[k] = NewJob("attack", p)
        BY <1>1, <2>3 DEF Retired, Listed
      <4> QED
        BY <1>2, <4>1, <4>2, NewJobType
    <3> HIDE DEF k
    <3> QED
      BY <1>1, <1>9, <3>1, <3>2 DEF Orderly, Typed
  <2> QED
    BY <2>1, <2>2, <2>3
<1> QED
  BY <1>1, <1>5, <1>8, <1>9, <1>10, TurnIsClocked DEF Typed, Allied

LEMMA BoatTyped == ASSUME WarInv, NEW j \in Jobs, BoatJob(j) PROVE Typed'
<1>1. Typed /\ Listed /\ troops \in [Players -> Nat] /\ boat \in [Jobs -> BoatType]
  BY DEF WarInv, LandInv, ForcesInv, Typed
<1>2. ASSUME NEW dst \in Tiles, BoatLands(j, dst) PROVE Typed'
  BY <1>2, LandsTyped
<1>3. ASSUME troops' \in [Players -> Nat], boat' \in [Jobs -> BoatType],
             UNCHANGED <<ally, attack, order>>, EndTurn(j) \/ EndInit,
             Stays(j) \/ Leaves(j) \/ Enters(j)
      PROVE  Typed'
  <2>1. Orderly' /\ Clocked'
    BY <1>1, <1>3, OrdersStay, TurnIsClocked DEF Typed
  <2> QED
    BY <1>1, <1>3, <2>1 DEF Typed, Allied
<1>4. ASSUME NEW dst \in Tiles, BoatSails(j, dst) PROVE Typed'
  <2>1. UNCHANGED <<ally, attack, order>> /\ EndInit
    BY <1>4 DEF BoatSails
  <2> QED
    BY <1>3, <1>4, <2>1, SailsTyped, StartsList
<1>5. ASSUME NEW dst \in Tiles, BoatMoves(j, dst) PROVE Typed'
  <2>1. /\ UNCHANGED <<troops, ally, attack, order>> /\ EndTurn(j)
        /\ boat' = [boat EXCEPT ![j] = [@ EXCEPT !.dst = dst, !.resolved = boat[j].retreating]]
    BY <1>5 DEF BoatMoves
  <2>2. boat' \in [Jobs -> BoatType]
    BY <1>1, <2>1, Bounds DEF BoatType
  <2> QED
    BY <1>1, <1>3, <1>5, <2>1, <2>2, OtherTurnsList
<1>6. CASE BoatRefused(j) \/ BoatFindsNoPath(j) \/ BoatIsLost(j)
  <2>1. UNCHANGED <<troops, ally, attack, boat, order>> /\ (EndTurn(j) \/ EndInit)
    BY <1>6 DEF BoatRefused, BoatFindsNoPath, BoatIsLost, world
  <2> QED
    BY <1>1, <1>3, <1>6, <2>1, StartsList, OtherTurnsList
<1>7. CASE BoatIsHomeless(j)
  <2> DEFINE p == job[j].owner
  <2>1. /\ UNCHANGED <<ally, attack, boat, order>> /\ EndTurn(j) /\ job[j].kind = "boat"
        /\ troops' = [troops EXCEPT ![p] = @ + Whole(boat[j].troops)]
    BY <1>7 DEF BoatIsHomeless, Due
  <2>2. p \in Players /\ Whole(boat[j].troops) \in Nat
    BY <1>1, <2>1, OwnerIsPlayer, WholeIsNat DEF BoatType
  <2>3. troops' \in [Players -> Nat]
    BY <1>1, <2>1, <2>2
  <2> QED
    BY <1>1, <1>3, <1>7, <2>1, <2>3, OtherTurnsList
<1> QED
  BY <1>2, <1>4, <1>5, <1>6, <1>7 DEF BoatJob

LEMMA InitWar == Init => WarInv
<1> SUFFICES ASSUME Init PROVE WarInv
  OBVIOUS
<1>1. LandInv
  BY InitLand
<1>2. /\ troops \in [Players -> Nat] /\ attack \in [Jobs -> AttackType]
      /\ boat \in [Jobs -> BoatType] /\ order \in [Jobs -> OrderType]
  BY Blank, WarfareAssumption DEF Init
<1>3. Clocked /\ Allied
  <2>1. 0 \in 0 .. MaxJobs /\ 0 \in 0 .. MaxDiplomacy
    BY Bounds
  <2>2. phase = "orders" /\ cursor = 0 /\ looping = FALSE /\ diplomacy = 0 /\ ally = {}
    BY DEF Init
  <2>3. Allied
    BY <2>2 DEF Allied
  <2> QED
    BY <2>1, <2>2, <2>3 DEF Clocked
<1>4. Orderly
  BY DEF Init, Orderly
<1> QED
  BY <1>1, <1>2, <1>3, <1>4 DEF WarInv, Typed

LEMMA StepWar == WarInv /\ [Next]_vars => WarInv'
<1> SUFFICES ASSUME WarInv, [Next]_vars PROVE WarInv'
  OBVIOUS
<1>0. LandInv'
  BY StepLand DEF WarInv
<1>1. CASE Orders
  BY <1>0, <1>1, OrdersTyped DEF WarInv
<1>2. CASE DiplomacyTurn
  BY <1>0, <1>2, DiplomacyTyped DEF WarInv
<1>3. CASE StartTick \/ StartInits \/ UNCHANGED vars
  BY <1>0, <1>3, ClockTyped DEF WarInv
<1>4. CASE EndTick
  BY <1>0, <1>4, EndTickTyped DEF WarInv
<1>5. ASSUME NEW j \in Players, PlayerJob(j) PROVE WarInv'
  BY <1>0, <1>5, PlayerTyped DEF WarInv
<1>6. ASSUME NEW j \in Jobs, \/ job[j].kind = "attack" /\ AttackJob(j)
                             \/ RetreatJob(j) \/ GiftJob(j) \/ BoatJob(j)
      PROVE  WarInv'
  BY <1>0, <1>6, AttackTyped, RetreatTyped, GiftTyped, BoatTyped DEF WarInv
<1> QED
  BY <1>1, <1>2, <1>3, <1>4, <1>5, <1>6 DEF Next, Tick

LEMMA Wars == Spec => []WarInv
  BY InitWar, StepWar, PTL DEF Spec

\* Every variable has its type for any map, losses and orders; in particular no force
\* falls below zero, neither the one that sets out against any number of attacks it
\* meets, nor the attack that stops it, nor the troops at home.
THEOREM TypeCorrect == Spec => []TypeOK
  BY WarIsTyped, Wars, PTL

-----------------------------------------------------------------------------
(* Attacks that set out. *)

\* A queued attack sets out only by its own initialisation.
LEMMA OnlyStartsSetOut ==
    ASSUME ForcesInv, [Next]_vars, NEW a \in Jobs, job[a].stage = "queued", Standing(a)'
    PROVE  AttackStarts(a)
<1> USE DEF ForcesInv
<1>1. job'[a].stage # "queued"
  BY DEF Standing
<1>2. CASE Orders
  BY <1>1, <1>2, OrdersListed
<1>3. CASE DiplomacyTurn \/ StartTick \/ StartInits \/ UNCHANGED vars
  BY <1>1, <1>3 DEF DiplomacyTurn, Ally, Break, MarkDisconnected, Diplomatic, StartTick,
                    StartInits, vars
<1>4. CASE EndTick
  BY <1>4 DEF EndTick
<1>5. ASSUME NEW j \in Jobs, Stays(j) \/ Leaves(j) PROVE FALSE
  BY <1>1, <1>5, RetiredMoves DEF Stays, Leaves, Moved
<1>6. ASSUME NEW j \in Jobs, j # a, Enters(j) PROVE FALSE
  BY <1>1, <1>6, PlainIsListed DEF Moved
<1>7. ASSUME NEW j \in Players, PlayerJob(j) PROVE FALSE
  BY <1>5, <1>7, OtherTurnsList, Numbers
<1>8. ASSUME NEW j \in Jobs, NEW dst \in Tiles, BoatLands(j, dst) PROVE FALSE
  <2>1. job[j].stage = "running"
    BY <1>8 DEF BoatLands, Due, Live
  <2> QED
    BY <1>1, <1>8, <2>1, LandingIsListed
<1>9. ASSUME NEW j \in Jobs, j # a,
             AttackJob(j) \/ RetreatJob(j) \/ GiftJob(j) \/ BoatJob(j)
      PROVE  FALSE
  BY <1>5, <1>6, <1>8, <1>9, StartsList, AttackTurnList, OtherTurnsList
     DEF AttackJob, RetreatJob, GiftJob, BoatJob
<1>10. ASSUME \/ AttackTurn(a) \/ RetreatTurn(a) \/ RecallTurn(a) \/ GiftTurn(a) \/ GiftRefused(a)
              \/ BoatIsLost(a) \/ BoatIsHomeless(a) \/ \E dst \in Tiles : BoatMoves(a, dst)
       PROVE  FALSE
  BY <1>5, <1>10, AttackTurnList, OtherTurnsList
<1>11. ASSUME \/ AttackRefused(a) \/ RetreatStarts(a) \/ GiftStarts(a) \/ BoatRefused(a)
              \/ BoatFindsNoPath(a) \/ \E dst \in Tiles : BoatSails(a, dst)
       PROVE  FALSE
  <2>1. Enters(a) /\ Moved(a)
    BY <1>11, StartsList, PlainIsListed
  <2>2. job'[a].kind = "attack" /\ job'[a].active
    BY DEF Standing
  <2>3. AttackRefused(a)
    BY <1>11, <2>1, <2>2 DEF Moved, RetreatStarts, GiftStarts, BoatRefused, BoatFindsNoPath,
                             BoatSails, DueInit
  <2>4. job'[a].active = FALSE
    BY <2>3, InitedMoves DEF AttackRefused, DueInit
  <2> QED
    BY <2>2, <2>4
<1> QED
  BY <1>2, <1>3, <1>4, <1>7, <1>8, <1>9, <1>10, <1>11
     DEF Next, Tick, AttackJob, RetreatJob, GiftJob, BoatJob

\* Whoever sets out has beaten every attack of its target, if the target has land.
LEMMA SettingOut ==
    ASSUME ForcesInv, ForcesInv', NEW a \in Jobs, NEW b \in Jobs, AttackStarts(a),
           Standing(a)', Standing(b)', job[b].owner = attack[a].target,
           attack[b].target = job[a].owner
    PROVE  ~Has(job[b].owner)
<1> DEFINE p == job[a].owner
           g == attack[a].target
<1> SUFFICES ASSUME Has(job[b].owner) PROVE FALSE
  OBVIOUS
<1>1. DueInit(a, "attack") /\ ~Hopeless(p, g) /\ Enters(a)
  BY StartsList DEF AttackStarts
<1>2. /\ p \in Players /\ ~Standing(a)
      /\ a \in Fallen(a) <=> Stopped(a)
      /\ \A i \in Jobs \ {a} : i \in Fallen(a) <=> i \in Beaten(a) \cup Absorbed(a)
  BY <1>1, FallenWereStanding
<1>3. attack'[a].live = ~Stopped(a)
      /\ \A i \in Jobs \ {a} : /\ i \in Fallen(a) => attack'[i].live = FALSE
                               /\ attack'[i].live => attack[i].live
  <2>1. attack' =
         [i \in Jobs |->
            IF i = a THEN [attack[a] EXCEPT !.troops = Left(a) + SumTroops(Absorbed(a)),
                                            !.frontier = Opening(a), !.live = ~Stopped(a)]
            ELSE IF i \in Fallen(a) THEN [attack[i] EXCEPT !.live = FALSE]
            ELSE IF Stopped(a) /\ i = Min(Stoppers(a)) THEN [attack[i] EXCEPT !.troops = @ - Left(a)]
            ELSE attack[i]]
    BY DEF AttackStarts
  <2>2. \A i \in Jobs : attack[i] = [f \in Fields |-> attack[i][f]]
    BY DEF ForcesInv, Formed
  <2>3. attack'[a] = [attack[a] EXCEPT !.troops = Left(a) + SumTroops(Absorbed(a)),
                                       !.frontier = Opening(a), !.live = ~Stopped(a)]
    BY <2>1
  <2>4. attack'[a].live = ~Stopped(a)
    BY <2>2, <2>3 DEF Fields
  <2>5. ASSUME NEW i \in Jobs \ {a}
        PROVE  /\ i \in Fallen(a) => attack'[i].live = FALSE
               /\ attack'[i].live => attack[i].live
    <3>1. CASE i \in Fallen(a)
      <4>1. attack'[i] = [attack[i] EXCEPT !.live = FALSE]
        BY <2>1, <3>1
      <4> QED
        BY <2>2, <4>1 DEF Fields
    <3>2. CASE i \notin Fallen(a) /\ Stopped(a) /\ i = Min(Stoppers(a))
      <4>1. attack'[i] = [attack[i] EXCEPT !.troops = @ - Left(a)]
        BY <2>1, <3>2
      <4> QED
        BY <2>2, <3>2, <4>1 DEF Fields
    <3>3. CASE i \notin Fallen(a) /\ ~(Stopped(a) /\ i = Min(Stoppers(a)))
      BY <2>1, <3>3
    <3> QED
      BY <3>1, <3>2, <3>3
  <2> QED
    BY <2>4, <2>5
<1>4. ~Stopped(a) /\ Beaten(a) = Facing(a)
  BY <1>3 DEF Standing, Beaten
<1>5. CASE b = a
  <2>1. p = g
    BY <1>5
  <2> QED
    BY <1>1, <1>2, <2>1, Numbers DEF Hopeless, CanAttack, Friendly
<1>6. CASE b # a
  <2>1. Standing(b) /\ g # Neutral
    <3>1. Standing(b)
      <4>1. Moved(a) /\ job'[b] = job[b]
        BY <1>1, <1>6, PlainIsListed DEF Moved, ForcesInv
      <4> QED
        BY <1>3, <1>6, <4>1 DEF Standing
    <3>2. job[b].owner \in Players
      BY <3>1 DEF Standing, ForcesInv, Listed
    <3> QED
      BY <3>1, <3>2, Numbers
  <2>2. b \in incoming[p]
    BY <1>2, <2>1 DEF ForcesInv, RegistriesAreExact
  <2>3. b \in Facing(a)
    BY <2>1, <2>2 DEF Facing, Opposing, Standing
  <2>4. b \in Fallen(a)
    BY <1>2, <1>4, <1>6, <2>3
  <2> QED
    BY <1>3, <1>6, <2>4 DEF Standing
<1> QED
  BY <1>5, <1>6

\* However many attacks are on their way: when an attack sets out, none of its target's
\* attacks on its owner is left, unless that target has lost all its land.
THEOREM NoHeadOnAttacksHolds == Spec => NoHeadOnAttacks
<1> DEFINE A == \A a, b \in Jobs : /\ job[a].stage = "queued" /\ Standing(a)' /\ Standing(b)'
                                   /\ job[b].owner = attack[a].target /\ attack[b].target = job[a].owner
                                   => ~Has(job[b].owner)
<1>1. ForcesInv /\ [Next]_vars => [A]_vars
  BY StepForces, OnlyStartsSetOut, SettingOut
<1>2. NoHeadOnAttacks <=> [][A]_vars
  BY DEF NoHeadOnAttacks
<1> HIDE DEF A
<1> QED
  BY <1>1, <1>2, Forces, PTL DEF Spec

-----------------------------------------------------------------------------
(* Friends. *)

\* While an attack is inside its conquest loop, the next turn is its own and its target
\* is no friend.
LoopInv == looping => /\ phase = "tick"
                      /\ \E j \in Jobs : Due(j, "attack") /\ ~TargetIsFriend(j)

LEMMA OneIsDue ==
    ASSUME NEW i \in Jobs, NEW j \in Jobs, NEW k, NEW l, Due(i, k), Due(j, l)
    PROVE  i = j
<1>1. i \in Int /\ j \in Int
  BY Numbers DEF Jobs
<1>2. ~(i < j) /\ ~(j < i)
  BY <1>1 DEF Due
<1> QED
  BY <1>1, <1>2

LEMMA NoFriendIsFought ==
    ASSUME LoopInv, NEW j \in Jobs, AttackFights(j)
    PROVE  ~TargetIsFriend(j) /\ Due(j, "attack") /\ phase = "tick"
<1>1. Due(j, "attack")
  BY DEF AttackFights, AttackMarches
<1>2. ~TargetIsFriend(j)
  BY <1>1, OneIsDue DEF AttackFights, LoopInv
<1> QED
  BY <1>1, <1>2 DEF Due

\* The loop goes on.
LEMMA LoopGoesOn ==
    ASSUME ForcesInv, LoopInv, NEW j \in Jobs, NEW t,
           \/ AttackSkips(j, t)
           \/ \E again, twice \in BOOLEAN : AttackConquers(j, t, again, twice)
    PROVE  LoopInv'
<1>1. ~TargetIsFriend(j) /\ Due(j, "attack") /\ phase = "tick"
  BY NoFriendIsFought DEF AttackSkips, AttackConquers
<1>2. attack'[j].target = attack[j].target
  <2>1. attack[j] = [f \in Fields |-> attack[j][f]] /\ attack = [a \in Jobs |-> attack[a]]
    BY DEF ForcesInv, Formed
  <2>2. CASE AttackSkips(j, t)
    <3>1. attack' = [attack EXCEPT ![j].frontier = @ \ {t}]
      BY <2>2 DEF AttackSkips
    <3> QED
      BY <2>1, <3>1 DEF Fields
  <2>3. ASSUME NEW n, NEW F, attack' = [attack EXCEPT ![j].troops = n, ![j].frontier = F]
        PROVE  attack'[j].target = attack[j].target
    BY <2>1, <2>3 DEF Fields
  <2>4. ASSUME NEW again, NEW twice, AttackConquers(j, t, again, twice)
        PROVE  attack'[j].target = attack[j].target
    BY <2>3, <2>4 DEF AttackConquers
  <2> QED
    BY <2>2, <2>4
<1>3. UNCHANGED <<ally, offline, job, phase>> /\ (looping' => cursor' = cursor)
  BY DEF AttackSkips, AttackConquers
<1>4. looping' => Due(j, "attack")'
  BY <1>1, <1>3 DEF Due, Live
<1>5. ~TargetIsFriend(j)'
  BY <1>1, <1>2, <1>3 DEF TargetIsFriend, Friendly
<1> QED
  BY <1>1, <1>3, <1>4, <1>5 DEF LoopInv

LEMMA StepLoop == ForcesInv /\ LoopInv /\ [Next]_vars => LoopInv'
<1> SUFFICES ASSUME ForcesInv, LoopInv, [Next]_vars PROVE LoopInv'
  OBVIOUS
<1>1. ASSUME looping
      PROVE  phase = "tick" /\ \E j \in Jobs : j > cursor /\ Live(j)
  BY <1>1 DEF LoopInv, Due
<1>2. CASE Orders
  <2>1. Ordering /\ looping' = looping
    BY <1>2 DEF Orders, OrderAttack, OrderBoat, OrderGift, OrderRetreat, OrderRecall, Add
  <2> QED
    BY <1>1, <2>1 DEF Ordering, LoopInv
<1>3. CASE DiplomacyTurn
  BY <1>3 DEF DiplomacyTurn, Ally, Break, MarkDisconnected, Diplomatic, LoopInv
<1>4. CASE StartTick \/ StartInits \/ EndTick
  BY <1>1, <1>4 DEF StartTick, StartInits, EndTick, LoopInv
<1>5. CASE UNCHANGED vars
  BY <1>5 DEF vars, LoopInv, Due, Live, TargetIsFriend, Friendly
<1>6. ASSUME NEW j \in Jobs, NEW k, EndTurn(j) \/ (DueInit(j, k) /\ EndInit) PROVE LoopInv'
  BY <1>1, <1>6 DEF EndTurn, DueInit, EndInit, LoopInv
<1>7. ASSUME NEW j \in Players, PlayerJob(j) PROVE LoopInv'
  BY <1>6, <1>7, Numbers DEF PlayerJob, Reap, PlayerTurn
<1>8. ASSUME NEW j \in Jobs, AttackTurn(j) PROVE LoopInv'
  <2>1. ASSUME NEW t \in attack[j].frontier, AttackSkips(j, t) PROVE LoopInv'
    BY <2>1, LoopGoesOn
  <2>2. ASSUME NEW t \in attack[j].frontier, NEW again \in BOOLEAN, NEW twice \in BOOLEAN,
               AttackConquers(j, t, again, twice)
        PROVE  LoopInv'
    BY <2>2, LoopGoesOn
  <2>3. CASE \/ AttackRetreats(j) \/ AttackIsGone(j) \/ AttackWaits(j) \/ AttackMeetsFriend(j)
             \/ AttackIdles(j) \/ AttackRunsOut(j) \/ AttackRunsDry(j)
    BY <1>6, <2>3 DEF AttackRetreats, AttackIsGone, AttackWaits, AttackMeetsFriend, AttackIdles,
                      AttackRunsOut, AttackRunsDry, GoHome
  <2> QED
    BY <1>8, <2>1, <2>2, <2>3 DEF AttackTurn
<1>9. ASSUME NEW j \in Jobs, \/ AttackRefused(j) \/ AttackStarts(j) \/ RetreatJob(j)
                              \/ GiftJob(j)
      PROVE  LoopInv'
  BY <1>6, <1>9 DEF AttackRefused, AttackStarts, RetreatJob, RetreatStarts, RetreatTurn,
                    RecallTurn, GiftJob, GiftStarts, GiftTurn, GiftRefused
<1>10. ASSUME NEW j \in Jobs, BoatJob(j) PROVE LoopInv'
  BY <1>6, <1>10 DEF BoatJob, BoatRefused, BoatFindsNoPath, BoatIsLost, BoatIsHomeless,
                     BoatSails, BoatMoves, BoatLands
<1> QED
  BY <1>2, <1>3, <1>4, <1>5, <1>7, <1>8, <1>9, <1>10 DEF Next, Tick, AttackJob

\* The steps of a flood of S from t.
Flood(m, S, t, adj, g) ==
    g = [n \in 0 .. m |-> IF n = 0 THEN {t}
                          ELSE g[n - 1] \cup (S \cap UNION {adj[u] : u \in g[n - 1]})]

LEMMA FloodExists ==
    ASSUME NEW S, NEW t, NEW adj, NEW m \in Nat
    PROVE  \E g : Flood(m, S, t, adj, g)
<1> DEFINE next(X) == X \cup (S \cap UNION {adj[u] : u \in X})
           R == {n \in Nat : \E g : Flood(n, S, t, adj, g)}
<1>1. 0 \in R
  <2> DEFINE g == [i \in 0 .. 0 |-> {t}]
  <2>1. Flood(0, S, t, adj, g)
    BY DEF Flood
  <2> QED
    BY <2>1
<1>2. ASSUME NEW n \in R PROVE n + 1 \in R
  <2>1. PICK g : Flood(n, S, t, adj, g)
    OBVIOUS
  <2> DEFINE h == [i \in 0 .. n + 1 |-> IF i = n + 1 THEN next(g[n]) ELSE g[i]]
  <2>2. n \in Nat /\ \A i \in 0 .. n : g[i] = IF i = 0 THEN {t} ELSE next(g[i - 1])
    BY <2>1 DEF Flood
  <2> HIDE DEF next
  <2>3. \A i \in 0 .. n : h[i] = g[i]
    BY <2>2
  <2>4. h[n + 1] = next(h[(n + 1) - 1])
    BY <2>2, <2>3
  <2>5. \A i \in 0 .. n + 1 : h[i] = IF i = 0 THEN {t} ELSE next(h[i - 1])
    <3> TAKE i \in 0 .. n + 1
    <3>1. CASE i = n + 1
      BY <2>2, <2>4, <3>1
    <3>2. CASE i # n + 1
      <4>1. i \in 0 .. n /\ (i # 0 => i - 1 \in 0 .. n)
        BY <2>2, <3>2
      <4> HIDE DEF h
      <4> QED
        BY <2>2, <2>3, <4>1
    <3> QED
      BY <3>1, <3>2
  <2>6. h = [i \in 0 .. n + 1 |-> h[i]]
    OBVIOUS
  <2> HIDE DEF h
  <2>7. h = [i \in 0 .. n + 1 |-> IF i = 0 THEN {t} ELSE next(h[i - 1])]
    BY <2>5, <2>6
  <2>8. Flood(n + 1, S, t, adj, h)
    BY <2>7 DEF Flood, next
  <2> QED
    BY <2>2, <2>8
<1>3. R = Nat
  <2> HIDE DEF R
  <2>1. R \in SUBSET Nat
    BY DEF R
  <2> QED
    BY <1>1, <1>2, <2>1, SetInduction
<1> QED
  BY <1>3

\* A flood of S stays inside S, and reaches at least where it starts.
LEMMA SpreadStays ==
    ASSUME NEW S, IsFiniteSet(S), NEW t \in S, NEW adj
    PROVE  Spread(S, t, adj) \subseteq S /\ t \in Spread(S, t, adj)
<1> DEFINE m == Cardinality(S)
           grown == CHOOSE g : Flood(m, S, t, adj, g)
<1>1. m \in Nat
  BY FS_CardinalityType
<1>2. Flood(m, S, t, adj, grown)
  BY <1>1, FloodExists
<1>3. Spread(S, t, adj) = grown[m]
  BY DEF Spread, Flood
<1> HIDE DEF m, grown
<1>4. \A n \in 0 .. m : grown[n] = IF n = 0 THEN {t}
                                  ELSE grown[n - 1] \cup (S \cap UNION {adj[u] : u \in grown[n - 1]})
  BY <1>1, <1>2 DEF Flood
<1> DEFINE R == {n \in Nat : n <= m => grown[n] \subseteq S /\ t \in grown[n]}
<1>5. 0 \in R
  <2>1. grown[0] = {t}
    <3>1. 0 \in 0 .. m
      BY <1>1
    <3> QED
      BY <1>4, <3>1
  <2> QED
    BY <2>1
<1>6. ASSUME NEW n \in R PROVE n + 1 \in R
  <2>1. CASE n + 1 <= m
    <3>1. n + 1 \in 0 .. m /\ n + 1 # 0 /\ (n + 1) - 1 = n /\ grown[n] \subseteq S /\ t \in grown[n]
      BY <1>1, <2>1
    <3>2. grown[n + 1] = grown[n] \cup (S \cap UNION {adj[u] : u \in grown[n]})
      BY <1>4, <3>1
    <3>3. grown[n + 1] \subseteq S /\ t \in grown[n + 1]
      BY <3>1, <3>2
    <3> QED
      BY <3>3
  <2>2. CASE ~(n + 1 <= m)
    BY <2>2
  <2> QED
    BY <2>1, <2>2
<1>7. R = Nat
  <2> HIDE DEF R
  <2>1. R \in SUBSET Nat
    BY DEF R
  <2> QED
    BY <1>5, <1>6, <2>1, SetInduction
<1>8. m \in R
  BY <1>1, <1>7
<1> QED
  BY <1>1, <1>3, <1>8

\* What a surrounded cluster takes with it is the player's own land.
LEMMA BehindIsOwnLand ==
    ASSUME NEW p, NEW L \in Largest(p), NEW T \in Doomed(p, L)
    PROVE  Behind(T, p) \subseteq Land(p)
<1>1. T \in Clusters(p)
  BY DEF Doomed, Largest
<1>2. PICK t \in Border(p) : T = Spread(Border(p), t, Near)
  BY <1>1 DEF Clusters
<1>3. Border(p) \subseteq Land(p) /\ Land(p) \subseteq Tiles
  BY DEF Border, Land
<1>4. IsFiniteSet(Border(p)) /\ IsFiniteSet(Land(p))
  BY <1>3, WarfareAssumption, FS_Subset
<1>5. T \subseteq Border(p) /\ t \in T
  BY <1>2, <1>4, SpreadStays
<1>6. (CHOOSE u \in T : TRUE) \in T
  BY <1>5
<1>7. (CHOOSE u \in T : TRUE) \in Land(p)
  BY <1>3, <1>5, <1>6
<1> QED
  BY <1>4, <1>7, SpreadStays DEF Behind

LEMMA CaptorsAreNoFriends ==
    ASSUME NEW T, NEW p, NEW c \in Captors(T, p)
    PROVE  ~Friendly(c, p)
<1>1. c \in Invaders(T, p)
  BY DEF Captors, Waves
<1> QED
  BY <1>1 DEF Invaders

\* A tile that changes hands between friends.
Gifted(t) == owner[t] # Neutral /\ owner'[t] # owner[t] /\ Friendly(owner'[t], owner[t])

LEMMA AnnexationHitsNoFriend ==
    ASSUME NEW p, Annex(p), NEW t \in Tiles
    PROVE  ~Gifted(t)
<1>1. PICK L \in Largest(p) : AnnexAll(p, Doomed(p, L))
  BY DEF Annex
<1> DEFINE S == Doomed(p, L)
<1>2. \A T \in S : Behind(T, p) \subseteq Land(p)
  BY BehindIsOwnLand
<1> HIDE DEF S
<1>3. PICK captor \in [S -> Players] :
        /\ \A T \in S : captor[T] \in Captors(T, p)
        /\ owner' = [u \in Tiles |-> IF \E T \in S : u \in Behind(T, p)
                                     THEN captor[CHOOSE T \in S : u \in Behind(T, p)]
                                     ELSE owner[u]]
  BY <1>1 DEF AnnexAll, S
<1>4. CASE \E T \in S : t \in Behind(T, p)
  <2> DEFINE T == CHOOSE T \in S : t \in Behind(T, p)
  <2>1. T \in S /\ t \in Behind(T, p)
    BY <1>4
  <2>2. owner'[t] = captor[T]
    BY <1>3, <1>4
  <2> HIDE DEF T
  <2>3. owner[t] = p
    BY <1>2, <2>1 DEF Land
  <2>4. ~Friendly(captor[T], p)
    BY <1>3, <2>1, CaptorsAreNoFriends
  <2> QED
    BY <2>2, <2>3, <2>4 DEF Gifted
<1>5. CASE ~\E T \in S : t \in Behind(T, p)
  <2>1. owner'[t] = owner[t]
    BY <1>3, <1>5
  <2> QED
    BY <2>1 DEF Gifted
<1> QED
  BY <1>4, <1>5

LEMMA ConquestHitsNoFriend ==
    ASSUME owner \in [Tiles -> Owners], NEW p, NEW g, NEW t \in Tiles, ConquerTile(p, g, t),
           owner[t] = g, g # Neutral => ~Friendly(p, g), NEW u \in Tiles
    PROVE  ~Gifted(u)
<1> SUFFICES ASSUME Gifted(u) PROVE FALSE
  OBVIOUS
<1> DEFINE own == [owner EXCEPT ![t] = p]
           rest == {v \in Tiles : own[v] = g}
<1>1. own[t] = p /\ \A v \in Tiles \ {t} : own[v] = owner[v]
  OBVIOUS
<1>2. u = t => g # Neutral /\ ~Friendly(p, g)
  BY DEF Gifted
<1>3. ~Friendly(p, g) => p # g
  BY DEF Friendly
<1>4. CASE owner' = own
  BY <1>1, <1>2, <1>4 DEF Gifted
<1>5. ASSUME g # Neutral, NEW w \in Ways(rest), owner' \in Legacies(own, w, p, g)
      PROVE  FALSE
  <2>1. own = [v \in Tiles |-> own[v]] /\ rest \in SUBSET Tiles
    OBVIOUS
  <2> HIDE DEF own, rest
  <2>2. Shared(owner', own, p, g)
    BY <1>5, <2>1, LegaciesAreShared
  <2>3. CASE owner'[u] = own[u]
    BY <1>1, <1>2, <2>3 DEF Gifted
  <2>4. CASE owner'[u] # own[u]
    <3>1. own[u] = g /\ (owner'[u] = p \/ ~Friendly(owner'[u], g))
      BY <2>2, <2>4 DEF Shared
    <3>2. u # t /\ owner[u] = g
      BY <1>1, <1>3, <1>5, <3>1
    <3> QED
      BY <1>5, <3>1, <3>2 DEF Gifted
  <2> QED
    BY <2>3, <2>4
<1> QED
  BY <1>4, <1>5 DEF ConquerTile

FriendInv == LandInv /\ LoopInv

LEMMA OnlyBoatsLandOnFriends ==
    ASSUME FriendInv, [Next]_vars, NEW t \in Tiles, Gifted(t)
    PROVE  \E j \in Jobs : TurnOf(j, "boat")
<1> USE DEF FriendInv
<1>1. owner' # owner
  BY DEF Gifted
<1>2. CASE Orders \/ DiplomacyTurn \/ StartTick \/ StartInits \/ EndTick \/ UNCHANGED vars
  BY <1>1, <1>2 DEF Orders, OrderAttack, OrderBoat, OrderGift, OrderRetreat, OrderRecall, Add,
     DiplomacyTurn, Ally, Break, MarkDisconnected, Diplomatic, StartTick, StartInits, EndTick,
     world, vars
<1>3. ASSUME NEW j \in Players, PlayerJob(j) PROVE FALSE
  BY <1>1, <1>3, AnnexationHitsNoFriend DEF PlayerJob, Reap, PlayerTurn
<1>4. ASSUME NEW j \in Jobs, AttackRefused(j) \/ AttackStarts(j) \/ RetreatJob(j) \/ GiftJob(j)
      PROVE  FALSE
  BY <1>1, <1>4 DEF AttackRefused, AttackStarts, RetreatJob, RetreatStarts, RetreatTurn,
                    RecallTurn, GiftJob, GiftStarts, GiftTurn, GiftRefused, world
<1>5. ASSUME NEW j \in Jobs, AttackTurn(j) PROVE FALSE
  <2>1. ASSUME NEW u \in attack[j].frontier, NEW again \in BOOLEAN, NEW twice \in BOOLEAN,
               AttackConquers(j, u, again, twice)
        PROVE  FALSE
    <3> DEFINE p == job[j].owner
               g == attack[j].target
    <3>1. /\ AttackFights(j) /\ ConquerTile(p, g, u) /\ owner[u] = g
      BY <2>1 DEF AttackConquers, Takeable
    <3>2. u \in Tiles /\ owner \in [Tiles -> Owners]
      BY DEF LandInv, ForcesInv, Formed
    <3>3. ~TargetIsFriend(j)
      BY <3>1, NoFriendIsFought
    <3>4. g # Neutral => ~Friendly(p, g)
      BY <3>3 DEF TargetIsFriend
    <3> QED
      BY <3>1, <3>2, <3>4, ConquestHitsNoFriend
  <2>2. CASE \/ AttackRetreats(j) \/ AttackIsGone(j) \/ AttackWaits(j) \/ AttackMeetsFriend(j)
             \/ AttackIdles(j) \/ AttackRunsOut(j) \/ AttackRunsDry(j)
             \/ \E u \in attack[j].frontier : AttackSkips(j, u)
    BY <1>1, <2>2 DEF AttackRetreats, AttackIsGone, AttackWaits, AttackMeetsFriend, AttackIdles,
                      AttackRunsOut, AttackRunsDry, AttackSkips, world
  <2> QED
    BY <1>5, <2>1, <2>2 DEF AttackTurn
<1>6. ASSUME NEW j \in Jobs, BoatJob(j) PROVE TurnOf(j, "boat")
  <2>1. PICK dst \in Tiles : BoatLands(j, dst)
    BY <1>1, <1>6 DEF BoatJob, BoatRefused, BoatFindsNoPath, BoatIsLost, BoatIsHomeless, BoatSails,
                      BoatMoves, world
  <2>2. Due(j, "boat") /\ cursor' = j /\ j > cursor
    BY <2>1 DEF BoatLands, Due, EndTurn
  <2>3. j \in Int
    BY Numbers DEF Jobs
  <2> QED
    BY <2>2, <2>3 DEF TurnOf, Due
<1> QED
  BY <1>2, <1>3, <1>4, <1>5, <1>6 DEF Next, Tick, AttackJob

\* On any map, with any alliances made and broken on the way: land passes between
\* friends only where a boat lands.
THEOREM FriendsKeepTheirLandHolds == Spec => FriendsKeepTheirLand
<1> DEFINE A == \A t \in Tiles : owner[t] # Neutral /\ owner'[t] # owner[t]
                        /\ Friendly(owner'[t], owner[t])
                        => \E j \in Jobs : TurnOf(j, "boat")
<1>1. FriendInv /\ [Next]_vars => [A]_vars
  BY OnlyBoatsLandOnFriends DEF Gifted
<1>2. Init => FriendInv
  BY InitLand DEF Init, FriendInv, LoopInv
<1>3. FriendInv /\ [Next]_vars => FriendInv'
  BY StepLand, StepLoop DEF FriendInv, LandInv
<1>4. FriendsKeepTheirLand <=> [][A]_vars
  BY DEF FriendsKeepTheirLand
<1> HIDE DEF A
<1> QED
  BY <1>1, <1>2, <1>3, <1>4, PTL DEF Spec

-----------------------------------------------------------------------------
(* The strength of all sides. *)

\* One summand may grow, and by no more than d.
LEMMA GrowsBy ==
    ASSUME NEW n \in Nat, NEW f \in [1 .. n -> Int], NEW g \in [1 .. n -> Int],
           NEW k \in 1 .. n, NEW d \in Int, g[k] <= f[k] + d,
           \A i \in 1 .. n : i # k => g[i] <= f[i]
    PROVE  Total(n, f) \in Int /\ Total(n, g) \in Int /\ Total(n, g) <= Total(n, f) + d
<1> DEFINE h == [i \in 1 .. n |-> IF i = k THEN f[k] + d ELSE f[i]]
<1>1. h \in [1 .. n -> Int] /\ h[k] = f[k] + d /\ \A i \in 1 .. n : i # k => h[i] = f[i]
  OBVIOUS
<1> HIDE DEF h
<1>2. Total(n, h) = Total(n, f) + (h[k] - f[k])
  BY <1>1, TotalChanges
<1>3. f[k] \in Int /\ h[k] - f[k] = d
  BY <1>1
<1>4. \A i \in 1 .. n : g[i] <= h[i]
  BY <1>1
<1>5. Total(n, g) <= Total(n, h) /\ Total(n, g) \in Int /\ Total(n, f) \in Int
  BY <1>1, <1>4, SumsTogether
<1> QED
  BY <1>2, <1>3, <1>5

\* The troops in the field and at sea, by job.
Fielded == [a \in Jobs |-> IF a \in InTheField THEN attack[a].troops ELSE 0]
Cargo == [b \in Jobs |-> IF unit[b] = Neutral THEN 0 ELSE boat[b].troops]

AtHome  == Worth(Total(NumPlayers, troops))
InField == Total(MaxJobs, Fielded)
OnBoard == Total(MaxJobs, Cargo)

LEMMA StrengthIsSum ==
    /\ Strength = AtHome + InField + OnBoard
    /\ Strength' = AtHome' + InField' + OnBoard'
  BY DEF Strength, AtHome, InField, OnBoard, Fielded, Cargo, SumTroops, Worth

LEMMA CountsAreInts ==
    ASSUME WarInv
    PROVE  /\ troops \in [1 .. NumPlayers -> Int]
           /\ Fielded \in [1 .. MaxJobs -> Int] /\ Cargo \in [1 .. MaxJobs -> Int]
           /\ NumPlayers \in Nat /\ MaxJobs \in Nat
           /\ AtHome \in Int /\ InField \in Int /\ OnBoard \in Int
<1>1. troops \in [1 .. NumPlayers -> Int]
  BY DEF WarInv, Typed, Players
<1>2. Fielded \in [1 .. MaxJobs -> Int]
  BY WarIsManned DEF Fielded, Manned, Jobs
<1>3. Cargo \in [1 .. MaxJobs -> Int]
  <2>1. \A b \in Jobs : boat[b].troops \in Nat
    BY DEF WarInv, Typed, BoatType
  <2> QED
    BY <2>1 DEF Cargo, Jobs
<1>4. NumPlayers \in Nat /\ MaxJobs \in Nat
  BY Numbers
<1> HIDE DEF Fielded, Cargo
<1>5. Total(NumPlayers, troops) \in Int /\ InField \in Int /\ OnBoard \in Int
  BY <1>1, <1>2, <1>3, <1>4, SumsTogether DEF InField, OnBoard
<1>6. AtHome \in Int
  BY <1>5, WorthOf DEF AtHome
<1> QED
  BY <1>1, <1>2, <1>3, <1>4, <1>5, <1>6

LEMMA CountsAreIntsNext ==
    ASSUME WarInv'
    PROVE  /\ troops' \in [1 .. NumPlayers -> Int]
           /\ Fielded' \in [1 .. MaxJobs -> Int] /\ Cargo' \in [1 .. MaxJobs -> Int]
           /\ AtHome' \in Int /\ InField' \in Int /\ OnBoard' \in Int
<1>1. troops' \in [1 .. NumPlayers -> Int]
  BY DEF WarInv, Typed, Players
<1>2. Fielded' \in [1 .. MaxJobs -> Int]
  <2>1. \A a \in Jobs : attack'[a].troops \in Nat
    BY DEF WarInv, Typed, AttackType
  <2>2. Fielded' = [a \in Jobs |-> IF a \in InTheField' THEN attack'[a].troops ELSE 0]
    BY DEF Fielded
  <2> QED
    BY <2>1, <2>2 DEF Jobs
<1>3. Cargo' \in [1 .. MaxJobs -> Int]
  <2>1. \A b \in Jobs : boat'[b].troops \in Nat
    BY DEF WarInv, Typed, BoatType
  <2>2. Cargo' = [b \in Jobs |-> IF unit'[b] = Neutral THEN 0 ELSE boat'[b].troops]
    BY DEF Cargo, Neutral
  <2> QED
    BY <2>1, <2>2 DEF Jobs
<1>4. /\ AtHome' = Worth(Total(NumPlayers, troops')) /\ InField' = Total(MaxJobs, Fielded')
      /\ OnBoard' = Total(MaxJobs, Cargo')
  BY DEF AtHome, InField, OnBoard, Worth
<1> HIDE DEF Fielded, Cargo
<1>5. Total(NumPlayers, troops') \in Int /\ InField' \in Int /\ OnBoard' \in Int
  BY <1>1, <1>2, <1>3, <1>4, Numbers, SumsTogether
<1>6. AtHome' \in Int
  BY <1>4, <1>5, WorthOf
<1> QED
  BY <1>1, <1>2, <1>3, <1>5, <1>6

\* What leaves one place, and what arrives at others.
LEMMA Balance ==
    ASSUME WarInv, WarInv', NEW x \in Int, NEW y \in Int, NEW z \in Int, x + y + z <= 0,
           AtHome' <= AtHome + x, InField' <= InField + y, OnBoard' <= OnBoard + z
    PROVE  ~(Strength' > Strength)
  BY StrengthIsSum, CountsAreInts, CountsAreIntsNext

LEMMA ThreeSums ==
    ASSUME NEW a \in Int, NEW b \in Int, NEW c \in Int, NEW x \in Int, NEW y \in Int,
           NEW z \in Int, NEW d \in Int, x + y + z < d, NEW aa \in Int, NEW bb \in Int,
           NEW cc \in Int, aa <= a + x, bb <= b + y, cc <= c + z
    PROVE  aa + bb + cc < a + b + c + d
  OBVIOUS

\* And what a force keeps that its player does not pay.
LEMMA Margin ==
    ASSUME WarInv, WarInv', NEW x \in Int, NEW y \in Int, NEW z \in Int, x + y + z < Parts,
           AtHome' <= AtHome + x, InField' <= InField + y, OnBoard' <= OnBoard + z
    PROVE  Strength' < Strength + Parts
<1>1. /\ Strength = AtHome + InField + OnBoard /\ Strength' = AtHome' + InField' + OnBoard'
      /\ AtHome \in Int /\ InField \in Int /\ OnBoard \in Int
      /\ AtHome' \in Int /\ InField' \in Int /\ OnBoard' \in Int
  BY StrengthIsSum, CountsAreInts, CountsAreIntsNext
<1>2. /\ AtHome' <= AtHome + x /\ InField' <= InField + y /\ OnBoard' <= OnBoard + z
      /\ x + y + z < Parts /\ Parts \in Int
  BY PartsArePositive
<1> QED
  BY <1>1, <1>2, ThreeSums

\* Nobody arrives.
LEMMA HomeStays ==
    ASSUME WarInv, WarInv', \A p \in Players : troops'[p] <= troops[p]
    PROVE  AtHome' <= AtHome + 0
<1>1. /\ Total(NumPlayers, troops') <= Total(NumPlayers, troops)
      /\ Total(NumPlayers, troops') \in Int /\ Total(NumPlayers, troops) \in Int
  BY CountsAreInts, CountsAreIntsNext, SumsTogether DEF Players
<1>2. Worth(Total(NumPlayers, troops')) <= Worth(Total(NumPlayers, troops))
  BY <1>1, WorthOf
<1>3. AtHome' = Worth(Total(NumPlayers, troops')) /\ AtHome = Worth(Total(NumPlayers, troops))
  BY DEF AtHome, Worth
<1> QED
  BY <1>2, <1>3, CountsAreInts

LEMMA FieldStays ==
    ASSUME WarInv, WarInv',
           \A a \in InTheField' : a \in InTheField /\ attack'[a].troops <= attack[a].troops
    PROVE  InField' <= InField + 0
<1>1. ASSUME NEW a \in 1 .. MaxJobs PROVE Fielded'[a] <= Fielded[a]
  <2>1. attack[a].troops \in Nat /\ attack'[a].troops \in Nat /\ a \in Jobs
    BY DEF WarInv, Typed, AttackType, Jobs
  <2>2. /\ Fielded'[a] = IF a \in InTheField' THEN attack'[a].troops ELSE 0
        /\ Fielded[a] = IF a \in InTheField THEN attack[a].troops ELSE 0
    BY <2>1 DEF Fielded
  <2> QED
    BY <2>1, <2>2
<1>2. Total(MaxJobs, Fielded') <= Total(MaxJobs, Fielded)
  BY <1>1, CountsAreInts, CountsAreIntsNext, SumsTogether
<1> QED
  BY <1>2, CountsAreInts DEF InField

LEMMA SeaStays ==
    ASSUME WarInv, WarInv',
           \A b \in Jobs : unit'[b] # Neutral => /\ unit[b] # Neutral
                                                 /\ boat'[b].troops <= boat[b].troops
    PROVE  OnBoard' <= OnBoard + 0
<1>1. ASSUME NEW b \in 1 .. MaxJobs PROVE Cargo'[b] <= Cargo[b]
  <2>1. boat[b].troops \in Nat /\ boat'[b].troops \in Nat /\ b \in Jobs
    BY DEF WarInv, Typed, BoatType, Jobs
  <2>2. /\ Cargo'[b] = IF unit'[b] = Neutral THEN 0 ELSE boat'[b].troops
        /\ Cargo[b] = IF unit[b] = Neutral THEN 0 ELSE boat[b].troops
    BY <2>1 DEF Cargo, Neutral
  <2> QED
    BY <2>1, <2>2
<1>2. Total(MaxJobs, Cargo') <= Total(MaxJobs, Cargo)
  BY <1>1, CountsAreInts, CountsAreIntsNext, SumsTogether
<1> QED
  BY <1>2, CountsAreInts DEF OnBoard

\* Some arrive at, or leave, one home, one force or one boat.
LEMMA HomeBy ==
    ASSUME WarInv, WarInv', NEW p \in Players, NEW d \in Int,
           troops' = [troops EXCEPT ![p] = troops[p] + d]
    PROVE  AtHome' <= AtHome + Worth(d)
<1>1. p \in 1 .. NumPlayers /\ troops[p] \in Int /\ \A q \in 1 .. NumPlayers : troops[q] \in Int
  BY CountsAreInts DEF Players
<1>2. troops'[p] <= troops[p] + d /\ \A q \in 1 .. NumPlayers : q # p => troops'[q] <= troops[q]
  BY <1>1, CountsAreInts
<1> DEFINE old == Total(NumPlayers, troops)
           new == Total(NumPlayers, troops')
<1>3. new <= old + d /\ new \in Int /\ old \in Int
  BY <1>1, <1>2, CountsAreInts, CountsAreIntsNext, GrowsBy
<1>4. AtHome' = Worth(new) /\ AtHome = Worth(old)
  BY DEF AtHome, Worth
<1> HIDE DEF old, new
<1>5. old + d \in Int
  BY <1>3
<1>6. Worth(new) <= Worth(old + d) /\ Worth(old + d) = Worth(old) + Worth(d)
  BY <1>3, <1>5, WorthOf
<1> QED
  BY <1>4, <1>6

LEMMA FieldBy ==
    ASSUME WarInv, WarInv', NEW j \in Jobs, NEW d \in Int, Fielded'[j] <= Fielded[j] + d,
           \A a \in Jobs \ {j} : Fielded'[a] <= Fielded[a]
    PROVE  InField' <= InField + d
<1>1. Total(MaxJobs, Fielded') <= Total(MaxJobs, Fielded) + d
  BY CountsAreInts, CountsAreIntsNext, GrowsBy DEF Jobs
<1> QED
  BY <1>1 DEF InField

LEMMA SeaBy ==
    ASSUME WarInv, WarInv', NEW j \in Jobs, NEW d \in Int, Cargo'[j] <= Cargo[j] + d,
           \A b \in Jobs \ {j} : unit'[b] = unit[b] /\ boat'[b] = boat[b]
    PROVE  OnBoard' <= OnBoard + d
<1>1. ASSUME NEW b \in Jobs \ {j} PROVE Cargo'[b] <= Cargo[b]
  <2>1. Cargo[b] \in Int
    BY CountsAreInts DEF Jobs
  <2>2. Cargo'[b] = Cargo[b]
    BY DEF Cargo, Neutral
  <2> QED
    BY <2>1, <2>2
<1>2. Total(MaxJobs, Cargo') <= Total(MaxJobs, Cargo) + d
  BY <1>1, CountsAreInts, CountsAreIntsNext, GrowsBy DEF Jobs
<1> QED
  BY <1>2 DEF OnBoard

-----------------------------------------------------------------------------
\* A number that is not given out yet has no ship.
SeaInv == \A b \in Jobs : job[b].stage = "unused" => unit[b] = Neutral

LEMMA UsedStayUsed ==
    ASSUME Listed, [Next]_vars, NEW b \in Jobs, job'[b].stage = "unused"
    PROVE  job[b].stage = "unused"
<1>1. CASE Orders
  BY <1>1, OrdersListed
<1>2. CASE DiplomacyTurn \/ StartTick \/ StartInits \/ UNCHANGED vars
  BY <1>2 DEF DiplomacyTurn, Ally, Break, MarkDisconnected, Diplomatic, StartTick, StartInits, vars
<1>3. CASE EndTick
  BY <1>3 DEF EndTick, Listed, JobType
<1>4. ASSUME NEW j \in Jobs, Stays(j) \/ Leaves(j) \/ Enters(j) PROVE job[b].stage = "unused"
  BY <1>4, PlainIsListed DEF Moved
<1>5. ASSUME NEW j \in Players, PlayerJob(j) PROVE job[b].stage = "unused"
  BY <1>4, <1>5, OtherTurnsList, Numbers
<1>6. ASSUME NEW j \in Jobs, NEW dst \in Tiles, BoatLands(j, dst) PROVE job[b].stage = "unused"
  <2>1. CASE b # j
    BY <1>6, <2>1, LandingIsListed
  <2>2. CASE b = j
    <3>1. job[j].stage = "running" /\ job[j].owner \in Players /\ job \in [Jobs -> JobType]
      BY <1>6 DEF BoatLands, Due, Live, Listed
    <3>2. j # NextJob
      BY <3>1, NextIsNew
    <3>3. job'[j].stage = "running"
      BY <1>6, <3>1, <3>2 DEF BoatLands, Retired, JobType
    <3> QED
      BY <2>2, <3>3
  <2> QED
    BY <2>1, <2>2
<1>7. ASSUME NEW j \in Jobs, AttackJob(j) \/ RetreatJob(j) \/ GiftJob(j) \/ BoatJob(j)
      PROVE  job[b].stage = "unused"
  BY <1>4, <1>6, <1>7, StartsList, AttackTurnList, OtherTurnsList
     DEF AttackJob, RetreatJob, GiftJob, BoatJob
<1> QED
  BY <1>1, <1>2, <1>3, <1>5, <1>7 DEF Next, Tick

LEMMA CapturedAreOld ==
    ASSUME LandInv, NEW c, NEW g, NEW b \in Jobs, Captured(c, g)[b] # Neutral
    PROVE  unit[b] # Neutral
<1>1. Neutral \notin offline
  BY Numbers DEF LandInv
<1> QED
  BY <1>1 DEF Captured

\* Only a boat that sails puts a ship on the sea.
Landbound == \/ Orders \/ DiplomacyTurn \/ StartTick \/ StartInits \/ EndTick \/ UNCHANGED vars
             \/ \E j \in Players : PlayerJob(j)
             \/ \E j \in Jobs : AttackJob(j) \/ RetreatJob(j) \/ GiftJob(j)

LEMMA FleetStays ==
    ASSUME LandInv, NEW b \in Jobs, unit'[b] # Neutral,
           Landbound \/ \E j \in Jobs : BoatJob(j) /\ ~\E dst \in Tiles : BoatSails(j, dst)
    PROVE  unit[b] # Neutral
<1> SUFFICES ASSUME unit[b] = Neutral PROVE FALSE
  OBVIOUS
<1>1. unit' # unit
  OBVIOUS
<1>2. CASE Orders \/ DiplomacyTurn \/ StartTick \/ StartInits \/ EndTick \/ UNCHANGED vars
  BY <1>1, <1>2 DEF Orders, OrderAttack, OrderBoat, OrderGift, OrderRetreat, OrderRecall, Add,
     DiplomacyTurn, Ally, Break, MarkDisconnected, Diplomatic, StartTick, StartInits, EndTick,
     world, vars
<1>3. ASSUME NEW p, Annex(p) PROVE FALSE
  <2>1. PICK S : AnnexAll(p, S)
    BY <1>3 DEF Annex
  <2>2. \E c : unit' = Captured(c, p) \/ unit' = unit
    BY <2>1 DEF AnnexAll
  <2> QED
    BY <1>1, <2>2, CapturedAreOld
<1>4. ASSUME NEW j \in Players, PlayerJob(j) PROVE FALSE
  <2>1. CASE Reap(j)
    BY <2>1 DEF Reap
  <2>2. CASE PlayerTurn(j)
    BY <1>1, <1>3, <2>2 DEF PlayerTurn
  <2> QED
    BY <1>4, <2>1, <2>2 DEF PlayerJob
<1>5. ASSUME NEW j \in Jobs, AttackJob(j) \/ RetreatJob(j) \/ GiftJob(j) PROVE FALSE
  <2>1. ASSUME NEW t, NEW again, NEW twice, AttackConquers(j, t, again, twice) PROVE FALSE
    BY <1>1, <2>1, CapturedAreOld DEF AttackConquers, ConquerTile
  <2>2. CASE ~\E t, again, twice : AttackConquers(j, t, again, twice)
    BY <1>1, <1>5, <2>2 DEF AttackJob, AttackRefused, AttackStarts, AttackTurn, AttackRetreats,
       AttackIsGone, AttackWaits, AttackMeetsFriend, AttackIdles, AttackRunsOut, AttackRunsDry,
       AttackSkips, RetreatJob, RetreatStarts, RetreatTurn, RecallTurn, GiftJob, GiftStarts,
       GiftTurn, GiftRefused, world
  <2> QED
    BY <2>1, <2>2
<1>6. ASSUME NEW j \in Jobs, BoatJob(j), ~\E dst \in Tiles : BoatSails(j, dst) PROVE FALSE
  BY <1>1, <1>6 DEF BoatJob, BoatRefused, BoatFindsNoPath, BoatIsLost, BoatIsHomeless, BoatMoves,
                    BoatLands, Sunk, LandInv, world
<1> QED
  BY <1>2, <1>4, <1>5, <1>6 DEF Landbound

\* A ship that is new is one that sails.
LEMMA ShipsAreOld ==
    ASSUME LandInv, [Next]_vars, NEW b \in Jobs, unit'[b] # Neutral, unit[b] = Neutral
    PROVE  \E dst \in Tiles : BoatSails(b, dst)
<1>1. ASSUME NEW j \in Jobs, NEW dst \in Tiles, BoatSails(j, dst) PROVE j = b
  BY <1>1 DEF BoatSails, LandInv
<1>2. Landbound \/ \E j \in Jobs : BoatJob(j)
  BY DEF Next, Tick, Landbound
<1> QED
  BY <1>1, <1>2, FleetStays

LEMMA StepSea == LandInv /\ SeaInv /\ [Next]_vars => SeaInv'
<1> SUFFICES ASSUME LandInv, SeaInv, [Next]_vars, NEW b \in Jobs, job'[b].stage = "unused",
                    unit'[b] # Neutral
             PROVE  FALSE
  BY DEF SeaInv, Neutral
<1>1. job[b].stage = "unused" /\ unit[b] = Neutral
  BY UsedStayUsed DEF SeaInv, LandInv, ForcesInv
<1>2. PICK dst \in Tiles : BoatSails(b, dst)
  BY <1>1, ShipsAreOld
<1> QED
  BY <1>1, <1>2 DEF BoatSails, DueInit

TroopInv == WarInv /\ SeaInv

LEMMA StepTroops == TroopInv /\ [Next]_vars => TroopInv'
  BY StepWar, StepSea DEF TroopInv, WarInv

LEMMA InitTroopInv == Init => TroopInv
<1>1. Init => SeaInv
  BY DEF Init, SeaInv
<1> QED
  BY <1>1, InitWar DEF TroopInv

-----------------------------------------------------------------------------
(* Steps in which no troops move. *)

Idle == ~(Strength' > Strength)

LEMMA NobodyArrives ==
    ASSUME WarInv, WarInv', \A p \in Players : troops'[p] <= troops[p],
           \A a \in InTheField' : a \in InTheField /\ attack'[a].troops <= attack[a].troops,
           \A b \in Jobs : unit'[b] # Neutral => /\ unit[b] # Neutral
                                                 /\ boat'[b].troops <= boat[b].troops
    PROVE  Idle
<1>1. AtHome' <= AtHome + 0 /\ InField' <= InField + 0 /\ OnBoard' <= OnBoard + 0
  BY HomeStays, FieldStays, SeaStays
<1> QED
  BY <1>1, Balance DEF Idle

\* Troops at home, in the field and at sea that are left alone.
LEMMA Unmoved ==
    ASSUME WarInv
    PROVE  /\ \A p \in Players : troops[p] <= troops[p]
           /\ \A a \in Jobs : attack[a].troops <= attack[a].troops
           /\ \A b \in Jobs : boat[b].troops <= boat[b].troops
<1>1. /\ \A p \in Players : troops[p] \in Nat
      /\ \A a \in Jobs : attack[a].troops \in Nat /\ boat[a].troops \in Nat
  BY DEF WarInv, Typed, AttackType, BoatType
<1> QED
  BY <1>1

LEMMA FieldIsJobs == InTheField \subseteq Jobs
  BY DEF InTheField

\* The turn of an execution that does not set out leaves the forces in the field, or
\* fewer of them.
LEMMA NobodySetsOut ==
    ASSUME WarInv, NEW j \in Jobs,
           Stays(j) \/ Leaves(j) \/ (Enters(j) /\ (job[j].kind # "attack" \/ ~job'[j].active)),
           \A a \in Jobs : /\ attack'[a].live => attack[a].live
                           /\ attack'[a].source = attack[a].source,
           NEW a \in InTheField'
    PROVE  a \in InTheField
<1>1. a \in Jobs /\ (Standing(a)' \/ /\ job'[a].stage = "queued" /\ job'[a].kind = "attack"
                                     /\ attack'[a].source # Nowhere)
  BY DEF InTheField
<1>2. Listed
  BY DEF WarInv, LandInv, ForcesInv
<1>3. attack'[a].live => attack[a].live
  BY <1>1
<1>4. attack'[a].source = attack[a].source
  BY <1>1
<1>5. job'[a] = job[a] => a \in InTheField
  BY <1>1, <1>3, <1>4 DEF Standing, InTheField
<1>6. CASE a # j
  BY <1>1, <1>2, <1>5, <1>6, PlainIsListed DEF Moved
<1>7. CASE a = j /\ Stays(j)
  BY <1>5, <1>7 DEF Stays
<1>8. CASE a = j /\ Leaves(j)
  <2>1. job'[a].active = FALSE /\ job'[a].stage = job[a].stage /\ job'[a].kind = job[a].kind
    BY <1>2, <1>8, RetiredMoves DEF Leaves, Moved
  <2> QED
    BY <1>1, <1>4, <2>1 DEF Standing, InTheField
<1>9. CASE a = j /\ Enters(j) /\ (job[j].kind # "attack" \/ ~job'[j].active)
  <2>1. job'[a].stage = "inited" /\ job'[a].kind = job[a].kind
    BY <1>2, <1>9, InitedMoves DEF Enters, Moved
  <2> QED
    BY <1>1, <1>9, <2>1 DEF Standing
<1> QED
  BY <1>6, <1>7, <1>8, <1>9

\* An order adds a force, a boat, a gift or a retreat that holds no troops yet.
LEMMA OrdersAreIdle == ASSUME TroopInv, TroopInv', Orders PROVE Idle
<1> DEFINE k == NextJob
<1>1. troops' = troops /\ unit' = unit
  BY DEF Orders, OrderAttack, OrderBoat, OrderGift, OrderRetreat, OrderRecall, Add
<1>2. PICK kind \in Kinds, p \in Players, n \in {1, 2} : Add(kind, p, n)
  BY OrderIsAdd
<1>3. /\ k \in Jobs /\ job[k].stage = "unused"
      /\ job'[k].stage = "queued" /\ \A i \in Jobs \ {k} : job'[i] = job[i]
  BY <1>2, AddIsListed, NewJobType DEF TroopInv, WarInv, LandInv, ForcesInv, Listed
<1>4. /\ \A i \in Jobs \ {k} : attack'[i] = attack[i] /\ boat'[i] = boat[i]
      /\ job'[k].kind = "attack" => attack'[k].source = Nowhere
  <2>1. attack \in [Jobs -> AttackType] /\ boat \in [Jobs -> BoatType]
        /\ job \in [Jobs -> JobType]
    BY DEF TroopInv, WarInv, Typed, LandInv, ForcesInv, Listed
  <2>2. ASSUME NEW o \in AttackOrders, OrderAttack(o[1], o[2], o[3])
        PROVE  boat' = boat /\ (\A i \in Jobs \ {k} : attack'[i] = attack[i])
               /\ attack'[k].source = Nowhere
    <3>1. boat' = boat /\ attack' = [attack EXCEPT ![k] = [NoAttack EXCEPT !.target = o[2],
                                             !.troops = o[3], !.live = TRUE]]
      BY <2>2 DEF OrderAttack
    <3> HIDE DEF k
    <3> QED
      BY <1>3, <2>1, <3>1 DEF NoAttack
  <2>3. ASSUME NEW o \in BoatOrders, OrderBoat(o[1], o[2], o[3])
        PROVE  attack' = attack /\ (\A i \in Jobs \ {k} : boat'[i] = boat[i])
               /\ job'[k].kind = "boat"
    <3>1. attack' = attack /\ (\A i \in Jobs \ {k} : boat'[i] = boat[i])
      BY <2>1, <2>3 DEF OrderBoat
    <3>2. job' = [job EXCEPT ![k] = NewJob("boat", o[1])]
      BY <2>3 DEF OrderBoat, Add
    <3> QED
      BY <1>3, <2>1, <3>1, <3>2 DEF NewJob
  <2>4. ASSUME attack' = attack, boat' = boat, NEW s, NEW q, s # "attack",
               job' = [job EXCEPT ![k] = NewJob(s, q)]
        PROVE  job'[k].kind # "attack"
    BY <1>3, <2>1, <2>4 DEF NewJob
  <2>5. ASSUME NEW o \in GiftOrders, OrderGift(o[1], o[2], o[3])
        PROVE  attack' = attack /\ boat' = boat /\ job'[k].kind # "attack"
    BY <2>4, <2>5 DEF OrderGift, Add
  <2>6. ASSUME NEW q \in Players, NEW i \in Jobs, OrderRetreat(q, i) \/ OrderRecall(q, i)
        PROVE  attack' = attack /\ boat' = boat /\ job'[k].kind # "attack"
    BY <2>4, <2>6 DEF OrderRetreat, OrderRecall, Add
  <2> HIDE DEF k
  <2> QED
    BY <2>2, <2>3, <2>5, <2>6 DEF Orders
<1> HIDE DEF k
<1>5. ASSUME NEW a \in InTheField'
      PROVE  a \in InTheField /\ attack'[a].troops <= attack[a].troops
  <2>1. a \in Jobs /\ (Standing(a)' \/ /\ job'[a].stage = "queued" /\ job'[a].kind = "attack"
                                       /\ attack'[a].source # Nowhere)
    BY DEF InTheField
  <2>2. a # k
    BY <1>3, <1>4, <2>1 DEF Standing
  <2>3. job'[a] = job[a] /\ attack'[a] = attack[a]
    BY <1>3, <1>4, <2>1, <2>2
  <2>4. a \in InTheField
    BY <2>1, <2>3 DEF Standing, InTheField
  <2> QED
    BY <2>1, <2>3, <2>4, Unmoved DEF TroopInv
<1>6. ASSUME NEW b \in Jobs, unit'[b] # Neutral
      PROVE  unit[b] # Neutral /\ boat'[b].troops <= boat[b].troops
  BY <1>1, <1>3, <1>4, <1>6, Unmoved DEF TroopInv, SeaInv
<1>7. \A q \in Players : troops'[q] <= troops[q]
  BY <1>1, Unmoved DEF TroopInv
<1> QED
  BY <1>5, <1>6, <1>7, NobodyArrives DEF TroopInv

\* What the end of the tick drops is neither in the field nor at sea.
LEMMA EndTickIsIdle == ASSUME WarInv, WarInv', EndTick PROVE Idle
<1> DEFINE dropped == {j \in Jobs : job[j].stage = "running" /\ ~job[j].active}
<1>1. /\ attack' = [j \in Jobs |-> IF j \in dropped THEN NoAttack ELSE attack[j]]
      /\ boat' = [j \in Jobs |-> IF j \in dropped THEN NoBoat ELSE boat[j]]
      /\ troops' = troops /\ unit' = unit /\ job \in [Jobs -> JobType]
  BY DEF EndTick, WarInv, LandInv, ForcesInv, Listed
<1>2. ASSUME NEW a \in InTheField'
      PROVE  a \in InTheField /\ attack'[a].troops <= attack[a].troops
  <2>1. a \in Jobs /\ (Standing(a)' \/ /\ job'[a].stage = "queued" /\ job'[a].kind = "attack"
                                       /\ attack'[a].source # Nowhere)
    BY DEF InTheField
  <2>2. /\ job'[a].kind = job[a].kind /\ job'[a].active = job[a].active
        /\ job'[a].stage = "queued" => job[a].stage = "queued"
        /\ job'[a].stage = "running" => a \notin dropped /\ job[a].stage \in {"inited", "running"}
        /\ job'[a].stage # "inited"
    BY <1>1, <2>1 DEF EndTick, JobType
  <2>3. a \notin dropped
    BY <2>1, <2>2 DEF Standing
  <2>4. attack'[a] = attack[a]
    BY <1>1, <2>1, <2>3
  <2>5. a \in InTheField
    BY <2>1, <2>2, <2>4 DEF Standing, InTheField
  <2> QED
    BY <2>1, <2>4, <2>5, Unmoved
<1>3. \A b \in Jobs : boat'[b].troops <= boat[b].troops
  <2>1. ASSUME NEW b \in Jobs PROVE boat'[b].troops <= boat[b].troops
    <3>1. boat[b].troops \in Nat
      BY DEF WarInv, Typed, BoatType
    <3>2. boat'[b] = NoBoat \/ boat'[b] = boat[b]
      BY <1>1
    <3>3. NoBoat.troops = 0
      BY DEF NoBoat
    <3> QED
      BY <3>1, <3>2, <3>3
  <2> QED
    BY <2>1
<1> HIDE DEF dropped
<1> QED
  BY <1>1, <1>2, <1>3, NobodyArrives, Unmoved

\* Nor do diplomacy and the clock of the tick move anybody.
LEMMA RestIsIdle ==
    ASSUME WarInv, WarInv', DiplomacyTurn \/ StartTick \/ StartInits \/ UNCHANGED vars
    PROVE  Idle
<1>1. UNCHANGED <<troops, job, attack, boat, unit>>
  BY DEF DiplomacyTurn, Ally, Break, MarkDisconnected, Diplomatic, StartTick, StartInits, world, vars
<1>2. InTheField' = InTheField
  BY <1>1 DEF InTheField, Standing
<1>3. /\ \A a \in InTheField' : a \in InTheField /\ attack'[a].troops <= attack[a].troops
      /\ \A p \in Players : troops'[p] <= troops[p]
      /\ \A b \in Jobs : unit'[b] # Neutral => unit[b] # Neutral /\ boat'[b].troops <= boat[b].troops
  BY <1>1, <1>2, Unmoved, FieldIsJobs
<1> QED
  BY <1>3, NobodyArrives

-----------------------------------------------------------------------------
(* Steps in which troops move. *)

LEMMA FieldedAt ==
    ASSUME WarInv, WarInv', NEW a \in Jobs
    PROVE  /\ attack[a].troops \in Nat /\ attack'[a].troops \in Nat
           /\ Fielded[a] = IF a \in InTheField THEN attack[a].troops ELSE 0
           /\ Fielded'[a] = IF a \in InTheField' THEN attack'[a].troops ELSE 0
  BY DEF Fielded, WarInv, Typed, AttackType

LEMMA CargoAt ==
    ASSUME WarInv, WarInv', NEW b \in Jobs
    PROVE  /\ boat[b].troops \in Nat /\ boat'[b].troops \in Nat
           /\ Cargo[b] = IF unit[b] = Neutral THEN 0 ELSE boat[b].troops
           /\ Cargo'[b] = IF unit'[b] = Neutral THEN 0 ELSE boat'[b].troops
  BY DEF Cargo, Neutral, WarInv, Typed, BoatType

\* Ships that are left alone.
LEMMA SeaIsCalm ==
    ASSUME WarInv, WarInv', boat' = boat,
           Landbound \/ \E j \in Jobs : BoatJob(j) /\ ~\E dst \in Tiles : BoatSails(j, dst)
    PROVE  OnBoard' <= OnBoard + 0
<1>1. \A b \in Jobs : boat'[b].troops <= boat[b].troops
  BY Unmoved
<1>2. \A b \in Jobs : unit'[b] # Neutral => unit[b] # Neutral
  BY FleetStays DEF WarInv
<1> QED
  BY <1>1, <1>2, SeaStays

\* A turn in which nobody sets out and no force grows.
LEMMA FieldIsCalm ==
    ASSUME WarInv, WarInv', NEW j \in Jobs,
           Stays(j) \/ Leaves(j) \/ (Enters(j) /\ (job[j].kind # "attack" \/ ~job'[j].active)),
           \A a \in Jobs : /\ attack'[a].live => attack[a].live
                           /\ attack'[a].source = attack[a].source
                           /\ attack'[a].troops <= attack[a].troops
    PROVE  InField' <= InField + 0
<1>1. \A a \in InTheField' : a \in InTheField
  BY NobodySetsOut
<1>2. \A a \in InTheField' : attack'[a].troops <= attack[a].troops
  BY <1>1, FieldIsJobs
<1> QED
  BY <1>1, <1>2, FieldStays

LEMMA SameFieldIsCalm ==
    ASSUME WarInv, WarInv', NEW j \in Jobs, attack' = attack,
           Stays(j) \/ Leaves(j) \/ (Enters(j) /\ (job[j].kind # "attack" \/ ~job'[j].active))
    PROVE  InField' <= InField + 0
  BY FieldIsCalm, Unmoved

\* The survivors leave the field and go home, all or three quarters of them.
LEMMA GoHomeIsIdle ==
    ASSUME WarInv, WarInv', NEW j \in Jobs, NEW malus \in BOOLEAN, Due(j, "attack"),
           attack[j].live, GoHome(j, malus), boat' = boat, AttackJob(j)
    PROVE  Idle
<1> DEFINE p == job[j].owner
           n == attack[j].troops
           k == IF malus THEN (3 * n) \div 4 ELSE n
           m == Whole(k)
<1>1. p \in Players /\ n \in Nat /\ Listed
  BY OwnerIsPlayer, WarIsManned DEF Due, Manned, WarInv, LandInv, ForcesInv
<1>2. m \in Nat /\ Worth(m) \in Int /\ Worth(m) <= n
  <2>1. k \in Nat /\ k <= n
    BY <1>1, ThreeQuarters
  <2> HIDE DEF k
  <2>2. m \in Nat /\ Worth(m) <= k
    BY <2>1, WholeIsNat
  <2> HIDE DEF m
  <2>3. Worth(m) \in Int
    BY <2>2, WorthOf
  <2> QED
    BY <1>1, <2>1, <2>2, <2>3
<1>3. troops' = [troops EXCEPT ![p] = troops[p] + m]
  BY DEF GoHome
<1>4. OnBoard' <= OnBoard + 0
  BY SeaIsCalm DEF Landbound
<1>5. job[j].stage = "running" /\ job[j].active /\ job[j].kind = "attack" /\ Leaves(j)
  BY DEF Due, Live, GoHome, Leaves
<1>6. /\ job'[j].active = FALSE /\ job'[j].stage = "running"
      /\ \A a \in Jobs \ {j} : job'[a] = job[a]
  BY <1>1, <1>5, RetiredMoves DEF Leaves, Moved
<1>7. \A a \in Jobs \ {j} : attack'[a] = attack[a]
  BY GoHomeIsFormed DEF WarInv, LandInv, ForcesInv
<1>8. Fielded'[j] <= Fielded[j] + (0 - n)
  <2>1. j \in InTheField /\ j \notin InTheField'
    BY <1>5, <1>6 DEF InTheField, Standing
  <2> QED
    BY <1>1, <2>1, FieldedAt
<1>9. ASSUME NEW a \in Jobs \ {j} PROVE Fielded'[a] <= Fielded[a]
  <2>1. a \in InTheField' <=> a \in InTheField
    BY <1>6, <1>7 DEF InTheField, Standing
  <2>2. attack'[a] = attack[a]
    BY <1>7
  <2> QED
    BY <2>1, <2>2, FieldedAt
<1> HIDE DEF m, k, n, p
<1>10. AtHome' <= AtHome + Worth(m)
  <2>1. m \in Int
    BY <1>2
  <2> QED
    BY <1>1, <1>3, <2>1, HomeBy
<1>11. InField' <= InField + (0 - n)
  <2>1. 0 - n \in Int
    BY <1>1
  <2> QED
    BY <1>8, <1>9, <2>1, FieldBy
<1>12. Worth(m) + (0 - n) + 0 <= 0 /\ Worth(m) \in Int /\ 0 - n \in Int
  BY <1>1, <1>2
<1> QED
  BY <1>4, <1>10, <1>11, <1>12, Balance DEF Idle

\* A force that sets out takes its troops from home or from its boat, and from the
\* attacks it absorbs, and keeps the fraction that its player does not pay; those it beats
\* are gone.
Paid(j) == Idle \/ (SetsOut(j) /\ Strength' < Strength + Parts)
LEMMA StartIsPaid == ASSUME WarInv, WarInv', NEW j \in Jobs, AttackStarts(j) PROVE Paid(j)
<1> DEFINE p == job[j].owner
           m == Min(Stoppers(j))
           joined == Left(j) + SumTroops(Absorbed(j))
<1>1. /\ DueInit(j, "attack") /\ p \in Players /\ Muster(j) \in Nat
      /\ Whole(Muster(j)) \in Nat /\ (~Landed(j) => Whole(Muster(j)) <= troops[p])
      /\ Landed(j) => Muster(j) = attack[j].troops
  BY MusterIsNat DEF AttackStarts
<1>2. /\ Left(j) \in Nat /\ Left(j) <= Muster(j)
      /\ Stopped(j) => m \in Jobs \ Fallen(j) /\ Standing(m) /\ Left(j) <= attack[m].troops
  BY <1>1, LeftIsNat
<1>3. Manned /\ SumTroops(Absorbed(j)) \in Nat /\ joined \in Nat
  <2>1. Manned /\ SumTroops(Absorbed(j)) \in Nat
    BY WarIsManned, SumIsNat
  <2> QED
    BY <1>2, <2>1
<1>4. /\ troops' = IF Landed(j) THEN troops ELSE [troops EXCEPT ![p] = @ - Whole(Muster(j))]
      /\ attack' =
         [a \in Jobs |->
            IF a = j THEN [attack[j] EXCEPT !.troops = joined, !.frontier = Opening(j),
                                            !.live = ~Stopped(j)]
            ELSE IF a \in Fallen(j) THEN [attack[a] EXCEPT !.live = FALSE]
            ELSE IF Stopped(j) /\ a = m THEN [attack[a] EXCEPT !.troops = @ - Left(j)]
            ELSE attack[a]]
      /\ job' = Inited(j, ~Stopped(j)) /\ boat' = boat
  BY DEF AttackStarts
<1>5. /\ job[j].stage = "queued" /\ job[j].kind = "attack" /\ Listed /\ ForcesInv
      /\ attack \in [Jobs -> AttackType]
  BY <1>1 DEF DueInit, WarInv, Typed, LandInv, ForcesInv
<1>6. /\ job'[j].stage = "inited" /\ (Stopped(j) => ~job'[j].active)
      /\ \A a \in Jobs \ {j} : job'[a] = job[a]
  <2>1. (~Stopped(j)) \in BOOLEAN
    BY DEF Stopped
  <2> HIDE DEF Stopped
  <2> QED
    BY <1>4, <1>5, <2>1, InitedMoves DEF Moved
<1>7. OnBoard' <= OnBoard + 0
  <2>1. Landbound
    BY DEF Landbound, AttackJob
  <2> QED
    BY <1>4, <2>1, SeaIsCalm
<1>8. /\ ~Standing(j)
      /\ \A a \in Beaten(j) \cup Absorbed(j) : a \in Jobs /\ a # j /\ Standing(a)
      /\ \A a \in Jobs \ {j} : a \in Fallen(j) <=> a \in Beaten(j) \cup Absorbed(j)
  BY <1>1, <1>5, FallenWereStanding
<1> HIDE DEF joined, m, p
<1>9. attack'[j].troops = joined
  BY <1>4, <1>5 DEF AttackType
<1>10. ASSUME NEW a \in Jobs \ {j}
       PROVE  Fielded'[a] <= IF a \in Fallen(j) THEN 0 ELSE Fielded[a]
  <2>1. job'[a] = job[a] /\ attack[a] \in AttackType
    BY <1>5, <1>6
  <2>2. CASE a \in Fallen(j)
    <3>1. Standing(a)
      BY <1>8, <2>2
    <3>2. ~attack'[a].live
      BY <1>4, <2>1, <2>2 DEF AttackType
    <3>3. a \notin InTheField'
      BY <2>1, <3>1, <3>2 DEF InTheField, Standing
    <3> QED
      BY <2>2, <3>3, FieldedAt
  <2>3. CASE a \notin Fallen(j)
    <3>1. /\ attack'[a].live = attack[a].live /\ attack'[a].source = attack[a].source
          /\ attack'[a].troops <= attack[a].troops
      <4>1. CASE Stopped(j) /\ a = m
        <5>1. attack'[a] = [attack[a] EXCEPT !.troops = @ - Left(j)]
          BY <1>4, <2>3, <4>1
        <5>2. attack[a].troops \in Nat /\ attack[a].troops - Left(j) <= attack[a].troops
          BY <1>2, <2>1 DEF AttackType
        <5> QED
          BY <2>1, <5>1, <5>2 DEF AttackType
      <4>2. CASE ~(Stopped(j) /\ a = m)
        <5>1. attack'[a] = attack[a]
          BY <1>4, <2>3, <4>2
        <5> QED
          BY <5>1, Unmoved
      <4> QED
        BY <4>1, <4>2
    <3>2. a \in InTheField' <=> a \in InTheField
      BY <2>1, <3>1 DEF InTheField, Standing
    <3> QED
      BY <2>3, <3>1, <3>2, FieldedAt
  <2> QED
    BY <2>2, <2>3
<1>11. \A a \in Jobs \ {j} : Fielded'[a] <= Fielded[a]
  <2>1. \A a \in Jobs : Fielded[a] \in Nat
    BY FieldedAt
  <2>2. \A a \in Jobs : Fielded'[a] \in Nat
    BY FieldedAt
  <2> QED
    BY <1>10, <2>1, <2>2
<1>12. /\ j \in InTheField <=> Landed(j)
       /\ Stopped(j) => j \notin InTheField'
  BY <1>5, <1>6, <1>8 DEF InTheField, Standing, Landed
<1>13. CASE Stopped(j) \/ Landed(j)
  <2>1. Fielded'[j] <= Fielded[j] + 0
    <3>1. CASE Stopped(j)
      BY <1>12, <3>1, FieldedAt
    <3>2. CASE ~Stopped(j) /\ Landed(j)
      <4>1. Absorbed(j) = {} /\ SumTroops({}) = 0
        BY <1>3, <3>2, SumOfNone DEF Absorbed
      <4>2. attack'[j].troops <= attack[j].troops
        BY <1>1, <1>2, <1>9, <3>2, <4>1 DEF joined
      <4> QED
        BY <1>12, <3>2, <4>2, FieldedAt
    <3> QED
      BY <1>13, <3>1, <3>2
  <2>2. InField' <= InField + 0
    BY <1>11, <2>1, FieldBy
  <2>3. \A q \in Players : troops'[q] <= troops[q]
    <3>1. troops \in [Players -> Nat]
      BY DEF WarInv, Typed
    <3> QED
      BY <1>1, <1>4, <3>1
  <2>4. AtHome' <= AtHome + 0
    BY <2>3, HomeStays
  <2> QED
    BY <1>7, <2>2, <2>4, Balance DEF Idle, Paid
<1>14. CASE ~Stopped(j) /\ ~Landed(j)
  <2> DEFINE w == Whole(Muster(j))
  <2>0. /\ w \in Nat /\ Worth(w) \in Int /\ Worth(0 - w) = 0 - Worth(w)
        /\ Muster(j) < Worth(w) + Parts
    BY <1>1, WholeIsNat, WorthOf
  <2>1. AtHome' <= AtHome + (0 - Worth(w))
    <3>1. troops' = [troops EXCEPT ![p] = troops[p] + (0 - w)]
      <4>1. troops[p] - w = troops[p] + (0 - w)
        BY <1>1 DEF WarInv, Typed
      <4> QED
        BY <1>4, <1>14, <4>1
    <3> HIDE DEF w
    <3>2. 0 - w \in Int
      BY <2>0
    <3>3. AtHome' <= AtHome + Worth(0 - w)
      BY <1>1, <3>1, <3>2, HomeBy
    <3> QED
      BY <2>0, <3>3
  <2> HIDE DEF w
  <2> DEFINE h == [a \in 1 .. MaxJobs |-> IF a \in Absorbed(j) THEN 0 ELSE Fielded[a]]
  <2>2. /\ h \in [1 .. MaxJobs -> Int] /\ Fielded \in [1 .. MaxJobs -> Int]
        /\ Fielded' \in [1 .. MaxJobs -> Int] /\ MaxJobs \in Nat
    BY CountsAreInts, CountsAreIntsNext
  <2>3. Total(MaxJobs, Fielded) = Total(MaxJobs, h) + SumTroops(Absorbed(j))
    <3>1. /\ Share(Absorbed(j)) \in [1 .. MaxJobs -> Int]
          /\ SumTroops(Absorbed(j)) = Total(MaxJobs, Share(Absorbed(j)))
          /\ \A a \in 1 .. MaxJobs : Share(Absorbed(j))[a] = IF a \in Absorbed(j)
                                                             THEN attack[a].troops ELSE 0
      BY <1>3, ShareIsNat
    <3>2. ASSUME NEW a \in 1 .. MaxJobs PROVE Fielded[a] = h[a] + Share(Absorbed(j))[a]
      <4>0. a \in Jobs
        BY DEF Jobs
      <4>1. Fielded[a] \in Int /\ attack[a].troops \in Int
        <5>1. attack[a].troops \in Nat
          BY <4>0, FieldedAt
        <5> QED
          BY <2>2, <5>1
      <4>2. CASE a \in Absorbed(j)
        <5>1. a \in InTheField
          BY <1>8, <4>0, <4>2 DEF InTheField
        <5> QED
          BY <3>1, <4>0, <4>1, <4>2, <5>1, FieldedAt
      <4>3. CASE a \notin Absorbed(j)
        BY <3>1, <4>1, <4>3
      <4> QED
        BY <4>2, <4>3
    <3> HIDE DEF h
    <3>3. \A g \in [1 .. MaxJobs -> Int], f \in [1 .. MaxJobs -> Int] :
            (\A i \in 1 .. MaxJobs : f[i] = h[i] + g[i])
            => Total(MaxJobs, f) = Total(MaxJobs, h) + Total(MaxJobs, g)
      BY <2>2, SumsTogether
    <3> QED
      BY <2>2, <3>1, <3>2, <3>3
  <2>4. Fielded'[j] <= h[j] + joined
    <3>1. j \in 1 .. MaxJobs /\ j \notin Absorbed(j)
      BY <1>8 DEF Jobs
    <3>2. h[j] = Fielded[j]
      BY <3>1
    <3>3. Fielded[j] \in Nat /\ Fielded'[j] <= joined
      BY <1>3, <1>9, FieldedAt
    <3> HIDE DEF h
    <3>4. Fielded'[j] \in Int
      BY FieldedAt
    <3> QED
      BY <1>3, <3>2, <3>3, <3>4
  <2>5. ASSUME NEW a \in 1 .. MaxJobs, a # j PROVE Fielded'[a] <= h[a]
    <3>1. a \in Jobs \ {j}
      BY <2>5 DEF Jobs
    <3>2. CASE a \in Absorbed(j)
      BY <1>8, <1>10, <3>1, <3>2
    <3>3. CASE a \notin Absorbed(j)
      BY <1>11, <3>1, <3>3 DEF Jobs
    <3> QED
      BY <3>2, <3>3
  <2> HIDE DEF h
  <2>6. /\ Total(MaxJobs, h) \in Int
        /\ Total(MaxJobs, Fielded') <= Total(MaxJobs, h) + joined
    <3>1. j \in 1 .. MaxJobs /\ joined \in Int
      BY <1>3 DEF Jobs
    <3> QED
      BY <2>2, <2>4, <2>5, <3>1, GrowsBy
  <2>7. InField' <= InField + Left(j)
    <3>1. Total(MaxJobs, Fielded') \in Int
      BY <2>2, SumsTogether
    <3> QED
      BY <1>2, <1>3, <2>3, <2>6, <3>1 DEF InField, joined
  <2>8. /\ (0 - Worth(w)) + Left(j) + 0 < Parts
        /\ 0 - Worth(w) \in Int /\ Left(j) \in Int
    BY <1>1, <1>2, <2>0, PartsArePositive
  <2>9. Strength' < Strength + Parts
    BY <1>7, <2>1, <2>7, <2>8, Margin
  <2>10. SetsOut(j)
    BY <1>5, <1>6, <1>14 DEF SetsOut
  <2> QED
    BY <2>9, <2>10 DEF Paid
<1> QED
  BY <1>13, <1>14

\* A turn of an attack that pays nobody home only loses troops.
LEMMA MarchIsIdle ==
    ASSUME WarInv, WarInv', NEW j \in Jobs, job[j].kind = "attack", AttackJob(j),
           \/ AttackRefused(j) \/ AttackIsGone(j) \/ AttackWaits(j) \/ AttackIdles(j)
           \/ AttackRunsOut(j) \/ (\E t \in attack[j].frontier : AttackSkips(j, t))
           \/ \E t \in attack[j].frontier, again, twice \in BOOLEAN :
                 AttackConquers(j, t, again, twice)
    PROVE  Idle
<1>1. /\ attack \in [Jobs -> AttackType] /\ troops \in [Players -> Nat] /\ Listed
      /\ attack[j] \in AttackType
  BY DEF WarInv, Typed, LandInv, ForcesInv
<1>2. OnBoard' <= OnBoard + 0
  <2>1. boat' = boat
    BY DEF AttackRefused, AttackIsGone, AttackWaits, AttackIdles, AttackRunsOut, AttackSkips,
           AttackConquers, world
  <2>2. Landbound
    BY DEF Landbound
  <2> QED
    BY <2>1, <2>2, SeaIsCalm
<1>3. Stays(j) \/ Leaves(j) \/ (Enters(j) /\ ~job'[j].active)
  <2>1. CASE AttackRefused(j)
    <3>1. job[j].stage = "queued" /\ job' = Inited(j, FALSE) /\ FALSE \in BOOLEAN
      BY <2>1 DEF AttackRefused, DueInit
    <3> QED
      BY <1>1, <3>1, InitedMoves DEF Enters
  <2>2. CASE ~AttackRefused(j)
    BY <2>2 DEF AttackIsGone, AttackWaits, AttackIdles, AttackRunsOut, AttackSkips,
           AttackConquers, Stays, Leaves
  <2> QED
    BY <2>1, <2>2
<1>4. ASSUME troops' = troops,
             \A a \in Jobs : /\ attack'[a].live => attack[a].live
                             /\ attack'[a].source = attack[a].source
                             /\ attack'[a].troops = attack[a].troops
      PROVE  Idle
  <2>1. \A a \in Jobs : attack'[a].troops <= attack[a].troops
    BY <1>4, Unmoved
  <2>2. \A p \in Players : troops'[p] <= troops[p]
    BY <1>4, Unmoved
  <2>3. InField' <= InField + 0 /\ AtHome' <= AtHome + 0
    BY <1>3, <1>4, <2>1, <2>2, FieldIsCalm, HomeStays
  <2> QED
    BY <1>2, <2>3, Balance DEF Idle
<1>5. CASE AttackRefused(j) \/ AttackIsGone(j) \/ AttackWaits(j) \/ AttackIdles(j)
  BY <1>4, <1>5 DEF AttackRefused, AttackIsGone, AttackWaits, AttackIdles, world
<1>6. CASE AttackRunsOut(j)
  <2>1. attack' = Killed({j}) /\ troops' = troops
    BY <1>6 DEF AttackRunsOut
  <2>2. ASSUME NEW a \in Jobs
        PROVE  /\ attack'[a].live => attack[a].live
               /\ attack'[a].source = attack[a].source
               /\ attack'[a].troops = attack[a].troops
    <3>1. attack[a] \in AttackType
      BY <1>1
    <3> QED
      BY <2>1, <3>1 DEF Killed, AttackType
  <2> QED
    BY <1>4, <2>1, <2>2
<1>7. ASSUME NEW t \in attack[j].frontier, AttackSkips(j, t) PROVE Idle
  <2>1. attack' = [attack EXCEPT ![j].frontier = @ \ {t}] /\ troops' = troops
    BY <1>7 DEF AttackSkips
  <2>2. ASSUME NEW a \in Jobs
        PROVE  /\ attack'[a].live = attack[a].live
               /\ attack'[a].source = attack[a].source
               /\ attack'[a].troops = attack[a].troops
    <3>1. attack[a] \in AttackType
      BY <1>1
    <3> QED
      BY <1>1, <2>1, <3>1 DEF AttackType
  <2> QED
    BY <1>4, <2>1, <2>2
<1>8. ASSUME NEW t \in attack[j].frontier, NEW again \in BOOLEAN, NEW twice \in BOOLEAN,
             AttackConquers(j, t, again, twice)
      PROVE  Idle
  <2>1. PICK lost \in AttackerLosses :
          attack' = [attack EXCEPT ![j].troops = Minus(@, lost),
                                   ![j].frontier = Ahead(j, t, twice)]
    BY <1>8 DEF AttackConquers
  <2>2. Minus(attack[j].troops, lost) <= attack[j].troops
    BY <1>1, MinusIsNat, WarfareAssumption DEF AttackType
  <2>3. ASSUME NEW a \in Jobs
        PROVE  /\ attack'[a].live => attack[a].live
               /\ attack'[a].source = attack[a].source
               /\ attack'[a].troops <= attack[a].troops
    <3>1. attack[a] \in AttackType
      BY <1>1
    <3>2. CASE a = j
      BY <1>1, <2>1, <2>2, <3>1, <3>2 DEF AttackType
    <3>3. CASE a # j
      <4>1. attack'[a] = attack[a]
        BY <1>1, <2>1, <3>3
      <4> QED
        BY <4>1, Unmoved
    <3> QED
      BY <3>2, <3>3
  <2>4. \A p \in Players : troops'[p] <= troops[p]
    <3> DEFINE g == attack[j].target
    <3>1. PICK lost2 \in IF g = Neutral THEN {0} ELSE DefenderLosses :
            troops' = IF g = Neutral THEN troops
                      ELSE [troops EXCEPT ![g] = Minus(@, lost2)]
      BY <1>8 DEF AttackConquers
    <3>2. CASE g = Neutral
      BY <3>1, <3>2, Unmoved
    <3>3. CASE g # Neutral
      <4>1. lost2 \in Nat /\ g \in Players /\ troops[g] \in Nat
        BY <1>1, <3>1, <3>3, WarfareAssumption DEF Owners, AttackType
      <4>2. Minus(troops[g], lost2) <= troops[g]
        BY <4>1, MinusIsNat
      <4> HIDE DEF g
      <4> QED
        BY <1>1, <3>1, <3>3, <4>1, <4>2, Unmoved
    <3> QED
      BY <3>2, <3>3
  <2>5. InField' <= InField + 0 /\ AtHome' <= AtHome + 0
    BY <1>3, <2>3, <2>4, FieldIsCalm, HomeStays
  <2> QED
    BY <1>2, <2>5, Balance DEF Idle
<1> QED
  BY <1>5, <1>6, <1>7, <1>8

\* An order to retreat moves nobody yet.
LEMMA RetreatIsIdle == ASSUME WarInv, WarInv', NEW j \in Jobs, RetreatJob(j), job[j].kind # "attack"
                       PROVE  Idle
<1>1. /\ attack \in [Jobs -> AttackType] /\ boat \in [Jobs -> BoatType]
      /\ troops' = troops /\ unit' = unit
  BY DEF WarInv, Typed, RetreatJob, RetreatStarts, RetreatTurn, RecallTurn, world
<1>2. Stays(j) \/ Leaves(j) \/ Enters(j)
  BY StartsList, OtherTurnsList DEF RetreatJob
<1>3. \A a \in Jobs : /\ attack'[a].live = attack[a].live
                      /\ attack'[a].source = attack[a].source
                      /\ attack'[a].troops = attack[a].troops
  <2> DEFINE of == order[j].of
  <2>1. CASE attack' = attack
    BY <2>1
  <2>2. ASSUME NEW x, NEW y, attack' = [attack EXCEPT ![of].retreating = x, ![of].retreated = y]
        PROVE  \A a \in Jobs : /\ attack'[a].live = attack[a].live
                               /\ attack'[a].source = attack[a].source
                               /\ attack'[a].troops = attack[a].troops
    <3> HIDE DEF of
    <3>1. ASSUME NEW a \in Jobs
          PROVE  /\ attack'[a].live = attack[a].live
                 /\ attack'[a].source = attack[a].source
                 /\ attack'[a].troops = attack[a].troops
      <4>1. attack[a] \in AttackType
        BY <1>1
      <4> QED
        BY <1>1, <2>2, <4>1 DEF AttackType
    <3> QED
      BY <3>1
  <2>3. CASE RetreatStarts(j) \/ RecallTurn(j)
    BY <2>1, <2>3 DEF RetreatStarts, RecallTurn, world
  <2>4. CASE RetreatTurn(j)
    BY <2>1, <2>2, <2>4 DEF RetreatTurn
  <2> QED
    BY <2>3, <2>4 DEF RetreatJob
<1>4. \A b \in Jobs : boat'[b].troops = boat[b].troops
  <2>1. boat' = boat \/ \E b : boat' = [boat EXCEPT ![b].retreating = TRUE]
    BY DEF RetreatJob, RetreatStarts, RetreatTurn, RecallTurn, world
  <2>2. ASSUME NEW b, boat' = [boat EXCEPT ![b].retreating = TRUE], NEW i \in Jobs
        PROVE  boat'[i].troops = boat[i].troops
    <3>1. boat[i] \in BoatType
      BY <1>1
    <3> QED
      BY <1>1, <2>2, <3>1 DEF BoatType
  <2> QED
    BY <2>1, <2>2
<1>5. InField' <= InField + 0
  BY <1>2, <1>3, Unmoved, FieldIsCalm
<1>6. AtHome' <= AtHome + 0 /\ OnBoard' <= OnBoard + 0
  BY <1>1, <1>4, Unmoved, HomeStays, SeaStays
<1> QED
  BY <1>5, <1>6, Balance DEF Idle

\* A gift leaves one home and arrives at another.
LEMMA GiftIsIdle == ASSUME WarInv, WarInv', NEW j \in Jobs, GiftJob(j), job[j].kind # "attack"
                    PROVE  Idle
<1>1. UNCHANGED <<attack, boat>> /\ Landbound
  BY DEF GiftJob, GiftStarts, GiftTurn, GiftRefused, Landbound
<1>2. Stays(j) \/ Leaves(j) \/ Enters(j)
  BY StartsList, OtherTurnsList DEF GiftJob
<1>3. InField' <= InField + 0 /\ OnBoard' <= OnBoard + 0
  BY <1>1, <1>2, SameFieldIsCalm, SeaIsCalm
<1>4. AtHome' <= AtHome + 0
  <2>1. CASE ~GiftTurn(j)
    <3>1. troops' = troops
      BY <2>1 DEF GiftJob, GiftStarts, GiftRefused
    <3> QED
      BY <3>1, Unmoved, HomeStays
  <2>2. CASE GiftTurn(j)
    <3> DEFINE p == job[j].owner
               q == order[j].of
               n == Given(p, order[j].troops)
               mid == [troops EXCEPT ![p] = troops[p] - n]
    <3>1. /\ p \in Players /\ q \in Players /\ p # q
          /\ n \in Nat /\ n <= troops[p] /\ troops[p] \in Nat /\ troops[q] \in Nat
          /\ troops' = [troops EXCEPT ![p] = troops[p] - n, ![q] = troops[q] + n]
      BY <2>2, GiftIsThere
    <3> HIDE DEF p, q, n
    <3>2. /\ troops \in [1 .. NumPlayers -> Int] /\ troops' \in [1 .. NumPlayers -> Int]
          /\ NumPlayers \in Nat /\ p \in 1 .. NumPlayers /\ q \in 1 .. NumPlayers
      BY <3>1, CountsAreInts, CountsAreIntsNext DEF Players
    <3>3. /\ mid \in [1 .. NumPlayers -> Int] /\ mid[p] = troops[p] - n
          /\ \A i \in 1 .. NumPlayers : i # p => mid[i] = troops[i]
      BY <3>1, <3>2
    <3>4. /\ troops'[q] = troops[q] + n
          /\ \A i \in 1 .. NumPlayers : i # q => troops'[i] = mid[i]
      BY <3>1, <3>2
    <3> HIDE DEF mid
    <3>5. Total(NumPlayers, mid) = Total(NumPlayers, troops) + (mid[p] - troops[p])
      BY <3>2, <3>3, TotalChanges
    <3>6. Total(NumPlayers, troops') = Total(NumPlayers, mid) + (troops'[q] - mid[q])
      BY <3>2, <3>3, <3>4, TotalChanges
    <3>7. mid[p] - troops[p] = 0 - n /\ troops'[q] - mid[q] = n
      BY <3>1, <3>2, <3>3, <3>4
    <3>8. Total(NumPlayers, troops) \in Int
      BY <3>2, SumsTogether
    <3>9. Total(NumPlayers, troops') = Total(NumPlayers, troops)
      BY <3>1, <3>5, <3>6, <3>7, <3>8
    <3>10. AtHome' = Worth(Total(NumPlayers, troops'))
      BY DEF AtHome, Worth
    <3> QED
      BY <3>9, <3>10, CountsAreInts DEF AtHome
  <2> QED
    BY <2>1, <2>2
<1> QED
  BY <1>3, <1>4, Balance DEF Idle

\* Troops go aboard, and the fraction that their player does not pay with them.
LEMMA SailsIsPaid ==
    ASSUME WarInv, WarInv', NEW j \in Jobs, NEW dst \in Tiles, BoatSails(j, dst)
    PROVE  Paid(j)
<1> DEFINE p == job[j].owner
           n == Aboard(p, boat[j].troops)
           w == Whole(n)
<1>1. /\ p \in Players /\ troops[p] \in Nat /\ n \in Nat /\ w \in Nat /\ w <= troops[p]
      /\ troops' = [troops EXCEPT ![p] = troops[p] - w]
  BY AboardIsThere
<1>2. /\ boat' = [boat EXCEPT ![j] = [@ EXCEPT !.troops = n, !.dst = dst,
                                               !.target = owner[boat[j].ref]]]
      /\ unit' = [unit EXCEPT ![j] = p] /\ attack' = attack /\ job[j].kind = "boat"
      /\ job[j].stage = "queued" /\ job' = Inited(j, TRUE)
  BY DEF BoatSails, DueInit
<1>3. boat \in [Jobs -> BoatType] /\ unit \in [Jobs -> Owners] /\ Listed
  BY DEF WarInv, Typed, LandInv, ForcesInv
<1> HIDE DEF p, n
<1>4. n < Worth(w) + Parts /\ Worth(w) \in Int /\ Worth(0 - w) = 0 - Worth(w)
  BY <1>1, WholeIsNat, WorthOf
<1> HIDE DEF w
<1>5. AtHome' <= AtHome + (0 - Worth(w))
  <2>1. 0 - w \in Int /\ troops[p] - w = troops[p] + (0 - w)
    BY <1>1
  <2>2. AtHome' <= AtHome + Worth(0 - w)
    BY <1>1, <2>1, HomeBy
  <2> QED
    BY <1>4, <2>2
<1>6. InField' <= InField + 0
  <2>1. Enters(j)
    BY StartsList
  <2> QED
    BY <1>2, <2>1, SameFieldIsCalm
<1>7. OnBoard' <= OnBoard + n
  <2>1. boat'[j].troops = n
    BY <1>2, <1>3 DEF BoatType
  <2>2. Cargo'[j] <= Cargo[j] + n
    BY <1>1, <2>1, CargoAt
  <2>3. \A b \in Jobs \ {j} : unit'[b] = unit[b] /\ boat'[b] = boat[b]
    BY <1>2, <1>3
  <2>4. n \in Int
    BY <1>1
  <2> QED
    BY <2>2, <2>3, <2>4, SeaBy
<1>8. (0 - Worth(w)) + 0 + n < Parts /\ 0 - Worth(w) \in Int /\ n \in Int
  BY <1>1, <1>4, PartsArePositive
<1>9. Strength' < Strength + Parts
  BY <1>5, <1>6, <1>7, <1>8, Margin
<1>10. job'[j].stage = "inited"
  <2>1. TRUE \in BOOLEAN
    OBVIOUS
  <2> QED
    BY <1>2, <1>3, <2>1, InitedMoves DEF Moved
<1> QED
  BY <1>2, <1>9, <1>10 DEF SetsOut, Paid

\* A ship that is sunk leaves the sea with its troops.
LEMMA SinksBy ==
    ASSUME WarInv, WarInv', NEW j \in Jobs, unit[j] \in Players, unit' = Sunk(j), boat' = boat
    PROVE  OnBoard' <= OnBoard + (0 - boat[j].troops)
<1>1. unit \in [Jobs -> Owners] /\ boat[j].troops \in Nat /\ unit[j] # Neutral
  BY Numbers DEF WarInv, LandInv, Typed, BoatType
<1>2. unit'[j] = Neutral /\ \A b \in Jobs \ {j} : unit'[b] = unit[b] /\ boat'[b] = boat[b]
  BY <1>1 DEF Sunk
<1>3. Cargo'[j] <= Cargo[j] + (0 - boat[j].troops) /\ 0 - boat[j].troops \in Int
  BY <1>1, <1>2, CargoAt
<1> QED
  BY <1>2, <1>3, SeaBy

\* Troops come ashore: at home, or as a force in the field, never as both.
LEMMA LandsIsIdle ==
    ASSUME WarInv, WarInv', NEW j \in Jobs, NEW dst \in Tiles, BoatLands(j, dst)
    PROVE  Idle
<1> DEFINE p == job[j].owner
           n == boat[j].troops
           g == boat[j].target
           k == NextJob
           home == owner[dst] = p
           join == ~home /\ g # Neutral /\ Friendly(p, g)
           v == CASE home -> Whole((3 * n) \div 4) [] join -> Whole(n) [] OTHER -> 0
           ashore == home \/ join
           new == [NoAttack EXCEPT !.target = g, !.troops = n, !.source = dst, !.live = TRUE]
<1>1. /\ Listed /\ attack \in [Jobs -> AttackType] /\ job \in [Jobs -> JobType]
      /\ Due(j, "boat") /\ p \in Players /\ n \in Nat /\ unit[j] = p
  BY OwnerIsPlayer DEF WarInv, LandInv, ForcesInv, Listed, Typed, BoatType, BoatLands, Due
<1>2. /\ unit' = Sunk(j) /\ boat' = boat /\ troops' = [troops EXCEPT ![p] = @ + v]
  BY DEF BoatLands
<1>3. /\ ashore => job' = Retired(j) /\ attack' = attack
      /\ ~ashore => /\ job' = [Retired(j) EXCEPT ![k] = NewJob("attack", p)]
                    /\ attack' = [attack EXCEPT ![k] = new]
  BY DEF BoatLands
<1>4. v \in Nat /\ Worth(v) \in Int /\ Worth(v) <= n /\ (~ashore => Worth(v) = 0)
  <2>1. (3 * n) \div 4 \in Nat /\ (3 * n) \div 4 <= n
    BY <1>1, ThreeQuarters
  <2>2. ~(home /\ join)
    OBVIOUS
  <2> DEFINE w == Whole((3 * n) \div 4)
             x == Whole(n)
  <2> HIDE DEF p, n, g, home, join
  <2>3. w \in Nat /\ x \in Nat /\ Worth(w) <= (3 * n) \div 4 /\ Worth(x) <= n
    BY <1>1, <2>1, WholeIsNat
  <2>4. /\ home => v = w
        /\ join => v = x
        /\ ~ashore => v = 0
    BY <2>2
  <2>5. ashore <=> home \/ join
    OBVIOUS
  <2> HIDE DEF v, w, x, ashore
  <2>6. v \in Nat
    BY <2>3, <2>4, <2>5
  <2>7. Worth(v) \in Int /\ Worth(w) \in Int /\ Worth(x) \in Int /\ Worth(0) = 0
    <3>1. v \in Int /\ w \in Int /\ x \in Int /\ 0 \in Int
      BY <2>3, <2>6
    <3>2. Worth(v) \in Int /\ Worth(w) \in Int /\ Worth(x) \in Int
      BY <3>1, WorthOf
    <3>3. Worth(0) = 0
      BY PartsArePositive DEF Worth
    <3> QED
      BY <3>2, <3>3
  <2> QED
    BY <1>1, <2>1, <2>3, <2>4, <2>5, <2>6, <2>7
<1>5. attack'[k] = new => attack'[k].troops = n
  BY DEF NoAttack
<1>6. OnBoard' <= OnBoard + (0 - n)
  BY <1>1, <1>2, SinksBy
<1> HIDE DEF v, ashore, new
<1>7. AtHome' <= AtHome + Worth(v)
  <2> HIDE DEF p, n
  <2>1. troops' = [troops EXCEPT ![p] = troops[p] + v] /\ v \in Int
    BY <1>2, <1>4
  <2> QED
    BY <1>1, <2>1, HomeBy
<1>8. CASE ashore
  <2>1. InField' <= InField + 0
    BY <1>3, <1>8, SameFieldIsCalm DEF Leaves
  <2>2. Worth(v) + 0 + (0 - n) <= 0 /\ Worth(v) \in Int /\ 0 - n \in Int
    BY <1>1, <1>4
  <2> QED
    BY <1>6, <1>7, <2>1, <2>2, Balance DEF Idle
<1>9. CASE ~ashore
  <2>1. ASSUME NEW a \in Jobs \ {k} PROVE Fielded'[a] <= Fielded[a]
    <3>1. /\ job'[a].kind = job[a].kind /\ job'[a].stage = job[a].stage
          /\ job'[a].active => job[a].active
      BY <1>1, <1>3, <1>9 DEF Retired, JobType
    <3>2. attack'[a] = attack[a]
      BY <1>1, <1>3, <1>9
    <3>3. a \in InTheField' => a \in InTheField
      BY <3>1, <3>2 DEF InTheField, Standing
    <3> QED
      BY <3>2, <3>3, FieldedAt
  <2>2. InField' <= InField + n
    <3>1. CASE k \in Jobs
      <4>1. attack'[k].troops = n
        BY <1>1, <1>3, <1>5, <1>9, <3>1
      <4>2. Fielded'[k] <= Fielded[k] + n
        <5>1. /\ Fielded[k] \in Nat /\ Fielded'[k] = IF k \in InTheField' THEN n ELSE 0
          <6> HIDE DEF k, n
          <6> QED
            BY <3>1, <4>1, FieldedAt
        <5> HIDE DEF k, n
        <5> QED
          BY <1>1, <5>1
      <4>3. n \in Int
        BY <1>1
      <4> HIDE DEF k, n
      <4> QED
        BY <2>1, <3>1, <4>2, <4>3, FieldBy
    <3>2. CASE k \notin Jobs
      <4>1. Fielded'[j] <= Fielded[j] + n
        <5>1. Fielded'[j] <= Fielded[j] /\ Fielded[j] \in Int /\ Fielded'[j] \in Int
          <6>1. Fielded[j] \in Int /\ Fielded'[j] \in Int
            BY FieldedAt
          <6> QED
            BY <2>1, <3>2, <6>1
        <5> HIDE DEF n
        <5> QED
          BY <1>1, <5>1
      <4>2. n \in Int
        BY <1>1
      <4> HIDE DEF k, n
      <4> QED
        BY <2>1, <3>2, <4>1, <4>2, FieldBy
    <3> QED
      BY <3>1, <3>2
  <2>3. Worth(v) + n + (0 - n) <= 0 /\ Worth(v) \in Int /\ n \in Int /\ 0 - n \in Int
    BY <1>1, <1>4, <1>9
  <2> HIDE DEF n
  <2> QED
    BY <1>6, <1>7, <2>2, <2>3, Balance DEF Idle
<1> QED
  BY <1>8, <1>9

LEMMA BoatIsPaid == ASSUME WarInv, WarInv', NEW j \in Jobs, BoatJob(j) PROVE Paid(j)
<1>1. Listed /\ boat \in [Jobs -> BoatType] /\ unit \in [Jobs -> Owners]
  BY DEF WarInv, LandInv, ForcesInv, Typed
<1>2. ASSUME NEW dst \in Tiles, BoatSails(j, dst) \/ BoatLands(j, dst) PROVE Paid(j)
  BY <1>2, SailsIsPaid, LandsIsIdle DEF Paid
<1>3. CASE BoatRefused(j) \/ BoatFindsNoPath(j) \/ BoatIsLost(j)
           \/ \E dst \in Tiles : BoatMoves(j, dst)
  <2>1. UNCHANGED <<troops, attack, unit>> /\ job[j].kind = "boat"
        /\ (Stays(j) \/ Leaves(j) \/ Enters(j))
    <3>1. UNCHANGED <<troops, attack, unit>> /\ job[j].kind = "boat"
      BY <1>3 DEF BoatRefused, BoatFindsNoPath, BoatIsLost, BoatMoves, Due, DueInit, world
    <3> QED
      BY <1>3, <3>1, StartsList, OtherTurnsList
  <2>2. \A b \in Jobs : boat'[b].troops = boat[b].troops
    <3>1. ASSUME NEW dst \in Tiles, BoatMoves(j, dst), NEW b \in Jobs
          PROVE  boat'[b].troops = boat[b].troops
      <4>1. boat' = [boat EXCEPT ![j] = [@ EXCEPT !.dst = dst, !.resolved = boat[j].retreating]]
        BY <3>1 DEF BoatMoves
      <4>2. boat[b] \in BoatType
        BY <1>1
      <4> QED
        BY <1>1, <4>1, <4>2 DEF BoatType
    <3> QED
      BY <1>3, <3>1 DEF BoatRefused, BoatFindsNoPath, BoatIsLost, world
  <2>3. InField' <= InField + 0
    BY <2>1, SameFieldIsCalm
  <2>4. AtHome' <= AtHome + 0 /\ OnBoard' <= OnBoard + 0
    BY <2>1, <2>2, Unmoved, HomeStays, SeaStays
  <2> QED
    BY <2>3, <2>4, Balance DEF Idle, Paid
<1>4. CASE BoatIsHomeless(j)
  <2> DEFINE p == job[j].owner
             n == boat[j].troops
             w == Whole(n)
  <2>1. /\ p \in Players /\ n \in Nat /\ unit[j] = p /\ job[j].kind = "boat" /\ attack' = attack
        /\ unit' = Sunk(j) /\ boat' = boat /\ troops' = [troops EXCEPT ![p] = @ + w]
    BY <1>1, <1>4, OwnerIsPlayer DEF BoatIsHomeless, Due, BoatType
  <2>2. OnBoard' <= OnBoard + (0 - n)
    BY <2>1, SinksBy
  <2>3. Stays(j) \/ Leaves(j)
    BY <1>4, OtherTurnsList
  <2>4. InField' <= InField + 0
    BY <2>1, <2>3, SameFieldIsCalm
  <2>5. w \in Nat /\ Worth(w) \in Int /\ Worth(w) <= n
    BY <2>1, WholeIsNat, WorthOf
  <2> HIDE DEF p, n, w
  <2>6. 0 - n \in Int /\ Worth(w) + 0 + (0 - n) <= 0
    BY <2>1, <2>5
  <2>7. AtHome' <= AtHome + Worth(w)
    <3>1. w \in Int /\ troops' = [troops EXCEPT ![p] = troops[p] + w]
      BY <2>1, <2>5
    <3> QED
      BY <2>1, <3>1, HomeBy
  <2> QED
    BY <2>2, <2>4, <2>5, <2>6, <2>7, Balance DEF Idle, Paid
<1> QED
  BY <1>2, <1>3, <1>4 DEF BoatJob

-----------------------------------------------------------------------------
\* A player's turn: income, or death.
LEMMA PlayerIsExempt ==
    ASSUME TroopInv, TroopInv', NEW j \in Players, PlayerJob(j)
    PROVE  j \in Jobs /\ TurnOf(j, "player")
<1>1. j \in Jobs /\ job[j].kind = "player" /\ cursor \in 0 .. MaxJobs
  BY Numbers DEF TroopInv, WarInv, LandInv, ForcesInv, Listed, Typed, Clocked
<1>2. cursor' = j /\ j > cursor
  BY DEF PlayerJob, Reap, PlayerTurn, EndTurn, Due
<1>3. cursor # j
  BY <1>1, <1>2 DEF Jobs
<1> QED
  BY <1>1, <1>2, <1>3 DEF TurnOf

LEMMA RetreatIsExempt ==
    ASSUME WarInv, NEW j \in Jobs, AttackRetreats(j)
    PROVE  TurnOf(j, "attack") /\ attack[j].retreated
<1>1. /\ job[j].kind = "attack" /\ attack[j].retreated /\ cursor' = j /\ j > cursor
      /\ cursor \in 0 .. MaxJobs
  BY DEF AttackRetreats, GoHome, EndTurn, Due, WarInv, Typed, Clocked
<1>2. cursor # j
  BY <1>1 DEF Jobs
<1> QED
  BY <1>1, <1>2 DEF TurnOf

\* Outside of income the strength of all sides grows only by the fraction of a troop that a
\* force keeps when it sets out, and when a deleted attack pays its survivors after a merge:
\* whatever fractions the orders, the merged forces and the survivors have, for any number of players, attacks, boats and gifts, and
\* whatever merges, mutual cancellations, landings and recalls fall into one tick.
THEOREM NoTroopsFromNowhereHolds == Spec => NoTroopsFromNowhere
<1> DEFINE A ==
      Strength' > Strength =>
         \E j \in Jobs : \/ TurnOf(j, "player")
                         \/ TurnOf(j, "attack") /\ attack[j].retreated /\ ~attack[j].live
                         \/ SetsOut(j) /\ Strength' < Strength + Parts
<1>1. ASSUME TroopInv, [Next]_vars PROVE [A]_vars
  <2>1. TroopInv' /\ WarInv /\ WarInv'
    BY <1>1, StepTroops DEF TroopInv
  <2>2. (Idle => A) /\ \A j \in Jobs : Paid(j) => A
    BY DEF Idle, Paid
  <2>3. CASE Orders
    BY <1>1, <2>1, <2>2, <2>3, OrdersAreIdle
  <2>4. CASE DiplomacyTurn \/ StartTick \/ StartInits \/ UNCHANGED vars
    BY <2>1, <2>2, <2>4, RestIsIdle
  <2>5. CASE EndTick
    BY <2>1, <2>2, <2>5, EndTickIsIdle
  <2>6. ASSUME NEW j \in Players, PlayerJob(j) PROVE A
    BY <1>1, <2>1, <2>6, PlayerIsExempt
  <2>7. ASSUME NEW j \in Jobs, job[j].kind \in {"retreat", "recall"}, RetreatJob(j) PROVE A
    BY <2>1, <2>2, <2>7, RetreatIsIdle
  <2>8. ASSUME NEW j \in Jobs, job[j].kind = "gift", GiftJob(j) PROVE A
    BY <2>1, <2>2, <2>8, GiftIsIdle
  <2>9. ASSUME NEW j \in Jobs, BoatJob(j) PROVE A
    BY <2>1, <2>2, <2>9, BoatIsPaid
  <2>10. ASSUME NEW j \in Jobs, job[j].kind = "attack", AttackJob(j) PROVE A
    <3>1. ASSUME NEW malus \in BOOLEAN, Due(j, "attack"), attack[j].live, GoHome(j, malus),
                 boat' = boat
          PROVE  A
      BY <2>1, <2>2, <2>10, <3>1, GoHomeIsIdle
    <3>2. CASE AttackStarts(j)
      BY <2>1, <2>2, <3>2, StartIsPaid
    <3>3. CASE AttackMeetsFriend(j) \/ AttackRunsDry(j)
      <4>1. Due(j, "attack") /\ attack[j].live /\ GoHome(j, FALSE) /\ boat' = boat
        BY <3>3 DEF AttackMeetsFriend, AttackRunsDry, AttackFights, AttackMarches
      <4> QED
        BY <3>1, <4>1
    <3>4. CASE AttackRetreats(j)
      <4>1. CASE attack[j].live
        <5>1. /\ Due(j, "attack") /\ boat' = boat
              /\ \E malus \in BOOLEAN : GoHome(j, malus)
          BY <3>4 DEF AttackRetreats
        <5> QED
          BY <3>1, <4>1, <5>1
      <4>2. CASE ~attack[j].live
        BY <2>1, <3>4, <4>2, RetreatIsExempt
      <4> QED
        BY <4>1, <4>2
    <3>5. CASE \/ AttackRefused(j) \/ AttackIsGone(j) \/ AttackWaits(j) \/ AttackIdles(j)
               \/ AttackRunsOut(j) \/ (\E t \in attack[j].frontier : AttackSkips(j, t))
               \/ \E t \in attack[j].frontier, again, twice \in BOOLEAN :
                     AttackConquers(j, t, again, twice)
      BY <2>1, <2>2, <2>10, <3>5, MarchIsIdle
    <3> HIDE DEF A
    <3> QED
      BY <2>10, <3>2, <3>3, <3>4, <3>5 DEF AttackJob, AttackTurn
  <2> HIDE DEF A
  <2> QED
    BY <1>1, <2>3, <2>4, <2>5, <2>6, <2>7, <2>8, <2>9, <2>10 DEF Next, Tick
<1>2. NoTroopsFromNowhere <=> [][A]_vars
  BY DEF NoTroopsFromNowhere
<1> HIDE DEF A
<1> QED
  BY <1>1, <1>2, InitTroopInv, StepTroops, PTL DEF Spec
=============================================================================
