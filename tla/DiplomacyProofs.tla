-------------------------- MODULE DiplomacyProofs --------------------------
(* Theorems about Diplomacy, for any players, orders and durations. *)
EXTENDS Diplomacy, TLAPS

-----------------------------------------------------------------------------
(* Lemmas about the updates. *)

\* accept_alliance_pair makes alliances of players.
LEMMA AfterAcceptingType ==
    ASSUME TypeOK, NEW asked \in SUBSET pending
    PROVE  /\ AfterAccepting(asked) \subseteq AllianceType
           /\ StillPending(asked) \subseteq pending
<1>1. ASSUME NEW pq \in asked PROVE NewAlliance(pq[1], pq[2]) \in AllianceType
  BY <1>1, DiplomacyAssumption DEF TypeOK, Pairs, NewAlliance, AllianceType
<1> QED
  BY <1>1 DEF TypeOK, AfterAccepting, StillPending

\* Embargo updates yield embargoes.
LEMMA EmbargoedType ==
    ASSUME TypeOK, NEW pq \in Pairs, NEW kind \in {"temporary", "permanent"}
    PROVE  Embargoed(embargo, pq, kind) \in [Pairs -> EmbargoType]
<1>1. [kind |-> kind, age |-> 0] \in EmbargoType
  BY DiplomacyAssumption DEF EmbargoType, OldEmbargo
<1> QED
  BY <1>1 DEF TypeOK, Embargoed

LEMMA NoEmbargoType == NoEmbargo \in EmbargoType
  BY DiplomacyAssumption DEF NoEmbargo, EmbargoType, OldEmbargo

\* The traitor mark.
LEMMA MarkForType ==
    ASSUME TypeOK, NEW p \in Players, NEW qs
    PROVE  MarkFor(p, qs) \in [Players -> 0 .. TraitorTicks]
  BY DiplomacyAssumption DEF TypeOK, MarkFor

-----------------------------------------------------------------------------
(* Type correctness. *)

LEMMA InitType == Init => TypeOK
<1> SUFFICES ASSUME Init PROVE TypeOK
  OBVIOUS
<1>1. since \in [Pairs -> 0 .. RequestCooldown]
  BY DiplomacyAssumption DEF Init
<1>2. embargo \in [Pairs -> EmbargoType]
  BY NoEmbargoType DEF Init
<1>3. traitor \in [Players -> 0 .. TraitorTicks] /\ allWait \in [Players -> 0 .. EmbargoAllCooldown]
  BY DiplomacyAssumption DEF Init
<1>4. running \subseteq JobType
  BY DEF Init, JobType
<1> QED
  BY <1>1, <1>2, <1>3, <1>4 DEF Init, TypeOK, Phases

LEMMA TurnType ==
    ASSUME TypeOK, NEW j \in todo, TakeTurn(j)
    PROVE  TypeOK'
<1> USE DEF TypeOK, TakeTurn
<1>1. j \in JobType
  OBVIOUS
<1>2. CASE j[1] = "player" /\ PlayerTurn(j[2])
  <2>1. PICK p \in Players : j = <<"player", p, p>>
    BY <1>1, <1>2 DEF JobType
  <2>2. embargo' \in [Pairs -> EmbargoType]
    BY <1>2, NoEmbargoType DEF PlayerTurn, Reap
  <2>3. alliances' \subseteq AllianceType /\ reaped' \subseteq Players
    BY <1>2, <2>1 DEF PlayerTurn, Reap, AfterExpiry
  <2>4. running' \subseteq JobType /\ todo' \subseteq running'
    BY <1>2, <2>1 DEF PlayerTurn, Reap
  <2> QED
    BY <1>2, <2>2, <2>3, <2>4 DEF PlayerTurn, Reap
<1>3. ASSUME j[1] # "player"
      PROVE  \E k \in {"watch", "break", "start", "stop"}, p, q \in Players : j = <<k, p, q>>
  BY <1>1, <1>3 DEF JobType
<1>4. CASE j[1] = "watch" /\ WatchTurn(j[2], j[3])
  BY <1>3, <1>4 DEF WatchTurn
<1>5. CASE j[1] = "break" /\ BreakTurn(j[2], j[3])
  <2>1. PICK p, q \in Players : j = <<"break", p, q>>
    BY <1>3, <1>5
  <2>2. traitor' \in [Players -> 0 .. TraitorTicks]
    BY <1>5, <2>1, MarkForType DEF BreakTurn
  <2> QED
    BY <1>5, <2>1, <2>2 DEF BreakTurn, AfterBreaking
<1>6. CASE j[1] = "start" /\ StartTurn(j[2], j[3])
  <2>1. PICK p, q \in Players : j = <<"start", p, q>>
    BY <1>3, <1>6
  <2>2. embargo' \in [Pairs -> EmbargoType]
    BY <1>6, <2>1, EmbargoedType DEF StartTurn, Pairs
  <2> QED
    BY <1>6, <2>1, <2>2 DEF StartTurn
<1>7. CASE j[1] = "stop" /\ StopTurn(j[2], j[3])
  <2>1. PICK p, q \in Players : j = <<"stop", p, q>>
    BY <1>3, <1>7
  <2>2. embargo' \in [Pairs -> EmbargoType]
    BY <1>7, <2>1, NoEmbargoType DEF StopTurn
  <2> QED
    BY <1>7, <2>1, <2>2 DEF StopTurn
<1> QED
  BY <1>2, <1>4, <1>5, <1>6, <1>7



\* An alliance stays one when somebody asks to renew it.
LEMMA RenewedType ==
    ASSUME NEW a \in AllianceType, NEW p \in Players
    PROVE  Renewed(a, p) \in AllianceType
<1>1. AllianceDuration \in Int /\ a.renew \cup {p} \in SUBSET Players
  BY DiplomacyAssumption DEF AllianceType
<1>2. [[a EXCEPT !.renew = {}] EXCEPT !.left = AllianceDuration] \in AllianceType
  <2> DEFINE blank == [a EXCEPT !.renew = {}]
  <2>1. blank \in AllianceType
    BY DEF AllianceType
  <2> HIDE DEF blank
  <2>2. [blank EXCEPT !.left = AllianceDuration] \in AllianceType
    BY <1>1, <2>1 DEF AllianceType
  <2> QED
    BY <2>2 DEF blank
<1>3. [a EXCEPT !.renew = a.renew \cup {p}] \in AllianceType
  BY <1>1 DEF AllianceType
<1> QED
  BY <1>2, <1>3 DEF Renewed

\* The orders: only their own initialisation touches the state they name.
LEMMA InitOrderType ==
    ASSUME TypeOK, NEW j \in queue, InitOrder(j)
    PROVE  TypeOK'
<1> USE DEF TypeOK, InitOrder
<1>1. PICK k \in Kinds, p, q \in Players : j = <<k, p, q>>
  BY DiplomacyAssumption
<1>2. offline' \subseteq Players
  BY <1>1
<1>3. queue' \subseteq Intents /\ todo' \subseteq todo /\ phase' = phase
  OBVIOUS
<1>4. CASE k = "request" /\ Request(p, q)
  <2>1. <<p, q>> \in Pairs /\ <<q, p>> \in Pairs
    BY DEF Pairs
  <2>2. <<q, p>> \in pending => /\ AfterAccepting({<<q, p>>}) \subseteq AllianceType
                               /\ StillPending({<<q, p>>}) \subseteq pending
    BY AfterAcceptingType
  <2>3. Reconciled(p, q) \in [Pairs -> EmbargoType]
    BY NoEmbargoType DEF Reconciled
  <2>4. [since EXCEPT ![<<p, q>>] = 0] \in [Pairs -> 0 .. RequestCooldown]
    BY <2>1, DiplomacyAssumption
  <2>5. running \cup {<<"watch", p, q>>} \subseteq JobType
    BY DEF JobType
  <2>6. /\ pending' \subseteq Pairs /\ alliances' \subseteq AllianceType
        /\ since' \in [Pairs -> 0 .. RequestCooldown]
        /\ embargo' \in [Pairs -> EmbargoType]
        /\ running \subseteq running' /\ running' \subseteq JobType
    BY <1>4, <2>1, <2>2, <2>3, <2>4, <2>5 DEF Request, pactVars
  <2> QED
    BY <1>1, <1>2, <1>3, <1>4, <2>6 DEF pactVars
<1>5. CASE k = "reject" /\ Reject(p, q)
  BY <1>1, <1>2, <1>5 DEF Reject
<1>6. CASE k \in {"break", "start", "stop"} /\ Enter(k, p, q)
  BY <1>1, <1>2, <1>6 DEF Enter, pactVars, JobType
<1>7. CASE k = "extend" /\ Extend(p, q)
  <2>1. ASSUME NEW a \in AllianceType PROVE Renewed(a, p) \in AllianceType
    BY RenewedType
  <2>2. alliances' \subseteq AllianceType
    BY <1>7, <2>1 DEF Extend
  <2> QED
    BY <1>1, <1>2, <1>7, <2>2 DEF Extend
<1>8. CASE k \in {"startAll", "stopAll"} /\ EmbargoAll(p, k = "startAll")
  <2>1. [kind |-> "permanent", age |-> 0] \in EmbargoType
    BY DiplomacyAssumption DEF EmbargoType, OldEmbargo
  <2>2. embargo' \in [Pairs -> EmbargoType]
    BY <1>8, <2>1, NoEmbargoType DEF EmbargoAll
  <2>3. allWait' \in [Players -> 0 .. EmbargoAllCooldown]
    BY <1>8, DiplomacyAssumption DEF EmbargoAll
  <2> QED
    BY <1>1, <1>2, <1>8, <2>2, <2>3 DEF EmbargoAll, pactVars
<1>9. CASE k = "attack" /\ Attack(p, q)
  <2>1. Embargoed(embargo, <<q, p>>, "temporary") \in [Pairs -> EmbargoType]
    BY EmbargoedType DEF Pairs
  <2> QED
    BY <1>1, <1>2, <1>9, <2>1 DEF Attack
<1>10. CASE k = "boat" /\ Boat(p, q)
  BY <1>1, <1>2, <1>10 DEF Boat
<1>11. CASE k = "mirv" /\ Mirv(p, q)
  BY <1>1, <1>2, <1>11, MarkForType DEF Mirv, AfterBreaking
<1>12. CASE k \in {"offline", "online"} /\ UNCHANGED <<pactVars, embargo, running>>
  BY <1>1, <1>2, <1>12 DEF pactVars
<1> QED
  BY <1>1, <1>4, <1>5, <1>6, <1>7, <1>8, <1>9, <1>10, <1>11, <1>12

LEMMA MoreType ==
    ASSUME NEW limit \in Nat, NEW n \in 0 .. limit
    PROVE  More(n, limit) \in 0 .. limit /\ (n = limit \/ More(n, limit) = n + 1)
  BY DEF More

\* The clocks stay in their ranges.
LEMMA EndTickType == TypeOK /\ EndTick => TypeOK'
<1> SUFFICES ASSUME TypeOK, EndTick PROVE TypeOK'
  OBVIOUS
<1> USE DEF TypeOK, EndTick
<1>1. since' \in [Pairs -> 0 .. RequestCooldown]
  <2>1. ASSUME NEW pq \in Pairs
        PROVE  More(since[pq], RequestCooldown) \in 0 .. RequestCooldown
    BY MoreType, DiplomacyAssumption
  <2> QED
    BY <2>1
<1>2. alliances' \subseteq AllianceType
  BY DEF AllianceType
<1>3. embargo' \in [Pairs -> EmbargoType]
  <2> DEFINE older(e) == [e EXCEPT !.age = More(@, OldEmbargo)]
  <2>1. ASSUME NEW e \in EmbargoType PROVE older(e) \in EmbargoType
    <3>1. More(e.age, OldEmbargo) \in 0 .. OldEmbargo
      <4>1. OldEmbargo \in Nat
        BY DiplomacyAssumption DEF OldEmbargo
      <4>2. e.age \in 0 .. OldEmbargo
        BY DEF EmbargoType
      <4> QED
        BY <4>1, <4>2, MoreType
    <3> QED
      BY <3>1 DEF EmbargoType
  <2>2. embargo' = [pq \in Pairs |-> IF embargo[pq].kind = "temporary"
                                     THEN older(embargo[pq]) ELSE embargo[pq]]
    OBVIOUS
  <2> HIDE DEF older
  <2> QED
    BY <2>1, <2>2
<1>4. /\ traitor' \in [Players -> 0 .. TraitorTicks]
      /\ allWait' \in [Players -> 0 .. EmbargoAllCooldown]
  BY DiplomacyAssumption DEF Less
<1> QED
  BY <1>1, <1>2, <1>3, <1>4 DEF Phases

LEMMA StepType == TypeOK /\ [Next]_vars => TypeOK'
<1> SUFFICES ASSUME TypeOK, [Next]_vars PROVE TypeOK'
  OBVIOUS
<1>1. CASE UNCHANGED vars
  BY <1>1 DEF vars, pactVars, tradeVars, loopVars, TypeOK
<1>2. ASSUME NEW i \in Intents, Submit(i) PROVE TypeOK'
  BY <1>2 DEF TypeOK, Submit, pactVars, tradeVars
<1>3. CASE StartTick
  BY <1>3 DEF TypeOK, StartTick, pactVars, tradeVars, Phases
<1>4. ASSUME NEW j \in todo, TakeTurn(j) PROVE TypeOK'
  BY <1>4, TurnType
<1>5. ASSUME NEW p \in Deciders, NEW yes \in SUBSET pending, Answer(p, yes) PROVE TypeOK'
  BY <1>5, AfterAcceptingType DEF TypeOK, Answer, tradeVars, loopVars
<1>6. ASSUME NEW p \in Players, NEW q \in Players, Betray(p, q) PROVE TypeOK'
  BY <1>6, MarkForType DEF TypeOK, Betray, AfterBreaking, tradeVars, loopVars
<1>7. ASSUME NEW p \in Players, NEW q \in Players, Judge(p, q) PROVE TypeOK'
  <2>1. <<p, q>> \in Pairs
    BY DEF Pairs
  <2>2. embargo' \in [Pairs -> EmbargoType]
    BY <1>7, <2>1, EmbargoedType, NoEmbargoType DEF TypeOK, Judge
  <2> QED
    BY <1>7, <2>2 DEF TypeOK, Judge, pactVars, loopVars
<1>8. ASSUME NEW p \in Strikers, NEW hit \in SUBSET Players, Bombard(p, hit) PROVE TypeOK'
  BY <1>8, MarkForType, DiplomacyAssumption
     DEF TypeOK, Bombard, AfterBreaking, tradeVars, loopVars
<1>9. ASSUME NEW p \in Mortal, LoseLand(p) \/ RegainLand(p) PROVE TypeOK'
  BY <1>9, DiplomacyAssumption DEF TypeOK, LoseLand, RegainLand, pactVars, tradeVars, loopVars
<1>10. CASE StartInits
  BY <1>10 DEF TypeOK, StartInits, pactVars, tradeVars, Phases
<1>11. ASSUME NEW j \in queue, InitOrder(j) PROVE TypeOK'
  BY <1>11, InitOrderType
<1>12. CASE EndTick
  BY <1>12, EndTickType
<1> QED
  BY <1>1, <1>2, <1>3, <1>4, <1>5, <1>6, <1>7, <1>8, <1>9, <1>10, <1>11, <1>12 DEF Next

\* Every variable keeps its type: ages never pass the point where they stop
\* counting, marks and waits never drop below zero.
THEOREM TypeCorrect == Spec => []TypeOK
<1> QED
  BY InitType, StepType, PTL DEF Spec

-----------------------------------------------------------------------------
(* Requests and alliances.  Whatever the executions do, they do one of three *)
(* things to them; each of the three keeps the invariant and is a step of    *)
(* Pacts.                                                                    *)

\* No request to oneself, none in the other direction, none to an ally.
RequestsAreOpen ==
    \A p, q \in Players : <<p, q>> \in pending =>
        /\ p # q /\ <<q, p>> \notin pending
        /\ \A a \in alliances : ~Joins(a, p, q)

AlliesAreTwo == \A a \in alliances : a.req # a.rec

PactInv == /\ TypeOK /\ RequestsAreOpen /\ AlliesAreTwo
           /\ OnePactPerPair /\ EveryRequestIsWatched

\* Requests and alliances end; the alliances that stay may be extended.
Fade ==
    /\ pending' \subseteq pending
    /\ \A x \in alliances' : \E y \in alliances : x.req = y.req /\ x.rec = y.rec
    /\ \A x, y \in alliances' : Joins(x, y.req, y.rec) => x = y
    /\ \A pq \in pending' : <<"watch", pq[1], pq[2]>> \in running'

\* p takes up the requests yes and turns down the requests no.
Seal(p, yes, no) ==
    /\ yes \cap no = {} /\ \A pq \in yes \cup no : pq \in pending /\ pq[2] = p
    /\ pending' = pending \ (yes \cup no)
    /\ alliances' = AfterAccepting(yes)
    /\ running' = running

\* p asks q, with whom it has no dealings.
Ask(p, q) ==
    /\ p # q /\ <<p, q>> \notin pending /\ <<q, p>> \notin pending
    /\ \A a \in alliances : ~Joins(a, p, q)
    /\ pending' = pending \cup {<<p, q>>}
    /\ alliances' = alliances
    /\ running' = running \cup {<<"watch", p, q>>}

LEMMA FadeKeepsInv == ASSUME PactInv, TypeOK', Fade PROVE PactInv'
<1> USE DEF PactInv, Fade
<1>1. RequestsAreOpen'
  BY DEF RequestsAreOpen, Joins
<1>2. AlliesAreTwo'
  BY DEF AlliesAreTwo
<1>3. OnePactPerPair' /\ EveryRequestIsWatched'
  BY DEF OnePactPerPair, EveryRequestIsWatched, Joins
<1> QED
  BY <1>1, <1>2, <1>3

LEMMA SealKeepsInv ==
    ASSUME PactInv, TypeOK', NEW p, NEW yes, NEW no, Seal(p, yes, no)
    PROVE  PactInv'
<1> USE DEF PactInv, Seal
<1>1. \A pq \in yes : /\ pq[1] \in Players /\ pq[2] \in Players /\ pq = <<pq[1], pq[2]>>
                      /\ pq[1] # pq[2] /\ <<pq[2], pq[1]>> \notin pending
                      /\ \A a \in alliances : ~Joins(a, pq[1], pq[2])
  BY DEF TypeOK, Pairs, RequestsAreOpen
<1>2. ASSUME NEW x \in alliances'
      PROVE  x \in alliances \/ \E pq \in yes : x.req = pq[1] /\ x.rec = pq[2]
  BY DEF AfterAccepting, NewAlliance
<1>3. RequestsAreOpen'
  <2> SUFFICES ASSUME NEW r \in Players, NEW s \in Players, <<r, s>> \in pending'
               PROVE  /\ r # s /\ <<s, r>> \notin pending'
                      /\ \A a \in alliances' : ~Joins(a, r, s)
    BY DEF RequestsAreOpen
  <2>1. r # s /\ <<s, r>> \notin pending /\ \A a \in alliances : ~Joins(a, r, s)
    BY DEF RequestsAreOpen
  <2>2. ASSUME NEW a \in alliances', NEW pq \in yes, a.req = pq[1], a.rec = pq[2]
        PROVE  ~Joins(a, r, s)
    <3>1. pq # <<r, s>>
      OBVIOUS
    <3>2. pq # <<s, r>>
      BY <2>1
    <3> QED
      BY <1>1, <2>2, <3>1, <3>2 DEF Joins
  <2> QED
    BY <1>2, <2>1, <2>2
<1>4. AlliesAreTwo'
  BY <1>1, <1>2 DEF AlliesAreTwo
<1>5. OnePactPerPair'
  <2> SUFFICES ASSUME NEW x \in alliances', NEW y \in alliances', Joins(x, y.req, y.rec)
               PROVE  x = y
    BY DEF OnePactPerPair, Joins
  <2>1. ASSUME NEW z \in alliances', z \notin alliances
        PROVE  \E pq \in yes : z = NewAlliance(pq[1], pq[2])
    BY <2>1 DEF AfterAccepting
  <2>2. CASE x \in alliances /\ y \in alliances
    BY <2>2 DEF OnePactPerPair
  <2>3. CASE x \in alliances /\ y \notin alliances
    <3>1. PICK pq \in yes : y = NewAlliance(pq[1], pq[2])
      BY <2>1, <2>3
    <3>2. Joins(x, pq[1], pq[2])
      BY <3>1 DEF NewAlliance
    <3> QED
      BY <1>1, <2>3, <3>2
  <2>4. CASE x \notin alliances /\ y \in alliances
    <3>1. PICK pq \in yes : x = NewAlliance(pq[1], pq[2])
      BY <2>1, <2>4
    <3>2. Joins(y, pq[1], pq[2])
      BY <3>1 DEF NewAlliance, Joins
    <3> QED
      BY <1>1, <2>4, <3>2
  <2>5. CASE x \notin alliances /\ y \notin alliances
    <3>1. PICK pq \in yes : x = NewAlliance(pq[1], pq[2])
      BY <2>1, <2>5
    <3>2. PICK rs \in yes : y = NewAlliance(rs[1], rs[2])
      BY <2>1, <2>5
    <3>3. \/ pq[1] = rs[1] /\ pq[2] = rs[2]
          \/ pq[1] = rs[2] /\ pq[2] = rs[1]
      BY <3>1, <3>2 DEF NewAlliance, Joins
    <3>4. rs \in pending
      OBVIOUS
    <3>5. pq[1] = rs[1] /\ pq[2] = rs[2]
      BY <1>1, <3>3, <3>4
    <3> QED
      BY <3>1, <3>2, <3>5
  <2> QED
    BY <2>2, <2>3, <2>4, <2>5
<1>6. EveryRequestIsWatched'
  BY DEF EveryRequestIsWatched
<1> QED
  BY <1>3, <1>4, <1>5, <1>6

LEMMA AskKeepsInv ==
    ASSUME PactInv, TypeOK', NEW p \in Players, NEW q \in Players, Ask(p, q)
    PROVE  PactInv'
<1> USE DEF PactInv, Ask
<1>1. RequestsAreOpen'
  BY DEF RequestsAreOpen, Joins
<1>2. AlliesAreTwo' /\ OnePactPerPair' /\ EveryRequestIsWatched'
  BY DEF AlliesAreTwo, OnePactPerPair, EveryRequestIsWatched, Joins
<1> QED
  BY <1>1, <1>2

\* The executions' turns only let requests and alliances fade.
LEMMA TurnFades == ASSUME PactInv, TypeOK', NEW j \in todo, TakeTurn(j) PROVE Fade
<1> USE DEF PactInv, TakeTurn
<1>1. j \in JobType
  BY DEF TypeOK
<1>2. ASSUME alliances' \subseteq alliances, pending' \subseteq pending,
             \A pq \in pending' : <<"watch", pq[1], pq[2]>> \in running'
      PROVE  Fade
  BY <1>2 DEF Fade, OnePactPerPair
<1>3. CASE j[1] = "player" /\ PlayerTurn(j[2])
  BY <1>2, <1>3 DEF PlayerTurn, Reap, AfterExpiry, EveryRequestIsWatched
<1>4. CASE j[1] = "watch" /\ WatchTurn(j[2], j[3])
  <2>1. alliances' \subseteq alliances /\ pending' \subseteq pending
    BY <1>4 DEF WatchTurn
  <2>2. ASSUME NEW pq \in pending' PROVE <<"watch", pq[1], pq[2]>> \in running'
    <3>1. pq \in pending /\ pq = <<pq[1], pq[2]>>
      BY <2>1 DEF TypeOK, Pairs
    <3>2. <<"watch", pq[1], pq[2]>> \in running
      BY <3>1 DEF EveryRequestIsWatched
    <3> QED
      BY <1>4, <3>1, <3>2 DEF WatchTurn
  <2> QED
    BY <1>2, <2>1, <2>2
<1>5. CASE j[1] = "break" /\ BreakTurn(j[2], j[3])
  BY <1>2, <1>5 DEF BreakTurn, AfterBreaking, EveryRequestIsWatched
<1>6. CASE j[1] = "start" /\ StartTurn(j[2], j[3])
  BY <1>2, <1>6 DEF StartTurn, EveryRequestIsWatched
<1>7. CASE j[1] = "stop" /\ StopTurn(j[2], j[3])
  BY <1>2, <1>7 DEF StopTurn, EveryRequestIsWatched
<1> QED
  BY <1>3, <1>4, <1>5, <1>6, <1>7

Seals == \E p \in Players, yes, no \in SUBSET pending : Seal(p, yes, no)
Asks == \E p, q \in Players : Ask(p, q)

\* A bot's or a nation's answer.
LEMMA AnswerSeals ==
    ASSUME PactInv, NEW p \in Deciders, NEW yes \in SUBSET pending, Answer(p, yes)
    PROVE  Seals
<1> DEFINE asked == {pq \in pending : pq[2] = p}
<1>1. yes \subseteq asked /\ pending' = StillPending(yes) \ asked
  BY DEF Answer
<1>2. ASSUME NEW pq \in yes PROVE <<pq[2], pq[1]>> \notin pending /\ pq = <<pq[1], pq[2]>>
  BY DEF PactInv, TypeOK, Pairs, RequestsAreOpen
<1>3. pending' = pending \ asked
  BY <1>1, <1>2 DEF StillPending, Crossing
<1>4. Seal(p, yes, asked \ yes)
  BY <1>1, <1>3 DEF Seal, Answer, loopVars
<1> QED
  BY <1>4, DiplomacyAssumption DEF Seals

LEMMA OrderFadesSealsOrAsks ==
    ASSUME PactInv, TypeOK', NEW j \in queue, InitOrder(j)
    PROVE  Fade \/ Seals \/ Asks
<1> USE DEF PactInv, InitOrder
<1>1. PICK k \in Kinds, p, q \in Players : j = <<k, p, q>>
  BY DiplomacyAssumption DEF TypeOK
<1>2. ASSUME alliances' \subseteq alliances, pending' \subseteq pending,
             running \subseteq running'
      PROVE  Fade
  BY <1>2 DEF Fade, OnePactPerPair, EveryRequestIsWatched
<1>3. CASE k = "request" /\ Request(p, q)
  <2>1. CASE CanAsk(p, q) /\ <<q, p>> \in pending
    <3>1. pending' = pending \ {<<q, p>>}
      <4>1. <<p, q>> \notin pending
        BY <2>1 DEF CanAsk
      <4>2. pending' = StillPending({<<q, p>>})
        BY <1>3, <2>1 DEF Request
      <4> QED
        BY <4>1, <4>2 DEF StillPending, Crossing
    <3>2. alliances' = AfterAccepting({<<q, p>>}) /\ running' = running
      BY <1>3, <2>1 DEF Request
    <3>3. Seal(p, {<<q, p>>}, {})
      BY <2>1, <3>1, <3>2 DEF Seal
    <3> QED
      BY <2>1, <3>3 DEF Seals
  <2>2. CASE CanAsk(p, q) /\ <<q, p>> \notin pending
    BY <1>3, <2>2 DEF Request, CanAsk, Allied, Asks, Ask
  <2>3. CASE ~CanAsk(p, q)
    BY <1>2, <1>3, <2>3 DEF Request, pactVars
  <2> QED
    BY <2>1, <2>2, <2>3
<1>4. CASE k = "reject" /\ Reject(p, q)
  BY <1>2, <1>4 DEF Reject
<1>5. CASE k \in {"break", "start", "stop"} /\ Enter(k, p, q)
  BY <1>2, <1>5 DEF Enter, pactVars
<1>6. CASE k = "extend" /\ Extend(p, q)
  <2> DEFINE after(a) == IF Joins(a, p, q) /\ {p, q} \subseteq lands THEN Renewed(a, p) ELSE a
  <2>1. ASSUME NEW a \in alliances PROVE after(a).req = a.req /\ after(a).rec = a.rec
    BY DEF TypeOK, AllianceType, Renewed
  <2>2. alliances' = {after(a) : a \in alliances} /\ pending' = pending /\ running' = running
    BY <1>6 DEF Extend
  <2> HIDE DEF after
  <2> QED
    BY <2>1, <2>2 DEF Fade, OnePactPerPair, EveryRequestIsWatched, Joins
<1>7. CASE k \in {"startAll", "stopAll"} /\ EmbargoAll(p, k = "startAll")
  BY <1>2, <1>7 DEF EmbargoAll, pactVars
<1>8. CASE k = "attack" /\ Attack(p, q)
  BY <1>2, <1>8 DEF Attack
<1>9. CASE k = "boat" /\ Boat(p, q)
  BY <1>2, <1>9 DEF Boat
<1>10. CASE k = "mirv" /\ Mirv(p, q)
  BY <1>2, <1>10 DEF Mirv, AfterBreaking
<1>11. CASE k \in {"offline", "online"} /\ UNCHANGED <<pactVars, embargo, running>>
  BY <1>2, <1>11 DEF pactVars
<1> QED
  BY <1>1, <1>3, <1>4, <1>5, <1>6, <1>7, <1>8, <1>9, <1>10, <1>11

\* The end of a tick moves the clocks of the alliances, no more.
LEMMA EndTickFades == ASSUME PactInv, EndTick PROVE Fade
<1> DEFINE after(a) == [a EXCEPT !.left = a.left - 1]
<1>1. ASSUME NEW a \in alliances PROVE after(a).req = a.req /\ after(a).rec = a.rec
  BY DEF PactInv, TypeOK, AllianceType
<1>2. alliances' = {after(a) : a \in alliances} /\ pending' = pending /\ running' = running
  BY DEF EndTick
<1> HIDE DEF after
<1> QED
  BY <1>1, <1>2 DEF PactInv, Fade, OnePactPerPair, EveryRequestIsWatched, Joins

LEMMA StepFadesSealsOrAsks ==
    ASSUME PactInv, TypeOK', [Next]_vars
    PROVE  Fade \/ Seals \/ Asks
<1>1. ASSUME alliances' \subseteq alliances, pending' \subseteq pending, running' = running
      PROVE  Fade
  BY <1>1 DEF PactInv, Fade, OnePactPerPair, EveryRequestIsWatched
<1>2. CASE UNCHANGED vars
  BY <1>1, <1>2 DEF vars, pactVars, loopVars
<1>3. ASSUME NEW i \in Intents, Submit(i) PROVE Fade
  BY <1>1, <1>3 DEF Submit, pactVars
<1>4. CASE StartTick
  BY <1>1, <1>4 DEF StartTick, pactVars
<1>5. ASSUME NEW p \in Players, NEW q \in Players, Betray(p, q) PROVE Fade
  BY <1>1, <1>5 DEF Betray, AfterBreaking, loopVars
<1>6. ASSUME NEW p \in Players, NEW q \in Players, Judge(p, q) PROVE Fade
  BY <1>1, <1>6 DEF Judge, pactVars, loopVars
<1>7. ASSUME NEW p \in Strikers, NEW hit \in SUBSET Players, Bombard(p, hit) PROVE Fade
  BY <1>1, <1>7 DEF Bombard, AfterBreaking, loopVars
<1>8. ASSUME NEW p \in Mortal, LoseLand(p) \/ RegainLand(p) PROVE Fade
  BY <1>1, <1>8 DEF LoseLand, RegainLand, pactVars, loopVars
<1>9. CASE StartInits
  BY <1>1, <1>9 DEF StartInits, pactVars
<1> QED
  BY <1>2, <1>3, <1>4, <1>5, <1>6, <1>7, <1>8, <1>9, TurnFades, AnswerSeals,
     OrderFadesSealsOrAsks, EndTickFades DEF Next

LEMMA InitPactInv == Init => PactInv
  BY InitType DEF Init, PactInv, RequestsAreOpen, AlliesAreTwo, OnePactPerPair,
                  EveryRequestIsWatched

LEMMA StepPactInv == PactInv /\ [Next]_vars => PactInv'
<1> SUFFICES ASSUME PactInv, [Next]_vars PROVE PactInv'
  OBVIOUS
<1>1. TypeOK'
  BY StepType DEF PactInv
<1> QED
  BY <1>1, StepFadesSealsOrAsks, FadeKeepsInv, SealKeepsInv, AskKeepsInv DEF Seals, Asks

\* Two players never hold two alliances, so that breaking, expiring or renewing
\* "the" alliance of two players is well defined.
THEOREM OnePactPerPairHolds == Spec => []OnePactPerPair
<1>1. PactInv => OnePactPerPair
  BY DEF PactInv
<1> QED
  BY <1>1, InitPactInv, StepPactInv, PTL DEF Spec

\* No request is left without the execution that withdraws it.
THEOREM RequestsAreWatched == Spec => []EveryRequestIsWatched
<1>1. PactInv => EveryRequestIsWatched
  BY DEF PactInv
<1> QED
  BY <1>1, InitPactInv, StepPactInv, PTL DEF Spec

-----------------------------------------------------------------------------
(* The refinement. *)

LEMMA FadeIsPart == ASSUME Fade PROVE Promise!Next
<1>1. Bonds' \subseteq Bonds
  BY DEF Fade, Bonds
<1>2. pending' = pending \ (pending \ pending') /\ Bonds' = Bonds \ (Bonds \ Bonds')
  BY <1>1 DEF Fade
<1>3. Promise!Part(pending \ pending', Bonds \ Bonds')
  BY <1>2 DEF Promise!Part
<1>4. \E gone \in SUBSET pending, ended \in SUBSET Bonds : Promise!Part(gone, ended)
  BY <1>3
<1> QED
  BY <1>4 DEF Promise!Next

LEMMA SealIsAnswer == ASSUME PactInv, Seals PROVE Promise!Next
<1>1. PICK p \in Players, yes \in SUBSET pending, no \in SUBSET pending : Seal(p, yes, no)
  BY DEF Seals
<1>2. Bonds' = Bonds \cup yes
  <2> DEFINE new == {NewAlliance(pq[1], pq[2]) : pq \in yes}
  <2>1. Bonds' = {<<a.req, a.rec>> : a \in alliances \cup new}
    BY <1>1 DEF Seal, Bonds, AfterAccepting
  <2>2. ASSUME NEW pq \in yes PROVE pq = <<pq[1], pq[2]>>
    BY DEF PactInv, TypeOK, Pairs
  <2>3. ASSUME NEW a \in new PROVE <<a.req, a.rec>> \in yes
    BY <2>2 DEF NewAlliance
  <2>4. ASSUME NEW pq \in yes PROVE \E a \in new : pq = <<a.req, a.rec>>
    <3>1. NewAlliance(pq[1], pq[2]).req = pq[1] /\ NewAlliance(pq[1], pq[2]).rec = pq[2]
      BY DEF NewAlliance
    <3> QED
      BY <2>2, <3>1
  <2> HIDE DEF new
  <2> QED
    BY <2>1, <2>3, <2>4 DEF Bonds
<1>3. Promise!Answer(p, yes, no)
  BY <1>1, <1>2 DEF Promise!Answer, Seal
<1>4. \E r \in Players, ys, ns \in SUBSET pending : Promise!Answer(r, ys, ns)
  BY <1>3
<1> QED
  BY <1>4 DEF Promise!Next

LEMMA AskIsOffer == ASSUME PactInv, Asks PROVE Promise!Next
<1>1. PICK p \in Players, q \in Players : Ask(p, q)
  BY DEF Asks
<1>2. <<p, q>> \notin Bonds /\ <<q, p>> \notin Bonds /\ Bonds' = Bonds
  BY <1>1 DEF Ask, Bonds, Joins
<1>3. Promise!Offer(p, q)
  BY <1>1, <1>2 DEF Ask, Promise!Offer, Promise!Strangers, Promise!Dealings
<1>4. \E r, s \in Players : Promise!Offer(r, s)
  BY <1>3
<1> QED
  BY <1>4 DEF Promise!Next

\* The executions implement Pacts: an alliance arises only from a request its
\* addressee takes up (a nation's answer, or a request in the other direction).
THEOREM Consent == Spec => KeepsPromises
<1>1. Init => Promise!Init
  BY DEF Init, Promise!Init, Bonds
<1>2. PactInv /\ PactInv' /\ [Next]_vars => [Promise!Next]_(Promise!vars)
  <2> SUFFICES ASSUME PactInv, PactInv', [Next]_vars PROVE Promise!Next
    OBVIOUS
  <2>1. Fade \/ Seals \/ Asks
    BY StepFadesSealsOrAsks DEF PactInv
  <2> QED
    BY <2>1, FadeIsPart, SealIsAnswer, AskIsOffer
<1> QED
  BY <1>1, <1>2, InitPactInv, StepPactInv, PTL DEF Spec, KeepsPromises, Promise!Spec

-----------------------------------------------------------------------------
(* The clocks of Diplomacy: what ends, ends in time. *)

Own(p) == <<"player", p, p>>
Watch(pq) == <<"watch", pq[1], pq[2]>>

\* What a job is, and what a turn does to the lists of executions.
LEMMA TurnShape ==
    ASSUME TypeOK, NEW j \in todo, TakeTurn(j)
    PROVE  /\ phase = "tick" /\ phase' = "tick" /\ todo' = todo \ {j}
           /\ lands' = lands /\ since' = since
           /\ \/ \E p \in Players : j = Own(p) /\ PlayerTurn(p)
              \/ \E p, q \in Players : /\ j = <<"watch", p, q>> /\ WatchTurn(p, q)
                                       /\ reaped' = reaped
              \/ \E p, q \in Players : /\ j = <<"break", p, q>> /\ BreakTurn(p, q)
                                       /\ running' = running \ {j} /\ reaped' = reaped
              \/ \E p, q \in Players : /\ j = <<"start", p, q>> /\ StartTurn(p, q)
                                       /\ running' = running \ {j} /\ reaped' = reaped
              \/ \E p, q \in Players : /\ j = <<"stop", p, q>> /\ StopTurn(p, q)
                                       /\ running' = running \ {j} /\ reaped' = reaped
<1>1. j \in JobType
  BY DEF TypeOK
<1>2. \/ \E p \in Players : j = Own(p)
      \/ \E k \in {"watch", "break", "start", "stop"}, p, q \in Players : j = <<k, p, q>>
  BY <1>1 DEF JobType, Own
<1>3. CASE \E p \in Players : j = Own(p)
  BY <1>3 DEF TakeTurn, Own
<1>4. CASE \E k \in {"watch", "break", "start", "stop"}, p, q \in Players : j = <<k, p, q>>
  <2>1. PICK k \in {"watch", "break", "start", "stop"}, p, q \in Players : j = <<k, p, q>>
    BY <1>4
  <2>2. j[1] = k /\ j[2] = p /\ j[3] = q
    BY <2>1
  <2>3. \/ k = "watch" /\ WatchTurn(p, q)
        \/ k = "break" /\ BreakTurn(p, q)
        \/ k = "start" /\ StartTurn(p, q)
        \/ k = "stop" /\ StopTurn(p, q)
    BY <2>1, <2>2 DEF TakeTurn
  <2> QED
    BY <2>1, <2>3 DEF TakeTurn, WatchTurn, BreakTurn, StartTurn, StopTurn
<1> QED
  BY <1>2, <1>3, <1>4 DEF TakeTurn

-----------------------------------------------------------------------------
(* Every alliance has a keeper: an ally whose own execution still runs. *)

KeeperInv ==
    /\ TypeOK
    /\ lands \cap reaped = {}
    /\ \A p \in Players \ reaped : Own(p) \in running
    /\ EveryPactHasAKeeper

LEMMA InitKeeper == Init => KeeperInv
  BY InitType DEF Init, KeeperInv, EveryPactHasAKeeper, Own

LEMMA TurnKeeper == ASSUME KeeperInv, TypeOK', NEW j \in todo, TakeTurn(j) PROVE KeeperInv'
<1> USE DEF KeeperInv, EveryPactHasAKeeper, Own
<1>1. ASSUME NEW p \in Players, j = Own(p), PlayerTurn(p) PROVE KeeperInv'
  <2>1. CASE p \notin lands /\ Reap(p)
    BY <1>1, <2>1, TurnShape DEF Reap
  <2>2. CASE p \in lands
    BY <1>1, <2>2, TurnShape DEF PlayerTurn, AfterExpiry, Reap
  <2> QED
    BY <1>1, <2>1, <2>2 DEF PlayerTurn
<1>2. ASSUME NEW p \in Players, NEW q \in Players, j = <<"watch", p, q>>, WatchTurn(p, q)
      PROVE  KeeperInv'
  BY <1>2, TurnShape DEF WatchTurn
<1>3. ASSUME NEW p \in Players, NEW q \in Players, j = <<"break", p, q>>, BreakTurn(p, q)
      PROVE  KeeperInv'
  BY <1>3, TurnShape DEF BreakTurn, AfterBreaking
<1>4. ASSUME NEW p \in Players, NEW q \in Players, j = <<"start", p, q>>, StartTurn(p, q)
      PROVE  KeeperInv'
  BY <1>4, TurnShape DEF StartTurn
<1>5. ASSUME NEW p \in Players, NEW q \in Players, j = <<"stop", p, q>>, StopTurn(p, q)
      PROVE  KeeperInv'
  BY <1>5, TurnShape DEF StopTurn
<1> QED
  BY <1>1, <1>2, <1>3, <1>4, <1>5, TurnShape

\* A new alliance is one of the player that sealed it, who has land.
LEMMA SealKeeper ==
    ASSUME KeeperInv, NEW p \in lands, NEW yes \in SUBSET pending,
           \A pq \in yes : pq[2] = p
    PROVE  \A a \in AfterAccepting(yes) : \E r \in {a.req, a.rec} : Own(r) \in running
<1>1. Own(p) \in running
  BY DEF KeeperInv, TypeOK
<1>2. \A pq \in yes : NewAlliance(pq[1], pq[2]).rec = p
  BY DEF NewAlliance
<1> QED
  BY <1>1, <1>2 DEF AfterAccepting, KeeperInv, EveryPactHasAKeeper, Own

LEMMA OrderKeeper == ASSUME KeeperInv, TypeOK', NEW j \in queue, InitOrder(j) PROVE KeeperInv'
<1>1. PICK k \in Kinds, p, q \in Players : j = <<k, p, q>>
  BY DiplomacyAssumption DEF KeeperInv, TypeOK
<1>2. lands' = lands /\ reaped' = reaped
  BY DEF InitOrder
<1>3. ASSUME running \subseteq running',
             \A a \in alliances' : \E b \in alliances : a.req = b.req /\ a.rec = b.rec
      PROVE  KeeperInv'
  BY <1>2, <1>3 DEF KeeperInv, EveryPactHasAKeeper
<1>4. CASE k = "request" /\ Request(p, q)
  <2>1. CASE CanAsk(p, q) /\ <<q, p>> \in pending
    <3>1. alliances' = AfterAccepting({<<q, p>>}) /\ running' = running
      BY <1>4, <2>1 DEF Request
    <3>2. p \in lands
      BY <2>1 DEF CanAsk
    <3>3. \A a \in alliances' : \E r \in {a.req, a.rec} : Own(r) \in running
      BY <2>1, <3>1, <3>2, SealKeeper
    <3> QED
      BY <1>2, <3>1, <3>3 DEF KeeperInv, EveryPactHasAKeeper, Own
  <2>2. CASE ~(CanAsk(p, q) /\ <<q, p>> \in pending)
    BY <1>3, <1>4, <2>2 DEF Request, pactVars
  <2> QED
    BY <2>1, <2>2
<1>5. CASE k = "extend" /\ Extend(p, q)
  <2> DEFINE after(a) == IF Joins(a, p, q) /\ {p, q} \subseteq lands THEN Renewed(a, p) ELSE a
  <2>1. ASSUME NEW a \in alliances PROVE after(a).req = a.req /\ after(a).rec = a.rec
    BY DEF KeeperInv, TypeOK, AllianceType, Renewed
  <2>2. alliances' = {after(a) : a \in alliances} /\ running' = running
    BY <1>5 DEF Extend
  <2> HIDE DEF after
  <2> QED
    BY <1>3, <2>1, <2>2
<1>6. CASE k \in {"reject", "break", "start", "stop", "startAll", "stopAll", "attack", "boat",
                  "mirv", "offline", "online"}
  BY <1>1, <1>3, <1>6 DEF InitOrder, Reject, Enter, EmbargoAll, Attack, Boat, Mirv,
                          AfterBreaking, pactVars
<1> QED
  BY <1>1, <1>4, <1>5, <1>6 DEF InitOrder, Kinds

LEMMA StepKeeper == KeeperInv /\ [Next]_vars => KeeperInv'
<1> SUFFICES ASSUME KeeperInv, [Next]_vars PROVE KeeperInv'
  OBVIOUS
<1>1. TypeOK'
  BY StepType DEF KeeperInv
<1>2. ASSUME running' = running, lands' \cap reaped' = {}, reaped' = reaped,
             \A a \in alliances' : \E b \in alliances : a.req = b.req /\ a.rec = b.rec
      PROVE  KeeperInv'
  BY <1>1, <1>2 DEF KeeperInv, EveryPactHasAKeeper
<1> USE DEF KeeperInv
<1>3. CASE UNCHANGED vars
  BY <1>2, <1>3 DEF vars, pactVars, loopVars
<1>4. ASSUME NEW i \in Intents, Submit(i) PROVE KeeperInv'
  BY <1>2, <1>4 DEF Submit, pactVars
<1>5. CASE StartTick
  BY <1>2, <1>5 DEF StartTick, pactVars
<1>6. ASSUME NEW p \in Deciders, NEW yes \in SUBSET pending, Answer(p, yes) PROVE KeeperInv'
  <2>1. p \in lands /\ \A pq \in yes : pq[2] = p
    BY <1>6 DEF Answer
  <2>2. \A a \in AfterAccepting(yes) : \E r \in {a.req, a.rec} : Own(r) \in running
    BY <2>1, SealKeeper
  <2> QED
    BY <1>1, <1>6, <2>2 DEF Answer, loopVars, EveryPactHasAKeeper, Own
<1>7. ASSUME NEW p \in Players, NEW q \in Players, Betray(p, q) PROVE KeeperInv'
  BY <1>2, <1>7 DEF Betray, AfterBreaking, loopVars
<1>8. ASSUME NEW p \in Players, NEW q \in Players, Judge(p, q) PROVE KeeperInv'
  BY <1>2, <1>8 DEF Judge, pactVars, loopVars
<1>9. ASSUME NEW p \in Strikers, NEW hit \in SUBSET Players, Bombard(p, hit) PROVE KeeperInv'
  BY <1>2, <1>9 DEF Bombard, AfterBreaking, loopVars
<1>10. ASSUME NEW p \in Mortal, LoseLand(p) \/ RegainLand(p) PROVE KeeperInv'
  BY <1>2, <1>10 DEF LoseLand, RegainLand, pactVars, loopVars
<1>11. CASE StartInits
  BY <1>2, <1>11 DEF StartInits, pactVars
<1>12. CASE EndTick
  <2> DEFINE after(a) == [a EXCEPT !.left = a.left - 1]
  <2>1. ASSUME NEW a \in alliances PROVE after(a).req = a.req /\ after(a).rec = a.rec
    BY DEF TypeOK, AllianceType
  <2>2. /\ alliances' = {after(a) : a \in alliances}
        /\ running' = running /\ lands' = lands /\ reaped' = reaped
    BY <1>12 DEF EndTick
  <2> HIDE DEF after
  <2> QED
    BY <1>2, <2>1, <2>2
<1> QED
  BY <1>1, <1>3, <1>4, <1>5, <1>6, <1>7, <1>8, <1>9, <1>10, <1>11, <1>12,
     TurnKeeper, OrderKeeper DEF Next

\* Of two allies one has an execution of its own, which expires the alliance:
\* no alliance outlives both of its members.
THEOREM EveryPactHasAKeeperHolds == Spec => []EveryPactHasAKeeper
<1>1. KeeperInv => EveryPactHasAKeeper
  BY DEF KeeperInv
<1> QED
  BY <1>1, InitKeeper, StepKeeper, PTL DEF Spec

-----------------------------------------------------------------------------
(* Alliances.  Within a tick the two allies' executions stand between an     *)
(* alliance that is due and the initialisations.                             *)

AllianceClock ==
    /\ phase = "orders" => \A a \in alliances : a.left >= 0
    /\ phase = "tick" =>
          \A a \in alliances : a.left <= 0 =>
             \A p \in {a.req, a.rec} : Own(p) \in running => Own(p) \in todo
    /\ phase = "init" => \A a \in alliances : a.left > 0

AllianceInv == KeeperInv /\ AllianceClock

LEMMA NewAllianceLeft ==
    ASSUME NEW asked
    PROVE  \A a \in AfterAccepting(asked) : a \in alliances \/ a.left > 0
  BY DiplomacyAssumption DEF AfterAccepting, NewAlliance

LEMMA TurnAllianceClock ==
    ASSUME AllianceInv, NEW j \in todo, TakeTurn(j) PROVE AllianceClock'
<1> USE DEF AllianceInv, KeeperInv, AllianceClock, Own
<1>1. ASSUME NEW p \in Players, j = Own(p), PlayerTurn(p) PROVE AllianceClock'
  <2>1. ASSUME NEW a \in alliances', a.left <= 0
        PROVE  a \in alliances /\ p \notin {a.req, a.rec}
    BY <1>1, <2>1 DEF PlayerTurn, Reap, AfterExpiry, Expired, Joins, TypeOK, AllianceType
  <2>2. running' \subseteq running
    BY <1>1 DEF PlayerTurn, Reap
  <2> QED
    BY <1>1, <2>1, <2>2, TurnShape
<1>2. ASSUME NEW p \in Players, NEW q \in Players, j = <<"watch", p, q>>, WatchTurn(p, q)
      PROVE  AllianceClock'
  BY <1>2, TurnShape DEF WatchTurn
<1>3. ASSUME NEW p \in Players, NEW q \in Players, j = <<"break", p, q>>, BreakTurn(p, q)
      PROVE  AllianceClock'
  BY <1>3, TurnShape DEF BreakTurn, AfterBreaking
<1>4. ASSUME NEW p \in Players, NEW q \in Players, j = <<"start", p, q>>, StartTurn(p, q)
      PROVE  AllianceClock'
  BY <1>4, TurnShape DEF StartTurn
<1>5. ASSUME NEW p \in Players, NEW q \in Players, j = <<"stop", p, q>>, StopTurn(p, q)
      PROVE  AllianceClock'
  BY <1>5, TurnShape DEF StopTurn
<1> QED
  BY <1>1, <1>2, <1>3, <1>4, <1>5, TurnShape

LEMMA OrderAllianceClock ==
    ASSUME AllianceInv, NEW j \in queue, InitOrder(j) PROVE AllianceClock'
<1>1. PICK k \in Kinds, p, q \in Players : j = <<k, p, q>>
  BY DiplomacyAssumption DEF AllianceInv, KeeperInv, TypeOK
<1>2. ASSUME \A a \in alliances' : a \in alliances \/ a.left > 0 PROVE AllianceClock'
  BY <1>2 DEF AllianceInv, AllianceClock, InitOrder
<1>3. CASE k = "request" /\ Request(p, q)
  BY <1>2, <1>3, NewAllianceLeft DEF Request, pactVars
<1>4. CASE k = "extend" /\ Extend(p, q)
  <2> DEFINE after(a) == IF Joins(a, p, q) /\ {p, q} \subseteq lands THEN Renewed(a, p) ELSE a
  <2>1. ASSUME NEW a \in alliances, a.left > 0 PROVE after(a).left > 0
    BY <2>1, DiplomacyAssumption DEF AllianceInv, KeeperInv, TypeOK, AllianceType, Renewed
  <2>2. alliances' = {after(a) : a \in alliances}
    BY <1>4 DEF Extend
  <2> HIDE DEF after
  <2>3. \A a \in alliances : a.left > 0
    BY DEF AllianceInv, AllianceClock, InitOrder
  <2> QED
    BY <1>2, <2>1, <2>2, <2>3
<1>5. CASE k \in {"reject", "break", "start", "stop", "startAll", "stopAll", "attack", "boat",
                  "mirv", "offline", "online"}
  BY <1>1, <1>2, <1>5 DEF InitOrder, Reject, Enter, EmbargoAll, Attack, Boat, Mirv,
                          AfterBreaking, pactVars
<1> QED
  BY <1>1, <1>3, <1>4, <1>5 DEF InitOrder, Kinds

LEMMA StepAllianceInv == AllianceInv /\ [Next]_vars => AllianceInv'
<1> SUFFICES ASSUME AllianceInv, [Next]_vars PROVE AllianceClock'
  BY StepKeeper DEF AllianceInv
<1>1. ASSUME phase' = phase, running' = running, todo' = todo,
             \A a \in alliances' : a \in alliances \/ a.left > 0
      PROVE  AllianceClock'
  <2>1. TypeOK'
    BY StepType DEF AllianceInv, KeeperInv
  <2>2. \A a \in alliances' : a.left \in Int
    BY <2>1 DEF TypeOK, AllianceType
  <2>3. \A a \in alliances' : a \in alliances \/ (a.left >= 0 /\ ~(a.left <= 0))
    BY <1>1, <2>2
  <2> QED
    BY <1>1, <2>3 DEF AllianceInv, AllianceClock
<1>2. CASE UNCHANGED vars
  BY <1>1, <1>2 DEF vars, pactVars, loopVars
<1>3. ASSUME NEW i \in Intents, Submit(i) PROVE AllianceClock'
  BY <1>1, <1>3 DEF Submit, pactVars
<1>4. CASE StartTick
  BY <1>4 DEF StartTick, AllianceClock, pactVars
<1>5. ASSUME NEW p \in Deciders, NEW yes \in SUBSET pending, Answer(p, yes)
      PROVE  AllianceClock'
  BY <1>1, <1>5, NewAllianceLeft DEF Answer, loopVars
<1>6. ASSUME NEW p \in Players, NEW q \in Players, Betray(p, q) PROVE AllianceClock'
  BY <1>1, <1>6 DEF Betray, AfterBreaking, loopVars
<1>7. ASSUME NEW p \in Players, NEW q \in Players, Judge(p, q) PROVE AllianceClock'
  BY <1>1, <1>7 DEF Judge, pactVars, loopVars
<1>8. ASSUME NEW p \in Strikers, NEW hit \in SUBSET Players, Bombard(p, hit)
      PROVE  AllianceClock'
  BY <1>1, <1>8 DEF Bombard, AfterBreaking, loopVars
<1>9. ASSUME NEW p \in Mortal, LoseLand(p) \/ RegainLand(p) PROVE AllianceClock'
  BY <1>1, <1>9 DEF LoseLand, RegainLand, pactVars, loopVars
<1>10. CASE StartInits
  <2>1. ASSUME NEW a \in alliances PROVE ~(a.left <= 0)
    BY <1>10 DEF StartInits, AllianceInv, KeeperInv, EveryPactHasAKeeper, Own, AllianceClock
  <2>2. \A a \in alliances : a.left > 0
    BY <2>1 DEF AllianceInv, KeeperInv, TypeOK, AllianceType
  <2> QED
    BY <1>10, <2>2 DEF StartInits, AllianceClock, pactVars
<1>11. CASE EndTick
  <2> DEFINE after(a) == [a EXCEPT !.left = a.left - 1]
  <2>1. ASSUME NEW a \in alliances PROVE after(a).left >= 0
    BY <1>11 DEF EndTick, AllianceInv, KeeperInv, TypeOK, AllianceType, AllianceClock
  <2>2. alliances' = {after(a) : a \in alliances} /\ phase' = "orders"
    BY <1>11 DEF EndTick
  <2> HIDE DEF after
  <2> QED
    BY <2>1, <2>2 DEF AllianceClock
<1>12. ASSUME NEW j \in todo, TakeTurn(j) PROVE AllianceClock'
  BY <1>12, TurnAllianceClock
<1>13. ASSUME NEW j \in queue, InitOrder(j) PROVE AllianceClock'
  BY <1>13, OrderAllianceClock
<1> QED
  BY <1>2, <1>3, <1>4, <1>5, <1>6, <1>7, <1>8, <1>9, <1>10, <1>11, <1>12, <1>13 DEF Next

\* No alliance is left when its time is up, in whatever order the executions
\* run and whether or not the one who asked for it still lives.
THEOREM AlliancesEnd == Spec => []AlliancesEndOnTime
<1>1. Init => AllianceInv
  BY InitKeeper DEF Init, AllianceInv, AllianceClock
<1>2. AllianceInv => AlliancesEndOnTime
  BY DEF AllianceInv, AllianceClock, AlliancesEndOnTime
<1> QED
  BY <1>1, <1>2, StepAllianceInv, PTL DEF Spec

-----------------------------------------------------------------------------
(* Requests. *)

RequestClock ==
    /\ phase = "orders" => \A pq \in pending : since[pq] <= RequestDuration + 1
    /\ phase = "tick" =>
          \A pq \in pending : since[pq] > RequestDuration => Watch(pq) \in todo
    /\ phase = "init" => \A pq \in pending : since[pq] <= RequestDuration

RequestInv == PactInv /\ RequestClock

LEMMA TurnRequestClock ==
    ASSUME RequestInv, NEW j \in todo, TakeTurn(j) PROVE RequestClock'
<1> USE DEF RequestInv, PactInv, RequestClock
<1>1. phase = "tick" /\ phase' = "tick" /\ todo' = todo \ {j} /\ since' = since
  BY TurnShape
<1>2. ASSUME pending' = pending, j[1] # "watch" PROVE RequestClock'
  BY <1>1, <1>2 DEF Watch
<1>3. ASSUME NEW p \in Players, NEW q \in Players, j = <<"watch", p, q>>, WatchTurn(p, q)
      PROVE  RequestClock'
  <2>1. SUFFICES ASSUME NEW pq \in pending', since[pq] > RequestDuration
                 PROVE  pq \in pending /\ Watch(pq) # j
    BY <1>1, <2>1
  <2>2. pq \in pending /\ pq = <<pq[1], pq[2]>>
    BY <1>3 DEF WatchTurn, TypeOK, Pairs
  <2>3. pq # <<p, q>>
    BY <1>3, <2>1 DEF WatchTurn
  <2> QED
    BY <1>3, <2>2, <2>3 DEF Watch
<1> QED
  <2>1. ASSUME NEW p \in Players, j = Own(p), PlayerTurn(p) PROVE RequestClock'
    BY <1>2, <2>1 DEF PlayerTurn, Own
  <2>2. ASSUME NEW p \in Players, NEW q \in Players,
               j \in {<<"break", p, q>>, <<"start", p, q>>, <<"stop", p, q>>},
               BreakTurn(p, q) \/ StartTurn(p, q) \/ StopTurn(p, q)
        PROVE  RequestClock'
    BY <1>2, <2>2 DEF BreakTurn, StartTurn, StopTurn
  <2> QED
    BY <1>3, <2>1, <2>2, TurnShape

LEMMA OrderRequestClock ==
    ASSUME RequestInv, NEW j \in queue, InitOrder(j) PROVE RequestClock'
<1>1. PICK k \in Kinds, p, q \in Players : j = <<k, p, q>>
  BY DiplomacyAssumption DEF RequestInv, PactInv, TypeOK
<1>2. phase = "init" /\ phase' = "init"
  BY DEF InitOrder
<1>3. ASSUME pending' \subseteq pending, since' = since PROVE RequestClock'
  BY <1>2, <1>3 DEF RequestInv, RequestClock
<1>4. CASE k = "request" /\ Request(p, q)
  <2>1. CASE CanAsk(p, q) /\ <<q, p>> \notin pending
    <3>1. pending' = pending \cup {<<p, q>>} /\ since' = [since EXCEPT ![<<p, q>>] = 0]
      BY <1>4, <2>1 DEF Request
    <3>2. <<p, q>> \in Pairs /\ 0 <= RequestDuration
      BY DiplomacyAssumption DEF Pairs
    <3> QED
      BY <1>2, <3>1, <3>2 DEF RequestInv, PactInv, TypeOK, RequestClock
  <2>2. CASE ~(CanAsk(p, q) /\ <<q, p>> \notin pending)
    BY <1>3, <1>4, <2>2 DEF Request, StillPending, pactVars
  <2> QED
    BY <2>1, <2>2
<1>5. CASE k # "request"
  BY <1>1, <1>3, <1>5 DEF InitOrder, Reject, Enter, EmbargoAll, Attack, Boat, Mirv, Extend,
                          pactVars
<1> QED
  BY <1>1, <1>4, <1>5 DEF InitOrder

LEMMA StepRequestInv == RequestInv /\ [Next]_vars => RequestInv'
<1> SUFFICES ASSUME RequestInv, [Next]_vars PROVE RequestClock'
  BY StepPactInv DEF RequestInv
<1>1. ASSUME phase' = phase, todo' = todo, since' = since, pending' \subseteq pending
      PROVE  RequestClock'
  BY <1>1 DEF RequestInv, RequestClock
<1>2. CASE UNCHANGED vars
  BY <1>1, <1>2 DEF vars, pactVars, loopVars
<1>3. ASSUME NEW i \in Intents, Submit(i) PROVE RequestClock'
  BY <1>1, <1>3 DEF Submit, pactVars
<1>4. CASE StartTick
  BY <1>4 DEF StartTick, RequestInv, PactInv, EveryRequestIsWatched, Watch, RequestClock,
              pactVars
<1>5. ASSUME NEW p \in Deciders, NEW yes \in SUBSET pending, Answer(p, yes)
      PROVE  RequestClock'
  BY <1>1, <1>5 DEF Answer, StillPending, loopVars
<1>6. ASSUME NEW p \in Players, NEW q \in Players, Betray(p, q) PROVE RequestClock'
  BY <1>1, <1>6 DEF Betray, loopVars
<1>7. ASSUME NEW p \in Players, NEW q \in Players, Judge(p, q) PROVE RequestClock'
  BY <1>1, <1>7 DEF Judge, pactVars, loopVars
<1>8. ASSUME NEW p \in Strikers, NEW hit \in SUBSET Players, Bombard(p, hit)
      PROVE  RequestClock'
  BY <1>1, <1>8 DEF Bombard, loopVars
<1>9. ASSUME NEW p \in Mortal, LoseLand(p) \/ RegainLand(p) PROVE RequestClock'
  BY <1>1, <1>9 DEF LoseLand, RegainLand, pactVars, loopVars
<1>10. CASE StartInits
  BY <1>10, DiplomacyAssumption
     DEF StartInits, RequestInv, PactInv, TypeOK, RequestClock, pactVars
<1>11. CASE EndTick
  <2>1. ASSUME NEW pq \in pending PROVE since'[pq] <= RequestDuration + 1
    <3>1. pq \in Pairs /\ since[pq] \in 0 .. RequestCooldown /\ since[pq] <= RequestDuration
      BY <1>11 DEF EndTick, RequestInv, PactInv, TypeOK, RequestClock
    <3>2. since'[pq] = More(since[pq], RequestCooldown)
      BY <1>11, <3>1 DEF EndTick
    <3> QED
      BY <3>1, <3>2, DiplomacyAssumption DEF More
  <2> QED
    BY <1>11, <2>1 DEF EndTick, RequestClock
<1>12. ASSUME NEW j \in todo, TakeTurn(j) PROVE RequestClock'
  BY <1>12, TurnRequestClock
<1>13. ASSUME NEW j \in queue, InitOrder(j) PROVE RequestClock'
  BY <1>13, OrderRequestClock
<1> QED
  BY <1>2, <1>3, <1>4, <1>5, <1>6, <1>7, <1>8, <1>9, <1>10, <1>11, <1>12, <1>13 DEF Next

\* An unanswered request is withdrawn in time.
THEOREM RequestsEnd == Spec => []RequestsTimeOut
<1>1. Init => RequestInv
  BY InitPactInv DEF Init, RequestInv, RequestClock
<1>2. RequestInv => RequestsTimeOut
  BY DEF RequestInv, RequestClock, RequestsTimeOut
<1> QED
  BY <1>1, <1>2, StepRequestInv, PTL DEF Spec

-----------------------------------------------------------------------------
(* Embargoes. *)

\* The temporary embargoes that somebody is still there to lift.
Passing(pq) == pq[1] \notin reaped /\ embargo[pq].kind = "temporary"

EmbargoClock ==
    /\ phase = "orders" =>
          \A pq \in Pairs : Passing(pq) => embargo[pq].age <= EmbargoDuration + 1
    /\ phase = "tick" =>
          \A pq \in Pairs : Passing(pq) /\ embargo[pq].age > EmbargoDuration =>
                            Own(pq[1]) \in todo
    /\ phase = "init" =>
          \A pq \in Pairs : Passing(pq) => embargo[pq].age <= EmbargoDuration

EmbargoInv == KeeperInv /\ EmbargoClock

LEMMA TurnEmbargoClock ==
    ASSUME EmbargoInv, NEW j \in todo, TakeTurn(j) PROVE EmbargoClock'
<1> USE DEF EmbargoInv, KeeperInv, EmbargoClock, Passing
<1>1. phase = "tick" /\ phase' = "tick" /\ todo' = todo \ {j}
  BY TurnShape
<1>2. ASSUME j[1] # "player", reaped' = reaped,
             \A pq \in Pairs : embargo'[pq] = embargo[pq] \/ embargo'[pq].kind # "temporary"
      PROVE  EmbargoClock'
  BY <1>1, <1>2 DEF Own
<1>3. ASSUME NEW p \in Players, j = Own(p), PlayerTurn(p) PROVE EmbargoClock'
  <2>1. SUFFICES ASSUME NEW pq \in Pairs, pq[1] \notin reaped',
                        embargo'[pq].kind = "temporary", embargo'[pq].age > EmbargoDuration
                 PROVE  Own(pq[1]) \in todo'
    BY <1>1, <2>1
  <2>2. pq[1] # p /\ embargo'[pq] = embargo[pq] /\ pq[1] \notin reaped
    BY <1>3, <2>1 DEF PlayerTurn, Reap, Lapsed, NoEmbargo
  <2> QED
    BY <1>1, <1>3, <2>1, <2>2 DEF Own
<1>4. ASSUME NEW p \in Players, NEW q \in Players, j = <<"watch", p, q>>, WatchTurn(p, q)
      PROVE  EmbargoClock'
  BY <1>2, <1>4 DEF WatchTurn
<1>5. ASSUME NEW p \in Players, NEW q \in Players, j = <<"break", p, q>>, BreakTurn(p, q)
      PROVE  EmbargoClock'
  BY <1>2, <1>5 DEF BreakTurn
<1>6. ASSUME NEW p \in Players, NEW q \in Players, j = <<"start", p, q>>, StartTurn(p, q)
      PROVE  EmbargoClock'
  BY <1>2, <1>6 DEF StartTurn, Embargoed, TypeOK
<1>7. ASSUME NEW p \in Players, NEW q \in Players, j = <<"stop", p, q>>, StopTurn(p, q)
      PROVE  EmbargoClock'
  BY <1>2, <1>7 DEF StopTurn, NoEmbargo, TypeOK
<1> QED
  BY <1>3, <1>4, <1>5, <1>6, <1>7, TurnShape

\* An order leaves each embargo alone, ends it, makes it permanent or starts a
\* temporary one.
LEMMA OrderEmbargo ==
    ASSUME TypeOK, NEW j \in queue, InitOrder(j), NEW pq \in Pairs
    PROVE  \/ embargo'[pq] = embargo[pq]
           \/ embargo'[pq].kind # "temporary"
           \/ embargo'[pq].kind = "temporary" /\ embargo'[pq].age = 0
<1>1. PICK k \in Kinds, p, q \in Players : j = <<k, p, q>>
  BY DiplomacyAssumption DEF TypeOK
<1>2. CASE k = "request" /\ Request(p, q)
  BY <1>2 DEF Request, Reconciled, NoEmbargo
<1>3. CASE k \in {"startAll", "stopAll"} /\ EmbargoAll(p, k = "startAll")
  BY <1>3 DEF EmbargoAll, NoEmbargo
<1>4. CASE k = "attack" /\ Attack(p, q)
  BY <1>4 DEF Attack, Embargoed, TypeOK
<1>5. CASE k \in Kinds \ {"request", "startAll", "stopAll", "attack"}
  BY <1>1, <1>5 DEF InitOrder, Kinds, Reject, Enter, Extend, Boat, Mirv
<1> QED
  BY <1>1, <1>2, <1>3, <1>4, <1>5 DEF InitOrder

LEMMA StepEmbargoInv == EmbargoInv /\ [Next]_vars => EmbargoInv'
<1> SUFFICES ASSUME EmbargoInv, [Next]_vars PROVE EmbargoClock'
  BY StepKeeper DEF EmbargoInv
<1>1. ASSUME phase' = phase, todo' = todo, reaped' = reaped,
             \A pq \in Pairs : \/ embargo'[pq] = embargo[pq]
                               \/ embargo'[pq].kind # "temporary"
                               \/ embargo'[pq].age = 0
      PROVE  EmbargoClock'
  <2>1. \A pq \in Pairs : \/ embargo'[pq] = embargo[pq]
                          \/ embargo'[pq].kind # "temporary"
                          \/ /\ embargo'[pq].age <= EmbargoDuration
                             /\ embargo'[pq].age <= EmbargoDuration + 1
                             /\ ~(embargo'[pq].age > EmbargoDuration)
    BY <1>1, DiplomacyAssumption
  <2> QED
    BY <1>1, <2>1 DEF EmbargoInv, EmbargoClock, Passing
<1>2. CASE UNCHANGED vars
  BY <1>1, <1>2 DEF vars, tradeVars, loopVars
<1>3. ASSUME NEW i \in Intents, Submit(i) PROVE EmbargoClock'
  BY <1>1, <1>3 DEF Submit, tradeVars
<1>4. CASE StartTick
  BY <1>4 DEF StartTick, EmbargoInv, KeeperInv, EmbargoClock, Passing, Pairs, tradeVars
<1>5. ASSUME NEW p \in Deciders, NEW yes \in SUBSET pending, Answer(p, yes)
      PROVE  EmbargoClock'
  BY <1>1, <1>5 DEF Answer, tradeVars, loopVars
<1>6. ASSUME NEW p \in Players, NEW q \in Players, Betray(p, q) PROVE EmbargoClock'
  BY <1>1, <1>6 DEF Betray, tradeVars, loopVars
<1>7. ASSUME NEW p \in Players, NEW q \in Players, Judge(p, q) PROVE EmbargoClock'
  BY <1>1, <1>7 DEF Judge, Embargoed, NoEmbargo, EmbargoInv, KeeperInv, TypeOK, loopVars
<1>8. ASSUME NEW p \in Strikers, NEW hit \in SUBSET Players, Bombard(p, hit)
      PROVE  EmbargoClock'
  BY <1>1, <1>8 DEF Bombard, tradeVars, loopVars
<1>9. ASSUME NEW p \in Mortal, LoseLand(p) \/ RegainLand(p) PROVE EmbargoClock'
  BY <1>1, <1>9 DEF LoseLand, RegainLand, tradeVars, loopVars
<1>10. CASE StartInits
  <2>1. ASSUME NEW pq \in Pairs, Passing(pq) PROVE embargo[pq].age <= EmbargoDuration
    <3>1. ~(embargo[pq].age > EmbargoDuration) /\ embargo[pq].age \in Int
      BY <1>10, <2>1 DEF StartInits, EmbargoInv, KeeperInv, TypeOK, EmbargoType, EmbargoClock
    <3> QED
      BY <3>1, DiplomacyAssumption
  <2> QED
    BY <1>10, <2>1 DEF StartInits, EmbargoClock, Passing, tradeVars
<1>11. CASE EndTick
  <2>1. ASSUME NEW pq \in Pairs, Passing(pq)' PROVE embargo'[pq].age <= EmbargoDuration + 1
    <3>1. /\ embargo[pq] \in EmbargoType /\ reaped' = reaped
          /\ embargo'[pq] = IF embargo[pq].kind = "temporary"
                            THEN [embargo[pq] EXCEPT !.age = More(@, OldEmbargo)]
                            ELSE embargo[pq]
      BY <1>11 DEF EndTick, EmbargoInv, KeeperInv, TypeOK
    <3>2. embargo[pq].kind = "temporary"
      BY <2>1, <3>1 DEF Passing
    <3>3. embargo'[pq].age = More(embargo[pq].age, OldEmbargo) /\ embargo[pq].age \in Int
      BY <3>1, <3>2 DEF EmbargoType
    <3>4. embargo[pq].age <= EmbargoDuration
      BY <1>11, <2>1, <3>1, <3>2 DEF EndTick, EmbargoInv, EmbargoClock, Passing
    <3> QED
      BY <3>3, <3>4, DiplomacyAssumption DEF More, OldEmbargo
  <2> QED
    BY <1>11, <2>1 DEF EndTick, EmbargoClock
<1>12. ASSUME NEW j \in todo, TakeTurn(j) PROVE EmbargoClock'
  BY <1>12, TurnEmbargoClock
<1>13. ASSUME NEW j \in queue, InitOrder(j) PROVE EmbargoClock'
  <2>1. phase' = phase /\ todo' = todo /\ reaped' = reaped
    BY <1>13 DEF InitOrder
  <2> QED
    BY <1>1, <1>13, <2>1, OrderEmbargo DEF EmbargoInv, KeeperInv
<1> QED
  BY <1>2, <1>3, <1>4, <1>5, <1>6, <1>7, <1>8, <1>9, <1>10, <1>11, <1>12, <1>13 DEF Next

\* The embargo of an attack ends as long as its owner lives to lift it.
THEOREM TemporaryEmbargoesEnd == Spec => []TemporaryEmbargoEnds
<1>1. Init => EmbargoInv
  BY InitKeeper, DiplomacyAssumption DEF Init, EmbargoInv, EmbargoClock, Passing, NoEmbargo
<1>2. EmbargoInv => TemporaryEmbargoEnds
  BY DEF EmbargoInv, EmbargoClock, Passing, TemporaryEmbargoEnds
<1> QED
  BY <1>1, <1>2, StepEmbargoInv, PTL DEF Spec

\* What an order may end: a permanent embargo only by its owner's stopAll.
LEMMA OrderKeepsPermanent ==
    ASSUME TypeOK, NEW j \in queue, InitOrder(j), NEW pq \in Pairs,
           embargo[pq].kind = "permanent", embargo'[pq].kind # "permanent"
    PROVE  \E q \in Players : <<"stopAll", pq[1], q>> \in queue
<1>1. PICK k \in Kinds, p, q \in Players : j = <<k, p, q>>
  BY DiplomacyAssumption DEF TypeOK
<1>2. CASE k = "request" /\ Request(p, q)
  BY <1>2 DEF Request, Reconciled, pactVars
<1>3. CASE k \in {"startAll", "stopAll"} /\ EmbargoAll(p, k = "startAll")
  <2>1. embargo'[pq] # embargo[pq]
    OBVIOUS
  <2>2. pq[1] = p /\ k = "stopAll"
    BY <1>3, <2>1 DEF EmbargoAll, NoEmbargo
  <2> QED
    BY <1>1, <2>2
<1>4. CASE k = "attack" /\ Attack(p, q)
  BY <1>4 DEF Attack, Embargoed
<1>5. CASE k \in Kinds \ {"request", "startAll", "stopAll", "attack"}
  BY <1>1, <1>5 DEF InitOrder, Kinds, Reject, Enter, Extend, Boat, Mirv
<1> QED
  BY <1>1, <1>2, <1>3, <1>4, <1>5 DEF InitOrder

LEMMA TurnKeepsPermanent ==
    ASSUME TypeOK, NEW j \in todo, TakeTurn(j), NEW pq \in Pairs,
           embargo[pq].kind = "permanent", embargo'[pq].kind # "permanent"
    PROVE  <<"stop", pq[1], pq[2]>> \in running
<1> USE DEF TypeOK
<1>1. ASSUME NEW p \in Players, PlayerTurn(p) PROVE FALSE
  BY <1>1 DEF PlayerTurn, Reap, Lapsed
<1>2. ASSUME NEW p \in Players, NEW q \in Players,
             WatchTurn(p, q) \/ BreakTurn(p, q) \/ StartTurn(p, q)
      PROVE  FALSE
  BY <1>2 DEF WatchTurn, BreakTurn, StartTurn, Embargoed
<1>3. ASSUME NEW p \in Players, NEW q \in Players, j = <<"stop", p, q>>, StopTurn(p, q)
      PROVE  <<"stop", pq[1], pq[2]>> \in running
  <2>1. pq = <<p, q>>
    BY <1>3 DEF StopTurn
  <2> QED
    BY <1>3, <2>1
<1> QED
  BY <1>1, <1>2, <1>3, TurnShape

\* A declared embargo outlasts attacks, reconciliations and time.
THEOREM PermanentEmbargoesStand == Spec => PermanentEmbargoStands
<1> DEFINE ended(pq) == embargo[pq].kind = "permanent" /\ embargo'[pq].kind # "permanent"
           byOwner(pq) == \/ <<"stop", pq[1], pq[2]>> \in running
                          \/ \E q \in Players : <<"stopAll", pq[1], q>> \in queue
                          \/ pq[1] \in Deciders
<1>1. ASSUME TypeOK, [Next]_vars, NEW pq \in Pairs, ended(pq) PROVE byOwner(pq)
  <2> USE <1>1
  <2>1. embargo' # embargo
    OBVIOUS
  <2>2. ASSUME NEW j \in todo, TakeTurn(j) PROVE byOwner(pq)
    BY <2>2, TurnKeepsPermanent
  <2>3. ASSUME NEW j \in queue, InitOrder(j) PROVE byOwner(pq)
    BY <2>3, OrderKeepsPermanent
  <2>4. ASSUME NEW p \in Players, NEW q \in Players, Judge(p, q) PROVE byOwner(pq)
    <3>1. pq = <<p, q>>
      BY <2>4 DEF Judge, Embargoed, TypeOK
    <3>2. pq[1] \in Deciders
      BY <2>4, <3>1 DEF Judge
    <3> QED
      BY <3>2
  <2>5. CASE EndTick
    BY <2>5 DEF EndTick, TypeOK
  <2> QED
    BY <2>1, <2>2, <2>3, <2>4, <2>5
       DEF Next, vars, tradeVars, Submit, StartTick, Answer, Betray, Bombard, LoseLand,
           RegainLand, StartInits
<1>2. TypeOK /\ [Next]_vars =>
         [\A pq \in Pairs : ended(pq) => byOwner(pq)]_vars
  BY <1>1
<1> QED
  BY <1>2, TypeCorrect, PTL DEF Spec, PermanentEmbargoStands
=============================================================================
