----------------------------- MODULE Diplomacy -----------------------------
(***************************************************************************)
(* Alliances, alliance requests, embargoes and the traitor mark of the     *)
(* OpenFront engine (src/rust/engine/src): alliance_exec.rs,               *)
(* embargo_exec.rs, mark_disconnected.rs, the diplomatic part of           *)
(* game.rs, and what attacks, boats, missiles, the players' own executions *)
(* and the bots and nations do to it, in the ticks of execute_next_tick.   *)
(*                                                                         *)
(* Clocks are relative: an alliance carries the ticks it has left, a       *)
(* request and an embargo their age, a traitor the ticks it stays one;     *)
(* the end of a tick moves them all.  Within a tick the executions take    *)
(* their turns, and the queue is initialised, in any order: the code's     *)
(* order of insertion is one of them.  Who owns land is an input here      *)
(* (Warfare models it), and so are the decisions of bots and nations.      *)
(***************************************************************************)
EXTENDS Integers, FiniteSets

CONSTANTS
    Players,
    Bots,               \* the tribes (PlayerType::Bot)
    Deciders,           \* bots and nations: they answer requests in their own turn
    Mortal,             \* bound: the players whose land comes and goes
    Strikers,           \* bound: the players that launch nukes
    Team,               \* [Players -> team]; all different without teams
    Intents,            \* bound: the <<kind, from, to>> that may be ordered
    MaxQueue,           \* bound: orders that wait for initialisation
    RequestDuration,    \* 200 in the code: an unanswered request lapses after it
    RequestCooldown,    \* 300 in the code: a player may ask again after it
    AllianceDuration,   \* 3000 in the code
    EmbargoDuration,    \* 3000 in the code, for embargoes set by an attack
    TraitorTicks,       \* 300 in the code
    EmbargoAllCooldown  \* 100 in the code

Kinds == {"request", "reject", "break", "extend", "start", "stop", "startAll",
          "stopAll", "attack", "boat", "mirv", "offline", "online"}

ASSUME DiplomacyAssumption ==
    /\ Bots \subseteq Deciders /\ Deciders \subseteq Players
    /\ Mortal \subseteq Players /\ Strikers \subseteq Players
    /\ Intents \subseteq Kinds \X Players \X Players
    /\ MaxQueue \in Nat
    /\ RequestDuration \in Nat /\ RequestCooldown \in Nat
    /\ RequestDuration < RequestCooldown
    /\ AllianceDuration \in Nat \ {0} /\ EmbargoDuration \in Nat
    /\ TraitorTicks \in Nat /\ EmbargoAllCooldown \in Nat

VARIABLES
    lands,      \* the players that own a tile (isAlive)
    reaped,     \* the players whose execution has run remove_on_death
    offline,    \* is_disconnected
    pending,    \* alliance_requests whose status is Pending, as <<from, to>>
    since,      \* the age of the last request of each pair, up to the cooldown
    alliances,  \* Game.alliances
    embargo,    \* Player.embargoes
    traitor,    \* traitor_remaining_ticks
    allWait,    \* ticks until embargo_all is allowed again
    queue,      \* Game.uninit: orders
    running,    \* Game.execs: executions, as <<kind, from, to>>
    todo,       \* the running executions that have not had their turn
    phase       \* where execute_next_tick is

pactVars == <<pending, since, alliances>>
tradeVars == <<embargo, allWait>>
loopVars == <<queue, running, todo, phase>>
vars == <<lands, reaped, offline, pactVars, traitor, tradeVars, loopVars>>

Pairs == Players \X Players
Phases == {"orders", "tick", "init"}

\* AllianceState: left is expires_at - ticks, renew the extension flags.
AllianceType == [req : Players, rec : Players, left : Int, renew : SUBSET Players]

\* An age stops counting one tick after the last comparison it decides.
OldEmbargo == EmbargoDuration + 2
EmbargoType == [kind : {"none", "temporary", "permanent"}, age : 0 .. OldEmbargo]
NoEmbargo == [kind |-> "none", age |-> 0]

JobType == {<<"player", p, p>> : p \in Players}
               \cup {"watch", "break", "start", "stop"} \X Players \X Players

TypeOK ==
    /\ lands \subseteq Players /\ reaped \subseteq Players /\ offline \subseteq Players
    /\ pending \subseteq Pairs
    /\ since \in [Pairs -> 0 .. RequestCooldown]
    /\ alliances \subseteq AllianceType
    /\ embargo \in [Pairs -> EmbargoType]
    /\ traitor \in [Players -> 0 .. TraitorTicks]
    /\ allWait \in [Players -> 0 .. EmbargoAllCooldown]
    /\ queue \subseteq Intents
    /\ running \subseteq JobType /\ todo \subseteq running
    /\ phase \in Phases

Init ==
    /\ lands = Players /\ reaped = {} /\ offline = {}
    /\ pending = {} /\ since = [pq \in Pairs |-> RequestCooldown]
    /\ alliances = {}
    /\ embargo = [pq \in Pairs |-> NoEmbargo]
    /\ traitor = [p \in Players |-> 0]
    /\ allWait = [p \in Players |-> 0]
    /\ queue = {} /\ running = {<<"player", p, p>> : p \in Players}
    /\ todo = {} /\ phase = "orders"

-----------------------------------------------------------------------------
(* Questions game.rs answers. *)

Joins(a, p, q) == \/ a.req = p /\ a.rec = q
                  \/ a.req = q /\ a.rec = p
Allied(p, q) == p # q /\ \E a \in alliances : Joins(a, p, q)
IsTraitor(p) == traitor[p] > 0

SameTeam(p, q) == p # q /\ p \notin Bots /\ q \notin Bots /\ Team[p] = Team[q]
Friendly(p, q) == \/ p = q
                  \/ q \notin offline /\ (SameTeam(p, q) \/ Allied(p, q))

\* (mutant) A player may ask an ally.
CanAskAllies(p, q) ==
    /\ p # q /\ {p, q} \cap offline = {} /\ p \in lands /\ <<p, q>> \notin pending
    /\ <<q, p>> \in pending \/ since[<<p, q>>] >= RequestCooldown

\* can_send_alliance_request, and what create_alliance_request checks again.
CanAsk(p, q) ==
    /\ p # q /\ {p, q} \cap offline = {} /\ p \in lands
    /\ ~Allied(p, q) /\ <<p, q>> \notin pending
    /\ \/ <<q, p>> \in pending
       \/ since[<<p, q>>] >= RequestCooldown

\* The players p's embargo_all is about.
TradePartners(p) == {q \in Players \ ({p} \cup Bots) : ~SameTeam(p, q)}

-----------------------------------------------------------------------------
(* Updates game.rs makes. *)

NewAlliance(p, q) == [req |-> p, rec |-> q, left |-> AllianceDuration, renew |-> {}]
Crossing(pq) == {pq, <<pq[2], pq[1]>>}

\* accept_alliance_pair for the requests asked: the alliances after it,
AfterAccepting(asked) == alliances \cup {NewAlliance(pq[1], pq[2]) : pq \in asked}

\* (mutant) Accepting forgets to settle the request.
StillPendingUnsettled(asked) == pending

\* and the requests that are left.
StillPending(asked) == pending \ UNION {Crossing(pq) : pq \in asked}

\* break_alliance_between and break_alliance_silently: p leaves the alliances it
\* has with qs, a traitor if one of them is neither a traitor nor offline.
AfterBreaking(p, qs) == {a \in alliances : \A q \in qs : ~Joins(a, p, q)}
MarkFor(p, qs) ==
    IF \E q \in qs : Allied(p, q) /\ ~IsTraitor(q) /\ q \notin offline
    THEN [traitor EXCEPT ![p] = TraitorTicks] ELSE traitor

\* add_embargo keeps a permanent embargo as it is.
Embargoed(e, pq, kind) ==
    IF e[pq].kind = "permanent" THEN e
    ELSE [e EXCEPT ![pq] = [kind |-> kind, age |-> 0]]

\* (mutant) Reconciliation ends permanent embargoes too.
ReconciledFully(p, q) ==
    [pq \in Pairs |-> IF pq \in Crossing(<<p, q>>) THEN NoEmbargo ELSE embargo[pq]]

\* end_temporary_embargo, for both directions.
Reconciled(p, q) ==
    [pq \in Pairs |-> IF pq \in Crossing(<<p, q>>) /\ embargo[pq].kind # "permanent"
                      THEN NoEmbargo ELSE embargo[pq]]

-----------------------------------------------------------------------------
(* The executions' turns. *)

\* (mutant) Only the one who asked for the alliance ends it.
ExpiredAsked(p) == {a \in alliances : a.left <= 0 /\ p = a.req}

\* expire_alliances_for: an alliance is over in the tick it expires at.
Expired(p) == {a \in alliances : a.left <= 0 /\ p \in {a.req, a.rec}}
AfterExpiry(p) == {a \in alliances : \A x \in Expired(p) : ~Joins(a, x.req, x.rec)}

\* (mutant) The embargoes against dead players are passed over.
LapsedIfAlive(pq) == /\ embargo[pq].kind = "temporary" /\ pq[2] \in lands
                     /\ embargo[pq].age > EmbargoDuration

\* expire_temporary_embargoes_for: an embargo lives a tick longer than it is old.
Lapsed(pq) == embargo[pq].kind = "temporary" /\ embargo[pq].age > EmbargoDuration

\* remove_on_death
Reap(p) ==
    /\ alliances' = {a \in alliances : p \notin {a.req, a.rec}}
    /\ reaped' = reaped \cup {p}
    /\ running' = running \ {<<"player", p, p>>}
    /\ UNCHANGED embargo

\* PlayerExecution
PlayerTurn(p) ==
    /\ \/ p \notin lands /\ Reap(p)
       \/ /\ p \in lands
          /\ alliances' = AfterExpiry(p)
          /\ embargo' = [pq \in Pairs |-> IF pq[1] = p /\ Lapsed(pq) THEN NoEmbargo
                                          ELSE embargo[pq]]
          /\ UNCHANGED <<reaped, running>>
    /\ UNCHANGED <<pending, traitor>>

\* (mutant) The request of a dead player is not withdrawn.
WatchTurnIfAlive(p, q) ==
    LET done == <<p, q>> \notin pending \/ since[<<p, q>>] > RequestDuration IN
    /\ pending' = IF done /\ p \in lands THEN pending \ {<<p, q>>} ELSE pending
    /\ running' = IF done THEN running \ {<<"watch", p, q>>} ELSE running
    /\ UNCHANGED <<alliances, traitor, embargo, reaped>>

\* AllianceRequestExecution: it withdraws its request when nobody answers it.
WatchTurn(p, q) ==
    LET done == <<p, q>> \notin pending \/ since[<<p, q>>] > RequestDuration IN
    /\ pending' = IF done THEN pending \ {<<p, q>>} ELSE pending
    /\ running' = IF done THEN running \ {<<"watch", p, q>>} ELSE running
    /\ UNCHANGED <<alliances, traitor, embargo, reaped>>

\* BreakAllianceExecution
BreakTurn(p, q) ==
    /\ alliances' = AfterBreaking(p, {q})
    /\ traitor' = MarkFor(p, {q})
    /\ running' = running \ {<<"break", p, q>>}
    /\ UNCHANGED <<pending, embargo, reaped>>

\* EmbargoExecution
StartTurn(p, q) ==
    /\ embargo' = Embargoed(embargo, <<p, q>>, "permanent")
    /\ running' = running \ {<<"start", p, q>>}
    /\ UNCHANGED <<pending, alliances, traitor, reaped>>

StopTurn(p, q) ==
    /\ embargo' = [embargo EXCEPT ![<<p, q>>] = NoEmbargo]
    /\ running' = running \ {<<"stop", p, q>>}
    /\ UNCHANGED <<pending, alliances, traitor, reaped>>

TakeTurn(j) ==
    /\ phase = "tick" /\ j \in todo
    /\ todo' = todo \ {j}
    /\ \/ j[1] = "player" /\ PlayerTurn(j[2])
       \/ j[1] = "watch" /\ WatchTurn(j[2], j[3])
       \/ j[1] = "break" /\ BreakTurn(j[2], j[3])
       \/ j[1] = "start" /\ StartTurn(j[2], j[3])
       \/ j[1] = "stop" /\ StopTurn(j[2], j[3])
    /\ UNCHANGED <<lands, offline, since, allWait, queue, phase>>

\* handle_alliance_requests, accept_all_alliance_requests: a nation takes up
\* some of the requests made to it and rejects the others, a bot takes up all.
Answer(p, yes) ==
    LET asked == {pq \in pending : pq[2] = p} IN
    /\ phase = "tick" /\ p \in Deciders \cap lands
    /\ asked # {} /\ yes \subseteq asked /\ (p \in Bots => yes = asked)
    /\ alliances' = AfterAccepting(yes)
    /\ pending' = StillPending(yes) \ asked
    /\ UNCHANGED <<lands, reaped, offline, since, traitor, tradeVars, loopVars>>

\* maybe_betray, and tribe_maybe_attack on an allied traitor.
Betray(p, q) ==
    /\ phase = "tick" /\ p \in Deciders \cap lands /\ Allied(p, q)
    /\ alliances' = AfterBreaking(p, {q})
    /\ traitor' = MarkFor(p, {q})
    /\ UNCHANGED <<lands, reaped, offline, pending, since, tradeVars, loopVars>>

\* handle_embargoes_to_hostile_nations: a nation's relations decide.
Judge(p, q) ==
    /\ phase = "tick" /\ p \in (Deciders \ Bots) \cap lands
    /\ q \in lands \ {p}
    /\ \/ /\ embargo[<<p, q>>] = NoEmbargo /\ ~SameTeam(p, q)
          /\ embargo' = Embargoed(embargo, <<p, q>>, "permanent")
       \/ /\ embargo[<<p, q>>] # NoEmbargo
          /\ embargo' = [embargo EXCEPT ![<<p, q>>] = NoEmbargo]
    /\ UNCHANGED <<lands, reaped, offline, pactVars, traitor, allWait, loopVars>>

\* maybe_break_alliances, when NukeExecution launches: hit are the players the
\* blast would wrong.  A request p made to one of them only is withdrawn.
Bombard(p, hit) ==
    LET asked == {q \in hit : <<p, q>> \in pending} IN
    /\ phase = "tick" /\ p \in Strikers /\ hit # {} /\ p \notin hit
    /\ pending' = {pq \in pending : ~\/ pq[2] = p /\ pq[1] \in hit
                                     \/ pq[1] = p /\ pq[2] \in hit}
    /\ alliances' = AfterBreaking(p, hit \ asked)
    /\ traitor' = MarkFor(p, hit \ asked)
    /\ UNCHANGED <<lands, reaped, offline, since, tradeVars, loopVars>>

\* Tiles change hands in the turns of attacks, boats and nukes.  A reaped
\* player has no executions left that could take land.
LoseLand(p) ==
    /\ phase = "tick" /\ p \in Mortal \cap lands
    /\ lands' = lands \ {p}
    /\ UNCHANGED <<reaped, offline, pactVars, traitor, tradeVars, loopVars>>

RegainLand(p) ==
    /\ phase = "tick" /\ p \in Mortal \ (lands \cup reaped)
    /\ lands' = lands \cup {p}
    /\ UNCHANGED <<reaped, offline, pactVars, traitor, tradeVars, loopVars>>

-----------------------------------------------------------------------------
(* The initialisation of orders. *)

\* AllianceRequestExecution.init with create_alliance_request: a request that
\* meets one in the other direction seals the alliance instead.
Request(p, q) ==
    \/ /\ CanAsk(p, q) /\ <<q, p>> \in pending
       /\ alliances' = AfterAccepting({<<q, p>>})
       /\ pending' = StillPending({<<q, p>>})
       /\ embargo' = Reconciled(p, q)
       /\ UNCHANGED <<since, running>>
    \/ /\ CanAsk(p, q) /\ <<q, p>> \notin pending
       /\ pending' = pending \cup {<<p, q>>}
       /\ since' = [since EXCEPT ![<<p, q>>] = 0]
       /\ running' = running \cup {<<"watch", p, q>>}
       /\ UNCHANGED <<alliances, embargo>>
    \/ ~CanAsk(p, q) /\ UNCHANGED <<pactVars, embargo, running>>

\* AllianceRejectExecution: p turns down what q asked.
Reject(p, q) ==
    /\ pending' = IF Allied(p, q) THEN pending ELSE pending \ {<<q, p>>}
    /\ UNCHANGED <<since, alliances, embargo, running>>

\* BreakAllianceExecution and EmbargoExecution only act in their turn.
Enter(kind, p, q) ==
    /\ running' = running \cup {<<kind, p, q>>}
    /\ UNCHANGED <<pactVars, embargo>>

\* add_alliance_extension_request: an alliance both want to renew starts anew.
Renewed(a, p) ==
    IF a.renew \cup {p} = {a.req, a.rec}
    THEN [a EXCEPT !.renew = {}, !.left = AllianceDuration]
    ELSE [a EXCEPT !.renew = a.renew \cup {p}]

Extend(p, q) ==
    /\ alliances' = {IF Joins(a, p, q) /\ {p, q} \subseteq lands THEN Renewed(a, p)
                     ELSE a : a \in alliances}
    /\ UNCHANGED <<pending, since, embargo, running>>

\* EmbargoAllExecution
EmbargoAll(p, start) ==
    LET may == allWait[p] = 0 /\ TradePartners(p) # {} IN
    /\ allWait' = IF may THEN [allWait EXCEPT ![p] = EmbargoAllCooldown] ELSE allWait
    /\ embargo' = [pq \in Pairs |->
                     IF ~(may /\ pq[1] = p /\ pq[2] \in TradePartners(p))
                     THEN embargo[pq]
                     ELSE IF ~start THEN NoEmbargo
                     ELSE IF embargo[pq] = NoEmbargo
                     THEN [kind |-> "permanent", age |-> 0] ELSE embargo[pq]]
    /\ UNCHANGED <<pactVars, running>>

\* AttackExecution.init: the attacked stop trading and take their request back.
Attack(p, q) ==
    LET hostile == ~Friendly(p, q) /\ {p, q} \cap Bots = {} IN
    /\ embargo' = IF hostile THEN Embargoed(embargo, <<q, p>>, "temporary") ELSE embargo
    /\ pending' = IF hostile THEN pending \ {<<q, p>>} ELSE pending
    /\ UNCHANGED <<since, alliances, running>>

\* TransportShipExecution.init: so do the owners of the shore, friends included.
Boat(p, q) ==
    /\ pending' = IF {p, q} \cap Bots = {} THEN pending \ {<<q, p>>} ELSE pending
    /\ UNCHANGED <<since, alliances, embargo, running>>

\* MirvExecution.init: breaks the alliance before it knows whether it can launch.
Mirv(p, q) ==
    /\ alliances' = AfterBreaking(p, {q})
    /\ traitor' = MarkFor(p, {q})
    /\ UNCHANGED <<pending, since, embargo, running>>

InitOrder(j) ==
    LET kind == j[1]  p == j[2]  q == j[3] IN
    /\ phase = "init" /\ j \in queue
    /\ queue' = queue \ {j}
    /\ \/ kind = "request" /\ Request(p, q)
       \/ kind = "reject" /\ Reject(p, q)
       \/ kind \in {"break", "start", "stop"} /\ Enter(kind, p, q)
       \/ kind = "extend" /\ Extend(p, q)
       \/ kind \in {"startAll", "stopAll"} /\ EmbargoAll(p, kind = "startAll")
       \/ kind = "attack" /\ Attack(p, q)
       \/ kind = "boat" /\ Boat(p, q)
       \/ kind = "mirv" /\ Mirv(p, q)
       \/ kind \in {"offline", "online"} /\ UNCHANGED <<pactVars, embargo, running>>
    /\ offline' = IF kind = "offline" THEN offline \cup {p}
                  ELSE IF kind = "online" THEN offline \ {p} ELSE offline
    /\ kind \notin {"startAll", "stopAll"} => UNCHANGED allWait
    /\ kind # "mirv" => UNCHANGED traitor
    /\ UNCHANGED <<lands, reaped, todo, phase>>

-----------------------------------------------------------------------------
(* execute_next_tick. *)

\* An intent of a client, or an order a bot or a nation gives in its turn (it
\* waits until the initialisations of the same tick).
Submit(i) ==
    /\ phase = "orders" /\ i \in Intents \ queue /\ Cardinality(queue) < MaxQueue
    /\ queue' = queue \cup {i}
    /\ UNCHANGED <<lands, reaped, offline, pactVars, traitor, tradeVars,
                   running, todo, phase>>

StartTick ==
    /\ phase = "orders"
    /\ phase' = "tick" /\ todo' = running
    /\ UNCHANGED <<lands, reaped, offline, pactVars, traitor, tradeVars,
                   queue, running>>

StartInits ==
    /\ phase = "tick" /\ todo = {}
    /\ phase' = "init"
    /\ UNCHANGED <<lands, reaped, offline, pactVars, traitor, tradeVars,
                   queue, running, todo>>

Less(n) == IF n = 0 THEN 0 ELSE n - 1
More(n, limit) == IF n = limit THEN n ELSE n + 1

\* ticks += 1
EndTick ==
    /\ phase = "init" /\ queue = {}
    /\ phase' = "orders"
    /\ since' = [pq \in Pairs |-> More(since[pq], RequestCooldown)]
    /\ alliances' = {[a EXCEPT !.left = a.left - 1] : a \in alliances}
    /\ embargo' = [pq \in Pairs |->
                     IF embargo[pq].kind = "temporary"
                     THEN [embargo[pq] EXCEPT !.age = More(@, OldEmbargo)]
                     ELSE embargo[pq]]
    /\ traitor' = [p \in Players |-> Less(traitor[p])]
    /\ allWait' = [p \in Players |-> Less(allWait[p])]
    /\ UNCHANGED <<lands, reaped, offline, pending, queue, running, todo>>

Next ==
    \/ \E i \in Intents : Submit(i)
    \/ StartTick
    \/ \E j \in todo : TakeTurn(j)
    \/ \E p \in Deciders, yes \in SUBSET pending : Answer(p, yes)
    \/ \E p, q \in Players : Betray(p, q)
    \/ \E p, q \in Players : Judge(p, q)
    \/ \E p \in Strikers, hit \in SUBSET Players : Bombard(p, hit)
    \/ \E p \in Mortal : LoseLand(p) \/ RegainLand(p)
    \/ StartInits
    \/ \E j \in queue : InitOrder(j)
    \/ EndTick

Spec == Init /\ [][Next]_vars

-----------------------------------------------------------------------------
(* Properties. *)

Bonds == {<<a.req, a.rec>> : a \in alliances}
Promise == INSTANCE Pacts WITH offers <- pending, pacts <- Bonds

\* Consent: an alliance arises only from a request its addressee takes up, and
\* whatever ends requests and alliances, two players are in one dealing at most.
KeepsPromises == Promise!Spec

\* Two players have one alliance: breaking, expiring or extending it is about
\* all there is between them (game.rs looks only for the first or for any).
OnePactPerPair == \A a, b \in alliances : Joins(a, b.req, b.rec) => a = b

\* A pending request has an execution that will withdraw it.
EveryRequestIsWatched == \A pq \in pending : <<"watch", pq[1], pq[2]>> \in running

\* Nobody is held to a request for longer than its duration, whatever became
\* of the one who made it.
RequestsTimeOut ==
    phase = "orders" => \A pq \in pending : since[pq] <= RequestDuration + 1

\* An alliance ends in the tick it expires in, even when one of the two died
\* before they became allies.
AlliancesEndOnTime == phase = "orders" => \A a \in alliances : a.left >= 0

\* One of the allies has its own execution, which ends the alliance in time.
EveryPactHasAKeeper ==
    \A a \in alliances : \E p \in {a.req, a.rec} : <<"player", p, p>> \in running

\* An embargo a player declared is not lost to an attack, a reconciliation or
\* time: only its owner ends it.
PermanentEmbargoStands ==
    [][\A pq \in Pairs :
         embargo[pq].kind = "permanent" /\ embargo'[pq].kind # "permanent" =>
            \/ <<"stop", pq[1], pq[2]>> \in running
            \/ \E q \in Players : <<"stopAll", pq[1], q>> \in queue
            \/ pq[1] \in Deciders]_vars

\* The embargo an attack brings about ends, unless its owner died.
TemporaryEmbargoEnds ==
    phase = "orders" =>
        \A pq \in Pairs : pq[1] \notin reaped /\ embargo[pq].kind = "temporary" =>
                          embargo[pq].age <= EmbargoDuration + 1
=============================================================================
