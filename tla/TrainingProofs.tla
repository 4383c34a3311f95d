--------------------------- MODULE TrainingProofs ---------------------------
(***************************************************************************)
(* Theorems about Training, for any number of GPUs, environments, updates, *)
(* minibatches, modes and breakdowns.                                      *)
(*                                                                         *)
(* The invariant has five parts beside the types, each of which needs some *)
(* of the others to be kept:                                               *)
(*   Agenda     the order of what is left of an update;                    *)
(*   Protocol   until the hub has noticed an error: where each learner     *)
(*              stands when the hub waits for it, and that each reply in   *)
(*              the channel answers what is awaited or is a failure;       *)
(*   Harmony    the same: what two learners both know of the decisions,    *)
(*              they have done or are to do alike;                         *)
(*   Versions   always: a version names weights, in actors, rollouts and   *)
(*              the messages between;                                      *)
(*   Calm       until something breaks down: where each actor and the      *)
(*              evaluation stand, so that no check of the hub fails.       *)
(***************************************************************************)
EXTENDS Training, SequenceTheorems, TLAPS

-----------------------------------------------------------------------------
(* The protocol between the hub and the learners, as long as the hub has   *)
(* noticed no error.                                                       *)

Trouble == hub.err \/ hub.pc \in Failing
Learning == hub.pc \in {"gather", "trained"}

\* The rounds that the hub has decided.
Judged == IF hub.pc = "gather" THEN hub.round - 1 ELSE Rounds
Decisions == {"apply", "collective", "discard"}

\* A learner that has done what it was told.
Settled(s) == /\ learner[s].pc = "idle" /\ learner[s].next = hub.lid
              /\ learner[s].cmd = <<>> /\ learner[s].dec = <<>>
\* One that has yet to accept the last command.
Ordered(s, kind) ==
    /\ learner[s].pc = "idle" /\ learner[s].next = hub.lid - 1
    /\ learner[s].cmd = <<[kind |-> kind, id |-> hub.lid - 1]>> /\ learner[s].dec = <<>>
\* One that is in the first round without a decision, or carries the last decision out.
AtWork(s) ==
    /\ learner[s].next = hub.lid /\ learner[s].cmd = <<>>
    /\ \/ /\ learner[s].pc \in {"computing", "waiting"} /\ learner[s].dec = <<>>
          /\ learner[s].round = Judged + 1
       \/ /\ learner[s].pc = "waiting" /\ learner[s].round = Judged
          /\ \E d \in Decisions : learner[s].dec = <<d>>
       \/ learner[s].pc = "reducing" /\ learner[s].dec = <<>> /\ learner[s].round = Judged
       \/ learner[s].pc = "finished" /\ learner[s].dec = <<>> /\ Judged = Rounds

InTime(s) ==
    IF Learning
    THEN \/ ~Live(learner[s]) /\ s \notin hub.heard
         \/ Ordered(s, "train") /\ hub.pc = "gather" /\ hub.round = 1 /\ s \notin hub.heard
         \/ AtWork(s) /\ (s \in hub.heard => learner[s].pc = "waiting" /\ learner[s].dec = <<>>)
         \/ Settled(s) /\ hub.pc = "trained"
    ELSE IF hub.pc = "acks"
    THEN \/ ~Live(learner[s])
         \/ Ordered(s, Head(hub.agenda)) /\ s \notin hub.heard
         \/ Settled(s)
    ELSE ~Live(learner[s]) \/ Settled(s)

\* A reply that waits to be heard answers what the hub waits for, or is a failure.
ToThePoint(m) ==
    /\ m.shard \notin hub.heard
    /\ \/ /\ m.kind = "failed" /\ ~Live(learner[m.shard]) /\ faults > 0
          /\ hub.pc \in {"gather", "trained", "acks"}
       \/ /\ m.kind = "gradient" /\ hub.pc = "gather" /\ m.id = hub.lid - 1 /\ m.round = hub.round
          /\ learner[m.shard].pc = "waiting" /\ learner[m.shard].dec = <<>>
       \/ /\ m.kind = "trained" /\ hub.pc = "trained" /\ m.id = hub.lid - 1
          /\ Settled(m.shard) /\ m.w = learner[m.shard].w
       \/ /\ m.kind = "ack" /\ hub.pc = "acks" /\ m.id = hub.lid - 1
          /\ Settled(m.shard) \/ (~Live(learner[m.shard]) /\ Head(hub.agenda) = "stop")

HubInTime ==
    /\ hub.pc = "gather" => hub.round \in 1 .. Rounds
    /\ hub.pc = "trained" => hub.round = Rounds
    /\ Learning => hub.lid > 1
    /\ hub.pc = "acks" => hub.agenda # <<>> /\ Head(hub.agenda) \in {"save", "stop"}
    /\ hub.lid = 1 => hub.update = 0 /\ hub.pc \in {"prime", "rollouts", "top"}

Protocol ==
    ~Trouble =>
        /\ HubInTime
        /\ \A s \in Shards : InTime(s)
        /\ \A i \in 1 .. Len(replies) : ToThePoint(replies[i])
        /\ \A i, j \in 1 .. Len(replies) : replies[i].shard = replies[j].shard => i = j

-----------------------------------------------------------------------------
(* The weights. *)

\* The rounds of the update whose outcome a learner knows, and its weights once it
\* has carried out what it knows.
Known(s) == CASE learner[s].pc = "idle" -> IF learner[s].cmd = <<>> THEN Rounds ELSE 0
              [] learner[s].pc \in {"finished", "dead"} -> Rounds
              [] learner[s].pc = "reducing" -> learner[s].round
              [] learner[s].pc \in {"computing", "waiting"} ->
                    IF learner[s].dec = <<>> THEN learner[s].round - 1 ELSE learner[s].round
ToCome(s) ==
    IF \/ learner[s].pc = "reducing"
       \/ learner[s].pc = "waiting" /\ learner[s].dec # <<>> /\ learner[s].dec[1] # "discard"
    THEN {<<hub.update, learner[s].round>>} ELSE {}
Foreseen(s) == learner[s].w \cup ToCome(s)

\* What two learners both know they agree on.
Agree(s, t) ==
    \A x \in Steps :
        (x[1] = hub.update => x[2] <= Known(s) /\ x[2] <= Known(t))
        => (x \in Foreseen(s) <=> x \in Foreseen(t))

InUnison ==
    /\ (hub.pc \in {"prime", "top"} \/ hub.lid = 1) =>
           \A s \in Shards : \A x \in learner[s].w : x[1] < hub.update
    /\ ~Learning => (\A s \in Shards : hub.snaps[s] = learner[s].w)
    /\ ~Learning => \A s, t \in Shards : learner[s].w = learner[t].w
    /\ Learning => \A s, t \in Shards : Live(learner[s]) /\ Live(learner[t]) => Agree(s, t)
    /\ Learning => \A s \in Shards : \A x \in Foreseen(s) :
           Live(learner[s]) /\ x[1] = hub.update => x[2] <= Known(s)
    /\ hub.pc = "trained" => \A s \in hub.heard : hub.snaps[s] = learner[s].w
Harmony ==
    /\ \A s \in Shards : \A x \in learner[s].w : x[1] <= hub.update
    /\ ~Trouble => InUnison

-----------------------------------------------------------------------------
(* The versions. *)

\* A learner that may still take steps of this update.
MayStep(s) == \/ learner[s].pc \in {"computing", "waiting", "reducing"}
              \/ /\ Live(learner[s])
                 /\ \E i \in 1 .. Len(learner[s].cmd) : learner[s].cmd[i].kind = "train"
Later == {"agenda", "acks", "answer", "evalEnd", "done"} \cup Failing
Names(s, v, w) ==
    /\ v <= hub.update \/ (v = hub.update + 1 /\ hub.pc \in Later /\ ~MayStep(s))
    /\ w = Before(s, v)
Versions ==
    \A s \in Shards :
        /\ MayStep(s) => hub.update < Updates
        /\ learner[s].pc \in {"computing", "waiting", "reducing"} => learner[s].round > 0
        /\ Names(s, actor[s].version, actor[s].w)
        /\ Names(s, hub.pending[s].version, hub.pending[s].w)
        /\ Names(s, hub.next[s].version, hub.next[s].w)
        /\ \A i \in 1 .. Len(actor[s].cmd) :
              actor[s].cmd[i].kind = "refresh"
                 => Names(s, actor[s].cmd[i].version, actor[s].cmd[i].w)
        /\ \A i \in 1 .. Len(actor[s].out) :
              actor[s].out[i].kind = "collected"
                 => Names(s, actor[s].out[i].version, actor[s].out[i].w)

-----------------------------------------------------------------------------
(* The agenda. *)

Listed(list, x) == \E i \in 1 .. Len(list) : list[i] = x
\* The order and the number of the items that are not safe to repeat or to mix.
Orderly(list) ==
    /\ \A i \in 1 .. Len(list) :
          /\ list[i] = "dismiss" => i = Len(list)
          /\ list[i] = "stop" => i + 1 = Len(list) /\ Listed(list, "dismiss")
          /\ list[i] = "eval" => ~Listed(list, "dismiss")
          /\ list[i] = "endEval" => Listed(list, "dismiss")
    /\ \A i, j \in 1 .. Len(list) :
          list[i] = list[j] /\ list[i] \in {"refresh", "endEval"} => i = j
OnAgenda(x) == Listed(hub.agenda, x)
Ends == OnAgenda("dismiss")
Agenda ==
    /\ Orderly(hub.agenda)
    /\ OnAgenda("refresh") => hub.update < Updates
    /\ hub.err => hub.pc = "rollouts" \/ hub.pc \in Failing
    /\ hub.pc \in {"prime", "rollouts", "gather", "trained"} => hub.update < Updates
    /\ hub.pc \in {"agenda", "acks", "answer", "evalEnd"} => hub.update < Updates \/ Ends
    /\ hub.pc = "answer" => hub.agenda # <<>> /\ hub.agenda[1] \in {"stage", "refresh", "dismiss"}
    /\ hub.pc = "evalEnd" => hub.agenda # <<>> /\ hub.agenda[1] = "endEval"
    /\ hub.pc = "acks" => hub.agenda # <<>> /\ hub.agenda[1] \in {"save", "stop"}

-----------------------------------------------------------------------------
(* What holds besides as long as nothing has broken down. *)

\* An actor that has done what it was asked.
Free(s) == /\ actor[s].pc = "idle" /\ actor[s].next = hub.aid[s]
           /\ actor[s].cmd = <<>> /\ actor[s].out = <<>>
\* One that has yet to accept a command, and one whose answer waits.
Charged(s, kind) == /\ actor[s].pc = "idle" /\ actor[s].next = hub.aid[s] - 1
                    /\ Len(actor[s].cmd) = 1 /\ actor[s].out = <<>>
                    /\ actor[s].cmd[1].kind = kind /\ actor[s].cmd[1].id = hub.aid[s] - 1
Replied(s, kind) == /\ actor[s].next = hub.aid[s]
                    /\ actor[s].cmd = <<>> /\ Len(actor[s].out) = 1
                    /\ actor[s].out[1].kind = kind /\ actor[s].out[1].id = hub.aid[s] - 1
Owes(s) == \/ Charged(s, "collect")
           \/ /\ actor[s].pc = "collecting" /\ actor[s].next = hub.aid[s]
              /\ actor[s].cmd = <<>> /\ actor[s].out = <<>>
           \/ /\ Replied(s, "collected") /\ actor[s].pc = "idle"
              /\ actor[s].out[1].version = actor[s].version
Gone(s) == ~Live(actor[s]) /\ actor[s].cmd = <<>> /\ actor[s].out = <<>>

Dismissing == hub.agenda # <<>> /\ hub.agenda[1] = "dismiss"
Obeyed(s) == Replied(s, "ack") /\ actor[s].pc = IF Dismissing THEN "dead" ELSE "idle"
\* Collecting or about to; asked for something in the second half; dismissed.
Hired(s) == Learning \/ (hub.pc = "rollouts" /\ ~(s < hub.at))
Asking(s) == hub.pc = "answer" /\ s = hub.at
Retired(s) == hub.pc = "done" \/ (hub.pc \in {"agenda", "answer"} /\ Dismissing /\ s < hub.at)
ActorInTime(s) ==
    /\ actor[s].lost = {}
    /\ Hired(s) => Owes(s)
    /\ Asking(s) => Charged(s, hub.agenda[1]) \/ Obeyed(s)
    /\ Retired(s) => Gone(s)
    /\ ~(Hired(s) \/ Asking(s) \/ Retired(s)) => Free(s)

\* The version an actor has in the second half of an update.
Refreshed(s) == IF OnAgenda("refresh")
                THEN hub.agenda[1] = "refresh" /\
                     (s < hub.at \/ (hub.pc = "answer" /\ s = hub.at /\ actor[s].out # <<>>))
                ELSE ~Ends
UpToDate(s) ==
    IF hub.pc \in {"agenda", "acks", "answer", "evalEnd"}
    THEN /\ OnAgenda("refresh") \/ ~Ends =>
               actor[s].version = hub.update + (IF Refreshed(s) THEN 1 ELSE 0)
         /\ ~Ends => hub.pending[s].version = hub.update
         /\ hub.pc = "answer" /\ s = hub.at /\ Charged(s, "refresh") =>
               actor[s].cmd[1].version = hub.update + 1
    ELSE IF hub.pc = "done" THEN TRUE
    ELSE /\ actor[s].version = hub.update
         /\ hub.pc = "top" => hub.pending[s].version = Expected
         /\ hub.pc = "rollouts" /\ s < hub.at => hub.next[s].version = hub.update

Placed == hub.at = 1 \/ hub.pc \in {"rollouts", "answer"}
          \/ (hub.pc = "agenda" /\ hub.agenda # <<>> /\ hub.agenda[1] \in {"stage", "refresh", "dismiss"})

\* Learners are dismissed before the actors.
AllStopped == \/ hub.pc = "acks" /\ hub.agenda[1] = "stop"
              \/ hub.pc \in {"agenda", "answer"} /\ hub.agenda = <<"dismiss">>
              \/ hub.pc = "done"

EvalInTime ==
    /\ eval.result # "err"
    /\ (~Live(eval) \/ eval.cmd = "stop") =>
          \/ hub.pc \in {"evalEnd", "done"}
          \/ hub.pc \in {"agenda", "acks", "answer"} /\ Ends /\ ~OnAgenda("endEval")
    /\ eval.cmd = "run" => Live(eval)
    /\ hub.flight # NoFlight /\ eval.result = "none" => eval.cmd = "run" \/ eval.pc = "running"

Calm ==
    faults = 0 =>
        /\ ~Trouble
        /\ Placed
        /\ \A s \in Shards : ActorInTime(s) /\ UpToDate(s)
        /\ \A s \in Shards : ~Live(learner[s]) => AllStopped
        /\ EvalInTime

-----------------------------------------------------------------------------
(* Types. *)

LEMMA Constants ==
    /\ NumShards \in Nat /\ NumShards > 1 /\ RolloutLen \in Nat \ {0} /\ Rounds \in Nat \ {0}
    /\ Updates \in Nat \ {0} /\ EvalEvery \in Nat \ {0} /\ CkptEvery \in Nat \ {0}
    /\ MaxStages \in Nat /\ MaxFaults \in Nat
  BY TrainingAssumption

LEMMA InitTypes == Init => TypeOK
  BY Constants DEF Init, TypeOK, HubType, HubPlaces, LearnerType, ActorType, EvalType, NoRollouts,
     Rollouts, Shards, NoFlight

LEMMA ToldTypes ==
    ASSUME TypeOK, NEW kind \in {"train", "save", "stop"}
    PROVE  Told(kind) \in [Shards -> LearnerType]
<1> DEFINE c == [kind |-> kind, id |-> hub.lid]
<1>1. c \in CommandType
  BY DEF CommandType, TypeOK, HubType
<1>2. ASSUME NEW s \in Shards PROVE [learner[s] EXCEPT !.cmd = Append(@, c)] \in LearnerType
  <2>1. learner[s] \in LearnerType /\ learner[s].cmd \in Seq(CommandType)
    BY DEF TypeOK, LearnerType
  <2>2. Append(learner[s].cmd, c) \in Seq(CommandType)
    BY <1>1, <2>1, AppendProperties
  <2> HIDE DEF c
  <2> QED BY <2>1, <2>2 DEF LearnerType
<1> QED BY <1>2 DEF Told, TypeOK
LEMMA DecidedTypes ==
    ASSUME NEW threads \in [Shards -> LearnerType],
           NEW d \in {"apply", "collective", "discard", "abort"}
    PROVE  Decided(threads, d) \in [Shards -> LearnerType]
<1>1. ASSUME NEW s \in Shards PROVE [threads[s] EXCEPT !.dec = Append(@, d)] \in LearnerType
  <2>1. threads[s].dec \in Seq({"apply", "collective", "discard", "abort"})
    BY DEF LearnerType
  <2>2. Append(threads[s].dec, d) \in Seq({"apply", "collective", "discard", "abort"})
    BY <2>1, AppendProperties
  <2> QED BY <2>2 DEF LearnerType
<1> QED BY <1>1 DEF Decided
LEMMA AskedTypes ==
    ASSUME TypeOK, NEW who, NEW kind \in {"collect", "refresh", "stage", "dismiss"},
           kind = "refresh" => hub.update < Updates
    PROVE  Asked(who, kind) \in [Shards -> ActorType]
<1> DEFINE c(s) == [kind |-> kind, id |-> hub.aid[s],
                   version |-> IF kind = "refresh" THEN hub.update + 1 ELSE 0,
                   w |-> IF kind = "refresh" THEN hub.snaps[s] ELSE {}]
<1>1. ASSUME NEW s \in Shards PROVE [actor[s] EXCEPT !.cmd = Append(@, c(s))] \in ActorType
  <2>1. c(s) \in OrderType
    BY Constants DEF TypeOK, HubType, OrderType
  <2>2. actor[s] \in ActorType /\ actor[s].cmd \in Seq(OrderType)
    BY DEF TypeOK, ActorType
  <2> HIDE DEF c
  <2>3. Append(actor[s].cmd, c(s)) \in Seq(OrderType)
    BY <2>1, <2>2, AppendProperties
  <2> QED BY <2>2, <2>3 DEF ActorType
<1> QED BY <1>1 DEF Asked, TypeOK

DecisionType == {"apply", "collective", "discard", "abort"}
LEMMA LearnerTypes ==
    ASSUME TypeOK, NEW s \in Shards
    PROVE  /\ learner[s] \in LearnerType
           /\ learner[s].cmd \in Seq(CommandType) /\ learner[s].dec \in Seq(DecisionType)
           /\ learner[s].cmd # <<>> => Head(learner[s].cmd) \in CommandType
           /\ learner[s].dec # <<>> => Head(learner[s].dec) \in DecisionType
<1>1. /\ learner[s] \in LearnerType
      /\ learner[s].cmd \in Seq(CommandType) /\ learner[s].dec \in Seq(DecisionType)
  BY DEF TypeOK, LearnerType, DecisionType
<1> QED BY <1>1, HeadTailProperties
LEMMA EndedType == ASSUME NEW l \in LearnerType PROVE Ended(l) \in LearnerType
<1>1. <<>> \in Seq(CommandType) /\ <<>> \in Seq({"apply", "collective", "discard", "abort"})
  BY EmptySeq
<1> QED BY <1>1 DEF Ended, LearnerType
LEMMA AcceptedType ==
    ASSUME NEW l \in LearnerType, l.cmd # <<>> PROVE Accepted(l) \in LearnerType
<1>1. Tail(l.cmd) \in Seq(CommandType)
  BY HeadTailProperties DEF LearnerType
<1>2. l.next + 1 \in Nat \ {0}
  BY DEF LearnerType
<1> QED BY <1>1, <1>2 DEF Accepted, LearnerType
LEMMA DecTakenType ==
    ASSUME NEW l \in LearnerType, l.dec # <<>> PROVE [l EXCEPT !.dec = Tail(@)] \in LearnerType
<1>1. Tail(l.dec) \in Seq({"apply", "collective", "discard", "abort"})
  BY HeadTailProperties DEF LearnerType
<1> QED BY <1>1 DEF LearnerType
LEMMA PassedType == ASSUME NEW l \in LearnerType PROVE Passed(l) \in LearnerType
<1>1. l.round < Rounds => l.round + 1 \in 0 .. Rounds
  BY Constants DEF LearnerType
<1>2. CASE l.round < Rounds
  BY <1>1, <1>2 DEF Passed, LearnerType
<1>3. CASE ~(l.round < Rounds)
  BY <1>3 DEF Passed, LearnerType
<1> QED BY <1>2, <1>3
LEMMA SteppedType ==
    ASSUME NEW l \in LearnerType, TypeOK, hub.update < Updates, l.round > 0
    PROVE  Stepped(l) \in LearnerType
<1>1. <<hub.update, l.round>> \in Steps
  <2>1. hub.update \in 0 .. Updates - 1
    BY Constants DEF TypeOK, HubType
  <2>2. l.round \in 1 .. Rounds
    BY Constants DEF LearnerType
  <2> QED BY <2>1, <2>2 DEF Steps
<1>2. [l EXCEPT !.w = @ \cup {<<hub.update, l.round>>}] \in LearnerType
  BY <1>1 DEF LearnerType
<1> QED BY <1>2, PassedType DEF Stepped
LEMMA RepliesType ==
    ASSUME TypeOK, NEW m \in ReplyType PROVE Append(replies, m) \in Seq(ReplyType)
  BY AppendProperties DEF TypeOK

LEMMA HubFacts ==
    ASSUME TypeOK
    PROVE  /\ 1 \in Shards /\ NextActor \in Shards
           /\ \A who : NextIds(who) \in [Shards -> Nat \ {0}]
           /\ hub.lid + 1 \in Nat \ {0}
           /\ 0 \in 0 .. Rounds /\ 1 \in 0 .. Rounds
           /\ NoFlight \in NoFlight .. Updates - 1
           /\ hub.agenda # <<>> => Tail(hub.agenda) \in Seq(Items) /\ Head(hub.agenda) \in Items
<1>1. 1 \in Shards /\ NextActor \in Shards
  BY Constants DEF Shards, NextActor, LastActor, TypeOK, HubType
<1>2. ASSUME NEW who PROVE NextIds(who) \in [Shards -> Nat \ {0}]
  BY DEF NextIds, TypeOK, HubType
<1>3. hub.lid + 1 \in Nat \ {0}
  BY DEF TypeOK, HubType
<1>4. 0 \in 0 .. Rounds /\ 1 \in 0 .. Rounds /\ NoFlight \in NoFlight .. Updates - 1
  BY Constants DEF NoFlight
<1>5. hub.agenda \in Seq(Items)
  BY DEF TypeOK, HubType
<1> QED BY <1>1, <1>2, <1>3, <1>4, <1>5, HeadTailProperties
LEMMA HubFields ==
    ASSUME TypeOK
    PROVE  /\ hub.update \in 0 .. Updates /\ hub.round \in 0 .. Rounds /\ hub.at \in Shards
           /\ hub.agenda \in Seq(Items) /\ hub.lid \in Nat \ {0} /\ hub.stages \in 0 .. MaxStages
           /\ hub.flight \in NoFlight .. Updates - 1 /\ hub.pc \in HubPlaces
           /\ hub.heard \in SUBSET Shards /\ hub.next \in Rollouts /\ hub.pending \in Rollouts
           /\ hub.snaps \in [Shards -> SUBSET Steps] /\ hub.aid \in [Shards -> Nat \ {0}]
           /\ hub.err \in BOOLEAN /\ hub.spoilt \in BOOLEAN
  BY DEF TypeOK, HubType
LEMMA HubIsARecord ==
    ASSUME TypeOK
    PROVE  hub = [pc |-> hub.pc, update |-> hub.update, agenda |-> hub.agenda, round |-> hub.round,
                  at |-> hub.at, heard |-> hub.heard, spoilt |-> hub.spoilt, err |-> hub.err,
                  lid |-> hub.lid, aid |-> hub.aid, pending |-> hub.pending, next |-> hub.next,
                  snaps |-> hub.snaps, stages |-> hub.stages, flight |-> hub.flight]
  BY DEF TypeOK, HubType
LEMMA Suits ==
    /\ <<"endEval", "save", "save", "stop", "dismiss">> \in Seq(Items)
    /\ \A moves \in BOOLEAN : Agendas(moves) \subseteq Seq(Items)
<1>1. Stay \in Seq(Items) /\ Resize \in Seq(Items)
  <2>1. <<"eval">> \in Seq(Items) /\ <<"save", "save">> \in Seq(Items) /\ <<>> \in Seq(Items)
    BY DEF Items
  <2>2. Resize \in Seq(Items)
    BY DEF Resize, Items
  <2> DEFINE a == IF Due(EvalEvery) THEN <<"eval">> ELSE <<>>
             b == IF Due(CkptEvery) /\ hub.update > 0 THEN <<"save", "save">> ELSE <<>>
  <2>3. a \in Seq(Items) /\ b \in Seq(Items) /\ Stay = a \o b
    BY <2>1 DEF Stay
  <2> HIDE DEF a, b
  <2>4. Stay \in Seq(Items)
    BY <2>3, ConcatProperties
  <2> QED BY <2>2, <2>4
<1>2. /\ <<"stage", "save", "refresh">> \in Seq(Items) /\ <<"save">> \in Seq(Items)
      /\ <<"refresh">> \in Seq(Items)
      /\ <<"endEval", "save", "save", "stop", "dismiss">> \in Seq(Items)
  BY DEF Items
<1>3. ASSUME NEW moves \in BOOLEAN PROVE Agendas(moves) \subseteq Seq(Items)
  BY <1>1, <1>2, ConcatProperties DEF Agendas
<1> QED BY <1>2, <1>3
LEMMA ReplyFacts ==
    ASSUME TypeOK, replies # <<>>
    PROVE  Reply \in ReplyType /\ Reply.shard \in Shards /\ Tail(replies) \in Seq(ReplyType)
<1>1. replies \in Seq(ReplyType)
  BY DEF TypeOK
<1>2. Head(replies) \in ReplyType /\ Tail(replies) \in Seq(ReplyType)
  BY <1>1, HeadTailProperties
<1> QED BY <1>2 DEF Reply, ReplyType
LEMMA HubTypes ==
    ASSUME TypeOK, Agenda, HubStep \/ SaveFails
    PROVE  hub' \in HubType
<1>1. CASE Prime
  BY <1>1, HubFacts, Suits DEF Prime, TypeOK, HubType, HubPlaces, Failing
<1>2. CASE StartUpdate
  BY <1>2, HubFacts, Suits DEF StartUpdate, TypeOK, HubType, HubPlaces, Failing
<1>3. CASE CannotStart
  BY <1>3, HubFacts, Suits DEF CannotStart, Fail, TypeOK, HubType, HubPlaces, Failing
<1>4. CASE LeaveLoop
  BY <1>4, HubFacts, Suits DEF LeaveLoop, TypeOK, HubType, HubPlaces, Failing
<1>5. CASE Gather
  <2>1. Reply.shard \in Shards
    BY <1>5, ReplyFacts DEF Gather, Waits
  <2>2. CASE ~Everyone
    <3>1. PICK b \in BOOLEAN : hub' = [hub EXCEPT !.heard = @ \cup {Reply.shard}, !.spoilt = b]
      BY <1>5, <2>2 DEF Gather
    <3> QED BY <2>1, <3>1 DEF TypeOK, HubType
  <2>3. CASE Everyone
    <3>1. (IF hub.round < Rounds THEN hub.round + 1 ELSE hub.round) \in 0 .. Rounds
      BY Constants, HubFields
    <3>2. hub' = [hub EXCEPT !.heard = {}, !.spoilt = FALSE,
                          !.round = IF hub.round < Rounds THEN @ + 1 ELSE @,
                          !.pc = IF hub.round < Rounds THEN @ ELSE "trained"]
      BY <1>5, <2>3 DEF Gather
    <3> QED BY <3>1, <3>2 DEF TypeOK, HubType, HubPlaces
  <2> QED BY <2>2, <2>3
<1>6. CASE BadPacket
  BY <1>6, HubFacts, Suits DEF BadPacket, TrainingFailed, TypeOK, HubType, HubPlaces, Failing
<1>7. CASE Trained
  <2>1. Reply.shard \in Shards /\ Reply.w \in SUBSET Steps
    BY <1>7, ReplyFacts DEF Trained, Waits, ReplyType
  <2>2. [hub.snaps EXCEPT ![Reply.shard] = Reply.w] \in [Shards -> SUBSET Steps]
    BY <2>1, HubFields
  <2>3. (IF Everyone THEN "rollouts" ELSE hub.pc) \in HubPlaces
    BY HubFields DEF HubPlaces
  <2> QED BY <1>7, <2>1, <2>2, <2>3, HubFacts DEF Trained, TypeOK, HubType
<1>8. CASE BadResult
  BY <1>8, HubFacts, Suits DEF BadResult, TrainingFailed, TypeOK, HubType, HubPlaces, Failing
<1>9. CASE LearnerLost
  <2>1. CASE hub.pc = "acks"
    <3>1. hub' = [hub EXCEPT !.pc = "dropEval"]
      BY <1>9, <2>1 DEF LearnerLost, Fail
    <3> QED BY <3>1 DEF TypeOK, HubType, HubPlaces, Failing
  <2>2. CASE hub.pc # "acks"
    <3>1. TrainingFailed
      BY <1>9, <2>2 DEF LearnerLost
    <3> QED BY <3>1, HubFacts DEF TrainingFailed, TypeOK, HubType, HubPlaces
  <2> QED BY <2>1, <2>2
<1>10. CASE BadRollout
  BY <1>10, HubFacts, Suits DEF BadRollout, Fail, TypeOK, HubType, HubPlaces, Failing
<1>11. CASE NextUpdate
  <2>1. hub.update + 1 \in 0 .. Updates
    BY <1>11, Constants, HubFields DEF NextUpdate, Agenda, Ends, OnAgenda, Listed
  <2> QED BY <1>11, <2>1 DEF NextUpdate, TypeOK, HubType, HubPlaces, Failing
<1>12. CASE AskLearners
  BY <1>12, HubFacts, Suits DEF AskLearners, Doing, TypeOK, HubType, HubPlaces, Failing
<1>13. CASE HearAck
  <2>1. Reply.shard \in Shards /\ hub.agenda # <<>>
    BY <1>13, ReplyFacts DEF HearAck, Waits, Agenda
  <2> QED BY <1>13, <2>1, HubFacts DEF HearAck, TypeOK, HubType, HubPlaces, Failing
<1>14. CASE BadAck
  BY <1>14, HubFacts, Suits DEF BadAck, Fail, TypeOK, HubType, HubPlaces, Failing
<1>15. CASE SaveFails
  BY <1>15, HubFacts, Suits DEF SaveFails, Fail, TypeOK, HubType, HubPlaces, Failing
<1>16. CASE AskActor
  BY <1>16, HubFacts, Suits DEF AskActor, Doing, TypeOK, HubType, HubPlaces, Failing
<1>17. CASE HearActor
  <2>1. Tail(hub.agenda) \in Seq(Items)
    BY <1>17, HubFacts DEF HearActor, Agenda
  <2>2. (IF LastActor THEN Tail(hub.agenda) ELSE hub.agenda) \in Seq(Items)
    BY <2>1, HubFields
  <2> QED BY <1>17, <2>2, HubFacts DEF HearActor, TypeOK, HubType, HubPlaces, Failing
<1>18. CASE BadAnswer
  BY <1>18, HubFacts, Suits DEF BadAnswer, Fail, TypeOK, HubType, HubPlaces, Failing
<1>19. CASE Submit
  <2>1. hub.update \in NoFlight .. Updates - 1
    <3>1. hub.agenda # <<>> /\ hub.agenda[1] = "eval" /\ 1 \in 1 .. Len(hub.agenda)
      BY <1>19, HubFields DEF Submit, Doing
    <3>2. hub.update < Updates
      BY <1>19, <3>1 DEF Submit, Doing, Agenda, Orderly, Ends, OnAgenda
    <3> QED BY <3>2, Constants, HubFields DEF NoFlight
  <2>2. Tail(hub.agenda) \in Seq(Items)
    BY <1>19, HubFacts DEF Submit, Doing
  <2>3. (IF hub.flight = NoFlight THEN hub.update ELSE hub.flight) \in NoFlight .. Updates - 1
    BY <2>1, HubFields
  <2> QED BY <1>19, <2>2, <2>3 DEF Submit, TypeOK, HubType, HubPlaces, Failing
<1>20. CASE EndEval
  BY <1>20, HubFacts, Suits DEF EndEval, Doing, TypeOK, HubType, HubPlaces, Failing
<1>21. CASE EvalEnded
  <2>1. Tail(hub.agenda) \in Seq(Items)
    BY <1>21, HubFacts DEF EvalEnded, Agenda
  <2> QED BY <1>21, <2>1, HubFacts DEF EvalEnded, TypeOK, HubType, HubPlaces, Failing
<1>22. CASE EvalLost
  BY <1>22, HubFacts, Suits DEF EvalLost, Fail, TypeOK, HubType, HubPlaces, Failing
<1>23. CASE DropEval
  BY <1>23, HubFacts, Suits DEF DropEval, Goes, TypeOK, HubType, HubPlaces, Failing
<1>24. CASE JoinEval
  BY <1>24, HubFacts, Suits DEF JoinEval, Goes, TypeOK, HubType, HubPlaces, Failing
<1>25. CASE DropLearners
  BY <1>25, HubFacts, Suits DEF DropLearners, TypeOK, HubType, HubPlaces, Failing
<1>26. CASE JoinLearners
  BY <1>26, HubFacts, Suits DEF JoinLearners, TypeOK, HubType, HubPlaces, Failing
<1>27. CASE DropActor
  BY <1>27, HubFacts, Suits DEF DropActor, TypeOK, HubType, HubPlaces, Failing
<1>28. CASE JoinActor
  BY <1>28, HubFacts, Suits DEF JoinActor, TypeOK, HubType, HubPlaces, Failing
<1>29. CASE TakeRollout
  <2>1. actor[hub.at].out \in Seq(AnswerType) /\ hub.at \in Shards
    BY HubFields DEF TypeOK, ActorType
  <2>2. Answer \in AnswerType
    <3>1. actor[hub.at].out # <<>>
      BY <1>29 DEF TakeRollout, Answered
    <3> QED BY <2>1, <3>1, EmptySeq, ElementOfSeq DEF Answer
  <2>3. Taken \in Rollouts
    BY <2>1, <2>2, HubFields DEF Taken, Rollouts, AnswerType
  <2>4. CASE ~LastActor
    <3>1. hub' = [hub EXCEPT !.next = Taken, !.at = NextActor]
      BY <1>29, <2>4 DEF TakeRollout
    <3> QED BY <2>3, <3>1, HubFacts DEF TypeOK, HubType
  <2>5. CASE LastActor /\ hub.lid = 1
    <3>1. hub' = [hub EXCEPT !.next = Taken, !.at = NextActor, !.pc = "top", !.pending = Taken]
      BY <1>29, <2>5 DEF TakeRollout
    <3> QED BY <2>3, <3>1, HubFacts DEF TypeOK, HubType, HubPlaces
  <2>6. CASE LastActor /\ hub.lid # 1
    <3>0. PICK moves \in BOOLEAN : \E list \in Agendas(moves) :
              /\ moves => hub.stages < MaxStages
              /\ hub' = [[hub EXCEPT !.next = Taken, !.at = NextActor] EXCEPT !.pc = "agenda",
                            !.pending = Taken, !.agenda = list,
                            !.stages = IF moves THEN @ + 1 ELSE @]
      BY <1>29, <2>6 DEF TakeRollout
    <3>1. PICK list \in Agendas(moves) :
              /\ moves => hub.stages < MaxStages
              /\ hub' = [[hub EXCEPT !.next = Taken, !.at = NextActor] EXCEPT !.pc = "agenda",
                            !.pending = Taken, !.agenda = list,
                            !.stages = IF moves THEN @ + 1 ELSE @]
      BY <3>0
    <3>2. (IF moves THEN hub.stages + 1 ELSE hub.stages) \in 0 .. MaxStages
      BY <3>1, Constants, HubFields
    <3>3. list \in Seq(Items)
      BY Suits
    <3> QED BY <2>3, <3>1, <3>2, <3>3, HubFacts DEF TypeOK, HubType, HubPlaces
  <2> QED BY <2>4, <2>5, <2>6
<1> QED BY <1>1, <1>2, <1>3, <1>4, <1>5, <1>6, <1>7, <1>8, <1>9, <1>10, <1>11, <1>12, <1>13, <1>14, <1>15, <1>16, <1>17, <1>18, <1>19, <1>20, <1>21, <1>22, <1>23, <1>24, <1>25, <1>26, <1>27, <1>28, <1>29 DEF HubStep

\* Apart from itself, a step of the hub touches the threads by sending and hearing only.
HubSends ==
    /\ \/ learner' = learner
       \/ \E kind \in {"train", "save", "stop"} :
             /\ learner' = Told(kind)
             /\ kind = "train" => hub.pc = "top" /\ hub.update < Updates /\ hub'.update = hub.update
       \/ \E d \in DecisionType : learner' = Decided(learner, d)
       \/ learner' = Decided(Told("stop"), "abort")
    /\ replies' = replies \/ (replies # <<>> /\ Hear)
    /\ \/ actor' = actor
       \/ actor[hub.at].out # <<>> /\ Heard
       \/ \E who \in SUBSET Shards, kind \in {"collect", "refresh", "stage", "dismiss"} :
             /\ actor' = Asked(who, kind)
             /\ kind = "refresh" => /\ hub.update < Updates /\ hub.pc = "agenda"
                                    /\ hub'.pc = "answer" /\ hub'.update = hub.update
LEMMA WhatTheHubSends == ASSUME TypeOK, Agenda, HubStep \/ SaveFails PROVE HubSends
<1>1. CASE Prime
  BY <1>1 DEF Prime, HubSends
<1>2. CASE StartUpdate
  <2>1. hub.pc = "top" /\ hub.update < Updates /\ hub'.update = hub.update
    BY <1>2 DEF StartUpdate, TypeOK, HubType
  <2> QED BY <1>2, <2>1 DEF StartUpdate, HubSends
<1>3. CASE LeaveLoop \/ CannotStart \/ NextUpdate
  BY <1>3 DEF LeaveLoop, CannotStart, NextUpdate, HubSends
<1>4. CASE Gather
  <2>1. \A finite : Verdict(finite) \in DecisionType
    BY DEF Verdict, DecisionType
  <2>2. learner' = learner \/ \E d \in DecisionType : learner' = Decided(learner, d)
    BY <1>4, <2>1 DEF Gather
  <2> QED BY <1>4, <2>2 DEF Gather, HubSends, Waits
<1>5. CASE BadPacket \/ LearnerLost
  BY <1>5 DEF BadPacket, LearnerLost, HubSends, DecisionType, Waits
<1>6. CASE Trained \/ BadResult \/ HearAck \/ BadAck \/ SaveFails
  BY <1>6 DEF Trained, BadResult, HearAck, BadAck, SaveFails, HubSends, Waits
<1>7. CASE TakeRollout \/ HearActor
  BY <1>7 DEF TakeRollout, HearActor, Answered, HubSends
<1>8. CASE AskLearners
  <2>1. Head(hub.agenda) \in {"save", "stop"}
    BY <1>8 DEF AskLearners, Doing
  <2> QED BY <1>8, <2>1 DEF AskLearners, HubSends
<1>9. CASE AskActor
  <2>1. Head(hub.agenda) \in {"collect", "refresh", "stage", "dismiss"} /\ hub.agenda # <<>>
    BY <1>9 DEF AskActor, Doing
  <2>2. 1 \in 1 .. Len(hub.agenda) /\ hub.agenda[1] = Head(hub.agenda)
    BY <2>1, HubFields
  <2>3. Head(hub.agenda) = "refresh" => hub.update < Updates
    BY <2>2 DEF Agenda, OnAgenda, Listed
  <2>4. hub.pc = "agenda" /\ hub'.pc = "answer" /\ hub'.update = hub.update
    BY <1>9, HubIsARecord DEF AskActor, Doing
  <2> QED BY <1>9, <2>1, <2>3, <2>4, HubFields DEF AskActor, HubSends
<1>10. CASE BadRollout \/ BadAnswer \/ Submit \/ EndEval \/ EvalEnded \/ EvalLost
  BY <1>10 DEF BadRollout, BadAnswer, Submit, EndEval, EvalEnded, EvalLost, HubSends
<1>11. CASE DropEval \/ JoinEval \/ JoinLearners \/ JoinActor
  BY <1>11 DEF DropEval, JoinEval, JoinLearners, JoinActor, HubSends
<1>12. CASE DropLearners
  BY <1>12 DEF DropLearners, HubSends
<1>13. CASE DropActor
  BY <1>13, HubFields DEF DropActor, HubSends
<1> QED BY <1>1, <1>2, <1>3, <1>4, <1>5, <1>6, <1>7, <1>8, <1>9, <1>10, <1>11, <1>12, <1>13
        DEF HubStep

LEMMA HubEval ==
    ASSUME TypeOK, HubStep \/ SaveFails
    PROVE  /\ eval' \in EvalType /\ mode' = mode
           /\ faults' \in 0 .. MaxFaults /\ faults' >= faults
<1>0. faults \in 0 .. MaxFaults /\ eval \in EvalType /\ faults >= faults
  BY Constants DEF TypeOK
<1>1. CASE SaveFails
  BY <1>0, <1>1, Constants DEF SaveFails, Fault
<1>2. CASE StartUpdate \/ Submit \/ EndEval \/ EvalEnded \/ DropEval
  BY <1>0, <1>2 DEF StartUpdate, Submit, EndEval, EvalEnded, DropEval, StopEval, EvalType
<1>3. CASE UNCHANGED <<eval, mode, faults>>
  BY <1>0, <1>3
<1> QED BY <1>1, <1>2, <1>3 DEF HubStep, Prime, CannotStart, LeaveLoop, Gather, BadPacket,
      Trained, BadResult, LearnerLost, TakeRollout, BadRollout, NextUpdate, AskLearners, HearAck,
      BadAck, AskActor, HearActor, BadAnswer, EvalLost, JoinEval, DropLearners, JoinLearners,
      DropActor, JoinActor

LEMMA HubKeepsTypes ==
    ASSUME TypeOK, Agenda, HubStep \/ SaveFails PROVE TypeOK'
<1>1. HubSends
  BY WhatTheHubSends
<1>2. learner' \in [Shards -> LearnerType]
  <2>1. CASE \E kind \in {"train", "save", "stop"} : learner' = Told(kind)
    BY <2>1, ToldTypes
  <2>2. CASE \E d \in DecisionType : learner' = Decided(learner, d)
    BY <2>2, DecidedTypes DEF DecisionType, TypeOK
  <2>3. CASE learner' = Decided(Told("stop"), "abort")
    <3>1. Told("stop") \in [Shards -> LearnerType]
      BY ToldTypes
    <3> QED BY <2>3, <3>1, DecidedTypes
  <2> QED BY <1>1, <2>1, <2>2, <2>3 DEF HubSends, TypeOK
<1>3. replies' \in Seq(ReplyType)
  BY <1>1, ReplyFacts DEF HubSends, Hear, TypeOK
<1>4. actor' \in [Shards -> ActorType]
  <2>1. CASE actor[hub.at].out # <<>> /\ Heard
    <3>1. hub.at \in Shards /\ actor[hub.at] \in ActorType /\ actor[hub.at].out \in Seq(AnswerType)
      BY HubFields DEF TypeOK, ActorType
    <3>2. Tail(actor[hub.at].out) \in Seq(AnswerType)
      BY <2>1, <3>1, HeadTailProperties
    <3>3. [actor[hub.at] EXCEPT !.out = Tail(@)] \in ActorType
      BY <3>1, <3>2 DEF ActorType
    <3> QED BY <2>1, <3>1, <3>3 DEF Heard, TypeOK
  <2> QED BY <1>1, <2>1, AskedTypes DEF HubSends, TypeOK
<1> QED BY <1>2, <1>3, <1>4, HubTypes, HubEval DEF TypeOK

LearnerStep(s) == \/ LearnerAccepts(s) \/ Offers(s) \/ TakeDecision(s) \/ Reduced(s)
                  \/ TimesOut(s) \/ Reports(s) \/ LearnerErrs(s) \/ LearnerPanics(s)
\* What a step of a learner's thread is: it becomes another, and may say something.
Says1(s, m) == /\ m \in ReplyType /\ m.shard = s /\ replies' = Append(replies, m)
LearnerDoes(s) ==
    /\ \E l \in LearnerType : Becomes(s, l)
    /\ replies' = replies \/ \E m \in ReplyType : Says1(s, m)
    /\ UNCHANGED <<hub, actor, eval, mode>>
    /\ faults' \in 0 .. MaxFaults /\ faults' >= faults

LEMMA SaysOne ==
    ASSUME TypeOK, NEW s \in Shards, NEW kind \in {"gradient", "trained", "ack", "failed"},
           NEW l \in LearnerType, Says(s, kind, l)
    PROVE  \E m \in ReplyType : Says1(s, m) /\ m.kind = kind /\ m.id = l.next - 1
                                /\ (kind = "trained" => m.w = l.w)
<1> DEFINE m == [kind |-> kind, shard |-> s, id |-> l.next - 1,
        round |-> IF kind = "gradient" THEN l.round ELSE 0, finite |-> TRUE,
        w |-> IF kind = "trained" THEN l.w ELSE {}]
<1>1. m \in ReplyType
  BY Constants DEF ReplyType, LearnerType
<1> QED BY <1>1 DEF Says, Says1
LEMMA FailsType ==
    ASSUME TypeOK, NEW s \in Shards, NEW l \in LearnerType, Fails(s, l)
    PROVE  /\ \E k \in LearnerType : Becomes(s, k)
           /\ \E m \in ReplyType : Says1(s, m)
  BY SaysOne, EndedType DEF Fails
LEMMA Idleness == ASSUME TypeOK PROVE faults \in 0 .. MaxFaults /\ faults >= faults
  BY Constants DEF TypeOK

LEMMA WhatALearnerDoes ==
    ASSUME TypeOK, Versions, NEW s \in Shards, LearnerStep(s) PROVE LearnerDoes(s)
<1> DEFINE l == learner[s]
<1>0. l \in LearnerType /\ faults \in 0 .. MaxFaults /\ faults >= faults
  BY Idleness, LearnerTypes
<1>1. CASE LearnerAccepts(s)
  <2>1. Accepted(l) \in LearnerType
    BY <1>0, <1>1, AcceptedType DEF LearnerAccepts
  <2>2. Ended(Accepted(l)) \in LearnerType
    BY <2>1, EndedType
  <2>3. [Accepted(l) EXCEPT !.pc = "computing", !.round = 1, !.joined = 0] \in LearnerType
    BY <2>1, HubFacts DEF LearnerType
  <2>4. UNCHANGED <<hub, actor, eval, mode, faults>>
    BY <1>1 DEF LearnerAccepts
  <2>5. (\E k \in LearnerType : Becomes(s, k)) /\ (replies' = replies \/ \E m \in ReplyType : Says1(s, m))
    BY <1>1, <2>1, <2>2, <2>3, FailsType, SaysOne DEF LearnerAccepts
  <2> QED BY <1>0, <2>4, <2>5 DEF LearnerDoes
<1>2. CASE Offers(s)
  <2>1. [l EXCEPT !.pc = "waiting"] \in LearnerType
    BY <1>0 DEF LearnerType
  <2>2. PICK finite \in BOOLEAN : replies' = Append(replies,
                [kind |-> "gradient", shard |-> s, id |-> l.next - 1,
                 round |-> l.round, finite |-> finite, w |-> {}])
    BY <1>2 DEF Offers
  <2>3. [kind |-> "gradient", shard |-> s, id |-> l.next - 1,
                 round |-> l.round, finite |-> finite, w |-> {}] \in ReplyType
    BY <1>0 DEF LearnerType, ReplyType
  <2>4. \E m \in ReplyType : Says1(s, m)
    BY <2>2, <2>3 DEF Says1
  <2> QED BY <1>0, <1>2, <2>1, <2>4 DEF Offers, LearnerDoes
<1>3. CASE TakeDecision(s)
  <2> DEFINE k == [l EXCEPT !.dec = Tail(@)]
  <2>1. k \in LearnerType /\ k.round = l.round
    BY <1>0, <1>3, DecTakenType DEF TakeDecision, LearnerType
  <2>2. hub.update < Updates /\ l.round > 0
    BY <1>3 DEF TakeDecision, Versions, MayStep
  <2>3. /\ Stepped(k) \in LearnerType /\ Passed(k) \in LearnerType
        /\ [k EXCEPT !.pc = "reducing", !.joined = k.round] \in LearnerType
    <3>1. [k EXCEPT !.pc = "reducing", !.joined = k.round] \in LearnerType
      BY <2>1 DEF LearnerType
    <3> HIDE DEF k
    <3> QED BY <2>1, <2>2, <3>1, SteppedType, PassedType
  <2>4. UNCHANGED <<hub, actor, eval, mode, faults>>
    BY <1>3 DEF TakeDecision
  <2>5. (\E j \in LearnerType : Becomes(s, j)) /\ (replies' = replies \/ \E m \in ReplyType : Says1(s, m))
    BY <1>3, <2>1, <2>3, FailsType DEF TakeDecision
  <2> QED BY <1>0, <2>4, <2>5 DEF LearnerDoes
<1>4. CASE Reduced(s)
  <2>1. hub.update < Updates /\ l.round > 0
    BY <1>4 DEF Reduced, Versions, MayStep
  <2>2. Stepped(l) \in LearnerType
    BY <1>0, <2>1, SteppedType
  <2> QED BY <1>0, <1>4, <2>2 DEF Reduced, LearnerDoes
<1>5. CASE TimesOut(s)
  BY <1>0, <1>5, FailsType DEF TimesOut, LearnerDoes
<1>6. CASE Reports(s)
  <2>1. [l EXCEPT !.pc = "idle"] \in LearnerType
    BY <1>0 DEF LearnerType
  <2>2. \E m \in ReplyType : Says1(s, m)
    BY <1>0, <1>6, SaysOne DEF Reports
  <2> QED BY <1>0, <1>6, <2>1, <2>2 DEF Reports, LearnerDoes
<1>7. CASE LearnerErrs(s)
  <2>1. l.pc = "idle" => Accepted(l) \in LearnerType
    BY <1>0, <1>7, AcceptedType DEF LearnerErrs, Working
  <2>2. faults' \in 0 .. MaxFaults /\ faults' >= faults
    BY <1>0, <1>7, Constants DEF LearnerErrs, Fault
  <2>3. (\E j \in LearnerType : Becomes(s, j)) /\ \E m \in ReplyType : Says1(s, m)
    BY <1>0, <1>7, <2>1, FailsType DEF LearnerErrs
  <2> QED BY <1>7, <2>2, <2>3 DEF LearnerErrs, LearnerDoes
<1>8. CASE LearnerPanics(s)
  <2>1. faults' \in 0 .. MaxFaults /\ faults' >= faults
    BY <1>0, <1>8, Constants DEF LearnerPanics, Fault
  <2> QED BY <1>0, <1>8, <2>1, EndedType DEF LearnerPanics, LearnerDoes
<1> QED BY <1>1, <1>2, <1>3, <1>4, <1>5, <1>6, <1>7, <1>8 DEF LearnerStep

LEMMA LearnerKeepsTypes ==
    ASSUME TypeOK, NEW s \in Shards, LearnerDoes(s) PROVE TypeOK'
<1>1. learner' \in [Shards -> LearnerType]
  BY DEF LearnerDoes, Becomes, TypeOK
<1>2. replies' \in Seq(ReplyType)
  BY RepliesType DEF LearnerDoes, Says1, TypeOK
<1> QED BY <1>1, <1>2 DEF LearnerDoes, TypeOK

-----------------------------------------------------------------------------
(* The actors and the evaluation. *)

ActorStep(s) == \/ ActorAccepts(s) \/ Collects(s) \/ NoticesLoss(s) \/ ActorErrs(s)
                \/ ActorPanics(s) \/ \E e \in Envs : EnvSteps(s, e) \/ EnvPanics(s, e)
\* What a step of an actor or of its environments is.
ActorDoes(s) ==
    /\ \E a \in ActorType : Acts(s, a)
    /\ UNCHANGED <<hub, learner, replies, eval, mode>>
    /\ faults' \in 0 .. MaxFaults /\ faults' >= faults
EvalStep == EvalTakes \/ EvalReports \/ EvalErrs \/ EvalPanics
EvalDoes ==
    /\ eval' \in EvalType /\ UNCHANGED <<hub, learner, replies, actor, mode>>
    /\ faults' \in 0 .. MaxFaults /\ faults' >= faults

LEMMA NextIs ==
    ASSUME Next
    PROVE  \/ HubStep \/ SaveFails \/ EvalStep
           \/ \E s \in Shards : LearnerStep(s) \/ ActorStep(s)
  BY DEF Next, Progress, Breakdown, EvalStep, LearnerStep, ActorStep

LEMMA ActorTypes ==
    ASSUME TypeOK, NEW s \in Shards
    PROVE  /\ actor[s] \in ActorType
           /\ actor[s].cmd \in Seq(OrderType) /\ actor[s].out \in Seq(AnswerType)
           /\ actor[s].cmd # <<>> => Head(actor[s].cmd) \in OrderType
<1>1. /\ actor[s] \in ActorType
      /\ actor[s].cmd \in Seq(OrderType) /\ actor[s].out \in Seq(AnswerType)
  BY DEF TypeOK, ActorType
<1> QED BY <1>1, HeadTailProperties
LEMMA AnswersType ==
    ASSUME NEW a \in ActorType, NEW kind \in {"collected", "ack", "failed"}
    PROVE  Answers(a, kind) \in ActorType
<1> DEFINE m == [kind |-> kind, id |-> a.next - 1,
                 version |-> IF kind = "collected" THEN a.version ELSE 0,
                 w |-> IF kind = "collected" THEN a.w ELSE {}]
<1>1. m \in AnswerType /\ a.out \in Seq(AnswerType)
  BY Constants DEF AnswerType, ActorType
<1> HIDE DEF m
<1>2. Append(a.out, m) \in Seq(AnswerType)
  BY <1>1, AppendProperties
<1>3. Answers(a, kind) = [a EXCEPT !.out = Append(@, m)]
  BY DEF Answers, m
<1> QED BY <1>2, <1>3 DEF ActorType
LEMMA ClosedType == ASSUME NEW a \in ActorType PROVE Closed(a) \in ActorType
<1>1. <<>> \in Seq(OrderType) /\ [e \in Envs |-> 0] \in [Envs -> 0 .. RolloutLen]
  BY EmptySeq, Constants
<1> QED BY <1>1 DEF Closed, ActorType
LEMMA BegunType == ASSUME NEW a \in ActorType, a.cmd # <<>> PROVE Begun(a) \in ActorType
<1>1. Tail(a.cmd) \in Seq(OrderType)
  BY HeadTailProperties DEF ActorType
<1>2. a.next + 1 \in Nat \ {0}
  BY DEF ActorType
<1> QED BY <1>1, <1>2 DEF Begun, ActorType

LEMMA WhatAnActorDoes ==
    ASSUME TypeOK, NEW s \in Shards, ActorStep(s) PROVE ActorDoes(s)
<1> DEFINE a == actor[s]
<1>0. a \in ActorType /\ faults \in 0 .. MaxFaults /\ faults >= faults
  BY Idleness, ActorTypes
<1>f. Fault => faults' \in 0 .. MaxFaults /\ faults' >= faults
  BY <1>0, Constants DEF Fault
<1>1. CASE ActorAccepts(s)
  <2>1. Begun(a) \in ActorType /\ Head(a.cmd) \in OrderType
    BY <1>0, <1>1, BegunType, ActorTypes DEF ActorAccepts
  <2>2. [Begun(a) EXCEPT !.pc = "collecting", !.left = [e \in Envs |-> RolloutLen]] \in ActorType
    <3>1. [e \in Envs |-> RolloutLen] \in [Envs -> 0 .. RolloutLen]
      BY Constants
    <3> QED BY <2>1, <3>1 DEF ActorType
  <2>3. [Begun(a) EXCEPT !.version = Head(a.cmd).version, !.w = Head(a.cmd).w] \in ActorType
    BY <2>1 DEF ActorType, OrderType
  <2>4. \E b \in ActorType : Acts(s, b)
    BY <1>1, <2>1, <2>2, <2>3, AnswersType, ClosedType DEF ActorAccepts
  <2> QED BY <1>0, <1>1, <2>4 DEF ActorAccepts, ActorDoes
<1>2. CASE Collects(s)
  <2>1. [a EXCEPT !.pc = "idle"] \in ActorType
    BY <1>0 DEF ActorType
  <2> QED BY <1>0, <1>2, <2>1, AnswersType DEF Collects, ActorDoes
<1>3. CASE NoticesLoss(s)
  BY <1>0, <1>3, AnswersType, ClosedType DEF NoticesLoss, ActorDoes
<1>4. CASE ActorErrs(s)
  <2>1. Loading(s) => Begun(a) \in ActorType
    BY <1>0, BegunType DEF Loading
  <2> QED BY <1>0, <1>4, <1>f, <2>1, AnswersType, ClosedType DEF ActorErrs, ActorDoes
<1>5. CASE ActorPanics(s)
  BY <1>0, <1>5, <1>f, ClosedType DEF ActorPanics, ActorDoes
<1>6. ASSUME NEW e \in Envs, EnvSteps(s, e) PROVE ActorDoes(s)
  <2>1. a.left[e] - 1 \in 0 .. RolloutLen
    BY <1>0, <1>6, Constants DEF EnvSteps, Busy, ActorType
  <2>2. [a EXCEPT !.left[e] = @ - 1] \in ActorType
    BY <1>0, <2>1 DEF ActorType
  <2> QED BY <1>0, <1>6, <2>2 DEF EnvSteps, ActorDoes
<1>7. ASSUME NEW e \in Envs, EnvPanics(s, e) PROVE ActorDoes(s)
  <2>2. [a EXCEPT !.lost = @ \cup {e}] \in ActorType
    BY <1>0 DEF ActorType
  <2> QED BY <1>0, <1>7, <1>f, <2>2 DEF EnvPanics, ActorDoes
<1> QED BY <1>1, <1>2, <1>3, <1>4, <1>5, <1>6, <1>7 DEF ActorStep
LEMMA WhatTheEvalDoes == ASSUME TypeOK, EvalStep PROVE EvalDoes
<1>0. eval \in EvalType /\ faults \in 0 .. MaxFaults /\ faults >= faults
  BY Idleness DEF TypeOK
<1>1. CASE EvalTakes \/ EvalReports
  BY <1>0, <1>1 DEF EvalTakes, EvalReports, EvalType, EvalDoes
<1>2. CASE EvalErrs \/ EvalPanics
  <2>1. faults' \in 0 .. MaxFaults /\ faults' >= faults
    BY <1>0, <1>2, Constants DEF EvalErrs, EvalPanics, Fault
  <2>2. eval' \in EvalType
    BY <1>0, <1>2 DEF EvalErrs, EvalPanics, EvalType
  <2> QED BY <1>2, <2>1, <2>2 DEF EvalErrs, EvalPanics, EvalDoes
<1> QED BY <1>1, <1>2 DEF EvalStep

LEMMA TypesKept ==
    ASSUME TypeOK, Agenda, Versions, [Next]_vars PROVE TypeOK'
<1>1. CASE HubStep \/ SaveFails
  BY <1>1, HubKeepsTypes
<1>2. ASSUME NEW s \in Shards, LearnerStep(s) PROVE TypeOK'
  BY <1>2, WhatALearnerDoes, LearnerKeepsTypes
<1>3. ASSUME NEW s \in Shards, ActorStep(s) PROVE TypeOK'
  BY <1>3, WhatAnActorDoes DEF ActorDoes, Acts, TypeOK
<1>4. CASE EvalStep
  BY <1>4, WhatTheEvalDoes DEF EvalDoes, TypeOK
<1>5. CASE UNCHANGED vars
  BY <1>5 DEF vars, TypeOK
<1> QED BY <1>1, <1>2, <1>3, <1>4, <1>5, NextIs

-----------------------------------------------------------------------------
(* The agenda is kept. *)

LEMMA TailFacts ==
    ASSUME NEW S, NEW list \in Seq(S), list # <<>>
    PROVE  /\ Tail(list) \in Seq(S) /\ Len(list) \in Nat \ {0} /\ Len(Tail(list)) = Len(list) - 1
           /\ Head(list) = list[1]
           /\ \A i \in 1 .. Len(list) - 1 : i + 1 \in 1 .. Len(list) /\ Tail(list)[i] = list[i + 1]
           /\ \A i \in 1 .. Len(list) :
                 i = 1 \/ (i - 1 \in 1 .. Len(list) - 1 /\ Tail(list)[i - 1] = list[i])
<1>1. Tail(list) \in Seq(S) /\ Len(list) \in Nat \ {0} /\ Len(Tail(list)) = Len(list) - 1
  BY HeadTailProperties, EmptySeq
<1>2. \A i \in 1 .. Len(list) - 1 : i + 1 \in 1 .. Len(list) /\ Tail(list)[i] = list[i + 1]
  BY <1>1, HeadTailProperties
<1>3. ASSUME NEW i \in 1 .. Len(list), i # 1
      PROVE  i - 1 \in 1 .. Len(list) - 1 /\ Tail(list)[i - 1] = list[i]
  <2>1. i - 1 \in 1 .. Len(list) - 1 /\ i = (i - 1) + 1
    BY <1>1, <1>3
  <2>2. Tail(list)[i - 1] = list[(i - 1) + 1]
    BY <1>2, <2>1
  <2> QED BY <2>1, <2>2
<1>4. Head(list) = list[1]
  BY HeadTailProperties
<1> QED BY <1>1, <1>2, <1>3, <1>4
LEMMA TailListed ==
    ASSUME NEW list \in Seq(Items), list # <<>>, NEW x
    PROVE  /\ Listed(list, list[1])
           /\ Listed(Tail(list), x) => Listed(list, x)
           /\ Listed(list, x) => x = list[1] \/ Listed(Tail(list), x)
<1>1. 1 \in 1 .. Len(list)
  BY TailFacts
<1>2. ASSUME Listed(Tail(list), x) PROVE Listed(list, x)
  <2>1. PICK i \in 1 .. Len(Tail(list)) : Tail(list)[i] = x
    BY <1>2 DEF Listed
  <2>2. i + 1 \in 1 .. Len(list) /\ Tail(list)[i] = list[i + 1]
    BY <2>1, TailFacts
  <2> QED BY <2>1, <2>2 DEF Listed
<1>3. ASSUME Listed(list, x), x # list[1] PROVE Listed(Tail(list), x)
  <2>1. PICK i \in 1 .. Len(list) : list[i] = x
    BY <1>3 DEF Listed
  <2>2. i - 1 \in 1 .. Len(Tail(list)) /\ Tail(list)[i - 1] = list[i]
    BY <1>3, <2>1, TailFacts
  <2> QED BY <2>1, <2>2 DEF Listed
<1> QED BY <1>1, <1>2, <1>3 DEF Listed
LEMMA TailOrderly ==
    ASSUME NEW list \in Seq(Items), list # <<>>, Orderly(list)
    PROVE  /\ Orderly(Tail(list))
           /\ list[1] \in {"refresh", "endEval"} => ~Listed(Tail(list), list[1])
           /\ list[1] = "dismiss" => Tail(list) = <<>> /\ list = <<"dismiss">>
           /\ list[1] = "stop" => Tail(list) = <<"dismiss">>
<1> DEFINE t == Tail(list)
<1>0. /\ t \in Seq(Items) /\ Len(list) \in Nat \ {0} /\ Len(t) = Len(list) - 1
      /\ \A i \in 1 .. Len(t) : i + 1 \in 1 .. Len(list) /\ t[i] = list[i + 1]
  BY TailFacts
<1>1. \A x : Listed(t, x) => Listed(list, x)
  BY TailListed
<1>2. Listed(list, "dismiss") /\ list[1] # "dismiss" => Listed(t, "dismiss")
  BY TailListed
<1> HIDE DEF t
<1>3. ASSUME NEW i \in 1 .. Len(t)
      PROVE  /\ t[i] = "dismiss" => i = Len(t)
             /\ t[i] = "stop" => i + 1 = Len(t) /\ Listed(t, "dismiss")
             /\ t[i] = "eval" => ~Listed(t, "dismiss")
             /\ t[i] = "endEval" => Listed(t, "dismiss")
  <2>1. i + 1 \in 1 .. Len(list) /\ t[i] = list[i + 1] /\ i \in Nat
    BY <1>0
  <2>2. list[1] # "dismiss"
    BY <1>0, <2>1 DEF Orderly
  <2>3. t[i] = "dismiss" => i = Len(t)
    BY <1>0, <2>1 DEF Orderly
  <2>4. t[i] = "stop" => i + 1 = Len(t) /\ Listed(list, "dismiss")
    BY <1>0, <2>1 DEF Orderly
  <2>5. /\ t[i] = "eval" => ~Listed(list, "dismiss")
        /\ t[i] = "endEval" => Listed(list, "dismiss")
    BY <2>1 DEF Orderly
  <2> QED BY <1>1, <1>2, <2>2, <2>3, <2>4, <2>5
<1>4. ASSUME NEW i \in 1 .. Len(t), NEW j \in 1 .. Len(t), t[i] = t[j], t[i] \in {"refresh", "endEval"}
      PROVE  i = j
  BY <1>0, <1>4 DEF Orderly
<1>5. ASSUME list[1] \in {"refresh", "endEval"}, Listed(t, list[1]) PROVE FALSE
  <2>1. PICK i \in 1 .. Len(t) : t[i] = list[1]
    BY <1>5 DEF Listed
  <2>2. i + 1 = 1
    BY <1>0, <1>5, <2>1 DEF Orderly
  <2> QED BY <1>0, <2>1, <2>2
<1>6. ASSUME list[1] = "dismiss" PROVE t = <<>> /\ list = <<"dismiss">>
  <2>1. Len(list) = 1
    BY <1>0, <1>6 DEF Orderly
  <2>2. Len(t) = 0 /\ <<"dismiss">> \in Seq(Items)
    BY <1>0, <2>1 DEF Items
  <2> QED BY <1>0, <1>6, <2>1, <2>2, EmptySeq, SeqEqual
<1>7. ASSUME list[1] = "stop" PROVE t = <<"dismiss">>
  <2>1. Len(list) = 2 /\ Listed(list, "dismiss")
    BY <1>0, <1>7 DEF Orderly
  <2>2. Len(t) = 1 /\ Listed(t, "dismiss") /\ <<"dismiss">> \in Seq(Items)
    BY <1>0, <1>2, <1>7, <2>1 DEF Items
  <2>3. t[1] = "dismiss"
    BY <2>2 DEF Listed
  <2> QED BY <1>0, <2>2, <2>3, SeqEqual
<1> QED BY <1>3, <1>4, <1>5, <1>6, <1>7 DEF Orderly, t

LEMMA NewAgenda ==
    ASSUME NEW moves \in BOOLEAN, NEW list \in Agendas(moves)
    PROVE  Orderly(list) /\ (Listed(list, "refresh") \/ Listed(list, "dismiss"))
<1> DEFINE Start == {<<"stage", "save", "refresh">>, <<"save">>, <<"refresh">>}
           Rest == {<<>>, <<"eval">>, <<"save", "save">>, <<"eval", "save", "save">>, Resize}
<1>1. Stay \in Rest
  <2>1. <<"eval">> \o <<"save", "save">> = <<"eval", "save", "save">>
    <3> DEFINE a == <<"eval">>
               b == <<"save", "save">>
               c == <<"eval", "save", "save">>
    <3>1. a \in Seq(Items) /\ b \in Seq(Items) /\ c \in Seq(Items)
      BY DEF Items
    <3>2. Len(a) = 1 /\ Len(b) = 2 /\ Len(c) = 3 /\ a[1] = c[1] /\ b[1] = c[2] /\ b[2] = c[3]
      OBVIOUS
    <3> HIDE DEF a, b, c
    <3>3. /\ a \o b \in Seq(Items) /\ Len(a \o b) = Len(a) + Len(b)
          /\ \A i \in 1 .. Len(a) + Len(b) :
                (a \o b)[i] = IF i <= Len(a) THEN a[i] ELSE b[i - Len(a)]
      BY <3>1, ConcatProperties
    <3>4. Len(a \o b) = Len(c) /\ \A i \in 1 .. Len(c) : (a \o b)[i] = c[i]
      BY <3>2, <3>3
    <3>5. a \o b = c
      BY <3>1, <3>3, <3>4, SeqEqual
    <3> QED BY <3>5 DEF a, b, c
  <2>2. \A list1 \in Seq(Items) : list1 \o <<>> = list1 /\ <<>> \o list1 = list1
    BY ConcatEmptySeq
  <2>3. <<"eval">> \in Seq(Items) /\ <<"save", "save">> \in Seq(Items) /\ <<>> \in Seq(Items)
    BY DEF Items
  <2> QED BY <2>1, <2>2, <2>3 DEF Stay
<1>2. \E a \in Start, b \in Rest : list = a \o b /\ (a = <<"save">> => b = Resize)
  BY <1>1 DEF Agendas
<1>3. PICK a \in Start, b \in Rest : list = a \o b /\ (a = <<"save">> => b = Resize)
  BY <1>2
<1>4. a \in Seq(Items) /\ b \in Seq(Items) /\ Len(a) \in {1, 3} /\ Len(b) \in 0 .. 4
  <2>0. /\ <<"stage", "save", "refresh">> \in Seq(Items) /\ <<"save">> \in Seq(Items)
        /\ <<"refresh">> \in Seq(Items) /\ <<>> \in Seq(Items) /\ <<"eval">> \in Seq(Items)
        /\ <<"save", "save">> \in Seq(Items) /\ <<"eval", "save", "save">> \in Seq(Items)
    BY DEF Items
  <2>1. a \in Seq(Items) /\ Len(a) \in {1, 3}
    <3>1. CASE a = <<"stage", "save", "refresh">>
      BY <2>0, <3>1
    <3>2. CASE a = <<"save">>
      BY <2>0, <3>2
    <3>3. CASE a = <<"refresh">>
      BY <2>0, <3>3
    <3> QED BY <3>1, <3>2, <3>3
  <2>2. Resize \in Seq(Items) /\ Len(Resize) = 4
    BY DEF Items, Resize
  <2>3. b # Resize => b \in Seq(Items) /\ Len(b) \in 0 .. 4
    <3>1. CASE b = <<>>
      BY <2>0, <3>1
    <3>2. CASE b = <<"eval">>
      BY <2>0, <3>2
    <3>3. CASE b = <<"save", "save">>
      BY <2>0, <3>3
    <3>4. CASE b = <<"eval", "save", "save">>
      BY <2>0, <3>4
    <3> QED BY <3>1, <3>2, <3>3, <3>4
  <2> QED BY <2>1, <2>2, <2>3
<1>5. /\ \A i \in 1 .. Len(a) : a[i] \in {"stage", "save", "refresh"}
      /\ \A i, j \in 1 .. Len(a) : a[i] = "refresh" /\ a[j] = "refresh" => i = j
      /\ a # <<"save">> => Listed(a, "refresh")
  <2>1. CASE a = <<"stage", "save", "refresh">>
    <3>1. 3 \in 1 .. Len(a) /\ a[3] = "refresh"
      BY <2>1
    <3> QED BY <2>1, <3>1 DEF Listed
  <2>2. CASE a = <<"save">> \/ a = <<"refresh">>
    BY <2>2 DEF Listed
  <2> QED BY <2>1, <2>2
<1>6. \/ \A i \in 1 .. Len(b) : b[i] \in {"eval", "save"}
      \/ /\ Len(b) = 4 /\ b[1] = "endEval" /\ b[2] = "save" /\ b[3] = "stop" /\ b[4] = "dismiss"
  BY DEF Resize
<1> HIDE DEF Start, Rest
<1>7. /\ Len(list) = Len(a) + Len(b) /\ list \in Seq(Items)
      /\ \A i \in 1 .. Len(a) : list[i] = a[i]
      /\ \A i \in Len(a) + 1 .. Len(a) + Len(b) : i - Len(a) \in 1 .. Len(b) /\ list[i] = b[i - Len(a)]
  <2>1. /\ Len(list) = Len(a) + Len(b) /\ list \in Seq(Items)
        /\ \A i \in 1 .. Len(a) + Len(b) : list[i] = IF i <= Len(a) THEN a[i] ELSE b[i - Len(a)]
    BY <1>3, <1>4, ConcatProperties
  <2> QED BY <1>4, <2>1
<1>i. \A i \in 1 .. Len(list) : i \in 1 .. Len(a) \/ i \in Len(a) + 1 .. Len(a) + Len(b)
  BY <1>4, <1>7
<1>8. CASE \A i \in 1 .. Len(b) : b[i] \in {"eval", "save"}
  <2>1. \A i \in 1 .. Len(list) : list[i] \in {"stage", "save", "refresh", "eval"}
    BY <1>4, <1>5, <1>7, <1>8
  <2>2. \A i \in 1 .. Len(list) : list[i] = "refresh" => i \in 1 .. Len(a) /\ a[i] = "refresh"
    BY <1>i, <1>7, <1>8
  <2>3. Listed(list, "refresh")
    <3>1. a # <<"save">>
      BY <1>3, <1>8 DEF Resize
    <3>2. PICK i \in 1 .. Len(a) : a[i] = "refresh"
      BY <1>5, <3>1 DEF Listed
    <3>3. i \in 1 .. Len(list)
      BY <1>4, <1>7
    <3> QED BY <1>7, <3>2, <3>3 DEF Listed
  <2> QED BY <1>5, <2>1, <2>2, <2>3 DEF Orderly, Listed
<1>9. CASE /\ Len(b) = 4 /\ b[1] = "endEval" /\ b[2] = "save" /\ b[3] = "stop" /\ b[4] = "dismiss"
  <2> DEFINE n == Len(a)
  <2>0. n \in {1, 3}
    BY <1>4
  <2>1. /\ \A i \in 1 .. n : list[i] \in {"stage", "save", "refresh"} /\ list[i] = a[i]
        /\ list[n + 1] = "endEval" /\ list[n + 2] = "save"
        /\ list[n + 3] = "stop" /\ list[n + 4] = "dismiss" /\ Len(list) = n + 4
    <3>1. \A k \in 1 .. 4 : n + k \in n + 1 .. n + Len(b) /\ (n + k) - n = k
      BY <1>9, <2>0
    <3>2. \A k \in 1 .. 4 : list[n + k] = b[k]
      BY <1>7, <3>1
    <3>3. Len(list) = n + 4
      BY <1>7, <1>9
    <3> QED BY <1>5, <1>7, <1>9, <3>2, <3>3
  <2>2. Listed(list, "dismiss")
    <3>1. n + 4 \in 1 .. Len(list)
      BY <2>0, <2>1
    <3> QED BY <2>1, <3>1 DEF Listed
  <2> HIDE DEF n
  <2>3. \A i \in 1 .. Len(list) : i \in 1 .. n \/ i \in {n + 1, n + 2, n + 3, n + 4}
    BY <2>0, <2>1
  <2>4. \A i \in 1 .. Len(list) :
          /\ list[i] = "dismiss" => i = n + 4
          /\ list[i] = "stop" => i = n + 3
          /\ list[i] # "eval"
          /\ list[i] = "endEval" => i = n + 1
          /\ list[i] = "refresh" => i \in 1 .. n /\ a[i] = "refresh"
    BY <2>1, <2>3
  <2>5. \A i, j \in 1 .. Len(list) :
          list[i] = list[j] /\ list[i] \in {"refresh", "endEval"} => i = j
    BY <1>5, <2>4 DEF n
  <2>6. \A i \in 1 .. Len(list) :
          /\ list[i] = "dismiss" => i = Len(list)
          /\ list[i] = "stop" => i + 1 = Len(list)
    BY <2>0, <2>1, <2>4
  <2> QED BY <2>2, <2>4, <2>5, <2>6 DEF Orderly
<1> QED BY <1>6, <1>8, <1>9
-----------------------------------------------------------------------------
(* Where the hub goes. *)

HubGoes ==
    /\ hub'.update = hub.update \/ (hub.pc = "agenda" /\ hub'.update = hub.update + 1)
    /\ hub.pc \in Later => hub'.pc \in Later \/ hub'.update = hub.update + 1
    /\ hub'.err => hub.err \/ hub'.pc = "rollouts"
    /\ hub.err => hub'.err /\ hub'.pc \in {"rollouts"} \cup Failing
    /\ hub.pc \in Failing => hub'.pc \in Failing
    /\ hub'.pending = hub.pending \/ TakeRollout
    /\ hub'.next = hub.next \/ TakeRollout
LEMMA WhereTheHubGoes ==
    ASSUME TypeOK, Agenda, HubStep \/ SaveFails PROVE HubGoes
<1>e. ASSUME hub.pc # "rollouts" /\ hub.pc \notin Failing PROVE ~hub.err
  BY <1>e DEF Agenda
<1>1. CASE Prime \/ StartUpdate \/ LeaveLoop
  <2>1. hub.pc \notin Later
    BY <1>1 DEF Prime, StartUpdate, LeaveLoop, Later, Failing
  <2>2. /\ hub'.update = hub.update /\ hub'.err = hub.err
        /\ hub'.pending = hub.pending /\ hub'.next = hub.next
    BY <1>1, HubIsARecord DEF Prime, StartUpdate, LeaveLoop
  <2>3. ~hub.err
    BY <1>1, <1>e DEF Prime, StartUpdate, LeaveLoop, Failing
  <2> QED BY <2>1, <2>2, <2>3 DEF HubGoes, Later
<1>2. CASE hub' = [hub EXCEPT !.pc = "dropEval"]
  <2>1. /\ hub'.update = hub.update /\ hub'.err = hub.err /\ hub'.pc = "dropEval"
        /\ hub'.pending = hub.pending /\ hub'.next = hub.next
    BY <1>2, HubIsARecord
  <2> QED BY <2>1 DEF HubGoes, Later, Failing
<1>3. CASE Gather \/ Trained
  <2>1. hub.pc \in {"gather", "trained"}
    BY <1>3 DEF Gather, Trained, Waits
  <2>2. /\ hub'.update = hub.update /\ hub'.err = hub.err
        /\ hub'.pending = hub.pending /\ hub'.next = hub.next
    BY <1>3, HubIsARecord DEF Gather, Trained
  <2>3. ~hub.err
    BY <2>1, <1>e DEF Failing
  <2> QED BY <2>1, <2>2, <2>3 DEF HubGoes, Later, Failing
<1>4. CASE TrainingFailed /\ hub.pc \in {"gather", "trained"}
  <2>1. /\ hub'.update = hub.update /\ hub'.pc = "rollouts" /\ hub'.err
        /\ hub'.pending = hub.pending /\ hub'.next = hub.next
    BY <1>4, HubIsARecord DEF TrainingFailed
  <2> QED BY <1>4, <2>1 DEF HubGoes, Later, Failing
<1>5. CASE TakeRollout
  <2> DEFINE seen == [hub EXCEPT !.next = Taken, !.at = NextActor]
  <2>0. hub.pc = "rollouts"
    BY <1>5 DEF TakeRollout
  <2>1. CASE ~LastActor
    <3>1. hub' = seen
      BY <1>5, <2>1 DEF TakeRollout
    <3>2. hub'.update = hub.update /\ hub'.pc = hub.pc /\ hub'.err = hub.err
      BY <3>1, HubIsARecord
    <3> QED BY <1>5, <2>0, <3>2 DEF HubGoes, Later, Failing
  <2>2. CASE LastActor
    <3>1. ~hub.err
      BY <1>5, <2>2 DEF TakeRollout
    <3>2. CASE hub.lid = 1
      <4>1. hub' = [seen EXCEPT !.pc = "top", !.pending = Taken]
        BY <1>5, <2>2, <3>2 DEF TakeRollout
      <4>2. hub'.update = hub.update /\ hub'.err = hub.err
        BY <4>1, HubIsARecord
      <4> QED BY <1>5, <2>0, <3>1, <4>2 DEF HubGoes, Later, Failing
    <3>3. CASE hub.lid # 1
      <4>1. PICK moves \in BOOLEAN : \E list \in Agendas(moves) :
            hub' = [seen EXCEPT !.pc = "agenda", !.pending = Taken,
                            !.agenda = list, !.stages = IF moves THEN @ + 1 ELSE @]
        BY <1>5, <2>2, <3>3 DEF TakeRollout
      <4>2. hub'.update = hub.update /\ hub'.err = hub.err
        BY <4>1, HubIsARecord
      <4> QED BY <1>5, <2>0, <3>1, <4>2 DEF HubGoes, Later, Failing
    <3> QED BY <3>2, <3>3
  <2> QED BY <2>1, <2>2
<1>6. CASE NextUpdate
  <2>1. /\ hub'.update = hub.update + 1 /\ hub'.err = hub.err /\ hub.pc = "agenda"
        /\ hub'.pending = hub.pending /\ hub'.next = hub.next
    BY <1>6, HubIsARecord DEF NextUpdate
  <2>2. ~hub.err
    BY <2>1, <1>e DEF Failing
  <2> QED BY <2>1, <2>2 DEF HubGoes, Failing
<1>7. CASE AskLearners \/ HearAck \/ AskActor \/ HearActor \/ Submit \/ EndEval \/ EvalEnded
  <2>1. /\ hub'.update = hub.update /\ hub'.err = hub.err
        /\ hub'.pending = hub.pending /\ hub'.next = hub.next
    BY <1>7, HubIsARecord DEF AskLearners, HearAck, AskActor, HearActor, Submit, EndEval, EvalEnded
  <2>2. hub.pc \in {"agenda", "acks", "answer", "evalEnd"}
    BY <1>7 DEF AskLearners, HearAck, AskActor, HearActor, Submit, EndEval, EvalEnded, Doing, Waits
  <2>3. hub'.pc \in {"agenda", "acks", "answer", "evalEnd", "done"}
    BY <1>7, HubIsARecord, <2>2 DEF AskLearners, HearAck, AskActor, HearActor, Submit, EndEval, EvalEnded, Doing
  <2>4. ~hub.err
    BY <2>2, <1>e DEF Failing
  <2> QED BY <2>1, <2>2, <2>3, <2>4 DEF HubGoes, Later, Failing
<1>8. CASE DropEval \/ JoinEval \/ DropLearners \/ JoinLearners \/ DropActor \/ JoinActor
  <2>1. /\ hub'.update = hub.update /\ hub'.err = hub.err /\ hub'.pc \in Failing
        /\ hub'.pending = hub.pending /\ hub'.next = hub.next
    BY <1>8, HubIsARecord DEF DropEval, JoinEval, DropLearners, JoinLearners, DropActor, JoinActor,
       Goes, Failing
  <2> QED BY <2>1 DEF HubGoes, Later
<1>9. CASE CannotStart \/ BadRollout \/ BadAck \/ SaveFails \/ BadAnswer \/ EvalLost
  BY <1>2, <1>9 DEF CannotStart, BadRollout, BadAck, SaveFails, BadAnswer, EvalLost, Fail
<1>10. CASE BadPacket \/ BadResult \/ LearnerLost
  BY <1>2, <1>4, <1>10 DEF BadPacket, BadResult, LearnerLost, Waits, Fail
<1> QED BY <1>1, <1>2, <1>3, <1>5, <1>6, <1>7, <1>8, <1>9, <1>10 DEF HubStep
LEMMA HubAlone ==
    ASSUME (\E s \in Shards : LearnerStep(s) \/ ActorStep(s)) \/ EvalStep \/ UNCHANGED vars
    PROVE  hub' = hub
  BY DEF LearnerStep, LearnerAccepts, Offers, TakeDecision, Reduced, TimesOut, Reports, LearnerErrs,
     LearnerPanics, ActorStep, ActorAccepts, Collects, NoticesLoss, ActorErrs, ActorPanics,
     EnvSteps, EnvPanics, EvalStep, EvalTakes, EvalReports, EvalErrs, EvalPanics, vars
\* A step of the hub that keeps the agenda, or does its first item.
LEMMA AgendaStays ==
    ASSUME TypeOK, Agenda, HubGoes, hub'.agenda = hub.agenda, hub'.update = hub.update,
           \/ hub'.pc \in {"top", "done"} \cup Failing
           \/ hub.pc \in {"prime", "rollouts", "gather", "trained"} /\ hub'.pc \in {"rollouts", "gather", "trained"}
           \/ hub.update < Updates /\ hub'.pc \in {"gather", "rollouts"}
           \/ hub.pc \in {"agenda", "acks", "answer", "evalEnd"} /\ hub'.pc = "agenda"
           \/ /\ hub.pc \in {"agenda", "acks"} /\ hub'.pc = "acks" /\ hub.agenda # <<>>
              /\ hub.agenda[1] \in {"save", "stop"}
           \/ /\ hub.pc = "agenda" /\ hub'.pc = "answer" /\ hub.agenda # <<>>
              /\ hub.agenda[1] \in {"stage", "refresh", "dismiss"}
           \/ hub.pc = "agenda" /\ hub'.pc = "evalEnd" /\ hub.agenda # <<>> /\ hub.agenda[1] = "endEval"
    PROVE  Agenda'
  BY DEF Agenda, OnAgenda, Ends, Failing, HubGoes
LEMMA AgendaShrinks ==
    ASSUME TypeOK, Agenda, HubGoes, hub.agenda # <<>>, hub'.agenda = Tail(hub.agenda), hub'.update = hub.update,
           hub.pc \in {"agenda", "acks", "answer", "evalEnd"},
           hub'.pc = "agenda" \/ hub'.pc = "done", hub.agenda[1] = "dismiss" => hub'.pc = "done"
    PROVE  Agenda'
<1>1. Orderly(hub'.agenda)
  BY HubFields, TailOrderly DEF Agenda
<1>2. OnAgenda("refresh")' => hub'.update < Updates
  BY HubFields, TailListed DEF Agenda, OnAgenda
<1>3. hub'.pc = "agenda" => hub'.update < Updates \/ Ends'
  BY HubFields, TailListed DEF Agenda, OnAgenda, Ends
<1> QED BY <1>1, <1>2, <1>3 DEF Agenda, OnAgenda, HubGoes

LEMMA AgendaKept ==
    ASSUME TypeOK, Agenda, [Next]_vars PROVE Agenda'
<1>0. CASE hub' = hub
  BY <1>0 DEF Agenda, OnAgenda, Ends
<1>f. (\E s \in Shards : LearnerStep(s) \/ ActorStep(s)) \/ EvalStep \/ UNCHANGED vars => hub' = hub
  BY HubAlone
<1> SUFFICES ASSUME HubGoes, HubStep \/ SaveFails PROVE Agenda'
  BY <1>0, <1>f, NextIs, WhereTheHubGoes
<1>1. CASE Prime
  BY <1>1, HubIsARecord, AgendaStays DEF Prime
<1>2. CASE StartUpdate
  BY <1>2, HubIsARecord, AgendaStays DEF StartUpdate
<1>3. CASE CannotStart \/ BadRollout \/ BadAck \/ SaveFails \/ BadAnswer \/ EvalLost
  <2>1. hub' = [hub EXCEPT !.pc = "dropEval"]
    BY <1>3 DEF CannotStart, BadRollout, BadAck, SaveFails, BadAnswer, EvalLost, Fail
  <2> QED BY <2>1, HubIsARecord, AgendaStays DEF Failing
<1>4. CASE LeaveLoop
  <2>1. /\ hub'.pc = "agenda" /\ hub'.update = hub.update
        /\ hub'.agenda = <<"endEval", "save", "save", "stop", "dismiss">>
    BY <1>4, HubIsARecord DEF LeaveLoop
  <2> DEFINE list == <<"endEval", "save", "save", "stop", "dismiss">>
  <2>2. /\ Len(list) = 5 /\ list[1] = "endEval" /\ list[2] = "save" /\ list[3] = "save"
        /\ list[4] = "stop" /\ list[5] = "dismiss"
    OBVIOUS
  <2> HIDE DEF list
  <2>3. Listed(list, "dismiss") /\ ~Listed(list, "refresh") /\ Orderly(list)
    BY <2>2 DEF Listed, Orderly
  <2> QED BY <2>1, <2>3 DEF Agenda, OnAgenda, Ends, HubGoes, list
<1>5. CASE Gather
  <2>1. /\ hub'.agenda = hub.agenda /\ hub'.update = hub.update
        /\ hub.pc = "gather" /\ hub'.pc \in {"gather", "trained"}
    BY <1>5, HubIsARecord DEF Gather, Waits
  <2> QED BY <2>1, AgendaStays
<1>6. CASE BadPacket \/ BadResult
  <2>1. /\ hub' = [hub EXCEPT !.pc = "rollouts", !.at = 1, !.err = TRUE]
        /\ hub.pc \in {"gather", "trained"}
    BY <1>6 DEF BadPacket, BadResult, TrainingFailed, Waits
  <2> QED BY <2>1, HubIsARecord, AgendaStays
<1>7. CASE Trained
  <2>1. /\ hub'.agenda = hub.agenda /\ hub'.update = hub.update
        /\ hub.pc = "trained" /\ hub'.pc \in {"trained", "rollouts"}
    BY <1>7, HubIsARecord DEF Trained, Waits
  <2> QED BY <2>1, AgendaStays
<1>8. CASE LearnerLost
  <2>1. CASE hub.pc = "acks"
    <3>1. hub' = [hub EXCEPT !.pc = "dropEval"]
      BY <1>8, <2>1 DEF LearnerLost, Fail
    <3> QED BY <3>1, HubIsARecord, AgendaStays DEF Failing
  <2>2. CASE hub.pc # "acks"
    <3>1. /\ hub' = [hub EXCEPT !.pc = "rollouts", !.at = 1, !.err = TRUE]
          /\ hub.pc \in {"gather", "trained"}
      BY <1>8, <2>2 DEF LearnerLost, TrainingFailed
    <3> QED BY <3>1, HubIsARecord, AgendaStays
  <2> QED BY <2>1, <2>2
<1>9. CASE TakeRollout
  <2> DEFINE seen == [hub EXCEPT !.next = Taken, !.at = NextActor]
  <2>1. CASE ~LastActor
    <3>1. hub' = seen /\ hub.pc = "rollouts"
      BY <1>9, <2>1 DEF TakeRollout
    <3>2. hub'.agenda = hub.agenda /\ hub'.update = hub.update /\ hub'.pc = "rollouts"
      BY <3>1, HubIsARecord
    <3> QED BY <3>1, <3>2, AgendaStays
  <2>2. CASE LastActor /\ hub.lid = 1
    <3>1. hub' = [seen EXCEPT !.pc = "top", !.pending = Taken]
      BY <1>9, <2>2 DEF TakeRollout
    <3> QED BY <3>1, HubIsARecord, AgendaStays
  <2>3. CASE LastActor /\ hub.lid # 1
    <3>1. PICK moves \in BOOLEAN : \E list \in Agendas(moves) :
            hub' = [seen EXCEPT !.pc = "agenda", !.pending = Taken,
                            !.agenda = list, !.stages = IF moves THEN @ + 1 ELSE @]
      BY <1>9, <2>3 DEF TakeRollout
    <3>2. PICK list \in Agendas(moves) :
            hub' = [seen EXCEPT !.pc = "agenda", !.pending = Taken,
                            !.agenda = list, !.stages = IF moves THEN @ + 1 ELSE @]
      BY <3>1
    <3>3. hub'.agenda = list /\ hub'.update = hub.update /\ hub'.pc = "agenda"
      BY <3>2, HubIsARecord
    <3>4. Orderly(list) /\ hub.update < Updates
      BY <1>9, NewAgenda DEF TakeRollout, Agenda
    <3> QED BY <3>3, <3>4 DEF Agenda, OnAgenda, HubGoes
  <2> QED BY <2>1, <2>2, <2>3
<1>10. CASE NextUpdate
  <2>1. hub'.pc = "top" /\ hub'.agenda = <<>>
    BY <1>10, HubIsARecord DEF NextUpdate
  <2>2. Orderly(<<>>) /\ ~Listed(<<>>, "refresh")
    BY DEF Orderly, Listed
  <2> QED BY <2>1, <2>2 DEF Agenda, OnAgenda, HubGoes
<1>11. CASE AskLearners
  <2>1. /\ hub'.agenda = hub.agenda /\ hub'.update = hub.update /\ hub'.pc = "acks"
        /\ hub.pc = "agenda" /\ hub.agenda # <<>> /\ Head(hub.agenda) \in {"save", "stop"}
    BY <1>11, HubIsARecord DEF AskLearners, Doing
  <2> QED BY <2>1, HubFields, TailFacts, AgendaStays
<1>12. CASE HearAck
  <2>0. hub.pc = "acks" /\ hub.agenda # <<>> /\ hub.agenda[1] \in {"save", "stop"}
    BY <1>12 DEF HearAck, Waits, Agenda
  <2>1. CASE Everyone
    <3>1. hub'.agenda = Tail(hub.agenda) /\ hub'.update = hub.update /\ hub'.pc = "agenda"
      BY <1>12, <2>1, HubIsARecord DEF HearAck
    <3> QED BY <2>0, <3>1, AgendaShrinks
  <2>2. CASE ~Everyone
    <3>1. hub'.agenda = hub.agenda /\ hub'.update = hub.update /\ hub'.pc = "acks"
      BY <1>12, <2>0, <2>2, HubIsARecord DEF HearAck
    <3> QED BY <2>0, <3>1, AgendaStays
  <2> QED BY <2>1, <2>2
<1>13. CASE AskActor
  <2>1. /\ hub'.agenda = hub.agenda /\ hub'.update = hub.update /\ hub'.pc = "answer"
        /\ hub.pc = "agenda" /\ hub.agenda # <<>>
        /\ Head(hub.agenda) \in {"stage", "refresh", "dismiss"}
    BY <1>13, HubIsARecord DEF AskActor, Doing
  <2> QED BY <2>1, HubFields, TailFacts, AgendaStays
<1>14. CASE HearActor
  <2>0. /\ hub.pc = "answer" /\ hub.agenda # <<>>
        /\ hub.agenda[1] = "dismiss" => hub.agenda = <<"dismiss">>
    BY <1>14, HubFields, TailOrderly DEF HearActor, Agenda
  <2>1. CASE LastActor
    <3>1. /\ hub'.agenda = Tail(hub.agenda) /\ hub'.update = hub.update
          /\ hub'.pc = IF hub.agenda = <<"dismiss">> THEN "done" ELSE "agenda"
      BY <1>14, <2>1, HubIsARecord DEF HearActor
    <3> QED BY <2>0, <3>1, AgendaShrinks
  <2>2. CASE ~LastActor
    <3>1. hub'.agenda = hub.agenda /\ hub'.update = hub.update /\ hub'.pc = "agenda"
      BY <1>14, <2>2, HubIsARecord DEF HearActor
    <3> QED BY <2>0, <3>1, AgendaStays
  <2> QED BY <2>1, <2>2
<1>15. CASE Submit
  <2>1. /\ hub'.agenda = Tail(hub.agenda) /\ hub'.update = hub.update /\ hub'.pc = "agenda"
        /\ hub.pc = "agenda" /\ hub.agenda # <<>> /\ Head(hub.agenda) = "eval"
    BY <1>15, HubIsARecord DEF Submit, Doing
  <2>2. hub.agenda[1] = "eval"
    BY <2>1, HubFields, TailFacts
  <2> QED BY <2>1, <2>2, AgendaShrinks
<1>16. CASE EndEval
  <2>1. /\ hub'.agenda = hub.agenda /\ hub'.update = hub.update /\ hub'.pc = "evalEnd"
        /\ hub.pc = "agenda" /\ hub.agenda # <<>> /\ Head(hub.agenda) = "endEval"
    BY <1>16, HubIsARecord DEF EndEval, Doing
  <2> QED BY <2>1, HubFields, TailFacts, AgendaStays
<1>17. CASE EvalEnded
  <2>1. /\ hub'.agenda = Tail(hub.agenda) /\ hub'.update = hub.update /\ hub'.pc = "agenda"
        /\ hub.pc = "evalEnd" /\ hub.agenda # <<>> /\ hub.agenda[1] = "endEval"
    BY <1>17, HubIsARecord DEF EvalEnded, Agenda
  <2> QED BY <2>1, AgendaShrinks
<1>18. CASE DropEval \/ JoinEval \/ DropLearners \/ JoinLearners \/ DropActor \/ JoinActor
  <2>1. hub'.agenda = hub.agenda /\ hub'.update = hub.update /\ hub'.pc \in Failing
    BY <1>18, HubIsARecord DEF DropEval, JoinEval, DropLearners, JoinLearners, DropActor, JoinActor,
       Goes, Failing
  <2> QED BY <2>1, AgendaStays
<1> QED BY <1>1, <1>2, <1>3, <1>4, <1>5, <1>6, <1>7, <1>8, <1>9, <1>10, <1>11, <1>12, <1>13, <1>14, <1>15, <1>16, <1>17, <1>18 DEF HubStep

-----------------------------------------------------------------------------
(* What a step leaves of a learner. *)

LEMMA LearnerIsARecord ==
    ASSUME TypeOK, NEW s \in Shards
    PROVE  learner[s] = [pc |-> learner[s].pc, round |-> learner[s].round,
                         joined |-> learner[s].joined, next |-> learner[s].next,
                         w |-> learner[s].w, cmd |-> learner[s].cmd, dec |-> learner[s].dec]
  BY DEF TypeOK, LearnerType

\* A step of the hub gives a learner a command or decisions, and nothing else.
LEMMA HubLeaves ==
    ASSUME TypeOK, HubSends, NEW s \in Shards
    PROVE  /\ learner'[s].pc = learner[s].pc /\ learner'[s].round = learner[s].round
           /\ learner'[s].w = learner[s].w
           /\ MayStep(s)' => \/ MayStep(s)
                             \/ hub.pc = "top" /\ hub.update < Updates /\ hub'.update = hub.update
<1>0. ASSUME NEW kind \in {"train", "save", "stop"}
      PROVE  /\ Told(kind)[s].pc = learner[s].pc /\ Told(kind)[s].round = learner[s].round
             /\ Told(kind)[s].w = learner[s].w /\ Told(kind)[s].dec = learner[s].dec
             /\ \/ Told(kind)[s].cmd = learner[s].cmd
                \/ Told(kind)[s].cmd = Append(learner[s].cmd, [kind |-> kind, id |-> hub.lid])
  BY LearnerIsARecord DEF Told
<1>1. ASSUME NEW threads \in [Shards -> LearnerType], NEW d
      PROVE  /\ Decided(threads, d)[s].pc = threads[s].pc
             /\ Decided(threads, d)[s].round = threads[s].round
             /\ Decided(threads, d)[s].w = threads[s].w /\ Decided(threads, d)[s].cmd = threads[s].cmd
  BY DEF Decided, LearnerType
<1>2. ASSUME NEW kind \in {"train", "save", "stop"},
             learner'[s].pc = learner[s].pc, learner'[s].cmd = Told(kind)[s].cmd, MayStep(s)'
      PROVE  MayStep(s) \/ kind = "train"
  <2>1. CASE Told(kind)[s].cmd = learner[s].cmd
    BY <1>2, <2>1 DEF MayStep, Live
  <2>2. CASE Told(kind)[s].cmd = Append(learner[s].cmd, [kind |-> kind, id |-> hub.lid])
    <3> DEFINE c == [kind |-> kind, id |-> hub.lid]
               l == learner[s].cmd
    <3>1. c.kind = kind /\ c \in CommandType /\ l \in Seq(CommandType)
      BY HubFields, LearnerTypes DEF CommandType
    <3>2. learner'[s].cmd = Append(l, c)
      BY <1>2, <2>2
    <3> HIDE DEF c
    <3>3. ASSUME NEW i \in 1 .. Len(Append(l, c)), Append(l, c)[i].kind = "train", kind # "train"
          PROVE  i \in 1 .. Len(l) /\ l[i].kind = "train"
      BY <3>1, <3>3, AppendProperties
    <3> QED BY <1>2, <3>2, <3>3 DEF MayStep, Live
  <2> QED BY <1>0, <2>1, <2>2
<1>3. CASE \E kind \in {"train", "save", "stop"} :
             /\ learner' = Told(kind)
             /\ kind = "train" => hub.pc = "top" /\ hub.update < Updates /\ hub'.update = hub.update
  BY <1>0, <1>2, <1>3
<1>4. CASE \E d \in DecisionType : learner' = Decided(learner, d)
  <2>1. /\ learner'[s].pc = learner[s].pc /\ learner'[s].round = learner[s].round
        /\ learner'[s].w = learner[s].w /\ learner'[s].cmd = learner[s].cmd
    BY <1>1, <1>4 DEF TypeOK
  <2> QED BY <2>1 DEF MayStep, Live
<1>5. CASE learner' = Decided(Told("stop"), "abort")
  <2>1. Told("stop") \in [Shards -> LearnerType]
    BY ToldTypes
  <2>2. /\ learner'[s].pc = Told("stop")[s].pc /\ learner'[s].round = Told("stop")[s].round
        /\ learner'[s].w = Told("stop")[s].w /\ learner'[s].cmd = Told("stop")[s].cmd
    BY <1>1, <1>5, <2>1
  <2>3. MayStep(s)' => MayStep(s)
    BY <1>0, <1>2, <2>2
  <2> QED BY <1>0, <2>2, <2>3
<1>6. CASE learner' = learner
  BY <1>6 DEF MayStep, Live
<1> QED BY <1>3, <1>4, <1>5, <1>6 DEF HubSends

LEMMA TailMayStep ==
    ASSUME TypeOK, NEW s \in Shards, learner[s].cmd # <<>>, Live(learner[s]),
           NEW i \in 1 .. Len(Tail(learner[s].cmd)), Tail(learner[s].cmd)[i].kind = "train"
    PROVE  MayStep(s)
<1>1. i + 1 \in 1 .. Len(learner[s].cmd) /\ Tail(learner[s].cmd)[i] = learner[s].cmd[i + 1]
  BY LearnerTypes, TailFacts
<1> QED BY <1>1 DEF MayStep
\* A learner's own step: it adds at most the optimizer step it stands at.
LearnerGrows(s) ==
    /\ \A t \in Shards \ {s} : learner'[t] = learner[t]
    /\ \/ learner'[s].w = learner[s].w
       \/ /\ learner[s].pc \in {"waiting", "reducing"}
          /\ learner'[s].w = learner[s].w \cup {<<hub.update, learner[s].round>>}
    /\ MayStep(s)' => MayStep(s)
    /\ learner'[s].pc \in {"computing", "waiting", "reducing"} => learner'[s].round > 0
LEMMA HowALearnerGrows ==
    ASSUME TypeOK, Versions, NEW s \in Shards, LearnerStep(s) PROVE LearnerGrows(s)
<1> DEFINE l == learner[s]
<1>0. /\ l \in LearnerType
      /\ l.pc \in {"computing", "waiting", "reducing"} => l.round > 0 /\ MayStep(s)
  BY LearnerTypes DEF Versions, MayStep
<1>1. ASSUME NEW k, Becomes(s, k)
      PROVE  learner'[s] = k /\ \A t \in Shards \ {s} : learner'[t] = learner[t]
  BY <1>1 DEF Becomes, TypeOK
<1>2. ASSUME NEW k \in LearnerType, Becomes(s, Ended(k)), k.w = l.w PROVE LearnerGrows(s)
  <2>1. learner'[s] = Ended(k) /\ \A t \in Shards \ {s} : learner'[t] = learner[t]
    BY <1>1, <1>2
  <2>2. Ended(k).pc = "dead" /\ Ended(k).w = l.w
    BY <1>2 DEF Ended, LearnerType
  <2> QED BY <2>1, <2>2 DEF LearnerGrows, MayStep, Live
<1>3. CASE LearnerAccepts(s)
  <2> DEFINE a == Accepted(l)
  <2>1. l.pc = "idle" /\ l.cmd # <<>> /\ a \in LearnerType
    BY <1>0, <1>3, AcceptedType DEF LearnerAccepts
  <2>2. a.w = l.w /\ a.pc = "idle" /\ a.cmd = Tail(l.cmd)
    BY <2>1, LearnerIsARecord DEF Accepted
  <2> HIDE DEF a
  <2>3. CASE Becomes(s, Ended(a))
    BY <1>2, <2>1, <2>2, <2>3
  <2>4. CASE Becomes(s, a)
    BY <1>1, <2>1, <2>2, <2>4, TailMayStep DEF LearnerGrows, MayStep, Live
  <2>5. CASE /\ Becomes(s, [a EXCEPT !.pc = "computing", !.round = 1, !.joined = 0])
             /\ Head(l.cmd).kind = "train"
    <3>1. /\ learner'[s].pc = "computing" /\ learner'[s].round = 1 /\ learner'[s].w = l.w
          /\ \A t \in Shards \ {s} : learner'[t] = learner[t]
      <4>1. /\ learner'[s] = [a EXCEPT !.pc = "computing", !.round = 1, !.joined = 0]
            /\ \A t \in Shards \ {s} : learner'[t] = learner[t]
        BY <1>1, <2>5
      <4>2. learner'[s].pc = "computing" /\ learner'[s].round = 1 /\ learner'[s].w = a.w
        BY <2>1, <4>1 DEF LearnerType
      <4> QED BY <2>2, <4>1, <4>2
    <3>2. MayStep(s)
      BY <2>1, <2>5, LearnerTypes, TailFacts DEF MayStep, Live
    <3> QED BY <3>1, <3>2 DEF LearnerGrows
  <2> QED BY <1>3, <2>3, <2>4, <2>5 DEF LearnerAccepts, Fails, a
<1>4. CASE Offers(s)
  <2>1. l.pc = "computing" /\ learner'[s] = [l EXCEPT !.pc = "waiting"]
        /\ \A t \in Shards \ {s} : learner'[t] = learner[t]
    BY <1>1, <1>4 DEF Offers
  <2>2. learner'[s].w = l.w /\ learner'[s].round = l.round
    BY <2>1, LearnerIsARecord
  <2> QED BY <1>0, <2>1, <2>2 DEF LearnerGrows
<1>5. ASSUME NEW k \in LearnerType, k.w = l.w, k.round = l.round, l.round > 0, MayStep(s),
             Becomes(s, Passed(k))
      PROVE  LearnerGrows(s)
  <2>1. learner'[s] = Passed(k) /\ \A t \in Shards \ {s} : learner'[t] = learner[t]
    BY <1>1, <1>5
  <2>2. Passed(k).w = l.w /\ (Passed(k).pc = "finished" \/ Passed(k).round = l.round + 1)
    BY <1>5 DEF Passed, LearnerType
  <2>3. l.round + 1 > 0
    BY <1>5 DEF LearnerType
  <2> QED BY <1>5, <2>1, <2>2, <2>3 DEF LearnerGrows
<1>6. ASSUME NEW k \in LearnerType, k.w = l.w, k.round = l.round, l.round > 0, MayStep(s),
             l.pc \in {"waiting", "reducing"}, Becomes(s, Stepped(k))
      PROVE  LearnerGrows(s)
  <2>1. learner'[s] = Stepped(k) /\ \A t \in Shards \ {s} : learner'[t] = learner[t]
    BY <1>1, <1>6
  <2>2. /\ Stepped(k).w = l.w \cup {<<hub.update, l.round>>}
        /\ (Stepped(k).pc = "finished" \/ Stepped(k).round = l.round + 1)
    BY <1>6 DEF Stepped, Passed, LearnerType
  <2>3. l.round + 1 > 0
    BY <1>6 DEF LearnerType
  <2> QED BY <1>6, <2>1, <2>2, <2>3 DEF LearnerGrows
<1>7. CASE TakeDecision(s)
  <2> DEFINE k == [l EXCEPT !.dec = Tail(@)]
  <2>1. l.pc = "waiting" /\ k \in LearnerType /\ k.w = l.w /\ k.round = l.round
    BY <1>0, <1>7, DecTakenType DEF TakeDecision, LearnerType
  <2> HIDE DEF k
  <2>2. CASE Becomes(s, Stepped(k)) \/ Becomes(s, Passed(k)) \/ Becomes(s, Ended(k))
    BY <1>0, <1>2, <1>5, <1>6, <2>1, <2>2
  <2>3. CASE Becomes(s, [k EXCEPT !.pc = "reducing", !.joined = k.round])
    <3>1. learner'[s].w = l.w /\ learner'[s].round = l.round
          /\ \A t \in Shards \ {s} : learner'[t] = learner[t]
      <4>1. /\ learner'[s] = [k EXCEPT !.pc = "reducing", !.joined = k.round]
            /\ \A t \in Shards \ {s} : learner'[t] = learner[t]
        BY <1>1, <2>3
      <4>2. learner'[s].w = k.w /\ learner'[s].round = k.round
        BY <2>1, <4>1 DEF LearnerType
      <4> QED BY <2>1, <4>1, <4>2
    <3> QED BY <1>0, <2>1, <3>1 DEF LearnerGrows
  <2> QED BY <1>7, <2>2, <2>3 DEF TakeDecision, Fails, k
<1>8. CASE Reduced(s)
  BY <1>0, <1>6, <1>8 DEF Reduced
<1>9. CASE TimesOut(s)
  BY <1>0, <1>2, <1>9 DEF TimesOut, Fails
<1>10. CASE Reports(s)
  <2>1. l.pc = "finished" /\ learner'[s] = [l EXCEPT !.pc = "idle"]
        /\ \A t \in Shards \ {s} : learner'[t] = learner[t]
    BY <1>1, <1>10 DEF Reports
  <2>2. learner'[s].w = l.w /\ learner'[s].cmd = l.cmd /\ learner'[s].pc = "idle"
    BY <2>1, LearnerIsARecord
  <2> QED BY <2>1, <2>2 DEF LearnerGrows, MayStep, Live
<1>11. CASE LearnerErrs(s)
  <2>1. CASE l.pc = "idle"
    <3>1. Accepted(l) \in LearnerType
      BY <1>0, <1>11, <2>1, AcceptedType DEF LearnerErrs, Working
    <3>2. Accepted(l).w = l.w
      BY LearnerIsARecord DEF Accepted
    <3> QED BY <1>2, <1>11, <2>1, <3>1, <3>2 DEF LearnerErrs, Fails
  <2>2. CASE l.pc # "idle"
    BY <1>0, <1>2, <1>11, <2>2 DEF LearnerErrs, Fails
  <2> QED BY <2>1, <2>2
<1>12. CASE LearnerPanics(s)
  BY <1>0, <1>2, <1>12 DEF LearnerPanics
<1> QED BY <1>3, <1>4, <1>7, <1>8, <1>9, <1>10, <1>11, <1>12 DEF LearnerStep

-----------------------------------------------------------------------------
(* What a step leaves of an actor. *)

LEMMA ActorIsARecord ==
    ASSUME TypeOK, NEW s \in Shards
    PROVE  actor[s] = [pc |-> actor[s].pc, next |-> actor[s].next, version |-> actor[s].version,
                       w |-> actor[s].w, left |-> actor[s].left, lost |-> actor[s].lost,
                       cmd |-> actor[s].cmd, out |-> actor[s].out]
  BY DEF TypeOK, ActorType

\* The weights and the versions that an actor has, is sent and answers with.
ActorLearns(s) ==
    \/ actor'[s].version = actor[s].version /\ actor'[s].w = actor[s].w
    \/ \E i \in 1 .. Len(actor[s].cmd) : /\ actor[s].cmd[i].kind = "refresh"
                                         /\ actor'[s].version = actor[s].cmd[i].version
                                         /\ actor'[s].w = actor[s].cmd[i].w
ActorIsSent(s) ==
    \A i \in 1 .. Len(actor'[s].cmd) : actor'[s].cmd[i].kind = "refresh" =>
        \/ \E j \in 1 .. Len(actor[s].cmd) : actor'[s].cmd[i] = actor[s].cmd[j]
        \/ /\ hub.pc = "agenda" /\ hub'.pc = "answer" /\ hub'.update = hub.update
           /\ actor'[s].cmd[i].version = hub.update + 1 /\ actor'[s].cmd[i].w = hub.snaps[s]
ActorSends(s) ==
    \A i \in 1 .. Len(actor'[s].out) : actor'[s].out[i].kind = "collected" =>
        \/ \E j \in 1 .. Len(actor[s].out) : actor'[s].out[i] = actor[s].out[j]
        \/ actor'[s].out[i].version = actor[s].version /\ actor'[s].out[i].w = actor[s].w
LEMMA SameActor ==
    ASSUME NEW s \in Shards, actor'[s] = actor[s]
    PROVE  ActorLearns(s) /\ ActorIsSent(s) /\ ActorSends(s)
  BY DEF ActorLearns, ActorIsSent, ActorSends
LEMMA HubTellsActors ==
    ASSUME TypeOK, HubSends, NEW s \in Shards
    PROVE  ActorLearns(s) /\ ActorIsSent(s) /\ ActorSends(s)
<1>1. CASE actor[hub.at].out # <<>> /\ Heard
  <2>1. CASE s = hub.at
    <3>1. actor'[s] = [actor[s] EXCEPT !.out = Tail(@)]
      BY <1>1, <2>1, HubFields DEF Heard, TypeOK
    <3>2. /\ actor'[s].version = actor[s].version /\ actor'[s].w = actor[s].w
          /\ actor'[s].cmd = actor[s].cmd /\ actor'[s].out = Tail(actor[s].out)
      BY <3>1, ActorIsARecord
    <3>3. ActorSends(s)
      <4>1. /\ Len(Tail(actor[s].out)) = Len(actor[s].out) - 1
            /\ \A i \in 1 .. Len(actor[s].out) - 1 :
                  i + 1 \in 1 .. Len(actor[s].out) /\ Tail(actor[s].out)[i] = actor[s].out[i + 1]
        BY <1>1, <2>1, ActorTypes, TailFacts
      <4> QED BY <3>2, <4>1 DEF ActorSends
    <3> QED BY <3>2, <3>3 DEF ActorLearns, ActorIsSent
  <2>2. CASE s # hub.at
    BY <1>1, <2>2, SameActor, HubFields DEF Heard, TypeOK
  <2> QED BY <2>1, <2>2
<1>2. ASSUME NEW who \in SUBSET Shards, NEW kind \in {"collect", "refresh", "stage", "dismiss"},
             actor' = Asked(who, kind),
             kind = "refresh" => /\ hub.update < Updates /\ hub.pc = "agenda"
                                 /\ hub'.pc = "answer" /\ hub'.update = hub.update
      PROVE  ActorLearns(s) /\ ActorIsSent(s) /\ ActorSends(s)
  <2> DEFINE c == [kind |-> kind, id |-> hub.aid[s],
                   version |-> IF kind = "refresh" THEN hub.update + 1 ELSE 0,
                   w |-> IF kind = "refresh" THEN hub.snaps[s] ELSE {}]
             l == actor[s].cmd
  <2>1. actor'[s] = actor[s] \/ actor'[s] = [actor[s] EXCEPT !.cmd = Append(@, c)]
    BY <1>2 DEF Asked
  <2>2. ASSUME actor'[s] = [actor[s] EXCEPT !.cmd = Append(@, c)]
        PROVE  ActorLearns(s) /\ ActorIsSent(s) /\ ActorSends(s)
    <3>1. /\ c \in OrderType /\ c.kind = kind
          /\ kind = "refresh" => c.version = hub.update + 1 /\ c.w = hub.snaps[s]
      <4>1. hub.aid[s] \in Nat /\ hub.snaps[s] \in SUBSET Steps /\ 0 \in 0 .. Updates
        BY Constants, HubFields
      <4>2. kind = "refresh" => hub.update + 1 \in 0 .. Updates
        BY <1>2, Constants, HubFields
      <4> QED BY <4>1, <4>2 DEF OrderType
    <3> HIDE DEF c
    <3>2. /\ actor'[s].version = actor[s].version /\ actor'[s].w = actor[s].w
          /\ actor'[s].cmd = Append(l, c) /\ actor'[s].out = actor[s].out
      BY <2>2, ActorIsARecord
    <3>3. l \in Seq(OrderType)
      BY ActorTypes
    <3>4. /\ Len(Append(l, c)) = Len(l) + 1
          /\ \A i \in 1 .. Len(l) + 1 : \/ i \in 1 .. Len(l) /\ Append(l, c)[i] = l[i]
                                        \/ Append(l, c)[i] = c
      BY <3>1, <3>3, AppendProperties, LenProperties
    <3>5. ActorIsSent(s)
      BY <1>2, <3>1, <3>2, <3>4 DEF ActorIsSent
    <3> QED BY <3>2, <3>5 DEF ActorLearns, ActorSends
  <2> QED BY <2>1, <2>2, SameActor
<1> QED BY <1>1, <1>2, SameActor DEF HubSends

LEMMA HowAnActorAnswers ==
    ASSUME NEW a \in ActorType, NEW kind \in {"collected", "ack", "failed"}
    PROVE  /\ Answers(a, kind).version = a.version /\ Answers(a, kind).w = a.w
           /\ Answers(a, kind).cmd = a.cmd /\ Answers(a, kind).pc = a.pc
           /\ Answers(a, kind).next = a.next /\ Answers(a, kind).lost = a.lost
           /\ Len(Answers(a, kind).out) = Len(a.out) + 1
           /\ \A i \in 1 .. Len(a.out) + 1 :
                 \/ i \in 1 .. Len(a.out) /\ Answers(a, kind).out[i] = a.out[i]
                 \/ /\ i = Len(a.out) + 1 /\ Answers(a, kind).out[i].kind = kind
                    /\ Answers(a, kind).out[i].id = a.next - 1
                    /\ kind = "collected" => /\ Answers(a, kind).out[i].version = a.version
                                             /\ Answers(a, kind).out[i].w = a.w
<1> DEFINE m == [kind |-> kind, id |-> a.next - 1,
                 version |-> IF kind = "collected" THEN a.version ELSE 0,
                 w |-> IF kind = "collected" THEN a.w ELSE {}]
<1>1. /\ m \in AnswerType /\ a.out \in Seq(AnswerType) /\ m.kind = kind /\ m.id = a.next - 1
      /\ kind = "collected" => m.version = a.version /\ m.w = a.w
  BY Constants DEF AnswerType, ActorType
<1>2. Answers(a, kind) = [a EXCEPT !.out = Append(@, m)]
  BY DEF Answers
<1> HIDE DEF m
<1>3. /\ Answers(a, kind).version = a.version /\ Answers(a, kind).w = a.w
      /\ Answers(a, kind).cmd = a.cmd /\ Answers(a, kind).pc = a.pc
      /\ Answers(a, kind).next = a.next /\ Answers(a, kind).lost = a.lost
      /\ Answers(a, kind).out = Append(a.out, m)
  BY <1>2 DEF ActorType
<1>4. /\ Len(Append(a.out, m)) = Len(a.out) + 1
      /\ \A i \in 1 .. Len(a.out) + 1 : \/ i \in 1 .. Len(a.out) /\ Append(a.out, m)[i] = a.out[i]
                                        \/ i = Len(a.out) + 1 /\ Append(a.out, m)[i] = m
  BY <1>1, AppendProperties, LenProperties
<1> QED BY <1>1, <1>3, <1>4
LEMMA HowAnActorCloses ==
    ASSUME NEW a \in ActorType
    PROVE  /\ Closed(a).version = a.version /\ Closed(a).w = a.w /\ Closed(a).cmd = <<>>
           /\ Closed(a).pc = "dead" /\ Closed(a).out = a.out /\ Closed(a).next = a.next
           /\ Closed(a).lost = a.lost
  BY DEF Closed, ActorType
LEMMA HowAnActorBegins ==
    ASSUME NEW a \in ActorType
    PROVE  /\ Begun(a).version = a.version /\ Begun(a).w = a.w /\ Begun(a).cmd = Tail(a.cmd)
           /\ Begun(a).pc = a.pc /\ Begun(a).out = a.out /\ Begun(a).next = a.next + 1
           /\ Begun(a).lost = a.lost
  BY DEF Begun, ActorType

LEMMA ActorsLearn ==
    ASSUME TypeOK, NEW s \in Shards, ActorStep(s)
    PROVE  /\ \A t \in Shards \ {s} : actor'[t] = actor[t]
           /\ ActorLearns(s) /\ ActorIsSent(s) /\ ActorSends(s)
<1> DEFINE a == actor[s]
           b == actor'[s]
<1>0. a \in ActorType /\ a.cmd \in Seq(OrderType) /\ a.out \in Seq(AnswerType)
  BY ActorTypes
<1>1. ASSUME NEW k, Acts(s, k) PROVE b = k /\ \A t \in Shards \ {s} : actor'[t] = actor[t]
  BY <1>1 DEF Acts, TypeOK
\* Whatever it answers or closes, its commands are of those it had.
<1>2. ASSUME NEW k, Acts(s, k), k.version = a.version, k.w = a.w, k.out = a.out,
             k.cmd = a.cmd \/ k.cmd = <<>> \/ (a.cmd # <<>> /\ k.cmd = Tail(a.cmd))
      PROVE  /\ \A t \in Shards \ {s} : actor'[t] = actor[t]
             /\ ActorLearns(s) /\ ActorIsSent(s) /\ ActorSends(s)
  <2>1. b = k /\ \A t \in Shards \ {s} : actor'[t] = actor[t]
    BY <1>1, <1>2
  <2>2. ActorIsSent(s)
    <3>1. a.cmd # <<>> => /\ Len(Tail(a.cmd)) = Len(a.cmd) - 1
                          /\ \A i \in 1 .. Len(a.cmd) - 1 :
                                i + 1 \in 1 .. Len(a.cmd) /\ Tail(a.cmd)[i] = a.cmd[i + 1]
      BY <1>0, TailFacts
    <3>2. \A i \in 1 .. Len(b.cmd) : \E j \in 1 .. Len(a.cmd) : b.cmd[i] = a.cmd[j]
      <4>1. CASE b.cmd = a.cmd
        BY <4>1
      <4>2. CASE b.cmd = <<>>
        BY <4>2
      <4>3. CASE a.cmd # <<>> /\ b.cmd = Tail(a.cmd)
        BY <3>1, <4>3
      <4> QED BY <1>2, <2>1, <4>1, <4>2, <4>3
    <3> QED BY <3>2 DEF ActorIsSent
  <2> QED BY <1>2, <2>1, <2>2 DEF ActorLearns, ActorSends
<1>3. ASSUME NEW k \in ActorType, NEW kind \in {"collected", "ack", "failed"}, NEW end \in BOOLEAN,
             Acts(s, IF end THEN Closed(Answers(k, kind)) ELSE Answers(k, kind)),
             k.out = a.out, k.cmd = a.cmd \/ (a.cmd # <<>> /\ k.cmd = Tail(a.cmd)),
             \/ k.version = a.version /\ k.w = a.w
             \/ /\ a.cmd # <<>> /\ Head(a.cmd).kind = "refresh" /\ kind = "ack"
                /\ k.version = Head(a.cmd).version /\ k.w = Head(a.cmd).w
      PROVE  /\ \A t \in Shards \ {s} : actor'[t] = actor[t]
             /\ ActorLearns(s) /\ ActorIsSent(s) /\ ActorSends(s)
  <2>1. /\ b = IF end THEN Closed(Answers(k, kind)) ELSE Answers(k, kind)
        /\ \A t \in Shards \ {s} : actor'[t] = actor[t]
    BY <1>1, <1>3
  <2>2. Answers(k, kind) \in ActorType
    BY AnswersType
  <2>3. /\ b.version = k.version /\ b.w = k.w /\ b.cmd \in {k.cmd, <<>>}
        /\ b.out = Answers(k, kind).out
    BY <2>1, <2>2, HowAnActorCloses, HowAnActorAnswers
  <2>4. ActorIsSent(s)
    <3>1. a.cmd # <<>> => /\ Len(Tail(a.cmd)) = Len(a.cmd) - 1
                          /\ \A i \in 1 .. Len(a.cmd) - 1 :
                                i + 1 \in 1 .. Len(a.cmd) /\ Tail(a.cmd)[i] = a.cmd[i + 1]
      BY <1>0, TailFacts
    <3>2. \A i \in 1 .. Len(b.cmd) : \E j \in 1 .. Len(a.cmd) : b.cmd[i] = a.cmd[j]
      <4>1. CASE b.cmd = a.cmd
        BY <4>1
      <4>2. CASE b.cmd = <<>>
        BY <4>2
      <4>3. CASE a.cmd # <<>> /\ b.cmd = Tail(a.cmd)
        BY <3>1, <4>3
      <4> QED BY <1>3, <2>3, <4>1, <4>2, <4>3
    <3> QED BY <3>2 DEF ActorIsSent
  <2>5. ActorLearns(s)
    <3>1. a.cmd # <<>> => 1 \in 1 .. Len(a.cmd) /\ Head(a.cmd) = a.cmd[1]
      BY <1>0, TailFacts
    <3> QED BY <1>3, <2>3, <3>1 DEF ActorLearns
  <2>6. ActorSends(s)
    BY <1>3, <2>3, HowAnActorAnswers DEF ActorSends
  <2> QED BY <2>1, <2>4, <2>5, <2>6
<1>4. CASE ActorAccepts(s)
  <2> DEFINE g == Begun(a)
  <2>1. g \in ActorType /\ a.cmd # <<>>
    BY <1>0, <1>4, BegunType DEF ActorAccepts
  <2>2. g.version = a.version /\ g.w = a.w /\ g.cmd = Tail(a.cmd) /\ g.out = a.out
    BY <1>0, HowAnActorBegins
  <2>3. Head(a.cmd) \in OrderType
    BY <2>1, ActorTypes
  <2> HIDE DEF g
  <2>4. CASE Acts(s, Closed(Answers(g, "failed"))) \/ Acts(s, Closed(Answers(g, "ack")))
    BY <1>3, <2>1, <2>2, <2>4
  <2>5. CASE Acts(s, Answers(g, "ack"))
    BY <1>3, <2>1, <2>2, <2>5
  <2>6. CASE Acts(s, [g EXCEPT !.pc = "collecting", !.left = [e \in Envs |-> RolloutLen]])
    <3> DEFINE k == [g EXCEPT !.pc = "collecting", !.left = [e \in Envs |-> RolloutLen]]
    <3>1. k.version = g.version /\ k.w = g.w /\ k.out = g.out /\ k.cmd = g.cmd
      BY <2>1 DEF ActorType
    <3> HIDE DEF k
    <3>2. Acts(s, k)
      BY <2>6 DEF k
    <3> QED BY <1>2, <2>1, <2>2, <3>1, <3>2
  <2>7. CASE /\ Head(a.cmd).kind = "refresh"
             /\ Acts(s, Answers([g EXCEPT !.version = Head(a.cmd).version, !.w = Head(a.cmd).w], "ack"))
    <3> DEFINE k == [g EXCEPT !.version = Head(a.cmd).version, !.w = Head(a.cmd).w]
    <3>1. /\ k.version = Head(a.cmd).version /\ k.w = Head(a.cmd).w
          /\ k.out = g.out /\ k.cmd = g.cmd /\ k \in ActorType
      BY <2>1, <2>3 DEF ActorType, OrderType
    <3> HIDE DEF k
    <3>2. Acts(s, Answers(k, "ack"))
      BY <2>7 DEF k
    <3> QED BY <1>3, <2>1, <2>2, <2>7, <3>1, <3>2
  <2> QED BY <1>4, <2>4, <2>5, <2>6, <2>7 DEF ActorAccepts, g
<1>5. CASE Collects(s)
  <2> DEFINE k == [a EXCEPT !.pc = "idle"]
  <2>1. k \in ActorType /\ k.version = a.version /\ k.w = a.w /\ k.out = a.out /\ k.cmd = a.cmd
    BY <1>0 DEF ActorType
  <2>2. Acts(s, Answers(k, "collected"))
    BY <1>5 DEF Collects
  <2> HIDE DEF k
  <2> QED BY <1>3, <2>1, <2>2
<1>6. CASE NoticesLoss(s)
  BY <1>0, <1>3, <1>6 DEF NoticesLoss
<1>7. CASE ActorErrs(s)
  <2>1. CASE Loading(s)
    <3>1. Begun(a) \in ActorType /\ a.cmd # <<>>
      BY <1>0, <2>1, BegunType DEF Loading
    <3>2. Acts(s, Closed(Answers(Begun(a), "failed")))
      BY <1>7, <2>1 DEF ActorErrs
    <3> QED BY <1>0, <1>3, <3>1, <3>2, HowAnActorBegins
  <2>2. CASE ~Loading(s)
    BY <1>0, <1>3, <1>7, <2>2 DEF ActorErrs
  <2> QED BY <2>1, <2>2
<1>8. CASE ActorPanics(s)
  BY <1>0, <1>2, <1>8, HowAnActorCloses DEF ActorPanics
<1>9. ASSUME NEW e \in Envs, EnvSteps(s, e) \/ EnvPanics(s, e)
      PROVE  /\ \A t \in Shards \ {s} : actor'[t] = actor[t]
             /\ ActorLearns(s) /\ ActorIsSent(s) /\ ActorSends(s)
  <2>1. PICK k : /\ Acts(s, k) /\ k.version = a.version /\ k.w = a.w /\ k.out = a.out
                 /\ k.cmd = a.cmd
    <3>1. PICK k : /\ Acts(s, k)
                   /\ k = [a EXCEPT !.left[e] = @ - 1] \/ k = [a EXCEPT !.lost = @ \cup {e}]
      BY <1>9 DEF EnvSteps, EnvPanics
    <3>2. k.version = a.version /\ k.w = a.w /\ k.out = a.out /\ k.cmd = a.cmd
      BY <1>0, <3>1 DEF ActorType
    <3> QED BY <3>1, <3>2
  <2> QED BY <1>2, <2>1
<1> QED BY <1>4, <1>5, <1>6, <1>7, <1>8, <1>9 DEF ActorStep

-----------------------------------------------------------------------------
(* A version goes on naming the weights it names. *)

LEMMA Growth ==
    ASSUME TypeOK, Agenda, Versions, [Next]_vars, NEW s \in Shards
    PROVE  /\ \/ learner'[s].w = learner[s].w
              \/ /\ MayStep(s) /\ hub' = hub
                 /\ learner'[s].w = learner[s].w \cup {<<hub.update, learner[s].round>>}
           /\ MayStep(s)' => \/ MayStep(s)
                             \/ hub.pc = "top" /\ hub.update < Updates /\ hub'.update = hub.update
           /\ learner'[s].pc \in {"computing", "waiting", "reducing"} => learner'[s].round > 0
<1>1. CASE HubStep \/ SaveFails
  <2>1. HubSends
    BY <1>1, WhatTheHubSends
  <2> QED BY <2>1, HubLeaves DEF Versions
<1>2. ASSUME NEW t \in Shards, LearnerStep(t)
      PROVE  /\ \/ learner'[s].w = learner[s].w
                \/ /\ MayStep(s) /\ hub' = hub
                   /\ learner'[s].w = learner[s].w \cup {<<hub.update, learner[s].round>>}
             /\ MayStep(s)' => MayStep(s)
             /\ learner'[s].pc \in {"computing", "waiting", "reducing"} => learner'[s].round > 0
  <2>1. LearnerGrows(t) /\ hub' = hub
    BY <1>2, HowALearnerGrows, HubAlone
  <2>2. CASE t = s
    <3>1. learner[s].pc \in {"waiting", "reducing"} => MayStep(s)
      BY DEF MayStep
    <3> QED BY <2>1, <2>2, <3>1 DEF LearnerGrows
  <2>3. CASE t # s
    <3>1. learner'[s] = learner[s]
      BY <2>1, <2>3 DEF LearnerGrows
    <3> QED BY <3>1 DEF MayStep, Live, Versions
  <2> QED BY <2>2, <2>3
<1>3. CASE learner' = learner
  BY <1>3 DEF MayStep, Live, Versions
<1>4. (\E t \in Shards : ActorStep(t)) \/ EvalStep \/ UNCHANGED vars => learner' = learner
  BY WhatAnActorDoes, WhatTheEvalDoes DEF ActorDoes, EvalDoes, vars
<1> QED BY <1>1, <1>2, <1>3, <1>4, NextIs

LEMMA HubGoesOn ==
    ASSUME TypeOK, Agenda, [Next]_vars
    PROVE  hub' = hub \/ HubGoes
  BY NextIs, HubAlone, WhereTheHubGoes
LEMMA NamesKept ==
    ASSUME TypeOK, Agenda, Versions, [Next]_vars, NEW s \in Shards, NEW v \in Nat, NEW w, Names(s, v, w)
    PROVE  Names(s, v, w)'
<1>0. hub.update \in Nat /\ (hub.pc = "top" => hub.pc \notin Later)
  BY HubFields DEF Later, Failing
<1>1. (v <= hub.update \/ (v = hub.update + 1 /\ hub.pc \in Later /\ ~MayStep(s)))'
  <2>1. CASE hub' = hub
    BY <1>0, <2>1, Growth DEF Names
  <2>2. CASE HubGoes
    BY <1>0, <2>2, Growth DEF Names, HubGoes
  <2> QED BY <2>1, <2>2, HubGoesOn
<1>2. Before(s, v)' = Before(s, v)
  <2>1. CASE learner'[s].w = learner[s].w
    BY <2>1 DEF Before
  <2>2. CASE /\ MayStep(s)
             /\ learner'[s].w = learner[s].w \cup {<<hub.update, learner[s].round>>}
    <3>1. ~(hub.update < v) /\ <<hub.update, learner[s].round>>[1] = hub.update
      BY <1>0, <2>2 DEF Names
    <3> QED BY <2>2, <3>1 DEF Before
  <2> QED BY <2>1, <2>2, Growth
<1> QED BY <1>1, <1>2 DEF Names

LEMMA ActorChanges ==
    ASSUME TypeOK, Agenda, Versions, [Next]_vars, NEW s \in Shards
    PROVE  ActorLearns(s) /\ ActorIsSent(s) /\ ActorSends(s)
<1>1. CASE HubStep \/ SaveFails
  BY <1>1, WhatTheHubSends, HubTellsActors
<1>2. ASSUME NEW t \in Shards, ActorStep(t)
      PROVE  ActorLearns(s) /\ ActorIsSent(s) /\ ActorSends(s)
  <2>1. CASE t = s
    BY <1>2, <2>1, ActorsLearn
  <2>2. CASE t # s
    <3>1. actor'[s] = actor[s]
      BY <1>2, <2>2, ActorsLearn
    <3> QED BY <3>1, SameActor
  <2> QED BY <2>1, <2>2
<1>3. (\E t \in Shards : LearnerStep(t)) \/ EvalStep \/ UNCHANGED vars => actor' = actor
  BY WhatALearnerDoes, WhatTheEvalDoes DEF LearnerDoes, EvalDoes, vars
<1> QED BY <1>1, <1>2, <1>3, SameActor, NextIs

\* What the hub sends with a refresh.
LEMMA FreshWeights ==
    ASSUME TypeOK, Agenda, Protocol, Harmony, NEW s \in Shards, hub.pc = "agenda"
    PROVE  ~MayStep(s) /\ hub.snaps[s] = Before(s, hub.update + 1)
<1>1. ~Trouble /\ ~Learning
  BY DEF Trouble, Agenda, Failing, Learning
<1>2. ~MayStep(s)
  <2>1. ~Live(learner[s]) \/ Settled(s)
    BY <1>1 DEF Protocol, InTime
  <2> QED BY <2>1 DEF MayStep, Settled, Live
<1>3. hub.snaps[s] = learner[s].w /\ \A x \in learner[s].w : x[1] <= hub.update
  BY <1>1 DEF Harmony, InUnison
<1>4. \A x \in learner[s].w : x[1] < hub.update + 1
  <2>1. ASSUME NEW x \in learner[s].w PROVE x[1] < hub.update + 1
    <3>1. x \in Steps /\ hub.update \in Nat
      BY HubFields, LearnerTypes DEF LearnerType
    <3>2. x[1] \in Int /\ x[1] <= hub.update
      BY <1>3, <3>1 DEF Steps
    <3> QED BY <3>1, <3>2
  <2> QED BY <2>1
<1>5. Before(s, hub.update + 1) = learner[s].w
  BY <1>4 DEF Before
<1> QED BY <1>2, <1>3, <1>5

LEMMA VersionTypes ==
    ASSUME TypeOK, NEW s \in Shards
    PROVE  /\ actor[s].version \in Nat /\ hub.pending[s].version \in Nat /\ hub.next[s].version \in Nat
           /\ \A i \in 1 .. Len(actor[s].cmd) : actor[s].cmd[i].version \in Nat
           /\ \A i \in 1 .. Len(actor[s].out) : actor[s].out[i].version \in Nat
<1>1. 0 .. Updates \subseteq Nat
  BY Constants
<1>2. \A i \in 1 .. Len(actor[s].cmd) : actor[s].cmd[i] \in OrderType
  BY ActorTypes, ElementOfSeq
<1>3. \A i \in 1 .. Len(actor[s].out) : actor[s].out[i] \in AnswerType
  BY ActorTypes, ElementOfSeq
<1>4. hub.pending[s].version \in 0 .. Updates /\ hub.next[s].version \in 0 .. Updates
  BY HubFields DEF Rollouts
<1>5. actor[s].version \in 0 .. Updates
  BY ActorTypes DEF ActorType
<1> QED BY <1>1, <1>2, <1>3, <1>4, <1>5 DEF OrderType, AnswerType

LEMMA RolloutsTaken ==
    ASSUME TypeOK, TakeRollout, NEW s \in Shards
    PROVE  \A r \in {hub'.pending[s], hub'.next[s]} :
              r \in {hub.pending[s], hub.next[s]} \/
              /\ s = hub.at /\ 1 \in 1 .. Len(actor[s].out) /\ actor[s].out[1].kind = "collected"
              /\ r = [version |-> actor[s].out[1].version, w |-> actor[s].out[1].w]
<1> DEFINE seen == [hub EXCEPT !.next = Taken, !.at = NextActor]
<1>1. hub'.next = Taken /\ hub'.pending \in {hub.pending, Taken}
  <2>1. CASE ~LastActor
    <3>1. hub' = seen
      BY <2>1 DEF TakeRollout
    <3> QED BY <3>1, HubIsARecord
  <2>2. CASE LastActor
    <3>2. CASE hub.lid = 1
      <4>1. hub' = [seen EXCEPT !.pc = "top", !.pending = Taken]
        BY <2>2, <3>2 DEF TakeRollout
      <4> QED BY <4>1, HubIsARecord
    <3>3. CASE hub.lid # 1
      <4>1. PICK moves \in BOOLEAN : \E list \in Agendas(moves) :
            hub' = [seen EXCEPT !.pc = "agenda", !.pending = Taken,
                            !.agenda = list, !.stages = IF moves THEN @ + 1 ELSE @]
        BY <2>2, <3>3 DEF TakeRollout
      <4> QED BY <4>1, HubIsARecord
    <3> QED BY <3>2, <3>3
  <2> QED BY <2>1, <2>2
<1>2. 1 \in 1 .. Len(actor[hub.at].out) /\ Answer.kind = "collected"
  <2>1. actor[hub.at].out # <<>> /\ actor[hub.at].out \in Seq(AnswerType)
    BY HubFields, ActorTypes DEF TakeRollout, Answered
  <2>2. Len(actor[hub.at].out) \in Nat \ {0}
    BY <2>1, TailFacts
  <2>3. 1 \in 1 .. Len(actor[hub.at].out)
    BY <2>2
  <2>4. Answer.kind = "collected"
    BY DEF TakeRollout, Answered
  <2> QED BY <2>3, <2>4
<1>3. Taken[s] = IF s = hub.at THEN [version |-> Answer.version, w |-> Answer.w] ELSE hub.next[s]
  BY HubFields DEF Taken, Rollouts
<1> QED BY <1>1, <1>2, <1>3 DEF Answer

LEMMA VersionsKept ==
    ASSUME TypeOK, TypeOK', Agenda, Protocol, Harmony, Versions, [Next]_vars PROVE Versions'
<1> SUFFICES ASSUME NEW s \in Shards
             PROVE /\ MayStep(s)' => hub'.update < Updates
                   /\ learner'[s].pc \in {"computing", "waiting", "reducing"} => learner'[s].round > 0
                   /\ Names(s, actor[s].version, actor[s].w)'
                   /\ Names(s, hub.pending[s].version, hub.pending[s].w)'
                   /\ Names(s, hub.next[s].version, hub.next[s].w)'
                   /\ \A i \in 1 .. Len(actor'[s].cmd) : actor'[s].cmd[i].kind = "refresh"
                        => Names(s, actor[s].cmd[i].version, actor[s].cmd[i].w)'
                   /\ \A i \in 1 .. Len(actor'[s].out) : actor'[s].out[i].kind = "collected"
                        => Names(s, actor[s].out[i].version, actor[s].out[i].w)'
  BY DEF Versions
<1>n. \A v \in Nat : \A w : Names(s, v, w) => Names(s, v, w)'
  BY NamesKept
<1>1. MayStep(s)' => hub'.update < Updates
  <2>1. CASE hub.pc = "agenda"
    <3>1. ~MayStep(s)'
      BY <2>1, FreshWeights, Growth
    <3> QED BY <3>1
  <2>2. CASE hub.pc # "agenda"
    BY <2>2, Growth, HubGoesOn DEF HubGoes, Versions
  <2> QED BY <2>1, <2>2
<1>2. Names(s, actor[s].version, actor[s].w)'
  <2>1. PICK v, w : v \in Nat /\ Names(s, v, w) /\ actor'[s].version = v /\ actor'[s].w = w
    BY ActorChanges, VersionTypes DEF ActorLearns, Versions
  <2>2. Names(s, v, w)'
    BY <1>n, <2>1
  <2> QED BY <2>1, <2>2 DEF Names
<1>3. ASSUME NEW r \in {hub'.pending[s], hub'.next[s]}
      PROVE  \E v \in Nat : Names(s, v, r.w)' /\ r.version = v
  <2>1. \E v \in Nat : Names(s, v, r.w) /\ r.version = v
    <3>1. CASE r \in {hub.pending[s], hub.next[s]}
      BY <3>1, VersionTypes DEF Versions
    <3>2. CASE /\ 1 \in 1 .. Len(actor[s].out) /\ actor[s].out[1].kind = "collected"
               /\ r = [version |-> actor[s].out[1].version, w |-> actor[s].out[1].w]
      BY <3>2, VersionTypes DEF Versions
    <3> QED BY <3>1, <3>2, HubGoesOn, RolloutsTaken DEF HubGoes
  <2> QED BY <1>n, <2>1
<1>4. /\ Names(s, hub.pending[s].version, hub.pending[s].w)'
      /\ Names(s, hub.next[s].version, hub.next[s].w)'
  BY <1>3 DEF Names
<1>5. ASSUME NEW i \in 1 .. Len(actor'[s].cmd), actor'[s].cmd[i].kind = "refresh"
      PROVE  Names(s, actor[s].cmd[i].version, actor[s].cmd[i].w)'
  <2>1. CASE \E j \in 1 .. Len(actor[s].cmd) : actor'[s].cmd[i] = actor[s].cmd[j]
    <3>1. PICK j \in 1 .. Len(actor[s].cmd) : actor'[s].cmd[i] = actor[s].cmd[j]
      BY <2>1
    <3>2. Names(s, actor[s].cmd[j].version, actor[s].cmd[j].w)
      BY <1>5, <3>1 DEF Versions
    <3>3. PICK v, w : v \in Nat /\ Names(s, v, w) /\ actor'[s].cmd[i].version = v /\ actor'[s].cmd[i].w = w
      BY <3>1, <3>2, VersionTypes
    <3>4. Names(s, v, w)'
      BY <1>n, <3>3
    <3> QED BY <3>3, <3>4 DEF Names
  <2>2. CASE /\ hub.pc = "agenda" /\ hub'.pc = "answer" /\ hub'.update = hub.update
             /\ actor'[s].cmd[i].version = hub.update + 1 /\ actor'[s].cmd[i].w = hub.snaps[s]
    <3>1. ~MayStep(s) /\ hub.snaps[s] = Before(s, hub.update + 1)
      BY <2>2, FreshWeights
    <3>2. ~MayStep(s)' /\ learner'[s].w = learner[s].w
      BY <2>2, <3>1, Growth
    <3>3. Before(s, hub.update + 1)' = hub.snaps[s]
      BY <2>2, <3>1, <3>2 DEF Before
    <3> QED BY <2>2, <3>2, <3>3 DEF Names, Later
  <2> QED BY <1>5, <2>1, <2>2, ActorChanges DEF ActorIsSent
<1>6. ASSUME NEW i \in 1 .. Len(actor'[s].out), actor'[s].out[i].kind = "collected"
      PROVE  Names(s, actor[s].out[i].version, actor[s].out[i].w)'
  <2>1. PICK v, w : v \in Nat /\ Names(s, v, w) /\ actor'[s].out[i].version = v /\ actor'[s].out[i].w = w
    BY <1>6, ActorChanges, VersionTypes DEF ActorSends, Versions
  <2>2. Names(s, v, w)'
    BY <1>n, <2>1
  <2> QED BY <2>1, <2>2 DEF Names
<1> QED BY <1>1, <1>2, <1>4, <1>5, <1>6, Growth

-----------------------------------------------------------------------------
(* The protocol is kept: what the hub hears. *)

LEMMA TroubleStays ==
    ASSUME TypeOK, Agenda, [Next]_vars, Trouble PROVE Trouble'
  BY HubGoesOn DEF Trouble, HubGoes
Awaiting == {"gather", "trained", "acks"}
LEMMA Silence ==
    ASSUME TypeOK, Protocol, ~Trouble, hub.pc \notin Awaiting PROVE replies = <<>>
<1>1. \A i \in 1 .. Len(replies) : FALSE
  BY DEF Protocol, ToThePoint, Awaiting
<1>2. replies \in Seq(ReplyType) /\ Len(replies) \in Nat
  BY LenProperties DEF TypeOK
<1> QED BY <1>1, <1>2, EmptySeq
LEMMA QuietProtocol ==
    ASSUME TypeOK, Protocol, ~Trouble, ~Trouble', hub.pc \notin Awaiting, hub'.pc \notin Awaiting,
           learner' = learner, replies' = replies, hub'.lid = hub.lid,
           hub'.lid = 1 => hub'.update = 0 /\ hub'.pc \in {"prime", "rollouts", "top"}
    PROVE  Protocol'
<1>1. HubInTime'
  BY DEF HubInTime, Learning, Awaiting
<1>2. ASSUME NEW s \in Shards PROVE InTime(s)'
  <2>1. ~Live(learner[s]) \/ Settled(s)
    BY DEF Protocol, InTime, Learning, Awaiting
  <2> QED BY <2>1 DEF InTime, Learning, Awaiting, Settled, Live
<1>3. replies' = <<>>
  BY Silence
<1> QED BY <1>1, <1>2, <1>3 DEF Protocol
\* What is left in the channel when the hub has taken a reply.
LEMMA HearOne ==
    ASSUME TypeOK, Protocol, ~Trouble, replies # <<>>
    PROVE  /\ ToThePoint(Reply) /\ Reply.shard \in Shards
           /\ \A i \in 1 .. Len(Tail(replies)) :
                 ToThePoint(Tail(replies)[i]) /\ Tail(replies)[i].shard # Reply.shard
                 /\ Tail(replies)[i].shard \in Shards
           /\ \A i, j \in 1 .. Len(Tail(replies)) :
                 Tail(replies)[i].shard = Tail(replies)[j].shard => i = j
           /\ Everyone => Tail(replies) = <<>>
<1>0. replies \in Seq(ReplyType)
  BY DEF TypeOK
<1>1. /\ Tail(replies) \in Seq(ReplyType)
      /\ Len(replies) \in Nat \ {0} /\ Len(Tail(replies)) = Len(replies) - 1
      /\ Reply = replies[1] /\ 1 \in 1 .. Len(replies)
      /\ \A i \in 1 .. Len(replies) - 1 : i + 1 \in 1 .. Len(replies) /\ Tail(replies)[i] = replies[i + 1]
  BY <1>0, TailFacts DEF Reply
<1>2. ToThePoint(Reply) /\ Reply.shard \in Shards
  BY <1>1, ReplyFacts DEF Protocol
<1>3. ASSUME NEW i \in 1 .. Len(Tail(replies))
      PROVE  ToThePoint(Tail(replies)[i]) /\ Tail(replies)[i].shard # Reply.shard
             /\ Tail(replies)[i].shard \in Shards
  <2>1. i + 1 \in 1 .. Len(replies) /\ Tail(replies)[i] = replies[i + 1] /\ i + 1 # 1
    BY <1>1
  <2>2. Tail(replies)[i] \in ReplyType
    BY <1>1, ElementOfSeq
  <2> QED BY <1>1, <2>1, <2>2 DEF Protocol, ReplyType
<1>4. ASSUME NEW i \in 1 .. Len(Tail(replies)), NEW j \in 1 .. Len(Tail(replies)),
             Tail(replies)[i].shard = Tail(replies)[j].shard
      PROVE  i = j
  <2>1. i + 1 = j + 1
    BY <1>1, <1>4 DEF Protocol
  <2> QED BY <1>1, <2>1
<1>5. ASSUME Everyone PROVE Tail(replies) = <<>>
  <2>1. \A i \in 1 .. Len(Tail(replies)) : FALSE
    BY <1>3, <1>5 DEF ToThePoint, Everyone
  <2> QED BY <1>1, <2>1, EmptySeq
<1> QED BY <1>2, <1>3, <1>4, <1>5

\* A learner told what to do was there and had done what it was told.
LEMMA ToldInTime ==
    ASSUME TypeOK, Protocol, ~Trouble, hub.pc \notin Awaiting, NEW kind \in {"train", "save", "stop"},
           learner' = Told(kind), hub'.lid = hub.lid + 1, NEW s \in Shards
    PROVE  ~Live(learner[s])' \/ Ordered(s, kind)'
<1>1. ~Live(learner[s]) \/ Settled(s)
  BY DEF Protocol, InTime, Learning, Awaiting
<1>2. CASE ~Live(learner[s])
  BY <1>2 DEF Told, Live
<1>3. CASE Live(learner[s]) /\ Settled(s)
  <2>1. learner'[s] = [learner[s] EXCEPT !.cmd = Append(@, [kind |-> kind, id |-> hub.lid])]
    BY <1>3 DEF Told
  <2> DEFINE c == [kind |-> kind, id |-> hub.lid]
  <2>2. /\ learner'[s].pc = learner[s].pc /\ learner'[s].next = learner[s].next
        /\ learner'[s].dec = learner[s].dec /\ learner'[s].cmd = Append(learner[s].cmd, c)
    BY <2>1, LearnerIsARecord
  <2>3. Append(<<>>, c) = <<c>>
    OBVIOUS
  <2>4. hub.lid = hub'.lid - 1
    BY HubFields
  <2> QED BY <1>3, <2>2, <2>3, <2>4 DEF Settled, Ordered
<1> QED BY <1>1, <1>2, <1>3

LEMMA GatherProtocol ==
    ASSUME TypeOK, Protocol, ~Trouble, Gather PROVE Protocol'
<1>0. /\ hub.pc = "gather" /\ replies # <<>> /\ replies' = Tail(replies) /\ Reply.kind = "gradient"
      /\ hub.round \in 1 .. Rounds /\ hub.round \in Nat /\ Learning /\ Judged = hub.round - 1
      /\ Rounds \in Nat /\ hub.lid > 1 /\ faults' = faults
  BY Constants DEF Gather, Waits, Fits, Hear, Protocol, HubInTime, Learning, Judged
<1>1. Reply.shard \in Shards /\ learner[Reply.shard].pc = "waiting" /\ learner[Reply.shard].dec = <<>>
  BY <1>0, HearOne DEF ToThePoint
<1>2. ASSUME NEW s \in Shards, s \in hub.heard \/ s = Reply.shard
      PROVE  AtWork(s) /\ learner[s].pc = "waiting" /\ learner[s].dec = <<>>
  <2>1. InTime(s)
    BY DEF Protocol
  <2> QED BY <1>0, <1>1, <1>2, <2>1 DEF InTime, Ordered, Settled, Live
<1>3. CASE ~Everyone
  <2>1. /\ learner' = learner /\ hub'.pc = "gather" /\ hub'.round = hub.round
        /\ hub'.lid = hub.lid /\ hub'.heard = hub.heard \cup {Reply.shard} /\ hub'.agenda = hub.agenda
        /\ hub'.update = hub.update
    BY <1>0, <1>3, HubIsARecord DEF Gather
  <2>2. HubInTime'
    BY <1>0, <2>1 DEF HubInTime, Learning
  <2>3. ASSUME NEW s \in Shards PROVE InTime(s)'
    <3>1. AtWork(s) => AtWork(s)'
      BY <1>0, <2>1 DEF AtWork, Judged
    <3>2. InTime(s)
      BY DEF Protocol
    <3>3. CASE s \in hub.heard \/ s = Reply.shard
      BY <1>0, <1>2, <2>1, <3>1, <3>3 DEF InTime, Learning
    <3>4. CASE ~(s \in hub.heard \/ s = Reply.shard)
      BY <1>0, <2>1, <3>1, <3>2, <3>4 DEF InTime, Learning, Ordered, Live
    <3> QED BY <3>3, <3>4
  <2>4. ASSUME NEW i \in 1 .. Len(replies') PROVE ToThePoint(replies[i])'
    <3>0. PICK m : m = replies'[i]
      OBVIOUS
    <3>1. ToThePoint(m) /\ m.shard # Reply.shard
      BY <1>0, <3>0, HearOne
    <3>2. ToThePoint(m)'
      BY <1>0, <2>1, <3>1 DEF ToThePoint, Live
    <3> QED BY <3>0, <3>2 DEF ToThePoint
  <2> QED BY <1>0, <2>2, <2>3, <2>4, HearOne DEF Protocol
<1>4. CASE Everyone
  <2> DEFINE d == Verdict(~hub.spoilt /\ Reply.finite)
  <2>0. d \in Decisions
    BY DEF Verdict, Decisions
  <2>1. /\ learner' = Decided(learner, d) /\ hub'.heard = {} /\ hub'.lid = hub.lid
        /\ hub'.update = hub.update
        /\ IF hub.round < Rounds THEN hub'.pc = "gather" /\ hub'.round = hub.round + 1
                                 ELSE hub'.pc = "trained" /\ hub'.round = hub.round
    BY <1>0, <1>4, HubIsARecord DEF Gather
  <2>2. Judged' = hub.round /\ Learning'
    BY <1>0, <2>1 DEF Judged, Learning
  <2>3. HubInTime'
    BY <1>0, <2>1 DEF HubInTime, Learning
  <2>4. ASSUME NEW s \in Shards PROVE InTime(s)'
    <3>1. /\ learner[s].pc = "waiting" /\ learner[s].dec = <<>> /\ learner[s].next = hub.lid
          /\ learner[s].cmd = <<>> /\ learner[s].round = hub.round
      <4>1. s \in hub.heard \/ s = Reply.shard
        BY <1>4 DEF Everyone
      <4>2. AtWork(s) /\ learner[s].pc = "waiting" /\ learner[s].dec = <<>>
        BY <1>2, <4>1
      <4>3. learner[s].round = Judged + 1
        BY <4>2 DEF AtWork
      <4> QED BY <1>0, <4>2, <4>3 DEF AtWork
    <3>2. learner'[s] = [learner[s] EXCEPT !.dec = Append(@, d)]
      BY <2>1, <3>1 DEF Decided, Live
    <3>3. /\ learner'[s].pc = "waiting" /\ learner'[s].dec = Append(<<>>, d)
          /\ learner'[s].next = hub'.lid /\ learner'[s].cmd = <<>> /\ learner'[s].round = hub.round
      BY <2>1, <3>1, <3>2, LearnerIsARecord
    <3> HIDE DEF d
    <3>4. Append(<<>>, d) = <<d>>
      OBVIOUS
    <3>5. AtWork(s)'
      BY <2>0, <2>2, <3>3, <3>4 DEF AtWork
    <3> QED BY <2>1, <2>2, <3>5 DEF InTime
  <2>5. replies' = <<>>
    BY <1>0, <1>4, HearOne
  <2> QED BY <2>3, <2>4, <2>5 DEF Protocol
<1> QED BY <1>3, <1>4

LEMMA TrainedProtocol ==
    ASSUME TypeOK, Protocol, ~Trouble, Trained PROVE Protocol'
<1>0. /\ hub.pc = "trained" /\ replies # <<>> /\ replies' = Tail(replies) /\ Reply.kind = "trained"
      /\ hub.round = Rounds /\ Learning /\ Judged = Rounds /\ learner' = learner
      /\ Rounds \in Nat /\ hub.lid > 1 /\ faults' = faults
  BY Constants DEF Trained, Waits, Fits, Hear, Protocol, HubInTime, Learning, Judged
<1>1. Reply.shard \in Shards /\ Settled(Reply.shard)
  BY <1>0, HearOne DEF ToThePoint
<1>2. ASSUME NEW s \in Shards, s \in hub.heard \/ s = Reply.shard PROVE Settled(s)
  <2>1. InTime(s)
    BY DEF Protocol
  <2>2. learner[s].round \in 0 .. Rounds
    BY LearnerTypes DEF LearnerType
  <2>3. AtWork(s) /\ learner[s].pc = "waiting" /\ learner[s].dec = <<>> => FALSE
    BY <1>0, <2>2 DEF AtWork
  <2> QED BY <1>0, <1>1, <1>2, <2>1, <2>3 DEF InTime
<1>3. /\ hub'.round = hub.round /\ hub'.lid = hub.lid /\ hub'.update = hub.update
      /\ hub'.heard = hub.heard \cup {Reply.shard} /\ hub'.agenda = hub.agenda
      /\ hub'.pc = IF Everyone THEN "rollouts" ELSE "trained"
  BY <1>0, HubIsARecord DEF Trained
<1>4. HubInTime'
  BY <1>0, <1>3 DEF HubInTime, Learning
<1>5. CASE ~Everyone
  <2>1. ASSUME NEW s \in Shards PROVE InTime(s)'
    <3>1. (AtWork(s) => AtWork(s)') /\ (Settled(s) => Settled(s)')
      BY <1>0, <1>3, <1>5 DEF AtWork, Judged, Settled
    <3>2. InTime(s)
      BY DEF Protocol
    <3>3. CASE s \in hub.heard \/ s = Reply.shard
      BY <1>0, <1>2, <1>3, <1>5, <3>1, <3>3 DEF InTime, Learning
    <3>4. CASE ~(s \in hub.heard \/ s = Reply.shard)
      BY <1>0, <1>3, <1>5, <3>1, <3>2, <3>4 DEF InTime, Learning, Live
    <3> QED BY <3>3, <3>4
  <2>2. ASSUME NEW i \in 1 .. Len(replies') PROVE ToThePoint(replies[i])'
    <3>0. PICK m : m = replies'[i]
      OBVIOUS
    <3>1. ToThePoint(m) /\ m.shard # Reply.shard
      BY <1>0, <3>0, HearOne
    <3>2. ToThePoint(m)'
      BY <1>0, <1>3, <1>5, <3>1 DEF ToThePoint, Live, Settled
    <3> QED BY <3>0, <3>2 DEF ToThePoint
  <2> QED BY <1>0, <1>4, <2>1, <2>2, HearOne DEF Protocol
<1>6. CASE Everyone
  <2>1. ASSUME NEW s \in Shards PROVE InTime(s)'
    <3>1. Settled(s)
      BY <1>2, <1>6 DEF Everyone
    <3> QED BY <1>0, <1>3, <1>6, <3>1 DEF InTime, Learning, Settled
  <2>2. replies' = <<>>
    BY <1>0, <1>6, HearOne
  <2> QED BY <1>4, <2>1, <2>2 DEF Protocol
<1> QED BY <1>5, <1>6

LEMMA AckProtocol ==
    ASSUME TypeOK, Protocol, ~Trouble, HearAck PROVE Protocol'
<1>0. /\ hub.pc = "acks" /\ replies # <<>> /\ replies' = Tail(replies) /\ Reply.kind = "ack"
      /\ ~Learning /\ learner' = learner /\ faults' = faults
      /\ hub.agenda # <<>> /\ Head(hub.agenda) \in {"save", "stop"} /\ hub.lid # 1
  BY DEF HearAck, Waits, Fits, Hear, Protocol, HubInTime, Learning
<1>1. Reply.shard \in Shards /\ (Settled(Reply.shard) \/ ~Live(learner[Reply.shard]))
  BY <1>0, HearOne DEF ToThePoint
<1>2. ASSUME NEW s \in Shards, s \in hub.heard \/ s = Reply.shard
      PROVE  Settled(s) \/ ~Live(learner[s])
  <2>1. InTime(s)
    BY DEF Protocol
  <2> QED BY <1>0, <1>1, <1>2, <2>1 DEF InTime
<1>3. CASE ~Everyone
  <2>0. /\ hub'.pc = "acks" /\ hub'.lid = hub.lid /\ hub'.update = hub.update
        /\ hub'.heard = hub.heard \cup {Reply.shard} /\ hub'.agenda = hub.agenda
    BY <1>0, <1>3, HubIsARecord DEF HearAck
  <2>1. HubInTime'
    BY <1>0, <2>0 DEF HubInTime, Learning
  <2>2. ASSUME NEW s \in Shards PROVE InTime(s)'
    <3>1. InTime(s)
      BY DEF Protocol
    <3>2. CASE s \in hub.heard \/ s = Reply.shard
      BY <1>0, <1>2, <2>0, <3>2 DEF InTime, Learning, Settled, Live
    <3>3. CASE ~(s \in hub.heard \/ s = Reply.shard)
      BY <1>0, <2>0, <3>1, <3>3 DEF InTime, Learning, Settled, Live, Ordered
    <3> QED BY <3>2, <3>3
  <2>3. ASSUME NEW i \in 1 .. Len(replies') PROVE ToThePoint(replies[i])'
    <3>0. PICK m : m = replies'[i]
      OBVIOUS
    <3>1. ToThePoint(m) /\ m.shard # Reply.shard
      BY <1>0, <3>0, HearOne
    <3>2. ToThePoint(m)'
      BY <1>0, <2>0, <3>1 DEF ToThePoint, Live, Settled
    <3> QED BY <3>0, <3>2 DEF ToThePoint
  <2> QED BY <1>0, <2>1, <2>2, <2>3, HearOne DEF Protocol
<1>4. CASE Everyone
  <2>0. hub'.pc = "agenda" /\ hub'.lid = hub.lid
    BY <1>0, <1>4, HubIsARecord DEF HearAck
  <2>1. HubInTime'
    BY <1>0, <2>0 DEF HubInTime, Learning
  <2>2. ASSUME NEW s \in Shards PROVE InTime(s)'
    <3>1. Settled(s) \/ ~Live(learner[s])
      BY <1>2, <1>4 DEF Everyone
    <3> QED BY <1>0, <2>0, <3>1 DEF InTime, Learning, Settled, Live
  <2>3. replies' = <<>>
    BY <1>0, <1>4, HearOne
  <2> QED BY <2>1, <2>2, <2>3 DEF Protocol
<1> QED BY <1>3, <1>4

LEMMA StartProtocol ==
    ASSUME TypeOK, Protocol, ~Trouble, StartUpdate PROVE Protocol'
<1>0. /\ hub.pc = "top" /\ learner' = Told("train") /\ hub'.lid = hub.lid + 1 /\ hub'.pc = "gather"
      /\ hub'.round = 1 /\ hub'.heard = {} /\ replies' = replies /\ 1 \in 1 .. Rounds
      /\ hub'.lid > 1
  BY HubIsARecord, HubFields, Constants DEF StartUpdate
<1>1. HubInTime'
  BY <1>0 DEF HubInTime, Learning
<1>2. ASSUME NEW s \in Shards PROVE InTime(s)'
  <2>1. ~Live(learner[s])' \/ Ordered(s, "train")'
    BY <1>0, ToldInTime DEF Awaiting
  <2> QED BY <1>0, <2>1 DEF InTime, Learning
<1>3. replies' = <<>>
  BY <1>0, Silence DEF Awaiting
<1> QED BY <1>1, <1>2, <1>3 DEF Protocol
LEMMA AskProtocol ==
    ASSUME TypeOK, Protocol, ~Trouble, AskLearners PROVE Protocol'
<1>0. /\ hub.pc = "agenda" /\ learner' = Told(Head(hub.agenda)) /\ hub'.lid = hub.lid + 1
      /\ hub'.pc = "acks" /\ hub'.heard = {} /\ replies' = replies /\ hub'.agenda = hub.agenda
      /\ hub.agenda # <<>> /\ Head(hub.agenda) \in {"save", "stop"} /\ hub'.lid > 1
  BY HubIsARecord, HubFields DEF AskLearners, Doing
<1>1. HubInTime'
  BY <1>0 DEF HubInTime, Learning
<1>2. ASSUME NEW s \in Shards PROVE InTime(s)'
  <2> DEFINE kind == Head(hub.agenda)
  <2>0. kind \in {"train", "save", "stop"} /\ Head(hub'.agenda) = kind
    BY <1>0
  <2> HIDE DEF kind
  <2>1. ~Live(learner[s])' \/ Ordered(s, kind)'
    BY <1>0, <2>0, ToldInTime DEF Awaiting, kind
  <2> QED BY <1>0, <2>0, <2>1 DEF InTime, Learning, Ordered, kind
<1>3. replies' = <<>>
  BY <1>0, Silence DEF Awaiting
<1> QED BY <1>1, <1>2, <1>3 DEF Protocol

LEMMA HubProtocol ==
    ASSUME TypeOK, Agenda, Protocol, ~Trouble, ~Trouble', HubStep \/ SaveFails PROVE Protocol'
<1>0. hub.update \in Nat /\ hub.lid \in Nat \ {0} /\ HubGoes
      /\ (hub.lid = 1 => hub.update = 0 /\ hub.pc \in {"prime", "rollouts", "top"})
  BY HubFields, WhereTheHubGoes DEF Protocol, HubInTime
<1>1. CASE Prime
  <2>1. /\ hub.pc = "prime" /\ hub'.pc = "rollouts" /\ hub'.lid = hub.lid
        /\ learner' = learner /\ replies' = replies /\ hub'.update = hub.update
    BY <1>1, HubIsARecord DEF Prime
  <2> QED BY <1>0, <2>1, QuietProtocol DEF Awaiting
<1>2. CASE LeaveLoop
  <2>1. /\ hub.pc = "top" /\ hub'.pc = "agenda" /\ hub'.lid = hub.lid
        /\ learner' = learner /\ replies' = replies
    BY <1>2, HubIsARecord DEF LeaveLoop
  <2>2. hub.lid # 1
    BY <1>0, <1>2, Constants DEF LeaveLoop
  <2> QED BY <2>1, <2>2, QuietProtocol DEF Awaiting
<1>3. CASE TakeRollout
  <2> DEFINE seen == [hub EXCEPT !.next = Taken, !.at = NextActor]
  <2>0. hub.pc = "rollouts" /\ learner' = learner /\ replies' = replies
    BY <1>3 DEF TakeRollout
  <2>1. /\ hub'.lid = hub.lid /\ hub'.pc \in {"rollouts", "top", "agenda"}
        /\ hub.lid = 1 => hub'.pc # "agenda"
    <3>1. CASE ~LastActor
      <4>1. hub' = seen
        BY <1>3, <3>1 DEF TakeRollout
      <4> QED BY <2>0, <4>1, HubIsARecord
    <3>2. CASE LastActor /\ hub.lid = 1
      <4>1. hub' = [seen EXCEPT !.pc = "top", !.pending = Taken]
        BY <1>3, <3>2 DEF TakeRollout
      <4> QED BY <4>1, HubIsARecord
    <3>3. CASE LastActor /\ hub.lid # 1
      <4>1. PICK moves \in BOOLEAN : \E list \in Agendas(moves) :
            hub' = [seen EXCEPT !.pc = "agenda", !.pending = Taken,
                            !.agenda = list, !.stages = IF moves THEN @ + 1 ELSE @]
        BY <1>3, <3>3 DEF TakeRollout
      <4> QED BY <3>3, <4>1, HubIsARecord
    <3> QED BY <3>1, <3>2, <3>3
  <2>2. hub'.update = hub.update
    BY <1>0, <2>0 DEF HubGoes
  <2> QED BY <1>0, <2>0, <2>1, <2>2, QuietProtocol DEF Awaiting
<1>4. CASE NextUpdate \/ AskActor \/ HearActor \/ Submit \/ EndEval \/ EvalEnded
  <2>1. /\ learner' = learner /\ replies' = replies /\ hub'.lid = hub.lid
        /\ hub.pc \in {"agenda", "answer", "evalEnd"}
    BY <1>4, HubIsARecord DEF NextUpdate, AskActor, HearActor, Submit, EndEval, EvalEnded, Doing
  <2>2. hub'.pc \in {"agenda", "answer", "evalEnd", "done", "top"}
    BY <1>4, <2>1, HubIsARecord DEF NextUpdate, AskActor, HearActor, Submit, EndEval, EvalEnded, Doing
  <2> QED BY <1>0, <2>1, <2>2, QuietProtocol DEF Awaiting
<1>5. CASE CannotStart \/ BadRollout \/ BadAck \/ SaveFails \/ BadAnswer \/ EvalLost
  <2>1. hub' = [hub EXCEPT !.pc = "dropEval"]
    BY <1>5 DEF CannotStart, BadRollout, BadAck, SaveFails, BadAnswer, EvalLost, Fail
  <2> QED BY <2>1, HubIsARecord DEF Trouble, Failing
<1>6. CASE BadPacket \/ BadResult \/ LearnerLost
  <2>1. hub' = [hub EXCEPT !.pc = "dropEval"] \/ hub' = [hub EXCEPT !.pc = "rollouts", !.at = 1, !.err = TRUE]
    BY <1>6 DEF BadPacket, BadResult, LearnerLost, Fail, TrainingFailed
  <2> QED BY <2>1, HubIsARecord DEF Trouble, Failing
<1>7. CASE DropEval \/ JoinEval \/ DropLearners \/ JoinLearners \/ DropActor \/ JoinActor
  BY <1>7 DEF DropEval, JoinEval, DropLearners, JoinLearners, DropActor, JoinActor, Goes, Trouble, Failing
<1> QED BY <1>1, <1>2, <1>3, <1>4, <1>5, <1>6, <1>7, StartProtocol, GatherProtocol, TrainedProtocol,
       AskProtocol, AckProtocol DEF HubStep

-----------------------------------------------------------------------------
(* The protocol is kept: what the learners do. *)

\* A learner takes a step only where the hub awaits one, and what it says then is
\* the first that the hub hears of it.
LEMMA AtItsTurn ==
    ASSUME TypeOK, Protocol, ~Trouble, NEW s \in Shards, LearnerStep(s)
    PROVE  /\ s \notin hub.heard
           /\ \A i \in 1 .. Len(replies) : replies[i].shard # s
           /\ \/ Learning /\ Ordered(s, "train") /\ hub.pc = "gather" /\ hub.round = 1
              \/ Learning /\ AtWork(s) /\ ~(learner[s].pc = "waiting" /\ learner[s].dec = <<>>)
              \/ hub.pc = "acks" /\ Ordered(s, Head(hub.agenda))
<1>1. /\ Live(learner[s])
      /\ learner[s].pc = "idle" => learner[s].cmd # <<>>
      /\ learner[s].pc = "waiting" => learner[s].dec # <<>>
  BY DEF LearnerStep, LearnerAccepts, Offers, TakeDecision, Reduced, TimesOut, Reports, LearnerErrs,
     LearnerPanics, Working, Live
<1>2. ~Settled(s)
  BY <1>1 DEF Settled
<1>3. InTime(s)
  BY DEF Protocol
<1>4. ASSUME NEW i \in 1 .. Len(replies) PROVE replies[i].shard # s
  <2>1. ToThePoint(replies[i])
    BY DEF Protocol
  <2> QED BY <1>1, <1>2, <2>1 DEF ToThePoint
<1>5. s \notin hub.heard
  BY <1>1, <1>2, <1>3 DEF InTime, Protocol, HubInTime, Learning, Ordered
<1> QED BY <1>1, <1>2, <1>3, <1>4, <1>5 DEF InTime

\* It is enough to follow the learner that takes the step, and the reply it may give.
LEMMA LearnerProtocol ==
    ASSUME TypeOK, TypeOK', Protocol, ~Trouble, NEW s \in Shards, LearnerStep(s),
           NEW l, Becomes(s, l), hub' = hub, faults' >= faults, InTime(s)',
           \/ replies' = replies
           \/ \E m \in ReplyType : m.shard = s /\ replies' = Append(replies, m) /\ ToThePoint(m)'
    PROVE  Protocol'
<1>0. replies \in Seq(ReplyType) /\ Len(replies) \in Nat /\ faults \in Nat /\ faults' \in Nat
  BY Constants, LenProperties DEF TypeOK
<1>1. learner'[s] = l /\ \A t \in Shards \ {s} : learner'[t] = learner[t]
  BY DEF Becomes, TypeOK
<1>2. HubInTime'
  BY DEF Protocol, HubInTime, Learning
<1>3. ASSUME NEW t \in Shards PROVE InTime(t)'
  <2>1. CASE t # s
    <3>1. InTime(t) /\ learner'[t] = learner[t]
      BY <1>1, <2>1 DEF Protocol
    <3> QED BY <3>1 DEF InTime, Learning, Ordered, AtWork, Judged, Settled, Live
  <2> QED BY <2>1
<1>4. ASSUME NEW i \in 1 .. Len(replies), NEW m, m = replies[i] PROVE ToThePoint(m)' /\ m.shard # s
  <2>1. ToThePoint(m) /\ m.shard # s /\ m \in ReplyType
    BY <1>0, <1>4, AtItsTurn, ElementOfSeq DEF Protocol
  <2>2. learner'[m.shard] = learner[m.shard]
    BY <1>1, <2>1 DEF ReplyType
  <2> QED BY <1>0, <2>1, <2>2 DEF ToThePoint, Settled, Live
<1>5. CASE replies' = replies
  <2>1. ASSUME NEW i \in 1 .. Len(replies') PROVE ToThePoint(replies[i])'
    <3>1. PICK m : m = replies'[i]
      OBVIOUS
    <3>2. ToThePoint(m)'
      BY <1>4, <1>5, <3>1
    <3> QED BY <3>1, <3>2 DEF ToThePoint
  <2> QED BY <1>2, <1>3, <1>5, <2>1 DEF Protocol
<1>6. ASSUME NEW m \in ReplyType, m.shard = s, replies' = Append(replies, m), ToThePoint(m)'
      PROVE  Protocol'
  <2>1. /\ Len(replies') = Len(replies) + 1
        /\ \A i \in 1 .. Len(replies) + 1 : \/ i \in 1 .. Len(replies) /\ replies'[i] = replies[i]
                                            \/ i = Len(replies) + 1 /\ replies'[i] = m
    BY <1>0, <1>6, AppendProperties
  <2>2. ASSUME NEW i \in 1 .. Len(replies') PROVE ToThePoint(replies[i])'
    <3>1. PICK n : n = replies'[i]
      OBVIOUS
    <3>2. ToThePoint(n)'
      BY <1>4, <1>6, <2>1, <3>1
    <3> QED BY <3>1, <3>2 DEF ToThePoint
  <2>3. ASSUME NEW i \in 1 .. Len(replies'), NEW j \in 1 .. Len(replies'),
               replies'[i].shard = replies'[j].shard
        PROVE  i = j
    BY <1>4, <1>6, <2>1, <2>3 DEF Protocol
  <2> QED BY <1>2, <1>3, <2>2, <2>3 DEF Protocol
<1> QED BY <1>5, <1>6

LEMMA LearnerStepFrame ==
    ASSUME TypeOK, NEW s \in Shards, NEW l, Becomes(s, l) PROVE learner'[s] = l
  BY DEF Becomes, TypeOK
\* When a round is behind a learner, it stands at the next or has finished.
LEMMA PassedInTime ==
    ASSUME TypeOK, NEW s \in Shards, NEW k \in LearnerType, learner'[s] = Passed(k), hub' = hub,
           Learning, s \notin hub.heard,
           k.round = Judged, k.next = hub.lid, k.cmd = <<>>, k.dec = <<>>
    PROVE  InTime(s)'
<1>1. k.round \in 0 .. Rounds /\ Rounds \in Nat
  BY Constants DEF LearnerType
<1>2. Judged' = Judged
  BY DEF Judged
<1>3. CASE k.round < Rounds
  <2>1. Passed(k) = [k EXCEPT !.pc = "computing", !.round = @ + 1]
    BY <1>3 DEF Passed
  <2>2. /\ learner'[s].pc = "computing" /\ learner'[s].round = Judged + 1 /\ learner'[s].dec = <<>>
        /\ learner'[s].cmd = <<>> /\ learner'[s].next = hub.lid
    BY <2>1 DEF LearnerType
  <2>3. AtWork(s)'
    BY <1>2, <2>2 DEF AtWork
  <2> QED BY <2>3 DEF InTime, Learning
<1>4. CASE k.round = Rounds
  <2>1. Passed(k) = [k EXCEPT !.pc = "finished"]
    BY <1>1, <1>4 DEF Passed
  <2>2. /\ learner'[s].pc = "finished" /\ learner'[s].dec = <<>>
        /\ learner'[s].cmd = <<>> /\ learner'[s].next = hub.lid
    BY <2>1 DEF LearnerType
  <2>3. AtWork(s)'
    BY <1>2, <1>4, <2>2 DEF AtWork
  <2> QED BY <2>3 DEF InTime, Learning
<1> QED BY <1>1, <1>3, <1>4
LEMMA SteppedIs ==
    ASSUME NEW l \in LearnerType
    PROVE  \E k : /\ k = [l EXCEPT !.w = @ \cup {<<hub.update, l.round>>}] /\ Stepped(l) = Passed(k)
  BY DEF Stepped
LEMMA SteppedInTime ==
    ASSUME TypeOK, NEW s \in Shards, NEW l \in LearnerType, learner'[s] = Stepped(l), hub' = hub,
           Learning, s \notin hub.heard, hub.update < Updates, l.round > 0,
           l.round = Judged, l.next = hub.lid, l.cmd = <<>>, l.dec = <<>>
    PROVE  InTime(s)'
<1>1. PICK k : k = [l EXCEPT !.w = @ \cup {<<hub.update, l.round>>}] /\ Stepped(l) = Passed(k)
  BY SteppedIs
<1>2. <<hub.update, l.round>> \in Steps
  <2>1. hub.update \in 0 .. Updates - 1
    BY Constants, HubFields
  <2>2. l.round \in 1 .. Rounds
    BY Constants DEF LearnerType
  <2> QED BY <2>1, <2>2 DEF Steps
<1>3. /\ k \in LearnerType /\ k.round = l.round /\ k.next = l.next /\ k.cmd = l.cmd /\ k.dec = l.dec
  BY <1>1, <1>2 DEF LearnerType
<1> QED BY <1>1, <1>3, PassedInTime

\* A learner that fails says so, and the hub will hear of it.
LEMMA FailsInTime ==
    ASSUME TypeOK, Protocol, ~Trouble, NEW s \in Shards, LearnerStep(s), hub' = hub,
           NEW l \in LearnerType, Fails(s, l), faults' > 0
    PROVE  /\ InTime(s)' /\ Becomes(s, Ended(l))
           /\ \E m \in ReplyType : m.shard = s /\ replies' = Append(replies, m) /\ ToThePoint(m)'
<1>1. learner'[s] = Ended(l) /\ Ended(l).pc = "dead"
  BY LearnerStepFrame DEF Fails, Ended, LearnerType
<1>2. s \notin hub.heard /\ hub.pc \in Awaiting
  BY AtItsTurn DEF Learning, Awaiting
<1>3. InTime(s)'
  BY <1>1, <1>2 DEF InTime, Live
<1>4. PICK m \in ReplyType : Says1(s, m) /\ m.kind = "failed"
  BY SaysOne DEF Fails
<1>5. ToThePoint(m)'
  BY <1>1, <1>2, <1>4 DEF ToThePoint, Says1, Live, Awaiting
<1> QED BY <1>3, <1>4, <1>5 DEF Fails, Says1

LEMMA AcceptsProtocol ==
    ASSUME TypeOK, TypeOK', Protocol, ~Trouble, NEW s \in Shards, LearnerAccepts(s), LearnerStep(s)
    PROVE  Protocol'
<1> DEFINE a == Accepted(learner[s])
<1>0. /\ learner[s].pc = "idle" /\ learner[s].cmd # <<>> /\ hub' = hub /\ faults' = faults
      /\ learner[s] \in LearnerType /\ hub.lid \in Nat /\ faults \in Nat /\ a \in LearnerType
  <2>1. learner[s].pc = "idle" /\ learner[s].cmd # <<>> /\ hub' = hub /\ faults' = faults
    BY DEF LearnerAccepts
  <2>2. learner[s] \in LearnerType /\ hub.lid \in Nat /\ faults \in Nat
    BY HubFields, LearnerTypes, Idleness, Constants
  <2> QED BY <2>1, <2>2, AcceptedType
<1>1. a.pc = "idle" /\ a.cmd = Tail(learner[s].cmd) /\ a.next = learner[s].next + 1 /\ a.dec = learner[s].dec
  BY LearnerIsARecord, <1>0 DEF Accepted
<1>2. s \notin hub.heard
  BY AtItsTurn
<1> HIDE DEF a
<1>3. ASSUME NEW kind, Ordered(s, kind)
      PROVE  /\ Head(learner[s].cmd).id = learner[s].next /\ Head(learner[s].cmd).kind = kind
             /\ a.cmd = <<>> /\ a.next = hub.lid /\ a.dec = <<>>
  <2>1. learner[s].cmd = <<[kind |-> kind, id |-> hub.lid - 1]>> /\ learner[s].next = hub.lid - 1
    BY <1>3 DEF Ordered
  <2>2. Tail(<<[kind |-> kind, id |-> hub.lid - 1]>>) = <<>>
    OBVIOUS
  <2> QED BY <1>0, <1>1, <1>3, <2>1, <2>2 DEF Ordered
<1>4. CASE Learning /\ Ordered(s, "train") /\ hub.pc = "gather" /\ hub.round = 1
  <2>1. /\ Becomes(s, [a EXCEPT !.pc = "computing", !.round = 1, !.joined = 0])
        /\ UNCHANGED replies
    BY <1>3, <1>4 DEF LearnerAccepts, a
  <2>2. learner'[s] = [a EXCEPT !.pc = "computing", !.round = 1, !.joined = 0]
    BY <2>1, LearnerStepFrame
  <2>3. /\ learner'[s].pc = "computing" /\ learner'[s].round = 1 /\ learner'[s].next = hub.lid
        /\ learner'[s].cmd = <<>> /\ learner'[s].dec = <<>>
    BY <1>0, <1>3, <1>4, <2>2 DEF LearnerType
  <2>4. Judged' = 0
    BY <1>0, <1>4 DEF Judged
  <2>5. InTime(s)'
    BY <1>0, <1>2, <1>4, <2>3, <2>4 DEF InTime, AtWork, Learning
  <2> QED BY <1>0, <2>1, <2>5, LearnerProtocol
<1>5. CASE hub.pc = "acks" /\ Ordered(s, Head(hub.agenda))
  <2>0. /\ Head(hub.agenda) \in {"save", "stop"} /\ Head(learner[s].cmd).kind = Head(hub.agenda)
        /\ Head(learner[s].cmd).id = learner[s].next
        /\ a.cmd = <<>> /\ a.next = hub.lid /\ a.dec = <<>>
    BY <1>3, <1>5 DEF Protocol, HubInTime
  <2>1. /\ Says(s, "ack", a)
        /\ \/ Becomes(s, a)
           \/ Becomes(s, Ended(a)) /\ Head(hub.agenda) = "stop"
    BY <2>0 DEF LearnerAccepts, a
  <2>2. PICK m \in ReplyType : Says1(s, m) /\ m.kind = "ack" /\ m.id = a.next - 1
    BY <1>0, <2>1, SaysOne
  <2>3. CASE Becomes(s, a)
    <3>1. learner'[s] = a
      BY <2>3, LearnerStepFrame
    <3>2. Settled(s)'
      BY <1>0, <1>1, <2>0, <3>1 DEF Settled
    <3>3. InTime(s)' /\ ToThePoint(m)'
      BY <1>0, <1>2, <1>5, <2>0, <2>2, <3>2 DEF InTime, ToThePoint, Learning, Says1
    <3> QED BY <1>0, <2>2, <2>3, <3>3, LearnerProtocol DEF Says1
  <2>4. CASE Becomes(s, Ended(a)) /\ Head(hub.agenda) = "stop"
    <3>1. learner'[s] = Ended(a) /\ Ended(a).pc = "dead"
      BY <1>0, <2>4, LearnerStepFrame DEF Ended, LearnerType
    <3>2. InTime(s)' /\ ToThePoint(m)'
      BY <1>0, <1>2, <1>5, <2>0, <2>2, <2>4, <3>1 DEF InTime, ToThePoint, Learning, Live, Says1
    <3> QED BY <1>0, <2>2, <2>4, <3>2, LearnerProtocol DEF Says1
  <2> QED BY <2>1, <2>3, <2>4
<1> QED BY <1>0, <1>4, <1>5, AtItsTurn DEF AtWork

\* At work, a learner is past its orders, and what it stands at follows the hub's round.
LEMMA WorkFacts ==
    ASSUME TypeOK, Protocol, ~Trouble, NEW s \in Shards, LearnerStep(s), learner[s].pc # "idle"
    PROVE  /\ Learning /\ AtWork(s) /\ s \notin hub.heard
           /\ ~(learner[s].pc = "waiting" /\ learner[s].dec = <<>>)
           /\ learner[s] \in LearnerType /\ Rounds \in Nat /\ hub.lid \in Nat
           /\ learner[s].round \in 0 .. Rounds
           /\ learner[s].pc = "computing" => hub.pc = "gather" /\ learner[s].round = hub.round
           /\ learner[s].pc = "finished" => hub.pc = "trained"
<1>1. /\ Learning /\ AtWork(s) /\ s \notin hub.heard
      /\ ~(learner[s].pc = "waiting" /\ learner[s].dec = <<>>)
  BY AtItsTurn DEF Ordered
<1>2. learner[s] \in LearnerType /\ Rounds \in Nat /\ learner[s].round \in 0 .. Rounds
  BY LearnerTypes, Constants DEF LearnerType
<1>3. hub.round \in Nat /\ hub.lid \in Nat
  BY HubFields, Constants
<1>4. hub.pc = "gather" => hub.round \in 1 .. Rounds
  BY DEF Protocol, HubInTime
<1> QED BY <1>1, <1>2, <1>3, <1>4 DEF AtWork, Judged, Learning

LEMMA WorkProtocol ==
    ASSUME TypeOK, TypeOK', Versions, Protocol, Calm, ~Trouble, NEW s \in Shards, LearnerStep(s)
    PROVE  Protocol'
<1> DEFINE l == learner[s]
<1>0. /\ hub' = hub /\ faults' >= faults /\ faults \in Nat /\ l \in LearnerType
      /\ l.pc \in {"computing", "waiting", "reducing"} => l.round > 0 /\ hub.update < Updates
  BY WhatALearnerDoes, Idleness, LearnerTypes, Constants DEF LearnerDoes, Versions, MayStep
<1>1. CASE LearnerAccepts(s)
  BY <1>1, AcceptsProtocol
<1>2. CASE Offers(s)
  <2>0. /\ l.pc = "computing" /\ Becomes(s, [l EXCEPT !.pc = "waiting"])
        /\ \E finite \in BOOLEAN : replies' = Append(replies,
                [kind |-> "gradient", shard |-> s, id |-> l.next - 1,
                 round |-> l.round, finite |-> finite, w |-> {}])
    BY <1>2 DEF Offers
  <2>1. /\ Learning /\ AtWork(s) /\ s \notin hub.heard /\ hub.pc = "gather" /\ l.round = hub.round
        /\ hub.round \in Nat /\ hub.lid \in Nat
    BY <2>0, WorkFacts, HubFields, Constants
  <2>2. l.next = hub.lid /\ l.cmd = <<>> /\ l.dec = <<>>
    BY <2>0, <2>1 DEF AtWork
  <2>3. /\ learner'[s].pc = "waiting" /\ learner'[s].dec = <<>> /\ learner'[s].round = hub.round
        /\ learner'[s].next = hub.lid /\ learner'[s].cmd = <<>>
    BY <2>0, <2>1, <2>2, LearnerStepFrame, LearnerIsARecord
  <2>4. Judged' + 1 = hub.round
    BY <1>0, <2>1 DEF Judged
  <2>5. InTime(s)'
    BY <1>0, <2>1, <2>3, <2>4 DEF InTime, AtWork, Learning
  <2>6. PICK finite \in BOOLEAN : replies' = Append(replies,
                [kind |-> "gradient", shard |-> s, id |-> l.next - 1,
                 round |-> l.round, finite |-> finite, w |-> {}])
    BY <2>0
  <2>7. PICK m : m = [kind |-> "gradient", shard |-> s, id |-> l.next - 1,
                      round |-> l.round, finite |-> finite, w |-> {}]
    OBVIOUS
  <2>8. m \in ReplyType
    BY <1>0, <2>7 DEF LearnerType, ReplyType
  <2>9. ToThePoint(m)'
    BY <1>0, <2>1, <2>2, <2>3, <2>7 DEF ToThePoint
  <2> QED BY <1>0, <2>0, <2>5, <2>6, <2>7, <2>8, <2>9, LearnerProtocol
<1>3. CASE TakeDecision(s)
  <2> DEFINE k == [l EXCEPT !.dec = Tail(@)]
  <2>0. l.pc = "waiting" /\ l.dec # <<>>
    BY <1>3 DEF TakeDecision
  <2>1. Learning /\ AtWork(s) /\ s \notin hub.heard
    BY <2>0, WorkFacts
  <2>2. /\ l.next = hub.lid /\ l.cmd = <<>> /\ l.round = Judged
        /\ \E d \in Decisions : l.dec = <<d>>
    BY <2>0, <2>1 DEF AtWork
  <2>3. Head(l.dec) \in Decisions /\ Tail(l.dec) = <<>>
    BY <2>2
  <2>4. /\ k \in LearnerType /\ k.round = Judged /\ k.next = hub.lid /\ k.cmd = <<>>
        /\ k.dec = <<>> /\ k.round = l.round
    BY <1>0, <2>0, <2>2, <2>3, DecTakenType DEF LearnerType
  <2>5. /\ replies' = replies
        /\ \/ Becomes(s, Stepped(k)) \/ Becomes(s, Passed(k))
           \/ Becomes(s, [k EXCEPT !.pc = "reducing", !.joined = k.round])
    BY <1>3, <2>3 DEF TakeDecision, Decisions
  <2> HIDE DEF k
  <2>6. CASE Becomes(s, Stepped(k))
    <3>1. learner'[s] = Stepped(k)
      BY <2>6, LearnerStepFrame
    <3>2. InTime(s)'
      BY <1>0, <2>0, <2>1, <2>4, <3>1, SteppedInTime
    <3> QED BY <1>0, <2>5, <2>6, <3>2, LearnerProtocol
  <2>7. CASE Becomes(s, Passed(k))
    <3>1. learner'[s] = Passed(k)
      BY <2>7, LearnerStepFrame
    <3>2. InTime(s)'
      BY <1>0, <2>0, <2>1, <2>4, <3>1, PassedInTime
    <3> QED BY <1>0, <2>5, <2>7, <3>2, LearnerProtocol
  <2>8. CASE Becomes(s, [k EXCEPT !.pc = "reducing", !.joined = k.round])
    <3>1. learner'[s] = [k EXCEPT !.pc = "reducing", !.joined = k.round]
      BY <2>8, LearnerStepFrame
    <3>2. /\ learner'[s].pc = "reducing" /\ learner'[s].dec = <<>> /\ learner'[s].round = Judged
          /\ learner'[s].next = hub.lid /\ learner'[s].cmd = <<>>
      BY <2>4, <3>1 DEF LearnerType
    <3>3. Judged' = Judged /\ hub' = hub
      BY <1>0 DEF Judged
    <3>4. InTime(s)'
      BY <2>1, <3>2, <3>3 DEF InTime, AtWork, Learning
    <3> QED BY <1>0, <2>5, <2>8, <3>4, LearnerProtocol
  <2> QED BY <2>5, <2>6, <2>7, <2>8
<1>4. CASE Reduced(s)
  <2>0. l.pc = "reducing" /\ Becomes(s, Stepped(l)) /\ replies' = replies
    BY <1>4 DEF Reduced
  <2>1. Learning /\ AtWork(s) /\ s \notin hub.heard
    BY <2>0, WorkFacts
  <2>2. l.next = hub.lid /\ l.cmd = <<>> /\ l.round = Judged /\ l.dec = <<>>
    BY <2>0, <2>1 DEF AtWork
  <2>3. learner'[s] = Stepped(l)
    BY <2>0, LearnerStepFrame
  <2>4. InTime(s)'
    BY <1>0, <2>0, <2>1, <2>2, <2>3, SteppedInTime
  <2> QED BY <1>0, <2>0, <2>4, LearnerProtocol
<1>5. CASE TimesOut(s)
  <2>0. l.pc = "reducing" /\ Fails(s, l) /\ \E t \in Shards : ~Live(learner[t])
    BY <1>5 DEF TimesOut
  <2>1. Learning
    BY <2>0, WorkFacts
  <2>2. faults # 0
    BY <2>0, <2>1 DEF Calm, AllStopped, Learning
  <2>3. faults' \in Nat /\ faults' > 0
    BY <1>0, <2>2, Constants DEF TypeOK
  <2> QED BY <1>0, <2>0, <2>3, FailsInTime, LearnerProtocol
<1>6. CASE Reports(s)
  <2>0. l.pc = "finished" /\ Becomes(s, [l EXCEPT !.pc = "idle"]) /\ Says(s, "trained", l)
    BY <1>6 DEF Reports
  <2>1. Learning /\ AtWork(s) /\ s \notin hub.heard /\ hub.pc = "trained"
    BY <2>0, WorkFacts
  <2>2. l.next = hub.lid /\ l.cmd = <<>> /\ l.dec = <<>>
    BY <2>0, <2>1 DEF AtWork
  <2>3. /\ learner'[s].pc = "idle" /\ learner'[s].dec = <<>> /\ learner'[s].w = l.w
        /\ learner'[s].next = hub.lid /\ learner'[s].cmd = <<>>
    BY <2>0, <2>2, LearnerStepFrame, LearnerIsARecord
  <2>4. Settled(s)'
    BY <1>0, <2>3 DEF Settled
  <2>5. InTime(s)'
    BY <1>0, <2>1, <2>4 DEF InTime, Learning
  <2>6. PICK m \in ReplyType : /\ Says1(s, m) /\ m.kind = "trained" /\ m.id = l.next - 1
                               /\ m.w = l.w
    BY <1>0, <2>0, SaysOne
  <2>7. ToThePoint(m)'
    BY <1>0, <2>1, <2>2, <2>3, <2>4, <2>6 DEF ToThePoint, Says1
  <2> QED BY <1>0, <2>0, <2>5, <2>6, <2>7, LearnerProtocol DEF Says1
<1>7. CASE LearnerErrs(s)
  <2>0. faults' > 0
    BY <1>0, <1>7 DEF LearnerErrs, Fault
  <2>1. PICK k \in LearnerType : Fails(s, k)
    <3>1. l.pc = "idle" => Accepted(l) \in LearnerType
      BY <1>0, <1>7, AcceptedType DEF LearnerErrs, Working
    <3> QED BY <1>0, <1>7, <3>1 DEF LearnerErrs
  <2> QED BY <1>0, <2>0, <2>1, FailsInTime, LearnerProtocol
<1>8. CASE LearnerPanics(s)
  <2>1. Becomes(s, Ended(l)) /\ replies' = replies
    BY <1>8 DEF LearnerPanics
  <2>2. learner'[s] = Ended(l) /\ Ended(l).pc = "dead"
    BY <1>0, <2>1, LearnerStepFrame DEF Ended, LearnerType
  <2>3. s \notin hub.heard
    BY AtItsTurn
  <2>4. InTime(s)'
    BY <1>0, <2>2, <2>3 DEF InTime, Live
  <2> QED BY <1>0, <2>1, <2>4, LearnerProtocol
<1> QED BY <1>1, <1>2, <1>3, <1>4, <1>5, <1>6, <1>7, <1>8 DEF LearnerStep

LEMMA ProtocolKept ==
    ASSUME TypeOK, TypeOK', Agenda, Versions, Protocol, Calm, [Next]_vars PROVE Protocol'
<1> SUFFICES ASSUME ~Trouble, ~Trouble' PROVE Protocol'
  BY TroubleStays DEF Protocol
<1>1. CASE HubStep \/ SaveFails
  BY <1>1, HubProtocol
<1>2. ASSUME NEW s \in Shards, LearnerStep(s) PROVE Protocol'
  BY <1>2, WorkProtocol
<1>3. ASSUME hub' = hub, learner' = learner, replies' = replies, faults' >= faults PROVE Protocol'
  <2>1. HubInTime'
    BY <1>3 DEF Protocol, HubInTime, Learning
  <2>2. ASSUME NEW s \in Shards PROVE InTime(s)'
    <3>1. InTime(s)
      BY DEF Protocol
    <3> QED BY <1>3, <3>1 DEF InTime, Learning, Ordered, AtWork, Judged, Settled, Live
  <2>3. faults \in Nat /\ faults' \in Nat
    BY Constants DEF TypeOK
  <2>4. ASSUME NEW i \in 1 .. Len(replies') PROVE ToThePoint(replies[i])'
    <3>1. ToThePoint(replies[i])
      BY <1>3 DEF Protocol
    <3> QED BY <1>3, <2>3, <3>1 DEF ToThePoint, Settled, Live
  <2> QED BY <1>3, <2>1, <2>2, <2>4 DEF Protocol
<1>4. ASSUME NEW s \in Shards, ActorStep(s) PROVE Protocol'
  BY <1>3, <1>4, WhatAnActorDoes DEF ActorDoes
<1>5. CASE EvalStep
  BY <1>3, <1>5, WhatTheEvalDoes DEF EvalDoes
<1>6. CASE UNCHANGED vars
  BY <1>3, <1>6, Idleness DEF vars
<1> QED BY <1>1, <1>2, <1>4, <1>5, <1>6, NextIs

-----------------------------------------------------------------------------
(* The replicas stay in harmony. *)

LEMMA StepsFacts ==
    ASSUME TypeOK, NEW s \in Shards
    PROVE  /\ learner[s].w \in SUBSET Steps /\ hub.update \in Nat
           /\ \A x \in Steps : x[1] \in Nat /\ x[2] \in 1 .. Rounds /\ x = <<x[1], x[2]>>
  BY LearnerTypes, HubFields, Constants DEF LearnerType, Steps

\* No optimizer step of an update to come is taken.
LEMMA NoneAhead ==
    ASSUME TypeOK, TypeOK', Agenda, Versions, Harmony, [Next]_vars, NEW s \in Shards, NEW x \in learner'[s].w
    PROVE  x[1] <= hub'.update
<1>1. hub'.update >= hub.update /\ hub.update \in Nat /\ hub'.update \in Nat
  <2>1. hub.update \in 0 .. Updates /\ hub'.update \in 0 .. Updates
    BY DEF TypeOK, HubType
  <2>2. hub'.update = hub.update \/ hub'.update = hub.update + 1
    BY HubGoesOn DEF HubGoes
  <2> QED BY <2>1, <2>2, Constants
<1>2. CASE x \in learner[s].w
  <2>1. x[1] <= hub.update /\ x[1] \in Nat
    BY <1>2, StepsFacts DEF Harmony
  <2> QED BY <1>1, <2>1
<1>3. CASE x = <<hub.update, learner[s].round>>
  BY <1>1, <1>3
<1> QED BY <1>2, <1>3, Growth

\* Between the trainings nothing moves but the update.
LEMMA QuietHarmony ==
    ASSUME TypeOK, Harmony, ~Trouble, ~Learning, ~Learning', hub'.snaps = hub.snaps,
           \A s \in Shards : learner'[s].w = learner[s].w,
           \/ hub'.update = hub.update + 1
           \/ /\ hub'.update = hub.update
              /\ hub'.pc \in {"prime", "top"} \/ hub'.lid = 1 => hub.pc \in {"prime", "top"} \/ hub.lid = 1
    PROVE  InUnison'
<1>1. InUnison /\ \A s \in Shards : \A x \in learner[s].w : x[1] <= hub.update
  BY DEF Harmony
<1>2. ASSUME hub'.pc \in {"prime", "top"} \/ hub'.lid = 1, NEW s \in Shards, NEW x \in learner'[s].w
      PROVE  x[1] < hub'.update
  <2>1. x \in learner[s].w /\ x[1] \in Nat /\ hub.update \in Nat /\ x[1] <= hub.update
    BY <1>1, StepsFacts
  <2> QED BY <1>1, <1>2, <2>1 DEF InUnison
<1>3. hub'.pc # "trained"
  BY DEF Learning
<1> QED BY <1>1, <1>2, <1>3 DEF InUnison

LEMMA SameForesight ==
    ASSUME NEW s \in Shards, learner'[s] = learner[s], hub'.update = hub.update
    PROVE  Known(s)' = Known(s) /\ Foreseen(s)' = Foreseen(s)
  BY DEF Known, Foreseen, ToCome
LEMMA GatherHarmony ==
    ASSUME TypeOK, TypeOK', Protocol, Harmony, ~Trouble, Gather PROVE InUnison'
<1>0. /\ InUnison /\ hub.pc = "gather" /\ Learning /\ Judged = hub.round - 1 /\ hub.round \in 1 .. Rounds
      /\ Rounds \in Nat /\ replies # <<>> /\ hub.lid # 1
      /\ Reply.kind = "gradient" /\ hub.update \in Nat
  BY HubFields, Constants DEF Gather, Waits, Fits, Harmony, Learning, Judged, Protocol, HubInTime
<1>1. hub'.update = hub.update /\ hub'.lid = hub.lid
  BY HubIsARecord DEF Gather
<1>2. CASE ~Everyone
  <2>1. learner' = learner /\ hub'.pc = "gather"
    BY <1>0, <1>2, HubIsARecord DEF Gather
  <2>2. \A s \in Shards : Known(s)' = Known(s) /\ Foreseen(s)' = Foreseen(s)
    BY <1>1, <2>1, SameForesight
  <2>3. \A s, t \in Shards : Agree(s, t) => Agree(s, t)'
    BY <1>1, <2>2 DEF Agree
  <2> QED BY <1>0, <1>1, <2>1, <2>2, <2>3 DEF InUnison, Learning, Live
<1>3. CASE Everyone
  <2> DEFINE d == Verdict(~hub.spoilt /\ Reply.finite)
  <2>1. /\ learner' = Decided(learner, d) /\ hub'.heard = {} /\ hub'.pc \in {"gather", "trained"}
    BY <1>0, <1>3, HubIsARecord DEF Gather
  <2> HIDE DEF d
  <2>2. ASSUME NEW s \in Shards
        PROVE  /\ learner[s].w \in SUBSET Steps
               /\ learner[s].pc = "waiting" /\ learner[s].dec = <<>> /\ learner[s].round = hub.round
               /\ learner'[s].pc = "waiting" /\ learner'[s].dec = <<d>>
               /\ learner'[s].round = hub.round /\ learner'[s].w = learner[s].w
    <3>1. s \in hub.heard \/ s = Reply.shard
      BY <1>3 DEF Everyone
    <3>2. Reply.shard \in Shards /\ learner[Reply.shard].pc = "waiting" /\ learner[Reply.shard].dec = <<>>
      BY <1>0, HearOne DEF ToThePoint
    <3>3. InTime(s)
      BY DEF Protocol
    <3>4. AtWork(s) /\ learner[s].pc = "waiting" /\ learner[s].dec = <<>>
      BY <1>0, <3>1, <3>2, <3>3 DEF InTime, Ordered, Settled, Live
    <3>5. learner[s].round = Judged + 1
      BY <3>4 DEF AtWork
    <3>6. learner'[s] = [learner[s] EXCEPT !.dec = Append(@, d)]
      BY <2>1, <3>4 DEF Decided, Live
    <3>7. /\ learner'[s].pc = "waiting" /\ learner'[s].dec = Append(<<>>, d)
          /\ learner'[s].round = learner[s].round /\ learner'[s].w = learner[s].w
      BY <3>4, <3>6, LearnerIsARecord
    <3>8. Append(<<>>, d) = <<d>>
      OBVIOUS
    <3> QED BY <1>0, <3>4, <3>5, <3>7, <3>8, StepsFacts
  <2> DEFINE step == <<hub.update, hub.round>>
             more == IF d # "discard" THEN {step} ELSE {}
  <2>3. ASSUME NEW s \in Shards
        PROVE  /\ Known(s) = hub.round - 1 /\ Foreseen(s) = learner[s].w
               /\ Known(s)' = hub.round /\ Foreseen(s)' = learner[s].w \cup more
    <3>1. Known(s) = hub.round - 1 /\ Foreseen(s) = learner[s].w
      BY <2>2 DEF Known, Foreseen, ToCome
    <3>3. <<d>> # <<>> /\ <<d>>[1] = d
      OBVIOUS
    <3>2. Known(s)' = hub.round
      <4>1. learner'[s].dec # <<>> /\ learner'[s].pc = "waiting" /\ learner'[s].round = hub.round
        BY <2>2, <3>3
      <4> QED BY <4>1 DEF Known
    <3>4. ToCome(s)' = more
      <4>1. learner'[s].dec # <<>> /\ learner'[s].dec[1] = d /\ learner'[s].pc = "waiting"
        BY <2>2, <3>3
      <4>2. CASE d = "discard"
        BY <4>1, <4>2 DEF ToCome
      <4>3. CASE d # "discard"
        BY <1>1, <2>2, <4>1, <4>3 DEF ToCome
      <4> QED BY <4>2, <4>3
    <3> QED BY <2>2, <3>1, <3>2, <3>4 DEF Foreseen
  <2>4. ASSUME NEW s \in Shards, NEW x \in learner[s].w, x[1] = hub.update
        PROVE  x[2] <= hub.round - 1
    BY <1>0, <2>2, <2>3, <2>4 DEF InUnison, Live
  <2>5. step[1] = hub.update /\ step[2] = hub.round
    OBVIOUS
  <2>6. ASSUME NEW s \in Shards, NEW t \in Shards PROVE Agree(s, t)'
    <3>1. ASSUME NEW x \in Steps, x[1] = hub.update => x[2] <= hub.round
          PROVE  x \in learner[s].w \cup more <=> x \in learner[t].w \cup more
      <4>0. x = <<x[1], x[2]>> /\ x[2] \in Nat
        BY StepsFacts
      <4>1. CASE x = step
        <5>1. x \notin learner[s].w /\ x \notin learner[t].w
          BY <1>0, <2>4, <2>5, <4>1
        <5> QED BY <5>1
      <4>2. CASE x # step
        <5>1. x[1] = hub.update => x[2] <= hub.round - 1
          BY <1>0, <3>1, <4>0, <4>2
        <5>2. Agree(s, t)
          BY <1>0, <2>2 DEF InUnison, Live
        <5>3. x \in learner[s].w <=> x \in learner[t].w
          BY <2>3, <5>1, <5>2 DEF Agree
        <5> QED BY <4>2, <5>3
      <4> QED BY <4>1, <4>2
    <3> QED BY <1>1, <2>3, <3>1 DEF Agree
  <2>7. ASSUME NEW s \in Shards, NEW x \in learner[s].w \cup more, x[1] = hub.update
        PROVE  x[2] <= hub.round
    <3>1. CASE x \in learner[s].w
      <4>1. x[2] <= hub.round - 1 /\ x[2] \in Nat
        BY <2>2, <2>4, <2>7, <3>1, StepsFacts
      <4> QED BY <1>0, <4>1
    <3>2. CASE x = step
      BY <1>0, <2>5, <3>2
    <3> QED BY <2>7, <3>1, <3>2
  <2>8. ASSUME NEW s \in Shards, NEW x \in Foreseen(s)', x[1] = hub'.update PROVE x[2] <= Known(s)'
    BY <1>1, <2>3, <2>7, <2>8
  <2> QED BY <1>0, <1>1, <2>1, <2>6, <2>8 DEF InUnison, Learning
<1> QED BY <1>2, <1>3

LEMMA TrainedHarmony ==
    ASSUME TypeOK, TypeOK', Protocol, Protocol', Harmony, ~Trouble, ~Trouble', Trained PROVE InUnison'
<1>0. /\ InUnison /\ hub.pc = "trained" /\ Learning /\ replies # <<>> /\ Reply.kind = "trained"
      /\ hub.lid # 1 /\ learner' = learner
  BY DEF Trained, Waits, Fits, Harmony, Learning, Protocol, HubInTime
<1>1. /\ hub'.update = hub.update /\ hub'.lid = hub.lid /\ hub'.heard = hub.heard \cup {Reply.shard}
      /\ hub'.pc = IF Everyone THEN "rollouts" ELSE "trained"
      /\ hub'.snaps = [hub.snaps EXCEPT ![Reply.shard] = Reply.w]
  BY <1>0, HubIsARecord DEF Trained
<1>2. Reply.shard \in Shards /\ Reply.w = learner[Reply.shard].w
  BY <1>0, HearOne DEF ToThePoint
<1>3. \A s \in hub.heard \cup {Reply.shard} : hub'.snaps[s] = learner[s].w
  BY <1>0, <1>1, <1>2, HubFields DEF InUnison
<1>4. CASE ~Everyone
  <2>1. hub'.pc = "trained" /\ learner' = learner
    BY <1>0, <1>1, <1>4
  <2>2. \A s \in Shards : Known(s)' = Known(s) /\ Foreseen(s)' = Foreseen(s)
    BY <1>1, <2>1, SameForesight
  <2>3. \A s, t \in Shards : Agree(s, t) => Agree(s, t)'
    BY <1>1, <2>2 DEF Agree
  <2> QED BY <1>0, <1>1, <1>3, <2>1, <2>2, <2>3 DEF InUnison, Learning, Live
<1>5. CASE Everyone
  <2>1. hub'.pc = "rollouts" /\ \A s \in Shards : hub'.snaps[s] = learner'[s].w
    BY <1>0, <1>1, <1>3, <1>5 DEF Everyone
  <2>2. ASSUME NEW s \in Shards PROVE learner[s].pc = "idle" /\ learner[s].cmd = <<>>
    <3>1. s \in hub.heard \/ s = Reply.shard
      BY <1>5 DEF Everyone
    <3>2. Settled(Reply.shard)
      BY <1>0, HearOne DEF ToThePoint
    <3>3. InTime(s) /\ hub.pc # "gather"
      BY <1>0 DEF Protocol
    <3>4. learner[s].round \in 0 .. Rounds /\ Judged = Rounds /\ Rounds \in Nat
      BY <1>0, LearnerTypes, Constants DEF LearnerType, Judged
    <3>5. AtWork(s) /\ learner[s].pc = "waiting" /\ learner[s].dec = <<>> => FALSE
      BY <3>4 DEF AtWork
    <3>6. Settled(s)
      BY <1>0, <3>1, <3>2, <3>3, <3>5 DEF InTime
    <3> QED BY <3>6 DEF Settled
  <2>3. ASSUME NEW s \in Shards, NEW t \in Shards PROVE learner[s].w = learner[t].w
    <3>1. Agree(s, t)
      BY <1>0, <2>2 DEF InUnison, Live
    <3>2. /\ Foreseen(s) = learner[s].w /\ Foreseen(t) = learner[t].w
          /\ Known(s) = Rounds /\ Known(t) = Rounds
      BY <2>2 DEF Foreseen, ToCome, Known
    <3>3. \A x \in Steps : x[2] <= Rounds
      BY StepsFacts
    <3>4. \A x \in Steps : x \in learner[s].w <=> x \in learner[t].w
      BY <3>1, <3>2, <3>3 DEF Agree
    <3> QED BY <3>4, StepsFacts
  <2> QED BY <1>0, <1>1, <2>1, <2>3 DEF InUnison, Learning
<1> QED BY <1>4, <1>5

LEMMA StartHarmony ==
    ASSUME TypeOK, Protocol, Protocol', Harmony, ~Trouble, ~Trouble', StartUpdate PROVE InUnison'
<1>0. /\ hub.pc = "top" /\ hub'.lid = hub.lid + 1 /\ hub'.pc = "gather" /\ hub'.update = hub.update
      /\ InUnison /\ ~Learning /\ hub'.lid # 1 /\ learner' = Told("train")
  BY HubIsARecord, HubFields DEF StartUpdate, Harmony, Learning
<1>1. ASSUME NEW s \in Shards PROVE learner'[s].w = learner[s].w
  BY <1>0, LearnerIsARecord DEF Told
<1>2. ASSUME NEW s \in Shards, Live(learner[s])' PROVE Foreseen(s)' = learner[s].w
  <2>1. Ordered(s, "train")'
    BY <1>0, <1>2, ToldInTime DEF Awaiting
  <2> QED BY <1>1, <2>1 DEF Ordered, Foreseen, ToCome
<1>3. ASSUME NEW s \in Shards, NEW t \in Shards, Live(learner[s])', Live(learner[t])' PROVE Agree(s, t)'
  <2>1. Foreseen(s)' = Foreseen(t)'
    BY <1>0, <1>2, <1>3 DEF InUnison
  <2> QED BY <2>1 DEF Agree
<1>4. ASSUME NEW s \in Shards, NEW x \in Foreseen(s)', Live(learner[s])', x[1] = hub'.update
      PROVE  x[2] <= Known(s)'
  <2>1. x \in learner[s].w /\ x[1] < hub.update
    BY <1>0, <1>2, <1>4 DEF InUnison
  <2> QED BY <1>0, <1>4, <2>1, StepsFacts
<1> QED BY <1>0, <1>3, <1>4 DEF InUnison, Learning

\* What a learner knows and will have does not change by its own steps: it carries out
\* what was decided.
LEMMA PassedKnows ==
    ASSUME TypeOK, NEW s \in Shards, NEW k \in LearnerType, learner'[s] = Passed(k), k.dec = <<>>
    PROVE  Known(s)' = k.round /\ Foreseen(s)' = k.w
<1>1. k.round \in 0 .. Rounds /\ Rounds \in Nat
  BY Constants DEF LearnerType
<1>2. CASE k.round < Rounds
  <2>1. /\ learner'[s].pc = "computing" /\ learner'[s].round = k.round + 1 /\ learner'[s].dec = <<>>
        /\ learner'[s].w = k.w
    BY <1>2 DEF Passed, LearnerType
  <2>2. Known(s)' = (k.round + 1) - 1
    BY <2>1 DEF Known
  <2> QED BY <1>1, <2>1, <2>2 DEF Foreseen, ToCome
<1>3. CASE k.round = Rounds
  <2>1. /\ learner'[s].pc = "finished" /\ learner'[s].w = k.w
    BY <1>1, <1>3 DEF Passed, LearnerType
  <2> QED BY <1>3, <2>1 DEF Known, Foreseen, ToCome
<1> QED BY <1>1, <1>2, <1>3
LEMMA SteppedKnows ==
    ASSUME TypeOK, NEW s \in Shards, NEW l \in LearnerType, learner'[s] = Stepped(l), l.dec = <<>>,
           hub.update < Updates, l.round > 0
    PROVE  Known(s)' = l.round /\ Foreseen(s)' = l.w \cup {<<hub.update, l.round>>}
<1>1. PICK k : k = [l EXCEPT !.w = @ \cup {<<hub.update, l.round>>}] /\ Stepped(l) = Passed(k)
  BY SteppedIs
<1>2. <<hub.update, l.round>> \in Steps
  <2>1. hub.update \in 0 .. Updates - 1
    BY Constants, HubFields
  <2>2. l.round \in 1 .. Rounds
    BY Constants DEF LearnerType
  <2> QED BY <2>1, <2>2 DEF Steps
<1>3. /\ k \in LearnerType /\ k.round = l.round /\ k.w = l.w \cup {<<hub.update, l.round>>}
      /\ k.dec = <<>>
  BY <1>1, <1>2 DEF LearnerType
<1> QED BY <1>1, <1>3, PassedKnows
LEMMA SameKnowledge ==
    ASSUME TypeOK, Versions, Protocol, ~Trouble, NEW s \in Shards, LearnerStep(s), Learning
    PROVE  ~Live(learner[s])' \/ (Known(s)' = Known(s) /\ Foreseen(s)' = Foreseen(s))
<1> DEFINE l == learner[s]
<1>0. /\ hub' = hub /\ l \in LearnerType
      /\ l.pc \in {"computing", "waiting", "reducing"} => l.round > 0 /\ hub.update < Updates
  BY WhatALearnerDoes, LearnerTypes DEF LearnerDoes, Versions, MayStep
<1>d. ASSUME NEW k \in LearnerType, Becomes(s, Ended(k)) PROVE ~Live(learner[s])'
  <2>1. learner'[s] = Ended(k) /\ Ended(k).pc = "dead"
    BY <1>d, LearnerStepFrame DEF Ended, LearnerType
  <2> QED BY <2>1 DEF Live
<1>1. CASE LearnerAccepts(s)
  <2> DEFINE a == Accepted(l)
  <2>0. /\ l.pc = "idle" /\ l.cmd # <<>> /\ l.dec = <<>>
        /\ l.cmd = <<[kind |-> "train", id |-> hub.lid - 1]>> /\ l.next = hub.lid - 1
    BY <1>1, AtItsTurn DEF LearnerAccepts, AtWork, Ordered, Learning
  <2>1. a \in LearnerType /\ a.w = l.w /\ a.dec = l.dec
    BY <1>0, <2>0, AcceptedType DEF Accepted, LearnerType
  <2>2. Head(l.cmd).id = l.next /\ Head(l.cmd).kind = "train"
    BY <2>0
  <2> HIDE DEF a
  <2>3. Becomes(s, [a EXCEPT !.pc = "computing", !.round = 1, !.joined = 0])
    BY <1>1, <2>2 DEF LearnerAccepts, a
  <2>4. learner'[s] = [a EXCEPT !.pc = "computing", !.round = 1, !.joined = 0]
    BY <2>3, LearnerStepFrame
  <2>5. learner'[s].pc = "computing" /\ learner'[s].round = 1 /\ learner'[s].w = l.w /\ learner'[s].dec = <<>>
    BY <2>0, <2>1, <2>4 DEF LearnerType
  <2>6. Known(s) = 0 /\ Known(s)' = 0
    BY <2>0, <2>5 DEF Known
  <2> QED BY <2>0, <2>5, <2>6 DEF Foreseen, ToCome
<1>2. CASE Offers(s)
  <2>0. /\ l.pc = "computing" /\ learner'[s] = [l EXCEPT !.pc = "waiting"]
    BY <1>2, LearnerStepFrame DEF Offers
  <2>1. l.dec = <<>>
    BY <2>0, WorkFacts DEF AtWork
  <2>2. learner'[s].pc = "waiting" /\ learner'[s].round = l.round /\ learner'[s].w = l.w /\ learner'[s].dec = <<>>
    BY <2>0, <2>1, LearnerIsARecord
  <2> QED BY <2>0, <2>1, <2>2 DEF Known, Foreseen, ToCome
<1>3. CASE TakeDecision(s)
  <2> DEFINE k == [l EXCEPT !.dec = Tail(@)]
  <2>0. l.pc = "waiting" /\ l.dec # <<>>
    BY <1>3 DEF TakeDecision
  <2>1. AtWork(s)
    BY <2>0, WorkFacts
  <2>2. PICK d \in Decisions : l.dec = <<d>>
    BY <2>0, <2>1 DEF AtWork
  <2>3. Head(l.dec) = d /\ Tail(l.dec) = <<>> /\ l.dec[1] = d
    BY <2>2
  <2>4. /\ k \in LearnerType /\ k.dec = <<>> /\ k.round = l.round /\ k.w = l.w
    BY <1>0, <2>0, <2>3, DecTakenType DEF LearnerType
  <2>5. \/ d = "apply" /\ Becomes(s, Stepped(k))
        \/ d = "discard" /\ Becomes(s, Passed(k))
        \/ d = "collective" /\ Becomes(s, [k EXCEPT !.pc = "reducing", !.joined = k.round])
    BY <1>3, <2>3 DEF TakeDecision, Decisions
  <2> HIDE DEF k
  <2>6. /\ Known(s) = l.round
        /\ d # "discard" => Foreseen(s) = l.w \cup {<<hub.update, l.round>>}
        /\ d = "discard" => Foreseen(s) = l.w
    BY <2>0, <2>3 DEF Known, Foreseen, ToCome
  <2>7. CASE d = "apply" /\ Becomes(s, Stepped(k))
    <3>1. learner'[s] = Stepped(k)
      BY <2>7, LearnerStepFrame
    <3> QED BY <1>0, <2>0, <2>4, <2>6, <2>7, <3>1, SteppedKnows
  <2>8. CASE d = "discard" /\ Becomes(s, Passed(k))
    <3>1. learner'[s] = Passed(k)
      BY <2>8, LearnerStepFrame
    <3> QED BY <1>0, <2>4, <2>6, <2>8, <3>1, PassedKnows
  <2>9. CASE d = "collective" /\ Becomes(s, [k EXCEPT !.pc = "reducing", !.joined = k.round])
    <3>1. learner'[s] = [k EXCEPT !.pc = "reducing", !.joined = k.round]
      BY <2>9, LearnerStepFrame
    <3>2. learner'[s].pc = "reducing" /\ learner'[s].round = l.round /\ learner'[s].w = l.w
      BY <2>4, <3>1 DEF LearnerType
    <3> QED BY <1>0, <2>6, <2>9, <3>2 DEF Known, Foreseen, ToCome
  <2> QED BY <2>5, <2>7, <2>8, <2>9
<1>4. CASE Reduced(s)
  <2>0. l.pc = "reducing" /\ learner'[s] = Stepped(l)
    BY <1>4, LearnerStepFrame DEF Reduced
  <2>1. l.dec = <<>>
    BY <2>0, WorkFacts DEF AtWork
  <2>2. Known(s) = l.round /\ Foreseen(s) = l.w \cup {<<hub.update, l.round>>}
    BY <2>0 DEF Known, Foreseen, ToCome
  <2> QED BY <1>0, <2>0, <2>1, <2>2, SteppedKnows
<1>5. CASE TimesOut(s)
  BY <1>0, <1>d, <1>5 DEF TimesOut, Fails
<1>6. CASE Reports(s)
  <2>0. l.pc = "finished" /\ learner'[s] = [l EXCEPT !.pc = "idle"]
    BY <1>6, LearnerStepFrame DEF Reports
  <2>1. l.cmd = <<>>
    BY <2>0, WorkFacts DEF AtWork
  <2>2. learner'[s].pc = "idle" /\ learner'[s].cmd = <<>> /\ learner'[s].w = l.w
    BY <2>0, <2>1, LearnerIsARecord
  <2> QED BY <2>0, <2>2 DEF Known, Foreseen, ToCome
<1>7. CASE LearnerErrs(s)
  <2>1. l.pc = "idle" => Accepted(l) \in LearnerType
    BY <1>0, <1>7, AcceptedType DEF LearnerErrs, Working
  <2> QED BY <1>0, <1>d, <1>7, <2>1 DEF LearnerErrs, Fails
<1>8. CASE LearnerPanics(s)
  BY <1>0, <1>d, <1>8 DEF LearnerPanics
<1> QED BY <1>1, <1>2, <1>3, <1>4, <1>5, <1>6, <1>7, <1>8 DEF LearnerStep

LEMMA WorkHarmony ==
    ASSUME TypeOK, TypeOK', Agenda, Versions, Protocol, Harmony, ~Trouble, NEW s \in Shards, LearnerStep(s)
    PROVE  InUnison'
<1>0. /\ hub' = hub /\ s \notin hub.heard /\ InUnison /\ hub.lid # 1
      /\ Learning' = Learning /\ LearnerGrows(s)
  <2>1. hub' = hub /\ InUnison
    BY HubAlone DEF Harmony
  <2>2. s \notin hub.heard /\ hub.pc \in Awaiting
    BY AtItsTurn DEF Learning, Awaiting
  <2>3. hub.lid # 1
    BY <2>2 DEF Protocol, HubInTime, Awaiting
  <2>4. LearnerGrows(s)
    BY HowALearnerGrows
  <2> QED BY <2>1, <2>2, <2>3, <2>4 DEF Learning
<1>1. CASE Learning
  <2>1. ASSUME NEW t \in Shards, Live(learner[t])'
        PROVE  Known(t)' = Known(t) /\ Foreseen(t)' = Foreseen(t) /\ Live(learner[t])
    <3>1. CASE t = s
      <4>1. Live(learner[s])
        BY DEF LearnerStep, LearnerAccepts, Offers, TakeDecision, Reduced, TimesOut, Reports, LearnerErrs,
           LearnerPanics, Working, Live
      <4> QED BY <1>1, <2>1, <3>1, <4>1, SameKnowledge
    <3>2. CASE t # s
      <4>1. learner'[t] = learner[t]
        BY <1>0, <3>2 DEF LearnerGrows
      <4> QED BY <1>0, <2>1, <4>1, SameForesight DEF Live
    <3> QED BY <3>1, <3>2
  <2>2. ASSUME NEW t \in Shards, NEW u \in Shards, Live(learner[t])', Live(learner[u])'
        PROVE  Agree(t, u)'
    <3>1. Agree(t, u)
      BY <1>0, <1>1, <2>1, <2>2 DEF InUnison
    <3> QED BY <1>0, <2>1, <2>2, <3>1 DEF Agree
  <2>3. ASSUME NEW t \in Shards, Live(learner[t])', NEW x \in Foreseen(t)', x[1] = hub'.update
        PROVE  x[2] <= Known(t)'
    BY <1>0, <1>1, <2>1, <2>3 DEF InUnison
  <2>4. hub'.pc = "trained" => \A t \in hub'.heard : hub'.snaps[t] = learner'[t].w
    <3>1. hub.heard \subseteq Shards
      BY HubFields
    <3> QED BY <1>0, <3>1 DEF InUnison, LearnerGrows
  <2>5. hub.pc \notin {"prime", "top"}
    BY <1>1 DEF Learning
  <2> QED BY <1>0, <1>1, <2>2, <2>3, <2>4, <2>5 DEF InUnison
<1>2. CASE ~Learning
  <2>1. learner[s].pc = "idle"
    BY <1>2, AtItsTurn DEF Ordered
  <2>2. \A t \in Shards : learner'[t].w = learner[t].w
    BY <1>0, <2>1 DEF LearnerGrows
  <2> QED BY <1>0, <1>2, <2>2, QuietHarmony
<1> QED BY <1>1, <1>2

LEMMA HubHarmony ==
    ASSUME TypeOK, TypeOK', Agenda, Protocol, Protocol', Harmony, ~Trouble, ~Trouble', HubStep \/ SaveFails
    PROVE  InUnison'
<1>0. hub.lid \in Nat \ {0} /\ \A s \in Shards : learner'[s].w = learner[s].w
  BY HubFields, WhatTheHubSends, HubLeaves
<1>1. CASE Prime
  <2>1. /\ hub.pc = "prime" /\ hub'.pc = "rollouts" /\ hub'.lid = hub.lid
        /\ hub'.snaps = hub.snaps /\ hub'.update = hub.update
    BY <1>1, HubIsARecord DEF Prime
  <2> QED BY <1>0, <2>1, QuietHarmony DEF Learning
<1>2. CASE LeaveLoop
  <2>1. /\ hub.pc = "top" /\ hub'.pc = "agenda" /\ hub'.lid = hub.lid
        /\ hub'.snaps = hub.snaps /\ hub'.update = hub.update
    BY <1>2, HubIsARecord DEF LeaveLoop
  <2> QED BY <1>0, <2>1, QuietHarmony DEF Learning
<1>3. CASE TakeRollout
  <2> DEFINE seen == [hub EXCEPT !.next = Taken, !.at = NextActor]
  <2>0. hub.pc = "rollouts"
    BY <1>3 DEF TakeRollout
  <2>1. /\ hub'.lid = hub.lid /\ hub'.pc \in {"rollouts", "top", "agenda"}
        /\ hub.lid # 1 => hub'.pc # "top"
        /\ hub'.snaps = hub.snaps /\ hub'.update = hub.update
    <3>1. CASE ~LastActor
      <4>1. hub' = seen
        BY <1>3, <3>1 DEF TakeRollout
      <4> QED BY <2>0, <4>1, HubIsARecord
    <3>2. CASE LastActor /\ hub.lid = 1
      <4>1. hub' = [seen EXCEPT !.pc = "top", !.pending = Taken]
        BY <1>3, <3>2 DEF TakeRollout
      <4> QED BY <3>2, <4>1, HubIsARecord
    <3>3. CASE LastActor /\ hub.lid # 1
      <4>1. PICK moves \in BOOLEAN : \E list \in Agendas(moves) :
            hub' = [seen EXCEPT !.pc = "agenda", !.pending = Taken,
                            !.agenda = list, !.stages = IF moves THEN @ + 1 ELSE @]
        BY <1>3, <3>3 DEF TakeRollout
      <4> QED BY <3>3, <4>1, HubIsARecord
    <3> QED BY <3>1, <3>2, <3>3
  <2> QED BY <1>0, <2>0, <2>1, QuietHarmony DEF Learning
<1>4. CASE NextUpdate
  <2>1. /\ hub.pc = "agenda" /\ hub'.pc = "top" /\ hub'.update = hub.update + 1
        /\ hub'.snaps = hub.snaps
    BY <1>4, HubIsARecord DEF NextUpdate
  <2> QED BY <1>0, <2>1, QuietHarmony DEF Learning
<1>5. CASE AskLearners \/ HearAck \/ AskActor \/ HearActor \/ Submit \/ EndEval \/ EvalEnded
  <2>1. hub.pc \in {"agenda", "acks", "answer", "evalEnd"}
    BY <1>5 DEF AskLearners, HearAck, AskActor, HearActor, Submit, EndEval, EvalEnded, Doing, Waits
  <2>2. /\ hub'.pc \in {"agenda", "acks", "answer", "evalEnd", "done"}
        /\ hub'.lid \in {hub.lid, hub.lid + 1} /\ hub'.snaps = hub.snaps /\ hub'.update = hub.update
    BY <1>5, <2>1, HubIsARecord DEF AskLearners, HearAck, AskActor, HearActor, Submit, EndEval, EvalEnded
  <2>3. hub'.lid = 1 => hub.lid = 1
    BY <1>0, <2>2
  <2> QED BY <1>0, <2>1, <2>2, <2>3, QuietHarmony DEF Learning
<1>6. CASE CannotStart \/ BadRollout \/ BadAck \/ SaveFails \/ BadAnswer \/ EvalLost
  <2>1. hub' = [hub EXCEPT !.pc = "dropEval"]
    BY <1>6 DEF CannotStart, BadRollout, BadAck, SaveFails, BadAnswer, EvalLost, Fail
  <2> QED BY <2>1, HubIsARecord DEF Trouble, Failing
<1>7. CASE BadPacket \/ BadResult \/ LearnerLost
  <2>1. hub' = [hub EXCEPT !.pc = "dropEval"] \/ hub' = [hub EXCEPT !.pc = "rollouts", !.at = 1, !.err = TRUE]
    BY <1>7 DEF BadPacket, BadResult, LearnerLost, Fail, TrainingFailed
  <2> QED BY <2>1, HubIsARecord DEF Trouble, Failing
<1>8. CASE DropEval \/ JoinEval \/ DropLearners \/ JoinLearners \/ DropActor \/ JoinActor
  BY <1>8 DEF DropEval, JoinEval, DropLearners, JoinLearners, DropActor, JoinActor, Goes, Trouble, Failing
<1> QED BY <1>1, <1>2, <1>3, <1>4, <1>5, <1>6, <1>7, <1>8, StartHarmony, GatherHarmony, TrainedHarmony
       DEF HubStep

LEMMA HarmonyKept ==
    ASSUME TypeOK, TypeOK', Agenda, Versions, Protocol, Protocol', Harmony, [Next]_vars PROVE Harmony'
<1>1. \A s \in Shards : \A x \in learner'[s].w : x[1] <= hub'.update
  BY NoneAhead
<1> SUFFICES ASSUME ~Trouble, ~Trouble' PROVE InUnison'
  BY <1>1, TroubleStays DEF Harmony
<1>2. CASE HubStep \/ SaveFails
  BY <1>2, HubHarmony
<1>3. ASSUME NEW s \in Shards, LearnerStep(s) PROVE InUnison'
  BY <1>3, WorkHarmony
<1>4. ASSUME hub' = hub, learner' = learner PROVE InUnison'
  <2>1. \A s \in Shards : Known(s)' = Known(s) /\ Foreseen(s)' = Foreseen(s)
    BY <1>4, SameForesight
  <2>2. \A s, t \in Shards : Agree(s, t) => Agree(s, t)'
    BY <1>4, <2>1 DEF Agree
  <2>3. InUnison
    BY DEF Harmony
  <2> QED BY <1>4, <2>1, <2>2, <2>3 DEF InUnison, Learning, Live
<1>5. (\E s \in Shards : ActorStep(s)) \/ EvalStep \/ UNCHANGED vars => hub' = hub /\ learner' = learner
  BY WhatAnActorDoes, WhatTheEvalDoes DEF ActorDoes, EvalDoes, vars
<1> QED BY <1>2, <1>3, <1>4, <1>5, NextIs

-----------------------------------------------------------------------------
(* As long as nothing breaks down: where the hub's good steps take it. *)

LEMMA FirstFacts ==
    ASSUME TypeOK, Agenda, hub.agenda # <<>>
    PROVE  /\ Head(hub.agenda) = hub.agenda[1] /\ OnAgenda(hub.agenda[1])
           /\ hub.agenda[1] = "dismiss" => hub.agenda = <<"dismiss">>
           /\ hub.agenda[1] = "eval" => ~Ends
           /\ hub.agenda[1] \in {"stop", "endEval"} => Ends
<1>1. hub.agenda \in Seq(Items) /\ Orderly(hub.agenda)
  BY HubFields DEF Agenda
<1>2. Listed(hub.agenda, hub.agenda[1]) /\ Head(hub.agenda) = hub.agenda[1] /\ Len(hub.agenda) \in Nat \ {0}
  BY <1>1, TailListed, TailFacts
<1>3. 1 \in 1 .. Len(hub.agenda)
  BY <1>2
<1> QED BY <1>1, <1>2, <1>3, TailOrderly DEF Orderly, OnAgenda, Ends
LEMMA ShrinkFacts ==
    ASSUME TypeOK, Agenda, hub.agenda # <<>>, hub'.agenda = Tail(hub.agenda)
    PROVE  /\ \A x : OnAgenda(x)' => OnAgenda(x)
           /\ \A x : OnAgenda(x) => x = hub.agenda[1] \/ OnAgenda(x)'
           /\ \A x \in {"refresh", "endEval"} : hub.agenda[1] = x => ~OnAgenda(x)'
           /\ hub.agenda[1] = "stop" => hub'.agenda = <<"dismiss">>
<1>1. hub.agenda \in Seq(Items) /\ Orderly(hub.agenda)
  BY HubFields DEF Agenda
<1>2. ASSUME NEW x PROVE OnAgenda(x)' <=> Listed(Tail(hub.agenda), x)
  BY DEF OnAgenda, Listed
<1>3. ASSUME NEW x PROVE /\ OnAgenda(x)' => OnAgenda(x)
                         /\ OnAgenda(x) => x = hub.agenda[1] \/ OnAgenda(x)'
  BY <1>1, <1>2, TailListed DEF OnAgenda
<1>4. ASSUME NEW x \in {"refresh", "endEval"}, hub.agenda[1] = x PROVE ~OnAgenda(x)'
  BY <1>1, <1>2, <1>4, TailOrderly
<1> QED BY <1>1, <1>3, <1>4, TailOrderly

\* What each good step of the hub makes of its locals.
Stays == /\ hub'.at = hub.at /\ hub'.aid = hub.aid
         /\ hub'.pending = hub.pending /\ hub'.next = hub.next
LEMMA TrainingFields ==
    ASSUME TypeOK
    PROVE  /\ Prime => /\ hub'.pc = "rollouts" /\ hub'.aid = NextIds(Shards) /\ hub'.at = hub.at
                       /\ hub'.agenda = hub.agenda /\ hub'.update = hub.update /\ hub'.err = hub.err
                       /\ hub'.flight = hub.flight
           /\ StartUpdate => /\ hub'.pc = "gather" /\ hub'.aid = NextIds(Shards) /\ hub'.at = hub.at
                             /\ hub'.agenda = hub.agenda /\ hub'.update = hub.update /\ hub'.err = hub.err
                             /\ hub'.flight = IF eval.result = "ok" THEN NoFlight ELSE hub.flight
           /\ LeaveLoop => /\ hub'.pc = "agenda" /\ Stays /\ hub'.update = hub.update /\ hub'.err = hub.err
                           /\ hub'.flight = hub.flight
                           /\ hub'.agenda = <<"endEval", "save", "save", "stop", "dismiss">>
           /\ Gather => /\ hub'.pc \in {"gather", "trained"} /\ Stays /\ hub'.update = hub.update
                        /\ hub'.err = hub.err /\ hub'.agenda = hub.agenda /\ hub'.flight = hub.flight
           /\ Trained => /\ hub'.pc \in {"trained", "rollouts"} /\ hub'.at = 1 /\ hub'.aid = hub.aid
                         /\ hub'.update = hub.update /\ hub'.agenda = hub.agenda
                         /\ hub'.err = hub.err /\ hub'.flight = hub.flight
           /\ NextUpdate => /\ hub'.pc = "top" /\ Stays /\ hub'.update = hub.update + 1
                            /\ hub'.err = hub.err /\ hub'.agenda = hub.agenda /\ hub'.flight = hub.flight
  BY HubIsARecord DEF Prime, StartUpdate, LeaveLoop, Gather, Trained, NextUpdate, Stays, Waits
LEMMA AgendaFields ==
    ASSUME TypeOK
    PROVE  /\ AskLearners => /\ hub'.pc = "acks" /\ Stays /\ hub'.update = hub.update
                             /\ hub'.err = hub.err /\ hub'.agenda = hub.agenda /\ hub'.flight = hub.flight
           /\ HearAck => /\ hub'.err = hub.err /\ Stays /\ hub'.update = hub.update /\ hub'.flight = hub.flight
                         /\ IF Everyone THEN hub'.pc = "agenda" /\ hub'.agenda = Tail(hub.agenda)
                                        ELSE hub'.pc = "acks" /\ hub'.agenda = hub.agenda
           /\ AskActor => /\ hub'.pc = "answer" /\ hub'.at = hub.at /\ hub'.aid = NextIds({hub.at})
                          /\ hub'.pending = hub.pending /\ hub'.next = hub.next /\ hub'.update = hub.update
                          /\ hub'.err = hub.err /\ hub'.agenda = hub.agenda /\ hub'.flight = hub.flight
           /\ HearActor => /\ hub'.at = NextActor /\ hub'.aid = hub.aid /\ hub'.pending = hub.pending
                           /\ hub'.update = hub.update /\ hub'.err = hub.err /\ hub'.flight = hub.flight
                           /\ hub'.agenda = (IF LastActor THEN Tail(hub.agenda) ELSE hub.agenda)
                           /\ hub'.pc = IF LastActor /\ hub.agenda = <<"dismiss">> THEN "done" ELSE "agenda"
           /\ Submit => /\ hub'.pc = "agenda" /\ Stays /\ hub'.update = hub.update /\ hub'.err = hub.err
                        /\ hub'.agenda = Tail(hub.agenda)
                        /\ hub'.flight = IF hub.flight = NoFlight THEN hub.update ELSE hub.flight
           /\ EndEval => /\ hub'.pc = "evalEnd" /\ Stays /\ hub'.update = hub.update
                         /\ hub'.err = hub.err /\ hub'.agenda = hub.agenda /\ hub'.flight = hub.flight
           /\ EvalEnded => /\ hub'.pc = "agenda" /\ Stays /\ hub'.update = hub.update /\ hub'.err = hub.err
                           /\ hub'.agenda = Tail(hub.agenda) /\ hub'.flight = NoFlight
  BY HubIsARecord DEF AskLearners, HearAck, AskActor, HearActor, Submit, EndEval, EvalEnded, Stays, Waits, Doing
LEMMA TakeFields ==
    ASSUME TypeOK, TakeRollout
    PROVE  /\ hub'.at = NextActor /\ hub'.next = Taken /\ hub'.aid = hub.aid /\ hub'.update = hub.update
           /\ hub'.err = hub.err /\ hub'.flight = hub.flight
           /\ \/ ~LastActor /\ hub'.pc = "rollouts" /\ hub'.agenda = hub.agenda
              \/ /\ LastActor /\ hub'.pending = Taken /\ Valid(Taken, hub.update)
                 /\ \/ hub.lid = 1 /\ hub'.pc = "top" /\ hub'.agenda = hub.agenda
                    \/ hub'.pc = "agenda" /\ \E moves \in BOOLEAN : hub'.agenda \in Agendas(moves)
<1>1. CASE ~LastActor
  BY <1>1, HubIsARecord DEF TakeRollout
<1>2. CASE LastActor /\ hub.lid = 1
  BY <1>2, HubIsARecord DEF TakeRollout
<1>3. CASE LastActor /\ hub.lid # 1
  BY <1>3, HubIsARecord DEF TakeRollout
<1> QED BY <1>1, <1>2, <1>3

GoodStep == \/ Prime \/ StartUpdate \/ LeaveLoop \/ Gather \/ Trained \/ TakeRollout \/ NextUpdate
            \/ AskLearners \/ HearAck \/ AskActor \/ HearActor \/ Submit \/ EndEval \/ EvalEnded
LEMMA NoBadReply ==
    ASSUME TypeOK, Protocol, Calm, faults = 0 PROVE ~(BadPacket \/ BadResult \/ BadAck)
<1>1. ASSUME hub.pc \in Awaiting, replies # <<>>
      PROVE  \/ hub.pc = "gather" /\ Fits("gradient")
             \/ hub.pc = "trained" /\ Fits("trained")
             \/ hub.pc = "acks" /\ Fits("ack")
  <2>1. ToThePoint(Reply)
    BY <1>1, HearOne DEF Calm
  <2> QED BY <1>1, <2>1 DEF ToThePoint, Fits
<1> QED BY <1>1 DEF BadPacket, BadResult, BadAck, Waits, Awaiting
LEMMA NoBadLearner ==
    ASSUME TypeOK, Agenda, Calm, faults = 0 PROVE ~LearnerLost
<1> SUFFICES ASSUME LearnerLost PROVE FALSE
  OBVIOUS
<1>1. AllStopped
  BY DEF LearnerLost, Calm
<1>2. hub.pc = "acks" /\ hub.agenda[1] = "stop" /\ hub.agenda # <<>>
  BY <1>1 DEF LearnerLost, AllStopped, Agenda
<1> QED BY <1>2, FirstFacts DEF LearnerLost
LEMMA NoBadActor ==
    ASSUME TypeOK, Agenda, Calm, faults = 0 PROVE ~BadRollout /\ ~BadAnswer
<1> DEFINE a == actor[hub.at]
<1>n. hub.at \in Shards /\ hub.at \in Nat /\ NumShards \in Nat
  BY Constants, HubFields DEF Shards
<1>1. ActorInTime(hub.at) /\ UpToDate(hub.at) /\ ~Trouble
  BY <1>n DEF Calm
<1>2. ASSUME BadRollout PROVE FALSE
  <2>1. hub.pc = "rollouts" /\ Owes(hub.at)
    BY <1>n, <1>1, <1>2 DEF BadRollout, ActorInTime, Hired
  <2>2. a.out = <<>> \/ Answered("collected")
    BY <2>1 DEF Owes, Charged, Replied, Answered, Answer
  <2>3. Live(a)
    BY <2>1 DEF Owes, Charged, Live
  <2>4. Answered("collected") /\ LastActor /\ ~Valid(Taken, hub.update)
    BY <1>1, <1>2, <2>2, <2>3 DEF BadRollout, Answered, Trouble
  <2>5. Owes(hub.at) /\ actor[hub.at].out # <<>>
    BY <2>1, <2>4 DEF Answered
  <2>6. actor[hub.at].out[1].version = hub.update
    BY <1>1, <2>1, <2>5 DEF Owes, Charged, UpToDate
  <2>7. \A s \in Shards : Taken[s].version = hub.update
    <3> TAKE s \in Shards
    <3>1. hub.next \in Rollouts
      BY HubFields
    <3>2. CASE s = hub.at
      BY <1>n, <2>6, <3>1, <3>2 DEF Taken, Answer, Rollouts
    <3>3. CASE s # hub.at
      <4>1. s < hub.at
        BY <2>4, <3>3, <1>n DEF LastActor, Shards
      <4>2. hub.next[s].version = hub.update
        BY <2>1, <4>1 DEF Calm, UpToDate
      <4> QED BY <3>1, <3>3, <4>2 DEF Taken, Rollouts
    <3> QED BY <3>2, <3>3
  <2> QED BY <2>4, <2>7 DEF Valid
<1>3. ASSUME BadAnswer PROVE FALSE
  <2>1. /\ hub.pc = "answer"
        /\ Charged(hub.at, hub.agenda[1]) \/ Obeyed(hub.at)
    BY <1>1, <1>3 DEF BadAnswer, ActorInTime, Asking
  <2>2. CASE Charged(hub.at, hub.agenda[1])
    BY <1>3, <2>2 DEF BadAnswer, Charged, Live
  <2>3. CASE Obeyed(hub.at)
    <3>1. Answered("ack")
      <4>1. actor[hub.at].out # <<>>
        BY <2>3, EmptySeq, LenProperties DEF Obeyed, Replied
      <4> QED BY <2>3, <4>1 DEF Obeyed, Replied, Answered, Answer
    <3> QED BY <1>3, <3>1 DEF BadAnswer
  <2> QED BY <2>1, <2>2, <2>3
<1> QED BY <1>2, <1>3
LEMMA OnlyGood ==
    ASSUME TypeOK, Agenda, Protocol, Calm, faults = 0, faults' = 0, HubStep \/ SaveFails
    PROVE  GoodStep
<1>1. ~Trouble /\ EvalInTime
  BY DEF Calm
<1>2. ~CannotStart
  <2>1. SUFFICES ASSUME CannotStart PROVE FALSE
    OBVIOUS
  <2>2. hub.pc = "top"
    BY <2>1 DEF CannotStart
  <2>3. ~PollFails
    BY <1>1, <2>2 DEF EvalInTime, PollFails
  <2>4. Valid(hub.pending, Expected)
    BY <2>2 DEF Calm, UpToDate, Valid
  <2> QED BY <2>1, <2>3, <2>4 DEF CannotStart
<1>3. ~EvalLost
  BY <1>1 DEF EvalLost, EvalInTime, PollFails, Live
<1>4. ~SaveFails
  BY DEF SaveFails, Fault
<1>5. ~(DropEval \/ JoinEval \/ DropLearners \/ JoinLearners \/ DropActor \/ JoinActor)
  BY <1>1 DEF Trouble, Failing, DropEval, JoinEval, DropLearners, JoinLearners, DropActor, JoinActor, Goes
<1> QED BY <1>2, <1>3, <1>4, <1>5, NoBadReply, NoBadLearner, NoBadActor DEF HubStep, GoodStep

-----------------------------------------------------------------------------
(* As long as nothing breaks down: the evaluation. *)

\* While the agenda stays, and where the hub does not end the evaluation.
LEMMA EvalWaits ==
    ASSUME EvalInTime, eval' = eval, hub'.flight = hub.flight, hub'.agenda = hub.agenda,
           \/ hub.pc \in {"agenda", "acks", "answer"} /\ hub'.pc \in {"agenda", "acks", "answer"}
           \/ hub.pc \notin {"agenda", "acks", "answer", "evalEnd", "done"}
           \/ hub'.pc \in {"evalEnd", "done"}
           \/ hub.pc = "agenda" /\ hub.agenda = <<>>
    PROVE  EvalInTime'
<1>1. \A x : OnAgenda(x)' <=> OnAgenda(x)
  BY DEF OnAgenda, Listed
<1>2. Ends' <=> Ends
  BY <1>1 DEF Ends
<1>3. hub.agenda = <<>> => ~Ends
  BY LenProperties, EmptySeq DEF Ends, OnAgenda, Listed
<1>4. /\ eval'.result # "err" /\ (eval'.cmd = "run" => Live(eval)')
      /\ hub'.flight # NoFlight /\ eval'.result = "none" => eval'.cmd = "run" \/ eval'.pc = "running"
  BY DEF EvalInTime, Live
<1>5. (~Live(eval) \/ eval.cmd = "stop")' => ~Live(eval) \/ eval.cmd = "stop"
  BY DEF Live
<1>6. (~Live(eval) \/ eval.cmd = "stop")' =>
          \/ hub'.pc \in {"evalEnd", "done"}
          \/ hub'.pc \in {"agenda", "acks", "answer"} /\ Ends' /\ ~OnAgenda("endEval")'
  BY <1>1, <1>2, <1>3, <1>5 DEF EvalInTime
<1> QED BY <1>4, <1>6 DEF EvalInTime
\* When the first item is done.
LEMMA EvalGoesOn ==
    ASSUME TypeOK, Agenda, EvalInTime, hub.agenda # <<>>, hub'.agenda = Tail(hub.agenda),
           eval' = eval, hub'.flight = hub.flight, hub.pc \in {"agenda", "acks", "answer"},
           IF hub.agenda[1] = "dismiss" THEN hub'.pc = "done" ELSE hub'.pc = "agenda"
    PROVE  EvalInTime'
<1>1. /\ OnAgenda("endEval")' => OnAgenda("endEval")
      /\ Ends => hub.agenda[1] = "dismiss" \/ Ends'
  BY ShrinkFacts DEF Ends
<1> QED BY <1>1 DEF EvalInTime, Live
LEMMA EvalCalm ==
    ASSUME TypeOK, Agenda, EvalInTime, GoodStep PROVE EvalInTime'
<1>1. CASE Prime \/ LeaveLoop \/ Gather \/ Trained \/ NextUpdate
  <2>1. eval' = eval /\ hub'.flight = hub.flight
    BY <1>1, TrainingFields DEF Prime, LeaveLoop, Gather, Trained, NextUpdate
  <2>2. CASE LeaveLoop
    BY <2>1, <2>2, TrainingFields DEF LeaveLoop, EvalInTime, Live
  <2>3. CASE ~LeaveLoop
    BY <1>1, <2>1, <2>3, TrainingFields, EvalWaits DEF Prime, Gather, Trained, NextUpdate, Waits
  <2> QED BY <2>2, <2>3
<1>2. CASE StartUpdate
  <2>1. eval \in EvalType
    BY DEF TypeOK
  <2>2. /\ eval'.result = "none" /\ eval'.cmd = eval.cmd /\ eval'.pc = eval.pc
        /\ hub.pc = "top" /\ ~PollFails
    BY <1>2, <2>1 DEF StartUpdate, EvalType
  <2> QED BY <1>2, <2>1, <2>2, TrainingFields DEF EvalInTime, PollFails, Live, EvalType
<1>3. CASE TakeRollout
  <2>1. eval' = eval /\ hub.pc = "rollouts"
    BY <1>3 DEF TakeRollout
  <2> QED BY <1>3, <2>1, TakeFields DEF EvalInTime, Live
<1>4. CASE AskLearners \/ AskActor
  BY <1>4, AgendaFields, EvalWaits DEF AskLearners, AskActor, Doing
<1>5. CASE HearAck
  <2>1. hub.pc = "acks" /\ eval' = eval /\ hub.agenda # <<>> /\ hub.agenda[1] \in {"save", "stop"}
    BY <1>5 DEF HearAck, Waits, Agenda
  <2>2. CASE Everyone
    BY <1>5, <2>1, <2>2, AgendaFields, EvalGoesOn
  <2>3. CASE ~Everyone
    BY <1>5, <2>1, <2>3, AgendaFields, EvalWaits
  <2> QED BY <2>2, <2>3
<1>6. CASE HearActor
  <2>1. hub.pc = "answer" /\ eval' = eval /\ hub.agenda # <<>>
    BY <1>6 DEF HearActor, Agenda
  <2>2. CASE LastActor
    <3>1. hub.agenda = <<"dismiss">> <=> hub.agenda[1] = "dismiss"
      BY <2>1, FirstFacts
    <3> QED BY <1>6, <2>1, <2>2, <3>1, AgendaFields, EvalGoesOn
  <2>3. CASE ~LastActor
    BY <1>6, <2>1, <2>3, AgendaFields, EvalWaits
  <2> QED BY <2>2, <2>3
<1>7. CASE Submit
  <2>1. eval \in EvalType
    BY DEF TypeOK
  <2>2. hub.pc = "agenda" /\ hub.agenda # <<>> /\ ~Ends
    BY <1>7, FirstFacts DEF Submit, Doing
  <2>3. Live(eval)
    BY <2>2 DEF EvalInTime
  <2>4. /\ eval'.result = eval.result /\ eval'.pc = eval.pc
        /\ eval'.cmd = IF hub.flight = NoFlight THEN "run" ELSE eval.cmd
    BY <1>7, <2>1 DEF Submit, EvalType
  <2>5. eval.cmd # "stop"
    BY <2>2 DEF EvalInTime
  <2> QED BY <1>7, <2>1, <2>2, <2>3, <2>4, <2>5, AgendaFields DEF EvalInTime, Live, EvalType
<1>8. CASE EndEval
  <2>1. eval \in EvalType
    BY DEF TypeOK
  <2>2. hub.pc = "agenda" /\ hub.agenda # <<>> /\ hub.agenda[1] = "endEval" /\ OnAgenda("endEval")
    BY <1>8, FirstFacts DEF EndEval, Doing
  <2>3. Live(eval) /\ eval.cmd = "none"
    BY <1>8, <2>2 DEF EvalInTime, EndEval, StopEval
  <2>4. eval'.result = eval.result /\ eval'.pc = eval.pc /\ eval'.cmd = "stop"
    BY <1>8, <2>1 DEF EndEval, StopEval, EvalType
  <2> QED BY <1>8, <2>2, <2>3, <2>4, AgendaFields DEF EvalInTime, Live
<1>9. CASE EvalEnded
  <2>1. eval \in EvalType
    BY DEF TypeOK
  <2>2. hub.pc = "evalEnd" /\ hub.agenda # <<>> /\ hub.agenda[1] = "endEval" /\ ~Live(eval)
    BY <1>9 DEF EvalEnded, Agenda
  <2>3. ~OnAgenda("endEval")' /\ Ends'
    BY <1>9, <2>2, AgendaFields, ShrinkFacts, FirstFacts DEF Ends
  <2>4. eval'.result = "none" /\ eval'.pc = eval.pc /\ eval'.cmd = eval.cmd
    BY <1>9, <2>1 DEF EvalEnded, EvalType
  <2> QED BY <1>9, <2>2, <2>3, <2>4, AgendaFields DEF EvalInTime, Live
<1> QED BY <1>1, <1>2, <1>3, <1>4, <1>5, <1>6, <1>7, <1>8, <1>9 DEF GoodStep
LEMMA EvalAlone ==
    ASSUME TypeOK, EvalInTime, EvalTakes \/ EvalReports PROVE EvalInTime'
<1>1. eval \in EvalType /\ hub' = hub
  BY DEF TypeOK, EvalTakes, EvalReports
<1>2. (\A x : OnAgenda(x)' <=> OnAgenda(x)) /\ (Ends' <=> Ends)
  BY <1>1 DEF OnAgenda, Ends, Listed
<1>3. CASE EvalTakes
  <2>1. /\ eval'.cmd = "none" /\ eval'.result = eval.result /\ eval.pc = "idle" /\ eval.cmd \in {"run", "stop"}
        /\ eval'.pc = IF eval.cmd = "run" THEN "running" ELSE "dead"
    BY <1>1, <1>3 DEF EvalTakes, EvalType
  <2> QED BY <1>1, <1>2, <2>1 DEF EvalInTime, Live
<1>4. CASE EvalReports
  <2>1. eval'.cmd = eval.cmd /\ eval'.result = "ok" /\ eval'.pc = "idle" /\ eval.pc = "running"
    BY <1>1, <1>4 DEF EvalReports, EvalType
  <2> QED BY <1>1, <1>2, <2>1 DEF EvalInTime, Live
<1> QED BY <1>3, <1>4

-----------------------------------------------------------------------------
(* As long as nothing breaks down: the learners and the actors. *)

\* A learner ends only because it is stopped.
LEMMA LearnerCalm ==
    ASSUME TypeOK, Versions, Protocol, Calm, faults = 0, faults' = 0, NEW s \in Shards, LearnerStep(s),
           Live(learner[s])
    PROVE  Live(learner[s])' \/ AllStopped
<1>n. ~Trouble /\ learner[s] \in LearnerType
  BY LearnerTypes DEF Calm
<1>1. CASE LearnerAccepts(s)
  <2> DEFINE l == Accepted(learner[s])
             c == Head(learner[s].cmd)
  <2>1. learner[s].pc = "idle" /\ learner[s].cmd # <<>>
    BY <1>1 DEF LearnerAccepts
  <2>2. PICK kind : Ordered(s, kind) /\ (kind = "train" \/ (hub.pc = "acks" /\ kind = Head(hub.agenda)))
    BY <1>n, <2>1, AtItsTurn DEF AtWork
  <2>3. c.kind = kind /\ c.id = learner[s].next
    BY <2>2 DEF Ordered
  <2>4. l.pc = "idle"
    BY <1>n, <2>1 DEF Accepted, LearnerType
  <2>5. CASE kind = "stop"
    <3>1. hub.pc = "acks" /\ hub.agenda # <<>> /\ Head(hub.agenda) = "stop"
      BY <1>n, <2>2, <2>5 DEF Protocol, HubInTime
    <3>2. Head(hub.agenda) = hub.agenda[1]
      BY <3>1, HubFields, TailFacts
    <3> QED BY <3>1, <3>2 DEF AllStopped
  <2>6. CASE kind # "stop"
    <3>1. \/ Becomes(s, [l EXCEPT !.pc = "computing", !.round = 1, !.joined = 0])
          \/ Becomes(s, l)
      BY <1>1, <2>3, <2>6 DEF LearnerAccepts
    <3>2. l \in LearnerType
      BY <1>n, <2>1, AcceptedType
    <3>3. [l EXCEPT !.pc = "computing", !.round = 1, !.joined = 0].pc = "computing"
      BY <3>2 DEF LearnerType
    <3>4. learner'[s].pc # "dead"
      BY <2>4, <3>1, <3>3, LearnerStepFrame
    <3> QED BY <3>4 DEF Live
  <2> QED BY <2>5, <2>6
<1>2. CASE Offers(s) \/ Reports(s)
  <2>1. \E pc \in {"waiting", "idle"} : Becomes(s, [learner[s] EXCEPT !.pc = pc])
    BY <1>2 DEF Offers, Reports
  <2>2. \A pc : [learner[s] EXCEPT !.pc = pc].pc = pc
    BY <1>n DEF LearnerType
  <2> QED BY <2>1, <2>2, LearnerStepFrame DEF Live
<1>3. ASSUME NEW l \in LearnerType, l.pc # "dead" PROVE Passed(l).pc # "dead" /\ Stepped(l).pc # "dead"
  <2>1. PICK k : k = [l EXCEPT !.w = @ \cup {<<hub.update, l.round>>}] /\ Stepped(l) = Passed(k)
    BY SteppedIs
  <2>2. k.pc = l.pc /\ k.round = l.round /\ k = [k EXCEPT !.pc = k.pc]
    BY <2>1 DEF LearnerType
  <2>3. Passed(l).pc # "dead"
    BY <1>3 DEF Passed, LearnerType
  <2>4. Passed(k).pc # "dead"
    BY <1>3, <2>1 DEF Passed, LearnerType
  <2> QED BY <2>1, <2>3, <2>4
<1>4. CASE TakeDecision(s)
  <2> DEFINE l == [learner[s] EXCEPT !.dec = Tail(@)]
  <2>1. learner[s].pc = "waiting" /\ learner[s].dec # <<>>
    BY <1>4 DEF TakeDecision
  <2>2. \E d \in Decisions : learner[s].dec = <<d>>
    BY <1>n, <2>1, WorkFacts DEF AtWork
  <2>3. Head(learner[s].dec) # "abort"
    BY <2>2 DEF Decisions
  <2>4. l \in LearnerType /\ l.pc = "waiting"
    BY <1>n, <2>1, DecTakenType DEF LearnerType
  <2>5. \/ Becomes(s, Stepped(l)) \/ Becomes(s, Passed(l))
        \/ Becomes(s, [l EXCEPT !.pc = "reducing", !.joined = l.round])
    BY <1>4, <2>3 DEF TakeDecision
  <2>6. [l EXCEPT !.pc = "reducing", !.joined = l.round].pc = "reducing"
    BY <2>4 DEF LearnerType
  <2> HIDE DEF l
  <2> QED BY <1>3, <2>4, <2>5, <2>6, LearnerStepFrame DEF Live
<1>5. CASE Reduced(s)
  BY <1>n, <1>3, <1>5, LearnerStepFrame DEF Reduced, Live
<1>6. ~TimesOut(s)
  <2>1. SUFFICES ASSUME TimesOut(s) PROVE FALSE
    OBVIOUS
  <2>2. Learning
    BY <1>n, <2>1, WorkFacts DEF TimesOut
  <2>3. AllStopped
    BY <2>1 DEF TimesOut, Calm
  <2> QED BY <2>2, <2>3 DEF Learning, AllStopped
<1>7. ~LearnerErrs(s) /\ ~LearnerPanics(s)
  BY DEF LearnerErrs, LearnerPanics, Fault
<1> QED BY <1>1, <1>2, <1>4, <1>5, <1>6, <1>7 DEF LearnerStep

\* What an actor answers to what it was asked.
LEMMA AnswersOnce ==
    ASSUME NEW a \in ActorType, NEW kind \in {"collected", "ack", "failed"}, a.out = <<>>
    PROVE  /\ Answers(a, kind) \in ActorType
           /\ Len(Answers(a, kind).out) = 1 /\ Answers(a, kind).out # <<>>
           /\ Answers(a, kind).out[1].kind = kind
           /\ Answers(a, kind).out[1].id = a.next - 1
           /\ kind = "collected" => Answers(a, kind).out[1].version = a.version
<1>1. Len(a.out) = 0
  BY EmptySeq
<1>2. Len(Answers(a, kind).out) = 1 /\ 1 \in 1 .. Len(a.out) + 1 /\ 1 \notin 1 .. Len(a.out)
  <2>1. Len(Answers(a, kind).out) = Len(a.out) + 1
    BY HowAnActorAnswers
  <2> QED BY <1>1, <2>1
<1>3. Answers(a, kind).out # <<>>
  BY <1>2, EmptySeq
<1>4. /\ Answers(a, kind).out[1].kind = kind
      /\ Answers(a, kind).out[1].id = a.next - 1
      /\ kind = "collected" => Answers(a, kind).out[1].version = a.version
  BY <1>2, HowAnActorAnswers
<1> QED BY <1>2, <1>3, <1>4, AnswersType
LEMMA CollectorCalm ==
    ASSUME TypeOK, Calm, faults = 0, faults' = 0, NEW s \in Shards,
           Collects(s) \/ NoticesLoss(s) \/ \E e \in Envs : EnvSteps(s, e)
    PROVE  (ActorInTime(s) /\ UpToDate(s))'
<1>1. actor[s] \in ActorType /\ hub' = hub /\ actor[s].pc = "collecting"
  BY ActorTypes DEF Collects, NoticesLoss, EnvSteps, Busy, Collecting
<1>2. ActorInTime(s) /\ UpToDate(s)
  BY DEF Calm
<1>3. /\ ~Asking(s) /\ ~Retired(s) /\ Hired(s) /\ actor[s].lost = {}
      /\ actor[s].next = hub.aid[s] /\ actor[s].cmd = <<>> /\ actor[s].out = <<>>
  BY <1>1, <1>2 DEF ActorInTime, Charged, Obeyed, Gone, Free, Owes, Live, Replied
<1>4. /\ actor'[s].lost = actor[s].lost /\ actor'[s].version = actor[s].version
      /\ Owes(s)'
  <2>1. CASE Collects(s)
    <3> DEFINE a == [actor[s] EXCEPT !.pc = "idle"]
    <3>1. a \in ActorType /\ a.out = <<>> /\ a.next = hub.aid[s] /\ a.cmd = <<>> /\ a.pc = "idle"
          /\ a.lost = actor[s].lost /\ a.version = actor[s].version
      BY <1>1, <1>3 DEF ActorType
    <3> HIDE DEF a
    <3>2. actor'[s] = Answers(a, "collected")
      BY <2>1 DEF Collects, Acts, TypeOK, a
    <3>3. Replied(s, "collected")'
      BY <1>1, <3>1, <3>2, AnswersOnce, HowAnActorAnswers DEF Replied
    <3>4. /\ actor'[s].out[1].version = actor'[s].version /\ actor'[s].pc = "idle"
          /\ actor'[s].lost = actor[s].lost /\ actor'[s].version = actor[s].version
      BY <3>1, <3>2, AnswersOnce, HowAnActorAnswers
    <3> QED BY <3>3, <3>4 DEF Owes
  <2>2. CASE NoticesLoss(s)
    BY <1>3, <2>2 DEF NoticesLoss
  <2>3. CASE \E e \in Envs : EnvSteps(s, e)
    <3>1. PICK e \in Envs : actor'[s] = [actor[s] EXCEPT !.left[e] = @ - 1]
      BY <2>3 DEF EnvSteps, Acts, TypeOK
    <3>2. /\ actor'[s].pc = actor[s].pc /\ actor'[s].next = actor[s].next /\ actor'[s].cmd = actor[s].cmd
          /\ actor'[s].out = actor[s].out /\ actor'[s].lost = actor[s].lost
          /\ actor'[s].version = actor[s].version
      BY <3>1, ActorIsARecord
    <3> QED BY <1>1, <1>3, <3>2 DEF Owes
  <2> QED BY <2>1, <2>2, <2>3
<1>5. ActorInTime(s)'
  BY <1>1, <1>3, <1>4 DEF ActorInTime, Hired, Asking, Retired, Learning, Dismissing
<1>6. UpToDate(s)'
  <2>1. hub.pc \in {"gather", "trained", "rollouts"}
    BY <1>3 DEF Hired, Learning
  <2> QED BY <1>1, <1>2, <1>4, <2>1 DEF UpToDate, Expected
<1> QED BY <1>5, <1>6
LEMMA AcceptsCalm ==
    ASSUME TypeOK, Agenda, Calm, faults = 0, NEW s \in Shards, ActorAccepts(s)
    PROVE  (ActorInTime(s) /\ UpToDate(s))'
<1> DEFINE a == Begun(actor[s])
           c == Head(actor[s].cmd)
<1>1. /\ actor[s] \in ActorType /\ actor[s].cmd \in Seq(OrderType) /\ hub' = hub
      /\ actor[s].pc = "idle" /\ actor[s].cmd # <<>>
  BY ActorTypes DEF ActorAccepts
<1>2. ActorInTime(s) /\ UpToDate(s)
  BY DEF Calm
<1>3. PICK kind : /\ Charged(s, kind) /\ actor[s].lost = {} /\ ~Retired(s)
                  /\ \/ kind = "collect" /\ Hired(s)
                     \/ Asking(s) /\ kind = hub.agenda[1] /\ kind \in {"stage", "refresh", "dismiss"}
  <2>1. Asking(s) => hub.agenda[1] \in {"stage", "refresh", "dismiss"}
    BY DEF Asking, Agenda
  <2>2. ~Free(s) /\ ~Gone(s) /\ ~Obeyed(s)
    BY <1>1 DEF Free, Gone, Obeyed, Replied, Live
  <2>3. ~(Hired(s) /\ Owes(s)) \/ Charged(s, "collect")
    BY <1>1 DEF Owes, Replied
  <2> QED BY <1>2, <2>1, <2>2, <2>3 DEF ActorInTime
<1>4. ~(Hired(s) /\ Asking(s))
  BY DEF Hired, Asking, Learning
<1>5. /\ c = actor[s].cmd[1] /\ c.kind = kind /\ c.id = actor[s].next
      /\ Len(actor[s].cmd) = 1 /\ Tail(actor[s].cmd) = <<>>
      /\ actor[s].out = <<>> /\ actor[s].next = hub.aid[s] - 1
  <2>1. c = actor[s].cmd[1] /\ Len(Tail(actor[s].cmd)) = Len(actor[s].cmd) - 1 /\ Tail(actor[s].cmd) \in Seq(OrderType)
    BY <1>1, TailFacts
  <2>2. Tail(actor[s].cmd) = <<>>
    <3>1. Len(Tail(actor[s].cmd)) = 0
      BY <1>3, <2>1 DEF Charged
    <3> QED BY <2>1, <3>1, EmptySeq
  <2> QED BY <1>3, <2>1, <2>2 DEF Charged
<1>6. /\ a \in ActorType /\ a.version = actor[s].version /\ a.cmd = <<>> /\ a.pc = "idle" /\ a.out = <<>>
      /\ a.next = hub.aid[s] /\ a.lost = {}
  <2>1. actor[s].next + 1 = hub.aid[s]
    BY <1>5, HubFields
  <2> QED BY <1>1, <1>3, <1>5, <2>1, BegunType, HowAnActorBegins
<1>7. ASSUME kind = "refresh" PROVE c.version = hub.update + 1 /\ actor[s].version = hub.update
  <2>1. hub.pc = "answer" /\ s = hub.at /\ hub.agenda # <<>> /\ hub.agenda[1] = "refresh"
    BY <1>3, <1>7 DEF Asking, Agenda
  <2>2. OnAgenda("refresh")
    BY <2>1, FirstFacts
  <2>3. ~Refreshed(s)
    <3>1. ~(s < hub.at)
      BY <2>1, HubFields DEF Shards
    <3> QED BY <1>5, <2>1, <2>2, <3>1 DEF Refreshed
  <2> QED BY <1>2, <1>3, <1>5, <1>7, <2>1, <2>2, <2>3, HubFields DEF UpToDate
<1>8. ~Stale(actor[s], c)
  BY <1>5, <1>7, HubFields DEF Stale
<1> HIDE DEF a, c
<1>9. CASE kind = "collect"
  <2> DEFINE b == [a EXCEPT !.pc = "collecting", !.left = [e \in Envs |-> RolloutLen]]
  <2>1. Acts(s, b)
    BY <1>1, <1>5, <1>8, <1>9 DEF ActorAccepts, a, c
  <2>2. b.pc = "collecting" /\ b.next = a.next /\ b.cmd = a.cmd /\ b.out = a.out /\ b.lost = a.lost /\ b.version = a.version
    BY <1>6 DEF ActorType
  <2> HIDE DEF b
  <2>3. actor'[s] = b
    BY <2>1 DEF Acts, TypeOK
  <2>4. ActorInTime(s)'
    <3>1. Owes(s)' /\ actor'[s].lost = {}
      BY <1>1, <1>6, <2>2, <2>3 DEF Owes
    <3>2. Hired(s)' /\ ~Asking(s)' /\ ~Retired(s)'
      BY <1>1, <1>3, <1>4, <1>9 DEF Hired, Asking, Retired, Learning, Dismissing
    <3> QED BY <3>1, <3>2 DEF ActorInTime
  <2>5. UpToDate(s)'
    <3>1. hub.pc \in {"gather", "trained", "rollouts"}
      BY <1>3, <1>9 DEF Hired, Learning
    <3> QED BY <1>1, <1>2, <1>6, <2>2, <2>3, <3>1 DEF UpToDate, Expected
  <2> QED BY <2>4, <2>5
<1>10. CASE kind # "collect"
  <2> DEFINE v == IF kind = "refresh" THEN c.version ELSE actor[s].version
  <2>1. \E b \in ActorType :
           /\ b.version = v /\ b.pc = "idle" /\ b.cmd = <<>> /\ b.out = <<>> /\ b.next = a.next /\ b.lost = {}
           /\ IF kind = "dismiss" THEN Acts(s, Closed(Answers(b, "ack"))) ELSE Acts(s, Answers(b, "ack"))
    <3>1. CASE kind = "refresh"
      <4> DEFINE b == [a EXCEPT !.version = c.version, !.w = c.w]
      <4>1. c \in OrderType
        BY <1>1, ActorTypes DEF c
      <4>2. b \in ActorType /\ b.version = v /\ b.pc = a.pc /\ b.cmd = a.cmd /\ b.out = a.out /\ b.next = a.next /\ b.lost = a.lost
        BY <1>6, <3>1, <4>1 DEF ActorType, OrderType
      <4>3. Acts(s, Answers(b, "ack"))
        BY <1>1, <1>5, <1>8, <3>1 DEF ActorAccepts, a, c
      <4> HIDE DEF b
      <4> QED BY <1>6, <3>1, <4>2, <4>3
    <3>2. CASE kind # "refresh"
      <4>1. IF kind = "dismiss" THEN Acts(s, Closed(Answers(a, "ack"))) ELSE Acts(s, Answers(a, "ack"))
        BY <1>1, <1>3, <1>5, <1>8, <1>10, <3>2 DEF ActorAccepts, a, c
      <4> QED BY <1>6, <3>2, <4>1
    <3> QED BY <3>1, <3>2
  <2>2. PICK b \in ActorType :
           /\ b.version = v /\ b.pc = "idle" /\ b.cmd = <<>> /\ b.out = <<>> /\ b.next = a.next /\ b.lost = {}
           /\ IF kind = "dismiss" THEN Acts(s, Closed(Answers(b, "ack"))) ELSE Acts(s, Answers(b, "ack"))
    BY <2>1
  <2>3. /\ actor'[s].version = v /\ actor'[s].cmd = <<>> /\ actor'[s].next = a.next /\ actor'[s].lost = {}
        /\ actor'[s].pc = IF kind = "dismiss" THEN "dead" ELSE "idle"
        /\ actor'[s].out = Answers(b, "ack").out
    <3>1. Answers(b, "ack") \in ActorType
      BY AnswersType
    <3>2. CASE kind = "dismiss"
      <4>1. actor'[s] = Closed(Answers(b, "ack"))
        BY <2>2, <3>2 DEF Acts, TypeOK
      <4> QED BY <2>2, <3>1, <3>2, <4>1, HowAnActorCloses, HowAnActorAnswers
    <3>3. CASE kind # "dismiss"
      <4>1. actor'[s] = Answers(b, "ack")
        BY <2>2, <3>3 DEF Acts, TypeOK
      <4> QED BY <2>2, <3>3, <4>1, HowAnActorAnswers
    <3> QED BY <3>2, <3>3
  <2>4. /\ Len(actor'[s].out) = 1 /\ actor'[s].out # <<>> /\ actor'[s].out[1].kind = "ack"
        /\ actor'[s].out[1].id = hub.aid[s] - 1
    BY <1>6, <2>2, <2>3, AnswersOnce
  <2>5. hub.pc = "answer" /\ s = hub.at /\ kind = hub.agenda[1] /\ hub.agenda # <<>>
    BY <1>3, <1>10 DEF Asking, Agenda
  <2>6. ActorInTime(s)'
    <3>1. Obeyed(s)'
      BY <1>1, <1>6, <2>3, <2>4, <2>5 DEF Obeyed, Replied, Dismissing
    <3>2. ~Hired(s)' /\ Asking(s)' /\ ~Retired(s)'
      BY <1>1, <1>3, <1>4, <1>10 DEF Hired, Asking, Retired, Learning, Dismissing
    <3> QED BY <2>3, <3>1, <3>2 DEF ActorInTime
  <2>7. UpToDate(s)'
    <3>1. \A x : OnAgenda(x)' <=> OnAgenda(x)
      BY <1>1 DEF OnAgenda, Listed
    <3>2. /\ OnAgenda("refresh")' <=> OnAgenda("refresh")
          /\ Ends' <=> Ends
      BY <3>1 DEF Ends
    <3>3. ~Charged(s, "refresh")'
      BY <2>4 DEF Charged
    <3>4. CASE kind = "refresh"
      <4>1. OnAgenda("refresh") /\ Refreshed(s)'
        BY <1>1, <2>4, <2>5, <3>2, <3>4, FirstFacts DEF Refreshed
      <4> QED BY <1>1, <1>2, <1>7, <2>3, <2>5, <3>2, <3>3, <3>4, <4>1 DEF UpToDate
    <3>5. CASE kind # "refresh"
      <4>1. Refreshed(s)' <=> Refreshed(s)
        BY <1>1, <2>5, <3>2, <3>5 DEF Refreshed
      <4> QED BY <1>1, <1>2, <2>3, <2>5, <3>2, <3>3, <3>5, <4>1 DEF UpToDate
    <3> QED BY <3>4, <3>5
  <2> QED BY <2>6, <2>7
<1> QED BY <1>9, <1>10

-----------------------------------------------------------------------------
(* As long as nothing breaks down: the hub and the actors. *)

LEMMA SameCalm ==
    ASSUME NEW s \in Shards, hub' = hub, actor'[s] = actor[s], ActorInTime(s), UpToDate(s)
    PROVE  (ActorInTime(s) /\ UpToDate(s))'
<1>1. (\A x : OnAgenda(x)' <=> OnAgenda(x)) /\ (Ends' <=> Ends)
  BY DEF OnAgenda, Ends, Listed
<1>2. Refreshed(s)' <=> Refreshed(s)
  BY <1>1 DEF Refreshed
<1>3. ActorInTime(s)'
  <2>1. /\ Hired(s)' <=> Hired(s)
        /\ Asking(s)' <=> Asking(s)
        /\ Retired(s)' <=> Retired(s)
        /\ Dismissing' <=> Dismissing
    BY DEF Hired, Asking, Retired, Dismissing, Learning
  <2>2. \A kind : (Charged(s, kind)' <=> Charged(s, kind)) /\ (Replied(s, kind)' <=> Replied(s, kind))
    BY DEF Charged, Replied
  <2>3. Obeyed(s) => Obeyed(s)'
    BY <2>1, <2>2 DEF Obeyed
  <2>4. (Free(s) => Free(s)') /\ (Gone(s) => Gone(s)') /\ (Owes(s) => Owes(s)')
    BY <2>2 DEF Free, Gone, Owes, Live
  <2>5. Charged(s, hub.agenda[1]) => Charged(s, hub.agenda[1])'
    BY DEF Charged
  <2> QED BY <2>1, <2>3, <2>4, <2>5 DEF ActorInTime
<1>4. UpToDate(s)'
  BY <1>1, <1>2 DEF UpToDate, Expected, Charged
<1> QED BY <1>3, <1>4

\* Only the rollouts and the actors' items of the agenda move the hub from the first actor.
LEMMA AtFirst ==
    ASSUME TypeOK, Agenda, Calm, faults = 0
    PROVE  /\ hub.pc \in {"prime", "top", "gather", "trained", "acks", "evalEnd", "done"} => hub.at = 1
           /\ hub.pc = "agenda" /\ (hub.agenda = <<>> \/ hub.agenda[1] \notin {"stage", "refresh", "dismiss"})
                 => hub.at = 1
  BY DEF Calm, Placed
LEMMA QuietActors ==
    ASSUME TypeOK, Calm, faults = 0, NEW s \in Shards, actor' = actor, hub'.aid = hub.aid,
           hub.at = 1, hub'.at = 1,
           hub.pc \in {"top", "agenda", "acks", "evalEnd"}, hub'.pc \in {"top", "agenda", "acks", "evalEnd"}
    PROVE  ActorInTime(s)'
<1>1. ~(s < 1)
  BY DEF Shards
<1>2. ~Hired(s) /\ ~Asking(s) /\ ~Retired(s) /\ ~Hired(s)' /\ ~Asking(s)' /\ ~Retired(s)'
  BY <1>1 DEF Hired, Asking, Retired, Learning
<1>3. ActorInTime(s)
  BY DEF Calm
<1>4. Free(s)' /\ actor'[s].lost = {}
  BY <1>2, <1>3 DEF ActorInTime, Free
<1> QED BY <1>2, <1>4 DEF ActorInTime
LEMMA QuietVersions ==
    ASSUME TypeOK, Calm, faults = 0, NEW s \in Shards, actor'[s].version = actor[s].version,
           hub'.update = hub.update, hub'.pending = hub.pending, hub.at = 1, hub'.at = 1,
           hub.pc \in {"agenda", "acks", "evalEnd"}, hub'.pc \in {"agenda", "acks", "evalEnd"},
           OnAgenda("refresh")' <=> OnAgenda("refresh"), Ends' <=> Ends
    PROVE  UpToDate(s)'
<1>1. ~(s < 1)
  BY DEF Shards
<1>2. Refreshed(s)' <=> Refreshed(s)
  BY <1>1 DEF Refreshed
<1>3. UpToDate(s)
  BY DEF Calm
<1> QED BY <1>2, <1>3 DEF UpToDate
LEMMA QuietCalm ==
    ASSUME TypeOK, Agenda, Calm, faults = 0, NEW s \in Shards,
           LeaveLoop \/ NextUpdate \/ AskLearners \/ HearAck \/ Submit \/ EndEval \/ EvalEnded
    PROVE  hub'.at = 1 /\ (ActorInTime(s) /\ UpToDate(s))'
<1>1. /\ actor' = actor /\ hub.at = 1 /\ hub'.at = 1 /\ hub'.aid = hub.aid /\ hub'.pending = hub.pending
      /\ hub.pc \in {"top", "agenda", "acks", "evalEnd"} /\ hub'.pc \in {"top", "agenda", "acks", "evalEnd"}
  <2>1. /\ actor' = actor
        /\ \/ hub.pc \in {"top", "acks", "evalEnd"}
           \/ hub.pc = "agenda" /\ (hub.agenda = <<>> \/ hub.agenda[1] \notin {"stage", "refresh", "dismiss"})
    BY FirstFacts DEF LeaveLoop, NextUpdate, AskLearners, HearAck, Submit, EndEval, EvalEnded, Doing, Waits
  <2>2. hub.at = 1
    BY <2>1, AtFirst
  <2>3. Stays /\ hub'.pc \in {"top", "agenda", "acks", "evalEnd"}
    BY TrainingFields, AgendaFields
  <2> QED BY <2>1, <2>2, <2>3 DEF Stays
<1>2. ActorInTime(s)'
  BY <1>1, QuietActors
<1>3. UpToDate(s)
  BY DEF Calm
<1>4. UpToDate(s)'
  <2>1. CASE LeaveLoop
    <3> DEFINE list == <<"endEval", "save", "save", "stop", "dismiss">>
    <3>1. hub'.agenda = list /\ hub'.pc = "agenda"
      BY <2>1, TrainingFields
    <3>2. Len(list) = 5 /\ list[5] = "dismiss" /\ \A i \in 1 .. 5 : list[i] # "refresh"
      OBVIOUS
    <3> HIDE DEF list
    <3>3. Ends' /\ ~OnAgenda("refresh")'
      BY <3>1, <3>2 DEF Ends, OnAgenda, Listed
    <3> QED BY <3>1, <3>3 DEF UpToDate
  <2>2. CASE NextUpdate
    <3>1. hub.pc = "agenda" /\ hub.agenda = <<>> /\ hub'.pc = "top" /\ hub'.update = hub.update + 1
      BY <2>2, TrainingFields DEF NextUpdate
    <3>2. ~OnAgenda("refresh") /\ ~Ends
      BY <3>1, EmptySeq DEF Ends, OnAgenda, Listed
    <3>3. actor[s].version = hub.update + 1 /\ hub.pending[s].version = hub.update
      BY <1>3, <3>1, <3>2 DEF UpToDate, Refreshed
    <3> QED BY <1>1, <3>1, <3>3, HubFields DEF UpToDate, Expected
  <2>3. CASE AskLearners \/ EndEval \/ (HearAck /\ ~Everyone)
    <3>1. /\ hub.pc \in {"agenda", "acks"} /\ hub'.pc \in {"acks", "evalEnd"} /\ hub'.agenda = hub.agenda
          /\ hub'.update = hub.update
      BY <2>3, AgendaFields DEF AskLearners, EndEval, HearAck, Doing, Waits
    <3>2. (\A x : OnAgenda(x)' <=> OnAgenda(x)) /\ (Ends' <=> Ends)
      BY <3>1 DEF OnAgenda, Ends, Listed
    <3> QED BY <1>1, <3>1, <3>2, QuietVersions
  <2>4. CASE Submit \/ EvalEnded \/ (HearAck /\ Everyone)
    <3>1. /\ hub.pc \in {"agenda", "acks", "evalEnd"} /\ hub'.pc = "agenda"
          /\ hub.agenda # <<>> /\ hub'.agenda = Tail(hub.agenda) /\ hub'.update = hub.update
          /\ hub.agenda[1] \in {"eval", "endEval", "save", "stop"}
      BY <2>4, AgendaFields, FirstFacts DEF Submit, EvalEnded, HearAck, Doing, Waits, Agenda
    <3>2. (OnAgenda("refresh")' <=> OnAgenda("refresh")) /\ (Ends' <=> Ends)
      BY <3>1, ShrinkFacts DEF Ends
    <3> QED BY <1>1, <3>1, <3>2, QuietVersions
  <2> QED BY <2>1, <2>2, <2>3, <2>4
<1> QED BY <1>1, <1>2, <1>4

\* An actor that is free when it is asked is charged with what it is asked.
LEMMA AskedIs ==
    ASSUME TypeOK, NEW who, NEW kind \in {"collect", "refresh", "stage", "dismiss"}, NEW s \in who,
           s \in Shards, actor' = Asked(who, kind), hub'.aid = NextIds(who), hub'.update = hub.update,
           kind = "refresh" => hub.update < Updates,
           Free(s), actor[s].lost = {}
    PROVE  /\ Charged(s, kind)' /\ actor'[s].lost = {} /\ actor'[s].version = actor[s].version
           /\ actor'[s].out = <<>>
           /\ kind = "refresh" => actor'[s].cmd[1].version = hub.update + 1
<1> DEFINE c == [kind |-> kind, id |-> hub.aid[s],
                 version |-> IF kind = "refresh" THEN hub.update + 1 ELSE 0,
                 w |-> IF kind = "refresh" THEN hub.snaps[s] ELSE {}]
<1>1. actor[s].pc = "idle" /\ actor[s].cmd = <<>> /\ actor[s].out = <<>> /\ actor[s].next = hub.aid[s]
  BY DEF Free
<1>2. actor'[s] = [actor[s] EXCEPT !.cmd = Append(@, c)]
  BY <1>1 DEF Asked, Live
<1>3. c.kind = kind /\ c.id = hub.aid[s] /\ (kind = "refresh" => c.version = hub.update + 1)
  OBVIOUS
<1> HIDE DEF c
<1>4. Append(<<>>, c) = <<c>>
  OBVIOUS
<1>5. /\ actor'[s].cmd = <<c>> /\ actor'[s].pc = "idle" /\ actor'[s].next = hub.aid[s]
      /\ actor'[s].out = <<>> /\ actor'[s].lost = {} /\ actor'[s].version = actor[s].version
  BY <1>1, <1>2, <1>4, ActorIsARecord
<1>6. Len(<<c>>) = 1 /\ <<c>>[1] = c
  OBVIOUS
<1>7. hub'.aid[s] - 1 = hub.aid[s]
  BY HubFields DEF NextIds
<1> QED BY <1>3, <1>5, <1>6, <1>7 DEF Charged
LEMMA CollectCalm ==
    ASSUME TypeOK, Agenda, Calm, faults = 0, NEW s \in Shards, Prime \/ StartUpdate
    PROVE  hub'.at = 1 /\ (ActorInTime(s) /\ UpToDate(s))'
<1>1. /\ hub.pc \in {"prime", "top"} /\ hub'.pc \in {"rollouts", "gather"} /\ hub'.aid = NextIds(Shards)
      /\ actor' = Asked(Shards, "collect") /\ hub'.update = hub.update /\ hub'.at = 1
  BY TrainingFields, AtFirst DEF Prime, StartUpdate
<1>2. ActorInTime(s) /\ UpToDate(s)
  BY DEF Calm
<1>3. Free(s) /\ actor[s].lost = {}
  BY <1>1, <1>2 DEF ActorInTime, Hired, Asking, Retired, Learning
<1>4. Charged(s, "collect")' /\ actor'[s].lost = {} /\ actor'[s].version = actor[s].version
  BY <1>1, <1>3, AskedIs
<1>5. ActorInTime(s)'
  <2>1. ~(s < 1)
    BY DEF Shards
  <2>2. Hired(s)' /\ ~Asking(s)' /\ ~Retired(s)'
    BY <1>1, <2>1 DEF Hired, Asking, Retired, Learning
  <2>3. Owes(s)'
    BY <1>4 DEF Owes
  <2> QED BY <1>4, <2>2, <2>3 DEF ActorInTime
<1>6. UpToDate(s)'
  <2>1. ~(s < 1)
    BY DEF Shards
  <2> QED BY <1>1, <1>2, <1>4, <2>1 DEF UpToDate
<1> QED BY <1>1, <1>5, <1>6
LEMMA TrainCalm ==
    ASSUME TypeOK, Agenda, Calm, faults = 0, NEW s \in Shards, Gather \/ Trained
    PROVE  hub'.at = 1 /\ (ActorInTime(s) /\ UpToDate(s))'
<1>1. /\ hub.pc \in {"gather", "trained"} /\ hub'.pc \in {"gather", "trained", "rollouts"}
      /\ hub'.aid = hub.aid /\ actor' = actor /\ hub'.update = hub.update /\ hub'.at = 1
  BY TrainingFields, AtFirst DEF Gather, Trained, Waits, Stays
<1>2. ActorInTime(s) /\ UpToDate(s) /\ ~(s < 1)
  BY DEF Calm, Shards
<1>3. Owes(s) /\ actor[s].lost = {}
  BY <1>1, <1>2 DEF ActorInTime, Hired, Learning
<1>4. Owes(s)' /\ actor'[s].lost = {}
  BY <1>1, <1>3 DEF Owes, Charged, Replied
<1>5. ActorInTime(s)'
  <2>1. Hired(s)' /\ ~Asking(s)' /\ ~Retired(s)'
    BY <1>1, <1>2 DEF Hired, Asking, Retired, Learning
  <2> QED BY <1>4, <2>1 DEF ActorInTime
<1>6. UpToDate(s)'
  BY <1>1, <1>2 DEF UpToDate
<1> QED BY <1>1, <1>5, <1>6

\* The answer that the hub has awaited is taken, and it was the only one.
LEMMA HeardIs ==
    ASSUME TypeOK, Heard, NEW s \in Shards
    PROVE  /\ s # hub.at => actor'[s] = actor[s]
           /\ s = hub.at => /\ actor'[s].pc = actor[s].pc /\ actor'[s].next = actor[s].next
                            /\ actor'[s].cmd = actor[s].cmd /\ actor'[s].lost = actor[s].lost
                            /\ actor'[s].version = actor[s].version
                            /\ Len(actor[s].out) = 1 => actor'[s].out = <<>>
<1>1. CASE s # hub.at
  BY <1>1 DEF Heard, TypeOK
<1>2. CASE s = hub.at
  <2>1. actor'[s] = [actor[s] EXCEPT !.out = Tail(@)]
    BY <1>2 DEF Heard, TypeOK
  <2>2. ASSUME Len(actor[s].out) = 1 PROVE Tail(actor[s].out) = <<>>
    <3>n. Len(<<>>) = 0
      BY EmptySeq
    <3>1. actor[s].out \in Seq(AnswerType)
      BY ActorTypes
    <3>m. actor[s].out # <<>>
      BY <2>2, <3>n
    <3>2. Tail(actor[s].out) \in Seq(AnswerType) /\ Len(Tail(actor[s].out)) = 0
      BY <2>2, <3>1, <3>m, TailFacts
    <3> QED BY <3>2, EmptySeq
  <2> QED BY <1>2, <2>1, <2>2, ActorIsARecord
<1> QED BY <1>1, <1>2
LEMMA TakeCalm ==
    ASSUME TypeOK, Agenda, Protocol, Calm, faults = 0, NEW s \in Shards, TakeRollout
    PROVE  (hub'.at = 1 \/ hub'.pc = "rollouts") /\ (ActorInTime(s) /\ UpToDate(s))'
<1>n. s \in Nat /\ s > 0 /\ s <= NumShards /\ hub.at \in Nat /\ NumShards \in Nat /\ hub.at \in Shards
  BY Constants, HubFields DEF Shards
<1>1. /\ hub.pc = "rollouts" /\ hub'.aid = hub.aid /\ hub'.update = hub.update /\ hub'.next = Taken
      /\ Heard /\ Answered("collected") /\ hub'.at = NextActor
  BY TakeFields DEF TakeRollout
<1>2. ActorInTime(s) /\ UpToDate(s)
  BY DEF Calm
<1>3. actor[s].lost = {} /\ actor[s].version = hub.update /\ IF s < hub.at THEN Free(s) ELSE Owes(s)
  BY <1>1, <1>2 DEF ActorInTime, Hired, Asking, Retired, Learning, UpToDate
<1>4. actor'[s].lost = {} /\ actor'[s].version = hub.update
  BY <1>1, <1>3, HeardIs
<1>5. s < hub.at => Free(s)'
  <2>1. s < hub.at => actor'[s] = actor[s]
    BY <1>n, <1>1, HeardIs
  <2> QED BY <1>1, <1>3, <2>1 DEF Free
<1>6. s = hub.at => Free(s)' /\ Taken[s].version = hub.update
  <2> SUFFICES ASSUME s = hub.at PROVE Free(s)' /\ Taken[s].version = hub.update
    OBVIOUS
  <2>1. Owes(s) /\ actor[s].out # <<>>
    BY <1>n, <1>1, <1>3 DEF Answered
  <2>2. Replied(s, "collected") /\ actor[s].pc = "idle" /\ actor[s].out[1].version = hub.update
    BY <1>3, <2>1 DEF Owes, Charged
  <2>3. Free(s)'
    BY <1>1, <2>2, HeardIs DEF Free, Replied
  <2>4. Taken[s].version = hub.update
    BY <1>n, <2>2, HubFields DEF Taken, Answer, Rollouts
  <2> QED BY <2>3, <2>4
<1>7. CASE ~LastActor
  <2>1. hub'.pc = "rollouts" /\ hub'.at = hub.at + 1
    BY <1>1, <1>7, TakeFields DEF NextActor
  <2>2. hub.at < s => Owes(s)'
    <3>1. hub.at < s => actor'[s] = actor[s]
      BY <1>n, <1>1, HeardIs
    <3>2. hub.at < s => ~(s < hub.at)
      BY <1>n
    <3> QED BY <1>1, <1>3, <3>1, <3>2 DEF Owes, Charged, Replied
  <2>3. ActorInTime(s)'
    <3>1. s < hub'.at <=> s < hub.at \/ s = hub.at
      BY <1>n, <2>1
    <3>2. ~(s < hub'.at) <=> hub.at < s
      BY <1>n, <2>1
    <3>3. (Hired(s)' <=> ~(s < hub'.at)) /\ ~Asking(s)' /\ ~Retired(s)'
      BY <2>1 DEF Hired, Asking, Retired, Learning
    <3> QED BY <1>4, <1>5, <1>6, <2>2, <3>1, <3>2, <3>3 DEF ActorInTime
  <2>4. s < hub'.at => hub'.next[s].version = hub.update
    <3>1. CASE s < hub.at
      <4>1. hub.next[s].version = hub.update
        BY <1>1, <1>2, <3>1 DEF UpToDate
      <4>2. Taken[s] = hub.next[s]
        BY <1>n, <3>1, HubFields DEF Taken, Rollouts
      <4> QED BY <1>1, <4>1, <4>2
    <3>2. CASE s = hub.at
      BY <1>1, <1>6, <3>2
    <3> QED BY <1>n, <2>1, <3>1, <3>2
  <2>5. UpToDate(s)'
    BY <1>1, <1>4, <2>1, <2>4 DEF UpToDate
  <2> QED BY <2>1, <2>3, <2>5
<1>8. CASE LastActor
  <2>1. /\ hub'.at = 1 /\ hub'.pending = Taken /\ Valid(Taken, hub.update)
        /\ \/ hub.lid = 1 /\ hub'.pc = "top"
           \/ hub'.pc = "agenda" /\ \E moves \in BOOLEAN : hub'.agenda \in Agendas(moves)
    BY <1>1, <1>8, TakeFields DEF NextActor
  <2>2. Free(s)' /\ ~(s < 1)
    BY <1>n, <1>5, <1>6, <1>8 DEF LastActor
  <2>3. ActorInTime(s)'
    <3>1. ~Hired(s)' /\ ~Asking(s)' /\ ~Retired(s)'
      BY <2>1, <2>2 DEF Hired, Asking, Retired, Learning
    <3> QED BY <1>4, <2>2, <3>1 DEF ActorInTime
  <2>4. hub'.pending[s].version = hub.update
    BY <2>1 DEF Valid
  <2>5. CASE hub.lid = 1 /\ hub'.pc = "top"
    <3>1. hub.update = 0
      BY <2>5 DEF Calm, Protocol, HubInTime
    <3> QED BY <1>1, <1>4, <2>1, <2>3, <2>4, <2>5, <3>1 DEF UpToDate, Expected
  <2>6. CASE hub'.pc = "agenda" /\ \E moves \in BOOLEAN : hub'.agenda \in Agendas(moves)
    <3>1. PICK moves \in BOOLEAN : hub'.agenda \in Agendas(moves)
      BY <2>6
    <3>2. PICK list \in Agendas(moves) : hub'.agenda = list
      BY <3>1
    <3>3. OnAgenda("refresh")' \/ Ends'
      BY <3>2, NewAgenda DEF OnAgenda, Ends, Listed
    <3>4. OnAgenda("refresh")' => ~Refreshed(s)'
      BY <2>1, <2>2, <2>6 DEF Refreshed
    <3> QED BY <1>1, <1>4, <2>1, <2>3, <2>4, <2>6, <3>3, <3>4, HubFields DEF UpToDate
  <2> QED BY <2>1, <2>5, <2>6
<1> QED BY <1>7, <1>8
LEMMA AskCalm ==
    ASSUME TypeOK, Agenda, Calm, faults = 0, NEW s \in Shards, AskActor
    PROVE  (ActorInTime(s) /\ UpToDate(s))'
<1>1. /\ hub.pc = "agenda" /\ hub.agenda # <<>> /\ hub.agenda[1] \in {"stage", "refresh", "dismiss"}
      /\ actor' = Asked({hub.at}, hub.agenda[1]) /\ hub'.pc = "answer" /\ hub'.at = hub.at
      /\ hub'.aid = NextIds({hub.at}) /\ hub'.pending = hub.pending /\ hub'.update = hub.update
      /\ hub'.agenda = hub.agenda
  BY AgendaFields, FirstFacts DEF AskActor, Doing
<1>2. ActorInTime(s) /\ UpToDate(s)
  BY DEF Calm
<1>3. (\A x : OnAgenda(x)' <=> OnAgenda(x)) /\ (Ends' <=> Ends) /\ (Dismissing' <=> Dismissing)
  BY <1>1 DEF OnAgenda, Ends, Listed, Dismissing
<1>4. ~Hired(s) /\ ~Hired(s)' /\ ~Asking(s) /\ (Asking(s)' <=> s = hub.at)
  BY <1>1 DEF Hired, Asking, Learning
<1>5. Retired(s)' <=> Retired(s)
  BY <1>1, <1>3 DEF Retired
<1>6. CASE s # hub.at
  <2>1. actor'[s] = actor[s] /\ hub'.aid[s] = hub.aid[s]
    BY <1>1, <1>6 DEF Asked, NextIds, TypeOK
  <2>2. (Free(s) => Free(s)') /\ (Gone(s) => Gone(s)')
    BY <2>1 DEF Free, Gone, Live
  <2>3. ActorInTime(s)'
    BY <1>2, <1>4, <1>5, <1>6, <2>1, <2>2 DEF ActorInTime
  <2>4. Refreshed(s)' <=> Refreshed(s)
    BY <1>1, <1>3, <1>6 DEF Refreshed
  <2> QED BY <1>1, <1>2, <1>3, <1>6, <2>1, <2>3, <2>4 DEF UpToDate
<1>7. CASE s = hub.at
  <2>1. ~(s < hub.at)
    BY <1>7, HubFields DEF Shards
  <2>2. Free(s) /\ actor[s].lost = {} /\ ~Retired(s)
    BY <1>1, <1>2, <1>4, <2>1 DEF ActorInTime, Retired
  <2>3. PICK kind \in {"stage", "refresh", "dismiss"} : kind = hub.agenda[1]
    BY <1>1
  <2>4. kind = "refresh" => hub.update < Updates
    <3>1. kind = "refresh" => OnAgenda("refresh")
      BY <1>1, <2>3, FirstFacts
    <3> QED BY <3>1 DEF Agenda
  <2>5. /\ Charged(s, kind)' /\ actor'[s].lost = {} /\ actor'[s].version = actor[s].version
        /\ actor'[s].out = <<>>
        /\ kind = "refresh" => actor'[s].cmd[1].version = hub.update + 1
    BY <1>1, <1>7, <2>2, <2>3, <2>4, AskedIs
  <2>6. ActorInTime(s)'
    <3>1. Charged(s, hub.agenda[1])'
      BY <1>1, <2>3, <2>5 DEF Charged
    <3> QED BY <1>4, <1>5, <1>7, <2>2, <2>5, <3>1 DEF ActorInTime
  <2>7. Refreshed(s)' <=> Refreshed(s)
    BY <1>1, <1>3, <2>5 DEF Refreshed
  <2>8. Charged(s, "refresh")' => kind = "refresh"
    BY <2>5 DEF Charged
  <2> QED BY <1>1, <1>2, <1>3, <2>5, <2>6, <2>7, <2>8 DEF UpToDate
<1> QED BY <1>6, <1>7
LEMMA HearActorCalm ==
    ASSUME TypeOK, Agenda, Calm, faults = 0, NEW s \in Shards, HearActor
    PROVE  /\ hub'.at = 1 \/ (hub'.pc = "agenda" /\ hub'.agenda = hub.agenda /\ hub.agenda # <<>>)
           /\ (ActorInTime(s) /\ UpToDate(s))'
<1>n. s \in Nat /\ s > 0 /\ s <= NumShards /\ hub.at \in Nat /\ NumShards \in Nat /\ hub.at \in Shards
  BY Constants, HubFields DEF Shards
<1>1. /\ hub.pc = "answer" /\ Answered("ack") /\ Heard /\ hub'.at = NextActor /\ hub'.aid = hub.aid
      /\ hub'.pending = hub.pending /\ hub'.update = hub.update
      /\ hub'.agenda = (IF LastActor THEN Tail(hub.agenda) ELSE hub.agenda)
      /\ hub.agenda # <<>> /\ hub.agenda[1] \in {"stage", "refresh", "dismiss"}
      /\ hub'.pc = IF LastActor /\ Dismissing THEN "done" ELSE "agenda"
  <2>1. hub.agenda # <<>> /\ hub.agenda[1] \in {"stage", "refresh", "dismiss"}
    BY DEF HearActor, Agenda
  <2>2. Dismissing <=> hub.agenda = <<"dismiss">>
    BY <2>1, FirstFacts DEF Dismissing
  <2> QED BY <2>1, <2>2, AgendaFields DEF HearActor
<1>2. ActorInTime(s) /\ UpToDate(s)
  BY DEF Calm
<1>3. ~Hired(s) /\ ~Hired(s)' /\ ~Asking(s)' /\ (Asking(s) <=> s = hub.at)
  BY <1>1 DEF Hired, Asking, Learning
<1>4. /\ actor'[s].lost = {} /\ actor'[s].version = actor[s].version
      /\ IF Dismissing /\ ~(hub.at < s) THEN Gone(s)' ELSE Free(s)'
  <2>1. CASE s = hub.at
    <3>1. actor[s].out # <<>>
      BY <1>1, <2>1 DEF Answered
    <3>2. Obeyed(s) /\ actor[s].lost = {}
      BY <1>2, <1>3, <2>1, <3>1 DEF ActorInTime, Charged
    <3>3. ~(hub.at < s)
      BY <1>n, <2>1
    <3>4. /\ actor'[s].pc = actor[s].pc /\ actor'[s].next = actor[s].next
          /\ actor'[s].cmd = actor[s].cmd /\ actor'[s].lost = actor[s].lost
          /\ actor'[s].version = actor[s].version /\ actor'[s].out = <<>>
      BY <1>1, <2>1, <3>2, HeardIs DEF Obeyed, Replied
    <3> QED BY <1>1, <3>2, <3>3, <3>4 DEF Obeyed, Replied, Gone, Free, Live
  <2>2. CASE s # hub.at
    <3>1. actor'[s] = actor[s]
      BY <1>1, <2>2, HeardIs
    <3>2. Retired(s) <=> Dismissing /\ ~(hub.at < s)
      BY <1>n, <1>1, <2>2 DEF Retired
    <3>3. actor[s].lost = {} /\ IF Retired(s) THEN Gone(s) ELSE Free(s)
      BY <1>2, <1>3, <2>2 DEF ActorInTime
    <3> QED BY <1>1, <3>1, <3>2, <3>3 DEF Gone, Free, Live
  <2> QED BY <2>1, <2>2
<1>5. CASE ~LastActor
  <2>1. hub'.at = hub.at + 1 /\ hub'.agenda = hub.agenda /\ hub'.pc = "agenda"
    BY <1>1, <1>5 DEF NextActor
  <2>2. (\A x : OnAgenda(x)' <=> OnAgenda(x)) /\ (Ends' <=> Ends) /\ (Dismissing' <=> Dismissing)
    BY <2>1 DEF OnAgenda, Ends, Listed, Dismissing
  <2>3. s < hub'.at <=> ~(hub.at < s)
    BY <1>n, <2>1
  <2>4. ActorInTime(s)'
    <3>1. Retired(s)' <=> Dismissing /\ ~(hub.at < s)
      BY <2>1, <2>2, <2>3 DEF Retired
    <3> QED BY <1>3, <1>4, <3>1 DEF ActorInTime
  <2>5. Refreshed(s)' <=> Refreshed(s)
    <3>1. s < hub'.at <=> s < hub.at \/ (hub.pc = "answer" /\ s = hub.at /\ actor[s].out # <<>>)
      BY <1>n, <1>1, <2>1 DEF Answered
    <3> QED BY <2>1, <2>2, <3>1 DEF Refreshed
  <2>6. UpToDate(s)'
    BY <1>1, <1>2, <1>4, <2>1, <2>2, <2>5 DEF UpToDate
  <2> QED BY <1>1, <2>1, <2>4, <2>6
<1>6. CASE LastActor /\ Dismissing
  <2>1. hub'.pc = "done" /\ ~(hub.at < s) /\ hub'.at = 1
    BY <1>n, <1>1, <1>6 DEF LastActor, NextActor
  <2>2. ActorInTime(s)'
    BY <1>3, <1>4, <1>6, <2>1 DEF ActorInTime, Retired
  <2>3. UpToDate(s)'
    BY <2>1 DEF UpToDate
  <2> QED BY <2>1, <2>2, <2>3
<1>7. CASE LastActor /\ ~Dismissing
  <2>1. hub'.pc = "agenda" /\ hub'.at = 1 /\ hub'.agenda = Tail(hub.agenda) /\ ~(s < 1)
    BY <1>n, <1>1, <1>7 DEF NextActor
  <2>2. ActorInTime(s)'
    <3>1. ~Retired(s)'
      BY <2>1 DEF Retired
    <3> QED BY <1>3, <1>4, <1>7, <3>1 DEF ActorInTime
  <2>3. /\ Ends' <=> Ends
        /\ hub.agenda[1] = "refresh" => OnAgenda("refresh") /\ ~OnAgenda("refresh")'
        /\ hub.agenda[1] # "refresh" => (OnAgenda("refresh")' <=> OnAgenda("refresh"))
    BY <1>1, <1>7, <2>1, ShrinkFacts, FirstFacts DEF Ends, Dismissing
  <2>4. ~Ends' \/ OnAgenda("refresh")' => /\ ~Ends \/ OnAgenda("refresh")
                                          /\ Refreshed(s)' <=> Refreshed(s)
    <3>1. hub.agenda[1] = "refresh" => Refreshed(s)
      <4>1. s < hub.at \/ (hub.pc = "answer" /\ s = hub.at /\ actor[s].out # <<>>)
        BY <1>n, <1>1, <1>7 DEF LastActor, Answered
      <4> QED BY <2>3, <4>1 DEF Refreshed
    <3>2. OnAgenda("refresh")' => ~Refreshed(s)'
      BY <2>1 DEF Refreshed
    <3>3. ~OnAgenda("refresh")' => (Refreshed(s)' <=> ~Ends')
      BY DEF Refreshed
    <3>4. hub.agenda[1] # "refresh" /\ OnAgenda("refresh") => ~Refreshed(s)
      BY DEF Refreshed
    <3>5. ~OnAgenda("refresh") => (Refreshed(s) <=> ~Ends)
      BY DEF Refreshed
    <3> QED BY <2>3, <3>1, <3>2, <3>3, <3>4, <3>5
  <2>5. UpToDate(s)'
    BY <1>1, <1>2, <1>4, <2>1, <2>3, <2>4 DEF UpToDate
  <2> QED BY <2>1, <2>2, <2>5
<1> QED BY <1>5, <1>6, <1>7

LEMMA HubCalm ==
    ASSUME TypeOK, Agenda, Protocol, Calm, faults = 0, faults' = 0, HubStep \/ SaveFails
    PROVE  /\ ~Trouble' /\ Placed' /\ EvalInTime'
           /\ \A s \in Shards : (ActorInTime(s) /\ UpToDate(s))'
           /\ \A s \in Shards : ~Live(learner[s])' => AllStopped'
<1>1. GoodStep /\ ~Trouble /\ EvalInTime
  BY OnlyGood DEF Calm
<1>2. ~Trouble'
  BY <1>1, TrainingFields, AgendaFields, TakeFields DEF Trouble, Failing, GoodStep
<1>3. EvalInTime'
  BY <1>1, EvalCalm
<1>4. ASSUME NEW s \in Shards PROVE (ActorInTime(s) /\ UpToDate(s))'
  BY <1>1, CollectCalm, TrainCalm, TakeCalm, QuietCalm, AskCalm, HearActorCalm DEF GoodStep
<1>5. Placed'
  <2>n. 1 \in Shards
    BY HubFacts
  <2>1. CASE AskActor
    BY <2>1, AgendaFields DEF Placed
  <2>2. CASE HearActor
    <3>1. hub.agenda # <<>> => hub.agenda[1] \in {"stage", "refresh", "dismiss"}
      BY <2>2 DEF HearActor, Agenda
    <3> QED BY <2>n, <2>2, <3>1, HearActorCalm DEF Placed
  <2>3. CASE ~(AskActor \/ HearActor)
    BY <1>1, <2>n, <2>3, CollectCalm, TrainCalm, TakeCalm, QuietCalm DEF GoodStep, Placed
  <2> QED BY <2>1, <2>2, <2>3
<1>6. ASSUME AllStopped PROVE AllStopped'
  <2>1. CASE hub.pc = "acks" /\ hub.agenda[1] = "stop"
    <3>1. HearAck
      BY <1>1, <2>1 DEF GoodStep, Prime, StartUpdate, LeaveLoop, Gather, Trained, TakeRollout, NextUpdate,
         AskLearners, AskActor, HearActor, Submit, EndEval, EvalEnded, Doing, Waits
    <3>2. hub.agenda # <<>>
      BY <2>1 DEF Agenda
    <3>3. CASE Everyone
      BY <2>1, <3>1, <3>2, <3>3, AgendaFields, ShrinkFacts DEF AllStopped
    <3>4. CASE ~Everyone
      <4>1. hub'.pc = "acks" /\ hub'.agenda = hub.agenda
        BY <3>1, <3>4, AgendaFields
      <4> QED BY <2>1, <4>1 DEF AllStopped
    <3> QED BY <3>3, <3>4
  <2>2. CASE hub.pc \in {"agenda", "answer"} /\ hub.agenda = <<"dismiss">>
    <3>1. Head(hub.agenda) = "dismiss" /\ hub.agenda # <<>>
      BY <2>2
    <3>2. AskActor \/ HearActor
      BY <1>1, <2>2, <3>1 DEF GoodStep, Prime, StartUpdate, LeaveLoop, Gather, Trained, TakeRollout, NextUpdate,
         AskLearners, HearAck, Submit, EndEval, EvalEnded, Doing, Waits
    <3>3. \/ hub'.pc \in {"agenda", "answer"} /\ hub'.agenda = hub.agenda
          \/ hub'.pc = "done"
      BY <2>2, <3>2, AgendaFields
    <3> QED BY <2>2, <3>3 DEF AllStopped
  <2>3. CASE hub.pc = "done"
    BY <1>1, <2>3 DEF GoodStep, Prime, StartUpdate, LeaveLoop, Gather, Trained, TakeRollout, NextUpdate,
       AskLearners, HearAck, AskActor, HearActor, Submit, EndEval, EvalEnded, Doing, Waits
  <2> QED BY <1>6, <2>1, <2>2, <2>3 DEF AllStopped
<1>7. ASSUME NEW s \in Shards PROVE ~Live(learner[s])' => AllStopped'
  <2>1. learner'[s].pc = learner[s].pc
    BY WhatTheHubSends, HubLeaves
  <2>2. ~Live(learner[s]) => AllStopped
    BY DEF Calm
  <2> QED BY <1>6, <2>1, <2>2 DEF Live
<1> QED BY <1>2, <1>3, <1>4, <1>5, <1>7
LEMMA CalmKept ==
    ASSUME TypeOK, Agenda, Versions, Protocol, Calm, [Next]_vars PROVE Calm'
<1> SUFFICES ASSUME faults' = 0
             PROVE  /\ ~Trouble' /\ Placed' /\ EvalInTime'
                    /\ \A s \in Shards : (ActorInTime(s) /\ UpToDate(s))'
                    /\ \A s \in Shards : ~Live(learner[s])' => AllStopped'
  BY DEF Calm
<1>1. /\ faults = 0
      /\ \/ HubStep \/ SaveFails \/ EvalTakes \/ EvalReports \/ UNCHANGED vars
         \/ \E s \in Shards : LearnerStep(s) \/ ActorAccepts(s) \/ Collects(s) \/ NoticesLoss(s)
                              \/ \E e \in Envs : EnvSteps(s, e)
  <2>1. faults' >= faults /\ faults \in Nat
    BY NextIs, HubEval, WhatALearnerDoes, WhatAnActorDoes, WhatTheEvalDoes, Idleness
       DEF LearnerDoes, ActorDoes, EvalDoes, vars
  <2>2. ~Fault
    BY <2>1 DEF Fault
  <2>3. faults = 0
    BY <2>1
  <2>4. ASSUME NEW s \in Shards, ActorStep(s)
        PROVE  ActorAccepts(s) \/ Collects(s) \/ NoticesLoss(s) \/ \E e \in Envs : EnvSteps(s, e)
    BY <2>2, <2>4 DEF ActorStep, ActorErrs, ActorPanics, EnvPanics
  <2>5. EvalStep => EvalTakes \/ EvalReports
    BY <2>2 DEF EvalStep, EvalErrs, EvalPanics
  <2> QED BY <2>3, <2>4, <2>5, NextIs
<1>2. CASE HubStep \/ SaveFails
  BY <1>1, <1>2, HubCalm
<1>3. /\ ~Trouble /\ Placed /\ EvalInTime
      /\ \A s \in Shards : ActorInTime(s) /\ UpToDate(s)
      /\ \A s \in Shards : ~Live(learner[s]) => AllStopped
  BY <1>1 DEF Calm
<1>4. ASSUME hub' = hub
      PROVE  ~Trouble' /\ Placed' /\ (AllStopped' <=> AllStopped) /\ (eval' = eval => EvalInTime')
  <2>1. (\A x : OnAgenda(x)' <=> OnAgenda(x)) /\ (Ends' <=> Ends)
    BY <1>4 DEF OnAgenda, Ends, Listed
  <2>2. eval' = eval => EvalInTime'
    BY <1>3, <1>4, <2>1 DEF EvalInTime, Live
  <2> QED BY <1>3, <1>4, <2>2 DEF Trouble, Placed, AllStopped
<1>5. CASE UNCHANGED vars \/ EvalTakes \/ EvalReports
  <2>1. hub' = hub /\ learner' = learner /\ actor' = actor
    BY <1>5 DEF vars, EvalTakes, EvalReports
  <2>2. EvalInTime'
    <3>1. CASE UNCHANGED vars
      BY <1>4, <3>1 DEF vars
    <3>2. CASE EvalTakes \/ EvalReports
      BY <1>3, <3>2, EvalAlone
    <3> QED BY <1>5, <3>1, <3>2
  <2>3. \A s \in Shards : (ActorInTime(s) /\ UpToDate(s))'
    BY <1>3, <2>1, SameCalm
  <2>4. \A s \in Shards : ~Live(learner[s])' => AllStopped'
    BY <1>3, <1>4, <2>1 DEF Live
  <2> QED BY <1>4, <2>1, <2>2, <2>3, <2>4
<1>6. ASSUME NEW t \in Shards, LearnerStep(t)
      PROVE  /\ ~Trouble' /\ Placed' /\ EvalInTime'
             /\ \A s \in Shards : (ActorInTime(s) /\ UpToDate(s))'
             /\ \A s \in Shards : ~Live(learner[s])' => AllStopped'
  <2>1. hub' = hub /\ actor' = actor /\ eval' = eval
    BY <1>6, WhatALearnerDoes DEF LearnerDoes
  <2>2. \A s \in Shards : (ActorInTime(s) /\ UpToDate(s))'
    BY <1>3, <2>1, SameCalm
  <2>3. ASSUME NEW s \in Shards PROVE ~Live(learner[s])' => AllStopped'
    <3>1. CASE s # t
      <4>1. learner'[s] = learner[s]
        BY <1>6, <3>1, HowALearnerGrows DEF LearnerGrows
      <4> QED BY <1>3, <1>4, <2>1, <4>1 DEF Live
    <3>2. CASE s = t
      <4>1. CASE Live(learner[s])
        BY <1>1, <1>4, <1>6, <2>1, <3>2, <4>1, LearnerCalm
      <4>2. CASE ~Live(learner[s])
        BY <1>3, <1>4, <2>1, <4>2
      <4> QED BY <4>1, <4>2
    <3> QED BY <3>1, <3>2
  <2> QED BY <1>4, <2>1, <2>2, <2>3
<1>7. ASSUME NEW t \in Shards,
             ActorAccepts(t) \/ Collects(t) \/ NoticesLoss(t) \/ \E e \in Envs : EnvSteps(t, e)
      PROVE  /\ ~Trouble' /\ Placed' /\ EvalInTime'
             /\ \A s \in Shards : (ActorInTime(s) /\ UpToDate(s))'
             /\ \A s \in Shards : ~Live(learner[s])' => AllStopped'
  <2>1. /\ hub' = hub /\ learner' = learner /\ eval' = eval
        /\ \A s \in Shards \ {t} : actor'[s] = actor[s]
    BY <1>7, ActorsLearn DEF ActorStep, ActorAccepts, Collects, NoticesLoss, EnvSteps
  <2>2. (ActorInTime(t) /\ UpToDate(t))'
    BY <1>1, <1>7, AcceptsCalm, CollectorCalm
  <2>3. \A s \in Shards : (ActorInTime(s) /\ UpToDate(s))'
    BY <1>3, <2>1, <2>2, SameCalm
  <2>4. \A s \in Shards : ~Live(learner[s])' => AllStopped'
    BY <1>3, <1>4, <2>1 DEF Live
  <2> QED BY <1>4, <2>1, <2>3, <2>4
<1> QED BY <1>1, <1>2, <1>5, <1>6, <1>7

-----------------------------------------------------------------------------
(* The theorems. *)

Inv == TypeOK /\ Agenda /\ Versions /\ Protocol /\ Harmony /\ Calm

LEMMA InitInv == Init => Inv
<1> SUFFICES ASSUME Init PROVE Inv
  OBVIOUS
<1>0. /\ TypeOK /\ Updates \in Nat /\ Updates > 0 /\ Rounds \in Nat
      /\ \A s \in Shards : s \in Nat /\ s > 0
  BY InitTypes, Constants DEF Shards
<1>1. /\ hub.pc = "prime" /\ hub.update = 0 /\ hub.agenda = <<>> /\ hub.at = 1 /\ hub.err = FALSE
      /\ hub.lid = 1 /\ hub.flight = NoFlight /\ faults = 0 /\ hub.heard = {}
      /\ \A s \in Shards : /\ hub.aid[s] = 1 /\ hub.snaps[s] = {}
                           /\ hub.pending[s] = [version |-> 0, w |-> {}]
                           /\ hub.next[s] = [version |-> 0, w |-> {}]
  BY DEF Init, NoRollouts
<1>2. \A s \in Shards : /\ learner[s].pc = "idle" /\ learner[s].next = 1 /\ learner[s].w = {}
                        /\ learner[s].cmd = <<>> /\ learner[s].dec = <<>>
  BY DEF Init
<1>3. \A s \in Shards : /\ actor[s].pc = "idle" /\ actor[s].next = 1 /\ actor[s].version = 0 /\ actor[s].w = {}
                        /\ actor[s].lost = {} /\ actor[s].cmd = <<>> /\ actor[s].out = <<>>
  BY DEF Init
<1>4. Len(<<>>) = 0 /\ replies = <<>> /\ eval = [pc |-> "idle", cmd |-> "none", result |-> "none"]
  BY EmptySeq DEF Init
<1>5. ~Trouble /\ ~Learning /\ ~(\E x : OnAgenda(x)) /\ ~Ends
  BY <1>1, <1>4 DEF Trouble, Failing, Learning, OnAgenda, Ends, Listed
<1>6. Agenda
  <2>1. Orderly(hub.agenda)
    BY <1>1, <1>4 DEF Orderly
  <2> QED BY <1>0, <1>1, <1>5, <2>1 DEF Agenda
<1>7. Versions
  <2> SUFFICES ASSUME NEW s \in Shards
      PROVE  /\ MayStep(s) => hub.update < Updates
             /\ learner[s].pc \in {"computing", "waiting", "reducing"} => learner[s].round > 0
             /\ Names(s, actor[s].version, actor[s].w)
             /\ Names(s, hub.pending[s].version, hub.pending[s].w)
             /\ Names(s, hub.next[s].version, hub.next[s].w)
             /\ \A i \in 1 .. Len(actor[s].cmd) :
                   actor[s].cmd[i].kind = "refresh"
                      => Names(s, actor[s].cmd[i].version, actor[s].cmd[i].w)
             /\ \A i \in 1 .. Len(actor[s].out) :
                   actor[s].out[i].kind = "collected"
                      => Names(s, actor[s].out[i].version, actor[s].out[i].w)
    BY DEF Versions
  <2>1. Names(s, 0, {})
    BY <1>1, <1>2 DEF Names, Before
  <2>2. 1 .. Len(actor[s].cmd) = {} /\ 1 .. Len(actor[s].out) = {}
    BY <1>3, <1>4
  <2>3. hub.update < Updates
    BY <1>0, <1>1
  <2>4. /\ Names(s, actor[s].version, actor[s].w)
        /\ Names(s, hub.pending[s].version, hub.pending[s].w)
        /\ Names(s, hub.next[s].version, hub.next[s].w)
    <3>1. /\ actor[s].version = 0 /\ actor[s].w = {}
          /\ hub.pending[s].version = 0 /\ hub.pending[s].w = {}
          /\ hub.next[s].version = 0 /\ hub.next[s].w = {}
      BY <1>1, <1>3
    <3> QED BY <2>1, <3>1
  <2>5. learner[s].pc = "idle"
    BY <1>2
  <2> QED BY <2>2, <2>3, <2>4, <2>5
<1>8. Protocol
  <2>1. HubInTime
    BY <1>1, <1>5 DEF HubInTime
  <2>2. \A s \in Shards : InTime(s)
    BY <1>1, <1>2, <1>5 DEF InTime, Settled
  <2>3. 1 .. Len(replies) = {}
    BY <1>4
  <2> QED BY <2>1, <2>2, <2>3 DEF Protocol
<1>9. Harmony
  BY <1>1, <1>2, <1>5 DEF Harmony, InUnison
<1>10. Calm
  <2>1. Placed /\ EvalInTime
    BY <1>1, <1>4 DEF Placed, EvalInTime, Live
  <2>2. \A s \in Shards : ActorInTime(s)
    BY <1>1, <1>3, <1>5 DEF ActorInTime, Hired, Asking, Retired, Free
  <2>3. \A s \in Shards : UpToDate(s)
    BY <1>1, <1>3 DEF UpToDate
  <2>4. \A s \in Shards : Live(learner[s])
    BY <1>2 DEF Live
  <2> QED BY <1>5, <2>1, <2>2, <2>3, <2>4 DEF Calm
<1> QED BY <1>0, <1>6, <1>7, <1>8, <1>9, <1>10 DEF Inv
LEMMA InvKept == Inv /\ [Next]_vars => Inv'
<1> SUFFICES ASSUME Inv, [Next]_vars PROVE Inv'
  OBVIOUS
<1>1. TypeOK /\ Agenda /\ Versions /\ Protocol /\ Harmony /\ Calm
  BY DEF Inv
<1>2. TypeOK'
  BY <1>1, TypesKept
<1>3. Agenda'
  BY <1>1, AgendaKept
<1>4. Versions'
  BY <1>1, <1>2, VersionsKept
<1>5. Protocol'
  BY <1>1, <1>2, ProtocolKept
<1>6. Harmony'
  BY <1>1, <1>2, <1>5, HarmonyKept
<1>7. Calm'
  BY <1>1, CalmKept
<1> QED BY <1>2, <1>3, <1>4, <1>5, <1>6, <1>7 DEF Inv
LEMMA Invariance == Spec => []Inv
<1> QED BY InitInv, InvKept, PTL DEF Spec

\* The hub, its threads and their channels hold what their types say: among others, an
\* index of a shard, of an update or of a minibatch is never out of its range, whatever
\* has broken down.
THEOREM TypeCorrect == Spec => []TypeOK
<1>1. Inv => TypeOK
  BY DEF Inv
<1> QED BY <1>1, Invariance, PTL

\* Whenever no training is under way and the run has not failed, the learners have taken
\* the same optimizer steps: no order of gradients, decisions and failures lets a
\* replica drift (PersistentLearner::train, train_update and all_reduce_average).
THEOREM ReplicasAgreeHolds == Spec => []ReplicasAgree
<1>1. Inv => ReplicasAgree
  <2> SUFFICES ASSUME Inv PROVE ReplicasAgree
    OBVIOUS
  <2>1. ASSUME ~InTraining, hub.pc \notin Failing PROVE ~Trouble /\ ~Learning
    BY <2>1 DEF InTraining, Trouble, Learning
  <2> QED BY <2>1 DEF Inv, Harmony, InUnison, ReplicasAgree
<1> QED BY <1>1, Invariance, PTL

\* The version of an actor's policy, and the version of a rollout that is to be trained
\* on, name exactly the optimizer steps that the learner of the same GPU took before the
\* update of that number, although it trains at the same time and the actor refreshes
\* at its own pace (refresh_actors, PersistentActor and the check of the rollouts).
THEOREM VersionsNameWeightsHolds == Spec => []VersionsNameWeights
<1>1. Inv => VersionsNameWeights
  BY DEF Inv, Versions, Names, VersionsNameWeights
<1> QED BY <1>1, Invariance, PTL

\* No check of an id, of a version, of the order of packets or of a lost thread ends a
\* run in which nothing has broken down: an error always has a cause.
THEOREM ErrorsHaveACauseHolds == Spec => []ErrorsHaveACause
<1>1. Inv => ErrorsHaveACause
  <2> SUFFICES ASSUME Inv PROVE ErrorsHaveACause
    OBVIOUS
  <2>1. TypeOK /\ Calm
    BY DEF Inv
  <2>2. faults \in Nat
    BY <2>1, Idleness
  <2> QED BY <2>1, <2>2 DEF Calm, Trouble, ErrorsHaveACause
<1> QED BY <1>1, Invariance, PTL
=============================================================================
