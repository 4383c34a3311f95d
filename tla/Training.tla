------------------------------- MODULE Training -------------------------------
(***************************************************************************)
(* The threads of the trainer (rust/oftrain/src/train.rs): the loop of     *)
(* run(), which is the hub of every other thread; one learner and one      *)
(* actor for each GPU; the environments an actor steps; the evaluation     *)
(* thread.  They talk through channels, which are unbounded and lose       *)
(* nothing, so all the hub's sends of one loop are one step.               *)
(*                                                                         *)
(* The weights of a replica are the optimizer steps it has taken, each     *)
(* named by its update and its minibatch (the minibatches of all epochs    *)
(* are numbered in one row).  The model begins when every thread has       *)
(* started, with update 0.                                                 *)
(***************************************************************************)
EXTENDS Integers, Sequences

CONSTANTS
    NumShards,      \* the GPUs; with a single one there is no gradient hub
    Envs,           \* the environments of an actor
    RolloutLen,     \* cfg.rollout_len
    Rounds,         \* minibatches of an update, over all its epochs
    Updates,        \* cfg.updates
    EvalEvery,      \* cfg.eval_every
    CkptEvery,      \* cfg.ckpt_every
    Modes,          \* the ways the trainer may be configured, see mode
    MaySpoil,       \* bound: minibatches whose losses may not be finite
    MaxStages,      \* bound: transitions of the curriculum
    MaxFaults       \* bound: errors and panics of the threads

ASSUME TrainingAssumption ==
    /\ NumShards \in Nat /\ NumShards > 1
    /\ Envs # {} /\ RolloutLen \in Nat \ {0}
    /\ Rounds \in Nat \ {0} /\ Updates \in Nat \ {0}
    /\ EvalEvery \in Nat \ {0} /\ CkptEvery \in Nat \ {0}
    /\ Modes \subseteq [nccl : BOOLEAN, shared : BOOLEAN]
    /\ MaySpoil \subseteq 1 .. Rounds
    /\ MaxStages \in Nat /\ MaxFaults \in Nat

Shards == 1 .. NumShards
Steps == (0 .. Updates - 1) \X (1 .. Rounds)

VARIABLES
    hub,        \* run() and its locals
    learner,    \* the learners' threads, with their commands and decisions
    replies,    \* what the learners answer, to one channel
    actor,      \* the actors' threads, with their commands and answers
    eval,       \* the evaluation thread, its command and its result
    mode,       \* nccl: the GPUs reduce the gradients themselves
                \* shared: the environments of an actor share one channel to it
    faults      \* bound and history: errors and panics so far

vars == <<hub, learner, replies, actor, eval, mode, faults>>

NoFlight == -1
Failing == {"dropEval", "joinEval", "dropLearners", "joinLearners",
            "dropActors", "joinActor", "failed"}
Rollouts == [Shards -> [version : 0 .. Updates, w : SUBSET Steps]]

HubPlaces == {"prime", "top", "gather", "trained", "rollouts", "agenda",
              "acks", "answer", "evalEnd", "done"} \cup Failing
Items == {"stage", "save", "refresh", "eval", "endEval", "stop", "dismiss"}
HubType ==
    [pc : HubPlaces,
     update : 0 .. Updates,
     agenda : Seq(Items),
     round : 0 .. Rounds,    \* the minibatch that is gathered
     at : Shards,            \* the actor whose answer is awaited
     heard : SUBSET Shards,  \* the learners that have answered
     spoilt : BOOLEAN,       \* a gradient of the minibatch is not finite
     err : BOOLEAN,          \* the training of the update has failed
     lid : Nat \ {0}, aid : [Shards -> Nat \ {0}],  \* the next commands' ids
     pending : Rollouts, next : Rollouts,
     snaps : [Shards -> SUBSET Steps],   \* the learners' weights
     stages : 0 .. MaxStages,
     flight : NoFlight .. Updates - 1]   \* EvalFlight.update
CommandType == [kind : {"train", "save", "stop"}, id : Nat]
LearnerType ==
    [pc : {"idle", "computing", "waiting", "reducing", "finished", "dead"},
     round : 0 .. Rounds, joined : 0 .. Rounds, next : Nat \ {0},
     w : SUBSET Steps, cmd : Seq(CommandType),
     dec : Seq({"apply", "collective", "discard", "abort"})]
ReplyType == [kind : {"gradient", "trained", "ack", "failed"}, shard : Shards,
              id : Nat, round : 0 .. Rounds, finite : BOOLEAN, w : SUBSET Steps]
OrderType == [kind : {"collect", "refresh", "stage", "dismiss"}, id : Nat,
              version : 0 .. Updates, w : SUBSET Steps]
AnswerType == [kind : {"collected", "ack", "failed"}, id : Nat,
               version : 0 .. Updates, w : SUBSET Steps]
ActorType ==
    [pc : {"idle", "collecting", "dead"}, next : Nat \ {0}, version : 0 .. Updates,
     w : SUBSET Steps, left : [Envs -> 0 .. RolloutLen], lost : SUBSET Envs,
     cmd : Seq(OrderType), out : Seq(AnswerType)]
EvalType == [pc : {"idle", "running", "dead"}, cmd : {"none", "run", "stop"},
             result : {"none", "ok", "err"}]

TypeOK ==
    /\ hub \in HubType
    /\ learner \in [Shards -> LearnerType]
    /\ replies \in Seq(ReplyType)
    /\ actor \in [Shards -> ActorType]
    /\ eval \in EvalType
    /\ mode \in Modes /\ faults \in 0 .. MaxFaults

NoRollouts == [s \in Shards |-> [version |-> 0, w |-> {}]]
Init ==
    /\ hub = [pc |-> "prime", update |-> 0, agenda |-> <<>>, round |-> 0, at |-> 1,
              heard |-> {}, spoilt |-> FALSE, err |-> FALSE, lid |-> 1,
              aid |-> [s \in Shards |-> 1], pending |-> NoRollouts,
              next |-> NoRollouts, snaps |-> [s \in Shards |-> {}], stages |-> 0,
              flight |-> NoFlight]
    /\ learner = [s \in Shards |-> [pc |-> "idle", round |-> 0, joined |-> 0,
                      next |-> 1, w |-> {}, cmd |-> <<>>, dec |-> <<>>]]
    /\ replies = <<>>
    /\ actor = [s \in Shards |-> [pc |-> "idle", next |-> 1, version |-> 0, w |-> {},
                      left |-> [e \in Envs |-> 0], lost |-> {},
                      cmd |-> <<>>, out |-> <<>>]]
    /\ eval = [pc |-> "idle", cmd |-> "none", result |-> "none"]
    /\ mode \in Modes /\ faults = 0

Live(thread) == thread.pc # "dead"
Fault == faults < MaxFaults /\ faults' = faults + 1

-----------------------------------------------------------------------------
(* The hub writes to the threads that are there. *)

Told(kind) == [s \in Shards |->
    IF Live(learner[s]) THEN [learner[s] EXCEPT
        !.cmd = Append(@, [kind |-> kind, id |-> hub.lid])] ELSE learner[s]]
\* Plausible bug: the barrier is left without a word to those who wait in it.
DecidedUnlessAbort(threads, d) == [s \in Shards |->
    IF Live(threads[s]) /\ d # "abort"
    THEN [threads[s] EXCEPT !.dec = Append(@, d)] ELSE threads[s]]
Decided(threads, d) == [s \in Shards |->
    IF Live(threads[s]) THEN [threads[s] EXCEPT !.dec = Append(@, d)] ELSE threads[s]]
\* Plausible bug: the new weights are sent by the number of the update that ends.
AskedByUpdate(who, kind) == [s \in Shards |->
    IF s \in who /\ Live(actor[s]) THEN [actor[s] EXCEPT
        !.cmd = Append(@, [kind |-> kind, id |-> hub.aid[s],
                   version |-> IF kind = "refresh" THEN hub.update ELSE 0,
                   w |-> IF kind = "refresh" THEN hub.snaps[s] ELSE {}])] ELSE actor[s]]
Asked(who, kind) == [s \in Shards |->
    IF s \in who /\ Live(actor[s]) THEN [actor[s] EXCEPT
        !.cmd = Append(@, [kind |-> kind, id |-> hub.aid[s],
                   version |-> IF kind = "refresh" THEN hub.update + 1 ELSE 0,
                   w |-> IF kind = "refresh" THEN hub.snaps[s] ELSE {}])] ELSE actor[s]]
NextIds(who) == [s \in Shards |-> IF s \in who THEN hub.aid[s] + 1 ELSE hub.aid[s]]

Fail == hub' = [hub EXCEPT !.pc = "dropEval"]

\* The first rollout, before the loop.
Prime ==
    /\ hub.pc = "prime"
    /\ actor' = Asked(Shards, "collect")
    /\ hub' = [hub EXCEPT !.pc = "rollouts", !.aid = NextIds(Shards)]
    /\ UNCHANGED <<learner, replies, eval, mode, faults>>

-----------------------------------------------------------------------------
(* The top of the loop: the evaluation is polled, the rollouts are         *)
(* validated, and collecting the next ones overlaps training on these.     *)

PollFails == eval.result = "err" \/ (eval.result = "none" /\ ~Live(eval))
Valid(rollouts, version) == \A s \in Shards : rollouts[s].version = version
Expected == IF hub.update = 0 THEN 0 ELSE hub.update - 1

StartUpdate ==
    /\ hub.pc = "top" /\ hub.update < Updates
    /\ ~PollFails /\ Valid(hub.pending, Expected)
    /\ eval' = [eval EXCEPT !.result = "none"]
    /\ actor' = Asked(Shards, "collect") /\ learner' = Told("train")
    /\ hub' = [hub EXCEPT !.pc = "gather", !.round = 1, !.heard = {},
                  !.spoilt = FALSE, !.lid = @ + 1, !.aid = NextIds(Shards),
                  !.flight = IF eval.result = "ok" THEN NoFlight ELSE @]
    /\ UNCHANGED <<replies, mode, faults>>
CannotStart ==
    /\ hub.pc = "top" /\ hub.update < Updates
    /\ PollFails \/ ~Valid(hub.pending, Expected)
    /\ Fail
    /\ UNCHANGED <<learner, replies, actor, eval, mode, faults>>
LeaveLoop ==
    /\ hub.pc = "top" /\ hub.update = Updates
    /\ hub' = [hub EXCEPT !.pc = "agenda",
                  !.agenda = <<"endEval", "save", "save", "stop", "dismiss">>]
    /\ UNCHANGED <<learner, replies, actor, eval, mode, faults>>

-----------------------------------------------------------------------------
(* PersistentLearner::train: a barrier for each minibatch. *)

Reply == Head(replies)
Fits(kind) == /\ Reply.kind = kind /\ Reply.id = hub.lid - 1
              /\ Reply.shard \notin hub.heard
              /\ kind = "gradient" => Reply.round = hub.round
Waits(where) == hub.pc = where /\ replies # <<>>
Everyone == hub.heard \cup {Reply.shard} = Shards
Hear == replies' = Tail(replies)

TrainingFailed == hub' = [hub EXCEPT !.pc = "rollouts", !.at = 1, !.err = TRUE]

Verdict(finite) ==
    IF ~finite THEN "discard" ELSE IF mode.nccl THEN "collective" ELSE "apply"

Gather ==
    LET finite == ~hub.spoilt /\ Reply.finite IN
    /\ Waits("gather") /\ Fits("gradient") /\ Hear
    /\ IF ~Everyone
       THEN /\ hub' = [hub EXCEPT !.heard = @ \cup {Reply.shard}, !.spoilt = ~finite]
            /\ UNCHANGED learner
       ELSE /\ learner' = Decided(learner, Verdict(finite))
            /\ hub' = [hub EXCEPT !.heard = {}, !.spoilt = FALSE,
                          !.round = IF @ < Rounds THEN @ + 1 ELSE @,
                          !.pc = IF hub.round < Rounds THEN @ ELSE "trained"]
    /\ UNCHANGED <<actor, eval, mode, faults>>

\* A reply that does not fit, such as an owner's error, ends the training; in
\* the barrier every owner is told so.
BadPacket ==
    /\ Waits("gather") /\ ~Fits("gradient") /\ Hear
    /\ learner' = Decided(learner, "abort")
    /\ TrainingFailed
    /\ UNCHANGED <<actor, eval, mode, faults>>

Trained ==
    /\ Waits("trained") /\ Fits("trained") /\ Hear
    /\ hub' = [hub EXCEPT !.heard = @ \cup {Reply.shard},
                  !.snaps[Reply.shard] = Reply.w,
                  !.pc = IF Everyone THEN "rollouts" ELSE @, !.at = 1]
    /\ UNCHANGED <<learner, actor, eval, mode, faults>>
BadResult ==
    /\ Waits("trained") /\ ~Fits("trained") /\ Hear
    /\ TrainingFailed
    /\ UNCHANGED <<learner, actor, eval, mode, faults>>

\* Fifteen seconds without a reply, and a learner's thread has ended.  (An idle
\* learner answers sooner, so this does not end an orderly shutdown.)
LearnerLost ==
    /\ hub.pc \in {"gather", "trained", "acks"} /\ replies = <<>>
    /\ hub.pc = "acks" => Head(hub.agenda) # "stop"
    /\ \E s \in Shards : ~Live(learner[s])
    /\ learner' = Decided(learner, "abort")
    /\ IF hub.pc = "acks" THEN Fail ELSE TrainingFailed
    /\ UNCHANGED <<replies, actor, eval, mode, faults>>

-----------------------------------------------------------------------------
(* The rollouts are awaited in the order of the actors, whether or not the *)
(* training succeeded; then comes the second half of the update.           *)

Due(every) == hub.update % every = 0

\* What is left of this update, by whether the curriculum moves and whether the
\* number of environments is to change, with the stage or by autoscaling.
Resize == <<"endEval", "save", "stop", "dismiss">>
Stay == (IF Due(EvalEvery) THEN <<"eval">> ELSE <<>>)
        \o (IF Due(CkptEvery) /\ hub.update > 0 THEN <<"save", "save">> ELSE <<>>)
Agendas(moves) ==
    IF moves
    THEN {<<"stage", "save", "refresh">> \o Stay, <<"stage", "save", "refresh">> \o Resize,
          <<"save">> \o Resize}
    ELSE {<<"refresh">> \o Stay, <<"refresh">> \o Resize}

Answer == actor[hub.at].out[1]
Answered(kind) == /\ actor[hub.at].out # <<>>
                  /\ Answer.kind = kind /\ Answer.id = hub.aid[hub.at] - 1
Heard == actor' = [actor EXCEPT ![hub.at].out = Tail(@)]
LastActor == hub.at = NumShards
NextActor == IF LastActor THEN 1 ELSE hub.at + 1

Taken == [hub.next EXCEPT ![hub.at] = [version |-> Answer.version, w |-> Answer.w]]

TakeRollout ==
    /\ hub.pc = "rollouts" /\ Answered("collected") /\ Heard
    /\ LastActor => ~hub.err /\ Valid(Taken, hub.update)
    /\ LET seen == [hub EXCEPT !.next = Taken, !.at = NextActor] IN
       IF ~LastActor THEN hub' = seen
       ELSE IF hub.lid = 1      \* before the loop
       THEN hub' = [seen EXCEPT !.pc = "top", !.pending = Taken]
       ELSE \E moves \in BOOLEAN : \E todo \in Agendas(moves) :
              /\ moves => hub.stages < MaxStages
              /\ hub' = [seen EXCEPT !.pc = "agenda", !.pending = Taken,
                            !.agenda = todo, !.stages = IF moves THEN @ + 1 ELSE @]
    /\ UNCHANGED <<learner, replies, eval, mode, faults>>
BadRollout ==
    /\ hub.pc = "rollouts"
    /\ \/ Answered("collected") /\ LastActor /\ (hub.err \/ ~Valid(Taken, hub.update))
       \/ actor[hub.at].out # <<>> /\ ~Answered("collected")
       \/ actor[hub.at].out = <<>> /\ ~Live(actor[hub.at])
    /\ Fail
    /\ UNCHANGED <<learner, replies, actor, eval, mode, faults>>

-----------------------------------------------------------------------------
(* The agenda, at whose end the next update begins, or the run is done. *)

Doing(kinds) == hub.pc = "agenda" /\ hub.agenda # <<>> /\ Head(hub.agenda) \in kinds

NextUpdate ==
    /\ hub.pc = "agenda" /\ hub.agenda = <<>>
    /\ hub' = [hub EXCEPT !.pc = "top", !.update = @ + 1]
    /\ UNCHANGED <<learner, replies, actor, eval, mode, faults>>

\* save_weights, and the shutdown of the learners.
AskLearners ==
    /\ Doing({"save", "stop"})
    /\ learner' = Told(Head(hub.agenda))
    /\ hub' = [hub EXCEPT !.pc = "acks", !.heard = {}, !.lid = @ + 1]
    /\ UNCHANGED <<replies, actor, eval, mode, faults>>
HearAck ==
    /\ Waits("acks") /\ Fits("ack") /\ Hear
    /\ hub' = IF Everyone THEN [hub EXCEPT !.pc = "agenda", !.agenda = Tail(@)]
                          ELSE [hub EXCEPT !.heard = @ \cup {Reply.shard}]
    /\ UNCHANGED <<learner, actor, eval, mode, faults>>
BadAck ==
    /\ Waits("acks") /\ ~Fits("ack") /\ Hear
    /\ Fail
    /\ UNCHANGED <<learner, actor, eval, mode, faults>>

\* The state beside the weights, or another file of the save, is not written.
SaveFails ==
    /\ Fault /\ Waits("acks") /\ Fits("ack") /\ Everyone /\ Hear
    /\ Head(hub.agenda) = "save" /\ Fail
    /\ UNCHANGED <<learner, actor, eval, mode>>

\* set_stage, refresh and shutdown of the actors, one after the other.
AskActor ==
    /\ Doing({"stage", "refresh", "dismiss"})
    /\ actor' = Asked({hub.at}, Head(hub.agenda))
    /\ hub' = [hub EXCEPT !.pc = "answer", !.aid = NextIds({hub.at})]
    /\ UNCHANGED <<learner, replies, eval, mode, faults>>
HearActor ==
    /\ hub.pc = "answer" /\ Answered("ack") /\ Heard
    /\ hub' = [hub EXCEPT !.at = NextActor,
                  !.agenda = IF LastActor THEN Tail(@) ELSE @,
                  !.pc = IF LastActor /\ hub.agenda = <<"dismiss">> THEN "done"
                                                                    ELSE "agenda"]
    /\ UNCHANGED <<learner, replies, eval, mode, faults>>
BadAnswer ==
    /\ hub.pc = "answer" /\ ~Answered("ack")
    /\ actor[hub.at].out # <<>> \/ ~Live(actor[hub.at])
    /\ Fail
    /\ UNCHANGED <<learner, replies, actor, eval, mode, faults>>

\* AsyncEval::submit: while one is in flight, an evaluation is skipped.
Submit ==
    /\ Doing({"eval"})
    /\ eval' = IF hub.flight = NoFlight THEN [eval EXCEPT !.cmd = "run"] ELSE eval
    /\ hub' = [hub EXCEPT !.agenda = Tail(@),
                  !.flight = IF @ = NoFlight THEN hub.update ELSE @]
    /\ UNCHANGED <<learner, replies, actor, mode, faults>>

\* AsyncEval::shutdown.  The channel holds one command, and a second one waits.
StopEval == /\ eval.cmd = "none" \/ ~Live(eval)
            /\ eval' = [eval EXCEPT !.cmd = "stop"]
EndEval ==
    /\ Doing({"endEval"}) /\ StopEval
    /\ hub' = [hub EXCEPT !.pc = "evalEnd"]
    /\ UNCHANGED <<learner, replies, actor, mode, faults>>
EvalEnded ==
    /\ hub.pc = "evalEnd" /\ ~Live(eval)
    /\ hub.flight = NoFlight \/ eval.result = "ok"
    /\ hub' = [hub EXCEPT !.pc = "agenda", !.agenda = Tail(@), !.flight = NoFlight]
    /\ eval' = [eval EXCEPT !.result = "none"]
    /\ UNCHANGED <<learner, replies, actor, mode, faults>>
EvalLost ==
    /\ hub.pc = "evalEnd" /\ hub.flight # NoFlight /\ PollFails
    /\ Fail
    /\ UNCHANGED <<learner, replies, actor, eval, mode, faults>>

-----------------------------------------------------------------------------
(* An error leaves run(), and its locals are dropped: the evaluation, the  *)
(* learners, the actors, each of which is joined.                          *)

Goes(from, to) == hub.pc = from /\ hub' = [hub EXCEPT !.pc = to]

DropEval == /\ Goes("dropEval", "joinEval") /\ StopEval
            /\ UNCHANGED <<learner, replies, actor, mode, faults>>
JoinEval == /\ Goes("joinEval", "dropLearners") /\ ~Live(eval)
            /\ UNCHANGED <<learner, replies, actor, eval, mode, faults>>
DropLearners ==
    /\ hub.pc = "dropLearners"
    /\ learner' = Decided(Told("stop"), "abort")
    /\ hub' = [hub EXCEPT !.pc = "joinLearners", !.lid = @ + 1]
    /\ UNCHANGED <<replies, actor, eval, mode, faults>>
JoinLearners ==
    /\ hub.pc = "joinLearners" /\ \A s \in Shards : ~Live(learner[s])
    /\ hub' = [hub EXCEPT !.pc = "dropActors", !.at = 1]
    /\ UNCHANGED <<learner, replies, actor, eval, mode, faults>>
DropActor ==
    /\ hub.pc = "dropActors"
    /\ actor' = Asked({hub.at}, "dismiss")
    /\ hub' = [hub EXCEPT !.pc = "joinActor", !.aid = NextIds({hub.at})]
    /\ UNCHANGED <<learner, replies, eval, mode, faults>>
JoinActor ==
    /\ hub.pc = "joinActor" /\ ~Live(actor[hub.at])
    /\ hub' = [hub EXCEPT !.pc = IF LastActor THEN "failed" ELSE "dropActors",
                          !.at = NextActor]
    /\ UNCHANGED <<learner, replies, actor, eval, mode, faults>>

HubStep ==
    \/ Prime \/ StartUpdate \/ CannotStart \/ LeaveLoop
    \/ Gather \/ BadPacket \/ Trained \/ BadResult \/ LearnerLost
    \/ TakeRollout \/ BadRollout
    \/ NextUpdate \/ AskLearners \/ HearAck \/ BadAck
    \/ AskActor \/ HearActor \/ BadAnswer
    \/ Submit \/ EndEval \/ EvalEnded \/ EvalLost
    \/ DropEval \/ JoinEval \/ DropLearners \/ JoinLearners
    \/ DropActor \/ JoinActor

-----------------------------------------------------------------------------
(* A learner: learner_loop, and train_update up to each minibatch's barrier. *)

Becomes(s, l) == learner' = [learner EXCEPT ![s] = l]
\* Plausible bug: the snapshot is taken before the last optimizer step.
SaysEarly(s, kind, l) ==
    replies' = Append(replies, [kind |-> kind, shard |-> s, id |-> l.next - 1,
        round |-> IF kind = "gradient" THEN l.round ELSE 0, finite |-> TRUE,
        w |-> IF kind = "trained" THEN l.w \ {<<hub.update, Rounds>>} ELSE {}])
Says(s, kind, l) ==     \* in answer to the last command that l accepted
    replies' = Append(replies, [kind |-> kind, shard |-> s, id |-> l.next - 1,
        round |-> IF kind = "gradient" THEN l.round ELSE 0, finite |-> TRUE,
        w |-> IF kind = "trained" THEN l.w ELSE {}])
Ended(l) == [l EXCEPT !.pc = "dead", !.cmd = <<>>, !.dec = <<>>]
Fails(s, l) == Becomes(s, Ended(l)) /\ Says(s, "failed", l)

Accepted(l) == [l EXCEPT !.cmd = Tail(@), !.next = @ + 1]
LearnerAccepts(s) ==
    LET l == Accepted(learner[s]) IN
    /\ learner[s].pc = "idle" /\ learner[s].cmd # <<>>
    /\ LET c == Head(learner[s].cmd) IN
       \/ /\ c.id # learner[s].next /\ Fails(s, l)
       \/ /\ c.id = learner[s].next /\ c.kind = "train"
          /\ Becomes(s, [l EXCEPT !.pc = "computing", !.round = 1, !.joined = 0])
          /\ UNCHANGED replies
       \/ /\ c.id = learner[s].next /\ c.kind = "save"
          /\ Becomes(s, l) /\ Says(s, "ack", l)
       \/ /\ c.id = learner[s].next /\ c.kind = "stop"
          /\ Becomes(s, Ended(l)) /\ Says(s, "ack", l)
    /\ UNCHANGED <<hub, actor, eval, mode, faults>>

\* A minibatch's losses may fail to be finite.
Offers(s) ==
    /\ learner[s].pc = "computing"
    /\ Becomes(s, [learner[s] EXCEPT !.pc = "waiting"])
    /\ \E finite \in BOOLEAN :
          /\ finite \/ learner[s].round \in MaySpoil
          /\ replies' = Append(replies,
                [kind |-> "gradient", shard |-> s, id |-> learner[s].next - 1,
                 round |-> learner[s].round, finite |-> finite, w |-> {}])
    /\ UNCHANGED <<hub, actor, eval, mode, faults>>

Passed(l) == IF l.round < Rounds THEN [l EXCEPT !.pc = "computing", !.round = @ + 1]
                                 ELSE [l EXCEPT !.pc = "finished"]
Stepped(l) == Passed([l EXCEPT !.w = @ \cup {<<hub.update, l.round>>}])

\* Plausible bug: a learner steps on its own gradient, whatever was decided.
TakeDecisionByItself(s) ==
    LET l == [learner[s] EXCEPT !.dec = Tail(@)] IN
    /\ learner[s].pc = "waiting" /\ learner[s].dec # <<>>
    /\ IF Head(learner[s].dec) = "abort" THEN Fails(s, l)
       ELSE /\ UNCHANGED replies
            /\ \E finite \in BOOLEAN :
                  /\ finite \/ l.round \in MaySpoil
                  /\ Becomes(s, IF finite THEN Stepped(l) ELSE Passed(l))
    /\ UNCHANGED <<hub, actor, eval, mode, faults>>

TakeDecision(s) ==
    LET l == [learner[s] EXCEPT !.dec = Tail(@)] IN
    /\ learner[s].pc = "waiting" /\ learner[s].dec # <<>>
    /\ LET d == Head(learner[s].dec) IN
       \/ d = "apply" /\ Becomes(s, Stepped(l)) /\ UNCHANGED replies
       \/ /\ d = "collective" /\ UNCHANGED replies
          /\ Becomes(s, [l EXCEPT !.pc = "reducing", !.joined = l.round])
       \/ d = "discard" /\ Becomes(s, Passed(l)) /\ UNCHANGED replies
       \/ d = "abort" /\ Fails(s, l)
    /\ UNCHANGED <<hub, actor, eval, mode, faults>>

\* all_reduce_average: a rank is through when all have entered, and gives up
\* on one that does not come.
Reduced(s) ==
    /\ learner[s].pc = "reducing"
    /\ \A t \in Shards : learner[t].joined >= learner[s].round
    /\ Becomes(s, Stepped(learner[s]))
    /\ UNCHANGED <<hub, replies, actor, eval, mode, faults>>
TimesOut(s) ==
    /\ learner[s].pc = "reducing"
    /\ \E t \in Shards : ~Live(learner[t]) /\ learner[t].joined < learner[s].round
    /\ Fails(s, learner[s])
    /\ UNCHANGED <<hub, actor, eval, mode, faults>>

Reports(s) ==
    /\ learner[s].pc = "finished"
    /\ Becomes(s, [learner[s] EXCEPT !.pc = "idle"])
    /\ Says(s, "trained", learner[s])
    /\ UNCHANGED <<hub, actor, eval, mode, faults>>

\* Where it may fail.  Only the first shard's learner writes a file.
Working(s) ==
    \/ learner[s].pc \in {"computing", "reducing", "finished"}
    \/ /\ learner[s].pc = "waiting" /\ learner[s].dec # <<>>
       /\ Head(learner[s].dec) \in {"apply", "collective"}
    \/ /\ s = 1 /\ learner[s].pc = "idle" /\ learner[s].cmd # <<>>
       /\ Head(learner[s].cmd).kind = "save"
LearnerErrs(s) ==
    /\ Fault /\ Working(s)
    /\ Fails(s, IF learner[s].pc = "idle" THEN Accepted(learner[s]) ELSE learner[s])
    /\ UNCHANGED <<hub, actor, eval, mode>>
LearnerPanics(s) ==
    /\ Fault /\ Working(s)
    /\ Becomes(s, Ended(learner[s]))
    /\ UNCHANGED <<hub, replies, actor, eval, mode>>

-----------------------------------------------------------------------------
(* An actor: actor_loop, and its environments.                             *)

Acts(s, a) == actor' = [actor EXCEPT ![s] = a]
Answers(a, kind) == [a EXCEPT !.out = Append(@, [kind |-> kind, id |-> a.next - 1,
    version |-> IF kind = "collected" THEN a.version ELSE 0,
    w |-> IF kind = "collected" THEN a.w ELSE {}])]
Closed(a) == [a EXCEPT !.pc = "dead", !.cmd = <<>>, !.left = [e \in Envs |-> 0]]

Begun(a) == [a EXCEPT !.cmd = Tail(@), !.next = @ + 1]
Stale(a, c) == c.kind = "refresh" /\ c.version <= a.version
ActorAccepts(s) ==
    LET a == Begun(actor[s]) IN
    /\ actor[s].pc = "idle" /\ actor[s].cmd # <<>>
    /\ LET c == Head(actor[s].cmd)
           ok == c.id = actor[s].next /\ ~Stale(actor[s], c) IN
       \/ ~ok /\ Acts(s, Closed(Answers(a, "failed")))
       \/ /\ ok /\ c.kind = "collect"
          /\ Acts(s, [a EXCEPT !.pc = "collecting",
                               !.left = [e \in Envs |-> RolloutLen]])
       \/ /\ ok /\ c.kind = "refresh"
          /\ Acts(s, Answers([a EXCEPT !.version = c.version, !.w = c.w], "ack"))
       \/ ok /\ c.kind = "stage" /\ Acts(s, Answers(a, "ack"))
       \/ ok /\ c.kind = "dismiss" /\ Acts(s, Closed(Answers(a, "ack")))
    /\ UNCHANGED <<hub, learner, replies, eval, mode, faults>>

\* An environment is given an action, steps, and the actor takes the transition.
Collecting(s) == actor[s].pc = "collecting"
Busy(s, e) == Collecting(s) /\ actor[s].left[e] > 0 /\ e \notin actor[s].lost
EnvSteps(s, e) ==
    /\ Busy(s, e)
    /\ Acts(s, [actor[s] EXCEPT !.left[e] = @ - 1])
    /\ UNCHANGED <<hub, learner, replies, eval, mode, faults>>
Collects(s) ==
    /\ Collecting(s) /\ \A e \in Envs : actor[s].left[e] = 0
    /\ Acts(s, Answers([actor[s] EXCEPT !.pc = "idle"], "collected"))
    /\ UNCHANGED <<hub, learner, replies, eval, mode, faults>>

\* An environment's thread is gone: its own channel is closed, but a channel
\* they share is not before the last of them is.
NoticesLoss(s) ==
    /\ Collecting(s) /\ actor[s].lost # {}
    /\ mode.shared => actor[s].lost = Envs
    /\ Acts(s, Closed(Answers(actor[s], "failed")))
    /\ UNCHANGED <<hub, learner, replies, eval, mode, faults>>

EnvPanics(s, e) ==
    /\ Fault /\ Busy(s, e)
    /\ Acts(s, [actor[s] EXCEPT !.lost = @ \cup {e}])
    /\ UNCHANGED <<hub, learner, replies, eval, mode>>
\* Its own error, or one that an environment has sent it.
Loading(s) == /\ actor[s].pc = "idle" /\ actor[s].cmd # <<>>
              /\ Head(actor[s].cmd).kind = "refresh"
ActorErrs(s) ==
    /\ Fault /\ (Collecting(s) \/ Loading(s))
    /\ Acts(s, Closed(Answers(IF Loading(s) THEN Begun(actor[s]) ELSE actor[s],
                              "failed")))
    /\ UNCHANGED <<hub, learner, replies, eval, mode>>
ActorPanics(s) ==
    /\ Fault /\ (Collecting(s) \/ Loading(s))
    /\ Acts(s, Closed(actor[s]))
    /\ UNCHANGED <<hub, learner, replies, eval, mode>>

-----------------------------------------------------------------------------
(* The evaluation thread. *)

EvalTakes ==
    /\ eval.pc = "idle" /\ eval.cmd # "none"
    /\ eval' = [eval EXCEPT !.cmd = "none",
                            !.pc = IF eval.cmd = "run" THEN "running" ELSE "dead"]
    /\ UNCHANGED <<hub, learner, replies, actor, mode, faults>>
EvalReports ==
    /\ eval.pc = "running"
    /\ eval' = [eval EXCEPT !.pc = "idle", !.result = "ok"]
    /\ UNCHANGED <<hub, learner, replies, actor, mode, faults>>
EvalErrs ==
    /\ Fault /\ eval.pc = "running"
    /\ eval' = [eval EXCEPT !.pc = "idle", !.result = "err"]
    /\ UNCHANGED <<hub, learner, replies, actor, mode>>
EvalPanics ==
    /\ Fault /\ eval.pc = "running"
    /\ eval' = [eval EXCEPT !.pc = "dead", !.cmd = "none"]
    /\ UNCHANGED <<hub, learner, replies, actor, mode>>

-----------------------------------------------------------------------------
Progress ==
    \/ HubStep
    \/ \E s \in Shards :
          \/ LearnerAccepts(s) \/ Offers(s) \/ TakeDecision(s)
          \/ Reduced(s) \/ TimesOut(s) \/ Reports(s)
          \/ ActorAccepts(s) \/ Collects(s) \/ NoticesLoss(s)
          \/ \E e \in Envs : EnvSteps(s, e)
    \/ EvalTakes \/ EvalReports

Breakdown ==
    \/ SaveFails \/ EvalErrs \/ EvalPanics
    \/ \E s \in Shards :
          \/ LearnerErrs(s) \/ LearnerPanics(s) \/ ActorErrs(s) \/ ActorPanics(s)
          \/ \E e \in Envs : EnvPanics(s, e)

Next == Progress \/ Breakdown

\* Threads run, and what a thread does ends: only breakdowns are not owed.
Spec == Init /\ [][Next]_vars /\ WF_vars(Progress)

-----------------------------------------------------------------------------
(* Properties. *)

\* The replicas drift nowhere: whenever the hub goes on after a training, saves
\* the weights or hands them to the actors, every learner has taken the same
\* optimizer steps, whoever discarded, reduced or failed in between.
InTraining == hub.pc \in {"gather", "trained"} \/ hub.err
ReplicasAgree ==
    \A s, t \in Shards :
        ~InTraining /\ hub.pc \notin Failing => learner[s].w = learner[t].w

\* A policy version names weights: what an actor acts with, and what a rollout
\* of version v was collected with, are exactly the steps its learner took
\* before update v, although the learner trains at the same time.
Before(s, version) == {x \in learner[s].w : x[1] < version}
VersionsNameWeights ==
    \A s \in Shards :
        /\ actor[s].w = Before(s, actor[s].version)
        /\ hub.pending[s].w = Before(s, hub.pending[s].version)

\* No protocol check fails by itself: a run ends with an error only after a
\* thread or a write failed.  (The ids, the versions, the order of packets and
\* the watchdog over the learners never end a run in which nothing went wrong.)
ErrorsHaveACause == hub.pc \in Failing \/ hub.err => faults > 0

\* Every run ends, done or failed, with all its threads ended, whatever breaks
\* down: except when the thread of one environment panics while others of the
\* same actor share its channel, which the collector waits on for ever.
AllEnded == /\ hub.pc \in {"done", "failed"} /\ ~Live(eval)
            /\ \A s \in Shards : ~Live(learner[s]) /\ ~Live(actor[s])
Stranded == \E s \in Shards :
    /\ Collecting(s) /\ mode.shared /\ actor[s].lost # {} /\ actor[s].lost # Envs
EveryRunEnds == <>(AllEnded \/ Stranded)
=============================================================================
