------------------------------- MODULE Turns -------------------------------
(***************************************************************************)
(* execute_next_tick (src/rust/engine/src/game.rs), the loop that the      *)
(* executions of Arsenal and Fleet are driven by.  A tick gives every      *)
(* execution its turn, in the order of the list "execs", then initialises  *)
(* those in "uninit", oldest first, and appends them.                      *)
(*                                                                         *)
(* An execution that is done is dropped in its turn, where the code drops  *)
(* it at the end of the tick: who looks for an execution in the list asks  *)
(* for one that works for a unit which is there.                           *)
(***************************************************************************)
EXTENDS Integers, Sequences

VARIABLES
    execs,        \* Game.execs
    uninit,       \* Game.uninit
    phase,        \* where execute_next_tick is
    cursor        \* the place in execs of the next turn

loopVars == <<execs, uninit, phase, cursor>>

LoopTypeOK(JobType) ==
    /\ execs \in Seq(JobType) /\ uninit \in Seq(JobType)
    /\ phase \in {"orders", "turns", "inits"}
    /\ cursor \in Nat \ {0}

LoopInit(jobs) == execs = jobs /\ uninit = <<>> /\ phase = "orders" /\ cursor = 1

OpenTick == /\ phase = "orders"
            /\ phase' = "turns" /\ cursor' = 1
            /\ UNCHANGED <<execs, uninit>>
AllHadTurns == /\ phase = "turns" /\ cursor > Len(execs)
               /\ phase' = "inits"
               /\ UNCHANGED <<execs, uninit, cursor>>
CloseTick == /\ phase = "inits" /\ uninit = <<>>
             /\ phase' = "orders"
             /\ UNCHANGED <<execs, uninit, cursor>>

-----------------------------------------------------------------------------
(* In the turn of an execution: *)

Turn(k) == phase = "turns" /\ cursor <= Len(execs) /\ execs[cursor].kind = k
Me == execs[cursor]

Stay(job) == execs' = [execs EXCEPT ![cursor] = job] /\ cursor' = cursor + 1
Done == /\ execs' = SubSeq(execs, 1, cursor - 1) \o SubSeq(execs, cursor + 1, Len(execs))
        /\ UNCHANGED cursor
Add(jobs) == uninit' = uninit \o jobs

-----------------------------------------------------------------------------
(* In its initialisation: *)

DueInit(k) == phase = "inits" /\ uninit # <<>> /\ uninit[1].kind = k
New1 == uninit[1]
Append1(job) == execs' = Append(execs, job) /\ uninit' = Tail(uninit)
Drop1 == uninit' = Tail(uninit) /\ UNCHANGED execs
=============================================================================
