------------------------------ MODULE Doomsday ------------------------------
(***************************************************************************)
(* The doomsday clock (doomsday_clock_execution.rs and doomsday_clock.rs   *)
(* of src/rust/engine/src), upon the ships and ports of Fleet: who holds   *)
(* too little land for too long loses its warships, which no port repairs  *)
(* meanwhile.                                                              *)
(*                                                                         *)
(* Land is the coast of Fleet, none of it under fallout.  Troops, which    *)
(* bleed on the same schedule, are not part of Fleet.                      *)
(***************************************************************************)
EXTENDS Fleet, FiniteSetsExt

CONSTANTS
    Bots,           \* the players that are PlayerType::Bot
    Second,         \* the ticks between two looks at the land, 10
    Calm,           \* grace_seconds
    Ramp,           \* ramp_seconds
    Pause,          \* pause_seconds
    Levels,         \* LEVELS: a player's share in ten thousandths after each wave
    Warn,           \* warn_seconds, 10
    DrainStart,     \* drain_start_percent, 2
    DrainMax,       \* warship_drain_max_percent, 50
    DrainRamp       \* drain_ramp_seconds, 50

ASSUME DoomsdayAssumption ==
    /\ Bots \subseteq Players
    /\ {Second, Ramp, DrainRamp} \subseteq Nat \ {0}
    /\ {Calm, Pause, Warn, DrainStart, DrainMax} \subseteq Nat
    /\ Levels \in Seq(0 .. 10000) /\ Levels # <<>>

doomVars == <<vars, under>>

Worst == Warn + DrainRamp

\* The clock counts until the last wave is over and the drain at its worst.
LastSecond == Calm + Len(Levels) * (Ramp + Pause)
Later(ticks) == IF ticks + 1 < (LastSecond + 1) * Second THEN ticks + 1 ELSE LastSecond * Second
Elapsed == Me.ticks \div Second

-----------------------------------------------------------------------------
(* Who is doomed. *)

Contenders == {p \in Players : Has(p) /\ p \notin Bots}
\* Whole teams, of those who live.
Sides == {{q \in Contenders : Team[q] = Team[p]} : p \in Contenders}
Tiles(S) == Cardinality({x \in Places : land[x] \in S})
\* The first of those with the most land.
Leading(S) == \A R \in Sides \ {S} : \/ Tiles(R) < Tiles(S)
                                     \/ Tiles(R) = Tiles(S) /\ Min(S) < Min(R)

\* required_basis_points: a wave rises for Ramp seconds and holds for Pause.
Bar ==
    LET t      == Elapsed - Calm
        wave   == t \div (Ramp + Pause)
        into   == t % (Ramp + Pause)
        before == IF wave = 0 THEN 0 ELSE Levels[wave]
    IN  IF t <= 0 THEN 0
        ELSE IF wave >= Len(Levels) THEN Levels[Len(Levels)]
        ELSE IF into >= Ramp THEN Levels[wave + 1]
        ELSE before + ((Levels[wave + 1] - before) * into) \div Ramp
\* A side needs what each of its members would.
Required(S) == Least(Cardinality(S) * ((Bar * Cardinality(Places)) \div 10000),
                     Cardinality(Places))

\* Never the leading side, and nobody when a single side is left.
Doomed == UNION {S \in Sides : ~Leading(S) /\ Tiles(S) < Required(S)}

\* enter_doomsday_clock, which keeps an older mark, and clear_doomsday_clock.
EnteredAnew(p) == 0
Entered(p) == Least(under[p] + 1, Worst)
Marks == [p \in Players |-> IF p \notin Contenders THEN under[p]
                            ELSE IF p \in Doomed THEN Entered(p) ELSE Unmarked]

-----------------------------------------------------------------------------
(* What the doomed lose. *)

\* doomsday_clock_drain, t seconds after the warning is over: at least one point.
Drain(t) ==
    LET percent == IF t >= DrainRamp THEN DrainMax
                   ELSE DrainStart + ((DrainMax - DrainStart) * t) \div DrainRamp
        points  == (MaxHealth * percent) \div 100
    IN  IF points < 1 THEN 1 ELSE points

Scuttled ==
    [u \in UnitIds |->
       LET p == unit[u].holder IN
       IF unit[u].type # "Warship" \/ p \notin Doomed \/ Entered(p) < Warn THEN unit[u]
       ELSE IF unit[u].health <= Drain(Entered(p) - Warn) THEN NoUnit
       ELSE [unit[u] EXCEPT !.health = @ - Drain(Entered(p) - Warn)]]

ClockTurn ==
    /\ Turn("clock")
    /\ IF Me.ticks % Second = 0 THEN under' = Marks /\ unit' = Scuttled
                                ELSE UNCHANGED <<under, unit>>
    /\ Stay([Me EXCEPT !.ticks = Later(@)])
    /\ UNCHANGED <<uninit, gold>> /\ Tick

-----------------------------------------------------------------------------
DoomInit == Init /\ under = [p \in Players |-> Unmarked]
DoomEngine == (Engine /\ UNCHANGED under) \/ ClockTurn
DoomNext == DoomEngine \/ (Outside /\ UNCHANGED under)

Spec == DoomInit /\ [][DoomNext]_doomVars
\* The host calls execute_next_tick for ever.
FairSpec == Spec /\ WF_doomVars(DoomEngine)

-----------------------------------------------------------------------------
(* A side that stays below the bar loses its warships, old ones and new,   *)
(* in port or out of it: its mark is kept from check to check, its ships   *)
(* are not repaired, and the drain comes to its worst.                     *)
DoomedFleetsSink ==
    \A u \in UnitIds : []<>~(unit[u].type = "Warship" /\ under[unit[u].holder] # Unmarked)
=============================================================================
