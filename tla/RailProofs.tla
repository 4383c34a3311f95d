----------------------------- MODULE RailProofs -----------------------------
(***************************************************************************)
(* Theorems about Arsenal and Rail.                                        *)
(***************************************************************************)
EXTENDS Rail, FiniteSetTheorems, SequenceTheorems, TLAPS

\* The lists of executions, and what is said of any of them.
Jobs == Range(execs) \cup Range(uninit)
Runners == {"city", "factory", "port", "post", "silo", "sam"}
JobOK(j) ==
    /\ {"kind", "by", "unit", "prey", "from"} \subseteq DOMAIN j
    /\ j.kind \in Kinds => {"type", "tile", "victim"} \subseteq DOMAIN j
    /\ j.kind # "recompute" => j.by \in Players
    /\ j.unit \in UnitIds \cup {NoUnitId}
    /\ j.kind \in Runners \cup {"station", "upgrade", "delete"} => j.unit \in UnitIds
    /\ j.kind = "hunt" => j.prey \in UnitIds /\ j.from \in UnitIds /\ j.victim \in Players
    /\ j.kind = "build" => j.type \in Structures \cup {"Bomb", "MIRV"} /\ j.tile \in Tiles
    /\ j.kind = "nuke" => j.type \in {"Bomb", "Warhead"} /\ j.tile \in Tiles
    /\ j.kind = "mirv" => j.tile \in Tiles
Loop == /\ execs \in Seq(Range(execs)) /\ uninit \in Seq(Range(uninit))
        /\ cursor \in Nat \ {0} /\ todo \in PlanType
        /\ \A j \in Jobs : JobOK(j)

\* What each kind of execution works for.
Crew == {<<"city", "City">>, <<"factory", "Factory">>, <<"port", "Port">>, <<"post", "Post">>,
         <<"silo", "Silo">>, <<"sam", "SAM">>,
         <<"station", "City">>, <<"station", "Factory">>, <<"station", "Port">>,
         <<"mirv", "MIRV">>, <<"nuke", "Bomb">>, <<"nuke", "Warhead">>,
         <<"hunt", "Missile">>, <<"train", "Train">>}
        \cup {"build", "upgrade", "delete"} \X Structures
\* The units that an execution names are what it takes them for, or are gone: no id is
\* used again while it is named.
Fits(j) ==
    /\ j.unit # NoUnitId /\ Exists(j.unit) =>
          /\ <<j.kind, unit[j.unit].type>> \in Crew
          /\ j.kind \in {"build", "nuke"} => unit[j.unit].type = j.type
          /\ j.kind \in {"hunt", "train"} => unit[j.unit].holder = j.by
    /\ j.kind = "hunt" =>
          /\ unit[j.from].type \in {"SAM", "none"}
          /\ Exists(j.prey) => unit[j.prey].type = "Bomb" /\ unit[j.prey].holder = j.victim
Names == \A j \in Jobs : Fits(j)

-----------------------------------------------------------------------------
(* Lists. *)

LEMMA Listed ==
    ASSUME NEW s, s \in Seq(Range(s))
    PROVE  /\ Len(s) \in Nat /\ DOMAIN s = 1 .. Len(s)
           /\ \A i \in 1 .. Len(s) : s[i] \in Range(s)
           /\ \A j \in Range(s) : \E i \in 1 .. Len(s) : s[i] = j
  BY LenProperties DEF Range
LEMMA Listing ==
    ASSUME NEW S, NEW s \in Seq(S)
    PROVE  s \in Seq(Range(s))
  BY SeqOfRange

LEMMA AppendList ==
    ASSUME NEW s, s \in Seq(Range(s)), NEW j, NEW t, t = Append(s, j)
    PROVE  /\ t \in Seq(Range(t)) /\ Len(t) = Len(s) + 1
           /\ \A i \in 1 .. Len(s) : t[i] = s[i]
           /\ t[Len(s) + 1] = j
           /\ Range(t) = Range(s) \cup {j}
<1> DEFINE S == Range(s) \cup {j}
<1>1. s \in Seq(S)
  BY SeqMonotonic
<1>2. /\ t \in Seq(S) /\ Len(t) = Len(s) + 1
      /\ \A i \in 1 .. Len(s) : t[i] = s[i]
      /\ t[Len(s) + 1] = j
  BY <1>1, AppendProperties
<1>3. t \in Seq(Range(t))
  BY <1>2, Listing
<1>4. Range(t) \subseteq S
  BY <1>2, RangeOfSeq
<1>5. ASSUME NEW k \in S PROVE k \in Range(t)
  <2>1. CASE k = j
    BY <1>2, <1>3, <2>1, Listed
  <2>2. CASE k \in Range(s)
    <3>1. PICK i \in 1 .. Len(s) : s[i] = k
      BY <2>2, Listed
    <3>2. i \in 1 .. Len(t) /\ t[i] = k
      BY <1>2, <3>1, Listed
    <3> QED BY <1>3, <3>2, Listed
  <2> QED BY <2>1, <2>2
<1> QED BY <1>2, <1>3, <1>4, <1>5

LEMMA TailList ==
    ASSUME NEW s, s \in Seq(Range(s)), s # <<>>, NEW t, t = Tail(s)
    PROVE  /\ t \in Seq(Range(t)) /\ Len(t) = Len(s) - 1 /\ Len(s) \in Nat \ {0}
           /\ \A i \in 1 .. Len(t) : t[i] = s[i + 1]
           /\ s[1] \in Range(s)
           /\ Range(s) = Range(t) \cup {s[1]}
<1>1. /\ t \in Seq(Range(s)) /\ Len(t) = Len(s) - 1 /\ Len(s) \in Nat \ {0}
      /\ \A i \in 1 .. Len(t) : t[i] = s[i + 1]
  BY HeadTailProperties, EmptySeq
<1>2. t \in Seq(Range(t))
  BY <1>1, Listing
<1>3. s[1] \in Range(s) /\ Range(t) \subseteq Range(s)
  <2>1. Range(t) \subseteq Range(s)
    BY <1>1, RangeOfSeq
  <2>2. 1 \in 1 .. Len(s)
    BY <1>1
  <2> QED BY <2>1, <2>2, Listed
<1>4. ASSUME NEW j \in Range(s), j # s[1] PROVE j \in Range(t)
  <2>1. PICK i \in 1 .. Len(s) : s[i] = j
    BY Listed
  <2>2. i - 1 \in 1 .. Len(t) /\ t[i - 1] = j
    BY <1>1, <1>4, <2>1
  <2> QED BY <1>2, <2>2, Listed
<1> QED BY <1>1, <1>2, <1>3, <1>4

LEMMA ExceptList ==
    ASSUME NEW s, s \in Seq(Range(s)), NEW c \in 1 .. Len(s), NEW j, NEW t, t = [s EXCEPT ![c] = j]
    PROVE  /\ t \in Seq(Range(t)) /\ Len(t) = Len(s)
           /\ \A i \in 1 .. Len(s) : t[i] = IF i = c THEN j ELSE s[i]
           /\ Range(t) \subseteq Range(s) \cup {j} /\ j \in Range(t)
           /\ \A i \in 1 .. Len(s) : i # c => s[i] \in Range(t)
<1> DEFINE S == Range(s) \cup {j}
<1>1. s \in Seq(S)
  BY SeqMonotonic
<1>2. /\ t \in Seq(S) /\ Len(t) = Len(s)
      /\ \A i \in 1 .. Len(s) : t[i] = IF i = c THEN j ELSE s[i]
  BY <1>1, ExceptSeq
<1>3. t \in Seq(Range(t))
  BY <1>2, Listing
<1>4. Range(t) \subseteq S
  BY <1>2, RangeOfSeq
<1> QED BY <1>2, <1>3, <1>4, Listed

Removed(s, c) == SubSeq(s, 1, c - 1) \o SubSeq(s, c + 1, Len(s))
LEMMA RemovedList ==
    ASSUME NEW s, s \in Seq(Range(s)), NEW c \in 1 .. Len(s), NEW t, t = Removed(s, c)
    PROVE  /\ t \in Seq(Range(t)) /\ Len(t) = Len(s) - 1
           /\ \A i \in 1 .. Len(t) : t[i] = s[IF i < c THEN i ELSE i + 1]
           /\ Range(t) \subseteq Range(s)
           /\ \A i \in 1 .. Len(s) : i # c => s[i] \in Range(t)
<1> DEFINE S == Range(s)
           a == SubSeq(s, 1, c - 1)
           b == SubSeq(s, c + 1, Len(s))
<1>1. Len(s) \in Nat /\ c \in Nat /\ \A i \in 1 .. Len(s) : s[i] \in S
  BY Listed
<1>2. /\ a \in Seq(S) /\ Len(a) = c - 1
      /\ \A i \in 1 .. c - 1 : a[i] = s[i]
  <2>1. 1 \in Int /\ c - 1 \in Int /\ \A i \in 1 .. c - 1 : s[i] \in S
    BY <1>1
  <2>2. /\ a \in Seq(S) /\ Len(a) = IF 1 <= c - 1 THEN (c - 1) - 1 + 1 ELSE 0
        /\ \A i \in 1 .. (c - 1) - 1 + 1 : a[i] = s[1 + i - 1]
    BY <2>1, SubSeqProperties
  <2> QED BY <1>1, <2>2
<1>3. /\ b \in Seq(S) /\ Len(b) = Len(s) - c
      /\ \A i \in 1 .. Len(s) - c : b[i] = s[c + i]
  <2>1. c + 1 \in Int /\ Len(s) \in Int /\ \A i \in c + 1 .. Len(s) : s[i] \in S
    BY <1>1
  <2>2. /\ b \in Seq(S) /\ Len(b) = IF c + 1 <= Len(s) THEN Len(s) - (c + 1) + 1 ELSE 0
        /\ \A i \in 1 .. Len(s) - (c + 1) + 1 : b[i] = s[(c + 1) + i - 1]
    BY <2>1, SubSeqProperties
  <2> QED BY <1>1, <2>2
<1> HIDE DEF a, b
<1>4. /\ a \o b \in Seq(S) /\ Len(a \o b) = Len(a) + Len(b)
      /\ \A i \in 1 .. Len(a) + Len(b) : (a \o b)[i] = IF i <= Len(a) THEN a[i] ELSE b[i - Len(a)]
  BY <1>2, <1>3, ConcatProperties
<1>5. t = a \o b
  BY DEF Removed, a, b
<1>6. /\ t \in Seq(S) /\ Len(t) = Len(s) - 1
      /\ \A i \in 1 .. Len(t) : t[i] = s[IF i < c THEN i ELSE i + 1]
  <2>1. Len(t) = Len(s) - 1
    <3>1. Len(t) = Len(a) + Len(b)
      BY <1>4, <1>5
    <3> QED BY <1>1, <1>2, <1>3, <3>1
  <2>2. ASSUME NEW i \in 1 .. Len(t), i < c PROVE t[i] = s[i]
    BY <1>1, <1>2, <1>3, <1>4, <1>5, <2>1, <2>2
  <2>3. ASSUME NEW i \in 1 .. Len(t), ~(i < c) PROVE t[i] = s[i + 1]
    <3>1. i - (c - 1) \in 1 .. Len(s) - c
      BY <1>1, <2>1, <2>3
    <3>2. t[i] = b[i - (c - 1)] /\ b[i - (c - 1)] = s[c + (i - (c - 1))]
      BY <1>1, <1>2, <1>3, <1>4, <1>5, <2>1, <2>3, <3>1
    <3>3. c + (i - (c - 1)) = i + 1
      BY <1>1, <2>3
    <3> QED BY <3>2, <3>3
  <2> QED BY <1>4, <1>5, <2>1, <2>2, <2>3
<1>7. t \in Seq(Range(t))
  BY <1>6, Listing
<1>8. Range(t) \subseteq Range(s)
  BY <1>6, RangeOfSeq
<1>9. ASSUME NEW i \in 1 .. Len(s), i # c PROVE s[i] \in Range(t)
  <2> DEFINE k == IF i < c THEN i ELSE i - 1
  <2>1. k \in 1 .. Len(t) /\ t[k] = s[i]
    BY <1>1, <1>6, <1>9
  <2> QED BY <1>7, <2>1, Listed
<1> QED BY <1>6, <1>7, <1>8, <1>9

Joined(s, r, t) == /\ t \in Seq(Range(t)) /\ Len(t) = Len(s) + Len(r)
                   /\ \A i \in 1 .. Len(s) : t[i] = s[i]
                   /\ \A i \in 1 .. Len(r) : t[Len(s) + i] = r[i]
                   /\ Range(t) = Range(s) \cup Range(r)
LEMMA ConcatList ==
    ASSUME NEW s, s \in Seq(Range(s)), NEW r, r \in Seq(Range(r))
    PROVE  Joined(s, r, s \o r)
<1>0. PICK t : t = s \o r
  OBVIOUS
<1> DEFINE S == Range(s) \cup Range(r)
<1>1. s \in Seq(S) /\ r \in Seq(S) /\ Len(s) \in Nat /\ Len(r) \in Nat
  BY SeqMonotonic, Listed
<1>2. /\ t \in Seq(S) /\ Len(t) = Len(s) + Len(r)
      /\ \A i \in 1 .. Len(s) + Len(r) : t[i] = IF i <= Len(s) THEN s[i] ELSE r[i - Len(s)]
  BY <1>0, <1>1, ConcatProperties
<1>3. ASSUME NEW i \in 1 .. Len(r) PROVE t[Len(s) + i] = r[i]
  <2>1. Len(s) + i \in 1 .. Len(s) + Len(r) /\ ~(Len(s) + i <= Len(s)) /\ (Len(s) + i) - Len(s) = i
    BY <1>1
  <2> QED BY <1>2, <2>1
<1>4. t \in Seq(Range(t)) /\ Range(t) = Range(s) \cup Range(r)
  BY <1>0, <1>1, <1>2, Listing, RangeConcatenation
<1>5. \A i \in 1 .. Len(s) : t[i] = s[i]
  BY <1>1, <1>2
<1>6. Joined(s, r, t)
  BY <1>2, <1>3, <1>4, <1>5 DEF Joined
<1> QED BY <1>0, <1>6
LEMMA OneJob ==
    ASSUME NEW j
    PROVE  <<j>> \in Seq(Range(<<j>>)) /\ Len(<<j>>) = 1 /\ Range(<<j>>) = {j} /\ <<j>>[1] = j
<1>1. <<j>> \in Seq({j})
  OBVIOUS
<1>2. <<j>> \in Seq(Range(<<j>>))
  BY <1>1, Listing
<1>3. Len(<<j>>) = 1 /\ <<j>>[1] = j /\ DOMAIN <<j>> = {1}
  OBVIOUS
<1>4. Range(<<j>>) = {j}
  BY <1>3 DEF Range
<1> QED BY <1>2, <1>3, <1>4

-----------------------------------------------------------------------------
(* Units. *)

LEMMA Numbers ==
    /\ Cooldown \in Nat \ {0} /\ DeletionTicks \in Nat /\ DeleteCooldown \in Nat
    /\ NoUnitId \notin UnitIds /\ Neutral \notin Players
    /\ \E n \in Nat : Players = 1 .. n
    /\ \E n \in Nat : UnitIds = 1 .. n
  BY ArsenalAssumption, FS_CardinalityType DEF NoUnitId, Neutral

\* The units as TypeOK has them.
Apt(w) == /\ w \in UnitType /\ (w.holder = Neutral <=> w.type = "none")
          /\ w.type \in Structures => w.tile \in Tiles
Sound(un) == un = [u \in UnitIds |-> un[u]] /\ \A u \in UnitIds : Apt(un[u])
LEMMA UnitsSound == TypeOK => Sound(unit) /\ owner \in [Tiles -> Players \cup {Neutral}]
<1> SUFFICES ASSUME TypeOK PROVE Sound(unit)
  BY DEF TypeOK
<1>1. unit \in [UnitIds -> UnitType]
  BY DEF TypeOK
<1>2. \A u \in UnitIds : Apt(unit[u])
  BY <1>1 DEF TypeOK, Apt, Exists
<1> QED BY <1>1, <1>2 DEF Sound

\* From v to w in a step: removed, or the same unit, captured at most; but for the fields
\* in F, nothing else becomes of it.
Follows(v, w, F) ==
    \/ w = NoUnit
    \/ /\ w.type = v.type /\ w.tile = v.tile
       /\ w.holder # v.holder => /\ v.type \in Structures /\ w.holder = owner[v.tile]
                                 /\ w.doom = Unmarked
       /\ "building" \notin F => w.building = v.building
       /\ "locked" \notin F => w.locked = v.locked
       /\ "doom" \notin F => (w.doom # Unmarked => v.doom # Unmarked)
Onward(un, S, F) == \A u \in S : Follows(unit[u], un[u], F)

LEMMA NoUnitSound == Apt(NoUnit) /\ NoUnit.holder = Neutral /\ NoUnit.type = "none"
<1>1. Unmarked \in Unmarked .. DeletionTicks + 1
  BY Numbers DEF Unmarked
<1> QED BY <1>1, EmptySeq DEF NoUnit, UnitType, UnitTypes, Apt, Structures, Neutral
LEMMA NewSound ==
    ASSUME NEW k \in UnitTypes, k # "none", NEW p \in Players, NEW t \in Tiles \cup {0},
           k \in Structures => t \in Tiles
    PROVE  /\ Apt(New(k, p, t)) /\ New(k, p, t).holder = p
           /\ New(k, p, t).tile = t /\ New(k, p, t).doom = Unmarked
           /\ New(k, p, t).building = FALSE /\ New(k, p, t).locked = FALSE
           /\ New(k, p, t).queue = <<>> /\ New(k, p, t).level = 1
<1>1. Unmarked \in Unmarked .. DeletionTicks + 1
  BY Numbers DEF Unmarked
<1>2. <<>> \in Seq(0 .. Cooldown)
  BY EmptySeq
<1> QED BY <1>1, <1>2, Numbers DEF New, NoUnit, UnitType, Apt
LEMMA NewFields ==
    ASSUME NEW k, NEW p, NEW t
    PROVE  New(k, p, t).type = k /\ New(k, p, t).tile = t /\ New(k, p, t).holder = p
  BY DEF New, NoUnit
LEMMA FieldsOf ==
    ASSUME NEW v \in UnitType
    PROVE  /\ v.type \in UnitTypes /\ v.holder \in Players \cup {Neutral} /\ v.tile \in Tiles \cup {0}
           /\ v.building \in BOOLEAN /\ v.level \in Nat /\ v.queue \in Seq(0 .. Cooldown)
           /\ v.locked \in BOOLEAN /\ v.doom \in Unmarked .. DeletionTicks + 1
  BY DEF UnitType
LEMMA FreshIsFree ==
    ASSUME FreeIds # {}
    PROVE  Fresh \in FreeIds /\ Fresh \in UnitIds /\ ~Exists(Fresh) /\ Fresh \notin Named
  BY DEF Fresh, FreeIds
\* Where nothing happens.
LEMMA SameOnward == ASSUME NEW S, NEW F PROVE Onward(unit, S, F)
  BY DEF Onward, Follows

LEMMA WithoutSound ==
    ASSUME Sound(unit), NEW S, NEW F
    PROVE  Sound(Without(S)) /\ Onward(Without(S), UnitIds, F)
  BY NoUnitSound DEF Sound, Without, Onward, Follows

\* A unit is written to.
LEMMA WrittenSound ==
    ASSUME NEW un, Sound(un), NEW u \in UnitIds, NEW w, Apt(w)
    PROVE  /\ Sound([un EXCEPT ![u] = w]) /\ [un EXCEPT ![u] = w][u] = w
           /\ \A v \in UnitIds : v # u => [un EXCEPT ![u] = w][v] = un[v]
  BY DEF Sound
LEMMA LaunchedSound ==
    ASSUME NEW un, Sound(un), NEW s \in UnitIds, un[s].type # "none"
    PROVE  /\ Sound(Launched(un, s))
           /\ \A u \in UnitIds : u # s => Launched(un, s)[u] = un[u]
           /\ LET v == un[s]
                  w == Launched(un, s)[s] IN
              /\ w.type = v.type /\ w.tile = v.tile /\ w.holder = v.holder /\ w.doom = v.doom
              /\ w.building = v.building /\ w.locked = v.locked /\ w.level = v.level
              /\ w.queue = Append(v.queue, 0)
<1>1. un[s] \in UnitType /\ Apt(un[s])
  BY DEF Sound, Apt
<1>2. 0 \in 0 .. Cooldown
  BY Numbers
<1>3. Append(un[s].queue, 0) \in Seq(0 .. Cooldown)
  BY <1>1, <1>2, FieldsOf, AppendProperties
<1>4. [un[s] EXCEPT !.queue = Append(@, 0)] \in UnitType
  BY <1>1, <1>3 DEF UnitType
<1>5. Launched(un, s) = [un EXCEPT ![s] = [un[s] EXCEPT !.queue = Append(@, 0)]]
  BY DEF Launched, Sound
<1> DEFINE w == [un[s] EXCEPT !.queue = Append(@, 0)]
<1>6. /\ w.type = un[s].type /\ w.tile = un[s].tile /\ w.holder = un[s].holder
      /\ w.doom = un[s].doom /\ w.building = un[s].building /\ w.locked = un[s].locked
      /\ w.level = un[s].level /\ w.queue = Append(un[s].queue, 0)
  BY <1>1 DEF UnitType
<1>7. Apt(w)
  BY <1>1, <1>4, <1>6 DEF Apt
<1>8. Launched(un, s) = [un EXCEPT ![s] = w]
  BY <1>5
<1> HIDE DEF w
<1>9. /\ Sound(Launched(un, s)) /\ Launched(un, s)[s] = w
      /\ \A u \in UnitIds : u # s => Launched(un, s)[u] = un[u]
  <2> DEFINE ux == [un EXCEPT ![s] = w]
  <2>1. Sound(ux) /\ ux[s] = w /\ \A u \in UnitIds : u # s => ux[u] = un[u]
    BY <1>7, WrittenSound
  <2> HIDE DEF ux
  <2>2. Launched(un, s) = ux
    BY <1>8 DEF ux
  <2> QED BY <2>1, <2>2
<1> QED BY <1>6, <1>9
LEMMA ReloadedSound ==
    ASSUME Sound(unit), NEW s \in UnitIds
    PROVE  /\ Sound(Reloaded(s))
           /\ \A u \in UnitIds : u # s => Reloaded(s)[u] = unit[u]
           /\ LET v == unit[s]
                  w == Reloaded(s)[s] IN
              /\ w.type = v.type /\ w.tile = v.tile /\ w.holder = v.holder /\ w.doom = v.doom
              /\ w.building = v.building /\ w.locked = v.locked /\ w.level = v.level
              /\ Len(w.queue) <= Len(v.queue)
<1>1. unit[s] \in UnitType /\ unit[s].queue \in Seq(0 .. Cooldown) /\ Apt(unit[s])
  BY FieldsOf DEF Sound, Apt
<1>2. CASE unit[s].queue # <<>> /\ unit[s].queue[1] >= Cooldown
  <2>1. Tail(unit[s].queue) \in Seq(0 .. Cooldown) /\ Len(Tail(unit[s].queue)) = Len(unit[s].queue) - 1
        /\ Len(unit[s].queue) \in Nat
    BY <1>1, <1>2, HeadTailProperties, EmptySeq
  <2>2. [unit[s] EXCEPT !.queue = Tail(@)] \in UnitType
    BY <1>1, <2>1 DEF UnitType
  <2>3. Reloaded(s) = [unit EXCEPT ![s] = [unit[s] EXCEPT !.queue = Tail(@)]]
    BY <1>2 DEF Reloaded, Sound
  <2> DEFINE w == [unit[s] EXCEPT !.queue = Tail(@)]
  <2>4. /\ w.type = unit[s].type /\ w.tile = unit[s].tile /\ w.holder = unit[s].holder
        /\ w.doom = unit[s].doom /\ w.building = unit[s].building /\ w.locked = unit[s].locked
        /\ w.level = unit[s].level /\ w.queue = Tail(unit[s].queue)
    BY <1>1 DEF UnitType
  <2>5. Apt(w)
    BY <1>1, <2>2, <2>4 DEF Apt
  <2>6. Len(w.queue) <= Len(unit[s].queue)
    BY <2>1, <2>4
  <2>7. Reloaded(s) = [unit EXCEPT ![s] = w]
    BY <2>3
  <2> HIDE DEF w
  <2>8. /\ Sound(Reloaded(s)) /\ Reloaded(s)[s] = w
        /\ \A u \in UnitIds : u # s => Reloaded(s)[u] = unit[u]
    <3> DEFINE un == [unit EXCEPT ![s] = w]
    <3>1. Sound(un) /\ un[s] = w /\ \A u \in UnitIds : u # s => un[u] = unit[u]
      BY <2>5, WrittenSound
    <3> HIDE DEF un
    <3>2. Reloaded(s) = un
      BY <2>7 DEF un
    <3> QED BY <3>1, <3>2
  <2> QED BY <2>4, <2>6, <2>8
<1>3. CASE ~(unit[s].queue # <<>> /\ unit[s].queue[1] >= Cooldown)
  <2>1. Reloaded(s) = unit
    BY <1>3 DEF Reloaded
  <2>2. Len(unit[s].queue) \in Nat
    BY <1>1, LenProperties
  <2> QED BY <2>1, <2>2
<1> QED BY <1>2, <1>3

-----------------------------------------------------------------------------
(* In a turn, and in an init. *)

LEMMA MyTurn ==
    ASSUME Loop, NEW k, Turn(k)
    PROVE  /\ cursor \in 1 .. Len(execs) /\ cursor \in Nat \ {0} /\ Len(execs) \in Nat
           /\ Me = execs[cursor] /\ Me \in Range(execs) /\ Me \in Jobs /\ JobOK(Me)
           /\ Me.kind = k /\ phase = "turns"
<1>1. cursor \in 1 .. Len(execs) /\ Len(execs) \in Nat
  BY Listed DEF Loop, Turn
<1> QED BY <1>1, Listed DEF Loop, Turn, Me, Jobs
LEMMA MyInit ==
    ASSUME Loop, NEW k, DueInit(k)
    PROVE  /\ uninit # <<>> /\ New1 \in Range(uninit) /\ New1 \in Jobs /\ JobOK(New1)
           /\ New1.kind = k /\ phase = "inits"
  BY TailList DEF Loop, DueInit, New1, Jobs
LEMMA JobsNamed ==
    ASSUME NEW j \in Jobs
    PROVE  {j.unit, j.prey, j.from} \cap FreeIds = {}
  BY DEF Jobs, Named, FreeIds

-----------------------------------------------------------------------------
(* What each action does to the units. *)

LEMMA EndTickUnits == ASSUME TypeOK, EndTick PROVE Sound(unit') /\ Onward(unit', UnitIds, {})
<1> DEFINE aged(v) == [v EXCEPT !.queue = [i \in DOMAIN @ |-> Older(@[i], Cooldown)],
                                !.doom = IF @ = Unmarked THEN @ ELSE Older(@, DeletionTicks + 1)]
<1>1. unit' = [u \in UnitIds |-> aged(unit[u])] /\ Sound(unit)
  BY UnitsSound DEF EndTick
<1>2. ASSUME NEW v, Apt(v)
      PROVE  Apt(aged(v)) /\ Follows(v, aged(v), {})
  <2>0. v \in UnitType
    BY <1>2 DEF Apt
  <2>1. v.queue \in Seq(0 .. Cooldown) /\ v.doom \in Unmarked .. DeletionTicks + 1
    BY <2>0, FieldsOf
  <2> DEFINE q == [i \in DOMAIN v.queue |-> Older(v.queue[i], Cooldown)]
             d == IF v.doom = Unmarked THEN v.doom ELSE Older(v.doom, DeletionTicks + 1)
  <2>2. q \in Seq(0 .. Cooldown)
    <3>1. /\ Len(v.queue) \in Nat /\ DOMAIN v.queue = 1 .. Len(v.queue)
          /\ \A i \in 1 .. Len(v.queue) : v.queue[i] \in 0 .. Cooldown
      BY <2>1, LenProperties, ElementOfSeq
    <3>2. \A n \in 0 .. Cooldown : Older(n, Cooldown) \in 0 .. Cooldown
      BY Numbers DEF Older
    <3>3. q \in [1 .. Len(v.queue) -> 0 .. Cooldown]
      BY <3>1, <3>2
    <3> QED BY <3>1, <3>3, SeqDef
  <2>3. d \in Unmarked .. DeletionTicks + 1 /\ (d # Unmarked => v.doom # Unmarked)
    BY <2>1, Numbers DEF Older, Unmarked
  <2>4. aged(v) = [v EXCEPT !.queue = q, !.doom = d]
    OBVIOUS
  <2> HIDE DEF q, d, aged
  <2> DEFINE w == [v EXCEPT !.queue = q, !.doom = d]
  <2>5. /\ w \in UnitType /\ w.type = v.type /\ w.holder = v.holder /\ w.tile = v.tile
        /\ w.doom = d /\ w.building = v.building /\ w.locked = v.locked
    BY <2>0, <2>2, <2>3 DEF UnitType
  <2> HIDE DEF w
  <2>6. Apt(w)
    BY <1>2, <2>5 DEF Apt
  <2>7. Follows(v, w, {})
    BY <2>3, <2>5 DEF Follows
  <2> QED BY <2>4, <2>6, <2>7 DEF w
<1> HIDE DEF aged
<1> QED BY <1>1, <1>2 DEF Sound, Onward

LEMMA ReconciledSound ==
    ASSUME TypeOK, NEW p
    PROVE  /\ Sound(Reconciled(p)) /\ Onward(Reconciled(p), UnitIds, {})
           /\ \A u \in UnitIds : Reconciled(p)[u].holder = p /\ Reconciled(p)[u].type \in Structures
                                    => Has(p)
<1>1. Sound(unit) /\ owner \in [Tiles -> Players \cup {Neutral}]
  BY UnitsSound
<1>2. SUFFICES ASSUME NEW u \in UnitIds
               PROVE  LET w == Reconciled(p)[u] IN
                      /\ Apt(w) /\ Follows(unit[u], w, {})
                      /\ w.holder = p /\ w.type \in Structures => Has(p)
  <2>1. Reconciled(p) = [u \in UnitIds |-> Reconciled(p)[u]]
    BY DEF Reconciled
  <2> QED BY <1>2, <2>1 DEF Sound, Onward
<1>3. Apt(unit[u]) /\ unit[u] \in UnitType
  BY <1>1 DEF Sound, Apt
<1>4. CASE u \notin HeldBy(p) \cap OfType(Structures)
  <2>1. Reconciled(p)[u] = unit[u]
    BY <1>4 DEF Reconciled
  <2> QED BY <1>3, <1>4, <2>1 DEF Follows, HeldBy, OfType
<1>5. CASE u \in HeldBy(p) \cap OfType(Structures)
  <2>1. unit[u].tile \in Tiles /\ unit[u].type \in Structures
    BY <1>3, <1>5 DEF Apt, HeldBy, OfType
  <2>2. CASE owner[unit[u].tile] = p
    <3>1. Reconciled(p)[u] = unit[u]
      BY <2>2 DEF Reconciled
    <3>2. Has(p)
      BY <2>1, <2>2 DEF Has, Land
    <3> QED BY <1>3, <3>1, <3>2 DEF Follows
  <2>3. CASE owner[unit[u].tile] # p /\ (owner[unit[u].tile] = Neutral \/ unit[u].type = "Post")
    <3>1. Reconciled(p)[u] = NoUnit
      BY <1>5, <2>3 DEF Reconciled
    <3> QED BY <3>1, NoUnitSound DEF Follows, Structures
  <2>4. CASE owner[unit[u].tile] # p /\ ~(owner[unit[u].tile] = Neutral \/ unit[u].type = "Post")
    <3> DEFINE q == owner[unit[u].tile]
               w == [unit[u] EXCEPT !.holder = q, !.doom = Unmarked]
    <3>1. Reconciled(p)[u] = w
      BY <1>5, <2>4 DEF Reconciled, Captured
    <3>2. q \in Players /\ q # p
      BY <1>1, <2>1, <2>4
    <3>3. Unmarked \in Unmarked .. DeletionTicks + 1
      BY Numbers DEF Unmarked
    <3> HIDE DEF q
    <3>4. /\ w \in UnitType /\ w.type = unit[u].type /\ w.tile = unit[u].tile /\ w.holder = q
          /\ w.doom = Unmarked /\ w.building = unit[u].building /\ w.locked = unit[u].locked
      BY <1>3, <3>2, <3>3 DEF UnitType
    <3>5. Apt(w)
      BY <1>3, <2>1, <3>2, <3>4, Numbers DEF Apt, Structures
    <3> HIDE DEF w
    <3> QED BY <2>1, <3>1, <3>2, <3>4, <3>5 DEF Follows, q
  <2> QED BY <2>2, <2>3, <2>4
<1> QED BY <1>4, <1>5
LEMMA PlayerTurnUnits ==
    ASSUME TypeOK, PlayerTurn
    PROVE  Sound(unit') /\ Onward(unit', UnitIds, {})
<1>1. CASE Has(Me.by)
  BY <1>1, ReconciledSound DEF PlayerTurn
<1>2. CASE ~Has(Me.by)
  <2> DEFINE un == Reconciled(Me.by)
  <2>1. unit' = Buried(un, Me.by)
    BY <1>2 DEF PlayerTurn
  <2>2. Sound(un) /\ Onward(un, UnitIds, {})
    BY ReconciledSound
  <2> HIDE DEF un
  <2> QED BY <2>1, <2>2, NoUnitSound DEF Buried, Sound, Onward, Follows
<1> QED BY <1>1, <1>2
\* A unit is built.
LEMMA BuiltUnits ==
    ASSUME Sound(unit), FreeIds # {}, NEW w, Apt(w), NEW un, un = [unit EXCEPT ![Fresh] = w], NEW F
    PROVE  Sound(un) /\ Onward(un, UnitIds \ {Fresh}, F) /\ un[Fresh] = w
<1> DEFINE x == Fresh
<1>1. x \in UnitIds
  BY FreshIsFree
<1>2. un = [unit EXCEPT ![x] = w]
  OBVIOUS
<1> HIDE DEF x
<1>3. /\ Sound([unit EXCEPT ![x] = w]) /\ [unit EXCEPT ![x] = w][x] = w
      /\ \A v \in UnitIds : v # x => [unit EXCEPT ![x] = w][v] = unit[v]
  BY <1>1 DEF Sound
<1>4. Onward(un, UnitIds \ {x}, F)
  BY <1>2, <1>3 DEF Onward, Follows
<1> QED BY <1>2, <1>3, <1>4 DEF x
\* A field of a unit is written to.
LEMMA ChangedUnits ==
    ASSUME NEW un, Sound(un), NEW u \in UnitIds, NEW w, Apt(w), NEW S, NEW F, Onward(un, S, F),
           Follows(unit[u], w, F)
    PROVE  Sound([un EXCEPT ![u] = w]) /\ Onward([un EXCEPT ![u] = w], S, F)
<1>1. /\ Sound([un EXCEPT ![u] = w]) /\ [un EXCEPT ![u] = w][u] = w
      /\ \A v \in UnitIds : v # u => [un EXCEPT ![u] = w][v] = un[v]
  BY WrittenSound
<1>2. \A v \in S \ UnitIds : [un EXCEPT ![u] = w][v] = un[v]
  OBVIOUS
<1> QED BY <1>1 DEF Onward
LEMMA LayUnits ==
    ASSUME TypeOK, Loop, Lay
    PROVE  /\ FreeIds # {} /\ Sound(unit') /\ Onward(unit', UnitIds \ {Fresh}, {})
           /\ unit'[Fresh].type = Me.type /\ unit'[Fresh].holder = Me.by
           /\ (unit'[Fresh].building <=> Duration > 0)
           /\ unit'[Fresh].doom = Unmarked /\ unit'[Fresh].queue = <<>> /\ unit'[Fresh].level = 1
<1>1. /\ FreeIds # {} /\ Sound(unit) /\ Me.by \in Players /\ Me.type \in Structures
  BY UnitsSound, MyTurn DEF Lay, JobOK
<1>2. PICK t \in Sites(Me.by) :
         unit' = [unit EXCEPT ![Fresh] = IF Duration > 0
                                         THEN [New(Me.type, Me.by, t) EXCEPT !.building = TRUE]
                                         ELSE New(Me.type, Me.by, t)]
  BY DEF Lay
<1>3. t \in Tiles
  BY <1>2 DEF Sites, Land
<1> DEFINE v == New(Me.type, Me.by, t)
           w == IF Duration > 0 THEN [v EXCEPT !.building = TRUE] ELSE v
<1>4. /\ Apt(v) /\ v.holder = Me.by /\ v.type = Me.type /\ v.building = FALSE
      /\ v.doom = Unmarked /\ v.queue = <<>> /\ v.level = 1
  <2> DEFINE k == Me.type
             p == Me.by
  <2>1. k \in UnitTypes /\ k # "none" /\ p \in Players /\ t \in Tiles \cup {0}
    BY <1>1, <1>3 DEF UnitTypes, Structures
  <2> HIDE DEF k, p
  <2>2. /\ Apt(New(k, p, t)) /\ New(k, p, t).holder = p
        /\ New(k, p, t).building = FALSE /\ New(k, p, t).doom = Unmarked
        /\ New(k, p, t).queue = <<>> /\ New(k, p, t).level = 1
    BY <1>3, <2>1, NewSound
  <2>3. New(k, p, t).type = k
    BY NewFields
  <2> QED BY <2>2, <2>3 DEF k, p
<1> HIDE DEF v
<1>5. /\ Apt(w) /\ w.holder = Me.by /\ w.type = Me.type /\ (w.building <=> Duration > 0)
      /\ w.doom = Unmarked /\ w.queue = <<>> /\ w.level = 1
  <2>1. CASE Duration > 0
    BY <1>4, <2>1 DEF Apt, UnitType
  <2>2. CASE ~(Duration > 0)
    BY <1>4, <2>2
  <2> QED BY <2>1, <2>2
<1>6. unit' = [unit EXCEPT ![Fresh] = w]
  BY <1>2 DEF v
<1> HIDE DEF w
<1> QED BY <1>1, <1>5, <1>6, BuiltUnits

LEMMA BuildUnits ==
    ASSUME TypeOK, Loop, Build
    PROVE  /\ Me.unit \in UnitIds /\ Sound(unit') /\ Onward(unit', UnitIds, {"building"})
           /\ \A u \in UnitIds \ {Me.unit} : unit'[u] = unit[u]
           /\ Exists(Me.unit) /\ Me.left = 0 => ~unit'[Me.unit].building
           /\ ~(Exists(Me.unit) /\ Me.left = 0) => unit' = unit
<1>1. Sound(unit) /\ Me.unit \in UnitIds
  BY UnitsSound, MyTurn DEF Build, JobOK
<1>2. CASE Exists(Me.unit) /\ Me.left = 0
  <2> DEFINE u == Me.unit
             w == [unit[u] EXCEPT !.building = FALSE]
  <2>1. unit' = [unit EXCEPT ![u] = w]
    BY <1>1, <1>2 DEF Build, Sound
  <2>2. Apt(unit[u]) /\ unit[u] \in UnitType
    BY <1>1 DEF Sound, Apt
  <2>3. Apt(w) /\ Follows(unit[u], w, {"building"}) /\ ~w.building
    BY <2>2 DEF Apt, UnitType, Follows
  <2> HIDE DEF w
  <2>4. Sound(unit') /\ Onward(unit', UnitIds, {"building"})
    BY <1>1, <2>1, <2>3, ChangedUnits, SameOnward
  <2>5. unit'[u] = w /\ \A v \in UnitIds \ {u} : unit'[v] = unit[v]
    BY <1>1, <2>1, <2>3, WrittenSound
  <2> QED BY <1>1, <1>2, <2>3, <2>4, <2>5
<1>3. CASE ~(Exists(Me.unit) /\ Me.left = 0)
  <2>1. unit' = unit
    BY <1>3 DEF Build
  <2> QED BY <1>1, <1>3, <2>1, SameOnward
<1> QED BY <1>2, <1>3

LEMMA SiloTurnUnits ==
    ASSUME TypeOK, Loop, SiloTurn
    PROVE  Sound(unit') /\ Onward(unit', UnitIds, {})
<1>1. Sound(unit) /\ Me.unit \in UnitIds
  BY UnitsSound, MyTurn DEF SiloTurn, JobOK, Runners
<1>2. CASE unit' = unit
  BY <1>1, <1>2, SameOnward
<1>3. CASE unit' = Reloaded(Me.unit)
  BY <1>1, <1>3, ReloadedSound DEF Onward, Follows
<1> QED BY <1>2, <1>3 DEF SiloTurn, Gone

\* In the turn of a SAM launcher, from the units to those it is reloaded in (Reloaded)
\* and to what it shoots.
LEMMA SamUnits ==
    ASSUME Sound(unit), NEW s \in UnitIds, Exists(s)
    PROVE  LET un == Reloaded(s)
               shot == Launched(un, s) IN
           /\ Sound(un) /\ Onward(un, UnitIds, {}) /\ Sound(shot) /\ Onward(shot, UnitIds, {})
           /\ un[s].type = unit[s].type /\ shot[s].type = unit[s].type
           /\ \A u \in UnitIds \ {s} : un[u] = unit[u] /\ shot[u] = unit[u]
<1> DEFINE un == Reloaded(s)
           shot == Launched(un, s)
<1>1. /\ Sound(un)
      /\ \A u \in UnitIds : u # s => un[u] = unit[u]
      /\ un[s].type = unit[s].type /\ un[s].tile = unit[s].tile /\ un[s].holder = unit[s].holder
      /\ un[s].doom = unit[s].doom /\ un[s].building = unit[s].building
      /\ un[s].locked = unit[s].locked
  BY ReloadedSound
<1>2. un[s].type # "none"
  BY <1>1 DEF Exists
<1> HIDE DEF un
<1>3. /\ Sound(shot)
      /\ \A u \in UnitIds : u # s => shot[u] = un[u]
      /\ shot[s].type = un[s].type /\ shot[s].tile = un[s].tile /\ shot[s].holder = un[s].holder
      /\ shot[s].doom = un[s].doom /\ shot[s].building = un[s].building
      /\ shot[s].locked = un[s].locked
  BY <1>1, <1>2, LaunchedSound
<1> HIDE DEF shot
<1>4. Onward(un, UnitIds, {}) /\ Onward(shot, UnitIds, {})
  BY <1>1, <1>3 DEF Onward, Follows
<1> QED BY <1>1, <1>3, <1>4 DEF un, shot

LEMMA SamTurnUnits ==
    ASSUME TypeOK, Loop, SamTurn
    PROVE  Sound(unit') /\ Onward(unit', UnitIds, {"locked"})
<1>1. Sound(unit) /\ Me.unit \in UnitIds
  BY UnitsSound, MyTurn DEF SamTurn, JobOK, Runners
<1> DEFINE s == Me.unit
           un == Reloaded(s)
           shot == Launched(un, s)
           hits == Incoming(unit[s].holder, unit[s].tile)
<1>2. CASE Gone
  BY <1>1, <1>2, SameOnward DEF Gone, Onward, Follows
<1>3. CASE Exists(s)
  <2>1. /\ Sound(un) /\ Onward(un, UnitIds, {}) /\ Sound(shot) /\ Onward(shot, UnitIds, {})
        /\ \A u \in UnitIds \ {s} : shot[u] = unit[u]
    BY <1>1, <1>3, SamUnits
  <2> HIDE DEF un, shot, hits
  <2>2. CASE unit' = un
    BY <2>1, <2>2 DEF Onward, Follows
  <2>3. CASE unit' = [u \in UnitIds |-> IF u \in hits THEN NoUnit ELSE shot[u]]
    BY <2>1, <2>3, NoUnitSound DEF Onward, Follows, Sound
  <2>4. ASSUME NEW u \in UnitIds, Exists(u), unit' = [shot EXCEPT ![u].locked = TRUE]
        PROVE  Sound(unit') /\ Onward(unit', UnitIds, {"locked"})
    <3> DEFINE w == [shot[u] EXCEPT !.locked = TRUE]
    <3>1. Apt(shot[u]) /\ Onward(shot, UnitIds, {"locked"}) /\ Follows(unit[u], shot[u], {"locked"})
      BY <2>1, <2>4 DEF Sound, Onward, Follows
    <3>2. unit' = [shot EXCEPT ![u] = w]
      BY <2>4
    <3>3. /\ Apt(w) /\ w.type = shot[u].type /\ w.tile = shot[u].tile /\ w.holder = shot[u].holder
          /\ w.doom = shot[u].doom /\ w.building = shot[u].building
      BY <3>1 DEF Apt, UnitType
    <3>4. CASE shot[u] = NoUnit
      <4>1. FALSE
        <5>1. shot[u].type = unit[u].type
          BY <1>1, <1>3, <2>4, SamUnits DEF shot, un
        <5> QED BY <2>4, <3>4, <5>1, NoUnitSound DEF Exists
      <4> QED BY <4>1
    <3>5. CASE shot[u] # NoUnit
      <4>1. Follows(unit[u], w, {"locked"})
        BY <3>1, <3>3, <3>5 DEF Follows
      <4> HIDE DEF w
      <4> QED BY <2>1, <3>1, <3>2, <3>3, <4>1, ChangedUnits
    <3> QED BY <3>4, <3>5
  <2>5. Prey(unit[s].holder) \subseteq {u \in UnitIds : Exists(u)}
    BY DEF Prey, Enemies, OfType, Exists
  <2>6. \/ unit' = un
        \/ unit' = [u \in UnitIds |-> IF u \in hits THEN NoUnit ELSE shot[u]]
        \/ \E u \in Prey(unit[s].holder) : unit' = [shot EXCEPT ![u].locked = TRUE]
    BY <1>3 DEF SamTurn, Gone, s, un, shot, hits
  <2> QED BY <2>2, <2>3, <2>4, <2>5, <2>6
<1> QED BY <1>2, <1>3 DEF SamTurn

\* The missile that is on its way in this turn of a SamMissileExecution, and the units with it.
Hunter == IF Me.unit # NoUnitId THEN Me.unit ELSE Fresh
WithHunter == IF Me.unit # NoUnitId THEN unit
              ELSE [unit EXCEPT ![Fresh] = New("Missile", Me.by, 0)]
Kin == IF Me.unit # NoUnitId THEN UnitIds ELSE UnitIds \ {Fresh}
OnItsWay == /\ WithHunter[Hunter].holder = Me.by
            /\ WithHunter[Me.prey].holder = Me.victim /\ WithHunter[Me.from].holder = Me.by
CalledOffHunt ==
    [u \in UnitIds |-> IF u = Hunter THEN NoUnit
                       ELSE IF u = Me.prey /\ WithHunter[Me.prey].holder = Me.victim
                       THEN [WithHunter[u] EXCEPT !.locked = FALSE]
                       ELSE WithHunter[u]]
Struck == [WithHunter EXCEPT ![Hunter] = NoUnit, ![Me.prey] = NoUnit]
LEMMA HuntTurnIs ==
    ASSUME HuntTurn
    PROVE  /\ Me.unit = NoUnitId => FreeIds # {}
           /\ \/ WithHunter[Hunter].holder # Me.by /\ Done /\ unit' = unit
              \/ /\ WithHunter[Hunter].holder = Me.by /\ ~OnItsWay
                 /\ unit' = CalledOffHunt /\ Done
              \/ OnItsWay /\ unit' = Struck /\ Done
              \/ /\ OnItsWay /\ unit' = WithHunter
                 /\ \E n : Stay([Me EXCEPT !.unit = Hunter, !.left = n])
  BY DEF HuntTurn, WithHunter, Hunter, OnItsWay, CalledOffHunt, Struck
LEMMA HunterFacts ==
    ASSUME TypeOK, Loop, Turn("hunt"), Me.unit = NoUnitId => FreeIds # {}
    PROVE  /\ Me.prey \in UnitIds /\ Me.from \in UnitIds /\ Me.by \in Players /\ Me.victim \in Players
           /\ Me.prey \notin FreeIds /\ Me.from \notin FreeIds
           /\ Hunter \in UnitIds /\ Sound(WithHunter) /\ Onward(WithHunter, Kin, {})
           /\ Me.unit = NoUnitId => /\ Hunter = Fresh /\ Fresh \in FreeIds
                                    /\ WithHunter[Hunter] = New("Missile", Me.by, 0)
                                    /\ WithHunter[Hunter].holder = Me.by
           /\ \A u \in Kin : WithHunter[u] = unit[u]
<1>1. /\ Me \in Jobs /\ JobOK(Me) /\ Sound(unit) /\ Me.kind = "hunt"
      /\ Me.by \in Players
  BY MyTurn, UnitsSound DEF JobOK
<1>2. Me.prey \in UnitIds /\ Me.from \in UnitIds /\ Me.victim \in Players
  BY <1>1 DEF JobOK
<1>3. Me.prey \notin FreeIds /\ Me.from \notin FreeIds
  BY <1>1, JobsNamed
<1>4. CASE Me.unit # NoUnitId
  BY <1>1, <1>2, <1>3, <1>4, SameOnward DEF JobOK, WithHunter, Kin, Hunter
<1>5. CASE Me.unit = NoUnitId
  <2> DEFINE w == New("Missile", Me.by, 0)
  <2>1. Apt(w) /\ w.holder = Me.by
    <3>1. "Missile" \in UnitTypes /\ "Missile" \notin Structures /\ 0 \in Tiles \cup {0}
      BY DEF UnitTypes, Structures
    <3> QED BY <1>1, <3>1, NewSound
  <2>2. Fresh \in UnitIds /\ Fresh \in FreeIds /\ FreeIds # {}
    BY <1>5, FreshIsFree
  <2> HIDE DEF w
  <2>3. WithHunter = [unit EXCEPT ![Fresh] = w]
    BY <1>5 DEF WithHunter, w
  <2>4. Sound(WithHunter) /\ Onward(WithHunter, UnitIds \ {Fresh}, {}) /\ WithHunter[Fresh] = w
    BY <1>1, <2>1, <2>2, <2>3, BuiltUnits
  <2>5. \A u \in UnitIds \ {Fresh} : WithHunter[u] = unit[u]
    BY <1>1, <2>3 DEF Sound
  <2>6. Hunter = Fresh /\ Kin = UnitIds \ {Fresh}
    BY <1>5 DEF Hunter, Kin
  <2>7. WithHunter[Hunter] = New("Missile", Me.by, 0)
    BY <2>4, <2>6 DEF w
  <2>8. WithHunter[Hunter].holder = Me.by
    BY <2>1, <2>4, <2>6
  <2> QED BY <1>1, <1>2, <1>3, <2>2, <2>4, <2>5, <2>6, <2>7, <2>8
<1> QED BY <1>4, <1>5
LEMMA HuntTurnUnits ==
    ASSUME TypeOK, Loop, HuntTurn
    PROVE  Sound(unit') /\ Onward(unit', Kin, {"locked"})
<1>1. /\ Me.prey \in UnitIds /\ Hunter \in UnitIds /\ Sound(WithHunter)
      /\ Onward(WithHunter, Kin, {}) /\ Kin \subseteq UnitIds /\ Sound(unit)
      /\ Me.prey \in Kin
  <2>1. Turn("hunt") /\ (Me.unit = NoUnitId => FreeIds # {})
    BY DEF HuntTurn
  <2>2. Me.prey \notin FreeIds /\ (Me.unit = NoUnitId => Fresh \in FreeIds)
    BY <2>1, HunterFacts
  <2> QED BY <2>1, <2>2, HunterFacts, UnitsSound DEF Kin
<1> DEFINE un == WithHunter
<1>2. CASE unit' = unit
  BY <1>1, <1>2, SameOnward
<1>3. CASE unit' = CalledOffHunt
  <2>1. ASSUME NEW u \in UnitIds PROVE Apt(unit'[u]) /\ (u \in Kin => Follows(unit[u], unit'[u], {"locked"}))
    <3>1. CASE u = Hunter
      <4>1. unit'[u] = NoUnit
        BY <1>3, <3>1 DEF CalledOffHunt
      <4> QED BY <4>1, NoUnitSound DEF Follows
    <3>2. CASE u # Hunter /\ u = Me.prey /\ WithHunter[Me.prey].holder = Me.victim
      <4> DEFINE w == [un[u] EXCEPT !.locked = FALSE]
      <4>1. unit'[u] = w
        BY <1>3, <3>2 DEF CalledOffHunt
      <4>2. Apt(un[u]) /\ Follows(unit[u], un[u], {}) /\ un[u] = unit[u]
        <5>1. Turn("hunt") /\ (Me.unit = NoUnitId => FreeIds # {})
          BY DEF HuntTurn
        <5> QED BY <1>1, <3>2, <5>1, HunterFacts DEF Sound, Onward
      <4>3. Apt(w) /\ Follows(unit[u], w, {"locked"})
        BY <4>2 DEF Apt, UnitType, Follows
      <4> QED BY <4>1, <4>3
    <3>3. CASE ~(u = Hunter) /\ ~(u = Me.prey /\ WithHunter[Me.prey].holder = Me.victim)
      <4>1. unit'[u] = un[u]
        BY <1>3, <3>3 DEF CalledOffHunt
      <4> QED BY <1>1, <4>1 DEF Sound, Onward, Follows
    <3> QED BY <3>1, <3>2, <3>3
  <2>2. unit' = [u \in UnitIds |-> unit'[u]]
    BY <1>3 DEF CalledOffHunt
  <2> QED BY <1>1, <2>1, <2>2 DEF Sound, Onward
<1>4. CASE unit' = Struck
  <2>1. unit' = [u \in UnitIds |-> IF u \in {Hunter, Me.prey} THEN NoUnit ELSE un[u]]
    BY <1>1, <1>4 DEF Struck, Sound
  <2> HIDE DEF un
  <2>2. Sound(un) /\ Onward(un, Kin, {})
    BY <1>1 DEF un
  <2> QED BY <1>1, <2>1, <2>2, NoUnitSound DEF Sound, Onward, Follows
<1>5. CASE unit' = WithHunter
  BY <1>1, <1>5 DEF Onward, Follows
<1> QED BY <1>2, <1>3, <1>4, <1>5, HuntTurnIs

LEMMA LaunchUnits ==
    ASSUME TypeOK, Loop, Launch
    PROVE  /\ FreeIds # {} /\ Sound(unit') /\ Onward(unit', UnitIds \ {Fresh}, {})
           /\ unit'[Fresh].type = Me.type /\ unit'[Fresh].locked = FALSE
           /\ unit'[Fresh].holder = Me.by /\ unit'[Fresh].tile = Me.tile
<1>1. /\ Sound(unit) /\ Me.by \in Players /\ Me.tile \in Tiles /\ FreeIds # {}
      /\ Me.type \in {"Bomb", "Warhead"}
  <2>1. Turn("nuke") /\ FreeIds # {}
    BY DEF Launch
  <2>2. JobOK(Me) /\ Me.kind = "nuke"
    BY <2>1, MyTurn
  <2> QED BY <2>1, <2>2, UnitsSound DEF JobOK
<1>2. Fresh \in UnitIds /\ ~Exists(Fresh)
  BY <1>1, FreshIsFree
<1> DEFINE x == Fresh
           w == New(Me.type, Me.by, Me.tile)
           un == [unit EXCEPT ![x] = w]
<1>3. Apt(w) /\ w.type = Me.type /\ w.holder = Me.by /\ w.tile = Me.tile /\ w.locked = FALSE
  <2> DEFINE k == Me.type
             p == Me.by
             t == Me.tile
  <2>1. k \in UnitTypes /\ k # "none" /\ k \notin Structures /\ p \in Players /\ t \in Tiles \cup {0}
    BY <1>1 DEF UnitTypes, Bombs, Structures
  <2> HIDE DEF k, p, t
  <2>2. Apt(New(k, p, t)) /\ New(k, p, t).locked = FALSE
    BY <2>1, NewSound
  <2>3. New(k, p, t).type = k /\ New(k, p, t).holder = p /\ New(k, p, t).tile = t
    BY NewFields
  <2> QED BY <2>2, <2>3 DEF k, p, t
<1> HIDE DEF w
<1>4. Sound(un) /\ Onward(un, UnitIds \ {x}, {}) /\ un[x] = w
  BY <1>1, <1>3, BuiltUnits
<1>5. \A u \in UnitIds \ {x} : un[u] = unit[u]
  BY <1>1 DEF Sound
<1>6. \/ unit' = un
      \/ \E s \in HeldBy(Me.by) \cap OfType({"Silo"}) : unit' = Launched(un, s)
  BY DEF Launch, Ready, w
<1> HIDE DEF un
<1>7. CASE unit' = un
  BY <1>1, <1>3, <1>4, <1>7
<1>8. ASSUME NEW s \in HeldBy(Me.by) \cap OfType({"Silo"}), unit' = Launched(un, s)
      PROVE  Sound(unit') /\ Onward(unit', UnitIds \ {x}, {}) /\ unit'[x] = w
  <2>1. s \in UnitIds /\ unit[s].type = "Silo" /\ s # x
    BY <1>2 DEF HeldBy, OfType, Exists
  <2>2. un[s].type # "none"
    BY <1>5, <2>1
  <2>3. /\ Sound(unit')
        /\ \A u \in UnitIds : u # s => unit'[u] = un[u]
        /\ unit'[s].type = un[s].type /\ unit'[s].tile = un[s].tile /\ unit'[s].holder = un[s].holder
        /\ unit'[s].doom = un[s].doom /\ unit'[s].building = un[s].building
        /\ unit'[s].locked = un[s].locked
    BY <1>4, <1>8, <2>1, <2>2, LaunchedSound
  <2>4. Onward(unit', UnitIds \ {x}, {})
    BY <1>5, <2>1, <2>3 DEF Onward, Follows
  <2> QED BY <1>2, <1>4, <2>1, <2>3, <2>4
<1> QED BY <1>1, <1>3, <1>6, <1>7, <1>8

LEMMA MirvLaunchUnits ==
    ASSUME TypeOK, Loop, MirvLaunch
    PROVE  \/ unit' = unit
           \/ /\ FreeIds # {} /\ Sound(unit') /\ Onward(unit', UnitIds \ {Fresh}, {})
              /\ unit'[Fresh].type = "MIRV"
<1>1. Sound(unit) /\ Me.by \in Players /\ Me.tile \in Tiles
  <2>1. Turn("mirv")
    BY DEF MirvLaunch
  <2>2. JobOK(Me) /\ Me.kind = "mirv"
    BY <2>1, MyTurn
  <2> QED BY <2>2, UnitsSound DEF JobOK
<1> DEFINE w == New("MIRV", Me.by, Me.tile)
<1>2. Apt(w) /\ w.type = "MIRV"
  <2> DEFINE p == Me.by
             t == Me.tile
  <2>1. "MIRV" \in UnitTypes /\ "MIRV" \notin Structures /\ p \in Players /\ t \in Tiles \cup {0}
    BY <1>1 DEF UnitTypes, Bombs, Structures
  <2> HIDE DEF p, t
  <2>2. Apt(New("MIRV", p, t))
    BY <2>1, NewSound
  <2> QED BY <2>2, NewFields DEF p, t
<1>3. \/ unit' = unit
      \/ FreeIds # {} /\ unit' = [unit EXCEPT ![Fresh] = w]
  BY DEF MirvLaunch
<1> HIDE DEF w
<1> QED BY <1>1, <1>2, <1>3, BuiltUnits

LEMMA InitTrainUnits ==
    ASSUME TypeOK, Loop, InitTrain
    PROVE  \/ unit' = unit
           \/ /\ FreeIds # {} /\ Sound(unit') /\ Onward(unit', UnitIds \ {Fresh}, {})
              /\ unit'[Fresh].type = "Train" /\ unit'[Fresh].holder = New1.by
<1>1. Sound(unit) /\ New1.by \in Players
  BY UnitsSound, MyInit DEF InitTrain, JobOK
<1> DEFINE w == New("Train", New1.by, 0)
<1>2. Apt(w) /\ w.type = "Train" /\ w.holder = New1.by
  <2> DEFINE p == New1.by
  <2>1. "Train" \in UnitTypes /\ "Train" \notin Structures /\ p \in Players /\ 0 \in Tiles \cup {0}
    BY <1>1 DEF UnitTypes, Bombs, Structures
  <2> HIDE DEF p
  <2>2. Apt(New("Train", p, 0))
    BY <2>1, NewSound
  <2> QED BY <2>2, NewFields DEF p
<1>3. \/ unit' = unit
      \/ FreeIds # {} /\ unit' = [unit EXCEPT ![Fresh] = w]
  BY DEF InitTrain
<1> HIDE DEF w
<1> QED BY <1>1, <1>2, <1>3, BuiltUnits

LEMMA RemovalUnits ==
    ASSUME TypeOK, NukeTurn \/ MirvTurn \/ DeleteTurn \/ TrainTurn \/ \E x \in todo.pairs : Ally(x)
    PROVE  unit' = unit \/ \E S : unit' = Without(S)
<1>1. CASE NukeTurn
  BY <1>1 DEF NukeTurn, Detonate
<1>2. CASE MirvTurn
  BY <1>2 DEF MirvTurn
<1>3. CASE DeleteTurn
  BY <1>3 DEF DeleteTurn
<1>4. CASE TrainTurn
  BY <1>4 DEF TrainTurn, DeleteTrain
<1>5. ASSUME NEW x, Ally(x) PROVE unit' = unit \/ \E S : unit' = Without(S)
  BY <1>5 DEF Ally
<1> QED BY <1>1, <1>2, <1>3, <1>4, <1>5

LEMMA InitUpgradeUnits ==
    ASSUME TypeOK, Loop, InitUpgrade
    PROVE  Sound(unit') /\ Onward(unit', UnitIds, {})
<1>1. Sound(unit) /\ New1.unit \in UnitIds
  BY UnitsSound, MyInit DEF InitUpgrade, JobOK
<1>2. CASE unit' = unit
  BY <1>1, <1>2, SameOnward
<1>3. CASE unit' = Upgraded(New1.unit)
  <2> DEFINE u == New1.unit
             q == IF unit[u].type \in Launchers THEN Append(unit[u].queue, 0) ELSE unit[u].queue
             n == unit[u].level + 1
             w == [unit[u] EXCEPT !.level = n, !.queue = q]
  <2>1. unit[u] \in UnitType /\ Apt(unit[u])
    BY <1>1 DEF Sound, Apt
  <2>2. q \in Seq(0 .. Cooldown) /\ n \in Nat
    <3>1. unit[u].queue \in Seq(0 .. Cooldown) /\ unit[u].level \in Nat /\ 0 \in 0 .. Cooldown
      BY <2>1, FieldsOf, Numbers
    <3>2. Append(unit[u].queue, 0) \in Seq(0 .. Cooldown)
      BY <3>1, AppendProperties
    <3>3. CASE unit[u].type \in Launchers
      BY <3>1, <3>2, <3>3
    <3>4. CASE unit[u].type \notin Launchers
      BY <3>1, <3>4
    <3> QED BY <3>3, <3>4
  <2>3. unit' = [unit EXCEPT ![u] = w]
    BY <1>1, <1>3 DEF Upgraded, Sound
  <2> HIDE DEF q, n
  <2>4. Apt(w) /\ Follows(unit[u], w, {})
    BY <2>1, <2>2 DEF Apt, UnitType, Follows
  <2> HIDE DEF w
  <2> QED BY <1>1, <2>3, <2>4, ChangedUnits, SameOnward
<1> QED BY <1>2, <1>3 DEF InitUpgrade

LEMMA InitDeleteUnits ==
    ASSUME TypeOK, Loop, InitDelete
    PROVE  /\ New1.unit \in UnitIds /\ Sound(unit') /\ Onward(unit', UnitIds, {"doom"})
           /\ \A u \in UnitIds \ {New1.unit} : unit'[u] = unit[u]
           /\ unit'[New1.unit].holder = unit[New1.unit].holder
           /\ unit' # unit => unit[New1.unit].holder = New1.by /\ execs' = Append(execs, New1)
<1>1. Sound(unit) /\ New1.unit \in UnitIds
  BY UnitsSound, MyInit DEF InitDelete, JobOK
<1>2. CASE unit' = unit
  BY <1>1, <1>2, SameOnward
<1>3. CASE /\ unit' = [unit EXCEPT ![New1.unit].doom = 0] /\ unit[New1.unit].holder = New1.by
           /\ Append1(New1)
  <2> DEFINE u == New1.unit
             w == [unit[u] EXCEPT !.doom = 0]
  <2>1. unit[u] \in UnitType /\ Apt(unit[u])
    BY <1>1 DEF Sound, Apt
  <2>2. 0 \in Unmarked .. DeletionTicks + 1
    BY Numbers DEF Unmarked
  <2>3. unit' = [unit EXCEPT ![u] = w]
    BY <1>1, <1>3 DEF Sound
  <2>4. Apt(w) /\ Follows(unit[u], w, {"doom"}) /\ w.holder = unit[u].holder
    BY <2>1, <2>2 DEF Apt, UnitType, Follows
  <2> HIDE DEF w
  <2>5. Sound(unit') /\ Onward(unit', UnitIds, {"doom"})
    BY <1>1, <2>3, <2>4, ChangedUnits, SameOnward
  <2>6. unit'[u] = w /\ \A v \in UnitIds \ {u} : unit'[v] = unit[v]
    BY <1>1, <2>3, <2>4, WrittenSound
  <2> QED BY <1>1, <1>3, <2>4, <2>5, <2>6 DEF Append1
<1>4. \/ unit' = unit
      \/ /\ unit' = [unit EXCEPT ![New1.unit].doom = 0] /\ unit[New1.unit].holder = New1.by
         /\ Append1(New1)
  BY DEF InitDelete
<1> QED BY <1>2, <1>3, <1>4

-----------------------------------------------------------------------------
(* What each action does to the lists. *)

\* No unit that has an id turns into another one; only structures change hands.
Stable ==
    \A u \in UnitIds \ FreeIds :
        \/ unit'[u].type = "none"
        \/ /\ unit'[u].type = unit[u].type
           /\ unit'[u].holder # unit[u].holder => unit[u].type \in Structures
LEMMA OnwardStable ==
    ASSUME NEW S, UnitIds \ FreeIds \subseteq S, NEW F, Onward(unit', S, F)
    PROVE  Stable
  BY NoUnitSound DEF Onward, Follows, Stable
LEMMA SameStable == unit' = unit => Stable
  BY DEF Stable
LEMMA BuiltStable ==
    ASSUME NEW F, FreeIds # {}, Onward(unit', UnitIds \ {Fresh}, F)
    PROVE  Stable
<1>1. UnitIds \ FreeIds \subseteq UnitIds \ {Fresh}
  BY FreshIsFree
<1> QED BY <1>1, OnwardStable

LEMMA KeptFits ==
    ASSUME Loop, Names, Stable, NEW j \in Jobs
    PROVE  Fits(j)'
<1>1. JobOK(j) /\ Fits(j) /\ j.unit \notin FreeIds /\ j.prey \notin FreeIds /\ j.from \notin FreeIds
  BY JobsNamed DEF Loop, Names
<1>2. ASSUME j.unit # NoUnitId, Exists(j.unit)'
      PROVE  /\ <<j.kind, unit'[j.unit].type>> \in Crew
             /\ j.kind \in {"build", "nuke"} => unit'[j.unit].type = j.type
             /\ j.kind \in {"hunt", "train"} => unit'[j.unit].holder = j.by
  <2>1. j.unit \in UnitIds \ FreeIds
    BY <1>1, <1>2 DEF JobOK
  <2>2. /\ unit'[j.unit].type = unit[j.unit].type /\ Exists(j.unit)
        /\ unit'[j.unit].holder # unit[j.unit].holder => unit[j.unit].type \in Structures
    BY <1>2, <2>1 DEF Stable, Exists
  <2>3. /\ <<j.kind, unit[j.unit].type>> \in Crew
        /\ j.kind \in {"build", "nuke"} => unit[j.unit].type = j.type
        /\ j.kind \in {"hunt", "train"} => unit[j.unit].holder = j.by
    BY <1>1, <1>2, <2>2 DEF Fits
  <2>4. j.kind \in {"hunt", "train"} => unit[j.unit].type \notin Structures
    BY <2>3 DEF Crew, Structures
  <2> QED BY <2>2, <2>3, <2>4
<1>3. ASSUME j.kind = "hunt"
      PROVE  /\ unit'[j.from].type \in {"SAM", "none"}
             /\ Exists(j.prey)' => unit'[j.prey].type = "Bomb" /\ unit'[j.prey].holder = j.victim
  <2>1. j.from \in UnitIds \ FreeIds /\ j.prey \in UnitIds \ FreeIds
    BY <1>1, <1>3 DEF JobOK
  <2>2. /\ unit[j.from].type \in {"SAM", "none"}
        /\ Exists(j.prey) => unit[j.prey].type = "Bomb" /\ unit[j.prey].holder = j.victim
    BY <1>1, <1>3 DEF Fits
  <2> QED BY <2>1, <2>2 DEF Stable, Exists, Structures
<1> QED BY <1>2, <1>3 DEF Fits

\* k is what becomes of j in its turn.
Like(j, k) ==
    /\ k.kind = j.kind /\ k.unit = j.unit /\ k.prey = j.prey /\ k.from = j.from
    /\ DOMAIN k = DOMAIN j
    /\ j.kind \in Kinds => k.type = j.type /\ k.tile = j.tile
    /\ j.kind = "hunt" => k.victim = j.victim
    /\ k.by = j.by \/ (k.by \in Players /\ j.kind \notin {"hunt", "train"})
LEMMA LikeFits ==
    ASSUME Loop, Names, Stable, NEW j \in Jobs, NEW k, Like(j, k)
    PROVE  JobOK(k) /\ Fits(k)'
<1>1. JobOK(j) /\ Fits(j)'
  BY KeptFits DEF Loop
<1>2. JobOK(k)
  BY <1>1 DEF JobOK, Like, Kinds
<1>3. Fits(k)'
  BY <1>1 DEF Fits, Like, Kinds
<1> QED BY <1>2, <1>3
\* An execution that works for no unit yet.
LEMMA FreshFits ==
    ASSUME NEW k, k.unit = NoUnitId, k.kind # "hunt"
    PROVE  Fits(k)'
  BY DEF Fits

LEMMA TurnJobs ==
    ASSUME Loop, Names, Stable, NEW k, Turn(k), todo' \in PlanType,
           Done \/ \E j : Stay(j) /\ JobOK(j) /\ Fits(j)',
           \/ UNCHANGED uninit
           \/ \E js : js \in Seq(Range(js)) /\ Add(js) /\ \A j \in Range(js) : JobOK(j) /\ Fits(j)'
    PROVE  Loop' /\ Names'
<1>1. cursor \in 1 .. Len(execs) /\ cursor \in Nat \ {0}
  BY MyTurn
<1>2. /\ execs' \in Seq(Range(execs')) /\ cursor' \in Nat \ {0}
      /\ \A j \in Range(execs') : JobOK(j) /\ Fits(j)'
  <2>1. CASE Done
    <3>1. execs' = Removed(execs, cursor) /\ cursor' = cursor
      BY <2>1 DEF Done, Removed
    <3>2. execs' \in Seq(Range(execs')) /\ Range(execs') \subseteq Range(execs)
      BY <1>1, <3>1, RemovedList DEF Loop
    <3>3. Range(execs') \subseteq Jobs
      BY <3>2 DEF Jobs
    <3> QED BY <1>1, <3>1, <3>2, <3>3, KeptFits DEF Loop
  <2>2. ASSUME NEW j, Stay(j), JobOK(j), Fits(j)'
        PROVE  /\ execs' \in Seq(Range(execs')) /\ cursor' \in Nat \ {0}
               /\ \A i \in Range(execs') : JobOK(i) /\ Fits(i)'
    <3>1. execs' = [execs EXCEPT ![cursor] = j] /\ cursor' = cursor + 1
      BY <2>2 DEF Stay
    <3>2. execs' \in Seq(Range(execs')) /\ Range(execs') \subseteq Range(execs) \cup {j}
      BY <1>1, <3>1, ExceptList DEF Loop
    <3>3. Range(execs') \subseteq Jobs \cup {j}
      BY <3>2 DEF Jobs
    <3>4. cursor' \in Nat \ {0}
      BY <1>1, <3>1
    <3>5. \A i \in Range(execs') : JobOK(i) /\ Fits(i)'
      BY <2>2, <3>3, KeptFits DEF Loop
    <3> QED BY <3>2, <3>4, <3>5
  <2> QED BY <2>1, <2>2
<1>3. uninit' \in Seq(Range(uninit')) /\ \A j \in Range(uninit') : JobOK(j) /\ Fits(j)'
  <2>1. CASE UNCHANGED uninit
    <3>1. Range(uninit') \subseteq Jobs
      BY <2>1 DEF Jobs
    <3> QED BY <2>1, <3>1, KeptFits DEF Loop
  <2>2. ASSUME NEW js, js \in Seq(Range(js)), Add(js), \A j \in Range(js) : JobOK(j) /\ Fits(j)'
        PROVE  uninit' \in Seq(Range(uninit')) /\ \A j \in Range(uninit') : JobOK(j) /\ Fits(j)'
    <3>1. uninit' \in Seq(Range(uninit')) /\ Range(uninit') = Range(uninit) \cup Range(js)
      BY <2>2, ConcatList DEF Add, Loop, Joined
    <3>2. Range(uninit') \subseteq Jobs \cup Range(js)
      BY <3>1 DEF Jobs
    <3> QED BY <2>2, <3>1, <3>2, KeptFits DEF Loop
  <2> QED BY <2>1, <2>2
<1> QED BY <1>2, <1>3 DEF Loop, Names, Jobs

LEMMA InitJobs ==
    ASSUME Loop, Names, Stable, NEW k, DueInit(k), UNCHANGED <<cursor, todo>>,
           Drop1 \/ \E j : Append1(j) /\ JobOK(j) /\ Fits(j)'
    PROVE  Loop' /\ Names'
<1>1. /\ uninit \in Seq(Range(uninit)) /\ uninit # <<>> /\ execs \in Seq(Range(execs))
      /\ cursor' \in Nat \ {0} /\ todo' \in PlanType
  BY MyInit DEF Loop
<1>2. uninit' = Tail(uninit)
  BY DEF Drop1, Append1
<1>3. uninit' \in Seq(Range(uninit')) /\ Range(uninit') \subseteq Range(uninit)
  <2>1. PICK s, t : s = uninit /\ t = Tail(s) /\ uninit' = t
    BY <1>2
  <2>2. t \in Seq(Range(t)) /\ Range(s) = Range(t) \cup {s[1]}
    BY <1>1, <2>1, TailList
  <2> QED BY <2>1, <2>2
<1>4. /\ execs' \in Seq(Range(execs'))
      /\ \A j \in Range(execs') : j \in Jobs \/ (JobOK(j) /\ Fits(j)')
  <2>1. CASE execs' = execs
    BY <1>1, <2>1 DEF Jobs
  <2>2. ASSUME NEW j, Append1(j), JobOK(j), Fits(j)'
        PROVE  /\ execs' \in Seq(Range(execs'))
               /\ \A i \in Range(execs') : i \in Jobs \/ (JobOK(i) /\ Fits(i)')
    <3>1. execs' = Append(execs, j)
      BY <2>2 DEF Append1
    <3>2. execs' \in Seq(Range(execs')) /\ Range(execs') = Range(execs) \cup {j}
      BY <1>1, <3>1, AppendList
    <3> QED BY <2>2, <3>2 DEF Jobs
  <2> QED BY <2>1, <2>2 DEF Drop1
<1>5. \A j \in Jobs' : JobOK(j) /\ Fits(j)'
  <2>1. \A j \in Jobs' : j \in Jobs \/ (JobOK(j) /\ Fits(j)')
    BY <1>3, <1>4 DEF Jobs
  <2> QED BY <2>1, KeptFits DEF Loop
<1> QED BY <1>1, <1>3, <1>4, <1>5 DEF Loop, Names

LEMMA SameJobs ==
    ASSUME Loop, Names, Stable, UNCHANGED <<execs, uninit>>, cursor' \in Nat \ {0},
           todo' \in PlanType
    PROVE  Loop' /\ Names'
<1>1. Jobs' = Jobs
  BY DEF Jobs
<1> QED BY <1>1, KeptFits DEF Loop, Names

LEMMA OneMore ==
    ASSUME NEW j, JobOK(j), Fits(j)', Add(<<j>>)
    PROVE  \E js : js \in Seq(Range(js)) /\ Add(js) /\ \A i \in Range(js) : JobOK(i) /\ Fits(i)'
<1> DEFINE js == <<j>>
<1>1. js \in Seq(Range(js)) /\ Range(js) = {j} /\ Add(js)
  BY OneJob
<1> HIDE DEF js
<1>2. \A i \in Range(js) : JobOK(i) /\ Fits(i)'
  BY <1>1
<1> QED BY <1>1, <1>2

\* With what it is in its turn, an execution stays.
LEMMA StayLike ==
    ASSUME Loop, Names, Stable, NEW k, Turn(k), NEW j, Like(Me, j), Stay(j)
    PROVE  \E i : Stay(i) /\ JobOK(i) /\ Fits(i)'
<1>1. PICK m : m = Me /\ m \in Jobs
  BY MyTurn
<1>2. JobOK(j) /\ Fits(j)'
  BY <1>1, LikeFits
<1> QED BY <1>2
LEMMA MeLikeMe == Like(Me, Me)
  BY DEF Like

LEMMA RunnerFacts ==
    ASSUME NEW k \in Structures, NEW p \in Players, NEW u \in UnitIds
    PROVE  LET j == RunnerOf(k, p, u) IN
           /\ JobOK(j) /\ j.kind = Runner(k) /\ j.kind \in Runners /\ <<j.kind, k>> \in Crew
           /\ j.unit = u /\ j.by = p /\ j.kind \in Kinds
<1>1. Runner(k) \in Runners /\ <<Runner(k), k>> \in Crew
  BY DEF Runner, Structures, Runners, Crew
<1>2. Runner(k) \in Kinds /\ Runner(k) \notin {"recompute", "hunt", "build", "nuke", "mirv"}
  BY <1>1 DEF Runners, Kinds
<1> DEFINE r == Runner(k)
<1>3. RunnerOf(k, p, u) = [Job(r, p) EXCEPT !.unit = u]
  BY DEF RunnerOf
<1> HIDE DEF r
<1>4. r \in Runners /\ r \in Kinds /\ r \notin {"recompute", "hunt", "build", "nuke", "mirv"}
  BY <1>1, <1>2 DEF r
<1> DEFINE j == [Job(r, p) EXCEPT !.unit = u]
<1>5. /\ j.kind = r /\ j.by = p /\ j.unit = u
      /\ DOMAIN j = {"kind", "by", "type", "tile", "unit", "prey", "from", "victim", "left", "wait"}
  BY DEF Job
<1> HIDE DEF j
<1>6. JobOK(j)
  BY <1>4, <1>5 DEF JobOK
<1> QED BY <1>1, <1>3, <1>4, <1>5, <1>6 DEF j, r
LEMMA Edits ==
    ASSUME NEW k, JobOK(k), NEW n
    PROVE  /\ Like(k, [k EXCEPT !.left = n]) /\ Like(k, [k EXCEPT !.wait = n])
           /\ k.kind # "hunt" => Like(k, [k EXCEPT !.victim = n])
           /\ k.kind = "train" => \A m : Like(k, [k EXCEPT !.path = m, !.left = n])
           /\ n \in Players /\ k.kind \notin {"hunt", "train"} =>
                 /\ Like(k, [k EXCEPT !.by = n])
                 /\ \A m : /\ Like(k, [k EXCEPT !.by = n, !.left = m])
                           /\ Like(k, [[k EXCEPT !.by = n] EXCEPT !.left = m])
                           /\ Like(k, [[k EXCEPT !.by = n] EXCEPT !.station = m])
<1>1. {"kind", "by", "unit", "prey", "from"} \subseteq DOMAIN k
  BY DEF JobOK
<1>2. k.kind \in Kinds => {"type", "tile", "victim"} \subseteq DOMAIN k
  BY DEF JobOK
<1> QED BY <1>1, <1>2 DEF Like
\* A unit that is there belongs to a player.
LEMMA HolderIsPlayer ==
    ASSUME TypeOK, NEW u \in UnitIds, Exists(u)
    PROVE  unit[u].holder \in Players
<1>1. Apt(unit[u]) /\ unit[u] \in UnitType
  BY UnitsSound DEF Sound, Apt
<1> QED BY <1>1, FieldsOf DEF Apt, Exists

LEMMA IdleStep ==
    ASSUME TypeOK, Loop, Names, UNCHANGED <<execs, uninit, cursor>> \/ OpenTick, todo' \in PlanType,
           Stable
    PROVE  Loop' /\ Names'
<1>1. UNCHANGED <<execs, uninit>> /\ cursor' \in Nat \ {0}
  BY DEF OpenTick, Loop
<1> QED BY <1>1, SameJobs
LEMMA PlayerTurnStep ==
    ASSUME TypeOK, Loop, Names, PlayerTurn
    PROVE  Stable /\ Loop' /\ Names'
<1>1. Stable
  BY PlayerTurnUnits, OnwardStable
<1>2. Turn("player") /\ UNCHANGED uninit /\ todo' \in PlanType /\ (Done \/ Stay(Me))
  BY DEF PlayerTurn, Tick, Loop
<1>3. Done \/ \E j : Stay(j) /\ JobOK(j) /\ Fits(j)'
  BY <1>1, <1>2, MeLikeMe, StayLike
<1> QED BY <1>1, <1>2, <1>3, TurnJobs
LEMMA SiloTurnStep ==
    ASSUME TypeOK, Loop, Names, SiloTurn
    PROVE  Stable /\ Loop' /\ Names'
<1>1. Stable
  BY SiloTurnUnits, OnwardStable
<1>2. /\ Turn("silo") /\ UNCHANGED uninit /\ todo' \in PlanType
      /\ Done \/ (Exists(Me.unit) /\ Stay(Held))
  BY DEF SiloTurn, Tick, Loop, Gone
<1>3. Exists(Me.unit) => Like(Me, Held)
  <2>1. JobOK(Me) /\ Me.kind = "silo" /\ Me.unit \in UnitIds
    BY <1>2, MyTurn DEF JobOK, Runners
  <2> QED BY <2>1, Edits, HolderIsPlayer DEF Held
<1>4. Done \/ \E j : Stay(j) /\ JobOK(j) /\ Fits(j)'
  BY <1>1, <1>2, <1>3, StayLike
<1> QED BY <1>1, <1>2, <1>4, TurnJobs
LEMMA PostTurnStep ==
    ASSUME TypeOK, Loop, Names, PostTurn
    PROVE  Stable /\ Loop' /\ Names'
<1>1. Stable
  BY SameStable DEF PostTurn, Gone
<1>2. /\ Turn("post") /\ UNCHANGED uninit /\ todo' \in PlanType
      /\ Done \/ (Exists(Me.unit) /\ Stay(Held))
  BY DEF PostTurn, Tick, Loop, Gone
<1>3. Exists(Me.unit) => Like(Me, Held)
  <2>1. JobOK(Me) /\ Me.kind = "post" /\ Me.unit \in UnitIds
    BY <1>2, MyTurn DEF JobOK, Runners
  <2> QED BY <2>1, Edits, HolderIsPlayer DEF Held
<1>4. Done \/ \E j : Stay(j) /\ JobOK(j) /\ Fits(j)'
  BY <1>1, <1>2, <1>3, StayLike
<1> QED BY <1>1, <1>2, <1>4, TurnJobs

LEMMA DelegateStep ==
    ASSUME TypeOK, Loop, Names, Delegate
    PROVE  Stable /\ Loop' /\ Names'
<1>1. Stable
  BY SameStable DEF Delegate
<1> DEFINE k == IF Me.type = "MIRV" THEN "mirv" ELSE "nuke"
<1>2. PICK j : j = [Job(k, Me.by) EXCEPT !.type = Me.type, !.tile = Me.tile]
  OBVIOUS
<1>3. Turn("build") /\ Me.type \notin Structures /\ Done /\ Add(<<j>>) /\ todo' \in PlanType
  BY <1>2 DEF Delegate, Tick, Loop
<1>4. Me.by \in Players /\ Me.type \in {"Bomb", "MIRV"} /\ Me.tile \in Tiles
  <2>1. JobOK(Me) /\ Me.kind = "build"
    BY <1>3, MyTurn
  <2> QED BY <1>3, <2>1 DEF JobOK
<1>5. JobOK(j) /\ j.unit = NoUnitId /\ j.kind # "hunt"
  BY <1>2, <1>4 DEF JobOK, Job, Runners
<1>6. Fits(j)'
  BY <1>5, FreshFits
<1>7. \E js : js \in Seq(Range(js)) /\ Add(js) /\ \A i \in Range(js) : JobOK(i) /\ Fits(i)'
  BY <1>3, <1>5, <1>6, OneMore
<1> QED BY <1>1, <1>3, <1>7, TurnJobs

LEMMA GiveUpStep ==
    ASSUME TypeOK, Loop, Names, GiveUp \/ Fizzle
    PROVE  Stable /\ Loop' /\ Names'
<1>1. Stable
  BY SameStable DEF GiveUp, Fizzle
<1>2. UNCHANGED uninit /\ todo' \in PlanType /\ Done
  BY DEF GiveUp, Fizzle, Tick, Loop
<1>3. Turn("build") \/ Turn("nuke")
  BY DEF GiveUp, Fizzle
<1> QED BY <1>1, <1>2, <1>3, TurnJobs

LEMMA DeleteTurnStep ==
    ASSUME TypeOK, Loop, Names, DeleteTurn
    PROVE  Stable /\ Loop' /\ Names'
<1>1. Stable
  <2>1. unit' = unit \/ \E S : unit' = Without(S)
    BY RemovalUnits
  <2> QED BY <2>1, UnitsSound, WithoutSound, OnwardStable, SameStable
<1>2. Turn("delete") /\ UNCHANGED uninit /\ todo' \in PlanType /\ (Done \/ Stay(Me))
  BY DEF DeleteTurn, Tick, Loop
<1>3. Done \/ \E j : Stay(j) /\ JobOK(j) /\ Fits(j)'
  BY <1>1, <1>2, MeLikeMe, StayLike
<1> QED BY <1>1, <1>2, <1>3, TurnJobs

\* The runner of a structure that is there, or has just come to be.
LEMMA RunnerFits ==
    ASSUME NEW k \in Structures, NEW p \in Players, NEW u \in UnitIds,
           unit'[u].type \in {k, "none"}
    PROVE  JobOK(RunnerOf(k, p, u)) /\ Fits(RunnerOf(k, p, u))'
<1> DEFINE j == RunnerOf(k, p, u)
<1>1. /\ JobOK(j) /\ j.kind \in Runners /\ <<j.kind, k>> \in Crew /\ j.unit = u
  BY RunnerFacts
<1> HIDE DEF j
<1>2. j.kind \notin {"build", "nuke", "hunt", "train"}
  BY <1>1 DEF Runners
<1>3. Fits(j)'
  BY <1>1, <1>2 DEF Fits, Exists
<1> QED BY <1>1, <1>3 DEF j

LEMMA LayStep ==
    ASSUME TypeOK, Loop, Names, Lay
    PROVE  Stable /\ Loop' /\ Names'
<1>1. /\ FreeIds # {} /\ Onward(unit', UnitIds \ {Fresh}, {}) /\ unit'[Fresh].type = Me.type
      /\ Fresh \in UnitIds
  BY LayUnits, FreshIsFree
<1>2. Stable
  BY <1>1, BuiltStable
<1>3. PICK x : x = Fresh
  OBVIOUS
<1>4. /\ Turn("build") /\ Me.type \in Structures /\ todo' \in PlanType
      /\ \/ Stay([Me EXCEPT !.unit = x, !.left = Duration]) /\ UNCHANGED uninit
         \/ Add(<<RunnerOf(Me.type, Me.by, x)>>) /\ Done
  BY <1>3 DEF Lay, Tick, Loop
<1>5. JobOK(Me) /\ Me.kind = "build" /\ Me.by \in Players
  BY <1>4, MyTurn DEF JobOK
<1>6. CASE Stay([Me EXCEPT !.unit = x, !.left = Duration]) /\ UNCHANGED uninit
  <2>1. PICK j : j = [Me EXCEPT !.unit = x, !.left = Duration]
    OBVIOUS
  <2>2. /\ j.kind = "build" /\ j.unit = x /\ j.by = Me.by /\ j.type = Me.type /\ j.tile = Me.tile
        /\ DOMAIN j = DOMAIN Me
    BY <1>5, <2>1 DEF JobOK, Kinds
  <2>3. JobOK(j)
    BY <1>1, <1>3, <1>5, <2>2 DEF JobOK, Runners
  <2>4. Fits(j)'
    BY <1>1, <1>3, <1>4, <2>2 DEF Fits, Crew
  <2> QED BY <1>2, <1>4, <1>6, <2>1, <2>3, <2>4, TurnJobs
<1>7. CASE Add(<<RunnerOf(Me.type, Me.by, x)>>) /\ Done
  <2>1. PICK k, p : k = Me.type /\ p = Me.by
    OBVIOUS
  <2>2. PICK j : j = RunnerOf(k, p, x)
    OBVIOUS
  <2>3. JobOK(j) /\ Fits(j)'
    BY <1>1, <1>3, <1>4, <1>5, <2>1, <2>2, RunnerFits
  <2>4. \E js : js \in Seq(Range(js)) /\ Add(js) /\ \A i \in Range(js) : JobOK(i) /\ Fits(i)'
    BY <1>7, <2>1, <2>2, <2>3, OneMore
  <2> QED BY <1>2, <1>4, <1>7, <2>4, TurnJobs
<1> QED BY <1>4, <1>6, <1>7

LEMMA BuildStep ==
    ASSUME TypeOK, Loop, Names, Build
    PROVE  Stable /\ Loop' /\ Names'
<1>1. Me.unit \in UnitIds /\ Stable
  BY BuildUnits, OnwardStable
<1>2. Turn("build") /\ Me.unit # NoUnitId /\ todo' \in PlanType
  BY DEF Build, Tick, Loop
<1>3. Me \in Jobs /\ JobOK(Me) /\ Me.kind = "build" /\ Fits(Me) /\ Me.unit \notin FreeIds
  BY <1>2, MyTurn, JobsNamed DEF Names
<1>4. CASE ~Exists(Me.unit)
  <2>1. Done /\ UNCHANGED uninit
    BY <1>4 DEF Build
  <2> QED BY <1>1, <1>2, <2>1, TurnJobs
<1>5. CASE Exists(Me.unit) /\ Me.left = 0
  <2>1. Done /\ Add(<<RunnerOf(Me.type, unit[Me.unit].holder, Me.unit)>>)
    BY <1>5 DEF Build
  <2>2. unit[Me.unit].type = Me.type /\ Me.type \in Structures
    BY <1>2, <1>3, <1>5 DEF Fits, Crew
  <2>3. unit'[Me.unit].type \in {Me.type, "none"}
    BY <1>1, <1>3, <2>2 DEF Stable
  <2>4. PICK k, p, u : k = Me.type /\ p = unit[Me.unit].holder /\ u = Me.unit
    OBVIOUS
  <2>5. PICK j : j = RunnerOf(k, p, u)
    OBVIOUS
  <2>6. JobOK(j) /\ Fits(j)'
    BY <1>1, <1>5, <2>2, <2>3, <2>4, <2>5, RunnerFits, HolderIsPlayer
  <2>7. \E js : js \in Seq(Range(js)) /\ Add(js) /\ \A i \in Range(js) : JobOK(i) /\ Fits(i)'
    BY <2>1, <2>4, <2>5, <2>6, OneMore
  <2> QED BY <1>1, <1>2, <2>1, <2>7, TurnJobs
<1>6. CASE Exists(Me.unit) /\ Me.left # 0
  <2>1. Stay([Me EXCEPT !.by = unit[Me.unit].holder, !.left = Me.left - 1]) /\ UNCHANGED uninit
    BY <1>6 DEF Build
  <2>2. Like(Me, [Me EXCEPT !.by = unit[Me.unit].holder, !.left = Me.left - 1])
    BY <1>1, <1>3, <1>6, HolderIsPlayer, Edits
  <2>3. \E j : Stay(j) /\ JobOK(j) /\ Fits(j)'
    BY <1>1, <1>2, <2>1, <2>2, StayLike
  <2> QED BY <1>1, <1>2, <2>1, <2>3, TurnJobs
<1> QED BY <1>4, <1>5, <1>6

LEMMA SamTurnStep ==
    ASSUME TypeOK, Loop, Names, SamTurn
    PROVE  Stable /\ Loop' /\ Names'
<1>1. Stable
  BY SamTurnUnits, OnwardStable
<1>2. Turn("sam") /\ todo' \in PlanType
  BY DEF SamTurn, Tick, Loop
<1>3. Me \in Jobs /\ JobOK(Me) /\ Me.kind = "sam" /\ Fits(Me) /\ Me.unit \in UnitIds \ FreeIds
  BY <1>2, MyTurn, JobsNamed DEF Names, JobOK, Runners
<1>4. CASE Gone
  <2>1. Done /\ UNCHANGED uninit
    BY <1>4 DEF Gone
  <2> QED BY <1>1, <1>2, <2>1, TurnJobs
<1>5. CASE ~Gone
  <2>1. Exists(Me.unit) /\ Stay(Held)
    BY <1>5 DEF SamTurn
  <2>2. Like(Me, Held)
    BY <1>3, <2>1, Edits, HolderIsPlayer DEF Held
  <2>3. \E j : Stay(j) /\ JobOK(j) /\ Fits(j)'
    BY <1>1, <1>2, <2>1, <2>2, StayLike
  <2>4. CASE UNCHANGED uninit
    BY <1>1, <1>2, <2>3, <2>4, TurnJobs
  <2>5. ASSUME NEW u \in Prey(unit[Me.unit].holder), NEW n,
               Add(<<[Job("hunt", unit[Me.unit].holder) EXCEPT !.prey = u, !.from = Me.unit,
                        !.left = n, !.victim = unit[u].holder]>>)
        PROVE  Loop' /\ Names'
    <3>1. PICK p, s, v : p = unit[Me.unit].holder /\ s = Me.unit /\ v = unit[u].holder
      OBVIOUS
    <3>2. PICK j : j = [Job("hunt", p) EXCEPT !.prey = u, !.from = s, !.left = n, !.victim = v]
      OBVIOUS
    <3>3. u \in UnitIds /\ unit[u].type = "Bomb" /\ Exists(u) /\ u \notin FreeIds
      BY <2>5 DEF Prey, Enemies, OfType, Exists, FreeIds
    <3>4. unit[s].type = "SAM"
      BY <1>3, <2>1, <3>1, Numbers DEF Fits, Crew
    <3>5. p \in Players /\ v \in Players /\ s \in UnitIds \ FreeIds
      BY <1>3, <2>1, <3>1, <3>3, HolderIsPlayer
    <3>6. JobOK(j) /\ j.kind = "hunt" /\ j.unit = NoUnitId /\ j.from = s /\ j.prey = u /\ j.victim = v
      BY <3>2, <3>3, <3>5 DEF JobOK, Job, Runners
    <3>7. /\ unit'[s].type \in {"SAM", "none"}
          /\ Exists(u)' => unit'[u].type = "Bomb" /\ unit'[u].holder = v
      BY <1>1, <3>1, <3>3, <3>4, <3>5 DEF Stable, Exists, Structures
    <3>8. Fits(j)'
      BY <3>6, <3>7 DEF Fits
    <3>9. \E js : js \in Seq(Range(js)) /\ Add(js) /\ \A i \in Range(js) : JobOK(i) /\ Fits(i)'
      BY <2>5, <3>1, <3>2, <3>6, <3>8, OneMore
    <3> QED BY <1>1, <1>2, <2>3, <3>9, TurnJobs
  <2>6. \/ UNCHANGED uninit
        \/ \E u \in Prey(unit[Me.unit].holder), n \in Flights :
               Add(<<[Job("hunt", unit[Me.unit].holder) EXCEPT !.prey = u, !.from = Me.unit,
                        !.left = n, !.victim = unit[u].holder]>>)
    BY <1>5 DEF SamTurn
  <2> QED BY <1>1, <2>4, <2>5, <2>6
<1> QED BY <1>4, <1>5

LEMMA HuntTurnStep ==
    ASSUME TypeOK, Loop, Names, HuntTurn
    PROVE  Stable /\ Loop' /\ Names'
<1>0. Turn("hunt") /\ (Me.unit = NoUnitId => FreeIds # {}) /\ UNCHANGED uninit /\ todo' \in PlanType
  BY DEF HuntTurn, Tick, Loop
<1>1. Stable
  <2>1. UnitIds \ FreeIds \subseteq Kin
    BY <1>0, FreshIsFree DEF Kin
  <2> QED BY <2>1, HuntTurnUnits, OnwardStable
<1>2. Me \in Jobs /\ JobOK(Me) /\ Me.kind = "hunt" /\ Fits(Me)
  BY <1>0, MyTurn DEF Names
<1>3. CASE Done
  BY <1>0, <1>1, <1>3, TurnJobs
<1>4. ASSUME NEW n, OnItsWay, unit' = WithHunter, Stay([Me EXCEPT !.unit = Hunter, !.left = n])
      PROVE  Loop' /\ Names'
  <2>1. PICK m, x : m = Me /\ x = Hunter
    OBVIOUS
  <2>2. PICK j : j = [m EXCEPT !.unit = x, !.left = n]
    OBVIOUS
  <2>3. /\ j.kind = "hunt" /\ j.unit = x /\ j.by = m.by /\ j.victim = m.victim
        /\ j.prey = m.prey /\ j.from = m.from /\ DOMAIN j = DOMAIN m
    BY <1>2, <2>1, <2>2 DEF JobOK, Kinds
  <2>4. x \in UnitIds
    BY <1>0, <2>1, HunterFacts
  <2>5. JobOK(j)
    BY <1>2, <2>1, <2>3, <2>4 DEF JobOK, Runners
  <2>6. unit'[x].holder = m.by /\ unit'[x].type \in {"Missile", "none"}
    <3>1. unit'[x].holder = m.by
      BY <1>4, <2>1 DEF OnItsWay
    <3>2. CASE Me.unit = NoUnitId
      <4>1. unit'[x] = New("Missile", Me.by, 0)
        BY <1>0, <1>4, <2>1, <3>2, HunterFacts
      <4> QED BY <3>1, <4>1, NewFields
    <3>3. CASE Me.unit # NoUnitId
      <4>1. unit' = unit /\ x = Me.unit
        BY <1>4, <2>1, <3>3 DEF WithHunter, Hunter
      <4> QED BY <1>2, <3>1, <3>3, <4>1 DEF Fits, Crew, Exists
    <3> QED BY <3>1, <3>2, <3>3
  <2>7. Fits(m)'
    BY <1>1, <1>2, <2>1, KeptFits
  <2>8. Fits(j)'
    BY <1>2, <2>1, <2>3, <2>6, <2>7 DEF Fits, Crew, Exists
  <2>9. Stay(j)
    BY <1>4, <2>1, <2>2
  <2> QED BY <1>0, <1>1, <2>5, <2>8, <2>9, TurnJobs
<1> QED BY <1>1, <1>3, <1>4, HuntTurnIs

LEMMA LaunchStep ==
    ASSUME TypeOK, Loop, Names, Launch
    PROVE  Stable /\ Loop' /\ Names'
<1>1. /\ FreeIds # {} /\ Onward(unit', UnitIds \ {Fresh}, {}) /\ unit'[Fresh].type = Me.type
      /\ Fresh \in UnitIds
  BY LaunchUnits, FreshIsFree
<1>2. Stable
  BY <1>1, BuiltStable
<1>3. Turn("nuke") /\ UNCHANGED uninit /\ todo' \in PlanType /\ Me.type \in {"Bomb", "Warhead"}
  BY DEF Launch, Tick, Loop
<1>4. JobOK(Me) /\ Me.kind = "nuke"
  BY <1>3, MyTurn
<1>5. PICK j : /\ Stay(j) /\ j.kind = "nuke" /\ j.unit = Fresh /\ j.type = Me.type
               /\ j.tile = Me.tile /\ j.by = Me.by /\ DOMAIN j = DOMAIN Me
  <2>1. {"kind", "by", "unit", "type", "tile"} \subseteq DOMAIN Me
    BY <1>4 DEF JobOK, Kinds
  <2>2. ASSUME NEW k, Stay(k), k = [Me EXCEPT !.unit = Fresh] \/ \E n : k = [Me EXCEPT !.unit = Fresh, !.left = n]
        PROVE  /\ k.kind = "nuke" /\ k.unit = Fresh /\ k.type = Me.type
               /\ k.tile = Me.tile /\ k.by = Me.by /\ DOMAIN k = DOMAIN Me
    BY <1>4, <2>1, <2>2
  <2>3. \E k : /\ Stay(k)
               /\ k = [Me EXCEPT !.unit = Fresh] \/ \E n : k = [Me EXCEPT !.unit = Fresh, !.left = n]
    BY DEF Launch
  <2> QED BY <2>2, <2>3
<1>6. JobOK(j)
  BY <1>1, <1>4, <1>5 DEF JobOK, Runners
<1>7. Fits(j)'
  BY <1>1, <1>3, <1>5 DEF Fits, Crew
<1> QED BY <1>2, <1>3, <1>5, <1>6, <1>7, TurnJobs

LEMMA RemovalStable ==
    ASSUME TypeOK, NukeTurn \/ MirvTurn \/ DeleteTurn \/ TrainTurn \/ \E x \in todo.pairs : Ally(x)
    PROVE  Stable
<1>1. unit' = unit \/ \E S : unit' = Without(S)
  BY RemovalUnits
<1> QED BY <1>1, UnitsSound, WithoutSound, OnwardStable, SameStable

LEMMA NukeTurnStep ==
    ASSUME TypeOK, Loop, Names, NukeTurn
    PROVE  Stable /\ Loop' /\ Names'
<1>1. Stable
  BY RemovalStable
<1>2. Turn("nuke") /\ UNCHANGED uninit /\ todo' \in PlanType
  BY DEF NukeTurn, Tick, Loop
<1>3. \/ Done
      \/ Stay([Me EXCEPT !.wait = Me.wait - 1])
      \/ Stay([Me EXCEPT !.left = Me.left - 1])
  BY DEF NukeTurn, Detonate
<1>4. Like(Me, [Me EXCEPT !.wait = Me.wait - 1]) /\ Like(Me, [Me EXCEPT !.left = Me.left - 1])
  BY <1>2, MyTurn, Edits
<1>5. Done \/ \E j : Stay(j) /\ JobOK(j) /\ Fits(j)'
  BY <1>1, <1>2, <1>3, <1>4, StayLike
<1> QED BY <1>1, <1>2, <1>5, TurnJobs

LEMMA MirvLaunchStep ==
    ASSUME TypeOK, Loop, Names, MirvLaunch
    PROVE  Stable /\ Loop' /\ Names'
<1>1. Turn("mirv") /\ UNCHANGED uninit /\ todo' \in PlanType
  BY DEF MirvLaunch, Tick, Loop
<1>2. Stable
  BY MirvLaunchUnits, BuiltStable, SameStable
<1>3. CASE Done
  BY <1>1, <1>2, <1>3, TurnJobs
<1>4. ASSUME NEW n \in Flights \ {0}, FreeIds # {},
             unit' = [unit EXCEPT ![Fresh] = New("MIRV", Me.by, Me.tile)],
             Stay([Me EXCEPT !.unit = Fresh, !.left = n - 1])
      PROVE  Loop' /\ Names'
  <2>1. JobOK(Me) /\ Me.kind = "mirv" /\ Sound(unit)
    BY <1>1, MyTurn, UnitsSound
  <2>2. PICK x : x = Fresh /\ x \in UnitIds
    BY <1>4, FreshIsFree
  <2>3. unit'[x].type = "MIRV"
    BY <1>4, <2>1, <2>2, NewFields DEF Sound
  <2>4. PICK j : j = [Me EXCEPT !.unit = x, !.left = n - 1]
    OBVIOUS
  <2>5. /\ j.kind = "mirv" /\ j.unit = x /\ j.tile = Me.tile /\ j.by = Me.by
        /\ DOMAIN j = DOMAIN Me
    BY <2>1, <2>4 DEF JobOK, Kinds
  <2>6. JobOK(j)
    BY <2>1, <2>2, <2>5 DEF JobOK, Runners
  <2>7. Fits(j)'
    BY <2>3, <2>5 DEF Fits, Crew
  <2> QED BY <1>1, <1>2, <1>4, <2>2, <2>4, <2>6, <2>7, TurnJobs
<1> QED BY <1>2, <1>3, <1>4 DEF MirvLaunch

LEMMA SetToSeqLists ==
    ASSUME NEW D, IsFiniteSet(D)
    PROVE  Cardinality(D) \in Nat /\ SetToSeq(D) \in [1 .. Cardinality(D) -> D]
<1>1. Cardinality(D) \in Nat /\ ExistsBijection(1 .. Cardinality(D), D)
  BY FS_CardinalityType
<1>2. \E f \in [1 .. Cardinality(D) -> D] : IsInjective(f)
  BY <1>1 DEF ExistsBijection, Bijection, Injection, IsInjective
<1> QED BY <1>1, <1>2 DEF SetToSeq
LEMMA MirvTurnStep ==
    ASSUME TypeOK, Loop, Names, MirvTurn
    PROVE  Stable /\ Loop' /\ Names'
<1>1. Turn("mirv") /\ todo' \in PlanType
  BY DEF MirvTurn, Tick, Loop
<1>2. Stable
  BY RemovalStable
<1>3. JobOK(Me) /\ Me.kind = "mirv"
  BY <1>1, MyTurn
<1>4. CASE Stay([Me EXCEPT !.left = Me.left - 1]) /\ UNCHANGED uninit
  <2>1. \E j : Stay(j) /\ JobOK(j) /\ Fits(j)'
    BY <1>1, <1>2, <1>3, <1>4, StayLike, Edits
  <2> QED BY <1>1, <1>2, <1>4, <2>1, TurnJobs
<1>5. ASSUME NEW S \in SUBSET (Land(Me.victim) \ {Me.tile}), NEW w,
             Add(Warheads(S \cup {Me.tile}, w)), Done
      PROVE  Loop' /\ Names'
  <2>1. PICK D, p : D = S \cup {Me.tile} /\ p = Me.by
    OBVIOUS
  <2>2. D \subseteq Tiles /\ IsFiniteSet(D) /\ p \in Players
    <3>1. D \subseteq Tiles /\ p \in Players
      BY <1>3, <1>5, <2>1 DEF JobOK, Land
    <3> QED BY <3>1, FS_Subset, ArsenalAssumption
  <2>3. Cardinality(D) \in Nat /\ SetToSeq(D) \in [1 .. Cardinality(D) -> D]
    BY <2>2, SetToSeqLists
  <2> DEFINE n == Cardinality(D)
             warhead(t) == [Job("nuke", p) EXCEPT !.type = "Warhead", !.tile = t, !.wait = w[t]]
  <2>4. PICK js : js = [i \in 1 .. n |-> warhead(SetToSeq(D)[i])]
    OBVIOUS
  <2>5. Add(js)
    BY <1>5, <2>1, <2>4 DEF Warheads
  <2>6. \A t \in Tiles : JobOK(warhead(t)) /\ warhead(t).unit = NoUnitId /\ warhead(t).kind # "hunt"
    BY <2>2 DEF JobOK, Job, Runners
  <2> HIDE DEF warhead
  <2>7. ASSUME NEW j \in Range(js) PROVE JobOK(j) /\ Fits(j)'
    <3>1. PICK t \in Tiles : j = warhead(t)
      BY <2>2, <2>3, <2>4, <2>7 DEF Range
    <3> QED BY <2>6, <3>1, FreshFits
  <2>8. js \in Seq(Range(js))
    BY <2>3, <2>4 DEF Range
  <2> QED BY <1>1, <1>2, <1>5, <2>5, <2>7, <2>8, TurnJobs
<1> QED BY <1>2, <1>4, <1>5 DEF MirvTurn

\* The inits.
LEMMA InitPlainStep ==
    ASSUME TypeOK, Loop, Names, InitPlain \/ InitStation
    PROVE  Stable /\ Loop' /\ Names'
<1>1. PICK k : DueInit(k)
  BY DEF InitPlain, InitStation
<1>2. Stable /\ UNCHANGED <<cursor, todo>> /\ Append1(New1)
  BY SameStable DEF InitPlain, InitStation, Initing
<1>3. PICK j : j = New1 /\ j \in Jobs
  BY <1>1, MyInit
<1>4. JobOK(j) /\ Fits(j)'
  BY <1>2, <1>3, KeptFits DEF Loop
<1> QED BY <1>1, <1>2, <1>3, <1>4, InitJobs
LEMMA InitMirvStep ==
    ASSUME TypeOK, Loop, Names, InitMirv
    PROVE  Stable /\ Loop' /\ Names'
<1>1. DueInit("mirv") /\ Stable /\ UNCHANGED <<cursor, todo>>
      /\ Append1([New1 EXCEPT !.victim = owner[New1.tile]])
  BY SameStable DEF InitMirv, Initing
<1>2. PICK j, k : j = New1 /\ k = [New1 EXCEPT !.victim = owner[New1.tile]]
  OBVIOUS
<1>3. j \in Jobs /\ JobOK(j) /\ j.kind = "mirv"
  BY <1>1, <1>2, MyInit
<1>4. Like(j, k)
  BY <1>2, <1>3, Edits
<1>5. JobOK(k) /\ Fits(k)'
  BY <1>1, <1>3, <1>4, LikeFits
<1> QED BY <1>1, <1>2, <1>5, InitJobs
LEMMA InitUpgradeStep ==
    ASSUME TypeOK, Loop, Names, InitUpgrade
    PROVE  Stable /\ Loop' /\ Names'
<1>1. DueInit("upgrade") /\ UNCHANGED <<cursor, todo>> /\ Drop1
  BY DEF InitUpgrade, Initing
<1>2. Stable
  BY InitUpgradeUnits, OnwardStable
<1> QED BY <1>1, <1>2, InitJobs
LEMMA InitDeleteStep ==
    ASSUME TypeOK, Loop, Names, InitDelete
    PROVE  Stable /\ Loop' /\ Names'
<1>1. DueInit("delete") /\ UNCHANGED <<cursor, todo>> /\ (Drop1 \/ Append1(New1))
  BY DEF InitDelete, Initing
<1>2. Stable
  BY InitDeleteUnits, OnwardStable
<1>3. PICK j : j = New1 /\ j \in Jobs
  BY <1>1, MyInit
<1>4. JobOK(j) /\ Fits(j)'
  BY <1>2, <1>3, KeptFits DEF Loop
<1> QED BY <1>1, <1>2, <1>3, <1>4, InitJobs

\* What comes from outside.
LEMMA PlanFields ==
    ASSUME Loop
    PROVE  /\ \A x \in todo.orders : x \in OrderType
           /\ \A x \in todo.landings : x \in Players \X Tiles
           /\ \A x \in todo.pairs : x \subseteq Players
           /\ \A f \in {"orders", "landings", "pairs"} : \A x : [todo EXCEPT ![f] = @ \ {x}] \in PlanType
           /\ todo.trains \in Nat
           /\ todo.trains > 0 => [todo EXCEPT !.trains = @ - 1] \in PlanType
<1>1. todo \in PlanType
  BY DEF Loop
<1>2. /\ todo.orders \in SUBSET OrderType /\ todo.landings \in SUBSET (Players \X Tiles)
      /\ todo.pairs \in SUBSET SUBSET Players /\ todo.trains \in Nat
  BY <1>1 DEF PlanType
<1>3. ASSUME NEW x
      PROVE  /\ [todo EXCEPT !["orders"] = @ \ {x}] \in PlanType
             /\ [todo EXCEPT !["landings"] = @ \ {x}] \in PlanType
             /\ [todo EXCEPT !["pairs"] = @ \ {x}] \in PlanType
  BY <1>1 DEF PlanType
<1>4. todo.trains > 0 => [todo EXCEPT !.trains = @ - 1] \in PlanType
  BY <1>1, <1>2 DEF PlanType
<1> QED BY <1>2, <1>3, <1>4
LEMMA OrderStep ==
    ASSUME TypeOK, Loop, Names, NEW x \in todo.orders, Order(x)
    PROVE  Stable /\ Loop' /\ Names'
<1>1. x \in OrderType /\ todo' \in PlanType
  BY PlanFields DEF Order, Spent
<1>2. Stable /\ UNCHANGED <<execs, cursor>>
  BY SameStable DEF Order
<1>3. PICK j : j = [Job(x.kind, x.by) EXCEPT !.type = x.type, !.tile = x.tile, !.unit = x.unit]
  OBVIOUS
<1>4. /\ j.kind = x.kind /\ j.by = x.by /\ j.type = x.type /\ j.tile = x.tile /\ j.unit = x.unit
      /\ {"kind", "by", "unit", "prey", "from", "type", "tile", "victim"} \subseteq DOMAIN j
  BY <1>3 DEF Job
<1>5. Add(<<j>>) /\ (x.kind # "build" => unit[x.unit].type \in Structures /\ unit' = unit)
  BY <1>3 DEF Order, OfType
<1>6. \/ /\ x.kind = "build" /\ x.by \in Players /\ x.type \in Structures \cup {"Bomb", "MIRV"}
         /\ x.tile \in Tiles /\ x.unit = NoUnitId
      \/ x.kind \in {"upgrade", "delete"} /\ x.by \in Players /\ x.unit \in UnitIds
  BY <1>1 DEF OrderType
<1>7. JobOK(j)
  BY <1>4, <1>6 DEF JobOK, Runners
<1>8. Fits(j)'
  BY <1>4, <1>5, <1>6 DEF Fits, Crew
<1>9. PICK js : js \in Seq(Range(js)) /\ Add(js) /\ \A i \in Range(js) : JobOK(i) /\ Fits(i)'
  BY <1>5, <1>7, <1>8, OneMore
<1>10. /\ uninit' \in Seq(Range(uninit')) /\ Range(uninit') = Range(uninit) \cup Range(js)
       /\ execs' \in Seq(Range(execs')) /\ cursor' \in Nat \ {0}
  BY <1>2, <1>9, ConcatList DEF Add, Loop, Joined
<1>11. \A i \in Jobs' : JobOK(i) /\ Fits(i)'
  <2>1. \A i \in Jobs' : i \in Jobs \/ i \in Range(js)
    BY <1>2, <1>10 DEF Jobs
  <2> QED BY <1>2, <1>9, <2>1, KeptFits DEF Loop
<1> QED BY <1>1, <1>2, <1>10, <1>11 DEF Loop, Names
LEMMA OutsideStep ==
    ASSUME TypeOK, Loop, Names, Outside
    PROVE  Stable /\ Loop' /\ Names'
<1>1. ASSUME NEW x \in todo.orders, Order(x) PROVE Stable /\ Loop' /\ Names'
  BY <1>1, OrderStep
<1>2. ASSUME NEW x \in todo.landings, Conquer(x) PROVE Stable /\ Loop' /\ Names'
  <2>1. Stable /\ UNCHANGED <<execs, uninit, cursor>> /\ todo' \in PlanType
    BY <1>2, PlanFields, SameStable DEF Conquer, Spent
  <2> QED BY <2>1, IdleStep
<1>3. ASSUME NEW x \in todo.pairs, Ally(x) PROVE Stable /\ Loop' /\ Names'
  <2>1. UNCHANGED <<execs, uninit, cursor>> /\ todo' \in PlanType
    BY <1>3, PlanFields DEF Ally, Spent
  <2> QED BY <1>3, <2>1, RemovalStable, IdleStep
<1>4. ASSUME NEW x \in allies, Part(x) PROVE Stable /\ Loop' /\ Names'
  <2>1. Stable /\ UNCHANGED <<execs, uninit, cursor>> /\ todo' \in PlanType
    BY <1>4, SameStable DEF Part, Loop
  <2> QED BY <2>1, IdleStep
<1> QED BY <1>1, <1>2, <1>3, <1>4 DEF Outside

\* Stations and trains.
LEMMA StationFits ==
    ASSUME NEW p \in Players, NEW u \in UnitIds, unit'[u].type \in {"City", "Factory", "Port"}
    PROVE  /\ JobOK(StationJob(p, u, FALSE)) /\ Fits(StationJob(p, u, FALSE))'
           /\ JobOK(StationJob(p, u, TRUE)) /\ Fits(StationJob(p, u, TRUE))'
<1>1. ASSUME NEW j, j = StationJob(p, u, FALSE) \/ j = StationJob(p, u, TRUE)
      PROVE  JobOK(j) /\ Fits(j)'
  <2>1. /\ j.kind = "station" /\ j.by = p /\ j.unit = u
        /\ {"kind", "by", "unit", "prey", "from"} \subseteq DOMAIN j
    BY <1>1 DEF StationJob
  <2>2. JobOK(j)
    BY <2>1 DEF JobOK, Kinds
  <2>3. Fits(j)'
    BY <2>1 DEF Fits, Crew, Exists
  <2> QED BY <2>2, <2>3
<1> QED BY <1>1

\* The turns of a city, a port and a factory begin alike.
LEMMA RailTurn ==
    ASSUME TypeOK, Loop, Names, NEW k \in {"city", "port", "factory", "station"}, Turn(k), unit' = unit
    PROVE  /\ Stable /\ Me.unit \in UnitIds
           /\ Exists(Me.unit) => /\ unit[Me.unit].type \in {"City", "Factory", "Port"}
                                 /\ unit[Me.unit].holder \in Players /\ Held.by = unit[Me.unit].holder
                                 /\ Like(Me, Held) /\ \A n : /\ Like(Me, [Held EXCEPT !.left = n])
                                                             /\ Like(Me, [Held EXCEPT !.station = n])
<1>1. Stable
  BY SameStable
<1>2. JobOK(Me) /\ Fits(Me) /\ Me.kind = k /\ Me.unit \in UnitIds /\ k \notin {"hunt", "train"}
  BY MyTurn DEF Names, JobOK, Runners
<1>3. ASSUME Exists(Me.unit)
      PROVE  /\ unit[Me.unit].type \in {"City", "Factory", "Port"} /\ unit[Me.unit].holder \in Players
  BY <1>2, <1>3, HolderIsPlayer, Numbers DEF Fits, Crew
<1>4. ASSUME unit[Me.unit].holder \in Players
      PROVE  /\ Like(Me, Held) /\ \A n : /\ Like(Me, [Held EXCEPT !.left = n])
                                         /\ Like(Me, [Held EXCEPT !.station = n])
  BY <1>2, <1>4, Edits DEF Held
<1>5. Held.by = unit[Me.unit].holder
  BY <1>2 DEF Held, JobOK
<1> QED BY <1>1, <1>2, <1>3, <1>4, <1>5

LEMMA CityAndPortStep ==
    ASSUME TypeOK, Loop, Names, CityTurn \/ PortJoins
    PROVE  Stable /\ Loop' /\ Names'
<1>1. PICK k \in {"city", "port"} : Turn(k)
  BY DEF CityTurn, PortJoins
<1>2. unit' = unit /\ todo' \in PlanType
  BY DEF CityTurn, PortJoins, Gone, Tick, Loop
<1>3. Stable /\ Me.unit \in UnitIds
  BY <1>1, <1>2, RailTurn
<1>4. CASE Done /\ UNCHANGED uninit
  BY <1>1, <1>2, <1>3, <1>4, TurnJobs
<1>5. CASE /\ Exists(Me.unit) /\ (Stay(Held) \/ Stay([Held EXCEPT !.left = 1]))
           /\ UNCHANGED uninit \/ Add(<<StationJob(Held.by, Me.unit, FALSE)>>)
  <2>1. \E j : Stay(j) /\ JobOK(j) /\ Fits(j)'
    BY <1>1, <1>2, <1>3, <1>5, RailTurn, StayLike
  <2>2. CASE UNCHANGED uninit
    BY <1>1, <1>2, <1>3, <2>1, <2>2, TurnJobs
  <2>3. CASE Add(<<StationJob(Held.by, Me.unit, FALSE)>>)
    <3>1. PICK p, u : p = Held.by /\ u = Me.unit
      OBVIOUS
    <3>2. p \in Players /\ u \in UnitIds /\ unit'[u].type \in {"City", "Factory", "Port"}
      BY <1>1, <1>2, <1>5, <3>1, RailTurn
    <3>3. JobOK(StationJob(p, u, FALSE)) /\ Fits(StationJob(p, u, FALSE))'
      BY <3>2, StationFits
    <3>4. PICK j : j = StationJob(p, u, FALSE)
      OBVIOUS
    <3>5. \E js : js \in Seq(Range(js)) /\ Add(js) /\ \A i \in Range(js) : JobOK(i) /\ Fits(i)'
      BY <2>3, <3>1, <3>3, <3>4, OneMore
    <3> QED BY <1>1, <1>2, <1>3, <2>1, <3>5, TurnJobs
  <2> QED BY <1>5, <2>2, <2>3
<1> QED BY <1>3, <1>4, <1>5 DEF CityTurn, PortJoins, Gone, Serve, NotServed

LEMMA FactoryTurnStep ==
    ASSUME TypeOK, Loop, Names, FactoryTurn
    PROVE  Stable /\ Loop' /\ Names'
<1>1. Turn("factory") /\ unit' = unit /\ todo' \in PlanType
  BY DEF FactoryTurn, Gone, Tick, Loop
<1>2. Stable /\ Me.unit \in UnitIds
  BY <1>1, RailTurn
<1>3. CASE Done /\ UNCHANGED uninit
  BY <1>1, <1>2, <1>3, TurnJobs
<1>4. CASE Exists(Me.unit) /\ Stay([Held EXCEPT !.left = 1]) /\ UNCHANGED uninit
  <2>1. \E j : Stay(j) /\ JobOK(j) /\ Fits(j)'
    BY <1>1, <1>2, <1>4, RailTurn, StayLike
  <2> QED BY <1>1, <1>2, <1>4, <2>1, TurnJobs
<1>5. ASSUME Exists(Me.unit), Stay([Held EXCEPT !.left = 1]),
             NEW row \in SetToAllKPermutations(Unserved(Me.unit)),
             Add(<<StationJob(Held.by, Me.unit, TRUE)>> \o
                 [i \in DOMAIN row |-> StationJob(unit[row[i]].holder, row[i], FALSE)])
      PROVE  Loop' /\ Names'
  <2>1. \E j : Stay(j) /\ JobOK(j) /\ Fits(j)'
    BY <1>1, <1>2, <1>5, RailTurn, StayLike
  <2>2. PICK S \in SUBSET Unserved(Me.unit) : row \in SetToSeqs(S)
    BY <1>5 DEF SetToAllKPermutations
  <2>3. S \subseteq UnitIds /\ \A u \in S : unit[u].type \in {"City", "Factory", "Port"}
    BY DEF Unserved, Near, OfType
  <2>4. IsFiniteSet(S) /\ Cardinality(S) \in Nat
    BY <2>3, FS_Subset, FS_CardinalityType, ArsenalAssumption
  <2>5. row \in [1 .. Cardinality(S) -> S]
    BY <2>2 DEF SetToSeqs
  <2>6. PICK p, u, rs, h : /\ p = Held.by /\ u = Me.unit /\ h = [v \in S |-> unit[v].holder]
                           /\ rs = [i \in DOMAIN row |-> StationJob(unit[row[i]].holder, row[i], FALSE)]
    OBVIOUS
  <2>7. p \in Players /\ u \in UnitIds /\ unit'[u].type \in {"City", "Factory", "Port"}
    BY <1>1, <1>5, <2>6, RailTurn
  <2>8. PICK j : j = StationJob(p, u, TRUE)
    OBVIOUS
  <2>9. JobOK(j) /\ Fits(j)'
    BY <2>7, <2>8, StationFits
  <2>10. ASSUME NEW v \in S
         PROVE  h[v] \in Players /\ JobOK(StationJob(h[v], v, FALSE)) /\ Fits(StationJob(h[v], v, FALSE))'
    <3>1. h[v] \in Players /\ v \in UnitIds
      BY <2>3, <2>6, HolderIsPlayer DEF Exists
    <3> QED BY <1>1, <2>3, <3>1, StationFits
  <2>11. /\ rs \in Seq(Range(rs))
         /\ \A i \in Range(rs) : \E v \in S : i = StationJob(h[v], v, FALSE)
    <3>1. rs = [i \in 1 .. Cardinality(S) |-> StationJob(h[row[i]], row[i], FALSE)]
      BY <2>5, <2>6
    <3>2. rs \in [1 .. Cardinality(S) -> Range(rs)]
      BY <3>1 DEF Range
    <3>3. \A i \in 1 .. Cardinality(S) : row[i] \in S
      BY <2>5
    <3>4. rs \in Seq(Range(rs))
      BY <2>4, <3>2
    <3>5. \A i \in Range(rs) : \E v \in S : i = StationJob(h[v], v, FALSE)
      BY <3>1, <3>3 DEF Range
    <3> QED BY <3>4, <3>5
  <2>12. \A i \in Range(rs) : JobOK(i) /\ Fits(i)'
    BY <2>10, <2>11
  <2>13. PICK js : js = <<j>> \o rs
    OBVIOUS
  <2>14. js \in Seq(Range(js)) /\ Range(js) = {j} \cup Range(rs)
    <3>1. PICK one : one = <<j>> /\ one \in Seq(Range(one)) /\ Range(one) = {j}
      BY OneJob
    <3> QED BY <2>11, <2>13, <3>1, ConcatList DEF Joined
  <2>15. Add(js)
    BY <1>5, <2>6, <2>8, <2>13
  <2>16. \A i \in Range(js) : JobOK(i) /\ Fits(i)'
    BY <2>9, <2>12, <2>14
  <2> QED BY <1>1, <1>2, <2>1, <2>14, <2>15, <2>16, TurnJobs
<1>6. \/ Done /\ UNCHANGED uninit
      \/ /\ Exists(Me.unit) /\ Stay([Held EXCEPT !.left = 1])
         /\ \/ UNCHANGED uninit
            \/ \E row \in SetToAllKPermutations(Unserved(Me.unit)) :
                  Add(<<StationJob(Held.by, Me.unit, TRUE)>> \o
                      [i \in DOMAIN row |-> StationJob(unit[row[i]].holder, row[i], FALSE)])
  BY DEF FactoryTurn, Gone, Serve, NotServed
<1> QED BY <1>2, <1>3, <1>4, <1>5, <1>6

LEMMA StationTurnStep ==
    ASSUME TypeOK, Loop, Names, StationTurn
    PROVE  Stable /\ Loop' /\ Names'
<1>1. Turn("station") /\ unit' = unit
  BY DEF StationTurn, Gone
<1>2. Stable /\ Me.unit \in UnitIds
  BY <1>1, RailTurn
<1>3. CASE Done /\ UNCHANGED <<uninit, todo>>
  BY <1>1, <1>2, <1>3, TurnJobs DEF Loop
<1>4. ASSUME NEW s, Exists(Me.unit), Stay([Held EXCEPT !.station = s])
      PROVE  \E j : Stay(j) /\ JobOK(j) /\ Fits(j)'
  BY <1>1, <1>2, <1>4, RailTurn, StayLike
<1>5. ASSUME NEW s, NEW d, Exists(Me.unit), Add(<<TrainJob(Held.by, s, d)>>)
      PROVE  \E js : js \in Seq(Range(js)) /\ Add(js) /\ \A i \in Range(js) : JobOK(i) /\ Fits(i)'
  <2>1. PICK j : j = TrainJob(Held.by, s, d)
    OBVIOUS
  <2>2. Held.by \in Players
    BY <1>1, <1>5, RailTurn
  <2>3. JobOK(j) /\ j.unit = NoUnitId /\ j.kind # "hunt"
    BY <2>1, <2>2 DEF TrainJob, JobOK, Kinds, Runners
  <2> QED BY <1>5, <2>1, <2>3, FreshFits, OneMore
<1>6. \/ Done /\ UNCHANGED <<uninit, todo>>
      \/ /\ Exists(Me.unit) /\ \E s : Stay([Held EXCEPT !.station = s])
         /\ \/ UNCHANGED <<uninit, todo>>
            \/ /\ \E s, d : Add(<<TrainJob(Held.by, s, d)>>)
               /\ todo.trains > 0 /\ todo' = [todo EXCEPT !.trains = @ - 1]
  BY DEF StationTurn, Gone
<1>7. todo' \in PlanType
  BY <1>6, PlanFields DEF Loop
<1> QED BY <1>1, <1>2, <1>3, <1>4, <1>5, <1>6, <1>7, TurnJobs

LEMMA InitTrainStep ==
    ASSUME TypeOK, Loop, Names, InitTrain
    PROVE  Stable /\ Loop' /\ Names'
<1>1. DueInit("train") /\ UNCHANGED <<cursor, todo>>
  BY DEF InitTrain, Initing
<1>2. Stable
  BY InitTrainUnits, BuiltStable, SameStable
<1>3. CASE Drop1
  BY <1>1, <1>2, <1>3, InitJobs
<1>4. ASSUME NEW w, NEW n, FreeIds # {}, unit' = [unit EXCEPT ![Fresh] = New("Train", New1.by, 0)],
             Append1([New1 EXCEPT !.unit = Fresh, !.path = w, !.left = n])
      PROVE  Loop' /\ Names'
  <2>1. JobOK(New1) /\ New1.kind = "train" /\ Sound(unit)
    BY <1>1, MyInit, UnitsSound
  <2>2. PICK x : x = Fresh /\ x \in UnitIds
    BY <1>4, FreshIsFree
  <2>3. unit'[x].type = "Train" /\ unit'[x].holder = New1.by
    BY <1>4, <2>1, <2>2, NewFields DEF Sound
  <2>4. PICK j : j = [New1 EXCEPT !.unit = x, !.path = w, !.left = n]
    OBVIOUS
  <2>5. j.kind = "train" /\ j.unit = x /\ j.by = New1.by /\ DOMAIN j = DOMAIN New1
    BY <2>1, <2>4 DEF JobOK
  <2>6. JobOK(j)
    BY <2>1, <2>2, <2>5 DEF JobOK, Kinds, Runners
  <2>7. Fits(j)'
    BY <2>3, <2>5 DEF Fits, Crew
  <2> QED BY <1>1, <1>2, <1>4, <2>2, <2>4, <2>6, <2>7, InitJobs
<1>5. \/ Drop1
      \/ \E w, n : /\ FreeIds # {} /\ unit' = [unit EXCEPT ![Fresh] = New("Train", New1.by, 0)]
                   /\ Append1([New1 EXCEPT !.unit = Fresh, !.path = w, !.left = n])
  BY DEF InitTrain
<1> QED BY <1>2, <1>3, <1>4, <1>5

LEMMA TrainTurnStep ==
    ASSUME TypeOK, Loop, Names, TrainTurn
    PROVE  Stable /\ Loop' /\ Names'
<1>1. Turn("train") /\ UNCHANGED uninit /\ todo' \in PlanType
  BY DEF TrainTurn, Tick, Loop
<1>2. Stable
  BY RemovalStable
<1>3. \/ Done
      \/ Stay([Me EXCEPT !.left = Me.left - 1])
      \/ \E n : Stay([Me EXCEPT !.path = Tail(Me.path), !.left = n])
  BY DEF TrainTurn, DeleteTrain
<1>4. /\ Like(Me, [Me EXCEPT !.left = Me.left - 1])
      /\ \A n : Like(Me, [Me EXCEPT !.path = Tail(Me.path), !.left = n])
  BY <1>1, MyTurn, Edits
<1>5. Done \/ \E j : Stay(j) /\ JobOK(j) /\ Fits(j)'
  BY <1>1, <1>2, <1>3, <1>4, StayLike
<1> QED BY <1>1, <1>2, <1>5, TurnJobs

LEMMA RecomputeTurnStep ==
    ASSUME TypeOK, Loop, Names, RecomputeTurn
    PROVE  Stable /\ Loop' /\ Names'
<1>1. Turn("recompute") /\ UNCHANGED uninit /\ todo' \in PlanType /\ Stay(Me) /\ Stable
  BY SameStable DEF RecomputeTurn, Tick, Loop
<1>2. \E j : Stay(j) /\ JobOK(j) /\ Fits(j)'
  BY <1>1, MeLikeMe, StayLike
<1> QED BY <1>1, <1>2, TurnJobs

-----------------------------------------------------------------------------
(* Types, and what the executions name. *)

Acts == \/ Engine \/ CityTurn \/ PortJoins \/ FactoryTurn \/ StationTurn \/ InitStation
        \/ InitTrain \/ TrainTurn \/ RecomputeTurn \/ Outside
LEMMA NextActs == [RailNext]_railVars => Acts \/ UNCHANGED vars
  BY DEF RailNext, RailEngine, Acts, railVars

LEMMA UnitsStep ==
    ASSUME TypeOK, Loop, Acts
    PROVE  Sound(unit')
<1>1. Sound(unit)
  BY UnitsSound
<1>2. CASE \/ StartTick \/ StartInits \/ Delegate \/ GiveUp \/ PostTurn \/ Fizzle \/ InitPlain
           \/ InitMirv \/ CityTurn \/ PortJoins \/ FactoryTurn \/ StationTurn \/ InitStation
           \/ RecomputeTurn
  <2>1. unit' = unit
    BY <1>2 DEF StartTick, StartInits, Delegate, GiveUp, PostTurn, Fizzle, InitPlain,
           InitMirv, CityTurn, PortJoins, FactoryTurn, StationTurn, InitStation, RecomputeTurn,
           Gone
  <2> QED BY <1>1, <2>1
<1>3. CASE EndTick \/ PlayerTurn \/ Lay \/ Build \/ SiloTurn \/ SamTurn \/ HuntTurn \/ Launch
           \/ InitUpgrade \/ InitDelete
  BY <1>3, EndTickUnits, PlayerTurnUnits, LayUnits, BuildUnits, SiloTurnUnits, SamTurnUnits,
     HuntTurnUnits, LaunchUnits, InitUpgradeUnits, InitDeleteUnits
<1>4. CASE MirvLaunch \/ InitTrain
  BY <1>1, <1>4, MirvLaunchUnits, InitTrainUnits
<1>5. CASE NukeTurn \/ MirvTurn \/ DeleteTurn \/ TrainTurn \/ \E x \in todo.pairs : Ally(x)
  BY <1>1, <1>5, RemovalUnits, WithoutSound
<1>6. CASE \/ \E x \in todo.orders : Order(x)
           \/ \E x \in todo.landings : Conquer(x)
           \/ \E x \in allies : Part(x)
  BY <1>1, <1>6 DEF Order, Conquer, Part
<1> QED BY <1>2, <1>3, <1>4, <1>5, <1>6 DEF Acts, Engine, Outside

LEMMA OwnersKept ==
    ASSUME Acts
    PROVE  NukeTurn \/ owner' = owner \/ \E x \in todo.landings : Conquer(x)
<1>1. CASE StartTick \/ StartInits \/ EndTick \/ PlayerTurn \/ Delegate \/ Lay \/ GiveUp \/ Build
           \/ PostTurn \/ SiloTurn \/ SamTurn \/ HuntTurn \/ Launch \/ Fizzle \/ MirvLaunch
           \/ MirvTurn
  BY <1>1 DEF StartTick, StartInits, EndTick, PlayerTurn, Delegate, Lay, GiveUp, Build, PostTurn,
     SiloTurn, SamTurn, HuntTurn, Launch, Fizzle, MirvLaunch, MirvTurn
<1>2. CASE DeleteTurn \/ InitPlain \/ InitMirv \/ InitUpgrade \/ InitDelete \/ CityTurn
           \/ PortJoins \/ FactoryTurn \/ StationTurn \/ InitStation \/ InitTrain \/ TrainTurn
           \/ RecomputeTurn
  BY <1>2 DEF DeleteTurn, InitPlain, InitMirv, InitUpgrade, InitDelete, CityTurn, PortJoins,
     FactoryTurn, StationTurn, InitStation, InitTrain, TrainTurn, RecomputeTurn, Initing
<1>3. CASE \/ \E x \in todo.orders : Order(x)
           \/ \E x \in todo.pairs : Ally(x)
           \/ \E x \in allies : Part(x)
  <2>1. ASSUME NEW x, Order(x) \/ Ally(x) \/ Part(x) PROVE owner' = owner
    BY <2>1 DEF Order, Ally, Part
  <2> QED BY <1>3, <2>1
<1> QED BY <1>1, <1>2, <1>3 DEF Acts, Engine, Outside
LEMMA AlliesKept ==
    ASSUME Acts
    PROVE  allies' \subseteq allies \/ \E x \in todo.pairs : Ally(x)
<1>1. CASE StartTick \/ StartInits \/ EndTick \/ Delegate \/ Lay \/ GiveUp \/ Build \/ PostTurn
           \/ SiloTurn \/ SamTurn \/ HuntTurn \/ Fizzle \/ NukeTurn \/ MirvLaunch \/ MirvTurn
  <2>1. allies' = allies
    BY <1>1 DEF StartTick, StartInits, EndTick, Delegate, Lay, GiveUp, Build, PostTurn, SiloTurn,
       SamTurn, HuntTurn, Fizzle, NukeTurn, MirvLaunch, MirvTurn
  <2> QED BY <2>1
<1>2. CASE DeleteTurn \/ InitPlain \/ InitUpgrade \/ InitDelete \/ CityTurn \/ PortJoins
           \/ FactoryTurn \/ StationTurn \/ InitStation \/ InitTrain \/ TrainTurn \/ RecomputeTurn
  <2>1. allies' = allies
    BY <1>2 DEF DeleteTurn, InitPlain, InitUpgrade, InitDelete, CityTurn, PortJoins, FactoryTurn,
       StationTurn, InitStation, InitTrain, TrainTurn, RecomputeTurn
  <2> QED BY <2>1
<1>3. CASE PlayerTurn
  BY <1>3 DEF PlayerTurn
<1>4. CASE Launch
  BY <1>4 DEF Launch
<1>5. CASE InitMirv
  BY <1>5 DEF InitMirv
<1>6. CASE Outside
  BY <1>6 DEF Outside, Order, Conquer, Part
<1> QED BY <1>1, <1>2, <1>3, <1>4, <1>5, <1>6 DEF Acts, Engine
LEMMA OwnersStep ==
    ASSUME TypeOK, Loop, Acts
    PROVE  /\ owner' \in [Tiles -> Players \cup {Neutral}] /\ allies' \subseteq SUBSET Players
           /\ lastDelete' \in [Players -> 0 .. DeleteCooldown]
<1>1. /\ owner \in [Tiles -> Players \cup {Neutral}] /\ allies \subseteq SUBSET Players
      /\ lastDelete \in [Players -> 0 .. DeleteCooldown]
  BY DEF TypeOK
<1>2. owner' \in [Tiles -> Players \cup {Neutral}]
  <2>1. CASE NukeTurn
    BY <1>1, <2>1 DEF NukeTurn, Detonate
  <2>2. CASE \E x \in todo.landings : Conquer(x)
    BY <1>1, <2>2, PlanFields DEF Conquer
  <2>3. CASE owner' = owner
    BY <1>1, <2>3
  <2> QED BY <2>1, <2>2, <2>3, OwnersKept
<1>3. allies' \subseteq SUBSET Players
  <2>1. CASE \E x \in todo.pairs : Ally(x)
    BY <1>1, <2>1, PlanFields DEF Ally
  <2> QED BY <1>1, <2>1, AlliesKept
<1>4. lastDelete' \in [Players -> 0 .. DeleteCooldown]
  <2>1. CASE EndTick
    <3>1. \A d \in 0 .. DeleteCooldown : Older(d, DeleteCooldown) \in 0 .. DeleteCooldown
      BY Numbers DEF Older
    <3>2. lastDelete' = [p \in Players |-> Older(lastDelete[p], DeleteCooldown)]
      BY <2>1 DEF EndTick
    <3> QED BY <1>1, <3>1, <3>2
  <2>2. CASE InitDelete
    BY <1>1, <2>2, Numbers DEF InitDelete
  <2>3. EndTick \/ InitDelete \/ lastDelete' = lastDelete
    <3>1. CASE StartTick \/ StartInits \/ PlayerTurn \/ Delegate \/ Lay \/ GiveUp \/ Build \/ PostTurn
               \/ SiloTurn \/ SamTurn \/ HuntTurn \/ Launch \/ Fizzle \/ NukeTurn \/ MirvLaunch
               \/ MirvTurn
      BY <3>1 DEF StartTick, StartInits, PlayerTurn, Delegate, Lay, GiveUp, Build, PostTurn, SiloTurn,
         SamTurn, HuntTurn, Launch, Fizzle, NukeTurn, MirvLaunch, MirvTurn, Tick
    <3>2. CASE DeleteTurn \/ InitPlain \/ InitMirv \/ InitUpgrade \/ CityTurn \/ PortJoins
               \/ FactoryTurn \/ StationTurn \/ InitStation \/ InitTrain \/ TrainTurn \/ RecomputeTurn
      BY <3>2 DEF DeleteTurn, InitPlain, InitMirv, InitUpgrade, CityTurn, PortJoins, FactoryTurn,
         StationTurn, InitStation, InitTrain, TrainTurn, RecomputeTurn, Tick
    <3>3. CASE Outside
      <4>1. ASSUME NEW x, Order(x) \/ Conquer(x) \/ Ally(x) \/ Part(x) PROVE lastDelete' = lastDelete
        BY <4>1 DEF Order, Conquer, Ally, Part
      <4> QED BY <3>3, <4>1 DEF Outside
    <3> QED BY <3>1, <3>2, <3>3 DEF Acts, Engine
  <2> QED BY <1>1, <2>1, <2>2, <2>3
<1> QED BY <1>2, <1>3, <1>4

LEMMA SoundTypes ==
    ASSUME NEW un, Sound(un)
    PROVE  /\ un \in [UnitIds -> UnitType]
           /\ \A u \in UnitIds : /\ un[u].holder = Neutral <=> un[u].type = "none"
                                 /\ un[u].type \in Structures => un[u].tile \in Tiles
<1>1. \A u \in UnitIds : un[u] \in UnitType
  BY DEF Sound, Apt
<1> QED BY <1>1 DEF Sound, Apt
LEMMA TypeStep ==
    ASSUME TypeOK, Loop, Acts
    PROVE  TypeOK'
<1>1. PICK un : un = unit' /\ Sound(un)
  BY UnitsStep
<1> QED BY <1>1, OwnersStep, SoundTypes DEF TypeOK, Exists

LEMMA JobsStep ==
    ASSUME TypeOK, Loop, Names, Acts
    PROVE  Stable /\ Loop' /\ Names'
<1>1. CASE StartTick \/ StartInits \/ EndTick
  <2>1. todo' \in PlanType
    BY <1>1 DEF StartTick, StartInits, EndTick, Loop
  <2>2. UNCHANGED <<execs, uninit, cursor>> \/ OpenTick
    BY <1>1 DEF StartTick, StartInits, EndTick, AllHadTurns, CloseTick
  <2>3. Stable
    <3>1. CASE EndTick
      BY <3>1, EndTickUnits, OnwardStable
    <3>2. CASE StartTick \/ StartInits
      BY <3>2, SameStable DEF StartTick, StartInits
    <3> QED BY <1>1, <3>1, <3>2
  <2> QED BY <2>1, <2>2, <2>3, IdleStep
<1> QED BY <1>1, PlayerTurnStep, DelegateStep, LayStep, GiveUpStep, BuildStep, PostTurnStep,
           SiloTurnStep, SamTurnStep, HuntTurnStep, LaunchStep, NukeTurnStep, MirvLaunchStep,
           MirvTurnStep, DeleteTurnStep, InitPlainStep, InitMirvStep, InitUpgradeStep,
           InitDeleteStep, CityAndPortStep, FactoryTurnStep, StationTurnStep, InitTrainStep,
           TrainTurnStep, RecomputeTurnStep, OutsideStep DEF Acts, Engine

\* The lists at the start.
LEMMA FirstJobs ==
    ASSUME RailInit
    PROVE  /\ execs \in Seq(Range(execs)) /\ uninit = <<>> /\ cursor = 1 /\ phase = "orders"
           /\ todo \in PlanType /\ Len(todo.bases) \in UnitIds
           /\ \A j \in Range(execs) :
                 \/ \E p \in Players : j = Job("player", p)
                 \/ j = RecomputeJob
                 \/ \E i \in 1 .. Len(todo.bases) : j = RunnerOf(todo.bases[i][1], todo.bases[i][2], i)
           /\ \E n \in Nat : /\ Players = 1 .. n /\ n < Len(execs)
                             /\ \A p \in 1 .. n : execs[p].kind = "player" /\ execs[p].by = p
                             /\ \A i \in 1 .. Len(execs) : i > n => execs[i].kind # "player"
                             /\ Len(execs) = n + 1 + Len(todo.bases) /\ execs[n + 1] = RecomputeJob
                             /\ \A i \in 1 .. Len(todo.bases) :
                                   execs[n + 1 + i] = RunnerOf(todo.bases[i][1], todo.bases[i][2], i)
<1>1. todo \in PlanType /\ Len(todo.bases) \in UnitIds
  BY ArsenalAssumption DEF RailInit, Init
<1>2. PICK n \in Nat : Players = 1 .. n
  BY Numbers
<1> DEFINE a == [p \in Players |-> Job("player", p)]
           b == <<RecomputeJob>>
           m == Len(todo.bases)
           c == [i \in 1 .. m |-> RunnerOf(todo.bases[i][1], todo.bases[i][2], i)]
<1>3. execs = a \o b \o c /\ uninit = <<>> /\ cursor = 1 /\ phase = "orders"
  BY DEF RailInit, Init, LoopInit
<1>4. a \in Seq(Range(a)) /\ Len(a) = n
  <2>1. a \in [1 .. n -> Range(a)]
    BY <1>2 DEF Range
  <2> QED BY <1>2, <2>1
<1>5. \A p \in Players : /\ \E q \in Players : a[p] = Job("player", q)
                          /\ a[p].kind = "player" /\ a[p].by = p
  BY DEF Job
<1>6. b \in Seq(Range(b)) /\ Len(b) = 1 /\ b[1] = RecomputeJob /\ Range(b) = {RecomputeJob}
  BY OneJob
<1>7. m \in Nat /\ c \in Seq(Range(c)) /\ Len(c) = m
      /\ \A i \in 1 .. m : c[i] = RunnerOf(todo.bases[i][1], todo.bases[i][2], i)
  <2>1. m \in Nat
    BY <1>1, LenProperties DEF PlanType
  <2>2. c \in [1 .. m -> Range(c)]
    BY DEF Range
  <2> HIDE DEF m
  <2> QED BY <2>1, <2>2
<1> HIDE DEF a, b, c, m
<1>8. PICK ab : ab = a \o b
  OBVIOUS
<1>9. /\ ab \in Seq(Range(ab)) /\ Len(ab) = n + 1 /\ \A p \in 1 .. n : ab[p] = a[p]
      /\ ab[n + 1] = RecomputeJob
  <2>1. Joined(a, b, ab)
    BY <1>4, <1>6, <1>8, ConcatList
  <2>2. 1 \in 1 .. Len(b)
    BY <1>6
  <2> QED BY <1>2, <1>4, <1>6, <2>1, <2>2 DEF Joined
<1>10. /\ execs \in Seq(Range(execs)) /\ Len(execs) = n + 1 + m
       /\ \A i \in 1 .. n + 1 : execs[i] = ab[i]
       /\ \A i \in 1 .. m : execs[n + 1 + i] = c[i]
  <2>1. Joined(ab, c, execs)
    BY <1>3, <1>7, <1>8, <1>9, ConcatList
  <2> QED BY <1>2, <1>7, <1>9, <2>1 DEF Joined
<1>11. \A i \in 1 .. Len(execs) :
         \/ i \in 1 .. n /\ execs[i] = a[i]
         \/ i > n /\ execs[i] = RecomputeJob
         \/ i > n /\ \E k \in 1 .. m : execs[i] = RunnerOf(todo.bases[k][1], todo.bases[k][2], k)
  <2>1. ASSUME NEW i \in 1 .. Len(execs), i > n + 1 PROVE i - (n + 1) \in 1 .. m
    BY <1>7, <1>10, <2>1
  <2>2. ASSUME NEW i \in 1 .. Len(execs), i > n + 1
        PROVE  \E k \in 1 .. m : execs[i] = RunnerOf(todo.bases[k][1], todo.bases[k][2], k)
    <3>1. PICK k \in 1 .. m : k = i - (n + 1)
      BY <2>1, <2>2
    <3>2. i = n + 1 + k
      BY <1>7, <2>2, <3>1
    <3> QED BY <1>7, <1>10, <3>2
  <2>3. n + 1 \in 1 .. n + 1 /\ execs[n + 1] = RecomputeJob
    BY <1>2, <1>9, <1>10
  <2>4. ASSUME NEW i \in 1 .. Len(execs), i <= n PROVE i \in 1 .. n /\ execs[i] = a[i]
    BY <1>2, <1>7, <1>9, <1>10, <2>4
  <2> QED BY <1>10, <2>2, <2>3, <2>4
<1>12. \A j \in Range(execs) :
          \/ \E p \in Players : j = Job("player", p)
          \/ j = RecomputeJob
          \/ \E i \in 1 .. m : j = RunnerOf(todo.bases[i][1], todo.bases[i][2], i)
  <2>1. ASSUME NEW j \in Range(execs) PROVE \E i \in 1 .. Len(execs) : execs[i] = j
    BY <1>10, <2>1, Listed
  <2>2. \A i \in 1 .. n : \E p \in Players : a[i] = Job("player", p)
    BY <1>2, <1>5
  <2> QED BY <1>11, <2>1, <2>2
<1>13. ASSUME NEW i \in 1 .. Len(execs), i > n PROVE execs[i].kind # "player"
  <2>1. RecomputeJob.kind = "recompute"
    BY DEF RecomputeJob, Job
  <2>2. ASSUME NEW t, NEW p, NEW u PROVE RunnerOf(t, p, u).kind # "player"
    BY DEF RunnerOf, Runner, Job
  <2> QED BY <1>11, <1>13, <2>1, <2>2
<1>14. n < Len(execs)
  BY <1>7, <1>10
<1>15. \A p \in 1 .. n : execs[p].kind = "player" /\ execs[p].by = p
  <2>1. ASSUME NEW p \in 1 .. n PROVE execs[p] = a[p]
    BY <1>2, <1>9, <1>10
  <2> QED BY <1>2, <1>5, <2>1
<1>16. /\ Len(execs) = n + 1 + m /\ execs[n + 1] = RecomputeJob
       /\ \A i \in 1 .. m : execs[n + 1 + i] = RunnerOf(todo.bases[i][1], todo.bases[i][2], i)
  BY <1>2, <1>7, <1>9, <1>10
<1> QED BY <1>1, <1>2, <1>3, <1>10, <1>12, <1>13, <1>14, <1>15, <1>16 DEF m

LEMMA BasesAre ==
    ASSUME todo \in PlanType, NEW i \in 1 .. Len(todo.bases)
    PROVE  todo.bases[i][1] \in Structures /\ todo.bases[i][2] \in Players /\ todo.bases[i][3] \in Tiles
<1>1. todo.bases \in Seq(Structures \X Players \X Tiles)
  BY DEF PlanType
<1>2. todo.bases[i] \in Structures \X Players \X Tiles
  BY <1>1, ElementOfSeq
<1> QED BY <1>2
LEMMA FirstUnits ==
    ASSUME RailInit
    PROVE  /\ Sound(unit) /\ \A u \in UnitIds : unit[u].doom = Unmarked
           /\ \A i \in 1 .. Len(todo.bases) : i \in UnitIds /\ unit[i].type = todo.bases[i][1]
           /\ \A u \in OfType(Structures) : u \in 1 .. Len(todo.bases) /\ ~unit[u].building
           /\ \A u \in UnitIds : unit[u].type \in Structures \cup {"none"}
<1>1. todo \in PlanType /\ Len(todo.bases) \in UnitIds
  BY FirstJobs
<1>2. PICK n \in Nat : UnitIds = 1 .. n
  BY Numbers
<1>3. ASSUME NEW u \in UnitIds, u <= Len(todo.bases)
      PROVE  /\ Apt(unit[u]) /\ unit[u].doom = Unmarked /\ unit[u].type = todo.bases[u][1]
             /\ u \in 1 .. Len(todo.bases) /\ ~unit[u].building
             /\ unit[u].type \in Structures
  <2>1. u \in 1 .. Len(todo.bases)
    BY <1>1, <1>2, <1>3
  <2>2. unit[u] = New(todo.bases[u][1], todo.bases[u][2], todo.bases[u][3])
    BY <1>3 DEF RailInit, Init
  <2> DEFINE k == todo.bases[u][1]
             p == todo.bases[u][2]
             t == todo.bases[u][3]
  <2>3. /\ k \in UnitTypes /\ k # "none" /\ k \in Structures
        /\ p \in Players /\ t \in Tiles \cup {0} /\ t \in Tiles
    BY <1>1, <2>1, BasesAre DEF UnitTypes, Structures
  <2> HIDE DEF k, p, t
  <2>4. /\ Apt(New(k, p, t)) /\ New(k, p, t).doom = Unmarked /\ New(k, p, t).type = k
        /\ ~New(k, p, t).building
    <3>1. /\ Apt(New(k, p, t)) /\ New(k, p, t).doom = Unmarked
          /\ New(k, p, t).building = FALSE
      BY <2>3, NewSound
    <3>2. New(k, p, t).type = k
      BY NewFields
    <3> QED BY <3>1, <3>2
  <2> QED BY <2>1, <2>2, <2>3, <2>4 DEF k, p, t
<1>4. ASSUME NEW u \in UnitIds, ~(u <= Len(todo.bases))
      PROVE  Apt(unit[u]) /\ unit[u].doom = Unmarked /\ unit[u].type = "none" /\ unit[u].type \notin Structures
  <2>1. unit[u] = NoUnit /\ NoUnit.type = "none" /\ NoUnit.type \notin Structures
    BY <1>4 DEF RailInit, Init, NoUnit, Structures
  <2>2. NoUnit.doom = Unmarked
    BY DEF NoUnit
  <2> QED BY <2>1, <2>2, NoUnitSound
<1>5. unit = [u \in UnitIds |-> unit[u]]
  BY DEF RailInit, Init
<1>6. ASSUME NEW i \in 1 .. Len(todo.bases) PROVE i \in UnitIds /\ unit[i].type = todo.bases[i][1]
  <2>1. i \in UnitIds /\ i <= Len(todo.bases)
    BY <1>1, <1>2
  <2> QED BY <1>3, <2>1
<1>7. ASSUME NEW u \in OfType(Structures) PROVE u \in 1 .. Len(todo.bases) /\ ~unit[u].building
  <2>1. u \in UnitIds /\ unit[u].type \in Structures
    BY DEF OfType
  <2>2. u <= Len(todo.bases)
    BY <1>4, <2>1
  <2> QED BY <1>3, <2>1, <2>2
<1>8. \A u \in UnitIds : unit[u].type \in Structures \cup {"none"}
  BY <1>3, <1>4
<1> QED BY <1>3, <1>4, <1>5, <1>6, <1>7, <1>8 DEF Sound
LEMMA FirstTypes == RailInit => TypeOK
<1> SUFFICES ASSUME RailInit PROVE TypeOK
  OBVIOUS
<1>1. PICK un : un = unit /\ Sound(un)
  BY FirstUnits
<1>2. owner \in [Tiles -> Players \cup {Neutral}] /\ allies = {}
  BY ArsenalAssumption DEF RailInit, Init
<1>3. lastDelete \in [Players -> 0 .. DeleteCooldown]
  BY Numbers DEF RailInit, Init
<1> QED BY <1>1, <1>2, <1>3, SoundTypes DEF TypeOK, Exists
LEMMA FirstNames == RailInit => Loop /\ Names
<1> SUFFICES ASSUME RailInit PROVE Loop /\ Names
  OBVIOUS
<1>1. /\ execs \in Seq(Range(execs)) /\ uninit = <<>> /\ cursor = 1 /\ todo \in PlanType
  BY FirstJobs
<1>2. uninit \in Seq(Range(uninit)) /\ Range(uninit) = {}
  BY <1>1, EmptySeq DEF Range
<1>3. ASSUME NEW j \in Range(execs) PROVE JobOK(j) /\ Fits(j)
  <2>1. CASE \E p \in Players : j = Job("player", p)
    BY <2>1 DEF JobOK, Job, Fits, Runners
  <2>2. CASE j = RecomputeJob
    BY <2>2 DEF RecomputeJob, JobOK, Job, Fits, Runners, Kinds
  <2>3. ASSUME NEW i \in 1 .. Len(todo.bases), j = RunnerOf(todo.bases[i][1], todo.bases[i][2], i)
        PROVE  JobOK(j) /\ Fits(j)
    <3>1. PICK k, p : k = todo.bases[i][1] /\ p = todo.bases[i][2]
      OBVIOUS
    <3>2. k \in Structures /\ p \in Players /\ i \in UnitIds /\ unit[i].type = k
      BY <1>1, <3>1, BasesAre, FirstUnits
    <3>3. JobOK(j) /\ j.kind \in Runners /\ <<j.kind, k>> \in Crew /\ j.unit = i
      BY <2>3, <3>1, <3>2, RunnerFacts
    <3>4. j.kind \notin {"build", "nuke", "hunt", "train"}
      BY <3>3 DEF Runners
    <3> QED BY <3>2, <3>3, <3>4 DEF Fits
  <2> QED BY <2>1, <2>2, <2>3, FirstJobs
<1> QED BY <1>1, <1>2, <1>3 DEF Loop, Names, Jobs

Base == TypeOK /\ Loop /\ Names
LEMMA BaseStep == Base /\ [RailNext]_railVars => Base'
<1>1. ASSUME Base, Acts PROVE Base'
  BY <1>1, TypeStep, JobsStep DEF Base
<1>2. ASSUME Base, UNCHANGED vars PROVE Base'
  BY <1>2 DEF Base, vars, loopVars, TypeOK, Exists, Loop, Names, Jobs, Fits
<1> QED BY <1>1, <1>2, NextActs
LEMMA BaseHolds == Spec => []Base
<1>1. RailInit => Base
  BY FirstTypes, FirstNames DEF Base
<1> QED BY <1>1, BaseStep, PTL DEF Spec

\* The fields of every unit have their types, whatever is built, captured, launched and lost: a
\* unit has a holder exactly as long as it is there, and a structure stands on land.
THEOREM TypeCorrect == Spec => []TypeOK
<1>1. Base => TypeOK
  BY DEF Base
<1> QED BY <1>1, BaseHolds, PTL

-----------------------------------------------------------------------------
(* Deletions. *)

\* What an execution remains, whatever is written to it: one without a unit gets a new one.
Alike(j, k) ==
    /\ k.kind = j.kind /\ k.prey = j.prey
    /\ j.kind \in {"player", "hunt"} => k.by = j.by
    /\ \/ k.unit = j.unit \/ j.kind = "train"
       \/ j.unit = NoUnitId /\ FreeIds # {} /\ k.unit = Fresh
LEMMA AlikeEdits ==
    ASSUME NEW j, JobOK(j), NEW n
    PROVE  /\ Alike(j, j) /\ Alike(j, [j EXCEPT !.left = n]) /\ Alike(j, [j EXCEPT !.wait = n])
           /\ Alike(j, [j EXCEPT !.victim = n])
           /\ \A m : Alike(j, [j EXCEPT !.path = m, !.left = n])
           /\ j.kind \notin {"player", "hunt"} =>
                 /\ Alike(j, [j EXCEPT !.by = n])
                 /\ \A m : /\ Alike(j, [j EXCEPT !.by = m, !.left = n])
                           /\ Alike(j, [[j EXCEPT !.by = m] EXCEPT !.left = n])
                           /\ Alike(j, [[j EXCEPT !.by = m] EXCEPT !.station = n])
           /\ j.kind = "train" => \A i, m : Alike(j, [j EXCEPT !.unit = i, !.path = m, !.left = n])
           /\ j.unit = NoUnitId /\ FreeIds # {} =>
                 /\ Alike(j, [j EXCEPT !.unit = Fresh])
                 /\ Alike(j, [j EXCEPT !.unit = Fresh, !.left = n])
  BY DEF JobOK, Alike

\* What may become of the list of executions.
Kept == {"player", "delete", "train"}
Stays == Done \/ \E j : Stay(j) /\ Alike(Me, j)
Idle == \/ StartTick \/ StartInits \/ EndTick \/ Outside
        \/ \E k \in {"upgrade", "delete", "train"} : DueInit(k) /\ Drop1
LEMMA TurnOrNot ==
    ASSUME Loop, Acts
    PROVE  \/ \E k : Turn(k) /\ Stays /\ (k \in Kept => PlayerTurn \/ DeleteTurn \/ TrainTurn)
           \/ execs' = execs /\ Idle
           \/ \E k : DueInit(k) /\ \E j : Append1(j) /\ Alike(New1, j) /\ (k = "hunt" => j = New1)
<1>1. CASE Delegate \/ Lay \/ GiveUp \/ Build \/ PostTurn \/ SiloTurn \/ SamTurn
  <2>1. PICK k \in {"build", "post", "silo", "sam"} : Turn(k)
    <3>1. Turn("build") \/ Turn("post") \/ Turn("silo") \/ Turn("sam")
      BY <1>1 DEF Delegate, Lay, GiveUp, Build, PostTurn, SiloTurn, SamTurn
    <3> QED BY <3>1
  <2>2. JobOK(Me)
    BY <2>1, MyTurn
  <2>3. Stays
    <3>1. CASE Delegate \/ GiveUp
      BY <3>1 DEF Delegate, GiveUp, Stays
    <3>2. CASE Lay
      <4>1. Me.unit = NoUnitId /\ FreeIds # {} /\ (Done \/ \E n : Stay([Me EXCEPT !.unit = Fresh, !.left = n]))
        BY <3>2 DEF Lay
      <4> QED BY <2>2, <4>1, AlikeEdits DEF Stays
    <3>3. CASE Build
      <4>1. Me.kind \notin {"player", "hunt"}
        BY <3>3, MyTurn DEF Build
      <4>2. Done \/ \E m, n : Stay([Me EXCEPT !.by = m, !.left = n])
        BY <3>3 DEF Build
      <4> QED BY <2>2, <4>1, <4>2, AlikeEdits DEF Stays
    <3>4. CASE PostTurn \/ SiloTurn \/ SamTurn
      <4>1. Done \/ Stay(Held)
        BY <3>4 DEF PostTurn, SiloTurn, SamTurn, Gone
      <4>2. Me.kind \notin {"player", "hunt"}
        BY <2>1, MyTurn
      <4> QED BY <2>2, <4>1, <4>2, AlikeEdits DEF Stays, Held
    <3> QED BY <1>1, <3>1, <3>2, <3>3, <3>4
  <2> QED BY <2>1, <2>3 DEF Kept
<1>2. CASE HuntTurn
  <2>1. Turn("hunt") /\ "hunt" \notin Kept
    BY <1>2 DEF HuntTurn, Kept
  <2>2. JobOK(Me)
    BY <2>1, MyTurn
  <2>3. Me.unit = NoUnitId => FreeIds # {}
    BY <1>2, HuntTurnIs
  <2>4. ASSUME NEW n, Stay([Me EXCEPT !.unit = Hunter, !.left = n]) PROVE Stays
    <3>1. CASE Me.unit = NoUnitId
      BY <2>2, <2>3, <2>4, <3>1, AlikeEdits DEF Stays, Hunter
    <3>2. CASE Me.unit # NoUnitId
      <4>1. Alike(Me, [Me EXCEPT !.unit = Hunter, !.left = n])
        BY <2>2, <3>2 DEF Alike, Hunter, JobOK
      <4> QED BY <2>4, <4>1 DEF Stays
    <3> QED BY <3>1, <3>2
  <2>5. Done \/ \E n : Stay([Me EXCEPT !.unit = Hunter, !.left = n])
    BY <1>2, HuntTurnIs
  <2> QED BY <2>1, <2>4, <2>5 DEF Stays
<1>3. CASE Launch \/ Fizzle \/ NukeTurn \/ MirvLaunch \/ MirvTurn
  <2>1. PICK k \in {"nuke", "mirv"} : Turn(k)
    <3>1. Turn("nuke") \/ Turn("mirv")
      BY <1>3 DEF Launch, Fizzle, NukeTurn, MirvLaunch, MirvTurn
    <3> QED BY <3>1
  <2>2. JobOK(Me)
    BY <2>1, MyTurn
  <2>3. Stays
    <3>1. CASE Launch
      <4>1. /\ Me.unit = NoUnitId /\ FreeIds # {}
            /\ Stay([Me EXCEPT !.unit = Fresh]) \/ \E n : Stay([Me EXCEPT !.unit = Fresh, !.left = n])
        BY <3>1 DEF Launch
      <4> QED BY <2>2, <4>1, AlikeEdits DEF Stays
    <3>2. CASE Fizzle \/ NukeTurn
      BY <2>2, <3>2, AlikeEdits DEF Fizzle, NukeTurn, Detonate, Stays
    <3>3. CASE MirvLaunch
      <4>1. \/ Done
            \/ /\ Me.unit = NoUnitId /\ FreeIds # {}
               /\ \E n : Stay([Me EXCEPT !.unit = Fresh, !.left = n - 1])
        BY <3>3 DEF MirvLaunch
      <4> QED BY <2>2, <4>1, AlikeEdits DEF Stays
    <3>4. CASE MirvTurn
      <4>1. Done \/ \E n : Stay([Me EXCEPT !.left = n])
        BY <3>4 DEF MirvTurn
      <4> QED BY <2>2, <4>1, AlikeEdits DEF Stays
    <3> QED BY <1>3, <3>1, <3>2, <3>3, <3>4
  <2> QED BY <2>1, <2>3 DEF Kept
<1>4. CASE CityTurn \/ PortJoins \/ FactoryTurn \/ StationTurn \/ RecomputeTurn
  <2>1. PICK k \in {"city", "port", "factory", "station", "recompute"} : Turn(k)
    <3>1. Turn("city") \/ Turn("port") \/ Turn("factory") \/ Turn("station") \/ Turn("recompute")
      BY <1>4 DEF CityTurn, PortJoins, FactoryTurn, StationTurn, RecomputeTurn
    <3> QED BY <3>1
  <2>2. JobOK(Me)
    BY <2>1, MyTurn
  <2>3. Done \/ Stay(Me) \/ Stay(Held) \/ \E n : Stay([Held EXCEPT !.left = n])
                                              \/ Stay([Held EXCEPT !.station = n])
    BY <1>4 DEF CityTurn, PortJoins, FactoryTurn, StationTurn, RecomputeTurn, Gone
  <2>4. Me.kind \notin {"player", "hunt"}
    BY <2>1, MyTurn
  <2>5. Stays
    BY <2>2, <2>3, <2>4, AlikeEdits DEF Stays, Held
  <2> QED BY <2>1, <2>5 DEF Kept
<1>5. CASE PlayerTurn \/ DeleteTurn \/ TrainTurn
  <2>1. PICK k : Turn(k)
    BY <1>5 DEF PlayerTurn, DeleteTurn, TrainTurn
  <2>2. JobOK(Me)
    BY <2>1, MyTurn
  <2>3. Stays
    BY <1>5, <2>2, AlikeEdits DEF PlayerTurn, DeleteTurn, TrainTurn, DeleteTrain, Stays
  <2> QED BY <1>5, <2>1, <2>3
<1>6. CASE StartTick \/ StartInits \/ EndTick
  BY <1>6 DEF StartTick, StartInits, EndTick, OpenTick, AllHadTurns, CloseTick, Idle
<1>7. CASE InitPlain \/ InitMirv \/ InitUpgrade \/ InitDelete \/ InitStation \/ InitTrain
  <2>1. PICK k : DueInit(k)
    BY <1>7 DEF InitPlain, InitMirv, InitUpgrade, InitDelete, InitStation, InitTrain
  <2>2. JobOK(New1) /\ k = New1.kind
    BY <2>1, MyInit
  <2>3. \/ \E m \in {"upgrade", "delete", "train"} : DueInit(m) /\ Drop1
        \/ \E j : Append1(j) /\ Alike(New1, j) /\ (k = "hunt" => j = New1)
    <3>1. CASE InitPlain \/ InitStation
      BY <2>2, <3>1, AlikeEdits DEF InitPlain, InitStation
    <3>2. CASE InitUpgrade \/ InitDelete
      BY <2>2, <3>2, AlikeEdits DEF InitUpgrade, InitDelete
    <3>3. CASE InitMirv
      BY <2>2, <3>3, AlikeEdits DEF InitMirv, DueInit, New1
    <3>4. CASE InitTrain
      <4>1. DueInit("train") /\ New1.kind = "train"
        BY <3>4 DEF InitTrain, DueInit, New1
      <4>2. Drop1 \/ \E m, n : Append1([New1 EXCEPT !.unit = Fresh, !.path = m, !.left = n])
        BY <3>4 DEF InitTrain
      <4> QED BY <2>2, <4>1, <4>2, AlikeEdits
    <3> QED BY <1>7, <3>1, <3>2, <3>3, <3>4
  <2>4. Drop1 => execs' = execs
    BY DEF Drop1
  <2> QED BY <2>1, <2>3, <2>4 DEF Idle
<1>8. CASE Outside
  <2>1. ASSUME NEW x, Order(x) \/ Conquer(x) \/ Ally(x) \/ Part(x) PROVE execs' = execs
    BY <2>1 DEF Order, Conquer, Ally, Part
  <2>2. execs' = execs
    BY <1>8, <2>1 DEF Outside
  <2> QED BY <1>8, <2>2 DEF Idle
<1> QED BY <1>1, <1>2, <1>3, <1>4, <1>5, <1>6, <1>7, <1>8 DEF Acts, Engine

\* In a turn, all but the execution whose turn it is stay where they are.
LEMMA TurnKept ==
    ASSUME Loop, NEW k, Turn(k), Done \/ \E j : Stay(j)
    PROVE  \A i \in 1 .. Len(execs) : i # cursor => execs[i] \in Range(execs')
<1>1. cursor \in 1 .. Len(execs) /\ execs \in Seq(Range(execs))
  BY MyTurn DEF Loop
<1>2. CASE Done
  <2>1. execs' = Removed(execs, cursor)
    BY <1>2 DEF Done, Removed
  <2> QED BY <1>1, <2>1, RemovedList
<1>3. ASSUME NEW j, Stay(j) PROVE \A i \in 1 .. Len(execs) : i # cursor => execs[i] \in Range(execs')
  <2>1. execs' = [execs EXCEPT ![cursor] = j]
    BY <1>3 DEF Stay
  <2> QED BY <1>1, <2>1, ExceptList
<1> QED BY <1>2, <1>3
\* An execution of a kind that has one way to end stays until then.
LEMMA KindKept ==
    ASSUME Loop, Acts, NEW j \in Range(execs), j.kind \in Kept,
           ~(Turn(j.kind) /\ (PlayerTurn \/ DeleteTurn \/ TrainTurn))
    PROVE  j \in Range(execs')
<1>1. PICK i \in 1 .. Len(execs) : execs[i] = j
  BY Listed DEF Loop
<1>2. ASSUME NEW k, Turn(k), Stays,
             k \in Kept => PlayerTurn \/ DeleteTurn \/ TrainTurn
      PROVE  j \in Range(execs')
  <2>1. i # cursor
    BY <1>1, <1>2 DEF Turn
  <2> QED BY <1>1, <1>2, <2>1, TurnKept DEF Stays
<1>3. ASSUME NEW m, Append1(m) PROVE j \in Range(execs')
  <2>1. execs' = Append(execs, m) /\ execs \in Seq(Range(execs))
    BY <1>3 DEF Append1, Loop
  <2>2. Range(execs') = Range(execs) \cup {m}
    BY <2>1, AppendList
  <2> QED BY <2>2
<1> QED BY <1>2, <1>3, TurnOrNot

\* What may become of a unit in a step, but for its mark.
LEMMA UnitGoes ==
    ASSUME TypeOK, Loop, Acts, NEW u \in UnitIds
    PROVE  \/ \E F : /\ Follows(unit[u], unit'[u], F) /\ F \subseteq {"building", "locked"}
                    /\ ("building" \in F => Build)
                    /\ ("locked" \in F => SamTurn \/ HuntTurn)
           \/ InitDelete
           \/ /\ FreeIds # {} /\ u = Fresh
              /\ Lay \/ (HuntTurn /\ Me.unit = NoUnitId) \/ Launch \/ MirvLaunch \/ InitTrain
<1> DEFINE goes == \E F : /\ Follows(unit[u], unit'[u], F) /\ F \subseteq {"building", "locked"}
                         /\ ("building" \in F => Build)
                         /\ ("locked" \in F => SamTurn \/ HuntTurn)
<1>1. ASSUME NEW F, F \subseteq {"building", "locked"}, NEW S, u \in S, Onward(unit', S, F),
             "building" \in F => Build, "locked" \in F => SamTurn \/ HuntTurn
      PROVE  goes
  BY <1>1 DEF Onward
<1> HIDE DEF goes
<1>2. Onward(unit, UnitIds, {}) /\ Sound(unit)
  BY SameOnward, UnitsSound
<1>3. CASE unit' = unit
  BY <1>1, <1>2, <1>3 DEF goes
<1>4. CASE \/ StartTick \/ StartInits \/ Delegate \/ GiveUp \/ PostTurn \/ Fizzle \/ InitPlain
           \/ InitMirv \/ CityTurn \/ PortJoins \/ FactoryTurn \/ StationTurn \/ InitStation
           \/ RecomputeTurn
  <2>1. unit' = unit
    BY <1>4 DEF StartTick, StartInits, Delegate, GiveUp, PostTurn, Fizzle, InitPlain,
           InitMirv, CityTurn, PortJoins, FactoryTurn, StationTurn, InitStation, RecomputeTurn,
           Gone
  <2> QED BY <1>3, <2>1
<1>5. CASE EndTick \/ PlayerTurn \/ SiloTurn \/ InitUpgrade
  <2>1. Onward(unit', UnitIds, {})
    BY <1>5, EndTickUnits, PlayerTurnUnits, SiloTurnUnits, InitUpgradeUnits
  <2> QED BY <1>1, <2>1 DEF goes
<1>6. CASE Build
  BY <1>1, <1>6, BuildUnits DEF goes
<1>7. CASE SamTurn
  BY <1>1, <1>7, SamTurnUnits DEF goes
<1>8. CASE HuntTurn
  <2>1. Onward(unit', Kin, {"locked"})
    BY <1>8, HuntTurnUnits
  <2>2. u \in Kin \/ (Me.unit = NoUnitId /\ u = Fresh)
    BY DEF Kin
  <2>3. Me.unit = NoUnitId => FreeIds # {}
    BY <1>8, HuntTurnIs
  <2>4. CASE u \in Kin
    BY <1>1, <1>8, <2>1, <2>4 DEF goes
  <2> QED BY <1>8, <2>2, <2>3, <2>4 DEF goes
<1>9. CASE Lay \/ Launch \/ MirvLaunch \/ InitTrain
  <2>1. unit' = unit \/ (FreeIds # {} /\ Onward(unit', UnitIds \ {Fresh}, {}))
    BY <1>9, LayUnits, LaunchUnits, MirvLaunchUnits, InitTrainUnits
  <2>2. CASE u # Fresh
    BY <1>1, <1>3, <2>1, <2>2 DEF goes
  <2> QED BY <1>3, <1>9, <2>1, <2>2 DEF goes
<1>10. CASE NukeTurn \/ MirvTurn \/ DeleteTurn \/ TrainTurn \/ \E x \in todo.pairs : Ally(x)
  <2>1. PICK S : unit' = unit \/ unit' = Without(S)
    BY <1>10, RemovalUnits
  <2>2. Onward(Without(S), UnitIds, {})
    BY <1>2, WithoutSound
  <2> QED BY <1>1, <1>3, <2>1, <2>2 DEF goes
<1>11. CASE \/ \E x \in todo.orders : Order(x)
            \/ \E x \in todo.landings : Conquer(x)
            \/ \E x \in allies : Part(x)
  BY <1>3, <1>11 DEF Order, Conquer, Part
<1> QED BY <1>4, <1>5, <1>6, <1>7, <1>8, <1>9, <1>10, <1>11 DEF goes, Acts, Engine, Outside

LEMMA UnitsGo ==
    ASSUME TypeOK, Loop, Acts, NEW u \in UnitIds
    PROVE  \/ Follows(unit[u], unit'[u], {"building", "locked"})
           \/ InitDelete
           \/ /\ FreeIds # {} /\ u = Fresh
              /\ Lay \/ (HuntTurn /\ Me.unit = NoUnitId) \/ Launch \/ MirvLaunch \/ InitTrain
<1>1. ASSUME NEW F, Follows(unit[u], unit'[u], F), F \subseteq {"building", "locked"}
      PROVE  Follows(unit[u], unit'[u], {"building", "locked"})
  BY <1>1 DEF Follows
<1> QED BY <1>1, UnitGoes
\* A unit that stays is of its kind, and is built and marked by those who do that.
LEMMA UnitStays ==
    ASSUME TypeOK, Loop, Acts, NEW u \in UnitIds, Exists(u), unit'[u].type # "none"
    PROVE  /\ unit'[u].type = unit[u].type
           /\ unit'[u].building = unit[u].building \/ Build
           /\ unit'[u].locked = unit[u].locked \/ SamTurn \/ HuntTurn
<1>1. unit'[u] # NoUnit
  BY NoUnitSound
<1>2. CASE InitDelete
  BY <1>1, <1>2, InitDeleteUnits DEF Onward, Follows
<1>3. ASSUME NEW F, Follows(unit[u], unit'[u], F), "building" \in F => Build,
             "locked" \in F => SamTurn \/ HuntTurn
      PROVE  /\ unit'[u].type = unit[u].type
             /\ unit'[u].building = unit[u].building \/ Build
             /\ unit'[u].locked = unit[u].locked \/ SamTurn \/ HuntTurn
  BY <1>1, <1>3 DEF Follows
<1>4. FreeIds # {} => u # Fresh
  BY FreshIsFree
<1> QED BY <1>2, <1>3, <1>4, UnitGoes

\* Nobody but DeleteUnitExecution::init marks a unit, and no capture leaves it marked.
LEMMA NotMarked ==
    ASSUME TypeOK, Loop, Acts, ~InitDelete, NEW u \in UnitIds, unit'[u].type \in Structures,
           unit'[u].doom # Unmarked
    PROVE  unit[u].type \in Structures /\ unit[u].doom # Unmarked /\ unit'[u].holder = unit[u].holder
<1>1. NoUnit.type \notin Structures
  BY DEF NoUnit, Structures
<1>2. CASE Follows(unit[u], unit'[u], {"building", "locked"})
  <2>1. unit'[u] # NoUnit
    BY <1>1
  <2>2. unit'[u].type = unit[u].type /\ unit'[u].holder = unit[u].holder
    BY <1>2, <2>1 DEF Follows
  <2>3. unit[u].doom # Unmarked
    BY <1>2, <2>1 DEF Follows
  <2> QED BY <2>2, <2>3
<1>3. CASE u = Fresh /\ Lay
  BY <1>3, LayUnits
<1>4. CASE u = Fresh /\ HuntTurn /\ Me.unit = NoUnitId
  <2>1. Turn("hunt") /\ (Me.unit = NoUnitId => FreeIds # {})
    BY <1>4 DEF HuntTurn
  <2>2. Hunter = Fresh /\ WithHunter[Fresh] = New("Missile", Me.by, 0)
    BY <1>4, <2>1, HunterFacts
  <2>3. WithHunter[Fresh].type = "Missile" /\ Fresh # Me.prey /\ Me.prey \in UnitIds
    BY <1>4, <2>1, <2>2, HunterFacts, FreshIsFree, NewFields
  <2>4. Fresh \in UnitIds /\ WithHunter = [v \in UnitIds |-> WithHunter[v]]
    BY <1>4, <2>1, HunterFacts, FreshIsFree DEF Sound
  <2>5. unit'[u] = unit[u] \/ unit'[u] = NoUnit \/ unit'[u] = WithHunter[Fresh]
    BY <1>4, <2>2, <2>3, <2>4, HuntTurnIs DEF CalledOffHunt, Struck
  <2>6. unit'[u] # unit[u]
    BY <1>4, <2>1, FreshIsFree DEF Exists, Structures
  <2> QED BY <1>1, <2>3, <2>5, <2>6 DEF Structures
<1>5. CASE u = Fresh /\ (Launch \/ MirvLaunch \/ InitTrain) /\ FreeIds # {}
  <2>1. CASE unit' = unit
    BY <1>5, <2>1, FreshIsFree DEF Exists, Structures
  <2>2. unit' = unit \/ unit'[Fresh].type \in {"Bomb", "Warhead", "MIRV", "Train"}
    BY <1>5, LaunchUnits, MirvLaunchUnits, InitTrainUnits DEF Launch
  <2> QED BY <1>5, <2>1, <2>2 DEF Structures
<1> QED BY <1>2, <1>3, <1>4, <1>5, UnitsGo

Marks ==
    \A u \in UnitIds :
        unit[u].type \in Structures /\ unit[u].doom # Unmarked =>
            \E j \in Range(execs) : j.kind = "delete" /\ j.unit = u /\ j.by = unit[u].holder
LEMMA MarksStep ==
    ASSUME TypeOK, Loop, Marks, Acts
    PROVE  Marks'
<1> SUFFICES ASSUME NEW u \in UnitIds, unit'[u].type \in Structures, unit'[u].doom # Unmarked
             PROVE  \E j \in Range(execs') : /\ j.kind = "delete" /\ j.unit = u
                                             /\ j.by = unit'[u].holder
  BY DEF Marks
\* One that was marked before.
<1>1. ASSUME unit[u].type \in Structures, unit[u].doom # Unmarked, unit'[u].holder = unit[u].holder
      PROVE  \E j \in Range(execs') : j.kind = "delete" /\ j.unit = u /\ j.by = unit'[u].holder
  <2>1. PICK j \in Range(execs) : j.kind = "delete" /\ j.unit = u /\ j.by = unit[u].holder
    BY <1>1 DEF Marks
  <2>2. CASE ~DeleteTurn
    <3>1. ~(Turn(j.kind) /\ (PlayerTurn \/ DeleteTurn \/ TrainTurn))
      BY <2>1, <2>2 DEF Turn, PlayerTurn, TrainTurn
    <3>2. j \in Range(execs')
      BY <2>1, <3>1, KindKept DEF Kept
    <3> QED BY <1>1, <2>1, <3>2
  <2>3. CASE DeleteTurn
    <3>1. Turn("delete") /\ (Done \/ \E k : Stay(k))
      BY <2>3 DEF DeleteTurn
    <3>2. PICK i \in 1 .. Len(execs) : execs[i] = j
      BY Listed DEF Loop
    <3>3. CASE i # cursor
      BY <1>1, <2>1, <3>1, <3>2, <3>3, TurnKept
    <3>4. CASE i = cursor
      <4>1. Me = j
        BY <3>2, <3>4 DEF Me
      <4>2. unit' # Without({Me.unit})
        BY <2>1, <4>1 DEF Without, NoUnit, Structures
      <4>3. Stay(Me)
        BY <1>1, <2>1, <2>3, <4>1, <4>2 DEF DeleteTurn
      <4>4. execs' = [execs EXCEPT ![cursor] = j] /\ cursor \in 1 .. Len(execs)
            /\ execs \in Seq(Range(execs))
        BY <3>1, <4>1, <4>3, MyTurn DEF Stay, Loop
      <4>5. j \in Range(execs')
        BY <4>4, ExceptList
      <4> QED BY <1>1, <2>1, <4>5
    <3> QED BY <3>3, <3>4
  <2> QED BY <2>2, <2>3
<1>2. CASE ~InitDelete
  BY <1>1, <1>2, NotMarked
<1>3. CASE InitDelete
  <2>1. CASE unit'[u] = unit[u]
    BY <1>1, <2>1
  <2>2. CASE unit'[u] # unit[u]
    <3>1. u = New1.unit /\ New1.by = unit'[u].holder
      BY <1>3, <2>2, InitDeleteUnits
    <3>2. Range(execs') = Range(execs) \cup {New1}
      <4>1. PICK j : j = New1
        OBVIOUS
      <4>2. execs' = Append(execs, j) /\ execs \in Seq(Range(execs))
        BY <1>3, <2>2, <4>1, InitDeleteUnits DEF Loop
      <4>3. Range(execs') = Range(execs) \cup {j}
        BY <4>2, AppendList
      <4> QED BY <4>1, <4>3
    <3>3. New1.kind = "delete"
      BY <1>3, MyInit DEF InitDelete
    <3> QED BY <3>1, <3>2, <3>3
  <2> QED BY <2>1, <2>2
<1> QED BY <1>2, <1>3

LEMMA MarksAreDeletions ==
    ASSUME Loop, Marks
    PROVE  DeletionsAreOrdered
<1> SUFFICES ASSUME NEW u \in OfType(Structures), unit[u].doom # Unmarked
             PROVE  \E i \in AllJobs("delete") : execs[i].unit = u /\ execs[i].by = unit[u].holder
  BY DEF DeletionsAreOrdered
<1>1. PICK j \in Range(execs) : j.kind = "delete" /\ j.unit = u /\ j.by = unit[u].holder
  BY DEF Marks, OfType
<1>2. PICK i \in 1 .. Len(execs) : execs[i] = j
  BY Listed DEF Loop
<1> QED BY <1>1, <1>2 DEF AllJobs

\* A unit marked for deletion has a DeleteUnitExecution of whoever holds it: a capture takes
\* the mark off, and nobody loses a structure to an order that a former holder gave.
THEOREM DeletionsAreOrderedHolds == Spec => []DeletionsAreOrdered
<1>1. RailInit => Marks
  BY FirstUnits DEF Marks
<1>2. Base /\ Marks /\ [RailNext]_railVars => Marks'
  <2>1. ASSUME Base, Marks, Acts PROVE Marks'
    BY <2>1, MarksStep DEF Base
  <2>2. ASSUME Marks, UNCHANGED vars PROVE Marks'
    BY <2>2 DEF Marks, vars, loopVars
  <2> QED BY <2>1, <2>2, NextActs
<1>3. Base /\ Marks => DeletionsAreOrdered
  BY MarksAreDeletions DEF Base
<1> QED BY <1>1, <1>2, <1>3, BaseHolds, PTL DEF Spec

-----------------------------------------------------------------------------
(* Trains. *)

LEMMA TrainStays ==
    ASSUME Base, Acts, NEW u \in OfType({"Train"}), Driven(execs, u), unit'[u].type # "none"
    PROVE  \E j \in Range(execs') : j.kind = "train" /\ j.unit = u
<1>1. TypeOK /\ Loop /\ Names /\ u \in UnitIds /\ Exists(u) /\ u # NoUnitId
  BY Numbers DEF Base, OfType, Exists
<1>2. PICK i \in 1 .. Len(execs) : execs[i].kind = "train" /\ execs[i].unit = u
  BY DEF Driven
<1>3. execs[i] \in Range(execs) /\ execs[i] \in Jobs
  BY <1>1, Listed DEF Loop, Jobs
<1>4. CASE ~TrainTurn
  <2>1. ~(Turn(execs[i].kind) /\ (PlayerTurn \/ DeleteTurn \/ TrainTurn))
    BY <1>2, <1>4 DEF Turn, PlayerTurn, DeleteTurn
  <2>2. execs[i] \in Range(execs')
    BY <1>1, <1>2, <1>3, <2>1, KindKept DEF Kept
  <2> QED BY <1>2, <2>2
<1>5. CASE TrainTurn
  <2>1. Turn("train") /\ (Done \/ \E k : Stay(k))
    BY <1>5 DEF TrainTurn, DeleteTrain
  <2>2. CASE i # cursor
    BY <1>1, <1>2, <2>1, <2>2, TurnKept
  <2>3. CASE i = cursor
    <3>1. Me.kind = "train" /\ Me.unit = u /\ Fits(Me)
      BY <1>1, <1>2, <1>3, <2>3 DEF Me, Names
    <3>2. unit[u].holder = Me.by
      BY <1>1, <3>1 DEF Fits
    <3>3. ~DeleteTrain
      BY <1>1, <3>1, <3>2 DEF DeleteTrain, Without, NoUnit
    <3>4. PICK j : Stay(j) /\ (\/ \E n : j = [Me EXCEPT !.left = n]
                               \/ \E m, n : j = [Me EXCEPT !.path = m, !.left = n])
      BY <1>5, <3>3 DEF TrainTurn
    <3>5. j.kind = "train" /\ j.unit = u
      BY <1>1, <2>1, <3>1, <3>4, MyTurn DEF JobOK
    <3>6. execs' = [execs EXCEPT ![cursor] = j] /\ cursor \in 1 .. Len(execs)
          /\ execs \in Seq(Range(execs))
      BY <1>1, <2>1, <3>4, MyTurn DEF Stay, Loop
    <3>7. j \in Range(execs')
      BY <3>6, ExceptList
    <3> QED BY <3>5, <3>7
  <2> QED BY <2>2, <2>3
<1> QED BY <1>4, <1>5

\* Whatever becomes of its owner, its stations and its railroads, the execution of a train
\* that is under way takes the train with it when it ends.
THEOREM NoTrainIsLeftBehindHolds == Spec => NoTrainIsLeftBehind
<1> DEFINE stays == \A u \in OfType({"Train"}) :
                       Driven(execs, u) => unit'[u].type = "none" \/ Driven(execs', u)
<1>1. Base /\ Base' /\ [RailNext]_railVars => [stays]_railVars
  <2>1. ASSUME Base, Base', Acts PROVE stays
    <3>1. SUFFICES ASSUME NEW u \in OfType({"Train"}), Driven(execs, u), unit'[u].type # "none"
                   PROVE  Driven(execs', u)
      OBVIOUS
    <3>2. PICK j \in Range(execs') : j.kind = "train" /\ j.unit = u
      BY <2>1, <3>1, TrainStays
    <3>3. PICK i \in 1 .. Len(execs') : execs'[i] = j
      BY <2>1, Listed DEF Base, Loop
    <3> QED BY <3>2, <3>3 DEF Driven
  <2>2. ASSUME UNCHANGED vars PROVE stays
    BY <2>2 DEF vars, loopVars
  <2> QED BY <2>1, <2>2, NextActs
<1>2. Spec => [][stays]_railVars
  BY <1>1, BaseHolds, PTL DEF Spec
<1> QED BY <1>2 DEF NoTrainIsLeftBehind

-----------------------------------------------------------------------------
(* What is added to the list of new executions. *)

\* Works for no structure yet, and hunts nothing.
Bystander(j) == \/ j.kind \in {"nuke", "mirv", "station", "upgrade", "delete", "train"}
                \/ j.kind = "build" /\ j.unit = NoUnitId
FromStation(j) == StationTurn /\ Exists(Me.unit) /\ j.by = unit[Me.unit].holder
Adds == \E js : /\ Add(js) /\ js \in Seq(Range(js))
                /\ \A j \in Range(js) : Bystander(j) /\ (j.kind = "train" => FromStation(j))
LEMMA AddsOne ==
    ASSUME NEW j, Add(<<j>>), Bystander(j), j.kind = "train" => FromStation(j)
    PROVE  Adds
<1>1. PICK js : js = <<j>> /\ js \in Seq(Range(js)) /\ Range(js) = {j}
  BY OneJob
<1>2. Add(js) /\ \A i \in Range(js) : Bystander(i) /\ (i.kind = "train" => FromStation(i))
  BY <1>1
<1> QED BY <1>1, <1>2 DEF Adds
LEMMA DelegateAdds == ASSUME Loop, Delegate PROVE Adds
<1>1. PICK j : j = [Job(IF Me.type = "MIRV" THEN "mirv" ELSE "nuke", Me.by)
                      EXCEPT !.type = Me.type, !.tile = Me.tile]
  OBVIOUS
<1>2. j.kind \in {"nuke", "mirv"}
  BY <1>1 DEF Job
<1> QED BY <1>1, <1>2, AddsOne DEF Delegate, Bystander
LEMMA StationJobIs == \A p, u, b : StationJob(p, u, b).kind = "station" /\ StationJob(p, u, b).unit = u
  BY DEF StationJob
LEMMA MirvTurnAdds == ASSUME Loop, MirvTurn PROVE uninit' = uninit \/ Adds
<1>1. ASSUME NEW S \in SUBSET (Land(Me.victim) \ {Me.tile}), NEW w, Add(Warheads(S \cup {Me.tile}, w))
      PROVE  Adds
  <2>1. PICK D, p : D = S \cup {Me.tile} /\ p = Me.by
    OBVIOUS
  <2>2. IsFiniteSet(D)
    BY <1>1, <2>1, FS_Subset, FS_AddElement, ArsenalAssumption DEF Land
  <2>3. Cardinality(D) \in Nat
    BY <2>2, SetToSeqLists
  <2> DEFINE n == Cardinality(D)
             warhead(t) == [Job("nuke", p) EXCEPT !.type = "Warhead", !.tile = t, !.wait = w[t]]
  <2>4. PICK js : js = [i \in 1 .. n |-> warhead(SetToSeq(D)[i])]
    OBVIOUS
  <2>5. Add(js)
    BY <1>1, <2>1, <2>4 DEF Warheads
  <2>6. \A t : warhead(t).kind = "nuke"
    BY DEF Job
  <2> HIDE DEF warhead
  <2>7. \A j \in Range(js) : j.kind = "nuke"
    BY <2>3, <2>4, <2>6 DEF Range
  <2>8. js \in Seq(Range(js))
    BY <2>3, <2>4 DEF Range
  <2> QED BY <2>5, <2>7, <2>8 DEF Adds, Bystander
<1> QED BY <1>1 DEF MirvTurn
LEMMA FactoryTurnAdds == ASSUME TypeOK, Loop, FactoryTurn PROVE uninit' = uninit \/ Adds
<1>1. ASSUME NEW row \in SetToAllKPermutations(Unserved(Me.unit)),
             Add(<<StationJob(Held.by, Me.unit, TRUE)>> \o
                 [i \in DOMAIN row |-> StationJob(unit[row[i]].holder, row[i], FALSE)])
      PROVE  Adds
  <2>1. PICK S \in SUBSET Unserved(Me.unit) : row \in SetToSeqs(S)
    BY <1>1 DEF SetToAllKPermutations
  <2>2. IsFiniteSet(S) /\ Cardinality(S) \in Nat
    <3>1. S \subseteq UnitIds
      BY DEF Unserved, Near, OfType
    <3> QED BY <3>1, FS_Subset, FS_CardinalityType, ArsenalAssumption
  <2>3. row \in [1 .. Cardinality(S) -> S]
    BY <2>1 DEF SetToSeqs
  <2>4. PICK rs : rs = [i \in DOMAIN row |-> StationJob(unit[row[i]].holder, row[i], FALSE)]
    OBVIOUS
  <2>5. PICK n \in Nat : DOMAIN row = 1 .. n
    BY <2>2, <2>3
  <2>6. rs \in Seq(Range(rs)) /\ \A j \in Range(rs) : j.kind = "station"
    <3>1. DOMAIN rs = 1 .. n /\ \A i \in 1 .. n : rs[i].kind = "station"
      <4>1. DOMAIN rs = 1 .. n
        BY <2>4, <2>5
      <4>2. ASSUME NEW i \in 1 .. n PROVE rs[i].kind = "station"
        <5>1. rs[i] = StationJob(unit[row[i]].holder, row[i], FALSE)
          BY <2>4, <2>5
        <5> QED BY <5>1 DEF StationJob
      <4> QED BY <4>1, <4>2
    <3>2. rs = [i \in 1 .. n |-> rs[i]]
      BY <2>4, <2>5
    <3> QED BY <3>1, <3>2 DEF Range
  <2>7. PICK j, one : j = StationJob(Held.by, Me.unit, TRUE) /\ one = <<j>>
    OBVIOUS
  <2>8. one \in Seq(Range(one)) /\ Range(one) = {j} /\ j.kind = "station"
    <3>1. one \in Seq(Range(one)) /\ Range(one) = {j}
      BY <2>7, OneJob
    <3>2. j.kind = "station"
      BY <2>7, StationJobIs
    <3> QED BY <3>1, <3>2
  <2>9. PICK js : js = one \o rs
    OBVIOUS
  <2>10. Joined(one, rs, js)
    BY <2>6, <2>8, <2>9, ConcatList
  <2>11. js \in Seq(Range(js)) /\ \A i \in Range(js) : i.kind = "station"
    BY <2>6, <2>8, <2>10 DEF Joined
  <2>12. Add(js)
    BY <1>1, <2>4, <2>7, <2>9
  <2> QED BY <2>11, <2>12 DEF Adds, Bystander
<1> QED BY <1>1 DEF FactoryTurn, Gone, Serve, NotServed
LEMMA StationTurnAdds == ASSUME Loop, StationTurn PROVE uninit' = uninit \/ Adds
<1>1. ASSUME NEW s, NEW d, Exists(Me.unit), Add(<<TrainJob(Held.by, s, d)>>)
      PROVE  Adds
  <2>1. PICK j : j = TrainJob(Held.by, s, d)
    OBVIOUS
  <2>2. j.kind = "train" /\ j.by = Held.by
    BY <2>1 DEF TrainJob
  <2>3. JobOK(Me)
    BY MyTurn DEF StationTurn
  <2>4. Held.by = unit[Me.unit].holder
    BY <2>3 DEF Held, JobOK
  <2> QED BY <1>1, <2>1, <2>2, <2>4, AddsOne DEF Bystander, FromStation
<1> QED BY <1>1 DEF StationTurn, Gone
LEMMA OrderAdds == ASSUME Loop, NEW x \in todo.orders, Order(x) PROVE Adds
<1>1. x \in OrderType
  BY PlanFields
<1>2. PICK j : j = [Job(x.kind, x.by) EXCEPT !.type = x.type, !.tile = x.tile, !.unit = x.unit]
  OBVIOUS
<1>3. j.kind = x.kind /\ j.unit = x.unit
  BY <1>2 DEF Job
<1>4. Bystander(j) /\ j.kind # "train"
  BY <1>1, <1>3 DEF OrderType, Bystander
<1> QED BY <1>2, <1>4, AddsOne DEF Order
LEMMA Added ==
    ASSUME TypeOK, Loop, Acts
    PROVE  \/ uninit' = uninit
           \/ \E k : DueInit(k) /\ uninit' = Tail(uninit)
           \/ Lay \/ Build \/ SamTurn
           \/ Adds
<1>1. CASE \/ StartTick \/ StartInits \/ EndTick \/ PlayerTurn \/ GiveUp \/ PostTurn \/ SiloTurn
           \/ HuntTurn \/ Launch \/ Fizzle \/ NukeTurn \/ MirvLaunch \/ DeleteTurn
  BY <1>1 DEF StartTick, StartInits, EndTick, PlayerTurn, GiveUp, PostTurn, SiloTurn, HuntTurn,
     Launch, Fizzle, NukeTurn, MirvLaunch, DeleteTurn, OpenTick, AllHadTurns, CloseTick, Gone
<1>2. CASE InitPlain \/ InitMirv \/ InitUpgrade \/ InitDelete \/ InitStation \/ InitTrain
  <2>1. \E k : DueInit(k)
    BY <1>2 DEF InitPlain, InitMirv, InitUpgrade, InitDelete, InitStation, InitTrain
  <2>2. uninit' = Tail(uninit)
    BY <1>2 DEF InitPlain, InitMirv, InitUpgrade, InitDelete, InitStation, InitTrain, Append1, Drop1
  <2> QED BY <2>1, <2>2
<1>3. CASE CityTurn \/ PortJoins
  <2>1. uninit' = uninit \/ Add(<<StationJob(Held.by, Me.unit, FALSE)>>)
    BY <1>3 DEF CityTurn, PortJoins, Gone, Serve, NotServed
  <2>2. PICK j : j = StationJob(Held.by, Me.unit, FALSE)
    OBVIOUS
  <2>3. j.kind = "station"
    BY <2>2, StationJobIs
  <2> QED BY <2>1, <2>2, <2>3, AddsOne DEF Bystander
<1>4. CASE TrainTurn \/ RecomputeTurn
  BY <1>4 DEF TrainTurn, RecomputeTurn
<1>5. CASE Outside
  <2>1. ASSUME NEW x, Conquer(x) \/ Ally(x) \/ Part(x) PROVE uninit' = uninit
    BY <2>1 DEF Conquer, Ally, Part
  <2> QED BY <1>5, <2>1, OrderAdds DEF Outside
<1> QED BY <1>1, <1>2, <1>3, <1>4, <1>5, DelegateAdds, MirvTurnAdds, FactoryTurnAdds,
           StationTurnAdds DEF Acts, Engine
\* What those add that do more: the runner of a structure, or a missile at a bomb.
LEMMA AddsWorker ==
    ASSUME TypeOK, Loop, Names, Lay \/ Build \/ SamTurn
    PROVE  \/ uninit' = uninit
           \/ \E j : Add(<<j>>) /\ (j.kind \in Runners \/ (SamTurn /\ j.kind = "hunt" /\ j.unit = NoUnitId))
<1>1. CASE Lay
  <2>1. JobOK(Me) /\ Me.kind = "build" /\ Me.type \in Structures /\ FreeIds # {}
    BY <1>1, MyTurn DEF Lay
  <2>2. Me.by \in Players /\ Fresh \in UnitIds
    BY <2>1, FreshIsFree DEF JobOK
  <2>3. RunnerOf(Me.type, Me.by, Fresh).kind \in Runners
    BY <2>1, <2>2, RunnerFacts
  <2> QED BY <1>1, <2>3 DEF Lay
<1>2. CASE Build
  <2>1. JobOK(Me) /\ Me.kind = "build" /\ Me.unit \in UnitIds /\ Me.unit # NoUnitId /\ Fits(Me)
    BY <1>2, MyTurn DEF Build, JobOK, Names
  <2>2. Exists(Me.unit) => Me.type \in Structures /\ unit[Me.unit].holder \in Players
    BY <2>1, HolderIsPlayer DEF Fits, Crew
  <2>3. Exists(Me.unit) => RunnerOf(Me.type, unit[Me.unit].holder, Me.unit).kind \in Runners
    BY <2>1, <2>2, RunnerFacts
  <2> QED BY <1>2, <2>3 DEF Build
<1>3. CASE SamTurn
  <2>1. ASSUME NEW u, NEW s, NEW p, NEW n, NEW v,
               Add(<<[Job("hunt", p) EXCEPT !.prey = u, !.from = s, !.left = n, !.victim = v]>>)
        PROVE  \E j : Add(<<j>>) /\ j.kind = "hunt" /\ j.unit = NoUnitId
    <3>1. PICK j : j = [Job("hunt", p) EXCEPT !.prey = u, !.from = s, !.left = n, !.victim = v]
      OBVIOUS
    <3>2. j.kind = "hunt" /\ j.unit = NoUnitId
      BY <3>1 DEF Job
    <3> QED BY <2>1, <3>1, <3>2
  <2> QED BY <1>3, <2>1 DEF SamTurn, Gone
<1> QED BY <1>1, <1>2, <1>3
LEMMA NewKinds ==
    ASSUME TypeOK, Loop, Names, Acts, NEW j \in Range(uninit')
    PROVE  \/ j \in Range(uninit)
           \/ j.kind # "player" /\ (j.kind = "train" => FromStation(j))
<1>1. uninit \in Seq(Range(uninit))
  BY DEF Loop
<1>2. CASE uninit # <<>> /\ uninit' = Tail(uninit)
  <2>1. Range(uninit) = Range(uninit') \cup {uninit[1]}
    BY <1>1, <1>2, TailList
  <2> QED BY <2>1
<1>3. ASSUME NEW js, Add(js), js \in Seq(Range(js)) PROVE j \in Range(uninit) \/ j \in Range(js)
  BY <1>1, <1>3, ConcatList DEF Add, Joined
<1>4. CASE Adds
  BY <1>3, <1>4 DEF Adds, Bystander
<1>5. ASSUME NEW k, Add(<<k>>), k.kind \in Runners \cup {"hunt"}
      PROVE  j \in Range(uninit) \/ (j.kind # "player" /\ j.kind # "train")
  <2>1. PICK js : js = <<k>> /\ js \in Seq(Range(js)) /\ Range(js) = {k}
    BY OneJob
  <2>2. j \in Range(uninit) \/ j = k
    BY <1>3, <1>5, <2>1
  <2> QED BY <1>5, <2>2 DEF Runners
<1>6. ASSUME Lay \/ Build \/ SamTurn PROVE j \in Range(uninit) \/ (j.kind # "player" /\ j.kind # "train")
  BY <1>5, <1>6, AddsWorker
<1> QED BY <1>2, <1>4, <1>6, Added DEF DueInit

-----------------------------------------------------------------------------
(* The dead. *)

\* The executions of players stand first; there are no new ones.
PlayersFirst ==
    /\ \A i, k \in 1 .. Len(execs) :
          i < k /\ execs[k].kind = "player" => execs[i].kind = "player"
    /\ \A j \in Range(uninit) : j.kind # "player"
PlayersHadTurns == /\ phase # "orders"
                   /\ phase = "turns" => \A i \in cursor .. Len(execs) : execs[i].kind # "player"
\* A train is built for one who is alive, and will not die before.
Passengers == \A j \in Range(uninit) : j.kind = "train" => PlayersHadTurns /\ ~Dead(j.by)
Ghosts == \A p \in Players : Dead(p) => ~Has(p) /\ HeldBy(p) \subseteq OfType(Bombs)

LEMMA AliveIs ==
    ASSUME Loop, NEW p
    PROVE  ~Dead(p) <=> \E j \in Range(execs) : j.kind = "player" /\ j.by = p
<1>1. ASSUME NEW j \in Range(execs), j.kind = "player", j.by = p PROVE ~Dead(p)
  <2>1. PICK i \in 1 .. Len(execs) : execs[i] = j
    BY Listed DEF Loop
  <2> QED BY <1>1, <2>1 DEF Dead, AllJobs
<1>2. ASSUME ~Dead(p) PROVE \E j \in Range(execs) : j.kind = "player" /\ j.by = p
  BY <1>2, Listed DEF Dead, AllJobs, Loop
<1> QED BY <1>1, <1>2
LEMMA PlayersFirstStep ==
    ASSUME TypeOK, Loop, Names, PlayersFirst, Acts
    PROVE  PlayersFirst'
<1>1. \A j \in Range(uninit') : j.kind # "player"
  BY NewKinds DEF PlayersFirst
<1>2. execs \in Seq(Range(execs)) /\ Len(execs) \in Nat
  BY Listed DEF Loop
<1> DEFINE first(s) == \A i, k \in 1 .. Len(s) :
                          i < k /\ s[k].kind = "player" => s[i].kind = "player"
<1>3. first(execs)
  BY DEF PlayersFirst
<1>4. ASSUME NEW k, Turn(k), Done PROVE first(execs')
  <2>1. execs' = Removed(execs, cursor) /\ cursor \in 1 .. Len(execs)
    BY <1>4, MyTurn DEF Done, Removed
  <2>2. /\ Len(execs') = Len(execs) - 1
        /\ \A i \in 1 .. Len(execs') : execs'[i] = execs[IF i < cursor THEN i ELSE i + 1]
    BY <1>2, <2>1, RemovedList
  <2>3. \A i \in 1 .. Len(execs') : (IF i < cursor THEN i ELSE i + 1) \in 1 .. Len(execs)
    BY <1>2, <2>1, <2>2
  <2>4. ASSUME NEW i \in 1 .. Len(execs'), NEW m \in 1 .. Len(execs'), i < m,
               execs'[m].kind = "player"
        PROVE  execs'[i].kind = "player"
    <3>1. PICK a \in 1 .. Len(execs), b \in 1 .. Len(execs) :
             /\ a = IF i < cursor THEN i ELSE i + 1
             /\ b = IF m < cursor THEN m ELSE m + 1
      BY <2>3
    <3>2. a < b
      BY <2>1, <2>4, <3>1
    <3>3. execs'[i] = execs[a] /\ execs'[m] = execs[b]
      BY <2>2, <3>1
    <3> QED BY <1>3, <2>4, <3>2, <3>3
  <2> QED BY <2>4
<1>5. ASSUME NEW k, Turn(k), NEW j, Stay(j), Alike(Me, j) PROVE first(execs')
  <2>1. execs' = [execs EXCEPT ![cursor] = j] /\ cursor \in 1 .. Len(execs) /\ execs[cursor].kind = j.kind
    BY <1>5, MyTurn DEF Stay, Alike
  <2>2. /\ Len(execs') = Len(execs)
        /\ \A i \in 1 .. Len(execs) : execs'[i] = IF i = cursor THEN j ELSE execs[i]
    BY <1>2, <2>1, ExceptList
  <2>3. \A i \in 1 .. Len(execs) : execs'[i].kind = execs[i].kind
    BY <2>1, <2>2
  <2> QED BY <1>3, <2>2, <2>3
<1>6. ASSUME NEW k, DueInit(k), NEW j, Append1(j), Alike(New1, j) PROVE first(execs')
  <2>1. execs' = Append(execs, j) /\ j.kind # "player"
    BY <1>6, MyInit DEF Append1, Alike, PlayersFirst
  <2>2. /\ Len(execs') = Len(execs) + 1 /\ execs'[Len(execs) + 1] = j
        /\ \A i \in 1 .. Len(execs) : execs'[i] = execs[i]
    BY <1>2, <2>1, AppendList
  <2> QED BY <1>2, <1>3, <2>1, <2>2
<1>7. first(execs')
  BY <1>3, <1>4, <1>5, <1>6, TurnOrNot DEF Stays
<1> QED BY <1>1, <1>7 DEF PlayersFirst
\* Nobody dies but in his own turn, without land.
LEMMA Dying ==
    ASSUME Loop, Loop', Acts, NEW p, ~Dead(p), Dead(p)'
    PROVE  PlayerTurn /\ Me.by = p /\ ~Has(p)
<1>1. PICK j \in Range(execs) : j.kind = "player" /\ j.by = p
  BY AliveIs
<1>2. j \notin Range(execs')
  <2>1. ASSUME j \in Range(execs') PROVE FALSE
    <3>1. PICK i \in 1 .. Len(execs') : execs'[i] = j
      BY <2>1, Listed DEF Loop
    <3> QED BY <1>1, <3>1 DEF Dead, AllJobs
  <2> QED BY <2>1
<1>3. Turn("player") /\ (PlayerTurn \/ DeleteTurn \/ TrainTurn)
  BY <1>1, <1>2, KindKept DEF Kept
<1>4. PlayerTurn
  BY <1>3 DEF Turn, DeleteTurn, TrainTurn
<1>5. PICK i \in 1 .. Len(execs) : execs[i] = j
  BY Listed DEF Loop
<1>6. Done \/ \E k : Stay(k)
  BY <1>4 DEF PlayerTurn
<1>7. i = cursor
  BY <1>2, <1>3, <1>5, <1>6, TurnKept
<1>8. Me = j
  BY <1>5, <1>7 DEF Me
<1>9. ~Stay(Me)
  <2>1. ASSUME Stay(Me) PROVE FALSE
    <3>1. execs' = [execs EXCEPT ![cursor] = j] /\ cursor \in 1 .. Len(execs)
          /\ execs \in Seq(Range(execs))
      BY <1>3, <1>8, <2>1, MyTurn DEF Stay, Loop
    <3>2. j \in Range(execs')
      BY <3>1, ExceptList
    <3> QED BY <1>2, <3>2
  <2> QED BY <2>1
<1> QED BY <1>1, <1>4, <1>8, <1>9 DEF PlayerTurn
\* Who has no land conquers none.
LEMMA LandIsConquered ==
    ASSUME TypeOK, Loop, Acts, NEW p \in Players, Has(p)'
    PROVE  Has(p)
<1>1. CASE NukeTurn
  <2>1. \A t \in Tiles : owner'[t] \in {owner[t], Neutral}
    BY <1>1 DEF NukeTurn, Detonate, TypeOK
  <2> QED BY <2>1, Numbers DEF Has, Land
<1>2. CASE \E x \in todo.landings : Conquer(x)
  <2>1. PICK x \in todo.landings : Conquer(x)
    BY <1>2
  <2>2. x \in Players \X Tiles
    BY PlanFields
  <2>3. owner' = [owner EXCEPT ![x[2]] = x[1]] /\ Has(x[1])
    BY <2>1 DEF Conquer
  <2> QED BY <2>2, <2>3 DEF Has, Land, TypeOK
<1>3. CASE owner' = owner
  BY <1>3 DEF Has, Land
<1> QED BY <1>1, <1>2, <1>3, OwnersKept
\* What is new is not for the dead.
LEMMA BornForTheLiving ==
    ASSUME TypeOK, Loop, Names, PlayersFirst, Passengers, Ghosts, Acts, NEW p \in Players, Dead(p),
           FreeIds # {}, unit'[Fresh].holder = p, unit'[Fresh].type \notin Bombs,
           Lay \/ (HuntTurn /\ Me.unit = NoUnitId) \/ Launch \/ MirvLaunch \/ InitTrain
    PROVE  FALSE
<1>1. Fresh \in UnitIds /\ ~Exists(Fresh)
  BY FreshIsFree
<1>2. unit' # unit
  BY <1>1, Numbers DEF TypeOK, Exists
<1>3. CASE Lay
  BY <1>3, LayUnits DEF Lay, Sites, Has, Ghosts
<1>4. CASE HuntTurn /\ Me.unit = NoUnitId
  <2>1. Turn("hunt") /\ (Me.unit = NoUnitId => FreeIds # {})
    BY <1>4 DEF HuntTurn
  <2>2. Hunter = Fresh /\ WithHunter[Fresh] = New("Missile", Me.by, 0) /\ WithHunter[Fresh].holder = Me.by
    BY <1>4, <2>1, HunterFacts
  <2>3. /\ Me.from \in UnitIds \ FreeIds /\ Me.prey \in UnitIds \ FreeIds
        /\ WithHunter = [v \in UnitIds |-> WithHunter[v]]
    BY <2>1, HunterFacts DEF Sound
  <2>4. Fresh # Me.prey /\ Fresh # Me.from
    BY <2>3, FreshIsFree
  <2>5. unit'[Fresh] = NoUnit \/ (OnItsWay /\ unit' = WithHunter)
    BY <1>1, <1>2, <1>4, <2>2, <2>3, <2>4, HuntTurnIs DEF CalledOffHunt, Struck
  <2>6. OnItsWay /\ Me.by = p
    BY <2>2, <2>5, Numbers DEF NoUnit
  <2>7. unit[Me.from].holder = p
    BY <1>4, <2>1, <2>3, <2>4, <2>6, HunterFacts DEF OnItsWay, Kin
  <2>8. Fits(Me) /\ Me.kind = "hunt"
    BY <2>1, MyTurn DEF Names
  <2>9. unit[Me.from].type \in {"SAM", "none"}
    BY <2>8 DEF Fits
  <2>10. unit[Me.from].type \in Bombs
    BY <2>3, <2>7 DEF Ghosts, HeldBy, OfType
  <2> QED BY <2>9, <2>10 DEF Bombs
<1>5. CASE Launch
  BY <1>5, LaunchUnits DEF Launch, Bombs
<1>6. CASE MirvLaunch
  BY <1>2, <1>6, MirvLaunchUnits DEF Bombs
<1>7. CASE InitTrain
  <2>1. New1.by = p
    BY <1>2, <1>7, InitTrainUnits
  <2>2. New1 \in Range(uninit) /\ New1.kind = "train"
    BY <1>7, MyInit DEF InitTrain
  <2> QED BY <2>1, <2>2 DEF Passengers
<1> QED BY <1>3, <1>4, <1>5, <1>6, <1>7
LEMMA GhostsStep ==
    ASSUME TypeOK, Loop, Names, Loop', PlayersFirst, Passengers, Ghosts, Acts
    PROVE  Ghosts'
<1> SUFFICES ASSUME NEW p \in Players, Dead(p)'
             PROVE  ~Has(p)' /\ (HeldBy(p) \subseteq OfType(Bombs))'
  BY DEF Ghosts
<1>1. ~Has(p)'
  BY Dying, LandIsConquered DEF Ghosts
<1>2. SUFFICES ASSUME NEW u \in UnitIds, unit'[u].holder = p PROVE unit'[u].type \in Bombs
  BY <1>1 DEF HeldBy, OfType
<1>3. NoUnit.holder # p
  BY Numbers DEF NoUnit
<1>4. CASE ~Dead(p)
  <2>1. PlayerTurn /\ Me.by = p /\ ~Has(p)
    BY <1>4, Dying
  <2>2. unit' = Buried(Reconciled(p), p)
    BY <2>1 DEF PlayerTurn
  <2> QED BY <1>2, <1>3, <2>2 DEF Buried
<1>5. CASE Dead(p)
  <2>1. ~Has(p) /\ HeldBy(p) \subseteq OfType(Bombs)
    BY <1>5 DEF Ghosts
  <2>2. ASSUME NEW F, Follows(unit[u], unit'[u], F) PROVE unit'[u].type \in Bombs
    <3>1. unit'[u] # NoUnit
      BY <1>2, <1>3
    <3>2. CASE unit'[u].holder = unit[u].holder
      BY <1>2, <2>1, <2>2, <3>1, <3>2 DEF HeldBy, OfType, Follows
    <3>3. CASE unit'[u].holder # unit[u].holder
      <4>1. unit[u].type \in Structures /\ p = owner[unit[u].tile]
        BY <1>2, <2>2, <3>1, <3>3 DEF Follows
      <4> QED BY <2>1, <4>1 DEF TypeOK, Has, Land
    <3> QED BY <3>2, <3>3
  <2>3. CASE InitDelete
    BY <2>2, <2>3, InitDeleteUnits DEF Onward
  <2>4. CASE /\ FreeIds # {} /\ u = Fresh
             /\ Lay \/ (HuntTurn /\ Me.unit = NoUnitId) \/ Launch \/ MirvLaunch \/ InitTrain
    BY <1>2, <1>5, <2>4, BornForTheLiving
  <2> QED BY <2>2, <2>3, <2>4, UnitsGo
<1> QED BY <1>4, <1>5
\* How the loop goes on, while a train waits to be built.
LEMMA PhaseGoes ==
    ASSUME Loop, Acts
    PROVE  \/ phase = "orders" \/ phase' = "inits"
           \/ phase' = "orders" /\ uninit' = <<>>
           \/ phase = "turns" /\ phase' = "turns" /\ cursor' = cursor /\ execs' = execs
           \/ \E k : phase' = "turns" /\ Turn(k) /\ Stays
<1>1. CASE StartTick \/ StartInits \/ EndTick
  BY <1>1 DEF StartTick, StartInits, EndTick, OpenTick, AllHadTurns, CloseTick
<1>2. CASE InitPlain \/ InitMirv \/ InitUpgrade \/ InitDelete \/ InitStation \/ InitTrain
  <2>1. \E k : DueInit(k)
    BY <1>2 DEF InitPlain, InitMirv, InitUpgrade, InitDelete, InitStation, InitTrain
  <2>2. phase' = phase
    BY <1>2 DEF InitPlain, InitMirv, InitUpgrade, InitDelete, InitStation, InitTrain, Initing
  <2> QED BY <2>1, <2>2 DEF DueInit
<1>3. CASE Outside
  <2>1. ASSUME NEW x, Order(x) \/ Conquer(x) \/ Ally(x) \/ Part(x)
        PROVE  \/ phase = "orders"
               \/ phase \in {"turns", "inits"} /\ phase' = phase /\ cursor' = cursor /\ execs' = execs
    BY <2>1 DEF Order, Conquer, Ally, Part
  <2> QED BY <1>3, <2>1 DEF Outside
<1>4. CASE \/ PlayerTurn \/ Delegate \/ Lay \/ GiveUp \/ Build \/ PostTurn \/ SiloTurn \/ SamTurn
           \/ HuntTurn \/ Launch \/ Fizzle \/ NukeTurn \/ MirvLaunch \/ MirvTurn \/ DeleteTurn
  <2>1. Tick
    BY <1>4 DEF PlayerTurn, Delegate, Lay, GiveUp, Build, PostTurn, SiloTurn, SamTurn, HuntTurn,
       Launch, Fizzle, NukeTurn, MirvLaunch, MirvTurn, DeleteTurn
  <2>2. \E k : Turn(k)
    BY <1>4 DEF PlayerTurn, Delegate, Lay, GiveUp, Build, PostTurn, SiloTurn, SamTurn, HuntTurn,
       Launch, Fizzle, NukeTurn, MirvLaunch, MirvTurn, DeleteTurn
  <2> QED BY <1>1, <1>3, <2>1, <2>2, TurnOrNot DEF Tick, Turn, Idle, DueInit
<1>5. CASE CityTurn \/ PortJoins \/ FactoryTurn \/ StationTurn \/ TrainTurn \/ RecomputeTurn
  <2>1. phase' = phase
    BY <1>5 DEF CityTurn, PortJoins, FactoryTurn, StationTurn, TrainTurn, RecomputeTurn, Tick
  <2>2. \E k : Turn(k)
    BY <1>5 DEF CityTurn, PortJoins, FactoryTurn, StationTurn, TrainTurn, RecomputeTurn
  <2> QED BY <1>1, <1>3, <2>1, <2>2, TurnOrNot DEF Turn, Idle, DueInit
<1> QED BY <1>1, <1>2, <1>3, <1>4, <1>5 DEF Acts, Engine
LEMMA HadTurnsStep ==
    ASSUME Loop, PlayersHadTurns, Acts, uninit' # <<>>
    PROVE  PlayersHadTurns' /\ ~PlayerTurn
<1>1. execs \in Seq(Range(execs)) /\ Len(execs) \in Nat /\ phase # "orders"
  BY Listed DEF Loop, PlayersHadTurns
<1>2. ~PlayerTurn
  <2>1. ASSUME PlayerTurn PROVE FALSE
    <3>1. Turn("player") /\ cursor \in 1 .. Len(execs)
      BY <2>1, MyTurn DEF PlayerTurn
    <3> QED BY <3>1 DEF Turn, PlayersHadTurns
  <2> QED BY <2>1
<1>3. ASSUME NEW k, Turn(k), Stays, phase' = "turns" PROVE PlayersHadTurns'
  <2>1. /\ cursor \in 1 .. Len(execs) /\ execs[cursor].kind # "player" /\ Me = execs[cursor]
        /\ \A i \in cursor .. Len(execs) : execs[i].kind # "player"
    BY <1>3, MyTurn DEF PlayersHadTurns, Turn
  <2>2. CASE Done
    <3>1. execs' = Removed(execs, cursor) /\ cursor' = cursor
      BY <2>2 DEF Done, Removed
    <3>2. /\ Len(execs') = Len(execs) - 1
          /\ \A i \in 1 .. Len(execs') : execs'[i] = execs[IF i < cursor THEN i ELSE i + 1]
      BY <1>1, <2>1, <3>1, RemovedList
    <3>3. ASSUME NEW i \in cursor .. Len(execs') PROVE execs'[i].kind # "player"
      <4>1. i \in 1 .. Len(execs') /\ i + 1 \in cursor .. Len(execs)
        BY <1>1, <2>1, <3>2
      <4>2. execs'[i] = execs[i + 1]
        BY <2>1, <3>2, <4>1
      <4> QED BY <2>1, <4>1, <4>2
    <3> QED BY <1>3, <3>1, <3>3 DEF PlayersHadTurns
  <2>3. ASSUME NEW j, Stay(j) PROVE PlayersHadTurns'
    <3>1. execs' = [execs EXCEPT ![cursor] = j] /\ cursor' = cursor + 1
      BY <2>3 DEF Stay
    <3>2. /\ Len(execs') = Len(execs)
          /\ \A i \in 1 .. Len(execs) : execs'[i] = IF i = cursor THEN j ELSE execs[i]
      BY <1>1, <2>1, <3>1, ExceptList
    <3>3. ASSUME NEW i \in cursor + 1 .. Len(execs') PROVE execs'[i].kind # "player"
      <4>1. i \in 1 .. Len(execs) /\ i # cursor /\ i \in cursor .. Len(execs)
        BY <1>1, <2>1, <3>2
      <4>2. execs'[i] = execs[i]
        BY <3>2, <4>1
      <4> QED BY <2>1, <4>1, <4>2
    <3> QED BY <1>3, <3>1, <3>3 DEF PlayersHadTurns
  <2> QED BY <1>3, <2>2, <2>3 DEF Stays
<1>4. CASE phase = "turns" /\ phase' = "turns" /\ cursor' = cursor /\ execs' = execs
  BY <1>2, <1>4 DEF PlayersHadTurns
<1>5. CASE phase' = "inits"
  BY <1>2, <1>5 DEF PlayersHadTurns
<1> QED BY <1>1, <1>2, <1>3, <1>4, <1>5, PhaseGoes
LEMMA PassengersStep ==
    ASSUME TypeOK, Loop, Names, Loop', PlayersFirst, Passengers, Ghosts, Acts
    PROVE  Passengers'
<1> SUFFICES ASSUME NEW j \in Range(uninit'), j.kind = "train"
             PROVE  PlayersHadTurns' /\ ~Dead(j.by)'
  BY DEF Passengers
<1>1. uninit' # <<>>
  BY DEF Range
<1>2. ASSUME StationTurn, Exists(Me.unit), j.by = unit[Me.unit].holder
      PROVE  PlayersHadTurns /\ ~Dead(j.by)
  <2>1. Turn("station")
    BY <1>2 DEF StationTurn
  <2>2. /\ phase = "turns" /\ Me \in Jobs /\ Me.kind = "station" /\ JobOK(Me) /\ Me = execs[cursor]
        /\ cursor \in 1 .. Len(execs) /\ Len(execs) \in Nat
    BY <2>1, MyTurn
  <2>3. PlayersHadTurns
    BY <2>2 DEF PlayersFirst, PlayersHadTurns
  <2>4. Me.unit \in UnitIds /\ Me.unit # NoUnitId
    BY <2>2, Numbers DEF JobOK
  <2>5. unit[Me.unit].type \in {"City", "Factory", "Port"} /\ unit[Me.unit].holder \in Players
    BY <1>2, <2>2, <2>4, HolderIsPlayer DEF Names, Fits, Crew
  <2>6. ~Dead(j.by)
    BY <1>2, <2>4, <2>5 DEF Ghosts, HeldBy, OfType, Bombs
  <2> QED BY <2>3, <2>6
<1>3. PlayersHadTurns /\ ~Dead(j.by)
  BY <1>2, NewKinds DEF Passengers, FromStation
<1>4. PlayersHadTurns' /\ ~PlayerTurn
  BY <1>1, <1>3, HadTurnsStep
<1> QED BY <1>3, <1>4, Dying

\* When the PlayerExecution of a player is over, nobody but missiles in flight is his, and
\* nothing that he ordered, that hunts for him or that waits for a place of his comes to be.
THEOREM TheDeadHoldNothingHolds == Spec => []TheDeadHoldNothing
<1> DEFINE Inv == PlayersFirst /\ Passengers /\ Ghosts
<1>1. RailInit => Inv
  <2> SUFFICES ASSUME RailInit PROVE Inv
    OBVIOUS
  <2>1. PICK n \in Nat : /\ Players = 1 .. n /\ n < Len(execs)
                         /\ \A p \in 1 .. n : execs[p].kind = "player" /\ execs[p].by = p
                         /\ \A i \in 1 .. Len(execs) : i > n => execs[i].kind # "player"
    BY FirstJobs
  <2>2. uninit = <<>> /\ Len(execs) \in Nat
    BY FirstJobs, Listed
  <2>3. PlayersFirst /\ Passengers
    BY <2>1, <2>2 DEF PlayersFirst, Passengers, Range
  <2>4. \A p \in Players : ~Dead(p)
    BY <2>1, <2>2 DEF Dead, AllJobs
  <2> QED BY <2>3, <2>4 DEF Ghosts
<1>2. Base /\ Base' /\ Inv /\ [RailNext]_railVars => Inv'
  <2>1. ASSUME Base, Base', Inv, Acts PROVE Inv'
    BY <2>1, PlayersFirstStep, PassengersStep, GhostsStep DEF Base
  <2>2. ASSUME Inv, UNCHANGED vars PROVE Inv'
    BY <2>2 DEF vars, loopVars, PlayersFirst, Passengers, PlayersHadTurns, Ghosts, Dead, AllJobs, Has,
       Land, HeldBy, OfType
  <2> QED BY <2>1, <2>2, NextActs
<1>3. Inv => TheDeadHoldNothing
  BY DEF Ghosts, TheDeadHoldNothing
<1> QED BY <1>1, <1>2, <1>3, BaseHolds, PTL DEF Spec

-----------------------------------------------------------------------------
(* Bombs and alliances. *)

LEMMA ThreatsStay ==
    ASSUME owner' = owner, Standing' \subseteq Standing, NEW t, NEW q,
           q \in Threatened(owner', unit', t)
    PROVE  q \in Threatened(owner, unit, t)
<1>1. q # Neutral
  BY DEF Threatened
<1>2. CASE \E s \in Zone[t] : q = owner[s]
  BY <1>1, <1>2 DEF Threatened
<1>3. ASSUME NEW v \in UnitIds, unit'[v].type \in Structures, unit'[v].tile \in Zone[t],
             q = unit'[v].holder
      PROVE  q \in Threatened(owner, unit, t)
  <2>1. <<q, unit'[v].tile>> \in Standing'
    BY <1>3 DEF Standing, OfType
  <2>2. PICK u \in OfType(Structures) : <<q, unit'[v].tile>> = <<unit[u].holder, unit[u].tile>>
    BY <2>1 DEF Standing
  <2>3. u \in UnitIds /\ unit[u].type \in Structures /\ unit[u].holder = q /\ unit[u].tile \in Zone[t]
    BY <1>3, <2>2 DEF OfType
  <2> QED BY <1>1, <2>3 DEF Threatened
<1> QED BY <1>2, <1>3 DEF Threatened
\* A bomb is what it was, but for a new one.
LEMMA BombsAreLaunched ==
    ASSUME TypeOK, Loop, Acts, NEW u \in UnitIds, unit'[u].type = "Bomb"
    PROVE  \/ unit[u].type = "Bomb" /\ unit[u].holder = unit'[u].holder /\ unit[u].tile = unit'[u].tile
           \/ /\ FreeIds # {} /\ u = Fresh /\ Launch /\ Me.type = "Bomb"
              /\ unit'[u].holder = Me.by /\ unit'[u].tile = Me.tile
<1>1. unit'[u] # NoUnit
  BY DEF NoUnit
<1>2. ASSUME NEW F, Follows(unit[u], unit'[u], F)
      PROVE  unit[u].type = "Bomb" /\ unit[u].holder = unit'[u].holder /\ unit[u].tile = unit'[u].tile
  BY <1>1, <1>2 DEF Follows, Structures
<1>3. CASE InitDelete
  BY <1>2, <1>3, InitDeleteUnits DEF Onward
<1>4. CASE unit' = unit
  BY <1>4
<1>5. CASE u = Fresh /\ Lay
  BY <1>5, LayUnits DEF Lay, Structures
<1>6. CASE u = Fresh /\ HuntTurn /\ Me.unit = NoUnitId /\ FreeIds # {}
  <2>1. Turn("hunt")
    BY <1>6 DEF HuntTurn
  <2>2. Hunter = Fresh /\ WithHunter[Fresh] = New("Missile", Me.by, 0)
    BY <1>6, <2>1, HunterFacts
  <2>3. /\ WithHunter[Fresh].type = "Missile" /\ Me.prey # Fresh
        /\ WithHunter = [v \in UnitIds |-> WithHunter[v]]
    BY <1>6, <2>1, <2>2, HunterFacts, FreshIsFree, NewFields DEF Sound
  <2>4. unit' = unit \/ unit'[u] = NoUnit \/ unit'[u] = WithHunter[Fresh]
    BY <1>6, <2>2, <2>3, HuntTurnIs DEF CalledOffHunt, Struck
  <2> QED BY <1>1, <1>4, <2>3, <2>4
<1>7. CASE u = Fresh /\ Launch
  BY <1>7, LaunchUnits
<1>8. CASE u = Fresh /\ (MirvLaunch \/ InitTrain)
  BY <1>4, <1>8, MirvLaunchUnits, InitTrainUnits
<1> QED BY <1>2, <1>3, <1>5, <1>6, <1>7, <1>8, UnitsGo
LEMMA ThreatStep ==
    ASSUME TypeOK, Loop, Acts, owner' = owner, Standing' \subseteq Standing
    PROVE  Menaces' \subseteq Menaces
<1> SUFFICES ASSUME NEW u \in UnitIds, NEW q \in Humans, unit'[u].type = "Bomb",
                    unit'[u].holder \in Humans, {unit'[u].holder, q} \in allies',
                    q \in Threatened(owner', unit', unit'[u].tile)
             PROVE  <<u, q>> \in Menaces
  BY DEF Menaces, OfType
<1>1. q \in Threatened(owner, unit, unit'[u].tile)
  BY ThreatsStay
<1>2. CASE /\ FreeIds # {} /\ u = Fresh /\ Launch /\ Me.type = "Bomb"
           /\ unit'[u].holder = Me.by /\ unit'[u].tile = Me.tile
  <2>1. allies' = allies \ Broken(Me.by, Me.tile)
    BY <1>2 DEF Launch
  <2> QED BY <1>1, <1>2, <2>1 DEF Broken
<1>3. CASE unit[u].type = "Bomb" /\ unit[u].holder = unit'[u].holder /\ unit[u].tile = unit'[u].tile
  <2>1. CASE {unit[u].holder, q} \in allies
    BY <1>1, <1>3, <2>1 DEF Menaces, OfType
  <2>2. CASE {unit[u].holder, q} \notin allies
    <3>1. PICK x \in todo.pairs : Ally(x)
      BY <1>3, <2>2, AlliesKept
    <3>2. x = {unit[u].holder, q} /\ x \subseteq Humans
      BY <1>3, <2>2, <3>1 DEF Ally
    <3>3. unit' = Without(UNION {CalledOff(a, b) : a, b \in x})
      BY <3>1, <3>2 DEF Ally
    <3>4. u \in CalledOff(unit[u].holder, q)
      BY <1>1, <1>3 DEF CalledOff, Aimed
    <3>5. unit'[u] = NoUnit
      BY <3>2, <3>3, <3>4 DEF Without
    <3> QED BY <3>5 DEF NoUnit
  <2> QED BY <2>1, <2>2
<1> QED BY <1>2, <1>3, BombsAreLaunched

\* A human's bomb comes to threaten his human ally only when land or a structure changes
\* hands: whom a launch threatens is no ally any more, and whom an alliance is made with is
\* not threatened by what is in flight.
THEOREM NoThreatToAnAllyHolds == Spec => NoThreatToAnAlly
<1>1. Base /\ [RailNext]_railVars =>
         [owner' = owner /\ Standing' \subseteq Standing => Menaces' \subseteq Menaces]_vars
  <2>1. ASSUME Base, Acts
        PROVE  owner' = owner /\ Standing' \subseteq Standing => Menaces' \subseteq Menaces
    BY <2>1, ThreatStep DEF Base
  <2> QED BY <2>1, NextActs
<1> QED BY <1>1, BaseHolds, PTL DEF Spec, NoThreatToAnAlly

-----------------------------------------------------------------------------
(* Silos and their slots. *)

Full(v) == v.type \in Launchers /\ Len(v.queue) > v.level
\* From v to w nothing becomes overfull.
NoFuller(v, w) == Full(w) => Full(v)
\* Neither what a unit is nor its missiles are touched.
Carries(v, w) == w = NoUnit \/ (w.type = v.type /\ w.queue = v.queue /\ w.level = v.level)
LEMMA CarriesFills == \A v, w : Carries(v, w) => NoFuller(v, w)
  BY DEF Carries, NoFuller, Full, NoUnit, Launchers
LEMMA EditsCarry ==
    ASSUME NEW v \in UnitType, NEW n
    PROVE  /\ Carries(v, v) /\ Carries(v, NoUnit)
           /\ Carries(v, [v EXCEPT !.building = n]) /\ Carries(v, [v EXCEPT !.locked = n])
           /\ Carries(v, [v EXCEPT !.doom = n])
           /\ \A m : Carries(v, [v EXCEPT !.holder = n, !.doom = m])
  BY DEF UnitType, Carries
LEMMA EndTickFills ==
    ASSUME TypeOK, EndTick, NEW u \in UnitIds
    PROVE  NoFuller(unit[u], unit'[u])
<1> DEFINE v == unit[u]
<1>1. v \in UnitType
  BY DEF TypeOK
<1>2. unit'[u].type = v.type /\ unit'[u].level = v.level
      /\ unit'[u].queue = [i \in DOMAIN v.queue |-> Older(v.queue[i], Cooldown)]
  BY <1>1 DEF EndTick, UnitType
<1>3. PICK q, r : q \in Seq(0 .. Cooldown) /\ q = v.queue /\ r = unit'[u].queue
  BY <1>1 DEF UnitType
<1>4. r = [i \in 1 .. Len(q) |-> Older(q[i], Cooldown)] /\ Len(q) \in Nat
  BY <1>2, <1>3
<1>5. Len(r) = Len(q)
  BY <1>4
<1> QED BY <1>2, <1>3, <1>5 DEF NoFuller, Full
LEMMA PlayerTurnCarries ==
    ASSUME TypeOK, PlayerTurn, NEW u \in UnitIds
    PROVE  Carries(unit[u], unit'[u])
<1>1. unit[u] \in UnitType
  BY DEF TypeOK
<1>2. PICK p : unit' = Reconciled(p) \/ unit' = Buried(Reconciled(p), p)
  BY DEF PlayerTurn
<1>3. unit'[u] \in {unit[u], NoUnit, Captured(u)}
  BY <1>2 DEF Reconciled, Buried
<1>4. Carries(unit[u], Captured(u))
  BY <1>1, EditsCarry DEF Captured
<1>5. Carries(unit[u], unit[u]) /\ Carries(unit[u], NoUnit)
  BY <1>1, EditsCarry
<1> QED BY <1>3, <1>4, <1>5
LEMMA BuildCarries ==
    ASSUME TypeOK, Loop, Build, NEW u \in UnitIds
    PROVE  Carries(unit[u], unit'[u])
<1>1. unit[u] \in UnitType /\ unit \in [UnitIds -> UnitType]
  BY DEF TypeOK
<1>2. unit' = unit \/ unit' = [unit EXCEPT ![Me.unit].building = FALSE]
  BY DEF Build
<1>3. unit'[u] = unit[u] \/ unit'[u] = [unit[u] EXCEPT !.building = FALSE]
  BY <1>1, <1>2
<1> QED BY <1>1, <1>3, EditsCarry
LEMMA SamTurnFills ==
    ASSUME TypeOK, Loop, SamTurn, NEW u \in UnitIds
    PROVE  NoFuller(unit[u], unit'[u])
<1>1. unit[u] \in UnitType /\ Sound(unit)
  BY UnitsSound DEF TypeOK
<1>2. CASE unit' = unit
  BY <1>2 DEF NoFuller
<1>3. CASE Exists(Me.unit)
  <2> DEFINE s == Me.unit
             un == Reloaded(s)
  <2>1. s \in UnitIds
    BY MyTurn DEF SamTurn, JobOK, Runners
  <2>2. /\ Sound(un) /\ \A v \in UnitIds : v # s => un[v] = unit[v]
        /\ un[s].type = unit[s].type /\ un[s].level = unit[s].level
        /\ Len(un[s].queue) <= Len(unit[s].queue)
    BY <1>1, <2>1, ReloadedSound
  <2>3. un[s] \in UnitType /\ un[s].type # "none"
    BY <1>3, <2>1, <2>2 DEF Sound, Apt, Exists
  <2>4. un[s].level \in Nat /\ unit[s].level \in Nat /\ un[s].queue \in Seq(0 .. Cooldown)
        /\ unit[s].queue \in Seq(0 .. Cooldown)
    BY <1>1, <2>1, <2>3, FieldsOf DEF TypeOK
  <2>5. NoFuller(unit[u], un[u])
    <3>1. CASE u = s
      BY <2>2, <2>4, <3>1 DEF NoFuller, Full
    <3>2. CASE u # s
      BY <2>2, <3>2 DEF NoFuller
    <3> QED BY <3>1, <3>2
  <2>6. /\ \A v \in UnitIds : v # s => Launched(un, s)[v] = un[v]
        /\ Launched(un, s)[s].type = un[s].type /\ Launched(un, s)[s].level = un[s].level
        /\ Launched(un, s)[s].queue = Append(un[s].queue, 0)
    BY <2>1, <2>2, <2>3, LaunchedSound
  <2>7. ASSUME Len(un[s].queue) # un[s].level PROVE NoFuller(unit[u], Launched(un, s)[u])
    <3>1. CASE u = s
      <4>1. Len(Launched(un, s)[s].queue) = Len(un[s].queue) + 1
        BY <2>4, <2>6
      <4>2. Len(un[s].queue) \in Nat /\ Len(unit[s].queue) \in Nat
        BY <2>4
      <4>3. ASSUME Len(un[s].queue) + 1 > un[s].level PROVE Len(unit[s].queue) > unit[s].level
        BY <2>2, <2>4, <2>7, <4>2, <4>3
      <4> QED BY <2>2, <2>6, <3>1, <4>1, <4>3 DEF NoFuller, Full
    <3>2. CASE u # s
      BY <2>5, <2>6, <3>2
    <3> QED BY <3>1, <3>2
  <2> HIDE DEF un
  <2>8. \/ unit' = un
        \/ Len(un[s].queue) # un[s].level /\ unit'[u] \in {NoUnit, Launched(un, s)[u]}
        \/ /\ Len(un[s].queue) # un[s].level
           /\ \E v \in Prey(un[s].holder) \cup UnitIds : unit' = [Launched(un, s) EXCEPT ![v].locked = TRUE]
    BY <1>3 DEF SamTurn, Gone, un, Prey, Enemies, OfType
  <2>9. Sound(Launched(un, s))
    BY <2>1, <2>2, <2>3, LaunchedSound
  <2>10. ASSUME NEW v, unit' = [Launched(un, s) EXCEPT ![v].locked = TRUE]
         PROVE  Carries(Launched(un, s)[u], unit'[u])
    <3>1. PICK x : x = Launched(un, s)
      OBVIOUS
    <3>2. x \in [UnitIds -> UnitType] /\ x[u] \in UnitType
      BY <2>9, <3>1, SoundTypes
    <3>3. unit'[u] = x[u] \/ unit'[u] = [x[u] EXCEPT !.locked = TRUE]
      BY <2>10, <3>1, <3>2
    <3>4. Carries(x[u], x[u]) /\ Carries(x[u], [x[u] EXCEPT !.locked = TRUE])
      BY <3>2, EditsCarry
    <3>5. Carries(x[u], unit'[u])
      BY <3>3, <3>4
    <3> QED BY <3>1, <3>5
  <2>11. ~Full(NoUnit)
    BY DEF Full, NoUnit, Launchers
  <2> QED BY <2>5, <2>7, <2>8, <2>10, <2>11, CarriesFills DEF NoFuller
<1> QED BY <1>2, <1>3 DEF SamTurn, Gone
LEMMA HuntTurnCarries ==
    ASSUME TypeOK, Loop, HuntTurn, NEW u \in UnitIds
    PROVE  Carries(unit[u], unit'[u]) \/ ~Full(unit'[u])
<1>1. Turn("hunt") /\ (Me.unit = NoUnitId => FreeIds # {})
  BY DEF HuntTurn
<1>2. PICK x : x = WithHunter
  OBVIOUS
<1>3. /\ x = [v \in UnitIds |-> x[v]] /\ x \in [UnitIds -> UnitType]
      /\ Hunter \in UnitIds /\ \A v \in Kin : x[v] = unit[v]
  BY <1>1, <1>2, HunterFacts, SoundTypes DEF Sound
<1>4. unit'[u] \in {unit[u], NoUnit, x[u], [x[u] EXCEPT !.locked = FALSE]}
  BY <1>2, <1>3, HuntTurnIs DEF CalledOffHunt, Struck
<1>5. CASE u \in Kin
  <2>1. unit[u] \in UnitType /\ x[u] = unit[u]
    BY <1>3, <1>5 DEF TypeOK
  <2>2. /\ Carries(unit[u], unit[u]) /\ Carries(unit[u], NoUnit)
        /\ Carries(unit[u], [unit[u] EXCEPT !.locked = FALSE])
    BY <2>1, EditsCarry
  <2> QED BY <1>4, <2>1, <2>2
<1>6. CASE u \notin Kin
  <2>1. u = Fresh /\ Me.unit = NoUnitId
    BY <1>6 DEF Kin
  <2>2. x[u] = New("Missile", Me.by, 0)
    BY <1>1, <1>2, <2>1, HunterFacts
  <2>3. x[u].type = "Missile" /\ unit[u].type = "none"
    BY <1>1, <2>1, <2>2, NewFields, FreshIsFree DEF Exists
  <2>4. [x[u] EXCEPT !.locked = FALSE].type = "Missile"
    BY <1>3, <2>3 DEF UnitType
  <2>5. unit'[u].type \in {"none", "Missile"}
    <3>1. PICK y : y = [x[u] EXCEPT !.locked = FALSE]
      OBVIOUS
    <3>2. unit'[u] \in {unit[u], NoUnit, x[u], y} /\ y.type = "Missile"
      BY <1>4, <2>4, <3>1
    <3> QED BY <2>3, <3>2 DEF NoUnit
  <2> QED BY <2>5 DEF Full, Launchers
<1> QED BY <1>5, <1>6
\* A unit that was not there holds no missiles, and one that was is as it was.
LEMMA BuiltFills ==
    ASSUME TypeOK, FreeIds # {}, NEW w, ~Full(w), unit' = [unit EXCEPT ![Fresh] = w], NEW u \in UnitIds
    PROVE  NoFuller(unit[u], unit'[u])
<1>1. unit'[u] = IF u = Fresh THEN w ELSE unit[u]
  BY DEF TypeOK
<1> QED BY <1>1 DEF NoFuller
LEMMA LayFills ==
    ASSUME TypeOK, Loop, Lay, NEW u \in UnitIds
    PROVE  NoFuller(unit[u], unit'[u])
<1>1. FreeIds # {} /\ unit'[Fresh].queue = <<>> /\ unit'[Fresh].level = 1
  BY LayUnits
<1>2. u # Fresh => unit'[u] = unit[u]
  BY DEF Lay, TypeOK
<1> QED BY <1>1, <1>2 DEF NoFuller, Full
LEMMA UpgradeFills ==
    ASSUME TypeOK, Loop, InitUpgrade, NEW u \in UnitIds
    PROVE  NoFuller(unit[u], unit'[u])
<1>1. unit[u] \in UnitType
  BY DEF TypeOK
<1>2. unit' = unit \/ unit' = Upgraded(New1.unit)
  BY DEF InitUpgrade
<1>3. CASE unit'[u] = unit[u]
  BY <1>3 DEF NoFuller
<1>4. CASE u = New1.unit /\ unit' = Upgraded(u)
  <2>1. /\ unit'[u].type = unit[u].type /\ unit'[u].level = unit[u].level + 1
        /\ unit'[u].queue = IF unit[u].type \in Launchers THEN Append(unit[u].queue, 0)
                            ELSE unit[u].queue
    BY <1>1, <1>4 DEF Upgraded, TypeOK, UnitType
  <2>2. PICK q, n : q = unit[u].queue /\ n = unit[u].level
    OBVIOUS
  <2>3. q \in Seq(0 .. Cooldown) /\ n \in Nat /\ Len(Append(q, 0)) = Len(q) + 1 /\ Len(q) \in Nat
    BY <1>1, <2>2, FieldsOf
  <2> QED BY <2>1, <2>2, <2>3 DEF NoFuller, Full
<1>5. unit' = unit \/ u = New1.unit \/ unit'[u] = unit[u]
  BY <1>2 DEF Upgraded, TypeOK
<1> QED BY <1>2, <1>3, <1>4, <1>5
LEMMA InitDeleteCarries ==
    ASSUME TypeOK, Loop, InitDelete, NEW u \in UnitIds
    PROVE  Carries(unit[u], unit'[u])
<1>1. unit[u] \in UnitType /\ unit \in [UnitIds -> UnitType]
  BY DEF TypeOK
<1>2. unit' = unit \/ unit' = [unit EXCEPT ![New1.unit].doom = 0]
  BY DEF InitDelete
<1>3. unit'[u] = unit[u] \/ unit'[u] = [unit[u] EXCEPT !.doom = 0]
  BY <1>1, <1>2
<1>4. Carries(unit[u], unit[u]) /\ Carries(unit[u], [unit[u] EXCEPT !.doom = 0])
  BY <1>1, EditsCarry
<1> QED BY <1>3, <1>4
\* The launch of a bomb leaves no silo with more than its slots; a warhead may, at the silo
\* that it is taken to come from.
LEMMA LaunchFills ==
    ASSUME TypeOK, Loop, Launch, NEW u \in UnitIds
    PROVE  NoFuller(unit[u], unit'[u]) \/ Falling(unit', u) \ Falling(unit, u) # {}
<1>1. /\ FreeIds # {} /\ Fresh \in UnitIds /\ unit[Fresh].type = "none"
      /\ JobOK(Me) /\ Me.kind = "nuke"
  BY FreshIsFree, MyTurn DEF Launch, Exists
<1>2. PICK x, w, f : x = [unit EXCEPT ![f] = w] /\ f = Fresh /\ w = New(Me.type, Me.by, Me.tile)
  OBVIOUS
<1>3. Apt(w) /\ w.type = Me.type /\ w.type \in {"Bomb", "Warhead"} /\ w.holder = Me.by /\ w.tile = Me.tile
  <2>1. Me.type \in {"Bomb", "Warhead"} /\ Me.type \in UnitTypes /\ Me.by \in Players /\ Me.tile \in Tiles
    BY <1>1 DEF JobOK, UnitTypes, Bombs
  <2>2. Apt(w)
    BY <1>2, <2>1, NewSound DEF Structures
  <2> QED BY <1>2, <2>1, <2>2, NewFields
<1>4. /\ Sound(x) /\ x[f] = w /\ \A v \in UnitIds : v # f => x[v] = unit[v]
  <2>1. f \in UnitIds /\ Apt(w) /\ Sound(unit)
    BY <1>1, <1>2, <1>3, UnitsSound
  <2>2. /\ Sound([unit EXCEPT ![f] = w]) /\ [unit EXCEPT ![f] = w][f] = w
        /\ \A v \in UnitIds : v # f => [unit EXCEPT ![f] = w][v] = unit[v]
    BY <2>1, WrittenSound
  <2>3. x = [unit EXCEPT ![f] = w]
    BY <1>2
  <2> QED BY <2>2, <2>3
<1>5. NoFuller(unit[u], x[u])
  BY <1>3, <1>4 DEF NoFuller, Full, Launchers
<1>6. \/ unit' = x
      \/ \E s \in HeldBy(Me.by) \cap OfType({"Silo"}) :
            unit' = Launched(x, s) /\ (~InCooldown(s) \/ (Me.type = "Warhead" /\ unit[s].tile = Me.tile))
  <2>1. x = [unit EXCEPT ![Fresh] = New(Me.type, Me.by, Me.tile)]
    BY <1>2
  <2> QED BY <2>1 DEF Launch, Ready, On
<1>7. ASSUME NEW s \in HeldBy(Me.by) \cap OfType({"Silo"}), unit' = Launched(x, s),
             ~InCooldown(s) \/ (Me.type = "Warhead" /\ unit[s].tile = Me.tile)
      PROVE  NoFuller(unit[u], unit'[u]) \/ Falling(unit', u) \ Falling(unit, u) # {}
  <2>1. s \in UnitIds /\ unit[s].type = "Silo" /\ unit[s].holder = Me.by /\ s # f /\ x[s] = unit[s]
    BY <1>1, <1>2, <1>4, <1>7 DEF HeldBy, OfType
  <2>2. /\ \A v \in UnitIds : v # s => unit'[v] = x[v]
        /\ unit'[s].type = "Silo" /\ unit'[s].tile = unit[s].tile /\ unit'[s].holder = Me.by
        /\ unit'[s].level = unit[s].level /\ unit'[s].queue = Append(unit[s].queue, 0)
    BY <1>4, <1>7, <2>1, LaunchedSound
  <2>3. CASE u # s
    BY <1>5, <2>2, <2>3
  <2>4. CASE u = s /\ ~InCooldown(s)
    <3>1. PICK q, n : q = unit[s].queue /\ n = unit[s].level
      OBVIOUS
    <3>2. q \in Seq(0 .. Cooldown) /\ n \in Nat /\ Len(Append(q, 0)) = Len(q) + 1 /\ Len(q) \in Nat
      BY <2>1, <3>1, FieldsOf DEF TypeOK
    <3>3. Len(q) # n
      BY <2>4, <3>1 DEF InCooldown
    <3> QED BY <2>1, <2>2, <2>4, <3>1, <3>2, <3>3 DEF NoFuller, Full
  <2>5. CASE u = s /\ Me.type = "Warhead" /\ unit[s].tile = Me.tile
    <3>1. unit'[f] = w
      BY <1>1, <1>2, <1>4, <2>1, <2>2
    <3>2. f \in Falling(unit', u)
      BY <1>1, <1>2, <1>3, <2>2, <2>5, <3>1 DEF Falling
    <3>3. f \notin Falling(unit, u)
      BY <1>1, <1>2 DEF Falling
    <3> QED BY <3>2, <3>3
  <2> QED BY <1>7, <2>3, <2>4, <2>5
<1> QED BY <1>5, <1>6, <1>7
LEMMA FillsStep ==
    ASSUME TypeOK, Loop, Acts, NEW u \in UnitIds
    PROVE  NoFuller(unit[u], unit'[u]) \/ Falling(unit', u) \ Falling(unit, u) # {}
<1>1. CASE unit' = unit
  BY <1>1 DEF NoFuller
<1>2. CASE \/ StartTick \/ StartInits \/ Delegate \/ GiveUp \/ PostTurn \/ Fizzle \/ InitPlain
           \/ InitMirv \/ CityTurn \/ PortJoins \/ FactoryTurn \/ StationTurn \/ InitStation
           \/ RecomputeTurn
  <2>1. unit' = unit
    BY <1>2 DEF StartTick, StartInits, Delegate, GiveUp, PostTurn, Fizzle, InitPlain,
           InitMirv, CityTurn, PortJoins, FactoryTurn, StationTurn, InitStation, RecomputeTurn,
           Gone
  <2> QED BY <1>1, <2>1
<1>3. CASE EndTick \/ Lay \/ SamTurn \/ InitUpgrade
  BY <1>3, EndTickFills, LayFills, SamTurnFills, UpgradeFills
<1>4. CASE PlayerTurn \/ Build \/ HuntTurn \/ InitDelete
  <2>1. Carries(unit[u], unit'[u]) \/ ~Full(unit'[u])
    BY <1>4, PlayerTurnCarries, BuildCarries, HuntTurnCarries, InitDeleteCarries
  <2> QED BY <2>1, CarriesFills DEF NoFuller
<1>5. CASE SiloTurn
  <2>1. Sound(unit) /\ Me.unit \in UnitIds
    BY <1>5, UnitsSound, MyTurn DEF SiloTurn, JobOK, Runners
  <2>2. unit' = unit \/ unit' = Reloaded(Me.unit)
    BY <1>5 DEF SiloTurn, Gone
  <2>3. CASE unit' = Reloaded(Me.unit)
    <3>1. PICK s, q, r, n : /\ s \in UnitIds /\ s = Me.unit
                            /\ q = unit[s].queue /\ n = unit[s].level /\ r = unit'[s].queue
      BY <2>1
    <3>2. /\ \A v \in UnitIds : v # s => unit'[v] = unit[v]
          /\ unit'[s].type = unit[s].type /\ unit'[s].level = n /\ Len(r) <= Len(q) /\ Sound(unit')
      BY <2>1, <2>3, <3>1, ReloadedSound
    <3>3. q \in Seq(0 .. Cooldown) /\ n \in Nat /\ r \in Seq(0 .. Cooldown)
      BY <3>1, <3>2, FieldsOf, SoundTypes DEF TypeOK
    <3>4. Len(r) \in Nat /\ Len(q) \in Nat
      BY <3>3
    <3>5. CASE u = s
      BY <3>1, <3>2, <3>3, <3>4, <3>5 DEF NoFuller, Full
    <3>6. CASE u # s
      BY <3>2, <3>6 DEF NoFuller
    <3> QED BY <3>5, <3>6
  <2> QED BY <1>1, <2>2, <2>3
<1>6. CASE Launch
  BY <1>6, LaunchFills
<1>7. CASE MirvLaunch \/ InitTrain
  <2>1. PICK w : unit' = unit \/ (unit' = [unit EXCEPT ![Fresh] = w] /\ w.type \in {"MIRV", "Train"}
                                  /\ FreeIds # {})
    <3>1. CASE MirvLaunch
      <4>1. PICK m : m = New("MIRV", Me.by, Me.tile) /\ m.type = "MIRV"
        BY NewFields
      <4>2. unit' = unit \/ (unit' = [unit EXCEPT ![Fresh] = m] /\ FreeIds # {})
        BY <3>1, <4>1 DEF MirvLaunch
      <4> QED BY <4>1, <4>2
    <3>2. CASE InitTrain
      <4>1. PICK m : m = New("Train", New1.by, 0) /\ m.type = "Train"
        BY NewFields
      <4>2. unit' = unit \/ (unit' = [unit EXCEPT ![Fresh] = m] /\ FreeIds # {})
        BY <3>2, <4>1 DEF InitTrain
      <4> QED BY <4>1, <4>2
    <3> QED BY <1>7, <3>1, <3>2
  <2>2. w.type \in {"MIRV", "Train"} => ~Full(w)
    BY DEF Full, Launchers
  <2> QED BY <1>1, <2>1, <2>2, BuiltFills
<1>8. CASE NukeTurn \/ MirvTurn \/ DeleteTurn \/ TrainTurn \/ \E x \in todo.pairs : Ally(x)
  <2>1. PICK S : unit' = unit \/ unit' = Without(S)
    BY <1>8, RemovalUnits
  <2>2. CASE unit' = Without(S)
    <3>1. unit'[u] \in {unit[u], NoUnit}
      BY <2>2 DEF Without
    <3> QED BY <3>1 DEF NoFuller, Full, NoUnit, Launchers
  <2> QED BY <1>1, <2>1, <2>2
<1>9. CASE \/ \E x \in todo.orders : Order(x)
           \/ \E x \in todo.landings : Conquer(x)
           \/ \E x \in allies : Part(x)
  BY <1>1, <1>9 DEF Order, Conquer, Part
<1> QED BY <1>2, <1>3, <1>4, <1>5, <1>6, <1>7, <1>8, <1>9 DEF Acts, Engine, Outside

\* Only the warheads of its own holder, coming down on it, give a silo more missiles to
\* reload than it has slots: neither a launch, nor a shot, nor an upgrade, a reload or a
\* capture does.
THEOREM OnlyWarheadsOverfillHolds == Spec => OnlyWarheadsOverfill
<1> DEFINE fills == \A u \in Overfull(unit') \ Overfull(unit) :
                       Falling(unit', u) \ Falling(unit, u) # {}
<1>1. Base /\ [RailNext]_railVars => [fills]_vars
  <2>1. ASSUME Base, Acts PROVE fills
    BY <2>1, FillsStep DEF Base, Overfull, NoFuller, Full
  <2> QED BY <2>1, NextActs
<1> QED BY <1>1, BaseHolds, PTL DEF Spec, OnlyWarheadsOverfill

-----------------------------------------------------------------------------
(* How many executions there are of a kind. *)

At(s, W) == {i \in 1 .. Len(s) : s[i] \in W}
Lone(s, W) == \E i : At(s, W) = {i}
\* Of two lists.
None(s, r, W) == At(s, W) = {} /\ At(r, W) = {}
One(s, r, W) == (Lone(s, W) /\ At(r, W) = {}) \/ (At(s, W) = {} /\ Lone(r, W))
\* As many in t, and r, as there were in s, and q.
AsMany(s, t, W) == (At(s, W) = {} => At(t, W) = {}) /\ (Lone(s, W) => Lone(t, W))
AsManyOf(s, q, t, r, W) == (None(s, q, W) => None(t, r, W)) /\ (One(s, q, W) => One(t, r, W))
LEMMA AsManyEach ==
    ASSUME NEW s, NEW q, NEW t, NEW r, NEW W, AsMany(s, t, W), AsMany(q, r, W)
    PROVE  AsManyOf(s, q, t, r, W)
  BY DEF AsMany, AsManyOf, None, One
LEMMA AsManySame == \A s, W : AsMany(s, s, W)
  BY DEF AsMany
LEMMA RemovedAt ==
    ASSUME NEW s, s \in Seq(Range(s)), NEW c \in 1 .. Len(s), NEW t, t = Removed(s, c), NEW W
    PROVE  /\ s[c] \notin W => AsMany(s, t, W)
           /\ s[c] \in W /\ Lone(s, W) => At(t, W) = {}
<1>1. /\ Len(s) \in Nat /\ Len(t) = Len(s) - 1
      /\ \A i \in 1 .. Len(t) : t[i] = s[IF i < c THEN i ELSE i + 1]
  <2>1. /\ Len(t) = Len(s) - 1
        /\ \A i \in 1 .. Len(t) : t[i] = s[IF i < c THEN i ELSE i + 1]
    BY RemovedList
  <2> QED BY <2>1, Listed
<1>2. ASSUME NEW i \in At(t, W)
      PROVE  (IF i < c THEN i ELSE i + 1) \in At(s, W) \ {c}
  BY <1>1 DEF At
<1>3. ASSUME s[c] \in W, Lone(s, W) PROVE At(t, W) = {}
  <2>1. PICK i : At(s, W) = {i}
    BY <1>3 DEF Lone
  <2>2. c \in At(s, W)
    BY <1>3 DEF At
  <2> QED BY <1>2, <2>1, <2>2
<1>4. ASSUME At(s, W) = {} PROVE At(t, W) = {}
  BY <1>2, <1>4
<1>5. ASSUME s[c] \notin W, Lone(s, W) PROVE Lone(t, W)
  <2>1. PICK i : At(s, W) = {i}
    BY <1>5 DEF Lone
  <2>2. i \in 1 .. Len(s) /\ i # c /\ s[i] \in W
    BY <1>5, <2>1 DEF At
  <2>3. PICK k \in 1 .. Len(t) : i = IF k < c THEN k ELSE k + 1
    <3>1. CASE i < c
      BY <1>1, <2>2, <3>1
    <3>2. CASE ~(i < c)
      <4>1. i - 1 \in 1 .. Len(t) /\ ~(i - 1 < c) /\ (i - 1) + 1 = i
        BY <1>1, <2>2, <3>2
      <4> QED BY <4>1
    <3> QED BY <3>1, <3>2
  <2>4. k \in At(t, W)
    BY <1>1, <2>2, <2>3 DEF At
  <2>5. ASSUME NEW m \in At(t, W) PROVE m = k
    <3>1. m \in 1 .. Len(t) /\ i = IF m < c THEN m ELSE m + 1
      BY <1>2, <2>1, <2>5 DEF At
    <3> QED BY <1>1, <2>3, <3>1
  <2>6. At(t, W) = {k}
    BY <2>4, <2>5
  <2> QED BY <2>6 DEF Lone
<1> QED BY <1>3, <1>4, <1>5 DEF AsMany
LEMMA ExceptAt ==
    ASSUME NEW s, s \in Seq(Range(s)), NEW c \in 1 .. Len(s), NEW j, NEW t, t = [s EXCEPT ![c] = j],
           NEW W
    PROVE  /\ (j \in W <=> s[c] \in W) => AsMany(s, t, W)
           /\ s[c] \notin W /\ j \in W /\ At(s, W) = {} => Lone(t, W)
           /\ j \notin W /\ At(s, W) = {} => At(t, W) = {}
<1>1. /\ Len(s) \in Nat /\ Len(t) = Len(s)
      /\ \A i \in 1 .. Len(s) : t[i] = IF i = c THEN j ELSE s[i]
  BY ExceptList, Listed
<1>2. (j \in W <=> s[c] \in W) => At(s, W) = At(t, W)
  BY <1>1 DEF At
<1>3. j \in W /\ At(s, W) = {} => At(t, W) = {c}
  BY <1>1 DEF At
<1>4. j \notin W /\ At(s, W) = {} => At(t, W) = {}
  BY <1>1 DEF At
<1> QED BY <1>2, <1>3, <1>4 DEF AsMany, Lone
LEMMA AppendAt ==
    ASSUME NEW s, s \in Seq(Range(s)), NEW j, NEW t, t = Append(s, j), NEW W
    PROVE  /\ j \notin W => AsMany(s, t, W)
           /\ j \in W /\ At(s, W) = {} => Lone(t, W)
<1>1. /\ Len(s) \in Nat /\ Len(t) = Len(s) + 1 /\ t[Len(s) + 1] = j
      /\ \A i \in 1 .. Len(s) : t[i] = s[i]
  BY AppendList, Listed
<1>2. j \notin W => At(t, W) = At(s, W)
  BY <1>1 DEF At
<1>3. j \in W /\ At(s, W) = {} => At(t, W) = {Len(s) + 1}
  BY <1>1 DEF At
<1> QED BY <1>2, <1>3 DEF AsMany, Lone
LEMMA TailAt ==
    ASSUME NEW s, s \in Seq(Range(s)), s # <<>>, NEW t, t = Tail(s), NEW W
    PROVE  /\ s[1] \notin W => AsMany(s, t, W)
           /\ s[1] \in W /\ Lone(s, W) => At(t, W) = {}
           /\ s[1] \in W => At(s, W) # {}
<1>1. /\ Len(s) \in Nat \ {0} /\ Len(t) = Len(s) - 1
      /\ \A i \in 1 .. Len(t) : t[i] = s[i + 1]
  BY TailList
<1>2. ASSUME NEW i \in At(t, W) PROVE i + 1 \in At(s, W) /\ i + 1 # 1
  BY <1>1 DEF At
<1>3. s[1] \in W => 1 \in At(s, W)
  BY <1>1 DEF At
<1>4. ASSUME s[1] \in W, Lone(s, W) PROVE At(t, W) = {}
  BY <1>2, <1>3, <1>4 DEF Lone
<1>5. ASSUME s[1] \notin W, Lone(s, W) PROVE Lone(t, W)
  <2>1. PICK i : At(s, W) = {i}
    BY <1>5 DEF Lone
  <2>2. i \in 1 .. Len(s) /\ i # 1 /\ s[i] \in W
    BY <1>5, <2>1 DEF At
  <2>3. PICK k : k = i - 1
    OBVIOUS
  <2>4. k \in 1 .. Len(t) /\ k + 1 = i
    BY <1>1, <2>2, <2>3
  <2>5. k \in At(t, W)
    BY <1>1, <2>2, <2>4 DEF At
  <2>6. ASSUME NEW m \in At(t, W) PROVE m = k
    <3>1. m + 1 = i /\ m \in Nat
      BY <1>1, <1>2, <2>1 DEF At
    <3> QED BY <1>1, <2>2, <2>3, <3>1
  <2>7. At(t, W) = {k}
    BY <2>5, <2>6
  <2> QED BY <2>7 DEF Lone
<1> QED BY <1>2, <1>3, <1>4, <1>5 DEF AsMany
LEMMA ConcatAt ==
    ASSUME NEW s, s \in Seq(Range(s)), NEW r, r \in Seq(Range(r)), NEW t, t = s \o r, NEW W
    PROVE  (\A j \in Range(r) : j \notin W) => AsMany(s, t, W)
<1>1. Joined(s, r, t) /\ Len(s) \in Nat /\ Len(r) \in Nat
  BY ConcatList, Listed
<1>2. \A i \in 1 .. Len(r) : r[i] \in Range(r)
  BY Listed
<1>3. ASSUME \A j \in Range(r) : j \notin W PROVE At(t, W) = At(s, W)
  <2>1. ASSUME NEW i \in At(t, W) PROVE i \in At(s, W)
    <3>1. i \in 1 .. Len(s) + Len(r) /\ t[i] \in W
      BY <1>1, <2>1 DEF At, Joined
    <3>2. CASE i \in 1 .. Len(s)
      BY <1>1, <3>1, <3>2 DEF At, Joined
    <3>3. CASE i \notin 1 .. Len(s)
      <4>1. PICK m : m = i - Len(s)
        OBVIOUS
      <4>2. m \in 1 .. Len(r) /\ i = Len(s) + m
        BY <1>1, <3>1, <3>3, <4>1
      <4>3. t[i] = r[m]
        BY <1>1, <4>2 DEF Joined
      <4> QED BY <1>2, <1>3, <3>1, <4>2, <4>3
    <3> QED BY <3>2, <3>3
  <2>2. ASSUME NEW i \in At(s, W) PROVE i \in At(t, W)
    BY <1>1, <2>2 DEF At, Joined
  <2> QED BY <2>1, <2>2
<1>4. ASSUME \A j \in Range(r) : j \notin W PROVE AsMany(s, t, W)
  <2>1. At(t, W) = At(s, W)
    BY <1>3, <1>4
  <2> QED BY <2>1 DEF AsMany, Lone
<1> QED BY <1>4
LEMMA SameAt ==
    ASSUME NEW s, s \in Seq(Range(s)), NEW V, NEW W, \A j \in Range(s) : j \in V <=> j \in W
    PROVE  At(s, V) = At(s, W)
  BY Listed DEF At

-----------------------------------------------------------------------------
(* How their number changes. *)

LEMMA TallyDone ==
    ASSUME Loop, NEW k, Turn(k), Done, NEW W
    PROVE  /\ Me \notin W => AsMany(execs, execs', W)
           /\ Me \in W /\ Lone(execs, W) => At(execs', W) = {}
<1>1. execs' = Removed(execs, cursor)
  BY DEF Done, Removed
<1>2. execs \in Seq(Range(execs)) /\ cursor \in 1 .. Len(execs) /\ Me = execs[cursor]
  BY MyTurn DEF Loop
<1> QED BY <1>1, <1>2, RemovedAt
LEMMA TallyStay ==
    ASSUME Loop, NEW k, Turn(k), NEW j, Stay(j), NEW W
    PROVE  /\ (j \in W <=> Me \in W) => AsMany(execs, execs', W)
           /\ Me \notin W /\ j \in W /\ At(execs, W) = {} => Lone(execs', W)
<1>1. execs' = [execs EXCEPT ![cursor] = j]
  BY DEF Stay
<1>2. execs \in Seq(Range(execs)) /\ cursor \in 1 .. Len(execs) /\ Me = execs[cursor]
  BY MyTurn DEF Loop
<1> QED BY <1>1, <1>2, ExceptAt
LEMMA TallyAdds ==
    ASSUME Loop, NEW js, Add(js), js \in Seq(Range(js)), NEW W, \A j \in Range(js) : j \notin W
    PROVE  AsMany(uninit, uninit', W)
  BY ConcatAt DEF Add, Loop
LEMMA AddedOne ==
    ASSUME Loop, NEW j, Add(<<j>>)
    PROVE  uninit' = Append(uninit, j) /\ Range(uninit') = Range(uninit) \cup {j}
<1> DEFINE S == Range(uninit) \cup {j}
<1>1. uninit \in Seq(S)
  BY SeqMonotonic DEF Loop
<1>2. uninit' = Append(uninit, j)
  BY <1>1, AppendIsConcat DEF Add
<1> QED BY <1>2, AppendList DEF Loop
LEMMA TallyAdd ==
    ASSUME Loop, NEW j, Add(<<j>>), NEW W
    PROVE  /\ j \notin W => AsMany(uninit, uninit', W)
           /\ j \in W /\ At(uninit, W) = {} => Lone(uninit', W)
<1>1. uninit \in Seq(Range(uninit)) /\ uninit' = Append(uninit, j)
  BY AddedOne DEF Loop
<1> QED BY <1>1, AppendAt
LEMMA TallyInit ==
    ASSUME Loop, NEW k, DueInit(k), NEW j, Append1(j), NEW W, j \in W <=> New1 \in W
    PROVE  AsManyOf(execs, uninit, execs', uninit', W)
<1>1. /\ execs \in Seq(Range(execs)) /\ uninit \in Seq(Range(uninit)) /\ uninit # <<>>
      /\ execs' = Append(execs, j) /\ uninit' = Tail(uninit) /\ New1 = uninit[1]
  BY DEF Loop, DueInit, Append1, New1
<1>2. /\ j \notin W => AsMany(execs, execs', W)
      /\ j \in W /\ At(execs, W) = {} => Lone(execs', W)
  BY <1>1, AppendAt
<1>3. /\ New1 \notin W => AsMany(uninit, uninit', W)
      /\ New1 \in W /\ Lone(uninit, W) => At(uninit', W) = {}
      /\ New1 \in W => At(uninit, W) # {}
  BY <1>1, TailAt
<1>4. CASE New1 \notin W
  BY <1>2, <1>3, <1>4, AsManyEach
<1>5. CASE New1 \in W
  <2>1. ~None(execs, uninit, W)
    BY <1>3, <1>5 DEF None
  <2>2. One(execs, uninit, W) => One(execs', uninit', W)
    BY <1>2, <1>3, <1>5 DEF One
  <2> QED BY <2>1, <2>2 DEF AsManyOf
<1> QED BY <1>4, <1>5
LEMMA TallyDrop ==
    ASSUME Loop, NEW k, DueInit(k), Drop1, NEW W, New1 \notin W
    PROVE  AsManyOf(execs, uninit, execs', uninit', W)
<1>1. /\ uninit \in Seq(Range(uninit)) /\ uninit # <<>>
      /\ execs' = execs /\ uninit' = Tail(uninit) /\ New1 = uninit[1]
  BY DEF Loop, DueInit, Drop1, New1
<1>2. AsMany(uninit, uninit', W)
  BY <1>1, TailAt
<1>3. AsMany(execs, execs', W)
  BY <1>1, AsManySame
<1> QED BY <1>2, <1>3, AsManyEach

\* What a step does to the two lists.
LEMMA Deeds ==
    ASSUME TypeOK, Loop, Acts
    PROVE  \/ /\ \E k : Turn(k)
              /\ Stays /\ (uninit' = uninit \/ Lay \/ Build \/ SamTurn \/ Adds)
           \/ execs' = execs /\ (uninit' = uninit \/ Adds)
           \/ \E k \in {"upgrade", "delete", "train"} : DueInit(k) /\ Drop1
           \/ \E k : DueInit(k) /\ \E j : Append1(j) /\ Alike(New1, j) /\ (k = "hunt" => j = New1)
<1>1. ASSUME NEW k, Turn(k), Stays
      PROVE  uninit' = uninit \/ Lay \/ Build \/ SamTurn \/ Adds
  BY <1>1, Added DEF Turn, DueInit
<1>2. CASE StartTick \/ StartInits \/ EndTick
  BY <1>2 DEF StartTick, StartInits, EndTick, OpenTick, AllHadTurns, CloseTick
<1>3. CASE Outside
  <2>1. ASSUME NEW x, Conquer(x) \/ Ally(x) \/ Part(x) PROVE execs' = execs /\ uninit' = uninit
    BY <2>1 DEF Conquer, Ally, Part
  <2>2. ASSUME NEW x \in todo.orders, Order(x) PROVE execs' = execs /\ Adds
    <3>1. Adds
      BY <2>2, OrderAdds
    <3>2. execs' = execs
      BY <2>2 DEF Order
    <3> QED BY <3>1, <3>2
  <2> QED BY <1>3, <2>1, <2>2 DEF Outside
<1> QED BY <1>1, <1>2, <1>3, TurnOrNot DEF Idle

\* Nothing of W comes or goes, unless it is in one of these ways.
Steady(W) ==
    /\ \A k, j : Turn(k) /\ Stay(j) /\ Alike(Me, j) => (j \in W <=> Me \in W)
    /\ \A k : Turn(k) /\ Done => Me \notin W
    /\ \A k, j : DueInit(k) /\ Append1(j) /\ Alike(New1, j) => (j \in W <=> New1 \in W)
    /\ \A k \in {"upgrade", "delete", "train"} : DueInit(k) => New1 \notin W
Quiet(W) == uninit' = uninit \/ \E js : /\ Add(js) /\ js \in Seq(Range(js))
                                        /\ \A j \in Range(js) : j \notin W
LEMMA TallyKeeps ==
    ASSUME TypeOK, Loop, Acts, NEW W, Steady(W),
           Lay \/ Build \/ SamTurn \/ Adds => Quiet(W)
    PROVE  AsManyOf(execs, uninit, execs', uninit', W)
<1>1. ASSUME Quiet(W) PROVE AsMany(uninit, uninit', W)
  BY <1>1, AsManySame, TallyAdds DEF Quiet
<1>2. ASSUME NEW k, Turn(k), Stays PROVE AsMany(execs, execs', W)
  BY <1>2, TallyDone, TallyStay DEF Stays, Steady
<1>3. ASSUME uninit' = uninit \/ Lay \/ Build \/ SamTurn \/ Adds PROVE AsMany(uninit, uninit', W)
  <2>1. Quiet(W)
    BY <1>3 DEF Quiet
  <2> QED BY <1>1, <2>1
<1>4. CASE /\ \E k : Turn(k)
           /\ Stays /\ (uninit' = uninit \/ Lay \/ Build \/ SamTurn \/ Adds)
  BY <1>2, <1>3, <1>4, AsManyEach
<1>5. CASE execs' = execs /\ (uninit' = uninit \/ Adds)
  <2>1. AsMany(execs, execs', W)
    BY <1>5, AsManySame
  <2> QED BY <1>3, <1>5, <2>1, AsManyEach
<1>6. CASE \E k \in {"upgrade", "delete", "train"} : DueInit(k) /\ Drop1
  BY <1>6, TallyDrop DEF Steady
<1>7. CASE \E k : DueInit(k) /\ \E j : Append1(j) /\ Alike(New1, j)
  BY <1>7, TallyInit DEF Steady
<1> QED BY <1>4, <1>5, <1>6, <1>7, Deeds

-----------------------------------------------------------------------------
(* The executions that work for a structure. *)

Workers(S, u, K) == {j \in S : j.kind \in K /\ j.unit = u}
Staff == {"build"} \cup Runners
LEMMA WorkersAt ==
    ASSUME NEW s, s \in Seq(Range(s)), NEW S, NEW T, Range(s) \subseteq S, Range(s) \subseteq T,
           NEW u, NEW K
    PROVE  At(s, Workers(S, u, K)) = At(s, Workers(T, u, K))
<1>1. \A j \in Range(s) : j \in Workers(S, u, K) <=> j \in Workers(T, u, K)
  BY DEF Workers
<1> QED BY <1>1, SameAt
LEMMA NobodyAt ==
    ASSUME NEW s, s \in Seq(Range(s)), NEW W, \A j \in Range(s) : j \notin W
    PROVE  At(s, W) = {}
  BY Listed DEF At
LEMMA SomebodyAt ==
    ASSUME NEW s, s \in Seq(Range(s)), NEW W, NEW j \in Range(s), j \in W
    PROVE  At(s, W) # {}
<1>1. PICK i \in 1 .. Len(s) : s[i] = j
  BY Listed
<1> QED BY <1>1 DEF At
LEMMA TurnEnds ==
    ASSUME Loop, NEW k, Turn(k), Done
    PROVE  execs' # execs /\ \A j : ~Stay(j)
<1>1. execs \in Seq(Range(execs)) /\ cursor \in 1 .. Len(execs) /\ Len(execs) \in Nat
  BY MyTurn DEF Loop
<1>2. execs' = Removed(execs, cursor)
  BY DEF Done, Removed
<1>3. Len(execs') = Len(execs) - 1
  BY <1>1, <1>2, RemovedList
<1>4. ASSUME NEW j, Stay(j) PROVE FALSE
  <2>1. cursor \in Nat /\ cursor' = cursor /\ cursor' = cursor + 1
    BY <1>4, MyTurn DEF Done, Stay
  <2> QED BY <2>1
<1> QED BY <1>1, <1>3, <1>4
\* Nobody who works for a structure ends his work while it is there, but who has built it.
LEMMA StaffStays ==
    ASSUME TypeOK, Loop, Names, Acts, NEW k \in Staff, Turn(k), Done,
           Me.unit \in UnitIds, unit[Me.unit].type \in Structures
    PROVE  Build /\ Me.left = 0 /\ Me.kind = "build"
<1>1. /\ Me \in Jobs /\ Me.kind = k /\ Fits(Me) /\ Me.unit # NoUnitId /\ Exists(Me.unit)
      /\ phase = "turns" /\ Me.kind \in Staff
  BY MyTurn, Numbers DEF Names, Exists, Structures
<1>2. execs' # execs /\ \A j : ~Stay(j)
  BY TurnEnds
<1>4. ~Gone
  BY <1>1 DEF Gone
<1>5. CASE Delegate
  BY <1>1, <1>5 DEF Delegate, Turn, Me, Fits
<1>6. CASE Lay \/ GiveUp
  BY <1>1, <1>6 DEF Lay, GiveUp
<1>7. CASE Build
  <2>1. Me.left = 0
    BY <1>1, <1>2, <1>7 DEF Build
  <2> QED BY <1>7, <2>1, MyTurn DEF Build
<1>8. CASE PostTurn \/ SiloTurn \/ SamTurn \/ CityTurn \/ PortJoins \/ FactoryTurn
  BY <1>2, <1>4, <1>8 DEF PostTurn, SiloTurn, SamTurn, CityTurn, PortJoins, FactoryTurn
<1>9. CASE PlayerTurn \/ HuntTurn \/ Launch \/ Fizzle \/ NukeTurn \/ MirvLaunch \/ MirvTurn \/ DeleteTurn
           \/ StationTurn \/ TrainTurn \/ RecomputeTurn
  <2>1. \E m \in {"player", "hunt", "nuke", "mirv", "delete", "station", "train", "recompute"} : Turn(m)
    BY <1>9 DEF PlayerTurn, HuntTurn, Launch, Fizzle, NukeTurn, MirvLaunch, MirvTurn, DeleteTurn,
           StationTurn, TrainTurn, RecomputeTurn
  <2>2. \E m \in {"player", "hunt", "nuke", "mirv", "delete", "station", "train", "recompute"} : Me.kind = m
    BY <2>1, MyTurn
  <2> QED BY <1>1, <2>2 DEF Staff, Runners
<1>10. CASE StartTick \/ StartInits \/ EndTick
  BY <1>2, <1>10 DEF StartTick, StartInits, EndTick, OpenTick, AllHadTurns, CloseTick
<1>11. CASE InitPlain \/ InitMirv \/ InitUpgrade \/ InitDelete \/ InitStation \/ InitTrain
  BY <1>1, <1>11 DEF InitPlain, InitMirv, InitUpgrade, InitDelete, InitStation, InitTrain, DueInit
<1>12. CASE Outside
  <2>1. ASSUME NEW x, Order(x) \/ Conquer(x) \/ Ally(x) \/ Part(x) PROVE execs' = execs
    BY <2>1 DEF Order, Conquer, Ally, Part
  <2> QED BY <1>2, <1>12, <2>1 DEF Outside
<1> QED BY <1>5, <1>6, <1>7, <1>8, <1>9, <1>10, <1>11, <1>12 DEF Acts, Engine

LEMMA StructureIsLaid ==
    ASSUME TypeOK, Loop, Acts, NEW u \in UnitIds, unit'[u].type \in Structures,
           unit[u].type \notin Structures
    PROVE  Lay /\ u = Fresh /\ FreeIds # {}
<1>1. NoUnit.type \notin Structures
  BY DEF NoUnit, Structures
<1>2. ~Follows(unit[u], unit'[u], {"building", "locked"}) /\ ~InitDelete
  <2>1. ASSUME NEW F PROVE ~Follows(unit[u], unit'[u], F)
    BY <1>1 DEF Follows
  <2> QED BY <2>1, InitDeleteUnits DEF Onward
<1>3. CASE u = Fresh /\ HuntTurn /\ Me.unit = NoUnitId
  <2>1. Turn("hunt") /\ (Me.unit = NoUnitId => FreeIds # {})
    BY <1>3 DEF HuntTurn
  <2>2. Hunter = Fresh /\ WithHunter[Fresh] = New("Missile", Me.by, 0)
    BY <1>3, <2>1, HunterFacts
  <2>3. WithHunter[Fresh].type = "Missile" /\ Fresh # Me.prey /\ Me.prey \in UnitIds
    BY <1>3, <2>1, <2>2, HunterFacts, FreshIsFree, NewFields
  <2>4. Fresh \in UnitIds /\ WithHunter = [v \in UnitIds |-> WithHunter[v]]
    BY <1>3, <2>1, HunterFacts, FreshIsFree DEF Sound
  <2>5. unit'[u] = unit[u] \/ unit'[u] = NoUnit \/ unit'[u] = WithHunter[Fresh]
    BY <1>3, <2>2, <2>3, <2>4, HuntTurnIs DEF CalledOffHunt, Struck
  <2> QED BY <1>1, <2>3, <2>5 DEF Structures
<1>4. CASE u = Fresh /\ (Launch \/ MirvLaunch \/ InitTrain) /\ FreeIds # {}
  <2>1. unit' = unit \/ unit'[Fresh].type \in {"Bomb", "Warhead", "MIRV", "Train"}
    BY <1>4, LaunchUnits, MirvLaunchUnits, InitTrainUnits DEF Launch
  <2> QED BY <1>4, <2>1 DEF Structures
<1> QED BY <1>2, <1>3, <1>4, UnitsGo

\* There are as many of them after a step, if the structure stays and is not just finished.
LEMMA WorkersKept ==
    ASSUME TypeOK, Loop, Names, Loop', Acts, NEW u \in UnitIds, unit[u].type \in Structures,
           ~(Build /\ Me.unit = u /\ Me.left = 0), NEW K \in SUBSET Staff,
           NEW W, W = Workers(Jobs \cup Jobs', u, K)
    PROVE  AsManyOf(execs, uninit, execs', uninit', W)
<1>1. /\ Exists(u) /\ u # NoUnitId /\ (FreeIds # {} => u # Fresh)
      /\ K \subseteq Staff /\ Staff \cap {"train", "hunt", "upgrade", "delete", "nuke", "mirv", "station"} = {}
  BY Numbers, FreshIsFree DEF Exists, Structures, Staff, Runners
<1>2. ASSUME NEW i \in Jobs, NEW j \in Jobs', Alike(i, j) PROVE j \in W <=> i \in W
  <2>1. j.kind = i.kind
    BY <1>2 DEF Alike
  <2>2. i.kind \in K => (j.unit = u <=> i.unit = u)
    BY <1>1, <1>2 DEF Alike
  <2> QED BY <2>1, <2>2 DEF Workers
<1>3. ASSUME NEW k, NEW j, Turn(k), Stay(j) PROVE Me \in Jobs /\ j \in Jobs'
  <2>1. execs \in Seq(Range(execs)) /\ cursor \in 1 .. Len(execs) /\ execs' = [execs EXCEPT ![cursor] = j]
    BY <1>3, MyTurn DEF Loop, Stay
  <2>2. j \in Range(execs')
    BY <2>1, ExceptList
  <2> QED BY <1>3, <2>2, MyTurn DEF Jobs
<1>4. ASSUME NEW k, NEW j, DueInit(k), Append1(j) PROVE New1 \in Jobs /\ j \in Jobs'
  <2>1. execs \in Seq(Range(execs)) /\ execs' = Append(execs, j)
    BY <1>4 DEF Loop, Append1
  <2>2. Range(execs') = Range(execs) \cup {j}
    BY <2>1, AppendList
  <2> QED BY <1>4, <2>2, MyInit DEF Jobs
<1>5. ASSUME NEW k, Turn(k), Done PROVE Me \notin W
  <2>1. Me.kind = k
    BY <1>5, MyTurn
  <2>2. Me \in W => k \in Staff /\ Me.unit = u
    BY <1>1, <2>1 DEF Workers
  <2> QED BY <1>5, <2>2, StaffStays
<1>6. ASSUME NEW k \in {"upgrade", "delete", "train"}, DueInit(k) PROVE New1 \notin W
  <2>1. New1.kind = k
    BY <1>6, MyInit
  <2> QED BY <1>1, <2>1 DEF Workers
<1>7. Steady(W)
  BY <1>2, <1>3, <1>4, <1>5, <1>6 DEF Steady
<1>8. ASSUME NEW j, Add(<<j>>), j \notin W PROVE Quiet(W)
  <2>1. PICK js : js = <<j>> /\ js \in Seq(Range(js)) /\ Range(js) = {j}
    BY OneJob
  <2> QED BY <1>8, <2>1 DEF Quiet
<1>9. ASSUME Adds PROVE Quiet(W)
  <2>1. ASSUME NEW j, Bystander(j) PROVE j \notin W
    BY <1>1, <2>1 DEF Bystander, Workers
  <2> QED BY <1>9, <2>1 DEF Adds, Quiet
<1>10. ASSUME Lay PROVE Quiet(W)
  <2>1. PICK k, p, f : k = Me.type /\ p = Me.by /\ f = Fresh
    OBVIOUS
  <2>2. FreeIds # {} /\ k \in Structures /\ (UNCHANGED uninit \/ Add(<<RunnerOf(k, p, f)>>)) /\ Turn("build")
    BY <1>10, <2>1 DEF Lay
  <2>3. p \in Players /\ f \in UnitIds
    BY <2>1, <2>2, MyTurn, FreshIsFree DEF JobOK
  <2>4. RunnerOf(k, p, f).unit = f
    BY <2>2, <2>3, RunnerFacts
  <2>5. RunnerOf(k, p, f) \notin W
    BY <1>1, <2>1, <2>2, <2>4 DEF Workers
  <2> QED BY <1>8, <2>2, <2>5 DEF Quiet
<1>11. ASSUME Build PROVE Quiet(W)
  <2>1. PICK k, p, f : k = Me.type /\ p = unit[Me.unit].holder /\ f = Me.unit
    OBVIOUS
  <2>2. \/ UNCHANGED uninit
        \/ Add(<<RunnerOf(k, p, f)>>) /\ Me.left = 0
    BY <1>11, <2>1 DEF Build
  <2>3. RunnerOf(k, p, f).unit = f
    BY DEF RunnerOf, Job
  <2>4. Me.left = 0 => RunnerOf(k, p, f) \notin W
    BY <1>11, <2>1, <2>3 DEF Workers
  <2> QED BY <1>8, <2>2, <2>4 DEF Quiet
<1>12. ASSUME SamTurn PROVE Quiet(W)
  <2>1. ASSUME NEW v, NEW s, NEW p, NEW n, NEW q,
               Add(<<[Job("hunt", p) EXCEPT !.prey = v, !.from = s, !.left = n, !.victim = q]>>)
        PROVE  Quiet(W)
    <3>1. PICK j : j = [Job("hunt", p) EXCEPT !.prey = v, !.from = s, !.left = n, !.victim = q]
      OBVIOUS
    <3>2. j.kind = "hunt"
      BY <3>1 DEF Job
    <3>3. j \notin W
      BY <1>1, <3>2 DEF Workers
    <3> QED BY <1>8, <2>1, <3>1, <3>3
  <2>2. uninit' = uninit => Quiet(W)
    BY DEF Quiet
  <2> QED BY <1>12, <2>1, <2>2 DEF SamTurn, Gone
<1> QED BY <1>7, <1>9, <1>10, <1>11, <1>12, TallyKeeps

\* A structure under construction is worked on by who builds it alone, and any other by one
\* of its own kind.
StaffOf(u) ==
    LET all(K) == Workers(Jobs, u, K) IN
    IF unit[u].building
    THEN One(execs, uninit, all({"build"})) /\ None(execs, uninit, all(Runners))
    ELSE None(execs, uninit, all({"build"})) /\ One(execs, uninit, all(Runners))
Staffed == \A u \in OfType(Structures) : StaffOf(u)
\* The same of any list of them all.
LEMMA StaffIn ==
    ASSUME Loop, NEW S, Jobs \subseteq S, NEW u, NEW K
    PROVE  /\ One(execs, uninit, Workers(Jobs, u, K)) <=> One(execs, uninit, Workers(S, u, K))
           /\ None(execs, uninit, Workers(Jobs, u, K)) <=> None(execs, uninit, Workers(S, u, K))
<1>1. /\ At(execs, Workers(Jobs, u, K)) = At(execs, Workers(S, u, K))
      /\ At(uninit, Workers(Jobs, u, K)) = At(uninit, Workers(S, u, K))
  <2>1. /\ Range(execs) \subseteq Jobs /\ Range(uninit) \subseteq Jobs
        /\ Range(execs) \subseteq S /\ Range(uninit) \subseteq S
    BY DEF Jobs
  <2> QED BY <2>1, WorkersAt DEF Loop
<1> QED BY <1>1 DEF One, None, Lone
LEMMA StaffAfter ==
    ASSUME Loop', NEW S, Jobs' \subseteq S, NEW u, NEW K
    PROVE  /\ One(execs', uninit', Workers(Jobs', u, K)) <=> One(execs', uninit', Workers(S, u, K))
           /\ None(execs', uninit', Workers(Jobs', u, K)) <=> None(execs', uninit', Workers(S, u, K))
<1>1. /\ At(execs', Workers(Jobs', u, K)) = At(execs', Workers(S, u, K))
      /\ At(uninit', Workers(Jobs', u, K)) = At(uninit', Workers(S, u, K))
  <2>1. /\ Range(execs') \subseteq Jobs' /\ Range(uninit') \subseteq Jobs'
        /\ Range(execs') \subseteq S /\ Range(uninit') \subseteq S
    BY DEF Jobs
  <2> QED BY <2>1, WorkersAt DEF Loop
<1> QED BY <1>1 DEF One, None, Lone
LEMMA StaffGoesOn ==
    ASSUME TypeOK, Loop, Names, Loop', Acts, NEW u \in UnitIds, unit[u].type \in Structures,
           unit'[u].type \in Structures, StaffOf(u), ~(Build /\ Me.unit = u /\ Me.left = 0)
    PROVE  StaffOf(u)'
<1>0. PICK S : S = Jobs \cup Jobs'
  OBVIOUS
<1>1. S = Jobs \cup Jobs' /\ Jobs \subseteq S /\ Jobs' \subseteq S
  BY <1>0
<1>2. /\ AsManyOf(execs, uninit, execs', uninit', Workers(S, u, {"build"}))
      /\ AsManyOf(execs, uninit, execs', uninit', Workers(S, u, Runners))
  <2>1. {"build"} \in SUBSET Staff /\ Runners \in SUBSET Staff
    BY DEF Staff
  <2> QED BY <1>1, <2>1, WorkersKept
<1>3. unit'[u].building = unit[u].building
  <2>1. unit'[u].building = unit[u].building \/ Build
    <3>1. Exists(u) /\ unit'[u].type # "none"
      BY DEF Exists, Structures
    <3> QED BY <3>1, UnitStays
  <2>2. Build => unit'[u] = unit[u]
    BY BuildUnits
  <2> QED BY <2>1, <2>2
<1>4. /\ \A K : One(execs, uninit, Workers(Jobs, u, K)) <=> One(execs, uninit, Workers(S, u, K))
      /\ \A K : None(execs, uninit, Workers(Jobs, u, K)) <=> None(execs, uninit, Workers(S, u, K))
      /\ \A K : One(execs', uninit', Workers(Jobs', u, K)) <=> One(execs', uninit', Workers(S, u, K))
      /\ \A K : None(execs', uninit', Workers(Jobs', u, K)) <=> None(execs', uninit', Workers(S, u, K))
  BY <1>1, StaffIn, StaffAfter
<1> QED BY <1>2, <1>3, <1>4 DEF StaffOf, AsManyOf

LEMMA StaffTakesOver ==
    ASSUME TypeOK, Loop, Names, Loop', Build, Me.left = 0, NEW u \in UnitIds, Me.unit = u,
           unit[u].type \in Structures, StaffOf(u)
    PROVE  StaffOf(u)'
<1>0. PICK S : S = Jobs \cup Jobs'
  OBVIOUS
<1>1. S = Jobs \cup Jobs' /\ Jobs \subseteq S /\ Jobs' \subseteq S
  BY <1>0
<1>2. /\ Turn("build") /\ Me \in Jobs /\ Me \in Range(execs) /\ Me.kind = "build" /\ Fits(Me)
      /\ u # NoUnitId /\ Exists(u) /\ unit[u].holder \in Players
  BY MyTurn, Numbers, HolderIsPlayer DEF Build, Names, Exists, Structures
<1>3. PICK k, p : k = Me.type /\ p = unit[u].holder
  OBVIOUS
<1>4. k \in Structures /\ p \in Players
  BY <1>2, <1>3 DEF Fits
<1>5. Done /\ Add(<<RunnerOf(k, p, u)>>) /\ ~unit'[u].building
  <2>1. ~unit'[u].building
    BY <1>2, BuildUnits
  <2> QED BY <1>2, <1>3, <2>1 DEF Build
<1>6. PICK j : j = RunnerOf(k, p, u)
  OBVIOUS
<1>7. j.kind \in Runners /\ j.kind # "build" /\ j.unit = u /\ Add(<<j>>) /\ j \in S
  <2>1. j.kind \in Runners /\ j.unit = u /\ Add(<<j>>)
    BY <1>4, <1>5, <1>6, RunnerFacts
  <2>2. j \in Range(uninit')
    BY <2>1, AddedOne
  <2> QED BY <1>1, <2>1, <2>2 DEF Jobs, Runners
<1> DEFINE B == Workers(S, u, {"build"})
           R == Workers(S, u, Runners)
<1>8. Me \in B /\ Me \notin R /\ j \in R /\ j \notin B
  <2>1. Me \in S /\ Me.kind \notin Runners
    BY <1>1, <1>2 DEF Runners
  <2> QED BY <1>2, <1>7, <2>1 DEF Workers
<1> HIDE DEF B, R
<1>9. At(execs, B) # {}
  BY <1>2, <1>8, SomebodyAt DEF Loop
<1>10. One(execs, uninit, B) /\ None(execs, uninit, R)
  <2>1. ~None(execs, uninit, Workers(Jobs, u, {"build"}))
    <3>1. ~None(execs, uninit, B)
      BY <1>9 DEF None
    <3> QED BY <1>1, <3>1, StaffIn DEF B
  <2>2. One(execs, uninit, Workers(Jobs, u, {"build"})) /\ None(execs, uninit, Workers(Jobs, u, Runners))
    BY <2>1 DEF StaffOf
  <2> QED BY <1>1, <2>2, StaffIn DEF B, R
<1>11. Lone(execs, B) /\ At(uninit, B) = {} /\ At(execs, R) = {} /\ At(uninit, R) = {}
  BY <1>9, <1>10 DEF One, None
<1>12. At(execs', B) = {} /\ At(execs', R) = {}
  <2>1. AsMany(execs, execs', R) /\ At(execs', B) = {}
    BY <1>2, <1>5, <1>8, <1>11, TallyDone
  <2> QED BY <1>11, <2>1 DEF AsMany
<1>13. At(uninit', B) = {} /\ Lone(uninit', R)
  <2>1. AsMany(uninit, uninit', B) /\ Lone(uninit', R)
    BY <1>7, <1>8, <1>11, TallyAdd
  <2> QED BY <1>11, <2>1 DEF AsMany
<1>14. None(execs', uninit', B) /\ One(execs', uninit', R)
  BY <1>12, <1>13 DEF None, One
<1>15. None(execs', uninit', Workers(Jobs', u, {"build"})) /\ One(execs', uninit', Workers(Jobs', u, Runners))
  BY <1>1, <1>14, StaffAfter DEF B, R
<1> QED BY <1>5, <1>15 DEF StaffOf

LEMMA StaffIsHired ==
    ASSUME TypeOK, Loop, Names, Loop', Lay, NEW u \in UnitIds, u = Fresh
    PROVE  StaffOf(u)'
<1>0. PICK S : S = Jobs \cup Jobs'
  OBVIOUS
<1>1. S = Jobs \cup Jobs' /\ Jobs \subseteq S /\ Jobs' \subseteq S
  BY <1>0
<1>2. PICK k, p : k = Me.type /\ p = Me.by
  OBVIOUS
<1>3. /\ Turn("build") /\ Me \in Jobs /\ Me.kind = "build" /\ Me.unit = NoUnitId /\ k \in Structures
      /\ p \in Players /\ JobOK(Me)
  BY <1>2, MyTurn DEF Lay, JobOK
<1>4. u \in UnitIds /\ u \notin Named /\ u # NoUnitId /\ (unit'[u].building <=> Duration > 0)
  BY <1>2, FreshIsFree, LayUnits, Numbers
<1> DEFINE B == Workers(S, u, {"build"})
           R == Workers(S, u, Runners)
<1>5. \A i \in Jobs : i \notin B /\ i \notin R
  BY <1>4 DEF Workers, Named, Jobs
<1>6. At(execs, B) = {} /\ At(uninit, B) = {} /\ At(execs, R) = {} /\ At(uninit, R) = {}
  <2>1. execs \in Seq(Range(execs)) /\ uninit \in Seq(Range(uninit))
    BY DEF Loop
  <2>2. \A i \in Range(execs) \cup Range(uninit) : i \notin B /\ i \notin R
    BY <1>5 DEF Jobs
  <2> HIDE DEF B, R
  <2> QED BY <2>1, <2>2, NobodyAt
<1>7. CASE Duration > 0
  <2>1. PICK j : j = [Me EXCEPT !.unit = u, !.left = Duration]
    OBVIOUS
  <2>2. Stay(j) /\ UNCHANGED uninit
    BY <1>7, <2>1 DEF Lay
  <2>3. j.kind = "build" /\ j.unit = u
    BY <1>3, <2>1 DEF JobOK
  <2>4. j \in S
    <3>1. execs \in Seq(Range(execs)) /\ cursor \in 1 .. Len(execs) /\ execs' = [execs EXCEPT ![cursor] = j]
      BY <1>3, <2>2, MyTurn DEF Loop, Stay
    <3>2. j \in Range(execs')
      BY <3>1, ExceptList
    <3> QED BY <1>1, <3>2 DEF Jobs
  <2>5. j \in B /\ j \notin R /\ Me \notin B /\ Me \notin R
    <3>1. j \in B /\ j \notin R
      BY <2>3, <2>4 DEF Workers, Runners
    <3> QED BY <1>3, <1>5, <3>1
  <2> HIDE DEF B, R
  <2>6. Lone(execs', B) /\ AsMany(execs, execs', R)
    BY <1>3, <1>6, <2>2, <2>5, TallyStay
  <2>7. One(execs', uninit', B) /\ None(execs', uninit', R)
    BY <1>6, <2>2, <2>6 DEF AsMany, One, None
  <2>8. /\ One(execs', uninit', Workers(Jobs', u, {"build"}))
        /\ None(execs', uninit', Workers(Jobs', u, Runners))
    BY <1>1, <2>7, StaffAfter DEF B, R
  <2> QED BY <1>4, <1>7, <2>8 DEF StaffOf
<1>8. CASE ~(Duration > 0)
  <2>1. PICK j : j = RunnerOf(k, p, u)
    OBVIOUS
  <2>2. Done /\ Add(<<j>>)
    BY <1>2, <1>8, <2>1 DEF Lay
  <2>3. j.kind \in Runners /\ j.unit = u
    BY <1>3, <1>4, <2>1, RunnerFacts
  <2>4. j \in S
    BY <1>1, <2>2, AddedOne DEF Jobs
  <2>5. j \in R /\ j \notin B /\ Me \notin B /\ Me \notin R
    <3>1. j \in R /\ j \notin B
      BY <2>3, <2>4 DEF Workers, Runners
    <3> QED BY <1>3, <1>5, <3>1
  <2> HIDE DEF B, R
  <2>6. AsMany(execs, execs', B) /\ AsMany(execs, execs', R)
    BY <1>3, <2>2, <2>5, TallyDone
  <2>7. AsMany(uninit, uninit', B) /\ Lone(uninit', R)
    BY <1>6, <2>2, <2>5, TallyAdd
  <2>8. None(execs', uninit', B) /\ One(execs', uninit', R)
    BY <1>6, <2>6, <2>7 DEF AsMany, One, None
  <2>9. /\ None(execs', uninit', Workers(Jobs', u, {"build"}))
        /\ One(execs', uninit', Workers(Jobs', u, Runners))
    BY <1>1, <2>8, StaffAfter DEF B, R
  <2> QED BY <1>4, <1>8, <2>9 DEF StaffOf
<1> QED BY <1>7, <1>8
LEMMA StaffedStep ==
    ASSUME TypeOK, Loop, Names, Loop', Acts, Staffed
    PROVE  Staffed'
<1>1. SUFFICES ASSUME NEW u \in UnitIds, unit'[u].type \in Structures PROVE StaffOf(u)'
  BY DEF Staffed, OfType
<1>2. CASE unit[u].type \notin Structures
  <2>1. Lay /\ u = Fresh
    BY <1>1, <1>2, StructureIsLaid
  <2> QED BY <2>1, StaffIsHired
<1>3. CASE unit[u].type \in Structures
  <2>1. StaffOf(u)
    BY <1>3 DEF Staffed, OfType
  <2> QED BY <1>1, <1>3, <2>1, StaffGoesOn, StaffTakesOver
<1> QED BY <1>2, <1>3
LEMMA FirstStaff == RailInit => Staffed
<1> SUFFICES ASSUME RailInit, NEW u \in OfType(Structures) PROVE StaffOf(u)
  BY DEF Staffed
<1>1. PICK n \in Nat, m \in Nat :
         /\ m = Len(todo.bases) /\ Len(execs) = n + 1 + m /\ execs[n + 1] = RecomputeJob
         /\ \A p \in 1 .. n : execs[p].kind = "player"
         /\ \A i \in 1 .. m : execs[n + 1 + i] = RunnerOf(todo.bases[i][1], todo.bases[i][2], i)
  <2>1. Len(todo.bases) \in Nat
    BY FirstJobs, LenProperties DEF PlanType
  <2> QED BY <2>1, FirstJobs
<1>2. /\ execs \in Seq(Range(execs)) /\ uninit \in Seq(Range(uninit)) /\ uninit = <<>>
      /\ todo \in PlanType
  BY FirstJobs, EmptySeq DEF Range
<1>3. u \in 1 .. m /\ ~unit[u].building
  BY <1>1, FirstUnits
<1>4. ASSUME NEW i \in 1 .. m
      PROVE  /\ execs[n + 1 + i].unit = i /\ execs[n + 1 + i].kind \in Runners
             /\ execs[n + 1 + i].kind # "build"
  <2>1. PICK k, p : k = todo.bases[i][1] /\ p = todo.bases[i][2]
    OBVIOUS
  <2>2. k \in Structures /\ p \in Players /\ i \in UnitIds
    BY <1>1, <1>2, <2>1, BasesAre, FirstUnits
  <2>3. RunnerOf(k, p, i).kind \in Runners /\ RunnerOf(k, p, i).unit = i
    BY <2>2, RunnerFacts
  <2> QED BY <1>1, <2>1, <2>3 DEF Runners
<1>5. ASSUME NEW i \in 1 .. Len(execs), i <= n + 1 PROVE execs[i].kind \notin Staff
  <2>1. RecomputeJob.kind = "recompute"
    BY DEF RecomputeJob, Job
  <2>2. i \in 1 .. n \/ i = n + 1
    BY <1>1, <1>5
  <2> QED BY <1>1, <2>1, <2>2 DEF Staff, Runners
<1> DEFINE B == Workers(Jobs, u, {"build"})
           R == Workers(Jobs, u, Runners)
<1>6. ASSUME NEW i \in 1 .. Len(execs)
      PROVE  execs[i] \notin B /\ (execs[i] \in R <=> i = n + 1 + u)
  <2>1. execs[i] \in Jobs
    BY <1>2, Listed DEF Jobs
  <2>2. CASE i <= n + 1
    <3>1. execs[i].kind \notin Staff /\ i # n + 1 + u
      BY <1>3, <1>5, <2>2
    <3> QED BY <3>1 DEF Workers, Staff
  <2>3. CASE i > n + 1
    <3>0. i - (n + 1) \in 1 .. m
      <4>1. i \in 1 .. n + 1 + m
        BY <1>1
      <4> QED BY <2>3, <4>1
    <3>1. PICK k \in 1 .. m : k = i - (n + 1)
      BY <3>0
    <3>2. i = n + 1 + k
      BY <3>1
    <3>3. execs[i].unit = k /\ execs[i].kind \in Runners /\ execs[i].kind # "build"
      BY <1>4, <3>2
    <3>4. k = u <=> i = n + 1 + u
      BY <1>3, <3>2
    <3> QED BY <2>1, <3>3, <3>4 DEF Workers
  <2> QED BY <1>1, <2>2, <2>3
<1> HIDE DEF B, R
<1>7. At(execs, B) = {} /\ At(execs, R) = {n + 1 + u}
  <2>1. n + 1 + u \in 1 .. Len(execs)
    BY <1>1, <1>3
  <2> QED BY <1>6, <2>1 DEF At
<1>8. At(uninit, B) = {} /\ At(uninit, R) = {}
  BY <1>2 DEF At
<1>9. None(execs, uninit, B) /\ One(execs, uninit, R)
  BY <1>7, <1>8 DEF None, One, Lone
<1> QED BY <1>3, <1>9 DEF StaffOf, B, R
LEMMA StaffedHolds == Spec => []Staffed
<1>1. Base /\ Base' /\ Staffed /\ [RailNext]_railVars => Staffed'
  <2>1. ASSUME Base, Base', Staffed, Acts PROVE Staffed'
    BY <2>1, StaffedStep DEF Base
  <2>2. ASSUME Staffed, UNCHANGED vars PROVE Staffed'
    <3>1. execs' = execs /\ uninit' = uninit /\ unit' = unit
      BY <2>2 DEF vars, loopVars
    <3>2. Jobs' = Jobs
      BY <3>1 DEF Jobs
    <3> QED BY <2>2, <3>1, <3>2 DEF Staffed, StaffOf, OfType
  <2> QED BY <2>1, <2>2, NextActs
<1> QED BY <1>1, FirstStaff, BaseHolds, PTL DEF Spec

LEMMA RunsAre ==
    ASSUME Loop, NEW k, NEW u
    PROVE  RunsOf(k, u) = Cardinality(At(execs, Workers(Jobs, u, {k}))) +
                          Cardinality(At(uninit, Workers(Jobs, u, {k})))
<1>1. /\ \A i \in 1 .. Len(execs) : execs[i] \in Jobs
      /\ \A i \in 1 .. Len(uninit) : uninit[i] \in Jobs
  BY Listed DEF Loop, Jobs
<1>2. {i \in AllJobs(k) : execs[i].unit = u} = At(execs, Workers(Jobs, u, {k}))
  BY <1>1 DEF AllJobs, At, Workers
<1>3. {i \in NewJobs(k) : uninit[i].unit = u} = At(uninit, Workers(Jobs, u, {k}))
  BY <1>1 DEF NewJobs, At, Workers
<1> QED BY <1>2, <1>3 DEF RunsOf
LEMMA CountOne == ASSUME NEW s, NEW r, NEW W, One(s, r, W)
                  PROVE  Cardinality(At(s, W)) + Cardinality(At(r, W)) = 1
<1>1. ASSUME NEW q, Lone(q, W) PROVE Cardinality(At(q, W)) = 1
  BY <1>1, FS_Singleton DEF Lone
<1>2. Cardinality({}) = 0
  BY FS_EmptySet
<1> QED BY <1>1, <1>2 DEF One
LEMMA CountNone == ASSUME NEW s, NEW r, NEW W, None(s, r, W)
                   PROVE  Cardinality(At(s, W)) + Cardinality(At(r, W)) = 0
<1>1. Cardinality({}) = 0
  BY FS_EmptySet
<1> QED BY <1>1 DEF None

\* Every structure, captured or not, has the one execution that works for it: the
\* ConstructionExecution until it is finished, then its own, and never two.
THEOREM EveryStructureIsRunHolds == Spec => []EveryStructureIsRun
<1>1. ASSUME Base, Staffed PROVE EveryStructureIsRun
  <2>1. SUFFICES ASSUME NEW u \in OfType(Structures)
                 PROVE  /\ RunsOf("build", u) = IF unit[u].building THEN 1 ELSE 0
                        /\ RunsOf(Runner(unit[u].type), u) = IF unit[u].building THEN 0 ELSE 1
    BY DEF EveryStructureIsRun
  <2>2. Loop /\ Names /\ StaffOf(u) /\ u \in UnitIds /\ unit[u].type \in Structures
    BY <1>1 DEF Base, Staffed, OfType
  <2>3. PICK k : k = Runner(unit[u].type)
    OBVIOUS
  <2>4. k \in Runners
    BY <2>2, <2>3 DEF Runner, Structures, Runners
  <2>5. ASSUME NEW j \in Jobs, j.unit = u PROVE j.kind \in Runners <=> j.kind = k
    <3>1. Fits(j) /\ u # NoUnitId /\ Exists(u)
      BY <2>2, <2>5, Numbers DEF Names, Exists, Structures
    <3>2. <<j.kind, unit[u].type>> \in Crew
      BY <2>5, <3>1 DEF Fits
    <3>3. j.kind \in Runners => j.kind = Runner(unit[u].type)
      BY <2>2, <3>2 DEF Crew, Runners, Runner, Structures
    <3> QED BY <2>3, <2>4, <3>3
  <2>6. Workers(Jobs, u, {k}) = Workers(Jobs, u, Runners)
    BY <2>5 DEF Workers
  <2>7. CASE unit[u].building
    <3>1. RunsOf("build", u) = 1
      BY <2>2, <2>7, RunsAre, CountOne DEF StaffOf
    <3>2. RunsOf(k, u) = 0
      BY <2>2, <2>6, <2>7, RunsAre, CountNone DEF StaffOf
    <3> QED BY <2>3, <2>7, <3>1, <3>2
  <2>8. CASE ~unit[u].building
    <3>1. RunsOf("build", u) = 0
      BY <2>2, <2>8, RunsAre, CountNone DEF StaffOf
    <3>2. RunsOf(k, u) = 1
      BY <2>2, <2>6, <2>8, RunsAre, CountOne DEF StaffOf
    <3> QED BY <2>3, <2>8, <3>1, <3>2
  <2> QED BY <2>7, <2>8
<1> QED BY <1>1, BaseHolds, StaffedHolds, PTL

-----------------------------------------------------------------------------
(* Missiles after bombs. *)

Rulers(S, p) == {j \in S : j.kind = "player" /\ j.by = p}
Hunters(S, u) == {j \in S : j.kind = "hunt" /\ j.prey = u}
Riders(S, m) == {j \in S : j.kind = "hunt" /\ j.unit = m}
OneAtMost(s, r, W) == None(s, r, W) \/ One(s, r, W)
LEMMA AtMostKept ==
    ASSUME NEW s, NEW q, NEW t, NEW r, NEW W, AsManyOf(s, q, t, r, W), OneAtMost(s, q, W)
    PROVE  OneAtMost(t, r, W)
  BY DEF OneAtMost, AsManyOf
\* The same, said of the executions that there are.
LEMMA CountIn ==
    ASSUME Loop, NEW V, NEW W, \A j \in Jobs : j \in V <=> j \in W
    PROVE  /\ One(execs, uninit, V) <=> One(execs, uninit, W)
           /\ None(execs, uninit, V) <=> None(execs, uninit, W)
<1>1. At(execs, V) = At(execs, W) /\ At(uninit, V) = At(uninit, W)
  BY SameAt DEF Loop, Jobs
<1> QED BY <1>1 DEF One, None, Lone
LEMMA CountAfter ==
    ASSUME Loop', NEW V, NEW W, \A j \in Jobs' : j \in V <=> j \in W
    PROVE  /\ One(execs', uninit', V) <=> One(execs', uninit', W)
           /\ None(execs', uninit', V) <=> None(execs', uninit', W)
<1>1. At(execs', V) = At(execs', W) /\ At(uninit', V) = At(uninit', W)
  BY SameAt DEF Loop, Jobs
<1> QED BY <1>1 DEF One, None, Lone

\* Who has the turn, and what comes of it.
LEMMA TurnHow ==
    ASSUME Loop, Acts, NEW k \in {"player", "hunt"}, Turn(k), Done \/ \E j : Stay(j)
    PROVE  IF k = "player" THEN PlayerTurn ELSE HuntTurn
<1>1. Me.kind = k /\ phase = "turns" /\ ~(execs' = execs /\ cursor' = cursor)
  BY MyTurn, TurnEnds DEF Stay
<1>2. CASE \/ Delegate \/ Lay \/ GiveUp \/ Build \/ PostTurn \/ SiloTurn \/ SamTurn \/ CityTurn \/ PortJoins
           \/ FactoryTurn \/ Launch \/ Fizzle \/ NukeTurn \/ MirvLaunch \/ MirvTurn \/ DeleteTurn
           \/ StationTurn \/ TrainTurn \/ RecomputeTurn
  <2>1. \E m \in Staff \cup {"nuke", "mirv", "delete", "station", "train", "recompute"} : Turn(m)
    <3>1. CASE \/ Delegate \/ Lay \/ GiveUp \/ Build \/ PostTurn \/ SiloTurn \/ SamTurn \/ CityTurn \/ PortJoins
               \/ FactoryTurn
      <4>1. Turn("build") \/ \E m \in Runners : Turn(m)
        BY <3>1 DEF Delegate, Lay, GiveUp, Build, PostTurn, SiloTurn, SamTurn, CityTurn, PortJoins,
               FactoryTurn, Runners
      <4> QED BY <4>1 DEF Staff
    <3>2. CASE \/ Launch \/ Fizzle \/ NukeTurn \/ MirvLaunch \/ MirvTurn \/ DeleteTurn
               \/ StationTurn \/ TrainTurn \/ RecomputeTurn
      BY <3>2 DEF Launch, Fizzle, NukeTurn, MirvLaunch, MirvTurn, DeleteTurn, StationTurn, TrainTurn,
             RecomputeTurn
    <3> QED BY <1>2, <3>1, <3>2
  <2>2. \E m \in Staff \cup {"nuke", "mirv", "delete", "station", "train", "recompute"} : Me.kind = m
    BY <2>1, MyTurn
  <2> QED BY <1>1, <2>2 DEF Staff, Runners
<1>3. CASE PlayerTurn
  BY <1>1, <1>3, MyTurn DEF PlayerTurn
<1>4. CASE HuntTurn
  BY <1>1, <1>4, MyTurn DEF HuntTurn
<1>5. CASE StartTick \/ StartInits \/ EndTick
  BY <1>1, <1>5 DEF StartTick, StartInits, EndTick, OpenTick, AllHadTurns, CloseTick
<1>6. CASE InitPlain \/ InitMirv \/ InitUpgrade \/ InitDelete \/ InitStation \/ InitTrain
  BY <1>1, <1>6 DEF InitPlain, InitMirv, InitUpgrade, InitDelete, InitStation, InitTrain, DueInit
<1>7. CASE Outside
  <2>1. ASSUME NEW x, Order(x) \/ Conquer(x) \/ Ally(x) \/ Part(x) PROVE execs' = execs /\ cursor' = cursor
    BY <2>1 DEF Order, Conquer, Ally, Part
  <2> QED BY <1>1, <1>7, <2>1 DEF Outside
<1> QED BY <1>2, <1>3, <1>4, <1>5, <1>6, <1>7 DEF Acts, Engine
LEMMA EndsHow ==
    ASSUME Loop, Acts, NEW k \in {"player", "hunt"}, Turn(k), Done
    PROVE  /\ k = "player" => PlayerTurn /\ ~Has(Me.by)
           /\ k = "hunt" => HuntTurn
<1>1. IF k = "player" THEN PlayerTurn ELSE HuntTurn
  BY TurnHow
<1>2. \A j : ~Stay(j)
  BY TurnEnds
<1> QED BY <1>1, <1>2 DEF PlayerTurn

\* Where an execution is found, before and after.
LEMMA StayIsThere ==
    ASSUME Loop, NEW k, Turn(k), NEW j, Stay(j)
    PROVE  Me \in Jobs /\ j \in Jobs' /\ j \in Range(execs')
<1>1. execs \in Seq(Range(execs)) /\ cursor \in 1 .. Len(execs) /\ execs' = [execs EXCEPT ![cursor] = j]
  BY MyTurn DEF Loop, Stay
<1>2. j \in Range(execs')
  BY <1>1, ExceptList
<1> QED BY <1>2, MyTurn DEF Jobs
LEMMA InitIsThere ==
    ASSUME Loop, NEW k, DueInit(k), NEW j, Append1(j)
    PROVE  New1 \in Jobs /\ j \in Jobs'
<1>1. execs \in Seq(Range(execs)) /\ execs' = Append(execs, j)
  BY DEF Loop, Append1
<1>2. Range(execs') = Range(execs) \cup {j}
  BY <1>1, AppendList
<1> QED BY <1>2, MyInit DEF Jobs
\* Nobody is added, unless a launcher shoots.
LEMMA QuietUnlessSam ==
    ASSUME TypeOK, Loop, Names, NEW W, Lay \/ Build \/ SamTurn \/ Adds,
           \A j \in W : j.kind = "player" \/ (j.kind = "hunt" /\ (SamTurn => j.unit # NoUnitId))
    PROVE  Quiet(W)
<1>1. ASSUME NEW j, Add(<<j>>), j \notin W PROVE Quiet(W)
  <2>1. PICK js : js = <<j>> /\ js \in Seq(Range(js)) /\ Range(js) = {j}
    BY OneJob
  <2> QED BY <1>1, <2>1 DEF Quiet
<1>2. CASE Adds
  BY <1>2 DEF Adds, Quiet, Bystander
<1>3. CASE Lay \/ Build \/ SamTurn
  <2>1. \/ uninit' = uninit
        \/ \E j : Add(<<j>>) /\ (j.kind \in Runners \/ (SamTurn /\ j.kind = "hunt" /\ j.unit = NoUnitId))
    BY <1>3, AddsWorker
  <2> QED BY <1>1, <2>1 DEF Quiet, Runners
<1> QED BY <1>2, <1>3

LEMMA DeadIs == ASSUME Loop, NEW p, NEW S, Jobs \subseteq S
                PROVE  Dead(p) <=> At(execs, Rulers(S, p)) = {}
  BY Listed DEF Dead, AllJobs, At, Rulers, Loop, Jobs
LEMMA DeadAfter == ASSUME Loop', NEW p, NEW S, Jobs' \subseteq S
                   PROVE  Dead(p)' <=> At(execs', Rulers(S, p)) = {}
<1>1. execs' \in Seq(Range(execs')) /\ Range(execs') \subseteq S
  BY DEF Loop, Jobs
<1>2. \A i \in 1 .. Len(execs') : execs'[i] \in S
  BY <1>1, Listed
<1> QED BY <1>2 DEF Dead, AllJobs, At, Rulers
\* A player has one PlayerExecution, and none any more once it is over.
LEMMA RulersStep ==
    ASSUME TypeOK, Loop, Names, Loop', PlayersFirst, Acts, NEW p,
           OneAtMost(execs, uninit, Rulers(Jobs, p))
    PROVE  /\ OneAtMost(execs', uninit', Rulers(Jobs', p))
           /\ Dead(p) \/ (PlayerTurn /\ Me.by = p /\ ~Has(p)) => Dead(p)'
<1>0. PICK S : S = Jobs \cup Jobs'
  OBVIOUS
<1>1. Jobs \subseteq S /\ Jobs' \subseteq S
  BY <1>0
<1> DEFINE W == Rulers(S, p)
<1>2. /\ \A j \in Jobs : j \in Rulers(Jobs, p) <=> j \in W
      /\ \A j \in Jobs' : j \in Rulers(Jobs', p) <=> j \in W
      /\ \A j \in S : j \in W <=> j.kind = "player" /\ j.by = p
      /\ W \subseteq S
  BY <1>1 DEF Rulers
<1>3. Dead(p) <=> At(execs, W) = {}
  BY <1>1, DeadIs
<1>4. Dead(p)' <=> At(execs', W) = {}
  BY <1>1, DeadAfter
<1> HIDE DEF W
<1>5. OneAtMost(execs, uninit, W)
  BY <1>2, CountIn DEF OneAtMost
<1>6. At(uninit, W) = {}
  <2>1. \A j \in Range(uninit) : j \notin W
    BY <1>2 DEF PlayersFirst
  <2> QED BY <2>1, NobodyAt DEF Loop
<1>7. /\ \A j \in W : j.kind = "player"
      /\ Lay \/ Build \/ SamTurn \/ Adds => Quiet(W)
  <2>1. \A j \in W : j.kind = "player"
    BY <1>2
  <2> QED BY <2>1, QuietUnlessSam
<1>8. CASE PlayerTurn /\ Done /\ Me.by = p
  <2>1. Turn("player") /\ uninit' = uninit
    BY <1>8 DEF PlayerTurn
  <2>2. Me \in W /\ Me \in Range(execs)
    BY <1>1, <1>2, <1>8, <2>1, MyTurn
  <2>3. At(execs, W) # {}
    BY <2>2, SomebodyAt DEF Loop
  <2>4. Lone(execs, W)
    BY <1>5, <2>3 DEF OneAtMost, One, None
  <2>5. At(execs', W) = {}
    BY <1>8, <2>1, <2>2, <2>4, TallyDone
  <2>6. OneAtMost(execs', uninit', W)
    BY <1>6, <2>1, <2>5 DEF OneAtMost, None
  <2>7. OneAtMost(execs', uninit', Rulers(Jobs', p))
    BY <1>2, <2>6, CountAfter DEF OneAtMost
  <2> QED BY <1>4, <2>5, <2>7
<1>9. CASE ~(PlayerTurn /\ Done /\ Me.by = p)
  <2>1. ASSUME NEW k, NEW j, Turn(k), Stay(j), Alike(Me, j) PROVE j \in W <=> Me \in W
    <3>1. Me \in S /\ j \in S
      BY <1>1, <2>1, StayIsThere
    <3> QED BY <1>2, <2>1, <3>1 DEF Alike
  <2>2. ASSUME NEW k, Turn(k), Done PROVE Me \notin W
    <3>1. Me.kind = k
      BY <2>2, MyTurn
    <3> QED BY <1>2, <1>9, <2>2, <3>1, EndsHow
  <2>3. ASSUME NEW k, NEW j, DueInit(k), Append1(j), Alike(New1, j) PROVE j \in W <=> New1 \in W
    <3>1. New1 \in S /\ j \in S
      BY <1>1, <2>3, InitIsThere
    <3> QED BY <1>2, <2>3, <3>1 DEF Alike
  <2>4. ASSUME NEW k \in {"upgrade", "delete", "train"}, DueInit(k) PROVE New1 \notin W
    <3>1. New1.kind = k
      BY <2>4, MyInit
    <3> QED BY <1>7, <3>1
  <2>5. AsManyOf(execs, uninit, execs', uninit', W)
    BY <1>7, <2>1, <2>2, <2>3, <2>4, TallyKeeps DEF Steady
  <2>6. OneAtMost(execs', uninit', W)
    BY <1>5, <2>5, AtMostKept
  <2>7. OneAtMost(execs', uninit', Rulers(Jobs', p))
    BY <1>2, <2>6, CountAfter DEF OneAtMost
  <2>8. Dead(p) => Dead(p)'
    BY <1>3, <1>4, <1>6, <2>5 DEF AsManyOf, None
  <2>9. ~(PlayerTurn /\ Me.by = p /\ ~Has(p))
    BY <1>9 DEF PlayerTurn
  <2> QED BY <2>7, <2>8, <2>9
<1> QED BY <1>8, <1>9

\* A missile is steered by one execution, that of its owner.
LEMMA RidersStep ==
    ASSUME TypeOK, Loop, Names, Loop', Acts, NEW m \in UnitIds,
           OneAtMost(execs, uninit, Riders(Jobs, m))
    PROVE  /\ OneAtMost(execs', uninit', Riders(Jobs', m))
           /\ HuntTurn /\ Done /\ Me.unit = m => None(execs', uninit', Riders(Jobs', m))
<1>0. PICK S : S = Jobs \cup Jobs'
  OBVIOUS
<1>1. Jobs \subseteq S /\ Jobs' \subseteq S
  BY <1>0
<1> DEFINE W == Riders(S, m)
<1>2. /\ \A j \in Jobs : j \in Riders(Jobs, m) <=> j \in W
      /\ \A j \in Jobs' : j \in Riders(Jobs', m) <=> j \in W
      /\ \A j \in S : j \in W <=> j.kind = "hunt" /\ j.unit = m
      /\ W \subseteq S
  BY <1>1 DEF Riders
<1> HIDE DEF W
<1>3. OneAtMost(execs, uninit, W)
  BY <1>2, CountIn DEF OneAtMost
<1>4. SUFFICES /\ OneAtMost(execs', uninit', W)
               /\ HuntTurn /\ Done /\ Me.unit = m => None(execs', uninit', W)
  BY <1>2, CountAfter DEF OneAtMost
<1>5. /\ \A j \in W : j.kind = "hunt" /\ j.unit # NoUnitId
      /\ Lay \/ Build \/ SamTurn \/ Adds => Quiet(W)
  <2>1. \A j \in W : j.kind = "hunt" /\ j.unit # NoUnitId
    BY <1>2, Numbers
  <2> QED BY <2>1, QuietUnlessSam
<1>6. ASSUME NEW k \in {"upgrade", "delete", "train"}, DueInit(k) PROVE New1 \notin W
  <2>1. New1.kind = k
    BY <1>6, MyInit
  <2> QED BY <1>5, <2>1
<1>7. CASE HuntTurn /\ Done /\ Me.unit = m
  <2>1. Turn("hunt") /\ uninit' = uninit
    BY <1>7 DEF HuntTurn
  <2>2. Me \in W /\ Me \in Range(execs)
    BY <1>1, <1>2, <1>7, <2>1, MyTurn
  <2>3. At(execs, W) # {}
    BY <2>2, SomebodyAt DEF Loop
  <2>4. Lone(execs, W) /\ At(uninit, W) = {}
    BY <1>3, <2>3 DEF OneAtMost, One, None
  <2>5. At(execs', W) = {}
    BY <1>7, <2>1, <2>2, <2>4, TallyDone
  <2> QED BY <2>1, <2>4, <2>5 DEF OneAtMost, None
<1>8. CASE ~(HuntTurn /\ Done /\ Me.unit = m) /\ (FreeIds # {} => m # Fresh)
  <2>0. ASSUME NEW i \in S, NEW j \in S, Alike(i, j) PROVE j \in W <=> i \in W
    <3>1. j.kind = i.kind
      BY <2>0 DEF Alike
    <3>2. CASE i.kind = "hunt" /\ j.unit # i.unit
      <4>1. i.unit = NoUnitId /\ FreeIds # {} /\ j.unit = Fresh
        BY <2>0, <3>2 DEF Alike
      <4> QED BY <1>2, <1>8, <2>0, <4>1, Numbers
    <3> QED BY <1>2, <2>0, <3>1, <3>2
  <2>1. ASSUME NEW k, NEW j, Turn(k), Stay(j), Alike(Me, j) PROVE j \in W <=> Me \in W
    <3>1. Me \in S /\ j \in S
      BY <1>1, <2>1, StayIsThere
    <3> QED BY <2>0, <2>1, <3>1
  <2>2. ASSUME NEW k, Turn(k), Done PROVE Me \notin W
    <3>1. Me.kind = k
      BY <2>2, MyTurn
    <3> QED BY <1>2, <1>8, <2>2, <3>1, EndsHow
  <2>3. ASSUME NEW k, NEW j, DueInit(k), Append1(j), Alike(New1, j) PROVE j \in W <=> New1 \in W
    <3>1. New1 \in S /\ j \in S
      BY <1>1, <2>3, InitIsThere
    <3> QED BY <2>0, <2>3, <3>1
  <2>5. AsManyOf(execs, uninit, execs', uninit', W)
    BY <1>5, <1>6, <2>1, <2>2, <2>3, TallyKeeps DEF Steady
  <2> QED BY <1>3, <1>8, <2>5, AtMostKept
<1>9. CASE ~(HuntTurn /\ Done /\ Me.unit = m) /\ FreeIds # {} /\ m = Fresh
  <2>1. \A j \in Jobs : j \notin W
    <3>1. \A j \in Jobs : j.unit \notin FreeIds
      BY JobsNamed
    <3> QED BY <1>1, <1>2, <1>9, <3>1, FreshIsFree
  <2>2. At(execs, W) = {} /\ At(uninit, W) = {}
    <3>1. \A j \in Range(execs) \cup Range(uninit) : j \notin W
      BY <2>1 DEF Jobs
    <3> QED BY <3>1, NobodyAt DEF Loop
  <2>3. ASSUME uninit' = uninit \/ Lay \/ Build \/ SamTurn \/ Adds PROVE At(uninit', W) = {}
    <3>1. Quiet(W)
      BY <1>5, <2>3 DEF Quiet
    <3>2. AsMany(uninit, uninit', W)
      BY <3>1, AsManySame, TallyAdds DEF Quiet
    <3> QED BY <2>2, <3>2 DEF AsMany
  <2>4. ASSUME NEW k, Turn(k), Stays PROVE At(execs', W) = {} \/ Lone(execs', W)
    <3>1. Me \notin W
      BY <2>1, <2>4, MyTurn
    <3>2. CASE Done
      BY <2>2, <2>4, <3>1, <3>2, TallyDone DEF AsMany
    <3>3. ASSUME NEW j, Stay(j) PROVE At(execs', W) = {} \/ Lone(execs', W)
      BY <2>2, <2>4, <3>1, <3>3, TallyStay DEF AsMany
    <3> QED BY <2>4, <3>2, <3>3 DEF Stays
  <2>5. ASSUME NEW k, DueInit(k), NEW j, Append1(j) PROVE OneAtMost(execs', uninit', W)
    <3>1. /\ execs \in Seq(Range(execs)) /\ uninit \in Seq(Range(uninit)) /\ uninit # <<>>
          /\ execs' = Append(execs, j) /\ uninit' = Tail(uninit) /\ New1 = uninit[1] /\ New1 \notin W
      BY <2>1, <2>5, MyInit DEF Loop, DueInit, Append1, New1
    <3>2. /\ j \notin W => AsMany(execs, execs', W)
          /\ j \in W /\ At(execs, W) = {} => Lone(execs', W)
      BY <3>1, AppendAt
    <3>3. AsMany(uninit, uninit', W)
      BY <3>1, TailAt
    <3> QED BY <2>2, <3>2, <3>3 DEF AsMany, OneAtMost, None, One
  <2>6. CASE execs' = execs /\ (uninit' = uninit \/ Adds)
    BY <2>2, <2>3, <2>6 DEF OneAtMost, None
  <2>7. CASE \E k \in {"upgrade", "delete", "train"} : DueInit(k) /\ Drop1
    <3>1. AsManyOf(execs, uninit, execs', uninit', W)
      BY <1>6, <2>7, TallyDrop
    <3> QED BY <1>3, <1>9, <3>1, AtMostKept
  <2>8. CASE /\ \E k : Turn(k)
             /\ Stays /\ (uninit' = uninit \/ Lay \/ Build \/ SamTurn \/ Adds)
    BY <1>9, <2>3, <2>4, <2>8 DEF OneAtMost, None, One
  <2>9. OneAtMost(execs', uninit', W)
    BY <2>5, <2>6, <2>7, <2>8, Deeds
  <2> QED BY <1>9, <2>9
<1> QED BY <1>7, <1>8, <1>9

LEMMA EditsOfType ==
    ASSUME NEW v \in UnitType, NEW n
    PROVE  /\ \A q : [v EXCEPT !.queue = q, !.doom = n].type = v.type
           /\ [v EXCEPT !.doom = n].type = v.type /\ [v EXCEPT !.building = n].type = v.type
           /\ [v EXCEPT !.locked = n].type = v.type
  BY DEF UnitType
\* What takes a missile out of the sky: its own execution, or the death of its owner.
LEMMA MissileGoes ==
    ASSUME TypeOK, Loop, Names, Acts, NEW m \in UnitIds, unit[m].type = "Missile",
           unit'[m].type = "none"
    PROVE  \/ PlayerTurn /\ unit[m].holder = Me.by /\ ~Has(Me.by)
           \/ HuntTurn /\ Done /\ Me.unit = m
<1>1. /\ Sound(unit) /\ unit[m] \in UnitType /\ Exists(m) /\ unit'[m] # unit[m] /\ m # NoUnitId
      /\ (FreeIds # {} => m # Fresh) /\ unit = [u \in UnitIds |-> unit[u]]
      /\ "Missile" \notin Structures \cup Bombs \cup {"Train", "none"}
  BY UnitsSound, FreshIsFree, Numbers DEF Sound, Apt, Exists, Structures, Bombs
<1>2. CASE \/ StartTick \/ StartInits \/ Delegate \/ GiveUp \/ PostTurn \/ Fizzle \/ InitPlain
           \/ InitMirv \/ CityTurn \/ PortJoins \/ FactoryTurn \/ StationTurn \/ InitStation
           \/ RecomputeTurn
  <2>1. unit' = unit
    BY <1>2 DEF StartTick, StartInits, Delegate, GiveUp, PostTurn, Fizzle, InitPlain,
           InitMirv, CityTurn, PortJoins, FactoryTurn, StationTurn, InitStation, RecomputeTurn,
           Gone
  <2> QED BY <1>1, <2>1
<1>3. CASE EndTick
  <2>1. \E q, n : unit'[m] = [unit[m] EXCEPT !.queue = q, !.doom = n]
    BY <1>3 DEF EndTick
  <2>2. unit'[m].type = unit[m].type
    BY <1>1, <2>1, EditsOfType
  <2> QED BY <2>2
<1>4. CASE PlayerTurn
  <2>1. PICK p : p = Me.by
    OBVIOUS
  <2>2. Reconciled(p)[m] = unit[m]
    BY <1>1 DEF Reconciled, OfType
  <2>3. unit' = Reconciled(p) \/ (~Has(p) /\ unit' = Buried(Reconciled(p), p))
    BY <1>4, <2>1 DEF PlayerTurn
  <2>4. ~Has(p) /\ unit' = Buried(Reconciled(p), p)
    BY <1>1, <2>2, <2>3
  <2>5. unit[m].holder = p
    BY <1>1, <2>2, <2>4 DEF Buried
  <2> QED BY <1>4, <2>1, <2>4, <2>5
<1>5. CASE SiloTurn
  <2>1. Me.unit \in UnitIds /\ (unit' = unit \/ unit' = Reloaded(Me.unit))
    BY <1>5, MyTurn DEF SiloTurn, JobOK, Runners, Gone
  <2>2. Reloaded(Me.unit)[m].type = unit[m].type
    BY <1>1, <2>1, ReloadedSound
  <2> QED BY <1>1, <2>1, <2>2
<1>6. CASE SamTurn
  <2>1. Me.unit \in UnitIds
    BY <1>6, MyTurn DEF SamTurn, JobOK, Runners
  <2> DEFINE s == Me.unit
             un == Reloaded(s)
             shot == Launched(un, s)
             hits == Incoming(unit[s].holder, unit[s].tile)
  <2>2. Exists(s) => un[m].type = unit[m].type /\ shot[m].type = unit[m].type /\ shot[m] \in UnitType
                     /\ shot = [u \in UnitIds |-> shot[u]]
    BY <1>1, <2>1, SamUnits DEF Sound, Apt
  <2>3. m \notin hits
    BY <1>1 DEF Incoming, Enemies, OfType
  <2>4. \/ unit' = unit
        \/ /\ Exists(s)
           /\ \/ unit' = un
              \/ unit' = [u \in UnitIds |-> IF u \in hits THEN NoUnit ELSE shot[u]]
              \/ \E u : unit' = [shot EXCEPT ![u].locked = TRUE]
    BY <1>6 DEF SamTurn, Gone
  <2> HIDE DEF s, un, shot, hits
  <2>5. CASE Exists(s) /\ (unit' = un \/ unit' = [u \in UnitIds |-> IF u \in hits THEN NoUnit ELSE shot[u]])
    BY <1>1, <2>2, <2>3, <2>5
  <2>6. ASSUME Exists(s), NEW u, unit' = [shot EXCEPT ![u].locked = TRUE] PROVE FALSE
    <3>1. unit'[m] = shot[m] \/ unit'[m] = [shot[m] EXCEPT !.locked = TRUE]
      BY <2>2, <2>6
    <3>2. unit'[m].type = shot[m].type
      BY <2>2, <2>6, <3>1, EditsOfType
    <3> QED BY <1>1, <2>2, <2>6, <3>2
  <2> QED BY <1>1, <2>4, <2>5, <2>6
<1>7. CASE HuntTurn
  <2>1. Turn("hunt") /\ (Me.unit = NoUnitId => FreeIds # {})
    BY <1>7 DEF HuntTurn
  <2>2. /\ Me.prey \in UnitIds /\ WithHunter[m] = unit[m] /\ WithHunter = [u \in UnitIds |-> WithHunter[u]]
        /\ Hunter \in UnitIds /\ Me.prey # m
    <3>1. m \in Kin
      BY <1>1, <2>1 DEF Kin
    <3>2. Fits(Me) /\ Me.kind = "hunt"
      BY <2>1, MyTurn DEF Names
    <3> QED BY <1>1, <2>1, <3>1, <3>2, HunterFacts DEF Sound, Fits
  <2>3. unit'[m] = unit[m] \/ (m = Hunter /\ Done)
    BY <1>7, <2>2, HuntTurnIs DEF CalledOffHunt, Struck
  <2>4. m = Hunter => Me.unit = m
    BY <1>1, <2>1 DEF Hunter
  <2> QED BY <1>1, <1>7, <2>3, <2>4
<1>8. CASE Lay \/ MirvLaunch \/ InitTrain
  <2>1. unit' = unit \/ (FreeIds # {} /\ \E w : unit' = [unit EXCEPT ![Fresh] = w])
    BY <1>8 DEF Lay, MirvLaunch, InitTrain
  <2> QED BY <1>1, <2>1
<1>9. CASE Launch
  <2>1. PICK w, f : f = Fresh /\ w = New(Me.type, Me.by, Me.tile)
    OBVIOUS
  <2>2. /\ FreeIds # {} /\ f \in UnitIds /\ Me.type \in UnitTypes
        /\ \/ unit' = [unit EXCEPT ![f] = w]
           \/ \E s \in UnitIds : /\ unit[s].type = "Silo"
                                 /\ unit' = Launched([unit EXCEPT ![f] = w], s)
    BY <1>9, <2>1, FreshIsFree DEF Launch, Ready, OfType, UnitTypes, Bombs
  <2>3. m # f
    BY <1>1, <2>1, <2>2
  <2>4. CASE unit' = [unit EXCEPT ![f] = w]
    BY <1>1, <2>3, <2>4
  <2>5. ASSUME NEW s \in UnitIds, unit[s].type = "Silo", unit' = Launched([unit EXCEPT ![f] = w], s)
        PROVE  FALSE
    <3>1. m # s
      BY <1>1, <2>5 DEF Structures
    <3>2. unit'[m] = [unit EXCEPT ![f] = w][m]
      BY <1>1, <2>2, <2>3, <2>5, <3>1 DEF Launched
    <3> QED BY <1>1, <2>3, <3>2
  <2> QED BY <2>2, <2>4, <2>5
<1>10. CASE Build \/ InitUpgrade \/ InitDelete
  <2>1. \/ unit' = unit
        \/ \E u, n : unit' = [unit EXCEPT ![u].building = n] \/ unit' = [unit EXCEPT ![u].doom = n]
        \/ \E u, n, q : unit[u].type \in Structures /\ unit' = [unit EXCEPT ![u].level = n, ![u].queue = q]
    <3>1. InitUpgrade => \/ unit' = unit
                         \/ \E u, n, q : unit[u].type \in Structures
                                         /\ unit' = [unit EXCEPT ![u].level = n, ![u].queue = q]
      <4>1. InitUpgrade => unit' = unit \/ (unit[New1.unit].type \in Structures /\ unit' = Upgraded(New1.unit))
        BY DEF InitUpgrade
      <4>2. \A u : \E n, q : Upgraded(u) = [unit EXCEPT ![u].level = n, ![u].queue = q]
        BY DEF Upgraded
      <4>3. PICK u : u = New1.unit
        OBVIOUS
      <4>4. PICK n, q : Upgraded(u) = [unit EXCEPT ![u].level = n, ![u].queue = q]
        BY <4>2
      <4>5. InitUpgrade => unit' = unit \/ (unit[u].type \in Structures /\ unit' = Upgraded(u))
        BY <4>1, <4>3
      <4> QED BY <4>4, <4>5
    <3> QED BY <1>10, <3>1 DEF Build, InitDelete
  <2>2. ASSUME NEW u, NEW n, unit' = [unit EXCEPT ![u].building = n] \/ unit' = [unit EXCEPT ![u].doom = n]
        PROVE  FALSE
    <3>1. \/ unit'[m] = unit[m] \/ unit'[m] = [unit[m] EXCEPT !.building = n]
          \/ unit'[m] = [unit[m] EXCEPT !.doom = n]
      BY <1>1, <2>2
    <3>2. /\ [unit[m] EXCEPT !.building = n].type = unit[m].type
          /\ [unit[m] EXCEPT !.doom = n].type = unit[m].type
      BY <1>1, EditsOfType
    <3> QED BY <1>1, <3>1, <3>2
  <2>3. ASSUME NEW u, NEW n, NEW q, unit[u].type \in Structures,
               unit' = [unit EXCEPT ![u].level = n, ![u].queue = q]
        PROVE  FALSE
    <3>1. m # u
      BY <1>1, <2>3
    <3>2. unit'[m] = unit[m]
      BY <1>1, <2>3, <3>1
    <3> QED BY <1>1, <3>2
  <2> QED BY <1>1, <2>1, <2>2, <2>3
<1>11. CASE NukeTurn
  <2>1. Turn("nuke") /\ Me.unit # NoUnitId
    BY <1>11 DEF NukeTurn
  <2>2. Me.unit # m
    <3>1. Fits(Me) /\ Me.kind = "nuke"
      BY <2>1, MyTurn DEF Names
    <3>2. Me.unit = m => <<"nuke", "Missile">> \in Crew
      BY <1>1, <3>1 DEF Fits
    <3> QED BY <3>2 DEF Crew
  <2>3. \/ unit' = unit
        \/ \E S, caught : caught \subseteq OfType({"Train"}) /\ unit' = Without(On(S) \cup caught \cup {Me.unit})
    BY <1>11 DEF NukeTurn, Detonate
  <2>4. ASSUME NEW S, NEW caught, caught \subseteq OfType({"Train"}) PROVE m \notin On(S) \cup caught \cup {Me.unit}
    BY <1>1, <2>2, <2>4 DEF On, OfType
  <2> QED BY <1>1, <2>3, <2>4 DEF Without
<1>12. CASE MirvTurn \/ DeleteTurn \/ TrainTurn
  <2>1. PICK k \in {"mirv", "delete", "train"} : Turn(k)
    <3>1. Turn("mirv") \/ Turn("delete") \/ Turn("train")
      BY <1>12 DEF MirvTurn, DeleteTurn, TrainTurn
    <3> QED BY <3>1
  <2>2. Me.unit # m
    <3>1. Fits(Me) /\ Me.kind = k
      BY <2>1, MyTurn DEF Names
    <3>2. Me.unit = m => <<k, "Missile">> \in Crew
      BY <1>1, <3>1 DEF Fits
    <3>3. <<k, "Missile">> \notin Crew
      BY <1>1 DEF Crew
    <3> QED BY <3>2, <3>3
  <2>3. unit' = unit \/ unit' = Without({Me.unit})
    BY <1>12 DEF MirvTurn, DeleteTurn, TrainTurn, DeleteTrain
  <2> QED BY <1>1, <2>2, <2>3 DEF Without
<1>13. CASE Outside
  <2>1. ASSUME NEW x, Order(x) \/ Conquer(x) \/ Part(x) PROVE unit' = unit
    BY <2>1 DEF Order, Conquer, Part
  <2>2. \A p, q : m \notin CalledOff(p, q)
    BY <1>1 DEF CalledOff, Aimed
  <2>3. ASSUME NEW x, Ally(x) PROVE unit'[m] = unit[m]
    <3>1. unit' = unit \/ unit' = Without(UNION {CalledOff(p, q) : p, q \in x})
      BY <2>3 DEF Ally
    <3>2. m \notin UNION {CalledOff(p, q) : p, q \in x}
      BY <2>2
    <3> QED BY <3>1, <3>2 DEF Without
  <2> QED BY <1>1, <1>13, <2>1, <2>3 DEF Outside
<1> QED BY <1>2, <1>3, <1>4, <1>5, <1>6, <1>7, <1>8, <1>9, <1>10, <1>11, <1>12, <1>13 DEF Acts, Engine

\* Where the executions of missiles come from.
LEMMA HuntsGo ==
    ASSUME TypeOK, Loop, Names, Acts, NEW j \in Jobs', j.kind = "hunt", j.unit # NoUnitId
    PROVE  \/ j \in Jobs
           \/ HuntTurn /\ unit' = WithHunter /\ j.unit = Hunter /\ WithHunter[Hunter].holder = Me.by
<1>1. execs \in Seq(Range(execs)) /\ uninit \in Seq(Range(uninit))
  BY DEF Loop
<1>2. CASE j \in Range(uninit')
  <2>1. CASE uninit # <<>> /\ uninit' = Tail(uninit)
    <3>1. Range(uninit) = Range(uninit') \cup {uninit[1]}
      BY <1>1, <2>1, TailList
    <3> QED BY <1>2, <3>1 DEF Jobs
  <2>2. ASSUME NEW js, Add(js), js \in Seq(Range(js)) PROVE j \in Range(uninit) \/ j \in Range(js)
    BY <1>1, <1>2, <2>2, ConcatList DEF Add, Joined
  <2>3. CASE Adds
    BY <2>2, <2>3 DEF Adds, Bystander, Jobs
  <2>4. ASSUME NEW k, Add(<<k>>), k.kind \in Runners \/ (k.kind = "hunt" /\ k.unit = NoUnitId)
        PROVE  j \in Range(uninit)
    <3>1. PICK js : js = <<k>> /\ js \in Seq(Range(js)) /\ Range(js) = {k}
      BY OneJob
    <3>2. j \in Range(uninit) \/ j = k
      BY <2>2, <2>4, <3>1
    <3> QED BY <2>4, <3>2 DEF Runners
  <2>5. ASSUME Lay \/ Build \/ SamTurn PROVE j \in Range(uninit)
    BY <1>2, <2>4, <2>5, AddsWorker
  <2> QED BY <1>2, <2>1, <2>3, <2>5, Added DEF DueInit, Jobs
<1>3. CASE j \in Range(execs')
  <2>1. ASSUME NEW k, Turn(k), Done PROVE j \in Jobs
    <3>1. execs' = Removed(execs, cursor) /\ cursor \in 1 .. Len(execs)
      BY <2>1, MyTurn DEF Done, Removed
    <3>2. Range(execs') \subseteq Range(execs)
      BY <1>1, <3>1, RemovedList
    <3> QED BY <1>3, <3>2 DEF Jobs
  <2>2. ASSUME NEW k, Turn(k), NEW i, Stay(i), Alike(Me, i)
        PROVE  \/ j \in Jobs
               \/ HuntTurn /\ unit' = WithHunter /\ j.unit = Hunter /\ WithHunter[Hunter].holder = Me.by
    <3>1. execs' = [execs EXCEPT ![cursor] = i] /\ cursor \in 1 .. Len(execs) /\ Me.kind = k
      BY <2>2, MyTurn DEF Stay
    <3>2. Range(execs') \subseteq Range(execs) \cup {i}
      BY <1>1, <3>1, ExceptList
    <3>3. CASE j \in Range(execs)
      BY <3>3 DEF Jobs
    <3>4. CASE j = i
      <4>1. k = "hunt"
        BY <2>2, <3>1, <3>4 DEF Alike
      <4>2. HuntTurn
        BY <2>2, <4>1, TurnHow
      <4>3. ~Done
        BY <2>2, TurnEnds
      <4>4. PICK n : OnItsWay /\ unit' = WithHunter /\ Stay([Me EXCEPT !.unit = Hunter, !.left = n])
        BY <4>2, <4>3, HuntTurnIs
      <4>5. PICK h : h = [Me EXCEPT !.unit = Hunter, !.left = n]
        OBVIOUS
      <4>6. h.unit = Hunter /\ execs' = [execs EXCEPT ![cursor] = h]
        BY <2>2, <4>4, <4>5, MyTurn DEF JobOK, Stay
      <4>7. h = i
        BY <1>1, <3>1, <4>6
      <4> QED BY <3>4, <4>2, <4>4, <4>6, <4>7 DEF OnItsWay
    <3> QED BY <1>3, <3>2, <3>3, <3>4
  <2>3. ASSUME NEW k, DueInit(k), NEW i, Append1(i), Alike(New1, i), k = "hunt" => i = New1 PROVE j \in Jobs
    <3>1. execs' = Append(execs, i) /\ New1 \in Jobs /\ New1.kind = k
      BY <2>3, MyInit DEF Append1
    <3>2. Range(execs') = Range(execs) \cup {i}
      BY <1>1, <3>1, AppendList
    <3> QED BY <1>3, <2>3, <3>1, <3>2 DEF Alike, Jobs
  <2>4. execs' = execs => j \in Jobs
    BY <1>3 DEF Jobs
  <2> QED BY <2>1, <2>2, <2>3, <2>4, TurnOrNot DEF Stays
<1> QED BY <1>2, <1>3 DEF Jobs
\* A missile whose own execution is not over is gone only with its owner.
Steered == \A j \in Jobs : j.kind = "hunt" /\ j.unit # NoUnitId /\ ~Exists(j.unit) => Dead(j.by)
Manned == /\ \A p \in Players : OneAtMost(execs, uninit, Rulers(Jobs, p))
          /\ \A m \in UnitIds : OneAtMost(execs, uninit, Riders(Jobs, m))
LEMMA SteeredStep ==
    ASSUME TypeOK, Loop, Names, Loop', Acts, PlayersFirst, Manned, Steered
    PROVE  Steered'
<1>1. SUFFICES ASSUME NEW j \in Jobs', j.kind = "hunt", j.unit # NoUnitId,
                      unit'[j.unit].type = "none"
               PROVE  Dead(j.by)'
  BY DEF Steered, Exists
<1>2. j.unit \in UnitIds /\ j.by \in Players
  BY <1>1 DEF Loop, JobOK
<1>3. CASE HuntTurn /\ unit' = WithHunter /\ j.unit = Hunter /\ WithHunter[Hunter].holder = Me.by
  <2>1. Turn("hunt") /\ (Me.unit = NoUnitId => FreeIds # {})
    BY <1>3 DEF HuntTurn
  <2>2. Sound(WithHunter) /\ Me.by \in Players
    BY <2>1, HunterFacts
  <2> QED BY <1>1, <1>2, <1>3, <2>2, Numbers DEF Sound, Apt
<1>4. CASE j \in Jobs
  <2>1. /\ Dead(j.by) \/ (PlayerTurn /\ Me.by = j.by /\ ~Has(j.by)) => Dead(j.by)'
    BY <1>2, RulersStep DEF Manned
  <2>2. CASE ~Exists(j.unit)
    BY <1>1, <1>4, <2>1, <2>2 DEF Steered
  <2>3. CASE Exists(j.unit)
    <3>1. unit[j.unit].type = "Missile" /\ unit[j.unit].holder = j.by
      <4>1. <<j.kind, unit[j.unit].type>> \in Crew /\ unit[j.unit].holder = j.by
        BY <1>1, <1>4, <2>3 DEF Names, Fits
      <4> QED BY <1>1, <4>1 DEF Crew, Structures
    <3>2. \/ PlayerTurn /\ unit[j.unit].holder = Me.by /\ ~Has(Me.by)
          \/ HuntTurn /\ Done /\ Me.unit = j.unit
      BY <1>1, <1>2, <3>1, MissileGoes
    <3>3. CASE HuntTurn /\ Done /\ Me.unit = j.unit
      <4>1. None(execs', uninit', Riders(Jobs', j.unit))
        BY <1>2, <3>3, RidersStep DEF Manned
      <4>2. j \in Riders(Jobs', j.unit)
        BY <1>1 DEF Riders
      <4>3. j \in Range(execs') \/ j \in Range(uninit')
        BY <1>1 DEF Jobs
      <4>4. At(execs', Riders(Jobs', j.unit)) # {} \/ At(uninit', Riders(Jobs', j.unit)) # {}
        BY <4>2, <4>3, SomebodyAt DEF Loop
      <4> QED BY <4>1, <4>4 DEF None
    <3> QED BY <2>1, <3>1, <3>2, <3>3
  <2> QED BY <2>2, <2>3
<1> QED BY <1>1, <1>3, <1>4, HuntsGo
LEMMA MannedStep ==
    ASSUME TypeOK, Loop, Names, Loop', Acts, PlayersFirst, Manned
    PROVE  Manned'
  BY RulersStep, RidersStep DEF Manned

\* A turn of a missile's execution, for a bomb that stays.
LEMMA HuntMarks ==
    ASSUME TypeOK, Loop, Names, HuntTurn, NEW u \in UnitIds, unit[u].type = "Bomb",
           unit'[u].type = "Bomb"
    PROVE  \/ /\ unit'[u].locked = unit[u].locked
              /\ Done /\ Me.prey = u => Me.unit # NoUnitId /\ ~Exists(Me.unit) /\ Me.by \in Players
           \/ Me.prey = u /\ Done /\ unit'[u].locked = FALSE
<1>1. Turn("hunt") /\ (Me.unit = NoUnitId => FreeIds # {}) /\ Sound(unit)
  BY UnitsSound DEF HuntTurn
<1>2. u # Fresh \/ FreeIds = {}
  BY FreshIsFree DEF Exists
<1>3. /\ WithHunter[u] = unit[u] /\ Hunter \in UnitIds /\ Me.prey \in UnitIds /\ Me.by \in Players
      /\ WithHunter = [v \in UnitIds |-> WithHunter[v]]
      /\ Me.unit = NoUnitId => WithHunter[Hunter].holder = Me.by
  <2>1. u \in Kin
    BY <1>1, <1>2 DEF Kin
  <2> QED BY <1>1, <2>1, HunterFacts DEF Sound
<1>4. Fits(Me) /\ Me.kind = "hunt" /\ NoUnit.type # "Bomb"
  BY <1>1, MyTurn DEF Names, NoUnit
<1>5. CASE WithHunter[Hunter].holder # Me.by /\ Done /\ unit' = unit
  <2>1. Me.unit # NoUnitId /\ unit[Me.unit].holder # Me.by
    BY <1>3, <1>5 DEF Hunter, WithHunter
  <2>2. ~Exists(Me.unit)
    BY <1>4, <2>1 DEF Fits
  <2> QED BY <1>3, <1>5, <2>1, <2>2
<1>6. CASE unit' = CalledOffHunt /\ Done
  <2>1. u # Hunter
    BY <1>4, <1>6 DEF CalledOffHunt
  <2>2. CASE u = Me.prey
    <3>1. WithHunter[Me.prey].holder = Me.victim
      BY <1>3, <1>4, <2>2 DEF Fits, Exists
    <3>2. unit'[u] = [unit[u] EXCEPT !.locked = FALSE]
      BY <1>3, <1>6, <2>1, <2>2, <3>1 DEF CalledOffHunt
    <3>3. unit'[u].locked = FALSE
      BY <1>1, <3>2 DEF Sound, Apt, UnitType
    <3> QED BY <1>6, <2>2, <3>3
  <2>3. CASE u # Me.prey
    <3>1. unit'[u] = unit[u]
      BY <1>3, <1>6, <2>1, <2>3 DEF CalledOffHunt
    <3> QED BY <2>3, <3>1
  <2> QED BY <2>2, <2>3
<1>7. CASE unit' = Struck
  <2>1. u # Hunter /\ u # Me.prey
    BY <1>3, <1>4, <1>7 DEF Struck
  <2>2. unit'[u] = unit[u]
    BY <1>3, <1>7, <2>1 DEF Struck
  <2> QED BY <2>1, <2>2
<1>8. CASE unit' = WithHunter /\ \E j : Stay(j)
  <2>1. ~Done
    BY <1>1, <1>8, TurnEnds
  <2> QED BY <1>3, <1>8, <2>1
<1> QED BY <1>5, <1>6, <1>7, <1>8, HuntTurnIs

\* Missiles after u neither come nor go, unless one that was after u is over or a SAM
\* launcher shoots.
LEMMA HuntersKept ==
    ASSUME TypeOK, Loop, Names, Loop', Acts, NEW u, ~(HuntTurn /\ Done /\ Me.prey = u),
           NEW S, S = Jobs \cup Jobs', SamTurn => Quiet(Hunters(S, u))
    PROVE  AsManyOf(execs, uninit, execs', uninit', Hunters(S, u))
<1>1. Jobs \subseteq S /\ Jobs' \subseteq S
  OBVIOUS
<1> DEFINE W == Hunters(S, u)
<1>2. \A j \in S : j \in W <=> j.kind = "hunt" /\ j.prey = u
  BY DEF Hunters
<1>3. (\A j \in W : j.kind = "hunt") /\ (SamTurn => Quiet(W))
  BY DEF Hunters
<1> HIDE DEF W
<1>4. Lay \/ Build \/ SamTurn \/ Adds => Quiet(W)
  BY <1>3, QuietUnlessSam
<1>5. ASSUME NEW k, NEW j, Turn(k), Stay(j), Alike(Me, j) PROVE j \in W <=> Me \in W
  <2>1. Me \in S /\ j \in S
    BY <1>1, <1>5, StayIsThere
  <2> QED BY <1>2, <1>5, <2>1 DEF Alike
<1>6. ASSUME NEW k, Turn(k), Done PROVE Me \notin W
  <2>1. Me.kind = k /\ Me \in S
    BY <1>1, <1>6, MyTurn
  <2> QED BY <1>2, <1>6, <2>1, EndsHow
<1>7. ASSUME NEW k, NEW j, DueInit(k), Append1(j), Alike(New1, j) PROVE j \in W <=> New1 \in W
  <2>1. New1 \in S /\ j \in S
    BY <1>1, <1>7, InitIsThere
  <2> QED BY <1>2, <1>7, <2>1 DEF Alike
<1>8. ASSUME NEW k \in {"upgrade", "delete", "train"}, DueInit(k) PROVE New1 \notin W
  <2>1. New1.kind = k
    BY <1>8, MyInit
  <2> QED BY <1>3, <2>1
<1>9. AsManyOf(execs, uninit, execs', uninit', W)
  BY <1>4, <1>5, <1>6, <1>7, <1>8, TallyKeeps DEF Steady
<1> QED BY <1>9 DEF W
LEMMA SamLocks ==
    ASSUME Sound(unit), NEW s \in UnitIds, Exists(s), NEW u \in UnitIds
    PROVE  /\ Reloaded(s)[u].locked = unit[u].locked
           /\ Launched(Reloaded(s), s)[u].locked = unit[u].locked
<1>1. PICK un : un = Reloaded(s)
  OBVIOUS
<1>2. /\ Sound(un) /\ un[s].type # "none" /\ un[s].locked = unit[s].locked
      /\ u # s => un[u] = unit[u]
  BY <1>1, ReloadedSound DEF Exists
<1>3. Launched(un, s)[s].locked = un[s].locked /\ (u # s => Launched(un, s)[u] = un[u])
  BY <1>2, LaunchedSound
<1> QED BY <1>1, <1>2, <1>3
\* A turn of a SAM launcher, for a bomb that stays: it is marked when a missile sets out
\* for it, and not before.
LEMMA SamMarks ==
    ASSUME TypeOK, Loop, SamTurn, NEW S, NEW u \in UnitIds, unit[u].type = "Bomb",
           unit'[u].type = "Bomb"
    PROVE  \/ unit'[u].locked = unit[u].locked /\ Quiet(Hunters(S, u))
           \/ /\ unit[u].locked = FALSE /\ unit'[u].locked = TRUE
              /\ Stay(Held) /\ \E j : Add(<<j>>) /\ j.kind = "hunt" /\ j.prey = u
<1>1. Me.unit \in UnitIds /\ Sound(unit) /\ NoUnit.type # "Bomb" /\ Turn("sam")
  <2>1. Turn("sam")
    BY DEF SamTurn
  <2>2. Me.unit \in UnitIds
    BY <2>1, MyTurn DEF JobOK, Runners
  <2> QED BY <2>1, <2>2, UnitsSound DEF NoUnit
<1> DEFINE s == Me.unit
           p == unit[s].holder
           un == Reloaded(s)
           shot == Launched(un, s)
           hits == Incoming(p, unit[s].tile)
<1>2. CASE uninit' = uninit /\ (unit' = unit \/ (Exists(s) /\ unit' = un)
                               \/ (Exists(s) /\ unit' = [v \in UnitIds |-> IF v \in hits THEN NoUnit ELSE shot[v]]))
  <2>1. Exists(s) => un[u].locked = unit[u].locked /\ shot[u].locked = unit[u].locked
    BY <1>1, SamLocks
  <2> HIDE DEF un, shot, hits
  <2>2. unit'[u] = unit[u] \/ (Exists(s) /\ (unit'[u] = un[u] \/ unit'[u] = shot[u]))
    BY <1>1, <1>2
  <2> QED BY <1>2, <2>1, <2>2 DEF Quiet
<1>3. ASSUME Exists(s), Stay(Held), NEW v \in Prey(p), NEW n, unit' = [shot EXCEPT ![v].locked = TRUE],
             NEW j, j = [Job("hunt", p) EXCEPT !.prey = v, !.from = s, !.left = n,
                                                      !.victim = unit[v].holder],
             Add(<<j>>)
      PROVE  \/ unit'[u].locked = unit[u].locked /\ Quiet(Hunters(S, u))
             \/ /\ unit[u].locked = FALSE /\ unit'[u].locked = TRUE
                /\ Stay(Held) /\ \E i : Add(<<i>>) /\ i.kind = "hunt" /\ i.prey = u
  <2>1. /\ shot[u].locked = unit[u].locked /\ shot[u] \in UnitType
        /\ shot = [w \in UnitIds |-> shot[w]]
    <3>1. Sound(shot)
      BY <1>1, <1>3, SamUnits
    <3> QED BY <1>1, <1>3, <3>1, SamLocks DEF Sound, Apt
  <2>2. j.kind = "hunt" /\ j.prey = v
    BY <1>3 DEF Job
  <2>3. unit[v].locked = FALSE
    BY <1>1, <1>3 DEF Prey, Enemies, OfType, Sound, Apt, UnitType
  <2> HIDE DEF shot
  <2>4. CASE v = u
    <3>1. unit'[u] = [shot[u] EXCEPT !.locked = TRUE]
      BY <1>3, <2>1, <2>4
    <3>2. unit'[u].locked = TRUE
      BY <2>1, <3>1 DEF UnitType
    <3> QED BY <1>3, <2>2, <2>3, <2>4, <3>2
  <2>5. CASE v # u
    <3>1. unit'[u].locked = unit[u].locked
      BY <1>3, <2>1, <2>5
    <3>2. j \notin Hunters(S, u)
      BY <2>2, <2>5 DEF Hunters
    <3>3. PICK js : js = <<j>> /\ js \in Seq(Range(js)) /\ Range(js) = {j}
      BY OneJob
    <3> QED BY <1>3, <3>1, <3>2, <3>3 DEF Quiet
  <2> QED BY <2>4, <2>5
<1>4. \/ uninit' = uninit /\ unit' = unit
      \/ /\ Exists(s) /\ Stay(Held)
         /\ \/ uninit' = uninit /\ unit' = un
            \/ uninit' = uninit /\ unit' = [v \in UnitIds |-> IF v \in hits THEN NoUnit ELSE shot[v]]
            \/ \E v \in Prey(p), n \in Flights :
                  /\ unit' = [shot EXCEPT ![v].locked = TRUE]
                  /\ Add(<<[Job("hunt", p) EXCEPT !.prey = v, !.from = s, !.left = n,
                                                  !.victim = unit[v].holder]>>)
  BY DEF SamTurn, Gone
<1> HIDE DEF s, p, un, shot, hits
<1> QED BY <1>2, <1>3, <1>4
\* A bomb that is marked has one missile after it, or had one that went with its owner; one
\* that is not has none.
MarkOf(u) == IF unit[u].locked
             THEN \/ One(execs, uninit, Hunters(Jobs, u))
                  \/ None(execs, uninit, Hunters(Jobs, u)) /\ \E p \in Players : Dead(p)
             ELSE None(execs, uninit, Hunters(Jobs, u))
Marked == \A u \in OfType({"Bomb"}) : MarkOf(u)
LEMMA MarkedStep ==
    ASSUME TypeOK, Loop, Names, TypeOK', Loop', Acts, PlayersFirst, Manned, Steered, Marked
    PROVE  Marked'
<1>1. SUFFICES ASSUME NEW u \in UnitIds, unit'[u].type = "Bomb" PROVE MarkOf(u)'
  BY DEF Marked, OfType
<1>2. PICK S : S = Jobs \cup Jobs'
  OBVIOUS
<1> DEFINE W == Hunters(S, u)
<1>3. /\ \A j \in Jobs : j \in Hunters(Jobs, u) <=> j \in W
      /\ \A j \in Jobs' : j \in Hunters(Jobs', u) <=> j \in W
      /\ \A j \in S : j \in W <=> j.kind = "hunt" /\ j.prey = u
      /\ W \subseteq S /\ Jobs \subseteq S /\ Jobs' \subseteq S
  BY <1>2 DEF Hunters
<1>4. /\ ~(HuntTurn /\ Done /\ Me.prey = u) /\ (SamTurn => Quiet(W))
      => AsManyOf(execs, uninit, execs', uninit', W)
  BY <1>2, HuntersKept
<1>5. SamTurn /\ unit[u].type = "Bomb" =>
         \/ unit'[u].locked = unit[u].locked /\ Quiet(W)
         \/ /\ unit[u].locked = FALSE /\ unit'[u].locked = TRUE
            /\ Stay(Held) /\ \E j : Add(<<j>>) /\ j.kind = "hunt" /\ j.prey = u
  BY <1>1, SamMarks
<1> HIDE DEF W
<1>6. \A p \in Players : Dead(p) => Dead(p)'
  BY RulersStep DEF Manned
<1>0. (HuntTurn => Me.kind = "hunt") /\ (SamTurn => Me.kind = "sam")
  <2>1. (HuntTurn => Turn("hunt")) /\ (SamTurn => Turn("sam"))
    BY DEF HuntTurn, SamTurn
  <2> QED BY <2>1, MyTurn
<1>7. SUFFICES IF unit'[u].locked
               THEN \/ One(execs', uninit', W)
                    \/ None(execs', uninit', W) /\ \E p \in Players : Dead(p)'
               ELSE None(execs', uninit', W)
  <2>1. /\ One(execs', uninit', Hunters(Jobs', u)) <=> One(execs', uninit', W)
        /\ None(execs', uninit', Hunters(Jobs', u)) <=> None(execs', uninit', W)
    BY <1>3, CountAfter
  <2> QED BY <1>7, <2>1 DEF MarkOf
<1>8. CASE unit[u].type # "Bomb"
  <2>1. FreeIds # {} /\ u = Fresh /\ Launch
    BY <1>1, <1>8, BombsAreLaunched
  <2>2. unit'[u].locked = FALSE
    BY <2>1, LaunchUnits
  <2>3. ~HuntTurn /\ ~SamTurn
    <3>1. Turn("nuke")
      BY <2>1 DEF Launch
    <3>2. Me.kind = "nuke"
      BY <3>1, MyTurn
    <3> QED BY <1>0, <3>2
  <2>4. \A j \in Jobs : j \notin W
    <3>1. \A j \in Jobs : j.prey \notin FreeIds
      BY JobsNamed
    <3> QED BY <1>3, <2>1, <3>1, FreshIsFree
  <2>5. None(execs, uninit, W)
    <3>1. /\ \A j \in Range(execs) : j \notin W
          /\ \A j \in Range(uninit) : j \notin W
      BY <2>4 DEF Jobs
    <3> QED BY <3>1, NobodyAt DEF None, Loop
  <2>6. None(execs', uninit', W)
    BY <1>4, <2>3, <2>5 DEF AsManyOf
  <2> QED BY <2>2, <2>6
<1>9. CASE unit[u].type = "Bomb"
  <2>1. IF unit[u].locked
        THEN \/ One(execs, uninit, W)
             \/ None(execs, uninit, W) /\ \E p \in Players : Dead(p)
        ELSE None(execs, uninit, W)
    <3>1. /\ One(execs, uninit, Hunters(Jobs, u)) <=> One(execs, uninit, W)
          /\ None(execs, uninit, Hunters(Jobs, u)) <=> None(execs, uninit, W)
      BY <1>3, CountIn
    <3>2. MarkOf(u)
      BY <1>9 DEF Marked, OfType
    <3> QED BY <3>1, <3>2 DEF MarkOf
  <2>2. ASSUME unit'[u].locked = unit[u].locked, AsManyOf(execs, uninit, execs', uninit', W)
        PROVE  IF unit'[u].locked
               THEN \/ One(execs', uninit', W)
                    \/ None(execs', uninit', W) /\ \E p \in Players : Dead(p)'
               ELSE None(execs', uninit', W)
    BY <1>6, <2>1, <2>2 DEF AsManyOf
  <2>3. CASE SamTurn /\ unit'[u].locked = unit[u].locked /\ Quiet(W)
    <3>1. ~HuntTurn
      BY <1>0, <2>3
    <3> QED BY <1>4, <2>2, <2>3, <3>1
  <2>4. ASSUME SamTurn, unit[u].locked = FALSE, unit'[u].locked = TRUE, Stay(Held),
               NEW j, Add(<<j>>), j.kind = "hunt", j.prey = u
        PROVE  One(execs', uninit', W)
    <3>1. Turn("sam") /\ At(execs, W) = {} /\ At(uninit, W) = {}
      BY <2>1, <2>4 DEF SamTurn, None
    <3>2. Me.kind = "sam" /\ JobOK(Me)
      BY <3>1, MyTurn
    <3>3. Held.kind = "sam"
      BY <3>2 DEF Held, JobOK
    <3>4. Me \notin W /\ Held \notin W
      BY <1>3, <3>2, <3>3
    <3>5. At(execs', W) = {}
      BY <2>4, <3>1, <3>4, TallyStay DEF AsMany
    <3>6. j \in W
      <4>1. j \in Range(uninit')
        BY <2>4, AddedOne
      <4> QED BY <1>3, <2>4, <4>1 DEF Jobs
    <3>7. Lone(uninit', W)
      BY <2>4, <3>1, <3>6, TallyAdd
    <3> QED BY <3>5, <3>7 DEF One
  <2>5. CASE HuntTurn /\ Done /\ Me.prey = u
    <3>1. Turn("hunt") /\ uninit' = uninit
      BY <2>5 DEF HuntTurn
    <3>2. Me \in W /\ Me \in Range(execs) /\ Me \in Jobs /\ Me.kind = "hunt"
      BY <1>3, <2>5, <3>1, MyTurn
    <3>3. At(execs, W) # {}
      BY <3>2, SomebodyAt DEF Loop
    <3>4. Lone(execs, W) /\ At(uninit, W) = {} /\ unit[u].locked
      BY <2>1, <3>3 DEF One, None
    <3>5. At(execs', W) = {}
      BY <2>5, <3>1, <3>2, <3>4, TallyDone
    <3>6. None(execs', uninit', W)
      BY <3>1, <3>4, <3>5 DEF None
    <3>7. CASE Me.unit # NoUnitId /\ ~Exists(Me.unit) /\ Me.by \in Players
      <4>1. Dead(Me.by)
        BY <3>2, <3>7 DEF Steered
      <4>2. \E p \in Players : Dead(p)'
        BY <1>6, <3>7, <4>1
      <4> QED BY <3>6, <4>2
    <3>8. CASE unit'[u].locked = FALSE
      BY <3>6, <3>8
    <3> QED BY <1>1, <1>9, <2>5, <3>7, <3>8, HuntMarks
  <2>6. CASE HuntTurn /\ ~(Done /\ Me.prey = u)
    <3>1. unit'[u].locked = unit[u].locked
      BY <1>1, <1>9, <2>6, HuntMarks
    <3>2. ~SamTurn
      BY <1>0, <2>6
    <3> QED BY <1>4, <2>2, <2>6, <3>1, <3>2
  <2>7. CASE ~HuntTurn /\ ~SamTurn
    <3>1. unit'[u].locked = unit[u].locked
      BY <1>1, <1>9, <2>7, UnitStays DEF Exists
    <3> QED BY <1>4, <2>2, <2>7, <3>1
  <2>8. CASE SamTurn
    BY <1>5, <1>9, <2>3, <2>4, <2>8
  <2> QED BY <2>5, <2>6, <2>7, <2>8
<1> QED BY <1>8, <1>9

\* At the start a player has his PlayerExecution, and nothing flies.
Backed == PlayersFirst /\ Manned /\ Steered /\ Marked
LEMMA FirstBacked == RailInit => Backed
<1> SUFFICES ASSUME RailInit PROVE Backed
  OBVIOUS
<1>1. PICK n \in Nat : /\ Players = 1 .. n /\ n < Len(execs)
                       /\ \A p \in 1 .. n : execs[p].kind = "player" /\ execs[p].by = p
                       /\ \A i \in 1 .. Len(execs) : i > n => execs[i].kind # "player"
  BY FirstJobs
<1>2. /\ uninit = <<>> /\ execs \in Seq(Range(execs)) /\ Len(execs) \in Nat /\ Len(uninit) = 0
      /\ \A i \in 1 .. Len(execs) : execs[i] \in Jobs
  <2>1. uninit = <<>> /\ execs \in Seq(Range(execs))
    BY FirstJobs
  <2> QED BY <2>1, Listed, EmptySeq DEF Jobs
<1>3. PlayersFirst
  BY <1>1, <1>2 DEF PlayersFirst, Range
<1>4. \A W : At(uninit, W) = {}
  BY <1>2 DEF At
<1>5. \A i \in 1 .. Len(execs) : execs[i].kind # "hunt"
  <2>1. ASSUME NEW j \in Range(execs) PROVE j.kind # "hunt"
    <3>1. ASSUME NEW p PROVE Job("player", p).kind # "hunt" /\ RecomputeJob.kind # "hunt"
      BY DEF Job, RecomputeJob
    <3>2. ASSUME NEW i \in 1 .. Len(todo.bases), NEW k, k = RunnerOf(todo.bases[i][1], todo.bases[i][2], i)
          PROVE  k.kind # "hunt"
      <4>1. todo \in PlanType /\ i \in UnitIds
        BY FirstJobs, FirstUnits
      <4>2. todo.bases[i][1] \in Structures /\ todo.bases[i][2] \in Players
        BY <4>1, BasesAre
      <4>3. k.kind \in Runners
        BY <3>2, <4>1, <4>2, RunnerFacts
      <4> QED BY <4>3 DEF Runners
    <3> QED BY <3>1, <3>2, FirstJobs
  <2> QED BY <1>2, <2>1, Listed
<1>6. ASSUME NEW p \in Players PROVE OneAtMost(execs, uninit, Rulers(Jobs, p))
  <2> DEFINE W == Rulers(Jobs, p)
  <2>1. \A i \in 1 .. Len(execs) : execs[i] \in W <=> execs[i].kind = "player" /\ execs[i].by = p
    BY <1>2 DEF Rulers
  <2> HIDE DEF W
  <2>2. p \in 1 .. Len(execs) /\ execs[p].kind = "player" /\ execs[p].by = p
    BY <1>1, <1>2
  <2>3. ASSUME NEW i \in 1 .. Len(execs), execs[i].kind = "player", execs[i].by = p PROVE i = p
    BY <1>1, <1>2, <2>3
  <2>4. At(execs, W) = {p}
    BY <2>1, <2>2, <2>3 DEF At
  <2> QED BY <1>4, <2>4 DEF OneAtMost, One, Lone, W
<1>7. ASSUME NEW W, \A j \in W : j.kind = "hunt" PROVE None(execs, uninit, W)
  BY <1>4, <1>5, <1>7 DEF None, At
<1>8. ASSUME NEW m \in UnitIds PROVE OneAtMost(execs, uninit, Riders(Jobs, m))
  <2>1. \A j \in Riders(Jobs, m) : j.kind = "hunt"
    BY DEF Riders
  <2> QED BY <1>7, <2>1 DEF OneAtMost
<1>9. Steered
  <2>1. \A j \in Jobs : j.kind # "hunt"
    <3>1. \A j \in Range(execs) : j.kind # "hunt"
      BY <1>2, <1>5, Listed
    <3> QED BY <1>2, <3>1 DEF Jobs, Range
  <2> QED BY <2>1 DEF Steered
<1>10. Marked
  <2>1. \A u \in UnitIds : unit[u].type # "Bomb"
    BY FirstUnits DEF Structures
  <2> QED BY <2>1 DEF Marked, OfType
<1> QED BY <1>3, <1>6, <1>8, <1>9, <1>10 DEF Backed, Manned
LEMMA BackedHolds == Spec => []Backed
<1>1. Base /\ Base' /\ Backed /\ [RailNext]_railVars => Backed'
  <2>1. ASSUME Base, Base', Backed, Acts PROVE Backed'
    BY <2>1, PlayersFirstStep, MannedStep, SteeredStep, MarkedStep DEF Base, Backed
  <2>2. ASSUME Backed, UNCHANGED vars PROVE Backed'
    <3>1. execs' = execs /\ uninit' = uninit /\ unit' = unit
      BY <2>2 DEF vars, loopVars
    <3>2. Jobs' = Jobs
      BY <3>1 DEF Jobs
    <3>3. PlayersFirst' /\ Manned'
      BY <2>2, <3>1, <3>2 DEF Backed, PlayersFirst, Manned
    <3>4. Steered' /\ Marked'
      BY <2>2, <3>1, <3>2 DEF Backed, Steered, Exists, Dead, AllJobs, Marked, MarkOf, OfType
    <3> QED BY <3>3, <3>4 DEF Backed
  <2> QED BY <2>1, <2>2, NextActs
<1> QED BY <1>1, FirstBacked, BaseHolds, PTL DEF Spec

LEMMA HuntersAre ==
    ASSUME Loop, NEW u
    PROVE  HuntersOf(u) = Cardinality(At(execs, Hunters(Jobs, u))) +
                          Cardinality(At(uninit, Hunters(Jobs, u)))
<1>1. /\ \A i \in 1 .. Len(execs) : execs[i] \in Jobs
      /\ \A i \in 1 .. Len(uninit) : uninit[i] \in Jobs
  BY Listed DEF Loop, Jobs
<1>2. {i \in AllJobs("hunt") : execs[i].prey = u} = At(execs, Hunters(Jobs, u))
  BY <1>1 DEF AllJobs, At, Hunters
<1>3. {i \in NewJobs("hunt") : uninit[i].prey = u} = At(uninit, Hunters(Jobs, u))
  BY <1>1 DEF NewJobs, At, Hunters
<1> QED BY <1>2, <1>3 DEF HuntersOf

\* A bomb is targeted_by_sam as long as one missile is after it, and never two are; it stays
\* marked without one only where that missile went with its dead owner.
THEOREM MarksAreBackedHolds == Spec => []MarksAreBacked
<1>1. ASSUME Base, Backed PROVE MarksAreBacked
  <2>1. SUFFICES ASSUME NEW u \in OfType({"Bomb"})
                 PROVE  IF unit[u].locked
                        THEN HuntersOf(u) = 1 \/ (HuntersOf(u) = 0 /\ \E p \in Players : Dead(p))
                        ELSE HuntersOf(u) = 0
    BY DEF MarksAreBacked
  <2>2. Loop /\ MarkOf(u)
    BY <1>1 DEF Base, Backed, Marked
  <2>3. /\ One(execs, uninit, Hunters(Jobs, u)) => HuntersOf(u) = 1
        /\ None(execs, uninit, Hunters(Jobs, u)) => HuntersOf(u) = 0
    BY <2>2, HuntersAre, CountOne, CountNone
  <2> QED BY <2>2, <2>3 DEF MarkOf
<1> QED BY <1>1, BaseHolds, BackedHolds, PTL
=============================================================================
