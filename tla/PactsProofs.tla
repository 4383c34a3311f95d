---------------------------- MODULE PactsProofs ----------------------------
(* What the abstract specification itself guarantees. *)
EXTENDS Pacts, TLAPS

Inv == TypeOK /\ Exclusive

LEMMA AnswerKeepsInv ==
    ASSUME Inv, NEW p \in Players, NEW yes \in SUBSET offers, NEW no \in SUBSET offers,
           Answer(p, yes, no)
    PROVE  Inv'
<1> USE DEF Inv, TypeOK, Exclusive, Dealings, Answer
<1>1. TypeOK' /\ Dealings' \subseteq Dealings
  OBVIOUS
<1>2. offers' \cap pacts' = {}
  OBVIOUS
<1> QED
  BY <1>1, <1>2

\* Two players are in one dealing at most.
THEOREM DealingsAreExclusive == Spec => []Exclusive
<1>1. Init => Inv
  BY DEF Init, Inv, TypeOK, Exclusive, Dealings
<1>2. Inv /\ [Next]_vars => Inv'
  <2> SUFFICES ASSUME Inv, [Next]_vars PROVE Inv'
    OBVIOUS
  <2>1. CASE UNCHANGED vars
    BY <2>1 DEF vars, Inv, TypeOK, Exclusive, Dealings
  <2>2. ASSUME NEW p \in Players, NEW q \in Players, Offer(p, q) PROVE Inv'
    BY <2>2 DEF Offer, Strangers, Inv, TypeOK, Exclusive, Dealings
  <2>3. ASSUME NEW gone \in SUBSET offers, NEW ended \in SUBSET pacts, Part(gone, ended)
        PROVE  Inv'
    BY <2>3 DEF Part, Inv, TypeOK, Exclusive, Dealings
  <2> QED
    BY <2>1, <2>2, <2>3, AnswerKeepsInv DEF Next
<1>3. Inv => Exclusive
  BY DEF Inv
<1> QED
  BY <1>1, <1>2, <1>3, PTL DEF Spec
=============================================================================
