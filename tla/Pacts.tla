------------------------------- MODULE Pacts -------------------------------
(***************************************************************************)
(* What the diplomacy of the game promises, without clocks, executions or  *)
(* embargoes: a pact is an offer that its addressee took up, and between   *)
(* two players there is at most one offer or one pact at a time.           *)
(***************************************************************************)

CONSTANT Players

VARIABLES
    offers,     \* <<p, q>>: p has offered q a pact, and q has not answered
    pacts       \* <<p, q>>: the pact of p and q, which p offered

vars == <<offers, pacts>>

Dealings == offers \cup pacts
Strangers(p, q) == <<p, q>> \notin Dealings /\ <<q, p>> \notin Dealings

Init == offers = {} /\ pacts = {}

Offer(p, q) ==
    /\ p # q /\ Strangers(p, q)
    /\ offers' = offers \cup {<<p, q>>}
    /\ UNCHANGED pacts

\* p takes up the offers yes and turns down the offers no, all made to it.
Answer(p, yes, no) ==
    /\ yes \cap no = {}
    /\ \A o \in yes \cup no : o[2] = p
    /\ offers' = offers \ (yes \cup no)
    /\ pacts' = pacts \cup yes

\* Offers are withdrawn or lapse, pacts are broken or lapse.
Part(gone, ended) ==
    /\ offers' = offers \ gone
    /\ pacts' = pacts \ ended

Next ==
    \/ \E p, q \in Players : Offer(p, q)
    \/ \E p \in Players, yes, no \in SUBSET offers : Answer(p, yes, no)
    \/ \E gone \in SUBSET offers, ended \in SUBSET pacts : Part(gone, ended)

Spec == Init /\ [][Next]_vars

-----------------------------------------------------------------------------

TypeOK == /\ offers \subseteq Players \X Players
          /\ pacts \subseteq Players \X Players

\* Two players are in at most one dealing: no crossing offers, no offer
\* between allies, no pact twice over.
Exclusive ==
    /\ offers \cap pacts = {}
    /\ \A p, q \in Players : <<p, q>> \in Dealings =>
                             p # q /\ <<q, p>> \notin Dealings
=============================================================================
