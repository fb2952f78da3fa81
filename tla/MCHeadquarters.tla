--------------------------- MODULE MCHeadquarters ---------------------------
(* Spare copies of an item and of a uniform, a drop, a consumable, a prize,   *)
(* one delivery and one payroll officer: any three requests of the game.      *)
EXTENDS Headquarters, SequencesExt

CONSTANTS item, uniform, drop, card, prize, letter

MCCredit == [r \in Row |-> IF r \in {item, uniform} THEN 1 ELSE 0]
MCPrice == [r \in Sold |-> IF r = item THEN 2 ELSE 1]
MCRolls == {<<item, card>>, <<uniform, card>>}
MCMailCredits == [m \in Mail |-> 1]
MCMailItems == [m \in Mail |-> {uniform}]
MCStartCopies == [r \in Row |-> CASE r = item -> 2 [] r = uniform -> 2 [] r = drop -> 1 [] r = card -> 1 [] r = prize -> 0]

\* Total is the sum of the values.
ASSUME TotalSums == \A f \in [1..3 -> -2..2] : Total(f) = MapThenSumSet(LAMBDA i : f[i], 1..3)

\* Dealt is what dealing the cards one by one makes of the store.
DealtOne(s, one) ==
    IF one \notin Stackable /\ s.copies[one] > 0
    THEN [s EXCEPT !.credits = @ + Credit[one]]
    ELSE [s EXCEPT !.copies = Granted(@, {one})]
ASSUME DealtOneByOne ==
    \A cards \in BoundedSeq({item, uniform, card}, 3), copies \in [Row -> 0..1] :
        LET s == [credits |-> 5, copies |-> copies]
        IN  Dealt(s, cards) = FoldLeft(DealtOne, s, cards)
=============================================================================
