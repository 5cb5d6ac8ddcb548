----------------------------- MODULE MCRouteCohort -----------------------------
(* Two CEX legs of one venue, one DEX leg on each of two chains.           *)
EXTENDS RouteCohort, TLC

CONSTANTS venue, chain1, chain2, a, b, d, e

SourceOf == [m \in Markets |-> CASE m = d -> chain1 [] m = e -> chain2 [] OTHER -> venue]

\* the legs of the venue may be exchanged, and the chains with their legs
Swap  == [x \in {d, e, chain1, chain2} |->
            CASE x = d -> e [] x = e -> d [] x = chain1 -> chain2 [] x = chain2 -> chain1]
Alike == Permutations({a, b}) \cup {Swap}
=============================================================================
