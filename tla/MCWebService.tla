--------------------------- MODULE MCWebService ---------------------------
(***************************************************************************)
(* WebService with the hash codes of Java for two numbers, whose sums      *)
(* 2 + 2 and 0 + 0 have the same one, and for three texts: two operations, *)
(* and "\u0000+", which is none and has the hash code of "+".             *)
(***************************************************************************)
EXTENDS WebService, TLC

AlikeThreads == Permutations(Threads)

MCDoubleHash ==
    [n \in Numbers |-> CASE n = "0" -> <<0, 0>> [] n = "2" -> <<16384, 0>>]

MCActHash ==
    [a \in Acts |-> CASE a = "+" -> <<0, 43>> [] a = "/" -> <<0, 47>>
                      [] a = "NUL+" -> <<0, 43>>]
=============================================================================
