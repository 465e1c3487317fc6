------------------------------ MODULE MCEntropy ------------------------------
(* Entropy for TLC: fields of two bits, so that a run of four zeros is a   *)
(* long one; blocks of ten coefficients, at most three of them not zero or *)
(* all of them as large as can be; up to two blocks.                       *)
EXTENDS Entropy, FiniteSets

Sparse == {[n \in 0 .. N - 1 |-> IF n \in S THEN (IF n % 2 = 0 THEN v ELSE -v)
                                    ELSE IF n = 0 THEN 1 ELSE 0] :
              S \in {T \in SUBSET (0 .. N - 1) : Cardinality(T) <= 3}, v \in {-2, 5}}
Full   == {[n \in 0 .. N - 1 |-> v] : v \in {-7, 7}}
Few    == Full \cup {[n \in 0 .. N - 1 |-> IF n = N - 1 THEN -1 ELSE 0], Zero}

MCInputs == {<<b>> : b \in Sparse \cup Full} \cup {<<b, c>> : b \in Few, c \in Few}
MCCaps   == {0, 3, 8, 36}
=============================================================================
