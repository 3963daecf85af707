------------------------------ MODULE MCTabPay ------------------------------
(* Small instances of TabPay for TLC.                                        *)
EXTENDS TabPay, TLC

CONSTANTS p1, u1, h1, h2, c1

OneUser == [p \in Payment |-> u1]
OneUnit == [u \in User |-> 1]
Nothing == [u \in User |-> 0]
OneAmount == [p \in Payment |-> 1]
OnePrice == {1}
NoPrice == {}

Symmetry == Permutations(Hook)
=============================================================================
