-------------------------- MODULE MCPrimaryMarket --------------------------
(***************************************************************************)
(* Instances of PrimaryMarket for TLC.                                     *)
(***************************************************************************)
EXTENDS PrimaryMarket, TLC

CONSTANTS ada, ben, A, B, bank, platform

\* All of the project's value at a price of 1 a unit, with too few shares on
\* offer for two investors who ask for more than one unit each.
WholeProject == {[value |-> 4, total |-> 4, shares |-> 2]}

\* Half of the value each.
HalfProject == {[value |-> 2, total |-> 2, shares |-> 2]}

\* More than the project's value of 1; a value below nothing, which makes room
\* for the other; and terms that offer more shares than there are, which are
\* refused.
BelowNothing == {[value |-> 2, total |-> 1, shares |-> 1],
                 [value |-> -1, total |-> 1, shares |-> 1],
                 [value |-> 1, total |-> 1, shares |-> 2]}

OwnNames == [c \in Classes |-> c]

\* Every class after the first is a namesake.
OneName == [c \in Classes |-> A]

Symmetry == Permutations({ada, ben})
=============================================================================
