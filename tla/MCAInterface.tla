---------------------------- MODULE MCAInterface ----------------------------
(* Instances of AInterface for TLC: all MSCs reached over one SS7 instance, *)
(* or each over its own.                                                    *)
EXTENDS AInterface, TLC

CONSTANT n1

OneInstance == [m \in Msc |-> n1]
OwnInstance == [m \in Msc |-> m]

Symmetry == Permutations(Msc) \cup Permutations(Conn)

=============================================================================
