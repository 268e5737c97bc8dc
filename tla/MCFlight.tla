------------------------------ MODULE MCFlight ------------------------------
(* Instances of FlightSystem for TLC. *)
EXTENDS FlightSystem

OneFlight  == [f \in 1 .. 1 |-> 2]
TwoFlights == [f \in 1 .. 2 |-> f]

OneOrTwo == {1, 2}
OneSeat  == {1}
AnySign  == {-1, 1}

AgentSymmetry == Permutations(Agents)
=============================================================================
