------------------------------ MODULE MCLayout ------------------------------
EXTENDS Layout, FiniteSets

(* Depths and capacities from zero to what overflows, ranks inside and     *)
(* outside the communicator, pairs configured twice.                       *)
Entries == (0..2) \X (2..3) \X {1, 3} \X {1, 4}

Strange ==
  {<<0, 1, 0, 1>>, <<0, 1, 1, 0>>, <<2, 4, 1, 1>>, <<-1, 1, 1, 1>>, <<1, 0, 1, 7>>, <<3, 0, 1, 2>>}

MCRings ==
  {<<a, b>> : a, b \in Entries \cup Strange}
    \cup {<<a, b, c>> : a, b, c \in {e \in Entries : e[3] # e[4] /\ e[1] # e[2]}}

=============================================================================
