------------------------------ MODULE MCRouting ------------------------------
(* Three firewalls: at first one of them is behind both of two relays, and *)
(* the others behind one each; at most one has its serial on record.       *)
EXTENDS ManagedRouter, TLC

CONSTANT serialA

Profile(sources, serials) == [sources |-> sources, serials |-> serials]

(* Serials are on record for firewalls behind both relays, so that a known *)
(* serial narrows what its source allows.                                  *)
MCProfiles ==
  {Profile({relay}, {}) : relay \in Sources}
    \cup {Profile(Sources, serials) : serials \in {{}, {serialA}}}

MCInitial ==
  {c \in [Targets -> Profiles] :
     /\ {c[t].sources : t \in Targets} = {Sources} \cup {{relay} : relay \in Sources}
     /\ Cardinality({t \in Targets : c[t].serials # {}}) <= 1}

Symmetry ==
  {p @@ q @@ r : p \in Permutations(Targets), q \in Permutations(Sources),
                 r \in Permutations(Settings)}
=============================================================================
