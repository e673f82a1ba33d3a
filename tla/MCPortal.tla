------------------------------ MODULE MCPortal ------------------------------
(***************************************************************************)
(* Portal for model checking: the plans.  Two students share the links of one  *)
(* page while the tokens rotate; two share a hint while a term opens; and one   *)
(* student's jobs of every kind meet a fault of the portal.                    *)
(***************************************************************************)
EXTENDS Portal

CONSTANTS s1, s2

Plan(first, second, rotations, terms, faults) ==
    [kinds |-> [s \in Students |-> IF s = s1 THEN first ELSE second],
     bound |-> [rotations |-> rotations, terms |-> terms, faults |-> faults]]

MCPlans == { Plan({"search"}, {"paper"}, 1, 0, 0),
             Plan({"attendance"}, {"details"}, 0, 1, 0),
             Plan({"attendance"}, {}, 1, 1, 1),
             Plan({"details"}, {}, 1, 0, 1),
             Plan({"paper", "seats"}, {}, 1, 0, 1),
             Plan({"home", "search"}, {}, 0, 0, 1) }

=============================================================================
