--------------------------- MODULE MCManagedProfiles ---------------------------
(* Two executables refresh; the newer one also without one of the inputs. *)
EXTENDS ManagedProfilesProps, TLC

CONSTANTS p1, p2, r1, i, j, a, b, c0, c1, all, less

MCCovers == [o \in {all, less} |-> IF o = all THEN {a, b} ELSE {a}]
MCScopeOf == [o \in {all, less} |-> IF o = all THEN "wide" ELSE "narrow"]
MCVersionOf == [p \in {p1, p2, r1} |-> IF p = p1 THEN 1 ELSE 2]
MCOptionsOf == [p \in {p1, p2} |-> IF p = p1 THEN {all} ELSE {all, less}]
\* Nothing tells two projects apart, nor two contents.
Symmetry == Permutations({i, j}) \cup Permutations({c0, c1})
=============================================================================
