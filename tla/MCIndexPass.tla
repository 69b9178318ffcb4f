----------------------------- MODULE MCIndexPass -----------------------------
(* Two processes on two roots share one database; one path can be excluded. *)
EXTENDS IndexPassProps

CONSTANTS p1, p2, r1, r2, a, b, c1, c2, l1, l2

MCRootOf == [p \in {p1, p2} |-> IF p = p1 THEN r1 ELSE r2]
MCPolicy == {{}, {b}}

Exe(resolver) == [parser |-> 1, resolver |-> resolver]
Plain == [policy |-> {}, force |-> FALSE, exe |-> Exe(1)]
MCOptionsOf ==
  [p \in {p1, p2} |->
     IF p = p1
     THEN {Plain, [Plain EXCEPT !.policy = {b}], [Plain EXCEPT !.force = TRUE, !.exe = Exe(2)]}
     ELSE {Plain}]

MCTrees == {[files |-> [f \in {a, b} |-> c1], layout |-> l1]}

OldRow == [content |-> c2, parser |-> 1, project |-> l1]
MCOldBases == {[rows |-> [f \in {a, b} |-> OldRow], mods |-> l1, resolver |-> 1]}
=============================================================================
