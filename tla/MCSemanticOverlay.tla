-------------------------- MODULE MCSemanticOverlay --------------------------
(* Two sources and a lock file; a call from f to g. *)
EXTENDS SemanticOverlayProps

CONSTANTS f, g, m, c1, c2, v1, v2

\* The artifact of a pinned runner: f calls g, both in their first version.
Docs == [s \in {f, g} |-> c1]
Calls == [s \in {f, g} |-> IF s = f THEN g ELSE None]
Runner ==
  [docs |-> Docs, calls |-> Calls, supported |-> TRUE,
   manifest |-> [files |-> [i \in {f, g, m} |-> c1], inventory |-> TRUE]]

\* The runner after g was edited away: its inventory does not list g.
Alone ==
  [docs |-> [s \in {f, g} |-> IF s = f THEN c1 ELSE None],
   calls |-> [s \in {f, g} |-> None], supported |-> TRUE,
   manifest |-> [files |-> [i \in {f, g, m} |-> IF i = g THEN None ELSE c1],
                 inventory |-> TRUE]]

\* An artifact with embedded text and a listed configuration file.
Listing ==
  [docs |-> [s \in {f, g} |-> IF s = f THEN c1 ELSE None], calls |-> Calls,
   supported |-> TRUE,
   manifest |-> [files |-> [i \in {f, g, m} |-> IF i = m THEN c1 ELSE None],
                 inventory |-> FALSE]]

MCTrees == {[i \in {f, g, m} |-> c1]}

MCArtifacts == {Runner, Alone, Listing}
=============================================================================
