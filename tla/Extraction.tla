------------------------------- MODULE Extraction -------------------------------
(***************************************************************************)
(* What extract of parse.rs reads off one syntax tree: definitions, their  *)
(* nesting, and the owner of each reference.                               *)
(*                                                                         *)
(* A tree is the sequence of its named nodes in preorder.  A node starts   *)
(* at the byte that is its index and ends after its last descendant, so    *)
(* ranges are nested or disjoint, as those of tree-sitter.  A declarator   *)
(* whose value is a function is one node with that function.               *)
(***************************************************************************)
EXTENDS Naturals, Sequences, FiniteSets, SequencesExt

\* kind; last descendant; name; params bound in the scope the node opens; path
\* of a call or module of an import; of: receiver of a call, name an import
\* exports, "export" on a definition under an export statement.
Node(kind, last, name, params, path, of) ==
  [kind |-> kind, last |-> last, name |-> name, params |-> params, path |-> path, of |-> of]

Nodes ==
  [kind : STRING, last : Nat, name : STRING, params : SUBSET STRING, path : Seq(STRING), of : STRING]

IsTree(t) ==
  \A i \in DOMAIN t :
    /\ t[i].last \in i .. Len(t)
    /\ \A j \in i + 1 .. t[i].last : t[j].last <= t[i].last

End(t, i) == t[i].last + 1
Ancestors(t, i) == {a \in 1 .. i - 1 : i <= t[a].last}

\* The root is node 0.
Innermost(nodes) == Max(nodes \cup {0})
-----------------------------------------------------------------------------
(* Definitions: the tag queries *)

KindOf(node) ==
  CASE node.kind \in {"function", "fn_let", "fn_var"} -> "function"
    [] node.kind \in {"class", "impl", "trait", "method"} -> node.kind
    [] node.kind = "mod" -> "module"
    [] OTHER -> "none"

Definitions(t) == {i \in DOMAIN t : KindOf(t[i]) # "none"}

IsContainer(kind) == kind \in {"class", "impl", "trait"}

Exported(lang, t, i) ==
  IF lang = "python" THEN Ancestors(t, i) = {}
                     ELSE lang \in {"javascript", "typescript"} /\ t[i].of = "export"
-----------------------------------------------------------------------------
(* Nesting: one sweep over the definitions, with the stack of the open ones *)

\* Mutant: a definition that ends where the next one starts stays open.
OpenOrTouching(t, stack, byte) ==
  SubSeq(stack, 1, Max({0} \cup {k \in DOMAIN stack : End(t, stack[k]) >= byte}))

\* What is left once every closed definition on top of the stack is popped.
StillOpen(t, stack, byte) ==
  SubSeq(stack, 1, Max({0} \cup {k \in DOMAIN stack : End(t, stack[k]) > byte}))

\* The stack, and the qualified name and the kind of every definition met so far.
Nest(t, sweep, i) ==
  LET open == StillOpen(t, sweep.stack, i)
      parent == IF open = <<>> THEN 0 ELSE Last(open)
      above == IF parent = 0 THEN <<>> ELSE sweep.qualified[parent]
      kind == IF KindOf(t[i]) = "function" /\ parent # 0 /\ IsContainer(KindOf(t[parent]))
              THEN "method" ELSE KindOf(t[i])
  IN  [stack |-> Append(open, i),
       qualified |-> [d \in DOMAIN sweep.qualified \cup {i} |->
                        IF d = i THEN Append(above, t[i].name) ELSE sweep.qualified[d]],
       kind |-> [d \in DOMAIN sweep.kind \cup {i} |-> IF d = i THEN kind ELSE sweep.kind[d]]]

Unnested == [stack |-> <<>>, qualified |-> <<>>, kind |-> <<>>]

\* Definitions are visited by where they start.
assign_nesting(t) ==
  LET sweep[i \in 0 .. Len(t)] ==
        IF i = 0 THEN Unnested
        ELSE IF i \in Definitions(t) THEN Nest(t, sweep[i - 1], i)
        ELSE sweep[i - 1]
  IN  sweep[Len(t)]
-----------------------------------------------------------------------------
(* Owners: a second sweep, over the references by byte *)

Unowned == [stack |-> <<>>, owner |-> <<>>]

\* Every definition that starts by a reference is pushed before any is popped.
Own(t, bytes, sweep, i) ==
  LET pushed == IF i \in Definitions(t) THEN Append(sweep.stack, i) ELSE sweep.stack
      open == StillOpen(t, pushed, i)
      top == IF open = <<>> THEN 0 ELSE Last(open)
  IN  [stack |-> IF i \in bytes THEN open ELSE pushed,
       owner |-> IF i \in bytes
                 THEN [r \in DOMAIN sweep.owner \cup {i} |->
                         IF r = i THEN top ELSE sweep.owner[r]]
                 ELSE sweep.owner]

assign_enclosing(t, bytes) ==
  LET sweep[i \in 0 .. Len(t)] ==
        IF i = 0 THEN Unowned ELSE Own(t, bytes, sweep[i - 1], i)
  IN  sweep[Len(t)].owner
=============================================================================
