------------------------------ MODULE GoExtraction ------------------------------
(***************************************************************************)
(* extract of parse/go.rs on one tree of Extraction: what a Go file        *)
(* declares, and which of its calls a local binding takes away from the    *)
(* package.                                                                *)
(*                                                                         *)
(* Node kinds: function, method (of is the receiver's type), lambda, block *)
(* (every statement or case with a scope), type, var (a package or local   *)
(* variable or constant), short (short declarations, range and receive     *)
(* clauses, type switch aliases), import (name is the alias, path the      *)
(* package), call (of is the receiver, "?" when it is no identifier).      *)
(* A package clause is the value package, "" when there is none.           *)
(***************************************************************************)
EXTENDS Extraction

CONSTANT Capitalized \* the names that start with a capital

is_scope(node) == node.kind \in {"function", "method", "lambda", "block", "type"}

GoScopes(t, i) == {a \in Ancestors(t, i) : is_scope(t[a])}

\* Mutant: a declaration binds its name from its start on.
FromStart(t, i, s) == IF s = i THEN 0 ELSE i

\* Where a binding of node i begins: a parameter at once, a type at its name, a
\* variable after its whole declaration.
BoundFrom(t, i, s) ==
  IF s = i THEN 0 ELSE IF t[i].kind = "type" THEN i + 1 ELSE End(t, i)

\* Node i binds name x in scope s.
GoBinds(t, i, s, x) ==
  /\ x # "_"
  /\ \/ is_scope(t[i]) /\ s = i /\ x \in t[i].params
     \/ /\ t[i].kind = "short" /\ x = t[i].name
        /\ s = Innermost(GoScopes(t, i))
     \/ /\ t[i].kind \in {"var", "type"} /\ x = t[i].name
        /\ s = Innermost(GoScopes(t, i)) /\ s # 0

Shadowed(t, i, x) ==
  \E s \in GoScopes(t, i) \cup {0} : \E b \in DOMAIN t :
    GoBinds(t, b, s, x) /\ BoundFrom(t, b, s) <= i
-----------------------------------------------------------------------------
(* Declarations *)

Owners(t, i) == {a \in Ancestors(t, i) : t[a].kind \in {"function", "method", "type"}}

GoQualified(t, package, i) ==
  LET qualified[d \in DOMAIN t] ==
        LET above == IF Owners(t, d) = {} THEN <<package>> ELSE qualified[Max(Owners(t, d))]
        IN  CASE t[d].kind = "type" -> Append(above, t[d].name)
              [] t[d].kind = "method" /\ t[d].of # "" -> <<package, t[d].of, t[d].name>>
              [] OTHER -> <<package, t[d].name>>
  IN  qualified[i]

GoKindOf(node) ==
  IF node.kind = "var" THEN "static" ELSE node.kind

GoDeclarations(t) ==
  {i \in DOMAIN t : \/ t[i].kind \in {"function", "method", "type"}
                    \/ t[i].kind = "var" /\ GoScopes(t, i) = {}}

GoSymbols(t, package) ==
  {[at |-> i, name |-> t[i].name, qualified |-> GoQualified(t, package, i),
    kind |-> GoKindOf(t[i]), exported |-> t[i].name \in Capitalized] : i \in GoDeclarations(t)}
  \cup (IF package = "" THEN {}
        ELSE {[at |-> 0, name |-> package, qualified |-> <<package>>, kind |-> "module",
               exported |-> package \in Capitalized]})

GoOwner(t, package, i) ==
  IF Owners(t, i) = {} THEN <<>> ELSE GoQualified(t, package, Max(Owners(t, i)))
-----------------------------------------------------------------------------
(* Calls *)

GoPath(t, package, i) ==
  CASE t[i].of = "" -> <<"@go", package, t[i].name>>
    [] t[i].of = "?" -> <<>>
    [] OTHER -> <<"@go_selector", package, t[i].of, t[i].name>>

GoBlocked(t, package, i) ==
  CASE t[i].of = "?" -> "dynamic_receiver"
    [] t[i].of # "?" /\ package = "" -> "missing_package"
    [] t[i].of # "?" /\ package # "" ->
         IF Shadowed(t, i, IF t[i].of = "" THEN t[i].name ELSE t[i].of)
         THEN "shadowed_binding" ELSE ""
=============================================================================
