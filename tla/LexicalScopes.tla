------------------------------ MODULE LexicalScopes ------------------------------
(***************************************************************************)
(* parse/scopes.rs: which binding a call of a Rust, Python or JavaScript   *)
(* file reads, from syntax alone.  apply visits the nodes in preorder and  *)
(* binds names in the scopes they belong to; reassignments are collected   *)
(* and invalidate bindings afterwards; then every call gets a path or the  *)
(* reason that blocks it.                                                  *)
(*                                                                         *)
(* A scope is the node that opens it, 0 for the file.  Node kinds stand    *)
(* for the grammars' node types:                                           *)
(*   lambda   arrow and function expressions, lambdas, closures; a         *)
(*            comprehension or a catch clause is "comprehension", "catch"  *)
(*   pattern  assignments and for targets of Python, let declarations, as  *)
(*            patterns, declarators without function                       *)
(*   var      such a declarator of a var statement                         *)
(*   for      what the head of a for statement of ECMAScript binds         *)
(*   global, nonlocal  one name of such a statement                        *)
(*   unread   a name that syntax binds which apply does not look at: :=    *)
(*            and case patterns of Python, generator functions of          *)
(*            ECMAScript; for, if let and match patterns of Rust are       *)
(*            blocks with one                                              *)
(*   import   one imported name, params those that its statement imports   *)
(*            besides; import_other: a default, type-only or glob import,  *)
(*            an external crate, import m                                  *)
(***************************************************************************)
EXTENDS Extraction, Integers

Ecma(lang) == lang \in {"javascript", "typescript"}

NoScope == -1
NoBinding == 0
NoTarget == 0
NoImport == <<>>
Unbound == [target |-> NoBinding, import |-> NoImport, reason |-> "unbound"]
-----------------------------------------------------------------------------
(* Scopes *)

Functions == {"function", "fn_let", "fn_var", "lambda", "method"}

OpensScope(lang, node) ==
  \/ node.kind \in Functions \cup {"class", "impl", "trait", "mod", "catch", "comprehension"}
  \/ lang # "python" /\ node.kind = "block"

Scopes(lang, t, i) == {a \in Ancestors(t, i) : OpensScope(lang, t[a])}

\* The scope that is current when node i is visited.
ScopeAt(lang, t, i) == Innermost(Scopes(lang, t, i))

\* Mutant: the scopes in a class body see its names.
NoClassIsSkipped(lang, node) == FALSE

\* A Python class is no enclosing scope of the scopes inside it.
python_class(lang, node) == lang = "python" /\ node.kind = "class"

\* A Rust module sees nothing of what surrounds it.
Parent(lang, t, s) ==
  IF s = 0 \/ t[s].kind = "mod"
  THEN NoScope
  ELSE Innermost({a \in Scopes(lang, t, s) : ~python_class(lang, t[a])})

Chain(lang, t, s) ==
  LET chain[u \in 0 .. Len(t)] ==
        {u} \cup (IF Parent(lang, t, u) = NoScope THEN {} ELSE chain[Parent(lang, t, u)])
  IN  chain[s]

member_namespace(lang, t, s) ==
  s # 0 /\ \/ lang = "rust" /\ t[s].kind \in {"impl", "trait"}
           \/ Ecma(lang) /\ t[s].kind = "class"

\* var declarations belong to the enclosing function.
binding_scope(lang, t, i) ==
  IF t[i].kind \in {"var", "fn_var"}
  THEN Innermost({a \in Scopes(lang, t, i) : t[a].kind \in Functions})
  ELSE ScopeAt(lang, t, i)
-----------------------------------------------------------------------------
(* Imports: the locals that named_imports yields, and every other identifier *)
(* of the statement, which is bound to nothing                               *)

\* Rust: a path down from the crate or the module; no external crate.
NamesImport(lang, node) ==
  /\ node.kind = "import"
  /\ lang = "rust" => Len(node.path) > 1 /\ node.path[1] \in {"crate", "self", "super"}

Imported(lang, node) ==
  IF lang = "rust" THEN <<node.path, "">> ELSE <<node.path, node.of>>

\* The module of an ECMAScript import is a string.  What the statement imports
\* under another of its nodes is no mere mention.
Mentioned(lang, node) ==
  ((((IF Ecma(lang) THEN {} ELSE ToSet(node.path)) \cup {node.of}) \ node.params) \cup {node.name})
    \ {"", "*", ".", "..", "crate", "self", "super"}
-----------------------------------------------------------------------------
(* Bindings *)

bind(b, target, reason) ==
  IF b = Unbound THEN [target |-> target, import |-> NoImport, reason |-> reason]
  ELSE IF b.target # target \/ b.import # NoImport
  THEN [target |-> NoTarget, import |-> NoImport,
        reason |-> IF reason = "shadowed" THEN "shadowed" ELSE "ambiguous"]
  ELSE b

bind_import(b, import) ==
  IF b = Unbound
  THEN [target |-> NoTarget, import |-> import, reason |-> "imported"]
  ELSE [target |-> NoTarget, import |-> NoImport, reason |-> "shadowed"]

Defines(node) == node.kind \in {"function", "class", "fn_let", "fn_var"}

\* Node i binds name x in scope s.
Binds(lang, t, i, s, x) ==
  \/ Defines(t[i]) /\ s = binding_scope(lang, t, i) /\ x = t[i].name
  \/ OpensScope(lang, t[i]) /\ s = i /\ x \in t[i].params
  \/ t[i].kind \in {"pattern", "var", "for", "global", "nonlocal"} /\ s = binding_scope(lang, t, i) /\ x = t[i].name
  \/ t[i].kind \in {"import", "import_other"} /\ s = ScopeAt(lang, t, i) /\ x \in Mentioned(lang, t[i])

BindNode(lang, t, b, i, s, x) ==
  CASE t[i].kind \in {"import", "import_other"} ->
         IF NamesImport(lang, t[i]) /\ x = t[i].name
         THEN bind_import(b, Imported(lang, t[i]))
         ELSE bind(b, NoTarget, "external")
    [] Defines(t[i]) /\ s # i -> bind(b, i, "ambiguous")
    [] OTHER -> bind(b, NoTarget, "shadowed")

\* The names that calls look up.
Sought(t) ==
  UNION {{t[i].name, t[i].of, IF t[i].path = <<>> THEN "" ELSE t[i].path[1]} :
           i \in {j \in DOMAIN t : t[j].kind = "call"}}

\* What the visit of all nodes binds to x in scope s.
Visited(lang, t, s, x) ==
  LET visit[i \in 0 .. Len(t)] ==
        IF i = 0 THEN Unbound
        ELSE IF Binds(lang, t, i, s, x) THEN BindNode(lang, t, visit[i - 1], i, s, x)
        ELSE visit[i - 1]
  IN  visit[Len(t)]

\* scope, name -> binding
Collected(lang, t) == [p \in (0 .. Len(t)) \X Sought(t) |-> Visited(lang, t, p[1], p[2])]

\* Mutant: an assignment reaches only the bindings of its own scope.
ReassignedInPlace(lang, t, collected, s, x) ==
  \E i \in DOMAIN t :
    t[i].kind = "reassign" /\ t[i].name = x /\ s = ScopeAt(lang, t, i)

\* An assignment expression of JavaScript hits the nearest binding there is,
\* wherever in the file that was declared.
Reassigned(lang, t, collected, s, x) ==
  \E i \in DOMAIN t :
    /\ Ecma(lang) /\ t[i].kind = "reassign" /\ t[i].name = x
    /\ LET bound == {u \in Chain(lang, t, ScopeAt(lang, t, i)) : collected[<<u, x>>] # Unbound}
       IN  bound # {} /\ s = Max(bound)

Invalidated(lang, t, collected) ==
  [p \in DOMAIN collected |->
     IF collected[p] # Unbound /\ Reassigned(lang, t, collected, p[1], p[2])
     THEN [target |-> NoTarget, import |-> NoImport, reason |-> "reassigned"]
     ELSE collected[p]]

\* The bindings that calls read.
Bindings(lang, t) == Invalidated(lang, t, Collected(lang, t))

lookup(lang, t, bindings, s, x) ==
  LET holders == {u \in Chain(lang, t, s) :
                    ~member_namespace(lang, t, u) /\ bindings[<<u, x>>] # Unbound}
  IN  IF holders = {} THEN Unbound ELSE bindings[<<Max(holders), x>>]
-----------------------------------------------------------------------------
(* Calls: a path, or the reason there is none *)

Path(path) == [path |-> path, blocked |-> ""]
Blocked(path, reason) == [path |-> path, blocked |-> reason]
NoPath == <<>>

\* The modules of the file around node i, outermost first.
InModules(t, i) ==
  LET names[a \in 0 .. Len(t)] ==
        IF a = 0 THEN <<>>
        ELSE IF a \in Ancestors(t, i) /\ t[a].kind = "mod" THEN Append(names[a - 1], t[a].name)
        ELSE names[a - 1]
  IN  names[Len(t)]

\* Mutant: the default methods of a trait count as well.
InImplementationOrTrait(t, i) ==
  \E a \in Ancestors(t, i) : t[a].kind \in {"impl", "trait"}

in_implementation(t, i) == \E a \in Ancestors(t, i) : t[a].kind = "impl"

\* x.f(): a namespace import of JavaScript, or self in an impl of Rust.
Selected(lang, t, bindings, i, owner) ==
  LET call == t[i]
      object == lookup(lang, t, bindings, ScopeAt(lang, t, i), call.of)
  IN  CASE Ecma(lang) /\ object.import # NoImport /\ object.import[2] = "*" ->
             Path(<<"@import", object.import[1], call.name>>)
        [] lang = "rust" /\ call.of = "self" /\ Len(owner) > 1
             /\ in_implementation(t, i) ->
             Path(Append(Front(owner), call.name))
        [] OTHER -> Blocked(call.path, "dynamic")

\* A path through a use binding starts where that use says.
Expanded(t, i, head) ==
  IF head.import = NoImport THEN t[i].path
  ELSE head.import[1] \o (IF t[i].path = NoPath THEN <<>> ELSE Tail(t[i].path))

\* Mutant: super of a module inside the file is that module itself.
SuperIsSelf(t, i, path) ==
  IF InModules(t, i) = <<>> \/ path[1] \notin {"self", "super"} \/ Len(path) < 2 THEN path
  ELSE <<"local_module">> \o InModules(t, i) \o Tail(path)

\* self and super inside modules of the file, as a path from the file's module.
FromFile(t, i, path) ==
  LET mods == InModules(t, i)
  IN  IF mods = <<>> \/ path[1] \notin {"self", "super"} \/ Len(path) < 2 THEN path
      ELSE <<"local_module">> \o (IF path[1] = "super" THEN Front(mods) ELSE mods) \o Tail(path)

\* A bare name.
Bare(lang, t, bindings, i, qualified) ==
  LET b == lookup(lang, t, bindings, ScopeAt(lang, t, i), t[i].name)
  IN  CASE b = Unbound -> Blocked(NoPath, "unknown")
        [] b.import # NoImport /\ b.import[2] = "*" -> Blocked(NoPath, "unsupported_import")
        [] b.import # NoImport /\ b.import[2] # "*" ->
             Path(<<"@import", b.import[1], b.import[2]>>)
        [] b.target # NoTarget -> Path(qualified[b.target])
        [] OTHER -> Blocked(NoPath, b.reason)

\* owner is the qualified name of the definition around the call.
apply(lang, t, bindings, i, owner, qualified) ==
  LET name == IF t[i].path = NoPath THEN t[i].name ELSE t[i].path[1]
      head == IF lang = "rust" THEN lookup(lang, t, bindings, ScopeAt(lang, t, i), name) ELSE Unbound
      path == Expanded(t, i, head)
  IN  CASE t[i].of # "" -> Selected(lang, t, bindings, i, owner)
        [] t[i].of = "" /\ t[i].path # NoPath /\ head # Unbound
             /\ head.import = NoImport /\ head.target = NoTarget -> Blocked(path, head.reason)
        [] OTHER -> IF path # NoPath THEN Path(FromFile(t, i, path))
                                     ELSE Bare(lang, t, bindings, i, qualified)
=============================================================================
