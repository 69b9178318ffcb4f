------------------------------- MODULE MCResolution -------------------------------
(* Every tree of a few nodes around one call, in the languages' own scopes,   *)
(* beside the files that its imports and its package may lead to.             *)
EXTENDS ResolutionProps

Leaf(kind, name) == Node(kind, 0, name, {}, <<>>, "")
Opening(kind, name, params) == Node(kind, 0, name, params, <<>>, "")
Use(name, path, of) == Node("import", 0, name, {}, path, of)
\* One of two names of a use declaration.
UseOf(name, path, other) == [Use(name, path, "") EXCEPT !.params = {other}]
Call(path, of, name) == Node("call", 0, name, {}, path, of)

File(project, dir, stem, ext, mark) ==
  [project |-> project, dir |-> dir, stem |-> stem, ext |-> ext, mark |-> mark]
Content(tree, package, errors) == [tree |-> tree, package |-> package, errors |-> errors]
-----------------------------------------------------------------------------
(* The nodes a tree is made of, and its call *)

EcmaLabels ==
  <<Opening("function", "g", {}), Opening("function", "f", {}), Opening("function", "g", {"f"}),
    Leaf("pattern", "f"), Leaf("var", "f"), Leaf("reassign", "f"), Opening("block", "", {}),
    Opening("fn_var", "f", {}), Use("f", <<".", "m">>, "f"),
    Opening("class", "f", {}), Opening("method", "f", {"f"}), Opening("lambda", "", {}),
    Use("f", <<".", "m">>, "*"), Node("import_other", 0, "f", {}, <<"m">>, ""), Use("g", <<".", "m">>, "f"),
    [Opening("fn_let", "f", {}) EXCEPT !.of = "export"], Opening("catch", "", {"f"}),
    Use("f", <<"..", "..", "m">>, "f"), Use("f", <<".", "m", "js">>, "f"), Leaf("for", "f")>>
EcmaCalls == <<Call(<<>>, "", "f"), Call(<<>>, "f", "f")>>

PythonLabels ==
  <<Opening("function", "g", {}), Opening("function", "f", {}), Opening("class", "g", {}),
    Leaf("pattern", "f"), Opening("comprehension", "", {}), Opening("function", "g", {"f"}),
    Use("f", <<".", "m">>, "f"), Opening("lambda", "", {"f"}), Use("f", <<"m">>, "f"),
    Opening("block", "", {}), Use("g", <<".", "m">>, "f"), Node("import_other", 0, "f", {}, <<"m">>, ""),
    Leaf("global", "f"), Leaf("nonlocal", "f"), Leaf("unread", "f")>>
PythonCalls == <<Call(<<>>, "", "f"), Call(<<>>, "f", "f")>>

RustLabels ==
  <<Opening("function", "g", {}), Opening("function", "f", {}), Opening("mod", "m", {}),
    Opening("impl", "S", {}), Opening("block", "", {}), Use("f", <<"super", "f">>, ""),
    Leaf("pattern", "f"), Opening("trait", "S", {}), Use("m", <<"crate", "m">>, ""),
    Opening("function", "g", {"f"}), Opening("lambda", "", {"f"}), Use("f", <<"crate", "m", "f">>, ""), Use("f", <<"ext", "f">>, ""),
    Use("g", <<"self", "m", "f">>, ""), UseOf("f", <<"self", "f">>, "g"),
    UseOf("g", <<"self", "f", "g">>, "f"), Leaf("unread", "f")>>
RustCalls ==
  <<Call(<<>>, "", "f"), Call(<<"super", "f">>, "", "f"), Call(<<>>, "self", "f"),
    Call(<<"m", "f">>, "", "f"), Call(<<"crate", "m", "f">>, "", "f"), Call(<<"self", "f">>, "", "f")>>

GoLabels ==
  <<Opening("function", "G", {}), Opening("function", "F", {}), Opening("block", "", {}),
    Leaf("short", "F"), Use("", <<"M", "lib">>, ""), Leaf("short", "lib"),
    Use("lib", <<"ext", "lib">>, ""), Leaf("var", "F"), Opening("function", "G", {"F"}),
    [Opening("method", "F", {}) EXCEPT !.of = "T"], Opening("type", "F", {}),
    Use("lib", <<"M", "lib">>, ""), Use(".", <<"M", "lib">>, ""), Use("_", <<"M", "lib">>, ""),
    Use("F", <<"M", "lib">>, ""), Opening("lambda", "", {"lib"}), Use("lib", <<"M", "..", "lib">>, ""),
    Opening("method", "F", {})>>
GoCalls ==
  <<Call(<<>>, "", "F"), Call(<<>>, "lib", "F"), Call(<<>>, "lib", "f"), Call(<<>>, "?", "F")>>

Ext == <<"js", "py", "rs", "go">>
Labels == <<EcmaLabels, PythonLabels, RustLabels, GoLabels>>
CallsOf == <<EcmaCalls, PythonCalls, RustCalls, GoCalls>>
-----------------------------------------------------------------------------
(* Trees: label 0 is the call *)

LeafKinds ==
  {"pattern", "var", "short", "reassign", "for", "global", "nonlocal", "unread", "import", "import_other",
   "call"}

TreeOf(l, last, labels, call) ==
  [i \in DOMAIN last |->
     [IF labels[i] = 0 THEN CallsOf[l][call] ELSE Labels[l][labels[i]] EXCEPT !.last = last[i]]]

\* What a grammar puts where: statements in bodies, members in classes.
Grammatical(l, t) ==
  \A i \in DOMAIN t :
    LET up == Innermost(Ancestors(t, i))
        parent == IF up = 0 THEN "file" ELSE t[up].kind
        kind == t[i].kind
    IN  /\ kind \in LeafKinds \ {"short", "var"} => t[i].last = i
        /\ kind \in {"short", "var"} /\ l # 4 => t[i].last = i
        /\ CASE l = 1 -> /\ kind = "method" <=> (parent = "class" /\ kind # "call")
                         /\ kind \in {"import", "import_other"} \/ t[i].of = "export" => up = 0
             [] l = 2 -> TRUE
             [] l = 3 -> /\ parent \in {"impl", "trait"} => kind \in {"function", "call"}
                         /\ parent = "mod" => kind \in {"function", "call", "mod", "impl", "trait", "import"}
                         /\ kind \in {"pattern", "unread", "block", "lambda"} => up # 0
                         /\ kind = "import" => \A x \in t[i].params :
                              \E j \in {i - 1, i + 1} \cap DOMAIN t :
                                t[j].kind = "import" /\ t[j].name = x /\ t[j].params = {t[i].name}
                         /\ kind = "call" /\ t[i].of = "self" =>
                              \E d \in Ancestors(t, i), a \in Ancestors(t, i) :
                                /\ d = Innermost(Ancestors(t, i) \cap Definitions(t))
                                /\ a = Innermost(Ancestors(t, d)) /\ t[a].kind \in {"impl", "trait"}
             [] l = 4 -> /\ kind \in {"import", "method"} => up = 0
                         /\ kind = "function" => up = 0
                         /\ kind = "block" => GoScopes(t, i) # {}
                         /\ kind = "call" => parent \notin {"type", "file"}
                         /\ parent = "type" => FALSE
                         /\ kind \in {"short", "var"} => parent # "short"

Shapes(n) == {last \in [1 .. n -> 1 .. n] :
                \A i \in 1 .. n : /\ last[i] >= i
                                  /\ \A j \in i + 1 .. last[i] : last[j] <= last[i]}

\* Trees of n nodes, over some labels, with one of the calls: at the end, for Go
\* anywhere.
TreesOver(l, n, chosen, calls) ==
  {c \in {l} \X Shapes(n)
         \X {InsertAt(labels, at, 0) : labels \in [1 .. n - 1 -> chosen],
                                      at \in IF l = 4 THEN 1 .. n ELSE {n}}
         \X calls :
     Grammatical(l, TreeOf(l, c[2], c[3], c[4]))}

Trees(l, n, k, calls) == TreesOver(l, n, 1 .. k, calls)
-----------------------------------------------------------------------------
(* The other files *)

Fn(name) == [Opening("function", name, {}) EXCEPT !.last = 1]
ExportFn(name) == [Fn(name) EXCEPT !.of = "export"]
One(node) == Content(<<[node EXCEPT !.last = 1]>>, "", FALSE)
Two(node) == Content(<<[node EXCEPT !.last = 1], [node EXCEPT !.last = 2]>>, "", FALSE)

App == <<"app">>
Sub(ext) == File(<<"app", "sub">>, <<>>, "m", ext, "")

EcmaFiles(k) ==
  LET m == File(App, <<"d">>, "m", "js", "")
      top == File(<<>>, <<>>, "m", "js", "")
      far == File(<<"lib">>, <<>>, "m", "js", "") :> One(ExportFn("f"))
  IN  far @@
      CASE k = 1 -> m :> One(ExportFn("f"))
        [] k = 2 -> m :> Two(ExportFn("f"))
        [] k = 3 -> m :> One(Fn("f"))
        [] k = 4 -> File(App, <<"d", "m">>, "index", "ts", "") :> One(ExportFn("f"))
        [] k = 5 -> (m :> One(ExportFn("f"))) @@ (File(App, <<"d">>, "m", "ts", "") :> One(ExportFn("f")))
        [] k = 6 -> File(App, <<"d">>, "m", "py", "") :> One(Fn("f"))
        [] k = 7 -> File(<<"app", "d">>, <<>>, "m", "js", "") :> One(ExportFn("f"))
        [] k = 8 -> top :> One(ExportFn("f"))

PythonFiles(k) ==
  LET m == File(App, <<"d">>, "m", "py", "")
  IN  CASE k = 1 -> m :> One(Fn("f"))
        [] k = 2 -> m :> Two(Fn("f"))
        [] k = 3 -> m :> Content(<<[Fn("g") EXCEPT !.last = 2], [Fn("f") EXCEPT !.last = 2]>>, "", FALSE)
        [] k = 4 -> (m :> One(Fn("f"))) @@ (File(App, <<"d", "m">>, "__init__", "py", "") :> One(Fn("f")))
        [] k = 5 -> File(<<"app", "d">>, <<>>, "m", "py", "") :> One(Fn("f"))
        [] k = 6 -> (File(App, <<>>, "m", "pyi", "") :> One(Fn("f"))) @@ (m :> One(Leaf("pattern", "f")))

RustFiles(k) ==
  (File(<<"lib">>, <<"src">>, "m", "rs", "") :> One(Fn("f"))) @@
  CASE k = 1 -> File(App, <<"src">>, "m", "rs", "") :> One(Fn("f"))
    [] k = 2 -> File(App, <<"src">>, "lib", "rs", "") :> One(Fn("f"))
    [] k = 3 -> (File(App, <<"src", "m">>, "mod", "rs", "") :> One(Fn("f"))) @@
                (File(App, <<"src">>, "main", "rs", "") :> One(Fn("f")))

\* The file that holds the tree.
Here(l, k) ==
  IF l = 1 /\ k = 8 THEN File(<<>>, <<"d">>, "a", "js", "")
  ELSE IF l < 3 THEN File(App, <<"d">>, "a", Ext[l], "")
  ELSE IF l = 3 THEN File(App, <<"src">>, IF k = 2 THEN "m" ELSE "lib", "rs", "")
  ELSE File(App, <<"d">>, "a", "go", IF k = 8 THEN "test" ELSE IF k = 9 THEN "ignored" ELSE "")

GoOf(node, package, errors) == Content(<<[node EXCEPT !.last = 1]>>, package, errors)
GoBeside(mark) == File(App, <<"d">>, "b", "go", mark)
GoLib(stem, mark) == File(App, <<"lib">>, stem, "go", mark)
Plain == GoLib("b", "") :> GoOf(Fn("F"), "lib", FALSE)

GoFiles(k) ==
  CASE k = 1 -> Plain @@ (GoBeside("") :> GoOf(Fn("F"), "p", FALSE))
    [] k = 2 -> Plain
    [] k = 3 -> Plain @@ (GoBeside("test") :> GoOf(Fn("F"), "p", FALSE))
    [] k = 4 -> Plain @@ (GoBeside("ignored") :> GoOf(Fn("F"), "p", FALSE))
    [] k = 5 -> Plain @@ (GoBeside("") :> GoOf(Leaf("var", "F"), "p", FALSE))
                      @@ (GoLib("c", "") :> GoOf(Leaf("var", "F"), "lib", FALSE))
    [] k = 6 -> Plain @@ (GoBeside("") :> GoOf(Fn("F"), "q", FALSE))
                      @@ (GoLib("c", "") :> GoOf(Fn("G"), "q", FALSE))
    [] k = 7 -> GoLib("b", "") :> GoOf(Fn("f"), "lib", FALSE)
    [] k = 8 -> Plain @@ (GoBeside("test") :> GoOf(Fn("F"), "p", FALSE))
                      @@ (GoLib("c", "test") :> GoOf(Fn("F"), "lib", FALSE))
    [] k = 9 -> Plain @@ (GoBeside("") :> GoOf(Fn("F"), "p", FALSE))
    [] k = 10 -> Plain @@ (GoLib("c", "") :> GoOf(Fn("G"), "lib", TRUE))
    [] k = 11 -> GoLib("b", "") :> GoOf(Fn("F"), "main", FALSE)
    [] k = 12 -> Plain @@ (GoLib("c", "") :> GoOf(Fn("G"), "", FALSE))
    [] k = 13 -> Plain @@ (GoLib("c", "ignored") :> GoOf(Fn("F"), "lib", FALSE))
    [] k = 14 -> GoLib("b", "test") :> GoOf(Fn("F"), "lib", FALSE)
    [] k = 15 -> File(<<"app", "lib">>, <<>>, "b", "go", "") :> GoOf(Fn("F"), "lib", FALSE)

FilesOf(l, k) ==
  CASE l = 1 -> EcmaFiles(k) [] l = 2 -> PythonFiles(k) [] l = 3 -> RustFiles(k) [] l = 4 -> GoFiles(k)

\* In layout 14 of Go the file has no package clause.
MCProgram(c) ==
  LET l == c[1]
      k == c[5]
  IN  FilesOf(l, k) @@
      (Here(l, k) :> Content(TreeOf(l, c[2], c[3], c[4]),
                             IF l = 4 /\ k # 14 THEN "p" ELSE "", FALSE))

With(trees, layouts) == {Append(t, k) : t \in trees, k \in layouts}

MCBatches == 1 .. 14

\* Batches 12 to 14 are of calls whose name is not plain; 12, for targets.
MCForTargets == {12}

MCCases(b) ==
  CASE b = 1 -> With(Trees(1, 4, 15, {1}), {1})
    [] b = 2 -> With(Trees(1, 3, 19, 1 .. 2), 1 .. 3)
    [] b = 3 -> With(Trees(1, 2, 19, 1 .. 2), 1 .. 8)
    [] b = 4 -> With(Trees(2, 4, 12, {1}), {1})
    [] b = 5 -> With(Trees(2, 3, 12, 1 .. 2), 1 .. 6)
    [] b = 6 -> With(Trees(2, 5, 5, {1}), {1})
    [] b = 7 -> With(Trees(3, 4, 9, 1 .. 6), {1})
    [] b = 8 -> With(Trees(3, 3, 16, 1 .. 6), 1 .. 3)
    [] b = 9 -> With(Trees(4, 4, 9, 1 .. 2), {2})
    [] b = 10 -> With(Trees(4, 3, 18, 1 .. 4), 1 .. 15)
    [] b = 11 -> With(Trees(1, 5, 5, {1}), {1})
    [] b = 12 -> With(TreesOver(1, 4, {1, 2, 7, 20}, {1}), {1})
    [] b = 13 -> With(TreesOver(2, 5, {1, 2, 4, 13, 14, 15}, {1}), {1})
    [] b = 14 -> With(TreesOver(3, 4, {1, 2, 5, 17}, {1}), {1})

MCStemOrder == <<"a", "b", "c">>
MCGoModules == (<<"app">> :> "M") @@ (<<"lib">> :> "N")
=============================================================================
