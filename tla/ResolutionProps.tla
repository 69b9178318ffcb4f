------------------------------ MODULE ResolutionProps ------------------------------
(***************************************************************************)
(* Which edges the source of the program justifies, by the scope rules of  *)
(* its language: read off the trees with sets, without the sweeps, the     *)
(* order of bindings and the rows of the code.                             *)
(***************************************************************************)
EXTENDS Resolution

\* Type invariant: rows are of indexed files; targets are stored rows.
TypeOK ==
  /\ \A f \in DOMAIN source : IsTree(source[f].tree) /\ source[f].errors \in BOOLEAN
  /\ \A s \in symbols : s.file \in DOMAIN source /\ s.qualified # <<>>
  /\ \A r \in refs : r.file \in DOMAIN source /\ r.at \in DOMAIN source[r.file].tree
  /\ \A r \in DOMAIN imports :
       r.kind = "import" /\ imports[r].file \in DOMAIN source \cup {NoFile}
  /\ \A r \in DOMAIN edges :
       /\ r \in refs /\ r.kind = "call"
       /\ edges[r].target \in {IdOf(s) : s \in symbols} \cup {NoSymbol}
       /\ edges[r].confidence = "none" <=> edges[r].target = NoSymbol
-----------------------------------------------------------------------------
(* Variables of Rust, Python and ECMAScript *)

\* The scopes node i can read names of: no type or class body of another
\* language than Python, a Python class body from itself only, nothing outside a
\* Rust module.
Readable(lang, t, i) ==
  {s \in Scopes(lang, t, i) \cup {0} :
     /\ s # 0 => ~(lang = "rust" /\ t[s].kind \in {"impl", "trait"}) /\ ~(Ecma(lang) /\ t[s].kind = "class")
     /\ \A m \in Ancestors(t, i) : t[m].kind = "mod" => m <= s
     /\ s # 0 /\ lang = "python" /\ t[s].kind = "class" =>
          \A u \in Scopes(lang, t, i) : u <= s}

\* The scope a declaration gives its name to.
Home(lang, t, d) ==
  Max({0} \cup {a \in Scopes(lang, t, d) :
         t[d].kind \in {"var", "fn_var"} => t[a].kind \in Functions})

\* The nodes that declare x in scope s; an import statement, every name in it.
Declarations(lang, t, s, x) ==
  {d \in DOMAIN t :
     \/ t[d].kind \in {"function", "class", "fn_let", "fn_var", "pattern", "var", "unread"}
          /\ t[d].name = x /\ Home(lang, t, d) = s
     \/ OpensScope(lang, t[d]) /\ d = s /\ x \in t[d].params
     \/ t[d].kind \in {"import", "import_other"}
          /\ x \in Mentioned(lang, t[d]) /\ Home(lang, t, d) = s}

\* The scopes whose x a global or nonlocal statement keeps from node i: that of the
\* statement, and for global all but the file's.
Skipped(lang, t, i, x) ==
  UNION {{Home(lang, t, g)} \cup (IF t[g].kind = "global" THEN Scopes(lang, t, g) ELSE {}) :
           g \in {d \in DOMAIN t : /\ t[d].kind \in {"global", "nonlocal"} /\ t[d].name = x
                                   /\ Home(lang, t, d) \in Readable(lang, t, i) \ {0}}}

\* The scope of the variable that x is at node i; NoScope if it is none.
VariableAt(lang, t, i, x) ==
  Max({NoScope} \cup {s \in Readable(lang, t, i) \ Skipped(lang, t, i, x) :
                        Declarations(lang, t, s, x) # {}})

\* The nodes that give the x of scope s a value without declaring it there.
Assignments(lang, t, s, x) ==
  {i \in DOMAIN t :
     /\ \/ Ecma(lang) /\ t[i].kind \in {"reassign", "for"} /\ t[i].name = x
        \/ \E u \in Skipped(lang, t, i, x) : i \in Declarations(lang, t, u, x)
     /\ VariableAt(lang, t, i, x) = s}

\* Every value the x that is read at node i can have.
Writers(lang, t, i, x) ==
  LET s == VariableAt(lang, t, i, x)
  IN  IF s = NoScope THEN {}
      ELSE Declarations(lang, t, s, x) \cup Assignments(lang, t, s, x)

\* The one definition, or the one import, that x stands for at node i.
OnlyDefinition(lang, t, i, x) ==
  {d \in Writers(lang, t, i, x) : Writers(lang, t, i, x) = {d} /\ Defines(t[d]) /\ t[d].name = x
                                  /\ d # VariableAt(lang, t, i, x)}

OnlyImport(lang, t, i, x) ==
  {d \in Writers(lang, t, i, x) : Writers(lang, t, i, x) = {d} /\ NamesImport(lang, t[d])
                                  /\ t[d].name = x}
-----------------------------------------------------------------------------
(* What a call means *)

Sole(found) == IF Cardinality(found) = 1 THEN IdOf(CHOOSE s \in found : TRUE) ELSE NoSymbol

\* The k-th of the nodes; their names in order.
Nth(nodes, k) == {a \in nodes : Cardinality({b \in nodes : b <= a}) = k}

Names(t, nodes) ==
  [k \in 1 .. Cardinality(nodes) |-> t[CHOOSE a \in Nth(nodes, k) : TRUE].name]

\* The definitions around node i, outermost first.
Around(t, i) == Names(t, {a \in Ancestors(t, i) : a \in Definitions(t)})

\* A module path means what it says from the module of the call.
RustMeaning(row, path) ==
  LET t == source[row.file].tree
      module == rust_module(row.file)
                \o Names(t, {a \in Ancestors(t, row.at) : t[a].kind = "mod"})
      from == CASE path[1] = "crate" -> <<>>
                [] path[1] = "self" -> module
                [] path[1] = "super" -> IF module = <<>> THEN <<>> ELSE Front(module)
  IN  {s \in symbols : /\ LangOf(s.file) = "rust" /\ s.file.project = row.file.project
                       /\ rust_module(s.file) \o s.qualified = from \o Tail(path)}

\* Where a path leads from a directory: nowhere above the root of the workspace.
Reached(dir, path) ==
  LET reached[k \in 0 .. Len(path)] ==
        IF k = 0 THEN {dir}
        ELSE CASE path[k] = "." -> reached[k - 1]
               [] path[k] = ".." -> {Front(d) : d \in reached[k - 1] \ {<<>>}}
               [] OTHER -> {Append(d, path[k]) : d \in reached[k - 1]}
  IN  reached[Len(path)]

\* The files a specifier can mean: one of that name, or the main file of a
\* directory of that name below the root.  Only in Python it may start at the
\* root of the project.
Meant(file, specifier) ==
  LET lang == LangOf(file)
      there == CASE Relative(specifier) -> Reached(directory_of(file), specifier)
                 [] ~Relative(specifier) /\ lang = "python" -> {file.project \o specifier}
                 [] OTHER -> {}
      spelled == Ecma(lang) /\ Last(specifier) \in EcmaExtensions
      isMain(g) == IF lang = "python" THEN g.stem = "__init__" /\ g.ext = "py" ELSE g.stem = "index"
  IN  {g \in DOMAIN source :
         /\ g.project = file.project /\ Compatible(lang, LangOf(g))
         /\ \E d \in there \ {<<>>} :
              IF spelled THEN directory_of(g) \o <<g.stem, g.ext>> = d
              ELSE directory_of(g) \o <<g.stem>> = d \/ (directory_of(g) = d /\ isMain(g))}

\* The exports called name of the one file that node d can mean.
Exports(row, d, name) ==
  LET files == Meant(row.file, source[row.file].tree[d].path)
  IN  {s \in symbols : s.name = name /\ s.exported /\ files = {s.file}}

InFile(row, qualified) == {s \in symbols : s.file = row.file /\ s.qualified = qualified}

\* The name a call begins with.
HeadOf(call) ==
  CASE call.of # "" -> call.of
    [] call.of = "" /\ call.path # NoPath -> call.path[1]
    [] OTHER -> call.name

\* The symbols a call may mean; which method of a trait self calls, its implementor
\* decides.
Meaning(row) ==
  LET t == source[row.file].tree
      lang == LangOf(row.file)
      call == t[row.at]
      head == HeadOf(call)
      bound == OnlyImport(lang, t, row.at, head)
      owner == Innermost(Holders(t, row.at))
  IN  CASE Ecma(lang) /\ bound # {} ->
             UNION {Exports(row, d, IF call.of = "" THEN t[d].of ELSE call.name) :
                      d \in {b \in bound : (call.of # "") <=> (t[b].of = "*")}}
        [] lang = "python" /\ bound # {} /\ call.of = "" ->
             UNION {Exports(row, d, t[d].of) : d \in bound}
        [] lang = "rust" /\ call.of = "self" ->
             IF owner = 0 \/ t[owner].kind = "trait" THEN {}
             ELSE InFile(row, Around(t, owner) \o <<t[owner].name, call.name>>)
        [] lang = "rust" /\ bound # {} /\ call.of = "" ->
             UNION {RustMeaning(row, t[d].path
                                     \o (IF call.path = NoPath THEN NoPath ELSE Tail(call.path))) :
                      d \in bound}
        [] bound = {} /\ call.of = "" /\ call.path # NoPath -> RustMeaning(row, call.path)
        [] bound = {} /\ call.of = "" /\ call.path = NoPath ->
             UNION {InFile(row, Around(t, d) \o <<t[d].name>>) :
                      d \in OnlyDefinition(lang, t, row.at, head)}
        [] OTHER -> {}

\* Paths that start at the crate, the module or a use declaration; x::f() with
\* another head is looked up in its own file as it stands, and a module called
\* local_module is taken for the mark of a path inside the file.
Literal(row) ==
  LET t == source[row.file].tree
      path == t[row.at].path
  IN  /\ \/ path = NoPath \/ path[1] \in {"crate", "self", "super"}
         \/ OnlyImport("rust", t, row.at, path[1]) # {}
      /\ LangOf(row.file) = "rust" => \A d \in Definitions(t) : t[d].name # "local_module"

Scoped == {r \in DOMAIN edges : LangOf(r.file) # "go"}

\* No for target, global or nonlocal statement of the tree, and no syntax that
\* apply does not look at, is about x: a for target may assign the x of an outer
\* scope, the statements make declarations assign it, and apply takes the first
\* two for declarations of the scope they are in.
PlainName(t, x) ==
  \A i \in DOMAIN t : t[i].name = x => t[i].kind \notin {"for", "global", "nonlocal", "unread"}

\* self in a trait that is declared inside an implementation is taken for that of
\* an implementation.
NoTraitInImpl(t, i) ==
  \A a \in Holders(t, i), b \in Holders(t, i) : t[a].kind = "impl" /\ t[b].kind = "trait" => b < a

Ordinary(row) ==
  LET t == source[row.file].tree
  IN  Literal(row) /\ PlainName(t, HeadOf(t[row.at])) /\ NoTraitInImpl(t, row.at)

\* A call of a Rust, Python or ECMAScript file is linked exactly when one
\* definition gives its name all the values it can have, be it declared before or
\* after the call, hoisted, imported or reached by a module path: then to that
\* one.  Only ordinary calls: not those whose name is written in one of the ways
\* that PlainName lists, which NoUnknownTargets is about.  parse/scopes.rs and
\* resolve.rs together.
ScopedCallsAreExact ==
  \A r \in Scoped : Ordinary(r) => edges[r].target = Sole(Meaning(r))

\* "Unknown values never become call targets" (parse/scopes.rs:1): a call that is
\* linked is linked to the one definition that gives its name every value it can
\* have, whatever syntax gives it values.
NoUnknownTargets ==
  \A r \in Scoped : Literal(r) /\ edges[r].target # NoSymbol => edges[r].target = Sole(Meaning(r))
-----------------------------------------------------------------------------
(* Go: from the files of a package *)

\* The names at the top of the files of a package that file may use.
PackageFiles(project, dir, package, tests) ==
  {f \in DOMAIN source : /\ LangOf(f) = "go" /\ ~ignored_file(f) /\ f.project = project
                         /\ directory_of(f) = dir /\ source[f].package = package
                         /\ IsTest(f) => tests}

TopLevel(files, name) ==
  UNION {LET t == source[f].tree
         IN  {[file |-> f, at |-> d] :
                d \in {e \in DOMAIN t : /\ t[e].name = name
                                       /\ t[e].kind \in {"function", "var", "type"}
                                       /\ \A a \in Ancestors(t, e) : ~is_scope(t[a])}} : f \in files}

\* A local declaration of x holds at node i: a parameter in its function, a type
\* from its name, a variable from the end of its declaration, in its block.
\* A snippet may have short declarations outside of every function.
Local(t, i, x) ==
  x # "_" /\ \E d \in DOMAIN t : \E s \in {a \in Ancestors(t, i) : is_scope(t[a])} \cup {0} :
    \/ d = s /\ x \in t[d].params
    \/ /\ t[d].name = x /\ t[d].kind \in {"short", "var", "type"} /\ (s = 0 => t[d].kind = "short")
       /\ s = Innermost({a \in Ancestors(t, d) : is_scope(t[a])})
       /\ IF t[d].kind = "type" THEN d < i ELSE t[d].last < i

\* The packages that an import declaration can stand for.
ImportedPackages(file, d) ==
  LET path == source[file].tree[d].path
      dir == file.project \o Tail(path)
      files == {f \in DOMAIN source : /\ LangOf(f) = "go" /\ ~ignored_file(f) /\ ~IsTest(f)
                                      /\ f.project = file.project /\ directory_of(f) = dir}
  IN  {p \in {source[f].package : f \in files} :
         /\ file.project \in DOMAIN GoModules /\ GoModules[file.project] \in {path[1]} \ {""}
         /\ \A f \in files : source[f].package = p /\ ~source[f].errors
         /\ p \notin {"", "main"} /\ source[file].package # ""}

\* What an import is called in its file, unless it only merges or only loads.
LocalNames(file, d) ==
  LET alias == source[file].tree[d].name
  IN  IF alias # "" THEN {alias} \ {".", "_"} ELSE ImportedPackages(file, d)

ImportsOf(file) == Imports(source[file].tree)

OnlyFunction(found) ==
  IF Cardinality(found) = 1
  THEN {d \in found : source[d.file].tree[d.at].kind = "function"}
  ELSE {}

\* The functions a Go call may mean.
GoMeaning(row) ==
  LET file == row.file
      t == source[file].tree
      call == t[row.at]
      dir == directory_of(file)
      named == {d \in ImportsOf(file) : (IF call.of = "" THEN call.name ELSE call.of)
                                          \in LocalNames(file, d)}
  IN  IF \/ ignored_file(file) \/ source[file].package = "" \/ call.of = "?"
         \/ Local(t, row.at, IF call.of = "" THEN call.name ELSE call.of)
      THEN {}
      ELSE IF call.of = ""
      THEN IF named # {} \/ (\E d \in ImportsOf(file) : t[d].name = ".") THEN {}
           ELSE OnlyFunction(TopLevel(PackageFiles(file.project, dir, source[file].package,
                                                 IsTest(file)), call.name))
      ELSE IF Cardinality(named) # 1 \/ call.name \notin Capitalized THEN {}
      ELSE UNION {UNION {OnlyFunction(TopLevel(PackageFiles(file.project, file.project \o Tail(t[d].path), p,
                                                          FALSE), call.name)) :
                           p \in ImportedPackages(file, d)} : d \in named}

\* What is called name in its package but does not belong to it: a method whose
\* receiver the extractor does not understand, a type in a function literal.
Misnamed(name) ==
  \E f \in DOMAIN source : LangOf(f) = "go" /\
    LET t == source[f].tree
    IN  \E d \in DOMAIN t : t[d].name = name /\
          (\/ t[d].kind = "method" /\ t[d].of = ""
           \/ t[d].kind = "type" /\ Owners(t, d) = {} /\ GoScopes(t, d) # {})

\* A Go call is linked only to the one function its package, or the imported
\* package its receiver names, declares under that name: not across test files,
\* projects or half-read packages, not past a local binding, an import of that
\* name or a dot import.  It is linked if there is one, unless something else
\* bears its name.  parse/go.rs, imports.rs and resolve/go.rs together.
GoCallsAreExact ==
  \A r \in DOMAIN edges : LangOf(r.file) = "go" =>
    LET linked == {edges[r].target} \ {NoSymbol}
    IN  linked \subseteq GoMeaning(r) /\ (linked = GoMeaning(r) \/ Misnamed(r.name))
-----------------------------------------------------------------------------
\* What an edge into another file needs: an import of that file (of its package
\* for Go), its own package, or a Rust module path.
Justified(r, file) ==
  \/ file = r.file
  \/ LangOf(file) = "rust"
  \/ LangOf(file) = "go" /\ directory_of(file) = directory_of(r.file)
  \/ \E i \in DOMAIN imports :
       /\ i.file = r.file /\ imports[i].file # NoFile
       /\ IF LangOf(file) = "go"
          THEN directory_of(imports[i].file) = directory_of(file) /\ ~IsTest(file)
          ELSE imports[i].file = file

\* No edge and no import leaves its project or its family of languages, no edge
\* ends at a file Go ignores or at one the caller neither imports nor shares a
\* package or a crate with.  imports.rs:262, resolve.rs:98, resolve/go.rs:137.
EdgesStayInside ==
  /\ \A r \in DOMAIN imports :
       LET file == imports[r].file
       IN  file # NoFile => file.project = r.file.project /\ Compatible(LangOf(r.file), LangOf(file))
  /\ \A r \in DOMAIN edges :
       LET file == edges[r].target.file
       IN  edges[r].target # NoSymbol =>
             /\ file.project = r.file.project /\ Compatible(LangOf(r.file), LangOf(file))
             /\ LangOf(file) = "go" => ~ignored_file(file)
             /\ Justified(r, file)

\* The qualified name of every definition is the chain of the definitions around
\* it, and every reference is stored with the innermost one that contains it,
\* namesakes and adjacent definitions included.  assign_nesting and
\* assign_enclosing of parse.rs, index_one of index.rs.
OwnersAreInnermost ==
  /\ \A s \in symbols : LangOf(s.file) # "go" =>
       s.qualified = Append(Around(source[s.file].tree, s.at), s.name)
  /\ \A r \in refs :
       LET t == source[r.file].tree
       IN  r.owner = Max({0} \cup {a \in Ancestors(t, r.at) :
                            IF LangOf(r.file) = "go" THEN t[a].kind \in {"function", "method", "type"}
                                                     ELSE a \in Definitions(t)})
=============================================================================
