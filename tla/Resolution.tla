-------------------------------- MODULE Resolution --------------------------------
(***************************************************************************)
(* From the trees of the indexed files to the edges of the call graph: the *)
(* rows each file stores, then imports::resolve over the import rows, then *)
(* resolve_all over the call rows, all in the write transaction of one     *)
(* pass.  Every stage sees the rows of all files, kept ones included.      *)
(***************************************************************************)
EXTENDS LexicalScopes, GoExtraction, GoResolution

CONSTANTS Batches,    \* the programs to index, in batches
          Cases(_),   \* batch -> its programs, by number
          Program(_), \* case -> file -> tree, package clause, parse errors
          GoModules   \* project -> the module its go.mod declares

VARIABLES source,  \* file -> tree, package clause, parse errors
          symbols, \* the symbol rows
          refs,    \* the reference rows
          imports, \* import row -> target file and reason
          edges    \* call row -> linked symbol, confidence and reason

vars == <<source, symbols, refs, imports, edges>>
-----------------------------------------------------------------------------
(* Rows of one file *)

Symbol(file, at, name, qualified, kind, exported) ==
  [file |-> file, at |-> at, name |-> name, qualified |-> qualified, kind |-> kind,
   exported |-> exported]

Ref(file, at, kind, name, path, blocked, owner) ==
  [file |-> file, at |-> at, kind |-> kind, name |-> name, path |-> path, blocked |-> blocked,
   owner |-> owner]

Calls(t) == {i \in DOMAIN t : t[i].kind = "call"}
Imports(t) == {i \in DOMAIN t : t[i].kind \in {"import", "import_other"}}

GoFile(file) ==
  LET t == source[file].tree
      package == source[file].package
  IN  [symbols |-> {Symbol(file, s.at, s.name, s.qualified, s.kind, s.exported) :
                      s \in GoSymbols(t, package)},
       refs |-> {Ref(file, i, "call", t[i].name, GoPath(t, package, i), GoBlocked(t, package, i),
                     GoOwner(t, package, i)) : i \in Calls(t)}
                \cup {Ref(file, i, "import", t[i].path,
                          IF t[i].name = "" THEN <<>> ELSE <<t[i].name>>, "", <<>>) : i \in Imports(t)}]

\* The symbol a reference is in: of those with its owner's name, the last that
\* starts before it, if it is in that one.
InSymbol(file, inserted, at, owner) ==
  LET started == {s.at : s \in {r \in inserted : r.qualified = owner /\ r.at <= at}}
  IN  IF started = {} \/ End(source[file].tree, Max(started)) <= at THEN 0 ELSE Max(started)

\* The path of a Rust use declaration, with its alias.
UsePath(file, node) ==
  IF LangOf(file) # "rust" THEN <<>>
  ELSE IF node.name # Last(node.path) THEN Append(node.path, "as") ELSE node.path

\* bindings, nesting and owners (0 outside definitions) are those of the file.
ScopedRows(file, bindings, nesting, owners) ==
  LET t == source[file].tree
      lang == LangOf(file)
      owner == [i \in DOMAIN owners |->
                  IF owners[i] = 0 THEN <<>> ELSE nesting.qualified[owners[i]]]
      scoped == [i \in Calls(t) |-> apply(lang, t, bindings, i, owner[i], nesting.qualified)]
  IN  [symbols |-> {Symbol(file, i, t[i].name, nesting.qualified[i], nesting.kind[i],
                           Exported(lang, t, i)) : i \in Definitions(t)},
       refs |-> {Ref(file, i, "call", t[i].name, scoped[i].path, scoped[i].blocked, owner[i]) :
                   i \in Calls(t)}
                \cup {Ref(file, i, "import", t[i].path, UsePath(file, t[i]), "", owner[i]) :
                        i \in Imports(t)}]

ScopedFile(file) ==
  LET t == source[file].tree
  IN  ScopedRows(file, Bindings(LangOf(file), t), assign_nesting(t),
                 assign_enclosing(t, Calls(t) \cup Imports(t)))

Extracted(file) == IF LangOf(file) = "go" THEN GoFile(file) ELSE ScopedFile(file)

Inserted(file, parsed) ==
  [symbols |-> parsed.symbols,
   refs |-> {[r EXCEPT !.owner = InSymbol(file, parsed.symbols, r.at, r.owner)] : r \in parsed.refs}]

Rows(file) == Inserted(file, Extracted(file))
-----------------------------------------------------------------------------
(* The programs *)

\* A Go grammar has functions, methods and imports at the top of a file only; a
\* module path has a first part.
GoTopLevel(t) ==
  /\ \A i \in DOMAIN t : t[i].kind \in {"function", "method"} \/ i \in Imports(t) => GoScopes(t, i) = {}
  /\ \A i \in Imports(t) : t[i].path # <<>>

\* The body of an ECMAScript class has members only, and nothing that binds a name.
MembersOnly(t) ==
  \A i \in DOMAIN t :
    LET s == Innermost(Scopes("javascript", t, i))
    IN  /\ t[i].kind = "class" => t[i].params = {}
        /\ s # 0 /\ t[s].kind = "class" =>
             t[i].kind \notin {"function", "class", "fn_let", "pattern", "for", "global", "nonlocal", "import",
                               "import_other"}

\* Imports name something, and nothing bears the name of another thing's mark or,
\* in Rust, of a keyword; only Rust calls functions by paths.
WellNamed(lang, t) ==
  /\ \A i \in Calls(t) : t[i].path # <<>> => lang = "rust" /\ Len(t[i].path) > 1 /\ t[i].of = ""
  /\ \A i \in Imports(t) : t[i].path # <<>>
  /\ \A i \in DOMAIN t \ (Calls(t) \cup Imports(t)) :
       /\ t[i].name \notin {"@import", "*"}
       /\ lang = "rust" => ({t[i].name} \cup t[i].params) \cap {"crate", "self", "super"} = {}

\* The implementations and traits around node i.
Holders(t, i) == {a \in Ancestors(t, i) : t[a].kind \in {"impl", "trait"}}

\* In one of those, self is a parameter of its methods, and of nothing else that is
\* defined.
SelfInMethods(t) ==
  \A i \in Calls(t) :
    LET method == Innermost(Ancestors(t, i) \cap Definitions(t))
    IN  t[i].of = "self" /\ Holders(t, i) # {} =>
          Innermost(Ancestors(t, method) \cap Definitions(t)) = Max(Holders(t, i))

\* Finitely many files, with paths that are resolved already.
IsProgram(files) ==
  /\ IsFiniteSet(DOMAIN files)
  /\ \A f \in DOMAIN files :
       /\ f # NoFile /\ f.project \in Seq(STRING) /\ f.dir \in Seq(STRING)
       /\ f.stem \in STRING /\ f.ext \in STRING
       /\ f.ext \in EcmaExtensions \cup {"py", "pyi", "rs", "go"}
       /\ ToSet(directory_of(f)) \cap {".", ".."} = {}
       /\ files[f].tree \in Seq(Nodes) /\ IsTree(files[f].tree)
       /\ files[f].package \in STRING /\ files[f].errors \in BOOLEAN
       /\ LangOf(f) = "go" => GoTopLevel(files[f].tree)
       /\ Ecma(LangOf(f)) => MembersOnly(files[f].tree)
       /\ LangOf(f) # "go" => WellNamed(LangOf(f), files[f].tree)
       /\ LangOf(f) = "rust" => SelfInMethods(files[f].tree)

ASSUME ProgramAssumption == \A b \in Batches : \A c \in Cases(b) : IsProgram(Program(c))

-----------------------------------------------------------------------------
(* The pass *)

NotYet == <<>>

Init ==
  /\ \E b \in Batches : \E c \in Cases(b) : source = Program(c)
  /\ symbols = {} /\ refs = {} /\ imports = NotYet /\ edges = NotYet

StoreRows ==
  /\ symbols = {} /\ refs = {}
  /\ LET rows == [f \in DOMAIN source |-> Rows(f)]
     IN  /\ symbols' = UNION {rows[f].symbols : f \in DOMAIN source}
         /\ refs' = UNION {rows[f].refs : f \in DOMAIN source}
  /\ UNCHANGED <<source, imports, edges>>

ImportRows == {r \in refs : r.kind = "import"}
\* Mutant: the rows of imports are linked too.
EveryRow == refs

CallRows == {r \in refs : r.kind = "call"}

ImportTarget(row) ==
  IF LangOf(row.file) = "go" /\ ignored_file(row.file) THEN Unresolved("ignored_go_file")
  ELSE IF row.blocked # "" THEN Unresolved(row.blocked)
  ELSE IF LangOf(row.file) = "go"
  THEN resolve_go(source, GoModules, row.file.project, row.name)
  ELSE resolve_path(DOMAIN source, row.file, row)

ResolveImports ==
  /\ refs # {} /\ imports = NotYet
  /\ imports' = [row \in ImportRows |-> ImportTarget(row)]
  /\ UNCHANGED <<source, symbols, refs, edges>>

ResolveCalls ==
  /\ refs # {} /\ edges = NotYet
  /\ DOMAIN imports = ImportRows
  /\ edges' = [row \in CallRows |->
                 IF LangOf(row.file) = "go"
                 THEN resolve_go_call(symbols, imports, row)
                 ELSE resolve_call(symbols, imports, row)]
  /\ UNCHANGED <<source, symbols, refs, imports>>

Next == StoreRows \/ ResolveImports \/ ResolveCalls

Spec == Init /\ [][Next]_vars
=============================================================================
