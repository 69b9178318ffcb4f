------------------------------- MODULE GoResolution -------------------------------
(***************************************************************************)
(* resolve/go.rs: the one function of a package that a Go call is linked   *)
(* to.  A package is a project, a directory and a declared name.           *)
(***************************************************************************)
EXTENDS CallResolution

Package(file, name) == [project |-> file.project, directory |-> directory_of(file), name |-> name]
NoPackage == [project |-> <<>>, directory |-> <<>>, name |-> ""]
-----------------------------------------------------------------------------
(* GoResolver::new *)

GoRows(symbols) == {s \in symbols : LangOf(s.file) = "go" /\ ~ignored_file(s.file)}

IsClause(s) == s.kind = "module" /\ Len(s.qualified) = 1

\* The package names a file declares.
Declared(symbols, file) ==
  {s.name : s \in {r \in GoRows(symbols) : IsClause(r) /\ r.file = file}}

\* The package names the non-test files of a directory declare.
DirectoryNames(symbols, file) ==
  {s.name : s \in {r \in GoRows(symbols) :
     /\ IsClause(r) /\ ~IsTest(r.file)
     /\ r.file.project = file.project /\ directory_of(r.file) = directory_of(file)}}

HasRows(symbols, file) == \E s \in GoRows(symbols) : s.file = file

\* Names at the top of a package, methods and local types excluded.
PackageSymbols(symbols, package, name) ==
  {s \in GoRows(symbols) : /\ s.qualified = <<package.name, name>>
                           /\ s.file.project = package.project
                           /\ directory_of(s.file) = package.directory}

\* The package a resolved import stands for.
ImportedPackage(symbols, imports, row) ==
  LET file == imports[row].file
  IN  IF /\ file # NoFile /\ ~IsTest(file)
         /\ Cardinality(Declared(symbols, file)) = 1
         /\ HasRows(symbols, row.file) /\ row.file.project = file.project
         /\ Cardinality(DirectoryNames(symbols, file)) = 1
      THEN Package(file, CHOOSE name \in Declared(symbols, file) : TRUE)
      ELSE NoPackage

GoImports(imports, file) ==
  {r \in DOMAIN imports : r.file = file /\ LangOf(file) = "go" /\ ~ignored_file(file)}

DotImports(imports, file) == \E r \in GoImports(imports, file) : r.path = <<".">>

\* The local name of an import: its alias, or the name of its package if known.
AliasOf(symbols, imports, row) ==
  IF row.path # <<>> THEN row.path[1] ELSE ImportedPackage(symbols, imports, row).name

\* The imports that a name of the file can mean; those without a local name are
\* meant by none.
ImportsNamed(symbols, imports, file, name) ==
  {r \in GoImports(imports, file) : /\ r.path \notin {<<".">>, <<"_">>}
                                    /\ AliasOf(symbols, imports, r) \in {name} \ {""}}
-----------------------------------------------------------------------------
(* GoResolver::resolve *)

\* Mutant: a package sees the names of its test files.
EveryFile(found, ref, evidence) == found

\* Test files are seen from the test files of their package alone.
InContext(found, ref, evidence) ==
  {s \in found : (evidence = "go_package" /\ IsTest(ref.file)) \/ ~IsTest(s.file)}

\* evidence is "go_imported_package" for a name of another package.
FunctionOf(symbols, ref, package, name, evidence) ==
  LET found == InContext(PackageSymbols(symbols, package, name), ref, evidence)
      symbol == CHOOSE s \in found : TRUE
  IN  IF found = {} THEN NoLink("unknown")
      ELSE IF Cardinality(found) > 1 THEN NoLink("ambiguous")
      ELSE IF symbol.kind # "function" THEN NoLink("non_function_binding")
      ELSE IF evidence = "go_imported_package" /\ ~symbol.exported THEN NoLink("unexported_symbol")
      ELSE Result(IdOf(symbol), Confidence(ref.file, symbol.file), evidence)

\* f(): a name of the package, unless an import takes it.
DirectCall(symbols, imports, ref) ==
  IF DotImports(imports, ref.file) THEN NoLink("unsupported_dot_import")
  ELSE IF ImportsNamed(symbols, imports, ref.file, ref.path[3]) # {} THEN NoLink("imported_package")
  ELSE FunctionOf(symbols, ref, Package(ref.file, ref.path[2]), ref.path[3], "go_package")

NamedTwice(rows) == Cardinality(rows) > 1

\* p.f(): a function that package p exports.
SelectorCall(symbols, imports, ref) ==
  LET rows == ImportsNamed(symbols, imports, ref.file, ref.path[3])
      package == ImportedPackage(symbols, imports, CHOOSE r \in rows : TRUE)
  IN  IF rows = {} THEN NoLink("dynamic_receiver")
      ELSE IF NamedTwice(rows) THEN NoLink("ambiguous")
      ELSE IF package = NoPackage THEN NoLink("unsupported_import")
      ELSE FunctionOf(symbols, ref, package, ref.path[4], "go_imported_package")

resolve_go_call(symbols, imports, ref) ==
  IF ignored_file(ref.file) THEN NoLink("ignored_go_file")
  ELSE IF ref.blocked # "" THEN NoLink(ref.blocked)
  ELSE IF ref.path = <<>> THEN NoLink("unsupported")
  ELSE IF ref.path[1] = "@go" THEN DirectCall(symbols, imports, ref)
  ELSE SelectorCall(symbols, imports, ref)
=============================================================================
