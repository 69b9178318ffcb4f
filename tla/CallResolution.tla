------------------------------ MODULE CallResolution ------------------------------
(***************************************************************************)
(* resolve.rs: the one definition a call row of a Rust, Python or          *)
(* ECMAScript file is linked to.  symbols are the rows of every indexed    *)
(* file; imports holds the targets that imports::resolve stored.  A symbol *)
(* is known by its file and the byte where it starts.                      *)
(***************************************************************************)
EXTENDS ImportResolution

NoSymbol == [file |-> NoFile, at |-> 0]
IdOf(symbol) == [file |-> symbol.file, at |-> symbol.at]

Result(id, confidence, reason) == [target |-> id, confidence |-> confidence, reason |-> reason]
NoLink(reason) == Result(NoSymbol, "none", reason)

Confidence(from, to) ==
  CASE from = to -> "same_file"
    [] from # to /\ directory_of(from) = directory_of(to) -> "same_directory"
    [] OTHER -> "same_project"
-----------------------------------------------------------------------------
(* Rust modules *)

\* The module a file is, from its place in the project.
rust_module(file) ==
  (IF file.dir # <<>> /\ file.dir[1] = "src" THEN Tail(file.dir) ELSE file.dir)
  \o (IF file.stem \in {"lib", "main", "mod"} THEN <<>> ELSE <<file.stem>>)

NotRelative == <<>>

\* The path from the root of the crate that a literal module path means.
rust_relative(ref) ==
  LET module == rust_module(ref.file)
      from == IF ref.path[1] = "super" /\ module # <<>> THEN Front(module) ELSE module
  IN  CASE LangOf(ref.file) # "rust" \/ Len(ref.path) < 2 -> NotRelative
        [] LangOf(ref.file) = "rust" /\ Len(ref.path) > 1 ->
             IF ref.path[1] = "crate" THEN Tail(ref.path)
             ELSE IF ref.path[1] \in {"self", "super", "local_module"} THEN from \o Tail(ref.path)
             ELSE NotRelative

\* Mutant: modules of every project are one crate.
RustSymbolsAnywhere(symbols, project, path) ==
  {s \in symbols : LangOf(s.file) = "rust" /\ rust_module(s.file) \o s.qualified = path}

RustSymbols(symbols, project, path) ==
  {s \in symbols : /\ LangOf(s.file) = "rust" /\ s.file.project = project
                   /\ rust_module(s.file) \o s.qualified = path}
-----------------------------------------------------------------------------
(* Candidates *)

\* The target stored for an import of the file with that specifier.
ImportedFile(imports, file, specifier) ==
  LET rows == {r \in DOMAIN imports : r.file = file /\ r.name = specifier /\ imports[r].file # NoFile}
  IN  IF rows = {} THEN NoFile ELSE imports[CHOOSE r \in rows : TRUE].file

ExportedBy(symbols, file, name) ==
  {s \in symbols : s.file = file /\ s.name = name /\ s.exported}

QualifiedIn(symbols, file, path) == {s \in symbols : s.file = file /\ s.qualified = path}

IsImported(ref) == ref.path # <<>> /\ ref.path[1] = "@import"
IsRelative(ref) == ref.path # <<>> /\ rust_relative(ref) # NotRelative

ids(symbols, imports, ref) ==
  IF ref.blocked # "" \/ ref.path = <<>> THEN {}
  ELSE IF IsImported(ref)
  THEN LET file == ImportedFile(imports, ref.file, ref.path[2])
       IN  IF file = NoFile THEN {} ELSE ExportedBy(symbols, file, ref.path[3])
  ELSE IF IsRelative(ref) THEN RustSymbols(symbols, ref.file.project, rust_relative(ref))
  ELSE QualifiedIn(symbols, ref.file, ref.path)

OneCandidate(found) == Cardinality(found) = 1

reason(found, ref) ==
  IF ref.blocked # "" THEN ref.blocked
  ELSE IF Cardinality(found) > 1 THEN "ambiguous"
  ELSE IF found # {}
  THEN CASE IsImported(ref) -> "imported_symbol"
         [] IsRelative(ref) -> "static_module_path"
         [] OTHER -> "lexical_same_file"
  ELSE CASE IsImported(ref) -> "unsupported_import"
         [] IsRelative(ref) -> "unknown"
         [] ~IsImported(ref) /\ ~IsRelative(ref) /\ ref.path # <<>> -> "external"
         [] OTHER -> "unsupported"

resolve_call(symbols, imports, ref) ==
  LET found == ids(symbols, imports, ref)
      symbol == CHOOSE s \in found : TRUE
  IN  IF OneCandidate(found)
      THEN Result(IdOf(symbol), Confidence(ref.file, symbol.file), reason(found, ref))
      ELSE NoLink(reason(found, ref))
=============================================================================
