----------------------------- MODULE ImportResolution -----------------------------
(***************************************************************************)
(* imports.rs: the indexed file an import names.  A file is the record of  *)
(* its project, its directory in it, its stem, its extension and, for Go,  *)
(* whether its name marks a test or a file Go ignores; projects and        *)
(* directories are sequences of names.  A specifier is a sequence of names *)
(* with "." and ".." where it has them; an ECMAScript one that spells an   *)
(* extension ends with it.  The row of a Rust use declaration holds its    *)
(* path, with "*" for a glob and "as" for an alias.                        *)
(***************************************************************************)
EXTENDS Naturals, Sequences, FiniteSets, SequencesExt

CONSTANT StemOrder \* the stems of Go files, in the order of their paths

ASSUME StemOrderAssumption == StemOrder \in Seq(STRING)

LangOf(file) ==
  CASE file.ext \in {"js", "jsx", "mjs", "cjs"} -> "javascript"
    [] file.ext \in {"ts", "tsx", "mts", "cts"} -> "typescript"
    [] file.ext \in {"py", "pyi"} -> "python"
    [] file.ext = "rs" -> "rust"
    [] file.ext = "go" -> "go"
    [] OTHER -> file.ext

\* As paths in the workspace.
directory_of(file) == file.project \o file.dir
At(dir, stem, ext) == [dir |-> dir, stem |-> stem, ext |-> ext]
PathOf(file) == At(directory_of(file), file.stem, file.ext)

ignored_file(file) == file.mark = "ignored"
IsTest(file) == file.mark = "test"

NoFile == [project |-> <<>>, dir |-> <<>>, stem |-> "", ext |-> "", mark |-> "none"]
Target(file, reason) == [file |-> file, reason |-> reason]
Unresolved(reason) == Target(NoFile, reason)
-----------------------------------------------------------------------------
(* Paths *)

Outside == <<"..">>

\* A path that leaves the workspace stays outside.
normalize(base, specifier) ==
  LET parts[k \in 0 .. Len(specifier)] ==
        IF k = 0 THEN base
        ELSE CASE parts[k - 1] = Outside \/ specifier[k] = "." -> parts[k - 1]
               [] parts[k - 1] # Outside /\ specifier[k] = ".." ->
                    IF parts[k - 1] = <<>> THEN Outside ELSE Front(parts[k - 1])
               [] OTHER -> Append(parts[k - 1], specifier[k])
  IN  parts[Len(specifier)]

Escapes(file, row) == normalize(directory_of(file), row.name) = Outside

\* The file base.ext, and the file name.ext in the directory base.
Beside(base, ext) == IF base = <<>> THEN {} ELSE {At(Front(base), Last(base), ext)}
Within(base, name, ext) == IF base = <<>> THEN {} ELSE {At(base, name, ext)}

EcmaExtensions == {"ts", "tsx", "js", "jsx", "mjs", "cjs", "mts", "cts"}

\* A Rust path may name a module or an item in it, under src or beside it.
RustCandidates(project, path) ==
  UNION {Beside(project \o source \o module, "rs") \cup Within(project \o source \o module, "mod", "rs") :
           source \in {<<"src">>, <<>>}, module \in {path, Front(path)} \ {<<>>}}

EcmaCandidates(base, specifier) ==
  IF Last(specifier) \in EcmaExtensions
  THEN Beside(Front(base), Last(specifier))
  ELSE UNION {Beside(base, e) \cup Within(base, "index", e) : e \in EcmaExtensions}

\* A module of Python, of the project unless dots lead there.
PythonCandidates(module) ==
  Beside(module, "py") \cup Beside(module, "pyi") \cup Within(module, "__init__", "py")

Relative(specifier) == specifier[1] \in {".", ".."}

Candidates(file, row) ==
  LET base == normalize(directory_of(file), row.name)
      module == file.project \o row.name
  IN  CASE LangOf(file) \in {"javascript", "typescript"} -> EcmaCandidates(base, row.name)
        [] LangOf(file) = "python" -> PythonCandidates(IF Relative(row.name) THEN base ELSE module)
        [] LangOf(file) = "rust" -> RustCandidates(file.project, Tail(row.path))
        [] LangOf(file) = "lua" -> Beside(module, "lua") \cup Within(module, "init", "lua")
        [] LangOf(file) = "nix" -> Within(base, "default", "nix") \cup Beside(base, "nix")

Compatible(lang, other) == lang = other \/ {lang, other} = {"javascript", "typescript"}

\* Mutant: files of other projects are candidates too.
IndexedAnywhere(files, file, paths) ==
  {f \in files : PathOf(f) \in paths /\ Compatible(LangOf(file), LangOf(f))}

Indexed(files, file, paths) ==
  {f \in files : /\ PathOf(f) \in paths
                 /\ f.project = file.project
                 /\ Compatible(LangOf(file), LangOf(f))}

\* What a specifier is refused for before any file is looked for.
Refusal(file, row) ==
  LET lang == LangOf(file)
      literal == lang \in {"nix", "javascript", "typescript"}
  IN  CASE lang = "bash" -> "runtime_working_directory"
        [] literal /\ ~Relative(row.name) -> "external"
        [] (literal \/ lang = "python") /\ Relative(row.name) /\ Escapes(file, row) -> "outside_root"
        [] lang = "rust" /\ row.path[1] # "crate" -> "external"
        [] lang = "rust" /\ row.path[1] = "crate" /\ ToSet(row.path) \cap {"*", "as"} # {} -> "unsupported"
        [] lang \notin {"bash", "nix", "javascript", "typescript", "python", "rust", "lua"} -> "unsupported"
        [] OTHER -> ""

\* Mutant: of several candidates the first in path order is taken.
FirstOf(found) == IF found = {} THEN Unresolved("unknown")
                  ELSE Target(CHOOSE f \in found : TRUE, "literal_indexed_file")

OnlyOf(found) ==
  IF found = {} THEN Unresolved("unknown")
  ELSE IF Cardinality(found) > 1 THEN Unresolved("ambiguous")
  ELSE Target(CHOOSE f \in found : TRUE, "literal_indexed_file")

resolve_path(files, file, row) ==
  IF Refusal(file, row) # "" THEN Unresolved(Refusal(file, row))
  ELSE OnlyOf(Indexed(files, file, Candidates(file, row)))
-----------------------------------------------------------------------------
(* Go packages: source maps files to their trees, package clauses and parse *)
(* errors; modules maps projects to the module their go.mod declares or ""  *)

Clauses(source, file) ==
  IF source[file].package = "" THEN {} ELSE {source[file].package}

\* The files of a package directory that count for an import.
Members(source, project, dir) ==
  {f \in DOMAIN source : /\ LangOf(f) = "go" /\ f.project = project /\ directory_of(f) = dir
                         /\ ~IsTest(f) /\ ~ignored_file(f)}

\* Mutant: a file with errors does not make its package incomplete.
IncompleteWithoutClause(source, files) == \E f \in files : Clauses(source, f) = {}

Incomplete(source, files) ==
  \E f \in files : source[f].errors \/ Clauses(source, f) = {}

\* How many stems come before it.
Position(stem) == Cardinality({k \in DOMAIN StemOrder : \A j \in 1 .. k : StemOrder[j] # stem})

\* The first file in path order stands for its directory.
Representative(files) ==
  CHOOSE f \in files : \A g \in files : Position(f.stem) <= Position(g.stem)

resolve_go(source, modules, project, specifier) ==
  LET module == IF project \in DOMAIN modules THEN modules[project] ELSE ""
      relative == Tail(specifier)
      files == Members(source, project, project \o relative)
      names == UNION {Clauses(source, f) : f \in files}
  IN  IF module = "" THEN Unresolved("unknown_module")
      ELSE IF specifier[1] # module THEN Unresolved("external")
      ELSE IF ToSet(relative) \cap {".", ".."} # {} THEN Unresolved("outside_root")
      ELSE IF files = {} THEN Unresolved("unknown")
      ELSE IF Cardinality(names) > 1 THEN Unresolved("ambiguous")
      ELSE IF names = {} \/ Incomplete(source, files) THEN Unresolved("incomplete_package")
      ELSE IF names = {"main"} THEN Unresolved("non_importable_package")
      ELSE Target(Representative(files), "indexed_go_package")
=============================================================================
