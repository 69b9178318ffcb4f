----------------------------- MODULE ResolutionProofs -----------------------------
(***************************************************************************)
(* For every program: no edge leaves its project; definitions are named    *)
(* after what surrounds them and references belong to the innermost        *)
(* definition; rows are of indexed files; and calls are linked to what     *)
(* they mean.  An edge is made after all rows and imports it depends on,   *)
(* so that each property is inductive once it is known of the rows that    *)
(* one file yields.                                                        *)
(***************************************************************************)
EXTENDS ResolutionProps, FiniteSetTheorems, SequenceTheorems, WellFoundedInduction, TLAPS

(***************************************************************************)
(* The first file of a package is one of its files.                        *)
(***************************************************************************)
Less == OpToRel(<, Nat)

LEMMA LessIsLess == \A m, n \in Nat : <<m, n>> \in Less <=> m < n
  BY DEF Less, OpToRel

LEMMA LeastNatural ==
  ASSUME NEW T, T \subseteq Nat, T # {}
  PROVE  \E m \in T : \A n \in T : m <= n
<1>1. IsWellFoundedOn(Less, Nat)
  BY NatLessThanWellFounded DEF Less
<1>2. PICK m \in T : \A n \in T : ~(<<n, m>> \in Less)
  BY <1>1, WFMin
<1>3. \A n \in T : ~(n < m)
  BY <1>2, LessIsLess
<1> QED
  BY <1>3

LEMMA PositionIsNatural == \A stem : Position(stem) \in Nat
<1> TAKE stem
<1> DEFINE before == {k \in DOMAIN StemOrder : \A j \in 1 .. k : StemOrder[j] # stem}
<1>1. Len(StemOrder) \in Nat /\ DOMAIN StemOrder = 1 .. Len(StemOrder)
  BY StemOrderAssumption
<1>2. IsFiniteSet(1 .. Len(StemOrder))
  BY <1>1, FS_Interval
<1>3. IsFiniteSet(before)
  BY <1>1, <1>2, FS_Subset
<1> QED
  BY <1>3, FS_CardinalityType DEF Position

LEMMA RepresentativeIsMember ==
  ASSUME NEW files, files # {}
  PROVE  Representative(files) \in files
<1> DEFINE positions == {Position(f.stem) : f \in files}
<1>1. positions \subseteq Nat /\ positions # {}
  BY PositionIsNatural
<1>2. PICK m \in positions : \A n \in positions : m <= n
  BY <1>1, LeastNatural
<1>3. \E f \in files : \A g \in files : Position(f.stem) <= Position(g.stem)
  BY <1>2
<1> QED
  BY <1>3 DEF Representative
-----------------------------------------------------------------------------
(***************************************************************************)
(* Imports: a target is a file of the importing project, in a language     *)
(* that it can import.                                                     *)
(***************************************************************************)
Reachable(from, to) == to.project = from.project /\ Compatible(LangOf(from), LangOf(to))

LEMMA GoTargetIsReachable ==
  ASSUME NEW modules, NEW file, LangOf(file) = "go", NEW specifier,
         resolve_go(source, modules, file.project, specifier).file # NoFile
  PROVE  Reachable(file, resolve_go(source, modules, file.project, specifier).file)
<1> DEFINE files == Members(source, file.project, file.project \o Tail(specifier))
           target == resolve_go(source, modules, file.project, specifier)
<1>1. files # {} /\ target.file = Representative(files)
  BY DEF resolve_go, Unresolved, Target
<1>2. target.file \in files
  BY <1>1, RepresentativeIsMember
<1> QED
  BY <1>2 DEF Members, Reachable, Compatible

LEMMA PathTargetIsReachable ==
  ASSUME NEW files, NEW file, NEW row, resolve_path(files, file, row).file # NoFile
  PROVE  Reachable(file, resolve_path(files, file, row).file)
<1> DEFINE found == Indexed(files, file, Candidates(file, row))
<1>1. /\ found # {}
      /\ resolve_path(files, file, row).file = CHOOSE f \in found : TRUE
  BY DEF resolve_path, OnlyOf, Unresolved, Target
<1>2. resolve_path(files, file, row).file \in found
  BY <1>1
<1> QED
  BY <1>2 DEF Indexed, Reachable

LEMMA ImportTargetIsReachable ==
  ASSUME NEW row, ImportTarget(row).file # NoFile
  PROVE  Reachable(row.file, ImportTarget(row).file)
  BY GoTargetIsReachable, PathTargetIsReachable DEF ImportTarget, Unresolved, Target
-----------------------------------------------------------------------------
(***************************************************************************)
(* Calls: a target is a symbol among the candidates, and each kind of      *)
(* candidates is reachable for a reason of its own.                        *)
(***************************************************************************)
ImportsStay ==
  \A r \in DOMAIN imports : imports[r].file # NoFile => Reachable(r.file, imports[r].file)

\* What is to be proved of a linked symbol.
Inside(row, file) ==
  Reachable(row.file, file) /\ (LangOf(file) = "go" => ~ignored_file(file)) /\ Justified(row, file)

LEMMA ScopedTargetIsInside ==
  ASSUME NEW row, LangOf(row.file) # "go", ImportsStay,
         resolve_call(symbols, imports, row).target # NoSymbol
  PROVE  Inside(row, resolve_call(symbols, imports, row).target.file)
<1> DEFINE found == ids(symbols, imports, row)
           symbol == CHOOSE s \in found : TRUE
<1>1. OneCandidate(found) /\ resolve_call(symbols, imports, row).target = IdOf(symbol)
  BY DEF resolve_call, NoLink, Result
<1>2. symbol \in found
  <2>1. found # {}
    BY <1>1, FS_EmptySet DEF OneCandidate
  <2> QED
    BY <2>1
<1>3. ASSUME NEW s \in found
      PROVE  Inside(row, s.file)
  <2>1. ~(row.blocked # "" \/ row.path = <<>>)
    BY <1>3 DEF ids
  <2>2. CASE IsImported(row)
    <3> DEFINE file == ImportedFile(imports, row.file, row.path[2])
    <3>1. file # NoFile /\ s.file = file
      BY <1>3, <2>1, <2>2 DEF ids, ExportedBy
    <3>2. PICK i \in DOMAIN imports :
            i.file = row.file /\ imports[i].file # NoFile /\ file = imports[i].file
      BY <3>1 DEF ImportedFile
    <3>3. Reachable(row.file, s.file)
      BY <3>1, <3>2 DEF ImportsStay
    <3>4. LangOf(s.file) # "go"
      BY <3>3 DEF Reachable, Compatible
    <3> QED
      BY <3>1, <3>2, <3>3, <3>4 DEF Inside, Justified
  <2>3. CASE ~IsImported(row) /\ IsRelative(row)
    <3>1. s.file.project = row.file.project /\ LangOf(s.file) = "rust"
      BY <1>3, <2>1, <2>3 DEF ids, RustSymbols
    <3>2. LangOf(row.file) = "rust"
      BY <2>3 DEF IsRelative, rust_relative
    <3> QED
      BY <3>1, <3>2 DEF Inside, Reachable, Compatible, Justified
  <2>4. CASE ~IsImported(row) /\ ~IsRelative(row)
    <3>1. s.file = row.file
      BY <1>3, <2>1, <2>4 DEF ids, QualifiedIn
    <3> QED
      BY <3>1 DEF Inside, Reachable, Compatible, Justified
  <2> QED
    BY <2>2, <2>3, <2>4
<1> QED
  BY <1>1, <1>2, <1>3 DEF IdOf

\* A function of a package is in a file of its project and directory that Go
\* reads, and in no test file when it is imported.
LEMMA FunctionIsInPackage ==
  ASSUME NEW row, NEW package, NEW name, NEW evidence,
         FunctionOf(symbols, row, package, name, evidence).target # NoSymbol
  PROVE  LET file == FunctionOf(symbols, row, package, name, evidence).target.file
         IN  /\ LangOf(file) = "go" /\ ~ignored_file(file)
             /\ evidence # "go_package" => ~IsTest(file)
             /\ file.project = package.project /\ directory_of(file) = package.directory
<1> DEFINE found == InContext(PackageSymbols(symbols, package, name), row, evidence)
           symbol == CHOOSE s \in found : TRUE
<1>1. /\ found # {}
      /\ FunctionOf(symbols, row, package, name, evidence).target = IdOf(symbol)
  BY DEF FunctionOf, NoLink, Result
<1>2. symbol \in found
  BY <1>1
<1>3. symbol.file = FunctionOf(symbols, row, package, name, evidence).target.file
  BY <1>1 DEF IdOf
<1> QED
  BY <1>2, <1>3 DEF InContext, PackageSymbols, GoRows

LEMMA GoTargetIsInside ==
  ASSUME NEW row, LangOf(row.file) = "go", ImportsStay,
         resolve_go_call(symbols, imports, row).target # NoSymbol
  PROVE  Inside(row, resolve_go_call(symbols, imports, row).target.file)
<1> DEFINE target == resolve_go_call(symbols, imports, row).target
<1>1. CASE row.path[1] = "@go"
  <2> DEFINE package == Package(row.file, row.path[2])
  <2>1. target = FunctionOf(symbols, row, package, row.path[3], "go_package").target
    BY <1>1 DEF resolve_go_call, DirectCall, NoLink, Result
  <2>2. /\ LangOf(target.file) = "go" /\ ~ignored_file(target.file)
        /\ target.file.project = package.project /\ directory_of(target.file) = package.directory
    <3>1. FunctionOf(symbols, row, package, row.path[3], "go_package").target # NoSymbol
      BY <2>1
    <3> HIDE DEF target, package
    <3> QED
      BY <2>1, <3>1, FunctionIsInPackage
  <2>3. package.project = row.file.project /\ package.directory = directory_of(row.file)
    BY DEF Package
  <2> QED
    BY <2>2, <2>3 DEF Inside, Reachable, Compatible, Justified
<1>2. CASE row.path[1] # "@go"
  <2> DEFINE rows == ImportsNamed(symbols, imports, row.file, row.path[3])
             i == CHOOSE r \in rows : TRUE
             package == ImportedPackage(symbols, imports, i)
  <2>1. /\ rows # {} /\ package # NoPackage
        /\ target = FunctionOf(symbols, row, package, row.path[4], "go_imported_package").target
    BY <1>2 DEF resolve_go_call, SelectorCall, NoLink, Result
  <2>2. /\ LangOf(target.file) = "go" /\ ~ignored_file(target.file) /\ ~IsTest(target.file)
        /\ target.file.project = package.project /\ directory_of(target.file) = package.directory
    <3>1. FunctionOf(symbols, row, package, row.path[4], "go_imported_package").target # NoSymbol
      BY <2>1
    <3> HIDE DEF target, package
    <3> QED
      BY <2>1, <3>1, FunctionIsInPackage
  <2>3. i \in DOMAIN imports /\ i.file = row.file
    <3>1. i \in rows
      BY <2>1
    <3> QED
      BY <3>1 DEF ImportsNamed, GoImports
  <2>4. /\ imports[i].file # NoFile /\ i.file.project = imports[i].file.project
        /\ package.project = imports[i].file.project
        /\ package.directory = directory_of(imports[i].file)
    BY <2>1 DEF ImportedPackage, Package
  <2> QED
    BY <2>2, <2>3, <2>4 DEF Inside, Reachable, Compatible, Justified
<1> QED
  BY <1>1, <1>2
-----------------------------------------------------------------------------
(***************************************************************************)
(* No import and no edge leaves its project or its family of languages,    *)
(* and every edge into another file has a reason.                          *)
(***************************************************************************)
LEMMA EdgesStayInsideIsInductive == EdgesStayInside /\ [Next]_vars => EdgesStayInside'
<1> SUFFICES ASSUME EdgesStayInside, [Next]_vars
             PROVE  EdgesStayInside'
  OBVIOUS
<1>1. CASE StoreRows
  BY <1>1 DEF StoreRows, EdgesStayInside, Justified
<1>2. CASE ResolveImports
  <2>1. DOMAIN imports = {}
    BY <1>2 DEF ResolveImports, NotYet
  <2>2. ASSUME NEW r \in DOMAIN imports', imports'[r].file # NoFile
        PROVE  Reachable(r.file, imports'[r].file)
    <3>1. imports'[r] = ImportTarget(r)
      BY <1>2, <2>2 DEF ResolveImports
    <3> QED
      BY <2>2, <3>1, ImportTargetIsReachable
  <2>3. ASSUME NEW r \in DOMAIN edges, edges[r].target # NoSymbol
        PROVE  Inside(r, edges[r].target.file)'
    BY <1>2, <2>1, <2>3 DEF ResolveImports, EdgesStayInside, Inside, Reachable, Justified
  <2> QED
    BY <1>2, <2>2, <2>3 DEF ResolveImports, EdgesStayInside, Inside, Reachable
<1>3. CASE ResolveCalls
  <2>1. ImportsStay
    BY DEF ImportsStay, EdgesStayInside, Reachable
  <2>2. ASSUME NEW r \in DOMAIN edges', edges'[r].target # NoSymbol
        PROVE  Inside(r, edges'[r].target.file)
    <3>1. edges'[r] = IF LangOf(r.file) = "go" THEN resolve_go_call(symbols, imports, r)
                                               ELSE resolve_call(symbols, imports, r)
      BY <1>3, <2>2 DEF ResolveCalls
    <3> QED
      BY <2>1, <2>2, <3>1, GoTargetIsInside, ScopedTargetIsInside
  <2> QED
    BY <1>3, <2>2 DEF ResolveCalls, EdgesStayInside, Inside, Reachable, Justified
<1>4. CASE UNCHANGED vars
  BY <1>4 DEF vars, EdgesStayInside, Justified
<1> QED
  BY <1>1, <1>2, <1>3, <1>4 DEF Next

\* EdgesStayInside holds for any program, file layout and module table.
THEOREM EdgesStay == Spec => []EdgesStayInside
<1>1. Init => EdgesStayInside
  BY DEF Init, NotYet, EdgesStayInside
<1> QED
  BY <1>1, EdgesStayInsideIsInductive, PTL DEF Spec
-----------------------------------------------------------------------------
(***************************************************************************)
(* Chains of names: the greatest of some nodes is named last.              *)
(***************************************************************************)

\* A bounded set of numbers has a maximum.
LEMMA MaxIsGreatest ==
  ASSUME NEW S, S \subseteq Nat, S # {}, NEW b \in Nat, \A x \in S : x <= b
  PROVE  Max(S) \in S /\ \A x \in S : x <= Max(S)
<1> DEFINE below == {b - x : x \in S}
<1>1. below \subseteq Nat /\ below # {}
  <2>1. \A x \in S : b - x \in Nat
    OBVIOUS
  <2> QED
    BY <2>1
<1>2. PICK m \in below : \A n \in below : m <= n
  BY <1>1, LeastNatural
<1>3. PICK x \in S : m = b - x
  BY <1>2
<1>4. \A y \in S : x >= y
  BY <1>2, <1>3
<1> QED
  BY <1>4 DEF Max

\* A node above all others is named last.
LEMMA NamesGrow ==
  ASSUME NEW t, NEW A, A \subseteq Nat, IsFiniteSet(A), NEW m \in Nat, \A a \in A : a < m
  PROVE  /\ Names(t, A \cup {m}) = Append(Names(t, A), t[m].name)
         /\ Len(Names(t, A)) = Cardinality(A)
<1> DEFINE n == Cardinality(A)
<1>1. n \in Nat /\ Cardinality(A \cup {m}) = n + 1
  <2>1. m \notin A
    OBVIOUS
  <2> QED
    BY <2>1, FS_AddElement, FS_CardinalityType
<1>2. ASSUME NEW a \in A
      PROVE  /\ {b \in A \cup {m} : b <= a} = {b \in A : b <= a}
             /\ Cardinality({b \in A : b <= a}) <= n
  <2>1. {b \in A \cup {m} : b <= a} = {b \in A : b <= a}
    OBVIOUS
  <2>2. {b \in A : b <= a} \in SUBSET A
    OBVIOUS
  <2> QED
    BY <2>1, <2>2, FS_Subset
<1>3. {b \in A \cup {m} : b <= m} = A \cup {m}
  <2>1. \A b \in A \cup {m} : b <= m
    OBVIOUS
  <2> QED
    BY <2>1
<1> HIDE DEF n
<1>4. \A k \in 1 .. n : Nth(A \cup {m}, k) = Nth(A, k)
  <2> SUFFICES ASSUME NEW k \in 1 .. n, NEW a \in A \cup {m}
               PROVE  Cardinality({b \in A \cup {m} : b <= a}) = k
                        <=> a \in A /\ Cardinality({b \in A : b <= a}) = k
    BY DEF Nth
  <2>1. CASE a \in A
    BY <1>2, <2>1
  <2>2. CASE a = m
    <3>1. n + 1 # k /\ m \notin A
      BY <1>1
    <3> QED
      BY <1>1, <1>3, <2>2, <3>1
  <2> QED
    BY <2>1, <2>2
<1>5. Nth(A \cup {m}, n + 1) = {m}
  <2> SUFFICES ASSUME NEW a \in A \cup {m}
               PROVE  Cardinality({b \in A \cup {m} : b <= a}) = n + 1 <=> a = m
    BY DEF Nth
  <2>1. CASE a \in A
    <3>1. Cardinality({b \in A \cup {m} : b <= a}) # n + 1 /\ a # m
      BY <1>1, <1>2, <2>1 DEF n
    <3> QED
      BY <3>1
  <2>2. CASE a = m
    BY <1>1, <1>3, <2>2
  <2> QED
    BY <2>1, <2>2
<1>6. Names(t, A) = [k \in 1 .. n |-> t[CHOOSE a \in Nth(A, k) : TRUE].name]
  BY DEF Names, n
<1>7. Names(t, A \cup {m}) = [k \in 1 .. n + 1 |-> t[CHOOSE a \in Nth(A \cup {m}, k) : TRUE].name]
  BY <1>1 DEF Names
<1>8. (CHOOSE a \in Nth(A \cup {m}, n + 1) : TRUE) = m
  BY <1>5
<1> DEFINE f == Names(t, A)
           g == Names(t, A \cup {m})
<1>9. Len(f) = n /\ DOMAIN f = 1 .. n 
  BY <1>1, <1>6
<1>10. /\ DOMAIN g = 1 .. n + 1 /\ g[n + 1] = t[m].name
       /\ \A k \in 1 .. n : g[k] = f[k]
  <2>1. n + 1 \in 1 .. n + 1 /\ \A k \in 1 .. n : k \in 1 .. n + 1
    BY <1>1
  <2>2. g[n + 1] = t[m].name
    BY <1>7, <1>8, <2>1
  <2>3. ASSUME NEW k \in 1 .. n PROVE g[k] = f[k]
    <3>1. Nth(A \cup {m}, k) = Nth(A, k)
      BY <1>4
    <3>2. g[k] = t[CHOOSE a \in Nth(A \cup {m}, k) : TRUE].name
      BY <1>7, <2>1
    <3>3. f[k] = t[CHOOSE a \in Nth(A, k) : TRUE].name
      BY <1>6
    <3> QED
      BY <3>1, <3>2, <3>3
  <2> QED
    BY <1>7, <2>2, <2>3
<1>11. g = [k \in 1 .. n + 1 |-> g[k]]
  BY <1>7
<1> HIDE DEF f, g
<1>12. g = Append(f, t[m].name)
  <2> DEFINE S == {f[k] : k \in 1 .. n} \cup {t[m].name}
  <2>1. f \in Seq(S)
    <3>1. f \in [1 .. n -> S]
      BY <1>1, <1>6 DEF f
    <3> QED
      BY <1>1, <3>1, SeqDef
  <2>2. g \in Seq(S)
    <3>1. \A k \in 1 .. n + 1 : g[k] \in S
      <4>1. \A k \in 1 .. n + 1 : k \in 1 .. n \/ k = n + 1
        BY <1>1
      <4> QED
        BY <1>10, <4>1
    <3> HIDE DEF S
    <3>2. g \in [1 .. n + 1 -> S]
      BY <1>11, <3>1
    <3> QED
      BY <1>1, <3>2, SeqDef
  <2> HIDE DEF S
  <2>3. Append(f, t[m].name) \in Seq(S)
    BY <2>1 DEF S
  <2> QED
    BY <1>1, <1>9, <1>10, <2>1, <2>2, <2>3, AppendProperties, SeqEqual
<1> QED
  BY <1>9, <1>12 DEF f, g, n

-----------------------------------------------------------------------------
(***************************************************************************)
(* The sweeps of parse.rs.  assign_nesting is defined by its equation: a   *)
(* least position without a partial sweep up to it cannot exist.           *)
(***************************************************************************)

\* f is the sweep of assign_nesting, position by position.
NestingFrom(t, f) ==
  f = [i \in 0 .. Len(t) |->
         IF i = 0 THEN Unnested
         ELSE IF i \in Definitions(t) THEN Nest(t, f[i - 1], i) ELSE f[i - 1]]

LEMMA NestingIsDefined ==
  ASSUME NEW t, Len(t) \in Nat
  PROVE  \E f : NestingFrom(t, f) /\ assign_nesting(t) = f[Len(t)]
<1> DEFINE step(s, i) == IF i = 0 THEN Unnested
                         ELSE IF i \in Definitions(t) THEN Nest(t, s, i) ELSE s
           isSweep(f, n) == f = [i \in 0 .. n |-> step(f[i - 1], i)]
           bad == {n \in Nat : ~ \E f : isSweep(f, n)}
<1>1. bad = {}
  <2> SUFFICES ASSUME bad # {} PROVE FALSE
    OBVIOUS
  <2>1. PICK n \in bad : \A j \in bad : n <= j
    BY LeastNatural
  <2>2. n # 0
    <3> DEFINE f == [i \in 0 .. 0 |-> Unnested]
    <3>1. isSweep(f, 0)
      OBVIOUS
    <3> QED
      BY <2>1, <3>1
  <2>3. n \in Nat /\ n - 1 \in Nat /\ n - 1 \notin bad
    <3>1. n \in Nat
      BY <2>1
    <3> HIDE DEF bad
    <3> QED
      BY <2>1, <2>2, <3>1
  <2> HIDE DEF step
  <2>4. PICK f : isSweep(f, n - 1)
    BY <2>3
  <2> DEFINE g == [i \in 0 .. n |-> IF i = n THEN step(f[n - 1], n) ELSE f[i]]
  <2>5. ASSUME NEW i \in 0 .. n PROVE g[i] = step(g[i - 1], i)
    <3>1. CASE i = n
      BY <2>2, <2>3, <3>1
    <3>2. CASE i # n /\ i # 0
      <4>1. i \in 0 .. n - 1 /\ i - 1 \in 0 .. n /\ i - 1 # n
        BY <2>3, <3>2
      <4> QED
        BY <2>4, <3>2, <4>1
    <3>3. CASE i # n /\ i = 0
      <4>1. i \in 0 .. n - 1
        BY <2>3, <3>3
      <4>2. step(g[i - 1], i) = step(f[i - 1], i)
        BY <3>3 DEF step
      <4> QED
        BY <2>4, <3>3, <4>1, <4>2
    <3> QED
      BY <3>1, <3>2, <3>3
  <2>6. isSweep(g, n)
    BY <2>5
  <2> QED
    BY <2>1, <2>6
<1>2. \E f : isSweep(f, Len(t))
  BY <1>1
<1> HIDE DEF bad
<1>3. \A f : isSweep(f, Len(t)) <=> NestingFrom(t, f)
  BY DEF NestingFrom
<1> HIDE DEF isSweep
<1>4. NestingFrom(t, CHOOSE f : NestingFrom(t, f))
  BY <1>2, <1>3
<1>5. assign_nesting(t) = (CHOOSE f : NestingFrom(t, f))[Len(t)]
  BY DEF assign_nesting, NestingFrom
<1> QED
  BY <1>4, <1>5

\* The definitions up to node i that are open at byte b.
OpenAt(t, i, b) == {d \in Definitions(t) : d <= i /\ b <= t[d].last}

\* What the sweeps keep on their stacks once node i was visited.
Holds(t, stack, i, b) ==
  /\ stack \in Seq({d \in Definitions(t) : d <= i})
  /\ \A j, k \in DOMAIN stack : j < k => stack[j] < stack[k]
  /\ \A d \in OpenAt(t, i, b) : \E k \in DOMAIN stack : stack[k] = d

\* What ProgramAssumption says of each tree.
WellFormed(t) == t \in Seq(Nodes) /\ IsTree(t)

LEMMA TreeIsSequence ==
  ASSUME NEW t, WellFormed(t)
  PROVE  /\ Len(t) \in Nat /\ DOMAIN t = 1 .. Len(t)
         /\ \A i \in DOMAIN t : t[i] \in Nodes /\ t[i].last \in i .. Len(t)
         /\ Definitions(t) \subseteq 1 .. Len(t)
         /\ IsFiniteSet(Definitions(t))
<1>1. Len(t) \in Nat /\ DOMAIN t = 1 .. Len(t) /\ \A i \in DOMAIN t : t[i] \in Nodes
  BY LenProperties DEF WellFormed
<1>2. IsFiniteSet(1 .. Len(t)) /\ Definitions(t) \in SUBSET (1 .. Len(t))
  BY <1>1, FS_Interval DEF Definitions
<1>3. IsFiniteSet(Definitions(t))
  BY <1>2, FS_Subset
<1>4. \A i \in DOMAIN t : t[i].last \in i .. Len(t)
  BY DEF WellFormed, IsTree
<1> QED
  BY <1>1, <1>2, <1>3, <1>4

\* Popping the closed definitions from the top leaves the innermost open one
\* there, although closed ones may lie below it.
LEMMA TopIsInnermost ==
  ASSUME NEW t, WellFormed(t), NEW i \in Nat, NEW b \in Nat, NEW a \in Nat, a <= b,
         NEW stack, Holds(t, stack, i, a)
  PROVE  LET open == StillOpen(t, stack, b)
             top == IF open = <<>> THEN 0 ELSE Last(open)
         IN  /\ Holds(t, open, i, b)
             /\ top = 0 => OpenAt(t, i, b) = {}
             /\ top # 0 => top \in OpenAt(t, i, b) /\ \A d \in OpenAt(t, i, b) : d <= top
             /\ open = <<>> <=> top = 0
<1> DEFINE D == {d \in Definitions(t) : d <= i}
           K == {k \in DOMAIN stack : End(t, stack[k]) > b}
           n == Max({0} \cup K)
           open == StillOpen(t, stack, b)
           top == IF open = <<>> THEN 0 ELSE Last(open)
<1>1. /\ stack \in Seq(D) /\ Len(stack) \in Nat /\ DOMAIN stack = 1 .. Len(stack)
      /\ \A k \in 1 .. Len(stack) : stack[k] \in D
  BY LenProperties, ElementOfSeq DEF Holds
<1>2. n \in {0} \cup K /\ \A k \in K : k <= n
  <2>1. {0} \cup K \subseteq Nat /\ \A k \in {0} \cup K : k <= Len(stack)
    BY <1>1
  <2> HIDE DEF K
  <2> QED
    BY <1>1, <2>1, MaxIsGreatest
<1>3. n \in 0 .. Len(stack) /\ n \in Nat
  BY <1>1, <1>2
<1>4. \A d \in D : d \in Nat /\ d # 0 /\ t[d].last \in Nat /\ (End(t, d) > b <=> b <= t[d].last)
  BY TreeIsSequence DEF End
<1>5. open = SubSeq(stack, 1, n)
  BY DEF StillOpen
<1> HIDE DEF K, n, open, D
<1>6. /\ open \in Seq(D) /\ Len(open) = n /\ DOMAIN open = 1 .. n
      /\ \A k \in 1 .. n : open[k] = stack[k]
  <2>1. open \in Seq(D) /\ Len(open) = n
    <3>1. \A k \in 1 .. n : k \in 1 .. Len(stack)
      BY <1>1, <1>3
    <3> QED
      BY <1>1, <1>3, <1>5, <3>1, SubSeqProperties
  <2>2. DOMAIN open = 1 .. n
    BY <2>1, LenProperties
  <2> QED
    BY <1>1, <1>3, <1>5, <2>1, <2>2, SubSeqProperties
<1>7. ASSUME NEW d \in OpenAt(t, i, b)
      PROVE  \E k \in 1 .. n : stack[k] = d /\ k \in K
  <2>1. d \in D /\ d \in OpenAt(t, i, a)
    BY <1>4, TreeIsSequence DEF OpenAt, D
  <2>2. PICK k \in 1 .. Len(stack) : stack[k] = d
    BY <1>1, <2>1 DEF Holds
  <2>3. k \in K
    BY <1>1, <1>4, <2>1, <2>2 DEF OpenAt, K
  <2>4. k <= n
    BY <1>2, <2>3
  <2> QED
    BY <1>3, <2>2, <2>3, <2>4
<1>8. Holds(t, open, i, b)
  <2>1. \A j, k \in 1 .. n : j < k => open[j] < open[k]
    <3>1. \A k \in 1 .. n : k \in DOMAIN stack
      BY <1>1, <1>3
    <3> QED
      BY <1>6, <3>1 DEF Holds
  <2>2. \A d \in OpenAt(t, i, b) : \E k \in 1 .. n : open[k] = d
    BY <1>6, <1>7
  <2> QED
    BY <1>6, <2>1, <2>2 DEF Holds, D
<1>9. CASE n = 0
  <2>1. open = <<>>
    BY <1>6, <1>9, EmptySeq
  <2>2. OpenAt(t, i, b) = {}
    BY <1>7, <1>9
  <2> QED
    BY <1>8, <2>1, <2>2 DEF open
<1>10. CASE n # 0
  <2>1. open # <<>> /\ n \in K /\ n \in 1 .. n /\ n \in 1 .. Len(stack)
    BY <1>2, <1>3, <1>6, <1>10, EmptySeq
  <2>2. top = stack[n]
    BY <1>6, <2>1 DEF Last
  <2>3. top \in OpenAt(t, i, b)
    BY <1>1, <1>4, <2>1, <2>2 DEF OpenAt, D, K
  <2>4. ASSUME NEW d \in OpenAt(t, i, b) PROVE d <= top
    <3>1. PICK k \in 1 .. n : stack[k] = d
      BY <1>7
    <3>2. CASE k = n
      <4>1. d = top /\ d \in D
        BY <2>2, <3>1, <3>2 DEF OpenAt, D
      <4> QED
        BY <1>4, <4>1
    <3>3. CASE k < n
      <4>1. stack[k] < stack[n]
        BY <1>1, <1>3, <2>1, <3>3 DEF Holds
      <4> QED
        BY <1>4, <2>2, <3>1, <4>1, <1>1, <2>1
    <3> QED
      BY <1>3, <3>2, <3>3
  <2>5. top # 0
    BY <1>1, <1>4, <2>1, <2>2
  <2> QED
    BY <1>8, <2>1, <2>3, <2>4, <2>5 DEF open, top
<1> QED
  BY <1>3, <1>9, <1>10

\* The definitions around a node.
Outer(t, i) == {a \in Ancestors(t, i) : a \in Definitions(t)}

LEMMA OuterIsOpen ==
  ASSUME NEW t, WellFormed(t), NEW i \in DOMAIN t
  PROVE  /\ Outer(t, i) = OpenAt(t, i - 1, i)
         /\ i \notin Definitions(t) => Outer(t, i) = OpenAt(t, i, i)
         /\ Outer(t, i) \subseteq 1 .. i - 1 /\ IsFiniteSet(Outer(t, i))
<1>1. /\ i \in Nat /\ i # 0
      /\ \A d \in Definitions(t) : d \in Nat /\ d # 0
  BY TreeIsSequence
<1>2. Outer(t, i) \subseteq Definitions(t) /\ Outer(t, i) \subseteq 1 .. i - 1
  BY DEF Outer, Ancestors
<1>3. IsFiniteSet(Outer(t, i))
  <2>1. Outer(t, i) \in SUBSET Definitions(t)
    BY <1>2
  <2> QED
    BY <2>1, TreeIsSequence, FS_Subset
<1>4. ASSUME NEW d \in Definitions(t)
      PROVE  /\ d \in Outer(t, i) <=> d \in OpenAt(t, i - 1, i)
             /\ i \notin Definitions(t) => (d \in Outer(t, i) <=> d \in OpenAt(t, i, i))
  BY <1>1 DEF Outer, Ancestors, OpenAt
<1>5. OpenAt(t, i - 1, i) \subseteq Definitions(t) /\ OpenAt(t, i, i) \subseteq Definitions(t)
  BY DEF OpenAt
<1> QED
  BY <1>2, <1>3, <1>4, <1>5

LEMMA NobodyAround ==
  ASSUME NEW t, NEW i, Outer(t, i) = {}
  PROVE  Around(t, i) = <<>>
<1>1. Cardinality({}) = 0
  BY FS_EmptySet
<1>2. Around(t, i) = [k \in 1 .. 0 |-> t[CHOOSE a \in Nth(Outer(t, i), k) : TRUE].name]
  BY <1>1 DEF Around, Outer, Names
<1>3. 1 .. 0 = {}
  OBVIOUS
<1> QED
  BY <1>2, <1>3

\* The definitions around a node are those around the innermost one, and that.
LEMMA AroundInnermost ==
  ASSUME NEW t, WellFormed(t), NEW i \in DOMAIN t, NEW m \in Outer(t, i),
         \A d \in Outer(t, i) : d <= m
  PROVE  /\ m \in Definitions(t) /\ m \in DOMAIN t /\ m < i
         /\ Around(t, i) = Append(Around(t, m), t[m].name)
<1>1. m \in Definitions(t) /\ m \in DOMAIN t /\ m \in 1 .. i - 1 /\ i <= t[m].last /\ i \in Nat
  BY TreeIsSequence DEF Outer, Ancestors
<1>2. Outer(t, i) = Outer(t, m) \cup {m}
  <2>1. ASSUME NEW a \in Outer(t, i), a # m PROVE a \in Outer(t, m)
    <3>1. a \in 1 .. i - 1 /\ a < m /\ i <= t[a].last /\ a \in Definitions(t) /\ a \in DOMAIN t
      BY <1>1, <2>1, TreeIsSequence DEF Outer, Ancestors
    <3>2. t[a].last \in Nat
      BY <3>1, TreeIsSequence
    <3> QED
      BY <1>1, <3>1, <3>2 DEF Outer, Ancestors
  <2>2. ASSUME NEW a \in Outer(t, m) PROVE a \in Outer(t, i)
    <3>1. a \in 1 .. m - 1 /\ m <= t[a].last /\ a \in Definitions(t) /\ a \in DOMAIN t
      BY <1>1, TreeIsSequence DEF Outer, Ancestors
    <3>2. t[a].last \in Nat /\ t[m].last \in Nat
      BY <1>1, <3>1, TreeIsSequence
    <3>3. m \in a + 1 .. t[a].last
      BY <1>1, <3>1, <3>2
    <3>4. t[m].last <= t[a].last
      BY <3>1, <3>3 DEF WellFormed, IsTree
    <3> QED
      BY <1>1, <3>1, <3>2, <3>4 DEF Outer, Ancestors
  <2> QED
    BY <2>1, <2>2
<1>3. Outer(t, m) \subseteq Nat /\ IsFiniteSet(Outer(t, m)) /\ m \in Nat /\ \A a \in Outer(t, m) : a < m
  BY <1>1, OuterIsOpen
<1>4. Names(t, Outer(t, m) \cup {m}) = Append(Names(t, Outer(t, m)), t[m].name)
  BY <1>3, NamesGrow
<1> QED
  <2>1. Around(t, i) = Names(t, Outer(t, i)) /\ Around(t, m) = Names(t, Outer(t, m))
    BY DEF Around, Outer
  <2>2. Names(t, Outer(t, i)) = Names(t, Outer(t, m) \cup {m})
    BY <1>2, Zenon
  <2>3. Around(t, i) = Append(Around(t, m), t[m].name)
    BY <1>4, <2>1, <2>2, Zenon
  <2> QED
    BY <1>1, <2>3

Named(t, d) == Append(Around(t, d), t[d].name)

\* What assign_nesting knows once node i was visited.
Nested(t, s, i) ==
  /\ Holds(t, s.stack, i, i)
  /\ DOMAIN s.qualified = {d \in Definitions(t) : d <= i}
  /\ DOMAIN s.kind = {d \in Definitions(t) : d <= i}
  /\ \A d \in DOMAIN s.qualified : s.qualified[d] = Named(t, d)

LEMMA PushHolds ==
  ASSUME NEW t, WellFormed(t), NEW i \in DOMAIN t, NEW stack, NEW b \in Nat,
         Holds(t, stack, i - 1, b), b <= i
  PROVE  /\ i \in Definitions(t) => Holds(t, Append(stack, i), i, i)
         /\ i \notin Definitions(t) => Holds(t, stack, i, i)
<1> DEFINE D(n) == {d \in Definitions(t) : d <= n}
<1>1. /\ i \in Nat /\ i # 0 /\ D(i - 1) \subseteq D(i)
      /\ \A d \in Definitions(t) : d \in Nat /\ t[d].last \in Nat
  BY TreeIsSequence
<1>2. /\ stack \in Seq(D(i - 1)) /\ Len(stack) \in Nat /\ DOMAIN stack = 1 .. Len(stack)
      /\ \A k \in 1 .. Len(stack) : stack[k] \in D(i - 1)
  BY LenProperties, ElementOfSeq DEF Holds
<1>3. stack \in Seq(D(i))
  BY <1>1, <1>2, SeqMonotonic
<1>4. \A d \in OpenAt(t, i, i) : d # i => d \in OpenAt(t, i - 1, b)
  BY <1>1 DEF OpenAt
<1>5. CASE i \in Definitions(t)
  <2> DEFINE pushed == Append(stack, i)
  <2>1. /\ pushed \in Seq(D(i)) /\ Len(pushed) = Len(stack) + 1
        /\ \A k \in 1 .. Len(stack) : pushed[k] = stack[k]
        /\ pushed[Len(stack) + 1] = i
    <3>1. i \in D(i)
      BY <1>1, <1>5
    <3> HIDE DEF D
    <3> QED
      BY <1>3, <3>1, AppendProperties
  <2>2. DOMAIN pushed = 1 .. Len(stack) + 1
    BY <2>1, LenProperties
  <2> HIDE DEF pushed
  <2>3. ASSUME NEW j \in 1 .. Len(stack) + 1, NEW k \in 1 .. Len(stack) + 1, j < k
        PROVE  pushed[j] < pushed[k]
    <3>1. j \in 1 .. Len(stack) /\ pushed[j] = stack[j] /\ stack[j] < i
      BY <1>1, <1>2, <2>1, <2>3
    <3>2. CASE k = Len(stack) + 1
      BY <2>1, <3>1, <3>2
    <3>3. CASE k \in 1 .. Len(stack)
      <4>1. stack[j] < stack[k]
        BY <1>2, <2>3, <3>1, <3>3 DEF Holds
      <4> QED
        BY <2>1, <3>1, <3>3, <4>1
    <3> QED
      BY <1>2, <3>2, <3>3
  <2>4. ASSUME NEW d \in OpenAt(t, i, i) PROVE \E k \in 1 .. Len(stack) + 1 : pushed[k] = d
    <3>1. CASE d = i
      <4>1. Len(stack) + 1 \in 1 .. Len(stack) + 1
        BY <1>2
      <4> QED
        BY <2>1, <3>1, <4>1
    <3>2. CASE d # i
      <4>1. PICK k \in 1 .. Len(stack) : stack[k] = d
        BY <1>2, <1>4, <3>2 DEF Holds
      <4>2. k \in 1 .. Len(stack) + 1
        BY <1>2
      <4> QED
        BY <2>1, <4>1, <4>2
    <3> QED
      BY <3>1, <3>2
  <2> QED
    BY <1>5, <2>1, <2>2, <2>3, <2>4 DEF Holds, pushed
<1>6. CASE i \notin Definitions(t)
  <2>1. \A d \in OpenAt(t, i, i) : d # i
    BY <1>6 DEF OpenAt
  <2> QED
    BY <1>3, <1>4, <1>6, <2>1 DEF Holds
<1> QED
  BY <1>5, <1>6

LEMMA NestKeepsNested ==
  ASSUME NEW t, WellFormed(t), NEW i \in DOMAIN t, i \in Definitions(t),
         NEW s, Nested(t, s, i - 1)
  PROVE  Nested(t, Nest(t, s, i), i)
<1> DEFINE D(n) == {d \in Definitions(t) : d <= n}
           open == StillOpen(t, s.stack, i)
           parent == IF open = <<>> THEN 0 ELSE Last(open)
           above == IF parent = 0 THEN <<>> ELSE s.qualified[parent]
           next == Nest(t, s, i)
<1>1. /\ i \in Nat /\ i # 0 /\ i - 1 \in Nat /\ i - 1 <= i
      /\ \A d \in Definitions(t) : d \in Nat
  BY TreeIsSequence
<1>2. /\ Holds(t, open, i - 1, i)
      /\ parent = 0 => Outer(t, i) = {}
      /\ parent # 0 => parent \in Outer(t, i) /\ \A d \in Outer(t, i) : d <= parent
  <2>1. Holds(t, s.stack, i - 1, i - 1)
    BY DEF Nested
  <2>2. Outer(t, i) = OpenAt(t, i - 1, i)
    BY OuterIsOpen
  <2> QED
    BY <1>1, <2>1, <2>2, TopIsInnermost
<1>3. next.stack = Append(open, i)
  BY DEF Nest
<1>4. Holds(t, next.stack, i, i)
  BY <1>1, <1>2, <1>3, PushHolds
<1>5. /\ DOMAIN next.qualified = D(i - 1) \cup {i} /\ DOMAIN next.kind = D(i - 1) \cup {i}
      /\ next.qualified[i] = Append(above, t[i].name)
      /\ \A d \in D(i - 1) : d # i => next.qualified[d] = s.qualified[d]
  BY DEF Nest, Nested
<1>6. D(i - 1) \cup {i} = D(i) /\ \A d \in D(i) : d # i => d \in D(i - 1)
  BY <1>1
<1>7. above = Around(t, i)
  <2>1. CASE parent = 0
    BY <1>2, <2>1, NobodyAround
  <2>2. CASE parent # 0
    <3>1. /\ parent \in Definitions(t) /\ parent < i /\ parent \in Nat
          /\ Around(t, i) = Append(Around(t, parent), t[parent].name)
      BY <1>1, <1>2, <2>2, AroundInnermost
    <3>2. parent \in D(i - 1)
      BY <1>1, <3>1
    <3> QED
      BY <2>2, <3>1, <3>2 DEF Nested, Named
  <2> QED
    BY <2>1, <2>2
<1>8. \A d \in D(i) : next.qualified[d] = Named(t, d)
  BY <1>5, <1>6, <1>7 DEF Nested, Named
<1> HIDE DEF next
<1> QED
  BY <1>4, <1>5, <1>6, <1>8 DEF Nested, next

\* The nesting of a file gives every definition its chain of names.
LEMMA NestingIsAround ==
  ASSUME NEW t, WellFormed(t)
  PROVE  LET nesting == assign_nesting(t)
         IN  /\ DOMAIN nesting.qualified = Definitions(t) /\ DOMAIN nesting.kind = Definitions(t)
             /\ \A d \in Definitions(t) : nesting.qualified[d] = Named(t, d)
<1> DEFINE n == Len(t)
<1>1. n \in Nat /\ DOMAIN t = 1 .. n /\ Definitions(t) \subseteq 1 .. n
  BY TreeIsSequence
<1> HIDE DEF n
<1>2. PICK f : NestingFrom(t, f) /\ assign_nesting(t) = f[n]
  BY <1>1, NestingIsDefined DEF n
<1> DEFINE bad == {i \in 0 .. n : ~Nested(t, f[i], i)}
<1>3. f[0] = Unnested /\ \A i \in 1 .. n : f[i] = IF i \in Definitions(t) THEN Nest(t, f[i - 1], i)
                                                                          ELSE f[i - 1]
  BY <1>1, <1>2 DEF NestingFrom, n
<1>4. bad = {}
  <2> SUFFICES ASSUME bad # {} PROVE FALSE
    OBVIOUS
  <2>1. PICK i \in bad : \A j \in bad : i <= j
    <3>1. bad \subseteq Nat
      BY <1>1
    <3> HIDE DEF bad
    <3> QED
      BY <3>1, LeastNatural
  <2>2. i # 0
    <3>1. /\ OpenAt(t, 0, 0) = {} /\ {d \in Definitions(t) : d <= 0} = {}
      BY <1>1 DEF OpenAt
    <3>2. Nested(t, Unnested, 0)
      BY <3>1 DEF Nested, Holds, Unnested
    <3> QED
      BY <1>3, <2>1, <3>2
  <2>3. i \in 1 .. n /\ i - 1 \in 0 .. n /\ Nested(t, f[i - 1], i - 1) /\ i \in DOMAIN t
    BY <1>1, <2>1, <2>2
  <2>4. CASE i \in Definitions(t)
    BY <1>3, <2>1, <2>3, <2>4, NestKeepsNested
  <2>5. CASE i \notin Definitions(t)
    <3>1. {d \in Definitions(t) : d <= i} = {d \in Definitions(t) : d <= i - 1}
      BY <1>1, <2>3, <2>5
    <3>2. Holds(t, f[i - 1].stack, i, i)
      <4>1. i - 1 \in Nat /\ i - 1 <= i
        BY <1>1, <2>3
      <4> QED
        BY <2>3, <2>5, <4>1, PushHolds DEF Nested
    <3>3. f[i] = f[i - 1]
      BY <1>3, <2>3, <2>5
    <3>4. Nested(t, f[i], i)
      BY <2>3, <3>1, <3>2, <3>3 DEF Nested
    <3> QED
      BY <2>1, <3>4
  <2> QED
    BY <2>4, <2>5
<1>5. Nested(t, f[n], n)
  BY <1>1, <1>4
<1>6. {d \in Definitions(t) : d <= n} = Definitions(t)
  BY <1>1
<1> QED
  BY <1>2, <1>5, <1>6 DEF Nested

\* The same for assign_enclosing.
EnclosingFrom(t, bytes, f) ==
  f = [i \in 0 .. Len(t) |-> IF i = 0 THEN Unowned ELSE Own(t, bytes, f[i - 1], i)]

LEMMA EnclosingIsDefined ==
  ASSUME NEW t, NEW bytes, Len(t) \in Nat
  PROVE  \E f : EnclosingFrom(t, bytes, f) /\ assign_enclosing(t, bytes) = f[Len(t)].owner
<1> DEFINE step(s, i) == IF i = 0 THEN Unowned ELSE Own(t, bytes, s, i)
           isSweep(f, n) == f = [i \in 0 .. n |-> step(f[i - 1], i)]
           bad == {n \in Nat : ~ \E f : isSweep(f, n)}
<1>1. bad = {}
  <2> SUFFICES ASSUME bad # {} PROVE FALSE
    OBVIOUS
  <2>1. PICK n \in bad : \A j \in bad : n <= j
    BY LeastNatural
  <2>2. n # 0
    <3> DEFINE f == [i \in 0 .. 0 |-> Unowned]
    <3>1. isSweep(f, 0)
      OBVIOUS
    <3> QED
      BY <2>1, <3>1
  <2>3. n \in Nat /\ n - 1 \in Nat /\ n - 1 \notin bad
    <3>1. n \in Nat
      BY <2>1
    <3> HIDE DEF bad
    <3> QED
      BY <2>1, <2>2, <3>1
  <2> HIDE DEF step
  <2>4. PICK f : isSweep(f, n - 1)
    BY <2>3
  <2> DEFINE g == [i \in 0 .. n |-> IF i = n THEN step(f[n - 1], n) ELSE f[i]]
  <2>5. ASSUME NEW i \in 0 .. n PROVE g[i] = step(g[i - 1], i)
    <3>1. CASE i = n
      BY <2>2, <2>3, <3>1
    <3>2. CASE i # n /\ i # 0
      <4>1. i \in 0 .. n - 1 /\ i - 1 \in 0 .. n /\ i - 1 # n
        BY <2>3, <3>2
      <4> QED
        BY <2>4, <3>2, <4>1
    <3>3. CASE i # n /\ i = 0
      <4>1. i \in 0 .. n - 1
        BY <2>3, <3>3
      <4>2. step(g[i - 1], i) = step(f[i - 1], i)
        BY <3>3 DEF step
      <4> QED
        BY <2>4, <3>3, <4>1, <4>2
    <3> QED
      BY <3>1, <3>2, <3>3
  <2>6. isSweep(g, n)
    BY <2>5
  <2> QED
    BY <2>1, <2>6
<1>2. \E f : isSweep(f, Len(t))
  BY <1>1
<1> HIDE DEF bad
<1>3. \A f : isSweep(f, Len(t)) <=> EnclosingFrom(t, bytes, f)
  BY DEF EnclosingFrom
<1> HIDE DEF isSweep
<1>4. EnclosingFrom(t, bytes, CHOOSE f : EnclosingFrom(t, bytes, f))
  BY <1>2, <1>3
<1>5. assign_enclosing(t, bytes) = (CHOOSE f : EnclosingFrom(t, bytes, f))[Len(t)].owner
  BY DEF assign_enclosing, EnclosingFrom
<1> QED
  BY <1>4, <1>5

\* The greatest of some nodes, the root if there are none.
IsInnermost(nodes, a) ==
  IF nodes = {} THEN a = 0 ELSE a \in nodes /\ \A b \in nodes : b <= a

LEMMA InnermostIsMax ==
  ASSUME NEW nodes, nodes \subseteq Nat, NEW a, IsInnermost(nodes, a)
  PROVE  Max({0} \cup nodes) = a
<1>1. a \in {0} \cup nodes /\ \A b \in {0} \cup nodes : b <= a
  <2>1. CASE nodes = {}
    BY <2>1 DEF IsInnermost
  <2>2. CASE nodes # {}
    <3>1. a \in nodes /\ \A b \in nodes : b <= a
      BY <2>2, Zenon DEF IsInnermost
    <3>2. 0 <= a
      BY <3>1
    <3> QED
      BY <3>1, <3>2
  <2> QED
    BY <2>1, <2>2
<1>2. a \in Nat
  BY <1>1
<1>3. /\ Max({0} \cup nodes) \in {0} \cup nodes
      /\ \A b \in {0} \cup nodes : b <= Max({0} \cup nodes)
  <2>1. {0} \cup nodes \subseteq Nat /\ {0} \cup nodes # {}
    OBVIOUS
  <2> QED
    BY <1>1, <1>2, <2>1, MaxIsGreatest
<1>4. \A b \in {0} \cup nodes : b \in Nat
  OBVIOUS
<1> DEFINE m == Max({0} \cup nodes)
<1>5. m \in Nat /\ a <= m /\ m <= a
  <2> HIDE DEF m
  <2>1. m \in {0} \cup nodes /\ \A b \in {0} \cup nodes : b <= m
    BY <1>3 DEF m
  <2> QED
    BY <1>1, <1>4, <2>1
<1> HIDE DEF m
<1>6. m = a
  BY <1>2, <1>5
<1> QED
  BY <1>6 DEF m

\* What assign_enclosing knows once node i was visited.
Owned(t, bytes, s, i) ==
  /\ Holds(t, s.stack, i, i)
  /\ DOMAIN s.owner = {r \in bytes : r <= i}
  /\ \A r \in DOMAIN s.owner : IsInnermost(Outer(t, r), s.owner[r])

LEMMA OwnKeepsOwned ==
  ASSUME NEW t, WellFormed(t), NEW i \in DOMAIN t, NEW bytes, bytes \subseteq DOMAIN t \ Definitions(t),
         NEW s, Owned(t, bytes, s, i - 1)
  PROVE  Owned(t, bytes, Own(t, bytes, s, i), i)
<1> DEFINE D(n) == {r \in bytes : r <= n}
           pushed == IF i \in Definitions(t) THEN Append(s.stack, i) ELSE s.stack
           open == StillOpen(t, pushed, i)
           top == IF open = <<>> THEN 0 ELSE Last(open)
           next == Own(t, bytes, s, i)
<1>1. /\ i \in Nat /\ i # 0 /\ i - 1 \in Nat /\ i - 1 <= i
      /\ \A r \in bytes : r \in Nat
  BY TreeIsSequence
<1>2. Holds(t, pushed, i, i)
  BY <1>1, PushHolds DEF Owned
<1>3. CASE i \in bytes
  <2>1. /\ Holds(t, open, i, i)
        /\ top = 0 => Outer(t, i) = {}
        /\ top # 0 => top \in Outer(t, i) /\ \A d \in Outer(t, i) : d <= top
    <3>1. Outer(t, i) = OpenAt(t, i, i)
      BY <1>3, OuterIsOpen
    <3> QED
      BY <1>1, <1>2, <3>1, TopIsInnermost
  <2>2. next.stack = open
    BY <1>3 DEF Own
  <2>3. /\ DOMAIN next.owner = D(i - 1) \cup {i} /\ next.owner[i] = top
        /\ \A r \in D(i - 1) : r # i => next.owner[r] = s.owner[r]
    BY <1>3 DEF Own, Owned
  <2>4. D(i - 1) \cup {i} = D(i) /\ \A r \in D(i) : r # i => r \in D(i - 1)
    BY <1>1, <1>3
  <2>5. IsInnermost(Outer(t, i), top)
    <3> HIDE DEF top
    <3> QED
      BY <2>1 DEF IsInnermost
  <2>6. \A r \in D(i) : IsInnermost(Outer(t, r), next.owner[r])
    <3> HIDE DEF next, top
    <3> QED
      BY <2>3, <2>4, <2>5 DEF Owned
  <2> HIDE DEF next, open
  <2> QED
    BY <2>1, <2>2, <2>3, <2>4, <2>6 DEF Owned, next
<1>4. CASE i \notin bytes
  <2>1. next.stack = pushed /\ next.owner = s.owner
    BY <1>4 DEF Own
  <2>2. D(i) = D(i - 1)
    BY <1>1, <1>4
  <2> HIDE DEF next
  <2> QED
    BY <1>2, <2>1, <2>2 DEF Owned, next
<1> QED
  BY <1>3, <1>4

LEMMA EnclosingIsInnermost ==
  ASSUME NEW t, WellFormed(t), NEW bytes, bytes \subseteq DOMAIN t \ Definitions(t)
  PROVE  /\ DOMAIN assign_enclosing(t, bytes) = bytes
         /\ \A r \in bytes : IsInnermost(Outer(t, r), assign_enclosing(t, bytes)[r])
<1> DEFINE n == Len(t)
<1>1. n \in Nat /\ DOMAIN t = 1 .. n /\ Definitions(t) \subseteq 1 .. n
  BY TreeIsSequence
<1> HIDE DEF n
<1>2. PICK f : EnclosingFrom(t, bytes, f) /\ assign_enclosing(t, bytes) = f[n].owner
  BY <1>1, EnclosingIsDefined DEF n
<1> DEFINE bad == {i \in 0 .. n : ~Owned(t, bytes, f[i], i)}
<1>3. f[0] = Unowned /\ \A i \in 1 .. n : f[i] = Own(t, bytes, f[i - 1], i)
  BY <1>1, <1>2 DEF EnclosingFrom, n
<1>4. bad = {}
  <2> SUFFICES ASSUME bad # {} PROVE FALSE
    OBVIOUS
  <2>1. PICK i \in bad : \A j \in bad : i <= j
    <3>1. bad \subseteq Nat
      BY <1>1
    <3> HIDE DEF bad
    <3> QED
      BY <3>1, LeastNatural
  <2>2. i # 0
    <3>1. /\ OpenAt(t, 0, 0) = {} /\ {r \in bytes : r <= 0} = {}
      BY <1>1 DEF OpenAt
    <3>2. Owned(t, bytes, Unowned, 0)
      BY <3>1 DEF Owned, Holds, Unowned
    <3> QED
      BY <1>3, <2>1, <3>2
  <2>3. i \in 1 .. n /\ i - 1 \in 0 .. n /\ Owned(t, bytes, f[i - 1], i - 1) /\ i \in DOMAIN t
    BY <1>1, <2>1, <2>2
  <2> QED
    BY <1>3, <2>1, <2>3, OwnKeepsOwned
<1>5. Owned(t, bytes, f[n], n)
  BY <1>1, <1>4
<1>6. {r \in bytes : r <= n} = bytes
  BY <1>1
<1> QED
  BY <1>2, <1>5, <1>6 DEF Owned

\* The chains of names get longer inwards.
LEMMA NamedLength ==
  ASSUME NEW t, WellFormed(t), NEW i \in DOMAIN t
  PROVE  /\ Len(Around(t, i)) = Cardinality(Outer(t, i))
         /\ Len(Named(t, i)) = Cardinality(Outer(t, i)) + 1
         /\ Named(t, i) # <<>>
<1> DEFINE n == Cardinality(Outer(t, i))
           f == Around(t, i)
<1>1. n \in Nat
  BY OuterIsOpen, FS_CardinalityType
<1>2. f = [k \in 1 .. n |-> t[CHOOSE a \in Nth(Outer(t, i), k) : TRUE].name]
  BY DEF Around, Outer, Names
<1> HIDE DEF n, f
<1> DEFINE S == {f[k] : k \in 1 .. n} \cup {t[i].name}
<1>3. f \in [1 .. n -> S]
  BY <1>2
<1> HIDE DEF S
<1>4. f \in Seq(S) /\ Len(f) = n
  BY <1>1, <1>2, <1>3, SeqDef
<1>5. Len(Append(f, t[i].name)) = n + 1 /\ Append(f, t[i].name) # <<>>
  <2>1. t[i].name \in S
    BY DEF S
  <2> QED
    BY <1>4, <2>1, AppendProperties
<1> QED
  BY <1>4, <1>5 DEF Named, n, f

LEMMA NamesGrowInwards ==
  ASSUME NEW t, WellFormed(t), NEW i \in DOMAIN t, NEW d \in Outer(t, i)
  PROVE  Named(t, d) # Named(t, i)
<1>1. d \in DOMAIN t /\ d \in Definitions(t) /\ d \in 1 .. i - 1 /\ i <= t[d].last
  BY TreeIsSequence DEF Outer, Ancestors
<1>2. Outer(t, d) \subseteq Outer(t, i)
  <2> SUFFICES ASSUME NEW a \in Outer(t, d) PROVE a \in Outer(t, i)
    OBVIOUS
  <2>1. a \in 1 .. d - 1 /\ d <= t[a].last /\ a \in Definitions(t) /\ a \in DOMAIN t
    BY <1>1, TreeIsSequence DEF Outer, Ancestors
  <2>2. i \in Nat /\ t[a].last \in Nat /\ t[d].last \in Nat
    BY <1>1, <2>1, TreeIsSequence
  <2>3. t[d].last <= t[a].last
    <3>1. d \in a + 1 .. t[a].last
      BY <1>1, <2>1, <2>2
    <3> QED
      BY <2>1, <3>1 DEF WellFormed, IsTree
  <2> QED
    BY <1>1, <2>1, <2>2, <2>3 DEF Outer, Ancestors
<1>3. d \notin Outer(t, d)
  BY <1>1 DEF Outer, Ancestors
<1>4. /\ IsFiniteSet(Outer(t, i)) /\ Outer(t, d) \in SUBSET Outer(t, i) /\ Outer(t, d) # Outer(t, i)
  BY <1>2, <1>3, OuterIsOpen
<1>5. Cardinality(Outer(t, d)) # Cardinality(Outer(t, i))
  BY <1>4, FS_Subset
<1>6. Cardinality(Outer(t, d)) \in Nat /\ Cardinality(Outer(t, i)) \in Nat
  BY <1>1, OuterIsOpen, FS_CardinalityType
<1> QED
  BY <1>1, <1>5, <1>6, NamedLength

-----------------------------------------------------------------------------
(***************************************************************************)
(* Rows in Rust, Python and ECMAScript: among the symbols that bear the    *)
(* name of its owner, a reference finds that owner.                        *)
(***************************************************************************)

LEMMA OwnerReplaced ==
  \A file, at, kind, name, path, blocked, owner, o :
    [Ref(file, at, kind, name, path, blocked, owner) EXCEPT !.owner = o]
      = Ref(file, at, kind, name, path, blocked, o)
  BY DEF Ref

LEMMA ReferencesDefineNothing ==
  ASSUME NEW t
  PROVE  /\ Calls(t) \cup Imports(t) \subseteq DOMAIN t \ Definitions(t)
         /\ Calls(t) \cap Imports(t) = {}
  BY DEF Calls, Imports, Definitions, KindOf

OwnerName(nesting, d) == IF d = 0 THEN <<>> ELSE nesting.qualified[d]

KindAt(t, i) == IF i \in Calls(t) THEN "call" ELSE "import"

\* What the rows of a file in Rust, Python or ECMAScript hold of its sweeps.
LEMMA ScopedRowsAre ==
  ASSUME NEW file, NEW bindings, NEW nesting, NEW owners, NEW t, t = source[file].tree,
         DOMAIN owners = Calls(t) \cup Imports(t), NEW rows,
         rows = ScopedRows(file, bindings, nesting, owners)
  PROVE  /\ \A s \in rows.symbols : \E i \in Definitions(t) : \E kind, exported :
              s = Symbol(file, i, t[i].name, nesting.qualified[i], kind, exported)
         /\ \A i \in Definitions(t) : \E s \in rows.symbols :
              s.at = i /\ s.qualified = nesting.qualified[i]
         /\ \A r \in rows.refs : \E i \in DOMAIN owners : \E called, path, blocked :
              r = Ref(file, i, KindAt(t, i), called, path, blocked, OwnerName(nesting, owners[i]))
<1> DEFINE lang == LangOf(file)
           owner == [i \in DOMAIN owners |-> IF owners[i] = 0 THEN <<>>
                                              ELSE nesting.qualified[owners[i]]]
           scoped == [i \in Calls(t) |-> apply(lang, t, bindings, i, owner[i], nesting.qualified)]
<1>1. /\ rows.symbols = {Symbol(file, i, t[i].name, nesting.qualified[i], nesting.kind[i],
                                Exported(lang, t, i)) : i \in Definitions(t)}
      /\ rows.refs = {Ref(file, i, "call", t[i].name, scoped[i].path, scoped[i].blocked, owner[i]) :
                        i \in Calls(t)}
                     \cup {Ref(file, i, "import", t[i].path, UsePath(file, t[i]), "", owner[i]) :
                             i \in Imports(t)}
  <2>1. rows.symbols = {Symbol(file, i, t[i].name, nesting.qualified[i], nesting.kind[i],
                               Exported(lang, t, i)) : i \in Definitions(t)}
    BY DEF ScopedRows
  <2>2. rows.refs = {Ref(file, i, "call", t[i].name, scoped[i].path, scoped[i].blocked, owner[i]) :
                       i \in Calls(t)}
                    \cup {Ref(file, i, "import", t[i].path, UsePath(file, t[i]), "", owner[i]) :
                            i \in Imports(t)}
    BY DEF ScopedRows
  <2> QED
    BY <2>1, <2>2
<1> HIDE DEF scoped
<1>2. \A i \in DOMAIN owners : owner[i] = OwnerName(nesting, owners[i])
  BY DEF OwnerName
<1> HIDE DEF owner
<1>3. \A s \in rows.symbols : \E i \in Definitions(t) : \E kind, exported :
        s = Symbol(file, i, t[i].name, nesting.qualified[i], kind, exported)
  <2> SUFFICES ASSUME NEW s \in rows.symbols
               PROVE  \E i \in Definitions(t) : \E kind, exported :
                        s = Symbol(file, i, t[i].name, nesting.qualified[i], kind, exported)
    OBVIOUS
  <2>1. PICK i \in Definitions(t) :
          s = Symbol(file, i, t[i].name, nesting.qualified[i], nesting.kind[i], Exported(lang, t, i))
    BY <1>1
  <2> QED
    BY <2>1
<1>4. \A i \in Definitions(t) : \E s \in rows.symbols : s.at = i /\ s.qualified = nesting.qualified[i]
  <2> SUFFICES ASSUME NEW i \in Definitions(t)
               PROVE  \E s \in rows.symbols : s.at = i /\ s.qualified = nesting.qualified[i]
    OBVIOUS
  <2> DEFINE s == Symbol(file, i, t[i].name, nesting.qualified[i], nesting.kind[i], Exported(lang, t, i))
  <2>1. s \in rows.symbols
    BY <1>1
  <2>2. s.at = i /\ s.qualified = nesting.qualified[i]
    BY DEF Symbol
  <2> QED
    BY <2>1, <2>2
<1>5. ASSUME NEW r \in rows.refs
      PROVE  \E i \in DOMAIN owners : \E called, path, blocked :
               r = Ref(file, i, KindAt(t, i), called, path, blocked, OwnerName(nesting, owners[i]))
  <2>1. CASE \E i \in Calls(t) :
               r = Ref(file, i, "call", t[i].name, scoped[i].path, scoped[i].blocked, owner[i])
    <3>1. PICK i \in Calls(t) :
            r = Ref(file, i, "call", t[i].name, scoped[i].path, scoped[i].blocked, owner[i])
      BY <2>1
    <3>2. KindAt(t, i) = "call" /\ i \in DOMAIN owners
      BY DEF KindAt
    <3>3. r = Ref(file, i, KindAt(t, i), t[i].name, scoped[i].path, scoped[i].blocked,
                  OwnerName(nesting, owners[i]))
      BY <1>2, <3>1, <3>2
    <3> QED
      BY <3>2, <3>3
  <2>2. CASE \E i \in Imports(t) :
               r = Ref(file, i, "import", t[i].path, UsePath(file, t[i]), "", owner[i])
    <3>1. PICK i \in Imports(t) :
            r = Ref(file, i, "import", t[i].path, UsePath(file, t[i]), "", owner[i])
      BY <2>2
    <3>2. KindAt(t, i) = "import" /\ i \in DOMAIN owners
      BY ReferencesDefineNothing DEF KindAt
    <3>3. r = Ref(file, i, KindAt(t, i), t[i].path, UsePath(file, t[i]), "",
                  OwnerName(nesting, owners[i]))
      BY <1>2, <3>1, <3>2
    <3> QED
      BY <3>2, <3>3
  <2> QED
    BY <1>1, <2>1, <2>2
<1> QED
  BY <1>3, <1>4, <1>5

\* Among the namesakes of its owner, a reference finds the owner itself.
LEMMA InSymbolIs ==
  ASSUME NEW file, NEW inserted, NEW at \in Nat, NEW owner, NEW d \in Nat,
         \A s \in inserted : s.at \in Nat,
         \A s \in inserted : s.qualified = owner /\ s.at <= at => s.at <= d,
         d # 0 => /\ \E s \in inserted : s.qualified = owner /\ s.at = d
                  /\ d <= at /\ End(source[file].tree, d) > at /\ End(source[file].tree, d) \in Nat,
         d = 0 => \A s \in inserted : s.qualified # owner
  PROVE  InSymbol(file, inserted, at, owner) = d
<1> DEFINE started == {s.at : s \in {r \in inserted : r.qualified = owner /\ r.at <= at}}
<1>1. CASE d = 0
  <2>1. started = {}
    BY <1>1
  <2> QED
    BY <1>1, <2>1 DEF InSymbol
<1>2. CASE d # 0
  <2>1. d \in started /\ started \subseteq Nat /\ \A x \in started : x <= d
    BY <1>2
  <2> HIDE DEF started
  <2>2. Max(started) \in started /\ \A x \in started : x <= Max(started)
    <3>1. started # {}
      BY <2>1
    <3> QED
      BY <2>1, <3>1, MaxIsGreatest
  <2>3. Max(started) = d
    <3> DEFINE m == Max(started)
    <3>1. m \in Nat /\ m <= d /\ d <= m
      <4>1. m \in started /\ \A x \in started : x <= m
        BY <2>2
      <4> HIDE DEF m
      <4> QED
        BY <2>1, <4>1
    <3> HIDE DEF m
    <3>2. m = d
      BY <3>1
    <3> QED
      BY <3>2 DEF m
  <2>4. started # {} /\ ~(End(source[file].tree, d) <= at)
    BY <1>2, <2>1
  <2>5. InSymbol(file, inserted, at, owner)
          = IF started = {} \/ End(source[file].tree, Max(started)) <= at THEN 0 ELSE Max(started)
    BY DEF InSymbol, started
  <2> QED
    BY <2>3, <2>4, <2>5
<1> QED
  BY <1>1, <1>2

\* The rows of a file: what TypeOK and OwnersAreInnermost say of them.
RowsFit(file, rows) ==
  LET t == source[file].tree
  IN  /\ \A s \in rows.symbols :
           /\ s.file = file /\ s.qualified # <<>>
           /\ LangOf(file) # "go" => s.qualified = Append(Around(t, s.at), s.name)
      /\ \A r \in rows.refs :
           /\ r.file = file /\ r.at \in DOMAIN t
           /\ r.owner = Max({0} \cup {a \in Ancestors(t, r.at) :
                               IF LangOf(file) = "go" THEN t[a].kind \in {"function", "method", "type"}
                                                      ELSE a \in Definitions(t)})

LEMMA ScopedRowsFit ==
  ASSUME NEW file, WellFormed(source[file].tree), LangOf(file) # "go"
  PROVE  RowsFit(file, Rows(file))
<1> DEFINE t == source[file].tree
           bytes == Calls(t) \cup Imports(t)
           nesting == assign_nesting(t)
           owners == assign_enclosing(t, bytes)
           bindings == Bindings(LangOf(file), t)
           parsed == ScopedRows(file, bindings, nesting, owners)
           name(i) == OwnerName(nesting, owners[i])
<1>1. Rows(file) = Inserted(file, parsed)
  BY DEF Rows, Extracted, ScopedFile
<1>2. /\ DOMAIN owners = bytes
      /\ \A r \in bytes : IsInnermost(Outer(t, r), owners[r])
      /\ bytes \subseteq DOMAIN t \ Definitions(t)
  BY ReferencesDefineNothing, EnclosingIsInnermost
<1>3. \A d \in Definitions(t) : nesting.qualified[d] = Named(t, d) /\ d \in DOMAIN t /\ d \in Nat /\ d # 0
  BY NestingIsAround, TreeIsSequence
<1> HIDE DEF owners, nesting, bindings
<1>4. /\ \A s \in parsed.symbols : \E i \in Definitions(t) : \E kind, exported :
           s = Symbol(file, i, t[i].name, nesting.qualified[i], kind, exported)
      /\ \A i \in Definitions(t) : \E s \in parsed.symbols :
           s.at = i /\ s.qualified = nesting.qualified[i]
      /\ \A r \in parsed.refs : \E i \in DOMAIN owners : \E called, path, blocked :
           r = Ref(file, i, KindAt(t, i), called, path, blocked, name(i))
  <2>1. DOMAIN owners = Calls(t) \cup Imports(t) /\ t = source[file].tree
    BY <1>2
  <2>2. parsed = ScopedRows(file, bindings, nesting, owners)
    OBVIOUS
  <2> HIDE DEF parsed, t
  <2>3. \A s \in parsed.symbols : \E i \in Definitions(t) : \E kind, exported :
           s = Symbol(file, i, t[i].name, nesting.qualified[i], kind, exported)
    BY <2>1, <2>2, ScopedRowsAre
  <2>4. \A i \in Definitions(t) : \E s \in parsed.symbols :
           s.at = i /\ s.qualified = nesting.qualified[i]
    BY <2>1, <2>2, ScopedRowsAre
  <2>5. \A r \in parsed.refs : \E i \in DOMAIN owners : \E called, path, blocked :
           r = Ref(file, i, KindAt(t, i), called, path, blocked, name(i))
    BY <2>1, <2>2, ScopedRowsAre
  <2> QED
    BY <2>3, <2>4, <2>5
<1> HIDE DEF parsed
<1>5. ASSUME NEW s \in parsed.symbols
      PROVE  /\ s.file = file /\ s.at \in Definitions(t) /\ s.name = t[s.at].name
             /\ s.qualified = Named(t, s.at)
  BY <1>3, <1>4 DEF Symbol
<1>6. ASSUME NEW i \in bytes
      PROVE  InSymbol(file, parsed.symbols, i, name(i)) = owners[i]
  <2> DEFINE d == owners[i]
  <2>1. i \in DOMAIN t /\ i \in Nat /\ i \notin Definitions(t) /\ IsInnermost(Outer(t, i), d)
        /\ Outer(t, i) \subseteq 1 .. i - 1
    BY <1>2, TreeIsSequence, OuterIsOpen
  <2>2. \A s \in parsed.symbols : s.at \in Nat
    BY <1>3, <1>5
  <2>3. CASE d = 0
    <3>1. name(i) = <<>>
      BY <2>3 DEF OwnerName
    <3>2. \A s \in parsed.symbols : s.qualified # <<>>
      BY <1>3, <1>5, NamedLength
    <3> HIDE DEF d
    <3>3. InSymbol(file, parsed.symbols, i, name(i)) = 0
      BY <2>1, <2>2, <3>1, <3>2, InSymbolIs
    <3> QED
      BY <2>3, <3>3 DEF d
  <2>4. CASE d # 0
    <3>1. d \in Outer(t, i) /\ \A a \in Outer(t, i) : a <= d
      BY <2>1, <2>4 DEF IsInnermost
    <3>2. /\ d \in Definitions(t) /\ d \in DOMAIN t /\ d \in Nat /\ d < i /\ i <= t[d].last
          /\ t[d].last \in Nat
      BY <1>3, <2>1, <3>1, TreeIsSequence DEF Outer, Ancestors
    <3>3. name(i) = Named(t, d)
      BY <1>3, <2>4, <3>2 DEF OwnerName
    <3>4. ASSUME NEW s \in parsed.symbols, s.qualified = name(i), s.at <= i PROVE s.at <= d
      <4>1. s.at \in Definitions(t) /\ Named(t, s.at) = Named(t, d) /\ s.at \in DOMAIN t /\ s.at \in Nat
            /\ s.at # i
        BY <1>3, <1>5, <2>1, <3>3, <3>4
      <4>2. SUFFICES ASSUME d < s.at PROVE FALSE
        BY <3>2, <4>1
      <4>3. d \in Outer(t, s.at)
        <5>1. d \in 1 .. s.at - 1 /\ s.at <= t[d].last
          BY <2>1, <2>4, <3>2, <3>4, <4>1, <4>2
        <5> QED
          BY <3>2, <5>1 DEF Outer, Ancestors
      <4> QED
        BY <4>1, <4>3, NamesGrowInwards
    <3>5. \E s \in parsed.symbols : s.qualified = name(i) /\ s.at = d
      BY <1>3, <1>4, <3>2, <3>3
    <3>6. d <= i /\ End(t, d) > i /\ End(t, d) \in Nat
      BY <2>1, <3>2 DEF End
    <3> HIDE DEF d
    <3> QED
      BY <2>1, <2>2, <2>4, <3>2, <3>4, <3>5, <3>6, InSymbolIs DEF d
  <2> QED
    BY <2>3, <2>4
<1>7. ASSUME NEW r \in Rows(file).refs
      PROVE  r.file = file /\ r.at \in DOMAIN t /\ r.owner = Max({0} \cup Outer(t, r.at))
  <2>1. PICK q \in parsed.refs : r = [q EXCEPT !.owner = InSymbol(file, parsed.symbols, q.at, q.owner)]
    BY <1>1 DEF Inserted
  <2>2. PICK i, kind, called, path, blocked :
          i \in bytes /\ q = Ref(file, i, kind, called, path, blocked, name(i))
    <3>1. PICK i, called, path, blocked :
            i \in DOMAIN owners /\ q = Ref(file, i, KindAt(t, i), called, path, blocked, name(i))
      BY <1>4
    <3>2. i \in bytes
      BY <1>2, <3>1
    <3> HIDE DEF bytes, name
    <3> QED
      BY <3>1, <3>2
  <2>3. q.at = i /\ q.owner = name(i)
    BY <2>2 DEF Ref
  <2>4. r = Ref(file, i, kind, called, path, blocked, owners[i])
    BY <1>6, <2>1, <2>2, <2>3, OwnerReplaced
  <2>5. r.file = file /\ r.at = i /\ r.owner = owners[i]
    BY <2>4 DEF Ref
  <2>6. Max({0} \cup Outer(t, i)) = owners[i]
    <3>1. Outer(t, i) \subseteq Nat
      BY <1>2, <2>2, OuterIsOpen
    <3> QED
      BY <1>2, <2>2, <3>1, InnermostIsMax
  <2> QED
    BY <1>2, <2>2, <2>5, <2>6
<1>8. ASSUME NEW s \in Rows(file).symbols
      PROVE  s.file = file /\ s.qualified # <<>> /\ s.qualified = Append(Around(t, s.at), s.name)
  <2>1. s \in parsed.symbols
    BY <1>1 DEF Inserted
  <2> QED
    BY <1>3, <1>5, <2>1, NamedLength DEF Named
<1> QED
  BY <1>7, <1>8 DEF RowsFit, Outer

-----------------------------------------------------------------------------
(***************************************************************************)
(* Rows in Go, where only types nest.                                      *)
(***************************************************************************)

\* One step of the recursion of GoQualified; above is what the owner is called.
GoName(t, package, d, above) ==
  CASE t[d].kind = "type" -> Append(IF Owners(t, d) = {} THEN <<package>> ELSE above, t[d].name)
    [] t[d].kind = "method" /\ t[d].of # "" -> <<package, t[d].of, t[d].name>>
    [] OTHER -> <<package, t[d].name>>

LEMMA GoOwnersAre ==
  ASSUME NEW t, WellFormed(t), NEW i \in DOMAIN t
  PROVE  /\ i \in Nat /\ Owners(t, i) \subseteq 1 .. i - 1 /\ Owners(t, i) \subseteq DOMAIN t
         /\ Owners(t, i) # {} => /\ Max(Owners(t, i)) \in Owners(t, i)
                                 /\ \A a \in Owners(t, i) : a <= Max(Owners(t, i))
<1>1. i \in Nat /\ i # 0 /\ i - 1 \in Nat /\ DOMAIN t = 1 .. Len(t) /\ Len(t) \in Nat /\ i <= Len(t)
  BY TreeIsSequence
<1>2. Owners(t, i) \subseteq 1 .. i - 1
  BY DEF Owners, Ancestors
<1>3. Owners(t, i) \subseteq Nat /\ \A a \in Owners(t, i) : a <= i - 1
  BY <1>1, <1>2
<1>4. Owners(t, i) \subseteq DOMAIN t
  BY <1>1, <1>2
<1> QED
  BY <1>1, <1>2, <1>3, <1>4, MaxIsGreatest

LEMMA NothingOwnsTheTop ==
  ASSUME NEW t, GoTopLevel(t), NEW i \in DOMAIN t, t[i].kind \in {"function", "method"} \/ i \in Imports(t)
  PROVE  Owners(t, i) = {}
  BY DEF GoTopLevel, Owners, GoScopes, is_scope

\* GoQualified is defined by its equation.
LEMMA GoQualifiedIs ==
  ASSUME NEW t, WellFormed(t), NEW package
  PROVE  \A i \in DOMAIN t :
           GoQualified(t, package, i) = GoName(t, package, i, GoQualified(t, package, Max(Owners(t, i))))
<1> DEFINE step(d, above) == GoName(t, package, d, above)
           isNaming(f, n) == f = [d \in 1 .. n |-> step(d, f[Max(Owners(t, d))])]
           bad == {n \in 0 .. Len(t) : ~ \E f : isNaming(f, n)}
<1>0. Len(t) \in Nat /\ DOMAIN t = 1 .. Len(t)
  BY TreeIsSequence
<1>1. bad = {}
  <2> SUFFICES ASSUME bad # {} PROVE FALSE
    OBVIOUS
  <2>1. PICK n \in bad : \A j \in bad : n <= j
    <3>1. bad \subseteq Nat
      BY <1>0
    <3> HIDE DEF bad
    <3> QED
      BY <3>1, LeastNatural
  <2>2. n # 0
    <3> DEFINE f == [d \in 1 .. 0 |-> <<>>]
    <3>1. isNaming(f, 0)
      OBVIOUS
    <3> QED
      BY <2>1, <3>1
  <2>3. n \in 0 .. Len(t)
    BY <2>1
  <2>4. n \in Nat /\ n - 1 \in 0 .. Len(t) /\ n - 1 \notin bad
    <3>1. n - 1 \in 0 .. Len(t) /\ ~(n <= n - 1) /\ n \in Nat
      BY <1>0, <2>2, <2>3
    <3> HIDE DEF bad
    <3> QED
      BY <2>1, <3>1
  <2>5. \A d, x, y : Owners(t, d) = {} => step(d, x) = step(d, y)
    BY DEF GoName
  <2> HIDE DEF step
  <2>6. PICK f : isNaming(f, n - 1)
    BY <2>4
  <2> DEFINE g == [d \in 1 .. n |-> IF d = n THEN step(n, f[Max(Owners(t, n))]) ELSE f[d]]
  <2>7. ASSUME NEW d \in 1 .. n PROVE g[d] = step(d, g[Max(Owners(t, d))])
    <3>1. d \in DOMAIN t /\ d \in Nat
      BY <1>0, <2>3
    <3>2. g[d] = step(d, f[Max(Owners(t, d))])
      <4>1. CASE d = n
        BY <4>1
      <4>2. CASE d # n
        <5>1. d \in 1 .. n - 1
          BY <2>4, <4>2
        <5> QED
          BY <2>6, <4>2, <5>1
      <4> QED
        BY <4>1, <4>2
    <3>3. CASE Owners(t, d) = {}
      BY <2>5, <3>2, <3>3
    <3>4. CASE Owners(t, d) # {}
      <4>1. Max(Owners(t, d)) \in 1 .. d - 1
        BY <3>1, <3>4, GoOwnersAre
      <4>2. Max(Owners(t, d)) \in 1 .. n /\ Max(Owners(t, d)) # n
        BY <2>4, <3>1, <4>1
      <4>3. g[Max(Owners(t, d))] = f[Max(Owners(t, d))]
        BY <4>2
      <4> QED
        BY <3>2, <4>3
    <3> QED
      BY <3>3, <3>4
  <2>8. isNaming(g, n)
    BY <2>7
  <2> QED
    BY <2>1, <2>8
<1>2. \E f : isNaming(f, Len(t))
  BY <1>0, <1>1
<1> HIDE DEF bad
<1> DEFINE isQualified(f) == f = [d \in DOMAIN t |->
             LET above == IF Owners(t, d) = {} THEN <<package>> ELSE f[Max(Owners(t, d))]
             IN  CASE t[d].kind = "type" -> Append(above, t[d].name)
                   [] t[d].kind = "method" /\ t[d].of # "" -> <<package, t[d].of, t[d].name>>
                   [] OTHER -> <<package, t[d].name>>]
           q == CHOOSE f : isQualified(f)
<1>3. ASSUME NEW f PROVE isNaming(f, Len(t)) <=> isQualified(f)
  <2>1. ASSUME NEW d \in DOMAIN t
        PROVE  step(d, f[Max(Owners(t, d))]) =
             (LET above == IF Owners(t, d) = {} THEN <<package>> ELSE f[Max(Owners(t, d))]
             IN  CASE t[d].kind = "type" -> Append(above, t[d].name)
                   [] t[d].kind = "method" /\ t[d].of # "" -> <<package, t[d].of, t[d].name>>
                   [] OTHER -> <<package, t[d].name>>)
    BY DEF GoName
  <2> HIDE DEF step
  <2> QED
    BY <1>0, <2>1
<1>4. \A i : GoQualified(t, package, i) = q[i]
  BY DEF GoQualified
<1> HIDE DEF isQualified
<1>5. isQualified(q)
  BY <1>2, <1>3
<1> HIDE DEF q
<1>6. isNaming(q, Len(t))
  BY <1>3, <1>5
<1>7. \A i \in DOMAIN t : q[i] = step(i, q[Max(Owners(t, i))])
  BY <1>0, <1>6
<1> QED
  BY <1>4, <1>7

LEMMA OneName == \A x \in STRING : <<x>> \in Seq(STRING) /\ Len(<<x>>) = 1
<1> TAKE x \in STRING
<1>1. <<x>> = Append(<<>>, x)
  OBVIOUS
<1>2. <<>> \in Seq(STRING) /\ Len(<<>>) = 0
  BY EmptySeq
<1>3. Append(<<>>, x) \in Seq(STRING) /\ Len(Append(<<>>, x)) = Len(<<>>) + 1
  BY <1>2, AppendProperties
<1> QED
  BY <1>1, <1>2, <1>3

LEMMA NodeFields ==
  ASSUME NEW t, WellFormed(t), NEW i \in DOMAIN t
  PROVE  /\ t[i].kind \in STRING /\ t[i].name \in STRING /\ t[i].of \in STRING
         /\ t[i].path \in Seq(STRING) /\ t[i].last \in Nat
<1>1. t[i] \in Nodes
  BY TreeIsSequence
<1> QED
  BY <1>1 DEF Nodes

\* Names in a package are longer than its own, and types add one to what surrounds
\* them.
LEMMA GoNamesAre ==
  ASSUME NEW t, WellFormed(t), NEW package \in STRING
  PROVE  \A i \in DOMAIN t : /\ GoQualified(t, package, i) \in Seq(STRING)
                             /\ Len(GoQualified(t, package, i)) > 1
                             /\ t[i].kind = "type" /\ Owners(t, i) # {} =>
                                  Len(GoQualified(t, package, i))
                                    = Len(GoQualified(t, package, Max(Owners(t, i)))) + 1
<1> DEFINE Q(i) == GoQualified(t, package, i)
           fine(i) == /\ Q(i) \in Seq(STRING) /\ Len(Q(i)) > 1
                      /\ t[i].kind = "type" /\ Owners(t, i) # {} => Len(Q(i)) = Len(Q(Max(Owners(t, i)))) + 1
           bad == {i \in DOMAIN t : ~fine(i)}
<1>1. SUFFICES ASSUME bad # {} PROVE FALSE
  OBVIOUS
<1>2. bad \subseteq Nat
  BY TreeIsSequence
<1> HIDE DEF bad
<1>3. PICK i \in bad : \A j \in bad : i <= j
  BY <1>1, <1>2, LeastNatural
<1>4. i \in DOMAIN t /\ i \in Nat /\ ~fine(i) /\ \A j \in DOMAIN t : ~(i <= j) => fine(j)
  BY <1>2, <1>3 DEF bad
<1> DEFINE M == Max(Owners(t, i))
<1>5. Q(i) = GoName(t, package, i, Q(M))
  BY <1>4, GoQualifiedIs
<1>6. t[i].kind \in STRING /\ t[i].name \in STRING /\ t[i].of \in STRING
  BY <1>4, NodeFields
<1>7. CASE t[i].kind = "type" /\ Owners(t, i) # {}
  <2>1. M \in DOMAIN t /\ M \in 1 .. i - 1
    BY <1>4, <1>7, GoOwnersAre
  <2>2. fine(M)
    BY <1>4, <2>1
  <2>3. Q(i) = Append(Q(M), t[i].name)
    BY <1>5, <1>7 DEF GoName
  <2>4. Q(M) \in Seq(STRING) /\ Len(Q(M)) > 1 /\ Len(Q(M)) \in Nat
    BY <2>2, LenProperties
  <2> HIDE DEF Q, M
  <2>5. Q(i) \in Seq(STRING) /\ Len(Q(i)) = Len(Q(M)) + 1
    BY <1>6, <2>3, <2>4, AppendProperties
  <2>6. Len(Q(i)) > 1
    BY <2>4, <2>5
  <2> QED
    BY <1>4, <2>5, <2>6 DEF M
<1>8. CASE t[i].kind = "type" /\ Owners(t, i) = {}
  <2>1. Q(i) = Append(<<package>>, t[i].name)
    BY <1>5, <1>8 DEF GoName
  <2>2. <<package>> \in Seq(STRING) /\ Len(<<package>>) = 1
    <3> HIDE DEF Q, bad
    <3> QED
      BY OneName
  <2> HIDE DEF Q
  <2>3. Q(i) \in Seq(STRING) /\ Len(Q(i)) = 1 + 1
    BY <1>6, <2>1, <2>2, AppendProperties
  <2>4. fine(i)
    BY <1>8, <2>3
  <2> QED
    BY <1>4, <2>4
<1>9. CASE t[i].kind # "type"
  <2>1. Q(i) = <<package, t[i].of, t[i].name>> \/ Q(i) = <<package, t[i].name>>
    BY <1>5, <1>9 DEF GoName
  <2>2. /\ <<package, t[i].of, t[i].name>> \in Seq(STRING) /\ <<package, t[i].name>> \in Seq(STRING)
        /\ Len(<<package, t[i].of, t[i].name>>) = 3 /\ Len(<<package, t[i].name>>) = 2
    BY <1>6
  <2> HIDE DEF Q
  <2>3. Q(i) \in Seq(STRING) /\ Len(Q(i)) > 1
    <3>1. CASE Q(i) = <<package, t[i].of, t[i].name>>
      BY <2>2, <3>1
    <3>2. CASE Q(i) = <<package, t[i].name>>
      BY <2>2, <3>2
    <3> QED
      BY <2>1, <3>1, <3>2
  <2> QED
    BY <1>4, <1>9, <2>3
<1> QED
  BY <1>7, <1>8, <1>9

\* The names of types get longer inwards.
LEMMA GoNamesGrowInwards ==
  ASSUME NEW t, WellFormed(t), GoTopLevel(t), NEW package \in STRING
  PROVE  \A m \in DOMAIN t : t[m].kind = "type" =>
           \A e \in Owners(t, m) : Len(GoQualified(t, package, e)) < Len(GoQualified(t, package, m))
<1> DEFINE Q(i) == GoQualified(t, package, i)
           fine(m) == t[m].kind = "type" => \A e \in Owners(t, m) : Len(Q(e)) < Len(Q(m))
           bad == {m \in DOMAIN t : ~fine(m)}
<1>1. SUFFICES ASSUME bad # {} PROVE FALSE
  OBVIOUS
<1>2. bad \subseteq Nat
  BY TreeIsSequence
<1> HIDE DEF bad
<1>3. PICK m \in bad : \A j \in bad : m <= j
  BY <1>1, <1>2, LeastNatural
<1>4. m \in DOMAIN t /\ m \in Nat /\ ~fine(m) /\ \A j \in DOMAIN t : ~(m <= j) => fine(j)
  BY <1>2, <1>3 DEF bad
<1>5. PICK e \in Owners(t, m) : t[m].kind = "type" /\ ~(Len(Q(e)) < Len(Q(m)))
  BY <1>4
<1> DEFINE M == Max(Owners(t, m))
<1>6. /\ M \in Owners(t, m) /\ e <= M /\ M \in 1 .. m - 1 /\ e \in 1 .. m - 1
      /\ M \in DOMAIN t /\ e \in DOMAIN t
  BY <1>4, <1>5, GoOwnersAre
<1>7. Len(Q(m)) = Len(Q(M)) + 1 /\ Len(Q(m)) \in Nat /\ Len(Q(M)) \in Nat /\ Len(Q(e)) \in Nat
  BY <1>4, <1>5, <1>6, GoNamesAre, LenProperties
<1>8. CASE e = M
  BY <1>5, <1>7, <1>8
<1>9. CASE e # M
  <2>1. e < M /\ e \in Nat /\ M \in Nat
    BY <1>6, <1>9
  <2>2. e \in Owners(t, M)
    <3>1. m <= t[e].last /\ t[e].last \in Nat /\ t[e].kind \in {"function", "method", "type"}
      BY <1>4, <1>5, <1>6, NodeFields DEF Owners, Ancestors
    <3>2. e \in 1 .. M - 1 /\ M <= t[e].last
      BY <1>4, <1>6, <2>1, <3>1
    <3> QED
      BY <3>1, <3>2 DEF Owners, Ancestors
  <2>3. t[M].kind = "type"
    <3>1. t[M].kind \in {"function", "method", "type"}
      BY <1>6 DEF Owners
    <3> QED
      BY <1>6, <2>2, <3>1, NothingOwnsTheTop
  <2>4. fine(M)
    <3>1. ~(m <= M)
      BY <1>4, <1>6
    <3> QED
      BY <1>4, <1>6, <3>1
  <2>5. Len(Q(e)) < Len(Q(M))
    BY <2>2, <2>3, <2>4
  <2> QED
    BY <1>5, <1>7, <2>5
<1> QED
  BY <1>8, <1>9

\* No declaration inside another one bears its name.
LEMMA GoNamesakesAreOutside ==
  ASSUME NEW t, WellFormed(t), GoTopLevel(t), NEW package \in STRING,
         NEW m \in GoDeclarations(t), NEW d \in Owners(t, m)
  PROVE  GoQualified(t, package, m) # GoQualified(t, package, d)
<1>1. m \in DOMAIN t /\ t[m].kind \in {"function", "method", "type", "var"}
  BY DEF GoDeclarations
<1>2. d \in GoScopes(t, m)
  BY DEF Owners, GoScopes, is_scope
<1>3. t[m].kind = "type"
  <2>1. t[m].kind \notin {"function", "method"}
    BY <1>1, NothingOwnsTheTop
  <2>2. t[m].kind # "var"
    BY <1>2 DEF GoDeclarations
  <2> QED
    BY <1>1, <2>1, <2>2
<1>4. d \in DOMAIN t
  BY <1>1, GoOwnersAre
<1>5. /\ Len(GoQualified(t, package, d)) < Len(GoQualified(t, package, m))
      /\ Len(GoQualified(t, package, d)) \in Nat
  BY <1>1, <1>3, <1>4, GoNamesGrowInwards, GoNamesAre, LenProperties
<1> DEFINE x == GoQualified(t, package, d)
           y == GoQualified(t, package, m)
<1>6. Len(x) < Len(y) /\ Len(x) \in Nat
  BY <1>5
<1> HIDE DEF x, y
<1>7. y # x
  <2> SUFFICES ASSUME y = x PROVE FALSE
    OBVIOUS
  <2>1. Len(y) = Len(x)
    BY Zenon
  <2> QED
    BY <1>6, <2>1
<1> QED
  BY <1>7 DEF x, y

LEMMA GoRowsFit ==
  ASSUME NEW file, LangOf(file) = "go", WellFormed(source[file].tree), GoTopLevel(source[file].tree),
         source[file].package \in STRING
  PROVE  RowsFit(file, Rows(file))
<1> DEFINE t == source[file].tree
           package == source[file].package
           Q(i) == GoQualified(t, package, i)
           parsed == GoFile(file)
<1>1. Rows(file) = Inserted(file, parsed)
  BY DEF Rows, Extracted
<1>2. ASSUME NEW s \in parsed.symbols
      PROVE  /\ s.file = file /\ s.at \in Nat
             /\ \/ s.at \in GoDeclarations(t) /\ s.qualified = Q(s.at)
                \/ s.at = 0 /\ s.qualified = <<package>>
  <2>1. PICK g \in GoSymbols(t, package) : s = Symbol(file, g.at, g.name, g.qualified, g.kind, g.exported)
    BY DEF GoFile
  <2>2. \/ g.at \in GoDeclarations(t) /\ g.qualified = Q(g.at)
        \/ g.at = 0 /\ g.qualified = <<package>>
    <3> DEFINE declared == {[at |-> i, name |-> t[i].name, qualified |-> GoQualified(t, package, i),
                             kind |-> GoKindOf(t[i]), exported |-> t[i].name \in Capitalized] :
                              i \in GoDeclarations(t)}
               clause == [at |-> 0, name |-> package, qualified |-> <<package>>, kind |-> "module",
                          exported |-> package \in Capitalized]
    <3>1. g \in declared \/ g = clause
      <4>1. CASE package = ""
        BY <4>1 DEF GoSymbols
      <4>2. CASE package # ""
        BY <4>2 DEF GoSymbols
      <4> QED
        BY <4>1, <4>2
    <3>2. CASE g \in declared
      BY <3>2
    <3>3. CASE g = clause
      BY <3>3
    <3> QED
      BY <3>1, <3>2, <3>3
  <2>3. g.at \in Nat
    <3>1. GoDeclarations(t) \subseteq Nat
      BY TreeIsSequence DEF GoDeclarations
    <3> QED
      BY <2>2, <3>1
  <2> HIDE DEF Q
  <2> QED
    BY <2>1, <2>2, <2>3 DEF Symbol
<1>3. \A i \in GoDeclarations(t) : \E s \in parsed.symbols : s.at = i /\ s.qualified = Q(i)
  <2> SUFFICES ASSUME NEW i \in GoDeclarations(t)
               PROVE  \E s \in parsed.symbols : s.at = i /\ s.qualified = Q(i)
    OBVIOUS
  <2> DEFINE g == [at |-> i, name |-> t[i].name, qualified |-> Q(i),
                   kind |-> GoKindOf(t[i]), exported |-> t[i].name \in Capitalized]
             s == Symbol(file, g.at, g.name, g.qualified, g.kind, g.exported)
  <2>1. g \in GoSymbols(t, package)
    BY DEF GoSymbols
  <2>2. s \in parsed.symbols
    BY <2>1 DEF GoFile
  <2>3. s.at = i /\ s.qualified = Q(i)
    BY DEF Symbol
  <2> QED
    BY <2>2, <2>3
<1>4. ASSUME NEW q \in parsed.refs
      PROVE  \E i \in DOMAIN t : \E kind, called, path, blocked, owner :
               /\ q = Ref(file, i, kind, called, path, blocked, owner)
               /\ owner = IF Owners(t, i) = {} THEN <<>> ELSE Q(Max(Owners(t, i)))
  <2>1. CASE \E i \in Calls(t) : q = Ref(file, i, "call", t[i].name, GoPath(t, package, i),
                                          GoBlocked(t, package, i), GoOwner(t, package, i))
    <3>1. PICK i \in Calls(t) : q = Ref(file, i, "call", t[i].name, GoPath(t, package, i),
                                          GoBlocked(t, package, i), GoOwner(t, package, i))
      BY <2>1
    <3>2. i \in DOMAIN t
      BY DEF Calls
    <3>3. GoOwner(t, package, i) = IF Owners(t, i) = {} THEN <<>> ELSE Q(Max(Owners(t, i)))
      BY DEF GoOwner
    <3> HIDE DEF Q
    <3> QED
      BY <3>1, <3>2, <3>3
  <2>2. CASE \E i \in Imports(t) : \E path : q = Ref(file, i, "import", t[i].path, path, "", <<>>)
    <3>1. PICK i, path : i \in Imports(t) /\ q = Ref(file, i, "import", t[i].path, path, "", <<>>)
      BY <2>2
    <3>2. i \in DOMAIN t
      BY <3>1 DEF Imports
    <3>3. Owners(t, i) = {}
      BY <3>1, <3>2, NothingOwnsTheTop
    <3> HIDE DEF Q
    <3> QED
      BY <3>1, <3>2, <3>3
  <2> QED
    BY <2>1, <2>2 DEF GoFile
<1> HIDE DEF parsed
<1>5. ASSUME NEW i \in DOMAIN t, NEW owner,
             owner = IF Owners(t, i) = {} THEN <<>> ELSE Q(Max(Owners(t, i)))
      PROVE  InSymbol(file, parsed.symbols, i, owner) = Max({0} \cup Owners(t, i))
  <2>1. i \in Nat /\ Owners(t, i) \subseteq 1 .. i - 1 /\ Owners(t, i) \subseteq DOMAIN t
    BY GoOwnersAre
  <2>2. \A s \in parsed.symbols : s.at \in Nat
    BY <1>2
  <2>3. \A j \in DOMAIN t : Len(Q(j)) > 1
    BY GoNamesAre
  <2>4. Len(<<package>>) = 1
    OBVIOUS
  <2>5. Owners(t, i) \subseteq Nat
    BY <2>1
  <2>6. CASE Owners(t, i) = {}
    <3>1. \A s \in parsed.symbols : s.qualified # owner
      <4> SUFFICES ASSUME NEW s \in parsed.symbols, s.qualified = <<>> PROVE FALSE
        BY <1>5, <2>6
      <4>1. s.qualified \in {<<package>>} \cup {Q(j) : j \in DOMAIN t}
        BY <1>2 DEF GoDeclarations
      <4> HIDE DEF Q
      <4>2. Len(s.qualified) # 0
        BY <2>3, <2>4, <4>1
      <4> QED
        BY <4>2
    <3>2. InSymbol(file, parsed.symbols, i, owner) = 0
      BY <2>1, <2>2, <3>1, InSymbolIs
    <3>3. IsInnermost(Owners(t, i), 0)
      BY <2>6 DEF IsInnermost
    <3> QED
      BY <2>5, <3>2, <3>3, InnermostIsMax
  <2>7. CASE Owners(t, i) # {}
    <3> DEFINE d == Max(Owners(t, i))
    <3>1. d \in Owners(t, i) /\ \A a \in Owners(t, i) : a <= d
      BY <2>7, GoOwnersAre
    <3>2. Max({0} \cup Owners(t, i)) = d
      <4> HIDE DEF d
      <4>1. IsInnermost(Owners(t, i), d)
        BY <2>7, <3>1 DEF IsInnermost
      <4> QED
        BY <2>5, <4>1, InnermostIsMax
    <3>3. /\ d \in DOMAIN t /\ d \in Nat /\ d # 0 /\ d < i /\ i <= t[d].last /\ t[d].last \in Nat
          /\ t[d].kind \in {"function", "method", "type"} /\ d \in GoDeclarations(t)
      <4>1. d \in DOMAIN t /\ d \in 1 .. i - 1
        BY <2>1, <3>1
      <4>2. i <= t[d].last /\ t[d].kind \in {"function", "method", "type"}
        BY <3>1 DEF Owners, Ancestors
      <4> HIDE DEF d
      <4> QED
        BY <2>1, <4>1, <4>2, NodeFields DEF GoDeclarations
    <3>4. owner = Q(d)
      BY <1>5, <2>7
    <3> HIDE DEF d
    <3>5. ASSUME NEW s \in parsed.symbols, s.qualified = owner, s.at <= i PROVE s.at <= d
      <4>1. SUFFICES ASSUME d < s.at PROVE FALSE
        BY <2>2, <3>3
      <4>2. s.at \in GoDeclarations(t) /\ Q(s.at) = Q(d)
        BY <1>2, <3>3, <3>4, <3>5, <4>1
      <4>3. s.at \in DOMAIN t /\ s.at \in Nat /\ d \in 1 .. s.at - 1 /\ s.at <= t[d].last
        BY <2>1, <2>2, <3>3, <3>5, <4>1, <4>2 DEF GoDeclarations
      <4>4. d \in Owners(t, s.at)
        BY <3>3, <4>3 DEF Owners, Ancestors
      <4> QED
        BY <4>2, <4>4, GoNamesakesAreOutside
    <3>6. \E s \in parsed.symbols : s.qualified = owner /\ s.at = d
      BY <1>3, <3>3, <3>4
    <3>7. d <= i /\ End(t, d) > i /\ End(t, d) \in Nat
      BY <2>1, <3>3 DEF End
    <3>8. InSymbol(file, parsed.symbols, i, owner) = d
      BY <2>1, <2>2, <3>3, <3>5, <3>6, <3>7, InSymbolIs
    <3> QED
      BY <3>2, <3>8
  <2> QED
    BY <2>6, <2>7
<1>6. ASSUME NEW r \in Rows(file).refs
      PROVE  r.file = file /\ r.at \in DOMAIN t /\ r.owner = Max({0} \cup Owners(t, r.at))
  <2>1. PICK q \in parsed.refs : r = [q EXCEPT !.owner = InSymbol(file, parsed.symbols, q.at, q.owner)]
    BY <1>1 DEF Inserted
  <2>8. PICK i \in DOMAIN t : \E kind, called, path, blocked, owner :
          /\ q = Ref(file, i, kind, called, path, blocked, owner)
          /\ owner = IF Owners(t, i) = {} THEN <<>> ELSE Q(Max(Owners(t, i)))
    BY <1>4
  <2>2. PICK kind, called, path, blocked, owner :
          /\ q = Ref(file, i, kind, called, path, blocked, owner)
          /\ owner = IF Owners(t, i) = {} THEN <<>> ELSE Q(Max(Owners(t, i)))
    BY <2>8
  <2>3. q.at = i /\ q.owner = owner
    BY <2>2 DEF Ref
  <2> DEFINE o == InSymbol(file, parsed.symbols, q.at, q.owner)
  <2>5. o = Max({0} \cup Owners(t, i))
    BY <1>5, <2>2, <2>3
  <2> HIDE DEF o
  <2>6. r = [q EXCEPT !.owner = o]
    BY <2>1 DEF o
  <2>4. r = Ref(file, i, kind, called, path, blocked, o)
    BY <2>2, <2>6, OwnerReplaced
  <2>7. r.owner = Max({0} \cup Owners(t, i)) /\ r.file = file /\ r.at = i
    BY <2>4, <2>5 DEF Ref
  <2> QED
    BY <2>7
<1>7. ASSUME NEW s \in Rows(file).symbols
      PROVE  s.file = file /\ s.qualified # <<>>
  <2>1. s \in parsed.symbols
    BY <1>1 DEF Inserted
  <2>2. s.file = file /\ s.qualified \in {<<package>>} \cup {Q(j) : j \in DOMAIN t}
    BY <1>2, <2>1 DEF GoDeclarations
  <2>3. \A j \in DOMAIN t : Len(Q(j)) > 1
    BY GoNamesAre
  <2> HIDE DEF Q
  <2>4. Len(s.qualified) # 0
    BY <2>2, <2>3
  <2> QED
    BY <2>2, <2>4
<1> QED
  BY <1>6, <1>7 DEF RowsFit, Owners

\* TypeOK and OwnersAreInnermost rest on the trees of the program.
SourceIsProgram == IsProgram(source)

LEMMA RowsAreFit ==
  ASSUME SourceIsProgram, NEW file \in DOMAIN source
  PROVE  RowsFit(file, Rows(file))
<1>1. /\ WellFormed(source[file].tree) /\ source[file].package \in STRING
      /\ LangOf(file) = "go" => GoTopLevel(source[file].tree)
  BY DEF SourceIsProgram, IsProgram, WellFormed
<1> QED
  BY <1>1, GoRowsFit, ScopedRowsFit

\* What is stored fits the files.
RowsStored ==
  /\ \A s \in symbols : s.file \in DOMAIN source /\ s.qualified # <<>>
  /\ \A r \in refs : r.file \in DOMAIN source /\ r.at \in DOMAIN source[r.file].tree
  /\ OwnersAreInnermost

LEMMA InitIsProgram == Init => SourceIsProgram /\ RowsStored
  BY ProgramAssumption DEF Init, SourceIsProgram, RowsStored, OwnersAreInnermost

\* The rows are those of one step, and no later one changes them.
LEMMA RowsStayStored == SourceIsProgram /\ RowsStored /\ [Next]_vars => SourceIsProgram' /\ RowsStored'
<1> SUFFICES ASSUME SourceIsProgram, RowsStored, [Next]_vars
             PROVE  SourceIsProgram' /\ RowsStored'
  OBVIOUS
<1>1. source' = source
  BY DEF Next, StoreRows, ResolveImports, ResolveCalls, vars
<1>2. SourceIsProgram'
  BY <1>1 DEF SourceIsProgram
<1>3. CASE StoreRows
  <2>1. ASSUME NEW s \in symbols'
        PROVE  /\ s.file \in DOMAIN source /\ s.qualified # <<>>
               /\ LangOf(s.file) # "go" => s.qualified = Append(Around(source[s.file].tree, s.at), s.name)
    <3>1. PICK f \in DOMAIN source : s \in Rows(f).symbols
      BY <1>3, <2>1 DEF StoreRows
    <3> QED
      BY <3>1, RowsAreFit DEF RowsFit
  <2>2. ASSUME NEW r \in refs'
        PROVE  /\ r.file \in DOMAIN source /\ r.at \in DOMAIN source[r.file].tree
               /\ r.owner = Max({0} \cup {a \in Ancestors(source[r.file].tree, r.at) :
                        IF LangOf(r.file) = "go"
                        THEN source[r.file].tree[a].kind \in {"function", "method", "type"}
                        ELSE a \in Definitions(source[r.file].tree)})
    <3>1. PICK f \in DOMAIN source : r \in Rows(f).refs
      BY <1>3, <2>2 DEF StoreRows
    <3>2. RowsFit(f, Rows(f))
      BY RowsAreFit
    <3>3. r.file = f
      BY <3>1, <3>2 DEF RowsFit
    <3> QED
      BY <3>1, <3>2, <3>3 DEF RowsFit
  <2> QED
    BY <1>1, <1>2, <2>1, <2>2 DEF RowsStored, OwnersAreInnermost
<1>4. CASE ~StoreRows
  <2>1. symbols' = symbols /\ refs' = refs
    BY <1>4 DEF Next, ResolveImports, ResolveCalls, vars
  <2> QED
    BY <1>1, <1>2, <2>1 DEF RowsStored, OwnersAreInnermost
<1> QED
  BY <1>3, <1>4

\* OwnersAreInnermost holds for any program of well-formed trees.
THEOREM OwnersAreRight == Spec => []OwnersAreInnermost
<1>1. SourceIsProgram /\ RowsStored => OwnersAreInnermost
  BY DEF RowsStored
<1> QED
  BY <1>1, InitIsProgram, RowsStayStored, PTL DEF Spec
-----------------------------------------------------------------------------
(***************************************************************************)
(* The types: import targets are indexed files, edges lead to stored rows. *)
(***************************************************************************)

LEMMA ImportTargetIsIndexed ==
  ASSUME NEW row
  PROVE  ImportTarget(row).file \in DOMAIN source \cup {NoFile}
<1> DEFINE target == ImportTarget(row)
<1>1. ASSUME NEW modules, NEW project, NEW specifier
      PROVE  resolve_go(source, modules, project, specifier).file \in DOMAIN source \cup {NoFile}
  <2> DEFINE files == Members(source, project, project \o Tail(specifier))
             found == resolve_go(source, modules, project, specifier)
  <2>1. ASSUME found.file # NoFile PROVE files # {} /\ found.file = Representative(files)
    BY <2>1 DEF resolve_go, Unresolved, Target
  <2>2. files \subseteq DOMAIN source
    BY DEF Members
  <2>3. files # {} => Representative(files) \in files
    BY RepresentativeIsMember
  <2> HIDE DEF files, found
  <2>4. found.file \in DOMAIN source \cup {NoFile}
    BY <2>1, <2>2, <2>3
  <2> QED
    BY <2>4 DEF found
<1>2. ASSUME NEW files, NEW file PROVE resolve_path(files, file, row).file \in files \cup {NoFile}
  <2> DEFINE found == Indexed(files, file, Candidates(file, row))
  <2>1. found \subseteq files
    BY DEF Indexed
  <2> HIDE DEF found
  <2>2. OnlyOf(found).file \in files \cup {NoFile}
    BY <2>1 DEF OnlyOf, Unresolved, Target
  <2> QED
    BY <2>2 DEF resolve_path, Unresolved, Target, found
<1>3. Unresolved("ignored_go_file").file = NoFile /\ Unresolved(row.blocked).file = NoFile
  BY DEF Unresolved, Target
<1> QED
  BY <1>1, <1>2, <1>3 DEF ImportTarget

\* A link leads to a stored row; what is not linked has no confidence.
Links(result) ==
  \/ result.target = NoSymbol /\ result.confidence = "none"
  \/ /\ \E s \in symbols : result.target = IdOf(s)
     /\ result.confidence # "none"

LEMMA NoLinkLinks == \A why : Links(NoLink(why))
  BY DEF Links, NoLink, Result

LEMMA ResultLinks ==
  ASSUME NEW s \in symbols, NEW from, NEW to, NEW why
  PROVE  Links(Result(IdOf(s), Confidence(from, to), why))
<1>1. Confidence(from, to) # "none"
  BY DEF Confidence
<1> QED
  BY <1>1 DEF Links, Result

LEMMA ScopedCallLinks ==
  ASSUME NEW row
  PROVE  Links(resolve_call(symbols, imports, row))
<1> DEFINE found == ids(symbols, imports, row)
           symbol == CHOOSE s \in found : TRUE
<1>1. found \subseteq symbols
  <2>1. /\ \A file, name : ExportedBy(symbols, file, name) \subseteq symbols
        /\ \A project, path : RustSymbols(symbols, project, path) \subseteq symbols
        /\ \A file, path : QualifiedIn(symbols, file, path) \subseteq symbols
    BY DEF ExportedBy, RustSymbols, QualifiedIn
  <2> QED
    BY <2>1 DEF ids
<1>2. resolve_call(symbols, imports, row)
        = IF OneCandidate(found)
          THEN Result(IdOf(symbol), Confidence(row.file, symbol.file), reason(found, row))
          ELSE NoLink(reason(found, row))
  BY DEF resolve_call
<1>3. OneCandidate(found) => symbol \in symbols
  <2>1. OneCandidate(found) => found # {}
    BY FS_EmptySet DEF OneCandidate
  <2> HIDE DEF found
  <2> QED
    BY <1>1, <2>1
<1> HIDE DEF found, symbol
<1>4. CASE OneCandidate(found)
  BY <1>2, <1>3, <1>4, ResultLinks
<1>5. CASE ~OneCandidate(found)
  BY <1>2, <1>5, NoLinkLinks
<1> QED
  BY <1>4, <1>5

LEMMA FunctionLinks ==
  ASSUME NEW row, NEW package, NEW name, NEW evidence
  PROVE  Links(FunctionOf(symbols, row, package, name, evidence))
<1> DEFINE found == InContext(PackageSymbols(symbols, package, name), row, evidence)
           symbol == CHOOSE s \in found : TRUE
<1>1. found \subseteq symbols
  BY DEF InContext, PackageSymbols, GoRows
<1>2. \/ \E why : FunctionOf(symbols, row, package, name, evidence) = NoLink(why)
      \/ /\ found # {}
         /\ FunctionOf(symbols, row, package, name, evidence)
              = Result(IdOf(symbol), Confidence(row.file, symbol.file), evidence)
  BY DEF FunctionOf
<1> HIDE DEF found
<1>3. found # {} => symbol \in symbols
  BY <1>1
<1> HIDE DEF symbol
<1> QED
  BY <1>2, <1>3, NoLinkLinks, ResultLinks

LEMMA GoCallLinks ==
  ASSUME NEW row
  PROVE  Links(resolve_go_call(symbols, imports, row))
<1>1. Links(DirectCall(symbols, imports, row))
  BY FunctionLinks, NoLinkLinks DEF DirectCall
<1>2. Links(SelectorCall(symbols, imports, row))
  BY FunctionLinks, NoLinkLinks DEF SelectorCall
<1> QED
  BY <1>1, <1>2, NoLinkLinks DEF resolve_go_call

\* Links are made of rows that are stored before.
EdgesLinked ==
  /\ \A r \in DOMAIN imports :
       r \in refs /\ r.kind = "import" /\ imports[r].file \in DOMAIN source \cup {NoFile}
  /\ \A r \in DOMAIN edges : r \in refs /\ r.kind = "call" /\ Links(edges[r])

LEMMA EdgesStayLinked == EdgesLinked /\ [Next]_vars => EdgesLinked'
<1> SUFFICES ASSUME EdgesLinked, [Next]_vars
             PROVE  EdgesLinked'
  OBVIOUS
<1>1. CASE StoreRows
  BY <1>1 DEF StoreRows, EdgesLinked
<1>2. CASE ResolveImports
  <2>1. ASSUME NEW r \in DOMAIN imports'
        PROVE  r \in refs /\ r.kind = "import" /\ imports'[r].file \in DOMAIN source \cup {NoFile}
    <3>1. r \in ImportRows /\ imports'[r] = ImportTarget(r)
      BY <1>2 DEF ResolveImports
    <3> QED
      BY <3>1, ImportTargetIsIndexed DEF ImportRows
  <2> QED
    BY <1>2, <2>1 DEF ResolveImports, EdgesLinked, Links
<1>3. CASE ResolveCalls
  <2>1. ASSUME NEW r \in DOMAIN edges'
        PROVE  r \in refs /\ r.kind = "call" /\ Links(edges'[r])
    <3>1. /\ r \in CallRows
          /\ edges'[r] = IF LangOf(r.file) = "go" THEN resolve_go_call(symbols, imports, r)
                                                  ELSE resolve_call(symbols, imports, r)
      BY <1>3 DEF ResolveCalls
    <3> QED
      BY <3>1, GoCallLinks, ScopedCallLinks DEF CallRows
  <2> QED
    BY <1>3, <2>1 DEF ResolveCalls, EdgesLinked, Links
<1>4. CASE UNCHANGED vars
  BY <1>4 DEF vars, EdgesLinked, Links
<1> QED
  BY <1>1, <1>2, <1>3, <1>4 DEF Next

LEMMA TypesFollow == SourceIsProgram /\ RowsStored /\ EdgesLinked => TypeOK
<1> SUFFICES ASSUME SourceIsProgram, RowsStored, EdgesLinked PROVE TypeOK
  OBVIOUS
<1>1. \A f \in DOMAIN source : IsTree(source[f].tree) /\ source[f].errors \in BOOLEAN /\ f # NoFile
  BY DEF SourceIsProgram, IsProgram
<1>2. ASSUME NEW s \in symbols PROVE IdOf(s) # NoSymbol
  <2>1. s.file # NoFile
    BY <1>1 DEF RowsStored
  <2> QED
    BY <2>1 DEF IdOf, NoSymbol
<1>3. ASSUME NEW r \in DOMAIN edges
      PROVE  /\ r \in refs /\ r.kind = "call"
             /\ edges[r].target \in {IdOf(s) : s \in symbols} \cup {NoSymbol}
             /\ edges[r].confidence = "none" <=> edges[r].target = NoSymbol
  <2>1. r \in refs /\ r.kind = "call" /\ Links(edges[r])
    BY DEF EdgesLinked
  <2>2. CASE edges[r].target = NoSymbol /\ edges[r].confidence = "none"
    BY <2>1, <2>2
  <2>3. CASE (\E s \in symbols : edges[r].target = IdOf(s)) /\ edges[r].confidence # "none"
    BY <1>2, <2>1, <2>3
  <2> QED
    BY <2>1, <2>2, <2>3 DEF Links
<1>4. /\ \A s \in symbols : s.file \in DOMAIN source /\ s.qualified # <<>>
      /\ \A r \in refs : r.file \in DOMAIN source /\ r.at \in DOMAIN source[r.file].tree
      /\ \A r \in DOMAIN imports : r.kind = "import" /\ imports[r].file \in DOMAIN source \cup {NoFile}
  BY DEF RowsStored, EdgesLinked
<1> QED
  BY <1>1, <1>3, <1>4 DEF TypeOK

\* TypeOK holds for any program of well-formed trees.
THEOREM TypeCorrectness == Spec => []TypeOK
<1>1. Init => EdgesLinked
  BY DEF Init, NotYet, EdgesLinked
<1> QED
  BY <1>1, InitIsProgram, RowsStayStored, EdgesStayLinked, TypesFollow, PTL DEF Spec
-----------------------------------------------------------------------------
(***************************************************************************)
(* Go calls.  What GoMeaning reads off the trees is found again in the     *)
(* rows: the declarations of a package, its clauses, and the imports.      *)
(***************************************************************************)
\* All that was extracted is stored.
Stored ==
  /\ symbols = UNION {Rows(f).symbols : f \in DOMAIN source}
  /\ refs = UNION {Rows(f).refs : f \in DOMAIN source}

Tree(f) == source[f].tree

\* The row of the declaration at node i, and that of the clause.
Declaration(f, i) ==
  Symbol(f, i, Tree(f)[i].name, GoQualified(Tree(f), source[f].package, i), GoKindOf(Tree(f)[i]),
         Tree(f)[i].name \in Capitalized)

Clause(f) ==
  Symbol(f, 0, source[f].package, <<source[f].package>>, "module", source[f].package \in Capitalized)

\* The symbol rows of a Go file: its declarations and its package clause.
LEMMA GoSymbolRows ==
  ASSUME NEW f, LangOf(f) = "go"
  PROVE  /\ \A s \in Rows(f).symbols :
              \/ \E i \in GoDeclarations(Tree(f)) : s = Declaration(f, i)
              \/ source[f].package # "" /\ s = Clause(f)
         /\ \A i \in GoDeclarations(Tree(f)) : Declaration(f, i) \in Rows(f).symbols
         /\ source[f].package # "" => Clause(f) \in Rows(f).symbols
<1> DEFINE t == Tree(f)
           package == source[f].package
           row(i) == [at |-> i, name |-> t[i].name, qualified |-> GoQualified(t, package, i),
                      kind |-> GoKindOf(t[i]), exported |-> t[i].name \in Capitalized]
           clause == [at |-> 0, name |-> package, qualified |-> <<package>>, kind |-> "module",
                      exported |-> package \in Capitalized]
           stored(s) == Symbol(f, s.at, s.name, s.qualified, s.kind, s.exported)
<1>1. Rows(f).symbols = {stored(s) : s \in GoSymbols(t, package)}
  BY DEF Rows, Inserted, Extracted, GoFile, Tree
<1>2. \A s : s \in GoSymbols(t, package) <=>
        (\E i \in GoDeclarations(t) : s = row(i)) \/ (package # "" /\ s = clause)
  BY DEF GoSymbols
<1>3. \A i : stored(row(i)) = Declaration(f, i)
  BY DEF Symbol, Declaration
<1>4. stored(clause) = Clause(f)
  BY DEF Symbol, Clause
<1> HIDE DEF stored, row, clause, t, package
<1>5. \A s \in Rows(f).symbols :
         \/ \E i \in GoDeclarations(t) : s = Declaration(f, i)
         \/ package # "" /\ s = Clause(f)
  <2> SUFFICES ASSUME NEW s \in Rows(f).symbols
               PROVE  (\E i \in GoDeclarations(t) : s = Declaration(f, i)) \/ (package # "" /\ s = Clause(f))
    OBVIOUS
  <2>1. PICK x \in GoSymbols(t, package) : s = stored(x)
    BY <1>1
  <2>2. CASE \E i \in GoDeclarations(t) : x = row(i)
    BY <1>3, <2>1, <2>2
  <2>3. CASE package # "" /\ x = clause
    BY <1>4, <2>1, <2>3
  <2> QED
    BY <1>2, <2>2, <2>3
<1>6. \A i \in GoDeclarations(t) : Declaration(f, i) \in Rows(f).symbols
  BY <1>1, <1>2, <1>3
<1>7. package # "" => Clause(f) \in Rows(f).symbols
  BY <1>1, <1>2, <1>4
<1> QED
  BY <1>5, <1>6, <1>7 DEF t, package

\* The row of the import at node i.
AliasRow(f, i) == IF Tree(f)[i].name = "" THEN <<>> ELSE <<Tree(f)[i].name>>

ImportRow(f, i) ==
  Ref(f, i, "import", Tree(f)[i].path, AliasRow(f, i), "", InSymbol(f, GoFile(f).symbols, i, <<>>))

IsCallRow(f, i, r) ==
  LET t == Tree(f)
  IN  /\ i \in Calls(t) /\ r.file = f /\ r.at = i /\ r.kind = "call" /\ r.name = t[i].name
      /\ r.path = GoPath(t, source[f].package, i) /\ r.blocked = GoBlocked(t, source[f].package, i)

\* The reference rows of a Go file: its calls and its imports.
LEMMA GoRefRows ==
  ASSUME NEW f, LangOf(f) = "go"
  PROVE  /\ \A r \in Rows(f).refs :
              \/ \E i \in Calls(Tree(f)) : IsCallRow(f, i, r)
              \/ \E i \in Imports(Tree(f)) : r = ImportRow(f, i)
         /\ \A i \in Imports(Tree(f)) : ImportRow(f, i) \in Rows(f).refs
<1> DEFINE t == Tree(f)
           package == source[f].package
           call(i) == Ref(f, i, "call", t[i].name, GoPath(t, package, i), GoBlocked(t, package, i),
                          GoOwner(t, package, i))
           import(i) == Ref(f, i, "import", t[i].path, AliasRow(f, i), "", <<>>)
           owner(r) == InSymbol(f, GoFile(f).symbols, r.at, r.owner)
           stored(r) == [r EXCEPT !.owner = owner(r)]
<1>1. GoFile(f).refs = {call(i) : i \in Calls(t)} \cup {import(i) : i \in Imports(t)}
  BY DEF GoFile, Tree, AliasRow
<1>2. Rows(f).refs = {stored(r) : r \in GoFile(f).refs}
  BY DEF Rows, Inserted, Extracted
<1>3. ASSUME NEW i \in Calls(t) PROVE IsCallRow(f, i, stored(call(i)))
  <2>1. stored(call(i)) = Ref(f, i, "call", t[i].name, GoPath(t, package, i), GoBlocked(t, package, i),
                              owner(call(i)))
    <3> DEFINE o == owner(call(i))
    <3> HIDE DEF o
    <3> QED
      BY OwnerReplaced DEF o
  <2> HIDE DEF stored, owner
  <2> QED
    BY <2>1 DEF IsCallRow, Ref
<1>4. ASSUME NEW i \in Imports(t) PROVE stored(import(i)) = ImportRow(f, i)
  <2>1. stored(import(i)) = Ref(f, i, "import", t[i].path, AliasRow(f, i), "", owner(import(i)))
    <3> DEFINE o == owner(import(i))
    <3>1. stored(import(i)) = [Ref(f, i, "import", t[i].path, AliasRow(f, i), "", <<>>) EXCEPT !.owner = o]
      OBVIOUS
    <3> HIDE DEF o, stored, import
    <3>2. stored(import(i)) = Ref(f, i, "import", t[i].path, AliasRow(f, i), "", o)
      BY <3>1 DEF Ref
    <3> QED
      BY <3>2 DEF o
  <2>2. import(i).at = i /\ import(i).owner = <<>>
    BY DEF Ref
  <2> QED
    BY <2>1, <2>2 DEF ImportRow
<1> HIDE DEF stored, call, import
<1>5. \A r \in Rows(f).refs : (\E i \in Calls(t) : IsCallRow(f, i, r)) \/ \E i \in Imports(t) : r = ImportRow(f, i)
  BY <1>1, <1>2, <1>3, <1>4
<1>6. \A i \in Imports(t) : ImportRow(f, i) \in Rows(f).refs
  BY <1>1, <1>2, <1>4
<1> QED
  BY <1>5, <1>6

\* What is stored of a file is what was extracted from it.
LEMMA RowsOfFiles ==
  ASSUME SourceIsProgram, Stored
  PROVE  /\ \A s \in symbols : s.file \in DOMAIN source /\ s \in Rows(s.file).symbols
         /\ \A r \in refs : r.file \in DOMAIN source /\ r \in Rows(r.file).refs
         /\ \A f \in DOMAIN source : Rows(f).symbols \subseteq symbols /\ Rows(f).refs \subseteq refs
<1>1. \A f \in DOMAIN source : /\ \A s \in Rows(f).symbols : s.file = f
                               /\ \A r \in Rows(f).refs : r.file = f
  BY RowsAreFit DEF RowsFit
<1>2. /\ \A s : s \in symbols <=> \E f \in DOMAIN source : s \in Rows(f).symbols
      /\ \A r : r \in refs <=> \E f \in DOMAIN source : r \in Rows(f).refs
  BY DEF Stored
<1> QED
  BY <1>1, <1>2
-----------------------------------------------------------------------------
(* Declarations of a package *)

\* What is called like a member of its package: what belongs to it, and what is
\* misnamed.
Member(t, i) ==
  /\ i \in GoDeclarations(t)
  /\ \/ t[i].kind \in {"function", "var"}
     \/ t[i].kind = "type" /\ Owners(t, i) = {}
     \/ t[i].kind = "method" /\ t[i].of = ""

LEMMA TwoElements ==
  ASSUME NEW S, NEW x \in S, NEW y \in S, NEW one \in Seq(S), Len(one) = 1, one[1] = x
  PROVE  Append(one, y) = <<x, y>>
<1> DEFINE both == Append(one, y)
<1>1. both \in Seq(S)
  BY AppendProperties
<1>2. Len(both) = Len(one) + 1
  BY AppendProperties
<1>3. \A k \in 1 .. Len(one) : both[k] = one[k]
  BY AppendProperties
<1>4. both[Len(one) + 1] = y
  BY AppendProperties
<1> HIDE DEF both
<1>5. 1 \in 1 .. Len(one)
  OBVIOUS
<1>6. Len(both) = 2 /\ both[1] = x /\ both[2] = y
  BY <1>2, <1>3, <1>4, <1>5
<1>7. both = <<x, y>>
  BY <1>1, <1>6
<1> QED
  BY <1>7 DEF both

\* A package and a name in it, as GoQualified puts them together.
LEMMA TwoNames == \A x, y \in STRING : Append(<<x>>, y) = <<x, y>>
<1> SUFFICES ASSUME NEW x \in STRING, NEW y \in STRING PROVE Append(<<x>>, y) = <<x, y>>
  OBVIOUS
<1> DEFINE one == <<x>>
<1>1. one \in Seq(STRING) /\ Len(one) = 1 /\ one[1] = x
  BY OneName
<1> HIDE DEF one
<1>2. Append(one, y) = <<x, y>>
  BY <1>1, TwoElements
<1> QED
  BY <1>2 DEF one

\* The name of a member says its package and its name; no other name does.
LEMMA QualifiedMembers ==
  ASSUME NEW t, WellFormed(t), NEW package \in STRING, NEW i \in GoDeclarations(t), NEW q, NEW x
  PROVE  GoQualified(t, package, i) = <<q, x>> <=> Member(t, i) /\ q = package /\ x = t[i].name
<1> DEFINE Q(j) == GoQualified(t, package, j)
<1>1. i \in DOMAIN t /\ t[i].kind \in {"function", "method", "type", "var"}
  BY DEF GoDeclarations
<1>2. Q(i) = GoName(t, package, i, Q(Max(Owners(t, i))))
  BY <1>1, GoQualifiedIs
<1>3. CASE t[i].kind \in {"function", "var"} \/ (t[i].kind = "method" /\ t[i].of = "")
  <2>1. Q(i) = <<package, t[i].name>>
    BY <1>2, <1>3 DEF GoName
  <2> HIDE DEF Q
  <2>2. Q(i) = <<q, x>> <=> q = package /\ x = t[i].name
    BY <2>1
  <2> QED
    BY <1>3, <2>2 DEF Member, Q
<1>4. CASE t[i].kind = "method" /\ t[i].of # ""
  <2>1. Q(i) = <<package, t[i].of, t[i].name>>
    BY <1>2, <1>4 DEF GoName
  <2> HIDE DEF Q
  <2>2. Q(i) # <<q, x>>
    BY <2>1
  <2> QED
    BY <1>4, <2>2 DEF Member, Q
<1>5. CASE t[i].kind = "type" /\ Owners(t, i) = {}
  <2>1. Q(i) = Append(<<package>>, t[i].name)
    BY <1>2, <1>5 DEF GoName
  <2>2. Append(<<package>>, t[i].name) = <<package, t[i].name>>
    BY <1>1, NodeFields, TwoNames
  <2> HIDE DEF Q
  <2>3. Q(i) = <<q, x>> <=> q = package /\ x = t[i].name
    BY <2>1, <2>2
  <2> QED
    BY <1>5, <2>3 DEF Member, Q
<1>6. CASE t[i].kind = "type" /\ Owners(t, i) # {}
  <2> DEFINE M == Max(Owners(t, i))
  <2>1. M \in DOMAIN t
    BY <1>1, <1>6, GoOwnersAre
  <2>2. Len(Q(i)) = Len(Q(M)) + 1 /\ Len(Q(M)) > 1 /\ Q(M) \in Seq(STRING)
    BY <1>1, <1>6, <2>1, GoNamesAre
  <2> HIDE DEF Q, M
  <2>3. Len(Q(M)) \in Nat /\ Len(<<q, x>>) = 2
    BY <2>2, LenProperties
  <2>4. Q(i) # <<q, x>>
    BY <2>2, <2>3
  <2> QED
    BY <1>6, <2>4 DEF Member, Q
<1> QED
  BY <1>1, <1>3, <1>4, <1>5, <1>6

\* What TopLevel looks for in one tree.
Top(t, i) == /\ i \in DOMAIN t /\ t[i].kind \in {"function", "var", "type"}
             /\ \A a \in Ancestors(t, i) : ~is_scope(t[a])

\* Members are at the top of their file unless they are misnamed.
LEMMA TopMembers ==
  ASSUME NEW t, GoTopLevel(t), NEW i
  PROVE  /\ Top(t, i) => Member(t, i)
         /\ Member(t, i) /\ t[i].kind = "function" => Top(t, i)
         /\ Member(t, i) => \/ Top(t, i)
                            \/ t[i].kind = "method" /\ t[i].of = ""
                            \/ t[i].kind = "type" /\ Owners(t, i) = {} /\ GoScopes(t, i) # {}
<1>1. Top(t, i) <=> i \in DOMAIN t /\ t[i].kind \in {"function", "var", "type"} /\ GoScopes(t, i) = {}
  BY DEF Top, GoScopes
<1>2. Owners(t, i) \subseteq GoScopes(t, i)
  BY DEF Owners, GoScopes, is_scope
<1>3. i \in DOMAIN t /\ t[i].kind \in {"function", "method"} => GoScopes(t, i) = {}
  BY DEF GoTopLevel
<1> QED
  BY <1>1, <1>2, <1>3 DEF Member, GoDeclarations

\* The files of a package, by what FunctionOf knows of it.
InPackage(f, package, tests) ==
  /\ LangOf(f) = "go" /\ ~ignored_file(f) /\ f.project = package.project
  /\ directory_of(f) = package.directory /\ (IsTest(f) => tests)

\* The rows FunctionOf looks at, and the files they are of.
Found(package, x, tests) ==
  {s \in symbols : /\ LangOf(s.file) = "go" /\ ~ignored_file(s.file)
                   /\ s.qualified = <<package.name, x>> /\ s.file.project = package.project
                   /\ directory_of(s.file) = package.directory /\ (IsTest(s.file) => tests)}

Files(package, tests) ==
  {f \in DOMAIN source : InPackage(f, package, tests) /\ source[f].package = package.name}

\* The rows that a package and a name select are its members of that name.
LEMMA FoundMembers ==
  ASSUME SourceIsProgram, Stored, NEW package, NEW x, NEW tests \in BOOLEAN
  PROVE  \A s : s \in Found(package, x, tests) <=>
           \E f \in Files(package, tests) : \E i \in DOMAIN Tree(f) :
             Member(Tree(f), i) /\ Tree(f)[i].name = x /\ s = Declaration(f, i)
<1>1. ASSUME NEW f \in DOMAIN source
      PROVE  /\ WellFormed(Tree(f)) /\ source[f].package \in STRING
             /\ LangOf(f) = "go" => GoTopLevel(Tree(f))
  BY DEF SourceIsProgram, IsProgram, WellFormed, Tree
<1>2. ASSUME NEW s \in Found(package, x, tests)
      PROVE  \E f \in Files(package, tests) : \E i \in DOMAIN Tree(f) :
               Member(Tree(f), i) /\ Tree(f)[i].name = x /\ s = Declaration(f, i)
  <2> DEFINE f == s.file
  <2>1. s \in symbols /\ InPackage(f, package, tests) /\ s.qualified = <<package.name, x>>
    BY DEF Found, InPackage
  <2>2. f \in DOMAIN source /\ s \in Rows(f).symbols
    BY <2>1, RowsOfFiles
  <2>3. \/ \E i \in GoDeclarations(Tree(f)) : s = Declaration(f, i)
        \/ s = Clause(f)
    BY <2>1, <2>2, GoSymbolRows DEF InPackage
  <2> HIDE DEF f
  <2>4. s # Clause(f)
    <3>1. Clause(f).qualified = <<source[f].package>>
      BY DEF Clause, Symbol
    <3>2. <<source[f].package>> # <<package.name, x>>
      OBVIOUS
    <3> QED
      BY <2>1, <3>1, <3>2
  <2>5. PICK i \in GoDeclarations(Tree(f)) : s = Declaration(f, i)
    BY <2>3, <2>4
  <2>6. s.qualified = GoQualified(Tree(f), source[f].package, i)
    BY <2>5 DEF Declaration, Symbol
  <2>7. Member(Tree(f), i) /\ package.name = source[f].package /\ x = Tree(f)[i].name
    <3> DEFINE t == Tree(f)
               p == source[f].package
    <3>1. GoQualified(t, p, i) = <<package.name, x>>
      BY <2>1, <2>6
    <3>2. WellFormed(t) /\ p \in STRING /\ i \in GoDeclarations(t)
      BY <1>1, <2>2
    <3> HIDE DEF t, p
    <3>3. GoQualified(t, p, i) = <<package.name, x>> <=> Member(t, i) /\ package.name = p /\ x = t[i].name
      BY <3>2, QualifiedMembers
    <3> QED
      BY <3>1, <3>3 DEF t, p
  <2>8. f \in Files(package, tests) /\ i \in DOMAIN Tree(f)
    BY <2>1, <2>2, <2>7 DEF Files, GoDeclarations
  <2> QED
    BY <2>5, <2>7, <2>8
<1>3. ASSUME NEW f \in Files(package, tests), NEW i \in DOMAIN Tree(f), Member(Tree(f), i), Tree(f)[i].name = x
      PROVE  Declaration(f, i) \in Found(package, x, tests)
  <2>1. f \in DOMAIN source /\ InPackage(f, package, tests) /\ source[f].package = package.name
    BY DEF Files
  <2>2. Declaration(f, i) \in symbols
    BY <1>3, <2>1, GoSymbolRows, RowsOfFiles DEF InPackage, Member
  <2>3. /\ Declaration(f, i).file = f
        /\ Declaration(f, i).qualified = GoQualified(Tree(f), source[f].package, i)
    BY DEF Declaration, Symbol
  <2>4. GoQualified(Tree(f), source[f].package, i) = <<package.name, x>>
    <3> DEFINE t == Tree(f)
               p == source[f].package
    <3>1. WellFormed(t) /\ p \in STRING /\ i \in GoDeclarations(t)
      BY <1>1, <1>3, <2>1 DEF Member
    <3>3. package.name = p /\ Member(t, i) /\ x = t[i].name
      BY <1>3, <2>1
    <3> HIDE DEF t, p
    <3>2. GoQualified(t, p, i) = <<package.name, x>> <=> Member(t, i) /\ package.name = p /\ x = t[i].name
      BY <3>1, QualifiedMembers
    <3> QED
      BY <3>2, <3>3 DEF t, p
  <2> QED
    BY <2>1, <2>2, <2>3, <2>4 DEF Found, InPackage
<1> QED
  BY <1>2, <1>3

\* FS_Image for a function.
LEMMA ImageIsFinite ==
  ASSUME NEW g, IsFiniteSet(DOMAIN g)
  PROVE  IsFiniteSet({g[x] : x \in DOMAIN g})
<1> DEFINE S == DOMAIN g
           T == {g[x] : x \in S}
           f == [x \in S |-> g[x]]
<1>1. f \in Surjection(S, T)
  BY DEF Surjection
<1> HIDE DEF f, T, S
<1>2. IsFiniteSet(T)
  BY <1>1, FS_Surjection DEF S
<1> QED
  BY <1>2 DEF T, S

LEMMA FoundIsFinite ==
  ASSUME SourceIsProgram, Stored, NEW package, NEW x, NEW tests \in BOOLEAN
  PROVE  IsFiniteSet(Found(package, x, tests))
<1> DEFINE files == DOMAIN source
           declared(f) == {Declaration(f, i) : i \in DOMAIN Tree(f)}
           all == [f \in files |-> declared(f)]
<1>1. IsFiniteSet(files)
  BY DEF SourceIsProgram, IsProgram
<1>2. ASSUME NEW f \in files PROVE IsFiniteSet(declared(f))
  <2> DEFINE g == [i \in DOMAIN Tree(f) |-> Declaration(f, i)]
  <2>1. WellFormed(Tree(f))
    BY DEF SourceIsProgram, IsProgram, WellFormed, Tree
  <2>2. Len(Tree(f)) \in Nat /\ DOMAIN Tree(f) = 1 .. Len(Tree(f))
    BY <2>1, TreeIsSequence
  <2>3. IsFiniteSet(DOMAIN g)
    BY <2>2, FS_Interval
  <2>4. declared(f) = {g[i] : i \in DOMAIN g}
    OBVIOUS
  <2> HIDE DEF g
  <2> QED
    BY <2>3, <2>4, ImageIsFinite
<1>3. IsFiniteSet({all[f] : f \in DOMAIN all})
  <2>1. IsFiniteSet(DOMAIN all)
    BY <1>1
  <2> HIDE DEF all
  <2> QED
    BY <2>1, ImageIsFinite
<1>4. \A T \in {all[f] : f \in DOMAIN all} : IsFiniteSet(T)
  <2> HIDE DEF declared
  <2> QED
    BY <1>2
<1>5. Found(package, x, tests) \subseteq UNION {all[f] : f \in DOMAIN all}
  <2> SUFFICES ASSUME NEW s \in Found(package, x, tests)
               PROVE  s \in UNION {all[f] : f \in DOMAIN all}
    OBVIOUS
  <2>1. PICK f \in Files(package, tests) : \E i \in DOMAIN Tree(f) : s = Declaration(f, i)
    BY FoundMembers
  <2>2. f \in files /\ s \in declared(f)
    BY <2>1 DEF Files
  <2> HIDE DEF files, declared
  <2> QED
    BY <2>2
<1> HIDE DEF all, files, declared
<1>6. IsFiniteSet(UNION {all[f] : f \in DOMAIN all})
  BY <1>3, <1>4, FS_UNION
<1> QED
  BY <1>5, <1>6, FS_Subset

LEMMA TopLevelIs ==
  ASSUME NEW files, NEW x
  PROVE  \A d : d \in TopLevel(files, x) <=>
           \E f \in files : \E i \in DOMAIN Tree(f) :
             Top(Tree(f), i) /\ Tree(f)[i].name = x /\ d = [file |-> f, at |-> i]
<1> DEFINE top(f) == {[file |-> f, at |-> d] :
                        d \in {e \in DOMAIN Tree(f) : /\ Tree(f)[e].name = x
                                       /\ Tree(f)[e].kind \in {"function", "var", "type"}
                                       /\ \A a \in Ancestors(Tree(f), e) : ~is_scope(Tree(f)[a])}}
<1>1. TopLevel(files, x) = UNION {top(f) : f \in files}
  BY DEF TopLevel, Tree
<1>2. \A f : \A d : d \in top(f) <=>
        \E i \in DOMAIN Tree(f) : Top(Tree(f), i) /\ Tree(f)[i].name = x /\ d = [file |-> f, at |-> i]
  BY DEF Top
<1> HIDE DEF top
<1>3. \A d : d \in UNION {top(f) : f \in files} <=> \E f \in files : d \in top(f)
  OBVIOUS
<1> QED
  BY <1>1, <1>2, <1>3

LEMMA FilesArePackageFiles ==
  ASSUME NEW package, NEW tests
  PROVE  PackageFiles(package.project, package.directory, package.name, tests) = Files(package, tests)
  BY DEF PackageFiles, Files, InPackage

\* The nodes called x at the top of a package, and the rows of that name.
Agree(F, T, x) ==
  /\ \A d \in T : \E s \in F : d = IdOf(s)
  /\ \A s \in F : /\ s.kind = "function" <=> source[IdOf(s).file].tree[IdOf(s).at].kind = "function"
                  /\ s.kind = "function" => IdOf(s) \in T
                  /\ s.exported <=> x \in Capitalized
                  /\ IdOf(s) \in T \/ Misnamed(x)
                  /\ IdOf(s) # NoSymbol
  /\ \A s, r \in F : IdOf(s) = IdOf(r) => s = r

\* What resolve/go.rs finds of a name and what stands at the top of the files.
LEMMA FoundAndTop ==
  ASSUME SourceIsProgram, Stored, NEW package, NEW x, NEW tests \in BOOLEAN
  PROVE  Agree(Found(package, x, tests), TopLevel(Files(package, tests), x), x)
<1> DEFINE F == Found(package, x, tests)
           T == TopLevel(Files(package, tests), x)
           kind(d) == source[d.file].tree[d.at].kind
<1>1. \A f, i : IdOf(Declaration(f, i)) = [file |-> f, at |-> i]
  BY DEF IdOf, Declaration, Symbol
<1>2. ASSUME NEW f \in Files(package, tests)
      PROVE  f \in DOMAIN source /\ LangOf(f) = "go" /\ GoTopLevel(Tree(f)) /\ f # NoFile
  BY DEF Files, InPackage, SourceIsProgram, IsProgram, Tree
<1>3. ASSUME NEW d \in T PROVE \E s \in F : d = IdOf(s)
  <2>0. PICK f \in Files(package, tests) : \E i \in DOMAIN Tree(f) :
          Top(Tree(f), i) /\ Tree(f)[i].name = x /\ d = [file |-> f, at |-> i]
    BY TopLevelIs
  <2>1. PICK i \in DOMAIN Tree(f) : Top(Tree(f), i) /\ Tree(f)[i].name = x /\ d = [file |-> f, at |-> i]
    BY <2>0
  <2>2. Member(Tree(f), i)
    BY <1>2, <2>1, TopMembers
  <2>3. Declaration(f, i) \in F
    BY <2>1, <2>2, FoundMembers
  <2> QED
    BY <1>1, <2>1, <2>3
<1>4. ASSUME NEW s \in F
      PROVE  /\ s.kind = "function" <=> kind(IdOf(s)) = "function"
             /\ s.kind = "function" => IdOf(s) \in T
             /\ s.exported <=> x \in Capitalized
             /\ IdOf(s) \in T \/ Misnamed(x)
             /\ IdOf(s) # NoSymbol
  <2>0. PICK f \in Files(package, tests) : \E i \in DOMAIN Tree(f) :
          Member(Tree(f), i) /\ Tree(f)[i].name = x /\ s = Declaration(f, i)
    BY FoundMembers
  <2>1. PICK i \in DOMAIN Tree(f) : Member(Tree(f), i) /\ Tree(f)[i].name = x /\ s = Declaration(f, i)
    BY <2>0
  <2>2. IdOf(s) = [file |-> f, at |-> i]
    BY <1>1, <2>1
  <2>3. kind(IdOf(s)) = Tree(f)[i].kind
    BY <2>2 DEF Tree
  <2>4. s.kind = GoKindOf(Tree(f)[i]) /\ (s.exported <=> x \in Capitalized)
    <3>1. s.kind = GoKindOf(Tree(f)[i])
      BY <2>1 DEF Declaration, Symbol
    <3>2. s.exported = (x \in Capitalized)
      BY <2>1 DEF Declaration, Symbol
    <3> QED
      BY <3>1, <3>2
  <2>5. s.kind = "function" <=> Tree(f)[i].kind = "function"
    BY <2>4 DEF GoKindOf
  <2>6. Top(Tree(f), i) => IdOf(s) \in T
    BY <2>1, <2>2, TopLevelIs
  <2>7. Tree(f)[i].kind = "function" => Top(Tree(f), i)
    BY <1>2, <2>1, TopMembers
  <2>8. Top(Tree(f), i) \/ Misnamed(x)
    <3>1. \/ Top(Tree(f), i)
          \/ Tree(f)[i].kind = "method" /\ Tree(f)[i].of = ""
          \/ Tree(f)[i].kind = "type" /\ Owners(Tree(f), i) = {} /\ GoScopes(Tree(f), i) # {}
      BY <1>2, <2>1, TopMembers
    <3> QED
      BY <1>2, <2>1, <3>1 DEF Misnamed, Tree
  <2>9. IdOf(s) # NoSymbol
    BY <1>2, <2>2 DEF NoSymbol
  <2> HIDE DEF kind, T
  <2> QED
    BY <2>3, <2>4, <2>5, <2>6, <2>7, <2>8, <2>9
<1>5. ASSUME NEW s \in F, NEW r \in F, IdOf(s) = IdOf(r) PROVE s = r
  <2>1. PICK f, i : s = Declaration(f, i)
    BY FoundMembers
  <2>2. PICK g, j : r = Declaration(g, j)
    BY FoundMembers
  <2>3. [file |-> f, at |-> i] = [file |-> g, at |-> j]
    BY <1>1, <1>5, <2>1, <2>2
  <2>4. f = g /\ i = j
    BY <2>3
  <2> QED
    BY <2>1, <2>2, <2>4
<1> HIDE DEF F, T, kind
<1>6. /\ \A d \in T : \E s \in F : d = IdOf(s)
      /\ \A s \in F : /\ s.kind = "function" <=> kind(IdOf(s)) = "function"
                      /\ s.kind = "function" => IdOf(s) \in T
                      /\ s.exported <=> x \in Capitalized
                      /\ IdOf(s) \in T \/ Misnamed(x)
                      /\ IdOf(s) # NoSymbol
      /\ \A s, r \in F : IdOf(s) = IdOf(r) => s = r
  BY <1>3, <1>4, <1>5
<1> QED
  BY <1>6 DEF Agree, F, T, kind
-----------------------------------------------------------------------------
\* A link leads where it should: to nothing else, and to it unless something
\* is called the same and is misnamed.
Exact(result, meant, name) ==
  LET linked == {result.target} \ {NoSymbol}
  IN  linked \subseteq meant /\ (linked = meant \/ Misnamed(name))

LEMMA NoLinkIsExact == \A why, name : Exact(NoLink(why), {}, name)
  BY DEF Exact, NoLink, Result

\* The one function of a set of rows, and of the nodes they stand for.
\* The last decision of FunctionOf.
Take(F, hidden, confidence, evidence) ==
  LET symbol == CHOOSE s \in F : TRUE
  IN  IF F = {} THEN NoLink("unknown")
      ELSE IF Cardinality(F) > 1 THEN NoLink("ambiguous")
      ELSE IF symbol.kind # "function" THEN NoLink("non_function_binding")
      ELSE IF hidden /\ ~symbol.exported THEN NoLink("unexported_symbol")
      ELSE Result(IdOf(symbol), confidence, evidence)

\* The last decision of FunctionOf is right, be there no row, one, or more.
LEMMA OneFunction ==
  ASSUME NEW F, IsFiniteSet(F), NEW T, NEW x, Agree(F, T, x),
         NEW hidden \in BOOLEAN, NEW confidence, NEW evidence
  PROVE  Exact(Take(F, hidden, confidence, evidence),
               IF hidden /\ x \notin Capitalized THEN {} ELSE OnlyFunction(T), x)
<1> DEFINE result == Take(F, hidden, confidence, evidence)
           visible == x \in Capitalized
           symbol == CHOOSE s \in F : TRUE
           kind(d) == source[d.file].tree[d.at].kind
           meant == IF hidden /\ ~visible THEN {} ELSE OnlyFunction(T)
<1>0. /\ \A d \in T : \E s \in F : d = IdOf(s)
      /\ \A s \in F : /\ s.kind = "function" <=> kind(IdOf(s)) = "function"
                      /\ s.kind = "function" => IdOf(s) \in T
                      /\ s.exported <=> visible
                      /\ IdOf(s) \in T \/ Misnamed(x)
                      /\ IdOf(s) # NoSymbol
      /\ \A s, r \in F : IdOf(s) = IdOf(r) => s = r
  BY DEF Agree
<1>9. result = IF F = {} THEN NoLink("unknown")
               ELSE IF Cardinality(F) > 1 THEN NoLink("ambiguous")
               ELSE IF symbol.kind # "function" THEN NoLink("non_function_binding")
               ELSE IF hidden /\ ~symbol.exported THEN NoLink("unexported_symbol")
               ELSE Result(IdOf(symbol), confidence, evidence)
  BY DEF Take
<1> HIDE DEF result
<1>1. \A why : NoLink(why).target = NoSymbol
  BY DEF NoLink, Result
<1>2. \A id, why : Result(id, confidence, why).target = id
  BY DEF Result
<1>3. CASE F = {}
  <2>1. result.target = NoSymbol
    BY <1>1, <1>3, <1>9
  <2>2. T = {}
    BY <1>0, <1>3
  <2>3. OnlyFunction(T) = {}
    BY <2>2, FS_EmptySet DEF OnlyFunction
  <2> QED
    BY <2>1, <2>3 DEF Exact, result
<1>4. CASE \E s \in F : F = {s}
  <2>1. PICK s \in F : F = {s}
    BY <1>4
  <2>2. Cardinality(F) = 1 /\ F # {} /\ symbol = s
    BY <2>1, FS_Singleton
  <2>3. CASE s.kind # "function"
    <3>1. result.target = NoSymbol
      BY <1>1, <1>9, <2>2, <2>3
    <3>2. \A d \in T : kind(d) # "function"
      BY <1>0, <2>1, <2>3
    <3>3. OnlyFunction(T) = {}
      BY <3>2 DEF OnlyFunction
    <3> QED
      BY <3>1, <3>3 DEF Exact, result
  <2>4. CASE s.kind = "function" /\ hidden /\ ~visible
    <3>1. result.target = NoSymbol
      BY <1>0, <1>1, <1>9, <2>1, <2>2, <2>4
    <3> QED
      BY <2>4, <3>1 DEF Exact, result
  <2>5. CASE s.kind = "function" /\ ~(hidden /\ ~visible)
    <3>0. symbol.kind = "function" /\ ~(hidden /\ ~symbol.exported) /\ ~(Cardinality(F) > 1)
      BY <1>0, <2>1, <2>2, <2>5
    <3>1. result.target = IdOf(s)
      BY <1>2, <1>9, <2>2, <3>0
    <3>2. T = {IdOf(s)}
      BY <1>0, <2>1, <2>5
    <3>3. Cardinality(T) = 1 /\ kind(IdOf(s)) = "function"
      BY <1>0, <2>1, <2>5, <3>2, FS_Singleton
    <3>4. OnlyFunction(T) = {IdOf(s)}
      BY <3>2, <3>3 DEF OnlyFunction
    <3>5. {result.target} \ {NoSymbol} = {IdOf(s)}
      BY <1>0, <2>1, <3>1
    <3>6. meant = {IdOf(s)}
      BY <2>5, <3>4
    <3> QED
      BY <3>5, <3>6 DEF Exact, result
  <2> QED
    BY <2>3, <2>4, <2>5
<1>5. CASE F # {} /\ ~ \E s \in F : F = {s}
  <2>1. Cardinality(F) \in Nat /\ Cardinality(F) # 0 /\ Cardinality(F) # 1
    BY <1>5, FS_CardinalityType, FS_EmptySet, FS_Singleton
  <2>2. Cardinality(F) > 1
    BY <2>1
  <2>3. result.target = NoSymbol
    BY <1>1, <1>5, <1>9, <2>2
  <2>4. OnlyFunction(T) = {} \/ Misnamed(x)
    <3> SUFFICES ASSUME ~Misnamed(x) PROVE OnlyFunction(T) = {}
      OBVIOUS
    <3>1. \A s \in F : IdOf(s) \in T
      BY <1>0
    <3>2. PICK s \in F, r \in F : s # r
      BY <1>5
    <3>3. IdOf(s) # IdOf(r) /\ IdOf(s) \in T /\ IdOf(r) \in T
      BY <1>0, <3>1, <3>2
    <3>4. T = {IdOf(q) : q \in F}
      BY <1>0, <3>1
    <3>5. IsFiniteSet(T)
      <4> DEFINE g == [q \in F |-> IdOf(q)]
      <4>1. T = {g[q] : q \in DOMAIN g}
        BY <3>4
      <4>2. IsFiniteSet(DOMAIN g)
        OBVIOUS
      <4> HIDE DEF g
      <4> QED
        BY <4>1, <4>2, ImageIsFinite
    <3>6. Cardinality(T) # 1
      BY <3>3, <3>5, FS_Singleton
    <3> QED
      BY <3>6 DEF OnlyFunction
  <2> QED
    BY <2>3, <2>4 DEF Exact, result
<1> QED
  BY <1>3, <1>4, <1>5 DEF result

\* FunctionOf links to the one function of that name in the files of the package.
LEMMA FunctionIsExact ==
  ASSUME SourceIsProgram, Stored, NEW row, NEW package, NEW x,
         NEW evidence \in {"go_package", "go_imported_package"}
  PROVE  LET tests == evidence = "go_package" /\ IsTest(row.file)
             meant == OnlyFunction(TopLevel(Files(package, tests), x))
         IN  Exact(FunctionOf(symbols, row, package, x, evidence),
                   IF evidence = "go_imported_package" /\ x \notin Capitalized THEN {} ELSE meant, x)
<1> DEFINE tests == evidence = "go_package" /\ IsTest(row.file)
           F == Found(package, x, tests)
           T == TopLevel(Files(package, tests), x)
           result == FunctionOf(symbols, row, package, x, evidence)
           hidden == evidence = "go_imported_package"
<1>1. tests \in BOOLEAN /\ hidden \in BOOLEAN
  BY DEF IsTest
<1>2. F = InContext(PackageSymbols(symbols, package, x), row, evidence)
  BY DEF Found, InContext, PackageSymbols, GoRows
<1> DEFINE confidence == Confidence(row.file, (CHOOSE s \in F : TRUE).file)
<1>3. result = Take(F, hidden, confidence, evidence)
  BY <1>2 DEF FunctionOf, Take
<1> HIDE DEF tests
<1>4. IsFiniteSet(F) /\ Agree(F, T, x)
  BY <1>1, FoundIsFinite, FoundAndTop
<1> HIDE DEF F, T, result, hidden, confidence
<1>5. Exact(result, IF hidden /\ x \notin Capitalized THEN {} ELSE OnlyFunction(T), x)
  BY <1>1, <1>3, <1>4, OneFunction
<1> QED
  BY <1>5 DEF T, result, tests, hidden
-----------------------------------------------------------------------------
LEMMA ScopeIsAbove ==
  ASSUME NEW t, WellFormed(t), NEW b \in DOMAIN t
  PROVE  /\ b \in Nat /\ b # 0 /\ GoScopes(t, b) \subseteq 1 .. b - 1
         /\ Innermost(GoScopes(t, b)) \in GoScopes(t, b) \cup {0}
<1>1. b \in Nat /\ b # 0 /\ DOMAIN t = 1 .. Len(t)
  BY TreeIsSequence
<1>2. GoScopes(t, b) \subseteq 1 .. b - 1
  BY DEF GoScopes, Ancestors
<1>3. GoScopes(t, b) \cup {0} \subseteq Nat /\ \A s \in GoScopes(t, b) \cup {0} : s <= b
  BY <1>1, <1>2
<1>4. Max(GoScopes(t, b) \cup {0}) \in GoScopes(t, b) \cup {0}
  <2> DEFINE S == GoScopes(t, b) \cup {0}
  <2>1. S \subseteq Nat /\ S # {} /\ \A s \in S : s <= b
    BY <1>3
  <2> HIDE DEF S
  <2>2. Max(S) \in S
    BY <1>1, <2>1, MaxIsGreatest
  <2> QED
    BY <2>2 DEF S
<1> QED
  BY <1>1, <1>2, <1>4 DEF Innermost

\* A binding that holds at node i, in the words of the code and of the language.
LEMMA ShadowedIsLocal ==
  ASSUME NEW t, WellFormed(t), NEW i \in DOMAIN t, NEW x
  PROVE  Shadowed(t, i, x) <=> Local(t, i, x)
<1> DEFINE scopes == GoScopes(t, i) \cup {0}
           binds(b, s) == GoBinds(t, b, s, x) /\ BoundFrom(t, b, s) <= i
           inner(b) == Innermost(GoScopes(t, b))
           local(b, s) ==
             \/ b = s /\ x \in t[b].params
             \/ /\ t[b].name = x /\ t[b].kind \in {"short", "var", "type"} /\ (s = 0 => t[b].kind = "short")
                /\ s = inner(b)
                /\ IF t[b].kind = "type" THEN b < i ELSE t[b].last < i
<1>1. Shadowed(t, i, x) <=> \E s \in scopes : \E b \in DOMAIN t : binds(b, s)
  BY DEF Shadowed
<1>2. Local(t, i, x) <=> x # "_" /\ \E b \in DOMAIN t : \E s \in scopes : local(b, s)
  BY DEF Local, GoScopes
<1>3. ASSUME NEW s \in scopes, NEW b \in DOMAIN t
      PROVE  binds(b, s) <=> x # "_" /\ local(b, s)
  <2>0. b \in Nat /\ i \in Nat /\ b # 0 /\ inner(b) # b
    <3>1. /\ b \in Nat /\ b # 0 /\ GoScopes(t, b) \subseteq 1 .. b - 1 /\ inner(b) \in GoScopes(t, b) \cup {0}
          /\ i \in Nat
      BY ScopeIsAbove
    <3> HIDE DEF inner
    <3> QED
      BY <3>1
  <2>1. s # 0 => is_scope(t[s])
    BY DEF GoScopes
  <2>2. t[b].last \in Nat
    BY NodeFields
  <2>3. CASE s = b
    <3>1. is_scope(t[b]) /\ 0 <= i
      BY <2>0, <2>1, <2>3
    <3>2. BoundFrom(t, b, s) = 0
      BY <2>3 DEF BoundFrom
    <3>3. s # inner(b)
      BY <2>0, <2>3
    <3> HIDE DEF inner
    <3> QED
      BY <2>3, <3>1, <3>2, <3>3 DEF GoBinds, inner
  <2>4. CASE s # b
    <3>1. BoundFrom(t, b, s) <= i <=> IF t[b].kind = "type" THEN b < i ELSE t[b].last < i
      BY <2>0, <2>2, <2>4 DEF BoundFrom, End
    <3>2. GoBinds(t, b, s, x) <=> /\ x # "_" /\ t[b].name = x /\ t[b].kind \in {"short", "var", "type"}
                                  /\ (s = 0 => t[b].kind = "short") /\ s = inner(b)
      BY <2>4 DEF GoBinds
    <3> HIDE DEF inner
    <3> QED
      BY <2>4, <3>1, <3>2
  <2> QED
    BY <2>3, <2>4
<1> HIDE DEF scopes, binds, local
<1> QED
  BY <1>1, <1>2, <1>3
-----------------------------------------------------------------------------
(* Imports *)

\* A file that resolve/go.rs looks at.
GoIndexed(g) == g \in DOMAIN source /\ LangOf(g) = "go" /\ ~ignored_file(g)

\* The clauses of Go files are the module rows with one name.
LEMMA ClauseRows ==
  ASSUME SourceIsProgram, Stored
  PROVE  \A s : s \in GoRows(symbols) /\ IsClause(s) <=>
           \E g : GoIndexed(g) /\ source[g].package # "" /\ s = Clause(g)
<1>1. ASSUME NEW s \in GoRows(symbols), IsClause(s)
      PROVE  \E g : GoIndexed(g) /\ source[g].package # "" /\ s = Clause(g)
  <2>1. s \in symbols /\ LangOf(s.file) = "go" /\ ~ignored_file(s.file)
    BY DEF GoRows
  <2>2. s.file \in DOMAIN source /\ s \in Rows(s.file).symbols
    BY <2>1, RowsOfFiles
  <2>3. \/ \E i \in GoDeclarations(Tree(s.file)) : s = Declaration(s.file, i)
        \/ source[s.file].package # "" /\ s = Clause(s.file)
    BY <2>1, <2>2, GoSymbolRows
  <2>4. \A i \in GoDeclarations(Tree(s.file)) : s # Declaration(s.file, i)
    <3> SUFFICES ASSUME NEW i \in GoDeclarations(Tree(s.file)), s = Declaration(s.file, i) PROVE FALSE
      OBVIOUS
    <3>1. s.kind = GoKindOf(Tree(s.file)[i])
      BY DEF Declaration, Symbol
    <3>2. GoKindOf(Tree(s.file)[i]) # "module"
      BY DEF GoKindOf, GoDeclarations
    <3> QED
      BY <1>1, <3>1, <3>2 DEF IsClause
  <2> QED
    BY <2>1, <2>2, <2>3, <2>4 DEF GoIndexed
<1>2. ASSUME NEW g, GoIndexed(g), source[g].package # ""
      PROVE  Clause(g) \in GoRows(symbols) /\ IsClause(Clause(g))
  <2>1. Clause(g) \in symbols
    BY <1>2, GoSymbolRows, RowsOfFiles DEF GoIndexed
  <2>2. Clause(g).file = g /\ Clause(g).kind = "module" /\ Clause(g).qualified = <<source[g].package>>
    BY DEF Clause, Symbol
  <2> QED
    BY <1>2, <2>1, <2>2 DEF GoRows, IsClause, GoIndexed
<1> QED
  BY <1>1, <1>2

\* What the code knows of the clauses of a file and of its directory.
LEMMA PackageNames ==
  ASSUME SourceIsProgram, Stored, NEW g, GoIndexed(g)
  PROVE  /\ Declared(symbols, g) = {source[g].package} \ {""}
         /\ DirectoryNames(symbols, g)
              = {source[h].package : h \in Members(source, g.project, directory_of(g))} \ {""}
         /\ source[g].package # "" => HasRows(symbols, g)
<1>1. \A h : Clause(h).file = h /\ Clause(h).name = source[h].package
  BY DEF Clause, Symbol
<1>2. ASSUME NEW x
      PROVE  x \in Declared(symbols, g) <=> x \in {source[g].package} \ {""}
  <2>1. x \in Declared(symbols, g) <=>
          \E s : s \in GoRows(symbols) /\ IsClause(s) /\ s.file = g /\ s.name = x
    BY DEF Declared
  <2>2. (\E s : s \in GoRows(symbols) /\ IsClause(s) /\ s.file = g /\ s.name = x) <=>
          \E h : GoIndexed(h) /\ source[h].package # "" /\ Clause(h).file = g /\ Clause(h).name = x
    BY ClauseRows
  <2>3. (\E h : GoIndexed(h) /\ source[h].package # "" /\ Clause(h).file = g /\ Clause(h).name = x)
          <=> source[g].package # "" /\ source[g].package = x
    BY <1>1
  <2> QED
    BY <2>1, <2>2, <2>3
<1>3. ASSUME NEW x
      PROVE  x \in DirectoryNames(symbols, g)
               <=> x \in {source[h].package : h \in Members(source, g.project, directory_of(g))} \ {""}
  <2>1. x \in DirectoryNames(symbols, g) <=>
          \E s : /\ s \in GoRows(symbols) /\ IsClause(s) /\ s.name = x /\ ~IsTest(s.file)
                 /\ s.file.project = g.project /\ directory_of(s.file) = directory_of(g)
    BY DEF DirectoryNames
  <2>2. \A h : h \in Members(source, g.project, directory_of(g)) <=>
          GoIndexed(h) /\ ~IsTest(h) /\ h.project = g.project /\ directory_of(h) = directory_of(g)
    BY DEF Members, GoIndexed
  <2>3. (\E s : /\ s \in GoRows(symbols) /\ IsClause(s) /\ s.name = x /\ ~IsTest(s.file)
                /\ s.file.project = g.project /\ directory_of(s.file) = directory_of(g)) <=>
        (\E h : /\ GoIndexed(h) /\ source[h].package # "" /\ Clause(h).name = x /\ ~IsTest(Clause(h).file)
                /\ Clause(h).file.project = g.project /\ directory_of(Clause(h).file) = directory_of(g))
    BY ClauseRows
  <2>4. (\E h : /\ GoIndexed(h) /\ source[h].package # "" /\ Clause(h).name = x /\ ~IsTest(Clause(h).file)
                /\ Clause(h).file.project = g.project /\ directory_of(Clause(h).file) = directory_of(g)) <=>
        (\E h : /\ GoIndexed(h) /\ source[h].package # "" /\ source[h].package = x /\ ~IsTest(h)
                /\ h.project = g.project /\ directory_of(h) = directory_of(g))
    BY <1>1
  <2> DEFINE M == Members(source, g.project, directory_of(g))
  <2>5. (\E h : /\ GoIndexed(h) /\ source[h].package # "" /\ source[h].package = x /\ ~IsTest(h)
                /\ h.project = g.project /\ directory_of(h) = directory_of(g))
          <=> \E h \in M : source[h].package # "" /\ source[h].package = x
    BY <2>2
  <2> HIDE DEF M
  <2>6. x \in {source[h].package : h \in M} \ {""} <=> \E h \in M : source[h].package # "" /\ source[h].package = x
    OBVIOUS
  <2> QED
    BY <2>1, <2>3, <2>4, <2>5, <2>6 DEF M
<1>4. source[g].package # "" => HasRows(symbols, g)
  BY <1>1, ClauseRows DEF HasRows
<1> QED
  BY <1>2, <1>3, <1>4

LEMMA NamesAreFinite ==
  ASSUME SourceIsProgram, NEW files, files \subseteq DOMAIN source
  PROVE  IsFiniteSet(UNION {Clauses(source, f) : f \in files})
<1> DEFINE g == [f \in DOMAIN source |-> source[f].package]
<1>1. IsFiniteSet(DOMAIN g)
  BY DEF SourceIsProgram, IsProgram
<1>2. UNION {Clauses(source, f) : f \in files} \subseteq {g[f] : f \in DOMAIN g}
  BY DEF Clauses
<1> HIDE DEF g
<1>3. IsFiniteSet({g[f] : f \in DOMAIN g})
  BY <1>1, ImageIsFinite
<1> QED
  BY <1>2, <1>3, FS_Subset
-----------------------------------------------------------------------------
\* A directory that can be imported as package p.
IsPackage(files, p) ==
  files # {} /\ p \notin {"", "main"} /\ \A g \in files : source[g].package = p /\ ~source[g].errors

\* An import has a target exactly if its directory is one whole package of the
\* module of the project.
LEMMA GoTargetIs ==
  ASSUME SourceIsProgram, NEW file \in DOMAIN source, NEW path, path \in Seq(STRING), path # <<>>
  PROVE  LET files == Members(source, file.project, file.project \o Tail(path))
             known == /\ file.project \in DOMAIN GoModules /\ GoModules[file.project] # ""
                      /\ path[1] = GoModules[file.project]
             target == resolve_go(source, GoModules, file.project, path)
         IN  \/ target.file = NoFile /\ ~(known /\ \E p : IsPackage(files, p))
             \/ target.file \in files /\ known /\ \E p : IsPackage(files, p)
<1> DEFINE files == Members(source, file.project, file.project \o Tail(path))
           known == /\ file.project \in DOMAIN GoModules /\ GoModules[file.project] # ""
                    /\ path[1] = GoModules[file.project]
           module == IF file.project \in DOMAIN GoModules THEN GoModules[file.project] ELSE ""
           target == resolve_go(source, GoModules, file.project, path)
           names == UNION {Clauses(source, f) : f \in files}
           dots == ToSet(Tail(path)) \cap {".", ".."} # {}
           complete == ~(names = {} \/ Incomplete(source, files))
<1>1. target = IF module = "" THEN Unresolved("unknown_module")
               ELSE IF path[1] # module THEN Unresolved("external")
               ELSE IF dots THEN Unresolved("outside_root")
               ELSE IF files = {} THEN Unresolved("unknown")
               ELSE IF Cardinality(names) > 1 THEN Unresolved("ambiguous")
               ELSE IF ~complete THEN Unresolved("incomplete_package")
               ELSE IF names = {"main"} THEN Unresolved("non_importable_package")
               ELSE Target(Representative(files), "indexed_go_package")
  BY DEF resolve_go
<1>2. known <=> module # "" /\ path[1] = module
  OBVIOUS
<1>3. \A why : Unresolved(why).file = NoFile
  BY DEF Unresolved, Target
<1>4. \A f, why : Target(f, why).file = f
  BY DEF Target
<1>5. files # {} => Representative(files) \in files
  BY RepresentativeIsMember
<1>6. files \subseteq DOMAIN source
  BY DEF Members
<1>7. dots => files = {}
  <2> SUFFICES ASSUME dots, NEW g \in files PROVE FALSE
    OBVIOUS
  <2>1. g \in DOMAIN source /\ directory_of(g) = file.project \o Tail(path)
    BY DEF Members
  <2>2. file.project \in Seq(STRING) /\ Tail(path) \in Seq(STRING)
    BY HeadTailProperties DEF SourceIsProgram, IsProgram
  <2>3. ToSet(Tail(path)) \subseteq ToSet(file.project \o Tail(path))
    <3> DEFINE a == file.project
               b == Tail(path)
    <3>1. a \in Seq(STRING) /\ b \in Seq(STRING)
      BY <2>2
    <3> HIDE DEF a, b
    <3>2. /\ a \o b \in Seq(STRING) /\ Len(a \o b) = Len(a) + Len(b)
          /\ Len(a) \in Nat /\ Len(b) \in Nat
      BY <3>1, ConcatProperties, LenProperties
    <3>3. \A k \in 1 .. Len(b) : (a \o b)[Len(a) + k] = b[k] /\ Len(a) + k \in 1 .. Len(a \o b)
      BY <3>1, <3>2
    <3>4. DOMAIN b = 1 .. Len(b) /\ DOMAIN (a \o b) = 1 .. Len(a \o b)
      BY <3>1, <3>2, LenProperties
    <3>5. ToSet(b) \subseteq ToSet(a \o b)
      BY <3>3, <3>4 DEF ToSet
    <3> QED
      BY <3>5 DEF a, b
  <2>4. ToSet(directory_of(g)) \cap {".", ".."} = {}
    BY <2>1 DEF SourceIsProgram, IsProgram
  <2> QED
    BY <2>1, <2>3, <2>4
<1>8. IsFiniteSet(names)
  BY <1>6, NamesAreFinite
<1>9. \A x : x \in names <=> \E f \in files : source[f].package # "" /\ x = source[f].package
  BY DEF Clauses
<1>10. Incomplete(source, files) <=> \E f \in files : source[f].errors \/ source[f].package = ""
  BY DEF Incomplete, Clauses
<1> HIDE DEF files, known, module, target, names, dots
<1>11. ASSUME NEW p, IsPackage(files, p)
       PROVE  ~dots /\ files # {} /\ ~(Cardinality(names) > 1) /\ complete /\ names # {"main"}
  <2>1. names = {p} /\ p # "main" /\ files # {}
    BY <1>9, <1>11 DEF IsPackage
  <2>2. Cardinality(names) = 1
    BY <2>1, FS_Singleton
  <2>3. ~(Cardinality(names) > 1)
    BY <2>2
  <2> QED
    BY <1>7, <1>10, <1>11, <2>1, <2>3 DEF IsPackage
<1>12. ASSUME files # {}, ~(Cardinality(names) > 1), complete, names # {"main"}
       PROVE  \E p : IsPackage(files, p)
  <2>1. Cardinality(names) \in Nat /\ Cardinality(names) # 0
    BY <1>8, <1>12, FS_CardinalityType, FS_EmptySet
  <2>2. Cardinality(names) = 1
    BY <1>12, <2>1
  <2>3. PICK p : names = {p}
    BY <1>8, <2>2, FS_Singleton
  <2>4. \A g \in files : source[g].package # "" /\ ~source[g].errors
    BY <1>10, <1>12
  <2>5. \A g \in files : source[g].package = p
    BY <1>9, <2>3, <2>4
  <2>6. p # "main"
    BY <1>12, <2>3
  <2> QED
    BY <1>12, <2>4, <2>5, <2>6 DEF IsPackage
<1> HIDE DEF complete
<1>13. CASE known /\ \E p : IsPackage(files, p)
  <2>1. ~dots /\ files # {} /\ ~(Cardinality(names) > 1) /\ complete /\ names # {"main"}
    BY <1>11, <1>13
  <2>2. target.file = Representative(files)
    BY <1>1, <1>2, <1>4, <1>13, <2>1
  <2> QED
    BY <1>5, <1>13, <2>1, <2>2 DEF target, files, known
<1>14. CASE ~(known /\ \E p : IsPackage(files, p))
  <2>1. ~known \/ files = {} \/ Cardinality(names) > 1 \/ ~complete \/ names = {"main"}
    BY <1>12, <1>14
  <2>2. target.file = NoFile
    BY <1>1, <1>2, <1>3, <2>1
  <2> QED
    BY <1>14, <2>2 DEF target, files, known
<1> QED
  BY <1>13, <1>14

LEMMA ImportedPackageIs ==
  ASSUME NEW row, NEW file, file = imports[row].file
  PROVE  /\ file = NoFile => ImportedPackage(symbols, imports, row) = NoPackage
         /\ \A p : /\ file # NoFile /\ ~IsTest(file) /\ Declared(symbols, file) = {p}
                    /\ HasRows(symbols, row.file) /\ row.file.project = file.project
                    /\ Cardinality(DirectoryNames(symbols, file)) = 1
                  => ImportedPackage(symbols, imports, row) = Package(file, p)
<1>1. file = NoFile => ImportedPackage(symbols, imports, row) = NoPackage
  BY DEF ImportedPackage
<1>2. ASSUME NEW p, file # NoFile, ~IsTest(file), Declared(symbols, file) = {p},
             HasRows(symbols, row.file), row.file.project = file.project,
             Cardinality(DirectoryNames(symbols, file)) = 1
      PROVE  ImportedPackage(symbols, imports, row) = Package(file, p)
  <2>1. Cardinality({p}) = 1
    BY FS_Singleton
  <2>2. (CHOOSE name \in {p} : TRUE) = p
    OBVIOUS
  <2> QED
    BY <1>2, <2>1, <2>2 DEF ImportedPackage
<1> QED
  BY <1>1, <1>2

\* What the code takes for the package of an import is what the files of its
\* directory say.
LEMMA ImportMeans ==
  ASSUME SourceIsProgram, Stored, NEW f, GoIndexed(f), source[f].package # "",
         NEW i \in Imports(Tree(f)), imports[ImportRow(f, i)] = ImportTarget(ImportRow(f, i))
  PROVE  LET P == ImportedPackages(f, i)
             dir == f.project \o Tail(Tree(f)[i].path)
             package == ImportedPackage(symbols, imports, ImportRow(f, i))
         IN  \/ P = {} /\ package = NoPackage
             \/ \E p : /\ P = {p} /\ p # ""
                       /\ package = [project |-> f.project, directory |-> dir, name |-> p]
<1> DEFINE path == Tree(f)[i].path
           dir == f.project \o Tail(path)
           row == ImportRow(f, i)
           files == Members(source, f.project, dir)
           target == resolve_go(source, GoModules, f.project, path)
           known == /\ f.project \in DOMAIN GoModules /\ GoModules[f.project] # ""
                    /\ path[1] = GoModules[f.project]
           P == ImportedPackages(f, i)
           package == ImportedPackage(symbols, imports, row)
<1>1. f \in DOMAIN source /\ LangOf(f) = "go" /\ ~ignored_file(f)
  BY DEF GoIndexed
<1>2. path \in Seq(STRING) /\ path # <<>>
  <2>1. WellFormed(Tree(f)) /\ GoTopLevel(Tree(f))
    BY <1>1 DEF SourceIsProgram, IsProgram, WellFormed, Tree
  <2>2. i \in DOMAIN Tree(f) /\ Tree(f)[i].path # <<>>
    BY <2>1 DEF GoTopLevel, Imports
  <2> QED
    BY <2>1, <2>2, NodeFields
<1>3. row.file = f /\ imports[row] = target
  <2>1. row.file = f /\ row.blocked = "" /\ row.name = path
    BY DEF ImportRow, Ref
  <2> HIDE DEF path
  <2> QED
    BY <1>1, <2>1 DEF ImportTarget
<1>4. P = {p \in {source[g].package : g \in files} : known /\ IsPackage(files, p)}
  <2>1. files = {g \in DOMAIN source : /\ LangOf(g) = "go" /\ ~ignored_file(g) /\ ~IsTest(g)
                                       /\ g.project = f.project /\ directory_of(g) = dir}
    BY DEF Members
  <2>2. known <=> f.project \in DOMAIN GoModules /\ GoModules[f.project] \in {path[1]} \ {""}
    OBVIOUS
  <2>3. P = {p \in {source[g].package : g \in files} :
               /\ f.project \in DOMAIN GoModules /\ GoModules[f.project] \in {path[1]} \ {""}
               /\ \A g \in files : source[g].package = p /\ ~source[g].errors
               /\ p \notin {"", "main"} /\ source[f].package # ""}
    BY <2>1 DEF ImportedPackages, Tree
  <2> HIDE DEF P, files, known
  <2> QED
    BY <2>2, <2>3 DEF IsPackage
<1>5. \/ target.file = NoFile /\ ~(known /\ \E p : IsPackage(files, p))
      \/ target.file \in files /\ known /\ \E p : IsPackage(files, p)
  BY <1>1, <1>2, GoTargetIs
<1>6. NoFile \notin DOMAIN source
  BY DEF SourceIsProgram, IsProgram
<1>8. \A g \in files : GoIndexed(g) /\ ~IsTest(g) /\ g.project = f.project /\ directory_of(g) = dir
  BY DEF Members, GoIndexed
<1> HIDE DEF files, target, known, P, package, row, dir, path
<1>9. CASE target.file = NoFile /\ ~(known /\ \E p : IsPackage(files, p))
  <2>1. P = {}
    BY <1>4, <1>9
  <2>2. package = NoPackage
    BY <1>3, <1>9, ImportedPackageIs DEF package
  <2> QED
    BY <2>1, <2>2 DEF P, package, row
<1>10. CASE target.file \in files /\ known /\ \E p : IsPackage(files, p)
  <2> DEFINE g == target.file
  <2>1. PICK p : IsPackage(files, p)
    BY <1>10
  <2>2. p # "" /\ \A h \in files : source[h].package = p
    BY <2>1 DEF IsPackage
  <2>3. GoIndexed(g) /\ ~IsTest(g) /\ g.project = f.project /\ directory_of(g) = dir
    BY <1>8, <1>10
  <2>4. g # NoFile
    BY <1>6, <2>3 DEF GoIndexed
  <2> HIDE DEF g
  <2>5. g \in files
    BY <1>10 DEF g
  <2>6. Declared(symbols, g) = {p}
    <3>1. Declared(symbols, g) = {source[g].package} \ {""}
      BY <2>3, PackageNames
    <3> QED
      BY <2>2, <2>5, <3>1
  <2>7. DirectoryNames(symbols, g) = {p}
    <3>1. DirectoryNames(symbols, g) = {source[h].package : h \in Members(source, g.project, directory_of(g))} \ {""}
      BY <2>3, PackageNames
    <3>2. Members(source, g.project, directory_of(g)) = files
      BY <2>3 DEF files
    <3> QED
      BY <2>2, <2>5, <3>1, <3>2
  <2>8. HasRows(symbols, f)
    BY PackageNames
  <2>9. Cardinality(DirectoryNames(symbols, g)) = 1
    BY <2>7, FS_Singleton
  <2>10. package = Package(g, p)
    <3>1. g = imports[row].file /\ row.file = f
      BY <1>3 DEF g
    <3> QED
      BY <2>3, <2>4, <2>6, <2>8, <2>9, <3>1, ImportedPackageIs DEF package
  <2>11. package = [project |-> f.project, directory |-> dir, name |-> p]
    BY <2>3, <2>10 DEF Package
  <2>12. P = {p}
    BY <1>4, <1>10, <2>1, <2>2, <2>5
  <2> QED
    BY <2>2, <2>11, <2>12 DEF P, package, row, dir, path
<1> QED
  BY <1>5, <1>9, <1>10
-----------------------------------------------------------------------------
\* Every import row has its target.
ImportsResolved == DOMAIN imports = ImportRows /\ \A r \in DOMAIN imports : imports[r] = ImportTarget(r)

\* The import rows of a Go file are its import declarations.
LEMMA GoImportRows ==
  ASSUME SourceIsProgram, Stored, ImportsResolved, NEW f, GoIndexed(f)
  PROVE  \A r : r \in GoImports(imports, f) <=> \E i \in Imports(Tree(f)) : r = ImportRow(f, i)
<1>1. \A i : ImportRow(f, i).file = f /\ ImportRow(f, i).kind = "import"
  BY DEF ImportRow, Ref
<1>2. ASSUME NEW r \in GoImports(imports, f) PROVE \E i \in Imports(Tree(f)) : r = ImportRow(f, i)
  <2>1. r \in refs /\ r.kind = "import" /\ r.file = f
    BY DEF GoImports, ImportsResolved, ImportRows
  <2>2. r \in Rows(f).refs
    BY <2>1, RowsOfFiles
  <2>3. (\E i \in Calls(Tree(f)) : IsCallRow(f, i, r)) \/ \E i \in Imports(Tree(f)) : r = ImportRow(f, i)
    BY <2>2, GoRefRows DEF GoIndexed
  <2> QED
    BY <2>1, <2>3 DEF IsCallRow
<1>3. ASSUME NEW i \in Imports(Tree(f)) PROVE ImportRow(f, i) \in GoImports(imports, f)
  <2>1. ImportRow(f, i) \in Rows(f).refs
    BY GoRefRows DEF GoIndexed
  <2>2. ImportRow(f, i) \in refs
    BY <2>1, RowsOfFiles DEF GoIndexed
  <2> QED
    BY <1>1, <2>2 DEF GoImports, ImportsResolved, ImportRows, GoIndexed
<1> QED
  BY <1>2, <1>3

\* The import declarations that a name of the file can mean.
NamedBy(f, name) == {d \in ImportsOf(f) : name \in LocalNames(f, d)}

LEMMA NodesAreFinite == \A t : WellFormed(t) => IsFiniteSet(DOMAIN t)
<1> SUFFICES ASSUME NEW t, WellFormed(t) PROVE IsFiniteSet(DOMAIN t)
  OBVIOUS
<1>1. Len(t) \in Nat /\ DOMAIN t = 1 .. Len(t)
  BY TreeIsSequence
<1> QED
  BY <1>1, FS_Interval

LEMMA OneTuple == \A x, y : <<x>> # <<>> /\ (<<x>> = <<y>> <=> x = y) /\ <<x>>[1] = x
<1> TAKE x, y
<1>1. <<x>>[1] = x /\ <<y>>[1] = y
  OBVIOUS
<1>2. <<x>> # <<>>
  OBVIOUS
<1>3. <<x>> = <<y>> <=> x = y
  BY <1>1
<1> QED
  BY <1>1, <1>2, <1>3

\* A name can mean an import row exactly if it is the local name of the import.
LEMMA AliasesAreLocalNames ==
  ASSUME SourceIsProgram, Stored, ImportsResolved, NEW f, GoIndexed(f), source[f].package # "",
         NEW d \in Imports(Tree(f)), NEW name
  PROVE  LET r == ImportRow(f, d)
         IN  /\ r.path \notin {<<".">>, <<"_">>} /\ AliasOf(symbols, imports, r) \in {name} \ {""}
               <=> name \in LocalNames(f, d)
             /\ r.path = <<".">> <=> Tree(f)[d].name = "."
<1> DEFINE r == ImportRow(f, d)
           alias == Tree(f)[d].name
           package == ImportedPackage(symbols, imports, r)
           P == ImportedPackages(f, d)
<1>1. r.path = IF alias = "" THEN <<>> ELSE <<alias>>
  BY DEF ImportRow, Ref, AliasRow
<1>2. LocalNames(f, d) = IF alias # "" THEN {alias} \ {".", "_"} ELSE P
  BY DEF LocalNames, Tree
<1>3. imports[r] = ImportTarget(r)
  BY GoImportRows DEF ImportsResolved, GoImports
<1>4. \/ P = {} /\ package = NoPackage
      \/ \E p : P = {p} /\ p # "" /\ package.name = p
  <2>1. \/ P = {} /\ package = NoPackage
        \/ \E p : /\ P = {p} /\ p # ""
                  /\ package = [project |-> f.project, directory |-> f.project \o Tail(Tree(f)[d].path),
                                name |-> p]
    BY <1>3, ImportMeans
  <2> HIDE DEF P, package
  <2>2. ASSUME NEW p, NEW dir, package = [project |-> f.project, directory |-> dir, name |-> p]
        PROVE  package.name = p
    BY <2>2
  <2> QED
    BY <2>1, <2>2
<1>5. NoPackage.name = ""
  BY DEF NoPackage
<1>6. AliasOf(symbols, imports, r) = IF alias # "" THEN alias ELSE package.name
  <2> HIDE DEF r, alias
  <2>1. CASE alias = ""
    BY <1>1, <2>1 DEF AliasOf
  <2>2. CASE alias # ""
    <3>1. r.path # <<>> /\ r.path[1] = alias
      BY <1>1, <2>2, OneTuple
    <3> QED
      BY <2>2, <3>1 DEF AliasOf
  <2> QED
    BY <2>1, <2>2
<1> HIDE DEF r, alias, package, P
<1>7. CASE alias = ""
  <2>1. r.path # <<".">> /\ r.path # <<"_">> /\ alias # "."
    BY <1>1, <1>7, OneTuple
  <2>2. AliasOf(symbols, imports, r) \in {name} \ {""} <=> name \in P
    BY <1>4, <1>5, <1>6, <1>7
  <2> QED
    BY <1>2, <1>7, <2>1, <2>2 DEF r, alias
<1>8. CASE alias # ""
  <2>1. r.path = <<".">> <=> alias = "."
    BY <1>1, <1>8, OneTuple
  <2>2. r.path = <<"_">> <=> alias = "_"
    BY <1>1, <1>8, OneTuple
  <2>3. AliasOf(symbols, imports, r) = alias /\ LocalNames(f, d) = {alias} \ {".", "_"}
    BY <1>2, <1>6, <1>8
  <2> QED
    BY <1>8, <2>1, <2>2, <2>3 DEF r, alias
<1> QED
  BY <1>7, <1>8

LEMMA ImportsNamedAre ==
  ASSUME SourceIsProgram, Stored, ImportsResolved, NEW f, GoIndexed(f), source[f].package # "", NEW name
  PROVE  /\ \A r : r \in ImportsNamed(symbols, imports, f, name)
                     <=> \E d \in NamedBy(f, name) : r = ImportRow(f, d)
         /\ \A d \in NamedBy(f, name) : d \in Imports(Tree(f))
         /\ DotImports(imports, f) <=> \E d \in ImportsOf(f) : Tree(f)[d].name = "."
         /\ IsFiniteSet(NamedBy(f, name))
         /\ \A d, e : ImportRow(f, d) = ImportRow(f, e) => d = e
<1>1. ImportsOf(f) = Imports(Tree(f))
  BY DEF ImportsOf, Tree
<1>2. \A r : r \in ImportsNamed(symbols, imports, f, name) <=>
        /\ r \in GoImports(imports, f)
        /\ r.path \notin {<<".">>, <<"_">>} /\ AliasOf(symbols, imports, r) \in {name} \ {""}
  BY DEF ImportsNamed
<1>3. \A d : d \in NamedBy(f, name) <=> d \in Imports(Tree(f)) /\ name \in LocalNames(f, d)
  BY <1>1 DEF NamedBy
<1>4. ASSUME NEW r PROVE r \in ImportsNamed(symbols, imports, f, name)
                            <=> \E d \in NamedBy(f, name) : r = ImportRow(f, d)
  <2>1. ASSUME r \in ImportsNamed(symbols, imports, f, name)
        PROVE  \E d \in NamedBy(f, name) : r = ImportRow(f, d)
    <3>1. PICK d \in Imports(Tree(f)) : r = ImportRow(f, d)
      BY <1>2, <2>1, GoImportRows
    <3>2. name \in LocalNames(f, d)
      BY <1>2, <2>1, <3>1, AliasesAreLocalNames
    <3> QED
      BY <1>3, <3>1, <3>2
  <2>2. ASSUME NEW d \in NamedBy(f, name), r = ImportRow(f, d)
        PROVE  r \in ImportsNamed(symbols, imports, f, name)
    <3>1. d \in Imports(Tree(f)) /\ name \in LocalNames(f, d)
      BY <1>3
    <3>2. r \in GoImports(imports, f)
      BY <2>2, <3>1, GoImportRows
    <3>3. r.path \notin {<<".">>, <<"_">>} /\ AliasOf(symbols, imports, r) \in {name} \ {""}
      BY <2>2, <3>1, AliasesAreLocalNames
    <3> QED
      BY <1>2, <3>2, <3>3
  <2> QED
    BY <2>1, <2>2
<1>5. DotImports(imports, f) <=> \E d \in ImportsOf(f) : Tree(f)[d].name = "."
  <2>1. DotImports(imports, f) <=> \E r : r \in GoImports(imports, f) /\ r.path = <<".">>
    BY DEF DotImports
  <2>2. \A d \in Imports(Tree(f)) : ImportRow(f, d).path = <<".">> <=> Tree(f)[d].name = "."
    BY AliasesAreLocalNames
  <2>3. (\E r : r \in GoImports(imports, f) /\ r.path = <<".">>)
          <=> \E d \in Imports(Tree(f)) : ImportRow(f, d).path = <<".">>
    <3>1. \A r : r \in GoImports(imports, f) <=> \E d \in Imports(Tree(f)) : r = ImportRow(f, d)
      BY GoImportRows
    <3> QED
      BY <3>1
  <2> QED
    BY <1>1, <2>1, <2>2, <2>3
<1>6. IsFiniteSet(NamedBy(f, name))
  <2>1. WellFormed(Tree(f))
    BY DEF GoIndexed, SourceIsProgram, IsProgram, WellFormed, Tree
  <2>2. NamedBy(f, name) \subseteq DOMAIN Tree(f)
    BY <1>3 DEF Imports
  <2>3. IsFiniteSet(DOMAIN Tree(f))
    BY <2>1, NodesAreFinite
  <2> QED
    BY <2>2, <2>3, FS_Subset
<1>7. \A d : ImportRow(f, d).at = d
  BY DEF ImportRow, Ref
<1> QED
  BY <1>3, <1>4, <1>5, <1>6, <1>7
-----------------------------------------------------------------------------
(* Calls *)

LEMMA TupleParts ==
  /\ \A r, a, b, c : r.path = <<a, b, c>> => r.path # <<>> /\ r.path[1] = a /\ r.path[2] = b /\ r.path[3] = c
  /\ \A r, a, b, c, d : r.path = <<a, b, c, d>> =>
       r.path # <<>> /\ r.path[1] = a /\ r.path[2] = b /\ r.path[3] = c /\ r.path[4] = d
<1>1. ASSUME NEW a, NEW b, NEW c
      PROVE  /\ <<a, b, c>>[1] = a /\ <<a, b, c>>[2] = b /\ <<a, b, c>>[3] = c /\ <<a, b, c>> # <<>>
  OBVIOUS
<1>2. ASSUME NEW a, NEW b, NEW c, NEW d
      PROVE  /\ <<a, b, c, d>>[1] = a /\ <<a, b, c, d>>[2] = b /\ <<a, b, c, d>>[3] = c
             /\ <<a, b, c, d>>[4] = d /\ <<a, b, c, d>> # <<>>
  OBVIOUS
<1> QED
  BY <1>1, <1>2

\* A file that belongs to a package.
Belongs(f) == GoIndexed(f) /\ source[f].package # ""

\* The path of a direct call, and that of a call with a receiver.
Asks(r, package, name) == r.path[2] = package /\ r.path[3] = name
Selects(r, of, name) == r.path[3] = of /\ r.path[4] = name

\* f(): the names of the package, unless an import takes it.
LEMMA DirectCallIsExact ==
  ASSUME SourceIsProgram, Stored, ImportsResolved, NEW r, GoIndexed(r.file), NEW name,
         source[r.file].package # "", Asks(r, source[r.file].package, name)
  PROVE  LET f == r.file
             here == PackageFiles(f.project, directory_of(f), source[f].package, IsTest(f))
         IN  Exact(DirectCall(symbols, imports, r),
                   IF NamedBy(f, name) # {} \/ (\E d \in ImportsOf(f) : Tree(f)[d].name = ".") THEN {}
                   ELSE OnlyFunction(TopLevel(here, name)),
                   name)
<1> DEFINE f == r.file
           package == Package(f, source[f].package)
           here == PackageFiles(f.project, directory_of(f), source[f].package, IsTest(f))
           evidence == "go_package"
<1>2. package.project = f.project /\ package.directory = directory_of(f) /\ package.name = source[f].package
  BY DEF Package
<1>3. DotImports(imports, f) <=> \E d \in ImportsOf(f) : Tree(f)[d].name = "."
  BY ImportsNamedAre
<1>4. ImportsNamed(symbols, imports, f, name) # {} <=> NamedBy(f, name) # {}
  BY ImportsNamedAre
<1>5. DirectCall(symbols, imports, r)
        = IF DotImports(imports, f) THEN NoLink("unsupported_dot_import")
          ELSE IF ImportsNamed(symbols, imports, f, name) # {} THEN NoLink("imported_package")
          ELSE FunctionOf(symbols, r, package, name, evidence)
  BY DEF DirectCall, Asks
<1>6. Exact(FunctionOf(symbols, r, package, name, evidence), OnlyFunction(TopLevel(here, name)), name)
  <2> DEFINE tests == evidence = "go_package" /\ IsTest(f)
  <2>1. Exact(FunctionOf(symbols, r, package, name, evidence),
              IF evidence = "go_imported_package" /\ name \notin Capitalized THEN {}
              ELSE OnlyFunction(TopLevel(Files(package, tests), name)), name)
    BY FunctionIsExact
  <2>2. Files(package, IsTest(f)) = here
    BY <1>2, FilesArePackageFiles
  <2>3. tests <=> IsTest(f)
    OBVIOUS
  <2>4. tests = IsTest(f)
    BY <2>3 DEF IsTest
  <2> HIDE DEF package, here
  <2> QED
    BY <2>1, <2>2, <2>4
<1> HIDE DEF package, here, f
<1> QED
  BY <1>3, <1>4, <1>5, <1>6, NoLinkIsExact DEF here, f

\* p.f() once the import that p is has been found.
LEMMA SelectorCallIs ==
  ASSUME NEW r, NEW of, NEW name, Selects(r, of, name)
  PROVE  LET rows == ImportsNamed(symbols, imports, r.file, of)
             result == SelectorCall(symbols, imports, r)
             from(package) == IF package = NoPackage THEN NoLink("unsupported_import")
                              ELSE FunctionOf(symbols, r, package, name, "go_imported_package")
         IN  /\ rows = {} => result = NoLink("dynamic_receiver")
             /\ rows # {} /\ NamedTwice(rows) => result = NoLink("ambiguous")
             /\ \A q : rows = {q} => result = from(ImportedPackage(symbols, imports, q))
<1> DEFINE rows == ImportsNamed(symbols, imports, r.file, of)
           result == SelectorCall(symbols, imports, r)
           from(package) == IF package = NoPackage THEN NoLink("unsupported_import")
                            ELSE FunctionOf(symbols, r, package, name, "go_imported_package")
<1>1. rows = {} => result = NoLink("dynamic_receiver")
  BY DEF SelectorCall, Selects
<1>2. rows # {} /\ NamedTwice(rows) => result = NoLink("ambiguous")
  BY DEF SelectorCall, Selects
<1>3. ASSUME NEW q, rows = {q} PROVE result = from(ImportedPackage(symbols, imports, q))
  <2>1. Cardinality({q}) = 1
    BY FS_Singleton
  <2>3. ~NamedTwice({q})
    BY <2>1 DEF NamedTwice
  <2>2. (CHOOSE x \in {q} : TRUE) = q
    OBVIOUS
  <2> QED
    BY <1>3, <2>2, <2>3 DEF SelectorCall, Selects
<1> QED
  BY <1>1, <1>2, <1>3

\* p.f(): a function that the one package called p exports.
LEMMA SelectorCallIsExact ==
  ASSUME SourceIsProgram, Stored, ImportsResolved, NEW r, Belongs(r.file), NEW of, NEW name, Selects(r, of, name)
  PROVE  LET f == r.file
             named == NamedBy(f, of)
         IN  Exact(SelectorCall(symbols, imports, r),
                   IF Cardinality(named) # 1 \/ name \notin Capitalized THEN {}
                   ELSE UNION {UNION {OnlyFunction(TopLevel(PackageFiles(f.project,
                                                                        f.project \o Tail(Tree(f)[d].path),
                                                                        p, FALSE), name)) :
                                        p \in ImportedPackages(f, d)} : d \in named},
                   name)
<1> DEFINE f == r.file
           named == NamedBy(f, of)
           rows == ImportsNamed(symbols, imports, f, of)
           path(d) == f.project \o Tail(Tree(f)[d].path)
           there(d, p) == OnlyFunction(TopLevel(PackageFiles(f.project, path(d), p, FALSE), name))
           meant == IF Cardinality(named) # 1 \/ name \notin Capitalized THEN {}
                    ELSE UNION {UNION {there(d, p) : p \in ImportedPackages(f, d)} : d \in named}
           result == SelectorCall(symbols, imports, r)
<1>1. GoIndexed(f) /\ source[f].package # ""
  BY DEF Belongs
<1> HIDE DEF f
<1>2. /\ \A q : q \in rows <=> \E d \in named : q = ImportRow(f, d)
      /\ \A d \in named : d \in Imports(Tree(f))
      /\ IsFiniteSet(named)
      /\ \A d, e : ImportRow(f, d) = ImportRow(f, e) => d = e
  BY <1>1, ImportsNamedAre
<1>3. /\ rows = {} => result = NoLink("dynamic_receiver")
      /\ rows # {} /\ NamedTwice(rows) => result = NoLink("ambiguous")
      /\ \A q : rows = {q} => result = IF ImportedPackage(symbols, imports, q) = NoPackage
                                       THEN NoLink("unsupported_import")
                                       ELSE FunctionOf(symbols, r, ImportedPackage(symbols, imports, q), name,
                                                       "go_imported_package")
  BY SelectorCallIs DEF f
<1>4. /\ \A d \in named : ImportRow(f, d) \in DOMAIN imports
      /\ \A d \in named : imports[ImportRow(f, d)] = ImportTarget(ImportRow(f, d))
  <2>1. \A d \in named : ImportRow(f, d) \in DOMAIN imports
    BY <1>1, <1>2, GoImportRows DEF GoImports
  <2> QED
    BY <2>1 DEF ImportsResolved
<1> HIDE DEF named, rows, result, there
<1>5. CASE named = {}
  <2>1. rows = {}
    BY <1>2, <1>5
  <2>2. Cardinality(named) # 1
    BY <1>5, FS_EmptySet
  <2>3. result = NoLink("dynamic_receiver") /\ meant = {}
    BY <1>3, <2>1, <2>2
  <2> QED
    BY <2>3, NoLinkIsExact DEF result, named, there, f
<1>6. CASE named # {} /\ ~ \E d : named = {d}
  <2>1. Cardinality(named) # 1
    BY <1>2, <1>6, FS_Singleton
  <2>2. rows = {ImportRow(f, d) : d \in named}
    BY <1>2
  <2>3. IsFiniteSet(rows)
    <3> DEFINE g == [d \in named |-> ImportRow(f, d)]
    <3>1. rows = {g[d] : d \in DOMAIN g} /\ IsFiniteSet(DOMAIN g)
      BY <1>2, <2>2
    <3> HIDE DEF g
    <3> QED
      BY <3>1, ImageIsFinite
  <2>4. PICK d \in named : named # {d}
    BY <1>6
  <2>9. PICK e \in named : d # e
    BY <2>4
  <2>5. ImportRow(f, d) # ImportRow(f, e) /\ ImportRow(f, d) \in rows /\ ImportRow(f, e) \in rows
    BY <1>2, <2>4, <2>9
  <2>6. Cardinality(rows) \in Nat /\ Cardinality(rows) # 0 /\ Cardinality(rows) # 1
    BY <2>3, <2>5, FS_CardinalityType, FS_EmptySet, FS_Singleton
  <2>7. NamedTwice(rows)
    BY <2>6 DEF NamedTwice
  <2>8. result = NoLink("ambiguous") /\ meant = {}
    BY <1>3, <2>1, <2>5, <2>7
  <2> QED
    BY <2>8, NoLinkIsExact DEF result, named, there, f
<1>7. CASE \E d : named = {d}
  <2>1. PICK d : named = {d}
    BY <1>7
  <2> DEFINE q == ImportRow(f, d)
             P == ImportedPackages(f, d)
             package == ImportedPackage(symbols, imports, q)
  <2>2. rows = {q}
    BY <1>2, <2>1
  <2>3. \/ P = {} /\ package = NoPackage
        \/ \E p : P = {p} /\ p # "" /\ package = [project |-> f.project, directory |-> path(d), name |-> p]
    BY <1>1, <1>2, <1>4, <2>1, ImportMeans
  <2>4. Cardinality(named) = 1
    BY <2>1, FS_Singleton
  <2>5. meant = IF name \notin Capitalized THEN {} ELSE UNION {there(d, p) : p \in P}
    BY <2>1, <2>4
  <2>6. result = IF package = NoPackage THEN NoLink("unsupported_import")
                 ELSE FunctionOf(symbols, r, package, name, "go_imported_package")
    BY <1>3, <2>2
  <2> HIDE DEF q, P, package, meant
  <2>7. CASE P = {} /\ package = NoPackage
    <3>1. result = NoLink("unsupported_import") /\ meant = {}
      BY <2>5, <2>6, <2>7
    <3> QED
      BY <3>1, NoLinkIsExact DEF result, meant, named, there, f
  <2>8. CASE \E p : P = {p} /\ p # "" /\ package = [project |-> f.project, directory |-> path(d), name |-> p]
    <3>1. PICK p : P = {p} /\ p # "" /\ package = [project |-> f.project, directory |-> path(d), name |-> p]
      BY <2>8
    <3>2. package.project = f.project /\ package.directory = path(d) /\ package.name = p
      BY <3>1
    <3>3. package # NoPackage
      BY <3>1, <3>2 DEF NoPackage
    <3>4. result = FunctionOf(symbols, r, package, name, "go_imported_package")
      BY <2>6, <3>3
    <3>5. Files(package, FALSE) = PackageFiles(f.project, path(d), p, FALSE)
      BY <3>2, FilesArePackageFiles
    <3>6. Exact(result, IF name \notin Capitalized THEN {} ELSE OnlyFunction(TopLevel(Files(package, FALSE), name)),
                name)
      <4> DEFINE evidence == "go_imported_package"
                 tests == evidence = "go_package" /\ IsTest(r.file)
      <4>1. Exact(FunctionOf(symbols, r, package, name, evidence),
                  IF evidence = "go_imported_package" /\ name \notin Capitalized THEN {}
                  ELSE OnlyFunction(TopLevel(Files(package, tests), name)), name)
        BY FunctionIsExact
      <4>2. tests = FALSE
        OBVIOUS
      <4> QED
        BY <3>4, <4>1, <4>2
    <3>7. meant = IF name \notin Capitalized THEN {} ELSE there(d, p)
      BY <2>5, <3>1
    <3>8. Exact(result, meant, name)
      BY <3>5, <3>6, <3>7 DEF there
    <3> QED
      BY <3>8 DEF result, meant, named, there, f
  <2> QED
    BY <2>3, <2>7, <2>8
<1> QED
  BY <1>5, <1>6, <1>7

\* What a call row of a Go file is linked to, case by case of its row.
LEMMA GoCallIsExact ==
  ASSUME SourceIsProgram, Stored, ImportsResolved, NEW r \in CallRows, LangOf(r.file) = "go"
  PROVE  Exact(resolve_go_call(symbols, imports, r), GoMeaning(r), r.name)
<1> DEFINE f == r.file
           i == r.at
           t == Tree(f)
           package == source[f].package
           of == t[i].of
           name == t[i].name
           head == IF of = "" THEN name ELSE of
           named == NamedBy(f, head)
           here == PackageFiles(f.project, directory_of(f), package, IsTest(f))
           there == UNION {UNION {OnlyFunction(TopLevel(PackageFiles(f.project, f.project \o Tail(t[d].path),
                                                                     p, FALSE), name)) :
                                    p \in ImportedPackages(f, d)} : d \in named}
           result == resolve_go_call(symbols, imports, r)
           meant == GoMeaning(r)
<1>1. f \in DOMAIN source /\ r \in Rows(f).refs /\ r.kind = "call"
  BY RowsOfFiles DEF CallRows
<1>2. IsCallRow(f, i, r)
  <2>1. (\E j \in Calls(Tree(f)) : IsCallRow(f, j, r)) \/ \E j \in Imports(Tree(f)) : r = ImportRow(f, j)
    BY <1>1, GoRefRows
  <2>2. \A j : ImportRow(f, j).kind = "import"
    BY DEF ImportRow, Ref
  <2>3. PICK j \in Calls(Tree(f)) : IsCallRow(f, j, r)
    BY <1>1, <2>1, <2>2
  <2>4. j = i
    BY <2>3 DEF IsCallRow
  <2> QED
    BY <2>3, <2>4
<1>3. /\ i \in Calls(t) /\ i \in DOMAIN t /\ r.name = name
      /\ r.path = GoPath(t, package, i) /\ r.blocked = GoBlocked(t, package, i)
  BY <1>2 DEF IsCallRow, Calls
<1>4. WellFormed(t)
  BY <1>1 DEF SourceIsProgram, IsProgram, WellFormed, Tree
<1>5. meant = IF ignored_file(f) \/ package = "" \/ of = "?" \/ Local(t, i, head) THEN {}
              ELSE IF of = ""
              THEN IF named # {} \/ (\E d \in ImportsOf(f) : t[d].name = ".") THEN {}
                   ELSE OnlyFunction(TopLevel(here, name))
              ELSE IF Cardinality(named) # 1 \/ name \notin Capitalized THEN {}
              ELSE there
  BY DEF GoMeaning, Tree, NamedBy
<1>6. Shadowed(t, i, head) <=> Local(t, i, head)
  BY <1>3, <1>4, ShadowedIsLocal
<1>7. result = IF ignored_file(f) THEN NoLink("ignored_go_file")
               ELSE IF r.blocked # "" THEN NoLink(r.blocked)
               ELSE IF r.path = <<>> THEN NoLink("unsupported")
               ELSE IF r.path[1] = "@go" THEN DirectCall(symbols, imports, r)
               ELSE SelectorCall(symbols, imports, r)
  BY DEF resolve_go_call
<1>8. r.blocked = CASE of = "?" -> "dynamic_receiver"
                    [] of # "?" /\ package = "" -> "missing_package"
                    [] of # "?" /\ package # "" -> IF Shadowed(t, i, head) THEN "shadowed_binding" ELSE ""
  BY <1>3 DEF GoBlocked
<1>9. r.path = CASE of = "" -> <<"@go", package, name>>
                 [] of = "?" -> <<>>
                 [] OTHER -> <<"@go_selector", package, of, name>>
  BY <1>3 DEF GoPath
<1> HIDE DEF f, i, t, package, of, name, named, here, there, result, meant
<1>10. CASE ignored_file(f) \/ package = "" \/ of = "?" \/ Local(t, i, head)
  <2>1. meant = {}
    BY <1>5, <1>10
  <2>2. \E why : result = NoLink(why)
    BY <1>6, <1>7, <1>8, <1>10
  <2> QED
    BY <1>3, <2>1, <2>2, NoLinkIsExact DEF result, meant
<1>11. CASE ~(ignored_file(f) \/ package = "" \/ of = "?" \/ Local(t, i, head))
  <2>1. r.blocked = ""
    BY <1>6, <1>8, <1>11
  <2>2. Belongs(f)
    BY <1>1, <1>11 DEF Belongs, GoIndexed, f, package
  <2>3. CASE of = ""
    <3>1. r.path = <<"@go", package, name>>
      BY <1>9, <2>3
    <3>2. r.path # <<>> /\ r.path[1] = "@go" /\ Asks(r, package, name)
      BY <3>1, TupleParts DEF Asks
    <3>3. result = DirectCall(symbols, imports, r)
      BY <1>7, <1>11, <2>1, <3>2
    <3>4. head = name
      BY <2>3
    <3>5. meant = IF named # {} \/ (\E d \in ImportsOf(f) : t[d].name = ".") THEN {}
                  ELSE OnlyFunction(TopLevel(here, name))
      BY <1>5, <1>11, <2>3
    <3>6. GoIndexed(f) /\ source[f].package # "" /\ Asks(r, source[f].package, name)
      BY <2>2, <3>2 DEF Belongs, package
    <3>7. Exact(DirectCall(symbols, imports, r),
                IF NamedBy(f, name) # {} \/ (\E d \in ImportsOf(f) : Tree(f)[d].name = ".") THEN {}
                ELSE OnlyFunction(TopLevel(PackageFiles(f.project, directory_of(f), source[f].package, IsTest(f)),
                                           name)),
                name)
      BY <3>6, DirectCallIsExact DEF f
    <3>8. named = NamedBy(f, name)
      BY <3>4 DEF named
    <3> QED
      BY <1>3, <3>3, <3>5, <3>7, <3>8 DEF result, meant, here, t, package
  <2>4. CASE of # ""
    <3>1. r.path = <<"@go_selector", package, of, name>>
      BY <1>9, <1>11, <2>4
    <3>2. r.path # <<>> /\ r.path[1] # "@go" /\ Selects(r, of, name)
      BY <3>1, TupleParts DEF Selects
    <3>3. result = SelectorCall(symbols, imports, r)
      BY <1>7, <1>11, <2>1, <3>2
    <3>4. head = of
      BY <2>4
    <3>5. meant = IF Cardinality(named) # 1 \/ name \notin Capitalized THEN {} ELSE there
      BY <1>5, <1>11, <2>4
    <3>6. Exact(SelectorCall(symbols, imports, r),
                IF Cardinality(NamedBy(f, of)) # 1 \/ name \notin Capitalized THEN {}
                ELSE UNION {UNION {OnlyFunction(TopLevel(PackageFiles(f.project, f.project \o Tail(Tree(f)[d].path),
                                                                     p, FALSE), name)) :
                                     p \in ImportedPackages(f, d)} : d \in NamedBy(f, of)},
                name)
      BY <2>2, <3>2, SelectorCallIsExact DEF f
    <3>7. named = NamedBy(f, of)
      BY <3>4 DEF named
    <3> QED
      BY <1>3, <3>3, <3>5, <3>6, <3>7 DEF result, meant, there, t
  <2> QED
    BY <2>3, <2>4
<1> QED
  BY <1>10, <1>11
-----------------------------------------------------------------------------
\* Rows and import targets depend on the files alone.
LEMMA RowsAreOfSource ==
  ASSUME source' = source, NEW f
  PROVE  Rows(f)' = Rows(f)
<1>1. GoFile(f)' = GoFile(f)
  BY DEF GoFile
<1>2. ScopedFile(f)' = ScopedFile(f)
  BY DEF ScopedFile, ScopedRows
<1>3. Extracted(f)' = Extracted(f)
  BY <1>1, <1>2 DEF Extracted
<1>4. \A inserted, at, owner : InSymbol(f, inserted, at, owner)' = InSymbol(f, inserted, at, owner)
  BY DEF InSymbol
<1> QED
  BY <1>3, <1>4 DEF Rows, Inserted

LEMMA TargetsAreOfSource ==
  ASSUME source' = source, NEW r
  PROVE  ImportTarget(r)' = ImportTarget(r)
  BY DEF ImportTarget

\* Edges are made of rows and import targets that are all stored.
EdgesFollow ==
  /\ (symbols = {} /\ refs = {}) \/ Stored
  /\ \A r \in DOMAIN imports : imports[r] = ImportTarget(r)
  /\ \A r \in DOMAIN edges :
       /\ Stored /\ ImportsResolved /\ r \in CallRows
       /\ edges[r] = IF LangOf(r.file) = "go" THEN resolve_go_call(symbols, imports, r)
                     ELSE resolve_call(symbols, imports, r)

LEMMA InitHasNoEdges == Init => EdgesFollow
  BY DEF Init, NotYet, EdgesFollow

\* Rows are stored first, then imports, then edges; none is stored twice.
LEMMA EdgesStayResolved == EdgesFollow /\ [Next]_vars => EdgesFollow'
<1> SUFFICES ASSUME EdgesFollow, [Next]_vars PROVE EdgesFollow'
  OBVIOUS
<1>1. source' = source
  BY DEF Next, StoreRows, ResolveImports, ResolveCalls, vars
<1>2. \A f : Rows(f)' = Rows(f)
  BY <1>1, RowsAreOfSource
<1>3. \A r : ImportTarget(r)' = ImportTarget(r)
  BY <1>1, TargetsAreOfSource
<1>4. CASE StoreRows
  <2>1. /\ symbols' = UNION {Rows(f).symbols : f \in DOMAIN source}
        /\ refs' = UNION {Rows(f).refs : f \in DOMAIN source}
        /\ imports' = imports /\ edges' = edges
    BY <1>4 DEF StoreRows
  <2>2. Stored'
    BY <1>1, <1>2, <2>1 DEF Stored
  <2>3. DOMAIN edges = {}
    BY <1>4 DEF StoreRows, EdgesFollow, CallRows
  <2> QED
    BY <1>3, <2>1, <2>2, <2>3 DEF EdgesFollow
<1>5. ASSUME symbols' = symbols, refs' = refs
      PROVE  /\ ((symbols = {} /\ refs = {}) \/ Stored) => ((symbols = {} /\ refs = {}) \/ Stored)'
             /\ Stored => Stored'
             /\ CallRows' = CallRows /\ ImportRows' = ImportRows
  BY <1>1, <1>2, <1>5 DEF Stored, CallRows, ImportRows
<1>6. CASE ResolveImports
  <2>1. /\ symbols' = symbols /\ refs' = refs /\ edges' = edges
        /\ imports = NotYet /\ imports' = [row \in ImportRows |-> ImportTarget(row)]
    BY <1>6 DEF ResolveImports
  <2>2. \A r \in DOMAIN imports' : imports'[r] = ImportTarget(r)'
    BY <1>3, <2>1
  <2>3. ImportsResolved'
    BY <1>5, <2>1, <2>2 DEF ImportsResolved
  <2>4. ASSUME NEW r \in DOMAIN edges PROVE imports' = imports
    <3>1. DOMAIN imports = {} /\ imports = <<>>
      BY <2>1 DEF NotYet
    <3>2. ImportRows = {}
      BY <2>4, <3>1 DEF EdgesFollow, ImportsResolved
    <3>3. [row \in {} |-> ImportTarget(row)] = <<>>
      OBVIOUS
    <3> QED
      BY <2>1, <3>1, <3>2, <3>3
  <2> QED
    BY <1>5, <2>1, <2>2, <2>3, <2>4 DEF EdgesFollow
<1>7. CASE ResolveCalls
  <2>1. /\ symbols' = symbols /\ refs' = refs /\ imports' = imports /\ refs # {}
        /\ DOMAIN imports = ImportRows
        /\ DOMAIN edges' = CallRows
        /\ \A row \in CallRows :
              edges'[row] = IF LangOf(row.file) = "go" THEN resolve_go_call(symbols, imports, row)
                            ELSE resolve_call(symbols, imports, row)
    BY <1>7 DEF ResolveCalls
  <2>2. \A r \in DOMAIN imports' : imports'[r] = ImportTarget(r)'
    BY <1>3, <2>1 DEF EdgesFollow
  <2>3. ImportsResolved'
    BY <1>5, <2>1, <2>2 DEF ImportsResolved
  <2>4. Stored
    BY <2>1 DEF EdgesFollow
  <2> QED
    BY <1>5, <2>1, <2>2, <2>3, <2>4 DEF EdgesFollow
<1>8. CASE UNCHANGED vars
  <2>1. symbols' = symbols /\ refs' = refs /\ imports' = imports /\ edges' = edges
    BY <1>8 DEF vars
  <2>2. \A r \in DOMAIN imports' : imports'[r] = ImportTarget(r)'
    BY <1>3, <2>1 DEF EdgesFollow
  <2>3. ImportsResolved => ImportsResolved'
    BY <1>5, <2>1, <2>2 DEF ImportsResolved
  <2> QED
    BY <1>5, <2>1, <2>2, <2>3 DEF EdgesFollow
<1> QED
  BY <1>4, <1>6, <1>7, <1>8 DEF Next

LEMMA GoEdgesAreExact == SourceIsProgram /\ EdgesFollow => GoCallsAreExact
<1> SUFFICES ASSUME SourceIsProgram, EdgesFollow, NEW r \in DOMAIN edges, LangOf(r.file) = "go"
             PROVE  LET linked == {edges[r].target} \ {NoSymbol}
                    IN  linked \subseteq GoMeaning(r) /\ (linked = GoMeaning(r) \/ Misnamed(r.name))
  BY DEF GoCallsAreExact
<1>1. Stored /\ ImportsResolved /\ r \in CallRows /\ edges[r] = resolve_go_call(symbols, imports, r)
  BY DEF EdgesFollow
<1> QED
  BY <1>1, GoCallIsExact DEF Exact

\* GoCallsAreExact holds for any programs of well-formed trees, finitely many
\* files each: resolve/go.rs finds in the rows what the files say.
THEOREM GoCallsAreRight == Spec => []GoCallsAreExact
  BY InitIsProgram, RowsStayStored, InitHasNoEdges, EdgesStayResolved, GoEdgesAreExact, PTL DEF Spec

(***************************************************************************)
(* Scopes.                                                                 *)
(***************************************************************************)

\* What encloses a node, and what of it a scope can see.
LEMMA AncestorsAre ==
  ASSUME NEW t, WellFormed(t), NEW i \in 0 .. Len(t)
  PROVE  /\ \A a \in Ancestors(t, i) : a \in 1 .. i - 1 /\ a \in DOMAIN t /\ a \in Nat /\ a # 0
         /\ \A a \in Ancestors(t, i) : \A b \in Ancestors(t, i) : a < b => a \in Ancestors(t, b)
         /\ \A a \in Ancestors(t, i) : Ancestors(t, a) \subseteq Ancestors(t, i)
<1>1. Len(t) \in Nat /\ DOMAIN t = 1 .. Len(t)
  BY TreeIsSequence
<1>2. ASSUME NEW a \in Ancestors(t, i)
      PROVE  a \in 1 .. i - 1 /\ a \in DOMAIN t /\ a \in Nat /\ a # 0 /\ i <= t[a].last
             /\ t[a].last \in Nat
  <2>1. a \in 1 .. i - 1 /\ i <= t[a].last
    BY DEF Ancestors
  <2>2. a \in DOMAIN t /\ a \in Nat /\ a # 0
    BY <1>1, <2>1
  <2>3. t[a].last \in a .. Len(t)
    BY <2>2, TreeIsSequence
  <2> QED
    BY <1>1, <2>1, <2>2, <2>3
<1>3. ASSUME NEW a \in Ancestors(t, i), NEW b \in Ancestors(t, i), a < b
      PROVE  a \in Ancestors(t, b)
  <2>1. a \in Nat /\ a # 0 /\ b \in 1 .. i - 1 /\ i <= t[a].last /\ t[a].last \in Nat
    BY <1>2
  <2>2. b \in Nat /\ i \in Nat
    BY <2>1
  <2> QED
    BY <1>3, <2>1, <2>2 DEF Ancestors
<1>4. ASSUME NEW a \in Ancestors(t, i), NEW b \in Ancestors(t, a)
      PROVE  b \in Ancestors(t, i)
  <2>1. a \in 1 .. i - 1 /\ i <= t[a].last /\ a \in Nat /\ t[a].last \in Nat /\ a \in DOMAIN t
    BY <1>2
  <2>2. b \in 1 .. a - 1 /\ a <= t[b].last
    BY DEF Ancestors
  <2>3. b \in DOMAIN t /\ b \in Nat /\ t[b].last \in Nat
    <3>1. b \in 1 .. Len(t) /\ b \in Nat
      BY <1>1, <2>1, <2>2
    <3>2. t[b].last \in b .. Len(t)
      BY <1>1, <3>1, TreeIsSequence
    <3> QED
      BY <1>1, <3>1, <3>2
  <2>4. a \in b + 1 .. t[b].last
    BY <2>1, <2>2, <2>3
  <2>5. t[a].last <= t[b].last
    BY <2>3, <2>4 DEF WellFormed, IsTree
  <2>6. i \in Nat
    BY <1>1
  <2> QED
    BY <2>1, <2>2, <2>3, <2>5, <2>6 DEF Ancestors
<1> QED
  BY <1>2, <1>3, <1>4

LEMMA InnermostIs ==
  ASSUME NEW n \in Nat, NEW S, S \subseteq 0 .. n
  PROVE  /\ Innermost(S) \in S \cup {0} /\ Innermost(S) \in 0 .. n
         /\ \A a \in S : a <= Innermost(S)
<1>1. S \cup {0} \subseteq Nat /\ S \cup {0} # {} /\ \A a \in S \cup {0} : a <= n
  OBVIOUS
<1>2. Max(S \cup {0}) \in S \cup {0} /\ \A a \in S \cup {0} : a <= Max(S \cup {0})
  BY <1>1, MaxIsGreatest
<1> DEFINE m == Max(S \cup {0})
<1>3. m \in S \cup {0} /\ \A a \in S : a <= m
  BY <1>2
<1> HIDE DEF m
<1>4. m \in 0 .. n
  BY <1>3
<1> QED
  BY <1>3, <1>4 DEF Innermost, m

IsMod(t, u) == t[u].kind = "mod"
IsPythonClass(lang, t, u) == u # 0 /\ python_class(lang, t[u])

\* What a scope at node s can see around it, and with itself.
Above(lang, t, s) ==
  {u \in Scopes(lang, t, s) \cup {0} :
     ~IsPythonClass(lang, t, u) /\ \A m \in Ancestors(t, s) : IsMod(t, m) => m <= u}

Seen(lang, t, s) == {s} \cup (IF s = 0 \/ IsMod(t, s) THEN {} ELSE Above(lang, t, s))

Enclosing(lang, t, s) == {a \in Scopes(lang, t, s) : ~IsPythonClass(lang, t, a)}

LEMMA ParentIs ==
  ASSUME NEW lang, NEW t, WellFormed(t), NEW s \in 0 .. Len(t)
  PROVE  /\ s = 0 \/ IsMod(t, s) => Parent(lang, t, s) = NoScope
         /\ ~(s = 0 \/ IsMod(t, s)) =>
              /\ Parent(lang, t, s) \in Enclosing(lang, t, s) \cup {0}
              /\ Parent(lang, t, s) \in 0 .. s - 1
              /\ Parent(lang, t, s) # NoScope
              /\ \A a \in Enclosing(lang, t, s) : a <= Parent(lang, t, s)
<1>1. CASE s = 0 \/ IsMod(t, s)
  BY <1>1 DEF Parent, IsMod
<1>2. CASE ~(s = 0 \/ IsMod(t, s))
  <2>1. Len(t) \in Nat
    BY TreeIsSequence
  <2>2. s \in Nat /\ s # 0 /\ s - 1 \in Nat
    BY <1>2, <2>1
  <2>3. Enclosing(lang, t, s) = {a \in Scopes(lang, t, s) : ~python_class(lang, t[a])}
    <3>1. \A a \in Scopes(lang, t, s) : a # 0
      BY AncestorsAre DEF Scopes
    <3> QED
      BY <3>1 DEF Enclosing, IsPythonClass
  <2>4. Parent(lang, t, s) = Innermost(Enclosing(lang, t, s))
    <3>1. Parent(lang, t, s) = Innermost({a \in Scopes(lang, t, s) : ~python_class(lang, t[a])})
      BY <1>2 DEF Parent, IsMod
    <3> QED
      BY <2>3, <3>1
  <2>5. Enclosing(lang, t, s) \subseteq 0 .. s - 1
    <3>1. \A a \in Scopes(lang, t, s) : a \in 1 .. s - 1
      BY AncestorsAre DEF Scopes
    <3> QED
      BY <2>2, <3>1 DEF Enclosing
  <2>6. \A n \in 0 .. s - 1 : n # NoScope
    BY DEF NoScope
  <2> HIDE DEF Enclosing
  <2>7. /\ Innermost(Enclosing(lang, t, s)) \in Enclosing(lang, t, s) \cup {0}
        /\ Innermost(Enclosing(lang, t, s)) \in 0 .. s - 1
        /\ \A a \in Enclosing(lang, t, s) : a <= Innermost(Enclosing(lang, t, s))
    BY <2>2, <2>5, InnermostIs
  <2> QED
    BY <1>2, <2>4, <2>6, <2>7
<1> QED
  BY <1>1, <1>2

\* A module is a scope, and no class.
LEMMA ModulesEnclose ==
  ASSUME NEW lang, NEW t, NEW s, NEW m \in Ancestors(t, s), IsMod(t, m)
  PROVE  m \in Enclosing(lang, t, s)
  BY DEF Enclosing, Scopes, OpensScope, IsMod, IsPythonClass, python_class

LEMMA SeenByParent ==
  ASSUME NEW lang, NEW t, WellFormed(t), NEW s \in 0 .. Len(t), s # 0, ~IsMod(t, s)
  PROVE  Above(lang, t, s) = Seen(lang, t, Parent(lang, t, s))
<1> DEFINE p == Parent(lang, t, s)
<1>1. Len(t) \in Nat /\ s \in Nat
  BY TreeIsSequence
<1>2. /\ p \in Enclosing(lang, t, s) \cup {0} /\ p \in 0 .. s - 1 /\ p \in 0 .. Len(t) /\ p \in Nat
      /\ \A a \in Enclosing(lang, t, s) : a <= p
  <2>1. p \in Enclosing(lang, t, s) \cup {0} /\ p \in 0 .. s - 1
        /\ \A a \in Enclosing(lang, t, s) : a <= p
    BY ParentIs
  <2> QED
    BY <1>1, <2>1
<1> HIDE DEF p
<1>3. \A a \in Scopes(lang, t, s) : a \in Ancestors(t, s) /\ a \in Nat /\ a # 0
  BY AncestorsAre DEF Scopes
<1>4. ASSUME p # 0
      PROVE  /\ p \in Ancestors(t, s) /\ p \in Scopes(lang, t, s) /\ ~IsPythonClass(lang, t, p)
             /\ \A a \in Ancestors(t, s) : a < p <=> a \in Ancestors(t, p)
  <2>1. p \in Scopes(lang, t, s) /\ ~IsPythonClass(lang, t, p)
    BY <1>2, <1>4 DEF Enclosing
  <2>2. p \in Ancestors(t, s)
    BY <1>3, <2>1
  <2>3. \A a \in Ancestors(t, s) : a < p => a \in Ancestors(t, p)
    BY <2>2, AncestorsAre
  <2>4. \A a \in Ancestors(t, p) : a \in 1 .. p - 1
    BY <1>2, AncestorsAre
  <2>5. \A a \in Ancestors(t, p) : a < p
    BY <1>2, <2>4
  <2> QED
    BY <2>1, <2>2, <2>3, <2>5
<1>5. Ancestors(t, 0) = {}
  BY DEF Ancestors
<1>6. ASSUME NEW u \in Above(lang, t, s)
      PROVE  u \in Seen(lang, t, p)
  <2>1. /\ u \in Scopes(lang, t, s) \cup {0} /\ ~IsPythonClass(lang, t, u)
        /\ \A m \in Ancestors(t, s) : IsMod(t, m) => m <= u
    BY DEF Above
  <2>2. u \in Nat /\ u <= p
    BY <1>2, <1>3, <2>1 DEF Enclosing
  <2>3. CASE u = p
    BY <2>3 DEF Seen
  <2>4. CASE u # p
    <3>1. u < p /\ p # 0
      BY <1>2, <2>2, <2>4
    <3>2. ~IsMod(t, p)
      <4>1. IsMod(t, p) => p <= u
        BY <1>4, <2>1, <3>1
      <4> QED
        BY <1>2, <2>2, <3>1, <4>1
    <3>3. u \in Scopes(lang, t, p) \cup {0}
      <4>1. CASE u = 0
        BY <4>1
      <4>2. CASE u # 0
        <5>1. u \in Scopes(lang, t, s) /\ u \in Ancestors(t, s)
          BY <1>3, <2>1, <4>2
        <5>2. u \in Ancestors(t, p)
          BY <1>4, <3>1, <5>1
        <5> QED
          BY <5>1, <5>2 DEF Scopes
      <4> QED
        BY <4>1, <4>2
    <3>4. \A m \in Ancestors(t, p) : IsMod(t, m) => m <= u
      <4>1. Ancestors(t, p) \subseteq Ancestors(t, s)
        BY <1>4, <3>1, AncestorsAre
      <4> QED
        BY <2>1, <4>1
    <3>5. u \in Above(lang, t, p)
      BY <2>1, <3>3, <3>4 DEF Above
    <3> QED
      BY <3>1, <3>2, <3>5 DEF Seen
  <2> QED
    BY <2>3, <2>4
<1>7. ASSUME NEW u \in Seen(lang, t, p)
      PROVE  u \in Above(lang, t, s)
  <2>1. ASSUME NEW m \in Ancestors(t, s), IsMod(t, m) PROVE m <= p /\ m \in Nat
    BY <1>2, <2>1, ModulesEnclose, AncestorsAre
  <2>2. CASE u = p
    <3>1. u \in Scopes(lang, t, s) \cup {0} /\ ~IsPythonClass(lang, t, u)
      BY <1>2, <2>2 DEF Enclosing, IsPythonClass
    <3> QED
      BY <2>1, <2>2, <3>1 DEF Above
  <2>3. CASE u # p
    <3>1. p # 0 /\ ~IsMod(t, p) /\ u \in Above(lang, t, p)
      BY <2>3 DEF Seen
    <3>2. /\ u \in Scopes(lang, t, p) \cup {0} /\ ~IsPythonClass(lang, t, u)
          /\ \A m \in Ancestors(t, p) : IsMod(t, m) => m <= u
      BY <3>1 DEF Above
    <3>3. u \in Scopes(lang, t, s) \cup {0}
      <4>1. Ancestors(t, p) \subseteq Ancestors(t, s)
        BY <1>4, <3>1, AncestorsAre
      <4> QED
        BY <3>2, <4>1 DEF Scopes
    <3>4. ASSUME NEW m \in Ancestors(t, s), IsMod(t, m) PROVE m <= u
      <4>1. m <= p /\ m \in Nat
        BY <2>1, <3>4
      <4>2. m # p
        BY <3>1, <3>4
      <4>3. m < p
        BY <1>2, <4>1, <4>2
      <4>4. m \in Ancestors(t, p)
        BY <1>4, <3>1, <4>3
      <4> QED
        BY <3>2, <3>4, <4>4
    <3> QED
      BY <3>2, <3>3, <3>4 DEF Above
  <2> QED
    BY <2>2, <2>3
<1> QED
  BY <1>6, <1>7 DEF p

\* c is the function that Chain defines.
ChainFrom(lang, t, c) ==
  c = [u \in 0 .. Len(t) |->
         {u} \cup (IF Parent(lang, t, u) = NoScope THEN {} ELSE c[Parent(lang, t, u)])]

\* The chain of a scope is what it sees.
LEMMA ChainIs ==
  ASSUME NEW lang, NEW t, WellFormed(t), NEW s \in 0 .. Len(t)
  PROVE  Chain(lang, t, s) = Seen(lang, t, s)
<1>1. Len(t) \in Nat
  BY TreeIsSequence
<1> DEFINE seen == [u \in 0 .. Len(t) |-> Seen(lang, t, u)]
<1>2. ASSUME NEW u \in 0 .. Len(t)
      PROVE  /\ Parent(lang, t, u) # NoScope => Parent(lang, t, u) \in 0 .. u - 1 /\ Parent(lang, t, u) \in 0 .. Len(t)
             /\ Seen(lang, t, u) = {u} \cup (IF Parent(lang, t, u) = NoScope THEN {}
                                              ELSE Seen(lang, t, Parent(lang, t, u)))
  <2>1. CASE u = 0 \/ IsMod(t, u)
    BY <2>1, ParentIs DEF Seen
  <2>2. CASE ~(u = 0 \/ IsMod(t, u))
    <3>1. Parent(lang, t, u) # NoScope /\ Parent(lang, t, u) \in 0 .. u - 1
      BY <2>2, ParentIs
    <3>2. Parent(lang, t, u) \in 0 .. Len(t)
      BY <1>1, <3>1
    <3>3. Seen(lang, t, u) = {u} \cup Above(lang, t, u)
      BY <2>2 DEF Seen
    <3>4. Above(lang, t, u) = Seen(lang, t, Parent(lang, t, u))
      BY <2>2, SeenByParent
    <3> QED
      BY <3>1, <3>2, <3>3, <3>4
  <2> QED
    BY <2>1, <2>2
<1>3. ChainFrom(lang, t, seen)
  BY <1>2 DEF ChainFrom
<1>4. ASSUME NEW c, ChainFrom(lang, t, c)
      PROVE  \A u \in 0 .. Len(t) : c[u] = Seen(lang, t, u)
  <2> DEFINE bad == {u \in 0 .. Len(t) : c[u] # Seen(lang, t, u)}
  <2>1. CASE bad = {}
    BY <2>1
  <2>2. CASE bad # {}
    <3>1. bad \subseteq Nat
      BY <1>1
    <3>2. PICK u \in bad : \A v \in bad : u <= v
      <4> HIDE DEF bad
      <4> QED
        BY <2>2, <3>1, LeastNatural
    <3>3. u \in 0 .. Len(t) /\ u \in Nat
      BY <3>1, <3>2
    <3>4. c[u] = {u} \cup (IF Parent(lang, t, u) = NoScope THEN {} ELSE c[Parent(lang, t, u)])
      BY <1>4, <3>3 DEF ChainFrom
    <3>5. Parent(lang, t, u) # NoScope => c[Parent(lang, t, u)] = Seen(lang, t, Parent(lang, t, u))
      <4>1. Parent(lang, t, u) # NoScope => Parent(lang, t, u) \in 0 .. u - 1 /\ Parent(lang, t, u) \in 0 .. Len(t)
        BY <1>2, <3>3
      <4>2. \A v \in 0 .. u - 1 : v \notin bad
        <5> HIDE DEF bad
        <5> QED
          BY <3>2, <3>3
      <4> QED
        BY <4>1, <4>2
    <3>6. c[u] = Seen(lang, t, u)
      BY <1>2, <3>3, <3>4, <3>5
    <3> QED
      BY <3>2, <3>6
  <2> QED
    BY <2>1, <2>2
<1> HIDE DEF seen
<1>5. ChainFrom(lang, t, CHOOSE c : ChainFrom(lang, t, c))
  BY <1>3
<1>6. Chain(lang, t, s) = (CHOOSE c : ChainFrom(lang, t, c))[s]
  BY DEF Chain, ChainFrom
<1> QED
  BY <1>4, <1>5, <1>6

\* The scopes around a node.
LEMMA ScopesAre ==
  ASSUME NEW lang, NEW t, WellFormed(t), NEW i \in DOMAIN t
  PROVE  /\ Scopes(lang, t, i) \subseteq Ancestors(t, i)
         /\ Scopes(lang, t, i) \subseteq 1 .. i - 1 /\ Scopes(lang, t, i) \subseteq 1 .. Len(t)
         /\ ScopeAt(lang, t, i) \in Scopes(lang, t, i) \cup {0} /\ ScopeAt(lang, t, i) \in 0 .. Len(t)
         /\ \A a \in Scopes(lang, t, i) : a <= ScopeAt(lang, t, i)
         /\ i \in 0 .. Len(t) /\ i \in Nat /\ i # 0 /\ Len(t) \in Nat
<1>1. Len(t) \in Nat /\ i \in 0 .. Len(t) /\ i \in Nat /\ i # 0 /\ i \in 1 .. Len(t)
  BY TreeIsSequence
<1>2. Scopes(lang, t, i) \subseteq Ancestors(t, i)
  BY DEF Scopes
<1>3. Scopes(lang, t, i) \subseteq 1 .. i - 1
  BY <1>1, <1>2, AncestorsAre
<1>4. Scopes(lang, t, i) \subseteq 1 .. Len(t) /\ Scopes(lang, t, i) \subseteq 0 .. Len(t)
  BY <1>1, <1>3
<1>5. /\ Innermost(Scopes(lang, t, i)) \in Scopes(lang, t, i) \cup {0}
      /\ Innermost(Scopes(lang, t, i)) \in 0 .. Len(t)
      /\ \A a \in Scopes(lang, t, i) : a <= Innermost(Scopes(lang, t, i))
  BY <1>1, <1>4, InnermostIs
<1> QED
  BY <1>1, <1>2, <1>3, <1>4, <1>5 DEF ScopeAt

IsMember(lang, t, u) == member_namespace(lang, t, u)

\* A call reads the names of the scopes that lookup passes.
LEMMA ReadableIs ==
  ASSUME NEW lang, NEW t, WellFormed(t), NEW i \in DOMAIN t
  PROVE  /\ Readable(lang, t, i) = {u \in Chain(lang, t, ScopeAt(lang, t, i)) : ~IsMember(lang, t, u)}
         /\ Chain(lang, t, ScopeAt(lang, t, i)) \subseteq Scopes(lang, t, i) \cup {0}
         /\ Chain(lang, t, ScopeAt(lang, t, i)) \subseteq 0 .. Len(t)
<1> DEFINE s == ScopeAt(lang, t, i)
<1>1. /\ Scopes(lang, t, i) \subseteq Ancestors(t, i)
      /\ Scopes(lang, t, i) \subseteq 1 .. Len(t) /\ Len(t) \in Nat
      /\ s \in Scopes(lang, t, i) \cup {0} /\ s \in 0 .. Len(t)
      /\ \A a \in Scopes(lang, t, i) : a <= s
      /\ i \in 0 .. Len(t) /\ i \in Nat
  BY ScopesAre
<1> HIDE DEF s
<1>2. Chain(lang, t, s) = Seen(lang, t, s)
  BY <1>1, ChainIs
<1>3. ASSUME s # 0
      PROVE  /\ s \in Ancestors(t, i)
             /\ \A a \in Scopes(lang, t, i) : a # s => a \in Scopes(lang, t, s)
             /\ \A a \in Scopes(lang, t, s) : a \in Scopes(lang, t, i) /\ a < s
             /\ \A m \in Ancestors(t, i) : IsMod(t, m) => m = s \/ m \in Ancestors(t, s)
             /\ Ancestors(t, s) \subseteq Ancestors(t, i)
  <2>1. s \in Ancestors(t, i) /\ s \in Nat
    BY <1>1, <1>3
  <2>2. \A a \in Ancestors(t, i) : a < s => a \in Ancestors(t, s)
    BY <1>1, <2>1, AncestorsAre
  <2>3. \A a \in Scopes(lang, t, i) : a \in Nat /\ a \in Ancestors(t, i) /\ OpensScope(lang, t[a])
    BY <1>1 DEF Scopes
  <2>4. \A a \in Scopes(lang, t, i) : a # s => a \in Scopes(lang, t, s)
    BY <1>1, <2>1, <2>2, <2>3 DEF Scopes
  <2>5. Ancestors(t, s) \subseteq Ancestors(t, i)
    BY <1>1, <2>1, AncestorsAre
  <2>6. \A a \in Scopes(lang, t, s) : a \in Scopes(lang, t, i) /\ a < s
    <3>1. \A a \in Ancestors(t, s) : a \in 1 .. s - 1
      BY <1>1, AncestorsAre
    <3>2. \A a \in Ancestors(t, s) : a < s
      BY <2>1, <3>1
    <3> QED
      BY <2>5, <3>2 DEF Scopes
  <2>7. \A m \in Ancestors(t, i) : IsMod(t, m) => m = s \/ m \in Ancestors(t, s)
    <3>1. \A m \in Ancestors(t, i) : IsMod(t, m) => m \in Scopes(lang, t, i)
      BY ModulesEnclose DEF Enclosing
    <3>2. \A m \in Scopes(lang, t, s) : m \in Ancestors(t, s)
      BY DEF Scopes
    <3> QED
      BY <2>4, <3>1, <3>2
  <2> QED
    BY <2>1, <2>4, <2>5, <2>6, <2>7
<1>4. ASSUME s = 0
      PROVE  Scopes(lang, t, i) = {} /\ \A m \in Ancestors(t, i) : ~IsMod(t, m)
  <2>1. \A a \in Scopes(lang, t, i) : a \in Nat /\ a # 0 /\ a <= 0
    BY <1>1, <1>4
  <2>2. Scopes(lang, t, i) = {}
    BY <2>1
  <2> QED
    BY <2>2, ModulesEnclose DEF Enclosing
\* Readable, in the terms of the chain.
<1>5. ASSUME NEW u
      PROVE  u \in Readable(lang, t, i) <=>
               /\ u \in Scopes(lang, t, i) \cup {0}
               /\ ~IsMember(lang, t, u)
               /\ \A m \in Ancestors(t, i) : IsMod(t, m) => m <= u
               /\ IsPythonClass(lang, t, u) => \A a \in Scopes(lang, t, i) : a <= u
  BY DEF Readable, IsMember, member_namespace, IsMod, IsPythonClass, python_class
<1>6. ASSUME NEW u \in Readable(lang, t, i)
      PROVE  u \in Seen(lang, t, s) /\ ~IsMember(lang, t, u)
  <2>1. /\ u \in Scopes(lang, t, i) \cup {0}
        /\ ~IsMember(lang, t, u)
        /\ \A m \in Ancestors(t, i) : IsMod(t, m) => m <= u
        /\ IsPythonClass(lang, t, u) => \A a \in Scopes(lang, t, i) : a <= u
    BY <1>5
  <2>2. CASE u = s
    BY <2>1, <2>2 DEF Seen
  <2>3. CASE u # s
    <3>1. s # 0 /\ u \in Scopes(lang, t, s) \cup {0}
      BY <1>3, <1>4, <2>1, <2>3
    <3>2. u \in Nat /\ u < s /\ s \in Scopes(lang, t, i)
      BY <1>1, <1>3, <2>1, <2>3, <3>1
    <3>3. ~IsPythonClass(lang, t, u)
      BY <2>1, <3>2, <1>1
    <3>4. ~IsMod(t, s)
      <4>1. IsMod(t, s) => s <= u
        BY <1>3, <2>1, <3>1
      <4> QED
        BY <1>1, <3>2, <4>1
    <3>5. \A m \in Ancestors(t, s) : IsMod(t, m) => m <= u
      BY <1>3, <2>1, <3>1
    <3> QED
      BY <2>1, <3>1, <3>3, <3>4, <3>5 DEF Seen, Above
  <2> QED
    BY <2>2, <2>3
<1>7. ASSUME NEW u \in Seen(lang, t, s)
      PROVE  u \in Scopes(lang, t, i) \cup {0}
  <2>1. CASE u = s
    BY <1>1, <2>1
  <2>2. CASE u # s
    <3>1. s # 0 /\ u \in Scopes(lang, t, s) \cup {0}
      BY <2>2 DEF Seen, Above
    <3> QED
      BY <1>3, <3>1
  <2> QED
    BY <2>1, <2>2
<1>8. ASSUME NEW u \in Seen(lang, t, s), ~IsMember(lang, t, u)
      PROVE  u \in Readable(lang, t, i)
  <2>1. CASE u = s
    <3>1. \A m \in Ancestors(t, i) : IsMod(t, m) => m <= u
      BY <1>1, <2>1, ModulesEnclose DEF Enclosing
    <3> QED
      BY <1>1, <1>5, <1>8, <2>1, <3>1
  <2>2. CASE u # s
    <3>1. /\ s # 0 /\ ~IsMod(t, s) /\ u \in Scopes(lang, t, s) \cup {0} /\ ~IsPythonClass(lang, t, u)
          /\ \A m \in Ancestors(t, s) : IsMod(t, m) => m <= u
      BY <2>2 DEF Seen, Above
    <3>2. \A m \in Ancestors(t, i) : IsMod(t, m) => m <= u
      BY <1>3, <3>1
    <3> QED
      BY <1>5, <1>7, <1>8, <3>1, <3>2
  <2> QED
    BY <2>1, <2>2
<1>9. Readable(lang, t, i) = {u \in Chain(lang, t, s) : ~IsMember(lang, t, u)}
  BY <1>2, <1>6, <1>8
<1>10. Chain(lang, t, s) \subseteq Scopes(lang, t, i) \cup {0} /\ Chain(lang, t, s) \subseteq 0 .. Len(t)
  BY <1>1, <1>2, <1>7
<1> QED
  BY <1>9, <1>10 DEF s

\* What apply takes for declarations, assignments and their variable.
Binders(lang, t, s, x) ==
  {d \in DOMAIN t :
     \/ t[d].kind \in {"function", "class", "fn_let", "fn_var", "pattern", "var", "for", "global", "nonlocal"}
          /\ t[d].name = x /\ Home(lang, t, d) = s
     \/ OpensScope(lang, t[d]) /\ d = s /\ x \in t[d].params
     \/ t[d].kind \in {"import", "import_other"}
          /\ x \in Mentioned(lang, t[d]) /\ Home(lang, t, d) = s}

BinderScope(lang, t, i, x) ==
  Max({NoScope} \cup {s \in Readable(lang, t, i) : Binders(lang, t, s, x) # {}})

Reassigners(lang, t, s, x) ==
  {i \in DOMAIN t : Ecma(lang) /\ t[i].kind = "reassign" /\ t[i].name = x
                    /\ BinderScope(lang, t, i, x) = s}

BoundWriters(lang, t, i, x) ==
  LET s == BinderScope(lang, t, i, x)
  IN  IF s = NoScope THEN {} ELSE Binders(lang, t, s, x) \cup Reassigners(lang, t, s, x)

BoundDefinition(lang, t, i, x) ==
  {d \in BoundWriters(lang, t, i, x) : BoundWriters(lang, t, i, x) = {d} /\ Defines(t[d]) /\ t[d].name = x
                                       /\ d # BinderScope(lang, t, i, x)}

BoundImport(lang, t, i, x) ==
  {d \in BoundWriters(lang, t, i, x) : BoundWriters(lang, t, i, x) = {d} /\ NamesImport(lang, t[d])
                                       /\ t[d].name = x}

\* What apply binds is what it takes for declared.
LEMMA BoundAreBinders ==
  ASSUME NEW lang, NEW t, WellFormed(t), NEW s, NEW x, NEW d \in DOMAIN t
  PROVE  Binds(lang, t, d, s, x) <=> d \in Binders(lang, t, s, x)
<1>1. /\ Scopes(lang, t, d) \subseteq Nat
      /\ binding_scope(lang, t, d) = Home(lang, t, d)
  <2>1. Scopes(lang, t, d) \subseteq Nat
    BY ScopesAre
  <2>2. CASE t[d].kind \in {"var", "fn_var"}
    <3>1. {a \in Scopes(lang, t, d) : t[a].kind \in Functions}
            = {a \in Scopes(lang, t, d) : t[d].kind \in {"var", "fn_var"} => t[a].kind \in Functions}
      BY <2>2
    <3> DEFINE A == {a \in Scopes(lang, t, d) : t[a].kind \in Functions}
    <3>2. binding_scope(lang, t, d) = Max(A \cup {0}) /\ Home(lang, t, d) = Max({0} \cup A)
      BY <2>2, <3>1 DEF binding_scope, Home, Innermost
    <3> HIDE DEF A
    <3>3. A \cup {0} = {0} \cup A
      OBVIOUS
    <3> QED
      BY <2>1, <3>2, <3>3, Zenon
  <2>3. CASE t[d].kind \notin {"var", "fn_var"}
    <3>1. {a \in Scopes(lang, t, d) : t[d].kind \in {"var", "fn_var"} => t[a].kind \in Functions}
            = Scopes(lang, t, d)
      BY <2>3
    <3> DEFINE A == Scopes(lang, t, d)
    <3>2. binding_scope(lang, t, d) = Max(A \cup {0}) /\ Home(lang, t, d) = Max({0} \cup A)
      BY <2>3, <3>1 DEF binding_scope, Home, ScopeAt, Innermost
    <3> HIDE DEF A
    <3>3. A \cup {0} = {0} \cup A
      OBVIOUS
    <3> QED
      BY <2>1, <3>2, <3>3, Zenon
  <2> QED
    BY <2>1, <2>2, <2>3
<1>2. t[d].kind \in {"import", "import_other"} => ScopeAt(lang, t, d) = Home(lang, t, d)
  BY <1>1 DEF binding_scope
<1> QED
  BY <1>1, <1>2 DEF Binds, Binders, Defines

(***************************************************************************)
(* Bindings.                                                               *)
(***************************************************************************)

\* f is the visit of Collected for name x in scope s.
VisitFrom(lang, t, s, x, f) ==
  f = [i \in 0 .. Len(t) |->
         IF i = 0 THEN Unbound
         ELSE IF Binds(lang, t, i, s, x) THEN BindNode(lang, t, f[i - 1], i, s, x)
         ELSE f[i - 1]]

LEMMA VisitIsDefined ==
  ASSUME NEW lang, NEW t, Len(t) \in Nat, NEW s, NEW x
  PROVE  \E f : VisitFrom(lang, t, s, x, f) /\ Visited(lang, t, s, x) = f[Len(t)]
<1> DEFINE step(b, i) == IF i = 0 THEN Unbound
                         ELSE IF Binds(lang, t, i, s, x) THEN BindNode(lang, t, b, i, s, x) ELSE b
           isVisit(f, n) == f = [i \in 0 .. n |-> step(f[i - 1], i)]
           bad == {n \in Nat : ~ \E f : isVisit(f, n)}
<1>1. bad = {}
  <2> SUFFICES ASSUME bad # {} PROVE FALSE
    OBVIOUS
  <2>1. PICK n \in bad : \A j \in bad : n <= j
    BY LeastNatural
  <2>2. n # 0
    <3> DEFINE f == [i \in 0 .. 0 |-> Unbound]
    <3>1. isVisit(f, 0)
      OBVIOUS
    <3> QED
      BY <2>1, <3>1
  <2>3. n \in Nat /\ n - 1 \in Nat /\ n - 1 \notin bad
    <3>1. n \in Nat
      BY <2>1
    <3> HIDE DEF bad
    <3> QED
      BY <2>1, <2>2, <3>1
  <2> HIDE DEF step
  <2>4. PICK f : isVisit(f, n - 1)
    BY <2>3
  <2> DEFINE g == [i \in 0 .. n |-> IF i = n THEN step(f[n - 1], n) ELSE f[i]]
  <2>5. ASSUME NEW i \in 0 .. n PROVE g[i] = step(g[i - 1], i)
    <3>1. CASE i = n
      BY <2>2, <2>3, <3>1
    <3>2. CASE i # n /\ i # 0
      <4>1. i \in 0 .. n - 1 /\ i - 1 \in 0 .. n /\ i - 1 # n
        BY <2>3, <3>2
      <4> QED
        BY <2>4, <3>2, <4>1
    <3>3. CASE i # n /\ i = 0
      <4>1. i \in 0 .. n - 1
        BY <2>3, <3>3
      <4>2. step(g[i - 1], i) = step(f[i - 1], i)
        BY <3>3 DEF step
      <4> QED
        BY <2>4, <3>3, <4>1, <4>2
    <3> QED
      BY <3>1, <3>2, <3>3
  <2>6. isVisit(g, n)
    BY <2>5
  <2> QED
    BY <2>1, <2>6
<1>2. \E f : isVisit(f, Len(t))
  BY <1>1
<1> HIDE DEF bad
<1>3. \A f : isVisit(f, Len(t)) <=> VisitFrom(lang, t, s, x, f)
  BY DEF VisitFrom
<1> HIDE DEF isVisit
<1>4. VisitFrom(lang, t, s, x, CHOOSE f : VisitFrom(lang, t, s, x, f))
  BY <1>2, <1>3
<1>5. Visited(lang, t, s, x) = (CHOOSE f : VisitFrom(lang, t, s, x, f))[Len(t)]
  BY DEF Visited, VisitFrom
<1> QED
  BY <1>4, <1>5

\* The nodes up to i that bind x in s.
BoundBy(lang, t, s, x, i) == {d \in DOMAIN t : d <= i /\ Binds(lang, t, d, s, x)}

NodeBinding(lang, t, d, s, x) == BindNode(lang, t, Unbound, d, s, x)

\* What is bound says which one node binds the name, if it is one.
Tells(lang, t, s, x, b, D) ==
  /\ b = Unbound <=> D = {}
  /\ \A d \in D : D = {d} => b = NodeBinding(lang, t, d, s, x)
  /\ (\A d \in D : D # {d}) /\ D # {} => b.target = NoTarget /\ b.import = NoImport

LEMMA NodeBindingIs ==
  ASSUME NEW lang, NEW t, NEW d, NEW s, NEW x
  PROVE  LET b == NodeBinding(lang, t, d, s, x)
             named == NamesImport(lang, t[d]) /\ x = t[d].name
             defined == t[d].kind \notin {"import", "import_other"} /\ Defines(t[d]) /\ s # d
         IN  /\ b # Unbound
             /\ b.import = IF named THEN Imported(lang, t[d]) ELSE NoImport
             /\ b.target = IF defined THEN d ELSE NoTarget
<1>1. /\ Imported(lang, t[d]) # NoImport
      /\ NamesImport(lang, t[d]) => t[d].kind \in {"import", "import_other"}
  BY DEF Imported, NoImport, NamesImport
<1>2. \A import : bind_import(Unbound, import) = [target |-> NoTarget, import |-> import, reason |-> "imported"]
  BY DEF bind_import
<1>3. \A target, why : bind(Unbound, target, why) = [target |-> target, import |-> NoImport, reason |-> why]
  BY DEF bind
<1>4. \A target, import : \A why \in {"imported", "external", "ambiguous", "shadowed"} :
        [target |-> target, import |-> import, reason |-> why] # Unbound
  BY DEF Unbound
<1> DEFINE b == NodeBinding(lang, t, d, s, x)
           named == NamesImport(lang, t[d]) /\ x = t[d].name
<1>5. CASE t[d].kind \in {"import", "import_other"} /\ named
  <2>1. b = bind_import(Unbound, Imported(lang, t[d]))
    BY <1>5 DEF NodeBinding, BindNode, Defines
  <2> QED
    BY <1>2, <1>4, <1>5, <2>1
<1>6. CASE t[d].kind \in {"import", "import_other"} /\ ~named
  <2>1. b = bind(Unbound, NoTarget, "external")
    BY <1>6 DEF NodeBinding, BindNode, Defines
  <2> QED
    BY <1>3, <1>4, <1>6, <2>1
<1>7. CASE t[d].kind \notin {"import", "import_other"} /\ Defines(t[d]) /\ s # d
  <2>1. b = bind(Unbound, d, "ambiguous")
    BY <1>7 DEF NodeBinding, BindNode
  <2> QED
    BY <1>1, <1>3, <1>4, <1>7, <2>1
<1>8. CASE t[d].kind \notin {"import", "import_other"} /\ ~(Defines(t[d]) /\ s # d)
  <2>1. b = bind(Unbound, NoTarget, "shadowed")
    BY <1>8 DEF NodeBinding, BindNode
  <2> QED
    BY <1>1, <1>3, <1>4, <1>8, <2>1
<1> QED
  BY <1>5, <1>6, <1>7, <1>8

\* A second node leaves neither a target nor an import.
LEMMA SecondBinding ==
  ASSUME NEW lang, NEW t, NEW d, d # NoTarget, NEW s, NEW x, NEW b, b # Unbound, b.target # d
  PROVE  LET next == BindNode(lang, t, b, d, s, x)
         IN  next # Unbound /\ next.target = NoTarget /\ next.import = NoImport
<1>1. bind_import(b, Imported(lang, t[d])) = [target |-> NoTarget, import |-> NoImport, reason |-> "shadowed"]
  BY DEF bind_import
<1>2. ASSUME NEW why \in {"external", "shadowed"}
      PROVE  LET next == bind(b, NoTarget, why)
             IN  next # Unbound /\ next.target = NoTarget /\ next.import = NoImport
  BY DEF bind, Unbound
<1>3. LET next == bind(b, d, "ambiguous")
      IN  next # Unbound /\ next.target = NoTarget /\ next.import = NoImport
  BY DEF bind, Unbound
<1>4. [target |-> NoTarget, import |-> NoImport, reason |-> "shadowed"] # Unbound
  BY DEF Unbound
<1> DEFINE next == BindNode(lang, t, b, d, s, x)
<1>5. \/ next = bind_import(b, Imported(lang, t[d])) \/ next = bind(b, NoTarget, "external")
      \/ next = bind(b, d, "ambiguous") \/ next = bind(b, NoTarget, "shadowed")
  BY DEF BindNode
<1> HIDE DEF next
<1>6. next # Unbound /\ next.target = NoTarget /\ next.import = NoImport
  BY <1>1, <1>2, <1>3, <1>4, <1>5
<1> QED
  BY <1>6 DEF next

LEMMA VisitTells ==
  ASSUME NEW lang, NEW t, WellFormed(t), NEW s \in 0 .. Len(t), NEW x, NEW f, VisitFrom(lang, t, s, x, f),
         NEW i \in 0 .. Len(t)
  PROVE  Tells(lang, t, s, x, f[i], BoundBy(lang, t, s, x, i))
<1>1. Len(t) \in Nat /\ DOMAIN t = 1 .. Len(t)
  BY TreeIsSequence
<1>2. \A j \in 0 .. Len(t) :
        f[j] = IF j = 0 THEN Unbound
               ELSE IF Binds(lang, t, j, s, x) THEN BindNode(lang, t, f[j - 1], j, s, x) ELSE f[j - 1]
  BY DEF VisitFrom
<1> DEFINE good(j) == Tells(lang, t, s, x, f[j], BoundBy(lang, t, s, x, j))
           bad == {j \in 0 .. Len(t) : ~good(j)}
<1>3. good(0)
  <2>1. f[0] = Unbound /\ BoundBy(lang, t, s, x, 0) = {}
    BY <1>1, <1>2 DEF BoundBy
  <2> QED
    BY <2>1 DEF Tells
<1>4. ASSUME NEW j \in 1 .. Len(t), good(j - 1) PROVE good(j)
  <2>1. j \in 0 .. Len(t) /\ j # 0 /\ j \in DOMAIN t /\ j \in Nat
    BY <1>1
  <2> DEFINE D == BoundBy(lang, t, s, x, j - 1)
  <2>2. CASE ~Binds(lang, t, j, s, x)
    <3>1. f[j] = f[j - 1]
      BY <1>2, <2>1, <2>2
    <3>2. BoundBy(lang, t, s, x, j) = D
      BY <1>1, <2>1, <2>2 DEF BoundBy
    <3> QED
      BY <1>4, <3>1, <3>2
  <2>3. CASE Binds(lang, t, j, s, x)
    <3>1. f[j] = BindNode(lang, t, f[j - 1], j, s, x)
      BY <1>2, <2>1, <2>3
    <3>2. BoundBy(lang, t, s, x, j) = D \cup {j} /\ j \notin D
      BY <1>1, <2>1, <2>3 DEF BoundBy
    <3>3. Tells(lang, t, s, x, f[j - 1], D)
      BY <1>4
    <3> HIDE DEF D
    <3>4. CASE D = {}
      <4>1. f[j - 1] = Unbound
        BY <3>3, <3>4 DEF Tells
      <4>2. f[j] = NodeBinding(lang, t, j, s, x) /\ f[j] # Unbound
        BY <3>1, <4>1, NodeBindingIs DEF NodeBinding
      <4>3. D \cup {j} = {j}
        BY <3>4
      <4> QED
        BY <3>2, <4>2, <4>3 DEF Tells
    <3>5. CASE D # {}
      <4>1. f[j - 1] # Unbound
        BY <3>3, <3>5 DEF Tells
      <4>2. f[j - 1].target # j
        <5>1. CASE \A d \in D : D # {d}
          <6>1. f[j - 1].target = NoTarget
            BY <3>3, <3>5, <5>1 DEF Tells
          <6> QED
            BY <2>1, <6>1 DEF NoTarget
        <5>2. CASE \E d \in D : D = {d}
          <6>1. PICK d \in D : D = {d}
            BY <5>2
          <6>2. f[j - 1] = NodeBinding(lang, t, d, s, x)
            BY <3>3, <6>1 DEF Tells
          <6>3. f[j - 1].target \in {d, NoTarget}
            BY <6>2, NodeBindingIs
          <6> QED
            BY <2>1, <3>2, <6>3 DEF NoTarget
        <5> QED
          BY <5>1, <5>2
      <4>3. f[j] # Unbound /\ f[j].target = NoTarget /\ f[j].import = NoImport
        BY <2>1, <3>1, <4>1, <4>2, SecondBinding DEF NoTarget
      <4>4. \A d \in D \cup {j} : D \cup {j} # {d}
        BY <3>2, <3>5
      <4> QED
        BY <3>2, <4>3, <4>4 DEF Tells
    <3> QED
      BY <3>4, <3>5
  <2> QED
    BY <2>2, <2>3
<1> HIDE DEF good
<1>5. CASE bad # {}
  <2>1. bad \subseteq Nat
    BY <1>1
  <2>2. PICK j \in bad : \A k \in bad : j <= k
    <3> HIDE DEF bad
    <3> QED
      BY <1>5, <2>1, LeastNatural
  <2>3. j \in 0 .. Len(t) /\ ~good(j) /\ j # 0 /\ j \in 1 .. Len(t)
    BY <1>1, <1>3
  <2>4. j - 1 \in 0 .. Len(t) /\ j - 1 < j /\ j - 1 \in Nat
    BY <1>1, <2>3
  <2>5. j - 1 \notin bad
    <3> HIDE DEF bad
    <3> QED
      BY <2>1, <2>2, <2>4
  <2>6. good(j - 1)
    BY <2>4, <2>5
  <2> QED
    BY <1>4, <2>3, <2>6
<1>6. CASE bad = {}
  BY <1>6 DEF good
<1> QED
  BY <1>5, <1>6

LEMMA CollectedTells ==
  ASSUME NEW lang, NEW t, WellFormed(t), NEW s \in 0 .. Len(t), NEW x
  PROVE  Tells(lang, t, s, x, Visited(lang, t, s, x), Binders(lang, t, s, x))
<1>1. Len(t) \in Nat /\ DOMAIN t = 1 .. Len(t)
  BY TreeIsSequence
<1>2. PICK f : VisitFrom(lang, t, s, x, f) /\ Visited(lang, t, s, x) = f[Len(t)]
  BY <1>1, VisitIsDefined
<1>3. Tells(lang, t, s, x, f[Len(t)], BoundBy(lang, t, s, x, Len(t)))
  BY <1>1, <1>2, VisitTells
<1>4. BoundBy(lang, t, s, x, Len(t)) = Binders(lang, t, s, x)
  <2>1. Binders(lang, t, s, x) \subseteq DOMAIN t
    BY DEF Binders
  <2>2. \A d \in DOMAIN t : d <= Len(t)
    BY <1>1
  <2> QED
    BY <2>1, <2>2, BoundAreBinders DEF BoundBy
<1> QED
  BY <1>2, <1>3, <1>4

\* The scopes around node i that declare x and that i can read.
BindingScopes(lang, t, i, x) ==
  {s \in Readable(lang, t, i) : Binders(lang, t, s, x) # {}}

LEMMA VariableIs ==
  ASSUME NEW lang, NEW t, WellFormed(t), NEW i \in DOMAIN t, NEW x
  PROVE  LET H == BindingScopes(lang, t, i, x)
             v == BinderScope(lang, t, i, x)
         IN  /\ H \subseteq 0 .. Len(t) /\ Len(t) \in Nat
             /\ H = {} => v = NoScope
             /\ H # {} => v \in H /\ v \in 0 .. Len(t) /\ v # NoScope /\ Max(H) = v
<1> DEFINE H == BindingScopes(lang, t, i, x)
<1>1. Len(t) \in Nat
  BY TreeIsSequence
<1>2. H \subseteq 0 .. Len(t)
  BY ReadableIs DEF BindingScopes
<1>3. BinderScope(lang, t, i, x) = Max({NoScope} \cup H)
  BY DEF BinderScope, BindingScopes
<1> HIDE DEF H
<1>4. CASE H = {}
  <2>1. {NoScope} \cup H = {NoScope}
    BY <1>4
  <2>2. Max({NoScope}) = NoScope
    BY DEF Max, NoScope
  <2> QED
    BY <1>1, <1>2, <1>3, <1>4, <2>1, <2>2 DEF H
<1>5. CASE H # {}
  <2>1. H \subseteq Nat /\ \A y \in H : y <= Len(t)
    BY <1>1, <1>2
  <2>2. Max(H) \in H /\ \A y \in H : y <= Max(H)
    BY <1>1, <1>5, <2>1, MaxIsGreatest
  <2> DEFINE m == Max(H)
  <2>3. m \in H /\ m \in Nat /\ \A y \in H : y <= m
    BY <2>1, <2>2
  <2> HIDE DEF m
  <2>4. m \in {NoScope} \cup H /\ \A y \in {NoScope} \cup H : m >= y
    BY <2>1, <2>3 DEF NoScope
  <2>5. \A z \in {NoScope} \cup H : (\A y \in {NoScope} \cup H : z >= y) => z = m
    BY <2>1, <2>3, <2>4 DEF NoScope
  <2>6. Max({NoScope} \cup H) = m
    BY <2>4, <2>5 DEF Max
  <2>7. m # NoScope
    BY <2>3 DEF NoScope
  <2> QED
    BY <1>1, <1>2, <1>3, <1>5, <2>3, <2>6, <2>7 DEF H, m
<1> QED
  BY <1>4, <1>5

LEMMA CollectedIs ==
  ASSUME NEW lang, NEW t, WellFormed(t), NEW s \in 0 .. Len(t), NEW x \in Sought(t)
  PROVE  /\ <<s, x>> \in DOMAIN Collected(lang, t)
         /\ Collected(lang, t)[<<s, x>>] = Visited(lang, t, s, x)
         /\ Collected(lang, t)[<<s, x>>] = Unbound <=> Binders(lang, t, s, x) = {}
<1>1. <<s, x>> \in (0 .. Len(t)) \X Sought(t)
  OBVIOUS
<1>2. Collected(lang, t)[<<s, x>>] = Visited(lang, t, s, x) /\ <<s, x>> \in DOMAIN Collected(lang, t)
  BY <1>1 DEF Collected
<1>3. Visited(lang, t, s, x) = Unbound <=> Binders(lang, t, s, x) = {}
  BY CollectedTells DEF Tells
<1> QED
  BY <1>2, <1>3

\* Nothing binds a name in the body of an ECMAScript class.
LEMMA MembersAreUnbound ==
  ASSUME NEW lang, Ecma(lang), NEW t, WellFormed(t), MembersOnly(t), NEW s \in 0 .. Len(t),
         IsMember(lang, t, s), NEW x
  PROVE  Binders(lang, t, s, x) = {}
<1>1. s # 0 /\ t[s].kind = "class" /\ s \in DOMAIN t
  <2>1. s # 0 /\ t[s].kind = "class"
    BY DEF IsMember, member_namespace, Ecma
  <2> QED
    BY <2>1, TreeIsSequence
<1>2. ASSUME NEW d \in Binders(lang, t, s, x) PROVE FALSE
  <2>1. d \in DOMAIN t
    BY DEF Binders
  <2>2. CASE OpensScope(lang, t[d]) /\ d = s /\ x \in t[d].params
    BY <1>1, <2>1, <2>2 DEF MembersOnly
  <2>3. CASE ~(OpensScope(lang, t[d]) /\ d = s /\ x \in t[d].params)
    <3>1. /\ t[d].kind \in {"function", "class", "fn_let", "fn_var", "pattern", "var", "for", "global",
                         "nonlocal", "import", "import_other"}
          /\ Home(lang, t, d) = s
      BY <2>3 DEF Binders
    <3> DEFINE A == {a \in Scopes(lang, t, d) : t[d].kind \in {"var", "fn_var"} => t[a].kind \in Functions}
    <3>2. Home(lang, t, d) = Innermost(A)
      <4>1. Home(lang, t, d) = Max({0} \cup A) /\ Innermost(A) = Max(A \cup {0})
        BY DEF Home, Innermost
      <4>2. A \cup {0} = {0} \cup A
        OBVIOUS
      <4> HIDE DEF A
      <4> QED
        BY <4>1, <4>2, Zenon
    <3>3. A \subseteq 0 .. Len(t) /\ Len(t) \in Nat
      <4>1. Scopes(lang, t, d) \subseteq 1 .. Len(t) /\ Len(t) \in Nat
        BY <2>1, ScopesAre
      <4> QED
        BY <4>1
    <3>4. s \in A
      <4> HIDE DEF A
      <4>1. Innermost(A) \in A \cup {0}
        BY <3>3, InnermostIs
      <4> QED
        BY <1>1, <3>1, <3>2, <4>1
    <3>5. CASE t[d].kind \in {"var", "fn_var"}
      BY <1>1, <3>4, <3>5 DEF Functions
    <3>6. CASE t[d].kind \notin {"var", "fn_var"}
      <4>1. A = Scopes("javascript", t, d)
        <5>1. A = Scopes(lang, t, d)
          BY <3>6
        <5>2. lang # "python" /\ "javascript" # "python"
          BY DEF Ecma
        <5>3. \A node : OpensScope(lang, node) <=> OpensScope("javascript", node)
          BY <5>2 DEF OpensScope
        <5> QED
          BY <5>1, <5>3 DEF Scopes
      <4>2. s = Innermost(Scopes("javascript", t, d))
        BY <3>1, <3>2, <4>1
      <4> QED
        BY <1>1, <2>1, <3>1, <3>6, <4>2 DEF MembersOnly
    <3> QED
      BY <3>5, <3>6
  <2> QED
    BY <2>2, <2>3
<1> QED
  BY <1>2

LEMMA ReassignedIs ==
  ASSUME NEW lang, NEW t, WellFormed(t), Ecma(lang) => MembersOnly(t), NEW s \in 0 .. Len(t),
         NEW x \in Sought(t)
  PROVE  Reassigned(lang, t, Collected(lang, t), s, x) <=> Reassigners(lang, t, s, x) # {}
<1> DEFINE collected == Collected(lang, t)
           bound(i) == {u \in Chain(lang, t, ScopeAt(lang, t, i)) : collected[<<u, x>>] # Unbound}
<1>1. ASSUME NEW i \in DOMAIN t, Ecma(lang)
      PROVE  bound(i) = BindingScopes(lang, t, i, x)
  <2>1. /\ Chain(lang, t, ScopeAt(lang, t, i)) \subseteq 0 .. Len(t)
        /\ Readable(lang, t, i) = {u \in Chain(lang, t, ScopeAt(lang, t, i)) : ~IsMember(lang, t, u)}
    BY ReadableIs
  <2>2. ASSUME NEW u \in 0 .. Len(t)
        PROVE  /\ collected[<<u, x>>] # Unbound <=> Binders(lang, t, u, x) # {}
               /\ IsMember(lang, t, u) => Binders(lang, t, u, x) = {}
    BY <1>1, CollectedIs, MembersAreUnbound
  <2> QED
    BY <2>1, <2>2 DEF BindingScopes
<1> HIDE DEF bound
<1>2. ASSUME NEW i \in DOMAIN t, Ecma(lang)
      PROVE  (bound(i) # {} /\ s = Max(bound(i))) <=> BinderScope(lang, t, i, x) = s
  <2>1. bound(i) = BindingScopes(lang, t, i, x)
    BY <1>1, <1>2
  <2>2. s # NoScope
    BY DEF NoScope
  <2> QED
    BY <2>1, <2>2, VariableIs
<1>3. Reassigned(lang, t, collected, s, x) <=>
        \E i \in DOMAIN t : /\ Ecma(lang) /\ t[i].kind = "reassign" /\ t[i].name = x
                            /\ bound(i) # {} /\ s = Max(bound(i))
  BY DEF Reassigned, bound
<1>4. Reassigners(lang, t, s, x) # {} <=>
        \E i \in DOMAIN t : /\ Ecma(lang) /\ t[i].kind = "reassign" /\ t[i].name = x
                            /\ BinderScope(lang, t, i, x) = s
  BY DEF Reassigners
<1> HIDE DEF collected
<1>5. Reassigned(lang, t, collected, s, x) <=> Reassigners(lang, t, s, x) # {}
  BY <1>2, <1>3, <1>4
<1> QED
  BY <1>5 DEF collected

LEMMA BindingsAre ==
  ASSUME NEW lang, NEW t, WellFormed(t), Ecma(lang) => MembersOnly(t), NEW s \in 0 .. Len(t),
         NEW x \in Sought(t)
  PROVE  LET b == Bindings(lang, t)[<<s, x>>]
             D == Binders(lang, t, s, x)
         IN  /\ b = Unbound <=> D = {}
             /\ D # {} /\ Reassigners(lang, t, s, x) # {} => b.target = NoTarget /\ b.import = NoImport
             /\ Reassigners(lang, t, s, x) = {} => Tells(lang, t, s, x, b, D)
<1> DEFINE c == Collected(lang, t)[<<s, x>>]
           b == Bindings(lang, t)[<<s, x>>]
           none == [target |-> NoTarget, import |-> NoImport, reason |-> "reassigned"]
<1>1. /\ <<s, x>> \in DOMAIN Collected(lang, t) /\ c = Visited(lang, t, s, x)
      /\ c = Unbound <=> Binders(lang, t, s, x) = {}
  BY CollectedIs
<1>2. <<s, x>>[1] = s /\ <<s, x>>[2] = x
  OBVIOUS
<1>3. b = IF c # Unbound /\ Reassigned(lang, t, Collected(lang, t), s, x) THEN none ELSE c
  BY <1>1, <1>2 DEF Bindings, Invalidated
<1>4. Reassigned(lang, t, Collected(lang, t), s, x) <=> Reassigners(lang, t, s, x) # {}
  BY ReassignedIs
<1>5. none # Unbound /\ none.target = NoTarget /\ none.import = NoImport
  BY DEF Unbound
<1>6. Tells(lang, t, s, x, c, Binders(lang, t, s, x))
  BY <1>1, CollectedTells
<1> HIDE DEF b, c, none
<1> QED
  BY <1>1, <1>3, <1>4, <1>5, <1>6 DEF b

\* What a lookup finds, in those terms.
LEMMA BindingsAreBound ==
  ASSUME NEW lang, NEW t, WellFormed(t), Ecma(lang) => MembersOnly(t), NEW i \in DOMAIN t,
         NEW x \in Sought(t)
  PROVE  LET b == lookup(lang, t, Bindings(lang, t), ScopeAt(lang, t, i), x)
         IN  /\ b = Unbound <=> BinderScope(lang, t, i, x) = NoScope
             /\ {b.target} \ {NoTarget} = BoundDefinition(lang, t, i, x)
             /\ b.import = NoImport <=> BoundImport(lang, t, i, x) = {}
             /\ \A d \in BoundImport(lang, t, i, x) : b.import = Imported(lang, t[d])
<1> DEFINE bindings == Bindings(lang, t)
           b == lookup(lang, t, bindings, ScopeAt(lang, t, i), x)
           holders == {u \in Chain(lang, t, ScopeAt(lang, t, i)) :
                         ~member_namespace(lang, t, u) /\ bindings[<<u, x>>] # Unbound}
           v == BinderScope(lang, t, i, x)
           W == BoundWriters(lang, t, i, x)
<1>1. holders = BindingScopes(lang, t, i, x)
  <2>1. /\ Chain(lang, t, ScopeAt(lang, t, i)) \subseteq 0 .. Len(t)
        /\ Readable(lang, t, i) = {u \in Chain(lang, t, ScopeAt(lang, t, i)) : ~member_namespace(lang, t, u)}
    BY ReadableIs DEF IsMember
  <2>2. \A u \in 0 .. Len(t) : bindings[<<u, x>>] # Unbound <=> Binders(lang, t, u, x) # {}
    BY BindingsAre
  <2> QED
    BY <2>1, <2>2 DEF BindingScopes
<1>2. b = IF holders = {} THEN Unbound ELSE bindings[<<Max(holders), x>>]
  BY DEF lookup
<1>3. /\ holders = {} => v = NoScope
      /\ holders # {} => v \in holders /\ v \in 0 .. Len(t) /\ v # NoScope /\ Max(holders) = v
  BY <1>1, VariableIs
<1>4. CASE holders = {}
  <2>1. b = Unbound /\ v = NoScope /\ W = {}
    BY <1>2, <1>3, <1>4 DEF BoundWriters
  <2>2. BoundDefinition(lang, t, i, x) = {} /\ BoundImport(lang, t, i, x) = {}
    BY <2>1 DEF BoundDefinition, BoundImport
  <2>3. b.target = NoTarget /\ b.import = NoImport
    BY <2>1 DEF Unbound, NoBinding, NoTarget
  <2> QED
    BY <2>1, <2>2, <2>3
<1>5. CASE holders # {}
  <2> DEFINE D == Binders(lang, t, v, x)
             A == Reassigners(lang, t, v, x)
  <2>1. /\ b = bindings[<<v, x>>] /\ v # NoScope /\ v \in 0 .. Len(t) /\ D # {}
        /\ W = D \cup A
    BY <1>1, <1>2, <1>3, <1>5 DEF BoundWriters, BindingScopes
  <2>2. /\ b = Unbound <=> D = {}
        /\ A # {} => b.target = NoTarget /\ b.import = NoImport
        /\ A = {} => Tells(lang, t, v, x, b, D)
    BY <2>1, BindingsAre
  <2>3. D \cap A = {} /\ D \subseteq DOMAIN t
    BY DEF Binders, Reassigners, OpensScope, Functions
  <2>4. \A d \in DOMAIN t : d # NoTarget
    BY TreeIsSequence DEF NoTarget
  <2>5. \A d \in D : /\ Defines(t[d]) /\ d # v => t[d].name = x
                     /\ NamesImport(lang, t[d]) => ~Defines(t[d])
                     /\ Defines(t[d]) => t[d].kind \notin {"import", "import_other"}
    BY DEF Binders, Defines, NamesImport
  <2>6. /\ BoundDefinition(lang, t, i, x) = {d \in W : W = {d} /\ Defines(t[d]) /\ t[d].name = x /\ d # v}
        /\ BoundImport(lang, t, i, x) = {d \in W : W = {d} /\ NamesImport(lang, t[d]) /\ t[d].name = x}
    BY DEF BoundDefinition, BoundImport
  <2> HIDE DEF D, A, W, b, v
  <2>7. CASE \A d \in W : W # {d}
    <3>1. b.target = NoTarget /\ b.import = NoImport
      <4>1. CASE A # {}
        BY <2>2, <4>1
      <4>2. CASE A = {}
        <5>1. D = W
          BY <2>1, <4>2
        <5> QED
          BY <2>1, <2>2, <2>7, <4>2, <5>1 DEF Tells
      <4> QED
        BY <4>1, <4>2
    <3> QED
      BY <2>1, <2>2, <2>6, <2>7, <3>1 DEF b, v
  <2>8. CASE \E d \in W : W = {d}
    <3>1. PICK d \in W : W = {d}
      BY <2>8
    <3>2. A = {} /\ D = {d} /\ d \in DOMAIN t /\ d # NoTarget
      <4>1. A = {}
        BY <2>1, <2>3, <3>1
      <4> QED
        BY <2>1, <2>3, <2>4, <3>1, <4>1
    <3>3. b = NodeBinding(lang, t, d, v, x)
      BY <2>2, <3>2 DEF Tells
    <3>4. /\ b.import = IF NamesImport(lang, t[d]) /\ x = t[d].name THEN Imported(lang, t[d]) ELSE NoImport
          /\ b.target = IF t[d].kind \notin {"import", "import_other"} /\ Defines(t[d]) /\ v # d
                        THEN d ELSE NoTarget
      BY <3>3, NodeBindingIs
    <3>5. BoundDefinition(lang, t, i, x) = IF Defines(t[d]) /\ d # v THEN {d} ELSE {}
      BY <2>5, <2>6, <3>1, <3>2
    <3>6. BoundImport(lang, t, i, x) = IF NamesImport(lang, t[d]) /\ t[d].name = x THEN {d} ELSE {}
      BY <2>6, <3>1
    <3>7. {b.target} \ {NoTarget} = BoundDefinition(lang, t, i, x)
      BY <2>5, <3>2, <3>4, <3>5
    <3>8. Imported(lang, t[d]) # NoImport
      BY DEF Imported, NoImport
    <3>9. /\ b.import = NoImport <=> BoundImport(lang, t, i, x) = {}
          /\ \A e \in BoundImport(lang, t, i, x) : b.import = Imported(lang, t[e])
      BY <3>4, <3>6, <3>8
    <3> QED
      BY <2>1, <2>2, <3>7, <3>9 DEF b, v
  <2> QED
    BY <2>7, <2>8
<1> QED
  BY <1>4, <1>5

\* For a plain name these are the declarations and assignments of the language.
LEMMA PlainIsBound ==
  ASSUME NEW lang, NEW t, NEW x, PlainName(t, x)
  PROVE  \A i \in DOMAIN t : /\ VariableAt(lang, t, i, x) = BinderScope(lang, t, i, x)
                             /\ Writers(lang, t, i, x) = BoundWriters(lang, t, i, x)
                             /\ OnlyDefinition(lang, t, i, x) = BoundDefinition(lang, t, i, x)
                             /\ OnlyImport(lang, t, i, x) = BoundImport(lang, t, i, x)
<1>1. \A d \in DOMAIN t : t[d].name = x => t[d].kind \notin {"for", "global", "nonlocal", "unread"}
  BY DEF PlainName
<1>2. ASSUME NEW s PROVE Declarations(lang, t, s, x) = Binders(lang, t, s, x)
  BY <1>1 DEF Declarations, Binders
<1>3. ASSUME NEW i PROVE Skipped(lang, t, i, x) = {}
  BY <1>1 DEF Skipped
<1>4. ASSUME NEW i PROVE VariableAt(lang, t, i, x) = BinderScope(lang, t, i, x)
  <2>1. {s \in Readable(lang, t, i) \ Skipped(lang, t, i, x) : Declarations(lang, t, s, x) # {}}
          = {s \in Readable(lang, t, i) : Binders(lang, t, s, x) # {}}
    BY <1>2, <1>3
  <2> QED
    BY <2>1 DEF VariableAt, BinderScope
<1>5. ASSUME NEW s PROVE Assignments(lang, t, s, x) = Reassigners(lang, t, s, x)
  <2>1. ASSUME NEW i \in DOMAIN t
        PROVE  i \in Assignments(lang, t, s, x) <=> i \in Reassigners(lang, t, s, x)
    BY <1>1, <1>3, <1>4 DEF Assignments, Reassigners
  <2>2. Assignments(lang, t, s, x) \subseteq DOMAIN t /\ Reassigners(lang, t, s, x) \subseteq DOMAIN t
    BY DEF Assignments, Reassigners
  <2> QED
    BY <2>1, <2>2
<1>6. ASSUME NEW i PROVE Writers(lang, t, i, x) = BoundWriters(lang, t, i, x)
  BY <1>2, <1>4, <1>5 DEF Writers, BoundWriters
<1> QED
  BY <1>4, <1>6 DEF OnlyDefinition, OnlyImport, BoundDefinition, BoundImport

\* For every plain name a call begins with, of any tree in any of the three
\* languages: apply finds a binding if the name is declared in a scope that can be
\* read; the binding has a target if that definition is all that ever gives the
\* name a value, and an import if one import is.  parse/scopes.rs.
THEOREM BindingsAreExact ==
  ASSUME NEW lang, NEW t, WellFormed(t), Ecma(lang) => MembersOnly(t), NEW i \in DOMAIN t,
         NEW x \in Sought(t), PlainName(t, x)
  PROVE  LET b == lookup(lang, t, Bindings(lang, t), ScopeAt(lang, t, i), x)
         IN  /\ b = Unbound <=> VariableAt(lang, t, i, x) = NoScope
             /\ {b.target} \ {NoTarget} = OnlyDefinition(lang, t, i, x)
             /\ b.import = NoImport <=> OnlyImport(lang, t, i, x) = {}
             /\ \A d \in OnlyImport(lang, t, i, x) : b.import = Imported(lang, t[d])
<1>1. /\ VariableAt(lang, t, i, x) = BinderScope(lang, t, i, x)
      /\ OnlyDefinition(lang, t, i, x) = BoundDefinition(lang, t, i, x)
      /\ OnlyImport(lang, t, i, x) = BoundImport(lang, t, i, x)
  BY PlainIsBound
<1> QED
  BY <1>1, BindingsAreBound

-----------------------------------------------------------------------------
(***************************************************************************)
(* Specifiers: the files that imports mean.                                *)
(***************************************************************************)


NormalizeFrom(base, path, f) ==
  f = [k \in 0 .. Len(path) |->
         IF k = 0 THEN base
         ELSE CASE f[k - 1] = Outside \/ path[k] = "." -> f[k - 1]
                [] f[k - 1] # Outside /\ path[k] = ".." ->
                     IF f[k - 1] = <<>> THEN Outside ELSE Front(f[k - 1])
                [] OTHER -> Append(f[k - 1], path[k])]

ReachedFrom(dir, path, f) ==
  f = [k \in 0 .. Len(path) |->
         IF k = 0 THEN {dir}
         ELSE CASE path[k] = "." -> f[k - 1]
                [] path[k] = ".." -> {Front(d) : d \in f[k - 1] \ {<<>>}}
                [] OTHER -> {Append(d, path[k]) : d \in f[k - 1]}]

LEMMA NormalizeIsDefined ==
  ASSUME NEW base, NEW path, Len(path) \in Nat
  PROVE  \E f : NormalizeFrom(base, path, f) /\ normalize(base, path) = f[Len(path)]
<1> DEFINE step(b, k) == IF k = 0 THEN base
                         ELSE CASE b = Outside \/ path[k] = "." -> b
                                [] b # Outside /\ path[k] = ".." -> IF b = <<>> THEN Outside ELSE Front(b)
                                [] OTHER -> Append(b, path[k])
           isWalk(f, n) == f = [k \in 0 .. n |-> step(f[k - 1], k)]
           bad == {n \in Nat : ~ \E f : isWalk(f, n)}
<1>1. bad = {}
  <2> SUFFICES ASSUME bad # {} PROVE FALSE
    OBVIOUS
  <2>1. PICK n \in bad : \A j \in bad : n <= j
    BY LeastNatural
  <2>2. n # 0
    <3> DEFINE f == [k \in 0 .. 0 |-> base]
    <3>1. isWalk(f, 0)
      OBVIOUS
    <3> QED
      BY <2>1, <3>1
  <2>3. n \in Nat /\ n - 1 \in Nat /\ n - 1 \notin bad
    <3>1. n \in Nat
      BY <2>1
    <3> HIDE DEF bad
    <3> QED
      BY <2>1, <2>2, <3>1
  <2> HIDE DEF step
  <2>4. PICK f : isWalk(f, n - 1)
    BY <2>3
  <2> DEFINE g == [k \in 0 .. n |-> IF k = n THEN step(f[n - 1], n) ELSE f[k]]
  <2>5. ASSUME NEW k \in 0 .. n PROVE g[k] = step(g[k - 1], k)
    <3>1. CASE k = n
      BY <2>2, <2>3, <3>1
    <3>2. CASE k # n /\ k # 0
      <4>1. k \in 0 .. n - 1 /\ k - 1 \in 0 .. n /\ k - 1 # n
        BY <2>3, <3>2
      <4> QED
        BY <2>4, <3>2, <4>1
    <3>3. CASE k # n /\ k = 0
      <4>1. k \in 0 .. n - 1
        BY <2>3, <3>3
      <4>2. step(g[k - 1], k) = step(f[k - 1], k)
        BY <3>3 DEF step
      <4> QED
        BY <2>4, <3>3, <4>1, <4>2
    <3> QED
      BY <3>1, <3>2, <3>3
  <2>6. isWalk(g, n)
    BY <2>5
  <2> QED
    BY <2>1, <2>6
<1>2. \E f : isWalk(f, Len(path))
  BY <1>1
<1> HIDE DEF bad
<1>3. \A f : isWalk(f, Len(path)) <=> NormalizeFrom(base, path, f)
  BY DEF NormalizeFrom
<1> HIDE DEF isWalk
<1>4. NormalizeFrom(base, path, CHOOSE f : NormalizeFrom(base, path, f))
  BY <1>2, <1>3
<1>5. normalize(base, path) = (CHOOSE f : NormalizeFrom(base, path, f))[Len(path)]
  BY DEF normalize, NormalizeFrom
<1> QED
  BY <1>4, <1>5

LEMMA ReachedIsDefined ==
  ASSUME NEW dir, NEW path, Len(path) \in Nat
  PROVE  \E f : ReachedFrom(dir, path, f) /\ Reached(dir, path) = f[Len(path)]
<1> DEFINE step(b, k) == IF k = 0 THEN {dir}
                         ELSE CASE path[k] = "." -> b
                                [] path[k] = ".." -> {Front(d) : d \in b \ {<<>>}}
                                [] OTHER -> {Append(d, path[k]) : d \in b}
           isWalk(f, n) == f = [k \in 0 .. n |-> step(f[k - 1], k)]
           bad == {n \in Nat : ~ \E f : isWalk(f, n)}
<1>1. bad = {}
  <2> SUFFICES ASSUME bad # {} PROVE FALSE
    OBVIOUS
  <2>1. PICK n \in bad : \A j \in bad : n <= j
    BY LeastNatural
  <2>2. n # 0
    <3> DEFINE f == [k \in 0 .. 0 |-> {dir}]
    <3>1. isWalk(f, 0)
      OBVIOUS
    <3> QED
      BY <2>1, <3>1
  <2>3. n \in Nat /\ n - 1 \in Nat /\ n - 1 \notin bad
    <3>1. n \in Nat
      BY <2>1
    <3> HIDE DEF bad
    <3> QED
      BY <2>1, <2>2, <3>1
  <2> HIDE DEF step
  <2>4. PICK f : isWalk(f, n - 1)
    BY <2>3
  <2> DEFINE g == [k \in 0 .. n |-> IF k = n THEN step(f[n - 1], n) ELSE f[k]]
  <2>5. ASSUME NEW k \in 0 .. n PROVE g[k] = step(g[k - 1], k)
    <3>1. CASE k = n
      BY <2>2, <2>3, <3>1
    <3>2. CASE k # n /\ k # 0
      <4>1. k \in 0 .. n - 1 /\ k - 1 \in 0 .. n /\ k - 1 # n
        BY <2>3, <3>2
      <4> QED
        BY <2>4, <3>2, <4>1
    <3>3. CASE k # n /\ k = 0
      <4>1. k \in 0 .. n - 1
        BY <2>3, <3>3
      <4>2. step(g[k - 1], k) = step(f[k - 1], k)
        BY <3>3 DEF step
      <4> QED
        BY <2>4, <3>3, <4>1, <4>2
    <3> QED
      BY <3>1, <3>2, <3>3
  <2>6. isWalk(g, n)
    BY <2>5
  <2> QED
    BY <2>1, <2>6
<1>2. \E f : isWalk(f, Len(path))
  BY <1>1
<1> HIDE DEF bad
<1>3. \A f : isWalk(f, Len(path)) <=> ReachedFrom(dir, path, f)
  BY DEF ReachedFrom
<1> HIDE DEF isWalk
<1>4. ReachedFrom(dir, path, CHOOSE f : ReachedFrom(dir, path, f))
  BY <1>2, <1>3
<1>5. Reached(dir, path) = (CHOOSE f : ReachedFrom(dir, path, f))[Len(path)]
  BY DEF Reached, ReachedFrom
<1> QED
  BY <1>4, <1>5

\* Directories below the root: no part of them leads up.
Clean == {d \in Seq(STRING) : \A j \in DOMAIN d : d[j] # ".."}

LEMMA CleanSteps ==
  ASSUME NEW d \in Clean
  PROVE  /\ d # Outside
         /\ d # <<>> => Front(d) \in Clean
         /\ \A p \in STRING : p # ".." => Append(d, p) \in Clean
<1>1. d \in Seq(STRING) /\ \A j \in DOMAIN d : d[j] # ".."
  BY DEF Clean
<1>2. d # Outside
  <2> SUFFICES ASSUME d = Outside PROVE FALSE
    OBVIOUS
  <2>1. 1 \in DOMAIN d /\ d[1] = ".."
    BY DEF Outside
  <2> QED
    BY <1>1, <2>1
<1>3. ASSUME d # <<>> PROVE Front(d) \in Clean
  <2>1. Front(d) = SubSeq(d, 1, Len(d) - 1)
    BY DEF Front
  <2>2. SubSeq(d, 1, Len(d) - 1) \in Seq(STRING)
        /\ \A j \in 1 .. Len(d) - 1 : SubSeq(d, 1, Len(d) - 1)[j] = d[j]
        /\ DOMAIN SubSeq(d, 1, Len(d) - 1) = 1 .. Len(d) - 1
    BY <1>1, <1>3
  <2> DEFINE front == SubSeq(d, 1, Len(d) - 1)
  <2> HIDE DEF front
  <2>3. \A j \in DOMAIN front : front[j] # ".."
    <3>1. \A j \in 1 .. Len(d) - 1 : j \in DOMAIN d
      BY <1>1
    <3> QED
      BY <1>1, <2>2, <3>1 DEF front
  <2>4. front \in Clean
    BY <2>2, <2>3 DEF Clean, front
  <2> QED
    BY <2>1, <2>4 DEF front
<1>4. ASSUME NEW p \in STRING, p # ".." PROVE Append(d, p) \in Clean
  <2>1. /\ Append(d, p) \in Seq(STRING) /\ DOMAIN Append(d, p) = 1 .. Len(d) + 1
        /\ \A j \in 1 .. Len(d) : Append(d, p)[j] = d[j]
        /\ Append(d, p)[Len(d) + 1] = p /\ DOMAIN d = 1 .. Len(d) /\ Len(d) \in Nat
    BY <1>1
  <2> DEFINE next == Append(d, p)
  <2> HIDE DEF next
  <2>2. \A j \in DOMAIN next : next[j] # ".."
    <3>1. \A j \in 1 .. Len(d) + 1 : j = Len(d) + 1 \/ j \in 1 .. Len(d)
      BY <2>1
    <3> QED
      BY <1>1, <1>4, <2>1, <3>1 DEF next
  <2> QED
    BY <2>1, <2>2 DEF Clean, next
<1> QED
  BY <1>2, <1>3, <1>4

LEMMA LastOfAppend ==
  ASSUME NEW d \in Seq(STRING), NEW x \in STRING
  PROVE  Append(d, x) # <<>> /\ Last(Append(d, x)) = x
<1> DEFINE s == Append(d, x)
<1>1. s \in Seq(STRING) /\ Len(s) = Len(d) + 1 /\ s[Len(d) + 1] = x /\ Len(d) \in Nat
  BY AppendProperties, LenProperties, Zenon
<1> HIDE DEF s
<1>2. s # <<>>
  BY <1>1
<1>3. Last(s) = x
  BY <1>1 DEF Last
<1> QED
  BY <1>2, <1>3 DEF s

\* What the code normalizes to is where the path leads.
LEMMA ReachedIs ==
  ASSUME NEW dir \in Clean, NEW path \in Seq(STRING)
  PROVE  \/ normalize(dir, path) = Outside /\ Reached(dir, path) = {}
         \/ /\ normalize(dir, path) \in Clean /\ Reached(dir, path) = {normalize(dir, path)}
            /\ path # <<>> /\ Last(path) \notin {".", ".."} =>
                 normalize(dir, path) # <<>> /\ Last(normalize(dir, path)) = Last(path)
<1>1. Len(path) \in Nat /\ \A k \in 1 .. Len(path) : path[k] \in STRING
  OBVIOUS
<1>2. PICK f : NormalizeFrom(dir, path, f) /\ normalize(dir, path) = f[Len(path)]
  BY <1>1, NormalizeIsDefined
<1>3. PICK g : ReachedFrom(dir, path, g) /\ Reached(dir, path) = g[Len(path)]
  BY <1>1, ReachedIsDefined
<1> DEFINE good(k) == \/ f[k] = Outside /\ g[k] = {}
                      \/ f[k] \in Clean /\ g[k] = {f[k]}
           bad == {k \in 0 .. Len(path) : ~good(k)}
<1>4. good(0)
  <2>1. f[0] = dir /\ g[0] = {dir}
    BY <1>1, <1>2, <1>3 DEF NormalizeFrom, ReachedFrom
  <2> QED
    BY <2>1
<1>5. ASSUME NEW k \in 1 .. Len(path), good(k - 1) PROVE good(k)
  <2>1. k \in 0 .. Len(path) /\ k # 0 /\ path[k] \in STRING
    BY <1>1
  <2>2. f[k] = CASE f[k - 1] = Outside \/ path[k] = "." -> f[k - 1]
                 [] f[k - 1] # Outside /\ path[k] = ".." ->
                      IF f[k - 1] = <<>> THEN Outside ELSE Front(f[k - 1])
                 [] OTHER -> Append(f[k - 1], path[k])
    BY <1>2, <2>1 DEF NormalizeFrom
  <2>3. g[k] = CASE path[k] = "." -> g[k - 1]
                 [] path[k] = ".." -> {Front(d) : d \in g[k - 1] \ {<<>>}}
                 [] OTHER -> {Append(d, path[k]) : d \in g[k - 1]}
    BY <1>3, <2>1 DEF ReachedFrom
  <2>4. CASE f[k - 1] = Outside /\ g[k - 1] = {}
    <3>1. f[k] = Outside
      BY <2>2, <2>4
    <3>2. g[k] = {}
      BY <2>3, <2>4
    <3> QED
      BY <3>1, <3>2
  <2>5. CASE f[k - 1] \in Clean /\ g[k - 1] = {f[k - 1]}
    <3> DEFINE d == f[k - 1]
    <3>1. d # Outside /\ (d # <<>> => Front(d) \in Clean) /\ (path[k] # ".." => Append(d, path[k]) \in Clean)
      BY <2>1, <2>5, CleanSteps
    <3> HIDE DEF d
    <3>2. CASE path[k] = "."
      BY <2>2, <2>3, <2>5, <3>2
    <3>3. CASE path[k] = ".." /\ d = <<>>
      BY <2>2, <2>3, <2>5, <3>1, <3>3 DEF d
    <3>4. CASE path[k] = ".." /\ d # <<>>
      <4>1. f[k] = Front(d)
        BY <2>2, <3>1, <3>4 DEF d
      <4>2. g[k] = {Front(d)}
        BY <2>3, <2>5, <3>4 DEF d
      <4> QED
        BY <3>1, <3>4, <4>1, <4>2
    <3>5. CASE path[k] \notin {".", ".."}
      <4>1. f[k] = Append(d, path[k])
        BY <2>2, <3>1, <3>5 DEF d
      <4>2. g[k] = {Append(d, path[k])}
        BY <2>3, <2>5, <3>5 DEF d
      <4> QED
        BY <3>1, <3>5, <4>1, <4>2
    <3> QED
      BY <3>2, <3>3, <3>4, <3>5
  <2> QED
    BY <1>5, <2>4, <2>5
<1>6. bad = {}
  <2> SUFFICES ASSUME bad # {} PROVE FALSE
    OBVIOUS
  <2> HIDE DEF good
  <2>1. PICK k \in bad : \A j \in bad : k <= j
    <3>1. bad \subseteq Nat
      BY <1>1
    <3> HIDE DEF bad
    <3> QED
      BY <3>1, LeastNatural
  <2>2. k \in 1 .. Len(path) /\ k - 1 \in 0 .. Len(path) /\ k - 1 \notin bad
    <3>1. k \in 0 .. Len(path) /\ k # 0
      BY <1>4
    <3> HIDE DEF bad
    <3> QED
      BY <1>1, <2>1, <3>1
  <2> QED
    BY <1>5, <2>1, <2>2
<1>7. \A k \in 0 .. Len(path) : good(k)
  BY <1>6
<1> HIDE DEF bad
<1>8. good(Len(path))
  BY <1>1, <1>7
<1> DEFINE n == Len(path)
<1>9. ASSUME path # <<>>, Last(path) \notin {".", ".."}, f[n] \in Clean
      PROVE  f[n] # <<>> /\ Last(f[n]) = Last(path)
  <2>1. n \in 1 .. n /\ n \in 0 .. n /\ n # 0 /\ n - 1 \in 0 .. n /\ Last(path) = path[n] /\ path[n] \in STRING
    BY <1>1, <1>9 DEF Last
  <2>2. f[n] = CASE f[n - 1] = Outside \/ path[n] = "." -> f[n - 1]
                 [] f[n - 1] # Outside /\ path[n] = ".." ->
                      IF f[n - 1] = <<>> THEN Outside ELSE Front(f[n - 1])
                 [] OTHER -> Append(f[n - 1], path[n])
    BY <1>2, <2>1 DEF NormalizeFrom
  <2> HIDE DEF n
  <2>3. Outside \notin Clean
    BY CleanSteps
  <2>4. f[n - 1] # Outside /\ f[n] = Append(f[n - 1], path[n])
    BY <1>9, <2>1, <2>2, <2>3
  <2>5. f[n - 1] \in Clean
    BY <1>7, <2>1, <2>4 DEF n
  <2>6. f[n - 1] \in Seq(STRING)
    BY <2>5 DEF Clean
  <2>7. ASSUME NEW d \in Seq(STRING), NEW x \in STRING PROVE Append(d, x) # <<>> /\ Last(Append(d, x)) = x
    BY LastOfAppend
  <2> QED
    BY <2>1, <2>4, <2>6, <2>7
<1> QED
  BY <1>2, <1>3, <1>8, <1>9

-----------------------------------------------------------------------------
(***************************************************************************)
(* Files by their paths, and the files that specifiers mean.               *)
(***************************************************************************)

\* The parts of a path.
LEMMA SplitAppend ==
  ASSUME NEW d \in Seq(STRING), NEW x \in STRING
  PROVE  Front(Append(d, x)) = d /\ Last(Append(d, x)) = x
<1> DEFINE s == Append(d, x)
<1>1. /\ s \in Seq(STRING) /\ Len(s) = Len(d) + 1 /\ s[Len(d) + 1] = x /\ Len(d) \in Nat
      /\ \A k \in 1 .. Len(d) : s[k] = d[k]
  <2>1. s \in Seq(STRING) /\ Len(s) = Len(d) + 1 /\ s[Len(d) + 1] = x /\ Len(d) \in Nat
    BY AppendProperties, LenProperties, Zenon
  <2>2. \A k \in 1 .. Len(d) : s[k] = d[k]
    OBVIOUS
  <2> QED
    BY <2>1, <2>2
<1> HIDE DEF s
<1>2. Last(s) = x
  BY <1>1 DEF Last
<1>3. Front(s) = SubSeq(s, 1, Len(d))
  BY <1>1 DEF Front
<1> DEFINE front == SubSeq(s, 1, Len(d))
<1>4. front \in Seq(STRING) /\ Len(front) = Len(d) /\ \A k \in 1 .. Len(d) : front[k] = s[k]
  <2>1. \A k \in 1 .. Len(d) : s[k] \in STRING
    BY <1>1
  <2>2. 1 \in Int /\ Len(d) \in Int /\ Len(d) - 1 + 1 = Len(d) /\ \A k \in 1 .. Len(d) : 1 + k - 1 = k
    BY <1>1
  <2>3. /\ front \in Seq(STRING) /\ Len(front) = IF 1 <= Len(d) THEN Len(d) - 1 + 1 ELSE 0
        /\ \A k \in 1 .. Len(d) - 1 + 1 : front[k] = s[1 + k - 1]
    BY <2>1, <2>2, SubSeqProperties
  <2> HIDE DEF front
  <2>4. Len(front) = Len(d)
    BY <1>1, <2>3
  <2> QED
    BY <2>2, <2>3, <2>4
<1> HIDE DEF front
<1>5. front = d
  BY <1>1, <1>4, SeqEqual
<1> QED
  BY <1>2, <1>3, <1>5 DEF front, s

LEMMA SplitLast ==
  ASSUME NEW s \in Seq(STRING), s # <<>>
  PROVE  /\ Front(s) \in Seq(STRING) /\ Last(s) \in STRING
         /\ \A d \in Seq(STRING) : \A x \in STRING : d \o <<x>> = s <=> d = Front(s) /\ x = Last(s)
<1>1. PICK e \in Seq(STRING), y \in STRING : s = Append(e, y)
  BY SequenceEmptyOrAppend
<1>2. Front(s) = e /\ Last(s) = y
  BY <1>1, SplitAppend
<1>3. \A d \in Seq(STRING) : \A x \in STRING : d \o <<x>> = Append(d, x)
  BY AppendIsConcat
<1>4. ASSUME NEW d \in Seq(STRING), NEW x \in STRING PROVE Append(d, x) = Append(e, y) <=> d = e /\ x = y
  <2>1. Append(d, x) = Append(e, y) => d = Front(Append(e, y)) /\ x = Last(Append(e, y))
    BY SplitAppend
  <2> QED
    BY <1>1, <1>2, <2>1
<1> QED
  BY <1>1, <1>2, <1>3, <1>4

\* The files beside and within a directory.
LEMMA FilesAt ==
  ASSUME NEW base \in Seq(STRING), NEW dir \in Seq(STRING), NEW stem \in STRING, NEW ext, NEW e, NEW name
  PROVE  /\ At(dir, stem, ext) \in Beside(base, e) <=> base # <<>> /\ ext = e /\ dir \o <<stem>> = base
         /\ At(dir, stem, ext) \in Within(base, name, e) <=>
              base # <<>> /\ ext = e /\ stem = name /\ dir = base
<1>1. \A d, s, x : At(dir, stem, ext) = At(d, s, x) <=> dir = d /\ stem = s /\ ext = x
  BY DEF At
<1>2. At(dir, stem, ext) \in Within(base, name, e) <=>
        base # <<>> /\ ext = e /\ stem = name /\ dir = base
  BY <1>1 DEF Within
<1>3. CASE base = <<>>
  <2>1. Beside(base, e) = {}
    BY <1>3 DEF Beside
  <2> QED
    BY <1>2, <1>3, <2>1
<1>4. CASE base # <<>>
  <2>1. Beside(base, e) = {At(Front(base), Last(base), e)}
    BY <1>4 DEF Beside
  <2>2. dir \o <<stem>> = base <=> dir = Front(base) /\ stem = Last(base)
    BY <1>4, SplitLast
  <2> QED
    BY <1>1, <1>2, <1>4, <2>1, <2>2
<1> QED
  BY <1>3, <1>4

\* The languages whose calls are resolved by scopes and import statements.
BySpecifier(lang) == Ecma(lang) \/ lang = "python"

LEMMA FileParts ==
  ASSUME SourceIsProgram, NEW f \in DOMAIN source
  PROVE  /\ directory_of(f) \in Clean /\ directory_of(f) \in Seq(STRING)
         /\ f.project \in Seq(STRING) /\ f.stem \in STRING /\ f.ext \in STRING /\ f # NoFile
         /\ LangOf(f) \in {"javascript", "typescript"} <=> f.ext \in EcmaExtensions
         /\ LangOf(f) = "python" <=> f.ext \in {"py", "pyi"}
         /\ LangOf(f) = "rust" <=> f.ext = "rs"
         /\ LangOf(f) \in {"javascript", "typescript", "python", "rust", "go"}
         /\ WellFormed(Tree(f))
<1>1. /\ f # NoFile /\ f.project \in Seq(STRING) /\ f.dir \in Seq(STRING)
      /\ f.stem \in STRING /\ f.ext \in STRING
      /\ f.ext \in EcmaExtensions \cup {"py", "pyi", "rs", "go"}
      /\ ToSet(directory_of(f)) \cap {".", ".."} = {}
      /\ source[f].tree \in Seq(Nodes) /\ IsTree(source[f].tree)
  BY DEF SourceIsProgram, IsProgram
<1>2. directory_of(f) \in Seq(STRING)
  BY <1>1, ConcatProperties DEF directory_of
<1>3. directory_of(f) \in Clean
  <2> DEFINE d == directory_of(f)
  <2>1. ToSet(d) \cap {".", ".."} = {}
    BY <1>1
  <2> HIDE DEF d
  <2>2. \A j \in DOMAIN d : d[j] # ".."
    BY <2>1 DEF ToSet
  <2>3. d \in Seq(STRING)
    BY <1>2 DEF d
  <2> QED
    BY <2>2, <2>3 DEF Clean, d
<1> DEFINE e == f.ext
<1>4. LangOf(f) = CASE e \in {"js", "jsx", "mjs", "cjs"} -> "javascript"
                    [] e \in {"ts", "tsx", "mts", "cts"} -> "typescript"
                    [] e \in {"py", "pyi"} -> "python"
                    [] e = "rs" -> "rust"
                    [] e = "go" -> "go"
                    [] OTHER -> e
  BY DEF LangOf
<1>5. e \notin {"javascript", "typescript", "python", "rust"}
  BY <1>1 DEF EcmaExtensions
<1> HIDE DEF e
<1>6. LangOf(f) \in {"javascript", "typescript"} <=> e \in EcmaExtensions
  BY <1>4, <1>5 DEF EcmaExtensions
<1>7. LangOf(f) = "python" <=> e \in {"py", "pyi"}
  BY <1>4, <1>5
<1>8. LangOf(f) = "rust" <=> e = "rs"
  BY <1>4, <1>5
<1>9. LangOf(f) \in {"javascript", "typescript", "python", "rust", "go"}
  BY <1>1, <1>4 DEF EcmaExtensions, e
<1> QED
  BY <1>1, <1>2, <1>3, <1>5, <1>6, <1>7, <1>8, <1>9 DEF e, WellFormed, Tree

LEMMA Joined ==
  ASSUME NEW a \in Seq(STRING), NEW b \in Seq(STRING), NEW c \in Seq(STRING)
  PROVE  (a \o b) \o c = a \o (b \o c)
  BY ConcatAssociative

LEMMA PairJoined ==
  ASSUME NEW x \in STRING, NEW y \in STRING
  PROVE  <<x>> \o <<y>> = <<x, y>>
<1>1. <<x>> \in Seq(STRING)
  BY OneName, Zenon
<1>2. Append(<<x>>, y) = <<x>> \o <<y>>
  BY <1>1, AppendIsConcat, Zenon
<1>3. Append(<<x>>, y) = <<x, y>>
  BY TwoNames, Zenon
<1> QED
  BY <1>2, <1>3, Zenon

\* A file whose name and extension end a path.
LEMMA Spelled ==
  ASSUME NEW base \in Seq(STRING), base # <<>>, NEW dir \in Seq(STRING), NEW stem \in STRING, NEW ext \in STRING
  PROVE  dir \o <<stem, ext>> = base
           <=> At(dir, stem, ext) \in Beside(Front(base), Last(base))
<1>1. dir \o <<stem, ext>> = (dir \o <<stem>>) \o <<ext>>
  <2>1. <<stem>> \in Seq(STRING) /\ <<ext>> \in Seq(STRING)
    BY OneName
  <2>2. <<stem>> \o <<ext>> = <<stem, ext>>
    BY PairJoined
  <2>3. (dir \o <<stem>>) \o <<ext>> = dir \o (<<stem>> \o <<ext>>)
    BY <2>1, Joined
  <2> QED
    BY <2>2, <2>3
<1>2. dir \o <<stem>> \in Seq(STRING) /\ dir \o <<stem>> # <<>>
  <2>1. Append(dir, stem) \in Seq(STRING) /\ Append(dir, stem) # <<>>
    BY AppendProperties, Zenon
  <2>2. Append(dir, stem) = dir \o <<stem>>
    BY AppendIsConcat, Zenon
  <2> QED
    BY <2>1, <2>2
<1>3. (dir \o <<stem>>) \o <<ext>> = base <=> dir \o <<stem>> = Front(base) /\ ext = Last(base)
  BY <1>2, SplitLast
<1>4. Front(base) \in Seq(STRING)
  BY SplitLast
<1>5. At(dir, stem, ext) \in Beside(Front(base), Last(base))
        <=> Front(base) # <<>> /\ ext = Last(base) /\ dir \o <<stem>> = Front(base)
  BY <1>4, FilesAt
<1> QED
  BY <1>1, <1>2, <1>3, <1>5

\* What is indexed of the candidates in ECMAScript.
LEMMA EcmaMeant ==
  ASSUME SourceIsProgram, NEW file \in DOMAIN source, Ecma(LangOf(file)), NEW g \in DOMAIN source,
         Compatible(LangOf(file), LangOf(g)), NEW path \in Seq(STRING), path # <<>>, Relative(path),
         NEW base, base = normalize(directory_of(file), path), base \in Clean
  PROVE  PathOf(g) \in EcmaCandidates(base, path)
           <=> /\ base # <<>>
               /\ IF Last(path) \in EcmaExtensions THEN directory_of(g) \o <<g.stem, g.ext>> = base
                  ELSE directory_of(g) \o <<g.stem>> = base \/ (directory_of(g) = base /\ g.stem = "index")
<1>1. /\ directory_of(g) \in Seq(STRING) /\ g.stem \in STRING /\ g.ext \in STRING
      /\ directory_of(file) \in Clean /\ base \in Seq(STRING)
  BY FileParts DEF Clean
<1>2. g.ext \in EcmaExtensions
  <2>1. LangOf(g) \in {"javascript", "typescript"}
    BY DEF Ecma, Compatible
  <2> QED
    BY <2>1, FileParts
<1>3. PathOf(g) = At(directory_of(g), g.stem, g.ext)
  BY DEF PathOf
<1> DEFINE dir == directory_of(g)
           stem == g.stem
           ext == g.ext
<1> HIDE DEF dir, stem, ext
<1>4. CASE Last(path) \in EcmaExtensions
  <2>1. EcmaCandidates(base, path) = Beside(Front(base), Last(path))
    BY <1>4 DEF EcmaCandidates
  <2>2. Last(path) \notin {".", ".."}
    BY <1>4 DEF EcmaExtensions
  <2>3. Outside \notin Clean
    BY CleanSteps
  <2>4. base # <<>> /\ Last(base) = Last(path)
    BY <1>1, <2>2, <2>3, ReachedIs
  <2>5. dir \o <<stem, ext>> = base <=> At(dir, stem, ext) \in Beside(Front(base), Last(base))
    BY <1>1, <2>4, Spelled DEF dir, stem, ext
  <2> QED
    BY <1>3, <1>4, <2>1, <2>4, <2>5 DEF dir, stem, ext
<1>5. CASE Last(path) \notin EcmaExtensions
  <2>1. PathOf(g) \in EcmaCandidates(base, path)
          <=> \E e \in EcmaExtensions : \/ At(dir, stem, ext) \in Beside(base, e)
                                        \/ At(dir, stem, ext) \in Within(base, "index", e)
    BY <1>3, <1>5 DEF EcmaCandidates, dir, stem, ext
  <2>2. ASSUME NEW e
        PROVE  /\ At(dir, stem, ext) \in Beside(base, e) <=> base # <<>> /\ ext = e /\ dir \o <<stem>> = base
               /\ At(dir, stem, ext) \in Within(base, "index", e)
                    <=> base # <<>> /\ ext = e /\ stem = "index" /\ dir = base
    <3>1. dir \in Seq(STRING) /\ stem \in STRING
      BY <1>1 DEF dir, stem
    <3> QED
      BY <1>1, <3>1, FilesAt
  <2> QED
    BY <1>2, <1>5, <2>1, <2>2 DEF dir, stem, ext
<1> QED
  BY <1>4, <1>5

LEMMA PythonMeant ==
  ASSUME SourceIsProgram, NEW g \in DOMAIN source, LangOf(g) = "python", NEW base \in Seq(STRING)
  PROVE  PathOf(g) \in PythonCandidates(base)
           <=> /\ base # <<>>
               /\ \/ directory_of(g) \o <<g.stem>> = base
                  \/ directory_of(g) = base /\ g.stem = "__init__" /\ g.ext = "py"
<1>1. /\ directory_of(g) \in Seq(STRING) /\ g.stem \in STRING /\ g.ext \in {"py", "pyi"}
  BY FileParts
<1>2. PathOf(g) = At(directory_of(g), g.stem, g.ext)
  BY DEF PathOf
<1> DEFINE dir == directory_of(g)
           stem == g.stem
           ext == g.ext
<1> HIDE DEF dir, stem, ext
<1>3. PathOf(g) \in PythonCandidates(base)
        <=> \/ At(dir, stem, ext) \in Beside(base, "py")
            \/ At(dir, stem, ext) \in Beside(base, "pyi")
            \/ At(dir, stem, ext) \in Within(base, "__init__", "py")
  BY <1>2 DEF PythonCandidates, dir, stem, ext
<1>4. ASSUME NEW e
      PROVE  /\ At(dir, stem, ext) \in Beside(base, e) <=> base # <<>> /\ ext = e /\ dir \o <<stem>> = base
             /\ At(dir, stem, ext) \in Within(base, "__init__", e)
                  <=> base # <<>> /\ ext = e /\ stem = "__init__" /\ dir = base
  <2>1. dir \in Seq(STRING) /\ stem \in STRING
    BY <1>1 DEF dir, stem
  <2> QED
    BY <2>1, FilesAt
<1> QED
  BY <1>1, <1>3, <1>4 DEF dir, stem, ext

MeantThere(file, path) ==
  CASE Relative(path) -> Reached(directory_of(file), path)
    [] ~Relative(path) /\ LangOf(file) = "python" -> {file.project \o path}
    [] OTHER -> {}

Fits(lang, path, g, d) ==
  IF Ecma(lang) /\ Last(path) \in EcmaExtensions
  THEN directory_of(g) \o <<g.stem, g.ext>> = d
  ELSE \/ directory_of(g) \o <<g.stem>> = d
       \/ directory_of(g) = d /\ IF lang = "python" THEN g.stem = "__init__" /\ g.ext = "py"
                                 ELSE g.stem = "index"

LEMMA MeantIs ==
  ASSUME NEW file, NEW path, NEW g
  PROVE  g \in Meant(file, path)
           <=> /\ g \in DOMAIN source /\ g.project = file.project /\ Compatible(LangOf(file), LangOf(g))
               /\ \E d \in MeantThere(file, path) \ {<<>>} : Fits(LangOf(file), path, g, d)
<1> DEFINE lang == LangOf(file)
           specifier == path
           spelled == Ecma(lang) /\ Last(specifier) \in EcmaExtensions
           there == CASE Relative(specifier) -> Reached(directory_of(file), specifier)
                 [] ~Relative(specifier) /\ lang = "python" -> {file.project \o specifier}
                 [] OTHER -> {}
<1>1. there = MeantThere(file, path)
  BY DEF MeantThere
<1>2. \A d : Fits(lang, path, g, d) <=>
              IF spelled THEN directory_of(g) \o <<g.stem, g.ext>> = d
              ELSE directory_of(g) \o <<g.stem>> = d \/ (directory_of(g) = d /\ (IF lang = "python" THEN g.stem = "__init__" /\ g.ext = "py" ELSE g.stem = "index"))
  BY DEF Fits
<1>3. Meant(file, path) = {h \in DOMAIN source :
         /\ h.project = file.project /\ Compatible(lang, LangOf(h))
         /\ \E d \in there \ {<<>>} :
              IF spelled THEN directory_of(h) \o <<h.stem, h.ext>> = d
              ELSE directory_of(h) \o <<h.stem>> = d \/ (directory_of(h) = d /\ (IF lang = "python" THEN h.stem = "__init__" /\ h.ext = "py" ELSE h.stem = "index"))}
  BY Zenon DEF Meant
<1> HIDE DEF there, lang, spelled, specifier
<1> QED
  BY <1>1, <1>2, <1>3 DEF lang

\* A specifier means the indexed files among its candidates, and none if it is refused.
LEMMA CandidatesAreMeant ==
  ASSUME SourceIsProgram, NEW file \in DOMAIN source, BySpecifier(LangOf(file)), NEW row,
         row.name \in Seq(STRING), row.name # <<>>
  PROVE  Meant(file, row.name) = IF Refusal(file, row) = "" THEN Indexed(DOMAIN source, file, Candidates(file, row))
                             ELSE {}
<1> DEFINE path == row.name
           lang == LangOf(file)
           dir == directory_of(file)
           base == normalize(dir, path)
           module == file.project \o path
           spelled == Ecma(lang) /\ Last(path) \in EcmaExtensions
           there == CASE Relative(path) -> Reached(dir, path)
                      [] ~Relative(path) /\ lang = "python" -> {module}
                      [] OTHER -> {}
           fits(g, d) == IF spelled THEN directory_of(g) \o <<g.stem, g.ext>> = d
                         ELSE \/ directory_of(g) \o <<g.stem>> = d
                              \/ directory_of(g) = d /\ IF lang = "python" THEN g.stem = "__init__" /\ g.ext = "py"
                                                        ELSE g.stem = "index"
<1>0. path \in Seq(STRING) /\ path # <<>> /\ row.name = path
  OBVIOUS
<1> HIDE DEF path
<1>1. /\ dir \in Clean /\ file.project \in Seq(STRING) /\ Outside \notin Clean
      /\ module \in Seq(STRING)
  BY <1>0, FileParts, CleanSteps, ConcatProperties
<1>2. \/ base = Outside /\ Reached(dir, path) = {}
      \/ base \in Clean /\ base \in Seq(STRING) /\ Reached(dir, path) = {base}
  BY <1>0, <1>1, ReachedIs DEF Clean
<1>3. /\ lang \in {"javascript", "typescript", "python"} /\ Ecma(lang) <=> lang # "python"
      /\ Ecma(lang) <=> lang \in {"javascript", "typescript"}
  BY DEF BySpecifier, Ecma
<1>4. Escapes(file, row) <=> base = Outside
  BY <1>0 DEF Escapes
<1>5. Refusal(file, row) = "" <=>
        IF lang = "python" THEN Relative(path) => base # Outside ELSE Relative(path) /\ base # Outside
  BY <1>0, <1>3, <1>4 DEF Refusal
<1>6. Candidates(file, row) = IF lang = "python" THEN PythonCandidates(IF Relative(path) THEN base ELSE module)
                              ELSE EcmaCandidates(base, path)
  BY <1>0, <1>3 DEF Candidates
<1>7. ASSUME NEW g
      PROVE  g \in Meant(file, path)
               <=> /\ g \in DOMAIN source /\ g.project = file.project /\ Compatible(lang, LangOf(g))
                   /\ \E d \in there \ {<<>>} : fits(g, d)
  <2>1. MeantThere(file, path) = there
    BY DEF MeantThere
  <2>2. \A d : Fits(lang, path, g, d) <=> fits(g, d)
    BY DEF Fits
  <2>3. g \in Meant(file, path)
           <=> /\ g \in DOMAIN source /\ g.project = file.project /\ Compatible(LangOf(file), LangOf(g))
               /\ \E d \in MeantThere(file, path) \ {<<>>} : Fits(LangOf(file), path, g, d)
    BY MeantIs
  <2> HIDE DEF there, fits
  <2> QED
    BY <2>1, <2>2, <2>3
<1>8. \A g, paths : g \in Indexed(DOMAIN source, file, paths)
               <=> /\ g \in DOMAIN source /\ g.project = file.project /\ Compatible(lang, LangOf(g))
                   /\ PathOf(g) \in paths
  BY DEF Indexed
<1>9. CASE Refusal(file, row) # ""
  <2>1. there = {}
    BY <1>1, <1>2, <1>3, <1>5, <1>9
  <2> HIDE DEF there, fits
  <2> QED
    BY <1>0, <1>7, <1>9, <2>1
<1>10. CASE Refusal(file, row) = "" /\ lang # "python"
  <2>1. Relative(path) /\ base \in Clean /\ there = {base} /\ Ecma(lang)
    BY <1>1, <1>2, <1>3, <1>5, <1>10
  <2>2. ASSUME NEW g \in DOMAIN source, Compatible(lang, LangOf(g))
        PROVE  PathOf(g) \in EcmaCandidates(base, path) <=> base # <<>> /\ fits(g, base)
    BY <1>0, <1>10, <2>1, <2>2, EcmaMeant
  <2> HIDE DEF there, fits
  <2>3. \A g : g \in Meant(file, path) <=> g \in Indexed(DOMAIN source, file, Candidates(file, row))
    BY <1>6, <1>7, <1>8, <1>10, <2>1, <2>2
  <2> QED
    BY <1>0, <1>7, <1>8, <1>10, <2>3
<1>11. CASE Refusal(file, row) = "" /\ lang = "python"
  <2> DEFINE start == IF Relative(path) THEN base ELSE module
  <2>1. start \in Seq(STRING) /\ there = {start} /\ ~spelled
    BY <1>1, <1>2, <1>3, <1>5, <1>11
  <2>2. ASSUME NEW g \in DOMAIN source, Compatible(lang, LangOf(g))
        PROVE  PathOf(g) \in PythonCandidates(start) <=> start # <<>> /\ fits(g, start)
    <3>1. LangOf(g) = "python"
      BY <1>11, <2>2 DEF Compatible
    <3> QED
      BY <1>0, <1>11, <2>1, <3>1, PythonMeant
  <2> HIDE DEF there, fits, start
  <2>3. Candidates(file, row) = PythonCandidates(start)
    BY <1>6, <1>11 DEF start
  <2>4. \A g : g \in Meant(file, path) <=> g \in Indexed(DOMAIN source, file, Candidates(file, row))
    BY <1>7, <1>8, <2>1, <2>2, <2>3
  <2> QED
    BY <1>0, <1>7, <1>8, <1>11, <2>4
<1> QED
  BY <1>9, <1>10, <1>11 DEF path

-----------------------------------------------------------------------------
(***************************************************************************)
(* Import targets: the one candidate, and the rows of calls and imports.   *)
(***************************************************************************)

\* Of some candidates, the one there is.
LEMMA OnlyOfIs ==
  ASSUME NEW found, IsFiniteSet(found), NEW g, g # NoFile
  PROVE  OnlyOf(found).file = g <=> found = {g}
<1>1. \A why : Unresolved(why).file = NoFile
  BY DEF Unresolved, Target
<1>2. CASE found = {}
  BY <1>1, <1>2 DEF OnlyOf
<1>3. CASE found # {} /\ Cardinality(found) > 1
  <2>1. Cardinality({g}) = 1
    BY FS_Singleton
  <2>2. found # {g}
    BY <1>3, <2>1
  <2>3. OnlyOf(found) = Unresolved("ambiguous")
    BY <1>3 DEF OnlyOf
  <2> QED
    BY <1>1, <2>2, <2>3
<1>4. CASE found # {} /\ ~(Cardinality(found) > 1)
  <2> DEFINE n == Cardinality(found)
  <2>1. n \in Nat /\ n # 0 /\ ~(n > 1)
    BY <1>4, FS_CardinalityType, FS_EmptySet
  <2> HIDE DEF n
  <2>2. n = 1
    BY <2>1
  <2>3. PICK h : found = {h}
    BY <2>2, FS_Singleton DEF n
  <2>4. OnlyOf(found).file = h
    BY <1>4, <2>3 DEF OnlyOf, Target
  <2> QED
    BY <2>3, <2>4
<1> QED
  BY <1>2, <1>3, <1>4

\* The file an import is linked to is the one its specifier can mean.
LEMMA TargetIsMeant ==
  ASSUME SourceIsProgram, NEW row, row.file \in DOMAIN source, BySpecifier(LangOf(row.file)), row.blocked = "",
         row.name \in Seq(STRING), row.name # <<>>, NEW g \in DOMAIN source
  PROVE  Meant(row.file, row.name) = {g} <=> ImportTarget(row).file = g
<1> DEFINE file == row.file
           found == Indexed(DOMAIN source, file, Candidates(file, row))
<1>1. LangOf(file) # "go" /\ g # NoFile
  BY FileParts DEF BySpecifier, Ecma
<1>2. ImportTarget(row) = IF Refusal(file, row) # "" THEN Unresolved(Refusal(file, row)) ELSE OnlyOf(found)
  BY <1>1 DEF ImportTarget, resolve_path
<1>3. Meant(file, row.name) = IF Refusal(file, row) = "" THEN found ELSE {}
  BY CandidatesAreMeant
<1>4. IsFiniteSet(found)
  <2>1. found \in SUBSET DOMAIN source /\ IsFiniteSet(DOMAIN source)
    BY DEF Indexed, SourceIsProgram, IsProgram
  <2> QED
    BY <2>1, FS_Subset
<1>5. \A why : Unresolved(why).file = NoFile
  BY DEF Unresolved, Target
<1> HIDE DEF found
<1>6. OnlyOf(found).file = g <=> found = {g}
  BY <1>1, <1>4, OnlyOfIs
<1> QED
  BY <1>1, <1>2, <1>3, <1>5, <1>6

\* What a call says and where it leads, as apply left it.
CallOf(f, i, owner, path, blocked) ==
  LET t == Tree(f)
      applied == apply(LangOf(f), t, Bindings(LangOf(f), t), i, owner, assign_nesting(t).qualified)
  IN  path = applied.path /\ blocked = applied.blocked

OwnerOf(f, i) ==
  LET t == Tree(f)
  IN  OwnerName(assign_nesting(t), assign_enclosing(t, Calls(t) \cup Imports(t))[i])

SymbolsOf(file, t, rows) ==
  \A s \in rows.symbols : \E i \in Definitions(t) : s.at = i /\ s.name = t[i].name /\ s.file = file

RefsOf(file, t, bindings, nesting, owners, rows) ==
  \A r \in rows.refs :
    \/ \E i \in Calls(t) :
         LET a == apply(LangOf(file), t, bindings, i, OwnerName(nesting, owners[i]), nesting.qualified)
         IN  r = Ref(file, i, "call", t[i].name, a.path, a.blocked, OwnerName(nesting, owners[i]))
    \/ \E i \in Imports(t) :
         r = Ref(file, i, "import", t[i].path, UsePath(file, t[i]), "", OwnerName(nesting, owners[i]))

ImportsIn(file, t, nesting, owners, rows) ==
  \A i \in Imports(t) :
    Ref(file, i, "import", t[i].path, UsePath(file, t[i]), "", OwnerName(nesting, owners[i])) \in rows.refs

\* The rows of a file in Rust, Python or ECMAScript.
LEMMA ScopedRefRows ==
  ASSUME NEW file, NEW bindings, NEW nesting, NEW owners, NEW t, t = source[file].tree,
         DOMAIN owners = Calls(t) \cup Imports(t), NEW rows,
         rows = ScopedRows(file, bindings, nesting, owners)
  PROVE  /\ SymbolsOf(file, t, rows) /\ RefsOf(file, t, bindings, nesting, owners, rows)
         /\ ImportsIn(file, t, nesting, owners, rows)
<1> DEFINE lang == LangOf(file)
           owner == [i \in DOMAIN owners |-> IF owners[i] = 0 THEN <<>>
                                              ELSE nesting.qualified[owners[i]]]
           applied(i) == apply(lang, t, bindings, i, owner[i], nesting.qualified)
           scoped == [i \in Calls(t) |-> applied(i)]
<1>1. rows.symbols = {Symbol(file, i, t[i].name, nesting.qualified[i], nesting.kind[i],
                             Exported(lang, t, i)) : i \in Definitions(t)}
  BY DEF ScopedRows
<1>2. rows.refs = {Ref(file, i, "call", t[i].name, scoped[i].path, scoped[i].blocked, owner[i]) : i \in Calls(t)}
                  \cup {Ref(file, i, "import", t[i].path, UsePath(file, t[i]), "", owner[i]) : i \in Imports(t)}
  BY DEF ScopedRows
<1>3. \A i \in Calls(t) : scoped[i] = applied(i)
  OBVIOUS
<1> HIDE DEF applied, scoped
<1>4. rows.refs = {Ref(file, i, "call", t[i].name, applied(i).path, applied(i).blocked, owner[i]) : i \in Calls(t)}
                  \cup {Ref(file, i, "import", t[i].path, UsePath(file, t[i]), "", owner[i]) : i \in Imports(t)}
  BY <1>2, <1>3
<1>5. \A i \in DOMAIN owners : owner[i] = OwnerName(nesting, owners[i])
  BY DEF OwnerName
<1>6. \A i \in Calls(t) : applied(i) = apply(lang, t, bindings, i, OwnerName(nesting, owners[i]), nesting.qualified)
  BY <1>5 DEF applied
<1> HIDE DEF owner
<1>7. \A s \in rows.symbols : \E i \in Definitions(t) : s.at = i /\ s.name = t[i].name /\ s.file = file
  BY <1>1 DEF Symbol
<1>8. \A i \in Imports(t) :
        Ref(file, i, "import", t[i].path, UsePath(file, t[i]), "", OwnerName(nesting, owners[i])) \in rows.refs
  BY <1>4, <1>5
<1> DEFINE name(i) == OwnerName(nesting, owners[i])
           isCall(r, i) == r = Ref(file, i, "call", t[i].name, applied(i).path, applied(i).blocked, name(i))
           isImport(r, i) == r = Ref(file, i, "import", t[i].path, UsePath(file, t[i]), "", name(i))
<1>9. ASSUME NEW r \in rows.refs
      PROVE  (\E i \in Calls(t) : isCall(r, i)) \/ \E i \in Imports(t) : isImport(r, i)
  <2>1. CASE \E i \in Calls(t) :
               r = Ref(file, i, "call", t[i].name, applied(i).path, applied(i).blocked, owner[i])
    BY <1>5, <2>1
  <2>2. CASE \E i \in Imports(t) : r = Ref(file, i, "import", t[i].path, UsePath(file, t[i]), "", owner[i])
    BY <1>5, <2>2
  <2> QED
    BY <1>4, <2>1, <2>2
<1>10. ASSUME NEW r \in rows.refs
       PROVE  \/ \E i \in Calls(t) :
                   LET a == apply(LangOf(file), t, bindings, i, OwnerName(nesting, owners[i]), nesting.qualified)
                   IN  r = Ref(file, i, "call", t[i].name, a.path, a.blocked, OwnerName(nesting, owners[i]))
              \/ \E i \in Imports(t) :
                   r = Ref(file, i, "import", t[i].path, UsePath(file, t[i]), "", OwnerName(nesting, owners[i]))
  <2>1. CASE \E i \in Calls(t) : isCall(r, i)
    <3>1. PICK i \in Calls(t) : isCall(r, i)
      BY <2>1
    <3>2. applied(i) = apply(lang, t, bindings, i, name(i), nesting.qualified)
      BY <1>6
    <3> QED
      BY <3>1, <3>2
  <2>2. CASE \E i \in Imports(t) : isImport(r, i)
    BY <2>2
  <2> QED
    BY <1>9, <2>1, <2>2
<1> QED
  BY <1>7, <1>8, <1>10 DEF SymbolsOf, RefsOf, ImportsIn

CallRowOf(f, r) ==
  /\ r.kind = "call" /\ r.at \in Calls(Tree(f)) /\ r.name = Tree(f)[r.at].name
  /\ CallOf(f, r.at, OwnerOf(f, r.at), r.path, r.blocked)

ImportRowOf(f, r) ==
  r.kind = "import" /\ r.at \in Imports(Tree(f)) /\ r.name = Tree(f)[r.at].path /\ r.blocked = ""

LEMMA ScopedRowsOf ==
  ASSUME NEW f, WellFormed(Tree(f)), LangOf(f) # "go"
  PROVE  /\ \A s \in Rows(f).symbols :
              s.file = f /\ s.at \in Definitions(Tree(f)) /\ s.name = Tree(f)[s.at].name
         /\ \A r \in Rows(f).refs : r.file = f /\ (CallRowOf(f, r) \/ ImportRowOf(f, r))
         /\ \A d \in Imports(Tree(f)) : \E r \in Rows(f).refs : ImportRowOf(f, r) /\ r.at = d
<1> DEFINE t == Tree(f)
           bytes == Calls(t) \cup Imports(t)
           nesting == assign_nesting(t)
           owners == assign_enclosing(t, bytes)
           bindings == Bindings(LangOf(f), t)
           parsed == ScopedRows(f, bindings, nesting, owners)
           name(i) == OwnerName(nesting, owners[i])
           applied(i) == apply(LangOf(f), t, bindings, i, name(i), nesting.qualified)
           called(i) == Ref(f, i, "call", t[i].name, applied(i).path, applied(i).blocked, name(i))
           imported(i) == Ref(f, i, "import", t[i].path, UsePath(f, t[i]), "", name(i))
           stored(r) == [r EXCEPT !.owner = InSymbol(f, parsed.symbols, r.at, r.owner)]
<1>1. Rows(f) = Inserted(f, parsed)
  BY DEF Rows, Extracted, ScopedFile, Tree
<1>2. Rows(f).symbols = parsed.symbols /\ Rows(f).refs = {stored(r) : r \in parsed.refs}
  BY <1>1 DEF Inserted
<1>3. DOMAIN owners = Calls(t) \cup Imports(t)
  BY ReferencesDefineNothing, EnclosingIsInnermost
<1>4. /\ \A s \in parsed.symbols : \E i \in Definitions(t) : s.at = i /\ s.name = t[i].name /\ s.file = f
      /\ \A r \in parsed.refs : (\E i \in Calls(t) : r = called(i)) \/ \E i \in Imports(t) : r = imported(i)
      /\ \A i \in Imports(t) : imported(i) \in parsed.refs
  <2>1. t = source[f].tree
    BY DEF Tree
  <2>2. parsed = ScopedRows(f, bindings, nesting, owners)
    OBVIOUS
  <2> HIDE DEF t, parsed, owners, nesting, bindings
  <2>3. /\ SymbolsOf(f, t, parsed) /\ RefsOf(f, t, bindings, nesting, owners, parsed)
        /\ ImportsIn(f, t, nesting, owners, parsed)
    BY <1>3, <2>1, <2>2, ScopedRefRows
  <2> QED
    BY <2>3 DEF SymbolsOf, RefsOf, ImportsIn
<1> HIDE DEF applied
<1>5. \A i : \A o : /\ [called(i) EXCEPT !.owner = o]
                         = Ref(f, i, "call", t[i].name, applied(i).path, applied(i).blocked, o)
                    /\ [imported(i) EXCEPT !.owner = o] = Ref(f, i, "import", t[i].path, UsePath(f, t[i]), "", o)
  <2> SUFFICES ASSUME NEW i, NEW o
               PROVE  /\ [called(i) EXCEPT !.owner = o]
                           = Ref(f, i, "call", t[i].name, applied(i).path, applied(i).blocked, o)
                      /\ [imported(i) EXCEPT !.owner = o] = Ref(f, i, "import", t[i].path, UsePath(f, t[i]), "", o)
    OBVIOUS
  <2> DEFINE u == UsePath(f, t[i])
             p == t[i].path
             n == name(i)
             none == ""
  <2> HIDE DEF name, u, p, n, none
  <2>1. [called(i) EXCEPT !.owner = o] = Ref(f, i, "call", t[i].name, applied(i).path, applied(i).blocked, o)
    BY DEF Ref
  <2>2. [imported(i) EXCEPT !.owner = o] = Ref(f, i, "import", t[i].path, UsePath(f, t[i]), "", o)
    <3>1. [Ref(f, i, "import", p, u, none, n) EXCEPT !.owner = o] = Ref(f, i, "import", p, u, none, o)
      BY OwnerReplaced
    <3> QED
      BY <3>1 DEF u, p, n, none
  <2> QED
    BY <2>1, <2>2
<1>6. ASSUME NEW i \in Calls(t), NEW o
      PROVE  LET r == Ref(f, i, "call", t[i].name, applied(i).path, applied(i).blocked, o)
             IN  r.file = f /\ CallRowOf(f, r)
  <2> DEFINE r == Ref(f, i, "call", t[i].name, applied(i).path, applied(i).blocked, o)
             a == applied(i)
  <2>1. /\ r.file = f /\ r.kind = "call" /\ r.at = i /\ r.name = t[i].name
        /\ r.path = a.path /\ r.blocked = a.blocked
    BY DEF Ref
  <2>2. name(i) = OwnerOf(f, i)
    BY DEF OwnerOf
  <2>3. a = apply(LangOf(f), t, Bindings(LangOf(f), t), i, OwnerOf(f, i), assign_nesting(t).qualified)
    BY <2>2 DEF applied
  <2> HIDE DEF r, a
  <2>4. CallOf(f, i, OwnerOf(f, i), r.path, r.blocked)
    BY <2>1, <2>3 DEF CallOf
  <2>5. r.file = f /\ CallRowOf(f, r)
    BY <2>1, <2>4 DEF CallRowOf
  <2> QED
    BY <2>5 DEF r
<1>7. ASSUME NEW i \in Imports(t), NEW o
      PROVE  LET r == Ref(f, i, "import", t[i].path, UsePath(f, t[i]), "", o)
             IN  r.file = f /\ ImportRowOf(f, r) /\ r.at = i
  BY DEF Ref, ImportRowOf
<1> HIDE DEF parsed, owners, nesting, bindings, applied
<1>8. ASSUME NEW s \in Rows(f).symbols
      PROVE  s.file = f /\ s.at \in Definitions(t) /\ s.name = t[s.at].name
  BY <1>2, <1>4
<1>9. ASSUME NEW r \in Rows(f).refs
      PROVE  r.file = f /\ (CallRowOf(f, r) \/ ImportRowOf(f, r))
  <2>1. PICK q \in parsed.refs : r = stored(q)
    BY <1>2
  <2> DEFINE o == InSymbol(f, parsed.symbols, q.at, q.owner)
  <2>2. r = [q EXCEPT !.owner = o]
    BY <2>1
  <2> HIDE DEF o
  <2>3. CASE \E i \in Calls(t) : q = called(i)
    <3>1. PICK i \in Calls(t) : q = called(i)
      BY <2>3
    <3>2. r = Ref(f, i, "call", t[i].name, applied(i).path, applied(i).blocked, o)
      BY <1>5, <2>2, <3>1
    <3> QED
      BY <1>6, <3>2
  <2>4. CASE \E i \in Imports(t) : q = imported(i)
    <3>1. PICK i \in Imports(t) : q = imported(i)
      BY <2>4
    <3>2. r = Ref(f, i, "import", t[i].path, UsePath(f, t[i]), "", o)
      BY <1>5, <2>2, <3>1
    <3> QED
      BY <1>7, <3>2
  <2> QED
    BY <1>4, <2>3, <2>4
<1>10. ASSUME NEW d \in Imports(t)
       PROVE  \E r \in Rows(f).refs : ImportRowOf(f, r) /\ r.at = d
  <2> DEFINE q == imported(d)
             o == InSymbol(f, parsed.symbols, q.at, q.owner)
  <2>1. [q EXCEPT !.owner = o] \in Rows(f).refs
    BY <1>2, <1>4
  <2> HIDE DEF o
  <2>2. [q EXCEPT !.owner = o] = Ref(f, d, "import", t[d].path, UsePath(f, t[d]), "", o)
    BY <1>5
  <2> QED
    BY <1>7, <2>1, <2>2
<1> QED
  BY <1>8, <1>9, <1>10

\* The imports of a file lead where they can mean something.
LEMMA ImportedIs ==
  ASSUME SourceIsProgram, Stored, ImportsResolved, NEW file \in DOMAIN source, BySpecifier(LangOf(file)),
         NEW d \in Imports(Tree(file))
  PROVE  LET path == Tree(file)[d].path
             g == ImportedFile(imports, file, path)
         IN  /\ g \in DOMAIN source \cup {NoFile}
             /\ \A h \in DOMAIN source : Meant(file, path) = {h} <=> g = h
<1> DEFINE path == Tree(file)[d].path
           rows == {r \in DOMAIN imports : r.file = file /\ r.name = path /\ imports[r].file # NoFile}
           g == ImportedFile(imports, file, path)
<1>1. LangOf(file) # "go" /\ WellFormed(Tree(file))
  BY FileParts DEF BySpecifier, Ecma
<1>2. path \in Seq(STRING) /\ path # <<>>
  <2>1. WellNamed(LangOf(file), Tree(file))
    BY <1>1 DEF SourceIsProgram, IsProgram, Tree
  <2>2. d \in DOMAIN Tree(file)
    BY DEF Imports
  <2> QED
    BY <1>1, <2>1, <2>2, NodeFields DEF WellNamed
<1>3. g = IF rows = {} THEN NoFile ELSE imports[CHOOSE r \in rows : TRUE].file
  BY DEF ImportedFile
<1> HIDE DEF g, path
<1>4. ASSUME NEW r \in refs, r.file = file, r.kind = "import", r.name = path
      PROVE  /\ r \in DOMAIN imports /\ imports[r].file \in DOMAIN source \cup {NoFile}
             /\ \A h \in DOMAIN source : Meant(file, path) = {h} <=> imports[r].file = h
  <2>1. r \in DOMAIN imports /\ imports[r] = ImportTarget(r)
    BY <1>4 DEF ImportsResolved, ImportRows
  <2>2. r \in Rows(file).refs
    BY <1>4, RowsOfFiles
  <2>3. r.blocked = ""
    BY <1>1, <1>4, <2>2, ScopedRowsOf DEF CallRowOf, ImportRowOf
  <2>4. ASSUME NEW h \in DOMAIN source
        PROVE  Meant(file, path) = {h} <=> ImportTarget(r).file = h
    <3>1. Meant(r.file, r.name) = {h} <=> ImportTarget(r).file = h
      BY <1>2, <1>4, <2>3, TargetIsMeant
    <3> QED
      BY <1>4, <3>1
  <2> QED
    BY <2>1, <2>4, ImportTargetIsIndexed
<1>5. \A r \in rows : r \in refs /\ r.kind = "import"
  BY DEF ImportsResolved, ImportRows
<1>6. \A h \in DOMAIN source : h # NoFile
  BY FileParts
<1>7. CASE rows = {}
  <2>1. PICK r \in Rows(file).refs : ImportRowOf(file, r) /\ r.at = d
    BY <1>1, ScopedRowsOf
  <2>2. r \in refs /\ r.file = file /\ r.kind = "import" /\ r.name = path
    <3>1. r \in refs
      BY <2>1, RowsOfFiles
    <3>2. r.file = file
      BY <1>1, <2>1, ScopedRowsOf
    <3> QED
      BY <2>1, <3>1, <3>2 DEF ImportRowOf, path
  <2>3. imports[r].file = NoFile
    BY <1>4, <1>7, <2>2
  <2>4. \A h \in DOMAIN source : Meant(file, path) # {h}
    BY <1>4, <1>6, <2>2, <2>3
  <2> QED
    BY <1>3, <1>6, <1>7, <2>4 DEF g, path
<1>8. CASE rows # {}
  <2>1. PICK r \in rows : g = imports[r].file
    BY <1>3, <1>8
  <2>2. r \in refs /\ r.file = file /\ r.kind = "import" /\ r.name = path
    BY <1>5
  <2>3. /\ imports[r].file \in DOMAIN source \cup {NoFile}
        /\ \A h \in DOMAIN source : Meant(file, path) = {h} <=> imports[r].file = h
    BY <1>4, <2>2
  <2> QED
    BY <2>1, <2>3 DEF g, path
<1> QED
  BY <1>7, <1>8

-----------------------------------------------------------------------------
(***************************************************************************)
(* The modules of Rust around a node, and the paths that lead from them.   *)
(***************************************************************************)

\* The names of some nodes, one each.
NamesOf(t, A) ==
  /\ Names(t, A) \in Seq(STRING)
  /\ \A k \in 1 .. Len(Names(t, A)) : \E a \in A : Names(t, A)[k] = t[a].name

LEMMA NoNames == \A t : Names(t, {}) = <<>>
<1> TAKE t
<1>1. Cardinality({}) = 0
  BY FS_EmptySet
<1>2. Names(t, {}) = [k \in 1 .. 0 |-> t[CHOOSE a \in Nth({}, k) : TRUE].name]
  BY <1>1 DEF Names
<1>3. 1 .. 0 = {}
  OBVIOUS
<1> QED
  BY <1>2, <1>3

LEMMA AppendedNames ==
  ASSUME NEW t, NEW A, NEW B, NEW m \in A, B \subseteq A, NamesOf(t, B), t[m].name \in STRING,
         Names(t, A) = Append(Names(t, B), t[m].name)
  PROVE  NamesOf(t, A)
<1> DEFINE s == Names(t, B)
           x == t[m].name
           r == Append(s, x)
<1>1. s \in Seq(STRING) /\ x \in STRING /\ \A k \in 1 .. Len(s) : \E a \in A : s[k] = t[a].name
  BY DEF NamesOf
<1> HIDE DEF s
<1>2. /\ r \in Seq(STRING) /\ Len(r) = Len(s) + 1 /\ Len(s) \in Nat
      /\ \A k \in 1 .. Len(s) : r[k] = s[k]
      /\ r[Len(s) + 1] = x
  BY <1>1, AppendProperties, LenProperties
<1>3. ASSUME NEW k \in 1 .. Len(s) + 1 PROVE \E a \in A : r[k] = t[a].name
  <2>1. k \in 1 .. Len(s) \/ k = Len(s) + 1
    BY <1>2
  <2> QED
    BY <1>1, <1>2, <2>1
<1>4. Names(t, A) = r
  BY DEF s
<1> HIDE DEF r, x
<1> QED
  BY <1>2, <1>3, <1>4 DEF NamesOf

LEMMA NamesAre ==
  ASSUME NEW t, WellFormed(t), NEW A \in SUBSET DOMAIN t
  PROVE  NamesOf(t, A) /\ IsFiniteSet(A)
<1> DEFINE bad == {n \in Nat : \E B \in SUBSET DOMAIN t : Cardinality(B) = n /\ ~NamesOf(t, B)}
<1>1. \A B \in SUBSET DOMAIN t : IsFiniteSet(B) /\ Cardinality(B) \in Nat
  BY NodesAreFinite, FS_Subset, FS_CardinalityType
<1>2. bad = {}
  <2> SUFFICES ASSUME bad # {} PROVE FALSE
    OBVIOUS
  <2>1. PICK n \in bad : \A j \in bad : n <= j
    <3>1. bad \subseteq Nat
      OBVIOUS
    <3> HIDE DEF bad
    <3> QED
      BY <3>1, LeastNatural
  <2>2. PICK B \in SUBSET DOMAIN t : Cardinality(B) = n /\ ~NamesOf(t, B)
    BY <2>1
  <2>3. CASE B = {}
    <3>1. Names(t, B) = <<>>
      BY <2>3, NoNames
    <3>2. <<>> \in Seq(STRING) /\ Len(<<>>) = 0
      BY EmptySeq
    <3> QED
      BY <2>2, <3>1, <3>2 DEF NamesOf
  <2>4. CASE B # {}
    <3>1. Len(t) \in Nat /\ DOMAIN t = 1 .. Len(t)
      BY TreeIsSequence
    <3>2. PICK m \in B : \A b \in B : b <= m
      <4>1. B \subseteq Nat /\ \A b \in B : b <= Len(t)
        BY <3>1
      <4> QED
        BY <2>4, <3>1, <4>1, MaxIsGreatest
    <3> DEFINE C == B \ {m}
    <3>3. /\ C \in SUBSET DOMAIN t /\ IsFiniteSet(C) /\ C \subseteq Nat /\ m \in Nat
          /\ \A c \in C : c < m
      <4>1. C \in SUBSET DOMAIN t
        OBVIOUS
      <4> QED
        BY <1>1, <3>1, <3>2, <4>1
    <3>4. B = C \cup {m} /\ m \notin C
      OBVIOUS
    <3> HIDE DEF C
    <3>5. Names(t, B) = Append(Names(t, C), t[m].name)
      BY <3>3, <3>4, NamesGrow
    <3>6. Cardinality(B) = Cardinality(C) + 1
      BY <3>3, <3>4, FS_AddElement
    <3>7. NamesOf(t, C)
      <4>1. Cardinality(C) \in Nat /\ Cardinality(C) < n
        BY <1>1, <2>2, <3>3, <3>6
      <4>2. Cardinality(C) \notin bad
        <5> HIDE DEF bad
        <5>1. n \in Nat
          BY <1>1, <2>2
        <5> QED
          BY <2>1, <4>1, <5>1
      <4> QED
        BY <3>3, <4>1, <4>2
    <3>8. t[m].name \in STRING
      BY <3>2, NodeFields
    <3> QED
      BY <2>2, <3>4, <3>5, <3>7, <3>8, AppendedNames
  <2> QED
    BY <2>3, <2>4
<1> QED
  BY <1>1, <1>2

\* f is the recursion of InModules.
ModulesFrom(t, i, f) ==
  f = [a \in 0 .. Len(t) |->
         IF a = 0 THEN <<>>
         ELSE IF a \in Ancestors(t, i) /\ t[a].kind = "mod" THEN Append(f[a - 1], t[a].name)
         ELSE f[a - 1]]

LEMMA ModulesAreDefined ==
  ASSUME NEW t, Len(t) \in Nat, NEW i
  PROVE  \E f : ModulesFrom(t, i, f) /\ InModules(t, i) = f[Len(t)]
<1> DEFINE step(b, a) == IF a = 0 THEN <<>>
                         ELSE IF a \in Ancestors(t, i) /\ t[a].kind = "mod" THEN Append(b, t[a].name)
                         ELSE b
           isWalk(f, n) == f = [a \in 0 .. n |-> step(f[a - 1], a)]
           bad == {n \in Nat : ~ \E f : isWalk(f, n)}
<1>1. bad = {}
  <2> SUFFICES ASSUME bad # {} PROVE FALSE
    OBVIOUS
  <2>1. PICK n \in bad : \A j \in bad : n <= j
    BY LeastNatural
  <2>2. n # 0
    <3> DEFINE f == [a \in 0 .. 0 |-> <<>>]
    <3>1. isWalk(f, 0)
      OBVIOUS
    <3> QED
      BY <2>1, <3>1
  <2>3. n \in Nat /\ n - 1 \in Nat /\ n - 1 \notin bad
    <3>1. n \in Nat
      BY <2>1
    <3> HIDE DEF bad
    <3> QED
      BY <2>1, <2>2, <3>1
  <2> HIDE DEF step
  <2>4. PICK f : isWalk(f, n - 1)
    BY <2>3
  <2> DEFINE g == [a \in 0 .. n |-> IF a = n THEN step(f[n - 1], n) ELSE f[a]]
  <2>5. ASSUME NEW a \in 0 .. n PROVE g[a] = step(g[a - 1], a)
    <3>1. CASE a = n
      BY <2>2, <2>3, <3>1
    <3>2. CASE a # n /\ a # 0
      <4>1. a \in 0 .. n - 1 /\ a - 1 \in 0 .. n /\ a - 1 # n
        BY <2>3, <3>2
      <4> QED
        BY <2>4, <3>2, <4>1
    <3>3. CASE a # n /\ a = 0
      <4>1. a \in 0 .. n - 1
        BY <2>3, <3>3
      <4>2. step(g[a - 1], a) = step(f[a - 1], a)
        BY <3>3 DEF step
      <4> QED
        BY <2>4, <3>3, <4>1, <4>2
    <3> QED
      BY <3>1, <3>2, <3>3
  <2>6. isWalk(g, n)
    BY <2>5
  <2> QED
    BY <2>1, <2>6
<1>2. \E f : isWalk(f, Len(t))
  BY <1>1
<1> HIDE DEF bad
<1>3. \A f : isWalk(f, Len(t)) <=> ModulesFrom(t, i, f)
  BY DEF ModulesFrom
<1> HIDE DEF isWalk
<1>4. ModulesFrom(t, i, CHOOSE f : ModulesFrom(t, i, f))
  BY <1>2, <1>3
<1>5. InModules(t, i) = (CHOOSE f : ModulesFrom(t, i, f))[Len(t)]
  BY DEF InModules, ModulesFrom
<1> QED
  BY <1>4, <1>5

ModulesAround(t, i) == {m \in Ancestors(t, i) : t[m].kind = "mod"}

\* The modules around a node, as apply walks them.
LEMMA ModulesAre ==
  ASSUME NEW t, WellFormed(t), NEW i \in DOMAIN t
  PROVE  /\ InModules(t, i) = Names(t, ModulesAround(t, i)) /\ InModules(t, i) \in Seq(STRING)
<1> DEFINE A(a) == {m \in ModulesAround(t, i) : m <= a}
           n == Len(t)
<1>1. n \in Nat /\ DOMAIN t = 1 .. n
  BY TreeIsSequence
<1> HIDE DEF n
<1>2. PICK f : ModulesFrom(t, i, f) /\ InModules(t, i) = f[n]
  BY <1>1, ModulesAreDefined DEF n
<1>3. /\ f[0] = <<>>
      /\ \A a \in 1 .. n : f[a] = IF a \in ModulesAround(t, i) THEN Append(f[a - 1], t[a].name) ELSE f[a - 1]
  <2>1. f = [a \in 0 .. n |-> IF a = 0 THEN <<>>
                             ELSE IF a \in Ancestors(t, i) /\ t[a].kind = "mod" THEN Append(f[a - 1], t[a].name)
                             ELSE f[a - 1]]
    BY <1>2 DEF ModulesFrom, n
  <2>2. f[0] = <<>> /\ 0 \in 0 .. n
    BY <1>1, <2>1
  <2>3. ASSUME NEW a \in 1 .. n
        PROVE  f[a] = IF a \in ModulesAround(t, i) THEN Append(f[a - 1], t[a].name) ELSE f[a - 1]
    <3>1. a \in 0 .. n /\ a # 0
      BY <1>1
    <3>2. f[a] = IF a \in Ancestors(t, i) /\ t[a].kind = "mod" THEN Append(f[a - 1], t[a].name) ELSE f[a - 1]
      BY <2>1, <3>1
    <3> QED
      BY <3>2 DEF ModulesAround
  <2> QED
    BY <2>2, <2>3
<1>4. \A m \in ModulesAround(t, i) : m \in DOMAIN t /\ m \in Nat /\ m # 0
  BY <1>1, AncestorsAre DEF ModulesAround, n
<1> DEFINE bad == {a \in 0 .. n : f[a] # Names(t, A(a))}
<1>5. bad = {}
  <2> SUFFICES ASSUME bad # {} PROVE FALSE
    OBVIOUS
  <2>1. PICK a \in bad : \A j \in bad : a <= j
    <3>1. bad \subseteq Nat
      BY <1>1
    <3> HIDE DEF bad
    <3> QED
      BY <3>1, LeastNatural
  <2>2. CASE a = 0
    <3>1. A(0) = {}
      BY <1>4
    <3> QED
      BY <1>3, <2>1, <2>2, <3>1, NoNames
  <2>3. CASE a # 0
    <3>1. a \in 1 .. n /\ a - 1 \in 0 .. n /\ a \in Nat /\ a - 1 < a
      BY <1>1, <2>1, <2>3
    <3>2. f[a - 1] = Names(t, A(a - 1))
      <4>1. a - 1 \notin bad
        <5> HIDE DEF bad
        <5> QED
          BY <2>1, <3>1
      <4> QED
        BY <3>1, <4>1
    <3>3. CASE a \in ModulesAround(t, i)
      <4> DEFINE B == A(a - 1)
      <4>1. A(a) = B \cup {a} /\ B \subseteq Nat /\ B \in SUBSET DOMAIN t /\ \A b \in B : b < a
        <5>1. ASSUME NEW m \in ModulesAround(t, i) PROVE m <= a <=> m <= a - 1 \/ m = a
          BY <1>4, <3>1
        <5>2. ASSUME NEW m \in B PROVE m \in Nat /\ m \in DOMAIN t /\ m < a
          BY <1>4, <3>1
        <5>3. A(a) = B \cup {a}
          BY <3>1, <3>3, <5>1
        <5> HIDE DEF B, A
        <5> QED
          BY <5>2, <5>3
      <4> HIDE DEF B
      <4>2. IsFiniteSet(B)
        BY <4>1, NamesAre
      <4>3. Names(t, B \cup {a}) = Append(Names(t, B), t[a].name)
        BY <3>1, <4>1, <4>2, NamesGrow
      <4>4. f[a] = Append(Names(t, B), t[a].name)
        BY <1>3, <3>1, <3>2, <3>3 DEF B
      <4> QED
        BY <2>1, <4>1, <4>3, <4>4
    <3>4. CASE a \notin ModulesAround(t, i)
      <4>1. A(a) = A(a - 1)
        BY <1>4, <3>1, <3>4
      <4>2. f[a] = Names(t, A(a - 1))
        BY <1>3, <3>1, <3>2, <3>4
      <4> QED
        BY <2>1, <4>1, <4>2
    <3> QED
      BY <3>3, <3>4
  <2> QED
    BY <2>2, <2>3
<1>6. A(n) = ModulesAround(t, i)
  BY <1>1, <1>4
<1>7. f[n] = Names(t, A(n))
  <2>1. n \notin bad
    BY <1>5
  <2>2. n \in 0 .. n
    BY <1>1
  <2> HIDE DEF A
  <2> QED
    BY <2>1, <2>2
<1>8. ModulesAround(t, i) \in SUBSET DOMAIN t
  BY <1>4
<1>9. NamesOf(t, ModulesAround(t, i))
  BY <1>8, NamesAre
<1> HIDE DEF A
<1> QED
  BY <1>2, <1>6, <1>7, <1>9 DEF NamesOf

\* Whatever is bound has a reason.
HasReason(b) == b.reason \in {"unbound", "imported", "shadowed", "external", "ambiguous", "reassigned"}

LEMMA ReasonsAreBound ==
  ASSUME NEW lang, NEW t, NEW b, HasReason(b), NEW i, NEW s, NEW x
  PROVE  HasReason(BindNode(lang, t, b, i, s, x))
<1>1. HasReason(bind_import(b, Imported(lang, t[i])))
  BY DEF bind_import, HasReason
<1>2. ASSUME NEW target, NEW why \in {"external", "ambiguous", "shadowed"}
      PROVE  HasReason(bind(b, target, why))
  BY DEF bind, HasReason
<1>3. HasReason(bind(b, NoTarget, "external")) /\ HasReason(bind(b, i, "ambiguous"))
      /\ HasReason(bind(b, NoTarget, "shadowed"))
  BY <1>2
<1> HIDE DEF HasReason
<1> QED
  BY <1>1, <1>3 DEF BindNode

LEMMA VisitHasReason ==
  ASSUME NEW lang, NEW t, WellFormed(t), NEW s, NEW x
  PROVE  HasReason(Visited(lang, t, s, x))
<1> DEFINE n == Len(t)
<1>1. n \in Nat
  BY TreeIsSequence
<1>2. PICK f : VisitFrom(lang, t, s, x, f) /\ Visited(lang, t, s, x) = f[n]
  BY <1>1, VisitIsDefined
<1> HIDE DEF n
<1>3. \A j \in 0 .. n :
        f[j] = IF j = 0 THEN Unbound
               ELSE IF Binds(lang, t, j, s, x) THEN BindNode(lang, t, f[j - 1], j, s, x) ELSE f[j - 1]
  BY <1>2 DEF VisitFrom, n
<1> DEFINE bad == {j \in 0 .. n : ~HasReason(f[j])}
<1>4. bad = {}
  <2> SUFFICES ASSUME bad # {} PROVE FALSE
    OBVIOUS
  <2>1. PICK j \in bad : \A k \in bad : j <= k
    <3>1. bad \subseteq Nat
      BY <1>1
    <3> HIDE DEF bad
    <3> QED
      BY <3>1, LeastNatural
  <2>2. CASE j = 0
    <3>1. f[0] = Unbound
      BY <1>1, <1>3
    <3>2. HasReason(Unbound)
      BY DEF HasReason, Unbound
    <3> QED
      BY <2>1, <2>2, <3>1, <3>2
  <2>3. CASE j # 0
    <3>1. j \in 0 .. n /\ j - 1 \in 0 .. n /\ j - 1 < j
      BY <1>1, <2>1, <2>3
    <3>2. HasReason(f[j - 1])
      <4>1. j - 1 \notin bad
        <5> HIDE DEF bad
        <5> QED
          BY <1>1, <2>1, <3>1
      <4> QED
        BY <3>1, <4>1
    <3>3. HasReason(f[j])
      BY <1>3, <2>3, <3>1, <3>2, ReasonsAreBound
    <3> QED
      BY <2>1, <3>3
  <2> QED
    BY <2>2, <2>3
<1>5. n \in 0 .. n
  BY <1>1
<1> QED
  BY <1>2, <1>4, <1>5

\* A name that is not linked is refused for a reason.
LEMMA LookupHasReason ==
  ASSUME NEW lang, NEW t, WellFormed(t), NEW i \in DOMAIN t, NEW x \in Sought(t)
  PROVE  lookup(lang, t, Bindings(lang, t), ScopeAt(lang, t, i), x).reason # ""
<1> DEFINE bindings == Bindings(lang, t)
           b == lookup(lang, t, bindings, ScopeAt(lang, t, i), x)
           holders == {u \in Chain(lang, t, ScopeAt(lang, t, i)) :
                         ~member_namespace(lang, t, u) /\ bindings[<<u, x>>] # Unbound}
<1>1. b = IF holders = {} THEN Unbound ELSE bindings[<<Max(holders), x>>]
  BY DEF lookup
<1>2. ASSUME NEW u \in 0 .. Len(t) PROVE HasReason(bindings[<<u, x>>])
  <2>1. /\ <<u, x>> \in DOMAIN Collected(lang, t) /\ Collected(lang, t)[<<u, x>>] = Visited(lang, t, u, x)
    BY CollectedIs
  <2>2. \/ bindings[<<u, x>>] = [target |-> NoTarget, import |-> NoImport, reason |-> "reassigned"]
        \/ bindings[<<u, x>>] = Visited(lang, t, u, x)
    BY <2>1 DEF Bindings, Invalidated
  <2>3. HasReason([target |-> NoTarget, import |-> NoImport, reason |-> "reassigned"])
    BY DEF HasReason
  <2> HIDE DEF bindings, HasReason
  <2> QED
    BY <2>2, <2>3, VisitHasReason
<1>3. HasReason(Unbound)
  BY DEF HasReason, Unbound
<1>4. holders # {} => Max(holders) \in 0 .. Len(t)
  <2>1. Chain(lang, t, ScopeAt(lang, t, i)) \subseteq 0 .. Len(t) /\ Len(t) \in Nat
    BY ReadableIs, TreeIsSequence
  <2>2. holders \subseteq 0 .. Len(t)
    BY <2>1
  <2> HIDE DEF holders
  <2>3. holders \subseteq Nat /\ \A u \in holders : u <= Len(t)
    BY <2>1, <2>2
  <2> QED
    BY <2>1, <2>2, <2>3, MaxIsGreatest
<1> HIDE DEF b, holders, bindings
<1>5. HasReason(b)
  BY <1>1, <1>2, <1>3, <1>4
<1>6. b.reason # ""
  BY <1>5 DEF HasReason
<1> QED
  BY <1>6 DEF b, bindings

\* A first part, and what follows it.
LEMMA ConsTail ==
  ASSUME NEW x, NEW s \in Seq(STRING)
  PROVE  /\ <<x>> \o s # <<>> /\ (<<x>> \o s)[1] = x /\ Tail(<<x>> \o s) = s
         /\ Len(<<x>> \o s) = Len(s) + 1 /\ Len(s) \in Nat
<1> DEFINE S == STRING \cup {x}
           r == <<x>> \o s
<1>1. s \in Seq(S) /\ Len(s) \in Nat
  BY SeqMonotonic
<1>2. <<x>> \in Seq(S) /\ Len(<<x>>) = 1 /\ <<x>>[1] = x
  <2>1. <<x>> = Append(<<>>, x) /\ <<x>>[1] = x
    OBVIOUS
  <2>2. <<>> \in Seq(S) /\ Len(<<>>) = 0
    BY EmptySeq
  <2>3. Append(<<>>, x) \in Seq(S) /\ Len(Append(<<>>, x)) = Len(<<>>) + 1
    BY <2>2, AppendProperties
  <2> QED
    BY <2>1, <2>2, <2>3
<1>3. /\ r \in Seq(S) /\ Len(r) = 1 + Len(s)
      /\ \A i \in 1 .. 1 + Len(s) : r[i] = IF i <= 1 THEN <<x>>[i] ELSE s[i - 1]
  BY <1>1, <1>2, ConcatProperties
<1> HIDE DEF r, S
<1>4. r[1] = x /\ r # <<>>
  BY <1>1, <1>2, <1>3
<1>5. /\ Tail(r) \in Seq(S) /\ Len(Tail(r)) = Len(r) - 1
      /\ \A i \in 1 .. Len(Tail(r)) : Tail(r)[i] = r[i + 1]
  BY <1>3, <1>4, HeadTailProperties
<1> DEFINE u == Tail(r)
<1> HIDE DEF u
<1>6. Len(u) = Len(s)
  BY <1>1, <1>3, <1>5 DEF u
<1>7. ASSUME NEW i \in 1 .. Len(u) PROVE u[i] = s[i]
  <2>1. i + 1 \in 1 .. 1 + Len(s) /\ ~(i + 1 <= 1) /\ i + 1 - 1 = i
    BY <1>1, <1>6
  <2>2. r[i + 1] = s[i]
    BY <1>3, <2>1
  <2> QED
    BY <1>5, <2>2 DEF u
<1>8. u = s
  BY <1>1, <1>5, <1>6, <1>7, SeqEqual DEF u
<1> QED
  BY <1>1, <1>3, <1>4, <1>8 DEF r, u

LEMMA FrontOfConcat ==
  ASSUME NEW a \in Seq(STRING), NEW m \in Seq(STRING), m # <<>>
  PROVE  a \o m # <<>> /\ Front(a \o m) = a \o Front(m) /\ Front(m) \in Seq(STRING)
<1>1. PICK e \in Seq(STRING), y \in STRING : m = Append(e, y)
  BY SequenceEmptyOrAppend
<1>2. Front(m) = e
  BY <1>1, SplitAppend
<1>3. <<y>> \in Seq(STRING)
  BY OneName
<1>4. m = e \o <<y>> /\ a \o e \in Seq(STRING)
  BY <1>1, AppendIsConcat, ConcatProperties
<1>5. a \o m = (a \o e) \o <<y>>
  BY <1>3, <1>4, Joined
<1>6. a \o m = Append(a \o e, y)
  BY <1>4, <1>5, AppendIsConcat
<1>7. Front(a \o m) = a \o e
  BY <1>4, <1>6, SplitAppend
<1>8. a \o m # <<>>
  <2>1. Append(a \o e, y) # <<>>
    BY <1>4, LastOfAppend
  <2> QED
    BY <1>6, <2>1
<1> QED
  BY <1>2, <1>7, <1>8

LEMMA RustModuleIs ==
  ASSUME SourceIsProgram, NEW f \in DOMAIN source
  PROVE  rust_module(f) \in Seq(STRING)
<1>1. f.dir \in Seq(STRING) /\ f.stem \in STRING
  BY DEF SourceIsProgram, IsProgram
<1>2. <<f.stem>> \in Seq(STRING) /\ <<>> \in Seq(STRING)
  BY <1>1, OneName, EmptySeq
<1>3. f.dir # <<>> => Tail(f.dir) \in Seq(STRING)
  BY <1>1, HeadTailProperties
<1> DEFINE a == IF f.dir # <<>> /\ f.dir[1] = "src" THEN Tail(f.dir) ELSE f.dir
           b == IF f.stem \in {"lib", "main", "mod"} THEN <<>> ELSE <<f.stem>>
<1>4. a \in Seq(STRING) /\ b \in Seq(STRING)
  BY <1>1, <1>2, <1>3
<1> HIDE DEF a, b
<1>5. a \o b \in Seq(STRING)
  BY <1>4, ConcatProperties
<1> QED
  BY <1>5 DEF rust_module, a, b

LEMMA TailIs ==
  ASSUME NEW p \in Seq(STRING), Len(p) > 1
  PROVE  p # <<>> /\ Tail(p) \in Seq(STRING) /\ Tail(p) # <<>> /\ Len(p) \in Nat
<1>1. p # <<>> /\ Len(p) \in Nat
  OBVIOUS
<1>2. Tail(p) \in Seq(STRING) /\ Len(Tail(p)) = Len(p) - 1
  BY <1>1, HeadTailProperties
<1>3. Len(Tail(p)) # 0
  BY <1>1, <1>2
<1> QED
  BY <1>1, <1>2, <1>3, EmptySeq

\* Where a path that begins with a keyword begins, from the root of the crate.
RustFrom(module, first) ==
  CASE first = "crate" -> <<>>
    [] first = "self" -> module
    [] first = "super" -> IF module = <<>> THEN <<>> ELSE Front(module)

\* A row whose path apply turned to the module of its file leads where the path
\* leads from the module of the call.
LEMMA RelativeIs ==
  ASSUME SourceIsProgram, NEW row, row.file \in DOMAIN source, LangOf(row.file) = "rust",
         row.at \in DOMAIN Tree(row.file), NEW p \in Seq(STRING), Len(p) > 1,
         p[1] \in {"crate", "self", "super"}, row.path = FromFile(Tree(row.file), row.at, p)
  PROVE  /\ row.path # <<>> /\ row.path[1] # "@import"
         /\ rust_relative(row) # NotRelative
         /\ rust_relative(row)
              = RustFrom(rust_module(row.file) \o Names(Tree(row.file), ModulesAround(Tree(row.file), row.at)), p[1])
                  \o Tail(p)
<1> DEFINE t == Tree(row.file)
           module == rust_module(row.file)
           mods == InModules(t, row.at)
           rest == Tail(p)
<1>1. WellFormed(t)
  BY FileParts
<1>2. mods = Names(t, ModulesAround(t, row.at)) /\ mods \in Seq(STRING)
  BY <1>1, ModulesAre
<1>3. module \in Seq(STRING)
  BY RustModuleIs
<1>4. p # <<>> /\ rest \in Seq(STRING) /\ rest # <<>> /\ Len(p) \in Nat
  BY TailIs
<1>5. row.path = IF mods = <<>> \/ p[1] \notin {"self", "super"} \/ Len(p) < 2 THEN p
                 ELSE <<"local_module">> \o (IF p[1] = "super" THEN Front(mods) ELSE mods) \o Tail(p)
  BY DEF FromFile
<1> DEFINE path == row.path
           from == IF path[1] = "super" /\ module # <<>> THEN Front(module) ELSE module
<1>6. rust_relative(row) =
        CASE LangOf(row.file) # "rust" \/ Len(path) < 2 -> NotRelative
          [] LangOf(row.file) = "rust" /\ Len(path) > 1 ->
               IF path[1] = "crate" THEN Tail(path)
               ELSE IF path[1] \in {"self", "super", "local_module"} THEN from \o Tail(path)
               ELSE NotRelative
  BY DEF rust_relative
<1>7. ASSUME Len(path) \in Nat, Len(path) > 1
      PROVE  rust_relative(row) =
               IF path[1] = "crate" THEN Tail(path)
               ELSE IF path[1] \in {"self", "super", "local_module"} THEN from \o Tail(path)
               ELSE NotRelative
  <2>1. ~(Len(path) < 2)
    BY <1>7
  <2> HIDE DEF from
  <2> QED
    BY <1>6, <1>7, <2>1
<1>8. \A a \in Seq(STRING) : a \o rest \in Seq(STRING) /\ a \o rest # <<>> /\ a \o <<>> = a /\ <<>> \o rest = rest
  BY <1>4, ConcatProperties, ConcatEqualIffEmpty, ConcatEmptySeq
<1>9. CASE mods = <<>> \/ p[1] = "crate"
  <2>1. path = p
    BY <1>5, <1>9
  <2>2. rust_relative(row) = IF p[1] = "crate" THEN rest ELSE from \o rest
    BY <1>4, <1>7, <2>1
  <2>3. p[1] # "crate" => module \o mods = module
    BY <1>3, <1>8, <1>9
  <2>4. module # <<>> => Front(module) \in Seq(STRING)
    BY <1>3, SplitLast
  <2>5. CASE p[1] = "crate"
    <3>1. RustFrom(module \o mods, p[1]) = <<>>
      BY <2>5 DEF RustFrom
    <3>2. <<>> \o rest = rest
      BY <1>3, <1>8
    <3> QED
      BY <1>2, <1>4, <2>1, <2>2, <2>5, <3>1, <3>2 DEF NotRelative
  <2>6. CASE p[1] = "self"
    <3>1. RustFrom(module \o mods, p[1]) = module
      BY <2>3, <2>6 DEF RustFrom
    <3>2. from = module
      BY <2>1, <2>6
    <3>3. module \o rest # <<>>
      BY <1>3, <1>8
    <3> QED
      BY <1>2, <1>4, <2>1, <2>2, <2>6, <3>1, <3>2, <3>3 DEF NotRelative
  <2>7. CASE p[1] = "super"
    <3>1. RustFrom(module \o mods, p[1]) = IF module = <<>> THEN <<>> ELSE Front(module)
      BY <2>3, <2>7 DEF RustFrom
    <3>2. from = IF module = <<>> THEN <<>> ELSE Front(module)
      BY <2>1, <2>7
    <3>3. from \in Seq(STRING)
      BY <2>4, <3>2, EmptySeq
    <3> HIDE DEF from
    <3>4. from \o rest # <<>>
      BY <1>8, <3>3
    <3> QED
      BY <1>2, <1>4, <2>1, <2>2, <2>7, <3>1, <3>2, <3>4 DEF NotRelative
  <2> QED
    BY <2>5, <2>6, <2>7
<1>10. CASE mods # <<>> /\ p[1] # "crate"
  <2> DEFINE near == IF p[1] = "super" THEN Front(mods) ELSE mods
             tail == near \o rest
  <2>1. near \in Seq(STRING)
    BY <1>2, <1>10, SplitLast
  <2>2. path = (<<"local_module">> \o near) \o rest
    <3>1. ~(Len(p) < 2) /\ p[1] \in {"self", "super"}
      BY <1>4, <1>10
    <3> QED
      BY <1>5, <1>10, <3>1
  <2> HIDE DEF near
  <2>3. path = <<"local_module">> \o tail /\ tail \in Seq(STRING) /\ tail # <<>>
    <3>1. tail \in Seq(STRING) /\ tail # <<>>
      BY <1>8, <2>1
    <3>2. ASSUME NEW x PROVE (<<x>> \o near) \o rest = <<x>> \o (near \o rest)
      <4> DEFINE S == STRING \cup {x}
      <4>1. near \in Seq(S) /\ rest \in Seq(S)
        BY <1>4, <2>1, SeqMonotonic
      <4>2. <<x>> \in Seq(S)
        <5>1. <<x>> = Append(<<>>, x) /\ <<>> \in Seq(S) /\ x \in S
          BY EmptySeq
        <5> HIDE DEF S
        <5> QED
          BY <5>1, AppendProperties
      <4> HIDE DEF S
      <4> QED
        BY <4>1, <4>2, ConcatAssociative
    <3> QED
      BY <2>2, <3>1, <3>2
  <2> HIDE DEF tail
  <2>4. path # <<>> /\ path[1] = "local_module" /\ Tail(path) = tail /\ Len(path) = Len(tail) + 1
        /\ Len(tail) \in Nat /\ Len(tail) # 0
    BY <2>3, ConsTail, EmptySeq
  <2>5. Len(path) \in Nat /\ Len(path) > 1
    BY <2>4
  <2>6. from = module
    BY <2>4
  <2>7. rust_relative(row) = module \o tail
    BY <1>7, <2>4, <2>5, <2>6
  <2>8. module \o tail = (module \o near) \o rest
    BY <1>3, <1>4, <2>1, Joined DEF tail
  <2>9. RustFrom(module \o mods, p[1]) = module \o near
    <3>1. CASE p[1] = "self"
      BY <3>1 DEF RustFrom, near
    <3>2. CASE p[1] = "super"
      <4>1. module \o mods # <<>> /\ Front(module \o mods) = module \o Front(mods)
        BY <1>2, <1>3, <1>10, FrontOfConcat
      <4> QED
        BY <3>2, <4>1 DEF RustFrom, near
    <3> QED
      BY <1>10, <3>1, <3>2
  <2>10. module \o tail # <<>>
    BY <1>3, <2>3, ConcatEqualIffEmpty
  <2> QED
    BY <1>2, <2>4, <2>7, <2>8, <2>9, <2>10 DEF NotRelative
<1> QED
  BY <1>9, <1>10

\* Then it means the symbols its path means.
LEMMA RustPathIs ==
  ASSUME SourceIsProgram, NEW row, row.file \in DOMAIN source, LangOf(row.file) = "rust",
         row.at \in DOMAIN Tree(row.file), NEW p \in Seq(STRING), Len(p) > 1,
         p[1] \in {"crate", "self", "super"}, row.path = FromFile(Tree(row.file), row.at, p), row.blocked = ""
  PROVE  ids(symbols, imports, row) = RustMeaning(row, p)
<1> DEFINE module == rust_module(row.file) \o Names(Tree(row.file), ModulesAround(Tree(row.file), row.at))
           path == rust_relative(row)
<1>1. /\ row.path # <<>> /\ row.path[1] # "@import" /\ path # NotRelative
      /\ path = RustFrom(module, p[1]) \o Tail(p)
  BY RelativeIs
<1> HIDE DEF path
<1>2. ids(symbols, imports, row) = RustSymbols(symbols, row.file.project, path)
  BY <1>1 DEF ids, IsImported, IsRelative, path
<1>3. RustMeaning(row, p) = {s \in symbols : /\ LangOf(s.file) = "rust" /\ s.file.project = row.file.project
                                             /\ rust_module(s.file) \o s.qualified = RustFrom(module, p[1]) \o Tail(p)}
  BY DEF RustMeaning, RustFrom, ModulesAround, Tree
<1> HIDE DEF module
<1> QED
  BY <1>1, <1>2, <1>3 DEF RustSymbols

-----------------------------------------------------------------------------
(***************************************************************************)
(* Candidates: what symbols a row of a call finds.                         *)
(***************************************************************************)

\* The binding that apply finds for a name.
Binding(lang, t, i, x) == lookup(lang, t, Bindings(lang, t), ScopeAt(lang, t, i), x)

BindingFits(lang, t, i, x) ==
  LET b == Binding(lang, t, i, x)
      bound == OnlyImport(lang, t, i, x)
      defined == OnlyDefinition(lang, t, i, x)
  IN  /\ b = Unbound <=> VariableAt(lang, t, i, x) = NoScope
      /\ b = Unbound => defined = {} /\ bound = {}
      /\ {b.target} \ {NoTarget} = defined
      /\ b.import = NoImport <=> bound = {}
      /\ \A d \in bound : b.import = Imported(lang, t[d])
      /\ b.reason # ""
      /\ \A d \in bound : bound = {d} /\ d \in Imports(t) /\ NamesImport(lang, t[d]) /\ t[d].name = x
      /\ defined \subseteq Definitions(t)
      /\ bound # {} => defined = {}

LEMMA BindingsFit ==
  ASSUME NEW lang, NEW t, WellFormed(t), Ecma(lang) => MembersOnly(t), NEW i \in DOMAIN t, NEW x \in Sought(t),
         PlainName(t, x)
  PROVE  BindingFits(lang, t, i, x)
<1> DEFINE b == Binding(lang, t, i, x)
           bound == OnlyImport(lang, t, i, x)
           defined == OnlyDefinition(lang, t, i, x)
<1>1. /\ b = Unbound <=> VariableAt(lang, t, i, x) = NoScope
      /\ {b.target} \ {NoTarget} = defined
      /\ b.import = NoImport <=> bound = {}
      /\ \A d \in bound : b.import = Imported(lang, t[d])
  BY BindingsAreExact DEF Binding
<1>2. b.reason # ""
  BY LookupHasReason DEF Binding
<1>3. Writers(lang, t, i, x) \subseteq DOMAIN t
  BY DEF Writers, Declarations, Assignments
<1>4. \A d \in bound : bound = {d} /\ d \in DOMAIN t /\ NamesImport(lang, t[d]) /\ t[d].name = x
  BY <1>3 DEF OnlyImport
<1>5. \A d \in bound : d \in Imports(t)
  BY <1>4 DEF NamesImport, Imports
<1>6. defined \subseteq Definitions(t)
  <2> SUFFICES ASSUME NEW d \in defined PROVE d \in Definitions(t)
    OBVIOUS
  <2>1. d \in DOMAIN t /\ t[d].kind \in {"function", "class", "fn_let", "fn_var"}
    BY <1>3 DEF OnlyDefinition, Defines
  <2>2. KindOf(t[d]) # "none"
    BY <2>1 DEF KindOf
  <2> QED
    BY <2>1, <2>2 DEF Definitions
<1>7. b = Unbound => b.target = NoTarget /\ b.import = NoImport
  BY DEF Unbound, NoBinding, NoTarget
<1>8. b = Unbound => defined = {} /\ bound = {}
  <2> HIDE DEF b, bound, defined
  <2> QED
    BY <1>1, <1>7
<1>9. bound # {} => defined = {}
  <2>1. \A d \in bound : Writers(lang, t, i, x) = {d} /\ ~Defines(t[d])
    BY DEF OnlyImport, NamesImport, Defines
  <2>2. \A d \in defined : d \in Writers(lang, t, i, x) /\ Defines(t[d])
    BY DEF OnlyDefinition
  <2> HIDE DEF bound, defined
  <2> QED
    BY <2>1, <2>2
<1> QED
  BY <1>1, <1>2, <1>4, <1>5, <1>6, <1>8, <1>9 DEF BindingFits

\* A row of a call that is resolved by scopes.
ScopedCall(r) ==
  /\ SourceIsProgram /\ Stored /\ ImportsResolved
  /\ r.file \in DOMAIN source /\ LangOf(r.file) # "go" /\ CallRowOf(r.file, r) /\ Ordinary(r)

LEMMA ScopedCallHas ==
  ASSUME NEW r, ScopedCall(r)
  PROVE  LET t == Tree(r.file)
             lang == LangOf(r.file)
         IN  /\ lang \in {"javascript", "typescript", "python", "rust"} /\ WellFormed(t)
             /\ WellNamed(lang, t)
             /\ Ecma(lang) => MembersOnly(t)
             /\ lang = "rust" => SelfInMethods(t)
             /\ r.at \in Calls(t) /\ r.at \in DOMAIN t
             /\ t[r.at].name \in Sought(t) /\ t[r.at].of \in Sought(t)
             /\ t[r.at].path # <<>> => t[r.at].path[1] \in Sought(t)
             /\ Literal(r) /\ PlainName(t, HeadOf(t[r.at])) /\ NoTraitInImpl(t, r.at)
<1> DEFINE t == Tree(r.file)
           lang == LangOf(r.file)
<1>1. lang \in {"javascript", "typescript", "python", "rust"} /\ WellFormed(t)
  BY FileParts DEF ScopedCall
<1>2. WellNamed(lang, t) /\ (Ecma(lang) => MembersOnly(t)) /\ (lang = "rust" => SelfInMethods(t))
  BY DEF ScopedCall, SourceIsProgram, IsProgram, Tree
<1>3. r.at \in Calls(t)
  BY DEF ScopedCall, CallRowOf
<1>4. r.at \in DOMAIN t /\ r.at \in {j \in DOMAIN t : t[j].kind = "call"}
  BY <1>3 DEF Calls
<1>5. t[r.at].name \in Sought(t) /\ t[r.at].of \in Sought(t)
        /\ (t[r.at].path # <<>> => t[r.at].path[1] \in Sought(t))
  <2> DEFINE sought(i) == {t[i].name, t[i].of, IF t[i].path = <<>> THEN "" ELSE t[i].path[1]}
             called == {j \in DOMAIN t : t[j].kind = "call"}
  <2>1. Sought(t) = UNION {sought(i) : i \in called}
    BY DEF Sought
  <2>2. sought(r.at) \subseteq Sought(t)
    BY <1>4, <2>1
  <2>3. /\ t[r.at].name \in sought(r.at) /\ t[r.at].of \in sought(r.at)
        /\ (t[r.at].path # <<>> => t[r.at].path[1] \in sought(r.at))
    OBVIOUS
  <2> HIDE DEF sought
  <2> QED
    BY <2>2, <2>3
<1>6. Literal(r) /\ PlainName(t, HeadOf(t[r.at])) /\ NoTraitInImpl(t, r.at)
  BY DEF ScopedCall, Ordinary, Tree
<1> QED
  BY <1>1, <1>2, <1>3, <1>4, <1>5, <1>6

\* Nothing is looked for under a blocked row.
LEMMA BlockedIds ==
  ASSUME NEW r, r.blocked # ""
  PROVE  ids(symbols, imports, r) = {}
  BY DEF ids

LEMMA ShortOrLong == \A n \in Nat : n < 2 <=> ~(n > 1)
  OBVIOUS

\* A path that begins with a definition is looked up in the file.
LEMMA PlainIds ==
  ASSUME NEW r, ScopedCall(r), r.blocked = "", r.path \in Seq(STRING), r.path # <<>>,
         \E a \in Definitions(Tree(r.file)) : r.path[1] = Tree(r.file)[a].name
  PROVE  ids(symbols, imports, r) = InFile(r, r.path)
<1> DEFINE t == Tree(r.file)
           lang == LangOf(r.file)
<1>1. PICK a \in Definitions(t) : r.path[1] = t[a].name
  OBVIOUS
<1>2. WellNamed(lang, t)
  BY ScopedCallHas
<1>3. a \in DOMAIN t \ (Calls(t) \cup Imports(t))
  <2>1. a \in DOMAIN t
    BY DEF Definitions
  <2> QED
    BY <2>1, ReferencesDefineNothing
<1>4. t[a].name # "@import" /\ (lang = "rust" => t[a].name \notin {"crate", "self", "super"})
  BY <1>2, <1>3 DEF WellNamed
<1>5. lang = "rust" => t[a].name # "local_module"
  BY <1>1, ScopedCallHas DEF Literal, Tree
<1>6. ~IsImported(r)
  BY <1>1, <1>4 DEF IsImported
<1>7. rust_relative(r) = NotRelative
  <2> DEFINE module == rust_module(r.file)
             from == IF r.path[1] = "super" /\ module # <<>> THEN Front(module) ELSE module
             long == Len(r.path) > 1
             short == Len(r.path) < 2
  <2>1. rust_relative(r) =
          CASE lang # "rust" \/ short -> NotRelative
            [] lang = "rust" /\ long ->
                 IF r.path[1] = "crate" THEN Tail(r.path)
                 ELSE IF r.path[1] \in {"self", "super", "local_module"} THEN from \o Tail(r.path)
                 ELSE NotRelative
    BY DEF rust_relative
  <2>2. Len(r.path) \in Nat
    BY LenProperties
  <2>3. short <=> ~long
    BY <2>2, ShortOrLong
  <2> HIDE DEF short, long, from
  <2> QED
    BY <1>1, <1>4, <1>5, <2>1, <2>3
<1>8. ~IsRelative(r)
  BY <1>7 DEF IsRelative
<1> QED
  BY <1>6, <1>8 DEF ids, QualifiedIn, InFile

LEMMA ImportPath ==
  ASSUME NEW p, NEW n
  PROVE  LET q == <<"@import", p, n>> IN q # <<>> /\ q[1] = "@import" /\ q[2] = p /\ q[3] = n
  OBVIOUS

\* The path of an import is looked up in the file its specifier means.
LEMMA ImportedIds ==
  ASSUME NEW r, ScopedCall(r), BySpecifier(LangOf(r.file)), r.blocked = "",
         NEW d \in Imports(Tree(r.file)), NEW name, r.path = <<"@import", Tree(r.file)[d].path, name>>
  PROVE  ids(symbols, imports, r) = Exports(r, d, name)
<1> DEFINE path == Tree(r.file)[d].path
           g == ImportedFile(imports, r.file, path)
<1>1. r.path # <<>> /\ r.path[1] = "@import" /\ r.path[2] = path /\ r.path[3] = name
  <2> DEFINE q == <<"@import", path, name>>
  <2>1. q # <<>> /\ q[1] = "@import" /\ q[2] = path /\ q[3] = name
    BY ImportPath
  <2>2. r.path = q
    OBVIOUS
  <2> HIDE DEF path, q
  <2> QED
    BY <2>1, <2>2
<1> HIDE DEF path
<1>2. ids(symbols, imports, r) = IF g = NoFile THEN {} ELSE ExportedBy(symbols, g, name)
  BY <1>1 DEF ids, IsImported
<1>3. SourceIsProgram /\ Stored /\ ImportsResolved /\ r.file \in DOMAIN source
  BY DEF ScopedCall
<1>4. /\ g \in DOMAIN source \cup {NoFile}
      /\ \A h \in DOMAIN source : Meant(r.file, path) = {h} <=> g = h
  BY <1>3, ImportedIs DEF path
<1>5. \A h \in DOMAIN source : h # NoFile
  BY <1>3, FileParts
<1>6. \A s \in symbols : s.file \in DOMAIN source
  BY <1>3, RowsOfFiles
<1>7. Exports(r, d, name) = {s \in symbols : s.name = name /\ s.exported /\ Meant(r.file, path) = {s.file}}
  BY DEF Exports, Tree, path
<1> HIDE DEF g
<1> QED
  BY <1>2, <1>4, <1>5, <1>6, <1>7 DEF ExportedBy

\* The chain of names of a definition.
LEMMA NamedIs ==
  ASSUME NEW t, WellFormed(t), NEW d \in Definitions(t)
  PROVE  /\ Around(t, d) \in Seq(STRING) /\ Named(t, d) \in Seq(STRING) /\ Named(t, d) # <<>>
         /\ Named(t, d) = Around(t, d) \o <<t[d].name>>
         /\ \E a \in Definitions(t) : Named(t, d)[1] = t[a].name
<1> DEFINE s == Around(t, d)
           x == t[d].name
<1>1. d \in DOMAIN t /\ x \in STRING
  BY NodeFields DEF Definitions
<1>2. Outer(t, d) \in SUBSET DOMAIN t /\ Outer(t, d) \subseteq Definitions(t)
  BY DEF Outer, Definitions
<1>3. s = Names(t, Outer(t, d))
  BY DEF Around, Outer
<1>4. s \in Seq(STRING) /\ \A k \in 1 .. Len(s) : \E a \in Definitions(t) : s[k] = t[a].name
  BY <1>2, <1>3, NamesAre DEF NamesOf
<1> DEFINE r == Append(s, x)
<1> HIDE DEF s
<1>5. /\ r \in Seq(STRING) /\ r # <<>> /\ Len(s) \in Nat
      /\ \A i \in 1 .. Len(s) : r[i] = s[i]
      /\ r[Len(s) + 1] = x
      /\ r = s \o <<x>>
  <2>1. /\ r \in Seq(STRING) /\ r # <<>>
        /\ \A i \in 1 .. Len(s) : r[i] = s[i]
        /\ r[Len(s) + 1] = x
    BY <1>1, <1>4, AppendProperties
  <2>2. r = s \o <<x>>
    BY <1>1, <1>4, AppendIsConcat
  <2>3. Len(s) \in Nat
    BY <1>4, LenProperties
  <2> QED
    BY <2>1, <2>2, <2>3
<1> HIDE DEF r
<1>6. \E a \in Definitions(t) : r[1] = t[a].name
  <2>1. CASE Len(s) = 0
    <3>1. r[1] = x
      BY <1>5, <2>1
    <3> QED
      BY <3>1
  <2>2. CASE Len(s) # 0
    <3>1. 1 \in 1 .. Len(s)
      BY <1>5, <2>2
    <3> QED
      BY <1>4, <1>5, <3>1
  <2> QED
    BY <2>1, <2>2
<1> QED
  BY <1>4, <1>5, <1>6 DEF Named, r, s

\* A definition is looked up under its chain of names.
LEMMA DefinedIds ==
  ASSUME NEW r, ScopedCall(r), r.blocked = "", NEW d \in Definitions(Tree(r.file)),
         r.path = assign_nesting(Tree(r.file)).qualified[d]
  PROVE  ids(symbols, imports, r) = InFile(r, Around(Tree(r.file), d) \o <<Tree(r.file)[d].name>>)
<1> DEFINE t == Tree(r.file)
<1>1. WellFormed(t)
  BY ScopedCallHas
<1>2. r.path = Named(t, d)
  BY <1>1, NestingIsAround
<1>3. /\ Named(t, d) \in Seq(STRING) /\ Named(t, d) # <<>>
      /\ Named(t, d) = Around(t, d) \o <<t[d].name>>
      /\ \E a \in Definitions(t) : Named(t, d)[1] = t[a].name
  BY <1>1, NamedIs
<1>4. ids(symbols, imports, r) = InFile(r, r.path)
  BY <1>2, <1>3, PlainIds
<1> QED
  BY <1>2, <1>3, <1>4

\* A bare name that no import binds is looked up if one definition does.
LEMMA BareIds ==
  ASSUME NEW r, ScopedCall(r), NEW t, t = Tree(r.file), NEW lang, lang = LangOf(r.file),
         HeadOf(t[r.at]) = t[r.at].name,
         OnlyImport(lang, t, r.at, t[r.at].name) = {},
         r.path = Bare(lang, t, Bindings(lang, t), r.at, assign_nesting(t).qualified).path,
         r.blocked = Bare(lang, t, Bindings(lang, t), r.at, assign_nesting(t).qualified).blocked
  PROVE  ids(symbols, imports, r)
           = UNION {InFile(r, Around(t, d) \o <<t[d].name>>) : d \in OnlyDefinition(lang, t, r.at, t[r.at].name)}
<1> DEFINE x == t[r.at].name
           b == Binding(lang, t, r.at, x)
           defined == OnlyDefinition(lang, t, r.at, x)
           nesting == assign_nesting(t).qualified
           a == Bare(lang, t, Bindings(lang, t), r.at, nesting)
           meant(d) == InFile(r, Around(t, d) \o <<t[d].name>>)
<1>1. /\ WellFormed(t) /\ (Ecma(lang) => MembersOnly(t)) /\ r.at \in DOMAIN t /\ x \in Sought(t)
      /\ PlainName(t, x)
  BY ScopedCallHas
<1>2. BindingFits(lang, t, r.at, x)
  BY <1>1, BindingsFit
<1>3. /\ b = Unbound => defined = {}
      /\ {b.target} \ {NoTarget} = defined
      /\ b.import = NoImport
      /\ b.reason # ""
      /\ defined \subseteq Definitions(t)
  BY <1>2 DEF BindingFits
<1> HIDE DEF defined
<1>4. a = CASE b = Unbound -> Blocked(NoPath, "unknown")
            [] b.import # NoImport /\ b.import[2] = "*" -> Blocked(NoPath, "unsupported_import")
            [] b.import # NoImport /\ b.import[2] # "*" -> Path(<<"@import", b.import[1], b.import[2]>>)
            [] b.target # NoTarget -> Path(nesting[b.target])
            [] OTHER -> Blocked(NoPath, b.reason)
  BY DEF Bare, Binding
<1>5. \A p, why : Blocked(p, why).blocked = why /\ Path(p).blocked = "" /\ Path(p).path = p
  BY DEF Blocked, Path
<1> HIDE DEF b
<1>6. b = Unbound => b.target = NoTarget
  BY DEF Unbound, NoTarget, NoBinding
<1>7. a = IF b.target # NoTarget THEN Path(nesting[b.target])
          ELSE IF b = Unbound THEN Blocked(NoPath, "unknown") ELSE Blocked(NoPath, b.reason)
  BY <1>3, <1>4, <1>6
<1> HIDE DEF a
<1>8. r.path = a.path /\ r.blocked = a.blocked
  BY DEF a
<1>9. CASE b.target = NoTarget
  <2>1. r.blocked # ""
    <3>1. CASE b = Unbound
      <4>1. a = Blocked(NoPath, "unknown")
        BY <1>7, <1>9, <3>1
      <4> HIDE DEF a
      <4>2. a.blocked = "unknown"
        BY <4>1 DEF Blocked
      <4> QED
        BY <1>8, <4>2
    <3>2. CASE b # Unbound
      <4>1. a = Blocked(NoPath, b.reason)
        BY <1>7, <1>9, <3>2
      <4> HIDE DEF a
      <4>2. a.blocked = b.reason
        BY <4>1 DEF Blocked
      <4> QED
        BY <1>3, <1>8, <4>2
    <3> QED
      BY <3>1, <3>2
  <2>2. defined = {}
    BY <1>3, <1>9
  <2> HIDE DEF meant
  <2>3. ids(symbols, imports, r) = {}
    BY <2>1, BlockedIds
  <2> QED
    BY <2>2, <2>3 DEF defined
<1>10. CASE b.target # NoTarget
  <2>1. defined = {b.target} /\ b.target \in Definitions(t)
    BY <1>3, <1>10
  <2>2. r.blocked = "" /\ r.path = nesting[b.target]
    BY <1>5, <1>7, <1>8, <1>10
  <2>3. ids(symbols, imports, r) = meant(b.target)
    BY <2>1, <2>2, DefinedIds
  <2> HIDE DEF meant
  <2>4. UNION {meant(d) : d \in defined} = meant(b.target)
    BY <2>1
  <2> QED
    BY <2>3, <2>4 DEF defined, meant
<1> QED
  BY <1>9, <1>10

-----------------------------------------------------------------------------
(***************************************************************************)
(* The meaning of a call, and one lemma per way of writing it.             *)
(***************************************************************************)

\* The parts of Meaning.
CallAt(r) == Tree(r.file)[r.at]

BoundTo(r, x) == OnlyImport(LangOf(r.file), Tree(r.file), r.at, x)

EcmaExports(r, bound) ==
  UNION {Exports(r, d, IF CallAt(r).of = "" THEN Tree(r.file)[d].of ELSE CallAt(r).name) :
           d \in {b \in bound : (CallAt(r).of # "") <=> (Tree(r.file)[b].of = "*")}}

PythonExports(r, bound) == UNION {Exports(r, d, Tree(r.file)[d].of) : d \in bound}

Implementations(r) == {a \in Ancestors(Tree(r.file), r.at) : Tree(r.file)[a].kind = "impl"}

SelfMethods(r) ==
  LET t == Tree(r.file)
      owner == Innermost(Holders(t, r.at))
  IN  IF owner = 0 \/ t[owner].kind = "trait" THEN {}
      ELSE InFile(r, Around(t, owner) \o <<t[owner].name, CallAt(r).name>>)

UsedPaths(r, bound) ==
  UNION {RustMeaning(r, Tree(r.file)[d].path
                          \o (IF CallAt(r).path = NoPath THEN NoPath ELSE Tail(CallAt(r).path))) : d \in bound}

NamedHere(r, x) ==
  UNION {InFile(r, Around(Tree(r.file), d) \o <<Tree(r.file)[d].name>>) :
           d \in OnlyDefinition(LangOf(r.file), Tree(r.file), r.at, x)}

LEMMA MeaningIs ==
  ASSUME NEW r
  PROVE  LET lang == LangOf(r.file)
             call == CallAt(r)
             head == HeadOf(call)
             bound == BoundTo(r, head)
         IN  /\ Ecma(lang) /\ bound # {} => Meaning(r) = EcmaExports(r, bound)
             /\ lang = "python" /\ bound # {} /\ call.of = "" => Meaning(r) = PythonExports(r, bound)
             /\ lang = "rust" /\ call.of = "self" => Meaning(r) = SelfMethods(r)
             /\ lang = "rust" /\ bound # {} /\ call.of = "" => Meaning(r) = UsedPaths(r, bound)
             /\ bound = {} /\ call.of = "" /\ call.path # NoPath => Meaning(r) = RustMeaning(r, call.path)
             /\ bound = {} /\ call.of = "" /\ call.path = NoPath => Meaning(r) = NamedHere(r, head)
             /\ lang # "rust" /\ bound = {} /\ call.of # "" => Meaning(r) = {}
             /\ lang = "python" /\ call.of # "" => Meaning(r) = {}
             /\ lang = "rust" /\ call.of # "" /\ call.of # "self" => Meaning(r) = {}
<1> DEFINE lang == LangOf(r.file)
           call == CallAt(r)
           head == HeadOf(call)
           bound == BoundTo(r, head)
<1>1. Meaning(r) =
        CASE Ecma(lang) /\ bound # {} -> EcmaExports(r, bound)
          [] lang = "python" /\ bound # {} /\ call.of = "" -> PythonExports(r, bound)
          [] lang = "rust" /\ call.of = "self" -> SelfMethods(r)
          [] lang = "rust" /\ bound # {} /\ call.of = "" -> UsedPaths(r, bound)
          [] bound = {} /\ call.of = "" /\ call.path # NoPath -> RustMeaning(r, call.path)
          [] bound = {} /\ call.of = "" /\ call.path = NoPath -> NamedHere(r, head)
          [] OTHER -> {}
  BY DEF Meaning, EcmaExports, PythonExports, SelfMethods, Implementations, UsedPaths, NamedHere, HeadOf, CallAt,
         BoundTo, Tree
<1>2. Ecma(lang) => lang # "python" /\ lang # "rust"
  BY DEF Ecma
<1>3. "self" # ""
  OBVIOUS
<1> DEFINE js == Ecma(lang)
           py == lang = "python"
           rs == lang = "rust"
           some == bound # {}
           bare == call.of = ""
           own == call.of = "self"
           long == call.path # NoPath
<1>4. Meaning(r) =
        CASE js /\ some -> EcmaExports(r, bound)
          [] py /\ some /\ bare -> PythonExports(r, bound)
          [] rs /\ own -> SelfMethods(r)
          [] rs /\ some /\ bare -> UsedPaths(r, bound)
          [] ~some /\ bare /\ long -> RustMeaning(r, call.path)
          [] ~some /\ bare /\ ~long -> NamedHere(r, head)
          [] OTHER -> {}
  BY <1>1
<1>5. ~(js /\ py) /\ ~(js /\ rs) /\ ~(py /\ rs) /\ ~(bare /\ own)
  BY <1>2, <1>3
<1> HIDE DEF js, py, rs, some, bare, own, long, head, bound, call, lang
<1>6. js /\ some => Meaning(r) = EcmaExports(r, bound)
  BY <1>4, <1>5
<1>7. py /\ some /\ bare => Meaning(r) = PythonExports(r, bound)
  BY <1>4, <1>5
<1>8. rs /\ own => Meaning(r) = SelfMethods(r)
  BY <1>4, <1>5
<1>9. rs /\ some /\ bare => Meaning(r) = UsedPaths(r, bound)
  BY <1>4, <1>5
<1>10. ~some /\ bare /\ long => Meaning(r) = RustMeaning(r, call.path)
  BY <1>4, <1>5
<1>11. ~some /\ bare /\ ~long => Meaning(r) = NamedHere(r, head)
  BY <1>4, <1>5
<1>12. /\ ~rs /\ ~some /\ ~bare => Meaning(r) = {}
       /\ py /\ ~bare => Meaning(r) = {}
       /\ rs /\ ~bare /\ ~own => Meaning(r) = {}
  BY <1>4, <1>5
<1> QED
  BY <1>6, <1>7, <1>8, <1>9, <1>10, <1>11, <1>12 DEF js, py, rs, some, bare, own, long, head, bound, call, lang

\* Nothing is declared under a keyword of Rust.
LEMMA KeywordsAreFree ==
  ASSUME NEW t, WellNamed("rust", t), NEW i \in DOMAIN t, NEW x \in {"crate", "self", "super"}
  PROVE  VariableAt("rust", t, i, x) = NoScope
<1>1. ASSUME NEW s, NEW d \in Declarations("rust", t, s, x) PROVE FALSE
  <2>1. d \in DOMAIN t
    BY <1>1 DEF Declarations
  <2>2. CASE t[d].kind \in {"import", "import_other"}
    <3>1. ~OpensScope("rust", t[d])
      BY <2>2 DEF OpensScope, Functions
    <3>2. x \in Mentioned("rust", t[d])
      BY <1>1, <2>2, <3>1 DEF Declarations
    <3> QED
      BY <3>2 DEF Mentioned
  <2>3. CASE t[d].kind \notin {"import", "import_other"}
    <3>1. x \in {t[d].name} \cup t[d].params /\ t[d].kind # "call"
      BY <1>1, <2>3 DEF Declarations, OpensScope, Functions
    <3>2. d \in DOMAIN t \ (Calls(t) \cup Imports(t))
      BY <2>1, <2>3, <3>1 DEF Calls, Imports
    <3> QED
      BY <3>1, <3>2 DEF WellNamed
  <2> QED
    BY <2>2, <2>3
<1> DEFINE H == {s \in Readable("rust", t, i) \ Skipped("rust", t, i, x) : Declarations("rust", t, s, x) # {}}
<1>2. H = {}
  BY <1>1
<1>3. VariableAt("rust", t, i, x) = Max({NoScope} \cup H)
  BY DEF VariableAt
<1>4. Max({NoScope} \cup H) = NoScope
  <2> HIDE DEF H
  <2>1. {NoScope} \cup H = {NoScope}
    BY <1>2
  <2>2. Max({NoScope}) = NoScope
    BY DEF Max, NoScope
  <2> QED
    BY <2>1, <2>2
<1> QED
  BY <1>3, <1>4

\* What apply makes of a call.
Applied(r) ==
  apply(LangOf(r.file), Tree(r.file), Bindings(LangOf(r.file), Tree(r.file)), r.at, OwnerOf(r.file, r.at),
        assign_nesting(Tree(r.file)).qualified)

LEMMA CallIsApplied ==
  ASSUME NEW r, ScopedCall(r)
  PROVE  r.path = Applied(r).path /\ r.blocked = Applied(r).blocked
  BY DEF ScopedCall, CallRowOf, CallOf, Applied

LEMMA PathParts ==
  \A p, why : Blocked(p, why).blocked = why /\ Path(p).blocked = "" /\ Path(p).path = p
  BY DEF Blocked, Path

LEMMA DynamicIsBlocked == \A p : Blocked(p, "dynamic").blocked # ""
  BY DEF Blocked

LEMMA UnsupportedIsBlocked == \A p : Blocked(p, "unsupported_import").blocked # ""
  BY DEF Blocked

\* A call of self in an implementation is in a method of it.
\* The implementation around a call is its innermost holder, if there is one.
LEMMA SelfHolder ==
  ASSUME NEW r, ScopedCall(r)
  PROVE  LET t == Tree(r.file)
             m == Max(Implementations(r))
         IN  /\ Implementations(r) = {} => SelfMethods(r) = {}
             /\ Implementations(r) # {} =>
                  /\ Holders(t, r.at) # {} /\ Max(Holders(t, r.at)) = m
                  /\ SelfMethods(r) = InFile(r, Around(t, m) \o <<t[m].name, CallAt(r).name>>)
<1> DEFINE t == Tree(r.file)
           H == Holders(t, r.at)
           impls == Implementations(r)
           m == Max(impls)
           owner == Innermost(H)
           n == Len(t)
<1>1. WellFormed(t) /\ r.at \in DOMAIN t /\ NoTraitInImpl(t, r.at)
  BY ScopedCallHas
<1>2. n \in Nat /\ r.at \in 0 .. n
  BY <1>1, TreeIsSequence
<1>3. H \subseteq 0 .. n /\ impls \subseteq H /\ \A a \in H : a # 0
  <2>1. \A a \in Ancestors(t, r.at) : a # 0 /\ a \in 0 .. n
    BY <1>1, <1>2, AncestorsAre
  <2> QED
    BY <2>1 DEF Holders, Implementations
<1>4. \A a \in H : t[a].kind \in {"impl", "trait"} /\ (t[a].kind = "impl" <=> a \in impls)
  BY DEF Holders, Implementations
<1>5. \A a \in impls, b \in H : t[b].kind = "trait" => b < a
  BY <1>1, <1>3, <1>4 DEF NoTraitInImpl
<1>6. SelfMethods(r) = IF owner = 0 \/ t[owner].kind = "trait" THEN {}
                       ELSE InFile(r, Around(t, owner) \o <<t[owner].name, CallAt(r).name>>)
  BY DEF SelfMethods
<1> HIDE DEF H, impls, n
<1>7. owner \in H \cup {0} /\ owner \in 0 .. n /\ \A a \in H : a <= owner
  BY <1>2, <1>3, InnermostIs
<1>8. CASE impls = {}
  <2>1. owner = 0 \/ t[owner].kind = "trait"
    BY <1>4, <1>7, <1>8
  <2> QED
    BY <1>6, <1>8, <2>1 DEF impls
<1>9. CASE impls # {}
  <2>1. m \in impls /\ \A a \in impls : a <= m
    <3>1. impls \subseteq Nat /\ \A a \in impls : a <= n
      BY <1>2, <1>3
    <3> QED
      BY <1>2, <1>9, <3>1, MaxIsGreatest
  <2>2. Max(H) \in H /\ \A a \in H : a <= Max(H)
    <3>1. \A a \in 0 .. n : a \in Nat /\ a <= n
      BY <1>2
    <3>2. H \subseteq Nat /\ (\A a \in H : a <= n) /\ H # {}
      BY <1>3, <1>9, <3>1
    <3> QED
      BY <1>2, <3>2, MaxIsGreatest
  <2> HIDE DEF m, owner
  <2>3. m \in Nat /\ owner \in Nat /\ m <= owner /\ m \in H /\ owner # 0 /\ owner \in H
    BY <1>2, <1>3, <1>7, <2>1
  <2>4. t[owner].kind # "trait"
    <3>1. t[owner].kind = "trait" => owner < m
      BY <1>5, <2>1, <2>3
    <3> QED
      BY <2>3, <3>1
  <2>5. owner \in impls
    BY <1>4, <2>3, <2>4
  <2>6. owner = m
    BY <2>1, <2>3, <2>5
  <2>7. Max(H) = m
    <3> DEFINE h == Max(H)
    <3>1. h \in H /\ \A a \in H : a <= h
      BY <2>2
    <3> HIDE DEF h
    <3>3. h \in Nat
      BY <1>2, <1>3, <3>1
    <3>2. h = m
      BY <1>7, <2>3, <2>6, <3>1, <3>3
    <3> QED
      BY <3>2 DEF h
  <2>8. SelfMethods(r) = InFile(r, Around(t, m) \o <<t[m].name, CallAt(r).name>>)
    BY <1>6, <2>3, <2>4, <2>6
  <2> QED
    BY <1>9, <2>3, <2>7, <2>8 DEF H, impls, m
<1> QED
  BY <1>8, <1>9 DEF impls, H, m

LEMMA SelfOwner ==
  ASSUME NEW r, ScopedCall(r), LangOf(r.file) = "rust", CallAt(r).of = "self", Implementations(r) # {}
  PROVE  LET t == Tree(r.file)
             m == Max(Implementations(r))
         IN  /\ m \in Definitions(t) /\ Len(OwnerOf(r.file, r.at)) > 1
             /\ Front(OwnerOf(r.file, r.at)) = Named(t, m)
<1> DEFINE t == Tree(r.file)
           i == r.at
           impls == Implementations(r)
           m == Max(impls)
           bytes == Calls(t) \cup Imports(t)
           e == assign_enclosing(t, bytes)[i]
<1>1. WellFormed(t) /\ SelfInMethods(t) /\ i \in Calls(t) /\ i \in DOMAIN t
  BY ScopedCallHas
<1>2. Len(t) \in Nat /\ DOMAIN t = 1 .. Len(t) /\ Definitions(t) \subseteq 1 .. Len(t)
  BY <1>1, TreeIsSequence
<1>3. IsInnermost(Outer(t, i), e)
  <2>1. i \in bytes /\ bytes \subseteq DOMAIN t \ Definitions(t)
    BY <1>1, ReferencesDefineNothing
  <2> QED
    BY <1>1, <2>1, EnclosingIsInnermost
<1> HIDE DEF e
<1>4. Outer(t, i) \subseteq 1 .. Len(t)
  BY <1>2 DEF Outer
<1>5. Innermost(Ancestors(t, i) \cap Definitions(t)) = e
  <2>1. Ancestors(t, i) \cap Definitions(t) = Outer(t, i)
    BY DEF Outer
  <2>2. Max({0} \cup Outer(t, i)) = e
    BY <1>3, <1>4, InnermostIsMax
  <2>3. {0} \cup Outer(t, i) = Outer(t, i) \cup {0}
    OBVIOUS
  <2> QED
    BY <2>1, <2>2, <2>3 DEF Innermost
<1>6. m \in Nat /\ m # 0
  <2>1. i \in 0 .. Len(t)
    BY <1>1, <1>2
  <2>2. impls \subseteq Nat /\ \A a \in impls : a # 0 /\ a <= Len(t)
    BY <1>1, <1>2, <2>1, AncestorsAre DEF Implementations
  <2>3. m \in impls
    BY <1>2, <2>2, MaxIsGreatest
  <2> QED
    BY <2>2, <2>3
<1>7. Innermost(Ancestors(t, e) \cap Definitions(t)) = m
  <2>1. t[i].of = "self"
    BY DEF CallAt
  <2>2. Holders(t, i) # {} /\ Max(Holders(t, i)) = m
    BY SelfHolder
  <2> QED
    BY <1>1, <1>5, <2>1, <2>2 DEF SelfInMethods
<1> HIDE DEF m
<1>8. e \in Outer(t, i) /\ \A d \in Outer(t, i) : d <= e
  <2>1. CASE Outer(t, i) = {}
    <3>1. e = 0
      BY <1>3, <2>1 DEF IsInnermost
    <3>2. Ancestors(t, e) \cap Definitions(t) = {}
      BY <3>1 DEF Ancestors
    <3>3. Innermost({}) = 0
      BY InnermostIs
    <3> QED
      BY <1>6, <1>7, <3>2, <3>3
  <2>2. CASE Outer(t, i) # {}
    BY <1>3, <2>2 DEF IsInnermost
  <2> QED
    BY <2>1, <2>2
<1>9. e \in DOMAIN t /\ e \in Definitions(t) /\ e # 0
  BY <1>2, <1>8 DEF Outer
<1>10. m \in Outer(t, e) /\ \A d \in Outer(t, e) : d <= m
  <2>1. Ancestors(t, e) \cap Definitions(t) = Outer(t, e) /\ Outer(t, e) \subseteq 0 .. Len(t)
    BY <1>2 DEF Outer
  <2>2. /\ Innermost(Outer(t, e)) \in Outer(t, e) \cup {0}
        /\ \A a \in Outer(t, e) : a <= Innermost(Outer(t, e))
    BY <1>2, <2>1, InnermostIs
  <2> QED
    BY <1>6, <1>7, <2>1, <2>2
<1>11. m \in Definitions(t) /\ Around(t, e) = Named(t, m)
  BY <1>1, <1>9, <1>10, AroundInnermost DEF Named
<1>12. OwnerOf(r.file, i) = Append(Named(t, m), t[e].name)
  <2>1. OwnerOf(r.file, i) = assign_nesting(t).qualified[e]
    BY <1>9 DEF OwnerOf, OwnerName, e
  <2> QED
    BY <1>1, <1>9, <1>11, <2>1, NestingIsAround DEF Named
<1>13. Named(t, m) \in Seq(STRING) /\ Named(t, m) # <<>> /\ t[e].name \in STRING
  BY <1>1, <1>9, <1>11, NamedIs, NodeFields
<1>14. ASSUME NEW s \in Seq(STRING), s # <<>>, NEW x \in STRING
       PROVE  Len(Append(s, x)) > 1 /\ Front(Append(s, x)) = s
  <2>1. Len(s) \in Nat /\ Len(s) # 0 /\ Len(Append(s, x)) = Len(s) + 1
    BY <1>14, AppendProperties, EmptySeq
  <2>2. Front(Append(s, x)) = s
    BY SplitAppend
  <2> QED
    BY <2>1, <2>2
<1> QED
  BY <1>11, <1>12, <1>13, <1>14 DEF m

\* self.f() is looked up in the implementation around it.
LEMMA SelfIds ==
  ASSUME NEW r, ScopedCall(r), LangOf(r.file) = "rust", CallAt(r).of = "self"
  PROVE  ids(symbols, imports, r) = SelfMethods(r)
<1> DEFINE t == Tree(r.file)
           impls == Implementations(r)
           m == Max(impls)
           owner == OwnerOf(r.file, r.at)
           call == CallAt(r)
<1>1. WellFormed(t) /\ r.at \in DOMAIN t
  BY ScopedCallHas
<1>2. Applied(r) = IF Len(owner) > 1 /\ impls # {} THEN Path(Append(Front(owner), call.name))
                   ELSE Blocked(call.path, "dynamic")
  <2>1. Applied(r) = Selected("rust", t, Bindings("rust", t), r.at, owner)
    BY DEF Applied, apply, CallAt
  <2>2. ~Ecma("rust")
    BY DEF Ecma
  <2>3. impls # {} <=> in_implementation(t, r.at)
    BY DEF Implementations, in_implementation
  <2> QED
    BY <2>1, <2>2, <2>3 DEF Selected, CallAt
<1>3. r.path = Applied(r).path /\ r.blocked = Applied(r).blocked
  BY CallIsApplied
<1>4. CASE impls = {}
  <2>1. r.blocked # ""
    BY <1>2, <1>3, <1>4, DynamicIsBlocked
  <2>2. ids(symbols, imports, r) = {}
    BY <2>1, BlockedIds
  <2> QED
    BY <1>4, <2>2, SelfHolder
<1>5. CASE impls # {}
  <2>1. m \in Definitions(t) /\ Len(owner) > 1 /\ Front(owner) = Named(t, m)
    BY <1>5, SelfOwner
  <2>2. r.path = Append(Named(t, m), call.name) /\ r.blocked = ""
    BY <1>2, <1>3, <1>5, <2>1, PathParts
  <2>3. /\ Around(t, m) \in Seq(STRING) /\ Named(t, m) \in Seq(STRING) /\ Named(t, m) # <<>>
        /\ Named(t, m) = Around(t, m) \o <<t[m].name>>
        /\ \E a \in Definitions(t) : Named(t, m)[1] = t[a].name
    BY <1>1, <2>1, NamedIs
  <2>4. t[m].name \in STRING /\ call.name \in STRING
    BY <1>1, <2>1, NodeFields DEF CallAt, Definitions
  <2> HIDE DEF m, owner, impls, call
  <2>5. /\ r.path \in Seq(STRING) /\ r.path # <<>> /\ r.path[1] = Named(t, m)[1]
    <3>1. ASSUME NEW s \in Seq(STRING), s # <<>>, NEW x \in STRING
          PROVE  Append(s, x) \in Seq(STRING) /\ Append(s, x) # <<>> /\ Append(s, x)[1] = s[1]
      <4>1. Len(s) \in Nat /\ Len(s) # 0
        BY <3>1, EmptySeq
      <4>2. 1 \in 1 .. Len(s)
        BY <4>1
      <4> QED
        BY <4>2, AppendProperties
    <3> QED
      BY <2>2, <2>3, <2>4, <3>1
  <2>6. r.path = Around(t, m) \o <<t[m].name, call.name>>
    <3>1. <<t[m].name>> \in Seq(STRING) /\ <<call.name>> \in Seq(STRING)
      BY <2>4, OneName
    <3>2. r.path = Named(t, m) \o <<call.name>>
      BY <2>2, <2>3, <2>4, AppendIsConcat
    <3>3. r.path = Around(t, m) \o (<<t[m].name>> \o <<call.name>>)
      BY <2>3, <3>1, <3>2, Joined
    <3> QED
      BY <2>4, <3>3, PairJoined
  <2>7. ids(symbols, imports, r) = InFile(r, r.path)
    BY <2>2, <2>3, <2>5, PlainIds
  <2> QED
    BY <1>5, <2>6, <2>7, SelfHolder DEF m, impls, call
<1> QED
  BY <1>4, <1>5

LEMMA TwoParts ==
  ASSUME NEW p, NEW n
  PROVE  LET q == <<p, n>> IN q[1] = p /\ q[2] = n
  OBVIOUS

\* Nothing of a file in Python or ECMAScript is called "*".
LEMMA NoStars ==
  ASSUME NEW r, ScopedCall(r), BySpecifier(LangOf(r.file)), NEW d
  PROVE  Exports(r, d, "*") = {}
<1> SUFFICES ASSUME NEW s \in Exports(r, d, "*") PROVE FALSE
  OBVIOUS
<1>1. s \in symbols /\ s.name = "*" /\ s.file \in Meant(r.file, Tree(r.file)[d].path)
  BY DEF Exports, Tree
<1>2. SourceIsProgram /\ Stored
  BY DEF ScopedCall
<1>3. s.file \in DOMAIN source /\ s \in Rows(s.file).symbols
  BY <1>1, <1>2, RowsOfFiles
<1>4. Compatible(LangOf(r.file), LangOf(s.file))
  BY <1>1, MeantIs
<1>5. LangOf(s.file) # "go"
  BY <1>4 DEF BySpecifier, Ecma, Compatible
<1>6. WellFormed(Tree(s.file)) /\ WellNamed(LangOf(s.file), Tree(s.file))
  BY <1>2, <1>3, <1>5, FileParts DEF SourceIsProgram, IsProgram, Tree
<1>7. s.at \in Definitions(Tree(s.file)) /\ s.name = Tree(s.file)[s.at].name
  BY <1>3, <1>5, <1>6, ScopedRowsOf
<1>8. s.at \in DOMAIN Tree(s.file) \ (Calls(Tree(s.file)) \cup Imports(Tree(s.file)))
  <2>1. s.at \in DOMAIN Tree(s.file)
    BY <1>7 DEF Definitions
  <2> QED
    BY <1>7, <2>1, ReferencesDefineNothing
<1> QED
  BY <1>1, <1>6, <1>7, <1>8 DEF WellNamed

\* x.f() in Python and ECMAScript.
LEMMA SelectedIds ==
  ASSUME NEW r, ScopedCall(r), BySpecifier(LangOf(r.file)), CallAt(r).of # ""
  PROVE  ids(symbols, imports, r) = Meaning(r)
<1> DEFINE t == Tree(r.file)
           lang == LangOf(r.file)
           call == CallAt(r)
           x == call.of
           b == Binding(lang, t, r.at, x)
           bound == BoundTo(r, x)
<1>4. HeadOf(call) = x
  BY DEF HeadOf
<1>1. /\ WellFormed(t) /\ (Ecma(lang) => MembersOnly(t)) /\ r.at \in DOMAIN t /\ x \in Sought(t)
      /\ PlainName(t, x)
  BY <1>4, ScopedCallHas DEF CallAt
<1>2. BindingFits(lang, t, r.at, x)
  BY <1>1, BindingsFit
<1>3. /\ b.import = NoImport <=> bound = {}
      /\ \A d \in bound : b.import = Imported(lang, t[d]) /\ bound = {d} /\ d \in Imports(t)
  BY <1>2 DEF BindingFits, BoundTo
<1>5. lang # "rust" /\ (Ecma(lang) \/ lang = "python") /\ ~(Ecma(lang) /\ lang = "python")
  BY DEF BySpecifier, Ecma
<1>6. /\ Ecma(lang) /\ bound # {} => Meaning(r) = EcmaExports(r, bound)
      /\ bound = {} => Meaning(r) = {}
      /\ lang = "python" => Meaning(r) = {}
  BY <1>4, <1>5, MeaningIs
<1>7. Applied(r) = IF Ecma(lang) /\ b.import # NoImport /\ b.import[2] = "*"
                   THEN Path(<<"@import", b.import[1], call.name>>) ELSE Blocked(call.path, "dynamic")
  <2>1. Applied(r) = Selected(lang, t, Bindings(lang, t), r.at, OwnerOf(r.file, r.at))
    BY DEF Applied, apply, CallAt
  <2> DEFINE owner == OwnerOf(r.file, r.at)
             own == lang = "rust" /\ call.of = "self" /\ Len(owner) > 1
                    /\ in_implementation(t, r.at)
             star == Ecma(lang) /\ b.import # NoImport /\ b.import[2] = "*"
  <2>2. Selected(lang, t, Bindings(lang, t), r.at, owner)
          = CASE star -> Path(<<"@import", b.import[1], call.name>>)
              [] own -> Path(Append(Front(owner), call.name))
              [] OTHER -> Blocked(call.path, "dynamic")
    BY DEF Selected, CallAt, Binding
  <2>3. ~own
    BY <1>5
  <2> HIDE DEF own, star, owner, b, call
  <2>4. Applied(r) = IF star THEN Path(<<"@import", b.import[1], call.name>>) ELSE Blocked(call.path, "dynamic")
    BY <2>1, <2>2, <2>3 DEF owner
  <2> QED
    BY <2>4 DEF star
<1>8. r.path = Applied(r).path /\ r.blocked = Applied(r).blocked
  BY CallIsApplied
<1> HIDE DEF b, bound, x
<1>9. CASE lang = "python" \/ bound = {}
  <2>1. Applied(r) = Blocked(call.path, "dynamic")
    BY <1>3, <1>5, <1>7, <1>9
  <2>2. ids(symbols, imports, r) = {}
    BY <1>8, <2>1, DynamicIsBlocked, BlockedIds
  <2> QED
    BY <1>6, <1>9, <2>2
<1>10. CASE Ecma(lang) /\ bound # {}
  <2>1. PICK d \in bound : TRUE
    BY <1>10
  <2>2. bound = {d} /\ d \in Imports(t) /\ b.import = <<t[d].path, t[d].of>>
    BY <1>3, <1>5, <2>1 DEF Imported
  <2>3. b.import # NoImport /\ b.import[1] = t[d].path /\ b.import[2] = t[d].of
    <3> DEFINE q == <<t[d].path, t[d].of>>
    <3>1. q[1] = t[d].path /\ q[2] = t[d].of
      BY TwoParts
    <3>2. b.import = q
      BY <2>2
    <3>3. b.import # NoImport
      BY <1>3, <2>2
    <3> HIDE DEF q
    <3> QED
      BY <3>1, <3>2, <3>3
  <2> DEFINE e(n) == Exports(r, n, call.name)
  <2>4. EcmaExports(r, bound) = UNION {e(n) : n \in {m \in bound : t[m].of = "*"}}
    BY DEF EcmaExports, x
  <2> HIDE DEF e
  <2>5. CASE t[d].of = "*"
    <3>1. Applied(r) = Path(<<"@import", t[d].path, call.name>>)
      BY <1>7, <1>10, <2>3, <2>5
    <3>2. r.path = <<"@import", t[d].path, call.name>> /\ r.blocked = ""
      BY <1>8, <3>1, PathParts
    <3>3. ids(symbols, imports, r) = e(d)
      BY <2>2, <3>2, ImportedIds DEF e
    <3>4. UNION {e(n) : n \in {m \in bound : t[m].of = "*"}} = e(d)
      BY <2>2, <2>5
    <3> QED
      BY <1>6, <1>10, <2>4, <3>3, <3>4
  <2>6. CASE t[d].of # "*"
    <3>1. Applied(r) = Blocked(call.path, "dynamic")
      BY <1>7, <2>3, <2>6
    <3>2. ids(symbols, imports, r) = {}
      BY <1>8, <3>1, DynamicIsBlocked, BlockedIds
    <3>3. UNION {e(n) : n \in {m \in bound : t[m].of = "*"}} = {}
      BY <2>2, <2>6
    <3> QED
      BY <1>6, <1>10, <2>4, <3>2, <3>3
  <2> QED
    BY <2>5, <2>6
<1> QED
  BY <1>5, <1>9, <1>10

\* f() in Python and ECMAScript.
LEMMA NamedIds ==
  ASSUME NEW r, ScopedCall(r), BySpecifier(LangOf(r.file)), CallAt(r).of = ""
  PROVE  ids(symbols, imports, r) = Meaning(r)
<1> DEFINE t == Tree(r.file)
           lang == LangOf(r.file)
           call == CallAt(r)
           x == call.name
           b == Binding(lang, t, r.at, x)
           bound == BoundTo(r, x)
           nesting == assign_nesting(t).qualified
           a == Bare(lang, t, Bindings(lang, t), r.at, nesting)
<1>1. /\ WellFormed(t) /\ (Ecma(lang) => MembersOnly(t)) /\ r.at \in DOMAIN t /\ x \in Sought(t)
      /\ WellNamed(lang, t) /\ r.at \in Calls(t)
  BY ScopedCallHas DEF CallAt
<1>4. lang # "rust" /\ (Ecma(lang) \/ lang = "python") /\ ~(Ecma(lang) /\ lang = "python")
  BY DEF BySpecifier, Ecma
<1>5. call.path = NoPath
  BY <1>1, <1>4 DEF WellNamed, CallAt, NoPath
<1>6. HeadOf(call) = x
  BY <1>5 DEF HeadOf
<1>2. BindingFits(lang, t, r.at, x)
  <2>1. PlainName(t, x)
    BY <1>6, ScopedCallHas DEF CallAt
  <2> QED
    BY <1>1, <2>1, BindingsFit
<1>3. /\ b.import = NoImport <=> bound = {}
      /\ \A d \in bound : b.import = Imported(lang, t[d]) /\ bound = {d} /\ d \in Imports(t)
      /\ bound # {} => b.target = NoTarget
  BY <1>2 DEF BindingFits, BoundTo
<1>7. /\ Ecma(lang) /\ bound # {} => Meaning(r) = EcmaExports(r, bound)
      /\ lang = "python" /\ bound # {} => Meaning(r) = PythonExports(r, bound)
      /\ bound = {} => Meaning(r) = NamedHere(r, x)
  BY <1>5, <1>6, MeaningIs
<1>8. r.path = a.path /\ r.blocked = a.blocked
  <2>1. Unbound.import = NoImport
    BY DEF Unbound
  <2>2. Expanded(t, r.at, Unbound) = NoPath
    BY <1>5, <2>1 DEF Expanded, CallAt
  <2>3. Applied(r) = a
    BY <1>4, <1>5, <2>2 DEF Applied, apply, CallAt
  <2> QED
    BY <2>3, CallIsApplied
<1>9. CASE bound = {}
  <2>1. ids(symbols, imports, r)
          = UNION {InFile(r, Around(t, d) \o <<t[d].name>>) : d \in OnlyDefinition(lang, t, r.at, t[r.at].name)}
    <3>1. OnlyImport(lang, t, r.at, t[r.at].name) = {}
      BY <1>9 DEF BoundTo, CallAt
    <3>2. HeadOf(t[r.at]) = t[r.at].name
      BY <1>6 DEF CallAt
    <3> QED
      BY <1>8, <3>1, <3>2, BareIds
  <2>2. ids(symbols, imports, r) = NamedHere(r, x)
    BY <2>1 DEF NamedHere, CallAt
  <2> QED
    BY <1>7, <1>9, <2>2
<1>10. CASE bound # {}
  <2>1. PICK d \in bound : TRUE
    BY <1>10
  <2>2. bound = {d} /\ d \in Imports(t) /\ b.import = <<t[d].path, t[d].of>>
    BY <1>3, <1>4, <2>1 DEF Imported
  <2>3. b.import # NoImport /\ b.import[1] = t[d].path /\ b.import[2] = t[d].of
    <3> DEFINE q == <<t[d].path, t[d].of>>
    <3>1. q[1] = t[d].path /\ q[2] = t[d].of
      BY TwoParts
    <3>2. b.import = q
      BY <2>2
    <3>3. b.import # NoImport
      BY <1>3, <2>2
    <3> HIDE DEF q
    <3> QED
      BY <3>1, <3>2, <3>3
  <2>4. b # Unbound
    <3>1. Unbound.import = NoImport
      BY DEF Unbound
    <3> HIDE DEF b
    <3> QED
      BY <2>3, <3>1
  <2>5. a = IF t[d].of = "*" THEN Blocked(NoPath, "unsupported_import")
            ELSE Path(<<"@import", t[d].path, t[d].of>>)
    <3>1. a = CASE b = Unbound -> Blocked(NoPath, "unknown")
                [] b.import # NoImport /\ b.import[2] = "*" -> Blocked(NoPath, "unsupported_import")
                [] b.import # NoImport /\ b.import[2] # "*" -> Path(<<"@import", b.import[1], b.import[2]>>)
                [] b.target # NoTarget -> Path(nesting[b.target])
                [] OTHER -> Blocked(NoPath, b.reason)
      BY DEF Bare, Binding, CallAt
    <3> DEFINE none == b = Unbound
               named == b.import # NoImport
               star == b.import[2] = "*"
               hit == b.target # NoTarget
    <3>2. a = CASE none -> Blocked(NoPath, "unknown")
                [] named /\ star -> Blocked(NoPath, "unsupported_import")
                [] named /\ ~star -> Path(<<"@import", b.import[1], b.import[2]>>)
                [] hit -> Path(nesting[b.target])
                [] OTHER -> Blocked(NoPath, b.reason)
      BY <3>1
    <3>3. ~none /\ named /\ ~hit /\ (star <=> t[d].of = "*")
      BY <1>3, <1>10, <2>3, <2>4
    <3> HIDE DEF none, named, star, hit, a, b
    <3>4. a = IF star THEN Blocked(NoPath, "unsupported_import") ELSE Path(<<"@import", b.import[1], b.import[2]>>)
      BY <3>2, <3>3
    <3> QED
      BY <2>3, <3>3, <3>4
  <2> HIDE DEF a, b, bound, x
  <2> DEFINE e(n) == Exports(r, n, t[n].of)
  <2>6. EcmaExports(r, bound) = UNION {e(n) : n \in {m \in bound : t[m].of # "*"}}
    <3> DEFINE h(n) == Exports(r, n, IF CallAt(r).of = "" THEN t[n].of ELSE CallAt(r).name)
    <3>1. EcmaExports(r, bound) =
            UNION {h(n) : n \in {m \in bound : (CallAt(r).of # "") <=> (t[m].of = "*")}}
      BY DEF EcmaExports
    <3>2. {m \in bound : (CallAt(r).of # "") <=> (t[m].of = "*")} = {m \in bound : t[m].of # "*"}
      OBVIOUS
    <3>3. \A n : h(n) = e(n)
      OBVIOUS
    <3> HIDE DEF e, h
    <3> QED
      BY <3>1, <3>2, <3>3
  <2>7. PythonExports(r, bound) = UNION {e(n) : n \in bound}
    BY DEF PythonExports
  <2> HIDE DEF e
  <2>8. CASE t[d].of = "*"
    <3>1. a = Blocked(NoPath, "unsupported_import")
      BY <2>5, <2>8
    <3>2. ids(symbols, imports, r) = {}
      BY <1>8, <3>1, UnsupportedIsBlocked, BlockedIds
    <3>3. EcmaExports(r, bound) = {}
      BY <2>2, <2>6, <2>8
    <3>4. PythonExports(r, bound) = {}
      <4>1. e(d) = {}
        BY <2>8, NoStars DEF e
      <4> QED
        BY <2>2, <2>7, <4>1
    <3> QED
      BY <1>4, <1>7, <1>10, <3>2, <3>3, <3>4
  <2>9. CASE t[d].of # "*"
    <3>1. a = Path(<<"@import", t[d].path, t[d].of>>)
      BY <2>5, <2>9
    <3>2. r.path = <<"@import", t[d].path, t[d].of>> /\ r.blocked = ""
      BY <1>8, <3>1, PathParts
    <3>3. ids(symbols, imports, r) = e(d)
      BY <2>2, <3>2, ImportedIds DEF e
    <3>4. EcmaExports(r, bound) = e(d)
      BY <2>2, <2>6, <2>9
    <3>5. PythonExports(r, bound) = e(d)
      BY <2>2, <2>7
    <3> QED
      BY <1>4, <1>7, <1>10, <3>3, <3>4, <3>5
  <2> QED
    BY <2>8, <2>9
<1> QED
  BY <1>9, <1>10

LEMMA LongConcat ==
  ASSUME NEW a \in Seq(STRING), Len(a) > 1, NEW b \in Seq(STRING)
  PROVE  a \o b \in Seq(STRING) /\ Len(a \o b) > 1 /\ (a \o b)[1] = a[1] /\ a \o b # <<>>
<1>1. Len(a) \in Nat /\ Len(b) \in Nat
  BY LenProperties
<1>2. /\ a \o b \in Seq(STRING) /\ Len(a \o b) = Len(a) + Len(b)
      /\ \A i \in 1 .. Len(a) + Len(b) : (a \o b)[i] = IF i <= Len(a) THEN a[i] ELSE b[i - Len(a)]
  BY ConcatProperties
<1> DEFINE r == a \o b
<1> HIDE DEF r
<1>3. r[1] = a[1] /\ Len(r) > 1
  BY <1>1, <1>2 DEF r
<1>4. r # <<>>
  BY <1>2, <1>3, EmptySeq DEF r
<1> QED
  BY <1>2, <1>3, <1>4 DEF r

\* x.f() in Rust, if x is not self.
LEMMA OtherIds ==
  ASSUME NEW r, ScopedCall(r), LangOf(r.file) = "rust", CallAt(r).of \notin {"", "self"}
  PROVE  ids(symbols, imports, r) = Meaning(r)
<1> DEFINE t == Tree(r.file)
           owner == OwnerOf(r.file, r.at)
           object == lookup("rust", t, Bindings("rust", t), ScopeAt("rust", t, r.at), CallAt(r).of)
<1>1. Applied(r) = Selected("rust", t, Bindings("rust", t), r.at, owner)
  BY DEF Applied, apply, CallAt
<1>2. Applied(r) = Blocked(CallAt(r).path, "dynamic")
  <2> DEFINE star == Ecma("rust") /\ object.import # NoImport /\ object.import[2] = "*"
             own == "rust" = "rust" /\ CallAt(r).of = "self" /\ Len(owner) > 1
                    /\ in_implementation(t, r.at)
  <2>1. Selected("rust", t, Bindings("rust", t), r.at, owner)
          = CASE star -> Path(<<"@import", object.import[1], CallAt(r).name>>)
              [] own -> Path(Append(Front(owner), CallAt(r).name))
              [] OTHER -> Blocked(CallAt(r).path, "dynamic")
    BY DEF Selected, CallAt
  <2>2. ~star /\ ~own
    BY DEF Ecma
  <2> HIDE DEF star, own, object, owner
  <2>3. Selected("rust", t, Bindings("rust", t), r.at, owner) = Blocked(CallAt(r).path, "dynamic")
    BY <2>1, <2>2
  <2> QED
    BY <1>1, <2>3
<1>3. ids(symbols, imports, r) = {}
  <2>1. r.blocked = Applied(r).blocked
    BY CallIsApplied
  <2>2. r.blocked # ""
    BY <1>2, <2>1, DynamicIsBlocked
  <2> QED
    BY <2>2, BlockedIds
<1>4. Meaning(r) = {}
  BY MeaningIs
<1> QED
  BY <1>3, <1>4

\* The binding of the head of a call in Rust.
RustHead(r) == Binding("rust", Tree(r.file), r.at, HeadOf(CallAt(r)))

LEMMA RustHeadIs ==
  ASSUME NEW r, ScopedCall(r), LangOf(r.file) = "rust", CallAt(r).of = ""
  PROVE  LET t == Tree(r.file)
             b == RustHead(r)
             path == Expanded(t, r.at, b)
             bound == BoundTo(r, HeadOf(CallAt(r)))
         IN  /\ BindingFits("rust", t, r.at, HeadOf(CallAt(r)))
             /\ bound = OnlyImport("rust", t, r.at, HeadOf(CallAt(r)))
             /\ path # NoPath /\ (b = Unbound \/ b.import # NoImport \/ CallAt(r).path = NoPath) =>
                  r.path = FromFile(t, r.at, path) /\ r.blocked = ""
             /\ path = NoPath /\ CallAt(r).path = NoPath =>
                  LET a == Bare("rust", t, Bindings("rust", t), r.at, assign_nesting(t).qualified)
                  IN  r.path = a.path /\ r.blocked = a.blocked
<1> DEFINE t == Tree(r.file)
           call == CallAt(r)
           x == HeadOf(call)
           b == RustHead(r)
           path == Expanded(t, r.at, b)
           a == Bare("rust", t, Bindings("rust", t), r.at, assign_nesting(t).qualified)
<1>1. WellFormed(t) /\ r.at \in DOMAIN t
  BY ScopedCallHas
<1>2. x = IF call.path = NoPath THEN call.name ELSE call.path[1]
  BY DEF HeadOf
<1>3. x \in Sought(t)
  BY <1>2, ScopedCallHas DEF CallAt, NoPath
<1>4. BindingFits("rust", t, r.at, x)
  <2>1. PlainName(t, x)
    BY ScopedCallHas DEF CallAt
  <2> QED
    BY <1>1, <1>3, <2>1, BindingsFit DEF Ecma
<1>5. Applied(r) = CASE call.of # "" -> Selected("rust", t, Bindings("rust", t), r.at, OwnerOf(r.file, r.at))
                     [] call.of = "" /\ call.path # NoPath /\ b # Unbound
                          /\ b.import = NoImport /\ b.target = NoTarget -> Blocked(path, b.reason)
                     [] OTHER -> IF path # NoPath THEN Path(FromFile(t, r.at, path)) ELSE a
  <2> DEFINE name == IF t[r.at].path = NoPath THEN t[r.at].name ELSE t[r.at].path[1]
  <2>1. b = lookup("rust", t, Bindings("rust", t), ScopeAt("rust", t, r.at), name)
    BY <1>2 DEF RustHead, Binding, CallAt
  <2> DEFINE head == lookup("rust", t, Bindings("rust", t), ScopeAt("rust", t, r.at), name)
  <2>2. Applied(r) = CASE t[r.at].of # "" -> Selected("rust", t, Bindings("rust", t), r.at, OwnerOf(r.file, r.at))
                       [] t[r.at].of = "" /\ t[r.at].path # NoPath /\ head # Unbound
                            /\ head.import = NoImport /\ head.target = NoTarget
                              -> Blocked(Expanded(t, r.at, head), head.reason)
                       [] OTHER -> IF Expanded(t, r.at, head) # NoPath
                                   THEN Path(FromFile(t, r.at, Expanded(t, r.at, head))) ELSE a
    BY DEF Applied, apply
  <2> HIDE DEF head, b, a
  <2>3. b = head
    BY <2>1 DEF head
  <2> QED
    BY <2>2, <2>3 DEF CallAt
<1> HIDE DEF b, a, path
<1>6. (b = Unbound \/ b.import # NoImport \/ call.path = NoPath) =>
        Applied(r) = IF path # NoPath THEN Path(FromFile(t, r.at, path)) ELSE a
  BY <1>5
<1>7. r.path = Applied(r).path /\ r.blocked = Applied(r).blocked
  BY CallIsApplied
<1>8. path # NoPath /\ (b = Unbound \/ b.import # NoImport \/ call.path = NoPath) =>
        r.path = FromFile(t, r.at, path) /\ r.blocked = ""
  <2> SUFFICES ASSUME path # NoPath, b = Unbound \/ b.import # NoImport \/ call.path = NoPath
               PROVE  r.path = FromFile(t, r.at, path) /\ r.blocked = ""
    OBVIOUS
  <2>1. Applied(r) = Path(FromFile(t, r.at, path))
    BY <1>6
  <2> QED
    BY <1>7, <2>1, PathParts
<1>9. path = NoPath /\ call.path = NoPath => r.path = a.path /\ r.blocked = a.blocked
  BY <1>6, <1>7
<1> QED
  BY <1>4, <1>8, <1>9 DEF b, a, path, BoundTo

\* f(), m::f() in Rust, if a use declaration binds the first name.
LEMMA UsedIds ==
  ASSUME NEW r, ScopedCall(r), LangOf(r.file) = "rust", CallAt(r).of = "",
         BoundTo(r, HeadOf(CallAt(r))) # {}
  PROVE  ids(symbols, imports, r) = Meaning(r)
<1> DEFINE t == Tree(r.file)
           call == CallAt(r)
           x == HeadOf(call)
           b == RustHead(r)
           bound == BoundTo(r, x)
           rest == IF call.path = NoPath THEN NoPath ELSE Tail(call.path)
<1>1. WellFormed(t) /\ r.at \in DOMAIN t /\ SourceIsProgram /\ r.file \in DOMAIN source
  BY ScopedCallHas DEF ScopedCall
<1>2. /\ BindingFits("rust", t, r.at, x)
      /\ bound = OnlyImport("rust", t, r.at, x)
  BY RustHeadIs
<1>3. /\ b.import = NoImport <=> bound = {}
      /\ \A d \in bound : /\ b.import = Imported("rust", t[d]) /\ bound = {d} /\ d \in Imports(t)
                          /\ NamesImport("rust", t[d])
  BY <1>2 DEF BindingFits, RustHead
<1>4. PICK d \in bound : TRUE
  OBVIOUS
<1> DEFINE p == t[d].path \o rest
<1>5. /\ bound = {d} /\ d \in Imports(t) /\ b.import = <<t[d].path, "">> /\ b.import # NoImport
      /\ Len(t[d].path) > 1 /\ t[d].path[1] \in {"crate", "self", "super"}
  BY <1>3, <1>4 DEF Imported, NamesImport
<1>6. b.import[1] = t[d].path
  <2> DEFINE none == ""
             q == <<t[d].path, none>>
  <2>1. b.import = q
    BY <1>5
  <2> HIDE DEF none
  <2>2. q[1] = t[d].path
    BY TwoParts
  <2> HIDE DEF q
  <2> QED
    BY <2>1, <2>2
<1>7. Expanded(t, r.at, b) = p
  <2>1. Expanded(t, r.at, b) = b.import[1] \o rest
    BY <1>5 DEF Expanded, CallAt, NoPath
  <2> QED
    BY <1>6, <2>1
<1>8. t[d].path \in Seq(STRING) /\ rest \in Seq(STRING)
  <2>1. d \in DOMAIN t
    BY <1>5 DEF Imports
  <2>2. t[d].path \in Seq(STRING) /\ call.path \in Seq(STRING)
    BY <1>1, <2>1, NodeFields DEF CallAt
  <2>3. call.path # <<>> => Tail(call.path) \in Seq(STRING)
    BY <2>2, HeadTailProperties
  <2> QED
    BY <2>2, <2>3, EmptySeq DEF NoPath
<1> HIDE DEF rest, b, bound, x, call
<1>9. p \in Seq(STRING) /\ Len(p) > 1 /\ p[1] \in {"crate", "self", "super"} /\ p # NoPath
  BY <1>5, <1>8, LongConcat DEF NoPath
<1> HIDE DEF p
<1>10. r.path = FromFile(t, r.at, p) /\ r.blocked = ""
  BY <1>5, <1>7, <1>9, RustHeadIs DEF b
<1>11. ids(symbols, imports, r) = RustMeaning(r, p)
  BY <1>1, <1>9, <1>10, RustPathIs
<1>12. Meaning(r) = UsedPaths(r, bound)
  BY MeaningIs DEF bound, x, call
<1>13. UsedPaths(r, bound) = RustMeaning(r, p)
  <2> DEFINE m(n) == RustMeaning(r, t[n].path \o (IF CallAt(r).path = NoPath THEN NoPath ELSE Tail(CallAt(r).path)))
  <2>1. UsedPaths(r, bound) = UNION {m(n) : n \in bound}
    BY DEF UsedPaths
  <2>2. m(d) = RustMeaning(r, p)
    BY DEF p, rest, call
  <2> HIDE DEF m
  <2> QED
    BY <1>5, <2>1, <2>2
<1> QED
  BY <1>11, <1>12, <1>13

\* A path in Rust that a keyword begins.
LEMMA KeywordIds ==
  ASSUME NEW r, ScopedCall(r), LangOf(r.file) = "rust", CallAt(r).of = "", CallAt(r).path # NoPath,
         BoundTo(r, HeadOf(CallAt(r))) = {}
  PROVE  ids(symbols, imports, r) = Meaning(r)
<1> DEFINE t == Tree(r.file)
           call == CallAt(r)
           x == HeadOf(call)
           b == RustHead(r)
           p == call.path
<1>1. /\ WellFormed(t) /\ r.at \in DOMAIN t /\ r.at \in Calls(t) /\ WellNamed("rust", t)
      /\ SourceIsProgram /\ r.file \in DOMAIN source
  BY ScopedCallHas DEF ScopedCall
<1>2. x = p[1]
  BY DEF HeadOf
<1>3. p[1] \in {"crate", "self", "super"}
  <2>1. OnlyImport("rust", t, r.at, p[1]) = {}
    BY <1>2 DEF BoundTo
  <2>2. Literal(r)
    BY ScopedCallHas
  <2> QED
    BY <2>1, <2>2 DEF Literal, CallAt, Tree
<1>4. b = Unbound
  <2>1. VariableAt("rust", t, r.at, x) = NoScope
    BY <1>1, <1>2, <1>3, KeywordsAreFree
  <2>2. BindingFits("rust", t, r.at, x)
    BY RustHeadIs
  <2> QED
    BY <2>1, <2>2 DEF BindingFits, RustHead
<1> HIDE DEF b
<1>5. b.import = NoImport
  <2>1. Unbound.import = NoImport
    BY DEF Unbound
  <2> QED
    BY <1>4, <2>1
<1>6. p \in Seq(STRING) /\ Len(p) > 1
  <2>1. p \in Seq(STRING)
    BY <1>1, NodeFields DEF CallAt
  <2>2. Len(p) > 1
    BY <1>1 DEF WellNamed, CallAt, NoPath
  <2> QED
    BY <2>1, <2>2
<1>9. Expanded(t, r.at, b) = p
  BY <1>5 DEF Expanded, CallAt
<1>7. r.path = FromFile(t, r.at, p) /\ r.blocked = ""
  BY <1>4, <1>9, RustHeadIs DEF b
<1>8. ids(symbols, imports, r) = RustMeaning(r, p)
  BY <1>1, <1>3, <1>6, <1>7, RustPathIs
<1>10. Meaning(r) = RustMeaning(r, p)
  BY MeaningIs
<1> QED
  BY <1>8, <1>10

\* A bare name in Rust that no use declaration binds.
LEMMA RustBareIds ==
  ASSUME NEW r, ScopedCall(r), LangOf(r.file) = "rust", CallAt(r).of = "", CallAt(r).path = NoPath,
         BoundTo(r, HeadOf(CallAt(r))) = {}
  PROVE  ids(symbols, imports, r) = Meaning(r)
<1> DEFINE t == Tree(r.file)
           call == CallAt(r)
           x == HeadOf(call)
           b == RustHead(r)
           a == Bare("rust", t, Bindings("rust", t), r.at, assign_nesting(t).qualified)
<1>1. x = t[r.at].name
  BY DEF HeadOf, CallAt
<1>2. b.import = NoImport
  <2>1. BindingFits("rust", t, r.at, x) /\ BoundTo(r, x) = OnlyImport("rust", t, r.at, x)
    BY RustHeadIs
  <2> QED
    BY <2>1 DEF BindingFits, RustHead
<1>3. Expanded(t, r.at, b) = NoPath
  BY <1>2 DEF Expanded, CallAt
<1>4. r.path = a.path /\ r.blocked = a.blocked
  BY <1>3, RustHeadIs
<1>5. OnlyImport("rust", t, r.at, t[r.at].name) = {}
  BY <1>1 DEF BoundTo
<1>6. ids(symbols, imports, r)
        = UNION {InFile(r, Around(t, d) \o <<t[d].name>>) : d \in OnlyDefinition("rust", t, r.at, t[r.at].name)}
  BY <1>1, <1>4, <1>5, BareIds DEF CallAt
<1>7. ids(symbols, imports, r) = NamedHere(r, x)
  BY <1>1, <1>6 DEF NamedHere
<1>8. Meaning(r) = NamedHere(r, x)
  BY MeaningIs
<1> QED
  BY <1>7, <1>8

\* The candidates of resolve_call are what the call may mean.
LEMMA CandidatesAreMeaning ==
  ASSUME NEW r, ScopedCall(r)
  PROVE  ids(symbols, imports, r) = Meaning(r)
<1>1. LangOf(r.file) \in {"javascript", "typescript", "python", "rust"}
  BY ScopedCallHas
<1>2. CASE BySpecifier(LangOf(r.file))
  BY <1>2, SelectedIds, NamedIds
<1>3. CASE LangOf(r.file) = "rust"
  <2>1. CASE CallAt(r).of = "self"
    <3>1. Meaning(r) = SelfMethods(r)
      BY <1>3, <2>1, MeaningIs
    <3> QED
      BY <1>3, <2>1, <3>1, SelfIds
  <2>2. CASE CallAt(r).of \notin {"", "self"}
    BY <1>3, <2>2, OtherIds
  <2>3. CASE CallAt(r).of = ""
    BY <1>3, <2>3, UsedIds, KeywordIds, RustBareIds
  <2> QED
    BY <2>1, <2>2, <2>3
<1> QED
  BY <1>1, <1>2, <1>3 DEF BySpecifier, Ecma

LEMMA ScopedEdgesAreExact == SourceIsProgram /\ EdgesFollow => ScopedCallsAreExact
<1> SUFFICES ASSUME SourceIsProgram, EdgesFollow, NEW r \in Scoped, Ordinary(r)
             PROVE  edges[r].target = Sole(Meaning(r))
  BY DEF ScopedCallsAreExact
<1>1. /\ r \in DOMAIN edges /\ LangOf(r.file) # "go"
      /\ Stored /\ ImportsResolved /\ r \in CallRows
      /\ edges[r] = resolve_call(symbols, imports, r)
  BY DEF EdgesFollow, Scoped
<1>2. r \in refs /\ r.kind = "call"
  BY <1>1 DEF CallRows
<1>3. r.file \in DOMAIN source /\ r \in Rows(r.file).refs
  BY <1>1, <1>2, RowsOfFiles
<1>4. CallRowOf(r.file, r)
  <2>1. WellFormed(Tree(r.file))
    BY <1>3, FileParts
  <2>2. CallRowOf(r.file, r) \/ ImportRowOf(r.file, r)
    BY <1>1, <1>3, <2>1, ScopedRowsOf
  <2> QED
    BY <1>2, <2>2 DEF ImportRowOf
<1>5. ScopedCall(r)
  BY <1>1, <1>3, <1>4 DEF ScopedCall
<1>6. ids(symbols, imports, r) = Meaning(r)
  BY <1>5, CandidatesAreMeaning
<1> DEFINE found == ids(symbols, imports, r)
<1>7. edges[r].target = Sole(found)
  <2> HIDE DEF found
  <2>1. edges[r] = IF Cardinality(found) = 1
                   THEN Result(IdOf(CHOOSE s \in found : TRUE),
                               Confidence(r.file, (CHOOSE s \in found : TRUE).file), reason(found, r))
                   ELSE NoLink(reason(found, r))
    BY <1>1 DEF resolve_call, OneCandidate, found
  <2> DEFINE s == CHOOSE s \in found : TRUE
  <2>2. \A c, why : Result(IdOf(s), c, why).target = IdOf(s) /\ NoLink(why).target = NoSymbol
    BY DEF Result, NoLink
  <2> HIDE DEF s
  <2>3. edges[r].target = IF Cardinality(found) = 1 THEN IdOf(s) ELSE NoSymbol
    BY <2>1, <2>2 DEF s
  <2> QED
    BY <2>3 DEF Sole, s
<1> QED
  BY <1>6, <1>7

\* ScopedCallsAreExact holds for any programs of well-formed trees, however many
\* and however deep: whatever binding the scopes of parse/scopes.rs give to the
\* name of a call, the rows and candidates of resolve.rs that follow from it are
\* the one definition the name means in the source, or none.
THEOREM ScopedCallsAreRight == Spec => []ScopedCallsAreExact
  BY InitIsProgram, RowsStayStored, InitHasNoEdges, EdgesStayResolved, ScopedEdgesAreExact, PTL DEF Spec
=============================================================================
