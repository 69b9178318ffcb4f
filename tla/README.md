# A verification project for ast-index-nix

ast-index indexes the sources below a root into one SQLite database and answers structural
queries from it. This directory holds TLA+ specifications of its core logic, TLC
configurations that check them on small instances, and theorems checked by TLAPS that hold
for every value of the constants. Line numbers refer to the files of `src/src/`.

## The system

### Components

| Component | State | Operations | What makes it correct |
|---|---|---|---|
| Indexing pass, freshness check (`index.rs`) | none of its own while idle; a pass keeps the walk's candidates, completeness, module files, and the rows of its open transaction | `index`, `freshness`, `check_freshness` | a publication is whole, rests on bytes the tree held during the pass, deletes only what a complete walk missed, obeys its exclusion policy; skipped work (resolution, snapshot) is work that would have changed nothing; `fresh_at_check` is true |
| Store (`store.rs`) | tables, `meta` (root, generation, schema version, options, versions, verdict), the writer lock file | `open`, `open_state_dir`, `open_existing_state_dir`, `write_lock`, `require_root`, `transaction`, `query_transaction`, row operations, `impact_ids`, `status` | one writer; one root per database; a newer schema is refused; readers see one committed snapshot |
| Structural snapshots (`store/history.rs`) | the two newest snapshots, each with symbols, edges and a completeness flag | `save_snapshot`, `discard_snapshots`, `snapshot_pair`, `snapshot_diff`, `changed_impact` | never cross a policy change; the newest is the committed index; diffs and impacts are those of the pair, within budgets |
| Semantic evidence (`scip.rs`, `scip/`) | `semantic_*` tables, overlay generation, profile and validator fingerprint | `import`, `query`, `preflight`, `calls::build`, `persist`, `require_current`, `stale_files` | evidence is only joined with, and only answered for, the bytes it was made from; an overlay row never changes its meaning |
| Queries (`engine.rs`, `query.rs`, `store/query.rs`) | none; a cursor held by the client | `execute`, `validate`, `window`, `page`, projections | pages of one cursor chain are the result, once each, in order; other generations and queries are refused |
| Resolution (`resolve.rs`, `resolve/go.rs`, `imports.rs`) | edges and import targets in `refs` | `resolve_all`, `imports::resolve` | a link is unique under the stated scope rules, or absent |
| Extraction (`parse.rs`, `parse/`, `lang.rs`) | parser cache | `parse` | a function of bytes and fingerprint |
| Socket service, stdio, proxy (`serve.rs`, `rpc.rs`) | listener lock, socket file, the server behind a mutex, connection threads | `run_socket`, `serve_connection`, `run_stdio`, `run_proxy`, `read_frame`, `handle_line` | one listener per socket; answers in order, one per request; a slow client harms nobody; the proxy loses nothing |
| Managed profiles (`profiles.rs`) | identity directories with a published pointer, candidates, the base lock | `refresh`, `query`, `published_state`, `current` | a reader sees the old or the new publication, also across a crash |
| Semantic producer (`producer.rs`, `producer/`) | private snapshots of inputs | `Snapshot::new`, `import`, inventory capture | what is imported was made from the inputs recorded |
| Command line, reports (`main.rs`, `report.rs`, `model.rs`, `error.rs`) | none | argument parsing, formatting | not modelled: straight-line code |
| NixOS module, packaging (`nix/module.nix`, `flake.nix`) | none | service configuration | not modelled: declarative |

### How they interact

Processes share nothing but files. A writer (an indexing pass, a freshness check, an import, a
migration) takes the nonblocking `flock` beside the database before it reads anything it will
update, and commits one SQLite transaction. Queries take no lock and read one snapshot. The
sources are read without any lock while editors change them. The socket service runs many
connection threads over one server behind a mutex; harnesses reach it through a proxy process.
Managed profiles build a whole database beside the published one and switch to it by a rename.

### What is hard

Edits between walk, read and commit; several executables, roots and policies on one database;
passes that skip work because "nothing changed"; failures that must not look like deletions;
kills between any two steps; reused SQLite row ids under an overlay that outlives passes; query
time comparisons with a moving tree; a check made before a lock and used after it. `hazards` in
`PROJECT.json` lists each at its line, with the properties that would catch it.

## The modules

| Module | What it is |
|---|---|
| `IndexContract` | abstract specification: an index changes only by whole publications sourced from what the tree held during the scan |
| `IndexPass` | the indexing pass, the freshness check, the store's root, generation, rows and lock, and the retained snapshots |
| `IndexPassProps` | its type invariant, safety invariants, and the refinement of `IndexContract` |
| `IndexPassProofs` | the inductive invariants, the theorems, and the proof of the refinement |
| `MCIndexPass` | the instance TLC checks |
| `SemanticOverlay` | SCIP import, call overlay, the "semantic" and combined queries, over any indexing passes |
| `SemanticOverlayProps`, `SemanticOverlayProofs`, `MCSemanticOverlay` | its properties, its inductive invariant and theorems, and its instance |
| `ServiceStart` | a process from opening the database (schema check, migration, root) over indexing to a bound socket, with every lock and kill, and other programs at the socket path |
| `ServiceStartProps`, `ServiceStartProofs`, `MCServiceStart` | its properties, its inductive invariant and theorems, three instances |
| `ServiceConnections` | proxies, connection threads and the server they share behind a mutex, with its fairness |
| `ServiceConnectionsProps`, `ServiceConnectionsProofs`, `MCServiceConnections` | its safety and liveness properties, the inductive invariant and theorems of the former, and its instance |
| `ProfileContract` | abstract specification: what is published for a profile changes only by a validated publication with a higher generation |
| `ManagedProfiles` | refresh and query of managed profiles, with the steps of the semantic producer that touch shared state |
| `ManagedProfilesProps` | its type invariant, safety invariants, and the refinement of `ProfileContract` |
| `ManagedProfilesProofs`, `MCManagedProfiles` | its inductive invariants and theorems, and its instance |
| `PagedQueries` | the pages of a result and the cursors between them, while the index is published again |
| `PagedQueriesProps`, `PagedQueriesProofs`, `MCPagedQueries` | its properties, its inductive invariant and theorems, and two instances |
| `StructuralQueries` | the walks of `impact` and `changes` with their budgets, and `diff` of two snapshots |
| `StructuralQueriesProps`, `StructuralQueriesProofs`, `MCStructuralQueries` | reference definitions of the answers and the properties, the inductive invariant and theorems, and two instances |
| `Extraction` | syntax trees; definitions, their nesting and exports, and the owner of every reference (`parse.rs`) |
| `LexicalScopes` | scopes and bindings of Rust, Python and ECMAScript files (`parse/scopes.rs`) |
| `GoExtraction` | declarations, bindings and calls of a Go file (`parse/go.rs`) |
| `ImportResolution` | the file or the package an import means (`imports.rs`) |
| `CallResolution`, `GoResolution` | the definition a call row is linked to (`resolve.rs`, `resolve/go.rs`) |
| `Resolution` | the stages of a pass from trees to edges: rows of each file, `imports::resolve`, `resolve_all` |
| `ResolutionProps`, `ResolutionProofs`, `MCResolution` | the scope rules as a reference, the properties, the invariants and theorems, and the instance |
| `Framing` | `read_frame` over a reader that hands bytes out in any buffers; checked with `ServiceConnections` |

`IndexPass` starts where `ServiceStart` is in phase "indexing" and refines that one step; the two are
not composed, since `IndexPass` needs of the start only that `CanStart` holds. `Resolution` says what `IndexPass`
leaves as functions: the rows of a file, and the edges of a set of rows.

### IndexPass

`db` is the committed database; `pass[p]` is what `index()` or `freshness()` of process `p` has in
hand. `CanStart` is `write_lock` followed by `require_root`. The walk is one action per entry
(`WalkEntry`), because the tree may change between entries; every way an entry can fail (traversal,
metadata, header probe, size limit, walk and read budgets) is `WalkFail`. `PlanIndex` is the code
between the walk and the loop over candidates: it reads the module files, the recorded options, and
begins the transaction by removing the rows a complete walk did not meet. `IndexFile` and `IndexFail`
are one turn of that loop. `Commit` is its tail: the refusal, resolution when needed, meta data,
generation, discarded and saved snapshots. `Abandon` stands for an error return, the refusal, the
index size budget, and a kill: in all of them SQLite rolls back and the kernel drops the lock.

Data is abstracted to what the properties distinguish. A hash stands for its content. The symbols and
references of a row are determined by (content, parser fingerprint) and are not spelled out. The edges are a function of
rows (with their project boundaries), module files and resolver; `basis` records the inputs they were
last resolved from, so "the edges are current" is an equation. `Layout` is the project markers and
`go.mod` files of a tree, `None` if a module file could not be read. Ignored and absent files are the
same. `complete` is the conjunction of `scan_complete` and `files_failed = 0`: every path that
increments `files_failed` also clears `scan_complete`. A file's bytes and project boundary are read at one instant.
The generation bump of an import is in `SemanticOverlay`.

`seen` records the images a tree had during a pass or a check; `checked` is a history variable that keeps those of the check whose verdict is recorded,
for `FreshIsTrue`. It says of each file that the verdict was true of it at a moment of the check, edited or not: a check reads
one file after the other and cannot say more. Of a tree that nobody edited meanwhile there is one image, and it says that the tree is the indexed one.

### SemanticOverlay

Every source has one definition and one call, whose SQLite row ids are one number: `NextId` hands
out ids the way `INTEGER PRIMARY KEY` does, so ids of deleted rows return. The overlay's rows carry
ids, as in the code, and the meaning the import gave them, for the properties only. Indexing passes are
over-approximated: any rows removed, any others replaced or kept. `BeginImport`, `CheckInput`,
`CheckDocument`, `ParseDocument` and `CommitImport` follow `scip::import` and `calls::build`, one file read at a time.
The writer lock is implicit in `work`: one writer at a time. Which target the language validators admit for a call is part of the
artifact; an inadmissible call has target `None` in the overlay, as in the code. Queries run
in three steps: the snapshot with the tests of `require_current`, the comparison of every file
(`stale_files`), the answer.

### ServiceStart

`proc[p]` is how far a process is, `writer` and `flock` are the kernel's locks, `sock` is what each
socket path names. `Open` reads the schema version without a lock and remembers only whether it has to
migrate, as the code does; `Migrate` is `init_schema`, which looks at nothing. `BindRoot` is the
comparison of `Engine::open`, `CheckRoot` the one at the beginning of `index::index`, `Publish` its transaction, which comes after
the walk, writes the root and compares nothing; between the two only the writer lock (`DatabaseFree`) keeps the root as it was compared. `Probe`, `Unlink` and
`Bind` are the three system calls on the socket path, at three moments; `PlaceFile` is another program that creates a file of its
own at a path that names nothing, at any moment. `Exit` is an error return or
a kill at any point: locks go, the socket file stays and is "stale". A refusal (busy lock, newer
schema, other root, no socket) is a step that is not enabled followed by `Exit`. A process name may
be started again, up to `MaxStarts`.

### ServiceConnections

A frame is its position in the client's script; its kind says whether it is answered, breaks
the connection, or makes the handler panic. Each direction of a socket holds `Capacity` frames; a
writer waits for room, and clients outside `Reader` never read, so theirs waits for ever. The proxy has
two threads (`input`, `output`), the service one per connection (`conn`); `Lock`, `Handle`,
`ConnWrite` keep the order in the code: the guard is dropped before the answer is written.
`Panic` unwinds: the mutex is poisoned and released, the thread's stream is dropped. `Stop` and
`ProxyKilled` may happen at any moment. Frames cut by a dying proxy are not modelled.

That the server meets the frames a client has sent is not assumed: `Framing` is `read_frame`, one turn of its loop a
`Round`, and `FramesAreLines` takes what a client has sent in each state of the run, spells every frame in each of its
`Spellings`, with and without a last newline, cuts the bytes into buffers (in the run, twice anywhere or after every byte), and compares. `copy_flushed` passes bytes on as
they come.

### ManagedProfiles

`published[i]` is the database file of a canonical project and profile, of which the model keeps what
decides about it: generation, schema version, options, and the revision of every input the evidence
rests on (`basis`). The two fingerprints that must match besides the schema version (validator, call
profile) change with the executable, like it, and are not separate.

`run[p]` follows `refresh` from the base lock to the rename. Every capture of the inputs is one
`ReadInput` per input, in any order, so an editor may save between two reads; there are up to four in
a refresh: the comparison with what is published (`compare`), the two of the producer (`capture`,
`recapture`), and the confirmation of the candidate (`confirm`). `FindCurrent`, `FindStale` and
`FailToCompare` are the three ways the first ends: `current()` is false for any error as well. `Import` is
the open and migration of the candidate, the indexing pass (one generation) and `scip::import` (one
more), which compares the inputs itself; that only makes an import rarer and is left out. `EndRefresh` is
an error return or a kill at any point: the lock file is released, the candidate is never looked at again.

`Content` is what an input can hold, a hash standing for it, as in the code. `Edit` gives an input any other content, an earlier one as well: an undo, or a
checkout. A comparison reads the inputs one by one and compares hashes, so it accepts evidence of (a0, b0) when a0 is read before `a` is edited and
b0 after `b` is restored, although the inputs never were (a0, b0) together while it ran. No program that reads files one by one can exclude that, and
`EvidenceMatched` does not: each input held what the evidence rests on at a moment of the comparison, and all of them did at one moment unless one
of them came back to it during the comparison (`CameBack`).

A reader opens the published file once; a rename afterwards does not change the file it holds, so
`Ask` puts the database itself in hand. The cursor a client holds records its identity, evidence
mode and generation, as in the code, and the publication it came from, for the properties only.
`unread` and `moments` are history: whether a comparison failed, and the trees there were, in their order, since one began.

The kernel is assumed to make a rename atomic. A crash of the machine, which may lose a rename that was
not yet synced, leaves the old publication and is the same as `EndRefresh` just before it. `refresh_plan` is a sequence of
refreshes, each of which another process may precede; its time budget only ends it early.

### PagedQueries

`Content` says what each request finds, list by list: filters, the choice of the symbol and the traversal of
`impact` are inputs. The model keeps the order and the cuts. `Orders` is the `ORDER BY` of a projection: all
of them end in a row id (or an identity that is grouped by), so they leave one order, and the model would use any order
left open anew for every page. `Selected` is `LIMIT`/`OFFSET`, `Page` the truncation to the limit and to
`PAGE_BYTES`, `Deliverable` the two errors of a result that does not fit. `Relation` holds the lists of one answer: two for
"describe", which the code cuts at one offset; one for every other action. `Start` and `Follow` are requests
without and with a cursor; one that is refused changes nothing. `order` is history: the whole
list as the first page cut it.

A page of "semantic" that meets changed sources is empty and ends its chain, marked "excluded"; that belongs
to `SemanticOverlay`. `map` has no pages.

### StructuralQueries

`ask` is one query with the index and the baseline snapshot its transaction sees; `walk` is what the function has in
hand, and a visit of one symbol is a step. `BeginImpact`, `VisitForImpact` and `EndImpact` are `impact_ids`;
`BeginChanges`, `VisitForChanges` and `EndOrigin` are `changed_impact`, once over the index and once over the
baseline. The two loops differ in when a row is added (when it is found, or when it is visited) and in their budgets, and
share `Visit`. `Ascending` is `ORDER BY id`. Which symbols a changed range touches is an input, as are the two generations that are compared, so the choice of
the baseline is left out; the newest snapshot is the index, which is what `NewestSnapshotCurrent` says. `Diff` is the SQL of
`snapshot_diff`: `Side` is one side of the outer join, `Differ` its `WHERE`, `Edges` the grouped calls. The path of a call is
part of its caller's identity, so it is left out. The reference definitions of `StructuralQueriesProps` know neither queues nor joins: balls around the seeds,
and counts of names and calls. `Work` is what the budget of calls is about: the pairs of caller and callee, with the source they
are in, that any walk to the asked depth has to read.

### Resolution

A tree is the sequence of its named nodes in preorder, each with its last descendant; a node's byte is its index, so
ranges nest or are disjoint, and a reference may begin at the byte where a definition ends. Node kinds stand for the
node types of the grammars that the code treats alike. `apply` of `LexicalScopes` is `apply` of `parse/scopes.rs`: one
visit in preorder that binds (`BindNode`), reassignments afterwards (`Reassigned`), then a path or a reason for every call.
`Visited` is what the visit leaves for one name in one scope, as a recursive function of the nodes it has passed, and `Collected` the table of
all of them, which the reassignments then change (`Invalidated`) and every call of the file reads (`Bindings`).
`assign_nesting` and `assign_enclosing` are the two sweeps with their stacks, as recursive functions of the position they have
reached. `GoExtraction` does the same for Go,
whose bindings begin at a position (`BoundFrom`). `StoreRows` is what `index_one` stores for every file, with the symbol a
reference is found to be in (`InSymbol`); `ResolveImports` and `ResolveCalls` are
`imports::resolve` and `resolve_all` over the rows of all files, as in one write transaction. Paths are sequences of names; `RustCandidates`,
`EcmaCandidates` and `PythonCandidates` are the files a specifier may name, `OnlyOf` the refusal of two.

The references of `ResolutionProps` use neither sweeps, nor bindings, nor rows: the scope of a variable is the innermost readable
one that declares it (`VariableAt`), past those that a `global` or `nonlocal` statement skips (`Skipped`); a call means a definition if that is
the only thing that ever gives the variable a value (`Writers`: declarations, assignments, `for` targets, and declarations that such a statement turns into
assignments of an outer variable); `self` in a default method of a trait means no method in particular; and an import means the one export of the one file it can mean: `Reached` follows a specifier from the importing directory, one part at
a time, and `Meant` are the files of that name, or the main files of a directory of that name. A Rust path with a head that is neither a
keyword nor bound by `use`
is looked up in its file as it stands; `Literal` leaves it out, and with it the Rust files that define something called `local_module` (see Observations).
`ScopedCallsAreExact` speaks of ordinary calls (`Ordinary`): literal ones whose name is plain and whose `self`, if any, is not that of a trait declared inside an
implementation. A name is plain (`PlainName`) unless the file writes it in one of four ways that the code treats otherwise than the language: as the target of a
`for`, in a `global` or `nonlocal` statement, or by syntax `apply` does not look at (kind `unread`: walrus and `case` captures, generator functions,
Rust `for`, `match` and `if let` patterns). What the code does with these names is modelled all the same, and `NoUnknownTargets` makes no exception for
them; it does not hold (see Findings). A word of an import statement that is no name it binds is bound to nothing, in the code (`Mentioned`) and in the reference alike.
A local of a Go function hides a name from where it is declared on; so does a short declaration outside of every function, which the
grammar admits for snippets. What the code calls by a name that its package does not declare (see Observations) is `Misnamed`, and a call
of that name may go unlinked.

`ProgramAssumption` says which programs there are: finitely many files of the modelled languages, in directories without "." and ".."; trees whose ranges
nest; and what the grammars have. In Go (`GoTopLevel`), functions, methods and imports are only at the top of a file, and import paths have at
least one part. In ECMAScript (`MembersOnly`), what stands directly in the body of a class is a member, and binds no name there (a static
block is a block of its own). In the three languages with scopes (`WellNamed`), an import names something, paths of calls are a matter of Rust and
have at least two parts, and no definition or parameter is called `*` or `@import`, nor in Rust by one of the keywords `crate`, `self` and `super`. In
Rust (`SelfInMethods`), a call on `self` inside an implementation or a trait is in a method of it, not in a function nested in the method, where `self`
does not exist. TLC evaluates it over every program of the run.

## What TLC checks

| Run | Question |
|---|---|
| `index_pass` | Two processes on two roots, three sets of options (with and without an exclusion, forced with a newer executable), an empty or a legacy database, one edit at any moment, any read or walk failing, any process dying: are policies respected, edges and newest snapshot current, fresh verdicts true of every file at a moment of the check, also of one during which the tree is edited, and is every publication one the contract allows? |
| `semantic_overlay` | Three artifacts (complete inventory, inventory after a file went away, listed inputs only) and two validator versions, three generations, two edits: do overlay rows keep their meaning, do combined answers never fall back, and do answers rest on bytes the files held? |
| `service_start` | Three processes of two roots start, migrate, index and serve at one socket with the default lock, die and start again, while another program may take the path whenever it is free: do running services stay reachable, does the other program's file survive, and do roots stay bound although they are compared long before they are written? |
| `socket_replaced` | The same socket with two `--lock` files: a counterexample (see Findings) |
| `schema_downgrade` | Two executables with different schema versions: a counterexample (see Findings) |
| `service_connections` | One client that reads, one that does not and may die; silent, garbled and panicking frames; a stopped service: are answers those asked for, in order and complete, is the reader served, does its proxy end? Are the bytes of what was sent read as the same frames, however they are cut? |
| `managed_profiles` | Two executables of different schema versions refresh two projects, the newer one with two sets of options; both inputs are edited and restored; any refresh fails or dies anywhere; a reader pages and asks for combined evidence: do pages stay within one publication, did accepted evidence match each input at a moment, and all at one unless an input came back, does the compiler run for a reason, and is every publication one the contract allows? |
| `paged_queries` | One client, two lists, limits of one and two rows and a second symbol, any subset of five rows of which two share a line, two do not fit into one page and one fits into none; one republication: are the pages the result, and does each page advance? |
| `nested_pages` | The same with rows that all fit into a page: a counterexample (see Findings) |
| `structural_queries` | `impact` over every call graph of four symbols, `changes` over every graph of three with a missing, incomplete, cyclic or multiple baseline, `diff` over pairs of snapshots of up to three symbols with shared names: are distances least, answers complete, budgets exact, differences right? |
| `resolution` | Every tree of up to five nodes around one call, in ECMAScript, Python, Rust and Go, beside up to fifteen layouts of the other files (one candidate, two, another project, private or doubled names, test, ignored, half-read and `main` packages): is each call linked exactly when the language's scope rules leave one definition, and to that one; do edges stay in their project; does each reference belong to the innermost definition? |
| `scoped_for_targets` | Every ECMAScript tree of four nodes with functions, blocks and `for` targets: a counterexample (see Findings) |

Bounds. The theorems (below) hold without any of them; they matter for the properties that are only model-checked, and
for what the runs and mutants show. `index_pass`: two generations and one edit. The second pass meets everything a pass can
meet of an earlier one (its rows, policy, snapshot, verdict), and a legacy database gives it a first
generation it did not write itself; a pass reads each file once, so one edit already separates the
walk from the read, the read from the commit, and the check from what it certifies. `semantic_overlay`: three
generations are an index, an import and one more index or import, the shortest history in which
an overlay can go stale or an id be reused; two edits allow a change and its reversal.
`service_start`: five starts of three processes let each of two services be killed and started
again while the other is between any two steps. `service_connections`: one
frame per direction makes every writer wait as soon as it can; four requests of the
client that never reads fill its proxy's output, its socket and the hand of its connection thread,
and one is left over to wait. Two clients suffice: connections meet only at the mutex.

`managed_profiles`: two refreshes are a publication and one that is refused or replaces it, in either order of the two executables, or one publication
for each project; three edits of two inputs with two contents give every tree, and let an input leave what is recorded, another leave it and the
first come back between two reads, which is the shortest way to a mixture. The two projects are symmetric, and so are the contents. `paged_queries`: pages are cut by each of the three limits (one or two rows, three bytes, offset two), and
meet the end of the list before, at and after a cut; one republication separates any two pages of a chain. A row of
four bytes is larger than a page, and two pages together can be larger than a reply.
`structural_queries`: four symbols have cycles, diamonds and two paths of different length to one symbol;
depths reach from one hop to all of a graph; the budgets (two seeds, five results, six calls) are each
exceeded by some queries, and met exactly by others. Two calls on two lines are enough to appear, vanish, or change in number.
`resolution`: a wrong scope rule shows with a scope, a declaration in it or around it, and the call; four nodes add a second declaration
or a second scope, five (over the commonest kinds) both. The trees are those a grammar can produce; three more batches have `for` targets, `global`
and `nonlocal` statements and binding forms that the code does not know. `Framing`: with a limit of two bytes there are empty lines, lines at the limit, lines whose
carriage return exceeds it, and lines far above; buffers are cut twice anywhere, or after every byte.

Fairness. `IndexPass`, `SemanticOverlay`, `ServiceStart`, `ManagedProfiles`, `PagedQueries`, `StructuralQueries` and `Resolution` assume none: they promise nothing that must
eventually happen, since any pass may fail and every command may be refused by a busy lock.
`ServiceConnections` assumes weak fairness of each thread (both threads of a proxy, each
connection thread, and the accept loop for each queued connection): the operating system runs a thread
whose next call can proceed. Nothing is assumed of `Stop`, of `ProxyKilled`, or of a harness that does
not read. The mutex is not assumed fair; with finite scripts the others stop asking
for it. That a harness closes stdin after its script is part of the model, and `ProxiesEnd` rests
on it: a proxy whose stdin stays open waits for it even after the service is gone.

### Findings

- `socket_replaced`. "Only a socket without a lock holder may be replaced" (`serve.rs:139`),
  and "A separate listener lock prevents duplicate socket ownership"
  (`docs/integration.md:72`), hold only if all services of a socket use one lock path. `--lock` is a free
  option and the live socket is not probed: a second service with another lock removes the socket
  of the first, which goes on serving what nobody can reach. With the default lock the property is proved.
- `schema_downgrade`. "Unknown newer schemas are rejected" (`docs/architecture.md:51`), but the version is
  compared before the writer lock is taken and not again under it (`store.rs:120`). An executable that read an
  older version, or none, writes its own version over a newer one that was recorded in between. The
  newer executable is assumed to do nothing but record a higher version.
- `nested_pages`. "its two nested pages can be continued independently using their respective cursors with the
  same request" (`README.md:157` of the repository), but a request with the cursor of one list cuts both lists at its offset, and
  the reply is refused when the two pages exceed 60 KiB together (`engine.rs:152`), although each may
  have 48. The error asks for a lower limit; the cursor is bound to the limit, so the client has to begin again, and rows with
  long paths or names behind a first page of short ones cannot be reached from it.
- `scoped_for_targets`. "Unknown values never become call targets" (`parse/scopes.rs:1`), but the target of a `for` statement is bound where the loop stands, as if
  it were declared there (`parse/scopes.rs:206`), and only assignment expressions reach the bindings of outer scopes. After `function g() {}` and
  `function f() { for (f of xs) {} }` the call `f()` reads what the loop may have left in `f`, and is linked to the function. An
  assignment expression in place of the loop would have given the link up. `ScopedCallsAreExact` holds for names not written this way.

## What is proved

`IndexPassProofs` proves every property of its run, for any processes, roots, paths, contents, layouts, policies, options and
bounds, under `ConstantsAssumption` only:

- `TypeCorrect`: `Spec => []TypeOK`;
- `PolicyHolds`: `Spec => []PolicyRespected`;
- `EdgesHold`: `Spec => []EdgesCurrent`;
- `NewestSnapshotHolds`: `Spec => []NewestSnapshotCurrent`;
- `FreshHolds`: `Spec => []FreshIsTrue`;
- `Implements`: `Spec => ImplementsContract`, the refinement of `IndexContract`.

Only the first is inductive. A commit publishes what a pass prepared much earlier, so the
invariant `IInv` says what every pass in progress has prepared, relative to the database it will
replace. That is only stable because of the writer lock: `LockInv` (a process that is not idle holds
it) makes the database constant while a pass runs. `Candidate` says that no candidate is
excluded by the pass's policy; `Pending` relates the uncommitted rows to the committed ones: while nothing has
changed they are the same rows, up to project boundaries if a recomputation is pending; and, unless the
pass must be complete and will be refused otherwise, no row of an excluded path is left.
`SnapshotAgeInv` (no snapshot is newer than the index), `UnindexedInv` (an index without root is
empty) and `TrackedInv` say what an earlier commit left. TLC checked these parts over the
`index_pass` instance before they were proved. Each action then has one step, and `Commit` one for each part of `DbInv`.

The last two need what a scan has seen (`ScanInv`), one path at a time: a path that a complete walk has passed is a
candidate, excluded, or was absent in some image the tree had since the scan began (`Visited`); a row of the transaction is the old one or
holds what such an image held (`RowsSeen`); and what a check found equal to a row was so in some image (`Compared`). A publication
then rests on images of its own pass, which is what `IndexContract` asks of it, and every other step maps to a scan's begin
or end, to an edit, or to a stutter.

`ServiceStartProofs` proves, for any processes, roots, versions, commands and bounds:

- `LocksFollowPhases`: `Spec => []TypeOK`;
- `DeadSocketsOnly`: `Spec => []OnlyDeadSocketsAreReplaced`;
- `ServicesStayReachable`: `Spec => []RunningServicesAreReachable`;
- `FilesOutliveStarts`: `Spec => OtherFilesSurvive`;
- `RootStaysBound`: `Spec => RootIsBound`.

The first four assume `OneLockPerSocket`, that processes with one socket path have one lock path, which is
the code's default; `socket_replaced` shows that they need it. Their inductive invariant says that a process past
`LockListener` holds its lock, that what it saw at the path still is there or was removed or replaced by nobody but itself (another
program cannot take a path that names something), and that a live socket belongs to a process that serves. So a file that another program placed
after a start looked is not what that start removes, and a later start sees it (`FilesOutliveStarts`). `RootStaysBound` needs no such assumption, but
`RootIsHeld`: from the comparison to the commit a pass holds the writer lock, so what it compared is still so.

`ManagedProfilesProofs` proves every property of its run, for any processes, projects, inputs,
options, versions and bounds, under `ConstantsAssumption` only:

- `TypeCorrect`: `Spec => []TypeOK`;
- `PagesAgree`: `Spec => []PagesOfOnePublication`;
- `EvidenceHolds`: `Spec => []EvidenceMatched`;
- `ProducersRunForAReason`: `Spec => []ProducerRunsForAReason`;
- `Implements`: `Spec => ImplementsContract`, the refinement of `ProfileContract`.

The argument is `Observed`: what a comparison has read of an input, the tree held at a moment since it began. When all inputs are read and
equal the record, each matched at its moment. If none came back, an input that matched once has matched from the beginning of the comparison on, so all of them
matched when it began (`EqualityMatches`). What is accepted stays so while the tree is edited further (`EditKeepsEvidence`). The pages follow from `Kept`: what a reader or a
cursor holds is older than what is published or is the same, because a candidate starts as a copy and only raises
its generation. `ProducersRunForAReason` needs one more invariant (`Justified`): an input that was read differently was different in some image
(`StaleNamesAnImage`). TLC checked both invariants over the `managed_profiles` instance.

`SemanticOverlayProofs` proves every property of its run, for any files, contents, artifacts and executables, and any number of
generations, edits and queries, under `ConstantsAssumption` only:

- `TypeCorrectness`: `Spec => []TypeOK`;
- `OverlayNamesWhatItMeant`: `Spec => []CallsMeanWhatTheyDid`;
- `OverlayIsOfIndexedBytes`: `Spec => []OverlayOfIndexedBytes`;
- `CombinedAnswersNeverFallBack`: `Spec => []NoFallback`;
- `AnswersMatched`: `Spec => []AnswersMatchTheTree`;
- `ImportsUsable`: `Spec => ImportsAreUsable`.

The invariant holds of the committed tables and of the uncommitted ones of a pass alike (`Sound`): ids are keys, they are bounded (so
that `NextId` finds a greatest one, by `LeastNatural`), and an overlay row names the rows it was built for, which the cascade keeps true when
a row goes and its id returns. `DocumentsIndexed` is about the current overlay only: an import checks each
document against the index it will be joined with, and the writer lock keeps that index until it commits (`ImportInv`). `QueryInv` says
that a query holds tables that were committed once and has seen every file it compared hold what they record.

`ServiceConnectionsProofs` proves every safety property of its run, for any number of clients, any scripts and any capacity,
under `ConstantsAssumption`; the last two, for any limit and any spellings, under `FramingAssumption` (the limit is a number) and
`SpellingsAssumption` (a spelling is a sequence of bytes other than newline) as well:

- `TypeCorrectness`: `Spec => []TypeOK`;
- `RequestsAnsweredInOrder`: `Spec => []AnswersInOrder`;
- `ProxiesLoseNothing`: `Spec => []NothingIsLost`;
- `LinesAreFrames`: for any lines, with or without a last newline, and any set of cuts, `read_frame` returns the frames of the lines;
- `FramesAreRead`: `Spec => []FramesAreLines`.

The invariant follows the frames of one client around: what was sent is, in this order, what the service has handled, has in
hand, the socket holds and the proxy has in hand (`Upward`); the answers to what was handled are, in this order, what the harness has read,
the proxy has in hand, the socket holds and the connection has in hand (`Downward`). Both say so by numbers of frames
that cut the script, so that each step moves one frame across one cut. The control part says which of the
threads may still be at work when another has ended. Clients meet only at the mutex (`Elsewhere`).

`LinesAreFrames` needs no state. `LaidOut` says where each line lies in the stream, and where its newline; `Reading` says that after some
rounds the reader has returned the frames of the lines before, is inside the next line, and holds what it has read of it, or has given
it up as too large. A round reads at least one byte or returns a frame (`RoundReads`), so the stream ends. The reader and the layout are recursive
functions; that they exist (`ReaderIsDefined`, `FlatIsDefined`) and that each round keeps `Reading` is proved by
a least counterexample (`LeastNatural`) in place of induction.

`PagedQueriesProofs` proves every property of its run, for any requests, lists, contents, row sizes, limits and page sizes,
and any number of publications, under `ConstantsAssumption` only:

- `TypeCorrectness`: `Spec => []TypeOK`;
- `ChainsAreResults`: `Spec => []PagesAreTheResult`;
- `PagesAdvance`: `Spec => []EveryPageAdvances`.

The key is `OrderIsUnique`: an order that ends in a row id lists a finite set of rows in one way only, although the database sorts it again
for every page. A cursor that is accepted is of the generation the index has now (`CutFromTheIndex`), so the next page is cut
from the sequence the earlier ones were cut from, at the place they end (`Collected`).

`StructuralQueriesProofs` proves every property of its run, for any index and baseline, any calls between their symbols, any questions
and budgets, under `ConstantsAssumption` only:

- `TypeCorrectness`: `Spec => []TypeOK`;
- `WalksAreExact`: `Spec => []CallersAreExact`;
- `RefusalsAreJustified`: `Spec => []RefusedOnlyOverBudget`;
- `DiffsAreExact`: `Spec => []DiffIsExact`.

The invariant of a walk is that of breadth-first search. `Explored`: every entry it has met is at its least distance, the queue is ordered by
distance and spans two of them, and all callers of a visited symbol were met. `Listed`: no entry is listed twice, none that is not
part of the answer. `Counted`: the budget left is what the pairs of caller and callee that were read leave of the whole. Then
whatever is nearer than the queue was met (`NearerWasSeen`), a walk that ends has met every layer (`NothingLeft`), and one that gives up has
read, or listed, more than the budget of things that belong to the answer (`TooMuchToRead`, `TooManyResults`). The balls of the reference
are a recursive function; that it satisfies its equation (`BallIsDefined`) is proved without induction, from paths of calls. The
proof of `DiffsAreExact` compares the outer join and the grouped counts, name by name, with the cases of the reference.
TLC checked the invariants of these four modules over the instances of their runs before they were proved.

`ResolutionProofs` proves every property of its run, for any trees, file layouts and module tables, under `ProgramAssumption`
and `StemOrderAssumption` (stems are strings):

- `EdgesStay`: `Spec => []EdgesStayInside`, under `StemOrderAssumption` only;
- `OwnersAreRight`: `Spec => []OwnersAreInnermost`, under `ProgramAssumption` only;
- `TypeCorrectness`: `Spec => []TypeOK`;
- `GoCallsAreRight`: `Spec => []GoCallsAreExact`;
- `BindingsAreExact`: what `apply` finds for a plain name is what the scope rules of the reference say of it, for any well-formed tree;
- `ScopedCallsAreRight`: `Spec => []ScopedCallsAreExact`, which is about ordinary calls.

The first is inductive: an edge is made in one step, of import targets that already stay inside, and
imports are not resolved again after the first edge. The lemmas take one kind of target each (a path, a Go package, an
export, a module path, a name of the file, a Go function); the first file of a package exists because the order of its
files is one of natural numbers (`LeastNatural`).

For the owners, `Holds` says what the stack of a sweep is: the definitions that contain the position, outermost first. Then the
top, once those that ended are popped, is the innermost (`TopIsInnermost`), and the names of the stack are the chain of the definitions around
(`AroundInnermost`). That the sweeps satisfy their equations (`NestingIsDefined`, `EnclosingIsDefined`) and keep `Holds` is proved by
least counterexample. A row is stored with a symbol found by name and range, which could be a namesake; names grow inwards
(`NamesGrowInwards`), so that among definitions around one reference each has a name of its own. In Go, whose names do not nest, this rests on functions and
methods being at the top (`GoNamesakesAreOutside`). `TypeOK` follows from what these lemmas say of the rows, and from the edges pointing to stored ones.

For the calls of Go, `GoSymbolRows` and `GoRefRows` say that the rows are the declarations, package clauses, imports and calls of the
files, and nothing else. So what a query for a qualified name finds is what the files of the package declare at the top
(`FoundAndTop`), up to `Misnamed`; what the extractor blocks as shadowed is what a local declaration hides (`ShadowedIsLocal`); and the file an
import row points to stands for the whole package it names (`GoTargetIs`, `ImportMeans`). `GoCallIsExact` goes through the cases of
`resolve_go_call`. The inductive invariant `EdgesFollow` says that import targets and edges are made of the rows that were stored; with it the
property holds in each state.

`BindingsAreExact` relates the visit of a tree to a reference that does not visit anything. A binder is a node that the code sees binding the name, in the scope it
binds it in (`Binders`); for a plain name these are the declarations of the reference, nothing is skipped, and all assignments are those the code collects (`BindingsAreBound`,
`PlainIsBound`). The scopes of `lookup` that have a binding are those of which the
reference says that they declare the name, after reassignments as before. What the visit leaves in such a scope tells one binder from
none and from several, so there is a target or an import exactly if one declaration binds the name; and it survives `Reassigned` exactly if no
assignment reads that scope. Each recursive function (`Visited`, `normalize`, `InModules`, and `Reached` of the reference) is shown to satisfy its equation
and to have its invariant by a least counterexample, as for the sweeps.

`ScopedCallsAreRight` follows a call from its binding to its edge, in three parts. The files: `normalize` and the candidates of a
specifier are the files that `Reached` and `Meant` name (`NormalizeIsDefined`, `CandidatesAreMeant`), so an import row has a target exactly if the import can
mean one file, and then that file (`TargetIsMeant`, `ImportedIs`). The modules of Rust: the path that `FromFile` writes for a call and
`rust_relative` reads again leads, from the module the call is in, where the path of the source leads (`ModulesAre`, `RelativeIs`,
`RustPathIs`). The calls: for each way of writing one (on `self`, on an imported module, through an import, by a keyword, by a bare name, through anything else), `ids` yields the
symbols of `Meaning` and no others (`CandidatesAreMeaning`). The edge is then the one candidate there is, by `EdgesFollow`.

Every safety property of a passing run is the subject of a theorem. Only model-checked are:

- `ReadersAreServed` and `ProxiesEnd` of `service_connections`: liveness under fairness.
- The four counterexamples, which are about instances by nature.

## Plan

In this order; each module has its properties, an instance and a run of its own.

1. `Producer`: input capture, its budgets (and those of a pass, `index.rs:615`) and comparison before an import; composed with
   `SemanticOverlay` through the manifest.
2. The TypeScript adapter (`scip/calls/typescript.rs`, `producer/typescript.rs`): which calls it admits into the overlay.
3. Extraction and namespaces of SQL, Lua and Bash, in the manner of `LexicalScopes`.

The proofs go with the modules: each of these begins with the type invariant and the invariants of its run.

## What is not modelled

- Parsing itself and the tag queries: vendored grammars. `Resolution` begins at the syntax tree.
- The extractors of Bash, Lua, Nix and SQL, and the namespaces by which SQL objects are resolved.
- The budgets of reads (`index.rs:615`): a sum. `IndexPass` has any read fail for want of budget.
- Path canonicalisation, symbolic links, file modes, state directory checks: system calls in straight-line code.
- SQLite itself: a transaction is atomic, a reader sees one snapshot, ids are handed out as documented.
- The language tools the semantic producer runs, and the sandbox around them.
- Text and JSON reports, argument parsing, the NixOS module.
- Everything under Plan, until it is written.

## Observations

- Semantic documents survive a change of the exclusion policy that removes their files from the index;
  a "semantic" query keeps answering from them while their bytes match. No document says otherwise.
- A refresh that is killed leaves its candidate directory, and those of its producer, in the
  identity directory; no later refresh removes them.
- `current()` is false for any error, so a refresh whose comparison fails for a passing reason (an unreadable
  input, the traversal budget) runs the compiler although nothing changed. README.md:397 promises to skip it only for
  "fully validated" inputs, and `ProducerRunsForAReason` says the same.
- Evidence may be accepted that the tree as a whole never was while it was compared, if an input is restored between two reads
  (`scip.rs:396-412` compares hashes). `EvidenceMatched` says what holds nevertheless; "matched current bytes at query time" (`scip.rs:458`) is true of each input.
- "Shadowing, reassignment [...] never gain targets through a bare-name fallback" (`README.md:189` of the repository) is
  exact for the binding forms `parse/scopes.rs` knows (`ScopedCallsAreExact`), and only those (`scoped_for_targets`). Batches 13 and 14 of
  the same instance break `NoUnknownTargets` too: a Python `global` statement gives up the name in its function, not in the module that the
  function assigns; and names bound by walrus, `case`, generator functions or Rust patterns are not seen. It does not bind parameters of ECMAScript
  generator functions and the own name of a function expression either. Reassignment of an exported name in its own module is not seen by importers.
- `self.f()` in a default method of a trait that is declared inside a function of an implementation is linked, though which `f` that is the
  implementor decides: `parse/scopes.rs:335` asks for any implementation around the call, not for the nearest type.
- `diff` says "ambiguous identities are not matched" (`docs/decisions.md:134` likewise), but counts a call in a snapshot if its names are
  unique in that snapshot (`store/history.rs:134`): when the caller of an unchanged call gets a namesake, the diff reports the name as
  ambiguous and the call as removed; when the namesake goes away, as added. `DiffIsExact` is about names unique in both.
- `crate::` in a file below `tests/` or in `src/bin/` is resolved in `src/lib.rs`, which is another crate; `m::f()` inside an inline
  module that declares no `m` finds the `m` of the file; `self.n()` in an implementation whose type has no
  symbol finds a free function of the module around it.
- A Rust module called `local_module` is taken for the mark that `parse/scopes.rs:399` puts in front of a path inside the file and
  `resolve.rs:215` reads as a relative one; `local_module::f()` then finds the `f` next to it.
- At the root of the workspace there is no main file of a directory: `import ".."` from a file one level below it names the empty
  path (`imports.rs:139`), whose candidates are `.ts` and `/index.ts`, and no file has these names. `__init__.pyi` is no candidate anywhere.
- A Go method with a receiver the extractor does not understand, and a Go type declared in a function literal at package level, are
  qualified like functions of the package. A call of a function with that name is then ambiguous and gets no link: the exception
  `Misnamed` of `GoCallsAreExact`.
