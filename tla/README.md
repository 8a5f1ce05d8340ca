# A verification project for hypercircuit

TLA+ models of the parts of hypercircuit that keep state or relate one part of a
design to another, the TLC runs that check them on small instances, and TLAPS proofs
about them for every instance.

hypercircuit is a Rust library for circuit and board design with exact arithmetic:
authoring, a semantic editor history, hierarchy, modules and packages, mixed-signal
simulation, layout, routing and manufacturing output. About 76,000 lines, one crate,
`src/src/*.rs`. File names below are relative to `src/src/`.

Contents: 1 Inventory, 2 Modules, 3 Runs and findings, 4 Bounds, 5 Fairness,
6 Proofs, 7 Not modelled, 8 Plan.

## 1. Inventory

Every component, the state it keeps, its operations, what it works with, and what
makes it correct. The last column: **M** modelled, **P** modelled in part (section 7
says what is left out), **-** not modelled.

| Component (files) | State | Operations | Works with | Hard part, and what correct means | |
|---|---|---|---|---|---|
| Event agenda (`event_simulation.rs`) | sorted deque of pending events, clock and phase, next identity, lifecycle log, counters | schedule, schedule_preordered, cancel, reschedule, advance_time, deliver_next, verify_lifecycle | behaviors, session | long mixes of calls: execution order is (time, phase, sequence), the clock never jumps an event, the log reconstructs the agenda and its counters | P |
| Behavioral callbacks (`behavior.rs`) | handlers, tasks with a predicate, mailboxes | register, dispatch, emit, cancel, reschedule, sleep; a task waits, fails or completes | agenda | callbacks act on the agenda that is delivering to them; selective receive delays messages: causes precede effects, messages one predicate cannot tell apart are taken in order | M |
| Mixed-signal session (`simulation.rs`) | session clock, samples, decisions, proposed timestep, breakpoints, budgets, status | step, step_until, step_for, run_until_quiescent, step_with_runtime, breakpoint schedules | agenda, behaviors, numeric analyses | two clocks move in turns: no analog step jumps an event or breakpoint, samples tile the time, budgets hold over all calls together, each call returns | P |
| Package store (`package.rs` 680-850) | files named by digest, shared by processes | publish, load | file system | several publishers, kills and failing writes: one writer for a path, a complete artifact is never damaged | P |
| Package resolution (`package.rs` 850-1341) | selection and frames of the search, lock | resolve, verify_lock, load_verified_lock | store, catalog, lockfile | backtracking over versions: sound, complete, highest; a lock edited or outdated loads completely or not at all | M |
| Intelligent exchange (`intelligent_exchange.rs`) | child process, three threads, deadline | request, time out, kill, join, inspect a package | an external program | full pipes, a child that leaves descendants, an answer that is too long or never ends: what is accepted is one whole answer, and every thread ends | P |
| Autorouter (`autoroute.rs`, `route_constraints.rs`, `coupling.rs`, `routing.rs`, `tscircuit_routing.rs`) | occupancy, history costs, routes, refinement regions | negotiate, rip up, reroute, refine | layout | bounded negotiation: a complete result joins every terminal and no two nets meet, but for the edges of a pair; each connection is a cheapest legal one | P |
| Hierarchy and design rules (`hierarchy.rs`, `model.rs`, `identity.rs`, `intent.rs`, `erc.rs`) | union of nets while flattening | validate, elaborate, check | authoring, modules | nets merged through several levels of bindings and global keys are the reachable ones and no more; parameters reach the parts; sources are counted over the whole | P |
| Modular projects (`project.rs`, `layout_module.rs`) | nested modules, composed layout | instantiate, compile, compose, validate | hierarchy, layout | pieces valid alone and invalid together; transforms nested two deep; what a refused instantiation leaves | P |
| Editor history (`edit.rs`) | document, revision, replay log and base, undo and redo stacks | commit, commit_concurrent, undo, redo, compact, load | interchange, layout | stale authors, inverses replayed on a later document: undo restores exactly, a rebased commit overwrites nothing its author has not seen | P |
| Manufacturing release (`manufacturing_release.rs`, `release_artifact.rs`) | bundle of files with digests and gates | build, sign, write, read, compare | checks, file system | files changed, lost or cut short by others are noticed; stated gates are those the evidence shows | P |
| Design authoring (`authoring.rs`) | a builder's circuit, schematic and board, source places | declare, place, connect, constrain, check, finish | hierarchy, schematic, layout | three documents grown by one call each; what an accepted call may leave for `check` to refuse, and which calls a finding names | P |
| Schematic (`schematic.rs`, `schematic_auto.rs`) | none | validate, lay out | authoring, circuit | the drawing and the nets say the same | P |
| Fabrication, assembly, panel (`fabrication.rs`, `assembly.rs`, `panel.rs`) | none | emit, parse | release | formatting of exact geometry | - |
| Placement (`placement.rs`) | the places found so far, what is settled and waiting | solve | layout, history | items settled one by one, each against those settled before it: the whole must be legal, leave alone what was legal, and cost no more | P |
| Phase tuning (`route_constraints.rs`) | working copy of the routes, an odometer of patterns | synthesize, realize | layout, autorouter | members tuned on one copy and certified together; no assembly skipped before the limit | P |
| Stitching (`stitching.rs`) | the vias placed so far | propose, realize | layout | a grid, its limit and its evidence: each via has its room, each candidate is accounted for | M |
| Layout and rule checks (`layout.rs`, `drc.rs`, `coordinates.rs`, `legacy_csgrs.rs`) | none | validate, resolve, check | history, modules | exact geometry; references between lists are in the history model | - |
| Interchange (`interchange.rs`, `error.rs`) | none | read, migrate, validate, write | everything persisted | validation is in the history model as far as lists refer to each other | - |
| Materialization (`materialize.rs`, `preview.rs`) | copper poured so far | pads, artwork, routes, vias, zones; solids, images | layout, stitching | the order in which copper is poured decides what keeps clear of what; no island that hangs on nothing | P |
| Test and design intent (`test_intent.rs`) | none | validate | release | declarative | - |
| Numeric analyses (`ac.rs`, `mna.rs`, `nonlinear.rs`, `mosfet.rs`) | iteration of one call | solve | session | numeric; the session leaves the outcome of an attempt open | - |
| Foreign formats (`kicad*.rs`, `lceda.rs`, `sexp.rs`, `adapter.rs`) | none | parse, emit | interchange | parsing and formatting | - |
| Interfaces and workflows (`interface.rs`, `workflow.rs`) | none | declare, validate | hierarchy | declarative | - |
| Manifest, command line (`project_manifest.rs`, `bin/`) | none | parse | the library | input and output | - |

The agenda, behaviors, session, history, projects and authoring run on one thread:
`&mut self` excludes concurrent calls. Their interleavings are of another kind: calls
of different authors between each other's, callbacks that act on the object that
called them, calls in an order nobody tried. Processes meet in the package store and
in the places releases are written to, threads in the intelligent exchange. The solvers
(router, placement, tuning, pour) are long loops over their own working state, where the
hard part is what a step may assume of the steps before it.

## 2. Modules

| Module | What it is | Code |
|---|---|---|
| `EventAgenda` | the agenda: six operations on its six fields | `event_simulation.rs` |
| `EventQueue` | abstract: a set of waiting events, served in order | its promise |
| `Behaviors` | extends `EventAgenda`: both runtimes and the driver that feeds them | `behavior.rs` |
| `TransientSession` | extends `EventAgenda`: the stepping calls | `simulation.rs` |
| `PackageStore` | file operations of publish and load, with kills | `package.rs` |
| `PackageResolution` | catalog, resolver, lock and its verified loading | `package.rs` |
| `IntelligentExchange` | one export: caller, three threads, pipes, program, deadline | `intelligent_exchange.rs` |
| `Ipc2581Inspection` | one pass over a document's markup events | `intelligent_exchange.rs` |
| `RouteGrid` | grid, legality and cost of one connection, conflicts | `autoroute.rs` and the route files |
| `NegotiatedRouter` | passes, searches, history costs, adaptive rounds | `autoroute.rs` |
| `BoardGeometry` | points, boxes, distances, transforms | as called from the modules below |
| `PlacementSolver` | settling items one by one, scores, certification | `placement.rs` |
| `PhaseTuning` | serpentines, working copy, assemblies in turn | `route_constraints.rs` |
| `CopperPour` | stitching grids, and the pour of a board in its order | `stitching.rs`, `materialize.rs` |
| `CircuitModel` | circuits, parts, ports, bindings, and their validation | `model.rs`, `hierarchy.rs` |
| `DesignRules` | intent, electrical and supply rules of a flat circuit | `intent.rs`, `erc.rs` |
| `DesignElaboration` | recursion search, bindings, global nets, parameters | `hierarchy.rs` |
| `LayoutRules` | what a board's lists demand of each other | `layout.rs` as called from the modules below |
| `LayoutComposition` | carrying module layouts to their scopes | `layout_module.rs` |
| `ModularProject` | extends the two: drafts, instantiation, compilation | `project.rs` |
| `DesignEdits` | every kind of edit: replay, inverse, address, conflict | `edit.rs` |
| `DocumentRules` | validity of the document a batch leaves | `edit.rs`, `interchange.rs`, `layout.rs` |
| `DesignHistory` | extends the two: commit, rebase, undo, redo, compaction | `edit.rs` |
| `UndoZipper` | abstract: past, present and future contents | its promise |
| `ManufacturingRelease` | releases on disk: build, sign, write, read, compare | `manufacturing_release.rs`, `release_artifact.rs` |
| `SchematicRules` | what the schematic's validator reports | `schematic.rs` |
| `BoardRules` | what the board's validator and constraint resolution report, with the subjects a finding names | `layout.rs`, `authoring.rs` |
| `DesignAuthoring` | one builder under a program of calls, check and finish | `authoring.rs` |
| `AgendaProofs` | theorems about `EventAgenda`, `Behaviors` and `TransientSession` | |
| `PackageProofs` | theorems about `PackageStore` and `PackageResolution` | |
| `NegotiatedRouterProofs` | theorems about `RouteGrid` and `NegotiatedRouter` | |
| `BoardProofs` | theorems about `PlacementSolver` and `CopperPour` | |
| `DesignProofs` | theorems about `DesignElaboration`, `IntelligentExchange` and `Ipc2581Inspection` | |
| `DesignHistoryProofs`, `ManufacturingReleaseProofs` | theorems about the module in their name | |
| `FoldFacts` | lemmas the others share: folds and sums over finite sets, sequences, least numbers | |
| `MC*` | instances and bounds; where several modules share a run, which one is under way | |

```
EventQueue <-- refines -- EventAgenda <-- extends -- Behaviors
                               ^--------- extends -- TransientSession
UndoZipper <-- refines -- DesignHistory --extends--> DesignEdits, DocumentRules
CircuitModel <-- DesignRules, DesignElaboration <-- ModularProject --> LayoutComposition --> LayoutRules
RouteGrid <-- NegotiatedRouter            SchematicRules, BoardRules <-- DesignAuthoring
BoardGeometry <-- PlacementSolver, PhaseTuning, CopperPour
PackageStore, PackageResolution      IntelligentExchange, Ipc2581Inspection      ManufacturingRelease
```

How the models correspond to the code:

* **A refused call** returns an error and leaves the object as it was: a stuttering
  step, unless a property speaks of the refusal itself (an outcome of a session's
  call, of an undo, of a search, of a compilation).
* **Exact reals** are integers of a finite set: the code compares and adds them, and
  where the session divides a timestep, `PolicyAssumption` asks for a grid on which
  every allowed division is exact.
* **Digests** stand for what they were taken of. A file is named by the digest of its
  content, so the content is known from the name.
* **`EventAgenda`**: `pending` is the deque, kept by insertion (`Inserted`) and by the
  merge of preordered traces (`Merged`), `lifecycle` the evidence `verify_lifecycle`
  replays (`Replays`), `counters` the statistics, which saturate as in the code.
  `from_request` makes `sequence` equal to the identity: one field stands for both.
* **`Behaviors`**: one callback is in flight at a time; each agenda call it makes is a
  step, after any of which it may fail: the code does not roll back what a failed
  callback has done. `causes` and `received` are history variables.
* **`TransientSession`**: a public call is a sequence of steps through `pc` "deliver",
  "solve", "callback". Circuit mathematics is an open choice: an attempt is rejected,
  or accepted with one of the errors that decide how the timestep changes; an attempt
  that was rejected is rejected again while the circuit is unchanged.
* **`PackageStore`**: a file's content is the number of chunks written. Open, each
  chunk, sync, removal and the read are separate steps; a kill may come between any
  two.
* **`PackageResolution`**: one step of `Search` is one turn of the recursion, `stack`
  its frames. Between calls the catalog, the store and the lockfile change.
* **`IntelligentExchange`**: threads, pipes and process are separate actions; the
  adapter program is any program, its descendants may hold the pipes open.
* **`DesignElaboration`, `LayoutComposition`**: an identifier is a sequence of parts,
  where the code joins them with "/"; `PlainNames` says which libraries that is
  faithful for. Code that walks a list once is an operator on the list, the loop over
  definitions or scopes an action.
* **`DesignHistory`**: edits are inserting, removing and setting a part of an item, of
  the kinds of the enumeration; containers (board, schematic, tests) hold lists of
  items. `versions` is a history variable: the line of contents.
* **`ManufacturingRelease`**: directory and archive of one place; a write of one file is
  a step, and a file may be seen partly written. `kept` and `disturbed` are history
  variables.
* **`PlacementSolver`**: `placed` is the working layout, `settled` the items whose place
  is decided, and one step settles one item. A placement is its index.
* **`PhaseTuning`**: `chosen` is the odometer, `working` the copy of the board; one step
  realizes one member, or certifies or rejects the assembly.
* **`CopperPour`**: stitching decides one candidate in a step, on boxes of integers; the
  pour adds one thing's copper in a step, on cells of a grid.
* **`DesignAuthoring`**: each call of a program is made once, in any order; `by` and
  `at` remember which call made what, as the code's source map does.

Operators named for a mistake (`OpenTruncating`, `ReceiveLast`, `CoversByPresence`...)
are alternative bodies of the operator they stand before. No specification uses them;
`PROJECT.json` says which property each of them breaks.

## 3. Runs and findings

Every run finishes within four minutes on two workers. Small systems that share no
variable are checked in one run: each initial state has one of them under way and the
others at rest, so the state spaces add up and do not multiply.

| Run | Configuration | Question | Result |
|---|---|---|---|
| `behaviors` | `MCBehaviors.cfg` | Do authors and callbacks of both kinds, acting on one agenda, break its log, the abstract queue, causality, or the order of selective receive? | holds |
| `session` | `MCTransientSession.cfg` | Do stepping calls keep the two clocks, samples, budgets and breakpoints together, and does each return? | holds |
| `packages` | `MCPackageResolution.cfg` | Does the resolver find a consistent lock, the highest, whenever there is one; does a lock load wholly or not at all; do racing, failing and killed publishers damage an artifact? | holds |
| `proposals` | `MCProposals.cfg` | Are routes cheapest and legal, complete results complete, refinement regions apart, every loop bounded? Are solved placements legal and no worse, tunings as asked and the first there are? | holds |
| `design` | `MCDesignElaboration.cfg` | Is a flat design exactly what bindings and keys make it; are modules composed where their transforms take them, or refused for what they are together? Whatever a program does, does an export return, and accept whole answers only; does an inspection accept well-formed documents only? | holds |
| `history` | `MCDesignHistory.cfg` | Do commits, stale commits, undo, redo and compaction keep the line of contents, the log and other authors' work? | holds |
| `release` | `MCManufacturingRelease.cfg` | Is every bundle a call returns one whole release with true gates, whatever others do to the files? | holds |
| `authoring` | `MCDesignAuthoring.cfg` | Do accepted calls stay accepted, does the drawing show the nets, do findings name the calls to blame? Does stitching account for every candidate; is poured copper clear and anchored? | holds |
| `session_stuck` | `MCSessionStuck.cfg` | Does an accepted policy stay valid? | **violated** |
| `design_globals` | `MCDesignGlobals.cfg` | Are nets of one global key one net? | **violated** |
| `module_back` | `MCModuleBack.cfg` | Does a module keep its connections wherever it is placed? | **violated** |
| `pour_hatch` | `MCPourHatch.cfg` | Do the stripes of a hatched zone span it? | **violated** |

What a property says is in the comment before it. The ones that carry most:

* `ImplementsEventQueue` and `LifecycleReplays`: the deque, its two ways of insertion
  and the log implement a priority queue, and the log alone rebuilds deque and counters.
* `EffectsFollowCauses` and `SelectiveFifo`, across refused messages, changing
  predicates, failures and replaced tasks.
* `NoBreakpointJumped`, `SessionIsTrue` (`ClocksAgree`, `ReportIsTrue`), `SettledOnReturn`:
  analog and event time are one time, and the report is what happened.
* `SearchIsComplete` and `LockIsRight` (`LockIsConsistent`, `HighestCompatible`): the
  backtracking search against the definition of a consistent selection.
* `SearchIsCheapest`: the best-first search against every legal path of the grid.
* `CompleteIsRouted`: each net of a complete result is one piece of legal moves that
  meets all its pads, and no two nets share a node or have edges that meet; edges of the
  two nets of a pair excepted.
* `RegionsTile`: the regions of a further round lie apart, keep what is already refined,
  and reach every hotspot on the board.
* `SolvedIsLegal`, `LegalStaysPut`, `NoWorse`: items are settled one against another while
  later ones still move; the outcome is judged as a whole.
* `TunedAsAsked`, `NoneLeftOut`: serpentines and lengths against the contract, and the
  odometer against the set of all assemblies.
* `FlatCircuitIsTrue` (`FlatConnectivity`, `ParametersReachParts`), `FindingsAreTrue`
  (`RefusedForCause`, `SourcesAreCounted`) and `ComposedOrRefused` (`ComposedAsPlaced`,
  `RefusedOnlyTogether`): what a hierarchy means, stated on paths from the root, against
  the code's one pass over scopes.
* `ImplementsUndoZipper`, `NoLostUpdate`, `LogCoversChanges`: undo and redo restore
  whole documents exactly, order of lists included, and the conflict test is sound.
* `AcceptedIsTrue` and `BundlesAreTrue` (`IntactReadsBack`, `ComparisonIsTrue`): what
  verification promises under files edited by others, and that it refuses nothing that is
  intact.
* `DiagnosticsAreTrue` (`AcceptedCallsHold`, `DiagnosticsNameTheCalls`): nothing accepted
  is found wrong later, and a finding's places are the calls without which the same
  program would not have had it.
* `StitchesAreTrue`, `PoursKeepClear`, `PoursAreAnchored`: a via has its room and is on the
  grid, a candidate is placed or refused for a reason that holds; poured copper is clear
  of what was there before it; each island of a net touches something that is no zone.

### Findings

1. `session_stuck`: a step cut short by an event leaves a proposed timestep below the
   policy's minimum; the next run's policy validation refuses it, and the session is
   running but never steps again (`simulation.rs:2403`).
2. `design_globals`: of several root nets declared under one key the last stands for
   it, and only the map used for the children is rewritten: the root's own parts stay
   on the other nets (`hierarchy.rs:463`).
3. `module_back`: a module on the back has its routes mirrored but kept on their
   layer, while its pads' layers are counted from the back: pad and route part
   (`layout_module.rs:559`).
4. `pour_hatch`: a stripe of a hatched zone is a rectangle whose corner, not its middle,
   is turned about the origin and moved to the middle of the zone: half of the zone has no
   stripes (`materialize.rs:1448`; documented at `layout.rs:1711`). Spokes are built
   in the same way (`materialize.rs:1492`; documented at `layout.rs:1729`).

Seen while reading and modelling, and not given a run:

* Agenda and session: a task resumed with a message that waited is told the message's
  time, not the clock's (`behavior.rs:351`); the event that exceeds the callback bound
  has left the agenda and is never dispatched (`simulation.rs:1109`); a fixed-step
  session keeps a timestep a breakpoint cut (`simulation.rs:2540`); a session stopped by
  a bound may be stepped again (`simulation.rs:1351`); `agenda_mut` lets authors move
  a session's agenda clock by hand.
* Packages: a publisher killed in the middle of a write leaves a partial file that every
  later publish reports as a collision (`package.rs:735`); so does one still being
  written (`package.rs:738`); the directory is not synced (`package.rs:729`).
* History: removing a placement and then the board in one batch fails an `expect`
  (`edit.rs:2159`); an undo may be refused for good after an anchor has moved
  (`edit.rs:2172`); a reloaded history reuses revision numbers; an old history that
  removes a symbol's instance cannot be loaded (near `edit.rs:2585`); a typed port
  cannot be removed by an edit.
* Hierarchy and modules: identifiers that contain "/" may merge nets; a global net is
  ground by its root declaration only; validation panics on a binding to a definition
  that does not exist yet (`hierarchy.rs:351`); a regulator module used twice is one
  source; modules with a net class on a shared rail cannot be instantiated twice on it.
* Routing: an adaptive call refuses a pair that its coarse grid cannot hold, though its
  doc speaks of refining (`autoroute.rs:588`, `autoroute.rs:648`). Edges of the two nets
  of a pair are never compared by distance: `account_inter_route_clearance` skips a
  retained pair (`autoroute.rs:3875`), which CAPABILITY_MATRIX.md:72 calls "atomically
  certified" and line 53 "constant-spacing". Nothing certifies the spacing between their
  nodes: on a grid whose lines are translated forward once, the negative's edge from
  (2, 2) to (4, 2) may pass through the positive's node (3, 2) in a complete result.
  `CompleteIsRouted` therefore excepts the edges of pairs.
* Pour and stitching: a zone keeps to its own clearance from lower-priority zones
  (`materialize.rs:1146`), where the doc speaks of exact clearance (`layout.rs:1830`);
  spokes in a rectangular zone are not clipped to the substrate (`materialize.rs:1199`);
  stitching vias are not checked against foreign pads and routes, and
  `realize_stitching_vias` does not validate its policy: with a pitch that is not positive it
  does not end.
* Exchange: descendants of a killed program that hold its pipes keep the export waiting
  past its timeout.
* Authoring: `add` after `define_part` of the same name leaves records that only
  `finish` refuses, where the doc says they are inserted exactly once
  (`authoring.rs:2838`); incompatible signal types of ports are diagnosed at the
  design's own declaration only; a pin mapped twice to one pad is accepted by
  `define_part` and refused by import.

## 4. Bounds

* **behaviors**: two instants, phases 0 and 2, one target with a handler, a task and a
  mailbox of its own (targets interact only through the agenda), three identities
  (`U64Max = 3`, so the identity counter runs out), traces of up to two requests. Ties
  of time and of time and phase occur; order is decided by pairs, and a third event is
  what may stand between or around them. Predicates `{0}` and `{0, 2}` give messages that
  are refused first and taken later.
* **session**: five instants, an initial timestep of the whole span, a minimum of two
  grid units, so that one rejection, one growth and a step cut below the minimum are
  possible; a source breakpoint at 1, a schedule at 2, two events, one of which a
  callback may emit; budgets of two samples and two rejections, so that both run out.
* **packages**: three names with two releases each (of the third, one version from two
  sources), every combination of a few dependency sets, cycles among them, three root
  lists, one change between calls. For the store three processes (a creator, one that
  compares, one that comes after a removal), one artifact (paths do not interact),
  two chunks, two kills, failures at will. Resolver and store do not share a variable:
  each initial state has one of the two under way.
* **design**, exchange: pipes of one chunk, a request of two, a response limit of two and an error
  limit of one: an answer may be short, exact, or one too long. Descendants may hold
  pipes. Documents up to depth two and five events: each way of being ill-formed needs
  fewer.
* **proposals**, router: boards up to three by three lines and two layers: two nets that cross, a
  net with three terminals, pairs with and without one offset, a coarse grid that is
  blocked, and one larger board on which a pair is refined; three passes, sixty expansions. `MaxCost = 60` is far above every cost of a
  board that can be routed and low enough that history costs saturate.
* **proposals**, solver: a board of ten units, three components with courtyards, pads and
  nets, each kind of constraint under each kind of policy (kept places, optimized, density,
  congestion, pin access): two settled items and one to come are what an order can get
  wrong. Tuner: boards of twelve by ten, two or three nets, lines on which one or two
  cycles fit on one side or both, targets that are met, near or out of reach, limits
  below and above the number of assemblies.
* **design**, libraries: families of libraries of three definitions (a root with two children, each
  with leaves), one for each question: connections and keys, recursion, parameters,
  sources, refusals, rails. Two levels are what a binding of a binding needs. Modules of
  the same circuits with quarter turns and both sides, three calls, and assemblies
  put together by hand.
* **history**: ten documents, one for each group of lists that refer to each other, with
  edits of every kind; three revisions: two stale authors and their undo, or two
  commits, an undo and a redo.
* **release**: two symmetric processes, three calls in one place, a clean release, a
  failing one, two that cannot be built, twelve edits of files and archives each of
  which attacks another check of the reader's.
* **authoring**: seven programs of six to fifteen calls that get in each other's way, in
  every order and every part. Pours: 258 boards of twelve by twelve cells on two layers,
  with every mixture of fills, reliefs, hatches and spokes, keepouts and priorities; the
  middle of a zone lies on the grid and hatches run along the axes, so that the cells
  are exact.

`CHECK_DEADLOCK FALSE` stands where the system really stops: a resolver with no call to
make and a store whose processes are done or dead, a history at its last revision, a
program that is finished. Elsewhere what has ended is a stuttering step of its own, and
a deadlock would be reported.

## 5. Fairness

* `FairSessionSpec` is weak fairness of `CallStep`, the steps of a call in progress: one
  thread runs it, and a callback returns or fails. Nothing is assumed about who calls,
  about new events, or about the outcome of an attempt: `CallsReturn` rests on the loop
  conditions and the callback bound alone.
* `MCSpec` of `MCPackageResolution` has weak fairness of `Search`, a loop of one thread:
  `SearchEnds`.
* `MCSpec` of `MCDesignElaboration` has `ExchangeFairness`, weak fairness of each thread's own steps and of the deadline: the
  clock goes on. Nothing is assumed of the program. `EveryThreadEnds` therefore excepts
  streams that a descendant keeps open after the program has ended.

The router needs none: `EveryStepShortens`, proved in section 6, says that each step uses
up one of the policy's bounds, which is what termination rests on.

## 6. Proofs

Every theorem holds for every value of the constants that the named assumption of its
module allows; TLC evaluates those assumptions in the runs. The inductive invariants
were checked by TLC before they were proved.

`AgendaProofs`, of the agenda, from `AgendaAssumption` (times and phases are naturals, and so on):

* `AgendaInv` joins types, order of the deque, "nothing pending in the past" and
  "deliveries in order" with what relates them: every identity in use is below `nextId`,
  and every delivered event stands before the current clock and phase. Sortedness
  alone is not inductive: an insertion by binary search keeps order only if the new
  identity is the largest, a delivery keeps the log in order only if what is pending
  is behind what was delivered. Theorems `AgendaTypeCorrect`, `AgendaStaysSorted`,
  `AgendaNeverInPast`, `AgendaDeliversInOrder`, `AgendaNeverSkips`.
* `AgendaImplementsQueue`, the refinement: one lemma per call says that it preserves
  `AgendaInv` and which abstract step it is.
* `AgendaReplays`: the replay of the log is the deque and the counters. `ReplayInv` adds
  to it that no counter has saturated (each is bounded by the length of the log) and
  that the peak is at least what is pending. `Replays` is a recursive function over the
  log: `ReplayExists` and `ReplaysOfPrefix` say that it is one and how it extends.

Of callbacks, in the same module, from the same assumption:

* `CallbacksUseAnAgenda`: every step of authors and runtimes is a call of the agenda or
  leaves it alone, so all theorems above hold under callbacks.
* `EffectsAlwaysFollow` and `ReceiveIsFifo`, from `BehaviorInv`: the log schedules each
  identity once; the records of a call continue it; a context speaks for a delivered
  event, and nothing is accepted before it; mailboxes are sorted, hold delivered events
  of their target, and the event just delivered comes after all of them.

Of the session, in the same module, from `PolicyAssumption`:

* `SessionRunsAnAgenda`, `SessionsAreTrue`, `NoStepJumps`, `CallsSettle`, from `SessionInv`: nothing is due when the solver runs, budgets are the
  cardinalities of the decisions, a step is cut at the first breakpoint, no decision ends
  after the clock.

`PackageProofs`, of the store, from `StoreAssumption`: `StoreHasOneWriter`, `CreatedFilesStay`.
`StoreInv` adds to `OneWriter` that a process about to remove a file still finds it;
otherwise a path could be created anew between a failed write and the removal.

Of resolution, in the same module: `ResolvedLocksAreConsistent` (soundness),
`SearchMissesNothing` (completeness), `ResolvedLocksAreRight`, `LoadsAreClosed`.
`ResolutionInv` says of each frame which candidates are exhausted: those that left it, but
for the one the next frame is about; an exhausted candidate is in no consistent
selection that keeps the frame's own choices.

`DesignProofs`, of the exchange: `ResultsAreTrue`, for pipes, requests and limits of any size
and any program. The invariant says what an ended thread leaves behind: a reader that did
not reach its limit has emptied a pipe nobody can fill again. `InspectionsAreExact`, for
documents of any length: what the inspection remembers (depth, root found, root closed) is
the nesting counted over the elements it has seen.

`DesignHistoryProofs`, for any set of well-formed documents and batches:

* `EditIsReversible`: an accepted edit of any kind has an accepted inverse that restores
  the document, order included, and changes nothing it does not conflict with.
* `BatchIsReversible`: the same of a batch of any length and its generated inverse, by a
  least counterexample over its edits.
* `LogIsEvidence`, `StaleBatchesLoseNoUpdate`, `UndoZipperIsImplemented`, from
  `HistoryInv`: the stacks walk the line of contents, and the log covers every step of it.

`ManufacturingReleaseProofs`, from `ReleaseAssumption` (what others put at the manifest's
or the archive's place is lost, or has the fields of one; the limits admit a small file of
each kind): `AcceptedReleasesAreTrue`, `UndisturbedWritesReadBack`, `ComparisonsAreTrue`,
`RestingBundlesAreTrue`.
`ReleaseInv`: every bundle in hand would pass the verification again, its signatures under
the policy of its last read, and signing keeps that; what a writer has yet to write is its
bundle's, and if nobody has interfered, all else is in place already. A release larger than
the limits is written and does not read back: `write_zip` knows no limits.

`DesignProofs`, of the recursion search, from `DesignsAssumption` (lists are lists, and the order of the
maps has every identity): `RecursionIsAlwaysCaught`. "Recursive" is stated without the
search: some definitions each contain one of them. `SearchInv` says what "finished" has to
mean: while no cycle was found, the definitions the search has left contain only one
another, and of any of them taken together one contains none of the others. A definition
marked when the search enters it, not when it leaves, breaks this.

`NegotiatedRouterProofs`, from `RouterAssumption` (each problem is a board with terminals on
it, pairs of its nets, and a policy of natural numbers), for boards, nets, layers and
bounds of any size:

* `RouterInvHolds`, with `RouterInv` in five parts. `CallInv` and `PassInv`: types, and every
  route of the pass consists of ways, that is, legal paths that begin at the pads or
  at what the net has already, and end at the next pad. `Served`: each selected net waits
  for its turn, is routed or has failed. `Settled`: a complete call has nothing waiting,
  failed or in conflict. `SearchInv`: each state the search has found is the tree's own or
  has a predecessor it was found from by a legal move (`IsFound`), and following
  predecessors ends in the tree (`IsRooted`). The latter is not inductive without costs: a
  state that is found again at less cost changes its predecessor, and closes no cycle only
  because it costs more than the state being expanded.
* `StepsShorten`: the measure is lexicographic: rounds, passes, bundles, connections,
  expansions, queue. Each action lowers one component and leaves those before it.
* `RoundsTile`: a merge of regions that overlap keeps every point of both, and the repeated
  insertion ends with regions apart; the synthesis reaches each hotspot on the board.
* `RoutingIsComplete`: a net is one piece because each of its paths begins in what the
  paths before it and the first pad make up; a part that keeps to itself has a path of
  least index that enters it, which is a contradiction. That nets stay apart follows from
  `Settled`, since conflicts are counted over all nodes and edges that are not a pair's.
* `SearchesAreCheapest`, from `FrontInv`: every state found waits in the queue at its cost
  or has had all its moves taken (`IsClosed`), costs at least what a step costs from its
  predecessor (`IsPriced`), and the sources cost nothing. The estimate of what remains never
  exceeds a step's cost plus the estimate after it, a triangle inequality of
  lengths rounded up (`UnitsOfDetour`, `EstimateIsConsistent`). The property's recursive
  cheapest costs unfold step by step (`CostsUnfold`); a way to the goal cheaper than the queue's
  head would have a first state that is not closed, which waits at no more than the
  way costs there (`NoWayIsCheaper`), and a state found is no cheaper than its cheapest way,
  since its chain of predecessors has as many states as there are (`FoundIsNoCheaper`).

`BoardProofs`, for boards, items, constraints and policies of any size:

* Of placement, from `LayoutsAssumption`: `SolutionsAreLegal`. `SolverInv` says of settled
  items that they are inside, apart two by two, and where their constraints want them; a
  relative or fixed place is never changed after the resolution, since those items
  are only turned; what the last resolution reports is then all that can be broken.
  `LegalLayoutsStay`, from `StayInv`: as long as nothing has moved, an item's own place is
  admitted, because later items block it only where they did not collide with it.
  `PlacementsAreNoWorse`: the place that is accepted is beaten by none of the admitted ones
  (`CheapestOfAllowed`), its own among them; and the score of a place differs from the cost
  of the whole layout by what the other items cost among themselves (`CostsSplit`), the same
  for every place, since each connection and each two items of a side that an item takes
  part in are counted once from either end (`WiresSplit`, `PressuresSplit`).
* Of the pour: `PoursAreClear`, from `PourOrder`: what is poured so far comes before what
  is not, in the order of the code. `PoursAreAnchoredAlways`, from `AnchorInv`: every part of
  a net's copper that is closed under neighbourhood holds a feature that is no zone.
  Islands are the smallest closed parts, which the fold that collects them is shown to
  compute; a zone keeps those that hold such a feature, and later copper of the net only
  joins parts.
* Of stitching, from `PourBoardsAreBoards`: `StitchesAreTrueAlways`, from `StitchInv`: the
  candidates decided are those before the cursor, each placed or with its reason.

`FoldFacts` holds what these proofs keep needing of the community modules' folds: a fold
over a finite set exists and takes one element at a time in any order; a sum
unfolds, may begin with any term, is a natural number and at least each of its terms,
splits over two parts, and stays the same when its terms are renamed.

Only model-checked, and why:

* Liveness (`CallsReturn`, `SearchEnds`, `EveryThreadEnds`): needs fairness and ENABLED,
  which the provers at hand do not have.
* `FlatCircuitIsTrue`, `FindingsAreTrue`, `ComposedOrRefused`, `WiringFollowsNets`,
  `DiagnosticsAreTrue`: what recursive definitions and folds compute for every library,
  project or program, which is induction over data. `ModularProject` has
  recursive operators, as the code has recursive functions, which keeps it out of the
  prover's reach altogether.
* `TunedAsAsked`, `NoneLeftOut`: arithmetic of sums over the lines of tuned routes; TLC
  checks them on every instance of the run.

## 7. Not modelled

* Exact and floating-point mathematics, geometry, solids, images, drawing: pure
  functions whose properties are about numbers. Where a model needs an outcome of theirs
  it is left open.
* Fabrication, assembly and panel texts, readers and writers of other tools' files,
  reports, the command line: formatting and parsing.
* Migrations of old documents: rewriting field by field, no state.
* Of materialization: drill hits, masks, texts, images of layers, the stack in three
  dimensions and its export.
* Of the modelled parts: curved shapes and predicates left undecided in placement, tuning
  and pour; device lowering and companion models in the session; buses,
  stimuli and resolved parts in the hierarchy; placement constraints and parameter
  overrides in projects; necked pairs, any-angle edges and the lowering to copper in
  the router; the calls of the builder that lend a container for arbitrary change, and
  handles of other designs; sheets, labels and automatic layout of schematics; the
  texts of release artifacts and symbolic links; power loss in the store.
* Labels, provenance texts and statistics wherever nothing depends on them; a blank
  provenance is a refusal.

## 8. Plan

Built in this order: agenda, behaviors, session, store; then resolver, exchange, router,
hierarchy, modules, release, authoring, and the history anew with every kind of edit;
then placement, tuning, stitching and pour; and the proofs of section 6, of each module in the order its invariants were settled.

What would come next: `WiringFollowsNets` by sets closed under the drawing's connections in
place of the recursive reachability, as `CompleteIsRouted` does for a net; elaboration
without recursive operators, so that its properties can be proved; the automatic schematic
layout as a module of its own.
