-------------------------- MODULE DesignElaboration --------------------------
(***************************************************************************)
(* `CircuitLibrary::coppertrace_erc` (src/erc.rs) and, inside it,          *)
(* `flatten_with_intent` (src/hierarchy.rs): a library of circuit          *)
(* definitions is validated, searched for definitions that contain         *)
(* themselves, elaborated scope by scope into one flat circuit in which    *)
(* nets declared under one global key are joined, and the flat circuit is  *)
(* checked against the electrical rules.  An empty intent gives what       *)
(* `flatten` and `flatten_with_scopes` do.                                 *)
(*                                                                         *)
(* One action is one pass of the code, one visit of its search for cycles  *)
(* or one scope of its expansion.                                          *)
(***************************************************************************)
EXTENDS DesignRules

CONSTANTS
  Designs,    \* pairs of a library [root, circuits] and its intent
  IdOrder     \* the identities of circuits, in the order of the maps

(* Circuits and the instances in them are lists, and the order is one of   *)
(* all their identities.                                                   *)
IsList(list) == list \in Seq(Elements(list))
ASSUME DesignsAssumption ==
  /\ IsList(IdOrder)
  /\ \A given \in Designs :
       /\ IsList(given.library.circuits)
       /\ \A c \in Elements(given.library.circuits) : IsList(c.subcircuits)
       /\ Names(given.library.circuits) \subseteq Elements(IdOrder)

VARIABLES
  design,     \* the library and the intent of this call
  status,     \* the pass the call is in, or how it ended
  issues,     \* what validation has found
  pending,    \* definitions the search for cycles still has to start from
  active,     \* the definitions it is inside of: [id, next]
  finished,   \* the definitions it has left
  cycles,     \* the cycles it has found, as sequences of definitions
  flat,       \* the flat circuit so far
  globals,    \* flat net of each global key
  scopes,     \* the scopes expanded so far: [path, circuit, nets]
  frames,     \* the scopes being expanded: [circuit, path, segments, nets, next]
  findings    \* the report of the electrical rules

searchVars == <<pending, active, finished, cycles>>
flatVars == <<flat, globals, scopes, frames>>
vars == <<design, status, issues, searchVars, flatVars, findings>>

library == design.library
intent == design.intent
circuits == library.circuits
Child(sub) == Definition(circuits, sub.circuit)
Top(stack) == stack[Len(stack)]
Below(stack) == SubSeq(stack, 1, Len(stack) - 1)
Advance(stack) == [stack EXCEPT ![Len(stack)].next = @ + 1]

Outcomes == {"InvalidDesignIntent", "Panicked", "InvalidLibrary",
             "ConflictingGlobalPortBinding", "InvalidFlattenedCircuit",
             "Checked"}

-----------------------------------------------------------------------------
(* Validation of a library                                                 *)

PortNamed(c, id) == Entry(c.ports, id)

\* The bindings of an instance that name a port of its definition.
Bound(sub) == {b \in Elements(sub.ports) : b.port \in Names(Child(sub).ports)}

\* The signal types that meet on a net of a definition: that of its own
\* first port there and those of the child ports bound to it.
TypesOn(parent, net) ==
  LET own == SelectInSeq(parent.ports, LAMBDA p : p.net = net)
  IN (IF own = 0 THEN {} ELSE {SignalType(parent, parent.ports[own].id)})
       \cup UNION {{SignalType(Child(sub), b.port) :
                      b \in {b \in Bound(sub) : b.net = net}} :
                    sub \in Elements(parent.subcircuits)}

InstanceProblems(parent) ==
  LET subs == Elements(parent.subcircuits)
      known == {sub \in subs : Defined(circuits, sub.circuit)}
  IN [UnknownChildCircuit |-> known # subs,
      UnknownChildPort |-> \E sub \in known : Bound(sub) # Elements(sub.ports),
      ConflictingChildNetBindings |->
        \E sub \in known : \E a, b \in Bound(sub) :
           /\ PortNamed(Child(sub), a.port).net = PortNamed(Child(sub), b.port).net
           /\ a.net # b.net,
      PortSignalTypeMismatch |->
        \E sub \in known : \E b \in Bound(sub) :
           Cardinality(TypesOn(parent, b.net)) > 1,
      MissingChildPort |->
        \E sub \in known : \E port \in Elements(Child(sub).ports) :
           ~port.optional /\ \A b \in Elements(sub.ports) : b.port # port.id,
      UnknownChildParameter |->
        \E sub \in known :
           ~(DOMAIN sub.overrides \subseteq DOMAIN Child(sub).parameters)]

Forwards(parent) ==
  UNION {{[name |-> name, target |-> target] :
            target \in {t \in parent.parameters[name].targets :
                          t.kind = "Subcircuit"}} :
          name \in DOMAIN parent.parameters}

\* A forward to an instance the definition does not have makes the
\* validation panic; `Circuit::validate` has reported it by then.
Dangling(parent) ==
  \E forward \in Forwards(parent) :
     forward.target.owner \notin Names(parent.subcircuits)

ForwardProblems(parent) ==
  LET child(forward) == Child(Entry(parent.subcircuits, forward.target.owner))
      reaching == {f \in Forwards(parent) : child(f) # NoCircuit}
      missed == {f \in reaching : f.target.parameter \notin DOMAIN child(f).parameters}
  IN [UnknownForwardedParameter |-> missed # {},
      ForwardedParameterUnitMismatch |->
        \E f \in reaching \ missed :
           child(f).parameters[f.target.parameter].unit
             # parent.parameters[f.name].unit]

LibraryIssues ==
  Found([DuplicateCircuit |-> Repeats(circuits),
         InvalidCircuit |-> \E c \in Elements(circuits) : CircuitIssues(c) # {},
         UnknownRoot |-> ~Defined(circuits, library.root)])
    \cup UNION {Found(InstanceProblems(c)) \cup Found(ForwardProblems(c)) :
                  c \in Elements(circuits)}

CheckIntent ==
  /\ status = "intent"
  /\ status' = IF IntentIssues(intent, circuits) = {} THEN "definitions"
               ELSE "InvalidDesignIntent"
  /\ UNCHANGED <<design, issues, searchVars, flatVars, findings>>

ValidateDefinitions ==
  /\ status = "definitions"
  /\ \/ /\ \E c \in Elements(circuits) : Dangling(c)
        /\ status' = "Panicked"
        /\ UNCHANGED <<issues, pending>>
     \/ /\ \A c \in Elements(circuits) : ~Dangling(c)
        /\ status' = "cycles"
        /\ issues' = LibraryIssues
        /\ pending' = Names(circuits)
  /\ UNCHANGED <<design, active, finished, cycles, flatVars, findings>>

-----------------------------------------------------------------------------
(* The search for definitions that contain themselves                      *)

Active(id) == {i \in DOMAIN active : active[i].id = id}

\* The definitions from a place of the stack on, and the first once more.
CycleFrom(place, id) ==
  Append([i \in 1 .. Len(active) - place + 1 |-> active[place + i - 1].id], id)

VisitOnce(id) ==
  IF id \in finished THEN UNCHANGED <<finished, cycles>> /\ active' = Advance(active)
  ELSE /\ active' = Append(Advance(active), [id |-> id, next |-> 1])
       /\ finished' = finished \cup {id}
       /\ UNCHANGED cycles

Visit(id) ==
  IF id \in finished THEN UNCHANGED <<finished, cycles>> /\ active' = Advance(active)
  ELSE IF Active(id) # {}
       THEN /\ cycles' = cycles \cup {CycleFrom(CHOOSE i \in Active(id) : TRUE, id)}
            /\ active' = Advance(active)
            /\ UNCHANGED finished
       ELSE /\ active' = Append(Advance(active), [id |-> id, next |-> 1])
            /\ UNCHANGED <<finished, cycles>>

FirstOf(ids) ==
  IdOrder[CHOOSE i \in DOMAIN IdOrder :
            /\ IdOrder[i] \in ids
            /\ \A j \in DOMAIN IdOrder : IdOrder[j] \in ids => i <= j]

StartSearch ==
  /\ status = "cycles" /\ active = << >> /\ pending # {}
  /\ pending' = pending \ {FirstOf(pending)}
  /\ active' = IF FirstOf(pending) \in finished THEN << >>
               ELSE <<[id |-> FirstOf(pending), next |-> 1]>>
  /\ UNCHANGED <<design, status, issues, finished, cycles, flatVars, findings>>

Contained(id) == Definition(circuits, id).subcircuits

VisitChild ==
  /\ status = "cycles" /\ active # << >>
  /\ Top(active).next <= Len(Contained(Top(active).id))
  /\ LET child == Contained(Top(active).id)[Top(active).next].circuit
     IN IF Defined(circuits, child) THEN Visit(child)
        ELSE active' = Advance(active) /\ UNCHANGED <<finished, cycles>>
  /\ UNCHANGED <<design, status, issues, pending, flatVars, findings>>

LeaveDefinition ==
  /\ status = "cycles" /\ active # << >>
  /\ Top(active).next > Len(Contained(Top(active).id))
  /\ active' = Below(active)
  /\ finished' = finished \cup {Top(active).id}
  /\ UNCHANGED <<design, status, issues, pending, cycles, flatVars, findings>>

Validated ==
  /\ status = "cycles" /\ active = << >> /\ pending = {}
  /\ status' = IF issues = {} /\ cycles = {} THEN "root" ELSE "InvalidLibrary"
  /\ UNCHANGED <<design, issues, searchVars, flatVars, findings>>

-----------------------------------------------------------------------------
(* Parameters                                                              *)

\* A forwarded value replaces the override written at the instance.
OverridingOnlyUnset(forwarded, written) == written @@ forwarded
Overriding(forwarded, written) == forwarded @@ written

\* `instantiate_parameters`: what a definition looks like with the given
\* overrides of its parameters.
Instantiated(c, overrides) ==
  LET value(name) == IF name \in DOMAIN overrides THEN overrides[name]
                     ELSE c.parameters[name].value
      set(kind, owner) ==
        [p \in {t.parameter : t \in {u \in UNION {c.parameters[name].targets :
                                                    name \in DOMAIN c.parameters} :
                                       u.kind = kind /\ u.owner = owner}} |->
           value(CHOOSE name \in DOMAIN c.parameters :
                   [kind |-> kind, owner |-> owner, parameter |-> p]
                     \in c.parameters[name].targets)]
      assign(kind, thing) ==
        [thing EXCEPT !.parameters =
           [p \in DOMAIN @ |->
              IF p \in DOMAIN set(kind, thing.id)
              THEN [@[p] EXCEPT !.value = set(kind, thing.id)[p]] ELSE @[p]]]
      forward(sub) == Overriding(set("Subcircuit", sub.id), sub.overrides)
  IN [c EXCEPT
        !.parts = [i \in DOMAIN @ |-> assign("Instance", @[i])],
        !.models = [i \in DOMAIN @ |-> assign("Model", @[i])],
        !.subcircuits =
          [i \in DOMAIN @ |-> [@[i] EXCEPT !.overrides = forward(c.subcircuits[i])]]]

-----------------------------------------------------------------------------
(* Elaboration                                                             *)

\* The key a net of a definition is declared global under.
KeyOf(circuit, net) ==
  LET place == SelectInSeq(intent.nets, LAMBDA n : n.circuit = circuit /\ n.net = net)
  IN IF place = 0 THEN NoKey ELSE intent.nets[place].key

GroundedKey(key) ==
  \E n \in Elements(intent.nets) :
     n.key = key /\ Entry(Definition(circuits, n.circuit).nets, n.net).ground

\* Of the nets of the root declared under one key the last stands for the key.
RootGlobals(root) ==
  LET named(key) == {i \in DOMAIN root.nets : KeyOf(root.id, root.nets[i].id) = key}
  IN [key \in {KeyOf(root.id, net) : net \in Names(root.nets)} \ {NoKey} |->
        root.nets[CHOOSE i \in named(key) : \A j \in named(key) : j <= i].id]

\* A key no net of the root stands for gets a flat net of its own.
AddGlobalEachTime(made, declared) ==
  IF declared.key = NoKey THEN made
  ELSE LET plain == <<declared.key>>
           id == IF plain \in Names(made.nets) THEN <<"@global">> \o plain ELSE plain
       IN [nets |-> Append(made.nets, [id |-> id, ground |-> GroundedKey(declared.key)]),
           globals |-> (declared.key :> id) @@ made.globals]

AddGlobal(made, declared) ==
  IF declared.key = NoKey \/ declared.key \in DOMAIN made.globals THEN made
  ELSE LET plain == <<declared.key>>
           id == IF plain \in Names(made.nets) THEN <<"@global">> \o plain ELSE plain
       IN [nets |-> Append(made.nets, [id |-> id, ground |-> GroundedKey(declared.key)]),
           globals |-> (declared.key :> id) @@ made.globals]

\* A port of a global net may only be bound to a net of the same key.
ConflictingGlobalBinding ==
  \E parent \in Elements(circuits) : \E sub \in Elements(parent.subcircuits) :
     \E b \in Elements(sub.ports) :
        LET key == KeyOf(sub.circuit, PortNamed(Child(sub), b.port).net)
        IN key # NoKey /\ KeyOf(parent.id, b.net) # key

ElaborateRoot ==
  /\ status = "root"
  /\ LET root == Instantiated(Definition(circuits, library.root), << >>)
         made == FoldLeft(AddGlobal, [nets |-> root.nets, globals |-> RootGlobals(root)],
                          intent.nets)
         standing(net) == LET key == KeyOf(root.id, net)
                          IN IF key = NoKey THEN net ELSE made.globals[key]
     IN /\ flat' = [root EXCEPT !.nets = made.nets, !.subcircuits = << >>,
                                !.parameters = << >>]
        /\ globals' = made.globals
        /\ frames' = IF ConflictingGlobalBinding THEN << >>
                     ELSE <<[circuit |-> root, path |-> << >>, segments |-> << >>,
                             nets |-> [net \in Names(root.nets) |-> standing(net)],
                             next |-> 1]>>
  /\ status' = IF ConflictingGlobalBinding THEN "ConflictingGlobalPortBinding"
               ELSE "expand"
  /\ UNCHANGED <<design, issues, searchVars, scopes, findings>>

\* The flat net of each net of a child: what a binding gives it, else what its
\* global key stands for, else a net of its own, named after the path.
ChildNets(sub, child, path, parentNets) ==
  LET binding(net) == SelectInSeq(Reverse(sub.ports),
                                  LAMBDA b : PortNamed(child, b.port).net = net)
      bound(net) == parentNets[Reverse(sub.ports)[binding(net)].net]
      key(net) == KeyOf(child.id, net)
  IN [net \in Names(child.nets) |->
        IF binding(net) # 0 THEN bound(net)
        ELSE IF key(net) \in DOMAIN globals THEN globals[key(net)]
        ELSE path \o net]

Renamed(path, things) == [i \in DOMAIN things |-> [things[i] EXCEPT !.id = path \o @]]

PlacedUnderOwnName(child, path, nets) ==
  [i \in DOMAIN child.parts |->
     [child.parts[i] EXCEPT
        !.model = path \o @,
        !.pins = [j \in DOMAIN @ |-> [@[j] EXCEPT !.net = nets[@]]]]]

PlacedParts(child, path, nets) ==
  [i \in DOMAIN child.parts |->
     [child.parts[i] EXCEPT
        !.id = path \o @, !.model = path \o @,
        !.pins = [j \in DOMAIN @ |-> [@[j] EXCEPT !.net = nets[@]]]]]

AddUnlessThere(list, entry) ==
  IF entry \in Elements(list) THEN list ELSE Append(list, entry)

\* The flat circuit with the contents of one more scope.
WithScope(child, path, nets) ==
  LET fresh == SelectSeq(child.nets, LAMBDA n : nets[n.id] \notin Names(flat.nets))
      rails == [i \in DOMAIN child.rails |->
                  [child.rails[i] EXCEPT !.net = nets[@]]]
  IN [flat EXCEPT
        !.nets = @ \o [i \in DOMAIN fresh |-> [fresh[i] EXCEPT !.id = nets[@]]],
        !.rails = FoldLeft(AddUnlessThere, @, rails),
        !.models = @ \o Renamed(path, child.models),
        !.parts = @ \o PlacedParts(child, path, nets)]

ExpandChild ==
  /\ status = "expand" /\ frames # << >>
  /\ Top(frames).next <= Len(Top(frames).circuit.subcircuits)
  /\ LET parent == Top(frames)
         sub == parent.circuit.subcircuits[parent.next]
         child == Instantiated(Child(sub), sub.overrides)
         path == parent.path \o sub.id
         segments == Append(parent.segments, sub.id)
         nets == ChildNets(sub, child, path, parent.nets)
     IN /\ flat' = WithScope(child, path, nets)
        /\ scopes' = Append(scopes, [path |-> segments, circuit |-> child.id,
                                     nets |-> nets])
        /\ frames' = Append(Advance(frames),
                            [circuit |-> child, path |-> path,
                             segments |-> segments, nets |-> nets, next |-> 1])
  /\ UNCHANGED <<design, status, issues, searchVars, globals, findings>>

LeaveScope ==
  /\ status = "expand" /\ frames # << >>
  /\ Top(frames).next > Len(Top(frames).circuit.subcircuits)
  /\ frames' = Below(frames)
  /\ UNCHANGED <<design, status, issues, searchVars, flat, globals, scopes, findings>>

CheckFlat ==
  /\ status = "expand" /\ frames = << >>
  /\ status' = IF CircuitIssues(flat) = {} THEN "rules" ELSE "InvalidFlattenedCircuit"
  /\ UNCHANGED <<design, issues, searchVars, flatVars, findings>>

CheckRules ==
  /\ status = "rules"
  /\ findings' = [electrical |-> ElectricalIssues(flat),
                  roles |-> RoleIssues(intent),
                  supplies |-> MissourcedSupplies(intent, library.root, flat, scopes)]
  /\ status' = "Checked"
  /\ UNCHANGED <<design, issues, searchVars, flatVars>>

Returned == status \in Outcomes /\ UNCHANGED vars

-----------------------------------------------------------------------------
NoFindings == [electrical |-> {}, roles |-> {}, supplies |-> {}]

Init ==
  /\ design \in Designs
  /\ status = "intent"
  /\ issues = {} /\ cycles = {} /\ finished = {}
  /\ pending = {} /\ active = << >>
  /\ flat = NoCircuit /\ globals = << >>
  /\ scopes = << >> /\ frames = << >>
  /\ findings = NoFindings

Next ==
  \/ CheckIntent
  \/ ValidateDefinitions
  \/ StartSearch
  \/ VisitChild
  \/ LeaveDefinition
  \/ Validated
  \/ ElaborateRoot
  \/ ExpandChild
  \/ LeaveScope
  \/ CheckFlat
  \/ CheckRules
  \/ Returned

Spec == Init /\ [][Next]_vars

-----------------------------------------------------------------------------
(* What elaboration promises, told from the hierarchy itself               *)

\* Some definitions each contain one of them: followed far enough, one of them
\* contains itself.
Recursive ==
  \E ids \in SUBSET Names(circuits) :
    ids # {} /\ \A id \in ids : \E sub \in Elements(Contained(id)) : sub.circuit \in ids

\* Every scope of the hierarchy: its path of instances, what each of its nets
\* is one with (the net that a chain of bindings ends at, or a global key)
\* and the values of its module parameters.
Hierarchy ==
  LET one(segments, c, net, above) ==
        LET key == KeyOf(c.id, net)
        IN IF key # NoKey THEN [key |-> key, path |-> << >>, net |-> << >>]
           ELSE IF net \in DOMAIN above THEN above[net]
           ELSE [key |-> NoKey, path |-> segments, net |-> net]
      scope(segments, c, above, values) ==
        [path |-> segments, circuit |-> c,
         owner |-> [net \in Names(c.nets) |-> one(segments, c, net, above)],
         values |-> [name \in DOMAIN c.parameters |->
                       IF name \in DOMAIN values THEN values[name]
                       ELSE c.parameters[name].value]]
      through(s, sub) ==
        [net \in {PortNamed(Child(sub), b.port).net : b \in Elements(sub.ports)} |->
           s.owner[(CHOOSE b \in Elements(sub.ports) :
                      PortNamed(Child(sub), b.port).net = net).net]]
      forwards(s, sub) ==
        {<<f.target.parameter, s.values[f.name]>> :
           f \in {f \in Forwards(s.circuit) : f.target.owner = sub.id}}
      given(s, sub) ==
        [name \in DOMAIN sub.overrides \cup {f[1] : f \in forwards(s, sub)} |->
           IF \E f \in forwards(s, sub) : f[1] = name
           THEN (CHOOSE f \in forwards(s, sub) : f[1] = name)[2]
           ELSE sub.overrides[name]]
      level[n \in Nat] ==
        IF n = 0 THEN {scope(<< >>, Definition(circuits, library.root), << >>, << >>)}
        ELSE UNION {{scope(Append(s.path, sub.id), Child(sub), through(s, sub),
                           given(s, sub)) :
                       sub \in Elements(s.circuit.subcircuits)} : s \in level[n - 1]}
  IN UNION {level[n] : n \in 0..(Len(circuits) - 1)}

Elaborated == status \in {"rules", "Checked"}

\* No identifier contains a "/", as none that an author writes by hand does.
PlainNames ==
  \A c \in Elements(circuits) :
     \A list \in {c.nets, c.parts, c.models, c.subcircuits} :
        \A id \in Names(list) : Len(id) = 1

\* The root declares no two of its nets under one key.
OneRootNetPerKey ==
  \A n, m \in Names(Definition(circuits, library.root).nets) :
     n # m => \/ KeyOf(library.root, n) = NoKey
              \/ KeyOf(library.root, n) # KeyOf(library.root, m)

ScopeMap(path) ==
  IF path = << >>
  THEN [net \in Names(Definition(circuits, library.root).nets) |-> net]
  ELSE Entry([i \in DOMAIN scopes |->
                [id |-> scopes[i].path, nets |-> scopes[i].nets]], path).nets

FlatPart(s, part) == Entry(flat.parts, FlattenSeq(s.path) \o part.id)

\* The pins of all parts on nets of one owner.
OwnedPins(h, owner, kinds) ==
  UNION {UNION {{<<s.path, part.id, b.pin>> :
                   b \in {b \in Elements(part.pins) :
                            /\ s.owner[b.net] = owner
                            /\ \E pin \in PinsOf(s.circuit, part) :
                                 pin.pin = b.pin /\ pin.kind \in kinds}} :
                  part \in Elements(s.circuit.parts)} : s \in h}

SupplyPorts(h, owner) ==
  UNION {{port.id : port \in {p \in Elements(s.circuit.ports) :
                                p.direction = "PowerInput" /\ s.owner[p.net] = owner}} :
           s \in {t \in h : t.path = << >>}}

\* The scopes in which a regulator's output is on nets of one owner.
RegulatorOutputs(h, owner) ==
  UNION {{<<s.path, i>> :
            i \in {i \in DOMAIN intent.roles :
                     LET role == intent.roles[i]
                         place == BindingNamed(role, "output")
                     IN /\ role.role \in Regulators /\ place # 0
                        /\ role.bindings[place].circuit = s.circuit.id
                        /\ s.owner[role.bindings[place].net] = owner}} : s \in h}

GroundOwners(h) ==
  UNION {{s.owner[n.id] : n \in {n \in Elements(s.circuit.nets) : n.ground}} : s \in h}
    \cup {[key |-> n.key, path |-> << >>, net |-> << >>] :
            n \in {n \in Elements(intent.nets) : n.key # NoKey /\ GroundedKey(n.key)}}

-----------------------------------------------------------------------------
\* A definition that contains itself, however deep, is never elaborated, and
\* every cycle reported is one (`find_cycles` and the expansion, which would
\* not end).
RecursionIsCaught ==
  /\ flat # NoCircuit \/ status = "root" => ~Recursive
  /\ \A cycle \in cycles :
       /\ cycle[1] = cycle[Len(cycle)]
       /\ \A i \in 1..(Len(cycle) - 1) :
            \E sub \in Elements(Contained(cycle[i])) : sub.circuit = cycle[i + 1]

\* Two nets of any two scopes became one flat net exactly if bindings or a
\* common key make them one; every part of every scope is there once, its pins
\* on the flat nets of the scope it came from (`flatten_with_intent`).
FlatConnectivity ==
  Elaborated /\ PlainNames /\ OneRootNetPerKey =>
    LET h == Hierarchy
    IN /\ {s.path : s \in h} = {<< >>} \cup {scope.path : scope \in Elements(scopes)}
       /\ \A s, t \in h : \A n \in DOMAIN s.owner, m \in DOMAIN t.owner :
            (ScopeMap(s.path)[n] = ScopeMap(t.path)[m]) <=> (s.owner[n] = t.owner[m])
       /\ \A s \in h : \A part \in Elements(s.circuit.parts) :
            \A i \in DOMAIN part.pins :
               FlatPart(s, part).pins[i].net = ScopeMap(s.path)[part.pins[i].net]

\* A parameter of a part or of its model has the value the nearest scope above
\* decides: forwarded from its parent, else overridden at the instance, else
\* the default (`instantiate_parameters`, level after level).
ParametersReachParts ==
  Elaborated /\ PlainNames =>
    \A s \in Hierarchy : \A name \in DOMAIN s.circuit.parameters :
       \A target \in s.circuit.parameters[name].targets :
          target.kind # "Subcircuit" =>
            LET things == IF target.kind = "Instance" THEN flat.parts ELSE flat.models
            IN Entry(things, FlattenSeq(s.path) \o target.owner)
                 .parameters[target.parameter].value = s.values[name]

\* The flat circuit is the hierarchy's, its nets and its parameters.
FlatCircuitIsTrue == FlatConnectivity /\ ParametersReachParts

\* A library found valid is refused once flat only for a second ground, or for
\* a rail on a net that its scope shares with another.
RefusedForCause ==
  status = "InvalidFlattenedCircuit" /\ PlainNames =>
    LET h == Hierarchy
    IN \/ Cardinality(GroundOwners(h)) > 1
       \/ \E s \in h : \E rail \in Elements(s.circuit.rails) :
            s.owner[rail.net] # [key |-> NoKey, path |-> s.path, net |-> rail.net]

\* The rules see the hierarchy: a net is reported for two drivers, and a supply
\* for its number of sources, exactly if so many pins, ports or regulators of
\* any scopes are on it.  (Scopes of one definition count as one regulator.)
SourcesAreCounted ==
  status = "Checked" /\ PlainNames /\ OneRootNetPerKey =>
    LET h == Hierarchy
    IN \A s \in h : \A net \in DOMAIN s.owner :
         LET owner == s.owner[net]
             onFlat == ScopeMap(s.path)[net]
             driven == [rule |-> "MultiplePushPullDrivers", net |-> onFlat]
             physical == Cardinality(OwnedPins(h, owner, {"PowerOutput"}))
                           + Cardinality(SupplyPorts(h, owner))
             outputs == Cardinality(RegulatorOutputs(h, owner))
             supply == \E n \in Elements(intent.nets) :
                          /\ n.circuit = s.circuit.id /\ n.net = net
                          /\ n.kind = "PowerSupply"
         IN /\ driven \in findings.electrical
                 <=> Cardinality(OwnedPins(h, owner, PushPull)) > 1
            /\ supply /\ (physical > 0 \/ outputs <= 1) =>
                 (onFlat \in findings.supplies
                    <=> (IF physical > 0 THEN physical ELSE outputs) # 1)

\* What is found wrong of a flat circuit is wrong with the hierarchy.
FindingsAreTrue == RefusedForCause /\ SourcesAreCounted

\* `flatten_with_intent` is documented to join the nets declared with one
\* global key.
GlobalsAreJoined ==
  Elaborated =>
    \A s, t \in Hierarchy :
       \A p \in Elements(s.circuit.parts), q \in Elements(t.circuit.parts) :
          \A i \in DOMAIN p.pins, j \in DOMAIN q.pins :
             LET key == KeyOf(s.circuit.id, p.pins[i].net)
             IN key # NoKey /\ key = KeyOf(t.circuit.id, q.pins[j].net) =>
                  FlatPart(s, p).pins[i].net = FlatPart(t, q).pins[j].net
=============================================================================
