------------------------------ MODULE DesignRules ------------------------------
(***************************************************************************)
(* What an author declares about the nets and blocks of a design           *)
(* (`DesignIntent`, src/intent.rs) and the electrical rules a flat design  *)
(* is checked against (src/erc.rs).                                        *)
(*                                                                         *)
(* Source spans, labels, nominal values and the resolved parts of an       *)
(* intent are not modelled; a net's class stands for its class and value.  *)
(***************************************************************************)
EXTENDS CircuitModel

NoKey == ""      \* the key of a net of local scope

\* Of definitions with one identity the last is the one looked up.
Definition(circuits, id) ==
  LET places == {i \in DOMAIN circuits : circuits[i].id = id}
  IN IF places = {} THEN NoCircuit
     ELSE circuits[CHOOSE i \in places : \A j \in places : j <= i]
Defined(circuits, id) == \E c \in Elements(circuits) : c.id = id

HasNet(circuits, circuit, net) == net \in Names(Definition(circuits, circuit).nets)

NetIntentProblems(intent, circuits) ==
  LET nets == intent.nets
      global(key) == {n \in Elements(nets) : n.key = key}
  IN [DuplicateNetIntent |->
        \E i, j \in DOMAIN nets : /\ i < j
                                  /\ nets[i].circuit = nets[j].circuit
                                  /\ nets[i].net = nets[j].net,
      UnknownIntentCircuit |-> \E n \in Elements(nets) : ~Defined(circuits, n.circuit),
      UnknownIntentNet |->
        \E n \in Elements(nets) : /\ Defined(circuits, n.circuit)
                                  /\ ~HasNet(circuits, n.circuit, n.net),
      GroundKindMismatch |->
        \E n \in Elements(nets) :
           /\ HasNet(circuits, n.circuit, n.net)
           /\ Entry(Definition(circuits, n.circuit).nets, n.net).ground
           /\ n.kind # "Ground",
      ConflictingGlobalNet |->
        \E n \in Elements(nets) : /\ n.key # NoKey
                                  /\ \E other \in global(n.key) :
                                       \/ n.kind # other.kind
                                       \/ n.class # other.class]

TargetExists(circuits, target) ==
  LET c == Definition(circuits, target.circuit)
  IN CASE target.kind = "Circuit" -> Defined(circuits, target.circuit)
       [] target.kind = "Instance" -> target.id \in Names(c.parts)
       [] target.kind = "Subcircuit" -> target.id \in Names(c.subcircuits)

RoleIntentProblems(intent, circuits) ==
  LET roles == intent.roles
  IN [DuplicateRoleTarget |->
        \E i, j \in DOMAIN roles : i < j /\ roles[i].target = roles[j].target,
      UnknownFunctionalTarget |->
        \E role \in Elements(roles) : ~TargetExists(circuits, role.target),
      DuplicateFunctionalBinding |->
        \E role \in Elements(roles) : \E i, j \in DOMAIN role.bindings :
           i < j /\ role.bindings[i].name = role.bindings[j].name,
      UnknownFunctionalBinding |->
        \E role \in Elements(roles) : \E b \in Elements(role.bindings) :
           ~HasNet(circuits, b.circuit, b.net)]

IntentIssues(intent, circuits) ==
  Found(NetIntentProblems(intent, circuits))
    \cup Found(RoleIntentProblems(intent, circuits))

-----------------------------------------------------------------------------
(* Pins and ports on the nets of a flat circuit                            *)

\* Bindings of parts and pins the models know, with the pin's kind.
Endpoints(flat) ==
  UNION {UNION {{[part |-> part.id, pin |-> pin.pin, kind |-> pin.kind,
                  net |-> binding.net] :
                    pin \in {p \in PinsOf(flat, part) : p.pin = binding.pin}} :
                  binding \in Elements(part.pins)} :
           part \in {p \in Elements(flat.parts) : HasModel(flat, p)}}

PinsOn(flat, net, kinds) == {e \in Endpoints(flat) : e.net = net /\ e.kind \in kinds}
PortsOn(flat, net, directions) ==
  {p \in Elements(flat.ports) : p.net = net /\ p.direction \in directions}

PushPull == {"Output", "PowerOutput"}
SignalDrivers == {"Output", "Bidirectional", "OpenCollector", "OpenEmitter"}

Undriven(flat, net) ==
  /\ PinsOn(flat, net, {"Input"}) # {}
  /\ PortsOn(flat, net, {"Input", "Bidirectional"}) = {}
  /\ PinsOn(flat, net, SignalDrivers) = {}

Unpowered(flat, net) ==
  /\ PinsOn(flat, net, {"PowerInput"}) # {}
  /\ ~Entry(flat.nets, net).ground
  /\ PortsOn(flat, net, {"PowerInput", "Ground"}) = {}
  /\ PinsOn(flat, net, {"PowerOutput"}) = {}

\* `electrical_rule_check`: each broken rule with the net that breaks it.
BrokenRules(flat, net) ==
  Found([BoundNotConnectedPin |-> PinsOn(flat, net, {"NotConnected"}) # {},
         MultiplePushPullDrivers |-> Cardinality(PinsOn(flat, net, PushPull)) > 1,
         UndrivenInputs |-> Undriven(flat, net),
         UnpoweredInputs |-> Unpowered(flat, net),
         GroundPortOnSignal |-> /\ ~Entry(flat.nets, net).ground
                                /\ PortsOn(flat, net, {"Ground"}) # {}])

ElectricalIssues(flat) ==
  UNION {{[rule |-> rule, net |-> net] : rule \in BrokenRules(flat, net)} :
           net \in Names(flat.nets)}

-----------------------------------------------------------------------------
(* What a functional block must be connected to                            *)

Canonical(name) ==
  CASE name \in {"in", "vin", "sig_in", "line"} -> "input"
    [] name \in {"out", "vout", "sig_out", "load"} -> "output"
    [] name \in {"ref", "gnd"} -> "reference"
    [] OTHER -> name

Regulators == {"BuckRegulator", "LdoRegulator"}

RequiredBindings(role) ==
  CASE role \in {"LowpassFilter", "HighpassFilter", "BandpassFilter",
                 "VoltageDivider", "CrystalOscillator", "OpAmpStage"} ->
         [input |-> "Signal", output |-> "Signal", reference |-> "Ground"]
    [] role = "EmiFilter" -> [input |-> "Signal", output |-> "Signal"]
    [] role \in Regulators ->
         [input |-> "Supply", output |-> "Supply", reference |-> "Ground"]
    [] role = "DecouplingCapacitor" ->
         [supply |-> "Supply", reference |-> "Ground", target |-> "Supply"]
    [] role = "BulkCapacitor" -> [supply |-> "Supply", reference |-> "Ground"]
    [] role = "CurrentSenseResistor" -> [input |-> "Supply", output |-> "Supply"]
    [] role = "PullupResistor" -> [signal |-> "Signal", supply |-> "Supply"]
    [] role \in {"PulldownResistor", "TerminationResistor"} ->
         [signal |-> "Signal", reference |-> "Ground"]
    [] OTHER -> << >>

Compatible(expected, kind) ==
  CASE expected = "Signal" -> kind \notin {"PowerSupply", "Ground"}
    [] expected = "Supply" -> kind = "PowerSupply"
    [] expected = "Ground" -> kind = "Ground"

\* The first binding of a role that goes by a name or an alias of it; 0: none.
BindingNamed(role, name) ==
  SelectInSeq(role.bindings, LAMBDA b : Canonical(b.name) = name)

KindsOf(intent, binding) ==
  {n.kind : n \in {m \in Elements(intent.nets) :
                     m.circuit = binding.circuit /\ m.net = binding.net}}

RoleIssues(intent) ==
  UNION {LET required == RequiredBindings(role.role)
             bound(name) == BindingNamed(role, name)
         IN {[issue |-> "MissingRoleBinding", of |-> name] :
               name \in {n \in DOMAIN required : bound(n) = 0}}
            \cup
            {[issue |-> "RoleBindingKindMismatch", of |-> name] :
               name \in {n \in DOMAIN required :
                           /\ bound(n) # 0
                           /\ \E kind \in KindsOf(intent, role.bindings[bound(n)]) :
                                ~Compatible(required[n], kind)}} :
           role \in Elements(intent.roles)}

-----------------------------------------------------------------------------
(* Every supply net has exactly one source                                 *)

\* `flattened_nets_for`: the flat nets a declared net became.
FlatNets(root, scopes, circuit, net) ==
  IF circuit = root THEN {net}
  ELSE {scope.nets[net] : scope \in {s \in Elements(scopes) :
                                       /\ s.circuit = circuit
                                       /\ net \in DOMAIN s.nets}}

PinSources(flat, net) ==
  {<<e.part, e.pin>> : e \in PinsOn(flat, net, {"PowerOutput"})}

\* Of a role only the definition that bears it and its kind are kept.
RoleSources(intent, root, scopes, net) ==
  {<<role.target.circuit, role.role>> :
     role \in {r \in Elements(intent.roles) :
                 /\ r.role \in Regulators
                 /\ BindingNamed(r, "output") # 0
                 /\ LET output == r.bindings[BindingNamed(r, "output")]
                    IN net \in FlatNets(root, scopes, output.circuit, output.net)}}

SourceCountOfAll(intent, root, flat, scopes, net) ==
  Cardinality(PinSources(flat, net)) + Cardinality(PortsOn(flat, net, {"PowerInput"}))
    + Cardinality(RoleSources(intent, root, scopes, net))

SourceCount(intent, root, flat, scopes, net) ==
  LET physical == Cardinality(PinSources(flat, net))
                    + Cardinality(PortsOn(flat, net, {"PowerInput"}))
  IN IF physical > 0 THEN physical
     ELSE Cardinality(RoleSources(intent, root, scopes, net))

\* The flat supply nets that have no source, or several.
MissourcedSupplies(intent, root, flat, scopes) ==
  {net \in UNION {FlatNets(root, scopes, n.circuit, n.net) :
                    n \in {m \in Elements(intent.nets) : m.kind = "PowerSupply"}} :
     SourceCount(intent, root, flat, scopes, net) # 1}
=============================================================================
