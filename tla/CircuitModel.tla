----------------------------- MODULE CircuitModel -----------------------------
(***************************************************************************)
(* One circuit definition (src/model.rs) and the structural problems       *)
(* `Circuit::validate` reports of it.                                      *)
(*                                                                         *)
(* An identifier is the sequence of its parts between "/" characters, so   *)
(* that joining two identifiers with "/" is concatenation.  A list whose   *)
(* entries are looked up by name, and refused when a name repeats, is a    *)
(* function from names (module parameters, overrides, port types).  Buses, *)
(* stamps, source stimuli and transistor terminals are not modelled; they  *)
(* are renamed with the scope they are in and connect nothing.             *)
(***************************************************************************)
EXTENDS Integers, Sequences, SequencesExt

NoCircuit ==
  [nets |-> << >>, rails |-> << >>, ports |-> << >>, types |-> << >>,
   models |-> << >>, parts |-> << >>, subcircuits |-> << >>, parameters |-> << >>]

Elements(list) == {list[i] : i \in DOMAIN list}
Ids(list) == [i \in DOMAIN list |-> list[i].id]
Names(list) == {entry.id : entry \in Elements(list)}
Entry(list, id) == list[SelectInSeq(list, LAMBDA entry : entry.id = id)]
Repeats(list) == Cardinality(Names(list)) # Len(list)

\* What a list holds more than once.
Duplicates(list) ==
  {x \in Elements(list) : Cardinality({i \in DOMAIN list : list[i] = x}) > 1}

\* An issue is its kind and its subject, the names it carries.
Reported(problems) ==
  UNION {{<<kind, subject>> : subject \in problems[kind]} : kind \in DOMAIN problems}
Each(names) == {<<name>> : name \in names}

\* The kinds of problem that hold of a thing, when nobody asks for more.
Found(problems) == {kind \in DOMAIN problems : problems[kind]}

-----------------------------------------------------------------------------
DefaultSignal == "Real"
SignalType(c, port) ==
  IF port \in DOMAIN c.types THEN c.types[port] ELSE DefaultSignal

Grounds(c) == {i \in DOMAIN c.nets : c.nets[i].ground}

NetProblems(c) ==
  [DuplicateNet |-> Each(Duplicates(Ids(c.nets))),
   MultipleGroundNets |-> IF Cardinality(Grounds(c)) > 1 THEN {<< >>} ELSE {}]

\* The first net marked as ground is the reference of every rail.
IsGround(c, net) ==
  \E first \in Grounds(c) : /\ c.nets[first].id = net
                            /\ \A i \in Grounds(c) : first <= i

RailProblems(c) ==
  LET nets == [i \in DOMAIN c.rails |-> c.rails[i].net]
  IN [DuplicateRailIntent |-> Each(Duplicates(nets)),
      UnknownRailNet |-> Each(Elements(nets) \ Names(c.nets)),
      GroundRailMismatch |->
        {<<r.net>> : r \in {rail \in Elements(c.rails) :
                              (rail.kind = "Ground") # IsGround(c, rail.net)}}]

\* Ports of a net are held to the type of the first.
PortProblems(c) ==
  LET ports == Elements(c.ports)
      first(net) == c.ports[SelectInSeq(c.ports, LAMBDA p : p.net = net)]
  IN [DuplicatePort |-> Each(Duplicates(Ids(c.ports))),
      UnknownPortNet |->
        {<<p.id, p.net>> : p \in {q \in ports : q.net \notin Names(c.nets)}},
      UnknownPortTypeDeclaration |-> Each(DOMAIN c.types \ Names(c.ports)),
      IncompatiblePortSignalTypes |->
        {<<p.net, SignalType(c, p.id)>> :
           p \in {q \in ports : SignalType(c, q.id) # SignalType(c, first(q.net).id)}}]

HasModel(c, part) == part.model \in Names(c.models)
PinsOf(c, part) == Elements(Entry(c.models, part.model).pins)
BoundPins(part) == {binding.pin : binding \in Elements(part.pins)}

\* Of a binding each of these is asked: its pin, its net, its device model.
BindingProblems(c) ==
  LET all == UNION {{[part |-> part, pin |-> b.pin, net |-> b.net] : b \in Elements(part.pins)} :
                      part \in Elements(c.parts)}
      strange == {b \in all : /\ HasModel(c, b.part)
                              /\ b.pin \notin {pin.pin : pin \in PinsOf(c, b.part)}}
  IN [UnknownInstanceNet |->
        {<<b.part.id, b.pin, b.net>> : b \in {d \in all : d.net \notin Names(c.nets)}},
      UnknownInstancePin |-> {<<b.part.id, b.pin>> : b \in strange}]

ModelProblems(c) ==
  [DuplicateDeviceModel |-> Each(Duplicates(Ids(c.models))),
   DuplicateDeviceModelPin |->
     UNION {{<<model.id, pin>> : pin \in Duplicates([i \in DOMAIN model.pins |-> model.pins[i].pin])} :
              model \in Elements(c.models)}]

PartProblems(c) ==
  LET parts == Elements(c.parts)
      missing(part) == {pin \in PinsOf(c, part) : /\ ~pin.optional
                                                  /\ pin.pin \notin BoundPins(part)}
  IN [DuplicateInstance |-> Each(Duplicates(Ids(c.parts))),
      UnknownInstanceModel |-> {<<p.id, p.model>> : p \in {q \in parts : ~HasModel(c, q)}},
      DuplicateInstancePin |->
        UNION {{<<p.id, pin>> : pin \in Duplicates([i \in DOMAIN p.pins |-> p.pins[i].pin])} :
                 p \in parts},
      MissingRequiredInstancePin |->
        UNION {{<<p.id, pin.pin>> : pin \in missing(p)} :
                 p \in {q \in parts : HasModel(c, q)}}]

SubcircuitProblems(c) ==
  LET subs == Elements(c.subcircuits)
      netsOf(sub) == {binding.net : binding \in Elements(sub.ports)}
  IN [DuplicateSubcircuitInstance |-> Each(Duplicates(Ids(c.subcircuits))),
      UnknownSubcircuitParentNet |->
        UNION {{<<sub.id, net>> : net \in netsOf(sub) \ Names(c.nets)} : sub \in subs},
      DuplicateSubcircuitPortBinding |->
        UNION {{<<sub.id, port>> : port \in Duplicates([i \in DOMAIN sub.ports |-> sub.ports[i].port])} :
                 sub \in subs}]

\* What a module parameter may set: a parameter of a part, of a device model
\* or of a subcircuit.  The last is looked up in the library, not here.
Settable(c, target) ==
  IF target.kind = "Subcircuit"
  THEN target.owner \in Names(c.subcircuits)
  ELSE LET owners == IF target.kind = "Instance" THEN c.parts ELSE c.models
       IN /\ target.owner \in Names(owners)
          /\ target.parameter \in DOMAIN Entry(owners, target.owner).parameters

UnitOf(c, target) ==
  Entry(IF target.kind = "Instance" THEN c.parts ELSE c.models,
        target.owner).parameters[target.parameter].unit

ParameterProblems(c) ==
  LET names == DOMAIN c.parameters
      aims == {<<name, target>> : name \in names,
                                  target \in UNION {c.parameters[n].targets : n \in names}}
      set == {aim \in aims : aim[2] \in c.parameters[aim[1]].targets}
      known == {aim \in set : Settable(c, aim[2])}
  IN [InvalidModuleParameter |-> Each({name \in names : c.parameters[name].targets = {}}),
      DuplicateModuleParameterTarget |->
        {<<aim[2]>> : aim \in {a \in set : \E b \in set : a[1] # b[1] /\ a[2] = b[2]}},
      UnknownModuleParameterTarget |-> set \ known,
      ModuleParameterUnitMismatch |->
        {aim \in known : /\ aim[2].kind # "Subcircuit"
                         /\ UnitOf(c, aim[2]) # c.parameters[aim[1]].unit}]

CircuitIssues(c) ==
  UNION {Reported(NetProblems(c)), Reported(RailProblems(c)), Reported(PortProblems(c)),
         Reported(ModelProblems(c)), Reported(PartProblems(c)), Reported(BindingProblems(c)),
         Reported(SubcircuitProblems(c)), Reported(ParameterProblems(c))}
=============================================================================
