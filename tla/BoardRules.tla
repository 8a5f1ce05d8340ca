------------------------------- MODULE BoardRules -------------------------------
(***************************************************************************)
(* What `PcbLayout::validate` (src/layout.rs) reports of the rules of a    *)
(* board on top of LayoutRules: via styles, net classes, differential      *)
(* pairs, phase-tuning groups, placement constraints and the pads of land  *)
(* patterns.                                                               *)
(*                                                                         *)
(* A class is declared after its parent, as every caller here does, so     *)
(* that inheritance has no cycles to report.                               *)
(***************************************************************************)
EXTENDS LayoutRules

NoName == ""         \* no parent class, no via style, no pair

StyleIssues(board) ==
  LET misfit(span) == ~(span[1] < span[2] /\ span[1] \in Layers /\ span[2] \in Layers)
  IN [DuplicateViaStyle |-> Each(Duplicates(Ids(board.styles))),
      InvalidViaStyle |->
        {<<s.id>> : s \in {t \in Elements(board.styles) : \E span \in t.spans : misfit(span)}}]

ClassIssues(board) ==
  LET classes == Elements(board.classes)
  IN [UnknownNetClassParent |->
        {<<c.id, c.parent>> : c \in {d \in classes : d.parent \notin Names(board.classes) \cup {NoName}}},
      UnknownNetClassViaStyle |->
        {<<c.id, c.style>> : c \in {d \in classes : d.style \notin Names(board.styles) \cup {NoName}}}]

PairIssues(board, c) ==
  LET misfit(pair) == \/ pair.positive = pair.negative
                      \/ UnknownNets(c, <<pair.positive, pair.negative>>) # {}
  IN [DuplicateDifferentialPair |-> Each(Duplicates(Ids(board.pairs))),
      InvalidDifferentialPair |-> {<<p.id>> : p \in {q \in Elements(board.pairs) : misfit(q)}}]

\* A group tunes one pattern of each of several nets, or the two of a pair.
GroupIssues(board) ==
  LET groups == Elements(board.groups)
      members(group) == SelectSeq(group.tunings, LAMBDA id : id \in Names(board.tunings))
      nets(group) == {Entry(board.tunings, id).net : id \in Elements(members(group))}
      ofPair(group) ==
        /\ group.pair \in Names(board.pairs)
        /\ LET pair == Entry(board.pairs, group.pair)
           IN /\ Len(members(group)) = 2 /\ Cardinality(nets(group)) = 2
              /\ {pair.positive, pair.negative} \subseteq nets(group)
      misaimed(group) ==
        \/ Duplicates(group.tunings) # {}
        \/ Len(members(group)) # Len(group.tunings)
        \/ Cardinality(nets(group)) # Len(group.tunings)
        \/ group.pair # NoName /\ ~ofPair(group)
  IN [DuplicatePhaseTuningGroup |-> Each(Duplicates(Ids(board.groups))),
      InvalidPhaseTuningTarget |-> {<<g.id>> : g \in {h \in groups : misaimed(h)}},
      InvalidPhaseTuningGroup |-> {<<g.id>> : g \in {h \in groups : Len(h.tunings) < 2}}]

\* `placement_anchor_exists`: a pin must be bound, and mapped to a pad.
AnchorExists(board, c, anchor) ==
  /\ anchor.part \in Names(board.placements)
  /\ LET placed == Entry(board.placements, anchor.part)
         pattern == Entry(board.patterns, placed.pattern)
     IN /\ placed.pattern \in Names(board.patterns)
        /\ IF anchor.is = "Pin"
           THEN /\ anchor.part \in Names(c.parts)
                /\ anchor.at \in BoundPins(Entry(c.parts, anchor.part))
                /\ anchor.at \in {map.pin : map \in Elements(pattern.pads)}
           ELSE anchor.at \in Elements(pattern.lands)

\* A fixed or relative constraint drives the first of its parts.
Driven(constraint) ==
  IF constraint.kind \in {"Fixed", "Relative"} THEN {constraint.parts[1]} ELSE {}

ConstraintIssues(board, c) ==
  LET constraints == Elements(board.constraints)
      drivers == SelectSeq(board.constraints, LAMBDA k : Driven(k) # {})
      senseless(k) == \/ k.kind = "Relative" /\ k.parts[1] = k.parts[2]
                      \/ k.kind = "Align" /\ Len(k.parts) < 2
                      \/ \E anchor \in Elements(k.anchors) : ~AnchorExists(board, c, anchor)
  IN [DuplicatePlacementConstraint |-> Each(Duplicates(Ids(board.constraints))),
      UnknownPlacementConstraintInstance |->
        UNION {{<<k.id, part>> : part \in Elements(k.parts) \ Names(board.placements)} :
                 k \in constraints},
      MultiplePlacementDrivers |->
        Each(Duplicates([i \in DOMAIN drivers |-> drivers[i].parts[1]])),
      InvalidPlacementConstraint |-> {<<k.id>> : k \in {l \in constraints : senseless(l)}}]

PatternIssues(board) ==
  LET patterns == Elements(board.patterns)
  IN [DuplicatePad |->
        UNION {{<<p.id, pad>> : pad \in Duplicates(p.lands)} : p \in patterns},
      UnknownMappedPad |->
        UNION {{<<p.id, m.pad>> : m \in {n \in Elements(p.pads) : n.pad \notin Elements(p.lands)}} :
                 p \in patterns},
      DuplicatePinPadMapping |->
        UNION {{<<p.id, m.pin, m.pad>> : m \in Duplicates(p.pads)} : p \in patterns}]

BoardIssues(board, c) ==
  UNION {LayoutIssues(board, c), Reported(StyleIssues(board)), Reported(ClassIssues(board)),
         Reported(PairIssues(board, c)), Reported(GroupIssues(board)),
         Reported(ConstraintIssues(board, c)), Reported(PatternIssues(board))}
=============================================================================
