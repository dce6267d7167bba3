--------------------------- MODULE ChecksConstraints ---------------------------
(***************************************************************************)
(* checkDeclaredConstraintSemanticsEnforced of the conformance suite: the  *)
(* constraint kinds a Definition may declare, driven through synthetic     *)
(* Forms that declare one each                                             *)
(* (runner_constraint_semantics_checks.go).                                *)
(***************************************************************************)
EXTENDS ConformanceCorpus

NodeKind == "ConstraintNode"
To(ptr, node) == <<Ref(ptr, NodeKind, "constraint-node-" \o node)>>
NodeNamed(x) == Desired(NodeKind, "constraint-node-" \o x, <<>>)
LinkedTo(x, next) == Binding(NodeNamed(x), To("/next", next))
Pair(kind, name, left, right) ==
  Desired(kind, "constraint-" \o name, To("/left", left) \o To("/right", right))
MemberNamed(x, node) == Desired("ConstraintMember", "constraint-member-" \o x, To("/through", node))
SameTarget(name, anchor, members) ==
  Desired("SameTargetHolder", "constraint-same-" \o name,
          To("/anchor", anchor)
            \o [i \in DOMAIN members |-> Item("/members/*", i, "ConstraintMember", "constraint-member-" \o members[i])])

Invalid(do, d) == Send(do, d, "invalid_argument", <<>>)

\* orderedPair and uniqueBy, which read the desired document alone
StructuralConstraints ==
  LET Structural(x) == Desired("StructuralConstraintHolder", "constraint-structural-" \o x, <<>>)
      Offends(x) == LET d == Judged(Structural(x), "diagnosed") IN Invalid("validate", d) \o Invalid("prepare", d)
  IN  Create(NodeNamed("a")) \o Create(NodeNamed("b"))
        \o Offends("descending") \o Offends("duplicate") \o Create(Structural("valid"))

DistinctPairConstraint ==
  LET same == Pair("DistinctPairHolder", "distinct-same", "a", "a")
  IN  Send("prepare", Desired("DistinctPairHolder", "constraint-distinct-missing", To("/left", "a")), OK, <<>>)
        \o Invalid("validate", same) \o Invalid("prepare", same)
        \o Send("import", same, "invalid_argument", [fence |-> "create", native |-> "native-constraint-distinct-same"])

UniquePairConstraint ==
  LET Of(name, left, right) == Pair("UniquePairHolder", "unique-" \o name, left, right)
      one == Of("one", "a", "b")
      duplicate == Of("duplicate", "a", "b")
  IN  Create(one) \o Invalid("prepare", duplicate)
        \o Discard(one) \o Create(duplicate)
        \o Create(Of("reversed", "b", "a"))
        \o Create(Pair("UniquePairHolderDefinition2", "unique-other-form", "a", "b"))
        \o Create(As(NodeNamed("a"), Bob)) \o Create(As(NodeNamed("b"), Bob))
        \o Create(As(Of("other-tenant", "a", "b"), Bob))

\* Two reviews and two accepted creates of one pair: one commits.
UniquePairRace ==
  LET first  == Pair("UniquePairHolder", "unique-race-one", "c", "d")
      second == Pair("UniquePairHolder", "unique-race-two", "c", "d")
      Accept(d, review) ==
        Send("apply", d, "accepted", [fence |-> "create", review |-> review, probe |-> "async", note |-> review])
  IN  Create(NodeNamed("c")) \o Create(NodeNamed("d"))
        \o Send("prepare", first, OK, [note |-> "one"]) \o Send("prepare", second, OK, [note |-> "two"])
        \o Accept(first, "one") \o Accept(second, "two")
        \o Awaited(first, "one", OK)
        \o Awaited(second, "two", "invalid_argument") \o Gone(second)

AcyclicConstraint ==
  Send("apply", LinkedTo("b", "a"), OK, [fence |-> "first"])
    \o Invalid("prepare", LinkedTo("a", "b"))
    \o Invalid("validate", LinkedTo("a", "a"))

AcyclicRace ==
  Create(NodeNamed("e")) \o Create(NodeNamed("f"))
    \o Send("prepare", LinkedTo("e", "f"), OK, [fence |-> "first", note |-> "link"])
    \o Send("apply", LinkedTo("e", "f"), "accepted",
            [fence |-> "first", review |-> "link", probe |-> "async", note |-> "link"])
    \o Send("apply", LinkedTo("f", "e"), OK, [fence |-> "first"])
    \o Awaited(NodeNamed("e"), "link", "invalid_argument")

\* A stored edge pins an incarnation: it does not follow the name to another.
AcyclicDrift ==
  CreateNoted(NodeNamed("g"), "lost") \o Create(LinkedTo("h", "g"))
    \o LoseExternally(NodeNamed("g"))
    \o Send("apply", NodeNamed("g"), OK, [fence |-> "create", as |-> "lost", moved |-> {"uid"}])
    \o Invalid("prepare", LinkedTo("i", "h"))

SameTargetConstraint ==
  LET invalid == SameTarget("invalid", "b", <<"one", "two">>)
  IN  Create(MemberNamed("one", "a")) \o Create(MemberNamed("two", "a"))
        \o Create(SameTarget("valid", "a", <<"one", "two">>))
        \o Invalid("validate", invalid) \o Invalid("prepare", invalid)

SameTargetDrift ==
  ReadNoted(NodeNamed("a"), "lost")
    \o LoseExternally(NodeNamed("a"))
    \o Send("apply", NodeNamed("a"), OK, [fence |-> "create", as |-> "lost", moved |-> {"uid"}])
    \o Invalid("prepare", SameTarget("drift", "a", <<"one">>))
    \o Create(Pair("UniquePairHolder", "unique-replacement-pair", "a", "b"))

CheckDeclaredConstraintSemanticsEnforced ==
  StructuralConstraints \o DistinctPairConstraint \o UniquePairConstraint \o UniquePairRace
    \o AcyclicConstraint \o AcyclicRace \o AcyclicDrift \o SameTargetConstraint \o SameTargetDrift
=============================================================================
