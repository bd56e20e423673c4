------------------------ MODULE MCBuildOrchestrator ------------------------
(* Two Sources that declare, define, redefine and move two records and an  *)
(* enumeration, own two objects and link them.                             *)
EXTENDS BuildOrchestrator

Whole(n) == [begin |-> 0, count |-> n]
At(b, n) == [begin |-> b, count |-> n]

Declaration(id, kind, record_kind, definition, items) ==
  [identity |-> id, kind |-> kind, record_kind |-> record_kind, scoped |-> FALSE,
   underlying |-> "none", definition |-> definition, items |-> items, bases |-> FALSE]

Struct(id, items) == Declaration(id, "record", "struct", TRUE, items)
Forward(id) == Declaration(id, "record", "struct", FALSE, Whole(0))
Enum(id, items) == Declaration(id, "enumeration", "struct", TRUE, items)

IntOf(m) == [identity |-> NoIdentity, intrinsic |-> "int", modifiers |-> m]
Of(id, m) == [identity |-> id, intrinsic |-> "none", modifiers |-> m]
Member(n, t) == [name |-> n, type |-> t]
End(o, k) == [object |-> o, member |-> k]

NoFacts == [a \in Arenas |-> <<>>]

\* struct A { int x; };
JustA == [NoFacts EXCEPT !["types"] = <<Struct("A", Whole(1))>>,
                         !["members"] = <<Member("x", IntOf(Whole(0)))>>]
\* struct A { int x; int* y; }; A a; link a.x -> a.y
LinkedA == [NoFacts EXCEPT !["types"] = <<Struct("A", Whole(2))>>,
              !["members"] = <<Member("x", IntOf(Whole(0))), Member("y", IntOf(At(0, 1)))>>,
              !["modifiers"] = <<"pointer">>,
              !["objects"] = <<[identity |-> "a", type |-> Of("A", At(0, 0))]>>,
              !["links"] = <<[source |-> End("a", 0), target |-> End("a", 1)]>>]
\* struct A;
ForwardA == [NoFacts EXCEPT !["types"] = <<Forward("A")>>]
\* struct A { int x; }; struct B { A* p; };
BothRecords == [NoFacts EXCEPT !["types"] = <<Struct("A", Whole(1)), Struct("B", At(1, 1))>>,
              !["members"] = <<Member("x", IntOf(Whole(0))), Member("p", Of("A", At(0, 1)))>>,
              !["modifiers"] = <<"pointer">>]
\* struct A; struct C { A& p; A& q; }; C c;
UserC == [NoFacts EXCEPT !["types"] = <<Forward("A"), Struct("C", Whole(2))>>,
              !["members"] = <<Member("p", Of("A", At(0, 1))), Member("q", Of("A", At(1, 1)))>>,
              !["modifiers"] = <<"reference", "reference">>,
              !["objects"] = <<[identity |-> "c", type |-> Of("C", At(2, 0))]>>]
\* struct B { int x; };
JustB == [NoFacts EXCEPT !["types"] = <<Struct("B", Whole(1))>>,
                         !["members"] = <<Member("x", IntOf(Whole(0)))>>]
\* B b; link b.0 -> a.1
LinkFromB == [NoFacts EXCEPT !["types"] = <<Struct("B", Whole(1))>>,
              !["members"] = <<Member("p", Of("A", At(0, 0)))>>,
              !["objects"] = <<[identity |-> "b", type |-> Of("B", At(0, 0))]>>,
              !["links"] = <<[source |-> End("b", 0), target |-> End("a", 1)]>>]
\* enum A { v };
EnumA == [NoFacts EXCEPT !["types"] = <<Enum("A", Whole(1))>>,
                         !["enum_values"] = <<[name |-> "v", value |-> 3]>>]

\* enum A : int;
OpaqueA == [NoFacts EXCEPT !["types"] =
              <<[Enum("A", Whole(0)) EXCEPT !.definition = FALSE, !.underlying = "int"]>>]
\* union A;
UnionA == [NoFacts EXCEPT !["types"] = <<[Forward("A") EXCEPT !.record_kind = "union"]>>]

MCSourceFacts == [s \in {1, 2} |->
  IF s = 1 THEN {JustA, LinkedA, BothRecords, EnumA, JustB}
  ELSE {ForwardA, JustA, UserC, LinkFromB, OpaqueA, UnionA}]
============================================================================
