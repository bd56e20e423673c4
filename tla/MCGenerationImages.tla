------------------------ MODULE MCGenerationImages ------------------------
EXTENDS GenerationImages

Whole(n) == [begin |-> 0, count |-> n]
At(b, n) == [begin |-> b, count |-> n]

Declaration(id, kind, definition, items) ==
  [identity |-> id, kind |-> kind, record_kind |-> "struct", scoped |-> FALSE,
   underlying |-> "none", definition |-> definition, items |-> items, bases |-> FALSE]

Struct(id, items) == Declaration(id, "record", TRUE, items)
Forward(id) == Declaration(id, "record", FALSE, Whole(0))
Enum(id, items) == Declaration(id, "enumeration", TRUE, items)

IntOf(m) == [identity |-> NoIdentity, intrinsic |-> "int", modifiers |-> m]
Of(id, m) == [identity |-> id, intrinsic |-> "none", modifiers |-> m]
Member(n, t) == [name |-> n, type |-> t]
End(o, k) == [object |-> o, member |-> k]
NoFacts == [a \in Arenas |-> <<>>]

\* struct A { int x; };
JustA == [NoFacts EXCEPT !["types"] = <<Struct("A", Whole(1))>>,
                         !["members"] = <<Member("x", IntOf(Whole(0)))>>]
\* struct A { int* y; int x; };
WideA == [NoFacts EXCEPT !["types"] = <<Struct("A", Whole(2))>>,
            !["members"] = <<Member("y", IntOf(At(0, 1))), Member("x", IntOf(Whole(0)))>>,
            !["modifiers"] = <<"pointer">>]
\* struct A { int x; int* y; };
TurnedA == [WideA EXCEPT
  !["members"] = <<Member("x", IntOf(Whole(0))), Member("y", IntOf(At(0, 1)))>>]
\* A a;
ObjectA == [NoFacts EXCEPT !["objects"] = <<[identity |-> "a", type |-> Of("A", At(0, 0))]>>]
\* A a; A b; link a.0 -> b.1
LinkAB == [NoFacts EXCEPT
            !["objects"] = <<[identity |-> "a", type |-> Of("A", At(0, 0))],
                             [identity |-> "b", type |-> Of("A", At(0, 0))]>>,
            !["links"] = <<[source |-> End("a", 0), target |-> End("b", 1)]>>]
\* enum E { v };
EnumE == [NoFacts EXCEPT !["types"] = <<Enum("E", Whole(1))>>,
                         !["enum_values"] = <<[name |-> "v", value |-> 3]>>]

\* enum M { w };
EnumM == [NoFacts EXCEPT !["types"] = <<Enum("M", Whole(1))>>,
                         !["enum_values"] = <<[name |-> "w", value |-> 0]>>]

MCTextFacts ==
  ("a1" :> JustA @@ "a2" :> WideA @@ "a3" :> TurnedA @@ "m1" :> ObjectA @@ "m2" :> LinkAB
   @@ "m3" :> EnumM @@ "m4" :> LinkAB @@ "e1" :> EnumE @@ "e2" :> NoFacts)

\* main includes a (twice, in two spellings) or e; a may include e, and e a.
MCTextIncludes ==
  ("a1" :> <<>> @@ "a2" :> <<"e.h">> @@ "a3" :> <<>> @@ "m1" :> <<"a.h", "./a.h">>
   @@ "m2" :> <<"e.h", "a.h">> @@ "m3" :> <<"e.h">> @@ "m4" :> <<"e.h">> @@ "e1" :> <<>> @@ "e2" :> <<"a.h">>)

MCNormalize == ("a.h" :> "a" @@ "./a.h" :> "a" @@ "e.h" :> "e")

MCTextLength == ("a1" :> 1 @@ "a2" :> 2 @@ "a3" :> 2 @@ "m1" :> 2 @@ "m2" :> 3 @@ "m3" :> 1 @@ "m4" :> 2
                 @@ "e1" :> 1 @@ "e2" :> 1)

MCPathHash == ("a" :> 1 @@ "e" :> 5 @@ "m" :> 1)
MCPathLength == ("a" :> 1 @@ "e" :> 2 @@ "m" :> 1)

\* main is in a directory of its own; the others share one below it.
MCAncestors == ("m" :> <<21, 20>> @@ "a" :> <<25, 21, 20>> @@ "e" :> <<25, 21, 20>>)

\* A file that is written in place keeps its reference, one that is replaced
\* gets another.
File(t, n, r) == [text |-> t, ticks |-> n, ref |-> r]
Files(m, a, e) == ("m" :> m @@ "a" :> a @@ "e" :> e)

M1 == File("m1", 0, 1)
M1Touched == File("m1", 1, 1)
M2 == File("m2", 2, 1)
M3 == File("m3", 3, 5)
M4 == File("m4", 4, 1)
A1 == File("a1", 0, 2)
A2 == File("a2", 1, 2)
A3 == File("a3", 2, 6)
E1 == File("e1", 0, 3)
E2 == File("e2", 1, 7)

MCDisks ==
  {Files(M1, A1, NoFile), Files(M1Touched, A1, NoFile), Files(M1, A2, E1), Files(M2, A2, E1),
   Files(M2, A2, E2), Files(M3, A1, E1), Files(M3, NoFile, E1),
   Files(M4, A3, E2), Files(M4, A1, E2)}

\* struct A; struct A { int x; }; is legal, and so may a declare it.
MCRedeclaredFacts ==
  [MCTextFacts EXCEPT !["a1"] = [JustA EXCEPT !["types"] = <<Forward("A"), Struct("A", Whole(1))>>]]

\* Every text may be found in every Source.
MCSourceFacts == [s \in {1, 2, 3} |-> {TextFacts[t] : t \in DOMAIN TextFacts}]

MCNameHash == ("A" :> 1 @@ "E" :> 2 @@ "M" :> 6 @@ "a" :> 2 @@ "b" :> 3 @@ "x" :> 1 @@ "y" :> 5
               @@ "v" :> 1 @@ "w" :> 4)
MCNameLength == [n \in DOMAIN MCNameHash |-> 1]
MCRoots == <<"m">>
=============================================================================
