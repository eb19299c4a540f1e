---------------------------- MODULE MCExpressions ----------------------------
(***************************************************************************)
(* A behaviour is one of one program of Expressions.                       *)
(***************************************************************************)
EXTENDS Expressions

VARIABLE program

visitorVars == <<parameterToValue, visited>>

(* Names over three letters and a sample of each shape of expression: the  *)
(* comparisons, and what a user may write around and instead of them.      *)
A  == <<1>>
AB == <<1, 2>>
BA == <<2, 1>>
C  == <<3>>
True == <<9>>

Person(f, l) == [FirstName |-> f, LastName |-> l]
MCEntities == {Person(AB, C), Person(BA, AB), Person(<<1, 2, 1>>, BA)}

Const(s) == [node |-> "Constant", value |-> {s}]
Null     == [node |-> "Constant", value |-> {}]
Member(f) == [node |-> "MemberAccess", name |-> f]
FirstName == Member("FirstName")
LastName == Member("LastName")
Captured == Member("captured")

Call(m, o, a)  == [node |-> "Call", method |-> m, object |-> o, argument |-> a]
Binary(o, l, r) == [node |-> "Binary", op |-> o, left |-> l, right |-> r]
And(l, r) == Binary("AndAlso", l, r)
Where(s, p) == [node |-> "Where", source |-> s, predicate |-> p]
Root == Const(<<8>>)

Plain == {Call("StartsWith", FirstName, Const(A)), Call("EndsWith", FirstName, Const(A)),
          Call("Contains", LastName, Const(BA)), Call("Contains", FirstName, Const(<< >>)),
          Binary("Equal", FirstName, Const(AB)), Binary("Equal", Const(C), LastName)}

Odd == {Call("ToUpper", FirstName, Const(A)), Call("Contains", FirstName, Null),
        Call("Contains", FirstName, Captured), Call("Contains", Const(AB), LastName),
        Binary("Equal", FirstName, Null), Binary("Equal", FirstName, Captured),
        Binary("Equal", FirstName, LastName),
        Binary("OrElse", Call("StartsWith", FirstName, Const(A)),
                         Call("StartsWith", LastName, Const(A))),
        [node |-> "Not", operand |-> Call("StartsWith", FirstName, Const(A))],
        Const(True), And(Call("EndsWith", LastName, Const(A)), Const(True))}

StartsA == Call("StartsWith", FirstName, Const(A))

MCExprs ==
  {Where(Root, p) : p \in Plain \cup Odd} \cup {Root}
  \cup {Where(Root, And(p, q)) : p \in {StartsA}, q \in Plain}
  \cup {Where(Root, And(StartsA, And(Call("EndsWith", FirstName, Const(A)), p))) :
          p \in {Call("Contains", LastName, Captured), Call("Contains", LastName, Const(BA))}}
  \cup {Where(Root, And(Call("Contains", LastName, Const(<<3, 3>>)),
                        Call("Contains", LastName, Captured)))}
  \cup {Where(Where(Root, StartsA), p) : p \in Plain}

\* The nodes of these trees, and their heights.
RECURSIVE Under(_), HeightOf(_)

Under(n) == {n} \cup UNION {Under(m) : m \in Children(n)}
HeightOf(n) == FoldSet(LAMBDA m, h : IF HeightOf(m) < h THEN h ELSE HeightOf(m) + 1,
                       0, Children(n))

MCNodes == UNION {Under(exp) : exp \in MCExprs}
MCHeight == [n \in MCNodes |-> HeightOf(n)]
-----------------------------------------------------------------------------
(* Trees of two and three levels over an int and a long parameter and small*)
(* constants of both types.                                                *)
Typed(type, v) == [node |-> "Constant", type |-> type, value |-> v]
X == [node |-> "Parameter", type |-> "int", name |-> "x"]
L == [node |-> "Parameter", type |-> "long", name |-> "l"]
ToLong(n) == [node |-> "Unary", op |-> "Convert", operand |-> n]

Leaves == {X, Typed("int", 1), Typed("int", 2)}
Ops == {"Add", "Subtract", "Multiply", "AddChecked"}
Over(O, S, T) == {Binary(o, l, r) : o \in O, l \in S, r \in T}

Pairs == Over(Ops, Leaves, Leaves)
Longs == {L, Typed("long", 1), ToLong(X), ToLong(Binary("Add", X, Typed("int", 1)))}
MCTrees == Pairs \cup Over({"Add", "AddChecked"}, Pairs, Leaves)
           \cup Over({"Subtract", "Multiply"}, Leaves, Pairs)
           \cup Over(Ops, Longs, Longs)

MCHalf == [type \in {"int", "long"} |-> IF type = "int" THEN 4 ELSE 32]
-----------------------------------------------------------------------------
ExpressionsInit == QueriesInit /\ Rewriter!Init

(* What a visit makes of a tree depends on no visit before it.             *)
OneVisit == visited # Rewriter!NotVisited => UNCHANGED visited

ExpressionsNext ==
  \/ program = "queries" /\ QueriesNext /\ UNCHANGED visitorVars
  \/ program = "visitor" /\ Rewriter!Next /\ OneVisit /\ UNCHANGED queryVars

ExpressionsSpec ==
  /\ program \in {"queries", "visitor"} /\ ExpressionsInit
  /\ [][UNCHANGED program /\ ExpressionsNext]_<<program, queryVars, visitorVars>>
=============================================================================
