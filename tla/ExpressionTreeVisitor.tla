------------------------ MODULE ExpressionTreeVisitor ------------------------
(***************************************************************************)
(* "Expression and IQueryable"/ExpressionTreeVisitor: a visitor that turns *)
(* <variable> + 1 and <variable> - 1 into Increment and Decrement and, in  *)
(* them, puts the values of its dictionary in place of parameters.  The    *)
(* dictionary belongs to the program, which changes it between visits.     *)
(*                                                                         *)
(* int has 2 * Half["int"] values and long 2 * Half["long"].  A tree is    *)
(* well-typed, and its parameters have different names.                    *)
(***************************************************************************)
EXTENDS Integers, Sequences

CONSTANTS Trees,   \* bodies of lambdas the program visits
          Depth,   \* of the deepest of them
          Names,   \* of their int parameters
          LongNames,  \* of their long parameters
          Values,  \* that it puts into the dictionary
          Half     \* half of the number of values of a type

Types == {"int", "long"}

Leaves == [node : {"Parameter"}, type : {"int"}, name : Names]
          \cup [node : {"Parameter"}, type : {"long"}, name : LongNames]
          \cup [node : {"Constant"}, type : Types, value : Int]

(* The trees of at most k levels of operators.                             *)
Level[k \in 0..Depth] ==
  IF k = 0 THEN Leaves
  ELSE LET below == Level[k - 1]
       IN [node : {"Binary"}, op : {"Add", "Subtract", "Multiply", "AddChecked"},
           left : below, right : below]
          \cup [node : {"Unary"}, op : {"Increment", "Decrement", "Convert"},
                operand : below]
          \cup below

AllTrees == Level[Depth]

\* Of the constants; an instance assumes it.
TreesAssumption ==
  /\ Depth \in Nat /\ Trees \subseteq AllTrees
  /\ Half \in [Types -> Nat \ {0}]
  /\ Values \subseteq -Half["int"] .. Half["int"] - 1

VARIABLES
  parameterToValue,  \* _parameterToValue: the value of each name, if any, as a set
  visited            \* the last visit: its tree, its result and the dictionary

vars == <<parameterToValue, visited>>

NotVisited == [tree |-> "none"]

Parameter(type, name)  == [node |-> "Parameter", type |-> type, name |-> name]
Constant(type, value)  == [node |-> "Constant", type |-> type, value |-> value]
Binary(op, l, r)       == [node |-> "Binary", op |-> op, left |-> l, right |-> r]
Unary(op, x)           == [node |-> "Unary", op |-> op, operand |-> x]
-----------------------------------------------------------------------------
(* Replace: a parameter whose name has a value becomes a constant.         *)
Replace(given, p) ==
  IF given[p.name] = {} THEN p
  ELSE Constant("int", CHOOSE v \in given[p.name] : TRUE)

IsOne(n) == n.node = "Constant" /\ n.type = "int" /\ n.value = 1
IsIntVariable(n) == n.node = "Parameter" /\ n.type = "int"

\* Mutant: the operands may come in either order.
EitherOrder(left, right) ==
  \/ IsOne(right) /\ IsIntVariable(left)
  \/ IsOne(left) /\ IsIntVariable(right)

TryGetVariable(left, right) == IsOne(right) /\ IsIntVariable(left)

(* VisitBinary, and base.VisitBinary, which visits both operands.          *)
VisitBinary(visit, given, n) ==
  IF TryGetVariable(n.left, n.right) /\ n.op \in {"Add", "Subtract"}
  THEN Unary(IF n.op = "Add" THEN "Increment" ELSE "Decrement",
             Replace(given, IF IsIntVariable(n.left) THEN n.left ELSE n.right))
  ELSE Binary(n.op, visit[n.left], visit[n.right])

(* What is not overridden visits its operand.                              *)
VisitNode(visit, given, n) ==
  CASE n.node = "Binary" -> VisitBinary(visit, given, n)
    [] n.node = "Unary"  -> Unary(n.op, visit[n.operand])
    [] OTHER             -> n

(* Every tree, visited with a dictionary.                                  *)
Visit(given) == LET visit[n \in AllTrees] == VisitNode(visit, given, n)
                IN visit
-----------------------------------------------------------------------------
Init == /\ parameterToValue = [n \in Names |-> {}]
        /\ visited = NotVisited

(* Main: visitor.Visit, and dictionary[name] = value.                      *)
VisitTree(t) ==
  /\ visited' = [tree |-> t, result |-> Visit(parameterToValue)[t],
                 given |-> parameterToValue]
  /\ UNCHANGED parameterToValue

Assign(n, v) == /\ parameterToValue' = [parameterToValue EXCEPT ![n] = {v}]
                /\ UNCHANGED visited

Next == \/ \E t \in Trees : VisitTree(t)
        \/ \E n \in Names, v \in Values : Assign(n, v)

Spec == Init /\ [][Next]_vars
-----------------------------------------------------------------------------
(* What a tree computes for an environment of its parameters: unchecked    *)
(* operators wrap around, AddChecked throws.                               *)
Type[n \in AllTrees] ==
  CASE n.node = "Binary"                     -> Type[n.left]
    [] n.node = "Unary" /\ n.op = "Convert"  -> "long"
    [] n.node = "Unary" /\ n.op # "Convert"  -> Type[n.operand]
    [] OTHER                                 -> n.type

Wrap(type, x) == ((x + Half[type]) % (2 * Half[type])) - Half[type]

\* Results are singletons, and empty after an exception.
Apply(op, type, x, y) ==
  CASE op = "Add"        -> {Wrap(type, x + y)}
    [] op = "Subtract"   -> {Wrap(type, x - y)}
    [] op = "Multiply"   -> {Wrap(type, x * y)}
    [] op = "AddChecked" -> {Wrap(type, x + y)} \cap {x + y}
    [] op = "Increment"  -> {Wrap(type, x + 1)}
    [] op = "Decrement"  -> {Wrap(type, x - 1)}
    [] op = "Convert"    -> {x}

EvalNode(eval, env, n) ==
  CASE n.node = "Parameter" -> {env[n.name]}
    [] n.node = "Constant"  -> {n.value}
    [] n.node = "Unary"     ->
         UNION {Apply(n.op, Type[n], x, 0) : x \in eval[n.operand]}
    [] n.node = "Binary"    ->
         UNION {Apply(n.op, Type[n], x, y) : x \in eval[n.left], y \in eval[n.right]}

Eval(env) == LET eval[n \in AllTrees] == EvalNode(eval, env, n)
             IN eval

Operands(n) == CASE n.node = "Binary" -> {n.left, n.right}
                 [] n.node = "Unary"  -> {n.operand}
                 [] OTHER             -> {}

Subtrees[n \in AllTrees] == {n} \cup UNION {Subtrees[m] : m \in Operands(n)}

Environments == [Names \cup LongNames -> -Half["int"] .. Half["int"] - 1]

(* A visit changes nothing of what a tree computes, wherever the variables *)
(* have the values the dictionary had at that moment, whether or not it    *)
(* overflows or throws.                                                    *)
RewriteExact ==
  visited # NotVisited =>
    \A env \in Environments :
      (\A n \in Names : visited.given[n] \subseteq {env[n]})
        => Eval(env)[visited.result] = Eval(env)[visited.tree]

(* What the comment on Replace says: the parameters in the lambda that the *)
(* dictionary has a value for become constants, wherever they occur.       *)
ParametersReplaced ==
  visited # NotVisited =>
    \A n \in Subtrees[visited.result] :
      n.node = "Parameter" /\ n.name \in Names => visited.given[n.name] = {}
=============================================================================
