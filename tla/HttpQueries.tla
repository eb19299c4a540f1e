----------------------------- MODULE HttpQueries -----------------------------
(***************************************************************************)
(* "Expression and IQueryable"/LinqProvider: a query on the client is an   *)
(* expression tree; HttpExpressionVisitor flattens it to a list of         *)
(* QueryDto, HttpLinqProvider posts the list, and the server's             *)
(* HttpListener evaluates it with QueryConverter, one request at a time.   *)
(* An exception on the server ends its process.                            *)
(*                                                                         *)
(* A string is a sequence of letters, null the empty set and a non-null    *)
(* value of a QueryDto the set that holds it.  Well-typed trees only: a    *)
(* string method has a property, a constant or a captured variable as its  *)
(* object and argument.                                                    *)
(***************************************************************************)
EXTENDS Integers, Sequences, SequencesExt

CONSTANTS Clients,
          Exprs,     \* the expressions clients may execute,
          Nodes,     \* the nodes of their trees
          Height,    \* and how high the tree below each of them is
          Entities   \* DataContext.Entities

Children(n) ==
  CASE n.node = "Where"  -> {n.source, n.predicate}
    [] n.node = "Call"   -> {n.object, n.argument}
    [] n.node = "Binary" -> {n.left, n.right}
    [] n.node = "Not"    -> {n.operand}
    [] n.node \in {"MemberAccess", "Constant"} -> {}

\* Expression trees are finite; a constant has one value, or is null.
ASSUME TreesAssumption ==
  /\ Exprs \subseteq Nodes /\ Height \in [Nodes -> Nat]
  /\ \A n \in Nodes :
       /\ n.node \in {"Where", "Call", "Binary", "Not", "MemberAccess", "Constant"}
       /\ \A m \in Children(n) : m \in Nodes /\ Height[m] < Height[n]
       /\ n.node = "Constant" => \A v, w \in n.value : v = w

ASSUME EntitiesAssumption ==
  \A e \in Entities : DOMAIN e = {"FirstName", "LastName"}

VARIABLES
  client,   \* per client: the call of Execute it is in, or has made
  posted,   \* requests the server has not taken
  server,   \* "up" or "down"
  harmful   \* history: the clients whose request the server could not survive

queryVars == <<client, posted, server, harmful>>

MethodTypes == {"Equals", "StartsWith", "EndsWith", "Contains"}

MemberNames == {n.name : n \in {m \in Nodes : m.node = "MemberAccess"}}
ConstantValues == UNION {n.value : n \in {m \in Nodes : m.node = "Constant"}}

QueryDto == [type : MethodTypes,
             field : SUBSET MemberNames, value : SUBSET ConstantValues]
-----------------------------------------------------------------------------
(* HttpExpressionVisitor.  r.queries is _result; _currentEntity is its last*)
(* element, and null while it is empty.  visit[n][r] is the call of Visit  *)
(* for node n.                                                             *)
Translations == [ok : BOOLEAN, queries : Seq(QueryDto)]

ResolveStringMethodType(method) == method \in MethodTypes \ {"Equals"}

Thrown == [ok |-> FALSE, queries |-> << >>]

NewQuery(r, type) ==
  [r EXCEPT !.queries = Append(@, [type |-> type, field |-> {}, value |-> {}])]

SetCurrent(r, field, x) ==
  IF r.queries = << >> THEN Thrown
  ELSE [r EXCEPT !.queries[Len(r.queries)][field] = x]

TryGetOperands(l, r) == {l.node, r.node} = {"Constant", "MemberAccess"}

VisitMember(n, r) == SetCurrent(r, "field", {n.name})

\* Mutant: the value of a constant is not taken.
VisitConstantOnly(n, r) == IF r.queries = << >> THEN Thrown ELSE r

\* node.Value.ToString()
VisitConstant(n, r) == IF n.value = {} THEN Thrown
                       ELSE SetCurrent(r, "value", n.value)

VisitTwo(visit, a, b, r) == visit[b][visit[a][r]]

\* A string method visits its object and argument, and the base class again.
VisitMethodCall(visit, n, r) ==
  IF ResolveStringMethodType(n.method)
  THEN VisitTwo(visit, n.object, n.argument,
                VisitTwo(visit, n.object, n.argument, NewQuery(r, n.method)))
  ELSE Thrown

VisitBinary(visit, n, r) ==
  CASE n.op = "Equal" /\ TryGetOperands(n.left, n.right) ->
         VisitTwo(visit, n.left, n.right, NewQuery(r, "Equals"))
    [] n.op = "AndAlso" -> VisitTwo(visit, n.left, n.right, r)
    [] OTHER -> Thrown

(* Not is not overridden: the base class visits its operand.  Where visits *)
(* its predicate, not the query it is applied to.                          *)
VisitNode(visit, n, r) ==
  CASE n.node = "Where"        -> visit[n.predicate][r]
    [] n.node = "Call"         -> VisitMethodCall(visit, n, r)
    [] n.node = "Binary"       -> VisitBinary(visit, n, r)
    [] n.node = "Not"          -> visit[n.operand][r]
    [] n.node = "MemberAccess" -> VisitMember(n, r)
    [] n.node = "Constant"     -> VisitConstant(n, r)

Visit[n \in Nodes] ==
  [r \in Translations |-> IF r.ok THEN VisitNode(Visit, n, r) ELSE Thrown]

Translate(exp) == Visit[exp][[ok |-> TRUE, queries |-> << >>]]
-----------------------------------------------------------------------------
(* QueryConverter.                                                         *)

Compare(type, s, t) ==
  CASE type = "Equals"     -> s = t
    [] type = "StartsWith" -> IsPrefix(t, s)
    [] type = "EndsWith"   -> IsSuffix(t, s)
    [] type = "Contains"   -> t \in SubSeqs(s) \cup {<< >>}

(* GetProperty finds nothing, or a string method is given null.            *)
QueryThrows(q, e) == \/ q.field \cap DOMAIN e = {}
                     \/ q.type # "Equals" /\ q.value = {}

\* Mutant: a prefix is looked for at the end.
HandleQuerySwapped(q, e) ==
  \E f \in q.field, v \in q.value :
    Compare(IF q.type = "StartsWith" THEN "EndsWith" ELSE q.type, e[f], v)

HandleQuery(q, e) == \E f \in q.field, v \in q.value : Compare(q.type, e[f], v)

(* All stops at the first query an entity fails, and never sees the rest.  *)
ConvertThrows(qs) ==
  \E e \in Entities, k \in DOMAIN qs :
    /\ QueryThrows(qs[k], e)
    /\ \A j \in 1..k - 1 : ~QueryThrows(qs[j], e) /\ HandleQuery(qs[j], e)

Convert(qs) == {e \in Entities : \A k \in DOMAIN qs : HandleQuery(qs[k], e)}
-----------------------------------------------------------------------------
(* The calls of clients, and the server.                                   *)

NotCalled == [state |-> "idle", exp |-> [node |-> "none"]]

QueriesInit == /\ client = [c \in Clients |-> NotCalled]
               /\ posted = << >> /\ server = "up" /\ harmful = {}

(* Enumerating a query: Execute translates, and posts to a server that     *)
(* listens.                                                                *)
Execute(c, exp) ==
  LET t == Translate(exp)
      to(s) == [client EXCEPT ![c] = [state |-> s, exp |-> exp]]
  IN /\ client[c] = NotCalled
     /\ \/ /\ ~t.ok
           /\ client' = to("threw") /\ UNCHANGED posted
        \/ /\ t.ok /\ server = "down"
           /\ client' = to("refused") /\ UNCHANGED posted
        \/ /\ t.ok /\ server = "up"
           /\ client' = to("waiting")
           /\ posted' = Append(posted, [from |-> c, queries |-> t.queries])
     /\ UNCHANGED <<server, harmful>>

(* GetContext, up to the response.                                         *)
Answer ==
  /\ server = "up" /\ posted # << >>
  /\ LET m == Head(posted)
     IN /\ ~ConvertThrows(m.queries)
        /\ client' = [client EXCEPT ![m.from] =
                      [state |-> "answered", exp |-> @.exp,
                       answer |-> Convert(m.queries)]]
  /\ posted' = Tail(posted)
  /\ UNCHANGED <<server, harmful>>

(* Nothing in Start catches: the process ends, and every waiting call gets *)
(* an HttpRequestException.                                                *)
Crash ==
  /\ server = "up" /\ posted # << >> /\ ConvertThrows(Head(posted).queries)
  /\ server' = "down" /\ posted' = << >>
  /\ harmful' = harmful \cup {Head(posted).from}
  /\ client' = [c \in Clients |-> IF client[c].state = "waiting"
                                  THEN [state |-> "refused", exp |-> client[c].exp]
                                  ELSE client[c]]

QueriesNext == \/ \E c \in Clients, exp \in Exprs : Execute(c, exp)
               \/ Answer \/ Crash

QueriesSpec == QueriesInit /\ [][QueriesNext]_queryVars

QueriesTypeOK ==
  /\ server \in {"up", "down"}
  /\ \A c \in Clients :
       client[c].state \in {"idle", "threw", "refused", "waiting", "answered"}
  /\ \A i \in DOMAIN posted :
       /\ client[posted[i].from].state = "waiting"
       /\ \A k \in DOMAIN posted[i].queries :
            posted[i].queries[k].type \in MethodTypes
       /\ \A j \in DOMAIN posted : posted[i].from = posted[j].from => i = j
-----------------------------------------------------------------------------
(* What an expression means, and for which expressions the provider is     *)
(* made: one Where, a conjunction of comparisons of a property with a      *)
(* constant.                                                               *)

Text(n, e) == IF n.node = "Constant" THEN CHOOSE v \in n.value : TRUE
              ELSE e[n.name]

IsProperty(n) == n.node = "MemberAccess" /\ n.name \in {"FirstName", "LastName"}
IsText(n)     == n.node = "Constant" /\ n.value # {}

Comparison(n) ==
  \/ /\ n.node = "Call" /\ ResolveStringMethodType(n.method)
     /\ IsProperty(n.object) /\ IsText(n.argument)
  \/ /\ n.node = "Binary" /\ n.op = "Equal"
     /\ \/ IsProperty(n.left) /\ IsText(n.right)
        \/ IsText(n.left) /\ IsProperty(n.right)

IsAnd(n) == n.node = "Binary" /\ n.op = "AndAlso"

Conjunction[n \in Nodes] ==
  IF IsAnd(n) THEN Conjunction[n.left] /\ Conjunction[n.right] ELSE Comparison(n)

(* The entities of which a conjunction holds.                              *)
Holds(n, e) ==
  IF n.node = "Call" THEN Compare(n.method, Text(n.object, e), Text(n.argument, e))
  ELSE Text(n.left, e) = Text(n.right, e)

Matching[n \in Nodes] ==
  {e \in Entities : IF IsAnd(n) THEN e \in Matching[n.left] \cap Matching[n.right]
                    ELSE Holds(n, e)}

(* A chain of Where on the query object itself, and what it selects.       *)
Chain[exp \in Nodes] ==
  /\ exp.node = "Where" /\ Conjunction[exp.predicate]
  /\ exp.source.node = "Constant" \/ Chain[exp.source]

Selected[exp \in Nodes] ==
  {e \in Entities : exp.node = "Where"
                      => e \in Selected[exp.source] \cap Matching[exp.predicate]}

(* An answer never misses an entity that a chain of Where selects, and is  *)
(* exact if there is one Where: the visitor drops all but the last.        *)
AnswersComplete ==
  \A c \in Clients :
    client[c].state = "answered" /\ Chain[client[c].exp] =>
      /\ Selected[client[c].exp] \subseteq client[c].answer
      /\ client[c].exp.source.node = "Constant" =>
           client[c].answer = Selected[client[c].exp]

(* Whatever ends the server or fails on the client is outside of what the  *)
(* provider is made for: a chain of comparisons with constants is always   *)
(* translated and never brings the server down.                            *)
SurvivesChains ==
  \A c \in Clients :
    client[c].state # "idle" /\ Chain[client[c].exp] =>
      client[c].state # "threw" /\ c \notin harmful
=============================================================================
