--------------------------- MODULE ExpressionProofs ---------------------------
(***************************************************************************)
(* Of HttpQueries, for any set of expressions, entities and clients, and of*)
(* ExpressionTreeVisitor, for any trees, dictionaries and widths of int and*)
(* long.                                                                   *)
(***************************************************************************)
EXTENDS Expressions, SequenceTheorems, WellFoundedInduction, TLAPS

(* What holds of an element when it holds of all that are lower, holds of  *)
(* all.                                                                    *)
LEMMA HeightInduction ==
  ASSUME NEW N, NEW H \in [N -> Nat], NEW S,
         \A n \in N : (\A m \in N : H[m] < H[n] => m \in S) => n \in S
  PROVE  N \subseteq S
<1> SUFFICES ASSUME NEW x \in N, x \notin S PROVE FALSE
  OBVIOUS
<1> DEFINE T == {H[n] : n \in N \ S}
<1>1. T \subseteq Nat /\ T # {} OBVIOUS
<1>2. PICK k \in T : \A j \in T : <<j, k>> \notin OpToRel(<, Nat)
  BY <1>1, NatLessThanWellFounded, WFMin
<1>3. \A j \in T : ~ (j < k)
  BY <1>1, <1>2, Zenon DEF OpToRel
<1>4. PICK n \in N \ S : k = H[n] BY <1>2
<1>5. \A m \in N : H[m] < H[n] => m \in S BY <1>3, <1>4
<1> QED BY <1>4, <1>5

LEMMA NatSetInduction ==
  ASSUME NEW S, \A k \in Nat : (\A j \in Nat : j < k => j \in S) => k \in S
  PROVE  Nat \subseteq S
<1> SUFFICES ASSUME Nat \ S # {} PROVE FALSE
  OBVIOUS
<1>1. PICK k \in Nat \ S : \A j \in Nat \ S : <<j, k>> \notin OpToRel(<, Nat)
  BY NatLessThanWellFounded, WFMin
<1>2. \A j \in Nat \ S : ~ (j < k)
  BY <1>1, Zenon DEF OpToRel
<1> QED BY <1>1, <1>2

LEMMA Predecessor == \A k \in Nat : k = 0 \/ \E j \in Nat : j < k /\ k = j + 1
<1>1. \A k \in Nat : k = 0 \/ (k - 1 \in Nat /\ k - 1 < k /\ k = (k - 1) + 1)
  OBVIOUS
<1> QED BY <1>1

(* A recursion that looks only at lower elements defines a function.       *)
LooksBelow(N, H, V, G) ==
  /\ H \in [N -> Nat] /\ V # {} /\ G \in [N \X [N -> V] -> V]
  /\ \A n \in N, f, g \in [N -> V] :
       (\A m \in N : H[m] < H[n] => f[m] = g[m]) => G[<<n, f>>] = G[<<n, g>>]

LEMMA Recursion ==
  ASSUME NEW N, NEW H, NEW V, NEW G, LooksBelow(N, H, V, G)
  PROVE  \E f \in [N -> V] : \A n \in N : f[n] = G[<<n, f>>]
<1> USE DEF LooksBelow
<1> PICK v0 \in V : TRUE OBVIOUS
<1> DEFINE Up(k, f) == \A n \in N : H[n] < k => f[n] = G[<<n, f>>]
           P(k) == \E f \in [N -> V] : Up(k, f)
<1>1. P(0)
  <2>1. [n \in N |-> v0] \in [N -> V] /\ Up(0, [n \in N |-> v0]) OBVIOUS
  <2> QED BY <2>1, Zenon
<1>2. ASSUME NEW k \in Nat, P(k) PROVE P(k + 1)
  <2>1. PICK f \in [N -> V] : Up(k, f) BY <1>2
  <2> DEFINE g == [n \in N |-> G[<<n, f>>]]
  <2>2. \A n \in N : <<n, f>> \in N \X [N -> V] OBVIOUS
  <2>3. g \in [N -> V] BY <2>2
  <2>4. \A n \in N : g[n] = G[<<n, f>>] OBVIOUS
  <2> HIDE DEF g
  <2>5. ASSUME NEW n \in N, H[n] < k + 1 PROVE g[n] = G[<<n, g>>]
    <3>1. ASSUME NEW m \in N, H[m] < H[n] PROVE f[m] = g[m]
      <4>1. H[m] \in Nat /\ H[n] \in Nat OBVIOUS
      <4>2. H[m] < k BY <2>5, <3>1, <4>1
      <4> QED BY <2>1, <2>4, <4>2
    <3>2. G[<<n, f>>] = G[<<n, g>>] BY <2>3, <3>1
    <3> QED BY <2>4, <3>2
  <2> QED BY <2>3, <2>5
<1>3. \A k \in Nat : P(k)
  <2> DEFINE S == {k \in Nat : P(k)}
  <2>1. ASSUME NEW k \in Nat, \A j \in Nat : j < k => j \in S PROVE k \in S
    <3>1. k = 0 \/ \E j \in Nat : j < k /\ k = j + 1 BY Predecessor
    <3>2. CASE k = 0 BY <1>1, <3>2
    <3>3. ASSUME NEW j \in Nat, j < k, k = j + 1 PROVE P(k)
      <4>1. P(j) BY <2>1, <3>3
      <4> HIDE DEF P
      <4> QED BY <1>2, <3>3, <4>1
    <3>4. CASE \E j \in Nat : j < k /\ k = j + 1
      <4>1. PICK j \in Nat : j < k /\ k = j + 1 BY <3>4
      <4> HIDE DEF P
      <4>2. P(k) BY <3>3, <4>1
      <4> USE DEF P
      <4> QED BY <4>2
    <3> QED BY <3>1, <3>2, <3>4
  <2> HIDE DEF S
  <2>2. \A k \in Nat : (\A j \in Nat : j < k => j \in S) => k \in S
    BY <2>1, Zenon
  <2>3. Nat \subseteq S BY <2>2, NatSetInduction
  <2> QED BY <2>3 DEF S
<1> DEFINE F(k) == CHOOSE f \in [N -> V] : Up(k, f)
<1>4. \A k \in Nat : F(k) \in [N -> V] /\ Up(k, F(k)) BY <1>3
<1> HIDE DEF F
<1>5. ASSUME NEW n \in N, NEW k \in Nat, NEW l \in Nat, H[n] < k, H[n] < l
      PROVE  F(k)[n] = F(l)[n]
  <2> DEFINE S == {x \in N : H[x] < k /\ H[x] < l => F(k)[x] = F(l)[x]}
  <2>1. ASSUME NEW x \in N, \A m \in N : H[m] < H[x] => m \in S PROVE x \in S
    <3> SUFFICES ASSUME H[x] < k, H[x] < l PROVE F(k)[x] = F(l)[x]
      OBVIOUS
    <3>1. \A m \in N : H[m] < H[x] => F(k)[m] = F(l)[m]
      <4>1. \A m \in N : H[m] \in Nat OBVIOUS
      <4> QED BY <2>1, <4>1
    <3>2. G[<<x, F(k)>>] = G[<<x, F(l)>>] BY <1>4, <3>1
    <3> QED BY <1>4, <3>2
  <2> HIDE DEF S
  <2>2. N \subseteq S BY <2>1, HeightInduction
  <2> QED BY <1>5, <2>2 DEF S
<1> DEFINE f == [n \in N |-> F(H[n] + 1)[n]]
<1>6. f \in [N -> V]
  <2>1. \A n \in N : H[n] + 1 \in Nat OBVIOUS
  <2> QED BY <1>4, <2>1
<1>7. ASSUME NEW n \in N PROVE f[n] = G[<<n, f>>]
  <2> DEFINE g == F(H[n] + 1)
  <2>1. H[n] + 1 \in Nat /\ H[n] < H[n] + 1 OBVIOUS
  <2>2. g \in [N -> V] /\ g[n] = G[<<n, g>>] BY <1>4, <2>1
  <2>3. ASSUME NEW m \in N, H[m] < H[n] PROVE g[m] = f[m]
    <3>1. H[m] \in Nat /\ H[m] + 1 \in Nat /\ H[m] < H[m] + 1 /\ H[m] < H[n] + 1
      BY <2>1, <2>3
    <3> QED BY <1>5, <2>1, <3>1
  <2>4. f[n] = g[n] OBVIOUS
  <2> HIDE DEF f, g
  <2>5. G[<<n, g>>] = G[<<n, f>>] BY <1>6, <2>2, <2>3
  <2> QED BY <2>2, <2>4, <2>5
<1> HIDE DEF f
<1> QED BY <1>6, <1>7

(* For the trees of expressions.                                           *)
LooksAtChildren(V, G) ==
  /\ V # {} /\ G \in [Nodes \X [Nodes -> V] -> V]
  /\ \A n \in Nodes, f, g \in [Nodes -> V] :
       (\A m \in Children(n) : f[m] = g[m]) => G[<<n, f>>] = G[<<n, g>>]

LEMMA TreeRecursion ==
  ASSUME NEW V, NEW G, LooksAtChildren(V, G)
  PROVE  \E f \in [Nodes -> V] : \A n \in Nodes : f[n] = G[<<n, f>>]
<1> USE DEF LooksAtChildren
<1>1. Height \in [Nodes -> Nat] BY TreesAssumption
<1>2. ASSUME NEW n \in Nodes, NEW f \in [Nodes -> V], NEW g \in [Nodes -> V],
             \A m \in Nodes : Height[m] < Height[n] => f[m] = g[m]
      PROVE  G[<<n, f>>] = G[<<n, g>>]
  <2>1. \A m \in Children(n) : f[m] = g[m] BY <1>2, TreesAssumption
  <2> QED BY <2>1
<1>3. \A n \in Nodes, f, g \in [Nodes -> V] :
        (\A m \in Nodes : Height[m] < Height[n] => f[m] = g[m])
          => G[<<n, f>>] = G[<<n, g>>]
  BY <1>2
<1>4. LooksBelow(Nodes, Height, V, G) BY <1>1, <1>3 DEF LooksBelow
<1> QED BY <1>4, Recursion

LEMMA TreeInduction ==
  ASSUME NEW S, \A n \in Nodes : (\A m \in Children(n) : m \in S) => n \in S
  PROVE  Nodes \subseteq S
<1>1. Height \in [Nodes -> Nat] BY TreesAssumption
<1>2. \A n \in Nodes : (\A m \in Nodes : Height[m] < Height[n] => m \in S) => n \in S
  BY TreesAssumption
<1> QED BY <1>1, <1>2, HeightInduction
-----------------------------------------------------------------------------
(* The visitor, one node.                                                  *)

Visitors == [Translations -> Translations]

LEMMA ThrownTyped == Thrown \in Translations
BY DEF Thrown, Translations

LEMMA NewQueryTyped ==
  ASSUME NEW r \in Translations, NEW type \in MethodTypes
  PROVE  NewQuery(r, type) \in Translations
<1>1. [type |-> type, field |-> {}, value |-> {}] \in QueryDto BY DEF QueryDto
<1>2. Append(r.queries, [type |-> type, field |-> {}, value |-> {}]) \in Seq(QueryDto)
  BY <1>1 DEF Translations
<1> QED BY <1>2 DEF NewQuery, Translations

LEMMA SetFieldTyped ==
  ASSUME NEW r \in Translations, NEW x \in SUBSET MemberNames
  PROVE  SetCurrent(r, "field", x) \in Translations
<1>1. CASE r.queries = << >> BY <1>1, ThrownTyped DEF SetCurrent
<1>2. CASE r.queries # << >>
  <2> DEFINE qs == r.queries
             k == Len(qs)
  <2>1. qs \in Seq(QueryDto) /\ k \in 1..Len(qs) BY <1>2 DEF Translations
  <2>2. qs[k] \in QueryDto BY <2>1
  <2>3. [qs[k] EXCEPT !["field"] = x] \in QueryDto BY <2>2 DEF QueryDto
  <2>4. [qs EXCEPT ![k] = [qs[k] EXCEPT !["field"] = x]] \in Seq(QueryDto)
    BY <2>1, <2>3, ExceptSeq
  <2> QED BY <1>2, <2>4 DEF SetCurrent, Translations
<1> QED BY <1>1, <1>2

LEMMA SetValueTyped ==
  ASSUME NEW r \in Translations, NEW x \in SUBSET ConstantValues
  PROVE  SetCurrent(r, "value", x) \in Translations
<1>1. CASE r.queries = << >> BY <1>1, ThrownTyped DEF SetCurrent
<1>2. CASE r.queries # << >>
  <2> DEFINE qs == r.queries
             k == Len(qs)
  <2>1. qs \in Seq(QueryDto) /\ k \in 1..Len(qs) BY <1>2 DEF Translations
  <2>2. qs[k] \in QueryDto BY <2>1
  <2>3. [qs[k] EXCEPT !["value"] = x] \in QueryDto BY <2>2 DEF QueryDto
  <2>4. [qs EXCEPT ![k] = [qs[k] EXCEPT !["value"] = x]] \in Seq(QueryDto)
    BY <2>1, <2>3, ExceptSeq
  <2> QED BY <1>2, <2>4 DEF SetCurrent, Translations
<1> QED BY <1>1, <1>2

(* Visitors of the children are all a node needs.                          *)
LEMMA VisitNodeTyped ==
  ASSUME NEW n \in Nodes, NEW visit,
         \A m \in Children(n) : visit[m] \in Visitors,
         NEW r \in Translations
  PROVE  VisitNode(visit, n, r) \in Translations
<1>1. \A m \in Children(n), s \in Translations : visit[m][s] \in Translations
  BY DEF Visitors
<1>2. n.node \in {"Where", "Call", "Binary", "Not", "MemberAccess", "Constant"}
  BY TreesAssumption
<1>3. ASSUME NEW a \in Children(n), NEW b \in Children(n), NEW s \in Translations
      PROVE  VisitTwo(visit, a, b, s) \in Translations
  BY <1>1, <1>3 DEF VisitTwo
<1>4. CASE n.node = "Where" BY <1>1, <1>4 DEF Children, VisitNode
<1>5. CASE n.node = "Call"
  <2>1. n.object \in Children(n) /\ n.argument \in Children(n) BY <1>5 DEF Children
  <2>2. CASE ResolveStringMethodType(n.method)
    <3>1. NewQuery(r, n.method) \in Translations
      BY <2>2, NewQueryTyped DEF ResolveStringMethodType
    <3> QED BY <1>3, <1>5, <2>1, <2>2, <3>1 DEF VisitNode, VisitMethodCall
  <2>3. CASE ~ResolveStringMethodType(n.method)
    BY <1>5, <2>3, ThrownTyped DEF VisitNode, VisitMethodCall
  <2> QED BY <2>2, <2>3
<1>6. CASE n.node = "Binary"
  <2>1. n.left \in Children(n) /\ n.right \in Children(n) BY <1>6 DEF Children
  <2>2. NewQuery(r, "Equals") \in Translations
    BY NewQueryTyped DEF MethodTypes
  <2>3. VisitBinary(visit, n, r) \in Translations
    BY <1>3, <2>1, <2>2, ThrownTyped DEF VisitBinary
  <2> QED BY <1>6, <2>3 DEF VisitNode
<1>7. CASE n.node = "Not" BY <1>1, <1>7 DEF Children, VisitNode
<1>8. CASE n.node = "MemberAccess"
  <2>1. {n.name} \in SUBSET MemberNames BY <1>8 DEF MemberNames
  <2> QED BY <1>8, <2>1, SetFieldTyped DEF VisitNode, VisitMember
<1>9. CASE n.node = "Constant"
  <2>1. n.value \in SUBSET ConstantValues BY <1>9 DEF ConstantValues
  <2>2. VisitConstant(n, r) \in Translations
    BY <2>1, SetValueTyped, ThrownTyped DEF VisitConstant
  <2> QED BY <1>9, <2>2 DEF VisitNode
<1> QED BY <1>2, <1>4, <1>5, <1>6, <1>7, <1>8, <1>9

LEMMA VisitNodeLocal ==
  ASSUME NEW n \in Nodes, NEW visit, NEW other,
         \A m \in Children(n) : visit[m] = other[m],
         NEW r
  PROVE  VisitNode(visit, n, r) = VisitNode(other, n, r)
<1>1. n.node \in {"Where", "Call", "Binary", "Not", "MemberAccess", "Constant"}
  BY TreesAssumption
<1>2. CASE n.node = "Where" BY <1>2 DEF Children, VisitNode
<1>3. CASE n.node = "Call"
  <2>1. visit[n.object] = other[n.object] /\ visit[n.argument] = other[n.argument]
    BY <1>3 DEF Children
  <2>2. VisitMethodCall(visit, n, r) = VisitMethodCall(other, n, r)
    BY <2>1 DEF VisitMethodCall, VisitTwo
  <2> QED BY <1>3, <2>2 DEF VisitNode
<1>4. CASE n.node = "Binary"
  <2>1. visit[n.left] = other[n.left] /\ visit[n.right] = other[n.right]
    BY <1>4 DEF Children
  <2>2. VisitBinary(visit, n, r) = VisitBinary(other, n, r)
    BY <2>1 DEF VisitBinary, VisitTwo
  <2> QED BY <1>4, <2>2 DEF VisitNode
<1>5. CASE n.node = "Not" BY <1>5 DEF Children, VisitNode
<1>6. CASE n.node \in {"MemberAccess", "Constant"} BY <1>6 DEF VisitNode
<1> QED BY <1>1, <1>2, <1>3, <1>4, <1>5, <1>6

LEMMA ChildrenLower ==
  \A n \in Nodes : \A m \in Children(n) : m \in Nodes /\ Height[m] < Height[n]
BY TreesAssumption

LEMMA VisitExists ==
  /\ Visit \in [Nodes -> Visitors]
  /\ \A n \in Nodes, r \in Translations :
       Visit[n][r] = IF r.ok THEN VisitNode(Visit, n, r) ELSE Thrown
<1> DEFINE At(f, n) ==
             [r \in Translations |-> IF r.ok THEN VisitNode(f, n, r) ELSE Thrown]
           F == [Nodes -> Visitors]
           G == [p \in Nodes \X F |-> At(p[2], p[1])]
           E(f) == f = [n \in Nodes |-> At(f, n)]
<1>1. ASSUME NEW n \in Nodes, NEW f, \A m \in Children(n) : f[m] \in Visitors
      PROVE  At(f, n) \in Visitors
  <2>1. \A r \in Translations : VisitNode(f, n, r) \in Translations
    BY <1>1, VisitNodeTyped
  <2> QED BY <2>1, ThrownTyped DEF Visitors
<1>2. ASSUME NEW n \in Nodes, NEW f, NEW g, \A m \in Children(n) : f[m] = g[m]
      PROVE  At(f, n) = At(g, n)
  <2>1. \A r \in Translations : VisitNode(f, n, r) = VisitNode(g, n, r)
    BY <1>2, VisitNodeLocal
  <2> QED BY <2>1
<1> HIDE DEF At
<1>3. \E f \in F : \A n \in Nodes : f[n] = At(f, n)
  <2>1. G \in [Nodes \X F -> Visitors]
    <3>1. ASSUME NEW n \in Nodes, NEW f \in F PROVE At(f, n) \in Visitors
      <4>1. \A m \in Children(n) : f[m] \in Visitors BY ChildrenLower
      <4> QED BY <1>1, <4>1
    <3> QED BY <3>1
  <2>2. \A n \in Nodes, f \in F : G[<<n, f>>] = At(f, n) OBVIOUS
  <2>3. [r \in Translations |-> Thrown] \in Visitors BY ThrownTyped DEF Visitors
  <2>4. \A n \in Nodes, f, g \in F :
          (\A m \in Children(n) : f[m] = g[m]) => G[<<n, f>>] = G[<<n, g>>]
    BY <1>2, <2>2
  <2> HIDE DEF G
  <2>5. LooksAtChildren(Visitors, G) BY <2>1, <2>3, <2>4 DEF LooksAtChildren
  <2>6. \E f \in F : \A n \in Nodes : f[n] = G[<<n, f>>] BY <2>5, TreeRecursion
  <2> QED BY <2>2, <2>6
<1>4. PICK f \in F : \A n \in Nodes : f[n] = At(f, n) BY <1>3
<1>5. E(f) BY <1>4
<1>6. Visit = CHOOSE g : E(g) BY Zenon DEF Visit, At
<1> HIDE DEF E
<1>7. E(Visit) BY <1>5, <1>6, Zenon
<1>8. Visit = [n \in Nodes |-> At(Visit, n)] BY <1>7 DEF E
<1>9. \A n \in Nodes : Visit[n] = At(Visit, n) BY <1>8
<1> DEFINE S == {n \in Nodes : Visit[n] \in Visitors}
<1>10. \A n \in Nodes : Visit[n] \in Visitors
  <2>1. ASSUME NEW n \in Nodes, \A m \in Children(n) : m \in S
        PROVE  n \in S
    <3>1. Visit[n] \in Visitors BY <1>1, <1>9, <2>1
    <3> QED BY <3>1
  <2> HIDE DEF S
  <2>2. Nodes \subseteq S BY <2>1, TreeInduction
  <2> QED BY <2>2 DEF S
<1>11. Visit \in [Nodes -> Visitors]
  <2>1. [n \in Nodes |-> At(Visit, n)] \in [Nodes -> Visitors] BY <1>9, <1>10
  <2> QED BY <1>8, <2>1
<1>12. \A n \in Nodes, r \in Translations :
         Visit[n][r] = IF r.ok THEN VisitNode(Visit, n, r) ELSE Thrown
  BY <1>9 DEF At
<1> QED BY <1>11, <1>12
-----------------------------------------------------------------------------
(* The meaning of an expression: its recursive functions exist.            *)

LEMMA ConjunctionExists ==
  /\ Conjunction \in [Nodes -> BOOLEAN]
  /\ \A n \in Nodes :
        Conjunction[n] = IF IsAnd(n)
                         THEN Conjunction[n.left] /\ Conjunction[n.right]
                         ELSE Comparison(n)
<1> DEFINE At(f, n) == IF IsAnd(n) THEN f[n.left] /\ f[n.right] ELSE Comparison(n)
           F == [Nodes -> BOOLEAN]
           G == [p \in Nodes \X F |-> At(p[2], p[1])]
           E(f) == f = [n \in Nodes |-> At(f, n)]
<1>1. ASSUME NEW n, NEW f PROVE At(f, n) \in BOOLEAN
  BY DEF Comparison
<1>2. ASSUME NEW n \in Nodes, NEW f, NEW g, \A m \in Children(n) : f[m] = g[m]
      PROVE  At(f, n) = At(g, n)
  BY <1>2 DEF IsAnd, Children
<1> HIDE DEF At
<1>3. \E f \in F : \A n \in Nodes : f[n] = At(f, n)
  <2>1. G \in [Nodes \X F -> BOOLEAN] BY <1>1
  <2>2. \A n \in Nodes, f \in F : G[<<n, f>>] = At(f, n) OBVIOUS
  <2>3. \A n \in Nodes, f, g \in F :
          (\A m \in Children(n) : f[m] = g[m]) => G[<<n, f>>] = G[<<n, g>>]
    BY <1>2, <2>2
  <2> HIDE DEF G
  <2>4. LooksAtChildren(BOOLEAN, G) BY <2>1, <2>3 DEF LooksAtChildren
  <2>5. \E f \in F : \A n \in Nodes : f[n] = G[<<n, f>>] BY <2>4, TreeRecursion
  <2> QED BY <2>2, <2>5
<1>4. PICK f \in F : \A n \in Nodes : f[n] = At(f, n) BY <1>3
<1>5. E(f) BY <1>4
<1>6. Conjunction = CHOOSE g : E(g) BY Zenon DEF Conjunction, At
<1> HIDE DEF E
<1>7. E(Conjunction) BY <1>5, <1>6, Zenon
<1>8. Conjunction = [n \in Nodes |-> At(Conjunction, n)] BY <1>7 DEF E
<1>9. Conjunction \in [Nodes -> BOOLEAN]
  <2>1. [n \in Nodes |-> At(Conjunction, n)] \in [Nodes -> BOOLEAN] BY <1>1
  <2> QED BY <1>8, <2>1
<1>10. \A n \in Nodes : Conjunction[n] = At(Conjunction, n) BY <1>8
<1> QED BY <1>9, <1>10 DEF At

LEMMA MatchingExists ==
  /\ Matching \in [Nodes -> SUBSET Entities]
  /\ \A n \in Nodes :
       Matching[n] = {e \in Entities :
                        IF IsAnd(n)
                        THEN e \in Matching[n.left] \cap Matching[n.right]
                        ELSE Holds(n, e)}
<1> DEFINE At(f, n) == {e \in Entities : IF IsAnd(n) THEN e \in f[n.left] \cap f[n.right]
                                        ELSE Holds(n, e)}
           F == [Nodes -> SUBSET Entities]
           G == [p \in Nodes \X F |-> At(p[2], p[1])]
           E(f) == f = [n \in Nodes |-> At(f, n)]
<1>1. ASSUME NEW n, NEW f PROVE At(f, n) \in SUBSET Entities
  OBVIOUS
<1>2. ASSUME NEW n \in Nodes, NEW f, NEW g, \A m \in Children(n) : f[m] = g[m]
      PROVE  At(f, n) = At(g, n)
  BY <1>2 DEF IsAnd, Children
<1> HIDE DEF At
<1>3. \E f \in F : \A n \in Nodes : f[n] = At(f, n)
  <2>1. G \in [Nodes \X F -> SUBSET Entities] BY <1>1
  <2>2. \A n \in Nodes, f \in F : G[<<n, f>>] = At(f, n) OBVIOUS
  <2>3. ASSUME NEW n \in Nodes, NEW f \in F, NEW g \in F,
               \A m \in Children(n) : f[m] = g[m]
        PROVE  G[<<n, f>>] = G[<<n, g>>]
    <3> HIDE DEF F, G
    <3>1. At(f, n) = At(g, n) BY <1>2, <2>3
    <3> QED BY <2>2, <3>1
  <2> HIDE DEF G
  <2>4. LooksAtChildren(SUBSET Entities, G) BY <2>1, <2>3 DEF LooksAtChildren
  <2>5. \E f \in F : \A n \in Nodes : f[n] = G[<<n, f>>] BY <2>4, TreeRecursion
  <2> QED BY <2>2, <2>5
<1>4. PICK f \in F : \A n \in Nodes : f[n] = At(f, n) BY <1>3
<1>5. E(f) BY <1>4
<1>6. Matching = CHOOSE g : E(g) BY Zenon DEF Matching, At
<1> HIDE DEF E
<1>7. E(Matching) BY <1>5, <1>6, Zenon
<1>8. Matching = [n \in Nodes |-> At(Matching, n)] BY <1>7 DEF E
<1>9. Matching \in [Nodes -> SUBSET Entities]
  <2>1. [n \in Nodes |-> At(Matching, n)] \in [Nodes -> SUBSET Entities] BY <1>1
  <2> QED BY <1>8, <2>1
<1>10. \A n \in Nodes : Matching[n] = At(Matching, n) BY <1>8
<1> QED BY <1>9, <1>10 DEF At

LEMMA ChainExists ==
  /\ Chain \in [Nodes -> BOOLEAN]
  /\ \A n \in Nodes : Chain[n] = /\ n.node = "Where" /\ Conjunction[n.predicate]
                                 /\ n.source.node = "Constant" \/ Chain[n.source]
<1> DEFINE At(f, n) == /\ n.node = "Where" /\ Conjunction[n.predicate]
                       /\ n.source.node = "Constant" \/ f[n.source]
           F == [Nodes -> BOOLEAN]
           G == [p \in Nodes \X F |-> At(p[2], p[1])]
           E(f) == f = [n \in Nodes |-> At(f, n)]
<1>1. ASSUME NEW n, NEW f PROVE At(f, n) \in BOOLEAN
  OBVIOUS
<1>2. ASSUME NEW n \in Nodes, NEW f, NEW g, \A m \in Children(n) : f[m] = g[m]
      PROVE  At(f, n) = At(g, n)
  <2>1. CASE n.node = "Where"
    <3>1. f[n.source] = g[n.source] BY <1>2, <2>1 DEF Children
    <3> QED BY <3>1, Zenon
  <2>2. CASE n.node # "Where" BY <2>2, Zenon
  <2> QED BY <2>1, <2>2
<1> HIDE DEF At
<1>3. \E f \in F : \A n \in Nodes : f[n] = At(f, n)
  <2>1. G \in [Nodes \X F -> BOOLEAN] BY <1>1
  <2>2. \A n \in Nodes, f \in F : G[<<n, f>>] = At(f, n) OBVIOUS
  <2>3. ASSUME NEW n \in Nodes, NEW f \in F, NEW g \in F,
               \A m \in Children(n) : f[m] = g[m]
        PROVE  G[<<n, f>>] = G[<<n, g>>]
    <3> HIDE DEF F, G
    <3>1. At(f, n) = At(g, n) BY <1>2, <2>3
    <3> QED BY <2>2, <3>1
  <2> HIDE DEF G
  <2>4. LooksAtChildren(BOOLEAN, G) BY <2>1, <2>3 DEF LooksAtChildren
  <2>5. \E f \in F : \A n \in Nodes : f[n] = G[<<n, f>>] BY <2>4, TreeRecursion
  <2> QED BY <2>2, <2>5
<1>4. PICK f \in F : \A n \in Nodes : f[n] = At(f, n) BY <1>3
<1>5. E(f) BY <1>4
<1>6. Chain = CHOOSE g : E(g) BY Zenon DEF Chain, At
<1> HIDE DEF E
<1>7. E(Chain) BY <1>5, <1>6, Zenon
<1>8. Chain = [n \in Nodes |-> At(Chain, n)] BY <1>7 DEF E
<1>9. Chain \in [Nodes -> BOOLEAN]
  <2>1. [n \in Nodes |-> At(Chain, n)] \in [Nodes -> BOOLEAN] BY <1>1
  <2> QED BY <1>8, <2>1
<1>10. \A n \in Nodes : Chain[n] = At(Chain, n) BY <1>8
<1> QED BY <1>9, <1>10 DEF At

LEMMA SelectedExists ==
  /\ Selected \in [Nodes -> SUBSET Entities]
  /\ \A n \in Nodes :
       Selected[n] =
         {e \in Entities :
            n.node = "Where" => e \in Selected[n.source] \cap Matching[n.predicate]}
<1> DEFINE At(f, n) ==
             {e \in Entities :
                n.node = "Where" => e \in f[n.source] \cap Matching[n.predicate]}
           F == [Nodes -> SUBSET Entities]
           G == [p \in Nodes \X F |-> At(p[2], p[1])]
           E(f) == f = [n \in Nodes |-> At(f, n)]
<1>1. ASSUME NEW n, NEW f PROVE At(f, n) \in SUBSET Entities
  OBVIOUS
<1>2. ASSUME NEW n \in Nodes, NEW f, NEW g, \A m \in Children(n) : f[m] = g[m]
      PROVE  At(f, n) = At(g, n)
  BY <1>2 DEF Children
<1> HIDE DEF At
<1>3. \E f \in F : \A n \in Nodes : f[n] = At(f, n)
  <2>1. G \in [Nodes \X F -> SUBSET Entities] BY <1>1
  <2>2. \A n \in Nodes, f \in F : G[<<n, f>>] = At(f, n) OBVIOUS
  <2>3. ASSUME NEW n \in Nodes, NEW f \in F, NEW g \in F,
               \A m \in Children(n) : f[m] = g[m]
        PROVE  G[<<n, f>>] = G[<<n, g>>]
    <3> HIDE DEF F, G
    <3>1. At(f, n) = At(g, n) BY <1>2, <2>3
    <3> QED BY <2>2, <3>1
  <2> HIDE DEF G
  <2>4. LooksAtChildren(SUBSET Entities, G) BY <2>1, <2>3 DEF LooksAtChildren
  <2>5. \E f \in F : \A n \in Nodes : f[n] = G[<<n, f>>] BY <2>4, TreeRecursion
  <2> QED BY <2>2, <2>5
<1>4. PICK f \in F : \A n \in Nodes : f[n] = At(f, n) BY <1>3
<1>5. E(f) BY <1>4
<1>6. Selected = CHOOSE g : E(g) BY Zenon DEF Selected, At
<1> HIDE DEF E
<1>7. E(Selected) BY <1>5, <1>6, Zenon
<1>8. Selected = [n \in Nodes |-> At(Selected, n)] BY <1>7 DEF E
<1>9. Selected \in [Nodes -> SUBSET Entities]
  <2>1. [n \in Nodes |-> At(Selected, n)] \in [Nodes -> SUBSET Entities] BY <1>1
  <2> QED BY <1>8, <2>1
<1>10. \A n \in Nodes : Selected[n] = At(Selected, n) BY <1>8
<1> QED BY <1>9, <1>10 DEF At
-----------------------------------------------------------------------------
(* The queries of a comparison and of a conjunction.                       *)

Translated(qs) == [ok |-> TRUE, queries |-> qs]

Query(t, f, v) == [type |-> t, field |-> f, value |-> v]

FieldSets == SUBSET MemberNames
ValueSets == SUBSET ConstantValues

Latest(qs, t, f, v) == Translated(Append(qs, Query(t, f, v)))

LEMMA ChangeQueries ==
  ASSUME NEW s, NEW t
  PROVE  [Translated(s) EXCEPT !.queries = t] = Translated(t)
<1>1. ASSUME NEW o
      PROVE  [[ok |-> o, queries |-> s] EXCEPT !.queries = t] = [ok |-> o, queries |-> t]
  OBVIOUS
<1> QED BY <1>1, Zenon DEF Translated

LEMMA ChangeField ==
  ASSUME NEW t, NEW f, NEW v, NEW x
  PROVE  [Query(t, f, v) EXCEPT !["field"] = x] = Query(t, x, v)
BY DEF Query

LEMMA ChangeValue ==
  ASSUME NEW t, NEW f, NEW v, NEW x
  PROVE  [Query(t, f, v) EXCEPT !["value"] = x] = Query(t, f, x)
BY DEF Query

LEMMA SetLast ==
  ASSUME NEW qs \in Seq(QueryDto), NEW q \in QueryDto, NEW p \in QueryDto
  PROVE  /\ Translated(Append(qs, q)) \in Translations
         /\ Append(qs, q) # << >>
         /\ Append(qs, q)[Len(Append(qs, q))] = q
         /\ [Append(qs, q) EXCEPT ![Len(Append(qs, q))] = p] = Append(qs, p)
<1> DEFINE s == Append(qs, q)
           t == Append(qs, p)
<1>1. /\ s \in Seq(QueryDto) /\ t \in Seq(QueryDto) /\ Len(qs) \in Nat
      /\ Len(s) = Len(qs) + 1 /\ Len(t) = Len(qs) + 1
      /\ \A i \in 1..Len(qs) : s[i] = qs[i] /\ t[i] = qs[i]
      /\ s[Len(qs) + 1] = q /\ t[Len(qs) + 1] = p
  OBVIOUS
<1> HIDE DEF s, t
<1> DEFINE u == [s EXCEPT ![Len(s)] = p]
<1>2. Len(s) \in 1..Len(s) BY <1>1
<1>3. /\ u \in Seq(QueryDto) /\ Len(u) = Len(s)
      /\ \A j \in 1..Len(s) : u[j] = IF j = Len(s) THEN p ELSE s[j]
  BY <1>1, <1>2, ExceptSeq
<1> HIDE DEF u
<1>4. \A i \in 1..Len(u) : u[i] = t[i] BY <1>1, <1>3
<1>5. u = t BY <1>1, <1>3, <1>4, SeqEqual
<1>6. s # << >> BY <1>1
<1>7. Translated(s) \in Translations BY <1>1 DEF Translated, Translations
<1> QED BY <1>1, <1>5, <1>6, <1>7 DEF s, t, u

(* A property, and a constant, are put into the last query.                *)
NameOf(n) == {n.name}

LEMMA PropertyVisited ==
  ASSUME NEW n \in Nodes, IsProperty(n), NEW qs \in Seq(QueryDto),
         NEW t \in MethodTypes, NEW f \in FieldSets, NEW v \in ValueSets
  PROVE  /\ NameOf(n) \in FieldSets
         /\ Visit[n][Latest(qs, t, f, v)] = Latest(qs, t, NameOf(n), v)
<1> DEFINE q == Query(t, f, v)
           s == Append(qs, q)
           r == Translated(s)
           x == NameOf(n)
           p == Query(t, x, v)
<1>1. q \in QueryDto BY DEF Query, QueryDto, FieldSets, ValueSets
<1>2. /\ r \in Translations /\ s # << >> /\ s[Len(s)] = q BY <1>1, SetLast
<1>3. r.ok /\ r.queries = s BY DEF Translated
<1>4. Visit[n][r] = VisitNode(Visit, n, r) BY <1>2, <1>3, VisitExists
<1>5. n.node = "MemberAccess" BY DEF IsProperty
<1>6. x \in FieldSets BY <1>5 DEF MemberNames, FieldSets, NameOf
<1>7. VisitNode(Visit, n, r) = SetCurrent(r, "field", x)
  BY <1>5 DEF VisitNode, VisitMember, NameOf
<1> HIDE DEF x
<1>8. p \in QueryDto BY <1>6 DEF Query, QueryDto, FieldSets, ValueSets
<1>9. [q EXCEPT !["field"] = x] = p BY ChangeField
<1>10. [s EXCEPT ![Len(s)] = p] = Append(qs, p) BY <1>1, <1>8, SetLast
<1> HIDE DEF p, q, s, r
<1>11. SetCurrent(r, "field", x)
         = [r EXCEPT !.queries = [s EXCEPT ![Len(s)] = [q EXCEPT !["field"] = x]]]
  BY <1>2, <1>3 DEF SetCurrent
<1>12. SetCurrent(r, "field", x) = [r EXCEPT !.queries = Append(qs, p)]
  BY <1>9, <1>10, <1>11
<1>13. [r EXCEPT !.queries = Append(qs, p)] = Translated(Append(qs, p))
  BY ChangeQueries DEF r
<1> QED BY <1>4, <1>6, <1>7, <1>12, <1>13 DEF p, x, r, s, q, Latest

LEMMA TextVisited ==
  ASSUME NEW n \in Nodes, IsText(n), NEW qs \in Seq(QueryDto),
         NEW t \in MethodTypes, NEW f \in FieldSets, NEW v \in ValueSets
  PROVE  /\ n.value \in ValueSets
         /\ Visit[n][Latest(qs, t, f, v)] = Latest(qs, t, f, n.value)
<1> DEFINE q == Query(t, f, v)
           s == Append(qs, q)
           r == Translated(s)
           x == n.value
           p == Query(t, f, x)
<1>1. q \in QueryDto BY DEF Query, QueryDto, FieldSets, ValueSets
<1>2. /\ r \in Translations /\ s # << >> /\ s[Len(s)] = q BY <1>1, SetLast
<1>3. r.ok /\ r.queries = s BY DEF Translated
<1>4. Visit[n][r] = VisitNode(Visit, n, r) BY <1>2, <1>3, VisitExists
<1>5. n.node = "Constant" /\ n.value # {} BY DEF IsText
<1>6. x \in ValueSets BY <1>5 DEF ConstantValues, ValueSets
<1>7. VisitNode(Visit, n, r) = SetCurrent(r, "value", x)
  BY <1>5 DEF VisitNode, VisitConstant
<1> HIDE DEF x
<1>8. p \in QueryDto BY <1>6 DEF Query, QueryDto, FieldSets, ValueSets
<1>9. [q EXCEPT !["value"] = x] = p BY ChangeValue
<1>10. [s EXCEPT ![Len(s)] = p] = Append(qs, p) BY <1>1, <1>8, SetLast
<1> HIDE DEF p, q, s, r
<1>11. SetCurrent(r, "value", x)
         = [r EXCEPT !.queries = [s EXCEPT ![Len(s)] = [q EXCEPT !["value"] = x]]]
  BY <1>2, <1>3 DEF SetCurrent
<1>12. SetCurrent(r, "value", x) = [r EXCEPT !.queries = Append(qs, p)]
  BY <1>9, <1>10, <1>11
<1>13. [r EXCEPT !.queries = Append(qs, p)] = Translated(Append(qs, p))
  BY ChangeQueries DEF r
<1> QED BY <1>4, <1>6, <1>7, <1>12, <1>13 DEF p, x, r, s, q, Latest

(* In either order they make a query that compares them; whatever else     *)
(* they are visited for makes no difference.                               *)
LEMMA OperandsVisited ==
  ASSUME NEW a \in Nodes, IsProperty(a), NEW b \in Nodes, IsText(b),
         NEW qs \in Seq(QueryDto), NEW t \in MethodTypes,
         NEW f \in FieldSets, NEW v \in ValueSets
  PROVE  /\ NameOf(a) \in FieldSets /\ b.value \in ValueSets
         /\ VisitTwo(Visit, a, b, Latest(qs, t, f, v))
              = Latest(qs, t, NameOf(a), b.value)
         /\ VisitTwo(Visit, b, a, Latest(qs, t, f, v))
              = Latest(qs, t, NameOf(a), b.value)
<1>1. NameOf(a) \in FieldSets /\ b.value \in ValueSets
  BY PropertyVisited, TextVisited
<1>2. \A g \in FieldSets, u \in ValueSets :
        Visit[a][Latest(qs, t, g, u)] = Latest(qs, t, NameOf(a), u)
  BY PropertyVisited
<1>3. \A g \in FieldSets, u \in ValueSets :
        Visit[b][Latest(qs, t, g, u)] = Latest(qs, t, g, b.value)
  BY TextVisited
<1> QED BY <1>1, <1>2, <1>3 DEF VisitTwo

LEMMA ComparisonAnswered ==
  ASSUME NEW a \in Nodes, IsProperty(a), NEW b \in Nodes, IsText(b),
         NEW t, NEW e \in Entities
  PROVE  /\ ~QueryThrows(Query(t, NameOf(a), b.value), e)
         /\ HandleQuery(Query(t, NameOf(a), b.value), e)
              <=> Compare(t, Text(a, e), Text(b, e))
<1> DEFINE q == Query(t, NameOf(a), b.value)
           w == CHOOSE v \in b.value : TRUE
<1>1. q.type = t /\ q.field = {a.name} /\ q.value = b.value BY DEF Query, NameOf
<1>2. a.name \in DOMAIN e BY EntitiesAssumption DEF IsProperty
<1>3. b.value # {} /\ b.node = "Constant" BY DEF IsText
<1>4. w \in b.value BY <1>3
<1>5. \A v \in b.value : v = w BY <1>3, <1>4, TreesAssumption
<1>6. Text(b, e) = w BY <1>3 DEF Text
<1>7. Text(a, e) = e[a.name] BY DEF Text, IsProperty
<1> HIDE DEF q, w
<1>8. ~QueryThrows(q, e) BY <1>1, <1>2, <1>3 DEF QueryThrows
<1>9. HandleQuery(q, e) <=> Compare(t, e[a.name], w)
  BY <1>1, <1>4, <1>5 DEF HandleQuery
<1> QED BY <1>6, <1>7, <1>8, <1>9 DEF q

(* A comparison becomes one query, which never throws and says what the    *)
(* comparison says.                                                        *)
Says(q, n) ==
  /\ \A qs \in Seq(QueryDto) : Visit[n][Translated(qs)] = Translated(Append(qs, q))
  /\ \A e \in Entities : ~QueryThrows(q, e) /\ (HandleQuery(q, e) <=> Holds(n, e))

LEMMA ComparisonVisited ==
  ASSUME NEW n \in Nodes, Comparison(n)
  PROVE  \E q \in QueryDto : Says(q, n)
<1>1. ASSUME NEW qs \in Seq(QueryDto), NEW t \in MethodTypes
      PROVE  /\ Visit[n][Translated(qs)] = VisitNode(Visit, n, Translated(qs))
             /\ NewQuery(Translated(qs), t) = Latest(qs, t, {}, {})
  <2>1. Translated(qs) \in Translations /\ Translated(qs).ok
    BY DEF Translated, Translations
  <2>2. Translated(qs).queries = qs BY DEF Translated
  <2>3. NewQuery(Translated(qs), t)
          = [Translated(qs) EXCEPT !.queries = Append(qs, Query(t, {}, {}))]
    BY <2>2 DEF NewQuery, Query
  <2>4. [Translated(qs) EXCEPT !.queries = Append(qs, Query(t, {}, {}))]
          = Latest(qs, t, {}, {})
    BY ChangeQueries DEF Latest
  <2> QED BY <2>1, <2>3, <2>4, VisitExists
<1>2. ASSUME n.node = "Call", ResolveStringMethodType(n.method),
             IsProperty(n.object), IsText(n.argument)
      PROVE  \E q \in QueryDto : Says(q, n)
  <2> DEFINE a == n.object
             b == n.argument
             t == n.method
             q == Query(t, NameOf(a), b.value)
  <2>1. a \in Nodes /\ b \in Nodes BY <1>2, ChildrenLower DEF Children
  <2>2. t \in MethodTypes BY <1>2 DEF ResolveStringMethodType
  <2>3. {} \in FieldSets /\ {} \in ValueSets BY DEF FieldSets, ValueSets
  <2>4. NameOf(a) \in FieldSets /\ b.value \in ValueSets
    BY <1>2, <2>1, <2>2, <2>3, EmptySeq, OperandsVisited
  <2>5. q \in QueryDto BY <2>2, <2>4 DEF Query, QueryDto, FieldSets, ValueSets
  <2>6. ASSUME NEW qs \in Seq(QueryDto)
        PROVE  Visit[n][Translated(qs)] = Translated(Append(qs, q))
    <3> DEFINE z == Latest(qs, t, NameOf(a), b.value)
    <3>1. VisitTwo(Visit, a, b, Latest(qs, t, {}, {})) = z
      BY <1>2, <2>1, <2>2, <2>3, OperandsVisited
    <3>2. VisitTwo(Visit, a, b, z) = z
      BY <1>2, <2>1, <2>2, <2>4, OperandsVisited
    <3>3. VisitNode(Visit, n, Translated(qs))
            = VisitTwo(Visit, a, b, VisitTwo(Visit, a, b, NewQuery(Translated(qs), t)))
      BY <1>2 DEF VisitNode, VisitMethodCall
    <3>4. Translated(Append(qs, q)) = z BY DEF Latest
    <3> HIDE DEF a, b, t, q, z
    <3> QED BY <1>1, <2>2, <3>1, <3>2, <3>3, <3>4
  <2>7. ASSUME NEW e \in Entities
        PROVE  ~QueryThrows(q, e) /\ (HandleQuery(q, e) <=> Holds(n, e))
    <3>1. Holds(n, e) <=> Compare(t, Text(a, e), Text(b, e)) BY <1>2 DEF Holds
    <3> QED BY <1>2, <2>1, <3>1, ComparisonAnswered
  <2> HIDE DEF q
  <2>8. Says(q, n) BY <2>6, <2>7 DEF Says
  <2> QED BY <2>5, <2>8
<1>3. ASSUME n.node = "Binary", n.op = "Equal", NEW a, NEW b, IsProperty(a), IsText(b),
             \/ a = n.left /\ b = n.right
             \/ a = n.right /\ b = n.left
      PROVE  \E q \in QueryDto : Says(q, n)
  <2> DEFINE q == Query("Equals", NameOf(a), b.value)
  <2>1. a \in Nodes /\ b \in Nodes BY <1>3, ChildrenLower DEF Children
  <2>2. "Equals" \in MethodTypes BY DEF MethodTypes
  <2>3. {} \in FieldSets /\ {} \in ValueSets BY DEF FieldSets, ValueSets
  <2>4. NameOf(a) \in FieldSets /\ b.value \in ValueSets
    BY <1>3, <2>1, <2>2, <2>3, EmptySeq, OperandsVisited
  <2>5. q \in QueryDto BY <2>2, <2>4 DEF Query, QueryDto, FieldSets, ValueSets
  <2>6. ASSUME NEW qs \in Seq(QueryDto)
        PROVE  Visit[n][Translated(qs)] = Translated(Append(qs, q))
    <3> DEFINE z == Latest(qs, "Equals", NameOf(a), b.value)
    <3>1. /\ VisitTwo(Visit, a, b, Latest(qs, "Equals", {}, {})) = z
          /\ VisitTwo(Visit, b, a, Latest(qs, "Equals", {}, {})) = z
      BY <1>3, <2>1, <2>2, <2>3, OperandsVisited
    <3>2. TryGetOperands(n.left, n.right)
      BY <1>3 DEF TryGetOperands, IsProperty, IsText
    <3>3. VisitNode(Visit, n, Translated(qs))
            = VisitTwo(Visit, n.left, n.right, NewQuery(Translated(qs), "Equals"))
      BY <1>3, <3>2 DEF VisitNode, VisitBinary
    <3>4. Translated(Append(qs, q)) = z BY DEF Latest
    <3> HIDE DEF q, z
    <3> QED BY <1>1, <1>3, <2>2, <3>1, <3>3, <3>4
  <2>7. ASSUME NEW e \in Entities
        PROVE  ~QueryThrows(q, e) /\ (HandleQuery(q, e) <=> Holds(n, e))
    <3>1. Holds(n, e) <=> Compare("Equals", Text(a, e), Text(b, e))
      BY <1>3 DEF Holds, Compare
    <3> QED BY <1>3, <2>1, <3>1, ComparisonAnswered
  <2> HIDE DEF q
  <2>8. Says(q, n) BY <2>6, <2>7 DEF Says
  <2> QED BY <2>5, <2>8
<1> QED BY <1>2, <1>3 DEF Comparison

(* A conjunction becomes the queries of its comparisons, in order; an      *)
(* entity passes them all exactly if the conjunction holds of it.          *)
Means(qs, n) ==
  /\ \A s \in Seq(QueryDto) : Visit[n][Translated(s)] = Translated(s \o qs)
  /\ \A e \in Entities :
       /\ \A k \in DOMAIN qs : ~QueryThrows(qs[k], e)
       /\ e \in Matching[n] <=> \A k \in DOMAIN qs : HandleQuery(qs[k], e)

LEMMA ComparisonMeans ==
  ASSUME NEW n \in Nodes, Comparison(n)
  PROVE  \E qs \in Seq(QueryDto) : Means(qs, n)
<1>1. PICK q \in QueryDto : Says(q, n) BY ComparisonVisited
<1> DEFINE qs == <<q>>
<1>2. /\ qs \in Seq(QueryDto) /\ DOMAIN qs = {1} /\ qs[1] = q
      /\ \A s \in Seq(QueryDto) : s \o qs = Append(s, q)
  OBVIOUS
<1>3. ~IsAnd(n) BY DEF Comparison, IsAnd
<1>4. \A e \in Entities : e \in Matching[n] <=> Holds(n, e)
  BY <1>3, MatchingExists
<1> HIDE DEF qs
<1>5. Means(qs, n) BY <1>1, <1>2, <1>4 DEF Means, Says
<1> QED BY <1>2, <1>5

LEMMA BothMean ==
  ASSUME NEW n \in Nodes, IsAnd(n), NEW ps \in Seq(QueryDto), Means(ps, n.left),
         NEW qs \in Seq(QueryDto), Means(qs, n.right)
  PROVE  ps \o qs \in Seq(QueryDto) /\ Means(ps \o qs, n)
<1> DEFINE both == ps \o qs
<1>1. /\ both \in Seq(QueryDto) /\ Len(ps) \in Nat /\ Len(qs) \in Nat
      /\ DOMAIN ps = 1..Len(ps) /\ DOMAIN qs = 1..Len(qs)
      /\ DOMAIN both = 1..Len(ps) + Len(qs)
      /\ \A k \in DOMAIN ps : both[k] = ps[k]
      /\ \A k \in DOMAIN qs : both[Len(ps) + k] = qs[k]
  OBVIOUS
<1>2. \A k \in DOMAIN both :
        \/ k \in DOMAIN ps
        \/ \E j \in DOMAIN qs : k = Len(ps) + j
  <2>1. ASSUME NEW k \in 1..Len(ps) + Len(qs), k \notin 1..Len(ps)
        PROVE  k - Len(ps) \in 1..Len(qs) /\ k = Len(ps) + (k - Len(ps))
    BY <1>1, <2>1
  <2> QED BY <1>1, <2>1
<1>3. /\ \A k \in DOMAIN ps : k \in DOMAIN both
      /\ \A k \in DOMAIN qs : Len(ps) + k \in DOMAIN both
  BY <1>1
<1>4. ASSUME NEW s \in Seq(QueryDto)
      PROVE  Visit[n][Translated(s)] = Translated(s \o both)
  <2>1. Translated(s) \in Translations /\ Translated(s).ok
    BY DEF Translated, Translations
  <2>2. Visit[n][Translated(s)] = VisitNode(Visit, n, Translated(s))
    BY <2>1, VisitExists
  <2>3. VisitNode(Visit, n, Translated(s)) = Visit[n.right][Visit[n.left][Translated(s)]]
    BY DEF IsAnd, VisitNode, VisitBinary, VisitTwo
  <2>4. Visit[n.left][Translated(s)] = Translated(s \o ps) BY DEF Means
  <2>5. s \o ps \in Seq(QueryDto) OBVIOUS
  <2>6. Visit[n.right][Translated(s \o ps)] = Translated((s \o ps) \o qs)
    BY <2>5 DEF Means
  <2>7. (s \o ps) \o qs = s \o both BY ConcatAssociative
  <2> HIDE DEF both
  <2> QED BY <2>2, <2>3, <2>4, <2>6, <2>7
<1> HIDE DEF both
<1>5. ASSUME NEW e \in Entities
      PROVE  /\ \A k \in DOMAIN both : ~QueryThrows(both[k], e)
             /\ e \in Matching[n] <=> \A k \in DOMAIN both : HandleQuery(both[k], e)
  <2>1. e \in Matching[n] <=> e \in Matching[n.left] /\ e \in Matching[n.right]
    BY MatchingExists
  <2>2. \A k \in DOMAIN both : ~QueryThrows(both[k], e)
    BY <1>1, <1>2 DEF Means
  <2>3. (\A k \in DOMAIN both : HandleQuery(both[k], e))
          <=> /\ \A k \in DOMAIN ps : HandleQuery(ps[k], e)
              /\ \A k \in DOMAIN qs : HandleQuery(qs[k], e)
    BY <1>1, <1>2, <1>3
  <2> QED BY <2>1, <2>2, <2>3 DEF Means
<1>6. Means(both, n) BY <1>4, <1>5 DEF Means
<1> QED BY <1>1, <1>6 DEF both

LEMMA ConjunctionVisited ==
  \A n \in Nodes : Conjunction[n] => \E qs \in Seq(QueryDto) : Means(qs, n)
<1> DEFINE S == {n \in Nodes : Conjunction[n] => \E qs \in Seq(QueryDto) : Means(qs, n)}
<1>1. ASSUME NEW n \in Nodes, \A m \in Children(n) : m \in S, Conjunction[n]
      PROVE  \E qs \in Seq(QueryDto) : Means(qs, n)
  <2>1. CASE ~IsAnd(n)
    <3>1. Comparison(n) BY <1>1, <2>1, ConjunctionExists
    <3> QED BY <3>1, ComparisonMeans
  <2>2. CASE IsAnd(n)
    <3>1. n.left \in Children(n) /\ n.right \in Children(n)
      BY <2>2 DEF IsAnd, Children
    <3>2. Conjunction[n.left] /\ Conjunction[n.right]
      BY <1>1, <2>2, ConjunctionExists
    <3>3. PICK ps \in Seq(QueryDto) : Means(ps, n.left) BY <1>1, <3>1, <3>2
    <3>4. PICK qs \in Seq(QueryDto) : Means(qs, n.right) BY <1>1, <3>1, <3>2
    <3>5. ps \o qs \in Seq(QueryDto) /\ Means(ps \o qs, n)
      BY <2>2, <3>3, <3>4, BothMean
    <3> QED BY <3>5
  <2> QED BY <2>1, <2>2
<1>2. \A n \in Nodes : (\A m \in Children(n) : m \in S) => n \in S BY <1>1
<1> HIDE DEF S
<1>3. Nodes \subseteq S BY <1>2, TreeInduction
<1> QED BY <1>3 DEF S

(* A chain of Where is always translated, and to what selects its last     *)
(* predicate; no entity brings its queries to throw.                       *)
LEMMA ChainTranslated ==
  ASSUME NEW exp \in Nodes, Chain[exp]
  PROVE  /\ Translate(exp).ok
         /\ ~ConvertThrows(Translate(exp).queries)
         /\ Convert(Translate(exp).queries) = Matching[exp.predicate]
<1> DEFINE p == exp.predicate
<1>1. exp.node = "Where" /\ Conjunction[p] BY ChainExists
<1>2. p \in Nodes BY <1>1, ChildrenLower DEF Children
<1>3. PICK qs \in Seq(QueryDto) : Means(qs, p) BY <1>1, <1>2, ConjunctionVisited
<1>4. Translated(<< >>) \in Translations /\ Translated(<< >>).ok
  BY DEF Translated, Translations
<1>5. Translate(exp) = Visit[exp][Translated(<< >>)] BY DEF Translate, Translated
<1>6. Visit[exp][Translated(<< >>)] = Visit[p][Translated(<< >>)]
  BY <1>1, <1>4, VisitExists DEF VisitNode
<1>7. Visit[p][Translated(<< >>)] = Translated(qs)
  <2>1. << >> \in Seq(QueryDto) /\ << >> \o qs = qs BY EmptySeq, ConcatEmptySeq
  <2> QED BY <1>3, <2>1 DEF Means
<1>8. Translate(exp) = Translated(qs) BY <1>5, <1>6, <1>7
<1>9. Translate(exp).ok /\ Translate(exp).queries = qs BY <1>8 DEF Translated
<1>10. ~ConvertThrows(qs) BY <1>3 DEF Means, ConvertThrows
<1>11. Matching[p] \subseteq Entities BY <1>2, MatchingExists
<1>12. Convert(qs) = Matching[p] BY <1>3, <1>11 DEF Means, Convert
<1> QED BY <1>9, <1>10, <1>12
-----------------------------------------------------------------------------
(* The calls and the server.  A request carries what its caller's          *)
(* expression translates to; an answer is what these queries select; who   *)
(* brought the server down had queries that throw.                         *)
Request == [from : Clients, queries : Seq(QueryDto)]

PostedOK ==
  /\ posted \in Seq(Request)
  /\ \A i \in DOMAIN posted :
       /\ client[posted[i].from].state = "waiting"
       /\ posted[i].queries = Translate(client[posted[i].from].exp).queries
       /\ \A j \in DOMAIN posted : posted[i].from = posted[j].from => i = j

CallsOK ==
  /\ client = [c \in Clients |-> client[c]]
  /\ \A c \in Clients :
       /\ client[c].state \in {"idle", "threw", "refused", "waiting", "answered"}
       /\ client[c].state = "idle" => client[c] = NotCalled
       /\ client[c].state # "idle" => client[c].exp \in Exprs
       /\ client[c].state = "threw" => ~Translate(client[c].exp).ok
       /\ client[c].state = "answered" =>
            client[c].answer = Convert(Translate(client[c].exp).queries)
       /\ c \in harmful =>
            client[c].state # "idle" /\ ConvertThrows(Translate(client[c].exp).queries)

QueryInv == server \in {"up", "down"} /\ PostedOK /\ CallsOK

LEMMA TranslateTyped == \A exp \in Exprs : Translate(exp) \in Translations
<1>1. [ok |-> TRUE, queries |-> << >>] \in Translations
  BY EmptySeq DEF Translations
<1>2. \A exp \in Exprs : Visit[exp] \in Visitors BY VisitExists, TreesAssumption
<1> QED BY <1>1, <1>2 DEF Translate, Visitors

LEMMA QueryInit == QueriesInit => QueryInv
<1> SUFFICES ASSUME QueriesInit PROVE QueryInv OBVIOUS
<1> USE DEF QueriesInit
<1>1. PostedOK BY EmptySeq DEF PostedOK
<1>2. CallsOK BY DEF CallsOK, NotCalled
<1> QED BY <1>1, <1>2 DEF QueryInv

LEMMA ExecuteKeeps ==
  ASSUME QueryInv, NEW c \in Clients, NEW exp \in Exprs, Execute(c, exp)
  PROVE  QueryInv'
<1> DEFINE t == Translate(exp)
<1> USE DEF QueryInv
<1>1. t \in Translations BY TranslateTyped
<1>2. server' = server /\ harmful' = harmful /\ client[c] = NotCalled BY DEF Execute
<1>3. client[c].state = "idle" BY <1>2 DEF NotCalled
<1>4. PICK s : /\ client' = [client EXCEPT ![c] = [state |-> s, exp |-> exp]]
               /\ \/ s = "threw" /\ ~t.ok /\ posted' = posted
                  \/ s = "refused" /\ posted' = posted
                  \/ /\ s = "waiting"
                     /\ posted' = Append(posted, [from |-> c, queries |-> t.queries])
  BY Zenon DEF Execute
<1> DEFINE now == [state |-> s, exp |-> exp]
<1>5. /\ client' = [d \in Clients |-> client'[d]]
      /\ client'[c] = now
      /\ \A d \in Clients : d # c => client'[d] = client[d]
  BY <1>4 DEF CallsOK
<1>6. now.state = s /\ now.exp = exp OBVIOUS
<1> HIDE DEF now, t
<1>7. CallsOK'
  <2>1. ASSUME NEW d \in Clients
        PROVE  /\ client'[d].state \in {"idle", "threw", "refused", "waiting", "answered"}
               /\ client'[d].state = "idle" => client'[d] = NotCalled
               /\ client'[d].state # "idle" => client'[d].exp \in Exprs
               /\ client'[d].state = "threw" => ~Translate(client'[d].exp).ok
               /\ client'[d].state = "answered" =>
                    client'[d].answer = Convert(Translate(client'[d].exp).queries)
               /\ d \in harmful' =>
                    /\ client'[d].state # "idle"
                    /\ ConvertThrows(Translate(client'[d].exp).queries)
    <3>1. CASE d # c BY <1>2, <1>5, <3>1 DEF CallsOK
    <3>2. CASE d = c
      <4>1. c \notin harmful BY <1>3 DEF CallsOK
      <4> QED BY <1>2, <1>4, <1>5, <1>6, <3>2, <4>1 DEF t
    <3> QED BY <3>1, <3>2
  <2> QED BY <1>5, <2>1 DEF CallsOK
<1>8. PostedOK'
  <2>1. ASSUME NEW i \in DOMAIN posted
        PROVE  posted[i].from # c /\ posted[i].from \in Clients
    <3>1. posted[i] \in Request BY DEF PostedOK
    <3>2. client[posted[i].from].state = "waiting" BY DEF PostedOK
    <3> QED BY <1>3, <3>1, <3>2 DEF Request
  <2>2. CASE posted' = posted BY <1>5, <2>1, <2>2 DEF PostedOK
  <2>3. CASE /\ s = "waiting"
             /\ posted' = Append(posted, [from |-> c, queries |-> t.queries])
    <3> DEFINE m == [from |-> c, queries |-> t.queries]
    <3>1. m \in Request /\ m.from = c /\ m.queries = t.queries
      BY <1>1 DEF Request, Translations
    <3> HIDE DEF m
    <3>2. /\ posted' \in Seq(Request) /\ Len(posted) \in Nat
          /\ DOMAIN posted = 1..Len(posted)
          /\ DOMAIN posted' = DOMAIN posted \cup {Len(posted) + 1}
          /\ Len(posted) + 1 \notin DOMAIN posted
          /\ \A i \in DOMAIN posted : posted'[i] = posted[i]
          /\ posted'[Len(posted) + 1] = m
      BY <2>3, <3>1 DEF PostedOK, m
    <3>3. \A i \in DOMAIN posted :
            /\ client'[posted[i].from].state = "waiting"
            /\ posted[i].queries = Translate(client'[posted[i].from].exp).queries
      BY <1>5, <2>1 DEF PostedOK
    <3>4. client'[m.from].state = "waiting" /\ m.queries = Translate(client'[m.from].exp).queries
      BY <1>5, <1>6, <2>3, <3>1 DEF t
    <3>5. \A i \in DOMAIN posted', j \in DOMAIN posted' :
            posted'[i].from = posted'[j].from => i = j
      BY <2>1, <3>1, <3>2 DEF PostedOK
    <3> QED BY <3>2, <3>3, <3>4, <3>5 DEF PostedOK
  <2> QED BY <1>4, <2>2, <2>3
<1> QED BY <1>2, <1>7, <1>8

LEMMA HeadAndTail ==
  ASSUME PostedOK, posted # << >>
  PROVE  /\ Head(posted) \in Request /\ 1 \in DOMAIN posted
         /\ Head(posted) = posted[1]
         /\ Tail(posted) \in Seq(Request)
         /\ \A i \in DOMAIN Tail(posted) :
              /\ i + 1 \in DOMAIN posted /\ Tail(posted)[i] = posted[i + 1]
              /\ i \in Nat \ {0}
<1>1. posted \in Seq(Request) BY DEF PostedOK
<1> HIDE DEF Request
<1>2. /\ Tail(posted) \in Seq(Request) /\ Len(Tail(posted)) = Len(posted) - 1
      /\ \A i \in 1..Len(Tail(posted)) : Tail(posted)[i] = posted[i + 1]
      /\ Len(posted) \in Nat /\ Len(posted) # 0
  BY <1>1, HeadTailProperties, EmptySeq
<1>3. DOMAIN posted = 1..Len(posted) /\ DOMAIN Tail(posted) = 1..Len(Tail(posted))
  BY <1>1, <1>2
<1> QED BY <1>1, <1>2, <1>3

LEMMA AnswerKeeps == ASSUME QueryInv, Answer PROVE QueryInv'
<1> USE DEF QueryInv
<1> DEFINE m == Head(posted)
           c == m.from
           now == [state |-> "answered", exp |-> client[c].exp,
                   answer |-> Convert(m.queries)]
<1>1. /\ server' = server /\ harmful' = harmful /\ posted # << >>
      /\ posted' = Tail(posted) /\ client' = [client EXCEPT ![c] = now]
  BY DEF Answer
<1>2. m \in Request /\ 1 \in DOMAIN posted /\ m = posted[1]
  BY <1>1, HeadAndTail
<1>3. /\ now.state = "answered" /\ now.exp = client[c].exp
      /\ now.answer = Convert(m.queries)
  OBVIOUS
<1>4. c \in Clients BY <1>2 DEF Request
<1>5. client[c].state = "waiting" /\ m.queries = Translate(client[c].exp).queries
  BY <1>2 DEF PostedOK
<1> HIDE DEF now
<1>6. /\ client' = [d \in Clients |-> client'[d]]
      /\ client'[c] = now
      /\ \A d \in Clients : d # c => client'[d] = client[d]
  BY <1>1, <1>4 DEF CallsOK
<1> HIDE DEF m, c
<1>7. CallsOK'
  <2>1. ASSUME NEW d \in Clients
        PROVE  /\ client'[d].state \in {"idle", "threw", "refused", "waiting", "answered"}
               /\ client'[d].state = "idle" => client'[d] = NotCalled
               /\ client'[d].state # "idle" => client'[d].exp \in Exprs
               /\ client'[d].state = "threw" => ~Translate(client'[d].exp).ok
               /\ client'[d].state = "answered" =>
                    client'[d].answer = Convert(Translate(client'[d].exp).queries)
               /\ d \in harmful' =>
                    /\ client'[d].state # "idle"
                    /\ ConvertThrows(Translate(client'[d].exp).queries)
    <3>1. CASE d # c BY <1>1, <1>6, <3>1 DEF CallsOK
    <3>2. CASE d = c BY <1>1, <1>3, <1>4, <1>5, <1>6, <3>2 DEF CallsOK
    <3> QED BY <3>1, <3>2
  <2> QED BY <1>6, <2>1 DEF CallsOK
<1>8. PostedOK'
  <2>1. ASSUME NEW i \in DOMAIN posted'
        PROVE  /\ i + 1 \in DOMAIN posted /\ posted'[i] = posted[i + 1]
               /\ i \in Nat \ {0}
    BY <1>1, <2>1, HeadAndTail
  <2>2. posted' \in Seq(Request) BY <1>1, HeadAndTail
  <2>3. ASSUME NEW i \in DOMAIN posted'
        PROVE  posted'[i].from # c /\ posted'[i].from \in Clients
    <3>1. i + 1 # 1 BY <2>1
    <3>2. posted[i + 1].from # posted[1].from BY <1>2, <2>1, <3>1 DEF PostedOK
    <3>3. posted[i + 1] \in Request BY <2>1 DEF PostedOK
    <3> QED BY <1>2, <2>1, <3>2, <3>3 DEF Request, c
  <2>4. ASSUME NEW i \in DOMAIN posted', NEW j \in DOMAIN posted',
               posted'[i].from = posted'[j].from
        PROVE  i = j
    <3>1. i + 1 = j + 1 BY <2>1, <2>4 DEF PostedOK
    <3> QED BY <2>1, <3>1
  <2>5. ASSUME NEW i \in DOMAIN posted'
        PROVE  /\ client'[posted'[i].from].state = "waiting"
               /\ posted'[i].queries = Translate(client'[posted'[i].from].exp).queries
    BY <1>6, <2>1, <2>3 DEF PostedOK
  <2> QED BY <2>2, <2>4, <2>5 DEF PostedOK
<1> QED BY <1>1, <1>7, <1>8

LEMMA CrashKeeps == ASSUME QueryInv, Crash PROVE QueryInv'
<1> USE DEF QueryInv
<1> DEFINE m == Head(posted)
           Refused(d) == [state |-> "refused", exp |-> client[d].exp]
<1>1. /\ server' = "down" /\ posted' = << >> /\ posted # << >>
      /\ harmful' = harmful \cup {m.from} /\ ConvertThrows(m.queries)
      /\ client' = [d \in Clients |-> IF client[d].state = "waiting" THEN Refused(d)
                                    ELSE client[d]]
  BY DEF Crash
<1>2. m \in Request /\ 1 \in DOMAIN posted /\ m = posted[1]
  BY <1>1, HeadAndTail
<1>3. /\ m.from \in Clients /\ client[m.from].state = "waiting"
      /\ ConvertThrows(Translate(client[m.from].exp).queries)
  BY <1>1, <1>2 DEF PostedOK, Request
<1>4. PostedOK' BY <1>1, EmptySeq DEF PostedOK
<1>5. \A d \in Clients : Refused(d).state = "refused" /\ Refused(d).exp = client[d].exp
  OBVIOUS
<1>6. \A d \in Clients :
        /\ client[d].state = "waiting" => client'[d] = Refused(d)
        /\ client[d].state # "waiting" => client'[d] = client[d]
  BY <1>1
<1>7. client' = [d \in Clients |-> client'[d]] BY <1>1
<1> HIDE DEF m, Refused
<1>8. ASSUME NEW d \in Clients
      PROVE  /\ client'[d].state \in {"idle", "threw", "refused", "waiting", "answered"}
             /\ client'[d].state = "idle" => client'[d] = NotCalled
             /\ client'[d].state # "idle" => client'[d].exp \in Exprs
             /\ client'[d].state = "threw" => ~Translate(client'[d].exp).ok
             /\ client'[d].state = "answered" =>
                  client'[d].answer = Convert(Translate(client'[d].exp).queries)
             /\ d \in harmful' =>
                  /\ client'[d].state # "idle"
                  /\ ConvertThrows(Translate(client'[d].exp).queries)
  <2>1. CASE client[d].state = "waiting" BY <1>1, <1>3, <1>5, <1>6, <2>1 DEF CallsOK
  <2>2. CASE client[d].state # "waiting"
    <3>1. d # m.from BY <1>3, <2>2
    <3> QED BY <1>1, <1>6, <2>2, <3>1 DEF CallsOK
  <2> QED BY <2>1, <2>2
<1>9. CallsOK' BY <1>7, <1>8 DEF CallsOK
<1> QED BY <1>1, <1>4, <1>9

LEMMA QueryNext == QueryInv /\ [QueriesNext]_queryVars => QueryInv'
<1> SUFFICES ASSUME QueryInv, [QueriesNext]_queryVars PROVE QueryInv' OBVIOUS
<1>1. ASSUME NEW c \in Clients, NEW exp \in Exprs, Execute(c, exp) PROVE QueryInv'
  BY <1>1, ExecuteKeeps
<1>2. CASE Answer BY <1>2, AnswerKeeps
<1>3. CASE Crash BY <1>3, CrashKeeps
<1>4. CASE UNCHANGED queryVars BY <1>4 DEF queryVars, QueryInv, PostedOK, CallsOK
<1> QED BY <1>1, <1>2, <1>3, <1>4 DEF QueriesNext

LEMMA QueryInvariant == QueriesSpec => []QueryInv
BY QueryInit, QueryNext, PTL DEF QueriesSpec

(* The requests and calls have their types: what is posted is a list of    *)
(* known comparisons, one request for each waiting call.                   *)
THEOREM QueriesTypeCorrect == QueriesSpec => []QueriesTypeOK
<1>1. QueryInv => QueriesTypeOK
  <2> SUFFICES ASSUME QueryInv PROVE QueriesTypeOK OBVIOUS
  <2>1. ASSUME NEW i \in DOMAIN posted, NEW k \in DOMAIN posted[i].queries
        PROVE  posted[i].queries[k].type \in MethodTypes
    <3>1. posted[i] \in Request BY DEF QueryInv, PostedOK
    <3>2. posted[i].queries \in Seq(QueryDto) BY <3>1 DEF Request
    <3>3. posted[i].queries[k] \in QueryDto BY <3>2
    <3> QED BY <3>3 DEF QueryDto
  <2> QED BY <2>1 DEF QueryInv, PostedOK, CallsOK, QueriesTypeOK
<1> QED BY <1>1, QueryInvariant, PTL

(* Execute and QueryConverter: an answer misses no entity of a chain, and  *)
(* is exact when there is one Where.                                       *)
THEOREM AnswersMissNothing == QueriesSpec => []AnswersComplete
<1>1. QueryInv => AnswersComplete
  <2> SUFFICES ASSUME QueryInv, NEW c \in Clients,
                      client[c].state = "answered", Chain[client[c].exp]
               PROVE  /\ Selected[client[c].exp] \subseteq client[c].answer
                      /\ client[c].exp.source.node = "Constant" =>
                           client[c].answer = Selected[client[c].exp]
    BY DEF AnswersComplete
  <2> DEFINE exp == client[c].exp
  <2>1. /\ exp \in Nodes
        /\ client[c].answer = Convert(Translate(exp).queries)
    BY TreesAssumption DEF QueryInv, CallsOK
  <2>2. client[c].answer = Matching[exp.predicate] BY <2>1, ChainTranslated
  <2>3. exp.node = "Where" BY <2>1, ChainExists
  <2>4. exp.source \in Nodes /\ exp.predicate \in Nodes
    BY <2>1, <2>3, ChildrenLower DEF Children
  <2>5. Matching[exp.predicate] \subseteq Entities BY <2>4, MatchingExists
  <2> HIDE DEF exp
  <2>6. \A e \in Entities : e \in Selected[exp] <=>
          e \in Selected[exp.source] /\ e \in Matching[exp.predicate]
    BY <2>1, <2>3, SelectedExists
  <2>7. Selected[exp] \subseteq Entities BY <2>1, SelectedExists
  <2>8. exp.source.node = "Constant" => \A e \in Entities : e \in Selected[exp.source]
    BY <2>4, SelectedExists
  <2> QED BY <2>2, <2>5, <2>6, <2>7, <2>8 DEF exp
<1> QED BY <1>1, QueryInvariant, PTL

(* HttpExpressionVisitor and HandleQuery: no chain of comparisons fails to *)
(* be translated or ends the server.                                       *)
THEOREM ChainsAreSurvived == QueriesSpec => []SurvivesChains
<1>1. QueryInv => SurvivesChains
  <2> SUFFICES ASSUME QueryInv, NEW c \in Clients,
                      client[c].state # "idle", Chain[client[c].exp]
               PROVE  client[c].state # "threw" /\ c \notin harmful
    BY DEF SurvivesChains
  <2>1. client[c].exp \in Nodes BY TreesAssumption DEF QueryInv, CallsOK
  <2> QED BY <2>1, ChainTranslated DEF QueryInv, CallsOK
<1> QED BY <1>1, QueryInvariant, PTL
-----------------------------------------------------------------------------
(* The trees that ExpressionTreeVisitor is given.                          *)

(* Induction up to N, for a set.                                           *)
LEMMA UpTo ==
  ASSUME NEW N \in Nat, NEW S, 0 \in S,
         \A n \in 1..N : n - 1 \in S => n \in S
  PROVE  \A n \in 0..N : n \in S
<1> DEFINE H == [n \in 0..N |-> n]
<1>1. H \in [0..N -> Nat] /\ \A n \in 0..N : H[n] = n OBVIOUS
<1> HIDE DEF H
<1>2. ASSUME NEW n \in 0..N, \A m \in 0..N : H[m] < H[n] => m \in S PROVE n \in S
  <2>1. CASE n = 0 BY <2>1
  <2>2. CASE n # 0
    <3>1. n \in 1..N /\ n - 1 \in 0..N /\ n - 1 < n BY <2>2
    <3>2. H[n - 1] < H[n] BY <1>1, <3>1
    <3>3. n - 1 \in S BY <1>2, <3>1, <3>2
    <3> QED BY <3>1, <3>3
  <2> QED BY <2>1, <2>2
<1>3. \A n \in 0..N : (\A m \in 0..N : H[m] < H[n] => m \in S) => n \in S
  BY <1>2
<1> DEFINE I == 0..N
<1>4. H \in [I -> Nat] /\ \A n \in I : (\A m \in I : H[m] < H[n] => m \in S) => n \in S
  BY <1>1, <1>3
<1> HIDE DEF I
<1>5. I \subseteq S BY <1>4, HeightInduction
<1> QED BY <1>5 DEF I

(* The trees with one level of operators above those of S.                 *)
Above(S) ==
  [node : {"Binary"}, op : {"Add", "Subtract", "Multiply", "AddChecked"},
   left : S, right : S]
  \cup [node : {"Unary"}, op : {"Increment", "Decrement", "Convert"}, operand : S]
  \cup S

LEMMA LevelsExist ==
  /\ Depth \in Nat
  /\ Rewriter!Level[0] = Rewriter!Leaves
  /\ \A k \in 1..Depth : Rewriter!Level[k] = Above(Rewriter!Level[k - 1])
<1>0. Depth \in Nat BY VisitorAssumption DEF Rewriter!TreesAssumption
<1> DEFINE At(f, k) == IF k = 0 THEN Rewriter!Leaves ELSE Above(f[k - 1])
           Adds(f, k) == \A n \in 0..k : f[n] = At(f, n)
           P(k) == \E f : f = [n \in 0..Depth |-> f[n]] /\ Adds(f, k)
           S == {k \in 0..Depth : P(k)}
<1>1. 0 \in S
  <2> DEFINE f == [n \in 0..Depth |-> Rewriter!Leaves]
  <2>1. f = [n \in 0..Depth |-> f[n]] /\ Adds(f, 0) BY <1>0
  <2> HIDE DEF f, Adds
  <2>2. P(0) BY <2>1
  <2> QED BY <1>0, <2>2
<1>2. ASSUME NEW k \in 1..Depth, k - 1 \in S PROVE k \in S
  <2>1. PICK f : f = [n \in 0..Depth |-> f[n]] /\ Adds(f, k - 1) BY <1>2
  <2> DEFINE g == [n \in 0..Depth |-> IF n = k THEN At(f, k) ELSE f[n]]
  <2>2. k \in 0..Depth /\ k - 1 \in 0..Depth /\ k # k - 1 BY <1>0
  <2>3. /\ g = [n \in 0..Depth |-> g[n]] /\ g[k] = At(f, k)
        /\ \A n \in 0..Depth : n # k => g[n] = f[n]
    BY <2>2
  <2> HIDE DEF g
  <2>4. ASSUME NEW n \in 0..k PROVE g[n] = At(g, n)
    <3>1. CASE n = k
      <4>1. g[k - 1] = f[k - 1] BY <2>2, <2>3
      <4>2. At(f, k) = At(g, k) BY <4>1
      <4> QED BY <2>3, <3>1, <4>2
    <3>2. CASE n # k
      <4>1. n \in 0..k - 1 /\ n \in 0..Depth BY <3>2, <1>0
      <4>2. f[n] = At(f, n) BY <2>1, <4>1
      <4>3. n = 0 \/ (n - 1 \in 0..Depth /\ n - 1 # k) BY <4>1, <1>0
      <4>4. n = 0 \/ g[n - 1] = f[n - 1] BY <2>3, <4>3
      <4>5. At(f, n) = At(g, n) BY <4>4
      <4> QED BY <2>3, <3>2, <4>1, <4>2, <4>5
    <3> QED BY <3>1, <3>2
  <2>5. Adds(g, k) BY <2>4
  <2> HIDE DEF Adds
  <2>6. P(k) BY <2>3, <2>5
  <2> QED BY <2>2, <2>6
<1>3. Depth \in S
  <2>1. Depth \in 0..Depth BY <1>0
  <2> HIDE DEF S
  <2> QED BY <1>0, <1>1, <1>2, <2>1, UpTo
<1>4. PICK f : f = [n \in 0..Depth |-> f[n]] /\ Adds(f, Depth) BY <1>3
<1> DEFINE E(g) == g = [n \in 0..Depth |-> At(g, n)]
<1>5. E(f) BY <1>4
<1>6. Rewriter!Level = CHOOSE g : E(g) BY Zenon DEF Rewriter!Level, Above
<1> HIDE DEF E
<1>7. E(Rewriter!Level) BY <1>5, <1>6, Zenon
<1>8. \A n \in 0..Depth : Rewriter!Level[n] = At(Rewriter!Level, n)
  <2> DEFINE l == Rewriter!Level
  <2>1. l = [n \in 0..Depth |-> At(l, n)] BY <1>7, Zenon DEF E
  <2> HIDE DEF l
  <2>2. \A n \in 0..Depth : l[n] = At(l, n)
    <3> HIDE DEF At
    <3> QED BY <2>1
  <2> QED BY <2>2 DEF l
<1>9. \A n \in 0..Depth : Rewriter!Level[n]
        = IF n = 0 THEN Rewriter!Leaves ELSE Above(Rewriter!Level[n - 1])
  BY <1>8
<1>10. 0 \in 0..Depth /\ \A k \in 1..Depth : k \in 0..Depth /\ k # 0 BY <1>0
<1> QED BY <1>0, <1>9, <1>10

LEMMA LevelsGrow ==
  \A k \in 0..Depth : \A j \in 0..k : Rewriter!Level[j] \subseteq Rewriter!Level[k]
<1> DEFINE Below(k) == \A j \in 0..k : Rewriter!Level[j] \subseteq Rewriter!Level[k]
           S == {k \in 0..Depth : Below(k)}
<1>0. Depth \in Nat BY LevelsExist
<1>1. 0 \in S BY <1>0
<1>2. ASSUME NEW k \in 1..Depth, k - 1 \in S PROVE k \in S
  <2>1. Rewriter!Level[k - 1] \subseteq Rewriter!Level[k] BY LevelsExist DEF Above
  <2>2. ASSUME NEW j \in 0..k PROVE Rewriter!Level[j] \subseteq Rewriter!Level[k]
    <3>1. CASE j = k BY <3>1
    <3>2. CASE j # k
      <4>1. j \in 0..k - 1 BY <1>0, <3>2
      <4> QED BY <1>2, <2>1, <4>1
    <3> QED BY <3>1, <3>2
  <2>3. k \in 0..Depth BY <1>0
  <2> QED BY <2>2, <2>3
<1> HIDE DEF S
<1>3. \A k \in 0..Depth : k \in S BY <1>0, <1>1, <1>2, UpTo
<1> QED BY <1>3 DEF S

(* The level of a tree is its height.                                      *)
Lowest(n, k) == /\ n \in Rewriter!Level[k]
                /\ \A j \in 0..Depth : n \in Rewriter!Level[j] => k <= j

LevelOf == [n \in Rewriter!AllTrees |-> CHOOSE k \in 0..Depth : Lowest(n, k)]

LEMMA LevelOfTyped ==
  /\ LevelOf \in [Rewriter!AllTrees -> Nat]
  /\ \A n \in Rewriter!AllTrees : LevelOf[n] \in 0..Depth /\ Lowest(n, LevelOf[n])
<1>1. ASSUME NEW n \in Rewriter!AllTrees PROVE \E k \in 0..Depth : Lowest(n, k)
  <2> DEFINE T == {k \in 0..Depth : n \in Rewriter!Level[k]}
  <2>1. T \subseteq Nat /\ T # {}
    <3>1. Depth \in 0..Depth BY LevelsExist
    <3> QED BY <3>1 DEF Rewriter!AllTrees
  <2>2. PICK k \in T : \A j \in T : <<j, k>> \notin OpToRel(<, Nat)
    BY <2>1, NatLessThanWellFounded, WFMin
  <2>3. \A j \in T : ~ (j < k) BY <2>1, <2>2, Zenon DEF OpToRel
  <2>4. \A j \in T : k <= j BY <2>1, <2>3
  <2>5. k \in 0..Depth /\ Lowest(n, k) BY <2>4 DEF Lowest
  <2> QED BY <2>5
<1>2. \A n \in Rewriter!AllTrees :
        (CHOOSE k \in 0..Depth : Lowest(n, k)) \in 0..Depth
        /\ Lowest(n, CHOOSE k \in 0..Depth : Lowest(n, k))
  BY <1>1
<1>3. \A n \in Rewriter!AllTrees : LevelOf[n] \in 0..Depth /\ Lowest(n, LevelOf[n])
  BY <1>2 DEF LevelOf
<1>4. LevelOf = [n \in Rewriter!AllTrees |-> LevelOf[n]] BY DEF LevelOf
<1>5. \A k \in 0..Depth : k \in Nat BY LevelsExist
<1> HIDE DEF LevelOf
<1>6. LevelOf \in [Rewriter!AllTrees -> Nat] BY <1>3, <1>4, <1>5
<1> QED BY <1>3, <1>6

LEMMA LevelIn ==
  ASSUME NEW k \in 0..Depth, NEW n \in Rewriter!Level[k]
  PROVE  n \in Rewriter!AllTrees /\ LevelOf[n] <= k
<1>1. Depth \in 0..Depth /\ k \in 0..Depth BY LevelsExist
<1>2. n \in Rewriter!AllTrees BY <1>1, LevelsGrow DEF Rewriter!AllTrees
<1> QED BY <1>2, LevelOfTyped DEF Lowest

BinaryOps == {"Add", "Subtract", "Multiply", "AddChecked"}
UnaryOps == {"Increment", "Decrement", "Convert"}

(* A tree is a leaf or has operands on lower levels.                       *)
LEMMA Shapes ==
  ASSUME NEW n \in Rewriter!AllTrees
  PROVE  \/ n \in Rewriter!Leaves
         \/ /\ LevelOf[n] \in 1..Depth /\ n.node = "Binary" /\ n.op \in BinaryOps
            /\ n.left \in Rewriter!Level[LevelOf[n] - 1]
            /\ n.right \in Rewriter!Level[LevelOf[n] - 1]
         \/ /\ LevelOf[n] \in 1..Depth /\ n.node = "Unary" /\ n.op \in UnaryOps
            /\ n.operand \in Rewriter!Level[LevelOf[n] - 1]
<1> DEFINE k == LevelOf[n]
<1>1. k \in 0..Depth /\ Lowest(n, k) BY LevelOfTyped
<1> HIDE DEF k
<1>2. Depth \in Nat BY LevelsExist
<1>3. CASE k = 0 BY <1>1, <1>3, LevelsExist DEF Lowest
<1>4. CASE k # 0
  <2>1. k \in 1..Depth /\ k - 1 \in 0..Depth /\ ~ (k <= k - 1) BY <1>1, <1>2, <1>4
  <2>2. n \notin Rewriter!Level[k - 1] BY <1>1, <2>1 DEF Lowest
  <2>3. n \in Above(Rewriter!Level[k - 1]) BY <1>1, <2>1, LevelsExist DEF Lowest
  <2>4. \/ n \in [node : {"Binary"}, op : BinaryOps,
                  left : Rewriter!Level[k - 1], right : Rewriter!Level[k - 1]]
        \/ n \in [node : {"Unary"}, op : UnaryOps, operand : Rewriter!Level[k - 1]]
    BY <2>2, <2>3 DEF Above, BinaryOps, UnaryOps
  <2> QED BY <2>1, <2>4 DEF k
<1> QED BY <1>3, <1>4

LEMMA LeafShapes ==
  ASSUME NEW n \in Rewriter!Leaves
  PROVE  /\ n.node \in {"Parameter", "Constant"} /\ n.type \in Rewriter!Types
         /\ n.node = "Constant" => n.value \in Int
         /\ n.node = "Parameter" =>
              \/ n.type = "int" /\ n.name \in Names
              \/ n.type = "long" /\ n.name \in LongNames
<1>1. CASE n \in [node : {"Parameter"}, type : {"int"}, name : Names]
  <2>1. n.node = "Parameter" /\ n.type = "int" /\ n.name \in Names BY <1>1
  <2> QED BY <2>1 DEF Rewriter!Types
<1>2. CASE n \in [node : {"Parameter"}, type : {"long"}, name : LongNames]
  <2>1. n.node = "Parameter" /\ n.type = "long" /\ n.name \in LongNames BY <1>2
  <2> QED BY <2>1 DEF Rewriter!Types
<1>3. CASE n \in [node : {"Constant"}, type : Rewriter!Types, value : Int]
  <2>1. n.node = "Constant" /\ n.type \in Rewriter!Types /\ n.value \in Int BY <1>3
  <2> QED BY <2>1
<1> QED BY <1>1, <1>2, <1>3 DEF Rewriter!Leaves

(* Operators on trees of a level make trees of the next.                   *)
LEMMA Built ==
  ASSUME NEW k \in 1..Depth, NEW l \in Rewriter!Level[k - 1]
  PROVE  /\ \A r \in Rewriter!Level[k - 1], op \in BinaryOps :
              Rewriter!Binary(op, l, r) \in Rewriter!Level[k]
         /\ \A op \in UnaryOps : Rewriter!Unary(op, l) \in Rewriter!Level[k]
<1>1. Rewriter!Level[k] = Above(Rewriter!Level[k - 1]) BY LevelsExist
<1>2. \A r \in Rewriter!Level[k - 1], op \in BinaryOps :
        Rewriter!Binary(op, l, r) \in Above(Rewriter!Level[k - 1])
  BY DEF Above, BinaryOps, Rewriter!Binary
<1>3. \A op \in UnaryOps : Rewriter!Unary(op, l) \in Above(Rewriter!Level[k - 1])
  BY DEF Above, UnaryOps, Rewriter!Unary
<1> QED BY <1>1, <1>2, <1>3

(* The operands of a tree are trees, and lower.                            *)
LEMMA OperandsLower ==
  \A n \in Rewriter!AllTrees : \A m \in Rewriter!Operands(n) :
    m \in Rewriter!AllTrees /\ LevelOf[m] < LevelOf[n]
<1> SUFFICES ASSUME NEW n \in Rewriter!AllTrees, NEW m \in Rewriter!Operands(n)
             PROVE  m \in Rewriter!AllTrees /\ LevelOf[m] < LevelOf[n]
  OBVIOUS
<1> DEFINE k == LevelOf[n]
<1>1. k \in 1..Depth /\ m \in Rewriter!Level[k - 1]
  <2>1. CASE n \in Rewriter!Leaves BY <2>1, LeafShapes DEF Rewriter!Operands
  <2>2. CASE n \notin Rewriter!Leaves BY <2>2, Shapes DEF Rewriter!Operands
  <2> QED BY <2>1, <2>2
<1> HIDE DEF k
<1>2. k - 1 \in 0..Depth /\ k \in Nat BY <1>1, LevelsExist
<1>3. m \in Rewriter!AllTrees /\ LevelOf[m] <= k - 1 BY <1>1, <1>2, LevelIn
<1>4. LevelOf[m] \in Nat BY <1>3, LevelOfTyped
<1>5. LevelOf[m] < k BY <1>2, <1>3, <1>4
<1> QED BY <1>3, <1>5 DEF k

LooksAtOperands(V, G) ==
  /\ V # {} /\ G \in [Rewriter!AllTrees \X [Rewriter!AllTrees -> V] -> V]
  /\ \A n \in Rewriter!AllTrees, f, g \in [Rewriter!AllTrees -> V] :
       (\A m \in Rewriter!Operands(n) : f[m] = g[m]) => G[<<n, f>>] = G[<<n, g>>]

LEMMA OperandRecursion ==
  ASSUME NEW V, NEW G, LooksAtOperands(V, G)
  PROVE  \E f \in [Rewriter!AllTrees -> V] :
           \A n \in Rewriter!AllTrees : f[n] = G[<<n, f>>]
<1> DEFINE N == Rewriter!AllTrees
<1> USE DEF LooksAtOperands
<1>1. LevelOf \in [N -> Nat] BY LevelOfTyped
<1>2. ASSUME NEW n \in N, NEW f \in [N -> V], NEW g \in [N -> V],
             \A m \in N : LevelOf[m] < LevelOf[n] => f[m] = g[m]
      PROVE  G[<<n, f>>] = G[<<n, g>>]
  <2>1. \A m \in Rewriter!Operands(n) : f[m] = g[m] BY <1>2, OperandsLower
  <2> QED BY <2>1
<1>3. \A n \in N, f, g \in [N -> V] :
        (\A m \in N : LevelOf[m] < LevelOf[n] => f[m] = g[m])
          => G[<<n, f>>] = G[<<n, g>>]
  BY <1>2
<1>4. LooksBelow(N, LevelOf, V, G) BY <1>1, <1>3 DEF LooksBelow
<1> HIDE DEF N, LooksAtOperands
<1>5. \E f \in [N -> V] : \A n \in N : f[n] = G[<<n, f>>] BY <1>4, Recursion
<1> QED BY <1>5 DEF N

LEMMA OperandInduction ==
  ASSUME NEW S, \A n \in Rewriter!AllTrees :
           (\A m \in Rewriter!Operands(n) : m \in S) => n \in S
  PROVE  Rewriter!AllTrees \subseteq S
<1> DEFINE N == Rewriter!AllTrees
<1>1. LevelOf \in [N -> Nat] BY LevelOfTyped
<1>2. \A n \in N : (\A m \in N : LevelOf[m] < LevelOf[n] => m \in S) => n \in S
  BY OperandsLower
<1> HIDE DEF N
<1>3. N \subseteq S BY <1>1, <1>2, HeightInduction
<1> QED BY <1>3 DEF N

(* A tree is a leaf or has operands that are trees.                        *)
LEMMA TreeShapes ==
  ASSUME NEW n \in Rewriter!AllTrees
  PROVE  \/ /\ n \in Rewriter!Leaves /\ n.node \in {"Parameter", "Constant"}
            /\ Rewriter!Operands(n) = {}
         \/ /\ n.node = "Binary" /\ n.op \in BinaryOps
            /\ Rewriter!Operands(n) = {n.left, n.right}
            /\ n.left \in Rewriter!AllTrees /\ n.right \in Rewriter!AllTrees
         \/ /\ n.node = "Unary" /\ n.op \in UnaryOps
            /\ Rewriter!Operands(n) = {n.operand}
            /\ n.operand \in Rewriter!AllTrees
<1>1. CASE n \in Rewriter!Leaves BY <1>1, LeafShapes DEF Rewriter!Operands
<1>2. CASE n \notin Rewriter!Leaves
  <2>1. n.node = "Binary" => Rewriter!Operands(n) = {n.left, n.right}
    BY DEF Rewriter!Operands
  <2>2. n.node = "Unary" => Rewriter!Operands(n) = {n.operand}
    BY DEF Rewriter!Operands
  <2> QED BY <1>2, <2>1, <2>2, Shapes, OperandsLower
<1> QED BY <1>1, <1>2

(* The types of trees, what they compute, and their subtrees exist.        *)
LEMMA TypeExists ==
  /\ Rewriter!Type \in [Rewriter!AllTrees -> Rewriter!Types]
  /\ \A n \in Rewriter!AllTrees :
       /\ n.node = "Binary" => Rewriter!Type[n] = Rewriter!Type[n.left]
       /\ n.node = "Unary" => Rewriter!Type[n]
            = IF n.op = "Convert" THEN "long" ELSE Rewriter!Type[n.operand]
       /\ n.node \in {"Parameter", "Constant"} => Rewriter!Type[n] = n.type
<1> DEFINE N == Rewriter!AllTrees
           At(f, n) == CASE n.node = "Binary"                     -> f[n.left]
                  [] n.node = "Unary" /\ n.op = "Convert"  -> "long"
                  [] n.node = "Unary" /\ n.op # "Convert"  -> f[n.operand]
                  [] OTHER                                 -> n.type
           F == [N -> Rewriter!Types]
           G == [p \in N \X F |-> At(p[2], p[1])]
           E(f) == f = [n \in N |-> At(f, n)]
<1>1. ASSUME NEW n \in N, NEW f, \A m \in Rewriter!Operands(n) : f[m] \in Rewriter!Types
      PROVE  At(f, n) \in Rewriter!Types
  BY <1>1, TreeShapes, LeafShapes DEF Rewriter!Types
<1>2. ASSUME NEW n \in N, NEW f, NEW g, \A m \in Rewriter!Operands(n) : f[m] = g[m]
      PROVE  At(f, n) = At(g, n)
  BY <1>2, TreeShapes
<1> HIDE DEF At
<1>3. \E f \in F : \A n \in N : f[n] = At(f, n)
  <2>1. G \in [N \X F -> Rewriter!Types]
    <3>1. ASSUME NEW n \in N, NEW f \in F PROVE At(f, n) \in Rewriter!Types
      <4>1. \A m \in Rewriter!Operands(n) : f[m] \in Rewriter!Types BY OperandsLower
      <4> QED BY <1>1, <4>1
    <3> QED BY <3>1
  <2>2. \A n \in N, f \in F : G[<<n, f>>] = At(f, n) OBVIOUS
  <2>3. ASSUME NEW n \in N, NEW f \in F, NEW g \in F,
               \A m \in Rewriter!Operands(n) : f[m] = g[m]
        PROVE  G[<<n, f>>] = G[<<n, g>>]
    <3> HIDE DEF F, G, N
    <3>1. At(f, n) = At(g, n) BY <1>2, <2>3
    <3> QED BY <2>2, <3>1
  <2> HIDE DEF G
  <2>4. Rewriter!Types # {} BY DEF Rewriter!Types
  <2>5. LooksAtOperands(Rewriter!Types, G) BY <2>1, <2>3, <2>4 DEF LooksAtOperands
  <2>6. \E f \in F : \A n \in N : f[n] = G[<<n, f>>] BY <2>5, OperandRecursion
  <2> QED BY <2>2, <2>6
<1>4. PICK f \in F : \A n \in N : f[n] = At(f, n) BY <1>3
<1>5. E(f) BY <1>4
<1>6. Rewriter!Type = CHOOSE g : E(g) BY Zenon DEF Rewriter!Type, At
<1> HIDE DEF E
<1>7. E(Rewriter!Type) BY <1>5, <1>6, Zenon
<1> DEFINE h == Rewriter!Type
<1>8. h = [n \in N |-> At(h, n)] BY <1>7, Zenon DEF E
<1> HIDE DEF h
<1>9. \A n \in N : h[n] = At(h, n) BY <1>8
<1> DEFINE S == {n \in N : h[n] \in Rewriter!Types}
<1>10. \A n \in N : h[n] \in Rewriter!Types
  <2>1. ASSUME NEW n \in N, \A m \in Rewriter!Operands(n) : m \in S PROVE n \in S
    <3>1. h[n] \in Rewriter!Types BY <1>1, <1>9, <2>1
    <3> QED BY <3>1
  <2> HIDE DEF S
  <2>2. N \subseteq S BY <2>1, OperandInduction
  <2> QED BY <2>2 DEF S
<1>11. h \in F
  <2>1. [n \in N |-> At(h, n)] \in F BY <1>9, <1>10
  <2> QED BY <1>8, <2>1
<1>12. \A n \in N :
         /\ n.node = "Binary" => h[n] = h[n.left]
         /\ n.node = "Unary" => h[n] = IF n.op = "Convert" THEN "long" ELSE h[n.operand]
         /\ n.node \in {"Parameter", "Constant"} => h[n] = n.type
  BY <1>9 DEF At
<1> QED BY <1>11, <1>12 DEF h

LEMMA WrapTyped ==
  ASSUME NEW type \in Rewriter!Types, NEW x \in Int
  PROVE  Rewriter!Wrap(type, x) \in Int
<1> DEFINE half == Half[type]
<1>1. half \in Nat \ {0} BY VisitorAssumption DEF Rewriter!TreesAssumption
<1> HIDE DEF half
<1> DEFINE d == 2 * half
           y == x + half
           z == y % d
<1>2. d \in Nat \ {0} /\ y \in Int BY <1>1
<1>3. \A a \in Int, b \in Nat \ {0} : a % b \in 0..b - 1 OBVIOUS
<1> HIDE DEF d, y
<1>4. z \in 0..d - 1 BY <1>2, <1>3
<1> HIDE DEF z
<1>5. z \in Int BY <1>2, <1>4
<1>6. z - half \in Int BY <1>1, <1>5
<1> QED BY <1>6 DEF Rewriter!Wrap, half, z, y, d

LEMMA ApplyTyped ==
  ASSUME NEW op \in BinaryOps \cup UnaryOps, NEW type \in Rewriter!Types,
         NEW x \in Int, NEW y \in Int
  PROVE  Rewriter!Apply(op, type, x, y) \subseteq Int
<1>1. /\ Rewriter!Wrap(type, x + y) \in Int /\ Rewriter!Wrap(type, x - y) \in Int
      /\ Rewriter!Wrap(type, x * y) \in Int /\ Rewriter!Wrap(type, x + 1) \in Int
      /\ Rewriter!Wrap(type, x - 1) \in Int
  <2>1. x + y \in Int /\ x - y \in Int /\ x * y \in Int /\ x + 1 \in Int /\ x - 1 \in Int
    OBVIOUS
  <2> QED BY <2>1, WrapTyped
<1> QED BY <1>1 DEF Rewriter!Apply, BinaryOps, UnaryOps

LEMMA EvalExists ==
  ASSUME NEW env \in [Names \cup LongNames -> Int]
  PROVE  /\ Rewriter!Eval(env) \in [Rewriter!AllTrees -> SUBSET Int]
         /\ \A n \in Rewriter!AllTrees :
              Rewriter!Eval(env)[n] = Rewriter!EvalNode(Rewriter!Eval(env), env, n)
<1> DEFINE N == Rewriter!AllTrees
           At(f, n) == Rewriter!EvalNode(f, env, n)
           F == [N -> SUBSET Int]
           G == [p \in N \X F |-> At(p[2], p[1])]
           E(f) == f = [n \in N |-> At(f, n)]
<1>1. ASSUME NEW n \in N, NEW f, \A m \in Rewriter!Operands(n) : f[m] \in SUBSET Int
      PROVE  At(f, n) \in SUBSET Int
  <2>1. CASE n \in Rewriter!Leaves
    BY <2>1, LeafShapes DEF Rewriter!EvalNode
  <2>2. CASE n.node = "Unary"
    <3>1. n.op \in UnaryOps /\ f[n.operand] \in SUBSET Int
      BY <1>1, <2>2, TreeShapes
    <3>2. \A x \in f[n.operand] :
            Rewriter!Apply(n.op, Rewriter!Type[n], x, 0) \subseteq Int
      BY <3>1, ApplyTyped, TypeExists
    <3> QED BY <2>2, <3>2 DEF Rewriter!EvalNode
  <2>3. CASE n.node = "Binary"
    <3>1. n.op \in BinaryOps /\ f[n.left] \in SUBSET Int /\ f[n.right] \in SUBSET Int
      BY <1>1, <2>3, TreeShapes
    <3>2. \A x \in f[n.left], y \in f[n.right] :
            Rewriter!Apply(n.op, Rewriter!Type[n], x, y) \subseteq Int
      BY <3>1, ApplyTyped, TypeExists
    <3> QED BY <2>3, <3>2 DEF Rewriter!EvalNode
  <2> QED BY <2>1, <2>2, <2>3, TreeShapes
<1>2. ASSUME NEW n \in N, NEW f, NEW g, \A m \in Rewriter!Operands(n) : f[m] = g[m]
      PROVE  At(f, n) = At(g, n)
  <2>1. CASE n.node \in {"Parameter", "Constant"} BY <2>1 DEF Rewriter!EvalNode
  <2>2. CASE n.node = "Unary"
    <3>1. f[n.operand] = g[n.operand] BY <1>2, <2>2, TreeShapes
    <3> QED BY <2>2, <3>1 DEF Rewriter!EvalNode
  <2>3. CASE n.node = "Binary"
    <3>1. f[n.left] = g[n.left] /\ f[n.right] = g[n.right] BY <1>2, <2>3, TreeShapes
    <3> QED BY <2>3, <3>1 DEF Rewriter!EvalNode
  <2> QED BY <2>1, <2>2, <2>3, TreeShapes
<1> HIDE DEF At
<1>3. \E f \in F : \A n \in N : f[n] = At(f, n)
  <2>1. G \in [N \X F -> SUBSET Int]
    <3>1. ASSUME NEW n \in N, NEW f \in F PROVE At(f, n) \in SUBSET Int
      <4>1. \A m \in Rewriter!Operands(n) : f[m] \in SUBSET Int BY OperandsLower
      <4> QED BY <1>1, <4>1
    <3> QED BY <3>1
  <2>2. \A n \in N, f \in F : G[<<n, f>>] = At(f, n) OBVIOUS
  <2>3. ASSUME NEW n \in N, NEW f \in F, NEW g \in F,
               \A m \in Rewriter!Operands(n) : f[m] = g[m]
        PROVE  G[<<n, f>>] = G[<<n, g>>]
    <3> HIDE DEF F, G, N
    <3>1. At(f, n) = At(g, n) BY <1>2, <2>3
    <3> QED BY <2>2, <3>1
  <2> HIDE DEF G
  <2>4. SUBSET Int # {} OBVIOUS
  <2>5. LooksAtOperands(SUBSET Int, G) BY <2>1, <2>3, <2>4 DEF LooksAtOperands
  <2>6. \E f \in F : \A n \in N : f[n] = G[<<n, f>>] BY <2>5, OperandRecursion
  <2> QED BY <2>2, <2>6
<1>4. PICK f \in F : \A n \in N : f[n] = At(f, n) BY <1>3
<1>5. E(f) BY <1>4
<1>6. Rewriter!Eval(env) = CHOOSE g : E(g) BY Zenon DEF Rewriter!Eval, At
<1> HIDE DEF E
<1>7. E(Rewriter!Eval(env)) BY <1>5, <1>6, Zenon
<1> DEFINE h == Rewriter!Eval(env)
<1>8. h = [n \in N |-> At(h, n)] BY <1>7, Zenon DEF E
<1> HIDE DEF h
<1>9. \A n \in N : h[n] = At(h, n) BY <1>8
<1> DEFINE S == {n \in N : h[n] \in SUBSET Int}
<1>10. \A n \in N : h[n] \in SUBSET Int
  <2>1. ASSUME NEW n \in N, \A m \in Rewriter!Operands(n) : m \in S PROVE n \in S
    <3>1. h[n] \in SUBSET Int BY <1>1, <1>9, <2>1
    <3> QED BY <3>1
  <2> HIDE DEF S
  <2>2. N \subseteq S BY <2>1, OperandInduction
  <2> QED BY <2>2 DEF S
<1>11. h \in F
  <2>1. [n \in N |-> At(h, n)] \in F BY <1>9, <1>10
  <2> QED BY <1>8, <2>1
<1> QED BY <1>9, <1>11 DEF h, At

(* The visitor, of one tree: it does not make it higher.                   *)
Dictionaries == [Names -> SUBSET Int]

LEMMA ReplaceTyped ==
  ASSUME NEW given \in Dictionaries, NEW p \in Rewriter!Leaves,
         Rewriter!IsIntVariable(p)
  PROVE  /\ p.name \in Names /\ Rewriter!Replace(given, p) \in Rewriter!Leaves
         /\ given[p.name] = {} => Rewriter!Replace(given, p) = p
         /\ given[p.name] # {} => \E v \in given[p.name] :
              Rewriter!Replace(given, p) = Rewriter!Constant("int", v)
<1>1. p.node = "Parameter" /\ p.type = "int" BY DEF Rewriter!IsIntVariable
<1>2. p.name \in Names
  <2>1. p \in [node : {"Parameter"}, type : {"int"}, name : Names]
    BY <1>1 DEF Rewriter!Leaves
  <2> QED BY <2>1
<1>3. given[p.name] \subseteq Int BY <1>2 DEF Dictionaries
<1>4. ASSUME given[p.name] # {}
      PROVE  \E v \in given[p.name] :
               Rewriter!Replace(given, p) = Rewriter!Constant("int", v)
  <2> DEFINE v == CHOOSE w \in given[p.name] : TRUE
  <2>1. v \in given[p.name] BY <1>4
  <2>2. Rewriter!Replace(given, p) = Rewriter!Constant("int", v)
    BY <1>4 DEF Rewriter!Replace
  <2> HIDE DEF v
  <2> QED BY <2>1, <2>2
<1>5. \A v \in Int : Rewriter!Constant("int", v) \in Rewriter!Leaves
  <2>1. "int" \in Rewriter!Types BY DEF Rewriter!Types
  <2>2. \A v \in Int : Rewriter!Constant("int", v)
                         \in [node : {"Constant"}, type : Rewriter!Types, value : Int]
    BY <2>1 DEF Rewriter!Constant
  <2> QED BY <2>2 DEF Rewriter!Leaves
<1>6. given[p.name] = {} => Rewriter!Replace(given, p) = p BY DEF Rewriter!Replace
<1> QED BY <1>2, <1>3, <1>4, <1>5, <1>6

\* The tree n is one of variable + 1 and variable - 1.
Rewritten(n) ==
  /\ n.node = "Binary" /\ n.op \in {"Add", "Subtract"}
  /\ Rewriter!IsIntVariable(n.left) /\ Rewriter!IsOne(n.right)

LEMMA LeafOf ==
  ASSUME NEW n \in Rewriter!AllTrees,
         Rewriter!IsIntVariable(n) \/ Rewriter!IsOne(n)
  PROVE  n \in Rewriter!Leaves
BY TreeShapes DEF Rewriter!IsIntVariable, Rewriter!IsOne

LEMMA VisitNodeCases ==
  ASSUME NEW given, NEW f, NEW n \in Rewriter!AllTrees
  PROVE  /\ Rewritten(n) => Rewriter!VisitNode(f, given, n)
              = Rewriter!Unary(IF n.op = "Add" THEN "Increment" ELSE "Decrement",
                               Rewriter!Replace(given, n.left))
         /\ n.node = "Binary" /\ ~Rewritten(n) => Rewriter!VisitNode(f, given, n)
              = Rewriter!Binary(n.op, f[n.left], f[n.right])
         /\ n.node = "Unary" => Rewriter!VisitNode(f, given, n)
              = Rewriter!Unary(n.op, f[n.operand])
         /\ n \in Rewriter!Leaves => Rewriter!VisitNode(f, given, n) = n
<1>1. n \in Rewriter!Leaves => Rewriter!VisitNode(f, given, n) = n
  BY LeafShapes DEF Rewriter!VisitNode
<1>2. n.node = "Unary" => Rewriter!VisitNode(f, given, n)
        = Rewriter!Unary(n.op, f[n.operand])
  BY DEF Rewriter!VisitNode
<1>3. n.node = "Binary" => Rewriter!VisitNode(f, given, n)
        = Rewriter!VisitBinary(f, given, n)
  BY DEF Rewriter!VisitNode
<1>4. CASE Rewritten(n)
  BY <1>1, <1>2, <1>3, <1>4 DEF Rewritten, Rewriter!VisitBinary, Rewriter!TryGetVariable
<1>5. CASE ~Rewritten(n)
  BY <1>1, <1>2, <1>3, <1>5 DEF Rewritten, Rewriter!VisitBinary, Rewriter!TryGetVariable
<1> QED BY <1>4, <1>5

LEMMA VisitNodeLow ==
  ASSUME NEW given \in Dictionaries, NEW f, NEW n \in Rewriter!AllTrees,
         \A m \in Rewriter!Operands(n) : f[m] \in Rewriter!Level[LevelOf[m]]
  PROVE  Rewriter!VisitNode(f, given, n) \in Rewriter!Level[LevelOf[n]]
<1> DEFINE k == LevelOf[n]
<1>1. k \in 0..Depth /\ n \in Rewriter!Level[k] /\ Depth \in Nat
  BY LevelOfTyped, LevelsExist DEF Lowest
<1>2. CASE n \in Rewriter!Leaves BY <1>1, <1>2, VisitNodeCases
<1>3. CASE n \notin Rewriter!Leaves
  <2>1. k \in 1..Depth BY <1>3, Shapes
  <2> HIDE DEF k
  <2>2. k - 1 \in 0..Depth /\ 0 \in 0..k - 1 BY <1>1, <2>1
  <2>3. Rewriter!Leaves \subseteq Rewriter!Level[k - 1]
    BY <2>2, LevelsExist, LevelsGrow
  <2>4. ASSUME NEW m \in Rewriter!Operands(n) PROVE f[m] \in Rewriter!Level[k - 1]
    <3>1. m \in Rewriter!AllTrees /\ LevelOf[m] < k BY OperandsLower DEF k
    <3>2. LevelOf[m] \in 0..Depth BY <3>1, LevelOfTyped
    <3> DEFINE j == LevelOf[m]
    <3> HIDE DEF j
    <3>3. j \in 0..k - 1 BY <1>1, <3>1, <3>2 DEF j
    <3>4. Rewriter!Level[j] \subseteq Rewriter!Level[k - 1] BY <2>2, <3>3, LevelsGrow
    <3> QED BY <3>4 DEF j
  <2>5. CASE Rewritten(n)
    <3>1. n.left \in Rewriter!Leaves
      BY <2>5, TreeShapes, LeafOf DEF Rewritten
    <3>2. Rewriter!Replace(given, n.left) \in Rewriter!Level[k - 1]
      BY <2>3, <2>5, <3>1, ReplaceTyped DEF Rewritten
    <3>3. \A op \in UnaryOps :
            Rewriter!Unary(op, Rewriter!Replace(given, n.left)) \in Rewriter!Level[k]
      BY <2>1, <3>2, Built
    <3>4. "Increment" \in UnaryOps /\ "Decrement" \in UnaryOps BY DEF UnaryOps
    <3> QED BY <2>5, <3>3, <3>4, VisitNodeCases DEF k
  <2>6. CASE n.node = "Binary" /\ ~Rewritten(n)
    <3>1. /\ n.op \in BinaryOps /\ n.left \in Rewriter!Operands(n)
          /\ n.right \in Rewriter!Operands(n)
      BY <2>6, TreeShapes
    <3>2. Rewriter!Binary(n.op, f[n.left], f[n.right]) \in Rewriter!Level[k]
      BY <2>1, <2>4, <3>1, Built
    <3> QED BY <2>6, <3>2, VisitNodeCases DEF k
  <2>7. CASE n.node = "Unary"
    <3>1. n.op \in UnaryOps /\ n.operand \in Rewriter!Operands(n)
      BY <2>7, TreeShapes
    <3>2. Rewriter!Unary(n.op, f[n.operand]) \in Rewriter!Level[k]
      BY <2>1, <2>4, <3>1, Built
    <3> QED BY <2>7, <3>2, VisitNodeCases DEF k
  <2> QED BY <1>3, <2>5, <2>6, <2>7, TreeShapes
<1> QED BY <1>2, <1>3

(* Recursion asks for a value whatever the operands become: n itself, where*)
(* that would make the tree too high.  It never comes to that.             *)
LEMMA RewriteExists ==
  ASSUME NEW given \in Dictionaries
  PROVE  \A n \in Rewriter!AllTrees :
           /\ Rewriter!Visit(given)[n]
                = Rewriter!VisitNode(Rewriter!Visit(given), given, n)
           /\ Rewriter!Visit(given)[n] \in Rewriter!Level[LevelOf[n]]
<1> DEFINE N == Rewriter!AllTrees
           Low(n) == Rewriter!Level[LevelOf[n]]
           At(f, n) == Rewriter!VisitNode(f, given, n)
           F == [N -> N]
           Clip(f, n) == IF At(f, n) \in Low(n) THEN At(f, n) ELSE n
           G == [p \in N \X F |-> Clip(p[2], p[1])]
           E(f) == f = [n \in N |-> At(f, n)]
<1>1. ASSUME NEW n \in N, NEW f, \A m \in Rewriter!Operands(n) : f[m] \in Low(m)
      PROVE  At(f, n) \in Low(n)
  BY <1>1, VisitNodeLow
<1>2. ASSUME NEW n \in N, NEW f, NEW g, \A m \in Rewriter!Operands(n) : f[m] = g[m]
      PROVE  At(f, n) = At(g, n)
  BY <1>2, TreeShapes, VisitNodeCases
<1>3. \A n \in N : n \in Low(n) /\ Low(n) \subseteq N
  <2>1. ASSUME NEW n \in N PROVE n \in Low(n) /\ Low(n) \subseteq N
    <3>1. LevelOf[n] \in 0..Depth /\ n \in Low(n) BY LevelOfTyped DEF Lowest
    <3>2. \A m \in Low(n) : m \in N BY <3>1, LevelIn
    <3> QED BY <3>1, <3>2
  <2> QED BY <2>1
<1> HIDE DEF At, Low
<1>4. \E f \in F : \A n \in N : f[n] = Clip(f, n)
  <2>1. G \in [N \X F -> N] BY <1>3
  <2>2. \A n \in N, f \in F : G[<<n, f>>] = Clip(f, n) OBVIOUS
  <2>3. ASSUME NEW n \in N, NEW f \in F, NEW g \in F,
               \A m \in Rewriter!Operands(n) : f[m] = g[m]
        PROVE  G[<<n, f>>] = G[<<n, g>>]
    <3>1. At(f, n) = At(g, n) BY <1>2, <2>3
    <3>2. Clip(f, n) = Clip(g, n) BY <3>1
    <3> HIDE DEF F, G, N, Clip
    <3> QED BY <2>2, <3>2
  <2> HIDE DEF G
  <2>4. CASE N = {}
    <3>1. [n \in N |-> n] \in F OBVIOUS
    <3> QED BY <2>4, <3>1
  <2>5. CASE N # {}
    <3>1. LooksAtOperands(N, G) BY <2>1, <2>3, <2>5 DEF LooksAtOperands
    <3>2. \E f \in F : \A n \in N : f[n] = G[<<n, f>>] BY <3>1, OperandRecursion
    <3> QED BY <2>2, <3>2
  <2> QED BY <2>4, <2>5
<1>5. PICK f \in F : \A n \in N : f[n] = Clip(f, n) BY <1>4
<1>6. \A n \in N : f[n] \in Low(n) BY <1>3, <1>5
<1>7. \A n \in N : f[n] = At(f, n)
  <2>1. ASSUME NEW n \in N PROVE f[n] = At(f, n)
    <3>1. \A m \in Rewriter!Operands(n) : f[m] \in Low(m) BY <1>6, OperandsLower
    <3>2. At(f, n) \in Low(n) BY <1>1, <3>1
    <3> QED BY <1>5, <3>2
  <2> QED BY <2>1
<1>8. E(f) BY <1>7
<1>9. Rewriter!Visit(given) = CHOOSE g : E(g) BY Zenon DEF Rewriter!Visit, At
<1> HIDE DEF E
<1>10. E(Rewriter!Visit(given)) BY <1>8, <1>9, Zenon
<1> DEFINE h == Rewriter!Visit(given)
<1>11. h = [n \in N |-> At(h, n)] BY <1>10, Zenon DEF E
<1> HIDE DEF h
<1>12. \A n \in N : h[n] = At(h, n) BY <1>11
<1> DEFINE S == {n \in N : h[n] \in Low(n)}
<1>13. \A n \in N : h[n] \in Low(n)
  <2>1. ASSUME NEW n \in N, \A m \in Rewriter!Operands(n) : m \in S PROVE n \in S
    <3>1. h[n] \in Low(n) BY <1>1, <1>12, <2>1
    <3> QED BY <3>1
  <2> HIDE DEF S
  <2>2. N \subseteq S BY <2>1, OperandInduction
  <2> QED BY <2>2 DEF S
<1> QED BY <1>12, <1>13 DEF h, At, Low

(* What a visit makes of a tree: the four cases, with their parts.         *)
Made(given, n) == Rewriter!Visit(given)[n]

LEMMA MadeCases ==
  ASSUME NEW given \in Dictionaries, NEW n \in Rewriter!AllTrees
  PROVE  /\ Made(given, n) \in Rewriter!AllTrees
         /\ \/ /\ n \in Rewriter!Leaves /\ Made(given, n) = n
            \/ /\ Rewritten(n) /\ n.left \in Rewriter!Leaves
               /\ n.right \in Rewriter!Leaves /\ Made(given, n).node = "Unary"
               /\ Made(given, n).op
                    = IF n.op = "Add" THEN "Increment" ELSE "Decrement"
               /\ Made(given, n).operand = Rewriter!Replace(given, n.left)
            \/ /\ n.node = "Binary" /\ ~Rewritten(n) /\ Made(given, n).node = "Binary"
               /\ Made(given, n).op = n.op
               /\ Made(given, n).left = Made(given, n.left)
               /\ Made(given, n).right = Made(given, n.right)
            \/ /\ n.node = "Unary" /\ Made(given, n).node = "Unary"
               /\ Made(given, n).op = n.op
               /\ Made(given, n).operand = Made(given, n.operand)
<1> DEFINE v == Made(given, n)
           V == Rewriter!Visit(given)
<1>1. v = Rewriter!VisitNode(V, given, n) /\ v \in Rewriter!Level[LevelOf[n]]
  BY RewriteExists DEF Made
<1>2. LevelOf[n] \in 0..Depth BY LevelOfTyped
<1>3. v \in Rewriter!AllTrees BY <1>1, <1>2, LevelIn
<1> HIDE DEF v
<1>4. CASE n \in Rewriter!Leaves BY <1>1, <1>3, <1>4, VisitNodeCases DEF v
<1>5. CASE Rewritten(n)
  <2>1. n.left \in Rewriter!Leaves /\ n.right \in Rewriter!Leaves
    BY <1>5, TreeShapes, LeafOf DEF Rewritten
  <2>2. v = Rewriter!Unary(IF n.op = "Add" THEN "Increment" ELSE "Decrement",
                           Rewriter!Replace(given, n.left))
    BY <1>1, <1>5, VisitNodeCases
  <2> QED BY <1>3, <1>5, <2>1, <2>2 DEF v, Rewriter!Unary
<1>6. CASE n.node = "Binary" /\ ~Rewritten(n)
  <2>1. v = Rewriter!Binary(n.op, V[n.left], V[n.right])
    BY <1>1, <1>6, VisitNodeCases
  <2> QED BY <1>3, <1>6, <2>1 DEF v, Made, Rewriter!Binary
<1>7. CASE n.node = "Unary"
  <2>1. v = Rewriter!Unary(n.op, V[n.operand]) BY <1>1, <1>7, VisitNodeCases
  <2> QED BY <1>3, <1>7, <2>1 DEF v, Made, Rewriter!Unary
<1> QED BY <1>4, <1>5, <1>6, <1>7, TreeShapes

(* A visit keeps the type of a tree.                                       *)
LEMMA TypeKept ==
  ASSUME NEW given \in Dictionaries
  PROVE  \A n \in Rewriter!AllTrees :
           Rewriter!Type[Made(given, n)] = Rewriter!Type[n]
<1> DEFINE S == {n \in Rewriter!AllTrees :
                   Rewriter!Type[Made(given, n)] = Rewriter!Type[n]}
<1>1. ASSUME NEW n \in Rewriter!AllTrees, \A m \in Rewriter!Operands(n) : m \in S
      PROVE  Rewriter!Type[Made(given, n)] = Rewriter!Type[n]
  <2> DEFINE v == Made(given, n)
  <2>1. v \in Rewriter!AllTrees BY MadeCases
  <2>2. \A m \in Rewriter!Operands(n) : Rewriter!Type[Made(given, m)] = Rewriter!Type[m]
    BY <1>1
  <2> HIDE DEF v, S
  <2>3. CASE n \in Rewriter!Leaves
    <3>1. v = n BY <2>3, MadeCases, LeafShapes DEF v, Rewritten
    <3> QED BY <3>1 DEF v
  <2>4. CASE Rewritten(n)
    <3> DEFINE q == Rewriter!Replace(given, n.left)
    <3>1. /\ v.node = "Unary" /\ v.op # "Convert" /\ v.operand = q
          /\ n.left \in Rewriter!Leaves
      BY <2>4, MadeCases, LeafShapes DEF v, Rewritten
    <3>2. q \in Rewriter!Leaves /\ q.type = "int"
      BY <2>4, <3>1, ReplaceTyped
         DEF Rewritten, Rewriter!Constant, Rewriter!IsIntVariable
    <3> HIDE DEF q
    <3>3. q \in Rewriter!AllTrees BY <2>1, <3>1, TreeShapes, LeafShapes
    <3>4. Rewriter!Type[v] = "int"
      BY <2>1, <3>1, <3>2, <3>3, TypeExists, LeafShapes
    <3>5. Rewriter!Type[n.left] = "int" /\ n.node = "Binary"
      BY <2>4, <3>1, TypeExists, TreeShapes DEF Rewritten, Rewriter!IsIntVariable
    <3> QED BY <3>4, <3>5, TypeExists DEF v
  <2>5. CASE n.node = "Binary" /\ ~Rewritten(n)
    <3>1. v.node = "Binary" /\ v.left = Made(given, n.left)
      BY <2>5, MadeCases, LeafShapes DEF v
    <3>2. n.left \in Rewriter!Operands(n) BY <2>5, TreeShapes
    <3> QED BY <2>1, <2>2, <2>5, <3>1, <3>2, TypeExists DEF v
  <2>6. CASE n.node = "Unary"
    <3>1. v.node = "Unary" /\ v.op = n.op /\ v.operand = Made(given, n.operand)
      BY <2>6, MadeCases, LeafShapes DEF v, Rewritten
    <3>2. n.operand \in Rewriter!Operands(n) BY <2>6, TreeShapes
    <3> QED BY <2>1, <2>2, <2>6, <3>1, <3>2, TypeExists DEF v
  <2> QED BY <2>3, <2>4, <2>5, <2>6, TreeShapes
<1>2. \A n \in Rewriter!AllTrees : (\A m \in Rewriter!Operands(n) : m \in S) => n \in S
  BY <1>1
<1> HIDE DEF S
<1>3. Rewriter!AllTrees \subseteq S BY <1>2, OperandInduction
<1> QED BY <1>3 DEF S

(* And what it computes, where the variables have the values given.        *)
LEMMA EvalKept ==
  ASSUME NEW given \in Dictionaries, NEW env \in [Names \cup LongNames -> Int],
         \A name \in Names : given[name] \subseteq {env[name]}
  PROVE  \A n \in Rewriter!AllTrees :
           Rewriter!Eval(env)[Made(given, n)] = Rewriter!Eval(env)[n]
<1> DEFINE val == Rewriter!Eval(env)
           S == {n \in Rewriter!AllTrees : val[Made(given, n)] = val[n]}
<1>1. \A n \in Rewriter!AllTrees : val[n] = Rewriter!EvalNode(val, env, n)
  BY EvalExists
<1> HIDE DEF val
<1>2. \A n \in Rewriter!AllTrees :
        /\ n.node = "Parameter" => val[n] = {env[n.name]}
        /\ n.node = "Constant" => val[n] = {n.value}
        /\ n.node = "Unary" => val[n] =
             UNION {Rewriter!Apply(n.op, Rewriter!Type[n], x, 0) : x \in val[n.operand]}
        /\ n.node = "Binary" => val[n] =
             UNION {Rewriter!Apply(n.op, Rewriter!Type[n], x, y) :
                      x \in val[n.left], y \in val[n.right]}
  <2> SUFFICES ASSUME NEW n \in Rewriter!AllTrees
               PROVE  /\ n.node = "Parameter" => val[n] = {env[n.name]}
                      /\ n.node = "Constant" => val[n] = {n.value}
                      /\ n.node = "Unary" => val[n] =
                           UNION {Rewriter!Apply(n.op, Rewriter!Type[n], x, 0) :
                                    x \in val[n.operand]}
                      /\ n.node = "Binary" => val[n] =
                           UNION {Rewriter!Apply(n.op, Rewriter!Type[n], x, y) :
                                    x \in val[n.left], y \in val[n.right]}
    OBVIOUS
  <2>1. val[n] = Rewriter!EvalNode(val, env, n) BY <1>1
  <2>2. CASE n.node = "Parameter" BY <2>1, <2>2 DEF Rewriter!EvalNode
  <2>3. CASE n.node = "Constant" BY <2>1, <2>3 DEF Rewriter!EvalNode
  <2>4. CASE n.node = "Unary" BY <2>1, <2>4 DEF Rewriter!EvalNode
  <2>5. CASE n.node = "Binary" BY <2>1, <2>5 DEF Rewriter!EvalNode
  <2> QED BY <2>2, <2>3, <2>4, <2>5
<1>3. ASSUME NEW n \in Rewriter!AllTrees, \A m \in Rewriter!Operands(n) : m \in S
      PROVE  val[Made(given, n)] = val[n]
  <2> DEFINE v == Made(given, n)
             t == Rewriter!Type[n]
  <2>1. v \in Rewriter!AllTrees /\ Rewriter!Type[v] = t BY MadeCases, TypeKept
  <2>2. \A m \in Rewriter!Operands(n) : val[Made(given, m)] = val[m] BY <1>3
  <2> HIDE DEF v, S, t
  <2>3. CASE n \in Rewriter!Leaves
    <3>1. v = n BY <2>3, MadeCases, LeafShapes DEF v, Rewritten
    <3> QED BY <3>1 DEF v
  <2>4. CASE Rewritten(n)
    <3> DEFINE p == n.left
               q == Rewriter!Replace(given, p)
               x == env[p.name]
    <3>1. /\ v.node = "Unary" /\ v.operand = q
          /\ v.op = IF n.op = "Add" THEN "Increment" ELSE "Decrement"
          /\ p \in Rewriter!Leaves /\ n.right \in Rewriter!Leaves
      BY <2>4, MadeCases, LeafShapes DEF v, Rewritten
    <3>2. /\ n.node = "Binary" /\ n.op \in {"Add", "Subtract"}
          /\ p.node = "Parameter" /\ n.right.node = "Constant" /\ n.right.value = 1
          /\ Rewriter!IsIntVariable(p)
      BY <2>4 DEF Rewritten, Rewriter!IsIntVariable, Rewriter!IsOne
    <3>3. p \in Rewriter!AllTrees /\ n.right \in Rewriter!AllTrees
      BY <3>2, TreeShapes, LeafShapes
    <3>4. val[p] = {x} /\ val[n.right] = {1} BY <1>2, <3>2, <3>3
    <3>5. q \in Rewriter!AllTrees BY <2>1, <3>1, TreeShapes, LeafShapes
    <3>6. p.name \in Names /\ given[p.name] \subseteq {x}
          /\ (given[p.name] = {} => q = p)
          /\ (given[p.name] # {} => \E w \in given[p.name] :
                q = Rewriter!Constant("int", w))
      BY <3>1, <3>2, ReplaceTyped
    <3> HIDE DEF p, q, x
    <3>7. val[q] = {x}
      <4>1. CASE q = p BY <3>4, <4>1
      <4>2. CASE q = Rewriter!Constant("int", x)
        <5>1. q.node = "Constant" /\ q.value = x BY <4>2 DEF Rewriter!Constant
        <5> QED BY <1>2, <3>5, <5>1
      <4> QED BY <3>6, <4>1, <4>2
    <3>8. val[v] = Rewriter!Apply(v.op, t, x, 0)
      <4>1. val[v] = UNION {Rewriter!Apply(v.op, t, y, 0) : y \in {x}}
        BY <1>2, <2>1, <3>1, <3>7
      <4> QED BY <4>1
    <3>9. val[n] = Rewriter!Apply(n.op, t, x, 1)
      <4>1. val[n] = UNION {Rewriter!Apply(n.op, t, y, z) : y \in {x}, z \in {1}}
        BY <1>2, <3>2, <3>4 DEF t, p
      <4> QED BY <4>1
    <3>10. Rewriter!Apply(v.op, t, x, 0) = Rewriter!Apply(n.op, t, x, 1)
      <4>1. CASE n.op = "Add" BY <3>1, <4>1 DEF Rewriter!Apply
      <4>2. CASE n.op = "Subtract" BY <3>1, <4>2 DEF Rewriter!Apply
      <4> QED BY <3>2, <4>1, <4>2
    <3> QED BY <3>8, <3>9, <3>10 DEF v
  <2>5. CASE n.node = "Binary" /\ ~Rewritten(n)
    <3>1. /\ v.node = "Binary" /\ v.op = n.op
          /\ v.left = Made(given, n.left) /\ v.right = Made(given, n.right)
      BY <2>5, MadeCases, LeafShapes DEF v
    <3>2. n.left \in Rewriter!Operands(n) /\ n.right \in Rewriter!Operands(n)
      BY <2>5, TreeShapes
    <3>3. val[v.left] = val[n.left] /\ val[v.right] = val[n.right]
      BY <2>2, <3>1, <3>2
    <3>4. val[v] = UNION {Rewriter!Apply(n.op, t, x, y) :
                            x \in val[n.left], y \in val[n.right]}
      BY <1>2, <2>1, <3>1, <3>3
    <3>5. val[n] = UNION {Rewriter!Apply(n.op, t, x, y) :
                            x \in val[n.left], y \in val[n.right]}
      BY <1>2, <2>5 DEF t
    <3> QED BY <3>4, <3>5 DEF v
  <2>6. CASE n.node = "Unary"
    <3>1. v.node = "Unary" /\ v.op = n.op /\ v.operand = Made(given, n.operand)
      BY <2>6, MadeCases, LeafShapes DEF v, Rewritten
    <3>2. n.operand \in Rewriter!Operands(n) BY <2>6, TreeShapes
    <3>3. val[v.operand] = val[n.operand] BY <2>2, <3>1, <3>2
    <3>4. val[v] = UNION {Rewriter!Apply(n.op, t, x, 0) : x \in val[n.operand]}
      BY <1>2, <2>1, <3>1, <3>3
    <3>5. val[n] = UNION {Rewriter!Apply(n.op, t, x, 0) : x \in val[n.operand]}
      BY <1>2, <2>6 DEF t
    <3> QED BY <3>4, <3>5 DEF v
  <2> QED BY <2>3, <2>4, <2>5, <2>6, TreeShapes
<1>4. \A n \in Rewriter!AllTrees : (\A m \in Rewriter!Operands(n) : m \in S) => n \in S
  BY <1>3
<1> HIDE DEF S
<1>5. Rewriter!AllTrees \subseteq S BY <1>4, OperandInduction
<1> QED BY <1>5 DEF S, val

(* The last visit used the dictionary of its moment.                       *)
VisitedOK ==
  /\ parameterToValue \in Dictionaries
  /\ visited # Rewriter!NotVisited =>
       /\ visited.tree \in Rewriter!AllTrees /\ visited.given \in Dictionaries
       /\ visited.result = Rewriter!Visit(visited.given)[visited.tree]

LEMMA VisitedInvariant == Rewriter!Spec => []VisitedOK
<1>0. Values \subseteq Int /\ Trees \subseteq Rewriter!AllTrees
  <2>1. Half["int"] \in Nat
    BY VisitorAssumption DEF Rewriter!TreesAssumption, Rewriter!Types
  <2> QED BY <2>1, VisitorAssumption DEF Rewriter!TreesAssumption
<1>1. Rewriter!Init => VisitedOK
  BY DEF Rewriter!Init, VisitedOK, Dictionaries
<1>2. VisitedOK /\ [Rewriter!Next]_Rewriter!vars => VisitedOK'
  <2> SUFFICES ASSUME VisitedOK, [Rewriter!Next]_Rewriter!vars PROVE VisitedOK'
    OBVIOUS
  <2>1. ASSUME NEW t \in Trees, Rewriter!VisitTree(t) PROVE VisitedOK'
    <3> DEFINE now == [tree |-> t, result |-> Rewriter!Visit(parameterToValue)[t],
                       given |-> parameterToValue]
    <3>1. visited' = now /\ parameterToValue' = parameterToValue
      BY <2>1 DEF Rewriter!VisitTree
    <3>2. /\ now.tree = t /\ now.given = parameterToValue
          /\ now.result = Rewriter!Visit(parameterToValue)[t]
      OBVIOUS
    <3> HIDE DEF now
    <3>3. t \in Rewriter!AllTrees BY <1>0
    <3> QED BY <3>1, <3>2, <3>3 DEF VisitedOK
  <2>2. ASSUME NEW n \in Names, NEW v \in Values, Rewriter!Assign(n, v)
        PROVE  VisitedOK'
    <3>1. visited' = visited /\ parameterToValue' = [parameterToValue EXCEPT ![n] = {v}]
      BY <2>2 DEF Rewriter!Assign
    <3>2. {v} \in SUBSET Int BY <1>0
    <3>3. parameterToValue' \in Dictionaries
      BY <3>1, <3>2 DEF VisitedOK, Dictionaries
    <3> QED BY <3>1, <3>3 DEF VisitedOK
  <2>3. CASE UNCHANGED Rewriter!vars BY <2>3 DEF Rewriter!vars, VisitedOK
  <2> QED BY <2>1, <2>2, <2>3 DEF Rewriter!Next
<1> QED BY <1>1, <1>2, PTL DEF Rewriter!Spec

(* ExpressionTreeVisitor: a visit changes nothing of what a tree computes  *)
(* for the values of the dictionary, overflow and exceptions included, for *)
(* int and long of any width.                                              *)
THEOREM VisitIsExact == Rewriter!Spec => []RewriteExact
<1>1. VisitedOK => RewriteExact
  <2> SUFFICES ASSUME VisitedOK, visited # Rewriter!NotVisited
               PROVE  RewriteExact
    BY DEF RewriteExact, Rewriter!RewriteExact
  <2> DEFINE given == visited.given
             t == visited.tree
  <2>1. /\ given \in Dictionaries /\ t \in Rewriter!AllTrees
        /\ visited.result = Made(given, t)
    BY DEF VisitedOK, Made
  <2> HIDE DEF given, t
  <2>2. ASSUME NEW env \in Rewriter!Environments,
               \A n \in Names : given[n] \subseteq {env[n]}
        PROVE  Rewriter!Eval(env)[visited.result] = Rewriter!Eval(env)[t]
    <3>1. Half["int"] \in Nat
      BY VisitorAssumption DEF Rewriter!TreesAssumption, Rewriter!Types
    <3>2. env \in [Names \cup LongNames -> Int]
      BY <3>1 DEF Rewriter!Environments
    <3> QED BY <2>1, <2>2, <3>2, EvalKept
  <2> QED BY <2>2 DEF RewriteExact, Rewriter!RewriteExact, given, t
<1> QED BY <1>1, VisitedInvariant, PTL
=============================================================================
