---------------------------- MODULE StmDep_proofs ----------------------------
(***************************************************************************)
(* The analysis is right for every set of finite programs.                 *)
(*                                                                         *)
(* Tarjan's algorithm keeps two numbers per node; Node::root keeps one and *)
(* overwrites the number of a node with the least of its open neighbours.  *)
(* The numbers of the nodes on the stack are never overwritten before they *)
(* leave it, and that is enough: a node that was left still reaches a node *)
(* of the stack that is not numbered after its own number (LeftRight), and *)
(* it can be attributed to one node of the stack whose number has still to *)
(* take it into account (Attached; the attribution is not computed by the  *)
(* code, the invariant only says that there is one).  When the top of the  *)
(* stack keeps its number, the nodes attributed to it are those that reach *)
(* it, and these are the ones that component() collects: a cycle that the  *)
(* closed nodes below it are no part of (ClosedRight).                     *)
(*                                                                         *)
(* On top of it: what is closed has its place in the order (OrderRight), a *)
(* component is stratified exactly if no negative cycle is below its nodes *)
(* (StratifiedRight), and a counter holds the open providers of a literal, *)
(* then the greatest component of one of them (CountRight).                *)
(***************************************************************************)
EXTENDS StmDep, FiniteSetTheorems, SequenceTheorems, WellFoundedInduction, TLAPS

EdgesTo(N) == [to : N, type : {"POS", "NEG", "DOM"}]
Phases == {"visit", "search", "done", "error"}
TodoOf(P) == [from : SUBSET P, provided : Int, complete : BOOLEAN]

Typed ==
    /\ prog \in [stms : Seq(Statement), external : SUBSET Nat]
    /\ phase \in Phases
    /\ depend \in [Nodes -> SUBSET EdgesTo(Nodes)]
    /\ todo \in [Todos -> TodoOf(PredNodes)]
    /\ index \in Nat
    /\ visited \in [Nodes -> Nat]
    /\ component \in [Nodes -> Nat]
    /\ components \in Seq(BOOLEAN)
    /\ order \in [Modules -> Seq(SUBSET Stms)]
    /\ stack \in Seq(Nodes)

(* Edges lead to modules that are visible; the head of a statement depends *)
(* on its statement only, and a statement on all that provides for it.     *)
GraphRight ==
    /\ \A n \in Nodes : \A m \in Targets(n) : ModuleAt(m) <= ModuleAt(n)
    /\ \A n \in PredNodes : Targets(n) = {StmNode(n[2])}
    /\ phase # "visit" => \A w \in Todos :
            todo[w].from = Providers(w) /\ Providers(w) \subseteq Targets(StmNode(w[1]))

Depth == Len(stack)

(* The open nodes that the search has left. *)
LeftNodes == {n \in Nodes : Marked(n) /\ component[n] = 0 /\ \A i \in 1 .. Depth : stack[i] # n}

(* The stack is a path of open nodes, numbered in this order but for the   *)
(* last one, which may have no number yet.                                 *)
StackRight ==
    /\ \A i \in 1 .. Depth : Marked(stack[i]) /\ component[stack[i]] = 0
    /\ \A i, j \in 1 .. Depth : i < j =>
            /\ stack[i] # stack[j]
            /\ visited[stack[i]] >= 2
            /\ visited[stack[j]] = 1 \/ visited[stack[i]] < visited[stack[j]]
    /\ \A i, j \in 1 .. Depth : i <= j => stack[j] \in Reach(stack[i])
    /\ \A i \in 1 .. Depth : i < Depth => stack[i + 1] \in Targets(stack[i])
    /\ \A n \in Nodes : visited[n] <= index + 1

(* What is closed stays below, in components that are cycles. *)
ClosedRight ==
    /\ \A n \in Nodes : component[n] <= Len(components)
    /\ \A n \in Nodes : component[n] > 0 => Marked(n)
    /\ \A n \in Nodes : component[n] > 0 => \A m \in Targets(n) : component[m] \in 1 .. component[n]
    /\ \A n, m \in Nodes : component[n] > 0 =>
            (component[m] = component[n] <=> m \in Reach(n) /\ n \in Reach(m))

(* A node that was left reaches a node of the stack that was numbered      *)
(* before what is now its number.                                          *)
LeftRight ==
    \A x \in LeftNodes :
        /\ visited[x] >= 2
        /\ \A t \in Targets(x) : Marked(t)
        /\ \E i \in 1 .. Depth :
                stack[i] \in Reach(x) /\ visited[stack[i]] >= 2 /\ visited[stack[i]] <= visited[x]

(* It hangs from the last node of the stack from which it was reached: its *)
(* number has been seen there, and is less than what was numbered later.   *)
Hangs(at) ==
    \A x \in LeftNodes :
        /\ at[x] \in 1 .. Depth
        /\ visited[stack[at[x]]] >= 2
        /\ x \in Reach(stack[at[x]])
        /\ \E c \in LeftNodes \cap Targets(stack[at[x]]) : at[c] = at[x] /\ visited[c] <= visited[x]
        /\ \A i \in 1 .. Depth : at[x] < i /\ visited[stack[i]] >= 2 => visited[x] < visited[stack[i]]
        /\ \A i \in 1 .. Depth : stack[i] \in Targets(x) => visited[x] <= visited[stack[i]]
        /\ \A t \in LeftNodes \cap Targets(x) : at[t] < at[x] => visited[x] < visited[stack[at[t] + 1]]

Attached == \E at \in [Nodes -> Nat] : Hangs(at)

Search == Typed /\ GraphRight /\ StackRight /\ ClosedRight /\ LeftRight /\ Attached

------------------------------------------------------------------------------
(* Reaching: reflexive, transitive, along edges, and within a closed set.  *)
LEMMA ReachOf ==
  ASSUME Typed
  PROVE  /\ \A n \in Nodes : n \in Reach(n) /\ Reach(n) \subseteq Nodes
         /\ \A n \in Nodes : Targets(n) \subseteq Nodes
         /\ \A n \in Nodes : \A m \in Reach(n) : Targets(m) \subseteq Reach(n)
         /\ \A n \in Nodes : \A m \in Reach(n) : Reach(m) \subseteq Reach(n)
         /\ \A n \in Nodes : \A set \in SUBSET Nodes :
               n \in set /\ (\A m \in set : Targets(m) \subseteq set) => Reach(n) \subseteq set
<1>1. \A n \in Nodes : Targets(n) \subseteq Nodes
  BY DEF Typed, Targets, EdgesTo
<1>2. \A n \in Nodes : n \in Reach(n) /\ Reach(n) \subseteq Nodes
  BY DEF Reach
<1>3. \A n \in Nodes : \A set \in SUBSET Nodes :
         n \in set /\ (\A m \in set : Targets(m) \subseteq set) => Reach(n) \subseteq set
  BY DEF Reach, Closed
<1>4. ASSUME NEW n \in Nodes, NEW m \in Reach(n) PROVE Targets(m) \subseteq Reach(n)
  BY <1>1, <1>2, <1>4 DEF Reach, Closed
<1>5. ASSUME NEW n \in Nodes, NEW m \in Reach(n) PROVE Reach(m) \subseteq Reach(n)
  BY <1>2, <1>3, <1>4
<1> QED
  BY <1>1, <1>2, <1>3, <1>4, <1>5

(* What depends on the program and the edges only.                         *)
LEMMA ReachSame ==
  ASSUME prog' = prog, depend' = depend
  PROVE  /\ Nodes' = Nodes /\ PredNodes' = PredNodes /\ StmNodes' = StmNodes /\ Todos' = Todos /\ Stms' = Stms
         /\ \A n : Targets(n)' = Targets(n) /\ Reach(n)' = Reach(n) /\ ModuleAt(n)' = ModuleAt(n)
         /\ \A w : Providers(w)' = Providers(w) /\ IsExternal(w)' = IsExternal(w)
<1>1. /\ Stms' = Stms /\ \A s : LitsOf(s)' = LitsOf(s)
      /\ \A s, i : LitAt(s, i)' = LitAt(s, i)
  BY DEF Stms, LitsOf, LitAt
<1>2. Places' = Places /\ \A s, i : IsNode(s, i)' = IsNode(s, i)
  BY <1>1 DEF Places, IsNode
<1>3. Nodes' = Nodes /\ PredNodes' = PredNodes /\ StmNodes' = StmNodes /\ Todos' = Todos
  BY <1>1, <1>2 DEF Nodes, PredNodes, StmNodes, Todos
<1>4. \A n : Targets(n)' = Targets(n)
  BY DEF Targets
<1>5. Closed' = Closed
  BY <1>3, <1>4 DEF Closed
<1>6. \A n : Reach(n)' = Reach(n) /\ ModuleAt(n)' = ModuleAt(n)
  BY <1>3, <1>5 DEF Reach, ModuleAt
<1>7. \A s, i, w : Compatible(s, i, w)' = Compatible(s, i, w)
  BY <1>1 DEF Compatible
<1>8. \A w : Providers(w)' = Providers(w) /\ IsExternal(w)' = IsExternal(w)
  BY <1>1, <1>3, <1>7 DEF Providers, IsExternal
<1> QED
  BY <1>1, <1>3, <1>4, <1>6, <1>8

------------------------------------------------------------------------------
(* The nodes of a program, and what the places of its literals say. *)
LEMMA NodesOf ==
  ASSUME prog \in [stms : Seq(Statement), external : SUBSET Nat]
  PROVE  /\ \A s \in Stms : /\ prog.stms[s].module \in Modules /\ prog.stms[s].lits \in Seq(Literal)
                            /\ StmNode(s) \in StmNodes /\ StmNode(s) \notin PredNodes
                            /\ ModuleAt(StmNode(s)) = prog.stms[s].module
         /\ \A n \in StmNodes : n[2] \in Stms /\ n = StmNode(n[2])
         /\ \A n \in PredNodes : /\ n[2] \in Stms /\ n[3] \in LitsOf(n[2]) /\ n = PredNode(n[2], n[3])
                                 /\ n \notin StmNodes /\ IsNode(n[2], n[3])
         /\ \A w \in Todos : /\ w[1] \in Stms /\ w[2] \in LitsOf(w[1]) /\ w = <<w[1], w[2]>>
                             /\ LitAt(w[1], w[2]) \in Literal /\ ~IsNode(w[1], w[2])
         /\ \A n \in Nodes : n[2] \in Stms /\ ModuleAt(n) \in Modules
<1>1. \A s \in Stms : prog.stms[s] \in Statement
  BY ElementOfSeq DEF Stms
<1>2. \A s \in Stms : prog.stms[s].module \in Modules /\ prog.stms[s].lits \in Seq(Literal)
  BY <1>1 DEF Statement
<1>3. \A s \in Stms : StmNode(s) \in StmNodes /\ StmNode(s) \notin PredNodes /\ StmNode(s)[2] = s
  BY DEF StmNodes, StmNode, PredNodes, PredNode
<1>4. \A n \in StmNodes : n[2] \in Stms /\ n = StmNode(n[2])
  BY DEF StmNodes, StmNode
<1>5. \A w \in Places : w[1] \in Stms /\ w[2] \in LitsOf(w[1]) /\ w = <<w[1], w[2]>>
  BY DEF Places
<1>6. \A n \in PredNodes : /\ n[2] \in Stms /\ n[3] \in LitsOf(n[2]) /\ n = PredNode(n[2], n[3])
                           /\ n \notin StmNodes /\ IsNode(n[2], n[3])
  BY <1>5 DEF PredNodes, PredNode, StmNodes, StmNode
<1>7. \A w \in Todos : w \in Places /\ ~IsNode(w[1], w[2])
  BY DEF Todos
<1>8. ASSUME NEW w \in Todos PROVE LitAt(w[1], w[2]) \in Literal
  <2>1. w[1] \in Stms /\ w[2] \in LitsOf(w[1])
    BY <1>5, <1>7
  <2>2. PICK lits \in Seq(Literal) : lits = prog.stms[w[1]].lits
    BY <2>1, <1>2
  <2>3. w[2] \in DOMAIN lits
    BY <2>1, <2>2 DEF LitsOf
  <2>4. lits[w[2]] \in Literal
    BY <2>3, ElementOfSeq
  <2> QED
    BY <2>2, <2>4 DEF LitAt
<1> QED
  BY <1>2, <1>3, <1>4, <1>5, <1>6, <1>7, <1>8 DEF Nodes, ModuleAt

LEMMA InitTyped ==
  ASSUME Init
  PROVE  Typed /\ GraphRight
<1>1. prog \in [stms : Seq(Statement), external : SUBSET Nat]
  BY ProgramsAssumption DEF Init
<1>2. \A n \in PredNodes : n \in Nodes /\ StmNode(n[2]) \in Nodes /\ n \notin StmNodes
  BY <1>1, NodesOf DEF Nodes
<1>3. depend \in [Nodes -> SUBSET EdgesTo(Nodes)]
  <2>1. \A n \in StmNodes : OwnEdges(n[2]) \subseteq EdgesTo(Nodes)
    BY <1>2 DEF OwnEdges, Edge, EdgesTo
  <2>2. \A n \in PredNodes : Edge(StmNode(n[2]), "POS") \in EdgesTo(Nodes)
    BY <1>2 DEF Edge, EdgesTo
  <2> QED
    BY <2>1, <2>2 DEF Init, Nodes
<1>4. todo \in [Todos -> TodoOf(PredNodes)]
  BY DEF Init, TodoOf
<1>5. Typed
  BY <1>1, <1>3, <1>4 DEF Init, Typed, Phases
<1>6. ASSUME NEW n \in Nodes, NEW m \in Targets(n)
      PROVE ModuleAt(m) = ModuleAt(n) /\ (n \in PredNodes => m = StmNode(n[2]))
  <2>1. PICK e \in depend[n] : m = e.to
    BY <1>6 DEF Targets
  <2>2. CASE n \in StmNodes
    <3>1. e \in OwnEdges(n[2])
      BY <1>6, <2>1, <2>2 DEF Init
    <3>2. m \in PredNodes /\ m[2] = n[2]
      BY <2>1, <3>1 DEF OwnEdges, Edge
    <3> QED
      BY <2>2, <3>2, <1>1, NodesOf DEF ModuleAt
  <2>3. CASE n \notin StmNodes
    <3>1. e = Edge(StmNode(n[2]), "POS")
      BY <1>6, <2>1, <2>3 DEF Init
    <3>2. m = StmNode(n[2]) /\ m[2] = n[2]
      BY <2>1, <3>1 DEF StmNode, Edge
    <3> QED
      BY <3>2 DEF ModuleAt
  <2> QED
    BY <2>2, <2>3
<1>7. ASSUME NEW n \in PredNodes PROVE StmNode(n[2]) \in Targets(n)
  BY <1>2 DEF Init, Targets, Edge
<1>8. \A n \in Nodes : ModuleAt(n) \in Nat
  BY <1>1, NodesOf DEF Modules
<1>9. \A n \in PredNodes : Targets(n) = {StmNode(n[2])}
  BY <1>2, <1>6, <1>7
<1>10. \A n \in Nodes : \A m \in Targets(n) : ModuleAt(m) <= ModuleAt(n)
  BY <1>6, <1>8
<1> QED
  BY <1>5, <1>9, <1>10 DEF GraphRight, Init

LEMMA CompatibleBelow ==
  ASSUME Typed, NEW w \in Todos, NEW n \in Providers(w)
  PROVE  /\ n \in PredNodes /\ n \in Nodes /\ StmNode(w[1]) \in Nodes
         /\ ModuleAt(n) <= ModuleAt(StmNode(w[1]))
         /\ TypeOf(LitAt(w[1], w[2])) \in {"POS", "NEG", "DOM"}
<1>1. prog \in [stms : Seq(Statement), external : SUBSET Nat]
  BY DEF Typed
<1>2. n \in PredNodes /\ Compatible(n[2], n[3], w)
  BY DEF Providers
<1>3. StmNode(w[1]) \in StmNodes /\ ModuleAt(StmNode(w[1])) = prog.stms[w[1]].module
  BY <1>1, NodesOf
<1>4. prog.stms[n[2]].module <= prog.stms[w[1]].module
  BY <1>2 DEF Compatible, Reachable
<1>5. TypeOf(LitAt(w[1], w[2])) \in {"POS", "NEG", "DOM"}
  BY DEF TypeOf
<1> QED
  BY <1>2, <1>3, <1>4, <1>5 DEF Nodes, ModuleAt

(* The image of a finite set. *)
LEMMA ImageFinite ==
  ASSUME NEW S, IsFiniteSet(S), NEW T, NEW f \in [S -> T], \A y \in T : \E x \in S : y = f[x]
  PROVE  IsFiniteSet(T)
BY FS_Surjection DEF Surjection

(* Heads are finitely many. *)
LEMMA NodesFinite ==
  ASSUME prog \in [stms : Seq(Statement), external : SUBSET Nat]
  PROVE  IsFiniteSet(PredNodes) /\ IsFiniteSet(Nodes)
<1>1. IsFiniteSet(Stms)
  <2>1. PICK stms \in Seq(Statement) : stms = prog.stms
    OBVIOUS
  <2>2. DOMAIN stms = 1 .. Len(stms) /\ Len(stms) \in Nat
    BY LenProperties
  <2>3. IsFiniteSet(DOMAIN stms)
    BY <2>2, FS_Interval
  <2> QED
    BY <2>1, <2>3 DEF Stms
<1>2. ASSUME NEW s \in Stms PROVE IsFiniteSet(LitsOf(s))
  <2>1. PICK lits \in Seq(Literal) : lits = prog.stms[s].lits
    BY NodesOf
  <2>2. DOMAIN lits = 1 .. Len(lits) /\ Len(lits) \in Nat
    BY LenProperties
  <2>3. IsFiniteSet(DOMAIN lits)
    BY <2>2, FS_Interval
  <2> QED
    BY <2>1, <2>3 DEF LitsOf
<1>3. IsFiniteSet(Places)
  <2> DEFINE At(s) == {<<s, i>> : i \in LitsOf(s)}
             All == {At(s) : s \in Stms}
  <2>1. IsFiniteSet(All)
    <3>1. [s \in Stms |-> At(s)] \in [Stms -> All] /\ \A T \in All : \E s \in Stms : T = [r \in Stms |-> At(r)][s]
      OBVIOUS
    <3> HIDE DEF All
    <3>2. PICK f \in [Stms -> All] : \A T \in All : \E s \in Stms : T = f[s]
      BY <3>1
    <3> QED
      BY <1>1, <3>2, ImageFinite
  <2>2. ASSUME NEW s \in Stms PROVE IsFiniteSet(At(s))
    <3>1. /\ [i \in LitsOf(s) |-> <<s, i>>] \in [LitsOf(s) -> At(s)]
          /\ \A w \in At(s) : \E i \in LitsOf(s) : w = [j \in LitsOf(s) |-> <<s, j>>][i]
      OBVIOUS
    <3> QED
      BY <1>2, <3>1, ImageFinite
  <2>3. \A T \in All : IsFiniteSet(T)
    BY <2>2
  <2>4. IsFiniteSet(UNION All)
    <3> HIDE DEF All
    <3> QED
      BY <2>1, <2>3, FS_UNION
  <2> QED
    BY <2>4 DEF Places
<1>4. IsFiniteSet(PredNodes)
  <2> DEFINE V == {v \in Places : IsNode(v[1], v[2])}
  <2>1. IsFiniteSet(V)
    BY <1>3, FS_Subset
  <2>2. /\ [w \in V |-> PredNode(w[1], w[2])] \in [V -> PredNodes]
        /\ \A n \in PredNodes : \E w \in V : n = [v \in V |-> PredNode(v[1], v[2])][w]
    BY DEF PredNodes
  <2> HIDE DEF V
  <2>3. PICK f \in [V -> PredNodes] : \A n \in PredNodes : \E w \in V : n = f[w]
    BY <2>2
  <2> QED
    BY <2>1, <2>3, ImageFinite
<1>5. IsFiniteSet(StmNodes)
  <2>1. /\ [s \in Stms |-> StmNode(s)] \in [Stms -> StmNodes]
        /\ \A n \in StmNodes : \E s \in Stms : n = [r \in Stms |-> StmNode(r)][s]
    BY DEF StmNodes
  <2> QED
    BY <1>1, <2>1, ImageFinite
<1> QED
  BY <1>4, <1>5, FS_Union DEF Nodes

LEMMA ResolveTyped ==
  ASSUME Typed, GraphRight, Resolve
  PROVE  Typed' /\ GraphRight'
<1>1. prog' = prog /\ prog \in [stms : Seq(Statement), external : SUBSET Nat]
  BY DEF Resolve, Typed
<1>2. /\ Nodes' = Nodes /\ PredNodes' = PredNodes /\ StmNodes' = StmNodes /\ Todos' = Todos /\ Stms' = Stms
      /\ \A n : ModuleAt(n)' = ModuleAt(n)
      /\ \A w : Providers(w)' = Providers(w)
  <2>1. /\ Stms' = Stms /\ \A s : LitsOf(s)' = LitsOf(s)
        /\ \A s, i : LitAt(s, i)' = LitAt(s, i)
    BY <1>1 DEF Stms, LitsOf, LitAt
  <2>2. Places' = Places /\ \A s, i : IsNode(s, i)' = IsNode(s, i)
    BY <2>1 DEF Places, IsNode
  <2>3. Nodes' = Nodes /\ PredNodes' = PredNodes /\ StmNodes' = StmNodes /\ Todos' = Todos
    BY <2>1, <2>2 DEF Nodes, PredNodes, StmNodes, Todos
  <2>4. \A s, i, w : Compatible(s, i, w)' = Compatible(s, i, w)
    BY <1>1, <2>1 DEF Compatible
  <2> QED
    BY <1>1, <2>1, <2>3, <2>4 DEF Providers, ModuleAt
<1> DEFINE New(w) == {Edge(m, TypeOf(LitAt(w[1], w[2]))) : m \in Providers(w)}
           News(n) == UNION {New(w) : w \in {v \in Todos : StmNode(v[1]) = n}}
<1>3. depend' = [n \in Nodes |-> depend[n] \cup News(n)]
  BY DEF Resolve
<1>4. ASSUME NEW n \in Nodes, NEW e \in News(n)
      PROVE  /\ e \in EdgesTo(Nodes) /\ n \in StmNodes /\ ModuleAt(e.to) <= ModuleAt(n)
  <2>1. PICK w \in Todos : StmNode(w[1]) = n /\ e \in New(w)
    BY <1>4
  <2>2. PICK m \in Providers(w) : e = Edge(m, TypeOf(LitAt(w[1], w[2])))
    BY <2>1
  <2>3. w[1] \in Stms
    BY <1>1, NodesOf
  <2> QED
    BY <2>1, <2>2, <2>3, CompatibleBelow, <1>1, NodesOf DEF Edge, EdgesTo
<1>5. ASSUME NEW w \in Todos, NEW m \in Providers(w) PROVE \E e \in News(StmNode(w[1])) : e.to = m
  <2>1. Edge(m, TypeOf(LitAt(w[1], w[2]))) \in New(w) /\ Edge(m, TypeOf(LitAt(w[1], w[2]))).to = m
    BY DEF Edge
  <2> QED
    BY <2>1
<1> HIDE DEF News
<1>6. depend' \in [Nodes -> SUBSET EdgesTo(Nodes)]
  BY <1>3, <1>4 DEF Typed
<1>7. todo' \in [Todos -> TodoOf(PredNodes)] /\ \A w \in Todos : todo'[w].from = Providers(w)
  <2>1. ASSUME NEW w \in Todos PROVE Providers(w) \in SUBSET PredNodes /\ Cardinality(Providers(w)) \in Nat
    <3>1. Providers(w) \in SUBSET PredNodes
      BY DEF Providers
    <3>2. IsFiniteSet(Providers(w))
      BY <1>1, <3>1, NodesFinite, FS_Subset
    <3> QED
      BY <3>1, <3>2, FS_CardinalityType
  <2>2. todo' = [w \in Todos |-> [from |-> Providers(w), provided |-> Cardinality(Providers(w)),
                                  complete |-> Providers(w) = {} /\ ~IsExternal(w)]]
    BY DEF Resolve
  <2>3. ASSUME NEW w \in Todos
        PROVE  [from |-> Providers(w), provided |-> Cardinality(Providers(w)),
                complete |-> Providers(w) = {} /\ ~IsExternal(w)] \in TodoOf(PredNodes)
    BY <2>1 DEF TodoOf
  <2> QED
    BY <2>2, <2>3
<1>8. Typed'
  BY <1>1, <1>2, <1>6, <1>7 DEF Typed, Resolve, Phases, TodoOf, EdgesTo
<1>9. ASSUME NEW n \in Nodes PROVE Targets(n)' = Targets(n) \cup {e.to : e \in News(n)}
  BY <1>3 DEF Targets
<1>10. ASSUME NEW n \in Nodes, NEW m \in Targets(n)' PROVE ModuleAt(m) <= ModuleAt(n)
  BY <1>4, <1>9 DEF GraphRight
<1>11. \A n \in PredNodes : Targets(n)' = {StmNode(n[2])}
  BY <1>1, <1>4, <1>9, NodesOf DEF GraphRight, Nodes
<1>12. ASSUME NEW w \in Todos PROVE Providers(w) \subseteq Targets(StmNode(w[1]))'
  <2>1. StmNode(w[1]) \in Nodes
    BY <1>1, NodesOf DEF Nodes
  <2> QED
    BY <1>5, <1>9, <2>1
<1> QED
  BY <1>2, <1>7, <1>8, <1>10, <1>11, <1>12 DEF GraphRight

------------------------------------------------------------------------------
(* The stack of the search. *)
LEMMA StackOf ==
  ASSUME Typed
  PROVE  /\ Depth \in Nat /\ (stack = <<>> <=> Depth = 0)
         /\ \A i \in 1 .. Depth : stack[i] \in Nodes
         /\ stack # <<>> => Top = stack[Depth] /\ Top \in Nodes /\ Depth \in 1 .. Depth
<1>1. stack \in Seq(Nodes)
  BY DEF Typed
<1>2. Depth \in Nat /\ (stack = <<>> <=> Depth = 0)
  BY <1>1, LenProperties, EmptySeq DEF Depth
<1>3. \A i \in 1 .. Depth : stack[i] \in Nodes
  BY <1>1, ElementOfSeq DEF Depth
<1> QED
  BY <1>2, <1>3 DEF Top, Depth

(* The number of the top of the stack is the greatest of the stack. *)
LEMMA NumberOfTop ==
  ASSUME Typed, StackRight, stack # <<>>
  PROVE  /\ Numbered(Top) \in Nat /\ Numbered(Top) >= 2
         /\ IndexAfter(Top) \in Nat /\ index <= IndexAfter(Top) /\ Numbered(Top) <= IndexAfter(Top) + 1
         /\ visited[Top] = 1 \/ visited[Top] = Numbered(Top)
         /\ visited[Top] = 1 => \A n \in Nodes : visited[n] < Numbered(Top)
         /\ \A i \in 1 .. Depth : i < Depth => visited[stack[i]] < Numbered(Top)
<1>1. Top = stack[Depth] /\ Top \in Nodes /\ Depth \in 1 .. Depth /\ Marked(Top)
  BY StackOf DEF StackRight
<1>2. visited[Top] \in Nat /\ visited[Top] >= 1 /\ visited[Top] <= index + 1 /\ index \in Nat
  BY <1>1 DEF Marked, Typed, StackRight
<1>3. \A n \in Nodes : visited[n] <= index + 1 /\ visited[n] \in Nat
  BY DEF StackRight, Typed
<1>4. \A i \in 1 .. Depth : i < Depth => stack[i] \in Nodes /\ (visited[Top] = 1 \/ visited[stack[i]] < visited[Top])
  BY <1>1, StackOf DEF StackRight
<1> QED
  BY <1>2, <1>3, <1>4 DEF Numbered, IndexAfter

LEMMA StartRight ==
  ASSUME Search, Start
  PROVE  Search'
<1>1. PICK n \in Nodes : /\ ~Marked(n) /\ stack' = <<n>> /\ visited' = [visited EXCEPT ![n] = 1]
  BY DEF Start, Nodes
<1>2. /\ Typed /\ phase = "search" /\ stack = <<>>
      /\ UNCHANGED <<prog, depend, todo, phase, index, component, components, order, provide>>
  BY DEF Start, Search
<1>3. Depth = 0 /\ Depth' = 1 /\ stack'[1] = n
  BY <1>1, <1>2, StackOf DEF Depth
<1>4. /\ Nodes' = Nodes /\ PredNodes' = PredNodes /\ Todos' = Todos /\ Stms' = Stms
      /\ \A m : Targets(m)' = Targets(m) /\ Reach(m)' = Reach(m) /\ ModuleAt(m)' = ModuleAt(m)
      /\ \A w : Providers(w)' = Providers(w)
  BY <1>2, ReachSame
<1>5. Typed'
  BY <1>1, <1>2, <1>4 DEF Typed, TodoOf, Phases, EdgesTo
<1>6. GraphRight'
  BY <1>2, <1>4 DEF Search, GraphRight, StmNode
<1>7. \A m \in Nodes : visited'[m] = IF m = n THEN 1 ELSE visited[m]
  BY <1>1, <1>2 DEF Typed
<1>8. component[n] = 0 /\ visited[n] = 0 /\ index \in Nat
  BY <1>1, <1>2 DEF Search, ClosedRight, Typed, Marked
<1>9. StackRight'
  <2>1. n \in Reach(n)
    BY <1>2, ReachOf
  <2>2. \A m \in Nodes : visited'[m] <= index + 1
    BY <1>7, <1>8 DEF Search, StackRight
  <2> QED
    BY <1>2, <1>3, <1>4, <1>7, <1>8, <2>1, <2>2 DEF StackRight, Marked
<1>10. ClosedRight'
  BY <1>2, <1>4, <1>7 DEF Search, ClosedRight, Marked
<1>11. LeftNodes = {} /\ LeftNodes' = {}
  <2>1. LeftNodes = {}
    BY <1>3 DEF LeftNodes, Search, Attached, Hangs
  <2>2. \A m \in Nodes : m # n => (visited'[m] >= 1 /\ component'[m] = 0 => m \in LeftNodes)
    BY <1>2, <1>3, <1>7 DEF LeftNodes, Marked
  <2> QED
    BY <1>3, <1>4, <2>1, <2>2 DEF LeftNodes, Marked
<1>12. LeftRight' /\ Attached'
  <2>1. [m \in Nodes |-> 0] \in [Nodes -> Nat] /\ LeftRight'
    BY <1>11 DEF LeftRight
  <2>2. \A at \in [Nodes -> Nat] : Hangs(at)'
    BY <1>11 DEF Hangs
  <2> QED
    BY <1>4, <2>1, <2>2 DEF Attached
<1> QED
  BY <1>5, <1>6, <1>9, <1>10, <1>12 DEF Search

LEMMA DescendRight ==
  ASSUME Search, Descend
  PROVE  Search'
<1>1. PICK y \in Unmarked(Top) :
         stack' = Append(stack, y) /\ visited' = [visited EXCEPT ![Top] = Numbered(Top), ![y] = 1]
  BY DEF Descend
<1>2. /\ Typed /\ StackRight /\ phase = "search" /\ stack # <<>> /\ index' = IndexAfter(Top)
      /\ UNCHANGED <<prog, depend, todo, phase, component, components, order, provide>>
  BY DEF Descend, Search
<1>3. Top = stack[Depth] /\ Top \in Nodes /\ Depth \in Nat /\ Depth > 0 /\ \A i \in 1 .. Depth : stack[i] \in Nodes
  BY <1>2, StackOf
<1>4. y \in Nodes /\ y \in Targets(Top) /\ visited[y] = 0 /\ y # Top /\ \A i \in 1 .. Depth : stack[i] # y
  <2>1. y \in Nodes /\ y \in Targets(Top) /\ visited[y] = 0
    BY <1>1, <1>2, <1>3, ReachOf DEF Unmarked, Marked, Typed
  <2> QED
    BY <1>2, <1>3, <2>1 DEF StackRight, Marked
<1>5. Depth' = Depth + 1 /\ stack'[Depth + 1] = y /\ \A i \in 1 .. Depth : stack'[i] = stack[i]
  <2>1. PICK s \in Seq(Nodes) : s = stack
    BY <1>2 DEF Typed
  <2>2. Len(Append(s, y)) = Len(s) + 1 /\ Append(s, y)[Len(s) + 1] = y
        /\ \A i \in 1 .. Len(s) : Append(s, y)[i] = s[i]
    BY <1>4, <2>1, AppendProperties
  <2> QED
    BY <1>1, <2>1, <2>2 DEF Depth
<1>6. /\ Nodes' = Nodes /\ PredNodes' = PredNodes /\ Todos' = Todos /\ Stms' = Stms
      /\ \A m : Targets(m)' = Targets(m) /\ Reach(m)' = Reach(m) /\ ModuleAt(m)' = ModuleAt(m)
      /\ \A w : Providers(w)' = Providers(w)
  BY <1>2, ReachSame
<1> DEFINE v == Numbered(Top)
<1>7. /\ v \in Nat /\ v >= 2 /\ index' \in Nat /\ index <= index' /\ v <= index' + 1
      /\ visited[Top] = 1 \/ visited[Top] = v
      /\ visited[Top] = 1 => \A n \in Nodes : visited[n] < v
      /\ \A i \in 1 .. Depth : i < Depth => visited[stack[i]] < v
  BY <1>2, NumberOfTop
<1> HIDE DEF v
<1>8. \A m \in Nodes : visited'[m] = IF m = y THEN 1 ELSE IF m = Top THEN v ELSE visited[m]
  BY <1>1, <1>2, <1>3, <1>4 DEF Typed, v
<1>9. Typed'
  <2>1. visited' \in [Nodes -> Nat] /\ stack' \in Seq(Nodes)
    <3>1. visited' \in [Nodes -> Nat]
      BY <1>1, <1>2, <1>7 DEF Typed, v
    <3>2. stack' \in Seq(Nodes)
      BY <1>1, <1>2, <1>4, AppendProperties DEF Typed
    <3> QED
      BY <3>1, <3>2
  <2> QED
    BY <1>2, <1>6, <1>7, <2>1 DEF Typed, TodoOf, Phases, EdgesTo
<1>10. GraphRight'
  BY <1>2, <1>6 DEF Search, GraphRight, StmNode
<1>0. index \in Nat /\ \A m \in Nodes : visited[m] \in Nat /\ component[m] \in Nat
  BY <1>2 DEF Typed
<1>11. component[y] = 0 /\ component[Top] = 0
  <2>1. component[Top] = 0
    BY <1>2, <1>3 DEF StackRight
  <2>2. ~(component[y] > 0)
    BY <1>4 DEF Search, ClosedRight, Marked
  <2> QED
    BY <1>0, <1>4, <2>1, <2>2
<1>12. \A i \in 1 .. Depth : i < Depth => stack[i] # Top /\ visited[stack[i]] >= 2
  BY <1>2, <1>3 DEF StackRight
<1>13. StackRight'
  <2>1. \A i \in 1 .. Depth : y \in Reach(stack[i])
    BY <1>2, <1>3, <1>4, ReachOf DEF StackRight
  <2>2. y \in Reach(y)
    BY <1>2, <1>4, ReachOf
  <2>3. \A i \in 1 .. Depth : visited'[stack[i]] = IF i = Depth THEN v ELSE visited[stack[i]]
    BY <1>3, <1>4, <1>8, <1>12
  <2>4. \A m \in Nodes : visited'[m] <= index' + 1
    BY <1>0, <1>2, <1>3, <1>7, <1>8 DEF StackRight
  <2>5. \A i \in 1 .. Depth' : i = Depth + 1 \/ i \in 1 .. Depth
    BY <1>3, <1>5
  <2>6. \A i \in 1 .. Depth' : Marked(stack[i])' /\ component'[stack'[i]] = 0
    <3>1. \A i \in 1 .. Depth : visited'[stack[i]] >= 1
      BY <1>2, <1>3, <1>7, <2>3 DEF StackRight, Marked
    <3> QED
      BY <1>2, <1>3, <1>4, <1>5, <1>8, <1>11, <2>5, <3>1 DEF StackRight, Marked
  <2>7. ASSUME NEW i \in 1 .. Depth', NEW j \in 1 .. Depth', i < j
        PROVE  /\ stack'[i] # stack'[j] /\ visited'[stack'[i]] >= 2
               /\ visited'[stack'[j]] = 1 \/ visited'[stack'[i]] < visited'[stack'[j]]
    <3>1. i \in 1 .. Depth
      BY <1>3, <1>5, <2>7
    <3>2. CASE j = Depth + 1
      BY <1>2, <1>3, <1>4, <1>5, <1>7, <1>8, <1>12, <2>3, <3>1, <3>2
    <3>3. CASE j \in 1 .. Depth
      BY <1>2, <1>3, <1>5, <1>7, <2>3, <2>7, <3>1, <3>3 DEF StackRight
    <3> QED
      BY <2>5, <3>2, <3>3
  <2>8. \A i, j \in 1 .. Depth' : i <= j => stack'[j] \in Reach(stack[i])'
    BY <1>2, <1>3, <1>5, <1>6, <2>1, <2>2, <2>5 DEF StackRight
  <2>9. \A i \in 1 .. Depth' : i < Depth' => stack'[i + 1] \in Targets(stack[i])'
    BY <1>2, <1>3, <1>4, <1>5, <1>6, <2>5 DEF StackRight
  <2> QED
    BY <1>6, <2>4, <2>6, <2>7, <2>8, <2>9 DEF StackRight
<1>14. ClosedRight'
  BY <1>2, <1>6, <1>7, <1>8, <1>11 DEF Search, ClosedRight, Marked
<1>15. LeftNodes' = LeftNodes /\ \A x \in LeftNodes : visited'[x] = visited[x]
  <2>1. ASSUME NEW x \in Nodes PROVE x \in LeftNodes' <=> x \in LeftNodes
    <3>1. x = y => x \notin LeftNodes' /\ x \notin LeftNodes
      BY <1>3, <1>4, <1>5 DEF LeftNodes, Marked
    <3>2. x # y => ((\A i \in 1 .. Depth' : stack'[i] # x) <=> (\A i \in 1 .. Depth : stack[i] # x))
      BY <1>3, <1>5
    <3>3. x # y => (visited'[x] >= 1 <=> visited[x] >= 1)
      BY <1>2, <1>3, <1>7, <1>8 DEF StackRight, Marked
    <3> QED
      BY <1>2, <1>6, <3>1, <3>2, <3>3 DEF LeftNodes, Marked
  <2>2. \A x \in LeftNodes : x # y /\ x # Top /\ x \in Nodes
    BY <1>3, <1>4 DEF LeftNodes, Marked
  <2> QED
    BY <1>6, <1>8, <2>1, <2>2 DEF LeftNodes
<1>16. \A i \in 1 .. Depth : visited[stack[i]] >= 2 => visited'[stack[i]] = visited[stack[i]]
  BY <1>3, <1>4, <1>7, <1>8
<1>17. \A i \in 1 .. Depth : visited'[stack[i]] >= visited[stack[i]]
  BY <1>0, <1>3, <1>4, <1>7, <1>8
<1>18. LeftRight'
  <2>1. ASSUME NEW x \in LeftNodes
        PROVE  /\ visited'[x] >= 2
               /\ \A t \in Targets(x) : visited'[t] >= 1
               /\ \E i \in 1 .. Depth' : /\ stack'[i] \in Reach(x) /\ visited'[stack'[i]] >= 2
                                         /\ visited'[stack'[i]] <= visited'[x]
    <3>1. PICK i \in 1 .. Depth : stack[i] \in Reach(x) /\ visited[stack[i]] >= 2 /\ visited[stack[i]] <= visited[x]
      BY DEF Search, LeftRight
    <3>2. i \in 1 .. Depth' /\ stack'[i] = stack[i]
      BY <1>3, <1>5
    <3>3. x \in Nodes /\ Targets(x) \subseteq Nodes
      BY <1>2, ReachOf DEF LeftNodes
    <3>4. \A t \in Targets(x) : visited'[t] >= 1
      BY <1>7, <1>8, <3>3 DEF Search, LeftRight, Marked
    <3> QED
      BY <1>15, <1>16, <3>1, <3>2, <3>4 DEF Search, LeftRight
  <2> QED
    BY <1>6, <1>15, <2>1 DEF LeftRight, Marked
<1>19. Attached'
  <2>1. PICK at \in [Nodes -> Nat] : Hangs(at)
    BY DEF Search, Attached
  <2>2. ASSUME NEW x \in LeftNodes
        PROVE  /\ at[x] \in 1 .. Depth'
               /\ stack'[at[x]] = stack[at[x]] /\ visited'[stack[at[x]]] >= 2
               /\ \A i \in 1 .. Depth' : at[x] < i /\ visited'[stack'[i]] >= 2 => visited'[x] < visited'[stack'[i]]
               /\ \A i \in 1 .. Depth' : stack'[i] \in Targets(x) => visited'[x] <= visited'[stack'[i]]
               /\ \A t \in LeftNodes \cap Targets(x) : at[t] < at[x] => visited'[x] < visited'[stack'[at[t] + 1]]
    <3>1. x \in Nodes /\ at[x] \in 1 .. Depth /\ visited[stack[at[x]]] >= 2 /\ visited'[x] = visited[x] /\ visited[x] \in Nat
      BY <1>2, <1>15, <2>1 DEF Hangs, LeftNodes, Typed
    <3>2. at[x] \in 1 .. Depth' /\ stack'[at[x]] = stack[at[x]] /\ visited'[stack[at[x]]] >= 2
      BY <1>3, <1>5, <1>16, <3>1
    <3>3. y \notin Targets(x)
      BY <1>4 DEF Search, LeftRight, Marked
    <3>4. ASSUME NEW i \in 1 .. Depth', at[x] < i, visited'[stack'[i]] >= 2 PROVE visited'[x] < visited'[stack'[i]]
      <4>1. i \in 1 .. Depth /\ stack'[i] = stack[i] /\ stack[i] \in Nodes
        BY <1>3, <1>4, <1>5, <1>8, <3>4
      <4>2. CASE visited[stack[i]] >= 2
        BY <1>17, <2>1, <3>1, <3>4, <4>1, <4>2, <1>16 DEF Hangs
      <4>3. CASE ~(visited[stack[i]] >= 2)
        <5>1. stack[i] = Top /\ visited[Top] = 1 /\ visited'[Top] = v
          BY <1>2, <1>3, <1>4, <1>7, <1>8, <1>12, <4>1, <4>3
        <5> QED
          BY <1>7, <3>1, <4>1, <5>1
      <4> QED
        BY <4>2, <4>3
    <3>5. ASSUME NEW i \in 1 .. Depth', stack'[i] \in Targets(x) PROVE visited'[x] <= visited'[stack'[i]]
      <4>1. i \in 1 .. Depth /\ stack'[i] = stack[i]
        BY <1>3, <1>5, <3>3, <3>5
      <4>2. visited[x] <= visited[stack[i]] /\ visited[x] >= 2
        BY <2>1, <3>5, <4>1 DEF Hangs, Search, LeftRight
      <4>3. visited[stack[i]] \in Nat
        BY <1>2, <1>3, <4>1 DEF Typed
      <4> QED
        BY <1>16, <3>1, <4>1, <4>2, <4>3
    <3>6. ASSUME NEW t \in LeftNodes \cap Targets(x), at[t] < at[x] PROVE visited'[x] < visited'[stack'[at[t] + 1]]
      <4>1. at[t] \in 1 .. Depth
        BY <2>1 DEF Hangs
      <4>2. at[t] + 1 \in 1 .. Depth
        BY <1>3, <3>1, <3>6, <4>1
      <4>3. visited[x] < visited[stack[at[t] + 1]] /\ visited[x] >= 2
        BY <2>1, <3>6 DEF Hangs, Search, LeftRight
      <4>4. visited[stack[at[t] + 1]] \in Nat
        BY <1>2, <1>3, <4>2 DEF Typed
      <4> QED
        BY <1>5, <1>16, <3>1, <4>2, <4>3, <4>4
    <3> QED
      BY <3>1, <3>2, <3>4, <3>5, <3>6
  <2>3. Hangs(at)'
    <3>1. \A x \in LeftNodes : /\ x \in Reach(stack[at[x]])
                               /\ \E c \in LeftNodes \cap Targets(stack[at[x]]) : at[c] = at[x] /\ visited[c] <= visited[x]
      BY <2>1 DEF Hangs
    <3> QED
      BY <1>6, <1>15, <2>2, <3>1 DEF Hangs
  <2> QED
    BY <1>6, <2>3 DEF Attached
<1> QED
  BY <1>9, <1>10, <1>13, <1>14, <1>18, <1>19 DEF Search

(* A set of numbers has a least one. *)
Before == {ij \in Nat \X Nat : ij[1] < ij[2]}

LEMMA BeforeWellFounded == IsWellFoundedOn(Before, Nat)
BY NatLessThanWellFounded DEF OpToRel, Before

LEMMA LeastElement ==
  ASSUME NEW S \in SUBSET Nat, S # {}
  PROVE  \E k \in S : \A l \in S : k <= l
<1>1. PICK k \in S : \A l \in S : <<l, k>> \notin Before
  BY BeforeWellFounded, WFMin
<1>2. \A l \in S : ~(l < k)
  BY <1>1 DEF Before
<1> QED
  BY <1>2

(* What root() finds: its own number, or the least of an open neighbour.   *)
LEMMA LowLinkOf ==
  ASSUME Typed, StackRight, stack # <<>>
  PROVE  /\ LowLink(Top) \in Nat /\ LowLink(Top) <= Numbered(Top)
         /\ \A t \in Targets(Top) : t # Top /\ component[t] = 0 => LowLink(Top) <= visited[t]
         /\ LowLink(Top) # Numbered(Top) =>
               \E t \in Targets(Top) : t # Top /\ component[t] = 0 /\ visited[t] = LowLink(Top)
<1> DEFINE near == {k \in Targets(Top) \ {Top} : component[k] = 0 /\ visited[k] < Numbered(Top)}
           lower == {visited[m] : m \in near}
<1>1. Top \in Nodes /\ Targets(Top) \subseteq Nodes /\ Numbered(Top) \in Nat
  BY StackOf, ReachOf, NumberOfTop
<1>2. \A m \in Nodes : visited[m] \in Nat
  BY DEF Typed
<1>3. lower \in SUBSET Nat
  BY <1>1, <1>2
<1>4. LowLink(Top) = IF lower = {} THEN Numbered(Top) ELSE Min(lower)
  BY DEF LowLink
<1>5. CASE lower = {}
  <2>1. \A t \in Targets(Top) : t \notin near
    BY <1>5
  <2> QED
    BY <1>1, <1>2, <1>4, <1>5, <2>1
<1>6. CASE lower # {}
  <2>1. Min(lower) \in lower /\ \A k \in lower : Min(lower) <= k
    <3> HIDE DEF lower
    <3>1. \E k \in lower : \A l \in lower : k <= l
      BY <1>3, <1>6, LeastElement
    <3> QED
      BY <3>1 DEF Min
  <2>2. PICK m \in near : Min(lower) = visited[m]
    BY <2>1
  <2>3. LowLink(Top) = visited[m] /\ m \in Nodes /\ visited[m] < Numbered(Top) /\ visited[m] \in Nat
    BY <1>1, <1>2, <1>4, <1>6, <2>2
  <2>4. ASSUME NEW t \in Targets(Top), t # Top, component[t] = 0 PROVE visited[m] <= visited[t]
    <3>1. CASE t \in near
      BY <2>1, <2>2, <3>1
    <3>2. CASE t \notin near
      <4>1. ~(visited[t] < Numbered(Top))
        BY <2>4, <3>2
      <4> QED
        BY <1>1, <1>2, <2>3, <4>1
    <3> QED
      BY <3>1, <3>2
  <2> QED
    BY <2>2, <2>3, <2>4, <1>1
<1> QED
  BY <1>5, <1>6

LEMMA FrontOf ==
  ASSUME Typed, stack # <<>>, stack' = Front(stack)
  PROVE  /\ stack' \in Seq(Nodes) /\ Depth' = Depth - 1 /\ \A i \in 1 .. Depth : i < Depth => stack'[i] = stack[i]
<1>1. PICK s \in Seq(Nodes) : s = stack /\ s # <<>>
  BY DEF Typed
<1> DEFINE n == Len(s) - 1
           front == SubSeq(s, 1, n)
<1>2. n \in Nat /\ Len(s) \in Nat /\ \A i \in 1 .. n : s[i] \in Nodes
  BY <1>1, EmptySeq, ElementOfSeq
<1>3. n = Depth - 1 /\ stack' = front
  BY <1>1 DEF Front, Depth
<1> HIDE DEF n
<1>4. /\ front \in Seq(Nodes)
      /\ Len(front) = IF 1 <= n THEN n - 1 + 1 ELSE 0
      /\ \A i \in 1 .. n - 1 + 1 : front[i] = s[1 + i - 1]
  BY <1>2, SubSeqProperties
<1> HIDE DEF front
<1>5. front \in Seq(Nodes) /\ Len(front) = n /\ \A i \in 1 .. n : front[i] = s[i]
  BY <1>2, <1>4
<1>6. Depth \in Nat
  BY StackOf
<1> QED
  BY <1>1, <1>2, <1>3, <1>5, <1>6 DEF Depth

LEMMA LeaveRight ==
  ASSUME Search, Leave
  PROVE  Search'
<1>1. /\ Typed /\ StackRight /\ phase = "search" /\ stack # <<>> /\ Unmarked(Top) = {}
      /\ LowLink(Top) # Numbered(Top) /\ index' = IndexAfter(Top)
      /\ visited' = [visited EXCEPT ![Top] = LowLink(Top)] /\ stack' = Front(stack)
      /\ UNCHANGED <<prog, depend, todo, phase, component, components, order, provide>>
  BY DEF Leave, Search, IsRoot
<1>2. Top = stack[Depth] /\ Top \in Nodes /\ Depth \in Nat /\ Depth > 0 /\ \A i \in 1 .. Depth : stack[i] \in Nodes
  BY <1>1, StackOf
<1>3. stack' \in Seq(Nodes) /\ Depth' = Depth - 1 /\ \A i \in 1 .. Depth : i < Depth => stack'[i] = stack[i]
  BY <1>1, FrontOf
<1>4. /\ Nodes' = Nodes /\ PredNodes' = PredNodes /\ Todos' = Todos /\ Stms' = Stms
      /\ \A m : Targets(m)' = Targets(m) /\ Reach(m)' = Reach(m) /\ ModuleAt(m)' = ModuleAt(m)
      /\ \A w : Providers(w)' = Providers(w)
  BY <1>1, ReachSame
<1> DEFINE v == Numbered(Top)
           low == LowLink(Top)
<1>5. /\ v \in Nat /\ v >= 2 /\ index' \in Nat /\ index <= index' /\ v <= index' + 1
      /\ visited[Top] = 1 \/ visited[Top] = v
      /\ visited[Top] = 1 => \A n \in Nodes : visited[n] < v
      /\ \A i \in 1 .. Depth : i < Depth => visited[stack[i]] < v
  BY <1>1, NumberOfTop
<1>6. /\ low \in Nat /\ low < v
      /\ \A t \in Targets(Top) : t # Top /\ component[t] = 0 => low <= visited[t]
      /\ \E t \in Targets(Top) : t # Top /\ component[t] = 0 /\ visited[t] = low
  BY <1>1, <1>5, LowLinkOf
<1>7. \A m \in Nodes : visited'[m] = IF m = Top THEN low ELSE visited[m]
  BY <1>1, <1>2 DEF Typed
<1> HIDE DEF v, low
<1>8. index \in Nat /\ \A m \in Nodes : visited[m] \in Nat /\ component[m] \in Nat
  BY <1>1 DEF Typed
<1>9. \A n \in Nodes : n \in Reach(n) /\ Targets(n) \subseteq Nodes /\ \A m \in Reach(n) : Reach(m) \subseteq Reach(n)
  BY <1>1, ReachOf
<1>10. \A i \in 1 .. Depth : i < Depth => stack[i] # Top /\ visited[stack[i]] >= 2 /\ visited'[stack[i]] = visited[stack[i]]
  BY <1>1, <1>2, <1>7 DEF StackRight
<1>11. component[Top] = 0 /\ visited[Top] >= 1 /\ Targets(Top) \subseteq Reach(Top)
       /\ \A t \in Targets(Top) : t \in Nodes /\ visited[t] >= 1
  <2>1. component[Top] = 0 /\ visited[Top] >= 1
    BY <1>1, <1>2 DEF StackRight, Marked
  <2>2. \A t \in Targets(Top) : t \in Nodes /\ visited[t] >= 1
    BY <1>1, <1>2, <1>9 DEF Unmarked, Marked
  <2> QED
    BY <1>1, <1>2, <2>1, <2>2, ReachOf
(* The top reaches a node further down, whose number is not greater. *)
<1>12. low >= 2 /\ \E i \in 1 .. Depth : i < Depth /\ stack[i] \in Reach(Top) /\ visited[stack[i]] >= 2 /\ visited[stack[i]] <= low
  <2>1. PICK t \in Targets(Top) : t # Top /\ component[t] = 0 /\ visited[t] = low
    BY <1>6
  <2>2. CASE \E i \in 1 .. Depth : stack[i] = t
    <3>1. PICK i \in 1 .. Depth : stack[i] = t
      BY <2>2
    <3>2. i < Depth
      BY <1>2, <2>1, <3>1
    <3> QED
      BY <1>8, <1>9, <1>10, <1>11, <2>1, <3>1, <3>2
  <2>3. CASE ~\E i \in 1 .. Depth : stack[i] = t
    <3>1. t \in LeftNodes
      BY <1>11, <2>1, <2>3 DEF LeftNodes, Marked
    <3>2. PICK i \in 1 .. Depth : stack[i] \in Reach(t) /\ visited[stack[i]] >= 2 /\ visited[stack[i]] <= visited[t]
      BY <3>1 DEF Search, LeftRight
    <3>3. i # Depth
      BY <1>2, <1>5, <1>6, <2>1, <3>2
    <3>4. stack[i] \in Reach(Top)
      BY <1>2, <1>9, <1>11, <3>2
    <3> QED
      BY <1>2, <1>6, <1>8, <2>1, <3>2, <3>3, <3>4
  <2> QED
    BY <2>2, <2>3
<1>13. PICK d \in 1 .. Depth : d < Depth /\ stack[d] \in Reach(Top) /\ visited[stack[d]] >= 2 /\ visited[stack[d]] <= low
  BY <1>12
<1>14. Typed'
  <2>1. visited' \in [Nodes -> Nat]
    BY <1>1, <1>6 DEF Typed, low
  <2> QED
    BY <1>1, <1>3, <1>4, <1>5, <2>1 DEF Typed, TodoOf, Phases, EdgesTo
<1>15. GraphRight'
  BY <1>1, <1>4 DEF Search, GraphRight, StmNode
<1>16. StackRight'
  <2>1. \A i \in 1 .. Depth' : i \in 1 .. Depth /\ i < Depth /\ stack'[i] = stack[i] /\ visited'[stack[i]] = visited[stack[i]]
    BY <1>2, <1>3, <1>10
  <2>2. \A m \in Nodes : visited'[m] <= index' + 1
    BY <1>1, <1>5, <1>6, <1>7, <1>8 DEF StackRight
  <2>3. \A i \in 1 .. Depth' : Marked(stack[i])' /\ component'[stack'[i]] = 0
    BY <1>1, <2>1 DEF StackRight, Marked
  <2>4. \A i, j \in 1 .. Depth' : i < j =>
          /\ stack'[i] # stack'[j] /\ visited'[stack'[i]] >= 2
          /\ visited'[stack'[j]] = 1 \/ visited'[stack'[i]] < visited'[stack'[j]]
    BY <1>1, <2>1 DEF StackRight
  <2>5. \A i, j \in 1 .. Depth' : i <= j => stack'[j] \in Reach(stack[i])'
    BY <1>1, <1>4, <2>1 DEF StackRight
  <2>6. \A i \in 1 .. Depth' : i < Depth' => stack'[i + 1] \in Targets(stack[i])'
    <3>1. ASSUME NEW i \in 1 .. Depth', i < Depth' PROVE i + 1 \in 1 .. Depth' /\ stack[i + 1] \in Targets(stack[i])
      BY <1>1, <1>2, <1>3, <2>1, <3>1 DEF StackRight
    <3> QED
      BY <1>4, <2>1, <3>1
  <2> QED
    BY <1>4, <2>2, <2>3, <2>4, <2>5, <2>6 DEF StackRight
<1>17. ClosedRight'
  <2>1. \A n \in Nodes : visited[n] >= 1 => visited'[n] >= 1
    BY <1>7, <1>12, <1>6
  <2> QED
    BY <1>1, <1>4, <2>1 DEF Search, ClosedRight, Marked
<1>18. LeftNodes' = LeftNodes \cup {Top} /\ Top \notin LeftNodes
       /\ \A x \in LeftNodes : x \in Nodes /\ visited'[x] = visited[x] /\ visited[x] >= 2
  <2>1. Top \notin LeftNodes
    BY <1>2 DEF LeftNodes
  <2>2. ASSUME NEW x \in Nodes PROVE x \in LeftNodes' <=> x \in LeftNodes \/ x = Top
    <3>1. \A i \in 1 .. Depth' : i \in 1 .. Depth /\ stack'[i] = stack[i] /\ stack[i] # Top
      BY <1>2, <1>3, <1>10
    <3>2. x # Top => ((\A i \in 1 .. Depth' : stack'[i] # x) <=> (\A i \in 1 .. Depth : stack[i] # x))
      BY <1>2, <1>3
    <3>3. x # Top => (visited'[x] >= 1 <=> visited[x] >= 1)
      BY <1>7
    <3>4. visited'[Top] >= 1
      BY <1>2, <1>6, <1>7, <1>12
    <3> QED
      BY <1>1, <1>4, <1>11, <3>1, <3>2, <3>3, <3>4 DEF LeftNodes, Marked
  <2>3. LeftNodes' \subseteq Nodes /\ LeftNodes \subseteq Nodes
    BY <1>4 DEF LeftNodes
  <2>4. \A x \in LeftNodes : visited[x] >= 2
    BY DEF Search, LeftRight
  <2> QED
    BY <1>2, <1>7, <2>1, <2>2, <2>3, <2>4
<1>19. LeftRight'
  <2>1. ASSUME NEW x \in LeftNodes'
        PROVE  /\ visited'[x] >= 2
               /\ \A t \in Targets(x) : visited'[t] >= 1
               /\ \E i \in 1 .. Depth' : /\ stack'[i] \in Reach(x) /\ visited'[stack'[i]] >= 2
                                         /\ visited'[stack'[i]] <= visited'[x]
    <3>1. d \in 1 .. Depth' /\ stack'[d] = stack[d] /\ visited'[stack[d]] = visited[stack[d]]
      BY <1>2, <1>3, <1>10, <1>13
    <3>2. CASE x = Top
      <4>1. \A t \in Targets(x) : visited'[t] >= 1
        BY <1>6, <1>7, <1>11, <1>12, <3>2
      <4> QED
        BY <1>2, <1>7, <1>12, <1>13, <3>1, <3>2, <4>1
    <3>3. CASE x \in LeftNodes
      <4>1. visited'[x] >= 2 /\ \A t \in Targets(x) : t \in Nodes /\ visited'[t] >= 1
        BY <1>6, <1>7, <1>9, <1>12, <1>18, <3>3 DEF Search, LeftRight, Marked
      <4>2. PICK i \in 1 .. Depth : stack[i] \in Reach(x) /\ visited[stack[i]] >= 2 /\ visited[stack[i]] <= visited[x]
        BY <3>3 DEF Search, LeftRight
      <4>3. CASE i < Depth
        <5>1. i \in 1 .. Depth' /\ stack'[i] = stack[i] /\ visited'[stack[i]] = visited[stack[i]]
          BY <1>2, <1>3, <1>10, <4>3
        <5> QED
          BY <1>18, <3>3, <4>1, <4>2, <5>1
      <4>4. CASE ~(i < Depth)
        <5>1. i = Depth /\ Top \in Reach(x) /\ visited[Top] = v /\ v <= visited[x]
          BY <1>2, <1>5, <4>2, <4>4
        <5>2. stack[d] \in Reach(x)
          BY <1>9, <1>13, <1>18, <3>3, <5>1
        <5>3. visited[stack[d]] <= visited[x]
          BY <1>2, <1>5, <1>6, <1>8, <1>13, <1>18, <3>3, <5>1
        <5> QED
          BY <1>13, <1>18, <3>1, <3>3, <4>1, <5>2, <5>3
      <4> QED
        BY <4>3, <4>4
    <3> QED
      BY <1>18, <3>2, <3>3
  <2> QED
    BY <1>4, <2>1 DEF LeftRight, Marked
(* What hung from the top now hangs, as the top does, from the node before. *)
<1>20. Attached'
  <2>1. PICK at \in [Nodes -> Nat] : Hangs(at)
    BY DEF Search, Attached
  <2> DEFINE k == Depth - 1
  <2>2. k \in Nat /\ k < Depth /\ k >= 1 /\ k = Depth'
    BY <1>2, <1>3, <1>13
  <2>0. PICK up \in [Nodes -> Nat] : \A n \in Nodes : up[n] = IF n = Top \/ at[n] = Depth THEN k ELSE at[n]
    <3>1. [n \in Nodes |-> IF n = Top \/ at[n] = Depth THEN k ELSE at[n]] \in [Nodes -> Nat]
      BY <2>1, <2>2
    <3> QED
      BY <3>1
  <2>3. ASSUME NEW x \in LeftNodes
        PROVE  /\ at[x] \in 1 .. Depth /\ up[x] <= at[x] /\ up[x] \in 1 .. k
               /\ at[x] = Depth => up[x] = k
               /\ at[x] # Depth => up[x] = at[x] /\ at[x] < Depth
    <3>1. at[x] \in 1 .. Depth /\ x \in Nodes /\ x # Top
      BY <1>18, <2>1 DEF Hangs
    <3> QED
      BY <1>2, <2>0, <2>2, <3>1
  <2>4. up[Top] = k
    BY <1>2, <2>0
  <2>5. \A i \in 1 .. k : /\ i \in 1 .. Depth /\ i < Depth /\ stack'[i] = stack[i]
                          /\ stack[i] # Top /\ visited'[stack[i]] = visited[stack[i]] /\ visited[stack[i]] >= 2
    <3>1. \A i \in 1 .. k : i \in 1 .. Depth /\ i < Depth
      BY <1>2, <2>2
    <3> HIDE DEF k
    <3> QED
      BY <1>3, <1>10, <3>1
  <2>6. Top \in Targets(stack[k]) /\ Top \in Reach(stack[k])
    <3>1. k \in 1 .. Depth /\ k < Depth /\ k + 1 = Depth
      BY <1>2, <2>2
    <3> HIDE DEF k
    <3>2. stack[k + 1] \in Targets(stack[k]) /\ stack[Depth] \in Reach(stack[k])
      BY <1>1, <1>2, <3>1 DEF StackRight
    <3> QED
      BY <1>2, <3>1, <3>2
  <2> HIDE DEF k
  <2>7. \A x \in LeftNodes' : /\ up[x] \in 1 .. k /\ x \in Nodes
                              /\ up[x] < k => x \in LeftNodes /\ at[x] = up[x]
    BY <1>2, <1>18, <2>2, <2>3, <2>4
  <2>8. ASSUME NEW x \in LeftNodes', up[x] = k
        PROVE  x \in Reach(stack[k])
               /\ \E c \in LeftNodes' \cap Targets(stack[k]) : up[c] = k /\ visited'[c] <= visited'[x]
    <3>1. CASE x = Top
      BY <1>2, <1>7, <1>18, <2>4, <2>6, <1>6, <3>1
    <3>2. CASE x # Top /\ at[x] = Depth
      <4>1. x \in LeftNodes /\ x \in Reach(Top)
        BY <1>2, <1>18, <2>1, <3>2 DEF Hangs
      <4>2. PICK c \in LeftNodes \cap Targets(Top) : visited[c] <= visited[x]
        BY <1>2, <2>1, <3>2, <4>1 DEF Hangs
      <4>3. low <= visited[c] /\ c \in Nodes
        BY <1>2, <1>6, <1>18, <4>2 DEF LeftNodes
      <4>4. visited'[Top] <= visited'[x]
        BY <1>2, <1>6, <1>7, <1>8, <1>18, <4>1, <4>2, <4>3
      <4>5. x \in Reach(stack[k])
        BY <1>9, <2>2, <2>5, <2>6, <4>1, <1>2
      <4> QED
        BY <1>18, <2>4, <2>6, <4>4, <4>5
    <3>3. CASE x # Top /\ at[x] # Depth
      <4>1. x \in LeftNodes /\ at[x] = k
        BY <1>18, <2>3, <2>8, <3>3
      <4>2. PICK c \in LeftNodes \cap Targets(stack[k]) : at[c] = k /\ visited[c] <= visited[x]
        BY <2>1, <4>1 DEF Hangs
      <4>3. up[c] = k
        BY <2>2, <2>3, <4>2
      <4>4. x \in Reach(stack[k])
        BY <2>1, <4>1 DEF Hangs
      <4> QED
        BY <1>18, <4>1, <4>2, <4>3, <4>4
    <3> QED
      BY <3>1, <3>2, <3>3
  <2>9. ASSUME NEW x \in LeftNodes', up[x] < k
        PROVE  x \in Reach(stack[up[x]])
               /\ \E c \in LeftNodes' \cap Targets(stack[up[x]]) : up[c] = up[x] /\ visited'[c] <= visited'[x]
    <3>1. x \in LeftNodes /\ at[x] = up[x]
      BY <2>7, <2>9
    <3>2. x \in Reach(stack[up[x]])
      BY <2>1, <3>1 DEF Hangs
    <3>3. PICK c \in LeftNodes \cap Targets(stack[up[x]]) : at[c] = up[x] /\ visited[c] <= visited[x]
      BY <2>1, <3>1 DEF Hangs
    <3>4. up[c] = up[x]
      BY <2>2, <2>3, <2>9, <3>3
    <3> QED
      BY <1>18, <3>1, <3>2, <3>3, <3>4
  <2>10. ASSUME NEW x \in LeftNodes', NEW i \in 1 .. k
         PROVE  /\ up[x] < i => visited'[x] < visited'[stack[i]]
                /\ stack[i] \in Targets(x) => visited'[x] <= visited'[stack[i]]
    <3>1. i \in 1 .. Depth /\ i < Depth /\ visited[stack[i]] >= 2 /\ visited'[stack[i]] = visited[stack[i]] /\ stack[i] # Top
      BY <2>5
    <3>2. CASE x = Top
      <4>1. ~(up[x] < i)
        BY <2>2, <2>4, <3>2
      <4>2. stack[i] \in Targets(x) => low <= visited[stack[i]]
        BY <1>1, <1>6, <3>1, <3>2 DEF StackRight
      <4> QED
        BY <1>2, <1>7, <3>1, <3>2, <4>1, <4>2
    <3>3. CASE x \in LeftNodes
      <4>1. up[x] < i => at[x] < i
        BY <2>2, <2>3, <2>7, <3>1, <3>3
      <4>2. /\ at[x] < i => visited[x] < visited[stack[i]]
            /\ stack[i] \in Targets(x) => visited[x] <= visited[stack[i]]
        BY <2>1, <3>1, <3>3 DEF Hangs
      <4> QED
        BY <1>18, <3>1, <3>3, <4>1, <4>2
    <3> QED
      BY <1>18, <3>2, <3>3
  <2>11. ASSUME NEW x \in LeftNodes', NEW t \in LeftNodes' \cap Targets(x), up[t] < up[x]
         PROVE  visited'[x] < visited'[stack'[up[t] + 1]]
    <3>1. up[t] < k /\ up[t] \in 1 .. k /\ up[x] \in 1 .. k
      BY <2>2, <2>7, <2>11
    <3>2. t \in LeftNodes /\ at[t] = up[t]
      BY <2>7, <3>1
    <3> DEFINE i == at[t] + 1
    <3>3. i \in 1 .. k /\ i \in 1 .. Depth /\ at[t] < i
      BY <1>2, <2>2, <3>1, <3>2
    <3>4. stack'[i] = stack[i] /\ visited'[stack[i]] = visited[stack[i]] /\ visited[stack[i]] >= 2
      BY <2>5, <3>3
    <3>5. CASE x = Top
      <4>1. low <= visited[t] /\ visited[t] \in Nat /\ visited[stack[i]] \in Nat
        <5>1. t # Top /\ component[t] = 0 /\ t \in Nodes
          BY <1>18, <3>2 DEF LeftNodes
        <5> QED
          BY <1>2, <1>6, <1>8, <2>11, <3>3, <3>5, <5>1
      <4>2. visited[t] < visited[stack[i]]
        BY <2>1, <3>2, <3>3, <3>4 DEF Hangs
      <4> QED
        BY <1>2, <1>6, <1>7, <3>2, <3>4, <3>5, <4>1, <4>2
    <3>6. CASE x \in LeftNodes
      <4>1. at[t] < at[x]
        BY <2>2, <2>3, <2>11, <3>1, <3>2, <3>6
      <4>2. visited[x] < visited[stack[at[t] + 1]]
        BY <2>1, <2>11, <3>2, <3>6, <4>1 DEF Hangs
      <4> QED
        BY <1>18, <3>2, <3>4, <3>6, <4>2
    <3> QED
      BY <1>18, <3>5, <3>6
  <2>12. ASSUME NEW x \in LeftNodes'
         PROVE  /\ up[x] \in 1 .. Depth'
                /\ visited'[stack'[up[x]]] >= 2
                /\ x \in Reach(stack'[up[x]])
                /\ \E c \in LeftNodes' \cap Targets(stack'[up[x]]) : up[c] = up[x] /\ visited'[c] <= visited'[x]
                /\ \A i \in 1 .. Depth' : up[x] < i /\ visited'[stack'[i]] >= 2 => visited'[x] < visited'[stack'[i]]
                /\ \A i \in 1 .. Depth' : stack'[i] \in Targets(x) => visited'[x] <= visited'[stack'[i]]
    <3>1. up[x] \in 1 .. k /\ stack'[up[x]] = stack[up[x]] /\ visited'[stack[up[x]]] >= 2
      BY <2>5, <2>7
    <3>2. x \in Reach(stack[up[x]])
               /\ \E c \in LeftNodes' \cap Targets(stack[up[x]]) : up[c] = up[x] /\ visited'[c] <= visited'[x]
      <4>1. up[x] = k \/ up[x] < k
        BY <2>2, <3>1
      <4> QED
        BY <2>8, <2>9, <4>1
    <3> QED
      BY <2>2, <2>5, <2>10, <3>1, <3>2
  <2>13. Hangs(up)'
    <3>1. \A x : Targets(x)' = Targets(x) /\ Reach(x)' = Reach(x)
      BY <1>4
    <3> QED
      BY <2>11, <2>12, <3>1 DEF Hangs
  <2> QED
    BY <1>4, <2>13 DEF Attached
<1> QED
  BY <1>14, <1>15, <1>16, <1>17, <1>19, <1>20 DEF Search

(* What is closed reaches what is closed, in components that are not later. *)
LEMMA ClosedReach ==
  ASSUME Typed, ClosedRight, NEW n \in Nodes, component[n] > 0, NEW m \in Reach(n)
  PROVE  component[m] \in 1 .. component[n]
<1> DEFINE below == {k \in Nodes : component[k] \in 1 .. component[n]}
<1>1. \A k \in Nodes : component[k] \in Nat /\ Targets(k) \subseteq Nodes
  BY ReachOf DEF Typed
<1>2. n \in below
  BY <1>1
<1>3. ASSUME NEW k \in below PROVE Targets(k) \subseteq below
  <2>1. \A t \in Targets(k) : component[t] \in 1 .. component[k]
    BY <1>1 DEF ClosedRight
  <2> QED
    BY <1>1, <2>1
<1> HIDE DEF below
<1>4. Reach(n) \subseteq below
  <2>1. below \in SUBSET Nodes
    BY DEF below
  <2> QED
    BY <1>2, <1>3, <2>1, ReachOf
<1> QED
  BY <1>4 DEF below

LEMMA CollectedOf ==
  ASSUME Typed, NEW root \in Nodes, component[root] = 0
  PROVE  /\ root \in Collected(root) /\ \A n \in Collected(root) : n \in Nodes /\ component[n] = 0
         /\ \A n \in Collected(root) : \A t \in Targets(n) : component[t] = 0 => t \in Collected(root)
         /\ \A set \in SUBSET Nodes :
               root \in set /\ (\A n \in set : component[n] = 0 /\ \A t \in Targets(n) : component[t] = 0 => t \in set)
                  => Collected(root) \subseteq set
<1> DEFINE open == {n \in Nodes : component[n] = 0}
           kept == {set \in SUBSET open : root \in set /\ \A n \in set : Targets(n) \cap open \subseteq set}
<1>1. Collected(root) = {n \in open : \A set \in kept : n \in set}
  BY DEF Collected
<1>2. \A n \in Nodes : Targets(n) \subseteq Nodes
  BY ReachOf
<1>3. root \in Collected(root) /\ \A n \in Collected(root) : n \in Nodes /\ component[n] = 0
  BY <1>1
<1>4. ASSUME NEW n \in Collected(root), NEW t \in Targets(n), component[t] = 0 PROVE t \in Collected(root)
  <2>1. t \in open /\ n \in open
    BY <1>2, <1>3, <1>4
  <2>2. \A set \in kept : t \in set
    BY <1>1, <1>4, <2>1
  <2> QED
    BY <1>1, <2>1, <2>2
<1>5. ASSUME NEW set \in SUBSET Nodes, root \in set,
             \A n \in set : component[n] = 0 /\ \A t \in Targets(n) : component[t] = 0 => t \in set
      PROVE  Collected(root) \subseteq set
  <2>1. set \in kept
    BY <1>5
  <2> QED
    BY <1>1, <2>1
<1> QED
  BY <1>3, <1>4, <1>5

(* The component of a root: all that hangs from it, which is its cycles.   *)
LEMMA ComponentOfRoot ==
  ASSUME Search, stack # <<>>, Unmarked(Top) = {}, IsRoot(Top)
  PROVE  /\ Top \in Collected(Top)
         /\ \A n \in Collected(Top) : n \in Nodes /\ component[n] = 0 /\ visited[n] >= 1
         /\ \A n \in Collected(Top), m \in Nodes : m \in Collected(Top) <=> m \in Reach(n) /\ n \in Reach(m)
         /\ \A n \in Collected(Top) : \A t \in Targets(n) : t \in Collected(Top) \/ component[t] > 0
         /\ \A i \in 1 .. Depth : i < Depth => stack[i] \notin Collected(Top)
         /\ \A at \in [Nodes -> Nat] : Hangs(at) =>
               \A x \in LeftNodes : x \in Collected(Top) <=> at[x] = Depth
<1>1. Typed /\ StackRight /\ ClosedRight /\ LeftRight /\ stack # <<>> /\ Unmarked(Top) = {} /\ LowLink(Top) = Numbered(Top)
  BY DEF Search, IsRoot
<1>2. Top = stack[Depth] /\ Top \in Nodes /\ Depth \in Nat /\ Depth > 0 /\ \A i \in 1 .. Depth : stack[i] \in Nodes
  BY <1>1, StackOf
<1> DEFINE v == Numbered(Top)
           C == Collected(Top)
<1>3. /\ v \in Nat /\ v >= 2
      /\ visited[Top] = 1 \/ visited[Top] = v
      /\ visited[Top] = 1 => \A n \in Nodes : visited[n] < v
      /\ \A i \in 1 .. Depth : i < Depth => visited[stack[i]] < v
  BY <1>1, NumberOfTop
<1>4. \A t \in Targets(Top) : t # Top /\ component[t] = 0 => v <= visited[t]
  BY <1>1, LowLinkOf
<1> HIDE DEF v
<1>5. \A m \in Nodes : visited[m] \in Nat /\ component[m] \in Nat
  BY <1>1 DEF Typed
<1>6. \A n \in Nodes : n \in Reach(n) /\ Targets(n) \subseteq Nodes /\ \A m \in Reach(n) : Reach(m) \subseteq Reach(n)
  BY <1>1, ReachOf
<1>7. component[Top] = 0 /\ visited[Top] >= 1
  BY <1>1, <1>2 DEF StackRight, Marked
<1>8. /\ Top \in C /\ \A n \in C : n \in Nodes /\ component[n] = 0
      /\ \A n \in C : \A t \in Targets(n) : component[t] = 0 => t \in C
      /\ \A set \in SUBSET Nodes :
            Top \in set /\ (\A n \in set : component[n] = 0 /\ \A t \in Targets(n) : component[t] = 0 => t \in set)
               => C \subseteq set
  BY <1>1, <1>2, <1>7, CollectedOf
<1> HIDE DEF C
<1>9. PICK at \in [Nodes -> Nat] : Hangs(at)
  BY DEF Search, Attached
<1>10. \A x \in LeftNodes : x \in Nodes /\ component[x] = 0 /\ visited[x] >= 2 /\ \A i \in 1 .. Depth : stack[i] # x
  BY <1>1 DEF LeftNodes, LeftRight
(* A node that hangs from the top leads to no node that does not.          *)
<1>11. \A hang \in [Nodes -> Nat] : Hangs(hang) =>
         LET D == {Top} \cup {x \in LeftNodes : hang[x] = Depth}
         IN \A n \in D : \A t \in Targets(n) : component[t] = 0 => t \in D
  <2> SUFFICES ASSUME NEW hang \in [Nodes -> Nat], Hangs(hang),
                      NEW n \in {Top} \cup {x \in LeftNodes : hang[x] = Depth},
                      NEW t \in Targets(n), component[t] = 0, t # Top
               PROVE  t \in LeftNodes /\ hang[t] = Depth
    OBVIOUS
  <2>1. t \in Nodes /\ visited[t] >= 1 /\ n \in Nodes
    BY <1>1, <1>2, <1>6, <1>10 DEF LeftRight, Unmarked, Marked
  <2>2. CASE n = Top
    <3>1. v <= visited[t]
      BY <1>4, <2>2
    <3>2. visited[Top] = v
      BY <1>3, <1>5, <2>1, <3>1
    <3>3. \A i \in 1 .. Depth : stack[i] # t
      BY <1>2, <1>3, <1>5, <2>1, <3>1
    <3>4. t \in LeftNodes
      BY <2>1, <3>3 DEF LeftNodes, Marked
    <3>5. hang[t] \in 1 .. Depth
      BY <3>4 DEF Hangs
    <3>6. Depth \in 1 .. Depth /\ ~(visited[t] < visited[stack[Depth]]) /\ visited[stack[Depth]] >= 2
      BY <1>2, <1>3, <1>5, <2>1, <3>1, <3>2
    <3>7. ~(hang[t] < Depth)
      BY <3>4, <3>6 DEF Hangs
    <3> QED
      BY <1>2, <3>4, <3>5, <3>7
  <2>3. CASE n \in LeftNodes /\ hang[n] = Depth
    <3>1. visited[n] >= v
      <4>1. PICK c \in LeftNodes \cap Targets(Top) : visited[c] <= visited[n]
        BY <1>2, <2>3 DEF Hangs
      <4>2. c # Top /\ component[c] = 0 /\ c \in Nodes
        BY <1>2, <1>10, <4>1
      <4> QED
        BY <1>3, <1>4, <1>5, <2>1, <4>1, <4>2
    <3>2. ASSUME NEW i \in 1 .. Depth, stack[i] = t PROVE FALSE
      <4>1. i < Depth
        BY <1>2, <3>2
      <4>2. visited[n] <= visited[t]
        BY <2>3, <3>2 DEF Hangs
      <4> QED
        BY <1>3, <1>5, <2>1, <3>1, <3>2, <4>1, <4>2
    <3>3. t \in LeftNodes
      BY <2>1, <3>2 DEF LeftNodes, Marked
    <3>4. hang[t] \in 1 .. Depth
      BY <3>3 DEF Hangs
    <3>5. ASSUME hang[t] < Depth PROVE FALSE
      <4> DEFINE i == hang[t] + 1
      <4>1. i \in 1 .. Depth
        BY <1>2, <3>4, <3>5
      <4>2. visited[n] < visited[stack[i]]
        BY <2>3, <3>3, <3>5 DEF Hangs
      <4> HIDE DEF i
      <4>3. visited[stack[i]] <= v
        <5>1. i < Depth \/ i = Depth
          BY <1>2, <4>1
        <5>2. stack[i] \in Nodes /\ visited[stack[i]] \in Nat
          BY <1>2, <1>5, <4>1
        <5> QED
          BY <1>2, <1>3, <4>1, <5>1, <5>2
      <4>4. stack[i] \in Nodes
        BY <1>2, <4>1
      <4> QED
        BY <1>3, <1>5, <2>1, <3>1, <4>2, <4>3, <4>4
    <3> QED
      BY <1>2, <3>3, <3>4, <3>5
  <2> QED
    BY <2>2, <2>3
<1>12. \A hang \in [Nodes -> Nat] : Hangs(hang) => C \subseteq {Top} \cup {x \in LeftNodes : hang[x] = Depth}
  <2> SUFFICES ASSUME NEW hang \in [Nodes -> Nat], Hangs(hang)
               PROVE  C \subseteq {Top} \cup {x \in LeftNodes : hang[x] = Depth}
    OBVIOUS
  <2> DEFINE D == {Top} \cup {x \in LeftNodes : hang[x] = Depth}
  <2>1. D \in SUBSET Nodes /\ Top \in D /\ \A n \in D : component[n] = 0
    BY <1>2, <1>7, <1>10
  <2>2. \A n \in D : \A t \in Targets(n) : component[t] = 0 => t \in D
    BY <1>11
  <2> HIDE DEF D
  <2>3. C \subseteq D
    BY <1>8, <2>1, <2>2
  <2> QED
    BY <2>3 DEF D
(* All that is open and reached from the top is collected.                 *)
<1>13. \A x \in Nodes : x \in Reach(Top) /\ component[x] = 0 => x \in C
  <2> DEFINE W == C \cup {n \in Nodes : component[n] > 0}
  <2>1. W \in SUBSET Nodes /\ Top \in W
    BY <1>8
  <2>2. ASSUME NEW n \in W PROVE Targets(n) \subseteq W
    <3>1. Targets(n) \subseteq Nodes /\ n \in Nodes
      BY <1>6, <1>8
    <3>2. CASE n \in C
      BY <1>5, <1>8, <3>1, <3>2
    <3>3. CASE component[n] > 0
      <4>1. \A t \in Targets(n) : component[t] >= 1
        BY <1>1, <1>5, <3>1, <3>3 DEF ClosedRight
      <4> QED
        BY <1>5, <3>1, <4>1
    <3> QED
      BY <3>2, <3>3
  <2> HIDE DEF W
  <2>3. Reach(Top) \subseteq W
    BY <1>1, <1>2, <2>1, <2>2, ReachOf
  <2> QED
    BY <2>3 DEF W
<1>14. \A hang \in [Nodes -> Nat] : Hangs(hang) => \A x \in LeftNodes : x \in C <=> hang[x] = Depth
  <2> SUFFICES ASSUME NEW hang \in [Nodes -> Nat], Hangs(hang), NEW x \in LeftNodes
               PROVE  x \in C <=> hang[x] = Depth
    OBVIOUS
  <2>1. x \in C => hang[x] = Depth
    BY <1>2, <1>10, <1>12
  <2>2. hang[x] = Depth => x \in Reach(Top)
    BY <1>2 DEF Hangs
  <2> QED
    BY <1>10, <1>13, <2>1, <2>2
<1>15. \A n \in C : n = Top \/ n \in LeftNodes
  BY <1>9, <1>12
<1>16. \A n \in C : Top \in Reach(n) /\ n \in Reach(Top) /\ visited[n] >= 1
  <2> SUFFICES ASSUME NEW n \in C, n \in LeftNodes PROVE Top \in Reach(n) /\ n \in Reach(Top) /\ visited[n] >= 1
    BY <1>2, <1>6, <1>7, <1>15
  <2>1. at[n] = Depth /\ n \in Reach(Top)
    BY <1>2, <1>9, <1>14 DEF Hangs
  <2>2. PICK i \in 1 .. Depth : stack[i] \in Reach(n)
    BY <1>1 DEF LeftRight
  <2>3. Top \in Reach(stack[i])
    BY <1>1, <1>2, <2>2 DEF StackRight
  <2> QED
    BY <1>2, <1>5, <1>6, <1>10, <2>1, <2>2, <2>3
<1>17. ASSUME NEW n \in C, NEW m \in Nodes PROVE m \in C <=> m \in Reach(n) /\ n \in Reach(m)
  <2>1. n \in Nodes /\ component[n] = 0
    BY <1>8
  <2>2. m \in C => m \in Reach(n) /\ n \in Reach(m)
    BY <1>2, <1>6, <1>16, <2>1
  <2>3. ASSUME m \in Reach(n), n \in Reach(m) PROVE m \in C
    <3>1. m \in Reach(Top)
      BY <1>2, <1>6, <1>16, <2>3
    <3>2. ~(component[m] > 0)
      BY <1>1, <2>1, <2>3, ClosedReach
    <3> QED
      BY <1>5, <1>13, <3>1, <3>2
  <2> QED
    BY <2>2, <2>3
<1>18. \A i \in 1 .. Depth : i < Depth => stack[i] \notin C
  BY <1>1, <1>2, <1>10, <1>15 DEF StackRight
<1>19. \A n \in C : \A t \in Targets(n) : t \in C \/ component[t] > 0
  BY <1>5, <1>6, <1>8
<1> QED
  BY <1>8, <1>14, <1>16, <1>17, <1>18, <1>19 DEF C

(* What is counted down is a number. *)
LEMMA CountedOf ==
  ASSUME Typed, NEW w \in Todos, NEW stms \in SUBSET Stms, NEW comp \in Nat
  PROVE  /\ Counted(todo[w], stms, comp) \in Int
         /\ IsFiniteSet(todo[w].from) /\ todo[w].from \subseteq PredNodes
         /\ todo[w].provided \in Int /\ todo[w].complete \in BOOLEAN
<1>1. todo[w] \in TodoOf(PredNodes)
  BY DEF Typed
<1>2. todo[w].from \subseteq PredNodes /\ todo[w].provided \in Int /\ todo[w].complete \in BOOLEAN
  BY <1>1 DEF TodoOf
<1>3. prog \in [stms : Seq(Statement), external : SUBSET Nat]
  BY DEF Typed
<1>4. IsFiniteSet(todo[w].from)
  BY <1>2, <1>3, NodesFinite, FS_Subset
<1>5. Cardinality({m \in todo[w].from : m[2] \in stms}) \in Nat
  <2> DEFINE F == todo[w].from
  <2>1. IsFiniteSet(F) /\ {m \in F : m[2] \in stms} \in SUBSET F
    BY <1>4
  <2> HIDE DEF F
  <2>2. IsFiniteSet({m \in F : m[2] \in stms})
    BY <2>1, FS_Subset
  <2> QED
    BY <2>2, FS_CardinalityType DEF F
<1> QED
  BY <1>2, <1>4, <1>5 DEF Counted

(* The state after a component was closed. *)
LEMMA CloseState ==
  ASSUME Search, CloseComponent
  PROVE  /\ stack # <<>> /\ Unmarked(Top) = {} /\ IsRoot(Top) /\ phase = "search"
         /\ phase' = IF DomainError(Collected(Top)) THEN "error" ELSE "search"
         /\ prog' = prog /\ depend' = depend /\ provide' = provide
         /\ \A n \in Nodes : component'[n] = IF n \in Collected(Top) THEN Len(components) + 1 ELSE component[n]
         /\ component' \in [Nodes -> Nat] /\ components' \in Seq(BOOLEAN)
         /\ Len(components) \in Nat /\ Len(components') = Len(components) + 1
         /\ \A k \in 1 .. Len(components) : components'[k] = components[k]
         /\ components'[Len(components) + 1] = IsStratified(Collected(Top))
         /\ stack' = Front(stack) /\ index' = IndexAfter(Top)
         /\ visited' = [visited EXCEPT ![Top] = Numbered(Top)]
         /\ todo' = [w \in Todos |-> [todo[w] EXCEPT !.provided =
                        Counted(todo[w], {n[2] : n \in Collected(Top) \cap StmNodes}, Len(components))]]
<1>1. Typed /\ stack # <<>> /\ Unmarked(Top) = {} /\ IsRoot(Top)
  BY DEF Search, CloseComponent
<1>2. PICK set : set = Collected(Top)
  OBVIOUS
<1>3. /\ prog' = prog /\ depend' = depend /\ provide' = provide /\ phase = "search"
      /\ phase' = (IF DomainError(set) THEN "error" ELSE "search")
      /\ component' = [n \in Nodes |-> IF n \in set THEN Len(components) + 1 ELSE component[n]]
      /\ components' = Append(components, IsStratified(set))
      /\ stack' = Front(stack) /\ index' = IndexAfter(Top)
      /\ visited' = [visited EXCEPT ![Top] = Numbered(Top)]
      /\ todo' = [w \in Todos |-> [todo[w] EXCEPT !.provided =
                        Counted(todo[w], {n[2] : n \in set \cap StmNodes}, Len(components))]]
  BY <1>2 DEF CloseComponent
<1>4. PICK comps \in Seq(BOOLEAN) : comps = components
  BY <1>1 DEF Typed
<1>5. IsStratified(set) \in BOOLEAN
  BY DEF IsStratified
<1>6. PICK b \in BOOLEAN : b = IsStratified(set)
  BY <1>5
<1>7. /\ Append(comps, b) \in Seq(BOOLEAN) /\ Len(comps) \in Nat /\ Len(Append(comps, b)) = Len(comps) + 1
      /\ \A k \in 1 .. Len(comps) : Append(comps, b)[k] = comps[k]
      /\ Append(comps, b)[Len(comps) + 1] = b
  BY AppendProperties, LenProperties
<1>8. components' = Append(comps, b)
  BY <1>3, <1>4, <1>6
<1>9. component \in [Nodes -> Nat]
  BY <1>1 DEF Typed
<1>10. component' \in [Nodes -> Nat]
  BY <1>3, <1>4, <1>7, <1>9
<1>11. \A n \in Nodes : component'[n] = IF n \in set THEN Len(components) + 1 ELSE component[n]
  BY <1>3
<1>12. /\ components' \in Seq(BOOLEAN)
       /\ Len(components) \in Nat /\ Len(components') = Len(components) + 1
       /\ \A k \in 1 .. Len(components) : components'[k] = components[k]
       /\ components'[Len(components) + 1] = IsStratified(set)
  BY <1>4, <1>6, <1>7, <1>8
<1> QED
  BY <1>1, <1>2, <1>3, <1>10, <1>11, <1>12

LEMMA CloseTyped ==
  ASSUME Search, CloseComponent
  PROVE  Typed' /\ GraphRight'
<1>1. Typed /\ GraphRight /\ StackRight /\ stack # <<>> /\ phase = "search" /\ prog' = prog /\ depend' = depend
  BY CloseState DEF Search
<1>2. PICK set : set = Collected(Top)
  OBVIOUS
<1>3. /\ Nodes' = Nodes /\ PredNodes' = PredNodes /\ StmNodes' = StmNodes /\ Todos' = Todos /\ Stms' = Stms
      /\ \A m : Targets(m)' = Targets(m) /\ Reach(m)' = Reach(m) /\ ModuleAt(m)' = ModuleAt(m)
      /\ \A w : Providers(w)' = Providers(w)
  BY <1>1, ReachSame
<1>4. Top \in Nodes /\ prog \in [stms : Seq(Statement), external : SUBSET Nat]
  BY <1>1, StackOf DEF Typed
<1> DEFINE stms == {n[2] : n \in set \cap StmNodes}
<1>5. stms \in SUBSET Stms
  BY <1>4, NodesOf
<1>6. todo' = [w \in Todos |-> [todo[w] EXCEPT !.provided = Counted(todo[w], stms, Len(components))]]
      /\ Len(components) \in Nat
  BY <1>2, CloseState
<1>7. order' = IF stms = {} THEN order ELSE [order EXCEPT ![ModuleAt(Top)] = Append(@, stms)]
  BY <1>2 DEF CloseComponent
<1> HIDE DEF stms
<1>8. \A w \in Todos : Counted(todo[w], stms, Len(components)) \in Int
  BY <1>1, <1>5, <1>6, CountedOf
<1>9. todo' \in [Todos -> TodoOf(PredNodes)] /\ \A w \in Todos : todo'[w].from = todo[w].from
  <2>1. \A w \in Todos : todo[w] \in TodoOf(PredNodes)
    BY <1>1 DEF Typed
  <2> QED
    BY <1>6, <1>8, <2>1 DEF TodoOf
<1>10. order' \in [Modules -> Seq(SUBSET Stms)]
  <2>1. order \in [Modules -> Seq(SUBSET Stms)] /\ ModuleAt(Top) \in Modules
    BY <1>1, <1>4, NodesOf DEF Typed
  <2>2. Append(order[ModuleAt(Top)], stms) \in Seq(SUBSET Stms)
    BY <1>5, <2>1, AppendProperties
  <2> QED
    BY <1>7, <2>1, <2>2
<1>11. stack' \in Seq(Nodes)
  BY <1>1, CloseState, FrontOf
<1>12. index' \in Nat /\ visited' \in [Nodes -> Nat]
  <2>1. index' = IndexAfter(Top) /\ visited' = [visited EXCEPT ![Top] = Numbered(Top)]
    BY CloseState
  <2>2. IndexAfter(Top) \in Nat /\ Numbered(Top) \in Nat /\ visited \in [Nodes -> Nat]
    BY <1>1, NumberOfTop DEF Typed
  <2> QED
    BY <2>1, <2>2
<1>13. component' \in [Nodes -> Nat] /\ components' \in Seq(BOOLEAN) /\ phase' \in Phases /\ phase' # "visit"
  BY CloseState DEF Phases
<1>14. Typed'
  <2>1. prog' \in [stms : Seq(Statement), external : SUBSET Nat] /\ depend' \in [Nodes -> SUBSET EdgesTo(Nodes)]
    BY <1>1 DEF Typed
  <2> QED
    BY <1>3, <1>9, <1>10, <1>11, <1>12, <1>13, <2>1 DEF Typed, TodoOf, Phases, EdgesTo
<1> QED
  BY <1>1, <1>3, <1>9, <1>14 DEF GraphRight, StmNode

LEMMA CloseRight ==
  ASSUME Search, CloseComponent
  PROVE  Search'
<1>1. Typed /\ StackRight /\ ClosedRight /\ LeftRight /\ stack # <<>> /\ Unmarked(Top) = {} /\ IsRoot(Top)
  BY CloseState DEF Search
<1>2. Top = stack[Depth] /\ Top \in Nodes /\ Depth \in Nat /\ Depth > 0 /\ \A i \in 1 .. Depth : stack[i] \in Nodes
  BY <1>1, StackOf
<1>3. Depth' = Depth - 1 /\ \A i \in 1 .. Depth : i < Depth => stack'[i] = stack[i]
  BY <1>1, CloseState, FrontOf
<1>4. /\ Nodes' = Nodes /\ \A m : Targets(m)' = Targets(m) /\ Reach(m)' = Reach(m)
  BY CloseState, ReachSame
<1> DEFINE v == Numbered(Top)
<1>5. PICK C : C = Collected(Top)
  OBVIOUS
<1>6. PICK top \in Nat : top = Len(components)
  BY CloseState
<1>7. /\ v \in Nat /\ v >= 2 /\ index' \in Nat /\ index <= index' /\ v <= index' + 1
      /\ visited[Top] = 1 \/ visited[Top] = v
      /\ \A i \in 1 .. Depth : i < Depth => visited[stack[i]] < v
  BY <1>1, CloseState, NumberOfTop
<1>8. \A m \in Nodes : visited'[m] = IF m = Top THEN v ELSE visited[m]
  BY <1>1, <1>2, CloseState DEF Typed
<1> HIDE DEF v
<1>9. index \in Nat /\ \A m \in Nodes : visited[m] \in Nat /\ component[m] \in Nat
  BY <1>1 DEF Typed
<1>10. /\ Top \in C
       /\ \A n \in C : n \in Nodes /\ component[n] = 0 /\ visited[n] >= 1
       /\ \A n \in C, m \in Nodes : m \in C <=> m \in Reach(n) /\ n \in Reach(m)
       /\ \A n \in C : \A t \in Targets(n) : t \in C \/ component[t] > 0
       /\ \A i \in 1 .. Depth : i < Depth => stack[i] \notin C
       /\ \A at \in [Nodes -> Nat] : Hangs(at) => \A x \in LeftNodes : x \in C <=> at[x] = Depth
  BY <1>1, <1>5, ComponentOfRoot
<1>11. /\ \A n \in Nodes : component'[n] = IF n \in C THEN top + 1 ELSE component[n]
       /\ Len(components') = top + 1
  BY <1>5, <1>6, CloseState
<1>12. \A n \in Nodes : n \in Reach(n) /\ Targets(n) \subseteq Nodes
  BY <1>1, ReachOf
<1>13. \A i \in 1 .. Depth' : /\ i \in 1 .. Depth /\ i < Depth /\ stack'[i] = stack[i] /\ stack[i] # Top
                              /\ stack[i] \in Nodes /\ visited'[stack[i]] = visited[stack[i]] /\ visited[stack[i]] >= 2
                              /\ component'[stack[i]] = 0
  BY <1>1, <1>2, <1>3, <1>8, <1>10, <1>11 DEF StackRight
<1>14. StackRight'
  <2>1. \A m \in Nodes : visited'[m] <= index' + 1
    BY <1>1, <1>7, <1>8, <1>9 DEF StackRight
  <2>2. \A i \in 1 .. Depth' : Marked(stack[i])' /\ component'[stack'[i]] = 0
    BY <1>9, <1>13 DEF Marked
  <2>3. \A i, j \in 1 .. Depth' : i < j =>
          /\ stack'[i] # stack'[j] /\ visited'[stack'[i]] >= 2
          /\ visited'[stack'[j]] = 1 \/ visited'[stack'[i]] < visited'[stack'[j]]
    BY <1>1, <1>13 DEF StackRight
  <2>4. \A i, j \in 1 .. Depth' : i <= j => stack'[j] \in Reach(stack[i])'
    BY <1>1, <1>4, <1>13 DEF StackRight
  <2>5. \A i \in 1 .. Depth' : i < Depth' => stack'[i + 1] \in Targets(stack[i])'
    <3>1. ASSUME NEW i \in 1 .. Depth', i < Depth' PROVE i + 1 \in 1 .. Depth' /\ stack[i + 1] \in Targets(stack[i])
      BY <1>1, <1>2, <1>3, <1>13, <3>1 DEF StackRight
    <3> QED
      BY <1>4, <1>13, <3>1
  <2> QED
    BY <1>4, <2>1, <2>2, <2>3, <2>4, <2>5 DEF StackRight
<1>15. ClosedRight'
  <2>1. \A n \in Nodes : component[n] <= top /\ (component[n] > 0 => visited[n] >= 1)
    BY <1>1, <1>6 DEF ClosedRight, Marked
  <2>2. \A n \in Nodes : component'[n] <= top + 1
    BY <1>6, <1>9, <1>11, <2>1
  <2>3. \A n \in Nodes : component'[n] > 0 => visited'[n] >= 1
    BY <1>7, <1>8, <1>10, <1>11, <2>1
  <2>4. ASSUME NEW n \in Nodes, component'[n] > 0, NEW m \in Targets(n) PROVE component'[m] \in 1 .. component'[n]
    <3>1. m \in Nodes
      BY <1>12
    <3>2. CASE n \in C
      <4>1. m \in C \/ component[m] > 0
        BY <1>10, <3>2
      <4> QED
        BY <1>6, <1>9, <1>11, <2>1, <3>1, <3>2, <4>1
    <3>3. CASE n \notin C
      <4>1. component[m] \in 1 .. component[n]
        BY <1>1, <1>11, <2>4, <3>3 DEF ClosedRight
      <4>2. m \notin C
        BY <1>9, <1>10, <4>1
      <4> QED
        BY <1>11, <3>1, <3>3, <4>1, <4>2
    <3> QED
      BY <3>2, <3>3
  <2>5. ASSUME NEW n \in Nodes, NEW m \in Nodes, component'[n] > 0
        PROVE  component'[m] = component'[n] <=> m \in Reach(n) /\ n \in Reach(m)
    <3>1. CASE n \in C
      <4>1. component'[m] = component'[n] <=> m \in C
        BY <1>6, <1>9, <1>11, <2>1, <3>1
      <4> QED
        BY <1>10, <3>1, <4>1
    <3>2. CASE n \notin C
      <4>1. component[n] > 0 /\ component'[n] = component[n]
        BY <1>11, <2>5, <3>2
      <4>2. CASE m \in C
        <5>1. component'[m] # component'[n]
          BY <1>6, <1>9, <1>11, <2>1, <4>1, <4>2
        <5>2. ~(m \in Reach(n) /\ n \in Reach(m))
          BY <1>10, <3>2, <4>2
        <5> QED
          BY <5>1, <5>2
      <4>3. CASE m \notin C
        BY <1>1, <1>11, <4>1, <4>3 DEF ClosedRight
      <4> QED
        BY <4>2, <4>3
    <3> QED
      BY <3>1, <3>2
  <2> QED
    BY <1>4, <1>11, <2>2, <2>3, <2>4, <2>5 DEF ClosedRight, Marked
<1>16. PICK at \in [Nodes -> Nat] : Hangs(at)
  BY DEF Search, Attached
<1>17. \A x \in LeftNodes' : /\ x \in LeftNodes /\ x \notin C /\ at[x] \in 1 .. Depth' /\ x \in Nodes
                             /\ visited'[x] = visited[x] /\ visited[x] >= 2
  <2> TAKE x \in LeftNodes'
  <2>1. x \in Nodes /\ x \notin C /\ x # Top /\ component[x] = 0 /\ visited[x] >= 1 /\ visited'[x] = visited[x]
    BY <1>4, <1>8, <1>10, <1>11, <1>6 DEF LeftNodes, Marked
  <2>2. \A i \in 1 .. Depth : stack[i] # x
    <3>1. \A i \in 1 .. Depth' : stack'[i] # x
      BY DEF LeftNodes
    <3>2. ASSUME NEW i \in 1 .. Depth, i < Depth PROVE i \in 1 .. Depth' /\ stack'[i] = stack[i]
      BY <1>2, <1>3, <3>2
    <3> QED
      BY <1>2, <2>1, <3>1, <3>2
  <2>3. x \in LeftNodes
    BY <2>1, <2>2 DEF LeftNodes, Marked
  <2>4. at[x] # Depth /\ at[x] \in 1 .. Depth
    BY <1>10, <1>16, <2>1, <2>3 DEF Hangs
  <2> QED
    BY <1>1, <1>2, <1>3, <2>1, <2>3, <2>4 DEF LeftRight
<1>18. \A x \in LeftNodes : x \notin C => x \in LeftNodes'
  <2> TAKE x \in LeftNodes
  <2> HAVE x \notin C
  <2>1. x \in Nodes /\ component'[x] = 0 /\ x # Top /\ visited'[x] >= 1
    BY <1>8, <1>10, <1>11 DEF LeftNodes, Marked
  <2>2. \A i \in 1 .. Depth' : stack'[i] # x
    BY <1>13 DEF LeftNodes
  <2> QED
    BY <1>4, <2>1, <2>2 DEF LeftNodes, Marked
<1>19. LeftRight'
  <2>1. ASSUME NEW x \in LeftNodes'
        PROVE  /\ visited'[x] >= 2
               /\ \A t \in Targets(x) : visited'[t] >= 1
               /\ \E i \in 1 .. Depth' : /\ stack'[i] \in Reach(x) /\ visited'[stack'[i]] >= 2
                                         /\ visited'[stack'[i]] <= visited'[x]
    <3>1. x \in LeftNodes /\ x \in Nodes /\ visited'[x] = visited[x] /\ visited'[x] >= 2 /\ at[x] \in 1 .. Depth'
      BY <1>17
    <3>2. \A t \in Targets(x) : visited'[t] >= 1
      BY <1>1, <1>7, <1>8, <1>12, <3>1 DEF LeftRight, Marked
    <3>3. PICK i \in 1 .. Depth : stack[i] \in Reach(x) /\ visited[stack[i]] >= 2 /\ visited[stack[i]] <= visited[x]
      BY <1>1, <3>1 DEF LeftRight
    <3>4. at[x] < i => visited[x] < visited[stack[i]]
      BY <1>16, <3>1, <3>3 DEF Hangs
    <3>5. i \in 1 .. Depth'
      BY <1>2, <1>3, <1>9, <3>1, <3>3, <3>4
    <3> QED
      BY <1>13, <3>1, <3>2, <3>3, <3>5
  <2> QED
    BY <1>4, <2>1 DEF LeftRight, Marked
<1>20. Hangs(at)'
  <2>1. ASSUME NEW x \in LeftNodes'
        PROVE  /\ at[x] \in 1 .. Depth'
               /\ visited'[stack'[at[x]]] >= 2
               /\ x \in Reach(stack'[at[x]])
               /\ \E c \in LeftNodes' \cap Targets(stack'[at[x]]) : at[c] = at[x] /\ visited'[c] <= visited'[x]
    <3>1. x \in LeftNodes /\ x \notin C /\ at[x] \in 1 .. Depth' /\ visited'[x] = visited[x]
      BY <1>17
    <3>2. at[x] # Depth /\ stack'[at[x]] = stack[at[x]] /\ visited'[stack'[at[x]]] >= 2
      BY <1>2, <1>3, <1>13, <3>1
    <3>3. x \in Reach(stack[at[x]])
      BY <1>16, <3>1 DEF Hangs
    <3>4. PICK c \in LeftNodes \cap Targets(stack[at[x]]) : at[c] = at[x] /\ visited[c] <= visited[x]
      BY <1>16, <3>1 DEF Hangs
    <3>5. c \in LeftNodes' /\ visited'[c] = visited[c]
      BY <1>10, <1>16, <1>17, <1>18, <3>2, <3>4
    <3> QED
      BY <3>1, <3>2, <3>3, <3>4, <3>5
  <2>2. ASSUME NEW x \in LeftNodes', NEW i \in 1 .. Depth'
        PROVE  /\ at[x] < i /\ visited'[stack'[i]] >= 2 => visited'[x] < visited'[stack'[i]]
               /\ stack'[i] \in Targets(x) => visited'[x] <= visited'[stack'[i]]
    BY <1>13, <1>16, <1>17 DEF Hangs
  <2>3. ASSUME NEW x \in LeftNodes', NEW t \in LeftNodes' \cap Targets(x), at[t] < at[x]
        PROVE  visited'[x] < visited'[stack'[at[t] + 1]]
    <3>1. x \in LeftNodes /\ t \in LeftNodes /\ visited'[x] = visited[x] /\ at[x] \in 1 .. Depth' /\ at[t] \in 1 .. Depth'
      BY <1>17
    <3>2. at[t] + 1 \in 1 .. Depth'
      BY <1>2, <1>3, <2>3, <3>1
    <3>3. visited[x] < visited[stack[at[t] + 1]]
      BY <1>16, <2>3, <3>1 DEF Hangs
    <3> QED
      BY <1>13, <3>1, <3>2, <3>3
  <2> QED
    BY <1>4, <2>1, <2>2, <2>3 DEF Hangs
<1>21. Attached'
  BY <1>4, <1>16, <1>20 DEF Attached
<1> QED
  BY <1>14, <1>15, <1>19, <1>21, CloseTyped DEF Search

------------------------------------------------------------------------------
(* Before the edges are known nothing was visited. *)
Fresh ==
    phase = "visit" =>
        stack = <<>> /\ \A n \in Nodes : visited[n] = 0 /\ component[n] = 0

(* A closed statement is in its module's order once, an open one nowhere.  *)
Nowhere(s) == \A m \in Modules : \A k \in DOMAIN order[m] : s \notin order[m][k]
OnlyAt(s, m, k) ==
    /\ k \in DOMAIN order[m] /\ s \in order[m][k]
    /\ \A n \in Modules : \A l \in DOMAIN order[n] : s \in order[n][l] => n = m /\ l = k

Placed(s) == \E k : OnlyAt(s, prog.stms[s].module, k)

OrderRight ==
    \A s \in Stms :
        /\ component[StmNode(s)] = 0 => Nowhere(s)
        /\ component[StmNode(s)] > 0 => Placed(s)

(* A variable's domain that depends on itself, or on a negative cycle.     *)
Unsafe(n) ==
    \E e \in depend[n] : e.type = "DOM" /\ (n \in Reach(e.to) \/ NegativeCycleBelow(e.to))

(* What is known of a closed component.                                    *)
StratifiedRight ==
    /\ \A n \in Nodes : component[n] > 0 => (components[component[n]] <=> ~NegativeCycleBelow(n))
    /\ phase # "error" => \A n \in Nodes : component[n] > 0 => ~Unsafe(n)
    /\ phase = "error" => \E n \in Nodes : Unsafe(n)

(* The counter of a todo: its open providers, and when there is none left  *)
(* the last component of a provider.                                       *)
OpenOf(w) == {n \in Providers(w) : component[StmNode(n[2])] = 0}

Waiting(w) == todo[w].provided = Cardinality(OpenOf(w))
CountedOut(w) ==
    /\ \E n \in Providers(w) : todo[w].provided = component[StmNode(n[2])] - 1
    /\ \A n \in Providers(w) : component[StmNode(n[2])] - 1 <= todo[w].provided

CountRight ==
    phase # "visit" => \A w \in Todos :
        /\ OpenOf(w) # {} \/ Providers(w) = {} => Waiting(w)
        /\ OpenOf(w) = {} /\ Providers(w) # {} => CountedOut(w)
        /\ phase = "search" => (todo[w].complete <=> Providers(w) = {} /\ ~IsExternal(w))

Finished == phase = "done" => (\A n \in Nodes : component[n] > 0) /\ AtomsReachAll

Inv == Search /\ Fresh /\ OrderRight /\ StratifiedRight /\ CountRight /\ Finished

------------------------------------------------------------------------------
LEMMA InitRight == Init => Search /\ Fresh
<1> SUFFICES ASSUME Init PROVE Search /\ Fresh
  OBVIOUS
<1>1. /\ stack = <<>> /\ components = <<>> /\ index = 0 /\ phase = "visit"
      /\ \A n \in Nodes : visited[n] = 0 /\ component[n] = 0
  BY DEF Init
<1>2. Typed /\ GraphRight
  BY InitTyped
<1>3. Depth = 0 /\ LeftNodes = {} /\ Len(components) = 0
  BY <1>1, <1>2, StackOf DEF LeftNodes, Marked
<1>4. StackRight
  BY <1>1, <1>3 DEF StackRight
<1>5. ClosedRight
  BY <1>1, <1>3 DEF ClosedRight
<1>6. LeftRight /\ Attached
  <2>1. [n \in Nodes |-> 0] \in [Nodes -> Nat] /\ \A at \in [Nodes -> Nat] : Hangs(at)
    BY <1>3 DEF Hangs
  <2> QED
    BY <1>3, <2>1 DEF LeftRight, Attached
<1> QED
  BY <1>1, <1>2, <1>4, <1>5, <1>6 DEF Search, Fresh

LEMMA ResolveRight ==
  ASSUME Search, Fresh, Resolve
  PROVE  Search' /\ Fresh'
<1>1. /\ Typed /\ GraphRight /\ StackRight /\ ClosedRight /\ phase' = "search"
      /\ UNCHANGED <<prog, index, visited, component, components, order, stack, provide>>
      /\ stack = <<>> /\ \A n \in Nodes : visited[n] = 0 /\ component[n] = 0
  BY DEF Search, Fresh, Resolve
<1>2. Typed' /\ GraphRight'
  BY <1>1, ResolveTyped
<1>3. Nodes' = Nodes
  <2>1. Stms' = Stms /\ \A s : LitsOf(s)' = LitsOf(s)
    BY <1>1 DEF Stms, LitsOf
  <2>2. \A s, i : IsNode(s, i)' = IsNode(s, i)
    BY <1>1 DEF IsNode, LitAt
  <2> QED
    BY <2>1, <2>2 DEF Nodes, StmNodes, PredNodes, Places
<1>4. Depth = 0 /\ Depth' = 0 /\ LeftNodes' = {}
  BY <1>1, <1>3, StackOf DEF Depth, LeftNodes, Marked
<1>5. StackRight'
  BY <1>1, <1>3, <1>4 DEF StackRight
<1>6. ClosedRight'
  BY <1>1, <1>3 DEF ClosedRight
<1>7. LeftRight' /\ Attached'
  <2>1. [n \in Nodes |-> 0] \in [Nodes -> Nat] /\ \A at \in [Nodes -> Nat] : Hangs(at)'
    BY <1>4 DEF Hangs
  <2> QED
    BY <1>3, <1>4, <2>1 DEF LeftRight, Attached
<1> QED
  BY <1>1, <1>2, <1>5, <1>6, <1>7 DEF Search, Fresh

(* The invariant of the search is about its stack and the graph.           *)
LEMMA SearchSame ==
  ASSUME Search, phase = "visit" => phase' = "visit", phase' \in Phases, todo' \in [Todos -> TodoOf(PredNodes)],
         \A w \in Todos : todo'[w].from = todo[w].from,
         UNCHANGED <<prog, depend, index, visited, component, components, order, stack>>
  PROVE  Search'
<1>1. Typed
  BY DEF Search
<1>2. /\ Nodes' = Nodes /\ PredNodes' = PredNodes /\ StmNodes' = StmNodes /\ Todos' = Todos /\ Stms' = Stms
      /\ \A m : Targets(m)' = Targets(m) /\ Reach(m)' = Reach(m) /\ ModuleAt(m)' = ModuleAt(m)
      /\ \A w : Providers(w)' = Providers(w)
  BY ReachSame
<1>4. Typed'
  BY <1>1, <1>2 DEF Typed, TodoOf, Phases, EdgesTo
<1>5. GraphRight'
  BY <1>1, <1>2 DEF Search, GraphRight, StmNode
<1>6. Depth' = Depth /\ LeftNodes' = LeftNodes
  BY <1>1, <1>2 DEF Depth, LeftNodes, Marked
<1>7. StackRight'
  BY <1>1, <1>2, <1>6 DEF Search, StackRight, Marked
<1>8. ClosedRight'
  BY <1>1, <1>2 DEF Search, ClosedRight, Marked
<1>9. LeftRight'
  BY <1>1, <1>2, <1>6 DEF Search, LeftRight, Marked
<1>10. Attached'
  <2>1. PICK at \in [Nodes -> Nat] : Hangs(at)
    BY DEF Search, Attached
  <2>2. Hangs(at)'
    BY <1>1, <1>2, <1>6, <2>1 DEF Hangs
  <2> QED
    BY <1>2, <2>2 DEF Attached
<1> QED
  BY <1>4, <1>5, <1>7, <1>8, <1>9, <1>10 DEF Search

LEMMA CompleteSearch ==
  ASSUME Search, Complete
  PROVE  Search'
<1>1. /\ Typed /\ phase = "search" /\ phase' = "done"
      /\ UNCHANGED <<prog, depend, index, visited, component, components, order, stack>>
  BY DEF Search, Complete
<1>2. \A w \in Todos : todo[w] \in TodoOf(PredNodes)
  BY <1>1 DEF Typed
<1>3. PICK f \in [Todos -> BOOLEAN] : todo' = [w \in Todos |-> [todo[w] EXCEPT !.complete = f[w]]]
  <2> DEFINE g == [w \in Todos |-> todo[w].complete \/ (todo[w].provided < ComponentOf(StmNode(w[1])) /\ ~IsExternal(w))]
  <2>1. g \in [Todos -> BOOLEAN]
    OBVIOUS
  <2>2. todo' = [w \in Todos |-> [todo[w] EXCEPT !.complete = g[w]]]
    BY DEF Complete
  <2> QED
    BY <2>1, <2>2
<1>4. todo' \in [Todos -> TodoOf(PredNodes)] /\ \A w \in Todos : todo'[w].from = todo[w].from
  BY <1>2, <1>3 DEF TodoOf
<1> QED
  BY <1>1, <1>4, SearchSame DEF Phases

(* What depends on the graph only. *)
LEMMA SameVerdicts ==
  ASSUME prog' = prog, depend' = depend
  PROVE  \A n : (NegativeCycleBelow(n)' <=> NegativeCycleBelow(n)) /\ (Unsafe(n)' <=> Unsafe(n))
<1>1. \A n : Reach(n)' = Reach(n)
  BY ReachSame
<1>2. \A n : NegativeCycleBelow(n)' <=> NegativeCycleBelow(n)
  BY <1>1 DEF NegativeCycleBelow
<1>3. \A n : Unsafe(n)' <=> Unsafe(n)
  BY <1>1, <1>2 DEF Unsafe
<1> QED
  BY <1>2, <1>3

LEMMA OrderSame ==
  ASSUME OrderRight, UNCHANGED <<prog, component, order>>
  PROVE  OrderRight'
<1>1. \A s : (Nowhere(s)' <=> Nowhere(s)) /\ (Placed(s)' <=> Placed(s)) /\ StmNode(s)' = StmNode(s)
  BY DEF Nowhere, Placed, OnlyAt, Modules, StmNode
<1>2. Stms' = Stms
  BY DEF Stms
<1> QED
  BY <1>1, <1>2 DEF OrderRight

LEMMA SearchKeeps ==
  ASSUME Inv, phase = "search", phase' = "search",
         UNCHANGED <<prog, depend, todo, component, components, order>>
  PROVE  Fresh' /\ OrderRight' /\ StratifiedRight' /\ CountRight' /\ Finished'
<1>1. /\ Nodes' = Nodes /\ Todos' = Todos /\ Stms' = Stms
      /\ \A w : Providers(w)' = Providers(w) /\ IsExternal(w)' = IsExternal(w)
  BY ReachSame
<1>2. \A n : (NegativeCycleBelow(n)' <=> NegativeCycleBelow(n)) /\ (Unsafe(n)' <=> Unsafe(n))
  BY SameVerdicts
<1>3. Fresh' /\ Finished'
  BY DEF Fresh, Finished
<1>4. OrderRight'
  BY OrderSame DEF Inv
<1>5. StratifiedRight'
  BY <1>1, <1>2 DEF Inv, StratifiedRight
<1>6. CountRight'
  BY <1>1 DEF Inv, CountRight, OpenOf, Waiting, CountedOut, StmNode
<1> QED
  BY <1>3, <1>4, <1>5, <1>6

(* What a component reaches: itself, and what is below an edge to a closed *)
(* node.                                                                   *)
LEMMA ComponentReach ==
  ASSUME Search, stack # <<>>, Unmarked(Top) = {}, IsRoot(Top),
         NEW n \in Collected(Top), NEW x \in Reach(n)
  PROVE  x \in Collected(Top) \/ \E e \in Edges(Collected(Top)) : component[e.to] > 0 /\ x \in Reach(e.to)
<1>1. PICK C : C = Collected(Top)
  OBVIOUS
<1>2. Typed
  BY DEF Search
<1>3. n \in C /\ \A k \in C : k \in Nodes /\ component[k] = 0 /\ \A t \in Targets(k) : t \in C \/ component[t] > 0
  BY <1>1, ComponentOfRoot
<1> DEFINE W == C \cup {k \in Nodes : \E e \in Edges(C) : component[e.to] > 0 /\ k \in Reach(e.to)}
<1>4. \A k \in Nodes : /\ k \in Reach(k) /\ Reach(k) \subseteq Nodes /\ Targets(k) \subseteq Nodes
                       /\ \A m \in Reach(k) : Targets(m) \subseteq Reach(k)
  BY <1>2, ReachOf
<1>5. \A e \in Edges(C) : e.to \in Nodes
  BY <1>2, <1>3 DEF Edges, Typed, EdgesTo
<1>6. ASSUME NEW k \in W, NEW t \in Targets(k) PROVE t \in W
  <2>1. CASE k \in C
    <3>1. t \in C \/ component[t] > 0
      BY <1>3, <1>6, <2>1
    <3>2. PICK e \in depend[k] : e.to = t
      BY <1>6 DEF Targets
    <3>3. e \in Edges(C) /\ t \in Nodes /\ t \in Reach(t)
      BY <1>4, <1>5, <2>1, <3>2 DEF Edges
    <3> QED
      BY <3>1, <3>2, <3>3
  <2>2. CASE k \notin C
    <3>1. PICK e \in Edges(C) : component[e.to] > 0 /\ k \in Reach(e.to)
      BY <1>6, <2>2
    <3>2. t \in Reach(e.to) /\ t \in Nodes
      BY <1>4, <1>5, <1>6, <3>1
    <3> QED
      BY <3>1, <3>2
  <2> QED
    BY <2>1, <2>2
<1>7. W \in SUBSET Nodes /\ n \in W /\ n \in Nodes
  BY <1>3
<1> HIDE DEF W
<1>8. Reach(n) \subseteq W
  BY <1>2, <1>6, <1>7, ReachOf
<1> QED
  BY <1>1, <1>8 DEF W

LEMMA CloseStratified ==
  ASSUME Inv, CloseComponent
  PROVE  StratifiedRight'
<1>1. Search /\ Typed /\ ClosedRight /\ stack # <<>> /\ Unmarked(Top) = {} /\ IsRoot(Top) /\ phase = "search"
  BY CloseState DEF Inv, Search
<1>2. PICK C : C = Collected(Top)
  OBVIOUS
<1>3. /\ prog' = prog /\ depend' = depend
      /\ phase' = (IF DomainError(C) THEN "error" ELSE "search")
      /\ \A n \in Nodes : component'[n] = IF n \in C THEN Len(components) + 1 ELSE component[n]
      /\ Len(components) \in Nat
      /\ \A k \in 1 .. Len(components) : components'[k] = components[k]
      /\ components'[Len(components) + 1] = IsStratified(C)
  BY <1>1, <1>2, CloseState
<1>4. PICK top \in Nat : top = Len(components)
  BY <1>3
<1>5. /\ Nodes' = Nodes
      /\ \A n : (NegativeCycleBelow(n)' <=> NegativeCycleBelow(n)) /\ (Unsafe(n)' <=> Unsafe(n))
  BY <1>3, ReachSame, SameVerdicts
<1>6. /\ \A n \in C : n \in Nodes /\ component[n] = 0
      /\ \A n \in C, m \in Nodes : m \in C <=> m \in Reach(n) /\ n \in Reach(m)
      /\ \A n \in C : \A t \in Targets(n) : t \in C \/ component[t] > 0
      /\ Top \in C
  BY <1>1, <1>2, ComponentOfRoot
<1>7. \A n \in Nodes : component[n] \in Nat /\ component[n] <= top
  BY <1>1, <1>4 DEF Typed, ClosedRight
<1>8. \A n \in Nodes : \A e \in depend[n] : e.to \in Nodes /\ e.to \in Targets(n)
  BY <1>1 DEF Typed, EdgesTo, Targets
<1>9. \A n \in Nodes : /\ Reach(n) \subseteq Nodes /\ Targets(n) \subseteq Reach(n)
                       /\ \A m \in Reach(n) : Reach(m) \subseteq Reach(n)
  BY <1>1, ReachOf
<1>10. \A n \in Nodes : component[n] > 0 => (components[component[n]] <=> ~NegativeCycleBelow(n)) /\ ~Unsafe(n)
  BY <1>1 DEF Inv, StratifiedRight
<1>11. \A n \in Nodes : component[n] > 0 => \A m \in Reach(n) : component[m] > 0
  <2> TAKE n \in Nodes
  <2> HAVE component[n] > 0
  <2> TAKE m \in Reach(n)
  <2>1. component[m] \in 1 .. component[n]
    BY <1>1, ClosedReach
  <2> QED
    BY <1>7, <2>1
<1>12. \A n \in C : \A e \in depend[n] : /\ e \in Edges(C)
                                         /\ component[e.to] = 0 <=> n \in Reach(e.to)
                                         /\ UnstratifiedBelow(e) <=> component[e.to] > 0 /\ NegativeCycleBelow(e.to)
  <2> TAKE n \in C
  <2> TAKE e \in depend[n]
  <2>1. e \in Edges(C) /\ e.to \in Nodes /\ e.to \in Targets(n) /\ n \in Nodes /\ component[n] = 0
    BY <1>6, <1>8 DEF Edges
  <2>2. component[e.to] = 0 => n \in Reach(e.to)
    BY <1>6, <2>1
  <2>3. n \in Reach(e.to) => ~(component[e.to] > 0)
    BY <1>11, <2>1
  <2>4. UnstratifiedBelow(e) <=> component[e.to] > 0 /\ NegativeCycleBelow(e.to)
    BY <1>10, <2>1 DEF UnstratifiedBelow
  <2> QED
    BY <1>7, <2>1, <2>2, <2>3, <2>4
<1>13. ASSUME NEW n \in C PROVE IsStratified(C) <=> ~NegativeCycleBelow(n)
  <2>1. ASSUME ~IsStratified(C) PROVE NegativeCycleBelow(n)
    <3>1. PICK k \in C : \E e \in depend[k] : UnstratifiedBelow(e) \/ (component[e.to] = 0 /\ e.type = "NEG")
      BY <2>1 DEF IsStratified, Edges
    <3>2. PICK e \in depend[k] : UnstratifiedBelow(e) \/ (component[e.to] = 0 /\ e.type = "NEG")
      BY <3>1
    <3>3. k \in Reach(n) /\ k \in Nodes /\ n \in Nodes /\ e.to \in Reach(k) /\ e.to \in Nodes
      BY <1>6, <1>8, <1>9
    <3>4. CASE UnstratifiedBelow(e)
      <4>1. NegativeCycleBelow(e.to)
        BY <1>12, <3>4
      <4>2. Reach(e.to) \subseteq Reach(n)
        BY <1>9, <3>3
      <4> QED
        BY <4>1, <4>2 DEF NegativeCycleBelow
    <3>5. CASE component[e.to] = 0 /\ e.type = "NEG"
      <4>1. k \in Reach(e.to)
        BY <1>12, <3>5
      <4> QED
        BY <3>3, <3>5, <4>1 DEF NegativeCycleBelow
    <3> QED
      BY <3>2, <3>4, <3>5
  <2>2. ASSUME NegativeCycleBelow(n) PROVE ~IsStratified(C)
    <3>0. PICK m \in Reach(n) : \E e \in depend[m] : e.type = "NEG" /\ m \in Reach(e.to)
      BY <2>2 DEF NegativeCycleBelow
    <3>1. PICK e \in depend[m] : e.type = "NEG" /\ m \in Reach(e.to)
      BY <3>0
    <3>2. CASE m \in C
      <4>1. e \in Edges(C) /\ component[e.to] = 0
        BY <1>12, <3>1, <3>2
      <4> QED
        BY <3>1, <4>1 DEF IsStratified
    <3>3. CASE m \notin C
      <4>1. PICK f \in Edges(C) : component[f.to] > 0 /\ m \in Reach(f.to)
        BY <1>1, <1>2, <3>3, ComponentReach
      <4>2. NegativeCycleBelow(f.to)
        BY <3>1, <4>1 DEF NegativeCycleBelow
      <4>3. UnstratifiedBelow(f)
        BY <1>12, <4>1, <4>2 DEF Edges
      <4> QED
        BY <4>1, <4>3 DEF IsStratified
    <3> QED
      BY <3>2, <3>3
  <2> QED
    BY <2>1, <2>2
<1>14. DomainError(C) <=> \E n \in C : Unsafe(n)
  <2>1. ASSUME NEW n \in C, NEW e \in depend[n]
        PROVE  component[e.to] = 0 \/ UnstratifiedBelow(e) <=> n \in Reach(e.to) \/ NegativeCycleBelow(e.to)
    <3>1. e.to \in Nodes /\ (component[e.to] = 0 \/ component[e.to] > 0)
      BY <1>6, <1>7, <1>8
    <3> QED
      BY <1>12, <3>1
  <2>2. DomainError(C) <=> \E n \in C : \E e \in depend[n] : e.type = "DOM" /\ (component[e.to] = 0 \/ UnstratifiedBelow(e))
    BY DEF DomainError, Edges
  <2> QED
    BY <2>1, <2>2 DEF Unsafe
<1>15. ASSUME NEW n \in Nodes, component'[n] > 0 PROVE components'[component'[n]] <=> ~NegativeCycleBelow(n)
  <2>1. CASE n \in C
    BY <1>3, <1>13, <2>1
  <2>2. CASE n \notin C
    <3>1. component'[n] = component[n] /\ component[n] \in 1 .. Len(components)
      BY <1>3, <1>4, <1>7, <1>15, <2>2
    <3>2. components'[component'[n]] = components[component[n]]
      BY <1>3, <3>1
    <3> QED
      BY <1>10, <1>15, <3>1, <3>2
  <2> QED
    BY <2>1, <2>2
<1>16. ASSUME phase' # "error", NEW n \in Nodes, component'[n] > 0 PROVE ~Unsafe(n)
  <2>1. ~DomainError(C)
    BY <1>3, <1>16
  <2>2. n \in C \/ component[n] > 0
    BY <1>3, <1>16
  <2> QED
    BY <1>10, <1>14, <2>1, <2>2
<1>17. phase' = "error" => \E n \in Nodes : Unsafe(n)
  BY <1>3, <1>6, <1>14
<1> QED
  BY <1>5, <1>15, <1>16, <1>17 DEF StratifiedRight

(* What is reached is in a module that is visible.                         *)
LEMMA ModuleReach ==
  ASSUME Typed, GraphRight, NEW n \in Nodes, NEW m \in Reach(n)
  PROVE  ModuleAt(m) <= ModuleAt(n) /\ ModuleAt(m) \in Nat /\ ModuleAt(n) \in Nat /\ m \in Nodes
<1> DEFINE W == {k \in Nodes : ModuleAt(k) <= ModuleAt(n)}
<1>0. prog \in [stms : Seq(Statement), external : SUBSET Nat] /\ \A i \in Modules : i \in Nat
  BY DEF Typed, Modules
<1>1. \A k \in Nodes : ModuleAt(k) \in Nat
  BY <1>0, NodesOf
<1>2. n \in W /\ W \in SUBSET Nodes
  BY <1>1
<1>3. \A k \in W : Targets(k) \subseteq W
  BY <1>1, ReachOf DEF GraphRight
<1> HIDE DEF W
<1>4. Reach(n) \subseteq W
  BY <1>2, <1>3, ReachOf
<1> QED
  BY <1>1, <1>4 DEF W

LEMMA CloseOrder ==
  ASSUME Inv, CloseComponent
  PROVE  OrderRight'
<1>1. /\ Search /\ Typed /\ GraphRight /\ stack # <<>> /\ Unmarked(Top) = {} /\ IsRoot(Top)
      /\ OrderRight /\ Top \in Nodes
  BY CloseState, StackOf DEF Inv, Search
<1>2. PICK C : C = Collected(Top)
  OBVIOUS
<1>3. PICK stms : stms = {n[2] : n \in C \cap StmNodes}
  OBVIOUS
<1>4. /\ prog' = prog /\ depend' = depend
      /\ \A n \in Nodes : component'[n] = IF n \in C THEN Len(components) + 1 ELSE component[n]
      /\ Len(components) \in Nat
  BY <1>1, <1>2, CloseState
<1>5. order' = IF stms = {} THEN order ELSE [order EXCEPT ![ModuleAt(Top)] = Append(@, stms)]
  BY <1>2, <1>3 DEF CloseComponent
<1>6. \A s \in Stms : /\ StmNode(s) \in Nodes /\ prog.stms[s].module = ModuleAt(StmNode(s))
                      /\ s \in stms <=> StmNode(s) \in C
  <2>1. prog \in [stms : Seq(Statement), external : SUBSET Nat]
    BY <1>1 DEF Typed
  <2> SUFFICES ASSUME NEW s \in Stms
               PROVE  /\ StmNode(s) \in Nodes /\ prog.stms[s].module = ModuleAt(StmNode(s))
                      /\ s \in stms <=> StmNode(s) \in C
    OBVIOUS
  <2>2. StmNode(s) \in StmNodes /\ prog.stms[s].module = ModuleAt(StmNode(s))
    BY <2>1, NodesOf
  <2>3. StmNode(s)[2] = s
    BY DEF StmNode
  <2>4. \A n \in StmNodes : n = StmNode(n[2])
    BY <2>1, NodesOf
  <2>5. StmNode(s) \in C => s \in stms
    BY <1>3, <2>2, <2>3
  <2>6. s \in stms => StmNode(s) \in C
    BY <1>3, <2>4
  <2> QED
    BY <2>2, <2>5, <2>6 DEF Nodes
<1>7. /\ \A n \in C : n \in Nodes /\ component[n] = 0 /\ ModuleAt(n) = ModuleAt(Top)
      /\ Top \in C
  <2>1. /\ Top \in C
        /\ \A n \in C : n \in Nodes /\ component[n] = 0
        /\ \A n \in C, m \in Nodes : m \in C <=> m \in Reach(n) /\ n \in Reach(m)
    BY <1>1, <1>2, ComponentOfRoot
  <2> SUFFICES ASSUME NEW n \in C PROVE ModuleAt(n) = ModuleAt(Top)
    BY <2>1
  <2>2. n \in Nodes /\ n \in Reach(Top) /\ Top \in Reach(n)
    BY <1>1, <2>1
  <2> QED
    BY <1>1, <2>2, ModuleReach
<1>8. PICK M \in Modules : M = ModuleAt(Top)
  BY <1>1, NodesOf DEF Typed
<1>9. stms \in SUBSET Stms
  BY <1>1, <1>3, NodesOf DEF Typed
<1>10. CASE stms = {}
  <2>1. order' = order
    BY <1>5, <1>10
  <2>2. \A s : (Nowhere(s)' <=> Nowhere(s)) /\ (Placed(s)' <=> Placed(s))
    BY <1>4, <2>1 DEF Nowhere, Placed, OnlyAt, Modules
  <2>3. \A s \in Stms : component'[StmNode(s)] = component[StmNode(s)]
    BY <1>4, <1>6, <1>10
  <2>4. Stms' = Stms /\ \A s : StmNode(s)' = StmNode(s)
    BY <1>4 DEF Stms, StmNode
  <2> QED
    BY <1>1, <2>2, <2>3, <2>4 DEF OrderRight
<1>11. CASE stms # {}
  <2>1. order \in [Modules -> Seq(SUBSET Stms)]
    BY <1>1 DEF Typed
  <2>2. PICK old \in Seq(SUBSET Stms) : old = order[M]
    BY <2>1
  <2>3. PICK new : new = Append(old, stms)
    OBVIOUS
  <2>4. PICK last : /\ last \notin DOMAIN old /\ DOMAIN new = DOMAIN old \cup {last}
                    /\ new[last] = stms /\ \A k \in DOMAIN old : new[k] = old[k]
    <3>1. /\ new \in Seq(SUBSET Stms) /\ Len(new) = Len(old) + 1 /\ new[Len(old) + 1] = stms
          /\ \A k \in 1 .. Len(old) : new[k] = old[k]
      BY <1>9, <2>3, AppendProperties
    <3>2. Len(old) \in Nat /\ DOMAIN old = 1 .. Len(old) /\ DOMAIN new = 1 .. Len(old) + 1
      BY <3>1, LenProperties
    <3> QED
      BY <3>1, <3>2
  <2>5. order' = [order EXCEPT ![M] = new]
    BY <1>5, <1>8, <1>11, <2>2, <2>3
  <2>6. order'[M] = new /\ order[M] = old /\ \A m \in Modules : m # M => order'[m] = order[m]
    BY <2>1, <2>2, <2>5
  <2>7. ASSUME NEW s \in Stms, component'[StmNode(s)] = 0 PROVE Nowhere(s)'
    <3>1. s \notin stms /\ component[StmNode(s)] = 0
      BY <1>4, <1>6, <2>7
    <3>2. \A m \in Modules : \A k \in DOMAIN order[m] : s \notin order[m][k]
      BY <1>1, <3>1 DEF OrderRight, Nowhere
    <3>3. \A m \in Modules : \A k \in DOMAIN order'[m] : s \notin order'[m][k]
      BY <2>4, <2>6, <3>1, <3>2
    <3> QED
      BY <3>3 DEF Nowhere, Modules
  <2>8. ASSUME NEW s \in Stms, component'[StmNode(s)] > 0 PROVE Placed(s)'
    <3>1. PICK m : m = prog.stms[s].module
      OBVIOUS
    <3>2. m = prog'.stms[s].module /\ m \in Modules
      BY <1>1, <1>4, <3>1, NodesOf DEF Typed
    <3>3. SUFFICES \E k : /\ k \in DOMAIN order'[m] /\ s \in order'[m][k]
                          /\ \A n \in Modules : \A l \in DOMAIN order'[n] : s \in order'[n][l] => n = m /\ l = k
      BY <3>2 DEF Placed, OnlyAt, Modules
    <3>4. CASE StmNode(s) \in C
      <4>1. s \in stms /\ component[StmNode(s)] = 0 /\ m = M
        BY <1>6, <1>7, <1>8, <3>1, <3>4
      <4>2. \A n \in Modules : \A l \in DOMAIN order[n] : s \notin order[n][l]
        BY <1>1, <4>1 DEF OrderRight, Nowhere
      <4> WITNESS last
      <4> QED
        BY <2>4, <2>6, <4>1, <4>2
    <3>5. CASE StmNode(s) \notin C
      <4>1. s \notin stms /\ component[StmNode(s)] > 0
        BY <1>4, <1>6, <2>8, <3>5
      <4>2. PICK k : /\ k \in DOMAIN order[m] /\ s \in order[m][k]
                     /\ \A n \in Modules : \A l \in DOMAIN order[n] : s \in order[n][l] => n = m /\ l = k
        BY <1>1, <3>1, <4>1 DEF OrderRight, Placed, OnlyAt
      <4> WITNESS k
      <4>3. k \in DOMAIN order'[m] /\ s \in order'[m][k]
        BY <2>4, <2>6, <3>2, <4>2
      <4>4. \A n \in Modules : \A l \in DOMAIN order'[n] : s \in order'[n][l] => l \in DOMAIN order[n] /\ s \in order[n][l]
        BY <2>4, <2>6, <4>1
      <4> QED
        BY <4>2, <4>3, <4>4
    <3> QED
      BY <3>4, <3>5
  <2>9. Stms' = Stms /\ \A s : StmNode(s)' = StmNode(s)
    BY <1>4 DEF Stms, StmNode
  <2> QED
    BY <2>7, <2>8, <2>9 DEF OrderRight
<1> QED
  BY <1>10, <1>11

(* Counting the providers that are closed. *)
LEMMA CountedSets ==
  ASSUME NEW O, NEW N \in SUBSET O, IsFiniteSet(O)
  PROVE  /\ Cardinality(O) \in Nat /\ Cardinality(N) \in Nat /\ Cardinality(O \ N) = Cardinality(O) - Cardinality(N)
         /\ N = {} <=> Cardinality(N) = 0
         /\ O \ N = {} <=> Cardinality(O) = Cardinality(N)
<1>1. IsFiniteSet(N) /\ IsFiniteSet(O \ N) /\ O \cap N = N
  BY FS_Subset
<1>2. Cardinality(O) \in Nat /\ Cardinality(N) \in Nat /\ Cardinality(O \ N) \in Nat
  BY <1>1, FS_CardinalityType
<1>3. Cardinality(O \ N) = Cardinality(O) - Cardinality(N)
  BY <1>1, FS_Difference
<1>4. (N = {} <=> Cardinality(N) = 0) /\ (O \ N = {} <=> Cardinality(O \ N) = 0)
  BY <1>1, FS_EmptySet
<1> QED
  BY <1>2, <1>3, <1>4

(* The providers of a todo, and the statements they are heads of.          *)
LEMMA ProvidersOf ==
  ASSUME Typed, NEW w
  PROVE  /\ IsFiniteSet(Providers(w)) /\ IsFiniteSet(OpenOf(w))
         /\ \A n \in Providers(w) : n \in PredNodes /\ n \in Nodes /\ n[2] \in Stms /\ StmNode(n[2]) \in StmNodes /\ StmNode(n[2]) \in Nodes
<1>1. prog \in [stms : Seq(Statement), external : SUBSET Nat]
  BY DEF Typed
<1>2. IsFiniteSet(PredNodes) /\ Providers(w) \subseteq PredNodes /\ OpenOf(w) \subseteq Providers(w)
  BY <1>1, NodesFinite DEF Providers, OpenOf
<1>3. IsFiniteSet(Providers(w)) /\ IsFiniteSet(OpenOf(w))
  BY <1>2, FS_Subset
<1>4. \A n \in PredNodes : n \in Nodes /\ n[2] \in Stms /\ StmNode(n[2]) \in StmNodes /\ StmNode(n[2]) \in Nodes
  BY <1>1, NodesOf DEF Nodes
<1> QED
  BY <1>2, <1>3, <1>4

LEMMA CloseCount ==
  ASSUME Inv, CloseComponent
  PROVE  CountRight'
<1>1. /\ Search /\ Typed /\ GraphRight /\ ClosedRight /\ stack # <<>> /\ Unmarked(Top) = {} /\ IsRoot(Top)
      /\ CountRight /\ phase = "search"
  BY CloseState DEF Inv, Search
<1>2. PICK C : C = Collected(Top)
  OBVIOUS
<1>3. PICK stms : stms = {n[2] : n \in C \cap StmNodes}
  OBVIOUS
<1>4. /\ prog' = prog /\ depend' = depend
      /\ \A n \in Nodes : component'[n] = IF n \in C THEN Len(components) + 1 ELSE component[n]
      /\ Len(components) \in Nat
      /\ todo' = [w \in Todos |-> [todo[w] EXCEPT !.provided = Counted(todo[w], stms, Len(components))]]
  BY <1>1, <1>2, <1>3, CloseState
<1>5. PICK comp \in Nat : comp = Len(components)
  BY <1>4
<1>6. /\ Todos' = Todos
      /\ \A w : Providers(w)' = Providers(w) /\ IsExternal(w)' = IsExternal(w)
  BY <1>4, ReachSame
<1>7. \A n \in C : n \in Nodes /\ component[n] = 0
  BY <1>1, <1>2, ComponentOfRoot
<1>8. \A s : StmNode(s) \in StmNodes => (s \in stms <=> StmNode(s) \in C)
  <2>1. prog \in [stms : Seq(Statement), external : SUBSET Nat]
    BY <1>1 DEF Typed
  <2>2. \A n \in StmNodes : n = StmNode(n[2])
    BY <2>1, NodesOf
  <2>3. \A s : StmNode(s)[2] = s
    BY DEF StmNode
  <2> QED
    BY <1>3, <2>2, <2>3
<1>9. \A n \in Nodes : component[n] \in Nat /\ component[n] <= comp
  BY <1>1, <1>5 DEF Typed, ClosedRight
<1>10. ASSUME NEW w \in Todos
       PROVE  /\ OpenOf(w)' # {} \/ Providers(w) = {} => Waiting(w)'
              /\ OpenOf(w)' = {} /\ Providers(w) # {} => CountedOut(w)'
              /\ todo'[w].complete <=> Providers(w) = {} /\ ~IsExternal(w)
  <2>1. PICK P : P = Providers(w)
    OBVIOUS
  <2>2. todo[w] \in TodoOf(PredNodes) /\ todo[w].from = P
    BY <1>1, <2>1 DEF Typed, GraphRight
  <2>3. PICK N : N = {n \in P : n[2] \in stms}
    OBVIOUS
  <2>4. PICK O : O = OpenOf(w)
    OBVIOUS
  <2>5. \A n \in P : n[2] \in Stms /\ StmNode(n[2]) \in StmNodes /\ StmNode(n[2]) \in Nodes
    BY <1>1, <2>1, ProvidersOf
  <2>6. \A n \in P : n \in N <=> StmNode(n[2]) \in C
    BY <1>8, <2>3, <2>5
  <2>7. \A n \in P : n \in O <=> component[StmNode(n[2])] = 0
    BY <2>1, <2>4 DEF OpenOf
  <2>8. N \in SUBSET O /\ N \subseteq P /\ O \subseteq P /\ IsFiniteSet(O)
    <3>1. O \subseteq P /\ IsFiniteSet(O)
      BY <1>1, <2>1, <2>4, ProvidersOf DEF OpenOf
    <3> QED
      BY <1>7, <2>3, <2>6, <2>7, <3>1
  <2>9. \A n \in P : component'[StmNode(n[2])] = IF n \in N THEN comp + 1 ELSE component[StmNode(n[2])]
    BY <1>4, <1>5, <2>5, <2>6
  <2>10. OpenOf(w)' = O \ N
    <3>1. OpenOf(w)' = {n \in P : component'[StmNode(n[2])] = 0}
      BY <1>6, <2>1 DEF OpenOf, StmNode
    <3>2. \A n \in P : component'[StmNode(n[2])] = 0 <=> n \in O /\ n \notin N
      BY <2>7, <2>9
    <3> QED
      BY <2>8, <3>1, <3>2
  <2>11. PICK given \in Int : given = todo[w].provided
    BY <2>2 DEF TodoOf
  <2>12. PICK gone : gone = Cardinality(N)
    OBVIOUS
  <2>13. PICK size : size = Cardinality(O)
    OBVIOUS
  <2>14. /\ gone \in Nat /\ size \in Nat /\ Cardinality(O \ N) = size - gone
         /\ (N = {} <=> gone = 0) /\ (O \ N = {} <=> size = gone)
    BY <2>8, <2>12, <2>13, CountedSets
  <2>15. /\ todo'[w].provided = (IF gone > 0 /\ gone = given THEN comp ELSE given - gone)
         /\ todo'[w].complete = todo[w].complete
    <3>1. Counted(todo[w], stms, comp) = IF gone > 0 /\ gone = given THEN comp ELSE given - gone
      BY <2>2, <2>3, <2>11, <2>12 DEF Counted
    <3>2. todo'[w] = [todo[w] EXCEPT !.provided = Counted(todo[w], stms, comp)]
      BY <1>4, <1>5
    <3> QED
      BY <2>2, <3>1, <3>2 DEF TodoOf
  <2>16. Waiting(w) <=> given = size
    BY <2>4, <2>11, <2>13 DEF Waiting
  <2>17. Waiting(w)' <=> todo'[w].provided = size - gone
    BY <2>10, <2>14 DEF Waiting
  <2>18. CountedOut(w)' <=> /\ \E n \in P : todo'[w].provided = component'[StmNode(n[2])] - 1
                            /\ \A n \in P : component'[StmNode(n[2])] - 1 <= todo'[w].provided
    BY <1>6, <2>1 DEF CountedOut, StmNode
  <2>19. /\ O # {} \/ P = {} => given = size
         /\ O = {} /\ P # {} => /\ \E n \in P : given = component[StmNode(n[2])] - 1
                                /\ \A n \in P : component[StmNode(n[2])] - 1 <= given
         /\ todo[w].complete <=> P = {} /\ ~IsExternal(w)
    BY <1>1, <2>1, <2>4, <2>11, <2>16 DEF CountRight, CountedOut
  <2>20. ASSUME O \ N # {} \/ P = {} PROVE todo'[w].provided = size - gone
    BY <2>8, <2>14, <2>15, <2>19, <2>20
  <2>21. ASSUME O \ N = {}, P # {}
         PROVE  /\ \E n \in P : todo'[w].provided = component'[StmNode(n[2])] - 1
                /\ \A n \in P : component'[StmNode(n[2])] - 1 <= todo'[w].provided
    <3>1. CASE O = {}
      <4>1. N = {} /\ todo'[w].provided = given
        BY <2>8, <2>14, <2>15, <3>1
      <4>2. \A n \in P : component'[StmNode(n[2])] = component[StmNode(n[2])]
        BY <2>9, <4>1
      <4> QED
        BY <2>19, <2>21, <3>1, <4>1, <4>2
    <3>2. CASE O # {}
      <4>1. N = O /\ given = size /\ size = gone /\ gone > 0
        BY <2>8, <2>14, <2>19, <2>21, <3>2
      <4>2. todo'[w].provided = comp
        BY <2>15, <4>1
      <4>3. PICK n \in P : n \in N
        BY <2>8, <3>2, <4>1
      <4>4. component'[StmNode(n[2])] - 1 = comp
        BY <2>9, <4>3
      <4>5. \A m \in P : component'[StmNode(m[2])] - 1 <= comp
        BY <1>9, <2>5, <2>9
      <4> QED
        BY <4>2, <4>3, <4>4, <4>5
    <3> QED
      BY <3>1, <3>2
  <2> QED
    BY <2>1, <2>10, <2>15, <2>17, <2>18, <2>19, <2>20, <2>21
<1> QED
  BY <1>6, <1>10 DEF CountRight

(* What is known of a program does not change with the edges.              *)
LEMMA ProgSame ==
  ASSUME prog' = prog
  PROVE  /\ Nodes' = Nodes /\ Stms' = Stms /\ Todos' = Todos /\ PredNodes' = PredNodes
         /\ \A w : Providers(w)' = Providers(w) /\ IsExternal(w)' = IsExternal(w)
<1>1. /\ Stms' = Stms /\ \A s : LitsOf(s)' = LitsOf(s)
      /\ \A s, i : LitAt(s, i)' = LitAt(s, i)
  BY DEF Stms, LitsOf, LitAt
<1>2. Places' = Places /\ \A s, i : IsNode(s, i)' = IsNode(s, i)
  BY <1>1 DEF Places, IsNode
<1>3. Nodes' = Nodes /\ PredNodes' = PredNodes /\ Todos' = Todos
  BY <1>1, <1>2 DEF Nodes, PredNodes, StmNodes, Todos
<1>4. \A s, i, w : Compatible(s, i, w)' = Compatible(s, i, w)
  BY <1>1 DEF Compatible
<1> QED
  BY <1>1, <1>3, <1>4 DEF Providers, IsExternal

LEMMA InitInv == Init => Inv
<1> SUFFICES ASSUME Init PROVE Inv
  OBVIOUS
<1>1. Search /\ Fresh /\ Typed
  BY InitRight DEF Search
<1>2. /\ phase = "visit" /\ \A n \in Nodes : component[n] = 0
      /\ order = [m \in Modules |-> <<>>]
  BY DEF Init
<1>3. OrderRight
  <2>1. prog \in [stms : Seq(Statement), external : SUBSET Nat]
    BY <1>1 DEF Typed
  <2>2. \A s \in Stms : StmNode(s) \in Nodes
    BY <2>1, NodesOf DEF Nodes
  <2>3. \A s : Nowhere(s)
    BY <1>2 DEF Nowhere
  <2> QED
    BY <1>2, <2>2, <2>3 DEF OrderRight
<1>4. StratifiedRight
  BY <1>2 DEF StratifiedRight
<1> QED
  BY <1>1, <1>2, <1>3, <1>4 DEF Inv, CountRight, Finished

LEMMA ResolveInv ==
  ASSUME Inv, Resolve
  PROVE  Inv'
<1>1. Search' /\ Fresh' /\ Typed
  BY ResolveRight DEF Inv, Search
<1>2. /\ phase' = "search" /\ UNCHANGED <<prog, component, order>> /\ OrderRight
      /\ \A n \in Nodes : component[n] = 0
      /\ todo' = [w \in Todos |->
            LET from == Providers(w)
            IN [from |-> from, provided |-> Cardinality(from), complete |-> from = {} /\ ~IsExternal(w)]]
  BY DEF Inv, Fresh, Resolve
<1>3. OrderRight'
  BY <1>2, OrderSame
<1>4. /\ Nodes' = Nodes /\ Todos' = Todos
      /\ \A w : Providers(w)' = Providers(w) /\ IsExternal(w)' = IsExternal(w)
  BY <1>2, ProgSame
<1>5. StratifiedRight'
  BY <1>2, <1>4 DEF StratifiedRight
<1>6. CountRight'
  <2> SUFFICES ASSUME NEW w \in Todos
               PROVE  /\ Waiting(w)'
                      /\ OpenOf(w)' = Providers(w)
                      /\ todo'[w].complete <=> Providers(w) = {} /\ ~IsExternal(w)
    BY <1>4 DEF CountRight
  <2>1. OpenOf(w)' = Providers(w)
    <3>1. OpenOf(w)' = {n \in Providers(w) : component[StmNode(n[2])] = 0}
      BY <1>2, <1>4 DEF OpenOf, StmNode
    <3>2. \A n \in Providers(w) : component[StmNode(n[2])] = 0
      BY <1>1, <1>2, ProvidersOf
    <3> QED
      BY <3>1, <3>2
  <2>2. todo'[w] = [from |-> Providers(w), provided |-> Cardinality(Providers(w)),
                    complete |-> Providers(w) = {} /\ ~IsExternal(w)]
    BY <1>2
  <2>3. Waiting(w)' <=> todo'[w].provided = Cardinality(Providers(w))
    BY <2>1 DEF Waiting
  <2>4. todo'[w].provided = Cardinality(Providers(w))
    BY <2>2
  <2>5. todo'[w].complete = (Providers(w) = {} /\ ~IsExternal(w))
    BY <2>2
  <2> QED
    BY <2>1, <2>3, <2>4, <2>5
<1> QED
  BY <1>1, <1>2, <1>3, <1>5, <1>6 DEF Inv, Finished

(* When the search is over every node has been closed.                     *)
LEMMA AllClosed ==
  ASSUME Search, stack = <<>>, \A n \in Nodes : Marked(n)
  PROVE  \A n \in Nodes : component[n] \in Nat /\ component[n] > 0
<1>1. Depth = 0 /\ component \in [Nodes -> Nat]
  BY StackOf DEF Search, Typed
<1>2. PICK at : Hangs(at)
  BY DEF Search, Attached
<1>3. LeftNodes = {}
  BY <1>1, <1>2 DEF Hangs
<1> QED
  BY <1>1, <1>3 DEF LeftNodes

(* The statement of a head is closed with the head or before, and a head   *)
(* that is closed with another statement is closed with its own.           *)
LEMMA ProviderBelow ==
  ASSUME Search, phase # "visit", \A n \in Nodes : component[n] \in Nat /\ component[n] > 0,
         NEW w \in Todos, NEW n \in Providers(w)
  PROVE  /\ component[StmNode(n[2])] <= component[n] /\ component[n] <= component[StmNode(w[1])]
         /\ component[n] = component[StmNode(w[1])] => component[StmNode(n[2])] = component[n]
<1>1. Typed /\ GraphRight /\ ClosedRight
  BY DEF Search
<1>2. /\ n \in PredNodes /\ n \in Nodes /\ StmNode(w[1]) \in Nodes /\ StmNode(n[2]) \in Nodes
      /\ n \in Targets(StmNode(w[1])) /\ Targets(n) = {StmNode(n[2])}
  BY <1>1, CompatibleBelow, ProvidersOf DEF GraphRight
<1>3. component[StmNode(n[2])] <= component[n] /\ component[n] <= component[StmNode(w[1])]
  BY <1>1, <1>2 DEF ClosedRight
<1>4. ASSUME component[n] = component[StmNode(w[1])] PROVE component[StmNode(n[2])] = component[n]
  <2>1. StmNode(w[1]) \in Reach(n)
    BY <1>1, <1>2, <1>4 DEF ClosedRight
  <2> DEFINE W == {n} \cup Reach(StmNode(n[2]))
  <2>2. W \in SUBSET Nodes /\ n \in W
    BY <1>1, <1>2, ReachOf
  <2>3. \A k \in W : Targets(k) \subseteq W
    BY <1>1, <1>2, ReachOf
  <2> HIDE DEF W
  <2>4. Reach(n) \subseteq W
    BY <1>1, <1>2, <2>2, <2>3, ReachOf
  <2>5. StmNode(w[1]) # n
    <3>1. prog \in [stms : Seq(Statement), external : SUBSET Nat]
      BY <1>1 DEF Typed
    <3>2. w[1] \in Stms /\ StmNode(w[1]) \in StmNodes /\ n \notin StmNodes
      BY <1>2, <3>1, NodesOf
    <3> QED
      BY <3>2
  <2>6. StmNode(w[1]) \in Reach(StmNode(n[2]))
    BY <2>1, <2>4, <2>5 DEF W
  <2>7. component[StmNode(w[1])] \in 1 .. component[StmNode(n[2])]
    BY <1>1, <1>2, <2>6, ClosedReach
  <2> QED
    BY <1>2, <1>3, <1>4, <2>7
<1> QED
  BY <1>3, <1>4

LEMMA CompleteFinished ==
  ASSUME Inv, Complete
  PROVE  Finished'
<1>1. /\ Search /\ Typed /\ phase = "search" /\ stack = <<>> /\ CountRight
      /\ UNCHANGED <<prog, depend, component>> /\ phase' = "done" /\ \A n \in Nodes : Marked(n)
  BY DEF Inv, Search, Complete
<1>2. \A n \in Nodes : component[n] \in Nat /\ component[n] > 0
  BY <1>1, AllClosed
<1>3. /\ Nodes' = Nodes /\ PredNodes' = PredNodes /\ Todos' = Todos
      /\ \A w : Providers(w)' = Providers(w) /\ IsExternal(w)' = IsExternal(w)
  BY <1>1, ProgSame
<1> DEFINE isComplete(w) ==
            todo[w].complete \/ (todo[w].provided < ComponentOf(StmNode(w[1])) /\ ~IsExternal(w))
<1>4. /\ todo' = [w \in Todos |-> [todo[w] EXCEPT !.complete = isComplete(w)]]
      /\ provide' = {v \in PredNodes \X Todos :
            LET w == v[2]
            IN v[1] \in todo[w].from /\ ~isComplete(w) /\ ComponentOf(v[1]) = todo[w].provided}
  BY DEF Complete
<1>5. ASSUME NEW w \in Todos
      PROVE  /\ isComplete(w) \in BOOLEAN /\ todo'[w].complete = isComplete(w) /\ todo[w].from = Providers(w)
             /\ isComplete(w) <=> /\ ~IsExternal(w)
                                  /\ \A n \in Providers(w) : component[StmNode(n[2])] < component[StmNode(w[1])]
             /\ ~IsExternal(w) => \A n \in Providers(w) :
                    ~isComplete(w) /\ ComponentOf(n) = todo[w].provided
                        <=> component[StmNode(n[2])] = component[StmNode(w[1])]
  <2>1. PICK P : P = Providers(w)
    OBVIOUS
  <2>2. todo[w] \in TodoOf(PredNodes) /\ todo[w].from = P
    BY <1>1, <2>1 DEF Search, Typed, GraphRight
  <2>3. PICK given \in Int : given = todo[w].provided
    BY <2>2 DEF TodoOf
  <2>4. PICK own \in Nat : own = component[StmNode(w[1])] /\ own > 0
    <3>1. prog \in [stms : Seq(Statement), external : SUBSET Nat]
      BY <1>1 DEF Typed
    <3>2. StmNode(w[1]) \in Nodes
      BY <3>1, NodesOf DEF Nodes
    <3> QED
      BY <1>2, <3>2
  <2>5. \A n \in P : /\ component[n] \in Nat /\ component[StmNode(n[2])] \in Nat /\ component[StmNode(n[2])] > 0
                     /\ component[StmNode(n[2])] <= component[n] /\ component[n] <= own
                     /\ component[n] = own => component[StmNode(n[2])] = component[n]
    BY <1>1, <1>2, <2>1, <2>4, ProvidersOf, ProviderBelow
  <2>6. OpenOf(w) = {}
    <3>1. \A n \in P : component[StmNode(n[2])] # 0
      BY <2>5
    <3> QED
      BY <2>1, <3>1 DEF OpenOf
  <2>7. /\ P = {} => given = 0
        /\ P # {} => /\ \E n \in P : given = component[StmNode(n[2])] - 1
                     /\ \A n \in P : component[StmNode(n[2])] - 1 <= given
        /\ todo[w].complete <=> P = {} /\ ~IsExternal(w)
    <3>1. Cardinality(OpenOf(w)) = 0
      BY <2>6, FS_EmptySet
    <3> QED
      BY <1>1, <2>1, <2>3, <2>6, <3>1 DEF CountRight, Waiting, CountedOut
  <2>8. isComplete(w) <=> (P = {} \/ given < own - 1) /\ ~IsExternal(w)
    BY <2>3, <2>4, <2>7 DEF ComponentOf
  <2>9. todo'[w].complete = isComplete(w)
    <3>1. todo'[w] = [todo[w] EXCEPT !.complete = isComplete(w)]
      BY <1>4
    <3> QED
      BY <2>2, <3>1 DEF TodoOf
  <2>10. P # {} => (given < own - 1 <=> \A n \in P : component[StmNode(n[2])] < own)
    BY <2>5, <2>7
  <2>11. ASSUME NEW n \in P
         PROVE  ~(given < own - 1) /\ ComponentOf(n) = given <=> component[StmNode(n[2])] = own
    BY <2>5, <2>7 DEF ComponentOf
  <2>12. isComplete(w) \in BOOLEAN
    BY <2>2 DEF TodoOf
  <2> HIDE DEF isComplete
  <2> QED
    BY <2>1, <2>2, <2>3, <2>4, <2>8, <2>9, <2>10, <2>11, <2>12
<1> HIDE DEF isComplete
<1>6. CompleteIsBelow'
  <2>1. ASSUME NEW w \in Todos
        PROVE  LET later == {n \in Providers(w) : component[StmNode(n[2])] >= component[StmNode(w[1])]}
               IN todo'[w].complete <=> later = {} /\ ~IsExternal(w)
    <3>1. StmNode(w[1]) \in Nodes
      <4>1. prog \in [stms : Seq(Statement), external : SUBSET Nat]
        BY <1>1 DEF Typed
      <4> QED
        BY <4>1, NodesOf DEF Nodes
    <3>2. \A n \in Providers(w) : StmNode(n[2]) \in Nodes
      BY <1>1, ProvidersOf
    <3>3. \A n \in Providers(w) : ~(component[StmNode(n[2])] >= component[StmNode(w[1])])
                                      <=> component[StmNode(n[2])] < component[StmNode(w[1])]
      BY <1>2, <3>1, <3>2
    <3> QED
      BY <1>5, <3>3
  <2> QED
    BY <1>1, <1>3, <2>1 DEF CompleteIsBelow, StmNode
<1>7. ProvidedWithin'
  <2>1. ASSUME NEW w \in Todos, ~IsExternal(w)
        PROVE  {v[1] : v \in {u \in provide' : u[2] = w}} =
                    {n \in Providers(w) : component[StmNode(n[2])] = component[StmNode(w[1])]}
    <3>1. \A n : n \in {v[1] : v \in {u \in provide' : u[2] = w}} <=> <<n, w>> \in provide'
      <4>1. \A v \in provide' : v = <<v[1], v[2]>>
        BY <1>4
      <4> QED
        BY <4>1
    <3>2. \A n : <<n, w>> \in provide' <=> n \in PredNodes /\ n \in todo[w].from /\ ~isComplete(w) /\ ComponentOf(n) = todo[w].provided
      BY <1>4
    <3>3. \A n \in Providers(w) : n \in PredNodes
      BY <1>1, ProvidersOf
    <3> QED
      BY <1>5, <2>1, <3>1, <3>2, <3>3
  <2> QED
    BY <1>1, <1>3, <2>1 DEF ProvidedWithin, StmNode
<1> QED
  BY <1>1, <1>2, <1>3, <1>6, <1>7 DEF Finished, AtomsReachAll

LEMMA CompleteInv ==
  ASSUME Inv, Complete
  PROVE  Inv'
<1>1. /\ phase = "search" /\ phase' = "done" /\ stack = <<>>
      /\ UNCHANGED <<prog, depend, component, components, order>>
      /\ OrderRight /\ StratifiedRight /\ CountRight /\ Typed
  BY DEF Inv, Search, Complete
<1>2. OrderRight'
  BY <1>1, OrderSame
<1>3. /\ Nodes' = Nodes /\ Todos' = Todos
      /\ \A w : Providers(w)' = Providers(w) /\ IsExternal(w)' = IsExternal(w)
      /\ \A n : (NegativeCycleBelow(n)' <=> NegativeCycleBelow(n)) /\ (Unsafe(n)' <=> Unsafe(n))
  BY <1>1, ProgSame, SameVerdicts
<1>4. StratifiedRight'
  BY <1>1, <1>3 DEF StratifiedRight
<1>5. \A w \in Todos : todo'[w].provided = todo[w].provided
  <2>1. PICK f \in [Todos -> BOOLEAN] : todo' = [w \in Todos |-> [todo[w] EXCEPT !.complete = f[w]]]
    <3> DEFINE g == [w \in Todos |-> todo[w].complete \/ (todo[w].provided < ComponentOf(StmNode(w[1])) /\ ~IsExternal(w))]
    <3>1. g \in [Todos -> BOOLEAN]
      OBVIOUS
    <3>2. todo' = [w \in Todos |-> [todo[w] EXCEPT !.complete = g[w]]]
      BY DEF Complete
    <3> QED
      BY <3>1, <3>2
  <2>2. \A w \in Todos : todo[w] \in TodoOf(PredNodes)
    BY <1>1 DEF Typed
  <2> QED
    BY <2>1, <2>2 DEF TodoOf
<1>6. CountRight'
  BY <1>1, <1>3, <1>5 DEF CountRight, OpenOf, Waiting, CountedOut, StmNode
<1> QED
  BY <1>1, <1>2, <1>4, <1>6, CompleteSearch, CompleteFinished DEF Inv, Fresh

LEMMA CloseInv ==
  ASSUME Inv, CloseComponent
  PROVE  Inv'
<1>1. Search' /\ OrderRight' /\ StratifiedRight' /\ CountRight'
  BY CloseRight, CloseOrder, CloseStratified, CloseCount DEF Inv
<1>2. phase' \notin {"visit", "done"}
  BY CloseState DEF Inv
<1> QED
  BY <1>1, <1>2 DEF Inv, Fresh, Finished

LEMMA SearchInv ==
  ASSUME Inv, Start \/ Descend \/ Leave
  PROVE  Inv'
<1>1. Search'
  BY StartRight, DescendRight, LeaveRight DEF Inv
<1>2. phase = "search" /\ UNCHANGED <<prog, depend, todo, phase, component, components, order>>
  BY DEF Start, Descend, Leave
<1> QED
  BY <1>1, <1>2, SearchKeeps DEF Inv

LEMMA StopInv ==
  ASSUME Inv, UNCHANGED vars
  PROVE  Inv'
<1>1. UNCHANGED <<prog, depend, todo, phase, index, visited, component, components, order, stack, provide>>
  BY DEF vars
<1>2. /\ Nodes' = Nodes /\ Todos' = Todos /\ PredNodes' = PredNodes
      /\ \A w : Providers(w)' = Providers(w) /\ IsExternal(w)' = IsExternal(w)
      /\ \A n : (NegativeCycleBelow(n)' <=> NegativeCycleBelow(n)) /\ (Unsafe(n)' <=> Unsafe(n))
  BY <1>1, ProgSame, SameVerdicts
<1>3. Fresh'
  BY <1>1, <1>2 DEF Inv, Fresh
<1>4. OrderRight'
  BY <1>1, OrderSame DEF Inv
<1>5. StratifiedRight'
  BY <1>1, <1>2 DEF Inv, StratifiedRight
<1>6. CountRight'
  BY <1>1, <1>2 DEF Inv, CountRight, OpenOf, Waiting, CountedOut, StmNode
<1>7. Finished'
  BY <1>1, <1>2 DEF Inv, Finished, AtomsReachAll, CompleteIsBelow, ProvidedWithin, StmNode
<1>8. Search'
  BY <1>1, SearchSame DEF Inv, Search, Typed
<1> QED
  BY <1>3, <1>4, <1>5, <1>6, <1>7, <1>8 DEF Inv

LEMMA NextInv == Inv /\ [Next]_vars => Inv'
<1> SUFFICES ASSUME Inv, [Next]_vars PROVE Inv'
  OBVIOUS
<1>1. CASE Resolve
  BY <1>1, ResolveInv
<1>2. CASE Start \/ Descend \/ Leave
  BY <1>2, SearchInv
<1>3. CASE CloseComponent
  BY <1>3, CloseInv
<1>4. CASE Complete
  BY <1>4, CompleteInv
<1>5. CASE Stop \/ UNCHANGED vars
  BY <1>5, StopInv DEF Stop
<1> QED
  BY <1>1, <1>2, <1>3, <1>4, <1>5 DEF Next

LEMMA Invariant == Spec => []Inv
BY InitInv, NextInv, PTL DEF Spec

------------------------------------------------------------------------------
LEMMA ComponentsHold == Inv => ComponentsRight
<1> SUFFICES ASSUME Inv PROVE ComponentsRight
  OBVIOUS
<1>1. Search /\ Typed /\ GraphRight /\ ClosedRight
  BY DEF Inv, Search
<1>2. ComponentsAreCycles
  <2>1. \A n, m \in Nodes : m \in Reach(n) <=> \A set \in Closed : n \in set => m \in set
    BY DEF Reach
  <2> QED
    BY <1>1, <2>1 DEF ComponentsAreCycles, ClosedRight
<1>3. BottomUp
  <2>1. ASSUME NEW n \in Nodes, NEW m \in Nodes, component[n] > 0, component[m] = component[n]
        PROVE  ModuleAt(m) = ModuleAt(n)
    <3>1. m \in Reach(n) /\ n \in Reach(m)
      BY <1>1, <2>1 DEF ClosedRight
    <3> QED
      BY <1>1, <3>1, ModuleReach
  <2> QED
    BY <1>1, <2>1 DEF BottomUp, ClosedRight
<1>4. EachOnce
  <2> SUFFICES ASSUME phase = "done", NEW s \in Stms, NEW m \in Modules
               PROVE  Cardinality({k \in DOMAIN order[m] : s \in order[m][k]})
                        = IF m = prog.stms[s].module THEN 1 ELSE 0
    BY DEF EachOnce
  <2>1. StmNode(s) \in Nodes
    <3>1. prog \in [stms : Seq(Statement), external : SUBSET Nat]
      BY <1>1 DEF Typed
    <3> QED
      BY <3>1, NodesOf DEF Nodes
  <2>2. Placed(s)
    BY <2>1 DEF Inv, Finished, OrderRight
  <2>3. PICK k : OnlyAt(s, prog.stms[s].module, k)
    BY <2>2 DEF Placed
  <2>4. PICK K : K = {l \in DOMAIN order[m] : s \in order[m][l]}
    OBVIOUS
  <2>5. CASE m = prog.stms[s].module
    <3>1. K = {k}
      BY <2>3, <2>4, <2>5 DEF OnlyAt
    <3> QED
      BY <2>4, <2>5, <3>1, FS_Singleton
  <2>6. CASE m # prog.stms[s].module
    <3>1. K = {}
      BY <2>3, <2>4, <2>6 DEF OnlyAt
    <3> QED
      BY <2>4, <2>6, <3>1, FS_EmptySet
  <2> QED
    BY <2>5, <2>6
<1> QED
  BY <1>2, <1>3, <1>4 DEF ComponentsRight

(* The components are the cycles of the graph, closed bottom up, and every *)
(* statement is grounded once, in its module (Tarjan::start and below).    *)
THEOREM ComponentsCorrect == Spec => []ComponentsRight
BY Invariant, ComponentsHold, PTL

(* checkDom throws exactly if a variable's domain is not stratified.       *)
THEOREM StratifiedCorrect == Spec => []DomainsAreStratified
<1>1. Inv => DomainsAreStratified
  <2> SUFFICES ASSUME Inv PROVE DomainsAreStratified
    OBVIOUS
  <2>1. phase = "done" => \A n \in Nodes : ~Unsafe(n)
    BY DEF Inv, Finished, StratifiedRight
  <2>2. phase = "error" => \E n \in Nodes : Unsafe(n)
    BY DEF Inv, StratifiedRight
  <2> QED
    BY <2>1, <2>2 DEF DomainsAreStratified, Unsafe
<1> QED
  BY <1>1, Invariant, PTL

(* The end of Builder::analyze: a literal is complete exactly if all that  *)
(* provides for it is below, and told of new atoms by the heads it waits   *)
(* for otherwise.                                                          *)
THEOREM AtomsCorrect == Spec => []AtomsReachAll
<1>1. Inv => AtomsReachAll
  BY DEF Inv, Finished, AtomsReachAll, CompleteIsBelow, ProvidedWithin
<1> QED
  BY <1>1, Invariant, PTL

(* Every variable stays of its type: a stack of nodes, numbers of nodes,   *)
(* an order of sets of statements per module.                              *)
THEOREM TypeCorrect == Spec => []Typed
<1>1. Inv => Typed
  BY DEF Inv, Search
<1> QED
  BY <1>1, Invariant, PTL
=============================================================================
