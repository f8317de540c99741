--------------------------- MODULE LiveAgentProofs ---------------------------
(***************************************************************************)
(* Proofs about LiveAgent: whatever saves fail and wherever a process      *)
(* stops, the files of the coding agent hold whole steps of one console,   *)
(* a resume goes through no failure, and what was acknowledged is saved.   *)
(***************************************************************************)
EXTENDS LiveAgent, CommonFacts

-----------------------------------------------------------------------------
(* The nodes a resume goes through *)

\* Parents come first.
ParentsFirst(nodes) == \A i \in 1..Len(nodes) : nodes[i].parent \in 0..(i - 1)

\* The table that lineage computes.
IsLineageTable(nodes, f) ==
  f = [i \in 0..Len(nodes) |-> IF i = 0 THEN {} ELSE {i} \cup f[nodes[i].parent]]

\* The rows of the table.
LEMMA LineageRows ==
  ASSUME NEW nodes, Len(nodes) \in Nat, NEW f, IsLineageTable(nodes, f)
  PROVE  /\ DOMAIN f = 0..Len(nodes) /\ f[0] = {}
         /\ \A i \in 1..Len(nodes) : f[i] = {i} \cup f[nodes[i].parent]
<1>1. PICK L : L = Len(nodes) /\ L \in Nat
  OBVIOUS
<1>2. f = [i \in 0..L |-> IF i = 0 THEN {} ELSE {i} \cup f[nodes[i].parent]]
  BY <1>1 DEF IsLineageTable
<1>3. ASSUME NEW i \in 0..L PROVE f[i] = IF i = 0 THEN {} ELSE {i} \cup f[nodes[i].parent]
  BY <1>2, Zenon
<1>4. DOMAIN f = 0..L
  BY <1>2
<1>5. 0 \in 0..L /\ \A i \in 1..L : i \in 0..L /\ i # 0
  BY <1>1
<1> QED
  BY <1>1, <1>3, <1>4, <1>5

\* The table exists, since parents come first.
LEMMA LineageTableExists ==
  ASSUME NEW nodes, Len(nodes) \in Nat, ParentsFirst(nodes)
  PROVE  \E f : IsLineageTable(nodes, f)
<1>1. PICK L \in Nat : L = Len(nodes)
  OBVIOUS
<1>2. PICK up : up = [i \in 1..L |-> nodes[i].parent]
  OBVIOUS
<1>3. \A i \in 1..L : up[i] = nodes[i].parent /\ up[i] \in 0..(i - 1)
  BY <1>1, <1>2 DEF ParentsFirst
<1>4. PICK g : IsPathTable(up, L, g)
  BY <1>3, PathTableExists
<1>5. DOMAIN g = 0..L /\ g[0] = << >> /\ \A i \in 1..L : g[i] = Append(g[up[i]], i)
  BY <1>4, PathRows
<1>6. \A i \in 0..L : g[i] \in Seq(1..L)
  BY <1>3, <1>4, PathOnce
<1>7. PICK f : f = [i \in 0..L |-> ToSet(g[i])]
  OBVIOUS
<1>8. ASSUME NEW i \in 0..L
      PROVE  f[i] = IF i = 0 THEN {} ELSE {i} \cup f[nodes[i].parent]
  <2>1. CASE i = 0
    <3>1. f[i] = ToSet(<< >>)
      BY <1>5, <1>7, <2>1
    <3>2. ToSet(<< >>) = {}
      BY DEF ToSet
    <3> QED
      BY <2>1, <3>1, <3>2
  <2>2. CASE i # 0
    <3>1. i \in 1..L /\ up[i] \in 0..L
      BY <1>3, <2>2
    <3>2. g[i] = Append(g[up[i]], i) /\ g[up[i]] \in Seq(1..L)
      BY <1>5, <1>6, <3>1
    <3>3. ToSet(g[i]) = ToSet(g[up[i]]) \cup {i}
      <4>1. PICK q \in Seq(1..L) : q = g[up[i]] /\ g[i] = Append(q, i)
        BY <3>2
      <4>2. ToSet(Append(q, i)) = ToSet(q) \cup {i}
        BY <3>1, AppendToSet
      <4> QED
        BY <4>1, <4>2
    <3>4. f[i] = ToSet(g[i]) /\ f[up[i]] = ToSet(g[up[i]])
      BY <1>7, <3>1
    <3>5. f[i] = {i} \cup f[nodes[i].parent]
      BY <1>3, <3>1, <3>3, <3>4
    <3> QED
      BY <2>2, <3>5
  <2> QED
    BY <2>1, <2>2
<1>9. f = [i \in 0..L |-> IF i = 0 THEN {} ELSE {i} \cup f[nodes[i].parent]]
  <2>1. f = [i \in 0..L |-> f[i]]
    BY <1>7
  <2> QED
    BY <1>8, <2>1
<1> QED
  BY <1>1, <1>9 DEF IsLineageTable

\* The table stays as it is when nodes are appended.
LEMMA LineageStays ==
  ASSUME NEW nodes, Len(nodes) \in Nat, ParentsFirst(nodes),
         NEW f, IsLineageTable(nodes, f),
         NEW more, Len(more) \in Nat, Len(nodes) <= Len(more),
         \A i \in 1..Len(nodes) : more[i] = nodes[i],
         NEW g, IsLineageTable(more, g)
  PROVE  \A i \in 0..Len(nodes) : g[i] = f[i] /\ f[i] \subseteq 1..Len(nodes)
<1>1. PICK L, M : L = Len(nodes) /\ M = Len(more) /\ L \in Nat /\ M \in Nat /\ L <= M
  OBVIOUS
<1>2. f[0] = {} /\ \A i \in 1..L : f[i] = {i} \cup f[nodes[i].parent]
  BY <1>1, LineageRows
<1>3. g[0] = {} /\ \A i \in 1..M : g[i] = {i} \cup g[more[i].parent]
  BY <1>1, LineageRows
<1>4. \A i \in 1..L : more[i] = nodes[i] /\ nodes[i].parent \in 0..(i - 1)
  BY <1>1 DEF ParentsFirst
<1> DEFINE bad == {i \in 0..L : ~(g[i] = f[i] /\ f[i] \subseteq 1..L)}
<1>5. SUFFICES ASSUME bad # {} PROVE FALSE
  BY <1>1
<1>6. bad \in SUBSET Nat
  BY <1>1
<1>7. PICK i \in bad : \A j \in bad : i <= j
  BY <1>5, <1>6, LeastNumber
<1>8. i \in 1..L
  <2>1. 0 \notin bad
    BY <1>2, <1>3
  <2> QED
    BY <1>1, <1>7, <2>1
<1>9. PICK p : p = nodes[i].parent
  OBVIOUS
<1>10. p \in 0..(i - 1) /\ more[i].parent = p
  BY <1>4, <1>8, <1>9
<1>11. p \notin bad /\ p \in 0..L
  <2>1. p \in 0..L /\ ~(i <= p)
    BY <1>1, <1>8, <1>10
  <2> QED
    BY <1>7, <2>1
<1>12. g[p] = f[p] /\ f[p] \subseteq 1..L
  BY <1>11
<1>13. i \in 1..M
  BY <1>1, <1>8
<1>14. f[i] = {i} \cup f[p] /\ g[i] = {i} \cup g[p]
  BY <1>2, <1>3, <1>8, <1>9, <1>10, <1>13
<1> QED
  BY <1>7, <1>8, <1>12, <1>14

\* lineage is the table at the head.
LEMMA LineageAtHead ==
  ASSUME NEW g, Len(g.nodes) \in Nat, ParentsFirst(g.nodes)
  PROVE  \E f : IsLineageTable(g.nodes, f) /\ lineage(g) = f[g.head]
<1> DEFINE table == CHOOSE f : IsLineageTable(g.nodes, f)
<1>1. IsLineageTable(g.nodes, table)
  BY LineageTableExists, Zenon
<1>2. lineage(g) = table[g.head]
  BY DEF lineage, IsLineageTable
<1> QED
  BY <1>1, <1>2

\* A graph whose new head is below the old one adds it to the lineage.
LEMMA LineageGrows ==
  ASSUME NEW c, Len(c.nodes) \in Nat, ParentsFirst(c.nodes), c.head \in 1..Len(c.nodes),
         NEW d, Len(d.nodes) \in Nat, ParentsFirst(d.nodes), d.head \in 1..Len(d.nodes),
         Len(c.nodes) <= Len(d.nodes),
         \A i \in 1..Len(c.nodes) : d.nodes[i] = c.nodes[i],
         d.nodes[d.head].parent = c.head
  PROVE  lineage(d) = {d.head} \cup lineage(c) /\ lineage(c) \subseteq 1..Len(c.nodes)
<1>1. PICK f : IsLineageTable(c.nodes, f) /\ lineage(c) = f[c.head]
  BY LineageAtHead
<1>2. PICK g : IsLineageTable(d.nodes, g) /\ lineage(d) = g[d.head]
  BY LineageAtHead
<1>3. g[c.head] = f[c.head] /\ f[c.head] \subseteq 1..Len(c.nodes)
  <2>1. \A i \in 0..Len(c.nodes) : g[i] = f[i] /\ f[i] \subseteq 1..Len(c.nodes)
    BY <1>1, <1>2, LineageStays
  <2>2. c.head \in 0..Len(c.nodes)
    OBVIOUS
  <2> QED
    BY <2>1, <2>2
<1>4. g[d.head] = {d.head} \cup g[d.nodes[d.head].parent]
  BY <1>2, LineageRows
<1> QED
  BY <1>1, <1>2, <1>3, <1>4

\* The lineage depends on the nodes and the head.
LEMMA LineageSame ==
  ASSUME NEW c, NEW d, d.nodes = c.nodes, d.head = c.head,
         Len(c.nodes) \in Nat, ParentsFirst(c.nodes), c.head \in 1..Len(c.nodes)
  PROVE  lineage(d) = lineage(c)
<1>1. PICK f : IsLineageTable(c.nodes, f) /\ lineage(c) = f[c.head]
  BY LineageAtHead
<1>2. PICK g : IsLineageTable(d.nodes, g) /\ lineage(d) = g[d.head]
  BY LineageAtHead
<1>3. \A i \in 0..Len(c.nodes) : g[i] = f[i]
  BY <1>1, <1>2, LineageStays
<1>4. c.head \in 0..Len(c.nodes)
  OBVIOUS
<1> QED
  BY <1>1, <1>2, <1>3, <1>4

-----------------------------------------------------------------------------
(* Graphs with whole steps *)

\* The head is a node, and parents come first.
GraphHolds(g) == g.head \in 1..Len(g.nodes) /\ ParentsFirst(g.nodes)

\* The path goes through no failure, no sibling and every turn.
PathIsClean(g) ==
  /\ \A i \in lineage(g) : g.nodes[i].kind # "failed"
  /\ \A i \in lineage(g) : g.nodes[i].kind = "ok" =>
       /\ g.nodes[i].parent \in DOMAIN g.nodes
       /\ g.nodes[g.nodes[i].parent].calls = 1
  /\ \A i \in DOMAIN g.nodes :
       g.nodes[i].kind \in {"user", "plan", "answer"} => i \in lineage(g)

\* The step of plan p has its results, and their rewrite.
StepIsWhole(g, p) ==
  LET rs == resultsOf(g, p) IN
  /\ Cardinality(rs) = g.nodes[p].calls
  /\ \/ \E i \in rs : rs = {i} /\ g.nodes[i].kind = "ok"
     \/ \E j \in DOMAIN g.nodes :
          g.nodes[j].kind = "summary" /\ g.nodes[j].parent = p /\ g.nodes[j].from = rs

\* Every step is whole, but those of the plans in W.
StepsAreWhole(g, W) ==
  \A p \in DOMAIN g.nodes : g.nodes[p].kind = "plan" /\ p \notin W => StepIsWhole(g, p)

\* A graph as the console leaves it, with the steps of the plans in W open.
GraphIsWhole(g, W) == GraphHolds(g) /\ PathIsClean(g) /\ StepsAreWhole(g, W)

\* d has the nodes of c, and maybe more.
Extends(c, d) ==
  Len(c.nodes) <= Len(d.nodes) /\ \A i \in 1..Len(c.nodes) : d.nodes[i] = c.nodes[i]

\* What a graph is made of.
LEMMA GraphFields ==
  ASSUME NEW g \in Graphs
  PROVE  /\ g.nodes \in Seq(Node) /\ Len(g.nodes) \in Nat /\ DOMAIN g.nodes = 1..Len(g.nodes)
         /\ g.head \in Nat /\ g.start \in 1..MaxStarts /\ g.closed \in BOOLEAN
         /\ \A i \in 1..Len(g.nodes) : g.nodes[i] \in Node
         /\ g # none
<1>1. /\ g.nodes \in Seq(Node) /\ g.head \in Nat /\ g.start \in 1..MaxStarts
      /\ g.closed \in BOOLEAN
  BY DEF Graphs
<1>2. g # none
  BY <1>1 DEF none
<1> QED
  BY <1>1, <1>2

\* d is c with node n appended.
HasNode(d, c, n) ==
  /\ d \in Graphs /\ d.start = c.start /\ d.closed = c.closed
  /\ Len(d.nodes) = Len(c.nodes) + 1 /\ d.head = Len(c.nodes) + 1
  /\ Extends(c, d)
  /\ d.nodes[Len(c.nodes) + 1] = n

\* What Append does to a graph.
LEMMA AppendFields ==
  ASSUME NEW c \in Graphs,
         NEW kind \in {"system", "user", "plan", "answer", "ok", "failed", "summary"},
         NEW parent \in Nat, NEW from \in SUBSET Nat, NEW calls \in Nat
  PROVE  HasNode(append(c, kind, parent, from, calls), c,
                 [kind |-> kind, parent |-> parent, from |-> from, calls |-> calls])
<1>0. PICK d : d = append(c, kind, parent, from, calls)
  OBVIOUS
<1>1. PICK n : n = [kind |-> kind, parent |-> parent, from |-> from, calls |-> calls]
  OBVIOUS
<1>2. n \in Node
  BY <1>1 DEF Node
<1>3. c.nodes \in Seq(Node) /\ Len(c.nodes) \in Nat
  BY GraphFields
<1>4. d.nodes = Append(c.nodes, n) /\ d.head = Len(c.nodes) + 1
      /\ d.start = c.start /\ d.closed = c.closed
  BY <1>0, <1>1 DEF append, Graphs
<1>5. /\ Append(c.nodes, n) \in Seq(Node) /\ Len(Append(c.nodes, n)) = Len(c.nodes) + 1
      /\ \A i \in 1..Len(c.nodes) : Append(c.nodes, n)[i] = c.nodes[i]
      /\ Append(c.nodes, n)[Len(c.nodes) + 1] = n
  BY <1>2, <1>3, AppendPositions
<1>6. d \in Graphs
  <2>1. Append(c.nodes, n) \in Seq(Node) /\ Len(c.nodes) + 1 \in Nat \ {0}
    BY <1>3, <1>5
  <2>2. d = [[c EXCEPT !.nodes = Append(c.nodes, n)] EXCEPT !.head = Len(c.nodes) + 1]
    BY <1>0, <1>1 DEF append, Graphs
  <2> QED
    BY <2>1, <2>2 DEF Graphs
<1>7. Extends(c, d)
  BY <1>3, <1>4, <1>5 DEF Extends
<1>8. HasNode(d, c, n)
  BY <1>4, <1>5, <1>6, <1>7 DEF HasNode
<1> QED
  BY <1>0, <1>1, <1>8

\* A step stays whole when no result of its plan is added.
LEMMA StepStays ==
  ASSUME NEW c \in Graphs, NEW d \in Graphs, Extends(c, d), NEW p \in 1..Len(c.nodes),
         \A i \in (Len(c.nodes) + 1)..Len(d.nodes) :
           ~(d.nodes[i].kind \in {"ok", "failed"} /\ d.nodes[i].parent = p),
         StepIsWhole(c, p)
  PROVE  StepIsWhole(d, p)
<1>1. PICK L, M : L = Len(c.nodes) /\ M = Len(d.nodes) /\ L \in Nat /\ M \in Nat /\ L <= M
  BY GraphFields DEF Extends
<1>2. /\ DOMAIN c.nodes = 1..L /\ DOMAIN d.nodes = 1..M
      /\ \A i \in 1..L : d.nodes[i] = c.nodes[i]
  BY <1>1, GraphFields DEF Extends
<1>3. \A i \in 1..M : i \in 1..L \/ i \in (L + 1)..M
  BY <1>1
<1>4. \A i \in 1..L : i \in 1..M
  BY <1>1
<1>5. resultsOf(d, p) = resultsOf(c, p)
  BY <1>1, <1>2, <1>3, <1>4 DEF resultsOf
<1>6. PICK rs : rs = resultsOf(c, p) /\ rs = resultsOf(d, p)
  BY <1>5
<1>7. rs \subseteq 1..L
  BY <1>2, <1>6 DEF resultsOf
<1>8. Cardinality(rs) = d.nodes[p].calls
  BY <1>1, <1>2, <1>6 DEF StepIsWhole
<1>9. CASE \E i \in rs : rs = {i} /\ c.nodes[i].kind = "ok"
  <2>1. \E i \in rs : rs = {i} /\ d.nodes[i].kind = "ok"
    BY <1>2, <1>7, <1>9
  <2> QED
    BY <1>6, <1>8, <2>1 DEF StepIsWhole
<1>10. CASE \E j \in DOMAIN c.nodes : c.nodes[j].kind = "summary" /\ c.nodes[j].parent = p
                                      /\ c.nodes[j].from = rs
  <2>1. \E j \in DOMAIN d.nodes : d.nodes[j].kind = "summary" /\ d.nodes[j].parent = p
                                  /\ d.nodes[j].from = rs
    BY <1>2, <1>4, <1>10
  <2> QED
    BY <1>6, <1>8, <2>1 DEF StepIsWhole
<1> QED
  BY <1>6, <1>9, <1>10 DEF StepIsWhole

\* A clean path grows by a new head below the old one.
LEMMA PathGrows ==
  ASSUME NEW c \in Graphs, GraphHolds(c), PathIsClean(c),
         NEW d \in Graphs, Extends(c, d), ParentsFirst(d.nodes),
         d.head \in (Len(c.nodes) + 1)..Len(d.nodes), d.nodes[d.head].parent = c.head,
         d.nodes[d.head].kind # "failed",
         d.nodes[d.head].kind = "ok" => c.nodes[c.head].calls = 1,
         \A i \in (Len(c.nodes) + 1)..Len(d.nodes) :
           d.nodes[i].kind \in {"user", "plan", "answer"} => i = d.head
  PROVE  GraphHolds(d) /\ PathIsClean(d)
<1>1. PICK L, M : L = Len(c.nodes) /\ M = Len(d.nodes) /\ L \in Nat /\ M \in Nat /\ L <= M
  BY GraphFields DEF Extends
<1>2. /\ DOMAIN c.nodes = 1..L /\ DOMAIN d.nodes = 1..M
      /\ \A i \in 1..L : d.nodes[i] = c.nodes[i]
  BY <1>1, GraphFields DEF Extends
<1>3. \A i \in 1..M : i \in 1..L \/ i \in (L + 1)..M
  BY <1>1
<1>4. \A i \in 1..L : i \in 1..M
  BY <1>1
<1>5. PICK h : h = d.head /\ h \in (L + 1)..M /\ h \in 1..M
  BY <1>1
<1>6. PICK q : q = c.head /\ q \in 1..L /\ d.nodes[h].parent = q
  BY <1>1, <1>5 DEF GraphHolds
<1>7. lineage(d) = {h} \cup lineage(c) /\ lineage(c) \subseteq 1..L
  BY <1>1, <1>2, <1>5, <1>6, LineageGrows DEF GraphHolds
<1>8. PICK old : old = lineage(c) /\ old \subseteq 1..L
  BY <1>7
<1>9. PICK path : path = lineage(d) /\ path = {h} \cup old
  BY <1>7, <1>8
<1>10. /\ \A i \in old : c.nodes[i].kind # "failed"
       /\ \A i \in old : c.nodes[i].kind = "ok" =>
            c.nodes[i].parent \in 1..L /\ c.nodes[c.nodes[i].parent].calls = 1
       /\ \A i \in 1..L : c.nodes[i].kind \in {"user", "plan", "answer"} => i \in old
  BY <1>2, <1>8 DEF PathIsClean
<1>11. \A i \in path : d.nodes[i].kind # "failed"
  BY <1>2, <1>5, <1>8, <1>9, <1>10
<1>12. ASSUME NEW i \in path, d.nodes[i].kind = "ok"
       PROVE  d.nodes[i].parent \in 1..M /\ d.nodes[d.nodes[i].parent].calls = 1
  <2>1. CASE i = h
    <3>1. c.nodes[q].calls = 1
      BY <1>5, <1>6, <1>12, <2>1
    <3>2. d.nodes[q] = c.nodes[q] /\ q \in 1..M
      BY <1>2, <1>4, <1>6
    <3> QED
      BY <1>6, <2>1, <3>1, <3>2
  <2>2. CASE i # h
    <3>1. i \in old /\ i \in 1..L
      BY <1>8, <1>9, <2>2
    <3>2. PICK p : p = c.nodes[i].parent
      OBVIOUS
    <3>3. d.nodes[i] = c.nodes[i]
      BY <1>2, <3>1
    <3>4. p \in 1..L /\ c.nodes[p].calls = 1
      BY <1>10, <1>12, <3>1, <3>2, <3>3
    <3>5. d.nodes[p] = c.nodes[p] /\ p \in 1..M
      BY <1>2, <1>4, <3>4
    <3> QED
      BY <3>2, <3>3, <3>4, <3>5
  <2> QED
    BY <2>1, <2>2
<1>13. \A i \in 1..M : d.nodes[i].kind \in {"user", "plan", "answer"} => i \in path
  BY <1>1, <1>2, <1>3, <1>5, <1>9, <1>10
<1>14. PathIsClean(d)
  BY <1>2, <1>9, <1>11, <1>12, <1>13 DEF PathIsClean
<1>15. GraphHolds(d)
  BY <1>1, <1>5 DEF GraphHolds
<1> QED
  BY <1>14, <1>15

\* d is c with a turn or a plan below its head, and the steps so far are whole.
HasTurn(d, c, kind, calls) ==
  /\ d \in Graphs /\ d.start = c.start /\ d.closed = c.closed /\ Extends(c, d)
  /\ d.head = Len(d.nodes) /\ d.nodes[d.head].kind = kind /\ d.nodes[d.head].calls = calls
  /\ GraphIsWhole(d, {d.head})
  /\ kind # "plan" => GraphIsWhole(d, {})

\* Only a plan has a step that is open.
LEMMA TurnKeeps ==
  ASSUME NEW c \in Graphs, GraphIsWhole(c, {}),
         NEW kind \in {"user", "plan", "answer"}, NEW calls \in Nat
  PROVE  HasTurn(append(c, kind, c.head, {}, calls), c, kind, calls)
<1>0. PICK d : d = append(c, kind, c.head, {}, calls)
  OBVIOUS
<1>1. PICK L \in Nat : L = Len(c.nodes)
  BY GraphFields
<1>2. c.head \in 1..L /\ c.head \in Nat
  BY <1>1 DEF GraphIsWhole, GraphHolds
<1>3. /\ d \in Graphs /\ d.start = c.start /\ d.closed = c.closed
      /\ Len(d.nodes) = L + 1 /\ d.head = L + 1 /\ Extends(c, d)
      /\ d.nodes[L + 1] = [kind |-> kind, parent |-> c.head, from |-> {}, calls |-> calls]
  <2>1. PICK h \in Nat, e \in SUBSET Nat : h = c.head /\ e = {}
    BY <1>2
  <2>2. kind \in {"system", "user", "plan", "answer", "ok", "failed", "summary"}
    OBVIOUS
  <2>3. HasNode(append(c, kind, h, e, calls), c,
                [kind |-> kind, parent |-> h, from |-> e, calls |-> calls])
    BY <2>2, AppendFields
  <2> QED
    BY <1>0, <1>1, <2>1, <2>3 DEF HasNode
<1>4. /\ d.nodes[L + 1].kind = kind /\ d.nodes[L + 1].parent = c.head
      /\ d.nodes[L + 1].calls = calls
  BY <1>3
<1>5. \A i \in 1..L : d.nodes[i] = c.nodes[i]
  BY <1>1, <1>3 DEF Extends
<1>6. \A i \in 1..(L + 1) : i \in 1..L \/ i = L + 1
  OBVIOUS
<1>7. ParentsFirst(d.nodes)
  <2>1. \A i \in 1..L : c.nodes[i].parent \in 0..(i - 1)
    BY <1>1 DEF GraphIsWhole, GraphHolds, ParentsFirst
  <2>2. d.nodes[L + 1].parent \in 0..((L + 1) - 1)
    BY <1>2, <1>4
  <2> QED
    BY <1>3, <1>5, <1>6, <2>1, <2>2 DEF ParentsFirst
<1>8. \A i \in (L + 1)..(L + 1) : i = L + 1
  OBVIOUS
<1>9. GraphHolds(d) /\ PathIsClean(d)
  <2>1. d.head \in (L + 1)..Len(d.nodes) /\ d.nodes[d.head].parent = c.head
        /\ d.nodes[d.head].kind \notin {"failed", "ok"}
    BY <1>3, <1>4
  <2>2. \A i \in (L + 1)..Len(d.nodes) :
          d.nodes[i].kind \in {"user", "plan", "answer"} => i = d.head
    BY <1>3, <1>8
  <2>3. GraphHolds(c) /\ PathIsClean(c)
    BY DEF GraphIsWhole
  <2> QED
    BY <1>1, <1>3, <1>7, <2>1, <2>2, <2>3, PathGrows
<1>10. ASSUME NEW p \in 1..L, d.nodes[p].kind = "plan"
       PROVE  StepIsWhole(d, p)
  <2>1. \A i \in (L + 1)..(L + 1) : d.nodes[i].kind \notin {"ok", "failed"}
    BY <1>4, <1>8
  <2>2. StepIsWhole(c, p)
    <3>1. DOMAIN c.nodes = 1..L /\ c.nodes[p].kind = "plan"
      BY <1>1, <1>5, <1>10, GraphFields
    <3> QED
      BY <3>1 DEF GraphIsWhole, StepsAreWhole
  <2> QED
    BY <1>1, <1>3, <2>1, <2>2, StepStays
<1>11. DOMAIN d.nodes = 1..(L + 1)
  BY <1>3, GraphFields
<1>12. StepsAreWhole(d, {d.head})
  BY <1>3, <1>6, <1>10, <1>11 DEF StepsAreWhole
<1>13. kind # "plan" => StepsAreWhole(d, {})
  BY <1>4, <1>6, <1>10, <1>11 DEF StepsAreWhole
<1>14. HasTurn(d, c, kind, calls)
  BY <1>3, <1>4, <1>9, <1>12, <1>13 DEF GraphIsWhole, HasTurn
<1> QED
  BY <1>0, <1>14

\* d is c with the results of plan p.
HasResults(d, c, p, results) ==
  /\ d \in Graphs /\ d.start = c.start /\ d.closed = c.closed
  /\ Len(d.nodes) = Len(c.nodes) + Len(results)
  /\ d.head = Len(c.nodes) + Len(results)
  /\ Extends(c, d)
  /\ \A i \in 1..Len(results) :
       /\ d.nodes[Len(c.nodes) + i].kind = results[i]
       /\ d.nodes[Len(c.nodes) + i].parent = p

\* What the results of a step add to a graph.
LEMMA ResultsFields ==
  ASSUME NEW c \in Graphs, NEW p \in Nat,
         NEW results \in Seq({"ok", "failed"}), results # << >>
  PROVE  HasResults(AddToolResults(c, p, results), c, p, results)
<1>0. PICK d : d = AddToolResults(c, p, results)
  OBVIOUS
<1>1. PICK L, n : L = Len(c.nodes) /\ n = Len(results) /\ L \in Nat /\ n \in Nat \ {0}
  <2>1. Len(results) \in Nat \ {0}
    OBVIOUS
  <2>2. Len(c.nodes) \in Nat
    BY GraphFields
  <2> QED
    BY <2>1, <2>2
<1>2. DOMAIN results = 1..n /\ \A i \in 1..n : results[i] \in {"ok", "failed"}
  BY <1>1
<1>3. PICK r : r = [i \in DOMAIN results |-> [kind |-> results[i], parent |-> p,
                                              from |-> {}, calls |-> 0]]
  OBVIOUS
<1>4. ASSUME NEW i \in 1..n
      PROVE  r[i] \in Node /\ r[i].kind = results[i] /\ r[i].parent = p
  <2>1. PICK k \in {"ok", "failed"} : k = results[i]
    BY <1>2
  <2>2. [kind |-> k, parent |-> p, from |-> {}, calls |-> 0] \in Node
    BY DEF Node
  <2>3. r[i] = [kind |-> k, parent |-> p, from |-> {}, calls |-> 0]
    BY <1>2, <1>3, <2>1
  <2> QED
    BY <2>1, <2>2, <2>3
<1>5. r \in Seq(Node) /\ Len(r) = n
  <2>1. r = [i \in 1..n |-> r[i]]
    BY <1>2, <1>3
  <2>2. r \in [1..n -> Node]
    BY <1>4, <2>1
  <2> QED
    BY <1>1, <2>2
<1>6. PICK q \in Seq(Node) : q = c.nodes
  BY GraphFields
<1>7. /\ q \o r \in Seq(Node) /\ Len(q \o r) = L + n
      /\ \A i \in 1..L : (q \o r)[i] = q[i]
      /\ \A i \in 1..n : (q \o r)[L + i] = r[i]
  <2>1. /\ q \o r \in Seq(Node) /\ Len(q \o r) = Len(q) + Len(r)
        /\ \A i \in 1..Len(q) : (q \o r)[i] = q[i]
        /\ \A i \in 1..Len(r) : (q \o r)[Len(q) + i] = r[i]
    <3>1. q \in Seq(Node) /\ r \in Seq(Node)
      BY <1>5
    <3> QED
      BY <3>1
  <2> QED
    BY <1>1, <1>5, <1>6, <2>1
<1>8. PICK t \in Seq(Node) : t = q \o r
  BY <1>7
<1>9. PICK h \in Nat \ {0} : h = L + n
  BY <1>1
<1>10. d = [c EXCEPT !.nodes = t, !.head = h]
  BY <1>0, <1>1, <1>3, <1>6, <1>8, <1>9, Zenon DEF AddToolResults
<1>11. /\ d \in Graphs /\ d.nodes = t /\ d.head = h
       /\ d.start = c.start /\ d.closed = c.closed
  BY <1>10 DEF Graphs
<1>12. Extends(c, d)
  BY <1>1, <1>6, <1>7, <1>8, <1>11 DEF Extends
<1>13. ASSUME NEW i \in 1..n
       PROVE  d.nodes[L + i].kind = results[i] /\ d.nodes[L + i].parent = p
  <2>1. d.nodes[L + i] = r[i]
    BY <1>7, <1>8, <1>11
  <2> QED
    BY <1>4, <2>1
<1>14. Len(d.nodes) = L + n
  BY <1>7, <1>8, <1>11
<1>15. HasResults(d, c, p, results)
  BY <1>1, <1>9, <1>11, <1>12, <1>13, <1>14 DEF HasResults
<1> QED
  BY <1>0, <1>15

\* The nodes of a graph are a prefix of those of a graph that extends it.
LEMMA ExtendsIsPrefix ==
  ASSUME NEW c \in Graphs, NEW d \in Graphs
  PROVE  Extends(c, d) <=> IsPrefix(c.nodes, d.nodes)
<1>1. PICK q, r \in Seq(Node) : q = c.nodes /\ r = d.nodes
  BY GraphFields
<1>2. IsPrefix(q, r) <=> Len(q) <= Len(r) /\ \A i \in 1..Len(q) : q[i] = r[i]
  BY PrefixPositions
<1> QED
  BY <1>1, <1>2 DEF Extends

\* Extending goes on.
LEMMA ExtendsOn ==
  ASSUME NEW b \in Graphs, NEW c \in Graphs, NEW d \in Graphs, Extends(b, c), Extends(c, d)
  PROVE  Extends(b, d)
<1>1. Len(b.nodes) \in Nat /\ Len(c.nodes) \in Nat /\ Len(d.nodes) \in Nat
  BY GraphFields
<1> QED
  BY <1>1 DEF Extends

\* The step of the last plan once its results are there, and nothing else.
LEMMA StepOfResults ==
  ASSUME NEW L \in Nat \ {0}, NEW n \in Nat \ {0},
         NEW d \in Graphs, ParentsFirst(d.nodes), L + n <= Len(d.nodes),
         d.nodes[L].calls = n,
         \A i \in 1..n : d.nodes[L + i].kind \in {"ok", "failed"} /\ d.nodes[L + i].parent = L,
         \A i \in (L + n + 1)..Len(d.nodes) : d.nodes[i].kind \notin {"ok", "failed"},
         \/ n = 1 /\ d.nodes[L + 1].kind = "ok"
         \/ \E j \in 1..Len(d.nodes) : d.nodes[j].kind = "summary" /\ d.nodes[j].parent = L
                                       /\ d.nodes[j].from = (L + 1)..(L + n)
  PROVE  StepIsWhole(d, L)
<1>1. PICK M \in Nat : M = Len(d.nodes) /\ DOMAIN d.nodes = 1..M
  BY GraphFields
<1>2. PICK rs : rs = (L + 1)..(L + n)
  OBVIOUS
<1>3. ASSUME NEW i \in 1..M
      PROVE  i \in rs <=> d.nodes[i].parent = L /\ d.nodes[i].kind \in {"ok", "failed"}
  <2>1. CASE i <= L
    <3>1. d.nodes[i].parent \in 0..(i - 1)
      BY <1>1, <1>3 DEF ParentsFirst
    <3> QED
      BY <1>2, <2>1, <3>1
  <2>2. CASE i > L /\ i <= L + n
    <3>1. i - L \in 1..n /\ L + (i - L) = i
      BY <1>3, <2>2
    <3>2. d.nodes[i].kind \in {"ok", "failed"} /\ d.nodes[i].parent = L
      BY <3>1
    <3>3. i \in rs
      BY <1>2, <2>2
    <3> QED
      BY <3>2, <3>3
  <2>3. CASE i > L + n
    <3>1. i \in (L + n + 1)..M /\ i \notin rs
      BY <1>2, <1>3, <2>3
    <3> QED
      BY <1>1, <3>1
  <2> QED
    BY <1>3, <2>1, <2>2, <2>3
<1>4. \A i \in rs : i \in 1..M
  BY <1>1, <1>2
<1>5. resultsOf(d, L) = rs
  BY <1>1, <1>3, <1>4 DEF resultsOf
<1>6. Cardinality(rs) = n
  <2>1. L + 1 \in Int /\ L + n \in Int /\ (L + n) - (L + 1) + 1 = n /\ L + 1 <= L + n
    OBVIOUS
  <2>2. PICK a, b : a = L + 1 /\ b = L + n
    OBVIOUS
  <2>3. Cardinality(a..b) = IF a > b THEN 0 ELSE b - a + 1
    BY <2>1, <2>2, FS_Interval
  <2> QED
    BY <1>2, <2>1, <2>2, <2>3
<1>7. CASE n = 1 /\ d.nodes[L + 1].kind = "ok"
  <2>1. L + 1 \in rs /\ rs = {L + 1}
    BY <1>2, <1>7
  <2> QED
    BY <1>5, <1>6, <1>7, <2>1 DEF StepIsWhole
<1>8. CASE \E j \in 1..M : d.nodes[j].kind = "summary" /\ d.nodes[j].parent = L
                           /\ d.nodes[j].from = rs
  BY <1>1, <1>5, <1>6, <1>8 DEF StepIsWhole
<1> QED
  BY <1>1, <1>2, <1>7, <1>8

\* The results of the step at the head, and their rewrite: every step is whole.
LEMMA ResultsKeep ==
  ASSUME NEW c \in Graphs, GraphIsWhole(c, {c.head}), c.head = Len(c.nodes),
         c.nodes[c.head].kind = "plan",
         NEW results \in Seq({"ok", "failed"}), results # << >>,
         c.nodes[c.head].calls = Len(results),
         NEW d, d = rewriteResults(c, c.head, results)
  PROVE  /\ d \in Graphs /\ d.start = c.start /\ d.closed = c.closed
         /\ Extends(c, d) /\ GraphIsWhole(d, {})
<1>1. PICK L \in Nat \ {0} : L = Len(c.nodes) /\ L = c.head
  BY GraphFields DEF GraphIsWhole, GraphHolds
<1>2. PICK a : a = AddToolResults(c, L, results)
  OBVIOUS
<1>3. PICK n \in Nat \ {0} : n = Len(results)
  <2>1. Len(results) \in Nat \ {0}
    OBVIOUS
  <2> QED
    BY <2>1
<1>4. /\ a \in Graphs /\ a.start = c.start /\ a.closed = c.closed
      /\ Len(a.nodes) = L + n /\ a.head = L + n /\ Extends(c, a)
      /\ \A i \in 1..n : a.nodes[L + i].kind = results[i] /\ a.nodes[L + i].parent = L
  <2>1. HasResults(AddToolResults(c, L, results), c, L, results)
    BY ResultsFields
  <2> QED
    BY <1>1, <1>2, <1>3, <2>1 DEF HasResults
<1>5. \A i \in 1..n : results[i] \in {"ok", "failed"}
  BY <1>3
<1>6. \A i \in 1..L : a.nodes[i] = c.nodes[i]
  BY <1>1, <1>4 DEF Extends
<1>7. \A i \in 1..L : c.nodes[i].parent \in 0..(i - 1)
  BY <1>1 DEF GraphIsWhole, GraphHolds, ParentsFirst
<1>8. \A i \in (L + 1)..(L + n) : i - L \in 1..n /\ L + (i - L) = i
  BY <1>1, <1>3
<1>9. ASSUME NEW i \in (L + 1)..(L + n)
      PROVE  a.nodes[i].kind \in {"ok", "failed"} /\ a.nodes[i].parent = L
  <2>1. PICK j \in 1..n : L + j = i
    BY <1>8
  <2>2. a.nodes[L + j].kind = results[j] /\ a.nodes[L + j].parent = L
    BY <1>4
  <2>3. results[j] \in {"ok", "failed"}
    BY <1>5
  <2> QED
    BY <2>1, <2>2, <2>3
<1>10. ParentsFirst(a.nodes)
  <2>1. \A i \in 1..(L + n) : i \in 1..L \/ i \in (L + 1)..(L + n)
    OBVIOUS
  <2>2. \A i \in (L + 1)..(L + n) : L \in 0..(i - 1)
    OBVIOUS
  <2>3. \A i \in 1..(L + n) : a.nodes[i].parent \in 0..(i - 1)
    BY <1>6, <1>7, <1>9, <2>1, <2>2
  <2> QED
    BY <1>4, <2>3 DEF ParentsFirst
<1>11. GraphHolds(c) /\ PathIsClean(c) /\ StepsAreWhole(c, {L})
  BY <1>1 DEF GraphIsWhole
<1>12. ASSUME NEW g \in Graphs, Extends(a, g), StepIsWhole(g, L), GraphHolds(g), PathIsClean(g),
              \A i \in (L + n + 1)..Len(g.nodes) : g.nodes[i].kind = "summary"
       PROVE  Extends(c, g) /\ GraphIsWhole(g, {})
  <2>1. PICK M \in Nat : M = Len(g.nodes) /\ DOMAIN g.nodes = 1..M
    BY GraphFields
  <2>2. Extends(c, g)
    BY <1>4, <1>12, ExtendsOn
  <2>3. /\ L + n <= M /\ \A i \in 1..(L + n) : g.nodes[i] = a.nodes[i]
        /\ \A i \in (L + n + 1)..M : g.nodes[i].kind = "summary"
    BY <1>4, <1>12, <2>1 DEF Extends
  <2>4. \A i \in (L + 1)..(L + n) :
          g.nodes[i].kind \in {"ok", "failed"} /\ g.nodes[i].parent = L
    <3>1. \A i \in (L + 1)..(L + n) : i \in 1..(L + n)
      OBVIOUS
    <3> QED
      BY <1>9, <2>3, <3>1
  <2>5. ASSUME NEW p \in 1..M, g.nodes[p].kind = "plan", p # L
        PROVE  StepIsWhole(g, p)
    <3>1. p \in 1..L \/ p \in (L + 1)..(L + n) \/ p \in (L + n + 1)..M
      BY <2>1
    <3>2. p \in 1..L
      BY <2>3, <2>4, <2>5, <3>1
    <3>3. g.nodes[p] = c.nodes[p] /\ DOMAIN c.nodes = 1..L
      BY <1>1, <2>2, <3>2, GraphFields DEF Extends
    <3>4. StepIsWhole(c, p)
      BY <1>11, <2>5, <3>2, <3>3 DEF StepsAreWhole
    <3>5. \A i \in (L + 1)..M : i \in (L + 1)..(L + n) \/ i \in (L + n + 1)..M
      BY <2>1
    <3>6. \A i \in (L + 1)..M : ~(g.nodes[i].kind \in {"ok", "failed"} /\ g.nodes[i].parent = p)
      BY <2>3, <2>4, <2>5, <3>5
    <3> QED
      BY <1>1, <2>1, <2>2, <3>2, <3>4, <3>6, StepStays
  <2>6. StepsAreWhole(g, {})
    BY <1>12, <2>1, <2>5 DEF StepsAreWhole
  <2> QED
    BY <1>12, <2>2, <2>6 DEF GraphIsWhole
<1>13. PICK ids : ids = (L + 1)..(L + n) /\ ids = {L + i : i \in DOMAIN results}
  <2>1. DOMAIN results = 1..n
    BY <1>3
  <2>2. \A i \in 1..n : L + i \in (L + 1)..(L + n)
    OBVIOUS
  <2>3. {L + i : i \in 1..n} = (L + 1)..(L + n)
    BY <1>8, <2>2
  <2> QED
    BY <2>1, <2>3
<1>14. a.nodes[L].calls = n
  BY <1>1, <1>3, <1>6
<1>15. CASE results = <<"ok">>
  <2>1. d = a
    BY <1>1, <1>2, <1>15 DEF rewriteResults
  <2>2. n = 1 /\ results[1] = "ok"
    BY <1>3, <1>15
  <2>3. a.nodes[L + 1].kind = "ok" /\ a.nodes[L + 1].parent = L /\ L + n = L + 1
    BY <1>4, <2>2
  <2>4. GraphHolds(a) /\ PathIsClean(a)
    <3>1. a.head \in (L + 1)..Len(a.nodes) /\ a.head = L + 1 /\ L + 1 <= Len(a.nodes)
      BY <1>4, <2>3
    <3>2. c.nodes[c.head].calls = 1
      BY <1>3, <2>2
    <3>3. \A i \in (L + 1)..Len(a.nodes) : a.nodes[i].kind \notin {"user", "plan", "answer"}
      BY <1>4, <1>9
    <3> QED
      BY <1>1, <1>4, <1>10, <1>11, <2>3, <3>1, <3>2, <3>3, PathGrows
  <2>5. \A i \in (L + n + 1)..Len(a.nodes) : FALSE
    BY <1>4
  <2>6. StepIsWhole(a, L)
    <3>1. \A i \in 1..n : a.nodes[L + i].kind \in {"ok", "failed"} /\ a.nodes[L + i].parent = L
      BY <1>4, <1>5
    <3>2. L + n <= Len(a.nodes)
      BY <1>4
    <3> QED
      BY <1>4, <1>10, <1>14, <2>2, <2>3, <2>5, <3>1, <3>2, StepOfResults
  <2>7. Extends(a, a)
    <3>1. Len(a.nodes) <= Len(a.nodes)
      BY <1>4
    <3> QED
      BY <3>1 DEF Extends
  <2> QED
    BY <1>4, <1>12, <2>1, <2>4, <2>5, <2>6, <2>7
<1>16. CASE results # <<"ok">>
  <2>1. d = append(a, "summary", L, ids, 0)
    BY <1>1, <1>2, <1>13, <1>16 DEF rewriteResults
  <2>2. PICK M \in Nat : M = L + n + 1
    OBVIOUS
  <2>3. /\ d \in Graphs /\ d.start = a.start /\ d.closed = a.closed
        /\ Len(d.nodes) = M /\ d.head = M /\ Extends(a, d)
        /\ d.nodes[M] = [kind |-> "summary", parent |-> L, from |-> ids, calls |-> 0]
    <3>1. PICK k \in {"system", "user", "plan", "answer", "ok", "failed", "summary"},
               p \in Nat, e \in SUBSET Nat, z \in Nat :
            k = "summary" /\ p = L /\ e = ids /\ z = 0
      BY <1>13
    <3>2. HasNode(append(a, k, p, e, z), a,
                  [kind |-> k, parent |-> p, from |-> e, calls |-> z])
      BY <1>4, AppendFields
    <3>3. HasNode(d, a, [kind |-> "summary", parent |-> L, from |-> ids, calls |-> 0])
      BY <2>1, <3>1, <3>2
    <3> QED
      BY <1>4, <2>2, <3>3 DEF HasNode
  <2>4. d.nodes[M].kind = "summary" /\ d.nodes[M].parent = L /\ d.nodes[M].from = ids
    BY <2>3
  <2>5. \A i \in 1..(L + n) : d.nodes[i] = a.nodes[i]
    BY <1>4, <2>3 DEF Extends
  <2>6. ParentsFirst(d.nodes)
    <3>1. \A i \in 1..M : i \in 1..(L + n) \/ i = M
      BY <2>2
    <3>2. \A i \in 1..(L + n) : a.nodes[i].parent \in 0..(i - 1)
      BY <1>4, <1>10 DEF ParentsFirst
    <3>3. L \in 0..(M - 1)
      BY <2>2
    <3>4. \A i \in 1..M : d.nodes[i].parent \in 0..(i - 1)
      BY <2>4, <2>5, <3>1, <3>2, <3>3
    <3> QED
      BY <2>3, <3>4 DEF ParentsFirst
  <2>7. Extends(c, d)
    BY <1>4, <2>3, ExtendsOn
  <2>8. \A i \in (L + 1)..(L + n) : d.nodes[i].kind \in {"ok", "failed"} /\ d.nodes[i].parent = L
    <3>1. \A i \in (L + 1)..(L + n) : i \in 1..(L + n)
      OBVIOUS
    <3> QED
      BY <1>9, <2>5, <3>1
  <2>9. \A i \in (L + 1)..M : i \in (L + 1)..(L + n) \/ i = M
    BY <2>2
  <2>10. GraphHolds(d) /\ PathIsClean(d)
    <3>1. d.head \in (L + 1)..M
      BY <2>2, <2>3
    <3>2. \A i \in (L + 1)..M : d.nodes[i].kind \notin {"user", "plan", "answer"}
      BY <2>4, <2>8, <2>9
    <3> QED
      BY <1>1, <1>11, <2>3, <2>4, <2>6, <2>7, <3>1, <3>2, PathGrows
  <2>11. \A i \in (L + n + 1)..M : i = M
    BY <2>2
  <2>12. \A i \in (L + n + 1)..M : d.nodes[i].kind = "summary"
    BY <2>4, <2>11
  <2>13. StepIsWhole(d, L)
    <3>1. \A i \in 1..n : d.nodes[L + i].kind \in {"ok", "failed"} /\ d.nodes[L + i].parent = L
      <4>1. ASSUME NEW i \in 1..n
            PROVE  d.nodes[L + i].kind \in {"ok", "failed"} /\ d.nodes[L + i].parent = L
        <5>1. PICK j \in (L + 1)..(L + n) : j = L + i
          OBVIOUS
        <5>2. d.nodes[j].kind \in {"ok", "failed"} /\ d.nodes[j].parent = L
          BY <2>8
        <5> QED
          BY <5>1, <5>2
      <4> QED
        BY <4>1
    <3>2. d.nodes[L].calls = n
      BY <1>14, <2>5
    <3>3. \E j \in 1..M : d.nodes[j].kind = "summary" /\ d.nodes[j].parent = L
                          /\ d.nodes[j].from = (L + 1)..(L + n)
      BY <1>13, <2>2, <2>4
    <3>4. \A i \in (L + n + 1)..M : d.nodes[i].kind \notin {"ok", "failed"}
      BY <2>12
    <3>5. L + n <= Len(d.nodes)
      BY <2>2, <2>3
    <3> QED
      BY <2>3, <2>6, <3>1, <3>2, <3>3, <3>4, <3>5, StepOfResults
  <2> QED
    BY <1>4, <1>12, <2>3, <2>10, <2>12, <2>13
<1> QED
  BY <1>15, <1>16

\* A fresh graph, of process number k.
Fresh(k) == [start |-> k, closed |-> FALSE, head |-> 1,
             nodes |-> <<[kind |-> "system", parent |-> 0, from |-> {}, calls |-> 0]>>]

\* A fresh graph has no step.
LEMMA FreshIsWhole ==
  ASSUME NEW k \in 1..MaxStarts
  PROVE  /\ Fresh(k) \in Graphs /\ Fresh(k).start = k /\ ~Fresh(k).closed
         /\ GraphIsWhole(Fresh(k), {})
<1>1. PICK n : n = [kind |-> "system", parent |-> 0, from |-> {}, calls |-> 0]
  OBVIOUS
<1>2. n \in Node /\ n.kind = "system" /\ n.parent = 0
  BY <1>1 DEF Node
<1>3. PICK q \in Seq(Node) : q = <<n>> /\ Len(q) = 1 /\ q[1] = n /\ DOMAIN q = 1..1
  <2>1. <<n>> \in Seq(Node) /\ Len(<<n>>) = 1 /\ <<n>>[1] = n /\ DOMAIN <<n>> = {1}
    BY <1>2, OneElement
  <2>2. {1} = 1..1
    OBVIOUS
  <2> QED
    BY <2>1, <2>2
<1>4. PICK g : g = Fresh(k)
  OBVIOUS
<1>5. g = [start |-> k, closed |-> FALSE, head |-> 1, nodes |-> q]
  BY <1>1, <1>3, <1>4 DEF Fresh
<1>6. g \in Graphs /\ g.nodes = q /\ g.head = 1 /\ g.start = k /\ ~g.closed
  BY <1>5 DEF Graphs
<1>7. \A i \in 1..1 : i = 1
  OBVIOUS
<1>8. ParentsFirst(g.nodes)
  BY <1>2, <1>3, <1>6, <1>7 DEF ParentsFirst
<1>9. GraphHolds(g)
  BY <1>3, <1>6, <1>8 DEF GraphHolds
<1>10. PICK f : IsLineageTable(g.nodes, f) /\ lineage(g) = f[g.head]
  BY <1>3, <1>6, <1>8, LineageAtHead
<1>11. lineage(g) = {1}
  <2>1. f[0] = {} /\ f[1] = {1} \cup f[g.nodes[1].parent]
    BY <1>3, <1>6, <1>10, LineageRows
  <2> QED
    BY <1>2, <1>3, <1>6, <1>10, <2>1
<1>12. PathIsClean(g)
  BY <1>2, <1>3, <1>6, <1>7, <1>11 DEF PathIsClean
<1>13. StepsAreWhole(g, {})
  BY <1>2, <1>3, <1>6, <1>7 DEF StepsAreWhole
<1> QED
  BY <1>4, <1>6, <1>9, <1>12, <1>13 DEF GraphIsWhole

\* Closing changes no node.
LEMMA CloseKeeps ==
  ASSUME NEW c \in Graphs, GraphIsWhole(c, {}),
         NEW d, d = [c EXCEPT !.closed = TRUE]
  PROVE  /\ d \in Graphs /\ d.start = c.start /\ d.closed /\ Extends(c, d)
         /\ GraphIsWhole(d, {})
<1>1. d \in Graphs /\ d.start = c.start /\ d.closed /\ d.nodes = c.nodes /\ d.head = c.head
  BY DEF Graphs
<1>2. Len(c.nodes) \in Nat
  BY GraphFields
<1>3. Extends(c, d)
  BY <1>1, <1>2 DEF Extends
<1>4. GraphHolds(c) /\ GraphHolds(d)
  BY <1>1 DEF GraphIsWhole, GraphHolds
<1>5. lineage(d) = lineage(c)
  BY <1>1, <1>2, <1>4, LineageSame DEF GraphHolds
<1>6. PathIsClean(d)
  <2>1. PICK path, q : path = lineage(c) /\ path = lineage(d) /\ q = c.nodes /\ q = d.nodes
    BY <1>1, <1>5
  <2>2. /\ \A i \in path : q[i].kind # "failed"
        /\ \A i \in path : q[i].kind = "ok" =>
             q[i].parent \in DOMAIN q /\ q[q[i].parent].calls = 1
        /\ \A i \in DOMAIN q : q[i].kind \in {"user", "plan", "answer"} => i \in path
    BY <2>1 DEF GraphIsWhole, PathIsClean
  <2> QED
    BY <2>1, <2>2 DEF PathIsClean
<1>7. \A p : resultsOf(d, p) = resultsOf(c, p)
  BY <1>1 DEF resultsOf
<1>8. StepsAreWhole(d, {})
  <2>1. \A p : StepIsWhole(c, p) => StepIsWhole(d, p)
    BY <1>1, <1>7 DEF StepIsWhole
  <2> QED
    BY <1>1, <2>1 DEF GraphIsWhole, StepsAreWhole
<1> QED
  BY <1>1, <1>3, <1>4, <1>6, <1>8 DEF GraphIsWhole

-----------------------------------------------------------------------------
(* The inductive invariant *)

\* Graphs or none.
Held == {none} \cup Graphs

Outcomes == [name : {"grep_text", "spawn_subagent_search"}, result : {"running", "ok", "failed"}]

Acks == [start : 1..MaxStarts, closed : BOOLEAN, size : Nat]

Spawns == [session : Session, start : 1..MaxStarts, node : Nat]

\* The main loop between two envelopes, and at work on one.
Readings == [pc : {"reading"}, mode : {"oac", "console"}]

Works ==
  [pc : {"handle", "turn", "infer", "tools", "reply"}, mode : {"oac", "console"},
   session : Session, body : {"event", "undecodable", "session_end"},
   ok : BOOLEAN, step : 0..(maxToolSteps - 1)]

\* LiveTypeOK, by variables.
Types ==
  /\ stream \in {stopped} \cup Readings \cup Works
  /\ outcomes \in Seq(Outcomes)
  /\ consoles \in [Session -> Held] /\ saved \in [Session -> Held]
  /\ acked \in [Session -> {none} \cup Acks]
  /\ spawned \subseteq Spawns

\* Console c of process number k, with file g, and with P the numbers of tool calls
\* of the steps at work: its own graph, open and ahead of the file, each step whole
\* but for the one at its head whose tools are at work.
ConsoleHolds(c, g, k, P) ==
  /\ c \in Graphs /\ c.start = k /\ ~c.closed
  /\ g \in Graphs /\ g.start = k /\ ~g.closed /\ Extends(g, c)
  /\ P = {} => GraphIsWhole(c, {})
  /\ \A n \in P : /\ GraphIsWhole(c, {c.head}) /\ c.head = Len(c.nodes)
                  /\ c.nodes[c.head].kind = "plan" /\ c.nodes[c.head].calls = n

\* File g: whole steps and a clean path, from a process that was started.
FileHolds(g, k) == g \in Graphs /\ g.start <= k /\ GraphIsWhole(g, {})

\* What was acknowledged stays in the file while its process has the session.
AckHolds(a, g, k) ==
  /\ a.start <= k
  /\ a.start = g.start => a.size <= Len(g.nodes) /\ (a.closed => g.closed)

\* A subagent session refers to a plan of the console that spawned it.
SpawnHolds(x, c, k) ==
  /\ x.start <= k
  /\ x.start = k /\ c # none => x.node \in DOMAIN c.nodes /\ c.nodes[x.node].kind = "plan"

\* The tool calls of the step of session s that is at work.
atWork(s) == IF stream.pc = "tools" /\ stream.session = s THEN {Len(outcomes)} ELSE {}

\* The process in progress has left no trace of session s.
Unknown(s) ==
  /\ saved[s].start # starts /\ acked[s].start # starts
  /\ \A x \in spawned : x.session = s => x.start # starts

\* The end of session s is being answered.
Ending(s) ==
  /\ stream.pc = "reply" /\ stream.body = "session_end" /\ stream.session = s
  /\ stream.ok /\ saved[s].start = starts => saved[s].closed

SessionHolds(s) ==
  /\ consoles[s] # none => ConsoleHolds(consoles[s], saved[s], starts, atWork(s))
  /\ saved[s] # none => FileHolds(saved[s], starts)
  /\ acked[s] # none => AckHolds(acked[s], saved[s], starts)
  /\ stream.pc # "off" /\ consoles[s] = none => Unknown(s) \/ Ending(s)

\* An event that was handled is in the file, with its answer.
Answered(c, g) == c # none /\ g = c /\ g.nodes[g.head].kind = "answer"

\* The handler has a console while it works on an event.
StreamHolds ==
  /\ starts \in 0..MaxStarts /\ (stream.pc # "off" => starts # 0)
  /\ stream.pc = "off" => \A s \in Session : consoles[s] = none
  /\ stream.pc \in {"turn", "infer", "tools"} =>
       stream.body = "event" /\ consoles[stream.session] # none
  /\ stream.pc = "tools" => outcomes # << >>
  /\ stream.pc = "reply" /\ stream.ok =>
       \/ stream.body = "event" /\ Answered(consoles[stream.session], saved[stream.session])
       \/ stream.body = "session_end" /\ consoles[stream.session] = none

SpawnedHold == \A x \in spawned : SpawnHolds(x, consoles[x.session], starts)

LiveInv == Types /\ StreamHolds /\ SpawnedHold /\ \A s \in Session : SessionHolds(s)

-----------------------------------------------------------------------------
(* A console, its file and what refers to them *)

\* A graph extends itself.
LEMMA ExtendsItself ==
  ASSUME NEW c \in Graphs
  PROVE  Extends(c, c)
<1>1. Len(c.nodes) \in Nat
  BY GraphFields
<1> QED
  BY <1>1 DEF Extends

\* A console whose graph grew, each step whole, and its file, saved or not.
LEMMA ConsoleGrows ==
  ASSUME NEW k \in Nat, NEW c, NEW g, NEW P, ConsoleHolds(c, g, k, P), FileHolds(g, k),
         NEW d \in Graphs, d.start = c.start, d.closed = c.closed, Extends(c, d),
         GraphIsWhole(d, {})
  PROVE  /\ ConsoleHolds(d, g, k, {}) /\ ConsoleHolds(d, d, k, {})
         /\ FileHolds(d, k) /\ Extends(g, d) /\ g.start = d.start /\ (g.closed => d.closed)
<1>1. /\ c \in Graphs /\ c.start = k /\ ~c.closed
      /\ g \in Graphs /\ g.start = k /\ ~g.closed /\ Extends(g, c)
  BY DEF ConsoleHolds
<1>2. Extends(g, d) /\ Extends(d, d)
  BY <1>1, ExtendsOn, ExtendsItself
<1> QED
  BY <1>1, <1>2 DEF ConsoleHolds, FileHolds

\* A console with a plan at its head and its tools at work.
LEMMA ConsolePlans ==
  ASSUME NEW k \in Nat, NEW c, NEW g, NEW P, ConsoleHolds(c, g, k, P),
         NEW d \in Graphs, d.start = c.start, d.closed = c.closed, Extends(c, d),
         NEW n, GraphIsWhole(d, {d.head}), d.head = Len(d.nodes),
         d.nodes[d.head].kind = "plan", d.nodes[d.head].calls = n
  PROVE  ConsoleHolds(d, g, k, {n})
<1>1. /\ c \in Graphs /\ c.start = k /\ ~c.closed
      /\ g \in Graphs /\ g.start = k /\ ~g.closed /\ Extends(g, c)
  BY DEF ConsoleHolds
<1>2. Extends(g, d)
  BY <1>1, ExtendsOn
<1> QED
  BY <1>1, <1>2 DEF ConsoleHolds

\* What was acknowledged stays in a file that grows.
LEMMA AckStays ==
  ASSUME NEW k, NEW a \in Acks, NEW g \in Graphs, AckHolds(a, g, k),
         NEW d \in Graphs, d.start = g.start, Extends(g, d), g.closed => d.closed
  PROVE  AckHolds(a, d, k)
<1>1. a.size \in Nat /\ Len(g.nodes) \in Nat /\ Len(d.nodes) \in Nat
  BY GraphFields DEF Acks
<1> QED
  BY <1>1 DEF AckHolds, Extends

\* The plan of a subagent session stays where it is.
LEMMA SpawnStays ==
  ASSUME NEW k, NEW x, NEW c \in Graphs, SpawnHolds(x, c, k), NEW d \in Graphs, Extends(c, d)
  PROVE  SpawnHolds(x, d, k)
<1>1. Len(c.nodes) \in Nat /\ Len(d.nodes) \in Nat /\ c # none /\ d # none
      /\ DOMAIN c.nodes = 1..Len(c.nodes) /\ DOMAIN d.nodes = 1..Len(d.nodes)
  BY GraphFields
<1>2. /\ \A i \in 1..Len(c.nodes) : d.nodes[i] = c.nodes[i]
      /\ \A i \in 1..Len(c.nodes) : i \in 1..Len(d.nodes)
  BY <1>1 DEF Extends
<1> QED
  BY <1>1, <1>2 DEF SpawnHolds

-----------------------------------------------------------------------------
(* The main loop *)

\* What the loop is at work on.
LEMMA WorkFields ==
  ASSUME NEW w \in Works
  PROVE  /\ w.pc \in {"handle", "turn", "infer", "tools", "reply"}
         /\ w.session \in Session /\ w.body \in {"event", "undecodable", "session_end"}
         /\ w.ok \in BOOLEAN /\ w.step \in 0..(maxToolSteps - 1)
BY DEF Works

\* Between envelopes and after the end it is at work on nothing.
LEMMA AtWork ==
  ASSUME Types
  PROVE  /\ stream.pc \notin {"off", "reading"} => stream \in Works
         /\ stream.pc \in {"handle", "turn", "infer", "tools", "reply"} => stream \in Works
         /\ stream.pc \in {"off", "reading", "handle", "turn", "infer", "tools", "reply"}
BY DEF Types, Readings, Works, stopped

\* Work that goes on.
LEMMA WorkMoves ==
  ASSUME NEW w \in Works, NEW pc \in {"handle", "turn", "infer", "tools", "reply"},
         NEW v, v = [w EXCEPT !.pc = pc]
  PROVE  /\ v \in Works /\ v.pc = pc /\ v.session = w.session /\ v.body = w.body
         /\ v.ok = w.ok /\ v.step = w.step
BY DEF Works

\* Work that is done.
LEMMA WorkIsDone ==
  ASSUME stream \in Works, NEW ok \in BOOLEAN
  PROVE  /\ replying(ok) \in Works /\ replying(ok).pc = "reply" /\ replying(ok).ok = ok
         /\ replying(ok).session = stream.session /\ replying(ok).body = stream.body
BY DEF Works, replying

\* What the invariant says of a session with a console.
LEMMA ConsoleIsThere ==
  ASSUME LiveInv, NEW s \in Session, consoles[s] # none
  PROVE  /\ stream.pc # "off" /\ starts \in 1..MaxStarts
         /\ consoles[s] \in Graphs /\ saved[s] \in Graphs /\ saved[s] # none
         /\ ConsoleHolds(consoles[s], saved[s], starts, atWork(s)) /\ FileHolds(saved[s], starts)
         /\ acked[s] # none => acked[s] \in Acks /\ AckHolds(acked[s], saved[s], starts)
<1>1. StreamHolds /\ SessionHolds(s) /\ Types
  BY DEF LiveInv
<1>2. stream.pc # "off" /\ starts \in 1..MaxStarts
  BY <1>1, LiveAssumption DEF StreamHolds
<1>3. ConsoleHolds(consoles[s], saved[s], starts, atWork(s))
  BY <1>1 DEF SessionHolds
<1>4. consoles[s] \in Graphs /\ saved[s] \in Graphs
  BY <1>3 DEF ConsoleHolds
<1>5. saved[s] # none
  BY <1>4, GraphFields
<1>6. FileHolds(saved[s], starts)
  BY <1>1, <1>5 DEF SessionHolds
<1>7. acked[s] # none => acked[s] \in Acks /\ AckHolds(acked[s], saved[s], starts)
  BY <1>1 DEF SessionHolds, Types
<1> QED
  BY <1>2, <1>3, <1>4, <1>5, <1>6, <1>7

\* The work on one session leaves the others as they are.
LEMMA OthersHold ==
  ASSUME LiveInv, NEW s \in Session,
         stream \in Works, stream.session = s, stream.pc # "reply",
         stream' \in Works, stream'.session = s, starts' = starts, acked' = acked,
         \A t \in Session \ {s} : consoles'[t] = consoles[t] /\ saved'[t] = saved[t],
         \A x \in spawned' : x.session # s => x \in spawned
  PROVE  /\ \A t \in Session \ {s} : SessionHolds(t)'
         /\ \A x \in spawned' : x.session # s => SpawnHolds(x, consoles'[x.session], starts')
<1>1. ASSUME NEW t \in Session, t # s PROVE SessionHolds(t)'
  <2>1. consoles'[t] = consoles[t] /\ saved'[t] = saved[t]
    BY <1>1
  <2>2. atWork(t) = {} /\ atWork(t)' = {}
    BY <1>1 DEF atWork
  <2>3. SessionHolds(t)
    BY DEF LiveInv
  <2>4. stream.pc # "off" /\ ~Ending(t)
    BY WorkFields DEF Ending
  <2>5. Unknown(t) => Unknown(t)'
    BY <1>1, <2>1 DEF Unknown
  <2>6. consoles[t] = none => Unknown(t)
    BY <2>3, <2>4 DEF SessionHolds
  <2> QED
    BY <2>1, <2>2, <2>3, <2>5, <2>6 DEF SessionHolds
<1>2. ASSUME NEW x \in spawned', x.session # s
      PROVE  SpawnHolds(x, consoles'[x.session], starts')
  <2>1. x \in spawned
    BY <1>2
  <2>2. x.session \in Session /\ SpawnHolds(x, consoles[x.session], starts)
    BY <2>1 DEF LiveInv, Types, Spawns, SpawnedHold
  <2>3. consoles'[x.session] = consoles[x.session]
    BY <1>2, <2>2
  <2> QED
    BY <2>2, <2>3
<1> QED
  BY <1>1, <1>2

\* Enough for a step of the work on one session.
LEMMA WorkStep ==
  ASSUME LiveInv, NEW s \in Session,
         stream \in Works, stream.session = s, stream.pc # "reply",
         stream' \in Works, stream'.session = s, starts' = starts, acked' = acked,
         outcomes' \in Seq(Outcomes), spawned' \subseteq Spawns,
         NEW c \in Held, consoles' = [consoles EXCEPT ![s] = c],
         NEW g \in Held, saved' = [saved EXCEPT ![s] = g],
         \A x \in spawned' : x.session # s => x \in spawned,
         \A x \in spawned' : x.session = s => SpawnHolds(x, c, starts),
         c # none => ConsoleHolds(c, g, starts, atWork(s)'),
         g # none => FileHolds(g, starts),
         acked[s] # none => AckHolds(acked[s], g, starts),
         c = none => Unknown(s)' \/ Ending(s)',
         stream'.pc \in {"turn", "infer", "tools"} => stream'.body = "event" /\ c # none,
         stream'.pc = "tools" => outcomes' # << >>,
         stream'.pc = "reply" /\ stream'.ok =>
           \/ stream'.body = "event" /\ Answered(c, g)
           \/ stream'.body = "session_end" /\ c = none
  PROVE  LiveInv'
<1>1. Types /\ StreamHolds /\ stream.pc # "off" /\ stream'.pc # "off"
  BY WorkFields DEF LiveInv
<1>2. /\ consoles' \in [Session -> Held] /\ saved' \in [Session -> Held]
      /\ consoles'[s] = c /\ saved'[s] = g
      /\ \A t \in Session \ {s} : consoles'[t] = consoles[t] /\ saved'[t] = saved[t]
  BY <1>1 DEF Types
<1>3. Types'
  BY <1>1, <1>2 DEF Types
<1>4. /\ \A t \in Session \ {s} : SessionHolds(t)'
      /\ \A x \in spawned' : x.session # s => SpawnHolds(x, consoles'[x.session], starts')
  BY <1>2, OthersHold
<1>5. SessionHolds(s)'
  BY <1>2 DEF SessionHolds
<1>6. \A x \in spawned' : SpawnHolds(x, consoles'[x.session], starts')
  BY <1>2, <1>4
<1>7. StreamHolds'
  BY <1>1, <1>2 DEF StreamHolds
<1> QED
  BY <1>3, <1>4, <1>5, <1>6, <1>7 DEF LiveInv, SpawnedHold

\* A file that is replaced, or not.
LEMMA PersistFields ==
  ASSUME Types, NEW s \in Session, NEW d, NEW ok \in BOOLEAN, persist(s, d, ok)
  PROVE  saved' = [saved EXCEPT ![s] = IF ok THEN d ELSE saved[s]]
<1>1. CASE ok
  BY <1>1 DEF persist
<1>2. CASE ~ok
  BY <1>2 DEF persist, Types
<1> QED
  BY <1>1, <1>2

\* The subagent sessions of a session whose console grew.
LEMMA SpawnsGrow ==
  ASSUME LiveInv, NEW s \in Session, consoles[s] \in Graphs,
         NEW d \in Graphs, Extends(consoles[s], d)
  PROVE  \A x \in spawned : x.session = s => SpawnHolds(x, d, starts)
<1>1. ASSUME NEW x \in spawned, x.session = s PROVE SpawnHolds(x, d, starts)
  <2>1. SpawnHolds(x, consoles[x.session], starts)
    BY DEF LiveInv, SpawnedHold
  <2>2. SpawnHolds(x, consoles[s], starts)
    BY <1>1, <2>1
  <2> QED
    BY <2>2, SpawnStays
<1> QED
  BY <1>1

\* The console's graph grows by whole steps and is saved, or not.
LEMMA GraphStep ==
  ASSUME LiveInv, NEW s \in Session,
         stream \in Works, stream.session = s, stream.pc \in {"turn", "infer", "tools"},
         NEW d \in Graphs, d.start = consoles[s].start, d.closed = consoles[s].closed,
         Extends(consoles[s], d), GraphIsWhole(d, {}),
         NEW ok \in BOOLEAN, persist(s, d, ok), consoles' = [consoles EXCEPT ![s] = d],
         stream' \in Works, stream'.session = s, stream'.body = stream.body,
         stream'.pc \in {"infer", "reply"},
         stream'.pc = "reply" /\ stream'.ok => ok /\ d.nodes[d.head].kind = "answer",
         outcomes' \in Seq(Outcomes), spawned' = spawned, acked' = acked, starts' = starts
  PROVE  LiveInv'
<1>1. Types /\ stream.body = "event" /\ consoles[s] # none
  BY DEF LiveInv, StreamHolds
<1>2. PICK c, g : c = consoles[s] /\ g = saved[s]
  OBVIOUS
<1>3. /\ c \in Graphs /\ g \in Graphs /\ starts \in Nat
      /\ ConsoleHolds(c, g, starts, atWork(s)) /\ FileHolds(g, starts)
      /\ acked[s] # none => acked[s] \in Acks /\ AckHolds(acked[s], g, starts)
  BY <1>1, <1>2, ConsoleIsThere, LiveAssumption
<1>4. /\ ConsoleHolds(d, g, starts, {}) /\ ConsoleHolds(d, d, starts, {})
      /\ FileHolds(d, starts) /\ Extends(g, d) /\ g.start = d.start /\ (g.closed => d.closed)
  BY <1>2, <1>3, ConsoleGrows
<1>5. PICK h : h = IF ok THEN d ELSE g
  OBVIOUS
<1>6. saved' = [saved EXCEPT ![s] = h] /\ h \in Held /\ d \in Held /\ d # none
  BY <1>1, <1>2, <1>3, <1>5, PersistFields, GraphFields DEF Held
<1>7. ConsoleHolds(d, h, starts, {}) /\ FileHolds(h, starts)
  BY <1>3, <1>4, <1>5
<1>8. acked[s] # none => AckHolds(acked[s], h, starts)
  BY <1>3, <1>4, <1>5, AckStays
<1>9. atWork(s)' = {}
  BY DEF atWork
<1>10. \A x \in spawned' : x.session = s => SpawnHolds(x, d, starts)
  BY <1>2, <1>3, SpawnsGrow
<1>11. stream'.pc = "reply" /\ stream'.ok => stream'.body = "event" /\ Answered(d, h)
  BY <1>1, <1>5, <1>6 DEF Answered
<1>12. spawned' \subseteq Spawns
  BY <1>1 DEF Types
<1>13. stream.pc # "reply" /\ stream'.pc # "tools"
  OBVIOUS
<1>14. c # none => ConsoleHolds(d, h, starts, atWork(s)')
  BY <1>7, <1>9
<1>15. stream'.pc \in {"turn", "infer", "tools"} => stream'.body = "event" /\ d # none
  BY <1>1, <1>6
<1> QED
  BY <1>6, <1>7, <1>8, <1>9, <1>10, <1>11, <1>12, <1>13, <1>15, WorkStep

LEMMA HandleUserTurnKeeps ==
  ASSUME LiveInv, NEW ok \in BOOLEAN, HandleUserTurn(ok)
  PROVE  LiveInv'
<1>1. stream \in Works /\ stream.pc = "turn"
  BY AtWork DEF HandleUserTurn, LiveInv
<1>2. PICK s \in Session : s = stream.session
  BY <1>1, WorkFields
<1>3. consoles[s] # none
  BY <1>1, <1>2 DEF LiveInv, StreamHolds
<1>4. PICK c : c = consoles[s] /\ c \in Graphs /\ ConsoleHolds(c, saved[s], starts, atWork(s))
  BY <1>3, ConsoleIsThere
<1>5. GraphIsWhole(c, {})
  <2>1. atWork(s) = {}
    BY <1>1 DEF atWork
  <2> QED
    BY <1>4, <2>1 DEF ConsoleHolds
<1>6. PICK d : d = append(c, "user", c.head, {}, 0)
  OBVIOUS
<1>7. d \in Graphs /\ d.start = c.start /\ d.closed = c.closed /\ Extends(c, d)
      /\ GraphIsWhole(d, {})
  <2>1. PICK kind \in {"user", "plan", "answer"}, z \in Nat : kind = "user" /\ z = 0
    OBVIOUS
  <2>2. HasTurn(append(c, kind, c.head, {}, z), c, kind, z)
    BY <1>4, <1>5, TurnKeeps
  <2> QED
    BY <1>6, <2>1, <2>2 DEF HasTurn
<1>8. /\ consoles' = [consoles EXCEPT ![s] = d] /\ persist(s, d, ok)
      /\ stream' = IF ok THEN [stream EXCEPT !.pc = "infer"] ELSE replying(FALSE)
      /\ outcomes' = outcomes /\ spawned' = spawned /\ acked' = acked /\ starts' = starts
  BY <1>2, <1>4, <1>6 DEF HandleUserTurn, AddUserTask
<1>9. /\ stream' \in Works /\ stream'.session = s /\ stream'.body = stream.body
      /\ stream'.pc \in {"infer", "reply"} /\ (stream'.pc = "reply" => ~stream'.ok)
  <2>1. CASE ok
    <3>1. stream' = [stream EXCEPT !.pc = "infer"]
      BY <1>8, <2>1
    <3> QED
      BY <1>1, <1>2, <3>1 DEF Works
  <2>2. CASE ~ok
    <3>1. stream' = replying(FALSE)
      BY <1>8, <2>2
    <3> QED
      BY <1>1, <1>2, <3>1, WorkIsDone
  <2> QED
    BY <2>1, <2>2
<1>10. outcomes' \in Seq(Outcomes)
  BY <1>8 DEF LiveInv, Types
<1> QED
  BY <1>1, <1>2, <1>4, <1>7, <1>8, <1>9, <1>10, GraphStep

LEMMA FinalAnswerKeeps ==
  ASSUME LiveInv, NEW ok \in BOOLEAN, finalAnswer(ok)
  PROVE  LiveInv'
<1>1. stream \in Works /\ stream.pc = "infer"
  BY AtWork DEF finalAnswer, LiveInv
<1>2. PICK s \in Session : s = stream.session
  BY <1>1, WorkFields
<1>3. consoles[s] # none
  BY <1>1, <1>2 DEF LiveInv, StreamHolds
<1>4. PICK c : c = consoles[s] /\ c \in Graphs /\ ConsoleHolds(c, saved[s], starts, atWork(s))
  BY <1>3, ConsoleIsThere
<1>5. GraphIsWhole(c, {})
  <2>1. atWork(s) = {}
    BY <1>1 DEF atWork
  <2> QED
    BY <1>4, <2>1 DEF ConsoleHolds
<1>6. PICK d : d = append(c, "answer", c.head, {}, 0)
  OBVIOUS
<1>7. d \in Graphs /\ d.start = c.start /\ d.closed = c.closed /\ Extends(c, d)
      /\ GraphIsWhole(d, {}) /\ d.nodes[d.head].kind = "answer"
  <2>1. PICK kind \in {"user", "plan", "answer"}, z \in Nat : kind = "answer" /\ z = 0
    OBVIOUS
  <2>2. HasTurn(append(c, kind, c.head, {}, z), c, kind, z)
    BY <1>4, <1>5, TurnKeeps
  <2> QED
    BY <1>6, <2>1, <2>2 DEF HasTurn
<1>8. /\ consoles' = [consoles EXCEPT ![s] = d] /\ persist(s, d, ok)
      /\ stream' = replying(ok)
      /\ outcomes' = outcomes /\ spawned' = spawned /\ acked' = acked /\ starts' = starts
  BY <1>2, <1>4, <1>6 DEF finalAnswer
<1>9. /\ stream' \in Works /\ stream'.session = s /\ stream'.body = stream.body
      /\ stream'.pc \in {"infer", "reply"} /\ stream'.ok = ok
  BY <1>1, <1>2, <1>8, WorkIsDone
<1>10. outcomes' \in Seq(Outcomes)
  BY <1>8 DEF LiveInv, Types
<1> QED
  BY <1>1, <1>2, <1>4, <1>7, <1>8, <1>9, <1>10, GraphStep

\* The work goes on with the graphs as they are.
LEMMA SameGraphs ==
  ASSUME LiveInv, NEW s \in Session,
         stream \in Works, stream.session = s, stream.pc # "reply",
         stream' \in Works, stream'.session = s, stream'.body = stream.body,
         consoles' = consoles, saved' = saved, starts' = starts, acked' = acked,
         outcomes' \in Seq(Outcomes), atWork(s)' = atWork(s), spawned' \subseteq Spawns,
         \A x \in spawned' : \/ x \in spawned
                             \/ /\ x.session = s /\ consoles[s] # none
                                /\ SpawnHolds(x, consoles[s], starts),
         stream'.pc \in {"turn", "infer", "tools"} =>
           stream'.body = "event" /\ consoles[s] # none,
         stream'.pc = "tools" => outcomes' # << >>,
         stream'.pc = "reply" => ~stream'.ok
  PROVE  LiveInv'
<1>1. Types /\ SessionHolds(s) /\ stream.pc # "off"
  BY WorkFields DEF LiveInv
<1>2. PICK c, g \in Held : c = consoles[s] /\ g = saved[s]
  BY <1>1 DEF Types
<1>3. consoles' = [consoles EXCEPT ![s] = c] /\ saved' = [saved EXCEPT ![s] = g]
  BY <1>1, <1>2 DEF Types
<1>4. \A x \in spawned' : x.session # s => x \in spawned
  OBVIOUS
<1>5. \A x \in spawned' : x.session = s => SpawnHolds(x, c, starts)
  <2>1. ASSUME NEW x \in spawned', x.session = s PROVE SpawnHolds(x, c, starts)
    <3>1. CASE x \in spawned
      <4>1. SpawnHolds(x, consoles[x.session], starts)
        BY <3>1 DEF LiveInv, SpawnedHold
      <4> QED
        BY <1>2, <2>1, <4>1
    <3>2. CASE x \notin spawned
      BY <1>2, <3>2
    <3> QED
      BY <3>1, <3>2
  <2> QED
    BY <2>1
<1>6. /\ c # none => ConsoleHolds(c, g, starts, atWork(s)')
      /\ g # none => FileHolds(g, starts)
      /\ acked[s] # none => AckHolds(acked[s], g, starts)
  BY <1>1, <1>2 DEF SessionHolds
<1>7. c = none => Unknown(s)'
  <2>1. c = none => Unknown(s)
    BY <1>1, <1>2 DEF SessionHolds, Ending
  <2>2. c = none => \A x \in spawned' : x.session = s => x \in spawned
    BY <1>2
  <2> QED
    BY <2>1, <2>2 DEF Unknown
<1>8. c = none => Unknown(s)' \/ Ending(s)'
  BY <1>7
<1>9. stream'.pc \in {"turn", "infer", "tools"} => stream'.body = "event" /\ c # none
  BY <1>2
<1>10. stream'.pc = "reply" /\ stream'.ok =>
         \/ stream'.body = "event" /\ Answered(c, g)
         \/ stream'.body = "session_end" /\ c = none
  OBVIOUS
<1> QED
  BY <1>3, <1>4, <1>5, <1>6, <1>8, <1>9, <1>10, WorkStep

LEMMA DecodeFailsKeeps ==
  ASSUME LiveInv, decodeHarnessInputFails
  PROVE  LiveInv'
<1>1. stream \in Works /\ stream.pc = "handle"
  BY AtWork DEF decodeHarnessInputFails, LiveInv
<1>2. PICK s \in Session : s = stream.session
  BY <1>1, WorkFields
<1>3. /\ stream' \in Works /\ stream'.session = s /\ stream'.body = stream.body
      /\ stream'.pc = "reply" /\ ~stream'.ok
  BY <1>1, <1>2, WorkIsDone DEF decodeHarnessInputFails
<1>4. atWork(s)' = {} /\ atWork(s) = {}
  BY <1>1, <1>3 DEF atWork
<1>5. outcomes' \in Seq(Outcomes) /\ spawned' \subseteq Spawns
  BY DEF LiveInv, Types, decodeHarnessInputFails
<1> QED
  BY <1>1, <1>2, <1>3, <1>4, <1>5, SameGraphs DEF decodeHarnessInputFails

LEMMA GenerateFailsKeeps ==
  ASSUME LiveInv, generateContentFails
  PROVE  LiveInv'
<1>1. stream \in Works /\ stream.pc = "infer"
  BY AtWork DEF generateContentFails, LiveInv
<1>2. PICK s \in Session : s = stream.session
  BY <1>1, WorkFields
<1>3. /\ stream' \in Works /\ stream'.session = s /\ stream'.body = stream.body
      /\ stream'.pc = "reply" /\ ~stream'.ok
  BY <1>1, <1>2, WorkIsDone DEF generateContentFails
<1>4. atWork(s)' = {} /\ atWork(s) = {}
  BY <1>1, <1>3 DEF atWork
<1>5. outcomes' \in Seq(Outcomes) /\ spawned' \subseteq Spawns
  BY DEF LiveInv, Types, generateContentFails
<1> QED
  BY <1>1, <1>2, <1>3, <1>4, <1>5, SameGraphs DEF generateContentFails

\* The result of one call.
LEMMA OutcomeSet ==
  ASSUME NEW q \in Seq(Outcomes), NEW i \in DOMAIN q, NEW res \in {"ok", "failed"}
  PROVE  /\ [q EXCEPT ![i].result = res] \in Seq(Outcomes)
         /\ Len([q EXCEPT ![i].result = res]) = Len(q)
<1>1. PICK n \in Nat : n = Len(q) /\ DOMAIN q = 1..n /\ q \in [1..n -> Outcomes]
  OBVIOUS
<1>2. PICK o \in Outcomes : o = q[i]
  BY <1>1
<1>3. PICK m : m = [o EXCEPT !.result = res]
  OBVIOUS
<1>4. m \in Outcomes
  BY <1>3 DEF Outcomes
<1>5. [q EXCEPT ![i].result = res] = [q EXCEPT ![i] = m]
  BY <1>1, <1>2, <1>3
<1>6. [q EXCEPT ![i] = m] \in [1..n -> Outcomes]
  BY <1>1, <1>4
<1> QED
  BY <1>1, <1>5, <1>6

LEMMA ExecuteCallKeeps ==
  ASSUME LiveInv, NEW i \in DOMAIN outcomes, NEW res \in {"ok", "failed"},
         executeFunctionCall(i, res)
  PROVE  LiveInv'
<1>1. stream \in Works /\ stream.pc = "tools" /\ stream' = stream
  BY AtWork DEF executeFunctionCall, LiveInv
<1>2. PICK s \in Session : s = stream.session
  BY <1>1, WorkFields
<1>3. outcomes \in Seq(Outcomes) /\ outcomes' = [outcomes EXCEPT ![i].result = res]
      /\ stream.body = "event" /\ consoles[s] # none /\ spawned \subseteq Spawns
  BY <1>1, <1>2 DEF LiveInv, Types, StreamHolds, executeFunctionCall
<1>4. outcomes' \in Seq(Outcomes) /\ Len(outcomes') = Len(outcomes)
  BY <1>3, OutcomeSet
<1>5. atWork(s)' = atWork(s)
  BY <1>1, <1>4 DEF atWork
<1>6. outcomes' # << >>
  BY <1>3, <1>4
<1> QED
  BY <1>1, <1>2, <1>3, <1>4, <1>5, <1>6, SameGraphs DEF executeFunctionCall

LEMMA SpawnKeeps ==
  ASSUME LiveInv, NEW i \in DOMAIN outcomes, NEW ok \in BOOLEAN, spawnSubagentSearch(i, ok)
  PROVE  LiveInv'
<1>1. stream \in Works /\ stream.pc = "tools" /\ stream' = stream
  BY AtWork DEF spawnSubagentSearch, LiveInv
<1>2. PICK s \in Session : s = stream.session
  BY <1>1, WorkFields
<1>3. outcomes \in Seq(Outcomes) /\ stream.body = "event" /\ consoles[s] # none
      /\ spawned \subseteq Spawns
  BY <1>1, <1>2 DEF LiveInv, Types, StreamHolds
<1>4. PICK res \in {"ok", "failed"} : outcomes' = [outcomes EXCEPT ![i].result = res]
  <2>1. (IF ok THEN "ok" ELSE "failed") \in {"ok", "failed"}
    OBVIOUS
  <2> QED
    BY <2>1 DEF spawnSubagentSearch
<1>5. outcomes' \in Seq(Outcomes) /\ Len(outcomes') = Len(outcomes)
  BY <1>3, <1>4, OutcomeSet
<1>6. atWork(s)' = atWork(s)
  BY <1>1, <1>5 DEF atWork
<1>7. outcomes' # << >>
  BY <1>3, <1>5
<1>8. PICK x : x = [session |-> s, start |-> starts, node |-> consoles[s].head]
  OBVIOUS
<1>9. spawned' \subseteq spawned \cup {x}
  BY <1>2, <1>8 DEF spawnSubagentSearch
<1>10. /\ consoles[s] \in Graphs /\ starts \in 1..MaxStarts
       /\ ConsoleHolds(consoles[s], saved[s], starts, atWork(s))
  BY <1>3, ConsoleIsThere
<1>11. /\ consoles[s].head \in DOMAIN consoles[s].nodes /\ consoles[s].head \in Nat
       /\ consoles[s].nodes[consoles[s].head].kind = "plan"
  <2>1. Len(outcomes) \in atWork(s)
    BY <1>1, <1>2 DEF atWork
  <2>2. GraphHolds(consoles[s]) /\ consoles[s].nodes[consoles[s].head].kind = "plan"
    BY <1>10, <2>1 DEF ConsoleHolds, GraphIsWhole
  <2> QED
    BY <1>10, <2>2, GraphFields DEF GraphHolds
<1>12. x \in Spawns /\ x.session = s /\ x.start = starts /\ x.node = consoles[s].head
  BY <1>8, <1>10, <1>11 DEF Spawns
<1>13. SpawnHolds(x, consoles[s], starts)
  BY <1>10, <1>11, <1>12 DEF SpawnHolds
<1>14. spawned' \subseteq Spawns
  BY <1>3, <1>9, <1>12
<1>15. \A y \in spawned' : \/ y \in spawned
                           \/ /\ y.session = s /\ consoles[s] # none
                              /\ SpawnHolds(y, consoles[s], starts)
  BY <1>3, <1>9, <1>12, <1>13
<1>16. /\ consoles' = consoles /\ saved' = saved /\ acked' = acked /\ starts' = starts
  BY DEF spawnSubagentSearch
<1> QED
  BY <1>1, <1>2, <1>3, <1>5, <1>6, <1>7, <1>14, <1>15, <1>16, SameGraphs

\* The calls of a plan begin.
LEMMA CallsBegin ==
  ASSUME NEW calls \in Batch
  PROVE  /\ [i \in DOMAIN calls |-> [name |-> calls[i], result |-> "running"]] \in Seq(Outcomes)
         /\ Len([i \in DOMAIN calls |-> [name |-> calls[i], result |-> "running"]]) = Len(calls)
         /\ Len(calls) \in Nat \ {0}
<1>1. calls \in Seq({"grep_text", "spawn_subagent_search"}) /\ calls # << >>
  BY LiveAssumption
<1>2. PICK n \in Nat \ {0} : n = Len(calls) /\ DOMAIN calls = 1..n
  <2>1. Len(calls) \in Nat \ {0} /\ DOMAIN calls = 1..Len(calls)
    BY <1>1
  <2> QED
    BY <2>1
<1>3. \A i \in 1..n : calls[i] \in {"grep_text", "spawn_subagent_search"}
  BY <1>1, <1>2
<1>4. PICK q : q = [i \in DOMAIN calls |-> [name |-> calls[i], result |-> "running"]]
  OBVIOUS
<1>5. \A i \in 1..n : [name |-> calls[i], result |-> "running"] \in Outcomes
  BY <1>3 DEF Outcomes
<1>6. q \in [1..n -> Outcomes]
  BY <1>2, <1>4, <1>5
<1>7. q \in Seq(Outcomes) /\ Len(q) = n
  BY <1>6
<1> QED
  BY <1>2, <1>4, <1>7

LEMMA PlanKeeps ==
  ASSUME LiveInv, NEW calls \in Batch, plan(calls)
  PROVE  LiveInv'
<1>1. stream \in Works /\ stream.pc = "infer"
  BY AtWork DEF plan, LiveInv
<1>2. PICK s \in Session : s = stream.session
  BY <1>1, WorkFields
<1>3. consoles[s] # none /\ stream.body = "event" /\ Types
  BY <1>1, <1>2 DEF LiveInv, StreamHolds
<1>4. PICK c, g : c = consoles[s] /\ g = saved[s] /\ c \in Graphs /\ g \in Graphs
                  /\ starts \in Nat /\ ConsoleHolds(c, g, starts, atWork(s))
                  /\ FileHolds(g, starts)
                  /\ (acked[s] # none => AckHolds(acked[s], g, starts))
  BY <1>3, ConsoleIsThere, LiveAssumption
<1>5. GraphIsWhole(c, {})
  <2>1. atWork(s) = {}
    BY <1>1 DEF atWork
  <2> QED
    BY <1>4, <2>1 DEF ConsoleHolds
<1>6. PICK n \in Nat \ {0} : n = Len(calls)
  BY CallsBegin
<1>7. PICK d : d = append(c, "plan", c.head, {}, n)
  OBVIOUS
<1>8. /\ d \in Graphs /\ d.start = c.start /\ d.closed = c.closed /\ Extends(c, d)
      /\ d.head = Len(d.nodes) /\ d.nodes[d.head].kind = "plan" /\ d.nodes[d.head].calls = n
      /\ GraphIsWhole(d, {d.head})
  <2>1. PICK kind \in {"user", "plan", "answer"}, z \in Nat : kind = "plan" /\ z = n
    OBVIOUS
  <2>2. HasTurn(append(c, kind, c.head, {}, z), c, kind, z)
    BY <1>4, <1>5, TurnKeeps
  <2> QED
    BY <1>7, <2>1, <2>2 DEF HasTurn
<1>9. outcomes' \in Seq(Outcomes) /\ Len(outcomes') = n
  BY <1>6, CallsBegin DEF plan
<1>10. /\ consoles' = [consoles EXCEPT ![s] = d] /\ saved' = [saved EXCEPT ![s] = g]
       /\ spawned' = spawned /\ acked' = acked /\ starts' = starts
  <2>1. consoles' = [consoles EXCEPT ![s] = AddAssistantPlan(consoles[s], calls)]
    BY <1>2 DEF plan
  <2>2. AddAssistantPlan(consoles[s], calls) = d
    BY <1>4, <1>6, <1>7 DEF AddAssistantPlan
  <2>3. saved' = saved /\ spawned' = spawned /\ acked' = acked /\ starts' = starts
    BY DEF plan
  <2>4. saved = [saved EXCEPT ![s] = g]
    BY <1>3, <1>4 DEF Types
  <2> QED
    BY <2>1, <2>2, <2>3, <2>4
<1>11. /\ stream' \in Works /\ stream'.session = s /\ stream'.body = "event"
       /\ stream'.pc = "tools"
  <2>1. stream' = [stream EXCEPT !.pc = "tools"]
    BY DEF plan
  <2> QED
    BY <1>1, <1>2, <1>3, <2>1 DEF Works
<1>12. atWork(s)' = {n}
  BY <1>9, <1>11 DEF atWork
<1>13. ConsoleHolds(d, g, starts, {n})
  BY <1>4, <1>8, ConsolePlans
<1>14. \A x \in spawned' : x.session = s => SpawnHolds(x, d, starts)
  BY <1>4, <1>8, <1>10, SpawnsGrow
<1>15. outcomes' # << >>
  BY <1>9
<1>16. spawned' \subseteq Spawns /\ d \in Held /\ g \in Held /\ d # none
  BY <1>3, <1>4, <1>8, <1>10, GraphFields DEF Types, Held
<1>17. d # none => ConsoleHolds(d, g, starts, atWork(s)')
  BY <1>12, <1>13
<1>18. \A x \in spawned' : x.session # s => x \in spawned
  BY <1>10
<1>19. /\ stream'.pc \in {"turn", "infer", "tools"} => stream'.body = "event" /\ d # none
       /\ stream'.pc = "reply" /\ stream'.ok =>
            \/ stream'.body = "event" /\ Answered(d, g)
            \/ stream'.body = "session_end" /\ d = none
       /\ d = none => Unknown(s)' \/ Ending(s)'
       /\ g # none => FileHolds(g, starts)
  BY <1>4, <1>11, <1>16
<1>20. stream.pc # "reply" /\ stream.session = s
  BY <1>1, <1>2
<1> QED
  BY <1>1, <1>4, <1>9, <1>10, <1>11, <1>14, <1>15, <1>16, <1>17, <1>18, <1>19, <1>20, WorkStep

LEMMA ExecuteCallsKeeps ==
  ASSUME LiveInv, NEW ok \in BOOLEAN, executeFunctionCalls(ok)
  PROVE  LiveInv'
<1>1. stream \in Works /\ stream.pc = "tools"
  BY AtWork DEF executeFunctionCalls, LiveInv
<1>2. PICK s \in Session : s = stream.session
  BY <1>1, WorkFields
<1>3. consoles[s] # none /\ outcomes \in Seq(Outcomes) /\ outcomes # << >>
  BY <1>1, <1>2 DEF LiveInv, StreamHolds, Types
<1>4. PICK c : c = consoles[s] /\ c \in Graphs /\ ConsoleHolds(c, saved[s], starts, atWork(s))
  BY <1>3, ConsoleIsThere
<1>5. PICK n \in Nat \ {0} : n = Len(outcomes) /\ DOMAIN outcomes = 1..n
  <2>1. Len(outcomes) \in Nat \ {0} /\ DOMAIN outcomes = 1..Len(outcomes)
    BY <1>3
  <2> QED
    BY <2>1
<1>6. /\ GraphIsWhole(c, {c.head}) /\ c.head = Len(c.nodes)
      /\ c.nodes[c.head].kind = "plan" /\ c.nodes[c.head].calls = n
  <2>1. n \in atWork(s)
    BY <1>1, <1>2, <1>5 DEF atWork
  <2> QED
    BY <1>4, <2>1 DEF ConsoleHolds
<1>7. PICK results : results = [i \in DOMAIN outcomes |-> outcomes[i].result]
  OBVIOUS
<1>8. results \in Seq({"ok", "failed"}) /\ Len(results) = n /\ results # << >>
  <2>1. "running" \notin ToSet(results)
    BY <1>7 DEF executeFunctionCalls
  <2>2. DOMAIN results = 1..n
    BY <1>5, <1>7
  <2>3. ASSUME NEW i \in 1..n PROVE results[i] \in {"ok", "failed"}
    <3>1. PICK o \in Outcomes : o = outcomes[i]
      BY <1>3, <1>5
    <3>2. results[i] = o.result
      BY <1>5, <1>7, <3>1
    <3>3. o.result \in {"running", "ok", "failed"}
      BY DEF Outcomes
    <3>4. results[i] \in ToSet(results)
      BY <2>2 DEF ToSet
    <3> QED
      BY <2>1, <3>2, <3>3, <3>4
  <2>4. results = [i \in 1..n |-> results[i]]
    BY <1>5, <1>7
  <2>5. results \in [1..n -> {"ok", "failed"}]
    BY <2>3, <2>4
  <2> QED
    BY <2>5
<1>9. PICK d : d = rewriteResults(c, c.head, results)
  OBVIOUS
<1>10. /\ d \in Graphs /\ d.start = c.start /\ d.closed = c.closed
       /\ Extends(c, d) /\ GraphIsWhole(d, {})
  BY <1>4, <1>6, <1>8, <1>9, ResultsKeep
<1>11. /\ consoles' = [consoles EXCEPT ![s] = d] /\ persist(s, d, ok) /\ outcomes' = << >>
       /\ stream' = IF ok THEN afterStep ELSE replying(FALSE)
       /\ spawned' = spawned /\ acked' = acked /\ starts' = starts
  BY <1>2, <1>4, <1>7, <1>9 DEF executeFunctionCalls
<1>12. /\ stream' \in Works /\ stream'.session = s /\ stream'.body = stream.body
       /\ stream'.pc \in {"infer", "reply"} /\ (stream'.pc = "reply" => ~stream'.ok)
  <2>1. CASE stream' = replying(FALSE)
    BY <1>1, <1>2, <2>1, WorkIsDone
  <2>2. CASE stream' # replying(FALSE)
    <3>1. /\ stream' = [stream EXCEPT !.pc = "infer", !.step = stream.step + 1]
          /\ stream.step + 1 # maxToolSteps
      BY <1>11, <2>2 DEF afterStep
    <3>2. stream.step + 1 \in 0..(maxToolSteps - 1)
      BY <1>1, <3>1, WorkFields, LiveAssumption
    <3> QED
      BY <1>1, <1>2, <3>1, <3>2 DEF Works
  <2> QED
    BY <2>1, <2>2
<1>13. outcomes' \in Seq(Outcomes)
  BY <1>11
<1> QED
  BY <1>1, <1>2, <1>4, <1>10, <1>11, <1>12, <1>13, GraphStep

\* The subagent sessions of a session without a console.
LEMMA SpawnsOfNone ==
  ASSUME LiveInv, NEW s \in Session
  PROVE  \A x \in spawned : x.session = s => SpawnHolds(x, none, starts)
<1>1. ASSUME NEW x \in spawned PROVE x.start <= starts
  <2>1. SpawnHolds(x, consoles[x.session], starts)
    BY DEF LiveInv, SpawnedHold
  <2> QED
    BY <2>1 DEF SpawnHolds
<1> QED
  BY <1>1 DEF SpawnHolds

LEMMA EndSessionKeeps ==
  ASSUME LiveInv, NEW ok \in BOOLEAN, EndSession(ok)
  PROVE  LiveInv'
<1>1. stream \in Works /\ stream.pc = "handle" /\ stream.body = "session_end"
  BY AtWork DEF EndSession, LiveInv
<1>2. PICK s \in Session : s = stream.session
  BY <1>1, WorkFields
<1>3. Types /\ SessionHolds(s) /\ stream.pc # "off" /\ stream.pc # "reply"
  BY <1>1 DEF LiveInv
<1>4. /\ stream' \in Works /\ stream'.session = s /\ stream'.body = "session_end"
      /\ stream'.pc = "reply" /\ stream'.ok = ok
  BY <1>1, <1>2, WorkIsDone DEF EndSession
<1>5. /\ consoles' = [consoles EXCEPT ![s] = none] /\ none \in Held
      /\ spawned' = spawned /\ acked' = acked /\ starts' = starts /\ outcomes' = outcomes
  BY <1>2 DEF EndSession, Held
<1>6. spawned' \subseteq Spawns /\ outcomes' \in Seq(Outcomes)
  BY <1>3, <1>5 DEF Types
<1>7. \A x \in spawned' : x.session = s => SpawnHolds(x, none, starts)
  BY <1>5, SpawnsOfNone
<1>8. \A x \in spawned' : x.session # s => x \in spawned
  BY <1>5
<1>9. /\ stream'.pc \in {"turn", "infer", "tools"} => stream'.body = "event" /\ none # none
      /\ stream'.pc = "tools" => outcomes' # << >>
  BY <1>4
<1>10. ASSUME NEW g \in Held, saved' = [saved EXCEPT ![s] = g], g # none => FileHolds(g, starts),
              acked[s] # none => AckHolds(acked[s], g, starts), Unknown(s)' \/ Ending(s)'
       PROVE  LiveInv'
  BY <1>1, <1>2, <1>3, <1>4, <1>5, <1>6, <1>7, <1>8, <1>9, <1>10, WorkStep
<1>11. CASE consoles[s] = none
  <2>1. saved' = saved
    BY <1>2, <1>11 DEF EndSession
  <2>2. PICK g \in Held : g = saved[s]
    BY <1>3 DEF Types
  <2>3. saved' = [saved EXCEPT ![s] = g]
    BY <1>3, <2>1, <2>2 DEF Types
  <2>4. Unknown(s)
    BY <1>3, <1>11 DEF SessionHolds, Ending
  <2>5. Unknown(s)'
    BY <1>5, <2>1, <2>4 DEF Unknown
  <2>6. /\ g # none => FileHolds(g, starts)
        /\ acked[s] # none => AckHolds(acked[s], g, starts)
    BY <1>3, <2>2 DEF SessionHolds
  <2> QED
    BY <1>10, <2>3, <2>5, <2>6
<1>12. CASE consoles[s] # none
  <2>1. PICK c, g : c = consoles[s] /\ g = saved[s] /\ c \in Graphs /\ g \in Graphs
                    /\ starts \in Nat /\ ConsoleHolds(c, g, starts, atWork(s))
                    /\ FileHolds(g, starts)
                    /\ (acked[s] # none => acked[s] \in Acks /\ AckHolds(acked[s], g, starts))
    BY <1>12, ConsoleIsThere, LiveAssumption
  <2>2. PICK d : d = [c EXCEPT !.closed = TRUE]
    OBVIOUS
  <2>3. GraphIsWhole(c, {}) /\ Extends(g, c) /\ g.start = c.start /\ c.start = starts
    <3>1. atWork(s) = {}
      BY <1>1 DEF atWork
    <3> QED
      BY <2>1, <3>1 DEF ConsoleHolds
  <2>4. d \in Graphs /\ d.start = c.start /\ d.closed /\ Extends(c, d) /\ GraphIsWhole(d, {})
    BY <2>1, <2>2, <2>3, CloseKeeps
  <2>5. Extends(g, d)
    BY <2>1, <2>3, <2>4, ExtendsOn
  <2>6. PICK h : h = IF ok THEN d ELSE g
    OBVIOUS
  <2>7. persist(s, d, ok)
    BY <1>2, <1>12, <2>1, <2>2 DEF EndSession
  <2>8. saved' = [saved EXCEPT ![s] = h] /\ h \in Graphs
    BY <1>3, <2>1, <2>4, <2>6, <2>7, PersistFields
  <2>9. FileHolds(d, starts)
    BY <2>1, <2>3, <2>4 DEF FileHolds
  <2>10. FileHolds(h, starts)
    BY <2>1, <2>6, <2>9
  <2>11. acked[s] # none => AckHolds(acked[s], d, starts)
    BY <2>1, <2>3, <2>4, <2>5, AckStays
  <2>12. acked[s] # none => AckHolds(acked[s], h, starts)
    BY <2>1, <2>6, <2>11
  <2>13. Ending(s)'
    <3>1. saved'[s] = h
      BY <1>3, <2>8 DEF Types
    <3>2. ok => h.closed
      BY <2>4, <2>6
    <3> QED
      BY <1>4, <3>1, <3>2 DEF Ending
  <2>14. h \in Held
    BY <2>8 DEF Held
  <2> QED
    BY <1>10, <2>8, <2>10, <2>12, <2>13, <2>14
<1> QED
  BY <1>11, <1>12

LEMMA ConsoleForSessionKeeps ==
  ASSUME LiveInv, NEW ok \in BOOLEAN, consoleForSession(ok)
  PROVE  LiveInv'
<1>1. stream \in Works /\ stream.pc = "handle" /\ stream.body = "event"
  BY AtWork DEF consoleForSession, LiveInv
<1>2. PICK s \in Session : s = stream.session
  BY <1>1, WorkFields
<1>3. Types /\ SessionHolds(s) /\ stream.pc # "off" /\ stream.pc # "reply"
  BY <1>1 DEF LiveInv
<1>4. /\ spawned' = spawned /\ acked' = acked /\ starts' = starts /\ outcomes' = outcomes
  BY DEF consoleForSession
<1>5. spawned' \subseteq Spawns /\ outcomes' \in Seq(Outcomes)
  BY <1>3, <1>4 DEF Types
<1>6. ASSUME stream' = [stream EXCEPT !.pc = "turn"]
      PROVE  /\ stream' \in Works /\ stream'.session = s /\ stream'.body = "event"
             /\ stream'.pc = "turn"
  BY <1>1, <1>2, <1>6 DEF Works
<1>7. stream'.pc # "tools" => atWork(s)' = {} /\ atWork(s) = {}
  BY <1>1 DEF atWork
<1>8. CASE consoles[s] # none
  <2>1. stream' = [stream EXCEPT !.pc = "turn"] /\ consoles' = consoles /\ saved' = saved
    BY <1>2, <1>8 DEF consoleForSession
  <2>2. /\ stream' \in Works /\ stream'.session = s /\ stream'.body = "event"
        /\ stream'.pc = "turn"
    BY <1>6, <2>1
  <2> QED
    BY <1>1, <1>2, <1>3, <1>4, <1>5, <1>7, <1>8, <2>1, <2>2, SameGraphs
<1>9. CASE consoles[s] = none /\ ~ok
  <2>1. stream' = replying(FALSE) /\ consoles' = consoles /\ saved' = saved
    BY <1>2, <1>9 DEF consoleForSession, persist
  <2>2. /\ stream' \in Works /\ stream'.session = s /\ stream'.body = stream.body
        /\ stream'.pc = "reply" /\ ~stream'.ok
    BY <1>1, <1>2, <2>1, WorkIsDone
  <2> QED
    BY <1>1, <1>2, <1>3, <1>4, <1>5, <1>7, <2>1, <2>2, SameGraphs
<1>10. CASE consoles[s] = none /\ ok
  <2>1. PICK c : c = Fresh(starts)
    OBVIOUS
  <2>2. starts \in 1..MaxStarts
    BY <1>3, LiveAssumption DEF LiveInv, StreamHolds
  <2>3. c \in Graphs /\ c.start = starts /\ ~c.closed /\ GraphIsWhole(c, {})
    BY <2>1, <2>2, FreshIsWhole
  <2>4. New = c
    BY <2>1 DEF New, Fresh
  <2>5. /\ consoles' = [consoles EXCEPT ![s] = c] /\ saved' = [saved EXCEPT ![s] = c]
        /\ stream' = [stream EXCEPT !.pc = "turn"]
    BY <1>2, <1>10, <2>4 DEF consoleForSession, persist
  <2>6. /\ stream' \in Works /\ stream'.session = s /\ stream'.body = "event"
        /\ stream'.pc = "turn"
    BY <1>6, <2>5
  <2>7. c \in Held /\ c # none
    BY <2>3, GraphFields DEF Held
  <2>8. Unknown(s)
    BY <1>3, <1>10 DEF SessionHolds, Ending
  <2>9. ConsoleHolds(c, c, starts, {}) /\ FileHolds(c, starts)
    BY <2>2, <2>3, ExtendsItself DEF ConsoleHolds, FileHolds
  <2>10. ConsoleHolds(c, c, starts, atWork(s)')
    BY <1>7, <2>6, <2>9
  <2>11. acked[s] # none => AckHolds(acked[s], c, starts)
    BY <1>3, <2>3, <2>8 DEF SessionHolds, AckHolds, Unknown
  <2>12. ASSUME NEW x \in spawned', x.session = s PROVE SpawnHolds(x, c, starts)
    <3>1. SpawnHolds(x, none, starts) /\ x.start # starts
      BY <1>4, <2>8, <2>12, SpawnsOfNone DEF Unknown
    <3> QED
      BY <3>1 DEF SpawnHolds
  <2>13. \A x \in spawned' : x.session # s => x \in spawned
    BY <1>4
  <2>14. /\ stream'.pc \in {"turn", "infer", "tools"} => stream'.body = "event" /\ c # none
         /\ stream'.pc = "tools" => outcomes' # << >>
         /\ stream'.pc = "reply" /\ stream'.ok =>
              \/ stream'.body = "event" /\ Answered(c, c)
              \/ stream'.body = "session_end" /\ c = none
    BY <2>6, <2>7
  <2>15. \A x \in spawned' : x.session = s => SpawnHolds(x, c, starts)
    BY <2>12
  <2> QED
    BY <1>1, <1>2, <1>3, <1>4, <1>5, <2>5, <2>6, <2>7, <2>9, <2>10, <2>11, <2>13, <2>14,
       <2>15, WorkStep
<1> QED
  BY <1>8, <1>9, <1>10

-----------------------------------------------------------------------------
(* Processes *)

\* Nothing is of a process that was not started yet.
LEMMA StartsAreBounded ==
  ASSUME LiveInv
  PROVE  /\ starts \in Nat
         /\ \A s \in Session : saved[s].start \in 0..starts /\ acked[s].start \in 0..starts
         /\ \A x \in spawned : x.start \in 0..starts
<1>1. Types /\ StreamHolds /\ none.start = 0
  BY DEF LiveInv, none
<1>2. starts \in Nat
  BY <1>1, LiveAssumption DEF StreamHolds
<1>3. ASSUME NEW s \in Session PROVE saved[s].start \in 0..starts
  <2>1. CASE saved[s] = none
    BY <1>1, <1>2, <2>1
  <2>2. CASE saved[s] # none
    <3>1. FileHolds(saved[s], starts)
      BY <2>2 DEF LiveInv, SessionHolds
    <3>2. saved[s] \in Graphs /\ saved[s].start <= starts
      BY <3>1 DEF FileHolds
    <3>3. saved[s].start \in 1..MaxStarts /\ MaxStarts \in Nat
      BY <3>2, GraphFields, LiveAssumption
    <3> QED
      BY <1>2, <3>2, <3>3
  <2> QED
    BY <2>1, <2>2
<1>4. ASSUME NEW s \in Session PROVE acked[s].start \in 0..starts
  <2>1. CASE acked[s] = none
    BY <1>1, <1>2, <2>1
  <2>2. CASE acked[s] # none
    <3>1. AckHolds(acked[s], saved[s], starts) /\ acked[s] \in Acks
      BY <1>1, <2>2 DEF LiveInv, SessionHolds, Types
    <3>2. acked[s].start <= starts /\ acked[s].start \in 1..MaxStarts /\ MaxStarts \in Nat
      BY <3>1, LiveAssumption DEF AckHolds, Acks
    <3> QED
      BY <1>2, <3>2
  <2> QED
    BY <2>1, <2>2
<1>5. ASSUME NEW x \in spawned PROVE x.start \in 0..starts
  <2>1. SpawnHolds(x, consoles[x.session], starts) /\ x \in Spawns
    BY <1>1 DEF LiveInv, SpawnedHold, Types
  <2>2. x.start <= starts /\ x.start \in 1..MaxStarts /\ MaxStarts \in Nat
    BY <2>1, LiveAssumption DEF SpawnHolds, Spawns
  <2> QED
    BY <1>2, <2>2
<1> QED
  BY <1>2, <1>3, <1>4, <1>5

\* The process ends: consoles are gone, files stay.
LEMMA ProcessEnds ==
  ASSUME LiveInv, stream' = stopped, consoles' = [s \in Session |-> none], saved' = saved,
         spawned' = spawned, starts' = starts, outcomes' \in Seq(Outcomes),
         acked' \in [Session -> {none} \cup Acks],
         \A s \in Session : acked'[s] # none => AckHolds(acked'[s], saved[s], starts)
  PROVE  LiveInv'
<1>1. Types /\ StreamHolds
  BY DEF LiveInv
<1>2. stream'.pc = "off" /\ \A s \in Session : consoles'[s] = none
  BY DEF stopped
<1>3. Types'
  BY <1>1 DEF Types, Held
<1>4. StreamHolds'
  BY <1>1, <1>2 DEF StreamHolds
<1>5. ASSUME NEW x \in spawned' PROVE SpawnHolds(x, consoles'[x.session], starts')
  <2>1. x.session \in Session /\ SpawnHolds(x, none, starts)
    BY <1>1, <1>5, SpawnsOfNone DEF Types, Spawns
  <2> QED
    BY <1>2, <2>1
<1>6. ASSUME NEW s \in Session PROVE SessionHolds(s)'
  <2>1. saved[s] # none => FileHolds(saved[s], starts)
    BY DEF LiveInv, SessionHolds
  <2> QED
    BY <1>2, <2>1 DEF SessionHolds
<1> QED
  BY <1>3, <1>4, <1>5, <1>6 DEF LiveInv, SpawnedHold

\* A process starts, with the console of a terminal or without any.
LEMMA ProcessStarts ==
  ASSUME LiveInv, stream.pc = "off", starts < MaxStarts, starts' = starts + 1,
         stream' \in {stopped} \cup Readings, outcomes' = outcomes, spawned' = spawned,
         acked' = acked, consoles' \in [Session -> Held], saved' \in [Session -> Held],
         \A s \in Session : consoles'[s] = none \/ consoles'[s] = Fresh(starts'),
         \A s \in Session : consoles'[s] = none => saved'[s] = saved[s],
         \A s \in Session : consoles'[s] # none => saved'[s] = Fresh(starts'),
         stream' = stopped => \A s \in Session : consoles'[s] = none
  PROVE  LiveInv'
<1>1. Types /\ StreamHolds
  BY DEF LiveInv
<1>2. PICK k : k = starts'
  OBVIOUS
<1>3. /\ starts \in Nat /\ k = starts + 1 /\ k \in 1..MaxStarts
      /\ \A s \in Session : saved[s].start \in 0..starts /\ acked[s].start \in 0..starts
      /\ \A x \in spawned : x.start \in 0..starts
  <2>1. starts \in Nat /\ MaxStarts \in Nat
    BY StartsAreBounded, LiveAssumption
  <2>2. k = starts + 1 /\ k \in 1..MaxStarts
    BY <1>2, <2>1
  <2> QED
    BY <2>1, <2>2, StartsAreBounded
<1>4. stream'.pc \in {"off", "reading"} /\ (stream'.pc = "off" => stream' = stopped)
  BY DEF stopped, Readings
<1>5. Types'
  BY <1>1 DEF Types
<1>6. StreamHolds'
  BY <1>2, <1>3, <1>4 DEF StreamHolds
<1>7. PICK f : f = Fresh(k)
  OBVIOUS
<1>8. f \in Graphs /\ f.start = k /\ ~f.closed /\ GraphIsWhole(f, {}) /\ f # none
  BY <1>3, <1>7, FreshIsWhole, GraphFields
<1>9. ConsoleHolds(f, f, k, {}) /\ FileHolds(f, k)
  BY <1>3, <1>8, ExtendsItself DEF ConsoleHolds, FileHolds
<1>10. ASSUME NEW x \in spawned' PROVE SpawnHolds(x, consoles'[x.session], starts')
  BY <1>2, <1>3, <1>10 DEF SpawnHolds
<1>11. ASSUME NEW s \in Session PROVE SessionHolds(s)'
  <2>1. atWork(s)' = {}
    BY <1>4 DEF atWork
  <2>2. acked[s].start <= k /\ acked[s].start # k /\ saved[s].start # k /\ saved[s].start <= k
    BY <1>3
  <2>3. consoles'[s] = none => Unknown(s)'
    BY <1>2, <1>3, <2>2 DEF Unknown
  <2>4. acked[s] # none => AckHolds(acked[s], saved'[s], k)
    <3>1. CASE consoles'[s] = none
      <4>1. acked[s] # none => AckHolds(acked[s], saved[s], starts)
        BY DEF LiveInv, SessionHolds
      <4> QED
        BY <2>2, <3>1, <4>1 DEF AckHolds
    <3>2. CASE consoles'[s] # none
      <4>1. saved'[s].start = k
        BY <1>2, <1>7, <1>8, <3>2
      <4> QED
        BY <2>2, <4>1 DEF AckHolds
    <3> QED
      BY <3>1, <3>2
  <2>5. saved'[s] # none => FileHolds(saved'[s], k)
    <3>1. CASE consoles'[s] = none
      <4>1. saved[s] # none => FileHolds(saved[s], starts)
        BY DEF LiveInv, SessionHolds
      <4> QED
        BY <2>2, <3>1, <4>1 DEF FileHolds
    <3>2. CASE consoles'[s] # none
      BY <1>2, <1>7, <1>9, <3>2
    <3> QED
      BY <3>1, <3>2
  <2>6. consoles'[s] # none => ConsoleHolds(consoles'[s], saved'[s], k, {})
    BY <1>2, <1>7, <1>9
  <2> QED
    BY <1>2, <2>1, <2>3, <2>4, <2>5, <2>6 DEF SessionHolds
<1> QED
  BY <1>5, <1>6, <1>10, <1>11 DEF LiveInv, SpawnedHold

LEMMA RunStreamKeeps ==
  ASSUME LiveInv, runOACStream
  PROVE  LiveInv'
<1>1. /\ stream' = [pc |-> "reading", mode |-> "oac"] /\ consoles' = [s \in Session |-> none]
      /\ saved' = saved /\ stream.pc = "off" /\ starts < MaxStarts /\ starts' = starts + 1
      /\ outcomes' = outcomes /\ spawned' = spawned /\ acked' = acked
  BY DEF runOACStream
<1>2. stream' \in Readings /\ stream' # stopped
  BY <1>1 DEF Readings, stopped
<1>3. /\ consoles' \in [Session -> Held] /\ saved' \in [Session -> Held]
      /\ \A s \in Session : consoles'[s] = none
  BY <1>1 DEF LiveInv, Types, Held
<1> QED
  BY <1>1, <1>2, <1>3, ProcessStarts

LEMMA RunConsoleKeeps ==
  ASSUME LiveInv, NEW s \in Session, NEW ok \in BOOLEAN, runCodingConsole(s, ok)
  PROVE  LiveInv'
<1>1. /\ stream.pc = "off" /\ starts < MaxStarts /\ starts' = starts + 1
      /\ stream' = IF ok THEN [pc |-> "reading", mode |-> "console"] ELSE stopped
      /\ outcomes' = outcomes /\ spawned' = spawned /\ acked' = acked
  BY DEF runCodingConsole
<1>2. PICK c : c = [New EXCEPT !.start = starts']
  OBVIOUS
<1>3. c = Fresh(starts')
  BY <1>2 DEF New, Fresh
<1>4. persist(s, c, ok) /\ consoles' = [t \in Session |-> IF t = s /\ ok THEN c ELSE none]
  BY <1>2 DEF runCodingConsole
<1>5. starts' \in 1..MaxStarts
  BY <1>1, StartsAreBounded, LiveAssumption
<1>6. c \in Graphs /\ c \in Held /\ none \in Held
  BY <1>3, <1>5, FreshIsWhole DEF Held
<1>7. Types /\ saved \in [Session -> Held]
  BY DEF LiveInv, Types
<1>8. CASE ok
  <2>1. saved' = [saved EXCEPT ![s] = c]
    BY <1>4, <1>8 DEF persist
  <2>2. saved' \in [Session -> Held] /\ consoles' \in [Session -> Held]
    BY <1>4, <1>6, <1>7, <2>1
  <2>3. /\ \A t \in Session : consoles'[t] = none \/ consoles'[t] = c
        /\ \A t \in Session : consoles'[t] = none => saved'[t] = saved[t]
        /\ \A t \in Session : consoles'[t] # none => saved'[t] = c
    <3>1. c # none
      BY <1>6, GraphFields
    <3>2. \A t \in Session : t # s => consoles'[t] = none /\ saved'[t] = saved[t]
      BY <1>4, <1>7, <2>1
    <3>3. consoles'[s] = c /\ saved'[s] = c
      BY <1>4, <1>7, <1>8, <2>1
    <3> QED
      BY <3>1, <3>2, <3>3
  <2>4. stream' \in Readings /\ stream' # stopped
    BY <1>1, <1>8 DEF Readings, stopped
  <2> QED
    BY <1>1, <1>3, <2>2, <2>3, <2>4, ProcessStarts
<1>9. CASE ~ok
  <2>1. saved' = saved /\ consoles' = [t \in Session |-> none]
    BY <1>4, <1>9 DEF persist
  <2>2. /\ saved' \in [Session -> Held] /\ consoles' \in [Session -> Held]
        /\ \A t \in Session : consoles'[t] = none
    BY <1>6, <1>7, <2>1
  <2>3. stream' = stopped
    BY <1>1, <1>9
  <2> QED
    BY <1>1, <2>1, <2>2, <2>3, ProcessStarts
<1> QED
  BY <1>8, <1>9

LEMMA ReceiveKeeps ==
  ASSUME LiveInv, NEW s \in Session, NEW body \in {"event", "undecodable", "session_end"},
         Receive(s, body)
  PROVE  LiveInv'
<1>1. /\ stream.pc = "reading" /\ outcomes' = outcomes /\ consoles' = consoles /\ saved' = saved
      /\ spawned' = spawned /\ acked' = acked /\ starts' = starts
  BY DEF Receive
<1>2. Types /\ StreamHolds
  BY DEF LiveInv
<1>3. stream.mode \in {"oac", "console"}
  BY <1>1, <1>2 DEF Types, Readings, Works, stopped
<1>4. stream' \in Works /\ stream'.pc = "handle"
  <2>1. 0 \in 0..(maxToolSteps - 1)
    BY LiveAssumption
  <2>2. stream' = [pc |-> "handle", mode |-> stream.mode, session |-> s,
                   body |-> body, ok |-> FALSE, step |-> 0]
    BY DEF Receive
  <2> QED
    BY <1>3, <2>1, <2>2 DEF Works
<1>5. Types'
  BY <1>1, <1>2, <1>4 DEF Types
<1>6. StreamHolds'
  BY <1>1, <1>2, <1>4 DEF StreamHolds
<1>7. ASSUME NEW t \in Session PROVE SessionHolds(t)'
  <2>1. atWork(t) = {} /\ atWork(t)' = {} /\ ~Ending(t)
    BY <1>1, <1>4 DEF atWork, Ending
  <2>2. Unknown(t) => Unknown(t)'
    BY <1>1 DEF Unknown
  <2>3. SessionHolds(t)
    BY DEF LiveInv
  <2> QED
    BY <1>1, <2>1, <2>2, <2>3 DEF SessionHolds
<1>8. SpawnedHold'
  BY <1>1 DEF LiveInv, SpawnedHold
<1> QED
  BY <1>5, <1>6, <1>7, <1>8 DEF LiveInv

LEMMA StreamEndsKeeps ==
  ASSUME LiveInv, streamEnds
  PROVE  LiveInv'
<1>1. /\ stream' = stopped /\ consoles' = [s \in Session |-> none] /\ saved' = saved
      /\ spawned' = spawned /\ starts' = starts /\ outcomes' = outcomes /\ acked' = acked
  BY DEF streamEnds
<1>2. outcomes' \in Seq(Outcomes) /\ acked' \in [Session -> {none} \cup Acks]
  BY <1>1 DEF LiveInv, Types
<1>3. \A s \in Session : acked'[s] # none => AckHolds(acked'[s], saved[s], starts)
  BY <1>1 DEF LiveInv, SessionHolds
<1> QED
  BY <1>1, <1>2, <1>3, ProcessEnds

LEMMA CrashKeeps ==
  ASSUME LiveInv, crash
  PROVE  LiveInv'
<1>1. /\ stream' = stopped /\ consoles' = [s \in Session |-> none] /\ saved' = saved
      /\ spawned' = spawned /\ starts' = starts /\ outcomes' = << >> /\ acked' = acked
  BY DEF crash
<1>2. outcomes' \in Seq(Outcomes) /\ acked' \in [Session -> {none} \cup Acks]
  BY <1>1 DEF LiveInv, Types
<1>3. \A s \in Session : acked'[s] # none => AckHolds(acked'[s], saved[s], starts)
  BY <1>1 DEF LiveInv, SessionHolds
<1> QED
  BY <1>1, <1>2, <1>3, ProcessEnds

LEMMA WriteEnvelopeKeeps ==
  ASSUME LiveInv, writeEnvelope
  PROVE  LiveInv'
<1>1. stream \in Works /\ stream.pc = "reply" /\ Types /\ StreamHolds
  BY AtWork DEF writeEnvelope, LiveInv
<1>2. PICK s \in Session : s = stream.session
  BY <1>1, WorkFields
<1>3. PICK g : g = saved[s]
  OBVIOUS
<1>4. /\ outcomes' = outcomes /\ saved' = saved /\ spawned' = spawned /\ starts' = starts
      /\ acked' = IF stream.ok /\ g # none
                  THEN [acked EXCEPT ![s] = [start |-> g.start, closed |-> g.closed,
                                             size |-> Len(g.nodes)]]
                  ELSE acked
  BY <1>2, <1>3 DEF writeEnvelope
<1>5. /\ acked' \in [Session -> {none} \cup Acks]
      /\ \A t \in Session : acked'[t] # none => AckHolds(acked'[t], saved[t], starts)
      /\ \A t \in Session : acked'[t].start = acked[t].start \/ acked'[t].start = saved[t].start
  <2>1. \A t \in Session : acked[t] # none => AckHolds(acked[t], saved[t], starts)
    BY DEF LiveInv, SessionHolds
  <2>2. acked \in [Session -> {none} \cup Acks]
    BY <1>1 DEF Types
  <2>3. CASE stream.ok /\ g # none
    <3>1. FileHolds(g, starts)
      BY <1>3, <2>3 DEF LiveInv, SessionHolds
    <3>2. /\ g.start \in 1..MaxStarts /\ g.closed \in BOOLEAN /\ Len(g.nodes) \in Nat
          /\ g.start <= starts
      BY <3>1, GraphFields DEF FileHolds
    <3>3. PICK a : a = [start |-> g.start, closed |-> g.closed, size |-> Len(g.nodes)]
      OBVIOUS
    <3>4. a \in Acks /\ a.start = g.start /\ a.closed = g.closed /\ a.size = Len(g.nodes)
      BY <3>2, <3>3 DEF Acks
    <3>5. AckHolds(a, g, starts)
      BY <3>2, <3>4 DEF AckHolds
    <3>6. acked' = [acked EXCEPT ![s] = a]
      BY <1>4, <2>3, <3>3
    <3>7. acked'[s] = a /\ \A t \in Session : t # s => acked'[t] = acked[t]
      BY <2>2, <3>6
    <3>8. acked' \in [Session -> {none} \cup Acks]
      BY <2>2, <3>4, <3>6
    <3> QED
      BY <1>3, <2>1, <3>4, <3>5, <3>7, <3>8
  <2>4. CASE ~(stream.ok /\ g # none)
    BY <1>4, <2>1, <2>2, <2>4
  <2> QED
    BY <2>3, <2>4
<1>6. outcomes' \in Seq(Outcomes)
  BY <1>1, <1>4 DEF Types
<1>7. CASE stream.body = "session_end"
  <2>1. stream' = stopped /\ consoles' = [t \in Session |-> none]
    BY <1>7 DEF writeEnvelope
  <2> QED
    BY <1>4, <1>5, <1>6, <2>1, ProcessEnds
<1>8. CASE stream.body # "session_end"
  <2>1. stream' = [pc |-> "reading", mode |-> stream.mode] /\ consoles' = consoles
    BY <1>8 DEF writeEnvelope
  <2>2. stream' \in Readings /\ stream'.pc = "reading"
    BY <1>1, <2>1 DEF Readings, Works
  <2>3. Types'
    BY <1>1, <1>4, <1>5, <2>1, <2>2 DEF Types
  <2>4. StreamHolds'
    BY <1>1, <1>4, <2>1, <2>2 DEF StreamHolds
  <2>5. ASSUME NEW t \in Session PROVE SessionHolds(t)'
    <3>1. atWork(t) = {} /\ atWork(t)' = {} /\ ~Ending(t)
      BY <1>1, <1>8, <2>2 DEF atWork, Ending
    <3>2. Unknown(t) => Unknown(t)'
      BY <1>4, <1>5 DEF Unknown
    <3>3. SessionHolds(t)
      BY DEF LiveInv
    <3>4. consoles[t] = none => Unknown(t)
      BY <1>1, <3>1, <3>3 DEF SessionHolds
    <3> QED
      BY <1>4, <1>5, <2>1, <3>1, <3>2, <3>3, <3>4 DEF SessionHolds
  <2>6. SpawnedHold'
    BY <1>4, <2>1 DEF LiveInv, SpawnedHold
  <2> QED
    BY <2>3, <2>4, <2>5, <2>6 DEF LiveInv
<1> QED
  BY <1>7, <1>8

-----------------------------------------------------------------------------
(* Invariance *)

LEMMA LiveInvBegins ==
  ASSUME LiveInit
  PROVE  LiveInv
<1>1. stream.pc = "off" /\ none.start = 0
  BY DEF LiveInit, stopped, none
<1>2. Types
  BY DEF LiveInit, Types, Held
<1>3. StreamHolds
  BY <1>1, LiveAssumption DEF LiveInit, StreamHolds
<1>4. SpawnedHold
  BY DEF LiveInit, SpawnedHold
<1>5. \A s \in Session : SessionHolds(s)
  BY <1>1 DEF LiveInit, SessionHolds
<1> QED
  BY <1>2, <1>3, <1>4, <1>5 DEF LiveInv

LEMMA LiveInvStutters ==
  ASSUME LiveInv, UNCHANGED liveVars
  PROVE  LiveInv'
<1>1. /\ stream' = stream /\ outcomes' = outcomes /\ consoles' = consoles /\ saved' = saved
      /\ spawned' = spawned /\ acked' = acked /\ starts' = starts
  BY DEF liveVars
<1>2. Types'
  BY <1>1 DEF LiveInv, Types
<1>3. StreamHolds'
  BY <1>1 DEF LiveInv, StreamHolds
<1>4. SpawnedHold'
  BY <1>1 DEF LiveInv, SpawnedHold
<1>5. ASSUME NEW s \in Session PROVE SessionHolds(s)'
  <2>1. atWork(s)' = atWork(s) /\ (Unknown(s) <=> Unknown(s)') /\ (Ending(s) <=> Ending(s)')
    BY <1>1 DEF atWork, Unknown, Ending
  <2>2. SessionHolds(s)
    BY DEF LiveInv
  <2> QED
    BY <1>1, <2>1, <2>2 DEF SessionHolds
<1> QED
  BY <1>2, <1>3, <1>4, <1>5 DEF LiveInv

LEMMA LiveInvHandles ==
  ASSUME LiveInv, Handle
  PROVE  LiveInv'
<1>1. CASE decodeHarnessInputFails
  BY <1>1, DecodeFailsKeeps
<1>2. CASE generateContentFails
  BY <1>2, GenerateFailsKeeps
<1>3. CASE writeEnvelope
  BY <1>3, WriteEnvelopeKeeps
<1>4. ASSUME NEW ok \in BOOLEAN, consoleForSession(ok) PROVE LiveInv'
  BY <1>4, ConsoleForSessionKeeps
<1>5. ASSUME NEW ok \in BOOLEAN, HandleUserTurn(ok) PROVE LiveInv'
  BY <1>5, HandleUserTurnKeeps
<1>6. ASSUME NEW ok \in BOOLEAN, finalAnswer(ok) PROVE LiveInv'
  BY <1>6, FinalAnswerKeeps
<1>7. ASSUME NEW ok \in BOOLEAN, executeFunctionCalls(ok) PROVE LiveInv'
  BY <1>7, ExecuteCallsKeeps
<1>8. ASSUME NEW ok \in BOOLEAN, EndSession(ok) PROVE LiveInv'
  BY <1>8, EndSessionKeeps
<1>9. ASSUME NEW calls \in Batch, plan(calls) PROVE LiveInv'
  BY <1>9, PlanKeeps
<1>10. ASSUME NEW i \in DOMAIN outcomes, NEW res \in {"ok", "failed"},
              executeFunctionCall(i, res)
       PROVE  LiveInv'
  BY <1>10, ExecuteCallKeeps
<1>11. ASSUME NEW i \in DOMAIN outcomes, NEW ok \in BOOLEAN, spawnSubagentSearch(i, ok)
       PROVE  LiveInv'
  BY <1>11, SpawnKeeps
<1> QED
  BY <1>1, <1>2, <1>3, <1>4, <1>5, <1>6, <1>7, <1>8, <1>9, <1>10, <1>11 DEF Handle

\* The inductive invariant of the coding agent: consoles and files are whole graphs
\* of their processes, and what a session left behind is known to be answered.
THEOREM LiveInvariant == LiveSpec => []LiveInv
<1>1. LiveInit => LiveInv
  BY LiveInvBegins
<1>2. LiveInv /\ [LiveNext]_liveVars => LiveInv'
  <2> SUFFICES ASSUME LiveInv, [LiveNext]_liveVars PROVE LiveInv'
    OBVIOUS
  <2>1. CASE runOACStream
    BY <2>1, RunStreamKeeps
  <2>2. ASSUME NEW s \in Session, NEW ok \in BOOLEAN, runCodingConsole(s, ok) PROVE LiveInv'
    BY <2>2, RunConsoleKeeps
  <2>3. ASSUME NEW s \in Session, NEW body \in {"event", "undecodable", "session_end"},
               Receive(s, body)
        PROVE  LiveInv'
    BY <2>3, ReceiveKeeps
  <2>4. CASE Handle
    BY <2>4, LiveInvHandles
  <2>5. CASE streamEnds
    BY <2>5, StreamEndsKeeps
  <2>6. CASE crash
    BY <2>6, CrashKeeps
  <2>7. CASE UNCHANGED liveVars
    BY <2>7, LiveInvStutters
  <2> QED
    BY <2>1, <2>2, <2>3, <2>4, <2>5, <2>6, <2>7 DEF LiveNext
<1> QED
  BY <1>1, <1>2, PTL DEF LiveSpec

\* Consoles and files are well typed, and a file is an earlier state of its live
\* console, whichever saves failed.
THEOREM FilesFollow == LiveSpec => []FileInv
<1>1. LiveInv => FileInv
  <2> SUFFICES ASSUME LiveInv PROVE FileInv
    OBVIOUS
  <2>1. LiveTypeOK
    BY DEF LiveInv, Types, LiveTypeOK, Held, Acks, Spawns, Outcomes, Readings, Works
  <2>2. ASSUME NEW s \in Session, consoles[s] # none
        PROVE  /\ saved[s] # none /\ saved[s].start = consoles[s].start
               /\ IsPrefix(saved[s].nodes, consoles[s].nodes) /\ ~saved[s].closed
    <3>1. /\ saved[s] # none /\ saved[s] \in Graphs /\ consoles[s] \in Graphs
          /\ ConsoleHolds(consoles[s], saved[s], starts, atWork(s))
      BY <2>2, ConsoleIsThere
    <3>2. /\ Extends(saved[s], consoles[s]) /\ ~saved[s].closed
          /\ saved[s].start = consoles[s].start
      BY <3>1 DEF ConsoleHolds
    <3>3. IsPrefix(saved[s].nodes, consoles[s].nodes)
      BY <3>1, <3>2, ExtendsIsPrefix
    <3> QED
      BY <3>1, <3>2, <3>3
  <2> QED
    BY <2>1, <2>2 DEF FileInv, SavedFollowsConsole
<1> QED
  BY <1>1, LiveInvariant, PTL

\* No file shows half a step, wherever the process stopped.
THEOREM StepsAreSavedWhole == LiveSpec => []SavedStepsAreWhole
<1>1. LiveInv => SavedStepsAreWhole
  <2> SUFFICES ASSUME LiveInv, NEW s \in Session, saved[s] # none,
                      NEW p \in DOMAIN saved[s].nodes, saved[s].nodes[p].kind = "plan"
               PROVE  StepIsWhole(saved[s], p)
    BY DEF SavedStepsAreWhole, StepIsWhole
  <2>1. FileHolds(saved[s], starts)
    BY DEF LiveInv, SessionHolds
  <2> QED
    BY <2>1 DEF FileHolds, GraphIsWhole, StepsAreWhole
<1> QED
  BY <1>1, LiveInvariant, PTL

\* A session resumed from its file goes through no failed call, no sibling and
\* every turn.
THEOREM ResumesCleanly == LiveSpec => []ResumePathIsClean
<1>1. LiveInv => ResumePathIsClean
  <2>1. ASSUME LiveInv, NEW s \in Session, saved[s] # none
        PROVE  PathIsClean(saved[s])
    BY <2>1 DEF LiveInv, SessionHolds, FileHolds, GraphIsWhole
  <2> QED
    BY <2>1 DEF ResumePathIsClean, PathIsClean
<1> QED
  BY <1>1, LiveInvariant, PTL

\* What a process acknowledged is in the file, and stays there until another
\* process takes the session over.
THEOREM AcknowledgedStays == LiveSpec => []AcknowledgedIsSaved
<1>1. LiveInv => AcknowledgedIsSaved
  <2> SUFFICES ASSUME LiveInv PROVE AcknowledgedIsSaved
    OBVIOUS
  <2>1. ASSUME NEW s \in Session, acked[s] # none, acked[s].start = saved[s].start
        PROVE  acked[s].size <= Len(saved[s].nodes) /\ (acked[s].closed => saved[s].closed)
    BY <2>1 DEF LiveInv, SessionHolds, AckHolds
  <2>2. ASSUME stream.pc = "reply", stream.ok
        PROVE  LET g == saved[stream.session] IN
               /\ stream.body = "event" => /\ g = consoles[stream.session]
                                           /\ g.nodes[g.head].kind = "answer"
               /\ stream.body = "event" => \A x \in spawned :
                    <<x.session, x.start>> = <<stream.session, g.start>> =>
                      x.node <= Len(g.nodes) /\ g.nodes[x.node].kind = "plan"
               /\ stream.body = "session_end" /\ g.start = starts => g.closed
    <3>1. stream \in Works
      BY <2>2, AtWork DEF LiveInv
    <3>2. PICK s \in Session : s = stream.session
      BY <3>1, WorkFields
    <3>3. PICK g : g = saved[s]
      OBVIOUS
    <3>4. ASSUME stream.body = "event"
          PROVE  /\ g = consoles[s] /\ g.nodes[g.head].kind = "answer"
                 /\ \A x \in spawned : x.session = s /\ x.start = g.start =>
                      x.node <= Len(g.nodes) /\ g.nodes[x.node].kind = "plan"
      <4>1. Answered(consoles[s], g)
        BY <2>2, <3>2, <3>3, <3>4 DEF LiveInv, StreamHolds
      <4>2. consoles[s] # none /\ g = consoles[s] /\ g.nodes[g.head].kind = "answer"
        BY <4>1 DEF Answered
      <4>3. g \in Graphs /\ g.start = starts
        BY <3>3, <4>2, ConsoleIsThere DEF ConsoleHolds
      <4>4. ASSUME NEW x \in spawned, x.session = s, x.start = g.start
            PROVE  x.node <= Len(g.nodes) /\ g.nodes[x.node].kind = "plan"
        <5>1. SpawnHolds(x, consoles[x.session], starts)
          BY DEF LiveInv, SpawnedHold
        <5>2. x.node \in DOMAIN g.nodes /\ g.nodes[x.node].kind = "plan"
          BY <4>2, <4>3, <4>4, <5>1 DEF SpawnHolds
        <5>3. x.node \in 1..Len(g.nodes)
          BY <4>3, <5>2, GraphFields
        <5> QED
          BY <5>2, <5>3
      <4> QED
        BY <4>2, <4>4
    <3>5. ASSUME stream.body = "session_end", g.start = starts PROVE g.closed
      <4>1. consoles[s] = none /\ SessionHolds(s)
        BY <2>2, <3>2, <3>5 DEF LiveInv, StreamHolds
      <4>2. ~Unknown(s)
        BY <3>3, <3>5 DEF Unknown
      <4>3. Ending(s)
        BY <2>2, <4>1, <4>2 DEF SessionHolds
      <4> QED
        BY <2>2, <3>3, <3>5, <4>3 DEF Ending
    <3> QED
      BY <3>2, <3>3, <3>4, <3>5
  <2> QED
    BY <2>1, <2>2 DEF AcknowledgedIsSaved
<1> QED
  BY <1>1, LiveInvariant, PTL

=============================================================================
