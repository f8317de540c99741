-------------------------- MODULE HarnessLoopProofs --------------------------
(***************************************************************************)
(* How a conversation of the harnesses grows: what an append does to the   *)
(* conversation it extends, which batches of tool calls are answered in    *)
(* it, and which results stand behind their batch.                         *)
(***************************************************************************)
EXTENDS HarnessLoop, CommonFacts

-----------------------------------------------------------------------------
(* Conversations *)

\* lineage for any list of nodes.
lineageIn(m) ==
  LET path[n \in 0..Len(m)] ==
        IF n = NoID THEN << >> ELSE Append(path[m[n].parent], n)
  IN path

\* The nodes the harness makes: a parent is an earlier node, only the system
\* message has none, and a batch has calls.
Placed(m, n) ==
  /\ m[n] \in Node /\ m[n].parent < n
  /\ m[n].parent = NoID => m[n].role = "system"
  /\ m[n].role = "calls" => m[n].calls # << >>

\* The conversation along a path.
talk(m, s) == [i \in DOMAIN s |-> m[s[i]]]

\* Every batch of a conversation is answered, but for those in C.
Settled(m, s, C) ==
  \A i \in DOMAIN s : m[s[i]].role = "calls" /\ s[i] \notin C => answered(talk(m, s), i)

\* Every result of a conversation belongs to a batch that it follows.
ResultsStand(m, s) ==
  LET q == talk(m, s) IN
  \A i \in DOMAIN q :
    q[i].role = "tool" =>
      \E j \in 1..(i - 1) :
        /\ q[j].role = "calls" /\ q[j].seq = q[i].seq
        /\ i - j <= Len(q[j].calls)
        /\ \A k \in (j + 1)..i : q[k].role = "tool"

\* A result of batch seq, put after a conversation, has its batch before it, with
\* fewer results between them than the batch has calls.
HasItsBatch(m, s, seq) ==
  \E j \in DOMAIN s :
    /\ m[s[j]].role = "calls" /\ m[s[j]].seq = seq
    /\ Len(s) + 1 - j <= Len(m[s[j]].calls)
    /\ \A k \in (j + 1)..Len(s) : m[s[k]].role = "tool"

\* The results of the calls 1..n of batch b follow place i of a conversation.
ResultsFollow(m, s, b, i, n) ==
  \A k \in 1..n :
    /\ m[s[i + k]].role = "tool"
    /\ <<m[s[i + k]].seq, m[s[i + k]].call>> = <<m[b].seq, k>>

\* A conversation ends with batch b and the results of its calls before call idx.
Answering(m, s, b, idx) ==
  \E i \in DOMAIN s :
    /\ s[i] = b /\ Len(s) + 1 = i + idx
    /\ m[b].role = "calls" /\ idx \in DOMAIN m[b].calls
    /\ ResultsFollow(m, s, b, i, idx - 1)

\* Where the process is, or goes on once its write has returned.
stage(h) == IF h.pc = "write" THEN h.next ELSE h.pc

\* The conversation a process has at its head is settled, but for the batch that
\* it is answering or that its arrival will answer.
TalkHolds(h, m, broken) ==
  LET s == lineageIn(m)[h.head] IN
  /\ stage(h) \in {"prompt", "infer"} => Settled(m, s, broken)
  /\ stage(h) = "arrive" => Settled(m, s, broken \cup {h.head})
  /\ stage(h) \in {"arrival", "tools", "spawn"} =>
       Settled(m, s, broken \cup {h.batch}) /\ Answering(m, s, h.batch, h.idx)

\* Every node ends a conversation that begins with the system prompt and in which
\* each result stands behind its batch.
NodesFit(m) ==
  \A n \in DOMAIN m :
    /\ Placed(m, n)
    /\ lineageIn(m)[n] # << >> /\ m[lineageIn(m)[n][1]].role = "system"
    /\ ResultsStand(m, lineageIn(m)[n])

-----------------------------------------------------------------------------
(* Lineages of a list of nodes that grows *)

\* m2 has the nodes of m, and maybe more.
Extends(m2, m) ==
  /\ m2 \in Seq(Node) /\ DOMAIN m \subseteq DOMAIN m2 /\ Len(m) <= Len(m2)
  /\ \A n \in DOMAIN m : m2[n] = m[n]

\* Parents come first.
Rooted(m) == m \in Seq(Node) /\ \A n \in DOMAIN m : m[n].parent < n

\* The nodes of an invariant state are rooted.
LEMMA NodesAreRooted ==
  ASSUME NEW m \in Seq(Node), NodesFit(m)
  PROVE  Rooted(m)
BY DEF NodesFit, Placed, Rooted

\* A list of nodes extends itself.
LEMMA Unmoved ==
  ASSUME NEW m \in Seq(Node)
  PROVE  Extends(m, m)
BY DEF Extends

\* One node more, and the others where they were.
LEMMA Appended ==
  ASSUME NEW m \in Seq(Node), NEW x \in Node
  PROVE  /\ Extends(Append(m, x), m)
         /\ Len(Append(m, x)) = Len(m) + 1 /\ Append(m, x)[Len(m) + 1] = x
         /\ DOMAIN Append(m, x) = DOMAIN m \cup {Len(m) + 1}
         /\ Len(m) + 1 \notin DOMAIN m
<1>1. /\ Append(m, x) \in Seq(Node) /\ Len(Append(m, x)) = Len(m) + 1
      /\ DOMAIN Append(m, x) = 1..(Len(m) + 1) /\ DOMAIN m = 1..Len(m) /\ Len(m) \in Nat
      /\ \A i \in 1..Len(m) : Append(m, x)[i] = m[i]
      /\ Append(m, x)[Len(m) + 1] = x
  BY AppendPositions
<1>2. DOMAIN Append(m, x) = DOMAIN m \cup {Len(m) + 1} /\ Len(m) + 1 \notin DOMAIN m
  BY <1>1
<1> QED
  BY <1>1, <1>2 DEF Extends

\* The parents of a list of nodes.
parents(m) == [n \in 1..Len(m) |-> m[n].parent]

\* The recursion of lineage ends, and its values are paths.
LEMMA LineageTable ==
  ASSUME NEW m, Rooted(m)
  PROVE  /\ Len(m) \in Nat /\ DOMAIN m = 1..Len(m)
         /\ \A n \in 1..Len(m) : parents(m)[n] \in 0..(n - 1) /\ parents(m)[n] = m[n].parent
         /\ IsPathTable(parents(m), Len(m), lineageIn(m))
<1>1. PICK L \in Nat : L = Len(m) /\ DOMAIN m = 1..L
  BY DEF Rooted
<1>2. PICK up : up = parents(m)
  OBVIOUS
<1>3. \A n \in 1..L : up[n] = m[n].parent
  BY <1>1, <1>2 DEF parents
<1>4. ASSUME NEW n \in 1..L PROVE up[n] \in 0..(n - 1)
  <2>1. m[n] \in Node /\ m[n].parent < n
    BY <1>1 DEF Rooted
  <2>2. m[n].parent \in Nat
    BY <2>1, LoopAssumption DEF Node
  <2> QED
    BY <1>3, <2>1, <2>2
<1>5. \A n \in 0..L : n # 0 => up[n] = m[n].parent
  BY <1>3
<1>6. PICK f : IsPathTable(up, L, f)
  BY <1>4, PathTableExists
<1>7. f = [n \in 0..L |-> IF n = NoID THEN << >> ELSE Append(f[m[n].parent], n)]
  BY <1>5, <1>6 DEF IsPathTable, NoID
<1>8. PICK g : g = lineageIn(m)
  OBVIOUS
<1>9. g = [n \in 0..L |-> IF n = NoID THEN << >> ELSE Append(g[m[n].parent], n)]
  BY <1>1, <1>7, <1>8 DEF lineageIn
<1>10. IsPathTable(up, L, g)
  BY <1>5, <1>9 DEF IsPathTable, NoID
<1> QED
  BY <1>1, <1>2, <1>3, <1>4, <1>8, <1>10

\* A lineage is the lineage of the parent and the node, with no node twice.
LEMMA LineageRows ==
  ASSUME NEW m, Rooted(m)
  PROVE  /\ lineageIn(m)[NoID] = << >>
         /\ \A n \in DOMAIN m :
              m[n].parent \in {NoID} \cup DOMAIN m
              /\ lineageIn(m)[n] = Append(lineageIn(m)[m[n].parent], n)
         /\ \A n \in {NoID} \cup DOMAIN m :
              lineageIn(m)[n] \in Seq(DOMAIN m) /\ IsInjective(lineageIn(m)[n])
<1>1. PICK L \in Nat : L = Len(m) /\ DOMAIN m = 1..L
  BY LineageTable
<1>2. PICK f : f = lineageIn(m)
  OBVIOUS
<1>3. PICK up : /\ \A n \in 1..L : up[n] \in 0..(n - 1) /\ up[n] = m[n].parent
                /\ IsPathTable(up, L, f)
  BY <1>1, <1>2, LineageTable
<1>4. DOMAIN f = 0..L /\ f[0] = << >> /\ \A n \in 1..L : f[n] = Append(f[up[n]], n)
  BY <1>3, PathRows
<1>5. \A n \in 0..L : f[n] \in Seq(1..L) /\ IsInjective(f[n])
  BY <1>3, PathOnce
<1>6. \A n \in 1..L : m[n].parent \in {NoID} \cup 1..L
  <2>1. ASSUME NEW n \in 1..L PROVE m[n].parent \in {NoID} \cup 1..L
    <3>1. m[n].parent \in 0..(n - 1)
      BY <1>3
    <3> QED
      BY <3>1 DEF NoID
  <2> QED
    BY <2>1
<1>7. \A n \in {NoID} \cup 1..L : n \in 0..L
  BY DEF NoID
<1> QED
  BY <1>1, <1>2, <1>3, <1>4, <1>5, <1>6, <1>7 DEF NoID

\* New nodes change no lineage.
LEMMA LineagesStay ==
  ASSUME NEW m, Rooted(m), NEW m2, Rooted(m2), Extends(m2, m)
  PROVE  \A n \in {NoID} \cup DOMAIN m : lineageIn(m2)[n] = lineageIn(m)[n]
<1>1. PICK L \in Nat : L = Len(m) /\ DOMAIN m = 1..L
  BY LineageTable
<1>2. PICK M \in Nat : M = Len(m2) /\ DOMAIN m2 = 1..M
  BY LineageTable
<1>3. PICK up : /\ \A n \in 1..L : up[n] \in 0..(n - 1) /\ up[n] = m[n].parent
                /\ IsPathTable(up, L, lineageIn(m))
  BY <1>1, LineageTable
<1>4. PICK up2 : /\ \A n \in 1..M : up2[n] = m2[n].parent
                 /\ IsPathTable(up2, M, lineageIn(m2))
  BY <1>2, LineageTable
<1>5. L <= M /\ \A n \in 1..L : n \in 1..M /\ m2[n] = m[n]
  BY <1>1, <1>2 DEF Extends
<1>6. \A n \in 1..L : up2[n] = up[n]
  BY <1>3, <1>4, <1>5
<1>7. \A n \in 0..L : lineageIn(m2)[n] = lineageIn(m)[n]
  BY <1>3, <1>4, <1>5, <1>6, PathsStay
<1> QED
  BY <1>1, <1>7 DEF NoID

\* The lineages of HarnessLoop are those of the nodes made.
LEMMA LineageIsLineage == lineage = lineageIn(made) /\ lineage' = lineageIn(made')
BY DEF lineage, lineageIn

-----------------------------------------------------------------------------
(* A conversation that grows *)

\* More nodes elsewhere change no conversation.
LEMMA TalkStays ==
  ASSUME NEW m \in Seq(Node), NEW m2, Extends(m2, m), NEW s \in Seq(DOMAIN m)
  PROVE  /\ talk(m2, s) = talk(m, s)
         /\ \A i \in DOMAIN s : m2[s[i]] = m[s[i]]
         /\ \A C : Settled(m, s, C) => Settled(m2, s, C)
         /\ ResultsStand(m, s) => ResultsStand(m2, s)
<1>1. ASSUME NEW i \in DOMAIN s PROVE m2[s[i]] = m[s[i]]
  <2>1. s[i] \in DOMAIN m
    OBVIOUS
  <2> QED
    BY <2>1 DEF Extends
<1>2. talk(m2, s) = talk(m, s)
  BY <1>1 DEF talk
<1>3. \A C : Settled(m, s, C) => Settled(m2, s, C)
  BY <1>1, <1>2 DEF Settled
<1>4. ResultsStand(m, s) => ResultsStand(m2, s)
  BY <1>2 DEF ResultsStand
<1> QED
  BY <1>1, <1>2, <1>3, <1>4

\* A conversation is as settled as it was when more is left out of account.
LEMMA SettledWithout ==
  ASSUME NEW m, NEW s, NEW C, NEW D, Settled(m, s, C), C \subseteq D
  PROVE  Settled(m, s, D)
BY DEF Settled

\* The calls of a node.
LEMMA NodeCalls ==
  ASSUME NEW x \in Node
  PROVE  DOMAIN x.calls = 1..Len(x.calls) /\ Len(x.calls) \in Nat
BY DEF Node

\* The conversation below a node that is appended.
LEMMA TalkGrows ==
  ASSUME NEW m \in Seq(Node), NEW s \in Seq(DOMAIN m), NEW x \in Node
  PROVE  LET n == Len(m) + 1
             m2 == Append(m, x)
             s2 == Append(s, n)
         IN /\ DOMAIN s = 1..Len(s) /\ Len(s) \in Nat /\ n \notin DOMAIN m
            /\ s2 \in Seq(DOMAIN m2) /\ DOMAIN s2 = 1..(Len(s) + 1) /\ Len(s2) = Len(s) + 1
            /\ s2[Len(s) + 1] = n /\ \A i \in 1..Len(s) : s2[i] = s[i] /\ s[i] \in DOMAIN m
            /\ DOMAIN talk(m, s) = 1..Len(s) /\ Len(talk(m, s)) = Len(s)
            /\ DOMAIN talk(m2, s2) = 1..(Len(s) + 1) /\ Len(talk(m2, s2)) = Len(s) + 1
            /\ talk(m2, s2)[Len(s) + 1] = x /\ m2[s2[Len(s) + 1]] = x /\ m2[n] = x
            /\ \A i \in 1..Len(s) : /\ talk(m2, s2)[i] = talk(m, s)[i] /\ talk(m, s)[i] = m[s[i]]
                                    /\ m2[s2[i]] = m[s[i]]
<1>1. PICK n \in Nat : n = Len(m) + 1
  OBVIOUS
<1>2. PICK m2 : m2 = Append(m, x)
  OBVIOUS
<1>3. /\ Extends(m2, m) /\ m2[n] = x /\ DOMAIN m2 = DOMAIN m \cup {n} /\ n \notin DOMAIN m
  BY <1>1, <1>2, Appended
<1>4. PICK L \in Nat : L = Len(s) /\ DOMAIN s = 1..L
  OBVIOUS
<1>5. s \in Seq(DOMAIN m2)
  BY <1>3, SeqSubset
<1>6. PICK s2 : s2 = Append(s, n)
  OBVIOUS
<1>7. /\ s2 \in Seq(DOMAIN m2) /\ DOMAIN s2 = 1..(L + 1) /\ Len(s2) = L + 1
      /\ s2[L + 1] = n /\ \A i \in 1..L : s2[i] = s[i]
  BY <1>3, <1>4, <1>5, <1>6, AppendPositions
<1>8. \A i \in 1..L : s[i] \in DOMAIN m
  BY <1>4
<1>9. \A i \in 1..L : m2[s[i]] = m[s[i]]
  BY <1>3, <1>8 DEF Extends
<1>10. DOMAIN talk(m, s) = 1..L /\ \A i \in 1..L : talk(m, s)[i] = m[s[i]]
  BY <1>4 DEF talk
<1>11. DOMAIN talk(m2, s2) = 1..(L + 1) /\ \A i \in 1..(L + 1) : talk(m2, s2)[i] = m2[s2[i]]
  BY <1>7 DEF talk
<1>12. L + 1 \in 1..(L + 1) /\ \A i \in 1..L : i \in 1..(L + 1)
  OBVIOUS
<1>13. /\ talk(m2, s2)[L + 1] = x /\ m2[s2[L + 1]] = x
       /\ \A i \in 1..L : talk(m2, s2)[i] = talk(m, s)[i] /\ m2[s2[i]] = m[s[i]]
  BY <1>3, <1>7, <1>9, <1>10, <1>11, <1>12
<1>14. Len(talk(m, s)) = L /\ Len(talk(m2, s2)) = L + 1
  BY <1>10, <1>11 DEF talk
<1> QED
  BY <1>1, <1>2, <1>3, <1>4, <1>6, <1>7, <1>8, <1>10, <1>11, <1>13, <1>14

\* A batch that was answered stays so, and a new one is left out of account.
LEMMA SettledGrows ==
  ASSUME NEW m \in Seq(Node), NEW s \in Seq(DOMAIN m), NEW x \in Node, NEW C, NEW D,
         Settled(m, s, C), C \subseteq D, x.role = "calls" => Len(m) + 1 \in D
  PROVE  Settled(Append(m, x), Append(s, Len(m) + 1), D)
<1>1. PICK n, m2, s2 : n = Len(m) + 1 /\ m2 = Append(m, x) /\ s2 = Append(s, n)
  OBVIOUS
<1>2. PICK L \in Nat : L = Len(s)
  OBVIOUS
<1>3. PICK q, q2 : q = talk(m, s) /\ q2 = talk(m2, s2)
  OBVIOUS
<1>4. /\ DOMAIN s = 1..L /\ DOMAIN s2 = 1..(L + 1) /\ s2[L + 1] = n /\ m2[s2[L + 1]] = x
      /\ DOMAIN q = 1..L /\ Len(q) = L /\ DOMAIN q2 = 1..(L + 1) /\ Len(q2) = L + 1
      /\ \A i \in 1..L : q2[i] = q[i] /\ s2[i] = s[i] /\ m2[s2[i]] = m[s[i]]
  BY <1>1, <1>2, <1>3, TalkGrows
<1>5. ASSUME NEW i \in 1..L, answered(q, i) PROVE answered(q2, i)
  <2>1. \A k \in DOMAIN q[i].calls : i + k <= L /\ q[i + k].role = "tool"
            /\ <<q[i + k].seq, q[i + k].call>> = <<q[i].seq, k>>
    BY <1>4, <1>5 DEF answered
  <2>2. q2[i] = q[i]
    BY <1>4
  <2>3. ASSUME NEW k \in DOMAIN q[i].calls, k \in Nat
        PROVE  i + k <= L + 1 /\ q2[i + k] = q[i + k]
    <3>1. i + k <= L /\ i + k \in Nat /\ 1 <= i + k
      BY <2>1, <2>3
    <3>2. i + k \in 1..L
      BY <3>1
    <3> QED
      BY <1>4, <3>1, <3>2
  <2>4. \A k \in DOMAIN q[i].calls : k \in Nat
    <3>1. q[i] \in Node
      <4>1. s[i] \in DOMAIN m /\ q[i] = m[s[i]]
        BY <1>4, <1>3 DEF talk
      <4> QED
        BY <4>1
    <3>2. q[i].calls \in Seq({"tool", "teleport"})
      BY <3>1 DEF Node
    <3> QED
      BY <3>2
  <2> QED
    BY <1>4, <2>1, <2>2, <2>3, <2>4 DEF answered
<1>6. ASSUME NEW i \in DOMAIN s2, m2[s2[i]].role = "calls", s2[i] \notin D PROVE answered(q2, i)
  <2>1. CASE i = L + 1
    BY <1>1, <1>4, <1>6, <2>1
  <2>2. CASE i \in 1..L
    <3>1. m[s[i]].role = "calls" /\ s[i] \notin C
      BY <1>4, <1>6, <2>2
    <3>2. answered(q, i)
      BY <1>3, <1>4, <2>2, <3>1 DEF Settled
    <3> QED
      BY <1>5, <2>2, <3>2
  <2> QED
    BY <1>4, <2>1, <2>2
<1> QED
  BY <1>1, <1>3, <1>6 DEF Settled

\* A result finds its place, and others keep theirs.
LEMMA ResultsGrow ==
  ASSUME NEW m \in Seq(Node), NEW s \in Seq(DOMAIN m), NEW x \in Node, ResultsStand(m, s),
         x.role = "tool" => HasItsBatch(m, s, x.seq)
  PROVE  ResultsStand(Append(m, x), Append(s, Len(m) + 1))
<1>1. PICK n, m2, s2 : n = Len(m) + 1 /\ m2 = Append(m, x) /\ s2 = Append(s, n)
  OBVIOUS
<1>2. PICK L \in Nat : L = Len(s)
  OBVIOUS
<1>3. PICK q, q2 : q = talk(m, s) /\ q2 = talk(m2, s2)
  OBVIOUS
<1>4. /\ DOMAIN s = 1..L /\ DOMAIN q = 1..L /\ DOMAIN q2 = 1..(L + 1) /\ q2[L + 1] = x
      /\ \A i \in 1..L : q2[i] = q[i] /\ q[i] = m[s[i]]
  BY <1>1, <1>2, <1>3, TalkGrows
<1> DEFINE stands(t, i) ==
             \E j \in 1..(i - 1) :
               /\ t[j].role = "calls" /\ t[j].seq = t[i].seq
               /\ i - j <= Len(t[j].calls)
               /\ \A k \in (j + 1)..i : t[k].role = "tool"
<1>0. \A i \in DOMAIN q : q[i].role = "tool" => stands(q, i)
  BY <1>3 DEF ResultsStand
<1>5. ASSUME NEW i \in 1..L, q2[i].role = "tool" PROVE stands(q2, i)
  <2>0. stands(q, i)
    <3> HIDE DEF stands
    <3> QED
      BY <1>0, <1>4, <1>5
  <2>1. PICK j \in 1..(i - 1) :
          /\ q[j].role = "calls" /\ q[j].seq = q[i].seq
          /\ i - j <= Len(q[j].calls)
          /\ \A k \in (j + 1)..i : q[k].role = "tool"
    BY <2>0
  <2>2. j \in 1..L /\ \A k \in (j + 1)..i : k \in 1..L
    BY <1>5
  <2>3. q2[j] = q[j] /\ q2[i] = q[i] /\ \A k \in (j + 1)..i : q2[k] = q[k]
    BY <1>4, <2>2
  <2> QED
    BY <2>1, <2>3
<1>6. ASSUME q2[L + 1].role = "tool" PROVE stands(q2, L + 1)
  <2>1. PICK j \in 1..L :
          /\ m[s[j]].role = "calls" /\ m[s[j]].seq = x.seq
          /\ L + 1 - j <= Len(m[s[j]].calls)
          /\ \A k \in (j + 1)..L : m[s[k]].role = "tool"
    BY <1>2, <1>4, <1>6 DEF HasItsBatch
  <2>2. j \in 1..((L + 1) - 1) /\ q2[j] = m[s[j]] /\ \A k \in (j + 1)..L : k \in 1..L
    BY <1>4
  <2>3. \A k \in (j + 1)..(L + 1) : k = L + 1 \/ k \in (j + 1)..L
    OBVIOUS
  <2>4. ASSUME NEW k \in (j + 1)..(L + 1) PROVE q2[k].role = "tool"
    <3>1. CASE k = L + 1
      BY <1>6, <3>1
    <3>2. CASE k \in (j + 1)..L
      <4>1. k \in 1..L
        BY <2>2, <3>2
      <4>2. m[s[k]].role = "tool" /\ q2[k] = m[s[k]]
        BY <1>4, <2>1, <3>2, <4>1
      <4> QED
        BY <4>2
    <3> QED
      BY <2>3, <3>1, <3>2
  <2>5. q2[j].role = "calls" /\ q2[j].seq = q2[L + 1].seq /\ L + 1 - j <= Len(q2[j].calls)
    BY <1>4, <2>1, <2>2
  <2>6. j \in 1..((L + 1) - 1) /\ \A k \in (j + 1)..(L + 1) : q2[k].role = "tool"
    BY <2>2, <2>4
  <2> QED
    BY <2>5, <2>6
<1> HIDE DEF stands
<1>7. \A i \in DOMAIN q2 : q2[i].role = "tool" => stands(q2, i)
  <2>1. \A i \in DOMAIN q2 : i = L + 1 \/ i \in 1..L
    BY <1>4
  <2> QED
    BY <1>5, <1>6, <2>1
<1> QED
  BY <1>1, <1>3, <1>7 DEF ResultsStand, stands

\* One more result of a batch whose calls are being answered.
LEMMA AnsweringMore ==
  ASSUME NEW m \in Seq(Node), NEW s \in Seq(DOMAIN m), NEW x \in Node, NEW b, NEW idx,
         Answering(m, s, b, idx), x.role = "tool", x.seq = m[b].seq, x.call = idx
  PROVE  LET m2 == Append(m, x)
             s2 == Append(s, Len(m) + 1)
         IN /\ b \in DOMAIN m /\ m2[b] = m[b] /\ m[b].role = "calls"
            /\ idx \in 1..Len(m[b].calls) /\ DOMAIN m[b].calls = 1..Len(m[b].calls)
            /\ \E i \in 1..Len(s) :
                 /\ s[i] = b /\ s2[i] = b /\ Len(s2) = i + idx /\ i + idx = Len(s) + 1
                 /\ ResultsFollow(m2, s2, b, i, idx)
<1>1. PICK n, m2, s2 : n = Len(m) + 1 /\ m2 = Append(m, x) /\ s2 = Append(s, n)
  OBVIOUS
<1>2. PICK L \in Nat : L = Len(s)
  OBVIOUS
<1>3. /\ DOMAIN s = 1..L /\ s2[L + 1] = n /\ m2[n] = x /\ Len(s2) = L + 1
      /\ \A i \in 1..L : s2[i] = s[i] /\ m2[s2[i]] = m[s[i]] /\ s[i] \in DOMAIN m
  BY <1>1, <1>2, TalkGrows
<1>4. PICK i \in 1..L :
        /\ s[i] = b /\ L + 1 = i + idx /\ m[b].role = "calls" /\ idx \in DOMAIN m[b].calls
        /\ ResultsFollow(m, s, b, i, idx - 1)
  BY <1>2, <1>3 DEF Answering
<1>5. b \in DOMAIN m /\ m2[b] = m[b]
  BY <1>3, <1>4
<1>6. DOMAIN m[b].calls = 1..Len(m[b].calls) /\ Len(m[b].calls) \in Nat
  <2>1. m[b] \in Node
    BY <1>5
  <2> QED
    BY <2>1, NodeCalls
<1>7. idx \in 1..Len(m[b].calls) /\ idx \in Nat
  BY <1>4, <1>6
<1>8. ASSUME NEW k \in 1..idx
      PROVE  /\ m2[s2[i + k]].role = "tool"
             /\ <<m2[s2[i + k]].seq, m2[s2[i + k]].call>> = <<m2[b].seq, k>>
  <2>1. CASE k = idx
    <3>1. m2[s2[i + k]] = x
      BY <1>3, <1>4, <2>1
    <3> QED
      BY <1>5, <2>1, <3>1
  <2>2. CASE k \in 1..(idx - 1)
    <3>1. PICK j \in 1..L : j = i + k
      <4>1. i + k \in 1..L
        BY <1>4, <1>7, <2>2
      <4> QED
        BY <4>1
    <3>2. m2[s2[i + k]] = m[s[i + k]]
      BY <1>3, <3>1
    <3> QED
      BY <1>4, <1>5, <2>2, <3>2 DEF ResultsFollow
  <2>3. k = idx \/ k \in 1..(idx - 1)
    BY <1>7
  <2> QED
    BY <2>1, <2>2, <2>3
<1>9. s[i] = b /\ s2[i] = b /\ Len(s2) = i + idx /\ i + idx = L + 1
  BY <1>3, <1>4
<1>10. ResultsFollow(m2, s2, b, i, idx)
  BY <1>8 DEF ResultsFollow
<1> QED
  BY <1>1, <1>2, <1>4, <1>5, <1>6, <1>7, <1>9, <1>10

\* A new batch waits for the result of its first call.
LEMMA AnsweringStart ==
  ASSUME NEW m \in Seq(Node), NEW s \in Seq(DOMAIN m), NEW x \in Node,
         x.role = "calls", x.calls # << >>
  PROVE  Answering(Append(m, x), Append(s, Len(m) + 1), Len(m) + 1, 1)
<1>1. PICK n, m2, s2 : n = Len(m) + 1 /\ m2 = Append(m, x) /\ s2 = Append(s, n)
  OBVIOUS
<1>2. PICK L \in Nat : L = Len(s)
  OBVIOUS
<1>3. DOMAIN s2 = 1..(L + 1) /\ s2[L + 1] = n /\ m2[n] = x /\ Len(s2) = L + 1
  BY <1>1, <1>2, TalkGrows
<1>4. 1 \in DOMAIN x.calls
  BY DEF Node
<1>5. L + 1 \in DOMAIN s2 /\ Len(s2) + 1 = (L + 1) + 1 /\ \A k \in 1..(1 - 1) : FALSE
  BY <1>3
<1> QED
  BY <1>1, <1>3, <1>4, <1>5 DEF Answering, ResultsFollow

\* A node put after a conversation leaves its first one.
LEMMA AppendFirst ==
  ASSUME NEW S, NEW s \in Seq(S), s # << >>, NEW n
  PROVE  s[1] \in S /\ Append(s, n)[1] = s[1] /\ Append(s, n) # << >>
OBVIOUS

\* The positions of the next result.
LEMMA NextResult ==
  ASSUME NEW M \in Nat, NEW D, D = 1..M, NEW L \in Nat, NEW i \in 1..L,
         NEW idx \in 1..M, idx < M
  PROVE  idx + 1 \in D /\ (i + idx) + 1 = i + (idx + 1) /\ (idx + 1) - 1 = idx
OBVIOUS

\* With one more result the batch waits for the result of its next call.
LEMMA AnsweringNext ==
  ASSUME NEW m \in Seq(Node), NEW s \in Seq(DOMAIN m), NEW x \in Node, NEW b, NEW idx,
         Answering(m, s, b, idx), x.role = "tool", x.seq = m[b].seq, x.call = idx,
         idx < Len(m[b].calls)
  PROVE  Answering(Append(m, x), Append(s, Len(m) + 1), b, idx + 1)
<1>1. PICK n, m2, s2 : n = Len(m) + 1 /\ m2 = Append(m, x) /\ s2 = Append(s, n)
  OBVIOUS
<1>2. PICK L \in Nat : L = Len(s)
  OBVIOUS
<1>3. DOMAIN s2 = 1..(L + 1)
  BY <1>1, <1>2, TalkGrows
<1>4. /\ m2[b] = m[b] /\ m[b].role = "calls"
      /\ idx \in 1..Len(m[b].calls) /\ DOMAIN m[b].calls = 1..Len(m[b].calls)
  BY <1>1, AnsweringMore
<1>5. PICK i \in 1..L :
        s2[i] = b /\ Len(s2) = i + idx /\ i + idx = L + 1 /\ ResultsFollow(m2, s2, b, i, idx)
  BY <1>1, <1>2, AnsweringMore
<1>6. Len(m[b].calls) \in Nat
  <2>1. m[b] \in Node
    <3>1. b \in DOMAIN m
      BY <1>1, AnsweringMore
    <3> QED
      BY <3>1
  <2> QED
    BY <2>1 DEF Node
<1>7. idx + 1 \in DOMAIN m[b].calls /\ Len(s2) + 1 = i + (idx + 1) /\ i \in DOMAIN s2
      /\ (idx + 1) - 1 = idx
  <2>1. PICK M \in Nat : M = Len(m[b].calls)
    BY <1>6
  <2>2. idx \in 1..M /\ DOMAIN m[b].calls = 1..M /\ idx < M
    BY <1>4, <2>1
  <2>3. Len(s2) = i + idx /\ i \in 1..L
    BY <1>5
  <2>4. PICK D : D = DOMAIN m[b].calls
    OBVIOUS
  <2>5. idx + 1 \in D /\ (i + idx) + 1 = i + (idx + 1) /\ (idx + 1) - 1 = idx
    BY <2>1, <2>2, <2>3, <2>4, NextResult
  <2>6. i \in DOMAIN s2
    BY <1>3, <2>3
  <2> QED
    BY <2>3, <2>4, <2>5, <2>6
<1> QED
  BY <1>1, <1>4, <1>5, <1>7 DEF Answering

\* With the last result the batch is answered.
LEMMA AnsweringDone ==
  ASSUME NEW m \in Seq(Node), NEW s \in Seq(DOMAIN m), NEW x \in Node, NEW b, NEW idx, NEW C,
         Answering(m, s, b, idx), x.role = "tool", x.seq = m[b].seq, x.call = idx,
         ~(idx < Len(m[b].calls)), Settled(m, s, C \cup {b}), IsInjective(s)
  PROVE  Settled(Append(m, x), Append(s, Len(m) + 1), C)
<1>1. PICK n, m2, s2 : n = Len(m) + 1 /\ m2 = Append(m, x) /\ s2 = Append(s, n)
  OBVIOUS
<1>2. PICK L \in Nat : L = Len(s)
  OBVIOUS
<1>3. PICK q2 : q2 = talk(m2, s2)
  OBVIOUS
<1>4. /\ DOMAIN s = 1..L /\ DOMAIN s2 = 1..(L + 1) /\ s2[L + 1] = n /\ n \notin DOMAIN m
      /\ Len(s2) = L + 1 /\ Len(q2) = L + 1 /\ \A i \in 1..L : s2[i] = s[i]
  BY <1>1, <1>2, <1>3, TalkGrows
<1>5. /\ b \in DOMAIN m /\ m2[b] = m[b]
      /\ idx \in 1..Len(m[b].calls) /\ DOMAIN m[b].calls = 1..Len(m[b].calls)
  BY <1>1, AnsweringMore
<1>6. PICK i \in 1..L :
        /\ s[i] = b /\ s2[i] = b /\ Len(s2) = i + idx
        /\ ResultsFollow(m2, s2, b, i, idx)
  BY <1>1, <1>2, AnsweringMore
<1>7. DOMAIN m[b].calls = 1..idx
  <2>1. m[b] \in Node
    BY <1>5
  <2>2. Len(m[b].calls) \in Nat
    BY <2>1 DEF Node
  <2>3. Len(m[b].calls) = idx
    BY <1>5, <2>2
  <2> QED
    BY <1>5, <2>3
<1>8. \A k \in DOMAIN s2 : q2[k] = m2[s2[k]]
  BY <1>3 DEF talk
<1>9. q2[i] = m[b]
  BY <1>4, <1>5, <1>6, <1>8
<1>10. answered(q2, i)
  <2>0. \A k \in 1..idx : /\ m2[s2[i + k]].role = "tool"
                          /\ <<m2[s2[i + k]].seq, m2[s2[i + k]].call>> = <<m[b].seq, k>>
    BY <1>5, <1>6 DEF ResultsFollow
  <2>1. ASSUME NEW k \in 1..idx
        PROVE  /\ i + k <= L + 1 /\ q2[i + k].role = "tool"
               /\ <<q2[i + k].seq, q2[i + k].call>> = <<m[b].seq, k>>
    <3>1. i + k \in 1..(L + 1) /\ i + k <= L + 1
      BY <1>4, <1>5, <1>6
    <3>2. q2[i + k] = m2[s2[i + k]]
      BY <1>4, <1>8, <3>1
    <3> QED
      BY <2>0, <3>1, <3>2
  <2> QED
    BY <1>4, <1>7, <1>9, <2>1 DEF answered
<1>11. Settled(m2, s2, C \cup {b})
  BY <1>1, SettledGrows
<1>12. ASSUME NEW k \in DOMAIN s2, m2[s2[k]].role = "calls", s2[k] \notin C
       PROVE  answered(q2, k)
  <2>1. CASE s2[k] = b
    <3>1. k \in 1..L
      BY <1>4, <1>5, <2>1
    <3>2. s[k] = s[i]
      BY <1>4, <1>6, <2>1, <3>1
    <3>3. k = i
      BY <1>4, <3>1, <3>2 DEF IsInjective
    <3> QED
      BY <1>10, <3>3
  <2>2. CASE s2[k] # b
    BY <1>3, <1>11, <1>12, <2>2 DEF Settled
  <2> QED
    BY <2>1, <2>2
<1> QED
  BY <1>1, <1>3, <1>12 DEF Settled

\* A result of the batch that is being answered stands in its place.
LEMMA AnsweringStands ==
  ASSUME NEW m \in Seq(Node), NEW s \in Seq(DOMAIN m), NEW b, NEW idx, Answering(m, s, b, idx)
  PROVE  HasItsBatch(m, s, m[b].seq)
<1>1. PICK L \in Nat : L = Len(s) /\ DOMAIN s = 1..L
  OBVIOUS
<1>2. PICK i \in 1..L :
        /\ s[i] = b /\ L + 1 = i + idx /\ m[b].role = "calls" /\ idx \in DOMAIN m[b].calls
        /\ \A k \in 1..(idx - 1) : m[s[i + k]].role = "tool"
  BY <1>1 DEF Answering, ResultsFollow
<1>3. m[b] \in Node
  BY <1>1, <1>2
<1>4. idx \in 1..Len(m[b].calls) /\ Len(m[b].calls) \in Nat
  BY <1>2, <1>3, NodeCalls
<1>5. L + 1 - i <= Len(m[b].calls)
  BY <1>2, <1>4
<1>6. ASSUME NEW k \in (i + 1)..L PROVE m[s[k]].role = "tool"
  <2>1. PICK j \in Nat : j = k - i
    OBVIOUS
  <2>2. j \in 1..(idx - 1) /\ i + j = k
    BY <1>2, <1>4, <2>1
  <2> QED
    BY <1>2, <2>2
<1>7. i \in DOMAIN s /\ m[s[i]].role = "calls" /\ m[s[i]].seq = m[b].seq
      /\ Len(s) + 1 - i <= Len(m[s[i]].calls)
  BY <1>1, <1>2, <1>5
<1> QED
  BY <1>1, <1>6, <1>7 DEF HasItsBatch

\* A batch that is the last node of a conversation waits for its first result.
LEMMA AnsweringLast ==
  ASSUME NEW m \in Seq(Node), NEW t \in Seq(DOMAIN m), NEW b \in DOMAIN m,
         m[b].role = "calls", m[b].calls # << >>
  PROVE  Answering(m, Append(t, b), b, 1)
<1>1. PICK L \in Nat : L = Len(t)
  OBVIOUS
<1>2. /\ DOMAIN Append(t, b) = 1..(L + 1) /\ Append(t, b)[L + 1] = b /\ Len(Append(t, b)) = L + 1
  BY <1>1, AppendPositions
<1>3. m[b] \in Node
  OBVIOUS
<1>4. 1 \in DOMAIN m[b].calls
  BY <1>3 DEF Node
<1>5. L + 1 \in 1..(L + 1) /\ (L + 1) + 1 = (L + 1) + 1 /\ \A k \in 1..(1 - 1) : FALSE
  OBVIOUS
<1> QED
  BY <1>2, <1>4, <1>5 DEF Answering, ResultsFollow

\* No batch has the ID of no node.
LEMMA SettledWithoutNone ==
  ASSUME NEW m \in Seq(Node), NEW s \in Seq(DOMAIN m), NEW C, Settled(m, s, C \cup {NoID})
  PROVE  Settled(m, s, C)
<1>1. \A i \in DOMAIN s : s[i] # NoID
  BY DEF NoID
<1> QED
  BY <1>1 DEF Settled

\* A node that is no batch need not be left out of account.
LEMMA SettledWithoutOther ==
  ASSUME NEW m, NEW s, NEW C, NEW n, Settled(m, s, C \cup {n}), m[n].role # "calls"
  PROVE  Settled(m, s, C)
BY DEF Settled

\* A node that the harness appends fits the nodes it has.
LEMMA NodesGrow ==
  ASSUME NEW m \in Seq(Node), NodesFit(m), NEW x \in Node,
         x.parent \in {NoID} \cup DOMAIN m, x.parent = NoID => x.role = "system",
         x.role = "calls" => x.calls # << >>,
         x.role = "tool" => HasItsBatch(m, lineageIn(m)[x.parent], x.seq)
  PROVE  LET m2 == Append(m, x)
             n == Len(m) + 1
         IN /\ NodesFit(m2) /\ Extends(m2, m) /\ n \in DOMAIN m2 /\ m2[n] = x
            /\ lineageIn(m)[x.parent] \in Seq(DOMAIN m) /\ IsInjective(lineageIn(m)[x.parent])
            /\ lineageIn(m2)[n] = Append(lineageIn(m)[x.parent], n)
            /\ \A k \in {NoID} \cup DOMAIN m : lineageIn(m2)[k] = lineageIn(m)[k]
<1>1. PICK n \in Nat, m2 \in Seq(Node) : n = Len(m) + 1 /\ m2 = Append(m, x)
  <2>1. Append(m, x) \in Seq(Node) /\ Len(m) + 1 \in Nat
    OBVIOUS
  <2> QED
    BY <2>1
<1>2. /\ Extends(m2, m) /\ m2[n] = x /\ DOMAIN m2 = DOMAIN m \cup {n} /\ n \notin DOMAIN m
      /\ \A k \in DOMAIN m : m2[k] = m[k]
  BY <1>1, Appended DEF Extends
<1>3. PICK s : s = lineageIn(m)[x.parent]
  OBVIOUS
<1>4. Rooted(m) /\ s \in Seq(DOMAIN m) /\ IsInjective(s)
  BY <1>3, NodesAreRooted, LineageRows
<1>5. x.parent < n
  <2>1. x.parent = NoID \/ x.parent \in 1..Len(m)
    OBVIOUS
  <2> QED
    BY <1>1, <2>1 DEF NoID
<1>6. Rooted(m2)
  BY <1>2, <1>4, <1>5 DEF Rooted
<1>7. \A k \in {NoID} \cup DOMAIN m : lineageIn(m2)[k] = lineageIn(m)[k]
  BY <1>2, <1>4, <1>6, LineagesStay
<1>8. lineageIn(m2)[n] = Append(s, n)
  <2>0. \A k \in DOMAIN m2 : lineageIn(m2)[k] = Append(lineageIn(m2)[m2[k].parent], k)
    BY <1>6, LineageRows
  <2>1. lineageIn(m2)[n] = Append(lineageIn(m2)[m2[n].parent], n)
    BY <1>2, <2>0
  <2>2. lineageIn(m2)[x.parent] = s
    BY <1>3, <1>7
  <2> QED
    BY <1>2, <2>1, <2>2
<1>9. ASSUME NEW k \in DOMAIN m
      PROVE  /\ Placed(m2, k)
             /\ lineageIn(m2)[k] # << >> /\ m2[lineageIn(m2)[k][1]].role = "system"
             /\ ResultsStand(m2, lineageIn(m2)[k])
  <2>1. Placed(m, k) /\ m2[k] = m[k]
    BY <1>2 DEF NodesFit
  <2>2. PICK t : t = lineageIn(m)[k] /\ t \in Seq(DOMAIN m) /\ t = lineageIn(m2)[k]
    BY <1>4, <1>7, LineageRows
  <2>3. t # << >> /\ m[t[1]].role = "system" /\ ResultsStand(m, t)
    BY <2>2 DEF NodesFit
  <2>4. t[1] \in DOMAIN m
    BY <2>2, <2>3
  <2>5. ResultsStand(m2, t)
    BY <1>2, <2>2, <2>3, TalkStays
  <2> QED
    BY <1>2, <2>1, <2>2, <2>3, <2>4, <2>5 DEF Placed
<1>10. Placed(m2, n)
  BY <1>2, <1>5 DEF Placed
<1>11. PICK s2 : s2 = Append(s, n)
  OBVIOUS
<1>12. s2 # << >> /\ m2[s2[1]].role = "system"
  <2>1. CASE x.parent = NoID
    <3>1. s = << >>
      BY <1>3, <1>4, <2>1, LineageRows
    <3>2. s2[1] = n /\ s2 # << >>
      BY <1>11, <3>1
    <3> QED
      BY <1>2, <2>1, <3>2
  <2>2. CASE x.parent \in DOMAIN m
    <3>1. s # << >> /\ m[s[1]].role = "system"
      BY <1>3, <2>2 DEF NodesFit
    <3>2. s[1] \in DOMAIN m /\ s2[1] = s[1] /\ s2 # << >>
      BY <1>4, <1>11, <3>1, AppendFirst
    <3> QED
      BY <1>2, <3>1, <3>2
  <2> QED
    BY <2>1, <2>2
<1>13. ResultsStand(m2, s2)
  <2>1. ResultsStand(m, s)
    <3>1. CASE x.parent = NoID
      <4>1. s = << >>
        BY <1>3, <1>4, <3>1, LineageRows
      <4> QED
        BY <4>1 DEF ResultsStand, talk
    <3>2. CASE x.parent \in DOMAIN m
      BY <1>3, <3>2 DEF NodesFit
    <3> QED
      BY <3>1, <3>2
  <2> QED
    BY <1>1, <1>3, <1>4, <1>11, <2>1, ResultsGrow
<1>14. NodesFit(m2)
  BY <1>2, <1>8, <1>9, <1>10, <1>11, <1>12, <1>13 DEF NodesFit
<1> QED
  BY <1>1, <1>2, <1>3, <1>4, <1>7, <1>8, <1>14

-----------------------------------------------------------------------------
(* An append of the loop *)

\* appendNode, with the node x and the control state h after it.
AppendsNode(p, role, calls, seq, call, then, x, h) ==
  /\ x.parent = proc[p].head /\ x.role = role /\ x.calls = calls /\ x.seq = seq /\ x.call = call
  /\ Len(made) + 1 <= MaxNodes /\ made' = Append(made, x)
  /\ proc' = [proc EXCEPT ![p] = h]
  /\ h.pc = "write" /\ h.next = then.pc /\ h.head = Len(made) + 1
  /\ h.closed = proc[p].closed /\ h.graph = proc[p].graph \cup {Len(made) + 1}
  /\ h.batch = then.batch /\ h.idx = then.idx /\ h.step = then.step
  /\ h.callSeq = then.callSeq /\ h.arriving = then.arriving

\* What appendNode does.
LEMMA AppendNode ==
  ASSUME made \in Seq(Node), NEW p \in Process, proc[p] \in Running,
         NEW role \in {"user", "assistant", "calls", "tool"},
         NEW calls \in Seq({"tool", "teleport"}), NEW seq \in Nat, NEW call \in Nat,
         NEW then \in Running, appendNode(p, role, calls, seq, call, then),
         then.graph = proc[p].graph, then.closed = proc[p].closed,
         then.pc \in {"arrival", "prompt", "infer", "tools", "spawn"}
  PROVE  \E x \in Node, h \in Running : AppendsNode(p, role, calls, seq, call, then, x, h)
<1>1. PICK n \in Nat : n = Len(made) + 1
  OBVIOUS
<1>2. n \in 1..MaxNodes /\ n \in 0..MaxNodes /\ n <= MaxNodes
  BY <1>1, LoopAssumption DEF appendNode
<1>3. PICK g \in Running : g = proc[p]
  OBVIOUS
<1>4. PICK x : x = node(g.head, role, calls, seq, call)
  OBVIOUS
<1>5. x \in Node /\ x.parent = g.head /\ x.role = role /\ x.calls = calls
      /\ x.seq = seq /\ x.call = call
  BY <1>4 DEF node, Node, Running
<1>6. PICK G \in SUBSET (1..MaxNodes) : G = then.graph \cup {n}
  BY <1>2 DEF Running
<1>7. PICK h : h = [then EXCEPT !.graph = G, !.head = n, !.next = then.pc, !.pc = "write"]
  OBVIOUS
<1>8. made' = Append(made, x) /\ proc' = [proc EXCEPT ![p] = h]
  BY <1>1, <1>3, <1>4, <1>6, <1>7 DEF appendNode
<1>9. h \in Running
  BY <1>2, <1>6, <1>7 DEF Running
<1>10. /\ h.pc = "write" /\ h.next = then.pc /\ h.head = n /\ h.graph = G
       /\ h.closed = then.closed /\ h.batch = then.batch /\ h.idx = then.idx /\ h.step = then.step
       /\ h.callSeq = then.callSeq /\ h.arriving = then.arriving
  BY <1>7 DEF Running
<1> QED
  BY <1>1, <1>2, <1>3, <1>5, <1>6, <1>8, <1>9, <1>10 DEF AppendsNode

\* The conversation of a process after a node was appended at its head.
LEMMA AfterAppend ==
  ASSUME made \in Seq(Node), NodesFit(made), NEW p \in Process,
         proc[p].head \in DOMAIN made, NEW x \in Node, x.parent = proc[p].head,
         made' = Append(made, x), x.role = "calls" => x.calls # << >>,
         x.role = "tool" => HasItsBatch(made, lineageIn(made)[x.parent], x.seq)
  PROVE  /\ lineageIn(made')[Len(made) + 1] = Append(lineageIn(made)[proc[p].head], Len(made) + 1)
         /\ made'[Len(made) + 1] = x /\ Len(made') = Len(made) + 1
         /\ \A n \in DOMAIN made : made'[n] = made[n]
<1>1. /\ x.parent \in {NoID} \cup DOMAIN made
      /\ x.parent = NoID => x.role = "system"
  BY DEF NoID
<1>2. /\ lineageIn(made')[Len(made) + 1] = Append(lineageIn(made)[x.parent], Len(made) + 1)
      /\ made'[Len(made) + 1] = x /\ Extends(made', made)
  BY <1>1, NodesGrow
<1>3. Len(made') = Len(made) + 1
  OBVIOUS
<1> QED
  BY <1>2, <1>3 DEF Extends

-----------------------------------------------------------------------------
(* The loop goes on with a conversation that holds *)

\* A process at a head, with its conversation.
Talking(p) ==
  /\ made \in Seq(Node) /\ NodesFit(made)
  /\ proc[p] \in Running /\ proc[p].head \in DOMAIN made
  /\ TalkHolds(proc[p], made, cut)

\* p has appended x and goes on at h, with a conversation that holds.
Continues(p, x, h) ==
  /\ x.parent = proc[p].head /\ Len(made) + 1 <= MaxNodes /\ made' = Append(made, x)
  /\ x.role = "calls" => x.calls # << >>
  /\ x.role = "tool" => HasItsBatch(made, lineageIn(made)[x.parent], x.seq)
  /\ proc' = [proc EXCEPT ![p] = h]
  /\ h.pc = "write" /\ h.head = Len(made) + 1
  /\ h.closed = proc[p].closed /\ h.graph = proc[p].graph \cup {Len(made) + 1}
  /\ TalkHolds(h, made', cut')

\* What is known of such a process.
LEMMA TalkingFacts ==
  ASSUME NEW p \in Process, Talking(p)
  PROVE  /\ lineageIn(made)[proc[p].head] \in Seq(DOMAIN made)
         /\ IsInjective(lineageIn(made)[proc[p].head])
         /\ Len(made) \in Nat /\ DOMAIN made = 1..Len(made)
<1>1. Rooted(made)
  BY NodesAreRooted DEF Talking
<1> QED
  BY <1>1, LineageRows DEF Talking

\* handleTurn goes on after a settled conversation with a user message.
LEMMA TurnContinues ==
  ASSUME NEW p \in Process, Talking(p), handleTurn(p), canAppend(p)
  PROVE  \E x \in Node, h \in Running :
           /\ Continues(p, x, h) /\ x.role = "user"
           /\ h.next = "infer" /\ h.batch = proc[p].batch
<1>1. PICK g \in Running : g = proc[p] /\ g.pc = "prompt" /\ g.head \in DOMAIN made
  BY DEF Talking, handleTurn
<1>2. PICK then \in Running : then = [g EXCEPT !.pc = "infer", !.step = 0]
  <2>1. 0 \in 0..maxToolSteps
    BY LoopAssumption
  <2> QED
    BY <2>1 DEF Running
<1>3. appendNode(p, "user", << >>, 0, 0, then) /\ cut' = cut
  BY <1>1, <1>2 DEF handleTurn
<1>4. then.graph = g.graph /\ then.closed = g.closed /\ then.pc = "infer" /\ then.batch = g.batch
  BY <1>2 DEF Running
<1>5. << >> \in Seq({"tool", "teleport"}) /\ 0 \in Nat /\ made \in Seq(Node) /\ NodesFit(made)
  BY DEF Talking
<1>6. PICK x \in Node, h \in Running : AppendsNode(p, "user", << >>, 0, 0, then, x, h)
  BY <1>1, <1>3, <1>4, <1>5, AppendNode
<1>7. /\ x.parent = g.head /\ x.role = "user"
      /\ Len(made) + 1 <= MaxNodes /\ made' = Append(made, x) /\ proc' = [proc EXCEPT ![p] = h]
      /\ h.pc = "write" /\ h.next = "infer" /\ h.head = Len(made) + 1
      /\ h.closed = g.closed /\ h.graph = g.graph \cup {Len(made) + 1} /\ h.batch = g.batch
  BY <1>1, <1>4, <1>6 DEF AppendsNode
<1>8. lineageIn(made')[h.head] = Append(lineageIn(made)[g.head], h.head)
  BY <1>1, <1>5, <1>7, AfterAppend
<1>9. Settled(made, lineageIn(made)[g.head], cut)
  BY <1>1 DEF Talking, TalkHolds, stage
<1>10. Settled(made', lineageIn(made')[h.head], cut')
  BY <1>1, <1>3, <1>5, <1>7, <1>8, <1>9, TalkingFacts, SettledGrows
<1>11. TalkHolds(h, made', cut')
  BY <1>7, <1>10 DEF TalkHolds, stage
<1> QED
  BY <1>1, <1>7, <1>11 DEF Continues

\* finalAnswer goes on after a settled conversation with a message of the model.
LEMMA AnswerContinues ==
  ASSUME NEW p \in Process, Talking(p), finalAnswer(p)
  PROVE  \E x \in Node, h \in Running :
           /\ Continues(p, x, h) /\ x.role = "assistant"
           /\ h.next = "prompt" /\ h.batch = proc[p].batch
<1>1. PICK g \in Running : g = proc[p] /\ g.pc = "infer" /\ g.head \in DOMAIN made
  BY DEF Talking, finalAnswer, canInfer
<1>2. PICK then \in Running : then = [g EXCEPT !.pc = "prompt"]
  BY DEF Running
<1>3. appendNode(p, "assistant", << >>, 0, 0, then) /\ cut' = cut
  BY <1>1, <1>2 DEF finalAnswer
<1>4. then.graph = g.graph /\ then.closed = g.closed /\ then.pc = "prompt" /\ then.batch = g.batch
  BY <1>2 DEF Running
<1>5. << >> \in Seq({"tool", "teleport"}) /\ 0 \in Nat /\ made \in Seq(Node) /\ NodesFit(made)
  BY DEF Talking
<1>6. PICK x \in Node, h \in Running : AppendsNode(p, "assistant", << >>, 0, 0, then, x, h)
  BY <1>1, <1>3, <1>4, <1>5, AppendNode
<1>7. /\ x.parent = g.head /\ x.role = "assistant"
      /\ Len(made) + 1 <= MaxNodes /\ made' = Append(made, x) /\ proc' = [proc EXCEPT ![p] = h]
      /\ h.pc = "write" /\ h.next = "prompt" /\ h.head = Len(made) + 1
      /\ h.closed = g.closed /\ h.graph = g.graph \cup {Len(made) + 1} /\ h.batch = g.batch
  BY <1>1, <1>4, <1>6 DEF AppendsNode
<1>8. lineageIn(made')[h.head] = Append(lineageIn(made)[g.head], h.head)
  BY <1>1, <1>5, <1>7, AfterAppend
<1>9. Settled(made, lineageIn(made)[g.head], cut)
  BY <1>1 DEF Talking, TalkHolds, stage
<1>10. Settled(made', lineageIn(made')[h.head], cut')
  BY <1>1, <1>3, <1>5, <1>7, <1>8, <1>9, TalkingFacts, SettledGrows
<1>11. TalkHolds(h, made', cut')
  BY <1>7, <1>10 DEF TalkHolds, stage
<1> QED
  BY <1>1, <1>7, <1>11 DEF Continues

\* toolCalls goes on after a settled conversation with a batch that waits for its
\* first result.
LEMMA CallsContinue ==
  ASSUME NEW p \in Process, Talking(p), NEW calls \in Batch, toolCalls(p, calls)
  PROVE  \E x \in Node, h \in Running :
           /\ Continues(p, x, h) /\ x.role = "calls" /\ x.calls = calls
           /\ h.next = IF "teleport" \in ToSet(calls) THEN "spawn" ELSE "tools"
           /\ h.batch = h.head /\ h.idx = 1 /\ h.step = proc[p].step /\ h.callSeq = x.seq
<1>1. PICK g \in Running : g = proc[p] /\ g.pc = "infer" /\ g.head \in DOMAIN made
  BY DEF Talking, toolCalls, canInfer
<1>2. calls \in Seq({"tool", "teleport"}) /\ calls # << >> /\ made \in Seq(Node) /\ NodesFit(made)
      /\ 0 \in Nat /\ "calls" \in {"user", "assistant", "calls", "tool"}
  BY LoopAssumption DEF Talking
<1>3. PICK n \in 0..MaxNodes : n = Len(made) + 1
  <2>1. Len(made) + 1 <= MaxNodes
    BY DEF toolCalls, appendNode
  <2> QED
    BY <2>1, TalkingFacts, LoopAssumption
<1>4. PICK pc \in {"spawn", "tools"} : pc = IF "teleport" \in ToSet(calls) THEN "spawn" ELSE "tools"
  OBVIOUS
<1>5. PICK seq \in Nat : seq = g.callSeq + 1
  BY DEF Running
<1>6. PICK then : then = [g EXCEPT !.pc = pc, !.callSeq = seq, !.batch = n, !.idx = 1]
  OBVIOUS
<1>7. then \in Running
  BY <1>6 DEF Running
<1>8. /\ then.graph = g.graph /\ then.closed = g.closed /\ then.pc = pc /\ then.batch = n
      /\ then.idx = 1 /\ then.callSeq = seq /\ then.step = g.step
  BY <1>6 DEF Running
<1>9. appendNode(p, "calls", calls, seq, 0, then) /\ cut' = cut
  BY <1>1, <1>3, <1>4, <1>5, <1>6 DEF toolCalls
<1>10. PICK x \in Node, h \in Running : AppendsNode(p, "calls", calls, seq, 0, then, x, h)
  BY <1>1, <1>2, <1>7, <1>8, <1>9, AppendNode
<1>11. /\ x.parent = g.head /\ x.role = "calls" /\ x.calls = calls /\ x.seq = seq
       /\ Len(made) + 1 <= MaxNodes /\ made' = Append(made, x) /\ proc' = [proc EXCEPT ![p] = h]
       /\ h.pc = "write" /\ h.next = pc /\ h.head = n
       /\ h.closed = g.closed /\ h.graph = g.graph \cup {n} /\ h.batch = n
       /\ h.idx = 1 /\ h.step = g.step /\ h.callSeq = seq
  BY <1>1, <1>3, <1>8, <1>10 DEF AppendsNode
<1>12. lineageIn(made')[n] = Append(lineageIn(made)[g.head], n)
  BY <1>1, <1>2, <1>3, <1>11, AfterAppend
<1>13. PICK s \in Seq(DOMAIN made) : s = lineageIn(made)[g.head]
  BY <1>1, TalkingFacts
<1>14. Settled(made', lineageIn(made')[n], cut' \cup {n})
  <2>1. Settled(made, s, cut) /\ cut \subseteq cut \cup {n} /\ Len(made) + 1 \in cut \cup {n}
    BY <1>1, <1>3, <1>13 DEF Talking, TalkHolds, stage
  <2>2. Settled(Append(made, x), Append(s, Len(made) + 1), cut \cup {n})
    BY <1>2, <2>1, SettledGrows
  <2> QED
    BY <1>3, <1>9, <1>11, <1>12, <1>13, <2>2
<1>15. Answering(made', lineageIn(made')[n], n, 1)
  BY <1>2, <1>3, <1>11, <1>12, <1>13, AnsweringStart
<1>16. TalkHolds(h, made', cut')
  BY <1>11, <1>14, <1>15 DEF TalkHolds, stage
<1> QED
  BY <1>1, <1>2, <1>3, <1>4, <1>11, <1>16 DEF Continues

\* The result of a call goes on after the results before it, with the next call or,
\* after the last one, with a settled conversation.
LEMMA ResultContinues ==
  ASSUME NEW p \in Process, Talking(p), proc[p].pc \in {"tools", "arrival"},
         NEW step \in 0..maxToolSteps,
         appendNode(p, "tool", << >>, made[proc[p].batch].seq, proc[p].idx, afterResult(p, step)),
         cut' = cut
  PROVE  \E x \in Node, h \in Running :
           /\ Continues(p, x, h) /\ x.role = "tool"
           /\ h.next \in {proc[p].pc, "infer"} /\ h.batch = proc[p].batch
           /\ h.next = proc[p].pc => h.step = proc[p].step /\ h.callSeq = proc[p].callSeq
<1>1. PICK g \in Running : g = proc[p] /\ g.pc \in {"tools", "arrival"} /\ g.head \in DOMAIN made
  BY DEF Talking
<1>2. PICK s \in Seq(DOMAIN made) : s = lineageIn(made)[g.head] /\ IsInjective(s)
  BY <1>1, TalkingFacts
<1>3. /\ made \in Seq(Node) /\ NodesFit(made)
      /\ Settled(made, s, cut \cup {g.batch}) /\ Answering(made, s, g.batch, g.idx)
  BY <1>1, <1>2 DEF Talking, TalkHolds, stage
<1>4. PICK b \in DOMAIN made : b = g.batch
  BY <1>3 DEF Answering
<1>5. made[b] \in Node
  BY <1>3
<1>6. PICK seq \in Nat, idx \in Nat : seq = made[b].seq /\ idx = g.idx
  BY <1>5 DEF Node, Running
<1>7. PICK then : then = afterResult(p, step)
  OBVIOUS
<1> DEFINE more == idx < Len(made[b].calls)
<1>8. /\ then \in Running /\ then.graph = g.graph /\ then.closed = g.closed /\ then.batch = b
      /\ more => /\ then.pc = g.pc /\ then.idx = idx + 1 /\ then.step = g.step
                 /\ then.callSeq = g.callSeq
      /\ ~more => then.pc = "infer"
  <2>1. CASE more
    <3>1. PICK j \in Nat : j = idx + 1
      OBVIOUS
    <3>2. then = [g EXCEPT !.idx = j]
      BY <1>1, <1>4, <1>6, <1>7, <2>1, <3>1 DEF afterResult
    <3>3. then \in Running
      BY <3>2 DEF Running
    <3>4. /\ then.graph = g.graph /\ then.closed = g.closed /\ then.batch = g.batch
          /\ then.pc = g.pc /\ then.idx = j /\ then.step = g.step /\ then.callSeq = g.callSeq
      BY <3>2 DEF Running
    <3> QED
      BY <1>4, <2>1, <3>1, <3>3, <3>4
  <2>2. CASE ~more
    <3>1. then = [g EXCEPT !.pc = "infer", !.step = step]
      BY <1>1, <1>4, <1>6, <1>7, <2>2 DEF afterResult
    <3>2. then \in Running
      BY <3>1 DEF Running
    <3>3. /\ then.graph = g.graph /\ then.closed = g.closed /\ then.batch = g.batch
          /\ then.pc = "infer"
      BY <3>1 DEF Running
    <3> QED
      BY <1>4, <2>2, <3>2, <3>3
  <2> QED
    BY <2>1, <2>2
<1>9. << >> \in Seq({"tool", "teleport"})
  OBVIOUS
<1>10. appendNode(p, "tool", << >>, seq, idx, then)
  BY <1>1, <1>4, <1>6, <1>7
<1> HIDE DEF more
<1>11. then.pc \in {g.pc, "infer"} /\ then.pc \in {"arrival", "infer", "tools"}
       /\ (then.pc = g.pc => then.step = g.step /\ then.callSeq = g.callSeq)
  BY <1>1, <1>8
<1>12. PICK x \in Node, h \in Running : AppendsNode(p, "tool", << >>, seq, idx, then, x, h)
  BY <1>1, <1>3, <1>8, <1>9, <1>10, <1>11, AppendNode
<1>13. PICK n \in Nat : n = Len(made) + 1
  BY TalkingFacts
<1>14. /\ x.parent = g.head /\ x.role = "tool" /\ x.seq = seq /\ x.call = idx
       /\ Len(made) + 1 <= MaxNodes /\ made' = Append(made, x) /\ proc' = [proc EXCEPT ![p] = h]
       /\ h.pc = "write" /\ h.next = then.pc /\ h.head = n
       /\ h.closed = g.closed /\ h.graph = g.graph \cup {n} /\ h.batch = b
       /\ h.idx = then.idx /\ h.step = then.step /\ h.callSeq = then.callSeq
  BY <1>1, <1>8, <1>12, <1>13 DEF AppendsNode
<1>15. Answering(made, s, b, idx) /\ Settled(made, s, cut \cup {b})
       /\ x.role = "tool" /\ x.seq = made[b].seq /\ x.call = idx
  BY <1>3, <1>4, <1>6, <1>14
<1>16. HasItsBatch(made, s, made[b].seq)
  BY <1>3, <1>15, AnsweringStands
<1>17. HasItsBatch(made, lineageIn(made)[x.parent], x.seq)
  BY <1>2, <1>14, <1>15, <1>16
<1>18. lineageIn(made')[n] = Append(s, n)
  BY <1>1, <1>2, <1>3, <1>13, <1>14, <1>17, AfterAppend
<1>19. TalkHolds(h, made', cut')
  <2>0. PICK s2 : s2 = lineageIn(made')[h.head] /\ s2 = Append(s, Len(made) + 1)
    BY <1>13, <1>14, <1>18
  <2>1. CASE more
    <3>1. Answering(made', s2, b, idx + 1)
      <4>1. Answering(Append(made, x), Append(s, Len(made) + 1), b, idx + 1)
        BY <1>3, <1>15, <2>1, AnsweringNext DEF more
      <4> QED
        BY <1>14, <2>0, <4>1
    <3>2. Settled(made', s2, cut' \cup {b})
      <4>1. x.role # "calls" /\ cut \cup {b} \subseteq cut \cup {b}
        BY <1>15
      <4>2. Settled(Append(made, x), Append(s, Len(made) + 1), cut \cup {b})
        BY <1>3, <1>15, <4>1, SettledGrows
      <4> QED
        BY <1>14, <2>0, <4>2
    <3>3. stage(h) \in {"tools", "arrival"} /\ h.idx = idx + 1
      BY <1>1, <1>8, <1>14, <2>1 DEF stage
    <3> QED
      BY <1>14, <2>0, <3>1, <3>2, <3>3 DEF TalkHolds
  <2>2. CASE ~more
    <3>1. Settled(made', s2, cut')
      <4>1. Settled(Append(made, x), Append(s, Len(made) + 1), cut)
        BY <1>2, <1>3, <1>15, <2>2, AnsweringDone DEF more
      <4> QED
        BY <1>14, <2>0, <4>1
    <3>2. stage(h) = "infer"
      BY <1>8, <1>14, <2>2 DEF stage
    <3> QED
      BY <2>0, <3>1, <3>2 DEF TalkHolds
  <2> QED
    BY <2>1, <2>2
<1> QED
  BY <1>1, <1>4, <1>11, <1>13, <1>14, <1>17, <1>19 DEF Continues

\* The error result of a teleport answers a batch of one call; of another batch the
\* answering is broken off.
LEMMA SpawnContinues ==
  ASSUME NEW p \in Process, Talking(p), spawnFails(p), proc[p].idx = 1,
         proc[p].callSeq = made[proc[p].batch].seq, proc[p].step < maxToolSteps,
         "teleport" \in ToSet(made[proc[p].batch].calls)
  PROVE  \E x \in Node, h \in Running :
           /\ Continues(p, x, h) /\ x.role = "tool"
           /\ h.next = "infer" /\ h.batch = proc[p].batch
           /\ cut \subseteq cut' /\ cut' \subseteq cut \cup {proc[p].batch}
           /\ proc[p].batch \in DOMAIN made
<1>1. PICK g \in Running : g = proc[p] /\ g.pc = "spawn" /\ g.head \in DOMAIN made
  BY DEF Talking, spawnFails
<1>2. PICK s \in Seq(DOMAIN made) : s = lineageIn(made)[g.head] /\ IsInjective(s)
  BY <1>1, TalkingFacts
<1>3. /\ made \in Seq(Node) /\ NodesFit(made)
      /\ Settled(made, s, cut \cup {g.batch}) /\ Answering(made, s, g.batch, 1)
  BY <1>1, <1>2 DEF Talking, TalkHolds, stage
<1>4. PICK b \in DOMAIN made : b = g.batch
  BY <1>3 DEF Answering
<1>0. made[b] \in Node
  BY <1>3
<1>5. PICK calls \in Seq({"tool", "teleport"}) : calls = made[b].calls
  BY <1>0 DEF Node
<1>6. PICK seq \in Nat : seq = made[b].seq /\ seq = g.callSeq
  BY <1>0, <1>1, <1>4 DEF Node
<1> DEFINE first(k) == calls[k] = "teleport" /\ \A j \in 1..(k - 1) : calls[j] # "teleport"
<1>7. \E k \in DOMAIN calls : first(k)
  <2> DEFINE K == {k \in 1..Len(calls) : calls[k] = "teleport"}
  <2>1. DOMAIN calls = 1..Len(calls) /\ Len(calls) \in Nat /\ K \in SUBSET Nat
    OBVIOUS
  <2>2. K # {}
    <3>1. "teleport" \in ToSet(calls)
      BY <1>1, <1>4, <1>5
    <3> QED
      BY <3>1, ToSetMember
  <2>3. PICK k \in K : \A j \in K : k <= j
    BY <2>1, <2>2, LeastNumber
  <2>4. ASSUME NEW j \in 1..(k - 1) PROVE calls[j] # "teleport"
    BY <2>1, <2>3
  <2> QED
    BY <2>1, <2>3, <2>4
<1>8. PICK i \in DOMAIN calls : i = CHOOSE k \in DOMAIN calls : first(k)
  BY <1>7
<1>9. /\ i \in 1..Len(calls) /\ i \in Nat /\ Len(calls) \in Nat
      /\ << >> \in Seq({"tool", "teleport"}) /\ "tool" \in {"user", "assistant", "calls", "tool"}
  OBVIOUS
<1>10. PICK step \in 0..maxToolSteps : step = g.step + 1
  BY <1>1, LoopAssumption DEF Running
<1>11. PICK then : then = [g EXCEPT !.pc = "infer", !.step = step]
  OBVIOUS
<1>12. appendNode(p, "tool", << >>, seq, i, then)
  BY <1>1, <1>4, <1>5, <1>6, <1>8, <1>10, <1>11 DEF spawnFails
<1>13. cut' = (IF Len(calls) > 1 THEN cut \cup {b} ELSE cut)
  BY <1>1, <1>4, <1>5 DEF spawnFails
<1> HIDE DEF first
<1>14. /\ then \in Running /\ then.pc = "infer" /\ then.batch = b
       /\ then.graph = g.graph /\ then.closed = g.closed
  BY <1>4, <1>11 DEF Running
<1>15. PICK x \in Node, h \in Running : AppendsNode(p, "tool", << >>, seq, i, then, x, h)
  BY <1>1, <1>3, <1>9, <1>12, <1>14, AppendNode
<1>16. PICK n \in Nat : n = Len(made) + 1
  BY TalkingFacts
<1>17. /\ x.parent = g.head /\ x.role = "tool" /\ x.seq = seq /\ x.call = i
       /\ Len(made) + 1 <= MaxNodes /\ made' = Append(made, x) /\ proc' = [proc EXCEPT ![p] = h]
       /\ h.pc = "write" /\ h.next = "infer" /\ h.head = n
       /\ h.closed = g.closed /\ h.graph = g.graph \cup {n} /\ h.batch = b
  BY <1>1, <1>14, <1>15, <1>16 DEF AppendsNode
<1>18. Settled(made, s, cut \cup {b}) /\ Answering(made, s, b, 1)
  BY <1>3, <1>4
<1>19. HasItsBatch(made, s, made[b].seq)
  BY <1>3, <1>18, AnsweringStands
<1>20. HasItsBatch(made, lineageIn(made)[x.parent], x.seq)
  BY <1>2, <1>6, <1>17, <1>19
<1>21. lineageIn(made')[n] = Append(s, n)
  BY <1>1, <1>2, <1>3, <1>16, <1>17, <1>20, AfterAppend
<1>22. Settled(Append(made, x), Append(s, Len(made) + 1), cut')
  <2>1. CASE Len(calls) > 1
    <3>1. x.role # "calls" /\ cut \cup {b} \subseteq cut \cup {b}
      BY <1>17
    <3>2. Settled(Append(made, x), Append(s, Len(made) + 1), cut \cup {b})
      BY <1>3, <1>18, <3>1, SettledGrows
    <3> QED
      BY <1>13, <2>1, <3>2
  <2>2. CASE ~(Len(calls) > 1)
    <3>1. i = 1 /\ ~(1 < Len(calls))
      BY <1>9, <2>2
    <3>2. x.role = "tool" /\ x.seq = made[b].seq /\ x.call = 1 /\ ~(1 < Len(made[b].calls))
      BY <1>5, <1>6, <1>17, <3>1
    <3>3. Settled(Append(made, x), Append(s, Len(made) + 1), cut)
      BY <1>2, <1>3, <1>18, <3>2, AnsweringDone
    <3> QED
      BY <1>13, <2>2, <3>3
  <2> QED
    BY <2>1, <2>2
<1>23. TalkHolds(h, made', cut')
  BY <1>16, <1>17, <1>21, <1>22 DEF TalkHolds, stage
<1> QED
  BY <1>1, <1>4, <1>13, <1>16, <1>17, <1>20, <1>23 DEF Continues

\* A process that can go on with its inference sends a conversation that is whole.
LEMMA WellFormedConversation ==
  ASSUME made \in Seq(Node), NodesFit(made),
         \A p \in Process : canInfer(p) =>
           proc[p].head \in DOMAIN made /\ Settled(made, lineageIn(made)[proc[p].head], cut)
  PROVE  ConversationIsWellFormed
<1> SUFFICES ASSUME NEW p \in Process, canInfer(p)
             PROVE  LET q == toOllamaMessages(p)
                        path == lineage[proc[p].head]
                    IN /\ q[1].role = "system"
                       /\ \A i \in DOMAIN q :
                            q[i].role = "calls" /\ path[i] \notin cut => answered(q, i)
                       /\ \A i \in DOMAIN q :
                            q[i].role = "tool" =>
                              \E j \in 1..(i - 1) :
                                /\ q[j].role = "calls" /\ q[j].seq = q[i].seq
                                /\ i - j <= Len(q[j].calls)
                                /\ \A k \in (j + 1)..i : q[k].role = "tool"
  BY DEF ConversationIsWellFormed
<1>1. Rooted(made) /\ proc[p].head \in DOMAIN made
  BY NodesAreRooted
<1>2. PICK s \in Seq(DOMAIN made) : s = lineageIn(made)[proc[p].head]
  BY <1>1, LineageRows
<1>3. s = lineage[proc[p].head]
  BY <1>2, LineageIsLineage
<1>4. PICK q : q = talk(made, s)
  OBVIOUS
<1>5. toOllamaMessages(p) = q
  BY <1>3, <1>4 DEF toOllamaMessages, talk
<1>6. s # << >> /\ made[s[1]].role = "system" /\ ResultsStand(made, s)
  BY <1>1, <1>2 DEF NodesFit
<1>7. Settled(made, s, cut)
  BY <1>2
<1>8. DOMAIN q = DOMAIN s /\ \A i \in DOMAIN s : q[i] = made[s[i]]
  BY <1>4 DEF talk
<1>9. 1 \in DOMAIN s
  BY <1>6
<1>10. q[1].role = "system"
  BY <1>6, <1>8, <1>9
<1>11. \A i \in DOMAIN q : q[i].role = "calls" /\ s[i] \notin cut => answered(q, i)
  BY <1>4, <1>7, <1>8 DEF Settled
<1>12. \A i \in DOMAIN q :
         q[i].role = "tool" =>
           \E j \in 1..(i - 1) :
             /\ q[j].role = "calls" /\ q[j].seq = q[i].seq
             /\ i - j <= Len(q[j].calls)
             /\ \A k \in (j + 1)..i : q[k].role = "tool"
  BY <1>4, <1>6 DEF ResultsStand
<1> QED
  BY <1>3, <1>5, <1>10, <1>11, <1>12

=============================================================================
