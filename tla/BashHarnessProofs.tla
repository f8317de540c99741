-------------------------- MODULE BashHarnessProofs --------------------------
(***************************************************************************)
(* The session of sgp-harness-bash stays one conversation that can be      *)
(* taken up and sent to the model, for every number of processes, starts,  *)
(* turns, tool calls and failing writes.                                   *)
(*                                                                         *)
(* The argument: one process at a time has the store open, and knows what  *)
(* is in it.  A batch whose answers are not complete is the one that this  *)
(* process is answering, or it is the head of the store, where an arrival  *)
(* takes it up, or answering it was broken off.                            *)
(***************************************************************************)
EXTENDS BashHarness, HarnessLoopProofs

-----------------------------------------------------------------------------
(* The inductive invariant *)

\* A process at work on the nodes m, with the session st in its store.
WorkHolds(h, m, st) ==
  /\ st.exists
  /\ h.head <= Len(m) /\ h.batch <= Len(m)
  /\ h.pc \in {"tools", "spawn", "write"} => h.head # NoID
  /\ h.pc = "write" \/ stage(h) \in {"infer", "tools", "spawn"} => ~h.closed
  /\ h.pc = "write" /\ h.next = "arrive" => h.arriving
  /\ h.pc = "arrive" => h.head \in {NoID} \cup st.nodes
  /\ h.pc \in {"arrive", "prompt", "infer", "close"} => h.batch = NoID
  /\ h.pc = "write" /\ h.next \in {"arrive", "prompt"} => h.batch = NoID
  /\ stage(h) \in {"arrival", "tools", "spawn"} =>
       h.batch # NoID /\ (h.batch \in st.nodes \/ (h.pc = "write" /\ h.batch = h.head))
  /\ stage(h) \in {"tools", "spawn"} =>
       h.step < maxToolSteps /\ h.callSeq = m[h.batch].seq
  /\ stage(h) = "spawn" => /\ "teleport" \in ToSet(m[h.batch].calls)
                           /\ h.idx = 1 /\ h.batch = h.head
  /\ h.pc \in {"spawn", "teleported"} => h.batch = st.head

\* Without failed writes, a process and its store agree.
Agrees(h, m, st) ==
  /\ h.pc \in {"arrive", "arrival", "prompt", "infer", "tools", "spawn", "write", "close"} =>
       h.closed = st.closed
  /\ h.pc = "write" => h.graph = st.nodes \cup {h.head} /\ m[h.head].parent = st.head
  /\ h.pc \in {"arrive", "arrival", "prompt", "infer", "tools", "spawn"} => h.graph = st.nodes
  /\ h.pc \in {"arrive", "arrival", "prompt", "infer", "tools", "spawn", "close"} =>
       h.head = st.head

\* The batches that processes hold.
batches(ps) == {ps[p].batch : p \in {q \in Process : ps[q] \in Running}}

\* The stored session: a batch without all its answers is its head, was broken off,
\* or is held by a process (B).
StoreHolds(m, broken, st, B) ==
  /\ st.nodes \subseteq DOMAIN m /\ st.head \in {NoID} \cup st.nodes /\ st.terminal <= Len(m)
  /\ ~st.exists => m = << >> /\ st = noSession
  /\ \E b \in {NoID, st.head} \cup (B \cap st.nodes) :
       Settled(m, lineageIn(m)[st.head], broken \cup {b})

\* A process that keeps no other from the store.
idle(h) == h.pc \in {"off", "open"}

ProcessesHold ==
  /\ \A p \in Process : proc[p] \in Running =>
       /\ WorkHolds(proc[p], made, store)
       /\ TalkHolds(proc[p], made, cut)
       /\ failures = 0 => Agrees(proc[p], made, store)
  /\ \A p \in Process : proc[p].pc = "create" => ~store.exists
  /\ \A p \in Process : proc[p].pc = "open" => store.exists
  /\ \A p, q \in Process : ~idle(proc[p]) /\ ~idle(proc[q]) => p = q

SessionInv ==
  /\ BashTypeOK
  /\ NodesFit(made)
  /\ StoreHolds(made, cut, store, batches(proc))
  /\ StoreIsWhole
  /\ ProcessesHold

-----------------------------------------------------------------------------
(* Steps of a session *)

\* The control states of a process.
State ==
  {off, [pc |-> "create"]} \cup Running
    \cup [pc : {"open"}, store : {"mem", "bolt", "leveldb", "sgpd"}]

Session ==
  [exists : BOOLEAN, nodes : SUBSET (1..MaxNodes), head : 0..MaxNodes,
   closed : BOOLEAN, terminal : 0..MaxNodes]

\* The batch of a process, if it has one.
held(h) == IF h \in Running THEN {h.batch} ELSE {}

\* What a process at control state h is to keep to.
Holds(h, m, st, broken, whole) ==
  /\ h \in Running => WorkHolds(h, m, st) /\ TalkHolds(h, m, broken) /\ (whole => Agrees(h, m, st))
  /\ h.pc = "create" => ~st.exists
  /\ h.pc = "open" => st.exists

\* The kinds of control state.
LEMMA StateKinds ==
  ASSUME NEW h \in State
  PROVE  /\ h \in Running <=> h.pc \notin {"off", "create", "open"}
         /\ h.pc = "off" => h = off
         /\ idle(h) => h \notin Running
         /\ held(h) = IF h.pc \in {"off", "create", "open"} THEN {} ELSE {h.batch}
<1>1. h \in Running <=> h.pc \notin {"off", "create", "open"}
  BY DEF State, Running, off
<1>2. h.pc = "off" => h = off
  BY DEF State, Running, off
<1> QED
  BY <1>1, <1>2 DEF idle, held

\* The parts of the invariant that every step starts from.
LEMMA Facts ==
  ASSUME SessionInv
  PROVE  /\ proc \in [Process -> State] /\ made \in Seq(Node) /\ Len(made) <= MaxNodes
         /\ Len(made) \in Nat /\ DOMAIN made = 1..Len(made)
         /\ cut \subseteq 1..Len(made) /\ turns \in 0..MaxTurns /\ storeType \in StoreType
         /\ store \in Session /\ starts \in 0..MaxStarts /\ failures \in 0..MaxFailures
         /\ NodesFit(made) /\ Rooted(made) /\ StoreIsWhole
         /\ \A p \in Process : Holds(proc[p], made, store, cut, failures = 0)
         /\ \A p, q \in Process : ~idle(proc[p]) /\ ~idle(proc[q]) => p = q
<1>1. /\ proc \in [Process -> State] /\ made \in Seq(Node) /\ Len(made) <= MaxNodes
      /\ cut \subseteq 1..Len(made) /\ turns \in 0..MaxTurns /\ storeType \in StoreType
      /\ store \in Session /\ starts \in 0..MaxStarts /\ failures \in 0..MaxFailures
  BY DEF SessionInv, BashTypeOK, LoopTypeOK, State, Session
<1>2. \A p \in Process : Holds(proc[p], made, store, cut, failures = 0)
  BY DEF SessionInv, ProcessesHold, Holds
<1>3. \A p, q \in Process : ~idle(proc[p]) /\ ~idle(proc[q]) => p = q
  BY DEF SessionInv, ProcessesHold
<1>4. NodesFit(made) /\ StoreIsWhole /\ Rooted(made)
  BY <1>1, NodesAreRooted DEF SessionInv
<1> QED
  BY <1>1, <1>2, <1>3, <1>4

\* While one process is not idle, the store is held by it alone.
LEMMA OneHolds ==
  ASSUME SessionInv, NEW p \in Process, \A q \in Process : q # p => idle(proc[q])
  PROVE  /\ batches(proc) = held(proc[p])
         /\ StoreHolds(made, cut, store, held(proc[p]))
<1>1. \A q \in Process : q # p => proc[q] \notin Running
  BY Facts, StateKinds
<1>2. batches(proc) = held(proc[p])
  BY <1>1 DEF batches, held
<1> QED
  BY <1>2 DEF SessionInv

\* A step of one process, its others being idle.
LEMMA SessionGoesOn ==
  ASSUME SessionInv, NEW p \in Process,
         proc' \in [Process -> State],
         \A q \in Process : q # p => idle(proc'[q]) /\ (proc'[q].pc = "open" => store'.exists),
         Holds(proc'[p], made', store', cut', failures' = 0),
         made' \in Seq(Node), Len(made') <= MaxNodes, NodesFit(made'),
         cut' \subseteq 1..Len(made'), turns' \in 0..MaxTurns, storeType' = storeType,
         store' \in Session, starts' \in 0..MaxStarts, failures' \in 0..MaxFailures,
         StoreHolds(made', cut', store', held(proc'[p])), StoreIsWhole'
  PROVE  SessionInv'
<1>1. BashTypeOK'
  BY Facts DEF BashTypeOK, LoopTypeOK, State, Session
<1>2. \A q \in Process : q # p => proc'[q] \notin Running /\ proc'[q].pc # "create"
  BY StateKinds DEF idle
<1>3. batches(proc') = held(proc'[p])
  BY <1>2 DEF batches, held
<1>4. ProcessesHold'
  <2>1. \A q \in Process : Holds(proc'[q], made', store', cut', failures' = 0)
    BY <1>2 DEF Holds
  <2>2. \A q, r \in Process : ~idle(proc'[q]) /\ ~idle(proc'[r]) => q = r
    OBVIOUS
  <2> QED
    BY <2>1, <2>2 DEF ProcessesHold, Holds
<1> QED
  BY <1>1, <1>3, <1>4 DEF SessionInv

\* A step that leaves the store alone, where no unanswered batch is forgotten.
LEMMA StoreKeeps ==
  ASSUME SessionInv, NEW p \in Process, \A q \in Process : q # p => idle(proc[q]),
         Extends(made', made), NodesFit(made'), store' = store, cut \subseteq cut',
         failures \in Nat, failures' \in Nat, failures <= failures', NEW B,
         made = << >> /\ ~store.exists => made' = << >>,
         \A b \in held(proc[p]) \cap store.nodes : b = store.head \/ b \in cut' \/ b \in B
  PROVE  StoreHolds(made', cut', store', B) /\ StoreIsWhole'
<1>1. StoreHolds(made, cut, store, held(proc[p]))
  BY OneHolds
<1>2. /\ store.nodes \subseteq DOMAIN made /\ store.head \in {NoID} \cup store.nodes
      /\ store.terminal <= Len(made) /\ (~store.exists => made = << >> /\ store = noSession)
  BY <1>1 DEF StoreHolds
<1>3. PICK s : s = lineageIn(made)[store.head]
  OBVIOUS
<1>4. made \in Seq(Node) /\ Rooted(made) /\ made' \in Seq(Node) /\ Rooted(made')
  BY Facts, NodesAreRooted DEF Extends
<1>5. s = lineageIn(made')[store.head] /\ s \in Seq(DOMAIN made)
  BY <1>2, <1>3, <1>4, LineagesStay, LineageRows
<1>6. PICK b \in {NoID, store.head} \cup (held(proc[p]) \cap store.nodes) :
        Settled(made, s, cut \cup {b})
  BY <1>1, <1>3 DEF StoreHolds
<1>7. Settled(made', s, cut \cup {b})
  BY <1>4, <1>5, <1>6, TalkStays
<1>8. Settled(made', s, cut' \cup {b})
  BY <1>7, SettledWithout
<1>9. \E c \in {NoID, store.head} \cup (B \cap store.nodes) : Settled(made', s, cut' \cup {c})
  <2>1. CASE b \in {NoID, store.head} \cup (B \cap store.nodes)
    BY <1>8, <2>1
  <2>2. CASE b \in cut'
    <3>1. Settled(made', s, cut' \cup {NoID})
      BY <1>8, <2>2, SettledWithout
    <3> QED
      BY <3>1
  <2> QED
    BY <1>6, <2>1, <2>2
<1>10. /\ store.nodes \subseteq DOMAIN made' /\ store.terminal <= Len(made')
       /\ (~store.exists => made' = << >>)
  <2>1. DOMAIN made \subseteq DOMAIN made' /\ Len(made) <= Len(made')
    BY DEF Extends
  <2>2. store.terminal \in Nat /\ Len(made) \in Nat /\ Len(made') \in Nat
    BY <1>4, Facts, LoopAssumption DEF Session
  <2>3. store.terminal <= Len(made')
    BY <1>2, <2>1, <2>2
  <2> QED
    BY <1>2, <2>1, <2>3
<1>11. StoreHolds(made', cut', store', B)
  BY <1>2, <1>5, <1>9, <1>10 DEF StoreHolds
<1>12. failures' = 0 => failures = 0
  OBVIOUS
<1>13. StoreIsWhole'
  <2>1. lineage'[store.head] = lineage[store.head]
    BY <1>3, <1>5, LineageIsLineage
  <2>2. StoreIsWhole
    BY Facts
  <2> QED
    BY <1>12, <2>1, <2>2 DEF StoreIsWhole
<1> QED
  BY <1>11, <1>13

\* One process goes on, or stops, and no node is added and nothing stored.
LEMMA MoveStep ==
  ASSUME SessionInv, NEW p \in Process, NEW h \in State, \A q \in Process : q # p => idle(proc[q]),
         proc' = [proc EXCEPT ![p] = h], UNCHANGED <<made, store, storeType>>,
         cut \subseteq cut', cut' \subseteq 1..Len(made), turns' \in 0..MaxTurns,
         starts' \in 0..MaxStarts, failures' \in 0..MaxFailures, failures <= failures',
         Holds(h, made, store, cut', failures' = 0),
         \A b \in held(proc[p]) \cap store.nodes : b = store.head \/ b \in cut' \/ b \in held(h)
  PROVE  SessionInv'
<1>1. /\ proc' \in [Process -> State] /\ proc'[p] = h
      /\ \A q \in Process : q # p => proc'[q] = proc[q]
  BY Facts
<1>2. \A q \in Process : q # p => idle(proc'[q]) /\ (proc'[q].pc = "open" => store'.exists)
  BY <1>1, Facts DEF Holds
<1>3. Extends(made', made)
  BY Facts, Unmoved
<1>4. failures \in Nat /\ failures' \in Nat
  BY Facts
<1>5. NodesFit(made') /\ (made = << >> /\ ~store.exists => made' = << >>)
  BY Facts
<1>6. StoreHolds(made', cut', store', held(h)) /\ StoreIsWhole'
  BY <1>3, <1>4, <1>5, StoreKeeps
<1> HIDE DEF State
<1>7. Holds(proc'[p], made', store', cut', failures' = 0)
  BY <1>1
<1> QED
  BY <1>1, <1>2, <1>5, <1>6, <1>7, Facts, SessionGoesOn

\* What is known of a process at work.
LEMMA AtWork ==
  ASSUME SessionInv, NEW p \in Process, proc[p].pc \notin {"off", "create", "open"}
  PROVE  /\ proc[p] \in Running /\ WorkHolds(proc[p], made, store)
         /\ TalkHolds(proc[p], made, cut) /\ (failures = 0 => Agrees(proc[p], made, store))
         /\ \A q \in Process : q # p => idle(proc[q])
         /\ held(proc[p]) = {proc[p].batch}
         /\ proc[p].head \in {NoID} \cup DOMAIN made /\ proc[p].batch \in {NoID} \cup DOMAIN made
         /\ proc[p].head \in 0..Len(made) /\ proc[p].batch \in 0..Len(made)
         /\ lineageIn(made)[proc[p].head] \in Seq(DOMAIN made)
         /\ IsInjective(lineageIn(made)[proc[p].head])
         /\ store.exists
<1>1. proc[p] \in State
  BY Facts
<1>2. proc[p] \in Running /\ held(proc[p]) = {proc[p].batch}
  BY <1>1, StateKinds
<1>3. /\ WorkHolds(proc[p], made, store)
      /\ TalkHolds(proc[p], made, cut) /\ (failures = 0 => Agrees(proc[p], made, store))
  BY <1>2, Facts DEF Holds
<1>4. \A q \in Process : q # p => idle(proc[q])
  BY Facts DEF idle
<1>5. proc[p].head \in 0..Len(made) /\ proc[p].batch \in 0..Len(made)
  <2>1. proc[p].head \in Nat /\ proc[p].batch \in Nat
    BY <1>2, LoopAssumption DEF Running
  <2>2. proc[p].head <= Len(made) /\ proc[p].batch <= Len(made) /\ Len(made) \in Nat
    BY <1>3, Facts DEF WorkHolds
  <2> QED
    BY <2>1, <2>2
<1>6. DOMAIN made = 1..Len(made) /\ Len(made) \in Nat
  BY Facts
<1>7. proc[p].head \in {NoID} \cup DOMAIN made /\ proc[p].batch \in {NoID} \cup DOMAIN made
  BY <1>5, <1>6 DEF NoID
<1>8. /\ lineageIn(made)[proc[p].head] \in Seq(DOMAIN made)
      /\ IsInjective(lineageIn(made)[proc[p].head])
  BY <1>7, Facts, LineageRows
<1>9. store.exists
  BY <1>3 DEF WorkHolds
<1> QED
  BY <1>2, <1>3, <1>4, <1>5, <1>7, <1>8, <1>9

\* A process with a head has its conversation.
LEMMA IsTalking ==
  ASSUME SessionInv, NEW p \in Process, proc[p].pc \notin {"off", "create", "open"},
         proc[p].head # NoID
  PROVE  Talking(p) /\ Len(made) \in Nat
BY Facts, AtWork DEF Talking

\* A node is appended below the head and is to be written.
LEMMA AppendStep ==
  ASSUME SessionInv, NEW p \in Process,
         proc[p].pc \in {"prompt", "infer", "tools", "spawn", "arrival"},
         ~proc[p].closed, proc[p].head # NoID,
         NEW x \in Node, NEW h \in Running, Continues(p, x, h), WorkHolds(h, made', store),
         UNCHANGED storeVars, turns' \in 0..MaxTurns,
         cut \subseteq cut', cut' \subseteq 1..(Len(made) + 1),
         proc[p].batch \in store.nodes =>
           proc[p].batch = store.head \/ proc[p].batch \in cut' \/ proc[p].batch = h.batch
  PROVE  SessionInv'
<1>0. /\ x.parent = proc[p].head /\ Len(made) + 1 <= MaxNodes /\ made' = Append(made, x)
      /\ x.role = "calls" => x.calls # << >>
      /\ x.role = "tool" => HasItsBatch(made, lineageIn(made)[x.parent], x.seq)
      /\ proc' = [proc EXCEPT ![p] = h] /\ h.pc = "write" /\ h.head = Len(made) + 1
      /\ h.closed = proc[p].closed /\ h.graph = proc[p].graph \cup {Len(made) + 1}
      /\ TalkHolds(h, made', cut')
  BY DEF Continues
<1>1. PICK g \in Running : g = proc[p]
  BY AtWork
<1>2. PICK n \in Nat : n = Len(made) + 1
  BY Facts
<1>3. x.parent \in {NoID} \cup DOMAIN made /\ x.parent # NoID
  BY <1>0, AtWork
<1>4. NodesFit(made') /\ Extends(made', made) /\ n \in DOMAIN made' /\ made'[n] = x
  BY <1>0, <1>2, <1>3, Facts, NodesGrow
<1>5. made' \in Seq(Node) /\ Len(made') = n
  <2>1. Len(Append(made, x)) = Len(made) + 1
    BY Facts
  <2> QED
    BY <1>0, <1>2, <1>4, <2>1 DEF Extends
<1>6. /\ proc' \in [Process -> State] /\ proc'[p] = h
      /\ \A q \in Process : q # p => proc'[q] = proc[q]
  BY <1>0, Facts DEF State
<1>7. store' = store /\ storeType' = storeType /\ starts' = starts /\ failures' = failures
  BY DEF storeVars
<1>8. \A q \in Process : q # p => idle(proc[q])
  BY AtWork
<1>9. \A q \in Process : q # p => idle(proc'[q]) /\ (proc'[q].pc = "open" => store'.exists)
  BY <1>6, <1>7, <1>8, Facts DEF Holds
<1>10. failures \in Nat /\ failures' \in Nat /\ failures <= failures'
  BY <1>7, Facts
<1>11. store.exists /\ held(g) = {g.batch} /\ held(h) = {h.batch}
  BY <1>1, AtWork DEF held
<1>12. StoreHolds(made', cut', store', held(h)) /\ StoreIsWhole'
  BY <1>0, <1>1, <1>4, <1>7, <1>8, <1>10, <1>11, StoreKeeps
<1>13. failures' = 0 => Agrees(h, made', store')
  <2> SUFFICES ASSUME failures = 0 PROVE Agrees(h, made', store)
    BY <1>7
  <2>1. g.closed = store.closed /\ g.graph = store.nodes /\ g.head = store.head
    BY <1>1, AtWork DEF Agrees
  <2>2. h.closed = store.closed /\ h.graph = store.nodes \cup {h.head}
    BY <1>0, <1>1, <2>1
  <2>3. made'[h.head].parent = store.head
    BY <1>0, <1>1, <1>2, <1>4, <2>1
  <2> QED
    BY <1>0, <2>2, <2>3 DEF Agrees
<1>14. Holds(proc'[p], made', store', cut', failures' = 0)
  BY <1>0, <1>6, <1>7, <1>13 DEF Holds
<1>15. cut' \subseteq 1..Len(made') /\ Len(made') <= MaxNodes
  BY <1>0, <1>2, <1>5
<1>16. /\ store' \in Session /\ starts' \in 0..MaxStarts /\ failures' \in 0..MaxFailures
  BY <1>7, Facts
<1>17. StoreHolds(made', cut', store', held(proc'[p]))
  BY <1>6, <1>12
<1> HIDE DEF State, Session
<1> QED
  BY <1>4, <1>5, <1>6, <1>7, <1>9, <1>12, <1>14, <1>15, <1>16, <1>17, SessionGoesOn

\* What follows an append: the head is the last node, and the graph is as open as before.
LEMMA Continued ==
  ASSUME SessionInv, NEW p \in Process, NEW x \in Node, NEW h \in Running, Continues(p, x, h)
  PROVE  /\ h.pc = "write" /\ h.head = Len(made') /\ h.head # NoID /\ h.head <= Len(made')
         /\ h.head = Len(made) + 1 /\ made'[h.head] = x /\ h.closed = proc[p].closed
         /\ \A b \in {NoID} \cup DOMAIN made : b <= Len(made')
         /\ \A b \in DOMAIN made : made'[b] = made[b]
<1>1. PICK L \in Nat : L = Len(made) /\ DOMAIN made = 1..L /\ made \in Seq(Node)
  BY Facts
<1>2. made' = Append(made, x) /\ h.pc = "write" /\ h.head = L + 1 /\ h.closed = proc[p].closed
  BY <1>1 DEF Continues
<1>3. Len(made') = L + 1 /\ made'[L + 1] = x /\ \A b \in 1..L : made'[b] = made[b]
  BY <1>1, <1>2
<1>4. \A b \in {NoID} \cup 1..L : b <= L + 1
  BY DEF NoID
<1> QED
  BY <1>1, <1>2, <1>3, <1>4 DEF NoID

\* A function of the loop returns an error.
LEMMA FailStep ==
  ASSUME SessionInv, NEW p \in Process, proc[p].pc \in {"prompt", "infer", "arrival", "write"},
         fail(p), UNCHANGED <<made, store, storeType>>, starts' = starts,
         turns' \in 0..MaxTurns, failures' \in 0..MaxFailures, failures <= failures',
         proc[p].pc = "write" => failures' # 0
  PROVE  SessionInv'
<1>1. PICK g \in Running : g = proc[p]
  BY AtWork
<1>2. /\ WorkHolds(g, made, store) /\ TalkHolds(g, made, cut)
      /\ g.pc \in {"prompt", "infer", "arrival", "write"}
  BY <1>1, AtWork
<1>3. PICK pc \in {"prompt", "close"} :
        proc' = [proc EXCEPT ![p] = IF @.arriving THEN off
                                    ELSE [@ EXCEPT !.pc = pc, !.batch = NoID, !.step = 0]]
  BY DEF fail
<1>4. PICK h : h = IF g.arriving THEN off ELSE [g EXCEPT !.pc = pc, !.batch = NoID, !.step = 0]
  OBVIOUS
<1>5. proc' = [proc EXCEPT ![p] = h]
  BY <1>1, <1>3, <1>4, Facts
<1>6. cut' = cut \cup ({g.batch} \ {NoID}) /\ cut \subseteq cut'
  BY <1>1 DEF fail
<1>7. cut' \subseteq 1..Len(made)
  <2>1. cut \subseteq 1..Len(made) /\ DOMAIN made = 1..Len(made)
    BY Facts
  <2>2. g.batch # NoID => g.batch \in 1..Len(made)
    BY <1>1, <2>1, AtWork
  <2> QED
    BY <1>6, <2>1, <2>2
<1>8. h = off \/ /\ h \in Running /\ h.pc = pc /\ h.batch = NoID /\ h.head = g.head
                 /\ h.graph = g.graph /\ h.closed = g.closed /\ ~g.arriving
  <2>1. CASE ~g.arriving
    <3>1. h = [g EXCEPT !.pc = pc, !.batch = NoID, !.step = 0]
      BY <1>4, <2>1
    <3>2. 0 \in 0..maxToolSteps /\ NoID \in 0..MaxNodes
      BY LoopAssumption DEF NoID
    <3>3. h \in Running
      BY <3>1, <3>2 DEF Running
    <3>4. /\ h.pc = pc /\ h.batch = NoID /\ h.head = g.head
          /\ h.graph = g.graph /\ h.closed = g.closed
      BY <3>1 DEF Running
    <3> QED
      BY <2>1, <3>3, <3>4
  <2> QED
    BY <1>4, <2>1
<1>9. h \in State
  BY <1>8 DEF State
<1>10. Holds(h, made, store, cut', failures' = 0)
  <2>1. CASE h = off
    BY <2>1 DEF Holds, off, Running
  <2>2. CASE h # off
    <3>1. /\ h \in Running /\ h.pc = pc /\ h.batch = NoID /\ h.head = g.head
          /\ h.graph = g.graph /\ h.closed = g.closed /\ ~g.arriving
      BY <1>8, <2>2
    <3>2. stage(h) = pc
      BY <3>1 DEF stage
    <3>3. WorkHolds(h, made, store)
      <4>1. h.head <= Len(made) /\ h.batch <= Len(made)
        BY <1>1, <3>1, AtWork, Facts DEF NoID
      <4>2. store.exists
        BY <1>2 DEF WorkHolds
      <4> QED
        BY <3>1, <3>2, <4>1, <4>2 DEF WorkHolds
    <3>4. Settled(made, lineageIn(made)[g.head], cut')
      <4> DEFINE s == lineageIn(made)[g.head]
      <4>1. stage(g) # "arrive"
        BY <1>2, <3>1 DEF WorkHolds, stage
      <4>2. stage(g) \in {"prompt", "infer", "arrival", "tools", "spawn"}
        BY <1>2, <4>1 DEF stage, Running
      <4>3. CASE stage(g) \in {"prompt", "infer"}
        <5>1. Settled(made, s, cut)
          BY <1>2, <4>3 DEF TalkHolds
        <5> QED
          BY <1>6, <5>1, SettledWithout
      <4>4. CASE stage(g) \in {"arrival", "tools", "spawn"}
        <5>1. Settled(made, s, cut \cup {g.batch}) /\ g.batch # NoID
          BY <1>2, <4>4 DEF TalkHolds, WorkHolds
        <5>2. cut' = cut \cup {g.batch}
          BY <1>6, <5>1
        <5> QED
          BY <5>1, <5>2
      <4> QED
        BY <4>2, <4>3, <4>4
    <3>5. TalkHolds(h, made, cut')
      BY <3>1, <3>2, <3>4 DEF TalkHolds
    <3>6. failures' = 0 => Agrees(h, made, store)
      <4> SUFFICES ASSUME failures' = 0 PROVE Agrees(h, made, store)
        OBVIOUS
      <4>1. failures = 0 /\ g.pc # "write"
        BY <1>1, Facts
      <4>2. g.closed = store.closed /\ g.graph = store.nodes /\ g.head = store.head
        BY <1>1, <1>2, <4>1, AtWork DEF Agrees
      <4> QED
        BY <3>1, <4>2 DEF Agrees
    <3> QED
      BY <3>1, <3>3, <3>5, <3>6 DEF Holds
  <2> QED
    BY <2>1, <2>2
<1>11. \A b \in held(proc[p]) \cap store.nodes : b = store.head \/ b \in cut' \/ b \in held(h)
  <2>1. NoID \notin store.nodes
    BY Facts DEF Session, NoID
  <2>2. held(proc[p]) = {g.batch}
    BY <1>1, AtWork
  <2> QED
    BY <1>6, <2>1, <2>2
<1>12. starts' \in 0..MaxStarts
  BY Facts
<1>13. \A q \in Process : q # p => idle(proc[q])
  BY AtWork
<1> HIDE DEF State
<1> QED
  BY <1>5, <1>6, <1>7, <1>9, <1>10, <1>11, <1>12, <1>13, MoveStep

-----------------------------------------------------------------------------
(* The actions of the loop *)

\* handleTurn keeps the invariant.
LEMMA HandleTurnStep ==
  ASSUME SessionInv, NEW p \in Process, handleTurn(p), UNCHANGED storeVars
  PROVE  SessionInv'
<1>0. PICK g \in Running : g = proc[p] /\ g.pc = "prompt"
  BY AtWork DEF handleTurn
<1>1. turns' \in 0..MaxTurns
  BY Facts, LoopAssumption DEF handleTurn
<1>2. CASE canAppend(p)
  <2>1. ~g.closed /\ g.head # NoID /\ UNCHANGED cut
    BY <1>0, <1>2 DEF canAppend, handleTurn
  <2>2. PICK x \in Node, h \in Running :
          Continues(p, x, h) /\ h.next = "infer" /\ h.batch = g.batch
    BY <1>0, <1>2, <2>1, IsTalking, TurnContinues
  <2>3. g.batch = NoID /\ store.exists
    BY <1>0, AtWork DEF WorkHolds
  <2>4. /\ h.pc = "write" /\ h.head = Len(made') /\ h.head # NoID /\ h.batch <= Len(made')
        /\ ~h.closed /\ h.head <= Len(made')
    BY <1>0, <2>1, <2>2, <2>3, Continued
  <2>5. WorkHolds(h, made', store)
    BY <2>2, <2>3, <2>4 DEF WorkHolds, stage
  <2>6. cut \subseteq cut' /\ cut' \subseteq 1..(Len(made) + 1)
    BY <2>1, Facts
  <2> QED
    BY <1>0, <1>1, <2>1, <2>2, <2>5, <2>6, AppendStep
<1>3. CASE ~canAppend(p)
  <2>1. fail(p) /\ UNCHANGED <<made, store, storeType>> /\ starts' = starts /\ failures' = failures
    BY <1>3 DEF handleTurn, storeVars
  <2>2. failures' \in 0..MaxFailures /\ failures <= failures'
    BY <2>1, Facts
  <2> QED
    BY <1>0, <1>1, <2>1, <2>2, FailStep
<1> QED
  BY <1>2, <1>3

\* quit keeps the invariant.
LEMMA QuitStep ==
  ASSUME SessionInv, NEW p \in Process, quit(p), UNCHANGED storeVars
  PROVE  SessionInv'
<1>0. PICK g \in Running : g = proc[p] /\ g.pc = "prompt"
  BY AtWork DEF quit
<1>1. PICK h \in Running : h = [g EXCEPT !.pc = "close"]
  BY DEF Running
<1>2. /\ h.pc = "close" /\ h.batch = g.batch /\ h.head = g.head /\ h.graph = g.graph
      /\ h.closed = g.closed
  BY <1>1 DEF Running
<1>3. /\ proc' = [proc EXCEPT ![p] = h]
      /\ UNCHANGED <<made, store, storeType>> /\ cut' = cut /\ turns' = turns
      /\ starts' = starts /\ failures' = failures
  BY <1>0, <1>1 DEF quit, storeVars
<1>4. WorkHolds(g, made, store) /\ (failures = 0 => Agrees(g, made, store))
  BY <1>0, AtWork
<1>5. WorkHolds(h, made, store)
  BY <1>0, <1>2, <1>4 DEF WorkHolds, stage
<1>6. TalkHolds(h, made, cut)
  BY <1>2 DEF TalkHolds, stage
<1>7. failures = 0 => Agrees(h, made, store)
  BY <1>0, <1>2, <1>4 DEF Agrees
<1>8. Holds(h, made, store, cut', failures' = 0)
  BY <1>2, <1>3, <1>5, <1>6, <1>7 DEF Holds
<1>9. held(proc[p]) = {g.batch} /\ held(h) = {h.batch}
  BY <1>0, AtWork DEF held
<1>10. h \in State /\ \A q \in Process : q # p => idle(proc[q])
  BY <1>0, AtWork DEF State
<1>11. /\ turns' \in 0..MaxTurns /\ starts' \in 0..MaxStarts /\ failures' \in 0..MaxFailures
       /\ failures <= failures' /\ cut \subseteq cut' /\ cut' \subseteq 1..Len(made)
  BY <1>3, Facts
<1> QED
  BY <1>2, <1>3, <1>8, <1>9, <1>10, <1>11, MoveStep

\* inferenceFails keeps the invariant.
LEMMA InferenceFailsStep ==
  ASSUME SessionInv, NEW p \in Process, inferenceFails(p), UNCHANGED storeVars
  PROVE  SessionInv'
<1>1. /\ fail(p) /\ proc[p].pc = "infer" /\ UNCHANGED <<made, store, storeType>>
      /\ starts' = starts /\ failures' = failures /\ turns' = turns
  BY DEF inferenceFails, storeVars
<1>2. failures' \in 0..MaxFailures /\ failures <= failures' /\ turns' \in 0..MaxTurns
  BY <1>1, Facts
<1> QED
  BY <1>1, <1>2, FailStep

\* finalAnswer keeps the invariant.
LEMMA FinalAnswerStep ==
  ASSUME SessionInv, NEW p \in Process, finalAnswer(p), UNCHANGED storeVars
  PROVE  SessionInv'
<1>0. PICK g \in Running : g = proc[p] /\ g.pc = "infer" /\ g.head # NoID
  BY AtWork DEF finalAnswer, canInfer, resumes
<1>1. turns' \in 0..MaxTurns /\ cut \subseteq cut' /\ cut' \subseteq 1..(Len(made) + 1)
  BY Facts DEF finalAnswer
<1>2. g.batch = NoID /\ ~g.closed /\ store.exists
  BY <1>0, AtWork DEF WorkHolds, stage
<1>3. PICK x \in Node, h \in Running :
        Continues(p, x, h) /\ h.next = "prompt" /\ h.batch = g.batch
  BY <1>0, IsTalking, AnswerContinues
<1>4. /\ h.pc = "write" /\ h.head # NoID /\ h.head <= Len(made') /\ h.batch <= Len(made')
      /\ ~h.closed
  BY <1>0, <1>2, <1>3, Continued
<1>5. WorkHolds(h, made', store)
  BY <1>2, <1>3, <1>4 DEF WorkHolds, stage
<1> QED
  BY <1>0, <1>1, <1>2, <1>3, <1>5, AppendStep

\* toolCalls keeps the invariant.
LEMMA ToolCallsStep ==
  ASSUME SessionInv, NEW p \in Process, NEW calls \in Batch, toolCalls(p, calls),
         UNCHANGED storeVars
  PROVE  SessionInv'
<1>0. PICK g \in Running :
        g = proc[p] /\ g.pc = "infer" /\ g.head # NoID /\ g.step < maxToolSteps
  BY AtWork DEF toolCalls, canInfer, resumes
<1>1. turns' \in 0..MaxTurns /\ cut \subseteq cut' /\ cut' \subseteq 1..(Len(made) + 1)
  BY Facts DEF toolCalls
<1>2. g.batch = NoID /\ ~g.closed /\ store.exists
  BY <1>0, AtWork DEF WorkHolds, stage
<1>3. PICK x \in Node, h \in Running :
        /\ Continues(p, x, h) /\ x.calls = calls
        /\ h.next = IF "teleport" \in ToSet(calls) THEN "spawn" ELSE "tools"
        /\ h.batch = h.head /\ h.idx = 1 /\ h.step = g.step /\ h.callSeq = x.seq
  BY <1>0, IsTalking, CallsContinue
<1>4. /\ h.pc = "write" /\ h.head # NoID /\ h.head <= Len(made') /\ h.batch <= Len(made')
      /\ ~h.closed /\ made'[h.batch] = x
  BY <1>0, <1>2, <1>3, Continued
<1>5. WorkHolds(h, made', store)
  <2>1. h.next = "spawn" => "teleport" \in ToSet(made'[h.batch].calls)
    BY <1>3, <1>4
  <2>2. h.next \in {"spawn", "tools"}
    BY <1>3
  <2> QED
    BY <1>0, <1>2, <1>3, <1>4, <2>1, <2>2 DEF WorkHolds, stage
<1>6. proc[p].batch \notin store.nodes
  BY <1>0, <1>2, Facts DEF Session, NoID
<1> QED
  BY <1>0, <1>1, <1>2, <1>3, <1>5, <1>6, AppendStep

\* A tool call has a result: executeTool and arrivalResult keep the invariant.
LEMMA ResultStep ==
  ASSUME SessionInv, NEW p \in Process, proc[p].pc \in {"tools", "arrival"},
         ~proc[p].closed, proc[p].head # NoID, NEW step \in 0..maxToolSteps,
         appendNode(p, "tool", << >>, made[proc[p].batch].seq, proc[p].idx, afterResult(p, step)),
         UNCHANGED <<turns, cut>>, UNCHANGED storeVars
  PROVE  SessionInv'
<1>0. PICK g \in Running : g = proc[p] /\ g.pc \in {"tools", "arrival"}
  BY AtWork
<1>1. turns' \in 0..MaxTurns /\ cut \subseteq cut' /\ cut' \subseteq 1..(Len(made) + 1)
  BY Facts
<1>2. /\ g.batch # NoID /\ g.batch \in store.nodes /\ store.exists
      /\ g.pc = "tools" => g.step < maxToolSteps /\ g.callSeq = made[g.batch].seq
  BY <1>0, AtWork DEF WorkHolds, stage
<1>3. PICK x \in Node, h \in Running :
        /\ Continues(p, x, h) /\ h.next \in {g.pc, "infer"} /\ h.batch = g.batch
        /\ h.next = g.pc => h.step = g.step /\ h.callSeq = g.callSeq
  BY <1>0, IsTalking, ResultContinues
<1>4. g.batch \in DOMAIN made
  BY <1>0, <1>2, AtWork
<1>5. /\ h.pc = "write" /\ h.head # NoID /\ h.head <= Len(made') /\ h.batch <= Len(made')
      /\ ~h.closed /\ made'[h.batch] = made[g.batch]
  BY <1>0, <1>3, <1>4, Continued
<1>6. h.next \in {"tools", "arrival", "infer"} /\ (h.next = "tools" => g.pc = "tools")
  BY <1>0, <1>3
<1>7. WorkHolds(h, made', store)
  BY <1>2, <1>3, <1>5, <1>6 DEF WorkHolds, stage
<1> QED
  BY <1>0, <1>1, <1>3, <1>7, AppendStep

\* executeTool keeps the invariant.
LEMMA ExecuteToolStep ==
  ASSUME SessionInv, NEW p \in Process, executeTool(p), UNCHANGED storeVars
  PROVE  SessionInv'
<1>1. PICK g \in Running : g = proc[p] /\ g.pc = "tools"
  BY AtWork DEF executeTool
<1>2. /\ g.step < maxToolSteps /\ g.callSeq = made[g.batch].seq /\ ~g.closed /\ g.head # NoID
  BY <1>1, AtWork DEF WorkHolds, stage
<1>3. PICK step \in 0..maxToolSteps : step = g.step + 1
  BY <1>2, LoopAssumption DEF Running
<1>4. appendNode(p, "tool", << >>, made[proc[p].batch].seq, proc[p].idx, afterResult(p, step))
      /\ UNCHANGED <<turns, cut>>
  BY <1>1, <1>2, <1>3 DEF executeTool
<1> QED
  BY <1>1, <1>2, <1>4, ResultStep

\* arrivalResult keeps the invariant.
LEMMA ArrivalResultStep ==
  ASSUME SessionInv, NEW p \in Process, arrivalResult(p), UNCHANGED storeVars
  PROVE  SessionInv'
<1>1. proc[p].pc = "arrival" /\ turns' = turns
  BY DEF arrivalResult
<1>2. CASE canAppend(p)
  <2>1. 0 \in 0..maxToolSteps
    BY LoopAssumption
  <2>2. /\ ~proc[p].closed /\ proc[p].head # NoID /\ UNCHANGED <<turns, cut>>
        /\ appendNode(p, "tool", << >>, made[proc[p].batch].seq, proc[p].idx, afterResult(p, 0))
    BY <1>2 DEF arrivalResult, canAppend
  <2> QED
    BY <1>1, <2>1, <2>2, ResultStep
<1>3. CASE ~canAppend(p)
  <2>1. /\ fail(p) /\ UNCHANGED <<made, store, storeType>>
        /\ starts' = starts /\ failures' = failures
    BY <1>3 DEF arrivalResult, storeVars
  <2>2. failures' \in 0..MaxFailures /\ failures <= failures' /\ turns' \in 0..MaxTurns
    BY <1>1, <2>1, Facts
  <2> QED
    BY <1>1, <2>1, <2>2, FailStep
<1> QED
  BY <1>2, <1>3

\* spawnFails keeps the invariant.
LEMMA SpawnFailsStep ==
  ASSUME SessionInv, NEW p \in Process, spawnFails(p), UNCHANGED storeVars
  PROVE  SessionInv'
<1>1. PICK g \in Running : g = proc[p] /\ g.pc = "spawn"
  BY AtWork DEF spawnFails
<1>2. /\ g.batch # NoID /\ g.batch \in store.nodes /\ store.exists /\ ~g.closed /\ g.head # NoID
      /\ g.step < maxToolSteps /\ g.callSeq = made[g.batch].seq /\ g.idx = 1
      /\ "teleport" \in ToSet(made[g.batch].calls)
  BY <1>1, AtWork DEF WorkHolds, stage
<1>3. PICK x \in Node, h \in Running :
        /\ Continues(p, x, h) /\ h.next = "infer" /\ h.batch = g.batch
        /\ cut \subseteq cut' /\ cut' \subseteq cut \cup {g.batch} /\ g.batch \in DOMAIN made
  BY <1>1, <1>2, IsTalking, SpawnContinues
<1>4. /\ h.pc = "write" /\ h.head # NoID /\ h.head <= Len(made') /\ h.batch <= Len(made')
      /\ ~h.closed
  BY <1>1, <1>2, <1>3, Continued
<1>5. WorkHolds(h, made', store)
  BY <1>2, <1>3, <1>4 DEF WorkHolds, stage
<1>6. turns' \in 0..MaxTurns /\ cut' \subseteq 1..(Len(made) + 1)
  <2>1. turns' = turns
    BY DEF spawnFails
  <2>2. g.batch \in 1..(Len(made) + 1) /\ cut \subseteq 1..(Len(made) + 1)
    BY <1>3, Facts
  <2> QED
    BY <1>3, <2>1, <2>2, Facts
<1> QED
  BY <1>1, <1>2, <1>3, <1>5, <1>6, AppendStep

\* The process stops.
LEMMA StopStep ==
  ASSUME SessionInv, NEW p \in Process, \A q \in Process : q # p => idle(proc[q]),
         proc' = [proc EXCEPT ![p] = off], UNCHANGED <<made, store, storeType, turns, starts>>,
         cut \subseteq cut', cut' \subseteq 1..Len(made),
         failures' \in 0..MaxFailures, failures <= failures',
         \A b \in held(proc[p]) \cap store.nodes : b = store.head \/ b \in cut'
  PROVE  SessionInv'
<1>1. off \in State
  BY DEF State
<1>2. Holds(off, made, store, cut', failures' = 0)
  BY DEF Holds, off, Running
<1>3. turns' \in 0..MaxTurns /\ starts' \in 0..MaxStarts
  BY Facts
<1> HIDE DEF State, off
<1> QED
  BY <1>1, <1>2, <1>3, MoveStep

\* exitTeleported keeps the invariant.
LEMMA ExitTeleportedStep ==
  ASSUME SessionInv, NEW p \in Process, exitTeleported(p), UNCHANGED storeVars
  PROVE  SessionInv'
<1>1. /\ proc[p].pc = "teleported" /\ proc' = [proc EXCEPT ![p] = off]
      /\ UNCHANGED <<made, store, storeType, turns, starts>> /\ cut' = cut /\ failures' = failures
  BY DEF exitTeleported, storeVars
<1>2. \A b \in held(proc[p]) \cap store.nodes : b = store.head
  BY <1>1, AtWork DEF WorkHolds
<1>3. /\ failures' \in 0..MaxFailures /\ failures <= failures' /\ cut \subseteq cut'
      /\ cut' \subseteq 1..Len(made)
  BY <1>1, Facts
<1>4. \A q \in Process : q # p => idle(proc[q])
  BY <1>1, AtWork
<1> HIDE DEF off
<1> QED
  BY <1>1, <1>2, <1>3, <1>4, StopStep

\* crash keeps the invariant.
LEMMA CrashStep ==
  ASSUME SessionInv, NEW p \in Process, crash(p)
  PROVE  SessionInv'
<1>1. /\ proc[p].pc \notin {"off", "create", "open"} /\ proc' = [proc EXCEPT ![p] = off]
      /\ UNCHANGED <<made, store, storeType, turns, starts>> /\ failures' = failures
      /\ cut' = IF proc[p].batch \in store.nodes /\ store.head # proc[p].batch
                THEN cut \cup {proc[p].batch} ELSE cut
  BY DEF crash, storeVars
<1>2. \A b \in held(proc[p]) \cap store.nodes : b = store.head \/ b \in cut'
  BY <1>1, AtWork
<1>3. /\ failures' \in 0..MaxFailures /\ failures <= failures' /\ cut \subseteq cut'
      /\ cut' \subseteq 1..Len(made)
  <2>1. proc[p].batch # NoID => proc[p].batch \in 1..Len(made)
    BY <1>1, AtWork, Facts
  <2>2. NoID \notin store.nodes /\ cut \subseteq 1..Len(made)
    BY Facts DEF Session, NoID
  <2> QED
    BY <1>1, <2>1, <2>2, Facts
<1>4. \A q \in Process : q # p => idle(proc[q])
  BY <1>1, AtWork
<1> HIDE DEF off
<1> QED
  BY <1>1, <1>2, <1>3, <1>4, StopStep

\* handleArrival keeps the invariant.
LEMMA HandleArrivalStep ==
  ASSUME SessionInv, NEW p \in Process, handleArrival(p), UNCHANGED storeVars
  PROVE  SessionInv'
<1>1. PICK g \in Running : g = proc[p] /\ g.pc = "arrive"
  BY AtWork DEF handleArrival
<1>2. /\ g.batch = NoID /\ store.exists /\ g.head \in {NoID} \cup store.nodes /\ g.head <= Len(made)
      /\ failures = 0 => Agrees(g, made, store)
  BY <1>1, AtWork DEF WorkHolds, stage
<1>3. PICK s \in Seq(DOMAIN made) : s = lineageIn(made)[g.head]
  BY <1>1, AtWork
<1>4. Settled(made, s, cut \cup {g.head})
  BY <1>1, <1>3, AtWork DEF TalkHolds, stage
<1>5. /\ UNCHANGED <<made, store, storeType, turns, starts, failures>> /\ cut' = cut
  BY DEF handleArrival, storeVars
<1>6. \E h \in Running :
        /\ proc' = [proc EXCEPT ![p] = h]
        /\ h.head = g.head /\ h.graph = g.graph /\ h.closed = g.closed
        /\ WorkHolds(h, made, store) /\ TalkHolds(h, made, cut)
        /\ h.pc \in {"arrival", "prompt"}
  <2>1. CASE g.head # NoID /\ made[g.head].role = "calls"
    <3>1. g.head \in 0..MaxNodes /\ 1 \in Nat
      BY DEF Running
    <3>2. PICK h : h = [g EXCEPT !.pc = "arrival", !.arriving = TRUE, !.batch = g.head, !.idx = 1]
      OBVIOUS
    <3>3. h \in Running
      BY <3>1, <3>2 DEF Running
    <3>4. /\ h.pc = "arrival" /\ h.batch = g.head /\ h.idx = 1 /\ h.head = g.head
          /\ h.graph = g.graph /\ h.closed = g.closed /\ stage(h) = "arrival"
      BY <3>2 DEF Running, stage
    <3>5. proc' = [proc EXCEPT ![p] = h]
      BY <1>1, <2>1, <3>2 DEF handleArrival
    <3>6. WorkHolds(h, made, store)
      BY <1>2, <2>1, <3>4 DEF WorkHolds
    <3>7. g.head \in DOMAIN made /\ made \in Seq(Node)
      BY <1>1, <2>1, Facts, AtWork
    <3>8. made[g.head].calls # << >>
      BY <2>1, <3>7, Facts DEF NodesFit, Placed
    <3>9. made[g.head].parent \in {NoID} \cup DOMAIN made
          /\ s = Append(lineageIn(made)[made[g.head].parent], g.head)
      BY <1>3, <3>7, Facts, LineageRows
    <3>10. PICK t \in Seq(DOMAIN made) : t = lineageIn(made)[made[g.head].parent]
      BY <3>9, Facts, LineageRows
    <3>11. Answering(made, s, g.head, 1)
      BY <2>1, <3>7, <3>8, <3>9, <3>10, AnsweringLast
    <3>12. TalkHolds(h, made, cut)
      BY <1>3, <1>4, <3>4, <3>11 DEF TalkHolds
    <3> QED
      BY <3>3, <3>4, <3>5, <3>6, <3>12
  <2>2. CASE ~(g.head # NoID /\ made[g.head].role = "calls")
    <3>2. PICK h : h = [g EXCEPT !.pc = "prompt", !.arriving = FALSE]
      OBVIOUS
    <3>3. h \in Running
      BY <3>2 DEF Running
    <3>4. /\ h.pc = "prompt" /\ h.batch = g.batch /\ h.head = g.head
          /\ h.graph = g.graph /\ h.closed = g.closed /\ stage(h) = "prompt"
      BY <3>2 DEF Running, stage
    <3>5. proc' = [proc EXCEPT ![p] = h]
      BY <1>1, <2>2, <3>2 DEF handleArrival
    <3>6. h.batch <= Len(made)
      BY <1>2, <3>4, Facts DEF NoID
    <3>7. WorkHolds(h, made, store)
      BY <1>2, <3>4, <3>6 DEF WorkHolds
    <3>8. Settled(made, s, cut)
      <4>1. CASE g.head = NoID
        BY <1>4, <4>1, Facts, SettledWithoutNone
      <4>2. CASE made[g.head].role # "calls"
        BY <1>4, <4>2, SettledWithoutOther
      <4> QED
        BY <2>2, <4>1, <4>2
    <3>9. TalkHolds(h, made, cut)
      BY <1>3, <3>4, <3>8 DEF TalkHolds
    <3> QED
      BY <3>3, <3>4, <3>5, <3>7, <3>9
  <2> QED
    BY <2>1, <2>2
<1>7. PICK h \in Running :
        /\ proc' = [proc EXCEPT ![p] = h]
        /\ h.head = g.head /\ h.graph = g.graph /\ h.closed = g.closed
        /\ WorkHolds(h, made, store) /\ TalkHolds(h, made, cut)
        /\ h.pc \in {"arrival", "prompt"}
  BY <1>6
<1>8. failures = 0 => Agrees(h, made, store)
  BY <1>1, <1>2, <1>7 DEF Agrees
<1>9. Holds(h, made, store, cut', failures' = 0)
  BY <1>5, <1>7, <1>8 DEF Holds
<1>10. \A b \in held(proc[p]) \cap store.nodes : b = store.head \/ b \in cut' \/ b \in held(h)
  <2>1. held(proc[p]) = {NoID} /\ NoID \notin store.nodes
    BY <1>1, <1>2, AtWork, Facts DEF Session, NoID
  <2> QED
    BY <2>1
<1>11. h \in State /\ \A q \in Process : q # p => idle(proc[q])
  BY <1>1, AtWork DEF State
<1>12. /\ turns' \in 0..MaxTurns /\ starts' \in 0..MaxStarts /\ failures' \in 0..MaxFailures
       /\ failures <= failures' /\ cut \subseteq cut' /\ cut' \subseteq 1..Len(made)
  BY <1>5, Facts
<1> HIDE DEF State
<1> QED
  BY <1>5, <1>7, <1>9, <1>10, <1>11, <1>12, MoveStep

\* main keeps the invariant.
LEMMA MainStep ==
  ASSUME SessionInv, NEW p \in Process, main(p)
  PROVE  SessionInv'
<1>1. /\ \A q \in Process : proc[q] = off
      /\ UNCHANGED <<made, cut, turns, store, storeType, failures>>
      /\ starts < MaxStarts /\ starts' = starts + 1
  BY DEF main
<1>2. storeType \in {"mem", "bolt", "leveldb"}
  BY Facts, BashAssumption
<1>3. PICK h : h = IF store.exists THEN opening(storeType) ELSE [pc |-> "create"]
  OBVIOUS
<1>4. /\ proc' = [proc EXCEPT ![p] = h] /\ h \in State /\ idle(off) /\ off \notin Running
      /\ h \notin Running
      /\ h.pc = "create" => ~store.exists
      /\ h.pc = "open" => store.exists
  BY <1>2, <1>3 DEF main, opening, State, idle, off, Running
<1>5. Holds(h, made, store, cut', failures' = 0)
  BY <1>4 DEF Holds
<1>6. held(proc[p]) = {}
  BY <1>1, <1>4 DEF held
<1>7. /\ turns' \in 0..MaxTurns /\ starts' \in 0..MaxStarts /\ failures' \in 0..MaxFailures
      /\ failures <= failures' /\ cut \subseteq cut' /\ cut' \subseteq 1..Len(made)
  BY <1>1, Facts, BashAssumption
<1>8. \A q \in Process : q # p => idle(proc[q])
  BY <1>1, <1>4
<1> HIDE DEF State
<1> QED
  BY <1>1, <1>4, <1>5, <1>6, <1>7, <1>8, MoveStep

\* A process that opens the store of the session is alone with it.
LEMMA OthersIdle ==
  ASSUME SessionInv, NEW p \in Process, proc[p].pc = "open", openLocalStore(p)
  PROVE  \A q \in Process : q # p => idle(proc[q])
BY Facts DEF openLocalStore, Holds, idle

\* resumeHarness keeps the invariant.
LEMMA ResumeHarnessStep ==
  ASSUME SessionInv, NEW p \in Process, resumeHarness(p)
  PROVE  SessionInv'
<1>1. /\ proc[p].pc = "open" /\ openLocalStore(p)
      /\ UNCHANGED <<made, cut, turns, store, storeType, starts, failures>>
  BY DEF resumeHarness, storeVars
<1>2. \A q \in Process : q # p => idle(proc[q])
  BY <1>1, OthersIdle
<1>3. proc[p] \in State /\ held(proc[p]) = {}
  BY <1>1, Facts, StateKinds
<1>4. /\ turns' \in 0..MaxTurns /\ starts' \in 0..MaxStarts /\ failures' \in 0..MaxFailures
      /\ failures <= failures' /\ cut \subseteq cut' /\ cut' \subseteq 1..Len(made)
  BY <1>1, Facts
<1>5. CASE ~found(proc[p].store)
  <2>1. proc' = [proc EXCEPT ![p] = off]
    BY <1>5 DEF resumeHarness
  <2> HIDE DEF off
  <2> QED
    BY <1>1, <1>2, <1>3, <1>4, <2>1, StopStep
<1>6. CASE found(proc[p].store)
  <2>1. PICK h : h = running("arrive", store.nodes, store.head, store.closed)
    OBVIOUS
  <2>2. proc' = [proc EXCEPT ![p] = h] /\ store.exists
    BY <1>6, <2>1 DEF resumeHarness, found
  <2>3. PICK N \in SUBSET (1..MaxNodes), n \in 0..MaxNodes, c \in BOOLEAN :
          N = store.nodes /\ n = store.head /\ c = store.closed
    BY Facts DEF Session
  <2>4. 0 \in 0..maxToolSteps /\ 0 \in 0..MaxNodes
    BY LoopAssumption
  <2>5. h \in Running
    BY <2>1, <2>3, <2>4 DEF running, Running, NoID
  <2>6. /\ h.pc = "arrive" /\ h.graph = store.nodes /\ h.head = store.head
        /\ h.closed = store.closed /\ h.batch = NoID /\ stage(h) = "arrive"
    BY <2>1 DEF running, stage
  <2>7. StoreHolds(made, cut, store, {})
    BY <1>2, <1>3, OneHolds
  <2>8. store.nodes \subseteq 1..Len(made) /\ store.head \in {NoID} \cup store.nodes
    BY <2>7, Facts DEF StoreHolds
  <2>9. h.head <= Len(made) /\ h.batch <= Len(made)
    BY <2>6, <2>8, Facts DEF NoID
  <2>10. WorkHolds(h, made, store)
    BY <2>2, <2>6, <2>8, <2>9 DEF WorkHolds
  <2>11. PICK s \in Seq(DOMAIN made) : s = lineageIn(made)[store.head]
    <3>1. store.head \in {NoID} \cup DOMAIN made
      BY <2>8, Facts
    <3> QED
      BY <3>1, Facts, LineageRows
  <2>12. PICK b \in {NoID, store.head} : Settled(made, s, cut \cup {b})
    BY <2>7, <2>11 DEF StoreHolds
  <2>13. Settled(made, s, cut \cup {store.head})
    <3>1. CASE b = NoID
      <4>1. Settled(made, s, cut)
        BY <2>12, <3>1, Facts, SettledWithoutNone
      <4> QED
        BY <4>1, SettledWithout
    <3>2. CASE b = store.head
      BY <2>12, <3>2
    <3> QED
      BY <3>1, <3>2
  <2>14. TalkHolds(h, made, cut)
    BY <2>6, <2>11, <2>13 DEF TalkHolds
  <2>15. Agrees(h, made, store)
    BY <2>6 DEF Agrees
  <2>16. Holds(h, made, store, cut', failures' = 0) /\ h \in State
    BY <1>1, <2>5, <2>6, <2>10, <2>14, <2>15 DEF Holds, State
  <2> HIDE DEF State
  <2> QED
    BY <1>1, <1>2, <1>3, <1>4, <2>2, <2>16, MoveStep
<1> QED
  BY <1>5, <1>6

\* persistFails keeps the invariant.
LEMMA PersistFailsStep ==
  ASSUME SessionInv, NEW p \in Process, persistFails(p)
  PROVE  SessionInv'
<1>1. /\ fail(p) /\ proc[p].pc = "write" /\ UNCHANGED <<made, store, storeType>>
      /\ starts' = starts /\ turns' = turns /\ failures < MaxFailures /\ failures' = failures + 1
  BY DEF persistFails, writeFails, writing, storeFails
<1>2. failures' \in 0..MaxFailures /\ failures <= failures' /\ turns' \in 0..MaxTurns
      /\ failures' # 0
  BY <1>1, Facts, BashAssumption
<1> QED
  BY <1>1, <1>2, FailStep

\* persist keeps the invariant: a node is stored with the place that it has.
LEMMA PersistStep ==
  ASSUME SessionInv, NEW p \in Process, persist(p)
  PROVE  SessionInv'
<1>1. PICK g \in Running : g = proc[p] /\ g.pc = "write"
  BY AtWork DEF persist, writeReturns, writing
<1>2. WorkHolds(g, made, store) /\ TalkHolds(g, made, cut) /\ (failures = 0 => Agrees(g, made, store))
      /\ stage(g) = g.next /\ store.exists /\ g.head # NoID /\ ~g.closed
  BY <1>1, AtWork DEF WorkHolds, stage
<1>3. /\ UNCHANGED <<made, turns, storeType, starts, failures>> /\ cut' = cut
      /\ store' = [store EXCEPT !.nodes = @ \cup {g.head}, !.head = g.head]
  BY <1>1 DEF persist, writeReturns
<1>4. PICK b : b = IF g.next = "infer" THEN NoID ELSE g.batch
  OBVIOUS
<1>5. PICK a \in BOOLEAN : a = (g.arriving /\ g.next # "prompt")
  BY DEF Running
<1>6. PICK h : h = [g EXCEPT !.pc = g.next, !.batch = b, !.arriving = a]
  OBVIOUS
<1>7. b \in 0..MaxNodes
  BY <1>4, LoopAssumption DEF Running, NoID
<1>8. h \in Running
  BY <1>6, <1>7 DEF Running
<1>9. /\ h.pc = g.next /\ h.batch = b /\ h.head = g.head /\ h.graph = g.graph /\ h.closed = g.closed
      /\ h.idx = g.idx /\ h.step = g.step /\ h.callSeq = g.callSeq
      /\ h.pc \in {"arrive", "arrival", "prompt", "infer", "tools", "spawn"}
      /\ stage(h) = g.next
  BY <1>6 DEF Running, stage
<1>10. proc' = [proc EXCEPT ![p] = h]
  BY <1>1, <1>4, <1>5, <1>6, Facts DEF persist, writeReturns
<1>11. PICK st : st = store'
  OBVIOUS
<1>12. /\ st \in Session /\ st.nodes = store.nodes \cup {g.head} /\ st.head = g.head
       /\ st.exists /\ st.closed = store.closed /\ st.terminal = store.terminal
  <2>1. store \in Session /\ g.head \in 1..MaxNodes /\ g.head \in 0..MaxNodes
    BY <1>1, <1>2, Facts DEF Running, NoID
  <2>2. PICK N \in SUBSET (1..MaxNodes) : N = store.nodes \cup {g.head}
    BY <2>1 DEF Session
  <2>3. st = [store EXCEPT !.nodes = N, !.head = g.head]
    BY <1>3, <1>11, <2>2
  <2>4. st \in Session
    BY <2>1, <2>3 DEF Session
  <2>5. /\ st.nodes = N /\ st.head = g.head /\ st.exists = store.exists
        /\ st.closed = store.closed /\ st.terminal = store.terminal
    BY <2>1, <2>3 DEF Session
  <2> QED
    BY <1>2, <2>2, <2>4, <2>5
<1>13. PICK s \in Seq(DOMAIN made) : s = lineageIn(made)[g.head]
  BY <1>1, AtWork
<1>14. g.head \in DOMAIN made /\ g.head <= Len(made) /\ g.batch <= Len(made)
  BY <1>1, <1>2, AtWork DEF WorkHolds
<1>15. WorkHolds(h, made, st)
  <2>1. h.head <= Len(made) /\ h.batch <= Len(made)
    BY <1>4, <1>9, <1>14, Facts DEF NoID
  <2>2. h.pc \in {"arrive", "prompt", "infer"} => h.batch = NoID
    BY <1>1, <1>2, <1>4, <1>9 DEF WorkHolds
  <2>3. h.pc \in {"arrival", "tools", "spawn"} =>
          /\ h.batch = g.batch /\ h.batch # NoID /\ h.batch \in st.nodes
    BY <1>1, <1>2, <1>4, <1>9, <1>12 DEF WorkHolds
  <2>4. h.pc \in {"tools", "spawn"} => h.step < maxToolSteps /\ h.callSeq = made[h.batch].seq
    BY <1>1, <1>2, <1>9, <2>3 DEF WorkHolds
  <2>5. h.pc = "spawn" => /\ "teleport" \in ToSet(made[h.batch].calls) /\ h.idx = 1
                          /\ h.batch = h.head /\ h.batch = st.head
    BY <1>1, <1>2, <1>9, <1>12, <2>3 DEF WorkHolds
  <2> QED
    BY <1>2, <1>9, <1>12, <2>1, <2>2, <2>3, <2>4, <2>5 DEF WorkHolds
<1>16. TalkHolds(h, made, cut)
  BY <1>2, <1>4, <1>9 DEF TalkHolds
<1>17. failures = 0 => Agrees(h, made, st)
  BY <1>1, <1>2, <1>9, <1>12 DEF Agrees
<1>18. Holds(h, made, st, cut, failures = 0)
  BY <1>9, <1>12, <1>15, <1>16, <1>17 DEF Holds
<1>19. \A q \in Process : q # p => idle(proc[q])
  BY <1>1, AtWork
<1>20. StoreHolds(made, cut, store, held(g))
  BY <1>1, <1>19, OneHolds
<1>21. held(h) = {h.batch}
  BY <1>8 DEF held
<1>22. StoreHolds(made, cut, st, held(h))
  <2>1. /\ st.nodes \subseteq DOMAIN made /\ st.head \in {NoID} \cup st.nodes
        /\ st.terminal <= Len(made)
    BY <1>12, <1>14, <1>20 DEF StoreHolds
  <2>2. \E c \in {NoID, st.head} \cup (held(h) \cap st.nodes) : Settled(made, s, cut \cup {c})
    <3>1. CASE g.next \in {"prompt", "infer"}
      <4>1. Settled(made, s, cut)
        BY <1>2, <1>13, <3>1 DEF TalkHolds
      <4>2. Settled(made, s, cut \cup {NoID})
        BY <4>1, SettledWithout
      <4> QED
        BY <4>2
    <3>2. CASE g.next = "arrive"
      <4>1. Settled(made, s, cut \cup {st.head})
        BY <1>2, <1>12, <1>13, <3>2 DEF TalkHolds
      <4> QED
        BY <4>1
    <3>3. CASE g.next \in {"arrival", "tools", "spawn"}
      <4>1. Settled(made, s, cut \cup {g.batch}) /\ h.batch = g.batch /\ h.batch \in st.nodes
        BY <1>2, <1>9, <1>13, <1>15, <1>4, <3>3 DEF TalkHolds, WorkHolds
      <4> QED
        BY <1>21, <4>1
    <3> QED
      BY <1>9, <3>1, <3>2, <3>3
  <2> QED
    BY <1>12, <1>13, <2>1, <2>2 DEF StoreHolds
<1>23. StoreIsWhole'
  <2> SUFFICES ASSUME failures = 0
               PROVE  st.nodes = ToSet(lineage'[st.head]) /\ (st.closed => st.terminal = st.head)
    BY <1>3, <1>11 DEF StoreIsWhole
  <2>1. /\ g.graph = store.nodes \cup {g.head} /\ made[g.head].parent = store.head
        /\ g.closed = store.closed
    BY <1>1, <1>2 DEF Agrees
  <2>2. lineage' = lineageIn(made) /\ lineage = lineageIn(made)
    BY <1>3, LineageIsLineage
  <2>3. store.nodes = ToSet(lineageIn(made)[store.head])
    BY <2>2, Facts DEF StoreIsWhole
  <2>4. store.head \in {NoID} \cup DOMAIN made
    BY <1>20 DEF StoreHolds
  <2>5. PICK t \in Seq(DOMAIN made) : t = lineageIn(made)[store.head]
    BY <2>4, Facts, LineageRows
  <2>6. lineageIn(made)[g.head] = Append(t, g.head)
    <3>1. \A n \in DOMAIN made : lineageIn(made)[n] = Append(lineageIn(made)[made[n].parent], n)
      BY Facts, LineageRows
    <3> QED
      BY <1>14, <2>1, <2>5, <3>1
  <2>7. ToSet(Append(t, g.head)) = ToSet(t) \cup {g.head}
    BY <1>14, AppendToSet
  <2> QED
    BY <1>2, <1>12, <2>1, <2>2, <2>3, <2>5, <2>6, <2>7
<1>24. /\ proc' \in [Process -> State] /\ proc'[p] = h
       /\ \A q \in Process : q # p => proc'[q] = proc[q]
  BY <1>8, <1>10, Facts DEF State
<1>25. \A q \in Process : q # p => idle(proc'[q]) /\ (proc'[q].pc = "open" => store'.exists)
  BY <1>11, <1>12, <1>19, <1>24
<1>26. /\ Holds(proc'[p], made', store', cut', failures' = 0)
       /\ StoreHolds(made', cut', store', held(proc'[p]))
  BY <1>3, <1>11, <1>18, <1>22, <1>24
<1>27. /\ made' \in Seq(Node) /\ Len(made') <= MaxNodes /\ NodesFit(made')
       /\ cut' \subseteq 1..Len(made') /\ turns' \in 0..MaxTurns /\ storeType' = storeType
       /\ store' \in Session /\ starts' \in 0..MaxStarts /\ failures' \in 0..MaxFailures
  BY <1>3, <1>11, <1>12, Facts
<1> HIDE DEF State, Session
<1> QED
  BY <1>23, <1>24, <1>25, <1>26, <1>27, SessionGoesOn

\* handoff keeps the invariant.
LEMMA HandoffStep ==
  ASSUME SessionInv, NEW p \in Process, handoff(p)
  PROVE  SessionInv'
<1>1. PICK r \in Process :
        /\ starts < MaxStarts /\ starts' = starts + 1 /\ spawnHandoff(p, r, "bolt")
        /\ UNCHANGED <<storeType, store, failures>>
  BY DEF handoff
<1>2. PICK g \in Running : g = proc[p] /\ g.pc = "spawn"
  BY <1>1, AtWork DEF spawnHandoff
<1>3. WorkHolds(g, made, store) /\ store.exists
  BY <1>2, AtWork
<1>4. PICK h \in Running : h = [g EXCEPT !.pc = "teleported"]
  BY DEF Running
<1>5. h.pc = "teleported" /\ h.batch = g.batch /\ h.head = g.head
  BY <1>4 DEF Running
<1>6. /\ proc[r] = off /\ p # r /\ UNCHANGED <<made, turns>> /\ cut' = cut
      /\ proc' = [proc EXCEPT ![p].pc = "teleported", ![r] = opening("bolt")]
  BY <1>1, <1>2 DEF spawnHandoff, off
<1>7. opening("bolt") \in State /\ idle(opening("bolt"))
  BY DEF opening, State, idle
<1>8. h \in State
  BY DEF State
<1>9. /\ proc' \in [Process -> State] /\ proc'[p] = h /\ proc'[r] = opening("bolt")
      /\ \A q \in Process : q \notin {p, r} => proc'[q] = proc[q]
  <2>1. proc \in [Process -> State] /\ p \in Process /\ r \in Process
    BY Facts
  <2>2. proc' = [[proc EXCEPT ![p] = h] EXCEPT ![r] = opening("bolt")]
    BY <1>2, <1>4, <1>6, <2>1
  <2> HIDE DEF State
  <2> QED
    BY <1>6, <1>7, <1>8, <2>1, <2>2
<1>10. \A q \in Process : q # p => idle(proc[q])
  BY <1>2, AtWork
<1>11. \A q \in Process : q # p => idle(proc'[q]) /\ (proc'[q].pc = "open" => store'.exists)
  BY <1>1, <1>3, <1>7, <1>9, <1>10
<1>12. WorkHolds(h, made, store)
  BY <1>2, <1>3, <1>5 DEF WorkHolds, stage
<1>13. TalkHolds(h, made, cut)
  BY <1>5 DEF TalkHolds, stage
<1>14. Agrees(h, made, store)
  BY <1>5 DEF Agrees
<1>15. Holds(h, made, store, cut, failures = 0)
  BY <1>5, <1>12, <1>13, <1>14 DEF Holds
<1>16. held(h) = held(proc[p])
  BY <1>2, <1>5 DEF held
<1>17. StoreHolds(made, cut, store, held(h))
  BY <1>10, <1>16, OneHolds
<1>18. StoreIsWhole'
  <2>1. lineage' = lineage
    BY <1>6, LineageIsLineage
  <2> QED
    BY <1>1, <2>1, Facts DEF StoreIsWhole
<1>19. /\ Holds(proc'[p], made', store', cut', failures' = 0)
       /\ StoreHolds(made', cut', store', held(proc'[p]))
  BY <1>1, <1>6, <1>9, <1>15, <1>17
<1>20. /\ made' \in Seq(Node) /\ Len(made') <= MaxNodes /\ NodesFit(made')
       /\ cut' \subseteq 1..Len(made') /\ turns' \in 0..MaxTurns /\ storeType' = storeType
       /\ store' \in Session /\ starts' \in 0..MaxStarts /\ failures' \in 0..MaxFailures
  BY <1>1, <1>6, Facts, BashAssumption
<1> HIDE DEF State, Session
<1> QED
  BY <1>9, <1>11, <1>18, <1>19, <1>20, SessionGoesOn

\* close keeps the invariant: the session ends at its head.
LEMMA CloseStep ==
  ASSUME SessionInv, NEW p \in Process, close(p)
  PROVE  SessionInv'
<1>1. PICK g \in Running : g = proc[p] /\ g.pc = "close"
  BY AtWork DEF close
<1>2. /\ proc' = [proc EXCEPT ![p] = off]
      /\ UNCHANGED <<made, turns, storeType, starts>> /\ cut' = cut
  BY DEF close
<1>3. /\ WorkHolds(g, made, store) /\ store.exists /\ g.batch = NoID
      /\ held(g) = {NoID} /\ (failures = 0 => Agrees(g, made, store))
  BY <1>1, AtWork DEF WorkHolds, stage
<1>4. \A q \in Process : q # p => idle(proc[q])
  BY <1>1, AtWork
<1>5. NoID \notin store.nodes
  BY Facts DEF Session, NoID
<1>6. cut \subseteq cut' /\ cut' \subseteq 1..Len(made)
  BY <1>2, Facts
<1>7. CASE store' = store /\ failures' \in 0..MaxFailures /\ failures <= failures'
  <2>1. \A b \in held(proc[p]) \cap store.nodes : b = store.head \/ b \in cut'
    BY <1>1, <1>3, <1>5
  <2> HIDE DEF off
  <2> QED
    BY <1>1, <1>2, <1>4, <1>6, <1>7, <2>1, StopStep
<1>8. CASE /\ ~g.closed /\ failures' = failures
           /\ store' = [store EXCEPT !.closed = TRUE, !.terminal = g.head]
  <2>1. PICK st : st = store'
    OBVIOUS
  <2>2. /\ st \in Session /\ st.nodes = store.nodes /\ st.head = store.head /\ st.exists
        /\ st.closed /\ st.terminal = g.head
    <3>1. store \in Session /\ g.head \in 0..MaxNodes
      BY Facts DEF Running
    <3>2. st = [store EXCEPT !.closed = TRUE, !.terminal = g.head]
      BY <1>8, <2>1
    <3> QED
      BY <1>3, <3>1, <3>2 DEF Session
  <2>3. StoreHolds(made, cut, store, held(g))
    BY <1>1, <1>4, OneHolds
  <2>4. StoreHolds(made, cut, st, {})
    <3>1. /\ store.nodes \subseteq DOMAIN made /\ store.head \in {NoID} \cup store.nodes
          /\ \E b \in {NoID, store.head} : Settled(made, lineageIn(made)[store.head], cut \cup {b})
      BY <1>3, <2>3 DEF StoreHolds
    <3>2. g.head <= Len(made)
      BY <1>3 DEF WorkHolds
    <3> QED
      BY <2>2, <3>1, <3>2 DEF StoreHolds
  <2>5. StoreIsWhole'
    <3> SUFFICES ASSUME failures = 0
                 PROVE  st.nodes = ToSet(lineage'[st.head]) /\ st.terminal = st.head
      BY <1>8, <2>1 DEF StoreIsWhole
    <3>1. g.head = store.head
      BY <1>1, <1>3 DEF Agrees
    <3>2. lineage' = lineage
      BY <1>2, LineageIsLineage
    <3> QED
      BY <2>2, <3>1, <3>2, Facts DEF StoreIsWhole
  <2>6. off \in State /\ held(off) = {} /\ Holds(off, made, st, cut, failures = 0)
    BY DEF State, held, Holds, off, Running
  <2> HIDE DEF off
  <2>7. /\ proc' \in [Process -> State] /\ proc'[p] = off
        /\ \A q \in Process : q # p => proc'[q] = proc[q]
    <3> HIDE DEF State
    <3> QED
      BY <1>2, <2>6, Facts
  <2>8. \A q \in Process : q # p => idle(proc'[q]) /\ (proc'[q].pc = "open" => store'.exists)
    BY <1>4, <2>1, <2>2, <2>7
  <2>9. /\ Holds(proc'[p], made', store', cut', failures' = 0)
        /\ StoreHolds(made', cut', store', held(proc'[p]))
    BY <1>2, <1>8, <2>1, <2>4, <2>6, <2>7
  <2>10. /\ made' \in Seq(Node) /\ Len(made') <= MaxNodes /\ NodesFit(made')
         /\ cut' \subseteq 1..Len(made') /\ turns' \in 0..MaxTurns /\ storeType' = storeType
         /\ store' \in Session /\ starts' \in 0..MaxStarts /\ failures' \in 0..MaxFailures
    BY <1>2, <1>8, <2>1, <2>2, Facts
  <2> HIDE DEF State, Session
  <2> QED
    BY <2>5, <2>7, <2>8, <2>9, <2>10, SessionGoesOn
<1>9. \/ store' = store /\ failures' \in 0..MaxFailures /\ failures <= failures'
      \/ /\ ~g.closed /\ failures' = failures
         /\ store' = [store EXCEPT !.closed = TRUE, !.terminal = g.head]
  BY <1>1, Facts, BashAssumption DEF close, storeFails
<1> QED
  BY <1>7, <1>8, <1>9

\* newHarness keeps the invariant.
LEMMA NewHarnessStep ==
  ASSUME SessionInv, NEW p \in Process, newHarness(p)
  PROVE  SessionInv'
<1>1. /\ proc[p].pc = "create" /\ UNCHANGED <<turns, storeType, starts>> /\ cut' = cut
  BY DEF newHarness
<1>2. /\ ~store.exists /\ made = << >> /\ store = noSession
      /\ \A q \in Process : q # p => idle(proc[q])
  <2>1. ~store.exists
    BY <1>1, Facts DEF Holds
  <2>2. \A q \in Process : q # p => idle(proc[q])
    BY <1>1, Facts DEF idle
  <2>3. StoreHolds(made, cut, store, held(proc[p]))
    BY <2>2, OneHolds
  <2> QED
    BY <2>1, <2>2, <2>3 DEF StoreHolds
<1>3. CASE storeFails /\ proc' = [proc EXCEPT ![p] = off] /\ UNCHANGED <<made, store>>
  <2>1. failures' \in 0..MaxFailures /\ failures <= failures'
    BY <1>3, Facts, BashAssumption DEF storeFails
  <2>2. held(proc[p]) = {}
    BY <1>1, Facts, StateKinds
  <2>3. cut \subseteq cut' /\ cut' \subseteq 1..Len(made)
    BY <1>1, Facts
  <2> HIDE DEF off
  <2> QED
    BY <1>1, <1>2, <1>3, <2>1, <2>2, <2>3, StopStep
<1>4. CASE /\ store' = [noSession EXCEPT !.exists = TRUE] /\ failures' = failures
           /\ made' = Append(made, node(NoID, "system", << >>, 0, 0))
           /\ proc' = [proc EXCEPT ![p] =
                [[running("arrive", {}, NoID, FALSE) EXCEPT !.arriving = TRUE]
                   EXCEPT !.graph = {Len(made) + 1}, !.head = Len(made) + 1,
                          !.next = "arrive", !.pc = "write"]]
  <2>1. PICK x : x = node(NoID, "system", << >>, 0, 0)
    OBVIOUS
  <2>2. 0 \in 0..maxToolSteps /\ 0 \in 0..MaxNodes /\ 1 \in 1..MaxNodes /\ 1 \in 0..MaxNodes
    BY LoopAssumption
  <2>3. x \in Node /\ x.parent = NoID /\ x.role = "system"
    <3>1. << >> \in Seq({"tool", "teleport"})
      OBVIOUS
    <3> QED
      BY <2>1, <2>2, <3>1 DEF node, Node, NoID
  <2>4. Len(made) + 1 = 1
    BY <1>2
  <2>5. PICK h : h = [[running("arrive", {}, NoID, FALSE) EXCEPT !.arriving = TRUE]
                        EXCEPT !.graph = {1}, !.head = 1, !.next = "arrive", !.pc = "write"]
    OBVIOUS
  <2>6. proc' = [proc EXCEPT ![p] = h] /\ made' = Append(made, x)
    BY <1>4, <2>1, <2>4, <2>5
  <2>7. /\ h.pc = "write" /\ h.next = "arrive" /\ h.graph = {1} /\ h.head = 1 /\ h.closed = FALSE
        /\ h.arriving = TRUE /\ h.batch = NoID
    BY <2>5 DEF running
  <2>8. h \in Running
    <3>1. {1} \in SUBSET (1..MaxNodes)
      BY <2>2
    <3> QED
      BY <2>2, <2>5, <3>1 DEF running, Running, NoID
  <2>9. made \in Seq(Node) /\ NodesFit(made)
    BY Facts
  <2>10. /\ NodesFit(made') /\ Extends(made', made) /\ made'[1] = x
         /\ lineageIn(made')[1] = Append(lineageIn(made)[NoID], 1)
         /\ lineageIn(made')[NoID] = lineageIn(made)[NoID]
    BY <2>3, <2>4, <2>6, <2>9, NodesGrow
  <2>11. lineageIn(made)[NoID] = << >>
    BY Facts, LineageRows
  <2>12. made' \in Seq(Node) /\ Len(made') = 1
    <3>1. Len(Append(made, x)) = Len(made) + 1
      BY <2>9
    <3> QED
      BY <2>4, <2>6, <2>10, <3>1 DEF Extends
  <2>13. PICK st : st = store'
    OBVIOUS
  <2>14. /\ st \in Session /\ st.exists = TRUE /\ st.nodes = {} /\ st.head = NoID
         /\ st.closed = FALSE /\ st.terminal = NoID
    BY <1>4, <2>2, <2>13 DEF noSession, Session, NoID
  <2>15. WorkHolds(h, made', st)
    BY <2>7, <2>12, <2>14 DEF WorkHolds, stage, NoID
  <2>16. Settled(made', lineageIn(made')[1], cut \cup {1})
    <3>1. << >> \in Seq(DOMAIN made) /\ Settled(made, << >>, cut) /\ cut \subseteq cut \cup {1}
      BY DEF Settled
    <3>2. x.role # "calls"
      BY <2>3
    <3>3. Settled(Append(made, x), Append(<< >>, Len(made) + 1), cut \cup {1})
      BY <2>3, <2>9, <3>1, <3>2, SettledGrows
    <3> QED
      BY <2>4, <2>6, <2>10, <2>11, <3>3
  <2>17. TalkHolds(h, made', cut)
    BY <2>7, <2>16 DEF TalkHolds, stage
  <2>18. Agrees(h, made', st)
    BY <2>3, <2>7, <2>10, <2>14 DEF Agrees
  <2>19. StoreHolds(made', cut, st, held(h))
    <3>1. Settled(made', lineageIn(made')[st.head], cut \cup {NoID})
      BY <2>10, <2>11, <2>14 DEF Settled
    <3>2. st.terminal <= Len(made')
      BY <2>12, <2>14 DEF NoID
    <3> QED
      BY <2>14, <3>1, <3>2 DEF StoreHolds
  <2>20. StoreIsWhole'
    <3>1. lineage'[NoID] = << >>
      BY <2>10, <2>11, LineageIsLineage
    <3>2. ToSet(<< >>) = {}
      BY DEF ToSet
    <3> QED
      BY <2>13, <2>14, <3>1, <3>2 DEF StoreIsWhole
  <2>21. h \in State
    BY <2>8 DEF State
  <2> HIDE DEF State
  <2>22. /\ proc' \in [Process -> State] /\ proc'[p] = h
         /\ \A q \in Process : q # p => proc'[q] = proc[q]
    BY <2>6, <2>21, Facts
  <2>23. \A q \in Process : q # p => idle(proc'[q]) /\ (proc'[q].pc = "open" => store'.exists)
    BY <1>2, <2>13, <2>14, <2>22
  <2>24. /\ Holds(proc'[p], made', store', cut', failures' = 0)
         /\ StoreHolds(made', cut', store', held(proc'[p]))
    BY <1>1, <2>7, <2>13, <2>15, <2>17, <2>18, <2>19, <2>22 DEF Holds
  <2>25. /\ Len(made') <= MaxNodes
         /\ cut' \subseteq 1..Len(made') /\ turns' \in 0..MaxTurns /\ storeType' = storeType
         /\ store' \in Session /\ starts' \in 0..MaxStarts /\ failures' \in 0..MaxFailures
    <3>1. cut = {}
      BY <1>2, Facts
    <3> QED
      BY <1>1, <1>4, <2>2, <2>12, <2>13, <2>14, <3>1, Facts
  <2> HIDE DEF Session
  <2> QED
    BY <2>10, <2>12, <2>20, <2>22, <2>23, <2>24, <2>25, SessionGoesOn
<1> QED
  BY <1>1, <1>3, <1>4 DEF newHarness

-----------------------------------------------------------------------------
(* The theorems *)

\* The invariant holds at first.
LEMMA SessionStarts ==
  ASSUME BashInit
  PROVE  SessionInv
<1>1. /\ made = << >> /\ proc = [p \in Process |-> off] /\ turns = 0 /\ cut = {}
      /\ storeType \in StoreType /\ store = noSession /\ starts = 0 /\ failures = 0
  BY DEF BashInit, LoopInit
<1>2. 0 \in 0..MaxTurns /\ 0 \in 0..MaxStarts /\ 0 \in 0..MaxFailures /\ 0 \in 0..MaxNodes
      /\ 0 <= MaxNodes
  BY LoopAssumption, BashAssumption
<1>3. made \in Seq(Node) /\ Len(made) = 0 /\ DOMAIN made = {}
  BY <1>1
<1>4. \A p \in Process : proc[p] = off
  BY <1>1
<1>5. off \notin Running /\ off.pc = "off" /\ idle(off)
  BY DEF off, Running, idle
<1>6. BashTypeOK
  <2>1. proc \in [Process -> {off, [pc |-> "create"]} \cup Running
                   \cup [pc : {"open"}, store : {"mem", "bolt", "leveldb", "sgpd"}]]
    BY <1>1
  <2>2. store \in [exists : BOOLEAN, nodes : SUBSET (1..MaxNodes), head : 0..MaxNodes,
                   closed : BOOLEAN, terminal : 0..MaxNodes]
    BY <1>1, <1>2 DEF noSession, NoID
  <2> QED
    BY <1>1, <1>2, <1>3, <2>1, <2>2 DEF BashTypeOK, LoopTypeOK
<1>7. NodesFit(made)
  BY <1>3 DEF NodesFit
<1>8. lineageIn(made)[NoID] = << >>
  BY <1>3, <1>7, NodesAreRooted, LineageRows
<1>9. store.nodes = {} /\ store.head = NoID /\ store.terminal = NoID /\ ~store.closed
  BY <1>1 DEF noSession
<1>10. StoreHolds(made, cut, store, batches(proc))
  <2>1. Settled(made, lineageIn(made)[store.head], cut \cup {NoID})
    BY <1>8, <1>9 DEF Settled
  <2>2. store.terminal <= Len(made)
    BY <1>3, <1>9 DEF NoID
  <2> QED
    BY <1>1, <1>9, <2>1, <2>2 DEF StoreHolds
<1>11. StoreIsWhole
  <2>1. ToSet(<< >>) = {}
    BY DEF ToSet
  <2> QED
    BY <1>8, <1>9, <2>1, LineageIsLineage DEF StoreIsWhole
<1>12. ProcessesHold
  BY <1>4, <1>5 DEF ProcessesHold
<1> QED
  BY <1>6, <1>7, <1>10, <1>11, <1>12 DEF SessionInv

\* Every step keeps the invariant.
LEMMA SessionStep ==
  ASSUME SessionInv, [BashNext]_bashVars
  PROVE  SessionInv'
<1>1. CASE UNCHANGED bashVars
  <2>1. UNCHANGED <<made, proc, turns, cut, storeType, store, starts, failures>>
    BY <1>1 DEF bashVars
  <2>2. BashTypeOK'
    BY <2>1 DEF SessionInv, BashTypeOK, LoopTypeOK
  <2>3. lineage' = lineage
    BY <2>1, LineageIsLineage
  <2>4. StoreIsWhole'
    BY <2>1, <2>3 DEF SessionInv, StoreIsWhole
  <2>5. ProcessesHold'
    BY <2>1 DEF SessionInv, ProcessesHold
  <2> QED
    BY <2>1, <2>2, <2>4, <2>5 DEF SessionInv
<1>2. CASE BashNext
  <2>1. PICK p \in Process :
          \/ Work(p)
          \/ (handleTurn(p) \/ quit(p)) /\ UNCHANGED storeVars
          \/ main(p) \/ crash(p)
    BY <1>2 DEF BashNext
  <2>2. CASE LoopStep(p) /\ UNCHANGED storeVars
    BY <2>2, InferenceFailsStep, FinalAnswerStep, ToolCallsStep, ExecuteToolStep, SpawnFailsStep,
       ExitTeleportedStep, HandleArrivalStep, ArrivalResultStep DEF LoopStep
  <2>3. CASE Work(p) /\ ~(LoopStep(p) /\ UNCHANGED storeVars)
    BY <2>3, NewHarnessStep, ResumeHarnessStep, PersistStep, PersistFailsStep, HandoffStep,
       CloseStep DEF Work
  <2> QED
    BY <2>1, <2>2, <2>3, HandleTurnStep, QuitStep, MainStep, CrashStep
<1> QED
  BY <1>1, <1>2

\* The inductive invariant: whoever opens the store of a session, it holds one
\* conversation that can be taken up, and its one user agrees with it.
THEOREM SessionInvariant == BashSpec => []SessionInv
<1>1. BashInit => SessionInv
  BY SessionStarts
<1>2. SessionInv /\ [BashNext]_bashVars => SessionInv'
  BY SessionStep
<1> QED
  BY <1>1, <1>2, PTL DEF BashSpec

\* persist, spawnHandoff and handleArrival keep the session with one writer that
\* agrees with the store, across crashes and hand-overs.
THEOREM OneWriterAgrees == BashSpec => []BashInv
<1>1. SessionInv => BashInv
  <2> SUFFICES ASSUME SessionInv PROVE BashInv
    OBVIOUS
  <2>1. ASSUME NEW p \in Process, failures = 0,
               proc[p].pc \in {"arrive", "arrival", "prompt", "infer", "tools", "spawn", "write"}
        PROVE  /\ proc[p].closed = store.closed
               /\ IF writing(p) THEN /\ proc[p].graph = store.nodes \cup {proc[p].head}
                                     /\ made[proc[p].head].parent = store.head
                  ELSE proc[p].graph = store.nodes /\ proc[p].head = store.head
    <3>1. Agrees(proc[p], made, store)
      BY <2>1, AtWork
    <3> QED
      BY <2>1, <3>1 DEF Agrees, writing
  <2>2. GraphMatchesStore
    BY <2>1 DEF GraphMatchesStore
  <2> QED
    BY <2>2 DEF SessionInv, BashInv
<1> QED
  BY <1>1, SessionInvariant, PTL

\* What runInferenceLoop sends to the model is always a conversation that the
\* model can continue: the batches that were not broken off are answered.
THEOREM ModelGetsWholeConversations == BashSpec => []ConversationIsWellFormed
<1>1. SessionInv => ConversationIsWellFormed
  <2> SUFFICES ASSUME SessionInv PROVE ConversationIsWellFormed
    OBVIOUS
  <2>1. ASSUME NEW p \in Process, canInfer(p)
        PROVE  proc[p].head \in DOMAIN made /\ Settled(made, lineageIn(made)[proc[p].head], cut)
    <3>1. proc[p].pc = "infer" /\ proc[p].head # NoID
      BY <2>1 DEF canInfer, resumes
    <3>2. proc[p].head \in DOMAIN made
      BY <3>1, AtWork
    <3>3. Settled(made, lineageIn(made)[proc[p].head], cut)
      BY <3>1, AtWork DEF TalkHolds, stage
    <3> QED
      BY <3>2, <3>3
  <2> QED
    BY <2>1, Facts, WellFormedConversation
<1> QED
  BY <1>1, SessionInvariant, PTL

=============================================================================
