-------------------------- MODULE AdkSessionProofs ---------------------------
(***************************************************************************)
(* The ADK session service keeps the copies of a session in agreement and  *)
(* the state of a user out of the sessions of others, for every set of     *)
(* users, session IDs and callers and whatever saves fail.                 *)
(***************************************************************************)
EXTENDS AdkSession, CommonFacts

-----------------------------------------------------------------------------
(* The inductive invariant *)

\* A user's own value, if there is one.
OwnState(u, state) == "user:k" \in DOMAIN state => state["user:k"][1] = u

\* The sequence shown is the sequence graph with some elements left out.
Subsequence(shown, graph) ==
  /\ IsInjective(graph) /\ ToSet(shown) \subseteq ToSet(graph)
  /\ \A i, j \in DOMAIN shown : i < j =>
       \E a, b \in DOMAIN graph : a < b /\ graph[a] = shown[i] /\ graph[b] = shown[j]

\* A session of user u after n events: well typed, its events a part of its graph,
\* and every node numbered before.
SessionHolds(t, u, n) ==
  /\ t \in trackedSession
  /\ Subsequence(t.events, t.graph)
  /\ \A i \in DOMAIN t.graph : t.graph[i] <= n
  /\ OwnState(u, t.state)

\* A snapshot is a graph without its last nodes, the whole graph if no save
\* failed, and has every event whose call returned.
FileHolds(file, graph, done, failed) ==
  /\ IsPrefix(file, graph)
  /\ failed = 0 => file = graph
  /\ done \subseteq ToSet(file)

AdkInv ==
  /\ AdkTypeOK
  /\ \A u \in User : OwnState(u, userState[u])
  /\ \A k \in Key : sessions[k].on => SessionHolds(sessions[k], k[1], count)
  /\ \A k \in Key : sessions[k].on /\ Sole(k) =>
       FileHolds(files[k[2]], sessions[k].graph, kept[k], failures)
  /\ \A k \in Key : ~sessions[k].on => kept[k] = {}

-----------------------------------------------------------------------------
(* Maps of state *)

\* Numbers of events are numbers.
LEMMA EventIDs ==
  ASSUME NEW n \in Nat
  PROVE  /\ EventID \subseteq Nat
         /\ n + 1 <= MaxEvents => n + 1 \in EventID
BY AdkAssumption DEF AdkAssumption, EventID

\* A merge has the keys of both maps.
LEMMA MergeType ==
  ASSUME NEW A, NEW B, NEW C, A \subseteq C, B \subseteq C,
         NEW a \in StateOf(A), NEW b \in StateOf(B)
  PROVE  mergeMaps(a, b) \in StateOf(C)
<1>1. PICK ka \in SUBSET A : a \in [ka -> Value]
  BY DEF StateOf
<1>2. PICK kb \in SUBSET B : b \in [kb -> Value]
  BY DEF StateOf
<1>3. mergeMaps(a, b) \in [ka \cup kb -> Value]
  BY <1>1, <1>2 DEF mergeMaps
<1>4. ka \cup kb \in SUBSET C
  OBVIOUS
<1> QED
  BY <1>3, <1>4 DEF StateOf

\* A part of a map has the keys that were asked for.
LEMMA OnlyType ==
  ASSUME NEW A, NEW B, NEW a \in StateOf(A)
  PROVE  only(a, B) \in StateOf(B)
<1>1. PICK ka \in SUBSET A : a \in [ka -> Value]
  BY DEF StateOf
<1>2. only(a, B) \in [ka \cap B -> Value]
  BY <1>1 DEF only
<1>3. ka \cap B \in SUBSET B
  OBVIOUS
<1> QED
  BY <1>2, <1>3 DEF StateOf

\* A merge of two maps with a user's own value has that user's value.
LEMMA MergeOwn ==
  ASSUME NEW u, NEW a, NEW b, OwnState(u, a), OwnState(u, b)
  PROVE  OwnState(u, mergeMaps(a, b))
BY DEF OwnState, mergeMaps

\* A part of a map is as private as the map.
LEMMA OnlyOwn ==
  ASSUME NEW u, NEW a, NEW B, OwnState(u, a)
  PROVE  OwnState(u, only(a, B))
BY DEF OwnState, only

\* A map of keys of the app has no user's value.
LEMMA AppOwn ==
  ASSUME NEW u, NEW a \in StateOf({"app:k"})
  PROVE  OwnState(u, a)
<1>1. PICK ka \in SUBSET {"app:k"} : a \in [ka -> Value]
  BY DEF StateOf
<1> QED
  BY <1>1 DEF OwnState

\* What a caller may pass for user u is well typed and names u.
LEMMA DeltaHolds ==
  ASSUME count \in Nat,
         NEW u \in User, NEW delta \in Delta(u), count + 1 \in EventID \/ delta = noState
  PROVE  delta \in StateOf(StateKey) /\ OwnState(u, delta)
<1>1. CASE delta = noState
  <2>1. noState \in [{} -> Value]
    BY DEF noState
  <2>2. {} \in SUBSET StateKey
    OBVIOUS
  <2>3. noState \in StateOf(StateKey)
    BY <2>1, <2>2 DEF StateOf
  <2>4. OwnState(u, noState)
    BY DEF OwnState, noState
  <2> QED
    BY <1>1, <2>3, <2>4
<1>2. CASE delta # noState
  <2>1. count + 1 \in EventID
    BY <1>2
  <2>2. <<u, count + 1>> \in Value /\ <<u, count + 1>>[1] = u
    BY <2>1 DEF Value
  <2>3. PICK keys \in {{"app:k", "k"}, {"user:k", "temp:k"}} : delta = [x \in keys |-> <<u, count + 1>>]
    BY <1>2 DEF Delta
  <2>4. keys \in SUBSET StateKey
    BY <2>3 DEF StateKey
  <2>5. delta \in [keys -> Value]
    BY <2>2, <2>3
  <2>6. delta \in StateOf(StateKey)
    BY <2>4, <2>5 DEF StateOf
  <2>7. OwnState(u, delta)
    BY <2>2, <2>3 DEF OwnState
  <2> QED
    BY <2>6, <2>7
<1> QED
  BY <1>1, <1>2

-----------------------------------------------------------------------------
(* Sessions *)

\* Appending a new node to the graph keeps a session in order.
LEMMA GraphAppended ==
  ASSUME NEW t, NEW u, NEW n \in Nat, SessionHolds(t, u, n), n + 1 \in EventID,
         NEW state \in StateOf(StateKey), OwnState(u, state)
  PROVE  SessionHolds([t EXCEPT !.state = state, !.graph = Append(t.graph, n + 1)], u, n + 1)
<1>1. PICK g \in Seq(EventID), v \in Seq(EventID) : g = t.graph /\ v = t.events
  BY DEF SessionHolds, trackedSession
<1>2. PICK e \in EventID : e = n + 1
  OBVIOUS
<1>3. PICK h : h = Append(g, e)
  OBVIOUS
<1>4. /\ h \in Seq(EventID) /\ DOMAIN h = 1..(Len(g) + 1) /\ h[Len(g) + 1] = e
      /\ \A i \in 1..Len(g) : h[i] = g[i]
      /\ DOMAIN g = 1..Len(g) /\ Len(g) \in Nat
  BY <1>3, AppendPositions
<1>5. \A i \in DOMAIN g : g[i] <= n /\ g[i] \in Nat
  <2>1. \A i \in DOMAIN g : g[i] <= n
    BY <1>1 DEF SessionHolds
  <2>2. \A i \in DOMAIN g : g[i] \in Nat
    BY <1>4, EventIDs
  <2> QED
    BY <2>1, <2>2
<1>6. e \notin ToSet(g)
  BY <1>2, <1>5 DEF ToSet
<1>7. IsInjective(h)
  BY <1>1, <1>3, <1>6, AppendedOnce DEF SessionHolds, Subsequence
<1>8. ToSet(h) = ToSet(g) \cup {e}
  <2>1. ToSet(Append(g, e)) = ToSet(g) \cup {e}
    BY AppendToSet
  <2> QED
    BY <1>3, <2>1
<1>9. \A i \in DOMAIN h : h[i] <= n + 1
  <2> TAKE i \in DOMAIN h
  <2>1. CASE i \in 1..Len(g)
    BY <1>4, <1>5, <2>1
  <2>2. CASE i = Len(g) + 1
    BY <1>2, <1>4, <2>2
  <2> QED
    BY <1>4, <2>1, <2>2
<1>10. \A i, j \in DOMAIN v : i < j => \E a, b \in DOMAIN h : a < b /\ h[a] = v[i] /\ h[b] = v[j]
  <2> SUFFICES ASSUME NEW i \in DOMAIN v, NEW j \in DOMAIN v, i < j
               PROVE  \E a, b \in DOMAIN h : a < b /\ h[a] = v[i] /\ h[b] = v[j]
    OBVIOUS
  <2>1. PICK a \in DOMAIN g, b \in DOMAIN g : a < b /\ g[a] = v[i] /\ g[b] = v[j]
    BY <1>1 DEF SessionHolds, Subsequence
  <2> QED
    BY <1>4, <2>1
<1>11. Subsequence(v, h)
  BY <1>1, <1>7, <1>8, <1>10 DEF SessionHolds, Subsequence
<1>12. PICK w : w = [t EXCEPT !.state = state, !.graph = h]
  OBVIOUS
<1>13. t \in trackedSession /\ h \in Seq(EventID)
  BY <1>4 DEF SessionHolds
<1>14. w \in trackedSession /\ w.graph = h /\ w.events = v /\ w.state = state
  BY <1>1, <1>12, <1>13 DEF trackedSession
<1>15. SessionHolds(w, u, n + 1)
  BY <1>9, <1>11, <1>14 DEF SessionHolds
<1> QED
  BY <1>1, <1>2, <1>3, <1>12, <1>15

\* An event shown with its node last stays in the order of the graph.
LEMMA EventShown ==
  ASSUME NEW t, NEW u, NEW n \in Nat, SessionHolds(t, u, n), NEW e, t.graph # << >>,
         e = t.graph[Len(t.graph)], e \notin ToSet(t.events)
  PROVE  SessionHolds([t EXCEPT !.events = Append(@, e)], u, n)
<1>1. PICK g \in Seq(EventID), v \in Seq(EventID) : g = t.graph /\ v = t.events
  BY DEF SessionHolds, trackedSession
<1>2. /\ Len(g) \in Nat /\ Len(g) \in DOMAIN g /\ DOMAIN g = 1..Len(g) /\ g[Len(g)] = e
      /\ e \in EventID /\ e \in ToSet(g)
  <2>1. Len(g) \in Nat /\ Len(g) >= 1 /\ DOMAIN g = 1..Len(g)
    BY <1>1
  <2>2. Len(g) \in DOMAIN g /\ g[Len(g)] = e
    BY <1>1, <2>1
  <2>3. e \in EventID /\ e \in ToSet(g)
    BY <2>2 DEF ToSet
  <2> QED
    BY <2>1, <2>2, <2>3
<1>3. PICK w : w = Append(v, e)
  OBVIOUS
<1>4. /\ w \in Seq(EventID) /\ DOMAIN w = 1..(Len(v) + 1) /\ w[Len(v) + 1] = e
      /\ \A i \in 1..Len(v) : w[i] = v[i]
      /\ DOMAIN v = 1..Len(v) /\ Len(v) \in Nat
  BY <1>2, <1>3, AppendPositions
<1>5. Subsequence(v, g)
  BY <1>1 DEF SessionHolds
<1>6. \A i, j \in DOMAIN w : i < j => \E a, b \in DOMAIN g : a < b /\ g[a] = w[i] /\ g[b] = w[j]
  <2> SUFFICES ASSUME NEW i \in DOMAIN w, NEW j \in DOMAIN w, i < j
               PROVE  \E a, b \in DOMAIN g : a < b /\ g[a] = w[i] /\ g[b] = w[j]
    OBVIOUS
  <2>1. i \in DOMAIN v /\ w[i] = v[i] /\ i \in 1..Len(v)
    BY <1>4
  <2>2. CASE j \in 1..Len(v)
    <3>1. j \in DOMAIN v /\ w[j] = v[j]
      BY <1>4, <2>2
    <3> QED
      BY <1>5, <2>1, <3>1 DEF Subsequence
  <2>3. CASE j = Len(v) + 1
    <3>1. w[j] = g[Len(g)]
      BY <1>2, <1>4, <2>3
    <3>2. v[i] \in ToSet(g) /\ v[i] # e
      <4>1. v[i] \in ToSet(v)
        BY <2>1 DEF ToSet
      <4> QED
        BY <1>1, <1>5, <4>1 DEF Subsequence
    <3>3. PICK a \in DOMAIN g : g[a] = v[i]
      BY <3>2 DEF ToSet
    <3>4. a < Len(g)
      BY <1>2, <3>2, <3>3
    <3> QED
      BY <1>2, <2>1, <3>1, <3>3, <3>4
  <2> QED
    BY <1>4, <2>2, <2>3
<1>7. ToSet(w) \subseteq ToSet(g)
  <2>1. ToSet(w) = ToSet(v) \cup {e}
    BY <1>2, <1>3, AppendToSet
  <2> QED
    BY <1>2, <1>5, <2>1 DEF Subsequence
<1>8. Subsequence(w, g)
  BY <1>5, <1>6, <1>7 DEF Subsequence
<1>9. PICK x : x = [t EXCEPT !.events = w]
  OBVIOUS
<1>10. x \in trackedSession /\ x.graph = t.graph /\ x.events = w /\ x.state = t.state
  BY <1>4, <1>9 DEF SessionHolds, trackedSession
<1>11. SessionHolds(x, u, n)
  BY <1>1, <1>8, <1>10 DEF SessionHolds
<1> QED
  BY <1>1, <1>3, <1>9, <1>11

\* A later count bounds the nodes as well.
LEMMA LaterHolds ==
  ASSUME NEW t, NEW u, NEW n \in Nat, NEW m \in Nat, n <= m, SessionHolds(t, u, n)
  PROVE  SessionHolds(t, u, m)
<1>1. t.graph \in Seq(EventID)
  BY DEF SessionHolds, trackedSession
<1>2. \A i \in DOMAIN t.graph : t.graph[i] \in Nat /\ t.graph[i] <= n
  <2>1. \A i \in DOMAIN t.graph : t.graph[i] <= n
    BY DEF SessionHolds
  <2>2. \A i \in DOMAIN t.graph : t.graph[i] \in Nat
    BY <1>1, EventIDs
  <2> QED
    BY <2>1, <2>2
<1>3. \A i \in DOMAIN t.graph : t.graph[i] <= m
  BY <1>2
<1> QED
  BY <1>3 DEF SessionHolds

\* A new session holds no node, and its user's state.
LEMMA NewHolds ==
  ASSUME AdkInv, NEW k \in Key, NEW delta \in StateOf(StateKey), OwnState(k[1], delta),
         NEW n \in Nat
  PROVE  /\ SessionHolds(newSession(k, delta), k[1], n)
         /\ newSession(k, delta).graph = << >>
         /\ newSession(k, delta).on
<1>1. k[1] \in User
  BY DEF User
<1>2. /\ appState \in StateOf({"app:k"}) /\ userState[k[1]] \in StateOf({"user:k"})
      /\ OwnState(k[1], userState[k[1]])
  BY <1>1 DEF AdkInv, AdkTypeOK
<1>3. /\ appDelta(delta) \in StateOf({"app:k"}) /\ userDelta(delta) \in StateOf({"user:k"})
      /\ sessionDelta(delta) \in StateOf({"k", "temp:k"})
      /\ OwnState(k[1], userDelta(delta)) /\ OwnState(k[1], sessionDelta(delta))
  BY OnlyType, OnlyOwn DEF appDelta, userDelta, sessionDelta
<1>4. PICK a : a = mergeAppStateLocked(delta)
  OBVIOUS
<1>5. a \in StateOf({"app:k"}) /\ OwnState(k[1], a)
  BY <1>2, <1>3, <1>4, MergeType, AppOwn DEF mergeAppStateLocked
<1>6. PICK b : b = mergeUserStateLocked(k[1], delta)[k[1]]
  OBVIOUS
<1>7. b = mergeMaps(userState[k[1]], userDelta(delta))
  BY <1>1, <1>6 DEF mergeUserStateLocked, AdkInv, AdkTypeOK
<1>8. b \in StateOf({"user:k"}) /\ OwnState(k[1], b)
  BY <1>2, <1>3, <1>7, MergeType, MergeOwn
<1>9. PICK c : c = mergeMaps(a, b)
  OBVIOUS
<1>10. c \in StateOf({"app:k", "user:k"}) /\ OwnState(k[1], c)
  <2>1. {"app:k"} \subseteq {"app:k", "user:k"} /\ {"user:k"} \subseteq {"app:k", "user:k"}
    OBVIOUS
  <2> QED
    BY <1>5, <1>8, <1>9, <2>1, MergeType, MergeOwn
<1>11. PICK d : d = mergeMaps(c, sessionDelta(delta))
  OBVIOUS
<1>12. d \in StateOf(StateKey) /\ OwnState(k[1], d)
  <2>1. {"app:k", "user:k"} \subseteq StateKey /\ {"k", "temp:k"} \subseteq StateKey
    BY DEF StateKey
  <2> QED
    BY <1>3, <1>10, <1>11, <2>1, MergeType, MergeOwn
<1>13. newSession(k, delta) = [on |-> TRUE, events |-> << >>, graph |-> << >>, state |-> d]
  BY <1>4, <1>6, <1>9, <1>11 DEF newSession
<1>14. Subsequence(<< >>, << >>)
  BY DEF Subsequence, IsInjective, ToSet
<1> QED
  BY <1>12, <1>13, <1>14 DEF SessionHolds, trackedSession

-----------------------------------------------------------------------------
(* Steps *)

\* What a step must do to keep the invariant when it is about one session.
LEMMA OneSession ==
  ASSUME AdkInv, AdkTypeOK', NEW k \in Key,
         count <= count', failures' = 0 => failures = 0,
         \A u \in User : OwnState(u, userState'[u]),
         \A j \in Key : j # k => sessions'[j] = sessions[j] /\ kept'[j] = kept[j],
         \A s \in SessionID : s # k[2] => files'[s] = files[s],
         sessions'[k].on => SessionHolds(sessions'[k], k[1], count'),
         sessions'[k].on /\ Sole(k) =>
           FileHolds(files'[k[2]], sessions'[k].graph, kept'[k], failures'),
         ~sessions'[k].on => kept'[k] = {}
  PROVE  AdkInv'
<1>1. count \in Nat /\ count' \in Nat
  BY AdkAssumption DEF AdkInv, AdkTypeOK, AdkAssumption
<1>2. \A j \in Key : sessions'[j].on => SessionHolds(sessions'[j], j[1], count')
  <2> SUFFICES ASSUME NEW j \in Key, sessions'[j].on, j # k
               PROVE  SessionHolds(sessions'[j], j[1], count')
    OBVIOUS
  <2>1. sessions'[j] = sessions[j] /\ SessionHolds(sessions[j], j[1], count)
    BY DEF AdkInv
  <2> QED
    BY <1>1, <2>1, LaterHolds
<1>3. \A j \in Key : sessions'[j].on /\ Sole(j) =>
        FileHolds(files'[j[2]], sessions'[j].graph, kept'[j], failures')
  <2> SUFFICES ASSUME NEW j \in Key, sessions'[j].on, Sole(j), j # k
               PROVE  FileHolds(files'[j[2]], sessions'[j].graph, kept'[j], failures')
    OBVIOUS
  <2>1. sessions'[j] = sessions[j] /\ kept'[j] = kept[j]
    OBVIOUS
  <2>2. j[2] \in SessionID /\ j[2] # k[2]
    BY DEF Sole, SessionID
  <2>3. files'[j[2]] = files[j[2]]
    BY <2>2
  <2>4. FileHolds(files[j[2]], sessions[j].graph, kept[j], failures)
    BY <2>1 DEF AdkInv
  <2> QED
    BY <2>1, <2>3, <2>4 DEF FileHolds
<1>4. \A j \in Key : ~sessions'[j].on => kept'[j] = {}
  BY DEF AdkInv
<1> QED
  BY <1>2, <1>3, <1>4 DEF AdkInv

\* The types of the variables, from the invariant.
LEMMA AdkTypes ==
  ASSUME AdkInv
  PROVE  /\ count \in Nat /\ failures \in Nat /\ MaxEvents \in Nat /\ MaxFailures \in Nat
         /\ count <= MaxEvents /\ failures <= MaxFailures
         /\ sessions \in [Key -> {noSession} \cup trackedSession]
         /\ appState \in StateOf({"app:k"}) /\ userState \in [User -> StateOf({"user:k"})]
         /\ files \in [SessionID -> Seq(EventID)]
         /\ ingest \in [Caller -> {noCall} \cup [pc : {"create", "append"}, key : Key]]
         /\ kept \in [Key -> SUBSET EventID]
         /\ \A k \in Key : k[1] \in User /\ k[2] \in SessionID
         /\ \A k \in Key : sessions[k].on <=> sessions[k] \in trackedSession
         /\ \A k \in Key : sessions[k].on <=> sessions[k] # noSession
<1>1. AdkTypeOK
  BY DEF AdkInv
<1>2. sessions \in [Key -> {noSession} \cup trackedSession]
  BY <1>1 DEF AdkTypeOK
<1>3. ~noSession.on /\ \A t \in trackedSession : t.on = TRUE
  BY DEF noSession, trackedSession
<1>4. \A k \in Key : /\ sessions[k].on <=> sessions[k] \in trackedSession
                     /\ sessions[k].on <=> sessions[k] # noSession
  BY <1>2, <1>3
<1>5. \A k \in Key : k[1] \in User /\ k[2] \in SessionID
  BY DEF User, SessionID
<1>6. /\ count \in Nat /\ failures \in Nat /\ MaxEvents \in Nat /\ MaxFailures \in Nat
      /\ count <= MaxEvents /\ failures <= MaxFailures
  BY <1>1, AdkAssumption DEF AdkTypeOK, AdkAssumption
<1> QED
  BY <1>1, <1>4, <1>5, <1>6 DEF AdkTypeOK

\* The shared state after a merge is well typed, and each user's own.
LEMMA SharedHolds ==
  ASSUME AdkInv, NEW u \in User, NEW delta \in StateOf(StateKey), OwnState(u, delta)
  PROVE  /\ mergeAppStateLocked(delta) \in StateOf({"app:k"})
         /\ mergeUserStateLocked(u, delta) \in [User -> StateOf({"user:k"})]
         /\ \A v \in User : OwnState(v, mergeUserStateLocked(u, delta)[v])
<1>1. /\ appState \in StateOf({"app:k"}) /\ userState \in [User -> StateOf({"user:k"})]
      /\ \A v \in User : OwnState(v, userState[v])
  BY AdkTypes DEF AdkInv
<1>2. /\ appDelta(delta) \in StateOf({"app:k"}) /\ userDelta(delta) \in StateOf({"user:k"})
      /\ OwnState(u, userDelta(delta))
  BY OnlyType, OnlyOwn DEF appDelta, userDelta
<1>3. mergeAppStateLocked(delta) \in StateOf({"app:k"})
  BY <1>1, <1>2, MergeType DEF mergeAppStateLocked
<1>4. PICK m : m = mergeMaps(userState[u], userDelta(delta))
  OBVIOUS
<1>5. m \in StateOf({"user:k"}) /\ OwnState(u, m)
  BY <1>1, <1>2, <1>4, MergeType, MergeOwn
<1>6. mergeUserStateLocked(u, delta) = [userState EXCEPT ![u] = m]
  BY <1>4 DEF mergeUserStateLocked
<1> QED
  BY <1>1, <1>3, <1>5, <1>6

\* A session's snapshot after an append: saved, or left behind by one more
\* failure.
LEMMA FileAppended ==
  ASSUME AdkInv, NEW k \in Key, sessions[k].on, Sole(k), NEW e \in EventID,
         NEW graph, graph = Append(sessions[k].graph, e)
  PROVE  /\ \A f \in Nat : FileHolds(graph, graph, kept[k] \cup {e}, f)
         /\ FileHolds(files[k[2]], graph, kept[k], failures + 1)
<1>1. sessions[k] \in trackedSession /\ files[k[2]] \in Seq(EventID) /\ failures \in Nat
  BY AdkTypes
<1>2. PICK g \in Seq(EventID), f \in Seq(EventID) : g = sessions[k].graph /\ f = files[k[2]]
  BY <1>1 DEF trackedSession
<1>3. /\ IsPrefix(f, g) /\ kept[k] \subseteq ToSet(f)
  BY <1>2 DEF AdkInv, FileHolds
<1>4. /\ ToSet(graph) = ToSet(g) \cup {e} /\ graph \in Seq(EventID)
  BY <1>2, AppendToSet
<1>5. IsPrefix(f, graph)
  BY <1>2, <1>3, PrefixOfAppend
<1>6. ToSet(f) \subseteq ToSet(g)
  <2>1. Len(f) \in Nat /\ Len(g) \in Nat /\ Len(f) <= Len(g) /\ \A i \in 1..Len(f) : f[i] = g[i]
    BY <1>3, PrefixPositions
  <2>2. DOMAIN f = 1..Len(f) /\ DOMAIN g = 1..Len(g)
    OBVIOUS
  <2>3. DOMAIN f \subseteq DOMAIN g
    BY <2>1, <2>2
  <2> QED
    BY <2>1, <2>2, <2>3 DEF ToSet
<1>7. IsPrefix(graph, graph)
  BY <1>4 DEF IsPrefix
<1>8. failures + 1 # 0
  BY <1>1
<1> QED
  BY <1>2, <1>3, <1>4, <1>5, <1>6, <1>7, <1>8 DEF FileHolds

\* Creating a session keeps the invariant.
LEMMA CreateKeeps ==
  ASSUME AdkInv, NEW k \in Key, NEW delta \in Delta(k[1]), Create(k, delta)
  PROVE  AdkInv'
<1>1. /\ count < MaxEvents /\ count' = count + 1 /\ ~sessions[k].on
      /\ appState' = mergeAppStateLocked(delta)
      /\ userState' = mergeUserStateLocked(k[1], delta)
      /\ ingest' = ingest /\ kept' = kept
  BY DEF Create, notTracked
<1>2. /\ count \in Nat /\ failures \in Nat /\ MaxEvents \in Nat /\ k[1] \in User /\ k[2] \in SessionID
      /\ sessions \in [Key -> {noSession} \cup trackedSession]
      /\ files \in [SessionID -> Seq(EventID)]
  BY AdkTypes
<1>3. count + 1 \in EventID
  BY <1>1, <1>2, EventIDs
<1>4. delta \in StateOf(StateKey) /\ OwnState(k[1], delta)
  BY <1>2, <1>3, DeltaHolds
<1>5. /\ appState' \in StateOf({"app:k"}) /\ userState' \in [User -> StateOf({"user:k"})]
      /\ \A u \in User : OwnState(u, userState'[u])
  BY <1>1, <1>2, <1>4, SharedHolds
<1>6. kept[k] = {}
  BY <1>1 DEF AdkInv
<1>7. CASE saved(k[2], << >>) /\ sessions' = [sessions EXCEPT ![k] = newSession(k, delta)]
  <2>1. PICK t : t = newSession(k, delta)
    OBVIOUS
  <2>2. SessionHolds(t, k[1], count + 1) /\ t.graph = << >> /\ t.on
    <3>1. PICK n \in Nat : n = count + 1
      BY <1>2
    <3>2. /\ SessionHolds(newSession(k, delta), k[1], n)
          /\ newSession(k, delta).graph = << >> /\ newSession(k, delta).on
      BY <1>4, NewHolds
    <3> QED
      BY <2>1, <3>1, <3>2
  <2>3. /\ sessions' \in [Key -> {noSession} \cup trackedSession] /\ sessions'[k] = t
        /\ \A j \in Key : j # k => sessions'[j] = sessions[j]
    BY <1>2, <1>7, <2>1, <2>2 DEF SessionHolds
  <2>4. /\ files' \in [SessionID -> Seq(EventID)] /\ files'[k[2]] = << >> /\ failures' = failures
        /\ \A s \in SessionID : s # k[2] => files'[s] = files[s]
    BY <1>2, <1>7 DEF saved
  <2>5. AdkTypeOK'
    BY <1>1, <1>2, <1>5, <2>3, <2>4 DEF AdkInv, AdkTypeOK
  <2>6. FileHolds(<< >>, << >>, {}, failures)
    BY DEF FileHolds, IsPrefix
  <2>7. sessions'[k].on /\ SessionHolds(sessions'[k], k[1], count')
    BY <1>1, <2>2, <2>3
  <2>8. FileHolds(files'[k[2]], sessions'[k].graph, kept'[k], failures')
    BY <1>1, <1>6, <2>2, <2>3, <2>4, <2>6
  <2>9. count <= count' /\ (failures' = 0 => failures = 0)
    BY <1>1, <1>2, <2>4
  <2> QED
    BY <1>1, <1>5, <2>3, <2>4, <2>5, <2>7, <2>8, <2>9, OneSession
<1>8. CASE saveFails /\ UNCHANGED sessions
  <2>1. /\ files' = files /\ failures' = failures + 1 /\ failures < MaxFailures
        /\ sessions' = sessions
    BY <1>8 DEF saveFails
  <2>2. AdkTypeOK'
    <3>1. failures' \in 0..MaxFailures
      BY <1>2, <2>1, AdkTypes
    <3> QED
      BY <1>1, <1>2, <1>5, <2>1, <3>1 DEF AdkInv, AdkTypeOK
  <2>3. count <= count' /\ failures' # 0
    BY <1>1, <1>2, <2>1
  <2> QED
    BY <1>1, <1>2, <1>5, <1>6, <2>1, <2>2, <2>3, OneSession
<1> QED
  BY <1>7, <1>8 DEF Create

\* Deleting a session keeps the invariant.
LEMMA DeleteKeeps ==
  ASSUME AdkInv, NEW k \in Key, Delete(k)
  PROVE  AdkInv'
<1>1. /\ sessions' = [sessions EXCEPT ![k] = noSession]
      /\ kept' = [kept EXCEPT ![k] = {}]
      /\ appState' = appState /\ userState' = userState /\ files' = files
      /\ ingest' = ingest /\ count' = count /\ failures' = failures
  BY DEF Delete
<1>2. /\ sessions \in [Key -> {noSession} \cup trackedSession] /\ kept \in [Key -> SUBSET EventID]
      /\ count \in Nat
  BY AdkTypes
<1>3. /\ sessions' \in [Key -> {noSession} \cup trackedSession] /\ kept' \in [Key -> SUBSET EventID]
      /\ sessions'[k] = noSession /\ kept'[k] = {}
      /\ \A j \in Key : j # k => sessions'[j] = sessions[j] /\ kept'[j] = kept[j]
  BY <1>1, <1>2
<1>4. ~sessions'[k].on
  BY <1>3 DEF noSession
<1>5. AdkTypeOK'
  BY <1>1, <1>3 DEF AdkInv, AdkTypeOK
<1>6. \A u \in User : OwnState(u, userState'[u])
  BY <1>1 DEF AdkInv
<1> QED
  BY <1>1, <1>2, <1>3, <1>4, <1>5, <1>6, OneSession

\* Appending an event keeps the invariant, whether its save fails or not.
LEMMA AppendEventKeeps ==
  ASSUME AdkInv, NEW k \in Key, NEW delta \in Delta(k[1]), AppendEvent(k, delta)
  PROVE  AdkInv'
<1>1. PICK e, graph, updated :
        /\ e = count + 1 /\ graph = Append(sessions[k].graph, e)
        /\ updated = [sessions[k] EXCEPT !.state = mergeMaps(@, sessionDelta(delta)), !.graph = graph]
  OBVIOUS
<1>2. /\ count < MaxEvents /\ count' = e /\ sessions[k].on
      /\ appState' = mergeAppStateLocked(delta)
      /\ userState' = mergeUserStateLocked(k[1], delta)
      /\ ingest' = ingest
  BY <1>1 DEF AppendEvent
<1>3. \/ /\ saved(k[2], graph)
         /\ sessions' = [sessions EXCEPT ![k] = [updated EXCEPT !.events = Append(@, e)]]
         /\ kept' = [kept EXCEPT ![k] = @ \cup {e}]
      \/ /\ saveFails /\ sessions' = [sessions EXCEPT ![k] = updated] /\ kept' = kept
  BY <1>1 DEF AppendEvent
<1>4. /\ count \in Nat /\ failures \in Nat /\ MaxEvents \in Nat /\ k[1] \in User /\ k[2] \in SessionID
      /\ sessions \in [Key -> {noSession} \cup trackedSession] /\ sessions[k] \in trackedSession
      /\ files \in [SessionID -> Seq(EventID)] /\ kept \in [Key -> SUBSET EventID]
  BY <1>2, AdkTypes
<1>5. count + 1 \in EventID /\ e \in EventID /\ count <= count'
  BY <1>1, <1>2, <1>4, EventIDs
<1>6. delta \in StateOf(StateKey) /\ OwnState(k[1], delta)
  BY <1>4, <1>5, DeltaHolds
<1>7. /\ appState' \in StateOf({"app:k"}) /\ userState' \in [User -> StateOf({"user:k"})]
      /\ \A u \in User : OwnState(u, userState'[u])
  BY <1>2, <1>4, <1>6, SharedHolds
<1>8. PICK state : state = mergeMaps(sessions[k].state, sessionDelta(delta))
  OBVIOUS
<1>9. state \in StateOf(StateKey) /\ OwnState(k[1], state)
  <2>1. sessions[k].state \in StateOf(StateKey) /\ OwnState(k[1], sessions[k].state)
    BY <1>2, <1>4 DEF AdkInv, SessionHolds, trackedSession
  <2>2. sessionDelta(delta) \in StateOf({"k", "temp:k"}) /\ OwnState(k[1], sessionDelta(delta))
    BY <1>6, OnlyType, OnlyOwn DEF sessionDelta
  <2>3. {"k", "temp:k"} \subseteq StateKey
    BY DEF StateKey
  <2> QED
    BY <1>8, <2>1, <2>2, <2>3, MergeType, MergeOwn
<1>10. SessionHolds(sessions[k], k[1], count)
  BY <1>2 DEF AdkInv
<1>11. updated = [sessions[k] EXCEPT !.state = state, !.graph = Append(sessions[k].graph, count + 1)]
  BY <1>1, <1>8
<1>12. SessionHolds(updated, k[1], count + 1)
  BY <1>4, <1>5, <1>9, <1>10, <1>11, GraphAppended
<1>13. updated.graph = graph /\ updated.events = sessions[k].events /\ updated \in trackedSession
  BY <1>1, <1>4, <1>12 DEF trackedSession, SessionHolds
<1>14. /\ graph \in Seq(EventID) /\ graph # << >> /\ graph[Len(graph)] = e
       /\ e \notin ToSet(updated.events)
  <2>1. PICK g \in Seq(EventID) : g = sessions[k].graph
    BY <1>4 DEF trackedSession
  <2>2. graph \in Seq(EventID) /\ Len(graph) = Len(g) + 1 /\ graph[Len(g) + 1] = e /\ Len(g) \in Nat
    BY <1>1, <1>5, <2>1, AppendPositions
  <2>3. graph # << >> /\ graph[Len(graph)] = e
    BY <2>2
  <2>4. \A i \in DOMAIN g : g[i] \in Nat /\ g[i] # e
    <3> TAKE i \in DOMAIN g
    <3>1. g[i] \in Nat
      <4>1. g[i] \in EventID
        OBVIOUS
      <4>2. EventID \subseteq Nat
        BY <1>4, EventIDs
      <4> QED
        BY <4>1, <4>2
    <3>2. g[i] <= count
      BY <1>10, <2>1 DEF SessionHolds
    <3> QED
      BY <1>1, <1>4, <3>1, <3>2
  <2>5. ToSet(sessions[k].events) \subseteq ToSet(g)
    BY <1>10, <2>1 DEF SessionHolds, Subsequence
  <2>6. e \notin ToSet(g)
    BY <2>4 DEF ToSet
  <2> QED
    BY <1>13, <2>2, <2>3, <2>5, <2>6
<1>15. PICK full : full = [updated EXCEPT !.events = Append(@, e)]
  OBVIOUS
<1>16. SessionHolds(full, k[1], count + 1) /\ full.graph = graph
  <2>1. SessionHolds(full, k[1], count + 1)
    <3>1. PICK n \in Nat : n = count + 1
      BY <1>4
    <3>2. SessionHolds(updated, k[1], n)
      BY <1>12, <3>1
    <3>3. /\ updated.graph # << >> /\ e = updated.graph[Len(updated.graph)]
          /\ e \notin ToSet(updated.events)
      BY <1>13, <1>14
    <3>4. SessionHolds([updated EXCEPT !.events = Append(@, e)], k[1], n)
      BY <3>2, <3>3, EventShown
    <3> QED
      BY <1>15, <3>1, <3>4
  <2>2. full.graph = graph
    BY <1>13, <1>15 DEF trackedSession
  <2> QED
    BY <2>1, <2>2
<1>17. Sole(k) => /\ \A f \in Nat : FileHolds(graph, graph, kept[k] \cup {e}, f)
                  /\ FileHolds(files[k[2]], graph, kept[k], failures + 1)
  BY <1>1, <1>2, <1>5, FileAppended
<1>18. CASE /\ saved(k[2], graph)
            /\ sessions' = [sessions EXCEPT ![k] = [updated EXCEPT !.events = Append(@, e)]]
            /\ kept' = [kept EXCEPT ![k] = @ \cup {e}]
  <2>1. /\ sessions' \in [Key -> {noSession} \cup trackedSession] /\ sessions'[k] = full
        /\ \A j \in Key : j # k => sessions'[j] = sessions[j]
    BY <1>4, <1>15, <1>16, <1>18 DEF SessionHolds
  <2>2. /\ files' \in [SessionID -> Seq(EventID)] /\ files'[k[2]] = graph /\ failures' = failures
        /\ \A s \in SessionID : s # k[2] => files'[s] = files[s]
    BY <1>4, <1>14, <1>18 DEF saved
  <2>3. /\ kept' \in [Key -> SUBSET EventID] /\ kept'[k] = kept[k] \cup {e}
        /\ \A j \in Key : j # k => kept'[j] = kept[j]
    BY <1>4, <1>5, <1>18
  <2>4. AdkTypeOK'
    BY <1>1, <1>2, <1>4, <1>7, <2>1, <2>2, <2>3 DEF AdkInv, AdkTypeOK
  <2>5. sessions'[k].on
    BY <1>16, <2>1 DEF SessionHolds, trackedSession
  <2>6. SessionHolds(sessions'[k], k[1], count')
    BY <1>1, <1>2, <1>16, <2>1
  <2>7. Sole(k) => FileHolds(files'[k[2]], sessions'[k].graph, kept'[k], failures')
    BY <1>4, <1>16, <1>17, <2>1, <2>2, <2>3
  <2> QED
    BY <1>4, <1>5, <1>7, <2>1, <2>2, <2>3, <2>4, <2>5, <2>6, <2>7, OneSession
<1>19. CASE saveFails /\ sessions' = [sessions EXCEPT ![k] = updated] /\ kept' = kept
  <2>1. /\ sessions' \in [Key -> {noSession} \cup trackedSession] /\ sessions'[k] = updated
        /\ \A j \in Key : j # k => sessions'[j] = sessions[j]
    BY <1>4, <1>13, <1>19
  <2>2. /\ files' = files /\ failures' = failures + 1 /\ failures' \in 0..MaxFailures /\ failures' # 0
    BY <1>4, <1>19, AdkTypes DEF saveFails
  <2>3. AdkTypeOK'
    BY <1>1, <1>2, <1>4, <1>7, <1>19, <2>1, <2>2 DEF AdkInv, AdkTypeOK
  <2>4. sessions'[k].on
    BY <1>13, <2>1 DEF trackedSession
  <2>5. SessionHolds(sessions'[k], k[1], count')
    BY <1>1, <1>2, <1>12, <2>1
  <2>6. Sole(k) => FileHolds(files'[k[2]], sessions'[k].graph, kept'[k], failures')
    BY <1>13, <1>17, <1>19, <2>1, <2>2
  <2> QED
    BY <1>4, <1>5, <1>7, <1>19, <2>1, <2>2, <2>3, <2>4, <2>5, <2>6, OneSession
<1> QED
  BY <1>3, <1>18, <1>19

\* A call of EnsureSession changes nothing but itself.
LEMMA EnsureSessionKeeps ==
  ASSUME AdkInv, NEW c \in Caller, NEW k \in Key, EnsureSession(c, k)
  PROVE  AdkInv'
<1>1. /\ sessions' = sessions /\ appState' = appState /\ userState' = userState /\ files' = files
      /\ count' = count /\ failures' = failures /\ kept' = kept
  BY DEF EnsureSession
<1>2. ingest' \in [Caller -> {noCall} \cup [pc : {"create", "append"}, key : Key]]
  BY AdkTypes DEF EnsureSession
<1>3. AdkTypeOK'
  BY <1>1, <1>2 DEF AdkInv, AdkTypeOK
<1> QED
  BY <1>1, <1>3 DEF AdkInv

\* The Create of an ingest keeps the invariant, also when another caller was
\* faster.
LEMMA EnsureCreateKeeps ==
  ASSUME AdkInv, NEW c \in Caller, EnsureCreate(c)
  PROVE  AdkInv'
<1> DEFINE Call == [pc : {"create", "append"}, key : Key]
<1>1. ingest \in [Caller -> {noCall} \cup Call] /\ ingest[c].pc = "create"
  BY AdkTypes DEF EnsureCreate
<1>2. ingest[c] \in Call
  BY <1>1 DEF noCall
<1>3. PICK k \in Key : k = ingest[c].key
  BY <1>2
<1>4. appState' = appState /\ userState' = userState /\ count' = count /\ kept' = kept
  BY DEF EnsureCreate
<1>5. /\ count \in Nat /\ failures \in Nat /\ k[1] \in User /\ k[2] \in SessionID
      /\ sessions \in [Key -> {noSession} \cup trackedSession]
      /\ files \in [SessionID -> Seq(EventID)]
  BY AdkTypes
<1>6. \/ /\ ~sessions[k].on /\ saved(k[2], << >>)
         /\ sessions' = [sessions EXCEPT ![k] = newSession(k, noState)]
         /\ ingest' = [ingest EXCEPT ![c].pc = "append"]
      \/ /\ ~sessions[k].on /\ saveFails /\ ingest' = [ingest EXCEPT ![c] = noCall]
         /\ sessions' = sessions
      \/ /\ ingest' = [ingest EXCEPT ![c].pc = "append"]
         /\ sessions' = sessions /\ files' = files /\ failures' = failures
  BY <1>3 DEF EnsureCreate, notTracked
<1>7. ingest' \in [Caller -> {noCall} \cup Call]
  <2>1. [ingest[c] EXCEPT !.pc = "append"] \in Call
    BY <1>2
  <2>2. [ingest EXCEPT ![c].pc = "append"] \in [Caller -> {noCall} \cup Call]
    BY <1>1, <2>1
  <2> QED
    BY <1>1, <1>6, <2>2
<1> HIDE DEF Call
<1>8. \A u \in User : OwnState(u, userState'[u])
  BY <1>4 DEF AdkInv
<1>9. CASE /\ ~sessions[k].on /\ saved(k[2], << >>)
           /\ sessions' = [sessions EXCEPT ![k] = newSession(k, noState)]
  <2>1. noState \in StateOf(StateKey) /\ OwnState(k[1], noState)
    <3>1. noState \in Delta(k[1])
      BY DEF Delta
    <3> QED
      BY <1>5, <3>1, DeltaHolds
  <2>2. PICK t : t = newSession(k, noState)
    OBVIOUS
  <2>3. SessionHolds(t, k[1], count) /\ t.graph = << >> /\ t.on
    BY <1>5, <2>1, <2>2, NewHolds
  <2>4. /\ sessions' \in [Key -> {noSession} \cup trackedSession] /\ sessions'[k] = t
        /\ \A j \in Key : j # k => sessions'[j] = sessions[j]
    BY <1>5, <1>9, <2>2, <2>3 DEF SessionHolds
  <2>5. /\ files' \in [SessionID -> Seq(EventID)] /\ files'[k[2]] = << >> /\ failures' = failures
        /\ \A s \in SessionID : s # k[2] => files'[s] = files[s]
    BY <1>5, <1>9 DEF saved
  <2>6. AdkTypeOK'
    BY <1>4, <1>7, <2>4, <2>5 DEF AdkInv, AdkTypeOK, Call
  <2>7. FileHolds(<< >>, << >>, {}, failures)
    BY DEF FileHolds, IsPrefix
  <2>8. kept[k] = {}
    BY <1>9 DEF AdkInv
  <2>9. sessions'[k].on /\ SessionHolds(sessions'[k], k[1], count')
    BY <1>4, <2>3, <2>4
  <2>10. FileHolds(files'[k[2]], sessions'[k].graph, kept'[k], failures')
    BY <1>4, <2>3, <2>4, <2>5, <2>7, <2>8
  <2>11. count <= count' /\ (failures' = 0 => failures = 0)
    BY <1>4, <1>5, <2>5
  <2> QED
    BY <1>4, <1>8, <2>4, <2>5, <2>6, <2>9, <2>10, <2>11, OneSession
<1>10. CASE saveFails /\ sessions' = sessions /\ ~sessions[k].on
  <2>1. /\ files' = files /\ failures' = failures + 1 /\ failures' \in 0..MaxFailures /\ failures' # 0
    BY <1>10, <1>5, AdkTypes DEF saveFails
  <2>2. AdkTypeOK'
    BY <1>4, <1>7, <1>10, <2>1 DEF AdkInv, AdkTypeOK, Call
  <2>3. kept[k] = {}
    BY <1>10 DEF AdkInv
  <2>4. count <= count'
    BY <1>4, <1>5
  <2> QED
    BY <1>4, <1>8, <1>10, <2>1, <2>2, <2>3, <2>4, OneSession
<1>11. CASE sessions' = sessions /\ files' = files /\ failures' = failures
  <2>1. AdkTypeOK'
    BY <1>4, <1>7, <1>11 DEF AdkInv, AdkTypeOK, Call
  <2> QED
    BY <1>4, <1>11, <2>1 DEF AdkInv
<1> QED
  BY <1>6, <1>9, <1>10, <1>11

\* The append of an ingest keeps the invariant.
LEMMA IngestKeeps ==
  ASSUME AdkInv, NEW c \in Caller, IngestOrchestratorEvent(c)
  PROVE  AdkInv'
<1> DEFINE Call == [pc : {"create", "append"}, key : Key]
<1>1. /\ ingest \in [Caller -> {noCall} \cup Call] /\ ingest[c].pc = "append"
      /\ count < MaxEvents /\ ingest' = [ingest EXCEPT ![c] = noCall]
      /\ appState' = appState /\ userState' = userState
  BY AdkTypes DEF IngestOrchestratorEvent
<1>2. PICK k \in Key : k = ingest[c].key
  <2>1. ingest[c] \in Call
    BY <1>1 DEF noCall
  <2> QED
    BY <2>1
<1>3. ingest' \in [Caller -> {noCall} \cup Call]
  BY <1>1
<1> HIDE DEF Call
<1>4. PICK e, graph : e = count + 1 /\ graph = Append(sessions[k].graph, e)
  OBVIOUS
<1>5. \/ /\ sessions' = sessions /\ files' = files /\ count' = count
         /\ failures' = failures /\ kept' = kept
      \/ /\ sessions[k].on /\ count' = e /\ sessions' = [sessions EXCEPT ![k].graph = graph]
         /\ \/ saved(k[2], graph) /\ kept' = [kept EXCEPT ![k] = @ \cup {e}]
            \/ saveFails /\ kept' = kept
  BY <1>2, <1>4 DEF IngestOrchestratorEvent
<1>6. CASE /\ sessions' = sessions /\ files' = files /\ count' = count
           /\ failures' = failures /\ kept' = kept
  <2>1. AdkTypeOK'
    BY <1>1, <1>3, <1>6 DEF AdkInv, AdkTypeOK, Call
  <2> QED
    BY <1>1, <1>6, <2>1 DEF AdkInv
<1>7. CASE /\ sessions[k].on /\ count' = e /\ sessions' = [sessions EXCEPT ![k].graph = graph]
           /\ \/ saved(k[2], graph) /\ kept' = [kept EXCEPT ![k] = @ \cup {e}]
              \/ saveFails /\ kept' = kept
  <2>1. /\ count \in Nat /\ failures \in Nat /\ MaxEvents \in Nat /\ k[1] \in User /\ k[2] \in SessionID
        /\ sessions \in [Key -> {noSession} \cup trackedSession] /\ sessions[k] \in trackedSession
        /\ files \in [SessionID -> Seq(EventID)] /\ kept \in [Key -> SUBSET EventID]
    BY <1>7, AdkTypes
  <2>2. count + 1 \in EventID /\ e \in EventID /\ count <= count' /\ count' \in 0..MaxEvents
    BY <1>1, <1>4, <1>7, <2>1, EventIDs
  <2>3. PICK t : t = sessions[k]
    OBVIOUS
  <2>4. SessionHolds(t, k[1], count) /\ t \in trackedSession
    BY <1>7, <2>1, <2>3 DEF AdkInv
  <2>5. PICK w : w = [t EXCEPT !.state = t.state, !.graph = Append(t.graph, count + 1)]
    OBVIOUS
  <2>6. SessionHolds(w, k[1], count + 1)
    BY <2>1, <2>2, <2>4, <2>5, GraphAppended DEF SessionHolds, trackedSession
  <2>7. w = [t EXCEPT !.graph = graph] /\ w.graph = graph /\ w \in trackedSession /\ w.on
    <3>1. w = [t EXCEPT !.graph = graph]
      BY <1>4, <2>3, <2>4, <2>5 DEF trackedSession
    <3>2. w \in trackedSession
      BY <2>6 DEF SessionHolds
    <3> QED
      BY <2>4, <3>1, <3>2 DEF trackedSession
  <2>8. /\ sessions' \in [Key -> {noSession} \cup trackedSession] /\ sessions'[k] = w
        /\ \A j \in Key : j # k => sessions'[j] = sessions[j]
    BY <1>7, <2>1, <2>3, <2>7
  <2>9. Sole(k) => /\ \A f \in Nat : FileHolds(graph, graph, kept[k] \cup {e}, f)
                   /\ FileHolds(files[k[2]], graph, kept[k], failures + 1)
    BY <1>4, <1>7, <2>2, FileAppended
  <2>10. graph \in Seq(EventID)
    BY <2>7 DEF trackedSession
  <2>11. \A u \in User : OwnState(u, userState'[u])
    BY <1>1 DEF AdkInv
  <2>12. sessions'[k].on /\ SessionHolds(sessions'[k], k[1], count')
    BY <1>4, <1>7, <2>6, <2>7, <2>8
  <2>13. CASE saved(k[2], graph) /\ kept' = [kept EXCEPT ![k] = @ \cup {e}]
    <3>1. /\ files' \in [SessionID -> Seq(EventID)] /\ files'[k[2]] = graph /\ failures' = failures
          /\ \A s \in SessionID : s # k[2] => files'[s] = files[s]
      BY <2>1, <2>10, <2>13 DEF saved
    <3>2. /\ kept' \in [Key -> SUBSET EventID] /\ kept'[k] = kept[k] \cup {e}
          /\ \A j \in Key : j # k => kept'[j] = kept[j]
      BY <2>1, <2>2, <2>13
    <3>3. AdkTypeOK'
      BY <1>1, <1>3, <2>2, <2>8, <3>1, <3>2 DEF AdkInv, AdkTypeOK, Call
    <3>4. Sole(k) => FileHolds(files'[k[2]], sessions'[k].graph, kept'[k], failures')
      <4>1. Sole(k) => FileHolds(graph, graph, kept[k] \cup {e}, failures)
        BY <2>1, <2>9
      <4> QED
        BY <2>7, <2>8, <3>1, <3>2, <4>1
    <3> QED
      BY <2>2, <2>8, <2>11, <2>12, <3>1, <3>2, <3>3, <3>4, OneSession
  <2>14. CASE saveFails /\ kept' = kept
    <3>1. /\ files' = files /\ failures' = failures + 1 /\ failures' \in 0..MaxFailures /\ failures' # 0
      BY <2>1, <2>14, AdkTypes DEF saveFails
    <3>2. AdkTypeOK'
      BY <1>1, <1>3, <2>1, <2>2, <2>8, <2>14, <3>1 DEF AdkInv, AdkTypeOK, Call
    <3>3. Sole(k) => FileHolds(files'[k[2]], sessions'[k].graph, kept'[k], failures')
      BY <2>7, <2>8, <2>9, <2>14, <3>1
    <3> QED
      BY <2>2, <2>8, <2>11, <2>12, <2>14, <3>1, <3>2, <3>3, OneSession
  <2> QED
    BY <1>7, <2>13, <2>14
<1> QED
  BY <1>5, <1>6, <1>7

-----------------------------------------------------------------------------
(* The invariant and what follows from it *)

\* An empty map is a map of every kind, and nobody's.
LEMMA NoStateHolds ==
  /\ \A keys : noState \in StateOf(keys)
  /\ \A u : OwnState(u, noState)
<1>1. noState \in [{} -> Value]
  BY DEF noState
<1>2. \A keys : {} \in SUBSET keys
  OBVIOUS
<1> QED
  BY <1>1, <1>2 DEF StateOf, OwnState, noState

\* A service without sessions satisfies the invariant.
LEMMA EmptyService ==
  ASSUME sessions = [k \in Key |-> noSession], appState = noState,
         userState = [u \in User |-> noState], ingest = [c \in Caller |-> noCall],
         kept = [k \in Key |-> {}], files \in [SessionID -> Seq(EventID)],
         count \in 0..MaxEvents, failures \in 0..MaxFailures
  PROVE  AdkInv
<1>1. AdkTypeOK
  BY NoStateHolds DEF AdkTypeOK
<1>2. \A u \in User : OwnState(u, userState[u])
  BY NoStateHolds
<1>3. \A k \in Key : ~sessions[k].on
  BY DEF noSession
<1> QED
  BY <1>1, <1>2, <1>3 DEF AdkInv

\* The copies of a session and the user states fit together in every state, for
\* every set of users and sessions and whatever saves fail.
THEOREM AdkInvariant == AdkSpec => []AdkInv
<1>1. AdkInit => AdkInv
  BY EmptyService, AdkAssumption DEF AdkInit, AdkAssumption
<1>2. AdkInv /\ [AdkNext]_adkVars => AdkInv'
  <2> SUFFICES ASSUME AdkInv, [AdkNext]_adkVars PROVE AdkInv'
    OBVIOUS
  <2>1. ASSUME NEW k \in Key, NEW delta \in Delta(k[1]), Create(k, delta) PROVE AdkInv'
    BY <2>1, CreateKeeps
  <2>2. ASSUME NEW k \in Key, NEW delta \in Delta(k[1]), AppendEvent(k, delta) PROVE AdkInv'
    BY <2>2, AppendEventKeeps
  <2>3. ASSUME NEW k \in Key, Delete(k) PROVE AdkInv'
    BY <2>3, DeleteKeeps
  <2>4. ASSUME NEW c \in Caller, NEW k \in Key, EnsureSession(c, k) PROVE AdkInv'
    BY <2>4, EnsureSessionKeeps
  <2>5. ASSUME NEW c \in Caller, EnsureCreate(c) PROVE AdkInv'
    BY <2>5, EnsureCreateKeeps
  <2>6. ASSUME NEW c \in Caller, IngestOrchestratorEvent(c) PROVE AdkInv'
    BY <2>6, IngestKeeps
  <2>7. CASE NewService
    <3>1. /\ sessions' = [k \in Key |-> noSession] /\ appState' = noState
          /\ userState' = [u \in User |-> noState] /\ ingest' = [c \in Caller |-> noCall]
          /\ kept' = [k \in Key |-> {}] /\ files' = files /\ count' = count /\ failures' = failures
      BY <2>7 DEF NewService
    <3>2. /\ files \in [SessionID -> Seq(EventID)]
          /\ count \in 0..MaxEvents /\ failures \in 0..MaxFailures
      BY DEF AdkInv, AdkTypeOK
    <3>3. AdkTypeOK'
      BY <3>1, <3>2, NoStateHolds DEF AdkTypeOK
    <3>4. \A u \in User : OwnState(u, userState'[u])
      BY <3>1, NoStateHolds
    <3>5. \A k \in Key : ~sessions'[k].on /\ kept'[k] = {}
      BY <3>1 DEF noSession
    <3> QED
      BY <3>3, <3>4, <3>5 DEF AdkInv
  <2>8. CASE UNCHANGED adkVars
    BY <2>8 DEF adkVars, AdkInv, AdkTypeOK
  <2> QED
    BY <2>1, <2>2, <2>3, <2>4, <2>5, <2>6, <2>7, <2>8 DEF AdkNext
<1> QED
  BY <1>1, <1>2, PTL DEF AdkSpec

\* What an invariant state shows of the order of events.
LEMMA EventsInOrder == AdkInv => EventsAreNodes
<1> SUFFICES ASSUME AdkInv, NEW k \in Key, sessions[k].on
             PROVE  /\ Subsequence(sessions[k].events, sessions[k].graph)
                    /\ sessions[k].events # << >> =>
                         Get(k, 1).events = <<Last(sessions[k].events)>>
  BY DEF EventsAreNodes, Subsequence
<1>1. SessionHolds(sessions[k], k[1], count)
  BY DEF AdkInv
<1>2. PICK v \in Seq(EventID) : v = sessions[k].events
  BY <1>1 DEF SessionHolds, trackedSession
<1>3. ASSUME v # << >> PROVE filterEvents(v, 1) = <<Last(v)>>
  <2>1. Len(v) \in Nat /\ Len(v) >= 1
    BY <1>3
  <2>2. CASE Len(v) = 1
    <3>1. filterEvents(v, 1) = v
      BY <2>2 DEF filterEvents
    <3>2. v = <<v[1]>>
      BY <2>2
    <3> QED
      BY <2>2, <3>1, <3>2 DEF Last
  <2>3. CASE Len(v) > 1
    <3>1. filterEvents(v, 1) = SubSeq(v, Len(v), Len(v))
      BY <2>1, <2>3 DEF filterEvents
    <3>2. SubSeq(v, Len(v), Len(v)) = <<v[Len(v)]>>
      <4>1. PICK w : w = SubSeq(v, Len(v), Len(v))
        OBVIOUS
      <4>2. w \in Seq(EventID) /\ Len(w) = 1 /\ w[1] = v[Len(v)]
        BY <2>1, <4>1
      <4>3. w = <<w[1]>>
        BY <4>2
      <4> QED
        BY <4>1, <4>2, <4>3
    <3> QED
      BY <3>1, <3>2 DEF Last
  <2>4. Len(v) = 1 \/ Len(v) > 1
    <3>1. PICK n \in Nat : n = Len(v) /\ n >= 1
      BY <2>1
    <3>2. n = 1 \/ n > 1
      BY <3>1
    <3> QED
      BY <3>1, <3>2
  <2> QED
    BY <2>2, <2>3, <2>4
<1>4. Get(k, 1).events = filterEvents(v, 1)
  BY <1>2 DEF Get
<1> QED
  BY <1>1, <1>2, <1>3, <1>4 DEF SessionHolds

\* The events, the graph and the snapshot of a session agree as far as failed
\* saves allow, however orchestrator events, appends and restarts interleave.
THEOREM SessionCopiesAgree == AdkSpec => []CopiesAgree
<1>1. AdkInv => SnapshotFollowsGraph
  BY DEF AdkInv, FileHolds, SnapshotFollowsGraph
<1>2. AdkInv => CopiesAgree
  BY <1>1, EventsInOrder DEF AdkInv, CopiesAgree
<1> QED
  BY <1>2, AdkInvariant, PTL

\* A state key of one user never shows in the session of another.
THEOREM UserStateStaysPrivate == AdkSpec => []UserStateIsPrivate
<1>1. AdkInv => UserStateIsPrivate
  <2> SUFFICES ASSUME AdkInv, NEW u \in User, NEW k \in List(u),
                      "user:k" \in DOMAIN Get(k, 0).state
               PROVE  Get(k, 0).state["user:k"][1] = u
    BY DEF UserStateIsPrivate
  <2>1. k \in Key /\ sessions[k].on /\ k[1] = u
    BY DEF List
  <2>2. /\ OwnState(u, userState[u]) /\ OwnState(u, sessions[k].state)
        /\ OwnState(u, appState)
    BY <2>1, AdkTypes, AppOwn DEF AdkInv, SessionHolds
  <2>3. Get(k, 0).state = mergeMaps(mergeMaps(appState, userState[u]), sessions[k].state)
    BY <2>1 DEF Get
  <2>4. OwnState(u, mergeMaps(mergeMaps(appState, userState[u]), sessions[k].state))
    BY <2>2, MergeOwn
  <2> QED
    BY <2>3, <2>4 DEF OwnState
<1> QED
  BY <1>1, AdkInvariant, PTL

=============================================================================
