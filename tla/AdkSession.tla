----------------------------- MODULE AdkSession ------------------------------
(***************************************************************************)
(* The ADK session service of examples/adk-oac-sgp-agent/sgpsession: the   *)
(* sessions of one app in memory, the state they share, and a JSON         *)
(* snapshot of each session's graph on disk.  Each method holds the        *)
(* service's lock, except that EnsureSession looks a session up and        *)
(* creates it under two locks, and IngestOrchestratorEvent appends under a *)
(* third.  Save may fail, and the process may restart.                     *)
(*                                                                         *)
(* A node of a graph and an event stand for each other by their number;    *)
(* the graph is the chain that appendSGPNodeLocked makes.  The JSON store  *)
(* and its graph API are external: Save replaces the session's file.       *)
(***************************************************************************)
EXTENDS Naturals, FiniteSets, SequencesExt

CONSTANTS
  Key,             \* the <<user, session ID>> pairs callers ask for
  Caller,          \* callers of IngestOrchestratorEvent
  MaxEvents,       \* bound: events and state changes in all
  MaxFailures      \* bound: Save calls that fail

ASSUME AdkAssumption == MaxEvents \in Nat /\ MaxFailures \in Nat

VARIABLES
  sessions,    \* <<user, session ID>> -> trackedSession, or noSession
  appState,    \* key -> value
  userState,   \* user -> key -> value
  files,       \* session ID -> the nodes of its snapshot, none without a file
  ingest,      \* caller -> its IngestOrchestratorEvent call
  count,       \* events and state changes so far
  failures,    \* failed Save calls so far
  kept         \* history: key -> events whose calls returned nil, since the
               \* session was last forgotten

adkVars == <<sessions, appState, userState, files, ingest, count, failures, kept>>

User == {k[1] : k \in Key}
SessionID == {k[2] : k \in Key}

noSession == [on |-> FALSE]
noCall == [pc |-> "none"]

\* A state is a function from some keys to values.  A value names its writer
\* and is new with every write.
StateKey == {"app:k", "user:k", "k", "temp:k"}
noState == [x \in {} |-> << >>]

AdkInit ==
  /\ sessions = [k \in Key |-> noSession]
  /\ appState = noState
  /\ userState = [u \in User |-> noState]
  /\ files = [s \in SessionID |-> << >>]
  /\ ingest = [c \in Caller |-> noCall]
  /\ count = 0
  /\ failures = 0
  /\ kept = [k \in Key |-> {}]

-----------------------------------------------------------------------------
(* State *)

\* mergeMaps of two maps, and maps.Copy(base, delta).
mergeMaps(base, delta) ==
  [x \in DOMAIN base \cup DOMAIN delta |-> IF x \in DOMAIN delta THEN delta[x] ELSE base[x]]

only(delta, keys) == [x \in DOMAIN delta \cap keys |-> delta[x]]

\* extractStateDeltas: by prefix; anything else, temp: included, is the session's.
appDelta(delta) == only(delta, {"app:k"})

userDelta(delta) == only(delta, {"user:k"})

sessionDelta(delta) == only(delta, {"k", "temp:k"})

mergeAppStateLocked(delta) == mergeMaps(appState, appDelta(delta))

\* Mutant: the state of users is kept by app only.
mergeUserStateOfAll(u, delta) ==
  [v \in User |-> mergeMaps(userState[v], userDelta(delta))]

mergeUserStateLocked(u, delta) ==
  [userState EXCEPT ![u] = mergeMaps(@, userDelta(delta))]

\* The deltas a caller may pass: no change, or a new value for some keys.
Delta(u) == {noState} \cup {[x \in keys |-> <<u, count + 1>>] :
                              keys \in {{"app:k", "k"}, {"user:k", "temp:k"}}}

\* Save with the graph in memory.  Each outcome leaves its own files.
saved(s, graph) == files' = [files EXCEPT ![s] = graph] /\ UNCHANGED failures

saveFails == failures < MaxFailures /\ failures' = failures + 1 /\ UNCHANGED files

-----------------------------------------------------------------------------
(* Sessions *)

\* Mutant: a session that exists is created over again.
alwaysCreated(k) == TRUE

notTracked(k) == ~sessions[k].on

\* The new session's state holds the app's and the user's state as well.
newSession(k, delta) ==
  [on |-> TRUE, events |-> << >>, graph |-> << >>,
   state |-> mergeMaps(mergeMaps(mergeAppStateLocked(delta),
                                 mergeUserStateLocked(k[1], delta)[k[1]]),
                       sessionDelta(delta))]

\* Create.  When Save fails the shared state has changed and no session exists.
Create(k, delta) ==
  /\ count < MaxEvents
  /\ count' = count + 1
  /\ notTracked(k)
  /\ appState' = mergeAppStateLocked(delta)
  /\ userState' = mergeUserStateLocked(k[1], delta)
  /\ \/ /\ saved(k[2], << >>)
        /\ sessions' = [sessions EXCEPT ![k] = newSession(k, delta)]
     \/ saveFails /\ UNCHANGED sessions
  /\ UNCHANGED <<ingest, kept>>

\* Delete forgets the session and leaves its file.
Delete(k) ==
  /\ sessions[k].on
  /\ sessions' = [sessions EXCEPT ![k] = noSession]
  /\ kept' = [kept EXCEPT ![k] = {}]
  /\ UNCHANGED <<appState, userState, files, ingest, count, failures>>

\* Mutant: an event is recorded although its snapshot was not written.
AppendEventBeforeSave(k, delta) ==
  LET e == count + 1 IN
  /\ count < MaxEvents /\ sessions[k].on
  /\ count' = e
  /\ appState' = mergeAppStateLocked(delta)
  /\ userState' = mergeUserStateLocked(k[1], delta)
  /\ sessions' = [sessions EXCEPT ![k].state = mergeMaps(@, sessionDelta(delta)),
                                  ![k].events = Append(@, e)]
  /\ saved(k[2], sessions[k].graph)
  /\ kept' = [kept EXCEPT ![k] = @ \cup {e}]
  /\ UNCHANGED ingest

\* AppendEvent: state and graph first, then Save, then the event.  A partial
\* event changes nothing.
AppendEvent(k, delta) ==
  LET e == count + 1
      graph == Append(sessions[k].graph, e)
      updated == [sessions[k] EXCEPT !.state = mergeMaps(@, sessionDelta(delta)),
                                     !.graph = graph]
  IN /\ count < MaxEvents /\ sessions[k].on
     /\ count' = e
     /\ appState' = mergeAppStateLocked(delta)
     /\ userState' = mergeUserStateLocked(k[1], delta)
     /\ \/ /\ saved(k[2], graph)
           /\ sessions' = [sessions EXCEPT ![k] = [updated EXCEPT !.events = Append(@, e)]]
           /\ kept' = [kept EXCEPT ![k] = @ \cup {e}]
        \/ /\ saveFails
           /\ sessions' = [sessions EXCEPT ![k] = updated]
           /\ UNCHANGED kept
     /\ UNCHANGED ingest

-----------------------------------------------------------------------------
(* IngestOrchestratorEvent *)

\* EnsureSession under the read lock.
EnsureSession(c, k) ==
  /\ ingest[c] = noCall /\ count < MaxEvents
  /\ ingest' = [ingest EXCEPT ![c] = [pc |-> IF sessions[k].on THEN "append" ELSE "create",
                                      key |-> k]]
  /\ UNCHANGED <<sessions, appState, userState, files, count, failures, kept>>

\* Its call of Create.  "already exists" is not an error here.
EnsureCreate(c) ==
  LET k == ingest[c].key IN
  /\ ingest[c].pc = "create"
  /\ IF notTracked(k)
     THEN \/ /\ saved(k[2], << >>)
             /\ sessions' = [sessions EXCEPT ![k] = newSession(k, noState)]
             /\ ingest' = [ingest EXCEPT ![c].pc = "append"]
          \/ /\ saveFails
             /\ ingest' = [ingest EXCEPT ![c] = noCall]
             /\ UNCHANGED sessions
     ELSE /\ ingest' = [ingest EXCEPT ![c].pc = "append"]
          /\ UNCHANGED <<sessions, files, failures>>
  /\ UNCHANGED <<appState, userState, count, kept>>

\* The append under the lock.  A session deleted in between is an error.
IngestOrchestratorEvent(c) ==
  LET k == ingest[c].key
      e == count + 1
      graph == Append(sessions[k].graph, e)
  IN /\ ingest[c].pc = "append" /\ count < MaxEvents
     /\ ingest' = [ingest EXCEPT ![c] = noCall]
     /\ \/ /\ ~sessions[k].on
           /\ UNCHANGED <<sessions, files, count, failures, kept>>
        \/ /\ sessions[k].on
           /\ count' = e
           /\ sessions' = [sessions EXCEPT ![k].graph = graph]
           /\ \/ saved(k[2], graph) /\ kept' = [kept EXCEPT ![k] = @ \cup {e}]
              \/ saveFails /\ UNCHANGED kept
     /\ UNCHANGED <<appState, userState>>

\* The process restarts: the service begins empty over the same directory.
NewService ==
  /\ sessions' = [k \in Key |-> noSession]
  /\ appState' = noState
  /\ userState' = [u \in User |-> noState]
  /\ ingest' = [c \in Caller |-> noCall]
  /\ kept' = [k \in Key |-> {}]
  /\ UNCHANGED <<files, count, failures>>

AdkNext ==
  \/ \E k \in Key : \E delta \in Delta(k[1]) : Create(k, delta) \/ AppendEvent(k, delta)
  \/ \E k \in Key : Delete(k)
  \/ \E c \in Caller : (\E k \in Key : EnsureSession(c, k)) \/ EnsureCreate(c)
                       \/ IngestOrchestratorEvent(c)
  \/ NewService

AdkSpec == AdkInit /\ [][AdkNext]_adkVars

-----------------------------------------------------------------------------
(* What Get and List return *)

filterEvents(events, numRecent) ==
  IF numRecent > 0 /\ Len(events) > numRecent
  THEN SubSeq(events, Len(events) - numRecent + 1, Len(events)) ELSE events

\* The copies Get makes: later calls do not change them.
Get(k, numRecent) ==
  [state |-> mergeMaps(mergeMaps(appState, userState[k[1]]), sessions[k].state),
   events |-> filterEvents(sessions[k].events, numRecent)]

List(u) == {k \in Key : sessions[k].on /\ k[1] = u}

-----------------------------------------------------------------------------
(* Properties *)

EventID == 1..MaxEvents

Value == User \X EventID
StateOf(keys) == UNION {[ks -> Value] : ks \in SUBSET keys}

trackedSession ==
  [on : {TRUE}, events : Seq(EventID), graph : Seq(EventID), state : StateOf(StateKey)]

\* Type correctness of the sessions, the shared state and the calls.
AdkTypeOK ==
  /\ sessions \in [Key -> {noSession} \cup trackedSession]
  /\ appState \in StateOf({"app:k"})
  /\ userState \in [User -> StateOf({"user:k"})]
  /\ files \in [SessionID -> Seq(EventID)]
  /\ ingest \in [Caller -> {noCall} \cup [pc : {"create", "append"}, key : Key]]
  /\ count \in 0..MaxEvents /\ failures \in 0..MaxFailures
  /\ kept \in [Key -> SUBSET EventID]

\* The file of a session is named by its ID alone, and users may choose the
\* same one.
Sole(k) == \A j \in Key : j[2] = k[2] => j = k

\* The snapshot of a session is its graph, up to the nodes of failed saves, which
\* the next save brings along; and the events whose calls have returned are in
\* it: two callers that both find the session missing do not wipe out each
\* other's event.
SnapshotFollowsGraph ==
  \A k \in Key : sessions[k].on /\ Sole(k) =>
    /\ IsPrefix(files[k[2]], sessions[k].graph)
    /\ failures = 0 => files[k[2]] = sessions[k].graph
    /\ kept[k] \subseteq ToSet(files[k[2]])

\* The events ADK sees are nodes of the graph, each of them once and in the same
\* order, also when events of the orchestrator come in between and saves fail, and
\* a reader who asks for the most recent ones gets those.
EventsAreNodes ==
  \A k \in Key : sessions[k].on =>
    LET graph == sessions[k].graph
        shown == sessions[k].events
    IN /\ IsInjective(graph) /\ ToSet(shown) \subseteq ToSet(graph)
       /\ \A i, j \in DOMAIN shown : i < j =>
            \E a, b \in DOMAIN graph : a < b /\ graph[a] = shown[i] /\ graph[b] = shown[j]
       /\ shown # << >> => Get(k, 1).events = <<Last(shown)>>

\* The three copies of a session, its events, its graph and its snapshot, agree as
\* far as failed saves allow.
CopiesAgree == AdkTypeOK /\ SnapshotFollowsGraph /\ EventsAreNodes

\* Nobody's user state shows in another user's session.
UserStateIsPrivate ==
  \A u \in User : \A k \in List(u) :
    LET view == Get(k, 0).state
    IN "user:k" \in DOMAIN view => view["user:k"][1] = u

=============================================================================
