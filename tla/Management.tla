----------------------------- MODULE Management -----------------------------
(***************************************************************************)
(* The management service of cmd/sgpd over a store that harnesses write to *)
(* meanwhile: WatchSession, and the calls that read the store more than    *)
(* once before they answer (GetSession, GetResumeContext, GetSessionGraph). *)
(* ListSessions has a module of its own.  A reader makes one call at a     *)
(* time; since counts the nodes of the session when the call began         *)
(* (history).                                                              *)
(***************************************************************************)
EXTENDS WatchSession

VARIABLE query   \* reader -> its call, and then the answer

managementVars == <<quads, op, load, subs, log, stream, query>>

noQuery == [pc |-> "none"]

ManagementInit == WatchInit /\ query = [r \in Reader |-> noQuery]

free(r) == stream[r].pc = "off" /\ load[r] = noLoad /\ query[r] = noQuery

-----------------------------------------------------------------------------
(* GetSession: the status, and then the head of a graph loaded later *)

GetSession(r, s) ==
  /\ free(r)
  /\ sessionExists(s)
  /\ \E status \in sessionStatus(s) :
       query' = [query EXCEPT ![r] = [pc |-> "session", session |-> s, status |-> status,
                                      since |-> Len(log[s])]]
  /\ UNCHANGED watchVars

GetSessionLoad(r) ==
  /\ query[r].pc = "session"
  /\ LoadSession(r, query[r].session) \/ LoadHead(r) \/ LoadEnd(r) \/ LoadNodes(r)
  /\ UNCHANGED <<stream, query>>

answerSession(r, head) ==
  query' = [query EXCEPT ![r] = [pc |-> "session.answer", session |-> @.session,
                                 status |-> @.status, since |-> @.since, head |-> head]]

\* Mutant: the head of a closed session is its terminal node.
GetSessionReturnTerminal(r) ==
  /\ query[r].pc = "session"
  /\ LoadDone(r)
  /\ answerSession(r, {IF load[r].closed THEN load[r].terminal ELSE load[r].head})
  /\ UNCHANGED stream

\* The head of the graph, when it is one of its nodes.
GetSessionReturn(r) ==
  /\ query[r].pc = "session"
  /\ LoadDone(r)
  /\ answerSession(r, {load[r].head} \cap (load[r].nodes \cup {NoID}))
  /\ UNCHANGED stream

\* An error of LoadGraph is dropped: the answer has no head.
GetSessionWithoutHead(r) ==
  /\ query[r].pc = "session"
  /\ LoadFails(r)
  /\ answerSession(r, {})
  /\ UNCHANGED stream

-----------------------------------------------------------------------------
(* GetResumeContext: GetLineage, one GetNode after the other *)

\* GetNode finds a node by its session quad.
nodeExists(n) == outValues(n, "session") # {}

GetResumeContext(r, n) ==
  /\ free(r)
  /\ query' = [query EXCEPT ![r] = [pc |-> "lineage", current |-> n, path |-> << >>]]
  /\ UNCHANGED watchVars

\* Mutant: the walk ends at a merge.
GetLineageToMerge(r) ==
  LET n == query[r].current
      path == <<n>> \o query[r].path
  IN /\ query[r].pc = "lineage"
     /\ IF ~nodeExists(n) THEN query' = [query EXCEPT ![r] = noQuery]
        ELSE IF Cardinality(parentsOf(n)) # 1
        THEN query' = [query EXCEPT ![r] = [pc |-> "lineage.answer", path |-> path]]
        ELSE \E p \in parentsOf(n) :
               query' = [query EXCEPT ![r] = [@ EXCEPT !.current = p, !.path = path]]
     /\ UNCHANGED watchVars

\* Mutant: the walk starts over at a merge.
GetLineageAgain(r) ==
  LET n == query[r].current
      path == <<n>> \o query[r].path
  IN /\ query[r].pc = "lineage"
     /\ IF ~nodeExists(n) THEN query' = [query EXCEPT ![r] = noQuery]
        ELSE IF parentsOf(n) = {}
        THEN query' = [query EXCEPT ![r] = [pc |-> "lineage.answer", path |-> path]]
        ELSE \E p \in parentsOf(n) :
               query' = [query EXCEPT ![r] =
                           [@ EXCEPT !.path = IF Cardinality(parentsOf(n)) > 1 THEN << >> ELSE path,
                                     !.current = IF Cardinality(parentsOf(n)) > 1 THEN n ELSE p]]
     /\ UNCHANGED watchVars

\* One turn of the loop.  The first parent is the one the store lists first.
GetLineage(r) ==
  LET n == query[r].current
      path == <<n>> \o query[r].path
  IN /\ query[r].pc = "lineage"
     /\ IF ~nodeExists(n) THEN query' = [query EXCEPT ![r] = noQuery]
        ELSE IF parentsOf(n) = {}
        THEN query' = [query EXCEPT ![r] = [pc |-> "lineage.answer", path |-> path]]
        ELSE \E p \in parentsOf(n) :
               query' = [query EXCEPT ![r] = [@ EXCEPT !.current = p, !.path = path]]
     /\ UNCHANGED watchVars

-----------------------------------------------------------------------------
(* GetSessionGraph: the node IDs, and then each node with its edges *)

\* The session is not looked up: an unknown one is empty.
GetSessionGraph(r, s) ==
  /\ free(r)
  /\ query' = [query EXCEPT ![r] = [pc |-> "graph", session |-> s, nodes |-> storedNodes(s)]]
  /\ UNCHANGED watchVars

edgesOf(nodes) == UNION {{<<n, p>> : p \in parentsOf(n)} : n \in nodes}

\* Mutant: the edges are those of the session, by its label.
GetSessionGraphByLabel(r) ==
  /\ query[r].pc = "graph"
  /\ query' = [query EXCEPT ![r] = [pc |-> "graph.answer", session |-> @.session,
                                    nodes |-> @.nodes,
                                    edges |-> edgesOf(storedNodes(query[r].session))]]
  /\ UNCHANGED watchVars

\* A node's quads never change, so one moment stands for all the queries.
GetSessionGraphRead(r) ==
  /\ query[r].pc = "graph"
  /\ query' = [query EXCEPT ![r] = [pc |-> "graph.answer", session |-> @.session,
                                    nodes |-> @.nodes, edges |-> edgesOf(@.nodes)]]
  /\ UNCHANGED watchVars

-----------------------------------------------------------------------------

answered(r) == query[r].pc \in {"session.answer", "lineage.answer", "graph.answer"}

QueryDone(r) ==
  /\ answered(r)
  /\ query' = [query EXCEPT ![r] = noQuery]
  /\ UNCHANGED watchVars

QueryStep(r) ==
  \/ GetSessionLoad(r) \/ GetSessionReturn(r) \/ GetSessionWithoutHead(r)
  \/ GetLineage(r) \/ GetSessionGraphRead(r)

Query(r) ==
  \/ \E s \in Session : GetSession(r, s) \/ GetSessionGraph(r, s)
  \/ \E n \in ID : GetResumeContext(r, n)
  \/ QueryStep(r) \/ QueryDone(r)

ManagementNext ==
  \/ \E s \in Session : Write(s) /\ UNCHANGED <<stream, query>>
  \/ \E r \in Reader, s \in Session, replay \in BOOLEAN :
       free(r) /\ WatchSessionOpen(r, s, replay) /\ UNCHANGED query
  \/ \E r \in Reader : /\ Handler(r) \/ WatchSessionClose(r) \/ WatchSessionLoadFails(r)
                       /\ UNCHANGED query
  \/ \E r \in Reader : Query(r)
  \/ /\ Crash
     /\ stream' = [r \in Reader |-> noStream]
     /\ query' = [r \in Reader |-> noQuery]

\* A handler goroutine is scheduled for as long as it has something to do, and
\* the client of a stream keeps reading or goes away.  Nothing is assumed of the
\* writers.
ManagementSpec ==
  /\ ManagementInit /\ [][ManagementNext]_managementVars
  /\ \A r \in Reader : WF_managementVars(Handler(r) /\ UNCHANGED query)
                       /\ WF_managementVars(QueryStep(r))

-----------------------------------------------------------------------------
(* Properties *)

\* Type correctness of the store, the streams and the calls.
ManagementTypeOK ==
  /\ WatchTypeOK
  /\ query \in [Reader ->
       {noQuery}
         \cup [pc : {"session"}, session : Session, status : {"open", "closed"}, since : Nat]
         \cup [pc : {"session.answer"}, session : Session, status : {"open", "closed"},
               since : Nat, head : SUBSET (ID \cup {NoID})]
         \cup [pc : {"lineage"}, current : ID, path : Seq(ID)]
         \cup [pc : {"lineage.answer"}, path : Seq(ID)]
         \cup [pc : {"graph"}, session : Session, nodes : SUBSET ID]
         \cup [pc : {"graph.answer"}, session : Session, nodes : SUBSET ID,
               edges : SUBSET (ID \X ID)]]

\* The head GetSession reports is no older than the call, although it comes from
\* a graph loaded in several queries while nodes are written: it was the head at
\* the beginning, or became it since.
SessionAnswerIsRecent ==
  \A r \in Reader : query[r].pc = "session.answer" =>
    \A head \in query[r].head :
      IF head = NoID THEN query[r].since = 0
      ELSE \E i \in DOMAIN log[query[r].session] :
             i >= query[r].since /\ log[query[r].session][i] = head

\* A resume context is a whole lineage, also when its nodes were read between
\* writes and crashes: it begins with the first node of the session and goes
\* from parent to child.
ResumeContextIsLineage ==
  \A r \in Reader : query[r].pc = "lineage.answer" =>
    LET path == query[r].path IN
    /\ \E s \in Session : log[s] # << >> /\ path[1] = log[s][1]
    /\ \A i \in 1..(Len(path) - 1) : path[i] \in parentsOf(path[i + 1])

\* The graph a management client draws is closed: every edge it is given joins
\* two of the nodes it is given, whatever was written between the listing of the
\* nodes and the reading of their edges.
GraphAnswerIsClosed ==
  \A r \in Reader : query[r].pc = "graph.answer" =>
    query[r].edges \subseteq query[r].nodes \X query[r].nodes

\* The answers of the management service, put together from several reads while
\* harnesses write, are sound: a recent head, a whole lineage, a closed graph.
AnswersAreSound ==
  ManagementTypeOK /\ SessionAnswerIsRecent /\ ResumeContextIsLineage /\ GraphAnswerIsClosed

\* Every call that was begun is answered or refused, or the process crashes: the
\* walk over the parents and the rounds of queries come to an end while others
\* write.
QueryIsAnswered ==
  \A r \in Reader :
    query[r].pc \in {"session", "lineage", "graph"} ~> (answered(r) \/ query[r] = noQuery)

=============================================================================
