----------------------------- MODULE MathHarness -----------------------------
(***************************************************************************)
(* sgp-harness-math over sgpd: the same loop as sgp-harness-bash, with a   *)
(* store that is a client of the harness service.  Every store call is an  *)
(* AppendEvent request; its handler on the server runs the store's steps   *)
(* and may go on after the client has given up: the connection breaks, the *)
(* context is cancelled, or the process is gone.  The client never sends a *)
(* request again.  Node IDs grow with the time of the append, which is     *)
(* what timestamps are used for.                                           *)
(***************************************************************************)
EXTENDS HarnessLoop, SgpdWire, TopoSort

CONSTANTS
  MaxStarts,   \* bound: process starts, by hand or by teleport
  MaxLost      \* bound: connections that break under a waiting client

Nobody == "nobody"

ASSUME MathAssumption ==
  /\ MaxStarts \in Nat \ {0} /\ MaxLost \in Nat
  /\ Nobody \notin Process

VARIABLES
  session,   \* the session's quads on the server, by predicate
  stored,    \* node ID -> the node the server has stored
  calls,     \* the handlers at work on the server
  starts,    \* process starts so far
  lost,      \* connections that broke so far
  acked,     \* history: nodes whose WriteNode returned nil
  failed     \* history: nodes whose WriteNode returned an error

serverVars == <<session, stored, calls, starts, lost, acked, failed>>

mathVars == <<made, proc, turns, cut, session, stored, calls, starts, lost, acked, failed>>

MathInit ==
  /\ LoopInit
  /\ session = [status |-> {}, head |-> {}, end_node |-> {}]
  /\ stored = [n \in {} |-> NoID]
  /\ calls = {}
  /\ starts = 0
  /\ lost = 0
  /\ acked = {} /\ failed = {}

sessionExists == session.status # {}

-----------------------------------------------------------------------------
(* The client: one request at a time for each process *)

waiting(p) == {c \in calls : c.client = p}

\* The handler of a request: the event is decoded when it arrives.
request(p, event) ==
  [client |-> p, event |-> EventToProto(event), pc |-> "sent", old |-> {}]

\* CreateSession, at the end of newHarness's first half.
CreateSession(p) ==
  /\ proc[p].pc = "create" /\ waiting(p) = {}
  /\ calls' = calls \cup {request(p, [node |-> << >>, reason |-> "", terminal |-> NoID])}
  /\ UNCHANGED <<loopVars, session, stored, starts, lost, acked, failed>>

WriteNode(p) ==
  /\ writing(p) /\ waiting(p) = {}
  /\ calls' = calls \cup {request(p, [node |-> <<proc[p].head, made[proc[p].head]>>,
                                      reason |-> "", terminal |-> NoID])}
  /\ UNCHANGED <<loopVars, session, stored, starts, lost, acked, failed>>

\* close: End on a graph that is closed already ends the process without a call.
EndSession(p) ==
  /\ proc[p].pc = "close" /\ waiting(p) = {}
  /\ IF proc[p].closed
     THEN proc' = [proc EXCEPT ![p] = off] /\ UNCHANGED calls
     ELSE /\ calls' = calls \cup {request(p, [node |-> << >>, reason |-> "complete",
                                              terminal |-> proc[p].head])}
          /\ UNCHANGED proc
  /\ UNCHANGED <<made, turns, cut, session, stored, starts, lost, acked, failed>>

-----------------------------------------------------------------------------
(* The server: AppendEvent, and the steps of the store's writes *)

replace(c, d) == (calls \ {c}) \cup {d}

\* EventFromProto, the kind, and the first query: the heads or the status that
\* the batch will delete.  A node of an unknown session is refused.
AppendEvent(c) ==
  LET e == EventFromProto(c.event)
      kind == ClassifyEvent(e)
  IN /\ c.pc = "sent"
     /\ calls' = replace(c,
          [c EXCEPT !.pc = IF kind = "node.appended" /\ ~sessionExists THEN "error" ELSE kind,
                    !.old = IF kind = "node.appended" THEN session.head
                            ELSE IF kind = "session.ended" THEN session.status ELSE {}])
     /\ UNCHANGED <<loopVars, session, stored, starts, lost, acked, failed>>

\* Mutant: the batch of WriteNode ignores a head that is gone.
ApplyIgnoringMissing(c) ==
  LET e == EventFromProto(c.event) IN
  /\ c.pc = "node.appended"
  /\ session' = [session EXCEPT !.head = (@ \ c.old) \cup {e.node[1]}]
  /\ stored' = [n \in DOMAIN stored \cup {e.node[1]} |->
                  IF n = e.node[1] THEN e.node[2] ELSE stored[n]]
  /\ calls' = replace(c, [c EXCEPT !.pc = "ok"])
  /\ UNCHANGED <<loopVars, starts, lost, acked, failed>>

\* Mutant: the error of the batch is dropped.
ApplyNodeUnchecked(c) ==
  LET e == EventFromProto(c.event) IN
  /\ c.pc = "node.appended"
  /\ IF c.old \subseteq session.head
     THEN /\ session' = [session EXCEPT !.head = (@ \ c.old) \cup {e.node[1]}]
          /\ stored' = [n \in DOMAIN stored \cup {e.node[1]} |->
                          IF n = e.node[1] THEN e.node[2] ELSE stored[n]]
     ELSE UNCHANGED <<session, stored>>
  /\ calls' = replace(c, [c EXCEPT !.pc = "ok"])
  /\ UNCHANGED <<loopVars, starts, lost, acked, failed>>

\* The batch of WriteNode, which fails as a whole when a head it deletes is gone.
ApplyNode(c) ==
  LET e == EventFromProto(c.event) IN
  /\ c.pc = "node.appended"
  /\ IF c.old \subseteq session.head
     THEN /\ session' = [session EXCEPT !.head = (@ \ c.old) \cup {e.node[1]}]
          /\ stored' = [n \in DOMAIN stored \cup {e.node[1]} |->
                          IF n = e.node[1] THEN e.node[2] ELSE stored[n]]
          /\ calls' = replace(c, [c EXCEPT !.pc = "ok"])
     ELSE /\ calls' = replace(c, [c EXCEPT !.pc = "error"])
          /\ UNCHANGED <<session, stored>>
  /\ UNCHANGED <<loopVars, starts, lost, acked, failed>>

ApplySession(c) ==
  LET e == EventFromProto(c.event) IN
  /\ c.pc \in {"session.start", "session.ended"}
  /\ session' = IF c.pc = "session.start"
                THEN [session EXCEPT !.status = @ \cup {"open"}]
                ELSE [session EXCEPT !.status = (@ \ c.old) \cup {"closed"},
                                     !.end_node = @ \cup {e.terminal}]
  /\ calls' = replace(c, [c EXCEPT !.pc = "ok"])
  /\ UNCHANGED <<loopVars, stored, starts, lost, acked, failed>>

\* A handler whose client is gone ends by itself.
HandlerEnds(c) ==
  /\ c.pc \in {"ok", "error"} /\ c.client = Nobody
  /\ calls' = calls \ {c}
  /\ UNCHANGED <<loopVars, session, stored, starts, lost, acked, failed>>

-----------------------------------------------------------------------------
(* The answer reaches the client, or does not *)

\* newHarness goes on with the system message.
createReturns(p, c) ==
  /\ proc[p].pc = "create" /\ c.pc = "ok"
  /\ made' = Append(made, node(NoID, "system", << >>, 0, 0))
  /\ proc' = [proc EXCEPT ![p] =
                [running("write", {Len(made) + 1}, Len(made) + 1, FALSE)
                   EXCEPT !.arriving = TRUE, !.next = "arrive"]]
  /\ UNCHANGED <<turns, cut, acked, failed>>

\* An error of CreateSession ends newHarness and the process; one of EndSession
\* is dropped, and the process ends as well.
callEnds(p) ==
  /\ proc[p].pc \in {"create", "close"}
  /\ proc' = [proc EXCEPT ![p] = off]
  /\ UNCHANGED <<made, turns, cut, acked, failed>>

writeReturnsError(p) ==
  /\ writeFails(p)
  /\ failed' = failed \cup {proc[p].head}
  /\ UNCHANGED acked

Reply(p, c) ==
  /\ c \in waiting(p) /\ c.pc \in {"ok", "error"}
  /\ calls' = calls \ {c}
  /\ \/ createReturns(p, c)
     \/ (proc[p].pc = "create" => c.pc = "error") /\ callEnds(p)
     \/ /\ c.pc = "ok" /\ writeReturns(p)
        /\ acked' = acked \cup {proc[p].head} /\ UNCHANGED failed
     \/ c.pc = "error" /\ writeReturnsError(p)
  /\ UNCHANGED <<session, stored, starts, lost>>

\* What is left of the requests of a client that has given up: a request that
\* had not arrived may be lost.
abandoned(p) ==
  LET rest == calls \ waiting(p)
      orphans == {[c EXCEPT !.client = Nobody] : c \in waiting(p)}
  IN {rest \cup orphans}
       \cup (IF \A c \in waiting(p) : c.pc = "sent" THEN {rest} ELSE {})

\* The connection breaks, or the context of the call is cancelled, while the
\* client waits: the call returns an error, whatever the server makes of it.
connectionLost(p) ==
  /\ lost < MaxLost /\ waiting(p) # {}
  /\ lost' = lost + 1
  /\ calls' \in abandoned(p)
  /\ callEnds(p) \/ writeReturnsError(p)
  /\ UNCHANGED <<session, stored, starts>>

-----------------------------------------------------------------------------
(* LoadGraph: LoadEvents, and RestoreFromEvents of what it sends *)

\* The orders in which SynthesizeEvents may list the nodes.
synthesized ==
  {k.sorted : k \in topoSortNodes([n \in DOMAIN stored |->
                 [deps |-> {stored[n].parent} \ {NoID}, ts |-> n]])}

\* Mutant: a parent that is missing is not noticed.
restoresAnyway(events) == TRUE

\* linkNodeParents refuses a node whose parent has not come before.
restores(events) ==
  \A i \in DOMAIN events :
    stored[events[i]].parent \in {NoID} \cup {events[j] : j \in 1..(i - 1)}

\* Mutant: the graph goes on at the head the server has stored.
LoadGraphAtStoredHead(p) ==
  /\ proc[p].pc = "open"
  /\ \E events \in synthesized, status \in IF sessionExists THEN session.status ELSE {"none"} :
       proc' = [proc EXCEPT ![p] =
                  IF ~sessionExists \/ ~restores(events) THEN off
                  ELSE running("arrive", ToSet(events),
                               IF session.head = {} THEN NoID ELSE CHOOSE h \in session.head : TRUE,
                               status = "closed")]
  /\ UNCHANGED <<made, turns, cut, serverVars>>

\* Status and head are read at one moment; CayleyStore has the queries apart.
\* The head of the graph is the last event's node, not the stored head.
LoadGraph(p) ==
  /\ proc[p].pc = "open"
  /\ \E events \in synthesized, status \in IF sessionExists THEN session.status ELSE {"none"} :
       proc' = [proc EXCEPT ![p] =
                  IF ~sessionExists \/ ~restores(events) THEN off
                  ELSE running("arrive", ToSet(events),
                               IF events = << >> THEN NoID ELSE Last(events),
                               status = "closed")]
  /\ UNCHANGED <<made, turns, cut, serverVars>>

-----------------------------------------------------------------------------
(* The process *)

\* main with --sgpd-url, for a new session or with --session-id.  After a start
\* that never got its answer a new process makes another session, which is not
\* the one modelled.
main(p) ==
  /\ \A q \in Process : proc[q] = off
  /\ starts < MaxStarts
  /\ starts' = starts + 1
  /\ \/ /\ sessionExists
        /\ proc' = [proc EXCEPT ![p] = opening("sgpd")]
     \/ /\ ~sessionExists /\ calls = {}
        /\ proc' = [proc EXCEPT ![p] = [pc |-> "create"]]
  /\ UNCHANGED <<made, turns, cut, session, stored, calls, lost, acked, failed>>

mathHandleTurn(p) == handleTurn(p) /\ UNCHANGED serverVars

mathInput(p) == quit(p) /\ UNCHANGED serverVars

mathInferenceLoop(p) ==
  /\ \/ inferenceFails(p) \/ finalAnswer(p)
     \/ \E batch \in Batch : toolCalls(p, batch)
     \/ executeTool(p) \/ spawnFails(p)
  /\ UNCHANGED serverVars

\* The successor is given the URL of the same sgpd.
mathSpawnHandoff(p) ==
  /\ starts < MaxStarts /\ starts' = starts + 1
  /\ \E q \in Process : spawnHandoff(p, q, "sgpd")
  /\ UNCHANGED <<session, stored, calls, lost, acked, failed>>

mathHandleArrival(p) ==
  /\ handleArrival(p) \/ arrivalResult(p) \/ exitTeleported(p)
  /\ UNCHANGED serverVars

\* The process stops at any point.  A batch is broken off there unless its call
\* node is what a successor will find last.
crash(p) ==
  /\ proc[p].pc \notin {"off", "open"}
  /\ proc' = [proc EXCEPT ![p] = off]
  /\ calls' \in abandoned(p)
  /\ cut' = cut \cup (IF proc[p].pc # "create" /\ proc[p].batch # NoID THEN {proc[p].batch} ELSE {})
  /\ UNCHANGED <<made, turns, session, stored, starts, lost, acked, failed>>

Client(p) ==
  \/ CreateSession(p) \/ WriteNode(p) \/ EndSession(p) \/ LoadGraph(p)
  \/ mathInferenceLoop(p) \/ mathSpawnHandoff(p) \/ mathHandleArrival(p)
  \/ \E c \in calls : Reply(p, c)

Server == \E c \in calls : AppendEvent(c) \/ ApplyNode(c) \/ ApplySession(c) \/ HandlerEnds(c)

MathNext ==
  \/ Server
  \/ \E p \in Process :
       \/ Client(p) \/ main(p) \/ mathHandleTurn(p) \/ mathInput(p)
       \/ connectionLost(p) \/ crash(p)

MathSpec == MathInit /\ [][MathNext]_mathVars

-----------------------------------------------------------------------------
(* Properties *)

\* Type correctness of the processes, the server's quads and the handlers.
MathTypeOK ==
  /\ LoopTypeOK
  /\ session.status \subseteq {"open", "closed"}
  /\ session.head \subseteq DOMAIN stored
  /\ session.end_node \subseteq 0..Len(made)
  /\ DOMAIN stored \subseteq DOMAIN made
  /\ \A c \in calls :
       /\ c.client \in Process \cup {Nobody}
       /\ c.pc \in {"sent", "node.appended", "session.start", "session.ended", "ok", "error"}
       /\ c.old \subseteq IF c.event.node # << >> THEN DOMAIN stored ELSE {"open", "closed"}
  /\ starts \in 0..MaxStarts /\ lost \in 0..MaxLost
  /\ acked \subseteq DOMAIN made /\ failed \subseteq DOMAIN made

\* The call a waiting client made, by its control state.
callOf(p) == CASE writing(p) -> "node.appended"
               [] proc[p].pc = "create" -> "session.start"
               [] proc[p].pc = "close" -> "session.ended"

\* What the server has stored is what the harness appended, through the
\* conversions there and back: messages, call IDs and parents; and each request
\* is carried out as the call that was made, although its kind is not sent.
WireIsFaithful ==
  /\ \A n \in DOMAIN stored :
       stored[n] = made[n] /\ NodeFromProto(NodeToProto(n, stored[n])) = made[n]
  /\ \A c \in calls :
       c.client # Nobody => c.pc \in {"sent", callOf(c.client), "ok", "error"}

\* However handlers of abandoned requests overlap with the writes that follow,
\* the session has one head.
OneHead == Cardinality(session.head) <= 1

\* A node whose write was acknowledged is on the server, and so is its whole
\* lineage, but for nodes whose own write was reported to have failed: whatever
\* handlers of abandoned requests do, a client knows of every hole it leaves.
AckedIsStored ==
  /\ acked \subseteq DOMAIN stored
  /\ \A n \in acked : ToSet(lineage[n]) \subseteq DOMAIN stored \cup failed

\* What the server keeps for its clients, with handlers of abandoned requests
\* running beside new ones: one head, and every acknowledged node.
ServerInv == MathTypeOK /\ OneHead /\ AckedIsStored

\* A session taken up again goes on at the newest acknowledged node or later,
\* although the handler of a request that its client left behind may have moved the
\* stored head back.  Once a process has gone on after a write that failed, two
\* such handlers can build a longer branch, and the session goes on there.
ResumedAtNewest ==
  failed = {} => \A p \in Process :
    proc[p].pc = "arrive" => \A n \in acked : n <= proc[p].head

\* A graph the client has loaded has no holes, whatever writes were lost: every
\* node in it resumes.
LoadedGraphResumes ==
  \A p \in Process :
    proc[p].pc = "arrive" => \A n \in proc[p].graph : resumes(proc[p].graph, n)

\* A session loaded by handleArrival is whole and up to date: no holes, and a head
\* that is no older than the last acknowledged node.
TakenUpWhole == ResumedAtNewest /\ LoadedGraphResumes

=============================================================================
