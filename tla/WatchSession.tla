---------------------------- MODULE WatchSession ----------------------------
(***************************************************************************)
(* The WatchSession stream of cmd/sgpd/management_handler.go over the      *)
(* store: subscribe, then load and replay the history if it was asked for, *)
(* then pass on what the channel delivers until the client goes away.      *)
(* Harnesses write to the store meanwhile.                                 *)
(***************************************************************************)
EXTENDS CayleyStore, TopoSort

\* An event of the session itself is told from a node by its kind.
ASSUME EventAssumption == {"session.start", "session.ended"} \cap ID = {}

VARIABLE stream   \* reader -> its WatchSession call

watchVars == <<quads, op, load, subs, log, stream>>

noStream == [pc |-> "off"]

WatchInit == Init /\ stream = [r \in Reader |-> noStream]

-----------------------------------------------------------------------------

\* Subscribe before loading history.
WatchSessionOpen(r, s, replay) ==
  /\ stream[r].pc = "off" /\ load[r] = noLoad
  /\ Watch(r, s)
  /\ stream' = [stream EXCEPT ![r] =
                  [pc |-> IF replay THEN "load" ELSE "live", session |-> s,
                   replay |-> replay, todo |-> << >>, sent |-> << >>]]

\* The LoadGraph call of the handler.
WatchSessionLoad(r) ==
  /\ stream[r].pc = "load"
  /\ LoadSession(r, stream[r].session) \/ LoadHead(r) \/ LoadEnd(r) \/ LoadNodes(r)
  /\ UNCHANGED stream

\* ErrSessionNotFound from LoadGraph is not an error here: there is no history.
WatchSessionNoHistory(r) ==
  /\ stream[r].pc = "load" /\ load[r].pc = "none"
  /\ ~sessionExists(stream[r].session)
  /\ stream' = [stream EXCEPT ![r].pc = "live"]
  /\ UNCHANGED storeVars

\* Mutant: the history is sent as the store lists it.
historyUnsorted(g) ==
  LET ending == IF g.closed THEN <<"session.ended">> ELSE << >>
  IN {<<"session.start">> \o q \o ending : q \in SetToSeqs(g.nodes)}

\* The events SynthesizeEvents makes of the loaded graph, nodes by their IDs.
\* Timestamps are left open: nodes that do not depend on each other may come in
\* any order the sort allows.
historyOf(g) ==
  LET map == [n \in g.nodes |-> [deps |-> parentsOf(n), ts |-> 0]]
      ending == IF g.closed THEN <<"session.ended">> ELSE << >>
  IN {<<"session.start">> \o k.sorted \o ending : k \in topoSortNodes(map)}

\* Mutant: the subscription begins after the history was loaded.
WatchSessionReplayThenWatch(r) ==
  /\ stream[r].pc = "load" /\ load[r].pc = "loaded"
  /\ \E h \in historyOf(load[r]) :
       stream' = [stream EXCEPT ![r].pc = "replay", ![r].todo = h]
  /\ load' = [load EXCEPT ![r] = noLoad]
  /\ subs' = [subs EXCEPT ![r].chan = << >>, ![r].dropped = FALSE]
  /\ UNCHANGED <<quads, op, log>>

WatchSessionReplay(r) ==
  /\ stream[r].pc = "load" /\ load[r].pc = "loaded"
  /\ \E h \in historyOf(load[r]) :
       stream' = [stream EXCEPT ![r].pc = "replay", ![r].todo = h]
  /\ load' = [load EXCEPT ![r] = noLoad]
  /\ UNCHANGED <<quads, op, subs, log>>

\* Mutant: the last event of the history is left behind.
WatchSessionSendAllButLast(r) ==
  /\ stream[r].pc = "replay"
  /\ stream' = [stream EXCEPT ![r].pc = IF Len(stream[r].todo) <= 2 THEN "live" ELSE "replay",
                              ![r].todo = Tail(@),
                              ![r].sent = Append(@, Head(stream[r].todo))]
  /\ UNCHANGED storeVars

WatchSessionSendHistory(r) ==
  /\ stream[r].pc = "replay"
  /\ stream' = [stream EXCEPT ![r].pc = IF Len(stream[r].todo) = 1 THEN "live" ELSE "replay",
                              ![r].todo = Tail(@),
                              ![r].sent = Append(@, Head(stream[r].todo))]
  /\ UNCHANGED storeVars

WatchSessionSendLive(r) ==
  /\ stream[r].pc = "live"
  /\ Receive(r)
  /\ stream' = [stream EXCEPT ![r].sent = Append(@, Head(subs[r].chan))]

\* The client is gone, seen by the select or by a failed Send.
WatchSessionClose(r) ==
  /\ stream[r].pc \in {"replay", "live"}
  /\ cancel(r)
  /\ stream' = [stream EXCEPT ![r] = noStream]

\* LoadGraph fails for another reason than a missing session, as it does when
\* the client leaves during its queries.
WatchSessionLoadFails(r) ==
  /\ stream[r].pc = "load" /\ load[r].pc = "nodes"
  /\ load' = [load EXCEPT ![r] = noLoad]
  /\ subs' = [subs EXCEPT ![r] = unsubscribed]
  /\ stream' = [stream EXCEPT ![r] = noStream]
  /\ UNCHANGED <<quads, op, log>>

-----------------------------------------------------------------------------

\* What the handler does by itself.  Management composes it with the writers.
Handler(r) ==
  \/ WatchSessionLoad(r) \/ WatchSessionNoHistory(r) \/ WatchSessionReplay(r)
  \/ WatchSessionSendHistory(r) \/ WatchSessionSendLive(r)

-----------------------------------------------------------------------------
(* Properties *)

\* Type correctness of the streams.
WatchTypeOK ==
  /\ StoreTypeOK
  /\ stream \in [Reader ->
       {noStream} \cup [pc : {"load", "replay", "live"}, session : Session,
                        replay : BOOLEAN,
                        todo : Seq(ID \cup {"session.start", "session.ended"}),
                        sent : Seq(ID \cup {"session.start", "session.ended"})]]

\* The nodes whose WriteNode call has returned.
Returned(s) ==
  ToSet(log[s]) \ (IF writing(s, "publish") THEN {op[s].node} ELSE {})

\* "Subscribe BEFORE loading history to avoid missing live events": once the
\* history is out, every node of the session was sent or waits in the channel,
\* however the writes fell between subscription, queries and replay, unless the
\* channel overflowed.  Without history this holds for the nodes written since
\* the subscription.
NoNodeMissed ==
  \A r \in Reader :
    stream[r].pc = "live" /\ ~subs[r].dropped =>
      LET nodes == log[stream[r].session]
          owed == SubSeq(nodes, IF stream[r].replay THEN 1 ELSE subs[r].since + 1, Len(nodes))
      IN ToSet(owed) \cap Returned(stream[r].session)
           \subseteq ToSet(stream[r].sent) \cup ToSet(subs[r].chan)

\* With its history the stream is a log an observer can replay: it shows no node
\* before the parents of that node, although history and live nodes overlap.
ParentsAreSentFirst ==
  \A r \in Reader :
    stream[r].pc # "off" /\ stream[r].replay /\ ~subs[r].dropped =>
      \A i \in DOMAIN stream[r].sent :
        stream[r].sent[i] \in ID =>
          parentsOf(stream[r].sent[i]) \subseteq {stream[r].sent[j] : j \in 1..(i - 1)}

\* A node is sent at most twice, once from the history and once live, and a
\* stream without history sends none twice.
SentTwiceAtMost ==
  \A r \in Reader : stream[r].pc # "off" =>
    \A n \in ID :
      Cardinality({i \in DOMAIN stream[r].sent : stream[r].sent[i] = n})
        <= IF stream[r].replay THEN 2 ELSE 1

\* What a stream has sent is a log that its observer can replay: parents come
\* first, and a node comes at most once from the history and once live.
StreamIsReplayable == ParentsAreSentFirst /\ SentTwiceAtMost

\* A node in the channel or in the history of an open stream is sent in the
\* end, or the client leaves: neither queue starves the other.
PendingIsSent ==
  \A r \in Reader, n \in ID :
    (stream[r].pc # "off" /\ n \in ToSet(stream[r].todo) \cup ToSet(subs[r].chan))
      ~> (stream[r].pc = "off" \/ n \in ToSet(stream[r].sent))

=============================================================================
