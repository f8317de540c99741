----------------------------- MODULE HarnessLoop -----------------------------
(***************************************************************************)
(* The conversation loop of the example harnesses, as sgp-harness-bash has *)
(* it: a user turn, inference with tool calls, handing the session over to *)
(* another process ("teleport") and taking it up again on arrival.  Each   *)
(* node is appended to the graph in memory and then written to the store;  *)
(* the modules that extend this one say what a write is, and what a        *)
(* process finds when it loads the session.                                *)
(*                                                                         *)
(* One session.  made holds every node any process ever appended, and the  *)
(* ID of a node is its place in made (IDs are fresh UUIDs).  The harness   *)
(* appends below its head only, so a node has one parent.                  *)
(***************************************************************************)
EXTENDS Naturals, FiniteSets, SequencesExt

CONSTANTS
  Process,       \* harness processes
  Batch,         \* the lists of tool names the model may call at once
  maxToolSteps,
  MaxTurns,      \* bound: user turns in all
  MaxNodes       \* bound: nodes in all

ASSUME LoopAssumption ==
  /\ maxToolSteps \in Nat \ {0} /\ MaxTurns \in Nat /\ MaxNodes \in Nat \ {0}
  /\ Batch \subseteq Seq({"tool", "teleport"}) \ {<< >>}

VARIABLES
  made,    \* history: every node appended by any process
  proc,    \* process -> its control state and its graph
  turns,   \* user turns begun
  cut      \* history: call nodes whose answering was broken off

loopVars == <<made, proc, turns, cut>>

NoID == 0

off == [pc |-> "off"]

\* A process started with --session-id that has yet to open its store.
opening(store) == [pc |-> "open", store |-> store]

\* newHarness: the fields of a harness and of the Graph it holds.  next is where
\* the process goes on once its write has succeeded.
running(pc, graph, head, closed) ==
  [pc |-> pc, next |-> "prompt", graph |-> graph, head |-> head, closed |-> closed,
   arriving |-> FALSE, step |-> 0, callSeq |-> 0, batch |-> NoID, idx |-> 0]

LoopInit ==
  /\ made = << >>
  /\ proc = [p \in Process |-> off]
  /\ turns = 0
  /\ cut = {}

-----------------------------------------------------------------------------
(* The graph in memory *)

node(parent, role, calls, seq, call) ==
  [parent |-> parent, role |-> role, calls |-> calls, seq |-> seq, call |-> call]

lineage[n \in 0..Len(made)] ==
  IF n = NoID THEN << >> ELSE Append(lineage[made[n].parent], n)

\* ResumeNodes fails when the lineage leaves the graph.
resumes(graph, n) == n # NoID /\ ToSet(lineage[n]) \subseteq graph

\* Append fails on a closed graph, and on an empty parent ID.
canAppend(p) == ~proc[p].closed /\ proc[p].head # NoID

\* Append below the head, make the new node the head, and go on to write it.
appendNode(p, role, calls, seq, call, then) ==
  LET id == Len(made) + 1 IN
  /\ id <= MaxNodes
  /\ made' = Append(made, node(proc[p].head, role, calls, seq, call))
  /\ proc' = [proc EXCEPT ![p] =
                [then EXCEPT !.graph = @ \cup {id}, !.head = id,
                             !.next = then.pc, !.pc = "write"]]

\* A function of the loop returned an error: main prints it and reads the next
\* line, leaves its loop when the context is cancelled, and exits at once during
\* the arrival.
fail(p) ==
  /\ \E pc \in {"prompt", "close"} :
       proc' = [proc EXCEPT ![p] =
                  IF @.arriving THEN off
                  ELSE [@ EXCEPT !.pc = pc, !.batch = NoID, !.step = 0]]
  /\ cut' = cut \cup ({proc[p].batch} \ {NoID})

-----------------------------------------------------------------------------
(* handleTurn *)

handleTurn(p) ==
  /\ proc[p].pc = "prompt" /\ turns < MaxTurns
  /\ turns' = turns + 1
  /\ IF canAppend(p)
     THEN /\ appendNode(p, "user", << >>, 0, 0,
                        [proc[p] EXCEPT !.pc = "infer", !.step = 0])
          /\ UNCHANGED cut
     ELSE fail(p) /\ UNCHANGED made

\* The end of the input, :quit or :exit.
quit(p) ==
  /\ proc[p].pc = "prompt"
  /\ proc' = [proc EXCEPT ![p].pc = "close"]
  /\ UNCHANGED <<made, turns, cut>>

-----------------------------------------------------------------------------
(* runInferenceLoop *)

\* The lineage does not resume, the chat request fails, or the loop has made its
\* maxToolSteps steps.
inferenceFails(p) ==
  /\ proc[p].pc = "infer"
  /\ fail(p)
  /\ UNCHANGED <<made, turns>>

\* The next round of runInferenceLoop: ResumeNodes, and a step that is left.
canInfer(p) ==
  /\ proc[p].pc = "infer" /\ proc[p].step < maxToolSteps
  /\ resumes(proc[p].graph, proc[p].head)

\* The messages made of the lineage; every node of these graphs is an experience
\* and none is archived, so none is filtered out.
toOllamaMessages(p) ==
  LET path == lineage[proc[p].head] IN [i \in DOMAIN path |-> made[path[i]]]

finalAnswer(p) ==
  /\ canInfer(p)
  /\ appendNode(p, "assistant", << >>, 0, 0,
                [proc[p] EXCEPT !.pc = "prompt"])
  /\ UNCHANGED <<turns, cut>>

\* The call IDs of a batch are tc-<callSeq>-<i>.  A batch with a teleport among
\* its calls is intercepted before any tool runs.
toolCalls(p, calls) ==
  LET seq == proc[p].callSeq + 1 IN
  /\ canInfer(p)
  /\ appendNode(p, "calls", calls, seq, 0,
                [proc[p] EXCEPT !.pc = IF "teleport" \in ToSet(calls) THEN "spawn" ELSE "tools",
                                !.callSeq = seq, !.batch = Len(made) + 1, !.idx = 1])
  /\ UNCHANGED <<turns, cut>>

\* Mutant: the last call of a batch is not answered.
afterResultSkippingLast(p, step) ==
  IF proc[p].idx + 1 < Len(made[proc[p].batch].calls)
  THEN [proc[p] EXCEPT !.idx = @ + 1]
  ELSE [proc[p] EXCEPT !.pc = "infer", !.step = step]

\* After the result of call i: the next call, or the next round of inference.
afterResult(p, step) ==
  IF proc[p].idx < Len(made[proc[p].batch].calls)
  THEN [proc[p] EXCEPT !.idx = @ + 1]
  ELSE [proc[p] EXCEPT !.pc = "infer", !.step = step]

\* executeTool on the next call.  Bad arguments, an unknown tool and a failed
\* tool give a result too, marked as an error.
executeTool(p) ==
  /\ proc[p].pc = "tools"
  /\ appendNode(p, "tool", << >>, proc[p].callSeq, proc[p].idx,
                afterResult(p, proc[p].step + 1))
  /\ UNCHANGED <<turns, cut>>

\* The destination cannot be started: its call gets an error result, and the
\* other calls of the batch get none.
spawnFails(p) ==
  LET b == proc[p].batch
      i == CHOOSE k \in DOMAIN made[b].calls :
             /\ made[b].calls[k] = "teleport"
             /\ \A j \in 1..(k - 1) : made[b].calls[j] # "teleport"
  IN /\ proc[p].pc = "spawn"
     /\ appendNode(p, "tool", << >>, proc[p].callSeq, i,
                   [proc[p] EXCEPT !.pc = "infer", !.step = @ + 1])
     /\ cut' = IF Len(made[b].calls) > 1 THEN cut \cup {b} ELSE cut
     /\ UNCHANGED turns

\* spawnHandoff: process q is started on the session with the flags that name
\* this store, and p returns errTeleported, on which main exits without closing the session.
spawnHandoff(p, q, store) ==
  /\ proc[p].pc = "spawn" /\ proc[q] = off
  /\ proc' = [proc EXCEPT ![p].pc = "teleported", ![q] = opening(store)]
  /\ UNCHANGED <<made, turns, cut>>

\* Mutant: the process waits for its destination to end.
exitTeleportedLast(p) ==
  /\ proc[p].pc = "teleported"
  /\ \A q \in Process \ {p} : proc[q] = off
  /\ proc' = [proc EXCEPT ![p] = off]
  /\ UNCHANGED <<made, turns, cut>>

\* main leaves without closing the session; the destination waits for the file.
exitTeleported(p) ==
  /\ proc[p].pc = "teleported"
  /\ proc' = [proc EXCEPT ![p] = off]
  /\ UNCHANGED <<made, turns, cut>>

-----------------------------------------------------------------------------
(* handleArrival *)

\* A head with tool calls is taken for a session that was handed over: all its
\* calls are answered here.
handleArrival(p) ==
  LET h == proc[p].head IN
  /\ proc[p].pc = "arrive"
  /\ proc' = [proc EXCEPT ![p] =
                IF h # NoID /\ made[h].role = "calls"
                THEN [@ EXCEPT !.pc = "arrival", !.arriving = TRUE, !.batch = h, !.idx = 1]
                ELSE [@ EXCEPT !.pc = "prompt", !.arriving = FALSE]]
  /\ UNCHANGED <<made, turns, cut>>

\* A teleport call is answered with where the session has arrived, any other
\* is executed with the tools of this process.
arrivalResult(p) ==
  /\ proc[p].pc = "arrival"
  /\ IF canAppend(p)
     THEN /\ appendNode(p, "tool", << >>, made[proc[p].batch].seq, proc[p].idx,
                        afterResult(p, 0))
          /\ UNCHANGED cut
     ELSE fail(p) /\ UNCHANGED made
  /\ UNCHANGED turns

-----------------------------------------------------------------------------
(* Writing to the store, for the modules that say how *)

writing(p) == proc[p].pc = "write"

writeReturns(p) ==
  /\ writing(p)
  /\ proc' = [proc EXCEPT ![p].pc = proc[p].next,
                          ![p].batch = IF proc[p].next = "infer" THEN NoID ELSE @,
                          ![p].arriving = @ /\ proc[p].next # "prompt"]
  /\ UNCHANGED <<made, turns, cut>>

writeFails(p) ==
  /\ writing(p)
  /\ fail(p)
  /\ UNCHANGED <<made, turns>>

LoopStep(p) ==
  \/ inferenceFails(p) \/ finalAnswer(p)
  \/ \E calls \in Batch : toolCalls(p, calls)
  \/ executeTool(p) \/ spawnFails(p)
  \/ exitTeleported(p) \/ handleArrival(p) \/ arrivalResult(p)

-----------------------------------------------------------------------------
(* What the loop promises about a conversation *)

Node == [parent : 0..MaxNodes, role : {"system", "user", "assistant", "calls", "tool"},
         calls : Seq({"tool", "teleport"}), seq : Nat, call : Nat]

Running == [pc : {"arrive", "arrival", "prompt", "infer", "write", "tools", "spawn",
                  "teleported", "close"},
            next : {"arrive", "arrival", "prompt", "infer", "tools", "spawn"},
            graph : SUBSET (1..MaxNodes), head : 0..MaxNodes, closed : BOOLEAN,
            arriving : BOOLEAN, step : 0..maxToolSteps, callSeq : Nat,
            batch : 0..MaxNodes, idx : Nat]

\* Type correctness of the processes and of their graphs.
LoopTypeOK ==
  /\ made \in Seq(Node) /\ Len(made) <= MaxNodes
  /\ proc \in [Process -> {off, [pc |-> "create"]} \cup Running
                      \cup [pc : {"open"}, store : {"mem", "bolt", "leveldb", "sgpd"}]]
  /\ turns \in 0..MaxTurns
  /\ cut \subseteq 1..Len(made)

\* The conversation q answers the batch at i: its calls, one by one and in order,
\* by the messages that follow it.
answered(q, i) ==
  \A k \in DOMAIN q[i].calls :
    /\ i + k <= Len(q)
    /\ q[i + k].role = "tool"
    /\ <<q[i + k].seq, q[i + k].call>> = <<q[i].seq, k>>

\* Every conversation sent to the model is one it can continue: it begins with
\* the system prompt, even when nodes were lost on the way; each batch of tool
\* calls is followed by exactly its results, in order, and no result stands
\* anywhere else, across turns, restarts and hand-overs (call IDs begin again
\* at tc-1-0 in each process), unless the answering of that batch was broken off.
ConversationIsWellFormed ==
  \A p \in Process : canInfer(p) =>
    LET q == toOllamaMessages(p)
        path == lineage[proc[p].head]
    IN /\ q[1].role = "system"
       /\ \A i \in DOMAIN q :
            q[i].role = "calls" /\ path[i] \notin cut => answered(q, i)
       /\ \A i \in DOMAIN q :
            q[i].role = "tool" =>
              \E j \in 1..(i - 1) :
                /\ q[j].role = "calls" /\ q[j].seq = q[i].seq
                /\ i - j <= Len(q[j].calls)
                /\ \A k \in (j + 1)..i : q[k].role = "tool"

=============================================================================
