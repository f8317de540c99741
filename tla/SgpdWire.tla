------------------------------ MODULE SgpdWire ------------------------------
(***************************************************************************)
(* pkg/store/sgpd/convert: what an event is on the wire between the sgpd   *)
(* client and the harness service, and what is left of it on the other     *)
(* side.  A node here is one of HarnessLoop: one parent ID (0 for none)    *)
(* and a message, a batch of tool calls tc-<seq>-<i> or the result of one. *)
(***************************************************************************)
EXTENDS Naturals, Sequences

\* A oneof of the four subtypes.  Text and content parts are copied one for one
\* and left out; so are timestamps, names and spawn references.
MessageToProto(n) ==
  CASE n.role \in {"system", "user"} -> [subtype |-> n.role]
    [] n.role \in {"assistant", "calls"} ->
         [subtype |-> "assistant",
          tool_calls |-> [i \in DOMAIN n.calls |-> [id |-> <<n.seq, i>>, name |-> n.calls[i]]]]
    [] n.role = "tool" -> [subtype |-> "tool", tool_call_id |-> <<n.seq, n.call>>]

\* Mutant: the calls of an assistant message are left behind.
MessageFromProtoWithoutCalls(pb) ==
  [role |-> pb.subtype, calls |-> << >>,
   seq |-> IF pb.subtype = "tool" THEN pb.tool_call_id[1] ELSE 0,
   call |-> IF pb.subtype = "tool" THEN pb.tool_call_id[2] ELSE 0]

\* An assistant message with tool calls is a batch, whatever else it holds.
MessageFromProto(pb) ==
  CASE pb.subtype \in {"system", "user"} ->
         [role |-> pb.subtype, calls |-> << >>, seq |-> 0, call |-> 0]
    [] pb.subtype = "assistant" ->
         [role |-> IF pb.tool_calls = << >> THEN "assistant" ELSE "calls",
          calls |-> [i \in DOMAIN pb.tool_calls |-> pb.tool_calls[i].name],
          seq |-> IF pb.tool_calls = << >> THEN 0 ELSE pb.tool_calls[1].id[1],
          call |-> 0]
    [] pb.subtype = "tool" ->
         [role |-> "tool", calls |-> << >>, seq |-> pb.tool_call_id[1],
          call |-> pb.tool_call_id[2]]

\* Of the edges of a node only the parents are sent.
NodeToProto(id, n) ==
  [id |-> id, message |-> MessageToProto(n),
   parent_ids |-> IF n.parent = 0 THEN << >> ELSE <<n.parent>>]

NodeFromProto(pb) ==
  LET m == MessageFromProto(pb.message)
  IN [parent |-> IF pb.parent_ids = << >> THEN 0 ELSE pb.parent_ids[1],
      role |-> m.role, calls |-> m.calls, seq |-> m.seq, call |-> m.call]

endReasonToProto(r) ==
  CASE r = "complete" -> "END_REASON_COMPLETE"
    [] r = "failed" -> "END_REASON_FAILED"
    [] OTHER -> "END_REASON_UNSPECIFIED"

endReasonFromProto(pb) ==
  CASE pb = "END_REASON_COMPLETE" -> "complete"
    [] pb = "END_REASON_FAILED" -> "failed"
    [] OTHER -> ""

\* An event: node is << >> or <<id, node>>; an absent reason or terminal node is
\* empty (0).  The kind is not sent.
EventToProto(e) ==
  [node |-> IF e.node = << >> THEN << >> ELSE <<NodeToProto(e.node[1], e.node[2])>>,
   reason |-> endReasonToProto(e.reason), terminal_node_id |-> e.terminal]

ClassifyEvent(e) ==
  IF e.node # << >> THEN "node.appended"
  ELSE IF e.reason # "" \/ e.terminal # 0 THEN "session.ended"
  ELSE "session.start"

EventFromProto(pb) ==
  [node |-> IF pb.node = << >> THEN << >>
            ELSE <<pb.node[1].id, NodeFromProto(pb.node[1])>>,
   reason |-> endReasonFromProto(pb.reason), terminal |-> pb.terminal_node_id]

=============================================================================
