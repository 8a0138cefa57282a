--------------------------- MODULE MCProcurement ---------------------------
(* Small instances of one purchase order: a desk that does everything, one *)
(* request at a time, on an order with or without a deposit; and a desk    *)
(* and a store that both receive, while the desk edits and closes.         *)
EXTENDS Procurement

CONSTANTS i1, i2, desk, store

MCDraft(q1, q2, deposit) == [deposit |-> deposit,
  lines |-> [i \in Item |-> [quantity |-> IF i = i1 THEN q1 ELSE q2, price |-> 1]]]

Everything == {"finalize", "approve", "rejectApproval", "callback", "confirmOrdered", "resubmit",
               "update", "amend", "override", "receive", "invoice", "closeShort", "cancel", "remove"}
Receiving == {"finalize", "approve", "callback", "confirmOrdered", "update", "receive"}

Desk(ops) == [h \in Handler |-> IF h = desk THEN ops ELSE {}]
DeskAndStore == [h \in Handler |-> IF h = desk THEN Receiving ELSE {"receive"}]

MCInstances ==
  {[draft |-> MCDraft(2, 0, 0), duty |-> Desk(Everything \ {"override"})],
   [draft |-> MCDraft(2, 0, 1), duty |-> Desk(Everything \ {"update"})],
   [draft |-> MCDraft(1, 1, 0), duty |-> DeskAndStore]}
MCEdits == {MCDraft(2, 0, 0)}
=============================================================================
