---------------------------- MODULE OrderLifecycle ----------------------------
(***************************************************************************)
(* The order state machine of orders/order_lifecycle.py: statuses, the     *)
(* transition table, and what one accepted transition_to call records.     *)
(***************************************************************************)
EXTENDS Naturals, Sequences

OrderStatus ==
  {"draft", "reserved", "confirmed", "in_progress", "payment_pending",
   "completed", "cancelled"}

\* Variant: a completed order can still be cancelled.
CancelAfterCompletion ==
  [draft           |-> {"reserved", "cancelled"},
   reserved        |-> {"confirmed", "cancelled"},
   confirmed       |-> {"in_progress", "cancelled"},
   in_progress     |-> {"completed", "payment_pending", "cancelled"},
   payment_pending |-> {"completed", "cancelled"},
   completed       |-> {"cancelled"},
   cancelled       |-> {}]

VALID_TRANSITIONS ==
  [draft           |-> {"reserved", "cancelled"},
   reserved        |-> {"confirmed", "cancelled"},
   confirmed       |-> {"in_progress", "cancelled"},
   in_progress     |-> {"completed", "payment_pending", "cancelled"},
   payment_pending |-> {"completed", "cancelled"},
   completed       |-> {},
   cancelled       |-> {}]

CANCELLABLE_STATES ==
  {"draft", "reserved", "confirmed", "in_progress", "payment_pending"}

\* Who called transition_to: the audited OrderService, or FulfillmentService.
Changers == {"service", "fulfillment"}

OrderStateChange == [from : OrderStatus, to : OrderStatus, by : Changers]

CanTransition(from, to) == from \in OrderStatus /\ to \in VALID_TRANSITIONS[from]

\* History h leads from draft to status s along the edges of the table.
IsPath(h, s) ==
  /\ \A i \in 1..Len(h) : CanTransition(h[i].from, h[i].to)
  /\ \A i \in 1..Len(h) : i > 1 => h[i].from = h[i-1].to
  /\ IF h = <<>> THEN s = "draft" ELSE h[1].from = "draft" /\ h[Len(h)].to = s
=============================================================================
