------------------------------ MODULE MCOutbox ------------------------------
(* An alert between two events that are none.                             *)
EXTENDS Outbox

MCLog ==
    <<[type |-> "EXECUTION_STATE_CHANGED", to |-> "WRITE_IN_PROGRESS"],
      [type |-> "ALERT", to |-> "none"],
      [type |-> "DELIVERY_STATE_CHANGED", to |-> "FEED_LEARNING"]>>

=============================================================================
