------------------------------- MODULE Outbox -------------------------------
(***************************************************************************)
(* The outbox and its AlertDispatchers.  Every transaction of the store    *)
(* that changes something appends its event; each process flushes: it      *)
(* claims the oldest due events as one batch under one lease, sends those  *)
(* that are alerts, and marks them PUBLISHED one by one.                   *)
(*                                                                         *)
(* Each step of a flush is one transaction or one call of the webhook.     *)
(* Events are numbered by created_at.  The table keeps neither the number  *)
(* of attempts nor the last error, which nothing reads.                    *)
(***************************************************************************)
EXTENDS StateSurfaces, Naturals, Sequences, FiniteSets

CONSTANTS Log,          \* the type and target of each event, in order
          Dispatchers,  \* worker_ids; a restarted process draws a new one
          Nobody,       \* the owner of an event nobody handles
          Limit         \* the events one flush may claim

ASSUME OutboxAssumption ==
    /\ Log \in Seq([type : STRING, to : STRING])
    /\ Nobody \notin Dispatchers
    /\ Limit \in Nat \ {0}

VARIABLES
    event,     \* the table
    batch,     \* the events a flush has claimed and not yet ended
    step,      \* what a flush does next with the oldest of them
    alive,     \* the processes that have not died
    sent,      \* the events the webhook has accepted
    again,     \* history: those it has accepted more than once
    troubled   \* history: alerts whose lease lapsed or whose completion failed

vars == <<event, batch, step, alive, sent, again, troubled>>

Events == DOMAIN Log

\* is_alert_event
IsAlert(e) ==
    \/ Log[e].type = "ALERT"
    \/ /\ Log[e].type = "EXECUTION_STATE_CHANGED"
       /\ Log[e].to \in {"PAUSE_FAILED_EMERGENCY", "READBACK_MISMATCH",
                         "RECONCILE_REQUIRED", "RECOVERY_REQUIRED", "RELOCK_FAILED"}
    \/ Log[e].type = "DELIVERY_STATE_CHANGED" /\ Log[e].to \in DeliveryAlerts

Free(status, due) ==
    [status |-> status, due |-> due, owner |-> Nobody, lapsed |-> FALSE]

Held(d) == [status |-> "PROCESSING", due |-> TRUE, owner |-> d, lapsed |-> FALSE]

\* The types; an event is owned exactly while it is PROCESSING.
TypeOK ==
    /\ event \in [Events -> [status: {"ABSENT", "PENDING", "PROCESSING",
                                      "RETRY", "PUBLISHED"},
                             due: BOOLEAN,
                             owner: Dispatchers \cup {Nobody},
                             lapsed: BOOLEAN]]
    /\ batch \in [Dispatchers -> SUBSET Events]
    /\ step \in [Dispatchers -> {"send", "complete", "fail"}]
    /\ alive \subseteq Dispatchers
    /\ {sent, again, troubled} \subseteq SUBSET Events
    /\ \A e \in Events : event[e].status = "PROCESSING" <=> event[e].owner # Nobody

Init ==
    /\ event = [e \in Events |-> Free("ABSENT", FALSE)]
    /\ batch = [d \in Dispatchers |-> {}]
    /\ step = [d \in Dispatchers |-> "send"]
    /\ alive = Dispatchers
    /\ sent = {}
    /\ again = {}
    /\ troubled = {}

-----------------------------------------------------------------------------

\* _append_outbox, in the transaction the event is about.
AppendOutbox(e) ==
    /\ event[e].status = "ABSENT"
    /\ \A earlier \in 1 .. e - 1 : event[earlier].status # "ABSENT"
    /\ event' = [event EXCEPT ![e] = Free("PENDING", TRUE)]
    /\ UNCHANGED <<batch, step, alive, sent, again, troubled>>

\* Mutated: the query forgets to look at the lease.
ClaimableHeld(e) ==
    \/ event[e].status \in {"PENDING", "RETRY"} /\ event[e].due
    \/ event[e].status = "PROCESSING"

\* Mutated: the query looks for waiting events only.
ClaimableWaiting(e) == event[e].status \in {"PENDING", "RETRY"} /\ event[e].due

Claimable(e) ==
    \/ event[e].status \in {"PENDING", "RETRY"} /\ event[e].due
    \/ event[e].status = "PROCESSING" /\ event[e].lapsed

IsOldest(e) ==
    /\ Claimable(e)
    /\ Cardinality({k \in 1 .. e - 1 : Claimable(k)}) < Limit

\* claim_outbox: the oldest of the due, in one transaction.
Claim(d) ==
    /\ d \in alive
    /\ batch[d] = {}
    /\ \E e \in Events : Claimable(e)
    /\ batch' = [batch EXCEPT ![d] = {e \in Events : IsOldest(e)}]
    /\ event' = [e \in Events |-> IF IsOldest(e) THEN Held(d) ELSE event[e]]
    /\ UNCHANGED <<step, alive, sent, again, troubled>>

\* A flush handles its batch in the order of the events.
Oldest(d, e) == e \in batch[d] /\ \A k \in batch[d] : e <= k

At(d, e, s) == d \in alive /\ Oldest(d, e) /\ step[d] = s

Goto(d, s) == step' = [step EXCEPT ![d] = s] /\ UNCHANGED batch

\* The loop goes on with the next event, or ends.
NextEvent(d, e) ==
    /\ batch' = [batch EXCEPT ![d] = @ \ {e}]
    /\ step' = [step EXCEPT ![d] = "send"]

\* An exception of fail_outbox leaves flush: the rest of the batch stays
\* PROCESSING, and nobody works on it.
Abort(d) ==
    /\ batch' = [batch EXCEPT ![d] = {}]
    /\ step' = [step EXCEPT ![d] = "send"]

Trouble(e) == troubled' = troubled \cup (IF IsAlert(e) THEN {e} ELSE {})

\* An event that is no alert is not sent.
Skip(d, e) ==
    /\ At(d, e, "send")
    /\ ~IsAlert(e)
    /\ Goto(d, "complete")
    /\ UNCHANGED <<event, alive, sent, again, troubled>>

Accepted(e) ==
    /\ sent' = sent \cup {e}
    /\ again' = again \cup (sent \cap {e})

Send(d, e) ==
    /\ At(d, e, "send")
    /\ IsAlert(e)
    /\ Accepted(e)
    /\ Goto(d, "complete")
    /\ UNCHANGED <<event, alive, troubled>>

\* Mutated: a refused alert is logged and completed.
SendFailsQuietly(d, e) ==
    /\ At(d, e, "send")
    /\ IsAlert(e)
    /\ UNCHANGED <<sent, again, troubled>>
    /\ Goto(d, "complete")
    /\ UNCHANGED <<event, alive>>

\* The webhook refuses the event, or accepts it and its answer is lost.
SendFails(d, e) ==
    /\ At(d, e, "send")
    /\ IsAlert(e)
    /\ \/ UNCHANGED <<sent, again, troubled>>
       \/ Accepted(e) /\ Trouble(e)
    /\ Goto(d, "fail")
    /\ UNCHANGED <<event, alive>>

Owns(d, e) == event[e].status = "PROCESSING" /\ event[e].owner = d

\* complete_outbox raises without the lease, or when the store refuses.
Complete(d, e) ==
    /\ At(d, e, "complete")
    /\ Owns(d, e)
    /\ event' = [event EXCEPT ![e] = Free("PUBLISHED", FALSE)]
    /\ NextEvent(d, e)
    /\ UNCHANGED <<alive, sent, again, troubled>>

CompleteRaises(d, e) ==
    /\ At(d, e, "complete")
    /\ Goto(d, "fail")
    /\ Trouble(e)
    /\ UNCHANGED <<event, alive, sent, again>>

\* Mutated: an event to be retried keeps its owner.
FailHeld(d, e) ==
    /\ At(d, e, "fail")
    /\ Owns(d, e)
    /\ event' = [event EXCEPT ![e].status = "RETRY", ![e].due = FALSE]
    /\ NextEvent(d, e)
    /\ UNCHANGED <<alive, sent, again, troubled>>

\* fail_outbox: try again in 30 seconds.
Fail(d, e) ==
    /\ At(d, e, "fail")
    /\ Owns(d, e)
    /\ event' = [event EXCEPT ![e] = Free("RETRY", FALSE)]
    /\ NextEvent(d, e)
    /\ UNCHANGED <<alive, sent, again, troubled>>

FailRaises(d, e) ==
    /\ At(d, e, "fail")
    /\ Abort(d)
    /\ UNCHANGED <<event, alive, sent, again, troubled>>

-----------------------------------------------------------------------------
(* The world.                                                              *)

\* 60 seconds since the claim, which nothing renews.
LeaseExpires(e) ==
    /\ event[e].status = "PROCESSING"
    /\ ~event[e].lapsed
    /\ event' = [event EXCEPT ![e].lapsed = TRUE]
    /\ Trouble(e)
    /\ UNCHANGED <<batch, step, alive, sent, again>>

\* Somebody still works on the event.
InHand(e) == event[e].owner \in alive /\ e \in batch[event[e].owner]

DelayElapses(e) ==
    /\ event[e].status = "RETRY"
    /\ ~event[e].due
    /\ event' = [event EXCEPT ![e].due = TRUE]
    /\ UNCHANGED <<batch, step, alive, sent, again, troubled>>

\* A process dies in the middle of its flush.  The last one stands for the
\* container that is always restarted.
Crash(d) ==
    /\ d \in alive
    /\ alive # {d}
    /\ alive' = alive \ {d}
    /\ Abort(d)
    /\ UNCHANGED <<event, sent, again, troubled>>

-----------------------------------------------------------------------------

FlushStep(d, e) ==
    \/ Skip(d, e) \/ Send(d, e) \/ SendFails(d, e)
    \/ Complete(d, e) \/ CompleteRaises(d, e)
    \/ Fail(d, e) \/ FailRaises(d, e)

Flush(d) == \E e \in Events : FlushStep(d, e)

Next ==
    \/ \E e \in Events : AppendOutbox(e) \/ LeaseExpires(e) \/ DelayElapses(e)
    \/ \E d \in Dispatchers : Claim(d) \/ Flush(d) \/ Crash(d)

Spec == Init /\ [][Next]_vars

\* A call that fails, or a lease that lapses while its event is in hand.
Disturbance ==
    \E e \in Events :
        \/ LeaseExpires(e) /\ InHand(e)
        \/ \E d \in Dispatchers : \/ SendFails(d, e)
                                  \/ CompleteRaises(d, e) /\ Owns(d, e)
                                  \/ FailRaises(d, e) /\ Owns(d, e)

\* Processes flush, delays pass, and so does the lease of an event in nobody's
\* hands.  Disturbances come to an end.
Fairness ==
    /\ \A d \in Dispatchers : WF_vars(Claim(d)) /\ WF_vars(Flush(d))
    /\ \A e \in Events : /\ WF_vars(DelayElapses(e))
                         /\ WF_vars(LeaseExpires(e) /\ ~InHand(e))
    /\ <>[][~Disturbance]_vars

FairSpec == Spec /\ Fairness

-----------------------------------------------------------------------------
(* Properties.                                                             *)

\* An alert is PUBLISHED only after the webhook accepted it: neither a lapsed
\* lease, nor a dispatcher that took it over, nor a failed call lets an alert
\* pass for delivered.
PublishedIsSent ==
    \A e \in Events : (event[e].status = "PUBLISHED" /\ IsAlert(e)) => e \in sent

\* An alert is sent twice only if a lease lapsed, or its completion failed:
\* dispatchers that flush at the same time share the outbox without
\* duplicating it.
AgainIsTroubled == again \subseteq troubled

\* Once webhook, store and leases behave, every alert is published, whatever
\* failed and died before: also one that a flush dropped with the rest of its
\* batch, or that lies in the hands of a dead process.
AlertIsPublished ==
    \A e \in {k \in Events : IsAlert(k)} :
        event[e].status = "PENDING" ~> event[e].status = "PUBLISHED"

=============================================================================
