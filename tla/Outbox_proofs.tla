---------------------------- MODULE Outbox_proofs ----------------------------
(***************************************************************************)
(* For any log of events, any number of dispatchers and any batch size: an *)
(* alert that is PUBLISHED was accepted by the webhook, and one that was   *)
(* accepted twice had a lease that lapsed or a completion that failed.     *)
(*                                                                         *)
(* The first follows from what a flush is about to complete.  The second   *)
(* needs that an alert nothing happened to is in one batch only, that of   *)
(* its owner, and that once it is sent nobody is about to send it.         *)
(***************************************************************************)
EXTENDS Outbox, TLAPS

\* A flush that is about to complete an alert has sent it, and one without
\* events starts with sending.
FlushInv ==
    \A d \in Dispatchers :
        /\ batch[d] = {} => step[d] = "send"
        /\ \A e \in Events : (Oldest(d, e) /\ step[d] = "complete" /\ IsAlert(e))
                                => e \in sent

\* An alert without trouble: its lease holds, its batch is its owner's, and
\* when it is sent it is published or about to be completed, if anything.
Untroubled(e) ==
    /\ ~event[e].lapsed
    /\ \A d \in Dispatchers : e \in batch[d] =>
           event[e].status = "PROCESSING" /\ event[e].owner = d
    /\ e \in sent =>
           /\ event[e].status \in {"PUBLISHED", "PROCESSING"}
           /\ \A d \in Dispatchers : e \in batch[d] =>
                  Oldest(d, e) /\ step[d] = "complete"

UntroubledInv == \A e \in Events : IsAlert(e) /\ e \notin troubled => Untroubled(e)

OutboxInv == TypeOK /\ FlushInv /\ PublishedIsSent /\ UntroubledInv /\ AgainIsTroubled

-----------------------------------------------------------------------------

\* The oldest event of a batch is one, and is a number.
LEMMA EventsAreNumbers == ASSUME OutboxAssumption PROVE Events \subseteq Nat
  BY DEF OutboxAssumption, Events

LEMMA OldestIsUnique ==
    ASSUME OutboxAssumption, TypeOK, NEW d \in Dispatchers,
           NEW e \in Events, NEW k \in Events, Oldest(d, e), Oldest(d, k)
    PROVE  e = k
  BY EventsAreNumbers DEF Oldest

LEMMA OutboxInitInv == ASSUME OutboxAssumption, Init PROVE OutboxInv
  BY DEF OutboxAssumption, Init, OutboxInv, TypeOK, FlushInv, PublishedIsSent,
         UntroubledInv, Untroubled, AgainIsTroubled, Free, Oldest

-----------------------------------------------------------------------------
(* Types.                                                                  *)

Row == [status: {"ABSENT", "PENDING", "PROCESSING", "RETRY", "PUBLISHED"},
        due: BOOLEAN,
        owner: Dispatchers \cup {Nobody},
        lapsed: BOOLEAN]

\* A clock changes one field of one event, neither its status nor its owner.
LEMMA ClockChanges ==
    ASSUME TypeOK, NEW e \in Events, LeaseExpires(e) \/ DelayElapses(e)
    PROVE  /\ event' \in [Events -> Row]
           /\ \A k \in Events : /\ event'[k].status = event[k].status
                                /\ event'[k].owner = event[k].owner
           /\ \A k \in Events \ {e} : event'[k] = event[k]
<1>1. event \in [Events -> Row] /\ event[e] \in Row
  BY DEF TypeOK, Row
<1>2. PICK r \in Row : /\ r.status = event[e].status /\ r.owner = event[e].owner
                       /\ event' = [event EXCEPT ![e] = r]
  <2>1. CASE LeaseExpires(e)
    <3>1. event' = [event EXCEPT ![e] = [event[e] EXCEPT !.lapsed = TRUE]]
      BY <2>1 DEF LeaseExpires
    <3>2. [event[e] EXCEPT !.lapsed = TRUE] \in Row
      BY <1>1 DEF Row
    <3>3. /\ [event[e] EXCEPT !.lapsed = TRUE].status = event[e].status
          /\ [event[e] EXCEPT !.lapsed = TRUE].owner = event[e].owner
      BY <1>1 DEF Row
    <3> QED BY <3>1, <3>2, <3>3
  <2>2. CASE DelayElapses(e)
    <3>1. event' = [event EXCEPT ![e] = [event[e] EXCEPT !.due = TRUE]]
      BY <2>2 DEF DelayElapses
    <3>2. [event[e] EXCEPT !.due = TRUE] \in Row
      BY <1>1 DEF Row
    <3>3. /\ [event[e] EXCEPT !.due = TRUE].status = event[e].status
          /\ [event[e] EXCEPT !.due = TRUE].owner = event[e].owner
      BY <1>1 DEF Row
    <3> QED BY <3>1, <3>2, <3>3
  <2> QED BY <2>1, <2>2
<1> QED BY <1>1, <1>2

LEMMA TypeNext == ASSUME OutboxAssumption, TypeOK, [Next]_vars PROVE TypeOK'
<1>0. Nobody \notin Dispatchers
  BY DEF OutboxAssumption
<1> USE DEF TypeOK, Free
<1>1. CASE \E e \in Events : AppendOutbox(e)
  BY <1>1, <1>0 DEF AppendOutbox
<1>2. ASSUME NEW e \in Events, LeaseExpires(e) PROVE TypeOK'
  <2>1. event' \in [Events -> Row]
    BY <1>2, ClockChanges
  <2>2. \A k \in Events : event'[k].status = "PROCESSING" <=> event'[k].owner # Nobody
    BY <1>2, ClockChanges
  <2>3. troubled' \subseteq Events
    BY <1>2 DEF LeaseExpires, Trouble
  <2> QED BY <1>2, <2>1, <2>2, <2>3 DEF LeaseExpires, Row
<1>3. CASE \E e \in Events : DelayElapses(e)
  BY <1>3, <1>0, ClockChanges DEF DelayElapses, Row
<1>4. CASE \E d \in Dispatchers : Claim(d)
  BY <1>4, <1>0 DEF Claim, Held
<1>5. ASSUME NEW d \in Dispatchers, NEW e \in Events, FlushStep(d, e)
      PROVE  TypeOK'
  <2>1. CASE Skip(d, e)
    BY <2>1, <1>0 DEF Skip, Goto
  <2>2. CASE Send(d, e)
    BY <2>2, <1>0 DEF Send, Goto, Accepted
  <2>3. CASE SendFails(d, e)
    BY <2>3, <1>0 DEF SendFails, Goto, Accepted, Trouble
  <2>4. CASE Complete(d, e)
    BY <2>4, <1>0 DEF Complete, NextEvent
  <2>5. CASE CompleteRaises(d, e)
    BY <2>5, <1>0 DEF CompleteRaises, Goto, Trouble
  <2>6. CASE Fail(d, e)
    BY <2>6, <1>0 DEF Fail, NextEvent
  <2>7. CASE FailRaises(d, e)
    BY <2>7, <1>0 DEF FailRaises, Abort
  <2> QED BY <1>5, <2>1, <2>2, <2>3, <2>4, <2>5, <2>6, <2>7 DEF FlushStep
<1>6. CASE \E d \in Dispatchers : Crash(d)
  BY <1>6, <1>0 DEF Crash, Abort
<1>7. CASE UNCHANGED vars
  BY <1>7 DEF vars
<1> QED BY <1>1, <1>2, <1>3, <1>4, <1>5, <1>6, <1>7 DEF Next, Flush

-----------------------------------------------------------------------------
(* A flush.                                                                *)

\* One lemma for each step: what it does to the flush and to the event.
LEMMA SkipInv ==
    ASSUME OutboxAssumption, OutboxInv, NEW d \in Dispatchers, NEW e \in Events,
           Skip(d, e)
    PROVE  FlushInv' /\ PublishedIsSent' /\ UntroubledInv' /\ AgainIsTroubled'
<1>0. /\ ~IsAlert(e) /\ Oldest(d, e) /\ step[d] = "send"
      /\ step' = [step EXCEPT ![d] = "complete"]
      /\ UNCHANGED <<event, batch, sent, again, troubled>>
  BY DEF Skip, At, Goto
<1>1. FlushInv'
  BY <1>0, OldestIsUnique DEF OutboxInv, TypeOK, FlushInv, Oldest
<1>2. UntroubledInv'
  BY <1>0 DEF OutboxInv, TypeOK, UntroubledInv, Untroubled, Oldest
<1> QED BY <1>0, <1>1, <1>2 DEF OutboxInv, PublishedIsSent, AgainIsTroubled

LEMMA SendInv ==
    ASSUME OutboxAssumption, OutboxInv, NEW d \in Dispatchers, NEW e \in Events,
           Send(d, e)
    PROVE  FlushInv' /\ PublishedIsSent' /\ UntroubledInv' /\ AgainIsTroubled'
<1>0. /\ IsAlert(e) /\ Oldest(d, e) /\ step[d] = "send"
      /\ step' = [step EXCEPT ![d] = "complete"]
      /\ sent' = sent \cup {e}
      /\ again' = again \cup (sent \cap {e})
      /\ UNCHANGED <<event, batch, troubled>>
  BY DEF Send, At, Goto, Accepted
<1>1. FlushInv'
  BY <1>0, OldestIsUnique DEF OutboxInv, TypeOK, FlushInv, Oldest
<1>2. e \notin sent \/ e \in troubled
  BY <1>0 DEF OutboxInv, UntroubledInv, Untroubled, Oldest
<1>3. UntroubledInv'
  <2>1. SUFFICES ASSUME NEW k \in Events, IsAlert(k), k \notin troubled
                 PROVE  Untroubled(k)'
    BY <1>0 DEF UntroubledInv
  <2>2. Untroubled(k)
    BY <2>1 DEF OutboxInv, UntroubledInv
  <2>3. CASE k = e
    BY <1>0, <2>2, <2>3 DEF OutboxInv, TypeOK, Untroubled, Oldest
  <2>4. CASE k # e
    BY <1>0, <2>2, <2>4 DEF OutboxInv, TypeOK, Untroubled, Oldest
  <2> QED BY <2>3, <2>4
<1>4. AgainIsTroubled'
  BY <1>0, <1>2 DEF OutboxInv, AgainIsTroubled
<1> QED BY <1>0, <1>1, <1>3, <1>4 DEF OutboxInv, PublishedIsSent

\* Both refusals leave the flush at "fail", where an alert that is sent is
\* troubled.
LEMMA GotoFailInv ==
    ASSUME OutboxAssumption, OutboxInv, NEW d \in Dispatchers, NEW e \in Events,
           SendFails(d, e) \/ CompleteRaises(d, e)
    PROVE  FlushInv' /\ PublishedIsSent' /\ UntroubledInv' /\ AgainIsTroubled'
<1>0. /\ Oldest(d, e) /\ step[d] \in {"send", "complete"}
      /\ step' = [step EXCEPT ![d] = "fail"]
      /\ UNCHANGED <<event, batch>>
      /\ sent \subseteq sent' /\ sent' \subseteq sent \cup {e}
      /\ troubled \subseteq troubled'
  BY DEF SendFails, CompleteRaises, At, Goto, Accepted, Trouble
<1>1. IsAlert(e) /\ e \in sent' => e \in troubled'
  <2>1. CASE CompleteRaises(d, e)
    BY <2>1 DEF CompleteRaises, Trouble
  <2>2. CASE SendFails(d, e)
    <3>1. /\ step[d] = "send"
          /\ \/ sent' = sent /\ troubled' = troubled
             \/ IsAlert(e) => e \in troubled'
      BY <2>2 DEF SendFails, At, Accepted, Trouble
    <3>2. IsAlert(e) /\ e \in sent => e \in troubled
      BY <1>0, <3>1 DEF OutboxInv, UntroubledInv, Untroubled, Oldest
    <3> QED BY <3>1, <3>2
  <2> QED BY <2>1, <2>2
<1>2. again' \subseteq again \cup {e} /\ (e \in again' => e \in again \/ e \in troubled')
  BY DEF SendFails, CompleteRaises, Accepted, Trouble
<1>3. FlushInv'
  <2>1. SUFFICES ASSUME NEW f \in Dispatchers
                 PROVE  /\ batch'[f] = {} => step'[f] = "send"
                        /\ \A k \in Events :
                              (Oldest(f, k)' /\ step'[f] = "complete" /\ IsAlert(k))
                                  => k \in sent'
    BY DEF FlushInv
  <2>2. CASE f = d
    BY <1>0, <2>2 DEF OutboxInv, TypeOK, Oldest
  <2>3. CASE f # d
    BY <1>0, <2>3 DEF OutboxInv, TypeOK, FlushInv, Oldest
  <2> QED BY <2>2, <2>3
<1>4. UntroubledInv'
  <2>1. SUFFICES ASSUME NEW k \in Events, IsAlert(k), k \notin troubled'
                 PROVE  Untroubled(k)'
    BY DEF UntroubledInv
  <2>2. Untroubled(k)
    BY <1>0, <2>1 DEF OutboxInv, UntroubledInv
  <2>3. CASE k \in sent'
    <3>1. k # e /\ k \in sent
      BY <1>0, <1>1, <2>1, <2>3
    <3>2. k \notin batch[d]
      <4>1. SUFFICES ASSUME k \in batch[d] PROVE FALSE
        OBVIOUS
      <4>2. Oldest(d, k)
        BY <2>2, <3>1, <4>1 DEF Untroubled
      <4> QED BY <1>0, <3>1, <4>2, OldestIsUnique DEF OutboxInv
    <3> QED BY <1>0, <2>2, <3>1, <3>2 DEF OutboxInv, TypeOK, Untroubled, Oldest
  <2>4. CASE k \notin sent'
    BY <1>0, <2>2, <2>4 DEF OutboxInv, TypeOK, Untroubled
  <2> QED BY <2>3, <2>4
<1>5. AgainIsTroubled' /\ PublishedIsSent'
  BY <1>0, <1>2 DEF OutboxInv, AgainIsTroubled, PublishedIsSent
<1> QED BY <1>3, <1>4, <1>5

\* A flush that goes on has its next event ahead of it; nothing about the
\* events left in the batch changes.
LEMMA NextEventInv ==
    ASSUME OutboxAssumption, OutboxInv, NEW d \in Dispatchers, NEW e \in Events,
           Complete(d, e) \/ Fail(d, e)
    PROVE  FlushInv' /\ PublishedIsSent' /\ UntroubledInv' /\ AgainIsTroubled'
<1>0. /\ Oldest(d, e) /\ step[d] \in {"complete", "fail"} /\ event[e].owner = d
      /\ batch' = [batch EXCEPT ![d] = @ \ {e}]
      /\ step' = [step EXCEPT ![d] = "send"]
      /\ \/ step[d] = "complete" /\ event' = [event EXCEPT ![e] = Free("PUBLISHED", FALSE)]
         \/ step[d] = "fail" /\ event' = [event EXCEPT ![e] = Free("RETRY", FALSE)]
      /\ UNCHANGED <<sent, again, troubled>>
  BY DEF Complete, Fail, At, NextEvent, Owns
<1>1. FlushInv'
  BY <1>0 DEF OutboxInv, TypeOK, FlushInv, Oldest
<1>2. PublishedIsSent'
  BY <1>0 DEF OutboxInv, TypeOK, FlushInv, PublishedIsSent, Free
<1>3. UntroubledInv'
  <2>1. SUFFICES ASSUME NEW k \in Events, IsAlert(k), k \notin troubled
                 PROVE  Untroubled(k)'
    BY <1>0 DEF UntroubledInv
  <2>2. Untroubled(k)
    BY <2>1 DEF OutboxInv, UntroubledInv
  <2>3. CASE k = e
    <3>1. \A f \in Dispatchers : k \notin batch'[f]
      BY <1>0, <2>2, <2>3 DEF OutboxInv, TypeOK, Untroubled
    <3>2. k \in sent => step[d] = "complete"
      BY <1>0, <2>2, <2>3 DEF Untroubled, Oldest
    <3> QED BY <1>0, <2>3, <3>1, <3>2 DEF OutboxInv, TypeOK, Untroubled, Free
  <2>4. CASE k # e
    <3>1. k \in sent => k \notin batch[d]
      BY <1>0, <2>2, <2>4, OldestIsUnique DEF OutboxInv, Untroubled
    <3> QED BY <1>0, <2>2, <2>4, <3>1 DEF OutboxInv, TypeOK, Untroubled, Oldest
  <2> QED BY <2>3, <2>4
<1> QED BY <1>0, <1>1, <1>2, <1>3 DEF OutboxInv, AgainIsTroubled

\* What a flush drops stays as it is, in nobody's batch.
LEMMA AbortInv ==
    ASSUME OutboxAssumption, OutboxInv, NEW d \in Dispatchers,
           Abort(d), UNCHANGED <<event, sent, again, troubled>>
    PROVE  FlushInv' /\ PublishedIsSent' /\ UntroubledInv' /\ AgainIsTroubled'
<1>1. FlushInv'
  BY DEF Abort, OutboxInv, TypeOK, FlushInv, Oldest
<1>2. UntroubledInv'
  <2>1. SUFFICES ASSUME NEW k \in Events, IsAlert(k), k \notin troubled
                 PROVE  Untroubled(k)'
    BY DEF UntroubledInv
  <2>2. Untroubled(k)
    BY <2>1 DEF OutboxInv, UntroubledInv
  <2> QED BY <2>2 DEF Abort, OutboxInv, TypeOK, Untroubled, Oldest
<1> QED BY <1>1, <1>2 DEF OutboxInv, PublishedIsSent, AgainIsTroubled

\* A claim takes no alert that is sent, unless its lease has lapsed.
LEMMA ClaimInv ==
    ASSUME OutboxAssumption, OutboxInv, NEW d \in Dispatchers, Claim(d)
    PROVE  FlushInv' /\ PublishedIsSent' /\ UntroubledInv' /\ AgainIsTroubled'
<1>0. /\ batch[d] = {}
      /\ batch' = [batch EXCEPT ![d] = {e \in Events : IsOldest(e)}]
      /\ event' = [e \in Events |-> IF IsOldest(e) THEN Held(d) ELSE event[e]]
      /\ UNCHANGED <<step, sent, again, troubled>>
      /\ step[d] = "send"
  BY DEF Claim, OutboxInv, FlushInv
<1>1. FlushInv'
  BY <1>0 DEF OutboxInv, TypeOK, FlushInv, Oldest
<1>2. PublishedIsSent'
  BY <1>0 DEF OutboxInv, PublishedIsSent, Held
<1>3. UntroubledInv'
  <2>1. SUFFICES ASSUME NEW k \in Events, IsAlert(k), k \notin troubled
                 PROVE  Untroubled(k)'
    BY <1>0 DEF UntroubledInv
  <2>2. Untroubled(k)
    BY <2>1 DEF OutboxInv, UntroubledInv
  <2>3. CASE IsOldest(k)
    <3>1. event[k].status \in {"PENDING", "RETRY"}
      BY <2>2, <2>3 DEF IsOldest, Claimable, Untroubled
    <3>2. k \notin sent /\ \A f \in Dispatchers : k \notin batch[f]
      BY <2>2, <3>1 DEF Untroubled
    <3> QED BY <1>0, <2>3, <3>2 DEF OutboxInv, TypeOK, Untroubled, Held
  <2>4. CASE ~IsOldest(k)
    BY <1>0, <2>2, <2>4 DEF OutboxInv, TypeOK, Untroubled, Oldest
  <2> QED BY <2>3, <2>4
<1> QED BY <1>0, <1>1, <1>2, <1>3 DEF OutboxInv, AgainIsTroubled

\* A lease that lapses troubles its alert; nothing else in the world does.
LEMMA WorldInv ==
    ASSUME OutboxAssumption, OutboxInv, NEW e \in Events,
           AppendOutbox(e) \/ LeaseExpires(e) \/ DelayElapses(e)
    PROVE  FlushInv' /\ PublishedIsSent' /\ UntroubledInv' /\ AgainIsTroubled'
<1>0. /\ UNCHANGED <<batch, step, sent, again>>
      /\ troubled \subseteq troubled'
      /\ \A k \in Events \ {e} : event'[k] = event[k]
  BY ClockChanges DEF AppendOutbox, LeaseExpires, DelayElapses, Trouble, OutboxInv, TypeOK
<1>1. FlushInv'
  BY <1>0 DEF OutboxInv, FlushInv, Oldest
<1>2. PublishedIsSent'
  BY <1>0 DEF OutboxInv, TypeOK, PublishedIsSent, AppendOutbox, LeaseExpires,
              DelayElapses, Free
<1>3. UntroubledInv'
  <2>1. SUFFICES ASSUME NEW k \in Events, IsAlert(k), k \notin troubled'
                 PROVE  Untroubled(k)'
    BY DEF UntroubledInv
  <2>2. Untroubled(k)
    BY <1>0, <2>1 DEF OutboxInv, UntroubledInv
  <2>3. CASE k # e
    BY <1>0, <2>2, <2>3 DEF Untroubled, Oldest
  <2>4. CASE k = e /\ AppendOutbox(e)
    BY <1>0, <2>2, <2>4 DEF OutboxInv, TypeOK, Untroubled, AppendOutbox, Free
  <2>5. CASE k = e /\ DelayElapses(e)
    BY <1>0, <2>2, <2>5 DEF OutboxInv, TypeOK, Untroubled, DelayElapses
  <2>6. ~(k = e /\ LeaseExpires(e))
    BY <2>1 DEF LeaseExpires, Trouble
  <2> QED BY <2>3, <2>4, <2>5, <2>6
<1> QED BY <1>0, <1>1, <1>2, <1>3 DEF OutboxInv, AgainIsTroubled

LEMMA OutboxNextInv ==
    ASSUME OutboxAssumption, OutboxInv, [Next]_vars PROVE OutboxInv'
<1>1. TypeOK'
  BY TypeNext DEF OutboxInv
<1>2. SUFFICES FlushInv' /\ PublishedIsSent' /\ UntroubledInv' /\ AgainIsTroubled'
  BY <1>1 DEF OutboxInv
<1>3. CASE \E e \in Events : AppendOutbox(e) \/ LeaseExpires(e) \/ DelayElapses(e)
  BY <1>3, WorldInv
<1>4. CASE \E d \in Dispatchers : Claim(d)
  BY <1>4, ClaimInv
<1>5. ASSUME NEW d \in Dispatchers, NEW e \in Events, FlushStep(d, e)
      PROVE  FlushInv' /\ PublishedIsSent' /\ UntroubledInv' /\ AgainIsTroubled'
  <2>1. CASE FailRaises(d, e)
    BY <2>1, AbortInv DEF FailRaises
  <2> QED BY <1>5, <2>1, SkipInv, SendInv, GotoFailInv, NextEventInv DEF FlushStep
<1>6. CASE \E d \in Dispatchers : Crash(d)
  BY <1>6, AbortInv DEF Crash
<1>7. CASE UNCHANGED vars
  BY <1>7 DEF vars, OutboxInv, FlushInv, PublishedIsSent, UntroubledInv, Untroubled,
              AgainIsTroubled, Oldest
<1> QED BY <1>3, <1>4, <1>5, <1>6, <1>7 DEF Next, Flush

-----------------------------------------------------------------------------

\* The outbox keeps its types and its invariant.
THEOREM OutboxIsInv == Spec => []OutboxInv
<1>1. Init => OutboxInv
  BY OutboxAssumption, OutboxInitInv
<1>2. OutboxInv /\ [Next]_vars => OutboxInv'
  BY OutboxAssumption, OutboxNextInv
<1> QED BY <1>1, <1>2, PTL DEF Spec

\* Rows, batches and owners have their types (claim_outbox, complete_outbox,
\* fail_outbox).
THEOREM OutboxTypes == Spec => []TypeOK
  BY OutboxIsInv, PTL DEF OutboxInv

\* An alert is PUBLISHED only after the webhook accepted it (flush).
THEOREM PublishedSent == Spec => []PublishedIsSent
  BY OutboxIsInv, PTL DEF OutboxInv

\* An alert is accepted twice only after trouble (claim_outbox, flush).
THEOREM AgainTroubled == Spec => []AgainIsTroubled
  BY OutboxIsInv, PTL DEF OutboxInv

=============================================================================
