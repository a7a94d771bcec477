-------------------------- MODULE ExecutionEngine ---------------------------
(***************************************************************************)
(* The execution engine: execute creates, pauses and reads back a batch of *)
(* plans one after the other and relocks the account; reconcile looks the  *)
(* plans' campaigns up, pauses and reads them back, and relocks.  Both     *)
(* stop at the first plan that is not verified.                            *)
(*                                                                         *)
(* The calls of one project are numbered in the order in which their jobs  *)
(* exist.  Every request to the platform or to the account lock is a step, *)
(* so a process may die, and another call may run, before and after it.    *)
(* What a request does and what its answer says are chosen separately: a   *)
(* lost or malformed answer says nothing of whether it took effect, while  *)
(* an answer the engine accepts is true.  Campaign <<p, c>> is the one     *)
(* that call c created for plan p; all campaigns of a plan have its name.  *)
(***************************************************************************)
EXTENDS EngineOutcomes, FiniteSets, Integers

CONSTANTS NPlans,       \* the plans of the batch
          MaxCalls,     \* bound: calls of the engine
          Executes,     \* the calls that execute; the others reconcile
          Changed,      \* plans whose stored payload may have lost its hash
          MayOverlap    \* may a call begin while an earlier one is stalled?

Plans == 1 .. NPlans
Calls == 1 .. MaxCalls
Campaigns == Plans \X Calls

ASSUME EngineAssumption ==
    /\ NPlans \in Nat \ {0}
    /\ MaxCalls \in Nat
    /\ Executes \subseteq Calls
    /\ Changed \subseteq Plans
    /\ MayOverlap \in BOOLEAN

VARIABLES
    platform,  \* each campaign: absent, running or paused
    locked,    \* is the advertiser's account locked?
    call,      \* the state of each call
    object     \* platform_objects.pause_state of each campaign

vars == <<platform, locked, call, object>>

-----------------------------------------------------------------------------

Steps == {"rest", "create", "discover", "inspect", "pause", "readback",
          "relock", "verify", "returned", "recorded", "raised", "dead"}

\* named and verified are the plan receipts: the campaigns whose object ids
\* they carry, and those of them with pause_verified.
CallState == [step: Steps, plan: Plans, at: Campaigns, status: Outcomes,
              named: SUBSET Campaigns, verified: SUBSET Campaigns]

TypeOK ==
    /\ platform \in [Campaigns -> {"absent", "running", "paused"}]
    /\ locked \in BOOLEAN
    /\ call \in [Calls -> CallState]
    /\ object \in [Campaigns -> {"NONE", "UNVERIFIED", "VERIFIED_PAUSED"}]

IsExecute(c) == c \in Executes
FirstStep(c) == IF IsExecute(c) THEN "create" ELSE "discover"

\* The status a call returns unless something stops it.
Hoped(c) == IF IsExecute(c) THEN "VERIFIED_PAUSED" ELSE "RECONCILED_NOT_CREATED"

NotBegun(c) == [step |-> "rest", plan |-> 1, at |-> <<1, c>>, status |-> Hoped(c),
                named |-> {}, verified |-> {}]

Init ==
    /\ platform = [x \in Campaigns |-> "absent"]
    /\ locked \in BOOLEAN
    /\ call = [c \in Calls |-> NotBegun(c)]
    /\ object = [x \in Campaigns |-> "NONE"]

At(c, step) == call[c].step = step
Ended(c) == call[c].step \in {"recorded", "raised", "dead"}
UnderWay(c) == ~At(c, "rest") /\ ~Ended(c)

Goto(c, step) == call' = [call EXCEPT ![c].step = step]

\* The engine raises: no receipt, and no relock.
Raise(c) ==
    call' = [call EXCEPT ![c] = [@ EXCEPT !.step = "raised", !.status = "RAISED"]]

\* break out of the loop over the plans.
Break(c, status) ==
    call' = [call EXCEPT ![c] = [@ EXCEPT !.step = "relock", !.status = status]]

\* break with a receipt that carries the object ids.
BreakNaming(c, status, verified) ==
    call' = [call EXCEPT ![c] = [@ EXCEPT !.step = "relock", !.status = status,
                                          !.named = call[c].named \cup {call[c].at},
                                          !.verified = call[c].verified \cup verified]]

\* Mutated: the loop runs one plan too far.
AdvancePastEnd(c, found) ==
    call' = [call EXCEPT ![c] =
        IF @.plan <= NPlans
        THEN [@ EXCEPT !.step = FirstStep(c), !.plan = @ + 1]
        ELSE [@ EXCEPT !.step = "relock"]]

\* The next plan, or the end of the loop: a reconciliation that found a
\* campaign changes its status here.
Advance(c, found) ==
    LET named == call[c].named \cup found
        next == [call[c] EXCEPT !.named = named, !.verified = @ \cup found]
    IN call' = [call EXCEPT ![c] =
                  IF next.plan < NPlans
                  THEN [next EXCEPT !.step = FirstStep(c), !.plan = @ + 1]
                  ELSE [next EXCEPT !.step = "relock",
                                    !.status = IF ~IsExecute(c) /\ named # {}
                                               THEN "RECONCILED_VERIFIED_PAUSED"
                                               ELSE @]]

-----------------------------------------------------------------------------
(* The calls.  A job is reconciled after the run of it ended, unless the   *)
(* run is only stalled and lost its lease.                                 *)

MayBegin(c) == \A d \in Calls : d < c => Ended(d) \/ (MayOverlap /\ ~At(d, "rest"))

\* account_lock.preflight raises or lets the call begin.
Begin(c) ==
    /\ At(c, "rest")
    /\ MayBegin(c)
    /\ Goto(c, FirstStep(c)) \/ Raise(c)
    /\ UNCHANGED <<platform, locked, object>>

\* The payload is hashed again at the head of the loop.
PayloadChanged(c) ==
    /\ call[c].step \in {"create", "discover"}
    /\ call[c].plan \in Changed
    /\ Raise(c)
    /\ UNCHANGED <<platform, locked, object>>

\* _post: why a request has no valid answer.  A request that is rejected had
\* no effect; of the others nothing is known.
RequestErrors ==
    {"PLATFORM_TRANSPORT_ERROR", "PLATFORM_SCHEMA_ERROR", "PLATFORM_BUSINESS_ERROR"}

\* Why a create yields no object ids; NOT_SENT stands for the write guard and
\* missing credentials, UNEXPECTED for every other exception.
CreateErrors ==
    RequestErrors \cup {"NOT_SENT", "PLATFORM_CREATE_RESPONSE_AMBIGUOUS", "UNEXPECTED"}

WithoutEffect == {"PLATFORM_BUSINESS_ERROR", "NOT_SENT"}

\* Mutated: an unexpected exception leaves the engine.
CreateStatusUncaught(error) ==
    CASE error \in {"PLATFORM_TRANSPORT_ERROR", "PLATFORM_CREATE_RESPONSE_AMBIGUOUS"}
            -> "RECONCILE_REQUIRED"
      [] error = "UNEXPECTED" -> "RAISED"
      [] OTHER -> "FAILED_TERMINAL"

\* What the engine makes of a failed create.
CreateStatus(error) ==
    CASE error \in {"PLATFORM_TRANSPORT_ERROR", "PLATFORM_CREATE_RESPONSE_AMBIGUOUS"}
            -> "RECONCILE_REQUIRED"
      [] error = "UNEXPECTED" -> "RECOVERY_REQUIRED"
      [] OTHER -> "FAILED_TERMINAL"

Create(c) ==
    LET x == <<call[c].plan, c>>
        committed == [platform EXCEPT ![x] = "running"]
    IN /\ At(c, "create")
       /\ \/ /\ platform' = committed
             /\ call' = [call EXCEPT ![c] = [@ EXCEPT !.step = "pause", !.at = x]]
          \/ \E error \in CreateErrors :
                /\ \/ platform' = platform
                   \/ /\ error \notin WithoutEffect
                      /\ platform' = committed
                /\ Break(c, CreateStatus(error))
       /\ UNCHANGED <<locked, object>>

\* The campaigns the platform lists under the plan's name.
Listed(p) == {x \in Campaigns : x[1] = p /\ platform[x] # "absent"}

\* A request of the lookup fails, or an exception is caught.
LookupFailures == {"RECONCILE_REQUIRED", "RECOVERY_REQUIRED"}

\* Mutated: the first of several campaigns is taken.
DiscoverFirst(c) ==
    LET listed == Listed(call[c].plan)
    IN /\ At(c, "discover")
       /\ \/ \E status \in LookupFailures : Break(c, status)
          \/ listed = {} /\ Advance(c, {})
          \/ \E x \in listed :
                call' = [call EXCEPT ![c] = [@ EXCEPT !.step = "inspect", !.at = x]]
       /\ UNCHANGED <<platform, locked, object>>

\* list_campaigns by name: nothing to do, exactly one campaign, or ambiguous
\* (several campaigns, or no usable id).
Discover(c) ==
    LET listed == Listed(call[c].plan)
    IN /\ At(c, "discover")
       /\ \/ \E status \in LookupFailures : Break(c, status)
          \/ listed = {} /\ Advance(c, {})
          \/ listed # {} /\ Break(c, "RECOVERY_REQUIRED")
          \/ \E x \in listed :
                /\ listed = {x}
                /\ call' = [call EXCEPT ![c] = [@ EXCEPT !.step = "inspect", !.at = x]]
       /\ UNCHANGED <<platform, locked, object>>

\* list_units and search_creativities: neither has an effect, and both fail
\* alike or are ambiguous.
Inspect(c) ==
    /\ At(c, "inspect")
    /\ \/ Goto(c, "pause")
       \/ \E status \in LookupFailures : Break(c, status)
    /\ UNCHANGED <<platform, locked, object>>

\* Mutated: a campaign that was not paused does not stop the batch.
PauseAndGoOn(c) ==
    /\ At(c, "pause")
    /\ platform' \in {platform, [platform EXCEPT ![call[c].at] = "paused"]}
    /\ Goto(c, "readback") \/ Advance(c, {})
    /\ UNCHANGED <<locked, object>>

\* update_campaign_status: answered with the id among the paused ones, or not.
\* Only the readback shows whether it took effect.
Pause(c) ==
    /\ At(c, "pause")
    /\ platform' \in {platform, [platform EXCEPT ![call[c].at] = "paused"]}
    /\ Goto(c, "readback") \/ BreakNaming(c, "PAUSE_FAILED_EMERGENCY", {})
    /\ UNCHANGED <<locked, object>>

\* Mutated: the readback compares the fields and not the pause state.
ReadbackOfFields(c) ==
    /\ At(c, "readback")
    /\ \/ BreakNaming(c, "RECOVERY_REQUIRED", {})
       \/ BreakNaming(c, "READBACK_MISMATCH", {})
       \/ BreakNaming(c, "READBACK_MISMATCH", {call[c].at})
       \/ Advance(c, {call[c].at})
    /\ UNCHANGED <<platform, locked, object>>

\* _readback: an exception, a mismatch (pause_verified only if it is paused),
\* or campaign, units and creativities as planned and paused.
Readback(c) ==
    LET x == call[c].at
    IN /\ At(c, "readback")
       /\ \/ BreakNaming(c, "RECOVERY_REQUIRED", {})
          \/ BreakNaming(c, "READBACK_MISMATCH", {})
          \/ /\ platform[x] = "paused"
             /\ BreakNaming(c, "READBACK_MISMATCH", {x}) \/ Advance(c, {x})
       /\ UNCHANGED <<platform, locked, object>>

-----------------------------------------------------------------------------
(* After the loop, and after the engine.                                   *)

Return(c, status) ==
    call' = [call EXCEPT ![c] = [@ EXCEPT !.step = "returned", !.status = status]]

\* Mutated: the lock is not verified.
RelockUnverified(c) ==
    /\ At(c, "relock")
    /\ locked' \in {locked, TRUE}
    /\ Return(c, call[c].status) \/ Return(c, "RELOCK_FAILED")
    /\ UNCHANGED <<platform, object>>

\* account_lock.relock returns or raises, with or without effect.  In execute
\* platform_write_attempted holds whenever the loop ends.
Relock(c) ==
    /\ At(c, "relock")
    /\ locked' \in {locked, TRUE}
    /\ Goto(c, "verify") \/ Return(c, "RELOCK_FAILED")
    /\ UNCHANGED <<platform, object>>

\* account_lock.verify_locked: only a verified lock keeps the status.
Verify(c) ==
    /\ At(c, "verify")
    /\ \/ locked /\ Return(c, call[c].status)
       \/ Return(c, "RELOCK_FAILED")
    /\ UNCHANGED <<platform, locked, object>>

\* Mutated: the pause state is read off the status of the batch.
RecordByStatus(c) ==
    /\ At(c, "returned")
    /\ object' = [x \in Campaigns |->
           IF x \notin call[c].named THEN object[x]
           ELSE IF call[c].status \in {"VERIFIED_PAUSED", "READBACK_MISMATCH"}
                THEN "VERIFIED_PAUSED" ELSE "UNVERIFIED"]
    /\ Goto(c, "recorded")
    /\ UNCHANGED <<platform, locked>>

\* record_execution_result, called by whoever called the engine.
Record(c) ==
    /\ At(c, "returned")
    /\ object' = [x \in Campaigns |->
           IF x \notin call[c].named THEN object[x]
           ELSE IF x \in call[c].verified THEN "VERIFIED_PAUSED" ELSE "UNVERIFIED"]
    /\ Goto(c, "recorded")
    /\ UNCHANGED <<platform, locked>>

\* The process dies, or the transaction that records the receipt is refused.
Die(c) ==
    /\ UnderWay(c)
    /\ Goto(c, "dead")
    /\ UNCHANGED <<platform, locked, object>>

\* The account is opened for the next write.
Open ==
    /\ \A c \in Calls : ~UnderWay(c)
    /\ locked' = FALSE
    /\ UNCHANGED <<platform, call, object>>

-----------------------------------------------------------------------------

Step(c) ==
    \/ Begin(c) \/ PayloadChanged(c)
    \/ Create(c) \/ Discover(c) \/ Inspect(c) \/ Pause(c) \/ Readback(c)
    \/ Relock(c) \/ Verify(c) \/ Record(c) \/ Die(c)

Next == Open \/ \E c \in Calls : Step(c)

Spec == Init /\ [][Next]_vars

-----------------------------------------------------------------------------
(* Properties.                                                             *)

\* VERIFIED_PAUSED speaks for the whole batch: every plan's campaign exists
\* and is paused.
VerifiedIsPaused ==
    \A c \in Executes :
        (call[c].step \in {"returned", "recorded"} /\ call[c].status = "VERIFIED_PAUSED")
            => \A p \in Plans : platform[<<p, c>>] = "paused"

\* However a batch stops, and if its process dies, at most one of the
\* campaigns it created is not paused.
OneAtRisk ==
    \A c \in Executes : \A p, q \in Plans :
        (platform[<<p, c>>] = "running" /\ platform[<<q, c>>] = "running") => p = q

\* Unless it says RELOCK_FAILED, a receipt comes with a locked account,
\* whichever step of the call failed.
ReturnsLocked ==
    \A c \in Calls :
        (At(c, "returned") /\ call[c].status # "RELOCK_FAILED") => locked

\* A reconciliation that succeeds after the writes ended settles the batch:
\* no campaign of any plan runs, whichever write created it, and if it
\* reports absence there is none.
ReconciledIsSettled ==
    \A c \in Calls :
        At(c, "returned") =>
            /\ call[c].status = "RECONCILED_VERIFIED_PAUSED"
                  => \A x \in Campaigns : platform[x] # "running"
            /\ call[c].status = "RECONCILED_NOT_CREATED"
                  => \A x \in Campaigns : platform[x] = "absent"

\* A platform object on record as VERIFIED_PAUSED is paused, although every
\* receipt replaces what earlier ones recorded.
RecordedIsPaused ==
    \A x \in Campaigns : object[x] = "VERIFIED_PAUSED" => platform[x] = "paused"

\* Where payloads keep their hashes, the engine returns what TestWrite assumes
\* of it.
OutcomesAsAssumed ==
    \A c \in Calls :
        call[c].step \in {"returned", "raised"} =>
            call[c].status \in
                IF IsExecute(c)
                THEN ExecuteOutcomes(\E p \in Plans : platform[<<p, c>>] # "absent")
                ELSE ReconcileOutcomes(\A p \in Plans : Listed(p) = {},
                                       \E p \in Plans : Cardinality(Listed(p)) = 1)

-----------------------------------------------------------------------------
(* What the repository says of itself and the code does not keep.          *)

\* "Unknown results enter an explicit reconcile flow" (README.md:21): a
\* campaign that exists and that the receipt does not name is reconciled.
UnknownResultIsReconciled ==
    \A c \in Executes : \A p \in Plans :
        (At(c, "returned") /\ platform[<<p, c>>] # "absent"
                           /\ <<p, c>> \notin call[c].named)
            => call[c].status \in {"RECONCILE_REQUIRED", "RELOCK_FAILED"}

=============================================================================
