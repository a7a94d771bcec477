----------------------- MODULE ExecutionEngine_proofs -----------------------
(***************************************************************************)
(* The guarantees of the execution engine, for any batch, any number of    *)
(* calls and any of them executing; and, of calls that do not overlap, the *)
(* contract the write control plane is built on (EngineOutcomes).          *)
(***************************************************************************)
EXTENDS ExecutionEngine, FiniteSetTheorems, TLAPS

-----------------------------------------------------------------------------
(* What a step of one call may change.                                     *)

\* A step of call c leaves the other calls alone, and keeps c well formed.
Moves(c) == \E k \in CallState : call' = [call EXCEPT ![c] = k]

\* The platform after a step of call c: a create commits its campaign, or a
\* pause reaches the campaign at hand.
PlatformStep(c) ==
    \/ platform' = platform
    \/ /\ At(c, "create")
       /\ platform' = [platform EXCEPT ![<<call[c].plan, c>>] = "running"]
    \/ /\ At(c, "pause")
       /\ platform' = [platform EXCEPT ![call[c].at] = "paused"]

LEMMA CampaignsOfCall ==
    \A p \in Plans, c \in Calls : <<p, c>> \in Campaigns
BY DEF Campaigns

LEMMA ExecutesAreCalls == \A c \in Executes : c \in Calls
BY EngineAssumption

LEMMA NotBegunType == \A c \in Calls : NotBegun(c) \in CallState
<1>1. 1 \in Plans
  BY EngineAssumption DEF Plans
<1> QED
  BY <1>1, CampaignsOfCall DEF NotBegun, CallState, Steps, Outcomes, Hoped

LEMMA GotoMoves ==
    ASSUME TypeOK, NEW c \in Calls, NEW s \in Steps, Goto(c, s)
    PROVE  Moves(c)
<1> DEFINE k == [call[c] EXCEPT !.step = s]
<1>1. call[c] \in CallState
  BY DEF TypeOK
<1>2. k \in CallState
  BY <1>1 DEF CallState
<1>3. call' = [call EXCEPT ![c] = k]
  BY DEF Goto
<1> QED  BY <1>2, <1>3 DEF Moves

LEMMA EndMoves ==
    ASSUME TypeOK, NEW c \in Calls,
           \/ Raise(c)
           \/ \E status \in Outcomes : Break(c, status) \/ Return(c, status)
           \/ \E status \in Outcomes, verified \in SUBSET Campaigns :
                BreakNaming(c, status, verified)
    PROVE  Moves(c)
<1>1. call[c] \in CallState
  BY DEF TypeOK
<1>2. CASE Raise(c)
  BY <1>1, <1>2 DEF Raise, Moves, CallState, Steps, Outcomes
<1>3. ASSUME NEW status \in Outcomes, Break(c, status) \/ Return(c, status)
      PROVE  Moves(c)
  BY <1>1, <1>3 DEF Break, Return, Moves, CallState, Steps
<1>4. ASSUME NEW status \in Outcomes, NEW verified \in SUBSET Campaigns,
             BreakNaming(c, status, verified)
      PROVE  Moves(c)
  <2> DEFINE k == [call[c] EXCEPT !.step = "relock", !.status = status,
                                  !.named = call[c].named \cup {call[c].at},
                                  !.verified = call[c].verified \cup verified]
  <2>1. k \in CallState
    BY <1>1 DEF CallState, Steps
  <2>2. call' = [call EXCEPT ![c] = k]
    BY <1>4 DEF BreakNaming
  <2> QED  BY <2>1, <2>2 DEF Moves
<1> QED  BY <1>2, <1>3, <1>4

LEMMA AdvanceMoves ==
    ASSUME TypeOK, NEW c \in Calls, NEW found \in SUBSET Campaigns, Advance(c, found)
    PROVE  Moves(c)
<1> DEFINE named == call[c].named \cup found
           next == [call[c] EXCEPT !.named = named, !.verified = @ \cup found]
           on == [next EXCEPT !.step = FirstStep(c), !.plan = @ + 1]
           end == [next EXCEPT !.step = "relock",
                               !.status = IF ~IsExecute(c) /\ named # {}
                                          THEN "RECONCILED_VERIFIED_PAUSED" ELSE @]
<1>1. call[c] \in CallState
  BY DEF TypeOK
<1>2. next \in CallState /\ next.plan = call[c].plan
  BY <1>1 DEF CallState
<1>3. end \in CallState
  BY <1>2 DEF CallState, Steps, Outcomes
<1>4. ASSUME next.plan < NPlans
      PROVE  on \in CallState
  <2>1. next.plan + 1 \in Plans
    BY <1>1, <1>2, <1>4, EngineAssumption DEF CallState, Plans
  <2> QED  BY <1>2, <2>1 DEF CallState, Steps, FirstStep
<1>5. call' = [call EXCEPT ![c] = IF next.plan < NPlans THEN on ELSE end]
  BY DEF Advance
<1> QED  BY <1>3, <1>4, <1>5 DEF Moves

LEMMA SetAtMoves ==
    ASSUME TypeOK, NEW c \in Calls, NEW s \in Steps, NEW x \in Campaigns,
           call' = [call EXCEPT ![c] = [@ EXCEPT !.step = s, !.at = x]]
    PROVE  Moves(c)
<1>1. call[c] \in CallState
  BY DEF TypeOK
<1>2. [call[c] EXCEPT !.step = s, !.at = x] \in CallState
  BY <1>1 DEF CallState
<1> QED  BY <1>2 DEF Moves

LEMMA StepMoves ==
    ASSUME TypeOK, NEW c \in Calls, Step(c)
    PROVE  Moves(c)
<1>t. /\ call[c] \in CallState
      /\ call[c].plan \in Plans /\ call[c].at \in Campaigns
      /\ <<call[c].plan, c>> \in Campaigns
  BY CampaignsOfCall DEF TypeOK, CallState
<1>1. CASE Begin(c)
  BY <1>1, GotoMoves, EndMoves DEF Begin, FirstStep, Steps
<1>2. CASE PayloadChanged(c)
  BY <1>2, EndMoves DEF PayloadChanged
<1>3. CASE Create(c)
  <2>1. \A error \in CreateErrors : CreateStatus(error) \in Outcomes
    BY DEF CreateStatus, Outcomes
  <2> QED  BY <1>3, <1>t, <2>1, EndMoves, SetAtMoves DEF Create, Steps
<1>4. CASE Discover(c)
  <2>1. LookupFailures \cup {"RECOVERY_REQUIRED"} \subseteq Outcomes
    BY DEF LookupFailures, Outcomes
  <2>2. Listed(call[c].plan) \subseteq Campaigns
    BY DEF Listed
  <2> QED  BY <1>4, <2>1, <2>2, EndMoves, AdvanceMoves, SetAtMoves DEF Discover, Steps
<1>5. CASE Inspect(c)
  <2>1. LookupFailures \subseteq Outcomes
    BY DEF LookupFailures, Outcomes
  <2> QED  BY <1>5, <2>1, GotoMoves, EndMoves DEF Inspect, Steps
<1>6. CASE Pause(c)
  <2>1. {} \in SUBSET Campaigns /\ "PAUSE_FAILED_EMERGENCY" \in Outcomes
    BY DEF Outcomes
  <2> QED  BY <1>6, <2>1, GotoMoves, EndMoves DEF Pause, Steps
<1>7. CASE Readback(c)
  <2>1. /\ {} \in SUBSET Campaigns /\ {call[c].at} \in SUBSET Campaigns
        /\ {"RECOVERY_REQUIRED", "READBACK_MISMATCH"} \subseteq Outcomes
    BY <1>t DEF Outcomes
  <2> QED  BY <1>7, <2>1, EndMoves, AdvanceMoves DEF Readback
<1>8. CASE Relock(c) \/ Verify(c)
  <2>1. call[c].status \in Outcomes /\ "RELOCK_FAILED" \in Outcomes
    BY <1>t DEF CallState, Outcomes
  <2> QED  BY <1>8, <2>1, GotoMoves, EndMoves DEF Relock, Verify, Steps
<1>9. CASE Record(c) \/ Die(c)
  BY <1>9, GotoMoves DEF Record, Die, Steps
<1> QED
  BY <1>1, <1>2, <1>3, <1>4, <1>5, <1>6, <1>7, <1>8, <1>9 DEF Step

\* The fields of the call that moved.
LEMMA GotoFields ==
    ASSUME TypeOK, NEW c \in Calls, NEW s, Goto(c, s)
    PROVE  /\ call'[c].step = s
           /\ call'[c].plan = call[c].plan
           /\ call'[c].at = call[c].at
           /\ call'[c].status = call[c].status
           /\ call'[c].named = call[c].named
           /\ call'[c].verified = call[c].verified
BY DEF TypeOK, CallState, Goto

LEMMA EndFields ==
    ASSUME TypeOK, NEW c \in Calls, NEW status
    PROVE  /\ Raise(c) => call'[c].step = "raised"
           /\ (Break(c, status) \/ Return(c, status)) =>
                /\ call'[c].status = status
                /\ call'[c].plan = call[c].plan
                /\ call'[c].at = call[c].at
                /\ call'[c].named = call[c].named
                /\ call'[c].verified = call[c].verified
           /\ Raise(c) =>
                /\ call'[c].plan = call[c].plan
                /\ call'[c].at = call[c].at
                /\ call'[c].named = call[c].named
                /\ call'[c].verified = call[c].verified
           /\ Break(c, status) => call'[c].step = "relock"
           /\ Return(c, status) => call'[c].step = "returned"
BY DEF TypeOK, CallState, Raise, Break, Return

LEMMA BreakNamingFields ==
    ASSUME TypeOK, NEW c \in Calls, NEW status, NEW verified,
           BreakNaming(c, status, verified)
    PROVE  /\ call'[c].step = "relock"
           /\ call'[c].status = status
           /\ call'[c].plan = call[c].plan
           /\ call'[c].at = call[c].at
           /\ call'[c].named = call[c].named \cup {call[c].at}
           /\ call'[c].verified = call[c].verified \cup verified
BY DEF TypeOK, CallState, BreakNaming

LEMMA AdvanceFields ==
    ASSUME TypeOK, NEW c \in Calls, NEW found, Advance(c, found)
    PROVE  /\ call'[c].at = call[c].at
           /\ call'[c].named = call[c].named \cup found
           /\ call'[c].verified = call[c].verified \cup found
           /\ IF call[c].plan < NPlans
              THEN /\ call'[c].step = FirstStep(c)
                   /\ call'[c].plan = call[c].plan + 1
                   /\ call'[c].status = call[c].status
              ELSE /\ call'[c].step = "relock"
                   /\ call'[c].plan = call[c].plan
                   /\ call'[c].status = IF ~IsExecute(c) /\ call'[c].named # {}
                                        THEN "RECONCILED_VERIFIED_PAUSED"
                                        ELSE call[c].status
BY DEF TypeOK, CallState, Advance

LEMMA SetAtFields ==
    ASSUME TypeOK, NEW c \in Calls, NEW s, NEW x,
           call' = [call EXCEPT ![c] = [@ EXCEPT !.step = s, !.at = x]]
    PROVE  /\ call'[c].step = s
           /\ call'[c].at = x
           /\ call'[c].plan = call[c].plan
           /\ call'[c].status = call[c].status
           /\ call'[c].named = call[c].named
           /\ call'[c].verified = call[c].verified
BY DEF TypeOK, CallState

\* Create and Discover, by what becomes of the call.
Takes(c, step, x) ==
    /\ call'[c].step = step
    /\ call'[c].at = x
    /\ call'[c].plan = call[c].plan
    /\ call'[c].status = call[c].status
    /\ call'[c].named = call[c].named
    /\ call'[c].verified = call[c].verified

Stops(c, statuses) == \E status \in statuses : Break(c, status)

LEMMA CreateEnds ==
    ASSUME TypeOK, NEW c \in Calls, Create(c)
    PROVE  \/ /\ Takes(c, "pause", <<call[c].plan, c>>)
              /\ platform' = [platform EXCEPT ![<<call[c].plan, c>>] = "running"]
           \/ Stops(c, {"RECONCILE_REQUIRED", "FAILED_TERMINAL", "RECOVERY_REQUIRED"})
<1> DEFINE x == <<call[c].plan, c>>
<1>1. CASE /\ platform' = [platform EXCEPT ![x] = "running"]
           /\ call' = [call EXCEPT ![c] = [@ EXCEPT !.step = "pause", !.at = x]]
  <2>1. Takes(c, "pause", x)
    BY <1>1, SetAtFields DEF Takes
  <2> QED  BY <1>1, <2>1
<1>2. ASSUME NEW error \in CreateErrors, Break(c, CreateStatus(error))
      PROVE  Stops(c, {"RECONCILE_REQUIRED", "FAILED_TERMINAL", "RECOVERY_REQUIRED"})
  <2>1. CreateStatus(error)
          \in {"RECONCILE_REQUIRED", "FAILED_TERMINAL", "RECOVERY_REQUIRED"}
    BY DEF CreateStatus
  <2> QED  BY <1>2, <2>1 DEF Stops
<1> QED  BY <1>1, <1>2 DEF Create

LEMMA DiscoverEnds ==
    ASSUME TypeOK, NEW c \in Calls, Discover(c)
    PROVE  \/ Stops(c, {"RECONCILE_REQUIRED", "RECOVERY_REQUIRED"})
           \/ Listed(call[c].plan) = {} /\ Advance(c, {})
           \/ \E x \in Campaigns : /\ Listed(call[c].plan) = {x}
                                   /\ Takes(c, "inspect", x)
<1>1. ASSUME NEW x \in Listed(call[c].plan), Listed(call[c].plan) = {x},
             call' = [call EXCEPT ![c] = [@ EXCEPT !.step = "inspect", !.at = x]]
      PROVE  x \in Campaigns /\ Takes(c, "inspect", x)
  <2>1. x \in Campaigns
    BY DEF Listed
  <2>2. Takes(c, "inspect", x)
    BY <1>1, <2>1, SetAtFields DEF Takes
  <2> QED  BY <2>1, <2>2
<1>2. ASSUME NEW status \in LookupFailures, Break(c, status)
      PROVE  Stops(c, {"RECONCILE_REQUIRED", "RECOVERY_REQUIRED"})
  BY <1>2 DEF Stops, LookupFailures
<1>3. ASSUME Break(c, "RECOVERY_REQUIRED")
      PROVE  Stops(c, {"RECONCILE_REQUIRED", "RECOVERY_REQUIRED"})
  BY <1>3 DEF Stops
<1> QED  BY <1>1, <1>2, <1>3 DEF Discover

LEMMA StepPlatform ==
    ASSUME NEW c \in Calls, Step(c)
    PROVE  PlatformStep(c)
BY DEF Step, PlatformStep, Begin, PayloadChanged, Create, Discover, Inspect, Pause,
       Readback, Relock, Verify, Record, Die

\* The other calls, and what a move of call c makes of it.
LEMMA MovesOnly ==
    ASSUME TypeOK, NEW c \in Calls, Moves(c)
    PROVE  /\ call' \in [Calls -> CallState]
           /\ \A d \in Calls : d # c => call'[d] = call[d]
BY DEF TypeOK, Moves

-----------------------------------------------------------------------------
(* Types.                                                                  *)

LEMMA InitTypes == Init => TypeOK
BY NotBegunType DEF Init, TypeOK

LEMMA NextTypes == TypeOK /\ [Next]_vars => TypeOK'
<1> SUFFICES ASSUME TypeOK, [Next]_vars
             PROVE  TypeOK'
  OBVIOUS
<1>1. CASE UNCHANGED vars
  BY <1>1 DEF vars, TypeOK
<1>2. CASE Open
  BY <1>2 DEF Open, TypeOK
<1>3. ASSUME NEW c \in Calls, Step(c)
      PROVE  TypeOK'
  <2>1. call' \in [Calls -> CallState]
    BY <1>3, StepMoves, MovesOnly
  <2>2. platform' \in [Campaigns -> {"absent", "running", "paused"}]
    BY <1>3, StepPlatform DEF PlatformStep, TypeOK
  <2>3. locked' \in BOOLEAN /\ object' \in [Campaigns -> {"NONE", "UNVERIFIED", "VERIFIED_PAUSED"}]
    BY <1>3 DEF Step, TypeOK, Begin, PayloadChanged, Create, Discover, Inspect, Pause,
                Readback, Relock, Verify, Record, Die
  <2> QED  BY <2>1, <2>2, <2>3 DEF TypeOK
<1> QED  BY <1>1, <1>2, <1>3 DEF Next

\* The state of the engine, of the platform and of the record keep their types.
THEOREM EngineTypes == Spec => []TypeOK
<1>1. Init => TypeOK
  BY InitTypes
<1>2. TypeOK /\ [Next]_vars => TypeOK'
  BY NextTypes
<1> QED  BY <1>1, <1>2, PTL DEF Spec

-----------------------------------------------------------------------------
(* The lock.                                                               *)

LEMMA InitLocks == Init => ReturnsLocked
BY DEF Init, ReturnsLocked, At, NotBegun

LEMMA NextLocks == TypeOK /\ ReturnsLocked /\ [Next]_vars => ReturnsLocked'
<1> SUFFICES ASSUME TypeOK, ReturnsLocked, [Next]_vars
             PROVE  ReturnsLocked'
  OBVIOUS
<1>1. CASE UNCHANGED vars
  BY <1>1 DEF vars, ReturnsLocked, At
<1>2. CASE Open
  BY <1>2 DEF Open, ReturnsLocked, UnderWay, Ended, At
<1>3. ASSUME NEW c \in Calls, Step(c)
      PROVE  ReturnsLocked'
  <2>1. locked' \/ locked' = locked
    BY <1>3 DEF Step, TypeOK, Begin, PayloadChanged, Create, Discover, Inspect, Pause,
                Readback, Relock, Verify, Record, Die
  <2>2. \A d \in Calls : d # c => call'[d] = call[d]
    BY <1>3, StepMoves, MovesOnly
  <2>c. call[c] \in CallState /\ DOMAIN call = Calls
    BY DEF TypeOK
  <2>3. CASE Relock(c)
    <3>1. call'[c].step = "verify" \/ call'[c].status = "RELOCK_FAILED"
      BY <2>3, GotoFields, EndFields DEF Relock
    <3> QED  BY <2>1, <2>2, <3>1 DEF ReturnsLocked, At
  <2>4. CASE Verify(c)
    <3>1. locked \/ call'[c].status = "RELOCK_FAILED"
      BY <2>4, EndFields DEF Verify
    <3> QED  BY <2>1, <2>2, <2>4, <3>1 DEF Verify, ReturnsLocked, At
  <2>5. CASE ~(Relock(c) \/ Verify(c))
    <3>1. FirstStep(c) # "returned"
      BY DEF FirstStep
    <3>2. CASE Begin(c) \/ PayloadChanged(c) \/ Inspect(c)
      BY <3>1, <3>2, <2>1, <2>2, GotoFields, EndFields
         DEF Begin, PayloadChanged, Inspect, ReturnsLocked, At
    <3>3. CASE Create(c)
      <4>1. call'[c].step \in {"pause", "relock"}
        BY <3>3, CreateEnds, EndFields DEF Takes, Stops
      <4> QED  BY <4>1, <2>1, <2>2 DEF ReturnsLocked, At
    <3>4. CASE Discover(c)
      <4>1. call'[c].step \in {"inspect", "relock", FirstStep(c)}
        BY <3>4, DiscoverEnds, EndFields, AdvanceFields DEF Takes, Stops
      <4> QED  BY <4>1, <3>1, <2>1, <2>2 DEF ReturnsLocked, At
    <3>5. CASE Pause(c) \/ Record(c) \/ Die(c)
      <4>1. call'[c].step \in {"readback", "relock", "recorded", "dead"}
        BY <3>5, GotoFields, BreakNamingFields DEF Pause, Record, Die
      <4> QED  BY <4>1, <2>1, <2>2 DEF ReturnsLocked, At
    <3>6. CASE Readback(c)
      <4>1. call'[c].step \in {"relock", FirstStep(c)}
        BY <3>6, BreakNamingFields, AdvanceFields DEF Readback
      <4> QED  BY <4>1, <3>1, <2>1, <2>2 DEF ReturnsLocked, At
    <3> QED  BY <1>3, <2>5, <3>2, <3>3, <3>4, <3>5, <3>6 DEF Step
  <2> QED  BY <2>3, <2>4, <2>5
<1> QED  BY <1>1, <1>2, <1>3 DEF Next

\* Every receipt comes with a locked account or says RELOCK_FAILED.
THEOREM EngineReturnsLocked == Spec => []ReturnsLocked
<1>1. Init => ReturnsLocked
  BY InitLocks
<1>2. TypeOK /\ ReturnsLocked /\ [Next]_vars => ReturnsLocked'
  BY NextLocks
<1> QED  BY <1>1, <1>2, EngineTypes, PTL DEF Spec

-----------------------------------------------------------------------------
(* The batches: plans before the current one are paused, plans after it    *)
(* are not created.                                                        *)

AfterLoop == {"relock", "verify", "returned", "recorded"}

\* Executions create, reconciliations discover, and the campaign at hand
\* exists.
KindsOK ==
    \A c \in Calls :
        /\ At(c, "rest") => call[c] = NotBegun(c)
        /\ At(c, "create") => IsExecute(c)
        /\ call[c].step \in {"discover", "inspect"} => ~IsExecute(c)
        /\ call[c].step \in {"inspect", "pause", "readback"}
              => /\ platform[call[c].at] # "absent"
                 /\ call[c].at[1] = call[c].plan
                 /\ IsExecute(c) => call[c].at = <<call[c].plan, c>>

BatchOf(c) ==
    /\ \A p \in Plans : p < call[c].plan => platform[<<p, c>>] = "paused"
    /\ \A p \in Plans : p > call[c].plan => platform[<<p, c>>] = "absent"
    /\ call[c].step \in {"rest", "create"}
          => platform[<<call[c].plan, c>>] = "absent"
    /\ (call[c].step \in AfterLoop /\ call[c].status = "VERIFIED_PAUSED")
          => /\ call[c].plan = NPlans
             /\ platform[<<call[c].plan, c>>] = "paused"

BatchesOK == KindsOK /\ \A c \in Executes : BatchOf(c)

LEMMA InitBatches == Init => BatchesOK
<1> SUFFICES ASSUME Init
             PROVE  BatchesOK
  OBVIOUS
<1>1. \A c \in Calls : call[c] = NotBegun(c)
  BY DEF Init
<1>2. KindsOK
  BY <1>1 DEF KindsOK, At, NotBegun
<1>3. ASSUME NEW c \in Executes
      PROVE  BatchOf(c)
  <2>1. /\ call[c].plan = 1 /\ call[c].step = "rest"
        /\ \A p \in Plans : platform[<<p, c>>] = "absent"
        /\ 1 \in Plans
    BY <1>1, <1>3, EngineAssumption, CampaignsOfCall DEF Init, NotBegun, Plans
  <2> QED  BY <2>1 DEF BatchOf, AfterLoop, Plans
<1> QED  BY <1>2, <1>3 DEF BatchesOK

\* What the platform may do to a campaign that exists, and to one that call d
\* has not created.
LEMMA PlatformKeeps ==
    ASSUME TypeOK, BatchesOK, NEW c \in Calls, Step(c), NEW x \in Campaigns
    PROVE  /\ platform[x] = "paused" => platform'[x] = "paused"
           /\ platform[x] # "absent" => platform'[x] # "absent"
           /\ platform[x] = "absent" =>
                \/ platform'[x] = "absent"
                \/ At(c, "create") /\ x = <<call[c].plan, c>>
<1>1. PlatformStep(c)
  BY StepPlatform
<1>2. CASE platform' = platform
  BY <1>2
<1>3. CASE /\ At(c, "create")
           /\ platform' = [platform EXCEPT ![<<call[c].plan, c>>] = "running"]
  <2>1. platform[<<call[c].plan, c>>] = "absent"
    BY <1>3 DEF BatchesOK, KindsOK, BatchOf, IsExecute, At
  <2> QED  BY <1>3, <2>1 DEF TypeOK
<1>4. CASE /\ At(c, "pause")
           /\ platform' = [platform EXCEPT ![call[c].at] = "paused"]
  <2>1. platform[call[c].at] # "absent"
    BY <1>4 DEF BatchesOK, KindsOK, At
  <2> QED  BY <1>4, <2>1 DEF TypeOK
<1> QED  BY <1>1, <1>2, <1>3, <1>4 DEF PlatformStep

LEMMA StepKinds ==
    ASSUME TypeOK, BatchesOK, NEW c \in Calls, Step(c)
    PROVE  KindsOK'
<1>c. DOMAIN call = Calls /\ call[c].plan \in Plans /\ call[c].at \in Campaigns
  BY DEF TypeOK, CallState
<1>o. ASSUME NEW d \in Calls
      PROVE  call[d].at \in Campaigns
  BY DEF TypeOK, CallState
<1>1. \A d \in Calls : d # c => call'[d] = call[d]
  BY StepMoves, MovesOnly
<1>2. \A x \in Campaigns : platform[x] # "absent" => platform'[x] # "absent"
  BY PlatformKeeps
<1> DEFINE Kind(d) ==
        /\ At(d, "rest") => call[d] = NotBegun(d)
        /\ At(d, "create") => IsExecute(d)
        /\ call[d].step \in {"discover", "inspect"} => ~IsExecute(d)
        /\ call[d].step \in {"inspect", "pause", "readback"}
              => /\ platform[call[d].at] # "absent"
                 /\ call[d].at[1] = call[d].plan
                 /\ IsExecute(d) => call[d].at = <<call[d].plan, d>>
<1>3. ASSUME NEW d \in Calls, d # c
      PROVE  Kind(d)'
  BY <1>1, <1>2, <1>3, <1>o DEF BatchesOK, KindsOK, At, IsExecute, NotBegun, Hoped
<1>4. Kind(c)'
  <2>f. FirstStep(c) \in {"create", "discover"} /\ (FirstStep(c) = "create" <=> IsExecute(c))
    BY DEF FirstStep
  <2>k. Kind(c)
    BY DEF BatchesOK, KindsOK
  <2>1. CASE Begin(c)
    <3>1. call'[c].step \in {FirstStep(c), "raised"}
      BY <2>1, GotoFields, EndFields DEF Begin
    <3> QED  BY <2>f, <3>1 DEF At, IsExecute
  <2>2. CASE PayloadChanged(c)
    <3>1. call'[c].step = "raised"
      BY <2>2, EndFields DEF PayloadChanged
    <3> QED  BY <3>1 DEF At
  <2>3. CASE Create(c)
    <3>1. CASE /\ Takes(c, "pause", <<call[c].plan, c>>)
               /\ platform' = [platform EXCEPT ![<<call[c].plan, c>>] = "running"]
      <4>1. platform'[<<call[c].plan, c>>] # "absent"
        BY <3>1, <1>c, CampaignsOfCall DEF TypeOK
      <4> QED  BY <3>1, <4>1 DEF Takes, At, IsExecute
    <3>2. CASE call'[c].step = "relock"
      BY <3>2 DEF At
    <3> QED  BY <2>3, <3>1, <3>2, CreateEnds, EndFields DEF Stops
  <2>4. CASE Discover(c)
    <3>1. ~IsExecute(c) /\ platform' = platform
      BY <2>4, <2>k DEF Discover, At
    <3>2. ASSUME NEW x \in Campaigns, Listed(call[c].plan) = {x}, Takes(c, "inspect", x)
          PROVE  Kind(c)'
      <4>1. platform[x] # "absent" /\ x[1] = call[c].plan
        BY <3>2 DEF Listed
      <4> QED  BY <3>1, <3>2, <4>1 DEF Takes, At, IsExecute
    <3>3. CASE call'[c].step \in {"relock", FirstStep(c)}
      BY <2>f, <3>3 DEF At, IsExecute
    <3> QED  BY <2>4, <3>2, <3>3, DiscoverEnds, EndFields, AdvanceFields DEF Stops
  <2>5. CASE Inspect(c)
    <3>1. \/ call'[c].step = "pause" /\ call'[c].at = call[c].at /\ call'[c].plan = call[c].plan
          \/ call'[c].step = "relock"
      BY <2>5, GotoFields, EndFields DEF Inspect
    <3> QED  BY <2>5, <2>k, <3>1, <1>2, <1>c DEF Inspect, At, IsExecute
  <2>6. CASE Pause(c)
    <3>1. \/ call'[c].step = "readback" /\ call'[c].at = call[c].at /\ call'[c].plan = call[c].plan
          \/ call'[c].step = "relock"
      BY <2>6, GotoFields, BreakNamingFields DEF Pause
    <3> QED  BY <2>6, <2>k, <3>1, <1>2, <1>c DEF Pause, At, IsExecute
  <2>7. CASE Readback(c)
    <3>1. call'[c].step \in {"relock", FirstStep(c)}
      BY <2>7, BreakNamingFields, AdvanceFields DEF Readback
    <3> QED  BY <2>f, <3>1 DEF At, IsExecute
  <2>8. CASE Relock(c) \/ Verify(c) \/ Record(c) \/ Die(c)
    <3>1. call'[c].step \in {"verify", "returned", "recorded", "dead"}
      BY <2>8, GotoFields, EndFields DEF Relock, Verify, Record, Die
    <3> QED  BY <3>1 DEF At
  <2> QED  BY <2>1, <2>2, <2>3, <2>4, <2>5, <2>6, <2>7, <2>8 DEF Step
<1> QED  BY <1>3, <1>4 DEF KindsOK

LEMMA StepBatch ==
    ASSUME TypeOK, BatchesOK, NEW c \in Calls, Step(c), c \in Executes
    PROVE  BatchOf(c)'
<1>c. /\ call[c].plan \in Plans /\ call[c].at \in Campaigns
      /\ \A p \in Plans : <<p, c>> \in Campaigns
      /\ NPlans \in Plans /\ call[c].plan \in Int
      /\ \A p \in Plans : p \in Int
  BY CampaignsOfCall, EngineAssumption DEF TypeOK, CallState, Plans
<1>k. BatchOf(c) /\ IsExecute(c) /\ FirstStep(c) = "create"
  BY DEF BatchesOK, IsExecute, FirstStep
<1>p. \A p \in Plans :
        /\ platform[<<p, c>>] = "paused" => platform'[<<p, c>>] = "paused"
        /\ platform[<<p, c>>] = "absent" =>
              \/ platform'[<<p, c>>] = "absent"
              \/ At(c, "create") /\ p = call[c].plan
  BY <1>c, PlatformKeeps
\* A step that keeps the plan, and does not end the loop with success.
<1>s. ASSUME call'[c].plan = call[c].plan,
             \/ call'[c].step \notin {"rest", "create"}
             \/ platform' = platform /\ call[c].step = "rest",
             call'[c].step \in AfterLoop => call'[c].status # "VERIFIED_PAUSED"
      PROVE  BatchOf(c)'
  <2>1. \A p \in Plans : p < call[c].plan => platform'[<<p, c>>] = "paused"
    BY <1>k, <1>p DEF BatchOf
  <2>2. \A p \in Plans : p > call[c].plan => platform'[<<p, c>>] = "absent"
    BY <1>k, <1>p, <1>c DEF BatchOf
  <2> QED  BY <1>s, <1>k, <2>1, <2>2 DEF BatchOf
<1>1. CASE Begin(c)
  <2>1. /\ platform' = platform /\ call[c].step = "rest"
        /\ call'[c].plan = call[c].plan
        /\ call'[c].step \in {"create", "raised"}
    BY <1>1, <1>k, GotoFields, EndFields DEF Begin, At
  <2> QED  BY <2>1, <1>s DEF AfterLoop
<1>2. CASE PayloadChanged(c)
  <2>1. call'[c].plan = call[c].plan /\ call'[c].step = "raised"
    BY <1>2, EndFields DEF PayloadChanged
  <2> QED  BY <2>1, <1>s DEF AfterLoop
<1>3. CASE Create(c)
  <2>1. /\ call'[c].plan = call[c].plan
        /\ \/ call'[c].step = "pause"
           \/ call'[c].step = "relock" /\ call'[c].status # "VERIFIED_PAUSED"
    BY <1>3, CreateEnds, EndFields DEF Takes, Stops
  <2> QED  BY <2>1, <1>s DEF AfterLoop
<1>4. CASE Discover(c) \/ Inspect(c)
  BY <1>4, <1>k DEF Discover, Inspect, BatchesOK, KindsOK, At
<1>5. CASE Pause(c)
  <2>1. /\ call'[c].plan = call[c].plan
        /\ \/ call'[c].step = "readback"
           \/ call'[c].step = "relock" /\ call'[c].status # "VERIFIED_PAUSED"
    BY <1>5, GotoFields, BreakNamingFields DEF Pause
  <2> QED  BY <2>1, <1>s DEF AfterLoop
<1>6. CASE Readback(c)
  <2>a. call[c].at = <<call[c].plan, c>> /\ platform' = platform
    BY <1>6, <1>k DEF Readback, BatchesOK, KindsOK, At
  <2>1. CASE /\ call'[c].plan = call[c].plan
             /\ call'[c].step = "relock" /\ call'[c].status # "VERIFIED_PAUSED"
    BY <2>1, <1>s DEF AfterLoop
  <2>2. CASE platform[call[c].at] = "paused" /\ Advance(c, {call[c].at})
    <3>1. CASE call[c].plan < NPlans
      <4>1. call'[c].step = "create" /\ call'[c].plan = call[c].plan + 1
        BY <2>2, <3>1, <1>k, AdvanceFields
      <4>2. call[c].plan + 1 \in Plans
        BY <1>c, <3>1, EngineAssumption DEF Plans
      <4>3. \A p \in Plans : p < call[c].plan + 1 => platform[<<p, c>>] = "paused"
        <5>1. \A p \in Plans : p < call[c].plan + 1 => p < call[c].plan \/ p = call[c].plan
          BY <1>c
        <5> QED  BY <5>1, <1>k, <2>a, <2>2 DEF BatchOf
      <4>4. \A p \in Plans : p >= call[c].plan + 1 => platform[<<p, c>>] = "absent"
        <5>1. \A p \in Plans : p >= call[c].plan + 1 => p > call[c].plan
          BY <1>c
        <5> QED  BY <5>1, <1>k DEF BatchOf
      <4>5. \A p \in Plans : p > call[c].plan + 1 => p >= call[c].plan + 1
        BY <1>c
      <4>6. call[c].plan + 1 >= call[c].plan + 1
        BY <1>c
      <4> QED  BY <4>1, <4>2, <4>3, <4>4, <4>5, <4>6, <2>a DEF BatchOf, AfterLoop
    <3>2. CASE ~(call[c].plan < NPlans)
      <4>1. /\ call'[c].step = "relock" /\ call'[c].plan = call[c].plan
            /\ call[c].plan = NPlans
        BY <2>2, <3>2, <1>c, AdvanceFields DEF Plans
      <4> QED  BY <4>1, <1>k, <2>a, <2>2 DEF BatchOf, AfterLoop
    <3> QED  BY <3>1, <3>2
  <2> QED  BY <1>6, <2>1, <2>2, BreakNamingFields DEF Readback
<1>7. CASE Relock(c) \/ Verify(c) \/ Record(c) \/ Die(c)
  <2>1. /\ platform' = platform
        /\ call'[c].plan = call[c].plan
        /\ call'[c].step \in {"verify", "returned", "recorded", "dead"}
        /\ (call'[c].step \in AfterLoop /\ call'[c].status = "VERIFIED_PAUSED")
             => call[c].step \in AfterLoop /\ call[c].status = "VERIFIED_PAUSED"
    BY <1>7, GotoFields, EndFields DEF Relock, Verify, Record, Die, At, AfterLoop
  <2> QED  BY <2>1, <1>k DEF BatchOf
<1> QED
  BY <1>1, <1>2, <1>3, <1>4, <1>5, <1>6, <1>7 DEF Step

LEMMA NextBatches == TypeOK /\ BatchesOK /\ [Next]_vars => BatchesOK'
<1> SUFFICES ASSUME TypeOK, BatchesOK, [Next]_vars
             PROVE  BatchesOK'
  OBVIOUS
<1>1. CASE UNCHANGED vars \/ Open
  <2>1. call' = call /\ platform' = platform
    BY <1>1 DEF vars, Open
  <2> QED  BY <2>1 DEF BatchesOK, KindsOK, BatchOf, At, IsExecute, NotBegun, Hoped
<1>2. ASSUME NEW c \in Calls, Step(c)
      PROVE  BatchesOK'
  <2>1. KindsOK'
    BY <1>2, StepKinds
  <2>2. ASSUME NEW d \in Executes, d # c
        PROVE  BatchOf(d)'
    <3>1. call'[d] = call[d] /\ call[d].plan \in Plans
      BY <1>2, <2>2, StepMoves, MovesOnly, ExecutesAreCalls DEF TypeOK, CallState
    <3>2. \A p \in Plans :
            /\ platform[<<p, d>>] = "paused" => platform'[<<p, d>>] = "paused"
            /\ platform[<<p, d>>] = "absent" => platform'[<<p, d>>] = "absent"
      BY <1>2, <2>2, PlatformKeeps, CampaignsOfCall, ExecutesAreCalls
    <3> QED  BY <2>2, <3>1, <3>2 DEF BatchesOK, BatchOf
  <2>3. c \in Executes => BatchOf(c)'
    BY <1>2, StepBatch
  <2> QED  BY <2>1, <2>2, <2>3 DEF BatchesOK
<1> QED  BY <1>1, <1>2 DEF Next

LEMMA BatchesAlways == Spec => []BatchesOK
<1>1. Init => BatchesOK
  BY InitBatches
<1>2. TypeOK /\ BatchesOK /\ [Next]_vars => BatchesOK'
  BY NextBatches
<1> QED  BY <1>1, <1>2, EngineTypes, PTL DEF Spec

\* VERIFIED_PAUSED: the whole batch exists and is paused.
THEOREM EngineVerifiedIsPaused == Spec => []VerifiedIsPaused
<1>1. TypeOK /\ BatchesOK => VerifiedIsPaused
  <2> SUFFICES ASSUME TypeOK, BatchesOK, NEW c \in Executes, NEW p \in Plans,
                      call[c].step \in {"returned", "recorded"},
                      call[c].status = "VERIFIED_PAUSED"
               PROVE  platform[<<p, c>>] = "paused"
    BY DEF VerifiedIsPaused
  <2>1. BatchOf(c) /\ call[c].plan = NPlans /\ platform[<<call[c].plan, c>>] = "paused"
    BY DEF BatchesOK, BatchOf, AfterLoop
  <2>2. p < NPlans \/ p = NPlans
    BY EngineAssumption DEF Plans
  <2> QED  BY <2>1, <2>2 DEF BatchOf
<1> QED  BY <1>1, EngineTypes, BatchesAlways, PTL

\* At most one campaign of a batch is not paused, whenever it stops.
THEOREM EngineOneAtRisk == Spec => []OneAtRisk
<1>1. TypeOK /\ BatchesOK => OneAtRisk
  <2> SUFFICES ASSUME TypeOK, BatchesOK, NEW c \in Executes
               PROVE  \A p \in Plans :
                         platform[<<p, c>>] = "running" => p = call[c].plan
    BY DEF OneAtRisk
  <2>1. call[c].plan \in Int /\ \A p \in Plans : p \in Int
    BY ExecutesAreCalls DEF TypeOK, CallState, Plans
  <2>2. BatchOf(c)
    BY DEF BatchesOK
  <2>3. \A p \in Plans : p < call[c].plan \/ p > call[c].plan \/ p = call[c].plan
    BY <2>1
  <2> QED  BY <2>2, <2>3 DEF BatchOf
<1> QED  BY <1>1, EngineTypes, BatchesAlways, PTL

-----------------------------------------------------------------------------
(* The record.                                                             *)

\* Receipts and record are true of the platform.
RecordsOK ==
    /\ \A c \in Calls : \A x \in call[c].verified : platform[x] = "paused"
    /\ RecordedIsPaused

\* A step adds to the receipts of its call at most the campaign at hand, which
\* is paused then.
LEMMA StepVerifies ==
    ASSUME TypeOK, NEW c \in Calls, Step(c)
    PROVE  \A x \in call'[c].verified :
               x \in call[c].verified \/ platform[x] = "paused"
<1>1. CASE Begin(c) \/ PayloadChanged(c) \/ Inspect(c)
  BY <1>1, GotoFields, EndFields DEF Begin, PayloadChanged, Inspect
<1>2. CASE Create(c) \/ Discover(c)
  <2>1. \/ \E s, x : Takes(c, s, x)
        \/ \E statuses : Stops(c, statuses)
        \/ Advance(c, {})
    BY <1>2, CreateEnds, DiscoverEnds
  <2>2. call'[c].verified = call[c].verified
    <3>1. CASE \E s, x : Takes(c, s, x)
      BY <3>1 DEF Takes
    <3>2. CASE \E statuses : Stops(c, statuses)
      BY <3>2, EndFields DEF Stops
    <3>3. CASE Advance(c, {})
      <4>1. call'[c].verified = call[c].verified \cup {}
        BY <3>3, AdvanceFields
      <4> QED  BY <4>1
    <3> QED  BY <2>1, <3>1, <3>2, <3>3
  <2> QED  BY <2>2
<1>3. CASE Pause(c)
  BY <1>3, GotoFields, BreakNamingFields DEF Pause
<1>4. CASE Readback(c)
  <2>1. CASE \E status : BreakNaming(c, status, {})
    BY <2>1, BreakNamingFields
  <2>2. CASE platform[call[c].at] = "paused" /\ BreakNaming(c, "READBACK_MISMATCH", {call[c].at})
    BY <2>2, BreakNamingFields
  <2>3. CASE platform[call[c].at] = "paused" /\ Advance(c, {call[c].at})
    BY <2>3, AdvanceFields
  <2> QED  BY <1>4, <2>1, <2>2, <2>3 DEF Readback
<1>5. CASE Relock(c) \/ Verify(c) \/ Record(c) \/ Die(c)
  BY <1>5, GotoFields, EndFields DEF Relock, Verify, Record, Die
<1> QED  BY <1>1, <1>2, <1>3, <1>4, <1>5 DEF Step

LEMMA InitRecords == Init => RecordsOK
BY DEF Init, RecordsOK, RecordedIsPaused, NotBegun

LEMMA NextRecords ==
    TypeOK /\ BatchesOK /\ RecordsOK /\ [Next]_vars => RecordsOK'
<1> SUFFICES ASSUME TypeOK, BatchesOK, RecordsOK, [Next]_vars
             PROVE  RecordsOK'
  OBVIOUS
<1>1. CASE UNCHANGED vars \/ Open
  <2>1. call' = call /\ platform' = platform /\ object' = object
    BY <1>1 DEF vars, Open
  <2> QED  BY <2>1 DEF RecordsOK, RecordedIsPaused
<1>2. ASSUME NEW c \in Calls, Step(c)
      PROVE  RecordsOK'
  <2>p. \A x \in Campaigns : platform[x] = "paused" => platform'[x] = "paused"
    BY <1>2, PlatformKeeps
  <2>t. \A d \in Calls : call[d].verified \subseteq Campaigns /\ call'[d].verified \subseteq Campaigns
    BY <1>2, StepMoves, MovesOnly DEF TypeOK, CallState
  <2>1. ASSUME NEW d \in Calls, NEW x \in call'[d].verified
        PROVE  platform'[x] = "paused"
    <3>1. x \in Campaigns
      BY <2>t, <2>1
    <3>2. CASE d # c
      BY <1>2, <2>p, <2>1, <3>1, <3>2, StepMoves, MovesOnly DEF RecordsOK
    <3>3. CASE d = c
      BY <1>2, <2>p, <2>1, <3>1, <3>3, StepVerifies DEF RecordsOK
    <3> QED  BY <3>2, <3>3
  <2>2. RecordedIsPaused'
    <3>1. CASE Record(c)
      BY <2>p, <3>1 DEF Record, RecordsOK, RecordedIsPaused
    <3>2. CASE ~Record(c)
      <4>1. object' = object
        BY <1>2, <3>2 DEF Step, Begin, PayloadChanged, Create, Discover, Inspect, Pause,
                          Readback, Relock, Verify, Die
      <4> QED  BY <2>p, <4>1 DEF RecordsOK, RecordedIsPaused
    <3> QED  BY <3>1, <3>2
  <2> QED  BY <2>1, <2>2 DEF RecordsOK
<1> QED  BY <1>1, <1>2 DEF Next

\* What is on record as VERIFIED_PAUSED is paused.
THEOREM EngineRecordedIsPaused == Spec => []RecordedIsPaused
<1>1. Init => RecordsOK
  BY InitRecords
<1>2. TypeOK /\ BatchesOK /\ RecordsOK /\ [Next]_vars => RecordsOK'
  BY NextRecords
<1>3. RecordsOK => RecordedIsPaused
  BY DEF RecordsOK
<1> QED  BY <1>1, <1>2, <1>3, EngineTypes, BatchesAlways, PTL DEF Spec

-----------------------------------------------------------------------------
(* Reconciliation, when no stalled call comes back.                        *)

\* What reconciliation c has settled so far: nothing of the plans before the
\* current one runs, of the current one there is at most the campaign at
\* hand, and it has found nothing unless it says so.
SettledBy(c) ==
    /\ call[c].step \in {"discover", "inspect", "pause", "readback"} =>
          /\ call[c].status = "RECONCILED_NOT_CREATED"
          /\ \A x \in Campaigns : x[1] < call[c].plan => platform[x] # "running"
          /\ call[c].named = {} =>
                \A x \in Campaigns : x[1] < call[c].plan => platform[x] = "absent"
    /\ call[c].step \in {"inspect", "pause", "readback"} =>
          \A x \in Campaigns : (x[1] = call[c].plan /\ x # call[c].at)
                                   => platform[x] = "absent"
    /\ call[c].step \in {"relock", "verify", "returned"} =>
          /\ call[c].status = "RECONCILED_VERIFIED_PAUSED"
                => \A x \in Campaigns : platform[x] # "running"
          /\ call[c].status = "RECONCILED_NOT_CREATED"
                => \A x \in Campaigns : platform[x] = "absent"

\* One call at a time, and no execution ends like a reconciliation.
InTurn ==
    \A c, d \in Calls : (d < c /\ ~At(c, "rest")) => Ended(d)

ExecutesDiffer ==
    \A c \in Executes :
        call[c].status \notin {"RECONCILED_VERIFIED_PAUSED", "RECONCILED_NOT_CREATED"}

SettledOK ==
    /\ InTurn
    /\ ExecutesDiffer
    /\ \A c \in Calls : ~IsExecute(c) => SettledBy(c)

LEMMA InitSettled == Init => SettledOK
<1> SUFFICES ASSUME Init
             PROVE  SettledOK
  OBVIOUS
<1>1. \A c \in Calls : call[c] = NotBegun(c)
  BY DEF Init
<1>2. ASSUME NEW c \in Calls
      PROVE  call[c].step = "rest" /\ call[c].status = Hoped(c)
  <2>1. NotBegun(c).step = "rest" /\ NotBegun(c).status = Hoped(c)
    BY DEF NotBegun
  <2> QED  BY <1>1, <2>1
<1>3. InTurn
  BY <1>2 DEF InTurn, At
<1>4. ExecutesDiffer
  BY <1>2, ExecutesAreCalls DEF ExecutesDiffer, Hoped, IsExecute
<1> QED  BY <1>2, <1>3, <1>4 DEF SettledOK, SettledBy

\* While call c moves, the others rest or have ended.
LEMMA StepAlone ==
    ASSUME TypeOK, SettledOK, ~MayOverlap, NEW c \in Calls, Step(c)
    PROVE  /\ ~Ended(c)
           /\ \A d \in Calls : d < c => Ended(d)
           /\ \A d \in Calls : d > c => At(d, "rest")
<1>1. ~Ended(c)
  BY DEF Step, Begin, PayloadChanged, Create, Discover, Inspect, Pause, Readback,
         Relock, Verify, Record, Die, UnderWay, Ended, At
<1>2. CASE At(c, "rest")
  <2>1. Begin(c)
    BY <1>2 DEF Step, PayloadChanged, Create, Discover, Inspect, Pause, Readback,
         Relock, Verify, Record, Die, UnderWay, At
  <2> QED  BY <1>1, <2>1 DEF Begin, MayBegin, SettledOK, InTurn
<1>3. CASE ~At(c, "rest")
  BY <1>1, <1>3 DEF SettledOK, InTurn
<1> QED  BY <1>1, <1>2, <1>3

LEMMA StepTurn ==
    ASSUME TypeOK, SettledOK, ~MayOverlap, NEW c \in Calls, Step(c)
    PROVE  InTurn'
<1>1. \A d \in Calls : d # c => call'[d] = call[d]
  BY StepMoves, MovesOnly
<1>2. SUFFICES ASSUME NEW e \in Calls, NEW d \in Calls, d < e, ~At(e, "rest")'
               PROVE  Ended(d)'
  BY DEF InTurn
<1>3. d \in Int /\ e \in Int /\ c \in Int
  BY DEF Calls
<1>4. CASE e = c
  <2>1. d # c /\ Ended(d)
    BY <1>2, <1>3, <1>4, StepAlone
  <2> QED  BY <1>1, <2>1 DEF Ended
<1>5. CASE d = c
  <2>1. e # c /\ At(e, "rest")
    BY <1>2, <1>3, <1>5, StepAlone
  <2> QED  BY <1>1, <1>2, <2>1 DEF At
<1>6. CASE e # c /\ d # c
  BY <1>1, <1>2, <1>6 DEF SettledOK, InTurn, At, Ended
<1> QED  BY <1>4, <1>5, <1>6

LEMMA StepDiffers ==
    ASSUME TypeOK, SettledOK, NEW c \in Calls, Step(c)
    PROVE  ExecutesDiffer'
<1> DEFINE Differs(s) == s \notin {"RECONCILED_VERIFIED_PAUSED", "RECONCILED_NOT_CREATED"}
<1>1. \A d \in Calls : d # c => call'[d] = call[d]
  BY StepMoves, MovesOnly
<1>2. ASSUME c \in Executes
      PROVE  Differs(call'[c].status)
  <2>1. Differs(call[c].status) /\ IsExecute(c)
    BY <1>2 DEF SettledOK, ExecutesDiffer, IsExecute
  <2>2. CASE Begin(c) \/ PayloadChanged(c) \/ Inspect(c)
    <3>1. \/ call'[c].status \in {call[c].status, "RAISED"}
          \/ \E status \in LookupFailures : call'[c].status = status
      <4>1. Raise(c) => call'[c].status = "RAISED"
        BY DEF Raise, TypeOK, CallState
      <4> QED  BY <2>2, <4>1, GotoFields, EndFields DEF Begin, PayloadChanged, Inspect
    <3> QED  BY <2>1, <3>1 DEF LookupFailures
  <2>3. CASE Create(c) \/ Discover(c)
    <3>1. \/ \E s, x : Takes(c, s, x)
          \/ Stops(c, {"RECONCILE_REQUIRED", "FAILED_TERMINAL", "RECOVERY_REQUIRED"})
          \/ Stops(c, {"RECONCILE_REQUIRED", "RECOVERY_REQUIRED"})
          \/ Advance(c, {})
      BY <2>3, CreateEnds, DiscoverEnds
    <3>2. call'[c].status \in {call[c].status, "RECONCILE_REQUIRED", "FAILED_TERMINAL",
                              "RECOVERY_REQUIRED"}
      BY <2>1, <3>1, EndFields, AdvanceFields DEF Takes, Stops
    <3> QED  BY <2>1, <3>2
  <2>4. CASE Pause(c) \/ Readback(c)
    <3>1. \/ call'[c].status = call[c].status
          \/ call'[c].status \in {"PAUSE_FAILED_EMERGENCY", "RECOVERY_REQUIRED",
                                  "READBACK_MISMATCH"}
      BY <2>1, <2>4, GotoFields, BreakNamingFields, AdvanceFields DEF Pause, Readback
    <3> QED  BY <2>1, <3>1
  <2>5. CASE Relock(c) \/ Verify(c) \/ Record(c) \/ Die(c)
    <3>1. call'[c].status \in {call[c].status, "RELOCK_FAILED"}
      BY <2>5, GotoFields, EndFields DEF Relock, Verify, Record, Die
    <3> QED  BY <2>1, <3>1
  <2> QED  BY <2>2, <2>3, <2>4, <2>5 DEF Step
<1> QED  BY <1>1, <1>2, ExecutesAreCalls DEF SettledOK, ExecutesDiffer

LEMMA StepSettles ==
    ASSUME TypeOK, BatchesOK, SettledOK, NEW c \in Calls, Step(c), ~IsExecute(c)
    PROVE  SettledBy(c)'
<1>k. /\ SettledBy(c) /\ FirstStep(c) = "discover"
      /\ call[c].step \in {"inspect", "pause", "readback"}
            => platform[call[c].at] # "absent" /\ call[c].at[1] = call[c].plan
  BY DEF SettledOK, FirstStep, BatchesOK, KindsOK
<1>i. /\ call[c].plan \in Int /\ NPlans \in Int /\ call[c].plan <= NPlans
      /\ call[c].at \in Campaigns
      /\ \A x \in Campaigns : x[1] \in Int /\ x[1] >= 1 /\ x[1] <= NPlans
  BY EngineAssumption DEF TypeOK, CallState, Plans, Campaigns
\* The next plan, once the current one is settled.
<1>a. ASSUME NEW found, Advance(c, found), platform' = platform,
             call[c].step \in {"discover", "readback"},
             \A x \in Campaigns : x[1] = call[c].plan => platform[x] # "running",
             found = {} => \A x \in Campaigns : x[1] = call[c].plan => platform[x] = "absent"
      PROVE  SettledBy(c)'
  <2>1. call[c].status = "RECONCILED_NOT_CREATED"
    BY <1>k, <1>a DEF SettledBy
  <2>2. \A x \in Campaigns : x[1] <= call[c].plan => platform'[x] # "running"
    BY <1>k, <1>i, <1>a DEF SettledBy
  <2>3. call'[c].named = {}
          => \A x \in Campaigns : x[1] <= call[c].plan => platform'[x] = "absent"
    <3>1. call'[c].named = call[c].named \cup found
      BY <1>a, AdvanceFields
    <3> QED  BY <1>k, <1>i, <1>a, <3>1 DEF SettledBy
  <2>4. CASE call[c].plan < NPlans
    <3>1. /\ call'[c].step = "discover" /\ call'[c].plan = call[c].plan + 1
          /\ call'[c].status = "RECONCILED_NOT_CREATED"
      BY <1>a, <1>k, <2>1, <2>4, AdvanceFields
    <3>2. \A x \in Campaigns : x[1] < call[c].plan + 1 => x[1] <= call[c].plan
      BY <1>i
    <3> QED  BY <2>2, <2>3, <3>1, <3>2 DEF SettledBy
  <2>5. CASE ~(call[c].plan < NPlans)
    <3>1. /\ call'[c].step = "relock"
          /\ call'[c].status = IF call'[c].named # {} THEN "RECONCILED_VERIFIED_PAUSED"
                                                   ELSE "RECONCILED_NOT_CREATED"
      BY <1>a, <2>1, <2>5, AdvanceFields
    <3>2. \A x \in Campaigns : x[1] <= call[c].plan
      BY <1>i, <2>5
    <3> QED  BY <2>2, <2>3, <3>1, <3>2 DEF SettledBy
  <2> QED  BY <2>4, <2>5
<1>b. ASSUME call'[c].step \in {"raised", "relock", "returned", "recorded", "dead"},
             call'[c].step \in {"relock", "returned"} =>
                call'[c].status \notin {"RECONCILED_VERIFIED_PAUSED", "RECONCILED_NOT_CREATED"}
      PROVE  SettledBy(c)'
  BY <1>b DEF SettledBy
<1>1. CASE Begin(c)
  <2>1. CASE Goto(c, FirstStep(c)) /\ platform' = platform
    <3>1. call[c] = NotBegun(c)
      BY <1>1 DEF Begin, BatchesOK, KindsOK
    <3>2. /\ NotBegun(c).plan = 1 /\ NotBegun(c).named = {}
          /\ NotBegun(c).status = "RECONCILED_NOT_CREATED"
      BY DEF NotBegun, Hoped
    <3>3. /\ call'[c].step = "discover" /\ call'[c].plan = 1 /\ call'[c].named = {}
          /\ call'[c].status = "RECONCILED_NOT_CREATED"
      BY <1>k, <2>1, <3>1, <3>2, GotoFields
    <3> QED  BY <1>i, <3>3 DEF SettledBy
  <2> QED  BY <1>1, <2>1, <1>b, EndFields DEF Begin
<1>2. CASE PayloadChanged(c)
  BY <1>2, <1>b, EndFields DEF PayloadChanged
<1>3. CASE Create(c)
  BY <1>3 DEF Create, BatchesOK, KindsOK, At
<1>4. CASE Discover(c)
  <2>p. platform' = platform /\ call[c].step = "discover"
    BY <1>4 DEF Discover, At
  <2>1. CASE Stops(c, {"RECONCILE_REQUIRED", "RECOVERY_REQUIRED"})
    BY <1>b, <2>1, EndFields DEF Stops
  <2>2. CASE Listed(call[c].plan) = {} /\ Advance(c, {})
    <3>1. \A x \in Campaigns : x[1] = call[c].plan => platform[x] = "absent"
      BY <2>2 DEF Listed
    <3> QED  BY <1>a, <2>p, <2>2, <3>1
  <2>3. ASSUME NEW x \in Campaigns, Listed(call[c].plan) = {x}, Takes(c, "inspect", x)
        PROVE  SettledBy(c)'
    <3>1. \A y \in Campaigns : (y[1] = call[c].plan /\ y # x) => platform[y] = "absent"
      BY <2>3 DEF Listed
    <3> QED  BY <1>k, <2>p, <2>3, <3>1 DEF SettledBy, Takes
  <2> QED  BY <1>4, <2>1, <2>2, <2>3, DiscoverEnds
<1>5. CASE Inspect(c)
  <2>1. CASE Goto(c, "pause")
    BY <1>5, <1>k, <2>1, GotoFields DEF Inspect, SettledBy, At
  <2> QED  BY <1>5, <1>b, <2>1, EndFields DEF Inspect, LookupFailures
<1>6. CASE Pause(c)
  <2>1. CASE Goto(c, "readback")
    <3>1. \A x \in Campaigns : x # call[c].at => platform'[x] = platform[x]
      BY <1>6 DEF Pause, TypeOK
    <3>2. \A x \in Campaigns : x[1] < call[c].plan => x # call[c].at
      BY <1>6, <1>k, <1>i DEF Pause, At
    <3> QED  BY <1>6, <1>k, <2>1, <3>1, <3>2, GotoFields DEF Pause, SettledBy, At
  <2> QED  BY <1>6, <1>b, <2>1, BreakNamingFields DEF Pause
<1>7. CASE Readback(c)
  <2>1. CASE platform[call[c].at] = "paused" /\ Advance(c, {call[c].at})
    <3>1. \A x \in Campaigns : x[1] = call[c].plan => platform[x] # "running"
      BY <1>7, <1>k, <2>1 DEF Readback, SettledBy, At
    <3> QED  BY <1>7, <1>a, <2>1, <3>1 DEF Readback, At
  <2> QED  BY <1>7, <1>b, <2>1, BreakNamingFields DEF Readback
<1>8. CASE Relock(c) \/ Verify(c)
  <2>1. /\ platform' = platform /\ call[c].step \in {"relock", "verify"}
        /\ call'[c].step \in {"verify", "returned"}
        /\ call'[c].status \in {call[c].status, "RELOCK_FAILED"}
    BY <1>8, GotoFields, EndFields DEF Relock, Verify, At
  <2> QED  BY <1>k, <2>1 DEF SettledBy
<1>9. CASE Record(c) \/ Die(c)
  BY <1>9, <1>b, GotoFields DEF Record, Die
<1> QED
  BY <1>1, <1>2, <1>3, <1>4, <1>5, <1>6, <1>7, <1>8, <1>9 DEF Step

LEMMA NextSettled ==
    ASSUME ~MayOverlap
    PROVE  TypeOK /\ BatchesOK /\ SettledOK /\ [Next]_vars => SettledOK'
<1> SUFFICES ASSUME TypeOK, BatchesOK, SettledOK, [Next]_vars
             PROVE  SettledOK'
  OBVIOUS
<1>1. CASE UNCHANGED vars \/ Open
  <2>1. call' = call /\ platform' = platform
    BY <1>1 DEF vars, Open
  <2> QED  BY <2>1 DEF SettledOK, SettledBy, InTurn, ExecutesDiffer, At, Ended, IsExecute
<1>2. ASSUME NEW c \in Calls, Step(c)
      PROVE  SettledOK'
  <2>1. InTurn' /\ ExecutesDiffer'
    BY <1>2, StepTurn, StepDiffers
  <2>2. ASSUME NEW d \in Calls, ~IsExecute(d)
        PROVE  SettledBy(d)'
    <3>1. CASE d = c
      BY <1>2, <2>2, <3>1, StepSettles
    <3>2. CASE d # c
      <4>1. At(d, "rest") \/ Ended(d)
        BY <1>2, <3>2, StepAlone DEF Calls
      <4>2. call'[d] = call[d]
        BY <1>2, <3>2, StepMoves, MovesOnly
      <4> QED  BY <4>1, <4>2 DEF SettledBy, At, Ended
    <3> QED  BY <3>1, <3>2
  <2> QED  BY <2>1, <2>2 DEF SettledOK, IsExecute
<1> QED  BY <1>1, <1>2 DEF Next

\* If no stalled call comes back, a reconciliation that succeeds leaves no
\* campaign running, and one that reports absence is right.
THEOREM EngineReconciledIsSettled ==
    ASSUME ~MayOverlap
    PROVE  Spec => []ReconciledIsSettled
<1>1. Init => SettledOK
  BY InitSettled
<1>2. TypeOK /\ BatchesOK /\ SettledOK /\ [Next]_vars => SettledOK'
  BY NextSettled
<1>3. SettledOK => ReconciledIsSettled
  BY ExecutesAreCalls DEF SettledOK, SettledBy, ExecutesDiffer, ReconciledIsSettled,
                          IsExecute, At
<1> QED  BY <1>1, <1>2, <1>3, EngineTypes, BatchesAlways, PTL DEF Spec

-----------------------------------------------------------------------------
(* The receipts, as the callers read them.                                 *)

Created(c) == \E p \in Plans : platform[<<p, c>>] # "absent"
Missing == \A p \in Plans : Listed(p) = {}
Unique == \E p \in Plans : Cardinality(Listed(p)) = 1

\* An execution hopes until it stops, with a status that what it created
\* allows.
ExecuteReports(c) ==
    /\ call[c].step \in {"create", "pause", "readback"}
          => call[c].status = "VERIFIED_PAUSED"
    /\ call[c].step \in {"relock", "verify", "returned", "raised"}
          => call[c].status \in ExecuteOutcomes(Created(c))

\* A reconciliation has named campaigns only if they were the only ones of
\* their names.
ReconcileReports(c) ==
    /\ call[c].step \in {"discover", "inspect", "pause", "readback"}
          => (call[c].named # {} => Unique)
    /\ call[c].step \in {"relock", "verify", "returned"}
          => call[c].status \in ReconcileOutcomes(Missing, Unique)
    /\ call[c].step = "raised" => call[c].status = "RAISED"

Reports(c) == IF IsExecute(c) THEN ExecuteReports(c) ELSE ReconcileReports(c)

ReportsOK == \A c \in Calls : Reports(c)

LEMMA InitReports == Init => ReportsOK
<1> SUFFICES ASSUME Init, NEW c \in Calls
             PROVE  call[c].step = "rest"
  BY DEF ReportsOK, Reports, ExecuteReports, ReconcileReports
<1> QED  BY DEF Init, NotBegun

\* Raise reports RAISED.
LEMMA RaiseStatus ==
    ASSUME TypeOK, NEW c \in Calls, Raise(c)
    PROVE  call'[c].step = "raised" /\ call'[c].status = "RAISED"
BY DEF TypeOK, CallState, Raise

LEMMA StepExecuteReports ==
    ASSUME TypeOK, BatchesOK, ReportsOK, Changed = {},
           NEW c \in Calls, Step(c), IsExecute(c)
    PROVE  ExecuteReports(c)'
<1>k. /\ ExecuteReports(c) /\ BatchOf(c) /\ FirstStep(c) = "create"
      /\ call[c].plan \in Plans
      /\ \A p \in Plans : <<p, c>> \in Campaigns
  BY CampaignsOfCall DEF ReportsOK, Reports, BatchesOK, IsExecute, FirstStep, TypeOK, CallState
\* The steps after the loop, and those that leave it for a status that any
\* execution may have.
<1>s. ASSUME \/ call'[c].step \in {"recorded", "dead"}
             \/ call'[c].status \in {"RECONCILE_REQUIRED", "FAILED_TERMINAL",
                                    "RELOCK_FAILED", "RECOVERY_REQUIRED"},
             call'[c].step \notin {"create", "pause", "readback"}
      PROVE  ExecuteReports(c)'
  BY <1>s DEF ExecuteReports, ExecuteOutcomes
<1>1. CASE Begin(c)
  <2>0. call[c] = NotBegun(c) /\ call[c].step = "rest" /\ platform' = platform
    BY <1>1 DEF Begin, BatchesOK, KindsOK, At
  <2>1. call[c].status = "VERIFIED_PAUSED" /\ call[c].plan = 1
    BY <2>0 DEF NotBegun, Hoped
  <2>2. CASE Goto(c, "create")
    BY <2>1, <2>2, GotoFields DEF ExecuteReports
  <2>3. CASE Raise(c)
    <3>3. \A p \in Plans : platform[<<p, c>>] = "absent"
      <4>1. \A p \in Plans : p = 1 \/ p > 1
        BY DEF Plans
      <4> QED  BY <1>k, <2>0, <2>1, <4>1 DEF BatchOf
    <3> QED  BY <2>0, <2>3, <3>3, RaiseStatus DEF ExecuteReports, ExecuteOutcomes, Created
  <2> QED  BY <1>1, <1>k, <2>2, <2>3 DEF Begin
<1>2. CASE PayloadChanged(c)
  BY <1>2 DEF PayloadChanged
<1>3. CASE Create(c)
  <2>1. CASE Takes(c, "pause", <<call[c].plan, c>>)
    <3>1. call[c].status = "VERIFIED_PAUSED"
      BY <1>3, <1>k DEF Create, ExecuteReports, At
    <3> QED  BY <2>1, <3>1 DEF Takes, ExecuteReports
  <2>2. CASE Stops(c, {"RECONCILE_REQUIRED", "FAILED_TERMINAL", "RECOVERY_REQUIRED"})
    BY <1>s, <2>2, EndFields DEF Stops
  <2> QED  BY <1>3, <2>1, <2>2, CreateEnds
<1>4. CASE Discover(c) \/ Inspect(c)
  BY <1>4 DEF Discover, Inspect, BatchesOK, KindsOK, At
<1>5. ASSUME call[c].step \in {"pause", "readback"} PROVE Created(c)'
  <2>1. platform[<<call[c].plan, c>>] # "absent"
    BY <1>5 DEF BatchesOK, KindsOK, IsExecute
  <2> QED  BY <1>k, <2>1, PlatformKeeps DEF Created
<1>6. CASE Pause(c)
  <2>1. call[c].step = "pause" /\ call[c].status = "VERIFIED_PAUSED"
    BY <1>6, <1>k DEF Pause, ExecuteReports, At
  <2>2. CASE Goto(c, "readback")
    BY <2>1, <2>2, GotoFields DEF ExecuteReports
  <2>3. CASE BreakNaming(c, "PAUSE_FAILED_EMERGENCY", {})
    BY <1>5, <2>1, <2>3, BreakNamingFields DEF ExecuteReports, ExecuteOutcomes
  <2> QED  BY <1>6, <2>2, <2>3 DEF Pause
<1>7. CASE Readback(c)
  <2>1. call[c].step = "readback" /\ call[c].status = "VERIFIED_PAUSED"
    BY <1>7, <1>k DEF Readback, ExecuteReports, At
  <2>2. CASE BreakNaming(c, "RECOVERY_REQUIRED", {})
    BY <1>s, <2>2, BreakNamingFields
  <2>3. CASE BreakNaming(c, "READBACK_MISMATCH", {})
             \/ BreakNaming(c, "READBACK_MISMATCH", {call[c].at})
    BY <1>5, <2>1, <2>3, BreakNamingFields DEF ExecuteReports, ExecuteOutcomes
  <2>4. CASE Advance(c, {call[c].at})
    <3>1. call'[c].status = "VERIFIED_PAUSED" /\ call'[c].step \in {"create", "relock"}
      BY <1>k, <2>1, <2>4, AdvanceFields
    <3> QED  BY <1>5, <2>1, <3>1 DEF ExecuteReports, ExecuteOutcomes
  <2> QED  BY <1>7, <2>2, <2>3, <2>4 DEF Readback
<1>8. CASE Relock(c) \/ Verify(c)
  <2>1. /\ platform' = platform /\ call[c].step \in {"relock", "verify"}
        /\ call'[c].step \in {"verify", "returned"}
        /\ call'[c].status \in {call[c].status, "RELOCK_FAILED"}
    BY <1>8, GotoFields, EndFields DEF Relock, Verify, At
  <2> QED  BY <1>k, <1>s, <2>1 DEF ExecuteReports, Created
<1>9. CASE Record(c) \/ Die(c)
  BY <1>9, <1>s, GotoFields DEF Record, Die
<1> QED
  BY <1>1, <1>2, <1>3, <1>4, <1>6, <1>7, <1>8, <1>9 DEF Step

\* A reconciliation creates nothing.
LEMMA ReconcileLists ==
    ASSUME TypeOK, BatchesOK, NEW c \in Calls, Step(c), ~IsExecute(c)
    PROVE  (Missing' <=> Missing) /\ (Unique' <=> Unique)
<1>1. \A x \in Campaigns : platform'[x] # "absent" <=> platform[x] # "absent"
  BY PlatformKeeps DEF BatchesOK, KindsOK
<1>2. \A p \in Plans : Listed(p)' = Listed(p)
  BY <1>1 DEF Listed
<1> QED  BY <1>2 DEF Missing, Unique

LEMMA StepReconcileReports ==
    ASSUME TypeOK, BatchesOK, SettledOK, ReportsOK,
           NEW c \in Calls, Step(c), ~IsExecute(c)
    PROVE  ReconcileReports(c)'
<1>k. /\ ReconcileReports(c) /\ SettledBy(c) /\ FirstStep(c) = "discover"
      /\ call[c].plan \in Plans /\ call[c].at \in Campaigns
      /\ (Missing' <=> Missing) /\ (Unique' <=> Unique)
  BY ReconcileLists DEF ReportsOK, Reports, SettledOK, FirstStep, TypeOK, CallState
\* The campaign at hand is the only one of its name.
<1>u. ASSUME call[c].step \in {"inspect", "pause", "readback"} PROVE Unique
  <2>1. Listed(call[c].plan) = {call[c].at}
    BY <1>k, <1>u DEF Listed, SettledBy, BatchesOK, KindsOK
  <2>2. Cardinality({call[c].at}) = 1
    BY FS_Singleton
  <2> QED  BY <1>k, <2>1, <2>2 DEF Unique
<1>s. ASSUME \/ call'[c].step \in {"recorded", "dead"}
             \/ call'[c].step = "raised" /\ call'[c].status = "RAISED"
             \/ /\ call'[c].step \in {"relock", "returned"}
                /\ call'[c].status \in {"RECONCILE_REQUIRED", "RELOCK_FAILED",
                                        "RECOVERY_REQUIRED"}
      PROVE  ReconcileReports(c)'
  BY <1>s DEF ReconcileReports, ReconcileOutcomes
\* The next plan, or the end of the loop.
<1>a. ASSUME NEW found, Advance(c, found), call[c].step \in {"discover", "readback"},
             found # {} => Unique
      PROVE  ReconcileReports(c)'
  <2>1. call'[c].named # {} => Unique
    BY <1>a, <1>k, AdvanceFields DEF ReconcileReports
  <2>2. call'[c].step \in {"discover", "relock"}
    BY <1>a, <1>k, AdvanceFields
  <2>3. ASSUME call'[c].step = "relock"
        PROVE  call'[c].status \in ReconcileOutcomes(Missing, Unique)'
    <3>1. call'[c].status = IF call'[c].named # {} THEN "RECONCILED_VERIFIED_PAUSED"
                                                   ELSE "RECONCILED_NOT_CREATED"
      BY <1>a, <1>k, <2>3, AdvanceFields DEF SettledBy
    <3>2. CASE call'[c].named # {}
      BY <1>k, <2>1, <3>1, <3>2 DEF ReconcileOutcomes
    <3>3. CASE call'[c].named = {}
      <4>1. SettledBy(c)'
        BY StepSettles
      <4>2. \A x \in Campaigns : platform'[x] = "absent"
        BY <2>3, <3>1, <3>3, <4>1 DEF SettledBy
      <4>3. Missing'
        BY <4>2 DEF Missing, Listed
      <4> QED  BY <3>1, <3>3, <4>3 DEF ReconcileOutcomes
    <3> QED  BY <3>2, <3>3
  <2> QED  BY <1>k, <2>1, <2>2, <2>3 DEF ReconcileReports
\* The loop goes on with the same plan.
<1>g. ASSUME call[c].step \in {"discover", "inspect", "pause"},
             call'[c].named = call[c].named,
             call'[c].step \in {"inspect", "pause", "readback"}
      PROVE  ReconcileReports(c)'
  BY <1>g, <1>k DEF ReconcileReports
<1>1. CASE Begin(c)
  <2>1. CASE Goto(c, "discover")
    <3>1. call[c].named = {}
      <4>1. call[c] = NotBegun(c)
        BY <1>1 DEF Begin, BatchesOK, KindsOK
      <4> QED  BY <4>1 DEF NotBegun
    <3> QED  BY <2>1, <3>1, GotoFields DEF ReconcileReports
  <2>2. CASE Raise(c)
    BY <1>s, <2>2, RaiseStatus
  <2> QED  BY <1>1, <1>k, <2>1, <2>2 DEF Begin
<1>2. CASE PayloadChanged(c)
  BY <1>2, <1>s, RaiseStatus DEF PayloadChanged
<1>3. CASE Create(c)
  BY <1>3 DEF Create, BatchesOK, KindsOK, At
<1>4. CASE Discover(c)
  <2>p. call[c].step = "discover"
    BY <1>4 DEF Discover, At
  <2>1. CASE Stops(c, {"RECONCILE_REQUIRED", "RECOVERY_REQUIRED"})
    BY <1>s, <2>1, EndFields DEF Stops
  <2>2. CASE Advance(c, {})
    BY <1>a, <2>p, <2>2
  <2>3. ASSUME NEW x \in Campaigns, Takes(c, "inspect", x)
        PROVE  ReconcileReports(c)'
    BY <1>g, <2>p, <2>3 DEF Takes
  <2> QED  BY <1>4, <2>1, <2>2, <2>3, DiscoverEnds
<1>5. CASE Inspect(c)
  <2>1. CASE Goto(c, "pause")
    BY <1>5, <1>g, <2>1, GotoFields DEF Inspect, At
  <2>2. ASSUME NEW status \in LookupFailures, Break(c, status) PROVE ReconcileReports(c)'
    BY <1>s, <2>2, EndFields DEF LookupFailures
  <2> QED  BY <1>5, <2>1, <2>2 DEF Inspect
<1>6. CASE Pause(c)
  <2>1. CASE Goto(c, "readback")
    BY <1>6, <1>g, <2>1, GotoFields DEF Pause, At
  <2>2. CASE BreakNaming(c, "PAUSE_FAILED_EMERGENCY", {})
    BY <1>6, <1>k, <1>u, <2>2, BreakNamingFields
       DEF Pause, At, ReconcileReports, ReconcileOutcomes
  <2> QED  BY <1>6, <2>1, <2>2 DEF Pause
<1>7. CASE Readback(c)
  <2>p. call[c].step = "readback" /\ Unique
    BY <1>7, <1>u DEF Readback, At
  <2>1. CASE BreakNaming(c, "RECOVERY_REQUIRED", {})
    BY <1>s, <2>1, BreakNamingFields
  <2>2. CASE BreakNaming(c, "READBACK_MISMATCH", {})
             \/ BreakNaming(c, "READBACK_MISMATCH", {call[c].at})
    BY <1>k, <2>p, <2>2, BreakNamingFields DEF ReconcileReports, ReconcileOutcomes
  <2>3. CASE Advance(c, {call[c].at})
    BY <1>a, <2>p, <2>3
  <2> QED  BY <1>7, <2>1, <2>2, <2>3 DEF Readback
<1>8. CASE Relock(c) \/ Verify(c)
  <2>1. /\ call[c].step \in {"relock", "verify"}
        /\ call'[c].step \in {"verify", "returned"}
        /\ call'[c].status \in {call[c].status, "RELOCK_FAILED"}
    BY <1>8, GotoFields, EndFields DEF Relock, Verify, At
  <2> QED  BY <1>k, <2>1 DEF ReconcileReports, ReconcileOutcomes
<1>9. CASE Record(c) \/ Die(c)
  BY <1>9, <1>s, GotoFields DEF Record, Die
<1> QED
  BY <1>1, <1>2, <1>3, <1>4, <1>5, <1>6, <1>7, <1>8, <1>9 DEF Step

LEMMA NextReports ==
    ASSUME Changed = {}, ~MayOverlap
    PROVE  TypeOK /\ BatchesOK /\ SettledOK /\ ReportsOK /\ [Next]_vars => ReportsOK'
<1> SUFFICES ASSUME TypeOK, BatchesOK, SettledOK, ReportsOK, [Next]_vars
             PROVE  ReportsOK'
  OBVIOUS
<1>1. CASE UNCHANGED vars \/ Open
  <2>1. call' = call /\ platform' = platform
    BY <1>1 DEF vars, Open
  <2> QED  BY <2>1 DEF ReportsOK, Reports, ExecuteReports, ReconcileReports, Created,
                       Missing, Unique, Listed, IsExecute
<1>2. ASSUME NEW c \in Calls, Step(c), NEW d \in Calls
      PROVE  Reports(d)'
  <2>1. CASE d = c
    BY <1>2, <2>1, StepExecuteReports, StepReconcileReports DEF Reports, IsExecute
  <2>2. CASE d # c /\ IsExecute(d)
    <3>1. call'[d] = call[d]
      BY <1>2, <2>2, StepMoves, MovesOnly
    <3>2. \A p \in Plans : platform'[<<p, d>>] # "absent" <=> platform[<<p, d>>] # "absent"
      BY <1>2, <2>2, PlatformKeeps, CampaignsOfCall
    <3>3. Created(d)' <=> Created(d)
      BY <3>2 DEF Created
    <3> QED  BY <2>2, <3>1, <3>3 DEF ReportsOK, Reports, ExecuteReports, IsExecute,
                                     ExecuteOutcomes
  <2>3. CASE d # c /\ ~IsExecute(d)
    <3>1. At(d, "rest") \/ Ended(d)
      BY <1>2, <2>3, StepAlone DEF Calls
    <3>2. call'[d] = call[d]
      BY <1>2, <2>3, StepMoves, MovesOnly
    <3>3. ReconcileReports(d)
      BY <2>3 DEF ReportsOK, Reports
    <3> QED  BY <2>3, <3>1, <3>2, <3>3 DEF Reports, ReconcileReports, IsExecute, At, Ended
  <2> QED  BY <2>1, <2>2, <2>3
<1> QED  BY <1>1, <1>2 DEF Next, ReportsOK

\* Where payloads keep their hashes and no stalled call comes back, the engine
\* returns what TestWrite assumes of it: an execution that says the campaigns
\* exist has created one, one that raises has created none, and a
\* reconciliation's success stands for exactly one campaign of the name.
THEOREM EngineOutcomesAsAssumed ==
    ASSUME Changed = {}, ~MayOverlap
    PROVE  Spec => []OutcomesAsAssumed
<1>1. Init => SettledOK /\ ReportsOK
  BY InitSettled, InitReports
<1>2. /\ TypeOK /\ BatchesOK /\ SettledOK /\ [Next]_vars => SettledOK'
      /\ TypeOK /\ BatchesOK /\ SettledOK /\ ReportsOK /\ [Next]_vars => ReportsOK'
  BY NextSettled, NextReports
<1>3. ReportsOK => OutcomesAsAssumed
  <2> SUFFICES ASSUME ReportsOK, NEW c \in Calls, call[c].step \in {"returned", "raised"}
               PROVE  call[c].status \in IF IsExecute(c)
                                         THEN ExecuteOutcomes(Created(c))
                                         ELSE ReconcileOutcomes(Missing, Unique)
    BY DEF OutcomesAsAssumed, Created, Missing, Unique
  <2>1. CASE IsExecute(c)
    BY <2>1 DEF ReportsOK, Reports, ExecuteReports
  <2>2. CASE ~IsExecute(c)
    <3>1. "RAISED" \in ReconcileOutcomes(Missing, Unique)
      BY DEF ReconcileOutcomes
    <3> QED  BY <2>2, <3>1 DEF ReportsOK, Reports, ReconcileReports
  <2> QED  BY <2>1, <2>2
<1> QED  BY <1>1, <1>2, <1>3, EngineTypes, BatchesAlways, PTL DEF Spec

=============================================================================
