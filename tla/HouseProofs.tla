----------------------------- MODULE HouseProofs -----------------------------
(***************************************************************************)
(* What the Dog House guarantees, for every value of the constants: with   *)
(* failing writes, crashes and restarts, under any mood and any weights;   *)
(* the distance of two stashes is about one session, without a restart,    *)
(* and that hidden rows stay hidden about weights and limits under which   *)
(* every read comes to the house.                                          *)
(*                                                                         *)
(* Only six kinds of steps touch the house (HouseStep).  HouseInv is       *)
(* inductive over them, and each of them is a step of DogHouse, or none.   *)
(***************************************************************************)
EXTENDS SessionProofs, FiniteSetTheorems, FunctionTheorems, SequenceTheorems

\* A read without a treasure in the house comes to the choice of a fault.
Served ==
  /\ op \in Operation
  /\ ActiveFor(op.template) = {}
  /\ HouseConsumeRelease(op.template)
  /\ UNCHANGED <<treasures, occupied>>

\* A read loses one of its rows to the house.
Stashed(row) ==
  /\ op \in Operation
  /\ Weight[mood]["STASH"] # "never"
  /\ op.template \notin released
  /\ ActiveFor(op.template) = {}
  /\ HouseConsumeRelease(op.template)
  /\ HouseAdd(NewTreasure(row))

Emptied ==
  /\ MayCrash
  /\ treasures' = {} /\ occupied' = {} /\ released' = {}

HouseStep ==
  \/ UNCHANGED houseVars
  \/ \E t \in treasures : HouseReturn(t)
  \/ HouseReturnAll
  \/ Served
  \/ \E row \in 0 .. (MaxRows - 1) : Stashed(row)
  \/ Emptied

HouseInv ==
  /\ IsFiniteSet(treasures)
  /\ OneTreasurePerTemplate
  /\ ReleasedTemplatesAreBare
  /\ LocationsMatchTreasures

-----------------------------------------------------------------------------
\* What is selected has a weight.
LEMMA SelectedIsEffective ==
  ASSUME NEW priority, NEW eligible, NEW m, NEW f \in Selections(priority, eligible, m)
  PROVE  f = "none" \/ (f \in Members(priority) /\ Weight[m][f] # "never")
BY DEF Selections, Members

\* STASH is chosen for a template that was not released only, and in a mood
\* that does not rule it out.
LEMMA StashNeedsNoRelease ==
  Choose("STASH") => op.template \notin released /\ Weight[mood]["STASH"] # "never"
<1> SUFFICES ASSUME Choose("STASH")
             PROVE  op.template \notin released /\ Weight[mood]["STASH"] # "never"
  OBVIOUS
<1>1. PICK chewable \in BOOLEAN :
        "STASH" \in Selections(OnResultPriority, Candidates(chewable), mood)
  BY DEF Choose
<1>2. "STASH" \in Candidates(chewable)
  BY <1>1, SelectionsAreEligible
<1> QED
  BY <1>1, <1>2, SelectedIsEffective DEF Candidates

LEMMA NextIsHouseStep == TypeOK /\ [Next]_vars => HouseStep
<1> SUFFICES ASSUME TypeOK, [Next]_vars PROVE HouseStep
  OBVIOUS
<1> USE DEF HouseStep
<1>1. CASE Begin
  BY <1>1 DEF Begin, ReturnDue, AdvanceMood, NoMood, Holding
<1>2. CASE Dispatch \/ Before \/ Backend
  BY <1>2 DEF Dispatch, Passthrough, BeginDecision, Before, RaiseBefore, Delay, PassBefore,
     Backend, BackendRaises, ExceedCap, BackendReturns
<1>3. CASE OnResult
  <2>1. pc = "result"
    BY <1>3 DEF OnResult, SkipOnResult, ExceedInterventionLimit, LoseResponse, HideTreasures,
       PastNoDrop, Choose, Stash, StashRefused, Reshape, Replay, DeliverWhole
  <2>2. op \in Operation
    BY <2>1 DEF TypeOK, CallTypeOK
  <2>3. CASE SkipOnResult \/ ExceedInterventionLimit \/ LoseResponse \/ HideTreasures
    BY <2>3 DEF SkipOnResult, ExceedInterventionLimit, LoseResponse, HideTreasures
  <2>4. ASSUME NEW row \in 0 .. (MaxRows - 1), Stash(row) PROVE Stashed(row)
    BY <2>2, <2>4, StashNeedsNoRelease DEF Stash, Stashed, Choose
  <2>5. ASSUME NEW row, StashRefused(row) PROVE Served
    BY <2>2, <2>5 DEF StashRefused, Served, Choose
  <2>6. ASSUME NEW fault, Reshape(fault) PROVE Served
    BY <2>2, <2>6 DEF Reshape, Served, Choose
  <2>7. ASSUME NEW entry, Replay(entry) PROVE Served
    BY <2>2, <2>7 DEF Replay, Served, Choose
  <2>8. ASSUME DeliverWhole PROVE Served
    BY <2>2, <2>8 DEF DeliverWhole, Served, Choose
  <2> QED
    BY <1>3, <2>3, <2>4, <2>5, <2>6, <2>7, <2>8 DEF OnResult
<1>4. ASSUME NEW t \in returning, LogReturned(t) PROVE HouseStep
  BY <1>4 DEF LogReturned
<1>5. CASE Client
  BY <1>5 DEF Client, Call, ReturnTreasure, ReturnAll, Holding, houseVars
<1>6. CASE Crash
  BY <1>6 DEF Crash, Emptied
<1>7. CASE UNCHANGED vars
  BY <1>7 DEF vars, houseVars
<1> QED
  BY <1>1, <1>2, <1>3, <1>4, <1>5, <1>6, <1>7 DEF Next, Progress

-----------------------------------------------------------------------------
(* The inductive invariant *)

LEMMA HouseInvInit == Init => HouseInv
BY FS_EmptySet DEF Init, HouseInit, HouseInv, OneTreasurePerTemplate,
   ReleasedTemplatesAreBare, LocationsMatchTreasures

LEMMA ReturnKeepsHouseInv ==
  ASSUME HouseInv, NEW t \in treasures, HouseReturn(t)
  PROVE  HouseInv'
<1>1. IsFiniteSet(treasures')
  BY FS_RemoveElement DEF HouseInv, HouseReturn
<1>2. OneTreasurePerTemplate' /\ ReleasedTemplatesAreBare'
  BY DEF HouseInv, HouseReturn, OneTreasurePerTemplate, ReleasedTemplatesAreBare
<1>3. LocationsMatchTreasures'
  BY DEF HouseInv, HouseReturn, OneTreasurePerTemplate, LocationsMatchTreasures, Location
<1> QED
  BY <1>1, <1>2, <1>3 DEF HouseInv

LEMMA StashKeepsHouseInv ==
  ASSUME HouseInv, NEW row, Stashed(row)
  PROVE  HouseInv'
<1> DEFINE t == NewTreasure(row)
<1>1. treasures' = treasures \cup {t} /\ occupied' = occupied \cup {Location(t)}
  BY DEF Stashed, HouseAdd
<1>2. t.template = op.template
  BY DEF NewTreasure
<1>3. \A u \in treasures : u.template # op.template
  BY DEF Stashed, ActiveFor
<1>4. IsFiniteSet(treasures')
  BY <1>1, FS_AddElement DEF HouseInv
<1>5. OneTreasurePerTemplate'
  BY <1>1, <1>2, <1>3 DEF HouseInv, OneTreasurePerTemplate
<1>6. ReleasedTemplatesAreBare'
  BY <1>1, <1>2 DEF HouseInv, ReleasedTemplatesAreBare, Stashed, HouseConsumeRelease
<1>7. LocationsMatchTreasures'
  BY <1>1 DEF HouseInv, LocationsMatchTreasures
<1> QED
  BY <1>4, <1>5, <1>6, <1>7 DEF HouseInv

LEMMA HouseInvStep == HouseInv /\ HouseStep => HouseInv'
<1> SUFFICES ASSUME HouseInv, HouseStep PROVE HouseInv'
  OBVIOUS
<1> USE DEF HouseInv, OneTreasurePerTemplate, ReleasedTemplatesAreBare, LocationsMatchTreasures
<1>1. CASE UNCHANGED houseVars
  BY <1>1 DEF houseVars
<1>2. ASSUME NEW t \in treasures, HouseReturn(t) PROVE HouseInv'
  BY <1>2, ReturnKeepsHouseInv
<1>3. CASE HouseReturnAll \/ Emptied
  BY <1>3, FS_EmptySet DEF HouseReturnAll, Emptied
<1>4. CASE Served
  BY <1>4 DEF Served, HouseConsumeRelease
<1>5. ASSUME NEW row, Stashed(row) PROVE HouseInv'
  BY <1>5, StashKeepsHouseInv
<1> QED
  BY <1>1, <1>2, <1>3, <1>4, <1>5 DEF HouseStep

LEMMA HouseInvariant == Spec => []HouseInv
BY TypeCorrect, HouseInvInit, NextIsHouseStep, HouseInvStep, PTL DEF Spec

-----------------------------------------------------------------------------
(* Safety of the house *)

\* No interleaving of calls, returns, failures and restarts puts two treasures
\* of one template into the house (faults.py, on_result and _stash).
THEOREM OneTreasureAlways == Spec => []OneTreasurePerTemplate
BY HouseInvariant, PTL DEF HouseInv

\* A template is marked as released only while it has no treasure (house.py,
\* return_treasure, return_all and consume_release).
THEOREM ReleasedAlwaysBare == Spec => []ReleasedTemplatesAreBare
BY HouseInvariant, PTL DEF HouseInv

\* The index of locations never drifts from the treasures, by whichever way
\* they come and go (house.py, add, return_treasure and return_all).
THEOREM LocationsAlwaysMatch == Spec => []LocationsMatchTreasures
BY HouseInvariant, PTL DEF HouseInv

-----------------------------------------------------------------------------
(* The session implements the Dog House *)

Hidden == {Location(t) : t \in treasures}

\* There are no more hidden rows than treasures.
LEMMA HiddenIsSmall ==
  ASSUME IsFiniteSet(treasures)
  PROVE  /\ Cardinality(Hidden) \in Nat
         /\ Cardinality(treasures) \in Nat
         /\ Cardinality(Hidden) <= Cardinality(treasures)
<1> DEFINE f == [h \in Hidden |-> CHOOSE t \in treasures : Location(t) = h]
<1>1. \A h \in Hidden : f[h] \in treasures /\ Location(f[h]) = h
  BY DEF Hidden
<1>2. f \in [Hidden -> treasures]
  BY <1>1
<1>3. \A g, h \in Hidden : f[g] = f[h] => g = h
  BY <1>1
<1>4. f \in Injection(Hidden, treasures)
  <2> HIDE DEF f
  <2> QED
    BY <1>2, <1>3, Fun_IsInj
<1> QED
  BY <1>4, FS_Injection, FS_CardinalityType

\* DogHouse counts as the session does.
LEMMA SameCardinality == \A S : Promise!Cardinality(S) = Cardinality(S)
BY Zenon DEF Promise!Cardinality, Cardinality, Promise!IsFiniteSet, IsFiniteSet

LEMMA InitKeepsPromise == Init => Promise!Init
BY DEF Init, HouseInit, Promise!Init

\* A treasure that goes home is brought back.
LEMMA ReturnKeepsPromise ==
  ASSUME HouseInv, NEW t \in treasures, HouseReturn(t)
  PROVE  Promise!Next
<1> DEFINE rows == {Location(t)}
<1>1. rows \in SUBSET Hidden
  BY DEF Hidden
<1>2. Hidden' = Hidden \ rows
  BY DEF Hidden, HouseReturn, HouseInv, OneTreasurePerTemplate, Location
<1>3. released' = released \cup {h[1] : h \in rows}
  BY DEF HouseReturn, Location
<1>4. Promise!Bring(rows)
  BY <1>2, <1>3 DEF Promise!Bring, Hidden
<1> QED
  BY <1>1, <1>4 DEF Promise!Next, Hidden

LEMMA ReturnAllKeepsPromise ==
  ASSUME HouseReturnAll
  PROVE  Promise!Next
<1>1. Hidden' = Hidden \ Hidden
  BY DEF Hidden, HouseReturnAll
<1>2. released' = released \cup {h[1] : h \in Hidden}
  <2>1. {h[1] : h \in Hidden} = {t.template : t \in treasures}
    <3>1. \A t : Location(t)[1] = t.template
      BY DEF Location
    <3> QED
      BY <3>1, Zenon DEF Hidden
  <2> QED
    BY <2>1 DEF HouseReturnAll
<1>3. Promise!Bring(Hidden)
  BY <1>1, <1>2 DEF Promise!Bring, Hidden
<1> QED
  BY <1>3 DEF Promise!Next, Hidden

\* A read that tries no fault, or another one than STASH, uses a release up.
LEMMA ServedKeepsPromise ==
  ASSUME Served
  PROVE  Promise!Next \/ UNCHANGED <<Hidden, released>>
<1>1. UNCHANGED Hidden /\ op.template \in Templates
  BY DEF Served, Hidden, Operation
<1>2. released' = released \ {op.template}
  BY DEF Served, HouseConsumeRelease
<1>3. CASE op.template \in released
  BY <1>1, <1>2, <1>3 DEF Promise!Next, Promise!Spare, Hidden
<1>4. CASE op.template \notin released
  BY <1>1, <1>2, <1>4
<1> QED
  BY <1>3, <1>4

\* A row that is stashed is hidden, in a house that has room for it.
LEMMA StashKeepsPromise ==
  ASSUME HouseInv, NEW row \in 0 .. (MaxRows - 1), Stashed(row)
  PROVE  Promise!Next
<1> DEFINE t == NewTreasure(row)
<1>1. treasures' = treasures \cup {t} /\ Cardinality(treasures) < HouseLimit
  BY DEF Stashed, HouseAdd, HouseAccepts
<1>2. Location(t) = <<op.template, row>> /\ op.template \in Templates
  BY DEF NewTreasure, Location, Stashed, Operation
<1>3. \A h \in Hidden : h[1] # op.template
  BY DEF Hidden, Location, Stashed, ActiveFor
<1>4. op.template \notin released /\ UNCHANGED released
  BY DEF Stashed, HouseConsumeRelease
<1>5. Hidden' = Hidden \cup {<<op.template, row>>}
  BY <1>1, <1>2 DEF Hidden
<1>6. Cardinality(Hidden) < HouseLimit
  <2>1. IsFiniteSet(treasures)
    BY DEF HouseInv
  <2> QED
    BY <1>1, <2>1, HiddenIsSmall, HouseLimitAssumption
<1>7. Promise!Hide(op.template, row)
  BY <1>3, <1>4, <1>5, <1>6, SameCardinality DEF Promise!Hide, Hidden
<1> QED
  BY <1>2, <1>7 DEF Promise!Next

LEMMA StepKeepsPromise ==
  HouseInv /\ HouseStep => [Promise!Next]_<<Hidden, released>>
<1> SUFFICES ASSUME HouseInv, HouseStep PROVE [Promise!Next]_<<Hidden, released>>
  OBVIOUS
<1>1. CASE UNCHANGED houseVars
  BY <1>1 DEF houseVars, Hidden
<1>2. CASE Emptied
  BY <1>2 DEF Emptied, Promise!Next, Promise!Forget
<1> QED
  BY <1>1, <1>2, ReturnKeepsPromise, ReturnAllKeepsPromise, ServedKeepsPromise, StashKeepsPromise
     DEF HouseStep

\* Whatever happens inside, the client sees the Dog House of DogHouse: a row
\* stays hidden until it is brought back, a template has one hidden row, and
\* the first read after a return hides none (core/house.py with faults.py,
\* on_result; connection.py, DollyNamespace and _begin_operation).
THEOREM SessionKeepsDogHousePromise == Spec => KeepsDogHousePromise
<1>1. HouseInv /\ TypeOK /\ [Next]_vars => [Promise!Next]_<<Hidden, released>>
  BY NextIsHouseStep, StepKeepsPromise
<1> QED
  BY <1>1, InitKeepsPromise, HouseInvariant, TypeCorrect, PTL
     DEF Spec, KeepsDogHousePromise, Promise!Spec, Hidden

-----------------------------------------------------------------------------
(* The distance of two stashes *)

Stashes == {i \in TreasureEvents : log[i].name = "STASH"}

InPhase == pc \in {"before", "backend", "result"}

\* A template that lost a row has it in the house, or was released, or has
\* used its release up: then the operation after the stash is over.
SinceStash(e) ==
  LET template == e.template
  IN  /\ e.occurrence \in Nat
      /\ e.occurrence <= occurrence[template]
      /\ InPhase /\ op.template = template => e.occurrence < op.occurrence
      /\ \/ ActiveFor(template) # {}
         \/ template \in released
         \/ /\ e.occurrence + 1 <= occurrence[template]
            /\ ~(InPhase /\ op.template = template /\ op.occurrence = e.occurrence + 1)

SpacingInv ==
  /\ InPhase => op.occurrence = occurrence[op.template]
  /\ \A i \in Stashes : SinceStash(log[i])
  /\ StashesApart

\* The log gains no stash.
NoStashLogged ==
  \/ UNCHANGED log
  \/ \E e : e.name # "STASH" /\ log' = Append(log, e)

GoesOn ==
  /\ UNCHANGED <<treasures, released, occurrence>>
  /\ NoStashLogged
  /\ InPhase' => (InPhase /\ op'.template = op.template /\ op'.occurrence = op.occurrence)

Numbers ==
  /\ UNCHANGED <<treasures, released, log>>
  /\ op \in Operation
  /\ occurrence' = [occurrence EXCEPT ![op.template] = @ + 1]
  /\ op'.template = op.template /\ op'.occurrence = occurrence[op.template] + 1

Frees ==
  /\ UNCHANGED occurrence
  /\ NoStashLogged
  /\ ~InPhase'
  /\ released \subseteq released'
  /\ \A t \in treasures : t \in treasures' \/ t.template \in released'

ServesOne ==
  /\ UNCHANGED occurrence
  /\ NoStashLogged
  /\ InPhase /\ ~InPhase'
  /\ treasures' = treasures /\ released' = released \ {op.template}

StashesOne(t) ==
  /\ UNCHANGED occurrence
  /\ InPhase /\ ~InPhase' /\ op \in Operation
  /\ ActiveFor(op.template) = {} /\ op.template \notin released
  /\ treasures' = treasures \cup {t} /\ released' = released /\ t.template = op.template
  /\ \/ UNCHANGED log
     \/ \E e : /\ e.name = "STASH" /\ log' = Append(log, e)
               /\ e.template = op.template /\ e.occurrence = op.occurrence

SpacingStep == GoesOn \/ Numbers \/ Frees \/ ServesOne \/ \E t : StashesOne(t)

LEMMA NextIsSpacingStep ==
  ASSUME ~MayCrash, TypeOK, [Next]_vars
  PROVE  SpacingStep
<1> USE DEF Emit, Inject, Record, RecordFails, NoStashLogged, InPhase, logVars, houseVars
<1>1. ASSUME Begin PROVE GoesOn \/ Frees
  <2>1. ASSUME NEW entry, ReturnDue(entry) PROVE GoesOn \/ Frees
    BY <2>1 DEF ReturnDue, Returned, TreasureEventOf, HouseReturn, Holding, Exit, Leave,
       GoesOn, Frees
  <2>2. ASSUME AdvanceMood \/ NoMood PROVE GoesOn
    BY <2>2 DEF AdvanceMood, NoMood, MoodChanged, Goto, Exit, Leave, GoesOn
  <2> QED
    BY <1>1, <2>1, <2>2 DEF Begin
<1>2. ASSUME Dispatch PROVE GoesOn \/ Numbers
  <2>1. ASSUME Passthrough PROVE GoesOn
    BY <2>1 DEF Passthrough, Exit, Leave, GoesOn
  <2>2. ASSUME BeginDecision PROVE Numbers
    BY <2>2 DEF BeginDecision, Continue, Numbers, TypeOK, CallTypeOK, Operation
  <2> QED
    BY <1>2, <2>1, <2>2 DEF Dispatch
<1>3. ASSUME Before PROVE GoesOn
  <2>1. pc = "before" => op \in Operation
    BY DEF TypeOK, CallTypeOK
  <2>2. ASSUME NEW fault \in BeforeExecuteErrors, RaiseBefore(fault) PROVE GoesOn
    BY <2>2 DEF RaiseBefore, BeforeExecuteErrors, Injected, OperationEventOf, Exit, Leave, GoesOn
  <2>3. ASSUME Delay PROVE GoesOn
    BY <2>1, <2>3 DEF Delay, Injected, OperationEventOf, Continue, Exit, Leave, GoesOn, Operation
  <2>4. ASSUME PassBefore PROVE GoesOn
    BY <2>1, <2>4 DEF PassBefore, Debugged, DecisionEvaluated, OperationEventOf, Continue, Exit,
       Leave, GoesOn, Operation
  <2> QED
    BY <1>3, <2>2, <2>3, <2>4 DEF Before
<1>4. ASSUME Backend PROVE GoesOn
  <2>1. pc = "backend" => op \in Operation
    BY DEF TypeOK, CallTypeOK
  <2>2. ASSUME BackendRaises \/ ExceedCap PROVE GoesOn
    BY <2>2 DEF BackendRaises, ExceedCap, LimitExceeded, OperationEventOf, Exit, Leave, GoesOn
  <2>3. ASSUME NEW rows, BackendReturns(rows) PROVE GoesOn
    BY <2>1, <2>3 DEF BackendReturns, Debugged, DecisionEvaluated, OperationEventOf, Continue,
       Exit, Leave, GoesOn, Operation
  <2> QED
    BY <1>4, <2>2, <2>3 DEF Backend
<1>5. ASSUME OnResult PROVE SpacingStep
  <2> USE DEF Deliver, Exit, Leave, OperationEventOf
  <2>1. ASSUME SkipOnResult \/ ExceedInterventionLimit \/ LoseResponse \/ HideTreasures
        PROVE  GoesOn
    BY <2>1 DEF SkipOnResult, ExceedInterventionLimit, LimitExceeded, LoseResponse, Injected,
       HideTreasures, GoesOn
  <2> USE DEF Choose, PastNoDrop, HouseConsumeRelease
  <2>2. ASSUME NEW row, StashRefused(row) PROVE ServesOne
    BY <2>2 DEF StashRefused, ServesOne
  <2>3. ASSUME NEW fault \in Members(OnResultPriority), Reshape(fault) PROVE ServesOne
    BY <2>3 DEF Reshape, Injected, ServesOne
  <2>4. ASSUME NEW entry, Replay(entry) PROVE ServesOne
    BY <2>4 DEF Replay, StaleEventOf, ServesOne
  <2>5. ASSUME DeliverWhole PROVE ServesOne
    BY <2>5 DEF DeliverWhole, Debugged, DecisionEvaluated, ServesOne
  <2>6. ASSUME NEW row, Stash(row) PROVE StashesOne(NewTreasure(row))
    <3>1. op.template \notin released
      BY <2>6, StashNeedsNoRelease DEF Stash
    <3>2. op \in Operation
      BY <2>6 DEF Stash, TypeOK, CallTypeOK
    <3> QED
      BY <2>6, <3>1, <3>2 DEF Stash, HouseAdd, NewTreasure, TreasureEventOf, StashesOne
  <2> HIDE DEF Emit, Inject, Record, RecordFails, Deliver, Exit, Leave, Choose, PastNoDrop
  <2> QED
    BY <1>5, <2>1, <2>2, <2>3, <2>4, <2>5, <2>6 DEF OnResult, SpacingStep
<1>6. ASSUME NEW t, LogReturned(t) PROVE GoesOn
  BY <1>6 DEF LogReturned, Returned, TreasureEventOf, Exit, Leave, GoesOn
<1>7. ASSUME Client PROVE GoesOn \/ Frees
  <2>1. ASSUME NEW method, NEW params, NEW template, Call(method, params, template) PROVE GoesOn
    BY <2>1 DEF Call, GoesOn
  <2>2. ASSUME NEW id, ReturnTreasure(id) PROVE GoesOn \/ Frees
    BY <2>2 DEF ReturnTreasure, Returned, TreasureEventOf, HouseReturn, Holding, Exit, Leave,
       callVars, GoesOn, Frees
  <2>3. ASSUME ReturnAll PROVE Frees
    BY <2>3 DEF ReturnAll, HouseReturnAll, Frees
  <2> QED
    BY <1>7, <2>1, <2>2, <2>3 DEF Client
<1>8. ASSUME UNCHANGED vars PROVE GoesOn
  BY <1>8 DEF vars, callVars, GoesOn
<1> QED
  BY <1>1, <1>2, <1>3, <1>4, <1>5, <1>6, <1>7, <1>8 DEF Next, Progress, Crash, SpacingStep

\* What an append adds to the stashes.
LEMMA AppendStash ==
  ASSUME LogTypeOK, NEW e, log' = Append(log, e)
  PROVE  /\ \A i \in Stashes : i \in Nat /\ i < Len(log) + 1 /\ log'[i] = log[i]
         /\ Len(log) + 1 \in Nat /\ log'[Len(log) + 1] = e
         /\ Stashes' = Stashes \cup (IF e.name = "STASH" THEN {Len(log) + 1} ELSE {})
<1>1. DOMAIN log = 1 .. Len(log) /\ Len(log) \in Nat
  BY DEF LogTypeOK
<1>2. DOMAIN log' = 1 .. (Len(log) + 1)
  BY DEF LogTypeOK
<1>3. \A i \in DOMAIN log : log'[i] = log[i] /\ i < Len(log) + 1 /\ i \in Nat
  BY <1>1 DEF LogTypeOK
<1>4. log'[Len(log) + 1] = e /\ Len(log) + 1 \in Nat
  BY <1>1 DEF LogTypeOK
<1>5. DOMAIN log' = DOMAIN log \cup {Len(log) + 1}
  BY <1>1, <1>2
<1> QED
  BY <1>3, <1>4, <1>5 DEF Stashes, TreasureEvents

\* Without a new stash, the old ones stay as they were.
LEMMA StashesStay ==
  ASSUME LogTypeOK, NoStashLogged
  PROVE  Stashes' = Stashes /\ \A i \in Stashes : log'[i] = log[i]
<1>1. CASE UNCHANGED log
  BY <1>1 DEF Stashes, TreasureEvents
<1>2. ASSUME NEW e, e.name # "STASH", log' = Append(log, e)
      PROVE  Stashes' = Stashes /\ \A i \in Stashes : log'[i] = log[i]
  BY <1>2, AppendStash
<1> QED
  BY <1>1, <1>2 DEF NoStashLogged

LEMMA ApartWhenStashesStay ==
  ASSUME StashesApart, Stashes' = Stashes, \A i \in Stashes : log'[i] = log[i]
  PROVE  StashesApart'
<1>1. \A i, j \in Stashes : (i < j /\ log[i].template = log[j].template)
                              => log[j].occurrence >= log[i].occurrence + 2
  BY DEF StashesApart, Stashes
<1>2. \A i, j \in Stashes' : (i < j /\ log'[i].template = log'[j].template)
                               => log'[j].occurrence >= log'[i].occurrence + 2
  BY <1>1
<1> QED
  BY <1>2 DEF StashesApart, Stashes

LEMMA SpacingInvStep ==
  ASSUME TypeOK, SpacingInv, SpacingStep
  PROVE  SpacingInv'
<1>1. \A i \in Stashes : log[i].template \in Templates /\ log[i].occurrence \in Nat
  BY DEF TypeOK, LogTypeOK, Stashes, TreasureEvents, Event, OperationEvent, TreasureEvent,
     StaleEvent, MoodEvent
<1>2. CASE GoesOn
  <2>1. Stashes' = Stashes /\ \A i \in Stashes : log'[i] = log[i]
    BY <1>2, StashesStay DEF GoesOn, TypeOK
  <2>2. \A i \in Stashes : SinceStash(log[i])'
    BY <1>2, <2>1 DEF GoesOn, SpacingInv, SinceStash, ActiveFor, InPhase
  <2> QED
    BY <1>2, <2>1, <2>2, ApartWhenStashesStay DEF GoesOn, SpacingInv, SinceStash, ActiveFor,
       InPhase
<1>3. CASE Numbers
  <2>1. Stashes' = Stashes /\ \A i \in Stashes : log'[i] = log[i]
    BY <1>3 DEF Numbers, Stashes, TreasureEvents
  <2>2. op.template \in Templates /\ op'.occurrence = occurrence'[op'.template]
    BY <1>3 DEF Numbers, Operation, TypeOK
  <2>3. ASSUME NEW d, d.template \in Templates, SinceStash(d) PROVE SinceStash(d)'
    <3>1. occurrence[d.template] \in Nat
      BY <2>3 DEF TypeOK
    <3>2. CASE d.template # op.template
      <4>1. op'.template # d.template /\ occurrence'[d.template] = occurrence[d.template]
        BY <1>3, <2>3, <3>2 DEF Numbers, TypeOK
      <4> QED
        BY <1>3, <2>3, <3>2, <4>1 DEF Numbers, SinceStash, ActiveFor
    <3>3. CASE d.template = op.template
      <4>1. /\ occurrence'[d.template] = occurrence[d.template] + 1
            /\ op'.occurrence = occurrence[d.template] + 1
        BY <1>3, <2>2, <2>3, <3>3 DEF Numbers, TypeOK
      <4> QED
        BY <1>3, <2>3, <3>1, <3>3, <4>1 DEF Numbers, SinceStash, ActiveFor
    <3> QED
      BY <3>2, <3>3
  <2> QED
    BY <1>1, <2>1, <2>2, <2>3, ApartWhenStashesStay
       DEF SpacingInv, SinceStash, ActiveFor, InPhase
<1>4. CASE Frees
  <2>1. Stashes' = Stashes /\ \A i \in Stashes : log'[i] = log[i]
    BY <1>4, StashesStay DEF Frees, TypeOK
  <2>2. \A i \in Stashes : SinceStash(log[i])'
    BY <1>4, <2>1 DEF Frees, SpacingInv, SinceStash, ActiveFor
  <2> QED
    BY <1>4, <2>1, <2>2, ApartWhenStashesStay DEF Frees, SpacingInv, SinceStash, ActiveFor
<1>5. CASE ServesOne
  <2>1. Stashes' = Stashes /\ \A i \in Stashes : log'[i] = log[i]
    BY <1>5, StashesStay DEF ServesOne, TypeOK
  <2>2. op \in Operation /\ op.occurrence = occurrence[op.template] /\ op.occurrence \in Nat
    BY <1>5 DEF ServesOne, InPhase, TypeOK, CallTypeOK, SpacingInv, Operation
  <2>3. ASSUME NEW d, d.occurrence \in Nat, SinceStash(d) PROVE SinceStash(d)'
    <3>1. CASE d.template # op.template
      BY <1>5, <2>3, <3>1 DEF ServesOne, SinceStash, ActiveFor
    <3>2. CASE d.template = op.template
      <4>1. d.occurrence < op.occurrence
        BY <1>5, <2>3, <3>2 DEF ServesOne, SinceStash
      <4>2. d.occurrence + 1 <= occurrence[d.template]
        BY <2>2, <2>3, <3>2, <4>1
      <4> QED
        BY <1>5, <2>3, <4>2 DEF ServesOne, SinceStash
    <3> QED
      BY <3>1, <3>2
  <2> QED
    BY <1>1, <1>5, <2>1, <2>3, ApartWhenStashesStay
       DEF ServesOne, SpacingInv, SinceStash, ActiveFor
<1>6. ASSUME NEW t, StashesOne(t) PROVE SpacingInv'
  <2>1. /\ op \in Operation /\ op.template \in Templates
        /\ op.occurrence = occurrence[op.template] /\ op.occurrence \in Nat
    BY <1>6 DEF StashesOne, SpacingInv, Operation
  <2>2. ASSUME NEW d, SinceStash(d) PROVE SinceStash(d)'
    BY <1>6, <2>2 DEF StashesOne, SinceStash, ActiveFor
  <2>3. \A i \in Stashes : log[i].template = op.template
                             => op.occurrence >= log[i].occurrence + 2
    BY <1>1, <1>6, <2>1 DEF StashesOne, SpacingInv, SinceStash
  <2>4. CASE UNCHANGED log
    <3>1. Stashes' = Stashes /\ \A i \in Stashes : log'[i] = log[i]
      BY <2>4 DEF Stashes, TreasureEvents
    <3> QED
      BY <1>6, <2>2, <3>1, ApartWhenStashesStay DEF StashesOne, SpacingInv, SinceStash, ActiveFor
  <2>5. ASSUME NEW e, e.name = "STASH", log' = Append(log, e),
               e.template = op.template, e.occurrence = op.occurrence
        PROVE  SpacingInv'
    <3> DEFINE last == Len(log) + 1
    <3>1. /\ Stashes' = Stashes \cup {last} /\ log'[last] = e
          /\ \A i \in Stashes : i \in Nat /\ i < last /\ log'[i] = log[i]
          /\ last \in Nat
      BY <2>5, AppendStash DEF TypeOK
    <3> HIDE DEF last
    <3>2. SinceStash(e)'
      BY <1>6, <2>1, <2>5 DEF StashesOne, SinceStash, ActiveFor
    <3>3. (\A i \in Stashes : SinceStash(log[i]))'
      BY <2>2, <3>1, <3>2 DEF SpacingInv, SinceStash, ActiveFor
    <3>4. ASSUME NEW i \in Stashes', NEW j \in Stashes',
                 i < j, log'[i].template = log'[j].template
          PROVE  log'[j].occurrence >= log'[i].occurrence + 2
      <4>1. i \in Stashes
        BY <3>1, <3>4
      <4>2. CASE j \in Stashes
        BY <3>1, <3>4, <4>1, <4>2 DEF SpacingInv, StashesApart, Stashes
      <4>3. CASE j = last
        BY <2>3, <2>5, <3>1, <3>4, <4>1, <4>3
      <4> QED
        BY <3>1, <4>2, <4>3
    <3>5. StashesApart'
      BY <3>4 DEF StashesApart, Stashes
    <3> QED
      BY <1>6, <3>3, <3>5 DEF StashesOne, SpacingInv, SinceStash, ActiveFor
  <2> QED
    BY <1>6, <2>4, <2>5 DEF StashesOne
<1> QED
  BY <1>2, <1>3, <1>4, <1>5, <1>6 DEF SpacingStep

\* In one session no two operations of a template in a row both take a row from
\* it: two STASH events of it are two occurrences apart at least, also where
\* writes fail and whatever other faults fire.  What the operation in between
\* delivers is left open (faults.py, on_result; house.py, consume_release).
THEOREM StashesAlwaysApart ==
  ASSUME ~MayCrash
  PROVE  Spec => []StashesApart
<1>1. Init => SpacingInv
  BY DEF Init, LogInit, SpacingInv, Stashes, InPhase, StashesApart, TreasureEvents
<1>2. TypeOK /\ SpacingInv /\ [Next]_vars => SpacingInv'
  BY NextIsSpacingStep, SpacingInvStep
<1>3. SpacingInv => StashesApart
  BY DEF SpacingInv
<1> QED
  BY <1>1, <1>2, <1>3, TypeCorrect, PTL DEF Spec

-----------------------------------------------------------------------------
(* What stays hidden *)

\* Positions that are counted from the first one on are numbered 1, 2, 3, ...:
\* each number is the rank of one of them.
LEMMA RankIsTaken ==
  ASSUME NEW S \in SUBSET Nat, IsFiniteSet(S), NEW k \in 1 .. Cardinality(S)
  PROVE  \E i \in S : Cardinality({j \in S : j <= i}) = k
<1> DEFINE upTo(i) == {j \in S : j <= i}
           n == Cardinality(S)
           rank == [i \in S |-> Cardinality(upTo(i))]
<1>1. n \in Nat /\ IsFiniteSet(1 .. n) /\ Cardinality(1 .. n) = n
  <2>1. n \in Nat
    BY FS_CardinalityType
  <2> QED
    BY <2>1, FS_Interval
<1>2. \A i \in S : /\ IsFiniteSet(upTo(i)) /\ Cardinality(upTo(i)) \in 1 .. n
  <2> SUFFICES ASSUME NEW i \in S
               PROVE  IsFiniteSet(upTo(i)) /\ Cardinality(upTo(i)) \in 1 .. n
    OBVIOUS
  <2>1. upTo(i) \in SUBSET S /\ upTo(i) # {}
    OBVIOUS
  <2> HIDE DEF upTo
  <2>2. IsFiniteSet(upTo(i)) /\ Cardinality(upTo(i)) <= n
    BY <2>1, FS_Subset
  <2>3. Cardinality(upTo(i)) \in Nat /\ Cardinality(upTo(i)) # 0
    BY <2>1, <2>2, FS_CardinalityType, FS_EmptySet
  <2> QED
    BY <1>1, <2>2, <2>3
<1>3. \A i, j \in S : i < j => Cardinality(upTo(i)) # Cardinality(upTo(j))
  <2> SUFFICES ASSUME NEW i \in S, NEW j \in S, i < j
               PROVE  Cardinality(upTo(i)) # Cardinality(upTo(j))
    OBVIOUS
  <2>1. upTo(i) \in SUBSET upTo(j) /\ upTo(i) # upTo(j)
    <3>1. i \in Nat /\ j \in Nat /\ \A l \in S : l \in Nat /\ (l <= i => l <= j)
      OBVIOUS
    <3>2. j \in upTo(j) /\ j \notin upTo(i)
      BY <3>1
    <3>3. \A l \in upTo(i) : l \in upTo(j)
      BY <3>1
    <3> HIDE DEF upTo
    <3> QED
      BY <3>2, <3>3
  <2> HIDE DEF upTo
  <2> QED
    BY <1>2, <2>1, FS_Subset
<1>4. rank \in Injection(S, 1 .. n)
  <2>1. rank \in [S -> 1 .. n]
    BY <1>2
  <2>2. ASSUME NEW i \in S, NEW j \in S, rank[i] = rank[j] PROVE i = j
    <3>1. i \in Nat /\ j \in Nat /\ ~(i < j) /\ ~(j < i)
      BY <1>3, <2>2
    <3> QED
      BY <3>1
  <2> HIDE DEF rank
  <2> QED
    BY <2>1, <2>2, Fun_IsInj
<1>5. rank \in Surjection(S, 1 .. n)
  <2> HIDE DEF rank, n
  <2> QED
    BY <1>1, <1>4, FS_Injection DEF n
<1> QED
  BY <1>5 DEF Surjection

LEMMA EveryRankIsTaken ==
  ASSUME NEW S \in SUBSET Nat, IsFiniteSet(S), NEW k \in 1 .. Cardinality(S)
  PROVE  Nth(S, k) \in S
<1>1. \E i \in S : Cardinality({j \in S : j <= i}) = k
  BY RankIsTaken
<1> QED
  BY <1>1 DEF Nth

\* A row that is left out is not delivered, the others are those of the result.
LEMMA HiddenRowsAreLeftOut ==
  ASSUME NEW rows \in Seq(Nat), NEW hidden, NEW k \in DOMAIN HideRows(rows, hidden)
  PROVE  \E i \in DOMAIN rows : HideRows(rows, hidden)[k] = rows[i] /\ (i - 1) \notin hidden
<1> DEFINE kept == {i \in DOMAIN rows : (i - 1) \notin hidden}
<1>1. HideRows(rows, hidden) = [n \in 1 .. Cardinality(kept) |-> rows[Nth(kept, n)]]
  BY DEF HideRows
<1>2. kept \in SUBSET Nat /\ kept \subseteq 1 .. Len(rows)
  OBVIOUS
<1>3. IsFiniteSet(kept)
  BY <1>2, FS_Interval, FS_Subset
<1> HIDE DEF kept
<1>4. k \in 1 .. Cardinality(kept)
  BY <1>1
<1>5. Nth(kept, k) \in kept
  BY <1>2, <1>3, <1>4, EveryRankIsTaken
<1> QED
  BY <1>1, <1>4, <1>5 DEF kept

\* What is left without a row are the other rows.
LEMMA OtherRowsAreLeft ==
  ASSUME NEW rows \in Seq(Nat), NEW i \in DOMAIN rows, NEW k \in DOMAIN WithoutRow(rows, i)
  PROVE  \E j \in DOMAIN rows : j # i /\ WithoutRow(rows, i)[k] = rows[j]
<1> DEFINE front == SubSeq(rows, 1, i - 1)
           back == SubSeq(rows, i + 1, Len(rows))
<1>1. /\ Len(rows) \in Nat /\ i \in 1 .. Len(rows)
      /\ \A n \in 1 .. Len(rows) : rows[n] \in Nat
  OBVIOUS
<1>2. front \in Seq(Nat) /\ Len(front) = i - 1 /\ \A n \in 1 .. i - 1 : front[n] = rows[n]
  <2>1. \A n \in 1 .. i - 1 : rows[n] \in Nat
    BY <1>1
  <2>2. /\ front \in Seq(Nat)
        /\ Len(front) = IF 1 <= i - 1 THEN i - 1 - 1 + 1 ELSE 0
        /\ \A n \in 1 .. i - 1 - 1 + 1 : front[n] = rows[1 + n - 1]
    BY <1>1, <2>1, SubSeqProperties
  <2> HIDE DEF front
  <2> QED
    BY <1>1, <2>2
<1>3. /\ back \in Seq(Nat) /\ Len(back) = Len(rows) - i
      /\ \A n \in 1 .. Len(rows) - i : back[n] = rows[i + n]
  <2>1. /\ i + 1 \in Int /\ Len(rows) \in Int
        /\ \A n \in i + 1 .. Len(rows) : rows[n] \in Nat
    BY <1>1
  <2>2. \A m \in Int :
          (\A n \in m .. Len(rows) : rows[n] \in Nat) =>
             /\ SubSeq(rows, m, Len(rows)) \in Seq(Nat)
             /\ Len(SubSeq(rows, m, Len(rows)))
                  = IF m <= Len(rows) THEN Len(rows) - m + 1 ELSE 0
             /\ \A n \in 1 .. Len(rows) - m + 1 :
                  SubSeq(rows, m, Len(rows))[n] = rows[m + n - 1]
    BY <2>1, SubSeqProperties
  <2>3. /\ back \in Seq(Nat)
        /\ Len(back) = IF i + 1 <= Len(rows) THEN Len(rows) - (i + 1) + 1 ELSE 0
        /\ \A n \in 1 .. Len(rows) - (i + 1) + 1 : back[n] = rows[(i + 1) + n - 1]
    BY <2>1, <2>2
  <2> HIDE DEF back
  <2> QED
    BY <1>1, <2>3
<1>4. WithoutRow(rows, i) = front \o back
  BY DEF WithoutRow
<1> HIDE DEF front, back
<1>5. /\ Len(front \o back) = Len(front) + Len(back) /\ front \o back \in Seq(Nat)
      /\ \A n \in 1 .. Len(front) + Len(back) :
           (front \o back)[n] = IF n <= Len(front) THEN front[n] ELSE back[n - Len(front)]
  BY <1>2, <1>3, ConcatProperties
<1>6. /\ i \in Nat /\ 1 <= i /\ i <= Len(rows)
      /\ k \in Nat /\ 1 <= k /\ k <= Len(rows) - 1
  <2>1. k \in 1 .. Len(front) + Len(back)
    BY <1>4, <1>5
  <2>2. Len(front) + Len(back) = Len(rows) - 1
    BY <1>1, <1>2, <1>3
  <2> QED
    BY <1>1, <2>1, <2>2
<1>7. CASE k <= i - 1
  <2>1. WithoutRow(rows, i)[k] = front[k]
    BY <1>1, <1>2, <1>3, <1>4, <1>5, <1>6, <1>7
  <2>2. k \in DOMAIN rows /\ k # i /\ front[k] = rows[k]
    BY <1>1, <1>2, <1>6, <1>7
  <2> QED
    BY <2>1, <2>2
<1>8. CASE ~(k <= i - 1)
  <2>1. WithoutRow(rows, i)[k] = back[k - (i - 1)]
    <3>1. k \in 1 .. Len(front) + Len(back) /\ Len(front) = i - 1 /\ ~(k <= Len(front))
      BY <1>1, <1>2, <1>3, <1>6, <1>8
    <3>2. (front \o back)[k] = back[k - Len(front)]
      BY <1>5, <3>1
    <3> QED
      BY <1>4, <3>1, <3>2
  <2>2. k - (i - 1) \in 1 .. Len(rows) - i /\ i + (k - (i - 1)) = k + 1
    BY <1>1, <1>6, <1>8
  <2>3. k + 1 \in DOMAIN rows /\ k + 1 # i
    BY <1>1, <1>6, <1>8
  <2> QED
    BY <1>3, <2>1, <2>2, <2>3
<1> QED
  BY <1>7, <1>8

\* No read of a template in scope can go past on_result: no delay uses its one
\* fault up, a result that is too large is an error or is out of reach, and the
\* phase is evaluated in every mood.
NothingSkipsOnResult ==
  /\ \A m \in Moods : Weight[m]["SLOTH"] = "never"
  /\ \/ OversizeRaises
     \/ MaxRows <= MaxInterventionRows
     \/ MaxResultRows # NoCap /\ MaxResultRows <= MaxInterventionRows
  /\ Debug \/ OldBoneOn \/ \A m \in Moods : HasEffectiveWeight(OnResultPriority, m)

ReadInScope(t) == Query[t].scoped /\ Query[t].kind = "SELECT"

LacksRow(rows, row) == \A k \in DOMAIN rows : rows[k] # row

\* The rows the client was given last, also while treasures go home.
RowsStayHidden ==
  delivered.status = "rows" =>
    \A t \in treasures : t.template = delivered.template => LacksRow(delivered.rows, t.row)

HiddenInv ==
  /\ RowsStayHidden
  /\ \A t \in treasures : ReadInScope(t.template)
  /\ pc \notin {"idle", "returning"} => op.slot # "consumed"
  /\ pc = "result" => /\ op.rows <= MaxRows
                      /\ CappedRead => op.rows <= MaxResultRows

\* What a step does to the treasures and to what the client has: it takes none
\* away and delivers none of their rows, it delivers nothing, or it delivers
\* what is left without the treasure it takes.
KeepsHidden == treasures' \subseteq treasures /\ delivered' = delivered

DeliversNothing ==
  /\ delivered' = Nothing
  /\ \A t \in treasures' : t \in treasures \/ ReadInScope(t.template)

DeliversWithout ==
  \E rows : /\ delivered' = Delivery(rows)
            /\ \A t \in treasures' : \/ t \in treasures
                                     \/ t.template = op.template /\ ScopedSelect
            /\ \A t \in treasures' : t.template = op.template => LacksRow(rows, t.row)

\* What it does to the operation in progress.
KeepsSlot ==
  \/ pc' \in {"idle", "returning"}
  \/ /\ op'.slot # "consumed"
     /\ pc' = "result" => /\ op'.rows <= MaxRows
                          /\ CappedRead' => op'.rows <= MaxResultRows

HiddenStep ==
  (KeepsHidden \/ DeliversNothing \/ DeliversWithout) /\ KeepsSlot

LEMMA HiddenInvStep ==
  ASSUME HiddenInv, HiddenStep
  PROVE  HiddenInv'
<1>1. (pc \notin {"idle", "returning"} => op.slot # "consumed")'
      /\ (pc = "result" => op.rows <= MaxRows /\ (CappedRead => op.rows <= MaxResultRows))'
  BY DEF HiddenStep, KeepsSlot
<1>2. RowsStayHidden' /\ \A t \in treasures' : ReadInScope(t.template)
  <2>1. CASE KeepsHidden
    BY <2>1 DEF KeepsHidden, HiddenInv, RowsStayHidden
  <2>2. CASE DeliversNothing
    BY <2>2 DEF DeliversNothing, HiddenInv, RowsStayHidden, Nothing
  <2>3. CASE DeliversWithout
    BY <2>3 DEF DeliversWithout, Delivery, HiddenInv, RowsStayHidden, ScopedSelect, Scoped,
       ReadInScope
  <2> QED
    BY <2>1, <2>2, <2>3 DEF HiddenStep
<1> QED
  BY <1>1, <1>2 DEF HiddenInv

LEMMA SlothIsNotSelected ==
  ASSUME NothingSkipsOnResult, mood \in Moods
  PROVE  "SLOTH" \notin BeforeSelections
<1> SUFFICES ASSUME "SLOTH" \in BeforeSelections PROVE FALSE
  OBVIOUS
<1>1. Weight[mood]["SLOTH"] = "never"
  BY DEF NothingSkipsOnResult
<1>2. PICK i \in DOMAIN BeforeExecutePriority :
        /\ BeforeExecutePriority[i] = "SLOTH"
        /\ Weight[mood][BeforeExecutePriority[i]] # "never"
  BY DEF BeforeSelections, Selections
<1> QED
  BY <1>1, <1>2

\* What the backend gave is delivered by those only who have no treasure.
LEMMA BackendRowsStayHidden ==
  ASSUME TypeOK, \A t \in treasures : t.template # op.template, Deliver(BackendRows),
         UNCHANGED treasures
  PROVE  HiddenStep
BY DEF Deliver, Leave, HiddenStep, DeliversWithout, KeepsSlot

LEMMA ReadKeepsHidden ==
  ASSUME TypeOK, NothingSkipsOnResult, HiddenInv, OnResult
  PROVE  HiddenStep
<1> USE DEF Inject, Emit, Exit, Leave, HiddenStep
<1>1. op \in Operation /\ pc = "result" /\ mood \in Moods
  BY DEF OnResult, SkipOnResult, ExceedInterventionLimit, LoseResponse, HideTreasures,
     PastNoDrop, Choose, Stash, StashRefused, Reshape, Replay, DeliverWhole, TypeOK, CallTypeOK,
     MoodTypeOK
<1>2. op.rows \in Nat /\ MaxRows \in Nat /\ MaxInterventionRows \in Nat
      /\ (MaxResultRows # NoCap => MaxResultRows \in Nat)
  BY <1>1, SessionAssumption, StaleAssumption DEF Operation
<1>3. ScopedSelect /\ Oversized => OversizeRaises
  BY <1>1, <1>2 DEF HiddenInv, NothingSkipsOnResult, Oversized, CappedRead
<1>4. ScopedSelect => EvaluateOnResult
  BY <1>1 DEF HiddenInv, NothingSkipsOnResult, EvaluateOnResult
<1>5. ~ScopedSelect => \A t \in treasures : t.template # op.template
  BY DEF HiddenInv, ReadInScope, ScopedSelect, Scoped
<1>6. BackendRows \in Seq(Nat) /\ DOMAIN BackendRows = 1 .. op.rows
      /\ \A i \in 1 .. op.rows : BackendRows[i] = i - 1
  BY <1>2 DEF BackendRows
<1>7. CASE SkipOnResult
  BY <1>4, <1>5, <1>7, BackendRowsStayHidden DEF SkipOnResult, houseVars
<1>8. CASE ExceedInterventionLimit
  <2>1. OversizeRaises
    BY <1>3, <1>8 DEF ExceedInterventionLimit, EvaluateOnResult
  <2> QED
    BY <1>8, <2>1 DEF ExceedInterventionLimit, DeliversNothing, KeepsSlot, houseVars
<1>9. CASE LoseResponse
  BY <1>9 DEF LoseResponse, DeliversNothing, KeepsSlot, houseVars
<1>10. CASE HideTreasures
  <2> DEFINE hidden == {t.row : t \in ActiveFor(op.template)}
             rows == HideRows(BackendRows, hidden)
  <2>1. delivered' = Delivery(rows) /\ treasures' = treasures /\ pc' = "idle"
    BY <1>10 DEF HideTreasures, Deliver, houseVars
  <2>2. ASSUME NEW t \in treasures, t.template = op.template, NEW k \in DOMAIN rows
        PROVE  rows[k] # t.row
    <3>1. PICK i \in DOMAIN BackendRows : rows[k] = BackendRows[i] /\ (i - 1) \notin hidden
      <4> HIDE DEF hidden
      <4> QED
        BY <1>6, <2>2, HiddenRowsAreLeftOut
    <3>2. t.row \in hidden
      BY <2>2 DEF ActiveFor
    <3> QED
      BY <1>6, <3>1, <3>2
  <2> HIDE DEF rows
  <2> QED
    BY <2>1, <2>2 DEF DeliversWithout, LacksRow, KeepsSlot
<1>11. ASSUME NEW row \in 0 .. (MaxRows - 1), Stash(row) PROVE HiddenStep
  <2> DEFINE t == NewTreasure(row)
  <2>1. treasures' = treasures \cup {t} /\ pc' = "idle"
    BY <1>11 DEF Stash, HouseAdd, Deliver
  <2>2. ScopedSelect /\ t.template = op.template /\ t.row = row
        /\ \A u \in treasures : u.template # op.template
    BY <1>11 DEF Stash, Choose, PastNoDrop, EvaluateOnResult, NewTreasure, ActiveFor
  <2> HIDE DEF t
  <2>3. CASE delivered' = Nothing
    BY <2>1, <2>2, <2>3 DEF DeliversNothing, KeepsSlot, ReadInScope, ScopedSelect, Scoped
  <2>4. CASE delivered' = Delivery(WithoutRow(BackendRows, row + 1))
    <3>1. row \in Nat /\ row + 1 \in 1 .. op.rows
      BY <1>2, <1>11 DEF Stash
    <3>2. LacksRow(WithoutRow(BackendRows, row + 1), row)
      <4>1. row + 1 \in DOMAIN BackendRows
        BY <1>6, <3>1
      <4>2. \A k \in DOMAIN WithoutRow(BackendRows, row + 1) :
              \E j \in DOMAIN BackendRows :
                j # row + 1 /\ WithoutRow(BackendRows, row + 1)[k] = BackendRows[j]
        BY <1>6, <4>1, OtherRowsAreLeft
      <4> QED
        BY <1>2, <1>6, <3>1, <4>2 DEF LacksRow
    <3> QED
      BY <2>1, <2>2, <2>4, <3>2 DEF DeliversWithout, KeepsSlot
  <2> QED
    BY <1>11, <2>3, <2>4 DEF Stash, Deliver
<1>12. ASSUME NEW row, StashRefused(row) PROVE HiddenStep
  BY <1>12, BackendRowsStayHidden DEF StashRefused, Choose, ActiveFor
<1>13. ASSUME NEW fault, Reshape(fault) PROVE HiddenStep
  BY <1>13 DEF Reshape, Choose, ActiveFor, Deliver, DeliversNothing, DeliversWithout, KeepsSlot
<1>14. ASSUME NEW entry, Replay(entry) PROVE HiddenStep
  BY <1>14 DEF Replay, Choose, ActiveFor, Deliver, DeliversNothing, DeliversWithout, KeepsSlot
<1>15. CASE DeliverWhole
  BY <1>15 DEF DeliverWhole, Debugged, Choose, ActiveFor, Deliver, DeliversNothing,
     DeliversWithout, KeepsSlot
<1> QED
  BY <1>7, <1>8, <1>9, <1>10, <1>11, <1>12, <1>13, <1>14, <1>15 DEF OnResult

LEMMA NextKeepsHidden ==
  ASSUME TypeOK, NothingSkipsOnResult, HiddenInv, [Next]_vars
  PROVE  HiddenStep
<1> USE DEF Inject, Emit, Exit, Leave, HiddenStep, KeepsHidden, DeliversNothing, KeepsSlot,
        houseVars
<1>1. CASE Begin
  BY <1>1 DEF Begin, ReturnDue, AdvanceMood, NoMood, Goto, HouseReturn, HiddenInv
<1>2. CASE Dispatch
  <2>1. pc = "dispatch" => op \in Operation
    BY DEF TypeOK, CallTypeOK
  <2> QED
    BY <1>2, <2>1 DEF Dispatch, Passthrough, BeginDecision, Continue, HiddenInv, Operation
<1>3. CASE Before
  <2>1. pc = "before" => op \in Operation
    BY DEF TypeOK, CallTypeOK
  <2>2. ~Delay
    BY SlothIsNotSelected DEF Delay, TypeOK, MoodTypeOK
  <2> QED
    BY <1>3, <2>1, <2>2 DEF Before, RaiseBefore, PassBefore, Debugged, Continue, Operation
<1>4. CASE Backend
  <2>1. pc = "backend" => op \in Operation
    BY DEF TypeOK, CallTypeOK
  <2>2. CASE BackendRaises \/ ExceedCap
    BY <2>2 DEF BackendRaises, ExceedCap
  <2>3. ASSUME NEW rows \in 0 .. MaxRows, BackendReturns(rows) PROVE HiddenStep
    <3>1. /\ pc = "backend" /\ (CappedRead => rows <= MaxResultRows) /\ rows <= MaxRows
          /\ UNCHANGED treasures
      BY <2>3, SessionAssumption DEF BackendReturns
    <3>2. CASE delivered' = Nothing /\ pc' = "idle"
      BY <3>1, <3>2
    <3>3. CASE Continue("result", [op EXCEPT !.rows = rows])
      <4>1. op'.rows = rows /\ op'.template = op.template /\ op'.slot = op.slot
            /\ UNCHANGED delivered
        BY <2>1, <3>1, <3>3 DEF Continue, Operation
      <4>2. CappedRead' = CappedRead
        BY <4>1 DEF CappedRead, ScopedSelect, Scoped
      <4> QED
        BY <3>1, <4>1, <4>2 DEF HiddenInv
    <3> QED
      BY <2>3, <3>2, <3>3 DEF BackendReturns, Debugged
  <2> QED
    BY <1>4, <2>2, <2>3 DEF Backend
<1>5. CASE OnResult
  BY <1>5, ReadKeepsHidden
<1>6. ASSUME NEW t \in returning, LogReturned(t) PROVE HiddenStep
  BY <1>6 DEF LogReturned
<1>7. CASE Client
  <2>1. ASSUME NEW method, NEW params, NEW template, Call(method, params, template)
        PROVE  HiddenStep
    BY <2>1 DEF Call
  <2>2. ASSUME NEW id, ReturnTreasure(id) PROVE HiddenStep
    BY <2>2 DEF ReturnTreasure, HouseReturn, callVars
  <2>3. CASE ReturnAll
    BY <2>3 DEF ReturnAll, HouseReturnAll
  <2> QED
    BY <1>7, <2>1, <2>2, <2>3 DEF Client
<1>8. CASE Crash
  BY <1>8 DEF Crash
<1>9. CASE UNCHANGED vars
  BY <1>9 DEF vars, callVars, HiddenInv, CappedRead, ScopedSelect, Scoped
<1> QED
  BY <1>1, <1>2, <1>3, <1>4, <1>5, <1>6, <1>7, <1>8, <1>9 DEF Next, Progress

\* Where no read can go past on_result, the rows a client was given last hold no
\* row that is in the house: for any number of templates and rows, over returns
\* by any way, failing writes and restarts (faults.py, on_result and _stash;
\* openspec dog-house).
THEOREM StashedRowsAlwaysStayHidden ==
  ASSUME NothingSkipsOnResult
  PROVE  Spec => []StashedRowsStayHidden
<1>1. Init => HiddenInv
  BY DEF Init, HouseInit, Nothing, HiddenInv, RowsStayHidden
<1>2. TypeOK /\ HiddenInv /\ [Next]_vars => HiddenInv'
  BY NextKeepsHidden, HiddenInvStep
<1>3. HiddenInv => StashedRowsStayHidden
  BY DEF HiddenInv, RowsStayHidden, StashedRowsStayHidden, LacksRow
<1> QED
  BY <1>1, <1>2, <1>3, TypeCorrect, PTL DEF Spec

=============================================================================
