------------------------- MODULE RunnerTasksProofs -------------------------
(***************************************************************************)
(* What the runner's tasks beside the book guarantee for every set of      *)
(* strategies, leverages and results and for every bound. The properties   *)
(* of the daily-loss counter are proved in DailyLossProofs and taken from  *)
(* there; those of the other tasks are proved here, each from an invariant *)
(* of its task.                                                            *)
(***************************************************************************)
EXTENDS MCRunnerTasks, TLAPS, FiniteSetTheorems, SequenceTheorems,
        WellFoundedInduction

(* A step of the run is a step of one task, and leaves the others alone.   *)
LEMMA StepOfATask ==
  ASSUME [Next]_vars
  PROVE  /\ [Loss!Next]_lossVars /\ [Push!Next]_pushVars /\ [Fetch!Next]_fetchVars
         /\ [Rate!Next]_rateVars /\ [Close!Next]_closeVars /\ [Funding!Next]_fundingVars
  BY DEF vars, Next, LossRuns, PushRuns, FetchRuns, RateRuns, CloseRuns, FundingRuns

-----------------------------------------------------------------------------
(* A finite set of numbers that is not empty has a greatest element: one   *)
(* with the fewest elements that had none would leave a smaller one when   *)
(* an element is removed.                                                  *)
HasGreatest(S) == \E x \in S : \A y \in S : x >= y

LEMMA GreatestExists ==
  ASSUME NEW S \in SUBSET Int, IsFiniteSet(S), S # {} PROVE HasGreatest(S)
<1> DEFINE Bad == {T \in SUBSET S : T # {} /\ ~HasGreatest(T)}
           Sizes == {Cardinality(T) : T \in Bad}
<1> SUFFICES ASSUME ~HasGreatest(S) PROVE FALSE
  OBVIOUS
<1>1. S \in Bad
  OBVIOUS
<1>2. \A T \in Bad : IsFiniteSet(T) /\ Cardinality(T) \in Nat
  BY FS_Subset, FS_CardinalityType
<1>3. Sizes \subseteq Nat /\ Sizes # {}
  BY <1>1, <1>2
<1>4. PICK n \in Sizes : \A m \in Sizes : ~(<<m, n>> \in OpToRel(<, Nat))
  <2> HIDE DEF Sizes
  <2> QED BY <1>3, WFMin, NatLessThanWellFounded, Zenon
<1>5. PICK T \in Bad : n = Cardinality(T)
  BY <1>4
<1>6. \A m \in Sizes : ~(m < n)
  BY <1>3, <1>4 DEF OpToRel
<1>7. PICK x \in T : TRUE
  BY <1>5
<1> DEFINE R == T \ {x}
<1>8. Cardinality(R) = n - 1 /\ n \in Nat /\ IsFiniteSet(T)
  BY <1>2, <1>5, <1>7, FS_RemoveElement
<1>9. R \notin Bad
  <2> SUFFICES ASSUME R \in Bad PROVE FALSE
    OBVIOUS
  <2>1. Cardinality(R) \in Sizes
    OBVIOUS
  <2> QED
    BY <2>1, <1>6, <1>8
<1>10. R \in SUBSET S
  BY <1>5
<1>11. T \subseteq Int /\ x \in Int
  BY <1>5, <1>7
<1>12. CASE R = {}
  <2>1. \A y \in T : y = x
    BY <1>12
  <2> QED
    BY <2>1, <1>5, <1>7, <1>11 DEF HasGreatest
<1>13. CASE HasGreatest(R)
  <2>1. PICK z \in R : \A y \in R : z >= y
    BY <1>13 DEF HasGreatest
  <2>2. z \in T /\ z \in Int
    BY <2>1, <1>11
  <2>3. CASE z >= x
    <3>1. \A y \in T : z >= y
      BY <2>1, <2>3
    <3> QED
      BY <3>1, <2>2, <1>5 DEF HasGreatest
  <2>4. CASE x > z
    <3>1. \A y \in T : x >= y
      BY <2>1, <2>2, <2>4, <1>11
    <3> QED
      BY <3>1, <1>7, <1>5 DEF HasGreatest
  <2> QED
    BY <2>2, <2>3, <2>4, <1>11
<1> QED
  BY <1>9, <1>10, <1>12, <1>13

-----------------------------------------------------------------------------
(* The leverage of a coin: with each variable on its own.                  *)
PushTyped ==
    /\ override \in [Users -> Levels \cup {0}]
    /\ read \in [Users -> Levels \cup {0}]
    /\ lev \in [Users -> Levels] /\ exch \in Levels
    /\ asked \in Levels \cup {0} /\ (asked # 0 <=> tickPc \in {"pushing", "landed"})
    /\ pushed \in Levels \cup {0} /\ pushAlerted \in Levels \cup {0}
    /\ underway \subseteq Levels
    /\ tickPc \in {"idle", "apply", "open", "pushing", "landed"}
    /\ opening \in BOOLEAN /\ strayed \in BOOLEAN /\ changes \in 0..MaxChanges

(* Since a push of the runner was taken with none on its way and the target *)
(* where it was, a cache that is set is right until the next push is taken,  *)
(* and then that push is; an open goes through only with the target cached.  *)
PushInv == ~strayed =>
    /\ underway = {}
    /\ tickPc # "landed" /\ pushed # 0 => exch = pushed
    /\ tickPc = "landed" => exch = asked /\ asked = Push!Target(lev)
    /\ opening => tickPc = "idle" /\ pushed = Push!Target(lev)

(* The target is the leverage of one of the coin's strategies.             *)
LEMMA TargetIsALevel == ASSUME NEW l \in [Users -> Levels] PROVE Push!Target(l) \in Levels
<1> DEFINE S == {l[s] : s \in Users}
<1>1. S \subseteq Levels /\ Levels \subseteq Nat \ {0}
  BY TasksConstants DEF Push!LeverageConstants
<1>2. S # {} /\ S \in SUBSET Int
  <2>1. PICK s \in Users : TRUE
    BY TasksConstants DEF Push!LeverageConstants
  <2>2. S # {}
    BY <2>1
  <2> HIDE DEF S
  <2> QED
    BY <1>1, <2>2
<1>3. IsFiniteSet(S)
  <2>1. Push!IsFiniteSet(Levels)
    BY TasksConstants DEF Push!LeverageConstants
  <2>2. IsFiniteSet(Levels)
    BY <2>1 DEF Push!IsFiniteSet, IsFiniteSet
  <2> QED
    BY <1>1, <2>2, FS_Subset
<1>4. HasGreatest(S)
  BY <1>2, <1>3, GreatestExists
<1>5. Push!Target(l) \in S
  <2> HIDE DEF S
  <2>1. Push!Target(l) = CHOOSE x \in S : \A y \in S : x >= y
    BY DEF Push!Target, Push!Max, S
  <2> QED
    BY <2>1, <1>4, Zenon DEF HasGreatest
<1> QED
  BY <1>1, <1>5

LEMMA OverriddenTyped ==
  ASSUME NEW o \in [Users -> Levels \cup {0}], NEW l \in [Users -> Levels]
  PROVE  Push!Overridden(o, l) \in [Users -> Levels]
<1> DEFINE f == [s \in Users |-> IF o[s] = 0 THEN l[s] ELSE o[s]]
<1>1. \A s \in Users : o[s] \in Levels \cup {0} /\ l[s] \in Levels
  OBVIOUS
<1>2. f \in [Users -> Levels]
  BY <1>1
<1>3. Push!Overridden(o, l) = f
  BY Zenon DEF Push!Overridden, Push!Unset
<1> QED
  BY <1>2, <1>3

LEMMA ConfiguredTyped ==
  ASSUME NEW o \in [Users -> Levels \cup {0}] PROVE Push!Configured(o) \in [Users -> Levels]
<1>1. [s \in Users |-> Default] \in [Users -> Levels]
  BY TasksConstants DEF Push!LeverageConstants
<1> QED
  BY <1>1, OverriddenTyped DEF Push!Configured

(* Each step keeps the types of the coin's leverage.                       *)
LEMMA PushKeepsTypes ==
  ASSUME PushTyped, [Push!Next]_pushVars PROVE PushTyped'
<1> USE DEF Push!Unset
<1>0. Default \in Levels /\ MaxChanges \in Nat
  BY TasksConstants DEF Push!LeverageConstants
<1>1. Push!Target(lev) \in Levels
  BY TargetIsALevel DEF PushTyped
<1>2. CASE Push!ReadOverrides
  BY <1>2 DEF PushTyped, Push!ReadOverrides
<1>3. CASE Push!ApplyOverrides
  <2>1. lev' \in [Users -> Levels]
    BY <1>3, OverriddenTyped DEF PushTyped, Push!ApplyOverrides
  <2> QED
    BY <2>1, <1>3 DEF PushTyped, Push!ApplyOverrides
<1>4. CASE Push!InSync \/ Push!PushLands \/ Push!PushAccepted
  BY <1>4 DEF PushTyped, Push!InSync, Push!PushLands, Push!PushAccepted
<1>5. CASE Push!NoOpen
  BY <1>5 DEF PushTyped, Push!NoOpen
<1>6. ASSUME NEW o, NEW l, Push!Request(o, l),
             o \in [Users -> Levels \cup {0}], l \in [Users -> Levels]
      PROVE  PushTyped'
  <2>1. changes' \in 0..MaxChanges
    BY <1>0, <1>6 DEF PushTyped, Push!Request
  <2>2. underway' \subseteq Levels
    BY <1>6, TargetIsALevel DEF PushTyped, Push!Request
  <2> QED
    BY <1>6, <2>1, <2>2 DEF PushTyped, Push!Request
<1>7. CASE Push!SetLeverage
  <2>1. PICK s \in Users, v \in Levels :
           Push!Request([override EXCEPT ![s] = v], [lev EXCEPT ![s] = v])
    BY <1>7 DEF Push!SetLeverage
  <2>2. /\ [override EXCEPT ![s] = v] \in [Users -> Levels \cup {0}]
        /\ [lev EXCEPT ![s] = v] \in [Users -> Levels]
    BY <2>1 DEF PushTyped
  <2> QED
    BY <2>1, <2>2, <1>6
<1>8. CASE Push!ResetLeverage
  <2>1. PICK s \in Users :
           Push!Request([override EXCEPT ![s] = 0], [lev EXCEPT ![s] = Default])
    BY <1>8 DEF Push!ResetLeverage
  <2>2. /\ [override EXCEPT ![s] = 0] \in [Users -> Levels \cup {0}]
        /\ [lev EXCEPT ![s] = Default] \in [Users -> Levels]
    BY <1>0, <2>1 DEF PushTyped
  <2> QED
    BY <2>1, <2>2, <1>6
<1>9. CASE Push!WriteByHand
  <2>1. PICK s \in Users, v \in Levels \cup {0} : override' = [override EXCEPT ![s] = v]
    BY <1>9 DEF Push!WriteByHand
  <2>2. override' \in [Users -> Levels \cup {0}]
    BY <2>1 DEF PushTyped
  <2>3. changes' \in 0..MaxChanges
    BY <1>0, <1>9 DEF PushTyped, Push!WriteByHand
  <2> QED
    BY <1>9, <2>2, <2>3 DEF PushTyped, Push!WriteByHand
<1>10. CASE Push!Arrive
  BY <1>10 DEF PushTyped, Push!Arrive
<1>11. CASE Push!Restart
  <2>1. lev' \in [Users -> Levels] /\ Push!NoOverride \in [Users -> Levels \cup {0}]
    BY <1>11, ConfiguredTyped DEF PushTyped, Push!Restart, Push!NoOverride
  <2>2. Push!Target(lev') \in Levels
    BY <2>1, TargetIsALevel
  <2> QED
    BY <2>1, <2>2, <1>11 DEF PushTyped, Push!Restart
<1>12. CASE UNCHANGED pushVars
  BY <1>12 DEF PushTyped, pushVars
<1>13. CASE Push!BeginPush
  <2>1. Push!Target(lev) # 0
    BY <1>1, TasksConstants DEF Push!LeverageConstants
  <2> QED
    BY <1>1, <1>13, <2>1 DEF PushTyped, Push!BeginPush
<1>14. CASE Push!PushFails
  BY <1>14 DEF PushTyped, Push!PushFails, Push!Unanswered
<1> QED
  BY <1>2, <1>3, <1>4, <1>5, <1>7, <1>8, <1>9, <1>10, <1>11, <1>12, <1>13, <1>14
     DEF Push!Next

LEMMA PushTypesCorrect == Spec => []PushTyped
<1>1. Init => PushTyped
  <2> SUFFICES ASSUME Init PROVE PushTyped
    OBVIOUS
  <2>0. Default \in Levels /\ MaxChanges \in Nat
    BY TasksConstants DEF Push!LeverageConstants
  <2>1. Push!NoOverride \in [Users -> Levels \cup {0}]
    BY DEF Push!NoOverride, Push!Unset
  <2>2. lev \in [Users -> Levels]
    BY <2>1, ConfiguredTyped DEF Init, Push!Init
  <2>3. opening \in BOOLEAN /\ strayed \in BOOLEAN /\ asked = 0 /\ tickPc = "idle"
    BY DEF Init, Push!Init, Push!Unset
  <2> QED
    BY <2>0, <2>1, <2>2, <2>3 DEF Init, Push!Init, PushTyped, Push!Unset
<1>2. PushTyped /\ [Next]_vars => PushTyped'
  BY StepOfATask, PushKeepsTypes
<1> QED
  BY <1>1, <1>2, PTL DEF Spec

LEMMA PushKeepsTheCacheRight ==
  ASSUME PushTyped, PushInv, [Push!Next]_pushVars PROVE PushInv'
<1> USE DEF Push!Unset, PushInv
<1>1. CASE Push!ReadOverrides \/ Push!ApplyOverrides
  BY <1>1, Zenon DEF Push!ReadOverrides, Push!ApplyOverrides
<1>2. CASE Push!InSync \/ Push!BeginPush
  BY <1>2 DEF Push!InSync, Push!BeginPush
<1>3. CASE Push!PushLands \/ Push!PushAccepted \/ Push!PushFails
  BY <1>3 DEF Push!PushLands, Push!PushAccepted, Push!PushFails, Push!Unanswered
<1>4. CASE Push!NoOpen
  BY <1>4 DEF Push!NoOpen
<1>5. CASE Push!SetLeverage \/ Push!ResetLeverage
  BY <1>5 DEF Push!SetLeverage, Push!ResetLeverage, Push!Request
<1>6. CASE Push!WriteByHand
  BY <1>6 DEF Push!WriteByHand
<1>7. CASE Push!Arrive
  BY <1>7 DEF Push!Arrive, PushTyped
<1>8. CASE Push!Restart
  BY <1>8 DEF Push!Restart
<1>9. CASE UNCHANGED pushVars
  BY <1>9 DEF pushVars
<1> QED
  BY <1>1, <1>2, <1>3, <1>4, <1>5, <1>6, <1>7, <1>8, <1>9 DEF Push!Next

(* Once a push of the runner or of main was taken and answered, an open that *)
(* goes through finds the exchange at the maximum of the coin's strategies,  *)
(* over overrides, restarts and refused pushes, until the API pushes again   *)
(* or an answer is lost.                                                    *)
THEOREM OpensFindTheTarget == Spec => []OpensAtTarget
<1>1. Init => PushInv
  BY DEF Init, Push!Init, PushInv
<1>2. PushTyped /\ PushInv /\ [Next]_vars => PushInv'
  BY StepOfATask, PushKeepsTheCacheRight
<1>3. PushTyped /\ PushInv => OpensAtTarget
  <2>1. 0 \notin Levels
    BY TasksConstants DEF Push!LeverageConstants
  <2> QED
    BY <2>1, TargetIsALevel DEF PushTyped, PushInv, OpensAtTarget, Push!OpensAtTarget
<1> QED
  BY <1>1, <1>2, <1>3, PushTypesCorrect, PTL DEF Spec

-----------------------------------------------------------------------------
(* The fetch-outage window: with each variable on its own.                 *)
FetchTyped ==
    /\ clock \in 0..MaxClock /\ outageStart \in -1..MaxClock
    /\ affected \subseteq Feeds /\ failing \subseteq Feeds
    /\ outageAlerted \in BOOLEAN /\ outageAlerts \in Nat

(* While a strategy fails there is a window, and it lists the strategy.    *)
FetchInv == failing # {} => outageStart # -1 /\ failing \subseteq affected

(* The latch and the number of alerts go together.                         *)
LatchTyped == outageAlerted \in BOOLEAN /\ outageAlerts \in Nat

LEMMA ClosingResets ==
  ASSUME Fetch!CloseWindow
  PROVE  outageStart' = -1 /\ affected' = {} /\ LatchTyped' /\ OneAlertPerWindow'
<1>1. outageAlerted' = FALSE /\ outageAlerts' = 0
  BY DEF Fetch!CloseWindow
<1>2. outageAlerted' \in BOOLEAN
  BY <1>1
<1> QED
  BY <1>1, <1>2 DEF LatchTyped, OneAlertPerWindow, Fetch!OneAlertPerWindow,
                    Fetch!CloseWindow, Fetch!Closed

LEMMA KeepingLatches ==
  ASSUME LatchTyped, OneAlertPerWindow, NEW failures, Fetch!KeepWindow(failures)
  PROVE  LatchTyped' /\ OneAlertPerWindow'
<1>1. CASE Fetch!Announce /\ ~outageAlerted
  <2>1. outageAlerted' = TRUE /\ outageAlerts' = outageAlerts + 1 /\ outageAlerts = 0
    BY <1>1 DEF Fetch!Announce, LatchTyped, OneAlertPerWindow, Fetch!OneAlertPerWindow
  <2>2. outageAlerted' \in BOOLEAN
    BY <2>1
  <2> QED
    BY <2>1, <2>2 DEF LatchTyped, OneAlertPerWindow, Fetch!OneAlertPerWindow
<1>2. CASE UNCHANGED <<outageAlerted, outageAlerts>>
  BY <1>2 DEF LatchTyped, OneAlertPerWindow, Fetch!OneAlertPerWindow
<1> QED
  BY <1>1, <1>2 DEF Fetch!KeepWindow

LEMMA FetchStepTyped ==
  ASSUME FetchTyped, FetchInv, OneAlertPerWindow, [Fetch!Next]_fetchVars
  PROVE  FetchTyped' /\ FetchInv' /\ OneAlertPerWindow'
<1> USE TasksConstants DEF Fetch!FetchConstants, Fetch!Closed
<1>0. LatchTyped
  BY DEF FetchTyped, LatchTyped
<1>1. ASSUME NEW failures \in SUBSET Feeds, Fetch!Settle(failures), UNCHANGED clock
      PROVE  FetchTyped' /\ FetchInv' /\ OneAlertPerWindow'
  <2>1. CASE failures = {}
    <3>1. Fetch!CloseWindow /\ failing' = {}
      BY <1>1, <2>1 DEF Fetch!Settle
    <3> QED
      BY <1>1, <3>1, ClosingResets DEF FetchTyped, FetchInv, LatchTyped
  <2>2. CASE failures # {}
    <3>1. Fetch!KeepWindow(failures) /\ failing' = failures
      BY <1>1, <2>2 DEF Fetch!Settle
    <3>2. /\ outageStart' \in 0..MaxClock /\ affected' = affected \cup failures
          /\ clock' \in 0..MaxClock
      BY <1>1, <3>1 DEF FetchTyped, Fetch!KeepWindow
    <3> QED
      BY <1>0, <3>1, <3>2, KeepingLatches DEF FetchTyped, FetchInv, LatchTyped
  <2> QED
    BY <2>1, <2>2
<1>2. CASE Fetch!Tick
  BY <1>1, <1>2 DEF Fetch!Tick
<1>3. CASE Fetch!TimePasses
  BY <1>3 DEF FetchTyped, FetchInv, Fetch!TimePasses, OneAlertPerWindow,
              Fetch!OneAlertPerWindow
<1>4. CASE Fetch!Restart
  BY <1>4, ClosingResets DEF FetchTyped, FetchInv, LatchTyped, Fetch!Restart
<1>5. CASE UNCHANGED fetchVars
  BY <1>5 DEF FetchTyped, FetchInv, fetchVars, OneAlertPerWindow, Fetch!OneAlertPerWindow
<1> QED
  BY <1>2, <1>3, <1>4, <1>5 DEF Fetch!Next

LEMMA FetchInvariant == Spec => [](FetchTyped /\ FetchInv /\ OneAlertPerWindow)
<1>1. Init => FetchTyped /\ FetchInv /\ OneAlertPerWindow
  <2> SUFFICES ASSUME Init PROVE FetchTyped /\ FetchInv /\ OneAlertPerWindow
    OBVIOUS
  <2>1. outageAlerted \in BOOLEAN /\ outageAlerts = 0 /\ ~outageAlerted
    BY DEF Init, Fetch!Init
  <2> QED
    BY <2>1, TasksConstants DEF Init, Fetch!Init, FetchTyped, FetchInv, OneAlertPerWindow,
       Fetch!OneAlertPerWindow, Fetch!Closed, Fetch!FetchConstants
<1>2. FetchTyped /\ FetchInv /\ OneAlertPerWindow /\ [Next]_vars
      => FetchTyped' /\ FetchInv' /\ OneAlertPerWindow'
  BY StepOfATask, FetchStepTyped
<1> QED
  BY <1>1, <1>2, PTL DEF Spec

(* One alert per outage, whichever strategies join or leave it.            *)
THEOREM OutageAnnouncedOnce == Spec => []OneAlertPerWindow
  BY FetchInvariant, PTL

(* A window opens with the first failure, keeps its start, gathers whoever *)
(* fails, and ends only at a tick that ran without a failure.              *)
THEOREM WindowLasts == Spec => WindowSpansOutage
<1> DEFINE Spans == /\ (outageStart # Fetch!Closed /\ outageStart' = Fetch!Closed) => failing' = {}
                    /\ (failing # {} /\ failing' # {}) =>
                         outageStart' = outageStart /\ affected' = affected \cup failing'
<1>1. FetchTyped /\ FetchInv /\ [Next]_vars => [Spans]_(Fetch!vars)
  <2> SUFFICES ASSUME FetchTyped, FetchInv, [Fetch!Next]_fetchVars PROVE Spans \/ UNCHANGED Fetch!vars
    BY StepOfATask
  <2> USE DEF Fetch!Closed
  <2>1. CASE Fetch!Tick
    <3>1. PICK failures \in SUBSET Feeds : Fetch!Settle(failures)
      BY <2>1 DEF Fetch!Tick
    <3>2. CASE failures = {}
      BY <3>1, <3>2 DEF Fetch!Settle, Fetch!CloseWindow
    <3>3. CASE failures # {}
      <4>1. /\ outageStart' = (IF outageStart = -1 THEN clock ELSE outageStart)
            /\ affected' = affected \cup failures /\ failing' = failures
        BY <3>1, <3>3 DEF Fetch!Settle, Fetch!KeepWindow
      <4> QED
        BY <4>1 DEF FetchTyped, FetchInv
    <3> QED
      BY <3>2, <3>3
  <2>2. CASE Fetch!TimePasses
    BY <2>2 DEF FetchInv, Fetch!TimePasses
  <2>3. CASE Fetch!Restart
    BY <2>3 DEF Fetch!Restart, Fetch!CloseWindow
  <2>4. CASE UNCHANGED fetchVars
    BY <2>4 DEF fetchVars, Fetch!vars
  <2> QED
    BY <2>1, <2>2, <2>3, <2>4 DEF Fetch!Next
<1> QED
  BY <1>1, FetchInvariant, PTL DEF Spec, WindowSpansOutage, Fetch!WindowSpansOutage

-----------------------------------------------------------------------------
(* The trade-rate alarm: with each variable on its own.                    *)
RateTyped ==
    /\ hot \subseteq Names /\ disabled \subseteq Names /\ todo \subseteq Names
    /\ tripped \subseteq Names /\ byHand \subseteq Names
    /\ rateChecks \in {"idle", "counted", "loop"}
    /\ rateAlerts \in [Names -> Nat]

(* What was announced is remembered, and a check has nothing to do with a  *)
(* strategy that is remembered.                                            *)
RateInv ==
    /\ \A s \in Names : rateAlerts[s] > 0 => s \in tripped
    /\ rateChecks = "loop" => todo \cap tripped = {}

LEMMA RateStepTyped ==
  ASSUME RateTyped, RateInv, [Rate!Next]_rateVars PROVE RateTyped' /\ RateInv'
<1> USE DEF RateTyped, RateInv
<1>1. CASE Rate!CountTrades
  BY <1>1 DEF Rate!CountTrades
<1>2. CASE Rate!ReadDisabled
  BY <1>2 DEF Rate!ReadDisabled
<1>3. CASE Rate!ReadFails \/ Rate!LoopEnds
  BY <1>3 DEF Rate!ReadFails, Rate!LoopEnds
<1>4. CASE Rate!Restart
  BY <1>4 DEF Rate!Restart
<1>5. ASSUME NEW s \in Names, Rate!HeatUp(s) \/ Rate!CoolDown(s) \/ Rate!Enable(s) \/ Rate!Disable(s)
      PROVE  RateTyped' /\ RateInv'
  BY <1>5 DEF Rate!HeatUp, Rate!CoolDown, Rate!Enable, Rate!Disable, Rate!Env
<1>6. ASSUME NEW s \in Names, Rate!Trip(s) PROVE RateTyped' /\ RateInv'
  <2>1. rateAlerts' \in [Names -> Nat]
    BY <1>6 DEF Rate!Trip
  <2>2. \A t \in Names : rateAlerts'[t] > 0 => t \in tripped'
    BY <1>6 DEF Rate!Trip
  <2> QED
    BY <1>6, <2>1, <2>2 DEF Rate!Trip
<1>7. ASSUME NEW s \in Names, Rate!TripFails(s) PROVE RateTyped' /\ RateInv'
  BY <1>7 DEF Rate!TripFails
<1>8. CASE UNCHANGED rateVars
  BY <1>8 DEF rateVars
<1> QED
  BY <1>1, <1>2, <1>3, <1>4, <1>5, <1>6, <1>7, <1>8 DEF Rate!Next

LEMMA RateInvariant == Spec => [](RateTyped /\ RateInv)
<1>1. Init => RateTyped /\ RateInv
  BY DEF Init, Rate!Init, RateTyped, RateInv
<1>2. RateTyped /\ RateInv /\ [Next]_vars => RateTyped' /\ RateInv'
  BY StepOfATask, RateStepTyped
<1> QED
  BY <1>1, <1>2, PTL DEF Spec

(* A strategy the alarm has announced is not disabled by it again in this  *)
(* process, whatever the operator does between the steps of a check.       *)
THEOREM AlarmTripsOnce == Spec => OperatorHasLastWord
<1> DEFINE Word == \A s \in Names : rateAlerts[s] > 0 /\ s \notin disabled /\ s \in disabled'
                                     => s \in byHand'
<1>1. RateTyped /\ RateInv /\ [Next]_vars => [Word]_(Rate!vars)
  <2> SUFFICES ASSUME RateTyped, RateInv, [Rate!Next]_rateVars PROVE Word \/ UNCHANGED Rate!vars
    BY StepOfATask
  <2>1. CASE Rate!CountTrades \/ Rate!ReadDisabled \/ Rate!ReadFails \/ Rate!LoopEnds \/ Rate!Restart
    BY <2>1 DEF Rate!CountTrades, Rate!ReadDisabled, Rate!ReadFails, Rate!LoopEnds, Rate!Restart
  <2>2. ASSUME NEW s \in Names, Rate!HeatUp(s) \/ Rate!CoolDown(s) \/ Rate!Enable(s) \/ Rate!Disable(s)
        PROVE  Word
    BY <2>2 DEF Rate!HeatUp, Rate!CoolDown, Rate!Enable, Rate!Disable
  <2>3. ASSUME NEW s \in Names, Rate!Trip(s) \/ Rate!TripFails(s) PROVE Word
    <3>1. disabled' \subseteq disabled \cup {s} /\ s \notin tripped
      BY <2>3 DEF RateInv, Rate!Trip, Rate!TripFails
    <3>2. ~(rateAlerts[s] > 0)
      BY <3>1 DEF RateInv
    <3> QED
      BY <3>1, <3>2
  <2>4. CASE UNCHANGED rateVars
    BY <2>4 DEF rateVars, Rate!vars
  <2> QED
    BY <2>1, <2>2, <2>3, <2>4 DEF Rate!Next
<1> QED
  BY <1>1, RateInvariant, PTL DEF Spec, OperatorHasLastWord, Rate!OperatorHasLastWord

-----------------------------------------------------------------------------
(* The close alerts: with each variable on its own.                        *)
Streaks == [count : 0..WideBand + 1, told : 0..2,
            since : {"none", "firing", "quiet", "long"}]

CloseTyped ==
    /\ row \in BOOLEAN /\ managed \in BOOLEAN /\ noted \in BOOLEAN /\ band \in BOOLEAN
    /\ streak \in Streaks /\ heard \in [1..2 -> Nat]
    /\ drops \in 0..MaxDrops
    /\ unsent \subseteq 1..MaxDrops /\ unheard \subseteq 1..MaxDrops

(* What was heard of an episode is remembered for as long as it lasts: a   *)
(* level that was heard is at most the one told last.                      *)
CloseInv == \A l \in 1..2 : /\ heard[l] <= 1
                            /\ heard[l] = 1 => streak.told >= l /\ streak.since # "long"

LEMMA ForgottenStreak ==
  ASSUME Close!Forget PROVE streak' \in Streaks /\ heard' \in [1..2 -> Nat] /\ CloseInv'
<1>1. streak' = [count |-> 0, told |-> 0, since |-> "none"] /\ heard' = [l \in 1..2 |-> 0]
  BY DEF Close!Forget, Close!NoStreak, Close!NothingHeard
<1>2. WideBand \in Nat
  BY TasksConstants DEF Close!CloseAlertsConstants
<1> QED
  BY <1>1, <1>2 DEF Streaks, CloseInv

(* A miss is heard at its level unless that one was told in this episode.  *)
LEMMA MissHeardOnce ==
  ASSUME CloseTyped, CloseInv, Close!Rejected
  PROVE  /\ streak' \in Streaks /\ heard' \in [1..2 -> Nat] /\ CloseInv'
         /\ heard'[2] > heard[2] => streak.count >= WideBand
         /\ heard'[1] > heard[1] => ~(streak.count >= WideBand)
<1> DEFINE told == IF Close!News THEN 0 ELSE streak.told
           n == IF streak.count < WideBand + 1 THEN streak.count + 1 ELSE WideBand + 1
           level == IF n > WideBand THEN 2 ELSE 1
<1>1. PICK taken \in BOOLEAN :
         /\ streak' = [count |-> n, since |-> "firing",
                        told |-> IF told < level /\ taken THEN level ELSE told]
         /\ heard' = IF told < level /\ taken THEN [heard EXCEPT ![level] = @ + 1] ELSE heard
  BY DEF Close!Rejected, Close!Most
<1>2. /\ WideBand \in Nat /\ streak.count \in 0..WideBand + 1 /\ streak.told \in 0..2
      /\ heard \in [1..2 -> Nat]
  BY TasksConstants DEF Close!CloseAlertsConstants, CloseTyped, Streaks
<1>3. /\ told \in 0..2 /\ n \in 0..WideBand + 1 /\ level \in {1, 2}
      /\ level = 2 <=> streak.count >= WideBand
  BY <1>2
<1>4. \A l \in 1..2 : heard[l] = 0 \/ (heard[l] = 1 /\ told >= l)
  BY <1>2 DEF CloseInv, Close!News
<1> HIDE DEF told, n, level
<1>5. CASE told < level /\ taken
  <2>1. /\ streak' = [count |-> n, since |-> "firing", told |-> level]
        /\ heard' = [heard EXCEPT ![level] = @ + 1]
    BY <1>1, <1>5
  <2>2. heard[level] = 0 /\ heard'[level] = 1 /\ heard' \in [1..2 -> Nat]
    BY <1>2, <1>3, <1>4, <1>5, <2>1
  <2>3. \A l \in 1..2 : l # level => heard'[l] = heard[l]
    BY <1>2, <2>1
  <2>4. streak' \in Streaks /\ streak'.told = level /\ streak'.since = "firing"
    BY <1>2, <1>3, <2>1 DEF Streaks
  <2>5. CloseInv'
    BY <1>2, <1>3, <1>4, <1>5, <2>2, <2>3, <2>4 DEF CloseInv
  <2> QED
    BY <1>2, <1>3, <2>2, <2>3, <2>4, <2>5
<1>6. CASE ~(told < level /\ taken)
  <2>1. streak' = [count |-> n, since |-> "firing", told |-> told] /\ heard' = heard
    BY <1>1, <1>6
  <2>2. streak' \in Streaks /\ streak'.told = told /\ streak'.since = "firing"
    BY <1>2, <1>3, <2>1 DEF Streaks
  <2> QED
    BY <1>2, <1>4, <2>1, <2>2 DEF CloseInv
<1> QED
  BY <1>5, <1>6

LEMMA CloseStepTyped ==
  ASSUME CloseTyped, CloseInv, [Close!Next]_closeVars PROVE CloseTyped' /\ CloseInv'
<1>0. MaxDrops \in Nat /\ WideBand \in Nat
  BY TasksConstants DEF Close!CloseAlertsConstants
<1>1. CASE Close!Filled \/ Close!Gone \/ Close!ClosedOutside
  <2>1. Close!Forget /\ row' \in BOOLEAN /\ UNCHANGED <<unsent, unheard, drops>>
    BY <1>1 DEF Close!Filled, Close!Gone, Close!ClosedOutside
  <2>2. managed' \in BOOLEAN /\ band' \in BOOLEAN /\ noted' \in BOOLEAN
    BY <1>1, <2>1 DEF Close!Filled, Close!Gone, Close!ClosedOutside, CloseTyped
  <2> QED
    BY <2>1, <2>2, ForgottenStreak DEF CloseTyped
<1>2. CASE Close!Missed
  <2>1. Close!Rejected /\ UNCHANGED <<row, managed, noted, unsent, unheard, drops>>
    BY <1>2 DEF Close!Missed
  <2>2. band' \in BOOLEAN
    BY <1>0, <1>2 DEF Close!Missed, Close!Wide
  <2> QED
    BY <2>1, <2>2, MissHeardOnce DEF CloseTyped
<1>3. CASE Close!ExitQuiet
  <2>1. streak' \in Streaks /\ streak'.told = streak.told /\ streak'.since = "quiet"
    <3>1. streak \in Streaks /\ 0 \in 0..WideBand + 1
      BY <1>0 DEF CloseTyped
    <3>2. streak' = [count |-> 0, told |-> streak.told, since |-> "quiet"]
      BY <1>3, <3>1 DEF Close!ExitQuiet, Streaks
    <3> QED
      BY <3>1, <3>2 DEF Streaks
  <2>2. band' \in BOOLEAN
    BY <1>3 DEF Close!ExitQuiet
  <2> QED
    BY <1>3, <2>1, <2>2 DEF Close!ExitQuiet, CloseTyped, CloseInv
<1>4. CASE Close!TimePasses
  <2>1. streak' \in Streaks
    BY <1>4 DEF Close!TimePasses, CloseTyped, Streaks
  <2> QED
    BY <1>4, <2>1 DEF Close!TimePasses, Close!NothingHeard, CloseTyped, CloseInv
<1>5. CASE Close!NewBar
  BY <1>5 DEF Close!NewBar, CloseTyped, CloseInv
<1>6. CASE Close!Opened
  BY <1>6 DEF Close!Opened, CloseTyped, CloseInv
<1>7. CASE Close!Restart
  <2>1. band' \in BOOLEAN /\ noted' \in BOOLEAN /\ managed' \in BOOLEAN
    BY <1>7 DEF Close!Restart, CloseTyped
  <2>2. Close!Forget /\ unsent' = {} /\ unheard' = {} /\ UNCHANGED <<row, drops>>
    BY <1>7 DEF Close!Restart
  <2> QED
    BY <2>1, <2>2, ForgottenStreak DEF CloseTyped
<1>8. ASSUME NEW why \in {"beside", "unreadable", "unknown"}, Close!Dropped(why)
      PROVE  CloseTyped' /\ CloseInv'
  <2>0. drops' \in 1..MaxDrops /\ Close!Forget /\ row' = row
    BY <1>0, <1>8 DEF Close!Dropped, CloseTyped
  <2>1. unsent' \subseteq 1..MaxDrops /\ unheard' \subseteq 1..MaxDrops
    <3>1. UNCHANGED <<unsent, unheard>> \/ Close!TellOrKeep
      BY <1>8 DEF Close!Dropped
    <3>2. CASE Close!TellOrKeep
      <4>1. PICK owed \in {{}, {drops'}} : unsent' = unsent \cup owed /\ unheard' = unheard \cup owed
        BY <3>2 DEF Close!TellOrKeep
      <4>2. owed \subseteq 1..MaxDrops
        BY <2>0
      <4> QED
        BY <4>1, <4>2 DEF CloseTyped
    <3> QED
      BY <3>1, <3>2 DEF CloseTyped
  <2>2. managed' \in BOOLEAN /\ band' \in BOOLEAN
    BY <1>8 DEF Close!Dropped
  <2>3. noted' \in BOOLEAN
    BY <1>8 DEF Close!Dropped, CloseTyped
  <2> QED
    BY <2>0, <2>1, <2>2, <2>3, ForgottenStreak DEF CloseTyped
<1>9. ASSUME NEW left \in SUBSET unsent, Close!Resend(left) PROVE CloseTyped' /\ CloseInv'
  BY <1>9 DEF Close!Resend, CloseTyped, CloseInv
<1>10. CASE UNCHANGED closeVars
  BY <1>10 DEF closeVars, CloseTyped, CloseInv
<1> QED
  BY <1>1, <1>2, <1>3, <1>4, <1>5, <1>6, <1>7, <1>8, <1>9, <1>10 DEF Close!Next

LEMMA CloseInvariant == Spec => [](CloseTyped /\ CloseInv)
<1>1. Init => CloseTyped /\ CloseInv
  <2> SUFFICES ASSUME Init PROVE CloseTyped /\ CloseInv
    OBVIOUS
  <2>1. row \in BOOLEAN /\ managed \in BOOLEAN /\ noted \in BOOLEAN /\ band \in BOOLEAN
    BY DEF Init, Close!Init
  <2>2. MaxDrops \in Nat /\ WideBand \in Nat
    BY TasksConstants DEF Close!CloseAlertsConstants
  <2>3. streak = [count |-> 0, told |-> 0, since |-> "none"] /\ heard = [l \in 1..2 |-> 0]
    BY DEF Init, Close!Init, Close!NoStreak, Close!NothingHeard
  <2>4. streak \in Streaks /\ heard \in [1..2 -> Nat] /\ CloseInv
    BY <2>2, <2>3 DEF Streaks, CloseInv
  <2> QED
    BY <2>1, <2>2, <2>4 DEF Init, Close!Init, CloseTyped
<1>2. CloseTyped /\ CloseInv /\ [Next]_vars => CloseTyped' /\ CloseInv'
  BY StepOfATask, CloseStepTyped
<1> QED
  BY <1>1, <1>2, PTL DEF Spec

(* An exit that comes and goes is one episode: each level is heard once.   *)
THEOREM EachLevelHeardOnce == Spec => []OneAlertPerLevel
<1>1. CloseInv => OneAlertPerLevel
  BY DEF CloseInv, OneAlertPerLevel, Close!OneAlertPerLevel
<1> QED
  BY <1>1, CloseInvariant, PTL

(* A critical alert is about a miss with the wide band, the first never.   *)
THEOREM CriticalMeansWide == Spec => CriticalWithTheWideBand
<1> DEFINE Says == /\ heard'[2] > heard[2] => band'
                   /\ heard'[1] > heard[1] => ~band'
<1>1. CloseTyped /\ CloseInv /\ [Next]_vars => [Says]_(Close!vars)
  <2> SUFFICES ASSUME CloseTyped, CloseInv, [Close!Next]_closeVars
               PROVE  Says \/ UNCHANGED Close!vars
    BY StepOfATask
  <2>1. heard[1] \in Nat /\ heard[2] \in Nat
    BY DEF CloseTyped
  <2>2. CASE Close!Missed
    BY <2>2, MissHeardOnce DEF Close!Missed, Close!Wide
  <2>3. ASSUME heard' = heard \/ heard' = Close!NothingHeard PROVE Says
    BY <2>1, <2>3 DEF Close!NothingHeard
  <2>4. CASE Close!Filled \/ Close!Gone \/ Close!ExitQuiet \/ Close!TimePasses \/ Close!NewBar
             \/ Close!ClosedOutside \/ Close!Opened \/ Close!Restart
    BY <2>3, <2>4, Zenon DEF Close!Filled, Close!Gone, Close!ExitQuiet, Close!TimePasses,
       Close!NewBar, Close!ClosedOutside, Close!Opened, Close!Restart, Close!Forget
  <2>5. ASSUME NEW why, Close!Dropped(why) PROVE Says
    BY <2>3, <2>5 DEF Close!Dropped, Close!Forget
  <2>6. ASSUME NEW left, Close!Resend(left) PROVE Says
    BY <2>3, <2>6 DEF Close!Resend
  <2>7. CASE UNCHANGED closeVars
    BY <2>7 DEF closeVars, Close!vars
  <2> QED
    BY <2>2, <2>4, <2>5, <2>6, <2>7 DEF Close!Next
<1> QED
  BY <1>1, CloseInvariant, PTL DEF Spec, CriticalWithTheWideBand, Close!CriticalWithTheWideBand

-----------------------------------------------------------------------------
(* The funding ingest: with each variable on its own.                      *)
Readers == [pc : {"idle", "fetch", "insert", "done"},
            cursor : -(Lookback + Overlap)..MaxTime, pages : Nat, page : SUBSET Nat]

FundingTyped ==
    /\ now \in 0..MaxTime /\ floor \in 0..MaxTime
    /\ paid \in Seq(0..MaxTime) /\ inTable \subseteq DOMAIN paid
    /\ reader \in [Funding!Actors -> Readers]
    /\ \A a \in Funding!Actors : reader[a].page \subseteq DOMAIN paid

(* The exchange lists its payments in the order of their times.            *)
Listed == \A i, j \in DOMAIN paid : paid[i] <= now /\ (i < j => paid[i] <= paid[j])

(* What an actor relies on: everything before its cursor is stored, back to *)
(* where one began behind a gap; and the page in hand leaves nothing out    *)
(* between the cursor and its newest payment.                              *)
Covered(a) == \A i \in DOMAIN paid :
                 floor <= paid[i] /\ paid[i] < reader[a].cursor => i \in inTable

InHand(a) == /\ reader[a].page # {}
             /\ \A j \in reader[a].page :
                   /\ paid[j] >= reader[a].cursor
                   /\ \A i \in DOMAIN paid :
                         paid[i] >= reader[a].cursor /\ paid[i] < paid[j]
                         => i \in reader[a].page

Sound(a) == /\ reader[a].pc \in {"fetch", "insert"} => reader[a].cursor <= now /\ Covered(a)
            /\ reader[a].pc = "insert" => InHand(a)

FundingInv == /\ Listed /\ NoHole
              /\ \A a \in Funding!Actors : Sound(a)

-----------------------------------------------------------------------------
LEMMA LeastExists ==
  ASSUME NEW S \in SUBSET Nat, S # {} PROVE \E x \in S : \A y \in S : x <= y
<1>1. PICK x \in S : \A y \in S : ~(<<y, x>> \in OpToRel(<, Nat))
  BY WFMin, NatLessThanWellFounded, Zenon
<1>2. \A y \in S : ~(y < x)
  BY <1>1 DEF OpToRel
<1> QED
  BY <1>2

LEMMA FundingBounds ==
  /\ Lookback \in Nat /\ Overlap \in Nat /\ MaxTime \in Nat /\ PageCap \in Nat \ {0}
  BY TasksConstants DEF Funding!FundingConstants

(* The newest of some payments is the time of one of them.                 *)
LEMMA NewestIsOneOfThem ==
  ASSUME paid \in Seq(0..MaxTime), NEW P \in SUBSET DOMAIN paid, P # {}
  PROVE  /\ \E j \in P : Funding!Newest(P) = paid[j]
         /\ \A i \in P : paid[i] <= Funding!Newest(P)
         /\ Funding!Newest(P) \in 0..MaxTime
<1> DEFINE S == {paid[i] : i \in P}
<1>0. \A i \in P : paid[i] \in 0..MaxTime
  <2>1. paid \in [1..Len(paid) -> 0..MaxTime] /\ DOMAIN paid = 1..Len(paid)
    BY LenProperties
  <2> QED
    BY <2>1
<1>1. S \subseteq 0..MaxTime /\ S # {}
  BY <1>0
<1>2. IsFiniteSet(0..MaxTime)
  BY FundingBounds, FS_Interval
<1>3. \A i \in P : paid[i] \in S
  OBVIOUS
<1>4. \A x \in S : \E i \in P : x = paid[i]
  OBVIOUS
<1>5. Funding!Newest(P) = CHOOSE x \in S : \A y \in S : x >= y
  BY DEF Funding!Newest, Funding!Max
<1> HIDE DEF S
<1>6. IsFiniteSet(S) /\ S \in SUBSET Int
  <2>1. 0..MaxTime \subseteq Int
    BY FundingBounds
  <2>2. S \in SUBSET (0..MaxTime)
    BY <1>1
  <2> QED
    BY <1>2, <2>1, <2>2, FS_Subset
<1>7. HasGreatest(S)
  BY <1>1, <1>6, GreatestExists
<1>8. Funding!Newest(P) \in S /\ \A y \in S : Funding!Newest(P) >= y
  BY <1>5, <1>7, Zenon DEF HasGreatest
<1> QED
  BY <1>1, <1>3, <1>4, <1>8

LEMMA LaterOfTwo ==
  ASSUME NEW x \in Int, NEW y \in Int
  PROVE  Funding!Max({x, y}) \in {x, y} /\ Funding!Max({x, y}) >= x /\ Funding!Max({x, y}) >= y
<1>1. Funding!Max({x, y}) = CHOOSE m \in {x, y} : \A n \in {x, y} : m >= n
  BY DEF Funding!Max
<1>2. \E m \in {x, y} : \A n \in {x, y} : m >= n
  OBVIOUS
<1> DEFINE m == CHOOSE k \in {x, y} : \A n \in {x, y} : k >= n
<1>3. m \in {x, y} /\ \A n \in {x, y} : m >= n
  BY <1>2, Zenon
<1> QED
  BY <1>1, <1>3

(* A page is not empty, and starts with the oldest payment that is due.    *)
LEMMA PageInHand ==
  ASSUME FundingTyped, Listed, NEW a \in Funding!Actors, Funding!Due(a) # {}
  PROVE  /\ Funding!Page(a) # {} /\ Funding!Page(a) \subseteq DOMAIN paid
         /\ \A j \in Funding!Page(a) :
              /\ paid[j] >= reader[a].cursor
              /\ \A i \in DOMAIN paid :
                    paid[i] >= reader[a].cursor /\ paid[i] < paid[j] => i \in Funding!Page(a)
<1> DEFINE D == Funding!Due(a)
<1>1. D = {i \in DOMAIN paid : paid[i] >= reader[a].cursor}
  BY DEF Funding!Due
<1>2. /\ DOMAIN paid \subseteq Nat /\ \A i \in DOMAIN paid : paid[i] \in Int
      /\ reader[a].cursor \in Int
  BY FundingBounds DEF FundingTyped, Readers
<1>3. D \in SUBSET Nat
  BY <1>1, <1>2
<1>4. Funding!Min(D) = CHOOSE x \in D : \A y \in D : x <= y
  BY DEF Funding!Min
<1>5. Funding!Page(a) = {i \in D : i < Funding!Min(D) + PageCap}
  BY DEF Funding!Page
<1> HIDE DEF D
<1>6. \E x \in D : \A y \in D : x <= y
  BY <1>3, LeastExists DEF D
<1>7. PICK m \in D : m = Funding!Min(D) /\ \A y \in D : m <= y
  BY <1>4, <1>6, Zenon
<1>8. Funding!Page(a) = {i \in D : i < m + PageCap} /\ m \in Funding!Page(a)
  <2>1. m \in Nat /\ m < m + PageCap
    BY <1>3, FundingBounds
  <2> QED
    BY <1>5, <1>7, <2>1
<1>9. ASSUME NEW j \in Funding!Page(a), NEW i \in DOMAIN paid,
             paid[i] >= reader[a].cursor, paid[i] < paid[j]
      PROVE  i \in Funding!Page(a)
  <2>1. j \in D /\ i \in D /\ j \in DOMAIN paid
    BY <1>1, <1>5, <1>9
  <2>2. i < j
    BY <1>2, <1>9, <2>1 DEF Listed
  <2> QED
    <3>1. i \in Nat /\ j \in Nat /\ m \in Nat /\ j < m + PageCap
      BY <1>3, <1>8, <2>1
    <3> QED
      BY <1>8, <2>1, <2>2, <3>1, FundingBounds
<1> QED
  BY <1>1, <1>5, <1>8, <1>9

-----------------------------------------------------------------------------
(* How the list, the table, the floor and the time change: they grow, and  *)
(* what is new in the list happened now.                                   *)
Grows ==
    /\ DOMAIN paid \subseteq DOMAIN paid'
    /\ \A i \in DOMAIN paid : paid'[i] = paid[i]
    /\ \A i \in DOMAIN paid' \ DOMAIN paid : paid'[i] = now
    /\ inTable \subseteq inTable' /\ floor <= floor' /\ now <= now'

LEMMA PaidTimes ==
  ASSUME FundingTyped
  PROVE  /\ \A i \in DOMAIN paid : i \in Nat /\ paid[i] \in 0..MaxTime
         /\ now \in Int /\ floor \in Int
         /\ \A a \in Funding!Actors : reader[a].cursor \in Int
<1>1. paid \in [1..Len(paid) -> 0..MaxTime] /\ DOMAIN paid = 1..Len(paid) /\ Len(paid) \in Nat
  BY LenProperties DEF FundingTyped
<1>2. \A a \in Funding!Actors : reader[a].cursor \in -(Lookback + Overlap)..MaxTime
  BY DEF FundingTyped, Readers
<1> QED
  BY <1>1, <1>2, FundingBounds DEF FundingTyped

LEMMA PayAppends ==
  ASSUME FundingTyped, Listed, Funding!Pay
  PROVE  FundingTyped' /\ Listed' /\ Grows
<1>1. paid' = Append(paid, now) /\ UNCHANGED <<now, inTable, reader, floor>>
  BY DEF Funding!Pay
<1>2. /\ paid' \in Seq(0..MaxTime) /\ Len(paid') = Len(paid) + 1 /\ Len(paid) \in Nat
      /\ \A i \in 1..Len(paid) : paid'[i] = paid[i]
      /\ paid'[Len(paid) + 1] = now
  BY <1>1, AppendProperties, LenProperties DEF FundingTyped
<1>3. DOMAIN paid = 1..Len(paid) /\ DOMAIN paid' = 1..Len(paid) + 1
  BY <1>2, LenProperties DEF FundingTyped
<1>4. Grows
  BY <1>1, <1>2, <1>3, PaidTimes DEF Grows
<1>5. FundingTyped'
  BY <1>1, <1>2, <1>3 DEF FundingTyped
<1>6. Listed'
  BY <1>1, <1>2, <1>3, PaidTimes DEF Listed
<1> QED
  BY <1>4, <1>5, <1>6

(* Nothing that grows takes away what an actor relies on: its cursor is no *)
(* later than what is paid from now on.                                    *)
LEMMA ActorStays ==
  ASSUME FundingTyped, FundingTyped', Listed, Grows,
         NEW a \in Funding!Actors, Sound(a), reader'[a] = reader[a]
  PROVE  Sound(a)'
<1> DEFINE r == reader[a]
<1>0. /\ \A i \in DOMAIN paid : paid[i] \in Int
      /\ now \in Int /\ floor \in Int /\ now' \in Int /\ floor' \in Int /\ r.cursor \in Int
  BY PaidTimes, FundingBounds DEF FundingTyped
<1>1. ASSUME r.pc \in {"fetch", "insert"} PROVE r.cursor <= now' /\ Covered(a)'
  <2>1. r.cursor <= now /\ Covered(a)
    BY <1>1 DEF Sound
  <2>2. ASSUME NEW i \in DOMAIN paid', floor' <= paid'[i], paid'[i] < r.cursor
        PROVE  i \in inTable'
    <3>1. i \in DOMAIN paid
      BY <1>0, <2>1, <2>2 DEF Grows
    <3>2. paid'[i] = paid[i] /\ floor <= paid[i]
      BY <1>0, <2>2, <3>1 DEF Grows
    <3> QED
      BY <2>1, <2>2, <3>1, <3>2 DEF Covered, Grows
  <2> QED
    BY <1>0, <2>1, <2>2 DEF Covered, Grows
<1>2. ASSUME r.pc = "insert" PROVE InHand(a)'
  <2>1. InHand(a) /\ r.page \subseteq DOMAIN paid
    BY <1>2 DEF Sound, FundingTyped
  <2>2. ASSUME NEW j \in r.page PROVE paid'[j] = paid[j] /\ paid'[j] >= r.cursor
    BY <2>1, <2>2 DEF InHand, Grows
  <2>3. ASSUME NEW j \in r.page, NEW i \in DOMAIN paid', paid'[i] >= r.cursor, paid'[i] < paid'[j]
        PROVE  i \in r.page
    <3>1. paid'[j] = paid[j] /\ paid[j] <= now /\ j \in DOMAIN paid
      BY <2>1, <2>2 DEF Listed
    <3>2. i \in DOMAIN paid
      BY <1>0, <2>3, <3>1 DEF Grows
    <3> QED
      BY <2>1, <2>3, <3>1, <3>2 DEF InHand, Grows
  <2> QED
    BY <2>1, <2>2, <2>3 DEF InHand
<1> QED
  BY <1>1, <1>2 DEF Sound

(* What is stored stays without a hole while only the list grows.          *)
LEMMA NoHoleStays ==
  ASSUME FundingTyped, FundingTyped', Listed, NoHole, Grows, inTable' = inTable
  PROVE  NoHole'
<1>0. /\ \A i \in DOMAIN paid : paid[i] \in Int
      /\ now \in Int /\ floor \in Int /\ floor' \in Int
  BY PaidTimes, FundingBounds DEF FundingTyped
<1> SUFFICES ASSUME NEW i \in DOMAIN paid', NEW j \in inTable,
                    floor' <= paid'[i], paid'[i] < paid'[j]
             PROVE  i \in inTable
  BY DEF NoHole, Funding!NoHole
<1>1. j \in DOMAIN paid /\ paid'[j] = paid[j] /\ paid[j] <= now
  BY DEF FundingTyped, Grows, Listed
<1>2. i \in DOMAIN paid /\ paid'[i] = paid[i]
  BY <1>0, <1>1 DEF Grows
<1> QED
  BY <1>0, <1>1, <1>2 DEF NoHole, Funding!NoHole, Grows

-----------------------------------------------------------------------------
(* An actor that begins finds everything before its start stored, or       *)
(* raises the floor to it.                                                 *)
LEMMA BeginKeeps ==
  ASSUME FundingTyped, FundingInv, NEW a \in Funding!Actors,
         NEW start \in -(Lookback + Overlap)..MaxTime, start <= now, Funding!Begin(a, start)
  PROVE  FundingTyped' /\ FundingInv'
<1> USE FundingBounds
<1>0. start \in Int /\ floor \in 0..MaxTime
  BY DEF FundingTyped
<1> DEFINE begun == [Funding!Idle EXCEPT !.pc = "fetch", !.cursor = start]
<1>1. /\ reader' = [reader EXCEPT ![a] = begun]
      /\ floor' = (IF Funding!Behind(start) THEN Funding!Max({floor, start}) ELSE floor)
      /\ UNCHANGED <<now, paid, inTable>>
  BY Zenon DEF Funding!Begin
<1>2. /\ reader'[a].pc = "fetch" /\ reader'[a].cursor = start /\ reader'[a].page = {}
      /\ \A b \in Funding!Actors : b # a => reader'[b] = reader[b]
      /\ reader' \in [Funding!Actors -> Readers]
  <2>1. Funding!Idle \in Readers /\ Funding!Idle.page = {}
    BY DEF Funding!Idle, Readers
  <2>2. begun \in Readers /\ begun.pc = "fetch" /\ begun.cursor = start /\ begun.page = {}
    <3> DEFINE C == -(Lookback + Overlap)..MaxTime
    <3>1. start \in C /\ Readers = [pc : {"idle", "fetch", "insert", "done"}, cursor : C,
                                     pages : Nat, page : SUBSET Nat]
      BY DEF Readers
    <3> HIDE DEF C
    <3> QED
      BY <2>1, <3>1
  <2> HIDE DEF begun
  <2> QED
    BY <1>1, <2>2 DEF FundingTyped
<1>3. floor' \in 0..MaxTime /\ floor <= floor' /\ (Funding!Behind(start) => start <= floor')
  <2>1. /\ Funding!Max({floor, start}) \in {floor, start}
        /\ Funding!Max({floor, start}) >= floor /\ Funding!Max({floor, start}) >= start
    BY <1>0, LaterOfTwo
  <2> QED
    BY <1>0, <1>1, <2>1
<1>4. FundingTyped'
  <2>1. \A b \in Funding!Actors : reader'[b].page \subseteq DOMAIN paid'
    BY <1>1, <1>2 DEF FundingTyped
  <2> QED
    BY <1>1, <1>2, <1>3, <2>1 DEF FundingTyped
<1>5. Grows
  BY <1>1, <1>3 DEF Grows, FundingTyped
<1>6. Listed' /\ NoHole'
  BY <1>1, <1>4, <1>5, NoHoleStays DEF Listed, FundingInv
<1>7. Covered(a)'
  <2> SUFFICES ASSUME NEW i \in DOMAIN paid, floor' <= paid[i], paid[i] < start
               PROVE  i \in inTable
    BY <1>1, <1>2 DEF Covered
  <2>0. paid[i] \in Int /\ floor' \in Int
    BY <1>3, PaidTimes
  <2>1. ~Funding!Behind(start)
    BY <1>0, <1>3, <2>0
  <2>2. inTable # {} /\ ~(start > Funding!Newest(inTable))
    BY <2>1 DEF Funding!Behind
  <2>3. PICK j \in inTable : Funding!Newest(inTable) = paid[j]
    BY <2>2, NewestIsOneOfThem DEF FundingTyped
  <2>4. paid[i] < paid[j]
    BY <1>0, <2>0, <2>2, <2>3, PaidTimes DEF FundingTyped
  <2>5. floor <= paid[i]
    BY <1>0, <1>3, <2>0
  <2> QED
    BY <2>4, <2>5 DEF FundingInv, NoHole, Funding!NoHole
<1>8. Sound(a)'
  BY <1>1, <1>2, <1>7 DEF Sound
<1>9. ASSUME NEW b \in Funding!Actors, b # a PROVE Sound(b)'
  BY <1>2, <1>4, <1>5, <1>9, ActorStays DEF FundingInv
<1> QED
  BY <1>4, <1>6, <1>8, <1>9 DEF FundingInv

(* The actors that are not the one that moves, and what is stored, while   *)
(* the list, the table, the floor and the time stay.                       *)
LEMMA OthersStay ==
  ASSUME FundingTyped, FundingTyped', FundingInv, NEW a \in Funding!Actors,
         UNCHANGED <<now, paid, floor>>, inTable \subseteq inTable',
         \A b \in Funding!Actors : b # a => reader'[b] = reader[b]
  PROVE  /\ Listed' /\ (inTable' = inTable => NoHole')
         /\ \A b \in Funding!Actors : b # a => Sound(b)'
<1>1. Grows
  BY FundingBounds DEF Grows, FundingTyped
<1>2. Listed'
  BY DEF Listed, FundingInv
<1>3. inTable' = inTable => NoHole'
  BY <1>1, NoHoleStays DEF FundingInv
<1>4. ASSUME NEW b \in Funding!Actors, b # a PROVE Sound(b)'
  BY <1>1, <1>4, ActorStays DEF FundingInv
<1> QED
  BY <1>2, <1>3, <1>4

LEMMA FetchKeeps ==
  ASSUME FundingTyped, FundingInv, NEW a \in Funding!Actors, Funding!Fetch(a)
  PROVE  FundingTyped' /\ FundingInv'
<1>1. /\ reader[a].pc = "fetch" /\ Funding!Due(a) # {}
      /\ reader' = [reader EXCEPT ![a].pc = "insert", ![a].page = Funding!Page(a),
                                  ![a].pages = @ + 1]
      /\ UNCHANGED <<now, paid, inTable, floor>>
  BY DEF Funding!Fetch
<1> DEFINE r == reader[a]
<1>2. /\ Funding!Page(a) # {} /\ Funding!Page(a) \subseteq DOMAIN paid
      /\ \A j \in Funding!Page(a) :
           /\ paid[j] >= r.cursor
           /\ \A i \in DOMAIN paid :
                 paid[i] >= r.cursor /\ paid[i] < paid[j] => i \in Funding!Page(a)
  BY <1>1, PageInHand DEF FundingInv
<1>3. Funding!Page(a) \in SUBSET Nat
  BY <1>2, PaidTimes
<1>4. /\ reader'[a] = [pc |-> "insert", cursor |-> r.cursor, pages |-> r.pages + 1,
                       page |-> Funding!Page(a)]
      /\ reader'[a] \in Readers
      /\ \A b \in Funding!Actors : b # a => reader'[b] = reader[b]
      /\ reader' \in [Funding!Actors -> Readers]
  BY <1>1, <1>3, SMTT(30) DEF FundingTyped, Readers
<1>5. FundingTyped'
  <2>1. \A b \in Funding!Actors : reader'[b].page \subseteq DOMAIN paid'
    BY <1>1, <1>2, <1>4 DEF FundingTyped
  <2> QED
    BY <1>1, <1>4, <2>1 DEF FundingTyped
<1>6. Covered(a)' /\ reader'[a].cursor <= now'
  BY <1>1, <1>4 DEF FundingInv, Sound, Covered
<1>7. InHand(a)'
  BY <1>1, <1>2, <1>4 DEF InHand
<1>8. Sound(a)'
  BY <1>6, <1>7 DEF Sound
<1> QED
  BY <1>1, <1>4, <1>5, <1>8, OthersStay DEF FundingInv

LEMMA StopKeeps ==
  ASSUME FundingTyped, FundingInv, NEW a \in Funding!Actors, Funding!Stop(a)
  PROVE  FundingTyped' /\ FundingInv'
<1>1. reader' = [reader EXCEPT ![a] = Funding!Ended(a)] /\ UNCHANGED <<now, paid, inTable, floor>>
  BY DEF Funding!Stop
<1>2. /\ Funding!Ended(a) \in Readers /\ Funding!Ended(a).pc \in {"idle", "done"}
      /\ Funding!Ended(a).page = {}
  BY FundingBounds DEF Funding!Ended, Funding!Idle, Readers
<1>3. /\ reader'[a] = Funding!Ended(a) /\ reader' \in [Funding!Actors -> Readers]
      /\ \A b \in Funding!Actors : b # a => reader'[b] = reader[b]
  BY <1>1, <1>2 DEF FundingTyped
<1>4. FundingTyped'
  <2>1. \A b \in Funding!Actors : reader'[b].page \subseteq DOMAIN paid'
    BY <1>1, <1>2, <1>3 DEF FundingTyped
  <2> QED
    BY <1>1, <1>3, <2>1 DEF FundingTyped
<1>5. Sound(a)'
  BY <1>2, <1>3 DEF Sound
<1> QED
  BY <1>1, <1>3, <1>4, <1>5, OthersStay DEF FundingInv

-----------------------------------------------------------------------------
(* A page that is stored leaves no hole behind its newest payment, where   *)
(* its actor goes on.                                                      *)
LEMMA PageLeavesNoHole ==
  ASSUME FundingTyped, FundingInv, NEW a \in Funding!Actors, Funding!Insert(a),
         NEW i \in DOMAIN paid, NEW j \in reader[a].page, floor <= paid[i], paid[i] < paid[j]
  PROVE  i \in inTable'
<1>1. InHand(a) /\ Covered(a) /\ inTable' = inTable \cup reader[a].page
  BY DEF FundingInv, Sound, Funding!Insert, Funding!Merged
<1>2. CASE paid[i] < reader[a].cursor
  BY <1>1, <1>2 DEF Covered
<1>3. CASE paid[i] >= reader[a].cursor
  BY <1>1, <1>3 DEF InHand
<1> QED
  BY <1>2, <1>3, PaidTimes

LEMMA InsertKeeps ==
  ASSUME FundingTyped, FundingInv, NEW a \in Funding!Actors, Funding!Insert(a)
  PROVE  FundingTyped' /\ FundingInv'
<1> DEFINE r == reader[a]
<1>0. r \in Readers /\ r.page \subseteq DOMAIN paid /\ r.page # {} /\ r.pc = "insert"
  BY DEF FundingTyped, FundingInv, Sound, InHand, Funding!Insert
<1>1. /\ reader' = [reader EXCEPT ![a] =
                      IF Funding!GoesOn(a)
                      THEN [@ EXCEPT !.pc = "fetch", !.page = {},
                                     !.cursor = Funding!NextCursor(r.page)]
                      ELSE Funding!Ended(a)]
      /\ inTable' = inTable \cup r.page /\ UNCHANGED <<now, paid, floor>>
  BY DEF Funding!Insert, Funding!Merged
<1>2. PICK j \in r.page : Funding!Newest(r.page) = paid[j] /\ paid[j] \in 0..MaxTime
  BY <1>0, NewestIsOneOfThem DEF FundingTyped
<1>3. /\ Funding!Ended(a) \in Readers /\ Funding!Ended(a).pc \in {"idle", "done"}
      /\ Funding!Ended(a).page = {}
  BY FundingBounds DEF Funding!Ended, Funding!Idle, Readers
<1> DEFINE on == [r EXCEPT !.pc = "fetch", !.page = {}, !.cursor = paid[j]]
<1>4. on \in Readers /\ on.pc = "fetch" /\ on.page = {} /\ on.cursor = paid[j]
  <2> DEFINE C == -(Lookback + Overlap)..MaxTime
             N == SUBSET Nat
  <2>1. paid[j] \in C /\ {} \in N /\ Readers = [pc : {"idle", "fetch", "insert", "done"},
                                              cursor : C, pages : Nat, page : N]
    BY <1>2, FundingBounds DEF Readers
  <2> HIDE DEF C, N
  <2> QED
    BY <1>0, <2>1
<1>5. reader'[a] = on \/ reader'[a] = Funding!Ended(a)
  BY <1>1, <1>2 DEF FundingTyped, Funding!NextCursor
<1> HIDE DEF on
<1>6. /\ reader' \in [Funding!Actors -> Readers]
      /\ \A b \in Funding!Actors : b # a => reader'[b] = reader[b]
  <2>1. /\ DOMAIN reader' = Funding!Actors
        /\ \A b \in Funding!Actors : b # a => reader'[b] = reader[b]
    BY <1>1 DEF FundingTyped
  <2>2. reader' = [b \in Funding!Actors |-> reader'[b]]
    BY <1>1 DEF FundingTyped
  <2>3. \A b \in Funding!Actors : reader'[b] \in Readers
    BY <1>3, <1>4, <1>5, <2>1 DEF FundingTyped
  <2> QED
    BY <2>1, <2>2, <2>3
<1>7. FundingTyped'
  <2>1. \A b \in Funding!Actors : reader'[b].page \subseteq DOMAIN paid'
    BY <1>1, <1>3, <1>4, <1>5, <1>6 DEF FundingTyped
  <2>2. inTable' \subseteq DOMAIN paid'
    BY <1>0, <1>1 DEF FundingTyped
  <2> QED
    BY <1>1, <1>6, <2>1, <2>2 DEF FundingTyped
<1>8. Listed' /\ \A b \in Funding!Actors : b # a => Sound(b)'
  BY <1>1, <1>6, <1>7, OthersStay
<1>9. NoHole'
  <2> SUFFICES ASSUME NEW i \in DOMAIN paid, NEW k \in inTable', floor <= paid[i], paid[i] < paid[k]
               PROVE  i \in inTable'
    BY <1>1 DEF NoHole, Funding!NoHole
  <2>1. CASE k \in inTable
    BY <1>1, <2>1 DEF FundingInv, NoHole, Funding!NoHole
  <2>2. CASE k \in r.page
    BY <2>2, PageLeavesNoHole
  <2> QED
    BY <1>1, <2>1, <2>2
<1>10. Sound(a)'
  <2>1. CASE reader'[a] = on
    <3>1. reader'[a].pc = "fetch" /\ reader'[a].cursor = paid[j] /\ paid[j] <= now'
      BY <1>0, <1>1, <1>4, <2>1 DEF FundingInv, Listed
    <3>2. Covered(a)'
      BY <1>1, <3>1, PageLeavesNoHole DEF Covered
    <3> QED
      BY <3>1, <3>2 DEF Sound
  <2>2. CASE reader'[a] = Funding!Ended(a)
    BY <1>3, <2>2 DEF Sound
  <2> QED
    BY <1>5, <2>1, <2>2
<1> QED
  BY <1>7, <1>8, <1>9, <1>10 DEF FundingInv

LEMMA FundingStepKeeps ==
  ASSUME FundingTyped, FundingInv, [Funding!Next]_fundingVars
  PROVE  FundingTyped' /\ FundingInv'
<1> USE FundingBounds
<1>1. CASE Funding!Pay
  <2>1. FundingTyped' /\ Listed' /\ Grows /\ inTable' = inTable /\ reader' = reader
    BY <1>1, PayAppends DEF FundingInv, Funding!Pay
  <2> QED
    BY <2>1, ActorStays, NoHoleStays DEF FundingInv
<1>2. CASE Funding!TimePasses
  <2>1. now' \in 0..MaxTime /\ now <= now' /\ UNCHANGED <<paid, inTable, reader, floor>>
    BY <1>2 DEF Funding!TimePasses, FundingTyped
  <2>2. FundingTyped' /\ Grows
    BY <2>1 DEF FundingTyped, Grows
  <2>3. Listed'
    BY <2>1, PaidTimes DEF FundingInv, Listed, FundingTyped
  <2> QED
    BY <2>1, <2>2, <2>3, ActorStays, NoHoleStays DEF FundingInv
<1>3. CASE Funding!BeginPoll
  <2>1. Funding!PollStart \in -(Lookback + Overlap)..MaxTime /\ Funding!PollStart <= now
    <3>1. CASE inTable = {}
      BY <3>1 DEF Funding!PollStart, FundingTyped
    <3>2. CASE inTable # {}
      <4>1. PICK j \in inTable : Funding!Newest(inTable) = paid[j]
        BY <3>2, NewestIsOneOfThem DEF FundingTyped
      <4>2. paid[j] \in 0..MaxTime /\ paid[j] <= now /\ now \in 0..MaxTime
        BY PaidTimes DEF FundingTyped, FundingInv, Listed
      <4>3. Funding!PollStart = paid[j] - Overlap
        BY <3>2, <4>1 DEF Funding!PollStart
      <4> QED
        BY <4>2, <4>3
    <3> QED
      BY <3>1, <3>2
  <2> QED
    BY <1>3, <2>1, BeginKeeps DEF Funding!BeginPoll, Funding!Actors
<1>4. CASE Funding!BeginBackfill
  <2>1. PICK day \in 0..now : Funding!Begin("backfill", day)
    BY <1>4 DEF Funding!BeginBackfill
  <2>2. day \in -(Lookback + Overlap)..MaxTime /\ day <= now
    BY <2>1 DEF FundingTyped
  <2> QED
    BY <2>1, <2>2, BeginKeeps DEF Funding!Actors
<1>5. ASSUME NEW a \in Funding!Actors,
             Funding!Fetch(a) \/ Funding!NothingDue(a) \/ Funding!Insert(a) \/ Funding!Stop(a)
      PROVE  FundingTyped' /\ FundingInv'
  BY <1>5, FetchKeeps, InsertKeeps, StopKeeps DEF Funding!NothingDue
<1>6. CASE UNCHANGED fundingVars
  <2>1. FundingTyped' /\ Listed' /\ Grows /\ inTable' = inTable /\ reader' = reader
    BY <1>6 DEF fundingVars, FundingTyped, FundingInv, Listed, Grows
  <2> QED
    BY <2>1, ActorStays, NoHoleStays DEF FundingInv
<1> QED
  BY <1>1, <1>2, <1>3, <1>4, <1>5, <1>6 DEF Funding!Next

LEMMA FundingInvariant == Spec => [](FundingTyped /\ FundingInv)
<1>1. Init => FundingTyped /\ FundingInv
  <2> SUFFICES ASSUME Init PROVE FundingTyped /\ FundingInv
    OBVIOUS
  <2>1. /\ now = 0 /\ paid = << >> /\ inTable = {} /\ floor = 0
        /\ reader = [a \in Funding!Actors |-> [pc |-> "idle", cursor |-> 0, pages |-> 0, page |-> {}]]
    BY DEF Init, Funding!Init, Funding!Idle
  <2>2. reader \in [Funding!Actors -> Readers]
    BY <2>1, FundingBounds DEF Readers
  <2>3. paid \in Seq(0..MaxTime) /\ DOMAIN paid = {}
    BY <2>1, EmptySeq
  <2> QED
    BY <2>1, <2>2, <2>3, FundingBounds DEF FundingTyped, FundingInv, Listed, NoHole,
       Funding!NoHole, Sound
<1>2. FundingTyped /\ FundingInv /\ [Next]_vars => FundingTyped' /\ FundingInv'
  BY StepOfATask, FundingStepKeeps
<1> QED
  BY <1>1, <1>2, PTL DEF Spec

(* What is stored has no hole from where an actor last began: pages that   *)
(* end inside one time, failed reads, a poll and a backfill at once leave  *)
(* none, however long the list and whatever the caps.                      *)
THEOREM StoredWithoutHole == Spec => []NoHole
<1>1. FundingInv => NoHole
  BY DEF FundingInv
<1> QED
  BY <1>1, FundingInvariant, PTL

-----------------------------------------------------------------------------
(* The daily loss: a behaviour of the run is one of PortfolioManager, of   *)
(* which DailyLossProofs speaks.                                           *)
LossP == INSTANCE DailyLossProofs

LEMMA LossStep == Loss!Next => LossP!Next
<1> USE DEF Loss!EnsureLoaded, LossP!EnsureLoaded, Loss!AfterLoad, LossP!AfterLoad,
            Loss!Noticed, LossP!Noticed, Loss!Book, LossP!Book, Loss!Persist, LossP!Persist,
            Loss!Written, LossP!Written, Loss!NotWritten, LossP!NotWritten,
            Loss!Report, LossP!Report
<1>1. Loss!Record => LossP!Record
  BY Zenon DEF Loss!Record, LossP!Record
<1>2. Loss!Check => LossP!Check
  BY Zenon DEF Loss!Check, LossP!Check, Loss!Keep, LossP!Keep, Loss!Limited, LossP!Limited
<1>3. Loss!Restart => LossP!Restart
  BY DEF Loss!Restart, LossP!Restart
<1>4. Loss!Midnight => LossP!Midnight
  BY DEF Loss!Midnight, LossP!Midnight
<1> QED
  BY <1>1, <1>2, <1>3, <1>4 DEF Loss!Next, LossP!Next

LEMMA LossSpec == Spec => LossP!Spec
<1>1. Init => LossP!Init
  BY DEF Init, Loss!Init, LossP!Init
<1>2. [Next]_vars => [LossP!Next]_(LossP!vars)
  BY StepOfATask, LossStep DEF LossP!vars, LossP!counter, lossVars
<1> QED
  BY <1>1, <1>2, PTL DEF Spec, LossP!Spec

LEMMA LossConstants == LossP!DailyLossConstants
  BY TasksConstants DEF Loss!DailyLossConstants, LossP!DailyLossConstants

(* Past the day's limit an open is allowed only while the day's total could *)
(* not be loaded.                                                          *)
THEOREM LimitGatesOpens == Spec => []CapGatesOpens
<1>1. LossP!Spec => []LossP!CapGatesOpens
  BY LossConstants, LossP!LimitGatesOpens
<1>2. LossP!CapGatesOpens => CapGatesOpens
  BY DEF LossP!CapGatesOpens, CapGatesOpens, Loss!CapGatesOpens, Loss!Total, LossP!Total
<1> QED
  BY <1>1, <1>2, LossSpec, PTL

(* Every trade enters the day's total once, whichever loads and writes fail. *)
THEOREM CountsEachTradeOnce == Spec => IsLossCounter
<1>1. LossP!Spec => LossP!Counter!Spec
  BY LossConstants, LossP!CountsEachTradeOnce DEF LossP!IsLossCounter
<1>2. LossP!Total = Loss!Total
  BY DEF LossP!Total, Loss!Total
<1>3. LossP!Counter!Init => Loss!Counter!Init
  BY <1>2 DEF LossP!Counter!Init, Loss!Counter!Init
<1>4. [LossP!Counter!Next]_<<LossP!Total, stored>> => [Loss!Counter!Next]_<<Loss!Total, stored>>
  BY DEF LossP!Total, Loss!Total, LossP!Counter!Next, Loss!Counter!Next,
     LossP!Counter!Record, Loss!Counter!Record, LossP!Counter!Save, Loss!Counter!Save,
     LossP!Counter!Crash, Loss!Counter!Crash, LossP!Counter!NewDay, Loss!Counter!NewDay
<1> QED
  BY <1>1, <1>3, <1>4, LossSpec, PTL
     DEF IsLossCounter, Loss!IsLossCounter, LossP!Counter!Spec, Loss!Counter!Spec

-----------------------------------------------------------------------------
(* The state of every task keeps its types.                                *)
THEOREM TypesOfTheTasks == Spec => []TypeOK
<1>1. LossP!Spec => []LossP!TypeOK
  BY LossConstants, LossP!CounterTypes
<1>2. LossP!TypeOK => Loss!TypeOK
  BY DEF LossP!TypeOK, Loss!TypeOK
<1>3. PushTyped => Push!TypeOK
  BY DEF PushTyped, Push!TypeOK, Push!Unset
<1>4. FetchTyped => Fetch!TypeOK
  BY DEF FetchTyped, Fetch!TypeOK, Fetch!Closed
<1>5. RateTyped => Rate!TypeOK
  BY DEF RateTyped, Rate!TypeOK
<1>6. CloseTyped => Close!TypeOK
  BY DEF CloseTyped, Close!TypeOK, Close!Most, Streaks
<1>7. FundingTyped => Funding!TypeOK
  <2> SUFFICES ASSUME FundingTyped PROVE Funding!TypeOK
    OBVIOUS
  <2> DEFINE R == [pc : {"idle", "fetch", "insert", "done"}, cursor : -(Lookback + Overlap)..MaxTime,
                   pages : Nat, page : SUBSET DOMAIN paid]
  <2>1. \A a \in Funding!Actors : reader[a] \in R
    BY DEF FundingTyped, Readers
  <2>2. reader \in [Funding!Actors -> R]
    BY <2>1 DEF FundingTyped
  <2> QED
    BY <2>2 DEF FundingTyped, Funding!TypeOK
<1> QED
  BY <1>1, <1>2, <1>3, <1>4, <1>5, <1>6, <1>7, LossSpec, PushTypesCorrect, FetchInvariant,
     RateInvariant, CloseInvariant, FundingInvariant, PTL DEF TypeOK
=============================================================================
