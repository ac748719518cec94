--------------------------- MODULE ComponentsProofs ---------------------------
(***************************************************************************)
(* What the fill ledger, a strategy's memory, the lifecycle of the bots and *)
(* the operator's chat guarantee for every set of orders, rows, prices,     *)
(* bars, bots, requests and messages. The last three are proved in          *)
(* StrategyStateProofs, BotLifecycleProofs and TelegramProofs and taken     *)
(* from there; the ledger is proved here.                                  *)
(***************************************************************************)
EXTENDS MCComponents, TLAPS, FiniteSetTheorems, SequenceTheorems, WellFoundedInduction

(* A step of the run is a step of one part, and leaves the others alone.   *)
LEMMA StepOfAPart ==
  ASSUME [Next]_vars
  PROVE  /\ [Ledger!Next]_ledgerVars /\ [Strategy!Next]_strategyVars
         /\ [Lifecycle!Next]_lifecycleVars /\ [Chat!Next]_telegramVars
  BY DEF vars, Next, LedgerRuns, StrategyRuns, LifecycleRuns, ChatRuns

-----------------------------------------------------------------------------
(* The operator's chat.                                                    *)
ChatP == INSTANCE TelegramProofs

LEMMA ChatStep == Chat!Next => ChatP!Next
<1>1. Chat!Acked = ChatP!Acked
  BY DEF Chat!Acked, ChatP!Acked
<1>2. Chat!ConfirmedBy = ChatP!ConfirmedBy
  BY <1>1 DEF Chat!ConfirmedBy, ChatP!ConfirmedBy
<1>3. \A c : Chat!Asks(c) = ChatP!Asks(c)
  BY DEF Chat!Asks, ChatP!Asks
<1>4. Chat!Commands = ChatP!Commands
  BY DEF Chat!Commands, ChatP!Commands
<1>5. Chat!Poll => ChatP!Poll
  BY <1>1, <1>2 DEF Chat!Poll, ChatP!Poll
<1>6. Chat!Take => ChatP!Take
  BY Zenon, <1>1 DEF Chat!Take, ChatP!Take
<1>7. Chat!Obeyed => ChatP!Obeyed
  BY <1>3 DEF Chat!Obeyed, ChatP!Obeyed
<1>8. Chat!Failed => ChatP!Failed
  BY <1>3 DEF Chat!Failed, ChatP!Failed
<1>9. Chat!Crash => ChatP!Crash
  BY Zenon, <1>3 DEF Chat!Crash, ChatP!Crash
<1>10. \A c : Chat!Write(c) => ChatP!Write(c)
  BY Zenon DEF Chat!Write, ChatP!Write
<1>11. \A c : Chat!CooledDown(c) => ChatP!CooledDown(c)
  BY DEF Chat!CooledDown, ChatP!CooledDown
<1> QED
  BY <1>4, <1>5, <1>6, <1>7, <1>8, <1>9, <1>10, <1>11 DEF Chat!Next, ChatP!Next

LEMMA ChatSpec == Spec => ChatP!Spec
<1>1. Init => ChatP!Init
  BY DEF Init, Chat!Init, ChatP!Init
<1>2. [Next]_vars => [ChatP!Next]_(ChatP!telegramVars)
  BY StepOfAPart, ChatStep DEF ChatP!telegramVars, telegramVars
<1> QED
  BY <1>1, <1>2, PTL DEF Spec, ChatP!Spec

LEMMA ChatConstants == ChatP!TelegramConstants
  BY ComponentsConstants DEF Chat!TelegramConstants, ChatP!TelegramConstants

(* A crash loses no command and repeats none out of order: a bot's flag is  *)
(* what the last order for it asked, unless that one was refused.          *)
THEOREM LastOrderIsObeyed == Spec => []LastWordStands
<1>1. ChatP!Spec => []ChatP!LastWordStands
  BY ChatConstants, ChatP!LastWord
<1>2. ChatP!LastWordStands => LastWordStands
  BY DEF ChatP!LastWordStands, LastWordStands, Chat!LastWordStands, ChatP!Quiet, Chat!Quiet,
         ChatP!LastOrder, Chat!LastOrder, ChatP!Acked, Chat!Acked
<1> QED
  BY <1>1, <1>2, ChatSpec, PTL

-----------------------------------------------------------------------------
(* The lifecycle of the bots.                                              *)
LifeP == INSTANCE BotLifecycleProofs

LEMMA SameLife ==
  /\ Lifecycle!Absent = LifeP!Absent /\ Lifecycle!Gone = LifeP!Gone
  /\ Lifecycle!NoRequest = LifeP!NoRequest /\ Lifecycle!Claim = LifeP!Claim
  /\ \A row : /\ Lifecycle!IsClaim(row) <=> LifeP!IsClaim(row)
              /\ Lifecycle!Off(row) = LifeP!Off(row)
  /\ \A b : /\ Lifecycle!There(b) <=> LifeP!There(b)
            /\ Lifecycle!Starting(b) <=> LifeP!Starting(b)
            /\ Lifecycle!Reaped(b) = LifeP!Reaped(b)
            /\ Lifecycle!LooksAt(b) <=> LifeP!LooksAt(b)
            /\ \A handle : /\ Lifecycle!Removed(b, handle) = LifeP!Removed(b, handle)
                           /\ Lifecycle!Halted(b, handle) = LifeP!Halted(b, handle)
  /\ \A s : /\ Lifecycle!Bot(s) = LifeP!Bot(s) /\ Lifecycle!Row(s) = LifeP!Row(s)
            /\ \A kinds, pc : Lifecycle!At(s, kinds, pc) <=> LifeP!At(s, kinds, pc)
<1>1. Lifecycle!Absent = LifeP!Absent /\ Lifecycle!Claim = LifeP!Claim
  BY DEF Lifecycle!Absent, LifeP!Absent, Lifecycle!Claim, LifeP!Claim
<1>2. Lifecycle!Gone = LifeP!Gone /\ Lifecycle!NoRequest = LifeP!NoRequest
  BY <1>1 DEF Lifecycle!Gone, LifeP!Gone, Lifecycle!NoRequest, LifeP!NoRequest
<1>3. \A row : /\ Lifecycle!IsClaim(row) <=> LifeP!IsClaim(row)
               /\ Lifecycle!Off(row) = LifeP!Off(row)
  BY <1>1 DEF Lifecycle!IsClaim, LifeP!IsClaim, Lifecycle!Off, LifeP!Off
<1>4. \A b : /\ Lifecycle!There(b) <=> LifeP!There(b)
             /\ Lifecycle!Starting(b) <=> LifeP!Starting(b)
             /\ Lifecycle!Reaped(b) = LifeP!Reaped(b)
             /\ Lifecycle!LooksAt(b) <=> LifeP!LooksAt(b)
  BY <1>3 DEF Lifecycle!There, LifeP!There, Lifecycle!Starting, LifeP!Starting,
              Lifecycle!Reaped, LifeP!Reaped, Lifecycle!LooksAt, LifeP!LooksAt
<1>5. \A b, handle : /\ Lifecycle!Removed(b, handle) = LifeP!Removed(b, handle)
                     /\ Lifecycle!Halted(b, handle) = LifeP!Halted(b, handle)
  BY DEF Lifecycle!Removed, LifeP!Removed, Lifecycle!Halted, LifeP!Halted
<1>6. \A s : /\ Lifecycle!Bot(s) = LifeP!Bot(s) /\ Lifecycle!Row(s) = LifeP!Row(s)
             /\ \A kinds, pc : Lifecycle!At(s, kinds, pc) <=> LifeP!At(s, kinds, pc)
  BY DEF Lifecycle!Bot, LifeP!Bot, Lifecycle!Row, LifeP!Row, Lifecycle!At, LifeP!At
<1> QED
  BY <1>1, <1>2, <1>3, <1>4, <1>5, <1>6

LEMMA SameCount ==
  /\ \A S : Lifecycle!Cardinality(S) = LifeP!Cardinality(S)
  /\ \A S : Lifecycle!IsFiniteSet(S) <=> LifeP!IsFiniteSet(S)
  BY DEF Lifecycle!Cardinality, LifeP!Cardinality, Lifecycle!IsFiniteSet, LifeP!IsFiniteSet

LEMMA LifeStep == Lifecycle!Next => LifeP!Next
<1> USE SameLife, SameCount
<1>1. \A s, b : Lifecycle!Arrives(s, b) => LifeP!Arrives(s, b)
  <2>1. \A s, kind, b : Lifecycle!Reads(s, kind, b) => LifeP!Reads(s, kind, b)
    BY DEF Lifecycle!Reads, LifeP!Reads, Lifecycle!Becomes, LifeP!Becomes
  <2> QED
    BY <2>1 DEF Lifecycle!Arrives, LifeP!Arrives
<1>2. \A s : Lifecycle!Reserve(s) => LifeP!Reserve(s)
  <2>1. \A s : Lifecycle!UnderCap(s) <=> LifeP!UnderCap(s)
    <3>1. {b \in Bots : Lifecycle!Reaped(b).running} = {b \in Bots : LifeP!Reaped(b).running}
      OBVIOUS
    <3> QED
      BY <3>1 DEF Lifecycle!UnderCap, LifeP!UnderCap
  <2>2. \A s : Lifecycle!Free(s) <=> LifeP!Free(s)
    BY DEF Lifecycle!Free, LifeP!Free
  <2>3. \A s : /\ Lifecycle!Ends(s) => LifeP!Ends(s)
               /\ \A pc : Lifecycle!Goes(s, pc) => LifeP!Goes(s, pc)
    BY DEF Lifecycle!Ends, LifeP!Ends, Lifecycle!Goes, LifeP!Goes, Lifecycle!Becomes, LifeP!Becomes
  <2>4. \A s : [b \in Bots |->
                  IF b = Lifecycle!Bot(s) THEN [state |-> "there", running |-> TRUE,
                                      handle |-> Lifecycle!Claim, stale |-> FALSE]
                  ELSE Lifecycle!Reaped(b)]
               = [b \in Bots |->
                  IF b = LifeP!Bot(s) THEN [state |-> "there", running |-> TRUE,
                                      handle |-> LifeP!Claim, stale |-> FALSE]
                  ELSE LifeP!Reaped(b)]
    OBVIOUS
  <2> QED
    BY <2>1, <2>2, <2>3, <2>4 DEF Lifecycle!Reserve, LifeP!Reserve
<1>3. \A s : /\ Lifecycle!Ends(s) => LifeP!Ends(s)
             /\ \A pc : Lifecycle!Goes(s, pc) => LifeP!Goes(s, pc)
             /\ \A r : Lifecycle!Becomes(s, r) => LifeP!Becomes(s, r)
             /\ \A row : Lifecycle!Put(s, row) => LifeP!Put(s, row)
  BY DEF Lifecycle!Ends, LifeP!Ends, Lifecycle!Goes, LifeP!Goes, Lifecycle!Becomes,
         LifeP!Becomes, Lifecycle!Put, LifeP!Put
<1>4. \A s : Lifecycle!SpawnFails(s) => LifeP!SpawnFails(s)
  BY <1>3 DEF Lifecycle!SpawnFails, LifeP!SpawnFails
<1>5. \A s : Lifecycle!Spawn(s) => LifeP!Spawn(s)
  BY Zenon, <1>3 DEF Lifecycle!Spawn, LifeP!Spawn
<1>6. \A s : Lifecycle!Record(s) => LifeP!Record(s)
  <2>1. \A s : Lifecycle!Undone(s) => LifeP!Undone(s)
    BY DEF Lifecycle!Undone, LifeP!Undone
  <2> QED
    BY Zenon, <1>3, <2>1 DEF Lifecycle!Record, LifeP!Record
<1>7. \A s : Lifecycle!Revert(s) => LifeP!Revert(s)
  BY <1>3 DEF Lifecycle!Revert, LifeP!Revert
<1>8. \A s : Lifecycle!StopContainer(s) => LifeP!StopContainer(s)
  BY <1>3 DEF Lifecycle!StopContainer, LifeP!StopContainer
<1>9. \A s : Lifecycle!DockerFails(s) => LifeP!DockerFails(s)
  BY <1>3 DEF Lifecycle!DockerFails, LifeP!DockerFails
<1>10. \A s : Lifecycle!Inspect(s) => LifeP!Inspect(s)
  BY <1>3 DEF Lifecycle!Inspect, LifeP!Inspect
<1>11. \A s : Lifecycle!Write(s) => LifeP!Write(s)
  <2>1. \A s : Lifecycle!Crosses(s) <=> LifeP!Crosses(s)
    BY DEF Lifecycle!Crosses, LifeP!Crosses
  <2> QED
    BY <1>3, <2>1 DEF Lifecycle!Write, LifeP!Write
<1>12. \A b : Lifecycle!RemovedByHand(b) => LifeP!RemovedByHand(b)
  BY DEF Lifecycle!RemovedByHand, LifeP!RemovedByHand
<1>13. \A b : Lifecycle!ClaimAges(b) => LifeP!ClaimAges(b)
  BY <1>3 DEF Lifecycle!ClaimAges, LifeP!ClaimAges
<1>14. Lifecycle!Restart => LifeP!Restart
  <2>1. {b \in Bots : Lifecycle!Starting(b)} = {b \in Bots : LifeP!Starting(b)}
    OBVIOUS
  <2>2. [s \in Slots |-> Lifecycle!NoRequest] = [s \in Slots |-> LifeP!NoRequest]
    OBVIOUS
  <2> QED
    BY <2>1, <2>2 DEF Lifecycle!Restart, LifeP!Restart
<1> QED
  BY <1>1, <1>2, <1>4, <1>5, <1>6, <1>7, <1>8, <1>9, <1>10, <1>11, <1>12, <1>13, <1>14
     DEF Lifecycle!Next, LifeP!Next

LEMMA LifeSpec == Spec => LifeP!Spec
<1>1. Init => LifeP!Init
  BY SameLife DEF Init, Lifecycle!Init, LifeP!Init
<1>2. [Next]_vars => [LifeP!Next]_(LifeP!lifecycleVars)
  BY StepOfAPart, LifeStep DEF LifeP!lifecycleVars, lifecycleVars
<1> QED
  BY <1>1, <1>2, PTL DEF Spec, LifeP!Spec

LEMMA LifeConstants == LifeP!LifecycleConstants
  BY ComponentsConstants, SameCount DEF Lifecycle!LifecycleConstants, LifeP!LifecycleConstants

(* No more bots run than the plan allows, for every number of bots, of      *)
(* requests at a time and every cap.                                       *)
THEOREM CapIsHeld == Spec => []CapHolds
<1>1. LifeP!Spec => []LifeP!CapHolds
  BY LifeConstants, LifeP!CapHeld
<1>2. LifeP!CapHolds => CapHolds
  BY SameCount DEF LifeP!CapHolds, CapHolds, Lifecycle!CapHolds, LifeP!Running, Lifecycle!Running
<1> QED
  BY <1>1, <1>2, LifeSpec, PTL

(* Between requests no container runs that its row does not name.          *)
THEOREM NoContainerIsStray == Spec => []NoStrayContainer
<1>1. LifeP!Spec => []LifeP!NoStrayContainer
  BY LifeConstants, LifeP!NoContainerStrays
<1>2. LifeP!NoStrayContainer => NoStrayContainer
  BY SameLife DEF LifeP!NoStrayContainer, NoStrayContainer, Lifecycle!NoStrayContainer
<1> QED
  BY <1>1, <1>2, LifeSpec, PTL

-----------------------------------------------------------------------------
(* A strategy's memory. The operators of the instance, from the plain ones  *)
(* to what a candle decides, are those that StrategyStateProofs speaks of.  *)
StratP == INSTANCE StrategyStateProofs

LEMMA SameBasics ==
  /\ Strategy!Gap = StratP!Gap /\ Strategy!Past = StratP!Past
  /\ Strategy!Flat = StratP!Flat /\ Strategy!Fresh = StratP!Fresh
  /\ \A a, b : Strategy!Larger(a, b) = StratP!Larger(a, b)
  /\ \A side, p : Strategy!Way(side, p) = StratP!Way(side, p)
  /\ \A side : Strategy!Best(side) = StratP!Best(side) /\ Strategy!Worst(side) = StratP!Worst(side)
  /\ \A m : Strategy!Held(m) <=> StratP!Held(m)
  /\ Strategy!Counts <=> StratP!Counts
  /\ Strategy!FromEntry <=> StratP!FromEntry
<1>1. /\ Strategy!Gap = StratP!Gap /\ Strategy!Past = StratP!Past
      /\ Strategy!Flat = StratP!Flat /\ Strategy!Fresh = StratP!Fresh
  BY DEF Strategy!Gap, StratP!Gap, Strategy!Past, StratP!Past, Strategy!Flat, StratP!Flat,
         Strategy!Fresh, StratP!Fresh
<1>2. \A a, b : /\ Strategy!Larger(a, b) = StratP!Larger(a, b)
                /\ Strategy!Way(a, b) = StratP!Way(a, b)
  BY DEF Strategy!Larger, StratP!Larger, Strategy!Way, StratP!Way
<1>3. \A side : Strategy!Best(side) = StratP!Best(side) /\ Strategy!Worst(side) = StratP!Worst(side)
  BY DEF Strategy!Best, StratP!Best, Strategy!Worst, StratP!Worst
<1>4. /\ \A m : Strategy!Held(m) <=> StratP!Held(m)
      /\ Strategy!Counts <=> StratP!Counts
      /\ Strategy!FromEntry <=> StratP!FromEntry
  BY DEF Strategy!Held, StratP!Held, Strategy!Counts, StratP!Counts, Strategy!FromEntry,
         StratP!FromEntry
<1> QED
  BY <1>1, <1>2, <1>3, <1>4

LEMMA SameLevels ==
  /\ \A side, price : Strategy!Levels(side, price) = StratP!Levels(side, price)
  /\ \A m, side, price : Strategy!RestoreState(m, side, price) = StratP!RestoreState(m, side, price)
  /\ \A m, price : Strategy!OnFilled(m, price) = StratP!OnFilled(m, price)
<1>1. \A side, price : Strategy!Levels(side, price) = StratP!Levels(side, price)
  BY SameBasics DEF Strategy!Levels, StratP!Levels
<1>2. \A m, side, price :
         Strategy!RestoreState(m, side, price) = StratP!RestoreState(m, side, price)
  BY <1>1 DEF Strategy!RestoreState, StratP!RestoreState
<1>3. \A m, price : Strategy!OnFilled(m, price) = StratP!OnFilled(m, price)
  BY <1>1, SameBasics, ZenonT(60) DEF Strategy!OnFilled, StratP!OnFilled
<1> QED
  BY <1>1, <1>2, <1>3

LEMMA SameCooldowns ==
  /\ \A c : Strategy!Cooling(c) = StratP!Cooling(c)
  /\ \A m : /\ Strategy!Exported(m) = StratP!Exported(m)
            /\ Strategy!Counted(m) = StratP!Counted(m)
            /\ Strategy!ResetPosition(m) = StratP!ResetPosition(m)
            /\ \A state : Strategy!RestoreJson(m, state) = StratP!RestoreJson(m, state)
  /\ \A m, c : Strategy!Emptied(m, c) = StratP!Emptied(m, c)
<1>1. \A c : Strategy!Cooling(c) = StratP!Cooling(c)
  BY DEF Strategy!Cooling, StratP!Cooling
<1>2. \A m : Strategy!Exported(m) = StratP!Exported(m)
  BY <1>1, SameBasics DEF Strategy!Exported, StratP!Exported
<1>3. \A c, n : Strategy!Advanced(c, n) = StratP!Advanced(c, n)
  BY SameBasics DEF Strategy!Advanced, StratP!Advanced
<1>4. \A m : Strategy!Counted(m) = StratP!Counted(m)
  BY <1>3, SameBasics DEF Strategy!Counted, StratP!Counted, Strategy!Elapsed, StratP!Elapsed
<1>5. \A m : Strategy!ResetPosition(m) = StratP!ResetPosition(m)
  BY SameBasics DEF Strategy!ResetPosition, StratP!ResetPosition
<1>6. \A m, state : Strategy!RestoreJson(m, state) = StratP!RestoreJson(m, state)
  BY DEF Strategy!RestoreJson, StratP!RestoreJson
<1>7. \A m, c : Strategy!Emptied(m, c) = StratP!Emptied(m, c)
  BY SameBasics DEF Strategy!Emptied, StratP!Emptied
<1> QED
  BY <1>1, <1>2, <1>4, <1>5, <1>6, <1>7

LEMMA SameCandle ==
  \A m : Strategy!OnCandle(m) = StratP!OnCandle(m)
<1> USE SameBasics, SameLevels, SameCooldowns
<1>1. \A pos : Strategy!Managed(pos) = StratP!Managed(pos)
  BY DEF Strategy!Managed, StratP!Managed
<1>2. \A pos : Strategy!StopAt(pos) = StratP!StopAt(pos)
  BY DEF Strategy!StopAt, StratP!StopAt
<1>3. \A pos : Strategy!Stopped(pos) = StratP!Stopped(pos)
  BY <1>2 DEF Strategy!Stopped, StratP!Stopped
<1>4. \A pos : /\ Strategy!Reached(pos) <=> StratP!Reached(pos)
               /\ Strategy!SameBar(pos) <=> StratP!SameBar(pos)
  BY DEF Strategy!Reached, StratP!Reached, Strategy!SameBar, StratP!SameBar
<1>5. \A m, act, side : Strategy!Decision(m, act, side) = StratP!Decision(m, act, side)
  BY DEF Strategy!Decision, StratP!Decision
<1>6. \A m : Strategy!OnHeld(m) = StratP!OnHeld(m)
  BY <1>1, <1>3, <1>4, <1>5 DEF Strategy!OnHeld, StratP!OnHeld
<1>7. \A m : Strategy!OnFlat(m) = StratP!OnFlat(m)
  BY <1>5 DEF Strategy!OnFlat, StratP!OnFlat
<1> QED
  BY <1>6, <1>7 DEF Strategy!OnCandle, StratP!OnCandle

LEMMA SameRestore ==
  /\ \A m, row : Strategy!FromRow(m, row) = StratP!FromRow(m, row)
  /\ \A m, row : Strategy!Resynced(m, row) = StratP!Resynced(m, row)
  /\ \A state : Strategy!CooldownOnly(state) = StratP!CooldownOnly(state)
<1>1. \A m, row : Strategy!FromRow(m, row) = StratP!FromRow(m, row)
  BY SameLevels, SameCooldowns DEF Strategy!FromRow, StratP!FromRow
<1>2. \A m, row : Strategy!Resynced(m, row) = StratP!Resynced(m, row)
  BY <1>1, SameCooldowns DEF Strategy!Resynced, StratP!Resynced
<1>3. \A state : Strategy!CooldownOnly(state) = StratP!CooldownOnly(state)
  BY SameBasics, SameCooldowns DEF Strategy!CooldownOnly, StratP!CooldownOnly
<1> QED
  BY <1>1, <1>2, <1>3

LEMMA TickStep == Strategy!Tick => StratP!Tick
<1>1. \A d : Strategy!Opened(d) => StratP!Opened(d)
  BY Zenon, SameBasics, SameLevels, SameCooldowns DEF Strategy!Opened, StratP!Opened
<1>2. \A m : Strategy!LeftFlat(m) => StratP!LeftFlat(m)
  BY SameCooldowns DEF Strategy!LeftFlat, StratP!LeftFlat
<1>3. \A m : Strategy!Refused(m) => StratP!Refused(m)
  BY <1>2 DEF Strategy!Refused, StratP!Refused
<1>4. \A m : Strategy!NotFilled(m) => StratP!NotFilled(m)
  BY DEF Strategy!NotFilled, StratP!NotFilled
<1>5. \A d : Strategy!Closed(d) => StratP!Closed(d)
  BY SameBasics, SameCooldowns DEF Strategy!Closed, StratP!Closed
<1>6. Strategy!Kept => StratP!Kept
  BY SameRestore DEF Strategy!Kept, StratP!Kept
<1>7. Strategy!OnCandle(mem) = StratP!OnCandle(mem)
  BY SameCandle
<1> DEFINE d == StratP!OnCandle(mem)
<1> SUFFICES ASSUME Strategy!Tick
             PROVE  StratP!Tick
  OBVIOUS
<1>8. /\ up /\ UNCHANGED <<profile, bar, shape, up>>
      /\ \/ d.act = "none" /\ mem' = d.mem /\ UNCHANGED <<posRow, snap, ref, forgot, astray>>
         \/ d.act = "open" /\ Strategy!Opened(d)
         \/ d.act = "open" /\ Strategy!Refused(d.mem) /\ UNCHANGED <<ref, forgot>>
         \/ d.act = "open" /\ posRow = None /\ Strategy!NotFilled(d.mem) /\ UNCHANGED <<ref, forgot>>
         \/ d.act = "close" /\ Strategy!Closed(d)
         \/ d.act = "close" /\ posRow = None /\ Strategy!LeftFlat(d.mem) /\ UNCHANGED <<ref, forgot>>
         \/ d.act \in {"open", "close"} /\ Strategy!Kept /\ UNCHANGED <<ref, forgot>>
  BY <1>7 DEF Strategy!Tick
<1> QED
  BY <1>1, <1>2, <1>3, <1>4, <1>5, <1>6, <1>8 DEF StratP!Tick

LEMMA StrategyStep == Strategy!Next => StratP!Next
<1>1. Strategy!Bars = StratP!Bars
  BY DEF Strategy!Bars, StratP!Bars
<1>2. Strategy!Bars' = StratP!Bars'
  BY DEF Strategy!Bars, StratP!Bars
<1>3. Strategy!NewBar => StratP!NewBar
  BY <1>1 DEF Strategy!NewBar, StratP!NewBar
<1>4. \A m : Strategy!LeftFlat(m) => StratP!LeftFlat(m)
  BY SameCooldowns DEF Strategy!LeftFlat, StratP!LeftFlat
<1>5. Strategy!CloseOutside => StratP!CloseOutside
  BY <1>4 DEF Strategy!CloseOutside, StratP!CloseOutside
<1>6. Strategy!Crash => StratP!Crash
  BY DEF Strategy!Crash, StratP!Crash
<1>7. Strategy!CrashBeforeSnapshot => StratP!CrashBeforeSnapshot
  BY SameBasics, SameCandle DEF Strategy!CrashBeforeSnapshot, StratP!CrashBeforeSnapshot
<1>8. Strategy!StartupReconcileCloses => StratP!StartupReconcileCloses
  BY <1>4, SameBasics DEF Strategy!StartupReconcileCloses, StratP!StartupReconcileCloses
<1>9. Strategy!RestoreHolding => StratP!RestoreHolding
  BY SameBasics, SameRestore DEF Strategy!RestoreHolding, StratP!RestoreHolding
<1>10. Strategy!RestoreFlat => StratP!RestoreFlat
  BY SameBasics, SameCooldowns, SameRestore DEF Strategy!RestoreFlat, StratP!RestoreFlat
<1> QED
  BY <1>3, <1>5, <1>6, <1>7, <1>8, <1>9, <1>10, TickStep DEF Strategy!Next, StratP!Next

LEMMA SameCatalogue == Strategy!Catalogue = StratP!Catalogue
<1>0. Strategy!Sides = StratP!Sides
  BY DEF Strategy!Sides, StratP!Sides
<1>1. Strategy!cdc_macd = StratP!cdc_macd
  BY <1>0 DEF Strategy!cdc_macd, StratP!cdc_macd
<1>2. /\ Strategy!macd_zero = StratP!macd_zero
      /\ Strategy!sma_rsi = StratP!sma_rsi
      /\ Strategy!penguin_volatility = StratP!penguin_volatility
  BY <1>0, <1>1 DEF Strategy!macd_zero, StratP!macd_zero, Strategy!sma_rsi,
     StratP!sma_rsi, Strategy!penguin_volatility, StratP!penguin_volatility
<1>3. Strategy!golden_cross = StratP!golden_cross
  BY <1>0, <1>1 DEF Strategy!golden_cross, StratP!golden_cross
<1>4. /\ Strategy!rsi_momentum = StratP!rsi_momentum
      /\ Strategy!daily_long_0830 = StratP!daily_long_0830
      /\ Strategy!bb_rsi_scalper = StratP!bb_rsi_scalper
  BY <1>0, <1>3 DEF Strategy!rsi_momentum, StratP!rsi_momentum,
     Strategy!daily_long_0830, StratP!daily_long_0830, Strategy!bb_rsi_scalper,
     StratP!bb_rsi_scalper
<1>5. /\ Strategy!bb_short = StratP!bb_short
      /\ Strategy!keltner_breakout = StratP!keltner_breakout
  BY <1>0, <1>1, <1>3 DEF Strategy!bb_short, StratP!bb_short, Strategy!keltner_breakout,
     StratP!keltner_breakout
<1>6. /\ Strategy!moon_phases = StratP!moon_phases
      /\ Strategy!vvv_hedge = StratP!vvv_hedge
  BY <1>0, <1>3, <1>5 DEF Strategy!moon_phases, StratP!moon_phases, Strategy!vvv_hedge,
     StratP!vvv_hedge
<1>7. Strategy!ema_crossover = StratP!ema_crossover
  BY <1>0, <1>3 DEF Strategy!ema_crossover, StratP!ema_crossover
<1>8. Strategy!btc_mean_reversion = StratP!btc_mean_reversion
  BY <1>0, <1>7 DEF Strategy!btc_mean_reversion, StratP!btc_mean_reversion
<1>9. /\ Strategy!hash_momentum = StratP!hash_momentum
      /\ Strategy!supertrend = StratP!supertrend
  BY <1>0, <1>8 DEF Strategy!hash_momentum, StratP!hash_momentum, Strategy!supertrend,
     StratP!supertrend
<1>10. Strategy!pivot_supertrend = StratP!pivot_supertrend
  BY <1>0, <1>7 DEF Strategy!pivot_supertrend, StratP!pivot_supertrend
<1>11. Strategy!kalman_breakout = StratP!kalman_breakout
  BY <1>0, <1>10 DEF Strategy!kalman_breakout, StratP!kalman_breakout
<1>12. Strategy!hash_supertrend = StratP!hash_supertrend
  BY <1>0, <1>11 DEF Strategy!hash_supertrend, StratP!hash_supertrend
<1>13. /\ Strategy!oleg_aryukov = StratP!oleg_aryukov
       /\ Strategy!ath_breakout = StratP!ath_breakout
  BY <1>0, <1>4, <1>8 DEF Strategy!oleg_aryukov, StratP!oleg_aryukov,
     Strategy!ath_breakout, StratP!ath_breakout
<1>14. /\ Strategy!volatility_breakout = StratP!volatility_breakout
       /\ Strategy!qullamagi_breakout = StratP!qullamagi_breakout
  BY <1>0, <1>3, <1>7 DEF Strategy!volatility_breakout, StratP!volatility_breakout,
     Strategy!qullamagi_breakout, StratP!qullamagi_breakout
<1> QED
  BY <1>1, <1>2, <1>3, <1>4, <1>5, <1>6, <1>7, <1>8, <1>9, <1>10, <1>11, <1>12, <1>13,
     <1>14 DEF Strategy!Catalogue, StratP!Catalogue

LEMMA StrategySpec == Spec => StratP!Spec
<1>1. Init => StratP!Init
  <2>1. Strategy!Bars = StratP!Bars
    BY DEF Strategy!Bars, StratP!Bars
  <2> QED
    BY <2>1, SameBasics, SameCatalogue DEF Init, Strategy!Init, StratP!Init
<1>2. [Next]_vars => [StratP!Next]_(StratP!strategyVars)
  BY StepOfAPart, StrategyStep DEF StratP!strategyVars, strategyVars
<1> QED
  BY <1>1, <1>2, PTL DEF Spec, StratP!Spec

LEMMA SameStrategy ==
  /\ Strategy!Sides = StratP!Sides /\ Strategy!Past = StratP!Past
  /\ Strategy!Memories = StratP!Memories /\ Strategy!PositionRows = StratP!PositionRows
<1>1. /\ Strategy!Sides = StratP!Sides /\ Strategy!Levelled = StratP!Levelled
      /\ Strategy!Past = StratP!Past
  BY DEF Strategy!Sides, StratP!Sides, Strategy!Levelled, StratP!Levelled, Strategy!Past,
         StratP!Past
<1>2. Strategy!Positions = StratP!Positions /\ Strategy!Cooldowns = StratP!Cooldowns
  BY <1>1 DEF Strategy!Positions, StratP!Positions, Strategy!Cooldowns, StratP!Cooldowns
<1>3. Strategy!Memories = StratP!Memories
  BY <1>2 DEF Strategy!Memories, StratP!Memories
<1>4. Strategy!PositionRows = StratP!PositionRows
  BY <1>1, <1>3 DEF Strategy!PositionRows, StratP!PositionRows
<1> QED
  BY <1>1, <1>3, <1>4

LEMMA StrategyConstants == StratP!StrategyConstants
  BY SameStrategy, ComponentsConstants DEF Strategy!StrategyConstants, StratP!StrategyConstants

(* A running strategy believes in exactly the position its row says.       *)
THEOREM MemoryAgreesWithRow == Spec => []MemoryMatchesRow
<1>1. StratP!Spec => []StratP!MemoryMatchesRow
  BY StrategyConstants, StratP!MemoryAndRowAgree
<1>2. StratP!MemoryMatchesRow => MemoryMatchesRow
  BY DEF StratP!MemoryMatchesRow, MemoryMatchesRow, Strategy!MemoryMatchesRow
<1> QED
  BY <1>1, <1>2, StrategySpec, PTL

(* While the process runs and the position stays, protection once gained is *)
(* kept.                                                                   *)
THEOREM RatchetIsNotLost == Spec => RatchetHolds
<1> DEFINE Before == up /\ up' /\ posRow # None /\ posRow' = posRow
<1>1. StratP!Spec => [][Before => StratP!NoLooser(mem.pos, mem'.pos)]_(StratP!strategyVars)
  BY StrategyConstants, StratP!RatchetIsKept DEF StratP!RatchetHolds
<1>2. [Before => StratP!NoLooser(mem.pos, mem'.pos)]_(StratP!strategyVars)
      => [Before => Strategy!NoLooser(mem.pos, mem'.pos)]_(Strategy!strategyVars)
  BY DEF StratP!strategyVars, Strategy!strategyVars, StratP!NoLooser, Strategy!NoLooser,
         StratP!Ratchet, Strategy!Ratchet
<1> QED
  BY <1>1, <1>2, StrategySpec, PTL DEF RatchetHolds, Strategy!RatchetHolds

(* An exit that was due and is refused is due again.                       *)
THEOREM DueExitIsNotLost == Spec => DueExitFiresAgain
<1> DEFINE Before == up /\ up' /\ shape' = shape /\ bar' = bar /\ posRow # None
                     /\ posRow' = posRow
<1>1. Strategy!Due(mem) <=> StratP!Due(mem)
  BY SameCandle DEF Strategy!Due, StratP!Due
<1>2. Strategy!Due(mem)' <=> StratP!Due(mem)'
  BY <1>1, PTL
<1>3. StratP!Spec
      => [][Before /\ StratP!Due(mem) => StratP!Due(mem)']_(StratP!strategyVars)
  BY StrategyConstants, StratP!RefusedExitStaysDue DEF StratP!DueExitFiresAgain
<1>4. [Before /\ StratP!Due(mem) => StratP!Due(mem)']_(StratP!strategyVars)
      => [Before /\ Strategy!Due(mem) => Strategy!Due(mem)']_(Strategy!strategyVars)
  BY <1>1, <1>2 DEF StratP!strategyVars, Strategy!strategyVars
<1> QED
  BY <1>3, <1>4, StrategySpec, PTL DEF DueExitFiresAgain, Strategy!DueExitFiresAgain

(* A strategy with a cooldown sits it out.                                 *)
THEOREM CooldownIsObserved == Spec => CooldownKept
<1>1. StratP!Quiet = Strategy!Quiet
  BY DEF StratP!Quiet, Strategy!Quiet
<1>2. StratP!Spec
      => [][StratP!Opens /\ profile.cooldown # "none" /\ ref # None
            => forgot \/ bar - ref >= StratP!Quiet]_(StratP!strategyVars)
  BY StrategyConstants, StratP!CooldownIsSatOut DEF StratP!CooldownKept
<1>3. [StratP!Opens /\ profile.cooldown # "none" /\ ref # None
       => forgot \/ bar - ref >= StratP!Quiet]_(StratP!strategyVars)
      => [Strategy!Opens /\ profile.cooldown # "none" /\ ref # None
          => forgot \/ bar - ref >= Strategy!Quiet]_(Strategy!strategyVars)
  BY <1>1 DEF StratP!strategyVars, Strategy!strategyVars, StratP!Opens, Strategy!Opens
<1> QED
  BY <1>2, <1>3, StrategySpec, PTL DEF CooldownKept, Strategy!CooldownKept

-----------------------------------------------------------------------------
(* The fill ledger.                                                        *)
Plans == UNION {[D -> SUBSET (1..MaxFills)] : D \in SUBSET Rows}
Passes == [pc : {"idle", "fetched", "price"}, fetched : 0..MaxFills,
           ledger : SUBSET (1..MaxFills), todo : SUBSET Rows, plan : Plans]
Backfills == [pc : {"idle", "fetched", "insert", "done"}, fetched : 0..MaxFills,
              known : SUBSET Orders]

(* The runner closes nothing while a pass runs, and a pass and a backfill   *)
(* speak of fills that they have fetched.                                  *)
LedgerTyped ==
    /\ fills \in Seq(Orders) /\ Len(fills) <= MaxFills
    /\ booked \in SUBSET Orders /\ loose \in SUBSET Orders
    /\ DOMAIN rows \subseteq Rows /\ \A r \in DOMAIN rows : rows[r] \in 0..MaxFills
    /\ ownOrder \in Orders \cup {None} /\ (ownOrder # None => pass.pc = "idle")
    /\ pass \in Passes /\ backfill \in Backfills
    /\ pass.todo \subseteq DOMAIN rows /\ DOMAIN pass.plan \subseteq DOMAIN rows
    /\ pass.ledger \subseteq 1..Len(fills) /\ pass.fetched <= Len(fills)
    /\ \A r \in DOMAIN pass.plan : pass.plan[r] \subseteq 1..Len(fills)
    /\ backfill.fetched <= Len(fills)
    /\ pass.pc # "price" => pass.ledger = {} /\ DOMAIN pass.plan = {}
    /\ pass.pc = "idle" => pass.todo = {}
    /\ spent \in [1..MaxFills -> Nat]

(* What is spent is booked under its order's id, or known to be loose.     *)
SpentInv == \A i \in 1..MaxFills :
    /\ spent[i] > 0 => i <= Len(fills) /\ fills[i] \in booked \cup loose
    /\ spent[i] > 1 => fills[i] \in loose

(* What a pass may still spend no trade has booked since it looked, but for *)
(* the loose orders; and it spends a fill for one row only.                *)
InPass(i) == i \in pass.ledger \/ \E r \in DOMAIN pass.plan : i \in pass.plan[r]

PlanInv ==
    /\ \A i \in 1..Len(fills) : InPass(i) /\ fills[i] \in booked => fills[i] \in loose
    /\ \A r \in DOMAIN pass.plan :
          /\ pass.plan[r] \cap pass.ledger = {}
          /\ \A s \in DOMAIN pass.plan : s # r => pass.plan[r] \cap pass.plan[s] = {}

LedgerInv == LedgerTyped /\ SpentInv /\ PlanInv

LEMMA SmallestIsOne ==
  ASSUME NEW S \in SUBSET Nat, S # {}
  PROVE  Ledger!Min(S) \in S
<1>1. PICK x \in S : \A y \in S : ~(<<y, x>> \in OpToRel(<, Nat))
  BY WFMin, NatLessThanWellFounded, Zenon
<1>2. \A y \in S : x \in Nat /\ y \in Nat /\ ~(y < x)
  BY <1>1 DEF OpToRel
<1>3. \A y \in S : x =< y
  BY <1>2
<1> QED
  BY <1>1, <1>3, Zenon DEF Ledger!Min

LEMMA PlanType ==
  /\ \A D \in SUBSET Rows : \A f \in [D -> SUBSET (1..MaxFills)] : f \in Plans
  /\ \A p \in Plans : p \in [DOMAIN p -> SUBSET (1..MaxFills)] /\ DOMAIN p \subseteq Rows
  /\ << >> \in Plans /\ DOMAIN << >> = {}
<1>1. << >> \in [1..0 -> SUBSET (1..MaxFills)] /\ DOMAIN << >> = 1..0
  BY EmptySeq, LenProperties
<1>2. 1..0 = {}
  OBVIOUS
<1>3. << >> \in [{} -> SUBSET (1..MaxFills)] /\ DOMAIN << >> = {}
  BY <1>1, <1>2
<1> QED
  BY <1>3 DEF Plans

LEMMA FillsType ==
  ASSUME LedgerTyped, MaxFills \in Nat
  PROVE  /\ Len(fills) \in Nat /\ DOMAIN fills = 1..Len(fills)
         /\ \A i \in 1..Len(fills) : fills[i] \in Orders /\ i \in 1..MaxFills
         /\ \A o : Ledger!FillsOf(o) \subseteq 1..Len(fills)
         /\ \A o : \A i \in Ledger!FillsOf(o) : fills[i] = o
         /\ \A i \in 1..Len(fills) : i \in Ledger!FillsOf(fills[i])
<1>1. Len(fills) \in Nat /\ DOMAIN fills = 1..Len(fills)
  BY LenProperties DEF LedgerTyped
<1>2. \A i \in 1..Len(fills) : fills[i] \in Orders /\ i \in 1..MaxFills
  BY <1>1, ElementOfSeq DEF LedgerTyped
<1> QED
  BY <1>1, <1>2 DEF Ledger!FillsOf

LEMMA LedgerStarts ==
  ASSUME Ledger!LedgerConstants, Ledger!Init
  PROVE  LedgerInv
<1>1. /\ fills = << >> /\ booked = {} /\ ownOrder = None /\ loose = {}
      /\ spent = [i \in 1..MaxFills |-> 0] /\ rows = [r \in Rows |-> 0]
      /\ pass = [pc |-> "idle", fetched |-> 0, ledger |-> {}, todo |-> {}, plan |-> << >>]
      /\ backfill = [pc |-> "idle", fetched |-> 0, known |-> {}]
      /\ MaxFills \in Nat
  BY DEF Ledger!Init, Ledger!NoPass, Ledger!NoBackfill, Ledger!LedgerConstants
<1>2. fills \in Seq(Orders) /\ Len(fills) = 0
  BY <1>1, EmptySeq
<1>3. /\ pass \in Passes /\ pass.pc = "idle" /\ pass.todo = {} /\ DOMAIN pass.plan = {}
      /\ pass.ledger = {} /\ pass.fetched = 0
  BY <1>1, PlanType DEF Passes
<1>4. backfill \in Backfills /\ backfill.fetched = 0
  BY <1>1 DEF Backfills
<1>5. spent \in [1..MaxFills -> Nat] /\ \A i \in 1..MaxFills : spent[i] = 0
  BY <1>1
<1>6. DOMAIN rows = Rows /\ \A r \in DOMAIN rows : rows[r] \in 0..MaxFills
  BY <1>1
<1>7. LedgerTyped
  BY <1>1, <1>2, <1>3, <1>4, <1>5, <1>6 DEF LedgerTyped
<1>8. SpentInv
  BY <1>5 DEF SpentInv
<1>9. PlanInv
  BY <1>2, <1>3 DEF PlanInv
<1> QED
  BY <1>7, <1>8, <1>9 DEF LedgerInv

(* New fills come after the others.                                        *)
LEMMA MoreFills ==
  ASSUME LedgerInv, MaxFills \in Nat,
         fills' \in Seq(Orders), Len(fills') <= MaxFills, Len(fills) <= Len(fills'),
         \A i \in 1..Len(fills) : fills'[i] = fills[i],
         ownOrder' \in Orders \cup {None}, ownOrder' # None => pass.pc = "idle",
         UNCHANGED <<booked, rows, pass, backfill, spent, loose>>
  PROVE  LedgerInv'
<1>1. /\ Len(fills) \in Nat /\ Len(fills') \in Nat /\ 1..Len(fills) \subseteq 1..Len(fills')
      /\ pass.fetched <= Len(fills') /\ backfill.fetched <= Len(fills')
  <2>1. Len(fills) \in Nat /\ Len(fills') \in Nat
    BY LenProperties DEF LedgerInv, LedgerTyped
  <2>2. pass.fetched \in Nat /\ backfill.fetched \in Nat
    BY DEF LedgerInv, LedgerTyped, Passes, Backfills
  <2> QED
    BY <2>1, <2>2 DEF LedgerInv, LedgerTyped
<1>2. LedgerTyped'
  BY <1>1 DEF LedgerInv, LedgerTyped
<1>3. SpentInv'
  <2> SUFFICES ASSUME NEW i \in 1..MaxFills
               PROVE  /\ spent[i] > 0 => i <= Len(fills') /\ fills'[i] \in booked \cup loose
                      /\ spent[i] > 1 => fills'[i] \in loose
    BY DEF SpentInv
  <2>1. /\ spent[i] > 0 => i <= Len(fills) /\ fills[i] \in booked \cup loose
        /\ spent[i] > 1 => fills[i] \in loose
        /\ spent[i] \in Nat
    BY DEF LedgerInv, LedgerTyped, SpentInv
  <2>2. i <= Len(fills) => i <= Len(fills') /\ fills'[i] = fills[i]
    BY <1>1
  <2>3. spent[i] > 1 => spent[i] > 0
    BY <2>1
  <2> QED
    BY <2>1, <2>2, <2>3
<1>4. PlanInv'
  <2>1. \A i : InPass(i) => i \in 1..Len(fills)
    BY DEF InPass, LedgerInv, LedgerTyped
  <2> QED
    BY <1>1, <2>1 DEF LedgerInv, PlanInv, InPass
<1> QED
  BY <1>2, <1>3, <1>4 DEF LedgerInv

LEMMA FillSteps ==
  ASSUME Ledger!LedgerConstants, LedgerInv, Ledger!FillOutside \/ Ledger!OwnFill
  PROVE  LedgerInv'
<1>0. MaxFills \in Nat /\ Rows \subseteq Nat /\ SizeOf \in [Rows -> Nat \ {0}] /\ fills \in Seq(Orders)
      /\ Len(fills) \in Nat
  BY LenProperties DEF Ledger!LedgerConstants, LedgerInv, LedgerTyped
<1>1. CASE Ledger!FillOutside
  <2>1. PICK o \in Orders : fills' = Append(fills, o)
    BY <1>1 DEF Ledger!FillOutside
  <2>2. /\ fills' \in Seq(Orders) /\ Len(fills') = Len(fills) + 1
        /\ \A i \in 1..Len(fills) : fills'[i] = fills[i]
    BY <1>0, <2>1, AppendProperties
  <2>3. /\ Len(fills) < MaxFills
        /\ UNCHANGED <<booked, rows, ownOrder, pass, backfill, spent, loose>>
    BY <1>1 DEF Ledger!FillOutside
  <2>4. ownOrder' \in Orders \cup {None} /\ (ownOrder' # None => pass.pc = "idle")
    BY <2>3 DEF LedgerInv, LedgerTyped
  <2> QED
    BY <1>0, <2>2, <2>3, <2>4, MoreFills
<1>2. CASE Ledger!OwnFill
  <2>1. PICK r \in DOMAIN rows, o \in Orders :
           /\ Len(fills) + SizeOf[r] <= MaxFills
           /\ fills' = fills \o [i \in 1..SizeOf[r] |-> o] /\ ownOrder' = o
    BY <1>2 DEF Ledger!OwnFill, Ledger!Open
  <2>2. SizeOf[r] \in Nat
    BY <1>0 DEF LedgerInv, LedgerTyped
  <2> DEFINE lots == [i \in 1..SizeOf[r] |-> o]
  <2>3. lots \in Seq(Orders) /\ Len(lots) = SizeOf[r]
    <3>1. lots \in [1..SizeOf[r] -> Orders]
      OBVIOUS
    <3> HIDE DEF lots
    <3>2. lots \in Seq(Orders)
      BY <2>2, <3>1, SeqDef
    <3>3. DOMAIN lots = 1..Len(lots) /\ Len(lots) \in Nat /\ DOMAIN lots = 1..SizeOf[r]
      BY <3>1, <3>2, LenProperties
    <3>4. 1..Len(lots) = 1..SizeOf[r] => Len(lots) = SizeOf[r]
      BY <2>2, <3>3
    <3> QED
      BY <3>2, <3>3, <3>4
  <2>4. /\ fills' \in Seq(Orders) /\ Len(fills') = Len(fills) + SizeOf[r]
        /\ \A i \in 1..Len(fills) + SizeOf[r] : fills'[i] =
              IF i <= Len(fills) THEN fills[i] ELSE lots[i - Len(fills)]
    <3>1. fills' = fills \o lots
      BY <2>1
    <3> HIDE DEF lots
    <3>2. /\ fills \o lots \in Seq(Orders) /\ Len(fills \o lots) = Len(fills) + Len(lots)
          /\ \A i \in 1..Len(fills) + Len(lots) : (fills \o lots)[i] =
                IF i <= Len(fills) THEN fills[i] ELSE lots[i - Len(fills)]
      BY <1>0, <2>3, ConcatProperties, ZenonT(60)
    <3> QED
      BY <2>3, <3>1, <3>2
  <2>5. \A i \in 1..Len(fills) : i \in 1..Len(fills) + SizeOf[r] /\ i <= Len(fills)
    BY <1>0, <2>2
  <2>6. \A i \in 1..Len(fills) : fills'[i] = fills[i]
    BY <2>4, <2>5
  <2>7. pass.pc = "idle" /\ UNCHANGED <<booked, rows, pass, backfill, spent, loose>>
    BY <1>2 DEF Ledger!OwnFill
  <2> QED
    BY <1>0, <2>1, <2>2, <2>4, <2>6, <2>7, MoreFills
<1> QED
  BY <1>1, <1>2

(* Fills are spent by one hand at a time: of orders nobody has booked, or   *)
(* of loose ones, and each once.                                           *)
LEMMA Spends ==
  ASSUME LedgerTyped, SpentInv, MaxFills \in Nat, NEW lots \in SUBSET (1..Len(fills)),
         UNCHANGED fills, booked \subseteq booked', loose \subseteq loose',
         \A i \in lots : fills[i] \in booked' \cup loose',
         \A i \in lots : fills[i] \notin booked \/ fills[i] \in loose,
         spent' \in [1..MaxFills -> Nat],
         \A i \in 1..MaxFills : spent'[i] <= spent[i] + (IF i \in lots THEN 1 ELSE 0)
  PROVE  SpentInv'
<1>1. Len(fills) \in Nat /\ spent \in [1..MaxFills -> Nat]
  BY FillsType DEF LedgerTyped
<1> SUFFICES ASSUME NEW i \in 1..MaxFills
             PROVE  /\ spent'[i] > 0 => i <= Len(fills) /\ fills[i] \in booked' \cup loose'
                    /\ spent'[i] > 1 => fills[i] \in loose'
  BY DEF SpentInv
<1>2. /\ spent[i] \in Nat /\ spent'[i] \in Nat
      /\ spent[i] > 0 => i <= Len(fills) /\ fills[i] \in booked \cup loose
      /\ spent[i] > 1 => fills[i] \in loose
  BY <1>1 DEF SpentInv
<1>3. CASE i \in lots
  <2>1. i <= Len(fills) /\ spent'[i] <= spent[i] + 1
    BY <1>1, <1>3
  <2>2. spent'[i] > 1 => spent[i] > 0
    BY <1>2, <2>1
  <2> QED
    BY <1>2, <1>3, <2>1, <2>2
<1>4. CASE i \notin lots
  <2>1. spent'[i] <= spent[i]
    BY <1>2, <1>4
  <2>2. (spent'[i] > 0 => spent[i] > 0) /\ (spent'[i] > 1 => spent[i] > 1)
    BY <1>2, <2>1
  <2> QED
    BY <1>2, <2>2
<1> QED
  BY <1>3, <1>4

LEMMA SpendIs ==
  ASSUME NEW lots, Ledger!Spend(lots), spent \in [1..MaxFills -> Nat]
  PROVE  /\ spent' \in [1..MaxFills -> Nat]
         /\ \A i \in 1..MaxFills : spent'[i] <= spent[i] + (IF i \in lots THEN 1 ELSE 0)
<1>1. spent' = [i \in 1..MaxFills |-> spent[i] + IF i \in lots THEN 1 ELSE 0]
  BY DEF Ledger!Spend
<1>2. \A i \in 1..MaxFills : spent[i] + (IF i \in lots THEN 1 ELSE 0) \in Nat
  OBVIOUS
<1> QED
  BY <1>1, <1>2

LEMMA Kept == ASSUME LedgerInv, UNCHANGED ledgerVars PROVE LedgerInv'
<1>1. UNCHANGED <<fills, booked, rows, ownOrder, pass, backfill, spent, loose>>
  BY DEF ledgerVars
<1>2. LedgerTyped' /\ SpentInv'
  BY <1>1 DEF LedgerInv, LedgerTyped, SpentInv
<1>3. PlanInv'
  BY <1>1 DEF LedgerInv, PlanInv, InPass
<1> QED
  BY <1>2, <1>3 DEF LedgerInv

LEMMA OwnBookedStep ==
  ASSUME Ledger!LedgerConstants, LedgerInv, Ledger!OwnBooked
  PROVE  LedgerInv'
<1>0. /\ MaxFills \in Nat /\ LedgerTyped /\ SpentInv /\ PlanInv
      /\ ownOrder \in Orders /\ pass.pc = "idle" /\ pass.ledger = {} /\ DOMAIN pass.plan = {}
      /\ None \notin Orders
  BY DEF Ledger!OwnBooked, LedgerInv, LedgerTyped, Ledger!LedgerConstants
<1>1. ownOrder' = None /\ UNCHANGED <<fills, pass, backfill, loose>>
  BY DEF Ledger!OwnBooked
<1>2. CASE ownOrder \in booked
  <2>1. UNCHANGED <<booked, rows, spent>>
    BY <1>2 DEF Ledger!OwnBooked
  <2>2. LedgerTyped' /\ SpentInv'
    BY <1>0, <1>1, <2>1 DEF LedgerTyped, SpentInv
  <2>3. PlanInv'
    BY <1>0, <1>1, <2>1 DEF PlanInv, InPass
  <2> QED
    BY <2>2, <2>3 DEF LedgerInv
<1>3. CASE ownOrder \notin booked
  <2>1. PICK r \in DOMAIN rows : /\ booked' = booked \cup {ownOrder}
                                 /\ Ledger!Spend(Ledger!FillsOf(ownOrder))
                                 /\ rows' = [s \in DOMAIN rows \ {r} |-> rows[s]]
    BY <1>3 DEF Ledger!OwnBooked, Ledger!Open, Ledger!Without
  <2>2. DOMAIN rows' \subseteq Rows /\ \A s \in DOMAIN rows' : rows'[s] \in 0..MaxFills
    BY <1>0, <2>1 DEF LedgerTyped
  <2>3. /\ spent' \in [1..MaxFills -> Nat]
        /\ \A i \in 1..MaxFills : spent'[i] <= spent[i]
              + (IF i \in Ledger!FillsOf(ownOrder) THEN 1 ELSE 0)
    BY <1>0, <2>1, SpendIs DEF LedgerTyped
  <2>4. LedgerTyped'
    <3>1. pass.todo = {}
      BY <1>0 DEF LedgerTyped
    <3> QED
      BY <1>0, <1>1, <2>1, <2>2, <2>3, <3>1 DEF LedgerTyped
  <2>5. SpentInv'
    <3>1. /\ Ledger!FillsOf(ownOrder) \in SUBSET (1..Len(fills))
          /\ \A i \in Ledger!FillsOf(ownOrder) : fills[i] = ownOrder
      BY <1>0, FillsType
    <3> HIDE DEF LedgerTyped, SpentInv
    <3>2. booked \subseteq booked' /\ loose \subseteq loose' /\ UNCHANGED fills
      BY <1>1, <2>1
    <3>3. \A i \in Ledger!FillsOf(ownOrder) : fills[i] \in booked' /\ fills[i] \notin booked
      BY <1>3, <2>1, <3>1
    <3> QED
      BY <1>0, <2>3, <3>1, <3>2, <3>3, Spends
  <2>6. PlanInv'
    BY <1>0, <1>1 DEF PlanInv, InPass
  <2> QED
    BY <2>4, <2>5, <2>6 DEF LedgerInv
<1> QED
  BY <1>2, <1>3

LEMMA PassStarts ==
  ASSUME Ledger!LedgerConstants, LedgerInv,
         Ledger!Opened \/ Ledger!PassFetches \/ Ledger!PassLedger
  PROVE  LedgerInv'
<1>0. /\ MaxFills \in Nat /\ LedgerTyped /\ SpentInv /\ PlanInv
      /\ Len(fills) \in Nat /\ Len(fills) <= MaxFills
  BY FillsType DEF LedgerInv, LedgerTyped, Ledger!LedgerConstants
<1>1. CASE Ledger!Opened
  <2>1. PICK r \in Rows : /\ rows' = [s \in DOMAIN rows \cup {r} |->
                                        IF s = r THEN Len(fills) ELSE rows[s]]
                          /\ UNCHANGED <<fills, booked, ownOrder, pass, backfill, spent, loose>>
    BY <1>1 DEF Ledger!Opened, Ledger!Open
  <2>2. DOMAIN rows' = DOMAIN rows \cup {r} /\ \A s \in DOMAIN rows' : rows'[s] \in 0..MaxFills
    BY <1>0, <2>1 DEF LedgerTyped
  <2>3. LedgerTyped'
    BY <1>0, <2>1, <2>2 DEF LedgerTyped
  <2>4. SpentInv' /\ PlanInv'
    BY <1>0, <2>1 DEF SpentInv, PlanInv, InPass
  <2> QED
    BY <2>3, <2>4 DEF LedgerInv
<1>2. CASE Ledger!PassFetches
  <2>1. PICK n \in {0, Len(fills)} :
           /\ pass' = [pc |-> "fetched", fetched |-> n, ledger |-> {}, todo |-> DOMAIN rows,
                       plan |-> << >>]
           /\ ownOrder = None
           /\ UNCHANGED <<fills, booked, rows, ownOrder, backfill, spent, loose>>
    BY <1>2 DEF Ledger!PassFetches, Ledger!NoPass, Ledger!Open
  <2>2. /\ pass' \in Passes /\ pass'.pc = "fetched" /\ pass'.todo = DOMAIN rows
        /\ pass'.ledger = {} /\ DOMAIN pass'.plan = {} /\ pass'.fetched <= Len(fills)
    BY <1>0, <2>1, PlanType DEF Passes, LedgerTyped
  <2>3. LedgerTyped'
    BY <1>0, <2>1, <2>2 DEF LedgerTyped
  <2>4. SpentInv' /\ PlanInv'
    BY <1>0, <2>1, <2>2 DEF SpentInv, PlanInv, InPass
  <2> QED
    BY <2>3, <2>4 DEF LedgerInv
<1>3. CASE Ledger!PassLedger
  <2> DEFINE lots == Ledger!Spendable(pass.fetched)
  <2>1. /\ pass.pc = "fetched" /\ pass' = [pass EXCEPT !.pc = "price", !.ledger = lots]
        /\ UNCHANGED <<fills, booked, rows, ownOrder, backfill, spent, loose>>
    BY <1>3 DEF Ledger!PassLedger
  <2>2. pass.fetched \in Nat /\ pass.fetched <= Len(fills) /\ DOMAIN pass.plan = {}
    BY <1>0, <2>1 DEF LedgerTyped, Passes
  <2>3. lots \subseteq 1..Len(fills) /\ \A i \in lots : fills[i] \notin booked
    BY <1>0, <2>2 DEF Ledger!Spendable
  <2>4. lots \in SUBSET (1..MaxFills)
    BY <1>0, <2>3
  <2> HIDE DEF lots
  <2>5. /\ pass' \in Passes /\ pass'.pc = "price" /\ pass'.ledger = lots
        /\ pass'.todo = pass.todo /\ pass'.plan = pass.plan /\ pass'.fetched = pass.fetched
    BY <1>0, <2>1, <2>4 DEF LedgerTyped, Passes
  <2>6. LedgerTyped'
    BY <1>0, <2>1, <2>2, <2>3, <2>5 DEF LedgerTyped
  <2>7. SpentInv' /\ PlanInv'
    BY <1>0, <2>1, <2>2, <2>3, <2>5 DEF SpentInv, PlanInv, InPass
  <2> QED
    BY <2>6, <2>7 DEF LedgerInv
<1> QED
  BY <1>1, <1>2, <1>3

(* A row is priced from fills the pass has left, and those leave it.       *)
LEMMA PriceRowStep ==
  ASSUME Ledger!LedgerConstants, LedgerInv, NEW r \in Rows, Ledger!PriceRow(r)
  PROVE  LedgerInv'
<1>0. /\ MaxFills \in Nat /\ LedgerTyped /\ SpentInv /\ PlanInv /\ pass.pc = "price"
      /\ Len(fills) \in Nat /\ Len(fills) <= MaxFills /\ Rows \subseteq Nat
  BY FillsType DEF LedgerInv, LedgerTyped, Ledger!LedgerConstants, Ledger!PriceRow
<1>1. UNCHANGED <<fills, booked, rows, ownOrder, backfill, spent, loose>>
  BY DEF Ledger!PriceRow
<1>2. r \in pass.todo
  <2>1. pass.todo \in SUBSET Nat /\ pass.todo # {} /\ r = Ledger!Min(pass.todo)
    BY <1>0 DEF Ledger!PriceRow, LedgerTyped, Passes
  <2> QED
    BY <2>1, SmallestIsOne
<1>3. PICK lots \in SUBSET pass.ledger :
         \/ pass' = [pass EXCEPT !.todo = @ \ {r}, !.ledger = @ \ lots,
                                 !.plan = Ledger!Planned(r, lots)]
         \/ /\ lots = {}
            /\ pass' = [pass EXCEPT !.todo = @ \ {r}]
  <2>1. CASE \E l \in SUBSET Ledger!Candidates(r) :
                pass' = [pass EXCEPT !.todo = @ \ {r}, !.ledger = @ \ l,
                                     !.plan = Ledger!Planned(r, l)]
    BY <2>1 DEF Ledger!Candidates
  <2>2. CASE \E plan \in {Ledger!Planned(r, {}), pass.plan} :
                pass' = [pass EXCEPT !.todo = @ \ {r}, !.plan = plan]
    <3>1. CASE pass' = [pass EXCEPT !.todo = @ \ {r}, !.plan = Ledger!Planned(r, {})]
      <4> DEFINE p == Ledger!Planned(r, {})
      <4>1. pass' = [pass EXCEPT !.todo = @ \ {r}, !.plan = p]
        BY <3>1
      <4> HIDE DEF p
      <4>2. pass' = [pass EXCEPT !.todo = @ \ {r}, !.ledger = @ \ {}, !.plan = p]
        BY <1>0, <4>1 DEF LedgerTyped, Passes
      <4> QED
        BY <4>2 DEF p
    <3>2. CASE pass' = [pass EXCEPT !.todo = @ \ {r}, !.plan = pass.plan]
      <4>1. pass' = [pass EXCEPT !.todo = @ \ {r}]
        BY <1>0, <3>2 DEF LedgerTyped, Passes
      <4> QED
        BY <4>1
    <3> QED
      BY <2>2, <3>1, <3>2
  <2> QED
    BY <2>1, <2>2 DEF Ledger!PriceRow
<1>4. /\ pass.plan \in [DOMAIN pass.plan -> SUBSET (1..MaxFills)] /\ DOMAIN pass.plan \subseteq Rows
      /\ pass.ledger \subseteq 1..Len(fills)
      /\ \A s \in DOMAIN pass.plan : pass.plan[s] \subseteq 1..Len(fills)
  BY <1>0, PlanType DEF LedgerTyped, Passes
<1>5. /\ Ledger!Planned(r, lots) \in Plans
      /\ DOMAIN Ledger!Planned(r, lots) = DOMAIN pass.plan \cup {r}
      /\ \A s \in DOMAIN pass.plan \cup {r} :
            Ledger!Planned(r, lots)[s] = IF s = r THEN lots ELSE pass.plan[s]
  <2>1. lots \in SUBSET (1..MaxFills)
    BY <1>0, <1>4
  <2>2. /\ Ledger!Planned(r, lots) = [s \in DOMAIN pass.plan \cup {r} |->
                                        IF s = r THEN lots ELSE pass.plan[s]]
    BY DEF Ledger!Planned
  <2>3. Ledger!Planned(r, lots) \in [DOMAIN pass.plan \cup {r} -> SUBSET (1..MaxFills)]
    BY <1>4, <2>1, <2>2
  <2>4. DOMAIN pass.plan \cup {r} \in SUBSET Rows
    BY <1>4
  <2> QED
    BY <2>2, <2>3, <2>4, PlanType
<1>6. PICK plan \in Plans :
         /\ pass' = [pass EXCEPT !.todo = @ \ {r}, !.ledger = @ \ lots, !.plan = plan]
         /\ DOMAIN plan \subseteq DOMAIN pass.plan \cup {r}
         /\ \A s \in DOMAIN plan : \/ s \in DOMAIN pass.plan /\ plan[s] = pass.plan[s]
                                   \/ s = r /\ plan[s] = lots
  <2>1. CASE pass' = [pass EXCEPT !.todo = @ \ {r}, !.ledger = @ \ lots,
                                  !.plan = Ledger!Planned(r, lots)]
    <3> DEFINE p == Ledger!Planned(r, lots)
    <3>1. /\ p \in Plans /\ pass' = [pass EXCEPT !.todo = @ \ {r}, !.ledger = @ \ lots, !.plan = p]
          /\ DOMAIN p = DOMAIN pass.plan \cup {r}
          /\ \A s \in DOMAIN p : p[s] = IF s = r THEN lots ELSE pass.plan[s]
      BY <1>5, <2>1
    <3> HIDE DEF p
    <3> QED
      BY <3>1
  <2>2. CASE lots = {} /\ pass' = [pass EXCEPT !.todo = @ \ {r}]
    <3>1. /\ pass' = [pass EXCEPT !.todo = @ \ {r}, !.ledger = @ \ lots, !.plan = pass.plan]
          /\ pass.plan \in Plans
      BY <1>0, <2>2 DEF LedgerTyped, Passes
    <3> QED
      BY <3>1
  <2> QED
    BY <1>3, <2>1, <2>2
<1>7. /\ pass'.pc = "price" /\ pass'.fetched = pass.fetched /\ pass'.plan = plan
      /\ pass'.ledger = pass.ledger \ lots /\ pass'.todo = pass.todo \ {r} /\ pass' \in Passes
  <2> DEFINE todo == pass.todo \ {r}
             left == pass.ledger \ lots
  <2>1. /\ pass' = [pass EXCEPT !.todo = todo, !.ledger = left, !.plan = plan]
        /\ todo \in SUBSET Rows /\ left \in SUBSET (1..MaxFills)
    BY <1>0, <1>6 DEF LedgerTyped, Passes
  <2> HIDE DEF todo, left
  <2>2. /\ pass'.pc = "price" /\ pass'.fetched = pass.fetched /\ pass'.plan = plan
        /\ pass'.ledger = left /\ pass'.todo = todo /\ pass' \in Passes
    BY <1>0, <1>6, <2>1 DEF LedgerTyped, Passes
  <2> QED
    BY <2>2 DEF todo, left
<1>8. LedgerTyped'
  <2>1. DOMAIN plan \subseteq DOMAIN rows /\ \A s \in DOMAIN plan : plan[s] \subseteq 1..Len(fills)
    BY <1>0, <1>2, <1>4, <1>6 DEF LedgerTyped
  <2>2. pass.fetched <= Len(fills) /\ pass.todo \subseteq DOMAIN rows
    BY <1>0 DEF LedgerTyped
  <2>3. /\ pass'.todo \subseteq DOMAIN rows /\ DOMAIN pass'.plan \subseteq DOMAIN rows
        /\ pass'.ledger \subseteq 1..Len(fills) /\ pass'.fetched <= Len(fills)
        /\ \A s \in DOMAIN pass'.plan : pass'.plan[s] \subseteq 1..Len(fills)
        /\ pass'.pc # "idle" /\ ~(pass'.pc # "price")
    BY <1>4, <1>7, <2>1, <2>2
  <2>4. ownOrder = None
    BY <1>0 DEF LedgerTyped
  <2> QED
    BY <1>0, <1>1, <1>7, <2>3, <2>4 DEF LedgerTyped
<1>9. SpentInv'
  BY <1>0, <1>1 DEF SpentInv
<1>10. PlanInv'
  <2>1. \A i : InPass(i)' => InPass(i)
    BY <1>6, <1>7 DEF InPass
  <2>2. \A s \in DOMAIN plan : plan[s] \cap (pass.ledger \ lots) = {}
    BY <1>0, <1>6 DEF PlanInv
  <2>3. \A s, t \in DOMAIN plan : s # t => plan[s] \cap plan[t] = {}
    BY <1>0, <1>6 DEF PlanInv
  <2>4. /\ \A i \in 1..Len(fills) : InPass(i)' /\ fills[i] \in booked => fills[i] \in loose
    BY <1>0, <2>1 DEF PlanInv
  <2> QED
    BY <1>1, <1>7, <2>2, <2>3, <2>4 DEF PlanInv
<1> QED
  BY <1>8, <1>9, <1>10 DEF LedgerInv

(* The trades of a pass: no fill is in two of them, and each order that      *)
(* they spend is booked or loose from then on.                             *)
LEMMA TradeOfAFill ==
  ASSUME PlanInv, NEW i
  PROVE  /\ Ledger!Cardinality(Ledger!TradesOf(i)) \in Nat
         /\ Ledger!Cardinality(Ledger!TradesOf(i)) <= IF i \in Ledger!Lots THEN 1 ELSE 0
<1>0. \A S : Ledger!Cardinality(S) = Cardinality(S)
  BY DEF Ledger!Cardinality, Cardinality
<1>1. CASE \E r \in DOMAIN pass.plan : i \in pass.plan[r]
  <2>1. PICK r \in DOMAIN pass.plan : i \in pass.plan[r]
    BY <1>1
  <2>2. Ledger!TradesOf(i) = {r}
    BY <2>1 DEF PlanInv, Ledger!TradesOf
  <2>3. Cardinality({r}) = 1
    BY FS_Singleton
  <2>4. i \in Ledger!Lots
    BY <2>1 DEF Ledger!Lots
  <2> QED
    BY <1>0, <2>2, <2>3, <2>4
<1>2. CASE ~\E r \in DOMAIN pass.plan : i \in pass.plan[r]
  <2>1. Ledger!TradesOf(i) = {} /\ i \notin Ledger!Lots
    BY <1>2 DEF Ledger!TradesOf, Ledger!Lots
  <2>2. Cardinality({}) = 0
    BY FS_EmptySet
  <2> QED
    BY <1>0, <2>1, <2>2
<1> QED
  BY <1>1, <1>2

LEMMA PassAppliesStep ==
  ASSUME Ledger!LedgerConstants, LedgerInv, Ledger!PassApplies
  PROVE  LedgerInv'
<1>0. /\ MaxFills \in Nat /\ LedgerTyped /\ SpentInv /\ PlanInv /\ pass.pc = "price"
      /\ Len(fills) \in Nat /\ \A i \in 1..Len(fills) : fills[i] \in Orders
      /\ spent \in [1..MaxFills -> Nat] /\ booked \in SUBSET Orders /\ loose \in SUBSET Orders
  BY FillsType DEF LedgerInv, LedgerTyped, Ledger!LedgerConstants, Ledger!PassApplies
<1>1. /\ UNCHANGED <<fills, ownOrder, backfill>> /\ pass' = Ledger!NoPass
      /\ booked' = booked \cup Ledger!Named
      /\ loose' = loose \cup ({fills[i] : i \in Ledger!Lots} \ Ledger!Named)
      /\ spent' = [i \in 1..MaxFills |-> spent[i] + Ledger!Cardinality(Ledger!TradesOf(i))]
      /\ rows' = [r \in DOMAIN rows \ DOMAIN pass.plan |-> rows[r]]
  BY DEF Ledger!PassApplies, Ledger!Without, Ledger!Open
<1>2. /\ pass'.pc = "idle" /\ pass'.fetched = 0 /\ pass'.ledger = {} /\ pass'.todo = {}
      /\ DOMAIN pass'.plan = {} /\ pass' \in Passes
  BY <1>0, <1>1, PlanType DEF Ledger!NoPass, Passes
<1>3. Ledger!Lots \in SUBSET (1..Len(fills))
  BY <1>0 DEF LedgerTyped, Ledger!Lots
<1>4. Ledger!Named \subseteq {fills[i] : i \in Ledger!Lots}
  <2> SUFFICES ASSUME NEW r \in DOMAIN pass.plan, pass.plan[r] # {}
               PROVE  Ledger!Min(pass.plan[r]) \in Ledger!Lots
    BY DEF Ledger!Named
  <2>1. pass.plan[r] \in SUBSET Nat
    BY <1>0 DEF LedgerTyped
  <2>2. Ledger!Min(pass.plan[r]) \in pass.plan[r]
    BY <2>1, SmallestIsOne
  <2> QED
    BY <2>2 DEF Ledger!Lots
<1>5. {fills[i] : i \in Ledger!Lots} \subseteq Orders
  BY <1>0, <1>3
<1>6. /\ booked' \in SUBSET Orders /\ loose' \in SUBSET Orders
      /\ booked \subseteq booked' /\ loose \subseteq loose'
  BY <1>0, <1>1, <1>4, <1>5
<1>7. /\ spent' \in [1..MaxFills -> Nat]
      /\ \A i \in 1..MaxFills : spent'[i] <= spent[i] + (IF i \in Ledger!Lots THEN 1 ELSE 0)
  <2>1. \A i \in 1..MaxFills :
           /\ Ledger!Cardinality(Ledger!TradesOf(i)) \in Nat
           /\ Ledger!Cardinality(Ledger!TradesOf(i)) <= IF i \in Ledger!Lots THEN 1 ELSE 0
    BY <1>0, TradeOfAFill
  <2> DEFINE n(i) == Ledger!Cardinality(Ledger!TradesOf(i))
  <2>2. /\ spent' = [i \in 1..MaxFills |-> spent[i] + n(i)]
        /\ \A i \in 1..MaxFills : n(i) \in Nat /\ n(i) <= IF i \in Ledger!Lots THEN 1 ELSE 0
    BY <1>1, <2>1
  <2> HIDE DEF n
  <2>3. \A i \in 1..MaxFills : spent[i] \in Nat /\ spent[i] + n(i) \in Nat
    BY <1>0, <2>2
  <2>4. spent' \in [1..MaxFills -> Nat] /\ \A i \in 1..MaxFills : spent'[i] = spent[i] + n(i)
    BY <2>2, <2>3
  <2> QED
    BY <2>2, <2>3, <2>4
<1>8. LedgerTyped'
  <2>1. DOMAIN rows' \subseteq Rows /\ \A r \in DOMAIN rows' : rows'[r] \in 0..MaxFills
    BY <1>0, <1>1 DEF LedgerTyped
  <2>2. ownOrder' \in Orders \cup {None} /\ backfill' \in Backfills /\ backfill'.fetched <= Len(fills')
    BY <1>0, <1>1 DEF LedgerTyped
  <2>3. fills' \in Seq(Orders) /\ Len(fills') <= MaxFills /\ Len(fills') \in Nat
    BY <1>0, <1>1 DEF LedgerTyped
  <2> QED
    BY <1>2, <1>6, <1>7, <2>1, <2>2, <2>3 DEF LedgerTyped
<1>9. SpentInv'
  <2>1. \A i \in Ledger!Lots : fills[i] \in booked' \cup loose'
    BY <1>1
  <2>2. \A i \in Ledger!Lots : fills[i] \notin booked \/ fills[i] \in loose
    BY <1>0, <1>3 DEF PlanInv, InPass, Ledger!Lots
  <2> QED
    BY <1>0, <1>1, <1>3, <1>6, <1>7, <2>1, <2>2, Spends
<1>10. PlanInv'
  BY <1>2 DEF PlanInv, InPass
<1> QED
  BY <1>8, <1>9, <1>10 DEF LedgerInv

LEMMA BackfillStep ==
  ASSUME Ledger!LedgerConstants, LedgerInv,
         Ledger!BackfillFetches \/ Ledger!BackfillReads \/ Ledger!BackfillCommits
  PROVE  LedgerInv'
<1>0. /\ MaxFills \in Nat /\ LedgerTyped /\ SpentInv /\ PlanInv
      /\ Len(fills) \in Nat /\ Len(fills) <= MaxFills
      /\ backfill \in Backfills /\ backfill.fetched <= Len(fills)
  BY FillsType DEF LedgerInv, LedgerTyped, Ledger!LedgerConstants
<1>1. CASE /\ UNCHANGED <<fills, booked, rows, ownOrder, pass, spent, loose>>
           /\ backfill' \in Backfills /\ backfill'.fetched <= Len(fills)
  <2>1. LedgerTyped' /\ SpentInv'
    BY <1>0, <1>1 DEF LedgerTyped, SpentInv
  <2>2. PlanInv'
    BY <1>0, <1>1 DEF PlanInv, InPass
  <2> QED
    BY <2>1, <2>2 DEF LedgerInv
<1>2. CASE Ledger!BackfillFetches
  <2>1. /\ backfill' \in Backfills /\ backfill'.fetched <= Len(fills)
    <3>1. backfill' = [pc |-> "fetched", fetched |-> Len(fills), known |-> {}]
      BY <1>2 DEF Ledger!BackfillFetches, Ledger!NoBackfill
    <3> QED
      BY <1>0, <3>1 DEF Backfills
  <2> QED
    BY <1>1, <1>2, <2>1 DEF Ledger!BackfillFetches
<1>3. CASE Ledger!BackfillReads
  <2>1. booked \in SUBSET Orders
    BY <1>0 DEF LedgerTyped
  <2>2. /\ backfill' \in Backfills /\ backfill'.fetched <= Len(fills)
    BY <1>0, <1>3, <2>1 DEF Ledger!BackfillReads, Backfills
  <2> QED
    BY <1>1, <1>3, <2>2 DEF Ledger!BackfillReads
<1>4. CASE Ledger!BackfillCommits
  <2> DEFINE fresh == Ledger!Insertable
             lots == {Ledger!Min(Ledger!FillsOf(o)) : o \in fresh}
  <2>1. /\ backfill' = [backfill EXCEPT !.pc = "done", !.known = {}] /\ Ledger!Spend(lots)
        /\ booked' = booked \cup fresh
        /\ loose' = loose \cup IF pass.pc = "price" THEN fresh ELSE {}
        /\ UNCHANGED <<fills, rows, ownOrder, pass>>
    BY <1>4 DEF Ledger!BackfillCommits
  <2>2. backfill' \in Backfills /\ backfill'.fetched <= Len(fills)
    BY <1>0, <2>1 DEF Backfills
  <2>3. fresh \subseteq {fills[i] : i \in 1..Len(fills)} /\ fresh \cap booked = {}
    <3>1. backfill.fetched \in Nat
      BY <1>0 DEF Backfills
    <3> QED
      BY <1>0, <3>1 DEF Ledger!Insertable
  <2>4. fresh \subseteq Orders
    BY <1>0, <2>3, FillsType
  <2>5. \A o \in fresh : /\ Ledger!Min(Ledger!FillsOf(o)) \in 1..Len(fills)
                         /\ fills[Ledger!Min(Ledger!FillsOf(o))] = o
    <3> SUFFICES ASSUME NEW o \in fresh
                 PROVE  /\ Ledger!Min(Ledger!FillsOf(o)) \in 1..Len(fills)
                        /\ fills[Ledger!Min(Ledger!FillsOf(o))] = o
      OBVIOUS
    <3>1. Ledger!FillsOf(o) \in SUBSET (1..Len(fills)) /\ Ledger!FillsOf(o) # {}
      BY <1>0, <2>3, FillsType
    <3>2. Ledger!FillsOf(o) \in SUBSET Nat
      BY <3>1
    <3>3. Ledger!Min(Ledger!FillsOf(o)) \in Ledger!FillsOf(o)
      BY <3>1, <3>2, SmallestIsOne
    <3> QED
      BY <1>0, <3>1, <3>3, FillsType
  <2>6. lots \in SUBSET (1..Len(fills)) /\ \A i \in lots : fills[i] \in fresh
    BY <2>5
  <2> HIDE DEF lots, fresh
  <2>7. /\ spent' \in [1..MaxFills -> Nat]
        /\ \A i \in 1..MaxFills : spent'[i] <= spent[i] + (IF i \in lots THEN 1 ELSE 0)
    BY <1>0, <2>1, SpendIs DEF LedgerTyped
  <2>8. /\ booked \subseteq booked' /\ loose \subseteq loose'
        /\ booked' \in SUBSET Orders /\ loose' \in SUBSET Orders
    BY <1>0, <2>1, <2>4 DEF LedgerTyped
  <2>9. LedgerTyped'
    BY <1>0, <2>1, <2>2, <2>7, <2>8 DEF LedgerTyped
  <2>10. SpentInv'
    <3>1. \A i \in lots : fills[i] \in booked' \cup loose' /\ fills[i] \notin booked
      BY <2>1, <2>3, <2>6
    <3> QED
      BY <1>0, <2>1, <2>6, <2>7, <2>8, <3>1, Spends
  <2>11. PlanInv'
    <3>1. \A i : InPass(i) => pass.pc = "price"
      BY <1>0 DEF InPass, LedgerTyped
    <3>2. \A i \in 1..Len(fills) : InPass(i) /\ fills[i] \in booked' => fills[i] \in loose'
      BY <1>0, <2>1, <3>1 DEF PlanInv
    <3>3. \A i : InPass(i)' <=> InPass(i)
      BY <2>1 DEF InPass
    <3> QED
      BY <1>0, <2>1, <3>2, <3>3 DEF PlanInv
  <2> QED
    BY <2>9, <2>10, <2>11 DEF LedgerInv
<1> QED
  BY <1>2, <1>3, <1>4

LEMMA LedgerKeeps == Ledger!LedgerConstants /\ LedgerInv /\ [Ledger!Next]_ledgerVars => LedgerInv'
<1> SUFFICES ASSUME Ledger!LedgerConstants, LedgerInv, [Ledger!Next]_ledgerVars
             PROVE  LedgerInv'
  OBVIOUS
<1>1. CASE UNCHANGED ledgerVars
  BY <1>1, Kept
<1>2. CASE Ledger!FillOutside \/ Ledger!OwnFill
  BY <1>2, FillSteps
<1>3. CASE Ledger!OwnBooked
  BY <1>3, OwnBookedStep
<1>4. CASE Ledger!Opened \/ Ledger!PassFetches \/ Ledger!PassLedger
  BY <1>4, PassStarts
<1>5. CASE \E r \in Rows : Ledger!PriceRow(r)
  BY <1>5, PriceRowStep
<1>6. CASE Ledger!PassApplies
  BY <1>6, PassAppliesStep
<1>7. CASE Ledger!BackfillFetches \/ Ledger!BackfillReads \/ Ledger!BackfillCommits
  BY <1>7, BackfillStep
<1> QED
  BY <1>1, <1>2, <1>3, <1>4, <1>5, <1>6, <1>7 DEF Ledger!Next

LEMMA LedgerHolds == Spec => []LedgerInv
<1>1. Ledger!LedgerConstants
  BY ComponentsConstants
<1>2. Init => LedgerInv
  BY <1>1, LedgerStarts DEF Init
<1>3. LedgerInv /\ [Next]_vars => LedgerInv'
  BY <1>1, LedgerKeeps, StepOfAPart
<1> QED
  BY <1>2, <1>3, PTL DEF Spec

(* A fill is part of at most one trade, whichever of the runner, a pass and  *)
(* the backfill book it, but for the orders two hands had.                 *)
THEOREM SpentOnce == Spec => []SpentOnceUnderItsId
<1>1. LedgerInv => SpentOnceUnderItsId
  <2> SUFFICES ASSUME LedgerInv, NEW i \in DOMAIN fills, spent[i] > 1
               PROVE  fills[i] \in loose
    BY DEF SpentOnceUnderItsId, Ledger!SpentOnceUnderItsId
  <2>1. i \in 1..Len(fills) /\ Len(fills) \in Nat /\ MaxFills \in Nat /\ Len(fills) <= MaxFills
    BY LenProperties, ComponentsConstants DEF LedgerInv, LedgerTyped, Ledger!LedgerConstants
  <2>2. i \in 1..MaxFills
    BY <2>1
  <2> QED
    BY <2>2 DEF LedgerInv, SpentInv
<1> QED
  BY <1>1, LedgerHolds, PTL

(* The state of every part has its type.                                   *)
THEOREM TypesOfTheParts == Spec => []TypeOK
<1>1. LedgerInv => Ledger!TypeOK
  <2> SUFFICES ASSUME LedgerInv PROVE Ledger!TypeOK
    OBVIOUS
  <2>1. backfill.known \subseteq Orders
    BY DEF LedgerInv, LedgerTyped, Backfills
  <2> QED
    BY <2>1 DEF LedgerInv, LedgerTyped, Ledger!TypeOK, Ledger!Open
<1>2. StratP!TypeOK => Strategy!TypeOK
  BY SameStrategy DEF StratP!TypeOK, Strategy!TypeOK
<1>3. LifeP!TypeOK => Lifecycle!TypeOK
  BY Zenon DEF LifeP!TypeOK, Lifecycle!TypeOK
<1>4. ChatP!TypeOK => Chat!TypeOK
  <2>1. Chat!Commands = ChatP!Commands
    BY DEF Chat!Commands, ChatP!Commands
  <2> QED
    BY <2>1 DEF ChatP!TypeOK, Chat!TypeOK
<1>5. StratP!Spec => []StratP!TypeOK
  BY StrategyConstants, StratP!StateTypes
<1>6. LifeP!Spec => []LifeP!TypeOK
  BY LifeConstants, LifeP!LifecycleTypes
<1>7. ChatP!Spec => []ChatP!TypeOK
  BY ChatConstants, ChatP!ChatTypes
<1>8. Ledger!TypeOK /\ Strategy!TypeOK /\ Lifecycle!TypeOK /\ Chat!TypeOK => TypeOK
  BY DEF TypeOK
<1> QED
  BY <1>1, <1>2, <1>3, <1>4, <1>5, <1>6, <1>7, <1>8, LedgerHolds, StrategySpec, LifeSpec,
     ChatSpec, PTL
=============================================================================
