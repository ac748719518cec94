---------------------------- MODULE MCComponents ----------------------------
(***************************************************************************)
(* Parts of the system that share no state with one another, as in         *)
(* MCRunnerTasks: a behaviour runs one of them and the others stand still   *)
(* in some first state of theirs. Safety only.                             *)
(***************************************************************************)
EXTENDS Integers, Sequences, FiniteSets, TLC

CONSTANTS None,
          Orders, Rows, SizeOf, MaxFills,
          Prices, Shapes, CooldownBars, MaxBar,
          Bots, Cap, Slots, MaxSpawns,
          MaxSent, MaxCrashes

VARIABLES part,
          fills, booked, rows, ownOrder, pass, backfill, spent, loose,
          profile, bar, shape, mem, posRow, snap, up, ref, forgot, astray,
          bots, docker, spawns, request, crossed, died,
          sent, confirmed, last, fetched, inHand, cooling, paused, outcome, crashes

Ledger == INSTANCE FillLedger
Strategy == INSTANCE StrategyState
Lifecycle == INSTANCE BotLifecycle
Chat == INSTANCE Telegram

ASSUME ComponentsConstants == /\ Ledger!LedgerConstants
                              /\ Strategy!StrategyConstants
                              /\ Lifecycle!LifecycleConstants
                              /\ Chat!TelegramConstants

(* Two lots for the first row; the second row is the smaller one.          *)
Lots == <<2, 1>>

(* A bar that stands still, and bars that move one step or close at either  *)
(* end of their range.                                                     *)
FiveBars == {[low |-> 2, high |-> 2, close |-> 2], [low |-> 2, high |-> 3, close |-> 2],
             [low |-> 1, high |-> 2, close |-> 2], [low |-> 1, high |-> 3, close |-> 3],
             [low |-> 1, high |-> 3, close |-> 1]}

Interchangeable == Permutations(Orders) \cup Permutations(Bots) \cup Permutations(Slots)

ledgerVars == <<fills, booked, rows, ownOrder, pass, backfill, spent, loose>>
strategyVars == <<profile, bar, shape, mem, posRow, snap, up, ref, forgot, astray>>
lifecycleVars == <<bots, docker, spawns, request, crossed, died>>
telegramVars == <<sent, confirmed, last, fetched, inHand, cooling, paused, outcome,
                  crashes>>
vars == <<part, ledgerVars, strategyVars, lifecycleVars, telegramVars>>

(* One first state stands for the rest where a part does not run.          *)
StrategyStill == profile = Strategy!cdc_macd /\ shape.low = shape.high
                 /\ shape.calls = None /\ ~shape.leave
BotsStill == \A b \in Bots : bots[b] = Lifecycle!Absent
NobodyPaused == \A b \in Bots : ~paused[b]

Init == /\ part \in {"ledger", "strategy", "lifecycle", "chat"}
        /\ Ledger!Init
        /\ Strategy!Init /\ (part # "strategy" => StrategyStill)
        /\ Lifecycle!Init /\ (part # "lifecycle" => BotsStill)
        /\ Chat!Init /\ (part # "chat" => NobodyPaused)

LedgerRuns == /\ part = "ledger" /\ Ledger!Next
              /\ UNCHANGED <<part, strategyVars, lifecycleVars, telegramVars>>
StrategyRuns == /\ part = "strategy" /\ Strategy!Next
                /\ UNCHANGED <<part, ledgerVars, lifecycleVars, telegramVars>>
LifecycleRuns == /\ part = "lifecycle" /\ Lifecycle!Next
                 /\ UNCHANGED <<part, ledgerVars, strategyVars, telegramVars>>

ChatRuns == /\ part = "chat" /\ Chat!Next
            /\ UNCHANGED <<part, ledgerVars, strategyVars, lifecycleVars>>

Next == LedgerRuns \/ StrategyRuns \/ LifecycleRuns \/ ChatRuns

Spec == Init /\ [][Next]_vars

-----------------------------------------------------------------------------
TypeOK == Ledger!TypeOK /\ Strategy!TypeOK /\ Lifecycle!TypeOK /\ Chat!TypeOK
SpentOnceUnderItsId == Ledger!SpentOnceUnderItsId
MemoryMatchesRow == Strategy!MemoryMatchesRow
RatchetHolds == Strategy!RatchetHolds
DueExitFiresAgain == Strategy!DueExitFiresAgain
CooldownKept == Strategy!CooldownKept
CapHolds == Lifecycle!CapHolds
NoStrayContainer == Lifecycle!NoStrayContainer
LastWordStands == Chat!LastWordStands

StoppedMeansStopped == Lifecycle!StoppedMeansStopped
=============================================================================
