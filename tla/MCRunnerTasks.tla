--------------------------- MODULE MCRunnerTasks ---------------------------
(***************************************************************************)
(* The tasks beside the book, which share no state with one another: a     *)
(* behaviour runs one of them, chosen at the start, and the others stand   *)
(* still. TLC adds their state spaces up instead of multiplying them.      *)
(***************************************************************************)
EXTENDS Integers, FiniteSets

CONSTANTS Limit, MaxTrades, MaxDays,
          Users, Levels, Default, MaxChanges,
          Feeds, Threshold, MaxClock,
          Names,
          WideBand, MaxDrops,
          AtOnce, PageCap, PollPages, Lookback, Overlap, MaxTime

Pnls == {-1, 1}

VARIABLES part,
          today, stored, date, daily, loaded, pending, persistAlerted, verdict,
          trades,
          override, lev, read, tickPc, asked, pushed, pushAlerted, exch, underway,
          opening, strayed, changes,
          clock, outageStart, affected, outageAlerted, outageAlerts, failing,
          hot, disabled, rateChecks, todo, tripped, rateAlerts, byHand,
          row, managed, streak, noted, unsent, unheard, drops, band, heard,
          now, paid, inTable, reader, floor

Loss == INSTANCE DailyLoss
Push == INSTANCE LeveragePush
Fetch == INSTANCE FetchOutage
Rate == INSTANCE RateAlarm
Close == INSTANCE CloseAlerts
Funding == INSTANCE FundingIngest

ASSUME TasksConstants == /\ Loss!DailyLossConstants /\ Push!LeverageConstants
                         /\ Fetch!FetchConstants /\ Close!CloseAlertsConstants
                         /\ Funding!FundingConstants

lossVars == <<today, stored, date, daily, loaded, pending, persistAlerted,
              verdict, trades>>
pushVars == <<override, lev, read, tickPc, asked, pushed, pushAlerted, exch,
              underway, opening, strayed, changes>>
fetchVars == <<clock, outageStart, affected, outageAlerted, outageAlerts,
               failing>>
rateVars == <<hot, disabled, rateChecks, todo, tripped, rateAlerts, byHand>>
closeVars == <<row, managed, streak, noted, unsent, unheard, drops, band, heard>>
fundingVars == <<now, paid, inTable, reader, floor>>
vars == <<part, lossVars, pushVars, fetchVars, rateVars, closeVars, fundingVars>>

Init == /\ part \in {"loss", "push", "fetch", "rate", "close", "funding"}
        /\ Loss!Init /\ Push!Init /\ Fetch!Init
        /\ Rate!Init /\ Close!Init /\ Funding!Init

LossRuns == /\ part = "loss" /\ Loss!Next
            /\ UNCHANGED <<part, pushVars, fetchVars, rateVars, closeVars, fundingVars>>
PushRuns == /\ part = "push" /\ Push!Next
            /\ UNCHANGED <<part, lossVars, fetchVars, rateVars, closeVars, fundingVars>>
FetchRuns == /\ part = "fetch" /\ Fetch!Next
             /\ UNCHANGED <<part, lossVars, pushVars, rateVars, closeVars, fundingVars>>
RateRuns == /\ part = "rate" /\ Rate!Next
            /\ UNCHANGED <<part, lossVars, pushVars, fetchVars, closeVars, fundingVars>>
CloseRuns == /\ part = "close" /\ Close!Next
             /\ UNCHANGED <<part, lossVars, pushVars, fetchVars, rateVars, fundingVars>>
FundingRuns == /\ part = "funding" /\ Funding!Next
               /\ UNCHANGED <<part, lossVars, pushVars, fetchVars, rateVars, closeVars>>

Next == LossRuns \/ PushRuns \/ FetchRuns \/ RateRuns \/ CloseRuns \/ FundingRuns

Spec == Init /\ [][Next]_vars

(* Each task under its own fairness, which asks nothing of one that stands  *)
(* still in its first state.                                               *)
LiveSpec == Spec /\ Rate!Fairness /\ Close!Fairness /\ Funding!Fairness

-----------------------------------------------------------------------------
TypeOK == /\ Loss!TypeOK /\ Push!TypeOK /\ Fetch!TypeOK
          /\ Rate!TypeOK /\ Close!TypeOK /\ Funding!TypeOK
IsLossCounter == Loss!IsLossCounter
CapGatesOpens == Loss!CapGatesOpens
OpensAtTarget == Push!OpensAtTarget
OneAlertPerWindow == Fetch!OneAlertPerWindow
WindowSpansOutage == Fetch!WindowSpansOutage
OperatorHasLastWord == Rate!OperatorHasLastWord
OneAlertPerLevel == Close!OneAlertPerLevel
CriticalWithTheWideBand == Close!CriticalWithTheWideBand
NoHole == Funding!NoHole

(* Liveness, for a behaviour that runs the task. *)
SpamIsStopped == part = "rate" => Rate!SpamIsStopped
UnsentArrives == part = "close" => Close!UnsentArrives
AllStored == part = "funding" => Funding!AllStored
=============================================================================
