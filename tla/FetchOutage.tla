---------------------------- MODULE FetchOutage ----------------------------
(***************************************************************************)
(* The fetch-outage window of the runner. Each tick that is not paused     *)
(* gathers the strategies whose candles could not be fetched and settles:  *)
(* the window opens at the first failure, closes at a tick without one,    *)
(* and is reported once when it lasts. Time passes between ticks, the bot  *)
(* is paused and resumed, and the bus may have nobody listening.           *)
(***************************************************************************)
EXTENDS Integers

CONSTANTS Feeds,        \* the strategies
          Threshold,    \* fetch_outage_alert_seconds; 0 turns the alert off
          MaxClock      \* bound

FetchConstants == Threshold \in Nat /\ MaxClock \in Nat

Closed == -1

VARIABLES clock,
          outageStart,  \* _outage_start, Closed when there is no window
          affected,     \* _outage_affected
          outageAlerted, \* _outage_alerted
          outageAlerts, \* alerts published for this window, each with its names
          failing       \* the failures of the last tick that was not paused

vars == <<clock, outageStart, affected, outageAlerted, outageAlerts, failing>>

Init == /\ clock = 0 /\ outageStart = Closed /\ affected = {} /\ outageAlerted = FALSE
        /\ outageAlerts = 0 /\ failing = {}

CloseWindow == /\ outageStart' = Closed /\ affected' = {} /\ outageAlerted' = FALSE
               /\ outageAlerts' = 0

Lasting(began) == Threshold > 0 /\ clock - began >= Threshold

(* Mutant: the alert is sent again at each tick. *)
AnnounceUnlatched == /\ outageAlerted' = FALSE /\ outageAlerts' = outageAlerts + 1

(* The latch is set before the event is published, and what the bus answers *)
(* is not looked at.                                                       *)
Announce == /\ outageAlerted' = TRUE /\ outageAlerts' = outageAlerts + 1

KeepWindow(failures) ==
    /\ outageStart' = IF outageStart = Closed THEN clock ELSE outageStart
    /\ affected' = affected \cup failures
    /\ IF Lasting(outageStart') /\ ~outageAlerted
       THEN Announce
       ELSE UNCHANGED <<outageAlerted, outageAlerts>>

(* Mutant: the window ends when one of its strategies recovers. *)
SettlePerStrategy(failures) ==
    /\ IF failures = {} \/ ~(affected \subseteq failures)
       THEN CloseWindow ELSE KeepWindow(failures)
    /\ failing' = failures

(* _settle_fetch_outage. *)
Settle(failures) == /\ IF failures = {} THEN CloseWindow ELSE KeepWindow(failures)
                    /\ failing' = failures

(* A tick that runs the strategies; one that is paused leaves the window.   *)
Tick == /\ \E failures \in SUBSET Feeds : Settle(failures)
        /\ UNCHANGED clock

TimePasses == /\ clock < MaxClock /\ clock' = clock + 1
              /\ UNCHANGED <<outageStart, affected, outageAlerted, outageAlerts,
                             failing>>

Restart == /\ CloseWindow /\ failing' = {} /\ UNCHANGED clock

Next == Tick \/ TimePasses \/ Restart

Spec == Init /\ [][Next]_vars

----------------------------------------------------------------------------

TypeOK == /\ clock \in 0..MaxClock /\ outageStart \in Closed..MaxClock
          /\ affected \subseteq Feeds /\ failing \subseteq Feeds
          /\ outageAlerted \in BOOLEAN /\ outageAlerts \in Nat

(* One alert per outage, whichever strategies join or leave it, however long *)
(* it lasts and however often it is paused in between.                      *)
OneAlertPerWindow == outageAlerts <= 1 /\ (outageAlerts = 1 <=> outageAlerted)

(* An outage opens with the first strategy that fails and ends only when all *)
(* of them recovered in one tick that ran.                                  *)
WindowSpansOutage ==
    [][ /\ (outageStart # Closed /\ outageStart' = Closed) => failing' = {}
        /\ (failing # {} /\ failing' # {}) =>
              outageStart' = outageStart /\ affected' = affected \cup failing' ]_vars
=============================================================================
