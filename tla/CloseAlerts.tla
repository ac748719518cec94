---------------------------- MODULE CloseAlerts ----------------------------
(***************************************************************************)
(* What the operator hears of closes that did not go through: one strategy  *)
(* on one coin, its row, the streak of refused closes (_close_rejects), and *)
(* the alerts about a close nobody sends again (_unsent_close_alerts). The  *)
(* bus may have no listener at any time.                                   *)
(***************************************************************************)
EXTENDS Naturals, FiniteSets

CONSTANTS WideBand,             \* CLOSE_REJECTS_BEFORE_WIDE_BAND
          MaxDrops              \* bound: closes nobody sends again

CloseAlertsConstants == WideBand \in Nat \ {0} /\ MaxDrops \in Nat

VARIABLES row,          \* the strategy's row is open
          managed,      \* the strategy believes in it, so its exit can fire
          streak,       \* the close rejects, or NoStreak
          noted,        \* a close of this bar was noted for unreadable rows
          unsent,       \* alerts the bus has not taken
          drops,        \* closes nobody sends again, so far
          band,         \* whether the last miss had the wide band
          heard,        \* history: alerts of this episode taken, per level
          unheard       \* history: alerts owed for drops and not taken

vars == <<row, managed, streak, noted, unsent, unheard, drops, band, heard>>

(* count: misses while the exit fires, exact up to the first that is one    *)
(* too many; told: the highest level delivered; since: "firing", or how     *)
(* long ago the exit fired last.                                           *)
NoStreak == [count |-> 0, told |-> 0, since |-> "none"]
NothingHeard == [l \in 1..2 |-> 0]
Most == WideBand + 1

Init == /\ row = TRUE /\ managed = TRUE /\ streak = NoStreak /\ noted = FALSE
        /\ unsent = {} /\ drops = 0 /\ band = FALSE /\ heard = NothingHeard
        /\ unheard = {}

Forget == streak' = NoStreak /\ heard' = NothingHeard

Exits == row /\ managed

(* Mutant: the wide band starts one miss late. *)
LateBand(rejects) == rejects.count > WideBand

Wide(rejects) == rejects.count >= WideBand

(* A fill ends the streak.  What fell short of the row stays open on it,    *)
(* and the strategy is set back to that rest.                              *)
Filled == /\ Exits /\ row' \in BOOLEAN /\ managed' = row'
          /\ Forget /\ noted' = FALSE /\ band' = FALSE
          /\ UNCHANGED <<unsent, unheard, drops>>

(* Mutant: the levels start anew with each streak. *)
NewsEachStreak == streak.count = 0

(* The exit was quiet long enough: its alerts are news again. *)
News == streak.since = "long"

(* _alert_rejected_close: the level follows the count of this miss.        *)
Rejected ==
    LET told == IF News THEN 0 ELSE streak.told
        n == IF streak.count < Most THEN streak.count + 1 ELSE Most
        level == IF n > WideBand THEN 2 ELSE 1
    IN  \E taken \in BOOLEAN :
           LET sent == told < level /\ taken
           IN  /\ streak' = [count |-> n, since |-> "firing",
                             told |-> IF sent THEN level ELSE told]
               /\ heard' = IF sent THEN [heard EXCEPT ![level] = @ + 1] ELSE heard

(* A close that was refused or left something open. *)
Missed == /\ Exits /\ Rejected /\ band' = Wide(streak)
          /\ UNCHANGED <<row, managed, noted, unsent, unheard, drops>>

(* Mutant: an alert nobody took is not kept. *)
TellOnce == /\ unheard' \in {unheard, unheard \cup {drops'}}
            /\ UNCHANGED unsent

(* _alert_unmanaged_close. *)
TellOrKeep == \E owed \in {{}, {drops'}} : /\ unsent' = unsent \cup owed
                                          /\ unheard' = unheard \cup owed

(* A close whose outcome is unknown, or whose coin's rows are unreadable    *)
(* (noted once a bar), is not sent again; beside another row it is dropped  *)
(* without an alert.                                                       *)
Dropped(why) ==
    /\ Exits /\ drops < MaxDrops /\ drops' = drops + 1
    /\ managed' = FALSE /\ Forget /\ band' = FALSE
    /\ noted' = (noted \/ why = "unreadable")
    /\ IF why = "beside" \/ (why = "unreadable" /\ noted)
       THEN UNCHANGED <<unsent, unheard>> ELSE TellOrKeep
    /\ UNCHANGED row

(* Nothing is held any more: the row is booked, or waits for reconcile. *)
Gone == /\ Exits /\ row' \in BOOLEAN /\ managed' = FALSE
        /\ Forget /\ band' = FALSE /\ UNCHANGED <<noted, unsent, unheard, drops>>

(* A candle without an exit ends the streak; the episode goes on until the  *)
(* exit was quiet for CLOSE_EPISODE_QUIET_SECONDS.                         *)
ExitQuiet == /\ streak.count > 0
             /\ streak' = [streak EXCEPT !.count = 0, !.since = "quiet"]
             /\ band' = FALSE
             /\ UNCHANGED <<row, managed, noted, unsent, unheard, drops, heard>>

TimePasses == /\ streak.since = "quiet" /\ streak' = [streak EXCEPT !.since = "long"]
              /\ heard' = NothingHeard
              /\ UNCHANGED <<row, managed, noted, unsent, unheard, drops, band>>

NewBar == /\ noted /\ noted' = FALSE
          /\ UNCHANGED <<row, managed, streak, unsent, unheard, drops, band, heard>>

(* _resend_close_alerts, at each tick: what is taken is dropped.           *)
Resend(left) == /\ unsent # {} /\ left \subseteq unsent /\ unsent' = left
                /\ unheard' = unheard \ (unsent \ left)
                /\ UNCHANGED <<row, managed, streak, noted, drops, band, heard>>

(* Reconcile or a flat-all closed the row: reset to flat.                   *)
ClosedOutside == /\ row /\ row' = FALSE /\ managed' = FALSE /\ Forget /\ band' = FALSE
                 /\ UNCHANGED <<noted, unsent, unheard, drops>>

Opened == /\ ~row /\ row' = TRUE /\ managed' = TRUE /\ noted' = FALSE
          /\ UNCHANGED <<streak, unsent, unheard, drops, band, heard>>

(* A restart restores the strategy from its row and forgets the alerts.     *)
Restart == /\ managed' = row /\ Forget /\ noted' = FALSE /\ unsent' = {}
           /\ unheard' = {}
           /\ band' = FALSE /\ UNCHANGED <<row, drops>>

Next == \/ Filled \/ Missed \/ Gone \/ ExitQuiet \/ TimePasses \/ NewBar
        \/ ClosedOutside \/ Opened \/ Restart
        \/ \E why \in {"beside", "unreadable", "unknown"} : Dropped(why)
        \/ \E left \in SUBSET unsent : Resend(left)

Spec == Init /\ [][Next]_vars

(* The tick resends each time, and again and again somebody listens. *)
Fairness == SF_vars(Resend({}))

----------------------------------------------------------------------------

TypeOK ==
    /\ {row, managed, noted, band} \subseteq BOOLEAN
    /\ streak \in [count : 0..Most, told : 0..2,
                   since : {"none", "firing", "quiet", "long"}]
    /\ drops \in 0..MaxDrops /\ {unsent, unheard} \subseteq SUBSET (1..MaxDrops)
    /\ heard \in [1..2 -> Nat]

(* An exit that comes and goes is one episode: each level is heard at most  *)
(* once (a restart forgets what was heard).                                *)
OneAlertPerLevel == \A l \in 1..2 : heard[l] <= 1

(* What is heard of a miss says which band it had: a critical alert speaks  *)
(* of the wide one, and the first alert never does.                        *)
CriticalWithTheWideBand ==
    [][ /\ heard'[2] > heard[2] => band'
        /\ heard'[1] > heard[1] => ~band' ]_vars

(* An alert about a close nobody sends again arrives, or the bot restarts.  *)
UnsentArrives == \A d \in 1..MaxDrops : d \in unheard ~> d \notin unheard
=============================================================================
