----------------------------- MODULE RateAlarm -----------------------------
(***************************************************************************)
(* The trade-rate alarm: once an interval the runner counts each strategy's *)
(* trades of the last hour and disables, through Redis, the ones that spam. *)
(* The counts, the set of the disabled and each write are awaited apart;    *)
(* the operator enables and disables strategies between any two of them.    *)
(***************************************************************************)
EXTENDS Naturals, FiniteSets

CONSTANT Names                  \* the strategies

VARIABLES hot,          \* those whose last hour trips a threshold
          disabled,     \* the set in Redis
          rateChecks,   \* where a check is: "idle", "counted" or "loop"
          todo,         \* what it has still to look at
          tripped,      \* _rate_alarm_paused
          rateAlerts,   \* alerts of this process, per strategy
          byHand        \* those the operator was the last to disable

vars == <<hot, disabled, rateChecks, todo, tripped, rateAlerts, byHand>>

Init == /\ hot = {} /\ disabled = {} /\ rateChecks = "idle" /\ todo = {}
        /\ tripped = {} /\ rateAlerts = [s \in Names |-> 0]
        /\ byHand = {}

Env == UNCHANGED <<rateChecks, todo, tripped, rateAlerts>>

(* Only an enabled strategy trades; its burst ends, or leaves the hour. *)
HeatUp(s) == /\ s \notin disabled /\ hot' = hot \cup {s}
             /\ Env /\ UNCHANGED <<disabled, byHand>>

CoolDown(s) == /\ hot' = hot \ {s}
               /\ Env /\ UNCHANGED <<disabled, byHand>>

(* The reads of a check; one that fails ends it until the next interval. *)
CountTrades == /\ rateChecks = "idle" /\ hot # {} /\ rateChecks' = "counted" /\ todo' = hot
               /\ UNCHANGED <<hot, disabled, tripped, rateAlerts, byHand>>

ReadDisabled == /\ rateChecks = "counted" /\ rateChecks' = "loop"
                /\ todo' = (todo \ disabled) \ tripped
                /\ UNCHANGED <<hot, disabled, tripped, rateAlerts, byHand>>

ReadFails == /\ rateChecks = "counted" /\ rateChecks' = "idle" /\ todo' = {}
             /\ UNCHANGED <<hot, disabled, tripped, rateAlerts, byHand>>

LoopEnds == /\ rateChecks = "loop" /\ todo = {} /\ rateChecks' = "idle"
            /\ UNCHANGED <<hot, disabled, todo, tripped, rateAlerts, byHand>>

(* Mutant: the strategy is not remembered. *)
TripForgotten(s) ==
    /\ rateChecks = "loop" /\ s \in todo /\ todo' = todo \ {s}
    /\ disabled' = disabled \cup {s} /\ byHand' = byHand \ {s}
    /\ rateAlerts' = [rateAlerts EXCEPT ![s] = @ + 1]
    /\ UNCHANGED <<hot, rateChecks, tripped>>

(* One strategy is disabled, remembered and announced, once. *)
Trip(s) ==
    /\ rateChecks = "loop" /\ s \in todo /\ todo' = todo \ {s}
    /\ disabled' = disabled \cup {s} /\ byHand' = byHand \ {s}
    /\ tripped' = tripped \cup {s}
    /\ rateAlerts' = [rateAlerts EXCEPT ![s] = @ + 1]
    /\ UNCHANGED <<hot, rateChecks>>

(* Mutant: the strategy is remembered although the write raised. *)
TripFailsLatched(s) ==
    /\ rateChecks = "loop" /\ s \in todo /\ todo' = todo \ {s}
    /\ disabled' = disabled /\ tripped' = tripped \cup {s}
    /\ UNCHANGED <<hot, rateChecks, rateAlerts, byHand>>

(* The write raises, and may have landed: then the next check finds the    *)
(* strategy disabled, and nobody is told.                                  *)
TripFails(s) ==
    /\ rateChecks = "loop" /\ s \in todo /\ todo' = todo \ {s}
    /\ disabled' \in {disabled, disabled \cup {s}}
    /\ UNCHANGED <<hot, rateChecks, tripped, rateAlerts, byHand>>

(* The API or an operator's SADD and SREM. *)
Enable(s) == /\ disabled' = disabled \ {s} /\ byHand' = byHand \ {s}
             /\ Env /\ UNCHANGED hot

Disable(s) == /\ disabled' = disabled \cup {s} /\ byHand' = byHand \cup {s}
              /\ Env /\ UNCHANGED hot

(* The runner starts again: the set in Redis stays. *)
Restart == /\ rateChecks' = "idle" /\ todo' = {} /\ tripped' = {}
           /\ rateAlerts' = [s \in Names |-> 0]
           /\ UNCHANGED <<hot, disabled, byHand>>

Next == \/ CountTrades \/ ReadDisabled \/ ReadFails \/ LoopEnds \/ Restart
        \/ \E s \in Names : \/ HeatUp(s) \/ CoolDown(s) \/ Trip(s) \/ TripFails(s)
                            \/ Enable(s) \/ Disable(s)

Spec == Init /\ [][Next]_vars

(* A check goes on and the next one comes; again and again Redis answers   *)
(* the reads, and the write for a strategy that keeps spamming.            *)
Fairness == /\ WF_vars(CountTrades) /\ WF_vars(LoopEnds) /\ SF_vars(ReadDisabled)
            /\ \A s \in Names : SF_vars(Trip(s)) /\ WF_vars(Trip(s) \/ TripFails(s))

----------------------------------------------------------------------------

TypeOK == /\ {hot, disabled, todo, tripped, byHand} \subseteq SUBSET Names
          /\ rateChecks \in {"idle", "counted", "loop"}
          /\ rateAlerts \in [Names -> Nat]

(* In one process a strategy is disabled by the alarm and announced at most *)
(* once, also when the operator enables it again while its hour still       *)
(* trips: from then on it is the operator's.                               *)
OperatorHasLastWord ==
    [][\A s \in Names : rateAlerts[s] > 0 /\ s \notin disabled /\ s \in disabled'
                        => s \in byHand']_vars

(* A strategy that keeps spamming is stopped, unless it was stopped before  *)
(* in this process and the operator enabled it again: a failed read or      *)
(* write is made good by a later check.                                    *)
SpamIsStopped ==
    \A s \in Names : s \in hot ~> (s \notin hot \/ s \in disabled \/ rateAlerts[s] > 0)
=============================================================================
