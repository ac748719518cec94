----------------------------- MODULE DailyLoss -----------------------------
(***************************************************************************)
(* PortfolioManager: the realised PnL of the UTC day, kept in memory and   *)
(* mirrored to Redis, which MAX_DAILY_LOSS_USD is compared with before an  *)
(* open. A command to Redis may be answered, fail, or fail after it took   *)
(* effect; one that fails is retried at the next record or risk check. The *)
(* process restarts and midnight passes at any time.                       *)
(***************************************************************************)
EXTENDS Integers, FiniteSets

CONSTANTS Pnls,                 \* what a close may realise
          Limit,                \* max_daily_loss_usd
          MaxTrades, MaxDays    \* bounds of the instance

DailyLossConstants == /\ Pnls \subseteq Int /\ Limit \in Nat
                             /\ MaxTrades \in Nat /\ MaxDays \in Nat

VARIABLES today,        \* the UTC day
          stored,       \* the day's total in Redis; a new day has no key
          date,         \* _date_str
          daily,        \* _daily_pnl
          loaded,       \* _loaded
          pending,      \* _persist_pending
          persistAlerted, \* _persist_alerted
          verdict,      \* what the last risk check answered an open
          trades        \* trades recorded so far, for the bound

counter == <<date, daily, loaded, pending, persistAlerted, stored>>
vars == <<today, verdict, trades, counter>>

Init ==
    /\ today = 0 /\ stored = 0 /\ date = 0 /\ daily = 0
    /\ loaded = FALSE /\ pending = FALSE /\ persistAlerted = FALSE
    /\ verdict = "none" /\ trades = 0

Book(d, l, p) == [daily |-> d, loaded |-> l, pending |-> p]

(* _ensure_loaded: notice a new day, then load unless that was done. What   *)
(* was recorded while the load failed is added to what is stored.          *)
Noticed == IF date = today THEN Book(daily, loaded, pending)
                           ELSE Book(0, FALSE, FALSE)

(* Mutant: a late load drops what was recorded before it. *)
AfterLoadReplacing(b, readable) ==
    IF b.loaded \/ ~readable THEN b
    ELSE Book(stored, TRUE, b.pending \/ b.daily # 0)

AfterLoad(b, readable) ==
    IF b.loaded \/ ~readable THEN b
    ELSE Book(stored + b.daily, TRUE, b.pending \/ b.daily # 0)

EnsureLoaded == {AfterLoad(Noticed, readable) : readable \in BOOLEAN}

(* _report_persist_failure: an alert is published until one is delivered. *)
Report == persistAlerted' \in {persistAlerted, TRUE}

(* _persist: nothing is written before a load succeeded. *)
Written(b) ==
    /\ b.loaded
    /\ stored' = b.daily /\ pending' = FALSE
    /\ persistAlerted' = FALSE

NotWritten(b) ==
    /\ pending' = TRUE
    /\ stored' \in IF b.loaded THEN {stored, b.daily} ELSE {stored}
    /\ Report

Persist(b) == /\ date' = today /\ daily' = b.daily /\ loaded' = b.loaded
              /\ Written(b) \/ NotWritten(b)

Keep(b) == /\ date' = today /\ daily' = b.daily /\ loaded' = b.loaded
           /\ pending' = b.pending
           /\ UNCHANGED <<stored, persistAlerted>>

(* record_pnl. *)
Record ==
    /\ trades < MaxTrades /\ trades' = trades + 1
    /\ verdict' = "none"
    /\ \E b \in EnsureLoaded, x \in Pnls :
          Persist([b EXCEPT !.daily = @ + x])
    /\ UNCHANGED today

(* check_risk_limits. A close is always allowed; the kill switch, the hold  *)
(* and an unreadable flag refuse an open whatever the total is.            *)
(* Mutant: the total is compared before it is loaded. *)
LimitedBeforeLoad(b) == daily < -Limit

Limited(b) == b.daily < -Limit

Check ==
    /\ \E b \in EnsureLoaded :
          /\ IF b.pending THEN Persist(b) ELSE Keep(b)
          /\ verdict' \in {"close", "refused"}
                          \cup IF Limited(b) THEN {} ELSE {"allowed"}
    /\ UNCHANGED <<today, trades>>

(* The process dies and starts again: only Redis is left. *)
Restart ==
    /\ date' = today /\ daily' = 0 /\ loaded' = FALSE /\ pending' = FALSE
    /\ persistAlerted' = FALSE
    /\ verdict' = "none"
    /\ UNCHANGED <<today, trades, stored>>

Midnight ==
    /\ today < MaxDays /\ today' = today + 1
    /\ stored' = 0 /\ verdict' = "none"
    /\ UNCHANGED <<trades, date, daily, loaded, pending, persistAlerted>>

Next == Record \/ Check \/ Restart \/ Midnight

Spec == Init /\ [][Next]_vars

----------------------------------------------------------------------------

(* The day's PnL as far as the bot or Redis knows it. *)
Total == IF date # today THEN stored
         ELSE IF loaded THEN daily ELSE stored + daily

TypeOK ==
    /\ {today, date} \subseteq 0..MaxDays
    /\ {stored, daily} \subseteq Int
    /\ {loaded, pending, persistAlerted} \subseteq BOOLEAN
    /\ verdict \in {"none", "close", "refused", "allowed"}
    /\ trades \in 0..MaxTrades

(* Every trade counts once whichever of the loads and writes around it      *)
(* fail, and a restart finds a total that was once true: PortfolioManager   *)
(* implements LossCounter.                                                 *)
Counter == INSTANCE LossCounter WITH total <- Total, saved <- stored
IsLossCounter == Counter!Spec

(* An open past the day's limit is allowed only while the day's total       *)
(* could not be loaded, also right after midnight.                         *)
CapGatesOpens == verdict = "allowed" /\ loaded => Total >= -Limit
=============================================================================
