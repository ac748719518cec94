---------------------------- MODULE RestoreGuard ----------------------------
(***************************************************************************)
(* Guard 1: a bot notices that Redis lost its control state (its sentinel  *)
(* key is gone), holds itself, and stays held until a human clears it.     *)
(* EngineRunner._check_control_state on one side, the hold endpoint of the *)
(* bot's API on the other, BotControl's two keys and two flags between.    *)
(*                                                                         *)
(* Both are coroutines of one process.  A Redis call takes three steps: it *)
(* is issued, it lands (or fails, or lands and the answer is lost), and    *)
(* the coroutine goes on; the other one may run between any two.           *)
(* Requests to the endpoint come one at a time.                            *)
(***************************************************************************)
EXTENDS Naturals

CONSTANTS MaxLosses,     \* bound: how often Redis is emptied
          MaxRestarts    \* bound: how often the process restarts

ASSUME RestoreGuardAssumption == MaxLosses \in Nat /\ MaxRestarts \in Nat

VARIABLES
    sentinel, hold,     \* Redis: the bot's two keys exist
    holdUnwritten,      \* control.hold_unwritten
    sentinelUnwritten,  \* control.sentinel_unwritten
    ctl,                \* runner._control_hold
    awaiting,           \* runner._awaiting: opens wait for a pass that counts
    alerted, alert,     \* runner._lost_state_alerted, _lost_state_alert is queued
    run,                \* the runner's check, or the pass that made it (owed,
                        \* unseen: history, what the check began with)
    api,                \* a request that sets or clears the hold
    losses, restarts,   \* how often Redis was emptied, the process restarted
    unseen,             \* history: it was, and no check has found that yet
    owed,               \* history: it was, and no human cleared anything since
    news,               \* history: it was (or a restart), not announced since
    cleared,            \* history: a human cleared the hold, nothing new since
    reviewed            \* history: a pass counted since the last seen hold was deleted

redis == <<sentinel, hold>>
flags == <<holdUnwritten, sentinelUnwritten>>
runner == <<ctl, awaiting, alerted, alert>>
bounds == <<losses, restarts>>
history == <<unseen, owed, news, cleared, reviewed>>
vars == <<redis, flags, runner, run, api, bounds, history>>

RunPCs == {"idle", "get_sentinel", "got_sentinel", "set_hold", "hold_set", "text",
           "put_sentinel", "sentinel_put", "get_hold", "got_hold", "publish", "reconcile"}
Whys == {"none", "secure", "rewrite", "held"}
Results == {"none", "yes", "no", "error"}
ApiPCs == {"idle", "set_hold", "hold_set", "put_sentinel", "sentinel_put",
           "del_hold", "hold_deleted"}

IdleApi == [pc |-> "idle", res |-> "none", alone |-> FALSE]
Check(for, isOwed, isUnseen) ==
    [pc |-> "get_sentinel", for |-> for, why |-> "none", res |-> "none",
     owed |-> isOwed, unseen |-> isUnseen]
Checked(pc, for) ==
    [pc |-> pc, for |-> for, why |-> "none", res |-> "none", owed |-> FALSE, unseen |-> FALSE]
IdleRun == Checked("idle", "tick")

(* startup() runs a pass before anything else. *)
Init ==
    /\ sentinel \in BOOLEAN /\ hold = FALSE
    /\ holdUnwritten = FALSE /\ sentinelUnwritten = FALSE
    /\ ctl = "none" /\ awaiting = TRUE /\ alerted = FALSE /\ alert = FALSE
    /\ unseen = ~sentinel /\ owed = ~sentinel /\ news = TRUE
    /\ run = Check("pass", owed, unseen) /\ api = IdleApi
    /\ losses = 0 /\ restarts = 0
    /\ cleared = FALSE /\ reviewed = FALSE

Go(pc, why) == run' = [run EXCEPT !.pc = pc, !.why = why, !.res = "none"]
Landed(pc, res) == run' = [run EXCEPT !.pc = pc, !.res = res]
ApiGo(pc) == api' = [api EXCEPT !.pc = pc, !.res = "none"]
ApiLanded(pc, res) == api' = [api EXCEPT !.pc = pc, !.res = res]
RunOnly == UNCHANGED <<api, bounds>>
ApiOnly == UNCHANGED <<run, runner, bounds>>
Exists(key) == IF key THEN "yes" ELSE "no"

(* portfolio.opens_held, whenever the runner is between checks. *)
OpensHeld == ctl # "none" \/ awaiting

-----------------------------------------------------------------------------
(* What follows the check: the pass it belongs to, or nothing. *)
Onwards == run' = IF run.for = "pass" THEN Checked("reconcile", "pass") ELSE IdleRun

(* Mutant: a hold that went away makes nothing wait. *)
WaitsAfterNothing(found) == awaiting

(* A check ends: what it found is what opens are held by, a hold that went *)
(* away makes them wait for a pass, and a queued alert is published.       *)
WaitsAfter(found) == awaiting \/ (ctl # "none" /\ found = "none")

Finish(found) ==
    /\ ctl' = found
    /\ awaiting' = WaitsAfter(found)
    /\ IF alert' THEN run' = Checked("publish", run.for) ELSE Onwards

(* The check of every tick and of every pass starts with the sentinel. *)
StartCheck(for) ==
    /\ run.pc = "idle"
    /\ run' = Check(for, owed, unseen)
    /\ api' = [api EXCEPT !.alone = FALSE]
    /\ UNCHANGED <<redis, flags, runner, bounds, history>>

ReadSentinel(ok) ==
    /\ run.pc = "get_sentinel"
    /\ Landed("got_sentinel", IF ok THEN Exists(sentinel) ELSE "error")
    /\ unseen' = (unseen /\ ~(ok /\ ~sentinel))
    /\ UNCHANGED <<redis, flags, runner, owed, news, cleared, reviewed>> /\ RunOnly

(* Mutant: the raw failure becomes the runner's answer. *)
CheckedUnreadableRaw ==
    /\ run.pc \in {"got_sentinel", "got_hold"} /\ run.res = "error"
    /\ alert' = alert
    /\ Finish(run.res)
    /\ UNCHANGED <<redis, flags, alerted, history>> /\ RunOnly

CheckedUnreadable ==
    /\ run.pc \in {"got_sentinel", "got_hold"} /\ run.res = "error"
    /\ alert' = alert
    /\ Finish("unreadable")
    /\ UNCHANGED <<redis, flags, alerted, history>> /\ RunOnly

(* Missing: _secure_lost_control_state begins with the hold. *)
SentinelMissing ==
    /\ run.pc = "got_sentinel" /\ run.res = "no"
    /\ sentinelUnwritten' = TRUE /\ holdUnwritten' = TRUE
    /\ Go("set_hold", "secure")
    /\ UNCHANGED <<redis, runner, history>> /\ RunOnly

(* Present: a hold that never landed is written first. *)
SentinelPresent ==
    /\ run.pc = "got_sentinel" /\ run.res = "yes"
    /\ sentinelUnwritten' = FALSE /\ alerted' = FALSE
    /\ IF holdUnwritten THEN Go("set_hold", "rewrite") ELSE Go("get_hold", "none")
    /\ UNCHANGED <<redis, holdUnwritten, ctl, awaiting, alert, history>> /\ RunOnly

SetHold(ok, lands) ==
    /\ run.pc = "set_hold"
    /\ ok => lands
    /\ hold' = (hold \/ lands)
    /\ Landed("hold_set", IF ok THEN "yes" ELSE "error")
    /\ UNCHANGED <<sentinel, flags, runner, history>> /\ RunOnly

HoldWritten == holdUnwritten' = (holdUnwritten /\ run.res = "error")

(* Mutant: the sentinel is written although the hold did not land. *)
ThenSentinelAnyway == Go("put_sentinel", "none") /\ UNCHANGED <<ctl, awaiting>>

(* The hold landed: the sentinel may be written.  It did not: the next     *)
(* check finds the sentinel still missing and starts over.                 *)
ThenSentinel ==
    IF run.res = "yes" THEN Go("put_sentinel", "none") /\ UNCHANGED <<ctl, awaiting>>
                       ELSE Finish("set")

(* A loss is announced once, with the open rows, which are read from the   *)
(* database in between.                                                    *)
HoldSecured ==
    /\ run.pc = "hold_set" /\ run.why = "secure"
    /\ HoldWritten
    /\ alert' = alert /\ alerted' = TRUE
    /\ IF alerted THEN ThenSentinel
                  ELSE run' = [run EXCEPT !.pc = "text"] /\ UNCHANGED <<ctl, awaiting>>
    /\ UNCHANGED <<redis, sentinelUnwritten, history>> /\ RunOnly

QueueAlert ==
    /\ run.pc = "text"
    /\ alert' = TRUE
    /\ ThenSentinel
    /\ news' = FALSE
    /\ UNCHANGED <<redis, flags, alerted, unseen, owed, cleared, reviewed>> /\ RunOnly

PutSentinel(ok, lands) ==
    /\ run.pc = "put_sentinel"
    /\ ok => lands
    /\ sentinel' = (sentinel \/ lands)
    /\ Landed("sentinel_put", IF ok THEN "yes" ELSE "error")
    /\ UNCHANGED <<hold, flags, runner, history>> /\ RunOnly

(* Mutant: the alert is armed again although the sentinel did not land. *)
SecuredRearmed ==
    /\ run.pc = "sentinel_put"
    /\ sentinelUnwritten' = (sentinelUnwritten /\ run.res = "error")
    /\ alerted' = FALSE /\ alert' = alert
    /\ Finish("set")
    /\ UNCHANGED <<redis, holdUnwritten, history>> /\ RunOnly

Secured ==
    /\ run.pc = "sentinel_put"
    /\ sentinelUnwritten' = (sentinelUnwritten /\ run.res = "error")
    /\ alerted' = (alerted /\ run.res = "error")
    /\ alert' = alert
    /\ Finish("set")
    /\ UNCHANGED <<redis, holdUnwritten, history>> /\ RunOnly

HoldRewritten ==
    /\ run.pc = "hold_set" /\ run.why = "rewrite"
    /\ HoldWritten
    /\ alert' = alert
    /\ IF run.res = "error" THEN Finish("set")
                            ELSE Go("get_hold", "none") /\ UNCHANGED <<ctl, awaiting>>
    /\ UNCHANGED <<redis, sentinelUnwritten, alerted, history>> /\ RunOnly

ReadHold(ok) ==
    /\ run.pc = "get_hold"
    /\ Landed("got_hold", IF ok THEN Exists(hold) ELSE "error")
    /\ UNCHANGED <<redis, flags, runner, history>> /\ RunOnly

CheckedHold ==
    /\ run.pc = "got_hold" /\ run.res # "error"
    /\ alert' = alert
    /\ Finish(IF run.res = "yes" THEN "set" ELSE "none")
    /\ UNCHANGED <<redis, flags, alerted, history>> /\ RunOnly

(* The alert stays queued until somebody got it. *)
Publish(delivered) ==
    /\ run.pc = "publish"
    /\ alert' = ~delivered
    /\ Onwards
    /\ UNCHANGED <<redis, flags, ctl, awaiting, alerted, history>> /\ RunOnly

-----------------------------------------------------------------------------
(* The rest of a pass.  It counts unless the bot is paused, the pass was   *)
(* skipped or left an orphan unresolved, or the hold could not be read.    *)
PassCounts(counted) == counted /\ ctl # "unreadable"

EndPass(counted) ==
    /\ run.pc = "reconcile"
    /\ counted => PassCounts(counted)
    /\ awaiting' = (awaiting /\ ~counted)
    /\ reviewed' = (reviewed \/ (counted /\ ctl = "none"))
    /\ run' = IdleRun
    /\ UNCHANGED <<redis, flags, ctl, alerted, alert, unseen, owed, news, cleared>>
    /\ RunOnly

(* It held positions on traded coins: it sets the hold, counted or not. *)
PassHolds(counted) ==
    /\ run.pc = "reconcile" /\ ctl = "none"
    /\ awaiting' = (awaiting /\ ~counted)
    /\ holdUnwritten' = TRUE
    /\ Go("set_hold", "held")
    /\ cleared' = FALSE
    /\ UNCHANGED <<redis, sentinelUnwritten, ctl, alerted, alert>>
    /\ UNCHANGED <<unseen, owed, news, reviewed>> /\ RunOnly

PassHeld ==
    /\ run.pc = "hold_set" /\ run.why = "held"
    /\ HoldWritten
    /\ ctl' = "set" /\ run' = IdleRun
    /\ UNCHANGED <<redis, sentinelUnwritten, awaiting, alerted, alert, history>> /\ RunOnly

-----------------------------------------------------------------------------
(* POST /api/control/reconcile-hold: set_reconcile_hold(active). *)
RequestHold ==
    /\ api.pc = "idle"
    /\ holdUnwritten' = TRUE
    /\ ApiGo("set_hold")
    /\ cleared' = FALSE
    /\ UNCHANGED <<redis, sentinelUnwritten, unseen, owed, news, reviewed>> /\ ApiOnly

ApiSetsHold(ok, lands) ==
    /\ api.pc = "set_hold"
    /\ ok => lands
    /\ hold' = (hold \/ lands)
    /\ ApiLanded("hold_set", IF ok THEN "yes" ELSE "error")
    /\ UNCHANGED <<sentinel, flags, history>> /\ ApiOnly

HoldRequested ==
    /\ api.pc = "hold_set"
    /\ holdUnwritten' = (holdUnwritten /\ api.res = "error")
    /\ api' = IdleApi
    /\ UNCHANGED <<redis, sentinelUnwritten, history>> /\ ApiOnly

(* Mutant: a clear acknowledges only a hold that never landed. *)
AcknowledgesHolds == holdUnwritten

(* A clear writes the sentinel too when it ends a hold or a sentinel that  *)
(* never landed.                                                           *)
Acknowledges == holdUnwritten \/ sentinelUnwritten

RequestClear ==
    /\ api.pc = "idle"
    /\ api' = [pc |-> IF Acknowledges THEN "put_sentinel" ELSE "del_hold",
               res |-> "none", alone |-> run.pc = "idle" /\ ~unseen]
    /\ UNCHANGED <<redis, flags, history>> /\ ApiOnly

ApiPutsSentinel(ok, lands) ==
    /\ api.pc = "put_sentinel"
    /\ ok => lands
    /\ sentinel' = (sentinel \/ lands)
    /\ ApiLanded("sentinel_put", IF ok THEN "yes" ELSE "error")
    /\ owed' = (owed /\ ~lands)
    /\ UNCHANGED <<hold, flags, unseen, news, cleared, reviewed>> /\ ApiOnly

SentinelAcknowledged ==
    /\ api.pc = "sentinel_put"
    /\ IF api.res = "yes"
       THEN sentinelUnwritten' = FALSE /\ ApiGo("del_hold")
       ELSE api' = IdleApi /\ UNCHANGED sentinelUnwritten
    /\ UNCHANGED <<redis, holdUnwritten, history>> /\ ApiOnly

(* A hold the runner acts on is deleted. *)
SeenHoldGoes(lands) == lands /\ ctl # "none"

ApiDeletesHold(ok, lands) ==
    /\ api.pc = "del_hold"
    /\ ok => lands
    /\ hold' = (hold /\ ~lands)
    /\ ApiLanded("hold_deleted", IF ok THEN "yes" ELSE "error")
    /\ owed' = (owed /\ ~lands)
    /\ reviewed' = (reviewed /\ ~SeenHoldGoes(lands))
    /\ UNCHANGED <<sentinel, flags, unseen, news, cleared>> /\ ApiOnly

(* Mutant: a clear leaves the hold in memory. *)
HoldClearedInRedis ==
    /\ api.pc = "hold_deleted"
    /\ unseen' = (unseen \/ (~sentinel /\ ~api.alone))
    /\ api' = IdleApi
    /\ cleared' = (cleared \/ (api.res = "yes" /\ api.alone))
    /\ UNCHANGED <<redis, flags, owed, news, reviewed>> /\ ApiOnly

(* History: a loss that overlapped the clear has to be found again.        *)
HoldCleared ==
    /\ api.pc = "hold_deleted"
    /\ unseen' = (unseen \/ (~sentinel /\ ~api.alone))
    /\ holdUnwritten' = (holdUnwritten /\ api.res = "error")
    /\ api' = IdleApi
    /\ cleared' = (cleared \/ (api.res = "yes" /\ api.alone))
    /\ UNCHANGED <<redis, sentinelUnwritten, owed, news, reviewed>> /\ ApiOnly

-----------------------------------------------------------------------------
(* Redis is emptied: flushed, recreated, or restored without the keys.     *)
(* Bound: not between the two writes of a check that secures a loss.       *)
Securing == run.pc \in {"hold_set", "text", "put_sentinel"} /\ run.why # "held"

Lose ==
    /\ losses < MaxLosses /\ ~Securing
    /\ losses' = losses + 1
    /\ sentinel' = FALSE /\ hold' = FALSE
    /\ unseen' = TRUE /\ owed' = TRUE /\ news' = TRUE /\ cleared' = FALSE
    /\ run' = [run EXCEPT !.owed = FALSE, !.unseen = FALSE]   \* not this check's to find
    /\ api' = [api EXCEPT !.alone = FALSE]
    /\ UNCHANGED <<flags, runner, restarts, reviewed>>

(* redis-cli DEL of the hold key, by hand. *)
DeleteByHand ==
    /\ hold
    /\ hold' = FALSE /\ owed' = FALSE
    /\ reviewed' = (reviewed /\ ~SeenHoldGoes(TRUE))
    /\ UNCHANGED <<sentinel, flags, runner, run, api, bounds, unseen, news, cleared>>

(* The process restarts: the flags of BotControl and the runner are gone. *)
Restart ==
    /\ restarts < MaxRestarts
    /\ restarts' = restarts + 1
    /\ holdUnwritten' = FALSE /\ sentinelUnwritten' = FALSE
    /\ ctl' = "none" /\ awaiting' = TRUE /\ alerted' = FALSE /\ alert' = FALSE
    /\ unseen' = (unseen \/ ~sentinel) /\ news' = TRUE
    /\ run' = Check("pass", owed, unseen') /\ api' = IdleApi
    /\ reviewed' = FALSE
    /\ UNCHANGED <<redis, losses, owed, cleared>>

RunStep ==
    \/ \E ok \in BOOLEAN : ReadSentinel(ok) \/ ReadHold(ok) \/ Publish(ok)
    \/ \E ok, lands \in BOOLEAN : SetHold(ok, lands) \/ PutSentinel(ok, lands)
    \/ CheckedUnreadable \/ SentinelMissing \/ SentinelPresent \/ HoldSecured
    \/ QueueAlert \/ Secured \/ HoldRewritten \/ CheckedHold
    \/ \E counted \in BOOLEAN : EndPass(counted) \/ PassHolds(counted)
    \/ PassHeld

ApiStep ==
    \/ \E ok, lands \in BOOLEAN :
          ApiSetsHold(ok, lands) \/ ApiPutsSentinel(ok, lands) \/ ApiDeletesHold(ok, lands)
    \/ HoldRequested \/ SentinelAcknowledged \/ HoldCleared

Next == \/ \E for \in {"tick", "pass"} : StartCheck(for)
        \/ RunStep
        \/ RequestHold \/ RequestClear \/ ApiStep
        \/ Lose \/ DeleteByHand \/ Restart

Spec == Init /\ [][Next]_vars

(* Fairness: the runner goes on whenever it can and a pass starts again and *)
(* again (every 5 minutes, every tick while opens wait for one); again and  *)
(* again Redis answers the reads of a pass, and again and again a pass      *)
(* counts: the bot is not for ever paused, its passes not for ever skipped. *)
InPass == run.for = "pass"

Fairness ==
    /\ WF_vars(RunStep) /\ SF_vars(StartCheck("pass"))
    /\ SF_vars(InPass /\ ReadSentinel(TRUE)) /\ SF_vars(InPass /\ ReadHold(TRUE))
    /\ SF_vars(EndPass(TRUE))

LiveSpec == Spec /\ Fairness

-----------------------------------------------------------------------------
TypeOK ==
    /\ {sentinel, hold, holdUnwritten, sentinelUnwritten, awaiting, alerted, alert} \subseteq BOOLEAN
    /\ ctl \in {"none", "set", "unreadable"}
    /\ run \in [pc : RunPCs, for : {"tick", "pass"}, why : Whys, res : Results,
                 owed : BOOLEAN, unseen : BOOLEAN]
    /\ api \in [pc : ApiPCs, res : Results, alone : BOOLEAN]
    /\ losses \in 0 .. MaxLosses /\ restarts \in 0 .. MaxRestarts
    /\ {unseen, owed, news, cleared, reviewed} \subseteq BOOLEAN

(* The step that ends a check: its answer becomes _control_hold. *)
Ends == run.pc \in {"got_sentinel", "hold_set", "text", "sentinel_put", "got_hold"}
        /\ run.why # "held"
        /\ run'.pc \in {"idle", "publish", "reconcile"} /\ restarts' = restarts

(* A check that began after Redis had been emptied, and ends before a      *)
(* human cleared anything, never lets opens through: whatever writes       *)
(* failed, landed unanswered or were retried, and whatever restarted, the  *)
(* loss holds the bot (_secure_lost_control_state).                        *)
HeldWhileLost == [][Ends /\ run.owed /\ owed' => ctl' # "none"]_vars

(* A hold that a human cleared while no check was running does not come    *)
(* back by itself: a later check ends held only for a new loss, a new      *)
(* request or positions a pass held (set_reconcile_hold: the clear         *)
(* acknowledges the loss).                                                 *)
ClearedStaysCleared == [][Ends /\ cleared => ctl' # "set"]_vars

(* Between checks opens are free only if a pass counted, with no hold in   *)
(* force, since the bot started and since a hold it acted on was deleted   *)
(* (_awaiting).                                                            *)
OpensFollowAPass == run.pc = "idle" /\ ~OpensHeld => reviewed

(* One alert per loss: however often the hold or the sentinel cannot be    *)
(* written, the retries of a process do not announce a loss a second time  *)
(* (_lost_state_alerted).                                                  *)
OneAlertPerLoss == [][run.pc = "text" /\ run'.pc # "text" /\ restarts' = restarts => news]_vars

(* Opens come back after a human cleared the hold, unless something sets   *)
(* it again.                                                               *)
ClearTakesEffect == cleared ~> (~OpensHeld \/ ~cleared)

(* While no check has found that Redis was emptied, and none is running,   *)
(* nothing writes the sentinel: the loss stays there to be found           *)
(* (test_a_clear_after_a_flush_leaves_guard_one_to_fire).                  *)
LossNotMasked == [][unseen /\ ~sentinel /\ run.pc = "idle" => ~sentinel']_vars
=============================================================================
