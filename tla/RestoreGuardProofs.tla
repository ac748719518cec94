------------------------- MODULE RestoreGuardProofs -------------------------
(***************************************************************************)
(* What the restore guard guarantees however often Redis is emptied and    *)
(* the process restarts: a lost control state holds the bot, is announced  *)
(* once, and ends only by a human; opens wait for a pass that counts.      *)
(*                                                                         *)
(* Typed and Whence say what the runner's check knows where it stands.  On *)
(* them rest four invariants, one per promise: what Redis holds while a    *)
(* loss is owed (HeldInv), which flag remembers an announced loss          *)
(* (AlertInv), where a loss nobody acted on is still to be seen (SeenInv,  *)
(* AloneInv and ClearInv), and why nothing waits for a pass (ReviewInv).   *)
(***************************************************************************)
EXTENDS RestoreGuard, TLAPS

Runs == [pc : RunPCs, for : {"tick", "pass"}, why : Whys, res : Results,
         owed : BOOLEAN, unseen : BOOLEAN]
Apis == [pc : ApiPCs, res : Results, alone : BOOLEAN]

(* TypeOK, with each Boolean on its own.                                   *)
Typed ==
    /\ sentinel \in BOOLEAN /\ hold \in BOOLEAN
    /\ holdUnwritten \in BOOLEAN /\ sentinelUnwritten \in BOOLEAN
    /\ awaiting \in BOOLEAN /\ alerted \in BOOLEAN /\ alert \in BOOLEAN
    /\ unseen \in BOOLEAN /\ owed \in BOOLEAN /\ news \in BOOLEAN
    /\ cleared \in BOOLEAN /\ reviewed \in BOOLEAN
    /\ ctl \in {"none", "set", "unreadable"}
    /\ run \in Runs /\ api \in Apis
    /\ losses \in 0 .. MaxLosses /\ restarts \in 0 .. MaxRestarts

(* The two readings of the types are one.                                  *)
LEMMA TypedIsTypeOK == Typed <=> TypeOK
  BY DEF Typed, TypeOK, Runs, Apis

(* The record of a check that goes on is of run's type.                    *)
LEMMA CheckedType ==
  ASSUME NEW pc \in RunPCs, NEW for \in {"tick", "pass"} PROVE Checked(pc, for) \in Runs
  BY DEF Checked, Runs, Whys, Results

(* What the helpers make of run and api is of their type.                  *)
LEMMA CheckType ==
  ASSUME NEW for \in {"tick", "pass"}, NEW isOwed \in BOOLEAN, NEW isUnseen \in BOOLEAN
  PROVE  Check(for, isOwed, isUnseen) \in Runs
  BY DEF Check, Runs, RunPCs, Whys, Results

(* A check that ends leaves the runner's variables typed.                  *)
LEMMA FinishType ==
  ASSUME Typed, NEW found \in {"none", "set", "unreadable"}, Finish(found), alert' \in BOOLEAN
  PROVE  ctl' \in {"none", "set", "unreadable"} /\ awaiting' \in BOOLEAN /\ run' \in Runs
<1>1. run.for \in {"tick", "pass"}
  BY DEF Typed, Runs
<1>2. run' \in Runs
  BY <1>1, CheckedType DEF Finish, Onwards, IdleRun, RunPCs
<1> QED
  BY <1>2 DEF Finish, WaitsAfter, Typed

(* The runner moves on.                                                    *)
LEMMA GoType ==
  ASSUME Typed, NEW pc \in RunPCs, NEW why \in Whys, Go(pc, why) PROVE run' \in Runs
  BY DEF Typed, Runs, Go, Results

(* An answer of Redis reaches the runner.                                  *)
LEMMA LandedType ==
  ASSUME Typed, NEW pc \in RunPCs, NEW res \in Results, Landed(pc, res) PROVE run' \in Runs
  BY DEF Typed, Runs, Landed

(* The request moves on.                                                   *)
LEMMA ApiGoType ==
  ASSUME Typed, NEW pc \in ApiPCs, ApiGo(pc) PROVE api' \in Apis
  BY DEF Typed, Apis, ApiGo, Results

(* An answer of Redis reaches the request.                                 *)
LEMMA ApiLandedType ==
  ASSUME Typed, NEW pc \in ApiPCs, NEW res \in Results, ApiLanded(pc, res) PROVE api' \in Apis
  BY DEF Typed, Apis, ApiLanded

(* A check that starts, or a loss, ends a clear's being alone.             *)
LEMMA NotAloneType ==
  ASSUME Typed, api' = [api EXCEPT !.alone = FALSE] PROVE api' \in Apis
  BY DEF Typed, Apis

(* No request.                                                             *)
LEMMA IdleApiType == IdleApi \in Apis
  BY DEF IdleApi, Apis, ApiPCs, Results

(* Every step keeps the types.                                             *)
LEMMA NextTyped ==
  ASSUME Typed, [Next]_vars PROVE Typed'
<1> USE DEF Typed, redis, flags, runner, bounds, history
<1>1. CASE UNCHANGED vars
  BY <1>1 DEF vars
<1>2. ASSUME NEW for \in {"tick", "pass"}, StartCheck(for) PROVE Typed'
  BY <1>2, CheckType, NotAloneType DEF StartCheck
<1>3. ASSUME NEW ok \in BOOLEAN, ReadSentinel(ok) PROVE Typed'
  BY <1>3, LandedType DEF ReadSentinel, Exists, RunOnly, RunPCs, Results
<1>4. ASSUME NEW ok \in BOOLEAN, ReadHold(ok) PROVE Typed'
  BY <1>4, LandedType DEF ReadHold, Exists, RunOnly, RunPCs, Results
<1>5. ASSUME NEW delivered \in BOOLEAN, Publish(delivered) PROVE Typed'
  BY <1>5, CheckedType DEF Publish, Onwards, IdleRun, RunOnly, RunPCs, Runs
<1>6. ASSUME NEW ok \in BOOLEAN, NEW lands \in BOOLEAN, SetHold(ok, lands)
      PROVE Typed'
  BY <1>6, LandedType DEF SetHold, RunOnly, RunPCs, Results
<1>7. ASSUME NEW ok \in BOOLEAN, NEW lands \in BOOLEAN, PutSentinel(ok, lands)
      PROVE Typed'
  BY <1>7, LandedType DEF PutSentinel, RunOnly, RunPCs, Results
<1>8. CASE CheckedUnreadable
  BY <1>8, FinishType DEF CheckedUnreadable, RunOnly
<1>9. CASE SentinelMissing
  BY <1>9, GoType DEF SentinelMissing, RunOnly, RunPCs, Whys
<1>10. CASE SentinelPresent
  <2>1. run' \in Runs
    BY <1>10, GoType DEF SentinelPresent, RunPCs, Whys
  <2> QED
    BY <1>10, <2>1, ZenonT(60) DEF SentinelPresent, RunOnly
<1>11. CASE HoldSecured
  <2>1. CASE alerted /\ run.res = "yes"
    BY <1>11, <2>1, GoType DEF HoldSecured, HoldWritten, ThenSentinel, RunOnly, RunPCs, Whys
  <2>2. CASE alerted /\ run.res # "yes"
    BY <1>11, <2>2, FinishType DEF HoldSecured, HoldWritten, ThenSentinel, RunOnly
  <2>3. CASE ~alerted
    BY <1>11, <2>3 DEF HoldSecured, HoldWritten, RunOnly, RunPCs, Runs
  <2> QED
    BY <2>1, <2>2, <2>3
<1>12. CASE QueueAlert
  <2>1. CASE run.res = "yes"
    <3>1. run' \in Runs
      BY <1>12, <2>1, GoType DEF QueueAlert, ThenSentinel, RunPCs, Whys
    <3> QED
      BY <1>12, <2>1, <3>1, ZenonT(60) DEF QueueAlert, ThenSentinel, RunOnly
  <2>2. CASE run.res # "yes"
    BY <1>12, <2>2, FinishType DEF QueueAlert, ThenSentinel, RunOnly
  <2> QED
    BY <2>1, <2>2
<1>13. CASE Secured
  BY <1>13, FinishType DEF Secured, RunOnly
<1>14. CASE HoldRewritten
  BY <1>14, FinishType, GoType DEF HoldRewritten, HoldWritten, RunOnly,
                                                 RunPCs, Whys
<1>15. CASE CheckedHold
  BY <1>15, FinishType DEF CheckedHold, RunOnly
<1>16. ASSUME NEW counted \in BOOLEAN, EndPass(counted) PROVE Typed'
  BY <1>16, CheckedType DEF EndPass, IdleRun, RunOnly, RunPCs
<1>17. ASSUME NEW counted \in BOOLEAN, PassHolds(counted) PROVE Typed'
  BY <1>17, GoType DEF PassHolds, RunOnly, RunPCs, Whys
<1>18. CASE PassHeld
  BY <1>18, CheckedType DEF PassHeld, HoldWritten, IdleRun, RunOnly, RunPCs
<1>19. ASSUME NEW ok \in BOOLEAN, NEW lands \in BOOLEAN, ApiSetsHold(ok, lands)
       PROVE Typed'
  BY <1>19, ApiLandedType DEF ApiSetsHold, ApiOnly, ApiPCs, Results
<1>20. ASSUME NEW ok \in BOOLEAN, NEW lands \in BOOLEAN, ApiPutsSentinel(ok, lands)
       PROVE Typed'
  BY <1>20, ApiLandedType DEF ApiPutsSentinel, ApiOnly, ApiPCs, Results
<1>21. ASSUME NEW ok \in BOOLEAN, NEW lands \in BOOLEAN, ApiDeletesHold(ok, lands)
       PROVE Typed'
  BY <1>21, ApiLandedType DEF ApiDeletesHold, ApiOnly, ApiPCs, Results,
                                             SeenHoldGoes
<1>22. CASE HoldRequested
  BY <1>22, IdleApiType DEF HoldRequested, ApiOnly
<1>23. CASE SentinelAcknowledged
  <2>1. CASE api.res = "yes"
    <3>1. api' \in Apis
      BY <1>23, <2>1, ApiGoType DEF SentinelAcknowledged, ApiPCs
    <3>2. sentinelUnwritten' = FALSE
      BY <1>23, <2>1 DEF SentinelAcknowledged, ApiGo
    <3> QED
      BY <1>23, <3>1, <3>2, ZenonT(60) DEF SentinelAcknowledged, ApiOnly
  <2>2. CASE api.res # "yes"
    BY <1>23, <2>2, IdleApiType DEF SentinelAcknowledged, ApiOnly
  <2> QED
    BY <2>1, <2>2
<1>24. CASE HoldCleared
  BY <1>24, IdleApiType DEF HoldCleared, ApiOnly
<1>25. CASE RequestHold
  BY <1>25, ApiGoType, ZenonT(60) DEF RequestHold, ApiOnly, ApiPCs
<1>26. CASE RequestClear
  <2>1. (run.pc = "idle" /\ ~unseen) \in BOOLEAN
    OBVIOUS
  <2>2. api' \in Apis
    BY <1>26, <2>1 DEF RequestClear, Apis, ApiPCs, Results
  <2> QED
    BY <1>26, <2>2 DEF RequestClear, ApiOnly
<1>27. CASE Lose
  <2>1. run' \in Runs
    BY <1>27 DEF Lose, Runs
  <2>2. losses' \in 0 .. MaxLosses
    BY <1>27, RestoreGuardAssumption DEF Lose
  <2> QED
    BY <1>27, <2>1, <2>2, NotAloneType DEF Lose
<1>28. CASE DeleteByHand
  BY <1>28 DEF DeleteByHand, SeenHoldGoes
<1>29. CASE Restart
  <2>1. unseen' \in BOOLEAN /\ restarts' \in 0 .. MaxRestarts
    BY <1>29, RestoreGuardAssumption DEF Restart
  <2>2. run' \in Runs
    BY <1>29, <2>1, CheckType DEF Restart
  <2> QED
    BY <1>29, <2>1, <2>2, IdleApiType DEF Restart
<1> QED
  BY <1>1, <1>2, <1>3, <1>4, <1>5, <1>6, <1>7, <1>8, <1>9, <1>10, <1>11,
     <1>12, <1>13, <1>14, <1>15, <1>16, <1>17, <1>18, <1>19, <1>20, <1>21,
     <1>22, <1>23, <1>24, <1>25, <1>26, <1>27, <1>28, <1>29
     DEF Next, RunStep, ApiStep

-----------------------------------------------------------------------------
(* Where a check that ends leaves the runner.                              *)
LEMMA Finished ==
  ASSUME Typed, NEW found, Finish(found)
  PROVE  /\ run'.pc \in {"publish", "reconcile", "idle"} /\ run'.why = "none"
         /\ ctl' = found /\ awaiting' = (awaiting \/ (ctl # "none" /\ found = "none"))
  BY DEF Finish, Onwards, Checked, IdleRun, WaitsAfter

(* Where a process starts.                                                 *)
LEMMA FirstStates ==
  ASSUME Init
  PROVE  /\ run.pc = "get_sentinel" /\ run.why = "none" /\ run.res = "none"
         /\ api.pc = "idle" /\ api.res = "none" /\ ~api.alone
<1>1. run.pc = "get_sentinel" /\ run.why = "none" /\ run.res = "none"
  BY DEF Init, Check
<1>2. api = IdleApi
  BY DEF Init
<1> QED
  BY <1>1, <1>2 DEF IdleApi

(* The first states are typed.                                             *)
LEMMA InitTyped == Init => Typed
<1> SUFFICES ASSUME Init PROVE Typed
  OBVIOUS
<1>1. unseen \in BOOLEAN /\ owed \in BOOLEAN /\ sentinel \in BOOLEAN
  BY DEF Init
<1>2. run \in Runs /\ api \in Apis
  BY <1>1, CheckType, IdleApiType DEF Init
<1>3. losses \in 0 .. MaxLosses /\ restarts \in 0 .. MaxRestarts
  BY RestoreGuardAssumption DEF Init
<1>4. /\ hold \in BOOLEAN /\ holdUnwritten \in BOOLEAN /\ sentinelUnwritten \in BOOLEAN
      /\ awaiting \in BOOLEAN /\ alerted \in BOOLEAN /\ alert \in BOOLEAN
      /\ news \in BOOLEAN /\ cleared \in BOOLEAN /\ reviewed \in BOOLEAN
      /\ ctl \in {"none", "set", "unreadable"}
  BY DEF Init
<1> QED
  BY <1>1, <1>2, <1>3, <1>4 DEF Typed

-----------------------------------------------------------------------------
(* The answer and the reason a check carries where it stands.              *)
Whence ==
    /\ run.pc \in {"set_hold", "hold_set"} => run.why # "none"
    /\ run.pc = "text" => run.why = "secure"
    /\ run.pc \notin {"set_hold", "hold_set", "text"} => run.why = "none"
    /\ run.pc \in {"hold_set", "text", "sentinel_put"} => run.res \in {"yes", "error"}
    /\ run.pc \in {"got_sentinel", "got_hold"} => run.res # "none"

(* A runner that acts on no hold and waits for no pass has had one, unless *)
(* the pass itself is on its way to set the hold.                          *)
ReviewInv == ctl = "none" /\ ~awaiting =>
    reviewed \/ (run.pc \in {"set_hold", "hold_set"} /\ run.why = "held")

At(pc, res) == run.pc = pc /\ run.res = res
HoldLanded == \/ run.pc \in {"hold_set", "text"} /\ run.why = "secure" /\ run.res = "yes"
              \/ run.pc = "put_sentinel"
SentinelFound == \/ At("got_sentinel", "yes") \/ run.pc = "get_hold"
                 \/ run.pc \in {"set_hold", "hold_set"} /\ run.why = "rewrite"

(* While a loss is owed, the sentinel is gone or the hold is there: the    *)
(* sentinel is written only after the hold landed, and a check that began  *)
(* after the loss and finds the sentinel finds the hold too.               *)
HeldInv ==
    /\ owed => ~sentinel \/ hold
    /\ owed /\ HoldLanded => hold
    /\ owed /\ run.owed /\ SentinelFound => hold
    /\ owed /\ run.owed => ~At("got_hold", "no")
MissingFound == \/ At("got_sentinel", "no")
                \/ run.pc \in {"set_hold", "hold_set"} /\ run.why = "secure"

(* A loss that was announced is remembered by _lost_state_alerted until    *)
(* the sentinel is back, also by a check that has found it missing.        *)
AlertInv ==
    /\ run.pc = "text" => news /\ alerted
    /\ ~news => sentinel \/ alerted
    /\ ~news /\ MissingFound => alerted
    /\ ~news /\ (At("got_sentinel", "yes") \/ At("sentinel_put", "yes")) => sentinel

ApiAt(pc, res) == api.pc = pc /\ api.res = res

(* A loss that a check has seen is marked in _sentinel_unwritten, or is    *)
(* about to be, or a clear that overlapped it is not through.              *)
SeenInv ==
    /\ ~unseen => \/ sentinel \/ sentinelUnwritten \/ At("got_sentinel", "no")
                  \/ api.pc \in {"del_hold", "hold_deleted"} /\ ~api.alone
    /\ ~unseen /\ (At("got_sentinel", "yes") \/ At("sentinel_put", "yes")) => sentinel

(* A clear that no check and no loss has overlapped finds the sentinel in  *)
(* place when it deletes the hold.                                         *)
AloneInv ==
    api.alone => /\ run.pc = "idle" /\ ~unseen
                 /\ api.pc \in {"del_hold", "hold_deleted"} \/ ApiAt("sentinel_put", "yes") => sentinel
                 /\ ApiAt("hold_deleted", "yes") => ~hold
                 /\ api.pc \notin {"idle", "set_hold", "hold_set"}

(* After such a clear nothing is left that would set the hold again.       *)
ClearInv ==
    cleared => /\ sentinel /\ ~hold /\ ~holdUnwritten
               /\ run.pc \in {"idle", "get_sentinel", "got_sentinel", "get_hold", "got_hold",
                              "publish", "reconcile"}
               /\ ~At("got_sentinel", "no") /\ ~At("got_hold", "yes")
               /\ api.pc \notin {"set_hold", "hold_set"}

(* The answers and reasons.                                                *)
LEMMA NextWhence ==
  ASSUME Typed, Whence, [Next]_vars PROVE Whence'
<1> USE DEF Typed, Runs, Whence, redis, flags, runner, bounds, history
<1>1. CASE UNCHANGED vars
  BY <1>1 DEF vars
<1>2. ASSUME NEW for \in {"tick", "pass"}, StartCheck(for) PROVE Whence'
  BY <1>2 DEF StartCheck, Check
<1>3. ASSUME NEW ok \in BOOLEAN, ReadSentinel(ok) PROVE Whence'
  BY <1>3 DEF ReadSentinel, Landed, Exists, RunOnly
<1>4. ASSUME NEW ok \in BOOLEAN, ReadHold(ok) PROVE Whence'
  BY <1>4 DEF ReadHold, Landed, Exists, RunOnly
<1>5. ASSUME NEW delivered \in BOOLEAN, Publish(delivered) PROVE Whence'
  BY <1>5 DEF Publish, Onwards, Checked, IdleRun, RunOnly
<1>6. ASSUME NEW ok \in BOOLEAN, NEW lands \in BOOLEAN, SetHold(ok, lands)
      PROVE Whence'
  BY <1>6 DEF SetHold, Landed, RunOnly
<1>7. ASSUME NEW ok \in BOOLEAN, NEW lands \in BOOLEAN, PutSentinel(ok, lands)
      PROVE Whence'
  BY <1>7 DEF PutSentinel, Landed, RunOnly
<1>8. CASE CheckedUnreadable
  BY <1>8 DEF CheckedUnreadable, Finish, WaitsAfter, Onwards, Checked,
              IdleRun, RunOnly
<1>9. CASE SentinelMissing
  BY <1>9 DEF SentinelMissing, Go, RunOnly
<1>10. CASE SentinelPresent
  BY <1>10 DEF SentinelPresent, Go, RunOnly
<1>11. CASE HoldSecured
  <2>1. CASE alerted /\ run.res = "yes"
    BY <1>11, <2>1 DEF HoldSecured, HoldWritten, ThenSentinel, Go, RunOnly
  <2>2. CASE alerted /\ run.res # "yes"
    BY <1>11, <2>2, Finished DEF HoldSecured, HoldWritten, ThenSentinel, RunOnly
  <2>3. CASE ~alerted
    BY <1>11, <2>3 DEF HoldSecured, HoldWritten, RunOnly
  <2> QED
    BY <2>1, <2>2, <2>3
<1>12. CASE QueueAlert
  <2>1. CASE run.res = "yes"
    BY <1>12, <2>1 DEF QueueAlert, ThenSentinel, Go, RunOnly
  <2>2. CASE run.res # "yes"
    BY <1>12, <2>2, Finished DEF QueueAlert, ThenSentinel, RunOnly
  <2> QED
    BY <2>1, <2>2
<1>13. CASE Secured
  BY <1>13, Finished DEF Secured, RunOnly
<1>14. CASE HoldRewritten
  <2>1. CASE run.res = "error"
    BY <1>14, <2>1, Finished DEF HoldRewritten, HoldWritten, RunOnly
  <2>2. CASE run.res # "error"
    BY <1>14, <2>2 DEF HoldRewritten, HoldWritten, Go, RunOnly
  <2> QED
    BY <2>1, <2>2
<1>15. CASE CheckedHold
  BY <1>15 DEF CheckedHold, Finish, WaitsAfter, Onwards, Checked, IdleRun,
               RunOnly
<1>16. ASSUME NEW counted \in BOOLEAN, EndPass(counted) PROVE Whence'
  BY <1>16 DEF EndPass, PassCounts, Checked, IdleRun, RunOnly
<1>17. ASSUME NEW counted \in BOOLEAN, PassHolds(counted) PROVE Whence'
  BY <1>17 DEF PassHolds, Go, RunOnly
<1>18. CASE PassHeld
  BY <1>18 DEF PassHeld, HoldWritten, Checked, IdleRun, RunOnly
<1>19. ASSUME NEW ok \in BOOLEAN, NEW lands \in BOOLEAN, ApiSetsHold(ok, lands)
       PROVE Whence'
  BY <1>19 DEF ApiSetsHold, ApiLanded, ApiOnly
<1>20. ASSUME NEW ok \in BOOLEAN, NEW lands \in BOOLEAN, ApiPutsSentinel(ok, lands)
       PROVE Whence'
  BY <1>20 DEF ApiPutsSentinel, ApiLanded, ApiOnly
<1>21. ASSUME NEW ok \in BOOLEAN, NEW lands \in BOOLEAN, ApiDeletesHold(ok, lands)
       PROVE Whence'
  BY <1>21 DEF ApiDeletesHold, ApiLanded, SeenHoldGoes, ApiOnly
<1>22. CASE HoldRequested
  BY <1>22 DEF HoldRequested, IdleApi, ApiOnly
<1>23. CASE SentinelAcknowledged
  <2>1. CASE api.res = "yes"
    BY <1>23, <2>1 DEF SentinelAcknowledged, ApiGo, ApiOnly
  <2>2. CASE api.res # "yes"
    BY <1>23, <2>2 DEF SentinelAcknowledged, IdleApi, ApiOnly
  <2> QED
    BY <2>1, <2>2
<1>24. CASE HoldCleared
  BY <1>24 DEF HoldCleared, IdleApi, ApiOnly
<1>25. CASE RequestHold
  BY <1>25 DEF RequestHold, ApiGo, ApiOnly
<1>26. CASE RequestClear
  BY <1>26 DEF RequestClear, Acknowledges, ApiOnly
<1>27. CASE Lose
  BY <1>27 DEF Lose, Securing
<1>28. CASE DeleteByHand
  BY <1>28 DEF DeleteByHand, SeenHoldGoes
<1>29. CASE Restart
  BY <1>29 DEF Restart, Check, IdleApi
<1> QED
  BY <1>1, <1>2, <1>3, <1>4, <1>5, <1>6, <1>7, <1>8, <1>9, <1>10, <1>11,
     <1>12, <1>13, <1>14, <1>15, <1>16, <1>17, <1>18, <1>19, <1>20, <1>21,
     <1>22, <1>23, <1>24, <1>25, <1>26, <1>27, <1>28, <1>29
     DEF Next, RunStep, ApiStep

(* Every step keeps ReviewInv.                                             *)
LEMMA NextReviewInv ==
  ASSUME Typed, Whence, ReviewInv, [Next]_vars PROVE ReviewInv'
<1> USE DEF Typed, Runs, Whence, ReviewInv, redis, flags, runner, bounds,
            history
<1>1. CASE UNCHANGED vars
  BY <1>1 DEF vars
<1>2. ASSUME NEW for \in {"tick", "pass"}, StartCheck(for) PROVE ReviewInv'
  BY <1>2 DEF StartCheck, Check
<1>3. ASSUME NEW ok \in BOOLEAN, ReadSentinel(ok) PROVE ReviewInv'
  BY <1>3 DEF ReadSentinel, Landed, Exists, RunOnly
<1>4. ASSUME NEW ok \in BOOLEAN, ReadHold(ok) PROVE ReviewInv'
  BY <1>4 DEF ReadHold, Landed, Exists, RunOnly
<1>5. ASSUME NEW delivered \in BOOLEAN, Publish(delivered) PROVE ReviewInv'
  BY <1>5 DEF Publish, Onwards, Checked, IdleRun, RunOnly
<1>6. ASSUME NEW ok \in BOOLEAN, NEW lands \in BOOLEAN, SetHold(ok, lands)
      PROVE ReviewInv'
  BY <1>6 DEF SetHold, Landed, RunOnly
<1>7. ASSUME NEW ok \in BOOLEAN, NEW lands \in BOOLEAN, PutSentinel(ok, lands)
      PROVE ReviewInv'
  BY <1>7 DEF PutSentinel, Landed, RunOnly
<1>8. CASE CheckedUnreadable
  BY <1>8 DEF CheckedUnreadable, Finish, WaitsAfter, Onwards, Checked,
              IdleRun, RunOnly
<1>9. CASE SentinelMissing
  BY <1>9 DEF SentinelMissing, Go, RunOnly
<1>10. CASE SentinelPresent
  BY <1>10 DEF SentinelPresent, Go, RunOnly
<1>11. CASE HoldSecured
  <2>1. CASE alerted /\ run.res = "yes"
    BY <1>11, <2>1 DEF HoldSecured, HoldWritten, ThenSentinel, Go, RunOnly
  <2>2. CASE alerted /\ run.res # "yes"
    BY <1>11, <2>2, Finished DEF HoldSecured, HoldWritten, ThenSentinel, RunOnly
  <2>3. CASE ~alerted
    BY <1>11, <2>3 DEF HoldSecured, HoldWritten, RunOnly
  <2> QED
    BY <2>1, <2>2, <2>3
<1>12. CASE QueueAlert
  <2>1. CASE run.res = "yes"
    BY <1>12, <2>1 DEF QueueAlert, ThenSentinel, Go, RunOnly
  <2>2. CASE run.res # "yes"
    BY <1>12, <2>2, Finished DEF QueueAlert, ThenSentinel, RunOnly
  <2> QED
    BY <2>1, <2>2
<1>13. CASE Secured
  BY <1>13, Finished DEF Secured, RunOnly
<1>14. CASE HoldRewritten
  <2>1. CASE run.res = "error"
    BY <1>14, <2>1, Finished DEF HoldRewritten, HoldWritten, RunOnly
  <2>2. CASE run.res # "error"
    BY <1>14, <2>2 DEF HoldRewritten, HoldWritten, Go, RunOnly
  <2> QED
    BY <2>1, <2>2
<1>15. CASE CheckedHold
  BY <1>15 DEF CheckedHold, Finish, WaitsAfter, Onwards, Checked, IdleRun,
               RunOnly
<1>16. ASSUME NEW counted \in BOOLEAN, EndPass(counted) PROVE ReviewInv'
  BY <1>16 DEF EndPass, PassCounts, Checked, IdleRun, RunOnly
<1>17. ASSUME NEW counted \in BOOLEAN, PassHolds(counted) PROVE ReviewInv'
  BY <1>17 DEF PassHolds, Go, RunOnly
<1>18. CASE PassHeld
  BY <1>18 DEF PassHeld, HoldWritten, Checked, IdleRun, RunOnly
<1>19. ASSUME NEW ok \in BOOLEAN, NEW lands \in BOOLEAN, ApiSetsHold(ok, lands)
       PROVE ReviewInv'
  BY <1>19 DEF ApiSetsHold, ApiLanded, ApiOnly
<1>20. ASSUME NEW ok \in BOOLEAN, NEW lands \in BOOLEAN, ApiPutsSentinel(ok, lands)
       PROVE ReviewInv'
  BY <1>20 DEF ApiPutsSentinel, ApiLanded, ApiOnly
<1>21. ASSUME NEW ok \in BOOLEAN, NEW lands \in BOOLEAN, ApiDeletesHold(ok, lands)
       PROVE ReviewInv'
  BY <1>21 DEF ApiDeletesHold, ApiLanded, SeenHoldGoes, ApiOnly
<1>22. CASE HoldRequested
  BY <1>22 DEF HoldRequested, IdleApi, ApiOnly
<1>23. CASE SentinelAcknowledged
  <2>1. CASE api.res = "yes"
    BY <1>23, <2>1 DEF SentinelAcknowledged, ApiGo, ApiOnly
  <2>2. CASE api.res # "yes"
    BY <1>23, <2>2 DEF SentinelAcknowledged, IdleApi, ApiOnly
  <2> QED
    BY <2>1, <2>2
<1>24. CASE HoldCleared
  BY <1>24 DEF HoldCleared, IdleApi, ApiOnly
<1>25. CASE RequestHold
  BY <1>25 DEF RequestHold, ApiGo, ApiOnly
<1>26. CASE RequestClear
  BY <1>26 DEF RequestClear, Acknowledges, ApiOnly
<1>27. CASE Lose
  BY <1>27 DEF Lose, Securing
<1>28. CASE DeleteByHand
  BY <1>28 DEF DeleteByHand, SeenHoldGoes
<1>29. CASE Restart
  BY <1>29 DEF Restart, Check, IdleApi
<1> QED
  BY <1>1, <1>2, <1>3, <1>4, <1>5, <1>6, <1>7, <1>8, <1>9, <1>10, <1>11,
     <1>12, <1>13, <1>14, <1>15, <1>16, <1>17, <1>18, <1>19, <1>20, <1>21,
     <1>22, <1>23, <1>24, <1>25, <1>26, <1>27, <1>28, <1>29
     DEF Next, RunStep, ApiStep

(* Every step keeps HeldInv.                                               *)
LEMMA NextHeldInv ==
  ASSUME Typed, Whence, HeldInv, [Next]_vars PROVE HeldInv'
<1> USE DEF Typed, Runs, Whence, HeldInv, HoldLanded, SentinelFound, At,
            redis, flags, runner, bounds, history
<1>1. CASE UNCHANGED vars
  BY <1>1 DEF vars
<1>2. ASSUME NEW for \in {"tick", "pass"}, StartCheck(for) PROVE HeldInv'
  BY <1>2 DEF StartCheck, Check
<1>3. ASSUME NEW ok \in BOOLEAN, ReadSentinel(ok) PROVE HeldInv'
  BY <1>3 DEF ReadSentinel, Landed, Exists, RunOnly
<1>4. ASSUME NEW ok \in BOOLEAN, ReadHold(ok) PROVE HeldInv'
  BY <1>4 DEF ReadHold, Landed, Exists, RunOnly
<1>5. ASSUME NEW delivered \in BOOLEAN, Publish(delivered) PROVE HeldInv'
  BY <1>5 DEF Publish, Onwards, Checked, IdleRun, RunOnly
<1>6. ASSUME NEW ok \in BOOLEAN, NEW lands \in BOOLEAN, SetHold(ok, lands)
      PROVE HeldInv'
  BY <1>6 DEF SetHold, Landed, RunOnly
<1>7. ASSUME NEW ok \in BOOLEAN, NEW lands \in BOOLEAN, PutSentinel(ok, lands)
      PROVE HeldInv'
  BY <1>7 DEF PutSentinel, Landed, RunOnly
<1>8. CASE CheckedUnreadable
  BY <1>8 DEF CheckedUnreadable, Finish, WaitsAfter, Onwards, Checked,
              IdleRun, RunOnly
<1>9. CASE SentinelMissing
  BY <1>9 DEF SentinelMissing, Go, RunOnly
<1>10. CASE SentinelPresent
  BY <1>10 DEF SentinelPresent, Go, RunOnly
<1>11. CASE HoldSecured
  <2>1. CASE alerted /\ run.res = "yes"
    BY <1>11, <2>1 DEF HoldSecured, HoldWritten, ThenSentinel, Go, RunOnly
  <2>2. CASE alerted /\ run.res # "yes"
    BY <1>11, <2>2, Finished DEF HoldSecured, HoldWritten, ThenSentinel, RunOnly
  <2>3. CASE ~alerted
    BY <1>11, <2>3 DEF HoldSecured, HoldWritten, RunOnly
  <2> QED
    BY <2>1, <2>2, <2>3
<1>12. CASE QueueAlert
  <2>1. CASE run.res = "yes"
    BY <1>12, <2>1 DEF QueueAlert, ThenSentinel, Go, RunOnly
  <2>2. CASE run.res # "yes"
    BY <1>12, <2>2, Finished DEF QueueAlert, ThenSentinel, RunOnly
  <2> QED
    BY <2>1, <2>2
<1>13. CASE Secured
  BY <1>13, Finished DEF Secured, RunOnly
<1>14. CASE HoldRewritten
  <2>1. CASE run.res = "error"
    BY <1>14, <2>1, Finished DEF HoldRewritten, HoldWritten, RunOnly
  <2>2. CASE run.res # "error"
    BY <1>14, <2>2 DEF HoldRewritten, HoldWritten, Go, RunOnly
  <2> QED
    BY <2>1, <2>2
<1>15. CASE CheckedHold
  BY <1>15 DEF CheckedHold, Finish, WaitsAfter, Onwards, Checked, IdleRun,
               RunOnly
<1>16. ASSUME NEW counted \in BOOLEAN, EndPass(counted) PROVE HeldInv'
  BY <1>16 DEF EndPass, PassCounts, Checked, IdleRun, RunOnly
<1>17. ASSUME NEW counted \in BOOLEAN, PassHolds(counted) PROVE HeldInv'
  BY <1>17 DEF PassHolds, Go, RunOnly
<1>18. CASE PassHeld
  BY <1>18 DEF PassHeld, HoldWritten, Checked, IdleRun, RunOnly
<1>19. ASSUME NEW ok \in BOOLEAN, NEW lands \in BOOLEAN, ApiSetsHold(ok, lands)
       PROVE HeldInv'
  BY <1>19 DEF ApiSetsHold, ApiLanded, ApiOnly
<1>20. ASSUME NEW ok \in BOOLEAN, NEW lands \in BOOLEAN, ApiPutsSentinel(ok, lands)
       PROVE HeldInv'
  BY <1>20 DEF ApiPutsSentinel, ApiLanded, ApiOnly
<1>21. ASSUME NEW ok \in BOOLEAN, NEW lands \in BOOLEAN, ApiDeletesHold(ok, lands)
       PROVE HeldInv'
  BY <1>21 DEF ApiDeletesHold, ApiLanded, SeenHoldGoes, ApiOnly
<1>22. CASE HoldRequested
  BY <1>22 DEF HoldRequested, IdleApi, ApiOnly
<1>23. CASE SentinelAcknowledged
  <2>1. CASE api.res = "yes"
    BY <1>23, <2>1 DEF SentinelAcknowledged, ApiGo, ApiOnly
  <2>2. CASE api.res # "yes"
    BY <1>23, <2>2 DEF SentinelAcknowledged, IdleApi, ApiOnly
  <2> QED
    BY <2>1, <2>2
<1>24. CASE HoldCleared
  BY <1>24 DEF HoldCleared, IdleApi, ApiOnly
<1>25. CASE RequestHold
  BY <1>25 DEF RequestHold, ApiGo, ApiOnly
<1>26. CASE RequestClear
  BY <1>26 DEF RequestClear, Acknowledges, ApiOnly
<1>27. CASE Lose
  BY <1>27 DEF Lose, Securing
<1>28. CASE DeleteByHand
  BY <1>28 DEF DeleteByHand, SeenHoldGoes
<1>29. CASE Restart
  BY <1>29 DEF Restart, Check, IdleApi
<1> QED
  BY <1>1, <1>2, <1>3, <1>4, <1>5, <1>6, <1>7, <1>8, <1>9, <1>10, <1>11,
     <1>12, <1>13, <1>14, <1>15, <1>16, <1>17, <1>18, <1>19, <1>20, <1>21,
     <1>22, <1>23, <1>24, <1>25, <1>26, <1>27, <1>28, <1>29
     DEF Next, RunStep, ApiStep

(* Every step keeps AlertInv.                                              *)
LEMMA NextAlertInv ==
  ASSUME Typed, Whence, AlertInv, [Next]_vars PROVE AlertInv'
<1> USE DEF Typed, Runs, Whence, AlertInv, MissingFound, At, redis, flags,
            runner, bounds, history
<1>1. CASE UNCHANGED vars
  BY <1>1 DEF vars
<1>2. ASSUME NEW for \in {"tick", "pass"}, StartCheck(for) PROVE AlertInv'
  BY <1>2 DEF StartCheck, Check
<1>3. ASSUME NEW ok \in BOOLEAN, ReadSentinel(ok) PROVE AlertInv'
  BY <1>3 DEF ReadSentinel, Landed, Exists, RunOnly
<1>4. ASSUME NEW ok \in BOOLEAN, ReadHold(ok) PROVE AlertInv'
  BY <1>4 DEF ReadHold, Landed, Exists, RunOnly
<1>5. ASSUME NEW delivered \in BOOLEAN, Publish(delivered) PROVE AlertInv'
  BY <1>5 DEF Publish, Onwards, Checked, IdleRun, RunOnly
<1>6. ASSUME NEW ok \in BOOLEAN, NEW lands \in BOOLEAN, SetHold(ok, lands)
      PROVE AlertInv'
  BY <1>6 DEF SetHold, Landed, RunOnly
<1>7. ASSUME NEW ok \in BOOLEAN, NEW lands \in BOOLEAN, PutSentinel(ok, lands)
      PROVE AlertInv'
  BY <1>7 DEF PutSentinel, Landed, RunOnly
<1>8. CASE CheckedUnreadable
  BY <1>8 DEF CheckedUnreadable, Finish, WaitsAfter, Onwards, Checked,
              IdleRun, RunOnly
<1>9. CASE SentinelMissing
  BY <1>9 DEF SentinelMissing, Go, RunOnly
<1>10. CASE SentinelPresent
  BY <1>10 DEF SentinelPresent, Go, RunOnly
<1>11. CASE HoldSecured
  <2>1. CASE alerted /\ run.res = "yes"
    BY <1>11, <2>1 DEF HoldSecured, HoldWritten, ThenSentinel, Go, RunOnly
  <2>2. CASE alerted /\ run.res # "yes"
    BY <1>11, <2>2, Finished DEF HoldSecured, HoldWritten, ThenSentinel, RunOnly
  <2>3. CASE ~alerted
    BY <1>11, <2>3 DEF HoldSecured, HoldWritten, RunOnly
  <2> QED
    BY <2>1, <2>2, <2>3
<1>12. CASE QueueAlert
  <2>1. CASE run.res = "yes"
    BY <1>12, <2>1 DEF QueueAlert, ThenSentinel, Go, RunOnly
  <2>2. CASE run.res # "yes"
    BY <1>12, <2>2, Finished DEF QueueAlert, ThenSentinel, RunOnly
  <2> QED
    BY <2>1, <2>2
<1>13. CASE Secured
  BY <1>13, Finished DEF Secured, RunOnly
<1>14. CASE HoldRewritten
  <2>1. CASE run.res = "error"
    BY <1>14, <2>1, Finished DEF HoldRewritten, HoldWritten, RunOnly
  <2>2. CASE run.res # "error"
    BY <1>14, <2>2 DEF HoldRewritten, HoldWritten, Go, RunOnly
  <2> QED
    BY <2>1, <2>2
<1>15. CASE CheckedHold
  BY <1>15 DEF CheckedHold, Finish, WaitsAfter, Onwards, Checked, IdleRun,
               RunOnly
<1>16. ASSUME NEW counted \in BOOLEAN, EndPass(counted) PROVE AlertInv'
  BY <1>16 DEF EndPass, PassCounts, Checked, IdleRun, RunOnly
<1>17. ASSUME NEW counted \in BOOLEAN, PassHolds(counted) PROVE AlertInv'
  BY <1>17 DEF PassHolds, Go, RunOnly
<1>18. CASE PassHeld
  BY <1>18 DEF PassHeld, HoldWritten, Checked, IdleRun, RunOnly
<1>19. ASSUME NEW ok \in BOOLEAN, NEW lands \in BOOLEAN, ApiSetsHold(ok, lands)
       PROVE AlertInv'
  BY <1>19 DEF ApiSetsHold, ApiLanded, ApiOnly
<1>20. ASSUME NEW ok \in BOOLEAN, NEW lands \in BOOLEAN, ApiPutsSentinel(ok, lands)
       PROVE AlertInv'
  BY <1>20 DEF ApiPutsSentinel, ApiLanded, ApiOnly
<1>21. ASSUME NEW ok \in BOOLEAN, NEW lands \in BOOLEAN, ApiDeletesHold(ok, lands)
       PROVE AlertInv'
  BY <1>21 DEF ApiDeletesHold, ApiLanded, SeenHoldGoes, ApiOnly
<1>22. CASE HoldRequested
  BY <1>22 DEF HoldRequested, IdleApi, ApiOnly
<1>23. CASE SentinelAcknowledged
  <2>1. CASE api.res = "yes"
    BY <1>23, <2>1 DEF SentinelAcknowledged, ApiGo, ApiOnly
  <2>2. CASE api.res # "yes"
    BY <1>23, <2>2 DEF SentinelAcknowledged, IdleApi, ApiOnly
  <2> QED
    BY <2>1, <2>2
<1>24. CASE HoldCleared
  BY <1>24 DEF HoldCleared, IdleApi, ApiOnly
<1>25. CASE RequestHold
  BY <1>25 DEF RequestHold, ApiGo, ApiOnly
<1>26. CASE RequestClear
  BY <1>26 DEF RequestClear, Acknowledges, ApiOnly
<1>27. CASE Lose
  BY <1>27 DEF Lose, Securing
<1>28. CASE DeleteByHand
  BY <1>28 DEF DeleteByHand, SeenHoldGoes
<1>29. CASE Restart
  BY <1>29 DEF Restart, Check, IdleApi
<1> QED
  BY <1>1, <1>2, <1>3, <1>4, <1>5, <1>6, <1>7, <1>8, <1>9, <1>10, <1>11,
     <1>12, <1>13, <1>14, <1>15, <1>16, <1>17, <1>18, <1>19, <1>20, <1>21,
     <1>22, <1>23, <1>24, <1>25, <1>26, <1>27, <1>28, <1>29
     DEF Next, RunStep, ApiStep

(* Every step keeps SeenInv; the acknowledged sentinel is there by AloneInv. *)
LEMMA NextSeenInv ==
  ASSUME Typed, Whence, SeenInv, AloneInv, [Next]_vars PROVE SeenInv'
<1> USE DEF Typed, Runs, Whence, SeenInv, At, ApiAt, AloneInv, Apis, redis,
            flags, runner, bounds, history
<1>1. CASE UNCHANGED vars
  BY <1>1 DEF vars
<1>2. ASSUME NEW for \in {"tick", "pass"}, StartCheck(for) PROVE SeenInv'
  BY <1>2 DEF StartCheck, Check
<1>3. ASSUME NEW ok \in BOOLEAN, ReadSentinel(ok) PROVE SeenInv'
  BY <1>3 DEF ReadSentinel, Landed, Exists, RunOnly
<1>4. ASSUME NEW ok \in BOOLEAN, ReadHold(ok) PROVE SeenInv'
  BY <1>4 DEF ReadHold, Landed, Exists, RunOnly
<1>5. ASSUME NEW delivered \in BOOLEAN, Publish(delivered) PROVE SeenInv'
  BY <1>5 DEF Publish, Onwards, Checked, IdleRun, RunOnly
<1>6. ASSUME NEW ok \in BOOLEAN, NEW lands \in BOOLEAN, SetHold(ok, lands)
      PROVE SeenInv'
  BY <1>6 DEF SetHold, Landed, RunOnly
<1>7. ASSUME NEW ok \in BOOLEAN, NEW lands \in BOOLEAN, PutSentinel(ok, lands)
      PROVE SeenInv'
  BY <1>7 DEF PutSentinel, Landed, RunOnly
<1>8. CASE CheckedUnreadable
  BY <1>8 DEF CheckedUnreadable, Finish, WaitsAfter, Onwards, Checked,
              IdleRun, RunOnly
<1>9. CASE SentinelMissing
  BY <1>9 DEF SentinelMissing, Go, RunOnly
<1>10. CASE SentinelPresent
  BY <1>10 DEF SentinelPresent, Go, RunOnly
<1>11. CASE HoldSecured
  <2>1. CASE alerted /\ run.res = "yes"
    BY <1>11, <2>1 DEF HoldSecured, HoldWritten, ThenSentinel, Go, RunOnly
  <2>2. CASE alerted /\ run.res # "yes"
    BY <1>11, <2>2, Finished DEF HoldSecured, HoldWritten, ThenSentinel, RunOnly
  <2>3. CASE ~alerted
    BY <1>11, <2>3 DEF HoldSecured, HoldWritten, RunOnly
  <2> QED
    BY <2>1, <2>2, <2>3
<1>12. CASE QueueAlert
  <2>1. CASE run.res = "yes"
    BY <1>12, <2>1 DEF QueueAlert, ThenSentinel, Go, RunOnly
  <2>2. CASE run.res # "yes"
    BY <1>12, <2>2, Finished DEF QueueAlert, ThenSentinel, RunOnly
  <2> QED
    BY <2>1, <2>2
<1>13. CASE Secured
  BY <1>13, Finished DEF Secured, RunOnly
<1>14. CASE HoldRewritten
  <2>1. CASE run.res = "error"
    BY <1>14, <2>1, Finished DEF HoldRewritten, HoldWritten, RunOnly
  <2>2. CASE run.res # "error"
    BY <1>14, <2>2 DEF HoldRewritten, HoldWritten, Go, RunOnly
  <2> QED
    BY <2>1, <2>2
<1>15. CASE CheckedHold
  BY <1>15 DEF CheckedHold, Finish, WaitsAfter, Onwards, Checked, IdleRun,
               RunOnly
<1>16. ASSUME NEW counted \in BOOLEAN, EndPass(counted) PROVE SeenInv'
  BY <1>16 DEF EndPass, PassCounts, Checked, IdleRun, RunOnly
<1>17. ASSUME NEW counted \in BOOLEAN, PassHolds(counted) PROVE SeenInv'
  BY <1>17 DEF PassHolds, Go, RunOnly
<1>18. CASE PassHeld
  BY <1>18 DEF PassHeld, HoldWritten, Checked, IdleRun, RunOnly
<1>19. ASSUME NEW ok \in BOOLEAN, NEW lands \in BOOLEAN, ApiSetsHold(ok, lands)
       PROVE SeenInv'
  BY <1>19 DEF ApiSetsHold, ApiLanded, ApiOnly
<1>20. ASSUME NEW ok \in BOOLEAN, NEW lands \in BOOLEAN, ApiPutsSentinel(ok, lands)
       PROVE SeenInv'
  BY <1>20 DEF ApiPutsSentinel, ApiLanded, ApiOnly
<1>21. ASSUME NEW ok \in BOOLEAN, NEW lands \in BOOLEAN, ApiDeletesHold(ok, lands)
       PROVE SeenInv'
  BY <1>21 DEF ApiDeletesHold, ApiLanded, SeenHoldGoes, ApiOnly
<1>22. CASE HoldRequested
  BY <1>22 DEF HoldRequested, IdleApi, ApiOnly
<1>23. CASE SentinelAcknowledged
  <2>1. CASE api.res = "yes"
    BY <1>23, <2>1 DEF SentinelAcknowledged, ApiGo, ApiOnly
  <2>2. CASE api.res # "yes"
    BY <1>23, <2>2 DEF SentinelAcknowledged, IdleApi, ApiOnly
  <2> QED
    BY <2>1, <2>2
<1>24. CASE HoldCleared
  BY <1>24 DEF HoldCleared, IdleApi, ApiOnly
<1>25. CASE RequestHold
  BY <1>25 DEF RequestHold, ApiGo, ApiOnly
<1>26. CASE RequestClear
  BY <1>26 DEF RequestClear, Acknowledges, ApiOnly
<1>27. CASE Lose
  BY <1>27 DEF Lose, Securing
<1>28. CASE DeleteByHand
  BY <1>28 DEF DeleteByHand, SeenHoldGoes
<1>29. CASE Restart
  BY <1>29 DEF Restart, Check, IdleApi
<1> QED
  BY <1>1, <1>2, <1>3, <1>4, <1>5, <1>6, <1>7, <1>8, <1>9, <1>10, <1>11,
     <1>12, <1>13, <1>14, <1>15, <1>16, <1>17, <1>18, <1>19, <1>20, <1>21,
     <1>22, <1>23, <1>24, <1>25, <1>26, <1>27, <1>28, <1>29
     DEF Next, RunStep, ApiStep

(* Every step keeps AloneInv.                                              *)
LEMMA NextAloneInv ==
  ASSUME Typed, Whence, SeenInv, AloneInv, [Next]_vars PROVE AloneInv'
<1> USE DEF Typed, Runs, Whence, AloneInv, At, ApiAt, SeenInv, Apis, redis,
            flags, runner, bounds, history
<1>1. CASE UNCHANGED vars
  BY <1>1 DEF vars
<1>2. ASSUME NEW for \in {"tick", "pass"}, StartCheck(for) PROVE AloneInv'
  BY <1>2 DEF StartCheck, Check
<1>3. ASSUME NEW ok \in BOOLEAN, ReadSentinel(ok) PROVE AloneInv'
  BY <1>3 DEF ReadSentinel, Landed, Exists, RunOnly
<1>4. ASSUME NEW ok \in BOOLEAN, ReadHold(ok) PROVE AloneInv'
  BY <1>4 DEF ReadHold, Landed, Exists, RunOnly
<1>5. ASSUME NEW delivered \in BOOLEAN, Publish(delivered) PROVE AloneInv'
  BY <1>5 DEF Publish, Onwards, Checked, IdleRun, RunOnly
<1>6. ASSUME NEW ok \in BOOLEAN, NEW lands \in BOOLEAN, SetHold(ok, lands)
      PROVE AloneInv'
  BY <1>6 DEF SetHold, Landed, RunOnly
<1>7. ASSUME NEW ok \in BOOLEAN, NEW lands \in BOOLEAN, PutSentinel(ok, lands)
      PROVE AloneInv'
  BY <1>7 DEF PutSentinel, Landed, RunOnly
<1>8. CASE CheckedUnreadable
  BY <1>8 DEF CheckedUnreadable, Finish, WaitsAfter, Onwards, Checked,
              IdleRun, RunOnly
<1>9. CASE SentinelMissing
  BY <1>9 DEF SentinelMissing, Go, RunOnly
<1>10. CASE SentinelPresent
  BY <1>10 DEF SentinelPresent, Go, RunOnly
<1>11. CASE HoldSecured
  <2>1. CASE alerted /\ run.res = "yes"
    BY <1>11, <2>1 DEF HoldSecured, HoldWritten, ThenSentinel, Go, RunOnly
  <2>2. CASE alerted /\ run.res # "yes"
    BY <1>11, <2>2, Finished DEF HoldSecured, HoldWritten, ThenSentinel, RunOnly
  <2>3. CASE ~alerted
    BY <1>11, <2>3 DEF HoldSecured, HoldWritten, RunOnly
  <2> QED
    BY <2>1, <2>2, <2>3
<1>12. CASE QueueAlert
  <2>1. CASE run.res = "yes"
    BY <1>12, <2>1 DEF QueueAlert, ThenSentinel, Go, RunOnly
  <2>2. CASE run.res # "yes"
    BY <1>12, <2>2, Finished DEF QueueAlert, ThenSentinel, RunOnly
  <2> QED
    BY <2>1, <2>2
<1>13. CASE Secured
  BY <1>13, Finished DEF Secured, RunOnly
<1>14. CASE HoldRewritten
  <2>1. CASE run.res = "error"
    BY <1>14, <2>1, Finished DEF HoldRewritten, HoldWritten, RunOnly
  <2>2. CASE run.res # "error"
    BY <1>14, <2>2 DEF HoldRewritten, HoldWritten, Go, RunOnly
  <2> QED
    BY <2>1, <2>2
<1>15. CASE CheckedHold
  BY <1>15 DEF CheckedHold, Finish, WaitsAfter, Onwards, Checked, IdleRun,
               RunOnly
<1>16. ASSUME NEW counted \in BOOLEAN, EndPass(counted) PROVE AloneInv'
  BY <1>16 DEF EndPass, PassCounts, Checked, IdleRun, RunOnly
<1>17. ASSUME NEW counted \in BOOLEAN, PassHolds(counted) PROVE AloneInv'
  BY <1>17 DEF PassHolds, Go, RunOnly
<1>18. CASE PassHeld
  BY <1>18 DEF PassHeld, HoldWritten, Checked, IdleRun, RunOnly
<1>19. ASSUME NEW ok \in BOOLEAN, NEW lands \in BOOLEAN, ApiSetsHold(ok, lands)
       PROVE AloneInv'
  BY <1>19 DEF ApiSetsHold, ApiLanded, ApiOnly
<1>20. ASSUME NEW ok \in BOOLEAN, NEW lands \in BOOLEAN, ApiPutsSentinel(ok, lands)
       PROVE AloneInv'
  BY <1>20 DEF ApiPutsSentinel, ApiLanded, ApiOnly
<1>21. ASSUME NEW ok \in BOOLEAN, NEW lands \in BOOLEAN, ApiDeletesHold(ok, lands)
       PROVE AloneInv'
  BY <1>21 DEF ApiDeletesHold, ApiLanded, SeenHoldGoes, ApiOnly
<1>22. CASE HoldRequested
  BY <1>22 DEF HoldRequested, IdleApi, ApiOnly
<1>23. CASE SentinelAcknowledged
  <2>1. CASE api.res = "yes"
    BY <1>23, <2>1 DEF SentinelAcknowledged, ApiGo, ApiOnly
  <2>2. CASE api.res # "yes"
    BY <1>23, <2>2 DEF SentinelAcknowledged, IdleApi, ApiOnly
  <2> QED
    BY <2>1, <2>2
<1>24. CASE HoldCleared
  BY <1>24 DEF HoldCleared, IdleApi, ApiOnly
<1>25. CASE RequestHold
  BY <1>25 DEF RequestHold, ApiGo, ApiOnly
<1>26. CASE RequestClear
  BY <1>26 DEF RequestClear, Acknowledges, ApiOnly
<1>27. CASE Lose
  BY <1>27 DEF Lose, Securing
<1>28. CASE DeleteByHand
  BY <1>28 DEF DeleteByHand, SeenHoldGoes
<1>29. CASE Restart
  BY <1>29 DEF Restart, Check, IdleApi
<1> QED
  BY <1>1, <1>2, <1>3, <1>4, <1>5, <1>6, <1>7, <1>8, <1>9, <1>10, <1>11,
     <1>12, <1>13, <1>14, <1>15, <1>16, <1>17, <1>18, <1>19, <1>20, <1>21,
     <1>22, <1>23, <1>24, <1>25, <1>26, <1>27, <1>28, <1>29
     DEF Next, RunStep, ApiStep

(* Every step keeps ClearInv.                                              *)
LEMMA NextClearInv ==
  ASSUME Typed, Whence, SeenInv, AloneInv, ClearInv, [Next]_vars PROVE ClearInv'
<1> USE DEF Typed, Runs, Whence, ClearInv, At, ApiAt, AloneInv, Apis, redis,
            flags, runner, bounds, history
<1>1. CASE UNCHANGED vars
  BY <1>1 DEF vars
<1>2. ASSUME NEW for \in {"tick", "pass"}, StartCheck(for) PROVE ClearInv'
  BY <1>2 DEF StartCheck, Check
<1>3. ASSUME NEW ok \in BOOLEAN, ReadSentinel(ok) PROVE ClearInv'
  BY <1>3 DEF ReadSentinel, Landed, Exists, RunOnly
<1>4. ASSUME NEW ok \in BOOLEAN, ReadHold(ok) PROVE ClearInv'
  BY <1>4 DEF ReadHold, Landed, Exists, RunOnly
<1>5. ASSUME NEW delivered \in BOOLEAN, Publish(delivered) PROVE ClearInv'
  BY <1>5 DEF Publish, Onwards, Checked, IdleRun, RunOnly
<1>6. ASSUME NEW ok \in BOOLEAN, NEW lands \in BOOLEAN, SetHold(ok, lands)
      PROVE ClearInv'
  BY <1>6 DEF SetHold, Landed, RunOnly
<1>7. ASSUME NEW ok \in BOOLEAN, NEW lands \in BOOLEAN, PutSentinel(ok, lands)
      PROVE ClearInv'
  BY <1>7 DEF PutSentinel, Landed, RunOnly
<1>8. CASE CheckedUnreadable
  BY <1>8 DEF CheckedUnreadable, Finish, WaitsAfter, Onwards, Checked,
              IdleRun, RunOnly
<1>9. CASE SentinelMissing
  BY <1>9 DEF SentinelMissing, Go, RunOnly
<1>10. CASE SentinelPresent
  BY <1>10 DEF SentinelPresent, Go, RunOnly
<1>11. CASE HoldSecured
  <2>1. CASE alerted /\ run.res = "yes"
    BY <1>11, <2>1 DEF HoldSecured, HoldWritten, ThenSentinel, Go, RunOnly
  <2>2. CASE alerted /\ run.res # "yes"
    BY <1>11, <2>2, Finished DEF HoldSecured, HoldWritten, ThenSentinel, RunOnly
  <2>3. CASE ~alerted
    BY <1>11, <2>3 DEF HoldSecured, HoldWritten, RunOnly
  <2> QED
    BY <2>1, <2>2, <2>3
<1>12. CASE QueueAlert
  <2>1. CASE run.res = "yes"
    BY <1>12, <2>1 DEF QueueAlert, ThenSentinel, Go, RunOnly
  <2>2. CASE run.res # "yes"
    BY <1>12, <2>2, Finished DEF QueueAlert, ThenSentinel, RunOnly
  <2> QED
    BY <2>1, <2>2
<1>13. CASE Secured
  BY <1>13, Finished DEF Secured, RunOnly
<1>14. CASE HoldRewritten
  <2>1. CASE run.res = "error"
    BY <1>14, <2>1, Finished DEF HoldRewritten, HoldWritten, RunOnly
  <2>2. CASE run.res # "error"
    BY <1>14, <2>2 DEF HoldRewritten, HoldWritten, Go, RunOnly
  <2> QED
    BY <2>1, <2>2
<1>15. CASE CheckedHold
  BY <1>15 DEF CheckedHold, Finish, WaitsAfter, Onwards, Checked, IdleRun,
               RunOnly
<1>16. ASSUME NEW counted \in BOOLEAN, EndPass(counted) PROVE ClearInv'
  BY <1>16 DEF EndPass, PassCounts, Checked, IdleRun, RunOnly
<1>17. ASSUME NEW counted \in BOOLEAN, PassHolds(counted) PROVE ClearInv'
  BY <1>17 DEF PassHolds, Go, RunOnly
<1>18. CASE PassHeld
  BY <1>18 DEF PassHeld, HoldWritten, Checked, IdleRun, RunOnly
<1>19. ASSUME NEW ok \in BOOLEAN, NEW lands \in BOOLEAN, ApiSetsHold(ok, lands)
       PROVE ClearInv'
  BY <1>19 DEF ApiSetsHold, ApiLanded, ApiOnly
<1>20. ASSUME NEW ok \in BOOLEAN, NEW lands \in BOOLEAN, ApiPutsSentinel(ok, lands)
       PROVE ClearInv'
  BY <1>20 DEF ApiPutsSentinel, ApiLanded, ApiOnly
<1>21. ASSUME NEW ok \in BOOLEAN, NEW lands \in BOOLEAN, ApiDeletesHold(ok, lands)
       PROVE ClearInv'
  BY <1>21 DEF ApiDeletesHold, ApiLanded, SeenHoldGoes, ApiOnly
<1>22. CASE HoldRequested
  BY <1>22 DEF HoldRequested, IdleApi, ApiOnly
<1>23. CASE SentinelAcknowledged
  <2>1. CASE api.res = "yes"
    BY <1>23, <2>1 DEF SentinelAcknowledged, ApiGo, ApiOnly
  <2>2. CASE api.res # "yes"
    BY <1>23, <2>2 DEF SentinelAcknowledged, IdleApi, ApiOnly
  <2> QED
    BY <2>1, <2>2
<1>24. CASE HoldCleared
  BY <1>24 DEF HoldCleared, IdleApi, ApiOnly
<1>25. CASE RequestHold
  BY <1>25 DEF RequestHold, ApiGo, ApiOnly
<1>26. CASE RequestClear
  BY <1>26 DEF RequestClear, Acknowledges, ApiOnly
<1>27. CASE Lose
  BY <1>27 DEF Lose, Securing
<1>28. CASE DeleteByHand
  BY <1>28 DEF DeleteByHand, SeenHoldGoes
<1>29. CASE Restart
  BY <1>29 DEF Restart, Check, IdleApi
<1> QED
  BY <1>1, <1>2, <1>3, <1>4, <1>5, <1>6, <1>7, <1>8, <1>9, <1>10, <1>11,
     <1>12, <1>13, <1>14, <1>15, <1>16, <1>17, <1>18, <1>19, <1>20, <1>21,
     <1>22, <1>23, <1>24, <1>25, <1>26, <1>27, <1>28, <1>29
     DEF Next, RunStep, ApiStep

-----------------------------------------------------------------------------
(* What a check that ends has found, and what opens are held by after it.  *)
EndedWith ==
    /\ UNCHANGED <<owed, cleared>>
    /\ \/ /\ run.pc \in {"got_sentinel", "got_hold"} /\ run.res = "error"
          /\ ctl' = "unreadable"
       \/ run.pc = "got_hold" /\ run.res = "yes" /\ ctl' = "set"
       \/ run.pc = "got_hold" /\ run.res = "no" /\ ctl' = "none"
       \/ run.pc \in {"hold_set", "text", "sentinel_put"} /\ ctl' = "set"

(* Every end of a check is one of these.                                   *)
LEMMA CheckEnds ==
  ASSUME Typed, Whence, Ends, [Next]_vars PROVE EndedWith
<1> USE DEF Typed, Runs, Whence, Results, EndedWith, Ends, redis, flags,
            runner, bounds, history
<1>1. CASE UNCHANGED vars
  BY <1>1 DEF vars
<1>2. ASSUME NEW for \in {"tick", "pass"}, StartCheck(for) PROVE EndedWith
  BY <1>2 DEF StartCheck, Check
<1>3. ASSUME NEW ok \in BOOLEAN, ReadSentinel(ok) PROVE EndedWith
  BY <1>3 DEF ReadSentinel, Landed, Exists, RunOnly
<1>4. ASSUME NEW ok \in BOOLEAN, ReadHold(ok) PROVE EndedWith
  BY <1>4 DEF ReadHold, Landed, Exists, RunOnly
<1>5. ASSUME NEW delivered \in BOOLEAN, Publish(delivered) PROVE EndedWith
  BY <1>5 DEF Publish, Onwards, Checked, IdleRun, RunOnly
<1>6. ASSUME NEW ok \in BOOLEAN, NEW lands \in BOOLEAN, SetHold(ok, lands)
      PROVE EndedWith
  BY <1>6 DEF SetHold, Landed, RunOnly
<1>7. ASSUME NEW ok \in BOOLEAN, NEW lands \in BOOLEAN, PutSentinel(ok, lands)
      PROVE EndedWith
  BY <1>7 DEF PutSentinel, Landed, RunOnly
<1>8. CASE CheckedUnreadable
  BY <1>8 DEF CheckedUnreadable, Finish, WaitsAfter, Onwards, Checked,
              IdleRun, RunOnly
<1>9. CASE SentinelMissing
  BY <1>9 DEF SentinelMissing, Go, RunOnly
<1>10. CASE SentinelPresent
  BY <1>10 DEF SentinelPresent, Go, RunOnly
<1>11. CASE HoldSecured
  <2>1. CASE alerted /\ run.res = "yes"
    BY <1>11, <2>1 DEF HoldSecured, HoldWritten, ThenSentinel, Go, RunOnly
  <2>2. CASE alerted /\ run.res # "yes"
    BY <1>11, <2>2, Finished DEF HoldSecured, HoldWritten, ThenSentinel, RunOnly
  <2>3. CASE ~alerted
    BY <1>11, <2>3 DEF HoldSecured, HoldWritten, RunOnly
  <2> QED
    BY <2>1, <2>2, <2>3
<1>12. CASE QueueAlert
  <2>1. CASE run.res = "yes"
    BY <1>12, <2>1 DEF QueueAlert, ThenSentinel, Go, RunOnly
  <2>2. CASE run.res # "yes"
    BY <1>12, <2>2, Finished DEF QueueAlert, ThenSentinel, RunOnly
  <2> QED
    BY <2>1, <2>2
<1>13. CASE Secured
  BY <1>13, Finished DEF Secured, RunOnly
<1>14. CASE HoldRewritten
  <2>1. CASE run.res = "error"
    BY <1>14, <2>1, Finished DEF HoldRewritten, HoldWritten, RunOnly
  <2>2. CASE run.res # "error"
    BY <1>14, <2>2 DEF HoldRewritten, HoldWritten, Go, RunOnly
  <2> QED
    BY <2>1, <2>2
<1>15. CASE CheckedHold
  <2>1. CASE run.res = "yes"
    BY <1>15, <2>1, Finished DEF CheckedHold, RunOnly
  <2>2. CASE run.res # "yes"
    BY <1>15, <2>2, Finished DEF CheckedHold, RunOnly
  <2> QED
    BY <2>1, <2>2
<1>16. ASSUME NEW counted \in BOOLEAN, EndPass(counted) PROVE EndedWith
  BY <1>16 DEF EndPass, PassCounts, Checked, IdleRun, RunOnly
<1>17. ASSUME NEW counted \in BOOLEAN, PassHolds(counted) PROVE EndedWith
  BY <1>17 DEF PassHolds, Go, RunOnly
<1>18. CASE PassHeld
  BY <1>18 DEF PassHeld, HoldWritten, Checked, IdleRun, RunOnly
<1>19. ASSUME NEW ok \in BOOLEAN, NEW lands \in BOOLEAN, ApiSetsHold(ok, lands)
       PROVE EndedWith
  BY <1>19 DEF ApiSetsHold, ApiLanded, ApiOnly
<1>20. ASSUME NEW ok \in BOOLEAN, NEW lands \in BOOLEAN, ApiPutsSentinel(ok, lands)
       PROVE EndedWith
  BY <1>20 DEF ApiPutsSentinel, ApiLanded, ApiOnly
<1>21. ASSUME NEW ok \in BOOLEAN, NEW lands \in BOOLEAN, ApiDeletesHold(ok, lands)
       PROVE EndedWith
  BY <1>21 DEF ApiDeletesHold, ApiLanded, SeenHoldGoes, ApiOnly
<1>22. CASE HoldRequested
  BY <1>22 DEF HoldRequested, IdleApi, ApiOnly
<1>23. CASE SentinelAcknowledged
  <2>1. CASE api.res = "yes"
    BY <1>23, <2>1 DEF SentinelAcknowledged, ApiGo, ApiOnly
  <2>2. CASE api.res # "yes"
    BY <1>23, <2>2 DEF SentinelAcknowledged, IdleApi, ApiOnly
  <2> QED
    BY <2>1, <2>2
<1>24. CASE HoldCleared
  BY <1>24 DEF HoldCleared, IdleApi, ApiOnly
<1>25. CASE RequestHold
  BY <1>25 DEF RequestHold, ApiGo, ApiOnly
<1>26. CASE RequestClear
  BY <1>26 DEF RequestClear, Acknowledges, ApiOnly
<1>27. CASE Lose
  BY <1>27 DEF Lose, Securing
<1>28. CASE DeleteByHand
  BY <1>28 DEF DeleteByHand, SeenHoldGoes
<1>29. CASE Restart
  BY <1>29 DEF Restart, Check, IdleApi
<1> QED
  BY <1>1, <1>2, <1>3, <1>4, <1>5, <1>6, <1>7, <1>8, <1>9, <1>10, <1>11,
     <1>12, <1>13, <1>14, <1>15, <1>16, <1>17, <1>18, <1>19, <1>20, <1>21,
     <1>22, <1>23, <1>24, <1>25, <1>26, <1>27, <1>28, <1>29
     DEF Next, RunStep, ApiStep

(* The state of the guard keeps its types.                                 *)
THEOREM TypeCorrect == Spec => []TypeOK
<1>1. Typed /\ [Next]_vars => Typed'
  BY NextTyped
<1> QED
  BY <1>1, InitTyped, TypedIsTypeOK, PTL DEF Spec

(* The invariant the rest is proved from.                                  *)
LEMMA Answers == Spec => [](Typed /\ Whence)
<1>1. Init => Typed /\ Whence
  BY InitTyped, FirstStates DEF Whence
<1>2. Typed /\ Whence /\ [Next]_vars => (Typed /\ Whence)'
  BY NextTyped, NextWhence
<1> QED
  BY <1>1, <1>2, PTL DEF Spec

(* A runner between checks lets opens through only after a pass counted    *)
(* with no hold in force, since the start and since a hold it acted on was *)
(* deleted (EngineRunner._awaiting).                                       *)
THEOREM PassBeforeOpens == Spec => []OpensFollowAPass
<1>1. Init => ReviewInv
  BY DEF Init, ReviewInv
<1>2. Typed /\ Whence /\ ReviewInv /\ [Next]_vars => ReviewInv'
  BY NextReviewInv
<1>3. ReviewInv => OpensFollowAPass
  BY DEF ReviewInv, OpensFollowAPass, OpensHeld
<1> QED
  BY <1>1, <1>2, <1>3, Answers, PTL DEF Spec

(* No check that began after Redis was emptied, and ends before a human    *)
(* cleared anything, lets opens through, whichever writes fail or land     *)
(* unanswered (_secure_lost_control_state).                                *)
THEOREM LossHolds == Spec => HeldWhileLost
<1>1. Init => HeldInv
  BY FirstStates DEF Init, HeldInv, HoldLanded, SentinelFound, At
<1>2. Typed /\ Whence /\ HeldInv /\ [Next]_vars => HeldInv'
  BY NextHeldInv
<1>3. Typed /\ Whence /\ HeldInv /\ [Next]_vars
        => [Ends /\ run.owed /\ owed' => ctl' # "none"]_vars
  BY CheckEnds DEF EndedWith, HeldInv, At
<1> QED
  BY <1>1, <1>2, <1>3, Answers, PTL DEF Spec, HeldWhileLost

(* A process announces a loss once, however often it has to write the hold *)
(* and the sentinel again (_lost_state_alerted).                           *)
THEOREM LossAnnouncedOnce == Spec => OneAlertPerLoss
<1>1. Init => AlertInv
  BY FirstStates DEF Init, AlertInv, MissingFound, At
<1>2. Typed /\ Whence /\ AlertInv /\ [Next]_vars => AlertInv'
  BY NextAlertInv
<1>3. AlertInv /\ [Next]_vars
        => [run.pc = "text" /\ run'.pc # "text" /\ restarts' = restarts => news]_vars
  BY DEF AlertInv
<1> QED
  BY <1>1, <1>2, <1>3, Answers, PTL DEF Spec, OneAlertPerLoss

(* A hold cleared while no check was running comes back only for a new     *)
(* reason: a loss, a request, or what a pass held (set_reconcile_hold).    *)
THEOREM ClearLasts == Spec => ClearedStaysCleared
<1> DEFINE Inv == SeenInv /\ AloneInv /\ ClearInv
<1>1. Init => Inv
  BY FirstStates DEF Init, SeenInv, AloneInv, ClearInv
<1>2. Typed /\ Whence /\ Inv /\ [Next]_vars => Inv'
  BY NextSeenInv, NextAloneInv, NextClearInv
<1>3. Typed /\ Whence /\ Inv /\ [Next]_vars => [Ends /\ cleared => ctl' # "set"]_vars
  BY CheckEnds DEF EndedWith, ClearInv, At
<1> QED
  BY <1>1, <1>2, <1>3, Answers, PTL DEF Spec, ClearedStaysCleared

=============================================================================
