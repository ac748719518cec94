---------------------------- MODULE LeveragePush ----------------------------
(***************************************************************************)
(* The leverage of one coin: each strategy has its own, the exchange holds *)
(* one, and the runner caches what it pushed last. Overrides live in Redis *)
(* and are written by the API, which pushes as well, or by hand. A push    *)
(* may be refused, and one whose answer is lost may still arrive.          *)
(***************************************************************************)
EXTENDS Integers, FiniteSets, FiniteSetsExt

CONSTANTS Users,                \* the strategies of the coin
          Levels, Default,      \* leverages; the one of the strategies' class
          MaxChanges            \* bound: overrides changed

LeverageConstants == /\ Levels \subseteq Nat \ {0} /\ Default \in Levels
                            /\ IsFiniteSet(Levels) /\ Users # {}
                            /\ IsFiniteSet(Users) /\ MaxChanges \in Nat

Unset == 0

VARIABLES override,     \* the overrides in Redis
          lev,          \* s.leverage
          read,         \* the overrides the tick has read and not applied
          tickPc,       \* where the tick is
          asked,        \* the target of the runner's push that has no answer yet
          pushed,       \* _pushed_leverage of the coin
          pushAlerted,  \* _leverage_push_alerted of the coin
          exch,         \* what the exchange holds
          underway,     \* pushes nobody waits for that may still arrive
          opening,      \* whether the last step let an open through
          strayed,      \* history: since the runner's last push reached the
                        \* exchange, another one was sent or the answer was lost
          changes       \* overrides changed so far

vars == <<override, lev, read, tickPc, asked, pushed, pushAlerted, exch, underway,
          opening, strayed, changes>>

Overridden(o, l) == [s \in Users |-> IF o[s] = Unset THEN l[s] ELSE o[s]]
Target(l) == Max({l[s] : s \in Users})
NoOverride == [s \in Users |-> Unset]

(* main: at a start the overrides are applied to the class's leverage.     *)
Configured(o) == Overridden(o, [s \in Users |-> Default])

Init == /\ override = NoOverride /\ read = NoOverride /\ tickPc = "idle"
        /\ lev = Configured(NoOverride)
        /\ pushed = Default /\ exch = Default /\ asked = Unset
        /\ pushAlerted = Unset /\ underway = {} /\ opening = FALSE
        /\ strayed = FALSE /\ changes = 0

(* tick: the overrides are read over the network, then applied. One that    *)
(* was deleted by hand leaves the strategy as it is.                       *)
ReadOverrides == /\ tickPc = "idle" /\ tickPc' = "apply" /\ read' = override
                 /\ opening' = FALSE
                 /\ UNCHANGED <<override, lev, asked, pushed, pushAlerted, exch,
                                underway, strayed, changes>>

ApplyOverrides == /\ tickPc = "apply" /\ tickPc' = "open"
                  /\ lev' = Overridden(read, lev)
                  /\ UNCHANGED <<override, read, asked, pushed, pushAlerted, exch,
                                 underway, opening, strayed, changes>>

(* A tick in which the coin's strategies give no open. *)
NoOpen == /\ tickPc = "open" /\ tickPc' = "idle" /\ opening' = FALSE
          /\ UNCHANGED <<override, lev, read, asked, pushed, pushAlerted, exch,
                         underway, strayed, changes>>

(* _ensure_leverage_pushed: the cache has the target, or it is pushed. The   *)
(* push is awaited: the API runs until it is answered.                     *)
InSync == /\ tickPc = "open" /\ tickPc' = "idle"
          /\ pushed = Target(lev) /\ opening' = TRUE
          /\ UNCHANGED <<override, lev, read, asked, pushed, pushAlerted, exch,
                         underway, strayed, changes>>

BeginPush == /\ tickPc = "open" /\ tickPc' = "pushing"
             /\ pushed # Target(lev) /\ asked' = Target(lev)
             /\ opening' = FALSE
             /\ UNCHANGED <<override, lev, read, pushed, pushAlerted, exch, underway,
                            strayed, changes>>

(* The exchange takes the runner's push. *)
PushLands == /\ tickPc = "pushing" /\ tickPc' = "landed" /\ exch' = asked
             /\ strayed' = (underway # {} \/ asked # Target(lev))
             /\ opening' = FALSE
             /\ UNCHANGED <<override, lev, read, asked, pushed, pushAlerted, underway,
                            changes>>

PushAccepted == /\ tickPc = "landed" /\ tickPc' = "idle"
                /\ pushed' = asked /\ asked' = Unset
                /\ pushAlerted' = Unset /\ opening' = TRUE
                /\ UNCHANGED <<override, lev, read, exch, underway, strayed, changes>>

(* Refused, or without an answer: then it may have been taken, or may be yet. *)
Unanswered == /\ underway' = underway \cup IF tickPc = "pushing" THEN {asked} ELSE {}
              /\ strayed' = TRUE

(* Mutant: the cache is updated whatever the exchange answered. *)
PushFailsCached == /\ tickPc \in {"pushing", "landed"} /\ tickPc' = "idle"
                   /\ pushAlerted' = asked /\ asked' = Unset /\ opening' = FALSE
                   /\ \/ tickPc = "pushing" /\ UNCHANGED <<underway, strayed>>
                      \/ Unanswered
                   /\ pushed' = asked
                   /\ UNCHANGED <<override, lev, read, exch, changes>>

PushFails == /\ tickPc \in {"pushing", "landed"} /\ tickPc' = "idle"
             /\ pushAlerted' = asked /\ asked' = Unset /\ opening' = FALSE
             /\ \/ tickPc = "pushing" /\ UNCHANGED <<underway, strayed>>
                \/ Unanswered
             /\ UNCHANGED <<override, lev, read, pushed, exch, changes>>

(* set_leverage, reset_leverage: the override, the strategy and a push that  *)
(* the exchange takes or refuses, of which the runner's cache learns        *)
(* nothing.                                                                *)
Request(o, l) == /\ changes < MaxChanges /\ changes' = changes + 1
                 /\ override' = o /\ lev' = l
                 /\ underway' = underway \cup {Target(l)} /\ strayed' = TRUE
                 /\ opening' = FALSE
                 /\ UNCHANGED <<read, tickPc, asked, pushed, pushAlerted, exch>>

SetLeverage == \E s \in Users, v \in Levels :
    Request([override EXCEPT ![s] = v], [lev EXCEPT ![s] = v])

ResetLeverage == \E s \in Users :
    Request([override EXCEPT ![s] = Unset], [lev EXCEPT ![s] = Default])

(* The operator writes the hash by hand. *)
WriteByHand == /\ changes < MaxChanges /\ changes' = changes + 1
               /\ \E s \in Users, v \in Levels \cup {Unset} :
                     override' = [override EXCEPT ![s] = v]
               /\ opening' = FALSE
               /\ UNCHANGED <<lev, read, tickPc, asked, pushed, pushAlerted, exch,
                              underway, strayed>>

(* A push of the API, or one whose answer was lost, is taken, or never is.  *)
Arrive == /\ \E v \in underway : underway' = underway \ {v} /\ exch' \in {v, exch}
          /\ opening' = FALSE
          /\ UNCHANGED <<override, lev, read, tickPc, asked, pushed, pushAlerted,
                         strayed, changes>>

(* The process starts again and main pushes the maximum: an accepted push   *)
(* seeds the cache.                                                        *)
Restart ==
    /\ lev' = Configured(override) /\ read' = NoOverride /\ tickPc' = "idle"
    /\ asked' = Unset /\ pushAlerted' = Unset /\ opening' = FALSE
    /\ LET t == Target(lev')
           left == underway \cup IF tickPc = "pushing" THEN {asked} ELSE {}
       IN  \/ pushed' = t /\ exch' = t /\ underway' = left
           \/ /\ pushed' = Unset /\ underway' \in {left, left \cup {t}}
              /\ UNCHANGED exch
    /\ strayed' = (underway' # {})
    /\ UNCHANGED <<override, changes>>

Next == \/ ReadOverrides \/ ApplyOverrides \/ NoOpen
        \/ InSync \/ BeginPush \/ PushLands \/ PushAccepted \/ PushFails
        \/ SetLeverage \/ ResetLeverage \/ WriteByHand \/ Arrive \/ Restart

Spec == Init /\ [][Next]_vars
----------------------------------------------------------------------------

TypeOK ==
    /\ override \in [Users -> Levels \cup {Unset}]
    /\ read \in [Users -> Levels \cup {Unset}]
    /\ lev \in [Users -> Levels] /\ exch \in Levels
    /\ {asked, pushed, pushAlerted} \subseteq Levels \cup {Unset}
    /\ tickPc \in {"idle", "apply", "open", "pushing", "landed"}
    /\ asked # Unset <=> tickPc \in {"pushing", "landed"}
    /\ underway \subseteq Levels
    /\ {opening, strayed} \subseteq BOOLEAN /\ changes \in 0..MaxChanges

(* Once a push of the runner or of main was taken and answered, an open that *)
(* goes through finds the exchange at the maximum of the coin's strategies,  *)
(* over overrides, restarts, refused pushes and pushes of the API in         *)
(* between, until the API pushes again or an answer is lost.                *)
OpensAtTarget == opening /\ ~strayed => exch = Target(lev)
=============================================================================
