---------------------------- MODULE TradeEngine ----------------------------
(***************************************************************************)
(* The trading bot: boot, ticks, crashes, and the three things a tick does *)
(* to the book - a reconcile pass, a flat-all, and one signal per strategy *)
(* - with the account moving on its own in between.                        *)
(*                                                                         *)
(* A tick is one coroutine: the pass has ended before the flat-all, that   *)
(* before a strategy runs, and one signal before the next.  Only the       *)
(* exchange, the operator and a crash interleave with it.                  *)
(***************************************************************************)
EXTENDS SignalExecution, Reconcile, FlatAll

VARIABLES
    phase,    \* where the process is
    todo,     \* strategies this tick has not evaluated yet
    pending,  \* runner._restore_pending
    ran,      \* history: a strategy has been evaluated since the boot
    steady,   \* history: rows the exchange has backed since a check of them began
    calm,     \* history: since a pass or flat-all began only its own orders moved the account,
              \* and every answer was the truth
    halted    \* history: a flat-all succeeded and nobody un-paused since

engineVars == <<phase, todo, pending>>
vars == <<bookVars, job, unbooked, pass, flatVars, engineVars, ran, steady, calm, halted>>

Phases == {"down", "boot", "restore", "idle", "tick", "flat", "read", "turns"}

Init ==
    /\ BookInit
    /\ job = IdleJob /\ unbooked = FALSE
    /\ pass = IdlePass /\ FlatInit
    /\ phase = "down" /\ todo = {} /\ pending = FALSE
    /\ ran = FALSE /\ steady = {} /\ calm = TRUE /\ halted = FALSE

-----------------------------------------------------------------------------
(* _check_control_state: a hold that has just gone makes opens wait for a  *)
(* pass.                                                                   *)
ControlChecks == {IF holdKey THEN "set" ELSE "none"} \union
                 IF "redis" \in Faults THEN {"unreadable"} ELSE {}

AwaitingAfter(before, found, wait) ==
    IF before # "none" /\ found = "none" /\ wait = "no" THEN "after_clear" ELSE wait

(* A process starts with nothing in memory, and reconciles first. *)
Boot ==
    /\ phase = "down"
    /\ \E found \in ControlChecks : ctl' = found /\ BeginPass(found)
    /\ phase' = "boot"
    /\ UNCHANGED <<account, belief, paused, holdKey, awaiting, job, unbooked, flatVars, todo, pending>>

(* _restore_from_db, and the pause when the rows cannot be read; a bot     *)
(* that cannot pause itself refuses to start.  (A paper bot, which this is *)
(* not, goes on unrestored instead.)                                       *)
Restored == belief' = [s \in Strategies |-> row[s].side]

NotRetried == UNCHANGED belief         \* mutant: the rows are never read again

(* _retry_pending_restore *)
RetriedRestore == IF pending THEN Restored ELSE UNCHANGED belief

Restore ==
    /\ phase = "restore"
    /\ \/ /\ Restored
          /\ phase' = "idle"
          /\ UNCHANGED <<paused, pending, ctl, awaiting>>
       \/ /\ DbFails
          /\ paused' = TRUE /\ pending' = TRUE
          /\ phase' = "idle"
          /\ UNCHANGED <<belief, ctl, awaiting>>
       \/ /\ DbFails /\ "redis" \in Faults
          /\ phase' = "down" /\ ctl' = "none" /\ awaiting' = "first"
          /\ UNCHANGED <<belief, paused, pending>>
    /\ UNCHANGED <<account, holdKey, job, unbooked, pass, flatVars, todo>>

(* A tick starts with the control check, then a pass when one is due       *)
(* (which checks again): always while opens wait for one and the bot is    *)
(* not paused, and when the hold has just gone.                            *)
TickWithPass ==
    /\ phase = "idle"
    /\ \E found \in ControlChecks, again \in ControlChecks :
          /\ ctl' = again
          /\ awaiting' = AwaitingAfter(found, again, AwaitingAfter(ctl, found, awaiting))
          /\ BeginPass(again)
    /\ phase' = "tick"
    /\ UNCHANGED <<account, belief, paused, holdKey, job, unbooked, flatVars, todo, pending>>

TickWithoutPass ==
    /\ phase = "idle"
    /\ \E found \in ControlChecks :
          /\ found = "none" => ctl = "none"
          /\ ctl' = found
    /\ awaiting # "no" => paused \/ "redis" \in Faults
    /\ phase' = "flat"
    /\ UNCHANGED <<account, belief, paused, holdKey, awaiting, job, unbooked, pass,
                   flatVars, todo, pending>>

(* A pending flat-all runs before the strategies; a completed one holds    *)
(* the rest of the tick even if its pause did not reach Redis.             *)
StartFlatAll ==
    /\ phase = "flat"
    /\ BeginFlatAll
    /\ UNCHANGED <<account, belief, control, job, unbooked, pass, engineVars>>

RunFlatAll ==
    /\ FlatStep
    /\ phase' = IF flat'.pc # "idle" THEN phase
                ELSE IF flat.pc = "ack" THEN "idle" ELSE "read"
    /\ UNCHANGED <<job, unbooked, pass, todo, pending>>

(* The paused flag is read once per tick; a pending restore is tried again *)
(* before any strategy runs.                                               *)
ReadPaused ==
    /\ phase = "read" \/ (phase = "flat" /\ flat.pc = "idle" /\ ~Pending)
    /\ UNCHANGED <<account, holdKey, ctl, awaiting, job, unbooked, pass, flatVars>>
    /\ \/ /\ paused \/ "redis" \in Faults
          /\ phase' = "idle"
          /\ UNCHANGED <<paused, belief, todo, pending>>
       \/ /\ ~paused
          /\ RetriedRestore
          /\ pending' = FALSE
          /\ phase' = "turns" /\ todo' = Strategies
          /\ UNCHANGED paused
       \/ /\ ~paused /\ pending /\ DbFails
          /\ paused' \in IF "redis" \in Faults THEN BOOLEAN ELSE {TRUE}
          /\ phase' = "idle"
          /\ UNCHANGED <<belief, todo, pending>>

(* A strategy that signals; the ones that hold are passed over. *)
RunStrategy ==
    /\ phase = "turns"
    /\ \E s \in todo :
          /\ \E want \in Stances : Signal(s, want)
          /\ todo' = todo \ {s}
    /\ UNCHANGED <<pass, flatVars, phase, pending>>

EndTick ==
    /\ phase = "turns" /\ job.pc = "idle"
    /\ phase' = "idle" /\ todo' = {}
    /\ UNCHANGED <<account, belief, control, job, unbooked, pass, flatVars, pending>>

ExecuteSignal == SignalStep /\ UNCHANGED <<pass, flatVars, engineVars>>

ReconcilePass ==
    /\ PassStep
    /\ phase' = IF pass'.pc # "idle" THEN phase
                ELSE IF phase = "boot" THEN "restore" ELSE "flat"
    /\ UNCHANGED <<job, unbooked, flatVars, todo, pending>>

(* The process dies: memory is gone, an order already sent is not. *)
Crash ==
    /\ "crash" \in Faults /\ phase # "down"
    /\ phase' = "down" /\ todo' = {} /\ pending' = FALSE
    /\ job' = IdleJob /\ pass' = IdlePass /\ flat' = IdleFlat
    /\ belief' = [s \in Strategies |-> "flat"]
    /\ ctl' = "none" /\ awaiting' = "first"
    /\ unbooked' = (unbooked \/ job.pc = "book")
    /\ clean' = (clean /\ job.pc # "book" /\ flat.pc # "book")
    /\ UNCHANGED <<row, pos, inflight, lies, paused, holdKey, asked, done>>

Environment ==
    \/ Outside /\ UNCHANGED <<job, unbooked, pass, flatVars, engineVars>>
    \/ RequestFlatAll /\ UNCHANGED <<job, unbooked, pass, engineVars>>

-----------------------------------------------------------------------------
(* History of a check in progress: a reconcile pass, or the two reads that *)
(* follow a close that did not fill.                                       *)
Checking == pass.pc # "idle" \/ job.pc \in {"confirm", "recheck", "settle"}

(* The account stays, or the step is the pass's or flat-all's own: its     *)
(* order fills, at once or while it is polled for.                         *)
OwnMoves == \/ pos' = pos \/ pass' # pass \/ flat' # flat
            \/ (pass.pc = "poll" \/ flat.pc = "poll") /\ inflight' # inflight

BackedRows == {s \in Strategies : Holds(s) /\ Backed(s)}

History ==
    /\ ran' = (phase' # "down" /\ (ran \/ phase' = "turns"))
    /\ steady' = IF ~Checking' THEN {}
                 ELSE IF Checking THEN steady \intersect BackedRows' ELSE BackedRows'
    /\ calm' = \/ pass'.pc = "idle" /\ flat'.pc = "idle"
               \/ pass.pc = "idle" /\ flat.pc = "idle"
               \/ calm /\ lies' = lies /\ OwnMoves
    /\ halted' = (((flat'.pc = "ack" /\ flat.pc # "ack") \/ halted) /\ ~(paused /\ ~paused'))

Step == \/ Boot \/ Restore \/ TickWithPass \/ TickWithoutPass \/ ReadPaused
        \/ StartFlatAll \/ RunFlatAll
        \/ RunStrategy \/ EndTick \/ ExecuteSignal \/ ReconcilePass
        \/ Crash \/ Environment

Next == Step /\ History

Spec == Init /\ [][Next]_vars

(* The run loop never stops ticking and every await of it comes back; a    *)
(* pass is due every five minutes, so one keeps being due.                 *)
BotFairness ==
    /\ WF_vars(Boot /\ History) /\ WF_vars(Restore /\ History)
    /\ WF_vars(ReadPaused /\ History) /\ WF_vars(EndTick /\ History)
    /\ WF_vars(StartFlatAll /\ History) /\ WF_vars(RunFlatAll /\ History)
    /\ WF_vars(ExecuteSignal /\ History) /\ WF_vars(ReconcilePass /\ History)
    /\ SF_vars(TickWithPass /\ History)

LiveSpec == Spec /\ BotFairness

-----------------------------------------------------------------------------
TypeOK ==
    /\ BookTypeOK
    /\ job \in Jobs /\ unbooked \in BOOLEAN
    /\ pass \in Passes /\ FlatTypeOK
    /\ phase \in Phases /\ todo \subseteq Strategies /\ pending \in BOOLEAN
    /\ ran \in BOOLEAN /\ steady \subseteq Strategies /\ calm \in BOOLEAN
    /\ halted \in BOOLEAN

(* HyperLiquid nets a long and a short on one coin into one position, so   *)
(* the rows of two strategies never disagree on a coin's side              *)
(* (_open_refusal's opposite-side gate, across flips and failures).        *)
NoOppositeRows ==
    \A s, t \in Holders : CoinOf[s] = CoinOf[t] => row[s].side = row[t].side

(* Without allow_multi_coin one strategy holds a coin and one of a family  *)
(* holds anything, although a flip gives up its row half-way.              *)
OneHolder ==
    ~AllowMultiCoin =>
       \A s, t \in Holders :
          s # t => /\ CoinOf[s] # CoinOf[t]
                   /\ FamilyOf[s] = NoFamily \/ FamilyOf[s] # FamilyOf[t]

(* The open rows never add up to more than MAX_TOTAL_EXPOSURE_USD. *)
ExposureWithinCap == ExposureCap > 0 => Exposure(Holders) <= ExposureCap

(* While every change of the account was the bot's own and answered, the   *)
(* rows and the exchange agree on every coin whenever nothing is under way *)
(* - whatever filled short, was refused, or was flipped.                   *)
BooksMatch ==
    clean /\ job.pc = "idle" /\ flat.pc # "book" => \A c \in Coins : Net(c) = pos[c]

(* A row whose position the exchange holds throughout is never booked as   *)
(* closed: neither by a reconcile pass nor after a close that did not      *)
(* fill does one partial answer of the exchange suffice.                   *)
BackedRowsStayOpen == [][\A s \in steady : row'[s] # NoRow]_vars

(* A flip that ends without an exception leaves the strategy believing in  *)
(* the position its row has, however its two orders and their checks went. *)
FlipEndsOnRow ==
    [][job.flip /\ job.pc # "raised" /\ job'.pc = "idle" /\ phase' # "down"
       => belief'[job.strat] = row'[job.strat].side]_vars

(* The first strategies a process evaluates believe in exactly the open    *)
(* rows: no boot trades on a memory that was never restored, however often *)
(* the rows could not be read, the operator un-paused or the process died. *)
RestoredBeforeTrading ==
    [][phase' = "turns" /\ ~ran => \A s \in Strategies : belief'[s] = row'[s].side]_vars

(* "We now pause the bot via Redis on any DB-write failure so subsequent   *)
(* ticks can't add more divergent orders" (_execute_signal): a fill that   *)
(* gets no record pauses the bot.                                          *)
UnrecordedFillPauses ==
    [][unbooked' /\ ~unbooked /\ phase' # "down" => paused']_vars

FlatUpToPoll(c, taken) == pos[c] = 0 \/ (c \in taken /\ pos[c] \in {-1, 1})

(* When a pass lets opens resume and nothing else moved the account, every *)
(* traded coin without a row is flat on the exchange, so that the next     *)
(* open nets into nothing; a close that timed out and was taken for filled *)
(* leaves the poll's tolerance of one lot at most.                         *)
CountedPassLeavesNoOrphan ==
    [][pass.pc = "end" /\ pass'.pc = "idle" /\ phase' # "down" /\ Counts /\ calm
       => ctl' = "set" \/ \A c \in Traded :
             HoldersOn(c) = {} => FlatUpToPoll(c, pass.taken)]_vars

(* An acknowledged flat-all means a flat exchange: it was read, every      *)
(* position it showed was closed, and none of the closes was missed - but  *)
(* for the one lot a poll may take for closed.                             *)
FlatAllMeansFlat ==
    [][done' # done /\ calm => \A c \in Coins : FlatUpToPoll(c, flat.taken)]_vars

(* "get EVERY open DB row for this coin" (_flat_all_positions): after an   *)
(* acknowledged flat-all no row is left open.                              *)
FlatAllClosesRows ==
    [][done' # done => Holders = {}]_vars

(* After a flat-all that closed everything no strategy sends an OPEN until *)
(* a human un-pauses the bot: across the tick it ran in, a newer request   *)
(* that fails, and a crash before or after the acknowledgement.            *)
NothingOpensAfterFlatAll ==
    halted => ~(job.leg = "open" /\ job.pc = "send")

(* A row whose position is gone from the exchange does not stay open: some *)
(* reconcile pass or the strategy's own exit books it, unless the account  *)
(* comes to hold that side again.                                          *)
OrphanRowsClosed ==
    \A s \in Strategies : Holds(s) /\ ~Backed(s) ~> ~(Holds(s) /\ ~Backed(s))
=============================================================================
