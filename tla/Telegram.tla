------------------------------ MODULE Telegram ------------------------------
(***************************************************************************)
(* How the operator's commands reach the bots' pause flags. Telegram keeps  *)
(* every message until a getUpdates with a higher offset confirms it; the   *)
(* notifier's offset is in memory, so a crash delivers again what was       *)
(* handled and not yet confirmed. One notifier speaks to several bots, each *)
(* with control keys of its own (/pause and /pause_mainnet).               *)
(***************************************************************************)
EXTENDS Naturals, Sequences

CONSTANTS Bots,                 \* the bots whose keys this notifier writes
          MaxSent, MaxCrashes   \* bounds of the instance

TelegramConstants == MaxSent \in Nat /\ MaxCrashes \in Nat

VARIABLES sent,         \* what was written to the chat, in order
          confirmed,    \* Telegram delivers none of the first so many again
          last,         \* _last_update_id
          fetched,      \* the last message of the answer being worked off
          inHand,       \* a command was begun and not ended
          cooling,      \* commands used in the last _command_cooldown_seconds
          paused,       \* the bots' pause flags in Redis
          outcome,      \* history: how the last delivery of a message ended
          crashes       \* for the bound

telegramVars == <<sent, confirmed, last, fetched, inHand, cooling, paused,
                  outcome, crashes>>

(* /pause, /resume and their _mainnet variants. The other commands only     *)
(* answer, but for /flat, whose request is FlatAll's.                      *)
Commands == [pause : BOOLEAN, bot : Bots]

Init == /\ sent = <<>> /\ confirmed = 0 /\ last = 0 /\ fetched = 0
        /\ inHand = FALSE /\ cooling = {} /\ paused \in [Bots -> BOOLEAN]
        /\ outcome = <<>> /\ crashes = 0

Acked == IF last > confirmed THEN last ELSE confirmed

(* Mutant: the answer is confirmed as it is read. *)
AckedUpFront == Len(sent)

(* The offset a getUpdates asks for confirms everything below it.          *)
ConfirmedBy == Acked

(* A message in the operator's chat. Those of other chats are skipped.      *)
Write(c) == /\ Len(sent) < MaxSent
            /\ sent' = Append(sent, c) /\ outcome' = Append(outcome, "none")
            /\ UNCHANGED <<confirmed, last, fetched, inHand, cooling, paused, crashes>>

(* getUpdates: what is not confirmed, in order, or an error.                *)
Poll == /\ ~inHand /\ fetched <= Acked
        /\ confirmed' = ConfirmedBy
        /\ fetched' \in {fetched, Len(sent)}
        /\ UNCHANGED <<sent, last, inHand, cooling, paused, outcome, crashes>>

(* _handle_command: a command sent again too soon gets no answer.           *)
Take == /\ ~inHand /\ Acked < fetched
        /\ last' = Acked + 1
        /\ LET c == sent[last'] IN
             IF c \in cooling
             THEN /\ outcome' = [outcome EXCEPT ![last'] = "dropped"]
                  /\ UNCHANGED <<inHand, cooling>>
             ELSE /\ inHand' = TRUE /\ cooling' = cooling \cup {c}
                  /\ UNCHANGED outcome
        /\ UNCHANGED <<sent, confirmed, fetched, paused, crashes>>

(* set_paused, on the control of the command's bot.                         *)
Asks(c) == [paused EXCEPT ![c.bot] = c.pause]

Obeyed == /\ inHand /\ inHand' = FALSE
          /\ paused' = Asks(sent[last])
          /\ outcome' = [outcome EXCEPT ![last] = "done"]
          /\ UNCHANGED <<sent, confirmed, last, fetched, cooling, crashes>>

(* The handler raised: the write to Redis may have landed all the same.     *)
Failed == /\ inHand /\ inHand' = FALSE
          /\ paused' \in {paused, Asks(sent[last])}
          /\ outcome' = [outcome EXCEPT ![last] = "failed"]
          /\ UNCHANGED <<sent, confirmed, last, fetched, cooling, crashes>>

CooledDown(c) == /\ c \in cooling /\ cooling' = cooling \ {c}
                 /\ UNCHANGED <<sent, confirmed, last, fetched, inHand, paused,
                                outcome, crashes>>

(* The process dies, also between a command's start and its effect.         *)
Crash == /\ crashes < MaxCrashes /\ crashes' = crashes + 1
         /\ last' = 0 /\ fetched' = 0 /\ inHand' = FALSE /\ cooling' = {}
         /\ paused' \in {paused} \cup IF inHand THEN {Asks(sent[last])} ELSE {}
         /\ UNCHANGED <<sent, confirmed, outcome>>

Next == \/ Poll \/ Take \/ Obeyed \/ Failed \/ Crash
        \/ \E c \in Commands : Write(c) \/ CooledDown(c)

Spec == Init /\ [][Next]_telegramVars

-----------------------------------------------------------------------------

TypeOK == /\ sent \in Seq(Commands) /\ Len(sent) <= MaxSent
          /\ {confirmed, last, fetched} \subseteq 0..MaxSent
          /\ inHand \in BOOLEAN /\ cooling \subseteq Commands
          /\ paused \in [Bots -> BOOLEAN] /\ crashes \in 0..MaxCrashes
          /\ outcome \in [1..Len(sent) -> {"none", "done", "dropped", "failed"}]

(* Nothing is in hand, and Telegram has nothing to deliver.                 *)
Quiet == ~inHand /\ Acked = Len(sent)

LastOrder(i) == \A j \in i + 1..Len(sent) : sent[j].bot # sent[i].bot

(* A crash loses no command and repeats none out of order: once all is      *)
(* handled every message had its turn, and a bot's flag is what the last    *)
(* order for it asked, unless Redis or the cooldown refused that one.       *)
LastWordStands ==
    Quiet => \A i \in 1..Len(sent) :
                /\ outcome[i] # "none"
                /\ LastOrder(i) /\ outcome[i] = "done"
                     => paused[sent[i].bot] = sent[i].pause
=============================================================================
