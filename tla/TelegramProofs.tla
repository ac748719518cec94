---------------------------- MODULE TelegramProofs ----------------------------
(***************************************************************************)
(* The operator's last word stands, for every chat, set of bots and number *)
(* of crashes. The argument rests on what is handled: a crash takes the    *)
(* handled part back to what Telegram was told, and the flags are judged   *)
(* there only for orders that no later one overrides.                      *)
(***************************************************************************)
EXTENDS Telegram, TLAPS, SequenceTheorems

Outcomes == {"none", "done", "dropped", "failed"}

Typed ==
    /\ sent \in Seq(Commands)
    /\ outcome \in Seq(Outcomes) /\ Len(outcome) = Len(sent) /\ Len(sent) <= MaxSent
    /\ confirmed \in Nat /\ last \in Nat /\ fetched \in Nat
    /\ confirmed <= Len(sent) /\ last <= Len(sent) /\ fetched <= Len(sent)
    /\ inHand \in BOOLEAN /\ cooling \subseteq Commands
    /\ paused \in [Bots -> BOOLEAN] /\ crashes \in 0..MaxCrashes

(* What Telegram was told is handled: a command in hand lies beyond it.    *)
HandBeyond == inHand => confirmed < last

Handled == IF inHand THEN last - 1 ELSE Acked

AllHadTheirTurn == \A i \in 1..Len(sent) : i <= Handled => outcome[i] # "none"

FlagsObey == \A i \in 1..Len(sent) :
                i <= Handled /\ LastOrder(i) /\ outcome[i] = "done"
                   => paused[sent[i].bot] = sent[i].pause

WordInv == HandBeyond /\ AllHadTheirTurn /\ FlagsObey

-----------------------------------------------------------------------------
LEMMA AckedType ==
  ASSUME Typed
  PROVE  /\ Acked \in Nat /\ Acked <= Len(sent) /\ confirmed <= Acked /\ last <= Acked
         /\ Acked \in {last, confirmed} /\ Len(sent) \in Nat
         /\ \A i \in 1..Len(sent) : sent[i] \in Commands /\ sent[i].bot \in Bots
                                    /\ sent[i].pause \in BOOLEAN
<1>1. Len(sent) \in Nat /\ \A i \in 1..Len(sent) : sent[i] \in Commands
  BY LenProperties, ElementOfSeq DEF Typed
<1>2. \A c \in Commands : c.bot \in Bots
  BY DEF Commands
<1>3. \A c \in Commands : c.pause \in BOOLEAN
  BY DEF Commands
<1> QED
  BY <1>1, <1>2, <1>3 DEF Typed, Acked

(* A command taken from the answer is one that was written.                *)
LEMMA TakenType ==
  ASSUME Typed, Take
  PROVE  /\ last' = Acked + 1 /\ last' \in 1..Len(sent) /\ sent[last'] \in Commands
         /\ Acked < fetched /\ ~inHand
         /\ UNCHANGED <<sent, confirmed, fetched, paused, crashes>>
         /\ \/ /\ outcome' = [outcome EXCEPT ![last'] = "dropped"]
               /\ UNCHANGED <<inHand, cooling>>
            \/ /\ inHand' = TRUE /\ cooling' = cooling \cup {sent[last']}
               /\ UNCHANGED outcome
<1>1. last' = Acked + 1 /\ Acked < fetched /\ fetched <= Len(sent) /\ fetched \in Nat
  BY DEF Take, Typed
<1>2. last' \in 1..Len(sent)
  BY <1>1, AckedType
<1> QED
  BY <1>1, <1>2, AckedType DEF Take

(* What a handler asks of a flag keeps the type of the flags.              *)
LEMMA AskedType ==
  ASSUME Typed, NEW c \in Commands
  PROVE  /\ Asks(c) \in [Bots -> BOOLEAN] /\ Asks(c)[c.bot] = c.pause
         /\ \A b \in Bots : b # c.bot => Asks(c)[b] = paused[b]
<1>1. c.bot \in Bots
  BY DEF Commands
<1>2. c.pause \in BOOLEAN
  BY DEF Commands
<1> QED
  BY <1>1, <1>2 DEF Asks, Typed

LEMMA OutcomeSet ==
  ASSUME Typed, NEW i \in 1..Len(sent), NEW o \in Outcomes
  PROVE  /\ [outcome EXCEPT ![i] = o] \in Seq(Outcomes)
         /\ Len([outcome EXCEPT ![i] = o]) = Len(sent)
         /\ [outcome EXCEPT ![i] = o][i] = o
         /\ \A j \in 1..Len(sent) : j # i => [outcome EXCEPT ![i] = o][j] = outcome[j]
<1>1. i \in 1..Len(outcome) /\ outcome \in Seq(Outcomes) /\ Len(outcome) = Len(sent)
  BY DEF Typed
<1> QED
  BY <1>1, ExceptSeq, LenProperties

(* A handler that ends has a command in hand.                              *)
LEMMA InHandType ==
  ASSUME Typed, HandBeyond, inHand
  PROVE  last \in 1..Len(sent) /\ sent[last] \in Commands /\ Acked = last /\ Handled = last - 1
<1>1. confirmed < last /\ confirmed \in Nat /\ last \in Nat /\ last <= Len(sent)
  BY DEF Typed, HandBeyond
<1>2. last \in 1..Len(sent)
  BY <1>1, AckedType
<1> QED
  BY <1>1, <1>2, AckedType DEF Acked, Handled

LEMMA NextTyped ==
  ASSUME TelegramConstants, Typed, HandBeyond, [Next]_telegramVars PROVE Typed' /\ HandBeyond'
<1>0. MaxSent \in Nat /\ MaxCrashes \in Nat /\ crashes \in 0..MaxCrashes
  BY DEF TelegramConstants, Typed
<1>1. CASE Poll
  BY <1>1, AckedType DEF Poll, Typed, HandBeyond, ConfirmedBy
<1>2. CASE Take
  <2>1. /\ last' \in 1..Len(sent) /\ last' = Acked + 1 /\ sent[last'] \in Commands
        /\ UNCHANGED <<sent, confirmed, fetched, paused, crashes>>
    BY <1>2, TakenType
  <2>2. HandBeyond'
    BY <2>1, AckedType DEF HandBeyond, Typed
  <2>3. CASE outcome' = [outcome EXCEPT ![last'] = "dropped"] /\ UNCHANGED <<inHand, cooling>>
    <3>1. outcome' \in Seq(Outcomes) /\ Len(outcome') = Len(sent)
      BY <2>1, <2>3, OutcomeSet DEF Outcomes
    <3> QED
      BY <2>1, <2>2, <2>3, <3>1 DEF Typed
  <2>4. CASE inHand' = TRUE /\ cooling' = cooling \cup {sent[last']} /\ UNCHANGED outcome
    BY <2>1, <2>2, <2>4 DEF Typed
  <2> QED
    BY <1>2, <2>3, <2>4, TakenType
<1>3. CASE Obeyed \/ Failed
  <2>1. /\ inHand /\ inHand' = FALSE
        /\ paused' \in {paused, Asks(sent[last])}
        /\ \/ outcome' = [outcome EXCEPT ![last] = "done"]
           \/ outcome' = [outcome EXCEPT ![last] = "failed"]
        /\ UNCHANGED <<sent, confirmed, last, fetched, cooling, crashes>>
    BY <1>3 DEF Obeyed, Failed
  <2>2. last \in 1..Len(sent) /\ sent[last] \in Commands
    BY <2>1, InHandType
  <2>3. outcome' \in Seq(Outcomes) /\ Len(outcome') = Len(sent)
    BY <2>1, <2>2, OutcomeSet DEF Outcomes
  <2>4. paused' \in [Bots -> BOOLEAN]
    BY <2>1, <2>2, AskedType DEF Typed
  <2> QED
    BY <2>1, <2>3, <2>4 DEF Typed, HandBeyond
<1>4. CASE Crash
  <2>1. paused' \in [Bots -> BOOLEAN]
    <3>1. CASE paused' = paused
      BY <3>1 DEF Typed
    <3>2. CASE inHand /\ paused' = Asks(sent[last])
      BY <3>2, InHandType, AskedType
    <3> QED
      BY <1>4, <3>1, <3>2 DEF Crash
  <2>2. crashes' \in 0..MaxCrashes /\ inHand' = FALSE /\ last' = 0 /\ fetched' = 0 /\ cooling' = {}
        /\ UNCHANGED <<sent, confirmed, outcome>>
    BY <1>0, <1>4 DEF Crash
  <2>3. last' \in Nat /\ fetched' \in Nat /\ last' <= Len(sent) /\ fetched' <= Len(sent)
    BY <2>2, AckedType
  <2>4. inHand' \in BOOLEAN /\ cooling' \subseteq Commands
    BY <2>2
  <2> QED
    BY <2>1, <2>2, <2>3, <2>4 DEF Typed, HandBeyond
<1>5. ASSUME NEW c \in Commands, Write(c) PROVE Typed' /\ HandBeyond'
  <2>1. /\ Len(sent) < MaxSent /\ sent' = Append(sent, c) /\ outcome' = Append(outcome, "none")
        /\ UNCHANGED <<confirmed, last, fetched, inHand, cooling, paused, crashes>>
    BY <1>5 DEF Write
  <2>2. sent' \in Seq(Commands) /\ Len(sent') = Len(sent) + 1
    BY <2>1, AppendProperties DEF Typed
  <2>3. outcome' \in Seq(Outcomes) /\ Len(outcome') = Len(outcome) + 1
    BY <2>1, AppendProperties DEF Typed, Outcomes
  <2> QED
    BY <1>0, <2>1, <2>2, <2>3, AckedType DEF Typed, HandBeyond
<1>6. ASSUME NEW c \in Commands, CooledDown(c) PROVE Typed' /\ HandBeyond'
  BY <1>6 DEF CooledDown, Typed, HandBeyond
<1>7. CASE UNCHANGED telegramVars
  BY <1>7 DEF telegramVars, Typed, HandBeyond
<1> QED
  BY <1>1, <1>2, <1>3, <1>4, <1>5, <1>6, <1>7 DEF Next

(* Nothing is handled that the step before did not handle, but for the one  *)
(* command whose turn it is; a crash only takes handled ones back.         *)
LEMMA NextWord ==
  ASSUME TelegramConstants, Typed, WordInv, [Next]_telegramVars
  PROVE  AllHadTheirTurn' /\ FlagsObey'
<1>0. /\ Acked \in Nat /\ confirmed <= Acked /\ Acked <= Len(sent) /\ Len(sent) \in Nat
      /\ confirmed \in Nat /\ last \in Nat /\ Handled \in Int
      /\ \A i \in 1..Len(sent) : sent[i] \in Commands /\ sent[i].bot \in Bots
  BY AckedType DEF Typed, Handled
(* Steps that leave what was written and how it ended as it is. *)
<1>1. ASSUME UNCHANGED <<sent, outcome>>, Handled' \in Int, Handled' <= Handled,
             \A i \in 1..Len(sent) : i <= Handled' /\ LastOrder(i)
                                     => paused'[sent[i].bot] = paused[sent[i].bot]
      PROVE  AllHadTheirTurn' /\ FlagsObey'
  <2>1. AllHadTheirTurn'
    BY <1>0, <1>1 DEF WordInv, AllHadTheirTurn
  <2>2. \A i \in 1..Len(sent) : LastOrder(i)' <=> LastOrder(i)
    BY <1>1 DEF LastOrder
  <2>3. FlagsObey'
    <3> SUFFICES ASSUME NEW i \in 1..Len(sent), i <= Handled', LastOrder(i), outcome[i] = "done"
                 PROVE  paused'[sent[i].bot] = sent[i].pause
      BY <1>1, <2>2 DEF FlagsObey
    <3> QED
      BY <1>0, <1>1 DEF WordInv, FlagsObey
  <2> QED
    BY <2>1, <2>3
(* Steps that handle the command whose turn it is. *)
<1>2. ASSUME NEW n \in 1..Len(sent), n = Handled + 1, Handled' = n, NEW o \in Outcomes, o # "none",
             outcome' = [outcome EXCEPT ![n] = o], UNCHANGED sent,
             \A b \in Bots : b # sent[n].bot => paused'[b] = paused[b],
             o = "done" => paused'[sent[n].bot] = sent[n].pause
      PROVE  AllHadTheirTurn' /\ FlagsObey'
  <2>1. outcome'[n] = o /\ \A i \in 1..Len(sent) : i # n => outcome'[i] = outcome[i]
    BY <1>2, OutcomeSet
  <2>2. \A i \in 1..Len(sent) : i <= Handled' => i = n \/ i <= Handled
    BY <1>0, <1>2
  <2>3. AllHadTheirTurn'
    BY <1>2, <2>1, <2>2 DEF WordInv, AllHadTheirTurn
  <2>4. \A i \in 1..Len(sent) : LastOrder(i)' <=> LastOrder(i)
    BY <1>2 DEF LastOrder
  <2>5. FlagsObey'
    <3> SUFFICES ASSUME NEW i \in 1..Len(sent), i <= Handled', LastOrder(i), outcome'[i] = "done"
                 PROVE  paused'[sent[i].bot] = sent[i].pause
      BY <1>2, <2>4 DEF FlagsObey
    <3>1. CASE i = n
      BY <1>2, <2>1, <3>1
    <3>2. CASE i # n
      <4>1. i <= Handled /\ outcome[i] = "done"
        BY <2>1, <2>2, <3>2
      <4>2. n \in i + 1..Len(sent)
        BY <1>0, <1>2, <4>1
      <4>3. sent[i].bot # sent[n].bot /\ sent[i].bot \in Bots
        BY <1>0, <4>2 DEF LastOrder
      <4> QED
        BY <1>2, <4>1, <4>3 DEF WordInv, FlagsObey
    <3> QED
      BY <3>1, <3>2
  <2> QED
    BY <2>3, <2>5
<1>3. CASE Poll
  <2>1. Handled' = Handled
    <3>1. confirmed' = Acked /\ UNCHANGED <<last, inHand>> /\ ~inHand
      BY <1>3 DEF Poll, ConfirmedBy
    <3>2. Acked' = Acked
      BY <1>0, <3>1, AckedType DEF Acked
    <3> QED
      BY <3>1, <3>2 DEF Handled
  <2> QED
    BY <1>0, <1>1, <1>3, <2>1 DEF Poll
<1>4. CASE Take
  <2>1. /\ last' \in 1..Len(sent) /\ last' = Acked + 1 /\ ~inHand /\ Handled = Acked
        /\ UNCHANGED <<sent, confirmed, fetched, paused, crashes>>
    BY <1>4, TakenType DEF Handled
  <2>2. Acked' = last'
    BY <1>0, <2>1 DEF Acked
  <2>3. CASE outcome' = [outcome EXCEPT ![last'] = "dropped"] /\ UNCHANGED <<inHand, cooling>>
    <3>1. Handled' = last'
      BY <2>1, <2>2, <2>3 DEF Handled
    <3>2. "dropped" \in Outcomes /\ last' = Handled + 1
      BY <2>1 DEF Outcomes
    <3> QED
      BY <1>2, <2>1, <2>3, <3>1, <3>2
  <2>4. CASE inHand' = TRUE /\ UNCHANGED outcome
    <3>1. Handled' = Handled
      BY <1>0, <2>1, <2>2, <2>4 DEF Handled
    <3> QED
      BY <1>0, <1>1, <2>1, <2>4, <3>1
  <2> QED
    BY <1>4, <2>3, <2>4, TakenType
<1>5. ASSUME NEW o \in {"done", "failed"}, inHand, inHand' = FALSE,
             outcome' = [outcome EXCEPT ![last] = o], UNCHANGED <<sent, confirmed, last>>,
             \/ paused' = Asks(sent[last])
             \/ paused' = paused /\ o = "failed"
      PROVE  AllHadTheirTurn' /\ FlagsObey'
  <2>1. last \in 1..Len(sent) /\ sent[last] \in Commands /\ Acked = last /\ Handled = last - 1
    BY <1>5, InHandType DEF WordInv
  <2>2. Handled' = last /\ last = Handled + 1
    BY <1>0, <1>5, <2>1 DEF Handled, Acked
  <2>3. /\ \A b \in Bots : b # sent[last].bot => paused'[b] = paused[b]
        /\ o = "done" => paused'[sent[last].bot] = sent[last].pause
    BY <1>5, <2>1, AskedType
  <2>4. o \in Outcomes /\ o # "none"
    BY DEF Outcomes
  <2> QED
    BY <1>2, <1>5, <2>1, <2>2, <2>3, <2>4
<1>6. CASE Obeyed
  BY <1>5, <1>6 DEF Obeyed
<1>7. CASE Failed
  BY <1>5, <1>7 DEF Failed
<1>8. CASE Crash
  <2>1. last' = 0 /\ inHand' = FALSE /\ UNCHANGED <<sent, confirmed, outcome>>
    BY <1>8 DEF Crash
  <2>2. Handled' = confirmed
    BY <1>0, <2>1 DEF Handled, Acked
  <2>3. confirmed <= Handled
    BY <1>0 DEF WordInv, HandBeyond, Handled
  <2>4. ASSUME NEW i \in 1..Len(sent), i <= confirmed, LastOrder(i)
        PROVE  paused'[sent[i].bot] = paused[sent[i].bot]
    <3>1. CASE paused' = paused
      BY <3>1
    <3>2. CASE inHand /\ paused' = Asks(sent[last])
      <4>1. last \in 1..Len(sent) /\ sent[last] \in Commands /\ confirmed < last
        BY <3>2, InHandType DEF WordInv, HandBeyond
      <4>2. last \in i + 1..Len(sent)
        BY <1>0, <2>4, <4>1
      <4>3. sent[i].bot # sent[last].bot /\ sent[i].bot \in Bots
        BY <1>0, <2>4, <4>2 DEF LastOrder
      <4> QED
        BY <3>2, <4>1, <4>3, AskedType
    <3> QED
      BY <1>8, <3>1, <3>2 DEF Crash
  <2> QED
    BY <1>0, <1>1, <2>1, <2>2, <2>3, <2>4
<1>9. ASSUME NEW c \in Commands, Write(c) PROVE AllHadTheirTurn' /\ FlagsObey'
  <2>1. /\ sent' = Append(sent, c) /\ outcome' = Append(outcome, "none")
        /\ UNCHANGED <<confirmed, last, fetched, inHand, cooling, paused, crashes>>
    BY <1>9 DEF Write
  <2>2. /\ Len(sent') = Len(sent) + 1
        /\ \A i \in 1..Len(sent) : sent'[i] = sent[i] /\ outcome'[i] = outcome[i]
    BY <2>1, AppendProperties DEF Typed
  <2>3. Handled' = Handled /\ Handled <= Len(sent)
    <3>1. Acked' = Acked
      BY <2>1 DEF Acked
    <3> QED
      BY <1>0, <2>1, <3>1 DEF Handled, Typed
  <2>4. \A i \in 1..Len(sent') : i <= Handled => i \in 1..Len(sent)
    BY <1>0, <2>2, <2>3
  <2>5. AllHadTheirTurn'
    BY <2>2, <2>3, <2>4 DEF WordInv, AllHadTheirTurn
  <2>6. ASSUME NEW i \in 1..Len(sent), LastOrder(i)' PROVE LastOrder(i)
    <3> SUFFICES ASSUME NEW j \in i + 1..Len(sent) PROVE sent[j].bot # sent[i].bot
      BY DEF LastOrder
    <3>1. j \in i + 1..Len(sent') /\ j \in 1..Len(sent)
      BY <1>0, <2>2
    <3> QED
      BY <2>2, <2>6, <3>1 DEF LastOrder
  <2>7. FlagsObey'
    <3> SUFFICES ASSUME NEW i \in 1..Len(sent'), i <= Handled', LastOrder(i)',
                        outcome'[i] = "done"
                 PROVE  paused'[sent'[i].bot] = sent'[i].pause
      BY DEF FlagsObey
    <3> QED
      BY <2>1, <2>2, <2>3, <2>4, <2>6 DEF WordInv, FlagsObey
  <2> QED
    BY <2>5, <2>7
<1>10. CASE (\E c \in Commands : CooledDown(c)) \/ UNCHANGED telegramVars
  <2>1. UNCHANGED <<sent, outcome, paused, last, confirmed, inHand>>
    BY <1>10 DEF CooledDown, telegramVars
  <2>2. Handled' = Handled
    BY <2>1 DEF Handled, Acked
  <2> QED
    BY <1>0, <1>1, <2>1, <2>2
<1> QED
  BY <1>3, <1>4, <1>6, <1>7, <1>8, <1>9, <1>10 DEF Next

LEMMA WordKept == ASSUME TelegramConstants PROVE Spec => [](Typed /\ WordInv)
<1>1. Init => Typed /\ WordInv
  <2> SUFFICES ASSUME Init PROVE Typed /\ WordInv
    OBVIOUS
  <2>1. sent = <<>> /\ outcome = <<>> /\ Len(sent) = 0 /\ Len(outcome) = 0
    BY EmptySeq DEF Init
  <2>2. 0 \in 0..MaxCrashes /\ 0 <= MaxSent
    BY DEF TelegramConstants
  <2>3. sent \in Seq(Commands) /\ outcome \in Seq(Outcomes)
    BY <2>1, EmptySeq
  <2>4. inHand \in BOOLEAN /\ cooling \subseteq Commands /\ crashes \in 0..MaxCrashes
    BY <2>2 DEF Init
  <2>5. Len(sent) <= MaxSent /\ confirmed <= Len(sent) /\ last <= Len(sent) /\ fetched <= Len(sent)
    BY <2>1, <2>2 DEF Init
  <2>6. Typed
    BY <2>1, <2>3, <2>4, <2>5 DEF Init, Typed
  <2>7. WordInv
    BY <2>1 DEF Init, WordInv, HandBeyond, AllHadTheirTurn, FlagsObey
  <2> QED
    BY <2>6, <2>7
<1>2. Typed /\ WordInv /\ [Next]_telegramVars => Typed' /\ WordInv'
  BY NextTyped, NextWord DEF WordInv
<1> QED
  BY <1>1, <1>2, PTL DEF Spec

(* Every message is a command, and no offset goes past what was written.   *)
THEOREM ChatTypes == ASSUME TelegramConstants PROVE Spec => []TypeOK
<1>1. Typed => TypeOK
  <2> SUFFICES ASSUME Typed PROVE TypeOK
    OBVIOUS
  <2>1. {confirmed, last, fetched} \subseteq 0..MaxSent
    BY AckedType DEF Typed, TelegramConstants
  <2>2. outcome \in [1..Len(sent) -> Outcomes]
    BY LenProperties DEF Typed
  <2> QED
    BY <2>1, <2>2 DEF Typed, TypeOK, Outcomes
<1> QED
  BY <1>1, WordKept, PTL

(* A crash loses no command and repeats none out of order: once all is      *)
(* handled every message had its turn, and a bot's flag is what the last    *)
(* order for it asked, unless Redis or the cooldown refused that one       *)
(* (_poll_loop, _handle_command).                                          *)
THEOREM LastWord == ASSUME TelegramConstants PROVE Spec => []LastWordStands
<1>1. Typed /\ WordInv => LastWordStands
  <2> SUFFICES ASSUME Typed, WordInv, Quiet, NEW i \in 1..Len(sent)
               PROVE  /\ outcome[i] # "none"
                      /\ LastOrder(i) /\ outcome[i] = "done"
                           => paused[sent[i].bot] = sent[i].pause
    BY DEF LastWordStands
  <2>1. i <= Handled
    BY AckedType DEF Quiet, Handled
  <2> QED
    BY <2>1 DEF WordInv, AllHadTheirTurn, FlagsObey
<1> QED
  BY <1>1, WordKept, PTL
=============================================================================
