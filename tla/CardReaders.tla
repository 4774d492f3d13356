------------------------------ MODULE CardReaders ------------------------------
(***************************************************************************)
(* The card reader at the door (cardreader.cpp): the pulses that the       *)
(* reader sends, the interrupt handlers that give them to the Wiegand      *)
(* library, its callbacks, and the main task, which sets all of this up    *)
(* and then polls it from checkDoor().                                     *)
(*                                                                         *)
(* An edge on a line raises an interrupt.  Its handler reads the line when *)
(* it runs: if it runs late, the line may have changed again, and the two  *)
(* edges raise one interrupt only.  Cards are the bits of their IDs.       *)
(***************************************************************************)
EXTENDS Wiegand

CONSTANTS Cards,      \* IDs of cards
          MaxCards,   \* bound on the cards shown to the reader
          MaxFaults   \* bound on what goes wrong: edges that find an interrupt not handled
                      \* yet (a card that is swallowed counts once), cards with one bit
                      \* sent wrong, stray pulses, cables unplugged

ASSUME ReadersAssumption ==
  /\ Cards \subseteq [1..(ExpectedBits - 2) -> Pins]
  /\ {MaxCards, MaxFaults} \subseteq Nat

VARIABLES
  line,      \* the data lines that are high
  tx,        \* bits that the reader still has to send
  attached,  \* the lines that have an interrupt handler
  latched,   \* the lines whose interrupt is still to be handled
  external,  \* the Wiegand object
  newAccess, cardIDRaw, \* set by captureIncomingData()
  messages,  \* connectedMsg, disconnectedMsg, readErrorMsg: those not empty
  main,      \* where the main task is
  clock,     \* of currentMillis and lastFlush: "late" for a flush, "stopped" until loop()
             \* runs, or "runs"
  level,     \* the line that it has read, in initCardReaders()
  shown,     \* the cards shown to the reader (history)
  fate,      \* what became of each of them (history)
  sending,   \* the one whose pulses are on the lines, 0 for a stray pulse (history)
  owner,     \* the one that the bits under way are of (history)
  seen,      \* those of which the object got a bit (history)
  clean,     \* nothing has gone wrong with it (history)
  stale,     \* the object has a line otherwise than it is since the setup (history)
  faults

wires == <<line, latched>>
access == <<newAccess, cardIDRaw>>
task == <<main, clock, level>>
vars == <<wires, tx, attached, external, access, messages, task, shown, fate, sending, owner, seen,
          clean, stale, faults>>

Init ==
  /\ line = Pins /\ tx = <<>>
  /\ attached = {} /\ latched = {}
  /\ external = begin
  /\ newAccess = FALSE /\ cardIDRaw = <<>>
  /\ messages = {}
  /\ main = "attach0" /\ clock = "late" /\ level = FALSE
  /\ shown = <<>> /\ fate = <<>> /\ sending = 0 /\ owner = 0 /\ seen = {}
  /\ clean = FALSE /\ stale = FALSE
  /\ faults = 0

Fault == faults < MaxFaults /\ faults' = faults + 1

Polling == main \in {"check", "copied", "messages", "busy"}

-----------------------------------------------------------------------------
(* The reader *)

\* The parity bits that make a message of the ID of a card.
Message(card) ==
  LET half == (ExpectedBits - 2) \div 2
      Bit(b) == IF b THEN 1 ELSE 0
  IN  <<Bit(Odd(SubSeq(card, 1, half)))>> \o card
        \o <<Bit(~Odd(SubSeq(card, half + 1, Len(card))))>>

\* initCardReaders() is over before people, or milliseconds, get anywhere.
Steady == main = "attach0" \/ Polling

\* A card is shown, and a stray pulse comes, when the last one is over for more
\* than TIMEOUT.
AtRest == tx = <<>> /\ line = Pins /\ latched = {} /\ Steady /\ (external.quiet \/ attached = {})

ShowCard(card) ==
  /\ AtRest /\ Len(shown) < MaxCards
  /\ \/ /\ tx' = Message(card)
        /\ clean' = (Polling /\ ~stale)
        /\ UNCHANGED faults
     \/ /\ \E i \in 1..ExpectedBits : tx' = [Message(card) EXCEPT ![i] = 1 - @]
        /\ clean' = FALSE
        /\ Fault
  /\ shown' = Append(shown, card)
  /\ fate' = Append(fate, IF Polling /\ ~stale THEN "unread" ELSE "tooEarly")
  /\ sending' = Len(shown')
  /\ UNCHANGED <<wires, attached, external, access, messages, task, owner, seen, stale>>

StrayPulse(pin) ==
  /\ AtRest
  /\ Fault
  /\ tx' = <<pin>>
  /\ sending' = 0
  /\ UNCHANGED <<wires, attached, external, access, messages, task, shown, fate, owner, seen,
                 clean, stale>>

\* Handlers that are late from the beginning of a card may stay so to its end, for one
\* fault: the object gets no bit of it.
Swallowed == sending # 0 /\ ~clean /\ fate[sending] = "unread" /\ sending \notin seen

\* An edge comes late for the handlers when an interrupt is still to be handled.
Edges(now) ==
  /\ line' = now
  /\ latched' = latched \cup (attached \cap ((now \ line) \cup (line \ now)))
  /\ IF latched = {}
       THEN UNCHANGED <<faults, clean>>
       ELSE (IF Swallowed THEN UNCHANGED faults ELSE Fault) /\ clean' = FALSE
  /\ UNCHANGED <<attached, external, access, messages, task, shown, sending, owner, seen, stale>>

PulseBegins ==
  /\ tx # <<>> /\ line = Pins
  /\ Edges(Pins \ {Head(tx)})
  /\ UNCHANGED <<tx, fate>>

PulseEnds ==
  /\ line \notin {{}, Pins}
  /\ Edges(Pins)
  /\ tx' = Tail(tx)
  /\ UNCHANGED fate

\* Without power both lines are low, and a card that was being sent is cut off.
Unplug ==
  /\ line # {} /\ latched = {} /\ Steady
  /\ Fault
  /\ line' = {}
  /\ latched' = attached \cap line
  /\ tx' = <<>>
  /\ fate' = [n \in DOMAIN fate |-> IF n = sending /\ tx # <<>> THEN "cutOff" ELSE fate[n]]
  /\ clean' = FALSE
  /\ UNCHANGED <<attached, external, access, messages, task, shown, sending, owner, seen, stale>>

Plug ==
  /\ line = {} /\ latched = {} /\ Steady
  /\ Edges(Pins)
  /\ UNCHANGED <<tx, fate>>

\* More than TIMEOUT goes by and no line changes.
Pause ==
  /\ tx = <<>> /\ latched = {} /\ Steady
  /\ ~external.quiet
  /\ external' = [external EXCEPT !.quiet = TRUE]
  /\ UNCHANGED <<wires, tx, attached, access, messages, task, shown, fate, sending, owner, seen,
                 clean, stale, faults>>

-----------------------------------------------------------------------------
(* The callbacks *)

\* captureIncomingData(): a card that is there already is forgotten.
captureIncomingData(card) ==
  /\ newAccess' = TRUE
  /\ cardIDRaw' = card
  /\ fate' = [n \in DOMAIN fate |->
                IF n = sending THEN "read" ELSE IF fate[n] = "read" THEN "replaced" ELSE fate[n]]

Fails(card) ==
  fate' = [n \in DOMAIN fate |-> IF n = card /\ fate[n] = "unread" THEN "failed" ELSE fate[n]]

\* stateChanged() and receivedDataError() leave a message for the main task.
Leave(message) ==
  /\ messages' = messages \cup message
  /\ UNCHANGED access

Callbacks(o) ==
  LET verdict == flushData(o.flushed)
      stateMessage == IF o.state = "same" THEN {} ELSE {o.state}
  IN  /\ external' = o.after
      /\ owner' = CASE o.after.bits = <<>> -> 0
                    [] Len(o.after.bits) > Len(external.bits) -> sending
                    [] OTHER -> owner
      /\ seen' = IF Len(o.after.bits) > Len(external.bits) THEN seen \cup {sending} ELSE seen
      /\ CASE verdict = "data" ->
                captureIncomingData(Payload(o.flushed)) /\ messages' = messages \cup stateMessage
           [] verdict = "error" -> Leave(stateMessage \cup {"readError"}) /\ Fails(owner)
           [] verdict = "ignored" -> Leave(stateMessage) /\ UNCHANGED fate

-----------------------------------------------------------------------------
(* The interrupt handlers, which read the line *)

setExternalPinState(pin) ==
  /\ pin \in latched
  /\ latched' = latched \ {pin}
  /\ Callbacks(setPinState(external, pin, pin \in line))
  /\ stale' = (stale /\ external'.high # line)
  /\ UNCHANGED <<line, tx, attached, task, shown, sending, clean, faults>>

-----------------------------------------------------------------------------
(* The main task *)

MainGoes(from, to) ==
  /\ main = from
  /\ main' = to
  /\ UNCHANGED <<line, tx, latched, shown, sending, clean, faults>>

\* initCardReaders(): the handlers first, and then the lines as they are, which
\* an interrupt may come in between.
AttachInterrupt(pin, from, to) ==
  /\ MainGoes(from, to)
  /\ attached' = attached \cup {pin}
  /\ UNCHANGED <<external, access, messages, clock, level, fate, owner, seen, stale>>

ReadLine(pin, from, to) ==
  /\ MainGoes(from, to)
  /\ level' = (pin \in line)
  /\ UNCHANGED <<attached, external, access, messages, clock, fate, owner, seen, stale>>

RegisterLine(pin, from, to) ==
  /\ MainGoes(from, to)
  /\ Callbacks(setPinState(external, pin, level))
  /\ stale' = (stale \/ level # (pin \in line))
  /\ level' = FALSE
  /\ UNCHANGED <<attached, clock>>

initCardReaders ==
  \/ AttachInterrupt(0, "attach0", "attach1") \/ AttachInterrupt(1, "attach1", "read0")
  \/ ReadLine(0, "read0", "set0") \/ RegisterLine(0, "set0", "read1")
  \/ ReadLine(1, "read1", "set1") \/ RegisterLine(1, "set1", "check")

\* checkCardReaders() returns a card, and the door opens or not.  Module Access
\* has this in detail.
CopyCard ==
  /\ MainGoes("check", "copied")
  /\ newAccess
  /\ fate' = [n \in DOMAIN fate |-> IF fate[n] = "read" THEN "answered" ELSE fate[n]]
  /\ UNCHANGED <<attached, external, access, messages, clock, level, owner, seen, stale>>

\* lastFlush = currentMillis, which setup() does not advance while it waits for the
\* time: until loop() runs, the readers are flushed once at most.
Flushed == clock' = IF clock = "late" THEN "stopped" ELSE clock

\* A card that an interrupt has read in between is forgotten.
ClearNewAccess ==
  /\ MainGoes("copied", "busy")
  /\ Flushed
  /\ newAccess' = FALSE
  /\ fate' = [n \in DOMAIN fate |-> IF fate[n] = "read" THEN "forgotten" ELSE fate[n]]
  /\ UNCHANGED <<attached, external, cardIDRaw, messages, level, owner, seen, stale>>

\* With interrupts disabled, every 20 ms.
FlushReaders ==
  /\ MainGoes("check", "messages")
  /\ ~newAccess
  /\ clock # "stopped"
  /\ Flushed
  /\ Callbacks(flush(external))
  /\ UNCHANGED <<attached, level, stale>>

\* Each message is logged and emptied.  An error message that an interrupt writes in
\* between is lost for the log; blinkError(), which takes a second, comes after it.
LogMessages ==
  /\ MainGoes("messages", IF "readError" \in messages THEN "busy" ELSE "check")
  /\ messages' = {}
  /\ fate' = [n \in DOMAIN fate |-> IF fate[n] = "failed" /\ "readError" \in messages THEN "reported" ELSE fate[n]]
  /\ UNCHANGED <<attached, external, access, clock, level, owner, seen, stale>>

Ready ==
  /\ MainGoes("busy", "check")
  /\ UNCHANGED <<attached, external, access, messages, clock, level, fate, owner, seen, stale>>

\* Mutant: loop() does not set currentMillis.
StartLoop_Stopped ==
  /\ MainGoes("check", "check")
  /\ clock = "late" /\ clock' = "stopped"
  /\ UNCHANGED <<attached, external, access, messages, level, fate, owner, seen, stale>>

\* setup() is done.
StartLoop ==
  /\ MainGoes("check", "check")
  /\ clock # "runs" /\ clock' = "runs"
  /\ UNCHANGED <<attached, external, access, messages, level, fate, owner, seen, stale>>

checkCardReaders == CopyCard \/ ClearNewAccess \/ FlushReaders \/ LogMessages \/ Ready

-----------------------------------------------------------------------------
Interrupt == \E pin \in Pins : setExternalPinState(pin)

Reader == PulseBegins \/ PulseEnds \/ Plug

Next ==
  \/ \E card \in Cards : ShowCard(card)
  \/ \E pin \in Pins : StrayPulse(pin)
  \/ Reader
  \/ Unplug
  \/ Pause
  \/ Interrupt
  \/ initCardReaders
  \/ checkCardReaders
  \/ StartLoop

Spec == Init /\ [][Next]_vars

\* A card is sent to its end, interrupts are handled, time goes by, and the main
\* task runs; setup() waits for the time no longer than two minutes.
FairSpec ==
  /\ Spec
  /\ WF_vars(Reader) /\ WF_vars(Interrupt) /\ WF_vars(Pause)
  /\ WF_vars(initCardReaders) /\ WF_vars(checkCardReaders) /\ SF_vars(StartLoop)

-----------------------------------------------------------------------------
TypeOK ==
  /\ line \subseteq Pins /\ attached \subseteq Pins /\ latched \subseteq attached
  /\ external \in WiegandObject
  /\ newAccess \in BOOLEAN
  /\ cardIDRaw \in Cards \cup {<<>>}
  /\ messages \subseteq {"plugged", "unplugged", "readError"}
  /\ Len(shown) <= MaxCards
  /\ fate \in [1..Len(shown) ->
                 {"tooEarly", "cutOff", "unread", "read", "replaced", "answered", "forgotten", "failed",
                  "reported"}]

Delivers == newAccess' /\ access' # access

\* cardreader.cpp:59-73, the callbacks for a card: the ID that is left for the
\* main task is that of the card being shown, whatever was missed of an earlier
\* one and with stray pulses and wrong bits, and it is left once.
OnlyShownCards ==
  [][Delivers => sending # 0 /\ cardIDRaw' = shown[sending]
              /\ fate[sending] \in {"unread", "tooEarly"}]_vars

\* Wiegand.cpp:56, "so that data can only be received after a few millis in ready
\* state": the reader recovers from whatever happened before by the time that the
\* next card is shown; a card none of whose edges came late is read.  (From a
\* line that initCardReaders() registered as low when it was no longer, it recovers
\* with the next pulse on that line only, and the next card is lost.)
GoodCardsAreRead ==
  clean /\ sending # 0 /\ tx = <<>> /\ latched = {} =>
    fate[sending] \in {"read", "answered", "forgotten"}

\* Nobody waits in vain at the door: every card of which the object got a bit is
\* answered, or replaced by the next one, or there is an error message (and
\* blinkError()) for it.  The exception is a card whose last pulse comes as
\* checkCardReaders() takes the one before it.  (With the handlers late for the whole
\* of a card the object gets no bit of it, and nothing comes of it.)
EveryCardHasAnAnswer ==
  \A n \in 1..MaxCards :
    n \in seen ~>
      Len(shown) >= n /\ fate[n] \in {"tooEarly", "cutOff", "replaced", "answered", "forgotten", "reported"}
================================================================================
