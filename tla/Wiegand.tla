-------------------------------- MODULE Wiegand --------------------------------
(***************************************************************************)
(* The Wiegand library, which the controller keeps a modified copy of      *)
(* (lib/YetAnotherArduinoWiegandLibrary-master): what an object makes of   *)
(* the edges on the two data lines of a card reader.  The lines are high   *)
(* at rest, and a short pulse on D0 or D1 sends a 0 or a 1.                *)
(*                                                                         *)
(* The controller calls begin(34, true): the messages have ExpectedBits    *)
(* bits, the first and the last of them for parity, and neither other      *)
(* formats nor more than MAX_BITS bits ever come to be.                    *)
(***************************************************************************)
EXTENDS Naturals, Sequences, FiniteSets

CONSTANT ExpectedBits  \* 34

ASSUME WiegandAssumption == ExpectedBits \in Nat /\ ExpectedBits >= 4 /\ ExpectedBits % 2 = 0

Pins == {0, 1}

\* What an object knows: the lines that are high, whether there is a reader,
\* ERROR_TRANSMISSION, the bits of the message under way, and whether more than
\* TIMEOUT (25 ms) went by since a line changed.
WiegandObject ==
  [high : SUBSET Pins, connected : BOOLEAN, error : BOOLEAN,
   bits : UNION {[1..n -> Pins] : n \in 0..ExpectedBits}, quiet : BOOLEAN]

begin ==
  [high |-> {}, connected |-> FALSE, error |-> TRUE, bits |-> <<>>, quiet |-> FALSE]

\* Mutant: the bits are kept.
reset_Keeps(w) == [w EXCEPT !.error = w.high # Pins]

reset(w) == [w EXCEPT !.bits = <<>>, !.error = w.high # Pins]

-----------------------------------------------------------------------------
(* flushData(): the callback that a message ends in *)

Odd(bits) == Cardinality({i \in DOMAIN bits : bits[i] = 1}) % 2 = 1

LeftHalf(bits) == SubSeq(bits, 1, Len(bits) \div 2)
RightHalf(bits) == SubSeq(bits, Len(bits) \div 2 + 1, Len(bits))

\* Mutant: only one half is checked.
ParityOK_Left(bits) == ~Odd(LeftHalf(bits))

ParityOK(bits) == ~Odd(LeftHalf(bits)) /\ Odd(RightHalf(bits))

\* Mutant: pending errors are ignored.
flushData_NoErrors(w) ==
  CASE w.bits = <<>> -> "ignored"
    [] Len(w.bits) = ExpectedBits /\ ParityOK(w.bits) -> "data"
    [] OTHER -> "error"

flushData(w) ==
  CASE w.bits = <<>> -> "ignored"
    [] ~w.error /\ Len(w.bits) = ExpectedBits /\ ParityOK(w.bits) -> "data"
    [] OTHER -> "error"

\* align_data(): the message without its parity bits.
Payload(w) == SubSeq(w.bits, 2, Len(w.bits) - 1)

-----------------------------------------------------------------------------
(* Each operator below gives the object afterwards, the one that flushData()   *)
(* was called with ("ignored" if it has no bits), and whether the reader came  *)
(* or went, for func_state().                                                  *)

Outcome(after, flushed, state) == [after |-> after, flushed |-> flushed, state |-> state]

NoMessage(w) == [w EXCEPT !.bits = <<>>]

flush(w) ==
  IF w.quiet THEN Outcome(reset(w), w, "same") ELSE Outcome(w, NoMessage(w), "same")

\* A bit is complete when its line is high again.  The last one ends the message.
addBitInternal(w, pin, before) ==
  LET added == [w EXCEPT !.bits = Append(@, pin)]
  IN  IF Len(added.bits) = ExpectedBits
        THEN Outcome(reset(added), added, "same")
        ELSE Outcome(added, before, "same")

\* A message that was under way is truncated.
Unplugged(w, before) ==
  Outcome([reset(w) EXCEPT !.connected = FALSE, !.error = FALSE],
          IF before.bits = <<>> THEN [w EXCEPT !.error = TRUE] ELSE before,
          "unplugged")

\* Unstable, until it has been quiet for a while.
Plugged(w, before) ==
  Outcome([w EXCEPT !.connected = TRUE, !.error = TRUE], before, "plugged")

\* An interrupt may find that nothing changed; it has ended a message all the same.
setPinState(w, pin, isHigh) ==
  LET first == flush(w)
      now == [first.after EXCEPT
                !.high = IF isHigh THEN @ \cup {pin} ELSE @ \ {pin}, !.quiet = FALSE]
  IN  CASE (pin \in w.high) = isHigh -> first
        [] (pin \in w.high) # isHigh /\ now.high = Pins /\ now.connected ->
             addBitInternal(now, pin, first.flushed)
        [] (pin \in w.high) # isHigh /\ now.high = Pins /\ ~now.connected ->
             Plugged(now, first.flushed)
        [] (pin \in w.high) # isHigh /\ now.high = {} /\ now.connected ->
             Unplugged(now, first.flushed)
        [] OTHER -> Outcome(now, first.flushed, "same")
================================================================================
