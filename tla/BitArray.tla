------------------------------ MODULE BitArray ------------------------------
(***************************************************************************)
(* What a BitBuffer promises (spec.md 2 and 4.1): a fixed-capacity array   *)
(* of cap bits with an append cursor, 0 <= cursor <= cap.  Every bit index *)
(* passed to an operation must be below cap, and a call that breaks a      *)
(* precondition fails fast: the program stops (failed).  Bitwise AND, OR   *)
(* and XOR combine it with an operand of the same capacity.  Bits are the  *)
(* set of indices holding 1.  calls counts the calls made so far.          *)
(***************************************************************************)
EXTENDS Integers

CONSTANTS
  Positions,    \* bit indices passed to get/set/clear/flip
  RangeStarts,  \* start indices passed to clear(pos, length)
  Lengths,      \* lengths passed to clear(pos, length)
  Counts,       \* values passed to setBitCount
  MaxCalls      \* bound on the number of calls in a behaviour

VARIABLES bits, cursor, cap, opnd, opndCap, failed, calls, lastCall

avars == <<bits, cursor, cap, opnd, opndCap, failed, calls, lastCall>>

Init ==
  /\ cap \in Nat
  /\ cursor \in 0 .. cap
  /\ bits \subseteq 0 .. cap - 1
  /\ opndCap \in Nat
  /\ opnd \subseteq 0 .. opndCap - 1
  /\ failed = FALSE
  /\ calls = 0
  /\ lastCall = <<"none">>

\* One more call, recorded with its arguments in lastCall.
Call(c) == ~failed /\ calls < MaxCalls /\ calls' = calls + 1 /\ lastCall' = c

\* A precondition broke: the program stops.
Fail == failed' = TRUE /\ UNCHANGED <<bits, cursor, cap, opnd, opndCap>>

\* An operation that leaves the array as it is.
Keep == UNCHANGED <<bits, cursor, cap, opnd, opndCap, failed>>

\* The new bits of a call that succeeds.
Bits(b) == bits' = b /\ UNCHANGED <<cursor, cap, opnd, opndCap, failed>>

Get(pos) == Call(<<"get", pos>>) /\ IF pos < cap THEN Keep ELSE Fail

Set(pos) == Call(<<"set", pos>>) /\ IF pos < cap THEN Bits(bits \cup {pos}) ELSE Fail

Clear(pos) == Call(<<"clear", pos>>) /\ IF pos < cap THEN Bits(bits \ {pos}) ELSE Fail

Flip(pos) ==
  /\ Call(<<"flip", pos>>)
  /\ IF pos < cap
     THEN Bits(IF pos \in bits THEN bits \ {pos} ELSE bits \cup {pos})
     ELSE Fail

Append(bit) ==
  /\ Call(<<"append", bit>>)
  /\ IF cursor < cap
     THEN /\ bits' = IF bit THEN bits \cup {cursor} ELSE bits \ {cursor}
          /\ cursor' = cursor + 1
          /\ UNCHANGED <<cap, opnd, opndCap, failed>>
     ELSE Fail

\* Clears pos .. pos+length-1, every one of them an index below cap.
ClearRange(pos, length) ==
  /\ Call(<<"clearRange", pos, length>>)
  /\ IF pos < cap /\ pos + length <= cap
     THEN Bits(bits \ (pos .. pos + length - 1))
     ELSE Fail

ClearAll ==
  /\ Call(<<"clearAll">>)
  /\ bits' = {} /\ cursor' = 0
  /\ UNCHANGED <<cap, opnd, opndCap, failed>>

\* The cursor never leaves 0 .. cap.
SetBitCount(k) ==
  /\ Call(<<"setBitCount", k>>)
  /\ IF k <= cap
     THEN cursor' = k /\ UNCHANGED <<bits, cap, opnd, opndCap, failed>>
     ELSE Fail

Combine(op) ==
  /\ Call(<<op>>)
  /\ IF opndCap = cap
     THEN Bits(CASE op = "and" -> bits \cap opnd
                 [] op = "or"  -> bits \cup opnd
                 [] op = "xor" -> (bits \ opnd) \cup (opnd \ bits))
     ELSE Fail

\* pack/raw access: a bulk copy out of the array, which leaves it as it is.
Pack == Call(<<"pack">>) /\ Keep

Next ==
  \/ \E pos \in Positions : Get(pos) \/ Set(pos) \/ Clear(pos) \/ Flip(pos)
  \/ \E bit \in BOOLEAN : Append(bit)
  \/ \E pos \in RangeStarts, length \in Lengths : ClearRange(pos, length)
  \/ ClearAll
  \/ \E k \in Counts : SetBitCount(k)
  \/ \E op \in {"and", "or", "xor"} : Combine(op)
  \/ Pack

Spec == Init /\ [][Next]_avars

=============================================================================
