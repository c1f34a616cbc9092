------------------------------ MODULE LoopPins ------------------------------
(***************************************************************************)
(* Locals pinned to registers for the length of a loop (src/session.rs):   *)
(* scan_loop_pins looks ahead through the loop's words, compile_control    *)
(* loads the pins before the loop and spills them after it.                *)
(*                                                                         *)
(* A step is a token, compiled and executed: what the module follows is    *)
(* where a local's value is against where compiled code would read it.     *)
(* Either branch of an `if` and any number of turns of a loop are paths    *)
(* through the same tokens, so it suffices that every place a path can     *)
(* leave from agrees with the place it can arrive at.                      *)
(***************************************************************************)
EXTENDS Integers, Sequences, SequencesExt

CONSTANTS
  Ints,      \* integer locals of a definition: the first two, no other is pinned
  Floats,    \* its float locals, four at the most: with more, none is pinned
  Uses,      \* what programs do: a subset of AllUses
  MaxNest    \* bound: loops opened inside one another

\* A pinned loop closed by `until` just after a comparison; a driver that does
\* not call reset_input after an error; a word of the program's with a name that
\* pin_safety takes for one of the kernel's.
AllUses == {"fused until", "unrecovered", "renamed"}

ASSUME LoopPinsAssumption ==
  Uses \subseteq AllUses /\ MaxNest \in Nat /\ Ints \cap Floats = {}

VARIABLES
  open,     \* a definition is open
  loops,    \* its open loops, innermost last: what the scan said, the pins at the top
  active,   \* the pinned locals (active_ipins and active_fpins)
  nest,     \* pin_nest
  at        \* where each local's value is: a subset of Places

vars == <<open, loops, active, nest, at>>

Locals == Ints \cup Floats
Places == {"frame", "register"}
Verdicts == {"Full", "FpOnly", "Barrier"}

\* Where code compiled now looks for a local.
Home(l) == IF l \in active THEN "register" ELSE "frame"

Init == open = FALSE /\ loops = <<>> /\ active = {} /\ nest = -1 /\ at = [l \in Locals |-> {}]

\* `: name {: ... :}`: the frame is filled from the stack.
Define ==
  /\ ~open
  /\ open' = TRUE /\ loops' = <<>>
  /\ at' = [l \in Locals |-> {"frame"}]
  /\ UNCHANGED <<active, nest>>

\* What a scan allows to be pinned: with a libm call, which preserves d8-d15 but
\* not the scratch registers, only the floats.
Pinnable == [v \in Verdicts |-> CASE v = "Full" -> Locals
                                  [] v = "FpOnly" -> Floats
                                  [] v = "Barrier" -> {}]

\* What the scan that covers this point of the definition found.
Scanned == IF loops = <<>> THEN "Barrier" ELSE Last(loops).verdict

\* begin, do, ?do: scan ahead if nothing is pinned, load the pins, note the top.
\* A scan that runs off the end of the text says Barrier.
NestLost == nest                                                 \* (mutant)
Nested == nest + 1
Loaded(pins) == [l \in Locals |-> IF l \in pins THEN at[l] \cup {"register"} ELSE at[l]]

BeginLoop(v) ==
  /\ open /\ Len(loops) < MaxNest
  /\ IF active = {}
     THEN /\ active' = Pinnable[v]
          /\ nest' = IF Pinnable[v] = {} THEN nest ELSE 0
          /\ at' = Loaded(Pinnable[v])
     ELSE /\ v = Scanned      \* not scanned again
          /\ nest' = Nested
          /\ UNCHANGED <<active, at>>
  /\ loops' = Append(loops, [verdict |-> v, top |-> active'])
  /\ UNCHANGED open

\* `to local`
Stored(l) == {Home(l)}
To(l) ==
  /\ open
  /\ at' = [at EXCEPT ![l] = Stored(l)]
  /\ UNCHANGED <<open, loops, active, nest>>

\* A call leaves no register alone, a libm call those of the floats.
Clobbered(ls) == [l \in Locals |-> IF l \in ls THEN at[l] \ {"register"} ELSE at[l]]
Call ==
  /\ open
  /\ Scanned = "Barrier" \/ "renamed" \in Uses
  /\ at' = Clobbered(Locals)
  /\ UNCHANGED <<open, loops, active, nest>>
LibmCall ==
  /\ open
  /\ Scanned \in {"FpOnly", "Barrier"}
  /\ at' = Clobbered(Ints)
  /\ UNCHANGED <<open, loops, active, nest>>

\* until, repeat, loop, +loop: the closer of the pinned loop spills the pins.
Unspilled == at                                                  \* (mutant)
Spilled == [l \in Locals |-> IF l \in active THEN at[l] \cup {"frame"} ELSE at[l]]

PinsAfter == {}

EndLoop ==
  /\ open /\ loops # <<>>
  /\ loops' = Front(loops)
  /\ IF active # {} /\ nest <= 0
     THEN active' = PinsAfter /\ nest' = -1 /\ at' = Spilled
     ELSE /\ nest' = IF active = {} THEN nest ELSE nest - 1
          /\ UNCHANGED <<active, at>>
  /\ UNCHANGED open

\* compile_control_fused, which closes the loop and leaves the pins alone.
FusedUntil ==
  /\ open /\ loops # <<>>
  /\ active = {} \/ "fused until" \in Uses
  /\ loops' = Front(loops)
  /\ UNCHANGED <<open, active, nest, at>>

\* `;`
End ==
  /\ open /\ loops = <<>>
  /\ open' = FALSE
  /\ UNCHANGED <<loops, active, nest, at>>

\* An error, from which the driver recovers with reset_input; in a driver that
\* does not, `;` with a loop still open takes the definition away all the same.
Fail ==
  /\ open
  /\ open' = FALSE /\ loops' = <<>>
  /\ IF "unrecovered" \in Uses
     THEN loops # <<>> /\ UNCHANGED <<active, nest>>
     ELSE active' = {} /\ nest' = -1
  /\ UNCHANGED at

Next ==
  \/ Define \/ Call \/ LibmCall \/ EndLoop \/ FusedUntil \/ End \/ Fail
  \/ \E v \in Verdicts : BeginLoop(v)
  \/ \E l \in Locals : To(l)

Spec == Init /\ [][Next]_vars

----------------------------------------------------------------------------
(* Properties *)

\* The types of the compiler's pin state and of where values are.
TypeOK ==
  /\ open \in BOOLEAN
  /\ loops \in Seq([verdict : Verdicts, top : SUBSET Locals]) /\ Len(loops) <= MaxNest
  /\ active \subseteq Locals
  /\ nest \in -1 .. MaxNest
  /\ at \in [Locals -> SUBSET Places]

\* Wherever a local is read, it is read from where its value is.
LocalsCurrent == open => \A l \in Locals : Home(l) \in at[l]

\* The loop's last instruction branches back to code compiled under the pins in
\* force at its top, which must be those in force at its end: while no inner
\* loop is open, the pins are those at the top of the innermost.
BackEdgesAgree == loops # <<>> => Last(loops).top = active

\* "Empty outside a pinned loop" (session.rs).
PinsOnlyInLoops == active # {} => loops # <<>>

=============================================================================
