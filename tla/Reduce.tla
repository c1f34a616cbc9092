------------------------------- MODULE Reduce -------------------------------
(***************************************************************************)
(* The reducer (`reduce`, src/opt.rs): one forward pass over the tokens of *)
(* a run that folds constants, makes immediate forms, fuses `dup` with     *)
(* what follows it, drops dead literals and copies, and cancels inverse    *)
(* stack motions, looking only at the end of what it has put out.  Every   *)
(* run passes through it before Lower, and a small definition's reduced    *)
(* run is what its callers inline.                                         *)
(*                                                                         *)
(* The reader's side is the meaning of the tokens read so far, from        *)
(* several entry states at once; the writer's side is `out`.               *)
(***************************************************************************)
EXTENDS Tokens

CONSTANTS
  Entries,    \* the entry states [ds, fs, cell, loc] a run is tried from
  Alphabets,  \* the kinds of run: records of toks and len, the tokens of the run
  MaxDepth    \* bound: cells on the data stack

VARIABLES
  kind,   \* the kind of run
  out,    \* the reduced run
  sts,    \* entry state -> the state after the tokens read
  read    \* how many tokens have been read

vars == <<kind, out, sts, read>>

Lit(n) == [op |-> "Lit", n |-> n]
Stk(m) == [op |-> "Stk", m |-> m]

\* The run ends in a token of this form; in a literal under a literal; ...
Ends(s, op) == s # <<>> /\ Last(s).op = op
EndsIn(s, t) == s # <<>> /\ Last(s) = t
EndsLits(s) == Ends(s, "Lit") /\ Ends(Front(s), "Lit")
EndsShifted(s) == Ends(s, "ImmShift") /\ EndsIn(Front(s), Stk("Dup"))

Neutral == {<<"Add", 0>>, <<"Sub", 0>>, <<"Or", 0>>, <<"Xor", 0>>, <<"Mul", 1>>, <<"And", -1>>}
Absorbing == {<<"Mul", 0>>, <<"And", 0>>, <<"Or", -1>>}

ImmediateSubtracted(s, f, k) ==                                  \* (mutant)
  IF <<f, k>> \in Neutral THEN s
  ELSE IF <<f, k>> \in Absorbing THEN s \o <<Stk("Drop"), Lit(k)>>
  ELSE IF Ends(s, "ImmBin") /\ Last(s).f = f
  THEN Append(Front(s), [op |-> "ImmBin", f |-> f, n |-> BinEval(f, Last(s).n, k)])
  ELSE Append(s, [op |-> "ImmBin", f |-> f, n |-> k])

\* x op k with k a literal, s the run before it: nothing, k alone, an immediate
\* absorbed into an immediate of the same operator, or an immediate.
Immediate(s, f, k) ==
  IF <<f, k>> \in Neutral THEN s
  ELSE IF <<f, k>> \in Absorbing THEN s \o <<Stk("Drop"), Lit(k)>>
  ELSE IF Ends(s, "ImmBin") /\ Last(s).f = f
  THEN Append(Front(s), [op |-> "ImmBin", f |-> f,
                         n |-> BinEval(IF f = "Sub" THEN "Add" ELSE f, Last(s).n, k)])
  ELSE Append(s, [op |-> "ImmBin", f |-> f, n |-> k])

WithItselfLitKept(s, f) ==                                       \* (mutant)
  IF f \in {"And", "Or"} THEN s
  ELSE IF f \in {"Sub", "Xor"} THEN s \o <<Stk("Drop"), Lit(0)>>
  ELSE Append(s, [op |-> "DupBin", f |-> f])

\* `dup op`, s the run before the dup.
WithItself(s, f) ==
  IF f \in {"And", "Or"} THEN s
  ELSE IF f \in {"Sub", "Xor"}
  THEN Append(IF Ends(s, "Lit") THEN Front(s) ELSE Append(s, Stk("Drop")), Lit(0))
  ELSE Append(s, [op |-> "DupBin", f |-> f])

AfterBin(s, f) ==
  IF EndsLits(s) THEN Append(Front(Front(s)), Lit(BinEval(f, Last(Front(s)).n, Last(s).n)))
  ELSE IF EndsShifted(s) /\ f # "Mul"
  THEN Append(Front(Front(s)), [op |-> "DupShiftBin", f |-> f, sh |-> Last(s).f, n |-> Last(s).n])
  ELSE IF Ends(s, "Lit") THEN Immediate(Front(s), f, Last(s).n)
  ELSE IF EndsIn(s, Stk("Dup")) THEN WithItself(Front(s), f)
  ELSE Append(s, [op |-> "Bin", f |-> f])

AfterShift(s, sh) ==
  LET k == Unsigned(Last(s).n) % Width
  IN  IF EndsLits(s) THEN Append(Front(Front(s)), Lit(ShEval(sh, Last(Front(s)).n, Last(s).n)))
      ELSE IF ~Ends(s, "Lit") THEN Append(s, [op |-> "Shift", f |-> sh])
      ELSE IF k = 0 THEN Front(s)
      ELSE Append(Front(s), [op |-> "ImmShift", f |-> sh, n |-> k])

\* A literal or a copy dropped at once, and two motions that undo each other.
Undoes(m) == CASE m = "Swap" -> "Swap" [] m = "Rot" -> "MinusRot"
                [] m = "MinusRot" -> "Rot" [] OTHER -> "none"
AfterMotion(s, m) ==
  IF \/ m = "Drop" /\ (Ends(s, "Lit") \/ EndsIn(s, Stk("Dup")))
     \/ EndsIn(s, Stk(Undoes(m)))
  THEN Front(s) ELSE Append(s, Stk(m))

\* Cmp::negate and FCmp::negate: unsigned and zero comparisons have no inverse
\* among the tokens; an FP condition is inverted in its low bit.
Negation == [Eq |-> "Ne", Ne |-> "Eq", Lt |-> "Ge", Ge |-> "Lt", Gt |-> "Le", Le |-> "Gt"]
FNegation == [Mi |-> "Pl", Pl |-> "Mi", Eq |-> "Ne", Ne |-> "Eq"]
AfterZEq(s) ==
  IF Ends(s, "Cmp") /\ Last(s).f \in DOMAIN Negation
  THEN Append(Front(s), [op |-> "Cmp", f |-> Negation[Last(s).f]])
  ELSE IF Ends(s, "FCmp") \/ Ends(s, "FZCmp")
  THEN Append(Front(s), [op |-> Last(s).op, f |-> FNegation[Last(s).f]])
  ELSE Append(s, [op |-> "ZCmp", f |-> "Eq"])

ReduceTok(s, t) ==
  CASE t.op = "Bin"   -> AfterBin(s, t.f)
    [] t.op = "Shift" -> AfterShift(s, t.f)
    [] t.op = "Stk"   -> AfterMotion(s, t.m)
    [] t = [op |-> "ZCmp", f |-> "Eq"] -> AfterZEq(s)
    [] OTHER -> Append(s, t)

Reduced(run) == FoldLeft(ReduceTok, <<>>, run)

----------------------------------------------------------------------------

Init ==
  /\ kind \in Alphabets
  /\ out = <<>>
  /\ sts = [e \in Entries |-> e]
  /\ read = 0

Read(t) ==
  /\ read < kind.len
  /\ \A e \in Entries : Enabled(sts[e], t)
  /\ sts' = [e \in Entries |-> After(sts[e], t, <<>>)]
  /\ \A e \in Entries : Len(sts'[e].ds) <= MaxDepth
  /\ out' = ReduceTok(out, t)
  /\ read' = read + 1
  /\ UNCHANGED kind

ReadBin    == \E t \in kind.toks : t.op = "Bin" /\ Read(t)
ReadShift  == \E t \in kind.toks : t.op = "Shift" /\ Read(t)
ReadMotion == \E t \in kind.toks : t.op = "Stk" /\ Read(t)
ReadZEq    == \E t \in kind.toks : t = [op |-> "ZCmp", f |-> "Eq"] /\ Read(t)
ReadOther  == \E t \in kind.toks : /\ t.op \notin {"Bin", "Shift", "Stk"}
                                   /\ t # [op |-> "ZCmp", f |-> "Eq"]
                                   /\ Read(t)

Next == ReadBin \/ ReadShift \/ ReadMotion \/ ReadZEq \/ ReadOther
Spec == Init /\ [][Next]_vars

----------------------------------------------------------------------------
(* Properties *)

\* Executing a run from state s; EndRun if it reaches below the stacks.
Executed(s, run) ==
  FoldLeft(LAMBDA x, t : IF x # EndRun /\ Enabled(x, t) THEN After(x, t, <<>>) ELSE EndRun, s, run)

\* Whatever was read, executing the reduced run from any entry state does
\* exactly what executing the tokens read does, and never reaches below the
\* cells they reach: constants wrap, shift counts are masked, comparisons with
\* NaN are negated as flags, and a rewrite is only made on what is adjacent.
SameMeaning == \A e \in Entries : Executed(e, out) = sts[e]

\* A second pass finds nothing to do: one pass with lookback is a fixpoint.
\* The exception is a copy whose value an absorbing literal or `dup -` then
\* drops: the pass leaves `dup drop` behind.
CopyDropped == \E i \in 1 .. Len(out) - 1 : out[i] = Stk("Dup") /\ out[i + 1] = Stk("Drop")
SecondPassIdle == CopyDropped \/ Reduced(out) = out
=============================================================================
