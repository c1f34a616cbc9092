------------------------------ MODULE Aarch64 ------------------------------
(***************************************************************************)
(* The machine that runs lowered code: the register file, the two stacks   *)
(* in memory (indexed from their lowest address; x19 and x22 point into    *)
(* them and a push decrements), the locals stack (x21), the memory cells,  *)
(* and the effect of each instruction src/aenc.rs encodes for the lowerer. *)
(***************************************************************************)
EXTENDS Tokens

CONSTANTS
  Pool,    \* the GP window registers (POOL, x9..x15 in the program)
  FPool    \* the FP window registers (FPOOL, d9..d15)

TOS  == 0   \* x0, the canonical top of the data stack
FTOS == 8   \* d8, the canonical top of the FP stack

ASSUME PoolAssumption == Pool \subseteq Nat \ {TOS} /\ FPool \subseteq Nat \ {FTOS}

\* Caller-saved registers after a call hold nothing the caller may rely on.
Trash == -Half

ReadCell(m, a) == IF a \in Addr THEN m.cell[a] ELSE Trash
Write(m, a, v) == IF a \in Addr THEN [m EXCEPT !.cell[a] = v] ELSE [m EXCEPT !.fault = TRUE]
SetX(m, r, v)  == [m EXCEPT !.x[r] = v]
SetD(m, r, v)  == [m EXCEPT !.d[r] = v]

\* emit_call: the callee runs on the canonical state and leaves it canonical.
CallWord(m) ==
  [m EXCEPT !.x = [r \in DOMAIN @ |-> IF r = TOS THEN Wrap(@[TOS] + 1) ELSE Trash],
            !.d = [r \in DOMAIN @ |-> IF r = FTOS THEN Wrap(@[FTOS] + 1) ELSE Trash],
            !.cell = [a \in Addr |-> Wrap(@[a] + 1)]]

Exec(m, i) ==
  CASE i.op = "mov"    -> SetX(m, i.rd, m.x[i.rn])
    [] i.op = "movi"   -> SetX(m, i.rd, i.n)
    [] i.op = "alu"    -> SetX(m, i.rd, BinEval(i.f, m.x[i.rn], m.x[i.rm]))
    [] i.op = "alui"   -> SetX(m, i.rd, BinEval(i.f, m.x[i.rn], i.n))
    [] i.op = "sh"     -> SetX(m, i.rd, ShEval(i.f, m.x[i.rn], m.x[i.rm]))
    [] i.op = "shi"    -> SetX(m, i.rd, ShEval(i.f, m.x[i.rn], i.n))
    [] i.op = "alush"  -> SetX(m, i.rd, BinEval(i.f, m.x[i.rn], ShEval(i.sh, m.x[i.rn], i.n)))
    [] i.op = "csetm"  -> SetX(m, i.rd, Flag(CmpHolds(i.f, m.x[i.rn], m.x[i.rm])))
    [] i.op = "csetmi" -> SetX(m, i.rd, Flag(CmpHolds(i.f, m.x[i.rn], i.n)))
    [] i.op = "csel"   -> SetX(m, i.rd, IF CmpHolds(i.f, m.x[i.rn], m.x[i.rm])
                                        THEN m.x[i.rn] ELSE m.x[i.rm])
    [] i.op = "ldsp"   -> SetX(m, i.rd, m.stk[m.dsp + i.off])
    [] i.op = "stsp"   -> [m EXCEPT !.stk[m.dsp + i.off] = m.x[i.rn]]
    [] i.op = "addsp"  -> [m EXCEPT !.dsp = @ + i.n]
    [] i.op = "ldlp"   -> SetX(m, i.rd, m.lm[m.lp + i.off])
    [] i.op = "stlp"   -> [m EXCEPT !.lm[m.lp + i.off] = m.x[i.rn]]
    [] i.op = "addlp"  -> [m EXCEPT !.lp = @ + i.n]
    [] i.op = "ldr"    -> SetX(m, i.rd, ReadCell(m, m.x[i.rn] + i.off))
    [] i.op = "ldrb"   -> SetX(m, i.rd, Low(ReadCell(m, m.x[i.rn])))
    [] i.op = "str"    -> Write(m, m.x[i.rn] + i.off, m.x[i.rm])
    [] i.op = "strb"   -> LET old == ReadCell(m, m.x[i.rn])
                          IN  Write(m, m.x[i.rn], old - Low(old) + Low(m.x[i.rm]))
    [] i.op = "ldself" -> SetX(m, i.rd, Self)
    [] i.op = "ldrp"   -> SetX(m, i.rd, Index[i.of])
    [] i.op = "fmov"   -> SetD(m, i.rd, m.d[i.rn])
    [] i.op = "fmovx"  -> SetD(m, i.rd, m.x[i.rn])
    [] i.op = "falu"   -> SetD(m, i.rd, BinEval(i.f, m.d[i.rn], m.d[i.rm]))
    [] i.op = "fneg"   -> SetD(m, i.rd, Wrap(-m.d[i.rn]))
    [] i.op = "fcset"  -> SetX(m, i.rd, Flag(FCmpHolds(i.f, m.d[i.rn], m.d[i.rm])))
    [] i.op = "fcsetz" -> SetX(m, i.rd, Flag(FCmpHolds(i.f, m.d[i.rn], 0)))
    [] i.op = "fldsp"  -> SetD(m, i.rd, m.fstk[m.fsp + i.off])
    [] i.op = "fstsp"  -> [m EXCEPT !.fstk[m.fsp + i.off] = m.d[i.rn]]
    [] i.op = "faddsp" -> [m EXCEPT !.fsp = @ + i.n]
    [] i.op = "fldlp"  -> SetD(m, i.rd, m.lm[m.lp + i.off])
    [] i.op = "fstlp"  -> [m EXCEPT !.lm[m.lp + i.off] = m.d[i.rn]]
    [] i.op = "fldr"   -> SetD(m, i.rd, ReadCell(m, m.x[i.rn]))
    [] i.op = "fstr"   -> Write(m, m.x[i.rn], m.d[i.rm])
    [] i.op = "call"   -> CallWord(m)

\* Running the code of one token: straight-line, so one instruction after another.
ExecAll(m, code) == FoldLeft(Exec, m, code)
=============================================================================
