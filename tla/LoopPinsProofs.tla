--------------------------- MODULE LoopPinsProofs ---------------------------
(***************************************************************************)
(* Pinned locals are read from where they are, for any locals and loops,   *)
(* in programs without the uses that break it (Uses = {}).                 *)
(***************************************************************************)
EXTENDS LoopPins, SequenceTheorems, TLAPS

----------------------------------------------------------------------------
(* The inductive invariant *)

\* The position of the pinned loop: pin_nest counts the loops open inside it.
Pinned == Len(loops) - nest

\* While nothing is pinned, no open loop was entered with pins.
Unpinned == active = {} => /\ nest = -1
                           /\ \A k \in DOMAIN loops : loops[k].top = {}

\* Otherwise the pinned loop is open; it and the loops in it were entered under
\* the pins in force, which its scan allows, and the loops around it under none.
PinnedFrom ==
  active # {} =>
    /\ nest \in 0 .. Len(loops) - 1
    /\ \A k \in DOMAIN loops : loops[k].top = IF k < Pinned THEN {} ELSE active
    /\ \A k \in DOMAIN loops : k >= Pinned => active = Pinnable[loops[k].verdict]

Closed == ~open => loops = <<>>

PinsInv == TypeOK /\ Closed /\ Unpinned /\ PinnedFrom /\ LocalsCurrent

----------------------------------------------------------------------------
(* Sequences and scans *)

\* What taking off the last element leaves of a sequence.
LEMMA FrontOf ==
  ASSUME NEW S, NEW s \in Seq(S), s # <<>>
  PROVE  /\ Front(s) \in Seq(S)
         /\ Len(Front(s)) = Len(s) - 1
         /\ \A k \in 1 .. Len(s) - 1 : Front(s)[k] = s[k]
         /\ Last(s) = s[Len(s)]
<1>1. Len(s) \in Nat \ {0} /\ DOMAIN s = 1 .. Len(s)
  BY LenProperties, EmptySeq
<1>2. \A k \in 1 .. Len(s) : s[k] \in S
  BY ElementOfSeq
<1>3. 1 \in 1 .. Len(s) + 1 /\ Len(s) - 1 \in 0 .. Len(s)
  BY <1>1
<1>4. /\ SubSeq(s, 1, Len(s) - 1) \in Seq(S)
      /\ Len(SubSeq(s, 1, Len(s) - 1)) = Len(s) - 1
      /\ \A k \in 1 .. Len(s) - 1 : SubSeq(s, 1, Len(s) - 1)[k] = s[k]
  BY <1>1, <1>3, SubSeqProperties
<1> QED
  BY <1>4 DEF Front, Last

\* A verdict lets locals be pinned that keep their registers under it.
LEMMA PinnableFits ==
  /\ Pinnable["Barrier"] = {}
  /\ Pinnable["FpOnly"] \cap Ints = {}
  /\ \A v \in Verdicts : Pinnable[v] \subseteq Locals
BY LoopPinsAssumption DEF Pinnable, Verdicts, Locals, LoopPinsAssumption

LoopRecs == [verdict : Verdicts, top : SUBSET Locals]

----------------------------------------------------------------------------
(* Each action keeps the invariant *)

\* A definition begins with nothing pinned and no loop open.
LEMMA DefineKeeps == ASSUME PinsInv, Define PROVE PinsInv'
<1> USE DEF PinsInv, Define, TypeOK, LoopRecs
<1>1. active = {} /\ nest = -1 /\ active' = {} /\ nest' = -1 /\ loops' = <<>>
  BY DEF Closed, Unpinned, PinnedFrom
<1>2. TypeOK'
  BY <1>1, LoopPinsAssumption, EmptySeq DEF Places, LoopPinsAssumption
<1>3. LocalsCurrent'
  BY <1>1 DEF LocalsCurrent, Home
<1> QED
  BY <1>1, <1>2, <1>3 DEF Closed, Unpinned, PinnedFrom

\* The two ways a loop begins share what they do to the loops.
LEMMA LoopAppended ==
  ASSUME TypeOK, NEW v \in Verdicts, NEW ls \in SUBSET Locals,
         loops' = Append(loops, [verdict |-> v, top |-> ls])
  PROVE  /\ loops \in Seq(LoopRecs) /\ loops' \in Seq(LoopRecs)
         /\ Len(loops) \in Nat /\ Len(loops') = Len(loops) + 1
         /\ DOMAIN loops = 1 .. Len(loops) /\ DOMAIN loops' = 1 .. Len(loops) + 1
         /\ \A k \in 1 .. Len(loops) : loops'[k] = loops[k]
         /\ loops'[Len(loops) + 1] = [verdict |-> v, top |-> ls]
<1>1. loops \in Seq(LoopRecs) /\ [verdict |-> v, top |-> ls] \in LoopRecs
  BY DEF TypeOK, LoopRecs
<1>2. loops' \in Seq(LoopRecs)
  BY <1>1, AppendProperties
<1> QED
  BY <1>1, <1>2, AppendProperties, LenProperties

\* A loop that begins pins what its scan found, or nests in one that did.
LEMMA BeginKeeps ==
  ASSUME PinsInv, NEW v \in Verdicts, BeginLoop(v)
  PROVE  PinsInv'
<1> USE DEF PinsInv
<1>1. active' \subseteq Locals /\ open /\ open'
  BY PinnableFits DEF BeginLoop, TypeOK
<1>2. /\ loops \in Seq(LoopRecs) /\ loops' \in Seq(LoopRecs)
      /\ Len(loops) \in Nat /\ Len(loops') = Len(loops) + 1
      /\ DOMAIN loops = 1 .. Len(loops) /\ DOMAIN loops' = 1 .. Len(loops) + 1
      /\ \A k \in 1 .. Len(loops) : loops'[k] = loops[k]
      /\ loops'[Len(loops) + 1] = [verdict |-> v, top |-> active']
  BY <1>1, LoopAppended DEF BeginLoop
<1>3. MaxNest \in Nat /\ Len(loops') <= MaxNest /\ nest \in -1 .. MaxNest
  BY <1>2, LoopPinsAssumption DEF BeginLoop, LoopPinsAssumption, TypeOK
<1>4. CASE active = {}
  <2>1. /\ active' = Pinnable[v] /\ at' = Loaded(active')
        /\ nest' = IF active' = {} THEN -1 ELSE 0
    BY <1>4 DEF BeginLoop, Unpinned
  <2>2. \A k \in 1 .. Len(loops) : loops'[k].top = {}
    BY <1>2, <1>4 DEF Unpinned
  <2>3. TypeOK'
    BY <1>1, <1>2, <1>3, <2>1 DEF TypeOK, Loaded, Places, LoopRecs
  <2>4. Unpinned'
    BY <1>2, <2>1, <2>2 DEF Unpinned
  <2>5. PinnedFrom'
    <3> SUFFICES ASSUME active' # {}
                 PROVE  PinnedFrom'
      BY DEF PinnedFrom
    <3>1. nest' = 0 /\ Pinned' = Len(loops) + 1
      BY <1>2, <2>1 DEF Pinned
    <3>2. \A k \in DOMAIN loops' : loops'[k].top = IF k < Pinned' THEN {} ELSE active'
      <4> SUFFICES ASSUME NEW k \in 1 .. Len(loops) + 1
                   PROVE  loops'[k].top = IF k < Len(loops) + 1 THEN {} ELSE active'
        BY <1>2, <3>1
      <4>1. CASE k \in 1 .. Len(loops)
        <5>1. loops'[k].top = {}
          BY <2>2, <4>1
        <5>2. k < Len(loops) + 1
          BY <1>2, <4>1
        <5> QED
          BY <5>1, <5>2
      <4>2. CASE k = Len(loops) + 1
        BY <1>2, <4>2
      <4> QED
        BY <1>2, <4>1, <4>2
    <3>3. \A k \in DOMAIN loops' : k >= Pinned' => active' = Pinnable[loops'[k].verdict]
      BY <1>2, <2>1, <3>1
    <3> QED
      BY <1>2, <3>1, <3>2, <3>3 DEF PinnedFrom
  <2>6. LocalsCurrent'
    BY <1>1, <1>4, <2>1 DEF LocalsCurrent, Home, Loaded, TypeOK
  <2> QED
    BY <1>1, <2>3, <2>4, <2>5, <2>6 DEF Closed
<1>5. CASE active # {}
  <2>1. active' = active /\ at' = at /\ nest' = nest + 1 /\ v = Scanned
    BY <1>5 DEF BeginLoop, Nested
  <2>2. nest \in 0 .. Len(loops) - 1 /\ Pinned' = Pinned /\ Pinned \in 1 .. Len(loops)
    BY <1>2, <1>5, <2>1 DEF PinnedFrom, Pinned
  <2>3. v = loops[Len(loops)].verdict
    BY <1>2, <2>1, <2>2 DEF Scanned, Last
  <2>4. active = Pinnable[v]
    BY <1>2, <1>5, <2>2, <2>3 DEF PinnedFrom
  <2>5. TypeOK'
    BY <1>1, <1>2, <1>3, <2>1, <2>2 DEF TypeOK, LoopRecs
  <2>6. /\ \A k \in DOMAIN loops' : loops'[k].top = IF k < Pinned' THEN {} ELSE active'
        /\ \A k \in DOMAIN loops' : k >= Pinned' => active' = Pinnable[loops'[k].verdict]
    <3> SUFFICES ASSUME NEW k \in 1 .. Len(loops) + 1
                 PROVE  /\ loops'[k].top = IF k < Pinned THEN {} ELSE active
                        /\ k >= Pinned => active = Pinnable[loops'[k].verdict]
      BY <1>2, <2>1, <2>2
    <3>1. CASE k <= Len(loops)
      BY <1>2, <1>5, <3>1 DEF PinnedFrom
    <3>2. CASE k = Len(loops) + 1
      BY <1>2, <2>1, <2>2, <2>4, <3>2
    <3> QED
      BY <1>2, <3>1, <3>2
  <2>7. PinnedFrom'
    BY <1>2, <2>1, <2>2, <2>6 DEF PinnedFrom
  <2> QED
    BY <1>1, <1>5, <2>1, <2>5, <2>7 DEF Closed, Unpinned, LocalsCurrent, Home
<1> QED
  BY <1>4, <1>5

\* A step between loop words changes nothing but where values are.
LEMMA BodyKeeps ==
  ASSUME PinsInv, NEW keeps \in [Locals -> SUBSET Places], at' = keeps,
         UNCHANGED <<open, loops, active, nest>>, LocalsCurrent'
  PROVE  PinsInv'
BY DEF PinsInv, TypeOK, Closed, Unpinned, PinnedFrom, Pinned

\* A store writes the register of a pinned local, the frame of another.
LEMMA ToKeeps ==
  ASSUME PinsInv, NEW l \in Locals, To(l)
  PROVE  PinsInv'
<1>1. Home(l) \in Places /\ at' \in [Locals -> SUBSET Places]
  BY DEF PinsInv, TypeOK, To, Stored, Home, Places
<1>2. LocalsCurrent'
  BY DEF PinsInv, TypeOK, LocalsCurrent, To, Stored, Home
<1> QED
  BY <1>1, <1>2, BodyKeeps DEF To

\* Under pins the innermost loop's scan allows them.
LEMMA ScanAllows ==
  ASSUME PinsInv
  PROVE  active \subseteq Pinnable[Scanned] /\ Scanned \in Verdicts
<1>0. loops \in Seq(LoopRecs)
  BY DEF PinsInv, TypeOK, LoopRecs
<1>1. /\ Len(loops) \in Nat /\ DOMAIN loops = 1 .. Len(loops)
      /\ loops # <<>> => Len(loops) \in DOMAIN loops /\ loops[Len(loops)] \in LoopRecs
  BY <1>0, LenProperties, EmptySeq, ElementOfSeq
<1>2. active # {} => loops # <<>> /\ active = Pinnable[loops[Len(loops)].verdict]
  BY <1>1 DEF PinsInv, PinnedFrom, Pinned
<1> QED
  BY <1>1, <1>2 DEF Scanned, Last, LoopRecs, Verdicts

\* A call that renames no kernel word leaves the pins alone.
LEMMA CallKeeps == ASSUME PinsInv, Call, Uses = {} PROVE PinsInv'
<1>1. active = {} /\ at' = Clobbered(Locals)
  BY ScanAllows, PinnableFits DEF Call
<1>2. Clobbered(Locals) \in [Locals -> SUBSET Places]
  BY DEF PinsInv, TypeOK, Clobbered
<1>3. LocalsCurrent'
  BY <1>1 DEF PinsInv, TypeOK, LocalsCurrent, Home, Clobbered, Call
<1> QED
  BY <1>1, <1>2, <1>3, BodyKeeps DEF Call

\* A call into the C library ends no loop and moves no local.
LEMMA LibmKeeps == ASSUME PinsInv, LibmCall PROVE PinsInv'
<1>1. active \cap Ints = {} /\ at' = Clobbered(Ints)
  BY ScanAllows, PinnableFits DEF LibmCall
<1>2. Clobbered(Ints) \in [Locals -> SUBSET Places]
  BY DEF PinsInv, TypeOK, Clobbered
<1>3. LocalsCurrent'
  BY <1>1 DEF PinsInv, TypeOK, LocalsCurrent, Home, Clobbered, LibmCall
<1> QED
  BY <1>1, <1>2, <1>3, BodyKeeps DEF LibmCall

\* Taking off the innermost loop.
LEMMA LoopTakenOff ==
  ASSUME TypeOK, loops # <<>>, loops' = Front(loops)
  PROVE  /\ loops' \in Seq(LoopRecs)
         /\ Len(loops) \in Nat \ {0} /\ Len(loops') = Len(loops) - 1
         /\ DOMAIN loops = 1 .. Len(loops) /\ DOMAIN loops' = 1 .. Len(loops) - 1
         /\ \A k \in 1 .. Len(loops) - 1 : loops'[k] = loops[k]
<1>1. loops \in Seq(LoopRecs)
  BY DEF TypeOK, LoopRecs
<1>2. loops' \in Seq(LoopRecs)
  BY <1>1, FrontOf
<1> QED
  BY <1>1, <1>2, FrontOf, LenProperties, EmptySeq

\* The loop that turned the pins on is the one that spills them.
LEMMA EndLoopKeeps == ASSUME PinsInv, EndLoop PROVE PinsInv'
<1> USE DEF PinsInv
<1>1. /\ loops' \in Seq(LoopRecs)
      /\ Len(loops) \in Nat \ {0} /\ Len(loops') = Len(loops) - 1
      /\ DOMAIN loops = 1 .. Len(loops) /\ DOMAIN loops' = 1 .. Len(loops) - 1
      /\ \A k \in 1 .. Len(loops) - 1 : loops'[k] = loops[k]
  BY LoopTakenOff DEF EndLoop
<1>2. MaxNest \in Nat /\ Len(loops') <= MaxNest /\ nest \in -1 .. MaxNest /\ open /\ open'
  BY <1>1, LoopPinsAssumption DEF EndLoop, LoopPinsAssumption, TypeOK
<1>3. CASE active # {} /\ nest <= 0
  <2>1. active' = {} /\ nest' = -1 /\ at' = Spilled /\ Pinned = Len(loops)
    BY <1>1, <1>3 DEF EndLoop, PinsAfter, PinnedFrom, Pinned
  <2>2. \A k \in DOMAIN loops' : loops'[k].top = {}
    BY <1>1, <1>3, <2>1 DEF PinnedFrom
  <2>3. TypeOK'
    BY <1>1, <1>2, <2>1 DEF TypeOK, Spilled, Places, LoopRecs
  <2>4. LocalsCurrent'
    BY <1>2, <2>1 DEF LocalsCurrent, Home, Spilled, TypeOK
  <2> QED
    BY <1>2, <2>1, <2>2, <2>3, <2>4 DEF Closed, Unpinned, PinnedFrom
<1>4. CASE active = {}
  <2>1. active' = {} /\ nest' = -1 /\ at' = at
    BY <1>4 DEF EndLoop, Unpinned
  <2>2. \A k \in DOMAIN loops' : loops'[k].top = {}
    BY <1>1, <1>4 DEF Unpinned
  <2>3. TypeOK' /\ LocalsCurrent'
    BY <1>1, <1>2, <1>4, <2>1 DEF TypeOK, LoopRecs, LocalsCurrent, Home
  <2> QED
    BY <1>2, <2>1, <2>2, <2>3 DEF Closed, Unpinned, PinnedFrom
<1>5. CASE active # {} /\ nest > 0
  <2>1. active' = active /\ nest' = nest - 1 /\ at' = at
    BY <1>2, <1>5 DEF EndLoop
  <2>2. nest \in 1 .. Len(loops) - 1 /\ Pinned' = Pinned
    BY <1>1, <1>5, <2>1 DEF PinnedFrom, Pinned
  <2>3. TypeOK' /\ LocalsCurrent'
    BY <1>1, <1>2, <1>5, <2>1, <2>2 DEF TypeOK, LoopRecs, LocalsCurrent, Home
  <2>4. PinnedFrom'
    BY <1>1, <1>5, <2>1, <2>2 DEF PinnedFrom
  <2> QED
    BY <1>2, <1>5, <2>1, <2>3, <2>4 DEF Closed, Unpinned
<1> QED
  BY <1>2, <1>3, <1>4, <1>5

\* A fused until is not among the uses the theorems are about.
LEMMA FusedUntilKeeps == ASSUME PinsInv, FusedUntil, Uses = {} PROVE PinsInv'
<1> USE DEF PinsInv, FusedUntil
<1>1. active = {} /\ UNCHANGED <<open, active, nest, at>>
  OBVIOUS
<1>2. /\ loops' \in Seq(LoopRecs) /\ Len(loops) \in Nat /\ Len(loops') = Len(loops) - 1
      /\ DOMAIN loops = 1 .. Len(loops) /\ DOMAIN loops' = 1 .. Len(loops) - 1
      /\ \A k \in 1 .. Len(loops) - 1 : loops'[k] = loops[k]
  BY LoopTakenOff
<1>3. \A k \in DOMAIN loops' : loops'[k].top = {}
  BY <1>1, <1>2 DEF Unpinned
<1>4. TypeOK' /\ LocalsCurrent'
  BY <1>1, <1>2, LoopPinsAssumption DEF TypeOK, LoopRecs, LocalsCurrent, Home, LoopPinsAssumption
<1> QED
  BY <1>1, <1>3, <1>4 DEF Closed, Unpinned, PinnedFrom

\* A definition ends, or fails and is recovered, with nothing pinned.
LEMMA ClosingKeeps == ASSUME PinsInv, End \/ (Fail /\ Uses = {}) PROVE PinsInv'
<1> USE DEF PinsInv
<1>1. loops' = <<>> /\ open' = FALSE /\ active' = {} /\ nest' = -1 /\ at' = at
  <2>1. CASE End
    <3>1. DOMAIN loops = {} /\ Len(loops) = 0 /\ active = {}
      BY <2>1 DEF End, PinnedFrom
    <3> QED
      BY <2>1, <3>1 DEF End, Unpinned
  <2>2. CASE Fail /\ Uses = {}
    BY <2>2 DEF Fail
  <2> QED
    BY <2>1, <2>2
<1>2. loops' \in Seq(LoopRecs) /\ Len(loops') = 0 /\ DOMAIN loops' = {}
  BY <1>1, EmptySeq
<1>3. nest' \in -1 .. MaxNest /\ 0 <= MaxNest /\ at' \in [Locals -> SUBSET Places]
  BY <1>1, LoopPinsAssumption DEF LoopPinsAssumption, TypeOK
<1>4. open' \in BOOLEAN /\ active' \subseteq Locals
  BY <1>1
<1>5. TypeOK'
  BY <1>2, <1>3, <1>4 DEF TypeOK, LoopRecs
<1> QED
  BY <1>1, <1>2, <1>5 DEF Closed, Unpinned, PinnedFrom, LocalsCurrent

----------------------------------------------------------------------------
(* Theorems *)

\* The session starts outside a definition, with nothing pinned.
LEMMA PinsInvInit == Init => PinsInv
<1> SUFFICES ASSUME Init PROVE PinsInv
  OBVIOUS
<1>1. loops \in Seq(LoopRecs) /\ Len(loops) = 0 /\ DOMAIN loops = {}
  BY EmptySeq DEF Init
<1>2. /\ open = FALSE /\ active = {} /\ nest = -1
      /\ nest \in -1 .. MaxNest /\ 0 <= MaxNest /\ at \in [Locals -> SUBSET Places]
  BY LoopPinsAssumption DEF Init, LoopPinsAssumption
<1>3. TypeOK
  BY <1>1, <1>2 DEF TypeOK, LoopRecs
<1> QED
  BY <1>1, <1>2, <1>3 DEF Init, PinsInv, Closed, Unpinned, PinnedFrom, LocalsCurrent

\* Every step keeps the invariant, by the lemmas above.
LEMMA PinsInvStep == ASSUME Uses = {} PROVE PinsInv /\ [Next]_vars => PinsInv'
<1> SUFFICES ASSUME PinsInv, [Next]_vars
             PROVE  PinsInv'
  OBVIOUS
<1>1. CASE Next
  BY <1>1, DefineKeeps, BeginKeeps, ToKeeps, CallKeeps, LibmKeeps, EndLoopKeeps,
     FusedUntilKeeps, ClosingKeeps DEF Next
<1>2. CASE UNCHANGED vars
  BY <1>2 DEF vars, PinsInv, TypeOK, Closed, Unpinned, PinnedFrom, Pinned, LocalsCurrent, Home
<1> QED
  BY <1>1, <1>2

\* The invariant of the pins holds throughout.
LEMMA PinsInvAlways == ASSUME Uses = {} PROVE Spec => []PinsInv
BY PinsInvInit, PinsInvStep, PTL DEF Spec

\* The compiler's pin state and the places of values keep their types.
THEOREM PinsTyped == ASSUME Uses = {} PROVE Spec => []TypeOK
<1>1. PinsInv => TypeOK
  BY DEF PinsInv
<1> QED
  BY <1>1, PinsInvAlways, PTL

\* Compiled code reads every local from where its value is, whatever loops,
\* calls and stores it goes through.
THEOREM PinsCurrent == ASSUME Uses = {} PROVE Spec => []LocalsCurrent
<1>1. PinsInv => LocalsCurrent
  BY DEF PinsInv
<1> QED
  BY <1>1, PinsInvAlways, PTL

\* The pins at the end of a loop's body are those at its top, where it branches
\* back to, and outside every loop nothing is pinned.
THEOREM PinsBracketed == ASSUME Uses = {} PROVE Spec => [](BackEdgesAgree /\ PinsOnlyInLoops)
<1>1. PinsInv => BackEdgesAgree /\ PinsOnlyInLoops
  <2> SUFFICES ASSUME PinsInv PROVE BackEdgesAgree /\ PinsOnlyInLoops
    OBVIOUS
  <2>1. /\ loops \in Seq(LoopRecs) /\ Len(loops) \in Nat /\ DOMAIN loops = 1 .. Len(loops)
        /\ loops # <<>> => Len(loops) \in DOMAIN loops
    BY LenProperties, EmptySeq DEF PinsInv, TypeOK, LoopRecs
  <2>2. PinsOnlyInLoops
    BY <2>1 DEF PinsInv, PinnedFrom, PinsOnlyInLoops
  <2>3. CASE active = {}
    BY <2>1, <2>2, <2>3 DEF PinsInv, Unpinned, BackEdgesAgree, Last
  <2>4. CASE active # {}
    <3>1. Len(loops) \in DOMAIN loops /\ ~(Len(loops) < Pinned)
      BY <2>1, <2>4 DEF PinsInv, PinnedFrom, Pinned
    <3> QED
      BY <2>2, <2>4, <3>1 DEF PinsInv, PinnedFrom, BackEdgesAgree, Last
  <2> QED
    BY <2>3, <2>4
<1> QED
  BY <1>1, PinsInvAlways, PTL
=============================================================================
