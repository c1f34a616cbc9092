----------------------------- MODULE Exceptions -----------------------------
(***************************************************************************)
(* Exceptions of a running program: catch and throw                        *)
(* (kernel/exceptions.masm), the entry point with its root handler         *)
(* (kernel/main.masm), method dispatch (kernel/oop.masm) and the session's *)
(* call (src/session.rs), with the locals stack and the current object     *)
(* that compiled words and dispatch keep beside the return stack, and the  *)
(* guard that recovers from a fault (src/crash.rs).                        *)
(*                                                                         *)
(* A program is any balanced sequence of steps.  An entry of the return    *)
(* stack is a record of a kind; for a dispatch, the object before it; for  *)
(* a handler frame, the handler before it; for a word, the locals its      *)
(* epilogue takes down and those it has opened.  {: may come anywhere in a *)
(* word, more than once and in a branch, and `exit` before or after it.    *)
(***************************************************************************)
EXTENDS Integers, SequencesExt

CONSTANTS
  Objects,     \* receivers; 0 is none of them
  Sizes,       \* how many locals a word may have
  MaxFrames,   \* bound: entries of the return stack
  MaxLocals,   \* bound: cells of the locals stack above, or below, its base
  MaxOpen,     \* bound: locals that one word has open
  MaxCalls     \* bound: calls of the session

ASSUME ExceptionsAssumption ==
  /\ 0 \notin Objects /\ Objects \subseteq Nat
  /\ Sizes \subseteq Nat
  /\ MaxFrames \in Nat /\ MaxLocals \in Nat /\ MaxOpen \in Nat /\ MaxCalls \in Nat

Root == -1     \* HANDLER: the address of the frame in the user area

VARIABLES
  mode,        \* "idle" in the session, "running" in forth_main, or "dead"
  rp,          \* the return stack
  handler,     \* user_HANDLER: the place of a handler frame in rp, Root, or 0
  lp,          \* the cells of the locals stack in use, from its base
  self,        \* user_SELF
  entry,       \* the user area's copy of where forth_main was entered:
               \* RSP_CURRENT and the root frame's previous handler
  armed,       \* ARMED: whether a guard runs that would recover from a fault
  calls,
  unwound,     \* whether, since the entry, a throw that was caught left words with open locals
  skewed,      \* whether, since the entry, a word ended that had not opened what it took down
  left         \* whether a throw or a fault left a method since the last reset

machine == <<mode, rp, handler, lp, self, entry>>
vars == <<machine, armed, calls, unwound, skewed, left>>

Kinds(s) == {s[i].kind : i \in DOMAIN s}

Word(locals) == [kind |-> "word", n |-> locals, open |-> 0, prev |-> 0]
Cell == [kind |-> "cell", n |-> 0, open |-> 0, prev |-> 0]
Frame == [kind |-> "catch", n |-> 0, open |-> 0, prev |-> handler]
Dispatch(old) == [kind |-> "send", n |-> old, open |-> 0, prev |-> 0]

Bounded(s) == Len(s) <= MaxFrames /\ rp' = s
BoundedLP(n) == n \in -MaxLocals .. MaxLocals /\ lp' = n

Init ==
  /\ mode = "idle" /\ rp = <<>> /\ handler = 0 /\ lp = 0 /\ self = 0
  /\ entry = [rsp |-> 0, prev |-> 0]
  /\ armed = FALSE
  /\ calls = 0 /\ unwound = FALSE /\ skewed = FALSE /\ left = FALSE

----------------------------------------------------------------------------
(* forth_main and the session's call *)

\* The session calls a colon word, or a primitive that does (catch, execute,
\* dispatch): that one runs as a word would.
EnterKeepingLP ==                                                \* (mutant)
  /\ mode = "idle" /\ calls < MaxCalls
  /\ mode' = "running" /\ calls' = calls + 1
  /\ entry' = [rsp |-> Len(rp), prev |-> handler]
  /\ handler' = Root /\ unwound' = FALSE /\ skewed' = FALSE
  /\ \E locals \in Sizes : rp' = Append(rp, Word(locals)) /\ lp' = lp
  /\ UNCHANGED <<self, armed, left>>
Enter ==
  /\ mode = "idle" /\ calls < MaxCalls
  /\ mode' = "running" /\ calls' = calls + 1
  /\ entry' = [rsp |-> Len(rp), prev |-> handler]
  /\ handler' = Root /\ unwound' = FALSE /\ skewed' = FALSE
  /\ \E locals \in Sizes : rp' = Append(rp, Word(locals)) /\ lp' = 0
  /\ UNCHANGED <<self, armed, left>>

Finish ==
  /\ mode = "running" /\ Len(rp) = entry.rsp
  /\ mode' = "idle" /\ handler' = entry.prev
  /\ UNCHANGED <<rp, lp, self, entry, armed, calls, unwound, skewed, left>>

\* The primitives >r and r>, called from the REPL: what they leave on the
\* return stack stays there between calls.
ReplCells ==
  /\ mode = "idle"
  /\ \/ Bounded(Append(rp, Cell))
     \/ rp # <<>> /\ rp' = Front(rp)
  /\ UNCHANGED <<mode, handler, lp, self, entry, armed, calls, unwound, skewed, left>>

\* The session's reset forgets the object and empties the return stack; the
\* handler stays what it was.
Reset ==
  /\ mode = "idle" /\ calls > 0
  /\ rp' = <<>> /\ self' = 0 /\ left' = FALSE
  /\ UNCHANGED <<mode, handler, lp, entry, armed, calls, unwound, skewed>>

----------------------------------------------------------------------------
(* Compiled words *)

\* A word is in control: it owns the entries of the return stack from its own up.
InWord == mode = "running" /\ Len(rp) > entry.rsp /\ Last(rp).kind \in {"word", "cell"}

Call ==
  /\ InWord
  /\ \E locals \in Sizes : Bounded(Append(rp, Word(locals)))
  /\ UNCHANGED <<mode, handler, lp, self, entry, armed, calls, unwound, skewed, left>>

\* {: opens locals, of the word on whose cells of the return stack it comes.
OpenLocals ==
  /\ InWord
  /\ \E i \in DOMAIN rp, locals \in Sizes \ {0} :
       /\ rp[i].kind = "word" /\ \A k \in i + 1 .. Len(rp) : rp[k].kind = "cell"
       /\ rp[i].open + locals <= MaxOpen
       /\ rp' = [rp EXCEPT ![i].open = @ + locals]
       /\ BoundedLP(lp + locals)
  /\ UNCHANGED <<mode, handler, self, entry, armed, calls, unwound, skewed, left>>

\* A word ends: by ; or any `exit`, which branches to the same epilogue, or
\* by its last call.  The epilogue takes down the word's locals, open or not.
Skewed(w) == skewed \/ w.n # w.open

TailCallKeepingLocals ==                                         \* (mutant)
  /\ InWord /\ Last(rp).kind = "word"
  /\ \E locals \in Sizes : rp' = Append(Front(rp), Word(locals)) /\ BoundedLP(lp)
  /\ skewed' = Skewed(Last(rp))
  /\ UNCHANGED <<mode, handler, self, entry, armed, calls, unwound, left>>
TailCall ==
  /\ InWord /\ Last(rp).kind = "word"
  /\ \E locals \in Sizes : rp' = Append(Front(rp), Word(locals)) /\ BoundedLP(lp - Last(rp).n)
  /\ skewed' = Skewed(Last(rp))
  /\ UNCHANGED <<mode, handler, self, entry, armed, calls, unwound, left>>
Return ==
  /\ InWord /\ Last(rp).kind = "word"
  /\ rp' = Front(rp) /\ BoundedLP(lp - Last(rp).n)
  /\ skewed' = Skewed(Last(rp))
  /\ UNCHANGED <<mode, handler, self, entry, armed, calls, unwound, left>>

ToR ==
  /\ InWord
  /\ Bounded(Append(rp, Cell))
  /\ UNCHANGED <<mode, handler, lp, self, entry, armed, calls, unwound, skewed, left>>
RFrom ==
  /\ InWord /\ Last(rp).kind = "cell"
  /\ rp' = Front(rp)
  /\ UNCHANGED <<mode, handler, lp, self, entry, armed, calls, unwound, skewed, left>>

----------------------------------------------------------------------------
(* catch, throw and dispatch *)

\* catch pushes a handler frame and calls the word it was given.
Catch ==
  /\ InWord
  /\ handler' = Len(rp) + 1
  /\ \E locals \in Sizes : Bounded(rp \o <<Frame, Word(locals)>>)
  /\ UNCHANGED <<mode, lp, self, entry, armed, calls, unwound, skewed, left>>

Control(kind) == mode = "running" /\ Len(rp) > entry.rsp /\ Last(rp).kind = kind

CatchReturnsKeeping ==                                           \* (mutant)
  /\ Control("catch")
  /\ rp' = Front(rp)
  /\ UNCHANGED <<mode, handler, lp, self, entry, armed, calls, unwound, skewed, left>>
CatchReturns ==
  /\ Control("catch")
  /\ handler' = Last(rp).prev
  /\ rp' = Front(rp)
  /\ UNCHANGED <<mode, lp, self, entry, armed, calls, unwound, skewed, left>>

Unwound == SubSeq(rp, handler + 1, Len(rp))
ThrowKeeping ==                                                  \* (mutant)
  /\ InWord /\ handler # Root
  /\ rp' = SubSeq(rp, 1, handler - 1)
  /\ unwound' = (unwound \/ \E i \in DOMAIN Unwound : Unwound[i].open > 0)
  /\ left' = (left \/ "send" \in Kinds(Unwound))
  /\ UNCHANGED <<mode, handler, lp, self, entry, armed, calls, skewed>>
\* To the innermost handler.
\* The locals pointer and the current object stay as they are.
Throw ==
  /\ InWord /\ handler # Root
  /\ handler' = rp[handler].prev
  /\ rp' = SubSeq(rp, 1, handler - 1)
  /\ unwound' = (unwound \/ \E i \in DOMAIN Unwound : Unwound[i].open > 0)
  /\ left' = (left \/ "send" \in Kinds(Unwound))
  /\ UNCHANGED <<mode, lp, self, entry, armed, calls, skewed>>

AbortKeepingCells ==                                             \* (mutant)
  /\ InWord /\ handler = Root
  /\ mode' = "idle" /\ handler' = entry.prev
  /\ left' = (left \/ "send" \in Kinds(rp))
  /\ UNCHANGED <<rp, lp, self, entry, armed, calls, unwound, skewed>>
\* To the root handler: forth_main returns the code, and the session empties
\* the data stack.
Abort ==
  /\ InWord /\ handler = Root
  /\ mode' = "idle" /\ handler' = entry.prev
  /\ rp' = SubSeq(rp, 1, entry.rsp)
  /\ left' = (left \/ "send" \in Kinds(rp))
  /\ UNCHANGED <<lp, self, entry, armed, calls, unwound, skewed>>

\* ( i*x obj sel -- )
Send ==
  /\ InWord
  /\ self' \in Objects
  /\ \E locals \in Sizes : Bounded(rp \o <<Dispatch(self), Word(locals)>>)
  /\ UNCHANGED <<mode, handler, lp, entry, armed, calls, unwound, skewed, left>>
SendReturnsKeeping ==                                            \* (mutant)
  /\ Control("send")
  /\ rp' = Front(rp)
  /\ UNCHANGED <<mode, handler, lp, self, entry, armed, calls, unwound, skewed, left>>
SendReturns ==
  /\ Control("send")
  /\ self' = Last(rp).n /\ rp' = Front(rp)
  /\ UNCHANGED <<mode, handler, lp, entry, armed, calls, unwound, skewed, left>>

----------------------------------------------------------------------------
(* The crash guard *)

Guard ==
  /\ mode = "idle"
  /\ armed' = TRUE
  /\ UNCHANGED <<machine, calls, unwound, skewed, left>>
\* A guard ends, an inner one too: none is armed.
Unguard ==
  /\ mode = "idle"
  /\ armed' = FALSE
  /\ UNCHANGED <<machine, calls, unwound, skewed, left>>

\* A fault jumps out of forth_main into the guard armed last: what the user
\* area holds is what it held, the handler among it.
Fault ==
  /\ mode = "running" /\ armed
  /\ mode' = "idle" /\ armed' = FALSE
  /\ rp' = SubSeq(rp, 1, entry.rsp)
  /\ left' = (left \/ "send" \in Kinds(rp))
  /\ UNCHANGED <<handler, lp, self, entry, calls, unwound, skewed>>
\* Unguarded it ends the process, and all it kept.
Die ==
  /\ mode = "running" /\ ~armed
  /\ mode' = "dead" /\ rp' = <<>> /\ handler' = 0 /\ lp' = 0 /\ self' = 0
  /\ entry' = [rsp |-> 0, prev |-> 0]
  /\ UNCHANGED <<armed, calls, unwound, skewed, left>>

Next ==
  \/ Enter \/ Finish \/ ReplCells \/ Reset
  \/ Call \/ OpenLocals \/ TailCall \/ Return \/ ToR \/ RFrom
  \/ Catch \/ CatchReturns \/ Throw \/ Abort \/ Send \/ SendReturns
  \/ Guard \/ Unguard \/ Fault \/ Die

Spec == Init /\ [][Next]_vars

----------------------------------------------------------------------------
(* Properties *)

\* The entries of the present call, and the handler frames among them.
Present == entry.rsp + 1 .. Len(rp)
Frames == {i \in Present : rp[i].kind = "catch"}
IsInnermost(h, below) ==
  /\ h \in Frames \cup {Root} /\ h < below
  /\ \A i \in Frames : i < below => i <= h

\* However catches nest and throws leave them, the handler is the innermost
\* frame that is still on the return stack, each frame leads to the one around
\* it and the last one to the root: no throw goes to a frame that is gone, nor
\* past one that is not, also after a fault left a dead frame in HANDLER.
HandlersNest ==
  mode = "running" =>
    IsInnermost(handler, Len(rp) + 1) /\ \A i \in Frames : IsInnermost(rp[i].prev, i)

\* The sum of w[k + 1] .. w[n], and the locals of each entry.
TotalOf(w, k, n) == LET sum[i \in k .. n] == IF i = k THEN 0 ELSE sum[i - 1] + w[i] IN sum[n]
Opened == [i \in DOMAIN rp |-> rp[i].open]

\* The locals pointer is above the open locals of exactly the words that run, so
\* each finds its own, wherever they are opened: until a throw leaves a word with
\* open locals, or a word ends that has not opened just what its epilogue takes
\* down.  The session's next call starts afresh.
LocalsOwned ==
  mode = "running" /\ ~unwound /\ ~skewed => lp = TotalOf(Opened, entry.rsp, Len(rp))

\* Outside every method there is no current object, inside one there is, as
\* long as no throw and no fault has left a method since the last reset.
SelfInMethods ==
  ~left => (self \in Objects <=> "send" \in Kinds(rp)) /\ self \in Objects \cup {0}

\* Between calls the return stack holds what the REPL put there and nothing
\* a word, a dispatch or a handler left, however the call ended.
RestsClean == mode = "idle" => Kinds(rp) \subseteq {"cell"}
=============================================================================
