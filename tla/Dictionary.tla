----------------------------- MODULE Dictionary -----------------------------
(***************************************************************************)
(* What the session keeps beside the dictionary (src/session.rs): the code *)
(* arena's cursor, the data pointer, and the maps from names and xts that  *)
(* the compiler consults before, or instead of, the dictionary; and how    *)
(* `forget` and `marker` bring all of them back together.  The dictionary  *)
(* itself is the list of words that Overlay implements.                    *)
(*                                                                         *)
(* A word's `body` is what it was defined to do: the kind of word and its  *)
(* address, its cell or, for a colon word, the tokens a caller may inline  *)
(* in place of calling it.  `intact` says that no later code was written   *)
(* over its own.                                                           *)
(***************************************************************************)
EXTENDS Integers, Sequences, Functions, SequencesExt

CONSTANTS
  Names,      \* names a program gives its words
  Size,       \* the size of the code of each kind of word, in 16-byte units
  ArenaCap,   \* the size of the code arena, in the same units
  InlineMax,  \* INLINE_MAX
  MaxWords,   \* bound: words of the program alive at once
  MaxToks,    \* bound: tokens compiled into one definition
  MaxCells    \* bound: cells allotted

Kinds == {"create", "variable", "does", "value", "marker", "colon"}

ASSUME DictionaryAssumption ==
  /\ Size \in [Kinds -> Nat \ {0}]
  /\ {ArenaCap, InlineMax, MaxWords, MaxToks, MaxCells} \subseteq Nat

VARIABLES
  words,      \* the dictionary, oldest first: [name, body, xt, intact]
  cursor,     \* the code arena's cursor
  varHere,    \* the data pointer, in cells
  values,     \* `value` names -> cell
  varAddrs,   \* names folded to an address in compiled code -> address
  instAddrs,  \* names of CREATEd instances -> data address
  markers,    \* marker names -> snapshot
  defining,   \* defining words -> whether they have a does> part
  inlined,    \* inline_words: xt -> tokens
  pending,    \* the open definition, if any
  odd,        \* names that were redefined while live, or of which a definition
              \* failed after it had entered them in a map
  stale       \* markers that were kept though their own word was forgotten

maps == <<values, varAddrs, instAddrs, markers, defining>>
vars == <<words, cursor, varHere, maps, inlined, pending, odd, stale>>

None == [open |-> FALSE]
Empty == [n \in {} |-> 0]
Put(f, k, v) == [j \in DOMAIN f \cup {k} |-> IF j = k THEN v ELSE f[j]]

\* The defining words that bootstrap_lib makes: variable has no does> part.
Boot == [d \in {"variable", "constant"} |-> d = "constant"]

Init ==
  /\ words = <<>> /\ cursor = 0 /\ varHere = 0
  /\ values = Empty /\ varAddrs = Empty /\ instAddrs = Empty /\ markers = Empty
  /\ defining = Boot
  /\ inlined = Empty
  /\ pending = None
  /\ odd = {} /\ stale = {}

----------------------------------------------------------------------------
(* The dictionary and the arena *)

\* The position of the word find-name answers, 0 if there is none.
Newest(n) == SelectLastInSeq(words, LAMBDA w : w.name = n)
Known(n) == Newest(n) # 0

Idle == pending = None

Fits(kind) == cursor + Size[kind] <= ArenaCap
Overlaps(w, from, size) == from < w.xt + Size[w.body.kind] /\ w.xt < from + size

\* The words once a body has been committed at the cursor.
Commit(kind) ==
  [k \in DOMAIN words |->
     [words[k] EXCEPT !.intact = @ /\ ~Overlaps(words[k], cursor, Size[kind])]]

CursorShort(kind) == cursor + Size[kind] - 1                     \* (mutant)
CursorAfter(kind) == cursor + Size[kind]

\* Commit a body and create a header for it; a live word of the name, if there
\* is one, is shadowed.
Publish(n, kind, at) ==
  /\ Len(words) < MaxWords
  /\ words' = Append(Commit(kind),
                     [name |-> n, body |-> [kind |-> kind, at |-> at], xt |-> cursor, intact |-> TRUE])
  /\ cursor' = CursorAfter(kind)
  /\ odd' = IF Known(n) THEN odd \cup {n} ELSE odd

----------------------------------------------------------------------------
(* Defining words.  A full arena is an error, which leaves whatever was     *)
(* done before the commit.                                                  *)

\* `create n`: pushes the data pointer; allots nothing.
Create(n) ==
  /\ Idle /\ Fits("create")
  /\ Publish(n, "create", varHere)
  /\ varAddrs' = Put(varAddrs, n, varHere)
  /\ instAddrs' = Put(instAddrs, n, varHere)
  /\ UNCHANGED <<varHere, values, markers, defining, inlined, pending, stale>>

\* `variable n`, `v constant n` and the like: replay the build tokens.
InstKind(d) == IF defining[d] THEN "does" ELSE "variable"
Instantiate(d, n) ==
  /\ Idle /\ d \in DOMAIN defining
  /\ varHere < MaxCells
  /\ instAddrs' = Put(instAddrs, n, varHere)
  /\ varAddrs' = IF defining[d] THEN varAddrs ELSE Put(varAddrs, n, varHere)
  /\ \/ Fits(InstKind(d)) /\ Publish(n, InstKind(d), varHere) /\ varHere' = varHere + 1
     \/ ~Fits(InstKind(d)) /\ odd' = odd \cup {n} /\ UNCHANGED <<words, cursor, varHere>>
  /\ UNCHANGED <<values, markers, defining, inlined, pending, stale>>

AllottedNone == varHere                                          \* (mutant)
Allotted == varHere + 1

\* `v value n`; like `:` and `marker` it acts at once, also while a definition
\* is open.
Value(n) ==
  /\ varHere < MaxCells
  /\ varHere' = Allotted
  /\ \/ Fits("value") /\ Publish(n, "value", varHere) /\ values' = Put(values, n, varHere)
     \/ ~Fits("value") /\ UNCHANGED <<words, cursor, values, odd>>
  /\ UNCHANGED <<varAddrs, instAddrs, markers, defining, inlined, pending, stale>>

----------------------------------------------------------------------------
(* Colon definitions *)

\* `: n`; within brackets it takes the place of the open definition.
Begin(n) ==
  /\ pending' = [open |-> TRUE, name |-> n, leaf |-> TRUE, toks |-> <<>>, count |-> 0,
              selfXt |-> cursor]
  /\ UNCHANGED <<words, cursor, varHere, maps, inlined, odd, stale>>

Lit(v) == [t |-> "lit", v |-> v]
Call(xt) == [t |-> "call", v |-> xt]
Store(cell) == [t |-> "store", v |-> cell]

\* compile_token: an address word folds to its address; a word that can be
\* inlined gives its tokens; any other word is called.
TokensOf(n) ==
  IF n \in DOMAIN varAddrs THEN <<Lit(varAddrs[n])>>
  ELSE LET xt == words[Newest(n)].xt
       IN  IF xt \in DOMAIN inlined THEN inlined[xt] ELSE <<Call(xt)>>

Compile(toks) ==
  /\ pending.open /\ pending.count < MaxToks
  /\ pending' = [pending EXCEPT !.count = @ + 1,
                                !.toks = IF pending.leaf THEN @ \o toks ELSE @]
  /\ UNCHANGED <<words, cursor, varHere, maps, inlined, odd, stale>>

CompileName(n) == (n \in DOMAIN varAddrs \/ Known(n)) /\ Compile(TokensOf(n))
CompileTo(n) == n \in DOMAIN values /\ Compile(<<Store(values[n])>>)
Recurse == pending.open /\ Compile(<<Call(pending.selfXt)>>)

\* if, begin, do and the like: the definition cannot be inlined.
Branch ==
  /\ pending.open /\ pending.leaf
  /\ pending' = [pending EXCEPT !.leaf = FALSE, !.toks = <<>>]
  /\ UNCHANGED <<words, cursor, varHere, maps, inlined, odd, stale>>

\* The tokens the finished definition may be inlined as: one list or none.
Expand(tok) == IF tok.t = "call" /\ tok.v \in DOMAIN inlined THEN inlined[tok.v] ELSE <<tok>>
Expanded(toks) == FlattenSeq([i \in DOMAIN toks |-> Expand(toks[i])])
Straight == {x \in {Expanded(pending.toks)} : pending.leaf}
Short(x) == Len(x) <= InlineMax /\ Len(pending.toks) <= InlineMax
Inlinable == {x \in Straight : Short(x)}

\* `;`.  The tail call, which commit_body takes off and puts back, changes
\* nothing here.
End ==
  /\ pending.open
  /\ pending' = None
  /\ \/ /\ Fits("colon")
        /\ Publish(pending.name, "colon", Straight)
        /\ inlined' = [xt \in DOMAIN inlined \cup {cursor : x \in Inlinable} |->
                        IF xt = cursor /\ Inlinable # {}
                        THEN CHOOSE x \in Inlinable : TRUE ELSE inlined[xt]]
     \/ ~Fits("colon") /\ UNCHANGED <<words, cursor, inlined, odd>>
  /\ UNCHANGED <<varHere, maps, stale>>

\* reset_input, after an error.
Abandon ==
  /\ pending.open
  /\ pending' = None
  /\ UNCHANGED <<words, cursor, varHere, maps, inlined, odd, stale>>

----------------------------------------------------------------------------
(* Markers and forget *)

SnapshotHere ==                                                  \* (mutant)
  [count |-> Len(words), cursor |-> 0, varHere |-> varHere,
   values |-> values, varAddrs |-> varAddrs, instAddrs |-> instAddrs, defining |-> defining]
SnapshotCells ==                                                 \* (mutant)
  [count |-> Len(words), cursor |-> cursor, varHere |-> 0,
   values |-> values, varAddrs |-> varAddrs, instAddrs |-> instAddrs, defining |-> defining]
Snapshot ==
  [count |-> Len(words), cursor |-> cursor, varHere |-> varHere,
   values |-> values, varAddrs |-> varAddrs, instAddrs |-> instAddrs, defining |-> defining]

Marker(n) ==
  /\ Fits("marker")
  /\ Publish(n, "marker", 0)
  /\ markers' = Put(markers, n, Snapshot)
  /\ stale' = stale \ {n}
  /\ UNCHANGED <<varHere, values, varAddrs, instAddrs, defining, inlined, pending>>

\* Markers older than the one that ran, whose index_here is above its own.
OlderAll(m) == DOMAIN markers                                    \* (mutant)
Older(m) == {n \in DOMAIN markers : markers[n].count < m.count}

\* Executing a marker's name, which does not ask the dictionary.  What a stale
\* snapshot would bring back is not modelled.
RunMarker(n) ==
  /\ n \in DOMAIN markers \ stale
  /\ LET m == markers[n]
     IN  /\ words' = SubSeq(words, 1, m.count)
         /\ cursor' = m.cursor /\ varHere' = m.varHere
         /\ values' = m.values /\ varAddrs' = m.varAddrs
         /\ instAddrs' = m.instAddrs /\ defining' = m.defining
         /\ markers' = Restrict(markers, Older(m) \ {n})
  /\ stale' = stale \cap DOMAIN markers'
  /\ UNCHANGED <<inlined, pending, odd>>

\* prune_maps: drop the entries whose name the dictionary no longer has.
Unpruned(f, ws) == f                                             \* (mutant)
Pruned(f, ws) == Restrict(f, {n \in DOMAIN f : \E k \in DOMAIN ws : ws[k].name = n})

Survivors(n) == SubSeq(words, 1, Newest(n) - 1)

Forget(n) ==
  /\ Known(n)
  /\ words' = Survivors(n)
  /\ values' = Pruned(values, words')
  /\ varAddrs' = Pruned(varAddrs, words')
  /\ instAddrs' = Pruned(instAddrs, words')
  /\ markers' = Pruned(markers, words')
  /\ defining' = Pruned(defining, words')
  /\ stale' = {k \in DOMAIN markers' : k \in stale \/ markers[k].count >= Len(words')}
  /\ UNCHANGED <<cursor, varHere, inlined, pending, odd>>

----------------------------------------------------------------------------
Next ==
  \/ \E n \in Names :
       \/ Create(n)
       \/ Value(n)
       \/ Begin(n)
       \/ CompileName(n)
       \/ CompileTo(n)
       \/ Marker(n)
       \/ RunMarker(n)
       \/ Forget(n)
       \/ \E d \in DOMAIN defining : Instantiate(d, n)
  \/ Recurse
  \/ Branch
  \/ End
  \/ Abandon

Spec == Init /\ [][Next]_vars

----------------------------------------------------------------------------
(* Properties *)

Tokens == [t : {"lit", "call", "store"}, v : Nat]

\* The types of the dictionary, the maps and the open definition.
TypeOK ==
  /\ \A k \in DOMAIN words :
       /\ words[k].name \in Names
       /\ words[k].xt \in 0 .. ArenaCap
       /\ words[k].body.kind \in Kinds
       /\ words[k].body.kind # "colon" => words[k].body.at \in 0 .. MaxCells
  /\ cursor \in 0 .. ArenaCap /\ varHere \in 0 .. MaxCells
  /\ \A f \in {values, varAddrs, instAddrs} :
       DOMAIN f \subseteq Names /\ \A n \in DOMAIN f : f[n] \in 0 .. MaxCells
  /\ DOMAIN markers \subseteq Names
  /\ \A xt \in DOMAIN inlined :
       inlined[xt] \in Seq(Tokens) /\ Len(inlined[xt]) <= InlineMax
  /\ pending.open => pending.name \in Names /\ pending.count \in 0 .. MaxToks

\* No live word's code has been written over: giving code space back never
\* gives back a live word's.
CodeIntact == \A k \in DOMAIN words : words[k].intact

\* The cell of a live `value` or `variable` belongs to no other live word.
OwnsCell == {"value", "variable", "does"}
CellsApart ==
  \A j, k \in DOMAIN words :
    /\ words[j].body.kind \in OwnsCell => words[j].body.at < varHere
    /\ j # k /\ {words[j].body.kind, words[k].body.kind} \subseteq OwnsCell
         => words[j].body.at # words[k].body.at

\* Space that is given back, or never taken because something failed, is not
\* given to two words: not code space and not cells.
NothingShared == TypeOK /\ CodeIntact /\ CellsApart

\* The names whose newest definition is one of these kinds, and its address.
Plain == Names \ odd
ByKind(kinds) ==
  [n \in {m \in Plain : Known(m) /\ words[Newest(m)].body.kind \in kinds} |->
     words[Newest(n)].body.at]
Agrees(f, kinds) == Restrict(f, DOMAIN f \cap Plain) = ByKind(kinds)

\* `to n` stores where n fetches from: the entries of values are the names of
\* which the newest definition is a `value`, with that value's cell.
ValuesAgree == Agrees(values, {"value"})

\* A name folds to an address in compiled code exactly when executing it pushes
\* that address: the newest definition is a `create` or a `variable`.
AddressesAgree == Agrees(varAddrs, {"create", "variable"})

\* `is`, `2to`: likewise for every CREATEd instance.
InstancesAgree == Agrees(instAddrs, {"create", "variable", "does"})

\* Each marker that can be run is the word its name finds, and what it goes
\* back to is the dictionary just before that word was defined.
MarkersAgree ==
  /\ DOMAIN markers \cap Plain = DOMAIN ByKind({"marker"})
  /\ \A n \in DOMAIN markers \cap Plain : markers[n].count + 1 = Newest(n)

\* Every map agrees with the dictionary, through forget, markers and definitions
\* nested in definitions, about each name that was not redefined while it was
\* live, whatever was done to other names, and of which no definition failed.
MapsAgree == ValuesAgree /\ AddressesAgree /\ InstancesAgree /\ MarkersAgree

\* A word is inlined as what it was defined to do ("Small straight-line leaf
\* words -> their reduced token IR, spliced into callers", src/session.rs): the
\* tokens recorded under the xt of a live word are that word's own.
InlineFaithful ==
  \A k \in DOMAIN words :
    words[k].xt \in DOMAIN inlined =>
      words[k].body.kind = "colon" /\ words[k].body.at = {inlined[words[k].xt]}

\* `recurse` calls the definition it is in: the address it compiles is where
\* that definition will be committed.
RecurseCallsSelf == pending.open => pending.selfXt = cursor
=============================================================================
