-------------------------- MODULE DictionaryProofs --------------------------
(***************************************************************************)
(* Proofs about Dictionary, for any names, sizes and bounds, and whatever   *)
(* programs do: the types, that no space is shared, and that the maps      *)
(* agree with the dictionary about the names that are not odd.             *)
(***************************************************************************)
EXTENDS Dictionary, SequenceLemmas

----------------------------------------------------------------------------
(* The inductive invariants *)

\* The types of everything, by which every list of words has a length.
Bodies == [kind : Kinds, at : (0 .. MaxCells) \cup SUBSET Seq(Tokens)]
WordType == [name : Names, body : Bodies, xt : 0 .. ArenaCap, intact : BOOLEAN]
MapType(f) == f \in [DOMAIN f -> 0 .. MaxCells] /\ DOMAIN f \subseteq Names
SnapType(m) ==
  /\ m.count \in Nat /\ m.cursor \in 0 .. ArenaCap /\ m.varHere \in 0 .. MaxCells
  /\ MapType(m.values) /\ MapType(m.varAddrs) /\ MapType(m.instAddrs)
OpenType ==
  [open : {TRUE}, name : Names, leaf : BOOLEAN, toks : Seq(Tokens), count : 0 .. MaxToks, selfXt : Nat]
AtKind(w) == w.body.kind # "colon" => w.body.at \in 0 .. MaxCells

Typed ==
  /\ words \in Seq(WordType) /\ \A k \in 1 .. Len(words) : AtKind(words[k])
  /\ cursor \in 0 .. ArenaCap /\ varHere \in 0 .. MaxCells
  /\ MapType(values) /\ MapType(varAddrs) /\ MapType(instAddrs)
  /\ DOMAIN markers \subseteq Names /\ \A n \in DOMAIN markers : SnapType(markers[n])
  /\ \A xt \in DOMAIN inlined : inlined[xt] \in Seq(Tokens) /\ Len(inlined[xt]) <= InlineMax
  /\ pending = None \/ pending \in OpenType

\* The first m of the words ws lie below c in the arena, none written over, and
\* have cells of their own below v.
CodeBelow(ws, m, c) == \A k \in 1 .. m : ws[k].intact /\ ws[k].xt + Size[ws[k].body.kind] <= c
Owns(w) == w.body.kind \in OwnsCell
CellsOwned(ws, m, v) ==
  /\ \A k \in 1 .. m : Owns(ws[k]) => ws[k].body.at < v
  /\ \A j, k \in 1 .. m : j # k /\ Owns(ws[j]) /\ Owns(ws[k]) => ws[j].body.at # ws[k].body.at
NamesApart(ws, bad) ==
  \A j, k \in 1 .. Len(ws) : ws[j].name \notin bad /\ ws[j].name = ws[k].name => j = k

\* Each marker that is not stale is the live word just after those it goes back
\* to, and these keep within what it goes back to.
MarkerAt(ws, n, m) ==
  /\ m.count < Len(ws) /\ ws[m.count + 1].name = n /\ ws[m.count + 1].body.kind = "marker"
  /\ CodeBelow(ws, m.count, m.cursor) /\ CellsOwned(ws, m.count, m.varHere)
Apart ==
  /\ CodeBelow(words, Len(words), cursor) /\ CellsOwned(words, Len(words), varHere)
  /\ \A n \in DOMAIN markers \ stale : MarkerAt(words, n, markers[n])

\* But for the bad names, f maps exactly the names of those of the first m words
\* that are of the given kinds to what these have.
IsMap(f, ws, m, kinds, bad) ==
  /\ \A n : n \notin bad =>
       (n \in DOMAIN f <=> \E k \in 1 .. m : ws[k].name = n /\ ws[k].body.kind \in kinds)
  /\ \A k \in 1 .. m :
       ws[k].name \notin bad /\ ws[k].body.kind \in kinds => f[ws[k].name] = ws[k].body.at
AreMaps(ws, m, vs, as, is, bad) ==
  /\ IsMap(vs, ws, m, {"value"}, bad)
  /\ IsMap(as, ws, m, {"create", "variable"}, bad)
  /\ IsMap(is, ws, m, {"create", "variable", "does"}, bad)
SnapMaps(ws, m, bad) == AreMaps(ws, m.count, m.values, m.varAddrs, m.instAddrs, bad)
Mapped ==
  /\ NamesApart(words, odd) /\ stale \subseteq odd
  /\ AreMaps(words, Len(words), values, varAddrs, instAddrs, odd)
  /\ \A n \in DOMAIN markers \ stale : SnapMaps(words, markers[n], odd)
  /\ \A k \in 1 .. Len(words) :
       words[k].body.kind = "marker" /\ words[k].name \notin odd => words[k].name \in DOMAIN markers

\* The first m words of ws2 are those of ws, and still intact if they lay below c.
Same(ws, ws2, m, c) ==
  \A k \in 1 .. m :
    /\ ws2[k].name = ws[k].name /\ ws2[k].body = ws[k].body /\ ws2[k].xt = ws[k].xt
    /\ ws[k].intact /\ ws[k].xt + Size[ws[k].body.kind] <= c => ws2[k].intact

----------------------------------------------------------------------------
(* Facts about the operators *)

\* A list of words has a length, and words at its positions.
LEMMA ListFacts ==
  ASSUME NEW ws \in Seq(WordType)
  PROVE  Len(ws) \in Nat /\ DOMAIN ws = 1 .. Len(ws) /\ \A k \in 1 .. Len(ws) : ws[k] \in WordType
BY LenProperties, ElementOfSeq

\* Newest is the last position of a name, or 0 if no word has it.
LEMMA NewestIs ==
  ASSUME words \in Seq(WordType), NEW n
  PROVE  /\ Newest(n) \in 0 .. Len(words)
         /\ Newest(n) = 0 => \A k \in 1 .. Len(words) : words[k].name # n
         /\ Newest(n) # 0 => /\ words[Newest(n)].name = n
                             /\ \A k \in 1 .. Len(words) : words[k].name = n => k <= Newest(n)
<1> DEFINE I == {i \in 1 .. Len(words) : words[i].name = n}
<1>1. Len(words) \in Nat /\ I \in SUBSET Nat /\ \A i \in I : i <= Len(words)
  BY ListFacts
<1>2. Newest(n) = IF I # {} THEN Max(I) ELSE 0
  BY DEF Newest, SelectLastInSeq
<1>3. CASE I = {}
  BY <1>1, <1>2, <1>3
<1>4. CASE I # {}
  <2>1. Max(I) \in I /\ \A i \in I : i <= Max(I)
    BY <1>1, <1>4, MaxIs
  <2> QED
    BY <1>1, <1>2, <1>4, <2>1
<1> QED
  BY <1>3, <1>4

\* What publishing a word does to the list and the cursor.
LEMMA Published ==
  ASSUME Typed, NEW n \in Names, NEW kind \in Kinds, NEW at \in (0 .. MaxCells) \cup SUBSET Seq(Tokens),
         kind # "colon" => at \in 0 .. MaxCells, Fits(kind), Publish(n, kind, at)
  PROVE  /\ words' \in Seq(WordType) /\ Len(words') = Len(words) + 1
         /\ Same(words, words', Len(words), cursor)
         /\ words'[Len(words) + 1] =
              [name |-> n, body |-> [kind |-> kind, at |-> at], xt |-> cursor, intact |-> TRUE]
         /\ cursor' = cursor + Size[kind] /\ cursor' \in 0 .. ArenaCap /\ cursor < cursor'
         /\ \A k \in 1 .. Len(words') : AtKind(words'[k])
<1> DEFINE new == [name |-> n, body |-> [kind |-> kind, at |-> at], xt |-> cursor, intact |-> TRUE]
           old == Commit(kind)
<1>1. words \in Seq(WordType) /\ cursor \in 0 .. ArenaCap /\ Size \in [Kinds -> Nat \ {0}] /\ ArenaCap \in Nat
  BY DictionaryAssumption DEF Typed
<1>2. Len(words) \in Nat /\ DOMAIN words = 1 .. Len(words) /\ \A k \in 1 .. Len(words) : words[k] \in WordType
  BY <1>1, ListFacts
<1>3. cursor' = cursor + Size[kind] /\ cursor' \in 0 .. ArenaCap /\ cursor < cursor'
  BY <1>1 DEF Publish, CursorAfter, Fits
<1>4. new \in WordType
  BY <1>1 DEF WordType, Bodies
<1>5. \A k \in 1 .. Len(words) :
        old[k] = [words[k] EXCEPT !.intact = @ /\ ~Overlaps(words[k], cursor, Size[kind])]
  BY <1>2 DEF Commit
<1>6. \A k \in 1 .. Len(words) :
        /\ old[k].name = words[k].name /\ old[k].body = words[k].body /\ old[k].xt = words[k].xt
        /\ old[k] \in WordType
  <2> SUFFICES ASSUME NEW k \in 1 .. Len(words)
      PROVE /\ old[k].name = words[k].name /\ old[k].body = words[k].body /\ old[k].xt = words[k].xt
            /\ old[k] \in WordType
    OBVIOUS
  <2>1. \E b \in BOOLEAN : old[k] = [words[k] EXCEPT !.intact = b]
    <3>1. words[k].intact \in BOOLEAN
      BY <1>2 DEF WordType
    <3>2. (words[k].intact /\ ~Overlaps(words[k], cursor, Size[kind])) \in BOOLEAN
      OBVIOUS
    <3> QED
      BY <1>5, <3>2, Zenon
  <2> HIDE DEF old
  <2> QED
    BY <1>2, <2>1 DEF WordType
<1>7. \A k \in 1 .. Len(words) :
        words[k].intact /\ words[k].xt + Size[words[k].body.kind] <= cursor => old[k].intact
  <2> SUFFICES ASSUME NEW k \in 1 .. Len(words), words[k].intact,
                      words[k].xt + Size[words[k].body.kind] <= cursor
      PROVE old[k].intact
    BY Zenon
  <2>1. words[k] \in WordType
    BY <1>2
  <2>2. ~Overlaps(words[k], cursor, Size[kind])
    <3>1. words[k].xt \in Nat /\ words[k].body.kind \in Kinds
      BY <1>1, <2>1 DEF WordType, Bodies
    <3>2. Size[words[k].body.kind] \in Nat
      BY <1>1, <3>1
    <3> QED
      BY <1>1, <3>1, <3>2 DEF Overlaps
  <2>3. old[k].intact = (words[k].intact /\ ~Overlaps(words[k], cursor, Size[kind]))
    <3>1. "intact" \in DOMAIN words[k]
      BY <2>1 DEF WordType
    <3> QED
      BY <1>5, <3>1, Zenon
  <2> QED
    BY <2>2, <2>3, Zenon
<1>8. old \in Seq(WordType) /\ Len(old) = Len(words)
  <2>1. DOMAIN old = 1 .. Len(words) /\ old = [k \in 1 .. Len(words) |-> old[k]]
    BY <1>2 DEF Commit
  <2> HIDE DEF old
  <2> QED
    BY <1>2, <1>6, <2>1
<1>9. words' = Append(old, new)
  BY DEF Publish
<1> HIDE DEF old, new
<1>10. /\ words' \in Seq(WordType) /\ Len(words') = Len(words) + 1
       /\ \A i \in 1 .. Len(words) : words'[i] = old[i]
       /\ words'[Len(words) + 1] = new
  BY <1>4, <1>8, <1>9, Pushed
<1>11. Same(words, words', Len(words), cursor)
  BY <1>6, <1>7, <1>10 DEF Same
<1>12. \A k \in 1 .. Len(words') : AtKind(words'[k])
  <2> SUFFICES ASSUME NEW k \in 1 .. Len(words') PROVE AtKind(words'[k])
    OBVIOUS
  <2>1. CASE k = Len(words) + 1
    BY <1>10, <2>1 DEF AtKind, new
  <2>2. CASE k # Len(words) + 1
    <3>1. k \in 1 .. Len(words)
      BY <1>2, <1>10, <2>2
    <3>2. AtKind(words[k]) /\ words'[k].body = words[k].body
      BY <1>6, <1>10, <3>1 DEF Typed
    <3> QED
      BY <3>2 DEF AtKind
  <2> QED
    BY <2>1, <2>2
<1> QED
  BY <1>3, <1>10, <1>11, <1>12 DEF new

\* The names in the list once a word has been published.
LEMMA PublishedNames ==
  ASSUME Typed, NEW n \in Names, NEW kind \in Kinds, NEW at \in (0 .. MaxCells) \cup SUBSET Seq(Tokens),
         kind # "colon" => at \in 0 .. MaxCells, Fits(kind), Publish(n, kind, at)
  PROVE  \A k \in 1 .. Len(words') :
           words'[k].name = n \/ (k \in 1 .. Len(words) /\ words'[k].name = words[k].name)
<1>1. /\ Len(words') = Len(words) + 1 /\ Same(words, words', Len(words), cursor)
      /\ words'[Len(words) + 1] =
           [name |-> n, body |-> [kind |-> kind, at |-> at], xt |-> cursor, intact |-> TRUE]
  BY Published
<1>2. words'[Len(words) + 1].name = n /\ \A k \in 1 .. Len(words) : words'[k].name = words[k].name
  BY <1>1 DEF Same
<1>3. \A k \in 1 .. Len(words') : k = Len(words) + 1 \/ k \in 1 .. Len(words)
  BY <1>1, ListFacts DEF Typed
<1> QED
  BY <1>2, <1>3

\* Cutting the list keeps its first words as they were.
LEMMA CutWords ==
  ASSUME words \in Seq(WordType), NEW m \in 0 .. Len(words), words' = SubSeq(words, 1, m), NEW c
  PROVE  words' \in Seq(WordType) /\ Len(words') = m /\ Same(words, words', m, c)
<1>1. words' \in Seq(WordType) /\ Len(words') = m /\ \A i \in 1 .. m : words'[i] = words[i]
  BY CutTo
<1> QED
  BY <1>1 DEF Same

\* Putting an address in a map, and taking names out of it, leave it a map.
LEMMA PutType ==
  ASSUME NEW f, MapType(f), NEW n \in Names, NEW v \in 0 .. MaxCells
  PROVE  MapType(Put(f, n, v))
BY DEF MapType, Put

\* Keeping some words keeps the types.
LEMMA PrunedType ==
  ASSUME NEW f, MapType(f), NEW ws
  PROVE  MapType(Pruned(f, ws))
BY DEF MapType, Pruned, Restrict

----------------------------------------------------------------------------
(* The types of everything *)

\* The tokens that compiling a name gives, and those a definition is inlined as.
LEMMA TokensTyped ==
  ASSUME Typed
  PROVE  /\ \A n : n \in DOMAIN varAddrs \/ Known(n) => TokensOf(n) \in Seq(Tokens)
         /\ \A n \in DOMAIN values : <<Store(values[n])>> \in Seq(Tokens)
         /\ pending.open => /\ pending \in OpenType /\ <<Call(pending.selfXt)>> \in Seq(Tokens)
                            /\ Expanded(pending.toks) \in Seq(Tokens)
<1>1. MaxCells \in Nat /\ ArenaCap \in Nat /\ MapType(values) /\ MapType(varAddrs) /\ words \in Seq(WordType)
  BY DictionaryAssumption DEF Typed
<1>2. \A xt \in DOMAIN inlined : inlined[xt] \in Seq(Tokens)
  BY DEF Typed
<1>3. \A v \in Nat : /\ Lit(v) \in Tokens /\ Call(v) \in Tokens /\ Store(v) \in Tokens
  BY DEF Lit, Call, Store, Tokens
<1>4. \A t \in Tokens : <<t>> \in Seq(Tokens)
  OBVIOUS
<1>5. ASSUME NEW n, n \in DOMAIN varAddrs \/ Known(n) PROVE TokensOf(n) \in Seq(Tokens)
  <2>1. CASE n \in DOMAIN varAddrs
    <3>1. varAddrs[n] \in Nat
      BY <1>1, <2>1 DEF MapType
    <3> QED
      BY <1>3, <1>4, <2>1, <3>1 DEF TokensOf
  <2>2. CASE n \notin DOMAIN varAddrs
    <3>1. Newest(n) \in 1 .. Len(words)
      BY <1>1, <1>5, <2>2, NewestIs, ListFacts DEF Known
    <3>2. \A k \in 1 .. Len(words) : words[k].xt \in Nat
      <4>1. \A w \in WordType : w.xt \in Nat
        BY <1>1 DEF WordType
      <4> QED
        BY <1>1, <4>1, ListFacts
    <3> QED
      BY <1>2, <1>3, <1>4, <2>2, <3>1, <3>2 DEF TokensOf
  <2> QED
    BY <2>1, <2>2
<1>6. \A n \in DOMAIN values : <<Store(values[n])>> \in Seq(Tokens)
  <2> SUFFICES ASSUME NEW n \in DOMAIN values PROVE <<Store(values[n])>> \in Seq(Tokens)
    OBVIOUS
  <2>1. values[n] \in Nat
    BY <1>1 DEF MapType
  <2> QED
    BY <1>3, <1>4, <2>1
<1>7. ASSUME pending.open PROVE pending \in OpenType
  BY <1>7 DEF Typed, None
<1>8. ASSUME pending.open PROVE Expanded(pending.toks) \in Seq(Tokens)
  <2> DEFINE toks == pending.toks
             parts == [i \in DOMAIN toks |-> Expand(toks[i])]
  <2>1. toks \in Seq(Tokens)
    BY <1>7, <1>8 DEF OpenType
  <2> HIDE DEF toks
  <2>2. DOMAIN toks = 1 .. Len(toks) /\ Len(toks) \in Nat /\ \A i \in 1 .. Len(toks) : toks[i] \in Tokens
    BY <2>1, LenProperties, ElementOfSeq
  <2>3. \A t \in Tokens : Expand(t) \in Seq(Tokens)
    BY <1>2, <1>4 DEF Expand
  <2>4. parts \in Seq(Seq(Tokens))
    BY <2>2, <2>3
  <2> HIDE DEF parts
  <2>5. FlattenSeq(parts) \in Seq(Tokens)
    BY <2>4, Flattened
  <2> QED
    BY <2>5 DEF Expanded, parts, toks
<1>9. ASSUME pending.open PROVE <<Call(pending.selfXt)>> \in Seq(Tokens)
  BY <1>3, <1>4, <1>7, <1>9 DEF OpenType
<1> QED
  BY <1>5, <1>6, <1>7, <1>8, <1>9

\* Compiling tokens keeps the open definition one.
LEMMA CompileTyped ==
  ASSUME Typed, NEW toks \in Seq(Tokens), Compile(toks)
  PROVE  Typed'
<1>1. pending \in OpenType /\ pending.count < MaxToks /\ MaxToks \in Nat
  BY TokensTyped, DictionaryAssumption DEF Compile
<1>2. pending.toks \o toks \in Seq(Tokens)
  BY <1>1, ConcatProperties DEF OpenType
<1>3. pending' \in OpenType
  <2>1. PICK more \in Seq(Tokens) : pending' = [pending EXCEPT !.count = @ + 1, !.toks = more]
    <3>1. (IF pending.leaf THEN pending.toks \o toks ELSE pending.toks) \in Seq(Tokens)
      BY <1>1, <1>2 DEF OpenType
    <3> QED
      BY <3>1 DEF Compile
  <2>2. pending.count + 1 \in 0 .. MaxToks
    BY <1>1 DEF OpenType
  <2>3. PICK c \in 0 .. MaxToks : pending' = [pending EXCEPT !.count = c, !.toks = more]
    BY <2>1, <2>2
  <2> QED
    BY <1>1, <2>3 DEF OpenType
<1> QED
  BY <1>3 DEF Typed, Compile, maps

\* Of the initial state.
LEMMA InitTyped == Init => Typed
BY DictionaryAssumption DEF Init, Typed, MapType, Empty, None, SnapType

\* Every step keeps the types.
LEMMA NextTyped == Typed /\ Apart /\ [Next]_vars => Typed'
<1> SUFFICES ASSUME Typed, Apart, [Next]_vars PROVE Typed'
  OBVIOUS
<1>1. /\ ArenaCap \in Nat /\ MaxCells \in Nat /\ InlineMax \in Nat /\ MaxToks \in Nat
      /\ words \in Seq(WordType) /\ cursor \in 0 .. ArenaCap /\ varHere \in 0 .. MaxCells
      /\ Len(words) \in Nat
  BY DictionaryAssumption, ListFacts DEF Typed
<1>2. ASSUME NEW n \in Names, Create(n) PROVE Typed'
  <2>1. /\ words' \in Seq(WordType) /\ cursor' \in 0 .. ArenaCap
        /\ \A k \in 1 .. Len(words') : AtKind(words'[k])
    BY <1>1, <1>2, Published DEF Create, Kinds
  <2>2. MapType(varAddrs') /\ MapType(instAddrs')
    BY <1>1, <1>2, PutType DEF Create, Typed
  <2> QED
    BY <1>2, <2>1, <2>2 DEF Create, Typed
<1>3. ASSUME NEW n \in Names, NEW d \in DOMAIN defining, Instantiate(d, n) PROVE Typed'
  <2>1. MapType(varAddrs') /\ MapType(instAddrs')
    BY <1>1, <1>3, PutType DEF Instantiate, Typed
  <2>2. CASE Fits(InstKind(d)) /\ Publish(n, InstKind(d), varHere) /\ varHere' = varHere + 1
    <3>1. InstKind(d) \in Kinds
      BY DEF InstKind, Kinds
    <3>2. /\ words' \in Seq(WordType) /\ cursor' \in 0 .. ArenaCap
          /\ \A k \in 1 .. Len(words') : AtKind(words'[k])
      BY <1>1, <2>2, <3>1, Published
    <3>3. varHere' \in 0 .. MaxCells
      BY <1>1, <1>3, <2>2 DEF Instantiate
    <3> QED
      BY <1>3, <2>1, <3>2, <3>3 DEF Instantiate, Typed
  <2>3. CASE UNCHANGED <<words, cursor, varHere>>
    BY <1>3, <2>1, <2>3 DEF Instantiate, Typed
  <2> QED
    BY <1>3, <2>2, <2>3 DEF Instantiate
<1>4. ASSUME NEW n \in Names, Value(n) PROVE Typed'
  <2>1. varHere' \in 0 .. MaxCells
    BY <1>1, <1>4 DEF Value, Allotted
  <2>2. CASE Fits("value") /\ Publish(n, "value", varHere) /\ values' = Put(values, n, varHere)
    <3>1. /\ words' \in Seq(WordType) /\ cursor' \in 0 .. ArenaCap
          /\ \A k \in 1 .. Len(words') : AtKind(words'[k])
      BY <1>1, <2>2, Published DEF Kinds
    <3>2. MapType(values')
      BY <1>1, <2>2, PutType DEF Typed
    <3> QED
      BY <1>4, <2>1, <3>1, <3>2 DEF Value, Typed
  <2>3. CASE UNCHANGED <<words, cursor, values>>
    BY <1>4, <2>1, <2>3 DEF Value, Typed
  <2> QED
    BY <1>4, <2>2, <2>3 DEF Value
<1>5. ASSUME NEW n \in Names, Begin(n) PROVE Typed'
  <2>1. pending' \in OpenType
    BY <1>1, <1>5 DEF Begin, OpenType
  <2> QED
    BY <1>5, <2>1 DEF Begin, Typed, maps
<1>6. ASSUME NEW n \in Names, CompileName(n) PROVE Typed'
  BY <1>6, TokensTyped, CompileTyped DEF CompileName
<1>7. ASSUME NEW n \in Names, CompileTo(n) PROVE Typed'
  BY <1>7, TokensTyped, CompileTyped DEF CompileTo
<1>8. ASSUME Recurse PROVE Typed'
  BY <1>8, TokensTyped, CompileTyped DEF Recurse
<1>9. ASSUME NEW n \in Names, Marker(n) PROVE Typed'
  <2>1. /\ words' \in Seq(WordType) /\ cursor' \in 0 .. ArenaCap
        /\ \A k \in 1 .. Len(words') : AtKind(words'[k])
    <3>1. 0 \in 0 .. MaxCells /\ "marker" \in Kinds
      BY <1>1 DEF Kinds
    <3> QED
      BY <1>9, <3>1, Published DEF Marker
  <2>2. SnapType(Snapshot)
    BY <1>1 DEF SnapType, Snapshot, Typed
  <2>3. DOMAIN markers' \subseteq Names /\ \A j \in DOMAIN markers' : SnapType(markers'[j])
    <3> HIDE DEF Snapshot, SnapType
    <3> QED
      BY <1>9, <2>2 DEF Marker, Put, Typed
  <2> QED
    BY <1>9, <2>1, <2>3 DEF Marker, Typed
<1>10. ASSUME NEW n \in Names, RunMarker(n) PROVE Typed'
  <2> DEFINE m == markers[n]
  <2>1. SnapType(m) /\ m.count < Len(words)
    BY <1>10 DEF RunMarker, Typed, Apart, MarkerAt
  <2>2. /\ words' = SubSeq(words, 1, m.count) /\ m.count \in 0 .. Len(words)
        /\ cursor' \in 0 .. ArenaCap /\ varHere' \in 0 .. MaxCells
        /\ MapType(values') /\ MapType(varAddrs') /\ MapType(instAddrs')
        /\ inlined' = inlined /\ pending' = pending /\ cursor' = m.cursor
    BY <1>1, <1>10, <2>1 DEF RunMarker, SnapType
  <2>3. words' \in Seq(WordType) /\ Len(words') = m.count /\ Same(words, words', m.count, 0)
    BY <1>1, <2>2, CutWords
  <2>4. \A k \in 1 .. Len(words') : AtKind(words'[k])
    BY <1>1, <2>2, <2>3 DEF AtKind, Typed, Same
  <2>5. DOMAIN markers' \subseteq Names /\ \A j \in DOMAIN markers' : SnapType(markers'[j])
    <3> HIDE DEF SnapType
    <3> QED
      BY <1>10 DEF RunMarker, Restrict, Older, Typed
  <2> QED
    BY <2>2, <2>3, <2>4, <2>5 DEF Typed
<1>11. ASSUME NEW n \in Names, Forget(n) PROVE Typed'
  <2> DEFINE m == Newest(n) - 1
  <2>1. m \in 0 .. Len(words) /\ words' = SubSeq(words, 1, m)
    BY <1>1, <1>11, NewestIs DEF Forget, Known, Survivors
  <2> HIDE DEF m
  <2>2. words' \in Seq(WordType) /\ Len(words') = m /\ Same(words, words', m, 0)
    BY <1>1, <2>1, CutWords
  <2>3. \A k \in 1 .. Len(words') : AtKind(words'[k])
    BY <1>1, <2>1, <2>2 DEF AtKind, Typed, Same
  <2>4. MapType(values') /\ MapType(varAddrs') /\ MapType(instAddrs')
    BY <1>11, PrunedType DEF Forget, Typed
  <2>5. DOMAIN markers' \subseteq Names /\ \A j \in DOMAIN markers' : SnapType(markers'[j])
    <3> HIDE DEF SnapType
    <3> QED
      BY <1>11 DEF Forget, Pruned, Restrict, Typed
  <2> QED
    BY <1>11, <2>2, <2>3, <2>4, <2>5 DEF Forget, Typed
<1>12. ASSUME Branch PROVE Typed'
  <2>1. pending \in OpenType
    BY <1>12, TokensTyped DEF Branch
  <2>2. pending' \in OpenType
    <3>1. <<>> \in Seq(Tokens)
      OBVIOUS
    <3> QED
      BY <1>12, <2>1, <3>1 DEF Branch, OpenType
  <2> QED
    BY <1>12, <2>2 DEF Branch, Typed, maps
<1>13. ASSUME End PROVE Typed'
  <2>1. pending \in OpenType /\ Expanded(pending.toks) \in Seq(Tokens)
    BY <1>13, TokensTyped DEF End
  <2>2. CASE /\ Fits("colon") /\ Publish(pending.name, "colon", Straight)
             /\ inlined' = [xt \in DOMAIN inlined \cup {cursor : x \in Inlinable} |->
                             IF xt = cursor /\ Inlinable # {}
                             THEN CHOOSE x \in Inlinable : TRUE ELSE inlined[xt]]
    <3>1. Straight \in SUBSET Seq(Tokens)
      BY <2>1 DEF Straight
    <3>2. pending.name \in Names
      BY <2>1 DEF OpenType
    <3>3. /\ words' \in Seq(WordType) /\ cursor' \in 0 .. ArenaCap
          /\ \A k \in 1 .. Len(words') : AtKind(words'[k])
      BY <1>1, <2>2, <3>1, <3>2, Published DEF Kinds
    <3>4. \A x \in Inlinable : x \in Seq(Tokens) /\ Len(x) <= InlineMax
      BY <3>1 DEF Inlinable, Short
    <3>5. \A xt \in DOMAIN inlined' : inlined'[xt] \in Seq(Tokens) /\ Len(inlined'[xt]) <= InlineMax
      <4> SUFFICES ASSUME NEW xt \in DOMAIN inlined'
                   PROVE inlined'[xt] \in Seq(Tokens) /\ Len(inlined'[xt]) <= InlineMax
        OBVIOUS
      <4>1. CASE xt = cursor /\ Inlinable # {}
        BY <2>2, <3>4, <4>1
      <4>2. CASE ~(xt = cursor /\ Inlinable # {})
        BY <2>2, <4>2 DEF Typed
      <4> QED
        BY <4>1, <4>2
    <3> QED
      BY <1>13, <3>3, <3>5 DEF End, Typed, maps
  <2>3. CASE UNCHANGED <<words, cursor, inlined>>
    BY <1>13, <2>3 DEF End, Typed, maps
  <2> QED
    BY <1>13, <2>2, <2>3 DEF End
<1>14. ASSUME Abandon PROVE Typed'
  BY <1>14 DEF Abandon, Typed, maps
<1>15. ASSUME UNCHANGED vars PROVE Typed'
  BY <1>15 DEF vars, maps, Typed
<1> QED
  BY <1>2, <1>3, <1>4, <1>5, <1>6, <1>7, <1>8, <1>9, <1>10, <1>11, <1>12, <1>13, <1>14, <1>15 DEF Next

\* The typing the proofs use implies the module's type invariant.
LEMMA TypedIsTypeOK == Typed => TypeOK
<1> SUFFICES ASSUME Typed PROVE TypeOK
  OBVIOUS
<1>1. DOMAIN words = 1 .. Len(words) /\ \A k \in 1 .. Len(words) : words[k] \in WordType
  BY ListFacts DEF Typed
<1>2. \A k \in DOMAIN words :
        /\ words[k].name \in Names /\ words[k].xt \in 0 .. ArenaCap /\ words[k].body.kind \in Kinds
        /\ words[k].body.kind # "colon" => words[k].body.at \in 0 .. MaxCells
  BY <1>1 DEF WordType, Bodies, Typed, AtKind
<1>3. \A f \in {values, varAddrs, instAddrs} :
        DOMAIN f \subseteq Names /\ \A n \in DOMAIN f : f[n] \in 0 .. MaxCells
  BY DEF Typed, MapType
<1>4. pending.open => pending.name \in Names /\ pending.count \in 0 .. MaxToks
  BY TokensTyped DEF OpenType
<1> QED
  BY <1>2, <1>3, <1>4 DEF TypeOK, Typed

----------------------------------------------------------------------------
(* Nothing is shared *)

\* Where running a marker and forgetting cut the list.
LEMMA CutPoints ==
  ASSUME Typed, Apart, NEW n
  PROVE  /\ RunMarker(n) => /\ markers[n].count \in 0 .. Len(words)
                            /\ words' = SubSeq(words, 1, markers[n].count)
         /\ Forget(n) => /\ Newest(n) - 1 \in 0 .. Len(words) /\ Newest(n) \in 1 .. Len(words)
                         /\ words' = SubSeq(words, 1, Newest(n) - 1)
<1>1. words \in Seq(WordType) /\ Len(words) \in Nat /\ \A k \in DOMAIN markers : markers[k].count \in Nat
  BY ListFacts DEF Typed, SnapType
<1> QED
  BY <1>1, NewestIs DEF RunMarker, Forget, Known, Survivors, Apart, MarkerAt

\* Words that stay the same keep their code and their cells ...
LEMMA CodeKept ==
  ASSUME NEW ws, NEW ws2, NEW m, NEW c, NEW c2, Same(ws, ws2, m, c2), CodeBelow(ws, m, c2), CodeBelow(ws, m, c)
  PROVE  CodeBelow(ws2, m, c)
BY DEF Same, CodeBelow

\* Forget and a marker take the cells above their mark from words that go away.
LEMMA CellsKept ==
  ASSUME NEW ws, NEW ws2, NEW m, NEW v, NEW c, Same(ws, ws2, m, c), CellsOwned(ws, m, v)
  PROVE  CellsOwned(ws2, m, v)
BY DEF Same, CellsOwned, Owns

\* ... the first of them too ...
LEMMA SameFewer ==
  ASSUME NEW ws, NEW ws2, NEW m \in Nat, NEW j \in 0 .. m, NEW c, Same(ws, ws2, m, c)
  PROVE  /\ Same(ws, ws2, j, c)
         /\ CodeBelow(ws, m, c) => CodeBelow(ws, j, c)
BY DEF Same, CodeBelow

\* ... and a marker among them stays one.
LEMMA MarkerKept ==
  ASSUME NEW ws \in Seq(WordType), NEW ws2 \in Seq(WordType), NEW p \in 0 .. Len(ws2), NEW c,
         Same(ws, ws2, p, c), CodeBelow(ws, p, c),
         NEW n, NEW m, SnapType(m), MarkerAt(ws, n, m), m.count < p
  PROVE  MarkerAt(ws2, n, m)
<1>1. p \in Nat /\ Len(ws2) \in Nat /\ m.count \in 0 .. p /\ m.count + 1 \in 1 .. p
  BY ListFacts DEF SnapType
<1>2. Same(ws, ws2, m.count, c) /\ CodeBelow(ws, m.count, c)
  BY <1>1, SameFewer
<1>3. CodeBelow(ws2, m.count, m.cursor) /\ CellsOwned(ws2, m.count, m.varHere)
  BY <1>2, CodeKept, CellsKept DEF MarkerAt
<1>4. ws2[m.count + 1].name = n /\ ws2[m.count + 1].body.kind = "marker"
  BY <1>1 DEF MarkerAt, Same
<1>5. m.count < Len(ws2)
  BY <1>1
<1> QED
  BY <1>3, <1>4, <1>5 DEF MarkerAt

\* A new word takes code space above all others', and if it has a cell one above
\* all others'.
LEMMA GrownApart ==
  ASSUME Typed, Apart, NEW n \in Names, NEW kind \in Kinds,
         NEW at \in (0 .. MaxCells) \cup SUBSET Seq(Tokens), kind # "colon" => at \in 0 .. MaxCells,
         Fits(kind), Publish(n, kind, at),
         IF kind \in OwnsCell THEN at = varHere /\ varHere' = varHere + 1 ELSE varHere' = varHere
  PROVE  /\ CodeBelow(words', Len(words'), cursor') /\ CellsOwned(words', Len(words'), varHere')
         /\ \A j \in DOMAIN markers \ stale : MarkerAt(words', j, markers[j])
         /\ kind = "marker" => MarkerAt(words', n, Snapshot)
<1> DEFINE p == Len(words)
<1>1. /\ words \in Seq(WordType) /\ p \in Nat /\ cursor \in Nat /\ varHere \in Nat /\ Size[kind] \in Nat
      /\ CodeBelow(words, p, cursor) /\ CellsOwned(words, p, varHere)
  BY DictionaryAssumption, ListFacts DEF Typed, Apart
<1>2. /\ words' \in Seq(WordType) /\ Len(words') = p + 1 /\ Same(words, words', p, cursor)
      /\ words'[p + 1] = [name |-> n, body |-> [kind |-> kind, at |-> at], xt |-> cursor, intact |-> TRUE]
      /\ cursor' = cursor + Size[kind]
  BY Published
<1> HIDE DEF p
<1>3. /\ words'[p + 1].name = n /\ words'[p + 1].body.kind = kind /\ words'[p + 1].body.at = at
      /\ words'[p + 1].xt = cursor /\ words'[p + 1].intact
  BY <1>2
<1>4. CodeBelow(words', p, cursor) /\ CellsOwned(words', p, varHere)
  BY <1>1, <1>2, CodeKept, CellsKept
<1>5. \A k \in 1 .. p + 1 : k = p + 1 \/ k \in 1 .. p
  BY <1>1
<1>6. CodeBelow(words', p + 1, cursor')
  <2> SUFFICES ASSUME NEW k \in 1 .. p + 1
               PROVE words'[k].intact /\ words'[k].xt + Size[words'[k].body.kind] <= cursor'
    BY DEF CodeBelow
  <2>1. CASE k = p + 1
    BY <1>1, <1>2, <1>3, <2>1
  <2>2. CASE k \in 1 .. p
    <3>1. words'[k].intact /\ words'[k].xt + Size[words'[k].body.kind] <= cursor
      BY <1>4, <2>2 DEF CodeBelow
    <3>2. words'[k].xt + Size[words'[k].body.kind] \in Int
      <4>1. words'[k] \in WordType
        BY <1>2, ListFacts
      <4>2. words'[k].xt \in Int /\ words'[k].body.kind \in Kinds
        BY <4>1 DEF WordType, Bodies
      <4>3. Size[words'[k].body.kind] \in Int
        BY <4>2, DictionaryAssumption
      <4> QED
        BY <4>2, <4>3
    <3> QED
      BY <1>1, <1>2, <3>1, <3>2
  <2> QED
    BY <1>5, <2>1, <2>2
<1>7. CellsOwned(words', p + 1, varHere')
  <2>1. \A k \in 1 .. p : Owns(words'[k]) => words'[k].body.at < varHere /\ words'[k].body.at \in Int
    <3> SUFFICES ASSUME NEW k \in 1 .. p, Owns(words'[k])
                 PROVE  words'[k].body.at < varHere /\ words'[k].body.at \in Int
      OBVIOUS
    <3>1. words'[k].body = words[k].body /\ AtKind(words[k])
      BY <1>2 DEF Same, Typed, p
    <3> QED
      BY <1>4, <3>1, DictionaryAssumption DEF CellsOwned, AtKind, Owns, OwnsCell
  <2>2. Owns(words'[p + 1]) => words'[p + 1].body.at = varHere /\ varHere' = varHere + 1
    BY <1>3 DEF Owns
  <2>3. varHere' = varHere \/ varHere' = varHere + 1
    OBVIOUS
  <2>4. \A k \in 1 .. p + 1 : Owns(words'[k]) => words'[k].body.at < varHere'
    BY <1>1, <1>5, <2>1, <2>2, <2>3
  <2>5. \A j, k \in 1 .. p + 1 : j # k /\ Owns(words'[j]) /\ Owns(words'[k]) =>
          words'[j].body.at # words'[k].body.at
    <3> SUFFICES ASSUME NEW j \in 1 .. p + 1, NEW k \in 1 .. p + 1, j # k,
                        Owns(words'[j]), Owns(words'[k])
                 PROVE  words'[j].body.at # words'[k].body.at
      OBVIOUS
    <3>1. CASE j \in 1 .. p /\ k \in 1 .. p
      BY <1>4, <3>1 DEF CellsOwned
    <3>2. CASE j = p + 1 /\ k \in 1 .. p
      BY <1>1, <2>1, <2>2, <3>2
    <3>3. CASE j \in 1 .. p /\ k = p + 1
      BY <1>1, <2>1, <2>2, <3>3
    <3> QED
      BY <1>5, <3>1, <3>2, <3>3
  <2> QED
    BY <2>4, <2>5 DEF CellsOwned
<1>9. ASSUME NEW j \in DOMAIN markers \ stale PROVE MarkerAt(words', j, markers[j])
  <2>1. SnapType(markers[j]) /\ MarkerAt(words, j, markers[j]) /\ markers[j].count < p
    BY <1>9 DEF Typed, Apart, MarkerAt, p
  <2>2. p \in 0 .. Len(words')
    BY <1>1, <1>2
  <2> QED
    BY <1>1, <1>2, <2>1, <2>2, MarkerKept
<1>10. ASSUME kind = "marker" PROVE MarkerAt(words', n, Snapshot)
  BY <1>1, <1>2, <1>3, <1>4, <1>10 DEF MarkerAt, Snapshot, p
<1> QED
  BY <1>2, <1>6, <1>7, <1>9, <1>10

\* A list cut keeps what its words have.
LEMMA CutApart ==
  ASSUME Typed, Apart, NEW m \in 0 .. Len(words), words' = SubSeq(words, 1, m),
         NEW c, CodeBelow(words, m, c), NEW v, CellsOwned(words, m, v)
  PROVE  /\ CodeBelow(words', Len(words'), c) /\ CellsOwned(words', Len(words'), v)
         /\ \A j \in DOMAIN markers \ stale : markers[j].count < m => MarkerAt(words', j, markers[j])
<1>1. words \in Seq(WordType) /\ Len(words) \in Nat /\ m \in Nat /\ CodeBelow(words, Len(words), cursor)
  BY ListFacts DEF Typed, Apart
<1>2. \A c2 : words' \in Seq(WordType) /\ Len(words') = m /\ Same(words, words', m, c2)
  BY <1>1, CutWords
<1>3. CodeBelow(words', m, c) /\ CellsOwned(words', m, v)
  BY <1>2, CodeKept, CellsKept
<1>5. ASSUME NEW j \in DOMAIN markers \ stale, markers[j].count < m PROVE MarkerAt(words', j, markers[j])
  <2>1. SnapType(markers[j]) /\ MarkerAt(words, j, markers[j])
    BY DEF Typed, Apart
  <2>2. CodeBelow(words, m, cursor)
    BY <1>1 DEF CodeBelow
  <2>3. m \in 0 .. Len(words')
    BY <1>1, <1>2
  <2> QED
    BY <1>1, <1>2, <1>5, <2>1, <2>2, <2>3, MarkerKept
<1> QED
  BY <1>2, <1>3, <1>5

\* Steps that leave the words and the code alone; failing may cost a cell.
LEMMA SameApart ==
  ASSUME Typed, Apart, UNCHANGED <<words, cursor, markers, stale>>, varHere' \in {varHere, varHere + 1}
  PROVE  Apart'
<1>1. /\ varHere \in Nat /\ CodeBelow(words, Len(words), cursor)
      /\ CellsOwned(words, Len(words), varHere)
  BY DictionaryAssumption DEF Typed, Apart
<1>2. CellsOwned(words, Len(words), varHere')
  <2>1. \A k \in 1 .. Len(words) : Owns(words[k]) => words[k].body.at \in Int /\ words[k].body.at < varHere
    BY <1>1, DictionaryAssumption DEF Typed, AtKind, Owns, OwnsCell, CellsOwned
  <2> QED
    BY <1>1, <2>1 DEF CellsOwned
<1>3. \A n \in DOMAIN markers \ stale : MarkerAt(words, n, markers[n])
  BY DEF Apart
<1> QED
  BY <1>1, <1>2, <1>3, Zenon DEF Apart

\* At first no code and no cell is handed out.
LEMMA InitApart == Init => Apart
BY DEF Init, Apart, CodeBelow, CellsOwned, Empty

\* No step lets two words share code or cells.
LEMMA NextApart == Typed /\ Apart /\ [Next]_vars => Apart'
<1> SUFFICES ASSUME Typed, Apart, [Next]_vars PROVE Apart'
  OBVIOUS
<1> DEFINE Told == /\ CodeBelow(words', Len(words'), cursor') /\ CellsOwned(words', Len(words'), varHere')
                   /\ \A j \in DOMAIN markers' \ stale' : MarkerAt(words', j, markers'[j])
<1>1. Told => Apart'
  BY Zenon DEF Apart
<1>2. 0 \in 0 .. MaxCells /\ varHere \in 0 .. MaxCells /\ words \in Seq(WordType) /\ Len(words) \in Nat
  BY DictionaryAssumption, ListFacts DEF Typed
<1>3. ASSUME NEW n \in Names, NEW kind \in Kinds,
             NEW at \in (0 .. MaxCells) \cup SUBSET Seq(Tokens), kind # "colon" => at \in 0 .. MaxCells,
             Fits(kind), Publish(n, kind, at),
             IF kind \in OwnsCell THEN at = varHere /\ varHere' = varHere + 1 ELSE varHere' = varHere,
             UNCHANGED <<markers, stale>>
      PROVE  Apart'
  BY <1>1, <1>3, GrownApart
<1>4. ASSUME NEW n \in Names, Create(n) PROVE Apart'
  BY <1>2, <1>3, <1>4 DEF Create, Kinds, OwnsCell
<1>5. ASSUME NEW n \in Names, NEW d \in DOMAIN defining, Instantiate(d, n) PROVE Apart'
  <2>1. InstKind(d) \in {"does", "variable"}
    BY DEF InstKind
  <2>2. CASE Fits(InstKind(d)) /\ Publish(n, InstKind(d), varHere) /\ varHere' = varHere + 1
    BY <1>2, <1>3, <1>5, <2>1, <2>2 DEF Instantiate, Kinds, OwnsCell
  <2>3. CASE UNCHANGED <<words, cursor, varHere>>
    BY <1>5, <2>3, SameApart DEF Instantiate
  <2> QED
    BY <1>5, <2>2, <2>3 DEF Instantiate
<1>6. ASSUME NEW n \in Names, Value(n) PROVE Apart'
  <2>1. varHere' = varHere + 1
    BY <1>6 DEF Value, Allotted
  <2>2. CASE Fits("value") /\ Publish(n, "value", varHere)
    BY <1>2, <1>3, <1>6, <2>1, <2>2 DEF Value, Kinds, OwnsCell
  <2>3. CASE UNCHANGED <<words, cursor>>
    BY <1>6, <2>1, <2>3, SameApart DEF Value
  <2> QED
    BY <1>6, <2>2, <2>3 DEF Value
<1>7. ASSUME NEW n \in Names, Begin(n) PROVE Apart'
  BY <1>7, SameApart DEF Begin, maps
<1>8. ASSUME NEW toks, Compile(toks) PROVE Apart'
  BY <1>8, SameApart DEF Compile, maps
<1>9. ASSUME Branch \/ Abandon PROVE Apart'
  BY <1>9, SameApart DEF Branch, Abandon, maps
<1>10. ASSUME End PROVE Apart'
  <2>1. pending.open /\ UNCHANGED <<markers, stale, varHere>>
    BY <1>10 DEF End, maps
  <2>2. CASE Fits("colon") /\ Publish(pending.name, "colon", Straight)
    <3>1. pending.name \in Names /\ Straight \in SUBSET Seq(Tokens)
      BY <2>1, TokensTyped DEF OpenType, Straight
    <3> QED
      BY <1>3, <2>1, <2>2, <3>1 DEF Kinds, OwnsCell
  <2>3. CASE UNCHANGED <<words, cursor>>
    BY <2>1, <2>3, SameApart
  <2> QED
    BY <1>10, <2>2, <2>3 DEF End
<1>11. ASSUME NEW n \in Names, Marker(n) PROVE Apart'
  <2>1. /\ Fits("marker") /\ Publish(n, "marker", 0) /\ varHere' = varHere
        /\ markers' = Put(markers, n, Snapshot) /\ stale' = stale \ {n}
    BY <1>11 DEF Marker
  <2>2. /\ CodeBelow(words', Len(words'), cursor') /\ CellsOwned(words', Len(words'), varHere')
        /\ \A j \in DOMAIN markers \ stale : MarkerAt(words', j, markers[j])
        /\ MarkerAt(words', n, Snapshot)
    BY <1>2, <2>1, GrownApart DEF Kinds, OwnsCell
  <2>3. \A j \in DOMAIN markers' \ stale' : MarkerAt(words', j, markers'[j])
    <3> HIDE DEF Snapshot, MarkerAt
    <3> QED
      BY <2>1, <2>2 DEF Put
  <2> QED
    BY <1>1, <2>2, <2>3
<1>12. ASSUME NEW n \in Names, RunMarker(n) PROVE Apart'
  <2> DEFINE m == markers[n]
  <2>1. /\ m.count \in 0 .. Len(words) /\ words' = SubSeq(words, 1, m.count)
        /\ cursor' = m.cursor /\ varHere' = m.varHere
        /\ n \in DOMAIN markers \ stale /\ markers' = Restrict(markers, Older(m) \ {n})
        /\ stale' = stale \cap DOMAIN markers'
    BY <1>12, CutPoints DEF RunMarker
  <2>2. CodeBelow(words, m.count, m.cursor) /\ CellsOwned(words, m.count, m.varHere)
    BY <2>1 DEF Apart, MarkerAt
  <2>3. /\ CodeBelow(words', Len(words'), cursor') /\ CellsOwned(words', Len(words'), varHere')
        /\ \A j \in DOMAIN markers \ stale : markers[j].count < m.count => MarkerAt(words', j, markers[j])
    <3> HIDE DEF m
    <3> QED
      BY <2>1, <2>2, CutApart
  <2>4. \A j \in DOMAIN markers' \ stale' :
          j \in DOMAIN markers \ stale /\ markers'[j] = markers[j] /\ markers[j].count < m.count
    BY <2>1 DEF Restrict, Older
  <2> HIDE DEF m
  <2> QED
    BY <1>1, <2>3, <2>4
<1>13. ASSUME NEW n \in Names, Forget(n) PROVE Apart'
  <2> DEFINE m == Newest(n) - 1
  <2>1. /\ m \in 0 .. Len(words) /\ words' = SubSeq(words, 1, m) /\ UNCHANGED <<cursor, varHere>>
        /\ markers' = Pruned(markers, words')
        /\ stale' = {j \in DOMAIN markers' : j \in stale \/ markers[j].count >= Len(words')}
    BY <1>13, CutPoints DEF Forget
  <2> HIDE DEF m
  <2>2. CodeBelow(words, m, cursor) /\ CellsOwned(words, m, varHere)
    BY <1>2, <2>1 DEF Apart, CodeBelow, CellsOwned
  <2>3. /\ CodeBelow(words', Len(words'), cursor') /\ CellsOwned(words', Len(words'), varHere')
        /\ \A j \in DOMAIN markers \ stale : markers[j].count < m => MarkerAt(words', j, markers[j])
    BY <2>1, <2>2, CutApart
  <2>4. \A j \in DOMAIN markers' \ stale' :
          j \in DOMAIN markers \ stale /\ markers'[j] = markers[j] /\ markers[j].count < m
    <3>1. \A j \in DOMAIN markers' : j \in DOMAIN markers /\ markers'[j] = markers[j]
      BY <2>1 DEF Pruned, Restrict
    <3>2. \A j \in DOMAIN markers : markers[j].count \in Nat
      BY DEF Typed, SnapType
    <3>3. Len(words') = m
      BY <1>2, <2>1, CutWords
    <3> QED
      BY <1>2, <2>1, <3>1, <3>2, <3>3
  <2> QED
    BY <1>1, <2>3, <2>4
<1>14. ASSUME UNCHANGED vars PROVE Apart'
  BY <1>14, SameApart DEF vars, maps
<1> QED
  BY <1>4, <1>5, <1>6, <1>7, <1>8, <1>9, <1>10, <1>11, <1>12, <1>13, <1>14
     DEF Next, CompileName, CompileTo, Recurse

\* The types hold throughout: any names, any sizes, whatever programs do.
THEOREM Types == Spec => []TypeOK
BY InitTyped, NextTyped, InitApart, NextApart, TypedIsTypeOK, PTL DEF Spec

\* Forgetting and markers never give back code space or cells that a live word
\* has, nor does failing in a full arena: no two live words share any, whatever
\* is defined, redefined, forgotten and brought back, in any order.
THEOREM SpaceIsNotShared == Spec => []NothingShared
<1>1. Typed /\ Apart => CodeIntact /\ CellsApart
  <2> SUFFICES ASSUME Typed, Apart PROVE CodeIntact /\ CellsApart
    OBVIOUS
  <2>1. /\ DOMAIN words = 1 .. Len(words) /\ CodeBelow(words, Len(words), cursor)
        /\ CellsOwned(words, Len(words), varHere)
    BY ListFacts DEF Typed, Apart
  <2>2. CodeIntact
    BY <2>1 DEF CodeIntact, CodeBelow
  <2>3. CellsApart
    BY <2>1 DEF CellsApart, CellsOwned, Owns
  <2> QED
    BY <2>2, <2>3
<1> QED
  BY <1>1, InitTyped, NextTyped, InitApart, NextApart, TypedIsTypeOK, PTL DEF Spec, NothingShared
----------------------------------------------------------------------------
(* The maps agree *)

\* A map stays one while its words stay the same, of fewer names too ...
LEMMA MapKept ==
  ASSUME NEW f, NEW ws, NEW ws2, NEW m, NEW c, NEW kinds, NEW bad, NEW bad2, bad \subseteq bad2,
         Same(ws, ws2, m, c), IsMap(f, ws, m, kinds, bad)
  PROVE  IsMap(f, ws2, m, kinds, bad2)
BY DEF Same, IsMap

\* ... when it says anything of a bad name ...
LEMMA MapPut ==
  ASSUME NEW f, NEW ws, NEW m, NEW kinds, NEW bad, IsMap(f, ws, m, kinds, bad), NEW n, NEW v
  PROVE  IsMap(Put(f, n, v), ws, m, kinds, bad \cup {n})
BY DEF IsMap, Put

\* ... when a word comes, given its address if it is of the map's kinds ...
LEMMA MapGrown ==
  ASSUME NEW f, NEW ws, NEW p \in Nat, NEW kinds, NEW bad, IsMap(f, ws, p, kinds, bad),
         ws[p + 1].name \notin bad => \A k \in 1 .. p : ws[k].name # ws[p + 1].name
  PROVE  IsMap(IF ws[p + 1].body.kind \in kinds THEN Put(f, ws[p + 1].name, ws[p + 1].body.at) ELSE f,
               ws, p + 1, kinds, bad)
<1> DEFINE n == ws[p + 1].name
           v == ws[p + 1].body.at
<1>1. \A k \in 1 .. p + 1 : k = p + 1 \/ k \in 1 .. p
  OBVIOUS
<1>2. p + 1 \in 1 .. p + 1 /\ \A k \in 1 .. p : k \in 1 .. p + 1
  OBVIOUS
<1>3. CASE ws[p + 1].body.kind \notin kinds
  BY <1>1, <1>2, <1>3 DEF IsMap
<1>4. CASE ws[p + 1].body.kind \in kinds
  <2> DEFINE g == Put(f, n, v)
  <2>1. DOMAIN g = DOMAIN f \cup {n} /\ g[n] = v /\ \A j \in DOMAIN f : j # n => g[j] = f[j]
    BY DEF Put
  <2> HIDE DEF g, n, v
  <2>2. \A j : j \notin bad => (j \in DOMAIN f <=> \E k \in 1 .. p : ws[k].name = j /\ ws[k].body.kind \in kinds)
    BY DEF IsMap
  <2>3. \A j : j \notin bad =>
          (j \in DOMAIN g <=> \E k \in 1 .. p + 1 : ws[k].name = j /\ ws[k].body.kind \in kinds)
    BY <1>1, <1>2, <1>4, <2>1, <2>2 DEF n
  <2>4. \A k \in 1 .. p + 1 :
          ws[k].name \notin bad /\ ws[k].body.kind \in kinds => g[ws[k].name] = ws[k].body.at
    <3> SUFFICES ASSUME NEW k \in 1 .. p + 1, ws[k].name \notin bad, ws[k].body.kind \in kinds
                 PROVE  g[ws[k].name] = ws[k].body.at
      OBVIOUS
    <3>1. CASE k = p + 1
      BY <2>1, <3>1 DEF n, v
    <3>2. CASE k \in 1 .. p
      <4>1. ws[k].name # n
        BY <3>2 DEF n
      <4> QED
        BY <2>1, <2>2, <3>2, <4>1 DEF IsMap
    <3> QED
      BY <1>1, <3>1, <3>2
  <2>5. IsMap(g, ws, p + 1, kinds, bad)
    BY <2>3, <2>4 DEF IsMap
  <2> QED
    BY <1>4, <2>5 DEF g, n, v
<1> QED
  BY <1>3, <1>4

\* ... and, pruned, when the list is cut.
LEMMA MapPruned ==
  ASSUME NEW f, NEW ws, Len(ws) \in Nat, NEW kinds, NEW bad, IsMap(f, ws, Len(ws), kinds, bad),
         NamesApart(ws, bad),
         NEW m \in 0 .. Len(ws), NEW ws2, DOMAIN ws2 = 1 .. m, NEW c, Same(ws, ws2, m, c)
  PROVE  IsMap(Pruned(f, ws2), ws2, m, kinds, bad)
<1> DEFINE g == Pruned(f, ws2)
<1>1. /\ \A j : j \in DOMAIN g <=> j \in DOMAIN f /\ \E k \in 1 .. m : ws2[k].name = j
      /\ \A j \in DOMAIN g : g[j] = f[j]
  BY DEF Pruned, Restrict
<1> HIDE DEF g
<1>2. \A k \in 1 .. m : k \in 1 .. Len(ws) /\ ws2[k].name = ws[k].name /\ ws2[k].body = ws[k].body
  BY DEF Same
<1>3. \A j : j \notin bad =>
        (j \in DOMAIN f <=> \E k \in 1 .. Len(ws) : ws[k].name = j /\ ws[k].body.kind \in kinds)
  BY DEF IsMap
<1>4. ASSUME NEW j, j \notin bad
      PROVE  j \in DOMAIN g <=> \E k \in 1 .. m : ws2[k].name = j /\ ws2[k].body.kind \in kinds
  <2>1. ASSUME j \in DOMAIN g
        PROVE  \E k \in 1 .. m : ws2[k].name = j /\ ws2[k].body.kind \in kinds
    <3>1. PICK k \in 1 .. m : ws2[k].name = j
      BY <1>1, <2>1
    <3>2. PICK i \in 1 .. Len(ws) : ws[i].name = j /\ ws[i].body.kind \in kinds
      BY <1>1, <1>3, <1>4, <2>1
    <3>3. i = k
      BY <1>2, <1>4, <3>1, <3>2 DEF NamesApart
    <3> QED
      BY <1>2, <3>1, <3>2, <3>3
  <2>2. ASSUME NEW k \in 1 .. m, ws2[k].name = j, ws2[k].body.kind \in kinds PROVE j \in DOMAIN g
    BY <1>1, <1>2, <1>3, <1>4, <2>2
  <2> QED
    BY <2>1, <2>2
<1>5. \A k \in 1 .. m :
        ws2[k].name \notin bad /\ ws2[k].body.kind \in kinds => g[ws2[k].name] = ws2[k].body.at
  <2> SUFFICES ASSUME NEW k \in 1 .. m, ws2[k].name \notin bad, ws2[k].body.kind \in kinds
               PROVE  g[ws2[k].name] = ws2[k].body.at
    OBVIOUS
  <2>1. ws2[k].name \in DOMAIN g
    BY <1>4
  <2>2. f[ws[k].name] = ws[k].body.at
    BY <1>2 DEF IsMap
  <2> QED
    BY <1>1, <1>2, <2>1, <2>2
<1> QED
  BY <1>4, <1>5 DEF IsMap, g

\* What a marker goes back to maps the same words after a step that keeps them.
LEMMA SnapKept ==
  ASSUME NEW ws, NEW ws2, NEW p \in Nat, NEW c, NEW m, m.count \in 0 .. p, Same(ws, ws2, p, c),
         NEW bad, NEW bad2, bad \subseteq bad2, SnapMaps(ws, m, bad)
  PROVE  SnapMaps(ws2, m, bad2)
<1>1. Same(ws, ws2, m.count, c)
  BY SameFewer
<1> QED
  BY <1>1, MapKept DEF SnapMaps, AreMaps

\* What a new word does to the names and the maps.
LEMMA GrownMapped ==
  ASSUME Typed, Apart, Mapped, NEW n \in Names, NEW kind \in Kinds,
         NEW at \in (0 .. MaxCells) \cup SUBSET Seq(Tokens), kind # "colon" => at \in 0 .. MaxCells,
         Fits(kind), Publish(n, kind, at)
  PROVE  /\ NamesApart(words', odd') /\ odd \subseteq odd'
         /\ \A f, kinds : IsMap(f, words, Len(words), kinds, odd) =>
              /\ IsMap(IF kind \in kinds THEN Put(f, n, at) ELSE f, words', Len(words'), kinds, odd')
              /\ IsMap(f, words', Len(words), kinds, odd')
         /\ \A j \in DOMAIN markers \ stale : SnapMaps(words', markers[j], odd')
         /\ \A k \in 1 .. Len(words') : words'[k].body.kind = "marker" /\ words'[k].name \notin odd' =>
              words'[k].name \in DOMAIN markers \/ (kind = "marker" /\ words'[k].name = n)
<1> DEFINE p == Len(words)
<1>1. p \in Nat /\ words \in Seq(WordType)
  BY ListFacts DEF Typed
<1>2. /\ Len(words') = p + 1 /\ Same(words, words', p, cursor)
      /\ words'[p + 1] = [name |-> n, body |-> [kind |-> kind, at |-> at], xt |-> cursor, intact |-> TRUE]
  BY Published
<1>3. words'[p + 1].name = n /\ words'[p + 1].body.kind = kind /\ words'[p + 1].body.at = at
  BY <1>2
<1>4. /\ odd \subseteq odd'
      /\ n \notin odd' => \A k \in 1 .. p : words'[k].name # n
  <2>1. odd' = IF Known(n) THEN odd \cup {n} ELSE odd
    BY DEF Publish
  <2>2. ~Known(n) => \A k \in 1 .. p : words[k].name # n
    BY <1>1, NewestIs DEF Known
  <2>3. \A k \in 1 .. p : words'[k].name = words[k].name
    BY <1>2 DEF Same
  <2> HIDE DEF p
  <2> QED
    BY <2>1, <2>2, <2>3, Zenon
<1>5. NamesApart(words, odd)
  BY DEF Mapped
<1>6. \A k \in 1 .. p : words'[k].name = words[k].name /\ words'[k].body = words[k].body
  BY <1>2 DEF Same
<1>7. NamesApart(words', odd')
  <2> SUFFICES ASSUME NEW j \in 1 .. p + 1, NEW k \in 1 .. p + 1,
                      words'[j].name \notin odd', words'[j].name = words'[k].name
               PROVE  j = k
    BY <1>2 DEF NamesApart
  <2> HIDE DEF p
  <2>1. CASE j = p + 1 \/ k = p + 1
    BY <1>1, <1>3, <1>4, <2>1
  <2>2. CASE j \in 1 .. p /\ k \in 1 .. p
    BY <1>4, <1>5, <1>6, <2>2 DEF NamesApart, p
  <2> QED
    BY <1>1, <2>1, <2>2
<1> HIDE DEF p
<1>8. ASSUME NEW f, NEW kinds, IsMap(f, words, p, kinds, odd)
      PROVE  /\ IsMap(IF kind \in kinds THEN Put(f, n, at) ELSE f, words', p + 1, kinds, odd')
             /\ IsMap(f, words', p, kinds, odd')
  <2>1. IsMap(f, words', p, kinds, odd')
    BY <1>2, <1>4, <1>8, MapKept
  <2>2. IsMap(IF words'[p + 1].body.kind \in kinds
              THEN Put(f, words'[p + 1].name, words'[p + 1].body.at) ELSE f, words', p + 1, kinds, odd')
    <3>1. words'[p + 1].name \notin odd' => \A k \in 1 .. p : words'[k].name # words'[p + 1].name
      BY <1>3, <1>4
    <3> QED
      BY <1>1, <2>1, <3>1, MapGrown
  <2> QED
    BY <1>3, <2>1, <2>2
<1>9. ASSUME NEW j \in DOMAIN markers \ stale PROVE SnapMaps(words', markers[j], odd')
  <2>1. SnapMaps(words, markers[j], odd) /\ markers[j].count \in 0 .. p
    BY <1>1 DEF Mapped, Apart, MarkerAt, Typed, SnapType, p
  <2> QED
    BY <1>1, <1>2, <1>4, <2>1, SnapKept
<1>10. \A k \in 1 .. p + 1 : words'[k].body.kind = "marker" /\ words'[k].name \notin odd' =>
         words'[k].name \in DOMAIN markers \/ (kind = "marker" /\ words'[k].name = n)
  <2> SUFFICES ASSUME NEW k \in 1 .. p + 1, words'[k].body.kind = "marker", words'[k].name \notin odd'
               PROVE  words'[k].name \in DOMAIN markers \/ (kind = "marker" /\ words'[k].name = n)
    OBVIOUS
  <2>1. CASE k = p + 1
    BY <1>3, <2>1
  <2>2. CASE k \in 1 .. p
    BY <1>4, <1>6, <2>2 DEF Mapped, p
  <2> QED
    BY <1>1, <2>1, <2>2
<1> QED
  BY <1>2, <1>4, <1>7, <1>8, <1>9, <1>10 DEF p

\* Steps that leave the words, the maps and the markers alone.
LEMMA SameMapped ==
  ASSUME Mapped, UNCHANGED <<words, values, varAddrs, instAddrs, markers, odd, stale>>
  PROVE  Mapped'
BY Zenon DEF Mapped

\* At first the maps and the dictionary are empty.
LEMMA InitMapped == Init => Mapped
<1> SUFFICES ASSUME Init PROVE Mapped
  OBVIOUS
<1>1. \A ws, kinds, bad : IsMap(Empty, ws, 0, kinds, bad)
  BY DEF IsMap, Empty
<1>2. /\ words = <<>> /\ values = Empty /\ varAddrs = Empty /\ instAddrs = Empty /\ DOMAIN markers = {}
      /\ stale = {}
  BY DEF Init, Empty
<1> HIDE DEF Empty
<1> QED
  BY <1>1, <1>2 DEF Mapped, AreMaps, NamesApart

\* No step lets a map say of a name that is not odd what its newest word is not.
LEMMA NextMapped == Typed /\ Apart /\ Mapped /\ [Next]_vars => Mapped'
<1> SUFFICES ASSUME Typed, Apart, Mapped, [Next]_vars PROVE Mapped'
  OBVIOUS
<1>1. /\ 0 \in 0 .. MaxCells /\ varHere \in 0 .. MaxCells /\ words \in Seq(WordType) /\ Len(words) \in Nat
      /\ NamesApart(words, odd) /\ stale \subseteq odd
      /\ IsMap(values, words, Len(words), {"value"}, odd)
      /\ IsMap(varAddrs, words, Len(words), {"create", "variable"}, odd)
      /\ IsMap(instAddrs, words, Len(words), {"create", "variable", "does"}, odd)
  BY DictionaryAssumption, ListFacts DEF Typed, Mapped, AreMaps
<1>2. ASSUME NEW n \in Names, NEW kind \in Kinds \ {"marker"},
             NEW at \in (0 .. MaxCells) \cup SUBSET Seq(Tokens), kind # "colon" => at \in 0 .. MaxCells,
             Fits(kind), Publish(n, kind, at), UNCHANGED <<markers, stale>>,
             values' = IF kind \in {"value"} THEN Put(values, n, at) ELSE values,
             varAddrs' = IF kind \in {"create", "variable"} THEN Put(varAddrs, n, at) ELSE varAddrs,
             instAddrs' = IF kind \in {"create", "variable", "does"} THEN Put(instAddrs, n, at) ELSE instAddrs
      PROVE  Mapped'
  <2>1. /\ NamesApart(words', odd') /\ odd \subseteq odd'
        /\ \A f, kinds : IsMap(f, words, Len(words), kinds, odd) =>
             IsMap(IF kind \in kinds THEN Put(f, n, at) ELSE f, words', Len(words'), kinds, odd')
        /\ \A j \in DOMAIN markers \ stale : SnapMaps(words', markers[j], odd')
        /\ \A k \in 1 .. Len(words') : words'[k].body.kind = "marker" /\ words'[k].name \notin odd' =>
             words'[k].name \in DOMAIN markers
    BY <1>2, GrownMapped
  <2>2. IsMap(values', words', Len(words'), {"value"}, odd')
    BY <1>1, <1>2, <2>1, Zenon
  <2>3. IsMap(varAddrs', words', Len(words'), {"create", "variable"}, odd')
    BY <1>1, <1>2, <2>1, Zenon
  <2>4. IsMap(instAddrs', words', Len(words'), {"create", "variable", "does"}, odd')
    BY <1>1, <1>2, <2>1, Zenon
  <2>5. stale' \subseteq odd'
    BY <1>1, <1>2, <2>1
  <2> QED
    BY <1>2, <2>1, <2>2, <2>3, <2>4, <2>5, Zenon DEF Mapped, AreMaps
<1>3. ASSUME NEW n \in Names, Create(n) PROVE Mapped'
  BY <1>1, <1>2, <1>3 DEF Create, Kinds
<1>4. ASSUME NEW n \in Names, NEW d \in DOMAIN defining, Instantiate(d, n) PROVE Mapped'
  <2>1. /\ values' = values /\ UNCHANGED <<markers, stale>> /\ instAddrs' = Put(instAddrs, n, varHere)
        /\ varAddrs' = IF defining[d] THEN varAddrs ELSE Put(varAddrs, n, varHere)
    BY <1>4 DEF Instantiate
  <2>2. CASE Fits(InstKind(d)) /\ Publish(n, InstKind(d), varHere)
    <3>1. CASE defining[d]
      <4>1. InstKind(d) = "does"
        BY <3>1 DEF InstKind
      <4> QED
        BY <1>1, <1>2, <2>1, <2>2, <3>1, <4>1 DEF Kinds
    <3>2. CASE ~defining[d]
      <4>1. InstKind(d) = "variable"
        BY <3>2 DEF InstKind
      <4> QED
        BY <1>1, <1>2, <2>1, <2>2, <3>2, <4>1 DEF Kinds
    <3> QED
      BY <3>1, <3>2
  <2>3. CASE odd' = odd \cup {n} /\ UNCHANGED words
    <3>1. \A f, m, kinds : IsMap(f, words, m, kinds, odd) =>
            /\ IsMap(f, words, m, kinds, odd')
            /\ IsMap(Put(f, n, varHere), words, m, kinds, odd')
      <4>1. Same(words, words, Len(words), 0) /\ odd \subseteq odd'
        BY <2>3 DEF Same
      <4>2. \A f, m, kinds : IsMap(f, words, m, kinds, odd) => IsMap(f, words, m, kinds, odd')
        BY <4>1 DEF IsMap
      <4> QED
        BY <2>3, <4>2, MapPut
    <3>2. AreMaps(words', Len(words'), values', varAddrs', instAddrs', odd')
      <4>1. IsMap(varAddrs', words, Len(words), {"create", "variable"}, odd')
        BY <1>1, <2>1, <3>1, Zenon
      <4>2. /\ IsMap(values', words, Len(words), {"value"}, odd')
            /\ IsMap(instAddrs', words, Len(words), {"create", "variable", "does"}, odd')
        BY <1>1, <2>1, <3>1, Zenon
      <4> QED
        BY <2>3, <4>1, <4>2, Zenon DEF AreMaps
    <3>3. \A j \in DOMAIN markers \ stale : SnapMaps(words, markers[j], odd')
      BY <3>1 DEF Mapped, SnapMaps, AreMaps
    <3>4. NamesApart(words, odd') /\ stale \subseteq odd'
      BY <1>1, <2>3 DEF NamesApart
    <3>5. \A k \in 1 .. Len(words) :
            words[k].body.kind = "marker" /\ words[k].name \notin odd' => words[k].name \in DOMAIN markers
      BY <2>3 DEF Mapped
    <3> QED
      BY <2>1, <2>3, <3>2, <3>3, <3>4, <3>5, Zenon DEF Mapped
  <2> QED
    BY <1>4, <2>2, <2>3 DEF Instantiate
<1>5. ASSUME NEW n \in Names, Value(n) PROVE Mapped'
  <2>1. CASE Fits("value") /\ Publish(n, "value", varHere) /\ values' = Put(values, n, varHere)
    BY <1>1, <1>2, <1>5, <2>1 DEF Value, Kinds
  <2>2. CASE UNCHANGED <<words, values, odd>>
    BY <1>5, <2>2, SameMapped DEF Value
  <2> QED
    BY <1>5, <2>1, <2>2 DEF Value
<1>6. ASSUME NEW n \in Names, Begin(n) \/ CompileName(n) \/ CompileTo(n) PROVE Mapped'
  BY <1>6, SameMapped DEF Begin, CompileName, CompileTo, Compile, maps
<1>7. ASSUME Recurse \/ Branch \/ Abandon PROVE Mapped'
  BY <1>7, SameMapped DEF Recurse, Compile, Branch, Abandon, maps
<1>8. ASSUME End PROVE Mapped'
  <2>1. pending.open /\ UNCHANGED <<values, varAddrs, instAddrs, markers, stale>>
    BY <1>8 DEF End, maps
  <2>2. CASE Fits("colon") /\ Publish(pending.name, "colon", Straight)
    <3>1. pending.name \in Names /\ Straight \in SUBSET Seq(Tokens)
      BY <2>1, TokensTyped DEF OpenType, Straight
    <3> QED
      BY <1>2, <2>1, <2>2, <3>1 DEF Kinds
  <2>3. CASE UNCHANGED <<words, odd>>
    BY <2>1, <2>3, SameMapped
  <2> QED
    BY <1>8, <2>2, <2>3 DEF End
<1>9. ASSUME NEW n \in Names, Marker(n) PROVE Mapped'
  <2>1. /\ Fits("marker") /\ Publish(n, "marker", 0) /\ UNCHANGED <<values, varAddrs, instAddrs>>
        /\ markers' = Put(markers, n, Snapshot) /\ stale' = stale \ {n}
    BY <1>9 DEF Marker
  <2>2. /\ NamesApart(words', odd') /\ odd \subseteq odd'
        /\ \A f, kinds : IsMap(f, words, Len(words), kinds, odd) =>
             /\ IsMap(IF "marker" \in kinds THEN Put(f, n, 0) ELSE f, words', Len(words'), kinds, odd')
             /\ IsMap(f, words', Len(words), kinds, odd')
        /\ \A j \in DOMAIN markers \ stale : SnapMaps(words', markers[j], odd')
        /\ \A k \in 1 .. Len(words') : words'[k].body.kind = "marker" /\ words'[k].name \notin odd' =>
             words'[k].name \in DOMAIN markers \/ words'[k].name = n
    BY <1>1, <2>1, GrownMapped DEF Kinds
  <2>3. AreMaps(words', Len(words'), values, varAddrs, instAddrs, odd')
    BY <1>1, <2>2 DEF AreMaps
  <2>4. SnapMaps(words', Snapshot, odd')
    BY <1>1, <2>2 DEF SnapMaps, AreMaps, Snapshot
  <2> HIDE DEF Snapshot
  <2>5. /\ \A j \in DOMAIN markers' \ stale' : SnapMaps(words', markers'[j], odd')
        /\ DOMAIN markers' = DOMAIN markers \cup {n}
    BY <2>1, <2>2, <2>4 DEF Put
  <2>6. stale' \subseteq odd'
    BY <1>1, <2>1, <2>2
  <2> QED
    BY <2>1, <2>2, <2>3, <2>5, <2>6 DEF Mapped
<1>10. ASSUME NEW n \in Names, RunMarker(n) PROVE Mapped'
  <2> DEFINE m == markers[n]
  <2>1. /\ m.count \in 0 .. Len(words) /\ words' = SubSeq(words, 1, m.count)
        /\ values' = m.values /\ varAddrs' = m.varAddrs /\ instAddrs' = m.instAddrs
        /\ n \in DOMAIN markers \ stale /\ markers' = Restrict(markers, Older(m) \ {n})
        /\ odd' = odd /\ stale' = stale \cap DOMAIN markers'
    BY <1>10, CutPoints DEF RunMarker
  <2>2. words' \in Seq(WordType) /\ Len(words') = m.count /\ Same(words, words', m.count, 0)
    BY <1>1, <2>1, CutWords
  <2>3. /\ \A j : j \in DOMAIN markers' <=> (j \in DOMAIN markers /\ markers[j].count < m.count /\ j # n)
        /\ \A j \in DOMAIN markers' : markers'[j] = markers[j]
        /\ \A j \in DOMAIN markers' \ stale' : j \notin stale
    BY <2>1 DEF Restrict, Older
  <2>4. /\ \A j \in DOMAIN markers : markers[j].count \in Nat
        /\ \A j \in DOMAIN markers \ stale : MarkerAt(words, j, markers[j])
    BY DEF Typed, SnapType, Apart
  <2>5. SnapMaps(words', m, odd)
    <3>1. SnapMaps(words, m, odd) /\ m.count \in Nat /\ m.count \in 0 .. m.count
      BY <2>1, <2>4 DEF Mapped
    <3> QED
      BY <2>2, <3>1, SnapKept
  <2>6. ASSUME NEW j \in DOMAIN markers' \ stale' PROVE SnapMaps(words', markers'[j], odd)
    <3>1. j \in DOMAIN markers \ stale /\ markers[j].count < m.count /\ SnapMaps(words, markers[j], odd)
      BY <2>3 DEF Mapped
    <3>2. markers[j].count \in Nat /\ m.count \in Nat
      BY <2>1, <2>4, <3>1
    <3> HIDE DEF m
    <3>3. markers[j].count \in 0 .. m.count
      BY <3>1, <3>2
    <3> QED
      BY <2>2, <2>3, <3>1, <3>2, <3>3, SnapKept
  <2>7. ASSUME NEW k \in 1 .. Len(words'), words'[k].body.kind = "marker", words'[k].name \notin odd
        PROVE  words'[k].name \in DOMAIN markers'
    <3> DEFINE j == words[k].name
    <3>1. /\ k \in 1 .. m.count /\ k \in 1 .. Len(words) /\ words'[k].name = j
          /\ words[k].body.kind = "marker" /\ j \notin odd
      BY <1>1, <2>1, <2>2, <2>7 DEF Same
    <3>2. j \in DOMAIN markers \ stale
      BY <1>1, <3>1 DEF Mapped
    <3>3. markers[j].count + 1 \in 1 .. Len(words) /\ words[markers[j].count + 1].name = j
      BY <1>1, <2>4, <3>2 DEF MarkerAt
    <3>4. markers[j].count + 1 = k
      <4> HIDE DEF j
      <4>1. words[k].name = j
        BY DEF j
      <4> QED
        BY <1>1, <3>1, <3>3, <4>1 DEF NamesApart
    <3> HIDE DEF j, m
    <3>5. markers[j].count < m.count /\ m = markers[n]
      BY <2>1, <2>4, <3>1, <3>2, <3>4 DEF m
    <3>6. j # n
      BY <2>1, <2>4, <3>2, <3>5
    <3> QED
      BY <2>3, <3>1, <3>2, <3>5, <3>6
  <2>8. AreMaps(words', Len(words'), values', varAddrs', instAddrs', odd)
    BY <2>1, <2>2, <2>5 DEF SnapMaps
  <2>9. NamesApart(words', odd) /\ stale' \subseteq odd
    <3>1. \A k \in 1 .. Len(words') : k \in 1 .. Len(words) /\ words'[k].name = words[k].name
      BY <1>1, <2>1, <2>2 DEF Same
    <3> QED
      BY <1>1, <2>1, <3>1 DEF NamesApart
  <2>10. odd' = odd
    BY <2>1
  <2> HIDE DEF m
  <2> QED
    BY <2>6, <2>7, <2>8, <2>9, <2>10, Zenon DEF Mapped
<1>11. ASSUME NEW n \in Names, Forget(n) PROVE Mapped'
  <2> DEFINE m == Newest(n) - 1
  <2>1. /\ m \in 0 .. Len(words) /\ words' = SubSeq(words, 1, m)
        /\ values' = Pruned(values, words') /\ varAddrs' = Pruned(varAddrs, words')
        /\ instAddrs' = Pruned(instAddrs, words') /\ markers' = Pruned(markers, words')
        /\ stale' = {j \in DOMAIN markers' : j \in stale \/ markers[j].count >= Len(words')}
        /\ odd' = odd
    BY <1>11, CutPoints DEF Forget
  <2> HIDE DEF m
  <2>2. words' \in Seq(WordType) /\ Len(words') = m /\ Same(words, words', m, 0)
    BY <1>1, <2>1, CutWords
  <2>3. DOMAIN words' = 1 .. m
    BY <2>2, ListFacts
  <2>4. AreMaps(words', Len(words'), values', varAddrs', instAddrs', odd)
    BY <1>1, <2>1, <2>2, <2>3, MapPruned DEF AreMaps
  <2>5. /\ \A j : j \in DOMAIN markers' <=>
             (j \in DOMAIN markers /\ \E k \in 1 .. m : words'[k].name = j)
        /\ \A j \in DOMAIN markers' : markers'[j] = markers[j]
    BY <2>1, <2>3 DEF Pruned, Restrict
  <2>6. \A k \in 1 .. m : k \in 1 .. Len(words) /\ words'[k].name = words[k].name /\ words'[k].body = words[k].body
    BY <1>1, <2>1, <2>2 DEF Same
  <2>7. \A j \in DOMAIN markers : markers[j].count \in Nat
    BY DEF Typed, SnapType
  <2>8. ASSUME NEW j \in DOMAIN markers' \ stale' PROVE SnapMaps(words', markers'[j], odd)
    <3>1. j \in DOMAIN markers \ stale /\ ~(markers[j].count >= m) /\ SnapMaps(words, markers[j], odd)
      BY <2>1, <2>2, <2>5 DEF Mapped
    <3>2. markers[j].count \in 0 .. m /\ m \in Nat
      BY <1>1, <2>1, <2>7, <3>1
    <3> QED
      BY <2>2, <2>5, <3>1, <3>2, SnapKept
  <2>9. \A k \in 1 .. m : words'[k].body.kind = "marker" /\ words'[k].name \notin odd =>
          words'[k].name \in DOMAIN markers'
    BY <2>5, <2>6 DEF Mapped
  <2>10. NamesApart(words', odd)
    BY <1>1, <2>2, <2>6 DEF NamesApart
  <2>11. ASSUME NEW j \in stale' PROVE j \in odd
    <3>1. j \in DOMAIN markers' /\ (j \in stale \/ markers[j].count >= m)
      BY <2>1, <2>2, <2>11
    <3>2. CASE j \in stale
      BY <1>1, <3>2
    <3>3. CASE j \notin stale
      <4>1. PICK k \in 1 .. m : words[k].name = j
        BY <2>5, <2>6, <3>1
      <4>2. j \in DOMAIN markers /\ MarkerAt(words, j, markers[j]) /\ markers[j].count \in Nat
        BY <2>5, <2>7, <3>1, <3>3 DEF Apart
      <4>3. /\ markers[j].count + 1 \in 1 .. Len(words) /\ words[markers[j].count + 1].name = j
            /\ markers[j].count + 1 # k
        BY <1>1, <2>1, <3>1, <3>3, <4>1, <4>2 DEF MarkerAt
      <4> QED
        BY <1>1, <2>6, <4>1, <4>3 DEF NamesApart
    <3> QED
      BY <3>2, <3>3
  <2>12. odd' = odd /\ stale' \subseteq odd
    BY <2>1, <2>11
  <2> QED
    BY <2>2, <2>4, <2>8, <2>9, <2>10, <2>12, Zenon DEF Mapped
<1>12. ASSUME UNCHANGED vars PROVE Mapped'
  BY <1>12, SameMapped DEF vars, maps
<1> QED
  BY <1>3, <1>4, <1>5, <1>6, <1>7, <1>8, <1>9, <1>10, <1>11, <1>12 DEF Next

\* Where names are apart, the newest word of a name is the only one.
LEMMA NewestOnly ==
  ASSUME words \in Seq(WordType), NamesApart(words, odd), NEW n, n \notin odd
  PROVE  /\ \A k \in 1 .. Len(words) : words[k].name = n => Newest(n) = k
         /\ Known(n) => Newest(n) \in 1 .. Len(words) /\ words[Newest(n)].name = n
<1>1. /\ Newest(n) \in 0 .. Len(words) /\ Len(words) \in Nat
      /\ Newest(n) = 0 => \A k \in 1 .. Len(words) : words[k].name # n
      /\ Newest(n) # 0 => words[Newest(n)].name = n
  BY NewestIs, ListFacts
<1>2. Newest(n) # 0 => Newest(n) \in 1 .. Len(words)
  BY <1>1
<1> HIDE DEF Newest
<1> QED
  BY <1>1, <1>2 DEF NamesApart, Known

\* A map of the whole list is what the newest definitions say.
LEMMA MapIs ==
  ASSUME words \in Seq(WordType), NamesApart(words, odd), NEW f, DOMAIN f \subseteq Names,
         NEW kinds, IsMap(f, words, Len(words), kinds, odd)
  PROVE  Agrees(f, kinds)
<1> DEFINE dom == {m \in Plain : Known(m) /\ words[Newest(m)].body.kind \in kinds}
           own == DOMAIN f \cap Plain
<1>1. /\ \A n \in Plain :
           n \in DOMAIN f <=> \E k \in 1 .. Len(words) : words[k].name = n /\ words[k].body.kind \in kinds
      /\ \A k \in 1 .. Len(words) :
           words[k].name \in Plain /\ words[k].body.kind \in kinds => f[words[k].name] = words[k].body.at
  BY DEF IsMap, Plain
<1>2. \A n \in Plain : n \in Names /\ n \notin odd
  BY DEF Plain
<1>3. \A k \in 1 .. Len(words) : k # 0
  BY ListFacts
<1> HIDE DEF Newest
<1>4. ASSUME NEW n \in own PROVE n \in dom /\ f[n] = words[Newest(n)].body.at
  <2>1. PICK k \in 1 .. Len(words) : words[k].name = n /\ words[k].body.kind \in kinds
    BY <1>1
  <2>2. Newest(n) = k
    BY <1>2, <2>1, NewestOnly
  <2> QED
    BY <1>1, <1>3, <2>1, <2>2 DEF Known
<1>5. ASSUME NEW n \in dom PROVE n \in own
  BY <1>1, <1>2, <1>5, NewestOnly
<1>6. own = dom
  BY <1>4, <1>5
<1> HIDE DEF dom, own
<1>7. [n \in own |-> f[n]] = [n \in dom |-> words[Newest(n)].body.at]
  BY <1>4, <1>6
<1> QED
  BY <1>7 DEF Agrees, Restrict, ByKind, dom, own

\* The maps that `to`, `is` and the compiler's folding consult say of a name
\* what the dictionary says, and each marker goes back to just before itself,
\* through defining, redefining other names, forgetting and running markers: of
\* every name that was not itself redefined while live and of which no
\* definition failed in a full arena.
THEOREM MapsAlwaysAgree == Spec => []MapsAgree
<1>1. Typed /\ Apart /\ Mapped => MapsAgree
  <2> SUFFICES ASSUME Typed, Apart, Mapped PROVE MapsAgree
    OBVIOUS
  <2>1. words \in Seq(WordType) /\ NamesApart(words, odd) /\ stale \subseteq odd /\ Len(words) \in Nat
    BY ListFacts DEF Typed, Mapped
  <2>2. ValuesAgree /\ AddressesAgree /\ InstancesAgree
    <3>1. DOMAIN values \subseteq Names /\ DOMAIN varAddrs \subseteq Names /\ DOMAIN instAddrs \subseteq Names
      BY DEF Typed, MapType
    <3> QED
      BY <2>1, <3>1, MapIs DEF Mapped, AreMaps, ValuesAgree, AddressesAgree, InstancesAgree
  <2>3. ASSUME NEW n \in DOMAIN markers \cap Plain
        PROVE  /\ Known(n) /\ words[Newest(n)].body.kind = "marker"
               /\ markers[n].count + 1 = Newest(n)
    <3>1. n \in DOMAIN markers \ stale /\ n \notin odd
      BY <2>1 DEF Plain
    <3>2. markers[n].count \in Nat /\ MarkerAt(words, n, markers[n])
      BY <3>1 DEF Typed, SnapType, Apart
    <3>3. /\ markers[n].count + 1 \in 1 .. Len(words) /\ markers[n].count + 1 # 0
          /\ words[markers[n].count + 1].name = n /\ words[markers[n].count + 1].body.kind = "marker"
      BY <2>1, <3>2 DEF MarkerAt
    <3>4. Newest(n) = markers[n].count + 1
      BY <2>1, <3>1, <3>3, NewestOnly
    <3> QED
      BY <3>3, <3>4 DEF Known
  <2>4. ASSUME NEW n \in Plain, Known(n), words[Newest(n)].body.kind = "marker" PROVE n \in DOMAIN markers
    <3>1. n \notin odd
      BY DEF Plain
    <3>2. Newest(n) \in 1 .. Len(words) /\ words[Newest(n)].name = n
      BY <2>1, <2>4, <3>1, NewestOnly
    <3> QED
      BY <2>4, <3>1, <3>2 DEF Mapped
  <2>5. MarkersAgree
    <3>1. DOMAIN ByKind({"marker"}) = {n \in Plain : Known(n) /\ words[Newest(n)].body.kind \in {"marker"}}
      BY DEF ByKind
    <3> HIDE DEF Newest, Known, Plain
    <3> QED
      BY <2>3, <2>4, <3>1 DEF MarkersAgree
  <2> QED
    BY <2>2, <2>5 DEF MapsAgree
<1> QED
  BY <1>1, InitTyped, NextTyped, InitApart, NextApart, InitMapped, NextMapped, PTL DEF Spec
=============================================================================
