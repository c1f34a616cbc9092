--------------------------- MODULE OverlayProofs ---------------------------
(***************************************************************************)
(* Proofs about Overlay, for every set of names, every hash and bucket     *)
(* function, and every size of the dictionary.  The inductive invariant is *)
(* the conjunction of what the runs check: the order of the bucket lists   *)
(* does not survive a rollback unless the rollback is LoopsOnCourse and    *)
(* the creation chain is ChainsInStep, and ChainsInStep does not survive   *)
(* Reset unless the rollback's target is the state before a word: for      *)
(* forget it is rebuilt from that word, for a marker it was kept since     *)
(* then, and MarkersExact says that the two agree.                         *)
(***************************************************************************)
EXTENDS Overlay, SequenceLemmas

OverlayInv ==
  TypeOK /\ BucketsNewestFirst /\ ChainsInStep /\ MarkersExact /\ LoopsOnCourse /\ FindsNewest

\* The initial dictionary is empty, so nothing is misplaced in it.
LEMMA InitInv == Init => OverlayInv
<1> SUFFICES ASSUME Init PROVE OverlayInv
  OBVIOUS
<1>1. job.do = "idle"
  BY DEF Init, Idle
<1>2. TypeOK
  <2>1. header \in [DOMAIN header -> HeaderType] /\ DOMAIN header = {}
    BY DEF Init, Blank
  <2>2. node \in [DOMAIN node -> NodeType] /\ DOMAIN node = {}
    BY DEF Init, Blank
  <2>3. bucket \in [Buckets -> Nat]
    BY DEF Init
  <2>4. job \in JobType
    BY DEF Init, JobType
  <2>5. 1 .. indexHere = {}
    BY DEF Init
  <2>6. DOMAIN markers = {} /\ markers \in [DOMAIN markers -> PointerType]
    BY DEF Init, Blank
  <2> QED
    BY <2>1, <2>2, <2>3, <2>4, <2>5, <2>6 DEF Init, TypeOK
<1>3. BucketsNewestFirst
  BY <1>1 DEF Init, BucketsNewestFirst, NewestIn, Linked
<1>4. ChainsInStep
  BY DEF Init, ChainsInStep, HeaderOf
<1>5. LoopsOnCourse /\ FindsNewest /\ MarkersExact
  BY <1>1 DEF LoopsOnCourse, FindsNewest, MarkersExact, Init, Blank
<1> QED
  BY <1>2, <1>3, <1>4, <1>5 DEF OverlayInv

\* What kind of record the job is, once its loop is known.
LEMMA JobKinds ==
  ASSUME job \in JobType
  PROVE  /\ job.do = "search" => job \in [do : {"search"}, why : Purposes, name : Names, at : Nat]
         /\ job.do = "found" => job \in [do : {"found"}, why : Purposes, name : Names, header : Nat]
         /\ job.do = "walk" => job \in [do : {"walk"}, name : Names, header : Nat, at : Nat]
         /\ job.do = "peel" => job \in [do : {"peel"}, why : {"forget", "marker"}, at : Nat,
                                        back : PointerType]
  BY DEF JobType, Idle

\* Stuttering.
LEMMA StutterInv == OverlayInv /\ UNCHANGED vars => OverlayInv'
  BY DEF OverlayInv, TypeOK, BucketsNewestFirst, ChainsInStep, MarkersExact, LoopsOnCourse,
         FindsNewest, Linked, NewestIn, HeaderOf, StateBefore, Defines, vars, heapVars, markerVars

\* Steps that only move a loop leave the heaps, and what is true of them, alone.
LEMMA HeapUnmoved ==
  ASSUME OverlayInv, UNCHANGED <<heapVars, markerVars, torn>>, job' \in JobType, Linked' = Linked
  PROVE  TypeOK' /\ BucketsNewestFirst' /\ ChainsInStep' /\ MarkersExact'
<1>1. TypeOK'
  BY DEF OverlayInv, TypeOK, heapVars, markerVars
<1>2. BucketsNewestFirst'
  BY DEF OverlayInv, BucketsNewestFirst, NewestIn, heapVars
<1>3. ChainsInStep'
  BY DEF OverlayInv, ChainsInStep, HeaderOf, heapVars
<1>4. MarkersExact'
  BY DEF OverlayInv, MarkersExact, StateBefore, HeaderOf, heapVars, markerVars
<1> QED
  BY <1>1, <1>2, <1>3, <1>4

\* find-name starts at the head of the name's bucket, which is its newest node.
LEMMA FindNameInv ==
  ASSUME OverlayInv, NEW n \in Names, NEW why \in Purposes, FindName(why, n)
  PROVE  OverlayInv'
<1>1. job.do = "idle"
  BY DEF FindName, Idle
<1> DEFINE b == Bucket[Hash[n]]
<1>2. b \in Buckets /\ bucket[b] \in Nat /\ NewestIn(b, indexHere, bucket[b])
  BY <1>1, OverlayAssumption DEF OverlayInv, BucketsNewestFirst, TypeOK, Linked
<1>3. CASE n \in Long
  <2>1. job' = Found(why, n, 0) /\ job'.do = "found" /\ job'.name = n /\ job'.header = 0
    BY <1>3 DEF FindName, Found
  <2>2. job' \in JobType
    BY <2>1 DEF Found, JobType
  <2>3. TypeOK' /\ BucketsNewestFirst' /\ ChainsInStep' /\ MarkersExact'
    BY <1>1, <2>1, <2>2, HeapUnmoved DEF FindName, Linked, heapVars
  <2>4. LoopsOnCourse' /\ FindsNewest'
    BY <1>3, <2>1 DEF LoopsOnCourse, FindsNewest
  <2> QED
    BY <2>3, <2>4 DEF OverlayInv
<1>4. CASE n \notin Long
  <2>1. job' = Search(why, n, bucket[b])
    BY <1>4 DEF FindName
  <2>2. job'.do = "search" /\ job'.name = n /\ job'.at = bucket[b]
    BY <2>1 DEF Search
  <2>3. job' \in JobType
    BY <1>2, <2>1 DEF Search, JobType
  <2>4. TypeOK' /\ BucketsNewestFirst' /\ ChainsInStep' /\ MarkersExact'
    BY <1>1, <2>2, <2>3, HeapUnmoved DEF FindName, Linked, heapVars
  <2>5. \A k \in bucket[b] + 1 .. indexHere : ~Defines(k, n)
    <3> SUFFICES ASSUME NEW k \in bucket[b] + 1 .. indexHere PROVE ~Defines(k, n)
      OBVIOUS
    <3>1. Bucket[node[k].hash] # b
      BY <1>2 DEF NewestIn
    <3>2. k \in 1 .. indexHere
      BY <1>2 DEF OverlayInv, TypeOK
    <3>3. node[k].hash = Hash[header[node[k].header].name]
      BY <3>2 DEF OverlayInv, ChainsInStep
    <3> QED
      BY <3>1, <3>3 DEF Defines
  <2>6. LoopsOnCourse'
    BY <1>2, <1>4, <2>2, <2>5 DEF LoopsOnCourse, NewestIn, Defines, FindName, heapVars
  <2>7. FindsNewest'
    BY <2>2 DEF FindsNewest
  <2> QED
    BY <2>4, <2>6, <2>7 DEF OverlayInv
<1> QED
  BY <1>3, <1>4

\* One turn of the search: the node looked at is no definition of the name, or it
\* is the newest; and an empty remainder of the list means there is none.
LEMMA ScanInv ==
  ASSUME OverlayInv, Scan
  PROVE  OverlayInv'
<1> DEFINE n == job.name
           at == job.at
<1>1. job.do = "search" /\ n \in Names /\ job.why \in Purposes /\ at \in 0 .. indexHere
  BY JobKinds DEF Scan, OverlayInv, TypeOK, LoopsOnCourse
<1>2. /\ n \notin Long
      /\ at # 0 => Bucket[node[at].hash] = Bucket[Hash[n]]
      /\ \A k \in at + 1 .. indexHere : ~Defines(k, n)
  BY <1>1 DEF OverlayInv, LoopsOnCourse
<1>3. indexHere \in Nat
  BY DEF OverlayInv, TypeOK
<1>4. CASE at = 0
  <2>1. job' = Found(job.why, n, 0)
    BY <1>4 DEF Scan
  <2>2. job'.do = "found" /\ job'.name = n /\ job'.header = 0 /\ job' \in JobType
    BY <1>1, <2>1 DEF Found, JobType
  <2>3. TypeOK' /\ BucketsNewestFirst' /\ ChainsInStep' /\ MarkersExact'
    BY <1>1, <2>2, HeapUnmoved DEF Scan, Linked, heapVars
  <2>4. FindsNewest'
    BY <1>2, <1>4, <2>2 DEF FindsNewest, Defines, Scan, heapVars
  <2> QED
    BY <2>2, <2>3, <2>4 DEF OverlayInv, LoopsOnCourse
<1>5. CASE at # 0 /\ Matches(at, n)
  <2>1. job' = Found(job.why, n, node[at].header)
    BY <1>5 DEF Scan
  <2>2. at \in 1 .. indexHere /\ node[at].header \in Nat \ {0}
    BY <1>1, <1>5 DEF OverlayInv, TypeOK, ChainsInStep, NodeType, HeaderOf
  <2>3. /\ job'.do = "found" /\ job'.name = n /\ job'.header = node[at].header
        /\ job' \in JobType
    BY <1>1, <2>1, <2>2 DEF Found, JobType
  <2>4. TypeOK' /\ BucketsNewestFirst' /\ ChainsInStep' /\ MarkersExact'
    BY <1>1, <2>3, HeapUnmoved DEF Scan, Linked, heapVars
  <2>5. FindsNewest'
    BY <1>2, <1>5, <2>2, <2>3 DEF FindsNewest, Defines, Matches, Scan, heapVars
  <2> QED
    BY <2>3, <2>4, <2>5 DEF OverlayInv, LoopsOnCourse
<1>6. CASE at # 0 /\ ~Matches(at, n)
  <2> DEFINE next == node[at].next
  <2>1. job' = [job EXCEPT !.at = next]
    BY <1>6 DEF Scan
  <2>2. at \in 1 .. indexHere /\ at \in DOMAIN node /\ next \in Nat
    BY <1>1, <1>6 DEF OverlayInv, TypeOK, NodeType
  <2>3. job'.do = "search" /\ job'.name = n /\ job'.at = next /\ job' \in JobType
    <3>1. job \in [do : {"search"}, why : Purposes, name : Names, at : Nat]
      BY <1>1, JobKinds DEF OverlayInv, TypeOK
    <3> QED
      BY <2>1, <2>2, <3>1 DEF JobType
  <2>4. TypeOK' /\ BucketsNewestFirst' /\ ChainsInStep' /\ MarkersExact'
    BY <1>1, <2>3, HeapUnmoved DEF Scan, Linked, heapVars
  <2>5. NewestIn(Bucket[Hash[n]], at - 1, next)
    BY <1>2, <1>6, <2>2 DEF OverlayInv, BucketsNewestFirst
  <2>6. \A k \in next + 1 .. indexHere : ~Defines(k, n)
    <3> SUFFICES ASSUME NEW k \in next + 1 .. indexHere PROVE ~Defines(k, n)
      OBVIOUS
    <3>1. k \in 1 .. indexHere
      BY <1>3, <2>2
    <3>2. node[k].hash = Hash[header[node[k].header].name]
      BY <3>1 DEF OverlayInv, ChainsInStep
    <3>3. CASE k < at
      <4>1. Bucket[node[k].hash] # Bucket[Hash[n]]
        BY <2>2, <2>5, <3>1, <3>3 DEF NewestIn
      <4> QED
        BY <3>2, <4>1 DEF Defines
    <3>4. CASE k = at
      BY <1>6, <3>2, <3>4 DEF Defines, Matches
    <3>5. CASE k > at
      BY <1>2, <2>2, <3>1, <3>5
    <3> QED
      BY <2>2, <3>1, <3>3, <3>4, <3>5
  <2>7. LoopsOnCourse'
    BY <1>2, <1>3, <2>2, <2>3, <2>5, <2>6 DEF LoopsOnCourse, NewestIn, Defines, Scan, heapVars
  <2> QED
    BY <2>3, <2>4, <2>7 DEF OverlayInv, FindsNewest
<1> QED
  BY <1>4, <1>5, <1>6

\* Back to the prompt.
LEMMA ReturnInv ==
  ASSUME OverlayInv, Return
  PROVE  OverlayInv'
<1>1. job.do = "found" /\ job' = Idle /\ job'.do = "idle" /\ job' \in JobType
  BY DEF Return, Idle, JobType
<1>2. TypeOK' /\ BucketsNewestFirst' /\ ChainsInStep' /\ MarkersExact'
  BY <1>1, HeapUnmoved DEF Return, Linked, heapVars
<1> QED
  BY <1>1, <1>2 DEF OverlayInv, LoopsOnCourse, FindsNewest

\* A rollback to the state before a live word begins on course; what a marker
\* gives up of the markers is nothing the others need.
LEMMA RollbackStarts ==
  ASSUME OverlayInv, NEW k \in 1 .. indexHere, job.do # "peel",
         NEW why \in {"forget", "marker"}, job' = Peeling(why, StateBefore(k)),
         UNCHANGED <<heapVars, stale, torn>>, NEW M \in SUBSET DOMAIN markers,
         markers' = [m \in M |-> markers[m]]
  PROVE  OverlayInv'
<1> DEFINE h == node[k].header
<1>1. /\ k \in DOMAIN node /\ h \in Nat
      /\ indexHere \in Nat /\ indexLatest = indexHere
  BY DEF OverlayInv, TypeOK, ChainsInStep, NodeType
<1>2. HeaderOf(k - 1) \in Nat
  BY <1>1 DEF OverlayInv, TypeOK, ChainsInStep, NodeType, HeaderOf
<1>3. StateBefore(k) \in PointerType
  BY <1>1, <1>2 DEF StateBefore, PointerType
<1>4. /\ job'.do = "peel" /\ job'.at = indexHere /\ job'.back = StateBefore(k)
      /\ job' \in JobType
  BY <1>1, <1>3 DEF Peeling, JobType
<1>5. TypeOK'
  <2>1. DOMAIN markers' = M /\ DOMAIN markers' \subseteq Names
        /\ markers' \in [DOMAIN markers' -> PointerType]
    BY DEF OverlayInv, TypeOK
  <2> QED
    BY <1>4, <2>1 DEF OverlayInv, TypeOK, heapVars
<1>6. BucketsNewestFirst' /\ ChainsInStep'
  BY <1>1, <1>4 DEF OverlayInv, BucketsNewestFirst, ChainsInStep, NewestIn, HeaderOf, Linked, heapVars
<1>7. MarkersExact'
  BY DEF OverlayInv, MarkersExact, StateBefore, HeaderOf, heapVars
<1>8. LoopsOnCourse'
  <2>1. StateBefore(k)' = StateBefore(k) /\ StateBefore(k).indexHere = k - 1
    BY DEF StateBefore, HeaderOf, heapVars
  <2>2. (job.back = StateBefore(job.back.indexHere + 1))'
    <3>1. job'.back.indexHere + 1 = k
      BY <1>1, <1>4, <2>1
    <3> QED
      BY <1>4, <2>1, <3>1
  <2> QED
    BY <1>1, <1>4, <2>1, <2>2 DEF LoopsOnCourse, heapVars
<1> QED
  BY <1>4, <1>5, <1>6, <1>7, <1>8 DEF OverlayInv, FindsNewest

\* What forget rebuilds from a live word's node and header is the state before it.
LEMMA BeforeIsState ==
  ASSUME OverlayInv, NEW k \in 1 .. indexHere
  PROVE  Before(k) = StateBefore(k)
  BY DEF OverlayInv, ChainsInStep, Before, StateBefore, Threshold

\* Forget begins its walk at the newest node; the word found has a node.
LEMMA ForgetInv ==
  ASSUME OverlayInv, Forget
  PROVE  OverlayInv'
<1>1. /\ job \in [do : {"found"}, why : Purposes, name : Names, header : Nat] /\ job.header # 0
      /\ indexHere \in Nat /\ indexLatest = indexHere
  BY JobKinds DEF Forget, OverlayInv, TypeOK, ChainsInStep
<1>2. \E k \in 1 .. indexHere : node[k].header = job.header
  BY <1>1 DEF OverlayInv, FindsNewest, Forget
<1>3. /\ job'.do = "walk" /\ job'.at = indexHere /\ job'.header = job.header
      /\ job' \in JobType
  BY <1>1 DEF Forget, Walk, JobType
<1>4. TypeOK' /\ BucketsNewestFirst' /\ ChainsInStep' /\ MarkersExact'
  BY <1>1, <1>3, HeapUnmoved DEF Forget, Linked, heapVars
<1>5. LoopsOnCourse' /\ FindsNewest'
  BY <1>1, <1>2, <1>3 DEF LoopsOnCourse, FindsNewest, Forget, heapVars
<1> QED
  BY <1>4, <1>5 DEF OverlayInv

\* One step of the walk: it has not passed the node, and so finds it.
LEMMA WalkInv ==
  ASSUME OverlayInv, WalkOn
  PROVE  OverlayInv'
<1> DEFINE at == job.at
<1>1. /\ job \in [do : {"walk"}, name : Names, header : Nat, at : Nat]
      /\ at \in 0 .. indexHere /\ indexHere \in Nat
      /\ \E k \in 1 .. at : node[k].header = job.header
  BY JobKinds DEF WalkOn, OverlayInv, TypeOK, LoopsOnCourse
<1>2. at \in 1 .. indexHere /\ at # 0 /\ node[at].prev = at - 1
  BY <1>1 DEF OverlayInv, ChainsInStep
<1>3. CASE node[at].header = job.header
  <2>1. job' = Peeling("forget", StateBefore(at))
    BY <1>2, <1>3, BeforeIsState DEF WalkOn
  <2>2. markers' = [m \in DOMAIN markers |-> markers[m]]
    BY DEF WalkOn, markerVars, OverlayInv, TypeOK
  <2> QED
    BY <1>1, <1>2, <2>1, <2>2, RollbackStarts DEF WalkOn, markerVars
<1>4. CASE node[at].header # job.header
  <2>1. job' = [job EXCEPT !.at = at - 1]
    BY <1>2, <1>4 DEF WalkOn
  <2>2. /\ job'.do = "walk" /\ job'.at = at - 1 /\ job'.header = job.header
        /\ job' \in JobType
    BY <1>1, <1>2, <2>1 DEF JobType
  <2>3. TypeOK' /\ BucketsNewestFirst' /\ ChainsInStep' /\ MarkersExact'
    BY <1>1, <2>2, HeapUnmoved DEF WalkOn, Linked, heapVars
  <2>4. \E k \in 1 .. at - 1 : node[k].header = job.header
    BY <1>1, <1>2, <1>4
  <2>5. LoopsOnCourse' /\ FindsNewest'
    BY <1>1, <1>2, <2>2, <2>4 DEF LoopsOnCourse, FindsNewest, WalkOn, heapVars
  <2> QED
    BY <2>3, <2>5 DEF OverlayInv
<1> QED
  BY <1>3, <1>4

\* A marker's snapshot is the state before its own word.
LEMMA RunMarkerInv ==
  ASSUME OverlayInv, NEW n \in DOMAIN markers, RunMarker(n)
  PROVE  OverlayInv'
<1> DEFINE k == markers[n].indexHere + 1
<1>1. k \in 1 .. indexHere /\ markers[n] = StateBefore(k)
  BY DEF RunMarker, OverlayInv, MarkersExact, TypeOK, PointerType
<1>2. DOMAIN markers \ {n} \in SUBSET DOMAIN markers
  OBVIOUS
<1> HIDE DEF k
<1> QED
  BY <1>1, <1>2, RollbackStarts DEF RunMarker, Idle

\* One node is peeled: it is the head of its bucket, and its successor becomes
\* the head; the other buckets had no node in between.
LEMMA PeelInv ==
  ASSUME OverlayInv, Peel
  PROVE  OverlayInv'
<1> DEFINE at == job.at
           b  == Bucket[node[at].hash]
<1>1. /\ job \in [do : {"peel"}, why : {"forget", "marker"}, at : Nat, back : PointerType]
      /\ job.back.indexHere \in 0 .. indexHere - 1 /\ at \in job.back.indexHere .. indexHere
      /\ at # 0 /\ at > job.back.indexHere
      /\ job.back = StateBefore(job.back.indexHere + 1)
  BY JobKinds DEF Peel, OverlayInv, TypeOK, LoopsOnCourse
<1>2. /\ indexHere \in Nat /\ at \in 1 .. indexHere /\ at \in DOMAIN node
      /\ node[at].prev = at - 1 /\ b \in Buckets
  BY <1>1, OverlayAssumption DEF OverlayInv, TypeOK, ChainsInStep, NodeType
<1>3. /\ job' = [job EXCEPT !.at = at - 1]
      /\ bucket' = [bucket EXCEPT ![b] = PeelHead(b, at)]
      /\ UNCHANGED <<here, latest, header, indexHere, indexLatest, node, markerVars, torn>>
  BY <1>2 DEF Peel
<1>4. \A c \in Buckets : NewestIn(c, at, bucket[c])
  BY <1>1 DEF OverlayInv, BucketsNewestFirst, Linked
<1>5. bucket[b] = at
  BY <1>2, <1>4 DEF NewestIn
<1>6. bucket' = [bucket EXCEPT ![b] = node[at].next] /\ node[at].next \in Nat
  BY <1>2, <1>3, <1>5 DEF PeelHead, OverlayInv, TypeOK, NodeType
<1>7. /\ job'.do = "peel" /\ job'.at = at - 1 /\ job'.back = job.back /\ job' \in JobType
  BY <1>1, <1>2, <1>3 DEF JobType
<1>8. TypeOK'
  BY <1>3, <1>6, <1>7 DEF OverlayInv, TypeOK, markerVars
<1>9. BucketsNewestFirst'
  <2>1. ASSUME NEW c \in Buckets PROVE NewestIn(c, at - 1, bucket'[c])
    <3>1. CASE c = b
      <4>1. NewestIn(b, at - 1, node[at].next)
        BY <1>2 DEF OverlayInv, BucketsNewestFirst
      <4>2. bucket'[c] = node[at].next
        BY <1>6, <3>1, <1>2 DEF OverlayInv, TypeOK
      <4> QED
        BY <3>1, <4>1, <4>2
    <3>2. CASE c # b
      <4>1. bucket'[c] = bucket[c]
        BY <1>6, <3>2, <2>1 DEF OverlayInv, TypeOK
      <4>2. NewestIn(c, at, bucket[c]) /\ bucket[c] # at
        BY <1>2, <1>4, <3>2, <2>1 DEF NewestIn
      <4> QED
        BY <1>2, <4>1, <4>2 DEF NewestIn
    <3> QED
      BY <3>1, <3>2
  <2>2. \A k \in 1 .. indexHere : NewestIn(Bucket[node[k].hash], k - 1, node[k].next)
    BY DEF OverlayInv, BucketsNewestFirst
  <2>3. Linked' = at - 1 /\ node' = node /\ indexHere' = indexHere
    BY <1>3, <1>7 DEF Linked
  <2>4. \A c \in Buckets : NewestIn(c, Linked, bucket[c])'
    BY <2>1, <2>3 DEF NewestIn
  <2>5. (\A k \in 1 .. indexHere : NewestIn(Bucket[node[k].hash], k - 1, node[k].next))'
    BY <2>2, <2>3 DEF NewestIn
  <2> QED
    BY <2>4, <2>5 DEF BucketsNewestFirst
<1>10. ChainsInStep'
  BY <1>3 DEF OverlayInv, ChainsInStep, HeaderOf
<1>11. LoopsOnCourse' /\ MarkersExact'
  BY <1>1, <1>2, <1>3, <1>7
  DEF LoopsOnCourse, MarkersExact, OverlayInv, StateBefore, HeaderOf, markerVars
<1> QED
  BY <1>7, <1>8, <1>9, <1>10, <1>11 DEF OverlayInv, FindsNewest

\* When the peeling stops, the threshold's node is the newest of all.
LEMMA ResetInv ==
  ASSUME OverlayInv, Reset
  PROVE  OverlayInv'
<1> DEFINE keep == job.back.indexHere
<1>0. job \in [do : {"peel"}, why : {"forget", "marker"}, at : Nat, back : PointerType]
  BY JobKinds DEF Reset, OverlayInv, TypeOK
<1>1. /\ keep \in 0 .. indexHere - 1 /\ job.at = keep /\ indexHere \in Nat
      /\ job.back \in PointerType /\ job.back = StateBefore(keep + 1) /\ job.do = "peel"
      /\ job.why \in {"forget", "marker"}
  <2>1. job.do = "peel" /\ (job.at = 0 \/ job.at <= keep) /\ indexHere \in Nat
    BY DEF Reset, OverlayInv, TypeOK
  <2>2. keep \in 0 .. indexHere - 1 /\ job.at \in keep .. indexHere /\ job.back = StateBefore(keep + 1)
    BY <2>1 DEF OverlayInv, LoopsOnCourse
  <2>3. job.back \in PointerType /\ job.why \in {"forget", "marker"}
    BY <1>0
  <2> QED
    BY <2>1, <2>2, <2>3
<1>2. /\ job.back.indexLatest = keep /\ job.back.latest = HeaderOf(keep)
      /\ job.back.here = HeaderOf(keep + 1)
      /\ job.back.latest \in Nat /\ job.back.here \in Nat
  BY <1>1 DEF StateBefore, HeaderOf, PointerType
<1>3. /\ indexHere' = keep /\ indexLatest' = keep /\ latest' = job.back.latest
      /\ here' = job.back.here /\ UNCHANGED <<header, bucket, node, torn>>
  BY <1>2 DEF Reset
<1>4. job'.do = "idle" /\ job' \in JobType
  BY DEF Reset, Idle, JobType
<1>5. 1 .. keep \subseteq 1 .. indexHere
  BY <1>1
<1>6. /\ DOMAIN markers' = Kept(job.why, keep) /\ DOMAIN markers' \subseteq DOMAIN markers
      /\ \A n \in DOMAIN markers' : markers'[n] = markers[n]
      /\ markers' \in [DOMAIN markers' -> PointerType]
  <2>1. Kept(job.why, keep) \subseteq DOMAIN markers
    BY DEF Kept, Pruned, Older
  <2>2. markers' = [n \in Kept(job.why, keep) |-> markers[n]]
    BY DEF Reset
  <2> QED
    BY <2>1, <2>2 DEF OverlayInv, TypeOK
<1>7. TypeOK'
  <2>1. DOMAIN markers' \subseteq Names
    BY <1>6 DEF OverlayInv, TypeOK
  <2> QED
    BY <1>1, <1>2, <1>3, <1>4, <1>5, <1>6, <2>1 DEF OverlayInv, TypeOK
<1>8. BucketsNewestFirst'
  BY <1>1, <1>3, <1>4, <1>5 DEF OverlayInv, BucketsNewestFirst, Linked, NewestIn
<1>9. ChainsInStep'
  <2>1. \A k \in 1 .. keep : node[k].header < HeaderOf(keep + 1)
    BY <1>1 DEF OverlayInv, ChainsInStep, HeaderOf
  <2>2. \A j \in 0 .. keep : HeaderOf(j)' = HeaderOf(j)
    BY <1>3 DEF HeaderOf
  <2>3. here' = HeaderOf(keep + 1) /\ here' > 0
    <3>1. keep + 1 \in 1 .. indexHere /\ HeaderOf(keep + 1) = node[keep + 1].header
      BY <1>1 DEF HeaderOf
    <3>2. HeaderOf(0) < node[keep + 1].header /\ HeaderOf(0) = 0
      BY <1>1, <3>1 DEF OverlayInv, ChainsInStep, HeaderOf
    <3> QED
      BY <1>2, <1>3, <3>1, <3>2
  <2>4. ASSUME NEW k \in 1 .. keep
        PROVE  /\ node[k].prev = k - 1
               /\ node[k].header \in DOMAIN header
               /\ node[k].hash = Hash[header[node[k].header].name]
               /\ header[node[k].header].link = HeaderOf(k - 1)
               /\ \A j \in 0 .. k - 1 : HeaderOf(j) < node[k].header
               /\ k - 1 \in 0 .. keep /\ 0 .. k - 1 \subseteq 0 .. keep
    BY <1>1, <1>5 DEF OverlayInv, ChainsInStep
  <2>5. (latest = HeaderOf(indexHere))' /\ indexLatest' = indexHere'
    BY <1>1, <1>2, <1>3 DEF HeaderOf
  <2> QED
    BY <1>1, <1>3, <2>1, <2>2, <2>3, <2>4, <2>5 DEF ChainsInStep
<1>10. MarkersExact'
  <2> SUFFICES ASSUME NEW n \in DOMAIN markers' \ stale'
               PROVE  (markers[n].indexHere < indexHere
                         /\ markers[n] = StateBefore(markers[n].indexHere + 1))'
    BY DEF MarkersExact
  <2>1. n \in DOMAIN markers \ stale /\ markers'[n] = markers[n] /\ markers[n].indexHere < keep
    <3>1. stale' = {m \in DOMAIN markers' :
                      m \in stale \/ (job.why = "forget" /\ markers[m].indexHere >= indexHere')}
      BY DEF Reset
    <3>2. n \in DOMAIN markers /\ markers[n].indexHere \in Nat
      BY <1>6 DEF OverlayInv, TypeOK, PointerType
    <3>3. CASE job.why = "forget"
      BY <1>1, <1>3, <1>6, <3>1, <3>2, <3>3
    <3>4. CASE job.why = "marker"
      BY <1>1, <1>6, <3>1, <3>2, <3>4 DEF Kept, Older
    <3> QED
      BY <1>1, <3>3, <3>4
  <2>2. markers[n] = StateBefore(markers[n].indexHere + 1)
    BY <2>1 DEF OverlayInv, MarkersExact
  <2> QED
    BY <1>3, <2>1, <2>2 DEF StateBefore, HeaderOf
<1> QED
  BY <1>4, <1>7, <1>8, <1>9, <1>10 DEF OverlayInv, LoopsOnCourse, FindsNewest

\* A new word: its node is the newest of its bucket and of the dictionary, its
\* header lies above every live one, and no other node or header is written.
LEMMA PublishInv ==
  ASSUME OverlayInv, NEW n \in Names, Publish(n),
         DOMAIN markers' \subseteq Names, markers' \in [DOMAIN markers' -> PointerType],
         \A m \in DOMAIN markers' \ stale' :
           \/ m \in DOMAIN markers \ stale /\ markers'[m] = markers[m]
           \/ markers'[m] = Snapshot
  PROVE  OverlayInv'
<1> DEFINE b == Bucket[Hash[n]]
<1>0. PICK k : k = indexHere + 1
  OBVIOUS
<1>1. /\ job.do = "idle" /\ job' = job /\ indexHere \in Nat /\ here \in Nat
      /\ HeaderSize[n] \in Nat \ {0} /\ b \in Buckets /\ Hash[n] \in DOMAIN Bucket
  BY OverlayAssumption DEF Publish, Idle, OverlayInv, TypeOK
<1>2. /\ indexHere' = k /\ indexLatest' = k /\ latest' = here /\ here' = here + HeaderSize[n]
      /\ bucket' = [bucket EXCEPT ![b] = k]
      /\ node' = Put(node, k, NewNode(n))
      /\ header' = Put(header, here, [link |-> latest, name |-> n])
  BY <1>0 DEF Publish, Body
<1>3. /\ DOMAIN node' = DOMAIN node \cup {k} /\ node'[k] = NewNode(n)
      /\ \A j \in 1 .. indexHere : node'[j] = node[j]
  BY <1>0, <1>1, <1>2 DEF Put, OverlayInv, TypeOK
<1>4. /\ DOMAIN header' = DOMAIN header \cup {here}
      /\ header'[here] = [link |-> latest, name |-> n]
      /\ \A a \in DOMAIN header : a # here => header'[a] = header[a]
  BY <1>2 DEF Put
<1>5. /\ bucket \in [Buckets -> Nat] /\ bucket'[b] = k
      /\ \A c \in Buckets : c # b => bucket'[c] = bucket[c]
  BY <1>1, <1>2 DEF OverlayInv, TypeOK
<1>6. \A j \in 1 .. indexHere :
        /\ node[j].header \in DOMAIN header /\ node[j].header < here
        /\ header'[node[j].header] = header[node[j].header]
  BY <1>1, <1>4 DEF OverlayInv, ChainsInStep
<1>7. NewNode(n) = [next |-> bucket[b], prev |-> indexHere, header |-> here, hash |-> Hash[n]]
  BY DEF NewNode, OverlayInv, ChainsInStep
<1>8. latest = HeaderOf(indexHere) /\ latest \in Nat
  BY DEF OverlayInv, TypeOK, ChainsInStep
<1>9. \A c \in Buckets : NewestIn(c, indexHere, bucket[c])
  BY <1>1 DEF OverlayInv, BucketsNewestFirst, Linked
<1>10. TypeOK'
  <2>1. NewNode(n) \in NodeType
    BY <1>1, <1>5, <1>7 DEF NodeType
  <2>2. /\ node' \in [DOMAIN node' -> NodeType] /\ DOMAIN node' \subseteq Nat
        /\ 1 .. k \subseteq DOMAIN node'
    BY <1>0, <1>1, <1>2, <1>3, <2>1 DEF OverlayInv, TypeOK, Put
  <2>3. header' \in [DOMAIN header' -> HeaderType] /\ DOMAIN header' \subseteq Nat
    BY <1>1, <1>2, <1>4, <1>8 DEF OverlayInv, TypeOK, Put, HeaderType
  <2>4. bucket' \in [Buckets -> Nat]
    BY <1>0, <1>1, <1>2 DEF OverlayInv, TypeOK
  <2>5. torn' \in BOOLEAN
    BY DEF Publish
  <2> QED
    BY <1>0, <1>1, <1>2, <2>2, <2>3, <2>4, <2>5 DEF OverlayInv, TypeOK
<1>11. BucketsNewestFirst'
  <2>1. Linked' = k
    BY <1>0, <1>1, <1>2 DEF Linked
  <2>2. \A c \in Buckets : NewestIn(c, Linked, bucket[c])'
    BY <1>0, <1>1, <1>3, <1>5, <1>7, <1>9, <2>1 DEF NewestIn
  <2>3. \A j \in 1 .. k : NewestIn(Bucket[node[j].hash], j - 1, node[j].next)'
    <3>1. ASSUME NEW j \in 1 .. indexHere
          PROVE  NewestIn(Bucket[node[j].hash], j - 1, node[j].next)'
      <4>1. NewestIn(Bucket[node[j].hash], j - 1, node[j].next)
        BY DEF OverlayInv, BucketsNewestFirst
      <4> QED
        BY <1>0, <1>1, <1>3, <4>1 DEF NewestIn, OverlayInv, TypeOK
    <3>2. NewestIn(Bucket[node[k].hash], k - 1, node[k].next)'
      BY <1>0, <1>1, <1>2, <1>3, <1>7, <1>9 DEF NewestIn
    <3> QED
      BY <1>0, <1>1, <3>1, <3>2
  <2> QED
    BY <1>2, <2>2, <2>3 DEF BucketsNewestFirst
<1>12. ChainsInStep'
  <2>1. \A j \in 0 .. indexHere : HeaderOf(j)' = HeaderOf(j) /\ HeaderOf(j) < here
    BY <1>0, <1>1, <1>3, <1>6, <1>8 DEF HeaderOf, OverlayInv, ChainsInStep
  <2>2. HeaderOf(k)' = here
    BY <1>0, <1>1, <1>3, <1>7 DEF HeaderOf
  <2>3. here' > here
    BY <1>1, <1>2 DEF OverlayInv, TypeOK
  <2>4. ASSUME NEW j \in 1 .. indexHere
        PROVE  /\ node'[j].prev = j - 1 /\ node'[j].header \in DOMAIN header'
               /\ node'[j].hash = Hash[header'[node'[j].header].name]
               /\ header'[node'[j].header].link = HeaderOf(j - 1)'
               /\ \A i \in 0 .. j - 1 : HeaderOf(i)' < node'[j].header
               /\ node'[j].header < here'
    BY <1>1, <1>2, <1>3, <1>4, <1>6, <2>1, <2>3 DEF OverlayInv, TypeOK, ChainsInStep
  <2>5. /\ node'[k].prev = k - 1 /\ node'[k].header \in DOMAIN header'
        /\ node'[k].hash = Hash[header'[node'[k].header].name]
        /\ header'[node'[k].header].link = HeaderOf(k - 1)'
        /\ \A i \in 0 .. k - 1 : HeaderOf(i)' < node'[k].header
        /\ node'[k].header < here'
    BY <1>0, <1>1, <1>2, <1>3, <1>4, <1>7, <1>8, <2>1, <2>3 DEF OverlayInv, TypeOK
  <2>6. \A j \in 1 .. k : j = k \/ j \in 1 .. indexHere
    BY <1>0, <1>1
  <2>7. here' > 0
    BY <1>1, <1>2 DEF OverlayInv, TypeOK, ChainsInStep
  <2> QED
    BY <1>0, <1>2, <2>2, <2>4, <2>5, <2>6, <2>7 DEF ChainsInStep
<1>13. MarkersExact'
  <2>1. \A j \in 0 .. indexHere : HeaderOf(j)' = HeaderOf(j)
    BY <1>0, <1>1, <1>3, <1>6, <1>8 DEF HeaderOf, OverlayInv, ChainsInStep
  <2>2. ASSUME NEW j \in 1 .. indexHere PROVE StateBefore(j)' = StateBefore(j)
    BY <1>1, <1>3, <2>1 DEF StateBefore
  <2>3. Snapshot = StateBefore(k)' /\ Snapshot.indexHere = indexHere
    <3>1. Snapshot = [latest |-> HeaderOf(indexHere), here |-> here,
                      indexHere |-> indexHere, indexLatest |-> indexHere]
      BY <1>8 DEF Snapshot, OverlayInv, ChainsInStep
    <3>2. node'[k].header = here /\ k - 1 = indexHere /\ k # 0 /\ indexHere \in 0 .. indexHere
      BY <1>0, <1>1, <1>3, <1>7
    <3>3. HeaderOf(k - 1)' = HeaderOf(indexHere)
      <4>1. indexHere = 0 => HeaderOf(k - 1)' = 0 /\ HeaderOf(indexHere) = 0
        BY <3>2 DEF HeaderOf
      <4>2. indexHere # 0 => indexHere \in 1 .. indexHere
        BY <1>1
      <4>3. indexHere # 0 => node'[indexHere] = node[indexHere]
        BY <1>3, <4>2
      <4> QED
        BY <3>2, <4>1, <4>3 DEF HeaderOf
    <3> QED
      BY <3>1, <3>2, <3>3 DEF StateBefore, Snapshot
  <2>4. ASSUME NEW m \in DOMAIN markers' \ stale'
        PROVE  (markers[m].indexHere < indexHere
                  /\ markers[m] = StateBefore(markers[m].indexHere + 1))'
    <3>1. CASE markers'[m] = Snapshot
      <4>1. markers'[m].indexHere + 1 = k /\ markers'[m].indexHere < indexHere'
        BY <1>0, <1>1, <1>2, <2>3, <3>1
      <4> QED
        BY <2>3, <3>1, <4>1
    <3>2. CASE m \in DOMAIN markers \ stale /\ markers'[m] = markers[m]
      <4>1. /\ markers[m].indexHere \in Nat /\ markers[m].indexHere < indexHere
            /\ markers[m] = StateBefore(markers[m].indexHere + 1)
        BY <3>2 DEF OverlayInv, MarkersExact, TypeOK, PointerType
      <4>2. markers[m].indexHere + 1 \in 1 .. indexHere
        BY <1>1, <4>1
      <4> QED
        BY <1>0, <1>1, <1>2, <2>2, <3>2, <4>1, <4>2
    <3> QED
      BY <2>4, <3>1, <3>2
  <2> QED
    BY <2>4 DEF MarkersExact
<1> QED
  BY <1>1, <1>10, <1>11, <1>12, <1>13 DEF OverlayInv, LoopsOnCourse, FindsNewest

\* create leaves the markers alone.
LEMMA CreateInv ==
  ASSUME OverlayInv, NEW n \in Names, Create(n)
  PROVE  OverlayInv'
<1>1. /\ DOMAIN markers' \subseteq Names /\ markers' \in [DOMAIN markers' -> PointerType]
      /\ markers' = markers /\ stale' = stale
  BY DEF Create, markerVars, OverlayInv, TypeOK
<1> QED
  BY <1>1, PublishInv DEF Create

\* A marker's snapshot is the state before the word it makes.
LEMMA MarkInv ==
  ASSUME OverlayInv, NEW n \in Names, Mark(n)
  PROVE  OverlayInv'
<1>1. Snapshot \in PointerType
  BY DEF Snapshot, PointerType, OverlayInv, TypeOK
<1>2. /\ DOMAIN markers' = DOMAIN markers \cup {n} /\ markers'[n] = Snapshot
      /\ \A m \in DOMAIN markers : m # n => markers'[m] = markers[m]
      /\ markers' \in [DOMAIN markers' -> PointerType]
  BY <1>1 DEF Mark, Put, OverlayInv, TypeOK
<1>3. DOMAIN markers' \subseteq Names
  BY <1>2 DEF OverlayInv, TypeOK
<1>4. ASSUME NEW m \in DOMAIN markers' \ stale'
      PROVE  \/ m \in DOMAIN markers \ stale /\ markers'[m] = markers[m]
             \/ markers'[m] = Snapshot
  BY <1>2 DEF Mark
<1> QED
  BY <1>2, <1>3, <1>4, PublishInv DEF Mark


\* Every step keeps the invariant, by the lemmas above.
LEMMA NextInv == OverlayInv /\ [Next]_vars => OverlayInv'
  BY CreateInv, MarkInv, FindNameInv, RunMarkerInv, ScanInv, ReturnInv, ForgetInv, WalkInv,
     PeelInv, ResetInv, StutterInv
  DEF Next, Loop

\* The types of the dictionary's memory, and of the loops that walk it.
THEOREM TypeCorrect == Spec => []TypeOK
<1>1. OverlayInv => TypeOK
  BY DEF OverlayInv
<1> QED
  BY InitInv, NextInv, <1>1, PTL DEF Spec

\* However words are defined, forgotten and rolled back, every bucket lists its
\* live nodes newest first, the chains of nodes and headers stay in step, and each
\* marker that can be run holds, in all four pointers, the state before its word.
THEOREM OverlayCorrect == Spec => [](BucketsNewestFirst /\ ChainsInStep /\ MarkersExact)
<1>1. OverlayInv => BucketsNewestFirst /\ ChainsInStep /\ MarkersExact
  BY DEF OverlayInv
<1> QED
  BY InitInv, NextInv, <1>1, PTL DEF Spec

\* find-name answers the newest live definition of the name it was asked for, and
\* every loop over the overlay has done, so far, what its end will need.
THEOREM SearchCorrect == Spec => [](FindsNewest /\ LoopsOnCourse)
<1>1. OverlayInv => FindsNewest /\ LoopsOnCourse
  BY DEF OverlayInv
<1> QED
  BY InitInv, NextInv, <1>1, PTL DEF Spec

----------------------------------------------------------------------------
(* The dictionary is a list of words *)

WordType == [name : Names, header : Nat]
WordsOf(hd, nd, n) == [k \in 1 .. n |-> [name |-> hd[nd[k].header].name, header |-> nd[k].header]]

\* The first n nodes have headers with names; the list of their words.
Named(hd, nd, n) == \A k \in 1 .. n : hd[nd[k].header].name \in Names /\ nd[k].header \in Nat

\* The list has a word for each of the first n nodes.
LEMMA ListOf ==
  ASSUME NEW hd, NEW nd, NEW n \in Nat, NEW w, w = WordsOf(hd, nd, n),
         Named(hd, nd, n)
  PROVE  /\ Len(w) = n /\ w \in Seq(WordType)
         /\ \A k \in 1 .. n : w[k].name = hd[nd[k].header].name /\ w[k].header = nd[k].header
         /\ \A k \in 1 .. n : w[k] = [name |-> hd[nd[k].header].name, header |-> nd[k].header]
<1>1. w \in [1 .. n -> WordType]
  BY DEF WordsOf, WordType, Named
<1>2. w \in Seq(WordType)
  BY <1>1, SeqDef
<1>3. DOMAIN w = 1 .. n /\ DOMAIN w = 1 .. Len(w) /\ Len(w) \in Nat
  BY <1>1, <1>2, LenProperties
<1>4. Len(w) = n
  BY <1>3
<1> QED
  BY <1>2, <1>4 DEF WordsOf

\* The live nodes and their headers.
LEMMA LiveNodes ==
  OverlayInv =>
    /\ Words = WordsOf(header, node, Live) /\ Live \in 0 .. indexHere /\ indexHere \in Nat
    /\ \A k \in 1 .. indexHere :
         header[node[k].header].name \in Names /\ node[k].header \in Nat /\ node[k].header < here
    /\ \A j, k \in 1 .. indexHere : j < k => node[j].header < node[k].header
<1> SUFFICES ASSUME OverlayInv
             PROVE  /\ Live \in 0 .. indexHere /\ indexHere \in Nat
                    /\ \A k \in 1 .. indexHere :
                         header[node[k].header].name \in Names /\ node[k].header \in Nat /\ node[k].header < here
                    /\ \A j, k \in 1 .. indexHere : j < k => node[j].header < node[k].header
  BY DEF Words, WordsOf
<1>1. indexHere \in Nat
  BY DEF OverlayInv, TypeOK
<1>2. Live \in 0 .. indexHere
  BY <1>1 DEF OverlayInv, LoopsOnCourse, Live
<1>3. ASSUME NEW k \in 1 .. indexHere
      PROVE  header[node[k].header].name \in Names /\ node[k].header \in Nat /\ node[k].header < here
  BY <1>3 DEF OverlayInv, ChainsInStep, TypeOK, HeaderType
<1>4. ASSUME NEW j \in 1 .. indexHere, NEW k \in 1 .. indexHere, j < k
      PROVE  node[j].header < node[k].header
  <2>1. j \in 0 .. k - 1 /\ j # 0
    BY <1>1, <1>4
  <2>2. HeaderOf(j) < node[k].header
    BY <1>4, <2>1 DEF OverlayInv, ChainsInStep
  <2> QED
    BY <2>1, <2>2 DEF HeaderOf
<1> QED
  BY <1>1, <1>2, <1>3, <1>4

\* An answer that FindsNewest is the newest of the list.
LEMMA AnswerNewest ==
  ASSUME OverlayInv, job.do # "peel", NEW n \in Names, NEW h,
         \/ h = 0 /\ (n \in Long \/ \A k \in 1 .. indexHere : ~Defines(k, n))
         \/ /\ n \notin Long
            /\ \E k \in 1 .. indexHere :
                 node[k].header = h /\ Defines(k, n) /\ \A j \in k + 1 .. indexHere : ~Defines(j, n)
  PROVE  h = List!Newest(n)
<1> DEFINE w == WordsOf(header, node, indexHere)
<1>1. Words = w /\ indexHere \in Nat
  BY LiveNodes DEF Live, Words, WordsOf
<1>2. Len(w) = indexHere /\ \A k \in 1 .. indexHere : (w[k].name = n <=> Defines(k, n)) /\ w[k].header = node[k].header
  <2>1. Named(header, node, indexHere)
    BY LiveNodes DEF Named
  <2>2. /\ Len(w) = indexHere
        /\ \A k \in 1 .. indexHere : w[k].name = header[node[k].header].name /\ w[k].header = node[k].header
    <3> HIDE DEF w
    <3>1. w = WordsOf(header, node, indexHere)
      BY DEF w
    <3> QED
      BY <1>1, <2>1, <3>1, ListOf
  <2> QED
    BY <2>2 DEF Defines
<1> HIDE DEF w
<1>3. CASE h = 0 /\ (n \in Long \/ \A k \in 1 .. indexHere : ~Defines(k, n))
  BY <1>1, <1>2, <1>3 DEF List!Newest
<1>4. CASE n \notin Long /\ \E k \in 1 .. indexHere :
             node[k].header = h /\ Defines(k, n) /\ \A j \in k + 1 .. indexHere : ~Defines(j, n)
  <2>1. PICK k \in 1 .. indexHere :
          node[k].header = h /\ Defines(k, n) /\ \A j \in k + 1 .. indexHere : ~Defines(j, n)
    BY <1>4
  <2> DEFINE IsLast(i) == w[i].name = n /\ \A j \in i + 1 .. Len(w) : w[j].name # n
  <2>2. IsLast(k)
    BY <1>2, <2>1
  <2>3. ASSUME NEW i \in 1 .. Len(w), IsLast(i) PROVE i = k
    <3>1. ~(i < k)
      BY <1>1, <1>2, <2>2, <2>3
    <3>2. ~(k < i)
      BY <1>1, <1>2, <2>2, <2>3
    <3> QED
      BY <1>1, <1>2, <3>1, <3>2
  <2>4. List!Newest(n) = w[CHOOSE i \in 1 .. Len(w) : IsLast(i)].header
    BY <1>1, <1>2, <1>4, <2>1 DEF List!Newest
  <2> HIDE DEF IsLast
  <2>5. (CHOOSE i \in 1 .. Len(w) : IsLast(i)) = k
    BY <1>2, <2>2, <2>3
  <2> QED
    BY <1>2, <2>1, <2>4, <2>5
<1> QED
  BY <1>3, <1>4

\* A step after which the same words are live and the same answer stands.
LEMMA SameList ==
  ASSUME Live' = Live, UNCHANGED <<header, node>>, Answer' = Answer
  PROVE  UNCHANGED <<Words, Answer>>
BY DEF Words

\* create appends a word whose header no other word has.
LEMMA CreateDefines ==
  ASSUME OverlayInv, NEW n \in Names, Publish(n)
  PROVE  List!Define
<1> DEFINE w == [name |-> n, header |-> here]
<1>1. /\ job = Idle /\ job' = job /\ indexHere' = indexHere + 1
      /\ header' = Put(header, here, [link |-> latest, name |-> n])
      /\ node' = Put(node, indexHere + 1, NewNode(n))
  BY DEF Publish
<1>2. /\ indexHere \in Nat
      /\ \A k \in 1 .. indexHere :
           header[node[k].header].name \in Names /\ node[k].header \in Nat /\ node[k].header < here
  BY LiveNodes
<1>3. /\ Words = WordsOf(header, node, indexHere) /\ Words' = WordsOf(header', node', indexHere + 1)
      /\ Answer = <<>> /\ Answer' = <<>>
  BY <1>1 DEF Words, WordsOf, Live, Answer, Idle
<1>4. /\ node'[indexHere + 1].header = here /\ header'[here].name = n
      /\ \A k \in 1 .. indexHere : node'[k] = node[k] /\ header'[node[k].header] = header[node[k].header]
  <2>1. here \in Nat /\ 1 .. indexHere \subseteq DOMAIN node
        /\ \A k \in 1 .. indexHere : node[k].header \in DOMAIN header
    BY DEF OverlayInv, TypeOK, ChainsInStep
  <2> QED
    BY <1>1, <1>2, <2>1 DEF Put, NewNode
<1>5. /\ Words \in Seq(WordType) /\ Len(Words) = indexHere
      /\ \A k \in 1 .. indexHere : Words[k] = [name |-> header[node[k].header].name, header |-> node[k].header]
  <2>1. Named(header, node, indexHere)
    BY <1>2 DEF Named
  <2> QED
    BY <1>2, <1>3, <2>1, ListOf
<1>6. /\ Words' \in Seq(WordType) /\ Len(Words') = indexHere + 1
      /\ \A k \in 1 .. indexHere + 1 :
           Words'[k] = [name |-> header'[node'[k].header].name, header |-> node'[k].header]
  <2>1. Named(header', node', indexHere + 1)
    <3>1. here \in Nat
      BY DEF OverlayInv, TypeOK
    <3> QED
      BY <1>2, <1>4, <3>1 DEF Named
  <2> QED
    BY <1>2, <1>3, <2>1, ListOf
<1>7. Words'[indexHere + 1] = w /\ \A k \in 1 .. indexHere : Words'[k] = Words[k]
  <2>1. indexHere + 1 \in 1 .. indexHere + 1 /\ \A k \in 1 .. indexHere : k \in 1 .. indexHere + 1
    BY <1>2
  <2>2. Words'[indexHere + 1] = w
    BY <1>4, <1>6, <2>1
  <2>3. ASSUME NEW k \in 1 .. indexHere PROVE Words'[k] = Words[k]
    BY <1>4, <1>5, <1>6, <2>1
  <2> QED
    BY <2>2, <2>3
<1>8. Words' = Append(Words, w)
  BY <1>5, <1>6, <1>7, IsAppend
<1>9. \A k \in 1 .. Len(Words) : Words[k].header # w.header
  BY <1>2, <1>5
<1>10. Words' # <<>> /\ Words'[Len(Words')] = w
  BY <1>2, <1>6, <1>7
<1> QED
  BY <1>3, <1>8, <1>9, <1>10 DEF List!Define

\* A rollback of node k's word cuts the list before it.
LEMMA RollbackCuts ==
  ASSUME OverlayInv, job.do # "peel", NEW k \in 1 .. indexHere,
         NEW why, job' = Peeling(why, StateBefore(k)), UNCHANGED heapVars
  PROVE  List!Cut(k) /\ k \in 1 .. Len(Words) /\ Words[k].header = node[k].header
<1>1. /\ indexHere \in Nat
      /\ Named(header, node, indexHere)
  BY LiveNodes DEF Named
<1>2. Words = WordsOf(header, node, indexHere)
  BY DEF Words, WordsOf, Live
<1>3. Words' = WordsOf(header, node, k - 1) /\ Answer' = <<>>
  BY DEF Words, WordsOf, Live, Peeling, StateBefore, heapVars, Answer
<1>4. /\ Words \in Seq(WordType) /\ Len(Words) = indexHere
      /\ \A j \in 1 .. indexHere : Words[j] = [name |-> header[node[j].header].name, header |-> node[j].header]
  BY <1>1, <1>2, ListOf
<1>5. k - 1 \in Nat /\ k - 1 \in 0 .. indexHere /\ \A j \in 1 .. k - 1 : j \in 1 .. indexHere
  BY <1>1
<1>6. /\ Words' \in Seq(WordType) /\ Len(Words') = k - 1
      /\ \A j \in 1 .. k - 1 : Words'[j] = [name |-> header[node[j].header].name, header |-> node[j].header]
  <2>1. Named(header, node, k - 1)
    BY <1>1, <1>5 DEF Named
  <2> QED
    BY <1>3, <1>5, <2>1, ListOf
<1>7. Words' = SubSeq(Words, 1, Len(Words'))
  BY <1>4, <1>5, <1>6, IsCut
<1> QED
  BY <1>3, <1>4, <1>6, <1>7 DEF List!Cut

\* A search that ends: its answer is the newest of the list.
LEMMA FoundFinds ==
  ASSUME OverlayInv, job.do # "peel", Answer = <<>>, NEW n \in Names, NEW why, NEW h,
         job' = Found(why, n, h), UNCHANGED heapVars,
         \/ h = 0 /\ (n \in Long \/ \A k \in 1 .. indexHere : ~Defines(k, n))
         \/ /\ n \notin Long
            /\ \E k \in 1 .. indexHere :
                 node[k].header = h /\ Defines(k, n) /\ \A j \in k + 1 .. indexHere : ~Defines(j, n)
  PROVE  List!Find(n)
<1>1. h = List!Newest(n)
  BY AnswerNewest
<1>2. Answer' = <<n, h>>
  BY DEF Answer, Found
<1>3. Words' = Words
  BY DEF Words, Live, Found, heapVars
<1> QED
  BY <1>1, <1>2, <1>3 DEF List!Find

\* Every step of the dictionary is one of the list, or leaves it as it is.
LEMMA StepRefines ==
  OverlayInv /\ [Next]_vars => [List!Next]_<<Words, Answer>>
<1> SUFFICES ASSUME OverlayInv, [Next]_vars PROVE [List!Next]_<<Words, Answer>>
  OBVIOUS
<1>1. ASSUME NEW n \in Names, Create(n) \/ Mark(n) PROVE List!Next
  BY <1>1, CreateDefines DEF List!Next, Create, Mark
<1>2. ASSUME NEW n \in Names, NEW why \in Purposes, FindName(why, n)
      PROVE  [List!Next]_<<Words, Answer>>
  <2>1. job = Idle /\ UNCHANGED heapVars /\ Answer = <<>>
    BY <1>2 DEF FindName, Answer, Idle
  <2>2. CASE n \in Long
    <3>1. job' = Found(why, n, 0)
      BY <1>2, <2>2 DEF FindName
    <3>2. List!Find(n)
      BY <2>1, <2>2, <3>1, FoundFinds DEF Idle
    <3> QED
      BY <3>2 DEF List!Next
  <2>3. CASE n \notin Long
    <3>1. job' = Search(why, n, bucket[Bucket[Hash[n]]])
      BY <1>2, <2>3 DEF FindName
    <3>2. Live' = Live /\ Answer' = Answer /\ UNCHANGED <<header, node>>
      BY <2>1, <3>1 DEF Search, Live, Answer, Idle, heapVars
    <3> QED
      BY <3>2, SameList
  <2> QED
    BY <2>2, <2>3
<1>3. ASSUME NEW n \in DOMAIN markers, RunMarker(n) PROVE List!Next
  <2> DEFINE k == markers[n].indexHere + 1
  <2>1. k \in 1 .. indexHere /\ markers[n] = StateBefore(k)
    BY <1>3 DEF RunMarker, OverlayInv, MarkersExact, TypeOK, PointerType
  <2>2. job = Idle /\ job' = Peeling("marker", StateBefore(k)) /\ UNCHANGED heapVars
        /\ Answer = <<>> /\ job.do # "peel"
    BY <1>3, <2>1 DEF RunMarker, Answer, Idle
  <2> HIDE DEF k
  <2>3. List!Cut(k) /\ k \in 1 .. Len(Words)
    BY <2>1, <2>2, RollbackCuts
  <2> QED
    BY <2>2, <2>3 DEF List!Next, List!RunMarker
<1>4. ASSUME Scan PROVE [List!Next]_<<Words, Answer>>
  <2> DEFINE n == job.name
             at == job.at
  <2>1. /\ job.do = "search" /\ n \in Names /\ at \in 0 .. indexHere /\ indexHere \in Nat
        /\ n \notin Long /\ \A k \in at + 1 .. indexHere : ~Defines(k, n)
        /\ UNCHANGED heapVars /\ Answer = <<>>
    BY <1>4, JobKinds DEF Scan, OverlayInv, TypeOK, LoopsOnCourse, Answer
  <2>2. CASE at = 0
    <3>1. job' = Found(job.why, n, 0) /\ \A k \in 1 .. indexHere : ~Defines(k, n)
      BY <1>4, <2>1, <2>2 DEF Scan
    <3>2. List!Find(n)
      BY <2>1, <3>1, FoundFinds
    <3> QED
      BY <2>1, <3>2 DEF List!Next
  <2>3. CASE at # 0 /\ Matches(at, n)
    <3>1. job' = Found(job.why, n, node[at].header) /\ Defines(at, n) /\ at \in 1 .. indexHere
      BY <1>4, <2>1, <2>3 DEF Scan, Matches, Defines
    <3>2. List!Find(n)
      BY <2>1, <3>1, FoundFinds
    <3> QED
      BY <2>1, <3>2 DEF List!Next
  <2>4. CASE at # 0 /\ ~Matches(at, n)
    <3>1. job' = [job EXCEPT !.at = node[at].next]
      BY <1>4, <2>4 DEF Scan
    <3>2. job'.do = "search"
      <4>1. job \in [do : {"search"}, why : Purposes, name : Names, at : Nat]
        BY <2>1, JobKinds DEF OverlayInv, TypeOK
      <4> QED
        BY <3>1, <4>1
    <3>3. Live' = Live /\ Answer' = Answer /\ UNCHANGED <<header, node>>
      BY <2>1, <3>2 DEF Live, Answer, heapVars
    <3> QED
      BY <3>3, SameList
  <2> QED
    BY <2>2, <2>3, <2>4
<1>5. ASSUME Return PROVE List!Next
  <2>1. job.do = "found" /\ job' = Idle /\ UNCHANGED heapVars
    BY <1>5 DEF Return
  <2>2. Words' = Words /\ Answer # <<>> /\ Answer' = <<>>
    BY <2>1 DEF Words, Live, Answer, heapVars, Idle
  <2> QED
    BY <2>2 DEF List!Next, List!Return
<1>6. ASSUME Forget PROVE UNCHANGED <<Words, Answer>>
  BY <1>6, SameList DEF Forget, Walk, Live, Answer, heapVars
<1>7. ASSUME WalkOn PROVE [List!Next]_<<Words, Answer>>
  <2> DEFINE at == job.at
  <2>1. /\ job \in [do : {"walk"}, name : Names, header : Nat, at : Nat]
        /\ at \in 1 .. indexHere /\ at # 0 /\ UNCHANGED heapVars
        /\ Answer # <<>> /\ Answer[2] = job.header
    BY <1>7, JobKinds DEF WalkOn, OverlayInv, TypeOK, LoopsOnCourse, Answer
  <2>2. CASE node[at].header = job.header
    <3>1. job' = Peeling("forget", StateBefore(at))
      BY <1>7, <2>1, <2>2, BeforeIsState DEF WalkOn
    <3>2. List!Cut(at) /\ at \in 1 .. Len(Words) /\ Words[at].header = node[at].header
      BY <2>1, <3>1, RollbackCuts
    <3> QED
      BY <2>1, <2>2, <3>2 DEF List!Next, List!Forget
  <2>3. CASE node[at].header # job.header
    <3>1. job' = [job EXCEPT !.at = node[at].prev]
      BY <1>7, <2>1, <2>3 DEF WalkOn
    <3>2. job'.do = "walk" /\ job'.name = job.name /\ job'.header = job.header
      BY <2>1, <3>1
    <3> QED
      BY <2>1, <3>2, SameList DEF Live, Answer, heapVars
  <2> QED
    BY <2>2, <2>3
<1>8. ASSUME Peel PROVE UNCHANGED <<Words, Answer>>
  <2>1. job.do = "peel" /\ job' = [job EXCEPT !.at = node[job.at].prev] /\ UNCHANGED <<header, node, indexHere>>
    BY <1>8 DEF Peel
  <2>2. job'.do = "peel" /\ job'.back = job.back
    <3>1. job \in [do : {"peel"}, why : {"forget", "marker"}, at : Nat, back : PointerType]
      BY <2>1, JobKinds DEF OverlayInv, TypeOK
    <3> QED
      BY <2>1, <3>1
  <2> QED
    BY <2>1, <2>2, SameList DEF Live, Answer
<1>10. ASSUME Reset PROVE UNCHANGED <<Words, Answer>>
  <2>1. job.do = "peel" /\ job' = Idle /\ indexHere' = job.back.indexHere /\ UNCHANGED <<header, node>>
    BY <1>10 DEF Reset
  <2> QED
    BY <2>1, SameList DEF Live, Answer, Idle
<1>9. CASE UNCHANGED vars
  BY <1>9, SameList DEF vars, heapVars, Live, Answer
<1> QED
  BY <1>1, <1>2, <1>3, <1>4, <1>5, <1>6, <1>7, <1>8, <1>9, <1>10 DEF Next, Loop

\* The dictionary's two structures, with their searches and rollbacks a step at a
\* time, do what a list of words does: a definition appends, find-name answers
\* the newest, forget and marker cut.
THEOREM DictionaryIsAList == Spec => ImplementsWordList
<1>1. Init => List!Init
  <2> SUFFICES ASSUME Init PROVE List!Init
    OBVIOUS
  <2>1. Live = 0 /\ Answer = <<>>
    BY DEF Init, Live, Answer, Idle
  <2>2. Words = <<>>
    BY <2>1 DEF Words
  <2> QED
    BY <2>1, <2>2 DEF List!Init
<1> QED
  BY <1>1, InitInv, NextInv, StepRefines, PTL DEF Spec, ImplementsWordList, List!Spec
=============================================================================
