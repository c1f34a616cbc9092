------------------------------ MODULE Overlay ------------------------------
(***************************************************************************)
(* The dictionary's two structures (kernel/dict.masm): the chain of word   *)
(* headers, built upwards from HERE, and the hash overlay that find-name   *)
(* searches, nodes built downwards from INDEX_HERE and hung off bucket     *)
(* lists; with the rollback of `forget` and `marker` (src/session.rs).     *)
(*                                                                         *)
(* A header is named by its address.  A node is named by its number k from *)
(* the top of the dictionary: its address is NodeAddr(k), so an older node *)
(* has a smaller number, and 0 is the null pointer.  Memory that a         *)
(* rollback gives back keeps its contents.                                 *)
(***************************************************************************)
EXTENDS Integers

CONSTANTS
  Names,        \* word names, case folded
  Long,         \* those of 0 or more than 32 characters, which are never found
  Hash,         \* the FNV-1a hash of each name
  Bucket,       \* the bucket of each hash (hash & wl_bucket_mask)
  HeaderSize,   \* the size of the header of each name
  NodeSize,     \* dn_size
  DictEnd       \* the address the nodes grow down from; headers grow up from 1

Buckets == {Bucket[h] : h \in DOMAIN Bucket}

ASSUME OverlayAssumption ==
  /\ Long \subseteq Names
  /\ Hash \in [Names -> DOMAIN Bucket]
  /\ Bucket \in [DOMAIN Bucket -> Buckets]
  /\ HeaderSize \in [Names -> Nat \ {0}]
  /\ NodeSize \in Nat \ {0}
  /\ DictEnd \in Nat

VARIABLES
  here,         \* where the next header goes
  latest,       \* the newest header, 0 if none
  header,       \* header memory: address -> [link, name]
  indexHere,    \* how many nodes are allocated (INDEX_HERE as a node number)
  indexLatest,  \* the newest node
  bucket,       \* bucket heads
  node,         \* node memory: number -> [next, prev, header, hash]
  markers,      \* the session's map from marker names to snapshots
  stale,        \* markers that were kept though their own word was forgotten
  job,          \* the loop the session is in, if any
  torn          \* a node was laid over the header it belongs to

heapVars == <<here, latest, header, indexHere, indexLatest, bucket, node>>
markerVars == <<markers, stale>>
vars == <<heapVars, markerVars, job, torn>>

NodeAddr(k) == DictEnd - k * NodeSize
Put(f, k, v) == [j \in DOMAIN f \cup {k} |-> IF j = k THEN v ELSE f[j]]

Blank == [k \in {} |-> 0]   \* memory nothing has been written to

Idle == [do |-> "idle"]
Search(why, n, at) == [do |-> "search", why |-> why, name |-> n, at |-> at]
Found(why, n, hdr) == [do |-> "found", why |-> why, name |-> n, header |-> hdr]
Walk(n, hdr, at) == [do |-> "walk", name |-> n, header |-> hdr, at |-> at]
Peeling(why, back) == [do |-> "peel", why |-> why, at |-> indexLatest, back |-> back]

Init ==
  /\ here = 1 /\ latest = 0 /\ header = Blank
  /\ indexHere = 0 /\ indexLatest = 0 /\ node = Blank
  /\ bucket = [b \in Buckets |-> 0]
  /\ markers = Blank /\ stale = {}
  /\ job = Idle
  /\ torn = FALSE

----------------------------------------------------------------------------
(* create: a header at HERE and a node for it.  The two overflow checks end *)
(* in brk, which stops the program; the second compares the new node with   *)
(* the start of the header.                                                 *)

Body(n) == here + HeaderSize[n]
Room(n) == Body(n) < NodeAddr(indexHere) /\ NodeAddr(indexHere + 1) > here

NewNodeLooped(n) ==                                              \* (mutant)
  [next |-> indexHere + 1, prev |-> indexLatest, header |-> here, hash |-> Hash[n]]
NewNode(n) ==
  [next |-> bucket[Bucket[Hash[n]]], prev |-> indexLatest, header |-> here, hash |-> Hash[n]]

Publish(n) ==
  /\ job = Idle /\ ~torn
  /\ Room(n)
  /\ header' = Put(header, here, [link |-> latest, name |-> n])
  /\ latest' = here
  /\ here' = Body(n)
  /\ node' = Put(node, indexHere + 1, NewNode(n))
  /\ bucket' = [bucket EXCEPT ![Bucket[Hash[n]]] = indexHere + 1]
  /\ indexHere' = indexHere + 1
  /\ indexLatest' = indexHere + 1
  /\ torn' = (Body(n) > NodeAddr(indexHere + 1))
  /\ UNCHANGED job

Create(n) == Publish(n) /\ UNCHANGED markerVars

\* `marker n`: what the pointers are before its own word is made.
SnapshotUnlinked ==                                              \* (mutant)
  [latest |-> 0, here |-> here, indexHere |-> indexHere, indexLatest |-> indexLatest]
Snapshot ==
  [latest |-> latest, here |-> here, indexHere |-> indexHere, indexLatest |-> indexLatest]

Mark(n) ==
  /\ Publish(n)
  /\ markers' = Put(markers, n, Snapshot)
  /\ stale' = stale \ {n}

----------------------------------------------------------------------------
(* search_header_in_wordlist: down the bucket's list, hash first *)

Purposes == {"find", "forget"}

FindName(why, n) ==
  /\ job = Idle /\ ~torn
  /\ job' = IF n \in Long THEN Found(why, n, 0) ELSE Search(why, n, bucket[Bucket[Hash[n]]])
  /\ UNCHANGED <<heapVars, markerVars, torn>>

MatchesByHash(k, n) == node[k].hash = Hash[n]                    \* (mutant)
Matches(k, n) == node[k].hash = Hash[n] /\ header[node[k].header].name = n

Scan ==
  /\ job.do = "search"
  /\ job' = IF job.at = 0 THEN Found(job.why, job.name, 0)
            ELSE IF Matches(job.at, job.name) THEN Found(job.why, job.name, node[job.at].header)
            ELSE [job EXCEPT !.at = node[job.at].next]
  /\ UNCHANGED <<heapVars, markerVars, torn>>

\* find-name returns, or forget reports that there is no such word.
Return ==
  /\ job.do = "found"
  /\ job.why = "find" \/ job.header = 0
  /\ job' = Idle
  /\ UNCHANGED <<heapVars, markerVars, torn>>

----------------------------------------------------------------------------
(* Rollback: peel the nodes newer than a threshold off their buckets, then  *)
(* reset the pointers.                                                      *)

\* What forgetting node k and everything after it goes back to.
ThresholdKept(k) == k                                            \* (mutant)
Threshold(k) == k - 1
Before(k) ==
  LET h == node[k].header
  IN  [latest |-> header[h].link, here |-> h,
       indexHere |-> Threshold(k), indexLatest |-> node[k].prev]

Forget ==
  /\ job.do = "found"
  /\ job.why = "forget" /\ job.header # 0
  /\ job' = Walk(job.name, job.header, indexLatest)
  /\ UNCHANGED <<heapVars, markerVars, torn>>

\* The creation chain, newest first, down to the node of the header; forget
\* gives up when there is none.
WalkOn ==
  /\ job.do = "walk"
  /\ job' = IF job.at = 0 THEN Idle
            ELSE IF node[job.at].header = job.header THEN Peeling("forget", Before(job.at))
            ELSE [job EXCEPT !.at = node[job.at].prev]
  /\ UNCHANGED <<heapVars, markerVars, torn>>

\* A marker's name runs its snapshot, whatever the dictionary finds by that
\* name.  What a stale snapshot would bring back is not modelled.
RunMarker(n) ==
  /\ job = Idle /\ ~torn
  /\ n \in DOMAIN markers \ stale
  /\ job' = Peeling("marker", markers[n])
  /\ markers' = [m \in DOMAIN markers \ {n} |-> markers[m]]
  /\ UNCHANGED <<heapVars, stale, torn>>

PeelKept(b, k) == bucket[b]                                    \* (mutant)
PeelHead(b, k) == IF bucket[b] = k THEN node[k].next ELSE bucket[b]

Peel ==
  /\ job.do = "peel"
  /\ job.at # 0 /\ job.at > job.back.indexHere
  /\ LET b == Bucket[node[job.at].hash]
     IN  bucket' = [bucket EXCEPT ![b] = PeelHead(b, job.at)]
  /\ job' = [job EXCEPT !.at = node[job.at].prev]
  /\ UNCHANGED <<here, latest, header, indexHere, indexLatest, node, markerVars, torn>>

\* The markers that stay: forget drops those whose name is no longer found,
\* a marker those that are not older than itself.
Defines(k, n) == header[node[k].header].name = n
Pruned(keep) == {n \in DOMAIN markers \ Long : \E k \in 1 .. keep : Defines(k, n)}
OlderAll(keep) == DOMAIN markers                                 \* (mutant)
Older(keep) == {n \in DOMAIN markers : markers[n].indexHere < keep}
Kept(why, keep) == IF why = "forget" THEN Pruned(keep) ELSE Older(keep)

Reset ==
  /\ job.do = "peel"
  /\ job.at = 0 \/ job.at <= job.back.indexHere
  /\ indexHere' = job.back.indexHere
  /\ indexLatest' = job.back.indexLatest
  /\ latest' = job.back.latest
  /\ here' = job.back.here
  /\ markers' = [n \in Kept(job.why, job.back.indexHere) |-> markers[n]]
  /\ stale' = {n \in DOMAIN markers' :
                 n \in stale \/ (job.why = "forget" /\ markers[n].indexHere >= indexHere')}
  /\ job' = Idle
  /\ UNCHANGED <<header, bucket, node, torn>>

----------------------------------------------------------------------------
Loop == Scan \/ Return \/ Forget \/ WalkOn \/ Peel \/ Reset   \* the session is busy

Next ==
  \/ \E n \in Names : Create(n) \/ Mark(n)
  \/ \E n \in Names, why \in Purposes : FindName(why, n)
  \/ \E n \in DOMAIN markers : RunMarker(n)
  \/ Loop

Spec == Init /\ [][Next]_vars

\* Nothing interrupts a loop once it has begun: there is one thread.
FairSpec == Spec /\ WF_vars(Loop)

----------------------------------------------------------------------------
(* Properties *)

NodeType == [next : Nat, prev : Nat, header : Nat, hash : DOMAIN Bucket]
HeaderType == [link : Nat, name : Names]
PointerType == [latest : Nat, here : Nat, indexHere : Nat, indexLatest : Nat]
JobType ==
  {Idle}
  \cup [do : {"search"}, why : Purposes, name : Names, at : Nat]
  \cup [do : {"found"}, why : Purposes, name : Names, header : Nat]
  \cup [do : {"walk"}, name : Names, header : Nat, at : Nat]
  \cup [do : {"peel"}, why : {"forget", "marker"}, at : Nat, back : PointerType]

\* The types of the dictionary's memory and of the session's loops.
TypeOK ==
  /\ here \in Nat /\ latest \in Nat
  /\ DOMAIN header \subseteq Nat /\ header \in [DOMAIN header -> HeaderType]
  /\ indexHere \in Nat /\ indexLatest \in Nat
  /\ 1 .. indexHere \subseteq DOMAIN node /\ DOMAIN node \subseteq Nat
  /\ node \in [DOMAIN node -> NodeType]
  /\ bucket \in [Buckets -> Nat]
  /\ DOMAIN markers \subseteq Names /\ markers \in [DOMAIN markers -> PointerType]
  /\ job \in JobType
  /\ torn \in BOOLEAN

\* v is the newest node of bucket b among the first k, 0 if there is none.
NewestIn(b, k, v) ==
  /\ v \in 0 .. k
  /\ v # 0 => Bucket[node[v].hash] = b
  /\ \A j \in v + 1 .. k : Bucket[node[j].hash] # b

\* While a rollback peels, the nodes not yet peeled; else all that are allocated.
Linked == IF job.do = "peel" THEN job.at ELSE indexHere

\* A bucket's list holds every linked node of the bucket and no other, newest
\* first: each head is the newest, each node's successor the next older one.
\* It is what makes a redefinition shadow the word it redefines, and what a
\* rollback relies on when it only ever looks at the heads.
BucketsNewestFirst ==
  /\ \A b \in Buckets : NewestIn(b, Linked, bucket[b])
  /\ \A k \in 1 .. indexHere : NewestIn(Bucket[node[k].hash], k - 1, node[k].next)

\* The header chain and the creation chain of the nodes run in step: each node's
\* predecessor is the node before it and its header links to that node's header;
\* the live headers lie in the order of their creation, all below HERE; and a
\* node's hash is the hash of the name in its header.
HeaderOf(k) == IF k = 0 THEN 0 ELSE node[k].header
ChainsInStep ==
  /\ indexLatest = indexHere
  /\ latest = HeaderOf(indexHere)
  /\ here > 0
  /\ \A k \in 1 .. indexHere :
       /\ node[k].prev = k - 1
       /\ node[k].header \in DOMAIN header
       /\ node[k].hash = Hash[header[node[k].header].name]
       /\ header[node[k].header].link = HeaderOf(k - 1)
       /\ \A j \in 0 .. k - 1 : HeaderOf(j) < node[k].header
       /\ node[k].header < here

\* What find-name answers is the newest live definition of the name, and it
\* answers "not found" only when there is none, or the name is one of the Long.
FindsNewest ==
  job.do = "found" =>
    IF job.header = 0
    THEN job.name \in Long \/ \A k \in 1 .. indexHere : ~Defines(k, job.name)
    ELSE \E k \in 1 .. indexHere :
           /\ node[k].header = job.header /\ Defines(k, job.name)
           /\ \A j \in k + 1 .. indexHere : ~Defines(j, job.name)

\* What the pointers were before node k was made.
StateBefore(k) ==
  [latest |-> HeaderOf(k - 1), here |-> node[k].header, indexHere |-> k - 1, indexLatest |-> k - 1]

\* A marker that can be run goes back to the state just before a live word, its
\* own: the snapshot, taken once, and what forget would rebuild from that word's
\* node and header agree in every pointer.
MarkersExact ==
  \A n \in DOMAIN markers \ stale :
    markers[n].indexHere < indexHere /\ markers[n] = StateBefore(markers[n].indexHere + 1)

\* A search has passed no definition of its name and is still in its bucket; a
\* walk has not passed the node it looks for; a rollback is between where it
\* began and where it ends, and what it will reset the pointers to is the state
\* before the first word it forgets.
LoopsOnCourse ==
  /\ job.do = "search" =>
       /\ job.name \notin Long
       /\ job.at \in 0 .. indexHere
       /\ job.at # 0 => Bucket[node[job.at].hash] = Bucket[Hash[job.name]]
       /\ \A k \in job.at + 1 .. indexHere : ~Defines(k, job.name)
  /\ job.do = "walk" =>
       job.at \in 0 .. indexHere /\ \E k \in 1 .. job.at : node[k].header = job.header
  /\ job.do = "peel" =>
       /\ job.back.indexHere \in 0 .. indexHere - 1
       /\ job.at \in job.back.indexHere .. indexHere
       /\ job.back = StateBefore(job.back.indexHere + 1)

\* The heaps never overlap ("Overflow = INDEX_HERE - size <= HERE: the two heaps
\* meet", docs/design/mf66-dictionary.md): no node is laid over its own header.
HeapsApart == ~torn

\* Every search and every rollback ends: no list has a cycle.
LoopsEnd == job # Idle ~> job = Idle

\* The words of the dictionary, oldest first; a rollback counts from its start.
Live == IF job.do = "peel" THEN job.back.indexHere ELSE indexHere
Words == [k \in 1 .. Live |-> [name |-> header[node[k].header].name, header |-> node[k].header]]
Answer == IF job.do \in {"found", "walk"} THEN <<job.name, job.header>> ELSE <<>>

\* The dictionary is a list of words: create appends one, find-name answers the
\* newest of a name, forget and marker cut the list short.
List == INSTANCE WordList WITH words <- Words, answer <- Answer
ImplementsWordList == List!Spec
=============================================================================
