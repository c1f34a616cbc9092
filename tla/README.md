# MF66 in TLA+

MF66 is a Forth for macOS on arm64: a kernel written in assembler
(`src/kernel/*.masm`), assembled into executable memory at start, and a Rust
program (`src/src/*.rs`) that reads source text, compiles definitions to native
code through a small optimizing back end, and drives the kernel. This directory
models the parts of it whose correctness depends on the order in which things
happen: the reducer and the deferred code generator, the dictionary and its rollback,
what the session remembers about words beside the dictionary, the registers that
stay live across a loop, exceptions and what they leave behind, the editor with the
rope under it and the workspace around it, and the mailbox through which another
process drives all of it.

## 1. The system

One thread runs everything that matters: the session (`Mf66Session`) interprets
or compiles a token at a time, calls kernel words through `forth_main`, and
keeps maps of its own. The concurrency is of another kind: *deferred* work
(values still in registers, stores not yet made), *retained* state (maps and
caches keyed by names, xts and addresses that are given back and used again),
and *recovery* (errors, throws and crashes that leave a word half way).

| Component | State | Operations | What makes it correct |
|---|---|---|---|
| Deferred lowerer (`opt.rs`, `struct Low`) | the window `vs`/`fvs` of stack items held in registers or as constants, the registers in use, the caches of locals, fvariables and constant-address cells, the pins | one per token; `settle` | the code does to the stacks and memory what the tokens mean, whatever is deferred; no register has two holders; a cache agrees with memory; a register is there when asked for |
| Reducer (`opt.rs`, `reduce`) | none | peephole rewrites of a run of tokens | the rewritten run means the same |
| Encoder (`aenc.rs`) | the body | one function per instruction | the words do what the lowerer expects |
| Dictionary (`dict.masm`) | headers up from HERE, overlay nodes down from INDEX_HERE, bucket heads | `create`, `find-name` | the newest live definition is found; the two heaps stay apart |
| Rollback (`session.rs`) | snapshots | `forget`, markers | both structures end as they were; nothing is left in a bucket |
| Session maps (`session.rs`, `codearena.rs`) | `values`, `var_addrs`, `instance_addrs`, `markers`, `defining_words`, `inline_words`, arena cursor | defining words, `:` `;` `to` `recurse`, inlining | what a map says of a name is what the dictionary says; code is not overwritten; an inlined body is the word's body |
| Pinned loops (`session.rs`) | `active_ipins`, `active_fpins`, `pin_nest`, the open definition | loop words, `to`, calls, errors | a local is read from where its value is; every way back to a loop's top agrees on the pins |
| Objects (`session.rs`, `oop.masm`) | classes, selectors, vtables | `class`, `new`, sends | a send reaches the method of the receiver's class |
| Exceptions (`exceptions.masm`, `runtime.rs`), crash guard (`crash.rs`) | chain of handler frames, saved stack pointers; one jump buffer | `catch`, `throw`, `forth_main`, `guard` | every stack is as at the `catch`; nested guards return to their own caller |
| Rope (`rope_buffer.rs`) | a tree of leaves with cached lengths, newlines, heights | insert, delete, replace, queries | the buffer is a plain sequence of characters; the tree stays balanced |
| Editor (`editor.rs`) | text, caret, anchor, undo and redo snapshots, path, dirty flag | keys, selection, clipboard, undo, format, files | no text is lost to undo; the caret is in the text; a clean editor is saved |
| Workspace (`workspace.rs`, `mf66-ui.rs`) | focus, REPL line and history, log | events, reactions, drawing | events reach one pane; the caret is visible |
| Workspace driver (`wsdriver.rs`) | mailbox files, sequence numbers | verbs; request, answer, restart | a request is run once; a waiting client ends up with its answer |
| Kernel words (`stack`, `arith`, `compare`, `strings`, `number`, `float`, ...) | the Forth stacks | the words | each does what its stack comment says and what the tokens that replace it do |
| Host console, box, programs | a grid; none; none | | wrapping keeps the text; an error in one snippet does not reach the next |

**How they interact.** `eval` scans a token. In a definition it becomes optimizer
tokens (`compile_token`), which collect until something that is not straight-line
code: then `flush_toks` reduces and lowers them into the body with the pins in
force. `;` commits the body to the arena, records short straight-line bodies for
inlining, and calls the kernel's `create`, which puts a header in the dictionary
and a node in the overlay. `find` calls the kernel's `find-name`, but several
maps are asked before it. `forget` and a marker bring the dictionary back
through `rollback_overlay`, then deal with the maps: a marker puts its copies
back, `forget` deletes what it does not find any more.

**What is hard.** In the order the plan takes it: a register
pool running dry in the middle of an operation, with several caches that may
alias (Lower); two linked structures over the same memory, cut back from three
places (Overlay); five maps under redefinition and two kinds of rollback
(Dictionary); pins that have to be loaded and spilled once on each path
(LoopPins); stacks restored by a throw, a crash or not at all (Exceptions); rewrites
that look back at rewritten tokens (Reduce); a tree that caches what is below
each node (Rope); offsets and snapshots of a text that changes under them
(Workspace); a restart between a request and its answer (Mailbox). `PROJECT.json` lists each
hazard at its line with the properties that cover it.

## 2. Modules

```
Words <- Tokens <- ForthMachine            what tokens mean
   \       \            ^
    Aarch64 <- Lowering <- Lower           Lower implements ForthMachine
                             ^ MCLower, LowerProofs
WordList <- Overlay <- OverlayProofs       Overlay implements WordList
                    <- MCOverlay
Dictionary <- DictionaryProofs, MCDictionary
LoopPins <- LoopPinsProofs, MCLoopPins
Words <- Tokens <- Reduce <- MCReduce      Reduce keeps the meaning in Tokens
Exceptions <- ExceptionsProofs, MCExceptions
Text <- TextBuffer                         Rope implements TextBuffer
  \  \      ^
   \   Rope <- MCRope
    Editor <- Workspace <- WorkspaceProofs, MCWorkspace
Exchange <- Mailbox <- MailboxProofs       Mailbox implements Exchange
                    <- MCMailbox
SequenceLemmas <- the modules of proofs
```

### The lowerer: Words, Tokens, ForthMachine, Aarch64, Lowering, Lower

* `Words`: cells of a small width that wrap, and the evaluation of the operators.
* `Tokens`: what a token means to the abstract machine: data stack, float stack,
  locals, cells. `ForthMachine` is the specification of it: any token whose
  operands are there, executed. It knows no registers.
* `Aarch64`: the effect of every instruction the lowerer emits, on registers,
  stack memory, cells and frames. An access outside them sets `fault`.
* `Lowering`: one operator for each method of `struct Low`, from its state to its
  state and the instructions it emits.
* `Lower`: the state machine. A step takes a token, lowers it and *executes* what
  was emitted, so code and effect can be compared at once; `FinishRun` is the
  settle that ends a run, after which a new run may begin. What
  the token sequence means is read off the machine by `Forth`: memory overlaid by
  what is still deferred. The refinement `Implements` says that `Forth`
  moves as `ForthMachine` does.

A token is a record. Floats are cells (the lowerer never looks at a float's value), one
of which is NaN where comparisons are concerned, with their
arithmetic uninterpreted beyond being distinguishable.

`Reduce` is the pass in front: `ReduceTok` puts one token after what has been put out,
with one operator for each place the pass looks back at. A behaviour reads a run
token by token; `sts` is what the tokens read mean from several entry states, `out`
the reduced run, and `SameMeaning` compares the two.

### The dictionary: WordList, Overlay

* `WordList`: a sequence of definitions. `Define`, `Find` the newest, `Forget` a name
  and what is newer, `RunMarker` back to an earlier end.
* `Overlay`: `create` is one step, as it is one kernel word, with its two overflow checks in the code's order.
  `find-name`, the walk of `forget` along the creation chain, and `rollback_overlay` are
  loops, a step per link followed (`Scan`, `WalkOn`, `Peel`), so that a
  wrong link shows as a wrong answer or as a loop that never ends. `Mark` takes the four
  pointers of a marker's snapshot when it is defined, and `RunMarker` goes back to that copy;
  `Before` is what `forget` rebuilds from a node and a header; `MarkersExact` compares the two.
  Memory given back keeps its contents.

### The session: Dictionary, LoopPins

* `Dictionary`: the list of words (`Overlay` shows that the kernel
  implements one), with for each word what it was *defined* to do (`body`), next to
  what the compiler's maps say of its name. Names are folded as the overlay folds them.
  A program may do anything in any order: redefine, forget, run markers, nest definitions, go on
  when the arena is full. `odd` remembers the names that were redefined while live, or whose
  definition failed half way, about which the maps may be wrong (section 6); `stale` the markers
  that `forget` kept though their own word is gone, which are not run.
* `LoopPins`: a step is a loop word, a call or a `to`, compiled and executed; for each local, where its value is.

### Running programs: Exceptions

`Exceptions` has one return stack with the kinds of entries that matter: cells of `>r`,
return addresses of words with the locals they have open and those their epilogue takes down,
handler frames, dispatches. `OpenLocals` may come anywhere in a word and more than once; `Return` is `;` and every
`exit`, before or after it. Next to it are the
handler, the locals pointer and the current object, which a throw treats
differently. `Enter`, `Finish` and `Abort` are `forth_main` with the session's `call`, `Catch`, `Throw`,
`Send` the kernel words, `Call`, `Return`, `TailCall` what `commit_body` compiles, `Fault` a signal
under `guard`, `Die` one outside. `unwound`, `skewed` and `left` only remember what has happened, for the properties.

### The workspace: Text, TextBuffer, Rope, Editor, Workspace

* `Text`: a sequence of code points and the operations on it, by offset, row and column.
  `TextBuffer` is the specification of a buffer: a text that is edited.
* `Rope`: the tree of `rope_buffer.rs`, with one operator for each of its functions (split,
  join, balance, the walks of the queries) and the edits as actions. It implements `TextBuffer`.
* `Editor`: the editor as a record, one operator for each method. It edits a `Text`, which `Rope`
  implements. The formatter's words are one code point each, one for each way a word acts on the
  indentation (open, close, part, and `of`, which dedents its line and opens); comments are a `\` up to the end
  of the line and parentheses up to a word that ends in one.
* `Workspace`: the events that reach the editor or the REPL, the files, and the verbs of a script.

### The mailbox: Exchange, Mailbox

`Exchange` is the promise: each request run once, in order, by one session, and an answer
that belongs to what was run last. `Mailbox` is `serve_mailbox`, a step for each
file operation, with crashes and restarts between any two of them. The client is not in
the repository; it is modelled as the server's comment expects one, with the liberties that
comment leaves open: it may write a request in one piece or in several, wait for a `ready` of
this life of the server or be content with an old one, write again, or give up. A file that cannot be removed or
written is ignored by the server, as its `let _ =` says. `kept` and `early` remember what of this went wrong in the present life, for
the properties.

### State and actions against the code

`PROJECT.json` maps every definition to its lines. The actions are named after
the words or functions they model: `Create`, `FindName`, `Forget`, `RunMarker`
(Overlay); `Create`, `Value`, `Begin`, `Compile...`, `End`, `Abandon` (Dictionary: `:` to `;` is
`Begin` to `End`, an error is `Abandon`); `BeginLoop`, `EndLoop`, `FusedUntil`, `Fail` (LoopPins). What is one Rust call or
one kernel word is one step, its helper calls included.

## 3. Runs

| Run | Question |
|---|---|
| `LowerInteger` | three kinds of definition of integers, each with one cache: stack motions, arithmetic and calls; locals and nested frames; cells through literal and computed addresses. Same effect as the tokens, no access outside cells and stacks, no register shared or leaked, caches coherent, no panic |
| `LowerFloat` | the same for definitions with a float local: cached float variables and locals; one cell read and written as a variable, an fvariable and an instance variable; a deferred `f!` spilled behind a cached cell; all tokens and immediate forms in short runs; a loop body with one local of each kind pinned |
| `OverlayCore` | the overlay is a list of words; both chains stay in step; a marker's snapshot is the state before its word; loops end |
| `DictMaps` | everything in any order: code and cells never shared; of names not redefined while live, maps agree with the words |
| `PinsBalanced` | pins with loops three deep, on every path |
| `Reduce` | every run up to five tokens, by kind: the reduced run means the same from every entry state; nothing is left to reduce |
| `Exceptions` | handlers nest; words find their own locals; `self` is there in methods only; nothing is left on the return stack between calls |
| `Rope` | the tree is the text for every edit; counters, queries and balance |
| `Workspace` | ten kinds of use of the editor: undo, selection, clipboard, formatting, mouse, window, files, REPL |
| `Mailbox` | three requests, three lives of the server: at most once, in order, live answers, and in the end an answer |
| `LowerDryLocal`, `DictInline` | disagreements between the code and its comments; section 6 |

`CachesCoherent` says which writes leave a copy stale (`BehindCells`, `AliasedAccess`): of instance variables
and with `f!`, and by any way that misses a cached float variable. The programs of both runs have them, so that no
other write does; section 6 lists them.

**Bounds.** *Lower*: cells are 3 bits wide (`Half = 4`: -4 to 3), which keeps
wrapping, both signs and the smallest cell; immediates up to 1 instead of 4095,
so that both forms occur; a pool of four registers instead of seven to nine
(no operation takes more than four) and three FP registers instead of seven, so
that pools run dry within the `steps` of a definition, 3 to 6 tokens according
to how many kinds of token it has; `MaxDepth` is 6 cells a stack: a token that
would go beyond it is not taken. `LowerDryLocal`
has the real integer pool. One entry state with distinct values suffices
for everything but the folding of constants, because the lowerer looks only at
the constants of literal tokens. *Overlay*: four names, in two buckets, two with
the same hash, one too long to be found, headers of different sizes; a dictionary
of 13 units that holds up to three words. Three in a bucket are the fewest for
head, middle and end to differ. *Dictionary*: two names, three words alive,
two cells and an arena of 3 units where a colon word takes 2, so that reuse of code space
and its exhaustion occur, and a name can be redefined while the other is not; in `DictInline`, one unit more and bodies of one token. *LoopPins*: two integer locals and one float, three
loops deep: a pinned loop, one in it, one around it. *Reduce*: cells of 3 bits, entry states
with small and large cells of both signs and NaN; runs of five tokens (four for
comparisons), while a rewrite looks back at two at most, so that what one rewrite puts out is seen
by the next. *Rope*: leaves of one or two code points instead of 2048, texts of up to 10
and trees up to five levels; `Typing`, `Growing`, `Pasting` and `Merging` are the uses. *Workspace*:
three snapshots instead of the code's cap, two rows, and for each kind of use only the events that
act on one another, 5 to 10 of them; of the files one is there, one is not and one cannot be written. *Mailbox*: a number must be met again in a later life, which takes
two lives and two requests; a third of each shows that nothing depends on the first. *Exceptions*: two calls, five entries
on the return stack (a catch in a catch, or a send in a catch, with words in between), words with
no local or one, opened or not.

**Deadlock** is not checked where a bound ends the behaviour (`steps`, a full
dictionary): the program can always take another token.

**Fairness.** `OverlayCore` assumes weak fairness of the loop's step
(`WF(Loop)`). The loops are machine code or Rust loops on the session's own thread,
and nothing in them waits. A user is never obliged to type. `Mailbox` assumes weak fairness of the
server, whose loop never blocks and which somebody starts again, and of a client
that goes on writing what it began and writes a request again when it waits; strong fairness of `Poll` and of
`Accept`, because a client that rewrites its file, or a server that clears an answer, does not do so in
step with the other's sleep for ever. Crashes are finitely many (`MaxLives`), files that cannot be removed or written too (`MaxFailures`); a
request whose command itself ends the process is therefore left out.

**Mutants.** Operators marked `(mutant)` are what a likely mistake would make of
the operator they are named after; each property is checked to fail with one of
them.

## 4. Proofs

Each theorem holds for every value of the constants that satisfies the module's
named assumptions; those are bounds, types and, for Lower, that pins are distinct registers of the pools and that a
program leaves room in them (below). TLC
evaluates them on every run. Where a theorem needs more, it is a hypothesis in its statement, named here with what
fails without it.

| Theorem | States | Of |
|---|---|---|
| `OverlayProofs`: `TypeCorrect`, `OverlayCorrect`, `SearchCorrect`, `DictionaryIsAList` | types; `BucketsNewestFirst`, `ChainsInStep`, `MarkersExact`; `FindsNewest` (and `LoopsOnCourse`); `ImplementsWordList` | any names, hashes, buckets, sizes and dictionary end |
| `DictionaryProofs`: `Types`, `SpaceIsNotShared`, `MapsAlwaysAgree` | types; `NothingShared`; `MapsAgree` | any names, sizes and arena, whatever programs do |
| `LowerProofs`: `NoRegisterShared` | `RegistersExclusive` | any tokens, pins, hot reads and pools |
| `LowerProofs`: `OnlyDryMotionsPanic`, `AllocationsSucceed` | no step panics but a `DryMotion`; `AllocationSucceeds` | the same; the second where no `nip` or `-rot` is dry |
| `LoopPinsProofs`: `PinsTyped`, `PinsCurrent`, `PinsBracketed` | types; `LocalsCurrent`; `BackEdgesAgree` and `PinsOnlyInLoops` | any locals and depth of loops, `Uses = {}` |
| `ExceptionsProofs`: `HandlersAlwaysNest`, `LocalsAlwaysOwned`, `SelfOnlyInMethods`, `RestsAlwaysClean` | `HandlersNest`; `LocalsOwned`; `SelfInMethods`; `RestsClean` | any number of calls and locals, any depth of the return stack |
| `WorkspaceProofs`: `CaretsInText`, `RunsStayInPlace`, `CleanEditorsAreSaved`, `NoTextForgotten`, `CaretInWindow` | `TypeOK`; `RunInOnePlace`; `CleanIsSaved`; `TextsKept`; `CaretShown` | any characters, files, window, log and number of snapshots |
| `MailboxProofs`: `ServerInStep`, `AnswersLive`, `AnsweredNeverRedone`, `KeepsPromise` | `InStep` (and `RunsInOrder`); `AnswersAreLive`; `NeverRedone`; `ImplementsExchange` | any client, number of requests, lives and failures |

`SequenceLemmas` holds what they share: stacks that grow and shrink at their end, joins, cuts,
folds. The induction theorems of the library take an operator, which these provers cannot
instantiate, so its inductions go by the least counterexample (`LeastElement`): of a
set of numbers, and of the functions that sums and folds are.

**Overlay.** The inductive invariant `OverlayInv` joins the properties with
`LoopsOnCourse`, which says of each loop what it has established so far: a scan has passed
only nodes that do not match, `forget`'s walk has not passed the node it looks for,
a rollback has peeled exactly the nodes above its position and will reset the pointers to the state before the first word it forgets. None of the others is inductive
without it: in the middle of a rollback the bucket heads are only right for the nodes
above the point reached. Each action has a lemma; peeling and publishing, the two that change links, have one
step per conjunct. For the refinement, each step is one of `WordList` or leaves the list as it is;
a search answers what the list's newest definition is because its loop is on course.

**Dictionary.** `Apart` says that the code of live words lies below the cursor intact, that their cells
are distinct and below theirs, and that each marker that is not stale goes back to just before a live word, below which the words keep
within the cursors of its snapshot. `Mapped` says that, but for the `odd` names, every map, and every copy of one in a snapshot, agrees with
the words that are or were there. What makes both inductive for programs that redefine at will is that a marker becomes
stale exactly when a `forget` cuts its word off while its name still means something: `stale` is part of `odd`, and every
rollback is then one to a snapshot that the remaining words still fit.

**Lower.** `Sound` says of each half of the state, unless an allocation has panicked, that the window, the caches and the pins
hold different registers (`Apart`) and that exactly those are marked (`Strict`); only the pins' places in the pools and their
being distinct are assumed (`ProgramsAssumption`; `scan_loop_pins`, `session.rs:1702`). Within a method registers are in the
hands of nobody but the method, so `Gp` and `Fp` have them as a second argument; `Taken`, `Freed`, `PushKeeps` and `PopKeeps` say
how they come and go, and each method has a lemma that says it ends with empty hands. What makes it hard is settling in the middle:
a method of the FP half may settle the GP half while it holds one of its registers (`GpRest`, `RestFreed`), so that the register
goes back to the pool before the method frees it. Every operation is covered, the ones `DryRead` and `AliasedAccess` name
included: they use registers too late, but lose none.

That a register is there when asked for is a count, and every method is gone through again for it. `Lives` says what a method
that has not panicked leaves: the pins as they were, the caches no larger, and at most the registers it `Uses` besides what the
window, caches and pins held. Since by `Strict` exactly the registers held are marked, `reserve`, which settles when fewer are
free than it was asked for, has afterwards all that are not pinned (`Unpinned`), and it is enough that no method takes more than
those. `RoomAssumption` is what the session gives it: two integer registers and one of the FP pool are never pinned, and the
literal before `pick` or `roll` is below the number of those that are not. (`scan_loop_pins` pins two integer locals of seven
registers, to "leave x9-x13 for the data stack", and four of seven for floats, `session.rs:1712`; the literals folded are 0 to 6,
`session.rs:1861`, and a loop with `pick` or `roll` in it is not pinned, `session.rs:1726`; a `5 pick` after a loop that left two pins on,
see *LoopPins* in section 6, is outside the assumption.) The invariant `AInv` adds to `IInv`
that the caches leave one register over (`HasRoom`): settling an empty window gives none back, and without it the `ensure` of
one cell after it, in `drop`, a fetch through a computed address or `to` a pinned local, could find the pool full. Each
loading of a cache reserves before it takes, which is why the last register is never a cache's. The FP half is simpler, its
caches being dropped when it settles (`FCalm`), but where it settles in order to store through an address it needs the integer half to live.
A dry `nip` or `-rot` panics, and leaves pins and caches as they were, so that `AInv` is inductive with no hypothesis, and the
hypothesis of `AllocationsSucceed` is about those two motions alone (section 6).

**LoopPins.** The strengthening `PinsInv` says that the loops from some position on, one for each level of `pin_nest`, are those
that began under the pins in force, and those outside it began with none: this is what
makes the closer that finds `pin_nest` at 0 the pinned loop's own.

**Exceptions.** `StackInv` says where on the return stack each handler frame leads: to
the next one below it, the innermost being the handler's and the last leading to the root, with no
cell above the entry of the call under way that it does not know of. With it go the locals that the words on the stack have open, whose sum the locals
pointer is (`LocalsIn`), and the object each dispatch has saved (`SelvesIn`), until a throw leaves others or a word ends with others than it takes down.

**Workspace.** The first half is about texts: what insertion and deletion leave of a text, that rows and columns lead
to offsets in it, that the formatter makes texts of texts. The second has one lemma for each
operation of the editor, `Edited`: its invariant is kept, what it shows is not forgotten, and its file is as it
was or it is dirty. The invariant strengthens `RunInOnePlace` to editors with a selection: in a run
of deletions the text before the *selection's start* is still the snapshot's, without
which deleting the selection would not be seen to stay in place. `TextsKept` rests on `Shifted`: undo and redo move
one text from one end of the line to the other.

**Mailbox.** `MailboxInv` adds that the old answer is gone when the server says it is ready, if it could be removed
(`AnswerCleared`: nothing else ties the answer file to the new session), that what was read had been asked (`Asked`), and,
for `NeverRedone`, that what is answered is behind the server's last number (`AnsweredBehind`). Its two exemptions are
needed: TLC refutes it without `early` (a request that comes between the two removals meets the old answer), and without `kept`.

**Only model-checked.** Liveness (`LoopsEnd`, `WaitEnds`), which is out of this prover's reach. Everything
about `Reduce` and `Rope`, which compute by recursion over runs and trees. `FormatSettles`, whose two halves
compare what recursive passes over the whole text compute. Of `Lower`, the effect of the code
(`ImplementsExceptGaps`, `CachesCoherent`): for these each instruction a method puts out must be followed through the machine, with
wrapping arithmetic on cells and through settling in the middle of a method.

## 5. Not modelled

Objects and files are planned (section 7). Text scanning, number conversion, string words, syntax
colouring and memory allocation are sequential routines on bytes with no
state shared with anything else. Bit encodings of instructions and the control-flow
stack's branch patches are not modelled: Lower starts from instructions as
operations and LoopPins from well nested loops. In Dictionary and Overlay, what running a stale marker would bring back is left
out, in Dictionary user-written defining words and classes too. In Exceptions the data and float stacks have no depth: what the code restores of them is one saved
pointer, which the repository's tests cover. Rope leaves UTF-8 and the iterators out;
Workspace leaves out drawing, system dialogs, closing and the log lines of file commands. The client of
Mailbox is not part of the repository, and a command that ends the process each time it is run is left out. One wordlist is modelled
because no word changes the search order. `src/vendor` is third-party code.

## 6. Disagreements found

With a run that TLC refutes, and a line in `PROJECT.json` `findings`:

* `LowerDryLocal` — a read of a cached local that has to settle first copies from
  a register it has given back.
* `DictInline` — a marker gives code addresses back without dropping `inline_words`, so that a later
  word at such an address is inlined as the one that was there.

Shown by TLC on the same modules, but without a run that is kept:

* *Lower* (`Implements`, with one register in each pool and the tokens of a float literal and of a store to
  a float variable): a float literal goes through an integer register, then asks for an FP register
  (`opt.rs:1536`). With both pools dry the latter settles the FP stack, whose dirty float variable needs an integer
  register for its address, and takes the literal's: "`d` = bits reinterpreted as double" is the address. With seven
  registers, words that move the stack bring it about. `f@` and `f!` through an address in a register are exposed in
  the same way (`opt.rs:1643`, 1658), and end by freeing `x0` while it is the new top: harmless, since
  its mark is never looked at, and the reason why `RegistersExclusive` speaks of the pools.
* *Overlay* (`HeapsApart` is refuted): each overflow check looks at the other heap's old pointer,
  so the last node can lie over its own header (`dict.masm:66`).
* *Dictionary*: a literal address is folded by name, also after the name was
  redefined as something else, or when its definition failed because the arena was full
  (`AddressesAgree` of all names instead of those of `Plain`); `recurse` in a definition with another
  nested in it calls that one (`RecurseCallsSelf`).
* *LoopPins*: a fused comparison with `until` leaves the pins on (`PinsOnlyInLoops` with "fused until").

Met while modelling, without a run of their own. The passing runs leave them out
by a named condition, given here:

* *Lower*. A cached float local or float variable and `fover` have the same gap as
  `LowerDryLocal` when the FP pool is dry (`DryRead`). `!` and `c!` drop all cached cells, because "any cell
  store may alias cached @ values" (`opt.rs:1265`), but a store to an instance variable (`opt.rs:1485`), `f!` (`opt.rs:1655`),
  at once or deferred, do not: a cached cell at that address stays as it was, and `@` reads it (`BehindCells`,
  `StaleCopy`). Any of these stores but `f!` to the literal address leaves a cached float variable stale too, which later
  reads answer and which a spill may write back, and a
  read by another way than `f@` misses the deferred store (`AliasedAccess`).
  `-rot` and `nip` call `ensure` without `reserve` (`opt.rs:882`) and panic when
  the caches hold all registers and the window is short; the integer programs have
  these motions and the caches in different definitions. `DryMotion` names this step;
  it is proved to be the only one that panics (`OnlyDryMotionsPanic`).
* *Dictionary*. `to` goes by name through `values`, also after the name was
  redefined (`odd`). `forget` keeps the snapshot of a marker whose name
  means an older word again (`stale`): running that word gives back what words that live use. The first `forget` drops
  `variable` and `constant` from `defining_words`, because `find` does not find
  these names (they have no dictionary entry).
* *LoopPins*. An error in a definition leaves the pins on in the programs that do
  not call `reset_input` (`mf66-ui`, `mf66-tcl` and the driver; `Uses`:
  "unrecovered"). The scan trusts the names of kernel words, which a
  program may define again (`Uses`: "renamed").
* *Reduce*. "A single forward pass with lookback on the output is a fixpoint" (`opt.rs:514`)
  does not hold for `dup 0 *` and `dup dup -`, which leave `dup drop lit 0` (`CopyDropped`).
* *Rope*. A text of more than four leaves that goes in at once is built into a tree whose last
  leaf may be left unpaired: not AVL (`rope_buffer.rs:6`, 219; `bulk`). The height
  stays within twice the logarithm of the leaves.
* *Editor*. A Shift-move at the end of the text, or a mouse press and move in one cell, leaves the anchor at the caret, so
  that the next character typed becomes the selection and the one after it replaces it. ⌘A does not end a run of
  typing, so text typed over it joins the old snapshot. Backspace at the start and delete at the end push a
  snapshot and clear redo. `editor-set` does not make the editor dirty, and `save_as` sets the path before a
  write that may fail (`stray` in `CleanIsSaved`). Formatting joins runs of spaces within strings. End on an empty line goes
  on to the line before.
* *Workspace*. A view scrolled by the wheel snaps back to the caret at the next drawing. Recall loses a
  line that was being typed. Opening and ⌘N discard unsaved text.
* *Exceptions*. `self` is "0 outside a method" (`oop.masm:12`), but after a throw or a fault
  that leaves a method it is that method's receiver until `reset` (`left`). "A throw
  unwinds every intervening colon frame in one step" (`exceptions.masm:8`), but not their locals:
  the catcher reads its locals from the wrong place until the session's next call (`unwound`). A word's one
  epilogue takes down the locals of its last `{:`, whether a path has come by it or not: an `exit` before `{:`,
  a `{:` in a branch not taken, or a second `{:`, leaves the locals pointer off for its callers (`session.rs:1758`, 2307, 2438; `skewed`). A
  guard in a guard would disarm the outer one; none is nested in the repository. `reset_input` says it clears the stacks (`session.rs:2900`);
  the float stack is not among them, nor is the handler.
* *Mailbox*. A request that is written in pieces can be read in half, and run as what was there. A
  request that arrives between the removals of the two files, under an old `ready`, can be run
  by the new life although its answer was taken (`early`), and so can one whose file could not be removed; an old answer that
  could not be removed is taken for a new one (`kept`). An answer that cannot be written is never tried
  again. A client that starts again at 1 is not heard by a server that lives.

## 7. Plan

Done: Reduce and Rope; Lower, Overlay, Dictionary, LoopPins, Exceptions, Editor and Workspace, and
Mailbox, these with their proofs. Next:

1. Proofs: the coherence of Lower's caches (`CachesCoherent`), for programs without the accesses section 6 names.
2. `Primitives`: each kernel word that the vocabulary replaces by tokens, against
   the tokens.
3. `Objects`: selectors, vtables and late binding; classes in Dictionary's maps.
4. `Files`: the table of open files.

A new module's run takes the place of one that has become the least telling, so that the whole
can still be checked in minutes.
