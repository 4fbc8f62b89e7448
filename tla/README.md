# Verification project for hiha

hiha (`src/`) is the front end of a compiler: it reads source files into
tokens and rewrites the tokens in a series of passes, each of which is a Pratt
parser whose handlers come from plugins.  This directory holds TLA+ modules
that model its core, TLC configurations that check them on small instances, and
TLAPS proofs about them for every value of their constants.

Paths in the comments of the modules and below are relative to the repository
(`src/libhiha/pratt.c` is the file of that name in it).

    tlasany M.tla                    parse a module
    tlc -config MCX.cfg M.tla        one of the runs below
    tlapm X_proofs.tla               check the proofs of a module

## 1. The system and its parts

    main ── scan_source_files ── getters of source files ──┐
      │                                                    v
      ├── do_pratt_passes ── token files ── buffered getter ── pratt_parse
      │        │                                                 │   ^
      │   working directory                                      v   │
      └── load_plugins ── registry of passes ───────────── handlers of plugins

Below these lie the spinlock, `INITIALIZE_ONCE`, `gensym` and the persistent
collections.  The parts call each other as functions in one thread and share no
mutable state but files, the registry and the counters; only spinlock,
`INITIALIZE_ONCE` and `gensym` are written for several threads.

| Part | State it keeps | Operations | Hard to get right | What makes it correct |
|---|---|---|---|---|
| Spinlock (`libhiha/spinlock.c`) | wrapping tickets `active`, `available` | acquire, release | interleaved atomics, stale loads, wrap-around | one thread inside; first come, first served; no starvation |
| Initialize-once (`initialize_once.h`) | a lock and a flag for each value | the macro `INITIALIZE_ONCE` | the unlocked check against the locked one; a value assigned twice | initialised once; nobody sees a value that is not final |
| Gensym (`gensym.c`) | counter, method | `gensym` | read and increment; concatenation without separators | no symbol is returned twice |
| Indexed deque (`indexed_deque.c`) | an immutable trie, two wrapping indices | put, get, delete at both ends and by index | indices that wrap below zero, the empty deque that forgets them | it is a sequence |
| Token getters (`token_t.c`) | position, buffer, open file | get, look at, push back | tokens read ahead, errors in the middle of a look-ahead | one stream: nothing lost, repeated or reordered |
| Token files (`token_t.c`, `indexed_data_file.c`) | records, shared texts, data and index | put, get, close, remove | offsets taken before a write; texts shared by index | what one pass puts the next gets |
| Pratt engine (`pratt.c`) | a frame for each call | `pratt_parse` | recursion through handlers | the parse is that of the grammar |
| Registry and loading (`pratt.c`, `load_plugin.c`, `hiha.c`) | tables of handlers for each pass, a saved handler in each plugin | get and set tables and handlers, load a file or a directory | the same plugin or handler met twice; who was there first; names of passes in the order of their numbers | a handler passes tokens on to the one it found; passes run after those whose kinds they use |
| Passes (`token_processing.c`, `workspaces.c`, `hiha.c`) | working directory, files of each pass | `do_pratt_passes`, removal of files | errors and kills between any two steps, passes left out | each pass reads what the one before made; nothing stays behind |
| Lexical plugins (`plugins/10` to `100`) | the tokens ahead | one scan for each kind of word | ends of files inside of words, tokens of several code points | no text lost, every token a word of its kind, as long as can be |
| Parse-tree plugin (`plugins/110`) | stack of `pratt_parse`, nodes | handlers | errors deep in the stack, brackets of different kinds | the nodes are a forest; exactly the grammar is accepted |
| Persistent collections (`persistent_*.h`, `typed_*.c.in`) | immutable tries, trees, blocks | search, insert, delete, walk, several sets at once, push, pop, sort, slice | deletion at every depth, boundaries of blocks, NULL for empty | they are functions, sets and sequences |

`PROJECT.json` lists every part, those that are not modelled included, and the
hazards of the code line by line.

## 2. The modules

A module has one action per operation or per turn of a loop, in the order of
the code, and its helper operators have the names of the functions they stand
for.  Operators whose comment starts with "Mutant:" are plausible bugs that the
properties are tried against; no specification uses them.

**Threads.**
- `TicketLock`: each atomic access of `acquire_spinlock` and `release_spinlock`
  is an action; `LoadActive` and `CompareTickets` are two, so that a thread can
  compare a stale ticket.  Tickets wrap at `TicketModulus`.  `FifoLock` is what
  a lock promises: a queue.
- `InitializeOnce`: the macro as `gensym_method` uses it, over `TicketLock`.
  The method is assigned twice (`InitializeValue`, `FinishValue`) before the
  flag is stored (`Publish`).  The flag is stored with release order and loaded
  with acquire order, so the model takes the stores in the order of the program.
- `Gensym`: the counter under its lock, the symbol, and the texts of both
  methods (base64 with the replaced characters, and the fallback text).
- `GensymCalls` composes the last two: a thread chooses or finds the method,
  then counts and makes a symbol.  `MCGensym` lets a behaviour be that of the
  lock, of the macro or of the composition.

**Collections.** A value is never changed after it is returned, so values are
TLA+ values and sharing is not represented.
- `IndexedDeque` (operations; the trie is a function from indices to elements),
  `Deque` (a sequence), `IndexedDequeClient` (a client that calls them all).
- `BinaryTrie`: the macros of `persistent_integer_trie.h`, and with other bits
  those of `persistent_hash_map.h`; `HashMap` and `HashSet` are
  `typed_map.c.in` and `typed_set.c.in` over it.
- `AvlTree`: insertion and deletion with the balancing of `persistent_avl.h`;
  `OrderedMap` is `typed_omap.c.in`.
- `PersistentVector`: blocks, tail, and the operations that raise and lower the
  trie.
- `Maps`, `Sets` and `Vectors` are clients; `MCCollections` lets a behaviour be
  that of one of the four clients.

**Tokens.**
- `SourceFiles`: the getter for a file, which reads and composes a line at a
  time, the getter that plays files in sequence, and `scan_tokens`.
- `TokenFiles`: putter and getter of tokens over the indexed data file, with
  texts that cannot be encoded and records that cannot be written;
  `StoredTokens` is what they promise.
- `BufferedGetter`: get, look at, look at and get, push back of a token or a
  string; the loops run turn by turn and reading may fail in any turn.  It uses
  `IndexedDeque`.  `TokenStream` is what it promises.

**The program.**
- `PrattPasses`: `do_pratt_passes`, its files, errors of every kind at every
  place, the end of `main`, removal by `atexit`, and kills.  Which passes there
  are, and which are selected, is any choice.  Files whose `fclose` has failed
  unnoticed are `short`: they lack their last entries.
- `PrattTables`: the registry.  A `plugin_init` is a sequence of entries, each
  of which looks a slot up, saves what it finds and puts a handler there.
- `Plugins`: the entries that each file of `src/plugins` makes, the kinds of
  token its pass makes, and `filevercmp` on the names of the passes.
- `Hiha` composes the three: `main` from the command line over the loading of
  files and directories to the passes, which call the handlers of their tables.
  The passes of `PrattPasses` are then those that have tables.

**What the passes do.**
- `LexicalPasses`: the plugins up to `100-remove_spaces.c`, one call of a null
  denotation per action; `StringLiteral`: how far a literal goes.  `Words`
  composes `SourceFiles` with them.
- `PrattParse`: `pratt_parse` over any binding powers, with handlers of
  prefixes, infixes and postfixes that call it again.
- `ParseTree`: `pratt_parse` and the handlers of `110-parse_tree.c` as frames of
  an explicit stack; the input is chosen as it is read.

## 3. What the runs check

Every property has a mutant of the code that breaks it in its run.

| Run | Properties | Bounds, and why they are enough |
|---|---|---|
| `gensym` | `MutualExclusion`, `FirstComeFirstServed` (refinement of `FifoLock`), `NoStarvation`; `InitializedOnce`, `AllCallsAgree`, `EveryCallReturns`; `CallsTypeOK`, `UniqueSymbols`, `SymbolTellsNumber` | A behaviour is that of one of three. The lock alone, and `gensym_method` alone: 3 threads without a bound on the number of calls, 4 tickets (the fewest that can tell the threads apart), so that both counters wrap with all others waiting, and a thread can wait for one that found the value initialised. `gensym` as a whole: 2 threads, 3 symbols (`MaxCounter`): the third symbol lets one overtake. Prefixes and texts are chosen to end like numbers. |
| `collections` | `StructuresOK`, `MapsAgree`, `SetsAgree`, `VectorsAgree`, `ImplementsDeque` (refinement of `Deque`) | Deque: 5 indices, up to 3 elements of 2 kinds, so that each index is first and last. Maps: 7 keys, hashes that agree in up to three bits, one value that differs (`CommonValue`): the least for a tree of height 4, so that every rotation is due. Sets: 3 members, 3 sets. Vectors: blocks of 2 up to 13 entries (four levels) and of 4 up to 21 (three levels), which is past the last length at which the trie is raised, chunks up to 5, every content up to length 3. |
| `tokens` | `EntriesFillDataFile`, `ImplementsStoredTokens` (refinement of `StoredTokens`); `GetterTypeOK`, `ImplementsStream` (refinement of `TokenStream`), `CallsReturn`; `ParsedByPower` | A behaviour is that of one of three parts. Files: up to 3 of 6 tokens (`MaxTokens`), enough for a text to be shared, for one to be used as kind and as value, for an entry after an empty one and after one that could not be encoded. Getter: input a, b, an unreadable record, a; strings empty and of two; 4 indices: at most three tokens are buffered, and every operation meets a full, an empty and a wrapped buffer. Parser: every input of up to 6 of 6 kinds (`MaxParsed`): three infixes, one of which is a prefix too, that hold and bind in every order, a postfix between them. |
| `words` | `ScannedInOrder`, `EndsInPlace`, `EndsOnce`, `NothingLost`, `KindsFit`, `LongestWords`, `OnlyIntegersCutOff`, `PassesEnd` | All files of up to 3 code points of eleven classes, of up to 5 of the classes of numbers and names, string literals with up to 4 code points inside and with pairs of `\u`, and pairs of short files. A word of each kind and what may come before and after it fit. |
| `parse_tree` | `TreeOK`, `NothingLost`, `Recognizes`, `PassEnds` | Every input of up to 7 tokens: two brackets nested or in a row, a sequence that is extended inside of one. Two contents of memory that is not cleared. |
| `hiha` | `ReadsEarlierPasses`, `LatestKept`, `TwoRoots`, `SuccessIsComplete`, `SavesFormer`, `OwnHandlers`, `KindsMadeBefore`, `EndsUnlessTwice` | Eleven command lines: plugins in and out of order, one there as two files, one given twice, `90-dump_tokens` with its two passes, a directory of five. They make up to 7 passes (`NVec`), of which at most 2 are selected (`MaxSelected`): one pass before and one after another, and passes left out before, between and after them. One token before the last (`MaxTokens`), as a pass treats all but the last alike. |

Six things to know when reading them:
- `MapsAgree` compares an integer trie, a hash map and an ordered map, given the
  same calls, with one function; `SetsAgree` and `VectorsAgree` compare with
  TLA+'s sets and sequences.
- `ParsedByPower` compares the nodes that the calls of `pratt_parse` make with
  where each operand ends and begins, computed from the powers alone.
- `Recognizes` compares the parser with an automaton with a stack of brackets;
  `LongestWords` says of numbers and symbols, and their neighbours in the output,
  that they are not one word.  Identifiers are the case to look at: integers are
  scanned first, and an identifier takes in tokens of one code point only, so
  that `x11` is the identifier `x` and the integer `11`.  The strict property,
  `IdentifiersWhole`, is a run of its own, which ends in a violation;
  `OnlyIntegersCutOff` says that there is no other way to cut an identifier
  short.
- `SavesFormer` says of each variable that a plugin saves a handler in that it
  holds what was there right before the last entry that saves into it.  For a
  variable that is saved once, that is what was there when the plugin came; for
  one that is saved twice, as that of `90-dump_tokens` for its two passes, or
  any when a library is loaded twice, what the first saving found is gone, and
  may be the plugin's own handler.  `OwnHandlers`, that a handler works on
  tokens of the pass it was made for, holds unless a plugin is there twice;
  `KindsMadeBefore` says that it runs after every pass that makes a kind it
  treats.
- `LatestKept` and `SuccessIsComplete` say what files there are when no `fclose`
  has failed unnoticed, and which may then lack entries; `WholeWhenRemoved` is
  violated by the failure.  A pass that reads files that are short ends with an
  error when it comes to the missing entry, so that only the last files can be
  short when the program succeeds.
- `EndsUnlessTwice` leaves out a killed program, a file that cannot be removed,
  and a library that is loaded twice: dlopen gives the same one, whose
  `plugin_init` saves its own handler, and a call of it may never return.  The
  code does nothing about any of them.  Without the exception for the library
  TLC finds a behaviour that stays in the call.

### Runs that end in a violation

Each of these checks what a document, a comment or a test says, and TLC shows
that the code does something else.

| Run | Property | What it shows |
|---|---|---|
| `parse_tree_links` | `ChildrenCanBeFound` | `make_token_extension_for_parse_tree` never stores `this` (`p->this;`, `src/libhiha/token_t.c:163`): the children in a written token cannot be told apart. |
| `parse_tree_shuffle` | `EveryOrderPossible` | A random number between 0 and 1 is returned as a `size_t` (`src/plugins/110-parse_tree.c:66`): the "Fisher-Yates shuffle" cannot make every order. |
| `words_identifiers` | `IdentifiersWhole` | `x11` in a source file is the identifier `x` and an integer, though a comment makes it one identifier: `token_is_identifier_continue` wants a token of one code point (`src/plugins/40-identifier.c:89`). |
| `words_escapes` | `EscapesAsWritten` | `"\x11;"` in a source file is rejected, because an earlier pass has made `11` one token. |
| `sets_null` | `EmptySetIsArgument` | `union`, `difference` and `symmetric_difference` follow the NULL pointer that is the empty set (`src/libhiha/typed_set.c.in:222`). |
| `hiha_lost` | `WholeWhenRemoved` | `close_indexed_data_file` does not look at what `fclose` returns (`src/libhiha/indexed_data_file.c:157`), and the source is removed though what was made of it is not whole on the disk. |

### Fairness

- `gensym`: weak fairness of each thread once it has begun to acquire a lock or
  has called `gensym_method` (`Scheduled`): a thread that spins is scheduled, and
  what it does with the lock ends.  Nothing makes a thread ask for a lock, begin a
  call or return a symbol.
- `tokens`: weak fairness of the turns of a loop (`InCall`), not of new
  calls.  The reader returns or ends the program.
- `words`, `parse_tree`: one thread, nothing to wait for; the program goes on
  (`WF(Next)`).
- `hiha`: one thread too, but only what it does when nothing goes wrong is fair
  (`WF(Work)`).  Errors and `HihaKill` may come at any place and are never
  forced, so that none of them ends what would go on for ever.  Of a handler
  that saves what it found it is only sure that it passes tokens on, since it
  need not take any; a handler that saves nothing returns.  A handler that
  passes a token on to itself does not change the state: for a call that stays
  there, fairness of the rest does nothing, and `EndsUnlessTwice` would see it.

Deadlock is not checked: the program ends, the process stops on an index out of
range, or all numbers up to the bound are used.  That no thread waits for ever
is `NoStarvation` and `EveryCallReturns`.

## 4. What is proved

The proofs hold for every value of the constants that satisfies the named
assumptions of the modules; TLC evaluates these assumptions in the runs.

| Module | Theorems | Argument |
|---|---|---|
| `TicketLock_proofs` | `LockTypeCorrect`, `LockMutualExclusion`, `LockRefinesFifo` | `LockIInv`: the tickets that are held are different and fill the window from `active` to `available`, which is as wide as there are holders, and therefore never closes around all tickets. Mutual exclusion alone is not inductive: a wrapped counter could meet an old ticket. Needs fewer threads than tickets. |
| `InitializeOnce_proofs` | `OnceTypeCorrect`, `OnceInitializedOnce`, `OnceAllCallsAgree` | `OnceIInv`: what the thread at each place knows of flag and value, given the mutual exclusion of the lock, which is cited. |
| `Gensym_proofs` | `CallsTypeCorrect`, `CallsInitializedOnce`, `CallsAllAgree`, `GensymSymbolTellsNumber`, `GensymUniqueSymbols` | `GensymIInv`: each thread's number is its own and the numbers below the counter are those used. That a symbol tells its number is a lemma on sequences: the text's last letter is found from the end. Assumes of the texts what both methods guarantee (`TextsAssumption`) and that different numbers are written differently (`DecimalAssumption`). Every step of a whole call is a step of one part and stutters in the other, so the theorems on the parts carry over. |
| `Tokens_proofs` | `DequeTypeCorrect`, `DequeRefinesSequence` | Each operation of the deque keeps `WellFormed` and changes `Contents` as the operation of its name changes a sequence, with the arithmetic of windows modulo 2^w. |
| | `GetterTypeCorrect`, `GetterRefinesStream` | The stream a client sees is what is pushed back, then the buffer, then what is unread, less what a loop has still to take. The type invariant bounds the loops by the buffer's size. |
| | `EntriesFillDataFileAlways`, `FilesRefineStoredTokens` | An entry once written is read the same ever after, however the data file grows (`Extends`), so what dictionaries, records and caches say of entries stays true. `FilesInv` says just that, with what each phase has made; the refinement maps a record to the token it stands for. Assumes that file names have no NUL inside (`TokensAssumption`) and that different texts are encoded differently (`Utf8Assumption`). |
| | `ParsesByPower` | `ParseInv`: which call was made by which, and which operator each belongs to (`Linked`); that the operand of each finished operator ends just where the powers say, and nowhere before (`NodesFit`); that no operand of an operator still open has ended (`OpenFit`). Each step takes one more token (`TakesNext`), returns from a call (`CallReturned`) or reads on (`TextRead`), and keeps the three. In the end the recursive function of `ParsedByPower`, which says where operands end, is compared with the nodes from the last place to the first: the last place at which they differ would be the greatest of a finite set, which is empty. Assumes that powers are numbers and none is below `minimum_binding_power()`, which is `-HUGE_VAL` (`PowersAssumption`). |
| `Hiha_proofs` | `TypeCorrect`, `ReadsEarlierPassesAlways`, `LatestKeptAlways`, `TwoRootsAlways`, `SuccessIsCompleteAlways`; `TablesSaveFormer`; `MakesPasses`, `HihaSavesFormer`, `HihaSuccessIsComplete`, `HihaOwnHandlers`, `HihaKindsMadeBefore` | `IInv` says for each place of the program which files there are and which passes their tokens went through; none of the four properties is inductive without it. `TablesIInv` says that each slot holds what was put there last, and each variable what was there before the last entry that saves into it. The whole program implements both parts (`MakesPasses`), so that what holds of them holds of it, for any plugins and command lines. The last two are about the plugins of `src/plugins` (`PluginsAssumption`), any of them from any directories in any order. Each pass is of one plugin (`OneOwner`), so that a plugin that is there once finds only `passthrough_nud_handler` to pass its tokens on to (`FindsPassthrough`, with `MadeByLoaded`: every entry is of a plugin that was loaded). The names put each pass after those that make its kinds (`MadeBefore`), and the place of a pass in the vector is the number of those before it (`Ranks`, `PassAtFacts`), which the program's vector and tables keep (`Counted`). |
| `SequenceLemmas` | lemmas only | What the other proofs need of sequences and not of this program: the least number with a property, `FlattenSeq` and `FoldSeq` step by step. What would be an induction is the least element of a set of numbers that do not have the property (`LeastNumber`), which is empty. |
| `Words_proofs` | `WordsAreTyped`, `EndingOnce`, `NothingIsLost`, `KindsFitAlways`, `LongestWordsAlways`, `OnlyIntegersAreCutOff`, `ScansInOrder`, `EndsStayInPlace` | Whatever the handlers do, a step of a pass joins tokens, takes all of its tokens to a `FSEP`, puts the EOF token or skips a space (`Shape`, `ParseShape`), and each property is kept by the four. `KindsFit` alone is not inductive: `KindsInv` adds what the pass is given and that, before the pass of strings, only kinds that are put early are there; where a literal ends is a lemma on `StringLiteral` (`EscapeFacts`). `LongestWords` is kept as `LongInv` (and `OnlyIntegersCutOff` by `ContinuingStays`), which looks at the output and the input as one sequence and at three tokens at once: a joined token takes in all that continues it, and what is put for a token begins as it does and is as long or longer than one code point, so it keeps apart what was apart. For the scan, `ScanKept` says that what has been put of the open file is as many of its tokens as code points come before the place that the getter has reached (`FileReading`), and of the files before it all, unless reading has failed (`FileRead`). It needs that composition never crosses the end of a line (`ComposeAfter`), so that the lines composed one by one make up the composed file, and that the place of a code point is counted from the ends of lines before it (`PlaceFacts`); `LinesAssumption` says that the end of a line is composed with nothing, as Unicode has it. For any files and classes that satisfy `CharactersAssumption`, `LiteralAssumption`, `CommandLinesAssumption` and `LinesAssumption`. |
| `ParseTree_proofs` | `CallsNested`, `TokensSound`, `NumbersKept`, `TreesRecognized`, `TreesAreForests` | `Nested` says which call may be made by which and what each holds while it waits. For `NothingLost`, the places of the numbers in what is put and held are those consumed (`AllKept`), and each handler joins the ends of neighbours on the stack. For `Recognizes`, the brackets of the calls on the stack are the automaton's, and where the latest call is fits with what the automaton saw last (`Accepted`); the nodes of each kind put or held, and the brackets of that kind still open, are as many as were opened (`Balanced`). For `TreeOK`, `Treelike`: the nodes that calls hold are the roots, whose children are all put and tell them as their parent (`Rooted`, `Family`); and each call that holds a node holds one that begins after the call's own token, which is after all children that the node has so far (`Placed`, `Begun`), so that the order of children is that of the source. None of the three is inductive without `Nested`. |

Only model-checked are: liveness (`NoStarvation`, `EveryCallReturns`,
`CallsReturn`, `PassesEnd`, `PassEnds`, `EndsUnlessTwice`), since the provers do
not reason about fairness and ENABLED; and everything about `BinaryTrie`,
`AvlTree`, `PersistentVector` and the maps and sets over them, which are recursive
operators over trees.

## 5. What is left out

- Time, the wording of messages, and printing.
- The weak memory order of the C11 atomics.  The lock uses sequentially
  consistent operations, the flag release and acquire, and the models interleave
  them.
- Sharing of nodes and the memory of the collector: values are immutable.
- Texts are sequences of model values.  Unicode's data (classes, composition)
  are constants; conversion to and from UTF-8 is a function that fails for some
  code points.
- Failures of memory allocation, which end the program.
- Of the command line, the texts of messages and the grammar of options
  (`getopt_long` is a sequence of options).  Streams for dumps are openings that
  may fail; what is dumped is output only.
- The rounding of binding powers: `binding_powers_lt` (`src/libhiha/pratt.c:150`)
  computes both powers with the six digits that a comment promises (line 131) and
  then compares them unrounded, and so does the model.
- Hash functions, the value of a string literal and its quoting.
  `PROJECT.json` has the reasons.

## 6. Plan

Built in this order: lock, initialize-once, gensym (concurrency); deque and
getter; token files; passes; parse tree; scan and words; collections; the
registry, the plugins and the whole program; the proofs about token files;
`pratt_parse` over any tables; the proofs about the parse tree and the scan.
To come:

1. `StringLiteral`: the value of a literal, and that quoting and reading it give
   the text back.
2. The getter over a string in memory, and the other users of
   `INITIALIZE_ONCE` (the working directory, the string constants).
