# A specification of php-magik

php-magik is a language server for PHP, written in Java over a tree-sitter
binding in C. It reads all the `.php` files under a root, builds one table of
the symbols in them, and then answers `hover`, `definition`, `references` and
`completion` over JSON-RPC on standard input and output, while the editor sends
it new texts of the files. This directory holds TLA+ modules that model the
server, TLC configurations that check them, and theorems proved with TLAPS.

Source paths below are relative to `src/src/main/java/dev/bluepitaya/phpmagik/`
unless they start with `src/`.

Contents: [the system](#1-the-system), [what is hard](#2-what-is-hard),
[the modules](#3-the-modules), [the runs](#4-the-runs),
[fairness](#5-fairness), [the proofs](#6-the-proofs),
[disagreements found](#7-disagreements-found),
[what is left out](#8-what-is-left-out), [the plan](#9-the-plan).

## 1. The system

### Components

| component | state it keeps | operations | modelled by |
|---|---|---|---|
| process (`Main`) | the phases of the process | index the root, then serve | `LanguageServer`, `LspServer` |
| workspace (`Workspace`, `PhpFile`) | the list of files, the content of each | `index`, `reparse`, `findFile`, `findFileOrThrow` | `Workspace` |
| symbol collection (`PhpSymbolCollection`) | nine lists of symbols | `addAll`, `removeSymbolsOfFile`, lookups by first match | `PhpSymbolCollection` |
| reference resolver (`ReferenceResolver`) | per call: index, set of references in progress; writes `definition` of references and `type` of locals | `resolve` | `ReferenceResolver` |
| usage type propagator (`VarUsageTypePropagator`) | writes `type` of usages | `propagate` | `Workspace` |
| types (`PhpType`) | none | parse a type, `elementOf`, class name of a type | `PhpType`, `FileIndexer` |
| protocol loop (`lsp/LspServer`) | the pipes | read, dispatch, respond | `LspServer`; the bytes in `MessageFraming`, `MessagePipe` |
| document handlers (`DidOpen`, `DidChange`, `DidClose`) | none; they call `reparse` | one each | `LspServer` |
| query handlers and `SymbolFinder` | none; functions of the workspace | hover, definition, references, completion | `Queries` |
| tree binding (`ts/`, `src/src/main/c/tsjni.c`) | an `int` array per file | copy of the tree, navigation, `getDescendant` | `SyntaxTree` |
| walk (`CompleteIndexer`) | depth, the path of nodes | enter, exit, leaf, extra; one `visit` method per node type | `CompleteIndexer`, `PhpVisitors`; what listeners take it to be in `TreeWalk`, `PhpTree` |
| grammar (`node-types.json`, vendored) | none | none | `PhpGrammar` |
| listeners (twelve, in `listener/`) | stacks of open declarations, a map of receivers | add the symbols of one file | `FileIndexer` |
| passes over one file (`DefinitionFiller`, `PhpTypeInferer`, `PhpReturnTypeInferer`) | write links and types within the file | one each | `FileIndexer` |
| name scopes, imports | the imports of each namespace of a file | qualify a name | `FileIndexer` |
| phpdoc (`PhpDoc`) | none | which comment belongs to a declaration, its tags | `FileIndexer`; the characters are not parsed |
| JSON, configuration, logging, printer, build, `src/.old-project` | | | not modelled, see section 8 |

### How they interact

At startup `Main` calls `Workspace.index`. The scan reads the files one after
the other in path order. Files that are not empty are then parsed by the workers
of a parallel stream: tree-sitter makes a tree, `tsjni.c` copies it into an array,
`CompleteIndexer` walks it and calls the twelve listeners, and the passes over
one file run, all on objects no other worker sees. The resulting collections are
appended to the one collection of the workspace in the order of the stream, and
`ReferenceResolver` and `VarUsageTypePropagator` run over everything.

From then on there is one thread. `LspServer.run` reads a message, calls its
handler, writes the response and reads the next one. `didOpen` and `didChange`
call `Workspace.reparse`: the content is replaced, the symbols of the file are
removed, the file is parsed again, its symbols are appended at the end, and the
two passes run over the whole collection again, mutating symbols of other files
in place. The four queries read the collection and change nothing. The editor is
a process of its own at the other end of two pipes; it writes at any time and
goes away at any time, also during startup.

### What makes each component correct

- Workspace and collection: the collection is what the present contents make of
  it, with nothing of an earlier content left and nothing twice.
- Resolver and propagator: they run over objects they have already changed, and
  the result must not depend on what was there before, on the order in which
  workers finished, or on which cycle of references is entered where.
- Loop: a response for each request, in order, on the texts the request was asked
  about; no message takes the server down that should not.
- Whole server: an answer is what a server would give that was started on the
  texts the editor had when it asked.
- Queries: the four requests agree with each other and with the texts.
- Tree: the array has the shape of the tree, and a node can be found by its range.
- Walk: no part of a file is skipped, and what a listener is told of the place of
  a node is true.
- Listeners and passes: every symbol has its own name, the innermost declaration
  around it as its owner, and the type its own declaration gives it; a usage leads
  to the assignment that has run before it.

## 2. What is hard

PROJECT.json lists the hazards one by one, each at its line. In short:

- **State that is mutated and kept.** `removeSymbolsOfFile` removes symbols that
  references in other files still point to; `resolve` assigns the types of locals
  while it reads them; `propagate` leaves a usage alone when there is no type. Any
  of them can leave a trace of a text that is gone.
- **First match.** Lookups take the first symbol of a name in a list. A reparse
  moves the symbols of its file to the end, so the winner among several
  declarations of one name depends on the history of edits.
- **Parallel startup.** The workers end in any order; only because the results are
  taken from the stream as a list and added one after the other are the lists
  the same each time.
- **A pipe with a queue in it.** Messages wait while the server works, so the
  editor's texts and the server's are rarely the same; answers must belong to the
  older ones.
- **Exceptions as control flow.** Which exception leaves `run` and which is caught
  decides between a skipped message and a dead server.
- **Two views of one place.** Completion matches the line before the cursor against a
  regular expression; the links it should agree with were made from the tree.
- **Answers nobody reads.** `System.out` swallows the errors of writing: an editor that
  has gone shows in the input only.
- **Cursor arithmetic.** The C loop keeps the index of the current row in a
  variable beside the cursor; the Java side computes children and previous
  siblings from `PARENT` and `NEXT` only. Empty nodes and shared edges make
  `getDescendant` prefer one of several nodes.
- **A hand-written walk.** A hundred and seventy visit methods are transcribed from a
  grammar file. One forgotten type hides a part of a program from the index, and
  a missing `exit` misplaces everything after it.
- **Twelve walks, one table.** Each listener walks the whole tree and reads by
  ranges what the ones before it have put in the table. Three of them keep a stack
  of declarations that have no name yet; one keeps a map of expressions that have
  no successor yet. A name taken a level too deep, a listener that comes too
  early, or a receiver that is taken twice shows only in files where declarations
  are nested or broken in the right way.

## 3. The modules

### `PhpType`, `PhpSymbolCollection`, `ReferenceResolver`, `Workspace`

`Parse[text]` is the sequence of symbols the listeners and the passes over one
file make of a text, with the links within the file as positions in this
sequence. It is a constant: the modules are about what happens to these symbols
afterwards. How they are made is `FileIndexer`; `PhpTexts` has the texts of the runs with
their symbols, and the run `file_index` shows that `FileIndexer` finds exactly these
symbols in the sources they are written beside. A symbol of the running program is an object with identity; here it
is `<<block, i>>`, where a block `[file, at, text]` is the result of one parse of
`file`, `at` is when it was appended (the clock of `Workspace`), and `i` is the
position in `Parse[text]`. The nine lists are the set `symbols` of blocks,
ordered by `at`. `removeSymbolsOfFile` is the removal of the blocks of a file. Two
parses of one text give different objects, which is what makes a dangling
definition expressible. The fields that change after parsing are the functions
`definition` (of references) and `type` (of symbols).

| code | model |
|---|---|
| `Workspace.index`, scan | `ReadFile`, `ScanFails`: one file at a time; an I/O error ends the process |
| parse in the parallel stream | `ParseFile(file)`, in any order; `parsed` records it |
| `addAll` of each result, `resolve`, `propagate` | `Collect`, when the stream has ended |
| `Workspace.reparse` | `Reparse(file, content)`, one action: the server is one thread |
| `ReferenceResolver.resolve` | `Definitions`, then `ResolvedTypes`, which assigns the locals one by one and reads what it has assigned; both follow receivers through the recursion `Members`, whose argument `resolving` is the set of locals in progress |
| `VarUsageTypePropagator.propagate` | `Propagated` |

`Reparse` is atomic because nothing else runs: the parallel stream has ended, and
the loop handles one message at a time.

### `LspServer`

The pipe from the editor is `input` with `handled`, the number of messages taken;
the pipe back is `output`. A message has a frame (well-formed, without a length,
not JSON), a method, an id (integer or string, missing, or neither), parameters
that bind or do not, a document and its new texts. The handlers' effect on the
index is `documents`, the text the index has of each document. Ghost state, for
the properties only: each message carries `view`, the editor's texts when it was
sent, and each response carries the texts it `seen`. Every handler is an operator
of its own under `Handle`; the branches are those of `dispatch` in the order of
its checks. `Respond` writes to `System.out`, a `PrintStream`: when the editor has gone the
answer is lost, no exception comes of it, and the loop goes on to the end of its input.

### `MessageFraming`, `MessagePipe`

`LspServer` takes whole messages. `MessageFraming` is how they are found in the
bytes of standard input: `ReadOfLine` and `EndOfLine` are `readHeaderLine`, `EndOfHeader`
the test on the length, `ReadOfBody` and `EndOfBody` the `readNBytes`, and
`EndOfInput` all the ways in which `readMessage` returns null at the end of the
stream. `MessagePipe` is the abstract specification, a queue of whole messages with
an end, and `MessageFraming` is shown to implement it (`IsMessagePipe`).

### `LanguageServer`

The whole program: it extends `Workspace` and takes `LspServer` by INSTANCE over shared
variables. `Init`, `Next` and `Spec` are those of the index; the program has `MainInit`,
`MainNext` and `MainSpec`. `Indexed` is `Collect` together with `Start`; `HandleMessage` is
the step of the loop together with `Reparse` when the message reaches the index.
`documents`, a variable of `LspServer`, becomes the texts of `Workspace`. The editor here
sends only the messages that reach the index, since the others are covered by
`LspServer`. A message makes the index parse one file at the most, so the bound on
reparses is also the bound on messages.

### `Queries`

`DefinitionAnswer`, `HoverAnswer`, `ReferencesAnswer` and `CompletionAnswer` are
operators on the state of `Workspace`, in the order the handlers look things up.
Symbols have a `span`, the range of their name, and declarations have a `scope`.
`null` answers are empty sets, and a location is a file and a range. What the
listeners promise of these ranges is assumed, and TLC evaluates it for the texts of
the run: names are tokens and one name makes one symbol, but for three cases
(`PlacesAssumption`); scopes are ranges of nodes (`NestingAssumption`); an owner is the
innermost declaration around the symbol (`OwnersAssumption`, what `OwnersEnclose`
checks of `FileIndexer`).

Completion reads the text, too. `Tokens[text]` is the text as the sequence of its tokens,
each with its kind and whether it is joined to the one before it, and the cursor stands
before, in or behind a token (`Parts`). `OperatorFound` and `ReceiverBefore` are the two
groups of the regular expression `([$\w]*)(->|::)\w*$` on the line that ends there. `\w` is
no `$`, so that behind `$o->` the operator is found as long as a `$` has not been typed;
`?->` has no receiver before the arrow, and neither has an arrow that begins a line, and
nothing is offered there, though the resolver links the member. `TokensAssumption` says
how the tokens go with the symbols, and TLC evaluates it.

Three places are exempt from the properties, because the code answers differently
there. In `C::$v->` and `$o->$v->` the expression takes `$v` for the variable of this name,
which the resolver does not (`FollowsMember`). A property of an anonymous class in a function is found by
`VarInsideFunctionLikeListener`, too, and is listed among the uses of the variable of
its name (`DeclaresProperty`). And what stands in the body of a class but in none of its
methods has the class as its owner, while `CompletionHandler` looks for the
innermost method or function only (the guard of `CompletionOffersWhatResolves`).

### `SyntaxTree`

A node is its number in preorder, as tree-sitter counts it. `VisitRoot`,
`VisitFirstChild`, `ReachLeaf`, `Climb`, `VisitSibling`
and `EndWalk` are the statements of the loop of `tsjni.c` that move the cursor or
write a row; the cursor and the variable `node` are separate, because the code
keeps both. `Ask`, `PassChild`, `EnterChild` and `Answer` are `getDescendant`.
The trees are a constant with the assumption of what tree-sitter promises:
preorder numbering and ranges that nest.

### `CompleteIndexer`, `PhpVisitors`, `PhpGrammar`

`PhpVisitors` is the table of all visit methods: what each does with a child of
each type in each field. `CompleteIndexer` is the recursion that uses it: the
variables `path`, `todo` and `visitor` are its call stack, `calls` is what one
listener is told. `PhpGrammar` is the published grammar, transcribed from
`node-types.json`, the file the comment over `CompleteIndexer` names as its
source; the run `walk` compares the two by walking trees made from the one with
the table made from the other.

### `PhpTree`, `TreeWalk`

`PhpTree` is a syntax tree as listeners see it: types, fields, parents, and the
flag by which a child is an error, a comment, punctuation or a node of the
grammar. `Telling(tree)` is everything a listener is to be told of it, in order,
defined from the tree alone, node by node in the order of the text: for each node in
place its `Opening` (it is entered, and the comments below it follow; or it is a leaf)
and its `Closing` (the exits of the nodes that end with it, from the innermost out).
Nodes are numbered in preorder, which says of a parent that it is the node before or an
ancestor of that (`PhpTreesAssumption`). `TreeWalk` is the abstract specification of the
walk, which tells ever longer prefixes of `Telling(tree)` until all is told;
`CompleteIndexer`, with its paths, slots, fields and 170 visit methods, is shown to
implement it (`IsTreeWalk`, checked and proved). This is what lets `FileIndexer` begin
from `Telling(tree)`.

Two properties of the data are stated here, because the walk is complete only where they
hold: a tree is `Grammatical` when each child of a node in place that is not an error or
a comment stands in a field, and is of a type, that the published grammar has for its
parent; and `VisitorsFollowGrammar` says that the visit methods have a case of its own
for every such type. Both are evaluated on everything the runs use.

### `FileIndexer`

`Workspace.indexInto` for one file. `listener` is the position in the list of
listeners, `coming` the positions in `Telling(tree)` of the calls it has still to be given (those it
overrides; the others are empty methods), `opened` its stack, `members` the map of
`PhpReferenceListener`, `symbols` the lists of the collection.

| code | model |
|---|---|
| one call of a listener | one action of `Listen`, by listener and type of node: `OpenMethod`, `NameMethod`, `CloseMethod`, `Import`, `DeclareClass`, `DeclareProperty`, `TypeByVarDoc`, `ReferenceInDoc`, `CommitParameter`, `DeclareOrUse`, `ReferToMember`, ... |
| the `for` over the listeners | `NextListener`, `EndWalks` |
| `namespaceOf`, `classOf`, `ownerOf` | `Innermost` over the scopes in the list, in its order |
| `PhpNameScope.fqn`, `PhpType.parse` | `Fqn`, `Parsed` |
| `DefinitionFiller`, `PhpTypeInferer`, `PhpReturnTypeInferer`, `VarUsageTypePropagator` | `FillDefinitions`, `InferTypes`, `InferReturnTypes`, `PropagateTypes` |

Texts are data. A name is the sequence of its segments, a type the sequence of the
members of its union, a comment the sequence of its tags. A range is the interval
of the nodes in it, which keeps what the code asks of ranges: what is in what, and
what begins before what. That a node is found again by its range
(`getDescendant`) is `SyntaxTree`'s `AnswerHasTheRange`; here the symbol keeps the
node. Modifiers and the text of signatures are left out: only hovers show them.

## 4. The runs

Every property of a passing run has a mutant: a definition of the model changed
the way a bug would change the code (they stand beside the definitions, under a
comment `Mutant:`), for which TLC finds the property violated. So no property
holds for want of a case in which it could fail. `CHECK_DEADLOCK FALSE` is set in
the runs of `Workspace` and `Queries` only, where the editor has no more contents
to send once `MaxReparses` is used up; the other models say when they have ended.

| run | instance | what it shows |
|---|---|---|
| `index` | 3 files, 6 texts, 3 reparses; 14205 states | The startup ends, empty files and I/O errors included; the collection is current, no definition dangles, definitions and types of locals are those of an index built from nothing, startup does not depend on scheduling, a reparse steals no reference. |
| `stale_usage_type` | as `index`, 1 reparse | Violated: see section 7. |
| `loop` | 1 document, 2 texts, 3 messages of any kind; 511092 states | Responses in order, once, to requests only; none dropped, also when nobody reads the answers; on the texts they were asked about; the server dies in one case only; each request is answered unless it ends, and it ends when the editor does. |
| `query_kills_server`, `several_changes` | 2 documents, 2 texts, 2 messages | Violated: see section 7. |
| `framing` | 2 frames of 16 well-formed and 5 useless kinds; 86356 states | The bytes of standard input give a pipe of whole messages, wherever they are cut. |
| `whole_server` | 2 files, 4 texts, 2 messages; 267000 states | Answers are fresh with respect to their request; the composition implements `Workspace`; loop and index never wait for each other. |
| `syntax_tree` | all trees of up to 6 nodes, all placements of 4 nodes on 4 points; 17958 states | The array is the tree; the search by range gives a node of that range. |
| `walk` | each child the grammar allows in each field of each node type, 729 damaged copies of a small file; 30892 states | Listeners are told of the whole tree and of nothing else, in order, with true depths and parents; what is entered and not left is what is around a node. |
| `file_index` | 96 files; 15760 states | Owners are the innermost declarations, names and types are those of their own declaration, usages follow the assignment before them, chains of members are whole; the texts of the other runs have the symbols these runs begin from. |
| `shadowed_parameter` | 2 files | Violated: see section 7. |
| `queries` | 3 files, 6 texts, 1 reparse; 4833 states | The answers agree with the texts and with each other; completion with the cursor before, in and behind each name. |

### Bounds, and why they are enough

- `index`: three files are needed for a class, a class that uses it and a function
  that uses both, so that a reparse of one changes the type of a local in a second
  through a declaration in the third. Two reparses are needed to undo what a
  first one did and a third to redo it; after each, the state is a function of the
  contents and the order of blocks, and three reparses reach every order of three
  blocks. The six texts are written, in PHP, beside their symbols in `PhpTexts`;
  they include an empty file, two versions of one class, chains of calls, `self`,
  `$this`, array elements, a local assigned in a circle, and a parameter without
  an owner. `MaxReparses` is the bound on edits.
- `loop`: a document that is indexed or is not, and two texts, so that a
  stale text differs from a fresh one. With three messages one can be in handling
  and two waiting, of every kind, also malformed: a document is opened, changed and
  asked about before the server has taken the first of the three. That a message
  about one document leaves the others alone is in `whole_server`, which has three,
  and in the theorems, which hold for every set of them. `MaxChanges` is 1 except in `several_changes`, because the
  server announces full synchronisation and an editor has no reason to send more.
- `framing`: a bad header, or a body taken too long or too short, shows in the
  message after it, so two are enough. The bodies hold line feeds, an empty line,
  a text that looks like a header, and two bytes of no meaning. `MaxInt` is small
  because TLC's own integers end where Java's do; one length is above it.
- `whole_server`: an edit and a query, in all orders with the startup.
- `syntax_tree`: the loop in C has one variable and the shape of the tree around
  the cursor as its input; six nodes make every combination of first, middle and
  last child on two levels with a climb over two. For the ranges four nodes can be
  parent, asked node, and empty neighbours at both of its edges.
- `walk`: what a visit method does depends on one node, its fields and the types
  of its children, so a tree of a node, a child and what the child has below
  it, for every entry of the grammar, tries each of them; the damaged file adds
  errors, missing nodes and comments at every place.
- `file_index`: 85 files nest functions, classes, closures and anonymous classes in
  each other to a depth of three, in all ways, with a variable, a parameter and a
  member of one name before and after each inner declaration; in four a name is
  missing, of a class, a method, a parameter, a function. Two are about namespaces without
  and with bodies, with all forms of import and of class names, promoted
  parameters, phpdoc on properties and methods, loops with keys, `instanceof`,
  `new`, returns and generators. Five are the texts of `PhpTexts`. The trees are
  checked against `PhpGrammar` (`Grammatical`), so that each is one the parser can make;
  punctuation, which listeners pass over, is left out of them.
- `queries`: one reparse of each file by each text gives old and new blocks, and
  every symbol of every file is asked about. The texts, written token by token, have
  `$v->`, `$v?->`, an arrow on a line of its own, chains of calls, `$o->$v`, `C::$v->`,
  closures and anonymous classes.

## 5. Fairness

No safety property rests on any: fairness takes no reachable state away. `index` and
`loop` check both kinds in one run. Where liveness is checked:

- `Workspace`: weak fairness of reading, of parsing a file while one is left, and of collecting.
  The scan is one thread that does not wait for anything but the disk; each worker
  of the common pool takes the next file when it has finished one; the thread
  that called `toList` goes on when all are done. Nothing is assumed of reparses.
- `LspServer`: weak fairness of `Server`, the one thread of the loop. Nothing is
  assumed of the editor: it may stop writing and never close the pipe.
- `MessageFraming`: weak fairness of `Read`, the same thread.
- `SyntaxTree`: weak fairness of `Walk`, a loop of one thread. That the search by range
  and the recursion of `CompleteIndexer` do not stop halfway is shown by the absence
  of deadlocks; each of their steps leaves less of the tree to visit.

## 6. The proofs

All theorems are checked by TLAPS from the assumptions named in the modules, for any
number of files, texts, messages, documents and trees of any size.

**`WorkspaceProofs`** begins with what the recursion of the resolver computes, for any
collection.

- `Members` is a recursive function over pairs of a reference and the set of locals in
  progress. `MembersUnfold` and `CallsUnfold` show that it has one value at each pair
  and that it satisfies its own equation. A call gets smaller (`CallsGetSmaller`): a
  receiver comes before what it receives (`ReceiversAssumption`), and where a local is
  followed one more local is in progress, of finitely many (`LocalsAreFinite`). That is
  a measure in the natural numbers, and from it `RecursionExists` builds the function.
  Induction over this measure is done as a proof by contradiction with a pair of least
  measure (`SmallestExists`), since theorems with an operator parameter cannot be
  instantiated here.
- *The past does not show.* The types that locals have before a resolution have no
  effect on it where the locals with a type found in the file keep it and the locals on
  a circle have none (`MayStart`): `SourcedTypesDoNotMatter`, `ResolvedLocals`,
  `DefinitionsFromAnywhere`. A chain that comes back to a local in progress ends in
  nothing (`CirclesGiveNothing`), wherever it is entered, which is why the assignments
  of `resolve`, each made while the later ones are outstanding, give the same types in
  any order. `ResolvingDoesNotMatter` says it for completion, which enters the recursion
  in the middle.
- *The order of blocks does not show* (`TwinDefinitions`, `TwinSourceTypes`). Two
  collections are `Twins` if they are made of the same texts of the same files; where no
  name is declared in two files, what the resolver makes of one is place by place what
  it makes of the other.

Of the index it shows `TypeCorrectness`, `CollectionStaysCurrent`,
`DefinitionsNeverDangle`, `UsagesFollow`, `StartupDeterminism`, `NoTheft`,
`DefinitionsStayFresh`, `LocalTypesStayFresh`. The inductive invariant `IndInv` has,
besides the type and the first three of these, `NothingBeforeServing` (until the
workspace serves, all is empty, which startup needs to begin from), `AppendedBeforeNow`
(a block that is appended comes after every block that is there, without which a reparse
could give an old object a second time), and `LinkedByName` (a reference by name is
linked to the first declaration in the present collection). `NoTheft` follows from
`LinkedByName` before and after a step: the order of the blocks of other files does not
change, and the new block is last, so the first declaration of a name is the same one if
it is still there. `StartupDeterminism` needs the order in which `Collect` appends to be
a function of the files, whatever `parsed` is.

The two freshness theorems compare the state with an index built from nothing. They take
the invariant `Settled`: the links are those the resolver finds from the types of the
files alone, and each local has the type of its source. It is kept because a settled
collection `MayStart` the next resolution (`OldTypesMayStart`), and so does one that was
just parsed; and a settled collection and the fresh one are `Twins`.

The assumptions are that the symbols of a text are numbered (`ParseAssumption`), that
null is no object and no name (`NoneAssumption`), that classes have names
(`NamesAssumption`), that the definition of a usage is a variable of the same file
(`LinksAssumption`), that owners, receivers and sources are symbols of the same run
(`ScopesAssumption`, `ReceiversAssumption`, `LocalsAssumption`), that an empty text has
no symbols (`EmptyAssumption`), and that the two numbers are numbers. `UniqueNames` is
no assumption: it is the condition in the two properties, since with two declarations of
one name the order of edits does show.

**`LspServerProofs`.** `TypeCorrectness`, `AnswersInOrder`, `RequestsOnly`,
`NothingLeftBehind`, `IndexFollowsEditor`, `AnswersOnTheirTexts`, `CrashesAreKnown`, for
`MaxChanges <= 1` (with 2 `DocumentsFollowEditor` is false, see section 7). The
properties speak of `view`, what the editor had when it sent each message;
`PipeIsCoherent` says how the views in the pipe follow from each other, and then taking
a message does to `documents` what sending it did to `view`. The conjuncts
`ResponsesInOrder`, `OnlyRequestsAnswered` and `NoRequestDropped` go together: that a
response is the last one needs that earlier ones answer earlier messages.
`NothingLeftBehind` says it to the end: also when the editor has gone, and when the server
has died, where the only request without an answer is the last one taken.
`CrashesAreKnown` has an invariant of its own, `CrashInv`: the message that ended the
server, a query about a document it does not have, stays the last one taken, whatever the
editor writes behind it.

**`LanguageServerProofs`.** Of the queries: `AnswersAreDeclarations`, `ReferencesAgree`, `HoverFollows`,
`VariablesAreOffered`, `CompletionFollowsResolver`: all the invariants of `Queries`.
They take `IndInv` and `Settled` of `Workspace` and `LinkedToNames` (whatever the way by
which the resolver comes to a definition, the definition has the name of the reference),
and no invariant of their own, since queries change nothing. The work is in the lookups.
`OneAnswers` and `AskedAnswer`: of the symbols around a place exactly one answers, and
all that stand there have its span. `UsesLeadBack`: each of the searches of `references`
finds only what `definition` leads back from. `OwnerIsFound`: the innermost method or
function that completion finds at the place of a symbol is the owner the listener gave
it. And `OneClassOfVariable`: completion takes the type a variable has now, while the
resolver follows its source again, with a local in progress; they meet by
`ResolvingDoesNotMatter` and `Settled`. What completion finds in the line is put beside what
the tree has by `OperatorOfMember` (however much of a member is typed, the operator found is
the one right before it) and `ReceiverOfMember` (what is before that is the variable the
resolver has for the object, or the name of no variable); `OfferedAtMember` is both
together. They rest on `TokensAssumption`.

Of the program: `LoopIsLspServer` (the whole program implements `LspServer`,
with `documents` defined from the index), `IndexImplementsWorkspace` (and it implements
`Workspace`), `AnswersStayFresh`. The first is a step simulation; the only case that is
not plain is a message that reparses, where the file it names has to be one the index
has. The second needs the invariant of the loop, carried over by the first: the texts of
a message are among `Texts`. The third needs both: a request is answered on the texts of
its own `view` (`AskedOnContents`, from the loop), and what the index has of these is
what an index built from nothing has (`DefinitionsStayFresh`, from `Workspace`).

**`MessageFramingProofs`.** `LoopIsMessagePipe`: the bytes implement the queue of whole
messages. First, of each kind of frame, where `readMessage` ends its header, and the
line and the length it has before each byte of it (`Shape`, `GoodFrame`, `BadFrame`,
`FramesHaveShapes`); the bodies are any sequences of bytes. Then the invariant: there is
an assignment of a place in the pipe to each frame (`Starts`), and the reader is in the
frame after those it has returned, in the state the shape of that frame gives for its
place (`Reading`). A body is returned exactly when a frame has been read to its end
(`ReturnsBody`), and the reader stops only at a useless header or where nothing is left
(`NothingIsLeft`); so reading to the end of a frame is `Take` of `MessagePipe`, stopping
is its `End`, the byte that makes a frame whole is its `Send`, and all other steps
stutter.

**`SyntaxTreeProofs`.** `NodeStaysAtCursor`, `ArrayIsTheTree`, `RowsStay`,
`RangeIsFound`, for every tree that is numbered in preorder (`TreesAssumption`). The
invariant: the rows that are there are those of the nodes up to the one visited last,
each with its parent, and the link to the next sibling is there exactly for the nodes
whose next sibling has been visited; and the variable `node` is the cursor whenever a
row is written. The last is not true at every statement, so it is stated by `pc`.
`RangeIsFound` is about the search: the node reached has the range in it and is on the
way to the node asked for or below it, and every child before the next one to be looked
at has been passed (`SearchInv`). That no child with the range in it is ever passed
(`RangeIsAhead`) needs the range not to be empty: an empty node at its edge has the end
the test looks at, and is entered only if it is the one.

**`CompleteIndexerProofs`.** `OpenStayAncestors`: what a listener has entered and not
left are the ancestors of the node it is told of. The invariant `Walks` says that the
path is the nodes entered and not left, each the child of the one before it; that what
`todo` has for a node are children of it, in their order, none of which has been
entered; and that no node is entered before its parent. `TreeFacts` and `OrderedFacts`, in
`PhpTreeProofs`, are what the proof needs of trees: the numbers of ancestors are smaller,
and a set of nodes is put in the order of the text. What the visit methods are is of no importance to
it.

`WalkTellsTheTree`: `CompleteIndexer` implements `TreeWalk`, under the two hypotheses
`VisitorsFollowGrammar` and that every tree is `Grammatical`. Errors and comments may be
anywhere in such a tree; what is below an error is not in place and is not told. The
first hypothesis is a fact about two tables of the code and its grammar, which TLC
evaluates (`GrammarIsFollowed`), and so is the second for the trees of the runs
(`TreesAreGrammatical`). The invariant `OrderInv` says how far the walk has come: `calls`
is what is to be told as far as the node entered last, but for the exits of the nodes of
the path that are due from the innermost out (`InOrder`); every ancestor of that node is on
the path or has no more below it; what `todo` has for a node of the path are, without
exception, the children in place that come after; and the visitor that is running is the
one of the type of the node. `ChildIsReady` is the step that needs the grammar: the child
that comes next has a visitor of its own, so it is neither skipped nor visited as
something else. `EnterOrder`, `LeafOrder`, `PassOrder` and `ExitOrder` are the four ways a
step adds to `calls`; `ToldSoFar` concludes that what has been told is a prefix of
`Telling`.

**`PhpTreeProofs`** has the lemmas about trees that this and the next proof need.
`RecursionExists`, `TellingFacts` and `ExitsFacts` give the recursive functions of
`PhpTree` their defining equations, and `TellingBrackets` is the structure of `Telling`: a
node is entered before what is in it is told, and left behind it; so of two nodes that
are entered and not left one is in the other.

**`FileIndexerProofs`.** `NamesStayOwn`: in trees of any size, whatever errors they have,
`NamesAreOwn` holds, if the first name of its kind right below a declaration is its name
(`NamesAreFirst`: in the grammar no other name stands beside it, and the name of a
parameter comes before its default value; TLC evaluates it on the trees of the runs). The
listeners rely on a counter of levels and a stack, not on fields. The invariant `Kept` says
what these come to: the stack of a listener is the declarations around what it is told
next, the innermost first, each with its level, named as soon as its name has been passed
(`Stacked`, `Begun`); and its list is the declarations it has named, or, of parameters,
left, with what it read of each when it was opened (`Listed`, `Shaped`). `StackOpens`,
`StackNames` and `StackCloses` are the three ways a call changes the stack: a name one level
below the declaration on top can only be right below it, since what is entered and not left
is what is around (`OpenAround`), and it is the first exactly when the declaration has none
yet. `NextBegins` shows that a listener leaves an empty stack and a complete list. The other
listeners and the passes change neither the lists nor, but for types of functions, what
is in them (`OthersStep`, `PassesKeep`).

`ChainsStayWhole`: `ChainsAreWhole` holds in trees of any size in which the only name right
below a member expression is that of its member and the object comes before it
(`MembersAreWhole`; TLC evaluates it on the trees of the runs). The hypothesis is needed:
a constant as the object, `FOO->x`, is a name the listener takes for a member (section 8).
The listener looks for the receiver of a member in a map, at the moment it is told the name;
that the receiver has been put there by then, and has not been taken by another, is not to
be seen in the code. The invariant `Chained`, added to `Kept`, says what there is at each
moment: one reference to each member whose name has been told, with the receiver that the
tree has (`Linked`), and in the map those of them that are not the object of another one
told (`Held`). `ReceiverIsHeld` is the step that needs the order of the tree: the name
of the object is told before that of the member. The map is empty for
the listeners before, and the ones after add no members (`StepsChain`).

`OwnersAlwaysEnclose`: `OwnersEnclose` holds in trees of any size that are `Regular`.
`Regular` is four hypotheses, none of which mentions owners. `NamesAreFirst` is the one of
`NamesStayOwn`. `ClassesAreNamed`: a class whose name is in place has it as a `name`.
`NamespacesDoNotMix`: a namespace is never in a class, and one without a body is followed
beside it by such ones only, with a name; PHP forbids the rest, but tree-sitter would
parse it, and `NamespaceScope` would end at the wrong place. TLC evaluates these three on
the trees of the runs (`NamesComeFirst` and `DeclarationsAreRegular`). `NoneIsNoSymbol`,
that Java's `null` is no symbol, is about all values and is the one hypothesis of the
theorems that TLC cannot evaluate. No listener looks for an owner in the tree: `Innermost`
searches a list for the smallest scope around the range. `InnermostFacts` says what such a
search gives when the scopes around the range are in each other, and `FindsMore` carries
that through the searches of several lists one after the other, as `ownerOf` does it. Two
things are left. The scopes are in each other: those of declarations because they are
ranges of nodes; those of namespaces without a body, which end before the next one beside
them, by `AreasNest`, and `RulingIsAround` says that the one that governs a node has it in
its scope. And the list is complete when it is searched: `ClassesListed`,
`FunctionsListed` and `NamespacesListed` hold from the moment the listener of that kind is
through, and those that search it come after. This needs the invariant `Classed`, what the
list of classes holds at each moment, beside `Kept`. `OwnerFound` and `NamespaceFound` put
the two together. The invariant is `Kept`, `Classed` and `Owned`, which says of each
symbol in a list that it has the owner or the namespace it should, and which the passes
keep: what they write is a type or a definition (`InferringSame`).

`UsagesAlwaysFollow`: `UsagesFollowDefinitions` holds in the same trees. The invariant has a
fourth part, `Followed`: before `FillDefinitions` no usage has a definition or a type, and
after it each has the one that `IsDefined` says, which depends on nothing that the inferers
change (`DefinedStays`); none has a type until `PropagateTypes`, which gives it that of the
first parameter or local at the node it is defined by. The step from there to the property
(`FollowedIsRight`) needs that no parameter stands where a local does (`VariableFacts`), and
the owners of the theorem before: code and property agree on which variables are the same
because `s.owner` is the innermost declaration around both. `InferringSame` is where the
recursion of `InferTypes` over the list of locals is followed: each step changes at most the
type of one of them, so none of them is lost, moved or renamed.

**Only model-checked.**

- Liveness: `StartupEnds`, `RequestsAnswered`, `ServerEndsWithClient`,
  `WholeMessagesArrive`, `EndsWithEditor`, `WalkEnds`. It rests on fairness and ENABLED,
  which this prover does not have.
- `TextsAreTheirSymbols` of `MCFileIndexer`: it is about the given texts, and running
  the passes over these is what settles it.

## 7. Disagreements found

- **A usage keeps a stale type** (`stale_usage_type`). `VarUsageTypePropagator`
  assigns only types that are not null. When the edit of one file takes away the
  type of a local in another, the usages of that local in a file that is not parsed
  again keep the old one, and a hover on the usage differs from one on the
  assignment. The test of the class is named `aUsageTakesItsDefinitionType`.
- **A query about an unindexed document ends the server** (`query_kills_server`).
  `didOpen` of a file that was created after startup, or was empty then, is skipped
  with a log line; a hover in the same document throws an `AppException` that
  `run` does not catch.
- **Only the first change of a `didChange` counts** (`several_changes`). The comment
  says that `text` is the whole document; with two changes the index stays at
  the first of them.
- **A closure loses its parameters to the function around it** (`shadowed_parameter`).
  `DefinitionFiller` takes the first parameter with the owner and the name of a
  usage; closures are no owners, so `function f(C $a) { $g = function (C $a) { $a; }; }`
  has two, and the inner usage leads to the outer one. The test says that every
  usage points at its assignment or parameter.

## 8. What is left out

- JSON binding (`lsp/Json`, `lsp/dto`): pure data. That it fails is a kind of message.
- Configuration, arguments and exclude globs: read once, before anything runs.
- Logging, the print mode (`SymbolPrinter`), the wording of hovers and completion
  items: output that nothing reads back.
- The characters of PhpDoc comments and of types: a comment is the list of its tags
  in `FileIndexer`, a type the list of its members. Type arguments and
  intersections are left out.
- Files that mix namespaces with and without a body, or have one in a class: PHP refuses
  them, and no text of the runs does so (`NamespacesDoNotMix`).
- A name right below a member expression that is not its member, as in `FOO->x`
  with a constant `FOO`: listed as a hazard no property covers.
- A property of an anonymous class in a function is also listed as a use of the
  variable of its name, and completion does not know the owner of what stands in a
  class outside of its methods: both are in the model of `Queries` and are named as
  exceptions in its properties (section 3).
- The texts of `Queries` have at most one symbol at a place, but for the cases of
  `PlacesAssumption`. A promoted parameter of an anonymous class that stands in the
  value of a property with a `@var` comment would be a fourth: the comment gives its type
  to the property of the promoted parameter, too. It is left out.
- Comments inside the parentheses of a `foreach`: `VarInsideFunctionLikeListener` takes the
  first named child for what is iterated over, and a comment is one. `IsIterated`
  has the case; no file of the runs does.
- A variable without an owner (a parameter of a function at the top level of a file)
  shares its key with those of all other files; `UniqueNames` keeps the case out of
  the properties of `Workspace`.
- The text in `Queries` is a sequence of tokens. A cursor in white space, in a comment or in a
  string is left out, and so are variables of variables, `$$v`, which are three tokens
  to the parser and one word to the expression. A line beyond the end of the file,
  for which completion answers with nothing, is not asked for.
- The bytes of an answer (`LspServer.write`). In `MessageFraming` it is the editor that
  frames messages; what the server reads is the model.
- Columns: tree-sitter counts bytes and the protocol UTF-16 units; places are
  abstract in `Queries`. Listed as a hazard no property covers.
- Memory management across JNI, stack depth of the recursive walk, out-of-memory.
- `uri()` of a file resolves symbolic links at each call; here a file keeps its URI.
- Build files, and the Neovim plugin (it is the client of `LspServer`).
- `src/.old-project`: an earlier implementation in C, which nothing builds any more, and
  beside it the libraries it came with. Two of these are still built: `src/build.py`
  compiles the runtime of tree-sitter (`lib.c`) and the parser of PHP (`parser.c`,
  `scanner.c`) into the library that `tsjni.c` is in. Of the runtime the cursor is
  modelled, in `SyntaxTree`: `HasFirstChild`, `HasNextSibling` and `NextSibling` are its moves
  as the loop sees them, with the hidden nodes of the library gone. `Preorder` and `Placed`
  are assumed of its trees. Of the parser, `PhpGrammar` is what is published of it in
  `node-types.json`; the rest of it is 377000 lines in two parsers that tree-sitter
  generates, tables of numbers without control of their own. The JSON library yyjson
  belongs to the earlier implementation only.

## 9. The plan

The order is by what matters most to the answers the editor gets.

1. Done: `PhpType`, `PhpSymbolCollection`, `ReferenceResolver`, `Workspace`; `LspServer`;
   `LanguageServer`, which composes the two; `SyntaxTree`; `PhpVisitors`, `PhpGrammar`,
   `CompleteIndexer`; `Queries`; `MessageFraming` over `MessagePipe`; `PhpTree` and
   `TreeWalk`, which state what the walk promises; `FileIndexer` on top of them with name
   scopes and imports; `PhpTexts`, which ties the texts of `Workspace` to their sources.
   Proofs of every safety property of all of these but `TextsAreTheirSymbols`, which is
   about given texts.
2. The characters of types and phpdoc, as functions on sequences against a grammar
   of both.
