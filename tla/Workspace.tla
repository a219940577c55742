----------------------------- MODULE Workspace -----------------------------
(***************************************************************************)
(* The index of a PHP project: Workspace.java with the two passes it runs  *)
(* over all the symbols, ReferenceResolver and VarUsageTypePropagator.     *)
(*                                                                         *)
(* At startup the .php files under the root are read one after the other,  *)
(* in path order; the ones that are not empty are parsed in parallel by    *)
(* the workers of a parallel stream, each into a collection of its own;    *)
(* the collections are then added to the collection of the workspace in    *)
(* the order of the stream, whatever order the workers finished in, and    *)
(* all the references are resolved.  From then on the workspace serves:    *)
(* each time the editor sends a content, the file is parsed again, its     *)
(* symbols are replaced and all the references of all the files are        *)
(* resolved again.                                                         *)
(***************************************************************************)
EXTENDS ReferenceResolver

CONSTANTS
    Empty,        \* the empty text
    MaxReparses   \* bound on the number of contents the editor sends

ASSUME EmptyAssumption == Empty \in Texts /\ Parse[Empty] = << >>
ASSUME MaxReparsesAssumption == MaxReparses \in Nat

VARIABLES
    phase,       \* "starting", "serving", or "failed" (the scan met an I/O error)
    unread,      \* the files the scan has not read yet
    text,        \* PhpFile.content of each file; the disk before the file is read
    parsed,      \* the files the workers are done with, in order of completion
    files,       \* the list `files`: the read files, in path order, once parsed
    symbols,     \* the collection: a set of blocks
    clock,       \* when the last block was appended
    definition,  \* the definition field of the objects that are references
    type         \* the type field of the locals and usages

vars == <<phase, unread, text, parsed, files, symbols, clock, definition, type>>

-----------------------------------------------------------------------------
\* VarUsageTypePropagator: a usage takes the type of its definition; where that
\* has no type the usage is left as it is.
DefinitionType(types, usage) ==
    LET defined == Linked(usage, Sym(usage).definition)
    IN  IF defined = NONE THEN NONE
        ELSE IF Sym(defined).kind = "parameter" THEN Sym(defined).type
        ELSE types[defined]

Propagated(types) ==
    [o \in DOMAIN types |->
       IF Sym(o).kind = "usage" /\ DefinitionType(types, o) # NONE
       THEN DefinitionType(types, o)
       ELSE types[o]]

\* The types the objects of one block leave indexInto with: locals have what
\* was found in the file, usages what that gives them.
InFileTypes(block) ==
    Propagated([o \in Typed({block}) |-> IF Sym(o).kind = "local" THEN Sym(o).type ELSE NONE])

\* the types of all the objects before the references are resolved: the old
\* objects keep theirs
TypesBefore(collection, types) ==
    [o \in Typed(collection) |-> IF o \in DOMAIN types THEN types[o] ELSE InFileTypes(o[1])[o]]

\* Mutants: only the new references are resolved; the types of the usages are
\* not propagated.
ResolveNewOnly(collection, types) ==
    LET before == TypesBefore(collection, types)
        resolved == Definitions(collection, before)
    IN  /\ definition' = [o \in References(collection) |->
                            IF o \in DOMAIN definition THEN definition[o] ELSE resolved[o]]
        /\ type' = Propagated(ResolvedTypes(collection, before))

ResolveWithoutPropagating(collection, types) ==
    LET before == TypesBefore(collection, types)
    IN  /\ definition' = Definitions(collection, before)
        /\ type' = ResolvedTypes(collection, before)

\* the end of index and of reparse: the resolver, then the propagator, run over
\* the whole collection
ResolveAll(collection, types) ==
    LET before == TypesBefore(collection, types)
    IN  /\ definition' = Definitions(collection, before)
        /\ type' = Propagated(ResolvedTypes(collection, before))

-----------------------------------------------------------------------------
\* Mutant: the order the workers ended in.
CompletionOrder(completed, file) == CHOOSE i \in DOMAIN completed : completed[i] = file

\* The stream gives back the collections in encounter order, which is path
\* order: the block of a file comes after the blocks of the files before it.
\* `completed` is the order the workers finished in.
EncounterOrder(completed, file) == file

Init ==
    /\ phase = "starting"
    /\ unread = Files
    /\ text \in [Files -> Texts]
    /\ parsed = << >>
    /\ files = {}
    /\ symbols = {}
    /\ clock = 0
    /\ definition = << >>
    /\ type = << >>

NextPath == CHOOSE f \in unread : \A g \in unread : f <= g

\* Mutant: the list `files` is filled while the files are read.
ReadFileIntoFiles ==
    /\ phase = "starting" /\ unread # {}
    /\ unread' = unread \ {NextPath}
    /\ files' = files \cup ({NextPath} \ {f \in Files : text[f] = Empty})
    /\ UNCHANGED <<phase, text, parsed, symbols, clock, definition, type>>

\* Files.readAllBytes on the next path; an empty file is not indexed
ReadFile ==
    /\ phase = "starting" /\ unread # {}
    /\ unread' = unread \ {NextPath}
    /\ UNCHANGED <<phase, text, parsed, files, symbols, clock, definition, type>>

\* an IOException of the scan ends the program
ScanFails ==
    /\ phase = "starting" /\ unread # {}
    /\ phase' = "failed"
    /\ UNCHANGED <<unread, text, parsed, files, symbols, clock, definition, type>>

ToParse == {f \in Files : text[f] # Empty}
Parsed == {parsed[i] : i \in DOMAIN parsed}

\* a worker of the parallel stream ends indexInto(file)
ParseFile(file) ==
    /\ phase = "starting" /\ unread = {}
    /\ file \in ToParse \ Parsed
    /\ parsed' = Append(parsed, file)
    /\ UNCHANGED <<phase, unread, text, files, symbols, clock, definition, type>>

\* Mutant: the skipped empty files are waited for.
EveryFileParsed == Parsed = Files

StreamEnded == Parsed = ToParse

CanCollect == phase = "starting" /\ unread = {} /\ StreamEnded

\* the rest of indexAll and index, when the stream has ended
Collect ==
    LET block(f) == [file |-> f, at |-> EncounterOrder(parsed, f), text |-> text[f]]
        collected == {block(f) : f \in ToParse}
    IN  /\ CanCollect
        /\ phase' = "serving"
        /\ files' = ToParse
        /\ symbols' = collected
        /\ clock' = NumFiles
        /\ ResolveAll(collected, << >>)
        /\ parsed' = << >>
        /\ UNCHANGED <<unread, text>>

\* Mutant: the new symbols take the place of the old ones in the lists.
ReindexedInPlace(file, content) ==
    {IF b.file = file THEN [b EXCEPT !.text = content] ELSE b : b \in symbols}

\* What the collection is once the file has been indexed again.
Reindexed(file, content) ==
    AddAll(RemoveSymbolsOfFile(symbols, file),
           [file |-> file, at |-> clock + 1, text |-> content])

\* reparse: called with a file of the index only
Reparse(file, content) ==
    /\ phase = "serving" /\ file \in files
    /\ clock < NumFiles + MaxReparses
    /\ text' = [text EXCEPT ![file] = content]
    /\ clock' = clock + 1
    /\ symbols' = Reindexed(file, content)
    /\ ResolveAll(Reindexed(file, content), type)
    /\ UNCHANGED <<phase, unread, parsed, files>>

Next ==
    \/ ReadFile
    \/ ScanFails
    \/ \E file \in Files : ParseFile(file)
    \/ Collect
    \/ \E file \in files, content \in Texts : Reparse(file, content)

Spec == Init /\ [][Next]_vars

\* The startup goes on by itself: one thread runs it, and the parallel stream
\* gives every file to a worker.  What the editor sends is its own choice.
\* (Collect can be taken exactly when CanCollect holds: its weak fairness is
\* written out, so that TLC need not resolve a project to know it is enabled.)
Fairness ==
    /\ WF_vars(ReadFile)
    /\ WF_vars(\E file \in Files : ParseFile(file))
    /\ <>[]CanCollect => []<><<Collect>>_vars

LiveSpec == Spec /\ Fairness

-----------------------------------------------------------------------------
Blocks == [file : Files, at : 1..(NumFiles + MaxReparses), text : Texts]

\* Type correctness: every field of the workspace has a value its Java
\* declaration and the code that assigns it allow: no file is in the list until
\* the startup is over, and each symbol in the collection that has a definition
\* or a type field has a value there.
TypeOK ==
    /\ phase \in {"starting", "serving", "failed"}
    /\ unread \subseteq Files
    /\ text \in [Files -> Texts]
    /\ parsed \in Seq(Files)
    /\ files \subseteq Files
    /\ phase # "serving" => files = {}
    /\ symbols \subseteq Blocks
    /\ clock \in 0..(NumFiles + MaxReparses)
    /\ phase = "serving" => clock >= NumFiles
    /\ DOMAIN definition = References(symbols)
    /\ DOMAIN type = Typed(symbols)

\* The collection holds what the present content of every indexed file
\* declares, once, and nothing else: no symbol of an old version survives
\* a reparse, none is lost, none is there twice.
CollectionIsCurrent ==
    phase = "serving" =>
      /\ \A f \in files : \E b \in symbols : b.file = f
      /\ \A b \in symbols : b.file \in files /\ b.text = text[b.file]
      /\ \A b, c \in symbols : b.file = c.file \/ b.at = c.at => b = c

\* A definition is never an object that a reparse has taken out of the
\* collection: `textDocument/definition` in any file answers with a place in
\* the present version of the file it leads to, not in an old one.
NoDanglingDefinition ==
    \A o \in DOMAIN definition : definition[o] \in Objects(symbols) \cup {NONE}

\* What a server started on these contents, a function from files to texts, has
\* after indexing.
FreshBlock(contents, f) == [file |-> f, at |-> f, text |-> contents[f]]
FreshSymbols(contents) == {FreshBlock(contents, f) : f \in DOMAIN contents}
FreshDefinitions(contents) ==
    Definitions(FreshSymbols(contents), TypesBefore(FreshSymbols(contents), << >>))
FreshTypes(contents) ==
    ResolvedTypes(FreshSymbols(contents), TypesBefore(FreshSymbols(contents), << >>))

Contents == [f \in files |-> text[f]]

\* Places in the present contents identify objects of different runs.
Place(o) == IF o = NONE THEN NONE ELSE <<o[1].file, o[2]>>
Links(definitions) == {<<Place(o), Place(definitions[o])>> : o \in DOMAIN definitions}
TypesAt(types, objects) == {<<Place(o), types[o]>> : o \in objects}

\* No name is declared by two files, so that no lookup depends on the order of
\* the blocks.
UniqueNames == \A b, c \in symbols : b = c \/ Exported(b) \cap Exported(c) = {}

\* Whatever edits led here, every reference of every file is linked as in an
\* index built from nothing on the present contents: resolving again after
\* each reparse forgets the past.
DefinitionsAreFresh ==
    phase = "serving" /\ UniqueNames => Links(definition) = Links(FreshDefinitions(Contents))

\* The same for the types of the locals, which the resolver assigns in place
\* and reads while it assigns them.
LocalTypesAreFresh ==
    phase = "serving" /\ UniqueNames =>
      TypesAt(type, OfKind(symbols, "local")) =
        TypesAt(FreshTypes(Contents), OfKind(FreshSymbols(Contents), "local"))

\* A usage has the type of its definition, unless the definition has lost its
\* type to the edit of another file: VarUsageTypePropagator leaves the usage
\* alone then.
UsageTypesFollowDefinitions ==
    \A o \in OfKind(symbols, "usage") :
      DefinitionType(type, o) # NONE => type[o] = DefinitionType(type, o)

\* "a usage takes its definition's type": the name of the only test of
\* VarUsageTypePropagator, which covers startup.
UsageTakesItsDefinitionType ==
    \A o \in OfKind(symbols, "usage") : type[o] = DefinitionType(type, o)

\* When several files declare a name, the first in path order is the one that
\* counts after startup, however the parallel workers were scheduled.
StartupIsDeterministic ==
    phase = "serving" /\ clock = NumFiles =>
      /\ symbols = FreshSymbols(Contents)
      /\ definition = FreshDefinitions(Contents)
      /\ type = Propagated(FreshTypes(Contents))

\* Editing a file never makes its declarations win over those of a file that
\* was not edited: a class or function reference keeps its definition while
\* this is in a file other than the one that is parsed again.
NoStolenDefinition ==
    [][\A o \in DOMAIN definition \cap DOMAIN definition' :
         /\ Sym(o).kind \in {"classReference", "functionCall"}
         /\ definition[o] # NONE
         /\ definition[o] \in Objects(symbols')
         => definition'[o] = definition[o]]_vars

\* A reference by name is linked to the first declaration of the name in the
\* collection as it is now, not as it was when the reference was parsed.
LinkedByName ==
    \A o \in DOMAIN definition :
      /\ Sym(o).kind = "classReference" =>
           definition[o] = Get(Index(symbols).classes, Sym(o).name)
      /\ Sym(o).kind = "functionCall" =>
           definition[o] = Get(Index(symbols).functions, Sym(o).name)

\* The inductive invariant: until the workspace serves it is empty, and what is
\* appended comes after everything that is there.
NothingBeforeServing ==
    phase # "serving" =>
      files = {} /\ symbols = {} /\ clock = 0 /\ definition = << >> /\ type = << >>
AppendedBeforeNow == \A b \in symbols : b.at <= clock

IndInv ==
    /\ TypeOK
    /\ NothingBeforeServing
    /\ AppendedBeforeNow
    /\ CollectionIsCurrent
    /\ NoDanglingDefinition
    /\ LinkedByName
    /\ UsageTypesFollowDefinitions

\* The startup ends: the server comes to serve, or fails to read a file.
StartupEnds == <>(phase \in {"serving", "failed"})
=============================================================================
