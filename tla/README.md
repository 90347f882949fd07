# Verification of the Small Scheme Compiler

TLA+ modules, TLC configurations and TLAPS proofs for the compiler under
`src/cxxp1`: a front end for Scheme in C++ that reads bytes, decodes UTF-8,
splits them into tokens, builds data ("syntax"), expands a macro hygienically,
compiles to a small AST and prints code for it.

The program is one thread without shared state. What makes it hard to test is
elsewhere: buffers that are refilled at the worst moment, a symbol table that
answers for scopes long after they were captured, marks that must cancel over
nested expansions, error recovery that has to end, and lists of things that are
put off and done later. The models are about these. There are no crashes,
messages or timeouts in this program, and none in the models; failures are
short reads, read errors and wrong texts.

Paths below leave out `src/cxxp1/src/smalls/` and `src/cxxp1/include/p1/smalls/`
where the file name is enough.

## 1. Inventory

Data flows in one direction. The driver (`test/scheme-play.cpp`) makes the parts and
calls them in order; each calls the one before it for its input:

    file -> BufferedInput -> UTF8StreamDecoder -> Lexer -> SyntaxReader -> SchemeParser -> SimpleCodeGen
                                                    |           |               |
                                            StringCollector  ListBuilder   SymbolTable, Scope, Binding
                                                    \---------- Symbol --------/

| Component | State | Operations | What is hard, and what makes it correct |
|---|---|---|---|
| Buffered input (`util/FastInput.hpp`, `FastFileInput`, `FastStdioInput`) | `m_buf`, `m_head`, `m_tail`, `m_bufOffset` | get, peek, read, slowRead, advance, fillBuffer, unget | Refills move unread data and room for put-back elements; short reads and errors in the middle. Every element once, in order, at its offset; room for `unget`. |
| UTF-8 decoder (`util/utf-8.*`) | position in the input's buffer, output buffer, `m_tail` | doRead, decodeBuffer, encodeUTF8 | Characters across both buffers' ends; validity tested on several bytes at once. The characters are those of the whole text; each ill-formed one is reported once. |
| Lexer (`parser/Lexer.cpp`) | one character, token value, `m_strBuf`, coordinates | nextToken and its scanners | Escapes, numbers, nested comments, errors inside tokens. |
| String collector (`parser/StringCollector.*`) | static or heap buffer, size, length | append, appendUTF8, reset, growBuffer, createGCString | The buffer itself may become the string. Strings never change; no write outside the buffer; nothing freed that was handed out. |
| Syntax reader (`parser/SyntaxReader.*`, `ListBuilder.*`) | one token, recursion with sets of terminators | parseDatum, read, list, vector, abbrev | Error recovery at terminators of outer lists, datum comments in every place. A right text is read as what it stands for, a wrong one reported, reading ends. |
| Symbol table (`parser/SymbolTable.*`) | `m_map`, `m_markMap`, per-symbol chains of bindings, scopes with levels, active flags and lists of bindings | newSymbol (2), nextMarkStamp, newScope, bind, popScope, 3 lookups | A chain is ordered only if scopes nest; lookups compare levels. Symbols are unique; lookups give lexical meaning, for captured scopes too. |
| Syntax, marks (`parser/Syntax.*`) | lazily pushed lists of marks | wrap, concat, wrapSymbol, car/cdr of wrapped syntax | Marks and anti-marks cancel in pairs. |
| Scheme parser (`parser/SchemeParser.*`, `SystemBindings.*`) | Context (scope, frame, deferred definitions), recursion | compileLibraryBody and one function per form, the macro `or` | Deferred definitions, scopes popped on every way out, hygiene. The AST is the one the text means. |
| AST and frames (`ast/*`) | nodes, frames with parents, variables | constructors | Uses reach their variables along the frames. |
| Code generator (`codegen/SimpleCodeGen.*`, with `projects/scm-rt/smalls.inc`) | functions made, names made per function, addresses of variables | generate and one function per node | Values are C expressions, read later than they are made; one set of registers for all calls; static links. The C program does what the AST means. |
| Lists (`adt/LinkedList.hpp`, `CircularList.hpp`) | links in the items, both ends or a root in the list | push, insert, remove, append, copy, iterate | Pointer surgery at the ends; copies share their items. Iterating visits what was put in, from both ends. |
| Keywords, coordinates, error reporters, utilities, memory-mapped input, driver, benchmarks, vendored casts | little or none | | see "Not modelled" |

Interaction is by call. Three interactions carry state across components and
are where the compositions below look: the decoder works in the buffer of its
input and advances it only when it is done; the reader leaves a token to its
callers, which are other activations of itself; the parser opens and pops
scopes of the symbol table and macros look names up in scopes captured earlier.
A fourth is between the code generator and its output: what it does is right only
as far as the C program, run later, is.

`PROJECT.json` lists the hazards at their lines, with the properties that would
catch each.

## 2. Modules

| Module | Models | Kind |
|---|---|---|
| `LexicalEnv` | what a symbol table promises: a stack of scopes | abstract |
| `SymbolTable` | `SymbolTable`, `Scope`, `Symbol`, `Binding` | detailed |
| `SymbolTableRefinement` | mapping `SymbolTable` to `LexicalEnv` | refinement |
| `InputStream` | what an input promises: the rest of the text, an offset | abstract |
| `BufferedInput` | `FastInput`, `BufferedInput`, the `doRead`s | detailed, refines `InputStream` |
| `UnicodeText` | the Unicode definition of UTF-8 and of where ill-formed text is split | reference |
| `UTF8Decoder` | `UTF8StreamDecoder` over a filling input, `encodeUTF8` | detailed |
| `StringBuilder` | what a collector of strings promises | abstract |
| `StringCollector` | `detail::StringCollector` | detailed, refines `StringBuilder` |
| `LexicalGrammar` | the lexical syntax: lexemes as sets of texts, longest first | reference |
| `Lexer`, `LexerText` | `Lexer` with every scanner; its text properties | detailed |
| `DatumGrammar` | the grammar of data, as sets of readings | reference |
| `SyntaxReader`, `SyntaxReaderText` | `SyntaxReader` with `ListBuilder` and the driver's loop; its text properties | detailed |
| `SchemeParser` | `SchemeParser`, marks, frames, over `LexicalEnv` | detailed, composes |
| `HygienicParser` | the parser with a macro that cannot capture a name, without marks | abstract |
| `SchemeParserRefinement` | mapping `SchemeParser` to `HygienicParser` | refinement |
| `SchemeParserInvariants` | what is invariant of `SchemeParser`, and what its proofs speak of | invariants |
| `HygienicCompiler` | a compiler with environments in place of marks and tables | reference |
| `SchemeParserHygiene` | `SchemeParser` against `HygienicCompiler` | composition |
| `SimpleCodeGen` | `SimpleCodeGen`, as operators from the AST to C statements | detailed |
| `SchemeMeaning` | what an AST means: an evaluator with environments | reference |
| `CompiledProgram` | the C program at work, a statement at a time, with the runtime's procedures | composition |
| `ListContents` | what lists promise: sequences of items, each item in one place | abstract |
| `LinkedList`, `CircularList` | the two lists of `adt/`, every operation | detailed |
| `Lists` | either list at work on items and lists of its own | composes |
| `SymbolTableProofs`, `BufferedInputProofs`, `UTF8DecoderProofs`, `StringCollectorProofs`, `SyntaxReaderProofs`, `LexerProofs`, `SchemeParserProofs`, `ListsProofs` | theorems | proofs |
| `MC*` | sources and bounds for TLC | instances |

`SchemeParser` uses the symbol table through `LexicalEnv`, which `SymbolTable`
implements (the run `symbol_table`, and for every bound `SymbolTableProofs`): a level of
detail is checked once and not carried into every state of the parser.

### How state and actions correspond to the code

* **SymbolTable.** Symbols, scopes and bindings are numbered as they are allocated
  (`uid` is the code's `m_uid`). `chain[x]` is the list from `Symbol::m_top` along
  `m_prev`, the top last; `bindingList[s]` is `m_bindingList`. One action per method
  that changes state; `PopScope` is `popScope` with all of `popBindings`. The three
  lookups are operators. `bind` may be called for any scope; its callers use
  the innermost, and `BindsInnermost`, a part of `ScopesMatchPops` of the parser's model,
  checks that they do.
* **BufferedInput.** `head`, `tail` are indices for `m_head`, `m_tail`. A fill gets any
  number of elements up to the free space: a short read of a terminal, an end of
  file or, as `FillBuffer`, a read that failed after storing part. `slowRead` is a
  step per fill, so that every fill's outcome is chosen on its own. `debt` is the
  reader's, not the code's: it counts elements put back, for the contract of `unget`.
* **UTF8Decoder.** One character per step of `decodeBuffer`. Bit tests are written as
  divisions. The small array of the slow path is padded with 0xFF; what lies behind
  it on the stack is a nondeterministic choice from `StackByte`, because a long
  lead byte makes the code read it.
* **StringCollector.** `memory` is all memory ever allocated, `m_buf` an index into
  it; new memory holds `Junk`. A string made is a place in that memory, so writing
  to a buffer that was handed over would show.
* **Lexer.** A character of each class the code tells apart, named by a string. `scan`
  is the function at work; an action is its choice or a round of its loop, and
  `scanNumber` is a few stages with its variables in `num`. The recursion of
  `scanNestedComment` into `nextToken` is `level`: within it tokens and errors go
  nowhere. `strBuf` is `m_strBuf`, never emptied where the code does not. The spelling
  handed to `strtod` stands for its result.
* **SyntaxReader.** The C++ recursion is the variable `stack`; `mode` says whether the
  last activation has called `read`, gets a value, is in its own loop, or skips
  to a terminator. Tokens are their kinds. `abort` is a failed assertion.
* **SchemeParser.** The recursion is `todo`, what the active functions still have to
  do. An action is a function or a round of its loop, including every error path;
  the nodes of the AST are appended to `out` behind their parts. A symbol is its
  name and its marks, which `Interned` justifies. The list that `recordDefine` builds of
  `m_bindBegin`, the expressions before a definition and `m_unspec` is the sequence of
  these expressions, `Begin`. What the macro makes is a parameter of the two actions that
  use it (`FormUse`, `ExpressionUse`); all others are `CoreNext`. `HygienicParser` has the same
  `CoreNext` and another macro: its expansion holds the bindings of `let`, `if` and `or`
  where the code's holds their names, and a symbol with the stamp of the expansion
  where the code's holds `tmp`. Nothing is marked in it.
* **SimpleCodeGen.** The generator is a function of the AST and its model a recursive
  operator: `s` is what the C++ object and the nodes hold (`m_funcs`, the names made,
  the addresses), `s.e` what the function returned. Text becomes statements as records:
  names are numbers per function, as `nextTmp` makes them. A variable, an if and a call
  give an expression and not a value, as in the code, so that when it is read is up
  to where its user puts it. **CompiledProgram** runs the statements: an action per kind.
  A temporary holds junk before its first assignment, blocks of `GC_MALLOC` zeros;
  pointers and integers are told apart, so that following a wrong one is `Fault`.
  Calls do not look at `pcount` and `plist`, because the code does not.
* **LinkedList, CircularList.** `prev` and `next` are the links in the items; in
  `CircularList` a list object stands for its `m_root`. An action is a call. `contents` is
  what the calls are meant to do. A removed or appended item is somewhere else at the
  next call. The original of a copy that is not empty is given up: what two lists with
  the same items should promise, nothing says, and the compiler makes no such copy. Of
  all this the compiler uses `+=`, `empty`, iteration, `first` and `next`; the rest is
  modelled as it is written.

Operators marked *Faulty* are not part of any model. Each is what a plausible slip
would make of the definition behind it, and each property is shown to notice one
(`PROJECT.json`, "mutants").

## 3. Runs

All bounds are in the `.cfg` files and the `MC` modules.

| Run | Question | Bounds, and why they are enough |
|---|---|---|
| `symbol_table` | Do chains, levels and flags implement a stack of scopes; do lookups agree with it; are captured scopes stable? | 2 names, 3 symbols, 4 scopes, 4 bindings, 1 mark: two symbols of one name next to a marked one, scopes popped and reopened at the same level, three bindings of one symbol. |
| `buffered_input` | Does any interleaving of reads, refills and put-backs keep the stream? | Buffer of 5 with 2 kept for `unget`, sources up to 5 elements, all distinct: several refills, partial moves, reads larger than the buffer. |
| `utf8_decoder` | Are the characters those of the whole text wherever buffers end? | Texts of up to three pieces, each a character at a limit of its range or one kind of ill-formed sequence; input buffers of 4 and 6 bytes, 2 characters of output per call: every piece meets every end. |
| `string_collector` | Do strings stay what they were, do writes stay inside? | Static buffer of 2, an encoding room of 3, pieces up to 5 (longer than twice the buffer), up to 3 allocations: growth, hand-over and re-use follow each other. |
| `lexer` | Is every right text read as its longest lexemes, with values and coordinates, every other reported; does it end? | 9,000 texts in four families: signs, prefixes, digits, points and exponents in combination; strings and characters of two pieces, escapes complete and cut short, line ends of all kinds; names and punctuation of two or three pieces; comments of up to three pieces inside `/*`. Integers have 10 bits, so that some overflow. |
| `lexer_escape` | Is a name that begins with an escape read as it is written? | Violated; see section 5. |
| `syntax_reader` | Is every text of the grammar read right, every other reported; does reading end? | All sequences of up to 6 tokens of the kinds that interact (parens, dot, datum comment, invalid), and up to 5 tokens of all kinds with matching brackets, and lists and vectors of up to four data, commented data, dots and empty lists. |
| `scheme_parser` | Is the AST the one of a compiler without macros; is each step one of a parser whose macro captures nothing; are wrong forms reported; is the tree whole? | Bodies of one or two forms. The names they define, bind and use are the ones the macro uses (`tmp`, `if`, `let`, `or`), in every kind of form, right and wrong. |
| `code_generator` | Does the C program display and return what the AST means, apart from the statements that make no code; does what the generator supports compile, never follow a wrong pointer, and end? | Some 640 programs. 525 are a library with a variable, a procedure with two parameters and a variable of its own, and two calls: five values for the variable, each of 35 bodies (arithmetic on variables of three frames, closures called in place, nested ifs with and without else, output in the middle, recursion whose arguments are calls) and three lists of arguments. The others are written out: `fact.scm` and a part of `test1.scm` of the repository, procedures that return procedures, mutual recursion, empty bodies, every procedure of the runtime, and one for each thing that cannot be compiled or goes wrong. 88 have, in a procedure and in the library, a `set!`, `let`, `begin` or text whose value is not used, alone and in ifs without else, in front of what would show its effect. 4 registers, so that a call can have too many arguments; 12 calls on the stack, which a program that does not end exceeds: there are no loops. |
| `lists` | Do the links agree with the contents after any calls; do the assertions on links hold? | 4 items, 3 lists: an item before, between and behind others, the insertion next to either end, appending of several to several, and a third list that must not notice. The number of calls is not bounded. Both builds of `CircularList`, with and without `NDEBUG`. |
| `reader_skips_invalid`, `reader_abbreviation` | Does the code do what a comment or an assertion says? | Violated; see section 5. |

Inputs left out of the passing runs, on purpose:

* `syntax_reader` leaves out texts that the violated runs are about: brackets of
  another kind at hand in an inner list (reading does not end), a dot inside a
  vector (likewise), and a datum comment directly behind another's `#;`.
* `lexer` leaves out names that begin with an escape where the collector holds
  something (`lexer_escape`), a quote directly behind an escaped line end (section 5),
  and character constants in comments. Missing digits of an exponent (`1e`) are
  right in `LexicalGrammar`, because the code takes them.
* `scheme_parser` leaves out bodies that redefine `or`, `begin` or `define` after they
  used them: the forms before are classified under the old meaning
  (`SchemeParser.cpp:202`), which the language leaves open.
* `code_generator` has all its programs in the run. A `set!`, `let` or `begin` whose value is not
  used makes no code, and the program compiles (section 5): `RunsAsMeant` says that it does what is
  meant *without* these, which is what `kept` leaves of the program, and not what its source
  says. It says nothing of a program that the reference calls wrong (a call with another number of
  arguments, a variable read before its definition, which may be one that a dropped `set!`
  would have set). `RunsSafely` says nothing of
  programs with values that the generator writes as `?KIND`, with
  reals, with more arguments than registers, and with an if without else whose value is
  a variable of an outer frame (section 5). Most of these programs still fall under the other one.

### Fairness

`FairSpec == Spec /\ WF_vars(Next)` in four modules. The program is sequential:
the lexer, the reader, the decoder and the parser are called and run to their ends, and no
step of theirs waits for anything but a read of the source, which returns. So
whenever a step is possible one is taken, and nothing more is assumed; no
particular step is favoured. `SymbolTable`, `BufferedInput` and `StringCollector`
have no liveness properties, because their steps are calls that nobody has to make.

### Deadlock

Checking is off where the behaviour ends by design: after the end of the input, or
when a bound on what can be allocated is met. It stays on in `code_generator` and `lists`; a program that
has ended stays as it is (`Over`), so a statement that cannot be executed would show.

## 4. Proofs

Proved with TLAPS for every value of the constants.

**SymbolTableProofs** (assumes `Bounds`: the bounds are natural numbers).
`PopNeverFails`: the assertion of `Symbol::pop` holds whenever the innermost scope is
popped. That alone is not inductive: that a scope's bindings are on top needs
the chains to be ordered by scope (`ChainsNested`), every listed binding of an open
scope to be in its chain (`ListsReachable`), and the open scopes to be the ancestors
of `topScope`, one per level (`ScopeStack`). With `TypeOK` these make `IInv`; there is
a lemma per action and conjunct. `ScopesStayNested` states the three, `ScopesNested`, as a
theorem of its own. `CapturedScopesAreStable` is an action property from the same invariant: a step
that touches a chain touches it only above the bindings a captured scope can see.
`SymbolsAreInterned` needs another strengthening, `SymbolsInTables`: each symbol is
found in the table under what it is made of.

`ImplementsLexicalEnv`: the symbol table implements the lexical environment. The
environment has a frame per level, and
`IInv` does not say that every level has a scope: `LevelsOpen` adds that no level
between the outermost scope's and `topScope`'s is without an open one, `Bounded` that
what is allocated is among the identities the environment knows. With them the
environment is described without `CHOOSE` (`EnvShape`): a frame is all the bindings of
its scope's list, and a scope has one frame (`FrameUnique`); there is a lemma per
operation. `LookupsAgreeAlways`: a frame binds a symbol exactly when the symbol's chain has an element of the
frame's level (`BinderInChain`), levels grow along a chain, so the last element not
deeper than a level is the meaning from there (`MeaningInChain`); each of the three
lookups picks such an element.

**BufferedInputProofs** (assumes `BufSizeAssumption`, the constructor's assertion
`m_bufSize > UNGET_LIMIT`, and `SourceAssumption`). `BufferHasRoom`: the assertion of
`unget` never fails for a reader that keeps its contract. `Headroom` is the
strengthening: before the first fill nothing was read, and from then on the
head is at least `UngetLimit` from the start of the buffer, less what is put back.
The other half: `doRead` is never asked for nothing, so an empty result is the
end of the source. `ImplementsInputStream`: the buffered input
implements the stream. The stream is what is unread in the buffer followed by what is left of
the source (`Rest`); a refill, which may move the unread elements and read any
part of what fits, keeps it (`RefillKeepsStream`), taking `n` elements takes its first `n`
(`TakingFromBuffer`), and putting one back puts it in front. `Headroom` is needed again, for
the place of the element that is put back.

**UTF8DecoderProofs** (assumes `SourceAssumption`: the input is bytes;
`WindowAssumption`: the input's buffer holds a whole character, the documented
requirement of `utf-8.hpp`; `OutSizeAssumption`: the reader's has room for one).
`DecodesAlways` and `ReportsAlways`: for every text, wherever the two buffers end, what
is delivered are the characters of `UnicodeText`, and each ill-formed one is reported
once, at its offset. The invariant says that the number of characters
delivered determines the rest: where the input stands (`Position`), what was
delivered (`Delivered`) and what was reported (`Reports`). Three facts carry it. At an ill-formed
sequence the decoder consumes what the definition does, which is decided byte by byte
for each length of character. The fast path stops where a longest character might not
fit in the buffer, so it never needs a byte behind it; the slow path is entered when the rest of
the input is in the buffer (the last line of `Position`), and there the 0xFF of the
padding can continue no character, so what the stack holds makes no difference. And encoding gives back the bytes of every well-formed
character (`EncodedBack`). `UnicodeText` counts characters with a recursive function; `StartOf`
and `CharCount` are characterised by induction over a set of numbers (below).

**StringCollectorProofs** (assumes `PieceAssumption`, `SizeAssumption`: what
`encodeUTF8` writes fits the room that `appendUTF8` asks for). `ImplementsStringBuilder`:
the collector implements the abstract builder. The invariant: strings lie in memory of
their own (`Owned`), and the static buffer keeps the size that `createGCString` puts
back (`StaticKept`). A write keeps the front of the buffer (`WriteProperties`), so the
text becomes the text and the piece (`WriteAdds`); a string made is the text
(`OneMoreString`), and memory not in use never changes (`StringsKept`).
`NeverFreesStrings` and `TypeCorrect` follow from the invariant.

**SyntaxReaderProofs** (assumes `SourceAssumption`, `BoundsAssumption`).
`SyntaxReaderInvariant` and `TypeCorrect`: activations nest as their sets of terminators
do, so skipping always meets one of them or the end of the file.
`DeliversAlways` and `ReportsAlways`: a text of the grammar is read as what it stands for,
any other is reported, whatever its length and nesting. The proof has three parts.

1. The grammar. `DatumGrammar` is a recursive function on parts of a text, and
   `Of(t)` is shown to follow its rules (`OfFollows`): two functions that
   agree on the parts up to a length agree on the next length (`RuleAgrees`), so one that follows
   the rules up to any length exists (`FollowsExist`). From then on the grammar is
   its rules, turned round to take the *first* element of a part (`ItemsByElement`, `CarsByElement`,
   `SingleByElement`), because that is what a reader without lookahead sees.
2. What may still be left. `ListFrom`, `CdrFrom`, `VectorFrom` and `TextFrom` are what an
   activation that has kept some items can return from a position on; one equation
   for each says what reading one more element makes of it (`ListReads`, `CdrReads`,
   `VectorReads`, `TextReads`). `Possible` composes them along the stack of
   activations: what the last may return is what the one before it goes on with.
3. The steps. `ReadingInv`: without an error so far, the readings of the text are exactly what
   is `Possible`; with one, there are none. A step that reports does so where nothing is
   possible any more, every other step keeps what is possible; there is a lemma per action. At the
   end one result is possible, the one that was returned.

The two theorems are about texts that are `Plain`: no datum comment directly behind the
`#;` of another, which the reader takes otherwise than its comment says (section 5), and no longer
than `MaxItems`, so that the bound of the model is never met. The run's
texts are `Plain`. Texts with abbreviations are among them; of those the properties say nothing,
because the program aborts.

**SchemeParserProofs** (assumes `SyntaxAssumption`: what the reader delivers is built of
symbols, pairs and values, without marks). The recursion of the parser is a list of
things to do, so the invariant is about that list. It says that all syntax in it is
well formed, that frames are inside frames made before them, and that the list is
`Schedulable`: walking along it, each scope to be popped is the innermost one open at that point, and what binds or
uses a name does so in a scope open at that point. `ScopesPopped`, `VariablesReached` and
`TypeCorrect` follow. `TreeIsWhole` needs numbers: a thing to do takes `Need` nodes that are
not yet parts of others and leaves `Leaves`. `TreeInv` says that the nodes made are
`Trees` of which exactly as many are free as the list (`Balanced`) takes before it leaves one.
Every action, the ones on the ways out with an error too, keeps that.

`MarksCancelAlways`, in the same module: whatever
the nesting of macro uses, a symbol that is looked up or bound has no mark left, or
just the one of the expansion that made it. Marks are pushed into syntax lazily, so the
invariant, `MarksInv`, is about the shape of syntax wherever it is kept: as it was read
(`IsUser`), or the output of an expansion made before, or the part of one that the parser has
reached (`IsLet`, `IsIf`, `IsOr`, `IsBody`, `IsInits`, `IsTmp`), which has that expansion's mark
around the macro's own words and around arguments behind the anti-mark. What makes the
marks cancel is that the arguments are the program's even when the use of `or` is one that the
macro made (`IsUse`): they lose the mark of one expansion before they are the input of the
next, so no symbol gets a second mark. And of the scopes it takes `KeysOK`: a bound
name with a stamp is spelled `tmp`, so the macro's `let`, `if` and `or` always mean the system's.

`MacrosAreHygienic`: the parser implements `HygienicParser`. The mapping takes the
marks for what they mean, which is decided by the shape of syntax alone, however deep the uses
of the macro nest. Marked syntax is what `OrExpansion` builds or a part of it, so it
is one of a few forms (`CleanLet`, `CleanIf`, `CleanOr`, the lists of a body and of inits, the symbol
`tmp`), each around arguments of the macro that have no mark left (`CleanForm`,
`CleanUser`); unmarked syntax stays as it is. The invariants are the two above, `IInv`
for the scopes and `MarksInv` for the shapes; they are in `SchemeParserInvariants`. The proof has three parts.

1. What is looked up. The marked head of a form is looked up in the macro's scope, so it is
   the system's word or macro (`HeadOfExpr`) that `HygienicParser` writes as a binding; a marked `tmp`
   and the symbol `Own` are one in the table, to bind and to look up (`CleanName`, `LookupByName`).
2. What is taken apart. The mapping commutes with the parser's use of the parts of each form
   (`CleanIfParts`, `CleanBodyItems`, `CleanInits1`) and with the lists of things that it keeps
   (`CleanItemsJoin`, `CleanDefinitionItems`).
3. The steps: a lemma per action (`FormMacroClean` to `LetBodyClean`). A step that expands gives
   what `Renamed` gives; every other step is the same action of `HygienicParser`, with the
   same nodes, errors, scopes and variables.

So for every body, whatever it binds the names `let`, `if`, `or` and `tmp` to, before, after and
around uses of the macro, what the program means by its names is not touched by the expansion, nor the
other way round. That `HygienicParser`, a parser, gives the AST of the compiler with environments is what
`Hygienic` adds, and stays with TLC.

**LexerProofs** (assumes `SourceAssumption`: texts are made of characters that have a code
point; `CodeAssumption`: hexadecimal digits have their codes in ASCII and the end of the file is
no character). What a position is, is said by the text alone: `Place(text)` are the
records with the line, the start of the line and the character that belong to an
offset, where CR LF ends one line and no offset is between the two. `nextChar` leads from
each place to a later one (`NextCharPlace`); from a place the loops lead to places
(`WhileMeets`, `SkipPlace`), because no set they look for has a line end in it, and so do escapes
and numbers (`ScanSingleCharacter`, `ScanUIntNumber`). `PositionIsCounted` says that
the lexer is at such a place after every step, and `TokensAreInOrder` that every token has
the coordinates of a character that may start one and that later tokens have later coordinates, in wrong
texts too, where the text properties of the run say only that an error is reported. Coordinates of
tokens are in order because they are those of places, and a later place has a later line or the same line
and a later column (`LaterPlace`). The invariant `IInv` needs to know where the token at hand
started: behind the last one delivered, and before the current character
(`Behind`). The exceptions are a name that begins with an escape and a number that begins with a
digit: their scanners read the first character again (`AtStart`), and get past it in their
first round. With places the types follow (`TypeCorrect`); that m_strBuf holds numbers rests on
the values of digits (`DigitsNumber`). `IInv` was checked with TLC on the texts of the run
before it was proved.

**ListsProofs** (assumes `PointerAssumption`: items, lists and the null
pointer differ). For any number of items and lists, of each kind of list: `IterationIsContents` and
`RingsAreContents`, that iterating from either end visits the contents and ends;
`ConstructorAssertionHolds` and `EntryAssertionHolds`, that an item in no list may be inserted
in a debug build; `ListsInvariant`, `ContentsAreAlwaysIterated` and `AssertionsAlwaysHold`, the
same for `Lists`, where both are at work. The links say nothing of what is not reached from a list, so the
invariants add that no item is twice
in the contents (`Apart`), that what is in no list is unlinked, and that lists given up
are empty. A circular list is a ring through its root, and a linked list one through the null
pointer if both ends are counted as its links, so one set of lemmas on `Ring` serves both:
what is where after an insertion (`Insert`) and a removal (`Without`), and that rings
apart from the change are kept.

**Induction.** The library's induction theorems take an operator, which the provers cannot
instantiate. `Induction` (in four of the modules) is about a *set* of numbers, from the
well-foundedness of `<`; the claim goes into a set of the numbers it holds for. So
recursive functions on numbers, and on parts of a text by their length, can be
reasoned about, and induction over trees is done with sets closed under the parts (`IsUser`).

**Only model-checked.** Liveness (fairness and `ENABLED` are out of the prover's reach);
`Hygienic` and `ReportsWrongText` of the parser, whose reference `HygienicCompiler` is written with
recursive operators; the code generator, for the same reason (`SimpleCodeGen` and
`SchemeMeaning`); and of `Lexer` the text properties against `LexicalGrammar`, a set of
texts found by enumeration.

## 5. Where the code disagrees with what it says

Each of the first three is a run that TLC finds violated.

1. `SyntaxReader.cpp:114` says invalid tokens are skipped. One that terminates an
   enclosing list is not: with `( [ )` the inner list reads nil at it for ever and
   reports errors without end (`reader_skips_invalid`).
2. `SyntaxReader.cpp:244` builds a `SyntaxValue` from a `Symbol *`; the constructor for
   `bool` takes it and its assertion fails: every abbreviation aborts
   (`reader_abbreviation`).
3. `Lexer.cpp:803` says an identifier may start with an escape. It does not start
   empty then: `Lexer.cpp:427` leaves in `m_strBuf` what was there, and `1 \u00E1` is
   read as the number 1 and the name `1` (`lexer_escape`).

Noticed, without a run of their own.

* Of the decoder: `utf-8.hpp:45-47` documents `outOffset()` as the offset of the next
  character to be written, but `utf-8.cpp:90` reports errors with an older one.
  `utf-8.hpp:58` promises three valid bytes behind the end `decodeBuffer` is given,
  which the slow path's array does not have when it holds a lead byte of a long
  character (the model's `StackByte`; the outcome does not depend on it).
* Of the lexer: a `"` right behind an escaped line end is taken for a character of the
  string, because `Lexer.cpp:661` loops past the test for it. In base 16 control characters
  from 0x10 on are digits (`Lexer.cpp:195`). `\777` is a byte modulo 256, a NUL ends a name
  or string, `1e` is a number.
* Of the reader: `SyntaxReader.cpp:104` says a datum comment ignores the next datum; of
  `#; #; a b` only `a` is ignored. A `#;` alone at the end of a file is ignored without a
  report. A datum comment before the dot, or before the `)` behind a dotted tail, is
  reported as an error.
  `#(a . b)` does not end, like 1. The driver passes a temporary `Keywords` to a reader that
  keeps a reference (`scheme-play.cpp:68`). `SyntaxVector`'s constructor initialises its
  base's coordinates from its own unset member (`Syntax.hpp:263`).
* Of the parser: behind a reported error in a `let`, the value of an init that is no
  identifier stays without a variable (`SchemeParser.cpp:754`), though the AST's printing
  (`SchemeAST.cpp:191`) takes for granted that there are as many of one as of the other.
* Of the code generator: without an else, the value of an if is the expression of its
  then-part, which is used behind the label on both ways (`SimpleCodeGen.cpp:310`); if it
  reads a variable of an outer frame, the pointer to that frame was set on one way
  only and the program follows an uninitialised one. `set!`, `let` and `begin` make no
  code: as values they are `?KIND`, which C rejects, as statements they disappear
  and the program compiles: `(define x 1) (set! x 2) x` returns 1, and `test1.scm` of the repository
  has such statements. The top level's expressions before a definition are such a `begin`
  (`SchemeParser.cpp:241`). Of more than 31 arguments the last ones name registers that
  are not declared. The number of arguments is not compared with that of the parameters, and
  the cell of a list parameter is never filled (the FIXMEs at 230 and 296). Reals
  can be tested but not stored. `module_init` returns its last value without a cast
  (`SimpleCodeGen.cpp:102`), which newer C compilers reject where that is a number. `0` is false, because 0 and `#f` are one word.
* The values of variables are read where they are used (`SimpleCodeGen.cpp:187`), behind
  calls that come between. That is right as long as only definitions write to cells: with
  code for `set!` it would not be.

## 6. Not modelled

* **Of the lexer**: characters that no class stands for (control characters as
  hexadecimal digits), overflow of reals, wording and coordinates of errors.
* **Keywords**: a record of symbols. **Memory-mapped input**: system calls; as an input
  it is a buffer that holds the whole source. **Coordinates, error reporters**:
  positions and texts; the models count errors and keep offsets where a property is
  about them. **Utilities, driver**: no state; the driver's loop over data is in
  `SyntaxReader`. **Of the code generator and the runtime**: names, `#line` directives, the
  number of bits of a word (integers do not overflow), 0.0 as a condition. **Accessors of the lists**: where the
  links are in an item. **Vectors in expressions**: fail an assertion marked FIXME. **Named let
  and splitLetParams**: never called.
* Sizes near 2^30 elements, where `m_len*4` and `m_bufSize<<1` wrap, and mark stamps
  near 2^32.

## 7. Plan

Done: every component that keeps state or computes something, with the exceptions of
section 6; proofs for each of them but the code generator, of the symbol table,
buffered input and string collector with the refinement of what they promise, of decoder and syntax
reader with the text they deliver, of the parser with the hygiene of its macro as a
refinement.

Next, most important first:

1. **The tokens of a text.** `LexicalGrammar` by rules instead of an enumeration, and from the places
   of `LexerProofs` to the lexemes between them.
2. **The meaning of bodies.** `HygienicCompiler` as recursive functions, and `HygienicParser`, where
   marks are gone, shown to give its AST.
3. **The whole chain.** `SchemeParser` made to give the AST in the form that
   `SimpleCodeGen` takes, and one reference from bodies to output.

## 8. Running

    tlasany M.tla
    tlc -workers 2 -config X.cfg M        # X, M as in the table of PROJECT.json's "runs"
    tlapm MProofs.tla

The slowest passing run, `scheme_parser`, takes under a minute.
