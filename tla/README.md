# A verification of jopp

jopp is a header-only JSON library for C++: a resumable parser, a resumable
serializer, and the values in between. This directory holds TLA+ modules that
model it, TLC configurations that check the models on small instances, and
proofs, checked by TLAPS, of what holds for every instance.

- [The system](#the-system)
- [The modules](#the-modules)
- [How the models correspond to the code](#how-the-models-correspond-to-the-code)
- [What the runs check](#what-the-runs-check)
- [Bounds](#bounds)
- [Fairness](#fairness)
- [What is proved](#what-is-proved)
- [What the code does that it should not](#what-the-code-does-that-it-should-not)
- [What is not modelled](#what-is-not-modelled)
- [Plan](#plan)

## The system

| Part | Source | State it keeps | Operations |
| --- | --- | --- | --- |
| Parser | `lib/parser.hpp` | `m_current_state`, the stack `m_contexts` of open containers with their pending keys, `m_buffer`, the position, the limit, a reference to the caller's container | `parse(chunk)` |
| Function `parse` | `lib/parser.hpp:439-455` | none (a parser for one call) | `parse(input, max_levels)` |
| Serializer | `lib/serializer.hpp` | the stack `m_contexts` of ranges into the caller's container, `m_string_to_write`, the part of it not yet written | `serialize(buffer)` |
| `to_string`, `json_buffer` | `lib/serializer.hpp:234-304` | none (a serializer for one call) | `to_string(root)` |
| Values | `lib/types.hpp` | `value`, `object` (a `std::map`), `array` (a `std::vector`), `container` | `insert`, `insert_or_assign`, `push_back`, `operator[]`, look-ups, iteration |
| Delimiters | `lib/delimiters.hpp` | none | character classes, `escape`, `unescape`, `wrap_string` |
| Ranges | `lib/utils.hpp` | two iterators into a container of the caller | `pop_element` |
| Demo | `bin/joppdemo.cpp` | a buffer, the last result | reads standard input into a parser, writes a serializer to standard output |

The parser and the serializer do not know each other: they share the value
types and the delimiters. Both are driven by a client that owns the buffers and
calls again as long as it is told to (`more_data_needed`, `buffer_is_full`).
There are no threads. What makes the code hard to test is that every call may
end anywhere, so that all that matters must be in members; that characters are
put back (`--ptr`); that closing a container touches two levels of the stack;
that a result is decided before or after text has reached its buffer; that
results, positions and the caller's container must agree however input and
output were cut; that nothing refuses a call after a final result; that a
serializer keeps iterators into containers that the caller may change between
two calls; and, in the demo, that `read` and `write` may move fewer characters
than they are asked for, or fail. Nothing is persisted, and there are no
timeouts.

What makes each part correct:

- *Parser*: it accepts what the grammar allows and delivers that value, for
  every cut into chunks; position and depth limit are exact; the caller's
  container is touched only by a parse that completes; every call ends.
- *Serializer*: the buffers together hold the document, none is written past
  its end, a full buffer is the only reason to stop in the middle, an element
  that cannot be written leaves no trace.
- *Values*: a container is owned once, and whatever is inserted, appended or
  replaced, nothing is destroyed twice and nothing is left over.
- *Parser and serializer over time*: a parser that is called again keeps what
  it has stored and its limit; a serializer reads nothing that has moved or
  gone unless the caller has moved or destroyed what is being written.
- *One-shot functions*: one call gives what the resumable class gives.
- *Demo*: what is read is what is written, short reads and writes included.

The hazards, each at its line, are in `PROJECT.json`.

## The modules

| Module | What it is |
| --- | --- |
| `Optional`, `Delimiters`, `Types`, `KeyOrder` | the empty optional; `delimiters.hpp`; values and containers of `types.hpp`; the order of the keys of an object |
| `Trees` | what a set of values must have to contain the parts of its members |
| `Parser` | the parser, one action per state of its machine |
| `ParserProps` | its type invariant, invariants and action properties |
| `ParseProtocol` | abstract: what a parser promises the caller who feeds it |
| `ParserProofs` | proofs of `ParserProps` |
| `JsonGrammar` | reference: recursive descent over a whole text |
| `ParserLanguage` | what the parser accepts, compared with `JsonGrammar` |
| `GrammarProofs` | lemmas: `JsonGrammar` followed through a text one character at a time, and what texts read as that are put together |
| `LanguageProofs` | proofs that the parser accepts what `JsonGrammar` reads |
| `JsonText` | reference: all texts of a value |
| `ParserReuse` | a client that calls a parser again after any result |
| `ParseFunction`, `ParseFunctionProps` | the free function `parse`, and what it returns |
| `ReuseProofs` | proofs about the two clients of a parser: the one that calls it again, and the function |
| `Serializer` | the serializer, one action per path through its loop |
| `SerializerProps` | its type invariant, invariants and refinement |
| `WriterProtocol` | abstract: what a serializer promises the caller who empties its buffers |
| `SerializerProofs` | proofs of `SerializerProps`, and that serializer and `to_string` write the document of `JsonLayout` |
| `JsonLayout` | reference: the document of a value, by recursion |
| `SerializerDocuments` | a client that has a container written into buffers |
| `SerializeFunction`, `SerializeFunctionProps` | the two overloads of `to_string`, and what they return |
| `LiveSerializer` | the serializer's iterators over a heap of containers that the caller changes |
| `LiveProofs` | proofs of its properties |
| `Demo` | `joppdemo.cpp`: `Parser` and an instance of `Serializer` inside its two loops, with `read` and `write` |
| `DemoProps` | its properties, for every input |
| `DemoProofs` | proofs of these |
| `Copy` | abstract: what the demo promises whoever puts it into a pipeline |
| `Stacks` | sequences used as stacks |
| `SequenceProofs` | lemmas about stacks, texts put together and taken apart, flattening, escape sequences, the order of keys, and induction over the naturals |
| `MC...` | constants, alphabets, tables of literals and sets of values for TLC |

A definition whose comment starts with *Mutant* is no part of the
specification: it is the following definition (or, for `EndObject`, another
one) changed as a bug would change it. Each property is shown to fail with one
of them in place, so none of them holds for want of behaviours.

The references are recursive functions, so that proofs can use them.
`JsonGrammar` has `Quoted`, the rest of a string from a character on, and
`ReadFrom`, on spots: a value or what is left of a container, from a character
on, with what is known of the containers around it. `JsonLayout` has `Layout`,
on places: a value, the number of containers around it, and whether it is
written pretty. Each looks at all of a text or a value at once, which is what
makes it a reference for a program that never does. `JsonText`, and two helpers
in `MCDemo` and `MCParserReuse`, are `RECURSIVE` operators and used by TLC only.

How they compose: `Demo` extends `Parser` and instantiates `Serializer`, whose
root is the container the parser writes; the clients (`SerializerDocuments`,
`ParserReuse`, the token reader of `MCParserTokens`) and the one-shot functions
add variables and actions around `Next` or `Iteration` and leave these as they
are. `Parser` implements `ParseProtocol`, `Serializer` implements
`WriterProtocol`, and `Demo` implements `Copy`.

## How the models correspond to the code

**Characters** are one-character strings; texts are sequences of them. `"NUL"`
stands for every control code that is neither white space nor has an escape
sequence. `std::from_chars` and `std::to_chars` are the constant `Literals`, a
table of texts and the values they denote. A key order needs codes: the
constant `Code`. An object is a function on its keys; the order in which an
iteration over the `std::map` meets them is `InOrder`: the i-th key is the one
that i - 1 of them are less than.

**Trees.** Containers are values inside values, without addresses. The constant
`Values` is a set of them that has with a container all it holds (`Held`), and
`Height` says how many containers there are above one another in a value. Both
exist because a value is owned by one other at most and is no part of itself;
nothing else is said of them, so that what is proved holds of trees of any
shape and depth.

**Parser.** The `m_...` variables are the members. `ec` is what the last call
returned, `"running"` while one is active and `"not_called"` before the first.
The input is not fixed in advance: a character is chosen when the loop reads
it (`Iteration(ch)`), and the chunk may end before any character
(`EndOfInput`), after which the client may pass another (`Parse`). So all
inputs and all their cuts are covered at once. `text` holds the characters
`ptr` has moved past; `ahead` holds the character that `--ptr` left under
`ptr`, which is the one the next iteration must read; a call cannot end there,
since the code has just read that character from the same chunk. The order of
effects is the code's: the position moves after the switch and only if `ptr`
did, so a result that ends the parse carries the position of its character.
`"undefined"` in place of a result stands for `m_contexts.top()` on an empty
stack: nothing is claimed of what follows.

**Serializer.** `m_range_to_write` is the span of `m_string_to_write` that
waits; the string behind it is not read otherwise. A range of `item_pointer`s
is the sequence of elements left (`range`), and `pop_element` takes its head.
`room` is the size of what is left of `output_buffer`, `out` the concatenation
of all that was written. Each disjunct of `Iteration` is one path through one
turn of the loop; all but `BufferIsFull` begin with `write_buffer`. `serialize`
may be called after any result, as `to_string` for a container does; the
clients of `Next` call again only after `buffer_is_full`, as demo and tests do.

**Calls after a result.** `CallAgain` of `ParserReuse` is `parse` called after
`completed` or an error: the loop goes on from the members as they are. The
history variable `results` records every result that ended a call, with the
character it came at and whether that character had been put back before.

**Containers that change.** `Serializer` takes a range for the elements that
are left, which is right as long as nobody touches the container. In
`LiveSerializer` a context is what it is in the code: `m_ptr` and `m_end` of an
`iterator_enumerator`. Containers are on a heap (`std::unique_ptr` in `value`);
a position in an object is its key, since `std::map` leaves iterators alone,
one in an array is its index. `allocation` counts how often what was at an
address has been destroyed or, for a vector, moved; an iterator that has an
older count dangles. Between calls a client may `Insert` into any object,
`PushBack` to any array (which may or may not move it) and `Replace` any value
(`insert_or_assign`, or assignment through `operator[]`), which destroys all
that the value owns. The text is left out: what is written is a set of
positions, next to the positions that are due. `tampered` is history: a
container that was being written was moved or destroyed.

**Demo.** `pc` is the place in `main`. `Read(n)` moves any number of characters
that are there, `Write(n)` any number of those left in the block. `EAGAIN`
makes both loops go round without a change and is a stuttering step. A failing
`read` hands the parser the old contents of the buffer with a length of -1;
behind the buffer the outcome is `"undefined"`. A failing `write` adds -1 to
the pointer and to what is written. `in_buffer`, `unread` and the like are
reset where their C++ block ends. `main` moves on from the parser to the
serializer when `completed` is returned, so characters behind the document are
never looked at.

**Functions.** `ParseFunction` is one call on a parser, `SerializeFunction` a
loop around a serializer. In both the serializer's or parser's own actions are
reused unchanged.

`PROJECT.json` maps every definition to its lines.

## What the runs check

| Run | Checks | Shows |
| --- | --- | --- |
| `parser_structure` | `TypeOK`, `StateFitsStack`, `WithinMaxLevels`, `UndefinedOnlyOnStrayBracket`, `PositionMatchesText`, `AcceptedExactly`, `PutBackIsConsumed`, `ImplementsProtocol` | on every text over the delimiters, a digit and a newline: state and stack stay in step, limit and position are exact, and a parse completes on exactly the texts `JsonGrammar` reads, with its value |
| `parser_texts` | `AcceptedExactly`, `BufferIsFresh`, `OpenContainersGrow` | the same on every series of nine tokens, long enough for several members and duplicate keys of every kind, and on every string and key of seven characters, escape sequences and raw control codes: nothing stored is lost or replaced, and no text begins with what is left of another |
| `reuse` | `WithinMaxLevels`, `PositionSkipsResults`, `UndefinedNeedsADelivery`, `RootIsLastDelivered`, `OpenContainersGrow` | a parser that goes on after errors reads the text without the characters it refused, and after a `]` that completed a document the one behind a comma; its position is behind by what it refused; errors alone lead it to no empty stack; what it has stored stays |
| `demo` | `ErrorsRepeatCharacters`, `ParsedIsWritable`, `HasLayout`, `ReadsTheDocument`, `OutputReadsBack`, `EveryDocumentIsRead`, `ImplementsCopy`, `EveryRunEnds` | for short reads and writes of any length and failing calls: without a fault a document is read to its last character and a beginning of its layout is written, from left to right, and success means all of it but what `serializer_blocks` shows missing; input that is no document, or starts with a stray bracket, is refused before anything is written, and every input with a document at its start is not; what the parser accepts the serializer can write, and that reads back; every run ends unless `write` fails for ever |
| `live` | `OwnedOnce`, `StackIsAPath`, `UndefinedOnlyIfTampered`, `WritesWhatIsDue` | under every series of changes between calls: containers stay a tree, the contexts a path in it; the only harmful changes are those that move or destroy a container being written; of each container everything is written once that was there, or was added to an object in front of the iterator |
| `function` | `ReturnsDocument` | the function returns exactly on complete documents |
| `serializer` | `TypeOK`, `OnlyTheEndCanBeLost`, `WritesTheDocument`, `ImplementsProtocol`, `EveryDocumentIsWritten` | written text and waiting text are always a beginning of `JsonLayout`'s document and in the end all of it; a bad character ends the output right behind the element before it; only the end of the document can be missing |
| `to_string` | `ReturnsBlocks`, `EveryCallEnds` | exactly which blocks each overload returns, and that both always end |
| `function_limit`, `parser_stray_bracket`, `parser_duplicate_key`, `serializer_blocks` | one each, violated | see [below](#what-the-code-does-that-it-should-not) |

`JsonGrammar` and `JsonLayout` describe JSON, with the departures of the code
written down as such: a `]` in place of a member's value and a dropped
duplicate are recorded as *defects* of the text, so that `AcceptedExactly` can
say what is accepted and the violation runs can say it should not be; commas
after the last element are accepted; a member with an empty key is written
without one.

## Bounds

- `MaxText` (characters) and `MaxTokens` (tokens begun) bound the input, in
  the guards `Reads` and `ReadToken`. Seven characters reach every state of
  the machine, every error, two nested containers with a leaf, and everything
  a put back character can meet; nine tokens reach three containers, or an
  object with three members, and seven characters a string with two escape
  sequences. Where tokens or documents are read, `MaxText` is longer than any
  input. In `reuse` six tokens of any kind are enough for a delivery, what
  comes behind it and two errors, seven of those for members with one key for
  a duplicate in a nested object and what is stored after it.
- `Limits` has zero, one less and one more than the depths the inputs reach,
  and no limit. The default of 1024 levels is 3 in the runs of the function
  and 2 in that of the demo, where trees have up to three levels.
- `BufferSize` is 3 in the demo, in place of 4096: documents take one block
  to several, and end within a block and at its end. `Cuts`: inputs lack up to
  two characters of the document. `MaxErrors`: one failing `read` and one
  failing `write` in a run, at any time; the second one only adds another -1.
- `MaxChanges` is 3 in `live`, with 4 addresses and 3 keys, from four heaps
  with up to three nested containers: enough to change the container written,
  the one around it and the one behind it in any order, and to use an address
  again. `LiveProofs` has no such bounds.
- `ManyRoots`, and `MCTrees` of the demo, have flat containers of a few
  elements of every kind and three nested levels of one or two; keys that are
  empty, one a prefix of another, need escaping, or cannot be written.
- `Sizes` are 0, 1, 2, 5 and one larger than most documents, chosen anew for
  every call; `serializer_blocks` has the 13 of the test. The buffers of
  `to_string` are 1 to 60 instead of 65536 and 4096, so that documents fill
  none, one and many.

No symmetry is used: the characters all have roles.

## Fairness

- `Demo`: weak fairness of `Compute` (a single thread runs on whatever the
  environment does) and of `Transfer` (sooner or later `read` and `write`
  return something other than `EAGAIN`). Standard input is finite. No
  fairness says that errors stop: a `write` that fails each time, with anything
  but `EAGAIN`, leaves more to write each time, and the loop of `main` never
  ends. That is a premise of `EveryRunEnds`, which speaks of the runs on which
  calls of `write` stop failing. TLC cannot follow a `write` that fails for
  ever, since the number of characters grows without end; `MaxErrors` keeps it
  to runs on which the premise holds. A failing `read` needs no premise: its
  chunk never makes the parser ask for more, so at most one is met.
- `SerializerDocuments`: weak fairness of `Iteration` (a call runs to its
  end), strong fairness of passing a buffer that has room: an empty one is
  full at once, so a client that passes only those gets nowhere.
- `SerializeFunction`: weak fairness of the whole: a single thread that runs.

## What is proved

All theorems hold for every alphabet, table of literals, limit, tree and
buffer size, for texts of every length, and for any number of calls, changes
and failures.

### What is assumed

| Assumption | Module | Says | Because |
| --- | --- | --- | --- |
| `NulloptAssumption` | `Optional` | `nullopt` is no text | it is a value of a type of its own |
| `FormatCharsAssumption` | `Delimiters` | the characters of the format are strings | they are literals, which the provers do not know to be strings |
| `LiteralsAssumption` | `Types` | a literal is a text and denotes a value that is neither string nor container, and not `nullopt` | `make_value` |
| `RunsAssumption` | `JsonGrammar` | a literal is not empty and has no white space, quote or delimiter in it | `null`, `true`, `false` and what `std::from_chars` takes whole |
| `CharsAssumption` | `ParserLanguage` | characters are strings | as for `FormatChars` |
| `CodeAssumption` | `KeyOrder` | codes are integers, and different characters have different ones | `char` |
| `ValuesAssumption`, `RootsAssumption` | `Trees`, `SerializerProps` | what a container in `Values` holds is in `Values`, keys and strings are texts, objects are finite; the roots are containers in it | what a tree is |
| `HeightAssumption` | `JsonLayout` | a value is higher than what it holds | no value holds itself |
| `StopAssumption` | `JsonLayout` | the mark of the reference for what cannot be written is no character | it is chosen so |
| `LimitsAssumption`, `MaxTextAssumption` | `Parser` | limits are naturals or none; the bound is a natural | `size_t` |
| `SizesAssumption`, `BufferSizesAssumption`, `BufferSizeAssumption` | `Serializer`, `SerializeFunction`, `Demo` | sizes are naturals, those of the arrays in `to_string` and `main` positive | `std::span`, 65536 and 4096 |
| `ZeroAssumption`, `TextCharsAssumption` | `DemoProps` | NUL is a character; every character of a text has a code | the array of `main` starts as zeros; `char` |
| `LiveAssumption` | `LiveSerializer` | the number of keys is a natural; the heap is a tree of containers before the first call | `std::unique_ptr` |

TLC evaluates each of them for the constants of the runs.

### Parser

`ParserProofs`:

| Theorem | States |
| --- | --- |
| `TypeCorrectness` | `[]TypeOK` |
| `MachineFitsStack` | `[]StateFitsStack` |
| `BufferFreshness` | `[]BufferIsFresh` |
| `DepthLimit` | `[]WithinMaxLevels` |
| `DefinedBehaviour` | `[]UndefinedOnlyOnStrayBracket` |
| `PositionCorrectness` | `[]PositionMatchesText` |
| `PutBackTermination` | `PutBackIsConsumed` |
| `Growth` | `OpenContainersGrow` |
| `Implementation` | `ImplementsProtocol` |

The invariant `Inv` is the conjunction of the six state properties. None of
them alone is inductive: which states may look at the top of the stack is
known only from `StateFitsStack`, whose own preservation needs to know what
may have been put back; the undefined case is confined to stray brackets only
because nothing but white space precedes the first container; that a depth
test by equality is enough needs the stack never to have been past the limit.
The proof has one lemma per parser state (`ValueStep`, `LiteralStep`, ...)
for state, stack and buffer, which need only the first four (`Core`), on lemmas
about push, pop and storing
(`StoreInTop`, `ClosedInner`), and separate step lemmas for position
(`PositionStep`, on a lemma about counting newlines) and undefined behaviour
(`UndefinedStep`). The protocol follows from the fact that every iteration
consumes its character, puts it back, or decides (`Moves`).

### What the parser accepts

`LanguageProofs`, on the lemmas of `GrammarProofs`:

| Theorem | States |
| --- | --- |
| `Acceptance` | `[]AcceptedExactly`: a parse completes on exactly the texts that the grammar reads, with the container it reads and at the character it ends with |
| `FunctionReturnsDocument` (in `ReuseProofs`) | `[]ReturnsDocument`: the function `parse` returns what a document at the start of its input denotes, and throws on every other input |

This is the correctness of the parser: a machine with a stack, which sees one
character at a time, may be stopped between any two and puts some back, accepts
what a recursive descent over the whole text reads. Three things are needed.

*The grammar.* That `ReadFrom` satisfies its equation is a fact to prove, since
the equation is over all texts, and it looks forward by more than a character.
What is read at a spot depends on the spots nearer to the end of the text only
(`ReadIsLocal`); so there is a table of readings for every distance from the
end, and the tables agree (`ReadTablesAgree`, `ReadTablesExist`). `GrammarProofs`
then says for each part of the grammar what one character does to it:
`BetweenItems`, `BeforeMembers`, `StringGoesOn`, `NextOfLiteral` and so on.
Readings count as the same if they differ in the recorded defects only
(`Same`).

*The stack.* A grammar adds elements to the front of what follows, a parser
appends them to what it has. `Denotes` says what the open containers make of a
reading of the rest of the innermost one: its elements go behind those stored
there (`Closed`), that is the value of an entry of the container around it, and
so on to the root (`Link`). Storing a value moves it from one side to the other
(`StoredItem`, `StoredMember`; `DroppedMember` for the duplicate that vanishes);
opening a container adds a link, and closing one drops it.

*The machine.* `Remains` says for each state what it expects next, in the
terms of the grammar. The invariant, `LanguageInv`, is `Inv` with
`AcceptedExactly` and `Understood`: **for every text `u` that begins with the
characters read so far** (and the one put back, if there is one), the document
at the start of `u` is what the open containers make of what `Remains` to be
read of `u`. Quantifying over all continuations is what makes this inductive,
since the machine does not know the rest of its input while the grammar looks
at all of it. It gives both halves of the property: when a parse ends, the text
read is such a `u`, and the last iteration has read it or refused it as the
grammar does (`InsideMeans`, `OutsideMeans`); and a parser that has not ended
has read a text whose document is incomplete, because each state expects
something that the end of a text does not have (`EndMeans`).

`FunctionInv` adds that the container of the caller is written by a completed
call alone, and that the outcome is that of the call.

### A parser called again

`ReuseProofs`:

| Theorem | States |
| --- | --- |
| `ReuseDepthLimit` | `[]WithinMaxLevels` |
| `ReuseDefinedBehaviour` | `[]UndefinedNeedsADelivery` |
| `ReuseGrowth` | `OpenContainersGrow` |
| `ReusePosition` | `[]PositionSkipsResults` |

Here `StateFitsStack` does not hold: a delivery leaves an empty stack and a
state that has a container around it for granted. `ReuseInv` has the two ways
out: the state still fits (`Fits`), and then the lemmas of `ParserProofs` apply
(`FittingStep`), because an error leaves a state that fits; or the parser is
`Closed`, and then it stays so, takes the top of the empty stack, or starts
afresh behind a comma, in a state that fits (`ClosedStep`). Until something is
delivered it fits, and the stack is empty only while all that has been read is
blank or was refused (`DeliveryStep`), so that only a `]` can reach for the top.

The position needs no stack: it is behind the text made of those characters
that did not end a call, in their order. A character is appended to that text
exactly when the position moves (`BehindConsumed`), whether the iteration that
consumed it returned or not.

### Serializer

`SerializerProofs`:

| Theorem | States |
| --- | --- |
| `TypeCorrectness` | `[]TypeOK` |
| `LossIsBounded` | `[]OnlyTheEndCanBeLost` |
| `Implementation` | `ImplementsProtocol` |

`Inv` is `TypeOK /\ OnlyTheEndCanBeLost`. The second part is inductive because
the waiting text of a serializer without open containers is a tail of what
`EndBlock` put there (`RootEnd`), and a tail of a tail is one (`RestOfEnd`);
`WriteBuffer` says what one copy does to buffer, output and rest. That the
elements of a container are well defined is a result and no assumption:
`SequenceProofs` has it that `InOrder` puts every finite set of keys into one order
(`KeysInOrder`, on the fact that `Less` is a strict linear order) and that
`wrap_string` of a text is a text or nothing (`WrappedString`).

### The document

Also in `SerializerProofs`:

| Theorem | States |
| --- | --- |
| `DocumentIsWritten` | `[]WritesTheDocument`: what is written and what waits is at any time a beginning of the document, in the end all of it, or all up to the first element that cannot be written |
| `FunctionReturnsBlocks` | `[]ReturnsBlocks`: what the overloads of `to_string` return |

This is the correctness of the serializer: an iterative program with a stack,
which may be stopped between any two characters, writes what a function defined
by recursion over the whole tree returns. The invariant has to say what is
still to come. For each open container that is the text of the elements in its
range and its closing bracket (`ToClose`), so

    Document = out \o m_range_to_write \o what is to come of the innermost
                   container \o ... \o what is to come of the root

The sum over the stack is a table: its entry `i` is what is to come of the
contexts 1 to `i` (`IsTable`). Opening a container adds an entry to the table
and closing one drops it (`OtherTop`), and since the table exists for
every stack, no recursion over the stack is needed. The other half of the proof
is about the reference: `Layout` is a recursive function over an infinite set,
so that it exists has to be proved, by induction over `Height` (`LayoutsAgree`,
`LayoutsExist`); its text is made of printed characters and marks
(`LayoutIsText`); and the sorting by choice of `JsonLayout` gives the
order that `InOrder` computes by counting (`OneOrder`). If an element cannot be
written, the equation holds up to its mark, which the serializer never writes.

`FunctionInv` adds the loop of `to_string`: what is put together is what the
calls before the active one have written, which is a whole number of blocks;
and when `completed` is returned, the first character of the end of the
document is in the block just written, since until then a container is open,
and the text that closes it does not wait (`EndLength`, `BlocksAreTaken`). The
overload for containers goes on behind an element that cannot be written; of
what it returns then nothing is claimed, and the invariant needs no document
(`Faithful`).

### Containers that change

`LiveProofs`:

| Theorem | States |
| --- | --- |
| `Ownership` | `[]OwnedOnce` |
| `StackSafety` | `[]StackIsAPath` |
| `SafeChanges` | `[]UndefinedOnlyIfTampered` |
| `WritesOnce` | `[]WritesWhatIsDue` |

`LiveInv` adds to the properties that contexts and containers are sound: an
iterator is at an element or at the end, an iterator into an object is at a key
that is there, `written` and `due` are what they are taken for
(`ContextsAreSound`). That a change does no harm elsewhere is a fact about
trees. `OneOwner` and `Destroyed` say that what is destroyed with a value is
closed under ownership and that each container in it, but the first, is owned
from within it. So if a container on the path of contexts is destroyed with a
value that does not own the one being written itself, the one above it on the
path is destroyed too, and so on up to the root, which nothing owns: the lowest
such place on the path is a contradiction (`PathIsSpared`, which picks it by
the well-foundedness of the naturals). `TreeAfterPlacing` says that one place
of a tree given a leaf or a new container, and what was owned there removed,
leaves a tree; insertion, appending and replacing are its instances.

### Demo

`DemoProofs`, of `DemoSpec`: the steps of `Demo` on any input made of `Chars`.
The behaviours of the run's `RunSpec` are among them, with two variables more
that never change.

| Theorem | States |
| --- | --- |
| `DemoWritable` | `[]ParsedIsWritable` |
| `DemoOutput` | `[]ErrorsRepeatCharacters` |
| `DemoReads` | `[]ReadsTheDocument`: if no call fails, a document at the start of the input is read to its last character, and its container passed on; all other input is refused |
| `DemoCopies` | `[]HasLayout => ImplementsCopy`: the output is the layout of that container, from left to right, as far as the buffers reach; success means all of that |
| `DemoReadsBack` | `[]HasLayout => []OutputReadsBack`: a layout that the serializer has completed is read by the grammar as the container it was made of, unless a key in it is empty; then the grammar refuses it |

`ParsedIsWritable` relates the two machines: the parser must refuse, in keys
and in strings, at any depth, what the serializer has no escape sequence for. A
value is plain (`IsPlain`) if it is in some set of values that has with each
value all that it holds, and whose keys and strings are without such
characters. Plain values are not defined by recursion, and yet storing a plain
value into a plain container gives one: the set that shows it is the union of
the sets of both with the new container. `ParserIsPlain` says that all open
containers are plain, and the buffer too, unless it holds a literal, which
becomes a value of the table or is refused; `WriterInv` says the same of the
ranges of the serializer's contexts. `DemoWritingInv` counts what each place in
`main` has still to write. The lemmas of `ParserProofs` are reused for the
parser inside the demo (`CoreStep`); a read that fails feeds it what the array
holds, which is why that is made of characters too (`DemoReadingInv`).

`DemoReads` has to get from chunks to a text. `ReaderInv` says that what the
parser has moved past, what it has put back and what is left of the chunk are
together the characters of `input` up to where `read` has come, whatever it
returned, and that `LanguageInv` of the parser holds. At each way out of the
first loop the text is then a beginning of the input for which the grammar
gives the parser's own result: a delivery is a document, an error means that no
document begins with these characters, and at the end of the input a document
that is incomplete cannot be anything else. A failed `read` puts characters
into the parser that are not in the input, and ends all this; `CallFailed`
remembers it.

`DemoCopies` is the composition of what is proved about the parts. The second
loop of `main` is that of `to_string`, with standard output in place of the
text that is put together, so `DemoProofs` has an instance of
`SerializerProofs`, `D`, whose document so far is the blocks before this one,
and whose set of sizes is the one buffer. The theorems of that module hold of
it, as its assumptions do (`WritingAssumptionsHold`). `Copying` is its
invariant, `D!FunctionInv`, held wherever `main` may be between two steps of
the loop: a short write leaves the serializer alone (`CopyingStays`), the next
call begins when the block is out (`SerializeCopying`). Since the reference is
a recursive function, that of the instance and that of `DemoProps` are two
functions, which are the same as both satisfy the one equation
(`SameLayout`, from `LayoutEquation`). So `out` is a beginning of the layout of
`root` (`OutputIsBeginning`), standard output is one of `out` (`DemoOutput`),
the root is what the grammar reads (`DemoReads`), and each step is one of
`Copy` or changes nothing there (`CopyStep`).

`DemoReadsBack` is the round trip of the two machines. What `DocumentReads` and
the lemmas before it in `GrammarProofs` say is how texts are put together: if a
text is read as a value wherever it stands (`ReadsAs`), and another as the rest
of an array or object behind it, then so are both behind one another
(`ItemReads`, `MemberReads`), with white space between them or not. For the
layout, `IsReadBack` is shown by induction over the height of a value
(`ValueReadsBack`), and within a container by induction over its elements
(`ItemsBack`, `MembersAreBack`): for an object the keys in the order of
`Sorted`, which has each of them once (`SortedKeys`), and each is fresh among
those before it (`AreFresh`), so that none is taken for a duplicate. Literals
come back as `Literals` is a table from texts to values and `to_string` looks
up one of them, strings as `escape` of a plain text has only escape sequences
that the parser knows. A member with an empty key is written like an element of
an array: there the grammar fails, and a failure inside is one of the whole
(`NamelessReads`, the case `good = FALSE` of every lemma). `CopiedInv` adds to
`Copying` that the layout stays complete once the program has left the loop.
With `Acceptance` a parser without a limit accepts that text, and delivers that
container.

The hypothesis `HasLayout` is there because the layouts are a table, with an
entry for each container in `Values`: that the parser can put together no other
is a matter of choosing `Values`. TLC finds `HasLayout` to hold on all inputs
of the run, cut off, spoilt and extended. `DemoReads` needs no such
hypothesis.

### How induction is done

The theorems of the library that take an operator as a parameter cannot be used
here. Induction over the length of a text or the height of a value is done
with a set instead: the numbers up to `n` at which a fact fails have a least
element (`LeastElement`, `Induction`, from the well-foundedness of the
naturals), and a recursive function exists since two that agree below a height
agree at it. This is how the facts about `FlattenSeq`, the keys, `Layout`,
`Quoted` and `ReadFrom` are obtained for all texts and trees.

### What is only model-checked

- Liveness: `EveryRunEnds`, `EveryDocumentIsWritten`, `EveryCallEnds`. Fairness
  and ENABLED are out of the provers' reach.
- `EveryDocumentIsRead` of the demo: that the grammar reads every text of
  `JsonText`, with white space and its members in any order, as the value it
  was made of. That the program does with every input what the grammar says of
  it is proved (`DemoReads`), and that the grammar reads the layouts
  (`DemoReadsBack`).
- `HasLayout`, which `DemoCopies` and `DemoReadsBack` take as a hypothesis.
- `RootIsLastDelivered`: what a parser that is called again after a result has
  read is defined by recursion over the results.

## What the code does that it should not

Shown by a run that TLC finds violated, with the line of the repository that
says otherwise in `PROJECT.json`:

1. `parser_stray_bracket`: a `]` before any container takes the top of an
   empty stack (`parser.hpp:216`, `:401`), where a test expects
   `no_top_level_node` of input without a container.
2. `parser_duplicate_key`: a duplicate key is dropped without an error if its
   value is an array (`parser.hpp:408` does not look at `err`).
3. `function_limit`: `max_levels` of the function `parse` has no effect
   (`parser.hpp:443`).
4. `serializer_blocks`: `completed` is returned although the end of the
   document had no room (`serializer.hpp:139`). `LossIsBounded` proves that no
   more than this end can be missing; another call would still deliver it.

Shown by a property that describes what the code does:

5. `{"a":]` closes the object (`parser.hpp:216`): the defect
   `object_closed_by_bracket` of `AcceptedExactly`.
6. `to_string(container const&, bool)` leaves its loop before it appends the
   last block, so a container shorter than its buffer gives an empty string
   (`serializer.hpp:299`; `ReturnsBlocks`). The template, which objects and
   arrays use and which the tests cover, does not.
7. The same function does not look at `illegal_char_in_string` and goes on
   behind the element (`ReturnsBlocks`, `EveryCallEnds`).
8. A member with an empty key is written without key and colon
   (`serializer.hpp:177`; `OutputReadsBack` has it as the one exception).
9. A parser that is called again after an error counts lines and columns
   without the character it refused (`PositionSkipsResults`); a leaf refused as
   a duplicate stays in `m_buffer` and is stored once more without a name
   (`RootIsLastDelivered` excepts it); after `completed` it may deliver a second
   container or take the top of an empty stack (`UndefinedNeedsADelivery`).
10. The demo takes an empty input for an empty document and succeeds
    (`joppdemo.cpp:14`; `CopiesOf`). A `read` that fails with anything but
    `EAGAIN` gives the parser a chunk of length -1 (`joppdemo.cpp:37`); a
    `write` that does makes it repeat a character, or write one from before the
    buffer (`joppdemo.cpp:73`; `ErrorsRepeatCharacters` counts them), and one
    that fails each time keeps the program in its loop. The end
    that `serializer_blocks` shows missing is missing from its output as well
    (`WrittenOf`).
11. The `get_if` of a `value` that is const gives a pointer to a container that
    is not (`types.hpp:142`), so a reference to const does not protect a tree
    that is being written: hence `LiveSerializer`.

## What is not modelled

- Number formats: `Literals` is a table.
- Look-ups, `get`, `get_field_as`, `try_get_field_as` and comparison in
  `types.hpp` (of values that own containers it compares addresses): they change no state, no step of parser, serializer or demo
  calls them, and each is one call of the standard library.
- Erasing an element: `types.hpp` offers no such operation. Moving a container
  away as a whole (`std::move` of an object that is being written) is like
  replacing it.
- What happens after undefined behaviour: `"undefined"` is the last step.
- A `write` that fails for ever (a premise of `EveryRunEnds`); signals; the exit of `main`
  while output is not yet flushed, which a program without buffers of its own
  does not have.
- Allocation failure and the recursion of destructors; messages of errors;
  the build files.

## Plan

1. Done: delimiters, values, parser, its protocol, references, proofs; the
   function `parse`; serializer, its protocol, reference, proofs; `to_string`;
   a parser called again and its proofs; containers that change under a
   serializer and the proofs about them; the demo and what it promises.
2. Done: the proofs that the serializer writes the document of the reference,
   what `to_string` returns, the position of a parser that goes on, and the
   two invariants of the demo that need both machines.
3. Done: `JsonGrammar` as a recursive function, and the proofs that the parser
   accepts what it reads and that the function `parse` returns it.
4. Done: the proofs that the demo reads every document at the start of its
   input, refuses all else, and implements `Copy`.
5. Done: the proof that the grammar reads a layout as the container it was made
   of, if no key is empty: the round trip of parser and serializer.
6. Worth proving next: `EveryDocumentIsRead`, with `JsonText` as recursive
   functions: the lemmas about `ReadsAs` allow white space, and the members of
   a text come in some order as those of a layout do. Then
   `RootIsLastDelivered`, for which `Understood` has to speak of the characters
   that the results left out.
