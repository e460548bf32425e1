-------------------------------- MODULE Demo --------------------------------
(***************************************************************************)
(* bin/joppdemo.cpp: reads a document from standard input into a parser,   *)
(* one buffer after another, and then has a serializer write the container *)
(* to standard output, one buffer after another.                           *)
(*                                                                         *)
(* The parser is the one of Parser, under its own names; the serializer is *)
(* an instance of Serializer, whose container is the one the parser wrote. *)
(* The environment decides what read and write return: as many characters  *)
(* as it likes of those that could be moved, none, or an error.  EAGAIN    *)
(* makes both loops go on with nothing changed, which is a stuttering step.*)
(***************************************************************************)
EXTENDS Parser, KeyOrder

CONSTANTS
    BufferSize,         \* in place of 4096
    DefaultMaxLevels,   \* what the constructor of parser takes by default
    MaxErrors           \* bound: failing calls of read, and of write

ASSUME BufferSizeAssumption == BufferSize \in Nat \ {0}

VARIABLES
    pc,             \* where main is
    input,          \* all that standard input will deliver
    taken,          \* the number of characters of it read
    in_buffer,      \* the array that read fills
    unread,         \* what parse has not yet looked at of its chunk
    wild,           \* the chunk was given a length of -1
    old_ec,
    s_contexts, s_range, s_pretty_print, s_ec, room, out,   \* the serializer
    write_ptr,      \* as an offset into the array that serialize fills
    bytes_to_write,
    stdout,         \* what has arrived at standard output
    status,         \* the exit status
    read_errors, write_errors   \* how often a call failed, EAGAIN apart

inputVars == <<input, taken, in_buffer, unread, wild, old_ec, read_errors>>
writerVars == <<s_contexts, s_range, s_pretty_print, s_ec, room, out>>
outputVars == <<write_ptr, bytes_to_write, stdout, write_errors>>
demoVars == <<vars, inputVars, writerVars, outputVars, pc, status>>

S == INSTANCE Serializer WITH
        m_contexts <- s_contexts, m_range_to_write <- s_range, ec <- s_ec,
        m_pretty_print <- s_pretty_print, Roots <- {}, Sizes <- {BufferSize}

ContinueAt(place) == pc' = place /\ status' = status

Exit(with) == pc' = "exited" /\ status' = with
-----------------------------------------------------------------------------
(* Reading.                                                                *)

\* parse is called with the characters that read has put into the buffer.
ParseChunk(chunk, length_is_wild) ==
    /\ Parse
    /\ unread' = chunk
    /\ wild' = length_is_wild
    /\ ContinueAt("parsing")
    /\ UNCHANGED <<input, old_ec, writerVars, outputVars>>

Read(n) ==
    LET chunk == SubSeq(input, taken + 1, taken + n)
    IN  /\ pc = "reading"
        /\ taken + n <= Len(input)
        /\ taken' = taken + n
        /\ in_buffer' = chunk \o SubSeq(in_buffer, n + 1, BufferSize)
        /\ ParseChunk(chunk, FALSE)
        /\ UNCHANGED read_errors

\* Only EAGAIN is told from a count: -1 becomes the length of the chunk, and
\* parse starts over on what the buffer holds from before.
ReadFails ==
    /\ pc = "reading"
    /\ read_errors < MaxErrors
    /\ read_errors' = read_errors + 1
    /\ ParseChunk(in_buffer, TRUE)
    /\ UNCHANGED <<taken, in_buffer>>

\* The block of the parser and its buffer ends, and that of the serializer
\* begins: jopp::serializer serializer{root}.
ConstructSerializer ==
    /\ in_buffer' = <<>> /\ unread' = <<>> /\ wild' = FALSE /\ old_ec' = "completed"
    /\ s_contexts' = <<S!make_serializer_context(root)>>
    /\ s_range' = S!BlockStart(S!make_serializer_context(root))
    /\ s_ec' = "buffer_is_full"
    /\ s_pretty_print' = FALSE
    /\ ContinueAt("serialize")
    /\ UNCHANGED <<vars, room, out, outputVars>>

\* Mutant: input that ends early is taken for a document.
EndOfFileForgiving ==
    /\ pc = "reading"
    /\ taken = Len(input)
    /\ ConstructSerializer
    /\ UNCHANGED <<input, taken, read_errors>>

\* An input without a character leaves old_ec as it was initialised.
EndOfFile ==
    /\ pc = "reading"
    /\ taken = Len(input)
    /\ IF old_ec # "completed"
       THEN Exit("failure") /\ UNCHANGED <<vars, inputVars, writerVars, outputVars>>
       ELSE ConstructSerializer /\ UNCHANGED <<input, taken, read_errors>>

ParseIteration ==
    /\ pc = "parsing"
    /\ unread # <<>>
    /\ Iteration(Head(unread))
    /\ unread' = IF ahead' = <<>> THEN Tail(unread) ELSE unread
    /\ ContinueAt(pc)
    /\ UNCHANGED <<input, taken, in_buffer, wild, old_ec, read_errors,
                   writerVars, outputVars>>

\* The end of the chunk; with a length of -1 the end of the buffer, behind
\* which anything may lie.
ParseEnds ==
    /\ pc = "parsing"
    /\ unread = <<>>
    /\ IF wild
       THEN /\ ec = "running"
            /\ ec' = "undefined"
            /\ UNCHANGED <<position, m_current_state, m_max_levels, m_contexts,
                           m_buffer, root, text, ahead>>
       ELSE EndOfInput
    /\ ContinueAt(pc)
    /\ UNCHANGED <<inputVars, writerVars, outputVars>>

ParseResult ==
    /\ pc = "parsing"
    /\ ec # "running"
    /\ UNCHANGED <<input, taken, read_errors>>
    /\ \/ ec = "completed" /\ ConstructSerializer
       \/ /\ ec = "more_data_needed"
          /\ old_ec' = ec
          /\ ContinueAt("reading")
          /\ UNCHANGED <<vars, in_buffer, unread, wild, writerVars, outputVars>>
       \/ /\ ec \notin {"completed", "more_data_needed"}
          /\ Exit(IF ec = "undefined" THEN "undefined" ELSE "failure")
          /\ UNCHANGED <<vars, inputVars, writerVars, outputVars>>
-----------------------------------------------------------------------------
(* Writing.                                                                *)

Serialize ==
    /\ pc = "serialize"
    /\ S!PassBuffer(BufferSize)
    /\ ContinueAt("serializing")
    /\ UNCHANGED <<vars, inputVars, outputVars>>

SerializeIteration ==
    /\ pc = "serializing"
    /\ S!Iteration
    /\ ContinueAt(pc)
    /\ UNCHANGED <<vars, inputVars, outputVars>>

\* res.ptr - std::begin(buffer)
Filled == BufferSize - room

SerializeResult ==
    /\ pc = "serializing"
    /\ s_ec # "running"
    /\ write_ptr' = 0
    /\ bytes_to_write' = Filled
    /\ ContinueAt("writing")
    /\ UNCHANGED <<vars, inputVars, writerVars, stdout, write_errors>>

\* The character at an offset of the buffer; before it lies other memory.
BlockAt(i) == IF i < 0 THEN "OTHER" ELSE out[Len(out) - Filled + i + 1]

\* Mutant: the pointer stays where it is.
WriteFromStart(n) ==
    /\ pc = "writing"
    /\ n <= bytes_to_write
    /\ stdout' = stdout \o [i \in 1 .. n |-> BlockAt(write_ptr + i - 1)]
    /\ bytes_to_write' = bytes_to_write - n
    /\ ContinueAt(pc)
    /\ UNCHANGED <<vars, inputVars, writerVars, write_ptr, write_errors>>

Write(n) ==
    /\ pc = "writing"
    /\ n <= bytes_to_write
    /\ stdout' = stdout \o [i \in 1 .. n |-> BlockAt(write_ptr + i - 1)]
    /\ write_ptr' = write_ptr + n
    /\ bytes_to_write' = bytes_to_write - n
    /\ ContinueAt(pc)
    /\ UNCHANGED <<vars, inputVars, writerVars, write_errors>>

WriteNothing ==
    /\ pc = "writing"
    /\ bytes_to_write # 0
    /\ Exit("failure")
    /\ UNCHANGED <<vars, inputVars, writerVars, outputVars>>

\* Only EAGAIN is told from a count: -1 is added to what is written.
WriteFails ==
    /\ pc = "writing"
    /\ bytes_to_write # 0
    /\ write_errors < MaxErrors
    /\ write_errors' = write_errors + 1
    /\ write_ptr' = write_ptr - 1
    /\ bytes_to_write' = bytes_to_write + 1
    /\ ContinueAt(pc)
    /\ UNCHANGED <<vars, inputVars, writerVars, stdout>>

BlockWritten ==
    /\ pc = "writing"
    /\ bytes_to_write = 0
    /\ CASE s_ec = "completed"      -> Exit("success")
         [] s_ec = "buffer_is_full" -> ContinueAt("serialize")
         [] OTHER                   -> Exit("failure")
    /\ UNCHANGED <<vars, inputVars, writerVars, outputVars>>
-----------------------------------------------------------------------------
\* A run on a given input.
DemoInit(stdin) ==
    /\ Init
    /\ m_max_levels = DefaultMaxLevels
    /\ input = stdin
    /\ taken = 0
    /\ in_buffer = [i \in 1 .. BufferSize |-> "NUL"]
    /\ unread = <<>> /\ wild = FALSE
    /\ old_ec = "completed"
    /\ s_contexts = <<>> /\ s_range = <<>> /\ s_pretty_print = FALSE
    /\ s_ec = "not_called" /\ room = 0 /\ out = <<>>
    /\ write_ptr = 0 /\ bytes_to_write = 0 /\ stdout = <<>>
    /\ pc = "reading" /\ status = "running"
    /\ read_errors = 0 /\ write_errors = 0

\* What main does by itself, whatever the environment does.
Compute ==
    \/ ParseIteration \/ ParseEnds \/ ParseResult
    \/ Serialize \/ SerializeIteration \/ SerializeResult \/ BlockWritten

Transfer ==
    \/ EndOfFile
    \/ \E n \in 1 .. BufferSize : Read(n)
    \/ \E n \in 1 .. BufferSize + MaxErrors : Write(n)

Fault == ReadFails \/ WriteNothing \/ WriteFails

DemoNext == Compute \/ Transfer \/ Fault

\* A program that can go on does (WF of Compute).  read and write return
\* something other than EAGAIN sooner or later (WF of Transfer).  Nothing is
\* said of errors: a write may fail again and again.
DemoFairness == WF_demoVars(Compute) /\ WF_demoVars(Transfer)
=============================================================================
