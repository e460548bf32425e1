------------------------------ MODULE DemoProps ------------------------------
(***************************************************************************)
(* The properties of bin/joppdemo.cpp that hold of every input, all sizes  *)
(* of its buffers and whatever read and write return.                      *)
(***************************************************************************)
EXTENDS Demo, ParserLanguage, JsonLayout

\* The array that read fills is there from the start, all zeros, and a call
\* that fails has it read as it is.
ASSUME ZeroAssumption == "NUL" \in Chars

\* The keys of objects are ordered whatever characters they are made of.
ASSUME TextCharsAssumption == TextChars \subseteq DOMAIN Code

DemoSpec == (\E stdin \in Seq(Chars) : DemoInit(stdin)) /\ [][DemoNext]_demoVars

\* However often write fails: what is written so far and what is still to be
\* written of this block are as many characters as the serializer has
\* produced, and one more for each failed call, since -1 is added up as if it
\* were a count.  If none fails they are the same characters.
ErrorsRepeatCharacters ==
    LET pending == IF pc \in {"serialize", "serializing"} THEN Filled ELSE bytes_to_write
    IN  pc \in {"serializing", "writing"} =>
          /\ Len(stdout) + pending = Len(out) + write_errors
          /\ write_errors = 0 => stdout = SubSeq(out, 1, Len(out) - pending)

\* A container that came out of the parser is never refused by the serializer.
ParsedIsWritable == s_ec # "illegal_char_in_string"
-----------------------------------------------------------------------------
(* What a pipeline that runs the program gets.                             *)

\* Some call of read or write has failed, or one of write has done nothing.
CallFailed ==
    \/ read_errors + write_errors > 0
    \/ status = "failure" /\ bytes_to_write # 0

\* Or the parser has reached for a container that is not there.
Faulted == CallFailed \/ ec = "undefined"

\* Whatever is in the input, complete or not, and whatever fails: there is a
\* layout of the container that the program has put together.
HasLayout == root \in Values

\* If no call fails, a document is read to its last character and its container
\* passed on, however the input is cut into chunks and whatever follows.  Every
\* other input makes the program fail, but for no input at all, and for one
\* that starts with a ], where no behaviour is defined.
ReadsTheDocument ==
    LET doc   == Document(input, DefaultMaxLevels)
        stray == IsAt(input, NextToken(input, 1), end_array)
    IN  status # "running" /\ ~CallFailed =>
            IF Readable(doc)
            THEN status = "success" /\ root = doc.value /\ text = SubSeq(input, 1, doc.next - 1)
            ELSE status = IF input = <<>> THEN "success"
                          ELSE IF stray THEN "undefined" ELSE "failure"

\* What the program gets written: all of the layout, or all but the part of
\* its end for which the last buffer has no room.
WrittenOf(value) ==
    LET layout == DocumentOf(value, FALSE)
        blocks == (Len(layout) - 2) \div BufferSize + 1
    IN  SubSeq(layout, 1, Min({Len(layout), blocks * BufferSize}))

\* No input at all is taken for an empty object.
CopiesOf(stdin) ==
    LET doc == Document(stdin, DefaultMaxLevels)
    IN  IF stdin = <<>> THEN {WrittenOf(DefaultContainer)}
        ELSE IF Readable(doc) THEN {WrittenOf(doc.value)} ELSE {}

\* The promise of Copy.
Pipe == INSTANCE Copy WITH Copies <- CopiesOf, fault <- Faulted

ImplementsCopy == Pipe!Spec
-----------------------------------------------------------------------------
(* What comes out, as another program reads it.                            *)

\* Whether a member without a name is somewhere in a value.
HasEmptyKey[value \in Values] ==
    CASE value.type = "array"  -> \E i \in DOMAIN value.items : HasEmptyKey[value.items[i]]
      [] value.type = "object" -> \E key \in DOMAIN value.members :
                                      key = <<>> \/ HasEmptyKey[value.members[key]]
      [] OTHER -> FALSE

\* What the serializer has written reads back as the container it came from,
\* once the end is there; a member without a name, written without its key,
\* makes it unreadable.
OutputReadsBack ==
    s_ec = "completed" =>
        LET again == Document(out \o s_range, nullopt)
        IN  IF HasEmptyKey[root] THEN ~Readable(again)
            ELSE Readable(again) /\ again.value = root /\ again.defects = {}
=============================================================================
