----------------------------- MODULE Delimiters -----------------------------
(***************************************************************************)
(* lib/delimiters.hpp: the delimiters of the format, the character classes *)
(* the parser asks about, and the escape sequences of strings.             *)
(*                                                                         *)
(* A character is a one-character string.  "NUL" stands for every control  *)
(* code that is neither white space nor has an escape sequence; a printing *)
(* character without a role of its own is any other string.                *)
(***************************************************************************)
EXTENDS Optional, SequencesExt

begin_array      == "["
begin_object     == "{"
end_array        == "]"
end_object       == "}"
name_separator   == ":"
value_separator  == ","
string_begin_end == "\""
begin_esc_seq    == "\\"

Newline == "\n"

\* The characters that stand for themselves in the format, and those that are
\* written between others.
FormatChars ==
    {begin_array, begin_object, end_array, end_object, name_separator, value_separator,
     string_begin_end, begin_esc_seq, Newline, "\t", " ", "n", "t"}

\* Every literal of TLA+ is a string, but the provers have no rule for it.
ASSUME FormatCharsAssumption == FormatChars \subseteq STRING

is_whitespace(ch) == ch \in {" ", "\t", "\n", "\r"}

char_should_be_escaped(ch) ==
    ch \in {"NUL", "\t", "\n", "\r", string_begin_end, begin_esc_seq}

\* The escape sequences: the letter after the backslash, and what it denotes.
EscChars == [ch \in {"\"", "\\", "n", "t"} |->
                CASE ch = "n" -> "\n" [] ch = "t" -> "\t" [] OTHER -> ch]

unescape(esc_char) ==
    IF esc_char \in DOMAIN EscChars THEN EscChars[esc_char] ELSE nullopt

get_escape_char(ch) ==
    CASE ch = "\"" -> "\""
      [] ch = "\\" -> "\\"
      [] ch = "\n" -> "n"
      [] ch = "\t" -> "t"
      [] OTHER     -> nullopt

\* Empty if some character has to be escaped and has no escape sequence.
escape(str) ==
    LET one(ch) == IF char_should_be_escaped(ch)
                   THEN <<begin_esc_seq, get_escape_char(ch)>> ELSE <<ch>>
    IN  IF \E i \in DOMAIN str : /\ char_should_be_escaped(str[i])
                                 /\ get_escape_char(str[i]) = nullopt
        THEN nullopt
        ELSE FlattenSeq([i \in DOMAIN str |-> one(str[i])])

wrap_string(str) ==
    IF escape(str) = nullopt THEN nullopt
    ELSE <<string_begin_end>> \o escape(str) \o <<string_begin_end>>
=============================================================================
