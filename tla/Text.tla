------------------------------- MODULE Text -------------------------------
(***************************************************************************)
(* Texts, for the parts of the program that parse and format them.  A text *)
(* is a sequence of symbols.  A symbol is one byte ("CR", "LF", "SP" and   *)
(* the punctuation that the code looks for) or a word that the code only   *)
(* compares as a whole.  The operators are the methods of Rust's str that  *)
(* the code uses.                                                          *)
(***************************************************************************)
EXTENDS Naturals, SequencesExt

\* The length of a text in bytes.  Of the words three are long: a domain label of the greatest
\* length, half a line, and more than a line.
Weight(symbol) ==
  CASE symbol = "L63" -> 63 [] symbol = "HALF" -> 500 [] symbol = "LONG" -> 1000 [] OTHER -> 1
Bytes(text) == FoldLeft(LAMBDA sum, symbol : sum + Weight(symbol), 0, text)

CRLF  == <<"CR", "LF">>
Blank == {"SP", "CR", "LF"}  \* what trim removes

\* str::trim and its halves, for the symbols of a set.
TrimEnd(text, set) ==
  SubSeq(text, 1, CHOOSE n \in 0..Len(text) : /\ \A i \in (n + 1)..Len(text) : text[i] \in set
                                              /\ n = 0 \/ text[n] \notin set)
TrimStart(text, set) ==
  SubSeq(text, CHOOSE n \in 1..(Len(text) + 1) : /\ \A i \in 1..(n - 1) : text[i] \in set
                                                 /\ n > Len(text) \/ text[n] \notin set, Len(text))
Trim(text) == TrimStart(TrimEnd(text, Blank), Blank)

\* str::find: where `pattern' first begins in `text', 0 when it does not occur.
Find(text, pattern) ==
  LET at == {i \in 1..(Len(text) - Len(pattern) + 1) :
               \A k \in DOMAIN pattern : text[i + k - 1] = pattern[k]}
  IN IF at = {} THEN 0 ELSE Min(at)

Before(text, i) == SubSeq(text, 1, i - 1)
After(text, i)  == SubSeq(text, i + 1, Len(text))

\* str::split: the pieces between the occurrences of a symbol; one at least.  A symbol of the text
\* either ends the last piece so far or belongs to it.
AddSymbol(pieces, symbol, at) ==
  IF symbol = at THEN Append(pieces, <<>>) ELSE [pieces EXCEPT ![Len(pieces)] = Append(@, symbol)]

Split(text, at) ==
  LET after[n \in 0..Len(text)] ==
        IF n = 0 THEN << <<>> >> ELSE AddSymbol(after[n - 1], text[n], at)
  IN after[Len(text)]

\* str::lines: what is between the line ends, an LF with or without a CR before it; a last
\* line without LF counts, and keeps its CR.
LinesOf(text) ==
  LET pieces == Split(text, "LF")
      ended  == [i \in 1..(Len(pieces) - 1) |->
                   IF IsSuffix(<<"CR">>, pieces[i]) THEN Front(pieces[i]) ELSE pieces[i]]
  IN IF Last(pieces) = <<>> THEN ended ELSE Append(ended, Last(pieces))

\* The lines with CRLF behind each of them.
WithCrlf(lines) == FlattenSeq([i \in DOMAIN lines |-> lines[i] \o CRLF])

\* str::split_whitespace.
Words(text) == SelectSeq(Split([i \in DOMAIN text |-> IF text[i] \in Blank THEN "SP" ELSE text[i]], "SP"),
                         LAMBDA piece : piece # <<>>)

=============================================================================
