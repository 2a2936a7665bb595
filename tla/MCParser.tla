------------------------------ MODULE MCParser ------------------------------
(* The instance of Parser that TLC checks.                                  *)
EXTENDS Parser

CONSTANTS a, b

\* Two words, a backslash behind one of them or by itself, and a comment.
AllPieces == {"p", "c", "c/", "/", ";q", "k=", "(null)"}
WithSlash == {"c/", "/"}
WithoutSlash == [x \in WithSlash |-> IF x = "c/" THEN <<"c">> ELSE <<>>]

\* What is behind the array of comments: a comment of its own.
Behind == {<<";q">>}

Read == {<<"s", "k">>, <<"n", "k">>}

\* A value, and one that ends in a backslash.
Settable == { <<<<"n", "k">>, <<"c">>>>, <<<<"s", "k">>, <<"c/">>>> }

Value(k) == ValueLine(<<k>>, <<"p">>)
Commented(k) == ValueLine(<<k>>, <<"p", ";q">>)
Widest(k) == ValueLine(<<k>>, <<"p", "c", "p">>)

Comment(rest) == Line("comment", <<>>, <<>>, rest)
Open(line) == [line EXCEPT !.rest = @ \o <<"/">>]

\* Empty; a section with a commented value, on two lines; two sections, the
\* second with or without room for a comment of the first; a repeated line, the
\* first with quotes; a key above any section; a syntax error before good lines
\* and at the end; a last line without newline; lines of each kind that go on.
SomeFiles ==
    { <<>>,
      <<SectionLine("s"), BlankLine, Open(Value("k")), Comment(<<";q">>)>>,
      <<SectionLine("n"), Commented("k"), SectionLine("s"), Value("k")>>,
      <<SectionLine("n"), Commented("k"), SectionLine("s"), Widest("k")>>,
      <<SectionLine("s"), Line("value", <<"k">>, <<"p", ";q">>, <<"c">>), Value("k")>>,
      <<Value("k")>>,
      <<ErrorLine, SectionLine("s"), Comment(<<";q", "c/">>), Value("k")>>,
      <<SectionLine("s"), ErrorLine>>,
      <<SectionLine("s"), CutLine>>,
      <<SectionLine("s"), ValueLine(<<"n">>, <<"c/">>), Value("k")>>,
      <<Open(ErrorLine), SectionLine("n"), Open(SectionLine("s")), BlankLine,
        Open(SectionLine("n")), Value("k")>> }

Symm == Permutations({a, b})

=============================================================================
