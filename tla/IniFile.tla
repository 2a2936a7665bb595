------------------------------ MODULE IniFile ------------------------------
(* What iniparser/iniparser.c makes of an ini file and of a dictionary:     *)
(* loading, looking up, setting and saving.  Pure operators, no state.      *)
(*                                                                          *)
(* A key is the sequence of its parts between colons: a section entry "s"   *)
(* is <<s>>, an entry "s:k" is <<s, k>>, and one above any section, ":k",   *)
(* is <<Root, k>>.  A value or a comment is a sequence of pieces of text.   *)
(* A dictionary is the sequence of its entries in slot order; the ini API   *)
(* removes none, so new ones go to the end.                                 *)
EXTENDS Integers, Sequences, SequencesExt

CONSTANTS
    Root,        \* the section before the first section line: ""
    Names,       \* names of sections and keys, in lower case
    Pieces,      \* pieces of text
    Marks,       \* those that begin with ';' or '#'
    Slashed,     \* those that end in a backslash
    Bare,        \* what is left of each of them without it
    KeyText,     \* the piece "key =" of a line, when it is read as a value
    NullText,    \* the piece "(null)", which is what printing NULL writes
    Odd,         \* the name a key has behind the text of another line
    MaxWidth,    \* parts of a key and pieces that fit in ASCIILINESZ
    NULL

ASSUME NamesAssumption == Root \notin Names /\ Odd \in Names

ASSUME PiecesAssumption ==
    /\ Marks \subseteq Pieces
    /\ Slashed \subseteq Pieces
    /\ Bare \in [Slashed -> Seq(Pieces \ Slashed)]
    /\ {KeyText, NullText} \subseteq Pieces \ (Marks \cup Slashed)
    /\ MaxWidth \in Nat

Keys == Seq(Names \cup {Root})
Texts == Seq(Pieces)

\* A name that is not "".
Named(name) == name \notin {<<>>, <<Root>>}

\* The keys a dictionary may have: the section, and the name in it, are not
\* "".  The loader makes no other; one that is set, as "s:", is saved as a line
\* that is a syntax error, and a section "" as "[]", which is read as the
\* section above it.
EntryKeys == {k \in Keys : Named(k) /\ (Len(k) # 1 => Named(Tail(k)))}

\* What a dictionary has in its slots.  A section has no value, nor has an
\* entry whose value could not be copied.
Entry == [key : Keys, val : Texts \cup {NULL}, cmt : Texts]

\* NULL is no dictionary and no text.
ASSUME NullAssumption == NULL \notin Seq(Entry) \cup Texts

\* The lines a load tells apart; a "cut" one has no newline at its end, and a
\* backslash alone is a blank line.  A value line may have a part in quotes.
\* The rest of a comment line begins with its mark; of a section or an error
\* line only a backslash at the end is told, a section's by itself.
Line(kind, text, quoted, rest) ==
    [kind |-> kind, text |-> text, quoted |-> quoted, rest |-> rest]
SectionLine(s) == Line("section", <<s>>, <<>>, <<>>)
ValueLine(text, rest) == Line("value", text, <<>>, rest)
BlankLine == Line("blank", <<>>, <<>>, <<>>)
ErrorLine == Line("error", <<>>, <<>>, <<>>)
CutLine == Line("cut", <<>>, <<>>, <<>>)

\* A section line has a name, a value line has a key.
Lines ==
    {l \in [kind : {"section", "value", "comment", "blank", "error", "cut"},
            text : Keys, quoted : Texts, rest : Texts] :
       /\ l.kind = "section" => Len(l.text) = 1 /\ Named(l.text)
       /\ l.kind = "value" => Named(l.text)
       /\ l.kind \in {"blank", "cut"} => l.rest = <<>>}

-----------------------------------------------------------------------------
(* The dictionary.                                                          *)

Slots(d, key) == {i \in DOMAIN d : d[i].key = key}

HasKey(d, key) == Slots(d, key) # {}

\* iniparser_getstring
iniparser_getstring(d, key, def) ==
    IF HasKey(d, key) THEN d[CHOOSE i \in Slots(d, key) : TRUE].val ELSE def

\* dictionary_set with room for the entry and memory for the copies: in place,
\* leaving the comment alone, or at the end.
iniparser_set(d, key, v) ==
    IF HasKey(d, key)
    THEN [i \in DOMAIN d |-> IF d[i].key = key THEN [d[i] EXCEPT !.val = v] ELSE d[i]]
    ELSE Append(d, [key |-> key, val |-> v, cmt |-> <<>>])

\* dictionary_set_comment: the value and the comment.
dictionary_set_comment(d, key, v, c) ==
    LET set == iniparser_set(d, key, v)
    IN  [i \in DOMAIN set |-> IF set[i].key = key THEN [set[i] EXCEPT !.cmt = c] ELSE set[i]]

-----------------------------------------------------------------------------
(* Loading.                                                                 *)

IsMark(p) == p \in Marks

\* "%[^;#]" and what follows it.
BeforeMark(text) ==
    LET i == SelectInSeq(text, IsMark) IN IF i = 0 THEN text ELSE SubSeq(text, 1, i - 1)
FromMark(text) == SubSeq(text, Len(BeforeMark(text)) + 1, Len(text))

\* The value of a line, and what it writes to the comment buffer, if anything:
\* a line whose value is empty writes nothing, though a comment may follow.
ValueOf(line) == IF line.quoted # <<>> THEN line.quoted ELSE BeforeMark(line.rest)
CommentOf(line) ==
    IF line.quoted # <<>> THEN line.rest
    ELSE IF BeforeMark(line.rest) = <<>> THEN <<>> ELSE FromMark(line.rest)

\* Mutant: a key keeps the section of the line above it out.
KeyWithoutSection(section, text) == text

\* sprintf(tmp, "%s:%s", section, key)
KeyInSection(section, text) == <<section>> \o text

\* A line that is complete.  `errs` is the result of the last section or value
\* line, or the syntax errors since; `valcmt` is the comment buffer, which a
\* line without comment leaves as the line before it did.
iniparser_line(st, line) ==
    LET cmt == IF CommentOf(line) = <<>> THEN st.valcmt ELSE CommentOf(line)
    IN  IF line.kind = "section"
        THEN [st EXCEPT !.section = line.text[1],
                        !.dict = dictionary_set_comment(@, line.text, NULL, <<>>),
                        !.errs = 0]
        ELSE IF line.kind = "value"
        THEN [st EXCEPT !.dict = dictionary_set_comment(@, KeyInSection(st.section, line.text),
                                                        ValueOf(line), cmt),
                        !.valcmt = cmt,
                        !.errs = 0]
        ELSE IF line.kind = "error" THEN [st EXCEPT !.errs = @ + 1] ELSE st

\* fgets gets the whole line with its newline.
Fits(line) == Len(line.text) + Len(line.quoted) + Len(line.rest) <= MaxWidth

\* A line that ends in a backslash, of any kind, goes on with the next one.
Continues(line) == line.rest # <<>> /\ Last(line.rest) \in Slashed

\* The text of a line behind that of another.
Joined(line) ==
    IF line.kind \in {"blank", "comment"} THEN line.rest
    ELSE <<KeyText>> \o line.quoted \o line.rest

\* The two as one line: a value or a comment has the text of the next at its
\* end; a section needs its bracket there, "[s][t]" being section s; before a
\* value the text is the start of its key; all else is a syntax error.
Continued(front, next) ==
    LET open == Front(front.rest) \o Bare[Last(front.rest)]
    IN  IF front.kind \in {"value", "comment"}
        THEN [front EXCEPT !.rest = open \o Joined(next)]
        ELSE IF next.kind = "value"
        THEN [next EXCEPT !.text = <<Odd>> \o Tail(@)]
        ELSE IF front.kind = "section" /\ next.kind \in {"section", "blank"}
        THEN [front EXCEPT !.rest = next.rest]
        ELSE Line("error", <<>>, <<>>, next.rest)

\* One turn of the loop: `front` is the line that waits for its continuation.
ReadLine(st, next) ==
    LET line == IF st.front = <<>> THEN next ELSE Continued(st.front[1], next)
    IN  IF st.given_up THEN st
        ELSE IF next.kind = "cut" \/ ~Fits(line) THEN [st EXCEPT !.given_up = TRUE]
        ELSE IF Continues(line) THEN [st EXCEPT !.front = <<line>>]
        ELSE iniparser_line([st EXCEPT !.front = <<>>], line)

Start == [section |-> Root, dict |-> <<>>, valcmt |-> <<>>, front |-> <<>>,
          errs |-> 0, given_up |-> FALSE]

\* The state after i lines.
Loading(lines) ==
    LET after[i \in 0..Len(lines)] ==
          IF i = 0 THEN Start ELSE ReadLine(after[i - 1], lines[i])
    IN  after

\* The dictionary, or NULL, if the file can be opened and no allocation fails.
iniparser_load(lines) ==
    LET end == Loading(lines)[Len(lines)]
    IN  IF end.given_up \/ end.errs # 0 THEN NULL ELSE end.dict

-----------------------------------------------------------------------------
(* Saving.                                                                  *)

IsSection(entry) == Len(entry.key) = 1

\* The entries of the slots S, in their order.
Selected(d, S) ==
    LET upto[i \in 0..Len(d)] ==
          IF i = 0 THEN <<>> ELSE IF i \in S THEN Append(upto[i - 1], d[i]) ELSE upto[i - 1]
    IN  upto[Len(d)]

Sections(d) == Selected(d, {i \in DOMAIN d : IsSection(d[i])})

\* Entries of section s: those whose key starts with "s:".
EntriesOf(d, s) == Selected(d, {i \in DOMAIN d : ~IsSection(d[i]) /\ d[i].key[1] = s})

\* Mutant: the part after the next colon is printed.
NamePast(key) == SubSeq(key, 3, Len(key))

\* Mutant: the key is printed with its section.
NameFull(key) == key

\* d->key[j]+seclen+1
Name(key) == Tail(key)

\* "%s" of a value that may be NULL, the way each dump prints it.
Shown(v, null) == IF v = NULL THEN null ELSE v

\* The value without quotes, then the comment.
EntryLine(e) == ValueLine(Name(e.key), Shown(e.val, <<>>) \o e.cmt)

iniparser_dumpsection_ini(d, s) ==
    LET entries == EntriesOf(d, s)
    IN  <<SectionLine(s)>> \o [i \in DOMAIN entries |-> EntryLine(entries[i])]

\* Without any section every key is printed in full and no comment; with one,
\* only the keys of sections that are there.
iniparser_dump_ini(d) ==
    LET sections == Sections(d)
        Section(i) == iniparser_dumpsection_ini(d, sections[i].key[1])
    IN  IF sections = <<>>
        THEN [i \in DOMAIN d |-> ValueLine(d[i].key, Shown(d[i].val, <<NullText>>))]
        ELSE FlattenSeq([i \in DOMAIN sections |-> Section(i)])

=============================================================================
