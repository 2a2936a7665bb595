------------------------------- MODULE Codec -------------------------------
(* The text codecs of common/common.c: hexadecimal and base64, both ways.   *)
(* Bytes and characters are numbers; a string is a sequence of characters   *)
(* without the terminating zero, and NULL is what a call returns for none.  *)
(* cm_itoa returns a static buffer, which the next call of it overwrites:   *)
(* its result here is what the buffer holds until then.                     *)
EXTENDS Integers, Sequences, SequencesExt

CONSTANTS
    Inputs,      \* byte sequences to convert
    Numbers,     \* numbers to print
    NoString     \* NULL

ASSUME InputsAssumption == Inputs \subseteq Seq(0..255) /\ Numbers \subseteq Nat

VARIABLES
    bytes,       \* what the caller has encoded
    number       \* what the caller has printed

Bytes == 0..255

-----------------------------------------------------------------------------
(* Decimal.                                                                 *)

\* The digits of a number, from the last.
cm_itoa(n) ==
    LET digits[i \in 0..n] == IF i < 10 THEN <<48 + i>>
                              ELSE Append(digits[i \div 10], 48 + (i % 10))
    IN  digits[n]

-----------------------------------------------------------------------------
(* Hexadecimal.                                                             *)

\* Mutant: the test for a letter in the high digit is off by one.
HighDigitLate(m) == (m \div 16) + (IF m > 160 THEN 87 ELSE 48)

\* (m >> 4) + (m > 159 ? 'a' - 10 : '0')
HighDigit(m) == (m \div 16) + (IF m > 159 THEN 87 ELSE 48)

\* m &= 0x0F;  m + (m > 9 ? 'a' - 10 : '0')
LowDigit(m) == (m % 16) + (IF m % 16 > 9 THEN 87 ELSE 48)

cm_s2hex(s) ==
    [i \in 1..(2 * Len(s)) |-> IF i % 2 = 1 THEN HighDigit(s[(i + 1) \div 2])
                                            ELSE LowDigit(s[i \div 2])]

\* d >= 'A' ? (d & 0x7) + 9 : d - '0'
DigitValue(d) == IF d >= 65 THEN (d % 8) + 9 ELSE d - 48

\* Two digits to a byte; an odd one at the end is dropped.
cm_hex2s(s) ==
    IF s = <<>> THEN NoString
    ELSE [i \in 1..(Len(s) \div 2) |->
            (DigitValue(s[2 * i - 1]) * 16 + DigitValue(s[2 * i])) % 256]

-----------------------------------------------------------------------------
(* Base64.                                                                  *)

\* g_base64o: A..Z, a..z, 0..9, + and /.
g_base64o(v) ==
    IF v < 26 THEN 65 + v
    ELSE IF v < 52 THEN 71 + v
    ELSE IF v < 62 THEN v - 4
    ELSE IF v = 62 THEN 43 ELSE 47

\* g_base64i, from the character: 88 is 'X', no digit.
g_base64i(c) ==
    IF c \in 65..90 THEN c - 65
    ELSE IF c \in 97..122 THEN c - 71
    ELSE IF c \in 48..57 THEN c + 4
    ELSE IF c = 43 THEN 62 ELSE IF c = 47 THEN 63 ELSE 88

\* Three bytes as one number, and the four digits of a number.
Joined(a, b, c) == (a * 256 + b) * 256 + c
Digits(m) == <<(m \div 262144) % 64, (m \div 4096) % 64, (m \div 64) % 64, m % 64>>

\* The digits of group k, the bytes past the end being zero.
Group(s, k) ==
    LET byte(i) == IF i <= Len(s) THEN s[i] ELSE 0
    IN  Digits(Joined(byte(3 * k - 2), byte(3 * k - 1), byte(3 * k)))

\* Of a last group of n bytes n + 1 digits are kept, the others are '='.
cm_s2base64(s) ==
    LET groups == (Len(s) + 2) \div 3
        kept(k) == IF 3 * k <= Len(s) THEN 4 ELSE Len(s) - 3 * (k - 1) + 1
    IN  [i \in 1..(4 * groups) |->
           LET k == (i + 3) \div 4
               j == i - 4 * (k - 1)
           IN  IF j <= kept(k) THEN g_base64o(Group(s, k)[j]) ELSE 61]

\* The bytes of j digits that are worth m.
Whole(m) == <<(m \div 65536) % 256, (m \div 256) % 256, m % 256>>
Rest(m, j) ==
    IF j = 2 THEN <<(m \div 16) % 256>>
    ELSE IF j = 3 THEN <<(m \div 1024) % 256, (m \div 4) % 256>>
    ELSE <<>>

\* One character: '=' ends the text, blanks are skipped, any other character
\* that is no digit makes the call fail.
Decode(st, c) ==
    LET m == st.m * 64 + g_base64i(c)
    IN  IF st.ended THEN st
        ELSE IF c = 61 THEN [st EXCEPT !.ended = TRUE]
        ELSE IF g_base64i(c) >= 64
        THEN IF c <= 32 THEN st ELSE [st EXCEPT !.ended = TRUE, !.failed = TRUE]
        ELSE IF st.j = 3 THEN [st EXCEPT !.out = @ \o Whole(m), !.m = 0, !.j = 0]
        ELSE [st EXCEPT !.m = m, !.j = @ + 1]

DecodeStart == [m |-> 0, j |-> 0, out |-> <<>>, ended |-> FALSE, failed |-> FALSE]

\* The state after i characters.
Decoded(s) ==
    LET after[i \in 0..Len(s)] ==
          IF i = 0 THEN DecodeStart ELSE Decode(after[i - 1], s[i])
    IN  after[Len(s)]

cm_base642s(s) ==
    IF s = <<>> \/ Decoded(s).failed THEN NoString
    ELSE Decoded(s).out \o Rest(Decoded(s).m, Decoded(s).j)

-----------------------------------------------------------------------------
(* A caller of the codecs, which looks at a result before the next call.    *)

CodecInit == bytes = <<>> /\ number = 0

Converting == bytes # <<>> \/ number # 0

ConvertBytes == ~Converting /\ bytes' \in Inputs /\ UNCHANGED number

ConvertNumber == ~Converting /\ number' \in Numbers /\ UNCHANGED bytes

Converted == Converting /\ bytes' = <<>> /\ number' = 0

CodecNext == ConvertBytes \/ ConvertNumber \/ Converted

CodecSpec == CodecInit /\ [][CodecNext]_<<bytes, number>>

-----------------------------------------------------------------------------
(* The references: a hexadecimal digit is one of 0..9 and a..f; a number is *)
(* what its digits stand for; base64 regroups the bits of the bytes, six at *)
(* a time.                                                                  *)

Weight == <<128, 64, 32, 16, 8, 4, 2, 1>>

Bit(v, w) == (v \div w) % 2

\* Bit n of the bytes s, from the upper bit of the first; bit b of six.
BitOfBytes(s, n) ==
    IF n > 8 * Len(s) THEN 0 ELSE Bit(s[(n - 1) \div 8 + 1], Weight[((n - 1) % 8) + 1])
BitOfDigit(v, b) == Bit(v, Weight[b + 2])

IsBase64(s, text) ==
    LET digits == (8 * Len(s) + 5) \div 6
    IN  /\ Len(text) % 4 = 0 /\ Len(text) - digits \in 0..2
        /\ \A i \in DOMAIN text :
             IF i > digits THEN text[i] = 61
             ELSE /\ g_base64i(text[i]) < 64
                  /\ \A b \in 1..6 :
                       BitOfDigit(g_base64i(text[i]), b) = BitOfBytes(s, 6 * (i - 1) + b)

\* What becomes of the bytes s, there and back.
GoesBack(s) ==
    LET hex == cm_s2hex(s)
        text == cm_s2base64(s)
        back == IF s = <<>> THEN NoString ELSE s
    IN  /\ \A i \in DOMAIN hex : hex[i] \in (48..57) \cup (97..102)
        /\ cm_hex2s(hex) = back
        /\ cm_base642s(text) = back
        /\ IsBase64(s, text)
        /\ \A i \in DOMAIN text :
             /\ cm_base642s(InsertAt(text, i, 10)) = s
             /\ i > 1 => IsPrefix(cm_base642s(SubSeq(text, 1, i - 1)), s)

\* The number a text of digits stands for.
Value(text) ==
    LET upto[i \in 0..Len(text)] == IF i = 0 THEN 0 ELSE upto[i - 1] * 10 + text[i] - 48
    IN  upto[Len(text)]

\* What was encoded is decoded again, zero bytes and lengths that are no
\* multiple of three included, also with blanks in between; base64 is the
\* standard's, and a cut or padded text never gives a byte that was not there.  A
\* number is printed without leading zeroes.
CodecsRight ==
    /\ GoesBack(bytes)
    /\ Value(cm_itoa(number)) = number
    /\ number > 0 => cm_itoa(number)[1] # 48

=============================================================================
