-------------------------------- MODULE Utf8 --------------------------------
(***************************************************************************)
(* WebSocketProtocol::isValidUtf8, which text messages and the reasons in  *)
(* CLOSE messages must pass, and the encoding it is to recognise.          *)
(***************************************************************************)
EXTENDS Naturals, Sequences

\* A byte that continues a character: (b & 0xc0) == 0x80.
Continues(b) == b \in 128..191

\* Two, three and four bytes starting with these; the code's masks as ranges.
Valid2(a, b) == a \in 192..223 /\ Continues(b) /\ a \notin 192..193

Valid3_Surrogates(a, b, c) ==
    /\ a \in 224..239 /\ Continues(b) /\ Continues(c)
    /\ ~(a = 224 /\ b \in 128..159)

Valid3(a, b, c) ==
    /\ a \in 224..239 /\ Continues(b) /\ Continues(c)
    /\ ~(a = 224 /\ b \in 128..159)
    /\ ~(a = 237 /\ b \in 160..191)

Valid4(a, b, c, d) ==
    /\ a \in 240..247 /\ Continues(b) /\ Continues(c) /\ Continues(d)
    /\ ~(a = 240 /\ b \in 128..143)
    /\ ~(a = 244 /\ b > 143)
    /\ a <= 244

\* The loop, from each position to the end.
isValidUtf8(s) ==
    LET n == Len(s)
        ok[i \in 1..(n + 1)] ==
            \/ i = n + 1
            \/ s[i] < 128 /\ ok[i + 1]
            \/ i + 1 <= n /\ Valid2(s[i], s[i + 1]) /\ ok[i + 2]
            \/ i + 2 <= n /\ Valid3(s[i], s[i + 1], s[i + 2]) /\ ok[i + 3]
            \/ i + 3 <= n /\ Valid4(s[i], s[i + 1], s[i + 2], s[i + 3]) /\ ok[i + 4]
    IN  ok[1]
------------------------------------------------------------------------------
\* The Unicode scalar values, and how UTF-8 encodes one: in as few bytes as do.
Scalar(c) == c \in 0..1114111 /\ c \notin 55296..57343

Low(c, shift) == 128 + ((c \div shift) % 64)

Encode(c) ==
    IF c < 128 THEN <<c>>
    ELSE IF c < 2048 THEN <<192 + (c \div 64), Low(c, 1)>>
    ELSE IF c < 65536 THEN <<224 + (c \div 4096), Low(c, 64), Low(c, 1)>>
    ELSE <<240 + (c \div 262144), Low(c, 4096), Low(c, 64), Low(c, 1)>>

\* The only value whose encoding a sequence of bytes can be.
Decode(s) ==
    CASE Len(s) = 1 -> s[1]
      [] Len(s) = 2 -> (s[1] % 32) * 64 + (s[2] % 64)
      [] Len(s) = 3 -> (s[1] % 16) * 4096 + (s[2] % 64) * 64 + (s[3] % 64)
      [] Len(s) = 4 -> (s[1] % 8) * 262144 + (s[2] % 64) * 4096 + (s[3] % 64) * 64 + (s[4] % 64)

IsCharacter(s) == Scalar(Decode(s)) /\ Encode(Decode(s)) = s

\* A text is a sequence of characters.
IsText(s) ==
    LET text[i \in 1..(Len(s) + 1)] ==
            \/ i = Len(s) + 1
            \/ \E n \in 1..4 : /\ i + n - 1 <= Len(s)
                               /\ IsCharacter(SubSeq(s, i, i + n - 1))
                               /\ text[i + n]
    IN  text[1]

\* A byte of each kind that the definitions tell apart, and those at the edges.
Bytes == {65, 128, 143, 144, 159, 160, 191, 193, 194, 224, 237, 239, 240, 244, 245, 255}

\* Every text of up to four bytes, and much that is none.
ShortStrings == UNION {[1..n -> Bytes] : n \in 0..4}
==============================================================================
