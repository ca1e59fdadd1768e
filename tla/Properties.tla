----------------------------- MODULE Properties -----------------------------
(***************************************************************************)
(* The properties of a message: names and values in turn, each ended by a  *)
(* zero byte.  MessageIn::property and Message::findProperty look for one  *)
(* by its name.                                                            *)
(***************************************************************************)
EXTENDS Integers, Sequences, FiniteSetsExt, FiniteSets

VARIABLE lookup    \* the properties of a message, a name, and what was found; or <<>>

\* The zero that ends the string at k: k + strlen.
StringEnd(s, k) == Min({j \in k..Len(s) : s[j] = 0})

\* nullslice, which is no string of bytes.
NotFound == <<-1>>

findProperty_AnyString(s, name) ==
    LET from[k \in 1..(Len(s) + 1)] ==
            IF k > Len(s) THEN NotFound
            ELSE LET endOfKey == StringEnd(s, k)
                     val == endOfKey + 1
                 IN  IF val > Len(s) THEN NotFound
                     ELSE IF SubSeq(s, k, endOfKey - 1) = name
                     THEN SubSeq(s, val, StringEnd(s, val) - 1)
                     ELSE from[val]
    IN  from[1]

\* The loop, from each position.  A name without a value is passed over.
findProperty(s, name) ==
    LET from[k \in 1..(Len(s) + 1)] ==
            IF k > Len(s) THEN NotFound
            ELSE LET endOfKey == StringEnd(s, k)
                     val == endOfKey + 1
                 IN  IF val > Len(s) THEN NotFound
                     ELSE IF SubSeq(s, k, endOfKey - 1) = name
                     THEN SubSeq(s, val, StringEnd(s, val) - 1)
                     ELSE from[StringEnd(s, val) + 1]
    IN  from[1]

\* receivedFrame has checked this, so that no string runs over the end.
NullTerminated(s) == s # <<>> => s[Len(s)] = 0

PropertiesInit == lookup = <<>>

property(s, name) ==
    /\ NullTerminated(s)
    /\ lookup' = <<s, name, findProperty(s, name)>>
------------------------------------------------------------------------------
\* The n-th string, by counting zeros.
Zeros(s, k) == Cardinality({j \in 1..k : s[j] = 0})

String(s, n) == SelectSeq([k \in DOMAIN s |-> IF s[k] # 0 /\ Zeros(s, k) = n - 1 THEN s[k] ELSE 0],
                          LAMBDA b : b # 0)

Strings(s) == Zeros(s, Len(s))

\* Short byte strings with every arrangement of zeros.
Encodings == UNION {[1..n -> 0..2] : n \in 0..6}

Names == {<<>>, <<1>>, <<2>>, <<1, 2>>}

PropertiesNext == \E s \in Encodings : \E name \in Names : property(s, name)

(***************************************************************************)
(* A property is found if and only if it is there, also when its name is   *)
(* the value of another or the beginning of another's name, and when names *)
(* and values are empty or the last value is missing; of two with one name *)
(* it is the first.                                                        *)
(***************************************************************************)
PropertiesFound ==
    lookup # <<>> =>
        LET s == lookup[1]
            at == {i \in 1..(Strings(s) \div 2) : String(s, 2 * i - 1) = lookup[2]}
        IN  lookup[3] = IF at = {} THEN NotFound ELSE String(s, 2 * Min(at))
=============================================================================
