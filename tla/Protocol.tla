------------------------------ MODULE Protocol ------------------------------
(***************************************************************************)
(* The parser of gateway/protocol.go, which turns a line of a client into  *)
(* an order packet.  A line is a sequence of characters: the digits are    *)
(* 0 to 9, and there are a comma, a space and one character that stands    *)
(* for all others.  The packet has NumFields fields, and MaxValue says     *)
(* which numbers fit into each (the bit size that assignField gives to     *)
(* strconv.ParseUint); in the code they are seven, of 8, 8, 32, 32, 32,    *)
(* 64 and 64 bits.                                                         *)
(***************************************************************************)
EXTENDS Integers, Sequences, FiniteSetsExt

CONSTANTS NumFields,  \* fields of a packet (7)
          MaxValue,   \* the largest value of each field
          Alphabet,   \* the characters that occur
          MaxLength   \* bound: the characters of a line

Comma == 10
Space == 11
Other == 12
Error == <<>>
NoNumber == -1

ASSUME ProtocolAssumption ==
  /\ NumFields \in Nat \ {0} /\ MaxLength \in Nat
  /\ MaxValue \in [0 .. NumFields - 1 -> Nat]
  /\ Alphabet \subseteq 0 .. 9 \cup {Comma, Space, Other}

Lines == UNION {[1 .. n -> Alphabet] : n \in 0 .. MaxLength}

-----------------------------------------------------------------------------
\* The library functions the parser calls: strings.TrimSpace and strconv.ParseUint.
TrimSpace(line) ==
  LET ink == {i \in 1 .. Len(line) : line[i] # Space}
  IN  IF ink = {} THEN <<>> ELSE SubSeq(line, Min(ink), Max(ink))

IsNumeral(val) == val # <<>> /\ \A i \in 1 .. Len(val) : val[i] \in 0 .. 9
ValueOf(val) ==
  LET value[n \in 0 .. Len(val)] == IF n = 0 THEN 0 ELSE 10 * value[n - 1] + val[n]
  IN  value[Len(val)]
ParseUint(val, max) == IF IsNumeral(val) /\ ValueOf(val) <= max THEN ValueOf(val) ELSE NoNumber

\* Field number counter of the packet; a number past the last field is not looked at.
\* As assignField, but the width is not checked (mutant).
assignField_any_width(fields, counter, val) ==
  IF counter >= NumFields THEN fields
  ELSE LET parsed == ParseUint(val, 1000000)
       IN  IF parsed = NoNumber THEN Error ELSE [fields EXCEPT ![counter] = parsed]
assignField(fields, counter, val) ==
  IF counter >= NumFields THEN fields
  ELSE LET parsed == ParseUint(val, MaxValue[counter])
       IN  IF parsed = NoNumber THEN Error ELSE [fields EXCEPT ![counter] = parsed]

\* Where the field that starts at left ends: at the next comma or behind the line.
right(line, left) == Min({Len(line) + 1} \cup {i \in left .. Len(line) : line[i] = Comma})

\* One iteration of the loop; the loop is over at the end of the line and after an error.
Over(line, s) == s.fields = Error \/ s.left > Len(line)
Iteration(line, s) ==
  IF Over(line, s) THEN s
  ELSE LET end == right(line, s.left)
       IN  [left |-> end + 1, counter |-> s.counter + 1,
            fields |-> assignField(s.fields, s.counter, SubSeq(line, s.left, end - 1))]

\* The loop: every iteration moves left, so Len(line) of them end it.
Start == [left |-> 1, counter |-> 0, fields |-> [i \in 0 .. NumFields - 1 |-> 0]]
Loop(line) ==
  LET after[n \in 0 .. Len(line)] == IF n = 0 THEN Start ELSE Iteration(line, after[n - 1])
  IN  after[Len(line)]

ParseCSV(line) ==
  LET s == Loop(TrimSpace(line))
  IN  IF s.fields = Error \/ s.counter # NumFields THEN Error ELSE s.fields

-----------------------------------------------------------------------------
\* What the wire format says.  A line is cut into its fields at cut[0] (before the first)
\* to cut[NumFields] (behind the last), with a comma at every cut between two fields;
\* each field is a number that fits.  Around the fields are spaces, and there may be one
\* comma right behind the last, since the loop does not look at an empty field at the end.
Field(line, cut, k) == SubSeq(line, cut[k] + 1, cut[k + 1] - 1)
IsCut(line, cut) ==
  /\ \A k \in 0 .. NumFields - 1 :
       /\ cut[k] < cut[k + 1]
       /\ ParseUint(Field(line, cut, k), MaxValue[k]) # NoNumber
  /\ \A k \in 1 .. NumFields - 1 : line[cut[k]] = Comma
  /\ \A i \in 1 .. cut[0] : line[i] = Space
  /\ cut[NumFields] <= Len(line) => line[cut[NumFields]] \in {Comma, Space}
  /\ \A i \in cut[NumFields] + 1 .. Len(line) : line[i] = Space

\* The packet that is cut out of the line, and the packets that the line stands for.
CutOut(line, cut) == [k \in 0 .. NumFields - 1 |-> ParseUint(Field(line, cut, k), MaxValue[k])]
Meanings(line) ==
  {CutOut(line, cut) : cut \in {c \in [0 .. NumFields -> 0 .. Len(line) + 1] : IsCut(line, c)}}

\* ParseCSV gives the line the meaning that the format gives it, or none.
Agrees(line) == Meanings(line) = IF ParseCSV(line) = Error THEN {} ELSE {ParseCSV(line)}
=============================================================================
