------------------------ MODULE StreamingStringField ------------------------
(***************************************************************************)
(* The preview of a turn: reads the JSON of an answer as it arrives, in    *)
(* pieces cut anywhere, and passes on the characters of one string field   *)
(* of the outermost object.  It is not a validator.                        *)
(*                                                                         *)
(* A character is its Unicode scalar value, a text a sequence of them.     *)
(***************************************************************************)
EXTENDS Naturals, SequencesExt

Quote == 34
Plus == 43
Comma == 44
Colon == 58
Backslash == 92
LowerU == 117
Opening == {91, 123}
Closing == {93, 125}
Brace == 123
Replacement == 65533

(* b, f, n, r and t after a backslash.                                     *)
Escaped == [ch \in {98, 102, 110, 114, 116} |->
              CASE ch = 98 -> 8 [] ch = 102 -> 12 [] ch = 110 -> 10 [] ch = 114 -> 13 [] OTHER -> 9]

NoEscape == [kind |-> "None", digits |-> <<>>]

NewScanner ==
    [phase |-> "SeekingRoot", depth |-> 0, afterColon |-> FALSE, key |-> <<>>,
     purpose |-> "None", name |-> <<>>, escape |-> NoEscape, high |-> 0, out |-> <<>>]

----------------------------------------------------------------------------
(* Characters of a string.                                                 *)

HexValue(ch) ==
    CASE ch \in 48..57 -> ch - 48
      [] ch \in 97..102 -> ch - 87
      [] ch \in 65..70 -> ch - 55
      [] ch = Plus -> 0

(* Four digits, or three after a plus sign: from_str_radix takes a sign.   *)
IsCode(digits) ==
    \A i \in 1..4 : \/ digits[i] \in (48..57) \cup (65..70) \cup (97..102)
                    \/ i = 1 /\ digits[i] = Plus

CodeOf(digits) == FoldLeft(LAMBDA code, ch : 16 * code + HexValue(ch), 0, digits)

Push(s, ch) ==
    CASE s.purpose = "Key" -> [s EXCEPT !.name = Append(@, ch)]
      [] s.purpose = "Captured" -> [s EXCEPT !.out = Append(@, ch)]
      [] OTHER -> s

FlushSurrogate(s) == IF s.high = 0 THEN s ELSE [Push(s, Replacement) EXCEPT !.high = 0]

Emit(s, ch) == Push(FlushSurrogate(s), ch)

(* The two halves of a character beyond 16 bits are escaped one by one; a  *)
(* half without the other becomes the replacement character.               *)
CodePoint(s, code) ==
    CASE code \in 55296..56319 -> [FlushSurrogate(s) EXCEPT !.high = code]
      [] code \in 56320..57343 /\ s.high # 0 ->
            Push([s EXCEPT !.high = 0], 65536 + (s.high - 55296) * 1024 + (code - 56320))
      [] code \in 56320..57343 /\ s.high = 0 -> Push(s, Replacement)
      [] OTHER -> Emit(s, code)

(* The closing quote: a key is remembered, the captured value is the end.  *)
EndString(s) ==
    CASE s.purpose = "Key" -> [s EXCEPT !.purpose = "None", !.key = s.name, !.name = <<>>]
      [] s.purpose = "Captured" -> [NewScanner EXCEPT !.phase = "Done", !.out = s.out]
      [] OTHER -> [s EXCEPT !.purpose = "None"]

FeedUnicode(s, ch) ==
    LET digits == Append(s.escape.digits, ch)
        rest == [s EXCEPT !.escape = NoEscape]
    IN  IF Len(digits) < 4 THEN [s EXCEPT !.escape.digits = digits]
        ELSE IF IsCode(digits) THEN CodePoint(rest, CodeOf(digits))
        ELSE Emit(rest, Replacement)

FeedBackslash(s, ch) ==
    IF ch = LowerU THEN [s EXCEPT !.escape = [kind |-> "Unicode", digits |-> <<>>]]
    ELSE Emit([s EXCEPT !.escape = NoEscape],
              IF ch \in DOMAIN Escaped THEN Escaped[ch] ELSE ch)

FeedString(s, ch) ==
    CASE s.escape.kind = "Unicode" -> FeedUnicode(s, ch)
      [] s.escape.kind = "Backslash" -> FeedBackslash(s, ch)
      [] s.escape.kind = "None" /\ ch = Backslash -> [s EXCEPT !.escape.kind = "Backslash"]
      [] s.escape.kind = "None" /\ ch = Quote -> EndString(FlushSurrogate(s))
      [] OTHER -> Emit(s, ch)

----------------------------------------------------------------------------
(* Characters between the strings.                                         *)

Purpose(s, field) ==
    CASE s.depth = 1 /\ ~s.afterColon -> "Key"
      [] s.depth = 1 /\ s.afterColon /\ s.key = field -> "Captured"
      [] OTHER -> "Ignored"

FeedObject(s, field, ch) ==
    CASE ch = Quote -> [s EXCEPT !.purpose = Purpose(s, field)]
      [] ch \in Opening -> [s EXCEPT !.depth = @ + 1]
      [] ch \in Closing /\ s.depth > 1 -> [s EXCEPT !.depth = @ - 1]
      [] ch \in Closing /\ s.depth = 1 -> [NewScanner EXCEPT !.phase = "Done", !.out = s.out]
      [] ch = Colon /\ s.depth = 1 -> [s EXCEPT !.afterColon = TRUE]
      [] ch = Comma /\ s.depth = 1 -> [s EXCEPT !.afterColon = FALSE]
      [] OTHER -> s

FeedChar(s, field, ch) ==
    CASE s.phase = "SeekingRoot" ->
            IF ch = Brace THEN [s EXCEPT !.phase = "Object", !.depth = 1] ELSE s
      [] s.phase = "Done" -> s
      [] s.phase = "Object" /\ s.purpose # "None" -> FeedString(s, ch)
      [] OTHER -> FeedObject(s, field, ch)

(* The scanner after a piece of text; "out" is what that piece reveals.    *)
Feed(s, field, text) ==
    FoldLeft(LAMBDA scanner, ch : FeedChar(scanner, field, ch), [s EXCEPT !.out = <<>>], text)
=============================================================================
