------------------------------ MODULE Scanner ------------------------------
(***************************************************************************)
(* The scanner: from the bytes of a source file to tokens.                 *)
(*                                                                         *)
(* The text is a string, a sequence of bytes.  Three characters stand for  *)
(* those that take more than one byte in UTF-8: "GH" is a letter such as   *)
(* an accented e, "IJ" a blank such as the no-break space, "QRS" the line  *)
(* separator U+2028; the file is valid UTF-8, so these bytes only occur in *)
(* this order.  "L" is the quote of templates, which no string of TLA+ may *)
(* hold.  Positions start at 0, as in the code.                            *)
(*                                                                         *)
(* The kind of a token is a string: "Identifier", "NumericLiteral", ...,   *)
(* or the text of the keyword or of the punctuation.                       *)
(*                                                                         *)
(* Every scanning function takes the positions it needs and returns a      *)
(* record [pos, value, flags, ends]: where it stops, the value it adds to  *)
(* tokenValue, the token flags it sets, and how it may end: "scanning" as  *)
(* it should, with an "exception", or in a "crash" (code that never comes  *)
(* back).  Code without defined behaviour may go on or crash; one such     *)
(* place is error(), which has no return statement.                        *)
(* JSX, JSDoc, shebangs (recognised nowhere) and the list of comment       *)
(* directives (read nowhere) are left out; skipTrivia is true.             *)
(***************************************************************************)
EXTENDS Integers, Sequences, FiniteSets

CONSTANTS Texts,    \* the source files
          MaxInt    \* the largest int: the largest value stoi() returns

ASSUME MaxIntAssumption == MaxInt \in Nat

VARIABLES text, scanner, status

vars == <<text, scanner, status>>

Lex == INSTANCE Tokens

-----------------------------------------------------------------------------
(* Characters. *)
end == Len(text)
Sub(a, b) == IF a < b THEN SubSeq(text, a + 1, b) ELSE ""
(* substring(): swaps its arguments if they are in the wrong order, as JavaScript does *)
substring(a, b) == IF b < a THEN Sub(b, a) ELSE Sub(a, b)
At(p) == IF p \in 0..(end - 1) THEN SubSeq(text, p + 1, p + 1) ELSE ""
Starts(p, w) == p + Len(w) <= end /\ Sub(p, p + Len(w)) = w

(* The character at a byte.  In the middle of a character there is none, and what should be *)
(* its length is the position.                                                              *)
charCodeAt(p) ==
    CASE At(p) = "G" -> [code |-> "letter", length |-> 2]
      [] At(p) = "I" -> [code |-> "blank", length |-> 2]
      [] At(p) = "Q" -> [code |-> "separator", length |-> 3]
      [] At(p) \in {"H", "J", "R", "S"} -> [code |-> "invalid", length |-> p]
      [] OTHER -> [code |-> At(p), length |-> 1]

Tick    == "L"
Binary  == {"0", "1"}
Octals  == Binary \cup {"2", "3", "4", "5", "6", "7"}
Digits  == Octals \cup {"8", "9"}
HexLetters == {"a", "b", "c", "d", "e", "f", "A", "B", "C", "D", "E", "F"}
Lower   == {"a", "b", "c", "d", "e", "f", "g", "h", "i", "j", "k", "l", "m", "n", "o", "p", "q",
            "r", "s", "t", "u", "v", "w", "x", "y", "z"}
Upper   == {"A", "B", "C", "D", "E", "F", "K", "M", "N", "O", "P", "T", "U", "V", "W", "X", "Y", "Z"}
isDigit(c) == c \in Digits
isHexDigit(c) == c \in Digits \cup HexLetters
isOctalDigit(c) == c \in Octals
isUnicodeIdentifierStart(code) == code = "letter"    \* the same characters as isUnicodeIdentifierPart
isIdentifierStart(code) == code \in Lower \cup Upper \cup {"$", "_"} \/ isUnicodeIdentifierStart(code)
isIdentifierPart(code) == isIdentifierStart(code) \/ isDigit(code)
isLineBreak(code) == code \in {"\n", "\r", "separator"}

(* The first position from p on whose character is not in C, and the first that is in C. *)
While(p, C) == CHOOSE q \in p..end : At(q) \notin C /\ \A r \in p..(q - 1) : At(r) \in C
Until(p, C) == CHOOSE q \in p..end : (q = end \/ At(q) \in C) /\ \A r \in p..(q - 1) : At(r) \notin C

Ok(p, value) == [pos |-> p, value |-> value, flags |-> {}, ends |-> {"scanning"}]
Fail(p, how) == [Ok(p, "") EXCEPT !.ends = {how}]
Undefined(p) == [Ok(p, "") EXCEPT !.ends = {"scanning", "crash"}]
Flag(r, flag) == [r EXCEPT !.flags = @ \cup {flag}]
(* One after the other: the second starts where the first stops. *)
Then(r, Next(_)) ==
    IF "scanning" \notin r.ends THEN r
    ELSE LET n == Next(r.pos)
         IN  [n EXCEPT !.value = r.value \o @, !.flags = r.flags \cup @, !.ends = (r.ends \ {"scanning"}) \cup @]

-----------------------------------------------------------------------------
(* Digits.  (What takes a value and uses it more than once is a function rather than an operator, *)
(* so that TLC computes the value once.)                                                          *)
DigitValue == [c \in Digits |-> CHOOSE n \in 0..9 : c = SubSeq("0123456789", n + 1, n + 1)]
HexValue(c) ==
    IF isDigit(c) THEN DigitValue[c]
    ELSE CHOOSE n \in 10..15 : c \in {SubSeq("abcdef", n - 9, n - 9), SubSeq("ABCDEF", n - 9, n - 9)}
Char(s, i) == SubSeq(s, i, i)
IsDigitOf(c, base) == isHexDigit(c) /\ HexValue(c) < base
(* How many digits s starts with, and the number that the first n are. *)
Leading[s \in STRING, base \in Nat] ==
    CHOOSE k \in 0..Len(s) : /\ \A j \in 1..k : IsDigitOf(Char(s, j), base)
                             /\ k = Len(s) \/ ~IsDigitOf(Char(s, k + 1), base)
Number[s \in STRING, base \in Nat, n \in Nat] ==
    IF n = 0 THEN 0 ELSE base * Number[s, base, n - 1] + HexValue(Char(s, n))
InInt[n \in Nat] == IF n > MaxInt THEN -3 ELSE n
(* stoi(): the number that the string starts with.  None is an exception (-2), and so is one     *)
(* that no int holds (-3).                                                                       *)
stoi[s \in STRING, base \in Nat] ==
    IF Leading[s, base] = 0 THEN -2 ELSE InInt[Number[s, base, Leading[s, base]]]
to_string[n \in Nat] == IF n < 10 THEN Char("0123456789", n + 1) ELSE to_string[n \div 10] \o to_string[n % 10]

(* The bytes of p..q-1 that are in C, as a string. *)
Only[p \in Nat, q \in Nat, C \in SUBSET Digits] ==
    IF q <= p THEN "" ELSE Only[p, q - 1, C] \o (IF At(q - 1) \in C THEN At(q - 1) ELSE "")
Separators(p, q) == {f \in {"ContainsSeparator"} : \E r \in p..(q - 1) : At(r) = "_"}
scanNumberFragment[p \in Nat] == While(p, Digits \cup {"_"})
scanBinaryOrOctalDigits(p, digits) == While(p, digits \cup {"_"})
scanOctalDigits(p) == While(p, Octals)
(* Every hex digit adds substring(text, pos, 1), the text between the second character of the  *)
(* file and the digit, instead of the digit.                                                   *)
HexText[p \in Nat, q \in Nat] ==
    IF q <= p THEN "" ELSE HexText[p, q - 1] \o (IF isHexDigit(At(q - 1)) THEN substring(q - 1, 1) ELSE "")
(* The end of at most count hex digits. *)
HexEnd[p \in Nat, count \in Nat, separators \in BOOLEAN] ==
    CHOOSE q \in p..end :
        /\ \A r \in p..(q - 1) : isHexDigit(At(r)) \/ (separators /\ At(r) = "_")
        /\ q = p + count \/ ~(isHexDigit(At(q)) \/ (separators /\ At(q) = "_"))
scanMinimumNumberOfHexDigits(p, separators) == HexEnd[p, end, separators]
scanExactNumberOfHexDigits(p, count) == HexEnd[p, count, FALSE]
(* stoi() to the base 16 skips blanks, a sign and "0x". *)
Blank(c) == c \in {" ", "\t", "\n"}
HexStart[s \in STRING] ==
    CASE s # "" /\ (Blank(Char(s, 1)) \/ Char(s, 1) \in {"+", "-"}) -> 1 + HexStart[SubSeq(s, 2, Len(s))]
      [] Len(s) > 2 /\ SubSeq(s, 1, 2) \in {"0x", "0X"} /\ isHexDigit(Char(s, 3)) -> 3
      [] OTHER -> 1
(* The number that the hex digits p..q-1 stand for: -1 if there are none, or it is negative. *)
HexNumber[s \in STRING] ==
    IF s = "" THEN -1
    ELSE IF \E i \in 1..(HexStart[s] - 1) : Char(s, i) = "-" THEN -1
    ELSE stoi[SubSeq(s, HexStart[s], Len(s)), 16]
HexCode[p \in Nat, q \in Nat] == HexNumber[HexText[p, q]]

-----------------------------------------------------------------------------
(* Escapes.  No notation of TLA+ writes a backspace or a vertical tab. *)
Ascii == " !\"#$%&'()*+,-./0123456789:;<=>?@ABCDEFGHIJKLMNOPQRSTUVWXYZ[\\]^_Labcdefghijklmnopqrstuvwxyz{|}~"
Backspace   == "<b>"
VerticalTab == "<v>"
(* The character with this code; one above 127 stands for any letter. *)
fromCharCode[n \in Nat] ==
    CASE n = 0 -> ""
      [] n \in 32..126 -> Char(Ascii, n - 31)
      [] n = 9 -> "\t" [] n = 10 -> "\n" [] n = 12 -> "\f" [] n = 13 -> "\r"
      [] n \in (1..31) \ {9, 10, 12, 13} -> Backspace
      [] n > 126 -> "GH"
CodeOf[n \in Nat] == IF n > 127 THEN "letter" ELSE fromCharCode[n]

(* What the escape with this code becomes. *)
Decode[n \in Int] == IF n < 0 \/ n > 1114111 THEN "" ELSE fromCharCode[n]
EndsFor[n \in Int] == IF n < -1 THEN {"exception"} ELSE {"scanning"}
Decoded(q, n) == [pos |-> q, value |-> Decode[n], flags |-> {}, ends |-> EndsFor[n]]
scanHexadecimalEscape(p, count) ==
    Decoded(scanExactNumberOfHexDigits(p, count), HexCode[p, scanExactNumberOfHexDigits(p, count)])
scanExtendedUnicodeEscape(p) ==     \* p: behind the "\u{"
    LET q == scanMinimumNumberOfHexDigits(p, FALSE)
    IN  IF At(q) = "}" THEN Decoded(q + 1, HexCode[p, q]) ELSE [Decoded(q, HexCode[p, q]) EXCEPT !.value = ""]

SimpleEscapes ==
    [b |-> Backspace, t |-> "\t", n |-> "\n", v |-> VerticalTab, f |-> "\f", r |-> "\r"]
(* What the escape at p, the position of its backslash, stands for.  In a tagged template an    *)
(* escape that is not valid stands for itself.                                                  *)
Invalid(p, q) == Flag(Ok(q, Sub(p, q)), "ContainsInvalidEscape")
NotHex(p) == {q \in (p + 2)..(p + 5) : q < end /\ ~isHexDigit(At(q)) /\ At(q) # "{"}
TaggedExtended(p, q, code) ==     \* the hex digits p + 3..q-1 in braces, in a tagged template
    CASE q = p + 3 -> Invalid(p, q)
      [] q > p + 3 /\ code = -3 -> Fail(q, "exception")
      [] q > p + 3 /\ code # -3 /\ (code = -2 \/ At(q) # "}") -> Invalid(p, q)
      [] OTHER -> Flag(scanExtendedUnicodeEscape(p + 3), "ExtendedUnicodeEscape")
UnicodeEscape(p, tagged) ==
    IF tagged /\ NotHex(p) # {} THEN Invalid(p, CHOOSE q \in NotHex(p) : \A r \in NotHex(p) : q <= r)
    ELSE IF At(p + 2) # "{" THEN Flag(scanHexadecimalEscape(p + 2, 4), "UnicodeEscape")
    ELSE IF tagged THEN LET q == scanMinimumNumberOfHexDigits(p + 3, FALSE) IN TaggedExtended(p, q, HexCode[p + 3, q])
    ELSE Flag(scanExtendedUnicodeEscape(p + 3), "ExtendedUnicodeEscape")
HexEscape(p, tagged) ==
    CASE tagged /\ ~isHexDigit(At(p + 2)) -> Invalid(p, p + 2)
      [] tagged /\ isHexDigit(At(p + 2)) /\ ~isHexDigit(At(p + 3)) -> Invalid(p, p + 3)
      [] OTHER -> scanHexadecimalEscape(p + 2, 2)
scanEscapeSequence(p, tagged) ==
    LET c == At(p + 1)
    IN  CASE c = "" -> Ok(p + 1, "")
          [] c = "0" -> IF tagged /\ isDigit(At(p + 2)) THEN Invalid(p, p + 3) ELSE Ok(p + 2, "")
          [] c \in DOMAIN SimpleEscapes -> Ok(p + 2, SimpleEscapes[c])
          [] c = "u" -> UnicodeEscape(p, tagged)
          [] c = "x" -> HexEscape(p, tagged)
          [] c = "\r" -> Ok(IF At(p + 2) = "\n" THEN p + 3 ELSE p + 2, "")
          [] isLineBreak(charCodeAt(p + 1).code) /\ c # "\r" -> Ok(p + 2, "")
          [] OTHER -> Ok(p + 2, Sub(p + 1, p + 1 + charCodeAt(p + 1).length))

-----------------------------------------------------------------------------
(* Strings and templates: the token at p up to its end. *)
scanString(p) ==
    LET body[q \in (p + 1)..end] ==
            CASE At(q) = At(p) -> Ok(q + 1, "")
              [] At(q) = "\\" -> Then(scanEscapeSequence(q, FALSE), LAMBDA r : body[r])
              [] At(q) = "" \/ isLineBreak(charCodeAt(q).code) -> Flag(Ok(q, ""), "Unterminated")
              [] OTHER -> Then(Ok(q + 1, At(q)), LAMBDA r : body[r])
    IN  body[p + 1]
(* Mutant: "\r\n" counts as two line ends. *)
scanTemplateAndSetTokenValueTwice(p, tagged) ==
    LET body[q \in (p + 1)..end] ==
            CASE At(q) = "" -> Flag(Ok(q, ""), "Unterminated")
              [] At(q) = Tick -> Ok(q + 1, "")
              [] Starts(q, "${") -> Ok(q + 2, "")
              [] At(q) = "\\" -> Then(scanEscapeSequence(q, tagged), LAMBDA r : body[r])
              [] At(q) = "\r" -> Then(Ok(q + 1, "\n"), LAMBDA r : body[r])
              [] OTHER -> Then(Ok(q + 1, At(q)), LAMBDA r : body[r])
    IN  body[p + 1]
(* Every line end of a template counts as "\n". *)
scanTemplateAndSetTokenValue(p, tagged) ==
    LET body[q \in (p + 1)..end] ==
            CASE At(q) = "" -> Flag(Ok(q, ""), "Unterminated")
              [] At(q) = Tick -> Ok(q + 1, "")
              [] Starts(q, "${") -> Ok(q + 2, "")
              [] At(q) = "\\" -> Then(scanEscapeSequence(q, tagged), LAMBDA r : body[r])
              [] At(q) = "\r" -> Then(Ok(IF At(q + 1) = "\n" THEN q + 2 ELSE q + 1, "\n"), LAMBDA r : body[r])
              [] OTHER -> Then(Ok(q + 1, At(q)), LAMBDA r : body[r])
    IN  body[p + 1]
(* The kind of the part of a template from p to q. *)
TemplateKind(p, r) ==
    LET open == At(r.pos - 1) = "{" /\ "Unterminated" \notin r.flags
    IN  IF At(p) = Tick THEN IF open THEN "TemplateHead" ELSE "NoSubstitutionTemplateLiteral"
        ELSE IF open THEN "TemplateMiddle" ELSE "TemplateTail"

-----------------------------------------------------------------------------
(* Names.  A peek is the code of the escape at p: -1 if there is none, less if it throws. *)
peekExtendedUnicodeEscape[p \in Nat] ==
    IF Starts(p, "\\u{") THEN HexCode[p + 3, scanMinimumNumberOfHexDigits(p + 3, FALSE)] ELSE -1
peekUnicodeEscape[p \in Nat] ==
    IF p + 5 < end /\ At(p + 1) = "u" THEN HexCode[p + 2, scanExactNumberOfHexDigits(p + 2, 4)] ELSE -1
(* What the backslash at p starts, given the codes of the two peeks, if they have to fit. *)
Fits[n \in Int, fit \in {"part", "start"}] ==
    n >= 0 /\ (IF fit = "part" THEN isIdentifierPart(CodeOf[n]) ELSE isIdentifierStart(CodeOf[n]))
EscapeKind(extended, plain, fit) ==
    CASE Fits[extended, fit] -> "extended"
      [] extended >= -1 /\ ~Fits[extended, fit] /\ Fits[plain, fit] -> "plain"
      [] ~Fits[extended, fit] /\ (extended < -1 \/ plain < -1) -> "exception"
      [] OTHER -> "none"
EscapeAt(p, fit) == EscapeKind(peekExtendedUnicodeEscape[p], peekUnicodeEscape[p], fit)
(* The escape of this kind at p, behind what has been read, and what follows it. *)
Escape(kind, p, read, Rest(_), Else) ==
    CASE kind = "extended" -> Then(Flag(scanExtendedUnicodeEscape(p + 3), "ExtendedUnicodeEscape"), Rest)
      [] kind = "plain" -> Then(Flag(Ok(p + 6, read \o fromCharCode[peekUnicodeEscape[p]]), "UnicodeEscape"), Rest)
      [] kind = "exception" -> Fail(p, "exception")
      [] kind = "none" -> Else
(* The rest of a name.  The characters between two escapes (from s on) get lost in front of one *)
(* with braces.                                                                                 *)
scanIdentifierParts(p) ==
    LET parts[s \in p..end, q \in p..end] ==
            IF isIdentifierPart(charCodeAt(q).code) THEN parts[s, q + charCodeAt(q).length]
            ELSE Escape(IF At(q) = "\\" THEN EscapeAt(q, "part") ELSE "none", q, Sub(s, q),
                        LAMBDA r : parts[r, r], Ok(q, Sub(s, q)))
    IN  parts[p, p]
(* A name whose first character is at p and whose value starts at tokenPos (in front of a "#"). *)
NameEnd(p) ==
    LET f[q \in p..end] == IF isIdentifierPart(charCodeAt(q).code) THEN f[q + charCodeAt(q).length] ELSE q IN f[p]
scanIdentifier(p, tokenPos) ==
    Then(Ok(NameEnd(p), Sub(tokenPos, NameEnd(p))),
         LAMBDA q : IF At(q) = "\\" THEN scanIdentifierParts(q) ELSE Ok(q, ""))
Keywords == Lex!ReservedWords \cup Lex!OtherKeywords
getIdentifierToken(value) == IF value \in Keywords THEN value ELSE "Identifier"

-----------------------------------------------------------------------------
(* The literals that are numbers. *)
(* parsePseudoBigInt(): writes to a vector without elements and counts an unsigned index down  *)
(* below zero.                                                                                 *)
parsePseudoBigInt(p) == Fail(p, "crash")
(* Letters right behind a number are an error(); only a lone "n" is taken as part of it. *)
checkForIdentifierStartAfterNumericLiteral(p) ==
    IF ~isIdentifierStart(charCodeAt(p).code) THEN Ok(p, "")
    ELSE Then([scanIdentifierParts(p) EXCEPT !.value = ""],
              LAMBDA q : Undefined(IF At(p) = "n" /\ q = p + 1 THEN q ELSE p))
(* checkBigIntSuffix(): the digits with their prefix.  stoi() reads a hex number to the base 10, *)
(* up to the "x".                                                                                *)
Integer(p, n) == [Ok(p, IF n < 0 THEN "" ELSE to_string[n]) EXCEPT !.ends = IF n < 0 THEN {"exception"} ELSE @]
Base == [b |-> 2, o |-> 8, d |-> 10]
checkBigIntSuffix(p, base, digits) ==
    CASE At(p) = "n" /\ base \in {"b", "o"} -> parsePseudoBigInt(p + 1)
      [] At(p) = "n" /\ base \notin {"b", "o"} -> Ok(p + 1, (IF base = "x" THEN "0x" ELSE "") \o digits \o "n")
      [] OTHER -> Integer(p, IF base = "x" THEN 0 ELSE stoi[digits, Base[base]])

(* scanNumber(): decimal numbers.  The value of one with a fraction or an exponent is           *)
(* "" + stoi(...), an address that many bytes behind the start of an empty string.              *)
FractionEnd[p \in Nat] == IF At(p) = "." THEN scanNumberFragment[p + 1] ELSE p
ExponentEnd[p \in Nat] ==
    IF At(p) \in {"e", "E"} THEN scanNumberFragment[p + 1 + (IF At(p + 1) \in {"+", "-"} THEN 1 ELSE 0)] ELSE p
Float(q, n) ==
    CASE n < 0 -> Fail(q, "exception") [] n = 0 -> Ok(q, "") [] n > 0 -> Undefined(q)
NumberOf(p, main, decimal, last) ==
    [IF last > main
     THEN Then(checkForIdentifierStartAfterNumericLiteral(last), LAMBDA q : Float(q, stoi[Only[p, main, Digits], 10]))
     ELSE Then(checkBigIntSuffix(main, "d", Only[p, main, Digits]), checkForIdentifierStartAfterNumericLiteral)
     EXCEPT !.flags = @ \cup Separators(p, last) \cup {f \in {"Scientific"} : last > decimal}]
FractionFrom(p, main, decimal) == NumberOf(p, main, decimal, ExponentEnd[decimal])
MainFrom(p, main) == FractionFrom(p, main, FractionEnd[main])
scanNumber(p) == MainFrom(p, scanNumberFragment[p])

(* 0x, 0b, 0o and old octal numbers *)
BasePrefixes == [x |-> "x", X |-> "x", b |-> "b", B |-> "b", o |-> "o", O |-> "o"]
Specifier == [x |-> "HexSpecifier", b |-> "BinarySpecifier", o |-> "OctalSpecifier"]
IsPrefixed(p) == p + 2 < end /\ At(p) = "0" /\ At(p + 1) \in DOMAIN BasePrefixes
NonEmpty[digits \in STRING] == IF digits = "" THEN "0" ELSE digits
PrefixedEnd[p \in Nat, base \in {"x", "b", "o"}] ==
    CASE base = "x" -> scanMinimumNumberOfHexDigits(p, TRUE)
      [] base = "b" -> scanBinaryOrOctalDigits(p, Binary)
      [] base = "o" -> scanBinaryOrOctalDigits(p, Octals)
PrefixedDigits[p \in Nat, q \in Nat, base \in {"x", "b", "o"}] ==
    CASE base = "x" -> HexText[p, q] [] base = "b" -> Only[p, q, Binary] [] base = "o" -> Only[p, q, Octals]
PrefixedFrom(p, q, base) ==
    [checkBigIntSuffix(q, base, NonEmpty[PrefixedDigits[p + 2, q, base]])
     EXCEPT !.flags = Separators(p, q) \cup {Specifier[base]}]
PrefixedNumber(p, base) == PrefixedFrom(p, PrefixedEnd[p + 2, base], base)
OctalNumber(p) == Flag(Integer(scanOctalDigits(p), stoi[Sub(p, scanOctalDigits(p)), 10]), "Octal")
NumberAt(p) ==
    CASE IsPrefixed(p) -> PrefixedNumber(p, BasePrefixes[At(p + 1)])
      [] ~IsPrefixed(p) /\ At(p) = "0" /\ isOctalDigit(At(p + 1)) -> OctalNumber(p)
      [] OTHER -> scanNumber(p)
NumberKind[value \in STRING] ==
    IF value # "" /\ Char(value, Len(value)) = "n" THEN "BigIntLiteral" ELSE "NumericLiteral"

-----------------------------------------------------------------------------
(* Trivia: the blanks, line ends and comments from p on.  A blank of two bytes is skipped by     *)
(* one.  A conflict marker is reported by a function that calls itself.                          *)
isConflictMarkerTrivia(p) ==
    /\ p = 0 \/ isLineBreak(charCodeAt(p - 1).code)
    /\ p + 7 < end /\ \A i \in 1..6 : At(p + i) = At(p)
    /\ At(p) = "=" \/ At(p + 7) = " "
scanConflictMarkerTrivia(p) == Fail(p, "crash")
LineBreaks == {"\n", "\r", "Q"}
CommentEnd(p) ==
    LET closed == {q \in p..end : Starts(q, "*/")}
    IN  IF closed = {} THEN end ELSE (CHOOSE q \in closed : \A r \in closed : q <= r) + 2
(* Mutant: forgets the line ends in a comment. *)
MultiLineCommentOneLine(p) ==
    [Ok(CommentEnd(p + 2), "") EXCEPT !.flags = {f \in {"PrecedingJSDocComment"} : At(p + 2) = "*" /\ At(p + 3) # "/"}]
MultiLineComment(p) ==
    LET q == CommentEnd(p + 2)
        jsDoc == At(p + 2) = "*" /\ At(p + 3) # "/"
    IN  [Ok(q, "") EXCEPT !.flags = {f \in {"PrecedingJSDocComment"} : jsDoc}
                                 \cup {f \in {"PrecedingLineBreak"} : \E r \in (p + 2)..(q - 1) : At(r) \in LineBreaks}]
Trivia(p) ==
    LET skip[q \in Nat] ==
            LET Skip(r) == Then(r, LAMBDA n : skip[n])
            IN  CASE At(q) \in {"\n", "\r"} -> Skip(Flag(Ok(q + 1, ""), "PrecedingLineBreak"))
                  [] At(q) = "Q" -> Skip(Flag(Ok(q + 3, ""), "PrecedingLineBreak"))
                  [] At(q) \in {" ", "\t", "\f", "I"} -> Skip(Ok(q + 1, ""))
                  [] Starts(q, "//") -> Skip(Ok(Until(q + 2, LineBreaks), ""))
                  [] Starts(q, "/*") -> Skip(MultiLineComment(q))
                  [] At(q) \in {"<", "=", ">", "|"} /\ isConflictMarkerTrivia(q) -> scanConflictMarkerTrivia(q)
                  [] OTHER -> Ok(q, "")
    IN  skip[p]

(* Operators and brackets, in the order in which scan() tries them. *)
(* skipTrivia(): the same for the place of an error, without a scanner.  Every blank and line end *)
(* is one byte, and a conflict marker is trivia up to the end of its line or the next marker.     *)
ConflictMarkerEnd(p) ==
    LET Ends(q) == IF At(p) \in {"<", ">"} THEN At(q) \in LineBreaks
                   ELSE At(q) \in {"=", ">"} \ {At(p)} /\ isConflictMarkerTrivia(q)
    IN  CHOOSE q \in p..end : (q = end \/ Ends(q)) /\ \A r \in p..(q - 1) : ~Ends(r)
skipTrivia(p) ==
    LET skip[q \in Nat] ==
            CASE At(q) \in {"\n", "\r", " ", "\t", "\f", "I", "Q"} -> skip[q + 1]
              [] Starts(q, "//") -> skip[Until(q + 2, LineBreaks)]
              [] Starts(q, "/*") -> skip[CommentEnd(q + 2)]
              [] At(q) \in {"<", "|", "=", ">"} /\ isConflictMarkerTrivia(q) -> skip[ConflictMarkerEnd(q)]
              [] OTHER -> q
    IN  skip[p]

(* Mutant: tests for "<<" before "<<=". *)
OperatorsShortFirst ==
    <<"!==", "!=", "!", "%=", "%", "&&=", "&&", "&=", "&", "(", ")", "*=", "**=", "**", "*", "++", "+=", "+",
      ",", "--", "-=", "-", "...", ".", "/=", "/", ":", ";", "<<", "<<=", "<=", "<", "===", "==", "=>", "=",
      ">", "?.", "??=", "??", "?", "[", "]", "^=", "^", "{", "||=", "||", "|=", "|", "}", "~", "@">>
Operators ==
    <<"!==", "!=", "!", "%=", "%", "&&=", "&&", "&=", "&", "(", ")", "*=", "**=", "**", "*", "++", "+=", "+",
      ",", "--", "-=", "-", "...", ".", "/=", "/", ":", ";", "<<=", "<<", "<=", "<", "===", "==", "=>", "=",
      ">", "?.", "??=", "??", "?", "[", "]", "^=", "^", "{", "||=", "||", "|=", "|", "}", "~", "@">>
Matching(p) == {i \in DOMAIN Operators : Starts(p, Operators[i]) /\ ~(Operators[i] = "?." /\ isDigit(At(p + 2)))}
OperatorAt(p) == Operators[CHOOSE i \in Matching(p) : \A j \in Matching(p) : i <= j]

(* The token at p, behind the trivia: [tok, r], r as for the other scanning functions.  Operators *)
(* leave tokenValue as it is.                                                                     *)
Token(tok, r) == [tok |-> tok, r |-> r]
(* Mutant: stays at a character that starts no token. *)
UnknownStuck(p, length) == Token("Unknown", [Undefined(p) EXCEPT !.value = scanner.tokenValue])
Unknown(p, length) == Token("Unknown", [Undefined(p + length) EXCEPT !.value = scanner.tokenValue])
Name(r) == Token("Name", r)         \* an identifier or a keyword
EscapedName(kind, p) ==
    IF kind = "none" THEN Unknown(p, 1) ELSE Name(Escape(kind, p, "", scanIdentifierParts, Ok(p, "")))
PrivateName(p) ==
    CASE p # 0 /\ At(p + 1) = "!" -> Unknown(p, 1)
      [] isIdentifierStart(charCodeAt(p + 1).code) -> Token("PrivateIdentifier", scanIdentifier(p + 1, p))
      [] OTHER -> Token("PrivateIdentifier", [Undefined(p + 1) EXCEPT !.value = "#"])
IsNumberAt(p) == isDigit(At(p)) \/ (At(p) = "." /\ isDigit(At(p + 1)))
TokenAt(p) ==
    LET ch == charCodeAt(p)
    IN  CASE p >= end -> Token("EndOfFile", Ok(p, scanner.tokenValue))
          [] At(p) \in {"'", "\""} -> Token("StringLiteral", scanString(p))
          [] At(p) = Tick -> Token("Template", scanTemplateAndSetTokenValue(p, FALSE))
          [] IsNumberAt(p) -> Token("Number", NumberAt(p))
          [] At(p) = "\\" -> EscapedName(EscapeAt(p, "start"), p)
          [] At(p) = "#" -> PrivateName(p)
          [] isIdentifierStart(ch.code) -> Name(scanIdentifier(p, p))
          [] Matching(p) # {} /\ ~IsNumberAt(p) ->
               Token(OperatorAt(p), Ok(p + Len(OperatorAt(p)), scanner.tokenValue))
          [] OTHER -> Unknown(p, ch.length)

(* Mutant: a "/" in brackets ends the regular expression. *)
RegularExpressionPlain(p) ==
    LET body[q \in p..end, inEscape \in BOOLEAN] ==
            CASE At(q) = "" \/ isLineBreak(charCodeAt(q).code) -> Flag(Undefined(q), "Unterminated")
              [] At(q) = "/" /\ ~inEscape -> Ok(q + 1, "")
              [] OTHER -> body[q + 1, ~inEscape /\ At(q) = "\\"]
        r == body[p + 1, FALSE]
    IN  [r EXCEPT !.value = Sub(p, r.pos)]
(* The regular expression whose "/" is at p: up to the next "/" that neither follows a backslash *)
(* nor stands in brackets, and the letters behind it.  Without one it ends with the line.        *)
RegularExpression(p) ==
    LET body[q \in p..end, inEscape \in BOOLEAN, inCharacterClass \in BOOLEAN] ==
            CASE At(q) = "" \/ isLineBreak(charCodeAt(q).code) -> Flag(Undefined(q), "Unterminated")
              [] At(q) = "/" /\ ~inEscape /\ ~inCharacterClass -> Ok(q + 1, "")
              [] OTHER -> body[q + 1, ~inEscape /\ At(q) = "\\",
                               IF ~inEscape /\ At(q) \in {"[", "]"} THEN At(q) = "[" ELSE inCharacterClass]
        flags[q \in p..end] == IF isIdentifierPart(charCodeAt(q).code) THEN flags[q + 1] ELSE q
        r == Then(body[p + 1, FALSE, FALSE], LAMBDA q : Ok(flags[q], ""))
    IN  [r EXCEPT !.value = Sub(p, r.pos)]

-----------------------------------------------------------------------------
(* setText() *)
Init ==
    /\ text \in Texts
    /\ scanner = [pos |-> 0, startPos |-> 0, tokenPos |-> 0, token |-> "Unknown", tokenValue |-> "", tokenFlags |-> {}]
    /\ status = "scanning"

Scanning == status = "scanning" /\ scanner.token # "EndOfFile"
(* The scanner takes this state, unless it ends otherwise. *)
Take(next, ends) ==
    /\ status' \in ends
    /\ scanner' = IF status' = "scanning" THEN next ELSE scanner
    /\ UNCHANGED text

Kind(p, k) ==
    CASE k.tok = "Name" -> getIdentifierToken(k.r.value)
      [] k.tok = "Number" -> NumberKind[k.r.value]
      [] k.tok = "Template" -> TemplateKind(p, k.r)
      [] OTHER -> k.tok
ScanAt(trivia, k) ==
    Take([pos |-> k.r.pos, startPos |-> scanner.pos, tokenPos |-> trivia.pos, token |-> Kind(trivia.pos, k),
          tokenValue |-> k.r.value, tokenFlags |-> trivia.flags \cup k.r.flags], k.r.ends)
Scan ==
    /\ Scanning
    /\ \E trivia \in {Trivia(scanner.pos)} :
         \E k \in {IF "scanning" \in trivia.ends THEN TokenAt(trivia.pos) ELSE Token("Unknown", trivia)} :
            ScanAt(trivia, k)

(* The token is scanned again because of where the parser meets it. *)
Again(tok, r) ==
    Take([scanner EXCEPT !.pos = r.pos, !.token = tok, !.tokenValue = r.value, !.tokenFlags = @ \cup r.flags], r.ends)
Shorter(tok, one) == Scanning /\ scanner.token = tok /\ Again(one, Ok(scanner.tokenPos + 1, scanner.tokenValue))
reScanAsteriskEqualsToken == Shorter("*=", "=")
reScanLessThanToken == Shorter("<<", "<")
reScanQuestionToken == Shorter("??", "?")
reScanHashToken == Shorter("PrivateIdentifier", "#")
GreaterOperators == <<">>>=", ">>>", ">>=", ">>", ">=", ">">>
reScanGreaterToken ==
    /\ Scanning /\ scanner.token = ">"
    /\ LET op == GreaterOperators[CHOOSE i \in 1..6 : /\ Starts(scanner.tokenPos, GreaterOperators[i])
                                                      /\ \A j \in 1..(i - 1) : ~Starts(scanner.tokenPos, GreaterOperators[j])]
       IN  Again(op, Ok(scanner.tokenPos + Len(op), scanner.tokenValue))
reScanSlashToken ==
    /\ Scanning /\ scanner.token \in {"/", "/="}
    /\ \E r \in {RegularExpression(scanner.tokenPos)} : Again("RegularExpressionLiteral", r)
Template(tagged) ==
    \E r \in {scanTemplateAndSetTokenValue(scanner.tokenPos, tagged)} : Again(TemplateKind(scanner.tokenPos, r), r)
reScanTemplateToken(tagged) == Scanning /\ scanner.token = "}" /\ Template(tagged)
reScanTemplateHeadOrNoSubstitutionTemplate ==
    Scanning /\ scanner.token \in {"NoSubstitutionTemplateLiteral", "TemplateHead"} /\ Template(TRUE)

Done == ~Scanning /\ UNCHANGED vars

Next ==
    \/ Scan
    \/ reScanAsteriskEqualsToken \/ reScanLessThanToken \/ reScanQuestionToken \/ reScanHashToken
    \/ reScanGreaterToken \/ reScanSlashToken
    \/ \E tagged \in BOOLEAN : reScanTemplateToken(tagged)
    \/ reScanTemplateHeadOrNoSubstitutionTemplate
    \/ Done

Spec == Init /\ [][Next]_vars

-----------------------------------------------------------------------------
(* The parser asks hasPrecedingLineBreak() to insert semicolons and to end types and statements: *)
(* scan() skips all blanks, line ends and comments in front of a token and nothing else, and the *)
(* flag is set exactly if a line end is among them, in a comment too.  skipTrivia() finds the     *)
(* same token from the start of a node, where the parser reports errors (with a line separator    *)
(* of three bytes it does not).                                                                   *)
BlankBytes == {" ", "\t", "\f", "\n", "\r", "Q", "R", "S"}
BehindComment(c) ==
    IF Starts(c, "//") THEN Until(c + 2, LineBreaks) ELSE IF Starts(c, "/*") THEN CommentEnd(c + 2) ELSE c
TriviaFaithful ==
    LET a == scanner.startPos
        b == scanner.tokenPos
    IN  scanner.token # "Unknown" =>
            /\ \A q \in a..(b - 1) :
                 At(q) \in BlankBytes \/ \E c \in a..q : q < BehindComment(c) /\ BehindComment(c) <= b
            /\ At(b) \notin BlankBytes /\ BehindComment(b) = b
            /\ ("PrecedingLineBreak" \in scanner.tokenFlags) = (\E q \in a..(b - 1) : At(q) \in LineBreaks)
            /\ skipTrivia(a) = b \/ \E q \in a..(b - 1) : At(q) = "Q"

(* An operator is the longest one that the text goes on with, so that no order of the tests in   *)
(* scan() and reScanGreaterToken() hides one behind a shorter one.  Left out: ">", which is put   *)
(* together only when the parser asks, "?." in front of a digit, and what the parser has cut to  *)
(* one character.                                                                                *)
Punctuation ==
    {"{", "}", "(", ")", "[", "]", ".", "...", ";", ",", "<", "<=", ">=", "==", "!=", "===", "!==", "=>",
     "+", "-", "**", "*", "/", "%", "++", "--", "<<", ">>", ">>>", "&", "|", "^", "!", "~", "&&", "||",
     "?", "??", "?.", ":", "=", "+=", "-=", "*=", "**=", "/=", "%=", "<<=", ">>=", ">>>=", "&=", "|=",
     "^=", "||=", "&&=", "??=", "@"}
Cut == Starts(scanner.tokenPos, "*=") \/ Starts(scanner.tokenPos, "<<") \/ Starts(scanner.tokenPos, "??")
LongestToken ==
    LET t == scanner.tokenPos
    IN  scanner.token \in Punctuation /\ ~(scanner.pos = t + 1 /\ Cut) =>
            /\ Starts(t, scanner.token) /\ scanner.pos = t + Len(scanner.token)
            /\ \A w \in Punctuation :
                 Starts(t, w) /\ ~(w = "?." /\ isDigit(At(t + 2))) => Len(w) <= Len(scanner.token)

(* The parser relies on scan() to get on: a token other than the end of the file has at least    *)
(* one character, every call of scan() starts where the token before ended, also when that was   *)
(* scanned again as a shorter or a longer one, and scanning a token again never gives up all of  *)
(* it.  So a file of n bytes ends after at most n + 1 calls.  No rule reads on behind the end of *)
(* the file, also where the text is cut off in a token.                                          *)
ScanAdvances ==
    [][scanner' # scanner =>
         /\ scanner'.startPos <= scanner'.tokenPos /\ scanner'.tokenPos <= scanner'.pos /\ scanner'.pos <= end
         /\ IF scanner'.tokenPos # scanner.tokenPos \/ scanner'.token = "EndOfFile"
            THEN /\ scanner'.startPos = scanner.pos
                 /\ scanner'.pos > scanner.pos \/ scanner'.token = "EndOfFile"
            ELSE scanner'.pos > scanner'.tokenPos /\ scanner'.startPos \in {scanner.startPos, scanner.pos}]_vars
=============================================================================
