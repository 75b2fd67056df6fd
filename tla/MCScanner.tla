----------------------------- MODULE MCScanner -----------------------------
(***************************************************************************)
(* The scanner on all short texts over some alphabets, each chosen for one *)
(* part of the scanner, and on the characters of the texts of SourceTexts. *)
(***************************************************************************)
EXTENDS Scanner, SequencesExt

Source == INSTANCE SourceTexts

RECURSIVE Strings(_, _)
Strings(A, n) == IF n = 0 THEN {""} ELSE {s \o a : s \in Strings(A, n - 1), a \in A \cup {""}}

(* The characters of a sequence of lexemes.  A blank sets two words apart, and two operators     *)
(* that would make a longer one, except for those that the scanner takes apart itself.           *)
IsWord(l) == (isIdentifierPart(SubSeq(l, 1, 1)) \/ l = "#p") /\ l \notin {"tick", "${"}
Apart(k, l) ==
    \/ IsWord(k) /\ IsWord(l)
    \/ /\ k # ">" /\ ~(k = "<" /\ l = "<")
       /\ \E w \in Punctuation : /\ Len(w) > Len(k) /\ SubSeq(w, 1, Len(k)) = k
                                 /\ SubSeq(w, Len(k) + 1, Len(k) + 1) = SubSeq(l, 1, 1)
Written(l, i) ==
    CASE l[i] = "tick" -> Tick
      [] i > 1 /\ l[i] # "tick" /\ Apart(l[i - 1], l[i]) -> " " \o l[i]
      [] OTHER -> l[i]
(* Texts in which the scanner may get out of step are left out: those with a "}" that the parser  *)
(* has to have scanned again, and those with tokens that only the parser of JSDoc takes apart.    *)
Lexemes == {l \in Source!Corpus \cup Source!Malformed :
               /\ Cardinality({i \in DOMAIN l : l[i] = "${"}) < 2
               /\ \A i \in DOMAIN l : l[i] \notin {"#p", "*=", "??"}}
(* The characters of the first i lexemes of l. *)
Characters(l) ==
    LET f[i \in 0..Len(l)] == IF i = 0 THEN "" ELSE f[i - 1] \o Written(l, i) IN [i \in 0..Len(l) |-> f[i]]
Rendered == [l \in Lexemes |-> Characters(l)]

MCTexts ==
    UNION {Strings({"<", "=", ">", "?", "*", ".", "0"}, 4),
           Strings({"/", "*", "\n", " ", "a"}, 5),
           Strings({"'", "\\", "n", "u", "x", "0", "\n"}, 4), Strings({"L", "$", "{", "}", "\r", "\n", "a"}, 4),
           Strings({"0", "1", "x", "b", "e", ".", "_", "n"}, 4),
           Strings({"GH", "QRS", "a", "'", "\\", "#"}, 3),
           {Rendered[l][Len(l)] : l \in Lexemes}}

(* Tokens, the scanner that the parser is modelled with, works on lexemes instead of characters. *)
L(l) == INSTANCE Tokens WITH text <- l
Scanned(l, i) ==
    LET s == L(l)!TokenAt(i, i)
    IN  {s, L(l)!reScanGreaterToken(s), L(l)!reScanLessThanToken(s), L(l)!reScanSlashToken(s)}
        \cup {L(l)!reScanTemplateToken(t) : t \in {x \in {s} : x.tok = "}"}}
(* What scan() and the functions that scan a token again make of the characters of a text is the *)
(* token that Tokens makes of its lexemes: the same kind, from the same place, to the same place.*)
LexemesScanned ==
    scanner.token # "Unknown" =>
        \A l \in Lexemes :
            text = Rendered[l][Len(l)] =>
                \E i \in 1..(Len(l) + 1) :
                    /\ scanner.tokenPos = Len(Rendered[l][i - 1]) + (IF At(Len(Rendered[l][i - 1])) = " " THEN 1 ELSE 0)
                    /\ \E s \in Scanned(l, i) : s.tok = scanner.token /\ Len(Rendered[l][s.end - 1]) = scanner.pos

(* The values of the literals that the scanner reads as the language says: whole numbers with    *)
(* their separators, to the base 10, 2 or 8, and strings whose escapes are of one character.     *)
(* Here a character of a string is escaped if an odd number of backslashes stands in front of it. *)
Escaped(q) ==
    \E n \in 1..q : n % 2 = 1 /\ (\A r \in (q - n)..(q - 1) : At(r) = "\\") /\ At(q - n - 1) # "\\"
Meaning(q) ==
    CASE Escaped(q) -> IF At(q) \in DOMAIN SimpleEscapes THEN SimpleEscapes[At(q)]
                       ELSE IF At(q) \in {"\n", "\r"} THEN "" ELSE At(q)
      [] ~Escaped(q) /\ At(q) = "\\" -> ""
      [] ~Escaped(q) /\ At(q) = "\n" /\ At(q - 1) = "\r" -> ""
      [] ~Escaped(q) /\ At(q) = "\r" -> "\n"
      [] OTHER -> At(q)
Meanings(a, b) == LET f[q \in a..b] == IF q = a THEN "" ELSE f[q - 1] \o Meaning(q - 1) IN f[b]
Positional(a, b, base) ==   \* the number whose digits are the bytes a..b-1
    LET f[q \in a..b] == IF q = a THEN 0
                         ELSE IF At(q - 1) = "_" THEN f[q - 1] ELSE base * f[q - 1] + DigitValue[At(q - 1)]
    IN  f[b]
Whole == \A q \in scanner.tokenPos..(scanner.pos - 1) : At(q) \in Digits \cup {"_"}
Odd == {"u", "x", "0", "G", "H", "Q"}      \* escapes of other kinds
ValuesFaithful ==
    LET a == scanner.tokenPos
        b == scanner.pos
        closed == IF "Unterminated" \in scanner.tokenFlags THEN b ELSE b - 1
    IN  /\ scanner.token = "NumericLiteral" /\ Whole /\ (At(a) = "0" => b = a + 1) =>
             scanner.tokenValue = to_string[Positional(a, b, 10)]
        /\ scanner.token = "NumericLiteral" /\ scanner.tokenFlags \cap {"BinarySpecifier", "OctalSpecifier"} # {} =>
             scanner.tokenValue =
                to_string[Positional(a + 2, b, IF "BinarySpecifier" \in scanner.tokenFlags THEN 2 ELSE 8)]
        /\ scanner.token \in {"StringLiteral", "NoSubstitutionTemplateLiteral", "TemplateTail"} =>
             \/ \E q \in (a + 1)..(closed - 1) : At(q) \in Odd /\ Escaped(q)
             \/ scanner.tokenValue = Meanings(a + 1, closed)
=============================================================================
