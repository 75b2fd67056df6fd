------------------------------- MODULE Tokens -------------------------------
(***************************************************************************)
(* The scanner as the parser sees it, and the questions the parser asks    *)
(* about the tokens in front of it.                                        *)
(*                                                                         *)
(* A source text is a sequence of lexemes: words, literals, punctuation,   *)
(* "tick" (the template quote), " " and "\n".  Positions are indices of that *)
(* sequence.  Lexemes that the scanner may take apart or put together      *)
(* (angle brackets, the parts of a template) are separate elements, so     *)
(* that rescanning is an operation of the model as it is of the scanner.   *)
(*                                                                         *)
(* A scanner state s is [start, pos, end, tok]: where the trivia before    *)
(* the token start (getStartPos), where the token starts (getTokenPos),    *)
(* where it ends (getTextPos), and its kind.  c is the set of context      *)
(* flags of the parser (contextFlags).                                     *)
(***************************************************************************)
EXTENDS Integers, Sequences, FiniteSets

VARIABLE text  \* sourceText: the lexemes of the file

ReservedWords ==
    {"break", "case", "catch", "class", "const", "continue", "debugger", "default", "delete",
     "do", "else", "enum", "export", "extends", "false", "finally", "for", "function", "if",
     "import", "in", "instanceof", "new", "null", "return", "super", "switch", "this", "throw",
     "true", "try", "typeof", "var", "void", "while", "with"}
OtherKeywords ==
    {"implements", "interface", "let", "package", "private", "protected", "public", "static",
     "yield", "abstract", "as", "asserts", "assert", "any", "async", "await", "boolean",
     "constructor", "declare", "get", "infer", "intrinsic", "is", "keyof", "module",
     "namespace", "never", "out", "readonly", "require", "number", "object", "set", "string",
     "symbol", "type", "undefined", "unique", "unknown", "from", "global", "bigint",
     "override", "of"}

(* FirstAssignment..LastAssignment, the literals the scanner makes, and FirstTemplateToken..LastTemplateToken. *)
Assignments ==
    {"=", "+=", "-=", "*=", "**=", "/=", "%=", "<<=", ">>=", ">>>=", "&=", "|=", "||=", "&&=", "??=", "^="}
Literals == {"NumericLiteral", "BigIntLiteral", "StringLiteral", "RegularExpressionLiteral"}
TemplateTokens == {"NoSubstitutionTemplateLiteral", "TemplateHead", "TemplateMiddle", "TemplateTail"}

Names    == {"a", "b", "c", "f", "k", "x", "y", "z", "A", "B", "C", "K", "N", "T", "U", "meta", "target"}
Numbers  == {"0", "1", "2"}
BigInts  == {"1n"}
Strings  == {"'s'", "'constructor'"}
Privates == {"#p"}
Blanks   == {" ", "\n"}

(* The kind the scanner gives a lexeme; keywords and punctuation are their own kind. *)
KindOf(l) ==
    CASE l \in Names    -> "Identifier"
      [] l \in Numbers  -> "NumericLiteral"
      [] l \in BigInts  -> "BigIntLiteral"
      [] l \in Strings  -> "StringLiteral"
      [] l \in Privates -> "PrivateIdentifier"
      [] OTHER          -> l

isKeyword(t) == t \in ReservedWords \cup OtherKeywords
tokenIsIdentifierOrKeyword(t) == t \in {"Identifier", "PrivateIdentifier"} \/ isKeyword(t)
isModifierKind(t) ==
    t \in {"abstract", "async", "const", "declare", "default", "export", "in", "public",
           "private", "protected", "readonly", "static", "out", "override"}
(* isParameterPropertyModifier, static or override *)
isClassMemberModifier(t) ==
    t \in {"public", "private", "protected", "readonly", "override", "static"}
isTemplateLiteralKind(t) == t \in TemplateTokens

-----------------------------------------------------------------------------
EOF == "EndOfFile"
End == Len(text) + 1

(* The first position from i on that holds a lexeme of S, or the end of the file. *)
FirstFrom(i, S) ==
    CHOOSE p \in i..End : /\ p = End \/ text[p] \in S
                          /\ \A q \in i..(p - 1) : text[q] \notin S

(* scanTemplateAndSetTokenValue: up to the closing quote or the next "${". *)
TemplatePart(start, p, q, whole, open) ==
    [start |-> start, pos |-> p, end |-> IF q = End THEN End ELSE q + 1,
     tok |-> IF q < End /\ text[q] = "${" THEN open ELSE whole]
ScanTemplate(start, p, whole, open) ==
    TemplatePart(start, p, FirstFrom(p + 1, {"tick", "${"}), whole, open)

(* scan(): skips blanks and reads the next token. *)
SkipTrivia(i) ==
    CHOOSE p \in i..End : /\ p = End \/ text[p] \notin Blanks
                          /\ \A q \in i..(p - 1) : text[q] \in Blanks
TokenAt(i, p) ==
    LET Token(n, t) == [start |-> i, pos |-> p, end |-> p + n, tok |-> t]
    IN  CASE p = End -> Token(0, EOF)
          [] text[p] = "tick" -> ScanTemplate(i, p, "NoSubstitutionTemplateLiteral", "TemplateHead")
          [] text[p] = "<" /\ p + 1 < End /\ text[p + 1] = "<" -> Token(2, "<<")
          [] OTHER -> Token(1, KindOf(text[p]))
ScanFrom(i) == TokenAt(i, SkipTrivia(i))

Advance(s) == ScanFrom(s.end)                          \* nextTokenWithoutCheck()
hasPrecedingLineBreak(s) == \E q \in s.start..(s.pos - 1) : text[q] = "\n"

(* A ">" and the ">" or "=" right behind it are one operator when an operator is wanted. *)
reScanGreaterToken(s) ==
    LET Is(i, l) == s.pos + i < End /\ text[s.pos + i] = l
    IN  IF s.tok # ">" THEN s
        ELSE CASE Is(1, ">") /\ Is(2, ">") /\ Is(3, "=") -> [s EXCEPT !.tok = ">>>=", !.end = s.pos + 4]
               [] Is(1, ">") /\ Is(2, ">") -> [s EXCEPT !.tok = ">>>", !.end = s.pos + 3]
               [] Is(1, ">") /\ Is(2, "=") -> [s EXCEPT !.tok = ">>=", !.end = s.pos + 3]
               [] Is(1, ">") -> [s EXCEPT !.tok = ">>", !.end = s.pos + 2]
               [] Is(1, "=") -> [s EXCEPT !.tok = ">=", !.end = s.pos + 2]
               [] OTHER -> s
reScanLessThanToken(s) ==
    IF s.tok = "<<" THEN [s EXCEPT !.tok = "<", !.end = s.pos + 1] ELSE s
reScanTemplateToken(s) == ScanTemplate(s.start, s.pos, "TemplateTail", "TemplateMiddle")
(* A "/" where an expression starts: a regular expression up to the next "/" outside of brackets, *)
(* with the letters right behind it, or to the end of the line if there is none.                  *)
InBrackets(p, q) == \E r \in (p + 1)..(q - 1) : text[r] = "[" /\ \A o \in (r + 1)..(q - 1) : text[o] # "]"
RegularExpressionEnd(p) ==
    CHOOSE q \in (p + 1)..End :
        LET Stops(r) == r = End \/ text[r] = "\n" \/ (text[r] = "/" /\ ~InBrackets(p, r))
        IN  Stops(q) /\ \A r \in (p + 1)..(q - 1) : ~Stops(r)
IsUnterminated(q) == q = End \/ text[q] = "\n"
HasFlags(q) ==
    ~IsUnterminated(q) /\ q + 1 < End
    /\ (tokenIsIdentifierOrKeyword(KindOf(text[q + 1])) \/ KindOf(text[q + 1]) \in {"NumericLiteral", "BigIntLiteral"})
    /\ text[q + 1] \notin Privates
reScanSlashToken(s) ==
    LET q == RegularExpressionEnd(s.pos)
    IN  IF s.tok \in {"/", "/="}
        THEN [s EXCEPT !.tok = "RegularExpressionLiteral",
                       !.end = IF IsUnterminated(q) THEN q ELSE IF HasFlags(q) THEN q + 2 ELSE q + 1]
        ELSE s

-----------------------------------------------------------------------------
(* Names: which words are identifiers depends on where they stand. *)
isIdentifier(s, c) ==
    /\ ~(s.tok = "yield" /\ "Yield" \in c)
    /\ ~(s.tok = "await" /\ "Await" \in c)
    /\ s.tok = "Identifier" \/ s.tok \in OtherKeywords
isBindingIdentifier(s) == s.tok = "Identifier" \/ s.tok \in OtherKeywords
isLiteralPropertyName(s) ==
    tokenIsIdentifierOrKeyword(s.tok) \/ s.tok \in {"StringLiteral", "NumericLiteral"}
isBindingIdentifierOrPrivateIdentifierOrPattern(s) ==
    s.tok \in {"{", "[", "PrivateIdentifier"} \/ isBindingIdentifier(s)

(* Automatic semicolons. *)
canParseSemicolon(s) == s.tok \in {";", "}", EOF} \/ hasPrecedingLineBreak(s)

(* Lookahead callbacks that only read tokens. *)
SameLine(s) == ~hasPrecedingLineBreak(s)
nextTokenIsIdentifierOnSameLine(s, c) == LET n == Advance(s) IN SameLine(n) /\ isIdentifier(n, c)
nextTokenIsIdentifierOrStringLiteralOnSameLine(s, c) ==
    LET n == Advance(s) IN SameLine(n) /\ (isIdentifier(n, c) \/ n.tok = "StringLiteral")
nextTokenIsIdentifierOrKeywordOnSameLine(s) ==
    LET n == Advance(s) IN SameLine(n) /\ tokenIsIdentifierOrKeyword(n.tok)
nextTokenIsClassKeywordOnSameLine(s) == LET n == Advance(s) IN n.tok = "class" /\ SameLine(n)
nextTokenIsFunctionKeywordOnSameLine(s) == LET n == Advance(s) IN n.tok = "function" /\ SameLine(n)
nextTokenIsOpenParenOrLessThanOrDot(s) == Advance(s).tok \in {"(", "<", "."}
nextTokenIsNumericOrBigIntLiteral(s) == Advance(s).tok \in {"NumericLiteral", "BigIntLiteral"}

(* Modifiers: a modifier keyword counts as one only before what can follow it. *)
canFollowModifier(s) == s.tok \in {"[", "{", "*", "..."} \/ isLiteralPropertyName(s)
canFollowExportModifier(s) == s.tok \notin {"*", "as", "{"} /\ canFollowModifier(s)
nextTokenIsOnSameLineAndCanFollowModifier(s) ==
    LET n == Advance(s) IN SameLine(n) /\ canFollowModifier(n)
nextTokenCanFollowDefaultKeyword(s) ==
    LET n == Advance(s)
    IN  \/ n.tok \in {"class", "function", "interface"}
        \/ n.tok = "abstract" /\ nextTokenIsClassKeywordOnSameLine(n)
        \/ n.tok = "async" /\ nextTokenIsFunctionKeywordOnSameLine(n)
nextTokenCanFollowModifier(s) ==
    LET n == Advance(s)
    IN  CASE s.tok = "const"   -> n.tok = "enum"
          [] s.tok = "export"  ->
               IF n.tok = "default" THEN nextTokenCanFollowDefaultKeyword(n)
               ELSE canFollowExportModifier(IF n.tok = "type" THEN Advance(n) ELSE n)
          [] s.tok = "default" -> nextTokenCanFollowDefaultKeyword(s)
          [] s.tok \in {"static", "get", "set"} -> canFollowModifier(n)
          [] OTHER -> nextTokenIsOnSameLineAndCanFollowModifier(s)

-----------------------------------------------------------------------------
(* Expressions. *)
getBinaryOperatorPrecedenceSwapped(t) ==    \* Mutant: "*" binds no tighter than "+"
    CASE t = "??" -> 4
      [] t = "||" -> 5
      [] t = "&&" -> 6
      [] t = "|" -> 7
      [] t = "^" -> 8
      [] t = "&" -> 9
      [] t \in {"==", "!=", "===", "!=="} -> 10
      [] t \in {"<", ">", "<=", ">=", "instanceof", "in", "as"} -> 11
      [] t \in {"<<", ">>", ">>>"} -> 12
      [] t \in {"+", "-", "*", "/", "%"} -> 13
      [] t = "**" -> 15
      [] OTHER -> -1
getBinaryOperatorPrecedence(t) ==
    CASE t = "??" -> 4
      [] t = "||" -> 5
      [] t = "&&" -> 6
      [] t = "|" -> 7
      [] t = "^" -> 8
      [] t = "&" -> 9
      [] t \in {"==", "!=", "===", "!=="} -> 10
      [] t \in {"<", ">", "<=", ">=", "instanceof", "in", "as"} -> 11
      [] t \in {"<<", ">>", ">>>"} -> 12
      [] t \in {"+", "-"} -> 13
      [] t \in {"*", "/", "%"} -> 14
      [] t = "**" -> 15
      [] OTHER -> -1
isAssignmentOperator(t) == t \in Assignments
isBinaryOperator(s, c) ==
    ~("DisallowIn" \in c /\ s.tok = "in") /\ getBinaryOperatorPrecedence(s.tok) > 0
isStartOfLeftHandSideExpression(s, c) ==
    \/ s.tok \in {"this", "super", "null", "true", "false", "NumericLiteral", "BigIntLiteral",
                  "StringLiteral", "NoSubstitutionTemplateLiteral", "TemplateHead", "(", "[", "{",
                  "function", "class", "new", "/", "/=", "Identifier"}
    \/ s.tok = "import" /\ nextTokenIsOpenParenOrLessThanOrDot(s)
    \/ isIdentifier(s, c)
isStartOfExpression(s, c) ==
    \/ isStartOfLeftHandSideExpression(s, c)
    \/ s.tok \in {"+", "-", "~", "!", "delete", "typeof", "void", "++", "--", "<", "await",
                  "yield", "PrivateIdentifier"}
    \/ isBinaryOperator(s, c)
isStartOfExpressionStatement(s, c) ==
    s.tok \notin {"{", "function", "class", "@"} /\ isStartOfExpression(s, c)
isTemplateStartOfTaggedTemplate(s) == s.tok \in {"NoSubstitutionTemplateLiteral", "TemplateHead"}
isStartOfOptionalPropertyOrElementAccessChain(s) ==
    LET n == Advance(s)
    IN  s.tok = "?." /\ (tokenIsIdentifierOrKeyword(n.tok) \/ n.tok = "["
                         \/ isTemplateStartOfTaggedTemplate(n))
canFollowTypeArgumentsInExpression(s, c) ==
    s.tok \in {"(", "NoSubstitutionTemplateLiteral", "TemplateHead"} \/ ~isStartOfExpression(s, c)
(* A token that is none of the unary operators starts an update expression. *)
isUpdateExpression(s) ==
    s.tok \notin {"+", "-", "~", "!", "delete", "typeof", "void", "await", "<"}
nextTokenIsIdentifierOrKeywordOrLiteralOnSameLine(s) ==
    LET n == Advance(s)
    IN  SameLine(n) /\ (tokenIsIdentifierOrKeyword(n.tok)
                        \/ n.tok \in {"NumericLiteral", "BigIntLiteral", "StringLiteral"})
isAwaitExpression(s, c) ==
    s.tok = "await" /\ ("Await" \in c \/ nextTokenIsIdentifierOrKeywordOrLiteralOnSameLine(s))

isYieldExpression(s, c) ==
    s.tok = "yield" /\ ("Yield" \in c \/ nextTokenIsIdentifierOrKeywordOrLiteralOnSameLine(s))
isLiteralKind(t) == t \in Literals \cup TemplateTokens

(* Is this the start of an arrow function with parentheses?  A Tristate: some starts are *)
(* only known after the function was tried.                                              *)
isParenthesizedArrowFunctionExpression(s, c) ==
    LET f == IF s.tok = "async" THEN Advance(s) ELSE s    \* the first token
        t == Advance(f)                                   \* the second
        n == Advance(t)                                   \* the third
        Known(q) == IF q THEN "True" ELSE "False"
    IN  CASE s.tok = "=>" -> "True"
          [] s.tok \notin {"(", "<", "async"} -> "False"
          [] s.tok = "async" /\ (hasPrecedingLineBreak(f) \/ f.tok \notin {"(", "<"}) -> "False"
          [] f.tok = "<" -> IF isIdentifier(t, c) THEN "Unknown" ELSE "False"
          [] t.tok = ")" -> Known(n.tok \in {"=>", ":", "{"})
          [] t.tok \in {"[", "{"} -> "Unknown"
          [] t.tok = "..." -> "True"
          [] isModifierKind(t.tok) /\ t.tok # "async" /\ isIdentifier(n, c) -> Known(n.tok # "as")
          [] ~isIdentifier(t, c) /\ t.tok # "this" -> "False"
          [] n.tok = ":" -> "True"
          [] n.tok = "?" -> Known(Advance(n).tok \in {":", ",", "=", ")"})
          [] OTHER -> IF n.tok \in {",", "=", ")"} THEN "Unknown" ELSE "False"

-----------------------------------------------------------------------------
(* Types and parameters.  Behind a run of "(" a type starts where a type, a parameter or ")" *)
(* starts: the callback of the lookahead asks again, so the run is skipped at once.          *)
SimpleTypeStart(s, c) ==
    \/ s.tok \in {"any", "unknown", "string", "number", "bigint", "boolean", "readonly", "symbol",
                  "unique", "void", "undefined", "null", "this", "typeof", "never", "{", "[", "<",
                  "|", "&", "new", "StringLiteral", "NumericLiteral", "BigIntLiteral", "true",
                  "false", "object", "*", "?", "!", "...", "infer", "import", "asserts",
                  "NoSubstitutionTemplateLiteral", "TemplateHead"}
    \/ isIdentifier(s, c)
isStartOfParameter(s, c) ==
    \/ s.tok \in {"...", "@"}
    \/ isBindingIdentifierOrPrivateIdentifierOrPattern(s)
    \/ isModifierKind(s.tok)
    \/ SimpleTypeStart(s, c)
isStartOfType(s, c) ==
    LET parens[i \in 1..End] ==    \* the state behind the run of "(" that starts at i
            LET n == ScanFrom(i) IN IF n.tok = "(" THEN parens[n.end] ELSE n
        inner == parens[s.end]
    IN  \/ SimpleTypeStart(s, c)
        \/ s.tok = "function"
        \/ s.tok = "-" /\ nextTokenIsNumericOrBigIntLiteral(s)
        \/ /\ s.tok = "("
           /\ \/ inner.tok = ")" \/ inner.tok = "function" \/ isStartOfParameter(inner, c)
              \/ inner.tok = "-" /\ nextTokenIsNumericOrBigIntLiteral(inner)

nextTokenIsStartOfType(s, c) == isStartOfType(Advance(s), c)
isParameterNameStart(s) == isBindingIdentifier(s) \/ s.tok \in {"[", "{"}
isTupleElementName(s) ==
    LET m == IF s.tok = "..." THEN Advance(s) ELSE s
        n == Advance(m)
    IN  /\ tokenIsIdentifierOrKeyword(m.tok)
        /\ n.tok = ":" \/ (n.tok = "?" /\ Advance(n).tok = ":")
isConstructorString(s) == text[s.pos] = "'constructor'"
isImplementsClause(s) == s.tok = "implements" /\ tokenIsIdentifierOrKeyword(Advance(s).tok)

(* The scanner state behind the tokens that satisfy a modifier test. *)
SkipModifiers(s) ==
    LET skip[i \in 1..End] == LET n == ScanFrom(i) IN IF isModifierKind(n.tok) THEN skip[n.end] ELSE n
    IN  IF isModifierKind(s.tok) THEN skip[s.start] ELSE s
BehindName(m) == IF isLiteralPropertyName(m) THEN Advance(m) ELSE m
TypeMemberAt(s, m, n) ==
    \/ s.tok \in {"(", "<", "get", "set"}
    \/ m.tok = "["
    \/ /\ m # s \/ n # m
       /\ n.tok \in {"(", "<", "?", ":", ","} \/ canParseSemicolon(n)
isTypeMemberStart(s) == \E m \in {SkipModifiers(s)} : TypeMemberAt(s, m, BehindName(m))
(* m: the state behind the modifiers; n: behind the name, if one follows them.  Without a name *)
(* the last modifier is the name.                                                              *)
ClassMemberAt(s, m, n) ==
    LET modifiers == {ScanFrom(i) : i \in s.start..(m.start - 1)}
        id == IF n # m THEN {m.tok} ELSE {x.tok : x \in {x \in modifiers : x.end = m.start}}
    IN  \/ s.tok = "@"
        \/ \E x \in modifiers : isClassMemberModifier(x.tok)
        \/ m.tok = "*"
        \/ n.tok = "["
        \/ \E t \in id : \/ ~isKeyword(t) \/ t \in {"set", "get"}
                         \/ n.tok \in {"(", "<", "!", ":", "=", "?"} \/ canParseSemicolon(n)
isClassMemberStart(s) ==
    \E m \in {SkipModifiers(s)} : ClassMemberAt(s, m, BehindName(m))
(* isUnambiguouslyIndexSignature behind a "[". *)
isIndexSignature(s, c) ==
    LET n  == Advance(s)
        n2 == Advance(n)
    IN  /\ s.tok = "["
        /\ \/ n.tok \in {"...", "]"}
           \/ isModifierKind(n.tok) /\ isIdentifier(n2, c)
           \/ /\ isModifierKind(n.tok) \/ isIdentifier(n, c)
              /\ \/ n2.tok \in {":", ","}
                 \/ n2.tok = "?" /\ Advance(n2).tok \in {":", ",", "]"}
isStartOfMappedType(s, c) ==
    LET n == Advance(s)
        m == IF n.tok = "readonly" THEN Advance(n) ELSE n
    IN  IF n.tok \in {"+", "-"} THEN Advance(n).tok = "readonly"
        ELSE m.tok = "[" /\ isIdentifier(Advance(m), c) /\ Advance(Advance(m)).tok = "in"

-----------------------------------------------------------------------------
(* Statements and declarations: isDeclaration() reads on over modifiers and "export". *)
isStartOfDeclaration(s, c) ==
    LET decl[i \in 1..End] ==
        LET t == ScanFrom(i)
            n == Advance(t)
            x == IF n.tok = "type" THEN Advance(n).tok ELSE n.tok
        IN  CASE t.tok \in {"var", "let", "const", "function", "class", "enum"} -> TRUE
              [] t.tok \in {"interface", "type"} -> nextTokenIsIdentifierOnSameLine(t, c)
              [] t.tok \in {"module", "namespace"} ->
                    nextTokenIsIdentifierOrStringLiteralOnSameLine(t, c)
              [] t.tok \in {"abstract", "async", "declare", "private", "protected", "public",
                            "readonly"} -> SameLine(n) /\ decl[t.end]
              [] t.tok = "global" -> n.tok \in {"{", "Identifier", "export"}
              [] t.tok = "import" -> n.tok \in {"StringLiteral", "*", "{"}
                                     \/ tokenIsIdentifierOrKeyword(n.tok)
              [] t.tok = "export" -> x \in {"=", "*", "{", "default", "as"} \/ decl[t.end]
              [] t.tok = "static" -> decl[t.end]
              [] OTHER -> FALSE
    IN  decl[s.start]
isStartOfStatement(s, c) ==
    CASE s.tok \in {"@", ";", "{", "var", "let", "function", "class", "enum", "if", "do", "while",
                    "for", "continue", "break", "return", "with", "switch", "throw", "try",
                    "debugger", "catch", "finally"} -> TRUE
      [] s.tok = "import" -> isStartOfDeclaration(s, c) \/ nextTokenIsOpenParenOrLessThanOrDot(s)
      [] s.tok \in {"const", "export"} -> isStartOfDeclaration(s, c)
      [] s.tok \in {"async", "declare", "interface", "module", "namespace", "type", "global"} -> TRUE
      [] s.tok \in {"public", "private", "protected", "static", "readonly"} ->
            isStartOfDeclaration(s, c) \/ ~nextTokenIsIdentifierOrKeywordOnSameLine(s)
      [] OTHER -> isStartOfExpression(s, c)

isLetDeclaration(s) == LET n == Advance(s) IN isBindingIdentifier(n) \/ n.tok \in {"{", "["}
canFollowContextualOfKeyword(s, c) ==
    LET n == Advance(s) IN isIdentifier(n, c) /\ Advance(n).tok = ")"

isHeritageClauseExtendsOrImplementsKeyword(s, c) ==
    s.tok \in {"implements", "extends"} /\ isStartOfExpression(Advance(s), c)
isValidHeritageClauseObjectLiteral(s) ==
    Advance(s).tok = "}" => Advance(Advance(s)).tok \in {",", "{", "extends", "implements"}

(* May an element of a list of this kind start here? *)
isListElement(kind, s, c, inErrorRecovery) ==
    CASE kind \in {"SourceElements", "BlockStatements", "SwitchClauseStatements"} ->
            ~(s.tok = ";" /\ inErrorRecovery) /\ isStartOfStatement(s, c)
      [] kind = "SwitchClauses" -> s.tok \in {"case", "default"}
      [] kind = "TypeMembers" -> isTypeMemberStart(s)
      [] kind = "ClassMembers" -> isClassMemberStart(s) \/ (s.tok = ";" /\ ~inErrorRecovery)
      [] kind = "EnumMembers" -> s.tok = "[" \/ isLiteralPropertyName(s)
      [] kind = "ObjectLiteralMembers" -> s.tok \in {"[", "*", "...", "."} \/ isLiteralPropertyName(s)
      [] kind = "ObjectBindingElements" -> s.tok \in {"[", "..."} \/ isLiteralPropertyName(s)
      [] kind = "AssertEntries" -> tokenIsIdentifierOrKeyword(s.tok) \/ s.tok = "StringLiteral"
      [] kind = "HeritageClauseElement" ->
            IF s.tok = "{" THEN isValidHeritageClauseObjectLiteral(s)
            ELSE /\ IF inErrorRecovery THEN isIdentifier(s, c) ELSE isStartOfLeftHandSideExpression(s, c)
                 /\ ~isHeritageClauseExtendsOrImplementsKeyword(s, c)
      [] kind = "VariableDeclarations" -> isBindingIdentifierOrPrivateIdentifierOrPattern(s)
      [] kind = "ArrayBindingElements" ->
            s.tok \in {",", "..."} \/ isBindingIdentifierOrPrivateIdentifierOrPattern(s)
      [] kind = "TypeParameters" -> s.tok = "in" \/ isIdentifier(s, c)
      [] kind = "ArrayLiteralMembers" -> s.tok \in {",", ".", "..."} \/ isStartOfExpression(s, c)
      [] kind = "ArgumentExpressions" -> s.tok = "..." \/ isStartOfExpression(s, c)
      [] kind = "Parameters" -> isStartOfParameter(s, c)
      [] kind \in {"TypeArguments", "TupleElementTypes"} -> s.tok = "," \/ isStartOfType(s, c)
      [] kind = "HeritageClauses" -> s.tok \in {"extends", "implements"}
      [] kind = "ImportOrExportSpecifiers" -> tokenIsIdentifierOrKeyword(s.tok)

isInOrOfKeyword(t) == t \in {"in", "of"}
isVariableDeclaratorListTerminator(s) == canParseSemicolon(s) \/ isInOrOfKeyword(s.tok) \/ s.tok = "=>"
(* Does the list of this kind end here? *)
isListTerminator(kind, s) ==
    \/ s.tok = EOF
    \/ CASE kind \in {"BlockStatements", "SwitchClauses", "TypeMembers", "ClassMembers",
                      "EnumMembers", "ObjectLiteralMembers", "ObjectBindingElements",
                      "ImportOrExportSpecifiers", "AssertEntries"} -> s.tok = "}"
         [] kind = "SwitchClauseStatements" -> s.tok \in {"}", "case", "default"}
         [] kind = "HeritageClauseElement" -> s.tok \in {"{", "extends", "implements"}
         [] kind = "VariableDeclarations" -> isVariableDeclaratorListTerminator(s)
         [] kind = "TypeParameters" -> s.tok \in {">", "(", "{", "extends", "implements"}
         [] kind = "ArgumentExpressions" -> s.tok \in {")", ";"}
         [] kind \in {"ArrayLiteralMembers", "TupleElementTypes", "ArrayBindingElements"} -> s.tok = "]"
         [] kind = "Parameters" -> s.tok \in {")", "]"}
         [] kind = "TypeArguments" -> s.tok # ","
         [] kind = "HeritageClauses" -> s.tok \in {"{", "}"}
         [] OTHER -> FALSE
=============================================================================
