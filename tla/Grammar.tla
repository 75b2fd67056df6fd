------------------------------ MODULE Grammar ------------------------------
(***************************************************************************)
(* The parse functions of the parser.                                      *)
(*                                                                         *)
(* Every parse function of parser2.h is a definition of the same name: the *)
(* sequence of instructions it runs, in the order of the code.  Module     *)
(* Parser gives the instructions their meaning: it runs a stack of frames, *)
(* one for each call in progress, that share the scanner, the context      *)
(* flags, the parsing contexts and the diagnostics.                        *)
(*                                                                         *)
(* A frame collects in "out" the nodes its calls return; Node(k) makes     *)
(* them the children of one new node, and the frame returns out[1] (a null *)
(* pointer when out is empty).  "arg" holds the flags that are parameters  *)
(* or locals of the function.  Arguments of a call are evaluated from left *)
(* to right, as the compiler of this project (clang) does.                 *)
(*                                                                         *)
(* Message texts, JSDoc, JSX and JavaScript files are left out: every file *)
(* this program parses is a TypeScript file without JSX.                   *)
(***************************************************************************)
EXTENDS Sequences

-----------------------------------------------------------------------------
(* Conditions, in disjunctive normal form: a set of conjunctions of atoms. *)
Atom(is, s)   == {{[is |-> is, s |-> s, neg |-> FALSE]}}
Is(is)        == Atom(is, {})               \* a question of module Tokens
At(S)         == Atom("At", S)              \* token() is one of S
NextIs(S)     == Atom("NextIs", S)          \* the token behind it is one of S
Has(x)        == Atom("Has", {x})           \* a flag of the frame
InCtx(x)      == Atom("InCtx", {x})         \* a context flag of the parser
Ret(S)        == Atom("Ret", S)             \* the kind of what the last call returned
Got           == {{[is |-> "Ret", s |-> {"null"}, neg |-> TRUE]}}
FirstIs(S)    == Atom("First", S)           \* the kind of the first collected node
LastIs(S)     == Atom("Last", S)            \* the kind of the last collected node
Collected(S)  == Atom("Collected", S)       \* some collected node has a kind of S
Modified(S)   == Atom("Modified", S)        \* some collected modifier is one of S
questionDotToken == Collected({"?."})
Or(p, q)      == p \cup q
And(p, q)     == {c \cup d : c \in p, d \in q}
Not(p)        == {{[a EXCEPT !.neg = ~@] : a \in c} : c \in p}    \* of one atom

(* Instructions. *)
If(q, A, B)      == [op |-> "If", q |-> q, yes |-> A, no |-> B]
When(q, A)       == If(q, A, <<>>)
While(q, A)      == [op |-> "While", q |-> q, body |-> A]
CallWith(f, mode, keep, add) ==
    [op |-> mode, f |-> f, keep |-> keep, add |-> add, prec |-> IF mode = "Call" THEN "lowest" ELSE "same"]
Parse(f)         == CallWith(f, "Call", {}, {})
ParseWith(f, A)  == CallWith(f, "Call", {}, A)
Pass(f, K, A)    == CallWith(f, "Call", K, A)   \* hands on the flags of K
Rest(f)          == CallWith(f, "Rest", {}, {}) \* f(pos, what was parsed so far)
RestWith(f, A)   == CallWith(f, "Rest", {}, A)
RestPass(f, K, A) == CallWith(f, "Rest", K, A)
Operand(f)       == [Parse(f) EXCEPT !.prec = "operator"]  \* the precedence of the operator read
Power(f)         == [Rest(f) EXCEPT !.prec = "power"]      \* the precedence of "**"
Goto(f)          == CallWith(f, "Goto", {}, {}) \* return f(...)
Sub(A)           == [op |-> "Sub", body |-> A]  \* with a start position of its own
Again            == [op |-> "Again"]            \* the next round of a while (true)
Return           == [op |-> "Return"]
Answer(k)        == [op |-> "Answer", k |-> k]  \* return true, or a Tristate
Yes              == Answer("True")
Fail             == [op |-> "Fail"]             \* return false, or nullptr
Throw            == [op |-> "Throw"]
NextToken            == [op |-> "Next"]             \* nextToken()
Expect(t)        == [op |-> "Expect", t |-> t]  \* parseExpected(t)
Take(k)          == [op |-> "Take", k |-> k]    \* a node of kind k for this token, nextToken()
Rescan(how)      == [op |-> "Rescan", how |-> how]
Missing(k)       == [op |-> "Missing", k |-> k, here |-> FALSE]
MissingHere(k)   == [op |-> "Missing", k |-> k, here |-> TRUE]  \* reportAtCurrentPosition
ErrorAt(where)   == [op |-> "Error", where |-> where]
Error            == ErrorAt("token")            \* parseErrorAtCurrentToken
Node(k)          == [op |-> "Node", k |-> k]    \* finishNode(factory.createK(...), pos)
Array(kind)      == [op |-> "Array", kind |-> kind] \* createNodeArray(list, pos)
MissingList(kind) == [op |-> "MissingList", kind |-> kind]
Drop             == [op |-> "Drop"]             \* forgets the last collected node
Unwrap           == [op |-> "Unwrap"]           \* the children of the first node instead of it
Reparse          == [op |-> "Reparse"]          \* questionDotToken || tryReparseOptionalChain
MarkAmbient      == [op |-> "MarkAmbient"]      \* flags the modifiers as ambient
NotArrow         == [op |-> "NotArrow"]         \* notParenthesizedArrow.insert(tokenPos)
LastAsParameter  == [op |-> "LastAsParameter"]  \* the last node as list of one parameter
AsOptionalType   == [op |-> "AsOptionalType"]   \* an optional type for "T?" in a tuple
BlockingError    == [op |-> "BlockingError"]    \* typeHasArrowFunctionBlockingParseError(type)
SourceFlag(x)    == [op |-> "SourceFlag", x |-> x]  \* sourceFlags |= x
Flag(x, q)       == [op |-> "Flag", x |-> x, q |-> q]
CountErrors      == [op |-> "CountErrors"]
List(kind, f)    == [op |-> "List", kind |-> kind, f |-> f, delimited |-> FALSE]
Delimited(kind, f) == [op |-> "List", kind |-> kind, f |-> f, delimited |-> TRUE]
Inside(S, A)     == [op |-> "Inside", s |-> S, body |-> A]
Outside(S, A)    == [op |-> "Outside", s |-> S, body |-> A]
SetFromArg(S)    == [op |-> "SetFromArg", s |-> S]   \* setXContext(!!(flags & X))
Set(S)           == [op |-> "Set", s |-> S]
Clear(S)         == [op |-> "Clear", s |-> S]
Restore(S)       == [op |-> "Restore", s |-> S]      \* setXContext(savedXContext)
LeaveTop         == [op |-> "LeaveTop"]              \* topLevel = false
RestoreTop       == [op |-> "RestoreTop"]            \* topLevel = savedTopLevel
Try(A)           == [op |-> "Try", body |-> A]       \* tryParse
Look(A)          == [op |-> "Look", body |-> A]      \* lookAhead

-----------------------------------------------------------------------------
(* Helpers that only combine instructions. *)
parseTokenNode         == Take("token")
Skip(t)                == When(At({t}), <<Take(t), Drop>>)   \* a token that becomes no child
parseOptional(t, A, B) == If(At({t}), <<NextToken>> \o A, B)
parseOptionalToken(t)  == When(At({t}), <<Take(t)>>)
parseExpectedToken(t)  == If(At({t}), <<Take(t)>>, <<Missing(t)>>)
tryParseSemicolon(B)   == If(Is("canParseSemicolon"), <<parseOptional(";", <<>>, <<>>)>>, B)   \* else B
parseSemicolon         == tryParseSemicolon(<<Expect(";")>>)
parseExpectedMatchingBrackets(t) == Expect(t)
parseTypeMemberSemicolon == parseOptional(",", <<>>, <<parseSemicolon>>)
createIdentifier(q) ==
    If(q, <<Take("Identifier")>>,
       <<If(At({"PrivateIdentifier"}), <<Error, Take("Identifier")>>,
            <<If(At({"EndOfFile"}), <<MissingHere("Identifier")>>, <<Missing("Identifier")>>)>>)>>)
parseIdentifier        == createIdentifier(Is("isIdentifier"))
parseBindingIdentifier == createIdentifier(Is("isBindingIdentifier"))
parseIdentifierName    == createIdentifier(Is("tokenIsIdentifierOrKeyword"))
parsePrivateIdentifier == Take("PrivateIdentifier")
(* parseLiteralLikeNode(token()): any other token is an exception. *)
parseLiteralNode       == If(Is("isLiteralKind"), <<parseTokenNode>>, <<Throw>>)
parseBracketedList(kind, f, open, close) ==
    If(At({open}), <<NextToken, Delimited(kind, f), Expect(close)>>, <<Error, MissingList(kind)>>)
parseContextualModifier(t, A) ==
    When(And(At({t}), Is("nextTokenCanFollowModifier")), <<NextToken>> \o A)
allowInAnd(A)          == Outside({"DisallowIn"}, A)
disallowInAnd(A)       == Inside({"DisallowIn"}, A)
allowConditionalTypesAnd(A)    == Outside({"DisallowConditionalTypes"}, A)
disallowConditionalTypesAnd(A) == Inside({"DisallowConditionalTypes"}, A)

-----------------------------------------------------------------------------
(* Template literals.  Rescanning the head of a tagged template only changes the *)
(* treatment of invalid escapes, so isTaggedTemplate is left out.                *)
parseTemplateMiddleOrTemplateTail == <<parseLiteralNode>>
parseLiteralOfTemplateSpan ==
    <<If(At({"}"}), <<Rescan("Template"), Parse("parseTemplateMiddleOrTemplateTail")>>,
         <<parseExpectedToken("TemplateTail")>>)>>
parseTemplateSpan ==
    <<allowInAnd(<<Parse("parseExpression")>>), Parse("parseLiteralOfTemplateSpan"),
      Node("TemplateSpan")>>
parseTemplateSpans ==
    <<Parse("parseTemplateSpan"), While(Is("spanContinues"), <<Parse("parseTemplateSpan")>>),
      Array("TemplateSpans")>>
parseTemplateHead == <<parseLiteralNode>>
parseTemplateExpression ==
    <<Parse("parseTemplateHead"), Parse("parseTemplateSpans"), Node("TemplateExpression")>>

(* Names and references. *)
parseRightSideOfDot ==
    <<When(And(And(Is("hasPrecedingLineBreak"), Is("tokenIsIdentifierOrKeyword")),
               Is("nextTokenIsIdentifierOrKeywordOnSameLine")),
           <<MissingHere("Identifier"), Return>>),
      When(At({"PrivateIdentifier"}),
           <<parsePrivateIdentifier,
             When(Not(Has("PrivateNames")), <<Drop, MissingHere("Identifier")>>), Return>>),
      If(Has("IdentifierNames"), <<parseIdentifierName>>, <<parseIdentifier>>)>>
parseEntityName ==
    <<If(Has("IdentifierNames"), <<parseIdentifierName>>, <<parseIdentifier>>),
      While(At({"."}),
            <<NextToken, When(At({"<"}), <<Return>>),
              Pass("parseRightSideOfDot", {"IdentifierNames"}, {}), Node("QualifiedName")>>)>>
parseTypeArgumentsOfTypeReference ==
    <<When(Not(Is("hasPrecedingLineBreak")),
           <<Rescan("LessThan"),
             When(At({"<"}), <<parseBracketedList("TypeArguments", "parseType", "<", ">")>>)>>)>>
parseTypeReference ==
    <<ParseWith("parseEntityName", {"IdentifierNames"}),
      Parse("parseTypeArgumentsOfTypeReference"), Node("TypeReference")>>
parseThisTypePredicate == <<NextToken, Parse("parseType"), Node("TypePredicate")>>
parseThisTypeNode      == <<Take("ThisType")>>
tryParseTypeArguments ==
    When(At({"<"}), <<parseBracketedList("TypeArguments", "parseType", "<", ">")>>)
parseTypeQuery ==
    <<Expect("typeof"), ParseWith("parseEntityName", {"IdentifierNames"}),
      When(Not(Is("hasPrecedingLineBreak")), <<tryParseTypeArguments>>), Node("TypeQuery")>>

-----------------------------------------------------------------------------
(* Member access: what follows an expression; the frame starts with that expression *)
(* and the "?.", if there is one.                                                   *)
parsePropertyAccessExpressionRest ==
    <<ParseWith("parseRightSideOfDot", {"IdentifierNames", "PrivateNames"}), Reparse,
      When(And(Has("Chain"), LastIs({"PrivateIdentifier"})), <<ErrorAt("last")>>),
      Node("PropertyAccessExpression")>>
parseElementAccessExpressionRest ==
    <<If(At({"]"}), <<MissingHere("Identifier")>>, <<allowInAnd(<<Parse("parseExpression")>>)>>),
      Expect("]"), Reparse, Node("ElementAccessExpression")>>
parseTaggedTemplateRest ==
    <<Flag("Chain", Or(questionDotToken, Is("chained"))),
      If(At({"NoSubstitutionTemplateLiteral"}), <<parseLiteralNode>>, <<Parse("parseTemplateExpression")>>),
      Node("TaggedTemplateExpression")>>
parseTypeArgumentsInExpression ==
    <<Rescan("LessThan"),
      When(At({"<"}),
           <<NextToken, Delimited("TypeArguments", "parseType"), Expect(">"),
             When(Or(Not(Got), Not(Is("canFollowTypeArgumentsInExpression"))), <<Fail>>)>>)>>
parseMemberExpressionRest ==
    <<If(And(Has("OptionalChains"), Is("isStartOfOptionalPropertyOrElementAccessChain")),
         <<Take("?."), When(Is("tokenIsIdentifierOrKeyword"),
                            <<Rest("parsePropertyAccessExpressionRest"), Again>>)>>,
         <<parseOptional(".", <<Rest("parsePropertyAccessExpressionRest"), Again>>, <<>>)>>),
      When(And(At({"["}), Or(questionDotToken, Not(InCtx("Decorator")))),
           <<NextToken, Rest("parseElementAccessExpressionRest"), Again>>),
      When(Is("isTemplateStartOfTaggedTemplate"),
           <<When(And(Not(questionDotToken), FirstIs({"ExpressionWithTypeArguments"})), <<Unwrap>>),
             Rest("parseTaggedTemplateRest"), Again>>),
      When(And(At({"!"}), Not(Is("hasPrecedingLineBreak"))), <<NextToken, Node("NonNullExpression"), Again>>),
      Try(<<Parse("parseTypeArgumentsInExpression")>>),
      When(Got, <<Node("ExpressionWithTypeArguments"), Again>>)>>

-----------------------------------------------------------------------------
(* Decorators and modifiers. *)
parseDecoratorExpression ==
    <<If(And(InCtx("Await"), At({"await"})),
         <<parseIdentifier, NextToken, RestWith("parseMemberExpressionRest", {"OptionalChains"}),
           Rest("parseCallExpressionRest")>>,
         <<Parse("parseLeftHandSideExpressionOrHigher")>>)>>
tryParseDecorator ==
    <<parseOptional("@", <<Inside({"Decorator"}, <<Parse("parseDecoratorExpression")>>),
                           Node("Decorator")>>, <<>>)>>
parseDecorators ==
    <<Parse("tryParseDecorator"), If(Got, <<Again>>, <<When(Is("some"), <<Array("Decorators")>>)>>)>>
tryParseModifier ==
    <<If(And(At({"const"}), Has("PermitConst")),
         <<When(Is("nextTokenIsOnSameLineAndCanFollowModifier"), <<parseTokenNode>>)>>,
         <<When(And(At({"static"}), Or(Has("SeenStatic"), And(Has("StopOnStaticBlock"), NextIs({"{"})))),
                <<Fail>>),
           When(And(Is("isModifierKind"), Is("nextTokenCanFollowModifier")), <<parseTokenNode>>)>>)>>
parseModifiers ==
    <<Pass("tryParseModifier", {"PermitConst", "StopOnStaticBlock", "SeenStatic"}, {}),
      If(Got, <<Flag("SeenStatic", LastIs({"static"})), Again>>,
         <<When(Is("some"), <<Array("Modifiers")>>)>>)>>

(* Parameters. *)
parseNameOfParameter ==
    <<Parse("parseIdentifierOrPattern"),
      When(And(And(Is("lastIsMissing"), Not(Is("hasModifiers"))), Is("isModifierKind")), <<NextToken>>)>>
parseInitializer == <<parseOptional("=", <<Parse("parseAssignmentExpressionOrHigher")>>, <<>>)>>
parseParameterWorker ==
    <<If(Has("OuterAwait"), <<Inside({"Await"}, <<Parse("parseDecorators")>>)>>,
         <<Parse("parseDecorators")>>),
      When(At({"this"}),
           <<Take("Identifier"), Parse("parseTypeAnnotation"), Flag("Type", Got),
             When(FirstIs({"List"}), <<ErrorAt("first")>>), Node("Parameter"), Return>>),
      LeaveTop, Parse("parseModifiers"), parseOptionalToken("..."),
      When(And(Not(Has("Ambiguity")), Not(Is("isParameterNameStart"))), <<Fail>>)>>
    \o parseNameOfParameter \o
    <<parseOptionalToken("?"), Parse("parseTypeAnnotation"), Flag("Type", Got),
      Parse("parseInitializer"), Flag("Initializer", Got), Node("Parameter"), RestoreTop>>
parseReturnType ==
    LET type == <<allowConditionalTypesAnd(<<Parse("parseTypeOrTypePredicate")>>)>>
    IN  <<If(Has("Arrow"), <<Expect("=>")>> \o type,
             <<parseOptional(":", type,
                   <<When(And(Has("IsType"), At({"=>"})), <<Error, NextToken>> \o type)>>)>>)>>
parseTypeParameters ==
    When(At({"<"}), <<parseBracketedList("TypeParameters", "parseTypeParameter", "<", ">")>>)
(* Mutant: keeps the flags of the signature. *)
parseParametersWorkerUnrestored ==
    <<Flag("OuterAwait", InCtx("Await")), SetFromArg({"Yield", "Await"}),
      Delimited("Parameters", "parseParameterWorker")>>
parseParametersWorker ==
    <<Flag("OuterAwait", InCtx("Await")), SetFromArg({"Yield", "Await"}),
      Delimited("Parameters", "parseParameterWorker"), Restore({"Yield", "Await"})>>
parseParameters ==
    <<Expect("("),
      If(Got, <<Pass("parseParametersWorker", {"Yield", "Await"}, {"Ambiguity"}), Expect(")")>>,
         <<MissingList("Parameters")>>)>>

(* Binding patterns and property names. *)
parseArrayBindingElement ==
    <<When(At({","}), <<Node("OmittedExpression"), Return>>),
      parseOptionalToken("..."), Parse("parseIdentifierOrPattern"), Parse("parseInitializer"),
      Flag("Initializer", Got), Flag("ArrayElement", Is("always")), Node("BindingElement")>>
parseArrayBindingPattern ==
    <<Expect("["), Delimited("ArrayBindingElements", "parseArrayBindingElement"), Expect("]"),
      Node("ArrayBindingPattern")>>
parseComputedPropertyName ==
    <<Expect("["), allowInAnd(<<Parse("parseExpression")>>), Expect("]"), Node("ComputedPropertyName")>>
parsePropertyName ==
    <<If(At({"StringLiteral", "NumericLiteral"}), <<parseLiteralNode>>,
         <<If(At({"["}), <<Parse("parseComputedPropertyName")>>,
              <<If(At({"PrivateIdentifier"}), <<parsePrivateIdentifier>>, <<parseIdentifierName>>)>>)>>)>>
parseObjectBindingElement ==
    <<parseOptionalToken("..."), Flag("Identifier", Is("isBindingIdentifier")), Parse("parsePropertyName"),
      When(Or(Not(Has("Identifier")), At({":"})),
           <<Expect(":"), Flag("PropertyName", Is("always")), Parse("parseIdentifierOrPattern")>>),
      Parse("parseInitializer"), Flag("Initializer", Got), Node("BindingElement")>>
parseObjectBindingPattern ==
    <<Expect("{"), Delimited("ObjectBindingElements", "parseObjectBindingElement"), Expect("}"),
      Node("ObjectBindingPattern")>>
parseIdentifierOrPattern ==
    <<If(At({"["}), <<Parse("parseArrayBindingPattern")>>,
         <<If(At({"{"}), <<Parse("parseObjectBindingPattern")>>, <<parseBindingIdentifier>>)>>)>>

(* Is this "(" the start of a function type?  (lookahead) *)
skipParameterStart ==
    <<When(Is("isModifierKind"), <<Parse("parseModifiers")>>),
      When(Or(Is("isIdentifier"), At({"this"})), <<NextToken, Yes>>),
      When(At({"[", "{"}), <<CountErrors, Parse("parseIdentifierOrPattern"), When(Is("noNewErrors"), <<Yes>>)>>),
      Fail>>
isUnambiguouslyStartOfFunctionType ==
    <<NextToken,
      When(At({")", "..."}), <<Yes>>),
      Parse("skipParameterStart"),
      When(And(Got, At({":", ",", "?", "="})), <<Yes>>),
      When(And(And(Got, At({")"})), NextIs({"=>"})), <<Yes>>),
      Fail>>
isStartOfFunctionTypeOrConstructorType ==
    <<When(Or(At({"<", "new"}), And(At({"abstract"}), NextIs({"new"}))), <<Yes>>),
      When(At({"("}), <<Look(<<Parse("isUnambiguouslyStartOfFunctionType")>>), When(Got, <<Yes>>)>>),
      Fail>>
parseModifiersForConstructorType == <<When(At({"abstract"}), <<Take("abstract"), Array("Modifiers")>>)>>

-----------------------------------------------------------------------------
(* Type members. *)
Signature(flags, isType) ==
    <<parseTypeParameters, Pass("parseParameters", flags, {}), ParseWith("parseReturnType", isType),
      Flag("Type", Got)>>
parseSignatureMember ==
    <<When(Has("Construct"), <<Expect("new")>>)>> \o Signature({}, {"IsType"}) \o
    <<parseTypeMemberSemicolon,
      If(Has("Construct"), <<Node("ConstructSignature")>>, <<Node("CallSignature")>>)>>
parseAccessorDeclaration ==
    <<Parse("parsePropertyName")>> \o Signature({}, {}) \o
    <<Parse("parseFunctionBlockOrSemicolon"),
      If(Has("Get"), <<Node("GetAccessor")>>, <<Node("SetAccessor")>>)>>
parseIndexSignatureDeclaration ==
    <<Flag("Ambiguity", Is("always")), parseBracketedList("Parameters", "parseParameterWorker", "[", "]"),
      Parse("parseTypeAnnotation"), parseTypeMemberSemicolon, Node("IndexSignature")>>
parsePropertyOrMethodSignature ==
    <<Parse("parsePropertyName"), parseOptionalToken("?"),
      If(At({"(", "<"}),
         Signature({}, {"IsType"}) \o <<parseTypeMemberSemicolon, Node("MethodSignature")>>,
         <<Parse("parseTypeAnnotation"), Parse("parseInitializer"), parseTypeMemberSemicolon,
           Node("PropertySignature")>>)>>
Accessors(code) ==
    <<parseContextualModifier("get", <<RestWith("parseAccessorDeclaration", {"Get"}), Return>>),
      parseContextualModifier("set", <<RestWith("parseAccessorDeclaration", {"Set"}), Return>>)>> \o code
parseTypeMember ==
    <<When(At({"(", "<"}), <<Parse("parseSignatureMember"), Return>>),
      When(And(At({"new"}), NextIs({"(", "<"})), <<ParseWith("parseSignatureMember", {"Construct"}), Return>>),
      Parse("parseModifiers")>> \o
    Accessors(<<If(Is("isIndexSignature"), <<Rest("parseIndexSignatureDeclaration")>>,
                   <<Rest("parsePropertyOrMethodSignature")>>)>>)
parseObjectTypeMembers ==
    <<Expect("{"), If(Got, <<List("TypeMembers", "parseTypeMember"), Expect("}")>>,
         <<MissingList("TypeMembers")>>)>>
parseTypeLiteral == <<Parse("parseObjectTypeMembers"), Node("TypeLiteral")>>

-----------------------------------------------------------------------------
(* Blocks and functions. *)
parseBlock ==
    <<Expect("{"),
      If(Or(Got, Has("IgnoreMissingOpenBrace")),
         <<List("BlockStatements", "parseStatement"), parseExpectedMatchingBrackets("}"), Node("Block"),
           When(At({"="}), <<Error, NextToken>>)>>,
         <<MissingList("BlockStatements"), Node("Block")>>)>>
parseFunctionBlock ==
    <<SetFromArg({"Yield", "Await"}), LeaveTop, Clear({"Decorator"}),
      Pass("parseBlock", {"IgnoreMissingOpenBrace"}, {}),
      Restore({"Decorator"}), RestoreTop, Restore({"Yield", "Await"})>>
parseFunctionBlockOrSemicolon ==
    <<If(And(Not(At({"{"})), Is("canParseSemicolon")), <<parseSemicolon>>,
         <<Pass("parseFunctionBlock", {"Yield", "Await"}, {})>>)>>
FunctionFlags ==
    <<Flag("Yield", Collected({"*"})), Flag("Await", Modified({"async"}))>>
parseOptionalBindingIdentifier == When(Is("isBindingIdentifier"), <<parseBindingIdentifier>>)
(* doInYieldAndAwaitContext, doInYieldContext, doInAwaitContext or neither *)
FunctionName(A) ==
    <<If(And(Has("Yield"), Has("Await")), <<Inside({"Yield", "Await"}, A)>>,
         <<If(Has("Yield"), <<Inside({"Yield"}, A)>>,
              <<If(Has("Await"), <<Inside({"Await"}, A)>>, A)>>)>>)>>
parseFunctionExpression ==
    <<Clear({"Decorator"}), Parse("parseModifiers"), Expect("function"), parseOptionalToken("*")>>
    \o FunctionFlags \o FunctionName(<<parseOptionalBindingIdentifier>>)
    \o Signature({"Yield", "Await"}, {}) \o
    <<Pass("parseFunctionBlock", {"Yield", "Await"}, {}), Restore({"Decorator"}),
      Node("FunctionExpression")>>
parseMethodDeclaration ==
    FunctionFlags \o Signature({"Yield", "Await"}, {}) \o
    <<Pass("parseFunctionBlockOrSemicolon", {"Yield", "Await"}, {}), Node("MethodDeclaration")>>

-----------------------------------------------------------------------------
(* Calls, literals and other primary expressions. *)
parseSpreadElement ==
    <<Expect("..."), Parse("parseAssignmentExpressionOrHigher"), Node("SpreadElement")>>
parseArgumentOrArrayLiteralElement ==
    <<If(At({"..."}), <<Parse("parseSpreadElement")>>,
         <<If(At({","}), <<Node("OmittedExpression")>>, <<Parse("parseAssignmentExpressionOrHigher")>>)>>)>>
parseArgumentExpression ==
    <<Outside({"DisallowIn", "Decorator"}, <<Parse("parseArgumentOrArrayLiteralElement")>>)>>
parseArgumentList ==
    <<Expect("("), Delimited("ArgumentExpressions", "parseArgumentExpression"), Expect(")")>>
parseCallExpressionRest ==
    <<RestWith("parseMemberExpressionRest", {"OptionalChains"}),
      When(At({"?."}),
           <<Take("?."), Try(<<Parse("parseTypeArgumentsInExpression")>>),
             When(Is("isTemplateStartOfTaggedTemplate"), <<Rest("parseTaggedTemplateRest"), Again>>)>>),
      When(Or(LastIs({"List"}), At({"("})),
           <<When(And(Not(questionDotToken), FirstIs({"ExpressionWithTypeArguments"})), <<Unwrap>>),
             Parse("parseArgumentList"), Reparse, Node("CallExpression"), Again>>),
      When(questionDotToken,
           <<Missing("Identifier"), Flag("Chain", Is("always")), Node("PropertyAccessExpression")>>)>>
parseParenthesizedExpression ==
    <<Expect("("), allowInAnd(<<Parse("parseExpression")>>), Expect(")"), Node("ParenthesizedExpression")>>
parseArrayLiteralExpression ==
    <<Expect("["), Delimited("ArrayLiteralMembers", "parseArgumentOrArrayLiteralElement"),
      parseExpectedMatchingBrackets("]"), Node("ArrayLiteralExpression")>>
parseObjectLiteralElement ==
    <<When(At({"..."}), <<Skip("..."), Parse("parseAssignmentExpressionOrHigher"),
                          Node("SpreadAssignment"), Return>>),
      Parse("parseDecorators"), Parse("parseModifiers")>> \o
    Accessors(
      <<parseOptionalToken("*"), Flag("Identifier", Is("isIdentifier")), Parse("parsePropertyName"),
        parseOptionalToken("?"), parseOptionalToken("!"),
        When(Or(Collected({"*"}), At({"(", "<"})), <<Rest("parseMethodDeclaration"), Return>>),
        If(And(Has("Identifier"), Not(At({":"}))),
           <<When(At({"="}), <<Take("="), Flag("Initializer", Is("always")),
                            allowInAnd(<<Parse("parseAssignmentExpressionOrHigher")>>)>>),
             Node("ShorthandPropertyAssignment")>>,
           <<Expect(":"), allowInAnd(<<Parse("parseAssignmentExpressionOrHigher")>>),
             Node("PropertyAssignment")>>)>>)
parseObjectLiteralExpression ==
    <<Expect("{"), Delimited("ObjectLiteralMembers", "parseObjectLiteralElement"),
      parseExpectedMatchingBrackets("}"), Node("ObjectLiteralExpression")>>
parseNewExpressionOrNewDotTarget ==
    <<Expect("new"),
      parseOptional(".", <<parseIdentifierName, Flag("New", Is("always")), Node("MetaProperty"), Return>>, <<>>),
      Sub(<<Parse("parsePrimaryExpression"), Rest("parseMemberExpressionRest")>>),
      When(FirstIs({"ExpressionWithTypeArguments"}), <<Unwrap>>),
      When(At({"("}), <<Parse("parseArgumentList")>>), Node("NewExpression")>>
parsePrimaryExpression ==
    <<When(At({"NumericLiteral", "BigIntLiteral", "StringLiteral", "NoSubstitutionTemplateLiteral"}),
           <<parseLiteralNode, Return>>),
      When(At({"this", "super", "null", "true", "false"}), <<parseTokenNode, Return>>),
      When(At({"("}), <<Goto("parseParenthesizedExpression")>>),
      When(At({"["}), <<Goto("parseArrayLiteralExpression")>>),
      When(At({"{"}), <<Goto("parseObjectLiteralExpression")>>),
      When(Or(At({"function"}), And(At({"async"}), Is("nextTokenIsFunctionKeywordOnSameLine"))),
           <<Goto("parseFunctionExpression")>>),
      When(At({"class"}), <<Goto("parseClassExpression")>>),
      When(At({"new"}), <<Goto("parseNewExpressionOrNewDotTarget")>>),
      When(At({"/", "/="}),
           <<Rescan("Slash"), When(At({"RegularExpressionLiteral"}), <<parseLiteralNode, Return>>)>>),
      When(At({"TemplateHead"}), <<Goto("parseTemplateExpression")>>),
      When(At({"PrivateIdentifier"}), <<parsePrivateIdentifier, Return>>),
      parseIdentifier>>

-----------------------------------------------------------------------------
(* Classes. *)
parseExpressionWithTypeArguments ==
    <<Parse("parseLeftHandSideExpressionOrHigher"),
      When(Not(LastIs({"ExpressionWithTypeArguments"})),
           <<tryParseTypeArguments, Node("ExpressionWithTypeArguments")>>)>>
parseHeritageClause ==
    <<Flag("Extends", At({"extends"})), NextToken, Delimited("HeritageClauseElement", "parseExpressionWithTypeArguments"),
      Node("HeritageClause")>>
parseHeritageClauses ==
    When(At({"extends", "implements"}), <<List("HeritageClauses", "parseHeritageClause")>>)
parseClassStaticBlockBody ==
    <<Clear({"Yield"}), Set({"Await"}), Parse("parseBlock"), Restore({"Yield", "Await"})>>
parseClassStaticBlockDeclaration ==
    <<parseExpectedToken("static"), Drop, Parse("parseClassStaticBlockBody"),
      Node("ClassStaticBlockDeclaration")>>
parseConstructorName ==
    <<If(At({"constructor"}), <<NextToken, Flag("Constructor", Is("always"))>>,
         <<When(And(And(At({"StringLiteral"}), NextIs({"("})), Is("isConstructorString")),
                <<Skip("StringLiteral"), Flag("Constructor", Is("always"))>>)>>)>>
tryParseConstructorDeclaration ==
    <<Try(parseConstructorName \o
          <<If(Has("Constructor"),
               Signature({}, {}) \o <<Parse("parseFunctionBlockOrSemicolon"), Node("Constructor")>>,
               <<Fail>>)>>)>>
parseSemicolonAfterPropertyName ==
    If(And(At({"@"}), Not(Is("hasPrecedingLineBreak"))), <<Error>>,
     <<If(At({"("}), <<Error, NextToken>>,
      <<If(And(Has("Type"), Not(Is("canParseSemicolon"))), <<Error>>,
       <<If(Is("canParseSemicolon"), <<parseOptional(";", <<>>, <<>>)>>,
        <<If(Has("Initializer"), <<Error>>, <<ErrorAt("semicolon")>>)>>)>>)>>)>>)
parsePropertyDeclaration ==
    <<When(And(Not(Collected({"?"})), Not(Is("hasPrecedingLineBreak"))), <<parseOptionalToken("!")>>),
      Parse("parseTypeAnnotation"), Flag("Type", Got),
      Outside({"Yield", "Await", "DisallowIn"}, <<Parse("parseInitializer")>>), Flag("Initializer", Got),
      parseSemicolonAfterPropertyName, Node("PropertyDeclaration")>>
parsePropertyOrMethodDeclaration ==
    <<parseOptionalToken("*"), Parse("parsePropertyName"), parseOptionalToken("?"),
      If(Or(Collected({"*"}), At({"(", "<"})), <<Rest("parseMethodDeclaration")>>,
         <<Rest("parsePropertyDeclaration")>>)>>
parseClassElement ==
    <<parseOptional(";", <<Node("SemicolonClassElement"), Return>>, <<>>),
      Parse("parseDecorators"), ParseWith("parseModifiers", {"PermitConst", "StopOnStaticBlock"}),
      When(And(At({"static"}), NextIs({"{"})), <<Rest("parseClassStaticBlockDeclaration"), Return>>)>> \o
    Accessors(
      <<When(At({"constructor", "StringLiteral"}),
             tryParseConstructorDeclaration \o <<When(Ret({"Constructor"}), <<Return>>)>>),
        When(Is("isIndexSignature"), <<Rest("parseIndexSignatureDeclaration"), Return>>),
        When(Or(Is("tokenIsIdentifierOrKeyword"), At({"StringLiteral", "NumericLiteral", "*", "["})),
             <<If(Modified({"declare"}),
                  <<MarkAmbient, Inside({"Ambient"}, <<Rest("parsePropertyOrMethodDeclaration")>>)>>,
                  <<Rest("parsePropertyOrMethodDeclaration")>>), Return>>),
        If(Is("some"), <<MissingHere("Identifier"), Rest("parsePropertyDeclaration")>>, <<Throw>>)>>)
parseNameOfClassDeclarationOrExpression ==
    When(And(Is("isBindingIdentifier"), Not(Is("isImplementsClause"))), <<parseBindingIdentifier>>)
parseClassDeclarationOrExpression ==
    <<Expect("class"), parseNameOfClassDeclarationOrExpression, parseTypeParameters,
      When(Modified({"export"}), <<Set({"Await"})>>), parseHeritageClauses, Expect("{"),
      If(Got, <<List("ClassMembers", "parseClassElement"), Expect("}")>>, <<MissingList("ClassMembers")>>),
      Restore({"Await"})>>
parseClassExpression  == parseClassDeclarationOrExpression \o <<Node("ClassExpression")>>
parseClassDeclaration == parseClassDeclarationOrExpression \o <<Node("ClassDeclaration")>>

-----------------------------------------------------------------------------
(* Left-hand side, unary and binary expressions. *)
parseMemberExpressionOrHigher ==
    <<Parse("parsePrimaryExpression"), RestWith("parseMemberExpressionRest", {"OptionalChains"})>>
parseSuperExpression ==
    <<parseTokenNode,
      When(At({"<"}), <<Try(<<Parse("parseTypeArgumentsInExpression")>>),
                        When(Got, <<Drop, ErrorAt("behindFirst")>>)>>),
      When(At({"(", ".", "["}), <<Return>>),
      parseExpectedToken("."), Drop, ParseWith("parseRightSideOfDot", {"IdentifierNames", "PrivateNames"}),
      Node("PropertyAccessExpression")>>
parseLeftHandSideExpressionOrHigher ==
    <<If(At({"import"}),
         <<If(NextIs({"(", "<"}), <<SourceFlag("PossiblyContainsDynamicImport"), parseTokenNode>>,
              <<If(NextIs({"."}),
                   <<NextToken, NextToken, parseIdentifierName, Flag("Import", Is("always")), Node("MetaProperty"),
                     SourceFlag("PossiblyContainsImportMeta")>>,
                   <<Parse("parseMemberExpressionOrHigher")>>)>>)>>,
         <<If(At({"super"}), <<Parse("parseSuperExpression")>>, <<Parse("parseMemberExpressionOrHigher")>>)>>),
      Rest("parseCallExpressionRest")>>
parseUpdateExpression ==
    <<When(At({"++", "--"}), <<Flag("Update", Is("always")), NextToken, Parse("parseLeftHandSideExpressionOrHigher"),
                               Node("PrefixUnaryExpression"), Return>>),
      Parse("parseLeftHandSideExpressionOrHigher"),
      When(And(At({"++", "--"}), Not(Is("hasPrecedingLineBreak"))), <<NextToken, Node("PostfixUnaryExpression")>>)>>
Unary(k) == <<NextToken, Parse("parseSimpleUnaryExpression"), Node(k), Return>>
parsePrefixUnaryExpression == Unary("PrefixUnaryExpression")
parseDeleteExpression      == Unary("DeleteExpression")
parseTypeOfExpression      == Unary("TypeOfExpression")
parseVoidExpression        == Unary("VoidExpression")
parseAwaitExpression       == Unary("AwaitExpression")
parseTypeAssertion ==
    <<Expect("<"), Parse("parseType"), Expect(">"), Parse("parseSimpleUnaryExpression"),
      Node("TypeAssertionExpression")>>
parseSimpleUnaryExpression ==
    <<When(At({"+", "-", "~", "!"}), parsePrefixUnaryExpression),
      When(At({"delete"}), parseDeleteExpression),
      When(At({"typeof"}), parseTypeOfExpression),
      When(At({"void"}), parseVoidExpression),
      When(At({"<"}), <<Goto("parseTypeAssertion")>>),
      When(Is("isAwaitExpression"), parseAwaitExpression),
      Goto("parseUpdateExpression")>>
parseUnaryExpressionOrHigher ==
    <<If(Is("isUpdateExpression"),
         <<Parse("parseUpdateExpression"), When(At({"**"}), <<Power("parseBinaryExpressionRest")>>)>>,
         <<Parse("parseSimpleUnaryExpression"), When(At({"**"}), <<ErrorAt("lastToken")>>)>>)>>
parseBinaryExpressionOrHigher ==
    <<Parse("parseUnaryExpressionOrHigher"), Rest("parseBinaryExpressionRest")>>
parseBinaryExpressionRest ==
    <<Rescan("Greater"),
      When(Not(Is("consumeCurrentOperator")), <<Return>>),
      When(And(At({"in"}), InCtx("DisallowIn")), <<Return>>),
      If(At({"as"}),
         <<When(Is("hasPrecedingLineBreak"), <<Return>>), NextToken, Parse("parseType"), Node("AsExpression")>>,
         <<parseTokenNode, Operand("parseBinaryExpressionOrHigher"), Node("BinaryExpression")>>),
      Again>>

-----------------------------------------------------------------------------
(* Types. *)
parseTypeParameter ==
    <<Parse("parseModifiers"), parseIdentifier,
      parseOptional("extends",
          <<If(Or(Is("isStartOfType"), Not(Is("isStartOfExpression"))), <<Parse("parseType")>>,
               <<Parse("parseUnaryExpressionOrHigher")>>)>>, <<>>),
      parseOptional("=", <<Parse("parseType")>>, <<>>), Node("TypeParameter")>>
parseFunctionOrConstructorType ==
    <<Parse("parseModifiersForConstructorType"), Flag("Construct", At({"new"})),
      parseOptional("new", <<>>, <<>>)>> \o Signature({}, {"Arrow"}) \o
    <<If(Has("Construct"), <<Node("ConstructorType")>>, <<Node("FunctionType")>>)>>
parseTypeOperatorGreedy ==    \* Mutant: the operand may be a union
    <<Flag("Readonly", At({"readonly"})), NextToken, Parse("parseUnionTypeOrHigher"), Node("TypeOperator")>>
parseTypeOperator ==
    <<Flag("Readonly", At({"readonly"})), NextToken, Parse("parseTypeOperatorOrHigher"), Node("TypeOperator")>>
tryParseConstraintOfInferType ==
    <<parseOptional("extends",
          <<disallowConditionalTypesAnd(<<Parse("parseType")>>),
            When(Or(InCtx("DisallowConditionalTypes"), Not(At({"?"}))), <<Return>>)>>, <<>>), Fail>>
parseTypeParameterOfInferType ==
    <<parseIdentifier, Try(tryParseConstraintOfInferType), Node("TypeParameter")>>
parseInferType == <<Expect("infer"), Parse("parseTypeParameterOfInferType"), Node("InferType")>>
parseKeywordAndNoDot == <<parseTokenNode, When(At({"."}), <<Fail>>)>>
parseLiteralTypeNode ==
    <<When(Has("Negative"), <<NextToken>>),
      If(At({"true", "false", "null"}), <<parseTokenNode>>, <<parseLiteralNode>>),
      When(Has("Negative"), <<Node("PrefixUnaryExpression")>>), Node("LiteralType")>>
parseAssertEntry ==
    <<If(Is("tokenIsIdentifierOrKeyword"), <<parseIdentifierName>>, <<Take("StringLiteral")>>),
      Expect(":"), Parse("parseAssignmentExpressionOrHigher"), Node("AssertEntry")>>
parseAssertClause ==    \* the only caller skips the keyword; an array without list is an exception
    <<Expect("{"), When(Not(Got), <<Throw>>), Delimited("AssertEntries", "parseAssertEntry"),
      Expect("}"), Node("AssertClause")>>
parseImportTypeAssertions ==
    <<Expect("{"), Expect("assert"), Expect(":"), Parse("parseAssertClause"), Expect("}"),
      Node("ImportTypeAssertionContainer")>>
parseImportType ==
    <<SourceFlag("PossiblyContainsDynamicImport"), parseOptional("typeof", <<>>, <<>>),
      Expect("import"), Expect("("), Parse("parseType"),
      parseOptional(",", <<Parse("parseImportTypeAssertions")>>, <<>>), Expect(")"),
      parseOptional(".", <<ParseWith("parseEntityName", {"IdentifierNames"})>>, <<>>),
      Parse("parseTypeArgumentsOfTypeReference"), Node("ImportType")>>
parseMappedTypeParameter ==
    <<parseIdentifierName, Expect("in"), Parse("parseType"), Node("TypeParameter")>>
MappedModifier(t) ==
    When(At({t, "+", "-"}), <<parseTokenNode, When(Not(LastIs({t})), <<Expect(t)>>)>>)
parseMappedType ==
    <<Expect("{"), MappedModifier("readonly"), Expect("["), Parse("parseMappedTypeParameter"),
      parseOptional("as", <<Parse("parseType")>>, <<>>), Expect("]"), MappedModifier("?"),
      Parse("parseTypeAnnotation"), parseSemicolon, List("TypeMembers", "parseTypeMember"),
      Expect("}"), Node("MappedType")>>
parseTupleElementType ==
    <<parseOptional("...", <<Parse("parseType"), Node("RestType"), Return>>, <<>>),
      Parse("parseType"), When(Is("nullableAtItsType"), <<AsOptionalType>>)>>
parseTupleElementNameOrTupleElementType ==
    <<When(Is("isTupleElementName"),
           <<parseOptionalToken("..."), parseIdentifierName, parseOptionalToken("?"), Expect(":"),
             Parse("parseTupleElementType"), Node("NamedTupleMember"), Return>>),
      Goto("parseTupleElementType")>>
parseTupleType ==
    <<parseBracketedList("TupleElementTypes", "parseTupleElementNameOrTupleElementType", "[", "]"),
      Node("TupleType")>>
parseParenthesizedType == <<Expect("("), Parse("parseType"), Expect(")"), Node("ParenthesizedType")>>
parseAssertsTypePredicate ==
    <<parseExpectedToken("asserts"), If(At({"this"}), <<Parse("parseThisTypeNode")>>, <<parseIdentifier>>),
      parseOptional("is", <<Parse("parseType")>>, <<>>), Node("TypePredicate")>>
parseTemplateTypeSpan ==
    <<Parse("parseType"), Parse("parseLiteralOfTemplateSpan"), Node("TemplateLiteralTypeSpan")>>
parseTemplateTypeSpans ==
    <<Parse("parseTemplateTypeSpan"),
      While(Is("spanContinues"), <<Parse("parseTemplateTypeSpan")>>), Array("TemplateSpans")>>
parseTemplateType ==
    <<Parse("parseTemplateHead"), Parse("parseTemplateTypeSpans"), Node("TemplateLiteralType")>>
parseNonArrayType ==
    <<When(At({"any", "unknown", "string", "number", "bigint", "symbol", "boolean", "undefined",
               "never", "object"}),
           <<Try(<<Parse("parseKeywordAndNoDot")>>), When(Got, <<Return>>)>>),
      When(At({"*", "*=", "?", "??", "function", "!"}), <<Throw>>),    \* JSDoc types
      When(At({"NoSubstitutionTemplateLiteral", "StringLiteral", "NumericLiteral", "BigIntLiteral",
               "true", "false", "null"}), <<Goto("parseLiteralTypeNode")>>),
      When(And(At({"-"}), Is("nextTokenIsNumericOrBigIntLiteral")),
           <<ParseWith("parseLiteralTypeNode", {"Negative"}), Return>>),
      When(At({"void"}), <<parseTokenNode, Return>>),
      When(At({"this"}),
           <<Parse("parseThisTypeNode"),
             When(And(At({"is"}), Not(Is("hasPrecedingLineBreak"))), <<Rest("parseThisTypePredicate")>>),
             Return>>),
      When(At({"typeof"}),
           <<If(NextIs({"import"}), <<Goto("parseImportType")>>, <<Goto("parseTypeQuery")>>)>>),
      When(At({"{"}),
           <<If(Is("isStartOfMappedType"), <<Goto("parseMappedType")>>, <<Goto("parseTypeLiteral")>>)>>),
      When(At({"["}), <<Goto("parseTupleType")>>),
      When(At({"("}), <<Goto("parseParenthesizedType")>>),
      When(At({"import"}), <<Goto("parseImportType")>>),
      When(And(At({"asserts"}), Is("nextTokenIsIdentifierOrKeywordOnSameLine")),
           <<Goto("parseAssertsTypePredicate")>>),
      When(At({"TemplateHead"}), <<Goto("parseTemplateType")>>),
      Goto("parseTypeReference")>>
parsePostfixTypeOrHigher ==
    <<Parse("parseNonArrayType"),
      While(Not(Is("hasPrecedingLineBreak")),
        <<If(At({"!"}), <<NextToken, Node("JSDocNonNullableType")>>,
           <<If(At({"?"}),
                <<When(Is("nextTokenIsStartOfType"), <<Return>>), NextToken, Node("JSDocNullableType")>>,
             <<If(At({"["}),
                  <<NextToken,
                    If(Is("isStartOfType"), <<Parse("parseType"), Expect("]"), Node("IndexedAccessType")>>,
                       <<Expect("]"), Node("ArrayType")>>)>>,
                  <<Return>>)>>)>>)>>)>>
parseTypeOperatorOrHigher ==
    <<When(At({"keyof", "unique", "readonly"}), <<Goto("parseTypeOperator")>>),
      When(At({"infer"}), <<Goto("parseInferType")>>),
      allowConditionalTypesAnd(<<Parse("parsePostfixTypeOrHigher")>>)>>
parseFunctionOrConstructorTypeToError ==
    <<Parse("isStartOfFunctionTypeOrConstructorType"),
      When(Got, <<Parse("parseFunctionOrConstructorType"), ErrorAt("last")>>)>>
(* With a leading operator the first constituent is only looked for as a function type. *)
parseUnionOrIntersectionType(operator, constituent, kind) ==
    <<Flag("Leading", At({operator})),
      If(Has("Leading"), <<NextToken, Parse("parseFunctionOrConstructorTypeToError")>>, <<Parse(constituent)>>),
      When(Or(At({operator}), Has("Leading")),
           <<While(At({operator}),
                   <<NextToken, Parse("parseFunctionOrConstructorTypeToError"),
                     When(Not(Got), <<Parse(constituent)>>)>>),
             Node(kind)>>)>>
parseIntersectionTypeOrHigher ==
    parseUnionOrIntersectionType("&", "parseTypeOperatorOrHigher", "IntersectionType")
parseUnionTypeOrHigher ==
    parseUnionOrIntersectionType("|", "parseIntersectionTypeOrHigher", "UnionType")
parseType ==
    <<When(Or(InCtx("Yield"), InCtx("Await")), <<Outside({"Yield", "Await"}, <<Parse("parseType")>>), Return>>),
      Parse("isStartOfFunctionTypeOrConstructorType"),
      When(Got, <<Goto("parseFunctionOrConstructorType")>>),
      Parse("parseUnionTypeOrHigher"),
      When(And(And(Not(InCtx("DisallowConditionalTypes")), Not(Is("hasPrecedingLineBreak"))), At({"extends"})),
           <<NextToken, disallowConditionalTypesAnd(<<Parse("parseType")>>),
             Expect("?"), allowConditionalTypesAnd(<<Parse("parseType")>>),
             Expect(":"), allowConditionalTypesAnd(<<Parse("parseType")>>), Node("ConditionalType")>>)>>
parseTypeAnnotation == <<parseOptional(":", <<Parse("parseType")>>, <<>>)>>
parseTypePredicatePrefix ==
    <<parseIdentifier,
      When(And(At({"is"}), Not(Is("hasPrecedingLineBreak"))), <<NextToken, Yes>>), Fail>>
parseTypeOrTypePredicate ==
    <<When(Is("isIdentifier"), <<Try(parseTypePredicatePrefix)>>),
      Flag("Predicate", Is("some")), Parse("parseType"),
      When(Has("Predicate"), <<Node("TypePredicate")>>)>>

-----------------------------------------------------------------------------
(* Expressions with the lowest precedence: comma, yield, arrow functions, "?:", assignment. *)
parseExpression ==
    <<Flag("InDecorator", InCtx("Decorator")), Clear({"Decorator"}),
      Parse("parseAssignmentExpressionOrHigher"),
      While(At({","}),
            <<parseTokenNode, Parse("parseAssignmentExpressionOrHigher"), Node("BinaryExpression")>>),
      When(Has("InDecorator"), <<Set({"Decorator"})>>)>>
parseYieldExpression ==
    <<NextToken,
      When(And(Not(Is("hasPrecedingLineBreak")), Or(At({"*"}), Is("isStartOfExpression"))),
           <<parseOptionalToken("*"), Parse("parseAssignmentExpressionOrHigher")>>),
      Node("YieldExpression")>>
parseModifiersForArrowFunction == <<When(At({"async"}), <<Take("async"), Array("Modifiers")>>)>>
parseArrowFunctionExpressionBody ==
    LET body == <<Parse("parseAssignmentExpressionOrHigher")>>
    IN  <<When(At({"{"}), <<Pass("parseFunctionBlock", {"Await"}, {}), Return>>),
          When(And(And(Not(At({";", "function", "class"})), Is("isStartOfStatement")),
                   Not(Is("isStartOfExpressionStatement"))),
               <<Pass("parseFunctionBlock", {"Await"}, {"IgnoreMissingOpenBrace"}), Return>>),
          LeaveTop, If(Has("Await"), <<Inside({"Await"}, body)>>, <<Outside({"Await"}, body)>>), RestoreTop>>
(* Ambiguity is allowAmbiguity: without it, what turns out to be no arrow function is null. *)
parseParenthesizedArrowFunctionExpression ==
    LET orNull(q) == When(And(q, Not(Has("Ambiguity"))), <<Fail>>)
    IN  <<Parse("parseModifiersForArrowFunction"), Flag("Await", Modified({"async"})), parseTypeParameters,
          Expect("("),
          If(Got, <<Pass("parseParametersWorker", {"Await", "Ambiguity"}, {}), orNull(Not(Got)),
                    Expect(")"), orNull(Not(Got))>>,
             <<orNull(Is("always")), MissingList("Parameters")>>),
          Parse("parseReturnType"), Flag("Type", Got),
          When(And(Got, Not(Has("Ambiguity"))), <<BlockingError, When(Has("Blocked"), <<Fail>>)>>),
          orNull(Not(At({"=>", "{"}))),
          Flag("Body", At({"=>", "{"})), parseExpectedToken("=>"),
          If(Has("Body"), <<Pass("parseArrowFunctionExpressionBody", {"Await"}, {})>>, <<parseIdentifier>>),
          Node("ArrowFunction")>>
parsePossibleParenthesizedArrowFunctionExpression ==
    <<When(Is("notParenthesizedArrow"), <<Fail>>), Parse("parseParenthesizedArrowFunctionExpression"),
      When(Not(Got), <<NotArrow, Fail>>)>>
isUnParenthesizedAsyncArrowFunctionWorker ==
    <<NextToken, When(Or(Is("hasPrecedingLineBreak"), At({"=>"})), <<Fail>>),
      Parse("parseBinaryExpressionOrHigher"),
      When(And(And(Not(Is("hasPrecedingLineBreak")), LastIs({"Identifier"})), At({"=>"})), <<Yes>>), Fail>>
(* Behind the identifier (and "async"): the identifier becomes the only parameter. *)
parseSimpleArrowFunctionExpression ==
    <<Flag("Await", Modified({"async"})), LastAsParameter, parseExpectedToken("=>"),
      Pass("parseArrowFunctionExpressionBody", {"Await"}, {}), Node("ArrowFunction")>>
tryParseAsyncSimpleArrowFunctionExpression ==
    <<Parse("parseModifiersForArrowFunction"), Parse("parseBinaryExpressionOrHigher"),
      Rest("parseSimpleArrowFunctionExpression")>>
(* Mutant: without the colon there is no third operand. *)
parseConditionalExpressionRestOpen ==
    <<When(At({"?"}),
           <<Take("?"), Outside({"DisallowIn", "Decorator"}, <<Parse("parseAssignmentExpressionOrHigher")>>),
             parseExpectedToken(":"),
             If(Is("lastIsMissing"), <<>>, <<Parse("parseAssignmentExpressionOrHigher")>>),
             Node("ConditionalExpression")>>)>>
parseConditionalExpressionRest ==
    <<When(At({"?"}),
           <<Take("?"), Outside({"DisallowIn", "Decorator"}, <<Parse("parseAssignmentExpressionOrHigher")>>),
             parseExpectedToken(":"),
             If(Is("lastIsMissing"), <<Missing("Identifier")>>, <<Parse("parseAssignmentExpressionOrHigher")>>),
             Node("ConditionalExpression")>>)>>
tryParseParenthesizedArrowFunctionExpression ==
    <<When(Is("isParenthesizedArrowFunctionExpression"),
           <<ParseWith("parseParenthesizedArrowFunctionExpression", {"Ambiguity"}), Return>>),
      When(Is("mayBeParenthesizedArrowFunctionExpression"),
           <<Try(<<Parse("parsePossibleParenthesizedArrowFunctionExpression")>>), When(Got, <<Return>>)>>)>>
parseAssignmentExpressionOrHigher ==
    <<When(Is("isYieldExpression"), <<Goto("parseYieldExpression")>>)>>
    \o tryParseParenthesizedArrowFunctionExpression \o
    <<When(At({"async"}),
           <<Look(isUnParenthesizedAsyncArrowFunctionWorker),
             When(Got, <<Goto("tryParseAsyncSimpleArrowFunctionExpression")>>)>>),
      Parse("parseBinaryExpressionOrHigher"),
      When(And(LastIs({"Identifier"}), At({"=>"})), <<Rest("parseSimpleArrowFunctionExpression"), Return>>),
      When(Is("isLeftHandSideExpression"),
           <<Rescan("Greater"),
             When(Is("isAssignmentOperator"),
                  <<parseTokenNode, Parse("parseAssignmentExpressionOrHigher"), Node("BinaryExpression"),
                    Return>>)>>),
      Rest("parseConditionalExpressionRest")>>

-----------------------------------------------------------------------------
(* Statements and declarations.  Only these statements are parsed; the other *)
(* declarations end in an exception.                                         *)
parseEmptyStatementUnread == <<Node("EmptyStatement")>>    \* Mutant: leaves the ";"
parseEmptyStatement == <<Expect(";"), Node("EmptyStatement")>>
parseIfStatement ==
    <<Expect("if"), Expect("("), allowInAnd(<<Parse("parseExpression")>>), parseExpectedMatchingBrackets(")"),
      Parse("parseStatement"), parseOptional("else", <<Parse("parseStatement")>>, <<>>),
      Node("IfStatement")>>
parseReturnStatement ==
    <<Expect("return"),
      When(Not(Is("canParseSemicolon")), <<allowInAnd(<<Parse("parseExpression")>>)>>),
      parseSemicolon, Node("ReturnStatement")>>
parseExpressionOrLabeledStatement ==
    <<allowInAnd(<<Parse("parseExpression")>>),
      If(And(FirstIs({"Identifier"}), At({":"})),
         <<NextToken, Parse("parseStatement"), Node("LabeledStatement")>>,
         <<If(Is("canParseSemicolon"), <<parseOptional(";", <<>>, <<>>)>>, <<ErrorAt("semicolon")>>),
           Node("ExpressionStatement")>>)>>
parseVariableDeclaration ==
    <<Parse("parseIdentifierOrPattern"),
      When(And(And(LastIs({"Identifier"}), At({"!"})), Not(Is("hasPrecedingLineBreak"))), <<parseTokenNode>>),
      Parse("parseTypeAnnotation"), Flag("Type", Got),
      When(Not(At({"in", "of"})), <<Parse("parseInitializer"), Flag("Initializer", Got)>>),
      Node("VariableDeclaration")>>
parseVariableDeclarationList ==
    <<Flag("BlockScoped", Not(At({"var"}))), NextToken,
      If(And(At({"of"}), Is("canFollowContextualOfKeyword")), <<MissingList("VariableDeclarations")>>,
         <<Clear({"DisallowIn"}), Delimited("VariableDeclarations", "parseVariableDeclaration"),
           Restore({"DisallowIn"})>>),
      Node("VariableDeclarationList")>>
parseVariableStatement ==
    <<Parse("parseVariableDeclarationList"), parseSemicolon, Node("VariableStatement")>>
parseFunctionDeclaration ==
    <<Expect("function"), parseOptionalToken("*"),
      If(Modified({"default"}), <<parseOptionalBindingIdentifier>>, <<parseBindingIdentifier>>)>>
    \o FunctionFlags \o
    <<parseTypeParameters, When(Modified({"export"}), <<Set({"Await"})>>),
      Pass("parseParameters", {"Yield", "Await"}, {}), Parse("parseReturnType"), Flag("Type", Got),
      Pass("parseFunctionBlockOrSemicolon", {"Yield", "Await"}, {}), Restore({"Await"}),
      Node("FunctionDeclaration")>>
parseTypeAliasDeclaration ==
    <<Expect("type"), parseIdentifier, parseTypeParameters, Expect("="),
      If(At({"intrinsic"}), <<Try(<<Parse("parseKeywordAndNoDot")>>)>>, <<Parse("parseType")>>),
      parseSemicolon, Node("TypeAliasDeclaration")>>
parseDeclarationWorker ==
    <<When(At({"var", "let", "const"}), <<Goto("parseVariableStatement")>>),
      When(At({"function"}), <<Goto("parseFunctionDeclaration")>>),
      When(At({"class"}), <<Goto("parseClassDeclaration")>>),
      When(At({"type"}), <<Goto("parseTypeAliasDeclaration")>>),
      Throw>>
(* The modifiers are first read ahead only to learn whether "declare" is one of them. *)
parseDeclaration ==
    <<Look(<<Parse("parseDecorators"), Parse("parseModifiers")>>),
      Parse("parseDecorators"), Parse("parseModifiers"),
      If(Modified({"declare"}),
         <<MarkAmbient, Inside({"Ambient"}, <<Rest("parseDeclarationWorker")>>)>>,
         <<Rest("parseDeclarationWorker")>>)>>
parseStatement ==
    <<When(At({";"}), <<Goto("parseEmptyStatement")>>),
      When(At({"{"}), <<Goto("parseBlock")>>),
      When(Or(At({"var"}), And(At({"let"}), Is("isLetDeclaration"))), <<Goto("parseVariableStatement")>>),
      When(At({"function"}), <<Goto("parseFunctionDeclaration")>>),
      When(At({"class"}), <<Goto("parseClassDeclaration")>>),
      When(At({"if"}), <<Goto("parseIfStatement")>>),
      When(At({"return"}), <<Goto("parseReturnStatement")>>),
      When(At({"@"}), <<Goto("parseDeclaration")>>),
      When(And(At({"async", "interface", "type", "module", "namespace", "declare", "const", "enum",
                   "export", "import", "private", "protected", "public", "abstract", "static",
                   "readonly", "global"}), Is("isStartOfDeclaration")), <<Goto("parseDeclaration")>>),
      Goto("parseExpressionOrLabeledStatement")>>
parseSourceFileWorker ==
    <<NextToken, List("SourceElements", "parseStatement"), Take("EndOfFileToken")>>

-----------------------------------------------------------------------------
(* The functions that are called by name. *)
Grammar ==
   [parseTemplateMiddleOrTemplateTail |-> parseTemplateMiddleOrTemplateTail,
    parseLiteralOfTemplateSpan |-> parseLiteralOfTemplateSpan,
    parseTemplateSpan |-> parseTemplateSpan, parseTemplateSpans |-> parseTemplateSpans,
    parseTemplateHead |-> parseTemplateHead, parseTemplateExpression |-> parseTemplateExpression,
    parseRightSideOfDot |-> parseRightSideOfDot, parseEntityName |-> parseEntityName,
    parseTypeArgumentsOfTypeReference |-> parseTypeArgumentsOfTypeReference,
    parseTypeReference |-> parseTypeReference, parseThisTypePredicate |-> parseThisTypePredicate,
    parseTypeQuery |-> parseTypeQuery,
    parsePropertyAccessExpressionRest |-> parsePropertyAccessExpressionRest,
    parseElementAccessExpressionRest |-> parseElementAccessExpressionRest,
    parseTaggedTemplateRest |-> parseTaggedTemplateRest,
    parseTypeArgumentsInExpression |-> parseTypeArgumentsInExpression,
    parseMemberExpressionRest |-> parseMemberExpressionRest,
    parseDecoratorExpression |-> parseDecoratorExpression, tryParseDecorator |-> tryParseDecorator,
    parseDecorators |-> parseDecorators, tryParseModifier |-> tryParseModifier,
    parseModifiers |-> parseModifiers, parseInitializer |-> parseInitializer,
    parseParameterWorker |-> parseParameterWorker, parseReturnType |-> parseReturnType,
    parseParametersWorker |-> parseParametersWorker, parseParameters |-> parseParameters,
    parseArrayBindingElement |-> parseArrayBindingElement,
    parseArrayBindingPattern |-> parseArrayBindingPattern,
    parseComputedPropertyName |-> parseComputedPropertyName,
    parsePropertyName |-> parsePropertyName,
    parseObjectBindingElement |-> parseObjectBindingElement,
    parseObjectBindingPattern |-> parseObjectBindingPattern,
    parseIdentifierOrPattern |-> parseIdentifierOrPattern,
    skipParameterStart |-> skipParameterStart,
    isUnambiguouslyStartOfFunctionType |-> isUnambiguouslyStartOfFunctionType,
    isStartOfFunctionTypeOrConstructorType |-> isStartOfFunctionTypeOrConstructorType,
    parseModifiersForConstructorType |-> parseModifiersForConstructorType,
    parseSignatureMember |-> parseSignatureMember,
    parseAccessorDeclaration |-> parseAccessorDeclaration,
    parseIndexSignatureDeclaration |-> parseIndexSignatureDeclaration,
    parsePropertyOrMethodSignature |-> parsePropertyOrMethodSignature,
    parseTypeMember |-> parseTypeMember, parseObjectTypeMembers |-> parseObjectTypeMembers,
    parseTypeLiteral |-> parseTypeLiteral, parseBlock |-> parseBlock,
    parseFunctionBlock |-> parseFunctionBlock,
    parseFunctionBlockOrSemicolon |-> parseFunctionBlockOrSemicolon,
    parseFunctionExpression |-> parseFunctionExpression,
    parseMethodDeclaration |-> parseMethodDeclaration, parseSpreadElement |-> parseSpreadElement,
    parseArgumentOrArrayLiteralElement |-> parseArgumentOrArrayLiteralElement,
    parseArgumentExpression |-> parseArgumentExpression, parseArgumentList |-> parseArgumentList,
    parseCallExpressionRest |-> parseCallExpressionRest,
    parseParenthesizedExpression |-> parseParenthesizedExpression,
    parseArrayLiteralExpression |-> parseArrayLiteralExpression,
    parseObjectLiteralElement |-> parseObjectLiteralElement,
    parseObjectLiteralExpression |-> parseObjectLiteralExpression,
    parseNewExpressionOrNewDotTarget |-> parseNewExpressionOrNewDotTarget,
    parsePrimaryExpression |-> parsePrimaryExpression,
    parseExpressionWithTypeArguments |-> parseExpressionWithTypeArguments,
    parseHeritageClause |-> parseHeritageClause,
    parseClassStaticBlockBody |-> parseClassStaticBlockBody,
    parseClassStaticBlockDeclaration |-> parseClassStaticBlockDeclaration,
    parsePropertyDeclaration |-> parsePropertyDeclaration,
    parsePropertyOrMethodDeclaration |-> parsePropertyOrMethodDeclaration,
    parseClassElement |-> parseClassElement, parseClassDeclaration |-> parseClassDeclaration,
    parseMemberExpressionOrHigher |-> parseMemberExpressionOrHigher,
    parseSuperExpression |-> parseSuperExpression,
    parseLeftHandSideExpressionOrHigher |-> parseLeftHandSideExpressionOrHigher,
    parseUpdateExpression |-> parseUpdateExpression, parseTypeAssertion |-> parseTypeAssertion,
    parseSimpleUnaryExpression |-> parseSimpleUnaryExpression,
    parseUnaryExpressionOrHigher |-> parseUnaryExpressionOrHigher,
    parseBinaryExpressionOrHigher |-> parseBinaryExpressionOrHigher,
    parseBinaryExpressionRest |-> parseBinaryExpressionRest,
    parseTypeParameter |-> parseTypeParameter,
    parseFunctionOrConstructorType |-> parseFunctionOrConstructorType,
    parseTypeOperator |-> parseTypeOperator,
    parseTypeParameterOfInferType |-> parseTypeParameterOfInferType,
    parseInferType |-> parseInferType, parseKeywordAndNoDot |-> parseKeywordAndNoDot,
    parseLiteralTypeNode |-> parseLiteralTypeNode, parseAssertEntry |-> parseAssertEntry,
    parseAssertClause |-> parseAssertClause,
    parseImportTypeAssertions |-> parseImportTypeAssertions, parseImportType |-> parseImportType,
    parseMappedTypeParameter |-> parseMappedTypeParameter, parseMappedType |-> parseMappedType,
    parseTupleElementType |-> parseTupleElementType,
    parseTupleElementNameOrTupleElementType |-> parseTupleElementNameOrTupleElementType,
    parseTupleType |-> parseTupleType, parseParenthesizedType |-> parseParenthesizedType,
    parseAssertsTypePredicate |-> parseAssertsTypePredicate,
    parseTemplateTypeSpan |-> parseTemplateTypeSpan,
    parseTemplateTypeSpans |-> parseTemplateTypeSpans, parseTemplateType |-> parseTemplateType,
    parseNonArrayType |-> parseNonArrayType, parsePostfixTypeOrHigher |-> parsePostfixTypeOrHigher,
    parseTypeOperatorOrHigher |-> parseTypeOperatorOrHigher,
    parseFunctionOrConstructorTypeToError |-> parseFunctionOrConstructorTypeToError,
    parseIntersectionTypeOrHigher |-> parseIntersectionTypeOrHigher,
    parseUnionTypeOrHigher |-> parseUnionTypeOrHigher, parseType |-> parseType,
    parseTypeAnnotation |-> parseTypeAnnotation,
    parseTypeOrTypePredicate |-> parseTypeOrTypePredicate, parseExpression |-> parseExpression,
    parseYieldExpression |-> parseYieldExpression,
    parseModifiersForArrowFunction |-> parseModifiersForArrowFunction,
    parseArrowFunctionExpressionBody |-> parseArrowFunctionExpressionBody,
    parseParenthesizedArrowFunctionExpression |-> parseParenthesizedArrowFunctionExpression,
    parsePossibleParenthesizedArrowFunctionExpression |-> parsePossibleParenthesizedArrowFunctionExpression,
    parseSimpleArrowFunctionExpression |-> parseSimpleArrowFunctionExpression,
    tryParseAsyncSimpleArrowFunctionExpression |-> tryParseAsyncSimpleArrowFunctionExpression,
    parseConditionalExpressionRest |-> parseConditionalExpressionRest,
    parseAssignmentExpressionOrHigher |-> parseAssignmentExpressionOrHigher,
    parseEmptyStatement |-> parseEmptyStatement, parseIfStatement |-> parseIfStatement,
    parseReturnStatement |-> parseReturnStatement,
    parseExpressionOrLabeledStatement |-> parseExpressionOrLabeledStatement,
    parseVariableDeclaration |-> parseVariableDeclaration,
    parseVariableDeclarationList |-> parseVariableDeclarationList,
    parseVariableStatement |-> parseVariableStatement,
    parseFunctionDeclaration |-> parseFunctionDeclaration,
    parseTypeAliasDeclaration |-> parseTypeAliasDeclaration,
    parseDeclarationWorker |-> parseDeclarationWorker, parseDeclaration |-> parseDeclaration,
    parseStatement |-> parseStatement, parseSourceFileWorker |-> parseSourceFileWorker,
    parseThisTypeNode |-> parseThisTypeNode, parseClassExpression |-> parseClassExpression]
=============================================================================
