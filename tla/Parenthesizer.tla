--------------------------- MODULE Parenthesizer ---------------------------
(***************************************************************************)
(* Where the factory puts parentheses of its own around an operand or a    *)
(* type, and the precedences and associativities it decides by.  The       *)
(* parser makes every node through these rules.                            *)
(***************************************************************************)
EXTENDS Tokens, TransformFlags

-----------------------------------------------------------------------------
(* Kinds of expressions. *)
isLeftHandSideExpressionKind(k) ==
    k \in {"PropertyAccessExpression", "ElementAccessExpression", "NewExpression", "CallExpression",
           "TaggedTemplateExpression", "ArrayLiteralExpression", "ParenthesizedExpression",
           "ObjectLiteralExpression", "ClassExpression", "FunctionExpression", "Identifier",
           "PrivateIdentifier", "RegularExpressionLiteral", "NumericLiteral", "BigIntLiteral",
           "StringLiteral", "NoSubstitutionTemplateLiteral", "TemplateExpression", "false", "null",
           "this", "true", "super", "NonNullExpression", "ExpressionWithTypeArguments",
           "MetaProperty", "import"}
isUnaryExpressionKind(k) ==
    \/ k \in {"PrefixUnaryExpression", "PostfixUnaryExpression", "DeleteExpression",
              "TypeOfExpression", "VoidExpression", "AwaitExpression", "TypeAssertionExpression"}
    \/ isLeftHandSideExpressionKind(k)

(* Precedences: the lowest is 0 for the comma, -1 is none. *)
Comma        == 0
Assignment   == 3
Conditional  == 4
Unary_       == 16
Member       == 19
hasArguments(n) == \E i \in DOMAIN n.c : "ArgumentExpressions" \in n.c[i].flags
getOperator(n) == IF n.kind = "BinaryExpression" THEN n.c[2].kind ELSE n.kind
OperatorPrecedence(operator) ==    \* getOperatorPrecedence(BinaryExpression, operator)
    CASE operator = "," -> Comma
      [] isAssignmentOperator(operator) -> Assignment
      [] OTHER -> getBinaryOperatorPrecedence(operator)
getOperatorPrecedence(k, operator, arguments) ==
    CASE k = "SpreadElement" -> 1
      [] k = "YieldExpression" -> 2
      [] k = "ConditionalExpression" -> Conditional
      [] k = "BinaryExpression" -> OperatorPrecedence(operator)
      [] k \in {"TypeAssertionExpression", "NonNullExpression", "PrefixUnaryExpression",
                "TypeOfExpression", "VoidExpression", "DeleteExpression", "AwaitExpression"} -> Unary_
      [] k = "PostfixUnaryExpression" -> 17
      [] k = "CallExpression" \/ (k = "NewExpression" /\ ~arguments) -> 18
      [] k \in {"NewExpression", "TaggedTemplateExpression", "PropertyAccessExpression",
                "ElementAccessExpression", "MetaProperty"} -> Member
      [] k = "AsExpression" -> getBinaryOperatorPrecedence("as")
      [] k \in {"this", "super", "Identifier", "PrivateIdentifier", "null", "true", "false",
                "NumericLiteral", "BigIntLiteral", "StringLiteral", "ArrayLiteralExpression",
                "ObjectLiteralExpression", "FunctionExpression", "ArrowFunction", "ClassExpression",
                "RegularExpressionLiteral", "NoSubstitutionTemplateLiteral", "TemplateExpression",
                "ParenthesizedExpression", "OmittedExpression"} -> 20
      [] OTHER -> -1
getExpressionPrecedence(n) ==
    getOperatorPrecedence(n.kind, getOperator(n), n.kind = "NewExpression" /\ hasArguments(n))
(* compareValues: the comma is less than everything, also than no precedence. *)
compareComparableValues(a, b) ==
    CASE a = b -> "EqualTo"
      [] a = 0 -> "LessThan"
      [] b = 0 -> "GreaterThan"
      [] OTHER -> IF a < b THEN "LessThan" ELSE "GreaterThan"
(* Mutant: every binary operator groups to the left. *)
getOperatorAssociativityLeft(k, operator, arguments) ==
    IF \/ k = "NewExpression" /\ ~arguments
       \/ k \in {"PrefixUnaryExpression", "TypeOfExpression", "VoidExpression", "DeleteExpression",
                 "AwaitExpression", "ConditionalExpression", "YieldExpression"}
    THEN "Right" ELSE "Left"
getOperatorAssociativity(k, operator, arguments) ==
    IF \/ k = "NewExpression" /\ ~arguments
       \/ k \in {"PrefixUnaryExpression", "TypeOfExpression", "VoidExpression", "DeleteExpression",
                 "AwaitExpression", "ConditionalExpression", "YieldExpression"}
       \/ k = "BinaryExpression" /\ (operator = "**" \/ isAssignmentOperator(operator))
    THEN "Right" ELSE "Left"
getExpressionAssociativity(n) ==
    getOperatorAssociativity(n.kind, getOperator(n), n.kind = "NewExpression" /\ hasArguments(n))

-----------------------------------------------------------------------------
(* New parentheses; setTextRange gives them the range of what they enclose. *)
createParenthesizedExpression(n) ==
    [kind |-> "ParenthesizedExpression", pos |-> -1, end |-> -1, c |-> <<n>>, flags |-> {},
     tf |-> propagateChildFlags(n)]
setTextRange(p, n) == [p EXCEPT !.pos = n.pos, !.end = n.end]
Ranged(n) == setTextRange(createParenthesizedExpression(n), n)
createParenthesizedType(n) ==
    [kind |-> "ParenthesizedType", pos |-> -1, end |-> -1, c |-> <<n>>, flags |-> {}, tf |-> {"TypeScript"}]
isCommaSequence(n) == n.kind = "BinaryExpression" /\ n.c[2].kind = ","

RECURSIVE getLiteralKindOfBinaryPlusOperand(_)
getLiteralKindOfBinaryPlusOperand(n) ==
    IF isLiteralKind(n.kind) THEN n.kind
    ELSE IF getOperator(n) # "+" \/ n.kind # "BinaryExpression" THEN "Unknown"
    ELSE LET left == getLiteralKindOfBinaryPlusOperand(n.c[1])
         IN  IF isLiteralKind(left) /\ left = getLiteralKindOfBinaryPlusOperand(n.c[3]) THEN left
             ELSE "Unknown"
operatorHasAssociativeProperty(operator) == operator \in {"*", "|", "&", "^"}
binaryOperandNeedsParentheses(operator, n, isLeft, left) ==
    LET precedence == OperatorPrecedence(operator)
        rightAssociative == getOperatorAssociativity("BinaryExpression", operator, FALSE) = "Right"
        relation == compareComparableValues(getExpressionPrecedence(n), precedence)
        sameOperator == n.kind = "BinaryExpression" /\ n.c[2].kind = operator
        literal == getLiteralKindOfBinaryPlusOperand(left)
    IN  \/ ~isLeft /\ n.kind = "ArrowFunction" /\ precedence > Assignment
        \/ relation = "LessThan" /\ ~(~isLeft /\ rightAssociative /\ n.kind = "YieldExpression")
        \/ relation = "EqualTo" /\ isLeft /\ rightAssociative
        \/ /\ relation = "EqualTo" /\ ~isLeft
           /\ ~(sameOperator /\ operatorHasAssociativeProperty(operator))
           /\ ~(sameOperator /\ operator = "+" /\ isLiteralKind(literal)
                             /\ literal = getLiteralKindOfBinaryPlusOperand(n))
           /\ getExpressionAssociativity(n) = "Left"
parenthesizeBinaryOperand(operator, n, isLeft, left) ==
    IF n.kind # "ParenthesizedExpression" /\ binaryOperandNeedsParentheses(operator, n, isLeft, left)
    THEN createParenthesizedExpression(n) ELSE n
parenthesizeLeftSideOfBinary(operator, n) == parenthesizeBinaryOperand(operator, n, TRUE, n)
parenthesizeRightSideOfBinary(operator, left, n) == parenthesizeBinaryOperand(operator, n, FALSE, left)

RECURSIVE getLeftmostExpression(_, _)
getLeftmostExpression(n, stopAtCallExpressions) ==
    IF \/ n.kind \in {"PostfixUnaryExpression", "BinaryExpression", "ConditionalExpression",
                      "TaggedTemplateExpression", "AsExpression", "ElementAccessExpression",
                      "PropertyAccessExpression", "NonNullExpression"}
       \/ n.kind = "CallExpression" /\ ~stopAtCallExpressions
    THEN getLeftmostExpression(n.c[1], stopAtCallExpressions) ELSE n

parenthesizeExpressionOfComputedPropertyName(n) ==
    IF isCommaSequence(n) THEN createParenthesizedExpression(n) ELSE n
parenthesizeConditionOfConditionalExpression(n) ==
    IF compareComparableValues(getExpressionPrecedence(n), Conditional) # "GreaterThan"
    THEN createParenthesizedExpression(n) ELSE n
parenthesizeBranchOfConditionalExpression(n) ==
    IF isCommaSequence(n) THEN createParenthesizedExpression(n) ELSE n
parenthesizeLeftSideOfAccess(n) ==
    IF isLeftHandSideExpressionKind(n.kind) /\ (n.kind = "NewExpression" => hasArguments(n)) THEN n
    ELSE Ranged(n)
parenthesizeExpressionOfNew(n) ==
    LET l == getLeftmostExpression(n, TRUE)
    IN  CASE l.kind = "CallExpression" -> createParenthesizedExpression(n)
          [] l.kind = "NewExpression" -> IF hasArguments(l) THEN n ELSE createParenthesizedExpression(n)
          [] OTHER -> parenthesizeLeftSideOfAccess(n)
parenthesizeOperandOfPostfixUnary(n) == IF isLeftHandSideExpressionKind(n.kind) THEN n ELSE Ranged(n)
parenthesizeOperandOfPrefixUnary(n) == IF isUnaryExpressionKind(n.kind) THEN n ELSE Ranged(n)
parenthesizeExpressionForDisallowedComma(n) ==
    IF getExpressionPrecedence(n) > Comma THEN n ELSE Ranged(n)
parenthesizeConciseBodyOfArrowFunction(n) ==
    IF /\ n.kind # "Block"
       /\ isCommaSequence(n) \/ getLeftmostExpression(n, FALSE).kind = "ObjectLiteralExpression"
    THEN Ranged(n) ELSE n

(* Lists are made anew, without the flags and the range of the old list.  setArrayTextRange is *)
(* given the list where it expects an optional list: the pointer converts to a new list whose  *)
(* range was never set, so these lists have no range either.                                   *)
sameMap(l, F(_)) ==
    [l EXCEPT !.c = [i \in DOMAIN @ |-> F(@[i])], !.tf = {}, !.pos = -1, !.end = -1, !.flags = @ \ {"isMissingList"}]
parenthesizeExpressionsOfCommaDelimitedList(l) ==
    createNodeArrayOf(sameMap(l, parenthesizeExpressionForDisallowedComma))

-----------------------------------------------------------------------------
(* Types. *)
ParenthesizeIf(n, kinds) == IF n.kind \in kinds THEN createParenthesizedType(n) ELSE n
parenthesizeCheckTypeOfConditionalType(n) ==
    ParenthesizeIf(n, {"FunctionType", "ConstructorType", "ConditionalType"})
parenthesizeExtendsTypeOfConditionalType(n) == ParenthesizeIf(n, {"ConditionalType"})
parenthesizeConstituentTypeOfUnionType(n) ==
    parenthesizeCheckTypeOfConditionalType(ParenthesizeIf(n, {"UnionType", "IntersectionType"}))
parenthesizeConstituentTypesOfUnionType(l) == createNodeArrayOf(sameMap(l, parenthesizeConstituentTypeOfUnionType))
parenthesizeConstituentTypeOfIntersectionType(n) ==
    parenthesizeConstituentTypeOfUnionType(ParenthesizeIf(n, {"UnionType", "IntersectionType"}))
parenthesizeConstituentTypesOfIntersectionType(l) ==
    createNodeArrayOf(sameMap(l, parenthesizeConstituentTypeOfIntersectionType))
parenthesizeOperandOfTypeOperator(n) ==
    parenthesizeConstituentTypeOfIntersectionType(ParenthesizeIf(n, {"IntersectionType"}))
parenthesizeOperandOfReadonlyTypeOperator(n) ==
    parenthesizeOperandOfTypeOperator(ParenthesizeIf(n, {"TypeOperator"}))
parenthesizeNonArrayTypeOfPostfixType(n) ==
    parenthesizeOperandOfTypeOperator(ParenthesizeIf(n, {"InferType", "TypeOperator", "TypeQuery"}))
RECURSIVE hasJSDocPostfixQuestion(_)
hasJSDocPostfixQuestion(n) ==
    \/ n.kind = "JSDocNullableType"
    \/ /\ n.kind \in {"NamedTupleMember", "FunctionType", "ConstructorType", "TypeOperator",
                      "ConditionalType", "UnionType", "IntersectionType"}
       /\ hasJSDocPostfixQuestion(n.c[Len(n.c)])
    \/ n.kind = "InferType" /\ Len(n.c[1].c) > 1 /\ hasJSDocPostfixQuestion(n.c[1].c[2])
parenthesizeTypeOfOptionalType(n) ==
    IF hasJSDocPostfixQuestion(n) THEN createParenthesizedType(n) ELSE parenthesizeNonArrayTypeOfPostfixType(n)
getTypeParameters(n) == {i \in DOMAIN n.c : "TypeParameters" \in n.c[i].flags}
parenthesizeLeadingTypeArgument(n) ==
    IF n.kind \in {"FunctionType", "ConstructorType"} /\ getTypeParameters(n) # {}
    THEN createParenthesizedType(n) ELSE n
parenthesizeTypeArguments(l) ==
    IF l.c = <<>> THEN l
    ELSE LET first == [l EXCEPT !.c[1] = parenthesizeLeadingTypeArgument(@)]
         IN  createNodeArrayOf(sameMap(first, LAMBDA n : n))
=============================================================================
