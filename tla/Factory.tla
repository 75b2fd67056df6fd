------------------------------ MODULE Factory ------------------------------
(***************************************************************************)
(* The node factory: what each create function makes of the nodes and      *)
(* tokens the parser has collected.                                        *)
(*                                                                         *)
(* A create function takes the flags a of the parse function (which of the *)
(* optional parts were there, which keyword was read) and the children c   *)
(* in the order of the source.  It returns [c, tf, out]: the children as   *)
(* the node keeps them (with the parentheses the factory adds and the      *)
(* lists it aggregates), the transform flags, and the set of possible      *)
(* outcomes: "ok", or how the call fails.                                  *)
(***************************************************************************)
EXTENDS Parenthesizer, SequencesExt

-----------------------------------------------------------------------------
If_(q, flags) == IF q THEN flags ELSE {}
IsList(n, kind) == n.kind = "List" /\ kind \in n.flags
HasList(c, kind) == \E i \in DOMAIN c : IsList(c[i], kind)
WithList(c, kind, F(_)) == [i \in DOMAIN c |-> IF IsList(c[i], kind) THEN F(c[i]) ELSE c[i]]
First(c, F(_)) == [c EXCEPT ![1] = F(@)]
Final(c, F(_)) == [c EXCEPT ![Len(c)] = F(@)]
(* modifiersToFlags *)
modifiersToFlags(c) == UNION {Kinds(c[i].c) : i \in {i \in DOMAIN c : IsList(c[i], "Modifiers")}}
isAmbient(c) == "declare" \in modifiersToFlags(c)
NameOf(c) ==
    {i \in DOMAIN c : c[i].kind \in PropertyNameKinds /\ \A j \in 1..(i - 1) : c[j].kind \notin PropertyNameKinds}
IdentifierName(c) == {i \in NameOf(c) : c[i].kind = "Identifier"}
Body(c) == {i \in {Len(c)} : c[i].kind = "Block"}

(* The ways in which reading the flags of a child fails; parentheses read those of their child. *)
RECURSIVE Faults(_)
Faults(n) ==
    CASE n.kind = "List" -> IF n.flags \cap KeptLists = {} THEN UNION {NameFault(n.c[i]) : i \in DOMAIN n.c} ELSE {}
      [] n.kind = "ParenthesizedExpression" -> Faults(n.c[1])
      [] OTHER -> NameFault(n)
(* A node with these children and the flags of all of them; the children of "names" are names *)
(* that may be "await", or bodies, whose "await" is their own.                                *)
Made(c, names, flags) ==
    LET faults == UNION {Faults(c[i]) : i \in DOMAIN c}
        own == {i \in DOMAIN c : i \notin names}
    IN  [c |-> c,
         tf |-> flags \cup UNION {propagateChildFlags(c[i]) : i \in own}
                      \cup UNION {propagateIdentifierNameFlags(c[i]) : i \in names \cap DOMAIN c},
         out |-> IF faults = {} THEN {"ok"} ELSE faults]
Make(c, kept, names, flags) == Made(Aggregated(c, kept), names, flags)
Plain(c, flags) == Make(c, KeptLists, {}, flags)
Only(flags, made) == [made EXCEPT !.tf = flags]      \* transformFlags = flags
TypeNode(c) == Only({"TypeScript"}, Plain(c, {}))

-----------------------------------------------------------------------------
(* What the declarations share. *)
createBaseDeclaration(c, flags) == Plain(c, flags)
createBaseNamedDeclaration(c, names, flags) == Make(c, KeptLists, names, flags)
createBaseGenericNamedDeclaration(c, names, flags) ==
    createBaseNamedDeclaration(c, names, flags \cup If_(HasList(c, "TypeParameters"), {"TypeScript"}))
createBaseSignatureDeclaration(a, c, names, flags) ==
    createBaseGenericNamedDeclaration(c, names, flags \cup If_("Type" \in a, {"TypeScript"}))
createBaseFunctionLikeDeclaration(a, c, names, flags) ==
    createBaseSignatureDeclaration(a, c, names \cup Body(c), flags \cup If_(Body(c) = {}, {"TypeScript"}))
createBaseInterfaceOrClassLikeDeclaration(c, flags) == createBaseGenericNamedDeclaration(c, {}, flags)
createBaseClassLikeDeclaration(c, flags) == createBaseInterfaceOrClassLikeDeclaration(c, flags)
createBaseBindingLikeDeclaration(c, names, flags) == createBaseNamedDeclaration(c, names, flags)
createBaseVariableLikeDeclaration(a, c, names, flags) ==
    createBaseBindingLikeDeclaration(c, names, flags \cup If_("Type" \in a, {"TypeScript"}))
(* async and generator functions *)
AsyncFlags(c) ==
    LET generator == "*" \in Kinds(c)
    IN  IF "async" \in modifiersToFlags(c) THEN (IF generator THEN {"ES2018"} ELSE {"ES2017"})
        ELSE If_(generator, {"Generator"})
WithInitializer(a, c) ==
    IF "Initializer" \in a THEN Final(c, parenthesizeExpressionForDisallowedComma) ELSE c

-----------------------------------------------------------------------------
(* Names, parameters and decorators. *)
createQualifiedName(a, c) == Make(c, KeptLists, {2}, {})
createComputedPropertyName(a, c) ==
    Plain(First(c, parenthesizeExpressionOfComputedPropertyName), {"ES2015", "ComputedPropertyName"})
createTypeParameterDeclaration(a, c) == TypeNode(c)
createParameterDeclaration(a, c) ==
    LET made == createBaseVariableLikeDeclaration(a, WithInitializer(a, c), {},
                    If_("?" \in Kinds(c), {"TypeScript"})
                    \cup If_(modifiersToFlags(c) \cap {"public", "private", "protected", "readonly", "override"} # {},
                             {"TypeScriptClassSyntax"})
                    \cup If_("Initializer" \in a \/ "..." \in Kinds(c), {"ES2015"}))
    IN  IF \E i \in IdentifierName(c) : "this" \in c[i].flags THEN Only({"TypeScript"}, made) ELSE made
createDecorator(a, c) == Plain(First(c, parenthesizeLeftSideOfAccess), {"TypeScript", "TypeScriptClassSyntax"})

(* Members. *)
createPropertySignature(a, c) == TypeNode(c)
createPropertyDeclaration(a, c) ==
    createBaseVariableLikeDeclaration(a, c, IdentifierName(c),
        {"ClassFields"}
        \cup If_(\/ \E i \in NameOf(c) : c[i].kind = "ComputedPropertyName"
                 \/ "static" \in modifiersToFlags(c) /\ "Initializer" \in a, {"TypeScriptClassSyntax"})
        \cup If_(Kinds(c) \cap {"?", "!"} # {} \/ isAmbient(c), {"TypeScript"}))
createMethodSignature(a, c) == Only({"TypeScript"}, createBaseSignatureDeclaration(a, c, {}, {}))
createMethodDeclaration(a, c) ==
    createBaseFunctionLikeDeclaration(a, c, IdentifierName(c),
        {"ES2015"} \cup AsyncFlags(c) \cup If_("?" \in Kinds(c), {"TypeScript"}))
createClassStaticBlockDeclaration(a, c) ==
    [Plain(c, {}) EXCEPT !.tf = {"ClassFields"} \cup propagateChildFlags(Last(c))]
(* Type parameters of constructors and accessors are errors and reach the node only later. *)
ErroneousTypeParameters(a, c, flags) ==
    LET made == createBaseFunctionLikeDeclaration(a, c, IdentifierName(c), flags)
        typed == "Type" \in a \/ Body(c) = {}
    IN  IF HasList(c, "TypeParameters") /\ ~typed
        THEN [made EXCEPT !.tf = flags \cup UNION {propagateChildFlags(made.c[i]) : i \in DOMAIN c}] ELSE made
createConstructorDeclaration(a, c) == ErroneousTypeParameters(a, c, {"ES2015"})
createGetAccessorDeclaration(a, c) == ErroneousTypeParameters(a, c, {})
createSetAccessorDeclaration(a, c) == ErroneousTypeParameters(a, c, {})
createCallSignature(a, c) == Only({"TypeScript"}, createBaseSignatureDeclaration(a, c, {}, {}))
createConstructSignature(a, c) == Only({"TypeScript"}, createBaseSignatureDeclaration(a, c, {}, {}))
createIndexSignature(a, c) == Only({"TypeScript"}, createBaseSignatureDeclaration(a, c, {}, {}))
createTemplateLiteralTypeSpan(a, c) == TypeNode(c)

-----------------------------------------------------------------------------
(* Types. *)
createTypePredicateNode(a, c) == TypeNode(c)
createTypeReferenceNode(a, c) == TypeNode(WithList(c, "TypeArguments", parenthesizeTypeArguments))
createFunctionTypeNode(a, c) == Only({"TypeScript"}, createBaseSignatureDeclaration(a, c, {}, {}))
createConstructorTypeNode(a, c) == Only({"TypeScript"}, createBaseSignatureDeclaration(a, c, {}, {}))
createTypeQueryNode(a, c) == TypeNode(WithList(c, "TypeArguments", parenthesizeTypeArguments))
createTypeLiteralNode(a, c) == TypeNode(c)
createArrayTypeNode(a, c) == TypeNode(First(c, parenthesizeNonArrayTypeOfPostfixType))
createTupleTypeNode(a, c) == TypeNode(WithList(c, "TupleElementTypes", LAMBDA l : sameMap(l, LAMBDA n : n)))
createNamedTupleMember(a, c) == TypeNode(c)
createOptionalTypeNode(a, c) == TypeNode(First(c, parenthesizeTypeOfOptionalType))
createRestTypeNode(a, c) == TypeNode(c)
createUnionTypeNode(a, c) == TypeNode([i \in DOMAIN c |-> parenthesizeConstituentTypeOfUnionType(c[i])])
createIntersectionTypeNode(a, c) ==
    TypeNode([i \in DOMAIN c |-> parenthesizeConstituentTypeOfIntersectionType(c[i])])
createConditionalTypeNode(a, c) ==
    TypeNode([c EXCEPT ![1] = parenthesizeCheckTypeOfConditionalType(@),
                       ![2] = parenthesizeExtendsTypeOfConditionalType(@)])
createInferTypeNode(a, c) == TypeNode(c)
createTemplateLiteralType(a, c) == TypeNode(c)
createImportTypeNode(a, c) == TypeNode(WithList(c, "TypeArguments", parenthesizeTypeArguments))
createParenthesizedType_(a, c) == TypeNode(c)
createTypeOperatorNode(a, c) ==
    IF "Readonly" \in a THEN TypeNode(First(c, parenthesizeOperandOfReadonlyTypeOperator))
    ELSE TypeNode(First(c, parenthesizeOperandOfTypeOperator))
createIndexedAccessTypeNode(a, c) == TypeNode(First(c, parenthesizeNonArrayTypeOfPostfixType))
createMappedTypeNode(a, c) == TypeNode(c)
createLiteralTypeNode(a, c) == TypeNode(c)
createJSDocNonNullableType(a, c) == Only({}, Plain(First(c, parenthesizeNonArrayTypeOfPostfixType), {}))
createJSDocNullableType(a, c) == Only({}, Plain(First(c, parenthesizeNonArrayTypeOfPostfixType), {}))

-----------------------------------------------------------------------------
(* Binding patterns.  An element of an array pattern has no property name: the optional that   *)
(* is read for it is empty, and what the name then is, is undefined.                           *)
createObjectBindingPattern(a, c) ==
    LET made == Plain(c, {"ES2015", "BindingPattern"})
    IN  IF "RestOrSpread" \in made.tf THEN [made EXCEPT !.tf = @ \cup {"ES2018", "ObjectRestOrSpread"}] ELSE made
createArrayBindingPattern(a, c) == Plain(c, {"ES2015", "BindingPattern"})
createBindingElement(a, c) ==
    LET made == createBaseBindingLikeDeclaration(WithInitializer(a, c),
                    IF "PropertyName" \in a THEN IdentifierName(c) ELSE {},
                    {"ES2015"} \cup If_("..." \in Kinds(c), {"RestOrSpread"}))
    IN  IF "ArrayElement" \in a THEN [made EXCEPT !.out = @ \cup {"exception", "crash"}] ELSE made

-----------------------------------------------------------------------------
(* Expressions. *)
createArrayLiteralExpression(a, c) ==
    LET omitted == c[1].c # <<>> /\ Last(c[1].c).kind = "OmittedExpression"
        fresh == sameMap(c[1], parenthesizeExpressionForDisallowedComma)
    IN  IF omitted THEN [Plain(<<fresh>>, {}) EXCEPT !.c = <<fresh>>, !.tf = {}, !.out = {"ok"}]
        ELSE Plain(<<createNodeArrayOf(fresh)>>, {})
createObjectLiteralExpression(a, c) == Plain(c, {})
SuperFlags(c) == If_(c[1].kind = "super", {"ES2017", "ES2018"})
AccessNames(c) == {i \in {Len(c)} : c[i].kind = "Identifier"}
createPropertyAccessExpression(a, c) ==
    Make(First(c, parenthesizeLeftSideOfAccess), KeptLists, AccessNames(c), SuperFlags(c))
createPropertyAccessChain(a, c) ==
    Make(First(c, parenthesizeLeftSideOfAccess), KeptLists, AccessNames(c), {"ES2020"})
createElementAccessExpression(a, c) == Plain(First(c, parenthesizeLeftSideOfAccess), SuperFlags(c))
createElementAccessChain(a, c) == Plain(First(c, parenthesizeLeftSideOfAccess), {"ES2020"})
isSuperProperty(n) ==
    n.kind \in {"PropertyAccessExpression", "ElementAccessExpression"} /\ n.c[1].kind = "super"
CallKept == KeptLists \cup {"TypeArguments"}
TypeArgumentFlags(c) == If_(HasList(c, "TypeArguments"), {"TypeScript"})
WithArguments(c) == WithList(c, "ArgumentExpressions", parenthesizeExpressionsOfCommaDelimitedList)
createCallExpression(a, c) ==
    LET d == WithArguments(First(c, parenthesizeLeftSideOfAccess))
    IN  Make(d, CallKept, {}, TypeArgumentFlags(c) \cup If_(d[1].kind = "import", {"DynamicImport"})
                                             \cup If_(isSuperProperty(d[1]), {"LexicalThis"}))
createCallChain(a, c) ==
    LET d == WithArguments(First(c, parenthesizeLeftSideOfAccess))
    IN  Make(d, CallKept, {}, {"ES2020"} \cup TypeArgumentFlags(c) \cup If_(isSuperProperty(d[1]), {"LexicalThis"}))
(* The call with another callee; it keeps its range. *)
updateCallExpression(n, callee) ==
    LET c == [n.c EXCEPT ![1] = callee]
        made == IF "OptionalChain" \in n.flags THEN createCallChain({}, c) ELSE createCallExpression({}, c)
    IN  [n EXCEPT !.c = made.c, !.tf = made.tf]
createNewExpression(a, c) ==
    Make(WithArguments(First(c, parenthesizeExpressionOfNew)), CallKept, {}, {"ES2020"} \cup TypeArgumentFlags(c))
createTaggedTemplateExpression(a, c) ==
    Make(First(c, parenthesizeLeftSideOfAccess), CallKept, {}, {"ES2015"} \cup TypeArgumentFlags(c))
createTypeAssertion(a, c) == Plain(Final(c, parenthesizeOperandOfPrefixUnary), {"TypeScript"})
createParenthesizedExpression_(a, c) == Plain(c, {})
createFunctionExpression(a, c) == createBaseFunctionLikeDeclaration(a, c, {}, AsyncFlags(c))
createArrowFunction(a, c) ==
    createBaseSignatureDeclaration(a, Final(c, parenthesizeConciseBodyOfArrowFunction), {Len(c)},
        {"ES2015"} \cup If_("async" \in modifiersToFlags(c), {"ES2017", "LexicalThis"}))
createDeleteExpression(a, c) == Plain(First(c, parenthesizeOperandOfPrefixUnary), {})
createTypeOfExpression(a, c) == Plain(First(c, parenthesizeOperandOfPrefixUnary), {})
createVoidExpression(a, c) == Plain(First(c, parenthesizeOperandOfPrefixUnary), {})
createAwaitExpression(a, c) == Plain(First(c, parenthesizeOperandOfPrefixUnary), {"ES2017", "ES2018", "Await"})
createPrefixUnaryExpression(a, c) ==
    LET made == Plain(First(c, parenthesizeOperandOfPrefixUnary), {})
    IN  [made EXCEPT !.tf = @ \cup If_("Update" \in a /\ made.c[1].kind = "Identifier",
                                       {"UpdateExpressionForIdentifier"})]
createPostfixUnaryExpression(a, c) ==
    LET made == Plain(First(c, parenthesizeOperandOfPostfixUnary), {})
    IN  [made EXCEPT !.tf = @ \cup If_(made.c[1].kind = "Identifier", {"UpdateExpressionForIdentifier"})]

(* What an element of a pattern on the left of "=" assigns to, as a set of at most one node. *)
RECURSIVE getTargetOfBindingOrAssignmentElement(_)
getTargetOfBindingOrAssignmentElement(n) ==
    CASE n.kind \in {"PropertyAssignment", "SpreadAssignment", "SpreadElement"} ->
            getTargetOfBindingOrAssignmentElement(Last(n.c))
      [] n.kind = "ShorthandPropertyAssignment" -> {n.c[i] : i \in NameOf(n.c)}
      [] n.kind \in {"MethodDeclaration", "GetAccessor", "SetAccessor"} -> {}
      [] n.kind = "BinaryExpression" /\ n.c[2].kind = "=" /\ isLeftHandSideExpressionKind(n.c[1].kind) ->
            getTargetOfBindingOrAssignmentElement(n.c[1])
      [] OTHER -> {n}
isAssignmentPattern(n) == n.kind \in {"ArrayLiteralExpression", "ObjectLiteralExpression"}
RECURSIVE propagateAssignmentPatternFlags(_)
propagateAssignmentPatternFlags(n) ==
    LET elements == n.c[1].c
        targets == {t \in UNION {getTargetOfBindingOrAssignmentElement(elements[i]) : i \in DOMAIN elements} :
                      isAssignmentPattern(t)}
    IN  IF \/ "ObjectRestOrSpread" \in n.tf
           \/ "ES2018" \in n.tf /\ \E t \in targets : propagateAssignmentPatternFlags(t) # {}
        THEN {"ObjectRestOrSpread"} ELSE {}
createBinaryExpression(a, c) ==
    LET left == parenthesizeLeftSideOfBinary(c[2].kind, c[1])
        right == parenthesizeRightSideOfBinary(c[2].kind, left, c[3])
        pattern == c[2].kind = "=" /\ isAssignmentPattern(left)
    IN  Plain(<<left, c[2], right>>,
              If_(c[2].kind = "??", {"ES2020"})
              \cup If_(pattern, {"ES2015", DestructuringAssignment})
              \cup (IF pattern THEN propagateAssignmentPatternFlags(left) ELSE {})
              \cup If_(pattern /\ left.kind = "ObjectLiteralExpression", {"ES2018"})
              \cup If_(c[2].kind \in {"**", "**="}, {"ES2016"})
              \cup If_(c[2].kind \in {"||=", "&&=", "??="}, {"ES2021"}))
createConditionalExpression(a, c) ==
    Plain([c EXCEPT ![1] = parenthesizeConditionOfConditionalExpression(@),
                    ![3] = parenthesizeBranchOfConditionalExpression(@),
                    ![5] = parenthesizeBranchOfConditionalExpression(@)], {})
createTemplateExpression(a, c) == Plain(c, {"ES2015"})
createYieldExpression(a, c) ==
    Plain(IF c = <<>> THEN c ELSE Final(c, parenthesizeExpressionForDisallowedComma), {"ES2015", "ES2018", "Yield"})
createSpreadElement(a, c) ==
    Plain(First(c, parenthesizeExpressionForDisallowedComma), {"ES2015", "RestOrSpread"})
createClassExpression(a, c) == createBaseClassLikeDeclaration(c, {"ES2015"})
createOmittedExpression(a, c) == Plain(c, {})
createExpressionWithTypeArguments(a, c) ==
    Plain(WithList(First(c, parenthesizeLeftSideOfAccess), "TypeArguments", parenthesizeTypeArguments), {"ES2015"})
createAsExpression(a, c) == Plain(c, {"TypeScript"})
createNonNullExpression(a, c) == Plain(First(c, parenthesizeLeftSideOfAccess), {"TypeScript"})
createNonNullChain(a, c) == Plain(First(c, parenthesizeLeftSideOfAccess), {"TypeScript"})
createMetaProperty(a, c) == Plain(c, If_("New" \in a, {"ES2015"}) \cup If_("Import" \in a, {"ESNext"}))
createTemplateSpan(a, c) == Plain(c, {"ES2015"})

-----------------------------------------------------------------------------
(* Statements and declarations. *)
createSemicolonClassElement(a, c) == Plain(c, {"ES2015"})
createBlock(a, c) == Plain(c, {})
createVariableDeclarationList(a, c) ==
    Plain(c, {"HoistedDeclarationOrCompletion"} \cup If_("BlockScoped" \in a, {"ES2015", "BlockScopedBinding"}))
createVariableStatement(a, c) ==
    LET made == createBaseDeclaration(c, {}) IN IF isAmbient(c) THEN Only({"TypeScript"}, made) ELSE made
createEmptyStatement(a, c) == Plain(c, {})
(* A function that is called at once, and what an expression statement cannot start with, gets *)
(* parentheses.                                                                                *)
parenthesizeExpressionOfExpressionStatement(n) ==
    CASE n.kind = "CallExpression" /\ n.c[1].kind \in {"FunctionExpression", "ArrowFunction"} ->
            updateCallExpression(n, Ranged(n.c[1]))
      [] getLeftmostExpression(n, FALSE).kind \in {"ObjectLiteralExpression", "FunctionExpression"} -> Ranged(n)
      [] OTHER -> n
createExpressionStatement(a, c) == Plain(Final(c, parenthesizeExpressionOfExpressionStatement), {})
createIfStatement(a, c) == Plain(c, {})
createReturnStatement(a, c) == Plain(c, {"ES2018", "HoistedDeclarationOrCompletion"})
createLabeledStatement(a, c) == Plain(c, {})
createVariableDeclaration(a, c) ==
    createBaseVariableLikeDeclaration(a, WithInitializer(a, c), {}, If_("!" \in Kinds(c), {"TypeScript"}))
createFunctionDeclaration(a, c) ==
    LET made == createBaseFunctionLikeDeclaration(a, c, {}, {"HoistedDeclarationOrCompletion"} \cup AsyncFlags(c))
    IN  IF Body(c) = {} \/ isAmbient(c) THEN Only({"TypeScript"}, made) ELSE made
createClassDeclaration(a, c) ==
    LET made == createBaseClassLikeDeclaration(c, {"ES2015"})
    IN  IF isAmbient(c) THEN Only({"TypeScript"}, made)
        ELSE [made EXCEPT !.tf = @ \cup If_("TypeScriptClassSyntax" \in @, {"TypeScript"})]
createTypeAliasDeclaration(a, c) == Only({"TypeScript"}, createBaseGenericNamedDeclaration(c, {}, {}))
createAssertClause(a, c) == Only({"ESNext"}, Plain(c, {}))
createAssertEntry(a, c) == Only({"ESNext"}, Plain(c, {}))
createImportTypeAssertionContainer(a, c) == Only({}, Plain(c, {}))
createHeritageClause(a, c) == Plain(c, IF "Extends" \in a THEN {"ES2015"} ELSE {"TypeScript"})
createPropertyAssignment(a, c) == Plain(Final(c, parenthesizeExpressionForDisallowedComma), {})
createShorthandPropertyAssignment(a, c) == Plain(WithInitializer(a, c), {"ES2015"})
createSpreadAssignment(a, c) ==
    Plain(First(c, parenthesizeExpressionForDisallowedComma), {"ES2018", "ObjectRestOrSpread"})
createSourceFile(a, c) == Plain(c, {})

-----------------------------------------------------------------------------
(* The create function of each kind. *)
Create(k, a, c) ==
    CASE k = "QualifiedName" -> createQualifiedName(a, c)
      [] k = "ComputedPropertyName" -> createComputedPropertyName(a, c)
      [] k = "TypeParameter" -> createTypeParameterDeclaration(a, c)
      [] k = "Parameter" -> createParameterDeclaration(a, c)
      [] k = "Decorator" -> createDecorator(a, c)
      [] k = "PropertySignature" -> createPropertySignature(a, c)
      [] k = "PropertyDeclaration" -> createPropertyDeclaration(a, c)
      [] k = "MethodSignature" -> createMethodSignature(a, c)
      [] k = "MethodDeclaration" -> createMethodDeclaration(a, c)
      [] k = "ClassStaticBlockDeclaration" -> createClassStaticBlockDeclaration(a, c)
      [] k = "Constructor" -> createConstructorDeclaration(a, c)
      [] k = "GetAccessor" -> createGetAccessorDeclaration(a, c)
      [] k = "SetAccessor" -> createSetAccessorDeclaration(a, c)
      [] k = "CallSignature" -> createCallSignature(a, c)
      [] k = "ConstructSignature" -> createConstructSignature(a, c)
      [] k = "IndexSignature" -> createIndexSignature(a, c)
      [] k = "TemplateLiteralTypeSpan" -> createTemplateLiteralTypeSpan(a, c)
      [] k = "TypePredicate" -> createTypePredicateNode(a, c)
      [] k = "TypeReference" -> createTypeReferenceNode(a, c)
      [] k = "FunctionType" -> createFunctionTypeNode(a, c)
      [] k = "ConstructorType" -> createConstructorTypeNode(a, c)
      [] k = "TypeQuery" -> createTypeQueryNode(a, c)
      [] k = "TypeLiteral" -> createTypeLiteralNode(a, c)
      [] k = "ArrayType" -> createArrayTypeNode(a, c)
      [] k = "TupleType" -> createTupleTypeNode(a, c)
      [] k = "NamedTupleMember" -> createNamedTupleMember(a, c)
      [] k = "OptionalType" -> createOptionalTypeNode(a, c)
      [] k = "RestType" -> createRestTypeNode(a, c)
      [] k = "UnionType" -> createUnionTypeNode(a, c)
      [] k = "IntersectionType" -> createIntersectionTypeNode(a, c)
      [] k = "ConditionalType" -> createConditionalTypeNode(a, c)
      [] k = "InferType" -> createInferTypeNode(a, c)
      [] k = "TemplateLiteralType" -> createTemplateLiteralType(a, c)
      [] k = "ImportType" -> createImportTypeNode(a, c)
      [] k = "ParenthesizedType" -> createParenthesizedType_(a, c)
      [] k = "TypeOperator" -> createTypeOperatorNode(a, c)
      [] k = "IndexedAccessType" -> createIndexedAccessTypeNode(a, c)
      [] k = "MappedType" -> createMappedTypeNode(a, c)
      [] k = "LiteralType" -> createLiteralTypeNode(a, c)
      [] k = "JSDocNonNullableType" -> createJSDocNonNullableType(a, c)
      [] k = "JSDocNullableType" -> createJSDocNullableType(a, c)
      [] k = "ObjectBindingPattern" -> createObjectBindingPattern(a, c)
      [] k = "ArrayBindingPattern" -> createArrayBindingPattern(a, c)
      [] k = "BindingElement" -> createBindingElement(a, c)
      [] k = "ArrayLiteralExpression" -> createArrayLiteralExpression(a, c)
      [] k = "ObjectLiteralExpression" -> createObjectLiteralExpression(a, c)
      [] k = "PropertyAccessExpression" ->
            IF "Chain" \in a THEN createPropertyAccessChain(a, c) ELSE createPropertyAccessExpression(a, c)
      [] k = "ElementAccessExpression" ->
            IF "Chain" \in a THEN createElementAccessChain(a, c) ELSE createElementAccessExpression(a, c)
      [] k = "CallExpression" ->
            IF "Chain" \in a THEN createCallChain(a, c) ELSE createCallExpression(a, c)
      [] k = "NewExpression" -> createNewExpression(a, c)
      [] k = "TaggedTemplateExpression" -> createTaggedTemplateExpression(a, c)
      [] k = "TypeAssertionExpression" -> createTypeAssertion(a, c)
      [] k = "ParenthesizedExpression" -> createParenthesizedExpression_(a, c)
      [] k = "FunctionExpression" -> createFunctionExpression(a, c)
      [] k = "ArrowFunction" -> createArrowFunction(a, c)
      [] k = "DeleteExpression" -> createDeleteExpression(a, c)
      [] k = "TypeOfExpression" -> createTypeOfExpression(a, c)
      [] k = "VoidExpression" -> createVoidExpression(a, c)
      [] k = "AwaitExpression" -> createAwaitExpression(a, c)
      [] k = "PrefixUnaryExpression" -> createPrefixUnaryExpression(a, c)
      [] k = "PostfixUnaryExpression" -> createPostfixUnaryExpression(a, c)
      [] k = "BinaryExpression" -> createBinaryExpression(a, c)
      [] k = "ConditionalExpression" -> createConditionalExpression(a, c)
      [] k = "TemplateExpression" -> createTemplateExpression(a, c)
      [] k = "YieldExpression" -> createYieldExpression(a, c)
      [] k = "SpreadElement" -> createSpreadElement(a, c)
      [] k = "ClassExpression" -> createClassExpression(a, c)
      [] k = "OmittedExpression" -> createOmittedExpression(a, c)
      [] k = "ExpressionWithTypeArguments" -> createExpressionWithTypeArguments(a, c)
      [] k = "AsExpression" -> createAsExpression(a, c)
      [] k = "NonNullExpression" -> IF "Chain" \in a THEN createNonNullChain(a, c) ELSE createNonNullExpression(a, c)
      [] k = "MetaProperty" -> createMetaProperty(a, c)
      [] k = "TemplateSpan" -> createTemplateSpan(a, c)
      [] k = "SemicolonClassElement" -> createSemicolonClassElement(a, c)
      [] k = "Block" -> createBlock(a, c)
      [] k = "VariableDeclarationList" -> createVariableDeclarationList(a, c)
      [] k = "VariableStatement" -> createVariableStatement(a, c)
      [] k = "EmptyStatement" -> createEmptyStatement(a, c)
      [] k = "ExpressionStatement" -> createExpressionStatement(a, c)
      [] k = "IfStatement" -> createIfStatement(a, c)
      [] k = "ReturnStatement" -> createReturnStatement(a, c)
      [] k = "LabeledStatement" -> createLabeledStatement(a, c)
      [] k = "VariableDeclaration" -> createVariableDeclaration(a, c)
      [] k = "FunctionDeclaration" -> createFunctionDeclaration(a, c)
      [] k = "ClassDeclaration" -> createClassDeclaration(a, c)
      [] k = "TypeAliasDeclaration" -> createTypeAliasDeclaration(a, c)
      [] k = "AssertClause" -> createAssertClause(a, c)
      [] k = "AssertEntry" -> createAssertEntry(a, c)
      [] k = "ImportTypeAssertionContainer" -> createImportTypeAssertionContainer(a, c)
      [] k = "HeritageClause" -> createHeritageClause(a, c)
      [] k = "PropertyAssignment" -> createPropertyAssignment(a, c)
      [] k = "ShorthandPropertyAssignment" -> createShorthandPropertyAssignment(a, c)
      [] k = "SpreadAssignment" -> createSpreadAssignment(a, c)
=============================================================================
