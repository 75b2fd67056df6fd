------------------------------- MODULE Shapes -------------------------------
(***************************************************************************)
(* The structs of the syntax tree and the order in which forEachChild      *)
(* visits their children.                                                  *)
(*                                                                         *)
(* Pointers to nodes are not checked anywhere: a struct of types.h says    *)
(* which kinds of nodes each of its fields points to and which fields may  *)
(* be null, the parser and the factory have to keep to it, and to<T>() and *)
(* cast<T>() rely on it.  Fields names these fields kind by kind, Order    *)
(* the fields forEachChild visits, in its order.  Fields that hold no node *)
(* and parent pointers are left out, and so is JSX, which no file this     *)
(* program parses may contain.                                             *)
(***************************************************************************)
EXTENDS Integers, Sequences, TLC, Functions

(* Fields: required or optional, a node or a list of nodes of these kinds. *)
Field(kinds, list, must) == [kinds |-> kinds, list |-> list, must |-> must]
Property(kinds)         == Field(kinds, FALSE, TRUE)
OptionalProperty(kinds) == Field(kinds, FALSE, FALSE)
NodeTypeArray(kinds)    == Field(kinds, TRUE, TRUE)
OptionalArray(kinds)    == Field(kinds, TRUE, FALSE)
Token(t)                == Property({t})
OptionalToken(t)        == OptionalProperty({t})

-----------------------------------------------------------------------------
(* The base classes: the kinds of the structs derived from them. *)
Keywords_ == {"true", "false", "null", "this", "super", "import"}
LiteralExpression ==
    {"StringLiteral", "NumericLiteral", "BigIntLiteral", "RegularExpressionLiteral", "NoSubstitutionTemplateLiteral"}
PrimaryExpression ==
    Keywords_ \cup LiteralExpression
    \cup {"Identifier", "PrivateIdentifier", "MetaProperty", "ClassExpression", "ObjectLiteralExpression",
          "FunctionExpression", "ArrayLiteralExpression", "NewExpression", "TemplateExpression",
          "ParenthesizedExpression"}
LeftHandSideExpression ==
    PrimaryExpression
    \cup {"ElementAccessExpression", "PropertyAccessExpression", "ExpressionWithTypeArguments",
          "TaggedTemplateExpression", "CallExpression", "NonNullExpression", "PartiallyEmittedExpression"}
UnaryExpression ==
    LeftHandSideExpression
    \cup {"PrefixUnaryExpression", "PostfixUnaryExpression", "DeleteExpression", "TypeOfExpression",
          "VoidExpression", "AwaitExpression", "TypeAssertionExpression"}
Expression ==
    UnaryExpression
    \cup {"YieldExpression", "OmittedExpression", "ArrowFunction", "CommaListExpression", "BinaryExpression",
          "ConditionalExpression", "AsExpression", "SpreadElement"}
DeclarationStatement ==
    {"MissingDeclaration", "ClassDeclaration", "InterfaceDeclaration", "TypeAliasDeclaration",
     "EnumDeclaration", "ModuleDeclaration", "ImportEqualsDeclaration", "NamespaceExportDeclaration",
     "ExportDeclaration", "ExportAssignment", "FunctionDeclaration"}
Statement ==
    DeclarationStatement
    \cup {"Block", "ExpressionStatement", "IfStatement", "BreakStatement", "ContinueStatement",
          "ReturnStatement", "WithStatement", "SwitchStatement", "LabeledStatement", "ThrowStatement",
          "DoStatement", "WhileStatement", "ForStatement", "ForOfStatement", "ForInStatement",
          "VariableStatement", "TryStatement", "EmptyStatement", "DebuggerStatement", "ModuleBlock",
          "ImportDeclaration", "ClassStaticBlockDeclaration"}
KeywordTypeNode ==
    {"any", "unknown", "number", "bigint", "object", "boolean", "string", "symbol", "void", "undefined",
     "never", "intrinsic"}
AnyTypeNode ==
    KeywordTypeNode
    \cup {"TypeLiteral", "TypeReference", "JSDocNullableType", "JSDocNonNullableType", "JSDocOptionalType",
          "ImportType", "ThisType", "FunctionType", "ConstructorType", "TypePredicate",
          "TemplateLiteralType", "TemplateLiteralTypeSpan", "TypeQuery", "ArrayType", "NamedTupleMember", "OptionalType", "RestType",
          "UnionType", "IntersectionType", "ConditionalType", "InferType", "ParenthesizedType",
          "TypeOperator", "IndexedAccessType", "MappedType", "LiteralType", "TupleType",
          "ExpressionWithTypeArguments"}
EntityName      == {"Identifier", "QualifiedName"}
BindingPattern  == {"ObjectBindingPattern", "ArrayBindingPattern"}
BindingName     == {"Identifier"} \cup BindingPattern
PropertyName    ==
    {"Identifier", "StringLiteral", "NumericLiteral", "ComputedPropertyName", "PrivateIdentifier"}
Modifier        ==
    {"abstract", "async", "const", "declare", "default", "export", "in", "private", "protected",
     "public", "out", "override", "readonly", "static"}
AccessorDeclaration == {"GetAccessor", "SetAccessor"}
ClassElement ==
    AccessorDeclaration \cup {"PropertyDeclaration", "ClassStaticBlockDeclaration", "IndexSignature",
                              "MethodDeclaration", "Constructor", "SemicolonClassElement"}
TypeElement ==
    AccessorDeclaration \cup {"PropertySignature", "CallSignature", "ConstructSignature",
                              "MethodSignature", "IndexSignature"}
ObjectLiteralElementLike ==
    AccessorDeclaration \cup {"PropertyAssignment", "ShorthandPropertyAssignment", "SpreadAssignment",
                              "MethodDeclaration"}
Identifier == Property({"Identifier"})
OptionalIdentifier == OptionalProperty({"Identifier"})
OptionalType == OptionalProperty(AnyTypeNode)
OptionalInitializer == OptionalProperty(Expression)
TypeArguments == OptionalArray(AnyTypeNode)

-----------------------------------------------------------------------------
(* The structs, in the order of types.h.  Every node may have decorators and modifiers. *)
NodeFields == [decorators |-> OptionalArray({"Decorator"}), modifiers |-> OptionalArray(Modifier)]
UnaryFields ==
    [PrefixUnaryExpression |-> [operand |-> Property(Expression)],
     PartiallyEmittedExpression |-> [expression |-> Property(Expression)],
     PostfixUnaryExpression |-> [operand |-> Property(LeftHandSideExpression)],
     DeleteExpression |-> [expression |-> Property(UnaryExpression)],
     TypeOfExpression |-> [expression |-> Property(UnaryExpression)],
     VoidExpression |-> [expression |-> Property(UnaryExpression)],
     AwaitExpression |-> [expression |-> Property(UnaryExpression)],
     YieldExpression |-> [asteriskToken |-> OptionalToken("*"), expression |-> OptionalProperty(Expression)]]
NameFields ==
    [Block |-> [statements |-> NodeTypeArray(Statement)],
     ComputedPropertyName |-> [expression |-> Property(Expression)],
     QualifiedName |-> [left |-> Property(EntityName), right |-> Identifier],
     ElementAccessExpression |->
        [expression |-> Property(LeftHandSideExpression), questionDotToken |-> OptionalToken("?."),
         argumentExpression |-> Property(Expression)],
     BindingElement |->
        [propertyName |-> OptionalProperty(PropertyName), dotDotDotToken |-> OptionalToken("..."),
         name |-> Property(BindingName), initializer |-> OptionalInitializer],
     ObjectBindingPattern |-> [elements |-> NodeTypeArray({"BindingElement"})],
     ArrayBindingPattern |-> [elements |-> NodeTypeArray({"BindingElement", "OmittedExpression"})]]
ForInitializer == Expression \cup {"VariableDeclarationList"}
StatementFields ==
    [ExpressionStatement |-> [expression |-> Property(Expression)],
     IfStatement |-> [expression |-> Property(Expression), thenStatement |-> Property(Statement),
                      elseStatement |-> OptionalProperty(Statement)],
     BreakStatement |-> [label |-> OptionalIdentifier],
     ContinueStatement |-> [label |-> OptionalIdentifier],
     ReturnStatement |-> [expression |-> OptionalProperty(Expression)],
     WithStatement |-> [expression |-> Property(Expression), statement |-> Property(Statement)],
     CaseBlock |-> [clauses |-> NodeTypeArray({"CaseClause", "DefaultClause"})],
     SwitchStatement |-> [expression |-> Property(Expression), caseBlock |-> Property({"CaseBlock"})],
     CaseClause |-> [expression |-> Property(Expression), statements |-> NodeTypeArray(Statement)],
     DefaultClause |-> [statements |-> NodeTypeArray(Statement)],
     LabeledStatement |-> [label |-> Identifier, statement |-> Property(Statement)],
     ThrowStatement |-> [expression |-> Property(Expression)],
     DoStatement |-> [statement |-> Property(Statement), expression |-> Property(Expression)],
     WhileStatement |-> [statement |-> Property(Statement), expression |-> Property(Expression)],
     ForStatement |-> [statement |-> Property(Statement), initializer |-> OptionalProperty(ForInitializer),
                       condition |-> OptionalProperty(Expression), incrementor |-> OptionalProperty(Expression)],
     ForOfStatement |-> [statement |-> Property(Statement), awaitModifier |-> Token("await"),
                         initializer |-> Property(ForInitializer), expression |-> Property(Expression)],
     ForInStatement |-> [statement |-> Property(Statement), initializer |-> Property(ForInitializer),
                         expression |-> Property(Expression)],
     VariableDeclarationList |-> [declarations |-> NodeTypeArray({"VariableDeclaration"})],
     VariableStatement |-> [declarationList |-> Property({"VariableDeclarationList"})],
     TryStatement |-> [tryBlock |-> Property({"Block"}), catchClause |-> OptionalProperty({"CatchClause"}),
                       finallyBlock |-> OptionalProperty({"Block"})],
     CatchClause |-> [variableDeclaration |-> OptionalProperty({"VariableDeclaration"}), block |-> Property({"Block"})],
     VariableDeclaration |-> [name |-> Property(BindingName), exclamationToken |-> OptionalToken("!"),
                              type |-> OptionalType, initializer |-> OptionalInitializer]]
(* The name of a property is declared as a BindingName, and every property name is stored in it. *)
MemberFields ==
    [PropertyAccessExpression |->
        [expression |-> Property(LeftHandSideExpression), questionDotToken |-> OptionalToken("?."),
         name |-> Property({"Identifier", "PrivateIdentifier"})],
     MetaProperty |-> [name |-> Identifier],
     SpreadAssignment |-> [expression |-> Property(Expression)],
     TypeLiteral |-> [members |-> NodeTypeArray(TypeElement)],
     ShorthandPropertyAssignment |->
        [name |-> Identifier, questionToken |-> OptionalToken("?"), exclamationToken |-> OptionalToken("!"),
         equalsToken |-> OptionalToken("="), objectAssignmentInitializer |-> OptionalInitializer],
     TypeParameter |-> [name |-> Identifier, constraint |-> OptionalType, defaultType |-> OptionalType,
                        expression |-> OptionalProperty(Expression)],
     Parameter |-> [name |-> Property(BindingName), dotDotDotToken |-> OptionalToken("..."),
                    questionToken |-> OptionalToken("?"), type |-> OptionalType,
                    initializer |-> OptionalInitializer],
     PropertyDeclaration |-> [name |-> Property(BindingName \cup PropertyName), questionToken |-> OptionalToken("?"),
                              exclamationToken |-> OptionalToken("!"), type |-> OptionalType,
                              initializer |-> OptionalInitializer],
     PropertyAssignment |-> [name |-> Property(PropertyName), questionToken |-> OptionalToken("?"),
                             initializer |-> OptionalInitializer]]
SignatureDeclarationBase ==
    [name |-> OptionalProperty(PropertyName), typeParameters |-> OptionalArray({"TypeParameter"}),
     parameters |-> NodeTypeArray({"Parameter"}), type |-> OptionalType]
FunctionLikeDeclarationBase ==
    [asteriskToken |-> OptionalToken("*"), questionToken |-> OptionalToken("?"),
     exclamationToken |-> OptionalToken("!"), body |-> OptionalProperty({"Block"} \cup Expression)]
    @@ SignatureDeclarationBase
ClassLikeDeclarationBase ==
    [name |-> OptionalIdentifier, typeParameters |-> OptionalArray({"TypeParameter"}),
     heritageClauses |-> OptionalArray({"HeritageClause"}), members |-> NodeTypeArray(ClassElement)]
DeclarationFields ==
    [CommaListExpression |-> [elements |-> NodeTypeArray(Expression)],
     MissingDeclaration |-> [name |-> OptionalIdentifier],
     ClassDeclaration |-> ClassLikeDeclarationBase,
     ClassExpression |-> ClassLikeDeclarationBase,
     InterfaceDeclaration |-> [name |-> Identifier, typeParameters |-> OptionalArray({"TypeParameter"}),
                               heritageClauses |-> OptionalArray({"HeritageClause"}),
                               members |-> NodeTypeArray(TypeElement)],
     ExpressionWithTypeArguments |-> [expression |-> Property(LeftHandSideExpression),
                                      typeArguments |-> TypeArguments],
     HeritageClause |-> [types |-> NodeTypeArray({"ExpressionWithTypeArguments"})],
     TypeAliasDeclaration |-> [name |-> Identifier, typeParameters |-> OptionalArray({"TypeParameter"}),
                               type |-> Property(AnyTypeNode)],
     EnumDeclaration |-> [name |-> Identifier, members |-> NodeTypeArray({"EnumMember"})],
     EnumMember |-> [name |-> Property(PropertyName), initializer |-> OptionalInitializer],
     ClassStaticBlockDeclaration |-> [body |-> Property({"Block"})],
     PropertySignature |-> [name |-> Property(PropertyName), questionToken |-> OptionalToken("?"),
                            type |-> OptionalType, initializer |-> OptionalInitializer],
     TypeReference |-> [typeName |-> Property(EntityName), typeArguments |-> TypeArguments]]
ModuleFields ==
    [ModuleDeclaration |-> [name |-> Property({"Identifier", "StringLiteral"}),
                            body |-> OptionalProperty({"ModuleBlock", "ModuleDeclaration"})],
     ModuleBlock |-> [statements |-> NodeTypeArray(Statement)],
     ImportEqualsDeclaration |->
        [name |-> Identifier, moduleReference |-> OptionalProperty(EntityName \cup {"ExternalModuleReference"})],
     ExternalModuleReference |-> [expression |-> Property(Expression)],
     NamespaceImport |-> [name |-> Identifier],
     ImportSpecifier |-> [propertyName |-> OptionalIdentifier, name |-> Identifier],
     NamedImports |-> [elements |-> NodeTypeArray({"ImportSpecifier"})],
     AssertEntry |-> [name |-> Property({"Identifier", "StringLiteral"}), value |-> Property(Expression)],
     AssertClause |-> [elements |-> NodeTypeArray({"AssertEntry"})],
     ImportClause |-> [name |-> OptionalIdentifier,
                       namedBindings |-> OptionalProperty({"NamespaceImport", "NamedImports"})],
     ImportDeclaration |-> [importClause |-> OptionalProperty({"ImportClause"}),
                            moduleSpecifier |-> Property(Expression),
                            assertClause |-> OptionalProperty({"AssertClause"})],
     NamespaceExport |-> [name |-> Identifier],
     ExportSpecifier |-> [propertyName |-> OptionalIdentifier, name |-> Identifier],
     NamedExports |-> [elements |-> NodeTypeArray({"ExportSpecifier"})]]
ExportFields ==
    [NamespaceExportDeclaration |-> [name |-> Identifier],
     ExportDeclaration |-> [exportClause |-> OptionalProperty({"NamespaceExport", "NamedExports"}),
                            moduleSpecifier |-> OptionalProperty(Expression),
                            assertClause |-> OptionalProperty({"AssertClause"})],
     JSDocNullableType |-> [type |-> Property(AnyTypeNode)],
     JSDocNonNullableType |-> [type |-> Property(AnyTypeNode)],
     ExportAssignment |-> [expression |-> Property(Expression)],
     ImportTypeAssertionContainer |-> [assertClause |-> Property({"AssertClause"})],
     ImportType |-> [argument |-> Property(AnyTypeNode),
                     assertions |-> OptionalProperty({"ImportTypeAssertionContainer"}),
                     qualifier |-> OptionalProperty(EntityName), typeArguments |-> TypeArguments]]
FunctionFields ==
    [ArrowFunction |-> [equalsGreaterThanToken |-> Token("=>"), body |-> Property({"Block"} \cup Expression)]
                       @@ FunctionLikeDeclarationBase,
     CallSignature |-> SignatureDeclarationBase,
     ConstructSignature |-> SignatureDeclarationBase,
     MethodSignature |-> [name |-> Property(PropertyName), questionToken |-> OptionalToken("?")]
                         @@ SignatureDeclarationBase,
     IndexSignature |-> [type |-> Property(AnyTypeNode)] @@ SignatureDeclarationBase,
     FunctionType |-> [type |-> Property(AnyTypeNode)] @@ SignatureDeclarationBase,
     ConstructorType |-> [type |-> Property(AnyTypeNode)] @@ SignatureDeclarationBase,
     FunctionDeclaration |-> [name |-> OptionalIdentifier, body |-> OptionalProperty({"Block"})]
                             @@ FunctionLikeDeclarationBase,
     MethodDeclaration |-> [name |-> Property(PropertyName), body |-> Property({"Block"})]
                           @@ FunctionLikeDeclarationBase,
     Constructor |-> [body |-> OptionalProperty({"Block"})] @@ FunctionLikeDeclarationBase,
     GetAccessor |-> [name |-> Property(PropertyName), body |-> OptionalProperty({"Block"})]
                     @@ FunctionLikeDeclarationBase,
     SetAccessor |-> [name |-> Property(PropertyName), body |-> OptionalProperty({"Block"})]
                     @@ FunctionLikeDeclarationBase]
TemplateEnd == Property({"TemplateMiddle", "TemplateTail"})
ExpressionFields ==
    [ObjectLiteralExpression |-> [properties |-> NodeTypeArray(ObjectLiteralElementLike)],
     BinaryExpression |-> [left |-> Property(Expression), operatorToken |-> Field({}, FALSE, TRUE),
                           right |-> Property(Expression)],
     ConditionalExpression |-> [condition |-> Property(Expression), questionToken |-> Token("?"),
                                whenTrue |-> Property(Expression), colonToken |-> Token(":"),
                                whenFalse |-> Property(Expression)],
     FunctionExpression |-> [name |-> OptionalIdentifier, body |-> OptionalProperty({"Block"})]
                            @@ FunctionLikeDeclarationBase,
     TypePredicate |-> [assertsModifier |-> OptionalToken("asserts"),
                        parameterName |-> Property({"Identifier", "ThisType"}), type |-> OptionalType],
     ArrayLiteralExpression |-> [elements |-> NodeTypeArray(Expression)],
     CallExpression |-> [expression |-> Property(LeftHandSideExpression), questionDotToken |-> OptionalToken("?."),
                         typeArguments |-> TypeArguments, arguments |-> NodeTypeArray(Expression)],
     NewExpression |-> [expression |-> Property(LeftHandSideExpression), typeArguments |-> TypeArguments,
                        arguments |-> OptionalArray(Expression)],
     TypeAssertionExpression |-> [type |-> Property(AnyTypeNode), expression |-> Property(UnaryExpression)]]
TemplateFields ==
    [TemplateLiteralTypeSpan |-> [type |-> Property(AnyTypeNode), literal |-> TemplateEnd],
     TemplateLiteralType |-> [head |-> Token("TemplateHead"),
                              templateSpans |-> NodeTypeArray({"TemplateLiteralTypeSpan"})],
     TemplateExpression |-> [head |-> Token("TemplateHead"), templateSpans |-> NodeTypeArray({"TemplateSpan"})],
     TaggedTemplateExpression |->
        [tag |-> Property(LeftHandSideExpression), typeArguments |-> TypeArguments,
         templateLiteral |-> Property({"TemplateExpression", "NoSubstitutionTemplateLiteral"}),
         questionDotToken |-> OptionalToken("?.")],
     TemplateSpan |-> [expression |-> Property(Expression), literal |-> TemplateEnd],
     AsExpression |-> [expression |-> Property(Expression), type |-> Property(AnyTypeNode)],
     NonNullExpression |-> [expression |-> Property(Expression)],
     ParenthesizedExpression |-> [expression |-> Property(Expression)],
     SpreadElement |-> [expression |-> Property(Expression)]]
TypeFields ==
    [TypeQuery |-> [exprName |-> Property(EntityName), typeArguments |-> TypeArguments],
     ArrayType |-> [elementType |-> Property(AnyTypeNode)],
     NamedTupleMember |-> [dotDotDotToken |-> OptionalToken("..."), name |-> Identifier,
                           questionToken |-> OptionalToken("?"), type |-> Property(AnyTypeNode)],
     OptionalType |-> [type |-> Property(AnyTypeNode)],
     RestType |-> [type |-> Property(AnyTypeNode)],
     UnionType |-> [types |-> NodeTypeArray(AnyTypeNode)],
     IntersectionType |-> [types |-> NodeTypeArray(AnyTypeNode)],
     ConditionalType |-> [checkType |-> Property(AnyTypeNode), extendsType |-> Property(AnyTypeNode),
                          trueType |-> Property(AnyTypeNode), falseType |-> Property(AnyTypeNode)],
     InferType |-> [typeParameter |-> Property({"TypeParameter"})],
     ParenthesizedType |-> [type |-> Property(AnyTypeNode)],
     TypeOperator |-> [type |-> Property(AnyTypeNode)],
     IndexedAccessType |-> [objectType |-> Property(AnyTypeNode), indexType |-> Property(AnyTypeNode)],
     MappedType |-> [readonlyToken |-> OptionalProperty({"readonly", "+", "-"}),
                     typeParameter |-> Property({"TypeParameter"}), nameType |-> OptionalType,
                     questionToken |-> OptionalProperty({"?", "+", "-"}), type |-> OptionalType,
                     members |-> OptionalArray(TypeElement)]]
FileFields ==
    [LiteralType |-> [literal |-> Property(LiteralExpression \cup {"null", "true", "false", "PrefixUnaryExpression"})],
     TupleType |-> [elements |-> NodeTypeArray(AnyTypeNode)],
     Decorator |-> [expression |-> Property(Expression)],
     SourceFile |-> [statements |-> NodeTypeArray(Statement), endOfFileToken |-> Token("EndOfFileToken")]]
Fields ==
    UnaryFields @@ NameFields @@ StatementFields @@ MemberFields @@ DeclarationFields @@ ModuleFields
    @@ ExportFields @@ FunctionFields @@ ExpressionFields @@ TemplateFields @@ TypeFields @@ FileFields

-----------------------------------------------------------------------------
(* forEachChild: the fields it visits, in the order of its switch. *)
WithModifiers(fields) == <<"decorators", "modifiers">> \o fields
EachOf(kinds, fields) == [k \in kinds |-> fields]
DeclarationOrder ==
    [QualifiedName |-> <<"left", "right">>,
     TypeParameter |-> <<"modifiers", "name", "constraint", "defaultType", "expression">>,
     ShorthandPropertyAssignment |->
        WithModifiers(<<"name", "questionToken", "exclamationToken", "equalsToken", "objectAssignmentInitializer">>),
     SpreadAssignment |-> <<"expression">>,
     Parameter |-> WithModifiers(<<"dotDotDotToken", "name", "questionToken", "type", "initializer">>),
     PropertyDeclaration |-> WithModifiers(<<"name", "questionToken", "exclamationToken", "type", "initializer">>),
     PropertySignature |-> WithModifiers(<<"name", "questionToken", "type", "initializer">>),
     PropertyAssignment |-> WithModifiers(<<"name", "questionToken", "initializer">>),
     VariableDeclaration |-> WithModifiers(<<"name", "exclamationToken", "type", "initializer">>),
     BindingElement |-> WithModifiers(<<"dotDotDotToken", "propertyName", "name", "initializer">>)]
    @@ EachOf({"FunctionType", "ConstructorType", "CallSignature", "ConstructSignature", "IndexSignature"},
           WithModifiers(<<"typeParameters", "parameters", "type">>))
    @@ EachOf({"MethodDeclaration", "MethodSignature", "Constructor", "GetAccessor", "SetAccessor",
            "FunctionExpression", "FunctionDeclaration", "ArrowFunction"},
           WithModifiers(<<"asteriskToken", "name", "questionToken", "exclamationToken", "typeParameters",
                      "parameters", "type", "equalsGreaterThanToken", "body">>))
    @@ [ClassStaticBlockDeclaration |-> WithModifiers(<<"body">>)]
TypeOrder ==
    [TypeReference |-> <<"typeName", "typeArguments">>,
     TypePredicate |-> <<"assertsModifier", "parameterName", "type">>,
     TypeQuery |-> <<"exprName", "typeArguments">>,
     ArrayType |-> <<"elementType">>,
     ConditionalType |-> <<"checkType", "extendsType", "trueType", "falseType">>,
     ImportType |-> <<"argument", "assertions", "qualifier", "typeArguments">>,
     ImportTypeAssertionContainer |-> <<"assertClause">>,
     IndexedAccessType |-> <<"objectType", "indexType">>,
     MappedType |-> <<"readonlyToken", "typeParameter", "nameType", "questionToken", "type", "members">>,
     LiteralType |-> <<"literal">>,
     NamedTupleMember |-> <<"dotDotDotToken", "name", "questionToken", "type">>]
    @@ EachOf({"ParenthesizedType", "TypeOperator"}, <<"type">>)
    @@ EachOf({"UnionType", "IntersectionType"}, <<"types">>)
    @@ EachOf({"TupleType", "ObjectBindingPattern", "ArrayBindingPattern"}, <<"elements">>)
    @@ [TypeLiteral |-> <<"members">>, InferType |-> <<"typeParameter">>]
ExpressionOrder ==
    [ArrayLiteralExpression |-> <<"elements">>,
     ObjectLiteralExpression |-> <<"properties">>,
     PropertyAccessExpression |-> <<"expression", "questionDotToken", "name">>,
     ElementAccessExpression |-> <<"expression", "questionDotToken", "argumentExpression">>,
     TaggedTemplateExpression |-> <<"tag", "questionDotToken", "typeArguments", "templateLiteral">>,
     TypeAssertionExpression |-> <<"type", "expression">>,
     YieldExpression |-> <<"asteriskToken", "expression">>,
     BinaryExpression |-> <<"left", "operatorToken", "right">>,
     AsExpression |-> <<"expression", "type">>,
     MetaProperty |-> <<"name">>,
     ConditionalExpression |-> <<"condition", "questionToken", "whenTrue", "colonToken", "whenFalse">>]
    @@ EachOf({"CallExpression", "NewExpression"}, <<"expression", "questionDotToken", "typeArguments", "arguments">>)
    @@ EachOf({"PrefixUnaryExpression", "PostfixUnaryExpression"}, <<"operand">>)
    @@ EachOf({"ParenthesizedExpression", "DeleteExpression", "TypeOfExpression", "VoidExpression",
            "AwaitExpression", "NonNullExpression", "SpreadElement"}, <<"expression">>)
StatementOrder ==
    [SourceFile |-> <<"statements", "endOfFileToken">>,
     VariableStatement |-> WithModifiers(<<"declarationList">>),
     VariableDeclarationList |-> <<"declarations">>,
     IfStatement |-> <<"expression", "thenStatement", "elseStatement">>,
     DoStatement |-> <<"statement", "expression">>,
     WhileStatement |-> <<"expression", "statement">>,
     ForStatement |-> <<"initializer", "condition", "incrementor", "statement">>,
     ForInStatement |-> <<"initializer", "expression", "statement">>,
     ForOfStatement |-> <<"awaitModifier", "initializer", "expression", "statement">>,
     WithStatement |-> <<"expression", "statement">>,
     SwitchStatement |-> <<"expression", "caseBlock">>,
     CaseBlock |-> <<"clauses">>,
     CaseClause |-> <<"expression", "statements">>,
     LabeledStatement |-> <<"label", "statement">>,
     TryStatement |-> <<"tryBlock", "catchClause", "finallyBlock">>,
     CatchClause |-> <<"variableDeclaration", "block">>]
    @@ EachOf({"Block", "ModuleBlock", "DefaultClause"}, <<"statements">>)
    @@ EachOf({"ContinueStatement", "BreakStatement"}, <<"label">>)
    @@ EachOf({"ExpressionStatement", "ReturnStatement", "ThrowStatement", "Decorator"}, <<"expression">>)
ClassOrder == WithModifiers(<<"name", "typeParameters", "heritageClauses", "members">>)
ModuleOrder ==
    EachOf({"ClassDeclaration", "ClassExpression", "InterfaceDeclaration"}, ClassOrder)
    @@ [TypeAliasDeclaration |-> WithModifiers(<<"name", "typeParameters", "type">>),
        EnumDeclaration |-> WithModifiers(<<"name", "members">>),
        EnumMember |-> <<"name", "initializer">>,
        ModuleDeclaration |-> WithModifiers(<<"name", "body">>),
        ImportEqualsDeclaration |-> WithModifiers(<<"name", "moduleReference">>),
        ImportDeclaration |-> WithModifiers(<<"importClause", "moduleSpecifier", "assertClause">>),
        ImportClause |-> <<"name", "namedBindings">>,
        AssertEntry |-> <<"name", "value">>,
        ExportDeclaration |-> WithModifiers(<<"exportClause", "moduleSpecifier", "assertClause">>),
        ExportAssignment |-> WithModifiers(<<"expression">>)]
    @@ EachOf({"NamespaceExportDeclaration", "NamespaceImport", "NamespaceExport"}, <<"name">>)
    @@ EachOf({"AssertClause", "NamedImports", "NamedExports"}, <<"elements">>)
    @@ EachOf({"ImportSpecifier", "ExportSpecifier"}, <<"propertyName", "name">>)
RestOrder ==
    EachOf({"TemplateExpression", "TemplateLiteralType"}, <<"head", "templateSpans">>)
    @@ [TemplateSpan |-> <<"expression", "literal">>,
        TemplateLiteralTypeSpan |-> <<"type", "literal">>,
        HeritageClause |-> <<"types">>,
        ExpressionWithTypeArguments |-> <<"expression", "typeArguments">>,
        MissingDeclaration |-> <<"decorators">>,
        CommaListExpression |-> <<"elements">>]
    @@ EachOf({"ComputedPropertyName", "ExternalModuleReference", "PartiallyEmittedExpression"}, <<"expression">>)
    @@ EachOf({"OptionalType", "RestType"}, <<"type">>)
Order == DeclarationOrder @@ TypeOrder @@ ExpressionOrder @@ StatementOrder @@ ModuleOrder @@ RestOrder

-----------------------------------------------------------------------------
(* The field f of a node of this kind; a field its struct does not have is never set. *)
NoField == OptionalProperty({})
FieldOf[kind \in DOMAIN Order, f \in STRING] ==
    CASE f \in DOMAIN Fields[kind] -> Fields[kind][f]
      [] f \in DOMAIN NodeFields -> NodeFields[f]
      [] OTHER -> NoField
(* The operator of a binary expression is any token. *)
IsOperator(kind, f) == kind = "BinaryExpression" /\ f = "operatorToken"
Stands(n, kind, f) ==
    LET field == FieldOf[kind, f]
    IN  IF n.kind = "List" THEN field.list /\ \A i \in DOMAIN n.c : n.c[i].kind \in field.kinds
        ELSE ~field.list /\ (n.kind \in field.kinds \/ (IsOperator(kind, f) /\ n.c = <<>>))
(* The members of unions and intersections are kept without the list around them. *)
Children(n) == IF n.kind \in {"UnionType", "IntersectionType"} THEN <<[kind |-> "List", c |-> n.c]>> ELSE n.c
(* What forEachChild hands to its callback when no callback for lists is given: the nodes in its *)
(* fields, and nothing of the lists.                                                             *)
NodesIn(n) ==
    {c \in Range(Children(n)) :
        /\ n.kind \in DOMAIN Order /\ c.kind # "List"
        /\ \E i \in DOMAIN Order[n.kind] : Stands(c, n.kind, Order[n.kind][i])}
(* The children fill the fields in the order of forEachChild, and only fields that are optional *)
(* or among nullable, pairs of a kind and a field, are null.                                    *)
Fills(kind, c, fields, nullable) ==
    LET fits[i \in 1..(Len(c) + 1), j \in 1..(Len(fields) + 1)] ==
            IF j > Len(fields) THEN i > Len(c)
            ELSE \/ i <= Len(c) /\ Stands(c[i], kind, fields[j]) /\ fits[i + 1, j + 1]
                 \/ /\ FieldOf[kind, fields[j]].must => <<kind, fields[j]>> \in nullable
                    /\ fits[i, j + 1]
    IN  fits[1, 1]
WellFormed(n, nullable) == Fills(n.kind, Children(n), Order[n.kind], nullable)
=============================================================================
