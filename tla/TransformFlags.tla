--------------------------- MODULE TransformFlags ---------------------------
(***************************************************************************)
(* The transform flags of nodes: what language features a subtree contains. *)
(*                                                                         *)
(* A node is [kind, pos, end, c, flags, tf]: c are its children in the     *)
(* order of the source (absent ones left out), flags its node flags, tf    *)
(* its transform flags, a set of names.  A list (NodeArray) is a node of   *)
(* kind "List" whose flags name the list; lists carry flags of their own.  *)
(* Nodes made without a text range have pos = end = -1.                    *)
(***************************************************************************)
EXTENDS Integers, Sequences

(* The bits of the enum; DestructuringAssignment and TypeScriptClassSyntax are one bit. *)
AllFlags ==
    {"TypeScript", "ESNext", "ES2021", "ES2020", "ES2018", "ES2017", "ES2016", "ES2015", "Generator",
     "TypeScriptClassSyntax", "LexicalThis", "RestOrSpread", "ObjectRestOrSpread",
     "ComputedPropertyName", "BlockScopedBinding", "BindingPattern", "Yield", "Await",
     "HoistedDeclarationOrCompletion", "DynamicImport", "ClassFields", "PossibleTopLevelAwait",
     "LexicalSuper", "UpdateExpressionForIdentifier"}
DestructuringAssignment == "TypeScriptClassSyntax"
PropertyNamePropagatingFlags == {"LexicalThis", "LexicalSuper"}
FunctionScoped ==
    {"BlockScopedBinding", "Yield", "Await", "HoistedDeclarationOrCompletion", "BindingPattern",
     "ObjectRestOrSpread"}

(* FirstTypeNode..LastTypeNode, and the other kinds that only types are. *)
TypeNodeKinds ==
    {"TypePredicate", "TypeReference", "FunctionType", "ConstructorType", "TypeQuery", "TypeLiteral",
     "ArrayType", "TupleType", "OptionalType", "RestType", "UnionType", "IntersectionType",
     "ConditionalType", "InferType", "ParenthesizedType", "ThisType", "TypeOperator",
     "IndexedAccessType", "MappedType", "LiteralType", "NamedTupleMember", "TemplateLiteralType",
     "TemplateLiteralTypeSpan", "ImportType"}
KeywordTypes == {"any", "number", "bigint", "never", "string", "object", "boolean", "symbol", "void"}
TypeLikeKinds ==
    KeywordTypes \cup {"TypeParameter", "PropertySignature", "MethodSignature", "CallSignature",
                       "ConstructSignature", "IndexSignature", "TypeAliasDeclaration"}

(* Flags of a node of this kind that say nothing about the tree above it. *)
getTransformFlagsSubtreeExclusions(k) ==
    CASE k \in TypeNodeKinds \cup TypeLikeKinds -> AllFlags \ {"TypeScript"}
      [] k \in {"CallExpression", "NewExpression", "ArrayLiteralExpression"} -> {"RestOrSpread"}
      [] k = "ArrowFunction" -> FunctionScoped \cup {"TypeScriptClassSyntax", "PossibleTopLevelAwait"}
      [] k \in {"FunctionExpression", "FunctionDeclaration"} ->
            FunctionScoped \cup PropertyNamePropagatingFlags
                           \cup {"TypeScriptClassSyntax", "PossibleTopLevelAwait"}
      [] k = "VariableDeclarationList" -> {"BindingPattern", "ObjectRestOrSpread"}
      [] k \in {"ClassDeclaration", "ClassExpression"} -> {"TypeScriptClassSyntax", "ComputedPropertyName"}
      [] k = "Constructor" -> FunctionScoped \cup PropertyNamePropagatingFlags \cup {"PossibleTopLevelAwait"}
      [] k = "PropertyDeclaration" -> PropertyNamePropagatingFlags
      [] k \in {"MethodDeclaration", "GetAccessor", "SetAccessor"} ->
            FunctionScoped \cup PropertyNamePropagatingFlags
      [] k = "ObjectLiteralExpression" ->
            {"TypeScriptClassSyntax", "ComputedPropertyName", "ObjectRestOrSpread"}
      [] k \in {"ObjectBindingPattern", "ArrayBindingPattern"} -> {"RestOrSpread"}
      [] OTHER -> {}

-----------------------------------------------------------------------------
Kinds(c) == {c[i].kind : i \in DOMAIN c}
PropertyNameKinds ==
    {"Identifier", "StringLiteral", "NumericLiteral", "ComputedPropertyName", "PrivateIdentifier"}
Patterns == {"ObjectBindingPattern", "ArrayBindingPattern"}
(* The kinds for which getName has a case and that may have a name other than an identifier. *)
NamedKinds == {"PropertySignature", "MethodSignature", "MethodDeclaration", "GetAccessor", "SetAccessor"}

(* getName: the name of a declaration, as a set of at most one node. *)
getName(n) ==
    IF n.kind \in PropertyNameKinds THEN {n}
    ELSE IF n.kind \notin NamedKinds THEN {}
    ELSE {n.c[i] : i \in {i \in DOMAIN n.c : /\ n.c[i].kind \in PropertyNameKinds
                                             /\ \A j \in 1..(i - 1) : n.c[j].kind \notin PropertyNameKinds}}
(* resolveNameToNode: a name that is a null pointer is dereferenced, a name that is a pattern *)
(* is an exception.                                                                           *)
NameFault(n) ==
    CASE /\ n.kind \in {"FunctionExpression", "FunctionDeclaration", "ClassDeclaration", "ClassExpression"}
         /\ "Identifier" \notin Kinds(n.c) -> {"crash"}
      [] n.kind \in {"Parameter", "VariableDeclaration", "BindingElement"}
         /\ Kinds(n.c) \cap Patterns # {} -> {"exception"}
      [] OTHER -> {}

propagatePropertyNameFlagsOfChild(name) == name.tf \cap PropertyNamePropagatingFlags
propagateChildFlags(n) ==
    IF n.kind = "List" THEN n.tf    \* propagateChildrenFlags
    ELSE (n.tf \ getTransformFlagsSubtreeExclusions(n.kind))
         \cup UNION {propagatePropertyNameFlagsOfChild(name) : name \in getName(n)}
propagateIdentifierNameFlags(n) == propagateChildFlags(n) \ {"PossibleTopLevelAwait"}
aggregateChildrenFlags(c) == UNION {propagateChildFlags(c[i]) : i \in DOMAIN c}

(* The lists that go through createNodeArray; the others are only kept (asNodeArray), and *)
(* their flags stay those the parser gave them: none.                                     *)
KeptLists == {"Decorators", "Modifiers", "TypeParameters", "HeritageClauses", "VariableDeclarations"}
createNodeArrayOf(l) == IF l.tf = {} THEN [l EXCEPT !.tf = aggregateChildrenFlags(l.c)] ELSE l
Aggregated(c, kept) ==
    [i \in DOMAIN c |-> IF c[i].kind = "List" /\ c[i].flags \cap kept = {} THEN createNodeArrayOf(c[i])
                        ELSE c[i]]

-----------------------------------------------------------------------------
(* Tokens, names and literals. *)
createToken(k) ==
    CASE k = "async" -> {"ES2017", "ES2018"}
      [] k \in KeywordTypes \cup {"public", "private", "protected", "readonly", "abstract", "declare",
                "const", "in", "out", "override", "unknown", "undefined"} -> {"TypeScript"}
      [] k = "super" -> {"ES2015", "LexicalSuper"}
      [] k = "static" -> {"ES2015"}
      [] k = "this" -> {"LexicalThis"}
      [] OTHER -> {}
createBigIntLiteral == {"ESNext"}
createStringLiteral == {"ES2015"}    \* the flag is set when hasExtendedUnicodeEscape has a value
createTemplateLiteralLikeNode == {"ES2015"}
createIdentifier_(word) == IF word = "await" THEN {"PossibleTopLevelAwait"} ELSE {}
createPrivateIdentifier == {"ClassFields"}
createThisTypeNode == {"TypeScript"}
TokenFlags(k, word) ==
    CASE k = "Identifier" -> createIdentifier_(word)
      [] k = "PrivateIdentifier" -> createPrivateIdentifier
      [] k = "BigIntLiteral" -> createBigIntLiteral
      [] k = "StringLiteral" -> createStringLiteral
      [] k = "ThisType" -> createThisTypeNode
      [] k \in {"NoSubstitutionTemplateLiteral", "TemplateHead", "TemplateMiddle", "TemplateTail"} ->
            createTemplateLiteralLikeNode
      [] OTHER -> createToken(k)
=============================================================================
