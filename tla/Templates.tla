----------------------------- MODULE Templates -----------------------------
(***************************************************************************)
(* Template literal types and the widening of literals (handleTemplate-    *)
(* Literal() and widen() of checker/vm2.cpp, CartesianProduct of           *)
(* checker/vm2.h).  The operators return the heap and the type or types    *)
(* they computed.                                                          *)
(***************************************************************************)
EXTENDS TypeHeap

\* Type::setLiteral() and setFlag() of a new literal.
NewLiteral(flag, text) == [NewType("Literal", text) EXCEPT !.flags = {flag}]

\* Type::appendText(): a text of the type's own is extended, any other replaced.
AppendText(text, isDynamic, value) == IF isDynamic THEN text \o value ELSE value

\* Type::fromLiteral(), as a string.
FromLiteral(literal) == NewLiteral("StringLiteral", literal.hash)

\* Type::singleChild() and child()
SingleChild(type) == Len(type.kids) = 1
Child(type) == type.kids[1]

AllocateAll(h, types) ==
    FoldLeft(LAMBDA acc, type : [heap |-> Allocate(acc.heap, type), ts |-> Append(acc.ts, Fresh(acc.heap))],
             [heap |-> h, ts |-> <<>>], types)
-----------------------------------------------------------------------------
(* CartesianProduct *)

\* toGroup(): what a placeholder stands for.
RECURSIVE ToGroup(_, _)
ToGroup(h, t) ==
    LET kind == h.types[t].kind
    IN  CASE kind = "Boolean" -> AllocateAll(h, <<NewLiteral("True", ""), NewLiteral("False", "")>>)
          [] kind = "Null" -> AllocateAll(h, <<NewLiteral("StringLiteral", "null")>>)
          [] kind = "Undefined" -> AllocateAll(h, <<NewLiteral("StringLiteral", "undefined")>>)
          [] kind = "Union" ->
                FoldLeft(LAMBDA acc, member :
                            With(ToGroup(acc.heap, member), LAMBDA g : [heap |-> g.heap, ts |-> acc.ts \o g.ts]),
                         [heap |-> h, ts |-> <<>>], h.types[t].kids)
          [] OTHER -> [heap |-> h, ts |-> <<t>>]

\* calculate(): one row per combination, the last group counts fastest.
Rows(groups) ==
    FoldLeft(LAMBDA rows, g : FlattenSeq([r \in DOMAIN rows |-> [i \in DOMAIN g |-> Append(rows[r], g[i])]]),
             <<<<>>>>, groups)

\* A template literal in a row is replaced by its parts.
Spelled(h, row) ==
    FlattenSeq([i \in DOMAIN row |-> IF h.types[row[i]].kind = "TemplateLiteral" THEN h.types[row[i]].kids
                                     ELSE <<row[i]>>])
-----------------------------------------------------------------------------
(* handleTemplateLiteral() *)

\* One item of a row is added to template t.  Literals that follow each other
\* become one: appendText() replaces the text of the first by that of the
\* second, whose text the later ones are then appended to.
AddItem(acc, t, item) ==
    LET type == acc.heap.types[item]
        text == Fresh(acc.heap)
        new  == Allocate(acc.heap, NewLiteral("StringLiteral", type.hash))
    IN  CASE acc.never \/ type.kind = "Never" -> [acc EXCEPT !.never = TRUE]
          [] type.kind = "Literal" /\ acc.lastLiteral # Null ->
                [acc EXCEPT !.heap.types[acc.lastLiteral].hash = AppendText(@, acc.appended, type.hash),
                            !.appended = TRUE]
          [] type.kind = "Literal" /\ acc.lastLiteral = Null ->
                [acc EXCEPT !.heap = AppendChild(new, t, text), !.lastLiteral = text, !.appended = FALSE]
          [] OTHER -> [acc EXCEPT !.heap = AppendChild(@, t, item), !.lastLiteral = Null, !.hasPlaceholder = TRUE]

\* The type of one row becomes a member of the union `result`.  The template of
\* a row with never, or without placeholder, is left behind.
AddRow(h, result, row) ==
    LET t == Fresh(h)
        start == [heap |-> Allocate(h, NewType("TemplateLiteral", "")), lastLiteral |-> Null,
                  appended |-> FALSE, hasPlaceholder |-> FALSE, never |-> FALSE]
    IN  With(FoldLeft(LAMBDA acc, item : AddItem(acc, t, item), start, row), LAMBDA acc :
            LET type == acc.heap.types[t]
            IN  CASE acc.never -> acc.heap
                  [] ~acc.never /\ acc.hasPlaceholder ->
                        IF SingleChild(type) /\ acc.heap.types[Child(type)].kind = "String"
                        THEN Gc(AppendChild(acc.heap, result, Child(type)), t)
                        ELSE AppendChild(acc.heap, result, t)
                  [] OTHER -> IF acc.lastLiteral = Null THEN acc.heap
                              ELSE AppendChild(acc.heap, result, acc.lastLiteral))

\* The union of all rows; an operand without alternatives is read past its end.
Product(h, ts) ==
    With(FoldLeft(LAMBDA acc, t : With(ToGroup(acc.heap, t), LAMBDA g :
                                      [heap |-> g.heap, groups |-> Append(acc.groups, g.ts)]),
                  [heap |-> h, groups |-> <<>>], ts),
         LAMBDA acc :
            LET result == Fresh(acc.heap)
                new == Allocate(acc.heap, NewType("Union", ""))
            IN  IF <<>> \in Range(acc.groups)
                THEN [heap |-> Fault(acc.heap, "read of an empty group"), ts |-> <<>>]
                ELSE [heap |-> FoldLeft(LAMBDA g, row : With(g, LAMBDA f : AddRow(f, result, Spelled(f, row))),
                                        new, Rows(acc.groups)),
                      ts |-> <<result>>])

\* `${'a'}` is a string literal: the literal itself if nothing else owns it.
\* A boolean without owner is lost.
TemplateOf(h, ts) ==
    LET first == h.types[ts[1]]
        isText == first.flags \cap {"StringLiteral", "NumberLiteral"} # {}
    IN  CASE Len(ts) = 1 /\ first.kind = "Literal" /\ first.refCount = 0 ->
                IF isText THEN [heap |-> [h EXCEPT !.types[ts[1]].flags = {"StringLiteral"}], ts |-> ts]
                ELSE [heap |-> h, ts |-> <<>>]
          [] Len(ts) = 1 /\ first.kind = "Literal" /\ first.refCount > 0 /\ isText ->
                [heap |-> Gc(Allocate(h, FromLiteral(first)), ts[1]), ts |-> <<Fresh(h)>>]
          [] OTHER -> Product(h, ts)
-----------------------------------------------------------------------------
(* widen() *)

WidenedKind == [StringLiteral |-> "String", NumberLiteral |-> "Number", BooleanLiteral |-> "Boolean"]
WidenableFlags == DOMAIN WidenedKind

\* The kinds a member of a union is widened to; itself if there are none.
WidenMember(type) ==
    CASE type.kind \in {"Null", "Undefined"} -> {"Any"}
      [] type.kind = "Literal" -> {WidenedKind[f] : f \in type.flags \cap WidenableFlags}
      [] OTHER -> {}

\* A kind is added once to the new union; appendChild() keeps two members.
WidenUnion(h, u, members) ==
    FoldLeft(LAMBDA acc, m :
                LET type == acc.heap.types[m]
                    kinds == WidenMember(type) \ acc.kinds
                    kind == CHOOSE k \in kinds : TRUE
                IN  IF type.kind \notin {"Null", "Undefined", "Literal"}
                    THEN [acc EXCEPT !.heap = AppendChild(@, u, m)]
                    ELSE IF kinds = {} THEN acc
                    ELSE [heap |-> AppendChild(Allocate(acc.heap, NewType(kind, "")), u, Fresh(acc.heap)),
                          kinds |-> acc.kinds \cup {kind}],
             [heap |-> Allocate(h, NewType("Union", "union")), kinds |-> {}], members).heap

\* widen(): the widened type takes the place of t, which is collected.
Widen(h, t) ==
    LET type  == h.types[t]
        flags == type.flags \cap WidenableFlags
        flag  == CHOOSE f \in flags : TRUE
        widens == \E i \in DOMAIN type.kids : h.types[type.kids[i]].kind \in {"Null", "Undefined", "Literal"}
    IN  CASE type.kind = "Literal" ->
                IF flags = {} THEN [heap |-> Fault(h, "Invalid literal to widen"), ts |-> <<>>]
                ELSE [heap |-> Gc(Allocate(h, NewType(WidenedKind[flag], KeywordHash[WidenedKind[flag]])), t), ts |-> <<Fresh(h)>>]
          [] type.kind = "Union" /\ widens -> [heap |-> Gc(WidenUnion(h, Fresh(h), type.kids), t), ts |-> <<Fresh(h)>>]
          [] OTHER -> [heap |-> h, ts |-> <<t>>]
============================================================================
