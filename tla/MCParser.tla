------------------------------ MODULE MCParser ------------------------------
(***************************************************************************)
(* The parser on the texts of SourceTexts.                                 *)
(***************************************************************************)
EXTENDS Parser, SourceTexts

(* A statement that starts with a keyword for which parseStatement has no case. *)
CatchSources == {<<"catch">>}
MCSources == Corpus \cup Expressions \cup {Alias(t) : t \in Types} \cup Malformed

statement == tree.c[1].c[1]

(* What the binary operators of the tree group: positions of operands and operators. *)
RECURSIVE Grouping(_)
Grouping(n) ==
    IF n.kind = "BinaryExpression" THEN <<Grouping(n.c[1]), n.c[2].pos, Grouping(n.c[3])>> ELSE <<n.pos>>
(* parseBinaryExpressionRest and parseAssignmentExpressionOrHigher build, by climbing, the     *)
(* tree that the precedence and associativity of the operators define, and report an error     *)
(* exactly where something else than a name is assigned to.                                    *)
ExpressionsGrouped ==
    Parsed /\ text \in Expressions =>
        LET g == Grouped(text, 1, Len(text) - 1)
        IN  IF Assignable(text, g) THEN errs = <<>> /\ Grouping(statement.c[1]) = g ELSE errs # <<>>

(* The type that a tree stands for, without its parentheses. *)
RECURSIVE TypeOf(_)
TypeOf(n) ==
    LET parts == CASE n.kind = "TupleType" -> n.c[1].c
                   [] n.kind = "FunctionType" -> <<n.c[2]>>
                   [] n.kind = "TypeReference" -> <<>>
                   [] OTHER -> n.c
    IN  IF n.kind = "ParenthesizedType" THEN TypeOf(n.c[1])
        ELSE Ty(n.kind, [i \in DOMAIN parts |-> TypeOf(parts[i])])
(* A type that is written with the parentheses it needs is read back as that type: no          *)
(* lookahead (for arrows, for parentheses, for "extends") takes a part of it for another one.  *)
TypesReadBack ==
    Parsed => \A t \in Types : text = Alias(t) => errs = <<>> /\ TypeOf(statement.c[2]) = t
(* What is written is what is read: parseBinaryExpressionRest groups operands by precedence,   *)
(* and no lookahead of parseType takes a part of a type for another one.                       *)
TreesAsWritten == ExpressionsGrouped /\ TypesReadBack
=============================================================================
