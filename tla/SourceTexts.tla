---------------------------- MODULE SourceTexts ----------------------------
(***************************************************************************)
(* The source texts the parser is run on, as sequences of lexemes, with    *)
(* what two families of them mean: expressions over binary operators, and  *)
(* types.  The meaning is defined here without looking at the parser: by   *)
(* the table of precedences of the language, and by writing a type down    *)
(* with the parentheses it needs.                                          *)
(***************************************************************************)
EXTENDS Integers, Sequences, SequencesExt, FiniteSets, FiniteSetsExt

(* Programs that between them use every parse function. *)
Corpus ==
   {
    <<"type", "A", "<", "T", "=", "B", ">", "=", "{", "a", ":", "string", ";", "b", "?", ":", "number",
     ",", "readonly", "c", ":", "T", ",", "get", "x", "(", ")", ":", "a", ";", "set", "x", "(", "a", ")",
     ",", "f", "(", "a", ")", ":", "B", ";", "new", "(", ")", ":", "A", ";", "(", ")", ":", "B", ";",
     "[", "k", ":", "string", "]", ":", "any", "}", ";">>,
    <<"a", "=", "(", "b", ",", "c", "=", "1", ",", "...", "x", ")", "=>", "c", "[", "0", "]", ";">>,
    <<"type", "A", "<", "in", "T", "extends", "a", ">", "=", "T", "extends", "string", "?", "T", ":",
     "never", ";">>,
    <<"export", "const", "a", ":", "string", "=", "'s'", ",", "b", "=", "1n", ";">>,
    <<"type", "A", "=", "(", "this", ":", "A", ",", "a", ":", "string", ",", "b", "?", ":", "number",
     ",", "...", "c", ")", "=>", "void", ";">>,
    <<"function", "f", "<", "T", ">", "(", "a", ":", "T", ",", "...", "b", ":", "T", "[", "]", ")", ":",
     "T", "{", "return", "a", ";", "}">>,
    <<"class", "A", "<", "T", ">", "extends", "B", "<", "T", ">", "implements", "C", "{", "declare",
     "a", ":", "string", "=", "'s'", ";", "constructor", "(", "public", "x", ":", "T", ")", "{", "}",
     "get", "b", "(", ")", "{", "return", "1", ";", "}", "set", "b", "(", "x", ")", "{", "}", "async",
     "f", "(", ")", "{", "}", "static", "x", "?", ";", "y", "!", ";", "[", "k", ":", "string", "]", ":",
     "any", ";", ";", "static", "{", "a", ";", "}", "'constructor'", "(", ")", "{", "}", "}">>,
    <<"type", "T", "=", "{", "readonly", "[", "K", "in", "keyof", "A", "as", "B", "]", "?", ":", "A",
     "[", "K", "]", "}", ";">>,
    <<"type", "T", "=", "{", "-", "readonly", "[", "K", "in", "A", "]", "+", "?", ":", "B", ";", "}",
     ";">>,
    <<"type", "T", "=", "[", "a", ":", "string", ",", "b", "?", ":", "number", ",", "...", "c", ":",
     "A", "[", "]", ",", "B", "?", ",", "...", "C", "]", ";">>,
    <<"type", "T", "=", "tick", "a", "${", "string", "}", "b", "tick", ";">>,
    <<"let", "a", "=", "tick", "a", "${", "b", "}", "c", "${", "x", "}", "tick", ";">>,
    <<"type", "T", "=", "A", "extends", "(", "infer", "U", "extends", "B", ")", "[", "]", "?", "U", ":",
     "never", ";">>,
    <<"async", "function", "f", "(", ")", "{", "await", "a", ";", "}">>,
    <<"a", "?", "b", ":", "c", ";">>,
    <<"a", "?.", "b", ".", "c", "(", ")", "?.", "[", "x", "]", "?.", "(", "y", ")", "!", ".", "z", ";">>,
    <<"a", "!", ".", "b", ";">>,
    <<"@", "a", "(", "b", ")", "class", "A", "{", "@", "b", "x", "=", "1", ";", "}">>,
    <<"declare", "const", "a", ":", "unique", "symbol", ";">>,
    <<"declare", "function", "f", "(", ")", ":", "void", ";">>,
    <<"if", "(", "a", ")", "b", ";", "else", "{", "c", ";", "}">>,
    <<"a", ":", "b", ";">>,
    <<"(", "a", ")", ";">>,
    <<"(", "a", ")", ":", "(", "A", ")", "=>", "b", ";">>,
    <<"(", "a", "?", "(", "b", ")", ":", "c", ")", ";">>,
    <<"async", "a", "=>", "b", ";">>,
    <<"async", "(", "a", ")", "=>", "{", "await", "a", ";", "}">>,
    <<"new", "A", "<", "T", ">", "(", "a", ")", ";">>,
    <<"new", "A", ";">>,
    <<"a", "<", "b", ">", "(", "c", ")", ";">>,
    <<"f", "tick", "x", "tick", ";">>,
    <<"f", "<", "A", ">", "tick", "x", "${", "y", "}", "z", "tick", ";">>,
    <<"(", "{", "a", ":", "b", "}", "=", "c", ")", ";">>,
    <<"let", "{", "a", ",", "b", ":", "c", "=", "1", ",", "...", "x", "}", "=", "y", ";">>,
    <<"let", "[", "k", "]", "=", "x", ";">>,
    <<"type", "T", "=", "typeof", "a", ".", "b", "|", "keyof", "a", "&", "this", ";">>,
    <<"type", "T", "=", "import", "(", "'s'", ",", "{", "assert", ":", "{", "a", ":", "'s'", "}", "}",
     ")", ".", "b", "<", "A", ">", ";">>,
    <<"type", "T", "=", "typeof", "import", "(", "'s'", ")", ";">>,
    <<"x", "=", "{", "a", ",", "b", ":", "1", ",", "c", "(", ")", "{", "}", ",", "get", "x", "(", ")",
     "{", "return", "1", ";", "}", ",", "set", "x", "(", "a", ")", "{", "}", ",", "...", "y", ",", "[",
     "z", "]", ":", "1", ",", "async", "k", "(", ")", "{", "}", ",", "f", "=", "2", ",", "'s'", ":", "0",
     "}", ";">>,
    <<"function", "*", "f", "(", ")", "{", "yield", "a", ";", "yield", "*", "b", ";", "yield", "}">>,
    <<"-", "a", "**", "b", ";">>,
    <<"typeof", "a", ",", "void", "b", ",", "delete", "c", ",", "!", "x", ",", "++", "y", ",", "z",
     "--", ",", "~", "a", ";">>,
    <<"/", "a", "/", ";">>,
    <<"/", "[", "/", "]", "/", "a", ";">>,
    <<"/", "a", "\n", "b", ";">>,
    <<"type", "T", "=", "abstract", "new", "(", ")", "=>", "A", ";">>,
    <<"type", "T", "=", "-", "1", "|", "null", "|", "true", "|", "undefined", "|", "'s'", ";">>,
    <<"type", "T", "=", "asserts", "|", "A", ".", "B", ";">>,
    <<"function", "f", "(", "a", ")", ":", "asserts", "a", "is", "B", "{", "}">>,
    <<"function", "f", "(", "a", ")", ":", "a", "is", "B", "{", "}">>,
    <<"type", "T", "=", "(", "string", "|", "number", ")", "[", "]", ";">>,
    <<"type", "T", "=", "?", "A", ";">>,
    <<"type", "T", "=", "A", "?", ";">>,
    <<"type", "T", "=", "!", "A", "!", ";">>,
    <<"type", "T", "=", "(", "a", ":", "A", ",", "b", ")", "=>", "(", "c", ")", "=>", "A", ";">>,
    <<"[", "a", ",", ",", "...", "b", "]", ";">>,
    <<"[", "a", "]", "=", "b", ";">>,
    <<"<", "A", ">", "a", "as", "B", ";">>,
    <<"new", ".", "target", ";">>,
    <<"super", ".", "x", ";">>,
    <<"class", "A", "extends", "B", "{", "constructor", "(", ")", "{", "super", "(", "a", ")", ";", "}",
     "}">>,
    <<"let", "f", "=", "function", "f", "(", ")", "{", "}", ",", "x", "=", "class", "B", "{", "}", ";">>,
    <<"let", "f", "=", "function", "(", ")", "{", "}", ";">>,
    <<"class", "{", "}">>,
    <<"interface", "A", "{", "}">>,
    <<"await", ";", "export", "type", "A", "=", "B", ";">>,
    <<"import", ".", "meta", ";">>,
    <<"import", "(", "'s'", ")", ";">>,
    <<"function", "f", "(", "{", "a", "}", ")", "{", "}">>,
    <<"let", "[", ",", "a", "]", "=", "b">>,
    <<"var", "a", "\n", "b", "++", "\n", "c">>,
    <<"type", "A", "=", "intrinsic", ";">>,
    <<"type", "A", "=", "intrinsic", ".", "x", ";">>,
    <<"abstract", "class", "A", "{", "abstract", "f", "(", ")", ";", "private", "readonly", "x", ";",
     "protected", "#p", ";", "override", "y", "}">>,
    <<"declare", "class", "A", "{", "f", "(", ")", ";", "}">>,
    <<"function", "f", "(", ")", "{", "'s'", "}">>,
    <<"if", "(", "a", ";">>,
    <<"a", ".", ";">>,
    <<"a", "b", ";">>,
    <<"type", "T", "=", "A", "extends", "B", ";">>,
    <<"this", ".", "a", "[", ";">>,
    <<"a", "=", "b", "=>", "(", "{", "}", ")", ";">>,
    <<"let", "of", "=", "a", ";">>,
    <<"function", "f", "(", "a", ",", ")", "{", "return", "}">>,
    <<"class", "A", "{", "x", ":", "B", ";", "async", "*", "f", "(", ")", "{", "}", "static", "async",
     "y", "(", ")", "{", "}", "get", "=", "1", ";", "}">>,
    <<"function", "f", "(", "this", ")", ":", "this", "is", "A", "{", "}">>,
    <<"type", "T", "=", "typeof", "a", "!", ";">>,
    <<"(", "a", ",", "1", ")", ";">>,
    <<"function", "f", "(", "1", ")", "{", "}">>
   }

-----------------------------------------------------------------------------
(* Expressions a op a op ... a: operators at even positions. *)
Levels ==    \* from the weakest operator to the strongest
    <<{","}, {"=", "+="}, {"??"}, {"||"}, {"&&"}, {"|"}, {"^"}, {"&"}, {"=="}, {"<", ">", "in"},
      {"+", "-"}, {"*"}, {"**"}>>
LevelOf(op) == CHOOSE l \in DOMAIN Levels : op \in Levels[l]
AssignmentOps == {"=", "+="}
RightAssociative == AssignmentOps \cup {"**"}
Operators == UNION ToSet(Levels)
Chain(ops) == FlattenSeq([i \in DOMAIN ops |-> <<"a", ops[i]>>]) \o <<"a", ";">>
Expressions ==
    {Chain(ops) : ops \in [1..2 -> {",", "=", "??", "||", "|", "==", "<", ">", "in", "+", "*", "**"}]}
    \cup {Chain(ops) : ops \in [1..3 -> {"=", "&&", "+", "**"}]}
    \cup {Chain(<<op>>) : op \in Operators}

(* The tree of the operands and operators at the positions i..k of t: its root is the weakest *)
(* operator, of several the last one if they group to the left, the first if to the right.    *)
RECURSIVE Grouped(_, _, _)
Grouped(t, i, k) ==
    LET at == {j \in i..k : t[j] # "a"}
        weakest == {j \in at : \A m \in at : LevelOf(t[j]) <= LevelOf(t[m])}
        root == IF \E j \in weakest : t[j] \in RightAssociative THEN Min(weakest) ELSE Max(weakest)
    IN  IF i = k THEN <<i>> ELSE <<Grouped(t, i, root - 1), root, Grouped(t, root + 1, k)>>
(* Only a name can be assigned to. *)
RECURSIVE Assignable(_, _)
Assignable(t, g) ==
    Len(g) = 3 => /\ t[g[2]] \in AssignmentOps => Len(g[1]) = 1
                  /\ Assignable(t, g[1]) /\ Assignable(t, g[3])

-----------------------------------------------------------------------------
(* Types: [k, c] with the kind of the node and its parts; "A" is a name. *)
Ty(k, c) == [k |-> k, c |-> c]
Name_ == Ty("TypeReference", <<>>)
Over(a, b) ==    \* the types whose parts are a and b
    {Ty("ArrayType", <<a>>), Ty("TypeOperator", <<a>>), Ty("FunctionType", <<a>>), Ty("TupleType", <<a>>),
     Ty("UnionType", <<a, b>>), Ty("UnionType", <<b, a>>), Ty("IntersectionType", <<a, b>>),
     Ty("ConditionalType", <<a, b, b, b>>), Ty("ConditionalType", <<b, a, b, b>>),
     Ty("ConditionalType", <<b, b, a, b>>), Ty("ConditionalType", <<b, b, b, a>>)}
Types == UNION {Over(t, Name_) : t \in Over(Name_, Name_)}

(* How tightly a type binds, and how tightly its part i has to. *)
Binding(k) ==
    CASE k \in {"FunctionType", "ConditionalType"} -> 0
      [] k = "UnionType" -> 1
      [] k = "IntersectionType" -> 2
      [] k = "TypeOperator" -> 3
      [] OTHER -> 4
Needed(k, i) ==
    CASE k \in {"UnionType", "TypeOperator"} -> Binding(k) + (IF k = "UnionType" THEN 1 ELSE 0)
      [] k = "IntersectionType" -> 3
      [] k = "ArrayType" -> 4
      [] k = "ConditionalType" /\ i <= 2 -> 1
      [] OTHER -> 0
RECURSIVE Written(_)
Written(t) ==
    LET Part(i) == IF Binding(t.c[i].k) < Needed(t.k, i) THEN <<"(">> \o Written(t.c[i]) \o <<")">>
                   ELSE Written(t.c[i])
    IN  CASE t.k = "TypeReference" -> <<"A">>
          [] t.k = "ArrayType" -> Part(1) \o <<"[", "]">>
          [] t.k = "TypeOperator" -> <<"keyof">> \o Part(1)
          [] t.k = "FunctionType" -> <<"(", ")", "=>">> \o Part(1)
          [] t.k = "TupleType" -> <<"[">> \o Part(1) \o <<"]">>
          [] t.k = "UnionType" -> Part(1) \o <<"|">> \o Part(2)
          [] t.k = "IntersectionType" -> Part(1) \o <<"&">> \o Part(2)
          [] t.k = "ConditionalType" ->
                Part(1) \o <<"extends">> \o Part(2) \o <<"?">> \o Part(3) \o <<":">> \o Part(4)
Alias(t) == <<"type", "T", "=">> \o Written(t) \o <<";">>

-----------------------------------------------------------------------------
(* Texts that are mostly no programs: two lexemes where a construct wants others. *)
Pairs(S) == [1..2 -> S]
Malformed ==
    {<<"a", "=", "(">> \o s \o <<"=>", "a">> : s \in Pairs({"a", ",", "...", ":", "?", "=", "(", ")", "{", "}"})}
    \cup {<<"type", "A", "=">> \o s \o <<";">> : s \in Pairs({"A", "(", ")", "[", "{", "|", "=>", "<", "?", "infer"})}
    \cup {<<"class", "A", "{">> \o s \o <<"}">> : s \in Pairs({"a", "static", "get", "(", "{", "[", "=", ":", "@"})}
    \cup {<<"a">> \o s \o <<"a", "}">> : s \in Pairs({"?.", "tick", "{", "<", ">", "!", "["}) \ {<<"!", "!">>}}
    \cup {<<"a", "tick", "${", t, "a", "}">> : t \in {"?.", "tick", "{", "<", ">", "!", "["}}
=============================================================================
