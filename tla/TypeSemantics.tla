--------------------------- MODULE TypeSemantics ---------------------------
(***************************************************************************)
(* The reference the VM is compared with: what the type expressions of a   *)
(* source file mean, by structural recursion over the syntax trees of      *)
(* module Compiler, without bytecode, sharing, caches or reference counts. *)
(*                                                                         *)
(* A value is a tree [kind, hash, flags, m, ms]: m the parts of a Tuple,   *)
(* Array, ObjectLiteral or PropertySignature in order, ms the members of a *)
(* Union, which is flat, has no never and at least two members.            *)
(***************************************************************************)
EXTENDS Integers, Sequences, FiniteSets, SequencesExt

LOCAL C == INSTANCE Compiler

Value(kind, hash, flags, m) == [kind |-> kind, hash |-> hash, flags |-> flags, m |-> m, ms |-> {}]

Keyword(op) == IF op \in {"True", "False"} THEN Value("Literal", "", {op}, <<>>)
                                           ELSE Value(op, op, {}, <<>>)

Members(v) == IF v.kind = "Union" THEN v.ms
              ELSE IF v.kind = "Never" THEN {} ELSE {v}

UnionOf(vs) == LET ms == UNION {Members(v) : v \in vs} IN
               IF ms = {} THEN Keyword("Never")
               ELSE IF Cardinality(ms) = 1 THEN CHOOSE v \in ms : TRUE
               ELSE [Value("Union", "", {}, <<>>) EXCEPT !.ms = ms]

\* let, and what a function returns: a literal is widened, in a union every one.
WidenedValue(v) == CASE v.kind # "Literal" -> v
                     [] "StringLiteral" \in v.flags -> Keyword("String")
                     [] "NumberLiteral" \in v.flags -> Keyword("Number")
                     [] OTHER -> Keyword("Boolean")
Widened(v) == IF v.kind = "Union" THEN UnionOf({WidenedValue(u) : u \in v.ms}) ELSE WidenedValue(v)

\* A template: its parts in every combination of the members of the unions
\* among them, neighbouring literals as one.
Text(text) == Value("Literal", text, {"StringLiteral"}, <<>>)
AddPart(parts, v) ==
    IF v.kind # "Literal" THEN Append(parts, v)
    ELSE IF parts = <<>> \/ Last(parts).kind # "Literal" THEN Append(parts, Text(v.hash))
    ELSE Append(Front(parts), Text(Last(parts).hash \o v.hash))
TemplateOf(vs) ==
    LET parts == FoldLeft(AddPart, <<>>, vs)
    IN  IF Len(parts) = 1 /\ parts[1].kind \in {"Literal", "String"} THEN parts[1]
        ELSE Value("TemplateLiteral", "", {}, parts)

\* The statements a block runs through, conditions are not looked at.
RECURSIVE Run(_)
Run(s) == CASE s.k = "block" -> FlattenSeq([i \in DOMAIN s.ss |-> Run(s.ss[i])])
            [] s.k = "if" -> Run(s.yes) \o (IF s.no = C!Absent THEN <<>> ELSE Run(s.no))
            [] OTHER -> <<s>>
Returned(body) ==
    LET returns == SelectSeq(Run(body), LAMBDA s : s.k = "return")
    IN  [i \in DOMAIN returns |-> returns[i].e]

\* left is assignable to right.
RECURSIVE Assignable(_, _)
Assignable(l, r) ==
    CASE r.kind = "Any" -> TRUE
      [] l.kind = "Union" -> \A v \in l.ms : Assignable(v, r)
      [] r.kind = "Union" -> \E v \in r.ms : Assignable(l, v)
      [] l.kind = "Tuple" /\ r.kind = "Tuple" ->
            Len(l.m) = Len(r.m) /\ \A i \in DOMAIN l.m : Assignable(l.m[i], r.m[i])
      [] l.kind = "Tuple" /\ r.kind = "Array" -> \A i \in DOMAIN l.m : Assignable(l.m[i], r.m[1])
      [] l.kind = "Array" /\ r.kind = "Array" -> Assignable(l.m[1], r.m[1])
      [] l.kind = "ObjectLiteral" /\ r.kind = "ObjectLiteral" ->
            \A i \in DOMAIN r.m : \E j \in DOMAIN l.m :
               l.m[j].hash = r.m[i].hash /\ Assignable(l.m[j].m[2], r.m[i].m[2])
      [] l.kind = "Literal" /\ r.kind = "String"  -> "StringLiteral" \in l.flags
      [] l.kind = "Literal" /\ r.kind = "Number"  -> "NumberLiteral" \in l.flags
      [] l.kind = "Literal" /\ r.kind = "Boolean" -> l.flags \cap {"True", "False"} # {}
      [] OTHER -> l.kind \in {"String", "Number", "Boolean", "Literal"} /\ l = r

\* The value of n under env (type parameters and distributed names) and decls,
\* the alias declarations by name.
RECURSIVE Eval(_, _, _)

Bind(params, args, decls) ==
    FoldLeft(LAMBDA env, i :
                LET p == params[i]
                    v == IF i <= Len(args) THEN args[i]
                         ELSE IF p.default = C!Absent THEN Keyword("Unknown")
                         ELSE Eval(p.default, env, decls)
                IN  [x \in DOMAIN env \cup {p.name} |-> IF x = p.name THEN v ELSE env[x]],
             [x \in {} |-> C!Absent], [i \in DOMAIN params |-> i])

\* ...T of something that is no tuple is an error and contributes nothing.
Spread(e, env, decls) ==
    LET v == Eval(e.t, env, decls) IN IF ~e.rest THEN <<v>> ELSE IF v.kind = "Tuple" THEN v.m ELSE <<>>

Branch(n, v, env, decls) ==
    Eval(IF Assignable(v, Eval(n.ext, env, decls)) THEN n.yes ELSE n.no, env, decls)

Eval(n, env, decls) ==
    CASE n.k = "absent"  -> Keyword("Any")       \* a property without type
      [] n.k = "kw"      -> Keyword(n.op)
      [] n.k = "literal" -> Value("Literal", n.text, {n.op}, <<>>)
      [] n.k = "template" ->
            LET groups == FoldLeft(LAMBDA acc, sp : acc \o <<Members(Eval(sp.t, env, decls)), {Text(sp.text)}>>,
                                   <<{Text(n.head)}>>, n.spans)
                rows == {r \in [DOMAIN groups -> UNION Range(groups)] : \A i \in DOMAIN groups : r[i] \in groups[i]}
            IN  UnionOf({TemplateOf(SelectSeq(r, LAMBDA v : v # Text(""))) : r \in rows})
      [] n.k = "function" ->
            Value("Function", "", {},
                  <<IF n.t # C!Absent THEN Eval(n.t, env, decls)
                    ELSE Widened(UnionOf({Eval(e, env, decls) : e \in Range(Returned(n.body))}))>>)
      [] n.k \in {"ref", "ident"} ->
            IF n.name \in DOMAIN env THEN env[n.name]
            ELSE IF n.name \notin DOMAIN decls THEN Keyword("Never")     \* an error
            ELSE LET d == decls[n.name]
                 IN  Eval(d.t, Bind(d.params, [i \in DOMAIN n.args |-> Eval(n.args[i], env, decls)], decls),
                          decls)
      [] n.k = "class"  -> Value("Class", "", {}, <<>>)
      [] n.k = "new"    -> Value("ClassInstance", "", {}, <<Eval(n.e, env, decls)>>)
      [] n.k = "paren"  -> Eval(n.e, env, decls)
      [] n.k = "choice" -> UnionOf({Eval(n.yes, env, decls), Eval(n.no, env, decls)})
      [] n.k = "union"  -> UnionOf({Eval(n.ts[i], env, decls) : i \in DOMAIN n.ts})
      [] n.k = "tuple"  -> Value("Tuple", "", {},
                                 FlattenSeq([i \in DOMAIN n.els |-> Spread(n.els[i], env, decls)]))
      [] n.k = "array"  -> Value("Array", "", {}, <<Eval(n.t, env, decls)>>)
      [] n.k = "object" ->
            Value("ObjectLiteral", "", {},
                  [i \in DOMAIN n.ms |->
                      Value("PropertySignature", n.ms[i].name, {},
                            <<Value("Literal", n.ms[i].name, {"StringLiteral"}, <<>>),
                              Eval(n.ms[i].t, env, decls)>>)])
      [] n.k = "index"  ->
            LET o == Eval(n.o, env, decls)
                i == Eval(n.i, env, decls)
                hit == {j \in DOMAIN o.m : o.m[j].hash = i.hash}
            IN  IF hit = {} THEN Keyword("Never") ELSE o.m[Min(hit)].m[2]
      [] n.k = "length" ->
            LET o == Eval(n.o, env, decls)
            IN  Value("Literal", IF o.kind = "Tuple" THEN ToString(Len(o.m)) ELSE "0", {"NumberLiteral"}, <<>>)
      [] n.k = "cond" ->
            LET v == Eval(n.check, env, decls)
                over(u) == [x \in DOMAIN env \cup {n.check.name} |-> IF x = n.check.name THEN u ELSE env[x]]
            IN  IF n.check.k # "ref" THEN Branch(n, v, env, decls)
                ELSE IF v.kind = "Union" THEN UnionOf({Branch(n, u, over(u), decls) : u \in v.ms})
                ELSE Branch(n, v, over(v), decls)

\* The declarations of a source file that types can refer to.
Declaration(s) == CASE s.k = "alias" -> s
                    [] s.k = "declaration" -> [params |-> <<>>, t |-> s.function]
                    [] s.k = "class" -> [params |-> <<>>, t |-> s]
Aliases(statements) ==
    LET typed == {i \in DOMAIN statements : statements[i].k \in {"alias", "declaration", "class"}}
        named(x) == {i \in typed : statements[i].name = x}
    IN  [x \in {statements[i].name : i \in typed} |-> Declaration(statements[Min(named(x))])]

NoNames == [x \in {} |-> C!Absent]

\* What the subroutine of a statement computes, if it takes no arguments.
Meaning(s, statements) ==
    LET eval(n) == Eval(n, NoNames, Aliases(statements))
    IN  IF s.k # "variable" THEN eval(Declaration(s).t)
        ELSE IF s.t # C!Absent THEN eval(s.t)
        ELSE IF s.const THEN eval(s.init) ELSE Widened(eval(s.init))

\* The type every variable has been narrowed to when all statements are done:
\* that of the value last assigned to it.  A second declaration is ignored.
Narrowed(statements) ==
    LET again(i) == \E j \in 1..(i - 1) : /\ statements[j].k = "variable"
                                          /\ statements[j].name = statements[i].name
        narrows(i) == LET s == statements[i] IN
                      s.k = "assign" \/ (s.k = "variable" /\ ~s.const /\ s.t = C!Absent /\ ~again(i))
        value(s) == IF s.k = "assign" THEN s.right ELSE s.init
    IN  FoldLeft(LAMBDA env, i :
                    IF ~narrows(i) THEN env
                    ELSE [x \in DOMAIN env \cup {statements[i].name} |->
                             IF x = statements[i].name
                             THEN Eval(value(statements[i]), env, Aliases(statements)) ELSE env[x]],
                 NoNames, [i \in DOMAIN statements |-> i])

\* Expressions, and what only they use, are not described.
Described(statements) == \A i \in DOMAIN statements : statements[i].k \notin {"expression", "return"}

\* The diagnostics of a source file: names that are not declared where they
\* are used, as the declared type, the target or the source of an assignment,
\* and initializers that do not fit.
ExpectedErrors(statements) ==
    LET eval(n) == Eval(n, NoNames, Aliases(statements))
        declared(i) == {statements[j].name : j \in {k \in 1..(i - 1) : statements[k].k # "assign"}}
        isRef(n, i) == n.k = "ref" /\ n.name \notin declared(i)
        kind(k) == {i \in DOMAIN statements : statements[i].k = k}
        typed == {i \in kind("variable") : statements[i].t # C!Absent}
    IN    Cardinality({i \in typed : isRef(statements[i].t, i)})
        + Cardinality({i \in kind("assign") : \/ statements[i].name \notin declared(i)
                                             \/ isRef(statements[i].right, i)})
        + Cardinality({i \in typed : /\ statements[i].init # C!Absent
                                     /\ ~Assignable(eval(statements[i].init), eval(statements[i].t))})
=============================================================================
