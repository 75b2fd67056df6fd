------------------------------ MODULE MCVmTests ------------------------------
(* The programs of tests/test_vm2.cpp and what the tests require of them, and *)
(* short sequences of statements about variables.  A test that does not look  *)
(* at pool.active has active |-> Unchecked.                                   *)
EXTENDS Vm, Programs

name(x) == ref(x, <<>>)
apply(x, a) == ref(x, <<a>>)
pair(a, b) == tuple(<<el(a), el(b)>>)
single(a) == tuple(<<el(a)>>)
append(a, b) == tuple(<<spread(a), el(b)>>)
Unchecked == -1

StringT == kw("String")
NumberT == kw("Number")
AnyT == kw("Any")
Empty == tuple(<<>>)
Zero == num("0")

test(title, source_, es, count) == [title |-> title, source |-> source_, errors |-> es, active |-> count]

Params(xs) == [i \in DOMAIN xs |-> param(xs[i])]
F1 == alias("F1", Params(<<"T1", "K">>), append(name("T1"), Zero))
F2(c) == alias("F2", Params(<<"T2">>), c)
OfAny(yes, no) == cond(single(name("T2")), single(AnyT), yes, no)
Distributive(yes, no) == cond(name("T2"), AnyT, yes, no)
CallF1 == apply("F1", name("T2"))
Var(a, init) == const("var1", apply("F2", a), init)

Tests == {
    test("vm2Base0", << const("a", StringT, str("")) >>, 0, Unchecked),
    test("vm2Base1", << const("v1", StringT, str("abc")), const("v2", NumberT, num("123")) >>, 0, 2),
    test("vm2BaseError1", << const("v2", StringT, num("123")) >>, 1, Unchecked),
    test("vm2Union0", << const("v1", union(<<StringT, NumberT>>), num("123")),
                         const("v2", union(<<StringT, NumberT>>), kw("True")) >>, 1, Unchecked),
    test("vm2Union1", << alias("a", Params(<<"T">>), union(<<name("T"), union(<<StringT, NumberT>>)>>)),
                         const("v1", apply("a", kw("True")), str("yes")),
                         const("v2", apply("a", kw("True")), kw("True")),
                         const("v3", apply("a", kw("True")), kw("False")) >>, 1, 3 * 4),
    test("vm2Base2", << alias("a", Params(<<"T">>), cond(name("T"), StringT, str("yes"), str("no"))),
                        const("v1", apply("a", NumberT), str("no")),
                        const("v2", apply("a", StringT), str("yes")),
                        const("v3", apply("a", StringT), str("nope")) >>, 1, 3),
    test("vm2Base22", << alias("a", Params(<<"K", "T">>), union(<<name("K"), cond(name("T"), StringT, str("yes"), str("no"))>>)),
                         const("v1", ref("a", <<kw("True"), NumberT>>), str("no")),
                         const("v2", ref("a", <<kw("True"), StringT>>), str("yes")),
                         const("v3", ref("a", <<kw("True"), StringT>>), kw("True")),
                         const("v4", ref("a", <<kw("True"), union(<<StringT, NumberT>>)>>), str("yes")),
                         const("v5", ref("a", <<kw("True"), StringT>>), str("nope")) >>, 1, Unchecked),
    test("gc", << alias("b", Params(<<"T">>), name("T")), alias("a", Params(<<"T">>), apply("b", name("T"))),
                  const("var1", apply("a", StringT), kw("False")) >>, 1, 1),
    test("vm2TemplateLiteral1", << alias("L", <<>>, holder(StringT)), const("var1", name("L"), str("abc")),
                                   const("var2", name("L"), num("22")) >>, 1, Unchecked),
    test("vm2TemplateLiteral2", << alias("L", <<>>, holder(num("34"))), const("var1", name("L"), str("34")),
                                   const("var2", name("L"), num("34")) >>, 1, Unchecked),
    test("vm2TemplateLiteralSize", << alias("A", <<>>, single(num("1"))),
                                      alias("L", <<>>, holder(len(name("A")))),
                                      const("var1", name("L"), str("1")), const("var2", name("L"), str("10")) >>,
         1, Unchecked),
    test("vm2TemplateLiteralSizeGc", << alias("A", <<>>, single(num("1"))),
                                        alias("L", <<>>, holder(len(name("A")))),
                                        const("var1", name("L"), str("1")) >>, 0, 4),
    test("vm2TupleMerge", << alias("A", <<>>, pair(num("1"), num("2"))),
                             alias("L", <<>>, append(name("A"), num("3"))),
                             const("var1", name("L"), tuple(<<el(num("1")), el(num("2")), el(num("3"))>>)),
                             const("var2", name("L"), pair(num("1"), num("2"))),
                             const("var3", name("A"), pair(num("1"), num("2"))) >>, 1, Unchecked),
    test("vm2Tuple2", << alias("A", <<>>, pair(num("1"), num("2"))),
                         const("var1", name("A"), pair(num("1"), num("2"))) >>, 0, 1 + (2 + 2)),
    test("vm2Tuple3", << alias("T", <<>>, single(num("1"))), alias("A", <<>>, append(name("T"), num("2"))),
                         const("var1", name("A"), pair(num("1"), num("2"))) >>, 0, (1 + 2) + (1 + 2)),
    test("vm2Tuple30", << alias("T", <<>>, num("1")), alias("A", <<>>, pair(name("T"), num("2"))),
                          const("var1", name("A"), pair(num("1"), num("2"))) >>, 0, 1 + 2 + 2),
    test("vm2Tuple31", << alias("T", <<>>, single(num("1"))),
                          alias("A", Params(<<"B">>), append(name("B"), num("2"))),
                          const("var1", apply("A", name("T")), pair(num("1"), num("2"))) >>, 0, (1 + 2) + (1 + 2)),
    test("vm2Tuple32", << alias("A", Params(<<"B">>), append(name("B"), num("2"))),
                          const("var1", apply("A", single(num("1"))), pair(num("1"), num("2"))) >>, 0, 1 + 2 + 2),
    test("vm2Tuple33", << alias("A", Params(<<"B">>), append(name("B"), num("2"))),
                          const("var1", apply("A", Empty), single(num("2"))) >>, 0, 1 + 2),
    test("vm2Fn1", << alias("F", Params(<<"T">>), name("T")),
                      const("var1", apply("F", StringT), str("abc")) >>, 0, 1),
    test("vm2Fn2", << alias("F", <<paramExtends("T", AnyT)>>, name("T")),
                      const("var1", apply("F", StringT), str("abc")) >>, 0, 1),
    test("vm2Fn3", << alias("F", <<paramDefault("T", StringT)>>, name("T")),
                      const("var1", name("F"), str("abc")) >>, 0, 1),
    test("vm2Fn4", << alias("F1", <<>>, single(Zero)), const("var1", name("F1"), single(Zero)) >>, 0, 3),
    test("vm2Fn4_1", << alias("F1", Params(<<"T">>), single(Zero)),
                        const("var1", apply("F1", kw("False")), single(Zero)) >>, 0, 3),
    test("vm2Fn4_2", << alias("F1", Params(<<"T">>), append(name("T"), Zero)),
                        const("var1", apply("F1", Empty), single(Zero)) >>, 0, 3),
    test("vm2Fn5", << alias("F1", Params(<<"T">>), cond(name("T"), AnyT, append(name("T"), Zero), kw("Never"))),
                      const("var1", apply("F1", Empty), single(Zero)) >>, 0, 3),
    test("vm2Fn7", << alias("F1", Params(<<"T">>), append(name("T"), Zero)), alias("T", <<>>, Empty),
                      const("var1", apply("F1", name("T")), single(Zero)),
                      const("var2", name("T"), Empty) >>, 0, 1 + 3),
    test("vm2FnArg", << F1, F2(ref("F1", <<name("T2"), kw("False")>>)),
                        const("var1", apply("F1", Empty), single(Zero)),
                        const("var2", apply("F2", Empty), single(Zero)) >>, 0, 3 + 3),
    test("vm2FnTailCall", << F1, F2(ref("F1", <<name("T2"), Empty>>)),
                             const("var1", apply("F1", Empty), single(Zero)) >>, 0, 3),
    test("vm2FnTailCallConditional1", << F1, F2(OfAny(CallF1, kw("Never"))), Var(Empty, single(Zero)) >>, 0, Unchecked),
    test("vm2FnTailCallConditional2", << F1, F2(OfAny(kw("Never"), CallF1)), Var(Empty, single(Zero)) >>, 1, Unchecked),
    test("vm2FnTailCallConditional3", << F1, F2(OfAny(CallF1, CallF1)), Var(Empty, single(Zero)) >>, 0, Unchecked),
    test("vm2FnTailCallConditional4", << F1, alias("F2", Params(<<"K", "T2">>), Distributive(CallF1, Empty)),
                                         const("var1", ref("F2", <<kw("False"), Empty>>), single(Zero)) >>, 0, Unchecked),
    test("vm2FnTailCallConditional5", << F1, alias("F2", Params(<<"K", "T2">>),
                                                   Distributive(Distributive(single(Zero), num("1")), num("2"))),
                                         const("var1", ref("F2", <<kw("False"), Empty>>), single(Zero)) >>, 0, Unchecked),
    test("vm2FnTailCallCondition", << F1, F2(Distributive(Distributive(CallF1, num("1")), num("2"))),
                                      Var(Empty, single(Zero)) >>, 0, 3) }

TestSources == {c.source : c \in Tests}

-----------------------------------------------------------------------------
\* Up to three statements about variables a and b.
One == num("1")
First  == { const("a", NumberT, One), const("a", StringT, One), let("a", One), let("a", single(One)) }
Second == { assign("a", str("x")), assign("a", num("2")), const("b", ref("Nope", <<>>), One),
            let("b", str("x")) }
Third  == { assign("a", str("x")), assign("b", num("2")), assign("a", ref("b", <<>>)), let("a", One) }

StatementSources ==
         { <<s>> : s \in First }
    \cup { <<s, t>> : s \in First, t \in Second }
    \cup { <<s, t, u>> : s \in First, t \in Second, u \in Third }

-----------------------------------------------------------------------------
\* What has no reference to be compared with: templates that merge texts, calls,
\* classes with members.  A call finds something to call only if a variable
\* left it on the stack.
TemplateParts == { str("b"), union(<<str("b"), StringT>>), kw("Boolean"), kw("Null"), kw("Undefined"), kw("Never"),
                   template("a", <<span(StringT, "")>>) }

TemplateSources ==
    { << alias("L", <<>>, t), const("v", name("L"), str("ab")), expression(One) >> :
      t \in {template("a", <<span(p, "")>>) : p \in TemplateParts}
            \cup {template("", <<span(p, "c"), span(StringT, "")>>) : p \in TemplateParts}
            \cup {holder(kw("True"))} }

Arguments_ == { arg("x", NumberT, FALSE, Absent), arg("x", Absent, TRUE, Absent), arg("x", StringT, FALSE, str("y")) }

CallSources ==
    { << declaration(fn("f", <<a>>, t, block(<<return(One)>>))), before, expression(call(ident(callee), args)) >> :
      a \in Arguments_, t \in {Absent, StringT}, before \in {let("g", ident("f")), let("g", One), const("g", NumberT, One)},
      callee \in {"f", "g"}, args \in {<<>>, <<One>>, <<str("x"), One>>} }

Now(flags) == method(fn("now", <<>>, NumberT, block(<<return(One)>>)), flags)
ClassSources ==
    { << class("C", ms), expression(e) >> :
      ms \in {<<Now({"Static"})>>, <<Now({}), Now({"Readonly"})>>, <<field("x")>>},
      e \in {property(ident("C"), "now"), property(new(ident("C"), <<>>), "now"), property(ident("C"), "then"),
             new(ident("C"), <<One>>), new(new(ident("C"), <<>>), <<>>), property(One, "now")} }
    \cup { << class("C", <<>>), class("C", <<>>), expression(One) >>, << return(One), expression(One) >>,
           << alias("O", <<>>, object(<<[member("a", Absent) EXCEPT !.flags = {"Optional"}]>>)),
              const("v", name("O"), object(<<member("a", One)>>)) >> }

\* Functions and classes with a type parameter.
GenericFn(p, t, body) == [fn("f", <<arg("x", name("T"), FALSE, Absent)>>, t, body) EXCEPT !.tps = <<p>>]
GenericCallSources ==
    { << declaration(GenericFn(p, t, body)), before, expression(e) >> :
      p \in {param("T"), paramExtends("T", NumberT)}, t \in {Absent, name("T")}, body \in {Absent, block(<<return(One)>>)},
      before \in {let("g", One), const("g", Absent, instantiate(ident("f"), <<NumberT>>))},
      e \in {call(ident("f"), <<One>>), [call(ident("f"), <<One>>) EXCEPT !.types = <<NumberT>>],
             call(ident("g"), <<One>>), instantiate(ident("g"), <<NumberT>>)} }

GenericClass(ms) == [class("C", ms) EXCEPT !.tps = <<param("T")>>]
GenericClassSources ==
    { << GenericClass(ms), expression(e) >> :
      ms \in {<<>>, <<method(fn("now", <<>>, name("T"), block(<<return(One)>>)), {})>>},
      e \in {new(ident("C"), <<>>), new(ident("C"), <<One>>),
             property([new(ident("C"), <<>>) EXCEPT !.types = <<NumberT>>], "now")} }

TestAndStatementSources == TestSources \cup StatementSources \cup TemplateSources \cup CallSources \cup ClassSources
                           \cup GenericCallSources \cup GenericClassSources

-----------------------------------------------------------------------------

\* The model does what the tests of the repository require of the program: the
\* same number of diagnostics, and the same number of types that are still
\* active once the queues are flushed.
MatchesTests ==
    phase = "done" /\ source \in TestSources =>
        /\ heap.fault = ""
        /\ \E c \in Tests : /\ c.source = source /\ errors = c.errors
                            /\ c.active \in {Unchecked, Cardinality(Usable(heap))}
=============================================================================
