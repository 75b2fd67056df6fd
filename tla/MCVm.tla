-------------------------------- MODULE MCVm --------------------------------
(* Families of source files for module Vm, from small grammars. *)
EXTENDS Vm, Programs

T == ref("T", <<>>)
R == ref("R", <<>>)
AnyT == kw("Any")
StringT == kw("String")
NumberT == kw("Number")
One == num("1")
StringOrOne == union(<<StringT, One>>)
list(a) == tuple(<<el(a)>>)
append(a, b) == tuple(<<spread(a), el(b)>>)
F(a) == ref("F", <<a>>)
G(a) == ref("G", <<a>>)
AliasF(body) == alias("F", <<param("T")>>, body)
AliasG(body) == alias("G", <<param("T")>>, body)

-----------------------------------------------------------------------------
\* type A = [1]; type F<T> = body; two variables of type F<arg>.
Bodies == { T, One, arr(T), union(<<T, One>>), list(T), append(T, One),
            tuple(<<el(One), spread(T)>>), tuple(<<el(T), el(T)>>),
            tuple(<<spread(T), el(T)>>), tuple(<<el(append(T, One)), el(One)>>),
            object(<<member("a", T)>>), object(<<member("a", T), member("b", list(T))>>),
            len(T), index(object(<<member("a", T)>>), str("b")) }

Args == { StringT, tuple(<<>>), list(One), ref("A", <<>>), StringOrOne, object(<<member("a", StringT)>>) }

Parameters == { paramDefault("T", One), paramExtends("T", AnyT) }

Generic(p, b, a) ==
    << alias("A", <<>>, list(One)), alias("F", <<p>>, b),
       const("v", F(a), list(One)), const("w", F(a), list(StringT)) >>

GenericSources ==
         { Generic(param("T"), b, a) : b \in Bodies, a \in Args }
    \cup { Generic(p, b, a) : p \in Parameters, b \in {T, append(T, One)}, a \in {StringT, ref("A", <<>>)} }

-----------------------------------------------------------------------------
\* type G<T> = g; type F<T> = check extends e ? y : n; const v: F<arg> = [1];
Branches == { One, T, append(T, One), G(T), G(list(T)) }

Conditional(check, branches) ==
    { << AliasG(g), AliasF(cond(check, e, y, n)), const("v", F(a), list(One)) >> :
      g \in {T, append(T, One)}, e \in {StringT, AnyT, list(StringT)},
      y \in Branches, n \in branches, a \in {StringT, list(One), StringOrOne} }

\* type F<T> = [check extends e ? G<T> : 1];
Wrapped ==
    { << AliasG(append(T, One)), AliasF(list(cond(check, e, G(T), One))), const("v", F(a), list(One)) >> :
      check \in {T, list(T)}, e \in {AnyT, list(StringT)}, a \in {list(One), StringOrOne} }

\* type R<N, T> = T['length'] extends N ? T : R<N, step>;
Recursive ==
    { << alias("R", <<param("N"), param("T")>>,
               cond(len(T), ref("N", <<>>), T, ref("R", <<ref("N", <<>>), step>>))),
         const("v", ref("R", <<num(n), a>>), list(One)) >> :
      step \in {append(T, One), tuple(<<el(One), spread(T)>>), list(T)},
      n \in {"1", "2"}, a \in {tuple(<<>>), list(One)} }

\* A step that never reaches the length does not end.
Ending(s) == ~(s[1].t.no.args[2] = list(T) /\ s[2].t.args[1] = num("2"))

ConditionalSources ==
         Conditional(T, {One, append(T, One)})
    \cup Conditional(list(T), {One, G(T)})
    \cup Wrapped
    \cup {s \in Recursive : Ending(s)}

-----------------------------------------------------------------------------
\* type F<T> = `${T}`; the templates that collect all they allocate.
TemplateSources ==
    { Generic(param("T"), holder(T), a) :
      a \in {StringT, NumberT, One, tuple(<<>>), list(One), ref("A", <<>>), object(<<member("a", StringT)>>)} }

\* function f() body; type H = () => t; variables of these types.
FunctionBodies ==
    { block(<<>>), block(<<return(One)>>), block(<<return(One), return(str("x"))>>),
      block(<<iff(return(One), return(num("2"))), block(<<>>)>>), block(<<iff(return(str("x")), Absent)>>) }

FunctionSources ==
    { << declaration(fn("f", <<>>, t, body)), alias("H", <<>>, [fn("", <<>>, NumberT, Absent) EXCEPT !.junk = junk]),
         const("v", Absent, ident("f")), const("w", ref("H", <<>>), paren(ident("f"))) >> :
      t \in {Absent, StringT}, body \in FunctionBodies, junk \in BOOLEAN }

\* class C {} and an instance of it, a conditional expression.
ClassSources ==
    { << class("C", <<>>), const("v", Absent, new(ident("C"), <<>>)), const("w", Absent, choice(str("x"), One)),
         const("x", AnyT, ident("v")) >> }

\* Unions and objects of more than five members: one pair of names collides.
Names == <<"a", "bb", "ccc", "dddd", "eeeee", "fffffff">>
Literals(n) == [i \in 1..n |-> str(Names[i])]
Six(t) == object([i \in 1..6 |-> member(Names[i], t)])

LargeSources ==
         { << alias("U", <<>>, union(Literals(6))), AliasF(union(<<T>> \o rest)),
              const("v", ref("U", <<>>), init), const("w", F(a), init) >> :
           rest \in {Literals(5), <<union(Literals(5))>>}, a \in {One, StringOrOne}, init \in {str("a"), str("fffffff"), One} }
    \cup { << alias("A", <<>>, list(One)), alias("O", <<>>, Six(ref("A", <<>>))), AliasF(b),
              const("v", ref("O", <<>>), Six(ref("A", <<>>))), const("w", F(ref("O", <<>>)), One) >> :
           b \in {index(T, str("gggg")), object(<<member("a", T)>>)} }

TypeSources == GenericSources \cup ConditionalSources \cup TemplateSources \cup FunctionSources \cup ClassSources
               \cup LargeSources

-----------------------------------------------------------------------------
(* Single source files, one per disagreement between the code and what its   *)
(* comments, assertions or tests say.                                        *)

\* The false branch of a distributive conditional type is a call.
CallInFalseBranch ==
    { << AliasG(append(T, One)), AliasF(cond(T, StringT, One, G(T))), const("v", F(list(One)), list(One)) >> }
=============================================================================
