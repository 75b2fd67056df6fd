------------------------------ MODULE Compiler ------------------------------
(***************************************************************************)
(* The compiler of type declarations (checker/compiler.h): it walks a      *)
(* syntax tree and writes one sequence of OPs per subroutine, main first.  *)
(* While it does so it cuts every subroutine into sections (branches);     *)
(* optimise() uses them to turn a Call into a TailCall and a Rest into a   *)
(* RestReuse where the section ends the subroutine.                        *)
(*                                                                         *)
(* A subroutine's code is a sequence of cells, one per byte: an OP is a    *)
(* string, a parameter its value followed by the zeros that fill its       *)
(* width, so that every ip, jump distance and storage address is the one   *)
(* of the code.  Source positions are left out: the source map is empty.   *)
(*                                                                         *)
(* A syntax tree is a record whose field k names the node kind:            *)
(*   kw(op) literal(op, text) ref(name, args) tuple(els) union(ts)         *)
(*   cond(check, ext, yes, no) array(t) object(ms) index(o, i) length(o)   *)
(*   template(head, spans) function(name, tps, ps, t, body, junk) paren(e) *)
(*   ident(name) choice(yes, no) property(e, name) new(e, types, args)     *)
(*   call(e, types, args) instantiate(e, types)                            *)
(* and, as statements, alias(name, params, t), variable(name, t, init,     *)
(* const), assign(name, right), declaration(function), class(name, tps, ms),    *)
(* expression(e), return(e), if(yes, no) and block(ss).                    *)
(***************************************************************************)
EXTENDS Integers, Sequences, SequencesExt

Absent == [k |-> "absent"]      \* an optional node that is not there
NoSection == 0                  \* int next = -1, int up = -1
NoRoutine == 0

Uint16(v) == <<v, 0>>
Uint32(v) == <<v, 0, 0, 0>>

\* The OPs by their number.
OP ==
    << "Noop", "Jump", "Halt", "SourceMap", "Main", "Never", "Any", "Unknown", "Void", "Object",
       "String", "Number", "Boolean", "BigInt", "Symbol", "Null", "Undefined", "StringLiteral",
       "NumberLiteral", "BigIntLiteral", "True", "False", "Function", "FunctionRef", "ClassRef",
       "Method", "MethodSignature", "Parameter", "Initializer", "Property", "PropertySignature",
       "Class", "ObjectLiteral", "IndexSignature", "PropertyAccess", "Array", "Tuple",
       "TupleMember", "TupleNamedMember", "Optional", "Readonly", "Static", "Rest", "RestReuse",
       "Union", "Intersection", "Extends", "Condition", "JumpCondition", "CallExpression",
       "Instantiate", "StartInferTypeArguments", "InferTypeArguments", "New", "Slots", "SelfCheck",
       "TypeArgument", "TypeArgumentDefault", "TypeArgumentConstraint", "TemplateLiteral",
       "IndexAccess", "Length", "KeyOf", "Infer", "TypeOf", "Widen", "TypeVar", "Loads", "Assign",
       "Dup", "Set", "SetAndPush", "Error", "Pop", "Inline", "Return", "ReturnStatement",
       "Subroutine", "Distribute", "Call", "TailCall", "CheckBody", "InferBody", "UnwrapInferBody" >>

\* Symbol, Section and Subroutine with their default member values.
Symbol(name, type, index) ==
    [name |-> name, type |-> type, index |-> index, routine |-> NoRoutine,
     declarations |-> 1]

Section(up) ==
    [end |-> 0, lastOp |-> "Noop", ops |-> 0, isBlockTailCall |-> FALSE,
     hasChild |-> FALSE, usages |-> <<>>, next |-> NoSection, up |-> up]

Subroutine(name, nameAddress) ==
    [name |-> name, nameAddress |-> nameAddress, ops |-> <<>>, symbols |-> <<>>, sections |-> <<Section(NoSection)>>,
     activeSection |-> 1, isIgnoreNextSectionOP |-> FALSE, slots |-> 0, slotIP |-> 0]
-----------------------------------------------------------------------------
(* Subroutine *)

Ip(s) == Len(s.ops)

PushOpTo(s, op) ==
    LET a == s.activeSection IN
    [s EXCEPT !.ops = Append(@, op),
              !.sections[a].lastOp = IF s.isIgnoreNextSectionOP THEN @ ELSE op,
              !.sections[a].ops = IF s.isIgnoreNextSectionOP THEN @ ELSE @ + 1,
              !.isIgnoreNextSectionOP = FALSE]

PushSectionTo(s) ==
    [s EXCEPT !.sections = Append([@ EXCEPT ![s.activeSection].hasChild = TRUE],
                                  Section(s.activeSection)),
              !.activeSection = Len(s.sections) + 1]

PopSectionFrom(s) ==
    LET last   == Len(s.sections)
        up     == s.sections[last].up
        closed == [s.sections EXCEPT ![last].end = Ip(s)]
    IN  IF closed[up].next = NoSection
        THEN [s EXCEPT !.sections = Append([closed EXCEPT ![up].next = last + 1],
                                           Section(closed[up].up)),
                       !.activeSection = last + 1]
        ELSE [s EXCEPT !.sections = closed, !.activeSection = up]

\* Section::registerTypeArgumentUsage: a symbol already listed has its
\* symbolIndex overwritten by the ip of the new use.
RegisterTypeArgumentUsage(usages, symbolIndex, ip) ==
    LET known == {i \in DOMAIN usages : usages[i].symbolIndex = symbolIndex}
    IN  IF known = {} THEN Append(usages, [symbolIndex |-> symbolIndex, ip |-> ip])
        ELSE [usages EXCEPT ![CHOOSE i \in known : \A j \in known : i <= j].symbolIndex = ip]

RECURSIVE Ended(_, _)
Ended(secs, i) == IF secs[i].next # NoSection THEN Ended(secs, secs[i].next)
                                              ELSE secs[i].ops = 0

\* The parents of a section all end with it and none blocks tail calls.
RECURSIVE ParentsEnd(_, _)

\* Variant: what follows in the parents is not looked at.
ParentsAllow(secs, up) == up = NoSection \/ (~secs[up].isBlockTailCall /\ ParentsEnd(secs, secs[up].up))

ParentsEnd(secs, up) ==
    up = NoSection \/ (/\ ~secs[up].isBlockTailCall
                       /\ Ended(secs, up)
                       /\ ParentsEnd(secs, secs[up].up))

TailSection(secs, i) ==
    /\ ~secs[i].hasChild /\ ~secs[i].isBlockTailCall
    /\ secs[i].next # NoSection => Ended(secs, i)
    /\ ParentsEnd(secs, secs[i].up)

\* Subroutine::optimise(): cell p + 1 holds the byte at ip p.
Optimise(s) ==
    LET tail  == {i \in DOMAIN s.sections : TailSection(s.sections, i)}
        calls == {s.sections[i].end - 7 : i \in {j \in tail : s.sections[j].lastOp = "Call"}}
        rests == {u.ip : u \in UNION {Range(s.sections[i].usages) : i \in tail}}
    IN  [s EXCEPT !.ops = [p \in DOMAIN @ |-> IF p - 1 \in calls THEN "TailCall"
                                              ELSE IF p - 1 \in rests /\ @[p] = "Rest" THEN "RestReuse"
                                              ELSE @[p]]]
-----------------------------------------------------------------------------
(* Program: subs are all subroutines, act the stack of those being filled, *)
(* storage the texts the code refers to, thrown the exception, if any.     *)

Current(c) == c.subs[Last(c.act)]
Edit(c, s) == [c EXCEPT !.subs[Last(c.act)] = s]

\* pushOp(op) and the push* calls for its parameters.
Emit(c, op, params) ==
    LET s == PushOpTo(Current(c), op) IN Edit(c, [s EXCEPT !.ops = @ \o params])

\* registerStorage(): the address of a text behind the Jump and the texts before
\* it, each with its hash and its length.  pushOp() and pushStorage().
HashSize == 8
StorageEnd(storage) == FoldLeft(LAMBDA n, x : n + HashSize + 2 + Len(x), 1 + 4, storage)
RegisterStorage(c, text) == [c EXCEPT !.storage = Append(@, text)]
EmitText(c, op, text) == RegisterStorage(Emit(c, op, Uint32(StorageEnd(c.storage))), text)

Patch(c, ip, v) == [c EXCEPT !.subs[Last(c.act)].ops[ip + 1] = v]

BlockTailCall(c) ==
    LET s == Current(c) IN Edit(c, [s EXCEPT !.sections[s.activeSection].isBlockTailCall = TRUE])
IgnoreNextSectionOP(c) == Edit(c, [Current(c) EXCEPT !.isIgnoreNextSectionOP = TRUE])
PushSection(c) == Edit(c, PushSectionTo(Current(c)))
PopSection(c)  == Edit(c, PopSectionFrom(Current(c)))

PushSlots(c) ==
    Emit(Edit(c, [Current(c) EXCEPT !.slotIP = Ip(Current(c))]), "Slots", Uint16(0))

\* pushError(): the Error OP goes to main, past its sections.
PushError(c) == [c EXCEPT !.subs[1].ops = @ \o <<"Error">> \o Uint16(0)]

ThrowAt(c, what) == [c EXCEPT !.thrown = IF @ = "" THEN what ELSE @]

\* A new subroutine, not yet being filled; pushSubroutine() and, for one
\* without a name, pushSubroutineNameLess().
AddSubroutine(c, name, nameAddress) == [c EXCEPT !.subs = Append(@, Subroutine(name, nameAddress))]
Enter(c, index) == [c EXCEPT !.act = Append(@, index)]
PushSubroutineNameLess(c) == Enter(AddSubroutine(c, "", 0), Len(c.subs) + 1)

\* popSubroutine(): close, optimise, Return.  Return bypasses the sections.
PopSubroutine(c) ==
    LET s == Current(c)
        t == Optimise([s EXCEPT !.sections[s.activeSection].end = Ip(s)])
        d == IF s.ops = <<>> THEN ThrowAt(c, "Routine is empty") ELSE c
    IN  [Edit(d, [t EXCEPT !.ops = Append(@, "Return")]) EXCEPT !.act = Front(@)]

\* pushSymbol(): every symbol but a TypeVariable is declared once per subroutine.
Declared(c, name, type) ==
    {i \in DOMAIN Current(c).symbols : type # "TypeVariable" /\ Current(c).symbols[i].name = name}

PushSymbol(c, name, type) ==
    LET s == Current(c)
        known == Declared(c, name, type)
    IN  IF known # {}
        THEN Edit(c, [s EXCEPT !.symbols[Min(known)].declarations = @ + 1])
        ELSE Edit(c, [s EXCEPT !.symbols = Append(@, Symbol(name, type, Len(@))),
                               !.slots = IF type = "TypeVariable" THEN @ + 1 ELSE @])

\* pushSymbolForRoutine() of a name seen for the first time.
PushSymbolForRoutine(c, name, type) ==
    LET d == RegisterStorage(AddSubroutine(PushSymbol(c, name, type), name, StorageEnd(c.storage)), name)
    IN  [d EXCEPT !.subs[Last(d.act)].symbols[Len(Current(d).symbols)].routine = Len(d.subs)]

\* restoreSymbolCheckout() marks symbols inactive in a copy of the list.
RestoreSymbolCheckout(c) == c

\* findSymbol(): innermost subroutine first, latest symbol first.
FindSymbol(c, name) ==
    LET has(d) == {i \in DOMAIN c.subs[c.act[d]].symbols : c.subs[c.act[d]].symbols[i].name = name}
        where  == {d \in DOMAIN c.act : has(d) # {}}
    IN  IF where = {} THEN Absent
        ELSE LET d == Max(where)
             IN  [k |-> "found", symbol |-> c.subs[c.act[d]].symbols[Max(has(d))],
                  offset |-> Len(c.act) - d]
-----------------------------------------------------------------------------
(* Compiler::handle *)

RECURSIVE Handle(_, _)

HandleAll(c, nodes) == FoldLeft(LAMBDA acc, n : Handle(n, acc), c, nodes)

\* Identifier: the name of a variable, function or class.
HandleIdentifier(n, c) ==
    LET f == FindSymbol(c, n.name) IN
    IF f = Absent THEN PushError(Emit(c, "Never", <<>>))
    ELSE IF f.symbol.type \in {"TypeArgument", "TypeVariable"}
    THEN Emit(c, "Loads", Uint16(f.offset) \o Uint16(f.symbol.index))
    ELSE Emit(HandleAll(c, n.args), "Call", Uint32(f.symbol.routine) \o Uint16(Len(n.args)))

\* The same for a name of a type, which is noted where it is a type argument.
HandleTypeReference(n, c) ==
    LET f == FindSymbol(c, n.name)
        d == HandleIdentifier(n, c)
        s == Current(d)
    IN  IF f = Absent \/ f.symbol.type # "TypeArgument" THEN d
        ELSE Edit(d, [s EXCEPT !.sections[s.activeSection].usages =
                          RegisterTypeArgumentUsage(@, f.symbol.index, Ip(s))])

\* The part of a conditional type before its condition when it distributes
\* over a name: load it, declare the variable, Distribute.
HandleDistribute(n, c) ==
    LET d == PushSymbol(BlockTailCall(Handle(n.check, c)), n.check.name, "TypeVariable")
    IN  Emit(d, "Distribute", Uint16(Last(Current(d).symbols).index) \o Uint32(0))

HandleConditionalType(n, c) ==
    LET distributive == n.check.k = "ref"
        c1 == IF distributive THEN HandleDistribute(n, PushSection(c)) ELSE PushSection(c)
        distributeJumpIp == Ip(Current(c1)) - 6
        c2 == Emit(Handle(n.ext, Handle(n.check, c1)), "Extends", <<>>)
        c3 == Emit(c2, "JumpCondition", Uint32(0))
        relativeTo == Ip(Current(c3)) - 4
        c4 == PopSection(RestoreSymbolCheckout(Handle(n.yes, PushSection(c3))))
        c5 == Emit(IgnoreNextSectionOP(c4), "Jump", Uint32(0))
        trueJumpAddressIp == Ip(Current(c5)) - 4
        falseProgram == Ip(Current(c5)) + 1
        c6 == PopSection(Handle(n.no, PushSection(c5)))
        falseEndIp == Ip(Current(c6))
        c7 == Patch(Patch(c6, relativeTo, falseProgram - relativeTo),
                    trueJumpAddressIp, falseEndIp - trueJumpAddressIp + 1)
        c8 == Patch(IgnoreNextSectionOP(c7), distributeJumpIp + 2, falseEndIp - distributeJumpIp + 6)
        c9 == IF distributive
              THEN Emit(c8, "Jump", Uint32(-((falseEndIp + 1) - distributeJumpIp)))
              ELSE IgnoreNextSectionOP(c7)
    IN  RestoreSymbolCheckout(PopSection(c9))

\* The OPs of the modifiers a member has.
EmitFlags(c, flags) ==
    FoldLeft(LAMBDA acc, op : IF op \in flags THEN Emit(acc, op, <<>>) ELSE acc, c,
             <<"Optional", "Readonly", "Static">>)

\* One element of a tuple type or an array literal, `rest` for ...T.
HandleTupleElement(e, c) ==
    LET d == Handle(e.t, c)
    IN  EmitFlags(Emit(IF e.rest THEN Emit(d, "Rest", <<>>) ELSE d, "TupleMember", <<>>), e.flags)

PushName(c, name) == IF name = "" THEN Emit(c, "Never", <<>>) ELSE EmitText(c, "StringLiteral", name)

\* PropertySignature and PropertyAssignment.
HandlePropertySignature(m, c) ==
    LET d == IF m.t = Absent THEN Emit(c, "Any", <<>>) ELSE Handle(m.t, c)
    IN  EmitFlags(Emit(PushName(d, m.name), "PropertySignature", <<>>), m.flags)

\* The texts of a template are pushed unless they are empty.
PushTemplateText(c, text) == IF text = "" THEN c ELSE EmitText(c, "StringLiteral", text)

HandleTemplateLiteralType(n, c) ==
    LET spans == FoldLeft(LAMBDA acc, s : PushTemplateText(Handle(s.t, acc), s.text),
                          PushTemplateText(c, n.head), n.spans)
        texts == <<n.head>> \o [i \in DOMAIN n.spans |-> n.spans[i].text]
    IN  Emit(spans, "TemplateLiteral",
             Uint16(Len(n.spans) + Len(SelectSeq(texts, LAMBDA x : x # ""))))

HandleTypeParameter(p, c) ==
    LET d    == PushSymbol(c, p.name, "TypeArgument")
        dflt == Len(d.subs) + 1
        e    == IF p.default = Absent THEN Emit(d, "TypeArgument", <<>>)
                ELSE Emit(PopSubroutine(Handle(p.default, PushSlots(PushSubroutineNameLess(d)))),
                          "TypeArgumentDefault", Uint32(dflt))
    IN  IF p.constraint = Absent THEN e
        ELSE Emit(Handle(p.constraint, e), "TypeArgumentConstraint", <<>>)

HandleTypeParameters(c, ps) == FoldLeft(LAMBDA acc, p : HandleTypeParameter(p, acc), c, ps)

HandleTypeAliasDeclaration(n, c) ==
    IF Declared(c, n.name, "Type") # {} THEN PushSymbol(c, n.name, "Type")
    ELSE LET d == PushSymbolForRoutine(c, n.name, "Type")
             e == Enter(d, Len(d.subs))
             f == HandleTypeParameters(IF n.params = <<>> THEN BlockTailCall(e) ELSE e, n.params)
         IN  PopSubroutine(Handle(n.t, PushSlots(f)))

HandleVariableDeclaration(n, c) ==
    IF Declared(c, n.name, "Variable") # {} THEN PushSymbol(c, n.name, "Variable")
    ELSE LET d     == PushSymbolForRoutine(c, n.name, "Variable")
             index == Len(d.subs)
             typed == PopSubroutine(Handle(n.t, PushSlots(BlockTailCall(Enter(d, index)))))
             init  == Handle(n.init, PushSlots(Enter(d, index)))
             inferred == PopSubroutine(IF n.const THEN init ELSE Emit(init, "Widen", <<>>))
             done  == IF n.t # Absent
                      THEN IF n.init = Absent THEN typed
                           ELSE Emit(Emit(Handle(n.init, typed), "Call", Uint32(index) \o Uint16(0)),
                                     "Assign", <<>>)
                      ELSE IF n.init = Absent
                           THEN PopSubroutine(Emit(PushSlots(Enter(d, index)), "Any", <<>>))
                           ELSE IF n.const THEN inferred
                                ELSE Emit(Handle(n.init, inferred), "Set", Uint32(index))
         IN  Emit(done, "SelfCheck", Uint32(index))

HandleParameter(p, c) ==
    LET typed == EmitText(IF p.t = Absent THEN Emit(c, "Unknown", <<>>) ELSE Handle(p.t, c), "Parameter", p.name)
        d     == IF p.optional THEN Emit(typed, "Optional", <<>>) ELSE typed
    IN  IF p.init = Absent THEN d ELSE Emit(Handle(p.init, d), "Initializer", <<>>)

\* The return type: the declared one, or what the body returns, which a
\* subroutine of its own computes.  bodyAddress is not initialised if there is
\* no body; n.junk says whether it is by chance not 0.
PushBodyType(n, c) ==
    LET bodyAddress == IF n.body = Absent THEN NoRoutine ELSE Len(c.subs) + 1
        body == Handle(n.body, Emit(PushSubroutineNameLess(c), "TypeArgument", <<>>))
        d    == IF n.body = Absent THEN c
                ELSE PopSubroutine(Emit(Emit(body, "Loads", Uint16(0) \o Uint16(0)), "UnwrapInferBody", <<>>))
        hasAddress == n.body # Absent \/ n.junk
    IN  IF n.t # Absent
        THEN IF hasAddress THEN Emit(Handle(n.t, d), "CheckBody", Uint32(bodyAddress)) ELSE Handle(n.t, d)
        ELSE IF hasAddress THEN Emit(d, "InferBody", Uint32(bodyAddress)) ELSE Emit(d, "Unknown", <<>>)

\* FunctionRef and ClassRef: two addresses are written, process() reads one.  The
\* bytes of the other are then executed; the first is the number of an OP.
EmitRef(c, op, address, inferTypes) ==
    Emit(c, op, Uint32(address) \o <<OP[inferTypes], "Noop", "Noop", "Noop">>)

\* pushFunction(): a function with type parameters is a subroutine that takes
\* them, next to one that would infer them.
PushFunction(op, n, c) ==
    LET function(d) ==
            Emit(PushName(FoldLeft(LAMBDA acc, p : HandleParameter(p, acc), PushBodyType(n, d), n.ps), n.name),
                 op, Uint16(1 + Len(n.ps)))
        definition == PopSubroutine(function(PushSlots(HandleTypeParameters(PushSubroutineNameLess(c), n.tps))))
        inferring  == PopSubroutine(Emit(PushSubroutineNameLess(definition), "InferTypeArguments", <<>>))
    IN  IF n.tps = <<>> THEN function(c)
        ELSE EmitRef(inferring, "FunctionRef", Len(c.subs) + 1, Len(definition.subs) + 1)

HandleFunctionDeclaration(n, c) ==
    IF Declared(c, n.function.name, "Function") # {} THEN PushSymbol(c, n.function.name, "Function")
    ELSE LET d == PushSymbolForRoutine(c, n.function.name, "Function")
         IN  PopSubroutine(PushFunction("Function", n.function, PushSlots(Enter(d, Len(d.subs)))))

\* A member of a class other than a method is not handled, but counted.
HandleMember(m, c) ==
    IF m.k = "method" THEN EmitFlags(PushFunction("Method", m.function, c), m.flags) ELSE c

HandleClassDeclaration(n, c) ==
    LET d == PushSymbolForRoutine(c, n.name, "Class")
        entered == BlockTailCall(Enter(d, Len(d.subs)))
        class(e) == Emit(FoldLeft(LAMBDA acc, m : HandleMember(m, acc), PushSlots(e), n.ms),
                         "Class", Uint16(Len(n.ms)))
        definition == PopSubroutine(class(HandleTypeParameters(BlockTailCall(PushSubroutineNameLess(entered)), n.tps)))
        inferring  == PopSubroutine(Emit(HandleTypeParameters(PushSubroutineNameLess(definition), n.tps),
                                         "InferTypeArguments", <<>>))
    IN  IF Declared(c, n.name, "Class") # {} THEN ThrowAt(c, "Nope")
        ELSE PopSubroutine(IF n.tps = <<>> THEN class(entered)
                           ELSE EmitRef(inferring, "ClassRef", Len(d.subs) + 1, Len(definition.subs) + 1))

\* e<types>: the type arguments come before what is instantiated.
HandleExpressionWithTypeArguments(e, types, c) ==
    Emit(Handle(e, HandleAll(c, types)), "Instantiate", Uint16(Len(types)))

\* new e<types>(args) and e<types>(args): the arguments come first.
HandleNewExpression(n, c) ==
    LET arguments == Uint16(Len(n.args))
        d == HandleAll(c, n.args)
    IN  Emit(IF n.types # <<>> THEN HandleExpressionWithTypeArguments(n.e, n.types, d)
             ELSE IF n.args = <<>> THEN Handle(n.e, d)
             ELSE Emit(Handle(n.e, d), "StartInferTypeArguments", arguments),
             "New", arguments)

HandleCallExpression(n, c) ==
    LET arguments == Uint16(Len(n.args))
        d == HandleAll(c, n.args)
    IN  Emit(IF n.types # <<>> THEN HandleExpressionWithTypeArguments(n.e, n.types, d)
             ELSE Emit(Handle(n.e, d), "StartInferTypeArguments", arguments),
             "CallExpression", arguments)

\* Both branches of an expression, or of an if statement; conditions are not looked at.
HandleConditionalExpression(n, c) == Emit(Handle(n.yes, Handle(n.no, c)), "Union", Uint16(2))
HandleIfStatement(n, c) == LET d == Handle(n.yes, c) IN IF n.no = Absent THEN d ELSE Handle(n.no, d)

HandleReturnStatement(n, c) ==
    IF n.e = Absent THEN ThrowAt(c, "null pointer") ELSE Emit(Handle(n.e, c), "ReturnStatement", <<>>)

\* `name = right;`, an expression statement: its result is popped.
HandleAssignment(n, c) ==
    LET f == FindSymbol(c, n.name) IN
    Emit(IF f = Absent THEN PushError(Emit(c, "Never", <<>>))
         ELSE Emit(Handle(n.right, c), "Set", Uint32(f.symbol.routine)),
         "Pop", <<>>)

HandleObject(n, c) ==
    Emit(FoldLeft(LAMBDA acc, m : HandlePropertySignature(m, acc), c, n.ms), "ObjectLiteral", Uint16(Len(n.ms)))
HandleTuple(n, c) ==
    Emit(FoldLeft(LAMBDA acc, e : HandleTupleElement(e, acc), c, n.els), "Tuple", Uint16(Len(n.els)))
HandleArrayType(n, c) == Emit(Handle(n.t, c), "Array", <<>>)
HandlePropertyAccess(n, c) == Emit(PushName(Handle(n.e, c), n.name), "PropertyAccess", <<>>)
HandleExpressionStatement(n, c) == Emit(Handle(n.e, c), "Pop", <<>>)

Handle(n, c) ==
    CASE n.k = "kw"       -> Emit(c, n.op, <<>>)
      [] n.k = "literal"  -> EmitText(c, n.op, n.text)
      [] n.k = "ref"      -> HandleTypeReference(n, c)
      [] n.k = "ident"    -> HandleIdentifier(n, c)
      [] n.k = "paren"    -> Handle(n.e, c)
      [] n.k = "template" -> HandleTemplateLiteralType(n, c)
      [] n.k = "function" -> PushFunction("Function", n, c)
      [] n.k = "choice"   -> HandleConditionalExpression(n, c)
      [] n.k = "property" -> HandlePropertyAccess(n, c)
      [] n.k = "new"      -> HandleNewExpression(n, c)
      [] n.k = "call"     -> HandleCallExpression(n, c)
      [] n.k = "union"    -> Emit(HandleAll(c, n.ts), "Union", Uint16(Len(n.ts)))
      [] n.k = "instantiate" -> HandleExpressionWithTypeArguments(n.e, n.types, c)
      [] n.k = "tuple"    -> HandleTuple(n, c)
      [] n.k = "object"   -> HandleObject(n, c)
      [] n.k = "array"    -> HandleArrayType(n, c)
      [] n.k = "index"    -> Emit(Handle(n.i, Handle(n.o, c)), "IndexAccess", <<>>)
      [] n.k = "length"   -> Emit(Handle(n.o, c), "Length", <<>>)
      [] n.k = "cond"     -> HandleConditionalType(n, c)
      [] n.k = "alias"    -> HandleTypeAliasDeclaration(n, c)
      [] n.k = "variable" -> HandleVariableDeclaration(n, c)
      [] n.k = "assign"   -> HandleAssignment(n, c)
      [] n.k = "declaration" -> HandleFunctionDeclaration(n, c)
      [] n.k = "class"    -> HandleClassDeclaration(n, c)
      [] n.k = "expression" -> HandleExpressionStatement(n, c)
      [] n.k = "return"   -> HandleReturnStatement(n, c)
      [] n.k = "if"       -> HandleIfStatement(n, c)
      [] n.k = "block"    -> HandleAll(c, n.ss)

\* Program::Program(): main is the active subroutine, the storage is empty.
EmptyProgram == [subs |-> <<Subroutine("", 0)>>, act |-> <<1>>, storage |-> <<>>, thrown |-> ""]

\* compileSourceFile(): all statements into main, which ends in Return too.
CompileSourceFile(statements) == PopSubroutine(HandleAll(EmptyProgram, statements))

\* Program::build(): a Jump over the storage, the storage, an empty source map,
\* the table of the subroutines, and their code, each slot count written behind
\* its Slots OP.
StorageCells(text) ==
    <<text>> \o [i \in 1..(HashSize - 1) |-> 0] \o Uint16(Len(text)) \o [i \in 1..Len(text) |-> SubSeq(text, i, i)]

SubroutineEntrySize == 1 + 4 + 4 + 1

Code(s) == IF s.slots = 0 THEN s.ops ELSE [s.ops EXCEPT ![s.slotIP + 2] = s.slots]

Build(program) ==
    LET subs   == program.subs
        header == <<"Jump">> \o Uint32(StorageEnd(program.storage))
                  \o FlattenSeq([i \in DOMAIN program.storage |-> StorageCells(program.storage[i])])
                  \o <<"SourceMap">> \o Uint32(0)
        first  == Len(header) + Len(subs) * SubroutineEntrySize + 1
        address(i) == FoldLeft(LAMBDA n, s : n + Len(s.ops), first, SubSeq(subs, 1, i - 1))
    IN  header
        \o FlattenSeq([i \in DOMAIN subs |-> <<"Subroutine">> \o Uint32(subs[i].nameAddress)
                                             \o Uint32(address(i)) \o <<0>>])
        \o <<"Main">> \o FlattenSeq([i \in DOMAIN subs |-> Code(subs[i])])
=============================================================================
