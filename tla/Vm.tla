--------------------------------- MODULE Vm ---------------------------------
(***************************************************************************)
(* The type VM (checker/vm2.cpp, checker/vm2.h): process() executes the    *)
(* bytecode of a compiled source file on a stack of types, one action per  *)
(* OP.  Subroutines run in frames that are reused, distributive            *)
(* conditional types in loops that are reused, and the result of a         *)
(* subroutine without type arguments is cached on it.                      *)
(*                                                                         *)
(* Stack positions count from 1, so that sp is the position of the top.    *)
(***************************************************************************)
EXTENDS Templates, Bytecode

CONSTANTS Sources,     \* the source files: sequences of statement trees
          MaxStack,    \* cells of `stack`
          MaxFrames,   \* entries of activeSubroutines
          MaxLoops,    \* entries of loops
          MaxRuns      \* how often a caller runs the module

ASSUME VmAssumption == MaxStack \in Nat /\ MaxFrames \in Nat \ {0} /\ MaxLoops \in Nat /\ MaxRuns \in Nat

LOCAL S == INSTANCE TypeSemantics

VARIABLES
    source,      \* the source file being run
    module,      \* its binary: [bin, subroutines, printed], the last what parseBin() prints
    meaning,     \* what the reference semantics says: [types, errors, narrowed]
    heap,        \* pool, poolRef and the types in them
    stack, sp,
    frames,      \* activeSubroutines, entry 1 is main
    fi,          \* index of the active frame
    loops, li,   \* LoopHelper entries and the number in use
    result,      \* ModuleSubroutine::result
    narrowed,    \* ModuleSubroutine::narrowed
    errors,      \* number of reported diagnostics
    runs,        \* how often run() was called
    phase        \* "run"ning, "done", or "cleared" by the caller

program == <<source, module, meaning, runs>>
vars == <<program, heap, stack, sp, frames, fi, loops, li, result, narrowed, errors, phase>>

Routines == DOMAIN module.subroutines
Cells == 1..MaxStack

\* `arguments` is not in the code: how many arguments the frame was entered with.
NoFrame == [ip |-> 0, sub |-> 1, initialSp |-> 0, variables |-> 0, typeArguments |-> 0,
            loop |-> Null, inferBody |-> FALSE, arguments |-> 0]
NoLoop  == [of |-> Null, current |-> <<>>, ip |-> 0, startSP |-> 0, var1 |-> 0, previous |-> Null]

NoMeaning == [kind |-> "none"]
Unspecified == -1

\* The declaration without type parameters that `name` stands for, evaluated.
MeaningOf(name, statements) ==
    LET is == {i \in DOMAIN statements : /\ statements[i].name = name
                                         /\ statements[i].k \in {"alias", "variable", "declaration", "class"}
                                         /\ statements[i].k = "alias" => statements[i].params = <<>>}
    IN  IF is = {} THEN NoMeaning ELSE S!Meaning(statements[Min(is)], statements)

\* run(): pools cleared, stack empty, prepare() reads the header and enters main.
Init ==
    /\ source \in Sources
    /\ \E compiled \in {CompileSourceFile(source)} : \E bin \in {Build(compiled)} : \E subs \in {ParseHeader(bin)} :
       /\ module = [bin |-> bin, subroutines |-> subs, printed |-> ParseBin(bin)]
       /\ frames = [f \in 1..MaxFrames |-> IF f = 1 THEN [NoFrame EXCEPT !.ip = subs[1].address] ELSE NoFrame]
       /\ heap = Fault(EmptyHeap, compiled.thrown)
       /\ LET narrows == S!Narrowed(source)
              names == [r \in DOMAIN subs |-> subs[r].name]
          IN  meaning = IF ~S!Described(source)
                        THEN [errors |-> Unspecified, types |-> [r \in DOMAIN subs |-> NoMeaning],
                              narrowed |-> [r \in DOMAIN subs |-> NoMeaning]]
                        ELSE [errors |-> S!ExpectedErrors(source),
                              types  |-> [r \in DOMAIN subs |-> MeaningOf(names[r], source)],
                              narrowed |-> [r \in DOMAIN subs |->
                                               IF names[r] \in DOMAIN narrows THEN narrows[names[r]] ELSE NoMeaning]]
       /\ result = [r \in DOMAIN subs |-> Null]
       /\ narrowed = [r \in DOMAIN subs |-> Null]
    /\ stack = [c \in Cells |-> Null] /\ sp = 0
    /\ fi = 1
    /\ loops = [l \in 1..MaxLoops |-> NoLoop] /\ li = 0
    /\ errors = 0 /\ runs = 1 /\ phase = "run"
-----------------------------------------------------------------------------
(* Reading the state *)

Frame == frames[fi]
Op == module.bin[Frame.ip + 1]
Param(offset) == module.bin[Frame.ip + 2 + offset]   \* behind the OP byte

\* The text in the storage at an address, and its hash.
Text(address) == ReadStorage(module.bin, address).text

Type(t) == heap.types[t]
Top == stack[sp]

\* The n topmost entries, bottom first.
Topmost(n) == [i \in 1..n |-> stack[sp - n + i]]

\* The cell of variable i of frame f.
Cell(f, i) == f.initialSp + i + 1

MaxAllocations == 8     \* types a single OP allocates

\* How many entries the OP at ip pops.
Operands ==
    CASE Op \in {"Pop", "Array", "Rest", "RestReuse", "TupleMember", "Length", "JumpCondition", "Set", "Parameter",
                 "ReturnStatement", "UnwrapInferBody", "StartInferTypeArguments", "New",
                 "TypeArgumentConstraint"} -> 1
      [] Op \in {"Assign", "Extends", "IndexAccess", "PropertyAccess", "PropertySignature"} -> 2
      [] Op \in {"Union", "Tuple", "ObjectLiteral", "TemplateLiteral", "Class"} -> Param(0)
      [] Op \in {"CallExpression", "Function", "Method", "Instantiate"} -> Param(0) + 1
      [] OTHER -> 0

\* process() goes on; the bounds of the model are not reached.
Running == /\ phase = "run" /\ heap.fault = ""
           /\ sp < MaxStack /\ fi < MaxFrames /\ li < MaxLoops
           /\ HasFresh(heap, MaxAllocations)

\* The operands are there: above the start of the stack, and written.
HasOperands == Operands <= sp /\ (Operands > 0 => Top # Null)

Runs(op) == Running /\ Op = op /\ HasOperands

\* StackPool: the entries stay where they are, only the index moves.
Pushed(i) == i + 1
Popped(i) == i - 1

\* Go on w bytes further in the active frame.
Step(w) == frames' = [frames EXCEPT ![fi].ip = @ + w] /\ fi' = fi

\* Replace the n topmost entries by the sequence ts.
Replace(n, ts) ==
    /\ sp' = sp - n + Len(ts)
    /\ stack' = [c \in Cells |-> IF c \in (sp - n + 1)..(sp - n + Len(ts)) THEN ts[c - (sp - n)]
                                 ELSE stack[c]]

KeepLoops == UNCHANGED <<loops, li>>
KeepRoutines == UNCHANGED <<result, narrowed>>

\* An OP that works on the operands and the heap only: pops n, pushes ts, and
\* reports errors.
OperateAndReport(n, ts, h, w, reports) ==
    /\ heap' = h
    /\ Replace(n, ts)
    /\ Step(w)
    /\ errors' = errors + reports
    /\ KeepLoops /\ KeepRoutines
    /\ UNCHANGED <<program, phase>>

Operate(n, ts, h, w) == OperateAndReport(n, ts, h, w, 0)

\* The process ends with an exception or an invalid access.
Throw(h, what) == Operate(0, <<>>, Fault(h, what), 0)

\* pop() below the stack, or of a cell that was never written.
Underflow == Running /\ ~HasOperands /\ Throw(heap, "no operand")
-----------------------------------------------------------------------------
(* Types without parts *)

KeywordOps == DOMAIN KeywordHash
LiteralOps == {"NumberLiteral", "StringLiteral"}
BooleanOps == {"True", "False"}

PushKeyword(op) == /\ Runs(op)
                   /\ Operate(0, <<Fresh(heap)>>, Allocate(heap, NewType(op, KeywordHash[op])), 1)

PushLiteral(op) ==
    /\ Runs(op)
    /\ Operate(0, <<Fresh(heap)>>,
               Allocate(heap, [NewType("Literal", Text(Param(0))) EXCEPT !.flags = {op}]), 5)

PushBoolean(op) ==
    /\ Runs(op)
    /\ Operate(0, <<Fresh(heap)>>,
               Allocate(heap, [NewType("Literal", "") EXCEPT !.flags = {op}]), 1)
-----------------------------------------------------------------------------
(* Types with parts *)

\* Array, Rest, RestReuse, TupleMember: own the popped type.
WrapOps == {"Array", "Rest", "RestReuse", "TupleMember"}

Wrap(op) ==
    /\ Runs(op)
    /\ LET type == [NewType(IF op = "RestReuse" THEN "Rest" ELSE op, "") EXCEPT
                       !.kids = <<Top>>, !.flags = {op} \cap {"RestReuse"}]
       IN  Operate(1, <<Fresh(heap)>>, Allocate(Use(heap, Top), type), 1)

\* The popped name and property type become a list of two.
PropertySignature ==
    /\ Runs("PropertySignature")
    /\ LET name == Top
           kids == <<name, stack[sp - 1]>>
       IN  Operate(2, <<Fresh(heap)>>,
                   Allocate(UseAllAsRef(heap, kids),
                            [NewType("PropertySignature", Type(name).hash) EXCEPT !.kids = kids]), 1)

MaxList == 5      \* members without a hash table

ObjectLiteral ==
    /\ Runs("ObjectLiteral")
    /\ LET kids == Topmost(Param(0))
           type == [NewType("ObjectLiteral", "object") EXCEPT !.kids = kids, !.size = Len(kids)]
           h    == Allocate(UseAllAsRef(heap, kids), type)
       IN  Operate(Len(kids), <<Fresh(heap)>>,
                   IF Len(kids) > MaxList THEN WithTable(h, Fresh(heap), Len(kids), kids) ELSE h, 3)

\* The hash table of a union.  The members of a nested union are read once more
\* after it was collected: they are gone if a queue was flushed meanwhile.
UnionTable(h, u, size, nested) == With(h, LAMBDA g :
    LET collected == {t \in nested : "Deleted" \in g.types[t].flags}
        refs == FoldLeft(LAMBDA n, t : n + Len(Type(t).kids) + CollisionRefs(Type(t).table), 0, SetToSeq(collected))
    IN  IF size <= MaxList THEN g
        ELSE IF ~(collected \subseteq Range(g.queue)) \/ g.refQueued < refs
        THEN Fault(g, "read of a flushed type")
        ELSE WithTable(g, u, size, g.types[u].kids))

\* Members of a nested union are taken over, the nested union is collected.  Behind
\* an empty union in front there is no list to link the next member to.
Union ==
    /\ Runs("Union")
    /\ LET ts     == Topmost(Param(0))
           nested == SelectSeq(ts, LAMBDA t : Type(t).kind = "Union")
           taken(t) == IF Type(t).kind = "Union" THEN Type(t).kids ELSE <<t>>
           kids   == FlattenSeq([i \in DOMAIN ts |-> taken(ts[i])])
           size   == FoldLeft(LAMBDA n, t : n + Type(t).size - 1, Len(ts), nested)
           u      == Fresh(heap)
           h      == UseAllAsRef(Allocate(heap, [NewType("Union", "") EXCEPT !.size = size]), kids)
       IN  Operate(Len(ts), <<u>>,
                   IF kids # <<>> /\ taken(ts[1]) = <<>> THEN Fault(h, "null pointer")
                   ELSE UnionTable(GcAll([h EXCEPT !.types[u].kids = kids], nested), u, size, Range(nested)), 3)

\* Variant: members are linked in front of those already there.
PrependKids(h, t, kids) ==
    [UseAllAsRef(h, kids) EXCEPT !.types[t].kids = kids \o @, !.types[t].size = @ + Len(kids)]

AppendKids(h, t, kids) ==
    [UseAllAsRef(h, kids) EXCEPT !.types[t].kids = @ \o kids, !.types[t].size = @ + Len(kids)]

\* Variant: reuse without asking for other owners.
StealsShared(rest, T) == "RestReuse" \in Type(rest).flags /\ "Stored" \notin Type(rest).flags

\* [...T, ...]: T itself becomes the new tuple if only the type argument and
\* the Rest own it and the compiler allowed it, otherwise its members are shared.
Steals(rest, T) ==
    /\ Type(T).refCount = 2
    /\ "RestReuse" \in Type(rest).flags /\ "Stored" \notin Type(rest).flags

\* The tuple of the first element and the heap after the element is consumed.
TupleOfFirst(member) ==
    LET rest == Type(member).kids[1]
        T    == Type(rest).kids[1]
        item == Fresh(heap)
        new  == Allocate(heap, NewType("Tuple", ""))
    IN  IF Type(rest).kind # "Rest" THEN [item |-> item, heap |-> AppendKids(new, item, <<member>>)]
        ELSE IF Type(T).kind = "Tuple" /\ Steals(rest, T)
        THEN [item |-> T, heap |-> Gc(heap, member)]
        ELSE [item |-> item,
              heap |-> Gc(IF Type(T).kind = "Tuple" THEN AppendKids(new, item, Type(T).kids) ELSE new,
                          member)]

\* A later element: ...T appends behind the last member, which must exist.
AddElement(acc, item, member) == With(acc, LAMBDA h :
    LET rest == h.types[member].kids[1]
        T    == h.types[h.types[rest].kids[1]]
    IN  IF h.types[rest].kind # "Rest" THEN AppendKids(h, item, <<member>>)
        ELSE IF T.kind # "Tuple" THEN Gc(h, member)
        ELSE IF h.types[item].kids = <<>> /\ T.kids # <<>> THEN Fault(h, "null pointer")
        ELSE Gc(AppendKids(h, item, T.kids), member))

Tuple ==
    /\ Runs("Tuple")
    /\ LET ts == Topmost(Param(0))
           rests == {i \in DOMAIN ts : Type(Type(ts[i]).kids[1]).kind = "Rest"}
           first == TupleOfFirst(ts[1])
       IN  IF ts = <<>>
           THEN Operate(0, <<Fresh(heap)>>, Allocate(heap, NewType("Tuple", "")), 3)
           ELSE IF \E i \in rests : Type(Type(Type(ts[i]).kids[1]).kids[1]).kind = "Array"
           THEN Throw(heap, "assigning array rest in tuple not supported")
           ELSE Operate(Len(ts), <<first.item>>,
                        FoldLeft(LAMBDA h, m : AddElement(h, first.item, m), first.heap, Tail(ts)), 3)
-----------------------------------------------------------------------------
(* Operations on types *)

Pop == Runs("Pop") /\ Operate(1, <<>>, Gc(heap, Top), 1)

\* left extends right: a boolean literal; both operands are collected.
ExtendsOp ==
    /\ Runs("Extends")
    /\ LET right == Top
           left  == stack[sp - 1]
           valid == IF Extends(heap, left, right) THEN "True" ELSE "False"
           h     == Allocate(heap, [NewType("Literal", "") EXCEPT !.flags = {"BooleanLiteral", valid}])
       IN  Operate(2, <<Fresh(heap)>>, GcAll(h, <<right, left>>), 1)

\* Variant: the size of a tuple is not read.
LengthOfNothing(container) == [NewType("Literal", "0") EXCEPT !.flags = {"NumberLiteral"}]

LengthOf(container) ==
    [NewType("Literal", IF container.kind = "Tuple" THEN ToString(container.size) ELSE "0")
        EXCEPT !.flags = {"NumberLiteral"}]

Length == /\ Runs("Length")
          /\ Operate(1, <<Fresh(heap)>>, Gc(Allocate(heap, LengthOf(Type(Top))), Top), 1)

\* resolveObjectIndexType(): the member of that name, of a class only a static one.
Members(object, index) ==
    LET container == IF Type(object).kind = "ClassInstance" THEN Type(object).kids[1] ELSE object
        found == FindChild(heap, container, Type(index).hash)
    IN  IF found = <<>> THEN <<>>
        ELSE SelectSeq(<<found[1]>>, LAMBDA m :
                 /\ Type(m).kind \in {"PropertySignature", "Method"}
                 /\ Type(object).kind = "Class" => "Static" \in Type(m).flags)

\* indexAccess(): the member itself, a new type, or an exception; the operands
\* are collected.
Access(container, index, collected) ==
    LET c == Type(container)
        i == Type(index)
        push(type) == Operate(2, <<Fresh(heap)>>, GcAll(Allocate(heap, type), collected), 1)
        isObject == c.kind \in {"ObjectLiteral", "Class", "ClassInstance"}
    IN  CASE c.kind = "Tuple" /\ i.hash = "length" -> push(LengthOf(c))
          [] \/ c.kind = "Tuple" /\ i.hash # "length"
             \/ c.kind = "Array"
             \/ isObject /\ i.kind = "Union" -> Throw(heap, "Not implemented")
          [] isObject /\ i.kind = "Literal" /\ Members(container, index) # <<>> ->
                Operate(2, Members(container, index), GcAll(heap, collected), 1)
          [] OTHER -> push(NewType("Never", ""))

IndexAccess ==
    Runs("IndexAccess") /\ LET left == stack[sp - 1] IN Access(left, Top, <<left, Top>>)

PropertyAccess ==
    /\ Runs("PropertyAccess")
    /\ LET container == stack[sp - 1] IN
       IF Type(container).kind \in {"Class", "ClassInstance"} THEN Access(container, Top, <<Top, container>>)
       ELSE Throw(heap, "Property access not supported")

\* Assign: the initializer against the declared type, a diagnostic if it does not fit.
Assign ==
    /\ Runs("Assign")
    /\ LET rvalue == Top
           lvalue == stack[sp - 1]
       IN  OperateAndReport(2, <<>>, GcAll(heap, <<lvalue, rvalue>>), 1,
                            IF Extends(heap, lvalue, rvalue) THEN 0 ELSE 1)

\* Variant: the first value stays.
SetOnce ==
    /\ Runs("Set")
    /\ LET r == Param(0) IN
       IF narrowed[r] # Null THEN UNCHANGED <<heap, narrowed>>
       ELSE heap' = Use(heap, Top) /\ narrowed' = [narrowed EXCEPT ![r] = Top]
    /\ Step(5)
    /\ KeepLoops /\ UNCHANGED <<program, stack, sp, result, errors, phase>>

\* Set: the narrowed type of a variable is replaced.
Set ==
    /\ Runs("Set")
    /\ LET r == Param(0) IN
       /\ heap' = Use(Drop(heap, narrowed[r]), Top)
       /\ narrowed' = [narrowed EXCEPT ![r] = Top]
    /\ Step(5)
    /\ KeepLoops /\ UNCHANGED <<program, stack, sp, result, errors, phase>>

Error == Runs("Error") /\ OperateAndReport(0, <<>>, heap, 3, 1)
-----------------------------------------------------------------------------
(* Control *)

Jump == Runs("Jump") /\ Operate(0, <<>>, heap, Param(0))

JumpCondition ==
    /\ Runs("JumpCondition")
    /\ Operate(1, <<>>, Gc(heap, Top), IF "True" \in Type(Top).flags THEN 5 ELSE Param(0))

Loads ==
    /\ Runs("Loads")
    /\ Operate(0, <<stack[Cell(frames[fi - Param(0)], Param(2))]>>, heap, 5)

Slots ==
    /\ Runs("Slots")
    /\ sp' = sp + Param(0)
    /\ frames' = [frames EXCEPT ![fi].ip = @ + 3, ![fi].variables = @ + Param(0)]
    /\ KeepLoops /\ KeepRoutines /\ UNCHANGED <<program, heap, stack, fi, errors, phase>>

\* The type call() pushes instead of entering routine r, if there is one.
Cached(r, arguments) ==
    IF narrowed[r] # Null THEN narrowed[r]
    ELSE IF arguments = 0 THEN result[r] ELSE Null

\* use() on every argument of a call, and a variant that forgets it.
UseNoArguments(ts) == heap
UseArguments(ts) == FoldLeft(Use, heap, ts)

\* The frame of routine r.  Its loop and its flags are those of whoever used it last.
Entered(r, arguments) ==
    [frames[fi + 1] EXCEPT !.ip = module.subroutines[r].address, !.sub = r, !.initialSp = sp - arguments,
                           !.variables = 0, !.typeArguments = 0, !.arguments = arguments]

\* pushSubroutine(): the frame behind the active one, after the caller moved
\* on by w.  The arguments stay where they are and get an owner.
EnterRoutine(r, arguments, caller) ==
    /\ frames' = [frames EXCEPT
                     ![fi] = caller,
                     ![fi + 1] = Entered(r, arguments)]
    /\ fi' = Pushed(fi)
    /\ heap' = UseArguments(Topmost(arguments))
    /\ UNCHANGED <<stack, sp>>

\* call(): push the cached type or enter the routine.
CallRoutine(r, arguments, caller) ==
    /\ IF Cached(r, arguments) # Null
       THEN /\ Replace(0, <<Cached(r, arguments)>>)
            /\ frames' = [frames EXCEPT ![fi] = caller] /\ UNCHANGED <<fi, heap>>
       ELSE EnterRoutine(r, arguments, caller)
    /\ KeepLoops /\ KeepRoutines /\ UNCHANGED <<program, errors, phase>>

Call == Runs("Call") /\ CallRoutine(Param(0), Param(4), [Frame EXCEPT !.ip = @ + 7])

SelfCheck ==
    /\ Runs("SelfCheck")
    /\ IF result[Param(0)] # Null THEN Operate(0, <<>>, heap, 5)
       ELSE CallRoutine(Param(0), 0, [Frame EXCEPT !.ip = @ + 5])

\* tailCall(): the arguments move to the start of the frame, which is reused.
TailCall ==
    /\ Runs("TailCall")
    /\ LET r == Param(0)
           arguments == Param(4)
           f == Frame
       IN  IF Cached(r, arguments) # Null THEN Operate(0, <<Cached(r, arguments)>>, heap, 7)
           ELSE /\ heap' = DropAll(UseArguments(Reverse(Topmost(arguments))),
                                   [i \in 1..f.typeArguments |-> stack[Cell(f, i - 1)]])
                /\ stack' = [c \in Cells |->
                                IF f.variables > 0 /\ c \in Cell(f, 0)..Cell(f, arguments - 1)
                                THEN stack[c + f.variables] ELSE stack[c]]
                /\ sp' = f.initialSp + arguments
                /\ frames' = [frames EXCEPT ![fi] = [@ EXCEPT !.ip = module.subroutines[r].address, !.sub = r,
                                                              !.variables = 0, !.typeArguments = 0,
                                                              !.arguments = arguments]]
                /\ KeepLoops /\ KeepRoutines /\ UNCHANGED <<program, fi, errors, phase>>

ReturnFromMain ==
    /\ Runs("Return") /\ Frame.sub = 1
    /\ phase' = "done"
    /\ UNCHANGED <<program, heap, stack, sp, frames, fi, loops, li, result, narrowed, errors>>

\* A type argument loses its owner; the one returned is not collected.  The
\* variant collects it as well.
DropArgument(h, t) == Drop(h, t)
LeaveArgument(h, t) == IF t # Top THEN Drop(h, t) ELSE Unuse(h, t)

\* Return: the type arguments lose their owner, the result replaces the frame
\* and is cached if there were none or this is the body of a function.
Return ==
    /\ Runs("Return") /\ Frame.sub # 1
    /\ LET f == Frame
           args == [i \in 1..f.typeArguments |-> stack[Cell(f, i - 1)]]
           h == FoldLeft(LeaveArgument, heap, args)
           cell == Cell(f, 0)
       IN  /\ IF f.typeArguments = 0 \/ f.inferBody
              THEN /\ heap' = [Use(h, Top) EXCEPT !.types[Top].flags = @ \cup {"Stored"}]
                   /\ result' = [result EXCEPT ![f.sub] = Top]
              ELSE heap' = h /\ UNCHANGED result
           /\ stack' = IF sp - f.initialSp > 1 THEN [stack EXCEPT ![cell] = Top] ELSE stack
           /\ sp' = cell
    /\ fi' = Popped(fi)
    /\ KeepLoops /\ UNCHANGED <<program, frames, narrowed, errors, phase>>
-----------------------------------------------------------------------------
(* Template literals, functions and classes *)

TemplateLiteral ==
    /\ Runs("TemplateLiteral")
    /\ \E t \in {TemplateOf(heap, Topmost(Param(0)))} : Operate(Param(0), t.ts, t.heap, 3)

\* The type of a parameter gets no owner.
Parameter ==
    /\ Runs("Parameter")
    /\ Operate(1, <<Fresh(heap)>>,
               Allocate(heap, [NewType("Parameter", Text(Param(0))) EXCEPT !.kids = <<Top>>]), 5)

\* handleFunction(): name, return type and parameters become a list.
FunctionOps == {"Function", "Method"}

Function(op) ==
    /\ Runs(op)
    /\ LET types == Front(Topmost(Param(0) + 1))
           kids  == <<Top>> \o types
       IN  Operate(Len(kids), <<Fresh(heap)>>,
                   Allocate(UseAllAsRef(heap, kids), [NewType(op, Type(Top).hash) EXCEPT !.kids = kids]), 3)

Flag(op) == Runs(op) /\ Operate(0, <<>>, [heap EXCEPT !.types[Top].flags = @ \cup {op}], 1)

\* Readonly and Initializer, the check of a body against its declared type, and
\* the OPs that process() does not know, do nothing.
Ignored(op, w) == Runs(op) /\ Operate(0, <<>>, heap, w)

\* InferBody: the body runs in a frame of its own, whose first cell collects
\* what it returns.
InferBody ==
    /\ Runs("InferBody")
    /\ LET r == Param(0)
           caller == [Frame EXCEPT !.ip = @ + 5]
       IN  IF result[r] # Null THEN Operate(0, <<result[r]>>, heap, 5)
           ELSE /\ frames' = [frames EXCEPT ![fi] = caller,
                                            ![fi + 1] = [Entered(r, 0) EXCEPT !.inferBody = TRUE, !.arguments = 1]]
                /\ fi' = Pushed(fi)
                /\ heap' = Use(Allocate(heap, NewType("Union", "")), Fresh(heap))
                /\ Replace(0, <<Fresh(heap)>>)
                /\ KeepLoops /\ KeepRoutines /\ UNCHANGED <<program, errors, phase>>

ReturnStatement ==
    /\ Runs("ReturnStatement")
    /\ IF Frame.inferBody THEN Operate(1, <<>>, AppendChild(heap, stack[Cell(Frame, 0)], Top), 1)
       ELSE Operate(0, <<>>, heap, 1)

\* What was returned: never, one widened type, or a widened union.
UnwrapInferBody ==
    /\ Runs("UnwrapInferBody")
    /\ IF Type(Top).size = 0 THEN Operate(0, <<>>, [heap EXCEPT !.types[Top].kind = "Never"], 1)
       ELSE \E widened \in {Widen(heap, IF Type(Top).size = 1 THEN Type(Top).kids[1] ELSE Top)} :
               Operate(1, widened.ts, widened.heap, 1)

\* FunctionRef, ClassRef: the address of the subroutine is the size of the type.
RefOps == {"FunctionRef", "ClassRef"}

PushRef(op) ==
    /\ Runs(op)
    /\ Operate(0, <<Fresh(heap)>>,
               Allocate(heap, [NewType(op, IF op = "ClassRef" THEN "class" ELSE "function")
                                  EXCEPT !.size = Param(0)]), 5)

\* call() of the subroutine the popped type refers to.  The loop of process() is
\* not started over: it goes on behind the first OP of the subroutine.
CallRef(arguments) ==
    LET r == Type(Top).size
        args == [i \in 1..arguments |-> stack[sp - 1 - arguments + i]]
    IN  /\ IF Cached(r, arguments) # Null
           THEN Replace(1, <<Cached(r, arguments)>>) /\ Step(3) /\ UNCHANGED heap
           ELSE /\ frames' = [frames EXCEPT ![fi].ip = @ + 3,
                                            ![fi + 1] = [Entered(r, arguments) EXCEPT !.ip = @ + 1, !.initialSp = @ - 1]]
                /\ fi' = Pushed(fi)
                /\ heap' = UseArguments(args)
                /\ Replace(1, <<>>)
        /\ KeepLoops /\ KeepRoutines /\ UNCHANGED <<program, errors, phase>>

Instantiate ==
    /\ Runs("Instantiate")
    /\ IF Type(Top).kind \in RefOps THEN CallRef(Param(0)) ELSE Throw(heap, "Can not instantiate")

\* Takes what is to be called off the stack; nothing is inferred yet.
StartInferTypeArguments ==
    /\ Runs("StartInferTypeArguments")
    /\ OperateAndReport(1, <<>>, heap, 3, IF Type(Top).kind \in RefOps THEN 0 ELSE 1)

\* Argument i is read where the popped arguments were.  The number of arguments
\* minus one is unsigned: a call without any checks every parameter against what
\* is left above the stack.
Arguments(callee, n) ==
    LET parameters == SubSeq(Type(callee).kids, 3, Len(Type(callee).kids))
        checked == IF n = 0 THEN Len(parameters) ELSE Min({n, Len(parameters)})
    IN  [i \in 1..checked |-> [argument |-> stack[sp - n + i], parameter |-> parameters[i]]]

CallExpression ==
    /\ Runs("CallExpression")
    /\ LET n == Param(0)
           callee == stack[sp - n]
           checks == Arguments(callee, n)
           wrong  == {i \in DOMAIN checks : ~Extends(heap, checks[i].argument, checks[i].parameter)}
           h      == GcAll(heap, [i \in DOMAIN checks |-> checks[i].parameter])
           detached == IF Type(callee).refCount = 0 THEN [h EXCEPT !.types[callee].kids = Tail(@)] ELSE h
       IN  IF Type(callee).kind \notin FunctionOps THEN Throw(heap, "CallExpression not handled")
           ELSE IF \E i \in DOMAIN checks : checks[i].argument = Null THEN Throw(heap, "null pointer")
           ELSE OperateAndReport(n + 1, <<Type(callee).kids[2]>>, Gc(detached, callee), 3, Cardinality(wrong))

\* The members of a class are in its hash table only.
Class ==
    /\ Runs("Class")
    /\ LET n == Param(0)
           members == Topmost(n)
           new == Allocate(FoldLeft(Use, heap, members), NewType("Class", ""))
       IN  Operate(n, <<Fresh(heap)>>, WithTable(new, Fresh(heap), n, members), 3)

\* new: an instance that owns the class, the class of a reference, or an error.
NewInstance ==
    /\ Runs("New") /\ Type(Top).kind = "Class"
    /\ Operate(1, <<Fresh(heap)>>,
               Allocate(Use(heap, Top), [NewType("ClassInstance", "") EXCEPT !.kids = <<Top>>]), 3)
NewOfRef == Runs("New") /\ Type(Top).kind = "ClassRef" /\ CallRef(Param(0))
NewRejected == Runs("New") /\ Type(Top).kind \notin {"Class", "ClassRef"} /\ OperateAndReport(1, <<>>, heap, 3, 1)
-----------------------------------------------------------------------------
(* Type arguments *)

\* No argument for the next type parameter is on the stack.
NotProvided == sp - Frame.initialSp <= Frame.typeArguments

NextArgument(f) == [f EXCEPT !.typeArguments = @ + 1, !.variables = @ + 1]

TypeArgument ==
    /\ Runs("TypeArgument")
    /\ IF NotProvided
       THEN /\ heap' = Use(Allocate(heap, NewType("Unknown", KeywordHash.Unknown)), Fresh(heap))
            /\ Replace(0, <<Fresh(heap)>>)
       ELSE UNCHANGED <<heap, stack, sp>>
    /\ frames' = [frames EXCEPT ![fi] = [NextArgument(@) EXCEPT !.ip = @ + 1]]
    /\ KeepLoops /\ KeepRoutines /\ UNCHANGED <<program, fi, errors, phase>>

TypeArgumentDefault ==
    /\ Runs("TypeArgumentDefault")
    /\ LET caller == [NextArgument(Frame) EXCEPT !.ip = @ + 5] IN
       IF NotProvided THEN CallRoutine(Param(0), 0, caller)
       ELSE /\ frames' = [frames EXCEPT ![fi] = caller]
            /\ KeepLoops /\ KeepRoutines
            /\ UNCHANGED <<program, heap, stack, sp, fi, errors, phase>>

\* The argument is read one cell behind the last type argument: the cell the
\* popped constraint still occupies.
TypeArgumentConstraint ==
    /\ Runs("TypeArgumentConstraint")
    /\ LET size     == sp - 1 - Frame.initialSp
           argument == stack[Cell(Frame, Frame.typeArguments)]
       IN  OperateAndReport(1, <<>>, Gc(heap, Top), 1,
                            IF size = Frame.typeArguments /\ ~Extends(heap, argument, Top) THEN 1 ELSE 0)
-----------------------------------------------------------------------------
(* Distributive conditional types *)

Looping == Frame.loop # Null /\ loops[Frame.loop].ip = Frame.ip + 2

\* Distribute, first time, over a type that is not a union: an empty loop
\* around one run of the body.  LoopHelper::current keeps its old value.
DistributeSingle ==
    /\ Runs("Distribute") /\ ~Looping /\ Type(Top).kind # "Union"
    /\ loops' = [loops EXCEPT ![li + 1] = [@ EXCEPT !.ip = Frame.ip + 2, !.startSP = sp - 1,
                                                    !.previous = Frame.loop]]
    /\ li' = Pushed(li)
    /\ stack' = [stack EXCEPT ![Cell(Frame, Param(0))] = Top]
    /\ sp' = sp - 1
    /\ frames' = [frames EXCEPT ![fi].ip = @ + 7, ![fi].loop = li + 1]
    /\ KeepRoutines /\ UNCHANGED <<program, heap, fi, errors, phase>>

\* Distribute over a union: createLoop() and the first member.
DistributeUnion ==
    /\ Runs("Distribute") /\ ~Looping /\ Type(Top).kind = "Union" /\ Type(Top).kids # <<>>
    /\ loops' = [loops EXCEPT ![li + 1] =
                    [of |-> Top, current |-> Tail(Type(Top).kids), ip |-> Frame.ip + 2,
                     startSP |-> sp - 1, var1 |-> Cell(Frame, Param(0)), previous |-> Frame.loop]]
    /\ li' = Pushed(li)
    /\ stack' = [stack EXCEPT ![Cell(Frame, Param(0))] = Head(Type(Top).kids)]
    /\ sp' = sp - 1
    /\ frames' = [frames EXCEPT ![fi].ip = @ + 7, ![fi].loop = li + 1]
    /\ KeepRoutines /\ UNCHANGED <<program, heap, fi, errors, phase>>

\* The next member.
DistributeNext ==
    /\ Runs("Distribute") /\ Looping
    /\ LET l == loops[Frame.loop] IN
       /\ l.current # <<>>
       /\ stack' = [stack EXCEPT ![l.var1] = Head(l.current)]
       /\ loops' = [loops EXCEPT ![Frame.loop].current = Tail(@)]
    /\ Step(7)
    /\ KeepRoutines /\ UNCHANGED <<program, heap, sp, li, errors, phase>>

\* popLoop(): back to the enclosing loop, and a variant that stays in this one.
StayInLoop(f, l) == f
PopLoop(f, l) == [f EXCEPT !.loop = l.previous]

\* No member left: the results become never, one type or a union.
DistributeEnd ==
    /\ Runs("Distribute") /\ Looping
    /\ LET l  == loops[Frame.loop]
           ts == [i \in 1..(sp - l.startSP) |-> stack[l.startSP + i]]
           u  == Fresh(heap)
       IN  /\ l.current = <<>>
           /\ heap' = CASE ts = <<>>   -> Allocate(heap, NewType("Never", ""))
                        [] Len(ts) = 1 -> heap
                        [] OTHER       -> Allocate(UseAllAsRef(heap, ts),
                                                   [NewType("Union", "") EXCEPT !.kids = ts])
           /\ Replace(Len(ts), IF Len(ts) = 1 THEN ts ELSE <<u>>)
           /\ frames' = [frames EXCEPT ![fi] = PopLoop([@ EXCEPT !.ip = @ + Param(2)], l)]
    /\ li' = Popped(li)
    /\ KeepRoutines /\ UNCHANGED <<program, loops, fi, errors, phase>>
-----------------------------------------------------------------------------
(* The caller of run(), once it returned *)

\* Module::clear()
ForgetModule == /\ result' = [r \in Routines |-> Null]
                /\ narrowed' = [r \in Routines |-> Null]
                /\ errors' = 0

\* clear(module): all cached types lose their owner, the diagnostics go.
ClearModule ==
    /\ phase = "done" /\ heap.fault = ""
    /\ heap' = DropAll(heap, FlattenSeq([r \in Routines |-> <<result[r], narrowed[r]>>]))
    /\ ForgetModule
    /\ phase' = "cleared"
    /\ UNCHANGED <<program, stack, sp, frames, fi, loops, li>>

\* gcStackAndFlush()
GcStackAndFlush ==
    /\ phase \in {"done", "cleared"} /\ heap.fault = ""
    /\ heap' = FlushRefs(FlushTypes(GcAll(heap, Topmost(sp))))
    /\ sp' = 0
    /\ UNCHANGED <<program, stack, frames, fi, loops, li, result, narrowed, errors, phase>>

\* module->clear() and run(module): the pools are cleared, frames, loops and
\* stack start over with what is left in them.
Rerun ==
    /\ phase \in {"done", "cleared"} /\ heap.fault = "" /\ runs < MaxRuns
    /\ runs' = runs + 1
    /\ ForgetModule
    /\ heap' = EmptyHeap
    /\ sp' = 0 /\ li' = 0 /\ fi' = 1
    /\ frames' = [frames EXCEPT ![1] = [@ EXCEPT !.ip = module.subroutines[1].address, !.sub = 1, !.initialSp = 0]]
    /\ phase' = "run"
    /\ UNCHANGED <<source, module, meaning, stack, loops>>

Finished == (phase # "run" \/ heap.fault # "") /\ UNCHANGED vars

Execute ==
    \/ \E op \in KeywordOps : PushKeyword(op)
    \/ \E op \in LiteralOps : PushLiteral(op)
    \/ \E op \in BooleanOps : PushBoolean(op)
    \/ \E op \in WrapOps : Wrap(op)
    \/ PropertySignature \/ ObjectLiteral \/ Union \/ Tuple
    \/ Pop \/ ExtendsOp \/ Length \/ IndexAccess \/ PropertyAccess \/ Assign \/ Set \/ Error
    \/ Jump \/ JumpCondition \/ Loads \/ Slots
    \/ Call \/ SelfCheck \/ TailCall \/ ReturnFromMain \/ Return
    \/ TypeArgument \/ TypeArgumentDefault \/ TypeArgumentConstraint
    \/ DistributeSingle \/ DistributeUnion \/ DistributeNext \/ DistributeEnd
    \/ TemplateLiteral \/ Parameter \/ \E op \in FunctionOps : Function(op)
    \/ \E op \in {"Optional", "Static"} : Flag(op)
    \/ \E op \in {"Readonly", "Initializer", "Noop", "SourceMap", "Main"} : Ignored(op, 1)
    \/ Ignored("CheckBody", 5)
    \/ InferBody \/ ReturnStatement \/ UnwrapInferBody
    \/ StartInferTypeArguments \/ CallExpression \/ Class \/ NewInstance \/ NewOfRef \/ NewRejected
    \/ Instantiate \/ \E op \in RefOps : PushRef(op)
    \/ Underflow

Next == Execute \/ ClearModule \/ GcStackAndFlush \/ Rerun \/ Finished

\* process() is a loop without other exits: an OP that can be executed is.
Spec == Init /\ [][Next]_vars /\ WF_vars(Execute)
-----------------------------------------------------------------------------
(* Properties *)

\* The VM's state has its types: sp stays inside the array stack, every active
\* frame starts at or below sp and points to a loop that is in use, and the
\* queues of both pools stay inside their arrays however gc() recurses.
TypeOK ==
    /\ sp \in 0..MaxStack /\ stack \in [Cells -> Ids \cup {Null}]
    /\ fi \in 1..MaxFrames /\ li \in 0..MaxLoops
    /\ \A f \in 1..fi : frames[f].initialSp \in 0..sp /\ frames[f].loop \in 0..li
    /\ heap.refs \in Nat /\ heap.refQueued \in 0..RefGCQueueSize /\ Len(heap.queue) <= GCQueueSize
    /\ errors \in Nat /\ phase \in {"run", "done", "cleared"}

\* No exception, null pointer or invalid read ends a run: gc() never meets a
\* type it deleted before ("Type already deleted"), tuples are built from
\* lists that exist, queued TypeRefs are not read.
NoFault == heap.fault = ""

\* The cells of frame f that hold a type: all up to the next frame but the
\* variables of conditional types, which are set by Distribute.
FrameCells(f) ==
    LET limit == IF f = fi THEN sp ELSE frames[f + 1].initialSp
    IN  {c \in (frames[f].initialSp + 1)..limit :
            \/ c <= frames[f].initialSp + frames[f].typeArguments
            \/ c > frames[f].initialSp + frames[f].variables}

\* What the VM can still reach: operands, type arguments, cached and narrowed
\* types, members of living types, unions being distributed.
Reachable ==
    (   UNION {{stack[c] : c \in FrameCells(f)} : f \in 1..fi}
    \cup {result[r] : r \in Routines} \cup {narrowed[r] : r \in Routines}
    \cup UNION {Range(Type(t).kids) : t \in Usable(heap)}
    \cup {stack[loops[l].var1] : l \in {k \in 1..li : loops[k].var1 # 0}}
    \cup {loops[l].of : l \in {k \in 1..li : loops[k].current # <<>>}}) \ {Null}

\* Nothing the VM can still reach has been given to the garbage collector by
\* gc() or drop(), whichever OP called it.
NoDangling == phase = "run" /\ heap.fault = "" => Reachable \subseteq Usable(heap)

\* The cells of the type arguments of frame f, which own their types.
OwnedArguments(f) ==
    LET n == IF frames[f].arguments > frames[f].typeArguments THEN frames[f].arguments
             ELSE frames[f].typeArguments
    IN  {c \in (frames[f].initialSp + 1)..(frames[f].initialSp + n) : c <= sp}

Owners(t) ==
      Cardinality({l \in UNION {{u} \X DOMAIN Type(u).kids : u \in Usable(heap)} : Type(l[1]).kids[l[2]] = t})
    + Cardinality({r \in Routines : result[r] = t}) + Cardinality({r \in Routines : narrowed[r] = t})
    + Cardinality({l \in UNION {{f} \X OwnedArguments(f) : f \in 1..fi} : stack[l[2]] = t})

\* refCount is the number of owners: members of living types, caches, and the
\* type arguments of active frames, as use(), useAsRef(), drop() and Return keep
\* it.  The stack itself owns nothing.
OwnersCounted ==
    phase = "run" /\ heap.fault = "" => \A t \in Usable(heap) : Type(t).refCount = Owners(t)

\* The value a type stands for, as the reference semantics describes values.
RECURSIVE Reify(_)
Reify(t) ==
    LET type == Type(t)
        kids == [i \in DOMAIN type.kids |-> Reify(type.kids[i])]
    IN  CASE type.kind = "TupleMember" -> kids[1]
          [] type.kind = "Union" -> S!UnionOf(Range(kids))
          [] type.kind = "Literal" ->
                S!Value("Literal", type.hash, type.flags \cap (LiteralOps \cup BooleanOps), <<>>)
          [] type.kind \in KeywordOps -> S!Keyword(type.kind)
          [] type.kind = "Function" -> S!Value("Function", "", {}, Tail(kids))
          [] OTHER -> S!Value(type.kind, IF type.kind = "PropertySignature" THEN type.hash ELSE "", {}, kids)

\* The type cached on a subroutine is, from the moment it is cached, the type
\* its declaration means; nothing that runs later modifies it.
CacheFaithful ==
    phase = "run" /\ heap.fault = "" =>
        \A r \in Routines : result[r] # Null /\ meaning.types[r] # NoMeaning =>
            Reify(result[r]) = meaning.types[r]

\* A run reports as many errors, by Assign or Error, as there are initializers
\* that do not fit their type and names that are not declared.
ErrorsFaithful == phase = "done" => errors = meaning.errors

\* When a run is done every variable is narrowed to the type of the value last
\* assigned to it.
NarrowedFaithful ==
    phase = "done" /\ heap.fault = "" =>
        \A r \in Routines :
            IF meaning.narrowed[r] = NoMeaning THEN narrowed[r] = Null
            ELSE narrowed[r] # Null /\ Reify(narrowed[r]) = meaning.narrowed[r]

\* What a sequence of declarations and assignments leaves behind: its errors and
\* the narrowed type of every variable (Assign, Set, Error, SelfCheck).
StatementsFaithful == meaning.errors # Unspecified => ErrorsFaithful /\ NarrowedFaithful

\* Nothing but jumps forward lies between ip and the end of the subroutine.
RECURSIVE EndsAt(_)
EndsAt(ip) == LET op == module.bin[ip + 1] IN
              \/ op = "Return"
              \/ op = "Jump" /\ module.bin[ip + 2] > 0 /\ EndsAt(ip + module.bin[ip + 2])

\* compiler.h calls a section a tail section if it ends the subroutine when
\* executed: when a TailCall is reached there is nothing on the frame but its
\* variables and the arguments, which tailCall() moves over them, and nothing
\* would be left to do with the result but to return it.
TailCallInTailPosition ==
    phase = "run" /\ heap.fault = "" /\ Op = "TailCall" =>
        /\ sp = Frame.initialSp + Frame.variables + Param(4)
        /\ EndsAt(Frame.ip + 7)

\* The body of a distributive conditional type runs once per member: the frame
\* is not given up for a tail call while that is under way, as tailCall() asserts.
TailCallOutsideLoops ==
    phase = "run" /\ heap.fault = "" /\ Op = "TailCall" => Frame.loop = Null

\* A subroutine returns with exactly one type above its variables and with all
\* its loops left, so that the reused frame and LoopHelper start clean.
ReturnBalanced ==
    phase = "run" /\ Op = "Return" /\ fi > 1 =>
        /\ sp = Frame.initialSp + Frame.variables + 1
        /\ Frame.loop = Null
        /\ \A l \in (li + 1)..MaxLoops : loops[l].current = <<>>

\* After clear(module) and gcStackAndFlush() no type and no TypeRef is active.
EverythingReleased ==
    /\ phase = "cleared" /\ heap.fault = "" /\ sp = 0 /\ heap.queue = <<>> /\ heap.refQueued = 0
    => Allocated(heap) = {} /\ heap.refs = 0

\* The OPs whose width eatParams() and process() do not agree on: it has no case for
\* the two bytes of StartInferTypeArguments, and process() reads one of the two
\* addresses of FunctionRef and ClassRef.  The fourth, InferTypeArguments, has no
\* parameter where eatParams() takes two bytes; it lies behind its FunctionRef or
\* ClassRef in every binary.
Misjudged == {"StartInferTypeArguments"} \cup RefOps

\* Up to the first of these in a binary, eatParams() and process() agree on where
\* every OP starts: what parseBin() prints, and shows under the name of a
\* subroutine, is what the VM executes in a frame of that subroutine.
PrinterAgrees ==
    /\ phase = "run" /\ heap.fault = ""
    /\ \A at \in module.printed : at[2] < Frame.ip => OpAt(Read(module.bin, at[2])) \notin Misjudged
    => <<Frame.sub, Frame.ip>> \in module.printed

\* Every run of these sources ends: process() reaches the Return of main, whatever
\* calls, tail calls and loops the recursive types of the source take.
Terminates == phase = "run" ~> phase = "done"
=============================================================================
