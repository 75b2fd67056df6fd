------------------------------- MODULE Parser -------------------------------
(***************************************************************************)
(* The parser: the machine that runs the parse functions of module Grammar *)
(* on the tokens of module Tokens.                                         *)
(*                                                                         *)
(* The stack holds one frame for each call in progress.  A frame has the   *)
(* function it runs, the instructions it still has to run, the position it *)
(* started at, the nodes collected so far, its flags, and what it saved    *)
(* when it was entered.  The other variables are the fields of the class   *)
(* Parser: scan (scanner and currentToken), ctx (contextFlags), plist      *)
(* (parsingContext), errs (the start positions in parseDiagnostics), mark  *)
(* (parseErrorBeforeNextFinishedNode), npa (notParenthesizedArrow), top    *)
(* (topLevel) and sourceFlags.  ret is the kind of what the last call      *)
(* returned, "null" for a null pointer or false.                           *)
(***************************************************************************)
EXTENDS Tokens, Grammar, Factory, Shapes, SequencesExt

CONSTANT Sources  \* the source texts to parse

VARIABLES scan, ctx, plist, errs, mark, npa, top, sourceFlags, stack, ret, status

diagnostics == <<errs, mark>>
context     == <<ctx, plist, npa, top, sourceFlags>>
vars        == <<text, scan, diagnostics, context, stack, ret, status>>

-----------------------------------------------------------------------------
(* Frames. *)
fr == stack[Len(stack)]
ins == Head(fr.code)
Op(op) == status = "running" /\ fr.code # <<>> /\ ins.op = op
Done == [fr EXCEPT !.code = Tail(@)]                     \* the frame behind this instruction
Put(f) == [stack EXCEPT ![Len(stack)] = f]
Frame(fn, code, mode, pos, out, arg, prec) ==
    [fn |-> fn, code |-> code, mode |-> mode, pos |-> pos, out |-> out, arg |-> arg, prec |-> prec,
     ctx |-> ctx, top |-> top, plist |-> plist, n |-> Len(errs),
     save |-> [scan |-> scan, errs |-> Len(errs), mark |-> mark]]

initializeState ==
    /\ text \in Sources
    /\ scan = [start |-> 1, pos |-> 1, end |-> 1, tok |-> "Unknown"]
    /\ ctx = {} /\ plist = {} /\ errs = <<>> /\ mark = FALSE /\ npa = {} /\ top = TRUE /\ sourceFlags = {}
Init ==
    /\ initializeState /\ ret = "null" /\ status = "running"
    /\ stack = <<Frame("parseSourceFileWorker", Grammar["parseSourceFileWorker"], "Call", 1, <<>>, {}, 0)>>

(* parseErrorAtPosition: a second error at the position of the last one only sets the mark. *)
ErrorsAfter(p) == IF errs # <<>> /\ Last(errs) = p THEN errs ELSE Append(errs, p)
MarkAfter(p) == mark \/ (errs # <<>> /\ Last(errs) = p)
Report(p) == errs' = ErrorsAfter(p) /\ mark' = MarkAfter(p)

(* finishNode: the node ends where the trivia before the current token starts. *)
Finish(kind, pos, end, made, flags, marked) ==
    [kind |-> kind, pos |-> pos, end |-> end, c |-> made.c, tf |-> made.tf,
     flags |-> flags \cup ctx \cup (IF marked THEN {"ThisNodeHasError"} ELSE {})]
Leaf(tf) == [c |-> <<>>, tf |-> tf]
ListNode(kind, pos, end, nodes) ==
    [kind |-> "List", pos |-> pos, end |-> end, c |-> nodes, flags |-> {kind}, tf |-> {}]
nodeIsMissing(n) == n.pos = n.end /\ n.pos >= 0 /\ n.kind # "EndOfFileToken"
Modifiers(out) ==
    {out[i] : i \in {i \in DOMAIN out : /\ out[i].kind = "List" /\ out[i].c # <<>>
                                        /\ isModifierKind(out[i].c[1].kind)}}

(* Is the return type so wrong that this can be no arrow function?  The innermost type of      *)
(* nested function types decides, and every one of them needs its parameter list.  For a type *)
(* in parentheses the code reads the variable that points to the node as if it were the node:  *)
(* the answer may be anything.                                                                 *)
FunctionTypes == {"FunctionType", "ConstructorType"}
typeHasArrowFunctionBlockingParseError(t) ==
    LET types[i \in 0..Len(text)] ==
            IF i = 0 THEN t ELSE LET u == types[i - 1] IN IF u.kind \in FunctionTypes THEN Last(u.c) ELSE u
        inner == types[Len(text)]
    IN  CASE \E i \in 0..Len(text) : /\ types[i].kind \in FunctionTypes
                                     /\ "isMissingList" \in types[i].c[Len(types[i].c) - 1].flags -> {"True"}
          [] inner.kind = "ParenthesizedType" -> {"True", "False", "crash"}
          [] inner.kind = "TypeReference" /\ nodeIsMissing(inner.c[1]) -> {"True"}
          [] OTHER -> {"False"}

(* Conditions. *)
Truth(a) ==
    LET q == a.is
    IN  CASE q = "At" -> scan.tok \in a.s
          [] q = "NextIs" -> Advance(scan).tok \in a.s
          [] q = "Has" -> a.s \subseteq fr.arg
          [] q = "InCtx" -> a.s \subseteq ctx
          [] q = "Ret" -> ret \in a.s
          [] q = "First" -> fr.out # <<>> /\ fr.out[1].kind \in a.s
          [] q = "Last" -> fr.out # <<>> /\ Last(fr.out).kind \in a.s
          [] q = "Collected" -> \E i \in DOMAIN fr.out : fr.out[i].kind \in a.s
          [] q = "Modified" -> \E l \in Modifiers(fr.out) : \E i \in DOMAIN l.c : l.c[i].kind \in a.s
          [] q = "always" -> TRUE
          [] q = "some" -> fr.out # <<>>
          [] q = "hasModifiers" -> Modifiers(fr.out) # {}
          [] q = "lastIsMissing" -> nodeIsMissing(Last(fr.out))
          [] q = "chained" -> "OptionalChain" \in fr.out[1].flags
          [] q = "spanContinues" -> Last(Last(fr.out).c).kind = "TemplateMiddle"
          [] q = "noNewErrors" -> Len(errs) = fr.n
          [] q = "notParenthesizedArrow" -> scan.pos \in npa
          [] q = "nullableAtItsType" ->
                Last(fr.out).kind = "JSDocNullableType" /\ Last(fr.out).pos = Last(fr.out).c[1].pos
          [] q = "isLeftHandSideExpression" -> isLeftHandSideExpressionKind(Last(fr.out).kind)
          [] q = "consumeCurrentOperator" ->
                LET p == getBinaryOperatorPrecedence(scan.tok)
                IN  IF scan.tok = "**" THEN p >= fr.prec ELSE p > fr.prec
          [] q = "isParenthesizedArrowFunctionExpression" ->
                isParenthesizedArrowFunctionExpression(scan, ctx) = "True"
          [] q = "mayBeParenthesizedArrowFunctionExpression" ->
                isParenthesizedArrowFunctionExpression(scan, ctx) = "Unknown"
          [] q = "hasPrecedingLineBreak" -> hasPrecedingLineBreak(scan)
          [] q = "tokenIsIdentifierOrKeyword" -> tokenIsIdentifierOrKeyword(scan.tok)
          [] q = "isModifierKind" -> isModifierKind(scan.tok)
          [] q = "isAssignmentOperator" -> isAssignmentOperator(scan.tok)
          [] q = "isLiteralKind" -> isLiteralKind(scan.tok)
          [] q = "canParseSemicolon" -> canParseSemicolon(scan)
          [] q = "isIdentifier" -> isIdentifier(scan, ctx)
          [] q = "isBindingIdentifier" -> isBindingIdentifier(scan)
          [] q = "isParameterNameStart" -> isParameterNameStart(scan)
          [] q = "isTupleElementName" -> isTupleElementName(scan)
          [] q = "isConstructorString" -> isConstructorString(scan)
          [] q = "isImplementsClause" -> isImplementsClause(scan)
          [] q = "isIndexSignature" -> isIndexSignature(scan, ctx)
          [] q = "isStartOfMappedType" -> isStartOfMappedType(scan, ctx)
          [] q = "isStartOfType" -> isStartOfType(scan, ctx)
          [] q = "nextTokenIsStartOfType" -> nextTokenIsStartOfType(scan, ctx)
          [] q = "isStartOfExpression" -> isStartOfExpression(scan, ctx)
          [] q = "isStartOfStatement" -> isStartOfStatement(scan, ctx)
          [] q = "isStartOfExpressionStatement" -> isStartOfExpressionStatement(scan, ctx)
          [] q = "isStartOfDeclaration" -> isStartOfDeclaration(scan, ctx)
          [] q = "isLetDeclaration" -> isLetDeclaration(scan)
          [] q = "canFollowContextualOfKeyword" -> canFollowContextualOfKeyword(scan, ctx)
          [] q = "isUpdateExpression" -> isUpdateExpression(scan)
          [] q = "isAwaitExpression" -> isAwaitExpression(scan, ctx)
          [] q = "isYieldExpression" -> isYieldExpression(scan, ctx)
          [] q = "isTemplateStartOfTaggedTemplate" -> isTemplateStartOfTaggedTemplate(scan)
          [] q = "canFollowTypeArgumentsInExpression" -> canFollowTypeArgumentsInExpression(scan, ctx)
          [] q = "isStartOfOptionalPropertyOrElementAccessChain" ->
                isStartOfOptionalPropertyOrElementAccessChain(scan)
          [] q = "nextTokenCanFollowModifier" -> nextTokenCanFollowModifier(scan)
          [] q = "nextTokenIsOnSameLineAndCanFollowModifier" -> nextTokenIsOnSameLineAndCanFollowModifier(scan)
          [] q = "nextTokenIsFunctionKeywordOnSameLine" -> nextTokenIsFunctionKeywordOnSameLine(scan)
          [] q = "nextTokenIsNumericOrBigIntLiteral" -> nextTokenIsNumericOrBigIntLiteral(scan)
          [] q = "nextTokenIsIdentifierOrKeywordOnSameLine" -> nextTokenIsIdentifierOrKeywordOnSameLine(scan)
Holds(q) == \E c \in q : \A a \in c : Truth(a) # a.neg

-----------------------------------------------------------------------------
(* Control. *)
Branch ==
    /\ Op("If")
    /\ stack' = Put([Done EXCEPT !.code = (IF Holds(ins.q) THEN ins.yes ELSE ins.no) \o @])
    /\ UNCHANGED <<text, scan, diagnostics, context, ret, status>>
Loop ==
    /\ Op("While")
    /\ stack' = Put(IF Holds(ins.q) THEN [fr EXCEPT !.code = ins.body \o @] ELSE Done)
    /\ UNCHANGED <<text, scan, diagnostics, context, ret, status>>
Restart ==
    /\ Op("Again")
    /\ stack' = Put([fr EXCEPT !.code = Grammar[fr.fn]])
    /\ UNCHANGED <<text, scan, diagnostics, context, ret, status>>
Precedence(p) ==
    CASE p = "operator" -> getBinaryOperatorPrecedence(Last(fr.out).kind)
      [] p = "power"    -> getBinaryOperatorPrecedence("**")
      [] p = "same"     -> fr.prec
      [] OTHER          -> 0
Call ==
    /\ status = "running" /\ fr.code # <<>> /\ ins.op \in {"Call", "Rest", "Goto"}
    /\ LET arg == (fr.arg \cap ins.keep) \cup ins.add
           Enter(pos, out) == Frame(ins.f, Grammar[ins.f], "Call", pos, out, arg, Precedence(ins.prec))
       IN  stack' = CASE ins.op = "Call" -> Append(Put(Done), Enter(scan.start, <<>>))
                      [] ins.op = "Rest" -> Append(Put([Done EXCEPT !.out = <<>>]), Enter(fr.pos, fr.out))
                      [] ins.op = "Goto" -> Put([fr EXCEPT !.fn = ins.f, !.code = Grammar[ins.f]])
    /\ UNCHANGED <<text, scan, diagnostics, context, ret, status>>
Speculate ==    \* speculationHelper, and frames for parts with a start position of their own
    /\ status = "running" /\ fr.code # <<>> /\ ins.op \in {"Try", "Look", "Sub"}
    /\ stack' = Append(Put(Done),
                       IF ins.op = "Sub" THEN Frame(fr.fn, ins.body, "Call", scan.start, <<>>, fr.arg, 0)
                       ELSE Frame(fr.fn, ins.body, ins.op, fr.pos, fr.out, fr.arg, 0))
    /\ UNCHANGED <<text, scan, diagnostics, context, ret, status>>

(* The scanner's part of a speculation: it goes back to where it was. *)
tryScan(failed) == scan' = IF failed THEN fr.save.scan ELSE scan
(* A frame returns the value r of kind k (null: k = "null"); values go to the caller's nodes. *)
ReturnTo(k, value) ==
    LET callers == Front(stack)
        caller  == Last(callers)
        With(f) == [callers EXCEPT ![Len(callers)] = f]
        failed  == fr.mode = "Look" \/ k = "null"
    IN  /\ ret' = k
        /\ IF fr.mode = "Call"
           THEN /\ stack' = With([caller EXCEPT !.out = @ \o value])
                /\ UNCHANGED <<scan, diagnostics>>
           ELSE /\ stack' = IF failed THEN callers ELSE With([caller EXCEPT !.out = fr.out])
                /\ tryScan(failed)
                /\ errs' = IF failed THEN SubSeq(errs, 1, fr.save.errs) ELSE errs
                /\ mark' = IF failed THEN fr.save.mark ELSE mark
        /\ UNCHANGED <<text, context, status>>
EndFrame ==
    /\ status = "running" /\ fr.code = <<>> /\ fr.mode # "List" /\ Len(stack) > 1
    /\ CASE fr.mode # "Call" -> ReturnTo(ret, <<>>)
         [] fr.out = <<>>    -> ReturnTo("null", <<>>)
         [] OTHER            -> ReturnTo(fr.out[1].kind, <<fr.out[1]>>)
Return_ ==
    /\ Op("Return")
    /\ stack' = Put([fr EXCEPT !.code = <<>>])
    /\ UNCHANGED <<text, scan, diagnostics, context, ret, status>>
Answer_ == Op("Answer") /\ ReturnTo(ins.k, <<>>)
Fail_ == Op("Fail") /\ ReturnTo("null", <<>>)
Raise(s) == status' = s /\ UNCHANGED <<text, scan, diagnostics, context, stack, ret>>
Throw_ == Op("Throw") /\ Raise("exception")

(* createSourceFile.  An exporting statement makes the file a module.  import.meta would do so    *)
(* anywhere in the tree, but visitNode drops what its callback finds and the lists are not        *)
(* searched.  A module in which "await" may be the operator ends in an exception.                 *)
hasModifierOfKind(n, k) == \E l \in Modifiers(n.c) : \E i \in DOMAIN l.c : l.c[i].kind = k
isAnExternalModuleIndicatorNode(n) ==
    \/ hasModifierOfKind(n, "export")
    \/ n.kind = "ImportEqualsDeclaration" /\ Last(n.c).kind = "ExternalModuleReference"
    \/ n.kind \in {"ImportDeclaration", "ExportAssignment", "ExportDeclaration"}
isImportMeta(n) ==
    /\ n.kind = "MetaProperty" /\ ScanFrom(n.pos).tok = "import"
    /\ ~nodeIsMissing(n.c[1]) /\ text[ScanFrom(n.c[1].pos).pos] = "meta"
visitNode(found) == FALSE
RECURSIVE walkTreeForImportMeta(_)
walkTreeForImportMeta(n) ==
    isImportMeta(n) \/ \E child \in NodesIn(n) : visitNode(walkTreeForImportMeta(child))
isExternalModule(file) ==
    \/ \E i \in DOMAIN file.c[1].c : isAnExternalModuleIndicatorNode(file.c[1].c[i])
    \/ "PossiblyContainsImportMeta" \in file.flags /\ walkTreeForImportMeta(file)
Finished ==
    /\ status = "running" /\ Len(stack) = 1 /\ fr.code = <<>>
    /\ \E made \in {createSourceFile({}, fr.out)} : \E o \in made.out :
        LET file == [kind |-> "SourceFile", pos |-> 1, end |-> End, c |-> made.c, tf |-> made.tf, flags |-> sourceFlags]
        IN  IF o # "ok" THEN Raise(o)
            ELSE IF isExternalModule(file) /\ "PossibleTopLevelAwait" \in file.tf THEN Raise("exception")
            ELSE /\ status' = "parsed" /\ stack' = Put([fr EXCEPT !.out = <<file>>])
                 /\ UNCHANGED <<text, scan, diagnostics, context, ret>>

-----------------------------------------------------------------------------
(* Tokens and nodes. *)
Step(f, k) == stack' = Put(f) /\ ret' = k /\ UNCHANGED <<text, context, status>>
Collect(n) == Step([Done EXCEPT !.out = Append(@, n)], n.kind)
NextToken_ ==
    /\ Op("Next")
    /\ scan' = Advance(scan)
    /\ Step(Done, ret) /\ UNCHANGED diagnostics
ExpectToken ==
    /\ Op("Expect")
    /\ IF scan.tok = ins.t THEN scan' = Advance(scan) /\ Step(Done, "True") /\ UNCHANGED diagnostics
       ELSE Report(scan.pos) /\ Step(Done, "null") /\ UNCHANGED scan
TakeToken ==
    /\ Op("Take")
    /\ scan' = Advance(scan) /\ mark' = FALSE
    /\ LET k == IF ins.k = "token" THEN scan.tok ELSE ins.k
           word == IF k = "Identifier" THEN {scan.tok} \cap {"this"} ELSE {}
       IN  Collect(Finish(k, scan.start, scan.end, Leaf(TokenFlags(k, scan.tok)), word, mark))
    /\ UNCHANGED errs
RescanToken ==
    /\ Op("Rescan")
    /\ scan' = CASE ins.how = "Template" -> reScanTemplateToken(scan)
                 [] ins.how = "LessThan" -> reScanLessThanToken(scan)
                 [] ins.how = "Greater"  -> reScanGreaterToken(scan)
                 [] ins.how = "Slash"    -> reScanSlashToken(scan)
    /\ Step(Done, ret) /\ UNCHANGED diagnostics
(* A regular expression without an end is reported to Scanner::error(), which has no return      *)
(* statement: it may go on, with the literal and no diagnostic, or crash.                        *)
UnterminatedRegularExpression ==
    /\ Op("Rescan") /\ ins.how = "Slash" /\ scan.tok \in {"/", "/="} /\ IsUnterminated(RegularExpressionEnd(scan.pos))
    /\ Raise("crash")
(* Mutant: a missing node without its error. *)
createMissingNodeSilently ==
    /\ Op("Missing")
    /\ Collect(Finish(ins.k, scan.start, scan.start, Leaf(TokenFlags(ins.k, "") \ createStringLiteral), {}, mark))
    /\ mark' = FALSE /\ UNCHANGED <<scan, errs>>
createMissingNode ==
    /\ Op("Missing")
    /\ LET p == IF ins.here THEN scan.start ELSE scan.pos
       IN  /\ errs' = ErrorsAfter(p) /\ mark' = FALSE
           /\ Collect(Finish(ins.k, scan.start, scan.start, Leaf(TokenFlags(ins.k, "") \ createStringLiteral),
                              {}, MarkAfter(p)))
    /\ UNCHANGED scan

(* parseErrorForMissingSemicolonAfter: where the error behind this expression is, 0 for none. *)
SemicolonErrorAt(n) ==
    LET word == text[ScanFrom(n.pos).pos]
    IN  CASE n.kind = "TaggedTemplateExpression" -> ScanFrom(Last(n.c).pos).pos
          [] n.kind # "Identifier" \/ nodeIsMissing(n) -> scan.pos
          [] word = "declare" -> 0
          [] word \in {"interface", "module", "namespace", "type"} -> scan.pos
          [] OTHER -> ScanFrom(n.pos).pos
ErrorPosition(where) ==
    CASE where = "token"       -> scan.pos
      [] where = "first"       -> fr.out[1].pos
      [] where = "last"        -> Last(fr.out).pos
      [] where = "lastToken"   -> ScanFrom(Last(fr.out).pos).pos
      [] where = "behindFirst" -> fr.out[1].end
      [] where = "semicolon"   -> SemicolonErrorAt(SelectSeq(fr.out, LAMBDA n : n.kind # "List")[1])
ParseError ==
    /\ Op("Error")
    /\ LET p == ErrorPosition(ins.where)
       IN  IF p = 0 THEN UNCHANGED diagnostics ELSE Report(p)
    /\ Step(Done, ret) /\ UNCHANGED scan

(* Mutant: the node ends where the next token starts, behind the trivia. *)
finishNodeAtToken ==
    /\ Op("Node")
    /\ \E made \in {Create(ins.k, fr.arg, fr.out)} : \E o \in made.out :
        LET chain == IF "Chain" \in fr.arg THEN {"OptionalChain"} ELSE {}
            n == Finish(ins.k, fr.pos, scan.pos, made, chain, mark)
        IN  IF o # "ok" THEN Raise(o)
            ELSE /\ Step([Done EXCEPT !.out = <<n>>, !.arg = @ \ {"Chain"}], ins.k)
                 /\ mark' = FALSE /\ UNCHANGED <<scan, errs>>
(* finishNode(factory.createK(the collected nodes), pos) *)
finishNode ==
    /\ Op("Node")
    /\ \E made \in {Create(ins.k, fr.arg, fr.out)} : \E o \in made.out :
        LET chain == IF "Chain" \in fr.arg THEN {"OptionalChain"} ELSE {}
            n == Finish(ins.k, fr.pos, scan.start, made, chain, mark)
        IN  IF o # "ok" THEN Raise(o)
            ELSE /\ Step([Done EXCEPT !.out = <<n>>, !.arg = @ \ {"Chain"}], ins.k)
                 /\ mark' = FALSE /\ UNCHANGED <<scan, errs>>
createNodeArray ==
    /\ Op("Array")
    /\ Step([Done EXCEPT !.out = <<ListNode(ins.kind, fr.pos, scan.start, @)>>], "List")
    /\ UNCHANGED <<scan, diagnostics>>
createMissingList ==
    /\ Op("MissingList")
    /\ Collect([ListNode(ins.kind, scan.start, scan.start, <<>>) EXCEPT !.flags = @ \cup {"isMissingList"}])
    /\ UNCHANGED <<scan, diagnostics>>

(* Changes to the collected nodes; the scanner and the diagnostics stay. *)
Edit(op, f) == Op(op) /\ Step(f, ret) /\ UNCHANGED <<scan, diagnostics>>
DropLast == Edit("Drop", [Done EXCEPT !.out = Front(@)])
UnwrapFirst == Edit("Unwrap", [Done EXCEPT !.out = @[1].c \o Tail(@)])
AsOptionalType_ ==    \* with the range and the flags of the type it replaces
    LET n == Last(fr.out)
        made == createOptionalTypeNode({}, n.c)
    IN  Edit("AsOptionalType",
             [Done EXCEPT !.out[Len(fr.out)] = [n EXCEPT !.kind = "OptionalType", !.c = made.c, !.tf = made.tf]])
AskBlockingError ==
    /\ Op("BlockingError")
    /\ \E o \in typeHasArrowFunctionBlockingParseError(Last(fr.out)) :
        CASE o = "crash" -> Raise("crash")
          [] o = "True"  -> Edit("BlockingError", [Done EXCEPT !.arg = @ \cup {"Blocked"}])
          [] o = "False" -> Edit("BlockingError", Done)
(* The identifier in front of "=>" becomes the only parameter of the arrow function. *)
SingleParameter ==
    /\ Op("LastAsParameter")
    /\ LET id == Last(fr.out)
           parameter == Finish("Parameter", id.pos, scan.start, createParameterDeclaration({}, <<id>>), {}, mark)
       IN  Step([Done EXCEPT !.out = Append(Front(@), ListNode("Parameters", id.pos, scan.start, <<parameter>>))], ret)
    /\ mark' = FALSE
    /\ UNCHANGED <<scan, errs>>
MarkModifiersAmbient ==
    LET Ambient(m) == [m EXCEPT !.flags = @ \cup {"Ambient"}]
        All(l) == IF l \in Modifiers(fr.out) THEN [l EXCEPT !.c = [i \in DOMAIN @ |-> Ambient(@[i])]] ELSE l
    IN  Edit("MarkAmbient", [Done EXCEPT !.out = [i \in DOMAIN @ |-> All(@[i])]])
SetFlag == Edit("Flag", IF Holds(ins.q) THEN [Done EXCEPT !.arg = @ \cup {ins.x}] ELSE Done)
RememberErrors == Edit("CountErrors", [Done EXCEPT !.n = Len(errs)])

(* tryReparseOptionalChain: an access behind "?.", or behind a chain that only "!" follows,    *)
(* is part of the chain.  With two "!" in a row the search for the chain reads the same node   *)
(* again and again and never ends: no step leads on.                                           *)
Unchained(n) == "OptionalChain" \notin n.flags
ReparseChain ==
    LET e == fr.out[1]
        dot == \E i \in DOMAIN fr.out : fr.out[i].kind = "?."
        nonNull == ~dot /\ Unchained(e) /\ e.kind = "NonNullExpression"
        chained == [Done EXCEPT !.arg = @ \cup {"Chain"}]
    IN  /\ Op("Reparse") /\ ~(nonNull /\ e.c[1].kind = "NonNullExpression" /\ Unchained(e.c[1]))
        /\ CASE dot \/ ~Unchained(e) -> Edit("Reparse", chained)
             [] nonNull /\ ~Unchained(e.c[1]) ->
                  Edit("Reparse", [chained EXCEPT !.out[1].flags = @ \cup {"OptionalChain"}])
             [] OTHER -> Edit("Reparse", Done)

-----------------------------------------------------------------------------
(* Context flags, topLevel, sourceFlags and notParenthesizedArrow. *)
Change(op, f) == Op(op) /\ stack' = Put(f) /\ UNCHANGED <<text, scan, diagnostics, plist, ret, status>>
doInsideOfContext ==
    /\ Change("Inside", [Done EXCEPT !.code = ins.body \o <<Clear(ins.s \ ctx)>> \o @])
    /\ ctx' = ctx \cup ins.s
    /\ UNCHANGED <<npa, top, sourceFlags>>
doOutsideOfContext ==
    /\ Change("Outside", [Done EXCEPT !.code = ins.body \o <<Set(ins.s \cap ctx)>> \o @])
    /\ ctx' = ctx \ ins.s
    /\ UNCHANGED <<npa, top, sourceFlags>>
(* The flags of S that shall be set; the others of S are cleared. *)
setContextFlag(op, values) ==
    /\ Change(op, Done)
    /\ ctx' = (ctx \ ins.s) \cup values
    /\ UNCHANGED <<npa, top, sourceFlags>>
SetFlags         == setContextFlag("Set", ins.s)
ClearFlags       == setContextFlag("Clear", {})
SetFlagsFromArg  == setContextFlag("SetFromArg", fr.arg \cap ins.s)
RestoreFlags     == setContextFlag("Restore", fr.ctx \cap ins.s)
LeaveTopLevel ==
    /\ Change("LeaveTop", Done) /\ top' = FALSE
    /\ UNCHANGED <<ctx, npa, sourceFlags>>
RestoreTopLevel ==
    /\ Change("RestoreTop", Done) /\ top' = fr.top
    /\ UNCHANGED <<ctx, npa, sourceFlags>>
SetSourceFlag ==
    /\ Change("SourceFlag", Done) /\ sourceFlags' = sourceFlags \cup {ins.x}
    /\ UNCHANGED <<ctx, npa, top>>
RememberNotArrow ==
    /\ Change("NotArrow", Done) /\ npa' = npa \cup {ScanFrom(fr.pos).pos}
    /\ UNCHANGED <<ctx, top, sourceFlags>>

-----------------------------------------------------------------------------
(* Lists: parseList and parseDelimitedList.  "start" is the position of the element that is *)
(* being parsed, 0 between elements.                                                        *)
ListFrame(i) ==
    [fn |-> i.f, code |-> <<>>, mode |-> "List", pos |-> scan.start, out |-> <<>>, arg |-> fr.arg,
     kind |-> i.kind, delimited |-> i.delimited, start |-> 0, plist |-> plist]
EnterList ==
    /\ Op("List")
    /\ plist' = plist \cup {ins.kind}
    /\ stack' = Append(Put(Done), ListFrame(ins))
    /\ UNCHANGED <<text, scan, diagnostics, ctx, npa, top, sourceFlags, ret, status>>
InList == status = "running" /\ fr.mode = "List"
(* The list ends with this value: its node, or nothing for a null pointer. *)
LeaveList(value) ==
    LET callers == Front(stack)
    IN  /\ plist' = fr.plist
        /\ stack' = [callers EXCEPT ![Len(callers)].out = @ \o value]
        /\ ret' = IF value = <<>> THEN "null" ELSE "List"
        /\ UNCHANGED <<text, ctx, npa, top, sourceFlags, status>>
EndList == LeaveList(<<ListNode(fr.kind, fr.pos, scan.start, fr.out)>>)
NextRound == stack' = Put([fr EXCEPT !.start = 0]) /\ UNCHANGED <<text, context, ret, status>>

AtElement == isListElement(fr.kind, scan, ctx, FALSE)
AtTerminator == isListTerminator(fr.kind, scan)
EndsBeforeElement == AtTerminator /\ (fr.delimited => ~AtElement)
parseListElement ==
    /\ InList /\ fr.start = 0 /\ AtElement /\ ~EndsBeforeElement
    /\ stack' = Append(Put([fr EXCEPT !.start = scan.start]),
                       Frame(fr.fn, Grammar[fr.fn], "Call", scan.start, <<>>, fr.arg, 0))
    /\ UNCHANGED <<text, scan, diagnostics, context, ret, status>>
ListTerminated ==
    /\ InList /\ fr.start = 0 /\ EndsBeforeElement
    /\ EndList /\ UNCHANGED <<scan, diagnostics>>
ParsingContext ==    \* without those of JSX and JSDoc
    {"SourceElements", "BlockStatements", "SwitchClauses", "SwitchClauseStatements", "TypeMembers", "ClassMembers",
     "EnumMembers", "HeritageClauseElement", "VariableDeclarations", "ObjectBindingElements",
     "ArrayBindingElements", "ArgumentExpressions", "ObjectLiteralMembers", "ArrayLiteralMembers", "Parameters",
     "RestProperties", "TypeParameters", "TypeArguments", "TupleElementTypes", "HeritageClauses",
     "ImportOrExportSpecifiers", "AssertEntries"}
isInSomeParsingContext ==
    \E kind \in ParsingContext \cap plist : isListElement(kind, scan, ctx, TRUE) \/ isListTerminator(kind, scan)
(* Every kind of list but one has an error of its own. *)
parsingContextErrors == IF fr.kind = "AssertEntries" THEN UNCHANGED diagnostics ELSE Report(scan.pos)
(* Mutant: a token that nothing can use stays the current one. *)
abortParsingListOrStay ==
    /\ InList /\ fr.start = 0 /\ ~AtElement /\ ~AtTerminator
    /\ Report(scan.pos)
    /\ IF isInSomeParsingContext THEN EndList ELSE NextRound
    /\ UNCHANGED scan
(* A token that no element starts with: the list ends where some list around it can go on, *)
(* else the token is skipped.                                                              *)
abortParsingListOrMoveToNextToken ==
    /\ InList /\ fr.start = 0 /\ ~AtElement /\ ~AtTerminator
    /\ parsingContextErrors
    /\ IF isInSomeParsingContext THEN EndList /\ UNCHANGED scan
       ELSE scan' = Advance(scan) /\ NextRound
ElementIsNull ==
    /\ InList /\ fr.start # 0 /\ ret = "null"
    /\ IF fr.delimited THEN LeaveList(<<>>) /\ UNCHANGED <<scan, diagnostics>> ELSE Raise("exception")
ElementParsed ==
    /\ InList /\ fr.start # 0 /\ ret # "null" /\ ~fr.delimited
    /\ NextRound /\ UNCHANGED <<scan, diagnostics>>
(* Behind the element of a delimited list: a comma, the end of the list, or an error; then a *)
(* semicolon may stand for the comma, and a round that read nothing skips a token.           *)
AfterElement ==
    LET semicolon == /\ fr.kind \in {"ObjectLiteralMembers", "AssertEntries"}
                     /\ scan.tok = ";" /\ ~hasPrecedingLineBreak(scan)
        next == IF semicolon THEN Advance(scan) ELSE scan
    IN  /\ InList /\ fr.start # 0 /\ ret # "null" /\ fr.delimited
        /\ CASE scan.tok = "," -> scan' = Advance(scan) /\ NextRound /\ UNCHANGED diagnostics
             [] scan.tok # "," /\ AtTerminator -> EndList /\ UNCHANGED <<scan, diagnostics>>
             [] OTHER -> /\ Report(scan.pos)
                         /\ scan' = IF next.start = fr.start THEN Advance(next) ELSE next
                         /\ NextRound

-----------------------------------------------------------------------------
Next ==
    \/ Branch \/ Loop \/ Restart \/ Call \/ Speculate \/ EndFrame \/ Return_ \/ Answer_ \/ Fail_ \/ Throw_
    \/ NextToken_ \/ ExpectToken \/ TakeToken \/ RescanToken \/ UnterminatedRegularExpression \/ createMissingNode \/ ParseError
    \/ finishNode \/ createNodeArray \/ createMissingList \/ DropLast \/ UnwrapFirst
    \/ AsOptionalType_ \/ AskBlockingError
    \/ SingleParameter \/ MarkModifiersAmbient \/ SetFlag \/ RememberErrors \/ ReparseChain
    \/ doInsideOfContext \/ doOutsideOfContext \/ SetFlags \/ ClearFlags \/ SetFlagsFromArg
    \/ RestoreFlags \/ LeaveTopLevel \/ RestoreTopLevel \/ SetSourceFlag \/ RememberNotArrow
    \/ EnterList \/ parseListElement \/ ListTerminated \/ abortParsingListOrMoveToNextToken
    \/ ElementIsNull \/ ElementParsed \/ AfterElement \/ Finished

Spec == Init /\ [][Next]_vars /\ WF_vars(Next)

-----------------------------------------------------------------------------
(* Properties. *)
(* speculationHelper asserts that the context flags after a speculative parse are those from   *)
(* before it: every function that ends early inside of it has restored what it had changed.    *)
(* A file ends with the context flags and list contexts it started with.                       *)
ContextKept ==
    /\ status = "running" /\ fr.mode \in {"Try", "Look"} /\ fr.code = <<>> => ctx = fr.ctx
    /\ status = "parsed" => ctx = {} /\ plist = {}

(* Every element that parseList parses takes at least one token; else the list never ends.     *)
ListsProgress ==
    status = "running" /\ fr.mode = "List" /\ fr.start # 0 /\ ~fr.delimited /\ ret # "null" =>
        scan.start > fr.start

(* The tree of a parsed file. *)
tree == stack[1].out[1]
Parsed == status = "parsed"
RECURSIVE NodesOf(_)
NodesOf(n) == {n} \cup UNION {NodesOf(n.c[i]) : i \in DOMAIN n.c}
(* The children with a range; a list or a pair of parentheses without one is looked through.   *)
RECURSIVE Ranges(_)
Ranges(c) ==
    FlattenSeq([i \in DOMAIN c |-> IF c[i].pos >= 0 THEN <<c[i]>> ELSE Ranges(c[i].c)])
(* The children of a node lie in its range, one behind the other: positions read back from the *)
(* tree (for messages, for the source map) are those of the source.                            *)
RangesNested ==
    Parsed => \A n \in NodesOf(tree) :
        LET r == Ranges(n.c)
        IN  /\ n.pos >= 0 => \A i \in DOMAIN r : n.pos <= r[i].pos /\ r[i].end <= n.end
            /\ \A i \in DOMAIN r : i > 1 => r[i - 1].end <= r[i].pos
(* Every node has the children that its struct requires, of the kinds the fields are declared  *)
(* with, in the order in which forEachChild visits them: what to<T>() and the readers of the   *)
(* tree rely on and no pointer checks.  Two fields are null in spite of their declaration: the *)
(* body of a method without one, and the type of an alias to "intrinsic.x", which is an error. *)
Nullable == {<<"MethodDeclaration", "body">>} \cup {<<"TypeAliasDeclaration", "type">> : i \in DOMAIN errs}
TreeWellFormed ==
    Parsed => \A n \in NodesOf(tree) : n.kind \in DOMAIN Order => WellFormed(n, Nullable)
(* A node that stands for nothing in the source was made where an error was reported: no       *)
(* rewound lookahead takes the error of a node that stays in the tree with it.                 *)
MissingNodesReported ==
    Parsed => \A n \in NodesOf(tree) :
        nodeIsMissing(n) /\ n.kind \notin {"List", "OmittedExpression"} =>
            \E i \in DOMAIN errs : errs[i] \in {n.pos, ScanFrom(n.pos).pos}
(* The factory adds no parentheses to an expression of a file without errors: the parser has   *)
(* built it with the precedence and associativity the factory assumes.                         *)
NoParenthesesAdded ==
    Parsed /\ errs = <<>> => \A n \in NodesOf(tree) : n.kind = "ParenthesizedExpression" => n.pos >= 0 /\ n.c[1].pos > n.pos
(* Every file comes to an end: parsed, or with an exception or a fault.                        *)
Terminates == <>(status # "running")
=============================================================================
