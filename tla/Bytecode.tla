------------------------------ MODULE Bytecode ------------------------------
(***************************************************************************)
(* Reading a binary that Program::build() wrote (checker/module2.h,        *)
(* checker/utils.h): its storage, the table of its subroutines, and the    *)
(* widths of its OPs.  Cell i + 1 of a binary is its byte i.               *)
(***************************************************************************)
EXTENDS Compiler

\* readUint16(), readUint32(): a parameter is its value and the zeros that fill it.
Read(bin, i) == bin[i + 1]

\* Type::readStorage(): the hash and the text at an address.
ReadStorage(bin, address) ==
    LET size == Read(bin, address + HashSize)
        data == address + HashSize + 2
    IN  [hash |-> Read(bin, address),
         text |-> FoldLeft(LAMBDA acc, i : acc \o Read(bin, data + i - 1), "", [i \in 1..size |-> i])]

\* Variant: the number of arguments is forgotten.
AddressParams == 4

\* The bytes of parameters behind an OP, as eatParams() knows them: an address
\* and a number of arguments, or a slot and a distance, take six.
CallParams == 4 + 2

EatParams(op) ==
    CASE op \in {"TailCall", "Call", "Distribute"} -> CallParams
      [] op = "Subroutine" -> 4 + 4 + 1
      [] op \in {"ClassRef", "FunctionRef"} -> 4 + 4
      [] op \in {"Jump", "JumpCondition", "Set", "CheckBody", "InferBody", "SelfCheck", "Inline", "TypeArgumentDefault",
                 "Loads", "Parameter", "NumberLiteral", "BigIntLiteral", "StringLiteral"} -> 4
      [] op \in {"New", "Instantiate", "InferTypeArguments", "Error", "Method", "Function", "Union", "Tuple",
                 "TemplateLiteral", "Class", "ObjectLiteral", "Slots", "CallExpression"} -> 2
      [] OTHER -> 0

\* parseHeader(): over the storage and the source map to the subroutines, up to
\* Main.  The first one is main.
RECURSIVE HeaderFrom(_, _)
HeaderFrom(bin, i) ==
    LET op == Read(bin, i)
        nameAddress == Read(bin, i + 1)
    IN  CASE op = "Jump" -> HeaderFrom(bin, Read(bin, i + 1))
          [] op = "SourceMap" -> HeaderFrom(bin, i + 4 + Read(bin, i + 1) + 1)
          [] op = "Subroutine" ->
                <<[name    |-> IF nameAddress = 0 THEN "" ELSE ReadStorage(bin, nameAddress).text,
                   address |-> Read(bin, i + 5)]>> \o HeaderFrom(bin, i + EatParams(op) + 1)
          [] op = "Main" -> <<>>
          [] OTHER -> HeaderFrom(bin, i + 1)

ParseHeader(bin) == HeaderFrom(bin, 0)

\* parseBin() of checker/debug.h, which prints a binary: over the storage, then
\* from OP to OP by their widths.  Behind Main and every Return starts the
\* subroutine that has this address, if there is one.  Whatever byte it comes to
\* is taken for an OP.  The places of the OPs, each with its subroutine.
IsOp(cell) == SubSeq(ToString(cell), 1, 1) = "\""
OpAt(cell) == IF IsOp(cell) THEN cell ELSE IF cell % 256 < Len(OP) THEN OP[(cell % 256) + 1] ELSE "Noop"

RECURSIVE OpsFrom(_, _, _, _, _)
OpsFrom(bin, subs, i, active, newSubRoutine) ==
    LET op    == OpAt(Read(bin, i))
        width == IF op = "SourceMap" THEN 4 + Read(bin, i + 1) ELSE EatParams(op)
        here  == {r \in DOMAIN subs : newSubRoutine /\ subs[r].address = i}
        sub   == IF here = {} THEN active ELSE Min(here)
    IN  IF i >= Len(bin) THEN {}
        ELSE {<<sub, i>>} \cup OpsFrom(bin, subs, i + 1 + width, sub, op \in {"Main", "Return"})

ParseBin(bin) == OpsFrom(bin, HeaderFrom(bin, 0), Read(bin, 1), NoRoutine, FALSE)
=============================================================================
