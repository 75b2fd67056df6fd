------------------------------ MODULE Programs ------------------------------
(* Constructors for the syntax trees of module Compiler. *)
EXTENDS Compiler

kw(op) == [k |-> "kw", op |-> op]
num(text) == [k |-> "literal", op |-> "NumberLiteral", text |-> text]
str(text) == [k |-> "literal", op |-> "StringLiteral", text |-> text]
ref(name, args) == [k |-> "ref", name |-> name, args |-> args]
el(t) == [t |-> t, rest |-> FALSE, flags |-> {}]
spread(t) == [t |-> t, rest |-> TRUE, flags |-> {}]
tuple(els) == [k |-> "tuple", els |-> els]
union(ts) == [k |-> "union", ts |-> ts]
arr(t) == [k |-> "array", t |-> t]
object(ms) == [k |-> "object", ms |-> ms]
member(name, t) == [name |-> name, t |-> t, flags |-> {}]
index(o, i) == [k |-> "index", o |-> o, i |-> i]
len(o) == [k |-> "length", o |-> o]
cond(check, ext, yes, no) == [k |-> "cond", check |-> check, ext |-> ext, yes |-> yes, no |-> no]

param(name) == [name |-> name, default |-> Absent, constraint |-> Absent]
paramDefault(name, t) == [name |-> name, default |-> t, constraint |-> Absent]
paramExtends(name, t) == [name |-> name, default |-> Absent, constraint |-> t]
alias(name, params, t) == [k |-> "alias", name |-> name, params |-> params, t |-> t]
const(name, t, init) == [k |-> "variable", name |-> name, t |-> t, init |-> init, const |-> TRUE]
let(name, init) == [k |-> "variable", name |-> name, t |-> Absent, init |-> init, const |-> FALSE]
span(t, text) == [t |-> t, text |-> text]
template(head, spans) == [k |-> "template", head |-> head, spans |-> spans]
holder(t) == template("", <<span(t, "")>>)
ident(name) == [k |-> "ident", name |-> name, args |-> <<>>]
paren(e) == [k |-> "paren", e |-> e]
choice(yes, no) == [k |-> "choice", yes |-> yes, no |-> no]
property(e, name) == [k |-> "property", e |-> e, name |-> name]
new(e, args) == [k |-> "new", e |-> e, types |-> <<>>, args |-> args]
call(e, args) == [k |-> "call", e |-> e, types |-> <<>>, args |-> args]
instantiate(e, types) == [k |-> "instantiate", e |-> e, types |-> types]
arg(name, t, optional, init) == [name |-> name, t |-> t, optional |-> optional, init |-> init]
fn(name, ps, t, body) == [k |-> "function", name |-> name, tps |-> <<>>, ps |-> ps, t |-> t, body |-> body, junk |-> FALSE]
block(ss) == [k |-> "block", ss |-> ss]
return(e) == [k |-> "return", name |-> "", e |-> e]
iff(yes, no) == [k |-> "if", yes |-> yes, no |-> no]
declaration(f) == [k |-> "declaration", name |-> f.name, function |-> f]
method(f, flags) == [k |-> "method", function |-> f, flags |-> flags]
field(name) == [k |-> "field", name |-> name]
class(name, ms) == [k |-> "class", name |-> name, tps |-> <<>>, ms |-> ms]
expression(e) == [k |-> "expression", name |-> "", e |-> e]
assign(name, right) == [k |-> "assign", name |-> name, right |-> right]
=============================================================================
