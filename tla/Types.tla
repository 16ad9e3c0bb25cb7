-------------------------------- MODULE Types --------------------------------
(***************************************************************************)
(* The type rules of src/semantic.c: check_expr, check_var, check_args and *)
(* check_stmt with match_type, actual_type, ordinal_type and check_ioproc. *)
(*                                                                         *)
(* The functions call each other along the syntax tree; here their calls   *)
(* are steps in the order in which they return.  `checked` holds what the  *)
(* calls of the current statement have returned and the caller has not yet *)
(* used, with a record for each index or argument list that has begun, so  *)
(* that a behaviour is a sequence of statements with its validation and an *)
(* expression of any depth is a sequence of steps.                         *)
(*                                                                         *)
(* A name is what global_lookup finds for it.  A Type_ty is a pointer: the *)
(* basic types are one record each, an array or a set is that of a type    *)
(* name, or another one at every use ("new").  A Type_name whose type was  *)
(* never resolved has kind "name", the pointer NULL has kind "null".       *)
(***************************************************************************)
EXTENDS Naturals, Sequences

CONSTANTS TypeNames,  \* names of array and set types, and of what is taken for a type
          Declared,   \* bound: the types that variables and type names have
          Functions,  \* bound: the parameters and results of functions
          MaxArgs,    \* bound: arguments in a call
          MaxChecked, \* bound: results and tests of if statements kept at once
          MaxIfs      \* bound: if statements in each other

Base == {"int", "longint", "real", "string", "char", "bool"}
Integral == {"int", "longint"}
Numeric == Integral \cup {"real"}

Static(k) == [kind |-> k, of |-> "none", name |-> "static"]

\* Where a type is named the symbol may be a variable's or a function's: its entry
\* is then read as a type, whose kind is int for a variable and longint for a
\* function, but which is not the record of these types.
ForeignType == [kind : Integral, of : {"none"}, name : TypeNames]

Foreign(t) == t.kind \in Integral /\ t.name # "static"

\* The types of declarations; bound: elements are of a basic type.
DeclaredType == {Static(k) : k \in Base \cup {"name"}} \cup ForeignType \cup
                [kind : {"arr", "set"}, of : Base, name : TypeNames \cup {"new"}]

Type == DeclaredType \cup {Static(k) : k \in {"void", "null"}}

ASSUME TypesBounds ==
  /\ Declared \subseteq DeclaredType
  /\ Functions \subseteq [params : Seq(DeclaredType), result : DeclaredType]
  /\ MaxArgs \in Nat /\ MaxChecked \in Nat /\ MaxIfs \in Nat

VARIABLES checked, \* results that are waiting for their use, and what has begun
          ifs,     \* what is known of the tests of the if statements around
          failed,  \* the error counter, as "> 0"
          status,  \* running or crashed
          strange, \* ghost: has an exceptional name or list been met
          broken   \* ghost: the rules the last step's operands broke, up to
                   \* the first error

vars == <<checked, ifs, failed, status, strange, broken>>

\* What a name can be: nothing, or the value that its symbol has.
Entity(is, t, params) == [is |-> is, ty |-> t, params |-> params]

Nothing == Entity("none", Static("void"), << >>)

\* A type name for a variable has the variable's entry and is one.
Entities ==
  {Nothing} \cup {Entity("var", t, << >>) : t \in Declared}
            \cup {Entity("type", t, << >>) : t \in {d \in Declared : d.name # "new" /\ ~Foreign(d)}}
            \cup {Entity("func", f.result, f.params) : f \in Functions}

\* The calls end without returning what the recursive call has returned, which
\* this build, without optimisation, returns all the same: NULL.
actual_type(t) == IF t.kind = "name" THEN Static("null") ELSE t

Faulty(t) == t.kind = "null"

match_type(a, b) ==
  LET s == actual_type(a)
      t == actual_type(b)
  IN  \/ s = t /\ s.name # "new"
      \/ s.kind = "longint" /\ t.kind = "int"
      \/ s.kind = "int" /\ t.kind = "longint"

\* match_type reads both kinds unless both pointers are NULL.
match_faults(a, b) == Faulty(actual_type(a)) # Faulty(actual_type(b))

ordinal_type(t) == t.kind \notin {"null", "real", "string"}

check_ioproc(t) == t.kind \notin {"null", "arr", "set", "bool", "void"}

Elem(t) == Static(t.of)

\* What an assignment compares: of an array or a set the type of its elements.
Unwrapped(t) == IF t.kind \in {"arr", "set"} THEN Elem(t) ELSE t

-----------------------------------------------------------------------------
\* What a call has returned, with the numeric types its value is computed from.
Result(form, t, leaves) == [form |-> form, ty |-> t, leaves |-> leaves, rest |-> << >>]

Expr(t) == Result("expr", t, {t.kind} \cap Numeric)

Variable(t) == Result("var", t, {t.kind} \cap Numeric)

Misread(t) == Result("misread", t, {})

\* An index expression or an argument list that has begun.
Begun(form, t, rest) == [form |-> form, ty |-> t, leaves |-> {}, rest |-> rest]

Top == checked[Len(checked)]
Second == checked[Len(checked) - 1]

IsVar(r) == r.form \in {"var", "misread"}

IsResult(r) == IsVar(r) \/ r.form \in {"expr", "set"}

HasResult == checked # << >> /\ IsResult(Top)

HasTwo == Len(checked) > 1 /\ IsResult(Top) /\ IsResult(Second)

Running == status = "running"

Rule(name, holds) == IF holds THEN {} ELSE {name}

\* The last n entries make way for `results`.  An array of strings among them has
\* been read as a string, or its element as a character: whatever is decided of
\* it, it is not decided by its type.
Returns(n, results, error, rules) ==
  /\ checked' = SubSeq(checked, 1, Len(checked) - n) \o results
  /\ failed' = (failed \/ error)
  /\ LET used == {checked[k] : k \in Len(checked) - n + 1 .. Len(checked)}
     IN  broken' = IF failed THEN {}
                   ELSE rules \cup Rule("string array", \A r \in used : r.form # "misread")
  /\ UNCHANGED <<ifs, status>>

Dies == status' = "crashed" /\ broken' = {} /\ UNCHANGED <<checked, ifs, failed>>

Known == UNCHANGED strange

Meets(unusual) == strange' = (strange \/ unusual)

Unusual(e) ==
  \/ e.is = "type"
  \/ e.ty.kind = "name"
  \/ \E k \in DOMAIN e.params : e.params[k].kind = "name"

Enters == Running /\ Len(checked) + Len(ifs) < MaxChecked

-----------------------------------------------------------------------------
(* The rules that the error messages state.  A rule is broken by the       *)
(* operands as they are, whether or not the code notices; those that have  *)
(* a name of their own in Gaps are the ones it is known not to notice, and *)
(* in Refusals are the names of what it is known to object to although no  *)
(* message speaks of it.                                                   *)

Gaps == {"string operator", "string index", "ordinal", "function", "element",
         "level", "constructor", "longint", "unresolved", "type", "string array", "no type"}

Refusals == {"longint bound", "structure", "typeless set", "string array", "no type"}

\* An integer value; with a longint among its operands real is no more visible.
Whole(r, rule) ==
  IF r.ty.kind \notin Integral THEN {rule} ELSE Rule("longint", "real" \notin r.leaves)

\* An index or a bound: longint is refused, though it is an integer.
Bound(r, rule) == Whole(r, rule) \cup Rule("longint bound", r.ty.kind # "longint")

\* A set constructor has the type of its elements and passes for a character.
Proper(r) == Rule("constructor", r.form # "set")

Concatenates(l, r) == l.ty.kind = "string" /\ r.ty.kind \in {"string", "char"}

OperatorRules(op, l, r) ==
  IF op \in {"plus", "times", "div"} /\ Concatenates(l, r) THEN Rule("string operator", op = "plus")
  ELSE CASE op = "div" -> Whole(l, "division") \cup Whole(r, "division")
         [] op \in {"plus", "times", "relation"} ->
              Rule("number", l.ty.kind \in Numeric /\ r.ty.kind \in Numeric)
         [] op = "bool" -> Rule("boolean", l.ty.kind = "bool" /\ r.ty.kind = "bool")
         [] op = "in" -> Rule("set", r.ty.kind = "set") \cup
                         Rule("element", r.ty.kind = "set" => l.ty.kind = r.ty.of)

\* What is named as a type is one: entries are compared, and none but itself is
\* the entry of a variable or a function.
AreTypes(a, b) == Rule("no type", ~Foreign(a) /\ ~Foreign(b))

Compatible(a, b) ==
  \/ a.kind = b.kind /\ a.of = b.of
  \/ a.kind \in Integral /\ b.kind \in Integral

\* What a set constructor of other constants than characters can be assigned to
\* is not known: it has no type.
AssignRules(v, r) ==
  IF r.form = "set" THEN IF r.ty.kind = "void" THEN {"typeless set"}
                         ELSE Rule("constructor", v.ty.kind = "set" /\ v.ty.of = r.ty.kind)
  ELSE IF ~Compatible(Unwrapped(v.ty), Unwrapped(r.ty)) THEN {"assign"}
  ELSE Rule("level", Compatible(v.ty, r.ty)) \cup AreTypes(v.ty, r.ty) \cup
       (IF v.ty.kind \in Integral /\ r.ty.kind \in Integral THEN Whole(r, "assign") ELSE {})

\* NULL, for a type that was not resolved, matches NULL; an array or a set of the
\* same structure is refused unless it has the very type of the parameter.
ArgumentRules(param, r) ==
  Proper(r) \cup
  (IF param.kind \in Integral THEN Whole(r, "argument") \cup AreTypes(param, r.ty)
   ELSE IF param.kind = "name" THEN {"unresolved"}
   ELSE IF ~Compatible(param, r.ty) THEN {"argument"}
   ELSE Rule("structure", param.kind \in {"arr", "set"} => param = r.ty /\ param.name # "new"))

-----------------------------------------------------------------------------
(* check_var and the constants                                             *)

TypesInit ==
  /\ checked = << >> /\ ifs = << >>
  /\ failed = FALSE /\ status = "running"
  /\ strange = FALSE /\ broken = {}

Constant(k) ==
  /\ Enters
  /\ Returns(0, <<Expr(Static(k))>>, FALSE, {}) /\ Known

\* A set from one constant to another; the order counts for characters.
SetConstruct(lo, hi, ascending) ==
  /\ Enters
  /\ Returns(0, <<Result("set", Static(IF lo = "char" /\ ascending THEN lo ELSE "void"), {})>>,
             lo # hi \/ (lo = "char" /\ ~ascending),
             Rule("same bounds", lo = hi) \cup Rule("lower bound", lo = "char" => ascending))
  /\ Known

StringArray(e) == e.is = "var" /\ e.ty.kind = "arr" /\ e.ty.of = "string"

\* The value of integer's or longint's symbol passes for an entry without type.
entire_type_or(undefined, e) ==
  IF e.is = "var" /\ e.ty.kind = "set" THEN [e.ty EXCEPT !.name = "new"]
  ELSE IF StringArray(e) THEN Static("string")
  ELSE IF e.is \in {"var", "func"} THEN actual_type(e.ty)
  ELSE IF e.is = "type" /\ e.ty.kind = "longint" THEN Static("null")
  ELSE undefined

\* Variant: an undefined variable has no type.
entire_type_null(e) == entire_type_or(Static("null"), e)

entire_type(e) == entire_type_or(Static("int"), e)

entire_fails(e) == e.is = "none" \/ (e.is = "type" /\ e.ty.kind \notin Integral)

entire_faults(e) == (e.is = "var" /\ e.ty.kind = "name") \/ (e.is = "type" /\ e.ty.kind = "int")

\* The type that passes for an entry passes for a variable.
EntireRules(e) ==
  IF e.is = "type" /\ e.ty.kind \in Integral THEN {"type"} ELSE Rule("defined", e.is \in {"var", "func"})

EntireVar(e) ==
  /\ Enters
  /\ IF entire_faults(e) THEN Dies
     ELSE Returns(0, <<IF StringArray(e) THEN Misread(entire_type(e)) ELSE Variable(entire_type(e))>>,
                  entire_fails(e), EntireRules(e))
  /\ Meets(Unusual(e))

\* A variable with an index, which is read for arrays only; on the index of a
\* string stands any expression (`rules`).
IndexedVar(e, rules) ==
  /\ Enters
  /\ LET t == entire_type(e)
     IN  IF entire_faults(e) \/ Faulty(t) THEN Dies
         ELSE CASE t.kind = "arr" -> Returns(0, <<Begun("index", t, << >>)>>, entire_fails(e), {})
                [] t.kind = "string" ->
                     Returns(0, <<IF StringArray(e) THEN Misread(Static("char")) ELSE Variable(Static("char"))>>,
                             entire_fails(e), rules)
                [] OTHER -> Returns(0, <<Variable(Static("int"))>>, TRUE, {"array"})
  /\ Meets(Unusual(e))

EndIndexFor(kinds) ==
  /\ Running /\ HasResult /\ Len(checked) > 1 /\ Second.form = "index"
  /\ IF Faulty(Top.ty) THEN Dies
     ELSE Returns(2, <<IF Top.ty.kind \notin kinds THEN Variable(Static("int"))
                       ELSE IF Second.ty.of = "string" THEN Misread(Static("char"))
                       ELSE Variable(Elem(Second.ty))>>,
                  Top.ty.kind \notin kinds, Bound(Top, "index") \cup Proper(Top))
  /\ Known

\* Variant: any number will do as an index.
EndIndexNumber == EndIndexFor(Numeric)

EndIndex == EndIndexFor({"int"})

-----------------------------------------------------------------------------
(* check_expr                                                              *)

\* Variant: only the left operand makes a result longint.
ArithmeticTypeLeft(op, l, r) ==
  IF Concatenates(l, r) THEN Static("string")
  ELSE IF l.ty.kind = "longint" THEN Static("longint")
  ELSE IF op # "div" /\ "real" \in {l.ty.kind, r.ty.kind} THEN Static("real")
  ELSE Static("int")

ArithmeticType(op, l, r) ==
  IF Concatenates(l, r) THEN Static("string")
  ELSE IF "longint" \in {l.ty.kind, r.ty.kind} THEN Static("longint")
  ELSE IF op # "div" /\ "real" \in {l.ty.kind, r.ty.kind} THEN Static("real")
  ELSE Static("int")

OperatorFails(op, l, r) ==
  CASE op \in {"plus", "times"} ->
         ~Concatenates(l, r) /\ ~({l.ty.kind, r.ty.kind} \subseteq Numeric)
    [] op = "div" -> ~Concatenates(l, r) /\ ~({l.ty.kind, r.ty.kind} \subseteq Integral)
    [] op = "relation" -> ~({l.ty.kind, r.ty.kind} \subseteq Numeric)
    [] op = "bool" -> l.ty.kind # "bool" \/ r.ty.kind # "bool"
    [] op = "in" -> r.ty.kind # "set"

\* `in` does not look at its left operand, nor `and` and `or` at the right one
\* of a left one that is wrong.
OperatorFaults(op, l, r) ==
  \/ op # "in" /\ Faulty(l.ty)
  \/ Faulty(r.ty) /\ (op = "bool" => l.ty.kind = "bool")

\* The numeric types of both operands are those of an arithmetic result.
Operator(op) ==
  /\ Running /\ HasTwo
  /\ IF OperatorFaults(op, Second, Top) THEN Dies
     ELSE Returns(2, <<IF op \in {"relation", "bool", "in"} THEN Expr(Static("bool"))
                       ELSE Result("expr", ArithmeticType(op, Second, Top),
                                   Second.leaves \cup Top.leaves)>>,
                  OperatorFails(op, Second, Top),
                  OperatorRules(op, Second, Top) \cup Proper(Second) \cup Proper(Top))
  /\ Known

Negate ==
  /\ Running /\ HasResult
  /\ Returns(1, <<[Top EXCEPT !.form = "expr"]>>, FALSE, Proper(Top)) /\ Known

(***************************************************************************)
(* A call with n arguments.  What is no function is called without a       *)
(* complaint, and its arguments are not looked at; a name that is not      *)
(* found and a list that is empty are dereferenced.                        *)
(***************************************************************************)
BeginCall(e, n) ==
  /\ Enters
  /\ CASE e.is = "none" \/ (e.is = "type" /\ e.ty.kind = "longint") -> Dies
       [] e.is = "var" \/ (e.is = "type" /\ e.ty.kind # "longint") ->
            Returns(0, <<Expr(Static("void"))>>, FALSE, {"function"})
       [] e.is = "func" ->
            IF n = 0 \/ e.params = << >> THEN Dies
            ELSE IF n # Len(e.params) THEN Returns(0, <<Expr(Static("void"))>>, TRUE, {"count"})
            ELSE Returns(0, <<Begun("call", e.ty, e.params)>>, FALSE, {})
  /\ Meets(Unusual(e) \/ e.is = "none" \/ n = 0 \/ e.params = << >>)

ArgumentOf(least) ==
  /\ Running /\ HasResult /\ Len(checked) > 1 /\ Second.form = "call"
  /\ IF match_faults(Top.ty, Head(Second.rest)) THEN Dies
     ELSE Returns(2, <<IF ~match_type(Top.ty, Head(Second.rest)) THEN Expr(Static("void"))
                       ELSE IF Len(Second.rest) > least THEN [Second EXCEPT !.rest = Tail(@)]
                       ELSE Expr(actual_type(Second.ty))>>,
                  ~match_type(Top.ty, Head(Second.rest)),
                  ArgumentRules(Head(Second.rest), Top))
  /\ Known

\* Variant: the list of parameters is left one argument late.
ArgumentLate == ArgumentOf(0)

Argument == ArgumentOf(1)

\* A predefined function of the result on top, which ends in `t`.
Predefined(faults, t, fails, rules) ==
  /\ Running /\ HasResult
  /\ IF faults THEN Dies ELSE Returns(1, <<Expr(t)>>, fails, rules \cup Proper(Top))
  /\ Known

Ordinal(r) == Rule("ordinal", r.ty.kind \in {"int", "longint", "char", "bool"})

Ord == HasResult /\ IsVar(Top) /\ Predefined(FALSE, Static("int"), ~ordinal_type(Top.ty), Ordinal(Top))

Chr == Predefined(FALSE, Static("char"), ~ordinal_type(Top.ty), Ordinal(Top))

Length ==
  Predefined(Faulty(Top.ty), Static("int"), Top.ty.kind \notin {"string", "arr"},
             Rule("length", Top.ty.kind \in {"string", "arr"}))

\* low and high alike: the type of the elements, not of the index.
LowHigh ==
  /\ HasResult /\ IsVar(Top)
  /\ Predefined(Faulty(Top.ty), IF Top.ty.kind = "arr" THEN Elem(Top.ty) ELSE Static("int"),
                Top.ty.kind # "arr", Rule("bounds", Top.ty.kind = "arr"))

Random ==
  Predefined(Faulty(Top.ty), IF Top.ty.kind \in Integral THEN Top.ty ELSE Static("void"),
             Top.ty.kind \notin Integral, Whole(Top, "random"))

-----------------------------------------------------------------------------
(* check_stmt                                                              *)

\* The statement has all its operands, n of them.
Complete(n) == Running /\ Len(checked) = n /\ \A k \in 1 .. n : IsResult(checked[k])

\* The statement ends, and with it what it has kept.
Ends(faults, fails, rules) ==
  /\ IF faults THEN Dies ELSE Returns(Len(checked), << >>, fails, rules)
  /\ Known

AssignFaults(v, r) == Faulty(v.ty) \/ Faulty(r.ty)

\* Variant: the types have to be the same.
AssignFailsUnlike(v, r) == Unwrapped(v.ty) # Unwrapped(r.ty)

AssignFails(v, r) == ~match_type(Unwrapped(v.ty), Unwrapped(r.ty))

Assign ==
  /\ Complete(2) /\ IsVar(checked[1])
  /\ Ends(AssignFaults(checked[1], checked[2]), AssignFails(checked[1], checked[2]),
          AssignRules(checked[1], checked[2]))

\* The start of a for statement, whose lower bound only the assignment tests.
For ==
  /\ Complete(3) /\ IsVar(checked[1])
  /\ LET v == checked[1]
         lo == checked[2]
         to == checked[3]
     IN  Ends(AssignFaults(v, lo) \/ Faulty(to.ty),
              AssignFails(v, lo) \/ v.ty.kind \notin Integral \/ to.ty.kind # "int",
              AssignRules(v, lo) \cup Rule("variable", v.ty.kind \in Integral)
                \cup Bound(to, "high") \cup Proper(to))

While ==
  /\ Complete(1)
  /\ Ends(Faulty(Top.ty), Top.ty.kind \notin {"int", "bool"},
          Rule("while", Top.ty.kind \in {"int", "bool"}) \cup Proper(Top))

\* write, writeln and, with a variable, readln.
InOut ==
  /\ Complete(1)
  /\ Ends(FALSE, ~check_ioproc(Top.ty),
          Rule("in or out", Top.ty.kind \in Numeric \cup {"string", "char"}) \cup Proper(Top))

Inc ==
  /\ Complete(1) /\ IsVar(Top)
  /\ Ends(Faulty(Top.ty), ~match_type(Top.ty, Static("int")),
          Whole(Top, "inc") \cup AreTypes(Top.ty, Static("int")))

SetLength ==
  /\ Complete(2)
  /\ Ends(Faulty(checked[1].ty) \/ Faulty(checked[2].ty),
          checked[1].ty.kind # "arr" \/ checked[2].ty.kind \notin Integral,
          Rule("array", checked[1].ty.kind = "arr") \cup Whole(checked[2], "length") \cup Proper(checked[2]))

\* The test of an if statement is looked at after the statements in it.
If ==
  /\ Complete(1) /\ Len(ifs) < MaxIfs
  /\ ifs' = Append(ifs, [null |-> Faulty(Top.ty), bool |-> Top.ty.kind = "bool", set |-> Top.form = "set"])
  /\ checked' = << >>
  /\ broken' = {}
  /\ UNCHANGED <<failed, status, strange>>

EndIf ==
  /\ Complete(0) /\ ifs # << >>
  /\ LET test == ifs[Len(ifs)]
     IN  IF test.null THEN Dies
         ELSE /\ ifs' = SubSeq(ifs, 1, Len(ifs) - 1)
              /\ failed' = (failed \/ ~test.bool)
              /\ broken' = IF failed THEN {} ELSE Rule("test", test.bool) \cup Rule("constructor", ~test.set)
              /\ UNCHANGED <<checked, status>>
  /\ Known

\* The validator has crashed, or there is no room for the rest of the statement.
Stops == (status = "crashed" \/ Len(checked) + Len(ifs) = MaxChecked) /\ UNCHANGED vars

-----------------------------------------------------------------------------
Expression ==
  \/ \E k \in {"int", "real", "string", "char", "bool"} : Constant(k)
  \/ \E lo, hi \in {"int", "real", "string", "char", "bool"}, up \in BOOLEAN : SetConstruct(lo, hi, up)
  \/ \E e \in Entities : EntireVar(e)
  \/ \E e \in Entities, rules \in SUBSET {"string index"} : IndexedVar(e, rules)
  \/ EndIndex
  \/ \E op \in {"plus", "times", "div", "relation", "bool", "in"} : Operator(op)
  \/ Negate
  \/ \E e \in Entities, n \in 0 .. MaxArgs : BeginCall(e, n)
  \/ Argument
  \/ Ord \/ Chr \/ Length \/ LowHigh \/ Random

Statement ==
  Assign \/ For \/ While \/ InOut \/ Inc \/ SetLength \/ If \/ EndIf

TypesNext == Expression \/ Statement \/ Stops

TypesSpec == TypesInit /\ [][TypesNext]_vars

-----------------------------------------------------------------------------
(* Properties                                                              *)

\* The type invariant: an index has begun for an array, a call has parameters
\* left, and what is not complete is never taken for a result.
TypesTypeOK ==
  /\ checked \in Seq([form : {"var", "misread", "expr", "set", "index", "call"}, ty : Type,
                      leaves : SUBSET Numeric, rest : Seq(DeclaredType)])
  /\ \A k \in DOMAIN checked :
       /\ checked[k].form = "index" => checked[k].ty.kind = "arr"
       /\ checked[k].form = "call" <=> checked[k].rest # << >>
  /\ ifs \in Seq([null : BOOLEAN, bool : BOOLEAN, set : BOOLEAN])
  /\ failed \in BOOLEAN /\ strange \in BOOLEAN
  /\ status \in {"running", "crashed"}

\* As long as no error has been reported, the rules of the messages were kept by
\* all that has been checked, but for the gaps in the code that have a name.
OnlyGapsBroken == ~failed => broken \subseteq Gaps

\* The first error is reported where operands break a rule, or for one of the
\* known refusals: what keeps the rules is otherwise not objected to.
NoFalseAlarm == [][~failed /\ failed' => broken' # {}]_vars

\* An accepted number has the type of the strongest number it is computed from,
\* wherever that stands: longint before real, real before integer.
Strongest(kinds) ==
  IF "longint" \in kinds THEN "longint" ELSE IF "real" \in kinds THEN "real" ELSE "int"

StrongestLeaf ==
  ~failed =>
    \A k \in DOMAIN checked :
      IsResult(checked[k]) /\ checked[k].ty.kind \in Numeric =>
        checked[k].ty.kind = Strongest(checked[k].leaves)

\* However wrong its types are, only a program that calls what is not declared,
\* has an empty list of arguments or parameters, a type that was not resolved,
\* or uses a type as a variable ends the validator.
CrashesKnown == status = "crashed" => strange

=============================================================================
