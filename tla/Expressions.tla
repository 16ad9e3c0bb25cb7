----------------------------- MODULE Expressions -----------------------------
(***************************************************************************)
(* codegen_expr of src/translate.c: how the instructions of an expression  *)
(* are numbered and which registers they print as operands, in the text    *)
(* that goes to stderr.  Constants, types and names are left out.          *)
(*                                                                         *)
(* As in Declarations the program is not a constant: a step that comes to  *)
(* a subexpression chooses its kind among those semantic.c lets pass.  The *)
(* recursion of the code is the sequence `todo` of the calls in progress,  *)
(* the innermost last; an entry says what is left to do in that call.      *)
(*                                                                         *)
(* Three ghosts tell right from wrong: `result` is the register that holds *)
(* the value of the expression generated last (None: no instruction of its *)
(* own computes it), `defined` lists the registers defined in the function *)
(* being generated, and `printed` holds the operands the last step wrote,  *)
(* each with the register that was printed and the register that holds the *)
(* value it stands for.                                                    *)
(***************************************************************************)
EXTENDS Integers, Sequences

CONSTANTS MaxArgs,   \* bound: arguments of a call
          MaxDepth,  \* bound: calls of codegen_expr and codegen_stmt in progress
          MaxRegs    \* bound: no new operators once stack_counter is that high

ASSUME ExpressionBounds == MaxArgs \in Nat \ {0} /\ MaxDepth \in Nat /\ MaxRegs \in Nat

VARIABLES todo, stack_counter, result, defined, printed,
          bodies  \* 0 in the main program, then the number of the function

evars == <<todo, stack_counter, result, defined, printed, bodies>>

None == -1  \* no register

(***************************************************************************)
(* Kinds of expressions: constants and variables are printed where they    *)
(* stand; arith and rel are the operators that are implemented; unsupported*)
(* is an operator and other an expression that only prints a message, and  *)
(* so does indexed, an element of an array, where it is not looked up.     *)
(* opcall is a call that has an operator among its arguments.              *)
(***************************************************************************)
Var == {"global", "local"}
Direct == Var \cup {"prim", "indexed"}
Operator == {"arith", "rel", "unsupported"}
Call == {"call", "opcall"}
ExprKind == Direct \cup Operator \cup Call \cup {"other"}
Numeric == ExprKind \ {"rel"}

Deep == Len(todo) >= MaxDepth \/ stack_counter >= MaxRegs

\* The choices for a subexpression; the main program has no local variables.
Allowed(kinds) ==
  (IF Deep THEN kinds \cap (Direct \cup {"unsupported", "other"}) ELSE kinds)
  \ (IF bodies = 0 THEN {"local"} ELSE {})

\* Operands for which codegen_expr is called before the instruction is printed.
Generated(op) == IF op = "rel" THEN Operator \cup Call ELSE Operator

\* An operand in the text: its place, the kind of expression it stands for, the
\* register printed and the register that holds the value.
Operand(place, kind, reg, holds) ==
  [place |-> place, kind |-> kind, reg |-> reg, holds |-> holds]

Entry(what, kind) == [do |-> what, kind |-> kind]

Top == todo[Len(todo)]

Below == SubSeq(todo, 1, Len(todo) - 1)

Replace(entry) == Append(Below, entry)

\* The entry that takes the place of the top one, and the call it waits for.
ReplaceAndPush(entry, callee) == Append(Replace(entry), callee)

ReplaceAndCall(entry, kind) == ReplaceAndPush(entry, Entry("expr", kind))

At(what) == todo # << >> /\ Top.do = what

\* The next register is taken by an instruction that prints `operands`.
Define(operands) ==
  /\ stack_counter' = stack_counter + 1
  /\ defined' = Append(defined, stack_counter + 1)
  /\ printed' = operands

Quiet == UNCHANGED <<stack_counter, defined>> /\ printed' = {}

\* The process dies in the innermost call; nothing is done after "crashed".
Crash ==
  /\ todo' = Replace(Entry("crashed", Top.kind))
  /\ UNCHANGED result
  /\ Quiet

-----------------------------------------------------------------------------
\* An expression without instructions: a name, a constant or an error message.
Leaf ==
  /\ At("expr")
  /\ Top.kind \in Direct \cup {"unsupported", "other"}
  /\ todo' = Below
  /\ result' = None
  /\ Quiet

(***************************************************************************)
(* The implemented operators.  "second": the left operand is done and      *)
(* lctr, a variable of the relational cases, has been set from it or not.  *)
(* "emit": both are done.                                                  *)
(***************************************************************************)
Binary(op, l, r) == [do |-> "second", kind |-> op, left |-> l, right |-> r]

FirstOperand(l, r) ==
  /\ At("expr")
  /\ Top.kind \in {"arith", "rel"}
  /\ todo' = IF l \in Generated(Top.kind)
             THEN ReplaceAndCall(Binary(Top.kind, l, r), l)
             ELSE Replace(Binary(Top.kind, l, r))
  /\ result' = None
  /\ Quiet

SecondOperand ==
  /\ At("second")
  /\ LET emit == [do |-> "emit", kind |-> Top.kind, left |-> Top.left, right |-> Top.right,
                  lctr |-> IF Top.left \in Generated(Top.kind) THEN stack_counter ELSE None,
                  lholds |-> result]
     IN  todo' = IF Top.right \in Generated(Top.kind)
                 THEN ReplaceAndCall(emit, Top.right)
                 ELSE Replace(emit)
  /\ result' = None
  /\ Quiet

\* The left register as +, -, * and / print it; n is the new instruction's own.
ArithLeft(n) ==
  IF Top.left \in Direct THEN {}
  ELSE {Operand("left", Top.left, IF Top.right = "prim" THEN n - 1 ELSE n - 2, Top.lholds)}

\* The left register as =, <, <=, > and >= print it: none at all when only the
\* right operand is a name or a constant.
RelLeft ==
  IF Top.left \in Direct \/ Top.right \in Direct THEN {}
  ELSE {Operand("lctr", Top.left, Top.lctr, Top.lholds)}

\* The right register: "compared" in a comparison, "right" elsewhere.
Right(n) ==
  IF Top.right \in Direct THEN {}
  ELSE {Operand(IF Top.kind = "rel" THEN "compared" ELSE "right", Top.right, n - 1, result)}

\* What the type of an instruction is taken from: always the right operand of an
\* arithmetic operator that is a variable, and that of a comparison if no type is
\* known yet; lastexptype is left out, so that this may be so at any comparison.
\* An element has no name to look up, and get_ty_exp returns nothing for a call,
\* an operator or what is not translated.
NoType ==
  IF Top.kind = "rel" THEN Top.right \notin Var \cup {"prim"} ELSE Top.right = "indexed"

CrashAtType ==
  /\ At("emit")
  /\ NoType
  /\ Crash

\* An instruction is printed: its type is at hand, or in lastexptype.
Typed == At("emit") /\ (Top.kind = "rel" \/ ~NoType)

\* Variants: operands counted from the counter before it is moved, and a
\* comparison that finds its left operand as the arithmetic operators do.
EmitBinaryStale ==
  /\ Typed
  /\ Define((IF Top.kind = "rel" THEN RelLeft ELSE ArithLeft(stack_counter))
            \cup Right(stack_counter))
  /\ todo' = Below
  /\ result' = stack_counter'

EmitBinaryCounted ==
  /\ Typed
  /\ Define((IF Top.left \in Direct \/ Top.right \in Direct THEN {}
             ELSE {Operand("lctr", Top.left, stack_counter - 1, Top.lholds)})
            \cup Right(stack_counter + 1))
  /\ todo' = Below
  /\ result' = stack_counter'

\* Variant: the counter is moved once more after the instruction.
EmitBinarySkips ==
  /\ Typed
  /\ stack_counter' = stack_counter + 2
  /\ defined' = Append(defined, stack_counter + 1)
  /\ printed' = (IF Top.kind = "rel" THEN RelLeft ELSE ArithLeft(stack_counter + 1))
                \cup Right(stack_counter + 1)
  /\ todo' = Below
  /\ result' = stack_counter + 1

EmitBinary ==
  /\ Typed
  /\ Define((IF Top.kind = "rel" THEN RelLeft ELSE ArithLeft(stack_counter + 1))
            \cup Right(stack_counter + 1))
  /\ todo' = Below
  /\ result' = stack_counter'

(***************************************************************************)
(* Calls, in two loops over the arguments.  The first generates nested     *)
(* calls and loads global variables, and stores one number in findex for   *)
(* every argument that is a call or a variable.  Then the call is printed, *)
(* its arguments by the second loop, where `loopc` walks through findex    *)
(* and operators are generated.  The scope the first loop tests for a      *)
(* variable is that of the syntax tree's own symbol, which is never set,   *)
(* so that a local variable gets a number too, without an instruction.     *)
(* An element of an array has no symbol there but the address of its       *)
(* array's AST_var: what is read as its scope may be any number, and the   *)
(* lookup of its name, in one of the two loops, ends the process.          *)
(* `holds` is a ghost: the register of each argument, if it has one.       *)
(***************************************************************************)
FirstLoop(args) ==
  [do |-> "load", kind |-> Top.kind, args |-> args, findex |-> << >>, holds |-> << >>]

Argument == Top.args[Len(Top.holds) + 1]

BeginCall(args) ==
  /\ At("expr")
  /\ Top.kind \in Call
  /\ (Top.kind = "opcall") = \E k \in DOMAIN args : args[k] \in Operator
  /\ todo' = Replace(FirstLoop(args))
  /\ result' = None
  /\ Quiet

MoreToLoad == At("load") /\ Len(Top.holds) < Len(Top.args)

Recorded(reg, holds) ==
  [Top EXCEPT !.do = "load", !.findex = Append(@, reg), !.holds = Append(@, holds)]

LoadVariable ==
  /\ MoreToLoad
  /\ Argument \in Var
  /\ IF Argument = "global"
     THEN /\ Define({})
          /\ todo' = Replace(Recorded(stack_counter', stack_counter'))
     ELSE /\ todo' = Replace(Recorded(stack_counter, None))
          /\ Quiet
  /\ UNCHANGED result

LoadCall ==
  /\ MoreToLoad
  /\ Argument \in Call
  /\ todo' = ReplaceAndCall([Top EXCEPT !.do = "loaded"], Argument)
  /\ UNCHANGED result
  /\ Quiet

\* The number after the nested call's is left out.
LoadedCall ==
  /\ At("loaded")
  /\ todo' = Replace(Recorded(stack_counter, result))
  /\ stack_counter' = stack_counter + 1
  /\ printed' = {}
  /\ UNCHANGED <<result, defined>>

LoadNothing ==
  /\ MoreToLoad
  /\ Argument \notin Var \cup Call
  /\ todo' = Replace([Top EXCEPT !.holds = Append(@, None)])
  /\ UNCHANGED result
  /\ Quiet

\* Variant: the call is numbered with the counter as it stands.
EmitCallUncounted ==
  /\ At("load")
  /\ Len(Top.holds) = Len(Top.args)
  /\ defined' = Append(defined, stack_counter)
  /\ todo' = Replace([do |-> "pass", kind |-> Top.kind, args |-> Top.args, findex |-> Top.findex,
                      holds |-> Top.holds, next |-> 1, loopc |-> 1, reg |-> stack_counter])
  /\ printed' = {}
  /\ UNCHANGED <<stack_counter, result>>

EmitCall ==
  /\ At("load")
  /\ Len(Top.holds) = Len(Top.args)
  /\ Define({})
  /\ todo' = Replace([do |-> "pass", kind |-> Top.kind, args |-> Top.args, findex |-> Top.findex,
                      holds |-> Top.holds, next |-> 1, loopc |-> 1, reg |-> stack_counter'])
  /\ UNCHANGED result

MoreToPass == At("pass") /\ Top.next <= Len(Top.args)

Passed == Top.args[Top.next]

\* Variant: loopc moves on for constants as well.
PassPlainAlways ==
  /\ MoreToPass
  /\ Passed \notin Operator \cup {"indexed"}
  /\ todo' = Replace([Top EXCEPT !.next = @ + 1, !.loopc = @ + 1])
  /\ printed' =
       CASE Passed \in Var \cup Call ->
              {Operand("argument", Passed,
                       IF Top.loopc \in DOMAIN Top.findex THEN Top.findex[Top.loopc] ELSE 0,
                       Top.holds[Top.next])}
         [] Passed = "prim" -> {}
         [] Passed = "other" -> {Operand("argument", Passed, stack_counter, None)}
  /\ UNCHANGED <<stack_counter, result, defined>>

PassPlain ==
  /\ MoreToPass
  /\ Passed \notin Operator \cup {"indexed"}
  /\ todo' = Replace([Top EXCEPT !.next = @ + 1,
                                 !.loopc = IF Passed \in Var \cup Call THEN @ + 1 ELSE @])
  /\ printed' =
       CASE Passed \in Var \cup Call ->
              {Operand("argument", Passed, Top.findex[Top.loopc], Top.holds[Top.next])}
         [] Passed = "prim" -> {}
         [] Passed = "other" -> {Operand("argument", Passed, stack_counter, None)}
  /\ UNCHANGED <<stack_counter, result, defined>>

PassOperator ==
  /\ MoreToPass
  /\ Passed \in Operator
  /\ todo' = ReplaceAndCall([Top EXCEPT !.do = "passed"], Passed)
  /\ UNCHANGED result
  /\ Quiet

PassedOperator ==
  /\ At("passed")
  /\ todo' = Replace([Top EXCEPT !.do = "pass", !.next = @ + 1])
  /\ printed' = {Operand("argument", Passed, stack_counter, result)}
  /\ UNCHANGED <<stack_counter, result, defined>>

CrashAtElement ==
  /\ \/ MoreToLoad /\ Argument = "indexed"
     \/ MoreToPass /\ Passed = "indexed"
  /\ Crash

EndCall ==
  /\ At("pass")
  /\ Top.next > Len(Top.args)
  /\ todo' = Below
  /\ result' = Top.reg
  /\ Quiet

Arguments == UNION {[1 .. n -> Allowed(ExprKind)] : n \in 1 .. MaxArgs}

ExprStep ==
  \/ Leaf
  \/ At("expr") /\ \E l, r \in Allowed(Numeric) : FirstOperand(l, r)
  \/ SecondOperand \/ EmitBinary \/ CrashAtType
  \/ At("expr") /\ \E args \in Arguments : BeginCall(args)
  \/ LoadVariable \/ LoadCall \/ LoadedCall \/ LoadNothing \/ EmitCall
  \/ PassPlain \/ PassOperator \/ PassedOperator \/ CrashAtElement \/ EndCall
=============================================================================
