------------------------------ MODULE Translate ------------------------------
(***************************************************************************)
(* codegen_block, codegen_funcdecl and codegen_stmt of src/translate.c, on *)
(* top of Expressions: the labels and branches of the statements, and the  *)
(* registers that branches and stores take from the expression before.     *)
(*                                                                         *)
(* `placed` and `targets` are the labels that the text of pascal.ll        *)
(* defines and branches to.  A for statement writes its labels and         *)
(* branches to stderr only; what is inside it goes to both.                *)
(***************************************************************************)
EXTENDS Expressions

CONSTANTS MaxLabels,  \* bound: no new structured statement once label_counter is that high
          MaxBodies,  \* bound: functions translated after the main program
          ParamCounts \* bound: the numbers of parameters that functions have

ASSUME TranslateBounds == MaxLabels \in Nat /\ MaxBodies \in Nat /\ ParamCounts \subseteq Nat

VARIABLES label_counter,
          placed,  \* the labels in the text, in order
          targets  \* the labels of the branches in the text

vars == <<evars, label_counter, placed, targets>>

Init ==
  /\ todo = <<Entry("sequence", "stmt")>>
  /\ stack_counter = 0
  /\ result = None
  /\ defined = << >>
  /\ printed = {}
  /\ label_counter = 0
  /\ placed = << >>
  /\ targets = {}
  /\ bodies = 0

-----------------------------------------------------------------------------
Labels(entry, labels) == [do |-> entry, kind |-> "stmt", label |-> labels]

\* The statement that is part of the one described by `entry`.
ReplaceAndNest(entry) == ReplaceAndPush(entry, Entry("stmt", "body"))

NoLabels == UNCHANGED <<label_counter, placed, targets, bodies>>

NewLabels(n) == label_counter' = label_counter + n

Branch(labels) == targets' = targets \cup labels

Place(label) == placed' = Append(placed, label)

Room == label_counter < MaxLabels /\ Len(todo) < MaxDepth

\* At a statement of any form; that of a for statement's start is an assignment.
AtStatement == At("stmt") /\ Top.kind = "body"

\* A statement that is not translated: write, inc, ... print a message.
Unsupported ==
  /\ AtStatement
  /\ todo' = Below
  /\ UNCHANGED result /\ Quiet /\ NoLabels

Compound ==
  /\ AtStatement
  /\ Len(todo) < MaxDepth
  /\ todo' = Replace(Entry("sequence", "stmt"))
  /\ UNCHANGED result /\ Quiet /\ NoLabels

NextOfCompound ==
  /\ At("sequence")
  /\ stack_counter < MaxRegs
  /\ todo' = Append(todo, Entry("stmt", "body"))
  /\ UNCHANGED result /\ Quiet /\ NoLabels

EndCompound ==
  /\ At("sequence")
  /\ todo' = Below
  /\ UNCHANGED result /\ Quiet /\ NoLabels

(***************************************************************************)
(* Assignment: a constant is stored as it is; a variable is loaded if it   *)
(* is global, and the register is stored even if it was not (the scope     *)
(* tested is again that of the syntax tree's symbol); anything else is     *)
(* generated and the newest register stored.                               *)
(***************************************************************************)
AssignPlain(e) ==
  /\ At("stmt")
  /\ e \in Direct \ {"indexed"}
  /\ todo' = Below
  /\ CASE e = "prim" -> Quiet
       [] e = "global" -> Define({Operand("store", e, stack_counter + 1, stack_counter + 1)})
       [] e = "local" -> /\ printed' = {Operand("store", e, stack_counter, None)}
                         /\ UNCHANGED <<stack_counter, defined>>
  /\ UNCHANGED result /\ NoLabels

Assign(e) ==
  /\ At("stmt")
  /\ e \notin Direct
  /\ todo' = ReplaceAndCall(Entry("store", e), e)
  /\ UNCHANGED result /\ Quiet /\ NoLabels

\* An assignment to or of an element: the address of its array's AST_var is taken
\* for a symbol and looked up.
AssignElement == At("stmt") /\ Crash /\ NoLabels

Store ==
  /\ At("store")
  /\ todo' = Below
  /\ printed' = {Operand("store", Top.kind, stack_counter, result)}
  /\ UNCHANGED <<stack_counter, result, defined>> /\ NoLabels

-----------------------------------------------------------------------------
\* The branch after a test takes the newest register for the test's value.
TestOperand == printed' = {Operand("test", Top.kind, stack_counter, result)}

IfThen(e, withElse) ==
  /\ AtStatement /\ Room
  /\ todo' = ReplaceAndCall(Entry(IF withElse THEN "if else" ELSE "if", e), e)
  /\ UNCHANGED result /\ Quiet /\ NoLabels

IfTested ==
  /\ At("if")
  /\ NewLabels(2)
  /\ LET end_label == label_counter + 1
     IN  /\ Branch({label_counter, end_label})
         /\ Place(label_counter)
         /\ todo' = ReplaceAndNest(Labels("end if", <<end_label>>))
  /\ TestOperand
  /\ UNCHANGED <<stack_counter, result, defined, bodies>>

\* Variant: the label of the end is not counted.
IfElseTestedLate ==
  /\ At("if else")
  /\ NewLabels(2)
  /\ Branch({label_counter, label_counter + 1})
  /\ Place(label_counter)
  /\ todo' = ReplaceAndNest(Labels("else", <<label_counter + 1, label_counter + 2>>))
  /\ TestOperand
  /\ UNCHANGED <<stack_counter, result, defined, bodies>>

IfElseTested ==
  /\ At("if else")
  /\ NewLabels(3)
  /\ Branch({label_counter, label_counter + 1})
  /\ Place(label_counter)
  /\ todo' = ReplaceAndNest(Labels("else", <<label_counter + 1, label_counter + 2>>))
  /\ TestOperand
  /\ UNCHANGED <<stack_counter, result, defined, bodies>>

\* The end of the then part branches over the else part.
Else ==
  /\ At("else")
  /\ Branch({Top.label[2]})
  /\ Place(Top.label[1])
  /\ todo' = ReplaceAndNest(Labels("end if", <<Top.label[2]>>))
  /\ UNCHANGED <<result, label_counter, bodies>> /\ Quiet

EndIf ==
  /\ At("end if")
  /\ Branch({Top.label[1]})
  /\ Place(Top.label[1])
  /\ todo' = Below
  /\ UNCHANGED <<result, label_counter, bodies>> /\ Quiet

While(e) ==
  /\ AtStatement /\ Room
  /\ NewLabels(1)
  /\ Branch({label_counter})
  /\ Place(label_counter)
  /\ todo' = ReplaceAndCall([do |-> "while", kind |-> e, label |-> <<label_counter>>], e)
  /\ UNCHANGED <<result, bodies>> /\ Quiet

WhileTested ==
  /\ At("while")
  /\ NewLabels(2)
  /\ Branch({label_counter, label_counter + 1})
  /\ Place(label_counter)
  /\ todo' = ReplaceAndNest(Labels("end while", <<Top.label[1], label_counter + 1>>))
  /\ TestOperand
  /\ UNCHANGED <<stack_counter, result, defined, bodies>>

\* Variant: the label after the loop is not placed.
EndWhileUnplaced ==
  /\ At("end while")
  /\ Branch({Top.label[1]})
  /\ todo' = Below
  /\ UNCHANGED <<result, label_counter, placed, bodies>> /\ Quiet

EndWhile ==
  /\ At("end while")
  /\ Branch({Top.label[1]})
  /\ Place(Top.label[2])
  /\ todo' = Below
  /\ UNCHANGED <<result, label_counter, bodies>> /\ Quiet

\* A for statement writes its branches to stderr, the first on the newest
\* register: its bound is not generated.
For ==
  /\ AtStatement /\ Room
  /\ todo' = ReplaceAndPush(Entry("for", "stmt"), Entry("stmt", "assign"))
  /\ UNCHANGED result /\ Quiet /\ NoLabels

ForAssigned ==
  /\ At("for")
  /\ NewLabels(3)
  /\ todo' = ReplaceAndNest(Entry("end for", "stmt"))
  /\ printed' = {Operand("test", "other", stack_counter, None)}
  /\ UNCHANGED <<stack_counter, result, defined, placed, targets, bodies>>

EndFor ==
  /\ At("end for")
  /\ todo' = Below
  /\ UNCHANGED result /\ Quiet /\ NoLabels

-----------------------------------------------------------------------------
\* A function with n parameters, perhaps none, which are the registers 0 .. n - 1.
NextBody(n) ==
  /\ todo = << >>
  /\ bodies < MaxBodies
  /\ bodies' = bodies + 1
  /\ todo' = <<Entry("sequence", "stmt")>>
  /\ stack_counter' = n
  /\ defined' = [i \in 1 .. n |-> i - 1]
  /\ printed' = {}
  /\ UNCHANGED <<result, label_counter, placed, targets>>

Finished == (todo = << >> \/ At("crashed")) /\ UNCHANGED vars

\* A while statement may have a number for its test.
IfTest == ExprKind \ {"arith"}

WhileTest == ExprKind

Next ==
  \/ ExprStep /\ NoLabels
  \/ Unsupported \/ Compound \/ NextOfCompound \/ EndCompound
  \/ At("stmt") /\ \E e \in Allowed(ExprKind) : AssignPlain(e) \/ Assign(e)
  \/ AssignElement \/ Store
  \/ \E e \in Allowed(IfTest) : IfThen(e, TRUE) \/ IfThen(e, FALSE)
  \/ \E e \in Allowed(WhileTest) : While(e)
  \/ IfTested \/ IfElseTested \/ Else \/ EndIf
  \/ WhileTested \/ EndWhile
  \/ For \/ ForAssigned \/ EndFor
  \/ \E n \in ParamCounts : NextBody(n)
  \/ Finished

Spec == Init /\ [][Next]_vars

-----------------------------------------------------------------------------
\* The type invariant, with the bounds of the two loops over the arguments of a
\* call: loopc never leaves findex before the last argument is passed.
TypeOK ==
  /\ \A k \in DOMAIN todo :
       /\ todo[k].kind \in ExprKind \cup {"stmt", "body", "assign"}
       /\ todo[k].do \in {"pass", "passed"} =>
            /\ todo[k].next \in 1 .. Len(todo[k].args) + 1
            /\ todo[k].loopc \in 1 .. Len(todo[k].findex) + 1
            /\ Len(todo[k].holds) = Len(todo[k].args)
  /\ stack_counter \in Nat
  /\ result \in Nat \cup {None}
  /\ defined \in Seq(Nat)
  /\ label_counter \in Nat
  /\ placed \in Seq(Nat)
  /\ targets \subseteq Nat
  /\ bodies \in Nat

\* In one function no register is defined twice, and registers are defined in
\* increasing order, although calls leave numbers out and nested calls, loads
\* and the operators among a call's arguments all count with stack_counter.
DefinedInOrder ==
  /\ \A i, j \in DOMAIN defined : i < j => defined[i] < defined[j]
  /\ \A i \in DOMAIN defined : defined[i] <= stack_counter

\* The operands at `place` for which a register is printed that is not theirs.  For
\* most there is none: nothing is generated for what is not translated, for a call
\* as right operand of an arithmetic operator, for a local variable
\* where it is passed or stored, and for a bare name or number that is tested.
\* The register of a call with operators among its arguments is not the newest,
\* which is that of the last of them, but the newest is what follows takes.
Lost(place) ==
  {"unsupported", "other", "opcall"}
  \cup (IF place = "right" THEN Call ELSE {})
  \cup (IF place \in {"argument", "store"} THEN {"local"} ELSE {})
  \cup (IF place = "test" THEN Direct ELSE {})

\* What is printed at `place` is the register that holds the value: there is one,
\* and it is this one, unless the operand is one of those named above.
Held(place) ==
  \A u \in printed : u.place = place /\ u.kind \notin Lost(place) => u.reg = u.holds

\* The right operand of an operator is the register of this operand, whatever was
\* generated before: of operators at any operator, of calls at comparisons.  A call
\* to the right of +, -, * or / is lost.
RightOperandHeld == Held("right") /\ Held("compared")

\* A comparison finds its left operand, an operator or a call, again, however many
\* instructions its right operand took and however deep codegen_expr called itself
\* meanwhile.
ComparisonLeftHeld == Held("lctr")

\* A global variable, a call or an operator that is an argument of a call is passed
\* as its own register: the two loops over the arguments agree on the numbers in
\* findex, also across nested calls, and an operator is generated just before.
\* A local variable is lost.
ArgumentHeld == Held("argument")

\* A store takes the value of its expression if that is a global variable, a call
\* or an operator, and a branch that of its test if it is a call or an operator.  A
\* local variable stored and a bare name or number tested are lost.
StatementOperandHeld == Held("store") /\ Held("test")

\* No label is placed twice in the whole text of a program.
LabelsPlacedOnce == \A i, j \in DOMAIN placed : placed[i] = placed[j] => i = j

\* Between two functions every branch in the text has a label to go to.
BranchesLand ==
  todo = << >> => \A l \in targets : \E i \in DOMAIN placed : placed[i] = l

-----------------------------------------------------------------------------
(* What the comments of the source say of the program, and it does not do  *)

\* translate.c: the instruction adds (subtracts, ...) both expressions, so that
\* its left register should be that of the left operand, where there is one.
BothExpressionsAdded ==
  \A u \in printed :
    u.place = "left" /\ u.holds # None /\ u.kind \notin Lost("left") => u.reg = u.holds

\* translate.c: an argument that is a local variable is passed by its name, so
\* that no number should be printed for it.
LocalArgumentByName == \A u \in printed : u.place = "argument" => u.kind # "local"
=============================================================================
