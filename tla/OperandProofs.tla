---------------------------- MODULE OperandProofs ----------------------------
(***************************************************************************)
(* Proofs about the operands that Translate prints, for all bounds: the    *)
(* right operand of an operator, the left one of a comparison, the         *)
(* arguments of a call, and what statements store and test.                *)
(*                                                                         *)
(* The argument: a call of codegen_expr for an implemented operator or a   *)
(* call without operators among its arguments returns with its value in    *)
(* the newest register; what its caller keeps of it until it prints it is  *)
(* in the caller's entry of todo, which nobody else changes.               *)
(***************************************************************************)
EXTENDS TranslateProofs, SequenceTheorems

-----------------------------------------------------------------------------
(* The entries of todo                                                     *)

ExprDo == {"expr", "second", "emit", "load", "loaded", "pass", "passed"}

StmtDo == {"sequence", "stmt", "store", "if", "if else", "else", "end if", "while",
           "end while", "for", "end for"}

\* Entries that wait for an expression, and which one.
WaitDo == {"second", "emit", "loaded", "passed", "store", "if", "if else", "while"}

Awaited(e) ==
  IF e.do = "second" THEN e.left
  ELSE IF e.do = "emit" THEN e.right
  ELSE IF e.do = "loaded" THEN e.args[Len(e.holds) + 1]
  ELSE IF e.do = "passed" THEN e.args[e.next]
  ELSE e.kind

Reg == Nat \cup {None}

ExprEntry == [do : {"expr"}, kind : ExprKind]

SecondEntry == [do : {"second"}, kind : {"arith", "rel"}, left : Numeric, right : Numeric]

EmitEntry == [do : {"emit"}, kind : {"arith", "rel"}, left : Numeric, right : Numeric,
              lctr : Reg, lholds : Reg]

LoadEntry == [do : {"load", "loaded"}, kind : Call, args : Seq(ExprKind),
              findex : Seq(Nat), holds : Seq(Reg)]

PassEntry == [do : {"pass", "passed"}, kind : Call, args : Seq(ExprKind),
              findex : Seq(Nat), holds : Seq(Reg), next : Nat, loopc : Nat, reg : Nat]

\* f[k] counts the calls and variables among the first k arguments; the one that
\* is the f[k]th has its number at f[k] in findex.
Matches(args, findex, holds, f) ==
  /\ f \in [0 .. Len(holds) -> 0 .. Len(findex)]
  /\ f[0] = 0 /\ f[Len(holds)] = Len(findex)
  /\ \A k \in 1 .. Len(holds) :
       IF args[k] \in Var \cup Call
       THEN /\ f[k] = f[k - 1] + 1
            /\ args[k] \notin {"local", "opcall"} => findex[f[k]] = holds[k]
       ELSE f[k] = f[k - 1]

\* The expressions whose value is in the newest register once they are generated.
Valued == {"arith", "rel", "call"}

\* A call that is not an opcall has no operators among its arguments.
NoOperators(e) == e.kind = "call" => \A k \in DOMAIN e.args : e.args[k] \notin Operator

EmitOK(e) == e.kind = "rel" /\ e.left \in Valued => e.lctr = e.lholds

LoadOK(e) ==
  /\ NoOperators(e)
  /\ IF e.do = "loaded" THEN Len(e.holds) < Len(e.args) /\ e.args[Len(e.holds) + 1] \in Call
     ELSE Len(e.holds) <= Len(e.args)
  /\ \E f : Matches(e.args, e.findex, e.holds, f)

PassOK(e) ==
  /\ NoOperators(e)
  /\ Len(e.holds) = Len(e.args)
  /\ e.next \in 1 .. Len(e.args) + 1
  /\ e.do = "passed" => e.next <= Len(e.args) /\ e.args[e.next] \in Operator
  /\ \E f : Matches(e.args, e.findex, e.holds, f) /\ e.loopc = f[e.next - 1] + 1

\* A constant, a name or an element is stored without an entry of its own.
StmtOK(e) ==
  IF e.do \in WaitDo
  THEN e.kind \in ExprKind /\ (e.do = "store" => e.kind \notin Direct)
  ELSE e.kind \in ExprKind \cup {"stmt", "body", "assign"}

EntryOK(e) ==
  \/ e \in ExprEntry
  \/ e \in SecondEntry
  \/ e \in EmitEntry /\ EmitOK(e)
  \/ e \in LoadEntry /\ LoadOK(e)
  \/ e \in PassEntry /\ PassOK(e)
  \/ e.do \in StmtDo /\ StmtOK(e)
  \/ e.do = "crashed" /\ e.kind \in ExprKind \cup {"stmt", "body", "assign"}

\* Between neighbours: an expression is what the entry below waits for.
Link(a, b) ==
  b.do # "crashed" =>
    IF b.do \in ExprDo
    THEN a.do \in WaitDo /\ b.kind = Awaited(a)
    ELSE a.do \in StmtDo \ WaitDo

\* A returned value is in the newest register.
Returned(kind, r, n) == kind \in Valued => r = n

\* An operand of an operator has been generated before the entry goes on.
Calls(e) ==
  /\ e.do = "second" => e.left \in Generated(e.kind)
  /\ e.do = "emit" => e.right \in Generated(e.kind)

TopOK(e, r, n) ==
  /\ e.do \in WaitDo /\ Calls(e) => Returned(Awaited(e), r, n)
  /\ e.do = "pass" /\ e.kind = "call" => e.reg = n

PrintedOK(P) ==
  \A u \in P : u.place # "left" /\ u.kind \notin Lost(u.place) => u.reg = u.holds

OperandInv ==
  /\ \E S : todo \in Seq(S)
  /\ \A k \in DOMAIN todo : EntryOK(todo[k])
  /\ \A k \in 1 .. Len(todo) - 1 : Link(todo[k], todo[k + 1])
  /\ todo # << >> => TopOK(Top, result, stack_counter)
  /\ stack_counter \in Nat
  /\ result \in Reg
  /\ PrintedOK(printed)

-----------------------------------------------------------------------------
(* Steps by the shape they give todo                                       *)

\* What can take the place of the innermost entry, seen from the one below.
Succeeds(e) ==
  \/ Top.do \in ExprDo /\ e.do \in ExprDo /\ e.kind = Top.kind
  \/ Top.do \in StmtDo /\ e.do \in StmtDo
  \/ e.do = "crashed"

LEMMA Tops ==
  ASSUME OperandInv, todo # << >>
  PROVE  /\ Len(todo) \in Nat \ {0} /\ DOMAIN todo = 1 .. Len(todo) /\ Top = todo[Len(todo)]
         /\ EntryOK(Top)
<1>1. PICK S : todo \in Seq(S)
  BY DEF OperandInv
<1>2. /\ Len(todo) \in Nat \ {0} /\ DOMAIN todo = 1 .. Len(todo)
      /\ Len(todo) \in DOMAIN todo /\ Top = todo[Len(todo)]
  BY <1>1, BelowShape
<1> QED BY <1>2 DEF OperandInv

\* The innermost call ends.
LEMMA ReturnStep ==
  ASSUME OperandInv, todo # << >>, todo' = Below, Top.do # "crashed",
         stack_counter' \in Nat, result' \in Reg, PrintedOK(printed'),
         Top.do \in ExprDo => Returned(Top.kind, result', stack_counter')
  PROVE  OperandInv'
<1> DEFINE n == Len(todo)
<1>1. PICK S : todo \in Seq(S)
  BY DEF OperandInv
<1>2. /\ n \in Nat \ {0} /\ DOMAIN todo = 1 .. n /\ Top = todo[n]
      /\ todo' \in Seq(S) /\ Len(todo') = n - 1
      /\ \A k \in 1 .. n - 1 : todo'[k] = todo[k]
  BY <1>1, BelowShape
<1>3. DOMAIN todo' = 1 .. n - 1
  BY <1>2
<1> HIDE DEF n
<1>4. \A k \in DOMAIN todo' : EntryOK(todo'[k])
  BY <1>2, <1>3 DEF OperandInv
<1>5. \A k \in 1 .. Len(todo') - 1 : Link(todo'[k], todo'[k + 1])
  <2>1. \A k \in 1 .. n - 2 : k \in 1 .. n - 1 /\ k + 1 \in 1 .. n - 1
    BY <1>2
  <2>2. \A k \in 1 .. n - 1 : Link(todo[k], todo[k + 1])
    BY DEF OperandInv, n
  <2>3. Len(todo') - 1 = n - 2
    BY <1>2
  <2> QED BY <1>2, <2>1, <2>2, <2>3
<1>6. ASSUME todo' # << >>
      PROVE  TopOK(Top', result', stack_counter')
  <2>1. n - 1 \in 1 .. n - 1 /\ (n - 1) + 1 = n
    BY <1>2, <1>6
  <2>2. Top' = todo[n - 1]
    BY <1>2, <2>1 DEF Top
  <2>3. Link(todo[n - 1], todo[n])
    BY <2>1 DEF OperandInv, n
  <2> DEFINE a == todo[n - 1]
  <2>4. CASE Top.do \in ExprDo
    <3>1. a.do \in WaitDo /\ Top.kind = Awaited(a)
      BY <1>2, <2>3, <2>4 DEF Link
    <3> HIDE DEF a
    <3>2. a.do # "pass"
      BY <3>1 DEF WaitDo
    <3> QED BY <2>2, <2>4, <3>1, <3>2 DEF TopOK, a
  <2>5. CASE Top.do \notin ExprDo
    <3>1. a.do \in StmtDo \ WaitDo
      BY <1>2, <2>3, <2>5 DEF Link
    <3> HIDE DEF a
    <3>2. a.do # "pass" /\ a.do # "second" /\ a.do \notin WaitDo
      BY <3>1 DEF StmtDo, WaitDo
    <3> QED BY <2>2, <3>2 DEF TopOK, a
  <2> QED BY <2>4, <2>5
<1> QED BY <1>2, <1>4, <1>5, <1>6 DEF OperandInv

\* The innermost call goes on.
LEMMA ReplaceStep ==
  ASSUME OperandInv, todo # << >>, NEW e, todo' = Replace(e),
         stack_counter' \in Nat, result' \in Reg, PrintedOK(printed'),
         EntryOK(e), Succeeds(e), TopOK(e, result', stack_counter')
  PROVE  OperandInv'
<1> DEFINE n == Len(todo)
<1>1. PICK S : todo \in Seq(S)
  BY DEF OperandInv
<1>2. /\ n \in Nat \ {0} /\ DOMAIN todo = 1 .. n /\ Top = todo[n]
      /\ todo' \in Seq(S \cup {e}) /\ Len(todo') = n /\ todo'[n] = e
      /\ \A k \in 1 .. n - 1 : todo'[k] = todo[k]
  BY <1>1, BelowShape, ReplaceShape
<1>3. DOMAIN todo' = 1 .. n
  BY <1>2
<1> HIDE DEF n
<1>4. \A k \in 1 .. n : k = n \/ k \in 1 .. n - 1
  BY <1>2
<1>5. \A k \in DOMAIN todo' : EntryOK(todo'[k])
  BY <1>2, <1>3, <1>4 DEF OperandInv
<1>6. \A k \in 1 .. n - 1 : Link(todo'[k], todo'[k + 1])
  <2> SUFFICES ASSUME NEW k \in 1 .. n - 1 PROVE Link(todo'[k], todo'[k + 1])
    OBVIOUS
  <2>1. Link(todo[k], todo[k + 1])
    BY DEF OperandInv, n
  <2>2. todo'[k] = todo[k]
    BY <1>2
  <2>3. CASE k = n - 1
    <3>1. k + 1 = n
      BY <1>2, <2>3
    <3>2. Link(todo[k], Top) /\ todo'[k + 1] = e
      BY <1>2, <2>1, <3>1
    <3> QED BY <2>2, <3>2 DEF Link, Succeeds, ExprDo, StmtDo
  <2>4. CASE k # n - 1
    <3>1. k + 1 \in 1 .. n - 1
      BY <1>2, <2>4
    <3> QED BY <1>2, <2>1, <2>2, <3>1
  <2> QED BY <2>3, <2>4
<1>7. Top' = e
  BY <1>2 DEF Top
<1> QED BY <1>2, <1>5, <1>6, <1>7 DEF OperandInv

\* The innermost call calls another.
LEMMA PushStep ==
  ASSUME OperandInv, todo # << >>, NEW e, NEW f, todo' = ReplaceAndPush(e, f),
         stack_counter' \in Nat, result' \in Reg, PrintedOK(printed'),
         EntryOK(e), EntryOK(f), Succeeds(e), Link(e, f), f.do \in {"expr", "stmt"}
  PROVE  OperandInv'
<1> DEFINE n == Len(todo)
<1>1. PICK S : todo \in Seq(S)
  BY DEF OperandInv
<1>2. /\ n \in Nat \ {0} /\ DOMAIN todo = 1 .. n /\ Top = todo[n]
      /\ todo' \in Seq((S \cup {e}) \cup {f}) /\ Len(todo') = n + 1
      /\ todo'[n] = e /\ todo'[n + 1] = f
      /\ \A k \in 1 .. n - 1 : todo'[k] = todo[k]
  BY <1>1, BelowShape, PushShape
<1>3. DOMAIN todo' = 1 .. n + 1
  BY <1>2
<1> HIDE DEF n
<1>4. \A k \in 1 .. n + 1 : k = n \/ k = n + 1 \/ k \in 1 .. n - 1
  BY <1>2
<1>5. \A k \in DOMAIN todo' : EntryOK(todo'[k])
  BY <1>2, <1>3, <1>4 DEF OperandInv
<1>6. \A k \in 1 .. (n + 1) - 1 : Link(todo'[k], todo'[k + 1])
  <2> SUFFICES ASSUME NEW k \in 1 .. n PROVE Link(todo'[k], todo'[k + 1])
    BY <1>2
  <2>1. CASE k = n
    BY <1>2, <2>1
  <2>2. CASE k # n
    <3>0. k \in 1 .. n - 1
      BY <1>2, <2>2
    <3>1. Link(todo[k], todo[k + 1])
      BY <3>0 DEF OperandInv, n
    <3>2. todo'[k] = todo[k]
      BY <1>2, <3>0
    <3>3. CASE k = n - 1
      <4>1. k + 1 = n
        BY <1>2, <3>3
      <4>2. Link(todo[k], Top) /\ todo'[k + 1] = e
        BY <1>2, <3>1, <4>1
      <4> QED BY <3>2, <4>2 DEF Link, Succeeds, ExprDo, StmtDo
    <3>4. CASE k # n - 1
      <4>1. k + 1 \in 1 .. n - 1
        BY <1>2, <3>0, <3>4
      <4> QED BY <1>2, <3>1, <3>2, <4>1
    <3> QED BY <3>3, <3>4
  <2> QED BY <2>1, <2>2
<1>7. Top' = f
  BY <1>2 DEF Top
<1>8. TopOK(f, result', stack_counter')
  BY DEF TopOK, WaitDo
<1> QED BY <1>2, <1>5, <1>6, <1>7, <1>8 DEF OperandInv

-----------------------------------------------------------------------------
(* The steps of expressions                                                *)

LEMMA EntryKinds ==
  ASSUME NEW e, EntryOK(e)
  PROVE  /\ e.do \in ExprDo \cup StmtDo \cup {"crashed"}
         /\ e.kind \in ExprKind \cup {"stmt", "body", "assign"}
         /\ e.do = "expr" => e \in ExprEntry
         /\ e.do = "second" => e \in SecondEntry
         /\ e.do = "emit" => e \in EmitEntry /\ EmitOK(e)
         /\ e.do \in {"load", "loaded"} => e \in LoadEntry /\ LoadOK(e)
         /\ e.do \in {"pass", "passed"} => e \in PassEntry /\ PassOK(e)
<1>1. CASE e \in ExprEntry
  BY <1>1 DEF ExprEntry, ExprDo
<1>2. CASE e \in SecondEntry
  BY <1>2 DEF SecondEntry, ExprDo, ExprKind, Operator
<1>3. CASE e \in EmitEntry /\ EmitOK(e)
  BY <1>3 DEF EmitEntry, ExprDo, ExprKind, Operator
<1>4. CASE e \in LoadEntry /\ LoadOK(e)
  BY <1>4 DEF LoadEntry, ExprDo, ExprKind
<1>5. CASE e \in PassEntry /\ PassOK(e)
  BY <1>5 DEF PassEntry, ExprDo, ExprKind
<1>6. CASE e.do \in StmtDo /\ StmtOK(e)
  BY <1>6 DEF StmtDo, StmtOK
<1>7. CASE e.do = "crashed" /\ e.kind \in ExprKind \cup {"stmt", "body", "assign"}
  BY <1>7
<1> QED BY <1>1, <1>2, <1>3, <1>4, <1>5, <1>6, <1>7 DEF EntryOK

LEMMA NothingPrinted == PrintedOK({})
BY DEF PrintedOK

LEMMA OnePrinted ==
  ASSUME NEW place, NEW kind, NEW reg, NEW holds,
         kind \notin Lost(place) => reg = holds
  PROVE  PrintedOK({Operand(place, kind, reg, holds)})
<1> DEFINE u == Operand(place, kind, reg, holds)
<1>1. u.place = place /\ u.kind = kind /\ u.reg = reg /\ u.holds = holds
  BY DEF Operand
<1> HIDE DEF u
<1>2. PrintedOK({u})
  BY <1>1 DEF PrintedOK
<1> QED BY <1>2 DEF u

LEMMA ExprEntryOK ==
  ASSUME NEW k \in ExprKind
  PROVE  /\ EntryOK(Entry("expr", k)) /\ Entry("expr", k).do = "expr"
         /\ Entry("expr", k).kind = k
BY DEF EntryOK, ExprEntry, Entry

\* The process dies in the innermost call.
LEMMA CrashStep ==
  ASSUME OperandInv, todo # << >>, Crash
  PROVE  OperandInv'
<1> DEFINE e == Entry("crashed", Top.kind)
<1>1. todo' = Replace(e) /\ UNCHANGED <<result, stack_counter>> /\ printed' = {}
  BY DEF Crash, Quiet
<1>2. e.do = "crashed" /\ e.kind = Top.kind
  BY DEF Entry
<1> HIDE DEF e
<1>3. Top.kind \in ExprKind \cup {"stmt", "body", "assign"}
  BY Tops, EntryKinds
<1>4. EntryOK(e) /\ Succeeds(e)
  BY <1>2, <1>3 DEF EntryOK, Succeeds
<1>5. TopOK(e, result', stack_counter')
  BY <1>2 DEF TopOK, WaitDo
<1>6. stack_counter' \in Nat /\ result' \in Reg
  BY <1>1 DEF OperandInv
<1> QED BY <1>1, <1>4, <1>5, <1>6, NothingPrinted, ReplaceStep

LEMMA LeafStep ==
  ASSUME OperandInv, Leaf
  PROVE  OperandInv'
<1>1. /\ todo # << >> /\ todo' = Below /\ result' = None /\ Top.do = "expr"
      /\ Top.kind \in Direct \cup {"unsupported", "other"}
      /\ UNCHANGED stack_counter /\ printed' = {}
  BY DEF Leaf, At, Quiet
<1>2. stack_counter' \in Nat /\ result' \in Reg
  BY <1>1 DEF OperandInv, Reg
<1>3. Returned(Top.kind, result', stack_counter')
  BY <1>1 DEF Returned, Valued, Direct, Var
<1> QED BY <1>1, <1>2, <1>3, NothingPrinted, ReturnStep

LEMMA FirstOperandStep ==
  ASSUME OperandInv, NEW l \in Allowed(Numeric), NEW r \in Allowed(Numeric), FirstOperand(l, r)
  PROVE  OperandInv'
<1> DEFINE op == Top.kind
           e == Binary(op, l, r)
           f == Entry("expr", l)
<1>1. /\ todo # << >> /\ Top.do = "expr" /\ op \in {"arith", "rel"} /\ result' = None
      /\ UNCHANGED stack_counter /\ printed' = {}
      /\ l \in Generated(op) => todo' = ReplaceAndPush(e, f)
      /\ l \notin Generated(op) => todo' = Replace(e)
  BY DEF FirstOperand, At, Quiet, ReplaceAndCall
<1>2. l \in Numeric /\ r \in Numeric
  BY DEF Allowed
<1>3. stack_counter' \in Nat /\ result' \in Reg
  BY <1>1 DEF OperandInv, Reg
<1>4. /\ e \in SecondEntry /\ e.do = "second" /\ e.kind = op /\ e.left = l
  BY <1>1, <1>2 DEF Binary, SecondEntry
<1>5. EntryOK(e) /\ Succeeds(e)
  BY <1>1, <1>4 DEF EntryOK, Succeeds, ExprDo
<1>6. /\ EntryOK(f) /\ f.do = "expr" /\ f.kind = l
  BY <1>2, ExprEntryOK DEF Numeric
<1>7. CASE l \in Generated(op)
  <2>1. Link(e, f)
    BY <1>4, <1>6, <1>7 DEF Link, ExprDo, WaitDo, Awaited
  <2> HIDE DEF e, f
  <2> QED BY <1>1, <1>3, <1>5, <1>6, <1>7, <2>1, NothingPrinted, PushStep
<1>8. CASE l \notin Generated(op)
  <2>1. TopOK(e, result', stack_counter')
    BY <1>4, <1>8 DEF TopOK, Calls
  <2> HIDE DEF e
  <2> QED BY <1>1, <1>3, <1>5, <1>8, <2>1, NothingPrinted, ReplaceStep
<1> QED BY <1>7, <1>8

LEMMA SecondOperandStep ==
  ASSUME OperandInv, SecondOperand
  PROVE  OperandInv'
<1> DEFINE op == Top.kind
           c == IF Top.left \in Generated(op) THEN stack_counter ELSE None
           e == [do |-> "emit", kind |-> op, left |-> Top.left, right |-> Top.right,
                 lctr |-> c, lholds |-> result]
           f == Entry("expr", Top.right)
<1>1. /\ todo # << >> /\ Top.do = "second" /\ result' = None
      /\ UNCHANGED stack_counter /\ printed' = {}
      /\ Top.right \in Generated(op) => todo' = ReplaceAndPush(e, f)
      /\ Top.right \notin Generated(op) => todo' = Replace(e)
  BY DEF SecondOperand, At, Quiet, ReplaceAndCall
<1>2. /\ op \in {"arith", "rel"} /\ Top.left \in Numeric /\ Top.right \in Numeric
  BY <1>1, Tops, EntryKinds DEF SecondEntry
<1>3. stack_counter' \in Nat /\ result' \in Reg /\ c \in Reg /\ result \in Reg
  BY <1>1 DEF OperandInv, Reg
<1>4. TopOK(Top, result, stack_counter)
  BY <1>1 DEF OperandInv
<1>5. op = "rel" /\ Top.left \in Valued => c = result
  <2> SUFFICES ASSUME op = "rel", Top.left \in Valued PROVE c = result
    OBVIOUS
  <2>1. Top.left \in Generated(op)
    BY DEF Generated, Valued, Operator, Call
  <2>2. Returned(Top.left, result, stack_counter)
    BY <1>1, <1>4, <2>1 DEF TopOK, WaitDo, Awaited, Calls
  <2> QED BY <2>1, <2>2 DEF Returned
<1> HIDE DEF c
<1>6. /\ e.do = "emit" /\ e.kind = op /\ e.left = Top.left /\ e.right = Top.right
      /\ e.lctr = c /\ e.lholds = result /\ e \in EmitEntry
  BY <1>2, <1>3 DEF EmitEntry
<1> HIDE DEF e
<1>7. EntryOK(e) /\ Succeeds(e)
  BY <1>1, <1>5, <1>6 DEF EntryOK, EmitOK, Succeeds, ExprDo
<1>8. /\ EntryOK(f) /\ f.do = "expr" /\ f.kind = Top.right
  BY <1>2, ExprEntryOK DEF Numeric
<1>9. CASE Top.right \in Generated(op)
  <2>1. Link(e, f)
    BY <1>6, <1>8 DEF Link, ExprDo, WaitDo, Awaited
  <2> HIDE DEF f
  <2> QED BY <1>1, <1>3, <1>7, <1>8, <1>9, <2>1, NothingPrinted, PushStep
<1>10. CASE Top.right \notin Generated(op)
  <2>1. TopOK(e, result', stack_counter')
    BY <1>6, <1>10 DEF TopOK, Calls
  <2> QED BY <1>1, <1>3, <1>7, <1>10, <2>1, NothingPrinted, ReplaceStep
<1> QED BY <1>9, <1>10

LEMMA EmitBinaryStep ==
  ASSUME OperandInv, EmitBinary
  PROVE  OperandInv'
<1>1. /\ todo # << >> /\ Top.do = "emit" /\ todo' = Below
      /\ stack_counter' = stack_counter + 1 /\ result' = stack_counter'
      /\ printed' = (IF Top.kind = "rel" THEN RelLeft ELSE ArithLeft(stack_counter + 1))
                    \cup Right(stack_counter + 1)
  BY DEF EmitBinary, Typed, At, Define
<1>2. /\ EmitOK(Top) /\ Top.left \in Numeric /\ Top.right \in Numeric
      /\ Top.kind \in {"arith", "rel"}
  BY <1>1, Tops, EntryKinds DEF EmitEntry
<1>3. stack_counter \in Nat /\ stack_counter' \in Nat /\ result' \in Reg
  BY <1>1 DEF OperandInv, Reg
<1>4. Top.right \in Generated(Top.kind) => Returned(Top.right, result, stack_counter)
  BY <1>1 DEF OperandInv, TopOK, WaitDo, Awaited, Calls
<1>5. ASSUME Top.kind = "rel"
      PROVE  PrintedOK(RelLeft)
  <2>1. Top.left \notin Direct /\ Top.left \notin Lost("lctr") => Top.left \in Valued
    BY <1>2 DEF Lost, Numeric, ExprKind, Operator, Call, Valued
  <2>2. Top.left \notin Direct /\ Top.left \notin Lost("lctr") => Top.lctr = Top.lholds
    BY <1>2, <1>5, <2>1 DEF EmitOK
  <2>3. PrintedOK({Operand("lctr", Top.left, Top.lctr, Top.lholds)}) \/ RelLeft = {}
    BY <2>2, OnePrinted DEF RelLeft
  <2> QED BY <2>3, NothingPrinted DEF RelLeft
<1>6. PrintedOK(ArithLeft(stack_counter + 1))
  BY DEF PrintedOK, ArithLeft, Operand
<1>7. PrintedOK(Right(stack_counter + 1))
  <2> DEFINE place == IF Top.kind = "rel" THEN "compared" ELSE "right"
  <2>1. (stack_counter + 1) - 1 = stack_counter
    BY <1>3
  <2>2. ASSUME Top.right \notin Direct, Top.right \notin Lost(place)
        PROVE  stack_counter = result
    <3>1. Top.right \in Generated(Top.kind) /\ Top.right \in Valued
      <4>1. CASE Top.kind = "rel"
        BY <1>2, <2>2, <4>1
           DEF Lost, Numeric, ExprKind, Operator, Call, Valued, Generated
      <4>2. CASE Top.kind = "arith"
        BY <1>2, <2>2, <4>2
           DEF Lost, Numeric, ExprKind, Operator, Call, Valued, Generated
      <4> QED BY <1>2, <4>1, <4>2
    <3> QED BY <1>4, <3>1 DEF Returned
  <2>3. Right(stack_counter + 1) =
          IF Top.right \in Direct THEN {}
          ELSE {Operand(place, Top.right, stack_counter, result)}
    BY <2>1 DEF Right
  <2> HIDE DEF place
  <2>4. CASE Top.right \in Direct
    BY <2>3, <2>4, NothingPrinted
  <2>5. CASE Top.right \notin Direct
    BY <2>2, <2>3, <2>5, OnePrinted
  <2> QED BY <2>4, <2>5
<1>8. PrintedOK(printed')
  <2>1. \A P, Q : PrintedOK(P) /\ PrintedOK(Q) => PrintedOK(P \cup Q)
    BY DEF PrintedOK
  <2> QED BY <1>1, <1>5, <1>6, <1>7, <2>1
<1>9. Returned(Top.kind, result', stack_counter')
  BY <1>1 DEF Returned
<1> QED BY <1>1, <1>3, <1>8, <1>9, ReturnStep

-----------------------------------------------------------------------------
(* The two loops over the arguments of a call                              *)

\* The first loop has found an argument with a number r, whose value is in h.
LEMMA MatchesRecorded ==
  ASSUME NEW args, NEW findex \in Seq(Nat), NEW holds \in Seq(Reg), NEW f,
         Matches(args, findex, holds, f),
         NEW r \in Nat, NEW h \in Reg,
         args[Len(holds) + 1] \in Var \cup Call,
         args[Len(holds) + 1] \notin {"local", "opcall"} => r = h
  PROVE  \E g : Matches(args, Append(findex, r), Append(holds, h), g)
<1> DEFINE n == Len(holds)
           m == Len(findex)
           g == [k \in 0 .. n + 1 |-> IF k = n + 1 THEN m + 1 ELSE f[k]]
           F == Append(findex, r)
           H == Append(holds, h)
<1>1. /\ n \in Nat /\ m \in Nat
      /\ F \in Seq(Nat) /\ Len(F) = m + 1 /\ F[m + 1] = r /\ \A k \in 1 .. m : F[k] = findex[k]
      /\ H \in Seq(Reg) /\ Len(H) = n + 1 /\ H[n + 1] = h /\ \A k \in 1 .. n : H[k] = holds[k]
  OBVIOUS
<1>2. /\ f \in [0 .. n -> 0 .. m] /\ f[0] = 0 /\ f[n] = m
      /\ \A k \in 1 .. n :
           IF args[k] \in Var \cup Call
           THEN /\ f[k] = f[k - 1] + 1
                /\ args[k] \notin {"local", "opcall"} => findex[f[k]] = holds[k]
           ELSE f[k] = f[k - 1]
  BY DEF Matches
<1>3. args[n + 1] \in Var \cup Call /\ (args[n + 1] \notin {"local", "opcall"} => r = h)
  OBVIOUS
<1> HIDE DEF n, m, F, H
<1>4. /\ \A k \in 0 .. n : g[k] = f[k] /\ f[k] \in 0 .. m
      /\ g[n + 1] = m + 1 /\ g \in [0 .. n + 1 -> 0 .. m + 1]
  <2>1. \A k \in 0 .. n : k \in 0 .. n + 1 /\ k # n + 1 /\ f[k] \in 0 .. m /\ f[k] \in 0 .. m + 1
    BY <1>1, <1>2
  <2>2. n + 1 \in 0 .. n + 1 /\ m + 1 \in 0 .. m + 1
    BY <1>1
  <2>3. \A k \in 0 .. n + 1 : k = n + 1 \/ k \in 0 .. n
    BY <1>1
  <2> QED BY <2>1, <2>2, <2>3
<1> HIDE DEF g
<1>5. g[0] = 0 /\ g[Len(H)] = Len(F) /\ g \in [0 .. Len(H) -> 0 .. Len(F)]
  <2>1. 0 \in 0 .. n
    BY <1>1
  <2> QED BY <1>1, <1>2, <1>4, <2>1
<1>6. ASSUME NEW k \in 1 .. Len(H)
      PROVE  IF args[k] \in Var \cup Call
             THEN /\ g[k] = g[k - 1] + 1
                  /\ args[k] \notin {"local", "opcall"} => F[g[k]] = H[k]
             ELSE g[k] = g[k - 1]
  <2>1. CASE k = n + 1
    <3>1. k - 1 = n /\ n \in 0 .. n
      BY <1>1, <2>1
    <3>2. g[k] = m + 1 /\ g[k - 1] = m /\ H[k] = h /\ F[g[k]] = r
      BY <1>1, <1>2, <1>4, <2>1, <3>1
    <3> QED BY <1>3, <2>1, <3>2
  <2>2. CASE k # n + 1
    <3>1. k \in 1 .. n /\ k \in 0 .. n /\ k - 1 \in 0 .. n
      BY <1>1, <2>2
    <3>2. g[k] = f[k] /\ g[k - 1] = f[k - 1] /\ H[k] = holds[k] /\ f[k - 1] \in 0 .. m /\ f[k] \in 0 .. m
      BY <1>1, <1>4, <3>1
    <3>3. CASE args[k] \in Var \cup Call
      <4>1. /\ f[k] = f[k - 1] + 1
            /\ args[k] \notin {"local", "opcall"} => findex[f[k]] = holds[k]
        BY <1>2, <3>1, <3>3
      <4>2. f[k] \in 1 .. m
        BY <1>1, <3>2, <4>1
      <4>3. F[f[k]] = findex[f[k]]
        BY <1>1, <4>2
      <4> QED BY <3>2, <3>3, <4>1, <4>3
    <3>4. CASE args[k] \notin Var \cup Call
      BY <1>2, <3>1, <3>2, <3>4
    <3> QED BY <3>3, <3>4
  <2> QED BY <2>1, <2>2
<1>7. Matches(args, F, H, g)
  BY <1>5, <1>6 DEF Matches
<1> QED BY <1>7 DEF F, H

\* The first loop has passed over an argument without a number.
LEMMA MatchesSkipped ==
  ASSUME NEW args, NEW findex \in Seq(Nat), NEW holds \in Seq(Reg), NEW f,
         Matches(args, findex, holds, f), args[Len(holds) + 1] \notin Var \cup Call
  PROVE  \E g : Matches(args, findex, Append(holds, None), g)
<1> DEFINE n == Len(holds)
           m == Len(findex)
           g == [k \in 0 .. n + 1 |-> IF k = n + 1 THEN m ELSE f[k]]
           H == Append(holds, None)
<1>1. /\ n \in Nat /\ m \in Nat
      /\ Len(H) = n + 1 /\ H[n + 1] = None /\ \A k \in 1 .. n : H[k] = holds[k]
  BY DEF Reg
<1>2. /\ f \in [0 .. n -> 0 .. m] /\ f[0] = 0 /\ f[n] = m
      /\ \A k \in 1 .. n :
           IF args[k] \in Var \cup Call
           THEN /\ f[k] = f[k - 1] + 1
                /\ args[k] \notin {"local", "opcall"} => findex[f[k]] = holds[k]
           ELSE f[k] = f[k - 1]
  BY DEF Matches
<1>3. args[n + 1] \notin Var \cup Call
  OBVIOUS
<1> HIDE DEF n, m, H
<1>4. /\ \A k \in 0 .. n : g[k] = f[k]
      /\ g[n + 1] = m /\ g \in [0 .. n + 1 -> 0 .. m]
  <2>1. \A k \in 0 .. n : k \in 0 .. n + 1 /\ k # n + 1 /\ f[k] \in 0 .. m
    BY <1>1, <1>2
  <2>2. n + 1 \in 0 .. n + 1 /\ m \in 0 .. m
    BY <1>1
  <2>3. \A k \in 0 .. n + 1 : k = n + 1 \/ k \in 0 .. n
    BY <1>1
  <2> QED BY <2>1, <2>2, <2>3
<1> HIDE DEF g
<1>5. g[0] = 0 /\ g[Len(H)] = m /\ g \in [0 .. Len(H) -> 0 .. m]
  <2>1. 0 \in 0 .. n
    BY <1>1
  <2> QED BY <1>1, <1>2, <1>4, <2>1
<1>6. ASSUME NEW k \in 1 .. Len(H)
      PROVE  IF args[k] \in Var \cup Call
             THEN /\ g[k] = g[k - 1] + 1
                  /\ args[k] \notin {"local", "opcall"} => findex[g[k]] = H[k]
             ELSE g[k] = g[k - 1]
  <2>1. CASE k = n + 1
    <3>1. k - 1 = n /\ n \in 0 .. n
      BY <1>1, <2>1
    <3>2. g[k] = m /\ g[k - 1] = m
      BY <1>2, <1>4, <2>1, <3>1
    <3> QED BY <1>3, <2>1, <3>2
  <2>2. CASE k # n + 1
    <3>1. k \in 1 .. n /\ k \in 0 .. n /\ k - 1 \in 0 .. n
      BY <1>1, <2>2
    <3>2. g[k] = f[k] /\ g[k - 1] = f[k - 1] /\ H[k] = holds[k]
      BY <1>1, <1>4, <3>1
    <3> QED BY <1>2, <3>1, <3>2
  <2> QED BY <2>1, <2>2
<1>7. Matches(args, findex, H, g)
  BY <1>5, <1>6 DEF Matches, m
<1> QED BY <1>7 DEF H

LEMMA BeginCallStep ==
  ASSUME OperandInv, NEW args \in Arguments, BeginCall(args)
  PROVE  OperandInv'
<1> DEFINE e == FirstLoop(args)
<1>1. /\ todo # << >> /\ Top.do = "expr" /\ Top.kind \in Call
      /\ (Top.kind = "opcall") = \E k \in DOMAIN args : args[k] \in Operator
      /\ todo' = Replace(e) /\ result' = None
      /\ UNCHANGED stack_counter /\ printed' = {}
  BY DEF BeginCall, At, Quiet
<1>2. stack_counter' \in Nat /\ result' \in Reg
  BY <1>1 DEF OperandInv, Reg
<1>3. args \in Seq(ExprKind) /\ Len(args) \in Nat
  <2>1. PICK n \in 1 .. MaxArgs : args \in [1 .. n -> Allowed(ExprKind)]
    BY DEF Arguments
  <2>2. Allowed(ExprKind) \subseteq ExprKind
    BY DEF Allowed
  <2>3. n \in Nat
    BY <2>1, ExpressionBounds
  <2>4. args \in [1 .. n -> ExprKind]
    BY <2>1, <2>2
  <2>5. args \in Seq(ExprKind)
    BY <2>3, <2>4
  <2> QED BY <2>5
<1>4. /\ e.do = "load" /\ e.kind = Top.kind /\ e.args = args
      /\ e.findex = << >> /\ e.holds = << >>
  BY DEF FirstLoop
<1>5. e \in LoadEntry
  <2>1. << >> \in Seq(Nat) /\ << >> \in Seq(Reg)
    OBVIOUS
  <2> QED BY <1>1, <1>3, <2>1 DEF FirstLoop, LoadEntry
<1> HIDE DEF e
<1>6. NoOperators(e)
  BY <1>1, <1>4 DEF NoOperators, Call
<1>7. \E f : Matches(e.args, e.findex, e.holds, f)
  <2> DEFINE f == [k \in 0 .. 0 |-> 0]
  <2>1. Len(e.holds) = 0 /\ Len(e.findex) = 0
    BY <1>4
  <2>2. f \in [0 .. 0 -> 0 .. 0] /\ f[0] = 0
    OBVIOUS
  <2>3. 1 .. 0 = {}
    OBVIOUS
  <2> HIDE DEF f
  <2>4. Matches(e.args, e.findex, e.holds, f)
    BY <2>1, <2>2, <2>3 DEF Matches
  <2> QED BY <2>4
<1>8. EntryOK(e)
  <2>1. Len(e.holds) = 0 /\ Len(e.args) \in Nat
    BY <1>3, <1>4
  <2>2. LoadOK(e)
    BY <1>4, <1>6, <1>7, <2>1 DEF LoadOK
  <2> QED BY <1>5, <2>2 DEF EntryOK
<1>9. Succeeds(e) /\ TopOK(e, result', stack_counter')
  BY <1>1, <1>4 DEF Succeeds, ExprDo, TopOK, WaitDo
<1> QED BY <1>1, <1>2, <1>8, <1>9, NothingPrinted, ReplaceStep

\* The entry of a call after an argument with a number.
LEMMA RecordedEntry ==
  ASSUME Top \in LoadEntry, LoadOK(Top), Len(Top.holds) < Len(Top.args),
         Argument \in Var \cup Call, NEW r \in Nat, NEW h \in Reg,
         Argument \notin {"local", "opcall"} => r = h
  PROVE  /\ EntryOK(Recorded(r, h)) /\ Recorded(r, h).do = "load"
         /\ Recorded(r, h).kind = Top.kind
<1> DEFINE e == Recorded(r, h)
           F == Append(Top.findex, r)
           H == Append(Top.holds, h)
<1>1. /\ Top.args \in Seq(ExprKind) /\ Top.findex \in Seq(Nat) /\ Top.holds \in Seq(Reg)
      /\ Top.kind \in Call
  BY DEF LoadEntry
<1>2. F \in Seq(Nat) /\ H \in Seq(Reg) /\ Len(H) = Len(Top.holds) + 1
  BY <1>1
<1>3. \E g : Matches(Top.args, F, H, g)
  <2>1. PICK f : Matches(Top.args, Top.findex, Top.holds, f)
    BY DEF LoadOK
  <2> QED BY <1>1, <2>1, MatchesRecorded DEF Argument
<1>4. e = [Top EXCEPT !.do = "load", !.findex = F, !.holds = H]
  BY DEF Recorded, LoadEntry
<1> HIDE DEF e, F, H
<1>5. /\ e \in LoadEntry /\ e.do = "load" /\ e.kind = Top.kind /\ e.args = Top.args
      /\ e.findex = F /\ e.holds = H
  BY <1>2, <1>4 DEF LoadEntry
<1>6. NoOperators(e)
  BY <1>5 DEF LoadOK, NoOperators
<1>7. Len(e.holds) <= Len(e.args)
  <2>1. Len(Top.holds) \in Nat /\ Len(Top.args) \in Nat
    BY <1>1
  <2> QED BY <1>2, <1>5, <2>1
<1>8. LoadOK(e)
  BY <1>3, <1>5, <1>6, <1>7 DEF LoadOK
<1> QED BY <1>5, <1>8 DEF EntryOK, e

\* What the first loop finds.
LEMMA LoadTop ==
  ASSUME OperandInv, At("load") \/ At("loaded")
  PROVE  /\ todo # << >> /\ Top \in LoadEntry /\ LoadOK(Top)
         /\ Top.do \in {"load", "loaded"} /\ TopOK(Top, result, stack_counter)
BY Tops, EntryKinds DEF At, OperandInv

LEMMA LoadSteps ==
  ASSUME OperandInv, LoadVariable \/ LoadCall \/ LoadedCall \/ LoadNothing
  PROVE  OperandInv'
<1>1. /\ todo # << >> /\ Top \in LoadEntry /\ LoadOK(Top)
      /\ Top.do \in {"load", "loaded"} /\ TopOK(Top, result, stack_counter)
      /\ stack_counter \in Nat /\ result \in Reg
  <2>1. At("load") \/ At("loaded")
    BY DEF LoadVariable, LoadCall, LoadedCall, LoadNothing, MoreToLoad
  <2> QED BY <2>1, LoadTop DEF OperandInv
<1>2. /\ Top.args \in Seq(ExprKind) /\ Top.findex \in Seq(Nat) /\ Top.holds \in Seq(Reg)
      /\ Top.kind \in Call
  BY <1>1 DEF LoadEntry
<1>3. Len(Top.holds) < Len(Top.args) => Argument \in ExprKind
  <2>1. Len(Top.holds) \in Nat /\ Len(Top.args) \in Nat
    BY <1>2
  <2>2. Len(Top.holds) < Len(Top.args) => Len(Top.holds) + 1 \in 1 .. Len(Top.args)
    BY <2>1
  <2> QED BY <1>2, <2>2 DEF Argument
<1>4. ASSUME NEW e, EntryOK(e), e.do = "load", e.kind = Top.kind, todo' = Replace(e),
             stack_counter' \in Nat, UNCHANGED result, printed' = {}
      PROVE  OperandInv'
  <2>1. Succeeds(e) /\ TopOK(e, result', stack_counter')
    BY <1>1, <1>4 DEF Succeeds, ExprDo, TopOK, WaitDo
  <2>2. result' \in Reg /\ PrintedOK(printed')
    BY <1>1, <1>4, NothingPrinted
  <2> QED BY <1>1, <1>4, <2>1, <2>2, ReplaceStep
<1>5. CASE LoadVariable
  <2>1. Top.do = "load" /\ Len(Top.holds) < Len(Top.args) /\ Argument \in Var /\ UNCHANGED result
    BY <1>5 DEF LoadVariable, MoreToLoad, At
  <2>2. CASE Argument = "global"
    <3>1. /\ stack_counter' = stack_counter + 1 /\ printed' = {}
          /\ todo' = Replace(Recorded(stack_counter', stack_counter'))
      BY <1>5, <2>2 DEF LoadVariable, Define
    <3>2. stack_counter' \in Nat /\ stack_counter' \in Reg
      BY <1>1, <3>1 DEF Reg
    <3>3. /\ EntryOK(Recorded(stack_counter', stack_counter'))
          /\ Recorded(stack_counter', stack_counter').do = "load"
          /\ Recorded(stack_counter', stack_counter').kind = Top.kind
      BY <1>1, <2>1, <3>2, RecordedEntry
    <3> QED BY <1>4, <2>1, <3>1, <3>2, <3>3
  <2>3. CASE Argument # "global"
    <3>1. /\ UNCHANGED stack_counter /\ printed' = {}
          /\ todo' = Replace(Recorded(stack_counter, None))
      BY <1>5, <2>3 DEF LoadVariable, Quiet
    <3>2. None \in Reg /\ Argument = "local"
      BY <2>1, <2>3 DEF Reg, Var
    <3>3. /\ EntryOK(Recorded(stack_counter, None))
          /\ Recorded(stack_counter, None).do = "load"
          /\ Recorded(stack_counter, None).kind = Top.kind
      BY <1>1, <2>1, <3>2, RecordedEntry
    <3> QED BY <1>1, <1>4, <2>1, <3>1, <3>3
  <2> QED BY <2>2, <2>3
<1>6. CASE LoadCall
  <2> DEFINE e == [Top EXCEPT !.do = "loaded"]
             f == Entry("expr", Argument)
  <2>1. /\ Top.do = "load" /\ Len(Top.holds) < Len(Top.args) /\ Argument \in Call
        /\ todo' = ReplaceAndPush(e, f)
        /\ UNCHANGED <<result, stack_counter>> /\ printed' = {}
    BY <1>6 DEF LoadCall, MoreToLoad, At, Quiet, ReplaceAndCall
  <2>2. /\ e \in LoadEntry /\ e.do = "loaded" /\ e.kind = Top.kind /\ e.args = Top.args
        /\ e.findex = Top.findex /\ e.holds = Top.holds
    BY <1>1 DEF LoadEntry
  <2>3. /\ EntryOK(f) /\ f.do = "expr" /\ f.kind = Argument
    BY <1>3, <2>1, ExprEntryOK
  <2> HIDE DEF e, f
  <2>4. LoadOK(e)
    BY <1>1, <2>1, <2>2 DEF LoadOK, NoOperators, Argument
  <2>5. EntryOK(e) /\ Succeeds(e)
    BY <1>1, <2>2, <2>4 DEF EntryOK, Succeeds, ExprDo
  <2>6. Link(e, f)
    BY <2>2, <2>3 DEF Link, ExprDo, WaitDo, Awaited, Argument
  <2> QED BY <1>1, <2>1, <2>3, <2>5, <2>6, NothingPrinted, PushStep
<1>7. CASE LoadedCall
  <2>1. /\ Top.do = "loaded" /\ todo' = Replace(Recorded(stack_counter, result))
        /\ stack_counter' = stack_counter + 1 /\ UNCHANGED result /\ printed' = {}
    BY <1>7 DEF LoadedCall, At
  <2>2. Len(Top.holds) < Len(Top.args) /\ Argument \in Call
    BY <1>1, <2>1 DEF LoadOK, Argument
  <2>3. Returned(Argument, result, stack_counter)
    BY <1>1, <2>1 DEF TopOK, WaitDo, Awaited, Argument, Calls
  <2>4. stack_counter' \in Nat
    BY <1>1, <2>1
  <2>5. /\ EntryOK(Recorded(stack_counter, result))
        /\ Recorded(stack_counter, result).do = "load"
        /\ Recorded(stack_counter, result).kind = Top.kind
    <3>1. Argument \notin {"local", "opcall"} => stack_counter = result
      BY <2>2, <2>3 DEF Returned, Valued, Call
    <3> QED BY <1>1, <2>2, <3>1, RecordedEntry
  <2> QED BY <1>4, <2>1, <2>4, <2>5
<1>8. CASE LoadNothing
  <2> DEFINE H == Append(Top.holds, None)
             e == [Top EXCEPT !.holds = H]
  <2>1. /\ Top.do = "load" /\ Len(Top.holds) < Len(Top.args) /\ Argument \notin Var \cup Call
        /\ todo' = Replace(e) /\ UNCHANGED <<result, stack_counter>> /\ printed' = {}
    BY <1>1, <1>8 DEF LoadNothing, MoreToLoad, At, Quiet, LoadEntry
  <2>2. H \in Seq(Reg) /\ Len(H) = Len(Top.holds) + 1
    BY <1>2 DEF Reg
  <2>3. \E g : Matches(Top.args, Top.findex, H, g)
    <3>1. PICK f : Matches(Top.args, Top.findex, Top.holds, f)
      BY <1>1 DEF LoadOK
    <3> QED BY <1>2, <2>1, <3>1, MatchesSkipped DEF Argument
  <2> HIDE DEF H
  <2>4. /\ e \in LoadEntry /\ e.do = "load" /\ e.kind = Top.kind /\ e.args = Top.args
        /\ e.findex = Top.findex /\ e.holds = H
    BY <1>1, <2>1, <2>2 DEF LoadEntry
  <2> HIDE DEF e
  <2>5. Len(e.holds) <= Len(e.args)
    <3>1. Len(Top.holds) \in Nat /\ Len(Top.args) \in Nat
      BY <1>2
    <3> QED BY <2>1, <2>2, <2>4, <3>1
  <2>6. LoadOK(e)
    BY <1>1, <2>3, <2>4, <2>5 DEF LoadOK, NoOperators
  <2>7. EntryOK(e)
    BY <2>4, <2>6 DEF EntryOK
  <2> QED BY <1>1, <1>4, <2>1, <2>4, <2>7
<1> QED BY <1>5, <1>6, <1>7, <1>8

LEMMA EmitCallStep ==
  ASSUME OperandInv, EmitCall
  PROVE  OperandInv'
<1> DEFINE c == stack_counter + 1
           e == [do |-> "pass", kind |-> Top.kind, args |-> Top.args, findex |-> Top.findex,
                 holds |-> Top.holds, next |-> 1, loopc |-> 1, reg |-> c]
<1>1. /\ Top.do = "load" /\ Len(Top.holds) = Len(Top.args) /\ todo' = Replace(e)
      /\ stack_counter' = c /\ UNCHANGED result /\ printed' = {}
  BY DEF EmitCall, At, Define
<1>2. /\ todo # << >> /\ Top \in LoadEntry /\ LoadOK(Top)
      /\ c \in Nat /\ result \in Reg
  <2>1. stack_counter \in Nat /\ result \in Reg
    BY DEF OperandInv
  <2> QED BY <2>1, LoadTop DEF EmitCall
<1>3. /\ Top.args \in Seq(ExprKind) /\ Top.findex \in Seq(Nat) /\ Top.holds \in Seq(Reg)
      /\ Top.kind \in Call
  BY <1>2 DEF LoadEntry
<1> HIDE DEF c
<1>4. /\ e \in PassEntry /\ e.do = "pass" /\ e.kind = Top.kind /\ e.args = Top.args
      /\ e.findex = Top.findex /\ e.holds = Top.holds
      /\ e.next = 1 /\ e.loopc = 1 /\ e.reg = c
  BY <1>2, <1>3 DEF PassEntry
<1> HIDE DEF e
<1>5. PassOK(e)
  <2>1. e.next \in 1 .. Len(e.args) + 1
    <3>1. Len(e.args) \in Nat
      BY <1>3, <1>4
    <3> QED BY <1>4, <3>1
  <2>2. PICK f : Matches(e.args, e.findex, e.holds, f)
    BY <1>2, <1>4 DEF LoadOK
  <2>3. e.loopc = f[e.next - 1] + 1
    BY <1>4, <2>2 DEF Matches
  <2>4. NoOperators(e)
    BY <1>2, <1>4 DEF LoadOK, NoOperators
  <2>5. e.do = "pass" /\ Len(e.holds) = Len(e.args)
    BY <1>1, <1>4
  <2> QED BY <2>1, <2>2, <2>3, <2>4, <2>5 DEF PassOK
<1>6. EntryOK(e)
  BY <1>4, <1>5 DEF EntryOK
<1>7. Succeeds(e) /\ TopOK(e, result', stack_counter')
  BY <1>1, <1>4 DEF Succeeds, ExprDo, TopOK, WaitDo
<1>8. stack_counter' \in Nat /\ result' \in Reg /\ PrintedOK(printed')
  BY <1>1, <1>2, NothingPrinted
<1> QED BY <1>1, <1>2, <1>6, <1>7, <1>8, ReplaceStep

\* What the second loop finds.  f counts the arguments with a number up to each.
LEMMA PassTop ==
  ASSUME OperandInv, At("pass") \/ At("passed")
  PROVE  /\ todo # << >> /\ Top \in PassEntry /\ PassOK(Top)
         /\ Top.do \in {"pass", "passed"} /\ TopOK(Top, result, stack_counter)
         /\ Top.args \in Seq(ExprKind) /\ Top.kind \in Call
         /\ Len(Top.args) \in Nat /\ Top.next \in Nat /\ Top.loopc \in Nat /\ Top.reg \in Nat
         /\ Top.next <= Len(Top.args) => Top.next \in 1 .. Len(Top.args) /\ Passed \in ExprKind
         /\ stack_counter \in Nat /\ result \in Reg
<1>1. /\ todo # << >> /\ Top \in PassEntry /\ PassOK(Top)
      /\ Top.do \in {"pass", "passed"} /\ TopOK(Top, result, stack_counter)
      /\ stack_counter \in Nat /\ result \in Reg
  BY Tops, EntryKinds DEF At, OperandInv
<1>2. /\ Top.args \in Seq(ExprKind) /\ Top.kind \in Call
      /\ Top.next \in Nat /\ Top.loopc \in Nat /\ Top.reg \in Nat
  BY <1>1 DEF PassEntry
<1>3. Len(Top.args) \in Nat
  BY <1>2
<1>4. Top.next <= Len(Top.args) => Top.next \in 1 .. Len(Top.args)
  BY <1>1, <1>2, <1>3 DEF PassOK
<1> QED BY <1>1, <1>2, <1>3, <1>4 DEF Passed

\* The second loop goes on to the next argument.
LEMMA PassedEntry ==
  ASSUME Top \in PassEntry, PassOK(Top), Top.next \in 1 .. Len(Top.args),
         Len(Top.args) \in Nat, NEW e \in PassEntry, e.do = "pass",
         e.kind = Top.kind, e.args = Top.args, e.findex = Top.findex, e.holds = Top.holds,
         e.next = Top.next + 1,
         e.loopc = IF Passed \in Var \cup Call THEN Top.loopc + 1 ELSE Top.loopc
  PROVE  EntryOK(e)
<1>1. PICK f : Matches(Top.args, Top.findex, Top.holds, f) /\ Top.loopc = f[Top.next - 1] + 1
  BY DEF PassOK
<1>2. e.next - 1 = Top.next /\ e.next \in 1 .. Len(e.args) + 1
  OBVIOUS
<1>3. Len(Top.holds) = Len(Top.args) /\ NoOperators(Top)
  BY DEF PassOK
<1>4. f[Top.next] = IF Passed \in Var \cup Call THEN f[Top.next - 1] + 1 ELSE f[Top.next - 1]
  BY <1>1, <1>3 DEF Matches, Passed
<1>5. e.loopc = f[e.next - 1] + 1
  BY <1>1, <1>2, <1>4
<1>6. NoOperators(e)
  BY <1>3 DEF NoOperators
<1>7. PassOK(e)
  BY <1>1, <1>2, <1>3, <1>5, <1>6 DEF PassOK
<1> QED BY <1>7 DEF EntryOK

LEMMA PassPlainStep ==
  ASSUME OperandInv, PassPlain
  PROVE  OperandInv'
<1> DEFINE l == IF Passed \in Var \cup Call THEN Top.loopc + 1 ELSE Top.loopc
           e == [Top EXCEPT !.next = Top.next + 1, !.loopc = l]
<1>1. /\ todo # << >> /\ Top \in PassEntry /\ PassOK(Top)
      /\ TopOK(Top, result, stack_counter) /\ stack_counter \in Nat /\ result \in Reg
      /\ Len(Top.args) \in Nat /\ Top.next \in Nat /\ Top.loopc \in Nat
      /\ Top.next <= Len(Top.args) => Top.next \in 1 .. Len(Top.args) /\ Passed \in ExprKind
  BY PassTop DEF PassPlain, MoreToPass
<1>2. /\ Top.do = "pass" /\ Top.next <= Len(Top.args)
      /\ Passed \notin Operator \cup {"indexed"}
      /\ UNCHANGED <<stack_counter, result>>
      /\ todo' = Replace(e)
  BY <1>1 DEF PassPlain, MoreToPass, At, PassEntry
<1>3. Top.next + 1 \in Nat /\ l \in Nat
  BY <1>1
<1>4. /\ e \in PassEntry /\ e.do = "pass" /\ e.kind = Top.kind /\ e.args = Top.args
      /\ e.findex = Top.findex /\ e.holds = Top.holds /\ e.reg = Top.reg
      /\ e.next = Top.next + 1 /\ e.loopc = l
  <2> HIDE DEF l
  <2> QED BY <1>1, <1>2, <1>3 DEF PassEntry
<1> HIDE DEF e
<1>5. EntryOK(e)
  BY <1>1, <1>2, <1>4, PassedEntry
<1> HIDE DEF l
<1>6. Succeeds(e) /\ TopOK(e, result', stack_counter')
  BY <1>1, <1>2, <1>4 DEF Succeeds, ExprDo, TopOK, WaitDo
<1>7. PrintedOK(printed')
  <2>1. CASE Passed \in Var \cup Call
    <3>1. printed' = {Operand("argument", Passed, Top.findex[Top.loopc], Top.holds[Top.next])}
      BY <2>1 DEF PassPlain, Var, Call
    <3>2. Passed \notin {"local", "opcall"}
            => Top.findex[Top.loopc] = Top.holds[Top.next]
      <4>1. PICK f : /\ Matches(Top.args, Top.findex, Top.holds, f)
                     /\ Top.loopc = f[Top.next - 1] + 1
        BY <1>1 DEF PassOK
      <4>2. Top.next \in 1 .. Len(Top.holds)
        BY <1>1, <1>2 DEF PassOK
      <4> QED BY <2>1, <4>1, <4>2 DEF Matches, Passed
    <3>3. Passed \notin Lost("argument") => Top.findex[Top.loopc] = Top.holds[Top.next]
      BY <3>2 DEF Lost
    <3> QED BY <3>1, <3>3, OnePrinted
  <2>2. CASE Passed \notin Var \cup Call
    <3>1. Passed = "prim" \/ Passed = "other"
      BY <1>1, <1>2, <2>2 DEF ExprKind, Direct
    <3>2. \/ printed' = {}
          \/ Passed = "other" /\ printed' = {Operand("argument", Passed, stack_counter, None)}
      BY <3>1 DEF PassPlain, Var, Call
    <3>3. "other" \in Lost("argument")
      BY DEF Lost
    <3> QED BY <3>1, <3>2, <3>3, NothingPrinted, OnePrinted
  <2> QED BY <2>1, <2>2
<1> QED BY <1>1, <1>2, <1>5, <1>6, <1>7, ReplaceStep

LEMMA PassOperatorStep ==
  ASSUME OperandInv, PassOperator
  PROVE  OperandInv'
<1> DEFINE e == [Top EXCEPT !.do = "passed"]
           f == Entry("expr", Passed)
<1>1. /\ todo # << >> /\ Top \in PassEntry /\ PassOK(Top)
      /\ stack_counter \in Nat /\ result \in Reg
      /\ Top.next <= Len(Top.args) => Passed \in ExprKind
  BY PassTop DEF PassOperator, MoreToPass
<1>2. /\ Top.do = "pass" /\ Top.next <= Len(Top.args) /\ Passed \in Operator
      /\ UNCHANGED <<stack_counter, result>> /\ printed' = {}
      /\ todo' = ReplaceAndPush(e, f)
  BY DEF PassOperator, MoreToPass, At, Quiet, ReplaceAndCall
<1>3. /\ e \in PassEntry /\ e.do = "passed" /\ e.kind = Top.kind /\ e.args = Top.args
      /\ e.findex = Top.findex /\ e.holds = Top.holds /\ e.next = Top.next
      /\ e.loopc = Top.loopc
  BY <1>1 DEF PassEntry
<1>4. /\ EntryOK(f) /\ f.do = "expr" /\ f.kind = Passed
  BY <1>1, <1>2, ExprEntryOK
<1> HIDE DEF e, f
<1>5. PassOK(e)
  BY <1>1, <1>2, <1>3 DEF PassOK, NoOperators, Passed
<1>6. EntryOK(e) /\ Succeeds(e)
  BY <1>2, <1>3, <1>5 DEF EntryOK, Succeeds, ExprDo
<1>7. Link(e, f)
  BY <1>3, <1>4 DEF Link, ExprDo, WaitDo, Awaited, Passed
<1> QED BY <1>1, <1>2, <1>4, <1>6, <1>7, NothingPrinted, PushStep

LEMMA PassedOperatorStep ==
  ASSUME OperandInv, PassedOperator
  PROVE  OperandInv'
<1> DEFINE e == [Top EXCEPT !.do = "pass", !.next = Top.next + 1]
<1>1. /\ todo # << >> /\ Top \in PassEntry /\ PassOK(Top)
      /\ TopOK(Top, result, stack_counter) /\ stack_counter \in Nat /\ result \in Reg
      /\ Top.kind \in Call /\ Top.next \in Nat
      /\ Len(Top.args) \in Nat
      /\ Top.next <= Len(Top.args) => Top.next \in 1 .. Len(Top.args)
  BY PassTop DEF PassedOperator
<1>2. /\ Top.do = "passed" /\ todo' = Replace(e) /\ UNCHANGED <<stack_counter, result>>
      /\ printed' = {Operand("argument", Passed, stack_counter, result)}
  BY <1>1 DEF PassedOperator, At, PassEntry
<1>3. Top.next <= Len(Top.args) /\ Passed \in Operator
  BY <1>1, <1>2 DEF PassOK, Passed
<1>4. Passed \notin Var \cup Call
  BY <1>3 DEF Operator, Var, Call
<1>5. /\ e \in PassEntry /\ e.do = "pass" /\ e.kind = Top.kind /\ e.args = Top.args
      /\ e.findex = Top.findex /\ e.holds = Top.holds /\ e.reg = Top.reg
      /\ e.next = Top.next + 1 /\ e.loopc = Top.loopc
  <2>1. Top.next + 1 \in Nat
    BY <1>1
  <2> QED BY <1>1, <2>1 DEF PassEntry
<1> HIDE DEF e
<1>6. EntryOK(e)
  BY <1>1, <1>3, <1>4, <1>5, PassedEntry
\* A call with an operator among its arguments is an opcall.
<1>7. e.kind # "call"
  <2>1. Top.next \in DOMAIN Top.args
    BY <1>1, <1>3 DEF PassEntry
  <2> QED BY <1>1, <1>3, <1>5, <2>1 DEF PassOK, NoOperators, Passed
<1>8. Succeeds(e) /\ TopOK(e, result', stack_counter')
  BY <1>2, <1>5, <1>7 DEF Succeeds, ExprDo, TopOK, WaitDo
<1>9. PrintedOK(printed')
  <2>1. Returned(Passed, result, stack_counter)
    BY <1>1, <1>2 DEF TopOK, WaitDo, Awaited, Passed, Calls
  <2>2. Passed \notin Lost("argument") => stack_counter = result
    BY <1>3, <2>1 DEF Returned, Valued, Lost, Operator
  <2> QED BY <1>2, <2>2, OnePrinted
<1> QED BY <1>1, <1>2, <1>6, <1>8, <1>9, ReplaceStep

LEMMA EndCallStep ==
  ASSUME OperandInv, EndCall
  PROVE  OperandInv'
<1>1. /\ todo # << >> /\ TopOK(Top, result, stack_counter) /\ stack_counter \in Nat
      /\ Top.kind \in Call /\ Top.reg \in Nat
  BY PassTop DEF EndCall
<1>2. /\ Top.do = "pass" /\ todo' = Below /\ result' = Top.reg
      /\ UNCHANGED stack_counter /\ printed' = {}
  BY DEF EndCall, At, Quiet
<1>3. Returned(Top.kind, result', stack_counter')
  BY <1>1, <1>2 DEF TopOK, Returned, Call, Valued
<1>4. stack_counter' \in Nat /\ result' \in Reg
  BY <1>1, <1>2 DEF Reg
<1> QED BY <1>1, <1>2, <1>3, <1>4, NothingPrinted, ReturnStep

LEMMA ExprOperands ==
  ASSUME OperandInv, ExprStep
  PROVE  OperandInv'
<1>1. CASE Leaf
  BY <1>1, LeafStep
<1>2. CASE \E l, r \in Allowed(Numeric) : FirstOperand(l, r)
  BY <1>2, FirstOperandStep
<1>3. CASE SecondOperand
  BY <1>3, SecondOperandStep
<1>4. CASE EmitBinary
  BY <1>4, EmitBinaryStep
<1>5. CASE \E args \in Arguments : BeginCall(args)
  BY <1>5, BeginCallStep
<1>6. CASE LoadVariable \/ LoadCall \/ LoadedCall \/ LoadNothing
  BY <1>6, LoadSteps
<1>7. CASE EmitCall
  BY <1>7, EmitCallStep
<1>8. CASE PassPlain
  BY <1>8, PassPlainStep
<1>9. CASE PassOperator
  BY <1>9, PassOperatorStep
<1>10. CASE PassedOperator
  BY <1>10, PassedOperatorStep
<1>11. CASE EndCall
  BY <1>11, EndCallStep
<1>12. CASE CrashAtType \/ CrashAtElement
  BY <1>12, CrashStep DEF CrashAtType, CrashAtElement, MoreToLoad, MoreToPass, At
<1> QED
  BY <1>1, <1>2, <1>3, <1>4, <1>5, <1>6, <1>7, <1>8, <1>9, <1>10, <1>11, <1>12 DEF ExprStep

-----------------------------------------------------------------------------
(* The steps of statements                                                 *)

\* A statement ends.
LEMMA EndStatement ==
  ASSUME OperandInv, todo # << >>, Top.do \in StmtDo, todo' = Below,
         stack_counter' \in Nat, UNCHANGED result, PrintedOK(printed')
  PROVE  OperandInv'
<1>1. Top.do \notin ExprDo /\ Top.do # "crashed"
  BY DEF StmtDo, ExprDo
<1>2. result' \in Reg
  BY DEF OperandInv
<1> QED BY <1>1, <1>2, ReturnStep

\* A statement comes to the next of a compound statement.
LEMMA GoOnStatement ==
  ASSUME OperandInv, todo # << >>, Top.do \in StmtDo, NEW e, todo' = Replace(e),
         e.do \in StmtDo \ WaitDo, e.kind \in ExprKind \cup {"stmt", "body", "assign"},
         UNCHANGED <<stack_counter, result>>, PrintedOK(printed')
  PROVE  OperandInv'
<1>1. EntryOK(e) /\ Succeeds(e) /\ TopOK(e, result', stack_counter')
  BY DEF EntryOK, StmtOK, Succeeds, TopOK, StmtDo, ExprDo, WaitDo
<1>2. stack_counter' \in Nat /\ result' \in Reg
  BY DEF OperandInv
<1> QED BY <1>1, <1>2, ReplaceStep

\* A statement comes to a statement that is part of it.
LEMMA EnterStatement ==
  ASSUME OperandInv, todo # << >>, Top.do \in StmtDo, NEW e, NEW k \in {"body", "assign"},
         todo' = ReplaceAndPush(e, Entry("stmt", k)),
         e.do \in StmtDo \ WaitDo, e.kind \in ExprKind \cup {"stmt", "body", "assign"},
         UNCHANGED <<stack_counter, result>>, PrintedOK(printed')
  PROVE  OperandInv'
<1> DEFINE f == Entry("stmt", k)
<1>1. f.do = "stmt" /\ f.kind = k
  BY DEF Entry
<1> HIDE DEF f
<1>2. EntryOK(e) /\ EntryOK(f) /\ Succeeds(e) /\ Link(e, f)
  BY <1>1 DEF EntryOK, StmtOK, Succeeds, Link, StmtDo, ExprDo, WaitDo
<1>3. stack_counter' \in Nat /\ result' \in Reg
  BY DEF OperandInv
<1> QED BY <1>1, <1>2, <1>3, PushStep DEF f

\* A statement comes to its expression.
LEMMA EnterExpression ==
  ASSUME OperandInv, todo # << >>, Top.do \in StmtDo, NEW e, NEW k \in ExprKind,
         todo' = ReplaceAndCall(e, k),
         e.do \in StmtDo \cap WaitDo, e.kind = k, e.do = "store" => k \notin Direct,
         UNCHANGED <<stack_counter, result>>, PrintedOK(printed')
  PROVE  OperandInv'
<1> DEFINE f == Entry("expr", k)
<1>1. EntryOK(f) /\ f.do = "expr" /\ f.kind = k
  BY ExprEntryOK
<1>2. todo' = ReplaceAndPush(e, f)
  BY DEF ReplaceAndCall
<1> HIDE DEF f
<1>3. EntryOK(e) /\ Succeeds(e) /\ Link(e, f)
  BY <1>1 DEF EntryOK, StmtOK, Succeeds, Link, StmtDo, ExprDo, WaitDo, Awaited
<1>4. stack_counter' \in Nat /\ result' \in Reg
  BY DEF OperandInv
<1> QED BY <1>1, <1>2, <1>3, <1>4, PushStep

\* The value of the expression of a statement is in the newest register.
LEMMA StatementOperand ==
  ASSUME OperandInv, todo # << >>, NEW place,
         \/ Top.do = "store" /\ place = "store"
         \/ Top.do \in {"if", "if else", "while"} /\ place = "test"
  PROVE  PrintedOK({Operand(place, Top.kind, stack_counter, result)})
<1>1. Returned(Top.kind, result, stack_counter)
  BY DEF OperandInv, TopOK, WaitDo, Awaited, Calls
<1>2. Top.kind \in ExprKind /\ (Top.do = "store" => Top.kind \notin Direct)
  <2>1. EntryOK(Top) /\ Top.do \in WaitDo
    BY Tops DEF WaitDo
  <2> QED BY <2>1 DEF EntryOK, StmtOK, ExprEntry, SecondEntry, EmitEntry, LoadEntry, PassEntry
<1>3. Top.kind \notin Lost(place) => Top.kind \in Valued
  BY <1>2 DEF Lost, ExprKind, Operator, Call, Valued
<1> QED BY <1>1, <1>3, OnePrinted DEF Returned

LEMMA AssignmentOperands ==
  ASSUME OperandInv,
         AssignElement \/ Store \/ \E e \in Allowed(ExprKind) : AssignPlain(e) \/ Assign(e)
  PROVE  OperandInv'
<1>0. stack_counter \in Nat /\ stack_counter + 1 \in Nat /\ result \in Reg
  BY DEF OperandInv
<1>1. CASE Store
  <2>1. /\ todo # << >> /\ Top.do = "store" /\ todo' = Below
        /\ UNCHANGED <<stack_counter, result>>
        /\ printed' = {Operand("store", Top.kind, stack_counter, result)}
    BY <1>1 DEF Store, At
  <2> QED BY <1>0, <2>1, StatementOperand, EndStatement DEF StmtDo
<1>2. ASSUME NEW e \in Allowed(ExprKind), Assign(e)
      PROVE  OperandInv'
  <2>1. /\ todo # << >> /\ Top.do = "stmt" /\ todo' = ReplaceAndCall(Entry("store", e), e)
        /\ e \notin Direct /\ UNCHANGED <<stack_counter, result>> /\ printed' = {}
    BY <1>2 DEF Assign, At, Quiet
  <2>2. e \in ExprKind /\ Entry("store", e).do = "store" /\ Entry("store", e).kind = e
    BY DEF Allowed, Entry
  <2> QED BY <2>1, <2>2, NothingPrinted, EnterExpression DEF StmtDo, WaitDo
<1>3. ASSUME NEW e \in Allowed(ExprKind), AssignPlain(e)
      PROVE  OperandInv'
  <2>1. /\ todo # << >> /\ Top.do = "stmt" /\ todo' = Below /\ UNCHANGED result
        /\ e = "prim" \/ e = "global" \/ e = "local"
    BY <1>3 DEF AssignPlain, At, Direct, Var
  <2>2. stack_counter' \in Nat /\ PrintedOK(printed')
    <3>1. CASE e = "prim"
      BY <1>0, <1>3, <3>1, NothingPrinted DEF AssignPlain, Quiet
    <3>2. CASE e = "global"
      BY <1>0, <1>3, <3>2, OnePrinted DEF AssignPlain, Define
    <3>3. CASE e = "local"
      BY <1>0, <1>3, <3>3, OnePrinted DEF AssignPlain, Lost
    <3> QED BY <2>1, <3>1, <3>2, <3>3
  <2> QED BY <2>1, <2>2, EndStatement DEF StmtDo
<1>4. CASE AssignElement
  BY <1>4, CrashStep DEF AssignElement, At
<1> QED BY <1>1, <1>2, <1>3, <1>4

LEMMA BranchOperands ==
  ASSUME OperandInv,
         \/ \E e \in Allowed(IfTest) : IfThen(e, TRUE) \/ IfThen(e, FALSE)
         \/ \E e \in Allowed(WhileTest) : While(e)
         \/ IfTested \/ IfElseTested \/ Else \/ EndIf \/ WhileTested \/ EndWhile
  PROVE  OperandInv'
<1>0. stack_counter \in Nat
  BY DEF OperandInv
<1>1. \A what, labels : Labels(what, labels).do = what /\ Labels(what, labels).kind = "stmt"
  BY DEF Labels
<1>2. ASSUME NEW e \in Allowed(IfTest), NEW withElse \in BOOLEAN, IfThen(e, withElse)
      PROVE  OperandInv'
  <2> DEFINE what == IF withElse THEN "if else" ELSE "if"
  <2>1. /\ todo # << >> /\ Top.do = "stmt" /\ todo' = ReplaceAndCall(Entry(what, e), e)
        /\ UNCHANGED <<stack_counter, result>> /\ printed' = {}
    BY <1>2 DEF IfThen, AtStatement, At, Quiet
  <2>2. e \in ExprKind /\ Entry(what, e).do = what /\ Entry(what, e).kind = e
    BY DEF Allowed, IfTest, Entry
  <2>3. what \in StmtDo \cap WaitDo /\ what # "store"
    BY DEF StmtDo, WaitDo
  <2> HIDE DEF what
  <2> QED BY <2>1, <2>2, <2>3, NothingPrinted, EnterExpression DEF StmtDo
<1>3. ASSUME NEW e \in Allowed(WhileTest), While(e)
      PROVE  OperandInv'
  <2> DEFINE w == [do |-> "while", kind |-> e, label |-> <<label_counter>>]
  <2>1. /\ todo # << >> /\ Top.do = "stmt" /\ todo' = ReplaceAndCall(w, e)
        /\ UNCHANGED <<stack_counter, result>> /\ printed' = {}
    BY <1>3 DEF While, AtStatement, At, Quiet
  <2>2. e \in ExprKind /\ w.do = "while" /\ w.kind = e
    BY DEF Allowed, WhileTest
  <2> HIDE DEF w
  <2> QED BY <2>1, <2>2, NothingPrinted, EnterExpression DEF StmtDo, WaitDo
<1>4. CASE IfTested \/ IfElseTested \/ WhileTested
  <2>1. /\ todo # << >> /\ Top.do \in {"if", "if else", "while"}
        /\ UNCHANGED <<stack_counter, result>>
        /\ printed' = {Operand("test", Top.kind, stack_counter, result)}
    BY <1>4 DEF IfTested, IfElseTested, WhileTested, At, TestOperand
  <2>2. PrintedOK(printed')
    BY <2>1, StatementOperand
  <2>3. ASSUME NEW what \in {"end if", "else", "end while"}, NEW labels,
               todo' = ReplaceAndPush(Labels(what, labels), Entry("stmt", "body"))
        PROVE  OperandInv'
    <3> DEFINE e == Labels(what, labels)
    <3>1. e.do \in StmtDo \ WaitDo /\ e.kind = "stmt" /\ Top.do \in StmtDo
      BY <1>1, <2>1 DEF StmtDo, WaitDo
    <3> HIDE DEF e
    <3>2. todo' = ReplaceAndPush(e, Entry("stmt", "body"))
      BY <2>3 DEF e
    <3> QED BY <2>1, <2>2, <3>1, <3>2, EnterStatement
  <2>4. CASE IfTested
    BY <2>3, <2>4 DEF IfTested, ReplaceAndNest
  <2>5. CASE IfElseTested
    BY <2>3, <2>5 DEF IfElseTested, ReplaceAndNest
  <2>6. CASE WhileTested
    BY <2>3, <2>6 DEF WhileTested, ReplaceAndNest
  <2> QED BY <1>4, <2>4, <2>5, <2>6
<1>5. CASE Else
  <2>1. /\ todo # << >> /\ Top.do = "else"
        /\ todo' = ReplaceAndPush(Labels("end if", <<Top.label[2]>>), Entry("stmt", "body"))
        /\ UNCHANGED <<stack_counter, result>> /\ printed' = {}
    BY <1>5 DEF Else, At, ReplaceAndNest, Quiet
  <2> DEFINE e == Labels("end if", <<Top.label[2]>>)
  <2>2. e.do = "end if" /\ e.kind = "stmt"
    BY <1>1
  <2> HIDE DEF e
  <2>3. todo' = ReplaceAndPush(e, Entry("stmt", "body"))
    BY <2>1 DEF e
  <2>4. e.do \in StmtDo \ WaitDo /\ Top.do \in StmtDo
    BY <2>1, <2>2 DEF StmtDo, WaitDo
  <2> QED BY <2>1, <2>2, <2>3, <2>4, NothingPrinted, EnterStatement
<1>6. CASE EndIf \/ EndWhile
  <2>1. /\ todo # << >> /\ Top.do \in {"end if", "end while"} /\ todo' = Below
        /\ UNCHANGED <<stack_counter, result>> /\ printed' = {}
    BY <1>6 DEF EndIf, EndWhile, At, Quiet
  <2> QED BY <1>0, <2>1, NothingPrinted, EndStatement DEF StmtDo
<1> QED BY <1>2, <1>3, <1>4, <1>5, <1>6

LEMMA PlainOperands ==
  ASSUME OperandInv,
         \/ Unsupported \/ Compound \/ NextOfCompound \/ EndCompound
         \/ For \/ ForAssigned \/ EndFor
  PROVE  OperandInv'
<1>0. stack_counter \in Nat
  BY DEF OperandInv
<1>1. CASE Unsupported \/ EndCompound \/ EndFor
  <2>1. /\ todo # << >> /\ Top.do \in {"stmt", "sequence", "end for"} /\ todo' = Below
        /\ UNCHANGED <<stack_counter, result>> /\ printed' = {}
    BY <1>1 DEF Unsupported, EndCompound, EndFor, AtStatement, At, Quiet
  <2> QED BY <1>0, <2>1, NothingPrinted, EndStatement DEF StmtDo
<1>2. CASE Compound
  <2>1. /\ todo # << >> /\ Top.do = "stmt" /\ todo' = Replace(Entry("sequence", "stmt"))
        /\ UNCHANGED <<stack_counter, result>> /\ printed' = {}
    BY <1>2 DEF Compound, AtStatement, At, Quiet
  <2>2. Entry("sequence", "stmt").do = "sequence" /\ Entry("sequence", "stmt").kind = "stmt"
    BY DEF Entry
  <2> QED BY <2>1, <2>2, NothingPrinted, GoOnStatement DEF StmtDo, WaitDo
<1>3. CASE NextOfCompound
  <2>1. /\ todo # << >> /\ Top.do = "sequence" /\ todo' = Append(todo, Entry("stmt", "body"))
        /\ UNCHANGED <<stack_counter, result>> /\ printed' = {}
    BY <1>3 DEF NextOfCompound, At, Quiet
  <2>2. Replace(Top) = todo
    <3>1. PICK S : todo \in Seq(S)
      BY DEF OperandInv
    <3> DEFINE r == Replace(Top)
               n == Len(todo)
    <3>2. /\ r \in Seq(S \cup {Top}) /\ Len(r) = n /\ r[n] = todo[n]
          /\ \A k \in 1 .. n - 1 : r[k] = todo[k]
      BY <2>1, <3>1, ReplaceShape DEF Top
    <3>3. n \in Nat \ {0} /\ todo \in Seq(S \cup {Top})
      BY <2>1, <3>1
    <3> HIDE DEF r, n
    <3>4. \A k \in 1 .. n : k = n \/ k \in 1 .. n - 1
      BY <3>3
    <3>5. \A k \in 1 .. n : r[k] = todo[k]
      BY <3>2, <3>4
    <3>6. r = todo
      BY <3>2, <3>3, <3>5, SeqEqual DEF n
    <3> QED BY <3>6 DEF r
  <2>3. todo' = ReplaceAndPush(Top, Entry("stmt", "body"))
    BY <2>1, <2>2 DEF ReplaceAndPush
  <2>4. Top.kind \in ExprKind \cup {"stmt", "body", "assign"}
    BY <2>1, Tops, EntryKinds
  <2> QED BY <2>1, <2>3, <2>4, NothingPrinted, EnterStatement DEF StmtDo, WaitDo
<1>4. CASE For
  <2>1. /\ todo # << >> /\ Top.do = "stmt"
        /\ todo' = ReplaceAndPush(Entry("for", "stmt"), Entry("stmt", "assign"))
        /\ UNCHANGED <<stack_counter, result>> /\ printed' = {}
    BY <1>4 DEF For, AtStatement, At, Quiet
  <2>2. Entry("for", "stmt").do = "for" /\ Entry("for", "stmt").kind = "stmt"
    BY DEF Entry
  <2> QED BY <2>1, <2>2, NothingPrinted, EnterStatement DEF StmtDo, WaitDo
<1>5. CASE ForAssigned
  <2>1. /\ todo # << >> /\ Top.do = "for"
        /\ todo' = ReplaceAndPush(Entry("end for", "stmt"), Entry("stmt", "body"))
        /\ UNCHANGED <<stack_counter, result>>
        /\ printed' = {Operand("test", "other", stack_counter, None)}
    BY <1>5 DEF ForAssigned, At, ReplaceAndNest
  <2>2. Entry("end for", "stmt").do = "end for" /\ Entry("end for", "stmt").kind = "stmt"
    BY DEF Entry
  <2>3. PrintedOK(printed')
    BY <2>1, OnePrinted DEF Lost
  <2> QED BY <2>1, <2>2, <2>3, EnterStatement DEF StmtDo, WaitDo
<1> QED BY <1>1, <1>2, <1>3, <1>4, <1>5

-----------------------------------------------------------------------------
(* The theorems                                                            *)

\* The entry with which the block of the main program or of a function begins.
LEMMA BodyEntry ==
  ASSUME NEW t, t = <<Entry("sequence", "stmt")>>
  PROVE  /\ t \in Seq({Entry("sequence", "stmt")}) /\ Len(t) = 1 /\ DOMAIN t = {1}
         /\ EntryOK(t[1])
         /\ \A r, n : TopOK(t[1], r, n)
<1> DEFINE e == Entry("sequence", "stmt")
<1>1. e.do = "sequence" /\ e.kind = "stmt"
  BY DEF Entry
<1> HIDE DEF e
<1>2. t = <<e>>
  BY DEF e
<1>3. t \in Seq({e}) /\ Len(t) = 1 /\ DOMAIN t = {1} /\ t[1] = e
  BY <1>2
<1>4. EntryOK(e) /\ \A r, n : TopOK(e, r, n)
  BY <1>1 DEF EntryOK, StmtOK, StmtDo, TopOK, WaitDo
<1> QED BY <1>3, <1>4 DEF e

LEMMA InitOperands == Init => OperandInv
<1> SUFFICES ASSUME Init PROVE OperandInv
  OBVIOUS
<1>1. /\ todo = <<Entry("sequence", "stmt")>> /\ stack_counter \in Nat /\ result \in Reg
      /\ printed = {}
  BY DEF Init, Reg
<1>2. /\ \E S : todo \in Seq(S)
      /\ Len(todo) = 1 /\ DOMAIN todo = {1} /\ EntryOK(todo[1])
      /\ TopOK(todo[1], result, stack_counter)
  BY <1>1, BodyEntry
<1>3. 1 .. Len(todo) - 1 = {} /\ Top = todo[1]
  BY <1>2 DEF Top
<1> QED BY <1>1, <1>2, <1>3, NothingPrinted DEF OperandInv

LEMMA NextOperands == OperandInv /\ [Next]_vars => OperandInv'
<1> SUFFICES ASSUME OperandInv, [Next]_vars PROVE OperandInv'
  OBVIOUS
<1>1. CASE UNCHANGED vars
  BY <1>1 DEF vars, evars, OperandInv, Top
<1>2. CASE \E n \in ParamCounts : NextBody(n)
  <2>1. PICK n \in ParamCounts : NextBody(n)
    BY <1>2
  <2>2. /\ todo' = <<Entry("sequence", "stmt")>> /\ stack_counter' \in Nat
        /\ result' \in Reg /\ printed' = {}
    BY <2>1, TranslateBounds DEF NextBody, OperandInv
  <2>3. /\ \E S : todo' \in Seq(S)
        /\ Len(todo') = 1 /\ DOMAIN todo' = {1} /\ EntryOK(todo'[1])
        /\ TopOK(todo'[1], result', stack_counter')
    BY <2>2, BodyEntry
  <2>4. 1 .. Len(todo') - 1 = {} /\ Top' = todo'[1]
    BY <2>3 DEF Top
  <2> QED BY <2>2, <2>3, <2>4, NothingPrinted DEF OperandInv
<1>3. CASE Next /\ ~ UNCHANGED vars /\ ~ \E n \in ParamCounts : NextBody(n)
  BY <1>3, ExprOperands, AssignmentOperands, BranchOperands, PlainOperands DEF Next, Finished
<1> QED BY <1>1, <1>2, <1>3

\* In the text of every function each right operand, each left operand of a
\* comparison, each argument and what a statement stores or tests is the register
\* that holds its value, unless it is one of the operands that Lost names: what is
\* not translated, a call to the right of an arithmetic operator, a call with
\* operators among its arguments, a local variable passed or stored, and a bare
\* name or number tested.
THEOREM OperandsHeld ==
  Spec => [](RightOperandHeld /\ ComparisonLeftHeld /\ ArgumentHeld /\ StatementOperandHeld)
<1>1. OperandInv => RightOperandHeld /\ ComparisonLeftHeld /\ ArgumentHeld /\ StatementOperandHeld
  BY DEF OperandInv, PrintedOK, RightOperandHeld, ComparisonLeftHeld, ArgumentHeld,
         StatementOperandHeld, Held
<1> QED BY <1>1, InitOperands, NextOperands, PTL DEF Spec

BodiesInv == bodies \in Nat

LEMMA BodiesCount == BodiesInv /\ [Next]_vars => BodiesInv'
<1> SUFFICES ASSUME bodies \in Nat, [Next]_vars PROVE bodies' \in Nat
  BY DEF BodiesInv
<1>1. CASE \/ ExprStep /\ NoLabels
           \/ Unsupported \/ Compound \/ NextOfCompound \/ EndCompound
           \/ AssignElement \/ Store
           \/ For \/ ForAssigned \/ EndFor
  BY <1>1 DEF NoLabels, Unsupported, Compound, NextOfCompound, EndCompound,
              AssignElement, Store, For, ForAssigned, EndFor
<1>2. CASE \/ \E e \in Allowed(ExprKind) : AssignPlain(e) \/ Assign(e)
           \/ \E e \in Allowed(IfTest) : IfThen(e, TRUE) \/ IfThen(e, FALSE)
           \/ \E e \in Allowed(WhileTest) : While(e)
  BY <1>2 DEF NoLabels, AssignPlain, Assign, IfThen, While
<1>3. CASE \/ IfTested \/ IfElseTested \/ Else \/ EndIf \/ WhileTested \/ EndWhile
  BY <1>3 DEF IfTested, IfElseTested, Else, EndIf, WhileTested, EndWhile
<1>4. CASE \E n \in ParamCounts : NextBody(n)
  BY <1>4 DEF NextBody
<1>5. CASE Finished \/ UNCHANGED vars
  BY <1>5 DEF Finished, vars, evars
<1> QED BY <1>1, <1>2, <1>3, <1>4, <1>5 DEF Next

\* An entry of one of the two loops is inside its bounds.
LEMMA LoopBounds ==
  ASSUME NEW e \in PassEntry, PassOK(e)
  PROVE  /\ e.next \in 1 .. Len(e.args) + 1
         /\ e.loopc \in 1 .. Len(e.findex) + 1
         /\ Len(e.holds) = Len(e.args)
<1>1. PICK f : Matches(e.args, e.findex, e.holds, f) /\ e.loopc = f[e.next - 1] + 1
  BY DEF PassOK
<1>2. e.next \in 1 .. Len(e.args) + 1 /\ Len(e.holds) = Len(e.args)
  BY DEF PassOK
<1>3. Len(e.args) \in Nat /\ Len(e.findex) \in Nat /\ e.next \in Nat
  BY DEF PassEntry
<1>4. e.next - 1 \in 0 .. Len(e.holds)
  BY <1>2, <1>3
<1>5. f[e.next - 1] \in 0 .. Len(e.findex)
  BY <1>1, <1>4 DEF Matches
<1>6. e.loopc \in 1 .. Len(e.findex) + 1
  BY <1>1, <1>3, <1>5
<1> QED BY <1>2, <1>6

\* Every state has the types stated, and the second loop over the arguments of a
\* call reads findex only where the first has written.
THEOREM TypeCorrect == Spec => []TypeOK
<1>1. OperandInv /\ RegisterInv /\ LabelInv /\ BodiesInv => TypeOK
  <2> SUFFICES ASSUME OperandInv, RegisterInv, LabelInv, BodiesInv
               PROVE  TypeOK
    OBVIOUS
  <2>1. ASSUME NEW k \in DOMAIN todo
        PROVE  /\ todo[k].kind \in ExprKind \cup {"stmt", "body", "assign"}
               /\ todo[k].do \in {"pass", "passed"} =>
                    /\ todo[k].next \in 1 .. Len(todo[k].args) + 1
                    /\ todo[k].loopc \in 1 .. Len(todo[k].findex) + 1
                    /\ Len(todo[k].holds) = Len(todo[k].args)
    <3>1. EntryOK(todo[k])
      BY DEF OperandInv
    <3> QED BY <3>1, EntryKinds, LoopBounds
  <2>2. targets \subseteq Nat
    <3> SUFFICES ASSUME NEW l \in targets PROVE l \in Nat
      OBVIOUS
    <3>1. CASE Placed(l)
      BY <3>1 DEF Placed, LabelInv
    <3>2. CASE \E k \in DOMAIN todo : l \in Waits(todo[k])
      BY <3>2 DEF LabelInv
    <3> QED BY <3>1, <3>2 DEF LabelInv
  <2>3. stack_counter \in Nat /\ defined \in Seq(Nat)
    BY DEF RegisterInv
  <2>4. label_counter \in Nat /\ placed \in Seq(Nat)
    BY DEF LabelInv
  <2>5. result \in Nat \cup {None}
    BY DEF OperandInv, Reg
  <2> QED BY <2>1, <2>2, <2>3, <2>4, <2>5 DEF TypeOK, BodiesInv
<1>2. Init => BodiesInv
  BY DEF Init, BodiesInv
<1> QED
  BY <1>1, <1>2, BodiesCount, InitOperands, NextOperands, InitRegisters, NextRegisters,
     InitLabels, NextLabels, PTL DEF Spec

=============================================================================
