--------------------------- MODULE TranslateProofs ---------------------------
(***************************************************************************)
(* Proofs about Translate, for all bounds.                                 *)
(***************************************************************************)
EXTENDS Translate, TLAPS

-----------------------------------------------------------------------------
(* Registers                                                               *)

RegisterInv ==
  /\ stack_counter \in Nat
  /\ defined \in Seq(Nat)
  /\ DefinedInOrder

LEMMA RegistersUnchanged ==
  ASSUME RegisterInv, stack_counter' \in Nat, stack_counter' >= stack_counter,
         UNCHANGED defined
  PROVE  RegisterInv'
BY DEF RegisterInv, DefinedInOrder

LEMMA RegisterDefined ==
  ASSUME RegisterInv, NEW operands, Define(operands)
  PROVE  RegisterInv'
<1>1. defined' = Append(defined, stack_counter + 1) /\ stack_counter' = stack_counter + 1
  BY DEF Define
<1>2. defined' \in Seq(Nat) /\ stack_counter' \in Nat
  BY <1>1 DEF RegisterInv
<1>3. \A i \in DOMAIN defined' :
        defined'[i] = IF i = Len(defined) + 1 THEN stack_counter + 1 ELSE defined[i]
  BY <1>1 DEF RegisterInv
<1>4. \A i \in DOMAIN defined : defined[i] <= stack_counter /\ defined[i] \in Nat
  BY DEF RegisterInv, DefinedInOrder
<1>5. DOMAIN defined = 1 .. Len(defined) /\ DOMAIN defined' = 1 .. Len(defined) + 1
  BY <1>1 DEF RegisterInv
<1>6. \A i \in DOMAIN defined' : defined'[i] <= stack_counter'
  BY <1>1, <1>3, <1>4, <1>5 DEF RegisterInv
<1>7. ASSUME NEW i \in DOMAIN defined', NEW j \in DOMAIN defined', i < j
      PROVE  defined'[i] < defined'[j]
  <2>1. i \in DOMAIN defined
    BY <1>5, <1>7 DEF RegisterInv
  <2>2. CASE j = Len(defined) + 1
    BY <1>3, <1>4, <1>5, <2>1, <2>2 DEF RegisterInv
  <2>3. CASE j # Len(defined) + 1
    BY <1>3, <1>5, <1>7, <2>1, <2>3 DEF RegisterInv, DefinedInOrder
  <2> QED BY <2>2, <2>3
<1> QED BY <1>2, <1>6, <1>7 DEF RegisterInv, DefinedInOrder

\* A new function starts with the registers of its parameters.
LEMMA RegistersOfBody ==
  ASSUME NEW n \in ParamCounts, NextBody(n)
  PROVE  RegisterInv'
<1>1. n \in Nat /\ stack_counter' = n /\ defined' = [i \in 1 .. n |-> i - 1]
  BY TranslateBounds DEF NextBody
<1> QED BY <1>1 DEF RegisterInv, DefinedInOrder

\* Every other step defines one register, or none.
LEMMA RegisterSteps ==
  ASSUME RegisterInv, Next, ~ \E n \in ParamCounts : NextBody(n)
  PROVE  \/ UNCHANGED defined /\ stack_counter' \in {stack_counter, stack_counter + 1}
         \/ \E operands : Define(operands)
<1>1. CASE ExprStep
  <2>1. CASE \/ Leaf \/ \E l, r \in Allowed(Numeric) : FirstOperand(l, r)
             \/ SecondOperand \/ \E args \in Arguments : BeginCall(args)
    BY <2>1 DEF Leaf, FirstOperand, SecondOperand, BeginCall, Quiet
  <2>2. CASE EmitBinary \/ EmitCall
    BY <2>2 DEF EmitBinary, EmitCall
  <2>3. CASE LoadVariable
    <3>1. CASE Argument = "global"
      BY <2>3, <3>1 DEF LoadVariable
    <3>2. CASE Argument # "global"
      BY <2>3, <3>2 DEF LoadVariable, Quiet
    <3> QED BY <3>1, <3>2
  <2>4. CASE LoadCall \/ LoadedCall \/ LoadNothing
    BY <2>4 DEF LoadCall, LoadedCall, LoadNothing, Quiet
  <2>5. CASE PassPlain \/ PassOperator \/ PassedOperator \/ EndCall
    BY <2>5 DEF PassPlain, PassOperator, PassedOperator, EndCall, Quiet
  <2>6. CASE CrashAtType \/ CrashAtElement
    BY <2>6 DEF CrashAtType, CrashAtElement, Crash, Quiet
  <2> QED BY <1>1, <2>1, <2>2, <2>3, <2>4, <2>5, <2>6 DEF ExprStep
<1>2. CASE Unsupported \/ Compound \/ NextOfCompound \/ EndCompound \/ Store \/ AssignElement
  BY <1>2 DEF Unsupported, Compound, NextOfCompound, EndCompound, Store, AssignElement, Crash,
              Quiet
<1>3. ASSUME NEW e \in Allowed(ExprKind), AssignPlain(e) \/ Assign(e)
      PROVE  \/ UNCHANGED defined /\ stack_counter' \in {stack_counter, stack_counter + 1}
             \/ \E operands : Define(operands)
  <2>1. CASE Assign(e)
    BY <2>1 DEF Assign, Quiet
  <2>2. CASE AssignPlain(e)
    <3>1. e \in {"prim", "global", "local"}
      BY <2>2 DEF AssignPlain, Direct, Var
    <3> QED BY <2>2, <3>1 DEF AssignPlain, Quiet
  <2> QED BY <1>3, <2>1, <2>2
<1>4. CASE \/ \E e \in Allowed(IfTest) : IfThen(e, TRUE) \/ IfThen(e, FALSE)
           \/ \E e \in Allowed(WhileTest) : While(e)
  BY <1>4 DEF IfThen, While, Quiet
<1>5. CASE IfTested \/ IfElseTested \/ Else \/ EndIf
  BY <1>5 DEF IfTested, IfElseTested, Else, EndIf, Quiet
<1>6. CASE WhileTested \/ EndWhile \/ For \/ ForAssigned \/ EndFor \/ Finished
  BY <1>6 DEF WhileTested, EndWhile, For, ForAssigned, EndFor, Finished, Quiet, vars, evars
<1> QED BY <1>1, <1>2, <1>3, <1>4, <1>5, <1>6 DEF Next

LEMMA InitRegisters == Init => RegisterInv
BY DEF Init, RegisterInv, DefinedInOrder

LEMMA NextRegisters == RegisterInv /\ [Next]_vars => RegisterInv'
<1> SUFFICES ASSUME RegisterInv, [Next]_vars
             PROVE  RegisterInv'
  OBVIOUS
<1>1. CASE \E n \in ParamCounts : NextBody(n)
  BY <1>1, RegistersOfBody
<1>2. CASE Next /\ ~ \E n \in ParamCounts : NextBody(n)
  <2>1. CASE UNCHANGED defined /\ stack_counter' \in {stack_counter, stack_counter + 1}
    <3>1. stack_counter' \in Nat /\ stack_counter' >= stack_counter
      BY <2>1 DEF RegisterInv
    <3> QED BY <2>1, <3>1, RegistersUnchanged
  <2>2. CASE \E operands : Define(operands)
    BY <2>2, RegisterDefined
  <2> QED BY <1>2, <2>1, <2>2, RegisterSteps
<1>3. CASE UNCHANGED vars
  BY <1>3 DEF vars, evars, RegisterInv, DefinedInOrder
<1> QED BY <1>1, <1>2, <1>3

\* In every function of every program the instructions define registers in
\* increasing order, none of them twice.
THEOREM RegistersCorrect == Spec => []DefinedInOrder
<1>1. RegisterInv => DefinedInOrder
  BY DEF RegisterInv
<1> QED BY <1>1, InitRegisters, NextRegisters, PTL DEF Spec

-----------------------------------------------------------------------------
(* Labels                                                                  *)

\* The labels that a statement in progress has drawn and not placed yet, and the
\* one it has placed and will branch to again.
Waits(e) ==
  IF e.do = "else" THEN {e.label[1], e.label[2]}
  ELSE IF e.do = "end if" THEN {e.label[1]}
  ELSE IF e.do = "end while" THEN {e.label[2]}
  ELSE {}

Returns(e) == IF e.do \in {"while", "end while"} THEN {e.label[1]} ELSE {}

Plain(e) == "do" \in DOMAIN e /\ e.do \notin {"else", "end if", "while", "end while"}

Placed(l) == \E i \in DOMAIN placed : placed[i] = l

LabelInv ==
  /\ \E S : todo \in Seq(S)
  /\ \A k \in DOMAIN todo : "do" \in DOMAIN todo[k]
  /\ label_counter \in Nat
  /\ placed \in Seq(Nat)
  /\ \A i \in DOMAIN placed : placed[i] < label_counter
  /\ LabelsPlacedOnce
  /\ \A k \in DOMAIN todo : \A l \in Waits(todo[k]) :
       l \in Nat /\ l < label_counter /\ ~Placed(l)
  /\ \A k, m \in DOMAIN todo : k # m => Waits(todo[k]) \cap Waits(todo[m]) = {}
  /\ \A k \in DOMAIN todo : todo[k].do = "else" => todo[k].label[1] # todo[k].label[2]
  /\ \A k \in DOMAIN todo : \A l \in Returns(todo[k]) : Placed(l)
  /\ \A l \in targets : Placed(l) \/ \E k \in DOMAIN todo : l \in Waits(todo[k])

LEMMA PlainWaits ==
  ASSUME NEW e, Plain(e)
  PROVE  Waits(e) = {} /\ Returns(e) = {} /\ e.do # "else" /\ "do" \in DOMAIN e
BY DEF Plain, Waits, Returns

\* A step that neither places a label nor branches, and that begins or ends
\* calls that have no labels.
LEMMA PlainStep ==
  ASSUME LabelInv,
         \E S : todo' \in Seq(S),
         label_counter' \in Nat, label_counter' >= label_counter,
         UNCHANGED <<placed, targets>>,
         \A k \in DOMAIN todo' : (k \in DOMAIN todo /\ todo'[k] = todo[k]) \/ Plain(todo'[k]),
         \A k \in DOMAIN todo : (k \in DOMAIN todo' /\ todo'[k] = todo[k]) \/ Plain(todo[k])
  PROVE  LabelInv'
<1>1. \A k \in DOMAIN todo' : \/ k \in DOMAIN todo /\ todo'[k] = todo[k]
                              \/ /\ Waits(todo'[k]) = {} /\ Returns(todo'[k]) = {}
                                 /\ todo'[k].do # "else" /\ "do" \in DOMAIN todo'[k]
  BY PlainWaits
<1>2. \A k \in DOMAIN todo : (k \in DOMAIN todo' /\ todo'[k] = todo[k]) \/ Waits(todo[k]) = {}
  BY PlainWaits
<1>3. \A l : Placed(l)' <=> Placed(l)
  BY DEF Placed
<1>4. \A k \in DOMAIN todo' : "do" \in DOMAIN todo'[k]
  BY <1>1 DEF LabelInv
<1>5. /\ placed' \in Seq(Nat)
      /\ \A i \in DOMAIN placed' : placed'[i] < label_counter'
  BY DEF LabelInv
<1>6. LabelsPlacedOnce'
  BY DEF LabelInv, LabelsPlacedOnce
<1>7. ASSUME NEW k \in DOMAIN todo', NEW l \in Waits(todo'[k])
      PROVE  l \in Nat /\ l < label_counter' /\ ~Placed(l)'
  <2>1. k \in DOMAIN todo /\ l \in Waits(todo[k])
    BY <1>1, <1>7
  <2>2. l \in Nat /\ l < label_counter /\ ~Placed(l) /\ label_counter \in Nat
    BY <2>1 DEF LabelInv
  <2> QED BY <1>3, <2>2
<1>8. \A k, m \in DOMAIN todo' : k # m => Waits(todo'[k]) \cap Waits(todo'[m]) = {}
  BY <1>1 DEF LabelInv
<1>9. \A k \in DOMAIN todo' : todo'[k].do = "else" => todo'[k].label[1] # todo'[k].label[2]
  BY <1>1 DEF LabelInv
<1>10. \A k \in DOMAIN todo' : \A l \in Returns(todo'[k]) : Placed(l)'
  BY <1>1, <1>3 DEF LabelInv
<1>11. \A l \in targets' : Placed(l)' \/ \E k \in DOMAIN todo' : l \in Waits(todo'[k])
  BY <1>2, <1>3 DEF LabelInv
<1> QED
  BY <1>4, <1>5, <1>6, <1>7, <1>8, <1>9, <1>10, <1>11 DEF LabelInv, Waits, Returns

LEMMA AppendShape ==
  ASSUME NEW S, NEW b \in Seq(S), NEW e
  PROVE  /\ Append(b, e) \in Seq(S \cup {e}) /\ Len(Append(b, e)) = Len(b) + 1
         /\ Append(b, e)[Len(b) + 1] = e
         /\ \A k \in 1 .. Len(b) : Append(b, e)[k] = b[k]
<1>1. b \in Seq(S \cup {e}) /\ e \in S \cup {e}
  OBVIOUS
<1> QED BY <1>1

\* The shapes that a step gives the calls in progress.
LEMMA BelowShape ==
  ASSUME NEW S, todo \in Seq(S), todo # << >>
  PROVE  /\ Len(todo) \in Nat \ {0} /\ DOMAIN todo = 1 .. Len(todo)
         /\ Len(todo) \in DOMAIN todo /\ Top = todo[Len(todo)]
         /\ Below \in Seq(S) /\ Len(Below) = Len(todo) - 1
         /\ \A k \in 1 .. Len(todo) - 1 : Below[k] = todo[k]
<1>1. /\ Len(todo) \in Nat \ {0} /\ DOMAIN todo = 1 .. Len(todo)
      /\ Len(todo) \in DOMAIN todo
  OBVIOUS
<1> QED BY <1>1 DEF Below, Top

LEMMA ReplaceShape ==
  ASSUME NEW S, todo \in Seq(S), todo # << >>, NEW e
  PROVE  /\ Replace(e) \in Seq(S \cup {e}) /\ Len(Replace(e)) = Len(todo)
         /\ Replace(e)[Len(todo)] = e
         /\ \A k \in 1 .. Len(todo) - 1 : Replace(e)[k] = todo[k]
<1> DEFINE b == Below
           r == Append(b, e)
<1>1. /\ Len(todo) \in Nat \ {0} /\ b \in Seq(S) /\ Len(b) = Len(todo) - 1
      /\ \A k \in 1 .. Len(todo) - 1 : b[k] = todo[k]
  BY BelowShape
<1>2. r = Replace(e)
  BY DEF Replace
<1> HIDE DEF b
<1>3. /\ r \in Seq(S \cup {e}) /\ Len(r) = Len(b) + 1 /\ r[Len(b) + 1] = e
      /\ \A k \in 1 .. Len(b) : r[k] = b[k]
  BY <1>1, AppendShape
<1> HIDE DEF r
<1>4. /\ Len(r) = Len(todo) /\ r[Len(todo)] = e
      /\ \A k \in 1 .. Len(todo) - 1 : r[k] = todo[k]
  BY <1>1, <1>3
<1> QED BY <1>2, <1>3, <1>4

LEMMA PushShape ==
  ASSUME NEW S, todo \in Seq(S), todo # << >>, NEW e, NEW f
  PROVE  /\ ReplaceAndPush(e, f) \in Seq((S \cup {e}) \cup {f})
         /\ Len(ReplaceAndPush(e, f)) = Len(todo) + 1
         /\ ReplaceAndPush(e, f)[Len(todo)] = e
         /\ ReplaceAndPush(e, f)[Len(todo) + 1] = f
         /\ \A k \in 1 .. Len(todo) - 1 : ReplaceAndPush(e, f)[k] = todo[k]
<1> DEFINE r == Replace(e)
           a == Append(r, f)
<1>1. /\ Len(todo) \in Nat \ {0} /\ r \in Seq(S \cup {e}) /\ Len(r) = Len(todo)
      /\ r[Len(todo)] = e
      /\ \A k \in 1 .. Len(todo) - 1 : r[k] = todo[k]
  BY BelowShape, ReplaceShape
<1>2. a = ReplaceAndPush(e, f)
  BY DEF ReplaceAndPush
<1> HIDE DEF r
<1>3. /\ a \in Seq((S \cup {e}) \cup {f}) /\ Len(a) = Len(r) + 1 /\ a[Len(r) + 1] = f
      /\ \A k \in 1 .. Len(r) : a[k] = r[k]
  BY <1>1, AppendShape
<1> HIDE DEF a
<1>4. Len(r) \in 1 .. Len(r) /\ \A k \in 1 .. Len(todo) - 1 : k \in 1 .. Len(r)
  BY <1>1
<1>5. /\ Len(a) = Len(todo) + 1 /\ a[Len(todo) + 1] = f /\ a[Len(todo)] = e
      /\ \A k \in 1 .. Len(todo) - 1 : a[k] = todo[k]
  BY <1>1, <1>3, <1>4
<1> QED BY <1>2, <1>3, <1>5

\* The plain steps, by shape.
LEMMA PlainShapes ==
  ASSUME LabelInv, todo # << >>, Plain(Top),
         label_counter' \in Nat, label_counter' >= label_counter,
         UNCHANGED <<placed, targets>>,
         \/ todo' = Below
         \/ \E e : Plain(e) /\ todo' = Replace(e)
         \/ \E e, f : Plain(e) /\ Plain(f) /\ todo' = ReplaceAndPush(e, f)
  PROVE  LabelInv'
<1>1. PICK S : todo \in Seq(S)
  BY DEF LabelInv
<1> DEFINE n == Len(todo)
<1>2. n \in Nat \ {0} /\ DOMAIN todo = 1 .. n /\ Top = todo[n]
  BY <1>1, BelowShape
<1> HIDE DEF n
<1>3. ASSUME \E T : todo' \in Seq(T),
             Len(todo') >= n - 1,
             \A k \in 1 .. n - 1 : todo'[k] = todo[k],
             \A k \in n .. Len(todo') : Plain(todo'[k])
      PROVE  LabelInv'
  <2>1. DOMAIN todo' = 1 .. Len(todo') /\ Len(todo') \in Nat
    BY <1>3
  <2>2. \A k \in DOMAIN todo : (k \in DOMAIN todo' /\ todo'[k] = todo[k]) \/ Plain(todo[k])
    BY <1>2, <1>3, <2>1
  <2>3. \A k \in DOMAIN todo' : (k \in DOMAIN todo /\ todo'[k] = todo[k]) \/ Plain(todo'[k])
    BY <1>2, <1>3, <2>1
  <2> QED BY <1>3, <2>2, <2>3, PlainStep
<1>4. CASE todo' = Below
  <2>1. todo' \in Seq(S) /\ Len(todo') = n - 1 /\ \A k \in 1 .. n - 1 : todo'[k] = todo[k]
    BY <1>1, <1>4, BelowShape DEF n
  <2> QED BY <1>2, <1>3, <2>1
<1>5. ASSUME NEW e, Plain(e), todo' = Replace(e)
      PROVE  LabelInv'
  <2>1. /\ todo' \in Seq(S \cup {e}) /\ Len(todo') = n /\ todo'[n] = e
        /\ \A k \in 1 .. n - 1 : todo'[k] = todo[k]
    BY <1>1, <1>5, ReplaceShape DEF n
  <2> QED BY <1>2, <1>3, <1>5, <2>1
<1>6. ASSUME NEW e, NEW f, Plain(e), Plain(f), todo' = ReplaceAndPush(e, f)
      PROVE  LabelInv'
  <2>1. /\ todo' \in Seq((S \cup {e}) \cup {f}) /\ Len(todo') = n + 1
        /\ todo'[n] = e /\ todo'[n + 1] = f
        /\ \A k \in 1 .. n - 1 : todo'[k] = todo[k]
    BY <1>1, <1>6, PushShape DEF n
  <2> QED BY <1>2, <1>3, <1>6, <2>1
<1> QED BY <1>4, <1>5, <1>6

\* A step that places x, one of the labels its statement waits to place or a new
\* one, and leaves the statement waiting for the labels W.
LEMMA PlaceStep ==
  ASSUME LabelInv, todo # << >>,
         label_counter' \in Nat, label_counter' >= label_counter,
         NEW x \in Nat, placed' = Append(placed, x), x < label_counter',
         x \in Waits(Top) \/ x >= label_counter,
         \E T : todo' \in Seq(T),
         Len(todo') >= Len(todo) - 1,
         \A k \in 1 .. Len(todo) - 1 : todo'[k] = todo[k],
         NEW W,
         \A k \in Len(todo) .. Len(todo') :
           /\ "do" \in DOMAIN todo'[k]
           /\ Waits(todo'[k]) = IF k = Len(todo) THEN W ELSE {}
           /\ todo'[k].do = "else" => todo'[k].label[1] # todo'[k].label[2]
           /\ \A l \in Returns(todo'[k]) : Placed(l) \/ l = x,
         W # {} => Len(todo') >= Len(todo),
         \A l \in W : /\ l # x /\ l \in Nat /\ l < label_counter'
                      /\ l \in Waits(Top) \/ l >= label_counter,
         \A l \in Waits(Top) : l = x \/ l \in W,
         \A l \in targets' : l \in targets \/ Placed(l) \/ l = x \/ l \in W
  PROVE  LabelInv'
<1> DEFINE n == Len(todo)
           m == Len(todo')
<1>1. /\ n \in Nat \ {0} /\ DOMAIN todo = 1 .. n /\ Top = todo[n]
      /\ m \in Nat /\ DOMAIN todo' = 1 .. m /\ m >= n - 1
  BY BelowShape DEF LabelInv
<1> HIDE DEF n, m
<1>2. /\ \A k \in 1 .. n - 1 : todo'[k] = todo[k]
      /\ \A k \in n .. m :
           /\ "do" \in DOMAIN todo'[k]
           /\ Waits(todo'[k]) = IF k = n THEN W ELSE {}
           /\ todo'[k].do = "else" => todo'[k].label[1] # todo'[k].label[2]
           /\ \A l \in Returns(todo'[k]) : Placed(l) \/ l = x
      /\ W # {} => m >= n
  BY DEF n, m
<1>3. /\ placed' \in Seq(Nat) /\ Len(placed') = Len(placed) + 1 /\ Len(placed) \in Nat
      /\ placed'[Len(placed) + 1] = x
      /\ \A i \in 1 .. Len(placed) : placed'[i] = placed[i]
      /\ DOMAIN placed = 1 .. Len(placed) /\ DOMAIN placed' = 1 .. Len(placed) + 1
  <2>1. placed \in Seq(Nat) /\ placed' = Append(placed, x)
    BY DEF LabelInv
  <2> QED BY ONLY <2>1, x \in Nat
<1>4. \A l : Placed(l)' <=> Placed(l) \/ l = x
  BY <1>3 DEF Placed
<1>5. \A l \in Nat : l >= label_counter => ~Placed(l)
  BY DEF LabelInv, Placed
<1>6. ~Placed(x) /\ \A l \in W : ~Placed(l)
  <2>1. n \in DOMAIN todo
    BY <1>1
  <2>2. \A l \in Waits(Top) : ~Placed(l)
    BY <1>1, <2>1 DEF LabelInv
  <2> QED BY <1>5, <2>2
<1>7. \A i \in DOMAIN placed' : placed'[i] < label_counter'
  BY <1>3 DEF LabelInv
<1>8. LabelsPlacedOnce'
  BY <1>3, <1>6 DEF LabelInv, LabelsPlacedOnce, Placed
<1>9. \A k \in 1 .. n - 1 : \A l \in Waits(todo[k]) :
        l \in Nat /\ l < label_counter /\ ~Placed(l) /\ l # x /\ l \notin W
  <2> SUFFICES ASSUME NEW k \in 1 .. n - 1, NEW l \in Waits(todo[k])
               PROVE  l \in Nat /\ l < label_counter /\ ~Placed(l) /\ l # x /\ l \notin W
    OBVIOUS
  <2>1. k \in DOMAIN todo /\ n \in DOMAIN todo /\ k # n
    BY <1>1
  <2>2. l \in Nat /\ l < label_counter /\ ~Placed(l)
    BY <2>1 DEF LabelInv
  <2>4. Waits(todo[k]) \cap Waits(todo[n]) = {}
    BY <2>1 DEF LabelInv
  <2>5. l \notin Waits(Top)
    BY <1>1, <2>4
  <2>3. label_counter \in Nat
    BY DEF LabelInv
  <2> QED BY <2>2, <2>3, <2>5
<1>10. \A k \in DOMAIN todo' : k \in 1 .. n - 1 \/ k \in n .. m
  BY <1>1
<1>11. \A k \in DOMAIN todo' : "do" \in DOMAIN todo'[k]
  <2>1. \A k \in DOMAIN todo : "do" \in DOMAIN todo[k]
    BY DEF LabelInv
  <2>2. \A k \in 1 .. n - 1 : k \in DOMAIN todo /\ todo'[k] = todo[k]
    BY <1>1, <1>2
  <2>3. \A k \in 1 .. n - 1 : "do" \in DOMAIN todo'[k]
    BY <2>1, <2>2
  <2> QED BY <1>2, <1>10, <2>3
<1>12. ASSUME NEW k \in DOMAIN todo', NEW l \in Waits(todo'[k])
       PROVE  l \in Nat /\ l < label_counter' /\ ~Placed(l)'
  <2>1. CASE k \in 1 .. n - 1
    <3>1. l \in Waits(todo[k])
      BY <1>2, <1>12, <2>1
    <3>3. l \in Nat /\ l < label_counter /\ ~Placed(l) /\ l # x
      BY <1>9, <2>1, <3>1
    <3>2. label_counter \in Nat
      BY DEF LabelInv
    <3> QED BY <1>4, <3>2, <3>3
  <2>2. CASE k \in n .. m
    <3>1. l \in W
      BY <1>2, <1>12, <2>2
    <3> QED BY <1>4, <1>6, <3>1
  <2> QED BY <1>10, <2>1, <2>2
<1>13. ASSUME NEW k \in DOMAIN todo', NEW j \in DOMAIN todo', k # j
       PROVE  Waits(todo'[k]) \cap Waits(todo'[j]) = {}
  <2>1. CASE k \in 1 .. n - 1 /\ j \in 1 .. n - 1
    <3>1. k \in DOMAIN todo /\ j \in DOMAIN todo
      BY <1>1, <2>1
    <3>2. Waits(todo[k]) \cap Waits(todo[j]) = {}
      BY <1>13, <3>1 DEF LabelInv
    <3> QED BY <1>2, <2>1, <3>2
  <2>2. CASE k \in 1 .. n - 1 /\ j \in n .. m
    BY <1>2, <1>9, <2>2
  <2>3. CASE k \in n .. m /\ j \in 1 .. n - 1
    BY <1>2, <1>9, <2>3
  <2>4. CASE k \in n .. m /\ j \in n .. m
    BY <1>2, <1>13, <2>4
  <2> QED BY <1>10, <2>1, <2>2, <2>3, <2>4
<1>14. \A k \in DOMAIN todo' : todo'[k].do = "else" => todo'[k].label[1] # todo'[k].label[2]
  <2>1. \A k \in DOMAIN todo : todo[k].do = "else" => todo[k].label[1] # todo[k].label[2]
    BY DEF LabelInv
  <2>2. \A k \in 1 .. n - 1 : k \in DOMAIN todo /\ todo'[k] = todo[k]
    BY <1>1, <1>2
  <2>3. \A k \in 1 .. n - 1 : todo'[k].do = "else" => todo'[k].label[1] # todo'[k].label[2]
    BY <2>1, <2>2
  <2> QED BY <1>2, <1>10, <2>3
<1>15. \A k \in DOMAIN todo' : \A l \in Returns(todo'[k]) : Placed(l)'
  <2>1. \A k \in DOMAIN todo : \A l \in Returns(todo[k]) : Placed(l)
    BY DEF LabelInv
  <2>2. \A k \in 1 .. n - 1 : k \in DOMAIN todo /\ todo'[k] = todo[k]
    BY <1>1, <1>2
  <2>3. \A k \in 1 .. n - 1 : \A l \in Returns(todo'[k]) : Placed(l)
    BY <2>1, <2>2
  <2> QED BY <1>2, <1>4, <1>10, <2>3
<1>16. ASSUME NEW l \in targets'
       PROVE  Placed(l)' \/ \E k \in DOMAIN todo' : l \in Waits(todo'[k])
  <2>1. CASE l \in W
    <3>1. n \in n .. m /\ n \in DOMAIN todo'
      BY <1>1, <1>2, <2>1
    <3> QED BY <1>2, <2>1, <3>1
  <2>2. CASE Placed(l) \/ l = x
    BY <1>4, <2>2
  <2>3. CASE l \in targets /\ ~Placed(l) /\ l \notin W /\ l # x
    <3>1. PICK k \in DOMAIN todo : l \in Waits(todo[k])
      BY <2>3 DEF LabelInv
    <3>2. k \in 1 .. n - 1
      BY <1>1, <2>3, <3>1
    <3>3. k \in DOMAIN todo' /\ todo'[k] = todo[k]
      BY <1>1, <1>2, <3>2
    <3> QED BY <3>1, <3>3
  <2> QED BY <1>16, <2>1, <2>2, <2>3
<1>17. (\E T : todo' \in Seq(T)) /\ label_counter' \in Nat
  OBVIOUS
<1> QED
  BY <1>3, <1>7, <1>8, <1>11, <1>12, <1>13, <1>14, <1>15, <1>16, <1>17
  DEF LabelInv, Waits, Returns

\* Entries of codegen_expr have no labels.
LEMMA PlainEntries ==
  /\ \A k : Plain(Entry("expr", k)) /\ Plain(Entry("store", k))
  /\ \A k : Plain(Entry("sequence", k)) /\ Plain(Entry("stmt", k))
  /\ \A k : Plain(Entry("if", k)) /\ Plain(Entry("if else", k))
  /\ \A k : Plain(Entry("for", k)) /\ Plain(Entry("end for", k))
  /\ \A k : Plain(Entry("crashed", k))
  /\ \A op, l, r : Plain(Binary(op, l, r))
  /\ \A args : Plain(FirstLoop(args))
BY DEF Plain, Entry, Binary, FirstLoop

LEMMA PlainTop ==
  ASSUME LabelInv, NEW what, At(what),
         what \notin {"else", "end if", "while", "end while"}
  PROVE  todo # << >> /\ Plain(Top) /\ "do" \in DOMAIN Top /\ Top.do = what
<1>1. todo # << >> /\ Top.do = what
  BY DEF At
<1>2. Top = todo[Len(todo)] /\ Len(todo) \in DOMAIN todo
  <2>1. PICK S : todo \in Seq(S)
    BY DEF LabelInv
  <2> QED BY <1>1, <2>1, BelowShape
<1>3. "do" \in DOMAIN Top
  BY <1>2 DEF LabelInv
<1> QED BY <1>1, <1>3 DEF Plain

LEMMA PlainUpdates ==
  ASSUME "do" \in DOMAIN Top
  PROVE  /\ \A reg, holds : Plain(Recorded(reg, holds))
         /\ Plain([Top EXCEPT !.do = "loaded"])
         /\ Plain([Top EXCEPT !.do = "passed"])
         /\ Plain([Top EXCEPT !.do = "pass", !.next = @ + 1])
         /\ Plain(Top) => \A h : Plain([Top EXCEPT !.holds = Append(@, h)])
         /\ Plain(Top) => \A c : Plain([Top EXCEPT !.next = @ + 1, !.loopc = c])
<1>1. ASSUME NEW reg, NEW holds
      PROVE  Plain(Recorded(reg, holds))
  <2> DEFINE e == Recorded(reg, holds)
  <2>1. DOMAIN e = DOMAIN Top
    BY DEF Recorded
  <2>2. e.do = "load"
    BY DEF Recorded
  <2> QED BY <2>1, <2>2 DEF Plain
<1>2. Plain([Top EXCEPT !.do = "loaded"])
  BY DEF Plain
<1>3. Plain([Top EXCEPT !.do = "passed"])
  BY DEF Plain
<1>4. Plain([Top EXCEPT !.do = "pass", !.next = @ + 1])
  <2> DEFINE e == [Top EXCEPT !.do = "pass", !.next = @ + 1]
  <2>1. DOMAIN e = DOMAIN Top
    OBVIOUS
  <2>2. e.do = "pass"
    OBVIOUS
  <2> QED BY <2>1, <2>2 DEF Plain
<1>5. Plain(Top) => \A h : Plain([Top EXCEPT !.holds = Append(@, h)])
  BY DEF Plain
<1>6. ASSUME Plain(Top), NEW c
      PROVE  Plain([Top EXCEPT !.next = @ + 1, !.loopc = c])
  <2> DEFINE e == [Top EXCEPT !.next = @ + 1, !.loopc = c]
  <2>1. DOMAIN e = DOMAIN Top
    OBVIOUS
  <2>2. e.do = Top.do
    OBVIOUS
  <2> QED BY <1>6, <2>1, <2>2 DEF Plain
<1> QED BY <1>1, <1>2, <1>3, <1>4, <1>5, <1>6

\* The steps of codegen_expr.
LEMMA ExprLabels ==
  ASSUME LabelInv, ExprStep, NoLabels
  PROVE  LabelInv'
<1>1. /\ UNCHANGED <<placed, targets>>
      /\ label_counter' \in Nat /\ label_counter' >= label_counter
  BY DEF NoLabels, LabelInv
<1>2. ASSUME todo # << >>, Plain(Top),
             \/ todo' = Below
             \/ \E e : Plain(e) /\ todo' = Replace(e)
             \/ \E e, f : Plain(e) /\ Plain(f) /\ todo' = ReplaceAndPush(e, f)
      PROVE  LabelInv'
  BY <1>1, <1>2, PlainShapes
<1>3. CASE Leaf
  <2>1. At("expr") /\ todo' = Below
    BY <1>3 DEF Leaf
  <2> QED BY <1>2, <2>1, PlainTop
<1>4. ASSUME NEW l, NEW r, FirstOperand(l, r)
      PROVE  LabelInv'
  <2>1. /\ At("expr")
        /\ \/ todo' = ReplaceAndPush(Binary(Top.kind, l, r), Entry("expr", l))
           \/ todo' = Replace(Binary(Top.kind, l, r))
    BY <1>4 DEF FirstOperand, ReplaceAndCall
  <2> QED BY <1>2, <2>1, PlainTop, PlainEntries
<1>5. CASE SecondOperand
  <2> DEFINE e == [do |-> "emit", kind |-> Top.kind, left |-> Top.left, right |-> Top.right,
                   lctr |-> IF Top.left \in Generated(Top.kind) THEN stack_counter ELSE None,
                   lholds |-> result]
  <2>1. At("second")
    BY <1>5 DEF SecondOperand
  <2>2. todo' = ReplaceAndPush(e, Entry("expr", Top.right)) \/ todo' = Replace(e)
    BY <1>5 DEF SecondOperand, ReplaceAndCall
  <2>3. Plain(e)
    BY DEF Plain
  <2> HIDE DEF e
  <2> QED BY <1>2, <2>1, <2>2, <2>3, PlainTop, PlainEntries
<1>6. CASE EmitBinary
  <2>1. At("emit") /\ todo' = Below
    BY <1>6 DEF EmitBinary, Typed
  <2> QED BY <1>2, <2>1, PlainTop
<1>7. ASSUME NEW args, BeginCall(args)
      PROVE  LabelInv'
  <2>1. At("expr") /\ todo' = Replace(FirstLoop(args))
    BY <1>7 DEF BeginCall
  <2> QED BY <1>2, <2>1, PlainTop, PlainEntries
<1>8. CASE LoadVariable
  <2>1. At("load") /\ \E reg, holds : todo' = Replace(Recorded(reg, holds))
    BY <1>8 DEF LoadVariable, MoreToLoad
  <2> QED BY <1>2, <2>1, PlainTop, PlainUpdates
<1>9. CASE LoadCall
  <2>1. /\ At("load")
        /\ todo' = ReplaceAndPush([Top EXCEPT !.do = "loaded"], Entry("expr", Argument))
    BY <1>9 DEF LoadCall, MoreToLoad, ReplaceAndCall
  <2> QED BY <1>2, <2>1, PlainTop, PlainUpdates, PlainEntries
<1>10. CASE LoadedCall
  <2>1. At("loaded") /\ todo' = Replace(Recorded(stack_counter, result))
    BY <1>10 DEF LoadedCall
  <2> QED BY <1>2, <2>1, PlainTop, PlainUpdates
<1>11. CASE LoadNothing
  <2>1. At("load") /\ todo' = Replace([Top EXCEPT !.holds = Append(@, None)])
    BY <1>11 DEF LoadNothing, MoreToLoad
  <2> QED BY <1>2, <2>1, PlainTop, PlainUpdates
<1>12. CASE EmitCall
  <2> DEFINE e == [do |-> "pass", kind |-> Top.kind, args |-> Top.args, findex |-> Top.findex,
                   holds |-> Top.holds, next |-> 1, loopc |-> 1, reg |-> stack_counter']
  <2>1. At("load") /\ todo' = Replace(e)
    BY <1>12 DEF EmitCall
  <2>2. Plain(e)
    BY DEF Plain
  <2> HIDE DEF e
  <2> QED BY <1>2, <2>1, <2>2, PlainTop
<1>13. CASE PassPlain
  <2>1. At("pass") /\ \E c : todo' = Replace([Top EXCEPT !.next = @ + 1, !.loopc = c])
    BY <1>13 DEF PassPlain, MoreToPass
  <2> QED BY <1>2, <2>1, PlainTop, PlainUpdates
<1>14. CASE PassOperator
  <2>1. /\ At("pass")
        /\ todo' = ReplaceAndPush([Top EXCEPT !.do = "passed"], Entry("expr", Passed))
    BY <1>14 DEF PassOperator, MoreToPass, ReplaceAndCall
  <2> QED BY <1>2, <2>1, PlainTop, PlainUpdates, PlainEntries
<1>15. CASE PassedOperator
  <2>1. At("passed") /\ todo' = Replace([Top EXCEPT !.do = "pass", !.next = @ + 1])
    BY <1>15 DEF PassedOperator
  <2> QED BY <1>2, <2>1, PlainTop, PlainUpdates
<1>16. CASE EndCall
  <2>1. At("pass") /\ todo' = Below
    BY <1>16 DEF EndCall
  <2> QED BY <1>2, <2>1, PlainTop
<1>17. CASE CrashAtType \/ CrashAtElement
  <2>1. /\ At("emit") \/ At("load") \/ At("pass")
        /\ todo' = Replace(Entry("crashed", Top.kind))
    BY <1>17 DEF CrashAtType, CrashAtElement, MoreToLoad, MoreToPass, Crash
  <2> QED BY <1>2, <2>1, PlainTop, PlainEntries
<1> QED
  BY <1>3, <1>4, <1>5, <1>6, <1>7, <1>8, <1>9, <1>10, <1>11, <1>12, <1>13, <1>14, <1>15, <1>16,
     <1>17
  DEF ExprStep

\* The steps of codegen_stmt that neither place a label nor branch.
LEMMA PlainStatements ==
  ASSUME LabelInv,
         \/ Unsupported \/ Compound \/ NextOfCompound \/ EndCompound \/ Store \/ AssignElement
         \/ \E e : AssignPlain(e) \/ Assign(e) \/ IfThen(e, TRUE) \/ IfThen(e, FALSE)
         \/ For \/ ForAssigned \/ EndFor
  PROVE  LabelInv'
<1>1. /\ UNCHANGED <<placed, targets>>
      /\ label_counter' \in {label_counter, label_counter + 3}
  BY DEF Unsupported, Compound, NextOfCompound, EndCompound, Store, AssignPlain, Assign,
         AssignElement, IfThen, For, ForAssigned, EndFor, NoLabels, NewLabels
<1>2. label_counter' \in Nat /\ label_counter' >= label_counter
  BY <1>1 DEF LabelInv
<1>3. ASSUME todo # << >>, Plain(Top),
             \/ todo' = Below
             \/ \E e : Plain(e) /\ todo' = Replace(e)
             \/ \E e, f : Plain(e) /\ Plain(f) /\ todo' = ReplaceAndPush(e, f)
      PROVE  LabelInv'
  BY <1>1, <1>2, <1>3, PlainShapes
<1>4. CASE Unsupported
  <2>1. At("stmt") /\ todo' = Below
    BY <1>4 DEF Unsupported, AtStatement
  <2> QED BY <1>3, <2>1, PlainTop
<1>5. CASE Compound
  <2>1. At("stmt") /\ todo' = Replace(Entry("sequence", "stmt"))
    BY <1>5 DEF Compound, AtStatement
  <2> QED BY <1>3, <2>1, PlainTop, PlainEntries
<1>6. CASE NextOfCompound
  <2>1. At("sequence") /\ todo' = Append(todo, Entry("stmt", "body"))
    BY <1>6 DEF NextOfCompound
  <2>2. PICK S : todo \in Seq(S)
    BY DEF LabelInv
  <2> DEFINE f == Entry("stmt", "body")
  <2>3. Plain(f) /\ todo' = Append(todo, f)
    BY <2>1, PlainEntries
  <2> HIDE DEF f
  <2>4. /\ todo' \in Seq(S \cup {f}) /\ Len(todo') = Len(todo) + 1 /\ todo'[Len(todo) + 1] = f
        /\ \A k \in 1 .. Len(todo) : todo'[k] = todo[k]
    BY <2>2, <2>3, AppendShape
  <2>5. /\ Len(todo) \in Nat /\ DOMAIN todo = 1 .. Len(todo)
        /\ DOMAIN todo' = 1 .. Len(todo) + 1
    BY <2>2, <2>4
  <2>6. \A k \in DOMAIN todo' : (k \in DOMAIN todo /\ todo'[k] = todo[k]) \/ Plain(todo'[k])
    BY <2>3, <2>4, <2>5
  <2>7. \A k \in DOMAIN todo : k \in DOMAIN todo' /\ todo'[k] = todo[k]
    BY <2>4, <2>5
  <2> QED BY <1>1, <1>2, <2>4, <2>6, <2>7, PlainStep
<1>7. CASE EndCompound
  <2>1. At("sequence") /\ todo' = Below
    BY <1>7 DEF EndCompound
  <2> QED BY <1>3, <2>1, PlainTop
<1>8. CASE Store
  <2>1. At("store") /\ todo' = Below
    BY <1>8 DEF Store
  <2> QED BY <1>3, <2>1, PlainTop
<1>9. ASSUME NEW e, AssignPlain(e)
      PROVE  LabelInv'
  <2>1. At("stmt") /\ todo' = Below
    BY <1>9 DEF AssignPlain
  <2> QED BY <1>3, <2>1, PlainTop
<1>10. ASSUME NEW e, Assign(e)
       PROVE  LabelInv'
  <2>1. At("stmt") /\ todo' = ReplaceAndPush(Entry("store", e), Entry("expr", e))
    BY <1>10 DEF Assign, ReplaceAndCall
  <2> QED BY <1>3, <2>1, PlainTop, PlainEntries
<1>11. ASSUME NEW e, IfThen(e, TRUE) \/ IfThen(e, FALSE)
       PROVE  LabelInv'
  <2>1. /\ At("stmt")
        /\ \/ todo' = ReplaceAndPush(Entry("if else", e), Entry("expr", e))
           \/ todo' = ReplaceAndPush(Entry("if", e), Entry("expr", e))
    BY <1>11 DEF IfThen, AtStatement, ReplaceAndCall
  <2> QED BY <1>3, <2>1, PlainTop, PlainEntries
<1>12. CASE For
  <2>1. At("stmt") /\ todo' = ReplaceAndPush(Entry("for", "stmt"), Entry("stmt", "assign"))
    BY <1>12 DEF For, AtStatement
  <2> QED BY <1>3, <2>1, PlainTop, PlainEntries
<1>13. CASE ForAssigned
  <2>1. At("for") /\ todo' = ReplaceAndPush(Entry("end for", "stmt"), Entry("stmt", "body"))
    BY <1>13 DEF ForAssigned, ReplaceAndNest
  <2> QED BY <1>3, <2>1, PlainTop, PlainEntries
<1>14. CASE EndFor
  <2>1. At("end for") /\ todo' = Below
    BY <1>14 DEF EndFor
  <2> QED BY <1>3, <2>1, PlainTop
<1>15. CASE AssignElement
  <2>1. At("stmt") /\ todo' = Replace(Entry("crashed", Top.kind))
    BY <1>15 DEF AssignElement, Crash
  <2> QED BY <1>3, <2>1, PlainTop, PlainEntries
<1> QED
  BY <1>4, <1>5, <1>6, <1>7, <1>8, <1>9, <1>10, <1>11, <1>12, <1>13, <1>14, <1>15

\* The shapes of the steps that place a label, as PlaceStep wants them.
LEMMA PlaceShapes ==
  ASSUME LabelInv, todo # << >>
  PROVE  /\ todo' = Below =>
              /\ (\E T : todo' \in Seq(T)) /\ Len(todo') = Len(todo) - 1
              /\ \A k \in 1 .. Len(todo) - 1 : todo'[k] = todo[k]
         /\ \A e, f : todo' = ReplaceAndPush(e, f) =>
              /\ (\E T : todo' \in Seq(T)) /\ Len(todo') = Len(todo) + 1
              /\ \A k \in 1 .. Len(todo) - 1 : todo'[k] = todo[k]
              /\ \A k \in Len(todo) .. Len(todo') : todo'[k] = IF k = Len(todo) THEN e ELSE f
         /\ Len(todo) \in Nat \ {0}
<1>1. PICK S : todo \in Seq(S)
  BY DEF LabelInv
<1>2. /\ Len(todo) \in Nat \ {0} /\ Below \in Seq(S) /\ Len(Below) = Len(todo) - 1
      /\ \A k \in 1 .. Len(todo) - 1 : Below[k] = todo[k]
  BY <1>1, BelowShape
<1>3. ASSUME NEW e, NEW f, todo' = ReplaceAndPush(e, f)
      PROVE  /\ (\E T : todo' \in Seq(T)) /\ Len(todo') = Len(todo) + 1
             /\ \A k \in 1 .. Len(todo) - 1 : todo'[k] = todo[k]
             /\ \A k \in Len(todo) .. Len(todo') : todo'[k] = IF k = Len(todo) THEN e ELSE f
  <2> DEFINE n == Len(todo)
  <2>1. /\ todo' \in Seq((S \cup {e}) \cup {f}) /\ Len(todo') = n + 1
        /\ todo'[n] = e /\ todo'[n + 1] = f
        /\ \A k \in 1 .. n - 1 : todo'[k] = todo[k]
    BY <1>1, <1>3, PushShape
  <2>2. n \in Nat \ {0}
    BY <1>2
  <2> HIDE DEF n
  <2>3. \A k \in n .. n + 1 : todo'[k] = IF k = n THEN e ELSE f
    BY <2>1, <2>2
  <2> QED BY <2>1, <2>3 DEF n
<1> QED BY <1>2, <1>3

\* What a statement's entries wait for, and return to.
LEMMA LabelEntries ==
  /\ \A a, b : /\ Waits(Labels("else", <<a, b>>)) = {a, b}
               /\ Waits(Labels("end while", <<a, b>>)) = {b}
               /\ Returns(Labels("else", <<a, b>>)) = {}
               /\ Returns(Labels("end while", <<a, b>>)) = {a}
               /\ Labels("else", <<a, b>>).label = <<a, b>>
               /\ Labels("end while", <<a, b>>).do # "else"
               /\ "do" \in DOMAIN Labels("else", <<a, b>>)
               /\ "do" \in DOMAIN Labels("end while", <<a, b>>)
  /\ \A a : /\ Waits(Labels("end if", <<a>>)) = {a}
            /\ Returns(Labels("end if", <<a>>)) = {}
            /\ Labels("end if", <<a>>).do # "else"
            /\ "do" \in DOMAIN Labels("end if", <<a>>)
  /\ \A a, e : /\ Waits([do |-> "while", kind |-> e, label |-> <<a>>]) = {}
               /\ Returns([do |-> "while", kind |-> e, label |-> <<a>>]) = {a}
               /\ [do |-> "while", kind |-> e, label |-> <<a>>].do # "else"
               /\ "do" \in DOMAIN [do |-> "while", kind |-> e, label |-> <<a>>]
BY DEF Labels, Waits, Returns

LEMMA TopLabels ==
  ASSUME LabelInv, todo # << >>
  PROVE  /\ "do" \in DOMAIN Top
         /\ \A l \in Waits(Top) : l \in Nat /\ l < label_counter /\ ~Placed(l)
         /\ Top.do = "else" => Top.label[1] # Top.label[2]
         /\ \A l \in Returns(Top) : Placed(l)
<1>1. PICK S : todo \in Seq(S)
  BY DEF LabelInv
<1>2. Len(todo) \in DOMAIN todo /\ Top = todo[Len(todo)]
  BY <1>1, BelowShape
<1> DEFINE n == Len(todo)
<1> HIDE DEF n
<1>3. n \in DOMAIN todo /\ Top = todo[n]
  BY <1>2 DEF n
<1> QED BY <1>3 DEF LabelInv

\* A step that places x and goes on inside the statement, which is now at e.
LEMMA PlaceAndPush ==
  ASSUME LabelInv, todo # << >>,
         label_counter' \in Nat, label_counter' >= label_counter,
         NEW x \in Nat, placed' = Append(placed, x), x < label_counter',
         x \in Waits(Top) \/ x >= label_counter,
         NEW e, NEW f, todo' = ReplaceAndPush(e, f), Plain(f), "do" \in DOMAIN e,
         e.do = "else" => e.label[1] # e.label[2],
         \A l \in Returns(e) : Placed(l) \/ l = x,
         \A l \in Waits(e) : /\ l # x /\ l \in Nat /\ l < label_counter'
                             /\ l \in Waits(Top) \/ l >= label_counter,
         \A l \in Waits(Top) : l = x \/ l \in Waits(e),
         \A l \in targets' : l \in targets \/ Placed(l) \/ l = x \/ l \in Waits(e)
  PROVE  LabelInv'
<1> DEFINE n == Len(todo)
           m == Len(todo')
           W == Waits(e)
<1>1. /\ \E T : todo' \in Seq(T)
      /\ n \in Nat \ {0} /\ m = n + 1
      /\ \A k \in 1 .. n - 1 : todo'[k] = todo[k]
      /\ \A k \in n .. m : todo'[k] = IF k = n THEN e ELSE f
  BY PlaceShapes
<1> HIDE DEF n, m
<1>2. Waits(f) = {} /\ Returns(f) = {} /\ f.do # "else" /\ "do" \in DOMAIN f
  BY PlainWaits
<1>3. \A k \in n .. m :
        /\ "do" \in DOMAIN todo'[k]
        /\ Waits(todo'[k]) = IF k = n THEN W ELSE {}
        /\ todo'[k].do = "else" => todo'[k].label[1] # todo'[k].label[2]
        /\ \A l \in Returns(todo'[k]) : Placed(l) \/ l = x
  <2> SUFFICES ASSUME NEW k \in n .. m
               PROVE  /\ "do" \in DOMAIN todo'[k]
                      /\ Waits(todo'[k]) = IF k = n THEN W ELSE {}
                      /\ todo'[k].do = "else" => todo'[k].label[1] # todo'[k].label[2]
                      /\ \A l \in Returns(todo'[k]) : Placed(l) \/ l = x
    OBVIOUS
  <2>1. CASE k = n
    <3>1. todo'[k] = e
      BY <1>1, <2>1
    <3> QED BY <2>1, <3>1
  <2>2. CASE k # n
    <3>1. todo'[k] = f
      BY <1>1, <2>2
    <3> QED BY <1>2, <2>2, <3>1
  <2> QED BY <2>1, <2>2
<1>4. m >= n /\ m >= n - 1
  BY <1>1
<1> HIDE DEF W
<1>5. \A l \in W : /\ l # x /\ l \in Nat /\ l < label_counter'
                   /\ l \in Waits(Top) \/ l >= label_counter
  BY DEF W
<1>6. \A l \in Waits(Top) : l = x \/ l \in W
  BY DEF W
<1>7. \A l \in targets' : l \in targets \/ Placed(l) \/ l = x \/ l \in W
  BY DEF W
<1> QED
  BY <1>1, <1>3, <1>4, <1>5, <1>6, <1>7, PlaceStep DEF n, m

\* A step that places the one label its statement waits for, and ends it.
LEMMA PlaceAndEnd ==
  ASSUME LabelInv, todo # << >>, UNCHANGED label_counter,
         NEW x \in Nat, placed' = Append(placed, x), Waits(Top) = {x},
         todo' = Below,
         \A l \in targets' : l \in targets \/ Placed(l) \/ l = x
  PROVE  LabelInv'
<1> DEFINE n == Len(todo)
           m == Len(todo')
<1>1. /\ \E T : todo' \in Seq(T)
      /\ n \in Nat \ {0} /\ m = n - 1
      /\ \A k \in 1 .. n - 1 : todo'[k] = todo[k]
  BY PlaceShapes
<1>2. label_counter \in Nat /\ x < label_counter
  BY TopLabels DEF LabelInv
<1> HIDE DEF n, m
<1> DEFINE W == {}
<1>3. \A k \in n .. m :
        /\ "do" \in DOMAIN todo'[k]
        /\ Waits(todo'[k]) = IF k = n THEN W ELSE {}
        /\ todo'[k].do = "else" => todo'[k].label[1] # todo'[k].label[2]
        /\ \A l \in Returns(todo'[k]) : Placed(l) \/ l = x
  <2>1. n .. m = {}
    BY <1>1
  <2> QED BY <2>1
<1>4. /\ m >= n - 1
      /\ label_counter' \in Nat /\ label_counter' >= label_counter
      /\ x < label_counter' /\ x \in Waits(Top)
  BY <1>1, <1>2
<1>5. /\ W # {} => m >= n
      /\ \A l \in W : /\ l # x /\ l \in Nat /\ l < label_counter'
                      /\ l \in Waits(Top) \/ l >= label_counter
      /\ \A l \in Waits(Top) : l = x \/ l \in W
      /\ \A l \in targets' : l \in targets \/ Placed(l) \/ l = x \/ l \in W
  OBVIOUS
<1> HIDE DEF W
<1> QED
  BY <1>1, <1>3, <1>4, <1>5, PlaceStep DEF n, m

\* The steps of if and while statements.
LEMMA LabelStatements ==
  ASSUME LabelInv,
         \/ IfTested \/ IfElseTested \/ Else \/ EndIf
         \/ (\E e : While(e)) \/ WhileTested \/ EndWhile
  PROVE  LabelInv'
<1> DEFINE c == label_counter
           body == Entry("stmt", "body")
<1>1. c \in Nat /\ c + 1 \in Nat /\ c + 2 \in Nat /\ c + 3 \in Nat /\ Plain(body)
  <2>1. c \in Nat
    BY DEF LabelInv
  <2>2. Plain(body)
    BY PlainEntries
  <2> HIDE DEF c, body
  <2> QED BY <2>1, <2>2
<1>2. CASE IfTested
  <2> DEFINE e == Labels("end if", <<c + 1>>)
  <2>1. /\ At("if") /\ c' = c + 2 /\ targets' = targets \cup {c, c + 1}
        /\ placed' = Append(placed, c) /\ todo' = ReplaceAndPush(e, body)
    BY <1>2 DEF IfTested, NewLabels, Branch, Place, ReplaceAndNest
  <2>2. todo # << >> /\ Waits(Top) = {}
    BY <2>1, PlainTop, PlainWaits
  <2>3. Waits(e) = {c + 1} /\ Returns(e) = {} /\ e.do # "else" /\ "do" \in DOMAIN e
    BY LabelEntries
  <2> HIDE DEF e, body
  <2> QED BY <1>1, <2>1, <2>2, <2>3, PlaceAndPush
<1>3. CASE IfElseTested
  <2> DEFINE e == Labels("else", <<c + 1, c + 2>>)
  <2>1. /\ At("if else") /\ c' = c + 3 /\ targets' = targets \cup {c, c + 1}
        /\ placed' = Append(placed, c) /\ todo' = ReplaceAndPush(e, body)
    BY <1>3 DEF IfElseTested, NewLabels, Branch, Place, ReplaceAndNest
  <2>2. todo # << >> /\ Waits(Top) = {}
    BY <2>1, PlainTop, PlainWaits
  <2>3. /\ Waits(e) = {c + 1, c + 2} /\ Returns(e) = {} /\ "do" \in DOMAIN e
        /\ e.label = <<c + 1, c + 2>>
    BY LabelEntries
  <2>4. e.label[1] # e.label[2]
    BY <1>1, <2>3
  <2> HIDE DEF e
  <2>5. c \in Nat /\ c' = c + 3 /\ targets' = targets \cup {c, c + 1}
    BY <1>1, <2>1
  <2>6. /\ \A l \in Returns(e) : Placed(l) \/ l = c
        /\ \A l \in Waits(e) : /\ l # c /\ l \in Nat /\ l < c'
                               /\ l \in Waits(Top) \/ l >= c
        /\ \A l \in Waits(Top) : l = c \/ l \in Waits(e)
        /\ \A l \in targets' : l \in targets \/ Placed(l) \/ l = c \/ l \in Waits(e)
    BY <2>2, <2>3, <2>5
  <2>7. c' \in Nat /\ c' >= c /\ c < c' /\ c >= c
    BY <2>5
  <2> HIDE DEF body
  <2> QED BY <1>1, <2>1, <2>2, <2>3, <2>4, <2>6, <2>7, PlaceAndPush
<1>4. CASE Else
  <2> DEFINE x == Top.label[1]
             y == Top.label[2]
             e == Labels("end if", <<y>>)
  <2>1. /\ todo # << >> /\ Top.do = "else" /\ UNCHANGED c /\ targets' = targets \cup {y}
        /\ placed' = Append(placed, x) /\ todo' = ReplaceAndPush(e, body)
    BY <1>4 DEF Else, At, Branch, Place, ReplaceAndNest
  <2>2. Waits(Top) = {x, y} /\ x # y
    BY <2>1, TopLabels DEF Waits
  <2>3. x \in Nat /\ y \in Nat /\ x < c /\ y < c
    BY <2>1, <2>2, TopLabels
  <2>4. Waits(e) = {y} /\ Returns(e) = {} /\ e.do # "else" /\ "do" \in DOMAIN e
    BY LabelEntries
  <2> HIDE DEF e, body, x, y
  <2> QED BY <1>1, <2>1, <2>2, <2>3, <2>4, PlaceAndPush
<1>5. CASE EndIf
  <2> DEFINE x == Top.label[1]
  <2>1. /\ todo # << >> /\ Top.do = "end if" /\ UNCHANGED c /\ targets' = targets \cup {x}
        /\ placed' = Append(placed, x) /\ todo' = Below
    BY <1>5 DEF EndIf, At, Branch, Place
  <2>2. Waits(Top) = {x}
    BY <2>1 DEF Waits
  <2>3. x \in Nat
    BY <2>1, <2>2, TopLabels
  <2> HIDE DEF x
  <2> QED BY <2>1, <2>2, <2>3, PlaceAndEnd
<1>6. ASSUME NEW k, While(k)
      PROVE  LabelInv'
  <2> DEFINE e == [do |-> "while", kind |-> k, label |-> <<c>>]
             f == Entry("expr", k)
  <2>1. /\ At("stmt") /\ c' = c + 1 /\ targets' = targets \cup {c}
        /\ placed' = Append(placed, c) /\ todo' = ReplaceAndPush(e, f)
    BY <1>6 DEF While, AtStatement, NewLabels, Branch, Place, ReplaceAndCall
  <2>2. todo # << >> /\ Waits(Top) = {}
    BY <2>1, PlainTop, PlainWaits
  <2>3. Waits(e) = {} /\ Returns(e) = {c} /\ e.do # "else" /\ "do" \in DOMAIN e
    BY LabelEntries
  <2>4. Plain(f)
    BY PlainEntries
  <2> HIDE DEF e, f
  <2> QED BY <1>1, <2>1, <2>2, <2>3, <2>4, PlaceAndPush
<1>7. CASE WhileTested
  <2> DEFINE t == Top.label[1]
             e == Labels("end while", <<t, c + 1>>)
  <2>1. /\ todo # << >> /\ Top.do = "while" /\ c' = c + 2 /\ targets' = targets \cup {c, c + 1}
        /\ placed' = Append(placed, c) /\ todo' = ReplaceAndPush(e, body)
    BY <1>7 DEF WhileTested, At, NewLabels, Branch, Place, ReplaceAndNest
  <2>2. Waits(Top) = {} /\ Returns(Top) = {t}
    BY <2>1 DEF Waits, Returns
  <2>3. Placed(t)
    BY <2>1, <2>2, TopLabels
  <2>4. Waits(e) = {c + 1} /\ Returns(e) = {t} /\ e.do # "else" /\ "do" \in DOMAIN e
    BY LabelEntries
  <2> HIDE DEF e, body, t
  <2> QED BY <1>1, <2>1, <2>2, <2>3, <2>4, PlaceAndPush
<1>8. CASE EndWhile
  <2> DEFINE t == Top.label[1]
             x == Top.label[2]
  <2>1. /\ todo # << >> /\ Top.do = "end while" /\ UNCHANGED c /\ targets' = targets \cup {t}
        /\ placed' = Append(placed, x) /\ todo' = Below
    BY <1>8 DEF EndWhile, At, Branch, Place
  <2>2. Waits(Top) = {x} /\ Returns(Top) = {t}
    BY <2>1 DEF Waits, Returns
  <2>3. x \in Nat /\ Placed(t)
    BY <2>1, <2>2, TopLabels
  <2> HIDE DEF x, t
  <2> QED BY <2>1, <2>2, <2>3, PlaceAndEnd
<1> QED
  BY <1>2, <1>3, <1>4, <1>5, <1>6, <1>7, <1>8

LEMMA LabelsOfBody ==
  ASSUME LabelInv, NEW n, NextBody(n)
  PROVE  LabelInv'
<1> DEFINE e == Entry("sequence", "stmt")
<1>1. /\ todo = << >> /\ todo' = <<e>> /\ UNCHANGED <<label_counter, placed, targets>>
  BY DEF NextBody
<1>2. Plain(e)
  BY PlainEntries
<1> HIDE DEF e
<1>3. /\ todo' \in Seq({e}) /\ DOMAIN todo' = {1} /\ todo'[1] = e /\ DOMAIN todo = {}
  BY <1>1
<1>4. label_counter' \in Nat /\ label_counter' >= label_counter
  BY <1>1 DEF LabelInv
<1> QED BY <1>1, <1>2, <1>3, <1>4, PlainStep

LEMMA InitLabels == Init => LabelInv
<1> SUFFICES ASSUME Init PROVE LabelInv
  OBVIOUS
<1> DEFINE e == Entry("sequence", "stmt")
<1>1. /\ todo = <<e>> /\ label_counter = 0 /\ placed = << >> /\ targets = {}
  BY DEF Init
<1>2. Waits(e) = {} /\ Returns(e) = {} /\ e.do # "else" /\ "do" \in DOMAIN e
  BY PlainEntries, PlainWaits
<1> HIDE DEF e
<1>3. todo \in Seq({e}) /\ DOMAIN todo = {1} /\ todo[1] = e
  BY <1>1
<1>4. DOMAIN placed = {}
  BY <1>1
<1>5. LabelsPlacedOnce /\ \A l : ~Placed(l)
  BY <1>4 DEF LabelsPlacedOnce, Placed
<1>6. \A k \in DOMAIN todo : todo[k] = e
  BY <1>3
<1>7. label_counter \in Nat /\ targets = {} /\ \E S : todo \in Seq(S)
  BY <1>1, <1>3
<1> QED BY <1>2, <1>3, <1>4, <1>5, <1>6, <1>7 DEF LabelInv

LEMMA NextLabels == LabelInv /\ [Next]_vars => LabelInv'
<1> SUFFICES ASSUME LabelInv, [Next]_vars PROVE LabelInv'
  OBVIOUS
<1>1. CASE UNCHANGED vars
  BY <1>1 DEF vars, evars, LabelInv, LabelsPlacedOnce, Placed
<1>2. CASE Next /\ ~ UNCHANGED vars
  BY <1>2, ExprLabels, PlainStatements, LabelStatements, LabelsOfBody DEF Next, Finished
<1> QED BY <1>1, <1>2

\* In the text of every program no label is placed twice, and when a function is
\* translated all branches so far have a label to go to.
THEOREM LabelsCorrect == Spec => [](LabelsPlacedOnce /\ BranchesLand)
<1>1. LabelInv => LabelsPlacedOnce /\ BranchesLand
  <2> SUFFICES ASSUME LabelInv PROVE LabelsPlacedOnce /\ BranchesLand
    OBVIOUS
  <2>1. ASSUME todo = << >>, NEW l \in targets
        PROVE  \E i \in DOMAIN placed : placed[i] = l
    <3>1. DOMAIN todo = {}
      BY <2>1
    <3> QED BY <2>1, <3>1 DEF LabelInv, Placed
  <2> QED BY <2>1 DEF LabelInv, BranchesLand
<1> QED BY <1>1, InitLabels, NextLabels, PTL DEF Spec

=============================================================================
