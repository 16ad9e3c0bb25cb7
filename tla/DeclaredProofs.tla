--------------------------- MODULE DeclaredProofs ---------------------------
(***************************************************************************)
(* Further proofs about Names, which rest on those of NamesProofs: what an *)
(* accepted program declares is in the tables, and the translator finds it *)
(* there, gives it its type once, and prints it as it has declared it.     *)
(***************************************************************************)
EXTENDS NamesProofs

-----------------------------------------------------------------------------
(* Declarations without an error                                           *)

\* Whatever the tables hold they hold to the end.
LEMMA NamesStay ==
  ASSUME Typed, [Next]_vars
  PROVE  \A t \in Tab : t \in Tab' /\ \A n : Declares(t, n) => Declares(t, n)'
BY NameSteps DEF SameNames, OneMore, NewTable

\* An insertion that is no error is one of a new name.
LEMMA CleanInsert ==
  ASSUME Typed, NEW n \in Name, NEW v \in Value, NEW e, Insert(n, v, e),
         ~failed', status' # "crashed", NEW t, t = curr_scope
  PROVE  t \in Tab /\ ~Declares(t, n) /\ Declares(t, n)'
<1>1. TypeOK /\ curr_scope \in Tab
  BY DEF Typed, TypeOK, Insert, Crash
<1>2. /\ local_lookup(curr_scope, n) = {}
      /\ tables' = insert_sym(curr_scope, new_sym(n, v, Top.own))
  BY <1>1 DEF Insert, Crash, Report
<1>3. ~Declares(curr_scope, n)
  BY <1>1, <1>2, LookupDeclares
<1> DEFINE sym == new_sym(n, v, Top.own)
<1>4. sym.name = n
  BY DEF new_sym
<1> HIDE DEF sym
<1>5. tables[curr_scope] \in Seq(Symbol) /\ tables \in Seq(Seq(Symbol))
  BY <1>1 DEF TypeOK, Tab
<1>6. tables'[curr_scope] = Append(tables[curr_scope], sym)
  BY <1>1, <1>2, <1>5 DEF insert_sym, Tab, sym
<1>7. /\ Len(tables[curr_scope]) + 1 \in DOMAIN tables'[curr_scope]
      /\ tables'[curr_scope][Len(tables[curr_scope]) + 1] = sym
  BY <1>5, <1>6
<1> QED BY <1>1, <1>3, <1>4, <1>7 DEF Declares

LEMMA CleanDeclarations ==
  ASSUME Typed, NEW n \in Name, NEW s, s = curr_scope, ~failed', status' # "crashed",
         \/ DeclareParam(n)
         \/ \E t \in TypeRef : DeclareType(n, t) \/ DeclareVar(n, t)
         \/ \E r, p \in TypeRef : DeclareFunc(n, r, p)
  PROVE  /\ s \in Tab /\ ~Declares(s, n) /\ Declares(s, n)'
         /\ Top.phase \in Declaring
<1>1. TypeOK /\ Top.formal \in Value
  BY TopType DEF Typed, Frame
<1>2. ASSUME DeclareParam(n)
      PROVE  Top.phase \in Declaring /\ \E v \in Value, e \in BOOLEAN : Insert(n, v, e)
  <2>1. EntryOf("var", Top.formal) \in Value
    BY <1>1, EntryOfType DEF Kind
  <2> QED BY <1>2, <2>1 DEF DeclareParam, In, Declaring
<1>3. ASSUME NEW t \in TypeRef, DeclareType(n, t)
      PROVE  Top.phase \in Declaring /\ \E v \in Value, e \in BOOLEAN : Insert(n, v, e)
  <2>1. [kind |-> "type", named |-> TRUE] \in Value
    BY DEF Value, Kind
  <2> QED BY <1>3, <2>1 DEF DeclareType, In, Declaring
<1>4. ASSUME NEW t \in TypeRef, DeclareVar(n, t)
      PROVE  Top.phase \in Declaring /\ \E v \in Value, e \in BOOLEAN : Insert(n, v, e)
  <2>1. PICK v \in check_ty(t) : Insert(n, EntryOf("var", v), Undefined(t))
    BY <1>4 DEF DeclareVar
  <2>2. EntryOf("var", v) \in Value /\ Undefined(t) \in BOOLEAN
    BY <1>1, LookupType, EntryOfType DEF Kind, Undefined
  <2> QED BY <1>4, <2>1, <2>2 DEF DeclareVar, In, Declaring
<1>5. ASSUME NEW r \in TypeRef, NEW p \in TypeRef, DeclareFunc(n, r, p)
      PROVE  Top.phase \in Declaring /\ \E v \in Value, e \in BOOLEAN : Insert(n, v, e)
  <2> DEFINE e == local_lookup(curr_scope, n) = {} /\ Undefined(p)
  <2>1. PICK v \in check_ty(r) : Insert(n, EntryOf("func", v), e)
    BY <1>5 DEF DeclareFunc, Crash
  <2>2. EntryOf("func", v) \in Value /\ e \in BOOLEAN
    BY <1>1, LookupType, EntryOfType DEF Kind, Undefined
  <2> HIDE DEF e
  <2> QED BY <1>5, <2>1, <2>2 DEF DeclareFunc, In, Declaring
<1>6. Top.phase \in Declaring /\ \E v \in Value, e \in BOOLEAN : Insert(n, v, e)
  BY <1>2, <1>3, <1>4, <1>5
<1> QED BY <1>6, CleanInsert

-----------------------------------------------------------------------------
(* What the tables hold of the program                                     *)

\* No error has been found so far.
Accepting == ~failed /\ status # "crashed"

\* The headers that have been read of the functions declared in the main program.
Headed ==
  {blocks[k].name : k \in 2 .. Len(blocks)}
    \cup {frames[1].list[i].name :
            i \in {j \in DOMAIN frames[1].list : frames[1].phase \in {"headers", "bodies"}}}

\* The main program has table 1 and is read alone until its functions' bodies.
GlobalFirst ==
  /\ frames[1].own = 1
  /\ Len(frames) = 1 /\ Top.phase \in Declaring => Len(blocks) = 1
  /\ Len(frames) > 1 => Len(blocks) > 1

\* Table 1 holds what the main program declares, functions and variables apart.
GlobalsHeld ==
  /\ \A n \in Declared(blocks[1]) : Declares(1, n)
  /\ \A n \in Headed : Declares(1, n) /\ n \notin Declared(blocks[1])

\* Another table holds what a function declares.
LocalsHeld ==
  Fits => \A k \in 2 .. Len(blocks) : \A n \in Declared(blocks[k]) :
            \E t \in Tab : t # 1 /\ Declares(t, n)

TreeInv == Accepting => GlobalFirst /\ GlobalsHeld /\ LocalsHeld

\* One more name in the block whose declarations are read.
Adds(n) ==
  /\ blocks' \in Seq(Block) /\ Len(blocks') = Len(blocks)
  /\ \A k \in DOMAIN blocks :
       /\ blocks'[k].name = blocks[k].name
       /\ Declared(blocks'[k]) = IF k \in Noted THEN Declared(blocks[k]) \cup {n}
                                 ELSE Declared(blocks[k])

LEMMA SetAppend ==
  ASSUME NEW S, NEW s \in Seq(S), NEW x \in S
  PROVE  Set(Append(s, x)) = Set(s) \cup {x}
<1>1. /\ DOMAIN s = 1 .. Len(s) /\ Len(s) \in Nat
      /\ DOMAIN Append(s, x) = 1 .. Len(s) + 1
      /\ \A k \in 1 .. Len(s) : Append(s, x)[k] = s[k]
      /\ Append(s, x)[Len(s) + 1] = x
  OBVIOUS
<1>2. \A k : k \in 1 .. Len(s) + 1 <=> k \in 1 .. Len(s) \/ k = Len(s) + 1
  BY <1>1
<1> QED BY <1>1, <1>2 DEF Set

LEMMA ReadNames ==
  ASSUME BlocksOK, NEW n \in Name, ReadParam(n) \/ \E t \in TypeRef : ReadVar(n, t)
  PROVE  Adds(n)
<1>1. blocks \in Seq(Block) /\ \A k \in DOMAIN blocks : blocks[k] \in Block
  BY DEF BlocksOK
<1>2. ASSUME NEW F, \A b \in Block : F[b] \in Block /\ F[b].name = b.name
                                     /\ Declared(F[b]) = Declared(b) \cup {n},
             blocks' = [k \in DOMAIN blocks |-> IF k \in Noted THEN F[blocks[k]] ELSE blocks[k]]
      PROVE  Adds(n)
  <2>1. blocks' \in Seq(Block) /\ DOMAIN blocks' = DOMAIN blocks
    BY <1>1, <1>2, BlocksMapped
  <2>2. Len(blocks') = Len(blocks)
    BY <1>1, <2>1
  <2> QED BY <1>1, <1>2, <2>1, <2>2 DEF Adds
<1>3. CASE ReadParam(n)
  <2> DEFINE F == [b \in Block |-> [b EXCEPT !.params = Append(@, n)]]
  <2>1. ASSUME NEW b \in Block
        PROVE  F[b] \in Block /\ F[b].name = b.name /\ Declared(F[b]) = Declared(b) \cup {n}
    <3>1. b.params \in Seq(Name) /\ Append(b.params, n) \in Seq(Name)
      BY DEF Block
    <3>2. /\ F[b] \in Block /\ F[b].name = b.name /\ F[b].vars = b.vars
          /\ F[b].params = Append(b.params, n)
      BY <3>1 DEF Block
    <3>3. Set(Append(b.params, n)) = Set(b.params) \cup {n}
      BY <3>1, SetAppend
    <3> HIDE DEF F
    <3> QED BY <3>2, <3>3 DEF Declared
  <2>2. blocks' = [k \in DOMAIN blocks |-> IF k \in Noted THEN F[blocks[k]] ELSE blocks[k]]
    BY <1>1, <1>3 DEF ReadParam
  <2> HIDE DEF F
  <2> QED BY <1>2, <2>1, <2>2
<1>4. ASSUME NEW t \in TypeRef, ReadVar(n, t)
      PROVE  Adds(n)
  <2> DEFINE F == [b \in Block |-> [b EXCEPT !.vars = @ \cup {n}]]
  <2>1. ASSUME NEW b \in Block
        PROVE  F[b] \in Block /\ F[b].name = b.name /\ Declared(F[b]) = Declared(b) \cup {n}
    <3>1. /\ F[b] \in Block /\ F[b].name = b.name /\ F[b].params = b.params
          /\ F[b].vars = b.vars \cup {n}
      BY DEF Block
    <3> HIDE DEF F
    <3> QED BY <3>1 DEF Declared
  <2>2. blocks' = [k \in DOMAIN blocks |-> IF k \in Noted THEN F[blocks[k]] ELSE blocks[k]]
    BY <1>1, <1>4 DEF ReadVar
  <2> HIDE DEF F
  <2> QED BY <1>2, <2>1, <2>2
<1> QED BY <1>3, <1>4

\* The table of the block whose declarations are read.
LEMMA DeclaringTable ==
  ASSUME TablesInv, GlobalFirst, Top.phase \in Declaring
  PROVE  /\ Len(frames) = 1 => curr_scope = 1
         /\ Len(frames) > 1 /\ Fits => curr_scope # 1
<1>1. /\ Len(frames) \in Nat \ {0} /\ DOMAIN frames = 1 .. Len(frames)
      /\ Top.own = Len(tables) /\ Top = frames[Len(frames)]
  BY TopType DEF TablesInv, Typed, OwnInv, Top
<1>2. Fits => curr_scope = Top.own
  BY DEF TablesInv, ScopeInv, DeclaresInOwnScope, Declaring, Fits
<1>3. Len(frames) = 1 => Fits
  BY <1>1, MaxScopeAssumption DEF GlobalFirst, Fits
<1>4. Len(frames) > 1 => Top.own # 1
  <2>1. \A k \in 1 .. Len(frames) : k > 1 => frames[k].own # 1
    BY <1>1 DEF TablesInv, OwnInv
  <2>2. Len(frames) \in 1 .. Len(frames)
    BY <1>1
  <2>3. Len(frames) > 1 => frames[Len(frames)].own # 1
    BY <2>1, <2>2
  <2> QED BY <2>3 DEF Top
<1> QED BY <1>1, <1>2, <1>3, <1>4 DEF GlobalFirst

LEMMA NotedBlocks ==
  /\ Len(frames) = 1 => Noted = {1}
  /\ Len(frames) = 2 => Noted = {Len(blocks)}
  /\ Len(frames) \notin {1, 2} => Noted = {}
<1>1. ASSUME Len(frames) = 1 PROVE Noted = {1}
  BY <1>1 DEF Noted
<1>2. ASSUME Len(frames) = 2 PROVE Noted = {Len(blocks)}
  BY <1>2 DEF Noted
<1>3. ASSUME Len(frames) # 1, Len(frames) # 2 PROVE Noted = {}
  BY <1>3 DEF Noted
<1> QED BY <1>1, <1>2, <1>3

LEMMA ReadNamesTree ==
  ASSUME TablesInv, BlocksOK, TreeInv, Accepting, Accepting',
         NEW n \in Name, ReadParam(n) \/ \E t \in TypeRef : ReadVar(n, t)
  PROVE  GlobalFirst' /\ GlobalsHeld' /\ LocalsHeld'
<1>1. Adds(n)
  BY ReadNames
<1>2. DeclareParam(n) \/ \E t \in TypeRef : DeclareVar(n, t)
  BY DEF ReadParam, ReadVar
<1>3. UNCHANGED frames /\ Top.phase \in {"params", "vars"} /\ [Next]_vars
  BY <1>2 DEF DeclareParam, DeclareVar, In, Next
<1>4. PICK s : s = curr_scope
  OBVIOUS
<1>5. /\ s \in Tab /\ ~Declares(s, n) /\ Declares(s, n)'
      /\ Top.phase \in Declaring
  BY <1>2, <1>4, CleanDeclarations DEF TablesInv, Accepting
<1>6. GlobalFirst /\ GlobalsHeld /\ LocalsHeld
  BY DEF TreeInv
<1>7. /\ Len(frames) = 1 => s = 1
      /\ Len(frames) > 1 /\ Fits => s # 1
  BY <1>4, <1>5, <1>6, DeclaringTable
<1>8. /\ Len(frames) \in Nat \ {0} /\ blocks \in Seq(Block) /\ Len(blocks) \in Nat \ {0}
      /\ DOMAIN blocks = 1 .. Len(blocks)
  BY TopType DEF TablesInv, Typed, BlocksOK
<1>9. \A t \in Tab : t \in Tab' /\ \A m : Declares(t, m) => Declares(t, m)'
  BY <1>3, NamesStay DEF TablesInv
<1>10. Fits' => Fits
  BY <1>3, FitsBefore DEF TablesInv
<1>11. GlobalFirst'
  BY <1>1, <1>3, <1>6 DEF GlobalFirst, Adds, Top
<1>12. Headed' = Headed /\ (Len(frames) = 1 => Headed = {})
  <2>1. {blocks'[k].name : k \in 2 .. Len(blocks)} = {blocks[k].name : k \in 2 .. Len(blocks)}
    <3>1. \A k \in 2 .. Len(blocks) : k \in DOMAIN blocks
      BY <1>8
    <3>2. \A k \in 2 .. Len(blocks) : blocks'[k].name = blocks[k].name
      BY <1>1, <3>1 DEF Adds
    <3> QED BY <3>2
  <2>2. Len(frames) = 1 => Len(blocks) = 1 /\ frames[1].phase \notin {"headers", "bodies"}
    BY <1>3, <1>5, <1>6 DEF GlobalFirst, Top
  <2>3. Headed' = Headed
    BY <1>1, <1>3, <2>1 DEF Headed, Adds
  <2>4. Len(blocks) = 1 => 2 .. Len(blocks) = {}
    OBVIOUS
  <2>5. Len(frames) = 1 => Headed = {}
    BY <2>2, <2>4 DEF Headed
  <2> QED BY <2>3, <2>5
<1>13. 1 \in Tab
  BY TopType, <1>6 DEF TablesInv, Typed, WellNested, GlobalFirst
<1>14. GlobalsHeld'
  <2>1. CASE Len(frames) = 1
    <3>1. Noted = {1} /\ Declared(blocks'[1]) = Declared(blocks[1]) \cup {n}
      <4>1. Noted = {1} /\ 1 \in DOMAIN blocks
        BY <1>8, <2>1, NotedBlocks
      <4> QED BY <1>1, <4>1 DEF Adds
    <3>2. Headed' = {}
      BY <1>12, <2>1
    <3>3. \A m \in Declared(blocks[1]) : Declares(1, m)'
      BY <1>6, <1>9, <1>13 DEF GlobalsHeld
    <3>4. Declares(1, n)'
      BY <1>5, <1>7, <2>1
    <3>5. Declared(blocks[1])' = Declared(blocks'[1])
      BY DEF Declared, Set
    <3> QED BY <3>1, <3>2, <3>3, <3>4, <3>5 DEF GlobalsHeld
  <2>2. CASE Len(frames) # 1
    <3>1. 1 \notin Noted
      <4>1. CASE Len(frames) = 2
        <5>1. Noted = {Len(blocks)} /\ Len(blocks) > 1
          BY <1>6, <4>1, NotedBlocks DEF GlobalFirst
        <5> QED BY <1>8, <5>1
      <4>2. CASE Len(frames) \notin {1, 2}
        BY <4>2, NotedBlocks
      <4> QED BY <2>2, <4>1, <4>2
    <3>2. Declared(blocks'[1]) = Declared(blocks[1])
      <4>1. 1 \in DOMAIN blocks
        BY <1>8
      <4> QED BY <1>1, <3>1, <4>1 DEF Adds
    <3> QED BY <1>6, <1>9, <1>12, <1>13, <3>2 DEF GlobalsHeld, Declared, Set
  <2> QED BY <2>1, <2>2
<1>15. LocalsHeld'
  <2> SUFFICES ASSUME Fits', NEW k \in 2 .. Len(blocks), NEW m \in Declared(blocks'[k])
               PROVE  \E t \in Tab' : t # 1 /\ Declares(t, m)'
    BY <1>1 DEF LocalsHeld, Adds, Declared, Set
  <2>1. k \in DOMAIN blocks /\ k # 1
    BY <1>8
  <2>2. CASE m \in Declared(blocks[k])
    <3>1. PICK t \in Tab : t # 1 /\ Declares(t, m)
      BY <1>6, <1>10, <2>2 DEF LocalsHeld
    <3> QED BY <1>9, <3>1
  <2>3. CASE m \notin Declared(blocks[k])
    <3>1. k \in Noted /\ m = n
      BY <1>1, <2>1, <2>3 DEF Adds
    <3>2. Len(frames) > 1
      <4>1. Len(frames) # 1
        BY <2>1, <3>1, NotedBlocks
      <4>2. Len(frames) \in Nat \ {0}
        BY <1>8
      <4>3. \A d \in Nat \ {0} : d # 1 => d > 1
        OBVIOUS
      <4> QED BY <4>1, <4>2, <4>3, Zenon
    <3>3. s # 1
      BY <1>7, <1>10, <3>2
    <3> QED BY <1>5, <1>9, <3>1, <3>3
  <2> QED BY <2>2, <2>3
<1> QED BY <1>11, <1>14, <1>15

-----------------------------------------------------------------------------
(* The other steps of the validator                                        *)

LEMMA OuterFrame ==
  ASSUME Typed, [Next]_vars, Len(frames) > 1
  PROVE  frames'[1] = frames[1]
<1>1. /\ TypeOK /\ frames \in Seq(Frame) /\ Len(frames) \in Nat \ {0} /\ 1 \in DOMAIN frames
      /\ DOMAIN frames = 1 .. Len(frames)
  BY TopType DEF Typed, TypeOK
<1>2. CASE Continues
  BY <1>1, <1>2 DEF Continues
<1>3. CASE OpenFunc
  <2>1. \A k \in 1 .. Len(frames) : k # Len(frames) => frames'[k] = frames[k]
    BY <1>3, OpenList
  <2>2. 1 \in 1 .. Len(frames) /\ 1 # Len(frames)
    BY <1>1
  <2> QED BY <2>1, <2>2
<1>4. CASE CloseFunc
  <2>1. frames' = SubSeq(frames, 1, Len(frames) - 1)
    BY <1>4 DEF CloseFunc
  <2>2. \A k \in 1 .. (Len(frames) - 1) : frames[k] \in Frame
    BY <1>1
  <2>3. \A k \in 1 .. (Len(frames) - 1) : frames'[k] = frames[k]
    BY <1>1, <2>1, <2>2, SubSeqProperties
  <2> QED BY <1>1, <2>3
<1> QED BY <1>2, <1>3, <1>4, FrameSteps

\* The headers of the main program, as its frame holds them.
ListNames(f) ==
  {f.list[i].name : i \in {j \in DOMAIN f.list : f.phase \in {"headers", "bodies"}}}

LEMMA HeadedParts ==
  Headed = {blocks[k].name : k \in 2 .. Len(blocks)} \cup ListNames(frames[1])
BY DEF Headed, ListNames

\* A step that stays in its block and reads no name of it keeps what is known,
\* if the headers that it adds are declared, and were not before.
LEMMA WithinTree ==
  ASSUME TablesInv, BlocksOK, TreeInv, Accepting, [Next]_vars,
         UNCHANGED blocks, Len(frames') = Len(frames), Within,
         frames'[1].own = frames[1].own,
         NEW X, ListNames(frames'[1]) \subseteq ListNames(frames[1]) \cup X,
         \A n \in X : Declares(1, n)' /\ ~Declares(1, n)
  PROVE  GlobalFirst' /\ GlobalsHeld' /\ LocalsHeld'
<1>1. GlobalFirst /\ GlobalsHeld /\ LocalsHeld /\ Typed
  BY DEF TreeInv, TablesInv
<1>2. \A t \in Tab : t \in Tab' /\ \A m : Declares(t, m) => Declares(t, m)'
  BY <1>1, NamesStay
<1>3. 1 \in Tab
  BY <1>1, TopType DEF Typed, WellNested, GlobalFirst
<1>4. GlobalFirst'
  BY <1>1 DEF GlobalFirst, Within
<1>5. ASSUME NEW n \in Headed' PROVE n \in Headed \/ n \in X
  <2>1. Headed = {blocks[k].name : k \in 2 .. Len(blocks)} \cup ListNames(frames[1])
    BY HeadedParts
  <2>2. Headed' = {blocks[k].name : k \in 2 .. Len(blocks)} \cup ListNames(frames'[1])
    BY DEF Headed, ListNames
  <2> QED BY <1>5, <2>1, <2>2
<1>6. GlobalsHeld'
  <2>1. Declared(blocks[1])' = Declared(blocks[1])
    BY DEF Declared, Set
  <2>2. \A n \in Declared(blocks[1]) : Declares(1, n)'
    BY <1>1, <1>2, <1>3 DEF GlobalsHeld
  <2>3. \A n \in Headed' : Declares(1, n)' /\ n \notin Declared(blocks[1])
    BY <1>1, <1>2, <1>3, <1>5 DEF GlobalsHeld
  <2> QED BY <2>1, <2>2, <2>3 DEF GlobalsHeld
<1>7. LocalsHeld'
  <2> SUFFICES ASSUME Fits', NEW k \in 2 .. Len(blocks), NEW m \in Declared(blocks[k])
               PROVE  \E t \in Tab' : t # 1 /\ Declares(t, m)'
    <3>1. \A k : Declared(blocks[k])' = Declared(blocks[k])
      BY DEF Declared, Set
    <3> QED BY <3>1 DEF LocalsHeld
  <2>1. PICK t \in Tab : t # 1 /\ Declares(t, m)
    BY <1>1, FitsBefore DEF LocalsHeld
  <2> QED BY <1>2, <2>1
<1> QED BY <1>4, <1>6, <1>7

\* What Goto does to the frame of the main program.
LEMMA GotoFirst ==
  ASSUME Typed, NEW phase \in Phase, NEW list \in Seq(Decl), NEW cycle \in BOOLEAN,
         Goto(phase, list, cycle)
  PROVE  /\ Len(frames') = Len(frames) /\ frames'[1].own = frames[1].own
         /\ \/ Len(frames) > 1 /\ frames'[1] = frames[1]
            \/ Len(frames) = 1 /\ frames'[1].phase = phase /\ frames'[1].list = list
<1>1. TypeOK /\ Top \in Frame /\ Len(frames) \in Nat \ {0} /\ DOMAIN frames = 1 .. Len(frames)
  BY TopType DEF Typed
<1>2. /\ Len(frames') = Len(frames)
      /\ \A k \in DOMAIN frames : frames'[k].own = frames[k].own
      /\ \A k \in DOMAIN frames : k < Len(frames) => frames'[k] = frames[k]
  BY <1>1, GotoFrames
<1>3. 1 \in DOMAIN frames /\ (Len(frames) = 1 \/ Len(frames) > 1)
  BY <1>1
<1>4. CASE Len(frames) = 1
  <2> DEFINE new == [Top EXCEPT !.phase = phase, !.list = list, !.cycle = cycle]
  <2>1. new.phase = phase /\ new.list = list
    BY <1>1 DEF Frame
  <2>2. frames' = [frames EXCEPT ![1] = new]
    BY <1>4 DEF Goto, Top
  <2> HIDE DEF new
  <2>3. frames'[1] = new
    BY <1>3, <2>2
  <2> QED BY <1>2, <1>3, <1>4, <2>1, <2>3
<1> QED BY <1>2, <1>3, <1>4

\* The steps that read no name of a block that the translator visits.
LEMMA ReadOtherTree ==
  ASSUME TablesInv, BlocksOK, TreeInv, Accepting, Accepting', ReadOther
  PROVE  GlobalFirst' /\ GlobalsHeld' /\ LocalsHeld'
<1>1. /\ UNCHANGED blocks /\ Typed /\ TypeOK /\ GlobalFirst
      /\ Top \in Frame /\ Top.list \in Seq(Decl) /\ << >> \in Seq(Decl)
      /\ Top = frames[Len(frames)]
  BY TopType DEF ReadOther, TablesInv, Typed, Frame, TreeInv, Top
<1>2. [Next]_vars
  BY DEF ReadOther, Next, Advance
<1>3. Within
  <2>1. ~OpenFunc /\ ~CloseFunc
    BY DEF ReadOther, DeclareType, DeclareFunc, EndParams, NoTypePart, EndTypeNames,
           ResolveType, EndTypes, EndVars, EndHeaders, EndBodies, OpenFunc, CloseFunc, In
  <2> QED BY <1>1, <1>2, <2>1, BlockSteps
<1>4. ASSUME NEW phase \in Phase, NEW list \in Seq(Decl), NEW cycle \in BOOLEAN,
             Goto(phase, list, cycle), NEW X,
             phase \in {"headers", "bodies"} =>
               \A i \in DOMAIN list :
                 list[i].name \in ListNames(Top) \/ (Len(frames) = 1 => list[i].name \in X),
             \A n \in X : Declares(1, n)' /\ ~Declares(1, n)
      PROVE  GlobalFirst' /\ GlobalsHeld' /\ LocalsHeld'
  <2>1. /\ Len(frames') = Len(frames) /\ frames'[1].own = frames[1].own
        /\ \/ Len(frames) > 1 /\ frames'[1] = frames[1]
           \/ Len(frames) = 1 /\ frames'[1].phase = phase /\ frames'[1].list = list
    BY <1>1, <1>4, GotoFirst
  <2>2. ListNames(frames'[1]) \subseteq ListNames(frames[1]) \cup X
    <3>1. CASE frames'[1] = frames[1]
      BY <3>1
    <3>2. CASE Len(frames) = 1 /\ frames'[1].phase = phase /\ frames'[1].list = list
      <4>1. Top = frames[1]
        BY <1>1, <3>2
      <4>2. phase \in {"headers", "bodies"} =>
              \A i \in DOMAIN list : list[i].name \in ListNames(frames[1]) \cup X
        BY <1>4, <3>2, <4>1
      <4>3. ListNames(frames'[1]) = {list[i].name :
                                       i \in {j \in DOMAIN list : phase \in {"headers", "bodies"}}}
        BY <3>2 DEF ListNames
      <4> QED BY <4>2, <4>3
    <3> QED BY <2>1, <3>1, <3>2
  <2> QED BY <1>1, <1>2, <1>3, <1>4, <2>1, <2>2, WithinTree
<1>5. ASSUME NEW n \in Name, NEW r \in TypeRef, NEW p \in TypeRef, DeclareFunc(n, r, p)
      PROVE  GlobalFirst' /\ GlobalsHeld' /\ LocalsHeld'
  <2> DEFINE d == [name |-> n, ty |-> p]
             list == Append(Top.list, d)
             X == {x \in {n} : Len(frames) = 1}
  <2>1. d \in Decl /\ list \in Seq(Decl) /\ d.name = n
    BY <1>1 DEF Decl
  <2>2. Goto("headers", list, FALSE) /\ Top.phase = "headers"
    BY <1>5 DEF DeclareFunc, In
  <2>3. \A x \in X : Declares(1, x)' /\ ~Declares(1, x)
    <3> SUFFICES ASSUME Len(frames) = 1 PROVE Declares(1, n)' /\ ~Declares(1, n)
      OBVIOUS
    <3>1. PICK s : s = curr_scope
      OBVIOUS
    <3>2. ~Declares(s, n) /\ Declares(s, n)' /\ Top.phase \in Declaring
      BY <1>1, <1>5, <3>1, CleanDeclarations DEF Accepting
    <3>3. s = 1
      BY <1>1, <3>1, <3>2, DeclaringTable
    <3> QED BY <3>2, <3>3
  <2>4. \A i \in DOMAIN list : list[i].name \in ListNames(Top) \/ (Len(frames) = 1 => list[i].name \in X)
    <3> HIDE DEF d
    <3>1. \A i \in DOMAIN list : \/ i \in DOMAIN Top.list /\ list[i] = Top.list[i]
                                 \/ list[i] = d
      BY <1>1, <2>1
    <3>2. \A i \in DOMAIN Top.list : Top.list[i].name \in ListNames(Top)
      BY <2>2 DEF ListNames
    <3> QED BY <2>1, <3>1, <3>2
  <2> HIDE DEF list, X
  <2> QED BY <1>4, <2>1, <2>2, <2>3, <2>4 DEF Phase
<1>6. ASSUME NEW phase \in Phase, NEW list \in Seq(Decl), NEW cycle \in BOOLEAN,
             Goto(phase, list, cycle),
             phase \in {"headers", "bodies"} =>
               \A i \in DOMAIN list : list[i].name \in ListNames(Top)
      PROVE  GlobalFirst' /\ GlobalsHeld' /\ LocalsHeld'
  <2> DEFINE X == {}
  <2>1. \A n \in X : Declares(1, n)' /\ ~Declares(1, n)
    OBVIOUS
  <2>2. phase \in {"headers", "bodies"} =>
          \A i \in DOMAIN list :
            list[i].name \in ListNames(Top) \/ (Len(frames) = 1 => list[i].name \in X)
    BY <1>6
  <2> HIDE DEF X
  <2> QED BY <1>4, <1>6, <2>1, <2>2
<1>7. ASSUME NEW n \in Name, NEW t \in TypeRef, DeclareType(n, t)
      PROVE  GlobalFirst' /\ GlobalsHeld' /\ LocalsHeld'
  <2>1. Append(Top.list, [name |-> n, ty |-> t]) \in Seq(Decl)
    BY <1>1 DEF Decl
  <2> QED BY <1>6, <1>7, <2>1 DEF DeclareType, Phase
<1>8. CASE ResolveType
  <2> DEFINE c(v) == Top.cycle /\ v.kind = "type" /\ v.named
  <2>1. PICK v \in check_ty(Head(Top.list).ty) : Goto("resolve", Tail(Top.list), c(v))
    BY <1>8 DEF ResolveType
  <2>2. Tail(Top.list) \in Seq(Decl) /\ c(v) \in BOOLEAN
    BY <1>1, <1>8 DEF ResolveType
  <2> HIDE DEF c
  <2> QED BY <1>6, <2>1, <2>2 DEF Phase
<1>9. CASE EndParams \/ NoTypePart \/ EndTypes \/ EndBodies
  BY <1>1, <1>6, <1>9 DEF EndParams, NoTypePart, EndTypes, EndBodies, Phase
<1>10. CASE EndTypeNames
  BY <1>1, <1>6, <1>10 DEF EndTypeNames, Phase
<1>11. CASE EndVars \/ EndHeaders
  <2>1. CASE EndVars
    <3>1. Goto("headers", << >>, FALSE)
      BY <2>1 DEF EndVars
    <3>2. ASSUME NEW list \in Seq(Decl), list = << >>, Goto("headers", list, FALSE)
          PROVE  GlobalFirst' /\ GlobalsHeld' /\ LocalsHeld'
      <4>1. \A i \in DOMAIN list : list[i].name \in ListNames(Top)
        BY <3>2
      <4> QED BY <1>6, <3>2, <4>1 DEF Phase
    <3> QED BY <1>1, <3>1, <3>2
  <2>2. CASE EndHeaders
    <3>1. Goto("bodies", Top.list, FALSE) /\ Top.phase = "headers"
      BY <2>2 DEF EndHeaders, In
    <3>2. \A i \in DOMAIN Top.list : Top.list[i].name \in ListNames(Top)
      BY <3>1 DEF ListNames
    <3> QED BY <1>1, <1>6, <3>1, <3>2 DEF Phase
  <2> QED BY <1>11, <2>1, <2>2
<1> QED BY <1>5, <1>7, <1>8, <1>9, <1>10, <1>11 DEF ReadOther

LEMMA ReadFuncTree ==
  ASSUME TablesInv, BlocksOK, TreeInv, Accepting, ReadFunc
  PROVE  GlobalFirst' /\ GlobalsHeld' /\ LocalsHeld'
<1>1. /\ GlobalFirst /\ GlobalsHeld /\ LocalsHeld /\ Typed /\ TypeOK /\ OpenFunc /\ [Next]_vars
      /\ Top \in Frame /\ Top.list \in Seq(Decl) /\ Top = frames[Len(frames)]
  BY TopType DEF ReadFunc, TablesInv, Typed, Frame, TreeInv, Top, Next, Advance
<1>2. Len(frames) \in Nat \ {0} /\ blocks \in Seq(Block) /\ Len(blocks) \in Nat \ {0}
  BY <1>1, TopType DEF BlocksOK
<1>3. /\ Len(frames') = Len(frames) + 1
      /\ \A k \in 1 .. Len(frames) : k # Len(frames) => frames'[k] = frames[k]
      /\ frames'[Len(frames)].list = Tail(Top.list) /\ frames'[Len(frames)].phase = "bodies"
  BY <1>1, OpenList
<1>4. frames'[1].own = frames[1].own
  <2>1. 1 \in DOMAIN frames
    BY <1>1, <1>2 DEF TypeOK
  <2> QED BY <1>1, <2>1, OpenFrames
<1>5. \A t \in Tab : t \in Tab' /\ \A m : Declares(t, m) => Declares(t, m)'
  BY <1>1, NamesStay
<1>6. 1 \in Tab
  BY <1>1, TopType DEF Typed, WellNested, GlobalFirst
<1>7. Fits' => Fits
  BY <1>1, FitsBefore
<1>8. Len(frames') # 1 /\ Len(frames') > 1
  BY <1>2, <1>3
<1> SUFFICES /\ Len(blocks') > 1 /\ Declared(blocks'[1]) = Declared(blocks[1])
             /\ \A n \in Headed' : n \in Headed
             /\ \A k \in 2 .. Len(blocks') :
                  Declared(blocks'[k]) = {} \/ (k \in 2 .. Len(blocks) /\ blocks'[k] = blocks[k])
  <2>1. GlobalFirst'
    BY <1>1, <1>4, <1>8 DEF GlobalFirst
  <2>2. GlobalsHeld'
    BY <1>1, <1>5, <1>6 DEF GlobalsHeld, Declared, Set
  <2>3. LocalsHeld'
    <3> SUFFICES ASSUME Fits', NEW k \in 2 .. Len(blocks'), NEW m \in Declared(blocks'[k])
                 PROVE  \E t \in Tab' : t # 1 /\ Declares(t, m)'
      BY DEF LocalsHeld, Declared, Set
    <3>1. k \in 2 .. Len(blocks) /\ m \in Declared(blocks[k])
      OBVIOUS
    <3>2. PICK t \in Tab : t # 1 /\ Declares(t, m)
      BY <1>1, <1>7, <3>1 DEF LocalsHeld
    <3> QED BY <1>5, <3>2
  <2> QED BY <2>1, <2>2, <2>3
<1>9. Len(frames) = 1 \/ (Len(frames) > 1 /\ Len(frames) # 1)
  <2>1. \A d \in Nat \ {0} : d = 1 \/ (d > 1 /\ d # 1)
    OBVIOUS
  <2> QED BY <1>2, <2>1, Zenon
<1>10. CASE Len(frames) > 1 /\ Len(frames) # 1
  <2>1. frames'[1] = frames[1]
    BY <1>1, <1>10, OuterFrame
  <2>2. blocks' = blocks
    BY <1>10 DEF ReadFunc
  <2>3. Headed' = Headed
    BY <2>1, <2>2 DEF Headed
  <2> QED BY <1>1, <1>10, <2>2, <2>3 DEF GlobalFirst
<1>11. CASE Len(frames) = 1
  <2> DEFINE new == NewBlock(Head(Top.list).name)
  <2>1. Top = frames[1] /\ Top.phase = "bodies" /\ Top.list # << >>
    BY <1>1, <1>11 DEF OpenFunc, In
  <2>2. Head(Top.list).name \in Name
    <3>1. Head(Top.list) \in Decl
      BY <1>1, <2>1
    <3> QED BY <3>1 DEF Decl
  <2>3. new \in Block /\ Declared(new) = {} /\ new.name = Head(Top.list).name
    <3>1. << >> \in Seq(Name) /\ DOMAIN << >> = {}
      OBVIOUS
    <3> QED BY <2>2, <3>1 DEF NewBlock, Block, Declared, Set
  <2>4. blocks' = Append(blocks, new)
    BY <1>11 DEF ReadFunc
  <2> HIDE DEF new
  <2> DEFINE m == Len(blocks)
  <2>5. /\ Len(blocks') = m + 1 /\ blocks'[m + 1] = new
        /\ \A k \in 1 .. m : blocks'[k] = blocks[k]
    BY <1>2, <2>3, <2>4
  <2>6. m \in Nat \ {0}
    BY <1>2
  <2> HIDE DEF m
  <2>7. \A k \in 2 .. m + 1 : (k \in 2 .. m /\ k \in 1 .. m) \/ k = m + 1
    BY <2>6
  <2>8. frames'[1].list = Tail(Top.list)
    BY <1>3, <1>11
  <2>9. ASSUME NEW n \in Headed' PROVE n \in Headed
    <3>1. \A i \in DOMAIN Top.list : Top.list[i].name \in Headed
      BY <2>1 DEF Headed
    <3>2. CASE n \in {blocks'[k].name : k \in 2 .. m + 1}
      <4>1. \A k \in 2 .. m : blocks[k].name \in Headed
        BY DEF Headed, m
      <4>2. Head(Top.list) = Top.list[1] /\ 1 \in DOMAIN Top.list
        BY <1>1, <2>1
      <4>3. \A k \in 2 .. m + 1 : blocks'[k].name \in Headed
        BY <2>3, <2>5, <2>7, <3>1, <4>1, <4>2
      <4> QED BY <3>2, <4>3
    <3>3. CASE \E i \in DOMAIN frames'[1].list : n = frames'[1].list[i].name
      <4>1. \A i \in DOMAIN Tail(Top.list) :
              i + 1 \in DOMAIN Top.list /\ Tail(Top.list)[i] = Top.list[i + 1]
        BY <1>1, <2>1
      <4> QED BY <2>8, <3>1, <3>3, <4>1
    <3> QED BY <2>5, <2>9, <3>2, <3>3 DEF Headed
  <2>10. Len(blocks') > 1 /\ blocks'[1] = blocks[1]
    BY <2>5, <2>6
  <2> QED BY <2>3, <2>5, <2>7, <2>9, <2>10 DEF m
<1> QED BY <1>10, <1>11, <1>9

LEMMA ReadStatementsTree ==
  ASSUME TablesInv, BlocksOK, TreeInv, Accepting, ReadStatements
  PROVE  GlobalFirst' /\ GlobalsHeld' /\ LocalsHeld'
<1>1. /\ GlobalFirst /\ GlobalsHeld /\ LocalsHeld /\ Typed /\ TypeOK /\ [Next]_vars
      /\ UNCHANGED tables /\ Len(frames) \in Nat \ {0} /\ DOMAIN frames = 1 .. Len(frames)
  BY TopType DEF ReadStatements, TablesInv, Typed, TreeInv, Next, Advance, CloseFunc, Finish
<1>2. /\ blocks' \in Seq(Block) /\ Len(blocks') = Len(blocks)
      /\ \A k \in DOMAIN blocks :
           blocks'[k].name = blocks[k].name /\ Declared(blocks'[k]) = Declared(blocks[k])
  <2>1. blocks \in Seq(Block) /\ \A k \in DOMAIN blocks : blocks[k] \in Block
    BY DEF BlocksOK
  <2>2. Meaning \in [Name -> SUBSET (Nat \X Nat)]
    BY <1>1, LookupPlace DEF Meaning
  <2>3. \A b \in Block : LET c == [b EXCEPT !.means = Meaning]
                         IN  /\ c \in Block /\ c.name = b.name
                             /\ c.params = b.params /\ c.vars = b.vars
    BY <2>2 DEF Block
  <2>4. \A k \in DOMAIN blocks : /\ blocks'[k] \in Block /\ blocks'[k].name = blocks[k].name
                                 /\ blocks'[k].params = blocks[k].params
                                 /\ blocks'[k].vars = blocks[k].vars
    BY <2>1, <2>3 DEF ReadStatements
  <2>5. blocks' = [k \in DOMAIN blocks |-> blocks'[k]]
    BY DEF ReadStatements
  <2>6. blocks' \in Seq(Block) /\ DOMAIN blocks' = DOMAIN blocks
    BY <2>1, <2>4, <2>5, BlocksMapped
  <2>7. Len(blocks') = Len(blocks)
    BY <2>1, <2>6
  <2> QED BY <2>4, <2>6, <2>7 DEF Declared
<1>3. /\ frames'[1] = frames[1]
      /\ Len(frames') = 1 /\ Top'.phase \in Declaring => Len(blocks) = 1
      /\ Len(frames') > 1 => Len(frames) > 1
  <2>1. CASE Finish
    BY <1>1, <2>1 DEF Finish, GlobalFirst, Top
  <2>2. CASE CloseFunc
    <3>1. Len(frames) > 1 /\ frames' = SubSeq(frames, 1, Len(frames) - 1)
      BY <2>2 DEF CloseFunc
    <3>2. frames'[1] = frames[1]
      BY <1>1, <3>1, OuterFrame
    <3>3. frames[1].phase = "bodies"
      BY <1>1, <3>1 DEF Typed, WellNested
    <3> QED BY <3>1, <3>2, <3>3 DEF Top, Declaring
  <2> QED BY <2>1, <2>2 DEF ReadStatements
<1>4. \A k \in 1 .. Len(blocks) : k \in DOMAIN blocks
  BY DEF BlocksOK
<1>5. Len(blocks) \in Nat \ {0}
  BY DEF BlocksOK
<1>6. GlobalFirst'
  BY <1>1, <1>2, <1>3 DEF GlobalFirst
<1>7. Headed' = Headed
  <2>1. \A k \in 2 .. Len(blocks) : k \in 1 .. Len(blocks)
    BY <1>5
  <2>2. {blocks'[k].name : k \in 2 .. Len(blocks)} = {blocks[k].name : k \in 2 .. Len(blocks)}
    BY <1>2, <1>4, <2>1
  <2> QED BY <1>2, <1>3, <2>2 DEF Headed
<1>8. \A t, m : Declares(t, m)' <=> Declares(t, m)
  BY <1>1 DEF Declares
<1>9. GlobalsHeld'
  <2>1. Declared(blocks'[1]) = Declared(blocks[1])
    BY <1>2, <1>4, <1>5
  <2> QED BY <1>1, <1>7, <1>8, <2>1 DEF GlobalsHeld, Declared, Set
<1>10. LocalsHeld'
  <2>1. Fits' = Fits /\ Tab' = Tab
    BY <1>1 DEF Fits, Tab
  <2>2. \A k \in 2 .. Len(blocks) : Declared(blocks'[k]) = Declared(blocks[k])
    BY <1>2, <1>4, <1>5
  <2> QED BY <1>1, <1>2, <1>8, <2>1, <2>2 DEF LocalsHeld, Declared, Set
<1> QED BY <1>6, <1>9, <1>10

LEMMA NextTree ==
  ASSUME TablesInv, BlocksOK, TreeInv, [NamesNext]_nvars
  PROVE  TreeInv'
<1>1. CASE ~Validate
  <2>1. UNCHANGED <<vars, blocks>>
    BY <1>1, TranslateSteps
  <2>2. UNCHANGED <<blocks, frames, tables, failed, status>>
    BY <2>1 DEF vars
  <2> QED BY <2>2 DEF TreeInv, Accepting, GlobalFirst, GlobalsHeld, LocalsHeld, Headed, Declared,
                      Set, Declares, Top, Fits, Tab
<1>2. CASE Validate
  <2>1. Accepting
    BY <1>2, ValidateRuns DEF Validate, Accepting
  <2> SUFFICES ASSUME Accepting' PROVE GlobalFirst' /\ GlobalsHeld' /\ LocalsHeld'
    BY DEF TreeInv
  <2>2. ASSUME NEW n \in Name, ReadParam(n) \/ \E t \in TypeRef : ReadVar(n, t)
        PROVE  GlobalFirst' /\ GlobalsHeld' /\ LocalsHeld'
    BY <2>1, <2>2, ReadNamesTree
  <2>3. CASE ReadFunc
    BY <2>1, <2>3, ReadFuncTree
  <2>4. CASE ReadStatements
    BY <2>1, <2>4, ReadStatementsTree
  <2>5. CASE ReadOther
    BY <2>1, <2>5, ReadOtherTree
  <2> QED BY <1>2, <2>2, <2>3, <2>4, <2>5 DEF Validate
<1> QED BY <1>1, <1>2

-----------------------------------------------------------------------------
(* The program that is translated                                          *)

\* The main program alone has no name, table 1 starts with the base type and is
\* on the stack, and a program that is accepted has no error.
ProgramInv ==
  /\ blocks[1].name = NULL
  /\ \A k \in 2 .. Len(blocks) : blocks[k].name \in Name
  /\ 1 \in Tab /\ 1 \in DOMAIN tables[1] /\ tables[1][1].name = BaseType
  /\ \E i \in Slot : stack[i] = 1
  /\ status = "accepted" => ~failed

LEMMA BlockNamesStay ==
  ASSUME TablesInv, BlocksOK, Validate
  PROVE  \A k \in 1 .. Len(blocks') :
           \/ k \in 1 .. Len(blocks) /\ blocks'[k].name = blocks[k].name
           \/ k \notin 1 .. Len(blocks) /\ blocks'[k].name \in Name
<1>1. /\ blocks \in Seq(Block) /\ DOMAIN blocks = 1 .. Len(blocks) /\ Len(blocks) \in Nat
      /\ \A k \in DOMAIN blocks : blocks[k] \in Block
  BY DEF BlocksOK
<1>2. ASSUME NEW n \in Name, ReadParam(n) \/ \E t \in TypeRef : ReadVar(n, t)
      PROVE  Len(blocks') = Len(blocks) /\ \A k \in DOMAIN blocks : blocks'[k].name = blocks[k].name
  BY <1>2, ReadNames DEF Adds
<1>3. CASE ReadStatements
  <2>1. blocks' \in Seq(Block) /\ DOMAIN blocks \subseteq DOMAIN blocks'
    BY BlocksRead
  <2>2. DOMAIN blocks' = DOMAIN blocks
    BY <1>3 DEF ReadStatements
  <2>3. \A b \in Block : [b EXCEPT !.means = Meaning].name = b.name
    BY DEF Block
  <2>4. \A k \in DOMAIN blocks : blocks'[k].name = blocks[k].name
    BY <1>1, <1>3, <2>3 DEF ReadStatements
  <2>5. Len(blocks') = Len(blocks)
    BY <1>1, <2>1, <2>2
  <2> QED BY <1>1, <2>4, <2>5
<1>4. CASE ReadFunc
  <2> DEFINE new == NewBlock(Head(Top.list).name)
             m == Len(blocks)
  <2>1. new \in Block /\ new.name \in Name
    <3>1. Top.list \in Seq(Decl) /\ Top.list # << >>
      BY <1>4, TopType DEF ReadFunc, OpenFunc, TablesInv, Typed, Frame
    <3>2. Head(Top.list).name \in Name
      <4>1. Head(Top.list) \in Decl
        BY <3>1
      <4> QED BY <4>1 DEF Decl
    <3>3. << >> \in Seq(Name)
      OBVIOUS
    <3> QED BY <3>2, <3>3 DEF NewBlock, Block
  <2>2. blocks' = IF Len(frames) = 1 THEN Append(blocks, new) ELSE blocks
    BY <1>4 DEF ReadFunc
  <2> HIDE DEF new
  <2>3. m \in Nat /\ \A k \in 1 .. m + 1 : k \in 1 .. m \/ (k = m + 1 /\ k \notin 1 .. m)
    BY <1>1
  <2>4. CASE blocks' = Append(blocks, new)
    <3>1. /\ Len(blocks') = m + 1 /\ blocks'[m + 1] = new
          /\ \A k \in 1 .. m : blocks'[k] = blocks[k]
      BY <1>1, <2>1, <2>4
    <3> HIDE DEF m
    <3>2. \A k \in 1 .. m + 1 : \/ k \in 1 .. m /\ blocks'[k].name = blocks[k].name
                                \/ k \notin 1 .. m /\ blocks'[k].name \in Name
      BY <2>1, <2>3, <3>1
    <3> QED BY <3>1, <3>2 DEF m
  <2> QED BY <2>2, <2>4
<1>5. CASE ReadOther
  BY <1>5 DEF ReadOther
<1> QED BY <1>1, <1>2, <1>3, <1>4, <1>5 DEF Validate

LEMMA GlobalOnStack ==
  ASSUME Typed, [Next]_vars, NEW i \in Slot, stack[i] = 1
  PROVE  \E j \in Slot : stack'[j] = 1
<1>1. CASE UNCHANGED stack
  BY <1>1
<1>2. CASE OpenFunc
  <2>1. stack \in [Slot -> Nat \cup {NULL}] /\ Len(tables) + 1 \in Nat
    <3>1. tables \in Seq(Seq(Symbol))
      BY DEF Typed, TypeOK
    <3>2. Len(tables) \in Nat
      BY <3>1
    <3>3. stack \in [Slot -> Tab \cup {NULL}]
      BY DEF Typed, TypeOK
    <3>4. Tab \subseteq Nat
      BY <3>2 DEF Tab
    <3>5. \A k \in Slot : stack[k] \in Nat \cup {NULL}
      BY <3>3, <3>4
    <3> QED BY <3>2, <3>3, <3>5
  <2>2. PICK t \in Nat : stack' = begin_scope(t)
    BY <1>2, <2>1 DEF OpenFunc
  <2>3. CASE FreeSlot = {}
    BY <2>2, <2>3 DEF begin_scope
  <2>4. ASSUME NEW f \in FreeSlot PROVE \E j \in Slot : stack'[j] = 1
    <3>1. stack' = IF f = 0 THEN [stack EXCEPT ![0] = t]
                   ELSE [stack EXCEPT ![f] = stack[f - 1], ![f - 1] = t]
      BY <2>1, <2>2, BeginScope
    <3>2. f \in Slot /\ stack[f] = NULL /\ f # i
      BY NullAssumption DEF FreeSlot
    <3>3. CASE f # 0 /\ i = f - 1
      <4>1. f # f - 1
        BY <3>2 DEF Slot
      <4>2. stack'[f] = stack[f - 1]
        BY <2>1, <3>1, <3>2, <3>3, <4>1
      <4> QED BY <3>2, <3>3, <4>2
    <3>4. CASE ~(f # 0 /\ i = f - 1)
      BY <2>1, <3>1, <3>2, <3>4
    <3> QED BY <3>3, <3>4
  <2> QED BY <2>3, <2>4
<1> QED BY <1>1, <1>2, BlockSteps DEF Within, CloseFunc

LEMMA NextProgram ==
  ASSUME TablesInv, BlocksOK, ProgramInv, [NamesNext]_nvars
  PROVE  ProgramInv'
<1>1. [Next]_vars /\ Typed
  BY NextTables DEF TablesInv
<1>2. /\ 1 \in Tab' /\ 1 \in DOMAIN tables'[1] /\ tables'[1][1].name = BaseType
  BY <1>1, SymbolsStay DEF ProgramInv
<1>3. \E i \in Slot : stack'[i] = 1
  BY <1>1, GlobalOnStack DEF ProgramInv
<1>4. CASE ~Validate
  <2>1. UNCHANGED <<vars, blocks>>
    BY <1>4, TranslateSteps
  <2>2. UNCHANGED <<blocks, failed, status>>
    BY <2>1 DEF vars
  <2> QED BY <1>2, <1>3, <2>2 DEF ProgramInv
<1>5. CASE Validate
  <2>1. Len(blocks) \in Nat \ {0} /\ Len(blocks') \in Nat \ {0} /\ 1 .. Len(blocks) \subseteq 1 .. Len(blocks')
    BY <1>5, BlocksRead DEF BlocksOK
  <2>2. \A k \in 1 .. Len(blocks') :
          \/ k \in 1 .. Len(blocks) /\ blocks'[k].name = blocks[k].name
          \/ k \notin 1 .. Len(blocks) /\ blocks'[k].name \in Name
    BY <1>5, BlockNamesStay
  <2>3. blocks'[1].name = NULL
    BY <2>1, <2>2 DEF ProgramInv
  <2>4. \A k \in 2 .. Len(blocks') : blocks'[k].name \in Name
    BY <2>1, <2>2 DEF ProgramInv
  <2>5. status' = "accepted" => ~failed'
    BY <1>5 DEF Validate, ReadParam, ReadVar, ReadFunc, ReadStatements, ReadOther, DeclareParam,
         DeclareVar, OpenFunc, CloseFunc, Finish, DeclareType, DeclareFunc, Insert, Crash, Report,
         EndParams, NoTypePart, EndTypeNames, ResolveType, EndTypes, EndVars, EndHeaders,
         EndBodies, In
  <2> QED BY <1>2, <1>3, <2>3, <2>4, <2>5 DEF ProgramInv
<1> QED BY <1>4, <1>5

LEMMA InitProgram == ASSUME NamesInit PROVE TreeInv /\ ProgramInv
<1>1. blocks = <<NewBlock(NULL)>> /\ Len(blocks) = 1 /\ 2 .. Len(blocks) = {} /\ Init
  BY DEF NamesInit
<1>2. Declared(blocks[1]) = {} /\ blocks[1].name = NULL
  BY <1>1 DEF NewBlock, Declared, Set
<1>3. /\ Len(frames) = 1 /\ frames[1].own = 1 /\ frames[1].phase = "types"
      /\ Len(tables) = 1 /\ Tab = {1} /\ tables[1] = <<new_sym(BaseType, IntType, 1)>>
      /\ status = "running"
  BY <1>1 DEF Init, NewFrame, Tab
<1>4. Headed = {}
  BY <1>1, <1>3 DEF Headed
<1>5. 1 \in DOMAIN tables[1] /\ tables[1][1].name = BaseType
  BY <1>3 DEF new_sym
<1>6. 0 \in Slot /\ stack[0] = 1
  BY <1>1, MaxScopeAssumption DEF Init, Slot
<1>7. TreeInv
  BY <1>1, <1>2, <1>3, <1>4 DEF TreeInv, GlobalFirst, GlobalsHeld, LocalsHeld
<1> QED BY <1>1, <1>2, <1>3, <1>5, <1>6, <1>7 DEF ProgramInv

\* The main program has no parameters.
MainInv == frames[1].phase # "params" /\ blocks[1].params = << >>

LEMMA MainPhase ==
  ASSUME Typed, Validate, frames[1].phase # "params"
  PROVE  frames'[1].phase # "params"
<1>1. /\ TypeOK /\ Top \in Frame /\ Top.list \in Seq(Decl) /\ << >> \in Seq(Decl)
      /\ Top = frames[Len(frames)] /\ Len(frames) \in Nat \ {0}
  BY TopType DEF Typed, Frame, Top
<1>2. [Next]_vars
  BY ValidateSteps DEF Validate
<1>3. ASSUME NEW phase \in Phase \ {"params"}, NEW list \in Seq(Decl), NEW cycle \in BOOLEAN,
             Goto(phase, list, cycle)
      PROVE  frames'[1].phase # "params"
  BY <1>3, GotoFirst
<1>4. ASSUME UNCHANGED frames PROVE frames'[1].phase # "params"
  BY <1>4
<1>5. ASSUME NEW n \in Name, ReadParam(n) \/ \E t \in TypeRef : ReadVar(n, t)
      PROVE  UNCHANGED frames
  BY <1>5 DEF ReadParam, ReadVar, DeclareParam, DeclareVar
<1>6. CASE ReadFunc
  <2>1. CASE Len(frames) > 1
    BY <1>2, <2>1, OuterFrame
  <2>2. CASE Len(frames) = 1
    BY <1>6, <2>2, OpenList DEF ReadFunc
  <2>3. \A d \in Nat \ {0} : d = 1 \/ d > 1
    OBVIOUS
  <2> QED BY <1>1, <2>1, <2>2, <2>3, Zenon
<1>7. CASE ReadStatements
  <2>1. CASE CloseFunc
    BY <1>2, <2>1, OuterFrame DEF CloseFunc
  <2>2. CASE Finish
    BY <2>2 DEF Finish
  <2> QED BY <1>7, <2>1, <2>2 DEF ReadStatements
<1>8. CASE ReadOther
  <2>1. ASSUME NEW n \in Name, NEW t \in TypeRef, DeclareType(n, t)
        PROVE  frames'[1].phase # "params"
    <3>1. Append(Top.list, [name |-> n, ty |-> t]) \in Seq(Decl)
      BY <1>1 DEF Decl
    <3> QED BY <1>3, <2>1, <3>1 DEF DeclareType, Phase
  <2>2. ASSUME NEW n \in Name, NEW r \in TypeRef, NEW p \in TypeRef, DeclareFunc(n, r, p)
        PROVE  frames'[1].phase # "params"
    <3>1. Append(Top.list, [name |-> n, ty |-> p]) \in Seq(Decl)
      BY <1>1 DEF Decl
    <3> QED BY <1>3, <2>2, <3>1 DEF DeclareFunc, Phase
  <2>3. CASE ResolveType
    <3> DEFINE c(v) == Top.cycle /\ v.kind = "type" /\ v.named
    <3>1. PICK v \in check_ty(Head(Top.list).ty) : Goto("resolve", Tail(Top.list), c(v))
      BY <2>3 DEF ResolveType
    <3>2. Tail(Top.list) \in Seq(Decl) /\ c(v) \in BOOLEAN
      BY <1>1, <2>3 DEF ResolveType
    <3> HIDE DEF c
    <3> QED BY <1>3, <3>1, <3>2 DEF Phase
  <2>4. CASE EndParams \/ NoTypePart \/ EndTypes \/ EndVars \/ EndBodies
    BY <1>1, <1>3, <2>4 DEF EndParams, NoTypePart, EndTypes, EndVars, EndBodies, Phase
  <2>5. CASE EndTypeNames \/ EndHeaders
    BY <1>1, <1>3, <2>5 DEF EndTypeNames, EndHeaders, Phase
  <2> QED BY <1>8, <2>1, <2>2, <2>3, <2>4, <2>5 DEF ReadOther
<1> QED BY <1>4, <1>5, <1>6, <1>7, <1>8 DEF Validate

LEMMA NextMain ==
  ASSUME TablesInv, BlocksOK, TreeInv, MainInv, [NamesNext]_nvars
  PROVE  MainInv'
<1>1. CASE ~Validate
  <2>1. UNCHANGED <<blocks, frames>>
    BY <1>1, TranslateSteps DEF vars
  <2> QED BY <2>1 DEF MainInv
<1>2. CASE Validate
  <2>1. /\ blocks \in Seq(Block) /\ 1 \in DOMAIN blocks /\ Len(blocks) \in Nat \ {0}
        /\ blocks[1] \in Block
    BY DEF BlocksOK
  <2>2. Accepting /\ GlobalFirst
    BY <1>2, ValidateRuns DEF Validate, Accepting, TreeInv
  <2>3. frames'[1].phase # "params"
    BY <1>2, MainPhase DEF MainInv, TablesInv
  <2>4. ASSUME NEW n \in Name, ReadParam(n) PROVE blocks'[1].params = blocks[1].params
    <3>1. Top.phase = "params" /\ Top = frames[Len(frames)]
      BY <2>4 DEF ReadParam, DeclareParam, In, Top
    <3>2. Len(frames) # 1
      BY <3>1 DEF MainInv
    <3>3. 1 \notin Noted
      <4>1. CASE Len(frames) = 2
        <5>1. Len(frames) > 1 => Len(blocks) > 1
          BY <2>2 DEF GlobalFirst
        <5>2. Len(frames) > 1
          BY <4>1
        <5>3. Len(blocks) > 1
          BY <5>1, <5>2
        <5>4. \A l \in Nat : l > 1 => l # 1
          OBVIOUS
        <5>5. Len(blocks) # 1
          BY <2>1, <5>3, <5>4
        <5>6. Noted = {Len(blocks)}
          BY <4>1, NotedBlocks
        <5> QED BY <5>5, <5>6
      <4>2. CASE Len(frames) # 2
        <5>1. Noted = {}
          BY <3>2, <4>2, NotedBlocks
        <5> QED BY <5>1
      <4> QED BY <4>1, <4>2
    <3> QED BY <2>1, <2>4, <3>3 DEF ReadParam
  <2>5. ASSUME NEW n \in Name, NEW t \in TypeRef, ReadVar(n, t)
        PROVE  blocks'[1].params = blocks[1].params
    BY <2>1, <2>5 DEF ReadVar, Block
  <2>6. ASSUME ReadStatements PROVE blocks'[1].params = blocks[1].params
    BY <2>1, <2>6 DEF ReadStatements, Block
  <2>7. ASSUME ReadFunc PROVE blocks'[1].params = blocks[1].params
    <3>1. CASE blocks' = blocks
      BY <3>1
    <3>2. ASSUME NEW new \in Block, blocks' = Append(blocks, new) PROVE blocks'[1] = blocks[1]
      BY <2>1, <3>2
    <3>3. ASSUME Len(frames) = 1 PROVE NewBlock(Head(Top.list).name) \in Block
      <4>1. Top.list \in Seq(Decl) /\ Top.list # << >>
        BY <2>7, TopType DEF ReadFunc, OpenFunc, TablesInv, Typed, Frame
      <4>2. Head(Top.list).name \in Name
        <5>1. Head(Top.list) \in Decl
          BY <4>1
        <5> QED BY <5>1 DEF Decl
      <4>3. << >> \in Seq(Name)
        OBVIOUS
      <4> QED BY <4>2, <4>3 DEF NewBlock, Block
    <3> QED BY <2>7, <3>1, <3>2, <3>3 DEF ReadFunc
  <2>8. ASSUME ReadOther PROVE blocks'[1].params = blocks[1].params
    BY <2>8 DEF ReadOther
  <2>9. blocks'[1].params = blocks[1].params
    BY <1>2, <2>4, <2>5, <2>6, <2>7, <2>8 DEF Validate
  <2> QED BY <2>3, <2>9 DEF MainInv
<1> QED BY <1>1, <1>2

LEMMA InitMain == ASSUME NamesInit PROVE MainInv
BY DEF NamesInit, MainInv, NewBlock, Init, NewFrame

-----------------------------------------------------------------------------
(* What the translator finds                                               *)

LEMMA NameOfPlace ==
  ASSUME Typed, NEW n, NEW p \in Lookup(n)
  PROVE  Sym(p).name = n /\ p \in Place
<1>1. PICK i \in FirstSlot(n) : \E j \in local_lookup(stack[i], n) : p = <<stack[i], j>>
  BY DEF Lookup
<1>2. PICK j \in local_lookup(stack[i], n) : p = <<stack[i], j>>
  BY <1>1
<1>3. tables[stack[i]][j].name = n
  BY <1>2 DEF local_lookup
<1> QED BY <1>2, <1>3, LookupPlace DEF Sym

\* No name of a program is that of the base type.
LEMMA NotBase ==
  ASSUME Typed, ProgramInv, NEW n \in Name, NEW p \in Lookup(n)
  PROVE  p # <<1, 1>>
<1>1. Sym(p).name = n /\ tables[1][1].name = BaseType
  BY NameOfPlace DEF ProgramInv
<1> QED BY <1>1, BaseTypeAssumption DEF Sym

LEMMA FoundAt ==
  ASSUME Typed, NEW n, NEW x \in FirstSlot(n)
  PROVE  \E p \in Lookup(n) : p[1] = stack[x]
<1>1. PICK j \in local_lookup(stack[x], n) : TRUE
  BY DEF FirstSlot
<1>2. <<stack[x], j>> \in Lookup(n)
  BY <1>1 DEF Lookup
<1> QED BY <1>2

LEMMA FoundGlobal ==
  ASSUME Typed, ProgramInv, NEW n, Declares(1, n)
  PROVE  Lookup(n) # {}
<1>1. PICK i \in Slot : stack[i] = 1
  BY DEF ProgramInv
<1>2. PICK x \in FirstSlot(n) : TRUE
  BY <1>1, FirstSlotFound DEF ProgramInv
<1> QED BY <1>2, FoundAt

LEMMA FoundLocal ==
  ASSUME TablesInv, Fits, NEW t \in Tab, t # 1, NEW n, Declares(t, n)
  PROVE  \E p \in Lookup(n) : p[1] # 1
<1>1. Typed /\ ScopeInv /\ OwnInv /\ Len(tables) <= MAXSCOPE
  BY DEF TablesInv, Fits
<1>2. PICK i \in Slot : stack[i] = t /\ (t # 1 => i + 1 < Len(tables))
  BY <1>1, TableSlot DEF ScopeInv
<1>3. PICK x \in FirstSlot(n) : x <= i /\ stack[x] \in Tab
  BY <1>1, <1>2, FirstSlotFound
<1>4. stack[x] # 1
  <2>1. i + 1 < Len(tables) /\ Len(tables) \in Nat
    BY <1>1, <1>2 DEF Typed, TypeOK
  <2>2. x \in Slot /\ x \in Nat /\ i \in Nat
    BY DEF FirstSlot, Slot
  <2>3. x + 1 < Len(tables) /\ x + 2 # 1
    BY <1>3, <2>1, <2>2
  <2> QED BY <1>1, <2>2, <2>3 DEF ScopeInv, GlobalScopeLast
<1>5. PICK p \in Lookup(n) : p[1] = stack[x]
  BY <1>1, <1>3, FoundAt
<1> QED BY <1>4, <1>5

\* What is known of an accepted program and of the translator's place in it.
ProgramKnown ==
  /\ NamesInv /\ TablesInv /\ NamesTyped
  /\ TreeInv /\ ProgramInv /\ MainInv

LEMMA InitKnown == ASSUME NamesInit PROVE ProgramKnown
BY InitNames, InitTables, InitNamesTyped, InitProgram, InitMain DEF ProgramKnown

LEMMA NextKnown ==
  ASSUME ProgramKnown, [NamesNext]_nvars
  PROVE  ProgramKnown'
<1>1. BlocksOK
  BY DEF ProgramKnown, NamesTyped
<1> QED BY <1>1, NextNames, NextTables, NextNamesTyped, NextTree, NextProgram, NextMain
        DEF ProgramKnown

\* The names of the program's blocks while it is translated.
LEMMA BlockNames ==
  ASSUME ProgramKnown, status = "accepted"
  PROVE  /\ GlobalFirst /\ GlobalsHeld /\ LocalsHeld
         /\ blocks \in Seq(Block) /\ current \in 1 .. Len(blocks) /\ Len(blocks) \in Nat
         /\ \A k \in 1 .. Len(blocks) : blocks[k] \in Block /\ Declared(blocks[k]) \subseteq Name
         /\ \A k \in 2 .. Len(blocks) : /\ blocks[k].name \in Name
                                        /\ blocks[k].name \notin Declared(blocks[1])
                                        /\ Lookup(blocks[k].name) # {}
<1>1. Accepting
  BY DEF ProgramKnown, ProgramInv, Accepting
<1>2. GlobalFirst /\ GlobalsHeld /\ LocalsHeld
  BY <1>1 DEF ProgramKnown, TreeInv
<1>3. /\ blocks \in Seq(Block) /\ Len(blocks) \in Nat /\ DOMAIN blocks = 1 .. Len(blocks)
      /\ current \in 1 .. Len(blocks)
  BY DEF ProgramKnown, NamesTyped, NamesTypeOK, BlocksOK
<1>4. \A k \in 1 .. Len(blocks) : blocks[k] \in Block
  BY <1>3
<1>5. \A b \in Block : Declared(b) \subseteq Name
  <2> SUFFICES ASSUME NEW b \in Block PROVE Set(b.params) \subseteq Name /\ b.vars \subseteq Name
    BY DEF Declared
  <2>1. b.params \in Seq(Name) /\ b.vars \subseteq Name
    BY DEF Block
  <2> QED BY <2>1 DEF Set
<1>6. ASSUME NEW k \in 2 .. Len(blocks)
      PROVE  /\ blocks[k].name \in Name
             /\ blocks[k].name \notin Declared(blocks[1])
             /\ Lookup(blocks[k].name) # {}
  <2>1. blocks[k].name \in Headed
    BY DEF Headed
  <2>2. Declares(1, blocks[k].name) /\ blocks[k].name \notin Declared(blocks[1])
    BY <1>2, <2>1 DEF GlobalsHeld
  <2>3. Typed /\ ProgramInv
    BY DEF ProgramKnown, TablesInv
  <2> QED BY <2>2, <2>3, FoundGlobal DEF ProgramInv
<1> QED BY <1>2, <1>3, <1>4, <1>5, <1>6

\* A statement prints a name's symbol; other steps print nothing, or nothing more.
LEMMA PrintedSteps ==
  ASSUME NamesInv, [NamesNext]_nvars
  PROVE  \/ printed' = {}
         \/ UNCHANGED nvars
         \/ /\ Translating("body")
            /\ UNCHANGED <<vars, blocks, current, local, sized, fpsym, text>>
            /\ \E n \in Name, what \in {"variable", "call"} : printed' = Reference(what, n)
<1>1. ASSUME NEW n \in Name, UseVariable(n) \/ CallFunction(n)
      PROVE  /\ Translating("body")
             /\ UNCHANGED <<vars, blocks, current, local, sized, fpsym, text>>
             /\ \E what \in {"variable", "call"} : printed' = Reference(what, n)
  BY <1>1 DEF UseVariable, CallFunction, Statement
<1>2. CASE EndBody
  BY <1>2 DEF EndBody, EndBodyClearing
<1>3. CASE Stopped \/ UNCHANGED nvars
  BY <1>3 DEF Stopped
<1>4. ASSUME UNCHANGED printed, at \notin {"body", "crashed"} PROVE printed' = {}
  BY <1>4 DEF NamesInv, PassesInOrder
<1>5. CASE Validate
  BY <1>4, <1>5, ValidateRuns DEF NamesInv, PassesInOrder, Validate, tvars
<1>6. CASE DeclareGlobals \/ DefineFunction \/ Allocate \/ EndProgram
  BY <1>4, <1>6 DEF DeclareGlobals, DeclareMain, DefineFunction, DefineSizing,
                    Allocate, AllocateAsLocal, EndProgram, Translating
<1> QED BY <1>1, <1>2, <1>3, <1>5, <1>6 DEF NamesNext, Walk

-----------------------------------------------------------------------------
(* The main program's variables                                            *)

\* What the main program has declared in the output.
GlobalsWritten ==
  /\ text = [globals |-> text.globals, allocas |-> text.allocas]
  /\ at # "globals" => text.globals = Found(blocks[1].vars)

LEMMA InitWritten == ASSUME NamesInit PROVE GlobalsWritten
BY DEF NamesInit, GlobalsWritten

LEMMA NextWritten ==
  ASSUME ProgramKnown, GlobalsWritten, [NamesNext]_nvars
  PROVE  GlobalsWritten'
<1>1. text = [globals |-> text.globals, allocas |-> text.allocas]
  BY DEF GlobalsWritten
<1>2. \A X : /\ [text EXCEPT !.globals = X] = [globals |-> X, allocas |-> text.allocas]
             /\ [text EXCEPT !.allocas = X] = [globals |-> text.globals, allocas |-> X]
  BY <1>1
<1>3. CASE Validate
  <2>1. at' = "globals" /\ UNCHANGED text
    BY <1>3, ValidateRuns DEF ProgramKnown, NamesInv, PassesInOrder, Validate, tvars
  <2> QED BY <1>1, <2>1 DEF GlobalsWritten
<1>4. CASE ~Validate
  <2>1. UNCHANGED blocks /\ Found(blocks[1].vars)' = Found(blocks[1].vars)
    BY <1>4, TranslateSteps, SameSymbols
  <2>2. CASE DeclareGlobals
    <3>1. text' = [globals |-> Found(blocks[1].vars), allocas |-> text.allocas]
      BY <1>2, <2>2 DEF DeclareGlobals, DeclareMain
    <3> QED BY <2>1, <3>1 DEF GlobalsWritten
  <2>3. ASSUME at # "globals" \/ UNCHANGED at,
               UNCHANGED text \/ \E X : text' = [text EXCEPT !.allocas = X]
        PROVE  GlobalsWritten'
    <3>1. text' = [globals |-> text.globals, allocas |-> text'.allocas]
      <4>1. CASE UNCHANGED text
        BY <1>1, <4>1
      <4>2. ASSUME NEW X, text' = [text EXCEPT !.allocas = X]
            PROVE  text' = [globals |-> text.globals, allocas |-> text'.allocas]
        BY <1>2, <4>2
      <4> QED BY <2>3, <4>1, <4>2
    <3>2. text'.globals = text.globals
      BY <3>1
    <3> QED BY <2>1, <2>3, <3>1, <3>2 DEF GlobalsWritten
  <2>4. ASSUME NEW n \in Name, UseVariable(n) \/ CallFunction(n) PROVE GlobalsWritten'
    BY <2>3, <2>4 DEF UseVariable, CallFunction, Statement, Translating
  <2>5. CASE EndBody
    BY <2>3, <2>5 DEF EndBody, EndBodyClearing, Translating
  <2>6. CASE DefineFunction \/ EndProgram
    BY <2>3, <2>6 DEF DefineFunction, DefineSizing, EndProgram, Translating
  <2>7. CASE Allocate
    BY <2>3, <2>7 DEF Allocate, AllocateAsLocal, Translating
  <2>8. CASE Stopped \/ UNCHANGED nvars
    BY <2>3, <2>8 DEF Stopped, nvars, tvars
  <2> QED BY <1>4, <2>2, <2>4, <2>5, <2>6, <2>7, <2>8 DEF NamesNext, Walk
<1> QED BY <1>3, <1>4

\* A global of the main program is no local when no function declares its name.
LEMMA GlobalNotLocal ==
  ASSUME ProgramKnown, Translating("body"), Fits,
         NEW n \in blocks[1].vars, NEW p \in Lookup(n), p[1] = 1
  PROVE  p \notin local
<1>1. Typed /\ TablesInv /\ current \in Nat
  BY DEF ProgramKnown, TablesInv, NamesInv, PassesInOrder
<1>2. n \in Declared(blocks[1])
  BY DEF Declared
<1>3. ASSUME NEW m, p \in Lookup(m) PROVE m = n
  <2>1. Sym(p).name = m
    BY <1>1, <1>3, NameOfPlace
  <2>2. Sym(p).name = n
    BY <1>1, NameOfPlace
  <2> QED BY <2>1, <2>2
<1>4. /\ LocalsHeld /\ current \in 1 .. Len(blocks) /\ Len(blocks) \in Nat
      /\ \A k \in 2 .. Len(blocks) : blocks[k].name \notin Declared(blocks[1])
  BY BlockNames DEF Translating
<1>5. p \notin FunctionSymbols
  <2> SUFFICES ASSUME NEW k \in 2 .. current, p \in Lookup(blocks[k].name) PROVE FALSE
    BY DEF FunctionSymbols, LookupAll
  <2>1. k \in 2 .. Len(blocks)
    BY <1>4
  <2> QED BY <1>2, <1>3, <1>4, <2>1
<1>6. ASSUME current # 1 PROVE p \notin LookupAll(Declared(blocks[current]))
  <2> SUFFICES ASSUME NEW m \in Declared(blocks[current]), p \in Lookup(m) PROVE FALSE
    BY DEF LookupAll
  <2>1. current \in 2 .. Len(blocks) /\ m = n
    BY <1>3, <1>4, <1>6
  <2>2. PICK t \in Tab : t # 1 /\ Declares(t, n)
    BY <1>4, <2>1 DEF LocalsHeld
  <2>3. PICK q \in Lookup(n) : q[1] # 1
    BY <1>1, <2>2, FoundLocal
  <2>4. p = q
    BY <1>1, LookupUnique
  <2> QED BY <2>3, <2>4
<1> QED BY <1>5, <1>6 DEF ProgramKnown, NamesInv, ScopesBalanced, Translating

LEMMA NextGlobals ==
  ASSUME ProgramKnown, GlobalsWritten, GlobalsDeclared, [NamesNext]_nvars
  PROVE  GlobalsDeclared'
<1>1. CASE printed' = {}
  BY <1>1 DEF GlobalsDeclared
<1>2. CASE UNCHANGED nvars
  <2>1. UNCHANGED <<printed, blocks, text, tables>>
    BY <1>2 DEF nvars, tvars, vars
  <2> QED BY <2>1 DEF GlobalsDeclared, Fits
<1>3. CASE /\ Translating("body")
           /\ UNCHANGED <<vars, blocks, current, local, sized, fpsym, text>>
           /\ \E n \in Name, what \in {"variable", "call"} : printed' = Reference(what, n)
  <2>1. UNCHANGED <<blocks, text, tables>>
    BY <1>3 DEF vars
  <2> SUFFICES ASSUME NEW u \in printed', Fits, u.name \in blocks[1].vars, u.sym[1] = 1
               PROVE  u.prefix = "@" /\ u.name \in text.globals
    BY <2>1 DEF GlobalsDeclared, Fits
  <2>2. PICK n \in Name, what \in {"variable", "call"} : u \in Reference(what, n)
    BY <1>3
  <2>3. PICK p \in Lookup(n) : /\ u.name = n /\ u.sym = p
                               /\ u.prefix = IF p \in local THEN "%" ELSE "@"
    BY <2>2 DEF Reference
  <2>4. p \notin local
    BY <1>3, <2>3, GlobalNotLocal
  <2>5. n \in Found(blocks[1].vars)
    BY <2>3 DEF Found
  <2> QED BY <1>3, <2>3, <2>4, <2>5 DEF GlobalsWritten, Translating
<1> QED BY <1>1, <1>2, <1>3, PrintedSteps DEF ProgramKnown

\* Where a name means a variable of the main program, the translator prints the
\* global that it has declared, whatever the functions and their variables are
\* called: codegen_funcdecl leaves no scope behind in a symbol of table 1 but
\* those of the functions, whose names are no variable's.
THEOREM GlobalsPrinted == NamesSpec => []GlobalsDeclared
<1> DEFINE Inv == ProgramKnown /\ GlobalsWritten /\ GlobalsDeclared
<1>1. NamesInit => Inv
  <2>1. NamesInit => GlobalsDeclared
    BY DEF NamesInit, GlobalsDeclared
  <2> QED BY <2>1, InitKnown, InitWritten
<1>2. Inv /\ [NamesNext]_nvars => Inv'
  BY NextKnown, NextWritten, NextGlobals
<1>3. Inv => GlobalsDeclared
  OBVIOUS
<1> QED BY <1>1, <1>2, <1>3, PTL DEF NamesSpec

-----------------------------------------------------------------------------
(* Types of symbols                                                        *)

\* Symbols to which set_var_size gives a type, and names whose symbols have it.
Sizable(p) == Sym(p).kind # "type" /\ ~Sym(p).named

Sized(names) == \A n \in names : \A p \in Lookup(n) : Sizable(p) => p \in sized

BlockSized(k) == Sized(Declared(blocks[k])) /\ (k > 1 => Sized({blocks[k].name}))

HeaderSized(k) == Sized(Set(blocks[k].params)) /\ Sized({blocks[k].name})

\* The blocks that have been begun have the types of all that they declare, the
\* function whose variables come next those of its header.
SizedInv ==
  /\ at \in {"next", "body", "done"} => \A k \in 1 .. current : BlockSized(k)
  /\ at = "allocate" =>
       /\ \A k \in 1 .. current : k < current => BlockSized(k)
       /\ HeaderSized(current)

\* A type that is set once stays, and those of `syms` are set.
LEMMA SizeSets ==
  ASSUME NEW syms, sized' \in set_var_size(syms), NEW p, Sizable(p),
         p \in syms \/ p \in sized
  PROVE  p \in sized'
BY DEF set_var_size, Sizable

LEMMA SameSizable ==
  ASSUME UNCHANGED vars
  PROVE  \A p : Sizable(p)' <=> Sizable(p)
BY DEF Sizable, Sym, vars

LEMMA SizedKept ==
  ASSUME UNCHANGED <<vars, blocks>>, UNCHANGED sized \/ \E syms : sized' \in set_var_size(syms),
         NEW k
  PROVE  /\ BlockSized(k) => BlockSized(k)'
         /\ HeaderSized(k) => HeaderSized(k)'
<1>1. \A n : Lookup(n)' = Lookup(n)
  BY SameSymbols
<1>2. \A p : Sizable(p)' <=> Sizable(p)
  BY SameSizable
<1>3. \A p : Sizable(p) /\ p \in sized => p \in sized'
  BY SizeSets
<1>4. ASSUME NEW A, Sized(A) PROVE \A n \in A : \A p \in Lookup(n)' : Sizable(p)' => p \in sized'
  BY <1>1, <1>2, <1>3, <1>4 DEF Sized
<1>5. /\ Declared(blocks[k])' = Declared(blocks[k]) /\ Set(blocks[k].params)' = Set(blocks[k].params)
      /\ blocks' = blocks
  BY DEF Declared, Set
<1> QED BY <1>4, <1>5 DEF BlockSized, HeaderSized, Sized

\* The names whose symbols are given to set_var_size have their types then.
LEMMA SizedNow ==
  ASSUME UNCHANGED vars, NEW B, sized' \in set_var_size(LookupAll(B))
  PROVE  \A n \in B : \A p \in Lookup(n)' : Sizable(p)' => p \in sized'
<1>1. \A n : Lookup(n)' = Lookup(n)
  BY SameSymbols
<1>2. \A p : Sizable(p)' <=> Sizable(p)
  BY SameSizable
<1>3. \A n \in B : \A p \in Lookup(n) : p \in LookupAll(B)
  BY DEF LookupAll
<1> QED BY <1>1, <1>2, <1>3, SizeSets

LEMMA InitSized == ASSUME NamesInit PROVE SizedInv
BY DEF NamesInit, SizedInv

\* A function's name is found, so that no function is left out.
LEMMA DefineSteps ==
  ASSUME ProgramKnown, DefineFunction
  PROVE  /\ current \in 1 .. Len(blocks) /\ current + 1 \in 2 .. Len(blocks)
         /\ current' = current + 1 /\ at' \in {"allocate", "crashed"}
         /\ sized' \in set_var_size(LookupAll(HeaderNames))
         /\ fpsym' = IF Following.params = << >> THEN fpsym
                     ELSE [set |-> TRUE, sym |-> Lookup(Following.params[Len(Following.params)])]
         /\ at' = "crashed" => Misread(LookupAll(HeaderNames))
         /\ UNCHANGED <<vars, blocks, text, printed>>
<1>1. Translating("next") /\ current < Len(blocks)
  BY DEF DefineFunction, DefineSizing
<1>2. /\ current \in 1 .. Len(blocks) /\ Len(blocks) \in Nat
      /\ \A k \in 2 .. Len(blocks) : Lookup(blocks[k].name) # {}
  BY <1>1, BlockNames DEF Translating
<1>3. current + 1 \in 2 .. Len(blocks)
  BY <1>1, <1>2
<1>4. Lookup(Following.name) # {}
  BY <1>2, <1>3 DEF Following
<1> QED BY <1>2, <1>3, <1>4 DEF DefineFunction, DefineSizing, GoesTo

LEMMA NextSized ==
  ASSUME ProgramKnown, SizedInv, [NamesNext]_nvars
  PROVE  SizedInv'
<1>1. CASE Validate
  <2>1. at' = "globals"
    BY <1>1, ValidateRuns DEF ProgramKnown, NamesInv, PassesInOrder, Validate, tvars
  <2> QED BY <2>1 DEF SizedInv
<1>2. current \in Nat \ {0}
  BY DEF ProgramKnown, NamesInv, PassesInOrder
<1>3. ASSUME UNCHANGED <<vars, blocks, current, sized>>,
             \/ at' = "crashed" \/ UNCHANGED at
             \/ at \in {"body", "next"} /\ at' \in {"body", "next", "done"}
      PROVE  SizedInv'
  <2>1. \A k : (BlockSized(k) => BlockSized(k)') /\ (HeaderSized(k) => HeaderSized(k)')
    BY <1>3, SizedKept
  <2>2. PICK c : c = current
    OBVIOUS
  <2>3. HeaderSized(c) => HeaderSized(c)'
    BY <2>1
  <2>4. HeaderSized(current) => HeaderSized(current)'
    BY <1>3, <2>2, <2>3 DEF HeaderSized, Sized, Set
  <2> QED BY <1>3, <2>1, <2>4 DEF SizedInv
<1>4. ASSUME NEW n \in Name, UseVariable(n) \/ CallFunction(n) PROVE SizedInv'
  BY <1>3, <1>4 DEF UseVariable, CallFunction, Statement, Translating, GoesTo
<1>5. CASE EndBody \/ EndProgram
  BY <1>3, <1>5 DEF EndBody, EndBodyClearing, EndProgram, Translating
<1>6. CASE Stopped \/ UNCHANGED nvars
  BY <1>3, <1>6 DEF Stopped, nvars, tvars
<1>7. CASE DeclareGlobals
  <2>1. /\ at' \in {"body", "crashed"} /\ UNCHANGED <<vars, blocks, current>>
        /\ sized' \in set_var_size(LookupAll(blocks[1].vars))
        /\ current = 1
    BY <1>7 DEF DeclareGlobals, DeclareMain, GoesTo, Translating, ProgramKnown, NamesInv,
                ScopesBalanced
  <2>2. Declared(blocks[1]) = blocks[1].vars
    BY DEF Declared, Set, ProgramKnown, MainInv
  <2>3. BlockSized(1)'
    BY <2>1, <2>2, SizedNow DEF BlockSized, Sized, Declared, Set
  <2> QED BY <2>1, <2>3 DEF SizedInv
<1>8. CASE DefineFunction
  <2>1. /\ current' = current + 1 /\ at' \in {"allocate", "crashed"} /\ at = "next"
        /\ UNCHANGED <<vars, blocks>> /\ sized' \in set_var_size(LookupAll(HeaderNames))
    BY <1>8, DefineSteps DEF DefineFunction, DefineSizing, Translating
  <2>2. \A n \in HeaderNames : \A p \in Lookup(n)' : Sizable(p)' => p \in sized'
    BY <2>1, SizedNow
  <2>3. \A k \in 1 .. current : BlockSized(k)'
    BY <2>1, SizedKept DEF SizedInv
  <2>4. HeaderSized(current)'
    BY <2>1, <2>2 DEF HeaderSized, Sized, HeaderNames, Following, Set
  <2>5. \A k \in 1 .. current + 1 : k < current + 1 => k \in 1 .. current
    BY <1>2
  <2> QED BY <2>1, <2>3, <2>4, <2>5 DEF SizedInv
<1>9. CASE Allocate
  <2>1. /\ at' \in {"body", "crashed"} /\ at = "allocate" /\ UNCHANGED <<vars, blocks, current>>
        /\ sized' \in set_var_size(LookupAll(blocks[current].vars))
    BY <1>9 DEF Allocate, AllocateAsLocal, GoesTo, Translating
  <2>2. \A n \in blocks[current].vars : \A p \in Lookup(n)' : Sizable(p)' => p \in sized'
    BY <2>1, SizedNow
  <2>3. \A k \in 1 .. current : k < current => BlockSized(k)'
    BY <2>1, SizedKept DEF SizedInv
  <2>4. PICK c : c = current
    OBVIOUS
  <2>5. HeaderSized(c)'
    BY <2>1, <2>4, SizedKept DEF SizedInv
  <2>6. BlockSized(c)'
    BY <2>1, <2>2, <2>4, <2>5 DEF BlockSized, HeaderSized, Sized, Declared
  <2>7. \A k \in 1 .. current : k < current \/ k = current
    BY <1>2
  <2> QED BY <2>1, <2>3, <2>4, <2>6, <2>7 DEF SizedInv
<1> QED BY <1>1, <1>4, <1>5, <1>6, <1>7, <1>8, <1>9 DEF NamesNext, Walk

LEMMA NextTypedOnce ==
  ASSUME ProgramKnown, SizedInv, TypedOnceDeclared, [NamesNext]_nvars
  PROVE  TypedOnceDeclared'
<1>1. CASE printed' = {}
  BY <1>1 DEF TypedOnceDeclared
<1>2. CASE UNCHANGED nvars
  <2>1. UNCHANGED <<printed, blocks, current, tables>>
    BY <1>2 DEF nvars, tvars, vars
  <2> QED BY <2>1 DEF TypedOnceDeclared, Sym, Declared, Set
<1>3. CASE /\ Translating("body")
           /\ UNCHANGED <<vars, blocks, current, local, sized, fpsym, text>>
           /\ \E n \in Name, what \in {"variable", "call"} : printed' = Reference(what, n)
  <2>1. UNCHANGED <<blocks, current, tables>>
    BY <1>3 DEF vars
  <2> SUFFICES ASSUME NEW u \in printed', ~u.typed, Sizable(u.sym), NEW k \in 1 .. current
               PROVE  u.name \notin {blocks[k].name} \cup Declared(blocks[k])
    BY <2>1 DEF TypedOnceDeclared, Sizable, Sym, Declared, Set
  <2>2. PICK n \in Name, what \in {"variable", "call"} : u \in Reference(what, n)
    BY <1>3
  <2>3. PICK p \in Lookup(n) : u.name = n /\ u.sym = p /\ u.typed = (p \in sized)
    BY <2>2 DEF Reference
  <2>4. BlockSized(k)
    BY <1>3 DEF SizedInv, Translating
  <2>5. n \notin Declared(blocks[k])
    BY <2>3, <2>4 DEF BlockSized, Sized
  <2>6. n # blocks[k].name
    <3>1. CASE k = 1
      BY <3>1, NoNameAssumption DEF ProgramKnown, ProgramInv
    <3>2. CASE k > 1
      BY <2>3, <2>4, <3>2 DEF BlockSized, Sized
    <3>3. k = 1 \/ k > 1
      OBVIOUS
    <3> QED BY <3>1, <3>2, <3>3
  <2> QED BY <2>3, <2>5, <2>6
<1> QED BY <1>1, <1>2, <1>3, PrintedSteps DEF ProgramKnown

\* A variable, parameter or function that the program has declared before the
\* statement that uses it is printed with its type, not as void: set_var_size
\* has been there, and what it sets in one block it does not take back in the
\* next.
THEOREM TypesPrinted == NamesSpec => []TypedOnceDeclared
<1> DEFINE Inv == ProgramKnown /\ SizedInv /\ TypedOnceDeclared
<1>1. NamesInit => Inv
  <2>1. NamesInit => TypedOnceDeclared
    BY DEF NamesInit, TypedOnceDeclared
  <2> QED BY <2>1, InitKnown, InitSized
<1>2. Inv /\ [NamesNext]_nvars => Inv'
  BY NextKnown, NextSized, NextTypedOnce
<1>3. Inv => TypedOnceDeclared
  OBVIOUS
<1> QED BY <1>1, <1>2, <1>3, PTL DEF NamesSpec

-----------------------------------------------------------------------------
(* Where the translator may end early                                      *)

\* What stops the translator between two statements.
Hindered ==
  \/ ~Fits
  \/ \E p \in DeclaredNow : Typeless(p)
  \/ at = "allocate" /\ \A k \in 2 .. current : blocks[k].params = << >>

\* fpsym holds the last parameter of a function translated before, if there was
\* one.
FpsymInv ==
  /\ fpsym.set => \E k \in 2 .. current :
                    /\ blocks[k].params # << >>
                    /\ fpsym.sym = Lookup(blocks[k].params[Len(blocks[k].params)])
  /\ ~fpsym.set => \A k \in 2 .. current : blocks[k].params = << >>

LEMMA InitFpsym == ASSUME NamesInit PROVE FpsymInv
<1>1. 2 .. current = {} /\ ~fpsym.set
  BY DEF NamesInit
<1> QED BY <1>1 DEF FpsymInv

LEMMA FpsymKept ==
  ASSUME FpsymInv, UNCHANGED <<vars, blocks, current, fpsym>>
  PROVE  FpsymInv'
<1>1. \A n : Lookup(n)' = Lookup(n)
  BY SameSymbols
<1> QED BY <1>1 DEF FpsymInv

LEMMA NextFpsym ==
  ASSUME ProgramKnown, FpsymInv, [NamesNext]_nvars
  PROVE  FpsymInv'
<1>1. CASE Validate
  <2>1. current' = 1 /\ fpsym'.set = FALSE
    BY <1>1, ValidateRuns DEF ProgramKnown, NamesInv, PassesInOrder, ScopesBalanced, NamesTyped,
                              Validate, tvars
  <2>2. 2 .. current' = {}
    BY <2>1
  <2> QED BY <2>1, <2>2 DEF FpsymInv
<1>2. CASE DefineFunction
  <2>1. /\ current \in 1 .. Len(blocks) /\ current' = current + 1
        /\ UNCHANGED <<vars, blocks>> /\ Following = blocks[current + 1]
        /\ fpsym' = IF Following.params = << >> THEN fpsym
                    ELSE [set |-> TRUE, sym |-> Lookup(Following.params[Len(Following.params)])]
    BY <1>2, DefineSteps DEF Following
  <2>2. \A n : Lookup(n)' = Lookup(n)
    BY <2>1, SameSymbols
  <2>3. /\ \A k \in 2 .. current : k \in 2 .. current'
        /\ \A k \in 2 .. current' : k \in 2 .. current \/ k = current + 1
        /\ current + 1 \in 2 .. current'
    BY <2>1
  <2>4. CASE Following.params = << >>
    BY <2>1, <2>2, <2>3, <2>4 DEF FpsymInv
  <2>5. CASE Following.params # << >>
    <3>1. fpsym'.set = TRUE /\ fpsym'.sym = Lookup(Following.params[Len(Following.params)])
      BY <2>1, <2>5
    <3> QED BY <2>1, <2>2, <2>3, <2>5, <3>1 DEF FpsymInv
  <2> QED BY <2>4, <2>5
<1>3. ASSUME NEW n \in Name, UseVariable(n) \/ CallFunction(n) PROVE FpsymInv'
  BY <1>3, FpsymKept DEF UseVariable, CallFunction, Statement
<1>4. CASE DeclareGlobals \/ EndBody \/ Allocate \/ EndProgram
  BY <1>4, FpsymKept DEF DeclareGlobals, DeclareMain, EndBody, EndBodyClearing, Allocate,
                         AllocateAsLocal, EndProgram
<1>5. CASE Stopped \/ UNCHANGED nvars
  BY <1>5, FpsymKept DEF Stopped, nvars, tvars
<1> QED BY <1>1, <1>2, <1>3, <1>4, <1>5 DEF NamesNext, Walk

\* A symbol without type, or one that is misread, hinders the translator.
LEMMA Unsized ==
  ASSUME NEW p \in DeclaredNow, ~Sizable(p)
  PROVE  Hindered
BY DEF Hindered, Sizable, Typeless

LEMMA AllocateCrash ==
  ASSUME ProgramKnown, SizedInv, FpsymInv, Allocate, at' = "crashed"
  PROVE  Hindered
<1> DEFINE f == blocks[current]
<1>1. /\ at = "allocate" /\ status = "accepted" /\ UNCHANGED <<vars, blocks>>
      /\ sized' \in set_var_size(LookupAll(f.vars))
      /\ \/ fpsym.set /\ fpsym.sym = {}
         \/ ~fpsym.set
         \/ Misread(LookupAll(f.vars))
         \/ Unaligned(LookupAll(Declared(f)) \cup fpsym.sym)
  BY DEF Allocate, AllocateAsLocal, GoesTo, Translating
<1>2. /\ LocalsHeld /\ current \in 1 .. Len(blocks) /\ Len(blocks) \in Nat
      /\ \A k \in 1 .. Len(blocks) : blocks[k] \in Block /\ Declared(blocks[k]) \subseteq Name
  BY <1>1, BlockNames
<1>3. /\ \A k \in 1 .. current : k < current => BlockSized(k)
      /\ HeaderSized(current)
  BY <1>1 DEF SizedInv
<1>4. Declared(f) \in SUBSET Name /\ f.vars \in SUBSET Name /\ f.vars \subseteq Declared(f)
  BY <1>2 DEF Declared
<1>0. DeclaredNow = LookupAll(Declared(f)) \cup fpsym.sym /\ LookupAll(f.vars) \subseteq DeclaredNow
  <2>1. DeclaredNow = LookupAll(Declared(f)) \cup fpsym.sym
    BY <1>1 DEF DeclaredNow
  <2>2. LookupAll(f.vars) \subseteq LookupAll(Declared(f))
    BY DEF Declared, LookupAll
  <2> QED BY <2>1, <2>2
<1>5. CASE ~fpsym.set
  BY <1>1, <1>5 DEF FpsymInv, Hindered
<1>6. CASE Misread(LookupAll(f.vars))
  BY <1>0, <1>6, Unsized DEF Misread, Sizable
<1>7. ASSUME NEW p \in LookupAll(Declared(f)), p \notin sized'
      PROVE  Hindered
  <2>1. CASE ~Sizable(p)
    BY <1>0, <1>7, <2>1, Unsized
  <2>2. CASE Sizable(p)
    <3>1. PICK n \in Declared(f) : p \in Lookup(n)
      BY <1>7 DEF LookupAll
    <3>2. CASE n \in Set(f.params)
      BY <1>1, <1>3, <1>7, <2>2, <3>1, <3>2, SizeSets DEF HeaderSized, Sized
    <3>3. CASE n \in f.vars
      <4>1. p \in LookupAll(f.vars)
        BY <3>1, <3>3 DEF LookupAll
      <4> QED BY <1>1, <1>7, <2>2, <4>1, SizeSets
    <3> QED BY <3>1, <3>2, <3>3 DEF Declared
  <2> QED BY <2>1, <2>2
<1>8. ASSUME fpsym.set
      PROVE  \E k \in 2 .. current : \E n \in Set(blocks[k].params) : fpsym.sym = Lookup(n)
  <2>1. PICK k \in 2 .. current : /\ blocks[k].params # << >>
                                  /\ fpsym.sym = Lookup(blocks[k].params[Len(blocks[k].params)])
    BY <1>8 DEF FpsymInv
  <2>2. blocks[k].params \in Seq(Name)
    BY <1>2 DEF Block
  <2>3. Len(blocks[k].params) \in DOMAIN blocks[k].params
    BY <2>1, <2>2
  <2> QED BY <2>1, <2>3 DEF Set
<1>9. CASE fpsym.set /\ fpsym.sym = {}
  <2>1. PICK k \in 2 .. current, n \in Name : n \in Declared(blocks[k]) /\ fpsym.sym = Lookup(n)
    BY <1>2, <1>8, <1>9 DEF Declared
  <2>2. CASE Fits
    <3>1. PICK t \in Tab : t # 1 /\ Declares(t, n)
      <4>1. k \in 2 .. Len(blocks) /\ n \in Declared(blocks[k])
        BY <1>2, <2>1
      <4> QED BY <1>2, <2>2, <4>1 DEF LocalsHeld
    <3>2. Lookup(n) # {}
      BY <2>2, <3>1, FoundLocal DEF ProgramKnown
    <3> QED BY <1>9, <2>1, <3>2
  <2> QED BY <2>2 DEF Hindered
<1>10. ASSUME fpsym.set, NEW p \in fpsym.sym, p \notin sized'
       PROVE  Hindered
  <2>1. PICK k \in 2 .. current : \E n \in Set(blocks[k].params) : fpsym.sym = Lookup(n)
    BY <1>8, <1>10
  <2>2. PICK n \in Set(blocks[k].params) : fpsym.sym = Lookup(n)
    BY <2>1
  <2>3. n \in Declared(blocks[k]) /\ k \in 1 .. Len(blocks) /\ k \in 1 .. current
    BY <1>2, <2>2 DEF Declared
  <2>4. CASE ~Sizable(p)
    BY <1>0, <1>10, <2>4, Unsized
  <2>5. CASE Sizable(p)
    <3>1. p \in sized
      <4>1. CASE k < current
        BY <1>3, <1>10, <2>2, <2>3, <2>5, <4>1 DEF BlockSized, Sized
      <4>2. CASE k = current
        BY <1>3, <1>10, <2>2, <2>5, <4>2 DEF HeaderSized, Sized
      <4>3. k < current \/ k = current
        BY <1>2
      <4> QED BY <4>1, <4>2, <4>3
    <3> QED BY <1>1, <1>10, <2>5, <3>1, SizeSets
  <2> QED BY <2>4, <2>5
<1> QED BY <1>1, <1>5, <1>6, <1>7, <1>9, <1>10 DEF Unaligned

LEMMA NextTranslated ==
  ASSUME ProgramKnown, SizedInv, FpsymInv, [NamesNext]_nvars,
         at' = "crashed", at \in {"globals", "next", "allocate"}
  PROVE  Hindered
<1>1. CASE DeclareGlobals
  <2> DEFINE B == LookupAll(blocks[1].vars)
  <2>0. at = "globals"
    BY <1>1 DEF DeclareGlobals, DeclareMain, Translating
  <2>1. sized' \in set_var_size(B) /\ (Misread(B) \/ Unaligned(B)) /\ DeclaredNow = B
    <3>1. DeclaredNow = B
      BY <2>0 DEF DeclaredNow
    <3> QED BY <1>1, <3>1 DEF DeclareGlobals, DeclareMain, GoesTo, Translating
  <2>2. PICK p \in B : ~Sizable(p)
    BY <2>1, SizeSets DEF Misread, Unaligned, Sizable
  <2> QED BY <2>1, <2>2, Unsized
<1>2. CASE DefineFunction
  <2>0. at = "next"
    BY <1>2 DEF DefineFunction, DefineSizing, Translating
  <2>1. Misread(LookupAll(HeaderNames)) /\ DeclaredNow = LookupAll(HeaderNames)
    <3>1. DeclaredNow = LookupAll(HeaderNames)
      BY <2>0 DEF DeclaredNow
    <3> QED BY <1>2, <3>1, DefineSteps DEF DefineFunction, DefineSizing
  <2>2. PICK p \in LookupAll(HeaderNames) : ~Sizable(p)
    BY <2>1 DEF Misread, Sizable
  <2> QED BY <2>1, <2>2, Unsized
<1>3. CASE Allocate
  BY <1>3, AllocateCrash
<1>4. CASE EndBody \/ EndProgram
  BY <1>4 DEF EndBody, EndBodyClearing, EndProgram
<1>5. CASE (\E n \in Name : UseVariable(n) \/ CallFunction(n))
  BY <1>5 DEF UseVariable, CallFunction, Statement, Translating
<1>6. CASE Validate \/ Stopped \/ UNCHANGED nvars
  BY <1>6 DEF Validate, Stopped, nvars, tvars
<1> QED BY <1>1, <1>2, <1>3, <1>4, <1>5, <1>6 DEF NamesNext, Walk

\* The translator gets through the declarations of every accepted program: where
\* a step does not, one of the names declared in this step is a type or has an
\* unresolved type, the scopes did not fit, or the allocas of a function come
\* before any parameter.  So no lookup of a declared name fails while the scopes
\* fit, and every alignment printed is that of a type.
THEOREM DeclarationsPass == NamesSpec => DeclarationsTranslated
<1> DEFINE Inv == ProgramKnown /\ SizedInv /\ FpsymInv
<1>1. NamesInit => Inv
  BY InitKnown, InitSized, InitFpsym
<1>2. Inv /\ [NamesNext]_nvars => Inv'
  BY NextKnown, NextSized, NextFpsym
<1>3. Inv /\ [NamesNext]_nvars
        => [at' = "crashed" /\ at \in {"globals", "next", "allocate"} =>
              \/ ~Fits
              \/ \E p \in DeclaredNow : Typeless(p)
              \/ at = "allocate" /\ \A k \in 2 .. current : blocks[k].params = << >>]_nvars
  BY NextTranslated DEF Hindered
<1> QED BY <1>1, <1>2, <1>3, PTL DEF NamesSpec, DeclarationsTranslated

-----------------------------------------------------------------------------
\* Every function of an accepted program gets its header in the text, also when
\* the program has more functions than the stack has slots: its name is in the
\* first table, which no begin_scope takes out of the stack.
THEOREM FunctionsTranslated == NamesSpec => NoFunctionLeftOut
<1>1. ASSUME ProgramKnown, [NamesNext]_nvars
      PROVE  [current' > current => at' # "next"]_nvars
  <2>1. current \in Nat
    BY <1>1 DEF ProgramKnown, NamesInv, PassesInOrder
  <2>2. SUFFICES ASSUME current' > current PROVE at' # "next"
    OBVIOUS
  <2>3. current' # current
    BY <2>1, <2>2
  <2>4. DefineFunction
    BY <1>1, <2>3 DEF NamesNext, Validate, UseVariable, CallFunction, Statement, Walk, DeclareGlobals,
         DeclareMain, EndBody, EndBodyClearing, Allocate, AllocateAsLocal, EndProgram, Stopped,
         nvars, tvars
  <2> QED BY <1>1, <2>4, DefineSteps
<1> QED BY <1>1, InitKnown, NextKnown, PTL DEF NamesSpec, NoFunctionLeftOut

=============================================================================
