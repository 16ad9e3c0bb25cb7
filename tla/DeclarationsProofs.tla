------------------------- MODULE DeclarationsProofs -------------------------
(***************************************************************************)
(* Proofs about Declarations, for every set of names, every MAXSCOPE and   *)
(* every bound.                                                            *)
(***************************************************************************)
EXTENDS Declarations, SequenceTheorems, WellFoundedInduction, TLAPS

-----------------------------------------------------------------------------
(* The operators of Symtab                                                 *)

\* What global_lookup finds is a symbol, what check_ty returns is a value.
LEMMA LookupType ==
  ASSUME TypeOK, NEW t
  PROVE  global_lookup(t) \subseteq Symbol /\ check_ty(t) \subseteq Value
<1>1. ASSUME NEW i \in Slot, NEW j \in local_lookup(stack[i], t)
      PROVE  tables[stack[i]][j] \in Symbol
  <2>1. stack[i] \in Tab
    BY <1>1 DEF TypeOK, local_lookup
  <2>2. tables[stack[i]] \in Seq(Symbol)
    BY <2>1 DEF TypeOK, Tab
  <2>3. stack[i] # NULL
    BY <1>1 DEF local_lookup
  <2>4. j \in DOMAIN tables[stack[i]]
    BY <1>1, <2>3 DEF local_lookup
  <2> QED BY <2>2, <2>4
<1>2. global_lookup(t) \subseteq Symbol
  BY <1>1 DEF global_lookup, FirstSlot
<1>3. check_ty(t) \subseteq Value
  <2>1. ASSUME NEW s \in global_lookup(t)
        PROVE  value(s) \in Value
    <3>1. s \in Symbol
      BY <1>2
    <3> QED BY <3>1 DEF value, Value, Symbol
  <2>2. IntType \in Value
    BY DEF IntType, Value, Kind
  <2> QED BY <2>1, <2>2 DEF check_ty
<1> QED BY <1>2, <1>3

\* An environment entry is a value.
LEMMA EntryOfType ==
  ASSUME NEW kind \in Kind, NEW v \in Value
  PROVE  EntryOf(kind, v) \in Value
BY DEF EntryOf, Value

\* Overwriting values leaves every table its names and owners.
LEMMA SetValueType ==
  ASSUME TypeOK, NEW t \in Tab, NEW n \in Name, NEW v \in Value
  PROVE  /\ set_symvalue(t, n, v) \in Seq(Seq(Symbol))
         /\ Len(set_symvalue(t, n, v)) = Len(tables)
         /\ \A u \in Tab : /\ Len(set_symvalue(t, n, v)[u]) = Len(tables[u])
                           /\ \A j \in DOMAIN tables[u] :
                                /\ set_symvalue(t, n, v)[u][j].name = tables[u][j].name
                                /\ set_symvalue(t, n, v)[u][j].owner = tables[u][j].owner
<1> DEFINE old == tables[t]
           new == [j \in DOMAIN old |-> IF j \in local_lookup(t, n)
                                        THEN new_sym(n, v, old[j].owner) ELSE old[j]]
<1>1. old \in Seq(Symbol) /\ t \in 1 .. Len(tables)
  BY DEF TypeOK, Tab
<1>2. ASSUME NEW j \in DOMAIN old
      PROVE  new_sym(n, v, old[j].owner) \in Symbol
  <2>1. old[j] \in Symbol
    BY <1>1, <1>2
  <2> QED BY <2>1 DEF new_sym, Symbol, Value, TypeName
<1>3. new \in Seq(Symbol) /\ Len(new) = Len(old)
  BY <1>1, <1>2
<1>4. set_symvalue(t, n, v) = [tables EXCEPT ![t] = new]
  BY DEF set_symvalue
<1>5. ASSUME NEW j \in DOMAIN old
      PROVE  new[j].name = old[j].name /\ new[j].owner = old[j].owner
  <2>1. CASE j \in local_lookup(t, n)
    <3>1. old[j].name = n
      BY <2>1 DEF local_lookup
    <3> QED BY <2>1, <3>1 DEF new_sym
  <2>2. CASE j \notin local_lookup(t, n)
    BY <2>2
  <2> QED BY <2>1, <2>2
<1> HIDE DEF new
<1>6. [tables EXCEPT ![t] = new] \in Seq(Seq(Symbol)) /\ Len([tables EXCEPT ![t] = new]) = Len(tables)
  BY <1>1, <1>3 DEF TypeOK
<1>7. \A u \in Tab : [tables EXCEPT ![t] = new][u] = IF u = t THEN new ELSE tables[u]
  BY DEF TypeOK, Tab
<1> QED BY <1>3, <1>4, <1>5, <1>6, <1>7

\* The slot that FreeSlot, or SlotOf, names is unique.
LEMMA SlotUnique ==
  /\ \A i, j \in FreeSlot : i = j
  /\ \A t : \A i, j \in SlotOf(t) : i = j
BY MaxScopeAssumption DEF FreeSlot, SlotOf, Slot

\* begin_scope fills the free slot, if there is one, and the one before it.
LEMMA BeginScope ==
  ASSUME NEW t, NEW S, stack \in [Slot -> S], t \in S
  PROVE  /\ begin_scope(t) \in [Slot -> S]
         /\ \A f \in FreeSlot : begin_scope(t) =
              IF f = 0 THEN [stack EXCEPT ![0] = t]
              ELSE [stack EXCEPT ![f] = stack[f - 1], ![f - 1] = t]
<1>1. CASE FreeSlot = {}
  BY <1>1 DEF begin_scope
<1>2. ASSUME NEW f \in FreeSlot
      PROVE  /\ begin_scope(t) = IF f = 0 THEN [stack EXCEPT ![0] = t]
                                 ELSE [stack EXCEPT ![f] = stack[f - 1], ![f - 1] = t]
             /\ begin_scope(t) \in [Slot -> S]
  <2>1. f \in Slot /\ f = CHOOSE i \in FreeSlot : TRUE
    BY SlotUnique DEF FreeSlot
  <2>2. begin_scope(t) = IF f = 0 THEN [stack EXCEPT ![0] = t]
                         ELSE [stack EXCEPT ![f] = stack[f - 1], ![f - 1] = t]
    BY <2>1 DEF begin_scope
  <2>3. f # 0 => f - 1 \in Slot
    BY <2>1, MaxScopeAssumption DEF Slot
  <2> QED BY <2>1, <2>2, <2>3
<1> QED BY <1>1, <1>2

-----------------------------------------------------------------------------
(* The frames                                                              *)

\* The record of the innermost block.
LEMMA TopType ==
  ASSUME TypeOK
  PROVE  Len(frames) \in Nat \ {0} /\ Top \in Frame /\ DOMAIN frames = 1 .. Len(frames)
BY DEF TypeOK, Top

\* Moving on within a block changes no frame but the innermost, and of that one
\* not the table.
LEMMA GotoFrames ==
  ASSUME TypeOK, NEW phase \in Phase, NEW list \in Seq(Decl), NEW cycle \in BOOLEAN,
         Goto(phase, list, cycle)
  PROVE  /\ frames' \in Seq(Frame) /\ frames' # << >>
         /\ Len(frames') = Len(frames)
         /\ Top'.own = Top.own /\ Top'.phase = phase
         /\ \A k \in DOMAIN frames : frames'[k].own = frames[k].own
         /\ \A k \in DOMAIN frames : k < Len(frames) => frames'[k] = frames[k]
<1> DEFINE new == [Top EXCEPT !.phase = phase, !.list = list, !.cycle = cycle]
<1>1. new \in Frame /\ new.own = Top.own /\ new.phase = phase
  BY TopType DEF Frame
<1>2. frames' = [frames EXCEPT ![Len(frames)] = new]
  BY DEF Goto, Top
<1> HIDE DEF new
<1>3. frames' \in Seq(Frame) /\ Len(frames') = Len(frames)
  BY <1>1, <1>2, TopType DEF TypeOK
<1>4. \A k \in DOMAIN frames : frames'[k] = IF k = Len(frames) THEN new ELSE frames[k]
  BY <1>2, TopType
<1>5. Top' = new
  BY <1>3, <1>4, TopType DEF Top
<1>6. frames' # << >>
  BY <1>3, TopType
<1>7. \A k \in DOMAIN frames : frames'[k].own = frames[k].own
  BY <1>1, <1>4 DEF Top
<1>8. \A k \in DOMAIN frames : k < Len(frames) => frames'[k] = frames[k]
  BY <1>4
<1> QED BY <1>1, <1>3, <1>5, <1>6, <1>7, <1>8

-----------------------------------------------------------------------------
(* Insertion                                                               *)

\* What Insert does to the tables: nothing, or one more symbol in curr_scope
\* that the table did not hold.
LEMMA InsertTables ==
  ASSUME TypeOK, NEW n \in Name, NEW v \in Value, NEW undefined \in BOOLEAN,
         Insert(n, v, undefined)
  PROVE  /\ tables' \in Seq(Seq(Symbol)) /\ Len(tables') = Len(tables)
         /\ failed' \in BOOLEAN
         /\ status' \in {status, "crashed"}
         /\ \/ tables' = tables
            \/ /\ curr_scope \in Tab
               /\ local_lookup(curr_scope, n) = {}
               /\ tables' = insert_sym(curr_scope, new_sym(n, v, Top.own))
<1>1. new_sym(n, v, Top.own) \in Symbol
  BY TopType DEF new_sym, Symbol, Value, TypeName, Frame
<1>2. CASE curr_scope = NULL
  BY <1>2 DEF Insert, Crash, TypeOK
<1>3. CASE curr_scope # NULL
  <2>1. curr_scope \in Tab
    BY <1>3 DEF TypeOK
  <2>2. insert_sym(curr_scope, new_sym(n, v, Top.own)) \in Seq(Seq(Symbol))
    <3>1. Append(tables[curr_scope], new_sym(n, v, Top.own)) \in Seq(Symbol)
      BY <1>1, <2>1 DEF TypeOK, Tab
    <3> QED BY <2>1, <3>1 DEF insert_sym, TypeOK, Tab
  <2>3. Len(insert_sym(curr_scope, new_sym(n, v, Top.own))) = Len(tables)
    BY DEF insert_sym, TypeOK
  <2> QED BY <1>3, <2>1, <2>2, <2>3 DEF Insert, Report, TypeOK
<1> QED BY <1>2, <1>3

-----------------------------------------------------------------------------
(* Type correctness and nesting                                            *)

Typed == TypeOK /\ WellNested

\* A step within a block, which leaves the stack and the depth alone.
LEMMA SameBlock ==
  ASSUME Typed,
         tables' \in Seq(Seq(Symbol)), Len(tables') = Len(tables),
         frames' \in Seq(Frame), frames' # << >>, Len(frames') = Len(frames),
         \A k \in DOMAIN frames : frames'[k].own = frames[k].own,
         \A k \in DOMAIN frames : k < Len(frames) => frames'[k] = frames[k],
         UNCHANGED <<stack, curr_scope, curr_scope_level>>,
         failed' \in BOOLEAN, nfuncs' \in Nat,
         status' \in {"running", "accepted", "rejected", "crashed"}
  PROVE  Typed'
<1>1. Tab' = Tab /\ DOMAIN frames' = DOMAIN frames /\ DOMAIN frames = 1 .. Len(frames)
  BY TopType DEF Tab, Typed, TypeOK
<1>2. TypeOK'
  BY <1>1 DEF Typed, TypeOK
<1>3. WellNested'
  BY <1>1 DEF Typed, WellNested
<1> QED BY <1>2, <1>3 DEF Typed

LEMMA InitTyped ==
  ASSUME Init
  PROVE  Typed
<1>1. new_sym(BaseType, IntType, 1) \in Symbol
  BY DEF new_sym, IntType, Symbol, TypeName, Kind
<1>2. NewFrame(1, "types", IntType) \in Frame
  BY DEF NewFrame, IntType, Frame, Phase, Value, Kind
<1>3. Tab = {1} /\ tables \in Seq(Seq(Symbol))
  BY <1>1 DEF Init, Tab
<1>4. TypeOK
  <2>1. frames \in Seq(Frame) /\ frames # << >>
    BY <1>2 DEF Init
  <2>2. stack \in [Slot -> Tab \cup {NULL}]
    BY <1>3 DEF Init
  <2>3. curr_scope \in Tab \cup {NULL}
    BY <1>3 DEF Init
  <2> QED BY <1>3, <2>1, <2>2, <2>3 DEF Init, TypeOK
<1>5. WellNested
  BY <1>3 DEF Init, WellNested, NewFrame
<1> QED BY <1>4, <1>5 DEF Typed

\* Opening a function suspends the innermost block, whose list it shortens, and
\* puts a new frame after it.
LEMMA OpenFrames ==
  ASSUME TypeOK, OpenFunc
  PROVE  /\ frames' \in Seq(Frame) /\ frames' # << >> /\ Len(frames') = Len(frames) + 1
         /\ \A k \in DOMAIN frames :
              frames'[k].own = frames[k].own /\ frames'[k].phase = frames[k].phase
         /\ Top'.own = Len(tables) + 1
<1> DEFINE new == Len(tables) + 1
           top == [Top EXCEPT !.list = Tail(@)]
           rest == [frames EXCEPT ![Len(frames)].list = Tail(@)]
<1>1. PICK v \in check_ty(Head(Top.list).ty) : frames' = Append(rest, NewFrame(new, "params", v))
  BY DEF OpenFunc
<1>2. /\ Top \in Frame /\ Len(frames) \in Nat \ {0} /\ DOMAIN frames = 1 .. Len(frames)
      /\ Len(tables) \in Nat
  BY TopType DEF TypeOK
<1>3. NewFrame(new, "params", v) \in Frame /\ NewFrame(new, "params", v).own = new
  BY <1>2, LookupType DEF NewFrame, Frame, Phase
<1>4. top \in Frame /\ top.own = Top.own /\ top.phase = Top.phase
  <2>1. Tail(Top.list) \in Seq(Decl)
    BY <1>2 DEF Frame, OpenFunc
  <2> QED BY <1>2, <2>1 DEF Frame
<1>5. /\ rest \in Seq(Frame) /\ Len(rest) = Len(frames)
      /\ \A k \in DOMAIN frames : rest[k].own = frames[k].own /\ rest[k].phase = frames[k].phase
  <2>1. rest = [frames EXCEPT ![Len(frames)] = top]
    BY DEF Top
  <2> HIDE DEF top, rest
  <2>2. rest \in Seq(Frame) /\ Len(rest) = Len(frames)
    BY <1>2, <1>4, <2>1 DEF TypeOK
  <2>3. \A k \in DOMAIN frames : rest[k] = IF k = Len(frames) THEN top ELSE frames[k]
    BY <2>1
  <2>4. \A k \in DOMAIN frames : rest[k].own = frames[k].own /\ rest[k].phase = frames[k].phase
    BY <1>4, <2>3 DEF Top
  <2> QED BY <2>2, <2>4
<1> HIDE DEF rest
<1>6. /\ frames' \in Seq(Frame) /\ frames' # << >> /\ Len(frames') = Len(frames) + 1
      /\ \A k \in DOMAIN frames : frames'[k] = rest[k]
      /\ frames'[Len(frames) + 1] = NewFrame(new, "params", v)
  BY <1>1, <1>2, <1>3, <1>5
<1>7. Top'.own = new
  BY <1>3, <1>6 DEF Top
<1> QED BY <1>5, <1>6, <1>7

LEMMA OpenTyped ==
  ASSUME Typed, OpenFunc
  PROVE  Typed'
<1> DEFINE new == Len(tables) + 1
<1>1. TypeOK /\ Len(frames) \in Nat \ {0} /\ DOMAIN frames = 1 .. Len(frames)
  BY TopType DEF Typed
<1>2. tables' \in Seq(Seq(Symbol)) /\ Len(tables') = new
  BY <1>1 DEF OpenFunc, create_tab, TypeOK
<1>3. Tab' = Tab \cup {new} /\ Tab = 1 .. Len(tables) /\ Len(tables) \in Nat
  BY <1>1, <1>2 DEF Tab, TypeOK
<1>4. /\ frames' \in Seq(Frame) /\ frames' # << >> /\ Len(frames') = Len(frames) + 1
      /\ \A k \in DOMAIN frames :
           frames'[k].own = frames[k].own /\ frames'[k].phase = frames[k].phase
      /\ frames'[Len(frames) + 1].own = new
  BY <1>1, OpenFrames DEF Top
<1>5. stack' \in [Slot -> Tab' \cup {NULL}]
  <2>1. stack \in [Slot -> Tab' \cup {NULL}]
    BY <1>1, <1>3 DEF TypeOK
  <2>2. stack' = begin_scope(new)
    BY DEF OpenFunc
  <2> QED BY <1>3, <2>1, <2>2, BeginScope
<1>6. curr_scope' \in Tab' \cup {NULL}
  BY <1>3 DEF OpenFunc, begin_scope_returns
<1>7. TypeOK'
  <2>1. failed' \in BOOLEAN
    BY DEF OpenFunc, Report
  <2>2. curr_scope_level' \in Nat /\ nfuncs' \in Nat /\ status' = status
    BY <1>1 DEF OpenFunc, TypeOK
  <2> QED BY <1>1, <1>2, <1>4, <1>5, <1>6, <2>1, <2>2 DEF TypeOK
<1>8. WellNested'
  <2>1. \A k \in DOMAIN frames : frames[k].own \in Tab /\ frames[k].phase = "bodies"
    BY <1>1 DEF Typed, WellNested, OpenFunc, In, Top
  <2>2. DOMAIN frames' = 1 .. Len(frames) + 1
    BY <1>4
  <2>3. ASSUME NEW k \in DOMAIN frames'
        PROVE  frames'[k].own \in Tab' /\ (k < Len(frames') => frames'[k].phase = "bodies")
    <3>1. CASE k \in DOMAIN frames
      BY <1>3, <1>4, <2>1, <3>1
    <3>2. CASE k = Len(frames) + 1
      BY <1>3, <1>4, <3>2
    <3> QED BY <1>1, <2>2, <3>1, <3>2
  <2>4. curr_scope_level' = Len(frames') - 1
    BY <1>1, <1>4 DEF Typed, WellNested, OpenFunc
  <2> QED BY <2>3, <2>4 DEF WellNested
<1> QED BY <1>7, <1>8 DEF Typed

\* Leaving a function.
LEMMA CloseTyped ==
  ASSUME Typed, CloseFunc
  PROVE  Typed'
<1>1. TypeOK /\ Len(frames) \in Nat /\ Len(frames) > 1 /\ DOMAIN frames = 1 .. Len(frames)
  BY TopType DEF Typed, CloseFunc
<1>2. /\ frames' \in Seq(Frame) /\ Len(frames') = Len(frames) - 1 /\ frames' # << >>
      /\ \A k \in 1 .. (Len(frames) - 1) : frames'[k] = frames[k]
  <2>1. frames' = SubSeq(frames, 1, Len(frames) - 1)
    BY DEF CloseFunc
  <2>2. \A k \in 1 .. (Len(frames) - 1) : frames[k] \in Frame
    BY <1>1 DEF TypeOK
  <2>3. /\ frames' \in Seq(Frame) /\ Len(frames') = Len(frames) - 1
        /\ \A k \in 1 .. (Len(frames) - 1) : frames'[k] = frames[k]
    BY <1>1, <2>1, <2>2, SubSeqProperties
  <2> QED BY <1>1, <2>3
<1>3. curr_scope' \in Tab \cup {NULL}
  <2>1. CASE \E i \in SlotOf(curr_scope) : i + 1 \in Slot
    <3>1. PICK i \in SlotOf(curr_scope) : curr_scope' = stack[i + 1]
      BY <2>1 DEF CloseFunc, end_scope_returns
    <3>2. i + 1 \in Slot
      BY <2>1, SlotUnique
    <3> QED BY <1>1, <3>1, <3>2 DEF TypeOK
  <2>2. CASE ~\E i \in SlotOf(curr_scope) : i + 1 \in Slot
    BY <2>2 DEF CloseFunc, end_scope_returns
  <2> QED BY <2>1, <2>2
<1>4. Tab' = Tab
  BY DEF CloseFunc, Tab
<1>5. curr_scope_level' \in Nat /\ curr_scope_level' = Len(frames') - 1
  BY <1>1, <1>2 DEF CloseFunc, Typed, WellNested
<1>6. TypeOK'
  BY <1>1, <1>2, <1>3, <1>4, <1>5 DEF CloseFunc, TypeOK
<1>7. WellNested'
  <2>1. ASSUME NEW k \in DOMAIN frames'
        PROVE  frames'[k].own \in Tab' /\ (k < Len(frames') => frames'[k].phase = "bodies")
    <3>1. k \in 1 .. (Len(frames) - 1) /\ k < Len(frames) /\ k \in DOMAIN frames
      BY <1>1, <1>2
    <3> QED BY <1>2, <1>4, <3>1 DEF Typed, WellNested
  <2> QED BY <1>5, <2>1 DEF WellNested
<1> QED BY <1>6, <1>7 DEF Typed

\* Moving from one phase of a block to the next with Goto, whatever happens to
\* the tables.
LEMMA GotoTyped ==
  ASSUME Typed, NEW phase \in Phase, NEW list \in Seq(Decl), NEW cycle \in BOOLEAN,
         Goto(phase, list, cycle),
         tables' \in Seq(Seq(Symbol)), Len(tables') = Len(tables),
         UNCHANGED <<stack, curr_scope, curr_scope_level>>,
         failed' \in BOOLEAN, nfuncs' \in Nat, status' \in {status, "crashed"}
  PROVE  Typed'
<1>1. TypeOK
  BY DEF Typed
<1>2. status' \in {"running", "accepted", "rejected", "crashed"}
  BY <1>1 DEF TypeOK
<1>3. /\ frames' \in Seq(Frame) /\ frames' # << >>
      /\ Len(frames') = Len(frames)
      /\ \A k \in DOMAIN frames : frames'[k].own = frames[k].own
      /\ \A k \in DOMAIN frames : k < Len(frames) => frames'[k] = frames[k]
  BY <1>1, GotoFrames
<1> QED BY <1>2, <1>3, SameBlock

\* A step that leaves the frames alone.
LEMMA StayTyped ==
  ASSUME Typed,
         tables' \in Seq(Seq(Symbol)), Len(tables') = Len(tables),
         UNCHANGED <<stack, frames, curr_scope, curr_scope_level, nfuncs>>,
         failed' \in BOOLEAN,
         status' \in {"running", "accepted", "rejected", "crashed"}
  PROVE  Typed'
<1>1. frames' \in Seq(Frame) /\ frames' # << >> /\ nfuncs' \in Nat
  BY DEF Typed, TypeOK
<1> QED BY <1>1, SameBlock

\* One type of the type part resolved.
LEMMA ResolveTyped ==
  ASSUME Typed, ResolveType
  PROVE  Typed'
<1> DEFINE d == Head(Top.list)
<1>1. PICK v \in check_ty(d.ty) :
        /\ Report(Undefined(d.ty))
        /\ IF local_lookup(curr_scope, d.name) = {}
           THEN status' = "crashed" /\ UNCHANGED tables
           ELSE /\ tables' = set_symvalue(curr_scope, d.name, v)
                /\ UNCHANGED status
        /\ Goto("resolve", Tail(Top.list), Top.cycle /\ v.kind = "type" /\ v.named)
  BY DEF ResolveType
<1>2. TypeOK /\ v \in Value
  BY LookupType DEF Typed
<1>3. Top.list \in Seq(Decl) /\ Top.list # << >>
  BY <1>2, TopType DEF Frame, ResolveType
<1>4. d \in Decl /\ Tail(Top.list) \in Seq(Decl)
  BY <1>3
<1>5. tables' \in Seq(Seq(Symbol)) /\ Len(tables') = Len(tables) /\ status' \in {status, "crashed"}
  <2>1. CASE local_lookup(curr_scope, d.name) = {}
    BY <1>1, <1>2, <2>1 DEF TypeOK
  <2>2. CASE local_lookup(curr_scope, d.name) # {}
    <3>1. curr_scope \in Tab
      BY <1>2, <2>2 DEF TypeOK, local_lookup
    <3>2. d.name \in Name
      BY <1>4 DEF Decl
    <3>3. tables' = set_symvalue(curr_scope, d.name, v) /\ status' = status
      BY <1>1, <2>2
    <3> QED BY <1>2, <3>1, <3>2, <3>3, SetValueType
  <2> QED BY <2>1, <2>2
<1>6. failed' \in BOOLEAN
  BY <1>1 DEF Report
<1>7. nfuncs' \in Nat /\ UNCHANGED <<stack, curr_scope, curr_scope_level>>
  BY <1>2 DEF ResolveType, TypeOK
<1>8. (Top.cycle /\ v.kind = "type" /\ v.named) \in BOOLEAN
  OBVIOUS
<1>9. "resolve" \in Phase
  BY DEF Phase
<1> QED BY <1>1, <1>4, <1>5, <1>6, <1>7, <1>8, <1>9, GotoTyped

LEMMA NextTyped ==
  ASSUME Typed, [Next]_vars
  PROVE  Typed'
<1>1. TypeOK /\ Top \in Frame /\ Top.list \in Seq(Decl) /\ Top.formal \in Value
  BY TopType DEF Typed, Frame
<1>2. /\ tables \in Seq(Seq(Symbol)) /\ failed \in BOOLEAN /\ nfuncs \in Nat
      /\ status \in {"running", "accepted", "rejected", "crashed"}
      /\ << >> \in Seq(Decl) /\ TRUE \in BOOLEAN /\ FALSE \in BOOLEAN
  BY <1>1 DEF TypeOK
<1>3. ASSUME NEW n \in Name, DeclareParam(n)
      PROVE  Typed'
  <2>1. EntryOf("var", Top.formal) \in Value
    BY <1>1, EntryOfType DEF Kind
  <2>2. Insert(n, EntryOf("var", Top.formal), FALSE)
    BY <1>3 DEF DeclareParam
  <2>3. /\ tables' \in Seq(Seq(Symbol)) /\ Len(tables') = Len(tables)
        /\ failed' \in BOOLEAN /\ status' \in {status, "crashed"}
    BY <1>1, <1>2, <2>1, <2>2, InsertTables
  <2> QED BY <1>2, <1>3, <2>3, StayTyped DEF DeclareParam
<1>4. CASE EndParams
  BY <1>2, <1>4, GotoTyped DEF EndParams, Phase
<1>5. ASSUME NEW n \in Name, NEW t \in TypeRef, DeclareType(n, t)
      PROVE  Typed'
  <2>1. [kind |-> "type", named |-> TRUE] \in Value
    BY DEF Value, Kind
  <2>2. /\ tables' \in Seq(Seq(Symbol)) /\ Len(tables') = Len(tables)
        /\ failed' \in BOOLEAN /\ status' \in {status, "crashed"}
    BY <1>1, <1>2, <1>5, <2>1, InsertTables DEF DeclareType
  <2>3. Append(Top.list, [name |-> n, ty |-> t]) \in Seq(Decl)
    BY <1>1 DEF Decl
  <2> QED BY <1>2, <1>5, <2>2, <2>3, GotoTyped DEF DeclareType, Phase
<1>6. CASE NoTypePart
  BY <1>2, <1>6, GotoTyped DEF NoTypePart, Phase
<1>7. CASE EndTypeNames
  BY <1>1, <1>2, <1>7, GotoTyped DEF EndTypeNames, Phase
<1>8. CASE ResolveType
  BY <1>8, ResolveTyped
<1>9. CASE EndTypes
  <2>1. failed' \in BOOLEAN
    BY <1>9 DEF EndTypes, Report
  <2> QED BY <1>2, <1>9, <2>1, GotoTyped DEF EndTypes, Phase
<1>10. ASSUME NEW n \in Name, NEW t \in TypeRef, DeclareVar(n, t)
       PROVE  Typed'
  <2>1. PICK v \in check_ty(t) : Insert(n, EntryOf("var", v), Undefined(t))
    BY <1>10 DEF DeclareVar
  <2>2. EntryOf("var", v) \in Value
    BY <1>1, LookupType, EntryOfType DEF Kind
  <2>3. Undefined(t) \in BOOLEAN
    BY DEF Undefined
  <2>4. /\ tables' \in Seq(Seq(Symbol)) /\ Len(tables') = Len(tables)
        /\ failed' \in BOOLEAN /\ status' \in {status, "crashed"}
    BY <1>1, <2>1, <2>2, <2>3, InsertTables
  <2> QED BY <1>2, <1>10, <2>4, StayTyped DEF DeclareVar
<1>11. CASE EndVars
  BY <1>2, <1>11, GotoTyped DEF EndVars, Phase
<1>12. ASSUME NEW n \in Name, NEW r \in TypeRef, NEW p \in TypeRef, DeclareFunc(n, r, p)
       PROVE  Typed'
  <2>1. Append(Top.list, [name |-> n, ty |-> p]) \in Seq(Decl)
    BY <1>1 DEF Decl
  <2>2. /\ tables' \in Seq(Seq(Symbol)) /\ Len(tables') = Len(tables)
        /\ failed' \in BOOLEAN /\ status' \in {status, "crashed"}
    <3>1. CASE Undefined(r)
      BY <1>2, <1>12, <3>1 DEF DeclareFunc, Crash
    <3>2. CASE ~Undefined(r)
      <4> DEFINE e == local_lookup(curr_scope, n) = {} /\ Undefined(p)
      <4>1. PICK v \in check_ty(r) : Insert(n, EntryOf("func", v), e)
        BY <1>12, <3>2 DEF DeclareFunc
      <4>2. EntryOf("func", v) \in Value
        BY <1>1, LookupType, EntryOfType DEF Kind
      <4>3. e \in BOOLEAN
        BY DEF Undefined
      <4> HIDE DEF e
      <4> QED BY <1>1, <4>1, <4>2, <4>3, InsertTables
    <3> QED BY <3>1, <3>2
  <2>3. nfuncs' \in Nat
    BY <1>2, <1>12 DEF DeclareFunc
  <2> QED BY <1>2, <1>12, <2>1, <2>2, <2>3, GotoTyped DEF DeclareFunc, Phase
<1>13. CASE EndHeaders
  BY <1>1, <1>2, <1>13, GotoTyped DEF EndHeaders, Phase
<1>14. CASE OpenFunc
  BY <1>14, OpenTyped
<1>15. CASE EndBodies
  BY <1>2, <1>15, GotoTyped DEF EndBodies, Phase
<1>16. ASSUME NEW n \in Name, Use(n) \/ Call(n)
       PROVE  Typed'
  <2>1. PICK o : Outcome(o)
    BY <1>16 DEF Use, Call
  <2>2. failed' \in BOOLEAN /\ status' \in {status, "crashed"}
    BY <1>2, <2>1 DEF Outcome, Crash, Report
  <2> QED BY <1>2, <1>16, <2>2, StayTyped DEF Use, Call
<1>17. CASE NullStatement
  BY <1>2, <1>17, StayTyped DEF NullStatement, Crash
<1>18. CASE CloseFunc
  BY <1>18, CloseTyped
<1>19. CASE Finish
  BY <1>2, <1>19, StayTyped DEF Finish
<1>20. CASE UNCHANGED vars
  BY <1>2, <1>20, StayTyped DEF vars
<1> QED
  BY <1>3, <1>4, <1>5, <1>6, <1>7, <1>8, <1>9, <1>10, <1>11, <1>12, <1>13, <1>14, <1>15,
     <1>16, <1>17, <1>18, <1>19, <1>20 DEF Next, Advance, Terminated

\* Every reachable state is well typed, and blocks are left in the order
\* opposite to the one they were entered in.
THEOREM TypeCorrect == Spec => [](TypeOK /\ WellNested)
<1>1. Init => Typed
  BY InitTyped
<1>2. Typed /\ [Next]_vars => Typed'
  BY NextTyped
<1>3. Typed => TypeOK /\ WellNested
  BY DEF Typed
<1> QED BY <1>1, <1>2, <1>3, PTL DEF Spec

-----------------------------------------------------------------------------
(* The least position                                                      *)

\* A set of natural numbers that is not empty has a least element.
LEMMA LeastNat ==
  ASSUME NEW T \in SUBSET Nat, T # {}
  PROVE  \E x \in T : \A y \in T : x <= y
<1> DEFINE R == {ss \in Nat \X Nat : ss[1] < ss[2]}
<1>1. IsWellFoundedOn(R, Nat)
  BY NatLessThanWellFounded, Zenon DEF OpToRel
<1>2. \E x \in T : \A y \in T : ~ (<<y, x>> \in R)
  BY <1>1, WFMin
<1>3. \A x, y \in Nat : y < x => <<y, x>> \in R
  OBVIOUS
<1> HIDE DEF R
<1>4. PICK x \in T : \A y \in T : ~ (<<y, x>> \in R)
  BY <1>2
<1>5. ASSUME NEW y \in T
      PROVE  x <= y
  <2>1. x \in Nat /\ y \in Nat
    OBVIOUS
  <2>2. ~(y < x)
    BY <1>3, <1>4, <2>1
  <2> QED BY <2>1, <2>2
<1> QED BY <1>5

\* local_lookup misses no symbol of the table.
LEMMA LocalLookupFinds ==
  ASSUME TypeOK, NEW t \in Tab, NEW n, local_lookup(t, n) = {}
  PROVE  \A j \in DOMAIN tables[t] : tables[t][j].name # n
<1> SUFFICES ASSUME NEW i \in DOMAIN tables[t], tables[t][i].name = n
             PROVE  FALSE
  OBVIOUS
<1> DEFINE T == {j \in DOMAIN tables[t] : tables[t][j].name = n}
<1>1. t # NULL /\ DOMAIN tables[t] = 1 .. Len(tables[t]) /\ Len(tables[t]) \in Nat
  BY NullAssumption DEF TypeOK, Tab
<1>2. PICK x \in T : \A y \in T : x <= y
  <2>1. T \in SUBSET Nat /\ T # {}
    BY <1>1
  <2> HIDE DEF T
  <2> QED BY <2>1, LeastNat
<1>3. \A k \in 1 .. (x - 1) : tables[t][k].name # n
  BY <1>1, <1>2
<1>4. x \in local_lookup(t, n)
  BY <1>1, <1>2, <1>3 DEF local_lookup
<1> QED BY <1>4

-----------------------------------------------------------------------------
(* No table holds a name twice                                             *)

\* What a step can do to the symbols: nothing, give one table a symbol more
\* whose name it did not hold, overwrite values, or allocate an empty table.
\* Insertions happen where declarations can come, and on behalf of the
\* innermost block.
Declaring == {"params", "types", "resolve", "vars", "headers"}

LEMMA TableSteps ==
  ASSUME Typed, [Next]_vars
  PROVE  \/ tables' = tables
         \/ \E n \in Name, v \in Value :
              /\ Top.phase \in Declaring
              /\ curr_scope \in Tab
              /\ local_lookup(curr_scope, n) = {}
              /\ tables' = insert_sym(curr_scope, new_sym(n, v, Top.own))
         \/ \E n \in Name, v \in Value :
              curr_scope \in Tab /\ tables' = set_symvalue(curr_scope, n, v)
         \/ OpenFunc /\ tables' = create_tab
<1> DEFINE Inserts == \E n \in Name, v \in Value :
                        /\ curr_scope \in Tab
                        /\ local_lookup(curr_scope, n) = {}
                        /\ tables' = insert_sym(curr_scope, new_sym(n, v, Top.own))
<1>1. TypeOK /\ Top \in Frame /\ Top.list \in Seq(Decl) /\ Top.formal \in Value
  BY TopType DEF Typed, Frame
<1>2. ASSUME NEW n \in Name, NEW v \in Value, NEW e \in BOOLEAN, Insert(n, v, e)
      PROVE  tables' = tables \/ Inserts
  BY <1>1, <1>2, InsertTables
<1> HIDE DEF Inserts
<1>3. ASSUME NEW n \in Name, DeclareParam(n)
      PROVE  (tables' = tables \/ Inserts) /\ Top.phase \in Declaring
  BY <1>1, <1>2, <1>3, EntryOfType DEF DeclareParam, In, Declaring, Kind
<1>4. ASSUME NEW n \in Name, NEW t \in TypeRef, DeclareType(n, t)
      PROVE  (tables' = tables \/ Inserts) /\ Top.phase \in Declaring
  <2>1. [kind |-> "type", named |-> TRUE] \in Value
    BY DEF Value, Kind
  <2> QED BY <1>2, <1>4, <2>1 DEF DeclareType, In, Declaring
<1>5. ASSUME NEW n \in Name, NEW t \in TypeRef, DeclareVar(n, t)
      PROVE  (tables' = tables \/ Inserts) /\ Top.phase \in Declaring
  <2>1. PICK v \in check_ty(t) : Insert(n, EntryOf("var", v), Undefined(t))
    BY <1>5 DEF DeclareVar
  <2>2. EntryOf("var", v) \in Value /\ Undefined(t) \in BOOLEAN
    BY <1>1, LookupType, EntryOfType DEF Kind, Undefined
  <2> QED BY <1>2, <1>5, <2>1, <2>2 DEF DeclareVar, In, Declaring
<1>6. ASSUME NEW n \in Name, NEW r \in TypeRef, NEW p \in TypeRef, DeclareFunc(n, r, p)
      PROVE  (tables' = tables \/ Inserts) /\ Top.phase \in Declaring
  <2>1. CASE Undefined(r)
    BY <1>6, <2>1 DEF DeclareFunc, In, Declaring
  <2>2. CASE ~Undefined(r)
    <3> DEFINE e == local_lookup(curr_scope, n) = {} /\ Undefined(p)
    <3>1. PICK v \in check_ty(r) : Insert(n, EntryOf("func", v), e)
      BY <1>6, <2>2 DEF DeclareFunc
    <3>2. EntryOf("func", v) \in Value /\ e \in BOOLEAN
      BY <1>1, LookupType, EntryOfType DEF Kind, Undefined
    <3> HIDE DEF e
    <3> QED BY <1>2, <1>6, <3>1, <3>2 DEF DeclareFunc, In, Declaring
  <2> QED BY <2>1, <2>2
<1>7. CASE ResolveType
  <2> DEFINE d == Head(Top.list)
  <2>1. PICK v \in check_ty(d.ty) :
          IF local_lookup(curr_scope, d.name) = {}
          THEN tables' = tables ELSE tables' = set_symvalue(curr_scope, d.name, v)
    BY <1>7 DEF ResolveType
  <2>2. v \in Value /\ d.name \in Name
    <3>1. d \in Decl
      BY <1>1, <1>7 DEF ResolveType
    <3> QED BY <1>1, <3>1, LookupType DEF Decl
  <2>3. local_lookup(curr_scope, d.name) # {} => curr_scope \in Tab
    BY <1>1 DEF TypeOK, local_lookup
  <2> QED BY <2>1, <2>2, <2>3
<1>8. CASE OpenFunc
  BY <1>8 DEF OpenFunc
<1>9. CASE \/ EndParams \/ NoTypePart \/ EndTypeNames \/ EndTypes \/ EndVars \/ EndHeaders
           \/ EndBodies \/ CloseFunc \/ Finish \/ NullStatement \/ UNCHANGED vars
           \/ \E n \in Name : Use(n) \/ Call(n)
  BY <1>9 DEF EndParams, NoTypePart, EndTypeNames, EndTypes, EndVars, EndHeaders, EndBodies,
              CloseFunc, Finish, NullStatement, Use, Call, vars
<1> QED
  BY <1>3, <1>4, <1>5, <1>6, <1>7, <1>8, <1>9 DEF Next, Advance, Terminated, Inserts

LEMMA NextNoDuplicates ==
  ASSUME Typed, NoDuplicates, [Next]_vars
  PROVE  NoDuplicates'
<1>1. TypeOK /\ tables \in Seq(Seq(Symbol)) /\ Tab = 1 .. Len(tables)
  BY DEF Typed, TypeOK, Tab
<1>2. CASE tables' = tables
  BY <1>2 DEF NoDuplicates, Tab
<1>3. ASSUME NEW n \in Name, NEW v \in Value, curr_scope \in Tab,
             local_lookup(curr_scope, n) = {},
             tables' = insert_sym(curr_scope, new_sym(n, v, Top.own))
      PROVE  NoDuplicates'
  <2> DEFINE sym == new_sym(n, v, Top.own)
             old == tables[curr_scope]
  <2>1. old \in Seq(Symbol) /\ Len(old) \in Nat /\ DOMAIN old = 1 .. Len(old)
    BY <1>1, <1>3
  <2>2. \A j \in DOMAIN old : old[j].name # n
    BY <1>1, <1>3, LocalLookupFinds
  <2>3. sym.name = n
    BY DEF new_sym
  <2> HIDE DEF sym
  <2>4. /\ DOMAIN Append(old, sym) = 1 .. Len(old) + 1
        /\ \A j \in DOMAIN old : Append(old, sym)[j] = old[j]
        /\ Append(old, sym)[Len(old) + 1] = sym
    BY <2>1
  <2>5. Tab' = Tab /\ \A t \in Tab : tables'[t] = IF t = curr_scope THEN Append(old, sym) ELSE tables[t]
    BY <1>1, <1>3 DEF insert_sym, Tab, sym
  <2>6. ASSUME NEW j \in DOMAIN Append(old, sym), NEW k \in DOMAIN Append(old, sym),
               Append(old, sym)[j].name = Append(old, sym)[k].name
        PROVE  j = k
    <3>1. \A i \in DOMAIN Append(old, sym) : i \in DOMAIN old \/ i = Len(old) + 1
      BY <2>1, <2>4
    <3>2. CASE j \in DOMAIN old /\ k \in DOMAIN old
      BY <1>3, <2>4, <2>6, <3>2 DEF NoDuplicates
    <3>3. CASE j \in DOMAIN old /\ k = Len(old) + 1
      BY <2>2, <2>3, <2>4, <2>6, <3>3
    <3>4. CASE j = Len(old) + 1 /\ k \in DOMAIN old
      BY <2>2, <2>3, <2>4, <2>6, <3>4
    <3> QED BY <3>1, <3>2, <3>3, <3>4
  <2> QED BY <2>5, <2>6 DEF NoDuplicates
<1>4. ASSUME NEW n \in Name, NEW v \in Value, curr_scope \in Tab,
             tables' = set_symvalue(curr_scope, n, v)
      PROVE  NoDuplicates'
  <2>1. /\ tables' \in Seq(Seq(Symbol)) /\ Len(tables') = Len(tables)
        /\ \A u \in Tab : /\ Len(tables'[u]) = Len(tables[u])
                          /\ \A j \in DOMAIN tables[u] : tables'[u][j].name = tables[u][j].name
    <3> DEFINE new == set_symvalue(curr_scope, n, v)
    <3>1. /\ new \in Seq(Seq(Symbol)) /\ Len(new) = Len(tables)
          /\ \A u \in Tab : /\ Len(new[u]) = Len(tables[u])
                            /\ \A j \in DOMAIN tables[u] :
                                 /\ new[u][j].name = tables[u][j].name
                                 /\ new[u][j].owner = tables[u][j].owner
      <4>1. TypeOK /\ curr_scope \in Tab
        BY <1>1, <1>4
      <4> QED BY <4>1, SetValueType
    <3>2. tables' = new
      BY <1>4
    <3> HIDE DEF new
    <3> QED BY <3>1, <3>2
  <2>2. Tab' = Tab
    BY <1>1, <2>1 DEF Tab
  <2>3. \A u \in Tab : DOMAIN tables'[u] = DOMAIN tables[u]
    <3>1. \A u \in Tab : tables[u] \in Seq(Symbol) /\ tables'[u] \in Seq(Symbol)
      BY <1>1, <2>1
    <3> QED BY <2>1, <3>1
  <2> QED BY <2>1, <2>2, <2>3 DEF NoDuplicates
<1>5. CASE tables' = create_tab
  <2>1. /\ Tab' = Tab \cup {Len(tables) + 1}
        /\ \A t \in Tab : tables'[t] = tables[t]
        /\ tables'[Len(tables) + 1] = << >>
    BY <1>1, <1>5 DEF create_tab, Tab
  <2>2. ASSUME NEW t \in Tab'
        PROVE  \A j, k \in DOMAIN tables'[t] : tables'[t][j].name = tables'[t][k].name => j = k
    <3>1. CASE t \in Tab
      BY <2>1, <3>1 DEF NoDuplicates
    <3>2. CASE t = Len(tables) + 1
      BY <2>1, <3>2
    <3> QED BY <2>1, <3>1, <3>2
  <2> QED BY <2>2 DEF NoDuplicates
<1> QED BY <1>2, <1>3, <1>4, <1>5, TableSteps

\* No table ever holds two symbols of one name: whatever the program declares
\* twice is reported and not inserted, also when more functions are declared
\* than the stack has slots for.
THEOREM NoDuplicatesCorrect == Spec => []NoDuplicates
<1>1. Init => Typed /\ NoDuplicates
  <2>1. Init => NoDuplicates
    BY DEF Init, NoDuplicates, Tab
  <2> QED BY <2>1, InitTyped
<1>2. Typed /\ NoDuplicates /\ [Next]_vars => (Typed /\ NoDuplicates)'
  BY NextTyped, NextNoDuplicates
<1> QED BY <1>1, <1>2, PTL DEF Spec

-----------------------------------------------------------------------------
(* Where declarations go.  GlobalScopeLast says which table begin_scope    *)
(* displaces and so what it returns; with WellNested, DeclaresInOwnScope   *)
(* survives the end of a nested function, since the block that becomes     *)
(* innermost is in the loop over its functions and will declare nothing    *)
(* more; Ownership then follows.                                           *)

ScopeInv == GlobalScopeLast /\ DeclaresInOwnScope /\ Ownership

\* What a step can do to the blocks: stay in one, open one, or leave one.
Within ==
  /\ UNCHANGED <<stack, curr_scope>>
  /\ Len(tables') = Len(tables)
  /\ Top'.own = Top.own
  /\ Top'.phase \in Declaring => Top.phase \in Declaring

LEMMA BlockSteps ==
  ASSUME Typed, [Next]_vars
  PROVE  Within \/ OpenFunc \/ CloseFunc
<1> SUFFICES ASSUME ~OpenFunc
             PROVE  Within \/ CloseFunc
  OBVIOUS
<1>1. TypeOK /\ Top \in Frame /\ Top.list \in Seq(Decl)
  BY TopType DEF Typed, Frame
<1>2. Len(tables') = Len(tables)
  <2>1. ASSUME NEW n \in Name, NEW v \in Value, curr_scope \in Tab,
               tables' = insert_sym(curr_scope, new_sym(n, v, Top.own))
        PROVE  Len(tables') = Len(tables)
    BY <1>1, <2>1 DEF insert_sym, TypeOK
  <2>2. ASSUME NEW n \in Name, NEW v \in Value, curr_scope \in Tab,
               tables' = set_symvalue(curr_scope, n, v)
        PROVE  Len(tables') = Len(tables)
    BY <1>1, <2>2, SetValueType
  <2> QED BY <2>1, <2>2, TableSteps
<1>3. ASSUME UNCHANGED <<stack, frames, curr_scope>>
      PROVE  Within
  BY <1>2, <1>3 DEF Within, Top
<1>4. ASSUME NEW phase \in Phase, NEW list \in Seq(Decl), NEW cycle \in BOOLEAN,
             Goto(phase, list, cycle), phase \in Declaring => Top.phase \in Declaring,
             UNCHANGED <<stack, curr_scope>>
      PROVE  Within
  <2>2. Top'.own = Top.own /\ Top'.phase = phase
    BY <1>1, <1>4, GotoFrames
  <2> QED BY <1>2, <1>4, <2>2 DEF Within
<1>5. << >> \in Seq(Decl) /\ TRUE \in BOOLEAN /\ FALSE \in BOOLEAN
  OBVIOUS
<1>6. ASSUME NEW n \in Name, DeclareParam(n) \/ Use(n) \/ Call(n)
      PROVE  Within
  BY <1>3, <1>6 DEF DeclareParam, Use, Call
<1>7. ASSUME NEW n \in Name, NEW t \in TypeRef, DeclareType(n, t)
      PROVE  Within
  <2>1. Append(Top.list, [name |-> n, ty |-> t]) \in Seq(Decl)
    BY <1>1 DEF Decl
  <2> QED BY <1>4, <1>5, <1>7, <2>1 DEF DeclareType, In, Phase, Declaring
<1>8. ASSUME NEW n \in Name, NEW t \in TypeRef, DeclareVar(n, t)
      PROVE  Within
  BY <1>3, <1>8 DEF DeclareVar
<1>9. ASSUME NEW n \in Name, NEW r \in TypeRef, NEW p \in TypeRef, DeclareFunc(n, r, p)
      PROVE  Within
  <2>1. Append(Top.list, [name |-> n, ty |-> p]) \in Seq(Decl)
    BY <1>1 DEF Decl
  <2> QED BY <1>4, <1>5, <1>9, <2>1 DEF DeclareFunc, In, Phase, Declaring
<1>10. CASE ResolveType
  <2> DEFINE c(v) == Top.cycle /\ v.kind = "type" /\ v.named
  <2>1. PICK v \in check_ty(Head(Top.list).ty) : Goto("resolve", Tail(Top.list), c(v))
    BY <1>10 DEF ResolveType
  <2>2. Tail(Top.list) \in Seq(Decl) /\ c(v) \in BOOLEAN
    BY <1>1, <1>10 DEF ResolveType
  <2> HIDE DEF c
  <2> QED BY <1>4, <1>10, <2>1, <2>2 DEF ResolveType, In, Phase, Declaring
<1>11. CASE EndParams \/ NoTypePart \/ EndTypes \/ EndVars \/ EndBodies
  BY <1>4, <1>5, <1>11 DEF EndParams, NoTypePart, EndTypes, EndVars, EndBodies,
                           In, Phase, Declaring
<1>12. CASE EndTypeNames \/ EndHeaders
  BY <1>1, <1>4, <1>5, <1>12 DEF EndTypeNames, EndHeaders, In, Phase, Declaring
<1>13. CASE NullStatement \/ Finish \/ UNCHANGED vars
  BY <1>3, <1>13 DEF NullStatement, Finish, vars
<1> QED
  BY <1>6, <1>7, <1>8, <1>9, <1>10, <1>11, <1>12, <1>13 DEF Next, Advance, Terminated

\* The free slot of a stack that is as GlobalScopeLast says.
LEMMA FreeSlotAfterGlobal ==
  ASSUME Typed, GlobalScopeLast, Len(tables) + 1 <= MAXSCOPE
  PROVE  FreeSlot = {Len(tables)} /\ Len(tables) \in Nat \ {0}
<1>1. Len(tables) \in Nat \ {0}
  BY TopType DEF Typed, WellNested, Tab, TypeOK
<1>2. \A i \in Slot : (stack[i] = NULL) <=> (i >= Len(tables))
  BY <1>1, NullAssumption, MaxScopeAssumption DEF GlobalScopeLast, Slot
<1>3. Len(tables) \in Slot
  BY <1>1, MaxScopeAssumption DEF Slot
<1> QED BY <1>1, <1>2, <1>3, MaxScopeAssumption DEF FreeSlot, Slot

\* A step that allocates no table leaves every symbol with its owner, and the
\* one it may add is owned by the table it goes to.
LEMMA TableOwners ==
  ASSUME Typed, DeclaresInOwnScope, Ownership, [Next]_vars, Len(tables') = Len(tables)
  PROVE  Ownership'
<1>1. TypeOK /\ tables \in Seq(Seq(Symbol)) /\ Tab = 1 .. Len(tables) /\ Len(tables) \in Nat
  BY DEF Typed, TypeOK, Tab
<1>2. CASE tables' = tables
  BY <1>2 DEF Ownership, Tab
<1>3. ASSUME NEW n \in Name, NEW v \in Value, curr_scope \in Tab, Top.phase \in Declaring,
             tables' = insert_sym(curr_scope, new_sym(n, v, Top.own))
      PROVE  Ownership'
  <2> DEFINE sym == new_sym(n, v, Top.own)
             old == tables[curr_scope]
  <2>1. old \in Seq(Symbol) /\ Len(old) \in Nat /\ DOMAIN old = 1 .. Len(old)
    BY <1>1, <1>3
  <2>2. sym.owner = Top.own
    BY DEF new_sym
  <2> HIDE DEF sym
  <2>3. /\ DOMAIN Append(old, sym) = 1 .. Len(old) + 1
        /\ \A j \in DOMAIN Append(old, sym) :
             Append(old, sym)[j] = IF j \in DOMAIN old THEN old[j] ELSE sym
    BY <2>1
  <2>4. Tab' = Tab /\ \A t \in Tab : tables'[t] = IF t = curr_scope THEN Append(old, sym) ELSE tables[t]
    BY <1>1, <1>3 DEF insert_sym, Tab, sym
  <2>5. ASSUME Len(tables) <= MAXSCOPE, NEW t \in Tab, NEW j \in DOMAIN tables'[t]
        PROVE  tables'[t][j].owner = t
    <3>1. curr_scope = Top.own
      BY <1>3, <2>5 DEF DeclaresInOwnScope, Declaring
    <3>2. \A i \in DOMAIN tables[t] : tables[t][i].owner = t
      BY <2>5 DEF Ownership
    <3>3. CASE t # curr_scope
      BY <2>4, <2>5, <3>2, <3>3
    <3>4. CASE t = curr_scope
      <4>1. tables'[t] = Append(old, sym) /\ j \in DOMAIN Append(old, sym)
        BY <2>4, <2>5, <3>4
      <4>2. CASE j \in DOMAIN old
        BY <2>3, <3>2, <3>4, <4>1, <4>2
      <4>3. CASE j \notin DOMAIN old
        BY <2>2, <2>3, <3>1, <3>4, <4>1, <4>3
      <4> QED BY <4>2, <4>3
    <3> QED BY <3>3, <3>4
  <2> QED BY <2>4, <2>5 DEF Ownership
<1>4. ASSUME NEW n \in Name, NEW v \in Value, curr_scope \in Tab,
             tables' = set_symvalue(curr_scope, n, v)
      PROVE  Ownership'
  <2>1. /\ tables' \in Seq(Seq(Symbol))
        /\ \A u \in Tab : /\ Len(tables'[u]) = Len(tables[u])
                          /\ \A j \in DOMAIN tables[u] : tables'[u][j].owner = tables[u][j].owner
    BY <1>1, <1>4, SetValueType
  <2>2. Tab' = Tab
    BY <1>1, <2>1 DEF Tab
  <2>3. \A u \in Tab : DOMAIN tables'[u] = DOMAIN tables[u]
    <3>1. \A u \in Tab : tables[u] \in Seq(Symbol) /\ tables'[u] \in Seq(Symbol)
      BY <1>1, <2>1, <2>2 DEF Tab
    <3> QED BY <2>1, <3>1
  <2> QED BY <2>1, <2>2, <2>3 DEF Ownership
<1>5. tables' # create_tab
  BY <1>1 DEF create_tab
<1> QED BY <1>2, <1>3, <1>4, <1>5, TableSteps

LEMMA NextScopeInv ==
  ASSUME Typed, ScopeInv, [Next]_vars
  PROVE  ScopeInv'
<1>1. /\ TypeOK /\ TypeOK' /\ Len(tables) \in Nat /\ Tab = 1 .. Len(tables)
      /\ Len(frames) \in Nat /\ DOMAIN frames = 1 .. Len(frames)
  BY NextTyped, TopType DEF Typed, TypeOK, Tab
<1>2. CASE Within
  <2>1. GlobalScopeLast' /\ DeclaresInOwnScope'
    BY <1>2 DEF Within, ScopeInv, GlobalScopeLast, DeclaresInOwnScope, Declaring
  <2>2. Ownership'
    BY <1>2, TableOwners DEF Within, ScopeInv
  <2> QED BY <2>1, <2>2 DEF ScopeInv
<1>3. CASE OpenFunc
  <2> DEFINE n == Len(tables)
  <2>1. tables' = Append(tables, << >>) /\ Len(tables') = n + 1
    BY <1>1, <1>3 DEF OpenFunc, create_tab, TypeOK
  <2>2. Top'.own = n + 1
    BY <1>1, <1>3, OpenFrames
  <2> SUFFICES ASSUME n + 1 <= MAXSCOPE
               PROVE  ScopeInv'
    <3>1. CASE n + 1 <= MAXSCOPE
      BY <3>1
    <3>2. CASE ~(n + 1 <= MAXSCOPE)
      BY <2>1, <3>2 DEF ScopeInv, GlobalScopeLast, DeclaresInOwnScope, Ownership
    <3> QED BY <3>1, <3>2
  <2>0. n <= MAXSCOPE
    BY <1>1, MaxScopeAssumption
  <2>3. FreeSlot = {n} /\ n \in Nat \ {0} /\ n \in Slot /\ n - 1 \in Slot
    BY FreeSlotAfterGlobal, MaxScopeAssumption DEF ScopeInv, Slot
  <2>4. stack' = [stack EXCEPT ![n] = stack[n - 1], ![n - 1] = n + 1]
    <3>1. stack \in [Slot -> Nat \cup {NULL}]
      BY <1>1 DEF TypeOK
    <3>2. stack' = begin_scope(n + 1)
      BY <1>3 DEF OpenFunc
    <3>3. n \in FreeSlot /\ n # 0 /\ n + 1 \in Nat \cup {NULL}
      BY <1>1, <2>3
    <3> HIDE DEF n
    <3> QED BY <3>1, <3>2, <3>3, BeginScope
  <2>5. GlobalScopeLast'
    <3>1. stack[n - 1] = 1
      BY <1>1, <2>0, <2>3 DEF ScopeInv, GlobalScopeLast
    <3>2. \A i \in Slot : stack'[i] = IF i = n THEN 1 ELSE IF i = n - 1 THEN n + 1 ELSE stack[i]
      BY <1>1, <2>3, <2>4, <3>1 DEF TypeOK
    <3>3. \A i \in Slot : i # n /\ i # n - 1 =>
            stack[i] = IF i + 1 < n + 1 THEN i + 2 ELSE NULL
      BY <1>1, <2>0, <2>3, MaxScopeAssumption DEF ScopeInv, GlobalScopeLast, Slot
    <3> QED BY <1>1, <2>1, <2>3, <3>2, <3>3 DEF GlobalScopeLast, Slot
  <2>6. DeclaresInOwnScope'
    BY <1>3, <2>2, <2>3 DEF OpenFunc, begin_scope_returns, DeclaresInOwnScope
  <2>7. Ownership'
    <3>1. Tab' = Tab \cup {n + 1} /\ tables'[n + 1] = << >> /\ \A t \in Tab : tables'[t] = tables[t]
      BY <1>1, <2>1 DEF Tab
    <3>2. \A t \in Tab : \A j \in DOMAIN tables[t] : tables[t][j].owner = t
      BY <2>0 DEF ScopeInv, Ownership
    <3> QED BY <3>1, <3>2 DEF Ownership
  <2> QED BY <2>5, <2>6, <2>7 DEF ScopeInv
<1>4. CASE CloseFunc
  <2>1. tables' = tables /\ stack' = stack
    BY <1>4 DEF CloseFunc
  <2>2. Top'.phase = "bodies"
    <3>1. Len(frames) > 1 /\ frames' = SubSeq(frames, 1, Len(frames) - 1)
      BY <1>4 DEF CloseFunc
    <3>2. \A k \in 1 .. (Len(frames) - 1) : frames[k] \in Frame
      BY <1>1 DEF TypeOK
    <3>3. Len(frames') = Len(frames) - 1 /\ frames'[Len(frames) - 1] = frames[Len(frames) - 1]
      BY <1>1, <3>1, <3>2, SubSeqProperties
    <3> QED BY <1>1, <3>1, <3>3 DEF Typed, WellNested, Top
  <2> QED BY <2>1, <2>2 DEF ScopeInv, GlobalScopeLast, DeclaresInOwnScope, Ownership, Tab
<1> QED BY <1>2, <1>3, <1>4, BlockSteps

LEMMA InitScopeInv == ASSUME Init PROVE ScopeInv
<1>1. Len(tables) = 1 /\ Tab = {1} /\ tables[1] = <<new_sym(BaseType, IntType, 1)>>
  BY DEF Init, Tab
<1>2. GlobalScopeLast
  <2>1. \A i \in Slot : i \in Nat /\ stack[i] = IF i = 0 THEN 1 ELSE NULL
    BY MaxScopeAssumption DEF Init, Slot
  <2> QED BY <1>1, <2>1 DEF GlobalScopeLast
<1>3. DeclaresInOwnScope
  BY DEF Init, DeclaresInOwnScope, Top, NewFrame
<1>4. Ownership
  BY <1>1 DEF Ownership, new_sym
<1> QED BY <1>2, <1>3, <1>4 DEF ScopeInv

\* As long as the program has fewer functions than the stack has slots, the
\* stack holds the functions' tables in order with the global one last, every
\* declaration is made in the block it belongs to, and every symbol is in that
\* block's table.
THEOREM ScopesCorrect == Spec => [](GlobalScopeLast /\ DeclaresInOwnScope /\ Ownership)
<1>1. Init => Typed /\ ScopeInv
  BY InitTyped, InitScopeInv
<1>2. Typed /\ ScopeInv /\ [Next]_vars => (Typed /\ ScopeInv)'
  BY NextTyped, NextScopeInv
<1>3. ScopeInv => GlobalScopeLast /\ DeclaresInOwnScope /\ Ownership
  BY DEF ScopeInv
<1> QED BY <1>1, <1>2, <1>3, PTL DEF Spec

=============================================================================
