---------------------------- MODULE Declarations ----------------------------
(***************************************************************************)
(* The semantic validator of src/semantic.c, as the walk over the blocks   *)
(* of a program that fills the symbol tables and looks names up in them.   *)
(*                                                                         *)
(* The program is not a constant: each step takes the next piece of syntax *)
(* the grammar of pascal.y allows at that place, so a behaviour is a       *)
(* program together with its validation.  `frames` is the C call stack:    *)
(* one record per check_block in progress, the innermost last, with        *)
(*   own    the table check_funcdecl created for this block;               *)
(*   phase  how far check_block has come: parameters (of a function),      *)
(*          type part (two passes: "types", "resolve"), variables,         *)
(*          functions (two passes: "headers", "bodies"), statements;       *)
(*   list   declarations of the first pass that the second has to visit:   *)
(*          a type name and its right-hand side, or a function name and    *)
(*          the type of its parameters;                                    *)
(*   cycle  the flag of that name in check_decl;                           *)
(*   formal the value of the parameters' type (formal_tys).                *)
(* Types are looked up by name; array and set types name predefined        *)
(* element types only, so BaseType stands for them too.  The rules that    *)
(* compare the types of an expression are a free choice of outcome here.   *)
(***************************************************************************)
EXTENDS Symtab

CONSTANTS MaxFuncs,  \* bound: functions declared in the program
          MaxTypes,  \* bound: declarations in one type part
          TypeRef    \* bound: the type names that declarations mention

ASSUME BoundsAssumption ==
  MaxFuncs \in Nat /\ MaxTypes \in Nat /\ TypeRef \subseteq TypeName

VARIABLES frames,            \* the check_block calls in progress
          curr_scope,        \* the table declarations go to
          curr_scope_level,  \* the nesting level that is printed
          failed,            \* the error counter, as "> 0"
          status,            \* running, or how main ends
          nfuncs             \* function declarations met so far (bounded)

vars == <<stack, tables, frames, curr_scope, curr_scope_level, failed, status, nfuncs>>

Phase == {"params", "types", "resolve", "vars", "headers", "bodies", "stmts"}

Decl == [name : Name, ty : TypeRef]

IntType == [kind |-> "type", named |-> FALSE]

Frame == [own : Nat \ {0}, phase : Phase, list : Seq(Decl), cycle : BOOLEAN, formal : Value]

NewFrame(t, phase, formal) ==
  [own |-> t, phase |-> phase, list |-> << >>, cycle |-> FALSE, formal |-> formal]

Top == frames[Len(frames)]

Init ==
  /\ tables = << <<new_sym(BaseType, IntType, 1)>> >>
  /\ stack = [i \in Slot |-> IF i = 0 THEN 1 ELSE NULL]
  /\ frames = << NewFrame(1, "types", IntType) >>
  /\ curr_scope = 1
  /\ curr_scope_level = 0
  /\ failed = FALSE
  /\ status = "running"
  /\ nfuncs = 0

-----------------------------------------------------------------------------
(* Helpers: where the walk is, and the effects that several handlers share *)

In(phase) == status = "running" /\ Top.phase = phase

Goto(phase, list, cycle) ==
  frames' = [frames EXCEPT ![Len(frames)] =
               [@ EXCEPT !.phase = phase, !.list = list, !.cycle = cycle]]

Report(error) == failed' = (failed \/ error)

Crash == status' = "crashed" /\ failed' = failed

Undefined(t) == global_lookup(t) = {}

\* The value of a type name; an undefined one counts as integer.
check_ty(t) == IF Undefined(t) THEN {IntType} ELSE {value(s) : s \in global_lookup(t)}

\* An environment entry for a variable or function of type v.  A value that is
\* itself an Env_entry is read as a Type_ty of kind int or longint.
EntryOf(kind, v) == [kind |-> kind, named |-> v.kind = "type" /\ v.named]

(***************************************************************************)
(* Insert n in the current scope unless it is there already, which is an   *)
(* error.  Inserting without a table dereferences NULL.                    *)
(***************************************************************************)
\* Variant: no look at what the scope holds already.
InsertUnchecked(n, v, undefined) ==
  /\ curr_scope # NULL
  /\ UNCHANGED status
  /\ Report(undefined)
  /\ tables' = insert_sym(curr_scope, new_sym(n, v, Top.own))

Insert(n, v, undefined) ==
  IF curr_scope = NULL
  THEN Crash /\ UNCHANGED tables
  ELSE /\ UNCHANGED status
       /\ Report(undefined \/ local_lookup(curr_scope, n) # {})
       /\ tables' = IF local_lookup(curr_scope, n) = {}
                    THEN insert_sym(curr_scope, new_sym(n, v, Top.own))
                    ELSE tables

-----------------------------------------------------------------------------
(* check_funcdecl, second pass: the parameters of the function just opened *)

DeclareParam(n) ==
  /\ In("params")
  /\ Insert(n, EntryOf("var", Top.formal), FALSE)
  /\ UNCHANGED <<stack, frames, curr_scope, curr_scope_level, nfuncs>>

EndParams ==
  /\ In("params")
  /\ Goto("types", << >>, FALSE)
  /\ UNCHANGED <<stack, tables, curr_scope, curr_scope_level, failed, status, nfuncs>>

-----------------------------------------------------------------------------
(* check_decl of the type part: all names first, then their types          *)

DeclareType(n, t) ==
  /\ In("types")
  /\ Len(Top.list) < MaxTypes
  /\ Insert(n, [kind |-> "type", named |-> TRUE], FALSE)
  /\ Goto("types", Append(Top.list, [name |-> n, ty |-> t]), FALSE)
  /\ UNCHANGED <<stack, curr_scope, curr_scope_level, nfuncs>>

NoTypePart ==
  /\ In("types")
  /\ Top.list = << >>
  /\ Goto("vars", << >>, FALSE)
  /\ UNCHANGED <<stack, tables, curr_scope, curr_scope_level, failed, status, nfuncs>>

EndTypeNames ==
  /\ In("types")
  /\ Goto("resolve", Top.list, TRUE)
  /\ UNCHANGED <<stack, tables, curr_scope, curr_scope_level, failed, status, nfuncs>>

\* Variant: the loop does not move on to the next declaration.
ResolveTypeForever ==
  /\ In("resolve")
  /\ Top.list # << >>
  /\ \E v \in check_ty(Head(Top.list).ty) :
       tables' = set_symvalue(curr_scope, Head(Top.list).name, v)
  /\ UNCHANGED <<stack, frames, curr_scope, curr_scope_level, failed, status, nfuncs>>

ResolveType ==
  /\ In("resolve")
  /\ Top.list # << >>
  /\ LET d == Head(Top.list)
     IN  \E v \in check_ty(d.ty) :
           /\ Report(Undefined(d.ty))
           /\ IF local_lookup(curr_scope, d.name) = {}
              THEN status' = "crashed" /\ UNCHANGED tables
              ELSE /\ tables' = set_symvalue(curr_scope, d.name, v)
                   /\ UNCHANGED status
           /\ Goto("resolve", Tail(Top.list), Top.cycle /\ v.kind = "type" /\ v.named)
  /\ UNCHANGED <<stack, curr_scope, curr_scope_level, nfuncs>>

EndTypes ==
  /\ In("resolve")
  /\ Top.list = << >>
  /\ Report(Top.cycle)
  /\ Goto("vars", << >>, FALSE)
  /\ UNCHANGED <<stack, tables, curr_scope, curr_scope_level, status, nfuncs>>

-----------------------------------------------------------------------------
(* check_decl of the variable part                                         *)

DeclareVar(n, t) ==
  /\ In("vars")
  /\ \E v \in check_ty(t) : Insert(n, EntryOf("var", v), Undefined(t))
  /\ UNCHANGED <<stack, frames, curr_scope, curr_scope_level, nfuncs>>

EndVars ==
  /\ In("vars")
  /\ Goto("headers", << >>, FALSE)
  /\ UNCHANGED <<stack, tables, curr_scope, curr_scope_level, failed, status, nfuncs>>

-----------------------------------------------------------------------------
(* check_funcdecl, first pass: the headers, with result type r and         *)
(* parameter type p.  An undefined r is dereferenced before it is tested.  *)

DeclareFunc(n, r, p) ==
  /\ In("headers")
  /\ nfuncs < MaxFuncs
  /\ IF Undefined(r)
     THEN Crash /\ UNCHANGED tables
     ELSE \E v \in check_ty(r) :
            Insert(n, EntryOf("func", v), local_lookup(curr_scope, n) = {} /\ Undefined(p))
  /\ Goto("headers", Append(Top.list, [name |-> n, ty |-> p]), FALSE)
  /\ nfuncs' = nfuncs + 1
  /\ UNCHANGED <<stack, curr_scope, curr_scope_level>>

EndHeaders ==
  /\ In("headers")
  /\ Goto("bodies", Top.list, FALSE)
  /\ UNCHANGED <<stack, tables, curr_scope, curr_scope_level, failed, status, nfuncs>>

\* Variant: the table begin_scope returns is not assigned to curr_scope.
OpenFuncOutside ==
  /\ In("bodies")
  /\ Top.list # << >>
  /\ tables' = create_tab
  /\ stack' = begin_scope(Len(tables) + 1)
  /\ \E v \in check_ty(Head(Top.list).ty) :
       frames' = Append([frames EXCEPT ![Len(frames)].list = Tail(@)],
                        NewFrame(Len(tables) + 1, "params", v))
  /\ curr_scope_level' = curr_scope_level + 1
  /\ UNCHANGED <<curr_scope, failed, status, nfuncs>>

(***************************************************************************)
(* check_funcdecl, second pass: a function whose name was declared twice   *)
(* is opened twice.  The parameters' type is looked up after begin_scope,  *)
(* which gives what it gave before, the new table being empty.             *)
(***************************************************************************)
OpenFunc ==
  /\ In("bodies")
  /\ Top.list # << >>
  /\ LET new == Len(tables) + 1
         p == Head(Top.list).ty
     IN  /\ tables' = create_tab
         /\ stack' = begin_scope(new)
         /\ curr_scope' \in begin_scope_returns(new)
         /\ Report(Undefined(p))
         /\ \E v \in check_ty(p) :
              frames' = Append([frames EXCEPT ![Len(frames)].list = Tail(@)],
                               NewFrame(new, "params", v))
  /\ curr_scope_level' = curr_scope_level + 1
  /\ UNCHANGED <<status, nfuncs>>

\* Variant: the loop over the bodies ends before the last one.
EndBodiesEarly ==
  /\ In("bodies")
  /\ Len(Top.list) <= 1
  /\ Goto("stmts", << >>, FALSE)
  /\ UNCHANGED <<stack, tables, curr_scope, curr_scope_level, failed, status, nfuncs>>

EndBodies ==
  /\ In("bodies")
  /\ Top.list = << >>
  /\ Goto("stmts", << >>, FALSE)
  /\ UNCHANGED <<stack, tables, curr_scope, curr_scope_level, failed, status, nfuncs>>

-----------------------------------------------------------------------------
(* check_stmt: statements change no table.  The value of the name decides  *)
(* which outcomes there are, the types of the rest of the statement which  *)
(* of them it is.                                                          *)

Outcome(o) == IF o = "crashed" THEN Crash ELSE Report(o = "failed") /\ UNCHANGED status

\* check_var: a type's value is read as an Env_entry.
UseOutcomes(n) ==
  IF Undefined(n) THEN {"failed"}
  ELSE UNION {CASE s.kind = "type" /\ s.named -> {"failed"}
                [] s.kind = "type" /\ ~s.named -> {"failed", "crashed"}
                [] s.kind = "var" -> IF s.named THEN {"crashed"} ELSE {"ok", "failed"}
                [] s.kind = "func" -> IF s.named THEN {"failed", "crashed"} ELSE {"ok", "failed"}
              : s \in global_lookup(n)}

\* The call case of check_expr: a name that is not found is dereferenced.
CallOutcomes(n) ==
  IF Undefined(n) THEN {"crashed"}
  ELSE UNION {IF s.kind = "func" \/ (s.kind = "type" /\ ~s.named)
              THEN {"ok", "failed", "crashed"} ELSE {"ok", "failed"}
              : s \in global_lookup(n)}

Use(n) ==
  /\ In("stmts")
  /\ \E o \in UseOutcomes(n) : Outcome(o)
  /\ UNCHANGED <<stack, tables, frames, curr_scope, curr_scope_level, nfuncs>>

Call(n) ==
  /\ In("stmts")
  /\ \E o \in CallOutcomes(n) : Outcome(o)
  /\ UNCHANGED <<stack, tables, frames, curr_scope, curr_scope_level, nfuncs>>

\* A missing compound statement, or an empty statement before a semicolon.
NullStatement ==
  /\ In("stmts")
  /\ Crash
  /\ UNCHANGED <<stack, tables, frames, curr_scope, curr_scope_level, nfuncs>>

-----------------------------------------------------------------------------
(* Leaving a block                                                         *)

\* Variants: the level is not decremented; the global block is left as well.
CloseFuncKeepsLevel ==
  /\ In("stmts")
  /\ Len(frames) > 1
  /\ curr_scope' \in end_scope_returns(curr_scope)
  /\ frames' = SubSeq(frames, 1, Len(frames) - 1)
  /\ UNCHANGED <<stack, tables, curr_scope_level, failed, status, nfuncs>>

CloseFuncAlways ==
  /\ In("stmts")
  /\ curr_scope' \in end_scope_returns(curr_scope)
  /\ curr_scope_level' = curr_scope_level - 1
  /\ frames' = SubSeq(frames, 1, Len(frames) - 1)
  /\ UNCHANGED <<stack, tables, failed, status, nfuncs>>

CloseFunc ==
  /\ In("stmts")
  /\ Len(frames) > 1
  /\ curr_scope' \in end_scope_returns(curr_scope)
  /\ curr_scope_level' = curr_scope_level - 1
  /\ frames' = SubSeq(frames, 1, Len(frames) - 1)
  /\ UNCHANGED <<stack, tables, failed, status, nfuncs>>

\* Variant: the verdict does not look at the error counter.
FinishAccepts ==
  /\ In("stmts")
  /\ Len(frames) = 1
  /\ status' = "accepted"
  /\ UNCHANGED <<stack, tables, frames, curr_scope, curr_scope_level, failed, nfuncs>>

Finish ==
  /\ In("stmts")
  /\ Len(frames) = 1
  /\ status' = IF failed THEN "rejected" ELSE "accepted"
  /\ UNCHANGED <<stack, tables, frames, curr_scope, curr_scope_level, failed, nfuncs>>

Terminated == status # "running" /\ UNCHANGED vars

-----------------------------------------------------------------------------
\* The walk itself, which the finite syntax tree drives to its end.
Advance ==
  \/ EndParams \/ NoTypePart \/ EndTypeNames \/ ResolveType \/ EndTypes
  \/ EndVars \/ EndHeaders \/ OpenFunc \/ EndBodies \/ CloseFunc \/ Finish

Next ==
  \/ \E n \in Name : DeclareParam(n) \/ Use(n) \/ Call(n)
  \/ \E n \in Name, t \in TypeRef : DeclareType(n, t) \/ DeclareVar(n, t)
  \/ \E n \in Name, r, p \in TypeRef : DeclareFunc(n, r, p)
  \/ NullStatement
  \/ Advance
  \/ Terminated

Spec == Init /\ [][Next]_vars

FairSpec == Spec /\ WF_vars(Advance)

-----------------------------------------------------------------------------
(* Properties                                                              *)

\* The type invariant.  The stack and curr_scope hold allocated tables or NULL
\* only, and a validation always has a block in progress.
TypeOK ==
  /\ tables \in Seq(Seq(Symbol))
  /\ stack \in [Slot -> Tab \cup {NULL}]
  /\ frames \in Seq(Frame) /\ frames # << >>
  /\ curr_scope \in Tab \cup {NULL}
  /\ curr_scope_level \in Nat
  /\ failed \in BOOLEAN
  /\ status \in {"running", "accepted", "rejected", "crashed"}
  /\ nfuncs \in Nat

\* Blocks are left in the order opposite to the one they were entered in: every
\* suspended block waits in the loop over its functions' bodies, has a table of
\* its own, and the level printed is the depth of the innermost block.
WellNested ==
  /\ \A k \in DOMAIN frames :
       /\ frames[k].own \in Tab
       /\ k < Len(frames) => frames[k].phase = "bodies"
  /\ curr_scope_level = Len(frames) - 1

\* The stack keeps every function's table in the order the functions were
\* opened and the global table after all of them, although begin_scope is
\* given no position and nothing is ever popped.
GlobalScopeLast ==
  Len(tables) <= MAXSCOPE =>
    \A i \in Slot : stack[i] = IF i + 1 < Len(tables) THEN i + 2
                               ELSE IF i + 1 = Len(tables) THEN 1 ELSE NULL

\* Wherever a declaration can come, curr_scope is the table of the block that
\* declares, although end_scope does not restore the table of the enclosing
\* function when a nested one ends.
DeclaresInOwnScope ==
  Len(tables) <= MAXSCOPE =>
    (Top.phase \in {"params", "types", "resolve", "vars", "headers"} => curr_scope = Top.own)

\* Every symbol sits in the table of the block whose declaration inserted it.
Ownership ==
  Len(tables) <= MAXSCOPE =>
    \A t \in Tab : \A j \in DOMAIN tables[t] : tables[t][j].owner = t

\* No table holds two symbols of one name, so that what set_symvalue gives the
\* symbol found by local_lookup is what every later lookup sees.
NoDuplicates ==
  \A t \in Tab : \A j, k \in DOMAIN tables[t] :
    tables[t][j].name = tables[t][k].name => j = k

Declares(t, n) == \E j \in DOMAIN tables[t] : tables[t][j].name = n

\* A name declared in a block that is open is found by global_lookup, and when
\* an open function declares it, what is found is not the global symbol.
VisibleNamesFound ==
  Len(tables) <= MAXSCOPE =>
    \A k \in DOMAIN frames : \A n \in Name :
      Declares(frames[k].own, n) =>
        /\ ~Undefined(n)
        /\ k > 1 => \A s \in global_lookup(n) : s.owner # 1

\* Once a name resolves to a symbol of a function's table it resolves to that
\* table to the end: no later scope can take the name over, also not one whose
\* function is nested in another and declares the name itself.
FirstBindingStays ==
  [][Len(tables') <= MAXSCOPE =>
       \A n \in Name : \A s \in global_lookup(n) :
         s.owner # 1 => {r.owner : r \in global_lookup(n)'} = {s.owner}]_vars

\* When the validation ends every function header met, also a repeated one, has
\* had its body walked once, whatever nesting of functions the walk had to come
\* back from, and of the tables of these bodies the stack holds the first ones
\* up to its limit and no other: a later function has no scope of its own.
EveryFunctionOpened ==
  status \in {"accepted", "rejected"} =>
    /\ Len(tables) = nfuncs + 1
    /\ {stack[i] : i \in Slot} \ {NULL} = {t \in Tab : t <= MAXSCOPE}

\* How far a block has come: the second pass over a type part takes one step for
\* each of its declarations, every other part one step to leave it.
Come(f) ==
  CASE f.phase = "params"  -> 1
    [] f.phase = "types"   -> 2
    [] f.phase = "resolve" -> 3 + MaxTypes - Len(f.list)
    [] f.phase = "vars"    -> 4 + MaxTypes
    [] f.phase = "headers" -> 5 + MaxTypes
    [] f.phase = "bodies"  -> 6 + MaxTypes
    [] f.phase = "stmts"   -> 7 + MaxTypes

Whole == 8 + MaxTypes

\* How far the validation has come: a block that was left counts as whole, and a
\* block below the innermost one waits in its bodies.
Progress ==
  Whole * (Len(tables) - Len(frames)) + (6 + MaxTypes) * (Len(frames) - 1) + Come(Top)
    + (IF status = "running" THEN 0 ELSE 1)

\* The walk never goes back, every step of its loops and recursion brings it
\* nearer to its end, and the functions met so far bound how far it can come.
\* With a finite program this is why check_block and its loops terminate.
ProgressMade ==
  [][/\ Progress' >= Progress
     /\ Advance => Progress' > Progress
     /\ Progress' <= Whole * (nfuncs' + 1)]_vars

\* What global_lookup finds is the symbol of the function opened first among all
\* that declare the name so far, open or left, and the global one if none does.
Precedes(t, u) == u = 1 \/ (t # 1 /\ t <= u)

FirstDeclarerWins ==
  Len(tables) <= MAXSCOPE =>
    \A n \in TypeName :
      {s.owner : s \in global_lookup(n)} =
        {t \in Tab : /\ Declares(t, n)
                    /\ \A u \in Tab : Declares(u, n) => Precedes(t, u)}

\* A name that is found is found to the end, also when the stack is full and
\* begin_scope leaves it as it is; and only a function opened earlier, or any
\* function if the global block had it, can take it over.
BindingsKept ==
  [][\A n \in TypeName : \A i \in FirstSlot(n) :
       \E j \in FirstSlot(n)' : Precedes(stack'[j], stack[i])]_vars

\* The validation of every finite program ends.
Termination == <>(status # "running")

\* The validator implements the block structure: its tables, seen as sets of
\* names, change only in the innermost open block.
Blocks ==
  INSTANCE BlockStructure WITH
    open <- [k \in DOMAIN frames |-> frames[k].own],
    declared <- [t \in Tab |-> {n \in Name : Declares(t, n)}],
    objected <- failed,
    verdict <- status

ImplementsBlocks == Blocks!BSpec

-----------------------------------------------------------------------------
(* What the comments of the source say of the program, and it does not do  *)

\* symtab.h: inserting a binding shadows any previous binding of the symbol.  A
\* name that has just been inserted should resolve to the new symbol.
Shadows(t) ==
  LET new == tables[t][Len(tables[t])] IN global_lookup(new.name) = {new}

InsertionShadows ==
  [][Len(tables') <= MAXSCOPE =>
       \A t \in Tab : Len(tables'[t]) > Len(tables[t]) => Shadows(t)']_vars

\* semantic.c: the result type is looked up and checked to be defined.  An
\* undefined one should be an error, not the end of the validator.
UndefinedResultReported ==
  [][Top.phase = "headers" => status' # "crashed"]_vars

=============================================================================
