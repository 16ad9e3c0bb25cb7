# PASCOMP in TLA+

PASCOMP is a compiler for a small Pascal: a flex lexer, a bison parser that
builds a syntax tree, a semantic validator that fills symbol tables, and a
translator that walks the tree again and appends LLVM-like text to `pascal.ll`.
This directory holds TLA+ modules for the parts whose state is easy to get wrong,
the TLC configurations that check them, and TLAPS proofs about them.

## The system

| Part | State | Operations | Correct when |
|---|---|---|---|
| Symbol tables, `symtab.c` | the array `stack` of `MAXSCOPE` scope tables; per table a list of symbols | `insert_sym`, `local_lookup`, `global_lookup`, `set_symvalue`, `begin_scope`, `end_scope` | no table has a name twice; tables keep their order; a name that is declared is found |
| Validator, `semantic.c` | `curr_scope`, `curr_scope_level`, `failed`, the C call stack | `check_block`, `check_decl`, `check_funcdecl`, `check_stmt`, `check_expr`, `check_args`, `check_ty` | each declaration goes to the table of its own block; blocks nest; an error rejects the program; every function's body is checked; the walk ends |
| Translator, `translate.c` | `stack_counter`, `label_counter`, `lastexptype`, scope and type fields of symbols | `codegen_block`, `codegen_decl`, `codegen_funcdecl`, `codegen_stmt`, `codegen_expr` | registers are defined once and in order; an operand is the register of its value, for the operands for which the code generates one (see `Lost` below); labels are unique; branches have their labels |
| Output, `filehandler` and `close_file` | `pascal.ll`, one open stream per output | open, write, close, flush at exit | a run adds its whole text or nothing |
| `main`, `pascal.y` | none of its own | parse, validate, translate, report | the translator runs only on accepted programs |
| Parser, lexer, syntax tree, `utility.c` | the tree | constructors, checked allocation | not modelled, see below |

The parts share memory and are called one after another in one thread: `main`
parses, calls `semantic_validation`, and, if that returns 1, `translate_code`.
Validator and translator both resolve names by `global_lookup`; nothing is ever
removed from the tables, so the translator sees what the validator left. Nothing
runs concurrently. What makes the program hard is therefore

- *long legal sequences*: nested and consecutive functions move the slots of
  `stack`, and `end_scope` relies on where they have moved to;
- *recursion over shared counters*: `codegen_expr` counts back from
  `stack_counter` after calling itself, and statements keep labels in locals
  while others are drawn from `label_counter`;
- *limits and undefined results*: functions that end without a return value,
  reads past the array, file descriptors that run out;
- *partial failure*: an error is counted and the walk goes on;
- *crashes and several runs*: `pascal.ll` is appended to and flushed at exit.

`PROJECT.json` lists each hazard at its line with the properties that cover it.

## Modules

| Module | Models | Uses |
|---|---|---|
| `Symtab` | `symtab.c`: tables, lookups, scopes | |
| `BlockStructure` | abstract specification: what a validator of nested blocks promises | |
| `Declarations` | `semantic.c`: the walk over blocks and declarations | `Symtab`, implements `BlockStructure` |
| `DeclarationsProofs` | theorems about the tables and scopes of `Declarations` | TLAPS |
| `ScopeProofs` | theorems about what names resolve to, and the refinement | `DeclarationsProofs` |
| `Types` | `check_expr`, `check_var`, `check_args`, `check_stmt`: the type rules | |
| `TypesProofs` | theorems about `Types` | TLAPS |
| `Names` | `codegen_decl`, `codegen_funcdecl`, `codegen_var`, `load_gvar`, `set_var_size`: what the translator keeps in symbols and prints for names | `Declarations`, whose accepted programs it translates |
| `NamesProofs` | theorems about scopes, places and symbols in `Names` | `ScopeProofs`, TLAPS |
| `DeclaredProofs` | theorems about what `Names` declares and types | `NamesProofs` |
| `Expressions` | `codegen_expr`: register numbers and operands | |
| `Translate` | `codegen_stmt`, `codegen_block`, `codegen_funcdecl`: labels, branches, stores | `Expressions` |
| `TranslateProofs` | theorems about the registers and labels of `Translate` | TLAPS |
| `OperandProofs` | theorems about its operands, and its type invariant | `TranslateProofs` |
| `FileWriter` | `filehandler`, `close_file`, `main`, over several runs | |
| `FileWriterProofs` | theorems about `FileWriter` | TLAPS |
| `MCDeclarations`, `MCTypes`, `MCNames`, `MCTranslate`, `MCFileWriter` | instances for TLC | |

Operators named after another with an added word (`begin_scope_on_top`,
`OpenFuncOutside`, `EmitOneMore`, ...) are variants with a plausible bug; no
specification uses them. Each is what a property must tell from the code: put in
the place of the operator it varies, TLC finds that property violated.

### Programs as behaviours

The program that is compiled is not a constant. A step that comes to a place of
the syntax tree chooses what stands there among what `pascal.y` allows, and what
the validator would have let pass in the case of the translator. A behaviour is
thus a program together with its compilation, and a run covers every program
within the bounds. The C call stack is a sequence (`frames`, `todo`), the
innermost call last.

### Symtab and Declarations

A `Sym_tab` pointer is a position in `tables`. A symbol keeps its name, the kind
of structure its value points to, and whether the type in it is a `Type_name`
without a type. Its ghost field `owner` is the table of the block whose
declaration inserted it. `begin_scope` on a full stack returns any table, the new
one included, or `NULL`; so does `end_scope` on the last slot or on a table that
is in no slot.

| Code | Action |
|---|---|
| `check_decl`, types: insert all names | `DeclareType`, `EndTypeNames` or `NoTypePart` |
| `check_decl`, types: resolve them | `ResolveType`, `EndTypes` |
| `check_decl`, variables | `DeclareVar`, `EndVars` |
| `check_funcdecl`, first loop | `DeclareFunc`, `EndHeaders` |
| `check_funcdecl`, second loop | `OpenFunc`, `DeclareParam`, `EndParams`, the function's block, `CloseFunc`, then `EndBodies` |
| `check_stmt`, `check_expr`, `check_var`, `check_args` | `Use`, `Call`, `NullStatement` |
| end of `semantic_validation` | `Finish` |

Abstractions: a function has one type for all its parameters and a declaration
introduces one identifier (a list of identifiers is a sequence of such steps).
Predefined types are one, `BaseType`; element types of arrays and sets are
predefined by the grammar. Statements change no table; which of the outcomes a
name's symbol allows is taken depends on types that are not in the model and is
a free choice here and the subject of `Types`. A null dereference ends the walk
with status `crashed`.

### Types

The checking functions recur over the syntax tree and return a `Type_ty`. In the
model each return is a step: `checked` holds what has been returned and not yet
used, and a call of the code that has begun and waits for an operand is an entry
of it. An operator takes the two entries on top and leaves its own; a statement
takes all that its operands have left. A behaviour is thus a sequence of
statements in the order of the validation, and the depth of expressions is bounded
by `MaxChecked` alone.

| Code | Action |
|---|---|
| `check_var` | `EntireVar`, `IndexedVar`, `EndIndex` |
| `check_expr`, constants and sets | `Constant`, `SetConstruct` |
| `check_expr`, operators | `Operator`, `Negate` |
| `check_expr`, calls, with `check_args` | `BeginCall`, `Argument` |
| `check_expr`, predefined functions | `Ord`, `Chr`, `Length`, `LowHigh`, `Random` |
| `check_stmt` | `Assign`, `For`, `While`, `InOut`, `Inc`, `SetLength`, `If`, `EndIf` |

A type is a record with its kind, the kind of its elements and, because `match_type`
compares pointers, the name it was declared with, or `"new"` for a type built at its
use. `actual_type` and `ordinal_type` do not return what their recursive call returns;
compiled without optimisation, as in the `Makefile`, the caller finds it in the return
register all the same, and for a `Type_name` that is `NULL`. What a `Type_ty` looks like
when it is read as an `Env_entry` follows from the two `enum`s: `Type_int` is taken for
a variable and `Type_longint` for a function, each with `NULL` as its type. The other
way round, a variable or a function named where a type should stand (lines 646, 654,
764, 794) leaves its `Env_entry` as a `Type_ty`: its kind reads as `int` for a variable
and as `longint` for a function, and its pointer equals no other type's (`ForeignType`).
`check_var` returns string for an array of strings and char for its element; such a
result has the form `misread`. The rules below are stated from the declared type, so
that a result of this form is neither rightly accepted nor rightly refused: what is
decided of it is decided of another type. Elements of arrays and sets are of basic
types.

The ghost `broken` holds, after every step up to the first error, those rules of the
error messages that the operands break, stated from the operands' types and from the
numeric types a value is computed from (`leaves`), not from the code's tests. The code
accepts some operands that break a rule; those cases have names in `Gaps`, and
`OnlyGapsBroken` says that there is no other. `NoFalseAlarm` is the converse: what keeps
the rules is not objected to. It is about the first error, because after one the types
of failed operands are made up; five kinds of operands are refused all the same and have
names in `Refusals`. First the gaps:

| Gap | The code |
|---|---|
| `string operator` | lines 408-410 accept `-`, `*`, `/` and `div` between strings, as they accept `+` |
| `string index` | line 205 does not look at the index of a string |
| `ordinal` | `ordinal_type` takes arrays, sets and void for ordinal types |
| `function` | a call of something that is no function returns `Type_Void` without an error: line 523 asks for an entry that is `NULL`, inside the case where it is not |
| `element` | line 467 does not look at the left operand of `in` |
| `level` | lines 244-247 compare an array or a set in an assignment by its elements, also with a single value |
| `constructor` | a set constructor has the type of its first element |
| `longint` | line 436 asks for longint before real, so a real operand is no more visible |
| `unresolved` | a `NULL` type matches a `NULL` type in an argument |
| `string array` | lines 177-180 and 205-206: an array of strings, or its element, is accepted where a string, or a character, may stand |
| `no type` | a variable or a function that has been named as a type is accepted where only kinds count, and where `int` and `longint` may be mixed |
| `type` | the value of `longint`'s symbol is read as a function's entry, so the type passes for a variable without a type; that of `integer` ends the validator |

The refusals:

| Refusal | The code |
|---|---|
| `longint bound` | lines 197 and 291 want `int` for an index and for the upper bound of a `for` statement, where a variable or an argument of type `int` may be `longint` |
| `structure` | line 876 compares pointers, and line 175 builds a new type for a set variable: an array of another type with the same elements is no argument, and a set is never one |
| `typeless set` | a set constructor of other constants than characters is `void`, which no variable is |
| `string array` | by the same lines `setlength`, `low` and `high` of an array of strings are refused, such an argument for an array parameter, and a string assigned to its element |
| `no type` | lines 876-888 compare pointers, and a variable's or function's entry is no type: with `var x: integer; y: x;` the statement `y := 1` is refused. No message speaks of it, since lines 646, 654, 764 and 794 only ask whether the name is declared |

The lower bound of a `for` statement, whose test at line 287 repeats the one on
the variable, is not in the list: the assignment's own check comes first and
`match_type` lets only integers pass.

### Names

`Names` continues `Declarations`: while the validator runs, the steps of
`Declarations` are taken together with a record (`blocks`) of what the syntax tree
holds of the main program and of the functions declared in it, which are the
blocks that the translator visits. When the program is accepted, `codegen_block`
and `codegen_funcdecl` run over `blocks` with the tables as they then are. `local`
is the set of symbols with scope 1, `sized` that of symbols with a type; `fpsym`
is the variable of `codegen_funcdecl` that survives from one function to the next.

| Code | Action |
|---|---|
| `codegen_decl`, main program | `DeclareGlobals` |
| `codegen_funcdecl`, header | `DefineFunction` |
| `codegen_funcdecl`, allocas and stores | `Allocate` |
| `codegen_var`, `load_gvar`, a call's name | `UseVariable`, `CallFunction` |
| `codegen_funcdecl`, end of a body | `EndBody` |
| end of `translate_code` | `EndProgram` |

What the properties say is what the code does in spite of its global lookups; some
of it surprises. A call in the main program prints the type `void`, because the
type of a function's symbol is set only when the function is translated.
`TypedOnceDeclared` says that this ends there: all that has been declared so far
has its type. A function's own symbol stays local for the rest of the text.
`LocalsCleared` says that nothing else does. A global variable whose name a
function declares too is replaced by that function's symbol, also in the main
program: `GlobalsDeclared` is about the others, and `SameSymbolForBoth` says
that where the validator had a function's symbol the translator has the same.
`DeclarationsTranslated` is about each step of the declarations by itself, in the
main program as in a function: if the step ends the translator, then one of the
names that this very step declares (or the parameter `fpsym` points to) is found
as a type or with an unresolved type, or the functions did not fit the stack, or
the step is at the allocas and no function so far has had a parameter. A program
that merely declares a type somewhere is not excused.

An error of the validator ends a behaviour of interest. Variables of array and set
types are left out: the translator has no size for them, so that their declaration
prints the type `void` and whatever `get_alignment` leaves, as for an unresolved
type; a declaration of types prints "NOT IMPLEMENTED". What happens to
the elements of arrays in statements is in `Translate`.

### Expressions and Translate

The model follows the text for registers as written to stderr; `pascal.ll` leaves
out the `%n =` of calls, some register operands and some separators. Labels and
branches are those of `pascal.ll`; a `for` statement writes its labels to stderr
only, and what is inside it goes to both. Constants, names and types of the text
are left out. An entry of `todo` is a call in progress: `expr` is about to begin;
`second`, `emit` are points in an operator's case; `load`, `loaded`, `pass`,
`passed` points in the two loops over a call's arguments; the others are points
in statements. Ghosts: `result` is the register that holds the value generated
last, `defined` the registers defined so far, `printed` the operands of the last
step, each with the register printed and the register that holds the value.

The properties of operands (`Held`) are strict: at each place the register that is
printed is the one that holds the operand's value, which must exist. The operands
for which the code does otherwise are named, place by place, in `Lost`:

| Place | Lost | The code |
|---|---|---|
| everywhere | what is not translated | lines 251, 420-437 and 605-629 print a message and no instruction |
| everywhere | `opcall`, a call with an operator among its arguments | the operator is generated (lines 544, 594) after the call has taken its number, so that what follows takes the operator's register for the call's |
| right operand of `+`, `-`, `*`, `/` | a call | lines 50-55 generate operators only, so that `fib(n-1) + fib(n-2)` of `demo/whileloop.pas` prints registers of something else; comparisons generate both |
| argument, store | a local variable | lines 480 and 668 test the scope of the syntax tree's symbol, which is always 0, and the newest register is printed |
| test | a bare name or number | lines 696-697: nothing is generated, and the newest register is branched on |

All of these are allowed by `pascal.y` and the validator; the hazards are listed, each
as what the code does whenever the case occurs. The left operand of `+`, `-`, `*` and
`/` is the subject of the run `operands`.

`indexed` is an element of an array. As a left operand, a test, an operand of an
operator that is not translated or on the right of a comparison it prints "NOT
IMPLEMENTED". Elsewhere its `u.entire`, which the union of `AST_var` gives to the
pointer to the array's `AST_var`, is taken for a symbol: an assignment to or of an
element looks that up by a name read from there (`AssignElement`, lines 655 and 665), as
a call does with an element among its arguments (`CrashAtElement`), and as an element on
the right of an arithmetic operator does for its type. That one, and a comparison whose
right operand has no type for `get_ty_exp`, is `CrashAtType`. Whether a comparison asks
for the type depends on `lastexptype`, which is left out: the model has both outcomes at
each. All three end the process (`crashed`).

### FileWriter

`streams` are the buffers of the streams left open, each with the text of one
output (shorter than a stdio buffer). Only the stream opened for `close_file` is
closed. At exit the C library flushes its list of open streams from the newest
to the oldest; that, and that a signal flushes nothing, is taken from glibc and
marked external. `Crash` stands for any access through a null or a wrong pointer in
the validator or translator.

## Runs

| Run | Bounds | Shows |
|---|---|---|
| `scopes` | 2 names, 3 functions, 4 slots, one type | `GlobalScopeLast`, `DeclaresInOwnScope`, `Ownership`, `VisibleNamesFound`, `FirstDeclarerWins`, `FirstBindingStays`, and that the validator implements `BlockStructure`. Three functions give a nested one, two in sequence, and one after a nested one has ended, which is when `end_scope` returns another table than the enclosing function's |
| `types` | 2 names, 1 function, 2 type declarations per part | forward references, cycles and repeats: `NoDuplicates`, `WellNested`, `ProgressMade`, `Termination` |
| `overflow` | 3 functions, 2 slots | beyond the limit, with all undefined returns. `EveryFunctionOpened`: at the end every header has had its table made, and the slots hold the global table and those of the first `MAXSCOPE - 1` functions and no others. `BindingsKept`: no name that is found is lost, or taken over by a later function, whatever `begin_scope` and `end_scope` return |
| `typing` | 3 results and tests of if statements kept at once, 2 arguments, if statements 1 deep; all basic types, an unresolved name, a named array, an array of strings, a set, a variable that was named as a type; functions without parameters, with one, with two and with unresolved types | `OnlyGapsBroken`, `NoFalseAlarm`, `StrongestLeaf`, `CrashesKnown`. Every gap and every refusal occurs. Three entries are a variable and the bounds of a `for`, or an argument list with an operator in it; a result with its `leaves` stands for an expression of any depth |
| `names` | 2 names, 3 functions, 3 symbols in a table, 3 slots | `OwnNamesLocal`, `LocalsCleared`, `SameSymbolForBoth`, `GlobalsDeclared`, `TypedOnceDeclared`, `DeclarationsTranslated`, `NoFunctionLeftOut`; with three functions one has parameters, a later one none and one too many for the stack |
| `registers` | 2 arguments, 5 calls deep, 3 registers before new operators are refused | `DefinedInOrder`, `RightOperandHeld`, `ComparisonLeftHeld`, `ArgumentHeld`, `StatementOperandHeld`. Five calls are a statement's list, the statement, an operator, its operand and a call inside; two arguments are needed for the loops to disagree. Every kind in `Lost` and every crash occurs |
| `labels` | 4 labels before new statements are refused, 5 calls deep | `LabelsPlacedOnce`, `BranchesLand`; a statement inside another draws its labels between those of the outer one |
| `filewriter` | 2 texts, 3 streams, 2 runs | `AllOrNothing`, `LimitedOutput`, `ComesToEnd`, `RunsEnd`; the second run finds what the first left |

Runs that end in a counterexample, each against a sentence of the source:

| Run | Violated | The program |
|---|---|---|
| `shadowing` | `InsertionShadows` | a nested function and its enclosing one declare a parameter of the same name: the inner one's is inserted, and the lookup that follows still finds the outer symbol, although `symtab.h:14-15` has an insertion shadow earlier bindings |
| `result_type` | `UndefinedResultReported` | an undefined result type ends the validator with a null dereference before the message for it |
| `operands` | `BothExpressionsAdded` | `(a + b) + c`: the left register printed is one too low |
| `arguments` | `LocalArgumentByName` | a local variable as argument is printed as the newest register, as if it had been loaded, although line 478 keeps the number of a global variable's load |

Deadlock is checked everywhere: a finished walk stutters in `Terminated`,
`Finished` or `AllRunsOver`.

## Fairness

`FairSpec` of `Declarations` adds `WF_vars(Advance)`, of `FileWriter`
`WF_vars(Step)`. One thread runs without waiting for anything, so a step that is
possible is taken. `Advance` has the steps that leave a place of the tree;
the steps that add to the program (`DeclareVar`, ...) are not fair, and since the
syntax tree is finite an unbounded repetition of them at one place is excluded
by leaving it being always possible and fair. `Start` is not fair: nobody has to
run the program again.

## Why the bounds are enough

The hazards of the scope stack are relations between three blocks (one that declares,
one nested in it, one after it), the limit, and the last slot: three functions with four
slots, and three with two slots, have each. `MAXSCOPE` is 100 in the code and enters no
computation but the comparisons with the stack's ends. Names only meet each other in
pairs. An operand is found by counting back over what was generated in between; what is
in between is itself an operand, an argument or a statement, so a depth of five calls
with a limit on new operators has every pair of neighbours. The limits `MaxFuncs`,
`MaxTypes`, `MaxArgs`, `MaxDepth`, `MaxRegs`, `MaxLabels`, `MaxBodies`, `ParamCounts`,
`MaxRuns`, `MaxDecls`, `MaxChecked`, `MaxIfs`, `Declared` and `Functions` stand in the
guards of actions and are no part of the code; `MaxOpen` is the process's limit on open
streams. The theorems below hold for all values of them.

## Proofs

All theorems are of `Spec` (of `NamesSpec` in `NamesProofs` and `DeclaredProofs`),
without fairness, and rest on the named assumptions
of the modules only: `BaseType` is not one of the program's names, `NULL` is neither one
of them nor a position, `MAXSCOPE` is at least 2, the bounds are natural numbers.
`BlocksImplemented` alone has a hypothesis of its own, that a program has fewer
functions than the stack has slots: beyond that `begin_scope` may return any table
and the refinement does not hold.

| Theorem | States | Argument |
|---|---|---|
| `TypeCorrect` | `TypeOK`, `WellNested` | Neither is inductive alone: a block's end goes back to the frame below, and what phase that is in is known from the nesting of the frames only. Lemmas give what each operation of `Symtab` returns |
| `NoDuplicatesCorrect` | `NoDuplicates` | With types: every step that changes a table inserts a name just looked up there, gives a new value to one symbol, or adds an empty table (`TableSteps`). No assumption on the number of functions |
| `ScopesCorrect` | `GlobalScopeLast`, `DeclaresInOwnScope`, `Ownership` | The three need each other: where `begin_scope` and `end_scope` go is known from the order of the slots, the owner from the scope. `BlockSteps` reduces all other actions to one case |
| `FunctionsOpened` | `EveryFunctionOpened` | `Counted`: the headers still listed in the frames and the tables opened add up to the functions met. The sum over the frames is not a recursive operator but some function `sum` with the running sums, which every step extends or shortens. `StackOrder`: the stack holds, in the order in which they were made, the tables up to the limit and the global one last. With both, the functions without a scope of their own are exactly those beyond the first `MAXSCOPE - 1` |
| `NamesStayFound` | `BindingsKept` | `StackOrder` and `FoundPrecedes`: a step inserts into one table, or moves the global table one slot up behind a new one; a first slot with a name stays the first, or an earlier function's takes its place. No assumption on the number of functions or on what the undefined returns are |
| `NamesFound`, `BindingsStay` | `VisibleNamesFound`, `FirstBindingStays` | `ScopeInv` of `ScopesCorrect`, and `OwnInv`: the block that declares has the newest table, and only the first frame has the global one. A lookup ends in the first slot with the name, so that a new name in the newest table changes no lookup that succeeded before |
| `BlocksImplemented` | `ImplementsBlocks` | The invariants above give at most `MaxFuncs + 1` tables, so that the stack never overflows; then every action of `Declarations` is shown to be one of `BlockStructure` or to leave its variables alone |
| `LookupsExact` | `FirstDeclarerWins` | The order of the slots: the table opened first stands first, the global one last (`SlotOrder`), so that the first slot with a name is that of its earliest declarer. What the slots do not say, that the global table is the first of all and stays last, is `ScopeInv` |
| `WalkProgresses` | `ProgressMade` | `Progress` counts a block that was left as whole and adds the way come in the innermost one. The three things to show are that a block that is left has come no farther than a whole one, for which a list of types must not be longer than `MaxTypes` (`FewTypes`), that only frames above the first are left, and that there are no more blocks than functions met, which `Counted` of `FunctionsOpened` gives |
| `RegistersCorrect` | `DefinedInOrder` | Every action defines the register after `stack_counter`, or none, and lowers it only when a new function begins and nothing is defined |
| `LabelsCorrect` | `LabelsPlacedOnce`, `BranchesLand` | `LabelInv`: each statement in progress waits for labels that are drawn and not placed (`Waits`), no two statements for the same one, and returns only to labels that are placed (`Returns`); every branch goes to a label that is placed or waited for. `PlaceStep` is the step that matters: what is placed was waited for by the innermost statement alone, or is new |
| `OperandsHeld` | `RightOperandHeld`, `ComparisonLeftHeld`, `ArgumentHeld`, `StatementOperandHeld` | `OperandInv`: a returned value is in the newest register (`Returned`), for what is neither `Lost` nor direct; an expression is of the kind that the entry below waits for (`Link`); what a caller keeps of earlier values is in its own entry and stays true (`EntryOK`). For a call's arguments `Matches` has a function `f` that counts the numbered arguments: the kth has its number at `f[k]` in `findex`, and `loopc` is one more than `f` of the arguments passed. `ReturnStep`, `ReplaceStep` and `PushStep` reduce each action to the one or two entries it writes |
| `TypeCorrect` of `OperandProofs` | `TypeOK` of `Translate` | From `OperandInv`, `RegisterInv` and `LabelInv` together; that `loopc` stays within `findex` is `Matches` |
| `TypesWellFormed`, `RulesEnforced`, `NothingElseRefused`, `NumbersTyped`, `CrashesExplained` | `TypesTypeOK`, `OnlyGapsBroken`, `NoFalseAlarm`, `StrongestLeaf`, `CrashesKnown` | `TypesInv`: what is true of each entry of `checked` by itself (`Good`), given whether an error has been reported and whether anything unusual was met. Neither is ever taken back, so old entries stay good (`GoodStays`), and every action is reduced to the one entry it returns (`ReturnsKeeps`). For both directions of the rules each check has a lemma (`OperatorSound`, `OperatorBroken`, `ArgumentSound`, `ArgumentBroken`, ...); that `match_type` decides compatibility of what an assignment compares is `AssignMatches`. `StrongestLeaf` needs the type of both operands to be that of their strongest leaf; `CrashesKnown` needs that without anything unusual no type on the stack, in a parameter list or in a suspended test is `NULL` |
| `ValidatorRuns` | `NamesSpec => Spec` | The steps of the translator leave the tables alone, those of `Validate` are steps of `Next`; so the invariants of `ScopeProofs` can be used for the composition |
| `FunctionsUseTheirOwn`, `ScopesCleared` | `OwnNamesLocal`, `LocalsCleared` | `ScopesBalanced`: at each place of `codegen_funcdecl`, which symbols are local. The lookups at a function's start and at its end find the same symbols because the tables stay (`SameSymbols`) |
| `TranslatorTyped`, `PassesAgree` | `NamesTypeOK`, `SameSymbolForBoth` | `MeaningsKept`: a name that once meant a symbol outside table 1 is still looked up as that symbol, since a later table takes no found name over (`LookupStays`) and no symbol is moved (`SymbolsStay`) |
| `GlobalsPrinted` | `GlobalsDeclared` | `TreeInv`: while no error has been found, table 1 holds the main program's variables and, apart from them, its functions, and each function's names are in a table other than 1. A symbol of table 1 that is local is thus a function's. That names are apart is where the absence of errors is needed |
| `TypesPrinted` | `TypedOnceDeclared` | `SizedInv`: the blocks begun so far have the types of all their names, the function between header and allocas those of its header. By `TreeInv` every function's name is found, so that no header is left out |
| `DeclarationsPass` | `DeclarationsTranslated` | With `FpsymInv`, that `fpsym` holds the last parameter of an earlier function, each way to crash is one of those that the property names: a symbol that is neither a type nor of an unresolved one has got its type in the very step that prints it |
| `FunctionsTranslated` | `NoFunctionLeftOut` | The loop over the syntax tree's list of functions passes one over if the lookup of its name fails. By `TreeInv` the name is in the first table, which stays in a slot of the stack even when it is full (`GlobalOnStack`), and a table in front of it with the same name makes the lookup succeed too |
| `OutputCorrect` | `TypeOK`, `AllOrNothing`, `LimitedOutput` | `Inv` adds that a successful exit began below the limit on streams, and that a run begins with no streams |
| `RunsShort` | `ComesToEnd` | With `Inv`: no more streams than `MaxOpen` are open, so that a run has at most twice as many steps and one, whatever it outputs |

All safety properties and action properties of the passing runs are proved. Only
model-checked, because they are out of the prover's reach, are `Termination` and
`RunsEnd`, which need fairness and ENABLED (what makes them true, that each step comes
nearer to the end, is proved as `ProgressMade` and `ComesToEnd`), and what a definition
that recurs over the data computes for all inputs.

## Not modelled

- The parser and the lexer are generated code; the grammar decides which steps
  can come at a place and is read for that. The syntax tree's constructors fill
  records, `printAST` prints, `utility.c` allocates. `ir_test.c` is not part of
  the build.
- Of the type rules: the entries that `set_symvalue` gives the symbols of
  predefined functions, which are in no table; whether `then` and `else` have the
  same type, which is void for every statement; `randomize`, which does nothing.
- Of the translator's text: sizes and alignments beyond whether there is one
  (`get_ty_size`, `get_alignment`, `get_ty_exp`), `lastexptype`, the declarations of
  variables of array and set types, and what is printed for elements of arrays.
- The end of the array `findex`, and the labels of `for` statements, which are
  written to stderr only.

## Plan

1. Translator on a validated program: what `Names` does for names, for the
   statements of `Translate`, so that the guards on what can come at a place
   become steps of `Types`.
2. The labels of `for` statements and the registers of stderr's text.
