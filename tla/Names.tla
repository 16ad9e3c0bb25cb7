------------------------------- MODULE Names -------------------------------
(***************************************************************************)
(* The names of src/translate.c: what the translator keeps in the symbols  *)
(* that the validator has left in the tables, and which symbol, prefix and *)
(* type it prints for a name.                                              *)
(*                                                                         *)
(* The module composes the two passes.  The validator is Declarations; its *)
(* steps are taken here together with a record of what the syntax tree     *)
(* holds of the blocks that the translator visits (the main program and    *)
(* the functions declared in it), and with the meaning that each name has  *)
(* for the validator where the block's statements are checked.  When the   *)
(* program is accepted the translator runs on the tables as they are then. *)
(* A program with an error is followed no further: the error counter only  *)
(* grows, and the translator will not see it.                              *)
(*                                                                         *)
(* A Symbol pointer is its place <<t, j>> in the tables.  Its scope field  *)
(* is 1 for the symbols in `local`, its type field is -1 (printed as void) *)
(* but for those in `sized`.  Variables of arrays and sets, for which the  *)
(* translator has no size, are left out.                                   *)
(***************************************************************************)
EXTENDS Declarations, FiniteSets

CONSTANT MaxDecls  \* bound: symbols in one table

ASSUME NamesBound == MaxDecls \in Nat

ASSUME NoNameAssumption == NULL \notin Name

VARIABLES blocks,   \* blocks[1] the main program, blocks[k + 1] its k-th function
          at,       \* where the translator is
          current,  \* the block that is translated
          local,    \* symbols whose scope is 1
          sized,    \* symbols whose type is set
          fpsym,    \* the variable of codegen_funcdecl: is it set, and the lookup's result
          text,     \* ghost: names the main program declares, names the function allocates
          printed   \* ghost: what the last statement printed for a name

tvars == <<at, current, local, sized, fpsym, text, printed>>

nvars == <<vars, blocks, tvars>>

Place == UNION {{t} \X DOMAIN tables[t] : t \in Tab}

Sym(p) == tables[p[1]][p[2]]

\* global_lookup for the translator: the place of the symbol, or {}.
Lookup(n) == UNION {{stack[i]} \X local_lookup(stack[i], n) : i \in FirstSlot(n)}

LookupAll(names) == UNION {Lookup(n) : n \in names}

\* The meaning of every name now.
Meaning == [n \in Name |-> Lookup(n)]

NewBlock(name) == [name |-> name, params |-> << >>, vars |-> {}, means |-> [n \in Name |-> {}]]

Translating(where) == status = "accepted" /\ at = where

Set(s) == {s[k] : k \in DOMAIN s}

Declared(block) == Set(block.params) \cup block.vars

NamesInit ==
  /\ Init
  /\ blocks = << NewBlock(NULL) >>
  /\ at = "globals"
  /\ current = 1
  /\ local = {}
  /\ sized = {}
  /\ fpsym = [set |-> FALSE, sym |-> {}]
  /\ text = [globals |-> {}, allocas |-> {}]
  /\ printed = {}

-----------------------------------------------------------------------------
(* The validator's steps, with what the tree holds of the block in them    *)

\* The block whose declarations are read: depth 1 is the main program, depth 2
\* the function opened last; the translator does not visit what is deeper.
Noted ==
  CASE Len(frames) = 1 -> {1}
    [] Len(frames) = 2 -> {Len(blocks)}
    [] OTHER -> {}

Room == Len(tables[Top.own]) < MaxDecls

ReadParam(n) ==
  /\ Room
  /\ DeclareParam(n)
  /\ blocks' = [k \in DOMAIN blocks |->
                IF k \in Noted THEN [blocks[k] EXCEPT !.params = Append(@, n)] ELSE blocks[k]]

ReadVar(n, t) ==
  /\ Room
  /\ DeclareVar(n, t)
  /\ blocks' = [k \in DOMAIN blocks |->
                IF k \in Noted THEN [blocks[k] EXCEPT !.vars = @ \cup {n}] ELSE blocks[k]]

ReadFunc ==
  /\ OpenFunc
  /\ blocks' = IF Len(frames) = 1 THEN Append(blocks, NewBlock(Head(Top.list).name)) ELSE blocks

\* The statements of a block end; every name in them had this meaning.
ReadStatements ==
  /\ CloseFunc \/ Finish
  /\ blocks' = [k \in DOMAIN blocks |->
                IF k \in Noted THEN [blocks[k] EXCEPT !.means = Meaning] ELSE blocks[k]]

ReadOther ==
  /\ \/ \E n \in Name, t \in TypeRef : Room /\ DeclareType(n, t)
     \/ \E n \in Name, r, p \in TypeRef : Room /\ DeclareFunc(n, r, p)
     \/ EndParams \/ NoTypePart \/ EndTypeNames \/ ResolveType \/ EndTypes
     \/ EndVars \/ EndHeaders \/ EndBodies
  /\ UNCHANGED blocks

Validate ==
  /\ ~failed
  /\ \/ \E n \in Name : ReadParam(n)
     \/ \E n \in Name, t \in TypeRef : ReadVar(n, t)
     \/ ReadFunc \/ ReadStatements \/ ReadOther
  /\ UNCHANGED tvars

-----------------------------------------------------------------------------
(* The translator                                                          *)

(***************************************************************************)
(* set_var_size, for each of `syms`: the symbols whose type is set next.   *)
(* A variable or function of an unresolved type gets -1 again.  The value  *)
(* of a type's symbol is read as an Env_entry, and the type is left alone: *)
(* integer and longint pass for entries whose own type is NULL, which is   *)
(* dereferenced, the other types for no kind of entry.                     *)
(***************************************************************************)
set_var_size(syms) ==
  {T \in SUBSET (sized \cup syms) :
     \A p \in sized \cup syms :
       p \in T <=> IF p \in syms /\ Sym(p).kind # "type" THEN ~Sym(p).named ELSE p \in sized}

Misread(syms) == \E p \in syms : Sym(p).kind = "type" /\ ~Sym(p).named

\* get_alignment ends without a return value for a symbol without type, and
\* what is then printed may be no string.
Unaligned(syms) == ~(syms \subseteq sized')

GoesTo(where, hazard) == at' \in IF hazard THEN {where, "crashed"} ELSE {where}

Found(names) == {n \in names : Lookup(n) # {}}

\* codegen_decl at global scope; the scopes stay as they are.
DeclareMain(locals) ==
  /\ Translating("globals")
  /\ LET syms == LookupAll(blocks[1].vars)
     IN  /\ sized' \in set_var_size(syms)
         /\ GoesTo("body", Misread(syms) \/ Unaligned(syms))
  /\ local' = locals
  /\ text' = [text EXCEPT !.globals = Found(blocks[1].vars)]
  /\ UNCHANGED <<vars, blocks, current, fpsym, printed>>

\* Variant: the main program's variables are declared as a function's are.
DeclareGlobalsLocal == DeclareMain(LookupAll(blocks[1].vars))

DeclareGlobals == DeclareMain(local)

\* What the statements print of name n: for a variable codegen_var's prefix,
\* and the type of the symbol in a load, a store or the call of a function.
Reference(what, n) ==
  {[what |-> what, name |-> n, sym |-> p, prefix |-> IF p \in local THEN "%" ELSE "@",
    typed |-> p \in sized] : p \in Lookup(n)}

Statement == Translating("body") /\ UNCHANGED <<vars, blocks, current, local, sized, fpsym, text>>

\* A name that check_var has let pass; its type and alignment are printed.
UseVariable(n) ==
  /\ Statement
  /\ \E p \in blocks[current].means[n] : Sym(p).kind \in {"var", "func"} /\ ~Sym(p).named
  /\ printed' = Reference("variable", n)
  /\ GoesTo("body", Unaligned(Lookup(n)))

\* A call that check_expr has given the type of a function.
CallFunction(n) ==
  /\ Statement
  /\ \E p \in blocks[current].means[n] : Sym(p).kind = "func"
  /\ printed' = Reference("call", n)
  /\ at' = at

\* codegen_funcdecl clears the scopes of what the function declares.
EndBodyClearing(names, next) ==
  /\ Translating("body")
  /\ local' = IF current = 1 THEN local ELSE local \ LookupAll(names)
  /\ current' = next
  /\ at' = "next"
  /\ text' = [text EXCEPT !.allocas = {}]
  /\ printed' = {}
  /\ UNCHANGED <<vars, blocks, sized, fpsym>>

\* Variants: the variables are not cleared; the loop moves on twice.
EndBodyKeepsVars == EndBodyClearing(Set(blocks[current].params), current)

EndBodyAdvances == EndBodyClearing(Declared(blocks[current]), current + 1)

EndBody == EndBodyClearing(Declared(blocks[current]), current)

\* The header of the next function; one whose name is not found is left out.
\* fpsym keeps what it held when the function has no parameters.
Following == blocks[current + 1]

DefineSizing(syms, stale) ==
  /\ Translating("next")
  /\ current < Len(blocks)
  /\ current' = current + 1
  /\ IF Lookup(Following.name) = {}
     THEN UNCHANGED <<local, sized, fpsym, at>>
     ELSE /\ sized' \in set_var_size(syms)
          /\ local' = local \cup Lookup(Following.name)
          /\ fpsym' = IF Following.params = << >> THEN stale
                      ELSE [set |-> TRUE, sym |-> Lookup(Following.params[Len(Following.params)])]
          /\ GoesTo("allocate", Misread(syms))
  /\ UNCHANGED <<vars, blocks, text, printed>>

HeaderNames == {Following.name} \cup Set(Following.params)

\* Variants: the parameters' types are not set; fpsym does not outlive a header.
DefineFunctionUnsized == DefineSizing(Lookup(Following.name), fpsym)

DefineFunctionForgets == DefineSizing(LookupAll(HeaderNames), [set |-> FALSE, sym |-> {}])

DefineFunction == DefineSizing(LookupAll(HeaderNames), fpsym)

(***************************************************************************)
(* The allocas.  That of the function's own variable has the alignment of  *)
(* fpsym: the last parameter, or, when this function has none, the last    *)
(* parameter of the functions before, or whatever the variable holds.      *)
(***************************************************************************)
AllocateAsLocal(names) ==
  /\ Translating("allocate")
  /\ LET f == blocks[current]
         syms == LookupAll(Declared(f))
     IN  /\ sized' \in set_var_size(LookupAll(f.vars))
         /\ local' = local \cup LookupAll(names)
         /\ text' = [text EXCEPT !.allocas = {f.name} \cup Found(Declared(f))]
         /\ IF fpsym.set /\ fpsym.sym = {} THEN at' = "crashed"
            ELSE GoesTo("body", \/ ~fpsym.set
                                \/ Misread(LookupAll(f.vars))
                                \/ Unaligned(syms \cup fpsym.sym))
  /\ UNCHANGED <<vars, blocks, current, fpsym, printed>>

\* Variant: the scope of the variables is left global.
AllocateGlobal == AllocateAsLocal(Set(blocks[current].params))

Allocate == AllocateAsLocal(Declared(blocks[current]))

EndProgram ==
  /\ Translating("next")
  /\ current = Len(blocks)
  /\ at' = "done"
  /\ UNCHANGED <<vars, blocks, current, local, sized, fpsym, text, printed>>

Walk == DeclareGlobals \/ EndBody \/ DefineFunction \/ Allocate \/ EndProgram

Stopped ==
  /\ failed \/ status \in {"rejected", "crashed"} \/ at \in {"done", "crashed"}
  /\ UNCHANGED nvars

NamesNext ==
  \/ Validate
  \/ \E n \in Name : UseVariable(n) \/ CallFunction(n)
  \/ Walk
  \/ Stopped

NamesSpec == NamesInit /\ [][NamesNext]_nvars

-----------------------------------------------------------------------------
(* Properties                                                              *)

Fits == Len(tables) <= MAXSCOPE

NamesTypeOK ==
  /\ at \in {"globals", "body", "next", "allocate", "done", "crashed"}
  /\ current \in DOMAIN blocks
  /\ local \subseteq Place /\ sized \subseteq Place
  /\ fpsym.set \in BOOLEAN /\ fpsym.sym \subseteq Place

\* In a function, its own name, its parameters and its variables are printed as
\* registers that this function has allocated.
OwnNamesLocal ==
  \A u \in printed :
    /\ Fits /\ current > 1 /\ u.what = "variable"
    /\ u.name \in Declared(blocks[current]) \cup {blocks[current].name}
    => u.prefix = "%" /\ u.name \in text.allocas

\* Between two functions the only symbols still local are those that the names
\* of the functions translated so far resolve to.
LocalsCleared ==
  at = "next" => local \subseteq LookupAll({blocks[k].name : k \in 2 .. current})

\* A name that the validator took for one of a function's table is the same
\* symbol for the translator, for which all functions of the program have a table.
SameSymbolForBoth ==
  \A u \in printed :
    Fits => \A p \in blocks[current].means[u.name] : p[1] # 1 => u.sym = p

\* A name that the main program declares and no function has in its table is
\* printed everywhere as the global that was declared.
GlobalsDeclared ==
  \A u \in printed :
    Fits /\ u.what = "variable" /\ u.name \in blocks[1].vars /\ u.sym[1] = 1 =>
      u.prefix = "@" /\ u.name \in text.globals

\* What has been declared so far has its type: a name of the main program, of a
\* function whose definition has begun, or such a function itself.
TypedOnceDeclared ==
  \A u \in printed :
    ~u.typed /\ Sym(u.sym).kind # "type" /\ ~Sym(u.sym).named =>
      \A k \in 1 .. current :
        u.name \notin {blocks[k].name} \cup Declared(blocks[k])

\* No function is left out of the text: the header of the next one is printed
\* whenever the loop comes to it, because the lookup of its name succeeds, although
\* the tables of all functions now stand before the one that holds the name.
NoFunctionLeftOut == [][current' > current => at' # "next"]_nvars

\* The symbols whose types and alignments a step of the declarations prints.
DeclaredNow ==
  CASE at = "globals" -> LookupAll(blocks[1].vars)
    [] at = "next" -> LookupAll(HeaderNames)
    [] at = "allocate" -> LookupAll(Declared(blocks[current])) \cup fpsym.sym

Typeless(p) == Sym(p).named \/ Sym(p).kind = "type"

\* A step of the declarations ends the translator only if one of the very names it
\* declares is found as a type or with a type that was not resolved, if the scopes
\* did not fit, or at the allocas if no function up to this one has a parameter.
DeclarationsTranslated ==
  [][at' = "crashed" /\ at \in {"globals", "next", "allocate"} =>
       \/ ~Fits
       \/ \E p \in DeclaredNow : Typeless(p)
       \/ at = "allocate" /\ \A k \in 2 .. current : blocks[k].params = << >>]_nvars

=============================================================================
