------------------------------- MODULE Symtab -------------------------------
(***************************************************************************)
(* The symbol tables of src/symtab.c: the array `stack` of scope tables    *)
(* and, for each table, the linked list of its symbols in insertion order. *)
(*                                                                         *)
(* A Sym_tab pointer is the position of its table in `tables`, the         *)
(* sequence of the tables allocated so far, so table 1 is the first one    *)
(* created (the global one).  A symbol is a record: its name, its value    *)
(* abstracted to `kind` and `named` (below), and the ghost field `owner`,  *)
(* the table of the block whose declaration inserted it.                   *)
(*                                                                         *)
(*   kind   what the value points to: a Type_ty, an Env_varEntry or an     *)
(*          Env_funcEntry;                                                 *)
(*   named  the Type_ty, or the type of the variable, or the result type   *)
(*          of the function, is a Type_name whose underlying type is NULL. *)
(***************************************************************************)
EXTENDS Naturals, Sequences

CONSTANTS Name,      \* identifiers of the program
          BaseType,  \* a predefined type name (integer, real, ...): a keyword of the lexer
          MAXSCOPE,  \* slots of `stack`
          NULL       \* the null pointer

ASSUME BaseTypeAssumption == BaseType \notin Name
ASSUME MaxScopeAssumption == MAXSCOPE \in Nat \ {0, 1}
ASSUME NullAssumption == NULL \notin Nat

VARIABLES stack,   \* stack[i]: a table, or NULL for a free slot
          tables   \* tables[t]: the symbols of table t, in insertion order

Slot == 0 .. (MAXSCOPE - 1)

TypeName == Name \cup {BaseType}

Kind == {"type", "var", "func"}

Value == [kind : Kind, named : BOOLEAN]

Symbol == [name : TypeName, kind : Kind, named : BOOLEAN, owner : Nat]

Tab == DOMAIN tables

new_sym(n, v, o) == [name |-> n, kind |-> v.kind, named |-> v.named, owner |-> o]

value(sym) == [kind |-> sym.kind, named |-> sym.named]

(***************************************************************************)
(* The lookups return a symbol or NULL: here the set of the one position   *)
(* (local_lookup) or of the one symbol (global_lookup) found, or {}.       *)
(***************************************************************************)
local_lookup(t, n) ==
  IF t = NULL THEN {}
  ELSE {j \in DOMAIN tables[t] :
          /\ tables[t][j].name = n
          /\ \A k \in 1 .. (j - 1) : tables[t][k].name # n}

FirstSlot(n) ==
  {i \in Slot : /\ local_lookup(stack[i], n) # {}
                /\ \A k \in 0 .. (i - 1) : local_lookup(stack[k], n) = {}}

global_lookup(n) ==
  UNION {{tables[stack[i]][j] : j \in local_lookup(stack[i], n)} : i \in FirstSlot(n)}

(***************************************************************************)
(* Updates of the tables, as the next value of `tables`.                   *)
(***************************************************************************)
insert_sym(t, sym) == [tables EXCEPT ![t] = Append(@, sym)]

set_symvalue(t, n, v) ==
  [tables EXCEPT ![t] =
     [j \in DOMAIN @ |-> IF j \in local_lookup(t, n)
                         THEN new_sym(n, v, @[j].owner) ELSE @[j]]]

create_tab == Append(tables, << >>)

(***************************************************************************)
(* begin_scope puts `t` in the slot of the last table, which moves one     *)
(* slot up.  When no slot is free the function ends without a return       *)
(* statement: the stack is unchanged and the caller reads an indeterminate *)
(* value, here any table, `t` among them, or NULL.                         *)
(***************************************************************************)
FreeSlot == {i \in Slot : stack[i] = NULL /\ \A k \in 0 .. (i - 1) : stack[k] # NULL}

\* Variants of begin_scope that a property has to tell from the code's: the new
\* table after the last one, and the new table before all others.
begin_scope_on_top(t) ==
  IF FreeSlot = {} THEN stack
  ELSE [stack EXCEPT ![CHOOSE i \in FreeSlot : TRUE] = t]

begin_scope_in_front(t) ==
  IF FreeSlot = {} THEN stack
  ELSE [i \in Slot |-> IF i = 0 THEN t ELSE stack[i - 1]]

\* Variant: the last table does not move one slot up.
begin_scope_over_last(t) ==
  IF FreeSlot = {} THEN stack
  ELSE LET f == CHOOSE i \in FreeSlot : TRUE
       IN  IF f = 0 THEN [stack EXCEPT ![0] = t] ELSE [stack EXCEPT ![f - 1] = t]

\* Variant: on a full stack the new table takes the last slot.
begin_scope_over_global(t) ==
  IF FreeSlot = {} THEN [stack EXCEPT ![MAXSCOPE - 1] = t]
  ELSE LET f == CHOOSE i \in FreeSlot : TRUE
       IN  IF f = 0 THEN [stack EXCEPT ![0] = t]
           ELSE [stack EXCEPT ![f] = stack[f - 1], ![f - 1] = t]

begin_scope(t) ==
  IF FreeSlot = {} THEN stack
  ELSE LET f == CHOOSE i \in FreeSlot : TRUE
       IN  IF f = 0 THEN [stack EXCEPT ![0] = t]
           ELSE [stack EXCEPT ![f] = stack[f - 1], ![f - 1] = t]

\* Variant: the table in the slot that was filled, not the new one.
begin_scope_returns_last(t) ==
  IF FreeSlot = {} THEN Tab \cup {t, NULL} ELSE {stack[i - 1] : i \in FreeSlot}

begin_scope_returns(t) ==
  IF FreeSlot = {} THEN Tab \cup {t, NULL} ELSE {t}

(***************************************************************************)
(* end_scope only reads the stack: it returns the slot after the one that  *)
(* holds `t`.  From the last slot it reads past the array, and when `t` is *)
(* in no slot it ends without a return statement: again any value.         *)
(***************************************************************************)
SlotOf(t) == {i \in Slot : stack[i] = t /\ \A k \in 0 .. (i - 1) : stack[k] # t}

end_scope_returns(t) ==
  IF \E i \in SlotOf(t) : i + 1 \in Slot
  THEN {stack[i + 1] : i \in SlotOf(t)}
  ELSE Tab \cup {NULL}

=============================================================================
