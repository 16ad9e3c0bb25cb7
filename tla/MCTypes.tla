------------------------------ MODULE MCTypes ------------------------------
(***************************************************************************)
(* Instances of Types for TLC: variables of every basic type, of an array  *)
(* type that has a name, of arrays and sets that have none and of another  *)
(* variable in the place of a type, functions with a parameter of each     *)
(* form.                                                                   *)
(***************************************************************************)
EXTENDS Types

Named == [kind |-> "arr", of |-> "int", name |-> "A"]
Strings == [kind |-> "arr", of |-> "string", name |-> "new"]
Letters == [kind |-> "set", of |-> "char", name |-> "new"]
OfVariable == [kind |-> "int", of |-> "none", name |-> "V"]

MCDeclared == {Static(k) : k \in Base \cup {"name"}} \cup {Named, Strings, Letters, OfVariable}

Function(params, result) == [params |-> params, result |-> result]

MCFunctions ==
  {Function(<< >>, Static("int")), Function(<<Static("longint")>>, Static("real")),
   Function(<<Named, Letters>>, Named), Function(<<Static("string")>>, Static("name")),
   Function(<<Static("name")>>, Static("bool"))}

=============================================================================
