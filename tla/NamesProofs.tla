----------------------------- MODULE NamesProofs -----------------------------
(***************************************************************************)
(* Proofs about Names, for any program that the validator accepts: the     *)
(* scope fields that codegen_funcdecl sets in the symbols and clears again *)
(* are those of the block that is translated, wherever they are read.      *)
(***************************************************************************)
EXTENDS Names, ScopeProofs

\* The symbols that the names of the functions defined so far resolve to.
FunctionSymbols == LookupAll({blocks[k].name : k \in 2 .. current})

OwnNames == Declared(blocks[current]) \cup {blocks[current].name}

\* Which symbols are local, and what has been allocated, where the translator is.
ScopesBalanced ==
  /\ at = "globals" => local = {} /\ current = 1
  /\ at = "next" => local \subseteq FunctionSymbols
  /\ at = "allocate" =>
       /\ current > 1
       /\ local \subseteq FunctionSymbols
       /\ Lookup(blocks[current].name) \subseteq local
  /\ at = "body" =>
       /\ local \subseteq IF current = 1 THEN {}
                          ELSE FunctionSymbols \cup LookupAll(Declared(blocks[current]))
       /\ current > 1 =>
            /\ LookupAll(OwnNames) \subseteq local
            /\ text.allocas = {blocks[current].name} \cup Found(Declared(blocks[current]))

\* The translator runs after the validator, and what a statement printed is
\* forgotten before the names get another meaning.
PassesInOrder ==
  /\ at # "globals" => status = "accepted"
  /\ printed # {} => at \in {"body", "crashed"}
  /\ current \in Nat \ {0}

NamesInv == PassesInOrder /\ ScopesBalanced /\ OwnNamesLocal

-----------------------------------------------------------------------------
(* Names and symbols                                                       *)

LEMMA LookupAllParts ==
  /\ \A A, B : A \subseteq B => LookupAll(A) \subseteq LookupAll(B)
  /\ \A A, B : LookupAll(A \cup B) = LookupAll(A) \cup LookupAll(B)
  /\ \A n : LookupAll({n}) = Lookup(n)
  /\ \A A : \A n \in A : Lookup(n) \subseteq LookupAll(A)
BY DEF LookupAll

\* While the tables stay, every name keeps its symbol.
LEMMA SameSymbols ==
  ASSUME UNCHANGED vars
  PROVE  /\ \A n : Lookup(n)' = Lookup(n)
         /\ \A A : LookupAll(A)' = LookupAll(A)
         /\ \A A : Found(A)' = Found(A)
<1>1. UNCHANGED <<stack, tables>>
  BY DEF vars
<1>2. \A n : Lookup(n)' = Lookup(n)
  BY <1>1 DEF Lookup, FirstSlot, local_lookup, Slot, Tab
<1>3. \A A : LookupAll(A)' = LookupAll(A) /\ Found(A)' = Found(A)
  BY <1>2 DEF LookupAll, Found
<1> QED BY <1>2, <1>3

\* The validator's steps end with the verdict.
LEMMA ValidateRuns ==
  ASSUME Validate
  PROVE  status = "running"
<1>1. ASSUME NEW n \in Name, ReadParam(n) PROVE status = "running"
  BY <1>1 DEF ReadParam, DeclareParam, In
<1>2. ASSUME NEW n \in Name, NEW t \in TypeRef, ReadVar(n, t) PROVE status = "running"
  BY <1>2 DEF ReadVar, DeclareVar, In
<1>3. CASE ReadFunc
  BY <1>3 DEF ReadFunc, OpenFunc, In
<1>4. CASE ReadStatements
  BY <1>4 DEF ReadStatements, CloseFunc, Finish, In
<1>5. ASSUME NEW n \in Name, NEW t \in TypeRef, DeclareType(n, t) PROVE status = "running"
  BY <1>5 DEF DeclareType, In
<1>6. ASSUME NEW n \in Name, NEW r \in TypeRef, NEW p \in TypeRef, DeclareFunc(n, r, p)
      PROVE  status = "running"
  BY <1>6 DEF DeclareFunc, In
<1>7. CASE EndParams \/ NoTypePart \/ EndTypeNames \/ ResolveType
  BY <1>7 DEF EndParams, NoTypePart, EndTypeNames, ResolveType, In
<1>8. CASE EndTypes \/ EndVars \/ EndHeaders \/ EndBodies
  BY <1>8 DEF EndTypes, EndVars, EndHeaders, EndBodies, In
<1> QED BY <1>1, <1>2, <1>3, <1>4, <1>5, <1>6, <1>7, <1>8 DEF Validate, ReadOther

LEMMA NothingPrinted == printed = {} => OwnNamesLocal
BY DEF OwnNamesLocal

-----------------------------------------------------------------------------
(* The invariant                                                           *)

LEMMA InitNames == ASSUME NamesInit PROVE NamesInv
BY DEF NamesInit, NamesInv, PassesInOrder, ScopesBalanced, OwnNamesLocal

\* What a function's own name refers to is local, and has been allocated.
LEMMA ReferenceLocal ==
  ASSUME NamesInv, Translating("body"), NEW n, NEW u \in Reference("variable", n),
         current > 1, u.name \in OwnNames
  PROVE  u.prefix = "%" /\ u.name \in text.allocas
<1>1. PICK p \in Lookup(n) : /\ u.name = n
                             /\ u.prefix = IF p \in local THEN "%" ELSE "@"
  BY DEF Reference
<1>2. Lookup(n) \subseteq LookupAll(OwnNames)
  BY <1>1, LookupAllParts
<1>3. LookupAll(OwnNames) \subseteq local
  BY DEF NamesInv, ScopesBalanced, Translating
<1>4. u.prefix = "%"
  BY <1>1, <1>2, <1>3
<1>5. text.allocas = {blocks[current].name} \cup Found(Declared(blocks[current]))
  BY DEF NamesInv, ScopesBalanced, Translating
<1>6. n \in Found(Declared(blocks[current])) \cup {blocks[current].name}
  BY <1>1 DEF Found, OwnNames
<1> QED BY <1>1, <1>4, <1>5, <1>6

LEMMA StatementNames ==
  ASSUME NamesInv, NEW n \in Name, UseVariable(n) \/ CallFunction(n)
  PROVE  NamesInv'
<1>1. /\ Translating("body")
      /\ UNCHANGED <<vars, blocks, current, local, sized, fpsym, text>>
      /\ at' \in {"body", "crashed"}
  BY DEF UseVariable, CallFunction, Statement, GoesTo, Translating
<1>2. UNCHANGED status
  BY <1>1 DEF vars
<1>3. PassesInOrder'
  BY <1>1, <1>2 DEF NamesInv, PassesInOrder, Translating
<1>4. ScopesBalanced'
  BY <1>1, SameSymbols
     DEF NamesInv, ScopesBalanced, Translating, FunctionSymbols, OwnNames, Declared, Set
<1>5. OwnNamesLocal'
  <2>1. CASE UseVariable(n)
    <3>1. printed' = Reference("variable", n)
      BY <2>1 DEF UseVariable
    <3>2. \A u \in printed' :
            current > 1 /\ u.name \in OwnNames => u.prefix = "%" /\ u.name \in text.allocas
      BY <1>1, <3>1, ReferenceLocal
    <3> QED BY <1>1, <3>2 DEF OwnNamesLocal, OwnNames, Declared, Set
  <2>2. CASE CallFunction(n)
    <3>1. \A u \in printed' : u.what = "call"
      BY <2>2 DEF CallFunction, Reference
    <3> QED BY <3>1 DEF OwnNamesLocal
  <2> QED BY <2>1, <2>2
<1> QED BY <1>3, <1>4, <1>5 DEF NamesInv

LEMMA DeclareGlobalsNames ==
  ASSUME NamesInv, DeclareGlobals
  PROVE  NamesInv'
<1>1. /\ Translating("globals")
      /\ UNCHANGED <<vars, blocks, current, local, printed>>
      /\ at' \in {"body", "crashed"}
  BY DEF DeclareGlobals, DeclareMain, GoesTo
<1>2. local = {} /\ current = 1 /\ printed = {}
  BY <1>1 DEF NamesInv, ScopesBalanced, PassesInOrder, Translating
<1>3. UNCHANGED status
  BY <1>1 DEF vars
<1>4. PassesInOrder'
  BY <1>1, <1>2, <1>3 DEF PassesInOrder, Translating
<1>5. ScopesBalanced'
  BY <1>1, <1>2 DEF ScopesBalanced
<1>6. OwnNamesLocal'
  BY <1>1, <1>2 DEF OwnNamesLocal
<1> QED BY <1>4, <1>5, <1>6 DEF NamesInv

LEMMA EndBodyNames ==
  ASSUME NamesInv, EndBody
  PROVE  NamesInv'
<1>1. /\ Translating("body")
      /\ local' = IF current = 1 THEN local
                  ELSE local \ LookupAll(Declared(blocks[current]))
      /\ at' = "next" /\ printed' = {}
      /\ UNCHANGED <<vars, blocks, current>>
  BY DEF EndBody, EndBodyClearing
<1>2. UNCHANGED status
  BY <1>1 DEF vars
<1>3. PassesInOrder'
  BY <1>1, <1>2 DEF NamesInv, PassesInOrder, Translating
<1>4. FunctionSymbols' = FunctionSymbols
  BY <1>1, SameSymbols DEF FunctionSymbols
<1>5. local' \subseteq FunctionSymbols
  BY <1>1 DEF NamesInv, ScopesBalanced, Translating
<1>6. ScopesBalanced'
  BY <1>1, <1>4, <1>5 DEF ScopesBalanced
<1>7. OwnNamesLocal'
  BY <1>1 DEF OwnNamesLocal
<1> QED BY <1>3, <1>6, <1>7 DEF NamesInv

\* The symbols of the functions defined so far stay, and one more is added.
LEMMA OneMoreFunction ==
  ASSUME UNCHANGED <<vars, blocks>>, current \in Nat \ {0}, current' = current + 1
  PROVE  FunctionSymbols' = FunctionSymbols \cup Lookup(Following.name)
<1>1. 2 .. current + 1 = (2 .. current) \cup {current + 1}
  OBVIOUS
<1>2. {blocks[k].name : k \in 2 .. current + 1}
        = {blocks[k].name : k \in 2 .. current} \cup {Following.name}
  BY <1>1 DEF Following
<1>3. FunctionSymbols' = LookupAll({blocks[k].name : k \in 2 .. current + 1})
  BY SameSymbols DEF FunctionSymbols
<1>4. ASSUME NEW A
      PROVE  LookupAll(A \cup {Following.name})
               = LookupAll(A) \cup Lookup(Following.name)
  BY DEF LookupAll
<1> DEFINE defined == {blocks[k].name : k \in 2 .. current}
<1>5. LookupAll({blocks[k].name : k \in 2 .. current + 1})
        = LookupAll(defined \cup {Following.name})
  BY <1>2
<1>6. LookupAll(defined \cup {Following.name}) = LookupAll(defined) \cup Lookup(Following.name)
  <2> HIDE DEF defined
  <2> QED BY <1>4
<1> QED BY <1>3, <1>5, <1>6 DEF FunctionSymbols

LEMMA DefineFunctionNames ==
  ASSUME NamesInv, DefineFunction
  PROVE  NamesInv'
<1>1. /\ Translating("next")
      /\ current' = current + 1
      /\ UNCHANGED <<vars, blocks, text, printed>>
      /\ \/ local' = local /\ at' = at
         \/ local' = local \cup Lookup(Following.name) /\ at' \in {"allocate", "crashed"}
  BY DEF DefineFunction, DefineSizing, GoesTo
<1>2. current \in Nat \ {0} /\ printed = {} /\ local \subseteq FunctionSymbols
  BY <1>1 DEF NamesInv, PassesInOrder, ScopesBalanced, Translating
<1>3. UNCHANGED status
  BY <1>1 DEF vars
<1>4. PassesInOrder'
  BY <1>1, <1>2, <1>3 DEF PassesInOrder, Translating
<1>5. FunctionSymbols' = FunctionSymbols \cup Lookup(Following.name)
  BY <1>1, <1>2, OneMoreFunction
<1>6. Lookup(blocks[current].name)' = Lookup(Following.name)
  BY <1>1, SameSymbols DEF Following
<1>7. ScopesBalanced'
  BY <1>1, <1>2, <1>5, <1>6 DEF ScopesBalanced, Translating
<1>8. OwnNamesLocal'
  BY <1>1, <1>2 DEF OwnNamesLocal
<1> QED BY <1>4, <1>7, <1>8 DEF NamesInv

LEMMA AllocateNames ==
  ASSUME NamesInv, Allocate
  PROVE  NamesInv'
<1> DEFINE own == Declared(blocks[current])
<1>1. /\ Translating("allocate")
      /\ local' = local \cup LookupAll(own)
      /\ text' = [text EXCEPT !.allocas = {blocks[current].name} \cup Found(own)]
      /\ at' \in {"body", "crashed"}
      /\ UNCHANGED <<vars, blocks, current, printed>>
  BY DEF Allocate, AllocateAsLocal, GoesTo
<1>2. /\ current > 1 /\ printed = {} /\ current \in Nat
      /\ local \subseteq FunctionSymbols
      /\ Lookup(blocks[current].name) \subseteq local
  BY <1>1 DEF NamesInv, PassesInOrder, ScopesBalanced, Translating
<1>3. UNCHANGED status
  BY <1>1 DEF vars
<1>4. PassesInOrder'
  BY <1>1, <1>2, <1>3 DEF PassesInOrder, Translating
<1>5. own' = own
  BY <1>1 DEF Declared, Set
<1>6. /\ FunctionSymbols' = FunctionSymbols
      /\ LookupAll(own)' = LookupAll(own)
      /\ Found(own)' = Found(own)
      /\ LookupAll(OwnNames)' = LookupAll(OwnNames)
  BY <1>1, <1>5, SameSymbols DEF FunctionSymbols, OwnNames
<1>7. LookupAll(OwnNames) \subseteq local'
  <2>1. LookupAll(OwnNames) = LookupAll(own) \cup LookupAll({blocks[current].name})
    <3>1. \A A, B : LookupAll(A \cup B) = LookupAll(A) \cup LookupAll(B)
      BY LookupAllParts
    <3> DEFINE name == {blocks[current].name}
    <3>2. OwnNames = own \cup name
      BY DEF OwnNames
    <3> HIDE DEF own, name
    <3>3. LookupAll(own \cup name) = LookupAll(own) \cup LookupAll(name)
      BY <3>1
    <3> QED BY <3>2, <3>3 DEF name
  <2>2. LookupAll({blocks[current].name}) = Lookup(blocks[current].name)
    BY LookupAllParts
  <2> QED BY <1>1, <1>2, <2>1, <2>2
<1>8. ScopesBalanced'
  BY <1>1, <1>2, <1>5, <1>6, <1>7 DEF ScopesBalanced
<1>9. OwnNamesLocal'
  BY <1>1, <1>2 DEF OwnNamesLocal
<1> QED BY <1>4, <1>8, <1>9 DEF NamesInv

LEMMA EndProgramNames ==
  ASSUME NamesInv, EndProgram
  PROVE  NamesInv'
<1>1. /\ Translating("next") /\ at' = "done"
      /\ UNCHANGED <<vars, current, printed>>
  BY DEF EndProgram
<1>2. UNCHANGED status
  BY <1>1 DEF vars
<1>3. printed = {}
  BY <1>1 DEF NamesInv, PassesInOrder, Translating
<1>4. PassesInOrder'
  BY <1>1, <1>2, <1>3 DEF NamesInv, PassesInOrder, Translating
<1>5. ScopesBalanced'
  BY <1>1 DEF ScopesBalanced
<1>6. OwnNamesLocal'
  BY <1>1, <1>3 DEF OwnNamesLocal
<1> QED BY <1>4, <1>5, <1>6 DEF NamesInv

LEMMA ValidateNames ==
  ASSUME NamesInv, Validate
  PROVE  NamesInv'
<1>1. at = "globals"
  BY ValidateRuns DEF NamesInv, PassesInOrder
<1>2. UNCHANGED tvars
  BY DEF Validate
<1>3. at' = "globals" /\ local' = {} /\ current' = 1 /\ printed' = {}
  BY <1>1, <1>2 DEF NamesInv, PassesInOrder, ScopesBalanced, tvars
<1> QED BY <1>3 DEF NamesInv, PassesInOrder, ScopesBalanced, OwnNamesLocal

LEMMA UnchangedNames ==
  ASSUME NamesInv, UNCHANGED nvars
  PROVE  NamesInv'
<1>1. UNCHANGED <<vars, status, blocks, at, current, local, text, printed>>
  BY DEF nvars, tvars, vars
<1>2. Lookup(blocks[current].name)' = Lookup(blocks[current].name)
  BY <1>1, SameSymbols
<1>3. PassesInOrder'
  BY <1>1 DEF NamesInv, PassesInOrder
<1>4. ScopesBalanced'
  <2>1. Declared(blocks[current])' = Declared(blocks[current]) /\ OwnNames' = OwnNames
    BY <1>1 DEF OwnNames, Declared, Set
  <2>2. /\ FunctionSymbols' = FunctionSymbols
        /\ LookupAll(OwnNames)' = LookupAll(OwnNames)
        /\ LookupAll(Declared(blocks[current]))' = LookupAll(Declared(blocks[current]))
        /\ Found(Declared(blocks[current]))' = Found(Declared(blocks[current]))
    BY <1>1, <2>1, SameSymbols DEF FunctionSymbols
  <2> QED BY <1>1, <1>2, <2>1, <2>2 DEF NamesInv, ScopesBalanced
<1>5. OwnNamesLocal'
  BY <1>1 DEF NamesInv, OwnNamesLocal, Declared, Set, Fits, vars
<1> QED BY <1>3, <1>4, <1>5 DEF NamesInv

LEMMA NextNames ==
  ASSUME NamesInv, [NamesNext]_nvars
  PROVE  NamesInv'
<1>1. ASSUME NEW n \in Name, UseVariable(n) \/ CallFunction(n) PROVE NamesInv'
  BY <1>1, StatementNames
<1>2. CASE Validate
  BY <1>2, ValidateNames
<1>3. CASE DeclareGlobals
  BY <1>3, DeclareGlobalsNames
<1>4. CASE EndBody
  BY <1>4, EndBodyNames
<1>5. CASE DefineFunction
  BY <1>5, DefineFunctionNames
<1>6. CASE Allocate
  BY <1>6, AllocateNames
<1>7. CASE EndProgram
  BY <1>7, EndProgramNames
<1>8. CASE Stopped \/ UNCHANGED nvars
  BY <1>8, UnchangedNames DEF Stopped
<1> QED BY <1>1, <1>2, <1>3, <1>4, <1>5, <1>6, <1>7, <1>8 DEF NamesNext, Walk

\* A name that a function declares, or its own name, is printed in its body as a
\* register, and codegen_funcdecl has allocated it: whatever the program, no
\* function reads or writes the local of another or a global in its stead.
THEOREM FunctionsUseTheirOwn == NamesSpec => []OwnNamesLocal
<1>1. NamesInit => NamesInv
  BY InitNames
<1>2. NamesInv /\ [NamesNext]_nvars => NamesInv'
  BY NextNames
<1>3. NamesInv => OwnNamesLocal
  BY DEF NamesInv
<1> QED BY <1>1, <1>2, <1>3, PTL DEF NamesSpec

\* The loop at the end of codegen_funcdecl undoes what the one at its start has
\* done, for any number of functions: nothing but the functions' own symbols is
\* local when the next one begins.
THEOREM ScopesCleared == NamesSpec => []LocalsCleared
<1>1. NamesInit => NamesInv
  BY InitNames
<1>2. NamesInv /\ [NamesNext]_nvars => NamesInv'
  BY NextNames
<1>3. NamesInv => LocalsCleared
  BY DEF NamesInv, ScopesBalanced, LocalsCleared, FunctionSymbols
<1> QED BY <1>1, <1>2, <1>3, PTL DEF NamesSpec

-----------------------------------------------------------------------------
(* The validator in the composition                                        *)

LEMMA ValidateSteps ==
  ASSUME Validate
  PROVE  Next /\ UNCHANGED tvars
<1>1. ASSUME NEW n \in Name, ReadParam(n) PROVE Next
  BY <1>1 DEF ReadParam, Next
<1>2. ASSUME NEW n \in Name, NEW t \in TypeRef, ReadVar(n, t) PROVE Next
  BY <1>2 DEF ReadVar, Next
<1>3. ASSUME ReadFunc \/ ReadStatements PROVE Next
  BY <1>3 DEF ReadFunc, ReadStatements, Next, Advance
<1>4. ASSUME ReadOther PROVE Next
  BY <1>4 DEF ReadOther, Next, Advance
<1> QED BY <1>1, <1>2, <1>3, <1>4 DEF Validate

LEMMA TranslateSteps ==
  ASSUME [NamesNext]_nvars, ~Validate
  PROVE  UNCHANGED <<vars, blocks>>
<1>1. ASSUME NEW n \in Name, UseVariable(n) \/ CallFunction(n)
      PROVE  UNCHANGED <<vars, blocks>>
  BY <1>1 DEF UseVariable, CallFunction, Statement
<1>2. CASE Walk
  BY <1>2 DEF Walk, DeclareGlobals, DeclareMain, EndBody, EndBodyClearing, DefineFunction,
              DefineSizing, Allocate, AllocateAsLocal, EndProgram
<1>3. CASE Stopped \/ UNCHANGED nvars
  BY <1>3 DEF Stopped, nvars
<1> QED BY <1>1, <1>2, <1>3 DEF NamesNext

\* The translator adds nothing to the tables and takes nothing from them: with
\* it the validator is the one that is verified alone, and what is proved of
\* that one holds here.
THEOREM ValidatorRuns == NamesSpec => Spec
<1>1. NamesInit => Init
  BY DEF NamesInit
<1>2. [NamesNext]_nvars => [Next]_vars
  BY ValidateSteps, TranslateSteps
<1> QED BY <1>1, <1>2, PTL DEF NamesSpec, Spec

\* What is known of the tables.
TablesInv == Typed /\ ScopeInv /\ OwnInv

LEMMA InitTables == ASSUME NamesInit PROVE TablesInv
<1>1. Init
  BY DEF NamesInit
<1> QED BY <1>1, InitTyped, InitScopeInv, InitOwn DEF TablesInv

LEMMA NextTables ==
  ASSUME TablesInv, [NamesNext]_nvars
  PROVE  TablesInv' /\ [Next]_vars
<1>1. [Next]_vars
  BY ValidateSteps, TranslateSteps
<1> QED BY <1>1, NextTyped, NextScopeInv, NextOwn DEF TablesInv

-----------------------------------------------------------------------------
(* The blocks that the translator visits                                   *)

Block == [name : Name \cup {NULL}, params : Seq(Name), vars : SUBSET Name,
          means : [Name -> SUBSET (Nat \X Nat)]]

LEMMA LookupPlace ==
  ASSUME Typed, NEW n
  PROVE  Lookup(n) \subseteq Place /\ Lookup(n) \subseteq Nat \X Nat
<1>1. Place \subseteq Nat \X Nat
  <2>1. tables \in Seq(Seq(Symbol))
    BY DEF Typed, TypeOK
  <2>2. Tab \subseteq Nat /\ \A t \in Tab : tables[t] \in Seq(Symbol)
    BY <2>1 DEF Tab
  <2>3. \A t \in Tab : DOMAIN tables[t] \subseteq Nat
    BY <2>2
  <2> QED BY <2>2, <2>3 DEF Place
<1>2. ASSUME NEW i \in FirstSlot(n), NEW j \in local_lookup(stack[i], n)
      PROVE  <<stack[i], j>> \in Place
  <2>1. i \in Slot
    BY DEF FirstSlot
  <2>2. stack[i] \in Tab /\ j \in DOMAIN tables[stack[i]]
    BY <2>1 DEF Typed, TypeOK, local_lookup
  <2> QED BY <2>2 DEF Place
<1>3. Lookup(n) \subseteq Place
  BY <1>2 DEF Lookup
<1> QED BY <1>1, <1>3

\* A lookup finds at most one place.
LEMMA LookupUnique ==
  ASSUME Typed, NEW n, NEW p \in Lookup(n), NEW q \in Lookup(n)
  PROVE  p = q
<1>1. PICK i \in FirstSlot(n) : \E j \in local_lookup(stack[i], n) : p = <<stack[i], j>>
  BY DEF Lookup
<1>2. PICK x \in FirstSlot(n) : \E k \in local_lookup(stack[x], n) : q = <<stack[x], k>>
  BY DEF Lookup
<1>3. i = x
  BY FirstSlotUnique
<1>4. PICK j \in local_lookup(stack[i], n) : p = <<stack[i], j>>
  BY <1>1
<1>5. PICK k \in local_lookup(stack[x], n) : q = <<stack[x], k>>
  BY <1>2
<1>6. j = k
  <2>1. stack[i] # NULL /\ stack[i] \in Tab
    BY <1>4 DEF FirstSlot, Typed, TypeOK, local_lookup
  <2>2. tables[stack[i]] \in Seq(Symbol)
    BY <2>1 DEF Typed, TypeOK, Tab
  <2>3. /\ j \in DOMAIN tables[stack[i]] /\ k \in DOMAIN tables[stack[i]]
        /\ ~(k \in 1 .. (j - 1)) /\ ~(j \in 1 .. (k - 1))
    BY <1>3, <2>1 DEF local_lookup
  <2>4. j \in Nat \ {0} /\ k \in Nat \ {0}
    BY <2>2, <2>3
  <2> QED BY <2>3, <2>4
<1> QED BY <1>3, <1>4, <1>5, <1>6

\* No symbol is moved or renamed.
LEMMA SymbolsStay ==
  ASSUME Typed, [Next]_vars, NEW t \in Tab
  PROVE  /\ t \in Tab' /\ DOMAIN tables[t] \subseteq DOMAIN tables'[t]
         /\ \A j \in DOMAIN tables[t] : tables'[t][j].name = tables[t][j].name
<1>1. /\ TypeOK /\ tables \in Seq(Seq(Symbol)) /\ Tab = 1 .. Len(tables) /\ Len(tables) \in Nat
      /\ tables[t] \in Seq(Symbol)
  BY DEF Typed, TypeOK, Tab
<1>2. CASE tables' = tables
  BY <1>2 DEF Tab
<1>3. ASSUME NEW n \in Name, NEW v \in Value, curr_scope \in Tab,
             tables' = insert_sym(curr_scope, new_sym(n, v, Top.own))
      PROVE  /\ t \in Tab' /\ DOMAIN tables[t] \subseteq DOMAIN tables'[t]
             /\ \A j \in DOMAIN tables[t] : tables'[t][j].name = tables[t][j].name
  <2> DEFINE sym == new_sym(n, v, Top.own)
  <2> HIDE DEF sym
  <2>1. /\ DOMAIN tables[t] \subseteq DOMAIN Append(tables[t], sym)
        /\ \A j \in DOMAIN tables[t] : Append(tables[t], sym)[j] = tables[t][j]
    BY <1>1
  <2>2. /\ Tab' = Tab
        /\ tables'[t] = IF t = curr_scope THEN Append(tables[t], sym) ELSE tables[t]
    BY <1>1, <1>3 DEF insert_sym, Tab, sym
  <2> QED BY <2>1, <2>2
<1>4. ASSUME NEW n \in Name, NEW v \in Value, curr_scope \in Tab,
             tables' = set_symvalue(curr_scope, n, v)
      PROVE  /\ t \in Tab' /\ DOMAIN tables[t] \subseteq DOMAIN tables'[t]
             /\ \A j \in DOMAIN tables[t] : tables'[t][j].name = tables[t][j].name
  <2>1. /\ tables' \in Seq(Seq(Symbol)) /\ Len(tables') = Len(tables)
        /\ Len(tables'[t]) = Len(tables[t])
        /\ \A j \in DOMAIN tables[t] : tables'[t][j].name = tables[t][j].name
    <3> DEFINE new == set_symvalue(curr_scope, n, v)
    <3>1. TypeOK /\ curr_scope \in Tab /\ tables' = new
      BY <1>1, <1>4
    <3>2. /\ new \in Seq(Seq(Symbol)) /\ Len(new) = Len(tables)
          /\ \A u \in Tab : /\ Len(new[u]) = Len(tables[u])
                            /\ \A j \in DOMAIN tables[u] : new[u][j].name = tables[u][j].name
      BY <3>1, SetValueType
    <3> HIDE DEF new
    <3> QED BY <3>1, <3>2
  <2>2. t \in Tab' /\ tables'[t] \in Seq(Symbol)
    BY <1>1, <2>1 DEF Tab
  <2> QED BY <1>1, <2>1, <2>2
<1>5. CASE tables' = create_tab
  <2>1. << >> \in Seq(Symbol)
    OBVIOUS
  <2>2. ASSUME NEW new \in Seq(Symbol)
        PROVE  /\ Len(Append(tables, new)) = Len(tables) + 1
               /\ Append(tables, new) \in Seq(Seq(Symbol))
               /\ Append(tables, new)[t] = tables[t]
    <3>1. tables \in Seq(Seq(Symbol)) /\ t \in 1 .. Len(tables)
      BY <1>1
    <3> DEFINE S == Seq(Symbol)
    <3>2. tables \in Seq(S) /\ new \in S
      BY <3>1
    <3> HIDE DEF S
    <3>3. /\ Len(Append(tables, new)) = Len(tables) + 1
          /\ Append(tables, new) \in Seq(S)
          /\ Append(tables, new)[t] = tables[t]
      BY <3>1, <3>2
    <3> QED BY <3>3 DEF S
  <2>3. /\ tables' \in Seq(Seq(Symbol)) /\ Len(tables') = Len(tables) + 1
        /\ tables'[t] = tables[t]
    BY <1>5, <2>1, <2>2 DEF create_tab
  <2>4. t \in Tab'
    BY <1>1, <2>3 DEF Tab
  <2> QED BY <2>3, <2>4
<1> QED BY <1>2, <1>3, <1>4, <1>5, TableSteps

\* The place that a name has in a function's table is its place to the end.
LEMMA LookupStays ==
  ASSUME TablesInv, [Next]_vars, Fits', NEW n, NEW p \in Lookup(n), p[1] # 1
  PROVE  Lookup(n)' = {p}
<1>1. PICK i \in FirstSlot(n) : \E j \in local_lookup(stack[i], n) : p = <<stack[i], j>>
  BY DEF Lookup
<1>2. PICK j \in local_lookup(stack[i], n) : p = <<stack[i], j>>
  BY <1>1
<1> DEFINE t == i + 2
<1>3. /\ stack[i] = t /\ stack'[i] = t /\ t \in Tab /\ t \in Tab'
      /\ FirstSlot(n)' = {i}
  <2>1. stack[i] # 1 /\ Len(tables') <= MAXSCOPE
    BY <1>2 DEF Fits
  <2>2. Typed /\ ScopeInv /\ OwnInv
    BY DEF TablesInv
  <2> QED BY <2>1, <2>2, BoundSlotStays
<1> HIDE DEF t
<1>4. t # NULL
  BY <1>2, <1>3 DEF local_lookup
<1>5. Typed /\ Typed'
  BY NextTyped DEF TablesInv
<1>6. tables[t] \in Seq(Symbol) /\ tables'[t] \in Seq(Symbol)
  BY <1>3, <1>5 DEF Typed, TypeOK, Tab
<1>7. /\ j \in DOMAIN tables[t] /\ tables[t][j].name = n
      /\ \A k \in 1 .. (j - 1) : tables[t][k].name # n
  BY <1>2, <1>3, <1>4 DEF local_lookup
<1>8. /\ DOMAIN tables[t] \subseteq DOMAIN tables'[t]
      /\ \A k \in DOMAIN tables[t] : tables'[t][k].name = tables[t][k].name
  BY <1>3, <1>5, SymbolsStay
<1>9. /\ j \in DOMAIN tables'[t] /\ tables'[t][j].name = n
      /\ \A k \in 1 .. (j - 1) : tables'[t][k].name # n
  <2>1. \A k \in 1 .. (j - 1) : k \in DOMAIN tables[t]
    BY <1>6, <1>7
  <2> QED BY <1>7, <1>8, <2>1
<1>10. local_lookup(stack[i], n)' = {j}
  <2>1. local_lookup(stack[i], n)' = {k \in DOMAIN tables'[t] :
                                         /\ tables'[t][k].name = n
                                         /\ \A l \in 1 .. (k - 1) : tables'[t][l].name # n}
    BY <1>3, <1>4 DEF local_lookup
  <2>2. ASSUME NEW k \in DOMAIN tables'[t], tables'[t][k].name = n,
               \A l \in 1 .. (k - 1) : tables'[t][l].name # n
        PROVE  k = j
    <3>1. ~(k \in 1 .. (j - 1)) /\ ~(j \in 1 .. (k - 1))
      BY <1>9, <2>2
    <3>2. j \in Nat \ {0} /\ k \in Nat \ {0}
      BY <1>6, <1>9
    <3> QED BY <3>1, <3>2
  <2> QED BY <1>9, <2>1, <2>2
<1>11. Lookup(n)' = {stack'[i]} \X local_lookup(stack[i], n)'
  BY <1>3 DEF Lookup
<1> QED BY <1>2, <1>3, <1>10, <1>11

\* What is known of the blocks: they have their types, and what a name meant in
\* one of a function's tables it means still.
BlocksOK == blocks \in Seq(Block) /\ current \in DOMAIN blocks

MeaningsKept ==
  Fits => \A k \in DOMAIN blocks : \A n \in Name : \A p \in blocks[k].means[n] :
            p[1] # 1 => Lookup(n) = {p}

LEMMA BlocksMapped ==
  ASSUME blocks \in Seq(Block), NEW new, new = [k \in DOMAIN blocks |-> new[k]],
         \A k \in DOMAIN blocks : new[k] \in Block
  PROVE  new \in Seq(Block) /\ DOMAIN new = DOMAIN blocks
<1>1. DOMAIN blocks = 1 .. Len(blocks) /\ Len(blocks) \in Nat
  OBVIOUS
<1>2. new \in [1 .. Len(blocks) -> Block]
  BY <1>1
<1> QED BY <1>1, <1>2

\* What the validator's steps do to the blocks.
LEMMA BlocksRead ==
  ASSUME BlocksOK, TablesInv, Validate
  PROVE  /\ blocks' \in Seq(Block) /\ DOMAIN blocks \subseteq DOMAIN blocks'
         /\ \A k \in DOMAIN blocks' :
              \/ k \in DOMAIN blocks /\ blocks'[k].means = blocks[k].means
              \/ k \in DOMAIN blocks /\ blocks'[k].means = Meaning
              \/ blocks'[k].means = [n \in Name |-> {}]
<1>1. /\ blocks \in Seq(Block) /\ DOMAIN blocks = 1 .. Len(blocks) /\ Len(blocks) \in Nat
      /\ \A k \in DOMAIN blocks : blocks[k] \in Block
  BY DEF BlocksOK
<1> DEFINE Means(k) == blocks'[k].means = blocks[k].means \/ blocks'[k].means = Meaning
<1>2. ASSUME blocks' = [k \in DOMAIN blocks |-> blocks'[k]],
             \A k \in DOMAIN blocks : blocks'[k] \in Block /\ Means(k)
      PROVE  /\ blocks' \in Seq(Block) /\ DOMAIN blocks \subseteq DOMAIN blocks'
             /\ \A k \in DOMAIN blocks' : k \in DOMAIN blocks /\ Means(k)
  <2>1. blocks' \in Seq(Block) /\ DOMAIN blocks' = DOMAIN blocks
    BY <1>1, <1>2, BlocksMapped
  <2> QED BY <1>2, <2>1
<1>3. ASSUME NEW n \in Name, ReadParam(n)
      PROVE  /\ blocks' = [k \in DOMAIN blocks |-> blocks'[k]]
             /\ \A k \in DOMAIN blocks : blocks'[k] \in Block /\ Means(k)
  <2>1. \A b \in Block : LET c == [b EXCEPT !.params = Append(@, n)]
                         IN  c \in Block /\ c.means = b.means
    <3>1. \A b \in Block : b.params \in Seq(Name) /\ Append(b.params, n) \in Seq(Name)
      BY <1>3 DEF Block
    <3> QED BY <3>1 DEF Block
  <2> QED BY <1>1, <1>3, <2>1 DEF ReadParam
<1>4. ASSUME NEW n \in Name, NEW t \in TypeRef, ReadVar(n, t)
      PROVE  /\ blocks' = [k \in DOMAIN blocks |-> blocks'[k]]
             /\ \A k \in DOMAIN blocks : blocks'[k] \in Block /\ Means(k)
  <2>1. \A b \in Block : LET c == [b EXCEPT !.vars = @ \cup {n}]
                         IN  c \in Block /\ c.means = b.means
    BY <1>4 DEF Block
  <2> QED BY <1>1, <1>4, <2>1 DEF ReadVar
<1>5. ASSUME ReadStatements
      PROVE  /\ blocks' = [k \in DOMAIN blocks |-> blocks'[k]]
             /\ \A k \in DOMAIN blocks : blocks'[k] \in Block /\ Means(k)
  <2>1. Meaning \in [Name -> SUBSET (Nat \X Nat)]
    BY LookupPlace DEF Meaning, TablesInv
  <2>2. \A b \in Block : LET c == [b EXCEPT !.means = Meaning]
                         IN  c \in Block /\ c.means = Meaning
    BY <2>1 DEF Block
  <2> QED BY <1>1, <1>5, <2>2 DEF ReadStatements
<1>6. CASE ReadFunc
  <2> DEFINE new == NewBlock(Head(Top.list).name)
  <2>1. new \in Block
    <3>1. Top.list \in Seq(Decl) /\ Top.list # << >>
      BY <1>6, TopType DEF ReadFunc, OpenFunc, TablesInv, Typed, Frame
    <3>2. Head(Top.list).name \in Name
      <4>1. Head(Top.list) \in Decl
        BY <3>1
      <4> QED BY <4>1 DEF Decl
    <3>3. << >> \in Seq(Name)
      OBVIOUS
    <3> QED BY <3>2, <3>3 DEF NewBlock, Block
  <2>2. new.means = [n \in Name |-> {}]
    BY DEF NewBlock
  <2>3. blocks' = IF Len(frames) = 1 THEN Append(blocks, new) ELSE blocks
    BY <1>6 DEF ReadFunc
  <2> HIDE DEF new
  <2>4. CASE Len(frames) = 1
    <3>1. Append(blocks, new) \in Seq(Block) /\ DOMAIN Append(blocks, new) = 1 .. Len(blocks) + 1
      BY <1>1, <2>1
    <3>2. \A k \in 1 .. Len(blocks) + 1 :
            Append(blocks, new)[k] = IF k = Len(blocks) + 1 THEN new ELSE blocks[k]
      BY <1>1, <2>1
    <3>3. \A k \in 1 .. Len(blocks) + 1 : k \in 1 .. Len(blocks) \/ k = Len(blocks) + 1
      BY <1>1
    <3> QED BY <1>1, <2>2, <2>3, <2>4, <3>1, <3>2, <3>3
  <2>5. CASE Len(frames) # 1
    BY <1>1, <2>3, <2>5
  <2> QED BY <2>4, <2>5
<1>7. CASE ReadOther
  BY <1>1, <1>7 DEF ReadOther
<1>8. ASSUME ~ReadFunc, ~ReadOther
      PROVE  /\ blocks' = [k \in DOMAIN blocks |-> blocks'[k]]
             /\ \A k \in DOMAIN blocks : blocks'[k] \in Block /\ Means(k)
  BY <1>3, <1>4, <1>5, <1>8 DEF Validate
<1>9. CASE ~ReadFunc /\ ~ReadOther
  BY <1>2, <1>8, <1>9
<1> QED BY <1>6, <1>7, <1>9

LEMMA FitsBefore ==
  ASSUME Typed, [Next]_vars, Fits'
  PROVE  Fits
<1>1. Typed'
  BY NextTyped
<1>2. /\ Len(tables) \in Nat /\ Tab = 1 .. Len(tables)
      /\ Len(tables') \in Nat /\ Tab' = 1 .. Len(tables')
  BY <1>1 DEF Typed, TypeOK, Tab
<1>3. \A t \in Tab : t \in Tab'
  BY SymbolsStay
<1>4. Len(tables) <= Len(tables')
  BY <1>2, <1>3
<1> QED BY <1>2, <1>4, MaxScopeAssumption DEF Fits

LEMMA NextMeanings ==
  ASSUME TablesInv, BlocksOK, MeaningsKept, [NamesNext]_nvars
  PROVE  MeaningsKept'
<1> SUFFICES ASSUME Fits', NEW k \in DOMAIN blocks', NEW n \in Name,
                    NEW p \in blocks'[k].means[n], p[1] # 1
             PROVE  Lookup(n)' = {p}
  BY DEF MeaningsKept
<1>1. [Next]_vars /\ Typed
  BY NextTables DEF TablesInv
<1>2. Fits
  BY <1>1, FitsBefore
<1>3. ASSUME Lookup(n) = {p} PROVE Lookup(n)' = {p}
  BY <1>1, <1>3, LookupStays
<1>4. CASE k \in DOMAIN blocks /\ blocks'[k].means = blocks[k].means
  BY <1>2, <1>3, <1>4 DEF MeaningsKept
<1>5. CASE blocks'[k].means = Meaning
  <2>1. p \in Lookup(n)
    BY <1>5 DEF Meaning
  <2>2. Lookup(n) = {p}
    BY <1>1, <2>1, LookupUnique
  <2> QED BY <1>3, <2>2
<1>6. blocks'[k].means # [m \in Name |-> {}]
  OBVIOUS
<1> QED BY <1>4, <1>5, <1>6, BlocksRead, TranslateSteps

-----------------------------------------------------------------------------
(* Types                                                                   *)

\* What is printed for a name is the symbol it resolves to.
PrintedFound == \A u \in printed : u.name \in Name /\ u.sym \in Lookup(u.name)

NamesTyped ==
  /\ BlocksOK /\ NamesTypeOK /\ PrintedFound
  /\ at = "globals" => sized = {} /\ fpsym = [set |-> FALSE, sym |-> {}]

LEMMA InitNamesTyped == ASSUME NamesInit PROVE NamesTyped
<1>1. NewBlock(NULL) \in Block
  <2>1. << >> \in Seq(Name)
    OBVIOUS
  <2> QED BY <2>1 DEF NewBlock, Block
<1>2. BlocksOK
  BY <1>1 DEF NamesInit, BlocksOK
<1> QED BY <1>2 DEF NamesInit, NamesTyped, NamesTypeOK, BlocksOK, PrintedFound

LEMMA LookupAllPlace ==
  ASSUME Typed
  PROVE  \A A : LookupAll(A) \subseteq Place
BY LookupPlace DEF LookupAll

LEMMA SamePlaces ==
  ASSUME UNCHANGED vars
  PROVE  Place' = Place
BY DEF vars, Place, Tab

\* set_var_size sets types of symbols that there are.
LEMMA SizesType ==
  ASSUME NEW S, sized \subseteq S, NEW syms \in SUBSET S, NEW T \in set_var_size(syms)
  PROVE  T \subseteq S
BY DEF set_var_size

LEMMA NextNamesTyped ==
  ASSUME NamesInv, TablesInv, NamesTyped, [NamesNext]_nvars
  PROVE  NamesTyped'
<1>1. /\ Typed /\ BlocksOK /\ NamesTypeOK /\ PrintedFound
      /\ blocks \in Seq(Block) /\ DOMAIN blocks = 1 .. Len(blocks) /\ Len(blocks) \in Nat
      /\ current \in 1 .. Len(blocks)
  BY DEF NamesTyped, TablesInv, BlocksOK
<1>2. CASE Validate
  <2>1. at = "globals" /\ printed = {} /\ local = {} /\ sized = {}
        /\ fpsym = [set |-> FALSE, sym |-> {}]
    BY <1>2, ValidateRuns DEF NamesInv, PassesInOrder, ScopesBalanced, NamesTyped
  <2>2. UNCHANGED <<at, printed, local, sized, fpsym, current>>
    BY <1>2 DEF Validate, tvars
  <2>3. BlocksOK'
    BY <1>1, <1>2, <2>2, BlocksRead DEF BlocksOK
  <2> QED BY <2>1, <2>2, <2>3 DEF NamesTyped, NamesTypeOK, BlocksOK, PrintedFound
<1>3. SUFFICES ASSUME ~Validate PROVE NamesTyped'
  BY <1>2
<1>4. UNCHANGED <<vars, blocks>>
  BY <1>3, TranslateSteps
<1>5. /\ Place' = Place
      /\ \A n : Lookup(n) \subseteq Place
      /\ \A A : LookupAll(A) \subseteq Place
  BY <1>1, <1>4, LookupPlace, LookupAllPlace, SamePlaces
<1>6. /\ local \subseteq Place /\ sized \subseteq Place
      /\ fpsym.set \in BOOLEAN /\ fpsym.sym \subseteq Place
  BY <1>1 DEF NamesTypeOK
<1>7. ASSUME current' \in DOMAIN blocks, local' \subseteq Place, sized' \subseteq Place,
             fpsym'.set \in BOOLEAN, fpsym'.sym \subseteq Place, PrintedFound',
             at' \in {"body", "next", "allocate", "done", "crashed"}
      PROVE  NamesTyped'
  BY <1>1, <1>4, <1>5, <1>7 DEF NamesTyped, BlocksOK, NamesTypeOK
<1>8. ASSUME UNCHANGED printed PROVE PrintedFound'
  BY <1>1, <1>4, <1>8, SameSymbols DEF PrintedFound
<1>9. \A S \in SUBSET Place : \A T \in set_var_size(S) : T \subseteq Place
  BY <1>6, SizesType
<1>10. ASSUME NEW n \in Name, UseVariable(n) \/ CallFunction(n)
       PROVE  NamesTyped'
  <2>1. /\ UNCHANGED <<current, local, sized, fpsym>>
        /\ at' \in {"body", "crashed"}
    BY <1>10 DEF UseVariable, CallFunction, Statement, GoesTo, Translating
  <2>2. printed' = Reference("variable", n) \/ printed' = Reference("call", n)
    BY <1>10 DEF UseVariable, CallFunction
  <2>3. PrintedFound'
    BY <1>4, <2>2, SameSymbols DEF PrintedFound, Reference
  <2> QED BY <1>1, <1>6, <1>7, <2>1, <2>3
<1>11. CASE DeclareGlobals
  <2>1. /\ UNCHANGED <<current, local, fpsym, printed>>
        /\ at' \in {"body", "crashed"}
        /\ sized' \in set_var_size(LookupAll(blocks[1].vars))
    BY <1>11 DEF DeclareGlobals, DeclareMain, GoesTo
  <2> QED BY <1>1, <1>5, <1>6, <1>7, <1>8, <1>9, <2>1
<1>12. CASE EndBody
  <2>1. /\ UNCHANGED <<current, sized, fpsym>> /\ printed' = {} /\ at' = "next"
        /\ local' \subseteq local
    BY <1>12 DEF EndBody, EndBodyClearing
  <2>2. PrintedFound'
    BY <2>1 DEF PrintedFound
  <2> QED BY <1>1, <1>6, <1>7, <2>1, <2>2
<1>13. CASE DefineFunction
  <2>1. /\ current' = current + 1 /\ current < Len(blocks) /\ UNCHANGED printed
        /\ \/ UNCHANGED <<local, sized, fpsym>> /\ at' = "next"
           \/ /\ sized' \in set_var_size(LookupAll(HeaderNames))
              /\ local' = local \cup Lookup(Following.name)
              /\ fpsym' \in {fpsym, [set |-> TRUE,
                                     sym |-> Lookup(Following.params[Len(Following.params)])]}
              /\ at' \in {"allocate", "crashed"}
    BY <1>13 DEF DefineFunction, DefineSizing, GoesTo, Translating
  <2>2. current' \in DOMAIN blocks
    BY <1>1, <2>1
  <2>3. local' \subseteq Place /\ sized' \subseteq Place
    BY <1>5, <1>6, <1>9, <2>1
  <2>4. fpsym'.set \in BOOLEAN /\ fpsym'.sym \subseteq Place
    <3>1. CASE UNCHANGED fpsym
      BY <1>6, <3>1
    <3>2. CASE fpsym' = [set |-> TRUE, sym |-> Lookup(Following.params[Len(Following.params)])]
      <4>1. fpsym'.set = TRUE /\ fpsym'.sym = Lookup(Following.params[Len(Following.params)])
        BY <3>2
      <4> QED BY <1>5, <4>1
    <3> QED BY <2>1, <3>1, <3>2
  <2>5. at' \in {"body", "next", "allocate", "done", "crashed"}
    BY <2>1
  <2> QED BY <1>7, <1>8, <2>1, <2>2, <2>3, <2>4, <2>5
<1>14. CASE Allocate
  <2>1. /\ UNCHANGED <<current, fpsym, printed>> /\ at' \in {"body", "crashed"}
        /\ sized' \in set_var_size(LookupAll(blocks[current].vars))
        /\ local' = local \cup LookupAll(Declared(blocks[current]))
    BY <1>14 DEF Allocate, AllocateAsLocal, GoesTo
  <2> QED BY <1>1, <1>5, <1>6, <1>7, <1>8, <1>9, <2>1
<1>15. CASE EndProgram
  <2>1. UNCHANGED <<current, local, sized, fpsym, printed>> /\ at' = "done"
    BY <1>15 DEF EndProgram
  <2> QED BY <1>1, <1>6, <1>7, <1>8, <2>1
<1>16. CASE Stopped \/ UNCHANGED nvars
  <2>1. UNCHANGED <<at, current, local, sized, fpsym, printed>>
    BY <1>16 DEF Stopped, nvars, tvars
  <2> QED BY <1>1, <1>4, <1>5, <1>8, <2>1 DEF NamesTyped, BlocksOK, NamesTypeOK
<1> QED BY <1>3, <1>10, <1>11, <1>12, <1>13, <1>14, <1>15, <1>16 DEF NamesNext, Walk

\* A symbol pointer that the translator keeps is a place in a table that the
\* validator has left, and the blocks it visits are those of the tree.
THEOREM TranslatorTyped == NamesSpec => []NamesTypeOK
<1>1. NamesInit => NamesInv /\ TablesInv /\ NamesTyped
  BY InitNames, InitTables, InitNamesTyped
<1>2. NamesInv /\ TablesInv /\ NamesTyped /\ [NamesNext]_nvars
      => (NamesInv /\ TablesInv /\ NamesTyped)'
  BY NextNames, NextTables, NextNamesTyped
<1>3. NamesTyped => NamesTypeOK
  BY DEF NamesTyped
<1> QED BY <1>1, <1>2, <1>3, PTL DEF NamesSpec

\* Where the validator has resolved a name to a function's table, the translator
\* finds the same symbol, although it looks the name up when the tables of all
\* functions are on the stack: for every program whose functions fit there.
THEOREM PassesAgree == NamesSpec => []SameSymbolForBoth
<1> DEFINE Inv == NamesInv /\ TablesInv /\ NamesTyped /\ MeaningsKept
<1>1. NamesInit => Inv
  <2>1. NamesInit => MeaningsKept
    BY DEF NamesInit, MeaningsKept, NewBlock
  <2> QED BY <2>1, InitNames, InitTables, InitNamesTyped
<1>2. Inv /\ [NamesNext]_nvars => Inv'
  BY NextNames, NextTables, NextNamesTyped, NextMeanings DEF NamesTyped
<1>3. Inv => SameSymbolForBoth
  BY DEF SameSymbolForBoth, NamesTyped, PrintedFound, MeaningsKept, BlocksOK
<1> QED BY <1>1, <1>2, <1>3, PTL DEF NamesSpec

=============================================================================
