----------------------------- MODULE TypesProofs -----------------------------
(***************************************************************************)
(* The properties of Types for expressions of every depth and any sets of  *)
(* types and functions.  They follow from what is true of every entry of   *)
(* `checked` alone (Good), given whether an error has been reported and    *)
(* whether anything unusual has been met, both of which are never undone.  *)
(***************************************************************************)
EXTENDS Types, SequenceTheorems, TLAPS

Entry == [form : {"var", "misread", "expr", "set", "index", "call"}, ty : Type,
          leaves : SUBSET Numeric, rest : Seq(DeclaredType)]

Test == [null : BOOLEAN, bool : BOOLEAN, set : BOOLEAN]

\* An entry is well formed; without anything unusual its type is one, and as
\* long as nothing has failed a number has the type of its strongest leaf.
Good(r, f, s) ==
  /\ r \in Entry
  /\ r.form = "index" => r.ty.kind = "arr"
  /\ r.form = "call" <=> r.rest # << >>
  /\ IsResult(r) => r.ty.kind # "name"
  /\ IsVar(r) => r.ty.kind # "void"
  /\ r.form = "set" => r.ty.kind \in {"char", "void"}
  /\ ~s => r.ty.kind \notin {"name", "null"} /\ \A j \in DOMAIN r.rest : r.rest[j].kind # "name"
  /\ ~f /\ IsResult(r) /\ r.ty.kind \in Numeric => r.ty.kind = Strongest(r.leaves)

TypesInv ==
  /\ checked \in Seq(Entry)
  /\ \A k \in DOMAIN checked : Good(checked[k], failed, strange)
  /\ ifs \in Seq(Test)
  /\ ~strange => \A k \in DOMAIN ifs : ~ifs[k].null
  /\ failed \in BOOLEAN /\ strange \in BOOLEAN
  /\ status \in {"running", "crashed"}
  /\ CrashesKnown
  /\ OnlyGapsBroken

\* The first error has a reason.
Justified == ~failed /\ failed' => broken' # {}

\* What is true of an entry stays true when an error is reported later.
LEMMA GoodStays ==
  ASSUME NEW r, NEW f, NEW s, Good(r, f, s), NEW f2, NEW s2, f => f2, s => s2
  PROVE  Good(r, f2, s2)
BY DEF Good

\* The entries after a replacement at the end are old ones and new ones.
LEMMA Replaced ==
  ASSUME NEW S, NEW s \in Seq(S), NEW n \in 0 .. Len(s), NEW r \in Seq(S),
         NEW t, t = SubSeq(s, 1, Len(s) - n) \o r
  PROVE  /\ t \in Seq(S)
         /\ \A k \in DOMAIN t : \/ k \in DOMAIN s /\ t[k] = s[k]
                                \/ \E j \in DOMAIN r : t[k] = r[j]
<1>1. /\ SubSeq(s, 1, Len(s) - n) \in Seq(S)
      /\ Len(SubSeq(s, 1, Len(s) - n)) = Len(s) - n
      /\ \A k \in 1 .. Len(s) - n : SubSeq(s, 1, Len(s) - n)[k] = s[k]
  OBVIOUS
<1> DEFINE u == SubSeq(s, 1, Len(s) - n)
<1>2. u \in Seq(S) /\ Len(u) \in Nat /\ Len(u) <= Len(s) /\ \A k \in 1 .. Len(u) : u[k] = s[k]
  BY <1>1
<1> HIDE DEF u
<1>3. t = u \o r
  BY DEF u
<1>4. /\ u \o r \in Seq(S)
      /\ Len(u \o r) = Len(u) + Len(r)
      /\ \A k \in 1 .. Len(u) + Len(r) : (u \o r)[k] = IF k <= Len(u) THEN u[k] ELSE r[k - Len(u)]
  BY <1>2, ConcatProperties
<1>5. /\ t \in Seq(S)
      /\ Len(t) = Len(u) + Len(r)
      /\ \A k \in 1 .. Len(u) + Len(r) : t[k] = IF k <= Len(u) THEN u[k] ELSE r[k - Len(u)]
  BY <1>4, <1>3
<1> DEFINE a == Len(u)
           b == Len(r)
<1>6. a \in Nat /\ b \in Nat
  BY <1>2
<1>7. DOMAIN r = 1 .. b /\ DOMAIN t = 1 .. a + b
  BY <1>2, <1>5
<1>8. \A k \in 1 .. a : k \in DOMAIN s /\ u[k] = s[k]
  <2>1. \A k \in 1 .. a : k \in 1 .. Len(s)
    BY <1>2
  <2> QED BY <1>2, <2>1
<1>9. \A k \in 1 .. a + b : t[k] = IF k <= a THEN u[k] ELSE r[k - a]
  BY <1>5
<1> HIDE DEF a, b
<1>10. ASSUME NEW k \in 1 .. a + b
       PROVE  (k \in DOMAIN s /\ t[k] = s[k]) \/ \E j \in 1 .. b : t[k] = r[j]
  <2>1. CASE k <= a
    <3>1. k \in 1 .. a
      BY <1>6, <2>1
    <3> QED BY <1>8, <1>9, <2>1, <3>1
  <2>2. CASE ~ (k <= a)
    <3>1. k - a \in 1 .. b
      BY <1>6, <2>2
    <3>2. t[k] = r[k - a]
      BY <1>9, <2>2
    <3> QED BY <3>1, <3>2
  <2> QED BY <2>1, <2>2
<1> QED BY <1>5, <1>7, <1>10

\* The rules of a Returns are those given and perhaps that for string arrays.
LEMMA ReturnedRules ==
  ASSUME NEW n, NEW results, NEW error, NEW rules, Returns(n, results, error, rules)
  PROVE  \E read : /\ read \subseteq {"string array"}
                   /\ broken' = IF failed THEN {} ELSE rules \cup read
<1> DEFINE read == Rule("string array",
                        \A x \in {checked[k] : k \in Len(checked) - n + 1 .. Len(checked)} : x.form # "misread")
<1>1. read \subseteq {"string array"}
  BY DEF Rule
<1>2. broken' = IF failed THEN {} ELSE rules \cup read
  BY DEF Returns
<1> HIDE DEF read
<1> QED BY <1>1, <1>2

\* A step of the form Returns with an entry that is good afterwards and that
\* breaks a rule if there is an error, and otherwise none but the gaps.
ReturnsGood(n, r, error, rules) ==
  /\ n \in 0 .. Len(checked) /\ error \in BOOLEAN /\ Running
  /\ Returns(n, <<r>>, error, rules)
  /\ strange' \in BOOLEAN /\ (strange => strange')
  /\ Good(r, failed \/ error, strange')
  /\ ~(failed \/ error) => rules \subseteq Gaps
  /\ error => rules # {}

LEMMA ReturnsKeeps ==
  ASSUME TypesInv, NEW n, NEW r, NEW error, NEW rules, ReturnsGood(n, r, error, rules)
  PROVE  TypesInv' /\ Justified
<1> USE DEF ReturnsGood
<1>0. PICK read : /\ read \subseteq {"string array"}
                  /\ broken' = IF failed THEN {} ELSE rules \cup read
  BY ReturnedRules
<1>1. failed' = (failed \/ error) /\ ifs' = ifs /\ status' = status
  BY DEF Returns
<1>2. checked' = SubSeq(checked, 1, Len(checked) - n) \o <<r>>
  BY DEF Returns
<1>3. checked \in Seq(Entry) /\ <<r>> \in Seq(Entry)
  BY DEF TypesInv, Good
<1>4. /\ checked' \in Seq(Entry)
      /\ \A k \in DOMAIN checked' : \/ k \in DOMAIN checked /\ checked'[k] = checked[k]
                                    \/ \E j \in DOMAIN <<r>> : checked'[k] = <<r>>[j]
  BY <1>2, <1>3, Replaced
<1>5. ASSUME NEW k \in DOMAIN checked' PROVE Good(checked'[k], failed', strange')
  <2>1. CASE k \in DOMAIN checked /\ checked'[k] = checked[k]
    BY <2>1, <1>1, GoodStays DEF TypesInv
  <2>2. CASE \E j \in DOMAIN <<r>> : checked'[k] = <<r>>[j]
    <3>1. checked'[k] = r
      BY <2>2
    <3> QED BY <3>1, <1>1
  <2> QED BY <2>1, <2>2, <1>4
<1>6. OnlyGapsBroken'
  BY <1>0, <1>1 DEF OnlyGapsBroken, Gaps
<1>7. CrashesKnown'
  BY <1>1 DEF CrashesKnown, Running
<1>8. failed' \in BOOLEAN
  BY <1>1 DEF TypesInv
<1>9. Justified
  BY <1>0, <1>1 DEF Justified
<1> QED BY <1>1, <1>4, <1>5, <1>6, <1>7, <1>8, <1>9 DEF TypesInv

\* The same for the end of a statement.
LEMMA ReturnsNothing ==
  ASSUME TypesInv, NEW error \in BOOLEAN, NEW rules,
         Returns(Len(checked), << >>, error, rules), Running, Known,
         ~(failed \/ error) => rules \subseteq Gaps,
         error => rules # {}
  PROVE  TypesInv' /\ Justified
<1>1. failed' = (failed \/ error) /\ ifs' = ifs /\ status' = status /\ strange' = strange
  BY DEF Returns, Known
<1>2. checked' = << >>
  <2>1. checked' = SubSeq(checked, 1, Len(checked) - Len(checked)) \o << >>
    BY DEF Returns
  <2>2. checked \in Seq(Entry) /\ Len(checked) \in Nat
    BY DEF TypesInv
  <2> QED BY <2>1, <2>2
<1>0. PICK read : /\ read \subseteq {"string array"}
                  /\ broken' = IF failed THEN {} ELSE rules \cup read
  BY ReturnedRules
<1>3. OnlyGapsBroken' /\ CrashesKnown'
  BY <1>0, <1>1 DEF OnlyGapsBroken, CrashesKnown, Running, Gaps
<1>4. failed' \in BOOLEAN
  BY <1>1 DEF TypesInv
<1>5. Justified
  BY <1>0, <1>1 DEF Justified
<1> QED BY <1>1, <1>2, <1>3, <1>4, <1>5 DEF TypesInv

\* The validator crashes where something unusual has been met.
LEMMA DiesKnown ==
  ASSUME TypesInv, Dies, strange' \in BOOLEAN, strange'
  PROVE  TypesInv' /\ Justified
<1>1. OnlyGapsBroken' /\ CrashesKnown'
  BY DEF OnlyGapsBroken, CrashesKnown, Dies
<1>2. \A k \in DOMAIN checked : Good(checked[k], failed, strange')
  BY GoodStays DEF TypesInv
<1> QED BY <1>1, <1>2 DEF TypesInv, Dies, Justified

-----------------------------------------------------------------------------
(* Facts about types, names and operands                                   *)

LEMMA StaticTypes ==
  /\ \A k \in Base \cup {"name", "void", "null"} : Static(k) \in Type /\ Static(k).kind = k
  /\ \A k \in Base \cup {"name"} : Static(k) \in DeclaredType
BY DEF Static, Type, DeclaredType

LEMMA TypeFacts ==
  ASSUME NEW t \in Type
  PROVE  /\ t.kind \in Base \cup {"name", "void", "null", "arr", "set"}
         /\ t.kind \notin {"arr", "set"} => Foreign(t) \/ t = Static(t.kind)
         /\ t.kind \in {"arr", "set"} =>
              /\ t \in [kind : {"arr", "set"}, of : Base, name : TypeNames \cup {"new"}]
              /\ Elem(t) \in Type /\ Elem(t).kind = t.of /\ t.of \in Base
<1>1. CASE t \in {Static(k) : k \in Base \cup {"name", "void", "null"}}
  BY <1>1 DEF Static, Base
<1>2. CASE t \in ForeignType
  <2>1. t.kind \in Integral /\ t = [kind |-> t.kind, of |-> "none", name |-> t.name]
    BY <1>2 DEF ForeignType
  <2>2. Foreign(t) \/ t = Static(t.kind)
    BY <2>1 DEF Foreign, Static
  <2> QED BY <2>1, <2>2 DEF Integral, Base
<1>3. CASE t \in [kind : {"arr", "set"}, of : Base, name : TypeNames \cup {"new"}]
  BY <1>3, StaticTypes DEF Elem
<1> QED BY <1>1, <1>2, <1>3 DEF Type, DeclaredType

\* Only an integer can be what is not a type.
LEMMA StaticType ==
  ASSUME NEW t \in Type, t.kind \notin {"arr", "set"} \cup Integral
  PROVE  t = Static(t.kind)
BY TypeFacts DEF Foreign

LEMMA AreTypesRule ==
  ASSUME NEW a, NEW b
  PROVE  AreTypes(a, b) \subseteq Gaps /\ (Foreign(a) \/ Foreign(b) => AreTypes(a, b) # {})
BY DEF AreTypes, Rule, Gaps

LEMMA DeclaredTypes ==
  ASSUME NEW t \in DeclaredType
  PROVE  t \in Type /\ t.kind \notin {"void", "null"}
BY DEF Type, DeclaredType, ForeignType, Integral, Static, Base

LEMMA ActualTypes ==
  ASSUME NEW t \in Type
  PROVE  /\ actual_type(t) \in Type
         /\ actual_type(t).kind # "name"
         /\ t.kind # "void" => actual_type(t).kind # "void"
         /\ t.kind # "name" => actual_type(t) = t
BY StaticTypes DEF actual_type

LEMMA EntityFacts ==
  ASSUME NEW e \in Entities
  PROVE  /\ e.is \in {"none", "var", "type", "func"}
         /\ e.ty \in Type
         /\ e.ty.kind \notin {"void", "null"} \/ e.is = "none"
         /\ e.params \in Seq(DeclaredType)
<1>1. CASE e = Nothing
  BY <1>1, StaticTypes DEF Nothing, Entity
<1>2. CASE \E t \in Declared : e = Entity("var", t, << >>) \/ e = Entity("type", t, << >>)
  <2>1. PICK t \in Declared : e = Entity("var", t, << >>) \/ e = Entity("type", t, << >>)
    BY <1>2
  <2>2. t \in DeclaredType
    BY TypesBounds
  <2>3. e.is \in {"var", "type"} /\ e.ty = t /\ e.params = << >>
    BY <2>1 DEF Entity
  <2> QED BY <2>2, <2>3, DeclaredTypes
<1>3. CASE \E f \in Functions : e = Entity("func", f.result, f.params)
  <2>1. PICK f \in Functions : e = Entity("func", f.result, f.params)
    BY <1>3
  <2>2. f \in [params : Seq(DeclaredType), result : DeclaredType]
    BY TypesBounds
  <2>3. e.is = "func" /\ e.ty = f.result /\ e.params = f.params
    BY <2>1 DEF Entity
  <2> QED BY <2>2, <2>3, DeclaredTypes
<1> QED BY <1>1, <1>2, <1>3 DEF Entities

\* What has been returned has a type that is not a name.
LEMMA OnTop ==
  ASSUME TypesInv, HasResult
  PROVE  /\ Len(checked) \in Nat /\ Len(checked) >= 1
         /\ Good(Top, failed, strange) /\ Top \in Entry /\ Top.ty \in Type
         /\ Top.ty.kind # "name"
         /\ ~strange => ~Faulty(Top.ty)
<1>1. Len(checked) \in Nat /\ Len(checked) >= 1 /\ Len(checked) \in DOMAIN checked
  BY DEF TypesInv, HasResult
<1>2. Good(Top, failed, strange)
  BY <1>1 DEF TypesInv, Top
<1> QED BY <1>1, <1>2 DEF Good, HasResult, Faulty, Entry

LEMMA Below ==
  ASSUME TypesInv, HasResult, Len(checked) > 1
  PROVE  /\ Good(Second, failed, strange) /\ Second \in Entry /\ Second.ty \in Type
         /\ Second.rest \in Seq(DeclaredType)
<1>1. Len(checked) - 1 \in DOMAIN checked
  BY DEF TypesInv
<1>2. Good(Second, failed, strange)
  BY <1>1 DEF TypesInv, Second
<1> QED BY <1>2 DEF Good, Entry

\* New entries are good.
LEMMA ExprGood ==
  ASSUME NEW t \in Type, t.kind # "name", NEW f, NEW s, ~s => t.kind # "null"
  PROVE  Good(Expr(t), f, s) /\ (t.kind # "void" => Good(Variable(t), f, s))
<1>1. t.kind \in Numeric => Strongest({t.kind} \cap Numeric) = t.kind
  BY DEF Strongest, Numeric, Integral
<1> QED BY <1>1 DEF Good, Expr, Variable, Result, Entry, IsResult, IsVar

LEMMA MisreadGood ==
  ASSUME NEW k \in {"string", "char"}, NEW f, NEW s
  PROVE  Good(Misread(Static(k)), f, s)
<1>1. Static(k) \in Type /\ Static(k).kind = k
  BY StaticTypes DEF Base
<1> QED BY <1>1 DEF Good, Misread, Result, Entry, IsResult, IsVar, Numeric, Integral

LEMMA BasicGood ==
  ASSUME NEW k \in Base \cup {"void"}, NEW f, NEW s
  PROVE  Good(Expr(Static(k)), f, s) /\ (k # "void" => Good(Variable(Static(k)), f, s))
<1>1. Static(k) \in Type /\ Static(k).kind = k /\ k \notin {"name", "null"}
  BY StaticTypes DEF Base
<1> QED BY <1>1, ExprGood

LEMMA BegunGood ==
  ASSUME NEW form \in {"index", "call"}, NEW t \in Type, NEW rest \in Seq(DeclaredType), NEW f, NEW s,
         form = "index" => t.kind = "arr",
         form = "call" <=> rest # << >>,
         ~s => t.kind \notin {"name", "null"} /\ \A j \in DOMAIN rest : rest[j].kind # "name"
  PROVE  Good(Begun(form, t, rest), f, s)
BY DEF Good, Begun, Entry, IsResult, IsVar

LEMMA Enough == ASSUME TypesInv PROVE Len(checked) \in Nat /\ 0 \in 0 .. Len(checked)
BY DEF TypesInv

LEMMA IndexGood ==
  ASSUME NEW t \in Type, t.kind = "arr", NEW f, NEW s
  PROVE  Good(Begun("index", t, << >>), f, s)
<1>1. << >> \in Seq(DeclaredType) /\ DOMAIN << >> = {}
  OBVIOUS
<1> QED BY <1>1, BegunGood

\* What has been met stays met.
LEMMA MeetsFacts ==
  ASSUME TypesInv, NEW u \in BOOLEAN, Meets(u)
  PROVE  /\ strange' \in BOOLEAN
         /\ strange => strange'
         /\ u => strange'
BY DEF Meets, TypesInv

LEMMA UnusualBoolean == ASSUME NEW e PROVE Unusual(e) \in BOOLEAN
BY DEF Unusual

LEMMA KnownFacts ==
  ASSUME TypesInv, Known
  PROVE  strange' = strange /\ strange' \in BOOLEAN
BY DEF Known, TypesInv

-----------------------------------------------------------------------------
(* Variables and constants                                                 *)

LEMMA ConstantKeeps ==
  ASSUME TypesInv, NEW k \in {"int", "real", "string", "char", "bool"}, Constant(k)
  PROVE  TypesInv' /\ Justified
<1>1. Static(k) \in Type /\ Static(k).kind = k
  BY StaticTypes DEF Base
<1>2. Good(Expr(Static(k)), failed \/ FALSE, strange')
  BY <1>1, ExprGood
<1>3. Returns(0, <<Expr(Static(k))>>, FALSE, {}) /\ Running /\ strange' = strange
  BY DEF Constant, Enters, Known
<1>4. strange' \in BOOLEAN /\ 0 \in 0 .. Len(checked)
  BY <1>3 DEF TypesInv
<1>5. ReturnsGood(0, Expr(Static(k)), FALSE, {})
  BY <1>2, <1>3, <1>4 DEF ReturnsGood
<1> QED BY <1>5, ReturnsKeeps

LEMMA SetConstructKeeps ==
  ASSUME TypesInv, NEW lo, NEW hi, NEW up \in BOOLEAN, SetConstruct(lo, hi, up)
  PROVE  TypesInv' /\ Justified
<1> DEFINE t == Static(IF lo = "char" /\ up THEN lo ELSE "void")
           error == (lo # hi \/ (lo = "char" /\ ~up))
           rules == Rule("same bounds", lo = hi) \cup Rule("lower bound", lo = "char" => up)
<1>1. t \in Type /\ t.kind \in {"char", "void"}
  BY StaticTypes DEF Base
<1>2. Good(Result("set", t, {}), failed \/ error, strange')
  BY <1>1 DEF Good, Result, Entry, IsResult, IsVar, Numeric, Integral
<1>3. Returns(0, <<Result("set", t, {})>>, error, rules) /\ Running /\ strange' = strange
  BY DEF SetConstruct, Enters, Known
<1>4. strange' \in BOOLEAN /\ 0 \in 0 .. Len(checked) /\ error \in BOOLEAN
  <2>1. 0 \in 0 .. Len(checked) /\ error \in BOOLEAN
    BY Enough
  <2> QED BY <1>3, <2>1 DEF TypesInv
<1>5. (error => rules # {}) /\ (~error => rules \subseteq Gaps)
  BY DEF Rule
<1> HIDE DEF t, error, rules
<1>6. ReturnsGood(0, Result("set", t, {}), error, rules)
  BY <1>2, <1>3, <1>4, <1>5 DEF ReturnsGood
<1> QED BY <1>6, ReturnsKeeps

\* The type that check_var finds for a whole variable.
LEMMA EntireTypes ==
  ASSUME NEW e \in Entities, ~entire_faults(e)
  PROVE  /\ entire_type(e) \in Type /\ entire_type(e).kind \notin {"name", "void"}
         /\ ~Unusual(e) => ~Faulty(entire_type(e))
<1>1. CASE e.is = "var" /\ e.ty.kind = "set"
  <2>1. entire_type(e) = [e.ty EXCEPT !.name = "new"]
    BY <1>1 DEF entire_type, entire_type_or
  <2>2. e.ty \in [kind : {"arr", "set"}, of : Base, name : TypeNames \cup {"new"}]
    BY <1>1, EntityFacts, TypeFacts
  <2>3. /\ entire_type(e) \in [kind : {"arr", "set"}, of : Base, name : TypeNames \cup {"new"}]
        /\ entire_type(e).kind = "set"
    BY <2>1, <2>2, <1>1
  <2> QED BY <2>3 DEF Type, DeclaredType, Faulty
<1>2. CASE e.is = "var" /\ e.ty.kind # "set"
  <2>1. entire_type(e) = IF StringArray(e) THEN Static("string") ELSE actual_type(e.ty)
    BY <1>2 DEF entire_type, entire_type_or
  <2>2. e.ty \in Type /\ e.ty.kind \notin {"name", "void", "null"}
    BY <1>2, EntityFacts DEF entire_faults
  <2>3. actual_type(e.ty) = e.ty
    BY <2>2, ActualTypes
  <2>4. Static("string") \in Type /\ Static("string").kind = "string"
    BY StaticTypes DEF Base
  <2> QED BY <2>1, <2>2, <2>3, <2>4 DEF Faulty
<1>3. CASE e.is = "func"
  <2>1. entire_type(e) = actual_type(e.ty)
    BY <1>3 DEF entire_type, entire_type_or, StringArray
  <2>2. e.ty.kind \notin {"null", "void"}
    BY <1>3, EntityFacts
  <2> QED BY <2>1, <2>2, EntityFacts, ActualTypes DEF Faulty, Unusual
<1>4. CASE e.is \in {"type", "none"}
  BY <1>4, StaticTypes DEF entire_type, entire_type_or, StringArray, Unusual, Faulty, Base
<1> QED BY <1>1, <1>2, <1>3, <1>4, EntityFacts

LEMMA EntireVarKeeps ==
  ASSUME TypesInv, NEW e \in Entities, EntireVar(e)
  PROVE  TypesInv' /\ Justified
<1>1. Running /\ strange' \in BOOLEAN /\ (strange => strange') /\ (Unusual(e) => strange')
  <2>1. Meets(Unusual(e)) /\ Running
    BY DEF EntireVar, Enters
  <2> QED BY <2>1, MeetsFacts, UnusualBoolean
<1>2. CASE entire_faults(e)
  <2>1. Unusual(e)
    BY <1>2 DEF entire_faults, Unusual
  <2> QED BY <2>1, <1>1, <1>2, DiesKnown DEF EntireVar
<1>3. CASE ~entire_faults(e)
  <2> DEFINE new == IF StringArray(e) THEN Misread(entire_type(e)) ELSE Variable(entire_type(e))
  <2>1. Good(new, failed \/ entire_fails(e), strange')
    <3>1. CASE StringArray(e)
      <4>1. new = Misread(Static("string"))
        BY <3>1 DEF StringArray, entire_type, entire_type_or
      <4> QED BY <4>1, MisreadGood
    <3>2. CASE ~StringArray(e)
      BY <1>1, <1>3, <3>2, EntireTypes, ExprGood DEF Faulty
    <3> QED BY <3>1, <3>2
  <2>2. /\ ~entire_fails(e) => EntireRules(e) \subseteq Gaps
        /\ entire_fails(e) => EntireRules(e) # {}
    BY EntityFacts DEF entire_fails, EntireRules, Rule, Gaps
  <2>3. entire_fails(e) \in BOOLEAN
    BY DEF entire_fails
  <2>4. Returns(0, <<new>>, entire_fails(e), EntireRules(e))
    BY <1>3 DEF EntireVar
  <2>5. 0 \in 0 .. Len(checked)
    BY DEF TypesInv
  <2> HIDE DEF new
  <2>6. ReturnsGood(0, new, entire_fails(e), EntireRules(e))
    BY <1>1, <2>1, <2>2, <2>3, <2>4, <2>5 DEF ReturnsGood
  <2> QED BY <2>6, ReturnsKeeps
<1> QED BY <1>2, <1>3

LEMMA IndexedVarKeeps ==
  ASSUME TypesInv, NEW e \in Entities, NEW rules, rules \subseteq {"string index"}, IndexedVar(e, rules)
  PROVE  TypesInv' /\ Justified
<1>1. /\ Running /\ 0 \in 0 .. Len(checked)
      /\ strange' \in BOOLEAN /\ (strange => strange') /\ (Unusual(e) => strange')
  <2>1. Meets(Unusual(e)) /\ Running
    BY DEF IndexedVar, Enters
  <2>2. 0 \in 0 .. Len(checked)
    BY Enough
  <2> QED BY <2>1, <2>2, MeetsFacts, UnusualBoolean
<1>2. CASE entire_faults(e) \/ Faulty(entire_type(e))
  <2>1. Unusual(e)
    BY <1>2, EntireTypes DEF entire_faults, Unusual
  <2> QED BY <2>1, <1>1, <1>2, DiesKnown DEF IndexedVar
<1>3. CASE ~entire_faults(e) /\ ~Faulty(entire_type(e))
  <2> DEFINE t == entire_type(e)
  <2>1. t \in Type /\ t.kind # "name" /\ (~strange' => t.kind # "null")
    BY <1>1, <1>3, EntireTypes DEF Faulty
  <2>2. entire_fails(e) \in BOOLEAN
    BY DEF entire_fails
  <2>3. t.kind \in {"arr", "string"} => ~entire_fails(e)
    BY StaticTypes DEF entire_fails, entire_type, entire_type_or, StringArray, Base
  <2>4. CASE t.kind = "arr"
    <3>1. Returns(0, <<Begun("index", t, << >>)>>, entire_fails(e), {})
      BY <1>3, <2>4 DEF IndexedVar
    <3>2. Good(Begun("index", t, << >>), failed \/ entire_fails(e), strange')
      <4> HIDE DEF t
      <4> QED BY <2>1, <2>4, IndexGood
    <3>3. ReturnsGood(0, Begun("index", t, << >>), entire_fails(e), {})
      BY <1>1, <2>2, <2>4, <2>3, <3>1, <3>2 DEF ReturnsGood
    <3> QED BY <3>3, ReturnsKeeps
  <2>5. CASE t.kind = "string"
    <3> DEFINE new == IF StringArray(e) THEN Misread(Static("char")) ELSE Variable(Static("char"))
    <3>1. Returns(0, <<new>>, entire_fails(e), rules)
      BY <1>3, <2>5 DEF IndexedVar
    <3>2. Good(new, failed \/ entire_fails(e), strange')
      BY BasicGood, MisreadGood DEF Base
    <3> HIDE DEF new
    <3>3. ReturnsGood(0, new, entire_fails(e), rules)
      BY <1>1, <2>2, <2>5, <2>3, <3>1, <3>2 DEF ReturnsGood, Gaps
    <3> QED BY <3>3, ReturnsKeeps
  <2>6. CASE t.kind \notin {"arr", "string"}
    <3>1. Returns(0, <<Variable(Static("int"))>>, TRUE, {"array"})
      BY <1>3, <2>6 DEF IndexedVar
    <3>2. Good(Variable(Static("int")), failed \/ TRUE, strange')
      BY BasicGood DEF Base
    <3>3. ReturnsGood(0, Variable(Static("int")), TRUE, {"array"})
      BY <1>1, <3>1, <3>2 DEF ReturnsGood
    <3> QED BY <3>3, ReturnsKeeps
  <2> QED BY <2>4, <2>5, <2>6
<1> QED BY <1>2, <1>3

\* Rules that only a gap can break.
LEMMA WholeRule ==
  ASSUME NEW r, NEW rule, r.ty.kind \in Integral
  PROVE  Whole(r, rule) \subseteq Gaps
BY DEF Whole, Rule, Gaps

\* A value that is not an integer breaks the rule for one.
LEMMA WholeBroken ==
  ASSUME NEW r, NEW rule, r.ty.kind \notin Integral
  PROVE  Whole(r, rule) # {}
BY DEF Whole

LEMMA BoundRule ==
  ASSUME NEW r, NEW rule
  PROVE  /\ r.ty.kind = "int" => Bound(r, rule) \subseteq Gaps
         /\ r.ty.kind # "int" => Bound(r, rule) # {}
<1>1. CASE r.ty.kind = "int"
  <2>1. Whole(r, rule) \subseteq Gaps
    BY <1>1, WholeRule DEF Integral
  <2>2. Bound(r, rule) = Whole(r, rule)
    BY <1>1 DEF Bound, Rule
  <2> QED BY <1>1, <2>1, <2>2
<1>2. CASE r.ty.kind = "longint"
  BY <1>2 DEF Bound, Rule
<1>3. CASE r.ty.kind \notin Integral
  BY <1>3, WholeBroken DEF Bound, Integral
<1> QED BY <1>1, <1>2, <1>3 DEF Integral

LEMMA ProperRule == ASSUME NEW r PROVE Proper(r) \subseteq Gaps
BY DEF Proper, Rule, Gaps

LEMMA EndIndexKeeps ==
  ASSUME TypesInv, EndIndex
  PROVE  TypesInv' /\ Justified
<1> DEFINE new == IF Top.ty.kind \notin {"int"} THEN Variable(Static("int"))
                  ELSE IF Second.ty.of = "string" THEN Misread(Static("char"))
                  ELSE Variable(Elem(Second.ty))
           error == Top.ty.kind \notin {"int"}
           rules == Bound(Top, "index") \cup Proper(Top)
<1>1. /\ Running /\ HasResult /\ Len(checked) > 1 /\ Second.form = "index"
      /\ strange' = strange /\ strange' \in BOOLEAN /\ 2 \in 0 .. Len(checked)
  BY DEF EndIndex, EndIndexFor, Known, TypesInv
<1>2. CASE Faulty(Top.ty)
  <2>1. strange'
    BY <1>1, <1>2, OnTop DEF TypesInv
  <2> QED BY <2>1, <1>1, <1>2, DiesKnown DEF EndIndex, EndIndexFor
<1>3. CASE ~Faulty(Top.ty)
  <2>1. Returns(2, <<new>>, error, rules)
    BY <1>3 DEF EndIndex, EndIndexFor
  <2>2. Second.ty.kind = "arr" /\ Second.ty \in Type
    BY <1>1, Below DEF Good
  <2>3. Elem(Second.ty) \in Type /\ Elem(Second.ty).kind \in Base
    BY <2>2, TypeFacts
  <2>4. (~error => rules \subseteq Gaps) /\ (error => rules # {})
    BY BoundRule, ProperRule
  <2>5. error \in BOOLEAN
    OBVIOUS
  <2>6. Good(new, failed \/ error, strange')
    <3>1. Good(Variable(Elem(Second.ty)), failed \/ error, strange')
      BY <2>3, ExprGood DEF Base
    <3>2. Good(Variable(Static("int")), failed \/ error, strange')
      BY BasicGood DEF Base
    <3>3. Good(Misread(Static("char")), failed \/ error, strange')
      BY MisreadGood
    <3> QED BY <3>1, <3>2, <3>3
  <2> HIDE DEF new, error, rules
  <2>7. ReturnsGood(2, new, error, rules)
    BY <1>1, <2>1, <2>4, <2>5, <2>6 DEF ReturnsGood
  <2> QED BY <2>7, ReturnsKeeps
<1> QED BY <1>2, <1>3

-----------------------------------------------------------------------------
(* Operators, calls and predefined functions                               *)

LEMMA OperatorSound ==
  ASSUME NEW op \in {"plus", "times", "div", "relation", "bool", "in"}, NEW l, NEW r,
         ~OperatorFails(op, l, r)
  PROVE  OperatorRules(op, l, r) \subseteq Gaps
<1>1. CASE op \in {"plus", "times", "div"} /\ Concatenates(l, r)
  BY <1>1 DEF OperatorRules, Rule, Gaps
<1>2. CASE op \in {"plus", "times", "relation"} /\ ~(op \in {"plus", "times", "div"} /\ Concatenates(l, r))
  <2>1. OperatorRules(op, l, r) = Rule("number", l.ty.kind \in Numeric /\ r.ty.kind \in Numeric)
    BY <1>2 DEF OperatorRules
  <2>2. l.ty.kind \in Numeric /\ r.ty.kind \in Numeric
    BY <1>2 DEF OperatorFails
  <2> QED BY <2>1, <2>2 DEF Rule
<1>3. CASE op = "div" /\ ~Concatenates(l, r)
  <2>1. OperatorRules(op, l, r) = Whole(l, "division") \cup Whole(r, "division")
    BY <1>3 DEF OperatorRules
  <2>2. l.ty.kind \in Integral /\ r.ty.kind \in Integral
    BY <1>3 DEF OperatorFails
  <2> QED BY <2>1, <2>2, WholeRule
<1>4. CASE op = "bool"
  BY <1>4 DEF OperatorRules, OperatorFails, Rule
<1>5. CASE op = "in"
  <2>1. r.ty.kind = "set"
    BY <1>5 DEF OperatorFails
  <2>2. OperatorRules(op, l, r) = Rule("set", TRUE) \cup Rule("element", l.ty.kind = r.ty.of)
    BY <2>1, <1>5 DEF OperatorRules
  <2> QED BY <2>2 DEF Rule, Gaps
<1> QED BY <1>1, <1>2, <1>3, <1>4, <1>5

\* An operator that fails breaks its rule.
LEMMA OperatorBroken ==
  ASSUME NEW op \in {"plus", "times", "div", "relation", "bool", "in"}, NEW l, NEW r,
         OperatorFails(op, l, r)
  PROVE  OperatorRules(op, l, r) # {}
<1>1. ~(op \in {"plus", "times", "div"} /\ Concatenates(l, r))
  BY DEF OperatorFails
<1>2. CASE op = "div"
  <2>1. OperatorRules(op, l, r) = Whole(l, "division") \cup Whole(r, "division")
    BY <1>1, <1>2 DEF OperatorRules
  <2>2. l.ty.kind \notin Integral \/ r.ty.kind \notin Integral
    BY <1>2 DEF OperatorFails
  <2> QED BY <2>1, <2>2, WholeBroken
<1>3. CASE op \in {"plus", "times", "relation"}
  BY <1>1, <1>3 DEF OperatorRules, OperatorFails, Rule
<1>4. CASE op \in {"bool", "in"}
  BY <1>4 DEF OperatorRules, OperatorFails, Rule
<1> QED BY <1>2, <1>3, <1>4

\* The strongest of two operands' leaves is what ArithmeticType gives.
LEMMA StrongerOfTwo ==
  ASSUME NEW op \in {"plus", "times", "div"}, NEW l, NEW r,
         l.leaves \in SUBSET Numeric, r.leaves \in SUBSET Numeric,
         l.ty.kind \in Numeric => l.ty.kind = Strongest(l.leaves),
         r.ty.kind \in Numeric => r.ty.kind = Strongest(r.leaves),
         ~OperatorFails(op, l, r), ArithmeticType(op, l, r).kind \in Numeric
  PROVE  ArithmeticType(op, l, r).kind = Strongest(l.leaves \cup r.leaves)
<1>1. ~Concatenates(l, r)
  BY DEF ArithmeticType, Static, Numeric, Integral
<1>2. /\ l.ty.kind \in Numeric /\ r.ty.kind \in Numeric
      /\ op = "div" => l.ty.kind # "real" /\ r.ty.kind # "real"
  BY <1>1 DEF OperatorFails, Numeric, Integral
<1>3. ArithmeticType(op, l, r).kind =
        IF "longint" \in {l.ty.kind, r.ty.kind} THEN "longint"
        ELSE IF "real" \in {l.ty.kind, r.ty.kind} THEN "real" ELSE "int"
  BY <1>1, <1>2 DEF ArithmeticType, Static
<1> QED BY <1>2, <1>3 DEF Strongest, Numeric, Integral

LEMMA OperatorKeeps ==
  ASSUME TypesInv, NEW op \in {"plus", "times", "div", "relation", "bool", "in"}, Operator(op)
  PROVE  TypesInv' /\ Justified
<1> DEFINE new == IF op \in {"relation", "bool", "in"} THEN Expr(Static("bool"))
                  ELSE Result("expr", ArithmeticType(op, Second, Top), Second.leaves \cup Top.leaves)
           error == OperatorFails(op, Second, Top)
           rules == OperatorRules(op, Second, Top) \cup Proper(Second) \cup Proper(Top)
<1>1. /\ Running /\ HasResult /\ Len(checked) > 1 /\ IsResult(Second)
      /\ strange' = strange /\ strange' \in BOOLEAN /\ 2 \in 0 .. Len(checked)
  BY DEF Operator, HasTwo, HasResult, Known, TypesInv
<1>2. /\ Good(Top, failed, strange) /\ Good(Second, failed, strange)
      /\ Top \in Entry /\ Second \in Entry
  BY <1>1, OnTop, Below
<1>3. CASE OperatorFaults(op, Second, Top)
  <2>1. strange'
    BY <1>1, <1>2, <1>3 DEF OperatorFaults, Faulty, Good
  <2> QED BY <2>1, <1>1, <1>3, DiesKnown DEF Operator
<1>4. CASE ~OperatorFaults(op, Second, Top)
  <2>1. Returns(2, <<new>>, error, rules)
    BY <1>4 DEF Operator
  <2>2. error \in BOOLEAN
    BY DEF OperatorFails
  <2>3. (~error => rules \subseteq Gaps) /\ (error => rules # {})
    BY OperatorSound, OperatorBroken, ProperRule
  <2>4. Good(new, failed \/ error, strange')
    <3>1. CASE op \in {"relation", "bool", "in"}
      BY <3>1, StaticTypes, ExprGood DEF Base
    <3>2. CASE op \in {"plus", "times", "div"}
      <4> DEFINE t == ArithmeticType(op, Second, Top)
                 leaves == Second.leaves \cup Top.leaves
      <4>1. t \in Type /\ t.kind \in Numeric \cup {"string"}
        BY StaticTypes DEF ArithmeticType, Base, Numeric, Integral
      <4>2. leaves \in SUBSET Numeric
        BY <1>2 DEF Entry
      <4>3. ~(failed \/ error) /\ t.kind \in Numeric => t.kind = Strongest(leaves)
        BY <1>1, <1>2, <3>2, StrongerOfTwo DEF Good, Entry, HasResult
      <4>4. new = Result("expr", t, leaves)
        BY <3>2
      <4> HIDE DEF t, leaves, new, error
      <4> QED BY <4>1, <4>2, <4>3, <4>4 DEF Good, Result, Entry, IsResult, IsVar, Numeric, Integral
    <3> QED BY <3>1, <3>2
  <2> HIDE DEF new, error, rules
  <2>5. ReturnsGood(2, new, error, rules)
    BY <1>1, <2>1, <2>2, <2>3, <2>4 DEF ReturnsGood
  <2> QED BY <2>5, ReturnsKeeps
<1> QED BY <1>3, <1>4

LEMMA NegateKeeps ==
  ASSUME TypesInv, Negate
  PROVE  TypesInv' /\ Justified
<1> DEFINE new == [Top EXCEPT !.form = "expr"]
<1>1. /\ Running /\ HasResult /\ strange' = strange /\ strange' \in BOOLEAN /\ 1 \in 0 .. Len(checked)
      /\ Returns(1, <<new>>, FALSE, Proper(Top))
  <2>1. Running /\ HasResult /\ strange' = strange /\ Returns(1, <<new>>, FALSE, Proper(Top))
    BY DEF Negate, Known
  <2>2. Len(checked) \in Nat /\ Len(checked) >= 1
    BY <2>1, OnTop
  <2>3. 1 \in 0 .. Len(checked)
    BY <2>2
  <2>4. strange' \in BOOLEAN
    BY <2>1 DEF TypesInv
  <2> HIDE DEF new
  <2> QED BY <2>1, <2>3, <2>4
<1>2. Good(new, failed \/ FALSE, strange')
  <2>1. Good(Top, failed, strange) /\ IsResult(Top) /\ Top \in Entry
    BY <1>1, OnTop DEF HasResult
  <2> QED BY <1>1, <2>1 DEF Good, Entry, IsResult, IsVar
<1> HIDE DEF new
<1>3. ReturnsGood(1, new, FALSE, Proper(Top))
  BY <1>1, <1>2, ProperRule DEF ReturnsGood
<1> QED BY <1>3, ReturnsKeeps

LEMMA BeginCallKeeps ==
  ASSUME TypesInv, NEW e \in Entities, NEW n \in Nat, BeginCall(e, n)
  PROVE  TypesInv' /\ Justified
<1> DEFINE unusual == Unusual(e) \/ e.is = "none" \/ n = 0 \/ e.params = << >>
<1>1. /\ Running /\ 0 \in 0 .. Len(checked)
      /\ strange' \in BOOLEAN /\ (strange => strange') /\ (unusual => strange')
  <2>1. Meets(unusual) /\ Running
    BY DEF BeginCall, Enters
  <2>2. unusual \in BOOLEAN
    BY UnusualBoolean
  <2> HIDE DEF unusual
  <2> QED BY <2>1, <2>2, Enough, MeetsFacts
<1>2. CASE e.is = "none" \/ (e.is = "type" /\ e.ty.kind = "longint")
  <2>1. Dies
    BY <1>2 DEF BeginCall
  <2>2. unusual
    BY <1>2 DEF Unusual
  <2> QED BY <2>1, <2>2, <1>1, DiesKnown
<1>3. CASE e.is = "var" \/ (e.is = "type" /\ e.ty.kind # "longint")
  <2>1. Returns(0, <<Expr(Static("void"))>>, FALSE, {"function"})
    BY <1>3 DEF BeginCall
  <2>2. Good(Expr(Static("void")), failed \/ FALSE, strange')
    BY BasicGood
  <2>3. ReturnsGood(0, Expr(Static("void")), FALSE, {"function"})
    BY <1>1, <2>1, <2>2 DEF ReturnsGood, Gaps
  <2> QED BY <2>3, ReturnsKeeps
<1>4. CASE e.is = "func"
  <2>1. IF n = 0 \/ e.params = << >> THEN Dies
        ELSE IF n # Len(e.params) THEN Returns(0, <<Expr(Static("void"))>>, TRUE, {"count"})
        ELSE Returns(0, <<Begun("call", e.ty, e.params)>>, FALSE, {})
    BY <1>4 DEF BeginCall
  <2>2. CASE n = 0 \/ e.params = << >>
    BY <2>1, <2>2, <1>1, DiesKnown
  <2>3. CASE ~(n = 0 \/ e.params = << >>) /\ n # Len(e.params)
    <3>1. Returns(0, <<Expr(Static("void"))>>, TRUE, {"count"})
      BY <2>1, <2>3
    <3>2. Good(Expr(Static("void")), failed \/ TRUE, strange')
      BY BasicGood
    <3>3. ReturnsGood(0, Expr(Static("void")), TRUE, {"count"})
      BY <1>1, <3>1, <3>2 DEF ReturnsGood
    <3> QED BY <3>3, ReturnsKeeps
  <2>4. CASE ~(n = 0 \/ e.params = << >>) /\ n = Len(e.params)
    <3>1. Returns(0, <<Begun("call", e.ty, e.params)>>, FALSE, {})
      BY <2>1, <2>4
    <3>2. /\ e.ty \in Type /\ e.params \in Seq(DeclaredType)
          /\ e.ty.kind # "null"
      BY <1>4, EntityFacts
    <3>3. ~strange' => e.ty.kind # "name" /\ \A j \in DOMAIN e.params : e.params[j].kind # "name"
      BY <1>1 DEF Unusual
    <3>4. Good(Begun("call", e.ty, e.params), failed \/ FALSE, strange')
      BY <2>4, <3>2, <3>3, BegunGood
    <3>5. ReturnsGood(0, Begun("call", e.ty, e.params), FALSE, {})
      BY <1>1, <3>1, <3>4 DEF ReturnsGood
    <3> QED BY <3>5, ReturnsKeeps
  <2> QED BY <2>2, <2>3, <2>4
<1> QED BY <1>2, <1>3, <1>4, EntityFacts

\* What matches a parameter may be passed for it.
LEMMA ArgumentSound ==
  ASSUME NEW param \in DeclaredType, NEW r, r.ty \in Type, r.ty.kind # "name",
         match_type(r.ty, param)
  PROVE  ArgumentRules(param, r) \subseteq Gaps
<1>1. CASE param.kind = "name"
  <2>1. ArgumentRules(param, r) = Proper(r) \cup {"unresolved"}
    BY <1>1 DEF ArgumentRules, Integral
  <2> QED BY <2>1, ProperRule DEF Gaps
<1>2. CASE param.kind # "name"
  <2>1. actual_type(r.ty) = r.ty /\ actual_type(param) = param
    BY <1>2, ActualTypes, DeclaredTypes
  <2>2. r.ty = param \/ (r.ty.kind \in Integral /\ param.kind \in Integral)
    BY <2>1 DEF match_type, Integral
  <2>3. CASE param.kind \in Integral
    <3>1. ArgumentRules(param, r) = Proper(r) \cup Whole(r, "argument") \cup AreTypes(param, r.ty)
      BY <2>3 DEF ArgumentRules
    <3>2. Whole(r, "argument") \subseteq Gaps
      BY <2>2, <2>3, WholeRule
    <3> QED BY <3>1, <3>2, ProperRule, AreTypesRule
  <2>4. CASE param.kind \notin Integral
    <3>1. Compatible(param, r.ty) /\ param = r.ty /\ param.name # "new"
      BY <2>1, <2>2, <2>4 DEF Compatible, match_type, Integral
    <3>2. ArgumentRules(param, r) = Proper(r) \cup Rule("structure", TRUE)
      BY <2>4, <1>2, <3>1 DEF ArgumentRules
    <3> QED BY <3>2, ProperRule DEF Rule
  <2> QED BY <2>3, <2>4
<1> QED BY <1>1, <1>2

\* What does not match a parameter breaks a rule, or is of the same structure.
LEMMA ArgumentBroken ==
  ASSUME NEW param \in DeclaredType, NEW r, r.ty \in Type, r.ty.kind # "name",
         ~match_type(r.ty, param)
  PROVE  ArgumentRules(param, r) # {}
<1>1. CASE param.kind = "name"
  BY <1>1 DEF ArgumentRules, Integral
<1>2. CASE param.kind \in Integral
  <2>1. ArgumentRules(param, r) = Proper(r) \cup Whole(r, "argument") \cup AreTypes(param, r.ty)
    BY <1>2 DEF ArgumentRules
  <2>2. actual_type(r.ty) = r.ty /\ actual_type(param) = param
    BY <1>2, ActualTypes, DeclaredTypes DEF Integral
  <2>3. r.ty.kind \notin Integral \/ Foreign(r.ty) \/ Foreign(param)
    <3>1. ASSUME r.ty.kind \in Integral, ~Foreign(r.ty), ~Foreign(param) PROVE FALSE
      <4>1. r.ty = Static(r.ty.kind) /\ param = Static(param.kind)
        BY <1>2, <3>1, TypeFacts, DeclaredTypes DEF Integral
      <4> QED BY <1>2, <2>2, <3>1, <4>1 DEF match_type, Integral, Static
    <3> QED BY <3>1
  <2> QED BY <2>1, <2>3, WholeBroken, AreTypesRule
<1>3. CASE param.kind \notin Integral \cup {"name"}
  <2>1. actual_type(r.ty) = r.ty /\ actual_type(param) = param
    BY <1>3, ActualTypes, DeclaredTypes
  <2>2. CASE ~Compatible(param, r.ty)
    BY <1>3, <2>2 DEF ArgumentRules
  <2>3. CASE Compatible(param, r.ty)
    <3>1. param.kind = r.ty.kind
      BY <1>3, <2>3 DEF Compatible
    <3>2. ~(param = r.ty /\ param.name # "new")
      BY <2>1 DEF match_type
    <3>3. param.kind \in {"arr", "set"}
      <4>1. ASSUME param.kind \notin {"arr", "set"} PROVE FALSE
        <5>1. param = Static(param.kind) /\ r.ty = Static(param.kind)
          BY <1>3, <3>1, <4>1, StaticType, DeclaredTypes
        <5> QED BY <3>2, <5>1 DEF Static
      <4> QED BY <4>1
    <3>4. Rule("structure", param.kind \in {"arr", "set"} => param = r.ty /\ param.name # "new") # {}
      BY <3>2, <3>3 DEF Rule
    <3> QED BY <1>3, <2>3, <3>4 DEF ArgumentRules
  <2> QED BY <2>2, <2>3
<1> QED BY <1>1, <1>2, <1>3

LEMMA TailFacts ==
  ASSUME NEW S, NEW s \in Seq(S), Len(s) > 1
  PROVE  /\ Tail(s) \in Seq(S) /\ Tail(s) # << >>
         /\ \A j \in DOMAIN Tail(s) : j + 1 \in DOMAIN s /\ Tail(s)[j] = s[j + 1]
<1>1. s # << >> /\ Len(s) \in Nat
  OBVIOUS
<1>2. /\ Tail(s) \in Seq(S) /\ Len(Tail(s)) = Len(s) - 1
      /\ \A j \in 1 .. Len(Tail(s)) : Tail(s)[j] = s[j + 1]
  BY <1>1, HeadTailProperties
<1>3. DOMAIN Tail(s) = 1 .. Len(Tail(s)) /\ DOMAIN s = 1 .. Len(s)
  BY <1>2
<1>4. Tail(s) # << >>
  <2>1. Len(Tail(s)) # 0
    BY <1>1, <1>2
  <2>2. Len(<< >>) = 0
    OBVIOUS
  <2> QED BY <2>1, <2>2
<1> DEFINE t == Tail(s)
<1> HIDE DEF t
<1>5. \A j \in 1 .. Len(s) - 1 : j + 1 \in 1 .. Len(s)
  BY <1>1
<1> QED BY <1>2, <1>3, <1>4, <1>5

LEMMA ArgumentKeeps ==
  ASSUME TypesInv, Argument
  PROVE  TypesInv' /\ Justified
<1> DEFINE param == Head(Second.rest)
           error == ~match_type(Top.ty, param)
           new == IF ~match_type(Top.ty, param) THEN Expr(Static("void"))
                  ELSE IF Len(Second.rest) > 1 THEN [Second EXCEPT !.rest = Tail(@)]
                  ELSE Expr(actual_type(Second.ty))
           rules == ArgumentRules(param, Top)
<1>1. /\ Running /\ HasResult /\ Len(checked) > 1 /\ Second.form = "call"
      /\ IF match_faults(Top.ty, param) THEN Dies ELSE Returns(2, <<new>>, error, rules)
      /\ Known
  BY DEF Argument, ArgumentOf
<1>2. /\ strange' = strange /\ strange' \in BOOLEAN /\ 2 \in 0 .. Len(checked)
  BY <1>1, KnownFacts, Enough
<1>3. /\ Good(Top, failed, strange) /\ Good(Second, failed, strange)
      /\ Top \in Entry /\ Second \in Entry /\ Top.ty \in Type /\ Top.ty.kind # "name"
      /\ Second.ty \in Type /\ Second.rest \in Seq(DeclaredType) /\ Second.rest # << >>
  BY <1>1, OnTop, Below DEF Good
<1>4. param \in DeclaredType /\ 1 \in DOMAIN Second.rest /\ param = Second.rest[1]
  BY <1>3
<1>5. CASE match_faults(Top.ty, param)
  <2>1. Faulty(Top.ty) \/ param.kind = "name"
    BY <1>5, <1>3, <1>4, DeclaredTypes DEF match_faults, Faulty, actual_type
  <2>2. strange'
    BY <2>1, <1>2, <1>3, <1>4 DEF Good, Faulty
  <2> QED BY <2>2, <1>1, <1>2, <1>5, DiesKnown
<1>6. CASE ~match_faults(Top.ty, param)
  <2>1. Returns(2, <<new>>, error, rules)
    BY <1>1, <1>6
  <2>2. (~error => rules \subseteq Gaps) /\ (error => rules # {})
    BY <1>3, <1>4, ArgumentSound, ArgumentBroken
  <2>3. error \in BOOLEAN
    OBVIOUS
  <2>4. Good(new, failed \/ error, strange')
    <3>1. CASE error
      BY <3>1, BasicGood
    <3>2. CASE ~error /\ Len(Second.rest) > 1
      <4>1. /\ Tail(Second.rest) \in Seq(DeclaredType) /\ Tail(Second.rest) # << >>
            /\ \A j \in DOMAIN Tail(Second.rest) :
                 j + 1 \in DOMAIN Second.rest /\ Tail(Second.rest)[j] = Second.rest[j + 1]
        BY <1>3, <3>2, TailFacts
      <4>2. new = [Second EXCEPT !.rest = Tail(Second.rest)]
        BY <3>2
      <4>3. new \in Entry /\ new.form = "call" /\ new.ty = Second.ty /\ new.rest = Tail(Second.rest)
        BY <1>1, <1>3, <4>1, <4>2 DEF Entry
      <4> HIDE DEF new, error
      <4>4. ~strange' => \A j \in DOMAIN new.rest : new.rest[j].kind # "name"
        BY <1>2, <1>3, <4>1, <4>3 DEF Good
      <4> QED BY <1>2, <1>3, <4>1, <4>3, <4>4 DEF Good, IsResult, IsVar
    <3>3. CASE ~error /\ ~(Len(Second.rest) > 1)
      <4>1. new = Expr(actual_type(Second.ty))
        BY <3>3
      <4>2. actual_type(Second.ty) \in Type /\ actual_type(Second.ty).kind # "name"
        BY <1>3, ActualTypes
      <4>3. ~strange' => actual_type(Second.ty).kind # "null"
        BY <1>2, <1>3, ActualTypes DEF Good
      <4> QED BY <4>1, <4>2, <4>3, ExprGood
    <3> QED BY <3>1, <3>2, <3>3
  <2> HIDE DEF new, error, rules
  <2>5. ReturnsGood(2, new, error, rules)
    BY <1>1, <1>2, <2>1, <2>2, <2>3, <2>4 DEF ReturnsGood
  <2> QED BY <2>5, ReturnsKeeps
<1> QED BY <1>5, <1>6

LEMMA PredefinedKeeps ==
  ASSUME TypesInv, NEW faults, NEW t, NEW fails, NEW rules, Predefined(faults, t, fails, rules),
         faults => Faulty(Top.ty),
         fails \in BOOLEAN,
         ~faults => /\ t \in Type /\ t.kind \notin {"name", "null"}
                    /\ ~fails => rules \subseteq Gaps
                    /\ fails => rules # {}
  PROVE  TypesInv' /\ Justified
<1>1. /\ Running /\ HasResult /\ Known
      /\ IF faults THEN Dies ELSE Returns(1, <<Expr(t)>>, fails, rules \cup Proper(Top))
  BY DEF Predefined
<1>2. strange' = strange /\ strange' \in BOOLEAN
  BY <1>1, KnownFacts
<1>3. 1 \in 0 .. Len(checked)
  BY <1>1, OnTop
<1>4. CASE faults
  <2>1. strange'
    BY <1>1, <1>2, <1>4, OnTop
  <2> QED BY <1>1, <1>2, <1>4, <2>1, DiesKnown
<1>5. CASE ~faults
  <2>1. Good(Expr(t), failed \/ fails, strange')
    BY <1>5, ExprGood
  <2>2. ReturnsGood(1, Expr(t), fails, rules \cup Proper(Top))
    BY <1>1, <1>2, <1>3, <1>5, <2>1, ProperRule DEF ReturnsGood
  <2> QED BY <2>2, ReturnsKeeps
<1> QED BY <1>4, <1>5

LEMMA OrdinalRule ==
  ASSUME NEW r
  PROVE  Ordinal(r) \subseteq Gaps /\ (~ordinal_type(r.ty) => Ordinal(r) # {})
BY DEF Ordinal, Rule, Gaps, ordinal_type

LEMMA BasicType ==
  ASSUME NEW k \in Base \cup {"void"}
  PROVE  Static(k) \in Type /\ Static(k).kind \notin {"name", "null"}
BY StaticTypes DEF Base

LEMMA PredefinedFunctions ==
  ASSUME TypesInv, Ord \/ Chr \/ Length \/ LowHigh \/ Random
  PROVE  TypesInv' /\ Justified
<1>1. CASE Ord
  <2> DEFINE fails == ~ordinal_type(Top.ty)
             rules == Ordinal(Top)
  <2>1. Predefined(FALSE, Static("int"), fails, rules)
    BY <1>1 DEF Ord
  <2>2. Static("int") \in Type /\ Static("int").kind \notin {"name", "null"}
    BY BasicType DEF Base
  <2>3. fails \in BOOLEAN
    BY DEF ordinal_type
  <2>4. rules \subseteq Gaps /\ (fails => rules # {})
    BY OrdinalRule
  <2> HIDE DEF fails, rules
  <2> QED BY <2>1, <2>2, <2>3, <2>4, PredefinedKeeps
<1>2. CASE Chr
  <2> DEFINE fails == ~ordinal_type(Top.ty)
             rules == Ordinal(Top)
  <2>1. Predefined(FALSE, Static("char"), fails, rules)
    BY <1>2 DEF Chr
  <2>2. Static("char") \in Type /\ Static("char").kind \notin {"name", "null"}
    BY BasicType DEF Base
  <2>3. fails \in BOOLEAN
    BY DEF ordinal_type
  <2>4. rules \subseteq Gaps /\ (fails => rules # {})
    BY OrdinalRule
  <2> HIDE DEF fails, rules
  <2> QED BY <2>1, <2>2, <2>3, <2>4, PredefinedKeeps
<1>3. CASE Length
  <2> DEFINE rules == Rule("length", Top.ty.kind \in {"string", "arr"})
             fails == Top.ty.kind \notin {"string", "arr"}
  <2>1. Predefined(Faulty(Top.ty), Static("int"), fails, rules)
    BY <1>3 DEF Length
  <2>2. Static("int") \in Type /\ Static("int").kind \notin {"name", "null"}
    BY BasicType DEF Base
  <2>3. fails \in BOOLEAN /\ (~fails => rules \subseteq Gaps) /\ (fails => rules # {})
    BY DEF Rule
  <2> HIDE DEF rules, fails
  <2> QED BY <2>1, <2>2, <2>3, PredefinedKeeps
<1>4. CASE LowHigh
  <2> DEFINE rules == Rule("bounds", Top.ty.kind = "arr")
             fails == Top.ty.kind # "arr"
             t == IF Top.ty.kind = "arr" THEN Elem(Top.ty) ELSE Static("int")
  <2>1. Predefined(Faulty(Top.ty), t, fails, rules) /\ HasResult
    BY <1>4 DEF LowHigh
  <2>2. t \in Type /\ t.kind \notin {"name", "null"}
    <3>1. Top.ty \in Type
      BY <2>1, OnTop
    <3> QED BY <3>1, TypeFacts, BasicType DEF Base
  <2>3. fails \in BOOLEAN /\ (~fails => rules \subseteq Gaps) /\ (fails => rules # {})
    BY DEF Rule
  <2> HIDE DEF rules, fails, t
  <2> QED BY <2>1, <2>2, <2>3, PredefinedKeeps
<1>5. CASE Random
  <2> DEFINE rules == Whole(Top, "random")
             fails == Top.ty.kind \notin Integral
             t == IF Top.ty.kind \in Integral THEN Top.ty ELSE Static("void")
  <2>1. Predefined(Faulty(Top.ty), t, fails, rules) /\ HasResult
    BY <1>5 DEF Random, Predefined
  <2>2. t \in Type /\ t.kind \notin {"name", "null"}
    <3>1. Top.ty \in Type
      BY <2>1, OnTop
    <3> QED BY <3>1, BasicType DEF Integral
  <2>3. fails \in BOOLEAN /\ (~fails => rules \subseteq Gaps) /\ (fails => rules # {})
    BY WholeRule, WholeBroken
  <2> HIDE DEF rules, fails, t
  <2> QED BY <2>1, <2>2, <2>3, PredefinedKeeps
<1> QED BY <1>1, <1>2, <1>3, <1>4, <1>5

-----------------------------------------------------------------------------
(* Statements                                                              *)

LEMMA EndsKeeps ==
  ASSUME TypesInv, Running, NEW faults, NEW fails \in BOOLEAN, NEW rules, Ends(faults, fails, rules),
         faults => strange,
         ~faults /\ ~fails => rules \subseteq Gaps,
         ~faults /\ fails => rules # {}
  PROVE  TypesInv' /\ Justified
<1>1. /\ Known
      /\ IF faults THEN Dies ELSE Returns(Len(checked), << >>, fails, rules)
  BY DEF Ends
<1>2. strange' = strange /\ strange' \in BOOLEAN
  BY <1>1, KnownFacts
<1>3. CASE faults
  BY <1>1, <1>2, <1>3, DiesKnown
<1>4. CASE ~faults
  BY <1>1, <1>4, ReturnsNothing
<1> QED BY <1>3, <1>4

\* The operands of a statement.
LEMMA OperandFacts ==
  ASSUME TypesInv, NEW n \in Nat, Complete(n), NEW k \in 1 .. n
  PROVE  /\ IsResult(checked[k]) /\ checked[k].ty \in Type /\ checked[k].ty.kind # "name"
         /\ IsVar(checked[k]) => checked[k].ty.kind # "void"
         /\ checked[k].form = "set" => checked[k].ty.kind \in {"char", "void"}
         /\ Faulty(checked[k].ty) => strange
<1>1. k \in DOMAIN checked /\ IsResult(checked[k])
  BY DEF Complete, TypesInv
<1>2. Good(checked[k], failed, strange)
  BY <1>1 DEF TypesInv
<1> QED BY <1>1, <1>2 DEF Good, Entry, Faulty

LEMMA LastOperand ==
  ASSUME TypesInv, Complete(1)
  PROVE  /\ Running /\ Top = checked[1] /\ Top.ty \in Type /\ Top.ty.kind # "name"
         /\ Faulty(Top.ty) => strange
<1>1. Running /\ Top = checked[1]
  BY DEF Complete, Top
<1> QED BY <1>1, OperandFacts

\* What an assignment compares has the one type of its kind, or is no type.
LEMMA UnwrappedTypes ==
  ASSUME NEW t \in Type, t.kind \notin {"name", "null"}
  PROVE  /\ Foreign(t) \/ Unwrapped(t) = Static(Unwrapped(t).kind)
         /\ Unwrapped(t) \in Type /\ Unwrapped(t).kind \in Base \cup {"void"}
<1>1. CASE t.kind \in {"arr", "set"}
  <2>1. t.of \in Base /\ Unwrapped(t) = Static(t.of)
    BY <1>1, TypeFacts DEF Unwrapped, Elem
  <2> QED BY <2>1, StaticTypes
<1>2. CASE t.kind \notin {"arr", "set"}
  BY <1>2, TypeFacts DEF Unwrapped
<1> QED BY <1>1, <1>2

\* The types of an assignment that has no fault are compatible if they match, and
\* match if they are compatible types.
LEMMA AssignMatches ==
  ASSUME NEW v, NEW r, v.ty \in Type, v.ty.kind # "name", r.ty \in Type, r.ty.kind # "name",
         ~AssignFaults(v, r)
  PROVE  /\ ~AssignFails(v, r) => Compatible(Unwrapped(v.ty), Unwrapped(r.ty))
         /\ AssignFails(v, r) /\ ~Foreign(v.ty) /\ ~Foreign(r.ty)
              => ~Compatible(Unwrapped(v.ty), Unwrapped(r.ty))
<1> DEFINE a == Unwrapped(v.ty)
           b == Unwrapped(r.ty)
<1>1. v.ty.kind # "null" /\ r.ty.kind # "null"
  BY DEF AssignFaults, Faulty
<1>2. /\ a.kind \in Base \cup {"void"} /\ (Foreign(v.ty) \/ a = Static(a.kind))
      /\ b.kind \in Base \cup {"void"} /\ (Foreign(r.ty) \/ b = Static(b.kind))
  BY <1>1, UnwrappedTypes
<1>3. AssignFails(v, r) <=> ~match_type(a, b)
  BY DEF AssignFails
<1> HIDE DEF a, b
<1>4. actual_type(a) = a /\ actual_type(b) = b
  BY <1>2 DEF actual_type, Base
<1>5. match_type(a, b) <=> \/ a = b /\ a.name # "new"
                           \/ a.kind = "longint" /\ b.kind = "int"
                           \/ a.kind = "int" /\ b.kind = "longint"
  BY <1>4 DEF match_type
<1>6. match_type(a, b) => Compatible(a, b)
  BY <1>5 DEF Compatible, Integral
<1>7. ~Foreign(v.ty) /\ ~Foreign(r.ty) /\ Compatible(a, b) => match_type(a, b)
  BY <1>2, <1>5 DEF Compatible, Integral, Static
<1> QED BY <1>3, <1>6, <1>7 DEF a, b

\* An assignment that fails breaks a rule, or is of a set without a type.
LEMMA AssignBroken ==
  ASSUME NEW v, NEW r, v.ty \in Type, v.ty.kind # "name", r.ty \in Type, r.ty.kind # "name",
         ~AssignFaults(v, r), AssignFails(v, r),
         r.form = "set" => r.ty.kind \in {"char", "void"}
  PROVE  AssignRules(v, r) # {}
<1>1. Foreign(v.ty) \/ Foreign(r.ty) \/ ~Compatible(Unwrapped(v.ty), Unwrapped(r.ty))
  BY AssignMatches
<1>2. CASE r.form # "set"
  BY <1>1, <1>2, AreTypesRule DEF AssignRules
<1>3. CASE r.form = "set" /\ r.ty.kind = "void"
  BY <1>3 DEF AssignRules
<1>4. CASE r.form = "set" /\ r.ty.kind # "void"
  <2>1. ~(v.ty.kind = "set" /\ v.ty.of = r.ty.kind)
    <3>1. ASSUME v.ty.kind = "set", v.ty.of = r.ty.kind PROVE FALSE
      <4>0. ~Foreign(v.ty) /\ ~Foreign(r.ty) /\ r.ty.kind = "char"
        BY <1>4, <3>1 DEF Foreign, Integral
      <4>1. v.ty.of \in Base
        BY <3>1, TypeFacts
      <4>2. Unwrapped(v.ty) = Static(v.ty.of) /\ Unwrapped(r.ty) = r.ty /\ r.ty = Static(r.ty.kind)
        BY <3>1, <4>0, <4>1, StaticType DEF Unwrapped, Elem, Integral
      <4> QED BY <1>1, <3>1, <4>0, <4>2 DEF Compatible
    <3> QED BY <3>1
  <2> QED BY <1>4, <2>1 DEF AssignRules, Rule
<1> QED BY <1>2, <1>3, <1>4

\* Without a type a set constructor is refused.
LEMMA TypelessRefused ==
  ASSUME NEW v, NEW r, v.ty \in Type, v.ty.kind \notin {"name", "void"}, r.ty \in Type,
         r.ty.kind = "void", ~AssignFaults(v, r)
  PROVE  AssignFails(v, r)
<1>1. v.ty.kind # "null" /\ r.ty = Static("void")
  BY StaticType DEF AssignFaults, Faulty, Integral
<1>2. Unwrapped(r.ty) = Static("void") /\ Unwrapped(r.ty).kind = "void" /\ r.ty.kind # "name"
  BY <1>1 DEF Unwrapped, Static
<1>3. Unwrapped(v.ty).kind # "void"
  <2>1. CASE v.ty.kind \in {"arr", "set"}
    BY <2>1, TypeFacts DEF Unwrapped, Base
  <2>2. CASE v.ty.kind \notin {"arr", "set"}
    BY <2>2 DEF Unwrapped
  <2> QED BY <2>1, <2>2
<1> QED BY <1>2, <1>3, AssignMatches DEF Compatible, Integral

LEMMA AssignSound ==
  ASSUME NEW v, NEW r, v.ty \in Type, v.ty.kind \notin {"name", "void"}, r.ty \in Type,
         r.ty.kind # "name", ~AssignFaults(v, r), ~AssignFails(v, r)
  PROVE  AssignRules(v, r) \subseteq Gaps
<1>1. CASE r.form = "set"
  <2>1. r.ty.kind # "void"
    BY TypelessRefused
  <2> QED BY <1>1, <2>1 DEF AssignRules, Rule, Gaps
<1>2. CASE r.form # "set"
  <2>1. AssignRules(v, r) = Rule("level", Compatible(v.ty, r.ty)) \cup AreTypes(v.ty, r.ty) \cup
          (IF v.ty.kind \in Integral /\ r.ty.kind \in Integral THEN Whole(r, "assign") ELSE {})
    BY <1>2, AssignMatches DEF AssignRules
  <2>2. Rule("level", Compatible(v.ty, r.ty)) \subseteq Gaps
    BY DEF Rule, Gaps
  <2>3. (IF v.ty.kind \in Integral /\ r.ty.kind \in Integral THEN Whole(r, "assign") ELSE {}) \subseteq Gaps
    BY WholeRule
  <2> QED BY <2>1, <2>2, <2>3, AreTypesRule
<1> QED BY <1>1, <1>2

LEMMA AssignKeeps ==
  ASSUME TypesInv, Assign
  PROVE  TypesInv' /\ Justified
<1> DEFINE v == checked[1]
           r == checked[2]
<1>1. /\ Running /\ Complete(2) /\ Ends(AssignFaults(v, r), AssignFails(v, r), AssignRules(v, r))
      /\ IsVar(v)
  BY DEF Assign, Complete
<1>2. AssignFaults(v, r) => strange
  BY <1>1, OperandFacts DEF AssignFaults
<1>3. AssignFails(v, r) \in BOOLEAN
  BY DEF AssignFails
<1>4. /\ v.ty \in Type /\ v.ty.kind \notin {"name", "void"}
      /\ r.ty \in Type /\ r.ty.kind # "name"
      /\ r.form = "set" => r.ty.kind \in {"char", "void"}
  BY <1>1, OperandFacts
<1> HIDE DEF v, r
<1> QED BY <1>1, <1>2, <1>3, <1>4, AssignSound, AssignBroken, EndsKeeps

LEMMA ForKeeps ==
  ASSUME TypesInv, For
  PROVE  TypesInv' /\ Justified
<1> DEFINE v == checked[1]
           lo == checked[2]
           to == checked[3]
           faults == AssignFaults(v, lo) \/ Faulty(to.ty)
           fails == AssignFails(v, lo) \/ v.ty.kind \notin Integral \/ to.ty.kind # "int"
           rules == AssignRules(v, lo) \cup Rule("variable", v.ty.kind \in Integral)
                      \cup Bound(to, "high") \cup Proper(to)
<1>1. Running /\ Complete(3) /\ Ends(faults, fails, rules) /\ IsVar(v)
  BY DEF For, Complete
<1>2. faults => strange
  BY <1>1, OperandFacts DEF AssignFaults
<1>3. fails \in BOOLEAN
  BY DEF AssignFails
<1>4. /\ v.ty \in Type /\ v.ty.kind \notin {"name", "void"}
      /\ lo.ty \in Type /\ lo.ty.kind # "name"
      /\ lo.form = "set" => lo.ty.kind \in {"char", "void"}
  BY <1>1, OperandFacts
<1>5. ~faults /\ ~fails => rules \subseteq Gaps
  <2>1. ASSUME ~faults, ~fails PROVE rules \subseteq Gaps
    <3>1. AssignRules(v, lo) \subseteq Gaps
      BY <1>4, <2>1, AssignSound
    <3>2. Rule("variable", v.ty.kind \in Integral) \subseteq Gaps
      BY <2>1 DEF Rule
    <3>3. Bound(to, "high") \subseteq Gaps
      BY <2>1, BoundRule
    <3> QED BY <3>1, <3>2, <3>3, ProperRule
  <2> QED BY <2>1
<1>6. ~faults /\ fails => rules # {}
  <2>1. ASSUME ~faults, fails PROVE rules # {}
    <3>1. CASE AssignFails(v, lo)
      BY <1>4, <2>1, <3>1, AssignBroken
    <3>2. CASE v.ty.kind \notin Integral
      BY <3>2 DEF Rule
    <3>3. CASE to.ty.kind # "int"
      BY <3>3, BoundRule
    <3> QED BY <2>1, <3>1, <3>2, <3>3
  <2> QED BY <2>1
<1> HIDE DEF faults, fails, rules
<1> QED BY <1>1, <1>2, <1>3, <1>5, <1>6, EndsKeeps

LEMMA OneOperandKeeps ==
  ASSUME TypesInv, While \/ InOut \/ Inc
  PROVE  TypesInv' /\ Justified
<1>1. CASE While
  <2> DEFINE fails == Top.ty.kind \notin {"int", "bool"}
             rules == Rule("while", Top.ty.kind \in {"int", "bool"}) \cup Proper(Top)
  <2>1. Complete(1) /\ Ends(Faulty(Top.ty), fails, rules)
    BY <1>1 DEF While
  <2>2. fails \in BOOLEAN /\ (~fails => rules \subseteq Gaps) /\ (fails => rules # {})
    BY ProperRule DEF Rule
  <2> HIDE DEF fails, rules
  <2> QED BY <2>1, <2>2, LastOperand, EndsKeeps
<1>2. CASE InOut
  <2> DEFINE fails == ~check_ioproc(Top.ty)
             rules == Rule("in or out", Top.ty.kind \in Numeric \cup {"string", "char"}) \cup Proper(Top)
  <2>1. Complete(1) /\ Ends(FALSE, fails, rules)
    BY <1>2 DEF InOut
  <2>2. ~fails <=> Top.ty.kind \in Numeric \cup {"string", "char"}
    <3>1. Top.ty \in Type /\ Top.ty.kind # "name"
      BY <2>1, LastOperand
    <3> QED BY <3>1, TypeFacts DEF check_ioproc, Base, Numeric, Integral
  <2>3. fails \in BOOLEAN /\ (~fails => rules \subseteq Gaps) /\ (fails => rules # {})
    BY <2>2, ProperRule DEF Rule, check_ioproc
  <2> HIDE DEF fails, rules
  <2> QED BY <2>1, <2>3, LastOperand, EndsKeeps
<1>3. CASE Inc
  <2> DEFINE fails == ~match_type(Top.ty, Static("int"))
             rules == Whole(Top, "inc") \cup AreTypes(Top.ty, Static("int"))
  <2>1. Complete(1) /\ Ends(Faulty(Top.ty), fails, rules)
    BY <1>3 DEF Inc
  <2>2. /\ ~fails => Top.ty.kind \in Integral
        /\ fails => Top.ty.kind \notin Integral \/ Foreign(Top.ty)
    <3>1. Top.ty \in Type /\ Top.ty.kind # "name"
      BY <2>1, LastOperand
    <3>2. actual_type(Top.ty) = Top.ty
      BY <3>1, ActualTypes
    <3>3. actual_type(Static("int")) = Static("int") /\ Static("int").kind = "int" /\ Static("int").name # "new"
      BY DEF actual_type, Static
    <3>4. Top.ty.kind = "int" => Foreign(Top.ty) \/ Top.ty = Static("int")
      BY <3>1, TypeFacts
    <3> QED BY <3>2, <3>3, <3>4 DEF match_type, Integral
  <2>3. fails \in BOOLEAN /\ (~fails => rules \subseteq Gaps) /\ (fails => rules # {})
    BY <2>2, WholeRule, WholeBroken, AreTypesRule
  <2> HIDE DEF fails, rules
  <2> QED BY <2>1, <2>3, LastOperand, EndsKeeps
<1> QED BY <1>1, <1>2, <1>3

LEMMA SetLengthKeeps ==
  ASSUME TypesInv, SetLength
  PROVE  TypesInv' /\ Justified
<1> DEFINE faults == Faulty(checked[1].ty) \/ Faulty(checked[2].ty)
           fails == checked[1].ty.kind # "arr" \/ checked[2].ty.kind \notin Integral
           rules == Rule("array", checked[1].ty.kind = "arr")
                      \cup Whole(checked[2], "length") \cup Proper(checked[2])
<1>1. Running /\ Complete(2) /\ Ends(faults, fails, rules)
  BY DEF SetLength, Complete
<1>2. faults => strange
  BY <1>1, OperandFacts
<1>3. fails \in BOOLEAN
  OBVIOUS
<1>4. ~fails => rules \subseteq Gaps
  <2>1. ASSUME ~fails PROVE rules \subseteq Gaps
    <3>1. Rule("array", checked[1].ty.kind = "arr") \subseteq Gaps
      BY <2>1 DEF Rule
    <3>2. Whole(checked[2], "length") \subseteq Gaps
      BY <2>1, WholeRule
    <3> QED BY <3>1, <3>2, ProperRule
  <2> QED BY <2>1
<1>5. fails => rules # {}
  BY WholeBroken DEF Rule
<1> HIDE DEF faults, fails, rules
<1> QED BY <1>1, <1>2, <1>3, <1>4, <1>5, EndsKeeps

LEMMA IfKeeps ==
  ASSUME TypesInv, If
  PROVE  TypesInv' /\ Justified
<1> DEFINE test == [null |-> Faulty(Top.ty), bool |-> Top.ty.kind = "bool", set |-> Top.form = "set"]
<1>1. /\ Complete(1) /\ ifs' = Append(ifs, test) /\ checked' = << >> /\ broken' = {}
      /\ UNCHANGED <<failed, status, strange>>
  BY DEF If
<1>3. test \in Test
  BY DEF Test, Faulty
<1>4. ~strange => ~test.null
  BY <1>1, LastOperand
<1> HIDE DEF test
<1>5. ifs' \in Seq(Test) /\ (~strange => \A k \in DOMAIN ifs' : ~ifs'[k].null)
  BY <1>1, <1>3, <1>4 DEF TypesInv
<1> QED BY <1>1, <1>5 DEF TypesInv, CrashesKnown, OnlyGapsBroken, Justified

LEMMA EndIfKeeps ==
  ASSUME TypesInv, EndIf
  PROVE  TypesInv' /\ Justified
<1> DEFINE test == ifs[Len(ifs)]
<1>1. /\ Known /\ ifs # << >> /\ Running
      /\ IF test.null THEN Dies
         ELSE /\ ifs' = SubSeq(ifs, 1, Len(ifs) - 1)
              /\ failed' = (failed \/ ~test.bool)
              /\ broken' = IF failed THEN {} ELSE Rule("test", test.bool) \cup Rule("constructor", ~test.set)
              /\ UNCHANGED <<checked, status>>
  BY DEF EndIf, Complete
<1>2. strange' = strange /\ strange' \in BOOLEAN
  BY <1>1, KnownFacts
<1>3. Len(ifs) \in DOMAIN ifs /\ test \in Test /\ (test.null => strange)
  BY <1>1 DEF TypesInv
<1>4. CASE test.null
  BY <1>1, <1>2, <1>3, <1>4, DiesKnown
<1>5. CASE ~test.null
  <2>1. /\ ifs' \in Seq(Test)
        /\ \A k \in DOMAIN ifs' : k \in DOMAIN ifs /\ ifs'[k] = ifs[k]
    BY <1>1, <1>3, <1>5 DEF TypesInv
  <2>2. failed' \in BOOLEAN /\ (failed => failed') /\ status' = status /\ checked' = checked
    BY <1>1, <1>3, <1>5 DEF TypesInv, Test
  <2>3. \A k \in DOMAIN checked' : Good(checked'[k], failed', strange')
    BY <1>2, <2>2, GoodStays DEF TypesInv
  <2>4. OnlyGapsBroken'
    BY <1>1, <1>5 DEF OnlyGapsBroken, Rule, Gaps
  <2>5. ~strange' => \A k \in DOMAIN ifs' : ~ifs'[k].null
    BY <1>2, <2>1 DEF TypesInv
  <2>6. CrashesKnown'
    BY <1>1, <2>2 DEF CrashesKnown, Running
  <2>7. Justified
    BY <1>1, <1>5 DEF Justified, Rule
  <2> QED BY <1>2, <2>1, <2>2, <2>3, <2>4, <2>5, <2>6, <2>7 DEF TypesInv
<1> QED BY <1>4, <1>5

-----------------------------------------------------------------------------
LEMMA Inductive == TypesInv /\ [TypesNext]_vars => TypesInv' /\ Justified
<1> SUFFICES ASSUME TypesInv, [TypesNext]_vars PROVE TypesInv' /\ Justified
  OBVIOUS
<1>1. CASE Expression
  <2>1. CASE \E k \in {"int", "real", "string", "char", "bool"} : Constant(k)
    BY <2>1, ConstantKeeps
  <2>2. CASE \E lo, hi \in {"int", "real", "string", "char", "bool"}, up \in BOOLEAN : SetConstruct(lo, hi, up)
    BY <2>2, SetConstructKeeps
  <2>3. CASE \E e \in Entities : EntireVar(e)
    BY <2>3, EntireVarKeeps
  <2>4. CASE \E e \in Entities, rules \in SUBSET {"string index"} : IndexedVar(e, rules)
    BY <2>4, IndexedVarKeeps
  <2>5. CASE EndIndex
    BY <2>5, EndIndexKeeps
  <2>6. CASE \E op \in {"plus", "times", "div", "relation", "bool", "in"} : Operator(op)
    BY <2>6, OperatorKeeps
  <2>7. CASE Negate
    BY <2>7, NegateKeeps
  <2>8. CASE \E e \in Entities, n \in 0 .. MaxArgs : BeginCall(e, n)
    BY <2>8, BeginCallKeeps
  <2>9. CASE Argument
    BY <2>9, ArgumentKeeps
  <2>10. CASE Ord \/ Chr \/ Length \/ LowHigh \/ Random
    BY <2>10, PredefinedFunctions
  <2> QED BY <1>1, <2>1, <2>2, <2>3, <2>4, <2>5, <2>6, <2>7, <2>8, <2>9, <2>10 DEF Expression
<1>2. CASE Statement
  BY <1>2, AssignKeeps, ForKeeps, OneOperandKeeps, SetLengthKeeps, IfKeeps, EndIfKeeps DEF Statement
<1>3. CASE Stops \/ UNCHANGED vars
  BY <1>3 DEF Stops, vars, TypesInv, CrashesKnown, OnlyGapsBroken, Justified
<1> QED BY <1>1, <1>2, <1>3 DEF TypesNext

LEMMA InitialTypes == ASSUME TypesInit PROVE TypesInv
<1>1. checked \in Seq(Entry) /\ Len(checked) = 0
  BY EmptySeq DEF TypesInit
<1>2. ifs \in Seq(Test) /\ Len(ifs) = 0
  BY EmptySeq DEF TypesInit
<1>3. CrashesKnown /\ OnlyGapsBroken
  BY DEF TypesInit, CrashesKnown, OnlyGapsBroken
<1>4. failed \in BOOLEAN /\ strange \in BOOLEAN /\ status \in {"running", "crashed"}
  BY DEF TypesInit
<1> QED BY <1>1, <1>2, <1>3, <1>4 DEF TypesInv

LEMMA TypesAlways == TypesSpec => []TypesInv
BY InitialTypes, Inductive, PTL DEF TypesSpec

\* The type invariant, for every depth of expressions.
THEOREM TypesWellFormed == TypesSpec => []TypesTypeOK
<1>1. TypesInv => TypesTypeOK
  BY DEF TypesInv, TypesTypeOK, Good, Entry, Test
<1> QED BY <1>1, TypesAlways, PTL

\* An accepted program breaks no rule but those with a gap in the code, however
\* deep its expressions are and whatever types and functions it declares.
THEOREM RulesEnforced == TypesSpec => []OnlyGapsBroken
<1>1. TypesInv => OnlyGapsBroken
  BY DEF TypesInv
<1> QED BY <1>1, TypesAlways, PTL

\* The type of an accepted number is that of the strongest number in it.
THEOREM NumbersTyped == TypesSpec => []StrongestLeaf
<1>1. TypesInv => StrongestLeaf
  BY DEF TypesInv, StrongestLeaf, Good
<1> QED BY <1>1, TypesAlways, PTL

\* The type rules crash on nothing but the names and lists that CrashesKnown lists.
THEOREM CrashesExplained == TypesSpec => []CrashesKnown
<1>1. TypesInv => CrashesKnown
  BY DEF TypesInv
<1> QED BY <1>1, TypesAlways, PTL

\* No operand that keeps the rules of the messages is reported first, but for the
\* refusals that have a name: at every depth and for all types and functions.
THEOREM NothingElseRefused == TypesSpec => NoFalseAlarm
<1>1. TypesInv /\ [TypesNext]_vars => [~failed /\ failed' => broken' # {}]_vars
  BY Inductive DEF Justified
<1> QED BY <1>1, TypesAlways, PTL DEF TypesSpec, NoFalseAlarm

=============================================================================
