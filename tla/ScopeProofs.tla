----------------------------- MODULE ScopeProofs -----------------------------
(***************************************************************************)
(* Further proofs about Declarations, which rest on those of               *)
(* DeclarationsProofs: every function is opened, declared names are found, *)
(* bindings stay, and the validator implements BlockStructure.             *)
(***************************************************************************)
EXTENDS DeclarationsProofs

-----------------------------------------------------------------------------
(* What a step does to the frames                                          *)

\* The functions of a block that have a header and no body yet.
Waiting(f) == IF f.phase \in {"headers", "bodies"} THEN Len(f.list) ELSE 0

\* A step within a block changes the innermost frame only, and adds a function
\* to it if it counts one.
Continues ==
  /\ Len(frames') = Len(frames)
  /\ \A k \in DOMAIN frames : frames'[k].own = frames[k].own
  /\ \A k \in DOMAIN frames : k < Len(frames) => frames'[k] = frames[k]
  /\ Waiting(Top)' \in Nat
  /\ Waiting(Top)' + nfuncs = Waiting(Top) + nfuncs'

LEMMA WaitingType == ASSUME NEW f \in Frame PROVE Waiting(f) \in Nat
BY DEF Waiting, Frame

LEMMA StayContinues ==
  ASSUME TypeOK, UNCHANGED <<frames, nfuncs>>
  PROVE  Continues
<1>1. Waiting(Top)' = Waiting(Top) /\ nfuncs' = nfuncs
  BY DEF Waiting, Top
<1>2. Waiting(Top) \in Nat
  BY TopType, WaitingType
<1> QED BY <1>1, <1>2 DEF Continues, TypeOK

LEMMA GotoContinues ==
  ASSUME TypeOK, NEW phase \in Phase, NEW list \in Seq(Decl), NEW cycle \in BOOLEAN,
         Goto(phase, list, cycle), NEW w,
         w = (IF phase \in {"headers", "bodies"} THEN Len(list) ELSE 0),
         w + nfuncs = Waiting(Top) + nfuncs'
  PROVE  Continues
<1>1. /\ Len(frames') = Len(frames) /\ Len(frames) \in Nat \ {0}
      /\ \A k \in DOMAIN frames : frames'[k].own = frames[k].own
      /\ \A k \in DOMAIN frames : k < Len(frames) => frames'[k] = frames[k]
      /\ Top'.phase = phase
  BY GotoFrames, TopType
<1>2. Top'.list = list
  <2> DEFINE new == [Top EXCEPT !.phase = phase, !.list = list, !.cycle = cycle]
  <2>1. new.list = list
    BY TopType DEF Frame
  <2>2. frames' = [frames EXCEPT ![Len(frames)] = new]
    BY DEF Goto, Top
  <2> HIDE DEF new
  <2>3. frames'[Len(frames)] = new
    BY <2>2, TopType
  <2> QED BY <1>1, <2>1, <2>3 DEF Top
<1>3. Waiting(Top)' = w
  BY <1>1, <1>2 DEF Waiting
<1>4. w \in Nat
  OBVIOUS
<1> QED BY <1>1, <1>3, <1>4 DEF Continues

LEMMA FrameSteps ==
  ASSUME Typed, [Next]_vars
  PROVE  Continues \/ OpenFunc \/ CloseFunc
<1> SUFFICES ASSUME ~OpenFunc, ~CloseFunc PROVE Continues
  OBVIOUS
<1>1. TypeOK /\ Top \in Frame /\ Top.list \in Seq(Decl) /\ Len(Top.list) \in Nat /\ nfuncs \in Nat
  BY TopType DEF Typed, Frame, TypeOK
<1>2. << >> \in Seq(Decl) /\ Len(<< >>) = 0
  OBVIOUS
<1>3. ASSUME NEW n \in Name, DeclareParam(n) \/ Use(n) \/ Call(n)
      PROVE  Continues
  BY <1>1, <1>3, StayContinues DEF DeclareParam, Use, Call
<1>4. ASSUME NEW n \in Name, NEW t \in TypeRef, DeclareVar(n, t)
      PROVE  Continues
  BY <1>1, <1>4, StayContinues DEF DeclareVar
<1>5. CASE NullStatement \/ Finish \/ UNCHANGED vars
  BY <1>1, <1>5, StayContinues DEF NullStatement, Finish, vars
<1>6. ASSUME NEW n \in Name, NEW t \in TypeRef, DeclareType(n, t)
      PROVE  Continues
  <2>1. Append(Top.list, [name |-> n, ty |-> t]) \in Seq(Decl)
    BY <1>1 DEF Decl
  <2>2. /\ Goto("types", Append(Top.list, [name |-> n, ty |-> t]), FALSE)
        /\ Waiting(Top) = 0 /\ nfuncs' = nfuncs
    BY <1>6 DEF DeclareType, In, Waiting
  <2>3. 0 + nfuncs = Waiting(Top) + nfuncs'
    BY <1>1, <2>2
  <2> QED BY <1>1, <2>1, <2>2, <2>3, GotoContinues DEF Phase
<1>7. ASSUME NEW n \in Name, NEW r \in TypeRef, NEW p \in TypeRef, DeclareFunc(n, r, p)
      PROVE  Continues
  <2> DEFINE list == Append(Top.list, [name |-> n, ty |-> p])
  <2>1. list \in Seq(Decl) /\ Len(list) = Len(Top.list) + 1
    BY <1>1 DEF Decl
  <2>2. Goto("headers", list, FALSE)
    BY <1>7 DEF DeclareFunc
  <2>3. Waiting(Top) = Len(Top.list) /\ nfuncs' = nfuncs + 1
    BY <1>7 DEF DeclareFunc, In, Waiting
  <2> DEFINE w == Len(list)
  <2>4. w = IF "headers" \in {"headers", "bodies"} THEN Len(list) ELSE 0
    OBVIOUS
  <2>5. w = Len(Top.list) + 1
    BY <2>1
  <2> HIDE DEF list, w
  <2>6. w + nfuncs = Waiting(Top) + nfuncs'
    <3>1. \A x \in Nat : (x + 1) + nfuncs = x + (nfuncs + 1)
      BY <1>1
    <3> QED BY <1>1, <2>3, <2>5, <3>1
  <2>7. "headers" \in Phase /\ FALSE \in BOOLEAN
    BY DEF Phase
  <2> QED BY <1>1, <2>1, <2>2, <2>4, <2>6, <2>7, GotoContinues
<1>8. CASE ResolveType
  <2> DEFINE c(v) == Top.cycle /\ v.kind = "type" /\ v.named
  <2>1. PICK v \in check_ty(Head(Top.list).ty) : Goto("resolve", Tail(Top.list), c(v))
    BY <1>8 DEF ResolveType
  <2>2. Tail(Top.list) \in Seq(Decl) /\ c(v) \in BOOLEAN
    BY <1>1, <1>8 DEF ResolveType
  <2> HIDE DEF c
  <2>3. Waiting(Top) = 0 /\ nfuncs' = nfuncs
    BY <1>8 DEF ResolveType, In, Waiting
  <2>4. 0 + nfuncs = Waiting(Top) + nfuncs'
    BY <1>1, <2>3
  <2> QED BY <1>1, <2>1, <2>2, <2>4, GotoContinues DEF Phase
<1>9. CASE EndParams \/ NoTypePart \/ EndTypes \/ EndVars \/ EndBodies
  <2>1. PICK phase \in Phase : Goto(phase, << >>, FALSE)
    BY <1>9 DEF EndParams, NoTypePart, EndTypes, EndVars, EndBodies, Phase
  <2>2. Waiting(Top) = 0 /\ nfuncs' = nfuncs
    BY <1>2, <1>9 DEF EndParams, NoTypePart, EndTypes, EndVars, EndBodies, In, Waiting
  <2>3. 0 + nfuncs = Waiting(Top) + nfuncs'
    BY <1>1, <2>2
  <2>4. 0 = IF phase \in {"headers", "bodies"} THEN Len(<< >>) ELSE 0
    BY <1>2
  <2> QED BY <1>1, <1>2, <2>1, <2>3, <2>4, GotoContinues
<1>10. CASE EndTypeNames
  <2>1. Goto("resolve", Top.list, TRUE) /\ Waiting(Top) = 0 /\ nfuncs' = nfuncs
    BY <1>10 DEF EndTypeNames, In, Waiting
  <2>2. 0 + nfuncs = Waiting(Top) + nfuncs'
    BY <1>1, <2>1
  <2> QED BY <1>1, <2>1, <2>2, GotoContinues DEF Phase
<1>11. CASE EndHeaders
  <2>1. Goto("bodies", Top.list, FALSE) /\ Waiting(Top) = Len(Top.list) /\ nfuncs' = nfuncs
    BY <1>11 DEF EndHeaders, In, Waiting
  <2>2. Len(Top.list) + nfuncs = Waiting(Top) + nfuncs'
    BY <1>1, <2>1
  <2> QED BY <1>1, <2>1, <2>2, GotoContinues DEF Phase
<1> QED
  BY <1>3, <1>4, <1>5, <1>6, <1>7, <1>8, <1>9, <1>10, <1>11 DEF Next, Advance, Terminated

-----------------------------------------------------------------------------
(* Every function header gets its body.  The functions that wait are summed *)
(* over the frames; sum[k] is the sum of the first k.  That some function  *)
(* is such a sum is an invariant, for which no recursion is needed.        *)

Counts(sum) ==
  /\ sum \in [0 .. Len(frames) -> Nat]
  /\ sum[0] = 0
  /\ \A k \in DOMAIN frames : sum[k] = sum[k - 1] + Waiting(frames[k])
  /\ sum[Len(frames)] + Len(tables) = nfuncs + 1

Done(s) == s \in {"accepted", "rejected"}

AtEnd == Done(status) => Len(frames) = 1 /\ Top.phase = "stmts"

Counted == AtEnd /\ \E sum : Counts(sum)

\* Only Finish gives the verdict.
LEMMA VerdictSteps ==
  ASSUME [Next]_vars
  PROVE  \/ Finish \/ UNCHANGED vars
         \/ status = "running" /\ status' \in {"running", "crashed"}
<1>1. ASSUME NEW n, NEW v, NEW e, Insert(n, v, e) PROVE status' \in {status, "crashed"}
  BY <1>1 DEF Insert, Crash
<1>2. ASSUME NEW n \in Name, DeclareParam(n)
      PROVE  status = "running" /\ status' \in {status, "crashed"}
  BY <1>1, <1>2 DEF DeclareParam, In
<1>3. ASSUME NEW n \in Name, Use(n) \/ Call(n)
      PROVE  status = "running" /\ status' \in {status, "crashed"}
  BY <1>3 DEF Use, Call, In, Outcome, Crash
<1>4. ASSUME NEW n \in Name, NEW t \in TypeRef, DeclareType(n, t) \/ DeclareVar(n, t)
      PROVE  status = "running" /\ status' \in {status, "crashed"}
  BY <1>1, <1>4 DEF DeclareType, DeclareVar, In
<1>5. ASSUME NEW n \in Name, NEW r \in TypeRef, NEW p \in TypeRef, DeclareFunc(n, r, p)
      PROVE  status = "running" /\ status' \in {status, "crashed"}
  BY <1>1, <1>5 DEF DeclareFunc, In, Crash
<1>6. CASE \/ EndParams \/ NoTypePart \/ EndTypeNames \/ ResolveType \/ EndTypes \/ EndVars
           \/ EndHeaders \/ OpenFunc \/ EndBodies \/ CloseFunc \/ NullStatement
  BY <1>6 DEF EndParams, NoTypePart, EndTypeNames, ResolveType, EndTypes, EndVars, EndHeaders,
              OpenFunc, EndBodies, CloseFunc, NullStatement, In, Crash
<1> QED BY <1>2, <1>3, <1>4, <1>5, <1>6 DEF Next, Advance, Terminated

LEMMA NextAtEnd ==
  ASSUME Typed, AtEnd, [Next]_vars
  PROVE  AtEnd'
<1>1. CASE Finish
  BY <1>1 DEF Finish, AtEnd, In, Top
<1>2. CASE UNCHANGED vars
  BY <1>2 DEF vars, AtEnd, Top
<1>3. CASE status' \in {"running", "crashed"}
  BY <1>3 DEF AtEnd, Done
<1> QED BY <1>1, <1>2, <1>3, VerdictSteps

LEMMA CountTypes ==
  ASSUME Typed
  PROVE  /\ Len(frames) \in Nat \ {0} /\ DOMAIN frames = 1 .. Len(frames)
         /\ \A k \in DOMAIN frames : Waiting(frames[k]) \in Nat
         /\ nfuncs \in Nat /\ Len(tables) \in Nat
<1>1. TypeOK
  BY DEF Typed
<1>2. \A k \in DOMAIN frames : frames[k] \in Frame
  BY <1>1 DEF TypeOK
<1> QED BY <1>1, <1>2, TopType, WaitingType DEF TypeOK

LEMMA LastChanged ==
  ASSUME NEW m \in Nat, NEW f \in [0 .. m -> Nat], NEW x \in Nat
  PROVE  \E s \in [0 .. m -> Nat] : s[m] = x /\ \A k \in 0 .. m : k # m => s[k] = f[k]
<1>1. [f EXCEPT ![m] = x] \in [0 .. m -> Nat]
  OBVIOUS
<1>2. [f EXCEPT ![m] = x][m] = x /\ \A k \in 0 .. m : k # m => [f EXCEPT ![m] = x][k] = f[k]
  OBVIOUS
<1> QED BY <1>1, <1>2

\* A block that goes on: the last sum moves with the innermost frame.
LEMMA ContinuesCounts ==
  ASSUME Typed, Typed', NEW sum, Counts(sum), Continues, Len(tables') = Len(tables)
  PROVE  \E s : Counts(s)'
<1> DEFINE m == Len(frames)
           w == Waiting(Top)
           w2 == Waiting(Top)'
<1>1. /\ m \in Nat \ {0} /\ DOMAIN frames = 1 .. m
      /\ w \in Nat /\ nfuncs \in Nat /\ Len(tables) \in Nat
  BY CountTypes, TopType, WaitingType DEF Typed
<1>2. Len(frames') = m /\ DOMAIN frames' = 1 .. m /\ nfuncs' \in Nat
  BY <1>1 DEF Typed, TypeOK, Continues
<1>3. w2 \in Nat /\ w2 + nfuncs = w + nfuncs'
  BY DEF Continues
<1>4. /\ \A k \in 1 .. m : k # m => Waiting(frames'[k]) = Waiting(frames[k])
      /\ Waiting(frames'[m]) = w2 /\ Waiting(frames[m]) = w
  <2>1. \A k \in 1 .. m : k # m => frames'[k] = frames[k]
    BY <1>1 DEF Continues
  <2> QED BY <2>1, <1>2 DEF Top, Waiting
<1>5. /\ sum \in [0 .. m -> Nat] /\ sum[0] = 0 /\ sum[m] + Len(tables) = nfuncs + 1
      /\ \A k \in 1 .. m : sum[k] = sum[k - 1] + Waiting(frames[k])
  BY <1>1 DEF Counts
<1> HIDE DEF m, w, w2
<1>6. m - 1 \in 0 .. m /\ m - 1 # m /\ 0 # m /\ 0 \in 0 .. m /\ m \in 1 .. m
  BY <1>1
<1>7. sum[m] = sum[m - 1] + w /\ sum[m - 1] \in Nat
  BY <1>4, <1>5, <1>6
<1>8. PICK s \in [0 .. m -> Nat] :
        s[m] = sum[m - 1] + w2 /\ \A k \in 0 .. m : k # m => s[k] = sum[k]
  <2> DEFINE x == sum[m - 1] + w2
  <2>1. x \in Nat /\ m \in Nat
    BY <1>1, <1>3, <1>7
  <2> HIDE DEF x
  <2>2. \E s \in [0 .. m -> Nat] : s[m] = x /\ \A k \in 0 .. m : k # m => s[k] = sum[k]
    BY <1>5, <2>1, LastChanged
  <2> QED BY <2>2 DEF x
<1>9. \A k \in 1 .. m : s[k] = s[k - 1] + Waiting(frames'[k])
  <2> SUFFICES ASSUME NEW k \in 1 .. m PROVE s[k] = s[k - 1] + Waiting(frames'[k])
    OBVIOUS
  <2>1. CASE k = m
    BY <1>4, <1>6, <1>8, <2>1
  <2>2. CASE k # m
    <3>1. k \in 0 .. m /\ k - 1 \in 0 .. m /\ k - 1 # m
      BY <1>1
    <3> QED BY <1>4, <1>5, <1>8, <2>2, <3>1
  <2> QED BY <2>1, <2>2
<1>10. s[m] + Len(tables) = nfuncs' + 1
  <2>1. PICK a \in Nat, b \in Nat, c \in Nat, t \in Nat, n \in Nat, p \in Nat :
          a = sum[m - 1] /\ b = w /\ c = w2 /\ t = Len(tables) /\ n = nfuncs /\ p = nfuncs'
    BY <1>1, <1>2, <1>3, <1>7
  <2>2. (a + b) + t = n + 1
    BY <1>5, <1>7, <2>1
  <2>3. c + n = b + p
    BY <1>3, <2>1
  <2>4. (a + c) + t = p + 1
    BY <2>2, <2>3
  <2> QED BY <1>8, <2>1, <2>4
<1>11. s[0] = 0
  BY <1>5, <1>6, <1>8
<1>12. Counts(s)'
  BY <1>2, <1>8, <1>9, <1>10, <1>11 DEF Counts
<1> QED BY <1>12

\* What opening a function does to the frames there were: the innermost one
\* waits, with one function less.
LEMMA OpenList ==
  ASSUME Typed, OpenFunc, NEW m, m = Len(frames)
  PROVE  /\ Len(frames') = m + 1 /\ DOMAIN frames' = 1 .. m + 1
         /\ \A k \in 1 .. m : k # m => frames'[k] = frames[k]
         /\ frames'[m].list = Tail(Top.list) /\ frames'[m].phase = "bodies"
         /\ frames'[m + 1].phase = "params"
<1>0. m \in Nat \ {0} /\ DOMAIN frames = 1 .. m /\ Top \in Frame
  BY TopType DEF Typed
<1> DEFINE top == [Top EXCEPT !.list = Tail(@)]
           rest == [frames EXCEPT ![m].list = Tail(@)]
<1>1. PICK v \in check_ty(Head(Top.list).ty) :
        frames' = Append(rest, NewFrame(Len(tables) + 1, "params", v))
  BY DEF OpenFunc
<1>2. top \in Frame /\ top.list = Tail(Top.list) /\ top.phase = "bodies"
  <2>1. Tail(Top.list) \in Seq(Decl)
    BY <1>0 DEF Frame, OpenFunc
  <2> QED BY <1>0, <2>1 DEF Frame, OpenFunc, In
<1>3. rest = [frames EXCEPT ![m] = top]
  BY DEF Top
<1> HIDE DEF top, rest
<1>4. /\ rest \in Seq(Frame) /\ Len(rest) = m
      /\ \A k \in 1 .. m : rest[k] = IF k = m THEN top ELSE frames[k]
  BY <1>0, <1>2, <1>3 DEF Typed, TypeOK
<1>5. NewFrame(Len(tables) + 1, "params", v).phase = "params"
  BY DEF NewFrame
<1> DEFINE new == NewFrame(Len(tables) + 1, "params", v)
<1>6. frames' = Append(rest, new) /\ new.phase = "params"
  BY <1>1, <1>5
<1> HIDE DEF new
<1>7. /\ Len(Append(rest, new)) = m + 1 /\ DOMAIN Append(rest, new) = 1 .. m + 1
      /\ \A k \in 1 .. m : Append(rest, new)[k] = rest[k]
      /\ Append(rest, new)[m + 1] = new
  BY <1>0, <1>4
<1>8. m \in 1 .. m
  BY <1>0
<1> QED BY <1>2, <1>4, <1>6, <1>7, <1>8

\* A block that opens: its list loses a function, and there is a table more.
LEMMA OpenCounts ==
  ASSUME Typed, Typed', NEW sum, Counts(sum), OpenFunc
  PROVE  \E s : Counts(s)'
<1> DEFINE m == Len(frames)
           w == Waiting(frames[m])
<1>1. /\ m \in Nat \ {0} /\ DOMAIN frames = 1 .. m /\ Top \in Frame
      /\ w \in Nat /\ nfuncs \in Nat /\ Len(tables) \in Nat
  BY CountTypes, TopType DEF Typed
<1>2. Len(tables') = Len(tables) + 1 /\ nfuncs' = nfuncs
  BY <1>1 DEF OpenFunc, create_tab, Typed, TypeOK
<1>3. /\ Len(frames') = m + 1 /\ DOMAIN frames' = 1 .. m + 1
      /\ \A k \in 1 .. m : k # m => frames'[k] = frames[k]
      /\ frames'[m].list = Tail(Top.list) /\ frames'[m].phase = "bodies"
      /\ frames'[m + 1].phase = "params"
  BY OpenList
<1>4. /\ w = Len(Top.list) /\ w - 1 \in Nat
      /\ \A k \in 1 .. m : k # m => Waiting(frames'[k]) = Waiting(frames[k])
      /\ Waiting(frames'[m]) = w - 1 /\ Waiting(frames'[m + 1]) = 0
  <2>1. Top.phase = "bodies" /\ Top.list # << >> /\ Top.list \in Seq(Decl)
    BY <1>1 DEF OpenFunc, In, Frame
  <2>2. Len(Tail(Top.list)) = Len(Top.list) - 1 /\ Len(Top.list) - 1 \in Nat
    BY <2>1
  <2>3. w = Len(Top.list)
    BY <2>1 DEF Waiting, Top
  <2> HIDE DEF w
  <2> QED BY <1>3, <2>2, <2>3 DEF Waiting
<1>5. /\ sum \in [0 .. m -> Nat] /\ sum[0] = 0 /\ sum[m] + Len(tables) = nfuncs + 1
      /\ \A k \in 1 .. m : sum[k] = sum[k - 1] + Waiting(frames[k])
  BY <1>1 DEF Counts
<1>6. m - 1 \in 0 .. m /\ m - 1 # m /\ 0 # m /\ 0 \in 0 .. m /\ m \in 1 .. m /\ m \in 0 .. m
  <2>1. m \in Nat \ {0}
    BY <1>1
  <2> HIDE DEF m
  <2> QED BY <2>1
<1>7. sum[m] = sum[m - 1] + w /\ sum[m - 1] \in Nat /\ sum[m] \in Nat
  <2>1. sum[m] = sum[m - 1] + Waiting(frames[m])
    BY <1>5, <1>6
  <2> HIDE DEF m
  <2>2. sum[m - 1] \in Nat /\ sum[m] \in Nat
    BY <1>5, <1>6
  <2> QED BY <2>1, <2>2
<1> HIDE DEF m, w
<1>8. sum[m] - 1 \in Nat /\ sum[m] - 1 = sum[m - 1] + (w - 1)
  <2>1. PICK a \in Nat, b \in Nat, c \in Nat : a = sum[m - 1] /\ b = w /\ c = sum[m]
    BY <1>1, <1>7
  <2>2. c = a + b /\ b - 1 \in Nat
    BY <1>4, <1>7, <2>1
  <2>3. c - 1 \in Nat /\ c - 1 = a + (b - 1)
    BY <2>2
  <2> QED BY <2>1, <2>3
<1> DEFINE r == [k \in 0 .. m + 1 |-> IF k < m THEN sum[k] ELSE sum[m] - 1]
<1>s. PICK s : s = r
  OBVIOUS
<1>9. /\ s \in [0 .. m + 1 -> Nat]
      /\ \A k \in 0 .. m : k # m => s[k] = sum[k]
      /\ s[m] = sum[m] - 1 /\ s[m + 1] = sum[m] - 1
  <2>1. \A k \in 0 .. m + 1 : k < m => sum[k] \in Nat
    BY <1>1, <1>5
  <2>2. \A k \in 0 .. m + 1 : s[k] = IF k < m THEN sum[k] ELSE sum[m] - 1
    BY <1>s
  <2>3. \A k \in 0 .. m : k # m => k < m /\ k \in 0 .. m + 1
    BY <1>1
  <2>4. m \in 0 .. m + 1 /\ m + 1 \in 0 .. m + 1 /\ ~(m < m) /\ ~(m + 1 < m)
    BY <1>1
  <2>5. s \in [0 .. m + 1 -> Nat]
    BY <1>8, <1>s, <2>1
  <2> QED BY <2>2, <2>3, <2>4, <2>5
<1> HIDE DEF r
<1>10. \A k \in 1 .. m + 1 : s[k] = s[k - 1] + Waiting(frames'[k])
  <2> SUFFICES ASSUME NEW k \in 1 .. m + 1 PROVE s[k] = s[k - 1] + Waiting(frames'[k])
    OBVIOUS
  <2>1. CASE k = m
    BY <1>4, <1>6, <1>8, <1>9, <2>1
  <2>2. CASE k = m + 1
    <3>1. k - 1 = m
      BY <1>1, <2>2
    <3>2. s[k] = s[k - 1] /\ s[k - 1] \in Nat
      BY <1>8, <1>9, <2>2, <3>1
    <3> QED BY <1>4, <2>2, <3>2
  <2>3. CASE k # m /\ k # m + 1
    <3>1. k \in 1 .. m /\ k \in 0 .. m /\ k - 1 \in 0 .. m /\ k - 1 # m
      BY <1>1, <2>3
    <3> QED BY <1>4, <1>5, <1>9, <2>3, <3>1
  <2> QED BY <2>1, <2>2, <2>3
<1>11. s[m + 1] + Len(tables') = nfuncs' + 1
  <2>1. PICK a \in Nat, t \in Nat, n \in Nat : a = sum[m] /\ t = Len(tables) /\ n = nfuncs
    BY <1>1, <1>7
  <2>2. a + t = n + 1
    BY <1>5, <2>1
  <2>3. (a - 1) + (t + 1) = n + 1
    BY <2>2
  <2> QED BY <1>2, <1>9, <2>1, <2>3
<1>12. s[0] = 0
  BY <1>5, <1>6, <1>9
<1>13. Counts(s)'
  BY <1>3, <1>9, <1>10, <1>11, <1>12 DEF Counts
<1> QED BY <1>13

\* A block that ends has no function waiting.
LEMMA CloseCounts ==
  ASSUME Typed, Typed', NEW sum, Counts(sum), CloseFunc
  PROVE  \E s : Counts(s)'
<1> DEFINE m == Len(frames)
<1>1. m \in Nat \ {0} /\ DOMAIN frames = 1 .. m /\ m > 1
  BY TopType DEF Typed, CloseFunc
<1>2. /\ Len(frames') = m - 1 /\ DOMAIN frames' = 1 .. m - 1
      /\ \A k \in 1 .. m - 1 : frames'[k] = frames[k]
  <2>1. frames' = SubSeq(frames, 1, m - 1) /\ frames \in Seq(Frame)
    BY DEF CloseFunc, Typed, TypeOK
  <2> QED BY <1>1, <2>1, SubSeqProperties
<1>3. /\ sum \in [0 .. m -> Nat] /\ sum[0] = 0 /\ sum[m] + Len(tables) = nfuncs + 1
      /\ \A k \in 1 .. m : sum[k] = sum[k - 1] + Waiting(frames[k])
  BY <1>1 DEF Counts
<1>4. sum[m] = sum[m - 1]
  <2>1. Waiting(frames[m]) = 0
    BY DEF CloseFunc, In, Waiting, Top
  <2> QED BY <1>1, <1>3, <2>1
<1>s. PICK s : s = [k \in 0 .. m - 1 |-> sum[k]]
  OBVIOUS
<1> HIDE DEF m
<1>5. s \in [0 .. m - 1 -> Nat] /\ s[0] = 0 /\ s[m - 1] = sum[m - 1]
  BY <1>1, <1>3, <1>s
<1>6. \A k \in 1 .. m - 1 : s[k] = s[k - 1] + Waiting(frames'[k])
  <2> SUFFICES ASSUME NEW k \in 1 .. m - 1 PROVE s[k] = s[k - 1] + Waiting(frames'[k])
    OBVIOUS
  <2>1. k \in 0 .. m - 1 /\ k - 1 \in 0 .. m - 1 /\ k \in 1 .. m
    BY <1>1
  <2>2. s[k] = sum[k] /\ s[k - 1] = sum[k - 1]
    BY <1>s, <2>1
  <2> QED BY <1>2, <1>3, <2>1, <2>2
<1>7. nfuncs' = nfuncs /\ tables' = tables
  BY DEF CloseFunc
<1>8. s[m - 1] + Len(tables') = nfuncs' + 1
  BY <1>3, <1>4, <1>5, <1>7
<1>9. Counts(s)'
  BY <1>2, <1>5, <1>6, <1>8 DEF Counts
<1> QED BY <1>9

LEMMA InitCounted == ASSUME Init PROVE Counted
<1>1. /\ Len(frames) = 1 /\ frames[1] = NewFrame(1, "types", IntType)
      /\ Len(tables) = 1 /\ nfuncs = 0 /\ DOMAIN frames = {1}
  BY DEF Init
<1>2. Waiting(frames[1]) = 0
  BY <1>1 DEF Waiting, NewFrame
<1> DEFINE s == [k \in 0 .. 1 |-> 0]
<1>3. s \in [0 .. 1 -> Nat] /\ s[0] = 0 /\ s[1] = 0
  OBVIOUS
<1> HIDE DEF s
<1>4. Counts(s)
  BY <1>1, <1>2, <1>3 DEF Counts
<1>5. AtEnd
  BY DEF Init, AtEnd, Done
<1> QED BY <1>4, <1>5 DEF Counted

LEMMA NextCounted ==
  ASSUME Typed, Counted, [Next]_vars
  PROVE  Counted'
<1>1. PICK sum : Counts(sum)
  BY DEF Counted
<1>2. Typed' /\ AtEnd'
  BY NextTyped, NextAtEnd DEF Counted
<1>3. CASE OpenFunc
  <2>1. \E s : Counts(s)'
    BY <1>1, <1>2, <1>3, OpenCounts
  <2> QED BY <1>2, <2>1 DEF Counted
<1>4. CASE CloseFunc
  <2>1. \E s : Counts(s)'
    BY <1>1, <1>2, <1>4, CloseCounts
  <2> QED BY <1>2, <2>1 DEF Counted
<1>5. CASE ~OpenFunc /\ ~CloseFunc
  <2>1. Continues /\ Len(tables') = Len(tables)
    BY <1>5, FrameSteps, BlockSteps DEF Within
  <2>2. \E s : Counts(s)'
    BY <1>1, <1>2, <2>1, ContinuesCounts
  <2> QED BY <1>2, <2>2 DEF Counted
<1> QED BY <1>3, <1>4, <1>5

\* At the end of a validation no header waits.
LEMMA AllOpened == Typed /\ Counted /\ Done(status) => Len(tables) = nfuncs + 1
<1> SUFFICES ASSUME Typed, Counted, Done(status) PROVE Len(tables) = nfuncs + 1
  OBVIOUS
<1>1. PICK sum : Counts(sum)
  BY DEF Counted
<1>2. Len(frames) = 1 /\ Top.phase = "stmts"
  BY DEF Counted, AtEnd
<1>3. Waiting(frames[1]) = 0 /\ 1 \in DOMAIN frames /\ Len(tables) \in Nat
  BY <1>2, CountTypes DEF Waiting, Top
<1>4. sum[1] = 0
  BY <1>1, <1>2, <1>3 DEF Counts
<1> QED BY <1>1, <1>2, <1>3, <1>4 DEF Counts

-----------------------------------------------------------------------------
(* What a lookup finds, as long as the stack is not full                   *)

\* Where the declaring block is, and that only the first frame is the global
\* block.
OwnInv ==
  /\ Top.phase \in Declaring => Top.own = Len(tables)
  /\ \A k \in DOMAIN frames : k > 1 => frames[k].own # 1

LEMMA InitOwn == ASSUME Init PROVE OwnInv
<1>1. Len(frames) = 1 /\ DOMAIN frames = {1} /\ frames[1].own = 1 /\ Len(tables) = 1
  BY DEF Init, NewFrame
<1> QED BY <1>1 DEF OwnInv, Top

LEMMA NextOwn ==
  ASSUME Typed, OwnInv, [Next]_vars
  PROVE  OwnInv'
<1>1. /\ TypeOK /\ TypeOK' /\ Len(frames) \in Nat \ {0} /\ DOMAIN frames = 1 .. Len(frames)
      /\ Len(tables) \in Nat \ {0}
  <2>1. TypeOK /\ TypeOK' /\ Len(frames) \in Nat \ {0} /\ DOMAIN frames = 1 .. Len(frames)
    BY NextTyped, TopType DEF Typed
  <2>2. frames[1].own \in Tab
    BY <2>1 DEF Typed, WellNested
  <2>3. Tab = 1 .. Len(tables) /\ Len(tables) \in Nat
    BY <2>1 DEF TypeOK, Tab
  <2> QED BY <2>1, <2>2, <2>3
<1>2. CASE Continues /\ Within
  <2>1. DOMAIN frames' = DOMAIN frames /\ \A k \in DOMAIN frames : frames'[k].own = frames[k].own
    BY <1>1, <1>2 DEF Continues, TypeOK
  <2> QED BY <1>2, <2>1 DEF OwnInv, Within
<1>3. CASE OpenFunc
  <2> DEFINE m == Len(frames)
  <2>1. /\ frames' \in Seq(Frame) /\ Len(frames') = m + 1
        /\ \A k \in DOMAIN frames : frames'[k].own = frames[k].own
        /\ Top'.own = Len(tables) + 1
    BY <1>1, <1>3, OpenFrames
  <2>2. Len(tables') = Len(tables) + 1
    BY <1>1, <1>3 DEF OpenFunc, create_tab, TypeOK
  <2>3. DOMAIN frames' = 1 .. m + 1 /\ frames'[m + 1].own = Len(tables) + 1
    BY <2>1 DEF Top
  <2>4. Len(tables) + 1 # 1 /\ \A k \in 1 .. m + 1 : k \in 1 .. m \/ k = m + 1
    BY <1>1
  <2> HIDE DEF m
  <2>5. \A k \in DOMAIN frames' : k > 1 => frames'[k].own # 1
    BY <1>1, <2>1, <2>3, <2>4 DEF OwnInv, m
  <2> QED BY <2>1, <2>2, <2>5 DEF OwnInv
<1>4. CASE CloseFunc
  <2>1. Len(frames) > 1 /\ frames' = SubSeq(frames, 1, Len(frames) - 1)
    BY <1>4 DEF CloseFunc
  <2>2. \A k \in 1 .. (Len(frames) - 1) : frames[k] \in Frame
    BY <1>1 DEF TypeOK
  <2>3. /\ Len(frames') = Len(frames) - 1 /\ DOMAIN frames' = 1 .. Len(frames) - 1
        /\ \A k \in 1 .. (Len(frames) - 1) : frames'[k] = frames[k]
    BY <1>1, <2>1, <2>2, SubSeqProperties
  <2>4. Top'.phase = "bodies"
    BY <1>1, <2>1, <2>3 DEF Typed, WellNested, Top
  <2>5. \A k \in DOMAIN frames' : k > 1 => frames'[k].own # 1
    BY <1>1, <2>3 DEF OwnInv
  <2> QED BY <2>4, <2>5 DEF OwnInv, Declaring
<1> QED BY <1>2, <1>3, <1>4, FrameSteps, BlockSteps

\* A lookup that finds something stops at the first slot whose table holds the
\* name.
LEMMA FirstSlotFound ==
  ASSUME Typed, NEW n, NEW i \in Slot, stack[i] \in Tab, Declares(stack[i], n)
  PROVE  \E x \in FirstSlot(n) : x <= i /\ stack[x] \in Tab
<1> DEFINE T == {y \in Slot : local_lookup(stack[y], n) # {}}
<1>1. TypeOK
  BY DEF Typed
<1>2. i \in T
  BY <1>1, LocalLookupFinds DEF Declares
<1>3. T \in SUBSET Nat /\ \A y \in T : y \in Slot
  BY DEF Slot
<1>4. \A y \in Slot : y \in Nat /\ \A z \in 0 .. (y - 1) : z \in Slot /\ z < y
  BY MaxScopeAssumption DEF Slot
<1>5. \A y \in Slot : y \notin T => local_lookup(stack[y], n) = {}
  OBVIOUS
<1>6. \A y \in T : local_lookup(stack[y], n) # {} /\ stack[y] \in Tab
  BY <1>1 DEF TypeOK, local_lookup
<1> HIDE DEF T
<1>7. PICK x \in T : \A y \in T : x <= y
  BY <1>2, <1>3, LeastNat
<1>8. \A z \in 0 .. (x - 1) : local_lookup(stack[z], n) = {}
  <2> SUFFICES ASSUME NEW z \in 0 .. (x - 1) PROVE z \in Slot /\ z \notin T
    BY <1>5
  <2>1. z \in Slot /\ z < x /\ x \in Nat /\ z \in Nat
    BY <1>3, <1>4
  <2>2. ~(x <= z)
    BY <2>1
  <2> QED BY <1>7, <2>1, <2>2
<1>9. x \in FirstSlot(n)
  BY <1>3, <1>6, <1>8 DEF FirstSlot
<1> QED BY <1>2, <1>6, <1>7, <1>9

LEMMA FirstSlotUnique ==
  ASSUME NEW n, NEW x \in FirstSlot(n), NEW y \in FirstSlot(n)
  PROVE  x = y
<1>1. x \in Nat /\ y \in Nat
  BY DEF FirstSlot, Slot
<1>2. ~(x < y) /\ ~(y < x)
  <2>1. ~(x \in 0 .. (y - 1)) /\ ~(y \in 0 .. (x - 1))
    BY DEF FirstSlot
  <2> QED BY <1>1, <2>1
<1> QED BY <1>1, <1>2

\* With Ownership, what is found belongs to the table in that slot.
LEMMA FoundOwner ==
  ASSUME Typed, ScopeInv, Len(tables) <= MAXSCOPE, NEW n, NEW x \in FirstSlot(n)
  PROVE  stack[x] \in Tab /\ {s.owner : s \in global_lookup(n)} = {stack[x]}
<1>1. x \in Slot /\ local_lookup(stack[x], n) # {} /\ TypeOK
  BY DEF FirstSlot, Typed
<1>2. stack[x] \in Tab /\ stack[x] # NULL
  BY <1>1 DEF TypeOK, local_lookup
<1>3. \A j \in local_lookup(stack[x], n) : tables[stack[x]][j].owner = stack[x]
  BY <1>2 DEF ScopeInv, Ownership, local_lookup
<1>4. FirstSlot(n) = {x}
  BY FirstSlotUnique
<1>5. global_lookup(n) = {tables[stack[x]][j] : j \in local_lookup(stack[x], n)}
  BY <1>4 DEF global_lookup
<1> QED BY <1>1, <1>2, <1>3, <1>5

\* Where GlobalScopeLast puts a table.
LEMMA TableSlot ==
  ASSUME Typed, GlobalScopeLast, Len(tables) <= MAXSCOPE, NEW u \in Tab
  PROVE  \E i \in Slot : stack[i] = u /\ (u # 1 => i + 1 < Len(tables))
<1>1. /\ Len(tables) \in Nat \ {0} /\ u \in 1 .. Len(tables)
  BY DEF Typed, TypeOK, Tab
<1>2. CASE u = 1
  <2>1. Len(tables) - 1 \in Slot /\ (Len(tables) - 1) + 1 = Len(tables)
    BY <1>1, MaxScopeAssumption DEF Slot
  <2>2. stack[Len(tables) - 1] = 1
    BY <2>1, <1>1 DEF GlobalScopeLast
  <2> QED BY <1>2, <2>1, <2>2
<1>3. CASE u # 1
  <2>1. u - 2 \in Slot /\ (u - 2) + 1 < Len(tables) /\ (u - 2) + 2 = u
    BY <1>1, <1>3, MaxScopeAssumption DEF Slot
  <2> QED BY <2>1 DEF GlobalScopeLast
<1> QED BY <1>2, <1>3

\* A name declared in an open block is found, and not in the global table when
\* an open function declares it, at every place of every program that has fewer
\* functions than the stack has slots.
THEOREM NamesFound == Spec => []VisibleNamesFound
<1>1. Init => Typed /\ ScopeInv /\ OwnInv
  <2>1. Init => ScopeInv
    BY InitScopeInv
  <2> QED BY <2>1, InitTyped, InitOwn
<1>2. Typed /\ ScopeInv /\ OwnInv /\ [Next]_vars => (Typed /\ ScopeInv /\ OwnInv)'
  BY NextTyped, NextScopeInv, NextOwn
<1>3. Typed /\ ScopeInv /\ OwnInv => VisibleNamesFound
  <2> SUFFICES ASSUME Typed, ScopeInv, OwnInv, Len(tables) <= MAXSCOPE,
                      NEW k \in DOMAIN frames, NEW n \in Name, Declares(frames[k].own, n)
               PROVE  ~Undefined(n) /\ (k > 1 => \A s \in global_lookup(n) : s.owner # 1)
    BY DEF VisibleNamesFound
  <2> DEFINE u == frames[k].own
  <2>1. u \in Tab
    BY DEF Typed, WellNested
  <2>2. PICK i \in Slot : stack[i] = u /\ (u # 1 => i + 1 < Len(tables))
    BY <2>1, TableSlot DEF ScopeInv
  <2>3. PICK x \in FirstSlot(n) : x <= i /\ stack[x] \in Tab
    BY <2>1, <2>2, FirstSlotFound
  <2>4. {s.owner : s \in global_lookup(n)} = {stack[x]}
    BY <2>3, FoundOwner
  <2>5. ~Undefined(n)
    BY <2>4 DEF Undefined
  <2>6. ASSUME k > 1 PROVE stack[x] # 1
    <3>1. i + 1 < Len(tables) /\ Len(tables) \in Nat
      BY <2>2, <2>6 DEF OwnInv, Typed, TypeOK
    <3>2. x \in Slot /\ x \in Nat /\ i \in Nat
      BY DEF FirstSlot, Slot
    <3>3. x + 1 < Len(tables) /\ x + 2 # 1
      BY <2>3, <3>1, <3>2
    <3> QED BY <3>2, <3>3 DEF ScopeInv, GlobalScopeLast
  <2> QED BY <2>4, <2>5, <2>6
<1> QED BY <1>1, <1>2, <1>3, PTL DEF Spec

-----------------------------------------------------------------------------
(* A binding in a function's table stays                                   *)

\* What a step does to the names that the tables hold: nothing, one more name in
\* curr_scope, or one more table, which is empty.
SameNames ==
  Tab' = Tab /\ \A t \in Tab : \A n : Declares(t, n)' <=> Declares(t, n)

OneMore(n) ==
  /\ Top.phase \in Declaring /\ curr_scope \in Tab /\ ~Declares(curr_scope, n)
  /\ Tab' = Tab
  /\ \A t \in Tab : \A m : Declares(t, m)' <=> Declares(t, m) \/ (t = curr_scope /\ m = n)

NewTable ==
  /\ Tab' = Tab \cup {Len(tables) + 1} /\ Len(tables') = Len(tables) + 1
  /\ \A t \in Tab : \A n : Declares(t, n)' <=> Declares(t, n)
  /\ \A t \in Tab' \ Tab : \A n : ~Declares(t, n)'

LEMMA NameSteps ==
  ASSUME Typed, [Next]_vars
  PROVE  \/ SameNames
         \/ \E n \in Name : OneMore(n) /\ tables' # tables
         \/ OpenFunc /\ NewTable
<1>1. TypeOK /\ tables \in Seq(Seq(Symbol)) /\ Tab = 1 .. Len(tables) /\ Len(tables) \in Nat
  BY DEF Typed, TypeOK, Tab
<1>2. CASE tables' = tables
  BY <1>2 DEF SameNames, Declares, Tab
<1>3. ASSUME NEW n \in Name, NEW v \in Value, Top.phase \in Declaring, curr_scope \in Tab,
             local_lookup(curr_scope, n) = {},
             tables' = insert_sym(curr_scope, new_sym(n, v, Top.own))
      PROVE  OneMore(n) /\ tables' # tables
  <2> DEFINE sym == new_sym(n, v, Top.own)
             old == tables[curr_scope]
  <2>1. old \in Seq(Symbol) /\ Len(old) \in Nat /\ DOMAIN old = 1 .. Len(old)
    BY <1>1, <1>3
  <2>2. \A j \in DOMAIN old : old[j].name # n
    BY <1>1, <1>3, LocalLookupFinds
  <2>3. sym.name = n
    BY DEF new_sym
  <2> HIDE DEF sym
  <2>4. /\ DOMAIN Append(old, sym) = 1 .. Len(old) + 1
        /\ \A j \in DOMAIN old : Append(old, sym)[j] = old[j]
        /\ Append(old, sym)[Len(old) + 1] = sym
    BY <2>1
  <2>5. Tab' = Tab /\ \A t \in Tab : tables'[t] = IF t = curr_scope THEN Append(old, sym) ELSE tables[t]
    BY <1>1, <1>3 DEF insert_sym, Tab, sym
  <2>6. ~Declares(curr_scope, n)
    BY <2>2 DEF Declares
  <2>7. \A i \in DOMAIN Append(old, sym) : i \in DOMAIN old \/ i = Len(old) + 1
    BY <2>1, <2>4
  <2>8. Len(old) + 1 \in DOMAIN Append(old, sym) /\ \A i \in DOMAIN old : i \in DOMAIN Append(old, sym)
    BY <2>1, <2>4
  <2>9. ASSUME NEW t \in Tab, NEW m
        PROVE  Declares(t, m)' <=> Declares(t, m) \/ (t = curr_scope /\ m = n)
    <3>1. CASE t # curr_scope
      BY <2>5, <3>1 DEF Declares
    <3>2. CASE t = curr_scope
      <4>1. Declares(t, m)' <=> \E j \in DOMAIN Append(old, sym) : Append(old, sym)[j].name = m
        BY <2>5, <3>2 DEF Declares
      <4>2. Declares(t, m) <=> \E j \in DOMAIN old : old[j].name = m
        BY <3>2 DEF Declares
      <4> HIDE DEF old
      <4>3. CASE m = n
        BY <2>3, <2>4, <2>8, <3>2, <4>1, <4>3
      <4>4. CASE m # n
        BY <2>3, <2>4, <2>7, <2>8, <4>1, <4>2, <4>4
      <4> QED BY <4>3, <4>4
    <3> QED BY <3>1, <3>2
  <2>10. tables' # tables
    <3>1. \E t \in Tab : ~Declares(t, n) /\ Declares(t, n)'
      BY <1>3, <2>6, <2>9
    <3> QED BY <3>1 DEF Declares
  <2> QED BY <1>3, <2>5, <2>6, <2>9, <2>10 DEF OneMore
<1>4. ASSUME NEW n \in Name, NEW v \in Value, curr_scope \in Tab,
             tables' = set_symvalue(curr_scope, n, v)
      PROVE  SameNames
  <2>1. /\ tables' \in Seq(Seq(Symbol)) /\ Len(tables') = Len(tables)
        /\ \A u \in Tab : /\ Len(tables'[u]) = Len(tables[u])
                          /\ \A j \in DOMAIN tables[u] : tables'[u][j].name = tables[u][j].name
    <3> DEFINE new == set_symvalue(curr_scope, n, v)
    <3>1. /\ new \in Seq(Seq(Symbol)) /\ Len(new) = Len(tables)
          /\ \A u \in Tab : /\ Len(new[u]) = Len(tables[u])
                            /\ \A j \in DOMAIN tables[u] :
                                 /\ new[u][j].name = tables[u][j].name
                                 /\ new[u][j].owner = tables[u][j].owner
      <4>1. TypeOK /\ curr_scope \in Tab
        BY <1>1, <1>4
      <4> QED BY <4>1, SetValueType
    <3>2. tables' = new
      BY <1>4
    <3> HIDE DEF new
    <3> QED BY <3>1, <3>2
  <2>2. Tab' = Tab
    BY <1>1, <2>1 DEF Tab
  <2>3. \A u \in Tab : DOMAIN tables'[u] = DOMAIN tables[u]
    <3>1. \A u \in Tab : tables[u] \in Seq(Symbol) /\ tables'[u] \in Seq(Symbol)
      BY <1>1, <2>1
    <3> QED BY <2>1, <3>1
  <2>4. \A t \in Tab : \A m : Declares(t, m)' <=> Declares(t, m)
    BY <2>1, <2>3 DEF Declares
  <2> QED BY <2>2, <2>4 DEF SameNames
<1>5. ASSUME tables' = create_tab
      PROVE  NewTable
  <2>1. /\ Tab' = Tab \cup {Len(tables) + 1} /\ Len(tables') = Len(tables) + 1
        /\ \A t \in Tab : tables'[t] = tables[t]
        /\ tables'[Len(tables) + 1] = << >>
    BY <1>1, <1>5 DEF create_tab, Tab
  <2>2. (\A t \in Tab : \A n : Declares(t, n)' <=> Declares(t, n))
        /\ \A t \in Tab' \ Tab : \A n : ~Declares(t, n)'
    BY <2>1 DEF Declares
  <2> QED BY <2>1, <2>2 DEF NewTable
<1> QED BY <1>2, <1>3, <1>4, <1>5, TableSteps

\* A slot before the global table's keeps its table.
LEMMA SlotStays ==
  ASSUME Typed, ScopeInv, ScopeInv', Len(tables) <= Len(tables'), Len(tables') <= MAXSCOPE,
         Len(tables') \in Nat, NEW x \in Slot, x + 1 < Len(tables)
  PROVE  stack[x] = x + 2 /\ stack'[x] = x + 2
<1>1. Len(tables) \in Nat /\ x \in Nat /\ MAXSCOPE \in Nat
  BY MaxScopeAssumption DEF Typed, TypeOK, Slot
<1>2. Len(tables) <= MAXSCOPE /\ x + 1 < Len(tables')
  BY <1>1
<1> QED BY <1>2 DEF ScopeInv, GlobalScopeLast

\* A name that is in a table is found there, one that is not is not.
LEMMA LookupDeclares ==
  ASSUME TypeOK, NEW t \in Tab, NEW n
  PROVE  local_lookup(t, n) # {} <=> Declares(t, n)
<1>1. local_lookup(t, n) # {} => Declares(t, n)
  BY DEF local_lookup, Declares
<1> QED BY <1>1, LocalLookupFinds DEF Declares

\* The first position of a name in a sequence of symbols.
LEMMA LeastPosition ==
  ASSUME NEW sq \in Seq(Symbol), NEW n, NEW i \in DOMAIN sq, sq[i].name = n
  PROVE  \E j \in DOMAIN sq : sq[j].name = n /\ \A k \in 1 .. (j - 1) : sq[k].name # n
<1> DEFINE T == {j \in DOMAIN sq : sq[j].name = n}
<1>1. DOMAIN sq = 1 .. Len(sq) /\ Len(sq) \in Nat
  OBVIOUS
<1>2. PICK x \in T : \A y \in T : x <= y
  <2>1. T \in SUBSET Nat /\ T # {}
    BY <1>1
  <2> HIDE DEF T
  <2> QED BY <2>1, LeastNat
<1>3. \A k \in 1 .. (x - 1) : sq[k].name # n
  BY <1>1, <1>2
<1> QED BY <1>2, <1>3

\* A slot in which a name is found, and which is not the global table's, is the
\* one in which it is found next as well.
LEMMA BoundSlotStays ==
  ASSUME Typed, ScopeInv, OwnInv, [Next]_vars, Len(tables') <= MAXSCOPE,
         NEW n, NEW x \in FirstSlot(n), stack[x] # 1
  PROVE  /\ Len(tables) <= MAXSCOPE /\ Len(tables') \in Nat
         /\ stack[x] = x + 2 /\ stack'[x] = x + 2 /\ x + 2 \in Tab /\ x + 2 \in Tab'
         /\ FirstSlot(n)' = {x}
<1>1. Typed' /\ ScopeInv'
  BY NextTyped, NextScopeInv
<1>2. Len(tables) \in Nat /\ Len(tables') \in Nat /\ MAXSCOPE \in Nat /\ TypeOK /\ TypeOK'
  BY <1>1, MaxScopeAssumption DEF Typed, TypeOK
<1>3. Len(tables) <= Len(tables') /\ Len(tables) <= MAXSCOPE
  <2>1. Len(tables') = Len(tables) \/ Len(tables') = Len(tables) + 1
    <3>1. CASE OpenFunc
      BY <1>2, <3>1 DEF OpenFunc, create_tab, TypeOK
    <3>2. CASE ~OpenFunc
      BY <3>2, BlockSteps DEF Within, CloseFunc
    <3> QED BY <3>1, <3>2
  <2> QED BY <1>2, <2>1
<1>5. stack[x] \in Tab
  BY <1>3, FoundOwner
<1>6. /\ x \in Slot /\ local_lookup(stack[x], n) # {}
      /\ \A y \in 0 .. (x - 1) : y \in Slot /\ local_lookup(stack[y], n) = {}
  BY MaxScopeAssumption DEF FirstSlot, Slot
<1>7. x \in Nat /\ x + 1 < Len(tables)
  <2>1. stack[x] # 1 /\ stack[x] \in Nat /\ x \in Nat
    <3>0. tables \in Seq(Seq(Symbol))
      BY DEF Typed, TypeOK
    <3>1. Tab \subseteq Nat
      BY <3>0 DEF Tab
    <3>2. x \in Nat
      BY <1>6 DEF Slot
    <3> QED BY <1>5, <3>1, <3>2
  <2>2. x + 1 < Len(tables) \/ x + 1 = Len(tables) \/ stack[x] = NULL
    BY <1>3, <1>6 DEF ScopeInv, GlobalScopeLast
  <2>3. x + 1 = Len(tables) => stack[x] = 1
    BY <1>2, <1>3, <1>6, <2>1 DEF ScopeInv, GlobalScopeLast
  <2> QED BY <2>1, <2>2, <2>3, NullAssumption
<1>8. stack[x] = x + 2 /\ stack'[x] = x + 2
  BY <1>1, <1>2, <1>3, <1>6, <1>7, SlotStays
<1>9. \A y \in 0 .. (x - 1) :
        stack[y] = y + 2 /\ stack'[y] = y + 2 /\ y + 2 \in Tab /\ y + 2 # Len(tables)
  <2> SUFFICES ASSUME NEW y \in 0 .. (x - 1)
               PROVE  stack[y] = y + 2 /\ stack'[y] = y + 2 /\ y + 2 \in Tab /\ y + 2 # Len(tables)
    OBVIOUS
  <2>1. y \in Slot /\ y + 1 < Len(tables) /\ y + 2 < Len(tables) /\ y + 2 \in 1 .. Len(tables)
    BY <1>2, <1>6, <1>7
  <2>2. stack[y] = y + 2 /\ stack'[y] = y + 2
    BY <1>1, <1>2, <1>3, <2>1, SlotStays
  <2> QED BY <1>2, <2>1, <2>2 DEF Tab, TypeOK
<1>10. \A t \in Tab : /\ t \in Tab'
                      /\ Declares(t, n) => Declares(t, n)'
                      /\ t # Len(tables) /\ ~Declares(t, n) => ~Declares(t, n)'
  <2>1. Top.phase \in Declaring => curr_scope = Len(tables)
    BY <1>3 DEF OwnInv, ScopeInv, DeclaresInOwnScope, Declaring
  <2> QED BY <2>1, NameSteps DEF SameNames, OneMore, NewTable
<1>11. Declares(x + 2, n)' /\ x + 2 \in Tab'
  BY <1>2, <1>5, <1>6, <1>8, <1>10, LookupDeclares
<1>12. ASSUME NEW y \in 0 .. (x - 1)
       PROVE  local_lookup(stack[y], n)' = {}
  <2>1. ~Declares(y + 2, n)
    BY <1>2, <1>6, <1>9, LookupDeclares
  <2>2. ~Declares(y + 2, n)' /\ y + 2 \in Tab'
    BY <1>9, <1>10, <2>1
  <2>3. (local_lookup(y + 2, n) # {} => Declares(y + 2, n))'
    BY <2>2 DEF local_lookup, Declares
  <2> QED BY <1>9, <2>2, <2>3
<1>13. local_lookup(stack[x], n)' # {}
  <2>1. PICK sq \in Seq(Symbol) : sq = tables'[x + 2]
    BY <1>2, <1>11 DEF TypeOK, Tab
  <2>2. PICK j \in DOMAIN sq :
          sq[j].name = n /\ \A k \in 1 .. (j - 1) : sq[k].name # n
    BY <1>11, <2>1, LeastPosition DEF Declares
  <2>3. x + 2 # NULL
    BY <1>7, NullAssumption
  <2> QED BY <1>8, <2>1, <2>2, <2>3 DEF local_lookup
<1>14. x \in FirstSlot(n)'
  BY <1>6, <1>12, <1>13 DEF FirstSlot
<1>15. \A y \in FirstSlot(n)' : y = x
  <2> SUFFICES ASSUME NEW y \in FirstSlot(n)' PROVE y = x
    OBVIOUS
  <2>1. /\ y \in Slot /\ local_lookup(stack[y], n)' # {}
        /\ \A k \in 0 .. (y - 1) : local_lookup(stack[k], n)' = {}
    BY DEF FirstSlot
  <2>2. ~(x \in 0 .. (y - 1))
    BY <1>13, <2>1
  <2>3. ~(y \in 0 .. (x - 1))
    BY <1>12, <2>1
  <2>4. y \in Nat
    BY <2>1 DEF Slot
  <2> QED BY <1>7, <2>2, <2>3, <2>4
<1> QED BY <1>2, <1>3, <1>5, <1>8, <1>11, <1>14, <1>15

\* Once a name resolves to a symbol of a function's table it resolves to that
\* table to the end, in every program that has fewer functions than the stack
\* has slots: no scope opened later takes the name over.
THEOREM BindingsStay == Spec => FirstBindingStays
<1>1. Init => Typed /\ ScopeInv /\ OwnInv
  BY InitTyped, InitScopeInv, InitOwn
<1>2. Typed /\ ScopeInv /\ OwnInv /\ [Next]_vars => (Typed /\ ScopeInv /\ OwnInv)'
  BY NextTyped, NextScopeInv, NextOwn
<1>3. Typed /\ ScopeInv /\ OwnInv /\ [Next]_vars
      => [Len(tables') <= MAXSCOPE =>
            \A n \in Name : \A s \in global_lookup(n) :
              s.owner # 1 => {r.owner : r \in global_lookup(n)'} = {s.owner}]_vars
  <2> SUFFICES ASSUME Typed, ScopeInv, OwnInv, [Next]_vars, Len(tables') <= MAXSCOPE,
                      NEW n \in Name, NEW s \in global_lookup(n), s.owner # 1
               PROVE  {r.owner : r \in global_lookup(n)'} = {s.owner}
    OBVIOUS
  <2>1. Typed' /\ ScopeInv'
    BY <1>2
  <2>2. Len(tables) <= MAXSCOPE
    <3>1. Len(tables') = Len(tables) \/ Len(tables') = Len(tables) + 1
      <4>1. CASE OpenFunc
        BY <4>1 DEF OpenFunc, create_tab, Typed, TypeOK
      <4>2. CASE ~OpenFunc
        BY <4>2, BlockSteps DEF Within, CloseFunc
      <4> QED BY <4>1, <4>2
    <3> QED BY <2>1, <3>1, MaxScopeAssumption DEF Typed, TypeOK
  <2>3. PICK x \in FirstSlot(n) : TRUE
    BY DEF global_lookup
  <2>4. stack[x] \in Tab /\ s.owner = stack[x]
    BY <2>2, <2>3, FoundOwner
  <2>5. stack'[x] = stack[x] /\ FirstSlot(n)' = {x}
    <3>1. stack[x] # 1
      BY <2>4
    <3>2. stack[x] = x + 2 /\ stack'[x] = x + 2 /\ FirstSlot(n)' = {x}
      BY <2>3, <3>1, BoundSlotStays
    <3> QED BY <3>2
  <2>6. ASSUME NEW y, FirstSlot(n)' = {y}
        PROVE  {r.owner : r \in global_lookup(n)'} = {stack'[y]}
    <3>1. global_lookup(n)' = {tables'[stack'[y]][j] : j \in local_lookup(stack[y], n)'}
      BY <2>6 DEF global_lookup
    <3>2. local_lookup(stack[y], n)' # {} /\ stack'[y] # NULL /\ stack'[y] \in Tab'
      <4>1. y \in Slot /\ local_lookup(stack[y], n)' # {}
        BY <2>6 DEF FirstSlot
      <4>2. stack'[y] # NULL
        BY <4>1 DEF local_lookup
      <4>3. stack' \in [Slot -> Tab' \cup {NULL}]
        BY <2>1 DEF Typed, TypeOK
      <4> QED BY <4>1, <4>2, <4>3
    <3>3. \A j \in local_lookup(stack[y], n)' : tables'[stack'[y]][j].owner = stack'[y]
      <4>1. \A j \in local_lookup(stack[y], n)' : j \in DOMAIN tables'[stack'[y]]
        BY <3>2 DEF local_lookup
      <4> QED BY <2>1, <3>2, <4>1 DEF ScopeInv, Ownership
    <3> QED BY <3>1, <3>2, <3>3
  <2> QED BY <2>4, <2>5, <2>6
<1> QED BY <1>1, <1>2, <1>3, PTL DEF Spec, FirstBindingStays

-----------------------------------------------------------------------------
(* The refinement.  MaxFuncs bounds the functions of a program here; the   *)
(* stack holds a table of each if it is smaller than MAXSCOPE.             *)

Opened == [k \in DOMAIN frames |-> frames[k].own]

TableNames == [t \in Tab |-> {n \in Name : Declares(t, n)}]

FewFunctions == nfuncs <= MaxFuncs

LEMMA NextFewFunctions ==
  ASSUME Typed, FewFunctions, [Next]_vars
  PROVE  FewFunctions'
<1>1. nfuncs \in Nat /\ MaxFuncs \in Nat
  BY BoundsAssumption DEF Typed, TypeOK
<1>2. ASSUME NEW n \in Name, NEW r \in TypeRef, NEW p \in TypeRef, DeclareFunc(n, r, p)
      PROVE  FewFunctions'
  BY <1>1, <1>2 DEF DeclareFunc, FewFunctions
<1>3. CASE nfuncs' = nfuncs
  BY <1>3 DEF FewFunctions
<1>4. CASE nfuncs' # nfuncs
  BY <1>2, <1>4 DEF Next, Advance, Terminated, vars, DeclareParam, Use, Call, DeclareType,
       DeclareVar, NullStatement, EndParams, NoTypePart, EndTypeNames, ResolveType, EndTypes,
       EndVars, EndHeaders, OpenFunc, EndBodies, CloseFunc, Finish
<1> QED BY <1>3, <1>4

\* The error counter never goes back to zero.
LEMMA FailedSteps ==
  ASSUME Typed, [Next]_vars
  PROVE  failed' = failed \/ failed' = TRUE
<1>1. failed \in BOOLEAN
  BY DEF Typed, TypeOK
<1>2. ASSUME NEW e, e \in BOOLEAN, Report(e) PROVE failed' = failed \/ failed' = TRUE
  BY <1>1, <1>2 DEF Report
<1>3. ASSUME NEW n, NEW v, NEW e, e \in BOOLEAN, Insert(n, v, e)
      PROVE  failed' = failed \/ failed' = TRUE
  <2> DEFINE f == e \/ local_lookup(curr_scope, n) # {}
  <2>1. f \in BOOLEAN
    BY <1>3
  <2>2. failed' = failed \/ Report(f)
    BY <1>3 DEF Insert, Crash
  <2> HIDE DEF f
  <2> QED BY <1>2, <2>1, <2>2
<1>4. \A t : Undefined(t) \in BOOLEAN
  BY DEF Undefined
<1>5. ASSUME NEW n \in Name, DeclareParam(n)
      PROVE  failed' = failed \/ failed' = TRUE
  BY <1>3, <1>5 DEF DeclareParam
<1>6. ASSUME NEW n \in Name, Use(n) \/ Call(n)
      PROVE  failed' = failed \/ failed' = TRUE
  <2>1. PICK o : Outcome(o)
    BY <1>6 DEF Use, Call
  <2>2. (o = "failed") \in BOOLEAN
    OBVIOUS
  <2> QED BY <1>2, <2>1, <2>2 DEF Outcome, Crash
<1>7. ASSUME NEW n \in Name, NEW t \in TypeRef, DeclareType(n, t) \/ DeclareVar(n, t)
      PROVE  failed' = failed \/ failed' = TRUE
  BY <1>3, <1>4, <1>7 DEF DeclareType, DeclareVar
<1>8. ASSUME NEW n \in Name, NEW r \in TypeRef, NEW p \in TypeRef, DeclareFunc(n, r, p)
      PROVE  failed' = failed \/ failed' = TRUE
  <2> DEFINE e == local_lookup(curr_scope, n) = {} /\ Undefined(p)
  <2>1. e \in BOOLEAN
    BY <1>4
  <2>2. failed' = failed \/ \E v : Insert(n, v, e)
    BY <1>8 DEF DeclareFunc, Crash
  <2> HIDE DEF e
  <2> QED BY <1>3, <2>1, <2>2
<1>9. CASE ResolveType \/ EndTypes \/ OpenFunc
  <2>1. \E e : e \in BOOLEAN /\ Report(e)
    <3>1. CASE ResolveType
      BY <1>4, <3>1 DEF ResolveType
    <3>2. CASE EndTypes
      <4>1. Top.cycle \in BOOLEAN
        BY TopType DEF Typed, Frame
      <4> QED BY <3>2, <4>1 DEF EndTypes
    <3>3. CASE OpenFunc
      BY <1>4, <3>3 DEF OpenFunc
    <3> QED BY <1>9, <3>1, <3>2, <3>3
  <2> QED BY <1>2, <2>1
<1>10. CASE \/ EndParams \/ NoTypePart \/ EndTypeNames \/ EndVars \/ EndHeaders \/ EndBodies
            \/ CloseFunc \/ Finish \/ NullStatement \/ UNCHANGED vars
  BY <1>10 DEF EndParams, NoTypePart, EndTypeNames, EndVars, EndHeaders, EndBodies, CloseFunc,
               Finish, NullStatement, Crash, vars
<1> QED BY <1>5, <1>6, <1>7, <1>8, <1>9, <1>10 DEF Next, Advance, Terminated

\* A validator that crashes has not inserted anything in that step.
LEMMA CrashSteps ==
  ASSUME [Next]_vars, status = "running", status' = "crashed"
  PROVE  tables' = tables /\ ~OpenFunc /\ ~CloseFunc
<1>0. ~OpenFunc /\ ~CloseFunc
  BY DEF OpenFunc, CloseFunc
<1> SUFFICES tables' = tables
  BY <1>0
<1>1. ASSUME NEW n, NEW v, NEW e, Insert(n, v, e) PROVE tables' = tables
  BY <1>1 DEF Insert, Crash
<1>2. ASSUME NEW n \in Name, DeclareParam(n) \/ Use(n) \/ Call(n)
      PROVE  tables' = tables
  BY <1>1, <1>2 DEF DeclareParam, Use, Call
<1>3. ASSUME NEW n \in Name, NEW t \in TypeRef, DeclareType(n, t) \/ DeclareVar(n, t)
      PROVE  tables' = tables
  BY <1>1, <1>3 DEF DeclareType, DeclareVar
<1>4. ASSUME NEW n \in Name, NEW r \in TypeRef, NEW p \in TypeRef, DeclareFunc(n, r, p)
      PROVE  tables' = tables
  BY <1>1, <1>4 DEF DeclareFunc
<1>5. CASE \/ EndParams \/ NoTypePart \/ EndTypeNames \/ EndTypes \/ EndVars
           \/ EndHeaders \/ EndBodies \/ Finish \/ NullStatement \/ UNCHANGED vars
  <2>1. CASE EndParams \/ NoTypePart \/ EndTypeNames \/ EndTypes \/ EndVars
    BY <2>1 DEF EndParams, NoTypePart, EndTypeNames, EndTypes, EndVars
  <2>2. CASE EndHeaders \/ EndBodies \/ Finish
    BY <2>2 DEF EndHeaders, EndBodies, Finish
  <2>3. CASE NullStatement
    BY <2>3 DEF NullStatement
  <2>4. CASE UNCHANGED vars
    BY <2>4 DEF vars
  <2> QED BY <1>5, <2>1, <2>2, <2>3, <2>4
<1>6. CASE ResolveType
  <2> DEFINE d == Head(Top.list)
  <2>1. PICK v \in check_ty(d.ty) :
          IF local_lookup(curr_scope, d.name) = {}
          THEN status' = "crashed" /\ UNCHANGED tables
          ELSE /\ tables' = set_symvalue(curr_scope, d.name, v)
               /\ UNCHANGED status
    BY <1>6 DEF ResolveType
  <2> QED BY <2>1
<1> QED BY <1>2, <1>3, <1>4, <1>5, <1>6, <1>0 DEF Next, Advance, Terminated

\* The refinement mapping yields sequences.
LEMMA MapType ==
  ASSUME Typed
  PROVE  /\ Opened \in Seq(Nat) /\ Len(Opened) = Len(frames)
         /\ TableNames \in Seq(SUBSET Name) /\ Len(TableNames) = Len(tables)
         /\ Opened[Len(frames)] = Top.own
<1>1. /\ Len(frames) \in Nat \ {0} /\ DOMAIN frames = 1 .. Len(frames)
      /\ Len(tables) \in Nat /\ Tab = 1 .. Len(tables)
      /\ \A k \in DOMAIN frames : frames[k].own \in Nat
  <2>1. TypeOK /\ Tab = 1 .. Len(tables)
    BY DEF Typed, TypeOK, Tab
  <2>2. \A k \in DOMAIN frames : frames[k].own \in Nat
    BY <2>1 DEF Typed, WellNested, TypeOK
  <2> QED BY <2>1, <2>2, TopType DEF TypeOK
<1>2. Opened \in [1 .. Len(frames) -> Nat] /\ Opened[Len(frames)] = Top.own
  BY <1>1 DEF Opened, Top
<1>3. TableNames \in [1 .. Len(tables) -> SUBSET Name]
  BY <1>1 DEF TableNames
<1>4. \A S : \A m \in Nat : \A f \in [1 .. m -> S] : f \in Seq(S) /\ Len(f) = m
  OBVIOUS
<1> QED BY <1>1, <1>2, <1>3, <1>4

\* Opening a function allocates a table that holds no name.
LEMMA OpenedNewTable ==
  ASSUME TypeOK, OpenFunc
  PROVE  NewTable
<1>1. /\ Tab' = Tab \cup {Len(tables) + 1} /\ Len(tables') = Len(tables) + 1
      /\ \A t \in Tab : tables'[t] = tables[t]
      /\ tables'[Len(tables) + 1] = << >>
  <2>1. tables' = Append(tables, << >>) /\ tables \in Seq(Seq(Symbol))
    BY DEF OpenFunc, create_tab, TypeOK
  <2> QED BY <2>1 DEF Tab
<1>2. (\A t \in Tab : \A n : Declares(t, n)' <=> Declares(t, n))
      /\ \A t \in Tab' \ Tab : \A n : ~Declares(t, n)'
  BY <1>1 DEF Declares
<1> QED BY <1>1, <1>2 DEF NewTable

\* Each step of the validator is a step of BlockStructure, or none.
LEMMA NextImplements ==
  ASSUME MaxFuncs < MAXSCOPE, Typed, ScopeInv, Counted, FewFunctions, [Next]_vars
  PROVE  Blocks!BNext \/ UNCHANGED <<Opened, TableNames, failed, status>>
<1>1. /\ Typed' /\ TypeOK /\ TypeOK' /\ Len(frames) \in Nat \ {0}
      /\ DOMAIN frames = 1 .. Len(frames)
      /\ Len(tables) \in Nat /\ Tab = 1 .. Len(tables)
  BY NextTyped, TopType DEF Typed, TypeOK, Tab
<1>2. Len(tables) <= MAXSCOPE
  <2>1. PICK sum : Counts(sum)
    BY DEF Counted
  <2>2. PICK a \in Nat, t \in Nat, n \in Nat :
          a = sum[Len(frames)] /\ t = Len(tables) /\ n = nfuncs
    <3>1. sum \in [0 .. Len(frames) -> Nat] /\ Len(frames) \in 0 .. Len(frames)
      BY <1>1, <2>1 DEF Counts
    <3>2. sum[Len(frames)] \in Nat
      BY <3>1
    <3>3. nfuncs \in Nat
      BY <1>1 DEF TypeOK
    <3> QED BY <1>1, <3>2, <3>3
  <2>3. a + t = n + 1 /\ n <= MaxFuncs
    BY <2>1, <2>2 DEF Counts, FewFunctions
  <2> QED BY <2>2, <2>3, MaxScopeAssumption, BoundsAssumption
<1>3. failed' = failed \/ failed' = TRUE
  BY FailedSteps
<1>4. /\ Opened \in Seq(Nat) /\ Len(Opened) = Len(frames) /\ Opened[Len(Opened)] = Top.own
      /\ TableNames \in Seq(SUBSET Name) /\ Len(TableNames) = Len(tables)
  BY MapType
<1>5. ASSUME Continues
      PROVE  Opened' = Opened
  <2>1. DOMAIN frames' = DOMAIN frames /\ \A k \in DOMAIN frames : frames'[k].own = frames[k].own
    BY <1>1, <1>5 DEF Continues, TypeOK
  <2> QED BY <2>1 DEF Opened
<1>6. ASSUME SameNames
      PROVE  TableNames' = TableNames
  BY <1>6 DEF SameNames, TableNames
<1>7. CASE Finish
  <2>1. /\ status = "running" /\ Len(Opened) = 1 /\ failed' = failed
        /\ status' = IF failed THEN "rejected" ELSE "accepted"
    BY <1>4, <1>7 DEF Finish, In
  <2>2. Opened' = Opened /\ TableNames' = TableNames
    BY <1>7 DEF Finish, Opened, TableNames, Tab, Declares
  <2>3. Blocks!End
    BY <2>1, <2>2 DEF Blocks!End, Opened, TableNames
  <2> QED BY <2>3 DEF Blocks!BNext
<1>8. CASE UNCHANGED vars
  <2>1. Opened' = Opened /\ TableNames' = TableNames
    BY <1>8 DEF vars, Opened, TableNames, Tab, Declares
  <2> QED BY <1>8, <2>1 DEF vars
<1>9. CASE OpenFunc
  <2> DEFINE new == Len(tables) + 1
  <2>1. NewTable
    BY <1>1, <1>9, OpenedNewTable
  <2>2. TableNames' = Append(TableNames, {})
    <3>1. TableNames' = [t \in 1 .. new |-> IF t = new THEN {} ELSE TableNames[t]]
      <4>1. Tab' = 1 .. new /\ new \in Tab' \ Tab
        BY <1>1, <2>1 DEF NewTable
      <4>2. \A t \in 1 .. new : t # new => t \in Tab
        BY <1>1
      <4>3. \A t \in Tab : {n \in Name : Declares(t, n)'} = TableNames[t]
        BY <2>1 DEF NewTable, TableNames
      <4>5. \A t \in Tab' \ Tab : {n \in Name : Declares(t, n)'} = {}
        BY <2>1 DEF NewTable
      <4>6. TableNames' = [t \in Tab' |-> {n \in Name : Declares(t, n)'}]
        BY DEF TableNames
      <4> HIDE DEF new
      <4>7. \A t \in 1 .. new : {n \in Name : Declares(t, n)'} = IF t = new THEN {} ELSE TableNames[t]
        BY <4>1, <4>2, <4>3, <4>5
      <4>8. TableNames' = [t \in 1 .. new |-> {n \in Name : Declares(t, n)'}]
        BY <4>1, <4>6
      <4> QED BY <4>7, <4>8
    <3>2. {} \in SUBSET Name
      OBVIOUS
    <3>3. Len(TableNames) + 1 = new
      BY <1>4
    <3> HIDE DEF new
    <3>4. /\ Append(TableNames, {}) \in Seq(SUBSET Name) /\ Len(Append(TableNames, {})) = new
          /\ \A t \in 1 .. Len(TableNames) : Append(TableNames, {})[t] = TableNames[t]
          /\ Append(TableNames, {})[new] = {}
      BY <1>4, <3>2, <3>3, AppendProperties
    <3>5. \A t \in 1 .. new : t # new => t \in 1 .. Len(TableNames) /\ TableNames[t] \in SUBSET Name
      BY <1>4, <3>3
    <3>6. new \in Nat /\ TableNames' \in [1 .. new -> SUBSET Name]
      BY <1>4, <3>1, <3>3, <3>5
    <3>7. TableNames' \in Seq(SUBSET Name) /\ Len(TableNames') = new
      BY <3>6
    <3>8. \A t \in 1 .. new : TableNames'[t] = Append(TableNames, {})[t]
      BY <3>1, <3>4, <3>5
    <3> QED BY <3>4, <3>7, <3>8, SeqEqual
  <2>3. Opened' = Append(Opened, new)
    <3>1. /\ Len(frames') = Len(frames) + 1 /\ DOMAIN frames' = 1 .. Len(frames) + 1
          /\ \A k \in DOMAIN frames : frames'[k].own = frames[k].own
          /\ frames'[Len(frames) + 1].own = new
      BY <1>1, <1>9, OpenFrames DEF Top, TypeOK
    <3>2. Opened' = [k \in 1 .. Len(frames) + 1 |->
                       IF k = Len(frames) + 1 THEN new ELSE Opened[k]]
      <4> HIDE DEF new
      <4>1. \A k \in 1 .. Len(frames) + 1 : k # Len(frames) + 1 => k \in DOMAIN frames
        BY <1>1
      <4>2. \A k \in DOMAIN frames : frames'[k].own = Opened[k]
        BY <3>1 DEF Opened
      <4>3. Opened' = [k \in 1 .. Len(frames) + 1 |-> frames'[k].own]
        BY <3>1 DEF Opened
      <4> QED BY <3>1, <4>1, <4>2, <4>3
    <3> QED BY <1>4, <3>2
  <2>4. status = "running" /\ status' = status
    BY <1>9 DEF OpenFunc, In
  <2>5. Blocks!Open
    BY <1>3, <1>4, <2>2, <2>3, <2>4 DEF Blocks!Open, Blocks!MayObject, Opened, TableNames
  <2> QED BY <2>5 DEF Blocks!BNext
<1>10. CASE CloseFunc
  <2>1. /\ Len(frames) > 1 /\ frames' = SubSeq(frames, 1, Len(frames) - 1) /\ tables' = tables
        /\ status = "running" /\ status' = status /\ failed' = failed
    BY <1>10 DEF CloseFunc, In
  <2>2. TableNames' = TableNames
    BY <2>1 DEF TableNames, Tab, Declares
  <2>3. \A k \in 1 .. (Len(frames) - 1) : frames[k] \in Frame
    BY <1>1 DEF TypeOK
  <2>4. /\ DOMAIN frames' = 1 .. Len(frames) - 1
        /\ \A k \in 1 .. (Len(frames) - 1) : frames'[k] = frames[k]
    BY <1>1, <2>1, <2>3, SubSeqProperties
  <2>5. Opened' = SubSeq(Opened, 1, Len(Opened) - 1)
    <3>1. Opened' = [k \in 1 .. Len(frames) - 1 |-> Opened[k]]
      BY <1>1, <2>4 DEF Opened
    <3>2. SubSeq(Opened, 1, Len(Opened) - 1) = [k \in 1 .. Len(frames) - 1 |-> Opened[k]]
      BY <1>1, <1>4, <2>1
    <3> QED BY <3>1, <3>2
  <2>6. Blocks!Close
    BY <1>4, <2>1, <2>2, <2>5 DEF Blocks!Close, Opened, TableNames
  <2> QED BY <2>6 DEF Blocks!BNext
<1>11. CASE Continues /\ status = "running" /\ status' = "crashed"
  <2>1. TableNames' = TableNames
    BY <1>11, CrashSteps DEF TableNames, Tab, Declares
  <2>2. Blocks!Fault
    BY <1>3, <1>5, <1>11, <2>1 DEF Blocks!Fault, Blocks!MayObject, Opened, TableNames
  <2> QED BY <2>2 DEF Blocks!BNext
<1>12. CASE Continues /\ status = "running" /\ status' = status /\ ~OpenFunc
  <2>1. ASSUME NEW n \in Name, OneMore(n)
        PROVE  Blocks!Declare(n)
    <3>1. curr_scope = Top.own /\ curr_scope \in Tab
      BY <1>2, <2>1 DEF OneMore, ScopeInv, DeclaresInOwnScope, Declaring
    <3>2. n \notin TableNames[Top.own]
      BY <2>1, <3>1 DEF OneMore, TableNames
    <3>3. TableNames' = [TableNames EXCEPT ![Top.own] = @ \cup {n}]
      <4>1. DOMAIN TableNames = Tab /\ \A t \in Tab : TableNames[t] = {m \in Name : Declares(t, m)}
        BY DEF TableNames
      <4>2. TableNames' = [t \in Tab |-> {m \in Name : Declares(t, m)'}]
        BY <2>1 DEF OneMore, TableNames
      <4>3. \A t \in Tab : {m \in Name : Declares(t, m)'}
                             = IF t = Top.own THEN TableNames[t] \cup {n} ELSE TableNames[t]
        BY <2>1, <3>1, <4>1 DEF OneMore
      <4>4. [TableNames EXCEPT ![Top.own] = @ \cup {n}]
              = [t \in Tab |-> IF t = Top.own THEN TableNames[t] \cup {n} ELSE TableNames[t]]
        <5> HIDE DEF TableNames
        <5> QED BY <4>1, <3>1
      <4> QED BY <4>2, <4>3, <4>4
    <3> QED BY <1>3, <1>4, <1>5, <1>12, <3>2, <3>3
            DEF Blocks!Declare, Blocks!Innermost, Blocks!MayObject, Opened, TableNames
  <2>2. CASE SameNames /\ failed' = TRUE
    <3>1. Blocks!Object
      BY <1>5, <1>6, <1>12, <2>2 DEF Blocks!Object, Opened, TableNames
    <3> QED BY <3>1 DEF Blocks!BNext
  <2>3. CASE SameNames /\ failed' = failed
    BY <1>5, <1>6, <1>12, <2>3
  <2> QED BY <1>3, <1>12, <2>1, <2>2, <2>3, NameSteps DEF Blocks!BNext
<1> QED BY <1>7, <1>8, <1>9, <1>10, <1>11, <1>12, FrameSteps, VerdictSteps

\* In every program that has fewer functions than the stack has slots, the
\* validator implements the block structure: a declaration goes to the innermost
\* open block and is new there, the declarations of the other blocks do not
\* change, and a program is accepted only if nothing was objected to.
THEOREM BlocksImplemented ==
  ASSUME MaxFuncs < MAXSCOPE
  PROVE  Spec => ImplementsBlocks
<1> DEFINE Inv == Typed /\ ScopeInv /\ Counted /\ FewFunctions
<1>1. Init => Inv
  <2>1. Init => FewFunctions
    BY BoundsAssumption DEF Init, FewFunctions
  <2> QED BY <2>1, InitTyped, InitScopeInv, InitCounted
<1>2. Inv /\ [Next]_vars => Inv'
  BY NextTyped, NextScopeInv, NextCounted, NextFewFunctions
<1>3. Init => Blocks!BInit
  <2> SUFFICES ASSUME Init PROVE Blocks!BInit
    OBVIOUS
  <2>1. DOMAIN frames = {1} /\ frames[1].own = 1
    BY DEF Init, NewFrame
  <2>2. Opened = <<1>>
    BY <2>1 DEF Opened
  <2>3. Tab = {1} /\ \A n \in Name : ~Declares(1, n)
    <3>1. DOMAIN tables = {1} /\ DOMAIN tables[1] = {1} /\ tables[1][1].name = BaseType
      BY DEF Init, new_sym
    <3> QED BY <3>1, BaseTypeAssumption DEF Tab, Declares
  <2>4. TableNames = << {} >>
    <3>1. TableNames = [t \in 1 .. 1 |-> {}]
      BY <2>3 DEF TableNames
    <3> QED BY <3>1
  <2>5. failed = FALSE /\ status = "running"
    BY DEF Init
  <2> QED BY <2>2, <2>4, <2>5 DEF Blocks!BInit, Opened, TableNames
<1>4. Inv /\ [Next]_vars => [Blocks!BNext]_(Blocks!bvars)
  <2> SUFFICES ASSUME Inv, [Next]_vars PROVE [Blocks!BNext]_(Blocks!bvars)
    OBVIOUS
  <2>1. Blocks!BNext \/ UNCHANGED <<Opened, TableNames, failed, status>>
    BY NextImplements
  <2>2. UNCHANGED <<Opened, TableNames, failed, status>> => UNCHANGED Blocks!bvars
    BY DEF Blocks!bvars, Opened, TableNames
  <2> QED BY <2>1, <2>2
<1> HIDE DEF Inv
<1> QED BY <1>1, <1>2, <1>3, <1>4, PTL DEF Spec, ImplementsBlocks, Blocks!BSpec

-----------------------------------------------------------------------------
(* What global_lookup computes.  The order of the slots is that in which   *)
(* the functions were opened, so that the first slot with a name holds the *)
(* table of the first function that declares it.                           *)

\* A table in an earlier slot precedes one in a later slot.
LEMMA SlotOrder ==
  ASSUME Typed, GlobalScopeLast, Len(tables) <= MAXSCOPE,
         NEW x \in Slot, NEW i \in Slot, x <= i, stack[x] \in Tab, stack[i] \in Tab
  PROVE  Precedes(stack[x], stack[i])
<1>1. Len(tables) \in Nat /\ x \in Nat /\ i \in Nat /\ NULL \notin Tab
  BY NullAssumption DEF Typed, TypeOK, Slot, Tab
<1>2. CASE i + 1 < Len(tables)
  <2>1. x + 1 < Len(tables) /\ x + 2 # 1 /\ x + 2 <= i + 2
    BY <1>1, <1>2
  <2>2. stack[x] = x + 2 /\ stack[i] = i + 2
    BY <1>2, <2>1 DEF GlobalScopeLast
  <2> QED BY <2>1, <2>2 DEF Precedes
<1>3. CASE ~(i + 1 < Len(tables))
  <2>1. stack[i] = 1
    BY <1>1, <1>3 DEF GlobalScopeLast
  <2> QED BY <2>1 DEF Precedes
<1> QED BY <1>2, <1>3

\* At most one table precedes all that declare a name.
LEMMA PrecedesOnce ==
  ASSUME NEW t \in Nat, NEW u \in Nat, Precedes(t, u), Precedes(u, t)
  PROVE  t = u
BY DEF Precedes

LEMMA FirstDeclarer ==
  ASSUME Typed, ScopeInv, Len(tables) <= MAXSCOPE, NEW n
  PROVE  {s.owner : s \in global_lookup(n)} =
           {t \in Tab : /\ Declares(t, n)
                        /\ \A u \in Tab : Declares(u, n) => Precedes(t, u)}
<1> DEFINE First == {t \in Tab : /\ Declares(t, n)
                                 /\ \A u \in Tab : Declares(u, n) => Precedes(t, u)}
<1>1. TypeOK /\ GlobalScopeLast /\ \A t \in Tab : t \in Nat
  BY DEF Typed, TypeOK, Tab, ScopeInv
<1>2. \A t \in Tab : \E i \in Slot : stack[i] = t
  BY <1>1, TableSlot
<1>3. CASE FirstSlot(n) = {}
  <2>1. ASSUME NEW t \in Tab PROVE ~Declares(t, n)
    <3>1. PICK i \in Slot : stack[i] = t
      BY <1>2
    <3>2. Declares(stack[i], n) => FirstSlot(n) # {}
      BY <3>1, FirstSlotFound
    <3> QED BY <1>3, <3>1, <3>2
  <2>2. global_lookup(n) = {}
    BY <1>3 DEF global_lookup
  <2> QED BY <2>1, <2>2
<1>4. ASSUME NEW x \in FirstSlot(n)
      PROVE  {s.owner : s \in global_lookup(n)} = First
  <2>1. stack[x] \in Tab /\ {s.owner : s \in global_lookup(n)} = {stack[x]}
    BY FoundOwner
  <2>2. x \in Slot /\ Declares(stack[x], n)
    BY <1>1, <2>1, LookupDeclares DEF FirstSlot
  <2>3. ASSUME NEW u \in Tab, Declares(u, n) PROVE Precedes(stack[x], u)
    <3>1. PICK i \in Slot : stack[i] = u
      BY <1>2
    <3>2. PICK y \in FirstSlot(n) : y <= i
      BY <2>3, <3>1, FirstSlotFound
    <3>3. x <= i
      BY <3>2, FirstSlotUnique
    <3> QED BY <1>1, <2>1, <2>2, <3>1, <3>3, SlotOrder
  <2>4. stack[x] \in First
    BY <2>1, <2>2, <2>3
  <2>5. ASSUME NEW t \in First PROVE t = stack[x]
    <3>1. Precedes(t, stack[x]) /\ Precedes(stack[x], t) /\ t \in Nat /\ stack[x] \in Nat
      BY <1>1, <2>1, <2>2, <2>3
    <3> QED BY <3>1, PrecedesOnce
  <2> HIDE DEF First
  <2> QED BY <2>1, <2>4, <2>5
<1> QED BY <1>3, <1>4

\* What every lookup of the validator gives, for every program with fewer
\* functions than the stack has slots: the symbol of the function opened first
\* among all that declare the name, whether it is still open or not.
THEOREM LookupsExact == Spec => []FirstDeclarerWins
<1>1. Init => Typed /\ ScopeInv
  BY InitTyped, InitScopeInv
<1>2. Typed /\ ScopeInv /\ [Next]_vars => (Typed /\ ScopeInv)'
  BY NextTyped, NextScopeInv
<1>3. Typed /\ ScopeInv => FirstDeclarerWins
  BY FirstDeclarer DEF FirstDeclarerWins
<1> QED BY <1>1, <1>2, <1>3, PTL DEF Spec

-----------------------------------------------------------------------------
(* A name that is found stays found, also when the stack is full.  For that *)
(* the slots have to be known for any number of tables: on a full stack     *)
(* they stay as the last function that found a free one has left them.      *)

StackOrder ==
  \A i \in Slot : stack[i] = IF i + 1 < Len(tables) /\ i + 1 < MAXSCOPE THEN i + 2
                             ELSE IF i + 1 <= Len(tables) THEN 1 ELSE NULL

LEMMA InitStackOrder == ASSUME Init PROVE StackOrder
<1>1. Len(tables) = 1
  BY DEF Init
<1>2. \A i \in Slot : i \in Nat /\ stack[i] = IF i = 0 THEN 1 ELSE NULL
  BY MaxScopeAssumption DEF Init, Slot
<1> QED BY <1>1, <1>2 DEF StackOrder

LEMMA NextStackOrder ==
  ASSUME Typed, StackOrder, [Next]_vars
  PROVE  /\ StackOrder'
         /\ Len(tables) \in Nat \ {0} /\ Len(tables') \in Nat
         /\ Len(tables) <= Len(tables')
<1>1. TypeOK /\ Len(tables) \in Nat \ {0} /\ Tab = 1 .. Len(tables)
  BY TopType DEF Typed, WellNested, TypeOK, Tab
<1>2. CASE Within \/ CloseFunc
  <2>1. stack' = stack /\ Len(tables') = Len(tables)
    BY <1>2 DEF Within, CloseFunc
  <2> QED BY <1>1, <2>1 DEF StackOrder
<1>3. CASE OpenFunc
  <2> DEFINE n == Len(tables)
  <2>1. Len(tables') = n + 1 /\ stack' = begin_scope(n + 1)
    BY <1>1, <1>3 DEF OpenFunc, create_tab, TypeOK
  <2>2. \A i \in Slot : i \in Nat /\ i < MAXSCOPE /\ MAXSCOPE \in Nat \ {0, 1}
    BY MaxScopeAssumption DEF Slot
  <2>3. \A i \in Slot : stack[i] = NULL <=> i >= n
    BY <1>1, <2>2, NullAssumption DEF StackOrder
  <2>4. CASE n >= MAXSCOPE
    <3>1. FreeSlot = {}
      BY <1>1, <2>2, <2>3, <2>4 DEF FreeSlot
    <3>2. stack' = stack
      BY <2>1, <3>1 DEF begin_scope
    <3> QED BY <1>1, <2>1, <2>2, <2>4, <3>2 DEF StackOrder
  <2>5. CASE n < MAXSCOPE
    <3>1. n \in Slot /\ n - 1 \in Slot /\ n \in Nat \ {0}
      BY <1>1, <2>5, MaxScopeAssumption DEF Slot
    <3>2. n \in FreeSlot
      <4>1. \A k \in 0 .. (n - 1) : k \in Slot /\ ~(k >= n)
        BY <1>1, <2>5, MaxScopeAssumption DEF Slot
      <4>2. n >= n
        BY <1>1
      <4> HIDE DEF n
      <4> QED BY <2>3, <3>1, <4>1, <4>2 DEF FreeSlot
    <3>3. stack' = [stack EXCEPT ![n] = stack[n - 1], ![n - 1] = n + 1]
      <4>1. stack \in [Slot -> Nat \cup {NULL}] /\ n + 1 \in Nat \cup {NULL} /\ n # 0
        BY <1>1 DEF TypeOK
      <4> HIDE DEF n
      <4> QED BY <2>1, <3>2, <4>1, BeginScope
    <3>4. stack[n - 1] = 1
      BY <1>1, <3>1 DEF StackOrder
    <3>5. \A i \in Slot : stack'[i] = IF i = n THEN 1 ELSE IF i = n - 1 THEN n + 1 ELSE stack[i]
      BY <1>1, <3>1, <3>3, <3>4 DEF TypeOK
    <3>6. \A i \in Slot : i # n /\ i # n - 1 =>
            stack[i] = IF i + 1 < n + 1 THEN i + 2 ELSE NULL
      BY <1>1, <2>2, <3>1 DEF StackOrder
    <3> QED BY <1>1, <2>1, <2>2, <2>5, <3>1, <3>5, <3>6 DEF StackOrder
  <2> QED BY <1>1, <2>1, <2>2, <2>4, <2>5, MaxScopeAssumption
<1> QED BY <1>2, <1>3, BlockSteps

\* The tables in the slots, without regard to their order.
LEMMA TablesOnStack ==
  Typed /\ StackOrder => {stack[i] : i \in Slot} \ {NULL} = {t \in Tab : t <= MAXSCOPE}
<1> SUFFICES ASSUME Typed, StackOrder
             PROVE  {stack[i] : i \in Slot} \ {NULL} = {t \in Tab : t <= MAXSCOPE}
  OBVIOUS
<1>1. /\ Len(tables) \in Nat \ {0} /\ Tab = 1 .. Len(tables)
      /\ MAXSCOPE \in Nat \ {0, 1} /\ NULL \notin Nat
  <2>1. TypeOK /\ frames[1].own \in Tab
    BY TopType DEF Typed, WellNested, TypeOK
  <2> QED BY <2>1, MaxScopeAssumption, NullAssumption DEF TypeOK, Tab
<1>2. ASSUME NEW i \in Slot, stack[i] # NULL PROVE stack[i] \in {t \in Tab : t <= MAXSCOPE}
  BY <1>1, <1>2 DEF StackOrder, Slot
<1>3. ASSUME NEW t \in Tab, t <= MAXSCOPE PROVE t # NULL /\ \E i \in Slot : stack[i] = t
  <2>1. t # NULL /\ t \in Nat \ {0} /\ t <= Len(tables)
    BY <1>1
  <2>2. CASE t # 1
    <3>1. t - 2 \in Slot /\ (t - 2) + 1 < Len(tables) /\ (t - 2) + 1 < MAXSCOPE /\ (t - 2) + 2 = t
      BY <1>1, <1>3, <2>1, <2>2 DEF Slot
    <3>2. stack[t - 2] = t
      BY <3>1 DEF StackOrder
    <3> QED BY <2>1, <3>1, <3>2
  <2>3. CASE t = 1 /\ Len(tables) <= MAXSCOPE
    <3>1. Len(tables) - 1 \in Slot
      BY <1>1, <2>3 DEF Slot
    <3>2. stack[Len(tables) - 1] = 1
      BY <1>1, <3>1 DEF StackOrder
    <3> QED BY <2>1, <2>3, <3>1, <3>2
  <2>4. CASE t = 1 /\ ~(Len(tables) <= MAXSCOPE)
    <3>1. MAXSCOPE - 1 \in Slot
      BY <1>1 DEF Slot
    <3>2. stack[MAXSCOPE - 1] = 1
      BY <1>1, <2>4, <3>1 DEF StackOrder
    <3> QED BY <2>1, <2>4, <3>1, <3>2
  <2> QED BY <2>2, <2>3, <2>4
<1> QED BY <1>2, <1>3

\* In every program every function that has a header, also one whose name was
\* declared before, has had its body walked once when the validation ends, and
\* the stack holds the tables of the first MAXSCOPE - 1 of them and of no later
\* one.
THEOREM FunctionsOpened == Spec => []EveryFunctionOpened
<1>1. Init => Typed /\ Counted /\ StackOrder
  BY InitTyped, InitCounted, InitStackOrder
<1>2. Typed /\ Counted /\ StackOrder /\ [Next]_vars => (Typed /\ Counted /\ StackOrder)'
  BY NextTyped, NextCounted, NextStackOrder
<1>3. Typed /\ Counted /\ StackOrder => EveryFunctionOpened
  BY AllOpened, TablesOnStack DEF EveryFunctionOpened, Done
<1> QED BY <1>1, <1>2, <1>3, PTL DEF Spec

\* The slots before a table's hold tables that precede it.
LEMMA StackPrecedes ==
  ASSUME StackOrder, Len(tables) \in Nat, NEW x \in Slot, NEW i \in Slot, x <= i,
         stack[x] \in Tab, stack[i] \in Tab
  PROVE  Precedes(stack[x], stack[i])
<1>1. x \in Nat /\ i \in Nat /\ MAXSCOPE \in Nat /\ NULL \notin Tab
  BY MaxScopeAssumption, NullAssumption DEF Slot, Tab
<1>2. CASE i + 1 < Len(tables) /\ i + 1 < MAXSCOPE
  <2>1. stack[x] = x + 2 /\ stack[i] = i + 2
    BY <1>1, <1>2 DEF StackOrder
  <2> QED BY <1>1, <2>1 DEF Precedes
<1>3. CASE ~(i + 1 < Len(tables) /\ i + 1 < MAXSCOPE)
  <2>1. stack[i] = 1
    BY <1>1, <1>3 DEF StackOrder
  <2> QED BY <2>1 DEF Precedes
<1> QED BY <1>2, <1>3

\* A table that is in a slot is in one after the next step.
LEMMA TableOnStack ==
  ASSUME StackOrder, StackOrder', NEW x \in Slot, stack[x] \in Tab,
         Len(tables) \in Nat \ {0}, Len(tables') \in Nat, Len(tables) <= Len(tables')
  PROVE  \E i \in Slot : stack'[i] = stack[x]
<1>1. x \in Nat /\ MAXSCOPE \in Nat \ {0, 1} /\ x < MAXSCOPE /\ NULL \notin Tab
  BY MaxScopeAssumption, NullAssumption DEF Slot, Tab
<1>2. CASE x + 1 < Len(tables) /\ x + 1 < MAXSCOPE
  <2>1. stack[x] = x + 2 /\ stack'[x] = x + 2
    BY <1>1, <1>2 DEF StackOrder
  <2> QED BY <2>1
<1>3. CASE ~(x + 1 < Len(tables) /\ x + 1 < MAXSCOPE)
  <2>1. stack[x] = 1
    BY <1>1, <1>3 DEF StackOrder
  <2>2. CASE Len(tables') < MAXSCOPE
    <3>1. Len(tables') - 1 \in Slot
      BY <1>1, <2>2 DEF Slot
    <3>2. stack'[Len(tables') - 1] = 1
      BY <2>2, <3>1 DEF StackOrder
    <3> QED BY <2>1, <3>1, <3>2
  <2>3. CASE ~(Len(tables') < MAXSCOPE)
    <3>1. MAXSCOPE - 1 \in Slot
      BY <1>1 DEF Slot
    <3>2. stack'[MAXSCOPE - 1] = 1
      BY <1>1, <2>3, <3>1 DEF StackOrder
    <3> QED BY <2>1, <3>1, <3>2
  <2> QED BY <2>2, <2>3
<1> QED BY <1>2, <1>3

\* What a slot means for the lookups, as facts about one state.
FoundFirst ==
  \A n \in TypeName : \A i \in Slot :
    stack[i] \in Tab /\ Declares(stack[i], n)
      => \E j \in FirstSlot(n) : j \in Slot /\ j <= i /\ stack[j] \in Tab

FoundPrecedes ==
  \A i, j \in Slot :
    j <= i /\ stack[j] \in Tab /\ stack[i] \in Tab => Precedes(stack[j], stack[i])

LEMMA FoundFirstHolds == Typed => FoundFirst
<1>1. \A n : FirstSlot(n) \subseteq Slot
  BY DEF FirstSlot
<1> QED BY <1>1, FirstSlotFound DEF FoundFirst

LEMMA FoundPrecedesHolds == Typed /\ StackOrder => FoundPrecedes
<1>1. Typed => Len(tables) \in Nat
  BY DEF Typed, TypeOK
<1> QED BY <1>1, StackPrecedes DEF FoundPrecedes

\* In every program, however many functions it has, a name that is found is
\* found to the end, and what takes it over is a function opened earlier, or any
\* function if the global block had it.
THEOREM NamesStayFound == Spec => BindingsKept
<1>1. Init => Typed /\ StackOrder
  BY InitTyped, InitStackOrder
<1>2. Typed /\ StackOrder /\ [Next]_vars => (Typed /\ StackOrder)'
  BY NextTyped, NextStackOrder
<1>3. Typed' => FoundFirst'
  BY FoundFirstHolds, PTL
<1>4. (Typed /\ StackOrder)' => FoundPrecedes'
  BY FoundPrecedesHolds, PTL
<1>5. Typed /\ StackOrder /\ [Next]_vars
      => [\A n \in TypeName : \A i \in FirstSlot(n) :
            \E j \in FirstSlot(n)' : Precedes(stack'[j], stack[i])]_vars
  <2> SUFFICES ASSUME Typed, StackOrder, [Next]_vars, NEW n \in TypeName, NEW x \in FirstSlot(n)
               PROVE  \E j \in FirstSlot(n)' : Precedes(stack'[j], stack[x])
    OBVIOUS
  <2>1. /\ Typed' /\ StackOrder' /\ FoundFirst' /\ FoundPrecedes'
        /\ Len(tables) \in Nat \ {0} /\ Len(tables') \in Nat /\ Len(tables) <= Len(tables')
    BY <1>2, <1>3, <1>4, NextStackOrder
  <2>2. x \in Slot /\ stack[x] \in Tab /\ Declares(stack[x], n)
    <3>1. x \in Slot /\ local_lookup(stack[x], n) # {}
      BY DEF FirstSlot
    <3>2. TypeOK /\ stack[x] \in Tab
      BY <3>1 DEF Typed, TypeOK, local_lookup
    <3> QED BY <3>1, <3>2, LookupDeclares
  <2>3. PICK t \in Tab : t = stack[x]
    BY <2>2
  <2>4. PICK i \in Slot : stack'[i] = t
    BY <2>1, <2>2, <2>3, TableOnStack
  <2>5. t \in Tab' /\ Declares(t, n)'
    BY <2>2, <2>3, NameSteps DEF SameNames, OneMore, NewTable
  <2>6. PICK j \in FirstSlot(n)' : j \in Slot /\ j <= i /\ stack'[j] \in Tab'
    <3>1. stack'[i] \in Tab' /\ Declares(stack[i], n)'
      BY <2>4, <2>5 DEF Declares
    <3> QED BY <2>1, <3>1 DEF FoundFirst
  <2>7. Precedes(stack'[j], stack'[i])
    BY <2>1, <2>4, <2>5, <2>6 DEF FoundPrecedes, Precedes
  <2> QED BY <2>3, <2>4, <2>6, <2>7
<1> QED BY <1>1, <1>2, <1>5, PTL DEF Spec, BindingsKept

-----------------------------------------------------------------------------
(* The walk makes progress.  It needs to be known that the second pass over *)
(* a type part has no more declarations to visit than fit into the part.   *)

FewTypes == Top.phase \in {"types", "resolve"} => Len(Top.list) <= MaxTypes

LEMMA ComeType ==
  ASSUME TypeOK, FewTypes
  PROVE  /\ MaxTypes \in Nat /\ Come(Top) \in Nat /\ Come(Top) <= 7 + MaxTypes
         /\ Top.list \in Seq(Decl) /\ Len(Top.list) \in Nat
<1>1. Top.phase \in Phase /\ Top.list \in Seq(Decl) /\ Len(Top.list) \in Nat
  BY TopType DEF Frame
<1>2. MaxTypes \in Nat
  BY BoundsAssumption
<1>3. CASE Top.phase = "resolve"
  <2>1. Come(Top) = 3 + MaxTypes - Len(Top.list) /\ Len(Top.list) <= MaxTypes
    BY <1>3 DEF Come, FewTypes
  <2>2. \A a, m \in Nat : a <= m => 3 + m - a \in Nat /\ 3 + m - a <= 7 + m
    OBVIOUS
  <2> QED BY <1>1, <1>2, <2>1, <2>2
<1>4. CASE Top.phase # "resolve"
  <2>1. \E c \in 1 .. 2 : Come(Top) = c \/ \E d \in 4 .. 7 : Come(Top) = d + MaxTypes
    BY <1>1, <1>4 DEF Come, Phase
  <2> QED BY <1>1, <1>2, <2>1
<1> QED BY <1>1, <1>2, <1>3, <1>4

\* A block that moves on has the phase and the list that Goto gives it.
LEMMA GotoTop ==
  ASSUME TypeOK, NEW phase \in Phase, NEW list \in Seq(Decl), NEW cycle \in BOOLEAN,
         Goto(phase, list, cycle)
  PROVE  Len(frames') = Len(frames) /\ Top'.phase = phase /\ Top'.list = list
<1> DEFINE new == [Top EXCEPT !.phase = phase, !.list = list, !.cycle = cycle]
<1>1. Len(frames') = Len(frames) /\ Len(frames) \in Nat \ {0} /\ Top'.phase = phase
  BY GotoFrames, TopType
<1>2. new.list = list
  BY TopType DEF Frame
<1>3. frames' = [frames EXCEPT ![Len(frames)] = new]
  BY DEF Goto, Top
<1> HIDE DEF new
<1>4. frames'[Len(frames)] = new
  BY <1>3, TopType
<1> QED BY <1>1, <1>2, <1>4 DEF Top

\* The steps of the walk within a block bring the block nearer to its end.
LEMMA ComeGrows ==
  ASSUME Typed, FewTypes, Advance, ~OpenFunc, ~CloseFunc, ~Finish
  PROVE  Len(frames') = Len(frames) /\ Come(Top)' > Come(Top) /\ FewTypes'
<1>1. /\ TypeOK /\ MaxTypes \in Nat /\ Top.list \in Seq(Decl) /\ Len(Top.list) \in Nat
      /\ << >> \in Seq(Decl) /\ Len(<< >>) = 0
  BY ComeType DEF Typed
<1>2. CASE EndParams
  <2>1. Top.phase = "params" /\ Goto("types", << >>, FALSE) /\ "types" \in Phase
    BY <1>2 DEF EndParams, In, Phase
  <2>2. Len(frames') = Len(frames) /\ Top'.phase = "types" /\ Top'.list = << >>
    BY <1>1, <2>1, GotoTop
  <2> QED BY <1>1, <2>1, <2>2 DEF Come, FewTypes
<1>3. CASE NoTypePart \/ EndTypes \/ EndVars \/ EndBodies
  <2>1. PICK phase \in Phase : /\ Goto(phase, << >>, FALSE)
                               /\ \/ Top.phase = "types" /\ phase = "vars"
                                  \/ Top.phase = "resolve" /\ phase = "vars"
                                  \/ Top.phase = "vars" /\ phase = "headers"
                                  \/ Top.phase = "bodies" /\ phase = "stmts"
    BY <1>3 DEF NoTypePart, EndTypes, EndVars, EndBodies, In, Phase
  <2>2. Len(frames') = Len(frames) /\ Top'.phase = phase
    BY <1>1, <2>1, GotoTop
  <2>3. FewTypes'
    BY <2>1, <2>2 DEF FewTypes
  <2>4. Come(Top)' > Come(Top)
    BY <1>1, <2>1, <2>2 DEF Come
  <2> QED BY <2>2, <2>3, <2>4
<1>4. CASE EndTypeNames
  <2>1. Top.phase = "types" /\ Goto("resolve", Top.list, TRUE) /\ "resolve" \in Phase
    BY <1>4 DEF EndTypeNames, In, Phase
  <2>2. Len(frames') = Len(frames) /\ Top'.phase = "resolve" /\ Top'.list = Top.list
    BY <1>1, <2>1, GotoTop
  <2>3. Len(Top.list) <= MaxTypes
    BY <2>1 DEF FewTypes
  <2>4. FewTypes'
    BY <2>2, <2>3 DEF FewTypes
  <2>5. Come(Top)' = 3 + MaxTypes - Len(Top.list) /\ Come(Top) = 2
    BY <2>1, <2>2 DEF Come
  <2>6. \A a, m \in Nat : a <= m => 3 + m - a > 2
    OBVIOUS
  <2>7. Come(Top)' > Come(Top)
    BY <1>1, <2>3, <2>5, <2>6
  <2> QED BY <2>2, <2>4, <2>7
<1>5. CASE ResolveType
  <2> DEFINE c(v) == Top.cycle /\ v.kind = "type" /\ v.named
  <2>1. PICK v \in check_ty(Head(Top.list).ty) : Goto("resolve", Tail(Top.list), c(v))
    BY <1>5 DEF ResolveType
  <2>2. Top.phase = "resolve" /\ Top.list # << >> /\ c(v) \in BOOLEAN /\ "resolve" \in Phase
    BY <1>5 DEF ResolveType, In, Phase
  <2> HIDE DEF c
  <2>3. Tail(Top.list) \in Seq(Decl) /\ Len(Tail(Top.list)) = Len(Top.list) - 1
    BY <1>1, <2>2
  <2>4. Len(frames') = Len(frames) /\ Top'.phase = "resolve" /\ Top'.list = Tail(Top.list)
    BY <1>1, <2>1, <2>2, <2>3, GotoTop
  <2>5. Len(Top.list) <= MaxTypes
    BY <2>2 DEF FewTypes
  <2>6. FewTypes'
    BY <1>1, <2>3, <2>4, <2>5 DEF FewTypes
  <2>7. /\ Come(Top)' = 3 + MaxTypes - (Len(Top.list) - 1)
        /\ Come(Top) = 3 + MaxTypes - Len(Top.list)
    BY <2>2, <2>3, <2>4 DEF Come
  <2>8. \A a, m \in Nat : 3 + m - (a - 1) > 3 + m - a
    OBVIOUS
  <2>9. Come(Top)' > Come(Top)
    BY <1>1, <2>7, <2>8
  <2> QED BY <2>4, <2>6, <2>9
<1>6. CASE EndHeaders
  <2>1. Top.phase = "headers" /\ Goto("bodies", Top.list, FALSE) /\ "bodies" \in Phase
    BY <1>6 DEF EndHeaders, In, Phase
  <2>2. Len(frames') = Len(frames) /\ Top'.phase = "bodies"
    BY <1>1, <2>1, GotoTop
  <2> QED BY <1>1, <2>1, <2>2 DEF Come, FewTypes
<1> QED BY <1>2, <1>3, <1>4, <1>5, <1>6 DEF Advance

\* The other steps leave the innermost block where it is.
LEMMA ComeStays ==
  ASSUME Typed, FewTypes, [Next]_vars, ~Advance \/ Finish
  PROVE  Len(frames') = Len(frames) /\ Come(Top)' = Come(Top) /\ FewTypes'
<1>1. /\ TypeOK /\ MaxTypes \in Nat /\ Top.list \in Seq(Decl) /\ Len(Top.list) \in Nat
  BY ComeType DEF Typed
<1>2. ASSUME UNCHANGED frames
      PROVE  Len(frames') = Len(frames) /\ Come(Top)' = Come(Top) /\ FewTypes'
  <2>1. Top' = Top
    BY <1>2 DEF Top
  <2> QED BY <1>2, <2>1 DEF Come, FewTypes
<1>3. ASSUME NEW n \in Name, NEW t \in TypeRef, DeclareType(n, t)
      PROVE  Len(frames') = Len(frames) /\ Come(Top)' = Come(Top) /\ FewTypes'
  <2> DEFINE list == Append(Top.list, [name |-> n, ty |-> t])
  <2>1. list \in Seq(Decl) /\ Len(list) = Len(Top.list) + 1
    BY <1>1 DEF Decl
  <2>2. /\ Top.phase = "types" /\ Goto("types", list, FALSE) /\ "types" \in Phase
        /\ Len(Top.list) < MaxTypes
    BY <1>3 DEF DeclareType, In, Phase
  <2> HIDE DEF list
  <2>3. Len(frames') = Len(frames) /\ Top'.phase = "types" /\ Top'.list = list
    BY <1>1, <2>1, <2>2, GotoTop
  <2>4. FewTypes'
    BY <1>1, <2>1, <2>2, <2>3 DEF FewTypes
  <2> QED BY <2>2, <2>3, <2>4 DEF Come
<1>4. ASSUME NEW n \in Name, NEW r \in TypeRef, NEW p \in TypeRef, DeclareFunc(n, r, p)
      PROVE  Len(frames') = Len(frames) /\ Come(Top)' = Come(Top) /\ FewTypes'
  <2> DEFINE list == Append(Top.list, [name |-> n, ty |-> p])
  <2>1. list \in Seq(Decl)
    BY <1>1 DEF Decl
  <2>2. Top.phase = "headers" /\ Goto("headers", list, FALSE) /\ "headers" \in Phase
    BY <1>4 DEF DeclareFunc, In, Phase
  <2> HIDE DEF list
  <2>3. Len(frames') = Len(frames) /\ Top'.phase = "headers"
    BY <1>1, <2>1, <2>2, GotoTop
  <2> QED BY <2>2, <2>3 DEF Come, FewTypes
<1>5. ASSUME NEW n \in Name, DeclareParam(n) \/ Use(n) \/ Call(n)
      PROVE  UNCHANGED frames
  BY <1>5 DEF DeclareParam, Use, Call
<1>6. ASSUME NEW n \in Name, NEW t \in TypeRef, DeclareVar(n, t)
      PROVE  UNCHANGED frames
  BY <1>6 DEF DeclareVar
<1>7. ASSUME NullStatement \/ Terminated \/ UNCHANGED vars \/ Finish
      PROVE  UNCHANGED frames
  BY <1>7 DEF NullStatement, Terminated, vars, Finish
<1> QED BY <1>2, <1>3, <1>4, <1>5, <1>6, <1>7 DEF Next

\* Sums of the blocks left and the blocks suspended, when a block is opened and
\* when one is left.
LEMMA OpenSum ==
  ASSUME NEW w \in Nat, NEW k \in Nat, NEW t \in Nat, NEW m \in Nat
  PROVE  w * ((t + 1) - (m + 1)) + k * ((m + 1) - 1) = (w * (t - m) + k * (m - 1)) + k
<1>1. (t + 1) - (m + 1) = t - m /\ (m + 1) - 1 = m
  OBVIOUS
<1>2. k * m = k * (m - 1) + k
  OBVIOUS
<1>3. PICK a \in Int, b \in Int, c \in Int : a = w * (t - m) /\ b = k * (m - 1) /\ c = k * m
  OBVIOUS
<1>4. c = b + k
  BY <1>2, <1>3
<1>5. a + c = (a + b) + k
  BY <1>4
<1> QED BY <1>1, <1>3, <1>5

LEMMA CloseSum ==
  ASSUME NEW w \in Nat, NEW k \in Nat, NEW t \in Nat, NEW m \in Nat
  PROVE  (w * (t - (m - 1)) + k * ((m - 1) - 1)) + k = (w * (t - m) + k * (m - 1)) + w
<1>1. w * (t - (m - 1)) = w * (t - m) + w
  OBVIOUS
<1>2. k * (m - 1) = k * ((m - 1) - 1) + k
  OBVIOUS
<1>3. PICK a \in Int, b \in Int, c \in Int, d \in Int :
        /\ a = w * (t - m) /\ b = k * (m - 1)
        /\ c = w * (t - (m - 1)) /\ d = k * ((m - 1) - 1)
  OBVIOUS
<1>4. c = a + w /\ b = d + k
  BY <1>1, <1>2, <1>3
<1>5. (c + d) + k = (a + b) + w
  BY <1>4
<1> QED BY <1>3, <1>5

LEMMA SumBound ==
  ASSUME NEW k \in Nat, NEW t \in Nat, NEW m \in Nat \ {0}, NEW n \in Nat, t <= n + 1
  PROVE  (k + 2) * (t - m) + k * (m - 1) + (k + 2) <= (k + 2) * (n + 1)
<1>1. PICK d \in Nat : n + 1 = t + d
  <2>1. n + 1 - t \in Nat /\ n + 1 = t + (n + 1 - t)
    OBVIOUS
  <2> QED BY <2>1
<1>2. PICK j \in Nat : m = j + 1
  <2>1. m - 1 \in Nat /\ m = (m - 1) + 1
    OBVIOUS
  <2> QED BY <2>1
<1>3. (k + 2) * (t - m) = (k + 2) * t - (k + 2) * j - (k + 2)
  BY <1>2
<1>4. (k + 2) * j = k * j + 2 * j
  OBVIOUS
<1>5. (k + 2) * (n + 1) = (k + 2) * t + (k + 2) * d
  BY <1>1
<1>6. k * (m - 1) = k * j
  BY <1>2
<1>7. (k + 2) * d \in Nat
  OBVIOUS
<1>8. PICK p \in Int, q \in Int, r \in Int, s \in Nat :
        p = (k + 2) * t /\ q = (k + 2) * j /\ r = k * j /\ s = (k + 2) * d
  BY <1>7
<1>9. q = r + 2 * j
  BY <1>4, <1>8
<1>10. (p - q - (k + 2)) + r + (k + 2) <= p + s
  BY <1>9
<1> QED BY <1>3, <1>5, <1>6, <1>8, <1>10

\* What Progress is, with names for its parts.
Settled == Whole * (Len(tables) - Len(frames)) + (6 + MaxTypes) * (Len(frames) - 1)

Ended == IF status = "running" THEN 0 ELSE 1

PartsOf ==
  /\ Settled \in Int /\ Come(Top) \in Nat /\ Ended \in {0, 1}
  /\ Progress = Settled + Come(Top) + Ended
  /\ MaxTypes \in Nat /\ Whole \in Nat /\ Whole = (6 + MaxTypes) + 2
  /\ Len(tables) \in Nat /\ Len(frames) \in Nat \ {0}

LEMMA ProgressParts == TypeOK /\ FewTypes => PartsOf
<1> SUFFICES ASSUME TypeOK, FewTypes PROVE PartsOf
  OBVIOUS
<1>1. /\ MaxTypes \in Nat /\ Come(Top) \in Nat
      /\ Len(tables) \in Nat /\ Len(frames) \in Nat \ {0}
  BY ComeType, TopType DEF TypeOK
<1>2. Whole \in Nat /\ Whole = (6 + MaxTypes) + 2
  BY <1>1 DEF Whole
<1>3. Settled \in Int
  BY <1>1, <1>2 DEF Settled
<1>4. Progress = Settled + Come(Top) + Ended
  BY DEF Progress, Settled, Ended
<1> QED BY <1>1, <1>2, <1>3, <1>4 DEF Ended, PartsOf

LEMMA ProgressSteps ==
  ASSUME Typed, FewTypes, [Next]_vars
  PROVE  FewTypes' /\ Progress' >= Progress /\ (Advance => Progress' > Progress)
<1> DEFINE t == Len(tables)
           m == Len(frames)
           k == 6 + MaxTypes
<1>1. TypeOK /\ TypeOK' /\ MaxTypes \in Nat
  BY NextTyped, ComeType DEF Typed
<1>2. /\ Settled \in Int /\ Come(Top) \in Nat /\ Ended \in {0, 1}
      /\ Progress = Settled + Come(Top) + Ended
      /\ Whole \in Nat /\ t \in Nat /\ m \in Nat /\ k \in Nat
  BY <1>1, ProgressParts DEF PartsOf
<1>3. FewTypes' =>
        /\ Settled' \in Int /\ Come(Top)' \in Nat /\ Ended' \in {0, 1}
        /\ Progress' = Settled' + Come(Top)' + Ended'
  <2>1. TypeOK' /\ FewTypes' => PartsOf'
    BY ProgressParts, PTL
  <2> QED BY <1>1, <2>1 DEF PartsOf
<1>4. CASE OpenFunc
  <2>1. Len(frames') = m + 1 /\ Len(tables') = t + 1 /\ Top'.phase = "params"
    <3>1. Len(frames') = m + 1 /\ frames'[m + 1].phase = "params"
      BY <1>4, OpenList
    <3>2. Len(tables') = t + 1
      BY <1>1, <1>4 DEF OpenFunc, create_tab, TypeOK
    <3> QED BY <3>1, <3>2 DEF Top
  <2>2. FewTypes' /\ Come(Top)' = 1
    BY <2>1 DEF FewTypes, Come
  <2>3. Come(Top) = k /\ Ended' = Ended
    BY <1>4 DEF OpenFunc, In, Come, Ended
  <2>4. Settled' = Whole * ((t + 1) - (m + 1)) + k * ((m + 1) - 1)
    BY <2>1 DEF Settled, Whole
  <2>5. Settled = Whole * (t - m) + k * (m - 1)
    BY DEF Settled
  <2> HIDE DEF t, m, k
  <2>6. Settled' = Settled + k
    BY <1>2, <2>4, <2>5, OpenSum
  <2> QED BY <1>2, <1>3, <2>2, <2>3, <2>6
<1>5. CASE CloseFunc
  <2>1. /\ Len(frames') = m - 1 /\ tables' = tables /\ Top'.phase = "bodies"
        /\ Top.phase = "stmts" /\ Ended' = Ended
    <3>1. m > 1 /\ frames' = SubSeq(frames, 1, m - 1) /\ frames \in Seq(Frame)
          /\ DOMAIN frames = 1 .. m
      BY <1>1, <1>5, TopType DEF CloseFunc, TypeOK
    <3>2. Len(frames') = m - 1 /\ frames'[m - 1] = frames[m - 1] /\ m - 1 \in 1 .. m /\ m - 1 < m
      BY <1>2, <3>1, SubSeqProperties
    <3>3. frames[m - 1].phase = "bodies"
      BY <3>1, <3>2 DEF Typed, WellNested
    <3> QED BY <1>5, <3>2, <3>3 DEF CloseFunc, In, Top, Ended
  <2>2. FewTypes' /\ Come(Top)' = k /\ Come(Top) = k + 1
    BY <1>1, <2>1 DEF FewTypes, Come
  <2>3. Settled' = Whole * (t - (m - 1)) + k * ((m - 1) - 1)
    BY <2>1 DEF Settled, Whole
  <2>4. Settled = Whole * (t - m) + k * (m - 1)
    BY DEF Settled
  <2>5. Whole = k + 2
    BY <1>1 DEF Whole
  <2>6. Ended' = Ended
    BY <2>1
  <2> HIDE DEF t, m, k
  <2>7. Settled' + k = Settled + Whole
    BY <1>2, <2>3, <2>4, CloseSum
  <2> QED BY <1>2, <1>3, <2>2, <2>5, <2>6, <2>7
<1>6. ASSUME ~OpenFunc, ~CloseFunc, Len(frames') = Len(frames)
      PROVE  Settled' = Settled /\ Ended' >= Ended
  <2>1. Len(tables') = Len(tables)
    BY <1>6, BlockSteps DEF Within
  <2>2. Settled' = Settled
    BY <1>6, <2>1 DEF Settled, Whole
  <2>3. Ended' >= Ended
    <3>1. CASE status = "running"
      BY <3>1 DEF Ended
    <3>2. CASE status # "running"
      <4>1. status' = status
        BY <3>2, VerdictSteps DEF Finish, In, vars
      <4> QED BY <4>1 DEF Ended
    <3> QED BY <3>1, <3>2
  <2> QED BY <2>2, <2>3
<1>7. CASE Advance /\ ~OpenFunc /\ ~CloseFunc /\ ~Finish
  <2>1. Len(frames') = Len(frames) /\ Come(Top)' > Come(Top) /\ FewTypes'
    BY <1>7, ComeGrows
  <2>2. Settled' = Settled /\ Ended' >= Ended
    BY <1>6, <1>7, <2>1
  <2> QED BY <1>2, <1>3, <2>1, <2>2
<1>8. CASE (~Advance \/ Finish) /\ ~OpenFunc /\ ~CloseFunc
  <2>1. Len(frames') = Len(frames) /\ Come(Top)' = Come(Top) /\ FewTypes'
    BY <1>8, ComeStays
  <2>2. Settled' = Settled /\ Ended' >= Ended
    BY <1>6, <1>8, <2>1
  <2>3. Finish => Ended' > Ended
    BY DEF Finish, In, Ended
  <2> QED BY <1>2, <1>3, <1>8, <2>1, <2>2, <2>3
<1> QED BY <1>4, <1>5, <1>7, <1>8

\* How far the walk can come, from the number of tables there can be.
LEMMA ProgressBound ==
  ASSUME Typed, Counted, FewTypes
  PROVE  Progress <= Whole * (nfuncs + 1)
<1> DEFINE t == Len(tables)
           m == Len(frames)
           k == 6 + MaxTypes
<1>1. /\ Settled \in Int /\ Come(Top) \in Nat /\ Ended \in {0, 1}
      /\ Progress = Settled + Come(Top) + Ended
      /\ MaxTypes \in Nat /\ Whole = k + 2 /\ t \in Nat /\ m \in Nat \ {0}
      /\ Come(Top) <= 7 + MaxTypes
  BY ProgressParts, ComeType DEF Typed, PartsOf
<1>2. nfuncs \in Nat /\ t <= nfuncs + 1
  <2>1. PICK sum : Counts(sum)
    BY DEF Counted
  <2>2. sum[m] \in Nat /\ sum[m] + t = nfuncs + 1
    <3>1. m \in 0 .. m
      BY <1>1
    <3> QED BY <2>1, <3>1 DEF Counts
  <2>3. nfuncs \in Nat
    BY DEF Typed, TypeOK
  <2> HIDE DEF t, m
  <2> QED BY <1>1, <2>2, <2>3
<1>3. Settled = (k + 2) * (t - m) + k * (m - 1)
  BY <1>1 DEF Settled
<1>4. k \in Nat /\ Come(Top) <= k + 1
  BY <1>1
<1> HIDE DEF t, m, k
<1>5. Settled + (k + 2) <= (k + 2) * (nfuncs + 1)
  BY <1>1, <1>2, <1>3, <1>4, SumBound
<1>6. (k + 2) * (nfuncs + 1) \in Int
  BY <1>2, <1>4
<1>7. Progress <= Settled + (k + 2)
  BY <1>1, <1>4
<1>8. PICK a \in Int, b \in Int, c \in Int :
        a = Progress /\ b = Settled + (k + 2) /\ c = (k + 2) * (nfuncs + 1)
  BY <1>1, <1>4, <1>6
<1>9. a <= c
  BY <1>5, <1>7, <1>8
<1> QED BY <1>1, <1>8, <1>9

\* The walk over the blocks never goes back and each of its own steps brings it
\* nearer to an end that the number of functions bounds, whatever the nesting,
\* the declarations and the size of the stack.
THEOREM WalkProgresses == Spec => ProgressMade
<1>1. Init => Typed /\ Counted /\ FewTypes
  <2>1. Init => FewTypes
    BY BoundsAssumption DEF Init, FewTypes, Top, NewFrame
  <2> QED BY <2>1, InitTyped, InitCounted
<1>2. Typed /\ Counted /\ FewTypes /\ [Next]_vars => (Typed /\ Counted /\ FewTypes)'
  BY NextTyped, NextCounted, ProgressSteps
<1>3. Typed /\ Counted /\ FewTypes => Progress <= Whole * (nfuncs + 1)
  BY ProgressBound
<1>4. ASSUME Typed, FewTypes, [Next]_vars, (Progress <= Whole * (nfuncs + 1))'
      PROVE  [/\ Progress' >= Progress
              /\ Advance => Progress' > Progress
              /\ Progress' <= Whole * (nfuncs' + 1)]_vars
  <2>1. Progress' >= Progress /\ (Advance => Progress' > Progress)
    BY <1>4, ProgressSteps
  <2>2. Progress' <= Whole * (nfuncs' + 1)
    BY <1>4 DEF Whole
  <2> QED BY <2>1, <2>2
<1> QED BY <1>1, <1>2, <1>3, <1>4, PTL DEF Spec, ProgressMade

=============================================================================

