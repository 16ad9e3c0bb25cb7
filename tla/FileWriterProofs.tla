--------------------------- MODULE FileWriterProofs ---------------------------
(***************************************************************************)
(* What FileWriter promises of pascal.ll, for any number of runs, any      *)
(* limit on open streams and any texts.                                    *)
(***************************************************************************)
EXTENDS FileWriter, SequenceTheorems, TLAPS

\* What Reverse, Last and Front of the community modules return.
LEMMA ReverseType ==
  ASSUME NEW S, NEW s \in Seq(S)
  PROVE  Reverse(s) \in Seq(S) /\ Len(Reverse(s)) = Len(s)
BY DEF Reverse

LEMMA FrontType ==
  ASSUME NEW S, NEW s \in Seq(S), s # << >>
  PROVE  /\ Front(s) \in Seq(S)
         /\ Len(Front(s)) = Len(s) - 1
         /\ Last(s) \in S
         /\ \A k \in 1 .. Len(s) - 1 : Front(s)[k] = s[k]
<1>1. Len(s) \in Nat \ {0}
  OBVIOUS
<1>2. \A i \in 1 .. Len(s) : s[i] \in S
  OBVIOUS
<1>3. Front(s) = SubSeq(s, 1, Len(s) - 1) /\ Last(s) = s[Len(s)]
  BY DEF Front, Last
<1>4. /\ SubSeq(s, 1, Len(s) - 1) \in Seq(S)
      /\ Len(SubSeq(s, 1, Len(s) - 1)) = Len(s) - 1
      /\ \A k \in 1 .. Len(s) - 1 : SubSeq(s, 1, Len(s) - 1)[k] = s[k]
  <2> DEFINE n == Len(s) - 1
  <2>1. n \in Nat /\ \A i \in 1 .. n : s[i] \in S
    BY <1>1, <1>2
  <2> HIDE DEF n
  <2>2. /\ SubSeq(s, 1, n) \in Seq(S)
        /\ Len(SubSeq(s, 1, n)) = IF 1 <= n THEN n - 1 + 1 ELSE 0
        /\ \A k \in 1 .. n - 1 + 1 : SubSeq(s, 1, n)[k] = s[1 + k - 1]
    BY <2>1, SubSeqProperties
  <2>3. /\ SubSeq(s, 1, n) \in Seq(S)
        /\ Len(SubSeq(s, 1, n)) = n
        /\ \A k \in 1 .. n : SubSeq(s, 1, n)[k] = s[k]
    BY <2>1, <2>2
  <2> QED
    BY <2>3 DEF n
<1> QED
  BY <1>1, <1>2, <1>3, <1>4

\* Moving the last element of s to the end of f does not change f \o Reverse(s).
LEMMA FlushKeeps ==
  ASSUME NEW S, NEW f \in Seq(S), NEW s \in Seq(S), s # << >>
  PROVE  Append(f, Last(s)) \o Reverse(Front(s)) = f \o Reverse(s)
<1> DEFINE l == Append(f, Last(s)) \o Reverse(Front(s))
           r == f \o Reverse(s)
<1>1. Len(s) \in Nat \ {0}
  OBVIOUS
<1>2. Front(s) \in Seq(S) /\ Len(Front(s)) = Len(s) - 1 /\ Last(s) \in S
  BY FrontType
<1>3. Reverse(s) \in Seq(S) /\ Len(Reverse(s)) = Len(s)
  BY ReverseType
<1>4. Reverse(Front(s)) \in Seq(S) /\ Len(Reverse(Front(s))) = Len(s) - 1
  BY <1>2, ReverseType
<1>5. l \in Seq(S) /\ Len(l) = Len(f) + Len(s)
  <2> DEFINE f1 == Append(f, Last(s))
             s1 == Reverse(Front(s))
  <2>1. f1 \in Seq(S) /\ Len(f1) = Len(f) + 1
    BY <1>2
  <2>2. s1 \in Seq(S) /\ Len(s1) = Len(s) - 1
    BY <1>4
  <2> HIDE DEF f1, s1
  <2>3. f1 \o s1 \in Seq(S) /\ Len(f1 \o s1) = Len(f1) + Len(s1)
    BY <2>1, <2>2
  <2> QED
    BY <2>1, <2>2, <2>3, <1>1 DEF f1, s1
<1>6. r \in Seq(S) /\ Len(r) = Len(f) + Len(s)
  BY <1>3
<1>7. ASSUME NEW i \in 1 .. Len(f) + Len(s)
      PROVE  l[i] = r[i]
  <2> DEFINE f1 == Append(f, Last(s))
             s1 == Reverse(Front(s))
             s2 == Reverse(s)
  <2>1. f1 \in Seq(S) /\ Len(f1) = Len(f) + 1 /\ f1[Len(f) + 1] = Last(s)
        /\ \A k \in 1 .. Len(f) : f1[k] = f[k]
    BY <1>2
  <2>2. s1 \in Seq(S) /\ Len(s1) = Len(s) - 1
    BY <1>4
  <2>3. \A k \in 1 .. Len(s) : s2[k] = s[Len(s) - k + 1]
    BY <1>1 DEF Reverse
  <2>4. \A k \in 1 .. Len(s) - 1 : s1[k] = s[Len(s) - k]
    <3> DEFINE g == Front(s)
    <3>1. g \in Seq(S) /\ Len(g) = Len(s) - 1 /\ \A k \in 1 .. Len(s) - 1 : g[k] = s[k]
      BY FrontType
    <3> HIDE DEF g
    <3>3. \A k \in 1 .. Len(g) : Reverse(g)[k] = g[Len(g) - k + 1]
      BY <3>1 DEF Reverse
    <3>4. \A k \in 1 .. Len(s) - 1 : Reverse(g)[k] = s[Len(s) - k]
      <4> TAKE k \in 1 .. Len(s) - 1
      <4>1. k \in 1 .. Len(g) /\ Len(g) - k + 1 = Len(s) - k /\ Len(s) - k \in 1 .. Len(s) - 1
        BY <3>1, <1>1
      <4> QED
        BY <4>1, <3>1, <3>3
    <3> QED
      BY <3>4 DEF g
  <2>5. Last(s) = s[Len(s)]
    BY DEF Last
  <2> HIDE DEF f1, s1, s2
  <2>6. (f1 \o s1)[i] = IF i <= Len(f1) THEN f1[i] ELSE s1[i - Len(f1)]
    BY <2>1, <2>2, <1>1
  <2>7. (f \o s2)[i] = IF i <= Len(f) THEN f[i] ELSE s2[i - Len(f)]
    BY <1>3 DEF s2
  <2>8. (f1 \o s1)[i] = (f \o s2)[i]
    <3>0. Len(f) \in Nat /\ i \in Nat
      OBVIOUS
    <3>1. CASE i <= Len(f)
      BY <3>0, <3>1, <2>1, <2>6, <2>7
    <3>2. CASE i = Len(f) + 1
      <4>1. i - Len(f) = 1 /\ ~(i <= Len(f)) /\ i <= Len(f1) /\ 1 \in 1 .. Len(s)
        BY <3>0, <3>2, <2>1, <1>1
      <4>2. s2[1] = s[Len(s)]
        BY <4>1, <2>3, <1>1
      <4> QED
        BY <4>1, <4>2, <3>2, <2>1, <2>5, <2>6, <2>7
    <3>3. CASE i > Len(f) + 1
      <4> DEFINE j == i - Len(f)
      <4>1. /\ j \in 1 .. Len(s) /\ j - 1 \in 1 .. Len(s) - 1
            /\ i - Len(f1) = j - 1 /\ ~(i <= Len(f)) /\ ~(i <= Len(f1))
        BY <3>0, <3>3, <2>1, <1>1
      <4>2. s2[j] = s[Len(s) - j + 1] /\ s1[j - 1] = s[Len(s) - (j - 1)]
        BY <4>1, <2>3, <2>4
      <4>3. Len(s) - j + 1 = Len(s) - (j - 1)
        BY <4>1, <1>1
      <4> QED
        BY <4>1, <4>2, <4>3, <2>6, <2>7
    <3>4. i <= Len(f) \/ i = Len(f) + 1 \/ i > Len(f) + 1
      BY <3>0
    <3> QED
      BY <3>1, <3>2, <3>3, <3>4
  <2> QED
    BY <2>8 DEF f1, s1, s2
<1> HIDE DEF l, r
<1>8. l = r
  BY <1>5, <1>6, <1>7
<1> QED
  BY <1>8 DEF l, r

LEMMA NothingToFlush ==
  ASSUME NEW S, NEW f \in Seq(S)
  PROVE  f \o Reverse(<< >>) = f
BY DEF Reverse

-----------------------------------------------------------------------------
\* The invariant: AllOrNothing already speaks of every phase, and the number of
\* outputs stays below the limit from the moment close_file has succeeded.
Inv ==
  /\ TypeOK
  /\ AllOrNothing
  /\ LimitedOutput
  /\ phase = "exiting" => Len(written) < MaxOpen
  /\ phase \in {"idle", "checking"} => streams = << >>
  /\ phase # "idle" => outcome = "none"

USE DEF vars

LEMMA InitInv == Init => Inv
<1> SUFFICES ASSUME Init PROVE Inv
  OBVIOUS
<1>1. << >> \in Seq(Chunk) /\ Len(<< >>) = 0
  OBVIOUS
<1> QED
  BY <1>1, FileWriterBounds DEF Init, Inv, TypeOK, AllOrNothing, LimitedOutput

LEMMA StepInv == Inv /\ [Next]_vars => Inv'
<1> SUFFICES ASSUME Inv, [Next]_vars PROVE Inv'
  OBVIOUS
<1> USE FileWriterBounds DEF Inv, TypeOK, AllOrNothing, LimitedOutput
<1>0. << >> \in Seq(Chunk) /\ Len(<< >>) = 0
  OBVIOUS
<1>1. CASE Start
  BY <1>0, <1>1 DEF Start
<1>2. CASE Reject
  BY <1>2 DEF Reject, End
<1>3. CASE BeginTranslation
  BY <1>3 DEF BeginTranslation
<1>4. CASE Crash
  BY <1>0, <1>4 DEF Crash, Killed, End
<1>5. ASSUME NEW c \in Chunk, Emit(c)
      PROVE  Inv'
  <2>1. CASE Len(streams) = MaxOpen
    BY <1>5, <2>1, <1>0 DEF Emit, Killed, End
  <2>2. CASE Len(streams) # MaxOpen
    <3>1. Append(streams, c) \in Seq(Chunk) /\ Len(Append(streams, c)) = Len(streams) + 1
      BY <1>5
    <3>2. Len(streams) + 1 <= MaxOpen
      BY <2>2
    <3> QED
      BY <1>5, <2>2, <3>1, <3>2 DEF Emit
  <2> QED
    BY <2>1, <2>2
<1>6. CASE Close
  <2>1. CASE Len(streams) = MaxOpen
    BY <1>6, <2>1, <1>0 DEF Close, Killed, End
  <2>2. CASE Len(streams) # MaxOpen
    BY <1>6, <2>2 DEF Close
  <2> QED
    BY <2>1, <2>2
<1>7. CASE Flush
  <2>1. file' \o Reverse(streams') = file \o Reverse(streams)
    BY <1>7, FlushKeeps DEF Flush
  <2>2. Front(streams) \in Seq(Chunk) /\ Len(Front(streams)) = Len(streams) - 1
        /\ Last(streams) \in Chunk
    BY <1>7, FrontType DEF Flush
  <2>3. /\ file' = Append(file, Last(streams)) /\ streams' = Front(streams)
        /\ UNCHANGED <<phase, outcome, runs, before, written>> /\ phase = "exiting"
    BY <1>7 DEF Flush
  <2>4. file' \in Seq(Chunk)
    BY <2>2, <2>3
  <2>5. TypeOK'
    BY <2>2, <2>3, <2>4
  <2>6. AllOrNothing'
    BY <2>1, <2>3
  <2>7. LimitedOutput'
    BY <2>3
  <2> QED
    BY <2>3, <2>5, <2>6, <2>7
<1>8. CASE Exit
  <2>1. file \o Reverse(streams) = file
    BY <1>8, NothingToFlush DEF Exit
  <2>2. /\ phase = "exiting" /\ phase' = "idle" /\ outcome' = "translated" /\ streams = << >>
        /\ UNCHANGED <<file, streams, runs, before, written>>
    BY <1>8 DEF Exit, End
  <2>3. AllOrNothing'
    BY <2>1, <2>2
  <2> QED
    BY <2>2, <2>3
<1>9. CASE AllRunsOver
  BY <1>9 DEF AllRunsOver
<1>10. CASE UNCHANGED vars
  BY <1>10
<1> QED
  BY <1>1, <1>2, <1>3, <1>4, <1>5, <1>6, <1>7, <1>8, <1>9, <1>10 DEF Next, Step

\* Every run adds its whole text to the file, last output first, or nothing,
\* and what a successful run wrote stayed below the limit on open streams.
THEOREM OutputCorrect == Spec => [](TypeOK /\ AllOrNothing /\ LimitedOutput)
<1>1. Inv => TypeOK /\ AllOrNothing /\ LimitedOutput
  BY DEF Inv
<1> QED
  BY <1>1, InitInv, StepInv, PTL DEF Spec

-----------------------------------------------------------------------------
\* A run takes at most 2 * MaxOpen + 1 steps, whatever it outputs: this is the
\* part of RunsEnd that does not rest on fairness.
THEOREM RunsShort == Spec => ComesToEnd
<1>1. ASSUME Inv, [Next]_vars
      PROVE  [Step => StepsLeft' < StepsLeft /\ StepsLeft' >= 0]_vars
  <2> SUFFICES ASSUME Step PROVE StepsLeft' < StepsLeft /\ StepsLeft' >= 0
    OBVIOUS
  <2> USE DEF StepsLeft
  <2>1. /\ MaxOpen \in Nat \ {0} /\ streams \in Seq(Chunk) /\ Len(streams) \in Nat
        /\ Len(streams) <= MaxOpen
    BY <1>1, FileWriterBounds DEF Inv, TypeOK
  <2>2. CASE Reject
    BY <2>1, <2>2 DEF Reject, End
  <2>3. CASE BeginTranslation
    <3>1. Len(streams) = 0
      BY <1>1, <2>3 DEF Inv, BeginTranslation
    <3> QED BY <2>1, <2>3, <3>1 DEF BeginTranslation
  <2>4. CASE Crash
    BY <2>1, <2>4 DEF Crash, Killed, End
  <2>5. ASSUME NEW c \in Chunk, Emit(c)
        PROVE  StepsLeft' < StepsLeft /\ StepsLeft' >= 0
    <3>1. CASE Len(streams) = MaxOpen
      BY <2>1, <2>5, <3>1 DEF Emit, Killed, End
    <3>2. CASE Len(streams) # MaxOpen
      <4>1. Len(streams') = Len(streams) + 1 /\ phase = "translating" /\ phase' = phase
        BY <2>1, <2>5, <3>2 DEF Emit
      <4> QED BY <2>1, <3>2, <4>1
    <3> QED BY <3>1, <3>2
  <2>6. CASE Close
    <3>1. CASE Len(streams) = MaxOpen
      BY <2>1, <2>6, <3>1 DEF Close, Killed, End
    <3>2. CASE Len(streams) # MaxOpen
      BY <2>1, <2>6, <3>2 DEF Close
    <3> QED BY <3>1, <3>2
  <2>7. CASE Flush
    <3>1. Len(streams') = Len(streams) - 1 /\ phase = "exiting" /\ phase' = phase
          /\ Len(streams) # 0
      BY <2>1, <2>7, FrontType DEF Flush
    <3> QED BY <2>1, <3>1
  <2>8. CASE Exit
    BY <2>1, <2>8 DEF Exit, End
  <2> QED BY <2>2, <2>3, <2>4, <2>5, <2>6, <2>7, <2>8 DEF Step
<1> QED BY <1>1, InitInv, StepInv, PTL DEF Spec, ComesToEnd

=============================================================================
