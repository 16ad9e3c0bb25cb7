------------------------------ MODULE FileWriter ------------------------------
(***************************************************************************)
(* How the text of pascal.ll gets to the disk, over several runs of the    *)
(* program in one directory: main of src/pascal.y, and filehandler and     *)
(* close_file of src/translate.c, which every output of the translator     *)
(* goes through.                                                           *)
(*                                                                         *)
(* Each output opens pascal.ll once more, for appending, and leaves the    *)
(* stream open with its text in the stream's buffer.  Only the stream that *)
(* the end of translate_code opens is closed.  The others are flushed when *)
(* the process exits, by the C library, which keeps the open streams in a  *)
(* list with the newest first.  A process that is killed by a signal       *)
(* flushes nothing.  `before` and `written` are ghosts: the file when the  *)
(* run started and the text that the run has output so far.                *)
(***************************************************************************)
EXTENDS Naturals, Sequences, SequencesExt

CONSTANTS Chunk,    \* the texts that single outputs write
          MaxOpen,  \* streams a process can have open besides its standard ones and its input
          MaxRuns   \* bound: runs of the program

ASSUME FileWriterBounds == MaxOpen \in Nat \ {0} /\ MaxRuns \in Nat

VARIABLES file,     \* contents of pascal.ll
          streams,  \* buffers of the open streams, in the order they were opened
          phase,    \* idle (no process), checking, translating or exiting
          outcome,  \* how the last run ended
          runs,
          before,
          written

vars == <<file, streams, phase, outcome, runs, before, written>>

Init ==
  /\ file = << >>
  /\ streams = << >>
  /\ phase = "idle"
  /\ outcome = "none"
  /\ runs = 0
  /\ before = << >>
  /\ written = << >>

\* A run of the program: main parses and validates first.
Start ==
  /\ phase = "idle"
  /\ runs < MaxRuns
  /\ runs' = runs + 1
  /\ phase' = "checking"
  /\ outcome' = "none"
  /\ before' = file
  /\ written' = << >>
  /\ UNCHANGED <<file, streams>>

End(how) == phase' = "idle" /\ outcome' = how

\* The text has a syntax error or semantic_validation does not return 1.
Reject ==
  /\ phase = "checking"
  /\ End("rejected")
  /\ UNCHANGED <<file, streams, runs, before, written>>

BeginTranslation ==
  /\ phase = "checking"
  /\ phase' = "translating"
  /\ UNCHANGED <<file, streams, outcome, runs, before, written>>

Killed == End("crashed") /\ streams' = << >>

\* An access through a null or a wrong pointer in the validator or the translator.
Crash ==
  /\ phase \in {"checking", "translating"}
  /\ Killed
  /\ UNCHANGED <<file, runs, before, written>>

\* Variant: a limit on descriptors that is off by one.
EmitOneMore(c) ==
  /\ phase = "translating"
  /\ IF Len(streams) > MaxOpen
     THEN Killed /\ UNCHANGED written
     ELSE /\ streams' = Append(streams, c)
          /\ written' = Append(written, c)
          /\ UNCHANGED <<phase, outcome>>
  /\ UNCHANGED <<file, runs, before>>

\* fprintf(filehandler(), ...): without a descriptor left fopen returns NULL,
\* which fprintf does not survive.
Emit(c) ==
  /\ phase = "translating"
  /\ IF Len(streams) = MaxOpen
     THEN Killed /\ UNCHANGED written
     ELSE /\ streams' = Append(streams, c)
          /\ written' = Append(written, c)
          /\ UNCHANGED <<phase, outcome>>
  /\ UNCHANGED <<file, runs, before>>

\* Variant: one of the streams that are open is closed, and no other opened.
CloseOpened ==
  /\ phase = "translating"
  /\ phase' = "exiting"
  /\ UNCHANGED <<file, streams, outcome, runs, before, written>>

\* close_file(filehandler()): the empty stream opened here is the one closed.
Close ==
  /\ phase = "translating"
  /\ IF Len(streams) = MaxOpen
     THEN Killed
     ELSE phase' = "exiting" /\ UNCHANGED <<streams, outcome>>
  /\ UNCHANGED <<file, runs, before, written>>

\* Variant: the oldest stream is flushed first.
FlushOldest ==
  /\ phase = "exiting"
  /\ streams # << >>
  /\ file' = Append(file, Head(streams))
  /\ streams' = Tail(streams)
  /\ UNCHANGED <<phase, outcome, runs, before, written>>

\* Variant: the loop over the open streams does not move on.
FlushSame ==
  /\ phase = "exiting"
  /\ streams # << >>
  /\ UNCHANGED vars

Flush ==
  /\ phase = "exiting"
  /\ streams # << >>
  /\ file' = Append(file, Last(streams))
  /\ streams' = Front(streams)
  /\ UNCHANGED <<phase, outcome, runs, before, written>>

Exit ==
  /\ phase = "exiting"
  /\ streams = << >>
  /\ End("translated")
  /\ UNCHANGED <<file, streams, runs, before, written>>

Step ==
  \/ Reject \/ BeginTranslation \/ Crash
  \/ \E c \in Chunk : Emit(c)
  \/ Close \/ Flush \/ Exit

AllRunsOver == phase = "idle" /\ runs = MaxRuns /\ UNCHANGED vars

Next == Start \/ Step \/ AllRunsOver

Spec == Init /\ [][Next]_vars

FairSpec == Spec /\ WF_vars(Step)

-----------------------------------------------------------------------------
TypeOK ==
  /\ file \in Seq(Chunk) /\ before \in Seq(Chunk) /\ written \in Seq(Chunk)
  /\ streams \in Seq(Chunk) /\ Len(streams) <= MaxOpen
  /\ phase \in {"idle", "checking", "translating", "exiting"}
  /\ outcome \in {"none", "rejected", "crashed", "translated"}
  /\ runs \in 0 .. MaxRuns

\* A run adds the whole of its text to the file or nothing, after what earlier
\* runs left there, and it adds the texts in the order opposite to the one they
\* were output in.  Only a run that came to its end adds anything.
AllOrNothing ==
  /\ phase = "idle" =>
       file = IF outcome = "translated" THEN before \o Reverse(written) ELSE before
  /\ phase = "exiting" => file \o Reverse(streams) = before \o Reverse(written)
  /\ phase \in {"checking", "translating"} => file = before /\ streams = written

\* A translation has an end only if it leaves a descriptor for close_file: the
\* number of outputs, and with it the size of a program, is limited.
LimitedOutput == outcome = "translated" => Len(written) < MaxOpen

\* The steps that a run has left at most: those of checking and translating, with
\* one for each stream it can still open, then one for each stream to flush.
StepsLeft ==
  CASE phase = "idle"        -> 0
    [] phase = "checking"    -> 2 * MaxOpen + 1
    [] phase = "translating" -> 2 * MaxOpen - Len(streams)
    [] phase = "exiting"     -> Len(streams) + 1

\* Every step of a run brings it nearer to its end, because it cannot open more
\* streams than it has descriptors and flushes each of them once.
ComesToEnd == [][Step => StepsLeft' < StepsLeft /\ StepsLeft' >= 0]_vars

\* Every run ends.
RunsEnd == (phase # "idle") ~> (phase = "idle")
=============================================================================
