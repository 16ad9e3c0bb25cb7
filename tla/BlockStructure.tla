--------------------------- MODULE BlockStructure ---------------------------
(***************************************************************************)
(* What a validator of a block-structured language promises about          *)
(* declarations, with no symbol table in sight: blocks nest, every         *)
(* declaration belongs to the innermost open block, the declarations of a  *)
(* block are never changed once another block is innermost, and a program  *)
(* is accepted exactly when nothing was objected to.                       *)
(***************************************************************************)
EXTENDS Naturals, Sequences

CONSTANT Name

VARIABLES open,      \* the open blocks, the innermost last
          declared,  \* declared[b]: the names block b declares
          objected,  \* an error was reported
          verdict    \* running, accepted, rejected or crashed

bvars == <<open, declared, objected, verdict>>

Innermost == open[Len(open)]

BInit ==
  /\ open = <<1>>
  /\ declared = << {} >>
  /\ objected = FALSE
  /\ verdict = "running"

MayObject == objected' \in {objected, TRUE}

Declare(n) ==
  /\ verdict = "running"
  /\ n \notin declared[Innermost]
  /\ declared' = [declared EXCEPT ![Innermost] = @ \cup {n}]
  /\ MayObject
  /\ UNCHANGED <<open, verdict>>

Object ==
  /\ verdict = "running"
  /\ objected' = TRUE
  /\ UNCHANGED <<open, declared, verdict>>

Open ==
  /\ verdict = "running"
  /\ declared' = Append(declared, {})
  /\ open' = Append(open, Len(declared) + 1)
  /\ MayObject
  /\ UNCHANGED verdict

Close ==
  /\ verdict = "running"
  /\ Len(open) > 1
  /\ open' = SubSeq(open, 1, Len(open) - 1)
  /\ UNCHANGED <<declared, objected, verdict>>

End ==
  /\ verdict = "running"
  /\ Len(open) = 1
  /\ verdict' = IF objected THEN "rejected" ELSE "accepted"
  /\ UNCHANGED <<open, declared, objected>>

Fault ==
  /\ verdict = "running"
  /\ verdict' = "crashed"
  /\ MayObject
  /\ UNCHANGED <<open, declared>>

BNext == (\E n \in Name : Declare(n)) \/ Object \/ Open \/ Close \/ End \/ Fault

BSpec == BInit /\ [][BNext]_bvars

=============================================================================
