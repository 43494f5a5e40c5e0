---------------------------- MODULE EditHistory ----------------------------
(***************************************************************************)
(* What an editor with undo and redo promises: one line of documents and a *)
(* place in it.  An undo goes back one document and a redo goes forward;   *)
(* an edit replaces what lies ahead.                                       *)
(***************************************************************************)
EXTENDS Sequences, SequencesExt

CONSTANT Document

VARIABLES past, present, future  \* the nearest documents are last

Edit ==
    /\ present' \in Document
    /\ past' = Append(past, present)
    /\ future' = <<>>

Undo ==
    /\ past # <<>>
    /\ present' = Last(past)
    /\ past' = Front(past)
    /\ future' = Append(future, present)

Redo ==
    /\ future # <<>>
    /\ present' = Last(future)
    /\ future' = Front(future)
    /\ past' = Append(past, present)

Init == past = <<>> /\ present \in Document /\ future = <<>>

Spec == Init /\ [][Edit \/ Undo \/ Redo]_<<past, present, future>>
=============================================================================
