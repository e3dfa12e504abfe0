----------------------------- MODULE AbstractFile -----------------------------
(***************************************************************************)
(* What src/fixio/io/atomic_file.fix promises its callers                  *)
(* (src/fixio/docs/atomic_file.html): a file whose content changes by      *)
(* whole transactions.  A content is the sequence of the pages of the      *)
(* file.  Nothing is said of the rollback log, the header, the locks or    *)
(* the order in which anything reaches the disk.                           *)
(***************************************************************************)
EXTENDS Naturals, Sequences

CONSTANT PageValues              \* what a page can contain

VARIABLES
    possible,   \* the contents the file may turn out to have: one, and more while a commit is under way or after a crash
    working     \* the contents seen by the open transaction and by those it is nested in, innermost last

fileVars == <<possible, working>>

Depth == Len(working)
Innermost == working[Depth]

(* The file is found with one of the contents it may have, and keeps it. *)
Look(content) ==
    /\ content \in possible
    /\ possible' = {content}

Read == \E content \in possible : Look(content) /\ UNCHANGED working

Begin == 
    /\ working = <<>>
    /\ \E content \in possible : Look(content) /\ working' = <<content>>

Nest ==
    /\ Depth > 0
    /\ working' = Append(working, Innermost)
    /\ UNCHANGED possible

(* A write replaces some pages and may enlarge the file; a change of the   *)
(* length keeps the pages that remain.                                     *)
Modify ==
    /\ Depth > 0
    /\ Len(working') = Depth
    /\ \A level \in 1 .. Depth - 1 : working'[level] = working[level]
    /\ LET old == Innermost
           new == working'[Depth]
       IN  \/ \E first \in 1 .. Len(new), value \in PageValues :
                 \E last \in first .. Len(new) :
                    /\ Len(new) = IF last > Len(old) THEN last ELSE Len(old)
                    /\ \A page \in 1 .. Len(new) :
                          \/ page \in first .. last /\ new[page] = value
                          \/ page \in 1 .. Len(old) /\ page \notin first .. last /\ new[page] = old[page]
                          \/ page > Len(old) /\ page \notin first .. last /\ new[page] \in PageValues
           \/ \A page \in 1 .. Len(new) :
                 IF page <= Len(old) THEN new[page] = old[page] ELSE new[page] \in PageValues
    /\ UNCHANGED possible

NestedCommit ==
    /\ Depth > 1
    /\ working' = Append(SubSeq(working, 1, Depth - 2), Innermost)
    /\ UNCHANGED possible

NestedRollback ==
    /\ Depth > 1
    /\ working' = SubSeq(working, 1, Depth - 1)
    /\ UNCHANGED possible

(* The outermost commit.  Until it returns, a failure may leave the old or *)
(* the new content.                                                        *)
StartCommit ==
    /\ Depth = 1
    /\ possible' = possible \union {Innermost}
    /\ UNCHANGED working

FinishCommit ==
    /\ Depth = 1
    /\ Innermost \in possible
    /\ possible' = {Innermost}
    /\ working' = <<>>

(* The outermost rollback, or a crash of the program or of the machine,    *)
(* which may leave the file longer than it was.                            *)
Prolonged(content, old) ==
    /\ Len(old) <= Len(content)
    /\ \A page \in 1 .. Len(content) :
          IF page <= Len(old) THEN content[page] = old[page] ELSE content[page] \in PageValues

Abandon ==
    /\ working' = <<>>
    /\ possible \subseteq possible'
    /\ \A content \in possible' \ possible : \E old \in possible : Prolonged(content, old)

Next == Read \/ Begin \/ Nest \/ Modify \/ NestedCommit \/ NestedRollback
        \/ StartCommit \/ FinishCommit \/ Abandon

Spec == possible # {} /\ working = <<>> /\ [][Next]_fileVars
===============================================================================
