------------------------------ MODULE LogBook -------------------------------
(***************************************************************************)
(* What the logger keeps for whoever calls debug() and draw(): while the   *)
(* book is open, what is said is in it; when it is closed, all of it is    *)
(* safe.  Two things lose what is not safe yet: a crash, and opening a new *)
(* book over one that is open, which is not closed first.  An opening may  *)
(* fail.                                                                   *)
(***************************************************************************)
CONSTANT Texts

VARIABLES
    open,               \* the files are open
    book,               \* what was said since they were opened
    safe                \* what of it is on the disk

bookVars == <<open, book, safe>>

Init == open = FALSE /\ book = {} /\ safe = {}

Open ==
    /\ ~open /\ open' \in BOOLEAN
    /\ book' = {} /\ safe' = {}

(* of the book that was open only `safe' is left on the disk *)
OpenOverOpen ==
    /\ open /\ open' \in BOOLEAN
    /\ book' = {} /\ safe' = {}

Say(t) ==
    /\ open
    /\ book' = book \cup {t}
    /\ UNCHANGED <<open, safe>>

Save ==
    /\ open
    /\ safe' = book
    /\ UNCHANGED <<open, book>>

Close ==
    /\ open /\ open' = FALSE
    /\ safe' = book
    /\ UNCHANGED book

Crash ==
    /\ open /\ open' = FALSE
    /\ book' = safe
    /\ UNCHANGED safe

Next == Open \/ OpenOverOpen \/ Save \/ Close \/ Crash \/ \E t \in Texts : Say(t)

Spec == Init /\ [][Next]_bookVars
=============================================================================
