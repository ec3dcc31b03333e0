------------------------------ MODULE LeaseLedger ------------------------------
(***************************************************************************)
(* What a fenced queue promises its readers: a ledger of leases and of     *)
(* answers.  A lease of an item carries a number above all the item had    *)
(* before, and only its newest lease can be answered, once.  The record of *)
(* an item may be lost; nothing is promised of that item any more, and     *)
(* everything of the others.                                               *)
(***************************************************************************)
EXTENDS Integers

CONSTANTS Item, Holder

VARIABLES
  leases,   \* <<item, number, holder>>
  answers,  \* the leases that were answered
  lost      \* the items whose record was lost

ledger == <<leases, answers, lost>>

Before(l) == {k \in leases : k[1] = l[1]}
Newest(l) == \A k \in Before(l) : k[2] <= l[2]

Init == leases = {} /\ answers = {} /\ lost = {}

\* Several items may be leased at once, each to one holder, and others lost.
Grant ==
  LET new == leases' \ leases IN
  /\ leases \subseteq leases' /\ lost \subseteq lost'
  /\ \A l \in new :
       /\ l \in Item \X Nat \X Holder
       /\ l[1] \notin lost' => /\ \A k \in Before(l) : k[2] < l[2]
                              /\ \A k \in new : k[1] = l[1] => k = l
  /\ UNCHANGED answers

Answer(l) ==
  /\ l[1] \notin lost => Newest(l) /\ l \notin answers
  /\ answers' = answers \cup {l}
  /\ UNCHANGED <<leases, lost>>

Next == Grant \/ \E l \in leases : Answer(l)

Spec == Init /\ [][Next]_ledger
===============================================================================
