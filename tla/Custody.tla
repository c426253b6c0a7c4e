-------------------------------- MODULE Custody --------------------------------
(***************************************************************************)
(* What settlement mode promises for a cash collection, without ledgers,   *)
(* rows or reviews in detail: the cash is held by the driver, handed over  *)
(* in parts, and owned by nobody until all of it was handed over and its   *)
(* split is agreed; ownership then appears at once and in full.  It can be *)
(* called off before anything was handed over, and taken back once after   *)
(* it was owned.  A settlement moves several collections in one step.      *)
(***************************************************************************)
EXTENDS Naturals

CONSTANT Collections

VARIABLE custody

Nothing == [phase |-> "none", amount |-> 0, handed |-> 0, agreed |-> TRUE, owned |-> 0]

Collect(was, now) ==
    /\ was = Nothing
    /\ now.phase = "held"
    /\ now.amount > 0 /\ now.handed = 0 /\ now.owned = 0

\* Handing over, taking a settlement back, or agreeing on the split: whichever
\* completes the two conditions transfers the whole amount.
Progress(was, now) ==
    /\ was.phase = "held"
    /\ now.amount = was.amount
    /\ now.handed <= now.amount
    /\ was.agreed => now.agreed
    /\ IF now.agreed /\ now.handed = now.amount
       THEN now.phase = "owned" /\ now.owned = now.amount
       ELSE now.phase = "held" /\ now.owned = 0

CallOff(was, now) ==
    /\ was.phase = "held" /\ was.handed = 0
    /\ now = [was EXCEPT !.phase = "voided"]

TakeBack(was, now) ==
    /\ was.phase = "owned"
    /\ now.phase = "returned" /\ now.owned = 0
    /\ now.amount = was.amount /\ now.handed = was.handed /\ now.agreed = was.agreed

Init == custody = [c \in Collections |-> Nothing]

Step(was, now) ==
    \/ now = was
    \/ Collect(was, now)
    \/ Progress(was, now)
    \/ CallOff(was, now)
    \/ TakeBack(was, now)

Next == \A c \in Collections : Step(custody[c], custody'[c])

Spec == Init /\ [][Next]_custody
=============================================================================
