---------------------------- MODULE ParcelJourney ----------------------------
(***************************************************************************)
(* What the order lifecycle promises about the thing it moves: a parcel is *)
(* in one place at a time and changes hands one step at a time.  A driver  *)
(* that fetched it from the sender can only bring it to the company, only  *)
(* the company hands it out for delivery, and the driver it was handed to  *)
(* either delivers it or brings it back.  No parcel passes from one driver *)
(* to another.                                                             *)
(***************************************************************************)
CONSTANTS Parcels, Drivers, NoDriver

VARIABLE place   \* where each parcel is and, on the road, with whom

Sender == [at |-> "sender", with |-> NoDriver]
Company == [at |-> "company", with |-> NoDriver]
Receiver == [at |-> "receiver", with |-> NoDriver]
Inbound(d) == [at |-> "inbound", with |-> d]
Outbound(d) == [at |-> "outbound", with |-> d]

Init == place = [p \in Parcels |-> Sender]

Carry(p, from, to) ==
    /\ place[p] = from
    /\ place' = [place EXCEPT ![p] = to]

\* the sender brings the parcel in when the order is taken
BringIn(p) == Carry(p, Sender, Company)
Collect(p) == \E d \in Drivers : Carry(p, Sender, Inbound(d))
Receive(p) == \E d \in Drivers : Carry(p, Inbound(d), Company)
TakeOut(p) == \E d \in Drivers : Carry(p, Company, Outbound(d))
BringBack(p) == \E d \in Drivers : Carry(p, Outbound(d), Company)
HandOver(p) == \E d \in Drivers : Carry(p, Outbound(d), Receiver)

\* Several orders may be given to a driver at once; none of that moves a
\* parcel, so one parcel moves at a time.
Next == \E p \in Parcels :
    BringIn(p) \/ Collect(p) \/ Receive(p) \/ TakeOut(p) \/ BringBack(p)
    \/ HandOver(p)

Spec == Init /\ [][Next]_place
=============================================================================
