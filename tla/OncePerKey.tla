------------------------------ MODULE OncePerKey ------------------------------
(***************************************************************************)
(* What an Idempotency-Key promises, without locks, transactions, retries  *)
(* or balances: under one key at most one request ever takes effect, and a *)
(* request is answered by what stands under its key, whoever put it there. *)
(***************************************************************************)
CONSTANTS
    Keys,
    Requests,
    Inputs,     \* records with a key and the fields a replay must repeat
    Nothing     \* no input, no effect

VARIABLES
    effect,     \* what took effect under a key, for ever
    asked,      \* what a request asks for
    outcome     \* how it was answered

Outcomes == {"NONE", "DONE", "REUSED", "REFUSED", "FAILED"}

Init ==
    /\ effect = [k \in Keys |-> Nothing]
    /\ asked = [r \in Requests |-> Nothing]
    /\ outcome = [r \in Requests |-> "NONE"]

Open(r) == asked[r] # Nothing /\ outcome[r] = "NONE"

Ask(r) ==
    /\ asked[r] = Nothing
    /\ \E i \in Inputs : asked' = [asked EXCEPT ![r] = i]
    /\ UNCHANGED <<effect, outcome>>

Perform(r) ==
    /\ Open(r)
    /\ effect[asked[r].key] = Nothing
    /\ effect' = [effect EXCEPT ![asked[r].key] = asked[r]]
    /\ UNCHANGED <<asked, outcome>>

\* FAILED promises nothing: the answer was lost, and the client asks again.
Truthful(r, answer) ==
    LET standing == effect[asked[r].key] IN
    \/ answer = "FAILED"
    \/ answer = "DONE" /\ standing = asked[r]
    \/ answer = "REUSED" /\ standing \notin {Nothing, asked[r]}
    \/ answer = "REFUSED" /\ standing = Nothing

Answer(r) ==
    /\ Open(r)
    /\ \E answer \in Outcomes :
          /\ Truthful(r, answer)
          /\ outcome' = [outcome EXCEPT ![r] = answer]
    /\ UNCHANGED <<effect, asked>>

Next == \E r \in Requests : Ask(r) \/ Perform(r) \/ Answer(r)

Spec == Init /\ [][Next]_<<effect, asked, outcome>>
=============================================================================
