----------------------------- MODULE QueryCache -----------------------------
(***************************************************************************)
(* The cache of server data behind every screen of the web client: one     *)
(* browser session's queries, its mutations, and the tags that connect     *)
(* them (services/api.ts and the endpoints injected into it).              *)
(*                                                                         *)
(* What a query's entry holds is the set of mutations its data shows, so   *)
(* an entry is current when it shows every committed mutation that writes  *)
(* a row it reads.  A screen subscribes to the queries it shows; an entry  *)
(* without a subscriber is kept for a minute and shown at once when it is  *)
(* needed again.  Nothing polls the server and no other session tells this *)
(* one what it did, so the tags of its own mutations are all that makes an *)
(* entry read again.                                                       *)
(*                                                                         *)
(* Tags wait while any request of the session is under way, and are then   *)
(* matched in one step: an entry on a screen is read again, one without a  *)
(* screen is dropped (RTK Query's delayed invalidation, the default).      *)
(*                                                                         *)
(* The rows and the tags of each request are parameters; those of this     *)
(* client and server are ServerRows'.                                      *)
(***************************************************************************)
EXTENDS FiniteSets

CONSTANTS
    QueryRows(_),       \* the rows a query reads
    MutationRows(_),    \* the rows a mutation writes
    QueryTags(_),       \* the tags a query provides
    MutationTags(_, _), \* the tags a mutation invalidates, when answered or not
    Cases,          \* pairs of the queries of a session and the mutations beside them
    Elsewhere,      \* the mutations made in another browser
    LateCommits,    \* whether a request may be served after its connection broke
    None, Asked     \* no entry or no request; a request the server has not served

VARIABLES
    watched,    \* the queries of this session
    intents,    \* the mutations made while they are watched
    entry,      \* the cache: what each query's entry holds, None when there is none
    fetch,      \* the running request of each query: None, Asked or the answer under way
    failed,     \* whether the last request of the query failed
    mounted,    \* whether a screen shows the query
    phase,      \* of each mutation: idle, sent, committed, refused, settled or adrift
    committed,  \* the mutations the server committed
    waiting     \* tags not yet matched

cacheVars == <<watched, intents, entry, fetch, failed, mounted, phase, committed, waiting>>

\* The absence of an entry or a request is no answer.
ASSUME AbsentAssumption ==
    None # Asked /\ \A c \in Cases : \A shows \in SUBSET c[2] : shows # None /\ shows # Asked

Concerns(m, q) == MutationRows(m) \intersect QueryRows(q) # {}

(***************************************************************************)
(* What the server answers to a query now.                                 *)
(***************************************************************************)
AnswerOf(q) == {m \in committed : Concerns(m, q)}

CacheTypes ==
    /\ DOMAIN entry = watched /\ DOMAIN fetch = watched
    /\ \A q \in watched :
          /\ entry[q] # Asked /\ (entry[q] = None \/ entry[q] \subseteq intents)
          /\ fetch[q] \in {None, Asked} \/ fetch[q] \subseteq intents
    /\ failed \in [watched -> BOOLEAN] /\ mounted \in [watched -> BOOLEAN]
    /\ phase \in [intents -> {"idle", "sent", "committed", "refused", "settled", "adrift"}]
    /\ committed \subseteq intents

CacheInit ==
    /\ \E c \in Cases : watched = c[1] /\ intents = c[2]
    /\ entry = [q \in watched |-> None] /\ fetch = [q \in watched |-> None]
    /\ failed = [q \in watched |-> FALSE] /\ mounted = [q \in watched |-> FALSE]
    /\ phase = [m \in intents |-> "idle"]
    /\ committed = {} /\ waiting = {}

-----------------------------------------------------------------------------

(***************************************************************************)
(* The middleware runs after every settled request.  While a query or a    *)
(* mutation of this session is pending the tags wait.                      *)
(***************************************************************************)
UnderWay(fetches, phases) ==
    \/ \E q \in watched : fetches[q] # None
    \/ \E m \in intents \ Elsewhere : phases[m] \in {"sent", "committed", "refused"}

(***************************************************************************)
(* The state after a request is settled: with nothing else under way the   *)
(* tags are matched.  An entry on a screen is asked for again, another one *)
(* is dropped.                                                             *)
(***************************************************************************)
Settle(entries, fetches, phases, tags) ==
    /\ phase' = phases
    /\ IF UnderWay(fetches, phases)
       THEN waiting' = tags /\ entry' = entries /\ fetch' = fetches
       ELSE LET matched == {q \in watched : QueryTags(q) \intersect tags # {}} IN
            /\ waiting' = {}
            /\ entry' = [q \in watched |->
                            IF q \in matched /\ ~mounted[q] THEN None ELSE entries[q]]
            /\ fetch' = [q \in watched |->
                            IF q \in matched /\ mounted[q] THEN Asked ELSE fetches[q]]

(***************************************************************************)
(* A screen opens: an entry that is there is shown as it is, else the      *)
(* query is sent.                                                          *)
(***************************************************************************)
Mount(q) ==
    /\ ~mounted[q]
    /\ mounted' = [mounted EXCEPT ![q] = TRUE]
    /\ fetch' = [fetch EXCEPT ![q] = IF entry[q] = None /\ fetch[q] = None THEN Asked ELSE @]
    /\ UNCHANGED <<watched, intents, entry, failed, phase, committed, waiting>>

Unmount(q) ==
    /\ mounted[q]
    /\ mounted' = [mounted EXCEPT ![q] = FALSE]
    /\ UNCHANGED <<watched, intents, entry, fetch, failed, phase, committed, waiting>>

(***************************************************************************)
(* An entry no screen has shown for a minute is dropped.                   *)
(***************************************************************************)
Expire(q) ==
    /\ ~mounted[q] /\ fetch[q] = None /\ entry[q] # None
    /\ entry' = [entry EXCEPT ![q] = None]
    /\ UNCHANGED <<watched, intents, fetch, failed, mounted, phase, committed, waiting>>

ServerAnswers(q) ==
    /\ fetch[q] = Asked
    /\ fetch' = [fetch EXCEPT ![q] = AnswerOf(q)]
    /\ UNCHANGED <<watched, intents, entry, failed, mounted, phase, committed, waiting>>

Fulfilled(q) ==
    /\ fetch[q] \notin {None, Asked}
    /\ failed' = [failed EXCEPT ![q] = FALSE]
    /\ Settle([entry EXCEPT ![q] = fetch[q]], [fetch EXCEPT ![q] = None], phase, waiting)
    /\ UNCHANGED <<watched, intents, mounted, committed>>

(***************************************************************************)
(* A read that fails leaves the data of the last answer, with the error.   *)
(***************************************************************************)
Rejected(q) ==
    /\ fetch[q] # None
    /\ failed' = [failed EXCEPT ![q] = TRUE]
    /\ Settle(entry, [fetch EXCEPT ![q] = None], phase, waiting)
    /\ UNCHANGED <<watched, intents, mounted, committed>>

-----------------------------------------------------------------------------
SendMutation(m) ==
    /\ phase[m] = "idle"
    /\ phase' = [phase EXCEPT ![m] = "sent"]
    /\ UNCHANGED <<watched, intents, entry, fetch, failed, mounted, committed, waiting>>

CommitMutation(m) ==
    /\ phase[m] \in {"sent", "adrift"}
    /\ committed' = committed \union {m}
    /\ phase' = [phase EXCEPT ![m] = IF @ = "sent" THEN "committed" ELSE "settled"]
    /\ UNCHANGED <<watched, intents, entry, fetch, failed, mounted, waiting>>

RefuseMutation(m) ==
    /\ phase[m] = "sent"
    /\ phase' = [phase EXCEPT ![m] = "refused"]
    /\ UNCHANGED <<watched, intents, entry, fetch, failed, mounted, committed, waiting>>

(***************************************************************************)
(* What this session's cache learns of a mutation when its request ends.   *)
(***************************************************************************)
TagsOf(m, answered) == IF m \in Elsewhere THEN {} ELSE MutationTags(m, answered)

Reply(m) ==
    /\ phase[m] \in {"committed", "refused"}
    /\ Settle(entry, fetch, [phase EXCEPT ![m] = "settled"],
              waiting \union TagsOf(m, phase[m] = "committed"))
    /\ UNCHANGED <<watched, intents, failed, mounted, committed>>

(***************************************************************************)
(* The connection breaks: before the server has the request, or after it   *)
(* served it.  With LateCommits the server may still be serving it.        *)
(***************************************************************************)
Lose(m) ==
    /\ phase[m] \in {"sent", "committed"}
    /\ \E after \in {"settled"} \union
            (IF LateCommits /\ phase[m] = "sent" THEN {"adrift"} ELSE {}) :
          Settle(entry, fetch, [phase EXCEPT ![m] = after], waiting \union TagsOf(m, FALSE))
    /\ UNCHANGED <<watched, intents, failed, mounted, committed>>

CacheNext ==
    \/ \E q \in watched : Mount(q) \/ Unmount(q) \/ Expire(q) \/ ServerAnswers(q)
                             \/ Fulfilled(q) \/ Rejected(q)
    \/ \E m \in intents : SendMutation(m) \/ CommitMutation(m) \/ RefuseMutation(m) \/ Reply(m) \/ Lose(m)

CacheSpec == CacheInit /\ [][CacheNext]_cacheVars

-----------------------------------------------------------------------------
(***************************************************************************)
(* What a table of tags owes the cache: a mutation that writes a row a     *)
(* query reads invalidates a tag of the query, also when its answer is     *)
(* lost.                                                                   *)
(***************************************************************************)
TagsMatch ==
    \A c \in Cases : \A q \in c[1], m \in c[2] :
        Concerns(m, q) => \A answered \in BOOLEAN :
                              QueryTags(q) \intersect MutationTags(m, answered) # {}

(***************************************************************************)
(* In the sessions of Cases a write is not forgotten by a screen: an entry *)
(* that does not show a mutation the session has finished with is being    *)
(* asked for after the commit, is about to be (its tags wait), or its last *)
(* read failed.  So a stale figure is not left in the cache once such a    *)
(* session is quiet, even when the answer to the write was lost.  Where    *)
(* the table of tags does not match, it is left there.                     *)
(***************************************************************************)
AskedAgain(q, m) ==
    \/ fetch[q] = Asked
    \/ fetch[q] # None /\ m \in fetch[q]
    \/ QueryTags(q) \intersect waiting # {}

WritesReachTheScreen ==
    \A q \in watched, m \in committed :
        phase[m] = "settled" /\ Concerns(m, q) /\ entry[q] # None /\ ~failed[q]
            => m \in entry[q] \/ AskedAgain(q, m)

=============================================================================
