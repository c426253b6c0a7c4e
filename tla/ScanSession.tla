---------------------------- MODULE ScanSession ----------------------------
(***************************************************************************)
(* The driver's barcode pickup: the scanner opened from My Jobs, its scan  *)
(* session, its camera, and the server's scan-pickup handler, while        *)
(* management and the driver's other screens move the same orders.         *)
(*                                                                         *)
(* Every order has one label; Codes are the labels of the orders this      *)
(* driver may hold.  An order is AWAY while another driver, or nobody,     *)
(* holds it, and once it is cancelled, for cancelling clears the driver.   *)
(* Time is only the scanner's cooldown: hot is the set of codes this       *)
(* session saw fail less than repeatCooldownMs ago.                        *)
(***************************************************************************)
EXTENDS Naturals, FiniteSets, Sequences

CONSTANTS Codes,        \* labels of orders
          NoCode,       \* the absence of one
          MaxSessions,  \* how often the scanner is opened
          MaxRuns,      \* how often its camera effect is run
          MaxScans,     \* requests the client sends
          MaxMoves      \* steps others take on the orders

ASSUME NoCodeIsNoLabel == NoCode \notin Codes

VARIABLES orders,    \* what the server holds of each order
          assigned,  \* how often the order was assigned to this driver
          pickups,   \* how often it was picked up
          moves,     \* steps others have taken
          scanner,   \* the number of the scanner on screen, 0 for none
          opened,    \* scanners opened so far
          session,   \* the scan session of the scanner last opened
          hot,       \* codes that failed within the cooldown
          scans,     \* scan-pickup requests, in the order they were sent
          cameras,   \* runs of the camera effect, in the order they began
          decoder    \* the fallback decoder's cached promise

orderVars == <<orders, assigned, pickups, moves>>
scannerVars == <<scanner, opened, session, hot>>
scanVars == <<orderVars, scannerVars, scans, cameras, decoder>>

OrderStages == {"AWAY", "ASSIGNED", "PICKED_UP", "OUT_FOR_DELIVERY", "DELIVERED",
                "FAILED_DELIVERY", "RESCHEDULED"}

POST_PICKUP_STATUSES ==
    {"PICKED_UP", "OUT_FOR_DELIVERY", "FAILED_DELIVERY", "RESCHEDULED"}

-----------------------------------------------------------------------------
(* The session: createScanSession.                                         *)

NewSession ==
    [kind |-> "ready", code |-> NoCode, retryable |-> FALSE, busy |-> FALSE,
     pickedUp |-> {}, count |-> 0, lastFailure |-> NoCode]

\* 404, 400 and the other 409s are final; no answer and a 5xx may be retried.
describeScanPickupError(outcome) ==
    outcome \in {"ORDER_CHANGED", "SERVER_ERROR", "NO_ANSWER"}

Succeeded(s, c) ==
    [s EXCEPT !.kind = "success", !.code = c, !.retryable = FALSE,
              !.busy = FALSE, !.pickedUp = @ \cup {c}, !.count = @ + 1,
              !.lastFailure = NoCode]

Failed(s, c, outcome) ==
    [s EXCEPT !.kind = "error", !.code = c, !.busy = FALSE,
              !.retryable = describeScanPickupError(outcome),
              !.lastFailure = c]

Answered(s, c, outcome) ==
    IF outcome = "OK" THEN Succeeded(s, c) ELSE Failed(s, c, outcome)

SessionBusy(s) == s.busy

process(c) ==
    /\ ~SessionBusy(session)
    /\ Len(scans) < MaxScans
    /\ session' = [session EXCEPT !.kind = "processing", !.code = c,
                                  !.retryable = FALSE, !.busy = TRUE]
    /\ scans' = Append(scans, [session |-> scanner, code |-> c,
                                     at |-> "sent", outcome |-> "NONE",
                                     waiting |-> TRUE])
    /\ UNCHANGED <<orderVars, scanner, opened, hot, cameras, decoder>>

\* A value of the wrong shape is refused on the spot.
RefuseValue ==
    /\ ~SessionBusy(session)
    /\ session' = [session EXCEPT !.kind = "error", !.code = NoCode,
                                  !.retryable = FALSE]
    /\ UNCHANGED <<orderVars, scanner, opened, hot, scans, cameras, decoder>>

\* The camera does not submit what this session picked up, nor the code
\* whose failure was the last, while it is fresh.
handleDetected(c) ==
    /\ c \notin session.pickedUp
    /\ ~(session.lastFailure = c /\ c \in hot)
    /\ process(c)

handleManual(c) == scanner # 0 /\ process(c)

TypeNonsense == scanner # 0 /\ RefuseValue

retry ==
    /\ scanner # 0
    /\ session.kind = "error" /\ session.retryable /\ session.code # NoCode
    /\ process(session.code)

CooldownPasses(c) ==
    /\ c \in hot
    /\ hot' = hot \ {c}
    /\ UNCHANGED <<orderVars, scanner, opened, session, scans, cameras,
                   decoder>>

-----------------------------------------------------------------------------
(* The camera effect of BarcodeScannerDialog.                              *)

NewRun == [at |-> "asking", stream |-> "none", cancelled |-> FALSE]

Cancelled(run) ==
    [run EXCEPT !.cancelled = TRUE,
                !.stream = IF @ = "live" THEN "stopped" ELSE @]

ReleaseAll == [k \in DOMAIN cameras |-> Cancelled(cameras[k])]

OpenScanner ==
    /\ scanner = 0 /\ opened < MaxSessions /\ Len(cameras) < MaxRuns
    /\ opened' = opened + 1
    /\ scanner' = opened'
    /\ session' = NewSession
    /\ hot' = {}
    /\ cameras' = Append(cameras, NewRun)
    /\ UNCHANGED <<orderVars, scans, decoder>>

\* A strict-mode remount keeps the session and runs the effect again.
Remount ==
    /\ scanner # 0 /\ Len(cameras) < MaxRuns
    /\ session = NewSession
    /\ cameras[Len(cameras)].at = "asking"
    /\ cameras' = Append(ReleaseAll, NewRun)
    /\ UNCHANGED <<orderVars, scannerVars, scans, decoder>>

CloseScanner ==
    /\ scanner # 0
    /\ scanner' = 0
    /\ cameras' = ReleaseAll
    /\ UNCHANGED <<orderVars, opened, session, hot, scans, decoder>>

Becomes(k, run) ==
    /\ cameras' = [cameras EXCEPT ![k] = run]
    /\ UNCHANGED <<orderVars, scannerVars, scans>>

Acquired(run) ==
    IF run.cancelled THEN [run EXCEPT !.at = "ended", !.stream = "stopped"]
    ELSE [run EXCEPT !.at = "playing", !.stream = "live"]

\* A failure after the cleanup is not shown.
StartFails(run) == [run EXCEPT !.at = IF run.cancelled THEN "ended" ELSE "error"]

GrantCamera(k) ==
    /\ cameras[k].at = "asking"
    /\ Becomes(k, Acquired(cameras[k]))
    /\ UNCHANGED decoder

DenyCamera(k) ==
    /\ cameras[k].at = "asking"
    /\ Becomes(k, StartFails(cameras[k]))
    /\ UNCHANGED decoder

\* play() resolves: the decoder is asked for, also by a cancelled run.  With
\* no native decoder the cached promise is awaited, or a load is started.
Play(k) ==
    /\ cameras[k].at = "playing"
    /\ \/ /\ Becomes(k, StartFails(cameras[k]))
          /\ UNCHANGED decoder
       \/ /\ Becomes(k, [cameras[k] EXCEPT !.at = "decoding"])
          /\ decoder' = IF decoder = "none" THEN "loading" ELSE decoder

Scans(run) == [run EXCEPT !.at = IF run.cancelled THEN "ended" ELSE "scanning"]

NativeDecoder(k) ==
    /\ cameras[k].at = "playing"
    /\ Becomes(k, Scans(cameras[k]))
    /\ UNCHANGED decoder

DecoderReady(k) ==
    /\ cameras[k].at = "decoding" /\ decoder = "ready"
    /\ Becomes(k, Scans(cameras[k]))
    /\ UNCHANGED decoder

DecoderLoads ==
    /\ decoder = "loading"
    /\ decoder' = "ready"
    /\ UNCHANGED <<orderVars, scannerVars, scans, cameras>>

\* Every waiting run learns of the failure and the promise is forgotten.
DecoderFails ==
    /\ decoder = "loading"
    /\ decoder' = "none"
    /\ cameras' = [k \in DOMAIN cameras |->
           IF cameras[k].at = "decoding" THEN StartFails(cameras[k])
           ELSE cameras[k]]
    /\ UNCHANGED <<orderVars, scannerVars, scans>>

Looping(run) == run.at = "scanning" /\ ~run.cancelled

Detect(k, c) == Looping(cameras[k]) /\ handleDetected(c)
DetectNonsense(k) == Looping(cameras[k]) /\ RefuseValue

-----------------------------------------------------------------------------
(* The server: pickupDriverOrderByBarcode and pickupDriverOrder.           *)

To(r, at) == scans' = [scans EXCEPT ![r].at = at]

AnswerScan(r, outcome) ==
    scans' = [scans EXCEPT ![r].at = "answered", ![r].outcome = outcome]

StatusOf(r) == orders[scans[r].code]

ResolveLabel(r) ==
    /\ scans[r].at = "sent"
    /\ IF StatusOf(r) = "AWAY" THEN AnswerScan(r, "NOT_FOUND")
       ELSE To(r, "resolved")
    /\ UNCHANGED <<orderVars, scannerVars, cameras, decoder>>

ReadOrder(r) ==
    /\ scans[r].at = "resolved"
    /\ CASE StatusOf(r) = "AWAY" -> AnswerScan(r, "NOT_FOUND")
         [] StatusOf(r) = "ASSIGNED" -> To(r, "read")
         [] OTHER -> To(r, "refused")
    /\ UNCHANGED <<orderVars, scannerVars, cameras, decoder>>

\* The assignment row no longer names this driver: an integrity error.
CheckAssignment(r) ==
    /\ scans[r].at = "read"
    /\ IF StatusOf(r) = "AWAY" THEN AnswerScan(r, "SERVER_ERROR")
       ELSE To(r, "checked")
    /\ UNCHANGED <<orderVars, scannerVars, cameras, decoder>>

\* Mutant: the claim restates the driver only.
ClaimByDriver(stage) == stage # "AWAY"

Claimable(stage) == stage = "ASSIGNED"

ClaimPickup(r) ==
    /\ scans[r].at = "checked"
    /\ IF Claimable(StatusOf(r))
       THEN /\ orders' = [orders EXCEPT ![scans[r].code] = "PICKED_UP"]
            /\ pickups' = [pickups EXCEPT ![scans[r].code] = @ + 1]
            /\ AnswerScan(r, "OK")
       ELSE To(r, "refused") /\ UNCHANGED <<orders, pickups>>
    /\ UNCHANGED <<assigned, moves, scannerVars, cameras, decoder>>

scanPickupConflict(stage) ==
    CASE stage \in POST_PICKUP_STATUSES -> "ALREADY_PICKED_UP"
      [] stage = "DELIVERED" -> "ALREADY_DELIVERED"
      [] stage = "ASSIGNED" -> "ORDER_CHANGED"

ExplainRefusal(r) ==
    /\ scans[r].at = "refused"
    /\ AnswerScan(r, IF StatusOf(r) = "AWAY" THEN "NOT_FOUND"
                 ELSE scanPickupConflict(StatusOf(r)))
    /\ UNCHANGED <<orderVars, scannerVars, cameras, decoder>>

-----------------------------------------------------------------------------
(* The answer, or the lack of one.  A scanner that closed hears nothing.   *)

Hears(r, outcome) ==
    IF scans[r].session = scanner
    THEN LET c == scans[r].code IN
         /\ session' = Answered(session, c, outcome)
         /\ hot' = IF outcome = "OK" THEN hot ELSE hot \cup {c}
    ELSE UNCHANGED <<session, hot>>

ScanAnswered(r) ==
    /\ scans[r].waiting /\ scans[r].at = "answered"
    /\ Hears(r, scans[r].outcome)
    /\ scans' = [scans EXCEPT ![r].waiting = FALSE]
    /\ UNCHANGED <<orderVars, scanner, opened, cameras, decoder>>

\* The connection breaks: before the server heard, or while it works on.
ConnectionBreaks(r) ==
    /\ scans[r].waiting
    /\ Hears(r, "NO_ANSWER")
    /\ \E at \in {scans[r].at,
                  IF scans[r].at = "sent" THEN "lost" ELSE scans[r].at} :
          scans' = [scans EXCEPT ![r].waiting = FALSE, ![r].at = at]
    /\ UNCHANGED <<orderVars, scanner, opened, cameras, decoder>>

-----------------------------------------------------------------------------
(* Others: management, and the driver's own job page.                      *)

StageMoves == {<<"AWAY", "ASSIGNED">>, <<"ASSIGNED", "AWAY">>,
          <<"ASSIGNED", "PICKED_UP">>, <<"PICKED_UP", "OUT_FOR_DELIVERY">>,
          <<"OUT_FOR_DELIVERY", "DELIVERED">>,
          <<"OUT_FOR_DELIVERY", "FAILED_DELIVERY">>,
          <<"FAILED_DELIVERY", "RESCHEDULED">>, <<"FAILED_DELIVERY", "AWAY">>,
          <<"RESCHEDULED", "OUT_FOR_DELIVERY">>, <<"RESCHEDULED", "AWAY">>}

OthersMove(c) == \E m \in StageMoves :
    /\ orders[c] = m[1] /\ moves < MaxMoves
    /\ orders' = [orders EXCEPT ![c] = m[2]]
    /\ moves' = moves + 1
    /\ assigned' = IF m[2] = "ASSIGNED"
                   THEN [assigned EXCEPT ![c] = @ + 1] ELSE assigned
    /\ pickups' = IF m[2] = "PICKED_UP"
                  THEN [pickups EXCEPT ![c] = @ + 1] ELSE pickups
    /\ UNCHANGED <<scannerVars, scans, cameras, decoder>>

-----------------------------------------------------------------------------

ScanInit ==
    /\ orders \in [Codes -> {"ASSIGNED", "AWAY"}]
    /\ assigned = [c \in Codes |-> IF orders[c] = "ASSIGNED" THEN 1 ELSE 0]
    /\ pickups = [c \in Codes |-> 0]
    /\ moves = 0
    /\ scanner = 0 /\ opened = 0
    /\ session = NewSession
    /\ hot = {}
    /\ scans = << >> /\ cameras = << >>
    /\ decoder = "none"

Driver ==
    \/ OpenScanner \/ Remount \/ CloseScanner
    \/ \E c \in Codes : handleManual(c) \/ CooldownPasses(c)
    \/ TypeNonsense \/ retry

Camera == \/ \E k \in DOMAIN cameras :
                \/ GrantCamera(k) \/ DenyCamera(k) \/ Play(k)
                \/ NativeDecoder(k) \/ DecoderReady(k) \/ DetectNonsense(k)
                \/ \E c \in Codes : Detect(k, c)
          \/ DecoderLoads \/ DecoderFails

Handler(r) ==
    \/ ResolveLabel(r) \/ ReadOrder(r) \/ CheckAssignment(r)
    \/ ClaimPickup(r) \/ ExplainRefusal(r)

ScanNext ==
    \/ Driver \/ Camera
    \/ \E r \in DOMAIN scans :
          Handler(r) \/ ScanAnswered(r) \/ ConnectionBreaks(r)
    \/ \E c \in Codes : OthersMove(c)

ScanSpec == ScanInit /\ [][ScanNext]_scanVars

-----------------------------------------------------------------------------

\* The types; the session is busy exactly while it shows a request.
ScanTypeOK ==
    /\ session.busy <=> session.kind = "processing"
    /\ session.retryable => session.kind = "error"
    /\ orders \in [Codes -> OrderStages]
    /\ assigned \in [Codes -> Nat] /\ pickups \in [Codes -> Nat]
    /\ moves \in 0..MaxMoves
    /\ scanner \in {0, opened} /\ opened \in 0..MaxSessions
    /\ session \in [kind : {"ready", "processing", "success", "error"},
                    code : Codes \cup {NoCode}, retryable : BOOLEAN,
                    busy : BOOLEAN, pickedUp : SUBSET Codes, count : Nat,
                    lastFailure : Codes \cup {NoCode}]
    /\ hot \subseteq Codes
    /\ \A i \in DOMAIN cameras :
          /\ cameras[i].at \in {"asking", "playing", "decoding", "scanning", "error",
                                "ended"}
          /\ cameras[i].stream \in {"none", "live", "stopped"}
    /\ decoder \in {"none", "loading", "ready"}

\* However requests, retries after a lost answer and the driver's job page
\* interleave, an assignment to the driver is picked up at most once.
PickedUpOncePerAssignment == \A c \in Codes : pickups[c] <= assigned[c]

=============================================================================
