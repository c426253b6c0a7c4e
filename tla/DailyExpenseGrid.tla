---- MODULE DailyExpenseGrid ----
(***************************************************************************)
(* The Daily Expenses grid of one administrator: a row per driver for the  *)
(* selected date, unsaved drafts kept by date and driver, and saves that   *)
(* race the reloads of the day and the changes of other administrators     *)
(* (driver-expenses/DailyExpensesTab.tsx, dailyExpenseGrid.ts).            *)
(*                                                                         *)
(* The server is the day's record and its stamp, as FuelExpenses keeps it. *)
(* The query cache is modelled by how the grid uses it: `data` is the last *)
(* result of any date until the new date's arrives, an unused day expires, *)
(* and an invalidation waits for a running fetch.  Abstracted: prices,     *)
(* previews and notes; a vehicle stands for every field but the distance.  *)
(* Settings are configured on every day.  Bound: MaxChanges.                 *)
(***************************************************************************)
EXTENDS Integers, Sequences, FiniteSets, Functions

CONSTANTS RowDrivers,      \* the drivers who have a row
          Dates, Kilometers, VehicleTypes,
          DefaultVehicle,  \* the drivers' default, or Blank
          Blank, NotLoaded, NoFetch, Reading,
          MaxChanges       \* bound: changes of one record

ASSUME FiniteRowsAssumption == IsFiniteSet(RowDrivers)

VARIABLES
  records,   \* server: the record of a driver's day, or NoRecord
  cache,     \* the by-date query: a day's records, or NotLoaded
  lastData,  \* what the hook last returned for any date, or NotLoaded
  fetching,  \* a day's fetch: NoFetch, Reading, or the answer on its way
  tags,      \* days invalidated while something was still pending
  date,      \* the selected date
  drafts,    \* the touched fields of each date and driver
  saves,     \* the row's save: running, its conflict, or nothing
  queue,     \* the rows "Save all" still has to save
  saved      \* the stamp of the last save reported as done, by key

gridVars == <<records, cache, lastData, fetching, tags, date, drafts, saves, queue, saved>>

cacheVars == <<cache, lastData, fetching, tags>>

Cells == RowDrivers \X Dates
Fields == {"distance", "vehicle"}
ValuesOf(f) == IF f = "distance" THEN Kilometers ELSE VehicleTypes

NoDraft == <<>>
NoSave == [phase |-> "none"]
NoRecord == [stamp |-> 0]

(* ------------------------------- the rows -------------------------------- *)

\* records.data ?? []: the last result, whatever date it was for.
DataShown(c, last, day) ==
  IF c[day] # NotLoaded THEN c[day]
  ELSE IF last # NotLoaded THEN last ELSE [d \in RowDrivers |-> NoRecord]

\* The values a row shows: the draft's, else the record's, else the defaults.
RowValues(record, draft) ==
  [f \in Fields |->
     IF f \in DOMAIN draft THEN draft[f]
     ELSE IF record # NoRecord THEN record.values[f]
     ELSE IF f = "vehicle" THEN DefaultVehicle ELSE Blank]

IsDirty(record, draft) ==
  IF record # NoRecord
    THEN RowValues(record, draft) # record.values
    ELSE \/ RowValues(record, draft)["distance"] # Blank
         \/ "vehicle" \in DOMAIN draft /\ draft["vehicle"] # DefaultVehicle

Saveable(record, draft) ==
  /\ IsDirty(record, draft)
  /\ Blank \notin {RowValues(record, draft)[f] : f \in Fields}

Shown == DataShown(cache, lastData, date)

\* pruneCleanDrafts over the rows of the date: what equals the saved values goes.
Pruned(ds, day, data) ==
  [k \in Cells |->
     IF k[2] = day /\ ~IsDirty(data[k[1]], ds[k]) THEN NoDraft ELSE ds[k]]

(* -------------------------------- editing -------------------------------- *)

\* applyDraftChange: a draft that no longer differs is dropped.
Type(d, f, value) ==
  LET k == <<d, date>>
      next == [g \in DOMAIN drafts[k] \cup {f} |-> IF g = f THEN value ELSE drafts[k][g]]
  IN /\ RowValues(Shown[d], drafts[k])[f] # value
     /\ drafts' = [drafts EXCEPT ![k] = IF IsDirty(Shown[d], next) THEN next ELSE NoDraft]
     /\ UNCHANGED <<records, cacheVars, date, saves, queue, saved>>

Discard(d) ==
  /\ drafts[<<d, date>>] # NoDraft
  /\ drafts' = [drafts EXCEPT ![<<d, date>>] = NoDraft]
  /\ UNCHANGED <<records, cacheVars, date, saves, queue, saved>>

\* A day that is not cached is fetched; the effect prunes the new date's drafts
\* by the rows shown for it meanwhile.
ChangeDate(day) ==
  /\ day # date
  /\ date' = day
  /\ lastData' = Shown
  /\ drafts' = Pruned(drafts, day, DataShown(cache, Shown, day))
  /\ fetching' = IF cache[day] = NotLoaded /\ fetching[day] = NoFetch
                   THEN [fetching EXCEPT ![day] = Reading] ELSE fetching
  /\ UNCHANGED <<records, cache, tags, saves, queue, saved>>

(* --------------------------------- saving -------------------------------- *)

IsSaving(k) == saves[k].phase \in {"sent", "done", "stale", "duplicate", "failed"}

\* Mutant: the correction leaves the server's copy of the vehicle in place.
BodyWithoutVehicle(record, values) ==
  [f \in {g \in {"distance"} : values[g] # record.values[g]} |-> values[f]]

\* buildUpdateRequest: only the fields that differ from the record shown.
ChangedFields(record, values) ==
  [f \in {g \in Fields : values[g] # record.values[g]} |-> values[f]]

\* What a click captures: the record and the values the row shows.
Captured(d) ==
  [key |-> <<d, date>>, record |-> Shown[d],
   values |-> RowValues(Shown[d], drafts[<<d, date>>])]

Sent(row) ==
  [phase |-> "sent", record |-> row.record, values |-> row.values,
   stamp |-> 0,
   body |-> IF row.record = NoRecord THEN row.values
            ELSE ChangedFields(row.record, row.values)]

SaveRow(d) ==
  /\ queue = <<>>
  /\ Saveable(Shown[d], drafts[<<d, date>>])
  /\ ~IsSaving(<<d, date>>)
  /\ saves' = [saves EXCEPT ![<<d, date>>] = Sent(Captured(d))]
  /\ UNCHANGED <<records, cacheVars, date, drafts, queue, saved>>

\* Every saveable row as it is now, in some order, one request at a time; a row
\* that is being saved at the click is skipped.
SaveableRows ==
  {d \in RowDrivers : Saveable(Shown[d], drafts[<<d, date>>]) /\ ~IsSaving(<<d, date>>)}

SaveAll ==
  /\ queue = <<>>
  /\ SaveableRows # {}
  /\ \E order \in Bijection(1..Cardinality(SaveableRows), SaveableRows) :
       queue' = [i \in 1..Cardinality(SaveableRows) |-> Captured(order[i])]
  /\ UNCHANGED <<records, cacheVars, date, drafts, saves, saved>>

\* The next row of "Save all"; it stays at the head until its own answer.
SendQueued ==
  /\ queue # <<>>
  /\ ~IsSaving(Head(queue).key)
  /\ saves' = [saves EXCEPT ![Head(queue).key] = Sent(Head(queue))]
  /\ UNCHANGED <<records, cacheVars, date, drafts, queue, saved>>

(* ------------------------------- the server ------------------------------ *)

NewRecord(k, values) == [key |-> k, values |-> values, stamp |-> 1]

Overlaid(values, body) == [f \in Fields |-> IF f \in DOMAIN body THEN body[f] ELSE values[f]]

\* @@unique([driver_id, expense_date])
IsFree(k) == records[k] = NoRecord

IsCurrent(save) == records[save.record.key].stamp = save.record.stamp

\* createDailyExpense: a recorded day is a duplicate.
ServerCreates(k) ==
  LET save == saves[k]
  IN /\ save.phase = "sent" /\ save.record = NoRecord
     /\ IF IsFree(k)
          THEN /\ records' = [records EXCEPT ![k] = NewRecord(k, save.values)]
               /\ saves' = [saves EXCEPT ![k].phase = "done", ![k].stamp = 1]
          ELSE /\ saves' = [saves EXCEPT ![k].phase = "duplicate"]
               /\ UNCHANGED records
     /\ UNCHANGED <<cacheVars, date, drafts, queue, saved>>

\* updateDailyExpense of the record the row showed, by its id.
ServerCorrects(k) ==
  LET save == saves[k]
      id == save.record.key
      new == [records[id] EXCEPT !.values = Overlaid(@, save.body), !.stamp = @ + 1]
  IN /\ save.phase = "sent" /\ save.record # NoRecord
     /\ IF ~IsCurrent(save)
          THEN /\ saves' = [saves EXCEPT ![k].phase = "stale"]
               /\ UNCHANGED records
          ELSE IF new.values = records[id].values
          THEN /\ saves' = [saves EXCEPT ![k].phase = "done", ![k].stamp = records[id].stamp]
               /\ UNCHANGED records
          ELSE /\ new.stamp <= MaxChanges
               /\ records' = [records EXCEPT ![id] = new]
               /\ saves' = [saves EXCEPT ![k].phase = "done", ![k].stamp = new.stamp]
     /\ UNCHANGED <<cacheVars, date, drafts, queue, saved>>

\* The request or its answer is lost: the row reports a network error.  If the
\* request is served after that, it is to the grid as another's write, which
\* OtherWrites stands for, and to the server a correction like any other.
LoseSave(k) ==
  /\ saves[k].phase \in {"sent", "done"}
  /\ saves' = [saves EXCEPT ![k].phase = "failed"]
  /\ UNCHANGED <<records, cacheVars, date, drafts, queue, saved>>

\* Another administrator records or corrects a day.
OtherWrites(k, values) ==
  /\ \/ /\ records[k] = NoRecord
        /\ records' = [records EXCEPT ![k] = NewRecord(k, values)]
     \/ /\ records[k] # NoRecord
        /\ records[k].stamp < MaxChanges
        /\ records[k].values # values
        /\ records' = [records EXCEPT ![k].values = values, ![k].stamp = @ + 1]
  /\ UNCHANGED <<cacheVars, date, drafts, saves, queue, saved>>

(* --------------------------------- answers ------------------------------- *)

Pending(sv, fetches) ==
  \/ \E k \in Cells : sv[k].phase \in {"sent", "done", "stale", "duplicate", "failed"}
  \/ \E day \in Dates : fetches[day] # NoFetch

\* Invalidations wait until nothing is pending; then the shown day is fetched
\* again and any other is dropped.  `c` and `fetches` are the cache so far.
Invalidating(days, sv, c, fetches) ==
  IF Pending(sv, fetches)
    THEN tags' = days /\ cache' = c /\ fetching' = fetches
    ELSE /\ tags' = {}
         /\ cache' = [day \in Dates |-> IF day \in days \ {date} THEN NotLoaded ELSE c[day]]
         /\ fetching' = [day \in Dates |-> IF day \in days /\ day = date /\ fetches[day] = NoFetch
                                            THEN Reading ELSE fetches[day]]

Advanced(k) == IF queue # <<>> /\ Head(queue).key = k THEN Tail(queue) ELSE queue

\* The mutation fulfils: the row's draft goes, whatever it is by now.
SaveSucceeds(k) ==
  /\ saves[k].phase = "done"
  /\ saves' = [saves EXCEPT ![k] = NoSave]
  /\ drafts' = [drafts EXCEPT ![k] = NoDraft]
  /\ saved' = [saved EXCEPT ![k] = saves[k].stamp]
  /\ queue' = Advanced(k)
  /\ Invalidating(tags \cup {k[2]}, saves', cache, fetching)
  /\ UNCHANGED <<records, lastData, date>>

\* refetch() of the shown day; a fetch that is already running serves it.
Refetched ==
  IF fetching[date] = NoFetch THEN [fetching EXCEPT ![date] = Reading] ELSE fetching

\* The mutation is refused or lost; a duplicate loads the saved entry.
SaveFails(k) ==
  /\ saves[k].phase \in {"stale", "duplicate", "failed"}
  /\ saves' = [saves EXCEPT ![k] =
       [phase |-> IF saves[k].phase = "stale" THEN "conflict" ELSE "none"]]
  /\ queue' = Advanced(k)
  /\ Invalidating(tags, saves', cache,
                  IF saves[k].phase = "duplicate" THEN Refetched ELSE fetching)
  /\ UNCHANGED <<records, lastData, date, drafts, saved>>

\* "Load latest saved entry"
ReloadLatest(d) ==
  /\ saves[<<d, date>>].phase = "conflict"
  /\ saves' = [saves EXCEPT ![<<d, date>>] = NoSave]
  /\ fetching' = Refetched
  /\ UNCHANGED <<records, cache, lastData, tags, date, drafts, queue, saved>>

(* ---------------------------------- cache -------------------------------- *)

ServerReads(day) ==
  /\ fetching[day] = Reading
  /\ fetching' = [fetching EXCEPT ![day] = [d \in RowDrivers |-> records[<<d, day>>]]]
  /\ UNCHANGED <<records, cache, lastData, tags, date, drafts, saves, queue, saved>>

\* The rows change, so the effect prunes the shown date's drafts.
FetchArrives(day) ==
  /\ fetching[day] \notin {NoFetch, Reading}
  /\ Invalidating(tags, saves, [cache EXCEPT ![day] = fetching[day]],
                  [fetching EXCEPT ![day] = NoFetch])
  /\ drafts' = IF day = date THEN Pruned(drafts, day, fetching[day]) ELSE drafts
  /\ UNCHANGED <<records, lastData, date, saves, queue, saved>>

\* A day nobody shows for a minute leaves the cache.
Expire(day) ==
  /\ day # date
  /\ cache[day] # NotLoaded /\ fetching[day] = NoFetch
  /\ cache' = [cache EXCEPT ![day] = NotLoaded]
  /\ UNCHANGED <<records, lastData, fetching, tags, date, drafts, saves, queue, saved>>

(* ------------------------------ specification ---------------------------- *)

GridInit ==
  /\ records = [k \in Cells |-> NoRecord]
  /\ cache = [day \in Dates |-> NotLoaded]
  /\ lastData = NotLoaded
  /\ date \in Dates
  /\ fetching = [day \in Dates |-> IF day = date THEN Reading ELSE NoFetch]
  /\ tags = {}
  /\ drafts = [k \in Cells |-> NoDraft]
  /\ saves = [k \in Cells |-> NoSave]
  /\ queue = <<>>
  /\ saved = [k \in Cells |-> 0]

\* The first load hides the grid; later it shows whatever `data` holds.
GridShown == cache[date] # NotLoaded \/ lastData # NotLoaded

User ==
  \/ GridShown /\ \E d \in RowDrivers, f \in Fields : \E value \in ValuesOf(f) : Type(d, f, value)
  \/ GridShown /\ \E d \in RowDrivers : Discard(d) \/ SaveRow(d) \/ ReloadLatest(d)
  \/ GridShown /\ SaveAll
  \/ \E day \in Dates : ChangeDate(day)

Browser ==
  \/ SendQueued
  \/ \E day \in Dates : FetchArrives(day)
  \/ \E k \in Cells : SaveSucceeds(k) \/ SaveFails(k)

Server ==
  \/ \E k \in Cells : ServerCreates(k) \/ ServerCorrects(k)
  \/ \E day \in Dates : ServerReads(day)

Surroundings ==
  \/ \E k \in Cells, values \in [Fields -> Kilometers \cup VehicleTypes] :
       /\ values["distance"] \in Kilometers /\ values["vehicle"] \in VehicleTypes
       /\ OtherWrites(k, values)
  \/ \E k \in Cells : LoseSave(k)
  \/ \E day \in Dates : Expire(day)

GridNext == User \/ Browser \/ Server \/ Surroundings

GridSpec == GridInit /\ [][GridNext]_gridVars

(* ------------------------------- properties ------------------------------ *)

\* A save the server accepts leaves the values the row showed when it was
\* clicked, the untouched ones included, however stale the grid was; and a
\* correction replaces exactly the record the row showed.
SavedIsWhatWasShown ==
  [][\A k \in DOMAIN saves : saves[k].phase = "sent" /\ saves'[k].phase = "done" =>
       IF saves[k].record = NoRecord
         THEN records[k] = NoRecord /\ records'[k].values = saves[k].values
         ELSE /\ records[saves[k].record.key] = saves[k].record
              /\ records'[saves[k].record.key].values = saves[k].values]_gridVars

====
