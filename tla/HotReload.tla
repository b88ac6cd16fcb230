------------------------------ MODULE HotReload ------------------------------
(* shim-core/hotreload: a thread that turns Modify events of the config     *)
(* file into reloads.  An event within the debounce time of the last reload *)
(* is dropped; otherwise the thread sleeps for the debounce time and reads  *)
(* the file as it is then.                                                  *)
EXTENDS Naturals, Sequences

CONSTANTS
  MaxEdits,      \* bound on the edits of the file
  Unparsable,    \* edits after which the file does not parse
  Invalid        \* edits the validation callback refuses

ASSUME ReloadAssumption == MaxEdits \in Nat /\ 0 \notin Unparsable \cup Invalid

VARIABLES
  file,          \* number of the edit the file holds; 0 is what new() read
  fsEvents,      \* Modify events not yet received
  watcher,       \* "off", "idle", "sleeping" or "gone"
  validating,    \* start_watching_with_validation
  early,         \* last_reload.elapsed() < debounce
  config,        \* the edit the shared Config holds
  counts,        \* reload_total and reload_failed_total
  missed         \* history: the last edit's event was dropped
reloadVars == <<file, fsEvents, watcher, validating, early, config, counts, missed>>

ReloadInit ==
  /\ file = 0 /\ fsEvents = 0 /\ watcher = "off" /\ validating = FALSE
  /\ early = FALSE /\ config = 0 /\ counts = [total |-> 0, failed |-> 0]
  /\ missed = FALSE

\* An edit before the watch is in place raises no event.
EditFile ==
  /\ file < MaxEdits
  /\ file' = file + 1
  /\ IF watcher \in {"idle", "sleeping"}
     THEN fsEvents' = fsEvents + 1 /\ missed' = FALSE
     ELSE missed' = TRUE /\ UNCHANGED fsEvents
  /\ UNCHANGED <<watcher, validating, early, config, counts>>

StartWatching ==
  /\ watcher = "off"
  /\ \/ watcher' = "gone" /\ UNCHANGED <<validating, early>>   \* cannot watch
     \/ watcher' = "idle" /\ early' = TRUE /\ validating' = FALSE
  /\ UNCHANGED <<file, fsEvents, config, counts, missed>>
StartWatchingWithValidation ==
  /\ watcher = "off"
  /\ watcher' = "idle" /\ early' = TRUE /\ validating' = TRUE
  /\ UNCHANGED <<file, fsEvents, config, counts, missed>>

DebouncePasses ==
  /\ early /\ watcher = "idle" /\ early' = FALSE
  /\ UNCHANGED <<file, fsEvents, watcher, validating, config, counts, missed>>

ReceiveEvent ==
  /\ watcher = "idle" /\ fsEvents > 0
  /\ fsEvents' = fsEvents - 1
  /\ IF early
     THEN missed' = (fsEvents = 1) /\ UNCHANGED <<watcher, early>>
     ELSE watcher' = "sleeping" /\ early' = TRUE /\ UNCHANGED missed
  /\ UNCHANGED <<file, validating, config, counts>>

\* The thread wakes up: as long as it slept, last_reload is no longer recent.
ReloadStaysEarly ==
  /\ watcher = "sleeping"
  /\ watcher' = "idle"
  /\ IF file \in Unparsable \/ (validating /\ file \in Invalid)
     THEN counts' = [counts EXCEPT !.failed = @ + 1] /\ UNCHANGED config
     ELSE counts' = [counts EXCEPT !.total = @ + 1] /\ config' = file
  /\ UNCHANGED <<file, fsEvents, validating, early, missed>>
ReloadFile ==
  /\ watcher = "sleeping"
  /\ watcher' = "idle" /\ early' = FALSE
  /\ IF file \in Unparsable \/ (validating /\ file \in Invalid)
     THEN counts' = [counts EXCEPT !.failed = @ + 1] /\ UNCHANGED config
     ELSE counts' = [counts EXCEPT !.total = @ + 1] /\ config' = file
  /\ UNCHANGED <<file, fsEvents, validating, missed>>

WatchError ==
  /\ watcher = "idle" /\ watcher' = "gone"
  /\ UNCHANGED <<file, fsEvents, validating, early, config, counts, missed>>

ReloadNext ==
  \/ EditFile \/ StartWatching \/ StartWatchingWithValidation \/ DebouncePasses
  \/ ReceiveEvent \/ ReloadFile \/ WatchError

Loadable(v) == v \notin Unparsable /\ (validating => v \notin Invalid)

(* Once the file is left alone it is loaded, unless the watch broke or its  *)
(* last change fell into the debounce time after the start, before the      *)
(* first reload: a change that arrives while another is being loaded, or    *)
(* just after, is not lost (start_watching).                                *)
LastEditIsLoaded ==
  \A v \in 1..MaxEdits :
    (file = v /\ watcher = "idle" /\ ~missed /\ Loadable(v))
      ~> \/ config = v \/ file # v \/ watcher = "gone"
         \/ missed /\ counts.total + counts.failed = 0
=============================================================================
