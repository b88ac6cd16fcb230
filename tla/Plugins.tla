------------------------------ MODULE Plugins -------------------------------
(***************************************************************************)
(* Extensions of the shim.  shim-core/wasm instantiates a module once and  *)
(* runs it again and again in the same store: the memory, the log and the  *)
(* metrics of one run are there in the next, only the fuel is new.         *)
(* shim-plugin loads the shared libraries of a directory; a library loaded *)
(* twice is one library with two handles.                                  *)
(***************************************************************************)
EXTENDS Naturals, Sequences, FiniteSets

CONSTANTS
  MaxPages,             \* max_memory_pages
  FirstPages,           \* pages the module starts with
  ConfigKey,            \* keys config_get knows
  MaxLogged,            \* bound: lines logged
  Library, Broken,      \* shared libraries, and those that fail to load
  MaxScans              \* bound: calls of load_all

ASSUME PluginAssumption ==
  MaxPages \in Nat /\ FirstPages \in 1..MaxPages /\ Broken \subseteq Library

VARIABLES
  running,              \* the store's lock is held by a run
  pages,                \* of the linear memory
  handedOut,            \* values config_get has returned: [key, page]
  memory,               \* page -> the key whose value was last written at its end
  log_buffer,           \* lines logged
  runResult,            \* of the last run
  loadedPlugins,        \* sequence of [library, stage]
  libraryInits,         \* library -> times its init was called
  scans

wasmVars == <<running, pages, handedOut, memory, log_buffer, runResult>>
loaderVars == <<loadedPlugins, libraryInits, scans>>
pluginVars == <<wasmVars, loaderVars>>

PluginInit ==
  /\ running = FALSE /\ pages = FirstPages /\ handedOut = {} /\ log_buffer = 0
  /\ memory = [p \in 1..MaxPages |-> "guest"] /\ runResult = "none"
  /\ loadedPlugins = <<>> /\ libraryInits = [l \in Library |-> 0] /\ scans = 0

-----------------------------------------------------------------------------
(* run() holds the store for the whole call and sets the fuel anew. *)
RunBegins ==
  /\ ~running /\ running' = TRUE
  /\ UNCHANGED <<pages, handedOut, memory, log_buffer, runResult, loaderVars>>

HostLog ==
  /\ running /\ log_buffer < MaxLogged /\ log_buffer' = log_buffer + 1
  /\ UNCHANGED <<running, pages, handedOut, memory, runResult, loaderVars>>

Written(page, key) ==
  /\ memory' = [memory EXCEPT ![page] = key]
  /\ handedOut' = handedOut \cup {[key |-> key, page |-> page]}

(* The value goes to the end of the memory, which is grown by a page for   *)
(* every value; past the limit the call returns -1.                        *)
HostConfigGet(key) ==
  /\ running
  /\ IF pages < MaxPages
     THEN pages' = pages + 1 /\ Written(pages + 1, key)
     ELSE UNCHANGED <<pages, memory, handedOut>>
  /\ UNCHANGED <<running, log_buffer, runResult, loaderVars>>

(* It returns, or traps: out of fuel, or otherwise.  The result carries    *)
(* everything logged so far, earlier runs included.                        *)
RunEnds ==
  /\ running /\ running' = FALSE
  /\ runResult' \in {"returned", "trapped"}
  /\ UNCHANGED <<pages, handedOut, memory, log_buffer, loaderVars>>

WasmNext ==
  \/ RunBegins \/ HostLog \/ RunEnds \/ \E k \in ConfigKey : HostConfigGet(k)

-----------------------------------------------------------------------------
(* Libraries that fail are skipped; a second scan loads all of them again. *)
LoadAll ==
  /\ scans < MaxScans /\ scans' = scans + 1
  /\ \E order \in [1..Cardinality(Library \ Broken) -> Library \ Broken] :
       /\ \A l \in Library \ Broken : \E i \in DOMAIN order : order[i] = l
       /\ loadedPlugins' = loadedPlugins \o
            [i \in DOMAIN order |-> [library |-> order[i], stage |-> "loaded"]]
  /\ UNCHANGED <<wasmVars, libraryInits>>

(* init, start and stop call the library, which may report a failure. *)
CallPlugin(i, from, to) ==
  /\ loadedPlugins[i].stage = from
  /\ loadedPlugins' \in {[loadedPlugins EXCEPT ![i].stage = s] : s \in {from, to}}
  /\ libraryInits' = IF to = "initialized"
                     THEN [libraryInits EXCEPT ![loadedPlugins[i].library] =
                             IF @ < 3 THEN @ + 1 ELSE @]
                     ELSE libraryInits
  /\ UNCHANGED <<wasmVars, scans>>

PluginInitCall(i) == CallPlugin(i, "loaded", "initialized")
PluginStart(i) == CallPlugin(i, "initialized", "started")
PluginStop(i) == CallPlugin(i, "started", "stopped")

LoaderNext ==
  \/ LoadAll
  \/ \E i \in DOMAIN loadedPlugins : PluginInitCall(i) \/ PluginStart(i) \/ PluginStop(i)

-----------------------------------------------------------------------------
(* What config_get has handed out stays in place: a later value, of the    *)
(* same run or of another one, does not overwrite it (config_get in        *)
(* define_host_imports, run).                                              *)
HandedOutValuesStay == \A v \in handedOut : memory[v.page] = v.key
=============================================================================
