---------------------------- MODULE SettingsSync ----------------------------
(* Runtime settings: edits of the application_settings rows                *)
(* (app/api/settings/v1/{service,query}.py, the page of                    *)
(* ui/pages/settings/runtime.py), and the snapshots that the API, the      *)
(* signal consumer and the daemons keep of them                            *)
(* (common/runtime_settings/cache.py), refreshed at startup and on every   *)
(* event of the fanout exchange (common/messaging/settings_events.py).     *)
(* The API is one of the processes: its own snapshot                       *)
(* (domain.timezone.runtime_settings) is written by its startup and its    *)
(* listener.  Its handlers refresh another cache (service.py:23), which    *)
(* nothing reads and which is left out.                                    *)
EXTENDS Integers, FiniteSets

CONSTANTS
    Key,            \* the catalog
    Value,          \* overrides a row may have; Unset is NULL
    Unset,
    Edit,           \* edits, each made once (bulk_update, update_single, reset_*)
    Process,        \* processes with a snapshot
    API,            \* the one that runs the handlers
    MaxMissed,      \* bound: lost events, failed refreshes, lost connections, restarts
    NoEdit

ASSUME ProcessAssumption == API \in Process /\ Unset \in Value /\ MaxMissed \in Nat

VARIABLES
    table,      \* per key: value, updated_at and (history) the edit that wrote it
    time,       \* datetime.now of the API
    edit,       \* per edit: its page, its handler's locals
    snapshot,   \* per process: the effective values it works with
    listener,   \* per process: "down", "loaded" (no queue yet), "bound", or "apply"
    queue,      \* per process: events it has not taken
    fetched,    \* per process: what its listener has read and not yet applied
    missed,     \* history: processes that did not get an event or its values
    mishaps     \* bound: how much went wrong

settingsVars == <<table, time, edit, snapshot, listener, queue, fetched, missed, mishaps>>

Values(rows) == [k \in Key |-> rows[k].value]
FreshRows == [k \in Key |-> [value |-> Unset, updated |-> 0, by |-> NoEdit]]
NewEdit == [pc |-> "none", keys |-> {}, value |-> Unset, page |-> FreshRows,
            rows |-> FreshRows, stamp |-> 0, open |-> {}]

SettingsInit(running) ==
    /\ table = FreshRows
    /\ time = 0
    /\ edit = [e \in Edit |-> NewEdit]
    /\ snapshot = [p \in Process |-> Values(table)]
    /\ listener = [p \in Process |-> IF p \in running THEN "bound" ELSE "down"]
    /\ queue = [p \in Process |-> 0]
    /\ fetched = [p \in Process |-> Values(table)]
    /\ missed = {}
    /\ mishaps = 0

Mishap == mishaps < MaxMissed /\ mishaps' = mishaps + 1

-----------------------------------------------------------------------------
(* An edit: a page is loaded, and later saved.                             *)

(* Edits that have their stamp and are not committed. *)
Stamped == {e \in Edit : edit[e].pc = "stamped"}

(* GET /settings; what is saved from the page is decided later. *)
LoadPage(e) ==
    /\ edit[e].pc = "none"
    /\ edit' = [edit EXCEPT ![e].pc = "page", ![e].page = table, ![e].open = Stamped]
    /\ UNCHANGED <<table, time, snapshot, listener, queue, fetched, missed, mishaps>>

(* The page guards an edit by the latest time it knows of the rows it      *)
(* writes; check_conflicts looks for a row that is later.                  *)
Latest(rows, keys) == CHOOSE t \in {rows[k].updated : k \in keys} :
                          \A k \in keys : rows[k].updated <= t
NoConflict(rows, keys, expected) == TRUE
Unchanged(rows, keys, expected) == \A k \in keys : rows[k].updated <= expected

(* The handler has read every row, and checked those it will write. *)
Submit(e) ==
    /\ edit[e].pc = "page"
    /\ \E keys \in (SUBSET Key) \ {{}}, v \in Value :
           LET expected == Latest(edit[e].page, keys)
           IN  edit' = [edit EXCEPT ![e] =
                   IF Unchanged(table, keys, expected)
                   THEN [@ EXCEPT !.pc = "checked", !.keys = keys, !.value = v, !.rows = table]
                   ELSE [NewEdit EXCEPT !.pc = "done"]]
    /\ UNCHANGED <<table, time, snapshot, listener, queue, fetched, missed, mishaps>>

(* updated_at is set some time before the commit. *)
Stamp(e) ==
    /\ edit[e].pc = "checked"
    /\ time' = time + 1
    /\ edit' = [edit EXCEPT ![e].pc = "stamped", ![e].stamp = time']
    /\ UNCHANGED <<table, snapshot, listener, queue, fetched, missed, mishaps>>

(* The commit writes updated_at, and a value only where it differs from    *)
(* the one the handler had read.                                           *)
Commit(e) ==
    /\ edit[e].pc = "stamped"
    /\ table' = [k \in Key |->
           IF k \notin edit[e].keys THEN table[k]
           ELSE [value |-> IF edit[e].rows[k].value = edit[e].value
                           THEN table[k].value ELSE edit[e].value,
                 updated |-> edit[e].stamp, by |-> e]]
    /\ edit' = [edit EXCEPT ![e].pc = "committed"]
    /\ UNCHANGED <<time, snapshot, listener, queue, fetched, missed, mishaps>>

(* _publish_changed, best effort: every bound queue gets the event, or     *)
(* none; a process without a queue misses it.                              *)
ToldOthers == {p \in Process \ {API} : listener[p] \in {"bound", "apply"}}
Told == {p \in Process : listener[p] \in {"bound", "apply"}}

PublishChanged(e) ==
    /\ edit[e].pc = "committed"
    /\ \/ /\ queue' = [p \in Process |-> IF p \in Told THEN queue[p] + 1 ELSE 0]
          /\ missed' = missed \cup {p \in Process : listener[p] = "loaded"}
          /\ UNCHANGED mishaps
       \/ Mishap /\ missed' = Process /\ UNCHANGED queue
    /\ edit' = [edit EXCEPT ![e] = [NewEdit EXCEPT !.pc = "done"]]
    /\ UNCHANGED <<table, time, snapshot, listener, fetched>>

-----------------------------------------------------------------------------
(* A process: startup, and its listener.                                   *)

(* The API reads the database, the others ask the API. *)
Reads(p) == p = API \/ listener[API] # "down"

(* The snapshot is loaded first, the queue is declared and bound later. *)
Load(p) ==
    /\ listener[p] = "down" /\ Reads(p)
    /\ snapshot' = [snapshot EXCEPT ![p] = Values(table)]
    /\ listener' = [listener EXCEPT ![p] = "loaded"]
    /\ missed' = missed \ {p}
    /\ UNCHANGED <<table, time, edit, queue, fetched, mishaps>>

(* The API goes on with the defaults if its read fails; the others end.    *)
LoadDefaults ==
    /\ listener[API] = "down"
    /\ Mishap
    /\ snapshot' = [snapshot EXCEPT ![API] = Values(FreshRows)]
    /\ listener' = [listener EXCEPT ![API] = "loaded"]
    /\ missed' = missed \cup {API}
    /\ UNCHANGED <<table, time, edit, queue, fetched>>

BindQueue(p) ==
    /\ listener[p] = "loaded"
    /\ listener' = [listener EXCEPT ![p] = "bound"]
    /\ UNCHANGED <<table, time, edit, snapshot, queue, fetched, missed, mishaps>>

(* One event at a time: the rows are read, over the API or from the        *)
(* database, or the attempt fails and the old values stay.                 *)
TakeEvent(p) ==
    /\ listener[p] = "bound" /\ queue[p] > 0
    /\ queue' = [queue EXCEPT ![p] = @ - 1]
    /\ \/ /\ Reads(p)
          /\ fetched' = [fetched EXCEPT ![p] = Values(table)]
          /\ listener' = [listener EXCEPT ![p] = "apply"]
          /\ UNCHANGED <<missed, mishaps>>
       \/ /\ Mishap \/ (~Reads(p) /\ UNCHANGED mishaps)
          /\ missed' = missed \cup {p}
          /\ UNCHANGED <<fetched, listener>>
    /\ UNCHANGED <<table, time, edit, snapshot>>

Apply(p) ==
    /\ listener[p] = "apply"
    /\ snapshot' = [snapshot EXCEPT ![p] = fetched[p]]
    /\ listener' = [listener EXCEPT ![p] = "bound"]
    /\ UNCHANGED <<table, time, edit, queue, fetched, missed, mishaps>>

(* The connection breaks: the exclusive queue is gone, and declared anew   *)
(* without what it held.                                                   *)
LoseConnection(p) ==
    /\ listener[p] \in {"bound", "apply"}
    /\ Mishap
    /\ queue' = [queue EXCEPT ![p] = 0]
    /\ listener' = [listener EXCEPT ![p] = "loaded"]
    /\ missed' = missed \cup {p}
    /\ UNCHANGED <<table, time, edit, snapshot, fetched>>

(* A process stops.  The API takes its handlers with it: a committed edit  *)
(* of theirs is announced to nobody.                                       *)
Stop(p) ==
    /\ listener[p] # "down"
    /\ Mishap
    /\ listener' = [listener EXCEPT ![p] = "down"]
    /\ queue' = [queue EXCEPT ![p] = 0]
    /\ LET cut == {e \in Edit : p = API /\ edit[e].pc \notin {"none", "page", "done"}}
       IN  /\ edit' = [e \in Edit |-> IF e \in cut THEN [NewEdit EXCEPT !.pc = "done"] ELSE edit[e]]
           /\ missed' = IF \E e \in cut : edit[e].pc = "committed"
                        THEN Process ELSE missed
    /\ UNCHANGED <<table, time, snapshot, fetched>>

Handle(e) == Stamp(e) \/ Commit(e) \/ PublishChanged(e)

SettingsNext ==
    \/ \E e \in Edit : LoadPage(e)
    \/ listener[API] # "down" /\ \E e \in Edit : Submit(e) \/ Handle(e)
    \/ \E p \in Process :
           Load(p) \/ BindQueue(p) \/ TakeEvent(p) \/ Apply(p) \/ LoseConnection(p) \/ Stop(p)
    \/ LoadDefaults

(* Whichever processes run at first. *)
SettingsSpec ==
    /\ \E running \in SUBSET Process : SettingsInit(running)
    /\ [][SettingsNext]_settingsVars

-----------------------------------------------------------------------------
(* When no edit is under way and no event is on its way, every running     *)
(* process that missed none works with the values of the table, although   *)
(* startup loads and events overlap with the edits and each process reads  *)
(* at a time of its own (api_main.py:43-76, daemon_common.py:112-130,      *)
(* settings_events.py:143-164).                                            *)
QuietSnapshotsAreCurrent ==
    /\ \A e \in Edit : edit[e].pc \in {"none", "page", "done"}
    /\ \A p \in Process : queue[p] = 0 /\ listener[p] # "apply"
    => \A p \in Process \ missed : listener[p] # "down" => snapshot[p] = Values(table)

(* service.py:46-49: when the event could not be published, "settings are  *)
(* still saved and applied locally".  The API works with a snapshot only   *)
(* its listener refreshes, on the event nobody gets.                       *)
SavedIsAppliedLocally ==
    /\ \A e \in Edit : edit[e].pc \in {"none", "page", "done"}
    /\ queue[API] = 0 /\ listener[API] = "bound"
    => snapshot[API] = Values(table)

(* An edit that passed the check writes over no change its page had not    *)
(* seen, except one whose time was taken before the page was loaded and    *)
(* whose commit came after, or one that is committed between the check and *)
(* the write (query.py:19-49).                                             *)
StaleEditsAreRefused ==
    \A e \in Edit : edit[e].pc \in {"checked", "stamped"} =>
        \A k \in edit[e].keys :
            \/ edit[e].rows[k].by = edit[e].page[k].by
            \/ edit[e].rows[k].by \in edit[e].open
=============================================================================
