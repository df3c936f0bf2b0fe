----------------------------- MODULE GraphThemes -----------------------------
(* The graph_themes table and the handlers that write it                   *)
(* (app/api/graph_themes/v1/{service,query}.py, domain/graph_theme.py):    *)
(* named themes, each over one of two base modes, one of them the default  *)
(* of its mode.  A handler is a transaction at READ COMMITTED: it reads    *)
(* rows, decides, and writes those columns that differ from what it read,  *)
(* by id; a written row is locked until the end.  The partial unique index *)
(* on the defaults and the unique names of the first migration are gone    *)
(* since e636212b35b4.                                                     *)
(*                                                                         *)
(* A document gives values to fields; colours, shapes and sizes of nodes,  *)
(* edges and labels are all fields.                                        *)
EXTENDS Integers, FiniteSets, TLC

CONSTANTS
    Theme,      \* ids
    Builtin,    \* the seeded defaults of the modes (the two examples are left out)
    Mode,       \* VALID_BASE_THEMES
    ModeOf,     \* ModeOf[t]: the mode of builtin t
    Field,
    Token,
    Palette,    \* Palette[m][f]: the token of the mode
    Absent,     \* a field a document does not mention
    Admin,      \* calls that may run at once
    NoTheme, NoMode

ASSUME ThemesAreSeeded ==
    /\ Builtin \subseteq Theme /\ ModeOf \in [Builtin -> Mode]
    /\ \A m \in Mode : \E t \in Builtin : \A u \in Builtin : ModeOf[u] = m <=> u = t
    /\ Palette \in [Mode -> [Field -> Token]]
    /\ Absent \notin Token /\ NoTheme \notin Theme /\ NoMode \notin Mode

VARIABLES
    themes,     \* the rows, as committed
    admin,      \* per call: where it is, what it has read and written
    chosen,     \* history: what the user asked of a theme
    stale       \* history: a call was committed although another one had
                \* changed themes of its mode since it began

themeVars == <<themes, admin, chosen, stale>>

Doc == [Field -> Token \cup {Absent}]
Sparse == [f \in Field |-> Absent]
NoTheRow == [here |-> FALSE, mode |-> NoMode, default |-> FALSE, doc |-> Sparse]
NoAdmin == [pc |-> "idle", on |-> NoTheme, read |-> NoTheRow, old |-> NoTheme,
            rows |-> << >>, wish |-> Sparse, asked |-> FALSE, clean |-> TRUE]

ThemesInit ==
    /\ themes = [t \in Theme |->
           IF t \in Builtin
           THEN [here |-> TRUE, mode |-> ModeOf[t], default |-> TRUE, doc |-> Sparse]
           ELSE NoTheRow]
    /\ admin = [a \in Admin |-> NoAdmin]
    /\ chosen = [t \in Theme |-> Sparse]
    /\ stale = FALSE

-----------------------------------------------------------------------------
(* Documents.                                                              *)

(* effective_semantic_theme: the document over the palette of its mode. *)
Effective(mode, doc) ==
    [f \in Field |-> IF doc[f] = Absent THEN Palette[mode][f] ELSE doc[f]]

(* _snapshot_delta: the fields that differ from the palette. *)
Delta(mode, doc) ==
    [f \in Field |-> IF doc[f] = Palette[mode][f] THEN Absent ELSE doc[f]]

(* update_theme: the document after the change of mode, then after the new *)
(* overrides, if there are any.                                            *)
RebasedVerbatim(from, to, doc) == IF from = to THEN doc ELSE Effective(to, doc)
Rebased(from, to, doc) == IF from = to THEN doc ELSE Effective(to, Delta(from, doc))

-----------------------------------------------------------------------------
(* Transactions.                                                           *)

Changes(a) == DOMAIN admin[a].rows
Free(a, t) == \A b \in Admin \ {a} : t \notin Changes(b)
Run(a, call) == admin' = [admin EXCEPT ![a] = call]
At(a, pc) == admin[a].pc = pc

(* An UPDATE or DELETE by id waits for the lock; the row it finds is the   *)
(* latest committed one, of which it changes some columns.                 *)
Writes(a, t, row, pc) ==
    /\ Free(a, t) /\ themes[t].here
    /\ Run(a, [admin[a] EXCEPT !.pc = pc,
                   !.rows = [u \in Changes(a) \cup {t} |-> IF u = t THEN row ELSE @[u]]])
    /\ UNCHANGED <<themes, chosen, stale>>

(* The modes a call reads or writes. *)
ModesOf(call) ==
    ({call.read.mode} \cup {call.rows[t].mode : t \in DOMAIN call.rows}) \ {NoMode}

CommitTheme(a) ==
    /\ At(a, "commit")
    /\ LET call == admin[a]
           Near(b) == admin[b].pc # "idle" /\ ModesOf(admin[b]) \cap ModesOf(call) # {}
       IN  /\ themes' = [t \in Theme |-> IF t \in Changes(a) THEN call.rows[t] ELSE themes[t]]
           /\ chosen' = IF call.asked THEN [chosen EXCEPT ![call.on] = call.wish] ELSE chosen
           /\ stale' = (stale \/ ~call.clean)
           /\ admin' = [b \in Admin |->
                  IF b = a THEN NoAdmin
                  ELSE IF Near(b) THEN [admin[b] EXCEPT !.clean = FALSE] ELSE admin[b]]

(* A call fails: the victim of a deadlock, a row that is gone, a timeout.  *)
FailTheme(a) ==
    /\ ~At(a, "idle")
    /\ Run(a, NoAdmin)
    /\ UNCHANGED <<themes, chosen, stale>>

-----------------------------------------------------------------------------
(* The handlers.                                                           *)

Unused(t) ==
    /\ t \notin Builtin /\ ~themes[t].here
    /\ \A b \in Admin : admin[b].on # t /\ t \notin Changes(b)

(* create_theme and clone_theme: a full snapshot, never a default.         *)
Insert(a, t, mode, doc, wish) ==
    LET row == [here |-> TRUE, mode |-> mode, default |-> FALSE, doc |-> Effective(mode, doc)]
    IN  /\ At(a, "idle") /\ Unused(t)
        /\ Run(a, [NoAdmin EXCEPT !.pc = "commit", !.on = t, !.rows = [u \in {t} |-> row],
                                   !.wish = wish, !.asked = TRUE])
        /\ UNCHANGED <<themes, chosen, stale>>

Create(a, t, mode, doc) == Insert(a, t, mode, doc, doc)
Clone(a, t, source) ==
    themes[source].here /\ Insert(a, t, themes[source].mode, themes[source].doc, chosen[source])

(* get_theme, and the checks on what it found. *)
LoadTheme(a, t, pc) ==
    /\ At(a, "idle") /\ themes[t].here
    /\ Run(a, [NoAdmin EXCEPT !.pc = pc, !.on = t, !.read = themes[t]])
    /\ UNCHANGED <<themes, chosen, stale>>

StartUpdate(a, t) == t \notin Builtin /\ LoadTheme(a, t, "update")
StartDelete(a, t) == t \notin Builtin /\ ~themes[t].default /\ LoadTheme(a, t, "delete")
StartDefault(a, t) == LoadTheme(a, t, "find")

(* Only the default of its mode may not leave it.                          *)
MayLeaveAlways(row, to) == TRUE
MayLeave(row, to) == to = row.mode \/ ~row.default

(* update_theme with a mode, overrides, or both. *)
Update(a, to, doc, given) ==
    /\ At(a, "update")
    /\ LET call == admin[a]
           moved == to # call.read.mode
           new == IF given THEN Effective(to, doc) ELSE Rebased(call.read.mode, to, call.read.doc)
           now == themes[call.on]
           row == [now EXCEPT !.mode = IF moved THEN to ELSE @,
                              !.doc = IF new # call.read.doc THEN new ELSE @]
       IN  /\ MayLeave(call.read, to)
           /\ Free(a, call.on) /\ now.here
           /\ Run(a, [call EXCEPT !.pc = "commit", !.rows = [t \in {call.on} |-> row],
                                  !.wish = doc, !.asked = given])
    /\ UNCHANGED <<themes, chosen, stale>>

Delete(a) ==
    /\ At(a, "delete")
    /\ Writes(a, admin[a].on, NoTheRow, "commit")

(* set_default: the default of the mode, which must not be two; it is      *)
(* cleared, and flushed; then the theme becomes the default, unless it was *)
(* that already when it was loaded.                                        *)
DefaultsOf(mode) == {t \in Theme : themes[t].here /\ themes[t].mode = mode /\ themes[t].default}

FindDefault(a) ==
    /\ At(a, "find")
    /\ LET found == DefaultsOf(admin[a].read.mode)
       IN  /\ Cardinality(found) <= 1
           /\ Run(a, [admin[a] EXCEPT !.pc = IF found \subseteq {admin[a].on} THEN "set" ELSE "clear",
                                      !.old = IF found = {} THEN NoTheme ELSE CHOOSE t \in found : TRUE])
    /\ UNCHANGED <<themes, chosen, stale>>

ClearDefault(a) ==
    /\ At(a, "clear")
    /\ LET old == admin[a].old IN Writes(a, old, [themes[old] EXCEPT !.default = FALSE], "set")

SetDefault(a) ==
    /\ At(a, "set")
    /\ LET t == admin[a].on
       IN  IF admin[a].read.default
           THEN /\ Run(a, [admin[a] EXCEPT !.pc = "commit"])
                /\ UNCHANGED <<themes, chosen, stale>>
           ELSE Writes(a, t, [themes[t] EXCEPT !.default = TRUE], "commit")

ThemesNext ==
    \E a \in Admin :
        \/ CommitTheme(a) \/ FailTheme(a)
        \/ \E t \in Theme :
               \/ StartUpdate(a, t) \/ StartDelete(a, t) \/ StartDefault(a, t)
               \/ \E m \in Mode, d \in Doc : Create(a, t, m, d)
               \/ \E s \in Theme : Clone(a, t, s)
        \/ \E m \in Mode, d \in Doc, given \in BOOLEAN : Update(a, m, d, given)
        \/ Delete(a) \/ FindDefault(a) \/ ClearDefault(a) \/ SetDefault(a)

ThemesSpec == ThemesInit /\ [][ThemesNext]_themeVars

-----------------------------------------------------------------------------
(* As long as no call writes on the strength of rows another call has      *)
(* changed meanwhile, every mode has exactly one default: it can neither   *)
(* be deleted nor taken to the other mode (service.py:73-79, 221-225,      *)
(* 261-263, 307-314).                                                      *)
EveryModeHasItsDefault == ~stale => \A m \in Mode : Cardinality(DefaultsOf(m)) = 1

(* And every user theme shows what was asked of it, and the palette of its *)
(* mode everywhere else, through creation, cloning, edits and changes of   *)
(* mode, although only the snapshot is stored.  What was asked for may be  *)
(* taken for the palette's if it is a value of some palette                *)
(* (service.py:87-152, 227-242).                                           *)
ThemesShowWhatWasAsked ==
    ~stale => \A t \in Theme \ Builtin : themes[t].here =>
        LET mode == themes[t].mode
            look == Effective(mode, themes[t].doc)
        IN  \A f \in Field :
                \/ look[f] = chosen[t][f]
                \/ /\ look[f] = Palette[mode][f]
                   /\ chosen[t][f] \in {Absent} \cup {Palette[m][f] : m \in Mode}

(* query.py:40-41: "The partial unique index on (base_theme) WHERE         *)
(* is_default guarantees at most one row for any given base mode."  With   *)
(* two of them, scalar_one_or_none raises in every later set_default and   *)
(* get_effective_theme of the mode.                                        *)
OneDefault == \A m \in Mode : Cardinality(DefaultsOf(m)) <= 1
=============================================================================
