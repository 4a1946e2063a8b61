------------------------------ MODULE ModelList ------------------------------
(***************************************************************************)
(* The model list of a gateway group: the page's draft of it (with models  *)
(* typed in by hand), the synchronisation with the channels, the one with  *)
(* the official catalog, and saving.  Each is a request that rewrites the  *)
(* whole list of the group's row, the synchronisations after a slow look   *)
(* at other servers that follows their reading of the row.                 *)
(*                                                                         *)
(* Of an entry its source is kept, not its routes.  The row is the one of  *)
(* the selected group; switching groups is GroupDetail's.                  *)
(***************************************************************************)
EXTENDS Naturals, FiniteSets

CONSTANTS
    Models, Blank,   \* ids of models; an empty input field
    Upstream,        \* sets of models that the channels may list
    Catalog,         \* models of the official catalog
    MaxCalls, MaxClicks

VARIABLES
    row, rowMode,    \* models_json and models_mode of the group
    items, mode,     \* modelItems and modelsMode of the page
    typed,           \* customModel, the input field
    busy,
    dialog,          \* the catalog dialog: open, applying, models chosen
    calls, clicks

vars == <<row, rowMode, items, mode, typed, busy, dialog, calls, clicks>>

\* The source of a model's entry, "no" for none.
List == [Models -> {"no", "sync", "custom", "catalog"}]
In(list) == {m \in Models : list[m] # "no"}
Custom(list) == {m \in Models : list[m] = "custom"}
ModeNames == {"auto", "manual", "hybrid"}

\* had: the custom models of the page at the click; models: what was sent with
\* it; pending: was something in the field? list, mode: the draft that is saved,
\* then what was read, then the answer.
Call(op, had, models, list, md) ==
    [op |-> op, had |-> had, models |-> models, pending |-> typed # Blank, list |-> list,
     mode |-> md, state |-> "sent"]

TypeOK ==
    /\ row \in List /\ items \in List
    /\ rowMode \in ModeNames /\ mode \in ModeNames
    /\ typed \in Models \cup {Blank} /\ busy \in BOOLEAN
    /\ dialog \in [open : BOOLEAN, applying : BOOLEAN, chosen : SUBSET Catalog]
    /\ \A c \in calls : c.list \in List /\ c.state \in {"sent", "read", "done"}
    /\ clicks \in 0..MaxClicks

\* A group whose list was saved before.
Init ==
    /\ row \in List /\ (\A m \in Models : row[m] = "catalog" => m \in Catalog)
    /\ rowMode \in ModeNames
    /\ items = row /\ mode = rowMode
    /\ typed = Blank /\ busy = FALSE
    /\ dialog = [open |-> FALSE, applying |-> FALSE, chosen |-> {}]
    /\ calls = {} /\ clicks = 0

-----------------------------------------------------------------------------
(* The panel *)

Click == clicks < MaxClicks /\ clicks' = clicks + 1 /\ UNCHANGED <<row, rowMode>>
Room == Cardinality(calls) < MaxCalls

TypeCustomModel ==
    /\ ~dialog.open
    /\ \E m \in Models : typed' = m
    /\ UNCHANGED <<row, rowMode, items, mode, busy, dialog, calls, clicks>>

AddCustomModel ==
    /\ Click /\ ~dialog.open
    /\ typed # Blank /\ items[typed] = "no"
    /\ items' = [items EXCEPT ![typed] = "custom"]
    /\ typed' = Blank
    /\ UNCHANGED <<mode, busy, dialog, calls>>

DeleteModel(m) ==
    /\ Click /\ ~dialog.open
    /\ items[m] # "no" /\ items' = [items EXCEPT ![m] = "no"]
    /\ UNCHANGED <<mode, typed, busy, dialog, calls>>

ChooseMode(md) ==
    /\ Click /\ ~dialog.open
    /\ md # mode /\ mode' = md
    /\ UNCHANGED <<items, typed, busy, dialog, calls>>

\* Variant: only custom models that the row has already.
LocalCustom_SavedOnly == Custom(items) \cap Custom(row)

\* The custom models of the draft, and the one that is still in the field.
LocalCustom == Custom(items) \cup (IF typed # Blank /\ items[typed] = "no" THEN {typed} ELSE {})

SyncModels ==
    /\ Click /\ ~dialog.open /\ ~busy /\ Room
    /\ busy' = TRUE
    /\ calls' = calls \cup {Call("sync", Custom(items), LocalCustom, items, mode)}
    /\ UNCHANGED <<items, mode, typed, dialog>>

SaveConfig ==
    /\ Click /\ ~dialog.open /\ ~busy /\ Room
    /\ busy' = TRUE
    /\ calls' = calls \cup {Call("save", {}, {}, items, mode)}
    /\ UNCHANGED <<items, mode, typed, dialog>>

-----------------------------------------------------------------------------
(* The catalog dialog *)

\* Nothing is chosen when it opens; its list arrives in the course of it.
OpenCatalog ==
    /\ Click /\ ~dialog.open /\ ~busy
    /\ dialog' = [dialog EXCEPT !.open = TRUE, !.chosen = {}]
    /\ UNCHANGED <<items, mode, typed, busy, calls>>

\* One box, a whole vendor, all that the search shows, or none.
ChooseModels ==
    /\ dialog.open
    /\ \E chosen \in SUBSET Catalog : dialog' = [dialog EXCEPT !.chosen = chosen]
    /\ UNCHANGED <<row, rowMode, items, mode, typed, busy, calls, clicks>>

\* Escape closes it, also while it is applying.
CloseCatalog ==
    /\ dialog.open /\ dialog' = [dialog EXCEPT !.open = FALSE]
    /\ UNCHANGED <<row, rowMode, items, mode, typed, busy, calls, clicks>>

ApplyCatalog ==
    /\ Click /\ dialog.open /\ ~dialog.applying /\ dialog.chosen # {} /\ Room
    /\ dialog' = [dialog EXCEPT !.applying = TRUE]
    /\ calls' = calls \cup {Call("catalog", {}, dialog.chosen, items, mode)}
    /\ UNCHANGED <<items, mode, typed, busy>>

-----------------------------------------------------------------------------
(* The gateway *)

\* The row is read; the channels or the catalog are asked next.
ReadRow(c) ==
    /\ c \in calls /\ c.state = "sent"
    /\ calls' = (calls \ {c}) \cup
         {[c EXCEPT !.state = "read", !.list = IF c.op = "save" THEN @ ELSE row,
                    !.mode = IF c.op = "save" THEN @ ELSE rowMode]}
    /\ UNCHANGED <<row, rowMode, items, mode, typed, busy, dialog, clicks>>

\* SyncGroupModels: what the channels list, and the custom models of the row and
\* of the page.  Entries of the catalog are not kept.
Synced(c, up) ==
    [m \in Models |-> IF m \in up THEN "sync"
                      ELSE IF m \in Custom(c.list) \cup c.models THEN "custom" ELSE "no"]

\* mergeCatalogModels: the chosen entries replace those of any other source.
Merged(c) == [m \in Models |-> IF m \in c.models THEN "catalog" ELSE c.list[m]]

\* The whole row is written, as it was read, with the new list.
WriteRow(c) ==
    /\ c \in calls /\ c.state = "read"
    /\ \/ /\ c.op = "sync" /\ \E up \in Upstream : row' = Synced(c, up)
          /\ rowMode' = c.mode
       \/ /\ c.op = "catalog" /\ row' = Merged(c)
          /\ rowMode' = IF c.mode = "auto" THEN "hybrid" ELSE c.mode
       \/ c.op = "save" /\ row' = c.list /\ rowMode' = c.mode
    /\ calls' = (calls \ {c}) \cup {[c EXCEPT !.state = "done", !.list = row', !.mode = rowMode']}
    /\ UNCHANGED <<items, mode, typed, busy, dialog, clicks>>

-----------------------------------------------------------------------------
(* Answers *)

\* What the page sent and the answer lacks is put back in; the field is emptied
\* only if something was in it at the click.
SyncAnswered(c) ==
    /\ c.op = "sync"
    /\ items' = [m \in Models |-> IF c.list[m] = "no" /\ m \in c.models THEN "custom" ELSE c.list[m]]
    /\ typed' = IF c.pending THEN Blank ELSE typed
    /\ busy' = FALSE
    /\ UNCHANGED <<mode, dialog>>

\* Draft and mode are replaced, whatever was edited in the meantime.
CatalogAnswered(c) ==
    /\ c.op = "catalog"
    /\ items' = c.list /\ mode' = c.mode
    /\ dialog' = [dialog EXCEPT !.open = FALSE, !.applying = FALSE]
    /\ UNCHANGED <<typed, busy>>

SaveAnswered(c) ==
    /\ c.op = "save" /\ busy' = FALSE
    /\ UNCHANGED <<items, mode, typed, dialog>>

Answered(c) ==
    /\ c \in calls /\ c.state = "done"
    /\ SyncAnswered(c) \/ CatalogAnswered(c) \/ SaveAnswered(c)
    /\ calls' = calls \ {c}
    /\ UNCHANGED <<row, rowMode, clicks>>

\* Variant: a failed call leaves the buttons disabled.
Failed_KeepsBusy(c) ==
    /\ c \in calls /\ calls' = calls \ {c}
    /\ dialog' = IF c.op = "catalog" THEN [dialog EXCEPT !.applying = FALSE] ELSE dialog
    /\ UNCHANGED <<row, rowMode, items, mode, typed, busy, clicks>>

Failed(c) ==
    /\ c \in calls /\ calls' = calls \ {c}
    /\ busy' = (busy /\ c.op = "catalog")
    /\ dialog' = IF c.op = "catalog" THEN [dialog EXCEPT !.applying = FALSE] ELSE dialog
    /\ UNCHANGED <<row, rowMode, items, mode, typed, clicks>>

Next ==
    \/ TypeCustomModel \/ AddCustomModel \/ SyncModels \/ SaveConfig
    \/ \E m \in Models : DeleteModel(m)
    \/ \E md \in ModeNames : ChooseMode(md)
    \/ OpenCatalog \/ ChooseModels \/ CloseCatalog \/ ApplyCatalog
    \/ \E c \in calls : ReadRow(c) \/ WriteRow(c) \/ Answered(c) \/ Failed(c)

Spec == Init /\ [][Next]_vars

-----------------------------------------------------------------------------
(* Properties *)

\* What syncModels says of itself: a custom model that was not saved yet is not
\* lost by the synchronisation, whatever the channels list and the catalog or
\* another request does to the row in the meantime.
SyncStep ==
    \A c \in calls : (c.op = "sync" /\ c.state = "done" /\ c \notin calls' /\ items' # items)
                        => c.had \subseteq In(items')

\* Nor does the synchronisation take from the row a custom model that any path had
\* stored when it read the row, or one of the page: it writes them all.
StoredStep ==
    \A c \in calls : (c.op = "sync" /\ c.state = "read" /\ c \notin calls' /\ row' # row)
                        => Custom(c.list) \cup c.had \subseteq In(row')
CustomSurvivesSync == [][SyncStep /\ StoredStep]_vars

\* The buttons come back: busy is on exactly while a synchronisation with the
\* channels or a save is under way, and there is one of these at most.
BusyIsExact ==
    LET holding == {c \in calls : c.op # "catalog"} IN
    Cardinality(holding) <= 1 /\ (busy <=> holding # {})

-----------------------------------------------------------------------------
\* What carries them from step to step: what is sent with a synchronisation holds the
\* custom models of its click, and whatever holds the buttons is alone.
IsCall(c) == c \in [op : {c.op}, had : {c.had}, models : {c.models}, pending : {c.pending},
                   list : {c.list}, mode : {c.mode}, state : {c.state}]
Holds(c) == c.op # "catalog"
ListInv ==
    /\ \A c \in calls : IsCall(c) /\ c.had \subseteq Models /\ c.had \subseteq c.models
    /\ \A c, d \in calls : Holds(c) /\ Holds(d) => c = d
    /\ busy \in BOOLEAN /\ (busy <=> \E c \in calls : Holds(c))
=============================================================================
