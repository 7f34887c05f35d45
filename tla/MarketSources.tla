--------------------------- MODULE MarketSources ---------------------------
(* backend/application_market: sources.py, catalog.py, source_list, source_sync and
   source_detail of views.py.

   A sync reads the rows of the enabled sources, then takes each in turn: it fetches
   the source's catalogue, keeps it in the row, and stores a definition of every
   application of it; if the fetch fails it uses what the row kept.  A definition
   belongs to a name of a source.  Nothing takes a definition away.  A catalogue is
   the versions of its applications. *)
EXTENDS Naturals

CONSTANTS
    LastSource,      \* bound: sources are 1..LastSource
    LastSync,        \* bound: syncs are 1..LastSync, in the order they come
    MarketApps, BuiltinApps, SourceNames,
    LastPublished    \* bound: versions a source publishes are 1..LastPublished

ASSUME SourcesAssumption == LastSource \in Nat /\ LastSync \in Nat /\ LastPublished \in Nat \ {0} /\ BuiltinApps \subseteq MarketApps

VARIABLES
    sourceRow,     \* ApplicationSource rows
    published,     \* external: the catalogue the address of a source gives
    definition,    \* ApplicationDefinition rows, by name of the source and application; 0: none
    sync,          \* requests of source_sync
    fetched,       \* history: the catalogue that was fetched last, by source
    syncTale       \* history: why definitions may not follow the sources

sourceVars == <<sourceRow, published, definition, sync, fetched, syncTale>>

SourceIds   == 1..LastSource
Syncs       == 1..LastSync
Catalogue   == [MarketApps -> 0..LastPublished]   \* 0: the application is not in it
EmptyCatalogue == [a \in MarketApps |-> 0]
NotRead     == [id |-> 0]
NotSynced   == [pc |-> "new", todo |-> {}, now |-> NotRead, got |-> EmptyCatalogue]

\* What the rows are.
SourceRow   == [name : SourceNames, url : BOOLEAN, enabled : BOOLEAN, cached : Catalogue, error : BOOLEAN]
RowRead     == [id : SourceIds, row : SourceRow]
SyncRow     == [pc : {"new", "fetch", "store", "done"}, todo : SUBSET RowRead, now : RowRead \cup {NotRead},
                got : Catalogue]

SourcesTypeOK ==
    /\ sourceRow \in [SourceIds -> SourceRow]
    /\ published \in [SourceIds -> Catalogue] /\ fetched \in [SourceIds -> Catalogue]
    /\ definition \in [SourceNames \X MarketApps -> 0..LastPublished]
    /\ sync \in [Syncs -> SyncRow]
    /\ syncTale \subseteq {"edited", "overlapped", "renamed", "aborted"}

\* load_catalog: what the server brings along wins, then the definitions in their order.
Offers(a) == IF a \in BuiltinApps THEN {"builtin"} ELSE {n \in SourceNames : definition[n, a] # 0}

SyncGoes(y, q) == sync' = [sync EXCEPT ![y] = q]
AtWork(y) == sync[y].pc \in {"fetch", "store"}
SyncStored(y) == syncTale' = IF \E z \in Syncs \ {y} : AtWork(z) THEN syncTale \cup {"overlapped"} ELSE syncTale
----------------------------------------------------------------------------
(* source_sync *)

\* The rows are read at once.
StartSync(y) ==
    /\ sync[y].pc = "new" /\ \A z \in 1..y - 1 : sync[z].pc # "new"
    /\ LET rows == {[id |-> s, row |-> sourceRow[s]] : s \in {t \in SourceIds : sourceRow[t].enabled}} IN
       SyncGoes(y, [NotSynced EXCEPT !.pc = IF rows = {} THEN "done" ELSE "fetch", !.todo = rows])
    /\ UNCHANGED <<sourceRow, published, definition, fetched, syncTale>>
\* The sources have their turns in the order of their ids.
Turn(y, x) == sync[y].pc = "fetch" /\ x \in sync[y].todo /\ \A z \in sync[y].todo : x.id <= z.id

\* A source without an address ends the request; the sources after it are not reached.
NoAddress(y) ==
    /\ \E x \in sync[y].todo : Turn(y, x) /\ ~x.row.url
    /\ SyncGoes(y, [NotSynced EXCEPT !.pc = "done"]) /\ syncTale' = syncTale \cup {"aborted"}
    /\ UNCHANGED <<sourceRow, published, definition, fetched>>

\* fetch_remote_json and normalize_remote_catalog: a catalogue, or a refusal.
Fetch(y) == \E x \in sync[y].todo :
    /\ Turn(y, x) /\ x.row.url
    /\ sourceRow' = [sourceRow EXCEPT ![x.id].cached = published[x.id], ![x.id].error = FALSE]
    /\ fetched' = [fetched EXCEPT ![x.id] = published[x.id]]
    /\ SyncGoes(y, [sync[y] EXCEPT !.pc = "store", !.todo = @ \ {x}, !.now = x, !.got = published[x.id]])
    /\ SyncStored(y) /\ UNCHANGED <<published, definition>>
\* The address gives nothing that can be used, or does not answer: what the row kept when
\* it was read is used.
FetchFails(y) == \E x \in sync[y].todo :
    /\ Turn(y, x) /\ x.row.url
    /\ sourceRow' = [sourceRow EXCEPT ![x.id].error = TRUE]
    /\ SyncGoes(y, [sync[y] EXCEPT !.pc = "store", !.todo = @ \ {x}, !.now = x, !.got = x.row.cached])
    /\ SyncStored(y) /\ UNCHANGED <<published, definition, fetched>>

\* Mutant: a definition that is there is left as it is.
InsertsOnly(old, new) == IF old # 0 THEN old ELSE new
\* update_or_create, for the applications of the catalogue.
Upserted(old, new) == IF new # 0 THEN new ELSE old

\* upsert_remote_definitions, under the name the source had when it was read.
StoreDefinitions(y) == LET q == sync[y] IN
    /\ q.pc = "store"
    /\ definition' = [d \in SourceNames \X MarketApps |->
                        IF d[1] = q.now.row.name THEN Upserted(definition[d], q.got[d[2]]) ELSE definition[d]]
    /\ SyncGoes(y, [NotSynced EXCEPT !.pc = IF q.todo = {} THEN "done" ELSE "fetch", !.todo = q.todo])
    /\ SyncStored(y) /\ UNCHANGED <<sourceRow, published, fetched>>

\* The process ends, or the database refuses: the rest is not reached.
SyncAborted(y) ==
    /\ AtWork(y) /\ SyncGoes(y, [NotSynced EXCEPT !.pc = "done"]) /\ syncTale' = syncTale \cup {"aborted"}
    /\ UNCHANGED <<sourceRow, published, definition, fetched>>

\* source_detail stores the name, the address and whether the source is used.  Bound: once.
EditSource ==
    /\ "edited" \notin syncTale
    /\ \E s \in SourceIds, n \in SourceNames, u, e \in BOOLEAN :
         /\ <<n, u, e>> # <<sourceRow[s].name, sourceRow[s].url, sourceRow[s].enabled>>
         /\ sourceRow' = [sourceRow EXCEPT ![s].name = n, ![s].url = u, ![s].enabled = e]
         /\ syncTale' = syncTale \cup {"edited"}
                                 \cup (IF n # sourceRow[s].name THEN {"renamed"} ELSE {})
                                 \cup (IF \E y \in Syncs : AtWork(y) THEN {"overlapped"} ELSE {})
    /\ UNCHANGED <<published, definition, sync, fetched>>

\* External: a source publishes newer versions.  Bound: it withdraws none.
Publish ==
    /\ \E s \in SourceIds, a \in MarketApps :
         /\ published[s][a] < LastPublished
         /\ published' = [published EXCEPT ![s][a] = @ + 1]
    /\ UNCHANGED <<sourceRow, definition, sync, fetched, syncTale>>
----------------------------------------------------------------------------
SourcesInit ==
    /\ sourceRow \in [SourceIds -> [name : SourceNames, url : BOOLEAN, enabled : {TRUE}, cached : {EmptyCatalogue},
                                    error : {FALSE}]]
    /\ \A s, t \in SourceIds : s # t => sourceRow[s].name # sourceRow[t].name
    /\ published \in [SourceIds -> Catalogue]
    /\ fetched = [s \in SourceIds |-> EmptyCatalogue]
    /\ definition = [d \in SourceNames \X MarketApps |-> 0]
    /\ sync = [y \in Syncs |-> NotSynced] /\ syncTale = {}

SourcesNext ==
    \/ EditSource \/ Publish
    \/ \E y \in Syncs : \/ StartSync(y) \/ NoAddress(y) \/ Fetch(y) \/ FetchFails(y) \/ StoreDefinitions(y)
                        \/ SyncAborted(y)

SourcesSpec == SourcesInit /\ [][SourcesNext]_sourceVars
----------------------------------------------------------------------------
(* Properties. *)

\* Between syncs, what is on offer under the name of a source is what was fetched from it
\* last, also when a later fetch failed: unless syncs or edits overlapped, one was cut
\* off, or a source took another name, under which nothing is stored yet.
DefinitionsFollow == syncTale \subseteq {"edited"} /\ (\A y \in Syncs : ~AtWork(y)) =>
    \A s \in SourceIds, a \in MarketApps : fetched[s][a] # 0 =>
        /\ definition[sourceRow[s].name, a] = fetched[s][a]
        /\ a \notin BuiltinApps => sourceRow[s].name \in Offers(a)
=============================================================================
