------------------------- MODULE ConnectionCatalog -------------------------
(* backend/database_management: catalog.py, application_keys.py, credentials.py,
   DatabaseAssetSerializer, assets and asset_detail of views.py, the command
   clear_database_connections.

   Directories form a tree that holds connection assets; an asset may refer to an
   application key, which gives its user and password.  Nothing in the database
   keeps the tree a tree or the names of a directory distinct: a request looks,
   then stores, and another may store in between.  Rows are stored whole by
   asset_detail, by named columns elsewhere.  Foreign keys are kept by the
   database.  Names are members of a small set; other columns are left out. *)
EXTENDS Naturals, Functions

CONSTANTS
    Folders, CatalogAssets,   \* bound: ids of directories and assets
    LastLook,                 \* bound: requests are 1..LastLook, in the order they come
    ItemNames,
    Root, NoItem

ASSUME CatalogAssumption ==
    /\ LastLook \in Nat /\ ItemNames # {}
    /\ Root \notin Folders /\ NoItem \notin Folders \cup CatalogAssets

VARIABLES
    folder,     \* AssetDirectory rows
    asset,      \* DatabaseAsset rows
    appKey,     \* the ApplicationKey row: "named" (has a user), "nameless", "deleted"
    asked,      \* requests: what was asked, what was read
    raced,      \* history: pairs of kinds of which one stored after the other had looked
    padded      \* history: an import brought a name with blanks around it

catalogVars == <<folder, asset, appKey, asked, raced, padded>>

CatalogRequests == 1..LastLook
Places    == Folders \cup {Root}
RowIs     == {"free", "live", "deleted"}
FolderRow == [is : RowIs, name : ItemNames, parent : Places]
AssetRow  == [is : RowIs, name : ItemNames, at : Places, keyed : BOOLEAN, redis : BOOLEAN]
FolderKinds == {"newFolder", "moveFolder", "deleteFolder", "copyFolder"}
AssetKinds  == {"newAsset", "editAsset", "moveAsset", "copyAsset", "deleteAsset", "clear"}
OtherKinds  == {"import", "editKey", "deleteKey"}

LiveFolders == {f \in Folders : folder[f].is = "live"}
LiveAssets  == {a \in CatalogAssets : asset[a].is = "live"}
Live(p) == p = Root \/ p \in LiveFolders
FreeFolders == {f \in Folders : folder[f].is = "free"}
FreeAssets  == {a \in CatalogAssets : asset[a].is = "free"}
NewFolderId == CHOOSE f \in FreeFolders : TRUE
NewAssetId  == CHOOSE a \in FreeAssets : TRUE

\* descendants: the directory and all that is below it.
Closed(S) == \A f \in LiveFolders : folder[f].parent \in S => f \in S
Under(f)  == {g \in LiveFolders \cup {f} : \A S \in SUBSET Folders : f \in S /\ Closed(S) => g \in S}
OnCycle(f) == f \in LiveFolders /\ folder[f].parent \in Under(f)

\* unique_name
FolderNames(p, but) == {folder[f].name : f \in {g \in LiveFolders \ {but} : folder[g].parent = p}}
AssetNames(p, but)  == {asset[a].name : a \in {b \in LiveAssets \ {but} : asset[b].at = p}}

CatalogRequest ==
    [pc : {"new", "store", "done"}, kind : FolderKinds \cup AssetKinds \cup OtherKinds,
     item : Folders \cup CatalogAssets \cup {NoItem}, to : Places, name : ItemNames,
     keyed : BOOLEAN, was : SUBSET (Folders \cup CatalogAssets \cup AssetRow)]

CatalogTypeOK ==
    /\ folder \in [Folders -> FolderRow] /\ asset \in [CatalogAssets -> AssetRow]
    /\ appKey \in {"named", "nameless", "deleted"} /\ padded \in BOOLEAN
    /\ asked \in [CatalogRequests -> CatalogRequest]
    /\ \A f \in LiveFolders : Live(folder[f].parent)
    /\ \A a \in LiveAssets : Live(asset[a].at) /\ (asset[a].keyed => appKey # "deleted")

NotAsked == [pc |-> "new", kind |-> "import", item |-> NoItem, to |-> Root,
             name |-> CHOOSE n \in ItemNames : TRUE, keyed |-> FALSE, was |-> {}]
NoFolder == [is |-> "free", name |-> NotAsked.name, parent |-> Root]
NoAsset  == [is |-> "free", name |-> NotAsked.name, at |-> Root, keyed |-> FALSE, redis |-> FALSE]

Became(r, q) == asked' = [asked EXCEPT ![r] = q]
Ready(q) == [q EXCEPT !.pc = "store"]
Over == [NotAsked EXCEPT !.pc = "done"]
\* A request stores: others that have looked do not know.
Stores(r, kind) ==
    /\ asked' = [asked EXCEPT ![r] = Over]
    /\ raced' = raced \cup {{kind, asked[q].kind} : q \in {p \in CatalogRequests \ {r} : asked[p].pc = "store"}}
\* The database refuses, or the row is gone.
AskFails(r) == /\ asked[r].pc = "store" /\ asked' = [asked EXCEPT ![r] = Over]
            /\ UNCHANGED <<folder, asset, appKey, raced, padded>>
StoresFolders(f) == folder' = f /\ UNCHANGED <<asset, appKey, padded>>
StoresAssets(a)  == asset' = a /\ UNCHANGED <<folder, appKey, padded>>
Comes(r) == asked[r].pc = "new" /\ \A q \in 1..r - 1 : asked[q].pc # "new"
At(r, kind) == asked[r].pc = "store" /\ asked[r].kind = kind
----------------------------------------------------------------------------
(* What a request looks at before it stores: refused, or on its way. *)

\* Mutants: a directory may move below itself; names of an asset's old directory are
\* looked at.
LooksAnywhere(q) ==
    /\ q.kind # "newFolder" => q.item \in LiveFolders /\ ~OnCycle(q.item)
    /\ q.kind # "deleteFolder" => Live(q.to)
    /\ q.kind = "newFolder" => q.name \notin FolderNames(q.to, NoItem)
    /\ q.kind = "moveFolder" => q.name \notin FolderNames(q.to, q.item)
    /\ q.kind = "copyFolder" => q.to \notin Under(q.item)

\* unique_name and the test of descendants in directories, directory_detail and
\* directory_copy.
LooksAtFolder(q) ==
    /\ q.kind # "newFolder" => q.item \in LiveFolders /\ ~OnCycle(q.item)
    /\ q.kind # "deleteFolder" => Live(q.to)
    /\ q.kind = "newFolder" => q.name \notin FolderNames(q.to, NoItem)
    /\ q.kind = "moveFolder" => q.name \notin FolderNames(q.to, q.item) /\ q.to \notin Under(q.item)
    /\ q.kind = "copyFolder" => q.to \notin Under(q.item)

\* Mutant: any key will do.
KeyExists(q, redis) == q.keyed => appKey # "deleted"

\* DatabaseAssetSerializer.validate: a key that is used must have a user.
KeyValid(q, redis) == q.keyed => appKey # "deleted" /\ (redis \/ appKey = "named")

LooksWhereItIs(q) ==
    /\ q.kind \notin {"newAsset", "clear"} => q.item \in LiveAssets
    /\ q.kind \notin {"deleteAsset", "clear"} => Live(q.to)
    /\ q.kind = "newAsset" => KeyValid(q, FALSE) /\ q.name \notin AssetNames(q.to, NoItem)
    /\ q.kind = "editAsset" => /\ KeyValid(q, asset[q.item].redis)
                               /\ q.name \notin AssetNames(asset[q.item].at, q.item)
    /\ q.kind = "moveAsset" => asset[q.item].name \notin AssetNames(q.to, q.item)

LooksAtAsset(q) ==
    /\ q.kind \notin {"newAsset", "clear"} => q.item \in LiveAssets
    /\ q.kind \notin {"deleteAsset", "clear"} => Live(q.to)
    /\ q.kind = "newAsset" => KeyValid(q, FALSE) /\ q.name \notin AssetNames(q.to, NoItem)
    /\ q.kind = "editAsset" => /\ KeyValid(q, asset[q.item].redis)
                               /\ q.name \notin AssetNames(q.to, q.item)
    /\ q.kind = "moveAsset" => asset[q.item].name \notin AssetNames(q.to, q.item)

\* What the request has read and uses when it stores: the directories to delete, the
\* asset's row, the assets to clear.
Seen(q) == CASE q.kind = "deleteFolder" -> Under(q.item)
             [] q.kind = "clear"        -> LiveAssets
             [] q.kind \in {"editAsset", "copyAsset"} -> {asset[q.item]}
             [] OTHER -> {}

Asked(kind, item, to, name, keyed) ==
    [pc |-> "new", kind |-> kind, item |-> item, to |-> to, name |-> name, keyed |-> keyed, was |-> {}]

\* Parts of a request its kind does not use have one value.
Look(r) ==
    /\ Comes(r)
    /\ \E kind \in FolderKinds, item \in LiveFolders \cup {NoItem}, to \in LiveFolders \cup {Root}, n \in ItemNames :
         LET q == Asked(kind, item, to, n, FALSE) IN
         /\ (kind = "newFolder") = (item = NoItem)
         /\ kind = "deleteFolder" => to = Root
         /\ kind \in {"deleteFolder", "copyFolder"} => n = NotAsked.name
         /\ LooksAtFolder(q)
         /\ Became(r, Ready([q EXCEPT !.was = Seen(q)]))
    /\ UNCHANGED <<folder, asset, appKey, raced, padded>>

LookAtAsset(r) ==
    /\ Comes(r)
    /\ \E kind \in AssetKinds, item \in LiveAssets \cup {NoItem}, to \in LiveFolders \cup {Root},
          n \in ItemNames, keyed \in BOOLEAN :
         LET q == Asked(kind, item, to, n, keyed) IN
         /\ (kind \in {"newAsset", "clear"}) = (item = NoItem)
         /\ kind \in {"deleteAsset", "clear"} => to = Root
         /\ kind \notin {"newAsset", "editAsset"} => n = NotAsked.name /\ ~keyed
         /\ LooksAtAsset(q)
         /\ Became(r, Ready([q EXCEPT !.was = Seen(q)]))
    /\ UNCHANGED <<folder, asset, appKey, raced, padded>>
----------------------------------------------------------------------------
(* Directories. *)

NewFolder(r) == LET q == asked[r] IN
    /\ At(r, "newFolder") /\ Live(q.to) /\ FreeFolders # {}
    /\ StoresFolders([folder EXCEPT ![NewFolderId] = [is |-> "live", name |-> q.name, parent |-> q.to]])
    /\ Stores(r, "newFolder")

\* directory_detail PUT: name and parent are saved.
MoveFolder(r) == LET q == asked[r] IN
    /\ At(r, "moveFolder") /\ Live(q.to) /\ q.item \in LiveFolders
    /\ StoresFolders([folder EXCEPT ![q.item].name = q.name, ![q.item].parent = q.to])
    /\ Stores(r, "moveFolder")

\* directory_detail DELETE: assets of the directories that were found, then the directory,
\* with what is below it by now; an asset that has come there moves to the root.
DeleteFolder(r) ==
    LET q == asked[r]
        gone == Under(q.item)
        lost == {a \in LiveAssets : asset[a].at \in q.was} IN
    /\ At(r, "deleteFolder") /\ q.item \in LiveFolders
    /\ folder' = [f \in Folders |-> IF f \in gone THEN [NoFolder EXCEPT !.is = "deleted"] ELSE folder[f]]
    /\ asset' = [a \in CatalogAssets |->
                   IF a \in lost THEN [NoAsset EXCEPT !.is = "deleted"]
                   ELSE IF a \in LiveAssets /\ asset[a].at \in gone THEN [asset[a] EXCEPT !.at = Root]
                   ELSE asset[a]]
    /\ Stores(r, "deleteFolder") /\ UNCHANGED <<appKey, padded>>

\* copy_branch: the names of all that is copied change, and stay distinct (copy_name).
CopyFolder(r) ==
    LET q == asked[r]
        from == Under(q.item)
        assets == {a \in LiveAssets : asset[a].at \in from}
        m == CHOOSE i \in Injection(from, FreeFolders) : TRUE
        n == CHOOSE i \in Injection(assets, FreeAssets) : TRUE IN
    /\ At(r, "copyFolder") /\ Live(q.to) /\ q.item \in LiveFolders /\ q.to \notin from
    /\ Injection(from, FreeFolders) # {} /\ Injection(assets, FreeAssets) # {}
    /\ \E fn \in [from -> ItemNames], an \in [assets -> ItemNames] :
         /\ \A f, g \in from : f # g /\ folder[f].parent = folder[g].parent => fn[f] # fn[g]
         /\ \A a, b \in assets : a # b /\ asset[a].at = asset[b].at => an[a] # an[b]
         /\ \A f \in from : fn[f] # folder[f].name
         /\ \A a \in assets : an[a] # asset[a].name
         /\ fn[q.item] \notin FolderNames(q.to, NoItem)
         /\ folder' = [x \in Folders |->
              IF \E f \in from : m[f] = x
              THEN LET f == CHOOSE f \in from : m[f] = x IN
                   [is |-> "live", name |-> fn[f],
                    parent |-> IF f = q.item THEN q.to ELSE m[folder[f].parent]]
              ELSE folder[x]]
         /\ asset' = [x \in CatalogAssets |->
              IF \E a \in assets : n[a] = x
              THEN LET a == CHOOSE a \in assets : n[a] = x IN
                   [asset[a] EXCEPT !.name = an[a], !.at = m[asset[a].at]]
              ELSE asset[x]]
    /\ Stores(r, "copyFolder") /\ UNCHANGED <<appKey, padded>>
----------------------------------------------------------------------------
(* Assets. *)

KeyIgnored(keyed) == TRUE   \* mutant: the foreign key is not enforced
KeyLives(keyed) == keyed => appKey # "deleted"

NewAsset(r) == LET q == asked[r] IN
    /\ At(r, "newAsset") /\ Live(q.to) /\ KeyLives(q.keyed) /\ FreeAssets # {}
    /\ StoresAssets([asset EXCEPT ![NewAssetId] = [is |-> "live", name |-> q.name, at |-> q.to,
                                                   keyed |-> q.keyed, redis |-> FALSE]])
    /\ Stores(r, "newAsset")

\* asset_detail PUT stores the whole row as it was read, changed: if it was deleted
\* meanwhile, the row is inserted again.
EditAsset(r) == LET q == asked[r] IN
    /\ At(r, "editAsset") /\ Live(q.to) /\ KeyLives(q.keyed)
    /\ \E row \in q.was :
         StoresAssets([asset EXCEPT ![q.item] = [row EXCEPT !.name = q.name, !.at = q.to, !.keyed = q.keyed]])
    /\ Stores(r, "editAsset")

MoveAsset(r) == LET q == asked[r] IN
    /\ At(r, "moveAsset") /\ Live(q.to) /\ q.item \in LiveAssets
    /\ StoresAssets([asset EXCEPT ![q.item].at = q.to])
    /\ Stores(r, "moveAsset")

\* duplicate_asset: a copy asked for in the root comes to the directory of the asset.
Destination(row, to) == IF to = Root THEN row.at ELSE to
CopyAsset(r) == LET q == asked[r] IN
    /\ At(r, "copyAsset") /\ FreeAssets # {}
    /\ \E row \in q.was, n \in ItemNames :
         LET to == Destination(row, q.to) IN
         /\ Live(to) /\ KeyLives(row.keyed)
         /\ n # row.name /\ n \notin AssetNames(to, NoItem)
         /\ StoresAssets([asset EXCEPT ![NewAssetId] = [row EXCEPT !.name = n, !.at = to]])
    /\ Stores(r, "copyAsset")

DeleteAsset(r) == LET q == asked[r] IN
    /\ At(r, "deleteAsset")
    /\ StoresAssets([asset EXCEPT ![q.item] = IF @.is = "live" THEN [NoAsset EXCEPT !.is = "deleted"] ELSE @])
    /\ Stores(r, "deleteAsset")

\* clear_database_connections --execute: nothing while an asset is there that was not listed.
Clear(r) == LET q == asked[r] IN
    /\ At(r, "clear") /\ LiveAssets \subseteq q.was
    /\ StoresAssets([a \in CatalogAssets |-> IF a \in LiveAssets THEN [NoAsset EXCEPT !.is = "deleted"] ELSE asset[a]])
    /\ Stores(r, "clear")
----------------------------------------------------------------------------
(* Import of a manifest: one asset, in a directory of its own or bare.  Look and store are
   one step. *)

\* import_manifest_payload finds by the name as it came, blanks included;
\* connection_manifest (policy "fail") by the name it will store.
Existing(at, n) == CHOOSE a \in LiveAssets : asset[a].at = at /\ asset[a].name = n
Found(names, n, blanks, policy) == n \in names /\ (blanks => policy = "fail")

Import(r) ==
    /\ Comes(r) /\ FreeAssets # {}
    /\ \E to \in LiveFolders \cup {Root}, fname, aname \in ItemNames, blanks, bare \in BOOLEAN,
          policy \in {"skip", "overwrite", "rename", "fail"} :
         LET reuse == {f \in LiveFolders : folder[f].parent = to /\ folder[f].name = fname}
             merged == policy = "skip" /\ reuse # {}
             at == IF bare THEN to ELSE IF merged THEN CHOOSE f \in reuse : TRUE ELSE NewFolderId
             found == Found(AssetNames(at, NoItem), aname, blanks, policy) IN
         /\ bare => fname = NotAsked.name
         /\ bare \/ merged \/ FreeFolders # {}
         /\ policy = "fail" => (bare \/ reuse = {}) /\ ~found
         /\ \E fn, an \in ItemNames :
              /\ IF bare \/ merged \/ reuse = {} THEN fn = fname
                 ELSE fn # fname /\ fn \notin FolderNames(to, NoItem)
              /\ IF found /\ policy = "rename" THEN an # aname /\ an \notin AssetNames(at, NoItem)
                 ELSE an = aname
              /\ folder' = IF bare \/ merged THEN folder
                           ELSE [folder EXCEPT ![at] = [is |-> "live", name |-> fn, parent |-> to]]
              /\ asset' = IF found /\ policy = "skip" THEN asset
                          ELSE [b \in CatalogAssets |->
                            IF b = NewAssetId THEN [NoAsset EXCEPT !.is = "live", !.name = an, !.at = at]
                            ELSE IF found /\ policy = "overwrite" /\ b = Existing(at, aname)
                            THEN [NoAsset EXCEPT !.is = "deleted"] ELSE asset[b]]
         /\ padded' = (padded \/ blanks)
    /\ Stores(r, "import") /\ UNCHANGED appKey
----------------------------------------------------------------------------
(* The application key: its row is locked, so look and store are one step. *)

\* ApplicationKeySerializer.validate
EditKey(r) ==
    /\ Comes(r) /\ appKey # "deleted"
    /\ \E user \in {"named", "nameless"} :
         /\ user = "nameless" => \A a \in LiveAssets : asset[a].keyed => asset[a].redis
         /\ appKey' = user
    /\ Stores(r, "editKey") /\ UNCHANGED <<folder, asset, padded>>

DeleteKey(r) ==
    /\ Comes(r) /\ appKey # "deleted" /\ \A a \in LiveAssets : ~asset[a].keyed
    /\ appKey' = "deleted"
    /\ Stores(r, "deleteKey") /\ UNCHANGED <<folder, asset, padded>>
----------------------------------------------------------------------------
\* A tree of directories and assets of distinct names, the key with the user its assets
\* need, as requests one after another leave it.
Sound ==
    /\ \A f \in LiveFolders : /\ Live(folder[f].parent) /\ ~OnCycle(f)
                              /\ folder[f].name \notin FolderNames(folder[f].parent, f)
    /\ \A a \in LiveAssets : /\ Live(asset[a].at) /\ asset[a].name \notin AssetNames(asset[a].at, a)
                             /\ asset[a].keyed => asset[a].redis \/ appKey = "named"

CatalogInit ==
    /\ folder \in [Folders -> {NoFolder} \cup [is : {"live"}, name : ItemNames, parent : Places]]
    /\ asset \in [CatalogAssets -> {NoAsset} \cup [is : {"live"}, name : ItemNames, at : Places,
                                                   keyed : BOOLEAN, redis : BOOLEAN]]
    /\ appKey \in {"named", "nameless"} /\ Sound
    /\ asked = [r \in CatalogRequests |-> NotAsked] /\ raced = {} /\ padded = FALSE

CatalogNext == \E r \in CatalogRequests :
    \/ Look(r) \/ LookAtAsset(r) \/ AskFails(r)
    \/ NewFolder(r) \/ MoveFolder(r) \/ DeleteFolder(r) \/ CopyFolder(r)
    \/ NewAsset(r) \/ EditAsset(r) \/ MoveAsset(r) \/ CopyAsset(r) \/ DeleteAsset(r) \/ Clear(r)
    \/ Import(r) \/ EditKey(r) \/ DeleteKey(r)

CatalogSpec == CatalogInit /\ [][CatalogNext]_catalogVars
----------------------------------------------------------------------------
(* Properties. *)

\* Every directory is below the root, unless two moves overlapped: each looks that
\* its own move makes no cycle.
TreeHolds == {"moveFolder"} \notin raced => \A f \in LiveFolders : ~OnCycle(f)

\* No two items of a place have one name, unless two requests overlapped or an
\* import brought a name with blanks around it, which are taken off after the look.
NamesDistinct == raced = {} /\ ~padded =>
    /\ \A f \in LiveFolders : folder[f].name \notin FolderNames(folder[f].parent, f)
    /\ \A a \in LiveAssets : asset[a].name \notin AssetNames(asset[a].at, a)

\* A connection can log in: its key has a user, unless the key was edited while the
\* connection was being stored (resolve_credentials would refuse it).
KeyGivesUser == (\A pair \in raced : "editKey" \notin pair) =>
    \A a \in LiveAssets : asset[a].keyed => asset[a].redis \/ appKey = "named"

\* The directories are a tree of distinct names, and keys give users.
CatalogHolds == TreeHolds /\ NamesDistinct /\ KeyGivesUser
=============================================================================
