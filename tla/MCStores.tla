------------------------------ MODULE MCStores ------------------------------
(* Constants for checking the requests on connected databases, their catalogue, and the
   pool of SSH connections.  They share nothing: a behaviour is one of the part it begins
   with. *)
EXTENDS Stores

CONSTANTS d1, f1, f2, f3, f4, b1, b2, b3, x, y, c1, c2, h1, h2

OneDbRequest == {d1}
FourFolders  == {f1, f2, f3, f4}
ThreeAssets  == {b1, b2, b3}
TwoNames     == {x, y}
TwoClients   == {c1, c2}
TwoLogins    == {h1, h2}
OneCredential == <<h2>>
----------------------------------------------------------------------------
CONSTANT Parts  \* the components of a run
VARIABLE part   \* the component this behaviour is about

Vars == <<dbVars, catalogVars, redisVars, poolVars, part>>

\* Two directories, one of them perhaps in the other, and one connection somewhere.
CatalogStart ==
    /\ \E p \in {Root, f1} : folder = [f \in FourFolders |->
         CASE f = f1 -> [is |-> "live", name |-> x, parent |-> Root]
           [] f = f2 -> [is |-> "live", name |-> y, parent |-> p]
           [] OTHER  -> NoFolder]
    /\ appKey = "named"
    /\ \E p \in {Root, f1, f2}, keyed, redis \in BOOLEAN :
         /\ redis => keyed
         /\ asset = [a \in ThreeAssets |->
              IF a = b1 THEN [is |-> "live", name |-> x, at |-> p, keyed |-> keyed, redis |-> redis] ELSE NoAsset]
    /\ asked = [r \in CatalogRequests |-> NotAsked] /\ raced = {} /\ padded = FALSE
OneCatalogStart ==
    /\ folder = [f \in FourFolders |-> NoFolder] /\ asset = [a \in ThreeAssets |-> NoAsset]
    /\ appKey = "named" /\ asked = [r \in CatalogRequests |-> NotAsked] /\ raced = {} /\ padded = FALSE

\* The parts a behaviour is not about stay in one of their initial states.
Init ==
    /\ part \in Parts
    /\ DbInit        /\ (part # "database" => dbKind = "sqlite" /\ ~autoCommit /\ policy = "open")
    /\ IF part = "catalog" THEN CatalogStart ELSE OneCatalogStart
    /\ RedisInit     /\ IF part = "redis" THEN key[1].ttl # "later" /\ key[2] \in {Gone, [type |-> "string", members |-> {1}, ttl |-> "later"]}
                                          ELSE \A k \in Keys : key[k] = Gone
    /\ PoolInit      /\ hostLogin = h1 /\ IF part = "pool" THEN h2 \in accepted ELSE accepted = {}

DbStep      == part = "database" /\ DbNext /\ UNCHANGED <<catalogVars, redisVars, poolVars, part>>
CatalogStep == part = "catalog" /\ CatalogNext /\ UNCHANGED <<dbVars, redisVars, poolVars, part>>
RedisStep   == part = "redis" /\ RedisNext /\ UNCHANGED <<dbVars, catalogVars, poolVars, part>>
PoolStep    == part = "pool" /\ PoolNext /\ UNCHANGED <<dbVars, catalogVars, redisVars, part>>

Next == DbStep \/ CatalogStep \/ RedisStep \/ PoolStep
Spec == Init /\ [][Next]_Vars
=============================================================================
