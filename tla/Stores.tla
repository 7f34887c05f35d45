------------------------------- MODULE Stores -------------------------------
(***************************************************************************)
(* The requests on connected databases, the catalogue of connections, the   *)
(* keys of a Redis server, and the pool of SSH connections.  They run side   *)
(* by side and share no variable.                                            *)
(***************************************************************************)
EXTENDS DatabaseSession, ConnectionCatalog, RedisKeys, SshPool

StoresSpec == DbSpec /\ CatalogSpec /\ RedisSpec /\ PoolSpec
----------------------------------------------------------------------------
(* What the parts promise together. *)

\* Every variable of every part keeps its type.
TypesOK == DbTypeOK /\ CatalogTypeOK /\ RedisTypeOK /\ PoolTypeOK
=============================================================================
