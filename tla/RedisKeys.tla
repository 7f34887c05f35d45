----------------------------- MODULE RedisKeys -----------------------------
(* backend/database_management/advanced.py: asset_redis, and asset_export and
   asset_import for Redis.

   A key is replaced by several commands, each on its own: its type is asked for, it
   is deleted, then filled; its expiry is not kept.  A collection is shown up to a
   limit, and what was shown can be stored back.  After the last write the type is asked
   for once more and the change is logged.  An export takes key after key and refuses a
   collection over the limit; an import writes row after row.  Other
   clients use the server at the same time, the connection may break between any
   two commands.  Members of a collection are numbers, shown lowest first. *)
EXTENDS Naturals, FiniteSets

CONSTANTS
    LastKey,       \* bound: keys are 1..LastKey, scanned in this order
    MaxMember,     \* bound: members of collections
    ShownMembers   \* 500: members shown or exported

ASSUME RedisAssumption ==
    LastKey \in Nat \ {0} /\ MaxMember \in Nat /\ ShownMembers \in Nat \ {0}

VARIABLES
    key,        \* the server's keys
    caller,     \* the request of the portal
    dumped,     \* rows of the exported file
    others      \* history: another client wrote since the request began

redisVars == <<key, caller, dumped, others>>

Keys    == 1..LastKey
Members == 1..MaxMember
Expiry  == {"never", "now", "later"}   \* ttl -1, 0 (under a second), above
Gone    == [type |-> "none", members |-> {}, ttl |-> "never"]
RedisValue == [type : {"string"}, members : {{m} : m \in Members}, ttl : Expiry]
         \cup [type : {"list"}, members : (SUBSET Members) \ {{}}, ttl : Expiry]
         \cup [type : {"stream"}, members : {{1}}, ttl : Expiry]
\* The row of a type that is not read: its value is null.
Unread  == [type : {"stream"}, members : {{}}, ttl : Expiry]
NoCall == [pc |-> "idle", kind |-> "set", at |-> 1, type |-> "none", value |-> {},
           before |-> [k \in Keys |-> Gone], answer |-> "none"]

RedisCall ==
    [pc : {"idle", "type", "delete", "fill", "expire", "size", "read", "log", "end"},
     kind : {"set", "back", "export", "import"}, at : 1..LastKey + 1,
     type : {"none", "string", "list", "stream"}, value : SUBSET Members,
     before : [Keys -> RedisValue \cup {Gone}], answer : {"none", "ok", "refused", "error"}]

RedisTypeOK ==
    /\ key \in [Keys -> RedisValue \cup {Gone}] /\ dumped \in [Keys -> RedisValue \cup Unread \cup {Gone}]
    /\ caller \in RedisCall /\ others \in BOOLEAN

Least(S, n) == {m \in S : Cardinality({l \in S : l < m}) < n}
\* redis_value
Shown(v) == IF v.type = "stream" THEN {} ELSE Least(v.members, ShownMembers)
Filled(type, members) == IF members = {} THEN Gone ELSE [type |-> type, members |-> members, ttl |-> "never"]
Goes(pc) == caller' = [caller EXCEPT !.pc = pc]
CallEnds(answer) == caller' = [caller EXCEPT !.pc = "end", !.answer = answer]
Doing(pc, kind) == caller.pc = pc /\ caller.kind = kind
----------------------------------------------------------------------------
(* asset_redis *)

\* A value is shown, and stored back as it is or changed; or an expiry is set, a key
\* deleted, or a command run.
ShowAndEdit ==
    /\ caller.pc = "idle"
    /\ \E k \in Keys, value \in SUBSET Members :
         caller' = [NoCall EXCEPT !.pc = "type", !.kind = "set", !.at = k, !.value = value,
                                  !.before = key]
    /\ others' = FALSE /\ dumped' = [k \in Keys |-> Gone] /\ UNCHANGED key

StoreBack ==
    /\ caller.pc = "idle"
    /\ \E k \in Keys : key[k].type = "list" /\
         caller' = [NoCall EXCEPT !.pc = "type", !.kind = "back", !.at = k, !.value = Shown(key[k]),
                                  !.before = key]
    /\ others' = FALSE /\ dumped' = [k \in Keys |-> Gone] /\ UNCHANGED key

\* set_ttl, DELETE and a command of the user: one command of the server.
OneCommand ==
    /\ caller.pc = "idle"
    /\ \E k \in Keys : key[k] # Gone /\
         \E v \in {Gone} \cup {[key[k] EXCEPT !.ttl = t] : t \in Expiry} : key' = [key EXCEPT ![k] = v]
    /\ UNCHANGED <<caller, dumped, others>>

\* current_type = client.type(key); a string is replaced at once.
AskType == LET k == caller.at IN
    /\ caller.pc = "type" /\ UNCHANGED <<dumped, others>>
    /\ \/ key[k].type = "string" /\ caller.value # {}
          /\ key' = [key EXCEPT ![k] = [type |-> "string", members |-> Least(caller.value, 1), ttl |-> "never"]]
          /\ Goes("log")
       \/ key[k].type = "list" /\ Goes("delete") /\ UNCHANGED key
       \/ key[k].type \notin {"string", "list"} /\ CallEnds("refused") /\ UNCHANGED key

\* Mutant: the collection is added to, not replaced.
KeepMembers ==
    /\ caller.pc = "delete" /\ caller.kind \in {"set", "back"} /\ UNCHANGED key
    /\ Goes(IF caller.value = {} THEN "log" ELSE "fill")
    /\ UNCHANGED <<dumped, others>>

\* client.delete(key); client.rpush(key, *value) if value else 0
DeleteKeyFirst == LET k == caller.at IN
    /\ caller.pc = "delete" /\ caller.kind \in {"set", "back"}
    /\ key' = [key EXCEPT ![k] = Gone]
    /\ Goes(IF caller.value = {} THEN "log" ELSE "fill")
    /\ UNCHANGED <<dumped, others>>

\* Members are added to what is there by now, if that is a collection.
Fill == LET k == caller.at IN
    /\ caller.pc = "fill" /\ UNCHANGED <<dumped, others>>
    /\ \/ key[k].type \in {"none", "list"}
          /\ key' = [key EXCEPT ![k] = [type |-> "list", members |-> @.members \cup caller.value,
                                        ttl |-> @.ttl]]
          /\ Goes(IF caller.kind = "import" THEN "expire" ELSE "log")
       \/ key[k].type \notin {"none", "list"} /\ CallEnds("error") /\ UNCHANGED key

\* client.type(key) is in the log's text; when that or the log fails the request breaks.
LogWrite == caller.pc = "log" /\ CallEnds("ok") /\ UNCHANGED <<key, dumped, others>>
----------------------------------------------------------------------------
(* asset_export, snapshot *)

StartExport ==
    /\ caller.pc = "idle"
    /\ caller' = [NoCall EXCEPT !.pc = "size", !.kind = "export", !.before = key]
    /\ dumped' = [k \in Keys |-> Gone] /\ others' = FALSE /\ UNCHANGED key

\* Mutant: the limit is not looked at.
AskNothing ==
    /\ caller.pc = "size" /\ UNCHANGED <<key, dumped, others>>
    /\ \/ caller.at > LastKey /\ CallEnds("ok")
       \/ caller.at <= LastKey /\ caller' = [caller EXCEPT !.pc = "read", !.type = key[caller.at].type]

\* redis_export_value: a collection over the limit ends the export.
AskSize ==
    /\ caller.pc = "size" /\ UNCHANGED <<key, dumped, others>>
    /\ \/ caller.at > LastKey /\ CallEnds("ok")
       \/ /\ caller.at <= LastKey
          /\ LET v == key[caller.at] IN
             IF v.type = "list" /\ Cardinality(v.members) > ShownMembers THEN CallEnds("refused")
             ELSE IF v = Gone THEN caller' = [caller EXCEPT !.at = @ + 1]
             ELSE caller' = [caller EXCEPT !.pc = "read", !.type = v.type]

\* The value as redis_value gives it: none of a type it does not know.
ReadKey == LET v == key[caller.at] IN
    /\ caller.pc = "read" /\ UNCHANGED <<key, others>>
    /\ dumped' = [dumped EXCEPT ![caller.at] = [v EXCEPT !.members = Shown(v)]]
    /\ caller' = [caller EXCEPT !.pc = "size", !.at = @ + 1]
----------------------------------------------------------------------------
(* asset_import *)

StartImport ==
    /\ caller.pc = "idle" /\ \E k \in Keys : dumped[k] # Gone
    /\ caller' = [NoCall EXCEPT !.pc = "delete", !.kind = "import", !.before = key]
    /\ others' = FALSE /\ UNCHANGED <<key, dumped>>

\* A row: a string is set; a collection is deleted, then filled; other types are errors.
ImportRow == LET k == caller.at IN
    /\ Doing("delete", "import") /\ UNCHANGED <<dumped, others>>
    /\ \/ k > LastKey /\ CallEnds("ok") /\ UNCHANGED key
       \/ /\ k <= LastKey /\ dumped[k] = Gone /\ UNCHANGED key
          /\ caller' = [caller EXCEPT !.at = @ + 1]
       \/ /\ k <= LastKey /\ dumped[k].type = "string" /\ Goes("expire")
          /\ key' = [key EXCEPT ![k] = Filled("string", dumped[k].members)]
       \/ /\ k <= LastKey /\ dumped[k].type = "list"
          /\ key' = [key EXCEPT ![k] = Gone]
          /\ caller' = [caller EXCEPT !.pc = "fill", !.value = dumped[k].members]
       \/ k <= LastKey /\ dumped[k].type = "stream" /\ CallEnds("error") /\ UNCHANGED key

\* Mutant: any expiry but "none" is set.
ExpiresAtOnce(ttl) == IF ttl = "never" THEN "never" ELSE "later"
\* if int(row.get("ttl") or -1) > 0: client.expire(...): an expiry of 0 is none.
Expires(ttl) == IF ttl = "later" THEN "later" ELSE "never"
Expire == LET k == caller.at IN
    /\ caller.pc = "expire" /\ UNCHANGED <<dumped, others>>
    /\ key' = IF key[k] # Gone /\ Expires(dumped[k].ttl) = "later"
              THEN [key EXCEPT ![k].ttl = "later"] ELSE key
    /\ caller' = [caller EXCEPT !.pc = "delete", !.at = @ + 1, !.value = {}]
----------------------------------------------------------------------------
\* Another client deletes a key, which may have expired, or adds to it; bound: once a request.
OtherClient ==
    /\ caller.pc # "idle" /\ ~others /\ others' = TRUE /\ UNCHANGED <<caller, dumped>>
    /\ \E k \in Keys, m \in Members :
         key' = [key EXCEPT ![k] =
                    IF key[k].type = "list" /\ m \notin key[k].members
                    THEN [key[k] EXCEPT !.members = @ \cup {m}]
                    ELSE IF key[k] = Gone THEN Filled("list", {m}) ELSE Gone]
\* The connection or the database of the portal fails: an error, whatever was written.
Breaks == caller.pc \notin {"idle", "end"} /\ CallEnds("error") /\ UNCHANGED <<key, dumped, others>>
\* Bound: one request, or an export and another.
NextRequest == /\ caller.pc = "end" /\ caller.kind = "export" /\ caller' = NoCall
               /\ others' = FALSE /\ UNCHANGED <<key, dumped>>

RedisInit == /\ key \in [Keys -> RedisValue \cup {Gone}] /\ caller = NoCall
             /\ dumped = [k \in Keys |-> Gone] /\ others = FALSE

RedisNext ==
    \/ ShowAndEdit \/ StoreBack \/ OneCommand \/ AskType \/ DeleteKeyFirst \/ Fill \/ LogWrite
    \/ StartExport \/ AskSize \/ ReadKey \/ StartImport \/ ImportRow \/ Expire
    \/ OtherClient \/ Breaks \/ NextRequest

RedisSpec == RedisInit /\ [][RedisNext]_redisVars
----------------------------------------------------------------------------
(* Properties. *)

Undisturbed(kinds) == caller.pc = "end" /\ ~others /\ caller.kind \in kinds
Content(v) == [type |-> v.type, members |-> v.members]

\* What a request says of a key it replaced is true: after success the key holds what
\* was sent, under its old type, and a key not longer than what is shown survives
\* being stored back; no other key has changed.  After an error the key is as it was,
\* or it is gone, or (its last command, or the log, failed) it holds what was sent, but
\* never a part of that or a mixture.
Sent == LET v == caller.before[caller.at] IN
        Filled(v.type, IF v.type = "string" THEN Least(caller.value, 1) ELSE caller.value)
ReplacedAsSaid == Undisturbed({"set", "back"}) =>
    LET k == caller.at IN
    /\ \A j \in Keys \ {k} : key[j] = caller.before[j]
    /\ caller.answer = "ok" => key[k] = Sent
    /\ caller.answer = "ok" /\ caller.kind = "back"
         /\ Cardinality(caller.before[k].members) <= ShownMembers => Content(key[k]) = Content(caller.before[k])
    /\ caller.answer = "refused" => key = caller.before
    /\ caller.answer = "error" => key[k] \in {caller.before[k], Gone, Sent}

\* An export that succeeds is whole: no collection is cut.  Only a type that is not read
\* (a stream) is a row without its value.
KeyRow(v) == IF v.type = "stream" THEN [v EXCEPT !.members = {}] ELSE v
ExportIsWhole == Undisturbed({"export"}) /\ caller.answer = "ok" =>
    \A k \in Keys : dumped[k] = KeyRow(caller.before[k])

\* An import that succeeds leaves every exported key as it was, but for an expiry below a
\* second, which becomes none; keys not in the file stay.
ImportRestores == Undisturbed({"import"}) /\ caller.answer = "ok" =>
    \A k \in Keys : key[k] = IF dumped[k] = Gone THEN caller.before[k]
                             ELSE IF dumped[k].ttl = "now" THEN [dumped[k] EXCEPT !.ttl = "never"] ELSE dumped[k]

\* What was replaced, exported and imported is what the answer says.
RedisHonest == ReplacedAsSaid /\ ExportIsWhole /\ ImportRestores
=============================================================================
