------------------------------- MODULE SshPool -------------------------------
(***************************************************************************)
(* SSH clients of the file operations: a request borrows an idle client of *)
(* its host and login or opens one, uses it alone and gives it back.  Plain *)
(* clients and SFTP sessions are kept apart; commands open a client of     *)
(* their own ("once").  Opening tries the login of the host, then the      *)
(* stored credentials, and writes the one that worked into the host.       *)
(*                                                                         *)
(* One host; a request works on the copy of its row it has read.  The      *)
(* fingerprint of the pool key is the login itself.                        *)
(***************************************************************************)
EXTENDS Naturals, Sequences

CONSTANTS
    LastBorrower,  \* bound: requests at a time are 1..LastBorrower
    Clients,       \* bound: open connections
    HostLogins,        \* user, password and key of a host or credential
    Credentials,   \* HostCredential rows in the order of their ids
    MaxIdle,       \* SSH_CLIENT_POOL_MAX_PER_HOST, SFTP_CLIENT_POOL_MAX_PER_HOST
    NoClient

ASSUME PoolAssumption ==
    /\ Credentials \in Seq(HostLogins) /\ MaxIdle \in Nat /\ LastBorrower \in Nat
    /\ NoClient \notin Clients

VARIABLES
    hostLogin,   \* login fields of the ManagedHost row, "gone" when deleted
    accepted,    \* logins the remote host accepts
    client,      \* open connections
    pool,        \* _SSH_CLIENT_POOL and _SFTP_CLIENT_POOL
    borrower,    \* requests in flight
    lost         \* clients a request has left without closing or returning them

poolVars == <<hostLogin, accepted, client, pool, borrower, lost>>

Borrowers  == 1..LastBorrower
Pooled       == {"ssh", "sftp"}
Purposes      == Pooled \cup {"once"}
BorrowerPC == {"idle", "take", "sweep", "connect", "persist", "channel", "use", "trim"}
ClientRow  == [open : BOOLEAN, alive : BOOLEAN, login : HostLogins]
Entry      == [client : Clients, old : BOOLEAN]
NoConnection     == [open |-> FALSE, alive |-> FALSE, login |-> CHOOSE l \in HostLogins : TRUE]
NoBorrow   == [pc |-> "idle", kind |-> "once", host |-> CHOOSE l \in HostLogins : TRUE,
               tried |-> 0, client |-> NoClient, closing |-> {}]

PoolTypeOK ==
    /\ hostLogin \in HostLogins \cup {"gone"}
    /\ accepted \subseteq HostLogins
    /\ client \in [Clients -> ClientRow]
    /\ pool \in [Pooled -> [HostLogins -> Seq(Entry)]]
    /\ borrower \in [Borrowers -> [pc : BorrowerPC, kind : Purposes, host : HostLogins,
          tried : 0..Len(Credentials), client : Clients \cup {NoClient},
          closing : SUBSET Clients]]
    /\ lost \subseteq Clients

PoolInit ==
    /\ hostLogin \in HostLogins
    /\ accepted \in SUBSET HostLogins
    /\ client = [c \in Clients |-> NoConnection]
    /\ pool = [k \in Pooled |-> [l \in HostLogins |-> <<>>]]
    /\ borrower = [b \in Borrowers |-> NoBorrow]
    /\ lost = {}

ClientsOf(entries) == {entries[i].client : i \in DOMAIN entries}
Idling == UNION {ClientsOf(pool[k][l]) : k \in Pooled, l \in HostLogins}
Held(b) == ({borrower[b].client} \ {NoClient}) \cup borrower[b].closing
Close(S) == [c \in Clients |-> IF c \in S THEN NoConnection ELSE client[c]]
Fresh == {e \in Entry : ~e.old /\ client[e.client].alive}

\* The members of a sequence that are in S, in their order.
OnlyIn(s, S) ==
    LET upTo[i \in 0..Len(s)] ==
          IF i = 0 THEN <<>>
          ELSE IF s[i] \in S THEN Append(upTo[i - 1], s[i]) ELSE upTo[i - 1]
    IN upTo[Len(s)]

\* Any free connection, or place for a request, stands for all.
NewClients == LET free == {c \in Clients : ~client[c].open}
              IN IF free = {} THEN {} ELSE {CHOOSE c \in free : TRUE}
IsNew(b) == \A a \in 1..b : borrower[a].pc = "idle" <=> a = b
BorrowerAt(b, pc) == borrower[b].pc = pc
----------------------------------------------------------------------------
\* The request reads the host; its copy gives the pool key.
Borrow(b, k) ==
    /\ IsNew(b) /\ hostLogin # "gone"
    /\ borrower' = [borrower EXCEPT ![b] = [NoBorrow EXCEPT !.kind = k, !.host = hostLogin,
                      !.pc = IF k \in Pooled THEN "take" ELSE "connect"]]
    /\ UNCHANGED <<hostLogin, accepted, client, pool, lost>>

\* Mutant: the client taken stays in its pool.
TakeShared(b) ==
    LET k == borrower[b].kind
        kept == [l \in HostLogins |-> OnlyIn(pool[k][l], Fresh)]
        own == kept[borrower[b].host] IN
    /\ BorrowerAt(b, "take")
    /\ pool' = [pool EXCEPT ![k] = kept]
    /\ borrower' = [borrower EXCEPT ![b].pc = "sweep",
          ![b].closing = UNION {ClientsOf(pool[k][l]) \ ClientsOf(kept[l]) : l \in HostLogins},
          ![b].client = IF own = <<>> THEN NoClient ELSE own[Len(own)].client]
    /\ UNCHANGED <<hostLogin, accepted, client, lost>>

\* Under the lock: expired and dead clients of every key leave the pool of this
\* kind, the youngest of this key is taken.
TakePooled(b) ==
    LET k == borrower[b].kind
        kept == [l \in HostLogins |-> OnlyIn(pool[k][l], Fresh)]
        own == kept[borrower[b].host] IN
    /\ BorrowerAt(b, "take")
    /\ pool' = [pool EXCEPT ![k] = IF own = <<>> THEN kept
                                   ELSE [kept EXCEPT ![borrower[b].host] = SubSeq(own, 1, Len(own) - 1)]]
    /\ borrower' = [borrower EXCEPT ![b].pc = "sweep",
          ![b].closing = UNION {ClientsOf(pool[k][l]) \ ClientsOf(kept[l]) : l \in HostLogins},
          ![b].client = IF own = <<>> THEN NoClient ELSE own[Len(own)].client]
    /\ UNCHANGED <<hostLogin, accepted, client, lost>>

\* Mutant: what left the pool is not closed.
SweepNothing(b) ==
    /\ BorrowerAt(b, "sweep")
    /\ borrower' = [borrower EXCEPT ![b].closing = {},
                      ![b].pc = IF borrower[b].client = NoClient THEN "connect" ELSE "use"]
    /\ UNCHANGED <<hostLogin, accepted, client, pool, lost>>

\* After the lock: what left the pool is closed.
SweepExpired(b) ==
    /\ BorrowerAt(b, "sweep")
    /\ client' = Close(borrower[b].closing)
    /\ borrower' = [borrower EXCEPT ![b].closing = {},
                      ![b].pc = IF borrower[b].client = NoClient THEN "connect" ELSE "use"]
    /\ UNCHANGED <<hostLogin, accepted, pool, lost>>

\* The login tried next: the one of the host, then every credential that differs.
Candidates(b) == <<borrower[b].host>> \o OnlyIn(Credentials, HostLogins \ {borrower[b].host})

Opened(b) == IF borrower[b].kind = "sftp" THEN "channel" ELSE "use"

\* connect_ssh_candidate succeeds; a credential is still to be stored.
ConnectWith(b, c) ==
    LET l == Candidates(b)[borrower[b].tried + 1] IN
    /\ BorrowerAt(b, "connect") /\ l \in accepted
    /\ client' = [client EXCEPT ![c] = [open |-> TRUE, alive |-> TRUE, login |-> l]]
    /\ borrower' = [borrower EXCEPT ![b].client = c,
                      ![b].pc = IF borrower[b].tried > 0 THEN "persist" ELSE Opened(b)]
    /\ UNCHANGED <<hostLogin, accepted, pool, lost>>

\* It is refused, and the next login is tried, or it cannot reach the host.
ConnectFails(b) ==
    LET tries == borrower[b].tried + 1 IN
    /\ BorrowerAt(b, "connect")
    /\ borrower' = IF Candidates(b)[tries] \notin accepted /\ tries < Len(Candidates(b))
                   THEN [borrower EXCEPT ![b].tried = tries]
                   ELSE [borrower EXCEPT ![b] = NoBorrow]
    /\ UNCHANGED <<hostLogin, accepted, client, pool, lost>>

\* No route or time out: the search stops whatever the login.
ConnectUnreachable(b) ==
    /\ BorrowerAt(b, "connect")
    /\ borrower' = [borrower EXCEPT ![b] = NoBorrow]
    /\ UNCHANGED <<hostLogin, accepted, client, pool, lost>>

\* Mutant: the pool key is not computed again.
PersistKeepsKey(b) ==
    /\ BorrowerAt(b, "persist") /\ hostLogin # "gone"
    /\ hostLogin' = Candidates(b)[borrower[b].tried + 1]
    /\ borrower' = [borrower EXCEPT ![b].tried = 0, ![b].pc = Opened(b)]
    /\ UNCHANGED <<accepted, client, pool, lost>>

\* persist_login_candidate_to_host: the login that worked replaces the one of
\* the copy and of the row, also one an operator has saved meanwhile.
Persist(b) ==
    LET l == Candidates(b)[borrower[b].tried + 1] IN
    /\ BorrowerAt(b, "persist") /\ hostLogin # "gone"
    /\ hostLogin' = l
    /\ borrower' = [borrower EXCEPT ![b].host = l, ![b].tried = 0, ![b].pc = Opened(b)]
    /\ UNCHANGED <<accepted, client, pool, lost>>

\* The row is gone: the save raises and nobody closes the client.
PersistFails(b) ==
    /\ BorrowerAt(b, "persist") /\ hostLogin = "gone"
    /\ borrower' = [borrower EXCEPT ![b] = NoBorrow]
    /\ lost' = lost \cup {borrower[b].client}
    /\ UNCHANGED <<hostLogin, accepted, client, pool>>

\* open_sftp, which closes the client when it fails.
OpenChannel(b) ==
    /\ BorrowerAt(b, "channel")
    /\ \/ /\ client[borrower[b].client].alive
          /\ borrower' = [borrower EXCEPT ![b].pc = "use"]
          /\ UNCHANGED client
       \/ /\ client' = Close({borrower[b].client})
          /\ borrower' = [borrower EXCEPT ![b] = NoBorrow]
    /\ UNCHANGED <<hostLogin, accepted, pool, lost>>

\* Mutant: the pool is not cut.
ReturnAll(b) ==
    LET k == borrower[b].kind  c == borrower[b].client IN
    /\ BorrowerAt(b, "use") /\ k \in Pooled /\ client[c].alive
    /\ pool' = [pool EXCEPT ![k][borrower[b].host] = Append(@, [client |-> c, old |-> FALSE])]
    /\ borrower' = [borrower EXCEPT ![b].pc = "trim", ![b].client = NoClient]
    /\ UNCHANGED <<hostLogin, accepted, client, lost>>

\* A good end gives the client back; the oldest beyond the limit leave the pool.
Return(b) ==
    LET k == borrower[b].kind  c == borrower[b].client
        all == Append(pool[k][borrower[b].host], [client |-> c, old |-> FALSE])
        over == IF Len(all) > MaxIdle THEN Len(all) - MaxIdle ELSE 0 IN
    /\ BorrowerAt(b, "use") /\ k \in Pooled /\ client[c].alive
    /\ pool' = [pool EXCEPT ![k][borrower[b].host] = SubSeq(all, over + 1, Len(all))]
    /\ borrower' = [borrower EXCEPT ![b].pc = "trim", ![b].client = NoClient,
                      ![b].closing = ClientsOf(SubSeq(all, 1, over))]
    /\ UNCHANGED <<hostLogin, accepted, client, lost>>

TrimPool(b) ==
    /\ BorrowerAt(b, "trim")
    /\ client' = Close(borrower[b].closing)
    /\ borrower' = [borrower EXCEPT ![b] = NoBorrow]
    /\ UNCHANGED <<hostLogin, accepted, pool, lost>>

\* An exception, a dead client, or the end of a command: the client is closed.
Discard(b) ==
    /\ BorrowerAt(b, "use")
    /\ client' = Close({borrower[b].client})
    /\ borrower' = [borrower EXCEPT ![b] = NoBorrow]
    /\ UNCHANGED <<hostLogin, accepted, pool, lost>>

\* A download is aborted: its generator is closed where it yields, and the GeneratorExit
\* is neither an Exception nor a good end.  The client is not closed and not returned.
Abandon(b) ==
    /\ BorrowerAt(b, "use") /\ borrower[b].kind \in Pooled
    /\ borrower' = [borrower EXCEPT ![b] = NoBorrow]
    /\ lost' = lost \cup {borrower[b].client}
    /\ UNCHANGED <<hostLogin, accepted, client, pool>>

\* The remote host drops a connection.
Drop(c) ==
    /\ client[c].alive
    /\ client' = [client EXCEPT ![c].alive = FALSE]
    /\ UNCHANGED <<hostLogin, accepted, pool, borrower, lost>>

\* The idle time passes: what is in the pools now has expired.
PoolAges ==
    /\ Idling # {}
    /\ pool' = [k \in Pooled |-> [l \in HostLogins |->
                  [i \in DOMAIN pool[k][l] |-> [pool[k][l][i] EXCEPT !.old = TRUE]]]]
    /\ UNCHANGED <<hostLogin, accepted, client, borrower, lost>>

\* An operator edits the login of the host, or deletes the host.
EditHost(l) ==
    /\ hostLogin # "gone" /\ hostLogin # l
    /\ hostLogin' = l
    /\ UNCHANGED <<accepted, client, pool, borrower, lost>>

DeleteHost ==
    /\ hostLogin # "gone"
    /\ hostLogin' = "gone"
    /\ UNCHANGED <<accepted, client, pool, borrower, lost>>

BorrowerStep(b) ==
    \/ \E k \in Purposes : Borrow(b, k)
    \/ TakePooled(b) \/ SweepExpired(b)
    \/ \E c \in NewClients : ConnectWith(b, c)
    \/ ConnectFails(b) \/ ConnectUnreachable(b) \/ Persist(b) \/ PersistFails(b)
    \/ OpenChannel(b) \/ Return(b) \/ TrimPool(b) \/ Discard(b) \/ Abandon(b)

PoolNext ==
    \/ \E b \in Borrowers : BorrowerStep(b)
    \/ \E c \in Clients : Drop(c)
    \/ PoolAges \/ DeleteHost \/ \E l \in HostLogins : EditHost(l)

PoolSpec == PoolInit /\ [][PoolNext]_poolVars
----------------------------------------------------------------------------
(* Properties. *)

\* A client serves one request at a time: it is not in use twice, not in use
\* while it is idle in a pool, and not in two places of the pools.
ExclusiveUse ==
    /\ \A b, a \in Borrowers : b # a => Held(b) \cap Held(a) = {}
    /\ \A b \in Borrowers : Held(b) \cap Idling = {}
    /\ \A k \in Pooled, l \in HostLogins : \A i, j \in DOMAIN pool[k][l] :
         pool[k][l][i].client = pool[k][l][j].client => i = j
    /\ \A k, j \in Pooled, l, m \in HostLogins :
         <<k, l>> # <<j, m>> => ClientsOf(pool[k][l]) \cap ClientsOf(pool[j][m]) = {}

\* A request works with a connection opened with the login its host has: also
\* after an operator changed the login, or a credential took its place.
UsesOwnLogin ==
    /\ \A b \in Borrowers :
         borrower[b].pc \in {"use", "channel"} =>
            /\ client[borrower[b].client].open
            /\ client[borrower[b].client].login = borrower[b].host
    /\ \A k \in Pooled, l \in HostLogins : \A c \in ClientsOf(pool[k][l]) : client[c].login = l

\* No connection is left open that nobody will close, but by the two ways out that close
\* nothing: an aborted download, and a host deleted while its credential was stored.
NoConnectionLost ==
    \A c \in Clients :
      client[c].open => c \in lost \cup Idling \cup UNION {Held(b) : b \in Borrowers}

\* Idle clients of one host, login and kind stay within the limit.
IdleWithinLimit == \A k \in Pooled, l \in HostLogins : Len(pool[k][l]) <= MaxIdle

\* A connection serves one request at a time, with the login of its host; few are idle,
\* and none is lost but by the two ways out that close nothing.
PoolHolds == ExclusiveUse /\ UsesOwnLogin /\ NoConnectionLost /\ IdleWithinLimit
=============================================================================
