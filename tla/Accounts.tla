------------------------------ MODULE Accounts ------------------------------
(***************************************************************************)
(* One user account of the gateway (src/gateway/src/store/users.ts): its   *)
(* record, the gateway tokens that map to it, the per-isolate cache in     *)
(* front of both and the per-key lock that queues the writers of one       *)
(* isolate (store/cache.ts).                                               *)
(*                                                                         *)
(* Writers and readers are split at their awaits.  A write of KV and what  *)
(* follows its await without another one are a step each where the cache   *)
(* is set, so that a reader's late fill may land on either side.  KV is    *)
(* taken for one strongly consistent store.  A fresh token is named by the *)
(* operation that draws it.                                                *)
(*                                                                         *)
(* A definition named X_Y is X with one plausible mistake in it; no        *)
(* specification uses it.  The properties are shown to notice it.          *)
(***************************************************************************)
EXTENDS Naturals

CONSTANTS
  Ops,        \* calls that change the account
  Readers,    \* calls of findUserByToken
  Isolates,   \* worker isolates
  Kinds,      \* what the calls do
  First,      \* the account's first token
  None        \* no token, no operation, no cached entry

KindsAssumption ==
  Kinds \subseteq {"enable", "disable", "regenerate", "rotate", "revoke"}

Tokens == {First} \cup Ops

Account == [enabled : BOOLEAN, token : Tokens, relay : Tokens \cup {None}]

VARIABLES
  record,     \* KV user:<name>
  mapping,    \* the tokens whose KV entry names the user
  users,      \* per isolate the cached record
  tokens,     \* per isolate and token "absent", "user" or "nobody"
  tail,       \* __locks: per isolate the last operation queued
  before,     \* the operation each one queued behind
  pc,         \* where each operation stands
  kind,       \* which operation it is
  host,       \* the isolate it runs on
  draft,      \* its copy of the record
  look,       \* where each reader stands: "idle", "token" or "user"
  at,         \* the isolate it runs on
  asks,       \* the token it was given
  maps,       \* what its read of the mapping returned
  copy,       \* what its read of the record returned
  wanted,     \* history: each field as last written by an operation of its kind
  raced       \* history: a lock chain was evicted with operations in it

kvs == <<record, mapping>>
caches == <<users, tokens>>
locks == <<tail, before, raced>>
ops == <<pc, kind, host, draft>>
readers == <<look, at, asks, maps, copy>>
vars == <<kvs, caches, locks, ops, readers, wanted>>

Ended(o) == pc[o] \in {"done", "failed"}

UnderWay(o) == pc[o] \notin {"new", "done", "failed"}

\* A chain is kept only while an operation is in it (cache.ts:80-88).
TypeOK ==
  /\ record \in Account /\ wanted \in Account
  /\ mapping \subseteq Tokens
  /\ users \in [Isolates -> Account \cup {None}]
  /\ tokens \in [Isolates -> [Tokens -> {"absent", "user", "nobody"}]]
  /\ tail \in [Isolates -> Ops \cup {None}]
  /\ \A i \in Isolates : tail[i] # None => UnderWay(tail[i])
  /\ before \in [Ops -> Ops \cup {None}]
  /\ pc \in [Ops -> {"new", "queued", "unmap", "put", "map", "settle", "sweep",
                     "done", "failed"}]
  /\ kind \in [Ops -> Kinds] /\ host \in [Ops -> Isolates]
  /\ draft \in [Ops -> Account]
  /\ look \in [Readers -> {"idle", "token", "user"}]
  /\ at \in [Readers -> Isolates] /\ asks \in [Readers -> Tokens]
  /\ maps \in [Readers -> BOOLEAN] /\ copy \in [Readers -> Account]
  /\ raced \in BOOLEAN

Fresh == [enabled |-> TRUE, token |-> First, relay |-> None]

Init ==
  /\ record = Fresh /\ wanted = Fresh /\ mapping = {First}
  /\ users = [i \in Isolates |-> None]
  /\ tokens = [i \in Isolates |-> [t \in Tokens |-> "absent"]]
  /\ tail = [i \in Isolates |-> None]
  /\ before = [o \in Ops |-> None]
  /\ pc = [o \in Ops |-> "new"]
  /\ kind \in [Ops -> Kinds] /\ host \in [Ops -> Isolates]
  /\ draft = [o \in Ops |-> Fresh]
  /\ look = [r \in Readers |-> "idle"]
  /\ at \in [Readers -> Isolates]
  /\ asks = [r \in Readers |-> First]
  /\ maps = [r \in Readers |-> FALSE]
  /\ copy = [r \in Readers |-> Fresh]
  /\ raced = FALSE

-----------------------------------------------------------------------------
(* withKeyLock on user:<name>                                              *)

Goes(o, where) == pc' = [pc EXCEPT ![o] = where]

\* prev.then(fn, fn): behind the last operation queued, however that one ends.
Issue(o) ==
  /\ pc[o] = "new"
  /\ before' = [before EXCEPT ![o] = tail[host[o]]]
  /\ tail' = [tail EXCEPT ![host[o]] = o]
  /\ Goes(o, "queued")
  /\ UNCHANGED <<kvs, caches, raced, kind, host, draft, readers, wanted>>

Turn_Unqueued(o) ==
  before[o] # None /\ kind[o] \notin {"enable", "disable"} => Ended(before[o])
Turn(o) == before[o] # None => Ended(before[o])

Leaves_Unpruned(o, where) == Goes(o, where) /\ UNCHANGED locks
\* The chain of an operation that ends last is pruned.
Leaves(o, where) ==
  /\ Goes(o, where)
  /\ tail' = [tail EXCEPT ![host[o]] = IF @ = o THEN None ELSE @]
  /\ UNCHANGED <<before, raced>>

\* The 513th key of the isolate evicts this one's chain.
Forget(i) ==
  /\ tail[i] # None
  /\ tail' = [tail EXCEPT ![i] = None]
  /\ raced' = TRUE
  /\ UNCHANGED <<kvs, caches, before, ops, readers, wanted>>

-----------------------------------------------------------------------------
(* setUserEnabled, regenerateToken, rotateRelayToken, revokeRelayToken     *)

\* The token that the operation retires.
Old(o) == IF kind[o] = "regenerate" THEN draft[o].token ELSE draft[o].relay

Changed(o, u) ==
  CASE kind[o] = "enable" -> [u EXCEPT !.enabled = TRUE]
    [] kind[o] = "disable" -> [u EXCEPT !.enabled = FALSE]
    [] kind[o] = "regenerate" -> [u EXCEPT !.token = o]
    [] kind[o] = "rotate" -> [u EXCEPT !.relay = o]
    [] kind[o] = "revoke" -> [u EXCEPT !.relay = None]

\* The record is read from KV, not from the cache.
Read(o) ==
  /\ pc[o] = "queued" /\ Turn(o)
  /\ draft' = [draft EXCEPT ![o] = record]
  /\ LET retires == \/ kind[o] = "regenerate"
                    \/ kind[o] \in {"rotate", "revoke"} /\ record.relay # None
     IN CASE retires -> Goes(o, "unmap") /\ UNCHANGED locks
          [] ~retires /\ kind[o] = "revoke" -> Leaves(o, "done")
          [] OTHER -> Goes(o, "put") /\ UNCHANGED locks
  /\ UNCHANGED <<kvs, caches, kind, host, readers, wanted>>

Forgets(i, gone) ==
  tokens' = [tokens EXCEPT ![i] =
               [t \in Tokens |-> IF t \in gone THEN "absent" ELSE @[t]]]

\* What its requests do in KV.
Unmaps(o) ==
  /\ pc[o] = "unmap"
  /\ mapping' = mapping \ {Old(o)}
  /\ UNCHANGED <<record, wanted>>

Puts(o) ==
  /\ pc[o] = "put"
  /\ record' = Changed(o, draft[o])
  /\ wanted' = Changed(o, wanted)
  /\ UNCHANGED mapping

Maps(o) ==
  /\ pc[o] = "map"
  /\ mapping' = mapping \cup {o}
  /\ UNCHANGED <<record, wanted>>

Unmap(o) ==
  /\ Unmaps(o)
  /\ Forgets(host[o], {Old(o)})
  /\ Goes(o, "put")
  /\ UNCHANGED <<users, locks, kind, host, draft, readers>>

PutRecord(o) ==
  /\ Puts(o)
  /\ draft' = [draft EXCEPT ![o] = record']
  /\ Goes(o, IF kind[o] \in {"regenerate", "rotate"} THEN "map" ELSE "settle")
  /\ UNCHANGED <<caches, locks, kind, host, readers>>

PutToken(o) ==
  /\ Maps(o)
  /\ Goes(o, "settle")
  /\ UNCHANGED <<caches, locks, kind, host, draft, readers>>

\* The write-through: cset of the record, and of the token drawn.
Settle(o) ==
  /\ pc[o] = "settle"
  /\ users' = [users EXCEPT ![host[o]] = draft[o]]
  /\ tokens' = IF kind[o] \in {"regenerate", "rotate"}
                 THEN [tokens EXCEPT ![host[o]][o] = "user"] ELSE tokens
  /\ \/ kind[o] = "regenerate" /\ Goes(o, "sweep") /\ UNCHANGED locks
     \/ kind[o] # "regenerate" /\ Leaves(o, "done")
  /\ UNCHANGED <<kvs, kind, host, draft, readers, wanted>>

Kept_NewOnly(o) == {o}
Kept(o) == {o, draft[o].relay}

\* Every other token that names the user goes; an error ends the sweep early.
Sweep(o) ==
  /\ pc[o] = "sweep"
  /\ \E gone \in SUBSET (mapping \ Kept(o)) :
       /\ mapping' = mapping \ gone
       /\ Forgets(host[o], gone)
       /\ Leaves(o, IF gone = mapping \ Kept(o) THEN "done" ELSE "failed")
  /\ UNCHANGED <<record, users, kind, host, draft, readers, wanted>>

\* A request to KV fails, or does its work and is not answered, and the operation
\* throws.
Fails(o) ==
  /\ \/ pc[o] \in {"unmap", "put", "map"} /\ UNCHANGED <<kvs, wanted>>
     \/ pc[o] = "queued" /\ Turn(o) /\ UNCHANGED <<kvs, wanted>>
     \/ Unmaps(o) \/ Puts(o) \/ Maps(o)
  /\ Leaves(o, "failed")
  /\ UNCHANGED <<caches, kind, host, draft, readers>>

-----------------------------------------------------------------------------
(* findUserByToken and getUser                                             *)

Awaits(r, where, token, mapped, account) ==
  /\ look' = [look EXCEPT ![r] = where]
  /\ asks' = [asks EXCEPT ![r] = token]
  /\ maps' = [maps EXCEPT ![r] = mapped]
  /\ copy' = [copy EXCEPT ![r] = account]
  /\ UNCHANGED at

Rests(r) == Awaits(r, "idle", First, FALSE, Fresh)

\* getUser: a cached record ends the call, else KV is read.
GetUser(r) ==
  IF users[at[r]] # None THEN Rests(r)
                         ELSE Awaits(r, "user", First, FALSE, record)

FindUser(r) ==
  /\ look[r] = "idle"
  /\ \E t \in Tokens :
       \/ /\ tokens[at[r]][t] = "absent"
          /\ Awaits(r, "token", t, t \in mapping, Fresh)
       \/ /\ tokens[at[r]][t] = "user"
          /\ GetUser(r)
  /\ UNCHANGED <<kvs, caches, locks, ops, wanted>>

Mapped(names) == IF names THEN "user" ELSE "nobody"

\* The read of the mapping returns, is cached, and getUser follows.
FillToken(r) ==
  /\ look[r] = "token"
  /\ tokens' = [tokens EXCEPT ![at[r]][asks[r]] = Mapped(maps[r])]
  /\ IF maps[r] THEN GetUser(r) ELSE Rests(r)
  /\ UNCHANGED <<kvs, users, locks, ops, wanted>>

FillUser(r) ==
  /\ look[r] = "user"
  /\ users' = [users EXCEPT ![at[r]] = copy[r]]
  /\ Rests(r)
  /\ UNCHANGED <<kvs, tokens, locks, ops, wanted>>

\* A minute after it was set an entry is gone, or earlier if the cache is full.
ExpireUser_Never(i) == FALSE
ExpireUser(i) ==
  /\ users[i] # None
  /\ users' = [users EXCEPT ![i] = None]
  /\ UNCHANGED <<kvs, tokens, locks, ops, readers, wanted>>

ExpireToken(i, t) ==
  /\ tokens[i][t] # "absent"
  /\ tokens' = [tokens EXCEPT ![i][t] = "absent"]
  /\ UNCHANGED <<kvs, users, locks, ops, readers, wanted>>

-----------------------------------------------------------------------------
Operate(o) ==
  \/ Issue(o) \/ Read(o) \/ Unmap(o) \/ PutRecord(o) \/ PutToken(o)
  \/ Settle(o) \/ Sweep(o) \/ Fails(o)

Look(r) == FindUser(r) \/ FillToken(r) \/ FillUser(r)

Expire(i) == ExpireUser(i) \/ \E t \in Tokens : ExpireToken(i, t)

Next ==
  \/ \E o \in Ops : Operate(o)
  \/ \E r \in Readers : Look(r)
  \/ \E i \in Isolates : Expire(i) \/ Forget(i)

Spec == Init /\ [][Next]_vars

\* Cached entries run out; nobody has to call anything.
Expiry == \A i \in Isolates :
  /\ WF_vars(ExpireUser(i))
  /\ \A t \in Tokens : WF_vars(ExpireToken(i, t))

FairSpec == Spec /\ Expiry

-----------------------------------------------------------------------------
(* Properties                                                              *)

\* Every operation has been queued by the same isolate, and no chain evicted.
OneQueue == ~raced /\ \A o, p \in Ops : host[o] = host[p]

\* Operations of one isolate lose no field that another has written, however
\* they interleave and wherever one fails: what setUserEnabled writes leaves the
\* tokens as they are, and the other way round (users.ts:163-166).
NoLostUpdate == OneQueue => record = wanted

\* At rest, and with no request failed, exactly the tokens of the record resolve
\* to the user: a retired token is dead, a new one and the relay token are not.
TokensAreTheRecords ==
  OneQueue /\ (\A o \in Ops : pc[o] \in {"new", "done"})
    => mapping = {record.token, record.relay} \ {None}

\* On every isolate, whatever fills raced whatever writes, a cached record or
\* token that is out of date does not stay.
CachesCatchUp ==
  <>[](\A i \in Isolates :
         /\ users[i] \in {None, record}
         /\ \A t \in Tokens : tokens[i][t] \in {"absent", Mapped(t \in mapping)})

\* "every write refreshes the cache immediately (write-through), so admin
\* changes take effect instantly on the hot isolate" (cache.ts:17-19): once the
\* operations of the only isolate that writes are done, its cached record is the
\* record.
HotIsolateIsCurrent ==
  \A i \in Isolates :
    (\A o \in Ops : pc[o] = "done" /\ host[o] = i) => users[i] \in {None, record}
=============================================================================
