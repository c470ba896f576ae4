--------------------------- MODULE AccountsProofs ---------------------------
(***************************************************************************)
(* Proofs about Accounts, for every set of operations, of readers and of   *)
(* isolates: what the per-key queue of an isolate is good for.             *)
(***************************************************************************)
EXTENDS Accounts, TLAPS

Assumptions == KindsAssumption /\ None \notin Tokens /\ First \notin Ops

(***************************************************************************)
(* Types of what the proofs are about.                                     *)
(***************************************************************************)
Section == {"unmap", "put", "map", "settle", "sweep"}

QueueType ==
  /\ tail \in [Isolates -> Ops \cup {None}]
  /\ before \in [Ops -> Ops \cup {None}]
  /\ pc \in [Ops -> {"new", "queued", "done", "failed"} \cup Section]
  /\ host \in [Ops -> Isolates]
  /\ raced \in BOOLEAN

RecordType ==
  /\ record \in Account /\ draft \in [Ops -> Account] /\ kind \in [Ops -> Kinds]

Typed == QueueType /\ RecordType

LEMMA ChangedType ==
  ASSUME Assumptions, Typed, NEW o \in Ops, NEW u \in Account
  PROVE  Changed(o, u) \in Account
<1>1. kind[o] \in {"enable", "disable", "regenerate", "rotate", "revoke"}
  BY DEF Assumptions, KindsAssumption, Typed, RecordType
<1>2. o \in Tokens
  BY DEF Tokens
<1>3. QED
  BY <1>1, <1>2 DEF Changed, Account

LEMMA LeavesType ==
  ASSUME QueueType, NEW o \in Ops, NEW where \in {"done", "failed"}, Leaves(o, where),
         UNCHANGED host
  PROVE  QueueType'
  BY DEF Leaves, Goes, QueueType

\* A failing operation has its turn or is past it; of KV it leaves what its
\* requests did.
LEMMA FailsBy ==
  ASSUME NEW o \in Ops, Fails(o)
  PROVE  /\ pc[o] \in {"queued", "unmap", "put", "map"}
         /\ pc[o] = "queued" => Turn(o)
         /\ Leaves(o, "failed")
         /\ UNCHANGED <<caches, kind, host, draft, readers>>
         /\ Puts(o) \/ UNCHANGED <<record, wanted>>
<1>1. /\ pc[o] \in {"queued", "unmap", "put", "map"}
      /\ pc[o] = "queued" => Turn(o)
  BY DEF Fails, Unmaps, Puts, Maps
<1>2. Leaves(o, "failed") /\ UNCHANGED <<caches, kind, host, draft, readers>>
  BY DEF Fails
<1>3. Puts(o) \/ UNCHANGED <<record, wanted>>
  BY DEF Fails, Unmaps, Maps, kvs
<1>4. QED
  BY <1>1, <1>2, <1>3

LEMMA OperateType ==
  ASSUME Assumptions, Typed, NEW o \in Ops, Operate(o)
  PROVE  Typed'
<1> USE DEF Goes, kvs, caches, locks, readers
<1>1. CASE Issue(o)
  BY <1>1 DEF Issue, Typed, QueueType, RecordType
<1>2. CASE Read(o)
  <2>1. RecordType'
    BY <1>2 DEF Read, Typed, RecordType
  <2>2. CASE Leaves(o, "done")
    BY <1>2, <2>1, <2>2, LeavesType DEF Read, Typed
  <2>3. CASE ~Leaves(o, "done")
    BY <1>2, <2>1, <2>3 DEF Read, Typed, QueueType, Section
  <2>4. QED
    BY <2>2, <2>3
<1>3. CASE Unmap(o)
  BY <1>3 DEF Unmap, Unmaps, Typed, QueueType, RecordType, Section
<1>4. CASE PutRecord(o)
  <2>1. record' \in Account /\ draft' = [draft EXCEPT ![o] = record']
    BY <1>4, ChangedType DEF PutRecord, Puts, Typed, RecordType
  <2>2. RecordType'
    BY <1>4, <2>1 DEF PutRecord, Puts, Typed, RecordType
  <2>3. QED
    BY <1>4, <2>2 DEF PutRecord, Puts, Typed, QueueType, Section
<1>5. CASE PutToken(o)
  BY <1>5 DEF PutToken, Maps, Typed, QueueType, RecordType, Section
<1>6. CASE Settle(o)
  <2>1. RecordType'
    BY <1>6 DEF Settle, Typed, RecordType
  <2>2. CASE Leaves(o, "done")
    BY <1>6, <2>1, <2>2, LeavesType DEF Settle, Typed
  <2>3. CASE ~Leaves(o, "done")
    BY <1>6, <2>1, <2>3 DEF Settle, Typed, QueueType, Section
  <2>4. QED
    BY <2>2, <2>3
<1>7. CASE Sweep(o)
  <2>1. RecordType' /\ UNCHANGED host
    BY <1>7 DEF Sweep, Typed, RecordType
  <2>2. PICK where \in {"done", "failed"} : Leaves(o, where)
    BY <1>7 DEF Sweep
  <2>3. QED
    BY <2>1, <2>2, LeavesType DEF Typed
<1>8. CASE Fails(o)
  <2>1. Leaves(o, "failed") /\ UNCHANGED <<kind, host, draft>>
    BY <1>8, FailsBy
  <2>2. Puts(o) \/ UNCHANGED record
    BY <1>8, FailsBy
  <2>3. record' \in Account
    <3>1. draft[o] \in Account /\ record \in Account
      BY DEF Typed, RecordType
    <3>2. QED
      BY <2>2, <3>1, ChangedType DEF Puts
  <2>4. RecordType'
    BY <2>1, <2>3 DEF Typed, RecordType
  <2>5. QED
    BY <2>1, <2>4, LeavesType DEF Typed
<1>9. QED
  BY <1>1, <1>2, <1>3, <1>4, <1>5, <1>6, <1>7, <1>8 DEF Operate

\* Readers and expiry touch neither the queue nor the record.
LEMMA Bystanders ==
  ASSUME (\E r \in Readers : Look(r)) \/ (\E i \in Isolates : Expire(i)) \/ UNCHANGED vars
  PROVE  UNCHANGED <<tail, before, raced, pc, kind, host, draft, record, mapping, wanted>>
  BY DEF Look, FindUser, FillToken, FillUser, Expire, ExpireUser, ExpireToken,
         kvs, caches, locks, ops, vars

LEMMA TypeAlways ==
  ASSUME Assumptions
  PROVE  Spec => []Typed
<1>1. Init => Typed
  <2>1. Fresh \in Account
    BY DEF Fresh, Account, Tokens
  <2>2. Init => QueueType
    BY ZenonT(30) DEF Init, QueueType
  <2>3. Init => RecordType
    BY <2>1 DEF Init, RecordType
  <2>4. QED
    BY <2>2, <2>3 DEF Typed
<1>2. Typed /\ [Next]_vars => Typed'
  <2>1. ASSUME Typed, NEW i \in Isolates, Forget(i) PROVE Typed'
    BY <2>1 DEF Forget, Typed, QueueType, RecordType, kvs, ops
  <2>2. ASSUME Typed, UNCHANGED <<tail, before, raced, pc, kind, host, draft, record>>
        PROVE  Typed'
    BY <2>2 DEF Typed, QueueType, RecordType
  <2>3. QED
    BY <2>1, <2>2, OperateType, Bystanders DEF Next
<1>3. QED
  BY <1>1, <1>2, PTL DEF Spec

(***************************************************************************)
(* The types of the rest, and the chains: the one that an isolate keeps    *)
(* ends in an operation of its own that is still under way.                *)
(***************************************************************************)
Cached == {"absent", "user", "nobody"}

CacheType ==
  /\ wanted \in Account /\ mapping \subseteq Tokens
  /\ users \in [Isolates -> Account \cup {None}]
  /\ tokens \in [Isolates -> [Tokens -> Cached]]

ReaderType ==
  /\ look \in [Readers -> {"idle", "token", "user"}]
  /\ at \in [Readers -> Isolates] /\ asks \in [Readers -> Tokens]
  /\ maps \in [Readers -> BOOLEAN] /\ copy \in [Readers -> Account]

ChainInv ==
  \A i \in Isolates : tail[i] # None => UnderWay(tail[i]) /\ host[tail[i]] = i

LEMMA ForgetsType ==
  ASSUME CacheType, NEW i \in Isolates, NEW gone, Forgets(i, gone)
  PROVE  tokens' \in [Isolates -> [Tokens -> Cached]]
<1> DEFINE row == [t \in Tokens |-> IF t \in gone THEN "absent" ELSE tokens[i][t]]
<1>1. row \in [Tokens -> Cached]
  BY DEF CacheType, Cached
<1>2. tokens' = [tokens EXCEPT ![i] = row]
  BY DEF Forgets
<1> HIDE DEF row
<1>3. QED
  BY <1>1, <1>2 DEF CacheType

LEMMA EntryType ==
  ASSUME CacheType, NEW i \in Isolates, NEW t \in Tokens, NEW e \in Cached
  PROVE  [tokens EXCEPT ![i][t] = e] \in [Isolates -> [Tokens -> Cached]]
<1> DEFINE row == [tokens[i] EXCEPT ![t] = e]
<1>1. row \in [Tokens -> Cached]
  BY DEF CacheType
<1>2. [tokens EXCEPT ![i] = row] \in [Isolates -> [Tokens -> Cached]]
  BY <1>1 DEF CacheType
<1>3. QED
  BY <1>2

LEMMA OperateCaches ==
  ASSUME Assumptions, Typed, CacheType, NEW o \in Ops, Operate(o)
  PROVE  CacheType' /\ UNCHANGED readers
<1>a. /\ host[o] \in Isolates /\ draft[o] \in Account /\ record \in Account
      /\ o \in Tokens
  BY DEF Typed, QueueType, RecordType, Tokens
<1> USE DEF kvs, caches
<1>1. CASE Issue(o) \/ Read(o)
  BY <1>1 DEF Issue, Read, CacheType
<1>2. CASE Unmap(o)
  <2>1. tokens' \in [Isolates -> [Tokens -> Cached]]
    BY <1>2, <1>a, ForgetsType DEF Unmap, Unmaps
  <2>2. QED
    BY <1>2, <2>1 DEF Unmap, Unmaps, CacheType
<1>3. CASE PutRecord(o)
  <2>1. Changed(o, wanted) \in Account
    BY ChangedType DEF CacheType
  <2>2. QED
    BY <1>3, <2>1 DEF PutRecord, Puts, CacheType
<1>4. CASE PutToken(o)
  BY <1>4, <1>a DEF PutToken, Maps, CacheType
<1>5. CASE Settle(o)
  <2>1. tokens' \in [Isolates -> [Tokens -> Cached]]
    <3>1. [tokens EXCEPT ![host[o]][o] = "user"] \in [Isolates -> [Tokens -> Cached]]
      BY <1>a, EntryType DEF Cached
    <3>2. QED
      BY <1>5, <3>1 DEF Settle, CacheType
  <2>2. users' \in [Isolates -> Account \cup {None}]
    BY <1>5, <1>a DEF Settle, CacheType
  <2>3. QED
    BY <1>5, <2>1, <2>2 DEF Settle, CacheType
<1>6. CASE Sweep(o)
  <2>1. PICK gone : Forgets(host[o], gone) /\ mapping' = mapping \ gone
    BY <1>6 DEF Sweep
  <2>2. tokens' \in [Isolates -> [Tokens -> Cached]]
    BY <1>a, <2>1, ForgetsType
  <2>3. QED
    BY <1>6, <2>1, <2>2 DEF Sweep, CacheType
<1>7. CASE Fails(o)
  <2>1. wanted' \in Account
    <3>1. wanted \in Account
      BY DEF CacheType
    <3>2. CASE Puts(o)
      BY <3>1, <3>2, ChangedType DEF Puts
    <3>3. QED
      BY <1>7, <3>1, <3>2, FailsBy
  <2>2. mapping' \subseteq Tokens
    BY <1>7, <1>a DEF Fails, Unmaps, Puts, Maps, CacheType
  <2>3. UNCHANGED <<users, tokens, readers>>
    BY <1>7, FailsBy
  <2>4. QED
    BY <2>1, <2>2, <2>3 DEF CacheType
<1>8. QED
  BY <1>1, <1>2, <1>3, <1>4, <1>5, <1>6, <1>7 DEF Operate

LEMMA AwaitsType ==
  ASSUME ReaderType, NEW r \in Readers, NEW where \in {"idle", "token", "user"},
         NEW token \in Tokens, NEW mapped \in BOOLEAN, NEW account \in Account,
         Awaits(r, where, token, mapped, account)
  PROVE  ReaderType'
  BY DEF Awaits, ReaderType

LEMMA RestsType ==
  ASSUME Typed, ReaderType, NEW r \in Readers, Rests(r) \/ GetUser(r)
  PROVE  ReaderType'
<1>1. First \in Tokens /\ Fresh \in Account /\ record \in Account
  BY DEF Tokens, Fresh, Account, Typed, RecordType
<1>2. CASE Rests(r)
  BY <1>1, <1>2, AwaitsType DEF Rests
<1>3. QED
  BY <1>1, <1>2, AwaitsType DEF GetUser

LEMMA LookTypes ==
  ASSUME Typed, CacheType, ReaderType, NEW r \in Readers, Look(r)
  PROVE  CacheType' /\ ReaderType'
<1>a. First \in Tokens /\ Fresh \in Account
  BY DEF Tokens, Fresh, Account
<1>b. at[r] \in Isolates /\ asks[r] \in Tokens /\ copy[r] \in Account
  BY DEF ReaderType
<1> USE DEF kvs, caches
<1>1. CASE FindUser(r)
  <2>1. CacheType'
    BY <1>1 DEF FindUser, CacheType
  <2>2. PICK t \in Tokens :
          Awaits(r, "token", t, t \in mapping, Fresh) \/ GetUser(r)
    BY <1>1 DEF FindUser
  <2>3. CASE Awaits(r, "token", t, t \in mapping, Fresh)
    <3> DEFINE mapped == t \in mapping
    <3>1. mapped \in BOOLEAN
      OBVIOUS
    <3>2. Awaits(r, "token", t, mapped, Fresh)
      BY <2>3
    <3> HIDE DEF mapped
    <3>3. maps' \in [Readers -> BOOLEAN]
      BY <3>1, <3>2, Zenon DEF Awaits, ReaderType
    <3>4. /\ look' \in [Readers -> {"idle", "token", "user"}] /\ at' \in [Readers -> Isolates]
          /\ asks' \in [Readers -> Tokens] /\ copy' \in [Readers -> Account]
      BY <1>a, <3>2 DEF Awaits, ReaderType
    <3>5. QED
      BY <2>1, <3>3, <3>4 DEF ReaderType
  <2>4. QED
    BY <2>1, <2>2, <2>3, RestsType
<1>2. CASE FillToken(r)
  <2>1. Mapped(maps[r]) \in Cached
    BY DEF Mapped, Cached
  <2>2. tokens' \in [Isolates -> [Tokens -> Cached]]
    BY <1>2, <1>b, <2>1, EntryType DEF FillToken
  <2>3. CacheType'
    BY <1>2, <2>2 DEF FillToken, CacheType
  <2>4. QED
    BY <1>2, <2>3, RestsType DEF FillToken
<1>3. CASE FillUser(r)
  <2>1. CacheType'
    BY <1>3, <1>b DEF FillUser, CacheType
  <2>2. QED
    BY <1>3, <2>1, RestsType DEF FillUser
<1>4. QED
  BY <1>1, <1>2, <1>3 DEF Look

LEMMA ChainStep ==
  ASSUME Assumptions, Typed, ChainInv, [Next]_vars
  PROVE  ChainInv'
<1>a. /\ tail \in [Isolates -> Ops \cup {None}] /\ None \notin Ops
      /\ pc \in [Ops -> {"new", "queued", "done", "failed"} \cup Section]
      /\ host \in [Ops -> Isolates]
  BY DEF Assumptions, Tokens, Typed, QueueType
<1>1. ASSUME NEW i \in Isolates, Forget(i) PROVE ChainInv'
  BY <1>1, <1>a DEF Forget, ops, ChainInv, UnderWay
<1>2. ASSUME NEW o \in Ops, Issue(o) PROVE ChainInv'
  <2>1. /\ tail' = [tail EXCEPT ![host[o]] = o] /\ pc' = [pc EXCEPT ![o] = "queued"]
        /\ host' = host
    BY <1>2 DEF Issue, Goes
  <2>2. QED
    BY <1>a, <2>1 DEF ChainInv, UnderWay
<1>3. ASSUME NEW o \in Ops, NEW where \in {"done", "failed"}, Leaves(o, where),
             UNCHANGED host
      PROVE  ChainInv'
  <2>1. /\ tail' = [tail EXCEPT ![host[o]] = IF tail[host[o]] = o THEN None ELSE tail[host[o]]]
        /\ pc' = [pc EXCEPT ![o] = where]
    BY <1>3 DEF Leaves, Goes
  <2>2. \A i \in Isolates : tail'[i] # None => tail'[i] = tail[i] /\ tail[i] # o
    BY <1>a, <2>1 DEF ChainInv
  <2>3. QED
    BY <1>3, <1>a, <2>1, <2>2 DEF ChainInv, UnderWay
<1>4. ASSUME NEW o \in Ops, NEW where \in Section, Goes(o, where), UNCHANGED <<tail, host>>
      PROVE  ChainInv'
  BY <1>4, <1>a DEF Goes, ChainInv, UnderWay, Section
<1>5. ASSUME NEW o \in Ops, Operate(o) PROVE ChainInv'
  <2>1. CASE Read(o)
    BY <2>1, <1>3, <1>4 DEF Read, locks, Section
  <2>2. CASE Unmap(o) \/ PutRecord(o) \/ PutToken(o)
    BY <2>2, <1>4 DEF Unmap, Unmaps, PutRecord, Puts, PutToken, Maps, locks, Section
  <2>3. CASE Settle(o)
    BY <2>3, <1>3, <1>4 DEF Settle, locks, Section
  <2>4. CASE Sweep(o)
    <3>1. PICK where \in {"done", "failed"} : Leaves(o, where)
      BY <2>4 DEF Sweep
    <3>2. QED
      BY <2>4, <3>1, <1>3 DEF Sweep
  <2>5. CASE Fails(o)
    BY <2>5, <1>3 DEF Fails
  <2>6. QED
    BY <1>2, <1>5, <2>1, <2>2, <2>3, <2>4, <2>5 DEF Operate
<1>6. CASE UNCHANGED <<tail, pc, host>>
  BY <1>6 DEF ChainInv, UnderWay
<1>7. QED
  BY <1>1, <1>5, <1>6, Bystanders DEF Next

\* An account has its types, and an isolate keeps a chain of the lock only while
\* an operation is in it (cache.ts:80-88).
THEOREM AccountTyped ==
  ASSUME Assumptions
  PROVE  Spec => []TypeOK
<1>1. Init => CacheType /\ ReaderType /\ ChainInv
  <2>1. First \in Tokens /\ Fresh \in Account
    BY DEF Tokens, Fresh, Account
  <2>2. Init => CacheType
    BY <2>1 DEF Init, CacheType, Cached
  <2>3. Init => ReaderType
    BY <2>1 DEF Init, ReaderType
  <2>4. QED
    BY <2>2, <2>3 DEF Init, ChainInv
<1>2. Typed /\ (CacheType /\ ReaderType /\ ChainInv) /\ [Next]_vars
        => (CacheType /\ ReaderType /\ ChainInv)'
  <2>1. SUFFICES ASSUME Typed, CacheType, ReaderType, ChainInv, [Next]_vars
                 PROVE  CacheType' /\ ReaderType'
    BY ChainStep
  <2>2. ASSUME NEW o \in Ops, Operate(o) PROVE CacheType' /\ ReaderType'
    BY <2>1, <2>2, OperateCaches DEF readers, ReaderType
  <2>3. ASSUME NEW i \in Isolates, ExpireUser(i) PROVE CacheType' /\ ReaderType'
    BY <2>1, <2>3 DEF ExpireUser, kvs, readers, CacheType, ReaderType
  <2>4. ASSUME NEW i \in Isolates, NEW t \in Tokens, ExpireToken(i, t)
        PROVE  CacheType' /\ ReaderType'
    <3>1. tokens' \in [Isolates -> [Tokens -> Cached]]
      BY <2>1, <2>4, EntryType DEF ExpireToken, Cached
    <3>2. QED
      BY <2>1, <2>4, <3>1 DEF ExpireToken, kvs, readers, CacheType, ReaderType
  <2>5. CASE UNCHANGED <<wanted, mapping, caches, readers>>
    BY <2>1, <2>5 DEF caches, readers, CacheType, ReaderType
  <2>6. QED
    BY <2>1, <2>2, <2>3, <2>4, <2>5, LookTypes DEF Next, Expire, Forget, kvs, vars
<1>3. Typed /\ CacheType /\ ReaderType /\ ChainInv => TypeOK
  BY DEF Typed, QueueType, RecordType, CacheType, ReaderType, ChainInv, TypeOK, Section, Cached
<1>4. QED
  BY <1>1, <1>2, <1>3, TypeAlways, PTL DEF Spec

(***************************************************************************)
(* The queue.  The operations under way on one isolate can be numbered in  *)
(* the order they were queued: the one whose turn it is comes first, each  *)
(* other one waits for its predecessor, the tail is the last.              *)
(***************************************************************************)
Ranks(f) ==
  /\ f \in [Ops -> Nat]
  /\ \A o, p \in Ops : UnderWay(o) /\ UnderWay(p) /\ f[o] = f[p] => o = p
  /\ \A o, p \in Ops : UnderWay(o) /\ UnderWay(p) /\ Turn(o) => f[o] <= f[p]
  /\ \A o \in Ops : UnderWay(o) /\ ~Turn(o) =>
       /\ UnderWay(before[o]) /\ f[before[o]] < f[o]
       /\ \A p \in Ops : UnderWay(p) => f[p] <= f[before[o]] \/ f[o] <= f[p]
  /\ \A o \in Ops : tail[host[o]] # None =>
       /\ UnderWay(tail[host[o]])
       /\ \A p \in Ops : UnderWay(p) => f[p] <= f[tail[host[o]]]
  /\ \A o \in Ops : tail[host[o]] = None => \A p \in Ops : ~UnderWay(p)

QueueInv ==
  OneQueue =>
    /\ \E f : Ranks(f)
    /\ \A o \in Ops : pc[o] \in Section => Turn(o)

LEMMA OneSection ==
  ASSUME Typed, QueueInv, OneQueue
  PROVE  /\ \A o, p \in Ops : UnderWay(o) /\ Turn(o) /\ UnderWay(p) /\ Turn(p) => o = p
         /\ \A o, p \in Ops : pc[o] \in Section /\ pc[p] \in Section => o = p
<1>1. PICK f : Ranks(f)
  BY DEF QueueInv
<1>2. ASSUME NEW o \in Ops, NEW p \in Ops, UnderWay(o), Turn(o), UnderWay(p), Turn(p)
      PROVE  o = p
  <2>1. f[o] <= f[p] /\ f[p] <= f[o] /\ f[o] \in Nat /\ f[p] \in Nat
    BY <1>1, <1>2 DEF Ranks
  <2>2. QED
    BY <1>1, <1>2, <2>1 DEF Ranks
<1>3. \A o \in Ops : pc[o] \in Section => UnderWay(o) /\ Turn(o)
  BY DEF QueueInv, Section, UnderWay
<1>4. QED
  BY <1>2, <1>3

LEMMA IssueRanks ==
  ASSUME Assumptions, Typed, OneQueue, NEW f, Ranks(f), NEW o \in Ops, Issue(o)
  PROVE  \E g : Ranks(g)'
<1> DEFINE last == tail[host[o]]
<1>0. PICK g : g = [f EXCEPT ![o] = IF last = None THEN 0 ELSE f[last] + 1]
  OBVIOUS
<1>1. /\ last \in Ops \cup {None} /\ None \notin Ops
      /\ \A p \in Ops : host[p] = host[o] /\ host[p] \in Isolates
      /\ pc \in [Ops -> {"new", "queued", "done", "failed"} \cup Section]
  BY DEF Assumptions, Tokens, Typed, QueueType, OneQueue
<1>2. /\ pc[o] = "new" /\ pc' = [pc EXCEPT ![o] = "queued"]
      /\ before' = [before EXCEPT ![o] = last] /\ before \in [Ops -> Ops \cup {None}]
      /\ host' = host
      /\ \A p \in Ops : tail'[host'[p]] = o
  BY <1>1 DEF Issue, Goes, Typed, QueueType
<1>3. /\ ~UnderWay(o) /\ ~Ended(o)
      /\ \A p \in Ops : UnderWay(p)' <=> UnderWay(p) \/ p = o
      /\ \A p \in Ops : Ended(p)' <=> Ended(p)
  BY <1>1, <1>2 DEF UnderWay, Ended
<1>4. \A p \in Ops \ {o} : Turn(p)' <=> Turn(p)
  BY <1>2, <1>3 DEF Turn
<1>5. Turn(o)' <=> last = None
  <2>1. last # None => UnderWay(last)
    BY DEF Ranks
  <2>2. QED
    BY <1>1, <1>2, <1>3, <2>1 DEF Turn, Ended, UnderWay
<1>6. g \in [Ops -> Nat] /\ \A p \in Ops \ {o} : g[p] = f[p]
  BY <1>0, <1>1 DEF Ranks
<1>7. \A p \in Ops : UnderWay(p) => last # None /\ f[p] <= f[last] /\ g[p] < g[o]
  BY <1>0, <1>1, <1>3, <1>6 DEF Ranks
<1>8. \A p \in Ops : UnderWay(p)' => g[p] <= g[o] /\ (p # o => UnderWay(p) /\ g[p] < g[o])
  BY <1>3, <1>6, <1>7
<1>9. \A p, q \in Ops : UnderWay(p)' /\ UnderWay(q)' /\ g[p] = g[q] => p = q
  BY <1>6, <1>8 DEF Ranks
<1>10. \A p, q \in Ops : UnderWay(p)' /\ UnderWay(q)' /\ Turn(p)' => g[p] <= g[q]
  BY <1>4, <1>5, <1>6, <1>7, <1>8 DEF Ranks
<1>11. ASSUME NEW p \in Ops, UnderWay(p)', ~Turn(p)'
       PROVE  /\ UnderWay(before[p])' /\ g[before'[p]] < g[p]
              /\ \A q \in Ops : UnderWay(q)' => g[q] <= g[before'[p]] \/ g[p] <= g[q]
  <2>1. CASE p = o
    <3>1. last # None /\ before'[p] = last /\ UnderWay(last) /\ last # o
      BY <1>2, <1>3, <1>5, <1>11, <2>1 DEF Ranks
    <3>2. g[o] = f[last] + 1 /\ g[last] = f[last] /\ f[last] \in Nat
      BY <1>0, <1>1, <1>6, <3>1 DEF Ranks
    <3>3. QED
      BY <1>1, <1>2, <1>3, <1>6, <1>7, <1>8, <2>1, <3>1, <3>2
  <2>2. CASE p # o
    <3>1. /\ UnderWay(p) /\ ~Turn(p) /\ before'[p] = before[p] /\ before[p] \in Ops
          /\ UnderWay(before[p]) /\ before[p] # o
      BY <1>2, <1>3, <1>4, <1>11, <2>2 DEF Ranks, Turn
    <3>2. f[before[p]] < f[p] /\ \A q \in Ops : UnderWay(q) => f[q] <= f[before[p]] \/ f[p] <= f[q]
      BY <3>1 DEF Ranks
    <3>3. QED
      BY <1>2, <1>3, <1>6, <1>8, <2>2, <3>1, <3>2
  <2>3. QED
    BY <2>1, <2>2
<1>12. \A p \in Ops : /\ tail'[host'[p]] = o /\ o # None /\ UnderWay(o)'
                      /\ \A q \in Ops : UnderWay(q)' => g[q] <= g[o]
  BY <1>1, <1>2, <1>3, <1>8
<1>13. \A p \in Ops : UnderWay(tail[host[p]])'
  BY <1>12
<1>14. Ranks(g)'
  BY <1>6, <1>9, <1>10, <1>11, <1>12, <1>13 DEF Ranks
<1>15. QED
  BY <1>14

LEMMA LeaveRanks ==
  ASSUME Assumptions, Typed, OneQueue, NEW f, Ranks(f), NEW o \in Ops, UnderWay(o), Turn(o),
         NEW where \in {"done", "failed"}, Leaves(o, where), UNCHANGED host
  PROVE  Ranks(f)'
<1>1. /\ \A p \in Ops : host[p] = host[o] /\ host[p] \in Isolates
      /\ pc \in [Ops -> {"new", "queued", "done", "failed"} \cup Section]
      /\ before' = before /\ pc' = [pc EXCEPT ![o] = where]
      /\ \A p \in Ops : tail'[host'[p]] = IF tail[host[p]] = o THEN None ELSE tail[host[p]]
      /\ before \in [Ops -> Ops \cup {None}] /\ tail \in [Isolates -> Ops \cup {None}]
      /\ None \notin Ops
  BY DEF Typed, QueueType, OneQueue, Leaves, Goes, Assumptions, Tokens
<1>2. /\ \A p \in Ops : UnderWay(p)' <=> UnderWay(p) /\ p # o
      /\ \A p \in Ops : Ended(p)' <=> Ended(p) \/ p = o
  BY <1>1 DEF UnderWay, Ended
<1>3. \A p \in Ops : Turn(p)' <=> Turn(p) \/ before[p] = o
  BY <1>1, <1>2 DEF Turn
<1>4. \A p \in Ops : UnderWay(p) => f[o] <= f[p] /\ (f[p] <= f[o] => p = o)
  BY DEF Ranks
<1>5. \A p, q \in Ops : UnderWay(p)' /\ UnderWay(q)' /\ Turn(p)' => f[p] <= f[q]
  BY <1>1, <1>2, <1>3, <1>4 DEF Ranks
<1>6. \A p \in Ops : UnderWay(p)' /\ ~Turn(p)' =>
        /\ UnderWay(before[p])' /\ f[before'[p]] < f[p]
        /\ \A q \in Ops : UnderWay(q)' => f[q] <= f[before'[p]] \/ f[p] <= f[q]
  BY <1>1, <1>2, <1>3 DEF Ranks, Turn
<1>7. \A p \in Ops : tail'[host'[p]] # None =>
        /\ UnderWay(tail[host[p]])'
        /\ \A q \in Ops : UnderWay(q)' => f[q] <= f[tail'[host'[p]]]
  BY <1>1, <1>2 DEF Ranks
<1>8. \A p \in Ops : tail'[host'[p]] = None => \A q \in Ops : ~UnderWay(q)'
  BY <1>1, <1>2, <1>4 DEF Ranks
<1>9. QED
  BY <1>1, <1>2, <1>5, <1>6, <1>7, <1>8 DEF Ranks

LEMMA StayRanks ==
  ASSUME Typed, NEW f, Ranks(f), NEW o \in Ops, UnderWay(o),
         NEW where \in Section, Goes(o, where), UNCHANGED <<locks, host>>
  PROVE  Ranks(f)'
<1>1. /\ pc \in [Ops -> {"new", "queued", "done", "failed"} \cup Section]
      /\ before' = before /\ tail' = tail /\ host' = host
      /\ pc' = [pc EXCEPT ![o] = where]
  BY DEF Typed, QueueType, Goes, locks
<1>2. pc' \in [Ops -> {"new", "queued", "done", "failed"} \cup Section]
  BY <1>1
<1>3. \A x : (pc'[x] \notin {"new", "done", "failed"}) <=> (pc[x] \notin {"new", "done", "failed"})
  BY <1>1 DEF Section, UnderWay
<1>4. \A x : (pc'[x] \in {"done", "failed"}) <=> (pc[x] \in {"done", "failed"})
  BY <1>1 DEF Section, UnderWay
<1>5. QED
  BY <1>1, <1>3, <1>4 DEF Ranks, UnderWay, Turn, Ended

\* What an operation's step leaves of the others, and where it may go.
LEMMA OperateMoves ==
  ASSUME Assumptions, Typed, QueueInv, OneQueue, NEW o \in Ops, Operate(o)
  PROVE  /\ UNCHANGED <<host, kind, raced>>
         /\ \A p \in Ops \ {o} : pc'[p] = pc[p] /\ before'[p] = before[p]
         /\ ~Ended(o)
         /\ \/ Issue(o) /\ pc'[o] = "queued"
            \/ /\ UnderWay(o) /\ Turn(o)
               /\ \/ \E where \in {"done", "failed"} : Leaves(o, where)
                  \/ (\E where \in Section : Goes(o, where)) /\ UNCHANGED locks
<1> USE DEF Goes, kvs, caches, locks, readers
<1>0. /\ pc \in [Ops -> {"new", "queued", "done", "failed"} \cup Section]
      /\ before \in [Ops -> Ops \cup {None}]
      /\ \A p \in Ops : pc[p] \in Section => Turn(p)
  BY DEF Typed, QueueType, QueueInv
<1>1. CASE Issue(o)
  BY <1>0, <1>1 DEF Issue, Ended
<1>2. CASE Read(o)
  BY <1>0, <1>2 DEF Read, Leaves, Ended, UnderWay, Section
<1>3. CASE Unmap(o)
  BY <1>0, <1>3 DEF Unmap, Unmaps, Ended, UnderWay, Section
<1>4. CASE PutRecord(o)
  BY <1>0, <1>4 DEF PutRecord, Puts, Ended, UnderWay, Section
<1>5. CASE PutToken(o)
  BY <1>0, <1>5 DEF PutToken, Maps, Ended, UnderWay, Section
<1>6. CASE Settle(o)
  BY <1>0, <1>6 DEF Settle, Leaves, Ended, UnderWay, Section
<1>7. CASE Sweep(o)
  <2>1. \E where \in {"done", "failed"} : Leaves(o, where)
    BY <1>7 DEF Sweep
  <2>2. pc[o] = "sweep" /\ UNCHANGED <<host, kind>>
    BY <1>7 DEF Sweep
  <2>3. QED
    BY <1>0, <2>1, <2>2 DEF Leaves, Ended, UnderWay, Section
<1>8. CASE Fails(o)
  <2>1. /\ pc[o] \in {"queued", "unmap", "put", "map"}
        /\ pc[o] = "queued" => Turn(o)
        /\ Leaves(o, "failed")
        /\ UNCHANGED <<host, kind>>
    BY <1>8, FailsBy
  <2>2. Turn(o)
    BY <1>0, <2>1 DEF Section
  <2>3. QED
    BY <1>0, <2>1, <2>2 DEF Leaves, Ended, UnderWay, Section
<1>9. QED
  BY <1>1, <1>2, <1>3, <1>4, <1>5, <1>6, <1>7, <1>8 DEF Operate

\* The queue is kept by every step, for as long as it is one queue.
LEMMA QueueStep ==
  ASSUME Assumptions, Typed, QueueInv, [Next]_vars
  PROVE  (OneQueue' => OneQueue) /\ QueueInv'
<1>1. ASSUME NEW o \in Ops, Operate(o), OneQueue
      PROVE  QueueInv'
  <2>1. PICK f : Ranks(f)
    BY <1>1 DEF QueueInv
  <2>2. /\ UNCHANGED <<host, kind, raced>>
        /\ \A p \in Ops \ {o} : pc'[p] = pc[p] /\ before'[p] = before[p]
        /\ ~Ended(o)
        /\ \/ Issue(o) /\ pc'[o] = "queued"
           \/ /\ UnderWay(o) /\ Turn(o)
              /\ \/ \E where \in {"done", "failed"} : Leaves(o, where)
                 \/ (\E where \in Section : Goes(o, where)) /\ UNCHANGED locks
    BY <1>1, OperateMoves
  <2>3. \E g : Ranks(g)'
    <3>1. CASE Issue(o)
      BY <1>1, <2>1, <3>1, IssueRanks
    <3>2. ASSUME NEW where \in {"done", "failed"}, Leaves(o, where), UnderWay(o), Turn(o)
          PROVE  \E g : Ranks(g)'
      BY <1>1, <2>1, <2>2, <3>2, LeaveRanks
    <3>3. ASSUME NEW where \in Section, Goes(o, where), UNCHANGED locks, UnderWay(o)
          PROVE  \E g : Ranks(g)'
      BY <2>1, <2>2, <3>3, StayRanks
    <3>4. QED
      BY <2>2, <3>1, <3>2, <3>3
  <2>4. \A p \in Ops : pc'[p] \in Section => Turn(p)'
    <3>1. \A p \in Ops : Ended(p) => Ended(p)'
      BY <2>2 DEF Ended
    <3>2. ASSUME NEW p \in Ops, pc'[p] \in Section PROVE Turn(p)'
      <4>1. Turn(p) /\ before'[p] = before[p]
        <5>1. CASE p = o
          BY <2>2, <3>2, <5>1 DEF Section, Leaves, locks
        <5>2. CASE p # o
          BY <1>1, <2>2, <3>2, <5>2 DEF QueueInv
        <5>3. QED
          BY <5>1, <5>2
      <4>2. before[p] # None => before[p] \in Ops
        BY DEF Typed, QueueType
      <4>3. QED
        BY <3>1, <4>1, <4>2 DEF Turn
    <3>3. QED
      BY <3>2
  <2>5. QED
    BY <2>3, <2>4 DEF QueueInv
<1>2. ASSUME NEW o \in Ops, Operate(o), ~OneQueue
      PROVE  ~OneQueue' /\ QueueInv'
  <2>1. host' = host /\ (raced' = raced)
    BY <1>2 DEF Operate, Issue, Read, Unmap, PutRecord, PutToken, Settle, Sweep, Fails,
                Leaves, locks, ops
  <2>2. QED
    BY <1>2, <2>1 DEF OneQueue, QueueInv
<1>3. ASSUME NEW i \in Isolates, Forget(i)
      PROVE  ~OneQueue' /\ QueueInv'
  BY <1>3 DEF Forget, OneQueue, QueueInv
<1>4. ASSUME UNCHANGED <<tail, before, raced, pc, kind, host>>
      PROVE  (OneQueue' <=> OneQueue) /\ QueueInv'
  BY <1>4 DEF OneQueue, QueueInv, Ranks, UnderWay, Turn, Ended
<1>5. ASSUME NEW o \in Ops, Operate(o), OneQueue
      PROVE  (OneQueue' => OneQueue) /\ QueueInv'
  BY <1>1, <1>5
<1>6. QED
  BY <1>2, <1>3, <1>4, <1>5, Bystanders DEF Next

LEMMA QueueStart == ASSUME Assumptions PROVE Init => QueueInv
<1> SUFFICES ASSUME Init PROVE QueueInv
  OBVIOUS
<1>1. /\ \A o \in Ops : pc[o] = "new" /\ host[o] \in Isolates /\ tail[host[o]] = None
  BY DEF Init
<1>2. PICK f : f = [o \in Ops |-> 0]
  OBVIOUS
<1>3. \A o \in Ops : ~UnderWay(o) /\ pc[o] \notin Section
  BY <1>1 DEF UnderWay, Section
<1>4. Ranks(f)
  BY <1>1, <1>2, <1>3 DEF Ranks
<1>5. QED
  BY <1>3, <1>4 DEF QueueInv

(***************************************************************************)
(* The record.  Between its read and its write an operation's copy is the  *)
(* record: nobody else is in the section.                                  *)
(***************************************************************************)
RecordInv ==
  OneQueue =>
    /\ record = wanted
    /\ \A o \in Ops : pc[o] \in {"unmap", "put"} => draft[o] = record

LEMMA RecordStep ==
  ASSUME Assumptions, Typed, QueueInv, RecordInv, [Next]_vars
  PROVE  RecordInv'
<1> SUFFICES ASSUME OneQueue' PROVE RecordInv'
  BY DEF RecordInv
<1> USE DEF kvs, caches, readers
<1>0. OneQueue
  BY QueueStep
<1>1. /\ pc \in [Ops -> {"new", "queued", "done", "failed"} \cup Section]
      /\ draft \in [Ops -> Account]
      /\ record = wanted /\ \A o \in Ops : pc[o] \in {"unmap", "put"} => draft[o] = record
  BY <1>0 DEF Typed, QueueType, RecordType, RecordInv
<1>2. ASSUME NEW o \in Ops, Operate(o) PROVE RecordInv'
  <2>0. \A p \in Ops \ {o} : pc'[p] = pc[p]
    BY <1>0, <1>2, OperateMoves
  <2>1. CASE Read(o)
    BY <1>1, <2>0, <2>1 DEF Read, RecordInv
  <2>2. CASE PutRecord(o)
    <3>1. draft[o] = record /\ record' = wanted'
      BY <1>1, <2>2 DEF PutRecord, Puts, Changed
    <3>2. \A p \in Ops : pc[p] \in {"unmap", "put"} => p = o
      BY <1>0, <2>2, OneSection DEF PutRecord, Puts, Section
    <3>3. pc'[o] \notin {"unmap", "put"}
      BY <1>1, <2>2 DEF PutRecord, Puts, Goes
    <3>4. QED
      BY <2>0, <3>1, <3>2, <3>3 DEF RecordInv
  <2>3. CASE Issue(o) \/ Unmap(o) \/ PutToken(o) \/ Settle(o) \/ Sweep(o)
    <3>1. UNCHANGED <<record, draft, wanted>>
      BY <2>3 DEF Issue, Unmap, Unmaps, PutToken, Maps, Settle, Sweep, ops
    <3>2. pc'[o] \in {"unmap", "put"} => pc[o] \in {"unmap", "put"}
      BY <1>1, <2>3 DEF Issue, Unmap, Unmaps, PutToken, Maps, Settle, Sweep, Leaves, Goes
    <3>3. QED
      BY <1>1, <2>0, <3>1, <3>2 DEF RecordInv
  <2>4. CASE Fails(o)
    <3>1. pc'[o] = "failed" /\ UNCHANGED draft /\ (Puts(o) \/ UNCHANGED <<record, wanted>>)
      BY <1>1, <2>4, FailsBy DEF Leaves, Goes
    <3>2. CASE Puts(o)
      <4>1. draft[o] = record /\ record' = wanted'
        BY <1>1, <3>2 DEF Puts, Changed
      <4>2. \A p \in Ops : pc[p] \in {"unmap", "put"} => p = o
        BY <1>0, <3>2, OneSection DEF Puts, Section
      <4>3. QED
        BY <2>0, <3>1, <4>1, <4>2 DEF RecordInv
    <3>3. CASE UNCHANGED <<record, wanted>>
      BY <1>1, <2>0, <3>1, <3>3 DEF RecordInv
    <3>4. QED
      BY <3>1, <3>2, <3>3
  <2>5. QED
    BY <1>2, <2>1, <2>2, <2>3, <2>4 DEF Operate
<1>3. ASSUME NEW i \in Isolates, Forget(i) PROVE RecordInv'
  BY <1>3 DEF Forget, OneQueue
<1>4. ASSUME UNCHANGED <<record, wanted, draft, pc>> PROVE RecordInv'
  BY <1>1, <1>4 DEF RecordInv
<1>5. QED
  BY <1>2, <1>3, <1>4, Bystanders DEF Next

\* However many operations one isolate queues and wherever each of them fails,
\* the record holds every field as its last writer left it.
THEOREM UpdatesKept ==
  ASSUME Assumptions
  PROVE  Spec => []NoLostUpdate
<1>1. Init => RecordInv
  BY DEF Init, RecordInv
<1>2. Typed /\ QueueInv /\ RecordInv /\ [Next]_vars => QueueInv' /\ RecordInv'
  BY QueueStep, RecordStep
<1>3. RecordInv => NoLostUpdate
  BY DEF RecordInv, NoLostUpdate
<1>4. Spec => []Typed
  BY TypeAlways
<1>5. Init => QueueInv
  BY QueueStart
<1>6. QED
  BY <1>1, <1>2, <1>3, <1>4, <1>5, PTL DEF Spec

(***************************************************************************)
(* The tokens.  While nobody is in the section the tokens that map to the  *)
(* user are those of the record; the operation in it is short of the one   *)
(* it retires, and then of the one it draws.  An operation's own token is  *)
(* nobody's before it writes the record.                                   *)
(***************************************************************************)
Calm == OneQueue /\ \A o \in Ops : pc[o] # "failed"

Live(u) == {u.token, u.relay} \ {None}

Retired(o) == IF kind[o] \in {"enable", "disable"} THEN {} ELSE {Old(o)}

Distinct ==
  /\ record.token # record.relay
  /\ \A o \in Ops : pc[o] \in {"new", "queued", "unmap", "put"} =>
       o # record.token /\ o # record.relay

Stage(o) ==
  /\ pc[o] \in {"unmap", "settle", "sweep"} => mapping = Live(record)
  /\ pc[o] = "unmap" => kind[o] \notin {"enable", "disable"}
  /\ pc[o] = "put" => mapping = Live(record) \ Retired(o)
  /\ pc[o] = "map" => mapping = Live(record) \ {o} /\ o \in Live(record)
  /\ kind[o] = "regenerate" /\ pc[o] \in {"map", "settle", "sweep"} =>
       draft[o] = record /\ record.token = o
  /\ pc[o] = "sweep" => kind[o] = "regenerate"

TokenInv ==
  Calm => /\ Distinct
          /\ (\A o \in Ops : pc[o] \notin Section) => mapping = Live(record)
          /\ \A o \in Ops : Stage(o)

LEMMA OperateTokens ==
  ASSUME Assumptions, Typed, QueueInv, RecordInv, TokenInv, NEW o \in Ops, Operate(o),
         Calm, Calm'
  PROVE  TokenInv'
<1> USE DEF kvs, caches, readers, ops
<1>1. /\ pc \in [Ops -> {"new", "queued", "done", "failed"} \cup Section]
      /\ draft \in [Ops -> Account] /\ record \in Account
      /\ kind[o] \in {"enable", "disable", "regenerate", "rotate", "revoke"}
      /\ None \notin Tokens /\ Ops \subseteq Tokens /\ None \notin Ops
  BY DEF Typed, QueueType, RecordType, Assumptions, KindsAssumption, Tokens
<1>2. /\ record.token \in Tokens /\ record.token # None
  BY <1>1 DEF Account
<1>3. /\ kind' = kind
      /\ \A p \in Ops \ {o} : pc'[p] = pc[p]
  BY OperateMoves DEF Calm
<1>4. ASSUME pc[o] \in Section PROVE \A p \in Ops \ {o} : pc[p] \notin Section
  BY <1>4, OneSection DEF Calm
<1>5. /\ Distinct /\ \A p \in Ops : Stage(p)
      /\ (\A p \in Ops : pc[p] \notin Section) => mapping = Live(record)
      /\ pc[o] \in {"unmap", "put"} => draft[o] = record
  BY DEF TokenInv, RecordInv, Calm
<1>6. CASE Issue(o)
  <2>1. pc[o] = "new" /\ pc'[o] = "queued" /\ UNCHANGED <<record, mapping, draft>>
    BY <1>1, <1>6 DEF Issue, Goes
  <2>2. Distinct'
    BY <1>1, <1>3, <1>5, <2>1 DEF Distinct
  <2>3. (\A p \in Ops : pc'[p] \notin Section) => \A p \in Ops : pc[p] \notin Section
    BY <1>3, <2>1 DEF Section
  <2>4. \A p \in Ops : Stage(p)'
    BY <1>3, <1>5, <2>1 DEF Stage, Retired, Old, Live
  <2>5. QED
    BY <1>5, <2>1, <2>2, <2>3, <2>4 DEF TokenInv, Live
<1>7. CASE Read(o)
  <2>1. \A p \in Ops : pc[p] \notin Section
    BY <1>7, OneSection DEF Read, Calm, UnderWay, Section, QueueInv
  <2>2. /\ pc[o] = "queued" /\ UNCHANGED <<record, mapping>>
        /\ draft' = [draft EXCEPT ![o] = record] /\ draft'[o] = record
        /\ mapping = Live(record)
    BY <1>1, <1>5, <1>7, <2>1 DEF Read
  <2>3. \/ pc'[o] = "unmap" /\ kind[o] \notin {"enable", "disable"}
        \/ pc'[o] = "done"
        \/ pc'[o] = "put" /\ (kind[o] \in {"enable", "disable"} \/ Old(o)' = None)
    BY <1>1, <1>3, <1>7, <2>2 DEF Read, Goes, Leaves, Old
  <2>4. Distinct'
    BY <1>3, <1>5, <2>2, <2>3 DEF Distinct
  <2>5. \A p \in Ops \ {o} : Stage(p)'
    BY <1>3, <2>1 DEF Stage, Section
  <2>6. Stage(o)'
    BY <1>3, <2>2, <2>3 DEF Stage, Retired, Live
  <2>7. QED
    BY <2>2, <2>4, <2>5, <2>6 DEF TokenInv, Live
<1>8. CASE Unmap(o)
  <2>1. /\ pc[o] = "unmap" /\ pc'[o] = "put" /\ UNCHANGED <<record, draft>>
        /\ mapping' = Live(record) \ {Old(o)} /\ kind[o] \notin {"enable", "disable"}
    BY <1>1, <1>5, <1>8 DEF Unmap, Unmaps, Goes, Stage
  <2>2. Distinct'
    BY <1>3, <1>5, <2>1 DEF Distinct
  <2>3. \A p \in Ops \ {o} : Stage(p)'
    BY <1>3, <1>4, <2>1 DEF Stage, Section
  <2>4. Stage(o)'
    BY <1>3, <2>1 DEF Stage, Retired, Old, Live
  <2>5. QED
    BY <2>1, <2>2, <2>3, <2>4 DEF TokenInv, Section
<1>9. CASE PutRecord(o)
  <2>1. /\ pc[o] = "put" /\ pc'[o] \in {"map", "settle"} /\ mapping' = mapping
        /\ draft[o] = record /\ record' = Changed(o, record) /\ draft'[o] = record'
        /\ pc'[o] = "map" <=> kind[o] \in {"regenerate", "rotate"}
        /\ mapping = Live(record) \ Retired(o)
        /\ record.token # record.relay /\ o # record.token /\ o # record.relay
    BY <1>1, <1>5, <1>9 DEF PutRecord, Puts, Goes, Stage, Distinct
  <2>2. /\ record' = [enabled |-> record'.enabled, token |-> record'.token, relay |-> record'.relay]
        /\ record'.token = (IF kind[o] = "regenerate" THEN o ELSE record.token)
        /\ record'.relay = (IF kind[o] = "rotate" THEN o
                            ELSE IF kind[o] = "revoke" THEN None ELSE record.relay)
    BY <1>1, <2>1 DEF Changed, Account
  <2>3. Distinct'
    BY <1>1, <1>2, <1>3, <1>5, <2>1, <2>2 DEF Distinct
  <2>4. \A p \in Ops \ {o} : Stage(p)'
    BY <1>3, <1>4, <2>1 DEF Stage, Section
  <2>5. Live(record)' = IF kind[o] = "regenerate" THEN ({o} \cup {record.relay}) \ {None}
                        ELSE IF kind[o] = "rotate" THEN {record.token, o}
                        ELSE IF kind[o] = "revoke" THEN {record.token} ELSE Live(record)
    BY <1>1, <1>2, <2>2 DEF Live
  <2>6. mapping = IF kind[o] = "regenerate" THEN {record.relay} \ {None}
                  ELSE IF kind[o] \in {"rotate", "revoke"} THEN {record.token} ELSE Live(record)
    BY <1>1, <1>2, <2>1 DEF Live, Retired, Old
  <2>7. pc'[o] = "map" => mapping = Live(record)' \ {o} /\ o \in Live(record)'
    BY <1>1, <2>1, <2>5, <2>6
  <2>8. pc'[o] = "settle" => mapping = Live(record)'
    BY <1>1, <2>1, <2>5, <2>6
  <2>9. Stage(o)'
    BY <1>3, <2>1, <2>2, <2>7, <2>8 DEF Stage
  <2>10. QED
    BY <2>1, <2>3, <2>4, <2>9 DEF TokenInv, Section
<1>10. CASE PutToken(o)
  <2>1. /\ pc[o] = "map" /\ pc'[o] = "settle" /\ UNCHANGED <<record, draft>>
        /\ mapping' = Live(record)
    BY <1>1, <1>5, <1>10 DEF PutToken, Maps, Goes, Stage
  <2>2. Distinct'
    BY <1>3, <1>5, <2>1 DEF Distinct
  <2>3. \A p \in Ops \ {o} : Stage(p)'
    BY <1>3, <1>4, <2>1 DEF Stage, Section
  <2>4. Stage(o)'
    BY <1>3, <1>5, <2>1 DEF Stage, Live
  <2>5. QED
    BY <2>1, <2>2, <2>3, <2>4 DEF TokenInv, Section
<1>11. CASE Settle(o) \/ Sweep(o)
  <2>1. /\ pc[o] \in {"settle", "sweep"} /\ UNCHANGED <<record, draft>>
        /\ mapping = Live(record)
    BY <1>5, <1>11 DEF Settle, Sweep, Stage
  <2>2. pc'[o] \in {"sweep", "done", "failed"} /\ (pc'[o] = "sweep" => kind[o] = "regenerate")
    BY <1>1, <1>11 DEF Settle, Sweep, Leaves, Goes
  <2>3. mapping' = Live(record)
    <3>1. CASE Settle(o)
      BY <2>1, <3>1 DEF Settle
    <3>2. CASE Sweep(o)
      <4>1. draft[o] = record /\ record.token = o
        BY <1>5, <3>2 DEF Sweep, Stage
      <4>2. mapping \ Kept(o) = {}
        BY <2>1, <4>1 DEF Live, Kept
      <4>3. QED
        BY <2>1, <3>2, <4>2 DEF Sweep
    <3>3. QED
      BY <1>11, <3>1, <3>2
  <2>4. Distinct'
    BY <1>3, <1>5, <2>1, <2>2 DEF Distinct
  <2>5. \A p \in Ops \ {o} : Stage(p)'
    BY <1>3, <1>4, <2>1 DEF Stage, Section
  <2>6. Stage(o)'
    BY <1>3, <1>5, <2>1, <2>2, <2>3 DEF Stage, Live
  <2>7. QED
    BY <2>1, <2>3, <2>4, <2>5, <2>6 DEF TokenInv, Live
<1>12. CASE Fails(o)
  <2>1. pc'[o] = "failed"
    BY <1>1, <1>12 DEF Fails, Leaves, Goes
  <2>2. QED
    BY <2>1 DEF Calm
<1>13. QED
  BY <1>6, <1>7, <1>8, <1>9, <1>10, <1>11, <1>12 DEF Operate

LEMMA TokenStep ==
  ASSUME Assumptions, Typed, QueueInv, RecordInv, TokenInv, [Next]_vars
  PROVE  TokenInv'
<1>1. ASSUME NEW o \in Ops, Operate(o), Calm' PROVE Calm
  <2>1. OneQueue
    BY <1>1, QueueStep DEF Calm
  <2>2. \A p \in Ops \ {o} : pc'[p] = pc[p]
    BY <1>1, <2>1, OperateMoves
  <2>3. ~Ended(o)
    BY <1>1, <2>1, OperateMoves
  <2>4. QED
    BY <1>1, <2>1, <2>2, <2>3 DEF Calm, Ended
<1>2. ASSUME NEW o \in Ops, Operate(o) PROVE TokenInv'
  BY <1>1, <1>2, OperateTokens DEF TokenInv
<1>3. ASSUME NEW i \in Isolates, Forget(i) PROVE TokenInv'
  BY <1>3 DEF Forget, OneQueue, Calm, TokenInv
<1>4. ASSUME UNCHANGED <<raced, host, record, mapping, kind, draft, pc>> PROVE TokenInv'
  BY <1>4 DEF TokenInv, Calm, OneQueue, Distinct, Stage, Retired, Old, Live
<1>5. QED
  BY <1>2, <1>3, <1>4, Bystanders DEF Next

\* When every operation of one isolate has gone through, exactly the tokens that
\* the record names resolve to the user.
THEOREM TokensFollow ==
  ASSUME Assumptions
  PROVE  Spec => []TokensAreTheRecords
<1>1. Init => QueueInv /\ RecordInv
  BY QueueStart DEF Init, RecordInv
<1>2. Init => TokenInv
  <2> SUFFICES ASSUME Init PROVE TokenInv
    OBVIOUS
  <2>1. /\ record.token = First /\ record.relay = None /\ mapping = {First}
        /\ \A o \in Ops : pc[o] = "new"
    BY DEF Init, Fresh
  <2>2. First \notin Ops /\ None \notin Ops /\ First # None
    BY DEF Assumptions, Tokens
  <2>3. QED
    BY <2>1, <2>2 DEF TokenInv, Distinct, Stage, Live
<1>3. Typed /\ QueueInv /\ RecordInv /\ TokenInv /\ [Next]_vars
        => QueueInv' /\ RecordInv' /\ TokenInv'
  BY QueueStep, RecordStep, TokenStep
<1>4. TokenInv => TokensAreTheRecords
  BY DEF TokenInv, TokensAreTheRecords, Calm, Section, Live
<1>5. Spec => []Typed
  BY TypeAlways
<1>6. QED
  BY <1>1, <1>2, <1>3, <1>4, <1>5, PTL DEF Spec
=============================================================================
