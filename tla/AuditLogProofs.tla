--------------------------- MODULE AuditLogProofs ---------------------------
(***************************************************************************)
(* Theorems about AuditLog, for any number of audit tasks and of retries.  *)
(***************************************************************************)
EXTENDS AuditLog, FiniteSetTheorems, SequenceTheorems, TLAPS

(***************************************************************************)
(* Prefixes of sequences                                                   *)
(***************************************************************************)
LEMMA PrefixPointwise ==
  ASSUME NEW S, NEW s \in Seq(S), NEW t \in Seq(S)
  PROVE  IsPrefix(s, t) <=> /\ Len(s) <= Len(t)
                            /\ \A i \in 1 .. Len(s) : s[i] = t[i]
  <1> SUFFICES ASSUME Len(s) <= Len(t)
               PROVE  SubSeq(s, 1, Len(s)) = SubSeq(t, 1, Len(s))
                        <=> \A i \in 1 .. Len(s) : s[i] = t[i]
    BY DEF IsPrefix
  <1>0. Len(s) \in Nat /\ Len(t) \in Nat
    BY LenProperties
  <1> DEFINE u == SubSeq(t, 1, Len(s))
  <1>1. SubSeq(s, 1, Len(s)) = s
    BY SubSeqFull
  <1>2. \A i \in 1 .. Len(s) : t[i] \in S
    BY <1>0, ElementOfSeq
  <1>3. /\ u \in Seq(S)
        /\ Len(u) = Len(s)
        /\ \A i \in 1 .. Len(s) : u[i] = t[i]
    BY <1>0, <1>2, SubSeqProperties
  <1> HIDE DEF u
  <1>4. u = s <=> \A i \in 1 .. Len(s) : u[i] = s[i]
    BY <1>3, <1>0, SeqEqual
  <1>5. QED
    BY <1>1, <1>3, <1>4 DEF u

\* What is a prefix of a chain is one of the longer chain.
LEMMA PrefixAppend ==
  ASSUME NEW S, NEW s \in Seq(S), NEW t \in Seq(S), NEW x \in S, IsPrefix(s, t)
  PROVE  IsPrefix(s, Append(t, x))
  <1>1. Len(s) \in Nat /\ Len(t) \in Nat
    BY LenProperties
  <1>2. Len(s) <= Len(t) /\ \A i \in 1 .. Len(s) : s[i] = t[i]
    BY PrefixPointwise
  <1> DEFINE u == Append(t, x)
  <1>3. u \in Seq(S) /\ Len(u) = Len(t) + 1 /\ \A i \in 1 .. Len(t) : u[i] = t[i]
    BY AppendProperties
  <1> HIDE DEF u
  <1>4. Len(s) <= Len(u) /\ \A i \in 1 .. Len(s) : s[i] = u[i]
    BY <1>1, <1>2, <1>3
  <1>5. IsPrefix(s, u)
    BY <1>3, <1>4, PrefixPointwise
  <1>6. QED
    BY <1>5 DEF u

\* A chain is a prefix of itself.
LEMMA PrefixReflexive ==
  ASSUME NEW S, NEW s \in Seq(S)
  PROVE  IsPrefix(s, s)
  BY PrefixPointwise, LenProperties

\* The link that ends at row_hash Append(s, x) is determined by the chain t.
LEMMA PrefixLink ==
  ASSUME NEW S, NEW s \in Seq(S), NEW x \in S, NEW t \in Seq(S),
         IsPrefix(Append(s, x), t)
  PROVE  /\ Len(s) + 1 \in DOMAIN t
         /\ t[Len(s) + 1] = x
         /\ SubSeq(t, 1, Len(s)) = s
  <1> DEFINE a == Append(s, x)
  <1>1. Len(s) \in Nat /\ Len(t) \in Nat /\ DOMAIN t = 1 .. Len(t)
    BY LenProperties
  <1>2. /\ a \in Seq(S) /\ Len(a) = Len(s) + 1
        /\ \A i \in 1 .. Len(s) : a[i] = s[i]
        /\ a[Len(s) + 1] = x
    BY AppendProperties
  <1>p. IsPrefix(a, t)
    OBVIOUS
  <1> HIDE DEF a
  <1>3. Len(a) <= Len(t) /\ \A i \in 1 .. Len(a) : a[i] = t[i]
    BY <1>2, <1>p, PrefixPointwise
  <1>4. Len(s) + 1 \in DOMAIN t /\ t[Len(s) + 1] = x
    BY <1>1, <1>2, <1>3
  <1>5. Len(s) <= Len(t) /\ \A i \in 1 .. Len(s) : s[i] = t[i]
    BY <1>1, <1>2, <1>3
  <1>6. SubSeq(s, 1, Len(s)) = SubSeq(t, 1, Len(s))
    BY <1>5, PrefixPointwise DEF IsPrefix
  <1>7. QED
    BY <1>4, <1>6, SubSeqFull
------------------------------------------------------------------------------
(***************************************************************************)
(* Type correctness, whatever the faults                                   *)
(***************************************************************************)
LEMMA RowType ==
  ASSUME NEW w \in Writers, NEW h \in Hashes
  PROVE  /\ compute_row_hash(h, w) \in Hashes
         /\ AuditRow(w, h) \in [row : {Stored[v] : v \in Writers},
                                prev_hash : Hashes, row_hash : Hashes]
  BY AppendProperties DEF compute_row_hash, AuditRow, Hashes

\* The types, at the start.
LEMMA TypeInit == Init => TypeOK
  <1>1. GENESIS_HASH \in Hashes
    BY EmptySeq DEF GENESIS_HASH, Hashes
  <1>2. QED
    BY <1>1, AuditAssumption DEF Init, TypeOK

\* A task that is still in the retry loop has iterations left.
Looping == \A w \in Writers :
              pc[w] \in {"watch", "get", "exec"} => attempts[w] < MaxRetries

\* No task is at an attempt yet.
LEMMA LoopingInit == Init => Looping
  BY AuditAssumption DEF Init, Looping

\* No step breaks the types or goes on without an attempt left.
LEMMA TypeStep == TypeOK /\ Looping /\ [Next]_vars => TypeOK' /\ Looping'
  <1> SUFFICES ASSUME TypeOK, Looping, [Next]_vars PROVE TypeOK' /\ Looping'
    OBVIOUS
  <1> USE AuditAssumption
  <1>1. ASSUME NEW w \in Writers, Watch(w) \/ Get(w) PROVE TypeOK' /\ Looping'
    BY <1>1 DEF Watch, Get, Goto, TypeOK, Looping
  <1>2. ASSUME NEW w \in Writers, Exec(w) PROVE TypeOK' /\ Looping'
    <2>1. latest_hash' \in Hashes
      BY <1>2, RowType DEF Exec, SetLatestHash, TypeOK
    <2>2. QED
      BY <1>2, <2>1 DEF Exec, SetLatestHash, Goto, TypeOK, Looping
  <1>3. ASSUME NEW w \in Writers, ExecConflict(w) PROVE TypeOK' /\ Looping'
    BY <1>3 DEF ExecConflict, Retry, Goto, TypeOK, Looping
  <1>4. ASSUME NEW w \in Writers, Insert(w) PROVE TypeOK' /\ Looping'
    <2>1. table' \subseteq [row : {Stored[v] : v \in Writers},
                            prev_hash : Hashes, row_hash : Hashes]
      BY <1>4, RowType DEF Insert, TypeOK
    <2>2. QED
      BY <1>4, <2>1 DEF Insert, Goto, TypeOK, Looping
  <1>5. ASSUME NEW w \in Writers, RedisError(w) PROVE TypeOK' /\ Looping'
    <2>1. CASE GiveUp(w)
      BY <1>5, <2>1 DEF RedisError, GiveUp, Goto, TypeOK, Looping
    <2>2. CASE Retry(w)
      BY <1>5, <2>2 DEF RedisError, Retry, Goto, TypeOK, Looping
    <2>3. QED
      BY <1>5, <2>1, <2>2 DEF RedisError
  <1>6. ASSUME NEW w \in Writers, ExecReplyLost(w) PROVE TypeOK' /\ Looping'
    <2>1. latest_hash' \in Hashes
      BY <1>6, RowType DEF ExecReplyLost, SetLatestHash, TypeOK
    <2>2. CASE GiveUp(w)
      BY <1>6, <2>1, <2>2 DEF ExecReplyLost, SetLatestHash, GiveUp, Goto, TypeOK, Looping
    <2>3. CASE Retry(w)
      BY <1>6, <2>1, <2>3 DEF ExecReplyLost, SetLatestHash, Retry, Goto, TypeOK, Looping
    <2>4. QED
      BY <1>6, <2>2, <2>3 DEF ExecReplyLost
  <1>7. ASSUME NEW w \in Writers, InsertFails(w) \/ Crash(w)
        PROVE  TypeOK' /\ Looping'
    BY <1>7 DEF InsertFails, Crash, Goto, TypeOK, Looping
  <1>8. CASE RedisRestart
    <2>1. latest_hash' \in Hashes
      <3>1. PICK n \in 0 .. Len(latest_hash) : latest_hash' = SubSeq(latest_hash, 1, n)
        BY <1>8 DEF RedisRestart, Prefixes
      <3>2. latest_hash \in Seq(Writers) /\ Len(latest_hash) \in Nat
        BY LenProperties DEF TypeOK, Hashes
      <3>3. \A i \in 1 .. n : latest_hash[i] \in Writers
        BY <3>2, ElementOfSeq
      <3>4. QED
        BY <3>1, <3>2, <3>3, SubSeqProperties DEF Hashes
    <2>2. QED
      BY <1>8, <2>1 DEF RedisRestart, TypeOK, Looping
  <1>9. CASE UNCHANGED vars
    BY <1>9 DEF vars, TypeOK, Looping
  <1>10. QED
    BY <1>1, <1>2, <1>3, <1>4, <1>5, <1>6, <1>7, <1>8, <1>9 DEF Next, Step

\* The state of the audit tasks, of Redis and of the table is well formed.
THEOREM AuditTypeCorrect == Spec => []TypeOK
  BY TypeInit, LoopingInit, TypeStep, PTL DEF Spec
------------------------------------------------------------------------------
(***************************************************************************)
(* The chain, as long as Redis does not lose writes                        *)
(***************************************************************************)

\* A task whose WATCH is unbroken and that has read the head holds the head.
Fresh == \A w \in watching : pc[w] = "exec" => current_prev[w] = latest_hash

\* A task that took a link took one of the chain.
OwnLink ==
    \A w \in Writers :
        prev_hash[w] # GENESIS_HASH
            => IsPrefix(compute_row_hash(prev_hash[w], w), latest_hash)

TableLinks ==
    \A rec \in table :
        /\ \E w \in Writers : rec = AuditRow(w, rec.prev_hash)
        /\ rec.prev_hash # GENESIS_HASH => IsPrefix(rec.row_hash, latest_hash)

ChainInv == Fresh /\ OwnLink /\ TableLinks

\* The chain is empty at the start, and so is the table.
LEMMA ChainInit == Init => ChainInv
  BY DEF Init, ChainInv, Fresh, OwnLink, TableLinks

\* A transaction that Redis accepts appends to the head and keeps every link.
LEMMA SetExtends ==
  ASSUME TypeOK, ChainInv, NEW w \in Writers, SetLatestHash(w)
  PROVE  /\ latest_hash' = compute_row_hash(latest_hash, w)
         /\ latest_hash' \in Hashes
         /\ IsPrefix(latest_hash', latest_hash')
         /\ \A h \in Hashes : IsPrefix(h, latest_hash) => IsPrefix(h, latest_hash')
  <1>1. latest_hash' = compute_row_hash(latest_hash, w)
    BY DEF SetLatestHash, ChainInv, Fresh
  <1>2. latest_hash \in Seq(Writers)
    BY DEF TypeOK, Hashes
  <1>3. latest_hash' = Append(latest_hash, w) /\ latest_hash' \in Seq(Writers)
    BY <1>1, <1>2, AppendProperties DEF compute_row_hash
  <1>4. IsPrefix(latest_hash', latest_hash')
    BY <1>3, PrefixReflexive
  <1>5. ASSUME NEW h \in Seq(Writers), IsPrefix(h, latest_hash)
        PROVE  IsPrefix(h, latest_hash')
    BY <1>2, <1>3, <1>5, PrefixAppend
  <1>6. QED
    BY <1>1, <1>3, <1>4, <1>5 DEF Hashes

\* Every step keeps the chain, unless Redis restarts from a snapshot.
LEMMA ChainStep ==
  ASSUME "restart" \notin Faults
  PROVE  TypeOK /\ ChainInv /\ [Next]_vars => ChainInv'
  <1> SUFFICES ASSUME TypeOK, ChainInv, [Next]_vars PROVE ChainInv'
    OBVIOUS
  <1>t. /\ \A w \in Writers : compute_row_hash(prev_hash[w], w) \in Hashes
        /\ \A rec \in table : rec.row_hash \in Hashes
    BY RowType DEF TypeOK
  \* Steps that leave the chain, the links taken and the table alone.
  <1>a. ASSUME UNCHANGED <<latest_hash, prev_hash, table>> PROVE OwnLink' /\ TableLinks'
    BY <1>a DEF ChainInv, OwnLink, TableLinks
  <1>1. ASSUME NEW w \in Writers, Watch(w) PROVE ChainInv'
    <2>1. Fresh'
      BY <1>1 DEF Watch, Goto, TypeOK, ChainInv, Fresh
    <2>2. QED
      BY <1>1, <1>a, <2>1 DEF Watch, ChainInv
  <1>2. ASSUME NEW w \in Writers, Get(w) PROVE ChainInv'
    <2>1. Fresh'
      BY <1>2 DEF Get, Goto, TypeOK, ChainInv, Fresh
    <2>2. QED
      BY <1>2, <1>a, <2>1 DEF Get, ChainInv
  <1>3. ASSUME NEW w \in Writers, Exec(w) PROVE ChainInv'
    <2>1. /\ latest_hash' = compute_row_hash(latest_hash, w)
          /\ IsPrefix(latest_hash', latest_hash')
          /\ \A h \in Hashes : IsPrefix(h, latest_hash) => IsPrefix(h, latest_hash')
      BY <1>3, SetExtends DEF Exec
    <2>2. Fresh'
      BY <1>3 DEF Exec, SetLatestHash, Fresh
    <2>3. prev_hash' = [prev_hash EXCEPT ![w] = latest_hash]
      BY <1>3 DEF Exec, SetLatestHash, ChainInv, Fresh
    <2>4. OwnLink'
      BY <1>t, <2>1, <2>3 DEF TypeOK, ChainInv, OwnLink, compute_row_hash
    <2>5. TableLinks'
      BY <1>3, <1>t, <2>1 DEF Exec, ChainInv, TableLinks
    <2>6. QED
      BY <2>2, <2>4, <2>5 DEF ChainInv
  <1>4. ASSUME NEW w \in Writers, ExecReplyLost(w) PROVE ChainInv'
    <2>1. \A h \in Hashes : IsPrefix(h, latest_hash) => IsPrefix(h, latest_hash')
      BY <1>4, SetExtends DEF ExecReplyLost
    <2>2. Fresh'
      BY <1>4 DEF ExecReplyLost, SetLatestHash, Fresh
    <2>3. OwnLink'
      BY <1>4, <1>t, <2>1 DEF ExecReplyLost, ChainInv, OwnLink
    <2>4. TableLinks'
      BY <1>4, <1>t, <2>1 DEF ExecReplyLost, ChainInv, TableLinks
    <2>5. QED
      BY <2>2, <2>3, <2>4 DEF ChainInv
  <1>5. ASSUME NEW w \in Writers, ExecConflict(w) PROVE ChainInv'
    <2>1. Fresh'
      BY <1>5 DEF ExecConflict, Retry, Goto, TypeOK, ChainInv, Fresh
    <2>2. QED
      BY <1>5, <1>a, <2>1 DEF ExecConflict, ChainInv
  <1>6. ASSUME NEW w \in Writers, RedisError(w) PROVE ChainInv'
    <2>1. \A v \in watching' : v \in watching /\ pc'[v] = pc[v]
      BY <1>6 DEF RedisError, GiveUp, Retry, Goto, TypeOK
    <2>2. Fresh'
      BY <1>6, <2>1 DEF RedisError, ChainInv, Fresh
    <2>3. QED
      BY <1>6, <1>a, <2>2 DEF RedisError, ChainInv
  <1>7. ASSUME NEW w \in Writers, Insert(w) PROVE ChainInv'
    <2>1. Fresh' /\ OwnLink'
      BY <1>7 DEF Insert, Goto, TypeOK, ChainInv, Fresh, OwnLink
    <2>2. TableLinks'
      BY <1>7 DEF Insert, ChainInv, OwnLink, TableLinks, AuditRow
    <2>3. QED
      BY <2>1, <2>2 DEF ChainInv
  <1>8. ASSUME NEW w \in Writers, InsertFails(w) \/ Crash(w) PROVE ChainInv'
    <2>1. Fresh'
      BY <1>8 DEF InsertFails, Crash, Goto, TypeOK, ChainInv, Fresh
    <2>2. QED
      BY <1>8, <1>a, <2>1 DEF InsertFails, Crash, ChainInv
  <1>9. CASE UNCHANGED vars
    BY <1>9 DEF vars, ChainInv, Fresh, OwnLink, TableLinks
  <1>10. ~RedisRestart
    BY DEF RedisRestart
  <1>11. QED
    BY <1>1, <1>2, <1>3, <1>4, <1>5, <1>6, <1>7, <1>8, <1>9, <1>10 DEF Next, Step

\* Two rows of the table with the same linked predecessor end in equally long
\* prefixes of one chain.
LEMMA NoForkOnChain == TypeOK /\ ChainInv => NoFork
  <1> SUFFICES ASSUME TypeOK, ChainInv, NEW a \in table, NEW b \in table,
                      a.prev_hash = b.prev_hash, a.prev_hash # GENESIS_HASH
               PROVE  a = b
    BY DEF NoFork
  <1>1. PICK v \in Writers : a = AuditRow(v, a.prev_hash)
    BY DEF ChainInv, TableLinks
  <1>2. PICK w \in Writers : b = AuditRow(w, a.prev_hash)
    BY DEF ChainInv, TableLinks
  <1>3. a.prev_hash \in Seq(Writers) /\ latest_hash \in Seq(Writers)
    BY DEF TypeOK, Hashes
  <1>4. IsPrefix(a.row_hash, latest_hash) /\ IsPrefix(b.row_hash, latest_hash)
    BY DEF ChainInv, TableLinks
  <1>5. a.row_hash = Append(a.prev_hash, v) /\ b.row_hash = Append(a.prev_hash, w)
    <2>1. \A u, h : AuditRow(u, h).row_hash = Append(h, u)
      BY DEF AuditRow, compute_row_hash
    <2>2. QED
      BY <1>1, <1>2, <2>1
  <1>6. v = latest_hash[Len(a.prev_hash) + 1]
    BY <1>3, <1>4, <1>5, PrefixLink
  <1>7. w = latest_hash[Len(a.prev_hash) + 1]
    BY <1>3, <1>4, <1>5, PrefixLink
  <1>8. QED
    BY <1>1, <1>2, <1>6, <1>7

\* The inductive invariant behind the two theorems below.
LEMMA ChainHolds ==
  ASSUME "restart" \notin Faults
  PROVE  Spec => [](TypeOK /\ ChainInv)
  <1>1. Init => (TypeOK /\ Looping) /\ ChainInv
    BY TypeInit, LoopingInit, ChainInit
  <1>2. ((TypeOK /\ Looping) /\ ChainInv) /\ [Next]_vars
          => ((TypeOK /\ Looping) /\ ChainInv)'
    BY TypeStep, ChainStep
  <1>3. QED
    BY <1>1, <1>2, PTL DEF Spec

\* The optimistic lock keeps the audit log one chain: with any number of
\* tasks, conflicts, lost replies, failed inserts and crashes, no two rows
\* share a predecessor other than the genesis hash.
THEOREM AuditChainSafe ==
  ASSUME "restart" \notin Faults
  PROVE  Spec => []NoFork
  BY ChainHolds, NoForkOnChain, PTL

\* Under the same faults, every row with a predecessor is on the chain that
\* the head in Redis ends.
THEOREM LinkedRowsStayOnChain ==
  ASSUME "restart" \notin Faults
  PROVE  Spec => []LinkedRowsOnChain
  <1>1. ChainInv => LinkedRowsOnChain
    BY Zenon DEF ChainInv, TableLinks, LinkedRowsOnChain
  <1>2. QED
    BY <1>1, ChainHolds, PTL
------------------------------------------------------------------------------
(***************************************************************************)
(* Refinement                                                              *)
(***************************************************************************)
LEMMA ChainInitRefines == Init => HC!Init
  BY DEF Init, HC!Init, GENESIS_HASH, HC!GENESIS_HASH

\* Only an accepted transaction moves the head, and it moves it by one row.
LEMMA HeadStep ==
  ASSUME "restart" \notin Faults, TypeOK, ChainInv, Next
  PROVE  latest_hash' = latest_hash
         \/ \E w \in Writers : HC!Extend(w)
  <1>1. ASSUME NEW w \in Writers, Exec(w) \/ ExecReplyLost(w) PROVE HC!Extend(w)
    BY <1>1, SetExtends DEF Exec, ExecReplyLost, HC!Extend,
                           compute_row_hash, HC!compute_row_hash
  <1>2. ASSUME NEW w \in Writers,
               Watch(w) \/ Get(w) \/ ExecConflict(w) \/ Insert(w)
                 \/ RedisError(w) \/ InsertFails(w) \/ Crash(w)
        PROVE  latest_hash' = latest_hash
    BY <1>2 DEF Watch, Get, ExecConflict, Insert, RedisError, InsertFails, Crash
  <1>3. ~RedisRestart
    BY DEF RedisRestart
  <1>4. QED
    BY <1>1, <1>2, <1>3 DEF Next, Step

\* What a task inserts is a link of the chain or a row hashed from genesis.
LEMMA InsertStores ==
  ASSUME TypeOK, ChainInv, NEW w \in Writers, Insert(w)
  PROVE  \E rec \in HC!Links \cup HC!Orphans : HC!Store(rec)
  <1> DEFINE rec == AuditRow(w, prev_hash[w])
  <1>1. HC!Store(rec)
    BY DEF Insert, HC!Store
  <1>2. CASE prev_hash[w] = GENESIS_HASH
    <2>1. rec \in HC!Orphans
      BY <1>2 DEF HC!Orphans, HC!AuditRow, AuditRow, HC!compute_row_hash,
                  compute_row_hash, HC!GENESIS_HASH, GENESIS_HASH
    <2>2. QED
      BY <1>1, <2>1
  <1>3. CASE prev_hash[w] # GENESIS_HASH
    <2>1. prev_hash[w] \in Seq(Writers) /\ latest_hash \in Seq(Writers)
      BY DEF TypeOK, Hashes
    <2>2. IsPrefix(Append(prev_hash[w], w), latest_hash)
      BY <1>3 DEF ChainInv, OwnLink, compute_row_hash
    <2> DEFINE i == Len(prev_hash[w]) + 1
    <2>3. /\ i \in DOMAIN latest_hash /\ latest_hash[i] = w
          /\ SubSeq(latest_hash, 1, Len(prev_hash[w])) = prev_hash[w]
      BY <2>1, <2>2, PrefixLink
    <2>4. Len(prev_hash[w]) = i - 1
      BY <2>1, LenProperties
    <2> HIDE DEF i
    <2>5. rec \in HC!Links
      BY <2>3, <2>4 DEF HC!Links, HC!AuditRow, AuditRow, HC!compute_row_hash,
                        compute_row_hash
    <2>6. QED
      BY <1>1, <2>5
  <1>4. QED
    BY <1>2, <1>3

\* Every step of the log is one of HashChain, or changes neither chain nor table.
LEMMA ChainStepRefines ==
  ASSUME "restart" \notin Faults
  PROVE  TypeOK /\ ChainInv /\ [Next]_vars => [HC!Next]_<<latest_hash, table>>
  <1> SUFFICES ASSUME TypeOK, ChainInv, [Next]_vars
               PROVE  [HC!Next]_<<latest_hash, table>>
    OBVIOUS
  <1>1. ASSUME NEW w \in Writers, Insert(w) PROVE HC!Next
    BY <1>1, InsertStores DEF HC!Next
  <1>2. ASSUME NEW w \in Writers, Exec(w) \/ ExecReplyLost(w) PROVE HC!Next
    <2>1. HC!Extend(w)
      BY <1>2, SetExtends DEF Exec, ExecReplyLost, HC!Extend,
                             compute_row_hash, HC!compute_row_hash
    <2>2. QED
      BY <2>1 DEF HC!Next
  <1>3. ASSUME NEW w \in Writers,
               Watch(w) \/ Get(w) \/ ExecConflict(w)
                 \/ RedisError(w) \/ InsertFails(w) \/ Crash(w)
        PROVE  UNCHANGED <<latest_hash, table>>
    BY <1>3 DEF Watch, Get, ExecConflict, RedisError, InsertFails, Crash
  <1>4. ~RedisRestart
    BY DEF RedisRestart
  <1>5. CASE UNCHANGED vars
    BY <1>5 DEF vars
  <1>6. QED
    BY <1>1, <1>2, <1>3, <1>4, <1>5 DEF Next, Step

\* The optimistic-locking protocol implements the abstract hash chain.
THEOREM AuditLogImplementsHashChain ==
  ASSUME "restart" \notin Faults
  PROVE  Spec => ImplementsHashChain
  <1>1. Init => (TypeOK /\ Looping) /\ ChainInv
    BY TypeInit, LoopingInit, ChainInit
  <1>2. ((TypeOK /\ Looping) /\ ChainInv) /\ [Next]_vars
          => ((TypeOK /\ Looping) /\ ChainInv)'
    BY TypeStep, ChainStep
  <1>3. TypeOK /\ ChainInv /\ [Next]_vars => [HC!Next]_<<latest_hash, table>>
    BY ChainStepRefines
  <1>4. QED
    BY <1>1, <1>2, <1>3, ChainInitRefines, PTL DEF Spec, ImplementsHashChain, HC!Spec

\* No task overwrites a link another task has made.
THEOREM HeadOnlyGrowsHolds ==
  ASSUME "restart" \notin Faults
  PROVE  Spec => HeadOnlyGrows
  <1>1. Init => (TypeOK /\ Looping) /\ ChainInv
    BY TypeInit, LoopingInit, ChainInit
  <1>2. ((TypeOK /\ Looping) /\ ChainInv) /\ [Next]_vars
          => ((TypeOK /\ Looping) /\ ChainInv)'
    BY TypeStep, ChainStep
  <1>3. TypeOK /\ ChainInv /\ [Next]_vars
          => [\E w \in Writers : latest_hash' = compute_row_hash(latest_hash, w)]_latest_hash
    BY HeadStep DEF vars, HC!Extend, compute_row_hash, HC!compute_row_hash
  <1>4. QED
    BY <1>1, <1>2, <1>3, PTL DEF Spec, HeadOnlyGrows
------------------------------------------------------------------------------
(***************************************************************************)
(* The account of chain and table, with Redis healthy: inserts may fail    *)
(* and tasks may crash, and there may be any number of tasks and retries.  *)
(***************************************************************************)
RedisHealthy == Faults \cap {"redis", "reply", "restart"} = {}

\* One more link leaves the links before it where they are.
LEMMA AppendKeeps ==
  ASSUME NEW S, NEW s \in Seq(S), NEW x \in S, NEW t, t = Append(s, x)
  PROVE  /\ Len(s) \in Nat /\ DOMAIN s = 1 .. Len(s)
         /\ t \in Seq(S) /\ Len(t) = Len(s) + 1 /\ DOMAIN t = DOMAIN s \cup {Len(s) + 1}
         /\ \A i \in DOMAIN s : t[i] = s[i]
         /\ t[Len(s) + 1] = x
         /\ \A i \in DOMAIN s : SubSeq(t, 1, i - 1) = SubSeq(s, 1, i - 1)
         /\ SubSeq(t, 1, Len(s)) = s
  <1>1. Len(s) \in Nat /\ DOMAIN s = 1 .. Len(s)
    BY LenProperties
  <1>2. /\ t \in Seq(S) /\ Len(t) = Len(s) + 1 /\ t[Len(s) + 1] = x
        /\ \A i \in DOMAIN s : t[i] = s[i]
    BY <1>1, AppendProperties
  <1>3. DOMAIN t = DOMAIN s \cup {Len(s) + 1}
    <2>1. DOMAIN t = 1 .. Len(t)
      BY <1>2, LenProperties
    <2>2. QED
      BY <1>1, <1>2, <2>1
  <1>4. ASSUME NEW j \in 0 .. Len(s) PROVE SubSeq(t, 1, j) = SubSeq(s, 1, j)
    <2> DEFINE u == SubSeq(s, 1, j)
               v == SubSeq(t, 1, j)
    <2>1. \A i \in 1 .. j : s[i] \in S /\ t[i] \in S
      BY <1>1, <1>2, ElementOfSeq
    <2>2. u \in Seq(S) /\ Len(u) = j /\ \A i \in 1 .. j : u[i] = s[i]
      BY <1>1, <2>1, SubSeqProperties
    <2>3. v \in Seq(S) /\ Len(v) = j /\ \A i \in 1 .. j : v[i] = t[i]
      BY <1>1, <1>2, <2>1, SubSeqProperties
    <2> HIDE DEF u, v
    <2>4. \A i \in 1 .. j : u[i] = v[i]
      BY <1>1, <1>2, <2>2, <2>3
    <2>5. u = v
      BY <2>2, <2>3, <2>4, SeqEqual
    <2>6. QED
      BY <2>5 DEF u, v
  <1>5. SubSeq(t, 1, Len(s)) = s
    BY <1>1, <1>4, SubSeqFull
  <1>6. \A i \in DOMAIN s : SubSeq(t, 1, i - 1) = SubSeq(s, 1, i - 1)
    BY <1>1, <1>4
  <1>7. QED
    BY <1>1, <1>2, <1>3, <1>5, <1>6

\* What an EXEC that succeeds does, when the WATCH has kept the head.
LEMMA ExecAppends ==
  ASSUME TypeOK, ChainInv, NEW w \in Writers, Exec(w)
  PROVE  /\ latest_hash \in Seq(Writers)
         /\ latest_hash' = Append(latest_hash, w)
         /\ prev_hash' = [prev_hash EXCEPT ![w] = latest_hash]
         /\ pc' = [pc EXCEPT ![w] = "insert"]
         /\ pc[w] = "exec" /\ watching' = {}
         /\ UNCHANGED <<attempts, table>>
  BY DEF Exec, SetLatestHash, Goto, ChainInv, Fresh, TypeOK, Hashes, compute_row_hash
------------------------------------------------------------------------------
\* Links to which a task's lost races are charged.
Others(w) == {i \in DOMAIN latest_hash : latest_hash[i] # w}

\* A broken WATCH is a race that has been lost already.
RacesCharged ==
    \A w \in Writers :
        /\ attempts[w] <= Cardinality(Others(w))
        /\ pc[w] \in {"get", "exec"} /\ w \notin watching
             => attempts[w] + 1 <= Cardinality(Others(w))

\* The links are finitely many.
LEMMA OthersFinite ==
  ASSUME TypeOK, NEW w \in Writers
  PROVE  IsFiniteSet(Others(w)) /\ Cardinality(Others(w)) \in Nat
  <1>1. Len(latest_hash) \in Nat /\ DOMAIN latest_hash = 1 .. Len(latest_hash)
    BY LenProperties DEF TypeOK, Hashes
  <1>2. IsFiniteSet(1 .. Len(latest_hash))
    BY <1>1, FS_Interval
  <1>3. IsFiniteSet(Others(w))
    BY <1>1, <1>2, FS_Subset DEF Others
  <1>4. QED
    BY <1>3, FS_CardinalityType

\* A new link is charged to every other task.
LEMMA ChargedExec ==
  ASSUME TypeOK, ChainInv, RacesCharged, NEW w \in Writers, Exec(w)
  PROVE  RacesCharged'
  <1>1. /\ latest_hash \in Seq(Writers) /\ latest_hash' = Append(latest_hash, w)
        /\ pc' = [pc EXCEPT ![w] = "insert"] /\ attempts' = attempts
    BY ExecAppends
  <1>2. /\ Len(latest_hash) \in Nat /\ DOMAIN latest_hash = 1 .. Len(latest_hash)
        /\ DOMAIN latest_hash' = DOMAIN latest_hash \cup {Len(latest_hash) + 1}
        /\ \A i \in DOMAIN latest_hash : latest_hash'[i] = latest_hash[i]
        /\ latest_hash'[Len(latest_hash) + 1] = w
    <2> DEFINE t == latest_hash'
    <2>1. t = Append(latest_hash, w)
      BY <1>1
    <2> HIDE DEF t
    <2>2. /\ Len(latest_hash) \in Nat /\ DOMAIN latest_hash = 1 .. Len(latest_hash)
          /\ DOMAIN t = DOMAIN latest_hash \cup {Len(latest_hash) + 1}
          /\ \A i \in DOMAIN latest_hash : t[i] = latest_hash[i]
          /\ t[Len(latest_hash) + 1] = w
      BY <1>1, <2>1, AppendKeeps
    <2>3. QED
      BY <2>2 DEF t
  <1>3. Others(w)' = Others(w)
    BY <1>2 DEF Others
  <1>4. ASSUME NEW v \in Writers, v # w
        PROVE  Cardinality(Others(v)') = Cardinality(Others(v)) + 1
    <2>1. Others(v)' = Others(v) \cup {Len(latest_hash) + 1}
      BY <1>2, <1>4 DEF Others
    <2>2. Len(latest_hash) + 1 \notin Others(v)
      BY <1>2 DEF Others
    <2>3. QED
      BY <2>1, <2>2, OthersFinite, FS_AddElement
  <1>5. ASSUME NEW v \in Writers
        PROVE  /\ attempts'[v] <= Cardinality(Others(v)')
               /\ pc'[v] \in {"get", "exec"} /\ v \notin watching'
                    => attempts'[v] + 1 <= Cardinality(Others(v)')
    <2>1. attempts[v] \in Nat /\ attempts[v] <= Cardinality(Others(v))
          /\ Cardinality(Others(v)) \in Nat
      BY AuditAssumption, OthersFinite DEF TypeOK, RacesCharged
    <2>2. CASE v = w
      BY <1>1, <1>3, <2>1, <2>2 DEF TypeOK
    <2>3. CASE v # w
      BY <1>1, <1>4, <2>1, <2>3
    <2>4. QED
      BY <2>2, <2>3
  <1>6. QED
    BY <1>5 DEF RacesCharged

\* Every step keeps the account of the races.
LEMMA ChargedStep ==
  ASSUME RedisHealthy
  PROVE  TypeOK /\ ChainInv /\ RacesCharged /\ [Next]_vars => RacesCharged'
  <1> SUFFICES ASSUME TypeOK, ChainInv, RacesCharged, [Next]_vars PROVE RacesCharged'
    OBVIOUS
  <1>a. \A w \in Writers : attempts[w] \in Nat
    BY AuditAssumption DEF TypeOK
  <1>o. ASSUME latest_hash' = latest_hash PROVE \A w \in Writers : Others(w)' = Others(w)
    BY <1>o DEF Others
  <1>1. ASSUME NEW w \in Writers, Watch(w) \/ Get(w) PROVE RacesCharged'
    <2>1. /\ latest_hash' = latest_hash /\ attempts' = attempts
          /\ \A v \in Writers : pc'[v] \in {"get", "exec"} /\ v \notin watching'
                                  => pc[v] \in {"get", "exec"} /\ v \notin watching
      BY <1>1 DEF Watch, Get, Goto, TypeOK
    <2>2. QED
      BY <1>o, <2>1 DEF RacesCharged
  <1>2. ASSUME NEW w \in Writers, Exec(w) PROVE RacesCharged'
    BY <1>2, ChargedExec
  <1>3. ASSUME NEW w \in Writers, ExecConflict(w) PROVE RacesCharged'
    <2>1. attempts[w] + 1 <= Cardinality(Others(w))
      BY <1>3 DEF ExecConflict, RacesCharged
    <2>2. /\ latest_hash' = latest_hash /\ watching' = watching
          /\ attempts' = [attempts EXCEPT ![w] = @ + 1]
          /\ pc'[w] \in {"watch", "insert"}
          /\ \A v \in Writers : v # w => pc'[v] = pc[v]
      BY <1>3 DEF ExecConflict, Retry, Goto, TypeOK
    <2>3. \A v \in Writers : v # w => attempts'[v] = attempts[v]
      BY <2>2 DEF TypeOK
    <2>4. attempts'[w] = attempts[w] + 1
      BY <2>2 DEF TypeOK
    <2>5. QED
      BY <1>o, <2>1, <2>2, <2>3, <2>4 DEF RacesCharged
  <1>4. ASSUME NEW w \in Writers, Insert(w) \/ InsertFails(w) \/ Crash(w)
        PROVE  RacesCharged'
    <2>1. /\ latest_hash' = latest_hash /\ attempts' = attempts
          /\ \A v \in Writers : pc'[v] \in {"get", "exec"} /\ v \notin watching'
                                  => pc[v] \in {"get", "exec"} /\ v \notin watching
      BY <1>4 DEF Insert, InsertFails, Crash, Goto, TypeOK
    <2>2. QED
      BY <1>o, <2>1 DEF RacesCharged
  <1>5. CASE UNCHANGED vars
    <2>1. QED
      BY <1>5, <1>o DEF vars, RacesCharged
  <1>6. /\ \A w \in Writers : ~RedisError(w) /\ ~ExecReplyLost(w)
        /\ ~RedisRestart
    BY DEF RedisHealthy, RedisError, ExecReplyLost, RedisRestart
  <1>7. QED
    BY <1>1, <1>2, <1>3, <1>4, <1>5, <1>6 DEF Next, Step
------------------------------------------------------------------------------
\* Every link is at the place its task took, and every task off the chain is
\* still in the loop, was lost, or is out of attempts.
LinksPlaced ==
    \A i \in DOMAIN latest_hash :
        /\ pc[latest_hash[i]] \in {"insert", "done", "lost"}
        /\ pc[latest_hash[i]] = "insert"
             => prev_hash[latest_hash[i]] = SubSeq(latest_hash, 1, i - 1)
        /\ pc[latest_hash[i]] = "done"
             => AuditRow(latest_hash[i], SubSeq(latest_hash, 1, i - 1)) \in table

OffChain ==
    \A w \in Writers : w \notin Range(latest_hash) =>
        /\ prev_hash[w] = GENESIS_HASH
        /\ pc[w] \in {"insert", "done"} => attempts[w] = MaxRetries
        /\ pc[w] = "done" => AuditRow(w, GENESIS_HASH) \in table

Placed == IsInjective(latest_hash) /\ LinksPlaced /\ OffChain

\* At the start there is no link, and nobody has left the loop.
LEMMA AccountInit == Init => RacesCharged /\ Placed
  <1> SUFFICES ASSUME Init PROVE RacesCharged /\ Placed
    OBVIOUS
  <1>1. DOMAIN latest_hash = {} /\ TypeOK
    BY TypeInit DEF Init, GENESIS_HASH
  <1>2. Placed
    BY <1>1 DEF Init, Placed, IsInjective, LinksPlaced, OffChain
  <1>3. RacesCharged
    <2>1. \A w \in Writers : Cardinality(Others(w)) \in Nat
      BY <1>1, OthersFinite
    <2>2. QED
      BY <2>1 DEF Init, RacesCharged
  <1>4. QED
    BY <1>2, <1>3

\* An EXEC that succeeds places one more link.
LEMMA PlacedExec ==
  ASSUME TypeOK, ChainInv, Placed, NEW w \in Writers, Exec(w)
  PROVE  Placed'
  <1> DEFINE t == latest_hash'
             n == Len(latest_hash) + 1
  <1>1. /\ latest_hash \in Seq(Writers) /\ t = Append(latest_hash, w)
        /\ prev_hash' = [prev_hash EXCEPT ![w] = latest_hash]
        /\ pc' = [pc EXCEPT ![w] = "insert"] /\ pc[w] = "exec"
        /\ UNCHANGED <<attempts, table>>
    BY ExecAppends
  <1>l. latest_hash' = t
    OBVIOUS
  <1> HIDE DEF t
  <1>2. /\ n - 1 = Len(latest_hash) /\ n \notin DOMAIN latest_hash
        /\ DOMAIN t = DOMAIN latest_hash \cup {n}
        /\ \A i \in DOMAIN latest_hash : t[i] = latest_hash[i]
        /\ t[n] = w
        /\ \A i \in DOMAIN latest_hash : SubSeq(t, 1, i - 1) = SubSeq(latest_hash, 1, i - 1)
        /\ SubSeq(t, 1, n - 1) = latest_hash
    <2>1. /\ Len(latest_hash) \in Nat /\ DOMAIN latest_hash = 1 .. Len(latest_hash)
          /\ DOMAIN t = DOMAIN latest_hash \cup {Len(latest_hash) + 1}
          /\ \A i \in DOMAIN latest_hash : t[i] = latest_hash[i]
          /\ t[Len(latest_hash) + 1] = w
          /\ \A i \in DOMAIN latest_hash : SubSeq(t, 1, i - 1) = SubSeq(latest_hash, 1, i - 1)
          /\ SubSeq(t, 1, Len(latest_hash)) = latest_hash
      BY <1>1, AppendKeeps
    <2>2. Len(latest_hash) + 1 - 1 = Len(latest_hash)
          /\ Len(latest_hash) + 1 \notin 1 .. Len(latest_hash)
      BY <2>1
    <2>3. QED
      BY <2>1, <2>2
  <1> HIDE DEF n
  \* The task was in the loop, so it had no link.
  <1>3. \A i \in DOMAIN latest_hash : latest_hash[i] # w
    BY <1>1 DEF Placed, LinksPlaced
  <1>4. IsInjective(t)
    BY <1>2, <1>3 DEF Placed, IsInjective
  <1>5. ASSUME NEW i \in DOMAIN t
        PROVE  /\ pc'[t[i]] \in {"insert", "done", "lost"}
               /\ pc'[t[i]] = "insert" => prev_hash'[t[i]] = SubSeq(t, 1, i - 1)
               /\ pc'[t[i]] = "done" => AuditRow(t[i], SubSeq(t, 1, i - 1)) \in table'
    <2>1. CASE i = n
      BY <1>1, <1>2, <2>1 DEF TypeOK
    <2>2. CASE i \in DOMAIN latest_hash
      <3>1. t[i] = latest_hash[i] /\ latest_hash[i] # w
            /\ SubSeq(t, 1, i - 1) = SubSeq(latest_hash, 1, i - 1)
        BY <1>2, <1>3, <2>2
      <3>2. latest_hash[i] \in Writers
        BY <1>1, <2>2, ElementOfSeq, LenProperties
      <3>3. pc'[t[i]] = pc[latest_hash[i]] /\ prev_hash'[t[i]] = prev_hash[latest_hash[i]]
        BY <1>1, <3>1, <3>2 DEF TypeOK
      <3>4. QED
        BY <1>1, <2>2, <3>1, <3>3 DEF Placed, LinksPlaced
    <2>3. QED
      BY <1>2, <2>1, <2>2
  <1>6. ASSUME NEW v \in Writers, v \notin Range(t)
        PROVE  /\ prev_hash'[v] = GENESIS_HASH
               /\ pc'[v] \in {"insert", "done"} => attempts'[v] = MaxRetries
               /\ pc'[v] = "done" => AuditRow(v, GENESIS_HASH) \in table'
    <2>1. v # w /\ v \notin Range(latest_hash)
      BY <1>2, <1>6 DEF Range
    <2>2. pc'[v] = pc[v] /\ prev_hash'[v] = prev_hash[v]
      BY <1>1, <2>1 DEF TypeOK
    <2>3. QED
      BY <1>1, <2>1, <2>2 DEF Placed, OffChain
  <1>7. LinksPlaced'
    BY <1>5, <1>l DEF LinksPlaced, AuditRow, compute_row_hash
  <1>8. OffChain'
    BY <1>6, <1>l DEF OffChain, AuditRow, compute_row_hash, GENESIS_HASH
  <1>9. QED
    BY <1>4, <1>7, <1>8, <1>l DEF Placed, IsInjective

\* A step that adds no link and inserts at most its own row.
LEMMA PlacedElse ==
  ASSUME TypeOK, Placed, NEW w \in Writers,
         latest_hash' = latest_hash, prev_hash' = prev_hash, table \subseteq table',
         \A v \in Writers : v # w => pc'[v] = pc[v] /\ attempts'[v] = attempts[v],
         pc[w] \in {"watch", "get", "exec"} =>
             \/ pc'[w] \in {"watch", "get", "exec", "lost"}
             \/ (pc'[w] = "insert" /\ attempts'[w] = MaxRetries),
         pc[w] \notin {"watch", "get", "exec"} =>
             /\ attempts'[w] = attempts[w]
             /\ \/ pc'[w] = "lost"
                \/ (pc[w] = "insert" /\ pc'[w] = "done" /\ AuditRow(w, prev_hash[w]) \in table')
  PROVE  Placed'
  <1>d. Range(latest_hash) \subseteq Writers
    BY ElementOfSeq, LenProperties DEF TypeOK, Hashes, Range
  <1>1. ASSUME NEW i \in DOMAIN latest_hash
        PROVE  /\ pc'[latest_hash[i]] \in {"insert", "done", "lost"}
               /\ pc'[latest_hash[i]] = "insert"
                    => prev_hash[latest_hash[i]] = SubSeq(latest_hash, 1, i - 1)
               /\ pc'[latest_hash[i]] = "done"
                    => AuditRow(latest_hash[i], SubSeq(latest_hash, 1, i - 1)) \in table'
    <2> DEFINE v == latest_hash[i]
    <2>1. /\ v \in Writers
          /\ pc[v] \in {"insert", "done", "lost"}
          /\ pc[v] = "insert" => prev_hash[v] = SubSeq(latest_hash, 1, i - 1)
          /\ pc[v] = "done" => AuditRow(v, SubSeq(latest_hash, 1, i - 1)) \in table
      BY <1>d DEF Placed, LinksPlaced, Range
    <2> HIDE DEF v
    <2>2. CASE v # w
      BY <2>1, <2>2 DEF v
    <2>3. CASE v = w
      BY <2>1, <2>3 DEF v
    <2>4. QED
      BY <2>2, <2>3
  <1>2. ASSUME NEW v \in Writers, v \notin Range(latest_hash)
        PROVE  /\ prev_hash[v] = GENESIS_HASH
               /\ pc'[v] \in {"insert", "done"} => attempts'[v] = MaxRetries
               /\ pc'[v] = "done" => AuditRow(v, GENESIS_HASH) \in table'
    <2>1. /\ prev_hash[v] = GENESIS_HASH
          /\ pc[v] \in {"insert", "done"} => attempts[v] = MaxRetries
          /\ pc[v] = "done" => AuditRow(v, GENESIS_HASH) \in table
      BY <1>2 DEF Placed, OffChain
    <2>2. CASE v # w
      BY <2>1, <2>2
    <2>3. CASE v = w
      BY <2>1, <2>3
    <2>4. QED
      BY <2>2, <2>3
  <1>3. LinksPlaced'
    BY <1>1 DEF LinksPlaced, AuditRow, compute_row_hash
  <1>4. OffChain'
    BY <1>2 DEF OffChain, AuditRow, compute_row_hash, GENESIS_HASH
  <1>5. QED
    BY <1>3, <1>4 DEF Placed, IsInjective

\* Every step keeps the links placed.
LEMMA PlacedStep ==
  ASSUME RedisHealthy
  PROVE  TypeOK /\ Looping /\ ChainInv /\ Placed /\ [Next]_vars => Placed'
  <1> SUFFICES ASSUME TypeOK, Looping, ChainInv, Placed, [Next]_vars PROVE Placed'
    OBVIOUS
  <1>1. ASSUME NEW w \in Writers, Watch(w) \/ Get(w) PROVE Placed'
    <2>1. /\ latest_hash' = latest_hash /\ prev_hash' = prev_hash /\ table' = table
          /\ attempts' = attempts
          /\ pc[w] \in {"watch", "get"} /\ pc'[w] \in {"get", "exec"}
          /\ \A v \in Writers : v # w => pc'[v] = pc[v]
      BY <1>1 DEF Watch, Get, Goto, TypeOK
    <2>2. QED
      BY <2>1, PlacedElse
  <1>2. ASSUME NEW w \in Writers, Exec(w) PROVE Placed'
    BY <1>2, PlacedExec
  <1>3. ASSUME NEW w \in Writers, ExecConflict(w) PROVE Placed'
    <2>1. pc[w] = "exec" /\ attempts[w] < MaxRetries /\ attempts[w] \in Nat
      BY <1>3, AuditAssumption DEF ExecConflict, Looping, TypeOK
    <2>2. /\ latest_hash' = latest_hash /\ prev_hash' = prev_hash /\ table' = table
          /\ attempts'[w] = attempts[w] + 1
          /\ \A v \in Writers : v # w => pc'[v] = pc[v] /\ attempts'[v] = attempts[v]
          /\ pc'[w] = IF attempts[w] + 1 < MaxRetries THEN "watch" ELSE "insert"
      BY <1>3 DEF ExecConflict, Retry, Goto, TypeOK
    <2>3. pc'[w] = "watch" \/ (pc'[w] = "insert" /\ attempts'[w] = MaxRetries)
      BY <2>1, <2>2, AuditAssumption
    <2>4. QED
      BY <2>1, <2>2, <2>3, PlacedElse
  <1>4. ASSUME NEW w \in Writers, Insert(w) PROVE Placed'
    <2>1. /\ latest_hash' = latest_hash /\ prev_hash' = prev_hash /\ attempts' = attempts
          /\ table' = table \cup {AuditRow(w, prev_hash[w])}
          /\ pc[w] = "insert" /\ pc'[w] = "done"
          /\ \A v \in Writers : v # w => pc'[v] = pc[v]
      BY <1>4 DEF Insert, Goto, TypeOK
    <2>2. QED
      BY <2>1, PlacedElse
  <1>5. ASSUME NEW w \in Writers, InsertFails(w) \/ Crash(w) PROVE Placed'
    <2>1. /\ latest_hash' = latest_hash /\ prev_hash' = prev_hash /\ attempts' = attempts
          /\ table' = table /\ pc'[w] = "lost"
          /\ \A v \in Writers : v # w => pc'[v] = pc[v]
      BY <1>5 DEF InsertFails, Crash, Goto, TypeOK
    <2>2. QED
      BY <2>1, PlacedElse
  <1>6. CASE UNCHANGED vars
    BY <1>6 DEF vars, Placed, IsInjective, LinksPlaced, OffChain, Range
  <1>7. /\ \A w \in Writers : ~RedisError(w) /\ ~ExecReplyLost(w)
        /\ ~RedisRestart
    BY DEF RedisHealthy, RedisError, ExecReplyLost, RedisRestart
  <1>8. QED
    BY <1>1, <1>2, <1>3, <1>4, <1>5, <1>6, <1>7 DEF Next, Step

\* The inductive invariant behind the two theorems below.
LEMMA AccountHolds ==
  ASSUME RedisHealthy
  PROVE  Spec => [](RacesCharged /\ Placed)
  <1> DEFINE I == (TypeOK /\ Looping) /\ ChainInv /\ RacesCharged /\ Placed
  <1>1. Init => I
    BY TypeInit, LoopingInit, ChainInit, AccountInit
  <1>2. I /\ [Next]_vars => I'
    BY TypeStep, ChainStep, ChargedStep, PlacedStep DEF RedisHealthy
  <1>3. QED
    BY <1>1, <1>2, PTL DEF Spec

\* With Redis healthy, any number of tasks and any number of retries: the
\* races that a task has lost are no more than the links others have made.
THEOREM RacesLostToLinksAlways ==
  ASSUME RedisHealthy
  PROVE  Spec => []RacesLostToLinks
  <1>1. RacesCharged => RacesLostToLinks
    BY DEF RacesCharged, RacesLostToLinks, Others
  <1>2. QED
    BY <1>1, AccountHolds, PTL

\* Under the same condition nothing is missing or off the chain without a
\* reason: a lost insert, a crash, or max_retries lost races.
THEOREM ChainAccountedAlways ==
  ASSUME RedisHealthy
  PROVE  Spec => []ChainAccounted
  <1>1. Placed => ChainAccounted
    BY DEF Placed, LinksPlaced, OffChain, ChainAccounted
  <1>2. QED
    BY <1>1, AccountHolds, PTL
==============================================================================
