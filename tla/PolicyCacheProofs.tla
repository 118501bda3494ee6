-------------------------- MODULE PolicyCacheProofs --------------------------
(***************************************************************************)
(* Proofs about PolicyCache for any number of processes, readers, policies *)
(* and revisions: its types, that the ledger covers the cached policy,     *)
(* that the cache implements the register of PolicyRegister, and that      *)
(* readers never see a rollback.                                           *)
(***************************************************************************)
EXTENDS PolicyCache, TLAPS

-----------------------------------------------------------------------------
(***************************************************************************)
(* Documents and entries                                                   *)
(***************************************************************************)
\* The entry of a document is an entry with a revision, and is never NoEntry.
LEMMA EntryOfDoc ==
    ASSUME NEW d \in Docs
    PROVE  EntryOf(d) \in Entries /\ EntryOf(d).rev = d.rev /\ d.rev > 0
           /\ EntryOf(d) # NoEntry /\ d.id \in PolicyIDs /\ d # NoDoc
  BY NoDocAssumption DEF Docs, Entries, EntryOf, NoEntry

\* What observe does to the entries: that of the document is set, and is the
\* same as before or has a higher revision; the others stay.
LEMMA ObserveRaises ==
    ASSUME NEW l \in [PolicyIDs -> Entries], NEW d \in Docs, Observable(l, d)
    PROVE  /\ Observe(l, d) \in [PolicyIDs -> Entries]
           /\ Observe(l, d)[d.id] = EntryOf(d)
           /\ \A id \in PolicyIDs :
                 Observe(l, d)[id] = l[id] \/ Observe(l, d)[id].rev > l[id].rev
  <1>1. EntryOf(d) \in Entries /\ EntryOf(d).rev = d.rev /\ d.rev > 0 /\ d.id \in PolicyIDs
    BY EntryOfDoc
  <1>2. d.rev > l[d.id].rev \/ l[d.id] = EntryOf(d)
    BY <1>1 DEF Observable, NoEntry
  <1> QED
    BY <1>1, <1>2 DEF Observe, Entries

\* Seeding a missing ledger only adds the entry of the cached policy.
LEMMA SeedingRaises ==
    ASSUME ledger \in [PolicyIDs -> Entries], policy \in Docs \cup {NoDoc}
    PROVE  /\ Seeded \in [PolicyIDs -> Entries]
           /\ \A id \in PolicyIDs : Seeded[id] = ledger[id] \/ Seeded[id].rev > ledger[id].rev
           /\ policy # NoDoc /\ ledger = EmptyLedger => Seeded[policy.id] = EntryOf(policy)
  <1>1. CASE ledger = EmptyLedger /\ policy # NoDoc
    <2>1. policy \in Docs
      BY <1>1
    <2>2. /\ EntryOf(policy) \in Entries /\ EntryOf(policy).rev = policy.rev
          /\ policy.rev > 0 /\ policy.id \in PolicyIDs
      BY <2>1, EntryOfDoc
    <2>3. Seeded = [ledger EXCEPT ![policy.id] = EntryOf(policy)]
      BY <1>1 DEF Seeded, Observe
    <2>4. ledger[policy.id].rev = 0
      BY <1>1, <2>2 DEF EmptyLedger, NoEntry
    <2> QED
      BY <2>2, <2>3, <2>4
  <1>2. CASE ~(ledger = EmptyLedger /\ policy # NoDoc)
    BY <1>2 DEF Seeded
  <1> QED
    BY <1>1, <1>2

-----------------------------------------------------------------------------
(***************************************************************************)
(* Types                                                                   *)
(***************************************************************************)
LEMMA InitTypes == Init => TypeOK
  <1> SUFFICES ASSUME Init PROVE TypeOK
    OBVIOUS
  <1>1. NoEntry \in Entries /\ EmptyLedger \in [PolicyIDs -> Entries]
    BY DEF NoEntry, Entries, EmptyLedger
  <1>2. server \in [PolicyIDs -> Docs] /\ \A id \in PolicyIDs : server[id].id = id
    BY DEF Init, Docs
  <1>3. assigned \in PolicyIDs /\ policy \in Docs \cup {NoDoc}
    BY <1>2 DEF Init
  <1>4. /\ pc \in [Procs -> {"idle", "fetched", "locked", "ledgered"}]
        /\ held \in [Procs -> Docs \cup {NoDoc}]
        /\ \A p \in Procs : pc[p] = "idle" <=> held[p] = NoDoc
        /\ reading \in [Readers -> Docs \cup {NoDoc}]
    BY DEF Init
  <1> QED
    BY <1>1, <1>2, <1>3, <1>4 DEF Init, TypeOK

LEMMA NextTypes == TypeOK /\ [Next]_vars => TypeOK'
  <1> SUFFICES ASSUME TypeOK, [Next]_vars PROVE TypeOK'
    OBVIOUS
  <1> USE DEF TypeOK
  <1>1. ASSUME NEW id \in PolicyIDs, UpdatePolicy(id) PROVE TypeOK'
    BY <1>1 DEF UpdatePolicy, files, procs, Docs
  <1>2. ASSUME NEW id \in PolicyIDs, RecreatePolicy(id) PROVE TypeOK'
    BY <1>2 DEF RecreatePolicy, files, procs, Docs
  <1>3. ASSUME NEW id \in PolicyIDs, AssignGroupPolicy(id) PROVE TypeOK'
    BY <1>3 DEF AssignGroupPolicy, files, procs
  <1>4. ASSUME NEW p \in Procs, FetchPolicy(p) PROVE TypeOK'
    <2>1. server[assigned] \in Docs /\ server[assigned] # NoDoc
      BY NoDocAssumption
    <2> QED
      BY <1>4, <2>1 DEF FetchPolicy, files
  <1>5. ASSUME NEW p \in Procs, AcquireLock(p) PROVE TypeOK'
    BY <1>5 DEF AcquireLock, Return, files
  <1>6. ASSUME NEW p \in Procs, RejectPolicy(p) PROVE TypeOK'
    BY <1>6 DEF RejectPolicy, Return, files
  <1>7. ASSUME NEW p \in Procs, PersistLedger(p) PROVE TypeOK'
    <2>1. held[p] \in Docs
      BY <1>7 DEF PersistLedger
    <2>2. Observe(Seeded, held[p]) \in [PolicyIDs -> Entries]
      BY <1>7, <2>1, SeedingRaises, ObserveRaises DEF PersistLedger
    <2> QED
      BY <1>7, <2>2 DEF PersistLedger
  <1>8. ASSUME NEW p \in Procs, InstallPolicy(p) PROVE TypeOK'
    BY <1>8 DEF InstallPolicy, Return
  <1>9. ASSUME NEW p \in Procs, Kill(p) PROVE TypeOK'
    BY <1>9 DEF Kill, Return, files
  <1>10. ASSUME NEW r \in Readers, ReadPolicy(r) PROVE TypeOK'
    BY <1>10 DEF ReadPolicy, files, procs
  <1>11. ASSUME NEW r \in Readers, ReadLedger(r) PROVE TypeOK'
    <2>1. reading[r] \in Docs
      BY <1>11 DEF ReadLedger
    <2>2. EntryOf(reading[r]) \in Entries
      BY <2>1, EntryOfDoc
    <2> QED
      BY <1>11, <2>1, <2>2 DEF ReadLedger, files, procs
  <1>12. ASSUME UNCHANGED vars PROVE TypeOK'
    BY <1>12 DEF vars, files, procs
  <1> QED
    BY <1>1, <1>2, <1>3, <1>4, <1>5, <1>6, <1>7, <1>8, <1>9, <1>10, <1>11, <1>12
    DEF Next, Sync

\* Whatever the processes do, the files hold documents and entries, and a
\* process holds a response exactly while its sync is under way.
THEOREM TypeCorrect == Spec => []TypeOK
  BY InitTypes, NextTypes, PTL DEF Spec

-----------------------------------------------------------------------------
(***************************************************************************)
(* The inductive invariant: one writer at a time; a writer that has        *)
(* written the ledger finds its own document there; the ledger covers the  *)
(* cached policy and what readers were given.                              *)
(***************************************************************************)
Writing(p) == pc[p] \in {"locked", "ledgered"}

OneWriter == \A p, q \in Procs : Writing(p) /\ Writing(q) => p = q

LedgerHasHeld ==
    \A p \in Procs : pc[p] = "ledgered" => ledger[held[p].id] = EntryOf(held[p])

Covered(id, e) == ledger[id] = e \/ ledger[id].rev > e.rev

LoadedCovered == \A id \in PolicyIDs : Covered(id, loaded[id])

CacheInv == OneWriter /\ LedgerHasHeld /\ LedgerCoversPolicy /\ LoadedCovered

\* A step changes the ledger in one place only, and only upwards.
LEMMA LedgerOnlyRises ==
    ASSUME TypeOK, [Next]_vars
    PROVE  \A id \in PolicyIDs : ledger'[id] = ledger[id] \/ ledger'[id].rev > ledger[id].rev
  <1>1. CASE UNCHANGED ledger
    BY <1>1
  <1>2. ASSUME NEW p \in Procs, PersistLedger(p)
        PROVE  \A id \in PolicyIDs : ledger'[id] = ledger[id] \/ ledger'[id].rev > ledger[id].rev
    <2>1. held[p] \in Docs
      BY <1>2 DEF PersistLedger, TypeOK
    <2>2. /\ Seeded \in [PolicyIDs -> Entries]
          /\ \A id \in PolicyIDs : Seeded[id] = ledger[id] \/ Seeded[id].rev > ledger[id].rev
      BY SeedingRaises DEF TypeOK
    <2>3. /\ ledger' \in [PolicyIDs -> Entries]
          /\ \A id \in PolicyIDs : ledger'[id] = Seeded[id] \/ ledger'[id].rev > Seeded[id].rev
      BY <1>2, <2>1, <2>2, ObserveRaises DEF PersistLedger
    <2> QED
      BY <2>2, <2>3 DEF TypeOK, Entries
  <1>3. ASSUME NEW p \in Procs, Sync(p) \/ Kill(p)
        PROVE  UNCHANGED ledger \/ PersistLedger(p)
    BY <1>3 DEF Sync, Kill, FetchPolicy, AcquireLock, RejectPolicy, InstallPolicy, files
  <1>4. ASSUME NEW r \in Readers, ReadPolicy(r) \/ ReadLedger(r) PROVE UNCHANGED ledger
    BY <1>4 DEF ReadPolicy, ReadLedger, files
  <1>5. ASSUME NEW id \in PolicyIDs, UpdatePolicy(id) \/ RecreatePolicy(id) \/ AssignGroupPolicy(id)
        PROVE  UNCHANGED ledger
    BY <1>5 DEF UpdatePolicy, RecreatePolicy, AssignGroupPolicy, files
  <1>6. UNCHANGED vars => UNCHANGED ledger
    BY DEF vars, files
  <1> QED
    BY <1>1, <1>2, <1>3, <1>4, <1>5, <1>6 DEF Next

\* What is covered stays covered.
LEMMA CoverLasts ==
    ASSUME TypeOK, TypeOK', [Next]_vars, NEW id \in PolicyIDs, NEW e, e.rev \in Nat, Covered(id, e)
    PROVE  ledger'[id] = e \/ ledger'[id].rev > e.rev
  <1>1. ledger'[id] = ledger[id] \/ ledger'[id].rev > ledger[id].rev
    BY LedgerOnlyRises
  <1>2. ledger[id].rev \in Nat /\ ledger'[id].rev \in Nat
    BY DEF TypeOK, Entries
  <1> QED
    BY <1>1, <1>2 DEF Covered

LEMMA InitCache == Init => CacheInv
  <1> SUFFICES ASSUME Init PROVE CacheInv
    OBVIOUS
  <1>1. OneWriter /\ LedgerHasHeld
    BY DEF Init, OneWriter, Writing, LedgerHasHeld
  <1>2. LedgerCoversPolicy /\ LoadedCovered
    BY DEF Init, LedgerCoversPolicy, LoadedCovered, Covered
  <1> QED
    BY <1>1, <1>2 DEF CacheInv

\* The flock keeps a second process out.
LEMMA NextOneWriter == TypeOK /\ OneWriter /\ [Next]_vars => OneWriter'
  <1> SUFFICES ASSUME TypeOK, OneWriter, [Next]_vars PROVE OneWriter'
    OBVIOUS
  <1> USE DEF OneWriter, Writing, TypeOK
  <1>1. CASE UNCHANGED pc
    BY <1>1
  <1>2. ASSUME NEW p \in Procs, AcquireLock(p) PROVE OneWriter'
    BY <1>2 DEF AcquireLock, Locked, Return
  <1>3. ASSUME NEW p \in Procs, FetchPolicy(p) PROVE OneWriter'
    BY <1>3 DEF FetchPolicy
  <1>4. ASSUME NEW p \in Procs, RejectPolicy(p) \/ InstallPolicy(p) \/ Kill(p) PROVE OneWriter'
    BY <1>4 DEF RejectPolicy, InstallPolicy, Kill, Return
  <1>5. ASSUME NEW p \in Procs, PersistLedger(p) PROVE OneWriter'
    BY <1>5 DEF PersistLedger
  <1>6. ASSUME NEW r \in Readers, ReadPolicy(r) \/ ReadLedger(r) PROVE UNCHANGED pc
    BY <1>6 DEF ReadPolicy, ReadLedger, procs
  <1>7. ASSUME NEW id \in PolicyIDs, UpdatePolicy(id) \/ RecreatePolicy(id) \/ AssignGroupPolicy(id)
        PROVE  UNCHANGED pc
    BY <1>7 DEF UpdatePolicy, RecreatePolicy, AssignGroupPolicy, procs
  <1>8. UNCHANGED vars => UNCHANGED pc
    BY DEF vars, procs
  <1> QED
    BY <1>1, <1>2, <1>3, <1>4, <1>5, <1>6, <1>7, <1>8 DEF Next, Sync

\* Only the writer touches the ledger, so its own entry stays until it installs
\* the policy.
LEMMA NextLedgerHasHeld ==
    TypeOK /\ OneWriter /\ LedgerHasHeld /\ [Next]_vars => LedgerHasHeld'
  <1> SUFFICES ASSUME TypeOK, OneWriter, LedgerHasHeld, [Next]_vars PROVE LedgerHasHeld'
    OBVIOUS
  <1> USE DEF LedgerHasHeld, TypeOK
  <1>1. CASE UNCHANGED <<ledger, pc, held>>
    BY <1>1 DEF EntryOf
  <1>2. ASSUME NEW p \in Procs, PersistLedger(p) PROVE LedgerHasHeld'
    <2>1. held[p] \in Docs /\ Seeded \in [PolicyIDs -> Entries]
      BY <1>2, SeedingRaises DEF PersistLedger
    <2>2. ledger'[held[p].id] = EntryOf(held[p])
      BY <1>2, <2>1, ObserveRaises DEF PersistLedger
    <2>3. \A q \in Procs : pc'[q] = "ledgered" => q = p
      BY <1>2 DEF PersistLedger, OneWriter, Writing
    <2> QED
      BY <1>2, <2>2, <2>3 DEF PersistLedger, EntryOf
  <1>3. ASSUME NEW p \in Procs, FetchPolicy(p) \/ AcquireLock(p) \/ RejectPolicy(p)
                                  \/ InstallPolicy(p) \/ Kill(p)
        PROVE  LedgerHasHeld'
    <2>1. UNCHANGED ledger
      BY <1>3 DEF FetchPolicy, AcquireLock, RejectPolicy, InstallPolicy, Kill, files
    <2>2. \A q \in Procs : pc'[q] = "ledgered" => pc[q] = "ledgered" /\ held'[q] = held[q]
      BY <1>3 DEF FetchPolicy, AcquireLock, RejectPolicy, InstallPolicy, Kill, Return
    <2> QED
      BY <2>1, <2>2 DEF EntryOf
  <1>4. ASSUME NEW r \in Readers, ReadPolicy(r) \/ ReadLedger(r)
        PROVE  UNCHANGED <<ledger, pc, held>>
    BY <1>4 DEF ReadPolicy, ReadLedger, files, procs
  <1>5. ASSUME NEW id \in PolicyIDs, UpdatePolicy(id) \/ RecreatePolicy(id) \/ AssignGroupPolicy(id)
        PROVE  UNCHANGED <<ledger, pc, held>>
    BY <1>5 DEF UpdatePolicy, RecreatePolicy, AssignGroupPolicy, files, procs
  <1>6. UNCHANGED vars => UNCHANGED <<ledger, pc, held>>
    BY DEF vars, files, procs
  <1> QED
    BY <1>1, <1>2, <1>3, <1>4, <1>5, <1>6 DEF Next, Sync

\* The ledger is written before the policy, so it never falls behind it.
LEMMA NextLedgerCoversPolicy ==
    TypeOK /\ TypeOK' /\ LedgerHasHeld /\ LedgerCoversPolicy /\ [Next]_vars
        => LedgerCoversPolicy'
  <1> SUFFICES ASSUME TypeOK, TypeOK', LedgerHasHeld, LedgerCoversPolicy, [Next]_vars,
                      policy' # NoDoc, ledger' # EmptyLedger
               PROVE  ledger'[policy'.id] = EntryOf(policy') \/ ledger'[policy'.id].rev > policy'.rev
    BY DEF LedgerCoversPolicy, EntryOf, EmptyLedger
  <1>1. CASE UNCHANGED policy /\ ledger # EmptyLedger
    <2>1. policy \in Docs
      BY <1>1 DEF TypeOK
    <2>2. /\ policy.id \in PolicyIDs /\ EntryOf(policy).rev = policy.rev
          /\ EntryOf(policy).rev \in Nat
      BY <2>1, EntryOfDoc DEF Docs
    <2>3. Covered(policy.id, EntryOf(policy))
      BY <1>1, <2>2 DEF LedgerCoversPolicy, Covered
    <2> QED
      BY <1>1, <2>2, <2>3, CoverLasts
  <1>2. ASSUME NEW p \in Procs, InstallPolicy(p), policy' # policy
        PROVE  ledger'[policy'.id] = EntryOf(policy')
    BY <1>2 DEF InstallPolicy, LedgerHasHeld
  <1>3. ASSUME NEW p \in Procs, PersistLedger(p), ledger = EmptyLedger
        PROVE  ledger'[policy'.id] = EntryOf(policy') \/ ledger'[policy'.id].rev > policy'.rev
    <2>1. policy \in Docs /\ held[p] \in Docs /\ policy' = policy
      BY <1>3 DEF PersistLedger, TypeOK
    <2>2. Seeded \in [PolicyIDs -> Entries] /\ Seeded[policy.id] = EntryOf(policy)
      BY <1>3, <2>1, SeedingRaises DEF TypeOK
    <2>3. \A id \in PolicyIDs : ledger'[id] = Seeded[id] \/ ledger'[id].rev > Seeded[id].rev
      BY <1>3, <2>1, <2>2, ObserveRaises DEF PersistLedger
    <2> QED
      BY <2>1, <2>2, <2>3, EntryOfDoc
  <1>4. ASSUME NEW p \in Procs, Sync(p) \/ Kill(p)
        PROVE  (UNCHANGED policy /\ UNCHANGED ledger) \/ PersistLedger(p) \/ InstallPolicy(p)
    BY <1>4 DEF Sync, Kill, FetchPolicy, AcquireLock, RejectPolicy, files
  <1>5. ASSUME NEW p \in Procs, PersistLedger(p) PROVE UNCHANGED policy
    BY <1>5 DEF PersistLedger
  <1>6. ASSUME NEW p \in Procs, InstallPolicy(p) PROVE UNCHANGED ledger
    BY <1>6 DEF InstallPolicy
  <1>7. ASSUME NEW r \in Readers, ReadPolicy(r) \/ ReadLedger(r)
        PROVE  UNCHANGED policy /\ UNCHANGED ledger
    BY <1>7 DEF ReadPolicy, ReadLedger, files
  <1>8. ASSUME NEW id \in PolicyIDs, UpdatePolicy(id) \/ RecreatePolicy(id) \/ AssignGroupPolicy(id)
        PROVE  UNCHANGED policy /\ UNCHANGED ledger
    BY <1>8 DEF UpdatePolicy, RecreatePolicy, AssignGroupPolicy, files
  <1>9. UNCHANGED vars => UNCHANGED policy /\ UNCHANGED ledger
    BY DEF vars, files
  <1> QED
    BY <1>1, <1>2, <1>3, <1>4, <1>5, <1>6, <1>7, <1>8, <1>9 DEF Next

\* Readers are given what the ledger holds at that moment.
LEMMA LoadStep ==
    ASSUME TypeOK, [Next]_vars
    PROVE  \/ UNCHANGED loaded
           \/ \E id \in PolicyIDs : /\ ledger[id] # NoEntry
                                    /\ loaded' = [loaded EXCEPT ![id] = ledger[id]]
                                    /\ UNCHANGED ledger
  <1>1. ASSUME NEW r \in Readers, ReadLedger(r), ~UNCHANGED loaded
        PROVE  \E id \in PolicyIDs : /\ ledger[id] # NoEntry
                                     /\ loaded' = [loaded EXCEPT ![id] = ledger[id]]
                                     /\ UNCHANGED ledger
    <2>1. reading[r] \in Docs
      BY <1>1 DEF ReadLedger, TypeOK
    <2>2. ledger[reading[r].id] = EntryOf(reading[r])
      BY <1>1 DEF ReadLedger, Returns, VerifyCurrent
    <2>3. reading[r].id \in PolicyIDs /\ EntryOf(reading[r]) # NoEntry
      BY <2>1, EntryOfDoc
    <2>4. loaded' = [loaded EXCEPT ![reading[r].id] = EntryOf(reading[r])] /\ UNCHANGED ledger
      BY <1>1 DEF ReadLedger, files
    <2> QED
      BY <2>2, <2>3, <2>4
  <1>2. ASSUME NEW p \in Procs, Sync(p) \/ Kill(p) PROVE UNCHANGED loaded
    BY <1>2 DEF Sync, Kill, FetchPolicy, AcquireLock, RejectPolicy, PersistLedger, InstallPolicy
  <1>3. ASSUME NEW r \in Readers, ReadPolicy(r) PROVE UNCHANGED loaded
    BY <1>3 DEF ReadPolicy
  <1>4. ASSUME NEW id \in PolicyIDs, UpdatePolicy(id) \/ RecreatePolicy(id) \/ AssignGroupPolicy(id)
        PROVE  UNCHANGED loaded
    BY <1>4 DEF UpdatePolicy, RecreatePolicy, AssignGroupPolicy
  <1>5. UNCHANGED vars => UNCHANGED loaded
    BY DEF vars
  <1> QED
    BY <1>1, <1>2, <1>3, <1>4, <1>5 DEF Next

LEMMA NextLoadedCovered ==
    TypeOK /\ TypeOK' /\ LoadedCovered /\ [Next]_vars => LoadedCovered'
  <1> SUFFICES ASSUME TypeOK, TypeOK', LoadedCovered, [Next]_vars, NEW id \in PolicyIDs
               PROVE  ledger'[id] = loaded'[id] \/ ledger'[id].rev > loaded'[id].rev
    BY DEF LoadedCovered, Covered
  <1>1. CASE UNCHANGED loaded
    <2>1. loaded[id].rev \in Nat /\ Covered(id, loaded[id])
      BY DEF TypeOK, Entries, LoadedCovered
    <2> QED
      BY <1>1, <2>1, CoverLasts
  <1>2. ASSUME NEW i \in PolicyIDs, loaded' = [loaded EXCEPT ![i] = ledger[i]], UNCHANGED ledger
        PROVE  ledger'[id] = loaded'[id] \/ ledger'[id].rev > loaded'[id].rev
    BY <1>2 DEF LoadedCovered, Covered, TypeOK
  <1> QED
    BY <1>1, <1>2, LoadStep

LEMMA CacheInvariant == Spec => [](TypeOK /\ CacheInv)
  <1>1. Init => TypeOK /\ CacheInv
    BY InitTypes, InitCache
  <1>2. (TypeOK /\ CacheInv) /\ [Next]_vars => (TypeOK /\ CacheInv)'
    BY NextTypes, NextOneWriter, NextLedgerHasHeld, NextLedgerCoversPolicy, NextLoadedCovered
    DEF CacheInv
  <1> QED
    BY <1>1, <1>2, PTL DEF Spec

\* persistVerifiedPolicy: whenever there is a ledger it remembers the cached
\* policy or a later revision, however syncs are killed between the two writes.
THEOREM LedgerCovers == Spec => []LedgerCoversPolicy
  BY CacheInvariant, PTL DEF CacheInv

\* LoadPolicy never returns a lower revision than before, nor another document
\* under the same revision.
THEOREM NoRollback == Spec => LoadNeverRollsBack
  <1>1. TypeOK /\ CacheInv /\ [Next]_vars
            => [\A id \in PolicyIDs :
                   loaded'[id] # loaded[id] => loaded'[id].rev > loaded[id].rev]_vars
    <2> SUFFICES ASSUME TypeOK, CacheInv, [Next]_vars, NEW id \in PolicyIDs,
                        loaded'[id] # loaded[id]
                 PROVE  loaded'[id].rev > loaded[id].rev
      OBVIOUS
    <2>1. PICK i \in PolicyIDs : loaded' = [loaded EXCEPT ![i] = ledger[i]]
      BY LoadStep
    <2>2. loaded'[id] = ledger[id]
      BY <2>1 DEF TypeOK
    <2> QED
      BY <2>2 DEF CacheInv, LoadedCovered, Covered
  <1> QED
    BY <1>1, CacheInvariant, PTL DEF Spec, LoadNeverRollsBack

\* The cache implements the register: every step of it raises entries of the
\* ledger, hands out the current entry, or leaves both alone.
THEOREM CacheImplementsRegister == Spec => ImplementsRegister
  <1>1. Init => Register!Init
    BY DEF Init, Register!Init, Register!NoEntry, EmptyLedger, NoEntry
  <1>2. TypeOK /\ TypeOK' /\ [Next]_vars => [Register!Next]_<<ledger, loaded>>
    <2> SUFFICES ASSUME TypeOK, TypeOK', [Next]_vars
                 PROVE  Register!Next \/ UNCHANGED <<ledger, loaded>>
      OBVIOUS
    <2>1. CASE UNCHANGED loaded
      <3>1. ledger' \in [PolicyIDs -> Register!Entries]
        BY DEF TypeOK, Entries, Register!Entries
      <3>2. \A id \in PolicyIDs : ledger'[id] # ledger[id] => ledger'[id].rev > ledger[id].rev
        BY LedgerOnlyRises
      <3> QED
        BY <2>1, <3>1, <3>2 DEF Register!Next, Register!Raise
    <2>2. ASSUME NEW id \in PolicyIDs, ledger[id] # NoEntry,
                 loaded' = [loaded EXCEPT ![id] = ledger[id]], UNCHANGED ledger
          PROVE  Register!Load(id)
      BY <2>2 DEF Register!Load, Register!NoEntry, NoEntry
    <2> QED
      BY <2>1, <2>2, LoadStep DEF Register!Next
  <1> QED
    BY <1>1, <1>2, TypeCorrect, PTL DEF Spec, ImplementsRegister, Register!Spec

=============================================================================
