----------------------------- MODULE TL2Proofs ------------------------------
(***************************************************************************)
(* The locks of TL2, for any number of threads, words and locks, however   *)
(* the words share the locks.                                              *)
(*                                                                         *)
(* LockedByEntries is not inductive: the reset at the end of DropLocks or  *)
(* RestoreLocks must not leave a lock behind, so every lock that is still  *)
(* held there belongs to an entry the loop has not come to (HeldBy).  The  *)
(* other direction, from an entry to its lock (Kept), holds when only one  *)
(* thread stores behind a lock that is stored behind twice (SoleStorer),   *)
(* and gives NobodyElsesLock.                                              *)
(***************************************************************************)
EXTENDS TL2, TLAPS

Stamps  == [by : Threads \cup {NoThread}, n : Nat]
Entries == [addr : Addrs, valu : Vals, rdv : Nat]
Places  == {"idle", "body", "load", "loaded", "grow", "store", "write",
            "clock", "validate", "drop", "undo", "restore"}
InOp    == [addr : Addrs \cup {NoAddr}, cv : Stamps,
            valu : Vals \cup {NoVal}, locked : BOOLEAN]

Types ==
    /\ memory \in [Addrs -> Vals]
    /\ LockTab \in [Locks -> Stamps]
    /\ GClock \in Nat
    /\ pc \in [Threads -> Places]
    /\ rv \in [Threads -> Nat] /\ wv \in [Threads -> Nat]
    /\ wrSet \in [Threads -> Seq(Entries)]
    /\ op \in [Threads -> InOp]
    /\ at \in [Threads -> Nat]

\* What t's place says about its local variables.
Located(t) ==
    /\ pc[t] \in {"store", "write"} => op[t].addr \in Addrs /\ op[t].valu \in Vals
    /\ pc[t] \in {"load", "loaded"} => op[t].addr \in Addrs
    /\ pc[t] \in {"clock", "validate"} => wrSet[t] # << >>
    /\ pc[t] \in {"undo", "drop", "restore"} => at[t] \in 1 .. Len(wrSet[t])

\* The locks t holds are those of its entries, as far as they have not been
\* given back.
HeldBy(t) ==
    \A l \in Locks : LockTab[l].by = t =>
        IF LockTab[l].n = 0 THEN pc[t] = "store" /\ LockOf[op[t].addr] = l
        ELSE /\ LockTab[l].n \in 1 .. Len(wrSet[t])
             /\ LockOf[wrSet[t][LockTab[l].n].addr] = l
             /\ pc[t] \in {"drop", "restore"} => LockTab[l].n >= at[t]

LInv == Types /\ \A t \in Threads : Located(t) /\ HeldBy(t)

-----------------------------------------------------------------------------
\* A thread keeps what it has when another one takes a step that takes no
\* lock away from it.
LEMMA OthersHeld ==
  ASSUME NEW u \in Threads, Located(u), HeldBy(u),
         pc'[u] = pc[u], op'[u] = op[u], at'[u] = at[u], wrSet'[u] = wrSet[u],
         \A l \in Locks : LockTab'[l].by = u => LockTab'[l] = LockTab[l]
  PROVE  Located(u)' /\ HeldBy(u)'
<1>1. Located(u)'
  BY DEF Located
<1>2. HeldBy(u)'
  BY DEF HeldBy
<1> QED
  BY <1>1, <1>2

\* A step of t that takes no lock and keeps the write set: the invariant
\* needs no more than what t's new place says about its variables.
LEMMA Moved ==
  ASSUME LInv, NEW t \in Threads, UNCHANGED <<LockTab, wrSet>>,
         Types', Located(t)', pc[t] # "store",
         \A u \in Threads \ {t} :
             pc'[u] = pc[u] /\ op'[u] = op[u] /\ at'[u] = at[u],
         pc'[t] \in {"drop", "restore"} => at'[t] = 1
  PROVE  LInv'
<1>1. ASSUME NEW u \in Threads PROVE (Located(u) /\ HeldBy(u))'
  <2>1. CASE u # t
    BY <2>1, OthersHeld DEF LInv
  <2>2. CASE u = t
    <3>1. ASSUME NEW l \in Locks, LockTab[l].by = t
          PROVE  /\ LockTab[l].n # 0
                 /\ LockTab[l].n \in 1 .. Len(wrSet[t])
                 /\ LockOf[wrSet[t][LockTab[l].n].addr] = l
                 /\ pc'[t] \in {"drop", "restore"} => LockTab[l].n >= at'[t]
      BY <3>1 DEF LInv, HeldBy
    <3> QED
      BY <2>2, <3>1 DEF HeldBy
  <2> QED
    BY <2>1, <2>2
<1> QED
  BY <1>1 DEF LInv

\* The logs are emptied when no lock is held any more.
LEMMA ResetKeeps ==
  ASSUME LInv, NEW t \in Threads, txReset(t),
         memory' \in [Addrs -> Vals], GClock' \in Nat,
         LockTab' \in [Locks -> Stamps],
         \A l \in Locks : LockTab'[l] = LockTab[l] \/ LockTab'[l].by = NoThread,
         \A l \in Locks : LockTab'[l].by # t
  PROVE  LInv'
<1>1. Idle \in InOp
  BY DEF Idle, InOp, Stamps, Free
<1>2. /\ pc' = [pc EXCEPT ![t] = "idle"]
      /\ wrSet' = [wrSet EXCEPT ![t] = << >>]
      /\ op' = [op EXCEPT ![t] = Idle] /\ at' = [at EXCEPT ![t] = 0]
      /\ rv' = [rv EXCEPT ![t] = 0] /\ wv' = [wv EXCEPT ![t] = 0]
  BY DEF txReset, Goto
<1>3. Types'
  <2>1. << >> \in Seq(Entries)
    OBVIOUS
  <2>2. wrSet' \in [Threads -> Seq(Entries)]
    BY <1>2, <2>1 DEF LInv, Types
  <2> QED
    BY <1>1, <1>2, <2>2 DEF LInv, Types, Places
<1>4. ASSUME NEW u \in Threads PROVE (Located(u) /\ HeldBy(u))'
  <2>1. CASE u # t
    <3>1. /\ pc'[u] = pc[u] /\ op'[u] = op[u] /\ at'[u] = at[u]
          /\ wrSet'[u] = wrSet[u]
      BY <1>2, <2>1 DEF LInv, Types
    <3>2. \A l \in Locks : LockTab'[l].by = u => LockTab'[l] = LockTab[l]
      BY TL2Assumption
    <3> QED
      BY <3>1, <3>2, OthersHeld DEF LInv
  <2>2. CASE u = t
    BY <1>2, <2>2 DEF LInv, Types, Located, HeldBy
  <2> QED
    BY <2>1, <2>2
<1> QED
  BY <1>3, <1>4 DEF LInv

\* TxAbort finds no tmpLockEntry in use.
LEMMA AbortKeeps ==
  ASSUME LInv, NEW t \in Threads, pc[t] # "store", TxAbort(t)
  PROVE  LInv'
<1>1. UNCHANGED <<memory, LockTab, GClock>>
  BY DEF TxAbort, shared
<1>2. CASE wrSet[t] = << >>
  <2>1. \A l \in Locks : LockTab[l].by # t
    BY <1>2 DEF LInv, HeldBy
  <2>2. txReset(t)
    BY <1>2 DEF TxAbort
  <2> QED
    BY <1>1, <2>1, <2>2, ResetKeeps DEF LInv, Types
<1>3. CASE wrSet[t] # << >>
  <2>1. /\ pc' = [pc EXCEPT ![t] = "undo"]
        /\ at' = [at EXCEPT ![t] = Len(wrSet[t])]
        /\ op' = [op EXCEPT ![t] = Idle]
        /\ UNCHANGED <<rv, wv, wrSet>>
    BY <1>3 DEF TxAbort, Goto
  <2>2. Len(wrSet[t]) \in Nat \ {0}
    BY <1>3 DEF LInv, Types
  <2>3. Idle \in InOp
    BY DEF Idle, InOp, Stamps, Free
  <2>4. Types'
    BY <1>1, <2>1, <2>2, <2>3 DEF LInv, Types, Places
  <2>5. Located(t)'
    BY <2>1, <2>2 DEF LInv, Types, Located
  <2>6. /\ \A u \in Threads \ {t} :
               pc'[u] = pc[u] /\ op'[u] = op[u] /\ at'[u] = at[u]
        /\ pc'[t] = "undo"
    BY <2>1 DEF LInv, Types
  <2> QED
    BY <1>1, <2>1, <2>4, <2>5, <2>6, Moved
<1> QED
  BY <1>2, <1>3

\* One entry of DropLocks or RestoreLocks; after the last one nothing is
\* held.
LEMMA ReleaseKeeps ==
  ASSUME LInv, NEW t \in Threads, pc[t] \in {"drop", "restore"},
         NEW version \in Nat, Release(t, version)
  PROVE  LInv'
<1> DEFINE e == wrSet[t][at[t]]
           k == LockOf[e.addr]
<1>1. at[t] \in 1 .. Len(wrSet[t]) /\ e \in Entries
  BY DEF LInv, Types, Located
<1>2. /\ LockTab' = [LockTab EXCEPT ![k] = Free(version)]
      /\ UNCHANGED <<memory, GClock>>
  BY DEF Release
<1>3. Free(version) \in Stamps /\ Free(version).by = NoThread
  BY DEF Free, Stamps
<1>4. /\ LockTab' \in [Locks -> Stamps]
      /\ \A l \in Locks : LockTab'[l] = LockTab[l] \/ LockTab'[l].by = NoThread
      /\ \A l \in Locks : LockTab'[l].by # NoThread =>
             LockTab'[l] = LockTab[l] /\ l # k
  BY <1>2, <1>3 DEF LInv, Types
<1>5. \A l \in Locks : LockTab'[l].by = t =>
          /\ LockTab'[l] = LockTab[l] /\ LockTab[l].n > at[t]
          /\ LockTab[l].n \in 1 .. Len(wrSet[t])
          /\ LockOf[wrSet[t][LockTab[l].n].addr] = l
  <2> SUFFICES ASSUME NEW l \in Locks, LockTab'[l].by = t
               PROVE  /\ LockTab'[l] = LockTab[l] /\ LockTab[l].n > at[t]
                      /\ LockTab[l].n \in 1 .. Len(wrSet[t])
                      /\ LockOf[wrSet[t][LockTab[l].n].addr] = l
    OBVIOUS
  <2>1. LockTab'[l] = LockTab[l] /\ l # k
    BY <1>4, TL2Assumption
  <2>2. /\ LockTab[l].n \in 1 .. Len(wrSet[t])
        /\ LockOf[wrSet[t][LockTab[l].n].addr] = l
        /\ LockTab[l].n >= at[t]
    BY <2>1 DEF LInv, HeldBy
  <2>3. LockTab[l].n # at[t]
    BY <2>1, <2>2
  <2> QED
    BY <1>1, <2>1, <2>2, <2>3
<1>6. CASE at[t] < Len(wrSet[t])
  <2>1. /\ at' = [at EXCEPT ![t] = @ + 1]
        /\ UNCHANGED <<pc, rv, wv, wrSet, op>>
    BY <1>6 DEF Release
  <2>2. Types'
    BY <1>2, <1>4, <2>1 DEF LInv, Types
  <2>3. ASSUME NEW u \in Threads PROVE (Located(u) /\ HeldBy(u))'
    <3>1. CASE u # t
      <4>1. at'[u] = at[u]
        BY <2>1, <3>1 DEF LInv, Types
      <4>2. \A l \in Locks : LockTab'[l].by = u => LockTab'[l] = LockTab[l]
        BY <1>4, TL2Assumption
      <4> QED
        BY <2>1, <4>1, <4>2, OthersHeld DEF LInv
    <3>2. CASE u = t
      <4>1. at'[t] = at[t] + 1 /\ at[t] \in Nat
        BY <2>1 DEF LInv, Types
      <4>2. Located(t)'
        BY <1>1, <1>6, <2>1, <4>1 DEF LInv, Types, Located
      <4>3. HeldBy(t)'
        BY <1>1, <1>5, <2>1, <4>1, SMTT(30) DEF HeldBy
      <4> QED
        BY <3>2, <4>2, <4>3
    <3> QED
      BY <3>1, <3>2
  <2> QED
    BY <2>2, <2>3 DEF LInv
<1>7. CASE ~(at[t] < Len(wrSet[t]))
  <2>1. txReset(t)
    BY <1>7 DEF Release
  <2>2. \A l \in Locks : LockTab'[l].by # t
    BY <1>1, <1>5, <1>7
  <2> QED
    BY <1>2, <1>4, <2>1, <2>2, ResetKeeps DEF LInv, Types
<1> QED
  BY <1>6, <1>7

-----------------------------------------------------------------------------
(* The actions *)

LEMMA InitKeeps == TL2Init => LInv
<1> SUFFICES ASSUME TL2Init PROVE LInv
  OBVIOUS
<1>1. Idle \in InOp
  BY DEF Idle, InOp, Stamps, Free
<1>2. \A l \in Locks : LockTab[l] \in Stamps /\ LockTab[l].by = NoThread
  BY DEF TL2Init, Free, Stamps
<1>3. << >> \in Seq(Entries)
  OBVIOUS
<1>4. Types
  BY <1>1, <1>2, <1>3 DEF TL2Init, Types, Places
<1>5. \A t \in Threads : Located(t)
  BY DEF TL2Init, Located
<1>6. \A t \in Threads : HeldBy(t)
  BY <1>2, TL2Assumption DEF HeldBy
<1> QED
  BY <1>4, <1>5, <1>6 DEF LInv

\* One entry of the read set looked at again.
LEMMA CheckKeeps ==
  ASSUME LInv, NEW t \in Threads, pc[t] \in {"grow", "validate"}, CheckEntry(t)
  PROVE  LInv'
<1>1. CASE TxAbort(t)
  BY <1>1, AbortKeeps
<1>2. CASE ~TxAbort(t)
  <2>1. /\ at' = [at EXCEPT ![t] = @ + 1]
        /\ UNCHANGED <<memory, LockTab, GClock, pc, rv, wv, wrSet, op>>
    BY <1>2 DEF CheckEntry, shared
  <2>2. Types'
    BY <2>1 DEF LInv, Types
  <2>3. Located(t)'
    BY <2>1 DEF LInv, Located
  <2>4. \A u \in Threads \ {t} :
            pc'[u] = pc[u] /\ op'[u] = op[u] /\ at'[u] = at[u]
    BY <2>1 DEF LInv, Types
  <2> QED
    BY <2>1, <2>2, <2>3, <2>4, Moved
<1> QED
  BY <1>1, <1>2

\* TxLoad, in all its steps.
LEMMA LoadKeeps ==
  ASSUME LInv, NEW t \in Threads,
         \/ \E a \in Addrs : TxLoad(t, a) \/ LoadRefused(t, a)
         \/ LoadValue(t) \/ LoadCheck(t) \/ LoadFails(t)
         \/ ReadSetCoherentPessimistic(t) \/ TrackLoad(t)
  PROVE  LInv'
<1>1. Idle \in InOp
  BY DEF Idle, InOp, Stamps, Free
<1>2. ASSUME NEW a \in Addrs, TxLoad(t, a) PROVE LInv'
  <2> DEFINE o == [Idle EXCEPT !.addr = a, !.cv = LockTab[LockOf[a]]]
  <2>1. o \in InOp /\ o.addr = a
    <3>1. LockTab[LockOf[a]] \in Stamps
      BY TL2Assumption DEF LInv, Types
    <3> QED
      BY <1>1, <3>1 DEF InOp
  <2>2. /\ pc[t] = "body" /\ pc' = [pc EXCEPT ![t] = "load"]
        /\ op' = [op EXCEPT ![t] = o]
        /\ UNCHANGED <<memory, LockTab, GClock, rv, wv, wrSet, at>>
    BY <1>2 DEF TxLoad, Goto, shared
  <2> HIDE DEF o
  <2>3. Types'
    BY <2>1, <2>2 DEF LInv, Types, Places
  <2>4. /\ \A u \in Threads \ {t} :
               pc'[u] = pc[u] /\ op'[u] = op[u] /\ at'[u] = at[u]
        /\ op'[t].addr \in Addrs /\ pc'[t] = "load"
    BY <2>1, <2>2 DEF LInv, Types
  <2>5. Located(t)'
    BY <2>4 DEF Located
  <2> QED
    BY <2>2, <2>3, <2>4, <2>5, Moved
<1>3. ASSUME NEW a \in Addrs, LoadRefused(t, a) PROVE LInv'
  BY <1>3, AbortKeeps DEF LoadRefused
<1>4. CASE LoadValue(t)
  <2> DEFINE a == op[t].addr
             o == [op[t] EXCEPT !.valu = memory[a],
                                !.locked = OwnerOf(LockOf[a]) # NoThread]
  <2>1. pc[t] = "loaded" \/ pc[t] = "load"
    BY <1>4 DEF LoadValue
  <2>2. a \in Addrs /\ op[t] \in InOp /\ memory[a] \in Vals
    BY <2>1 DEF LInv, Types, Located
  <2>3. o \in InOp /\ o.addr = a
    BY <2>2 DEF InOp
  <2>4. /\ pc[t] = "load" /\ pc' = [pc EXCEPT ![t] = "loaded"]
        /\ op' = [op EXCEPT ![t] = o]
        /\ UNCHANGED <<memory, LockTab, GClock, rv, wv, wrSet, at>>
    BY <1>4 DEF LoadValue, Goto, shared
  <2> HIDE DEF o
  <2>5. Types'
    BY <2>3, <2>4 DEF LInv, Types, Places
  <2>6. /\ \A u \in Threads \ {t} :
               pc'[u] = pc[u] /\ op'[u] = op[u] /\ at'[u] = at[u]
        /\ op'[t].addr \in Addrs /\ pc'[t] = "loaded"
    BY <2>2, <2>3, <2>4 DEF LInv, Types
  <2>7. Located(t)'
    BY <2>6 DEF Located
  <2> QED
    BY <2>4, <2>5, <2>6, <2>7, Moved
<1>5. ASSUME Accept(t), pc[t] # "store" PROVE LInv'
  <2>1. /\ pc' = [pc EXCEPT ![t] = "body"]
        /\ op' = [op EXCEPT ![t] = Idle] /\ at' = [at EXCEPT ![t] = 0]
        /\ UNCHANGED <<memory, LockTab, GClock, rv, wv, wrSet>>
    BY <1>5 DEF Accept, Goto, shared
  <2>2. Types'
    BY <1>1, <2>1 DEF LInv, Types, Places
  <2>3. /\ \A u \in Threads \ {t} :
               pc'[u] = pc[u] /\ op'[u] = op[u] /\ at'[u] = at[u]
        /\ pc'[t] = "body"
    BY <2>1 DEF LInv, Types
  <2>4. Located(t)'
    BY <2>3 DEF Located
  <2> QED
    BY <1>5, <2>1, <2>2, <2>3, <2>4, Moved
<1>6. CASE LoadCheck(t)
  <2>1. CASE Accept(t)
    BY <1>5, <1>6, <2>1 DEF LoadCheck
  <2>2. CASE ~Accept(t)
    <3>1. /\ pc[t] = "loaded" /\ pc' = [pc EXCEPT ![t] = "grow"]
          /\ at' = [at EXCEPT ![t] = 1]
          /\ UNCHANGED <<memory, LockTab, GClock, rv, wv, wrSet, op>>
      BY <1>6, <2>2 DEF LoadCheck, Goto, shared
    <3>2. Types'
      BY <3>1 DEF LInv, Types, Places
    <3>3. /\ \A u \in Threads \ {t} :
                 pc'[u] = pc[u] /\ op'[u] = op[u] /\ at'[u] = at[u]
          /\ pc'[t] = "grow"
      BY <3>1 DEF LInv, Types
    <3>4. Located(t)'
      BY <3>3 DEF Located
    <3> QED
      BY <3>1, <3>2, <3>3, <3>4, Moved
  <2> QED
    BY <2>1, <2>2
<1>7. CASE LoadFails(t)
  BY <1>7, AbortKeeps DEF LoadFails
<1>8. CASE TrackLoad(t)
  BY <1>5, <1>8 DEF TrackLoad
<1>9. CASE ReadSetCoherentPessimistic(t)
  BY <1>9, CheckKeeps DEF ReadSetCoherentPessimistic
<1> QED
  BY <1>2, <1>3, <1>4, <1>6, <1>7, <1>8, <1>9

\* TxStore up to the new entry of the write set: the lock, if it was free,
\* is t's through tmpLockEntry.
LEMMA StoreBegins ==
  ASSUME LInv, NEW t \in Threads, NEW a \in Addrs, NEW v \in Vals,
         StoreLock(t, a, v) \/ StoreOwn(t, a, v)
  PROVE  LInv'
<1> DEFINE k == LockOf[a]
<1>1. k \in Locks
  BY TL2Assumption
<1>2. LockedBy(t, 0) \in Stamps /\ LockedBy(t, 0).by = t /\ LockedBy(t, 0).n = 0
  BY DEF LockedBy, Stamps
<1>3. Idle \in InOp
  BY DEF Idle, InOp, Stamps, Free
<1>4. ASSUME NEW cv \in Stamps, BeginStore(t, a, v, cv)
      PROVE  /\ op' \in [Threads -> InOp] /\ pc' \in [Threads -> Places]
             /\ op'[t].addr = a /\ op'[t].valu = v /\ pc'[t] = "store"
             /\ pc[t] = "body"
             /\ \A u \in Threads \ {t} :
                    pc'[u] = pc[u] /\ op'[u] = op[u]
             /\ UNCHANGED <<memory, GClock, rv, wv, wrSet, at>>
  <2> DEFINE o == [Idle EXCEPT !.addr = a, !.cv = cv, !.valu = v]
  <2>1. o \in InOp /\ o.addr = a /\ o.valu = v
    BY <1>3 DEF InOp
  <2>2. /\ pc[t] = "body" /\ pc' = [pc EXCEPT ![t] = "store"]
        /\ op' = [op EXCEPT ![t] = o]
        /\ UNCHANGED <<memory, GClock, rv, wv, wrSet, at>>
    BY <1>4 DEF BeginStore, Goto
  <2> HIDE DEF o
  <2> QED
    BY <2>1, <2>2 DEF LInv, Types, Places
<1>5. CASE StoreLock(t, a, v)
  <2>1. /\ LockTab[k].by = NoThread /\ LockTab[k] \in Stamps
        /\ LockTab' = [LockTab EXCEPT ![k] = LockedBy(t, 0)]
        /\ BeginStore(t, a, v, LockTab[k])
    BY <1>1, <1>5 DEF StoreLock, OwnerOf, LInv, Types
  <2>2. Types'
    BY <1>2, <1>4, <2>1 DEF LInv, Types
  <2>3. \A l \in Locks : LockTab'[l] = IF l = k THEN LockedBy(t, 0) ELSE LockTab[l]
    BY <1>1, <2>1 DEF LInv, Types
  <2>4. ASSUME NEW u \in Threads PROVE (Located(u) /\ HeldBy(u))'
    <3>1. CASE u # t
      BY <1>2, <1>4, <2>1, <2>3, <3>1, OthersHeld DEF LInv
    <3>2. CASE u = t
      <4>1. Located(t)'
        BY <1>4, <2>1 DEF Located
      <4>2. HeldBy(t)'
        BY <1>2, <1>4, <2>1, <2>3 DEF HeldBy, LInv
      <4> QED
        BY <3>2, <4>1, <4>2
    <3> QED
      BY <3>1, <3>2
  <2> QED
    BY <2>2, <2>4 DEF LInv
<1>6. CASE StoreOwn(t, a, v)
  <2> DEFINE i  == LockTab[k].n
             cv == Free(wrSet[t][i].rdv)
  <2>1. LockTab[k].by = t /\ BeginStore(t, a, v, cv) /\ UNCHANGED LockTab
    BY <1>6 DEF StoreOwn, OwnerOf
  <2>2. pc[t] = "body"
    BY <2>1 DEF BeginStore
  <2>3. i \in 1 .. Len(wrSet[t])
    BY <1>1, <2>1, <2>2 DEF LInv, HeldBy
  <2>4. wrSet[t][i] \in Entries
    BY <2>3 DEF LInv, Types
  <2>5. cv \in Stamps
    BY <2>4 DEF Entries, Stamps, Free
  <2>6. /\ op' \in [Threads -> InOp] /\ pc' \in [Threads -> Places]
        /\ op'[t].addr = a /\ op'[t].valu = v /\ pc'[t] = "store"
        /\ \A u \in Threads \ {t} : pc'[u] = pc[u] /\ op'[u] = op[u]
        /\ UNCHANGED <<memory, GClock, rv, wv, wrSet, at>>
    BY <1>4, <2>1, <2>5
  <2>7. Types'
    BY <2>1, <2>6 DEF LInv, Types
  <2>8. Located(t)'
    BY <2>6 DEF Located
  <2> QED
    BY <2>1, <2>2, <2>6, <2>7, <2>8, Moved
<1> QED
  BY <1>5, <1>6

\* The new entry, and the lock that points to it.
LEMMA RecordKeeps ==
  ASSUME LInv, NEW t \in Threads, StoreRecord(t)
  PROVE  LInv'
<1> DEFINE a == op[t].addr
           k == LockOf[a]
           e == [addr |-> a, valu |-> memory[a], rdv |-> op[t].cv.n]
           m == Len(wrSet[t]) + 1
<1>1. /\ pc[t] = "store" /\ pc' = [pc EXCEPT ![t] = "write"]
      /\ wrSet' = [wrSet EXCEPT ![t] = Append(@, e)]
      /\ LockTab' = [LockTab EXCEPT ![k] = LockedBy(t, m)]
      /\ UNCHANGED <<memory, GClock, rv, wv, op, at>>
  BY DEF StoreRecord, Goto
<1>2. a \in Addrs /\ op[t].valu \in Vals /\ k \in Locks
  BY <1>1, TL2Assumption DEF LInv, Located
<1>3. e \in Entries
  BY <1>2 DEF LInv, Types, Entries, InOp, Stamps
<1>4. wrSet[t] \in Seq(Entries)
  BY DEF LInv, Types
<1>5. LockedBy(t, m) \in Stamps /\ LockedBy(t, m).by = t /\ LockedBy(t, m).n = m
  BY <1>4 DEF LockedBy, Stamps
<1>6. /\ Append(wrSet[t], e) \in Seq(Entries)
      /\ Len(Append(wrSet[t], e)) = m /\ m \in Nat \ {0}
      /\ Append(wrSet[t], e)[m] = e
      /\ \A i \in 1 .. Len(wrSet[t]) : Append(wrSet[t], e)[i] = wrSet[t][i]
  BY <1>3, <1>4
<1>7. wrSet'[t] = Append(wrSet[t], e)
  BY <1>1 DEF LInv, Types
<1> HIDE DEF e
<1>8. Types'
  BY <1>1, <1>2, <1>5, <1>6 DEF LInv, Types, Places
<1>9. \A l \in Locks : LockTab'[l] = IF l = k THEN LockedBy(t, m) ELSE LockTab[l]
  BY <1>1, <1>2 DEF LInv, Types
<1>10. ASSUME NEW u \in Threads PROVE (Located(u) /\ HeldBy(u))'
  <2>1. CASE u # t
    <3>1. pc'[u] = pc[u] /\ wrSet'[u] = wrSet[u] /\ op'[u] = op[u] /\ at'[u] = at[u]
      BY <1>1, <2>1 DEF LInv, Types
    <3> QED
      BY <1>5, <1>9, <2>1, <3>1, OthersHeld DEF LInv
  <2>2. CASE u = t
    <3>1. pc'[t] = "write"
      BY <1>1 DEF LInv, Types
    <3>2. Located(t)'
      BY <1>1, <1>2, <3>1 DEF Located
    <3>3. ASSUME NEW l \in Locks, LockTab'[l].by = t
          PROVE  /\ LockTab'[l].n # 0
                 /\ LockTab'[l].n \in 1 .. Len(wrSet'[t])
                 /\ LockOf[wrSet'[t][LockTab'[l].n].addr] = l
      <4>1. CASE l = k
        <5>1. e.addr = a
          BY DEF e
        <5>2. LockTab'[l].n = m
          BY <1>5, <1>9, <4>1
        <5>3. Len(wrSet'[t]) = m /\ wrSet'[t][m] = e /\ m \in 1 .. m /\ m # 0
          BY <1>6, <1>7
        <5> HIDE DEF m
        <5> QED
          BY <4>1, <5>1, <5>2, <5>3
      <4>2. CASE l # k
        <5>1. LockTab'[l] = LockTab[l] /\ LockTab[l].by = t
          BY <1>9, <3>3, <4>2
        <5>2. LockTab[l].n \in 1 .. Len(wrSet[t]) /\ LockTab[l].n # 0
              /\ LockOf[wrSet[t][LockTab[l].n].addr] = l
          BY <1>1, <4>2, <5>1 DEF LInv, HeldBy
        <5> QED
          BY <1>4, <1>6, <1>7, <5>1, <5>2
      <4> QED
        BY <4>1, <4>2
    <3>4. HeldBy(t)'
      BY <3>1, <3>3 DEF HeldBy
    <3> QED
      BY <2>2, <3>2, <3>4
  <2> QED
    BY <2>1, <2>2
<1> QED
  BY <1>8, <1>10 DEF LInv

\* The store in place and one store undone.
LEMMA MemoryKeeps ==
  ASSUME LInv, NEW t \in Threads, StoreValue(t) \/ WriteBackReverse(t)
  PROVE  LInv'
<1>1. CASE StoreValue(t)
  <2>1. Idle \in InOp
    BY DEF Idle, InOp, Stamps, Free
  <2>2. /\ pc[t] = "write" /\ pc' = [pc EXCEPT ![t] = "body"]
        /\ memory' = [memory EXCEPT ![op[t].addr] = op[t].valu]
        /\ op' = [op EXCEPT ![t] = Idle]
        /\ UNCHANGED <<LockTab, GClock, rv, wv, wrSet, at>>
    BY <1>1 DEF StoreValue, Goto
  <2>3. op[t].valu \in Vals
    BY <2>2 DEF LInv, Located
  <2>4. Types'
    BY <2>1, <2>2, <2>3 DEF LInv, Types, Places
  <2>5. /\ \A u \in Threads \ {t} :
               pc'[u] = pc[u] /\ op'[u] = op[u] /\ at'[u] = at[u]
        /\ pc'[t] = "body"
    BY <2>2 DEF LInv, Types
  <2>6. Located(t)'
    BY <2>5 DEF Located
  <2> QED
    BY <2>2, <2>4, <2>5, <2>6, Moved
<1>2. CASE WriteBackReverse(t)
  <2> DEFINE e == wrSet[t][at[t]]
  <2>1. /\ pc[t] = "undo" /\ memory' = [memory EXCEPT ![e.addr] = e.valu]
        /\ UNCHANGED <<LockTab, GClock, rv, wv, wrSet, op>>
    BY <1>2 DEF WriteBackReverse
  <2>2. at[t] \in 1 .. Len(wrSet[t]) /\ e \in Entries /\ Len(wrSet[t]) \in Nat
    BY <2>1 DEF LInv, Types, Located
  <2>3. memory' \in [Addrs -> Vals]
    BY <2>1, <2>2 DEF LInv, Types, Entries
  <2>4. CASE at[t] > 1
    <3>1. at' = [at EXCEPT ![t] = @ - 1] /\ UNCHANGED pc
      BY <1>2, <2>4 DEF WriteBackReverse
    <3>2. at[t] - 1 \in 1 .. Len(wrSet[t]) /\ at[t] - 1 \in Nat
      BY <2>2, <2>4
    <3>3. Types'
      BY <2>1, <2>3, <3>1, <3>2 DEF LInv, Types
    <3>4. /\ \A u \in Threads \ {t} :
                 pc'[u] = pc[u] /\ op'[u] = op[u] /\ at'[u] = at[u]
          /\ pc'[t] = "undo" /\ at'[t] = at[t] - 1
      BY <2>1, <3>1 DEF LInv, Types
    <3>5. Located(t)'
      BY <2>1, <3>2, <3>4 DEF Located
    <3> QED
      BY <2>1, <3>3, <3>4, <3>5, Moved
  <2>5. CASE ~(at[t] > 1)
    <3>1. pc' = [pc EXCEPT ![t] = "restore"] /\ UNCHANGED at
      BY <1>2, <2>5 DEF WriteBackReverse, Goto
    <3>2. at[t] = 1
      BY <2>2, <2>5
    <3>3. Types'
      BY <2>1, <2>3, <3>1 DEF LInv, Types, Places
    <3>4. /\ \A u \in Threads \ {t} :
                 pc'[u] = pc[u] /\ op'[u] = op[u] /\ at'[u] = at[u]
          /\ pc'[t] = "restore" /\ at'[t] = 1
      BY <2>1, <3>1, <3>2 DEF LInv, Types
    <3>5. Located(t)'
      BY <2>1, <2>2, <3>2, <3>4 DEF Located
    <3> QED
      BY <2>1, <3>3, <3>4, <3>5, Moved
  <2> QED
    BY <2>4, <2>5
<1> QED
  BY <1>1, <1>2

\* TxCommit up to the first lock given back.
LEMMA CommitKeeps ==
  ASSUME LInv, NEW t \in Threads,
         \/ CommitReadOnly(t) \/ GVGenerate(t) \/ GVSwap(t)
         \/ ReadSetCoherent(t) \/ Validated(t)
  PROVE  LInv'
<1>1. CASE CommitReadOnly(t)
  <2>1. /\ pc[t] = "body" /\ wrSet[t] = << >> /\ txReset(t)
        /\ UNCHANGED <<memory, LockTab, GClock>>
    BY <1>1 DEF CommitReadOnly, shared
  <2>2. \A l \in Locks : LockTab[l].by # t
    BY <2>1 DEF LInv, HeldBy
  <2> QED
    BY <2>1, <2>2, ResetKeeps DEF LInv, Types
<1>2. CASE GVGenerate(t)
  <2>1. /\ pc[t] = "body" /\ pc' = [pc EXCEPT ![t] = "clock"]
        /\ wrSet[t] # << >> /\ wv' = [wv EXCEPT ![t] = GClock + 1]
        /\ UNCHANGED <<memory, LockTab, GClock, rv, wrSet, op, at>>
    BY <1>2 DEF GVGenerate, Goto, shared
  <2>2. Types'
    BY <2>1 DEF LInv, Types, Places
  <2>3. /\ \A u \in Threads \ {t} :
               pc'[u] = pc[u] /\ op'[u] = op[u] /\ at'[u] = at[u]
        /\ pc'[t] = "clock"
    BY <2>1 DEF LInv, Types
  <2>4. Located(t)'
    BY <2>1, <2>3 DEF Located
  <2> QED
    BY <2>1, <2>2, <2>3, <2>4, Moved
<1>3. CASE GVSwap(t)
  <2>1. /\ pc[t] = "clock" /\ pc' = [pc EXCEPT ![t] = "validate"]
        /\ GClock' \in Nat /\ wv' \in [Threads -> Nat]
        /\ at' = [at EXCEPT ![t] = 1]
        /\ UNCHANGED <<memory, LockTab, rv, wrSet, op>>
    BY <1>3 DEF GVSwap, Goto, LInv, Types
  <2>2. Types'
    BY <2>1 DEF LInv, Types, Places
  <2>3. /\ \A u \in Threads \ {t} :
               pc'[u] = pc[u] /\ op'[u] = op[u] /\ at'[u] = at[u]
        /\ pc'[t] = "validate"
    BY <2>1 DEF LInv, Types
  <2>4. Located(t)'
    BY <2>1, <2>3 DEF LInv, Located
  <2> QED
    BY <2>1, <2>2, <2>3, <2>4, Moved
<1>4. CASE ReadSetCoherent(t)
  BY <1>4, CheckKeeps DEF ReadSetCoherent
<1>5. CASE Validated(t)
  <2>1. /\ pc[t] = "validate" /\ pc' = [pc EXCEPT ![t] = "drop"]
        /\ at' = [at EXCEPT ![t] = 1]
        /\ UNCHANGED <<memory, LockTab, GClock, rv, wv, wrSet, op>>
    BY <1>5 DEF Validated, Goto, shared
  <2>2. Types'
    BY <2>1 DEF LInv, Types, Places
  <2>3. /\ \A u \in Threads \ {t} :
               pc'[u] = pc[u] /\ op'[u] = op[u] /\ at'[u] = at[u]
        /\ pc'[t] = "drop" /\ at'[t] = 1
    BY <2>1 DEF LInv, Types
  <2>4. wrSet[t] # << >> /\ wrSet[t] \in Seq(Entries)
    BY <2>1 DEF LInv, Types, Located
  <2>5. 1 \in 1 .. Len(wrSet[t])
    BY <2>4
  <2>6. Located(t)'
    BY <2>1, <2>3, <2>5 DEF Located
  <2> QED
    BY <2>1, <2>2, <2>3, <2>6, Moved
<1> QED
  BY <1>1, <1>2, <1>3, <1>4, <1>5

\* TxStart reads the clock.
LEMMA StartKeeps ==
  ASSUME LInv, NEW t \in Threads, TxStart(t)
  PROVE  LInv'
<1>1. /\ pc[t] = "idle" /\ pc' = [pc EXCEPT ![t] = "body"]
      /\ rv' = [rv EXCEPT ![t] = GClock]
      /\ UNCHANGED <<memory, LockTab, GClock, wv, wrSet, op, at>>
  BY DEF TxStart, Goto, shared
<1>2. Types'
  BY <1>1 DEF LInv, Types, Places
<1>3. /\ \A u \in Threads \ {t} :
             pc'[u] = pc[u] /\ op'[u] = op[u] /\ at'[u] = at[u]
      /\ pc'[t] = "body"
  BY <1>1 DEF LInv, Types
<1>4. Located(t)'
  BY <1>3 DEF Located
<1> QED
  BY <1>1, <1>2, <1>3, <1>4, Moved

\* DropLocks and RestoreLocks.
LEMMA UnlockKeeps ==
  ASSUME LInv, NEW t \in Threads, DropLocks(t) \/ RestoreLocks(t)
  PROVE  LInv'
<1>1. CASE DropLocks(t)
  <2>1. wv[t] \in Nat
    BY DEF LInv, Types
  <2> QED
    BY <1>1, <2>1, ReleaseKeeps DEF DropLocks
<1>2. CASE RestoreLocks(t)
  <2>1. pc[t] = "restore" /\ Release(t, wrSet[t][at[t]].rdv)
    BY <1>2 DEF RestoreLocks
  <2>2. wrSet[t][at[t]] \in Entries
    BY <2>1 DEF LInv, Types, Located
  <2>3. wrSet[t][at[t]].rdv \in Nat
    BY <2>2 DEF Entries
  <2> QED
    BY <2>1, <2>3, ReleaseKeeps
<1> QED
  BY <1>1, <1>2

LEMMA StepKeeps ==
  ASSUME LInv, [TL2Next]_tl2Vars
  PROVE  LInv'
<1>1. CASE UNCHANGED tl2Vars
  BY <1>1 DEF LInv, Types, Located, HeldBy, tl2Vars, shared
<1>2. ASSUME NEW t \in Threads, TL2Step(t) PROVE LInv'
  <2>1. CASE TxStart(t)
    BY <2>1, StartKeeps
  <2>2. CASE Restart(t)
    BY <2>2, AbortKeeps DEF Restart
  <2>3. CASE \/ \E a \in Addrs : TxLoad(t, a) \/ LoadRefused(t, a)
             \/ LoadValue(t) \/ LoadCheck(t) \/ LoadFails(t)
             \/ ReadSetCoherentPessimistic(t) \/ TrackLoad(t)
    BY <2>3, LoadKeeps
  <2>4. CASE \E a \in Addrs : StoreRefused(t, a)
    BY <2>4, AbortKeeps DEF StoreRefused
  <2>5. CASE \E a \in Addrs, v \in Vals : StoreLock(t, a, v) \/ StoreOwn(t, a, v)
    BY <2>5, StoreBegins
  <2>6. CASE StoreRecord(t)
    BY <2>6, RecordKeeps
  <2>7. CASE StoreValue(t) \/ WriteBackReverse(t)
    BY <2>7, MemoryKeeps
  <2>8. CASE \/ CommitReadOnly(t) \/ GVGenerate(t) \/ GVSwap(t)
             \/ ReadSetCoherent(t) \/ Validated(t)
    BY <2>8, CommitKeeps
  <2>9. CASE DropLocks(t) \/ RestoreLocks(t)
    BY <2>9, UnlockKeeps
  <2> QED
    BY <1>2, <2>1, <2>2, <2>3, <2>4, <2>5, <2>6, <2>7, <2>8, <2>9 DEF TL2Step
<1> QED
  BY <1>1, <1>2 DEF TL2Next

-----------------------------------------------------------------------------
\* A lock that is held points to an entry of its owner's write set that is
\* about a word behind it, and to tmpLockEntry only within TxStore: so
\* ReadSetCoherent, TxStore and RestoreLocks never go by a version nobody
\* set, whatever words share a lock.
THEOREM LocksPointToEntries == TL2Spec => []LockedByEntries
<1>1. LInv => LockedByEntries
  BY DEF LInv, HeldBy, LockedByEntries, OwnerOf
<1> QED
  BY <1>1, InitKeeps, StepKeeps, PTL DEF TL2Spec

-----------------------------------------------------------------------------
(* From an entry to its lock *)

\* Behind a lock where transactions store twice, all who store are one thread.
SoleStorer ==
    \A t, u \in Threads : \A a \in StoresTo[t], b \in StoresTo[u] :
        LockOf[a] = LockOf[b] /\ LockOf[a] \in Again => t = u

\* The entries of t's write set whose locks it has not given back.
Unreleased(t) ==
    {i \in 1 .. Len(wrSet[t]) : pc[t] \in {"drop", "restore"} => i >= at[t]}

\* t has the lock of each of them.  It points to that entry, unless there may
\* be several; then the first of them to go frees it for t alone to take.
Kept(t) ==
    /\ pc[t] = "store" =>
           LET l == LockOf[op[t].addr]
           IN /\ op[t].addr \in StoresTo[t]
              /\ LockTab[l].by = t
              /\ l \notin Again => LockTab[l].n = 0
    /\ \A i \in Unreleased(t) :
           LET l == LockOf[wrSet[t][i].addr]
           IN /\ wrSet[t][i].addr \in StoresTo[t]
              /\ IF l \notin Again THEN LockTab[l] = LockedBy(t, i)
                 ELSE \/ LockTab[l].by = t
                      \/ pc[t] \in {"drop", "restore"} /\ LockTab[l].by = NoThread

KInv == LInv /\ \A t \in Threads : Kept(t)

\* t changes only locks it stores behind, its own and free ones.
Takes(t) ==
    \A l \in Locks : LockTab'[l] # LockTab[l] =>
        /\ LockTab[l].by \in {t, NoThread}
        /\ \E b \in StoresTo[t] : LockOf[b] = l

\* These are out of reach of another thread.
LEMMA OthersKept ==
  ASSUME SoleStorer, KInv, NEW t \in Threads, Kept(t)', Takes(t),
         \A u \in Threads \ {t} :
             /\ pc'[u] = pc[u] /\ op'[u] = op[u] /\ at'[u] = at[u]
             /\ wrSet'[u] = wrSet[u]
  PROVE  \A u \in Threads : Kept(u)'
<1> SUFFICES ASSUME NEW u \in Threads \ {t} PROVE Kept(u)'
  OBVIOUS
<1>1. u # NoThread /\ u # t /\ Kept(u) /\ Located(u)
  BY TL2Assumption DEF KInv, LInv
<1>2. ASSUME NEW b \in StoresTo[u],
             LockTab[LockOf[b]].by = u \/ LockOf[b] \in Again
      PROVE  LockTab'[LockOf[b]] = LockTab[LockOf[b]]
  <2>1. LockOf[b] \in Locks /\ b \in Addrs
    BY TL2Assumption
  <2>2. CASE LockTab[LockOf[b]].by = u
    BY <1>1, <2>1, <2>2 DEF Takes
  <2>3. CASE LockOf[b] \in Again
    BY <1>1, <2>1, <2>3 DEF Takes, SoleStorer
  <2> QED
    BY <1>2, <2>2, <2>3
<1>3. ASSUME pc[u] = "store"
      PROVE  LET l == LockOf[op[u].addr]
             IN /\ op[u].addr \in StoresTo[u]
                /\ LockTab'[l].by = u
                /\ l \notin Again => LockTab'[l].n = 0
  BY <1>1, <1>2, <1>3 DEF Kept
<1>4. ASSUME NEW i \in Unreleased(u)
      PROVE  LET l == LockOf[wrSet[u][i].addr]
             IN /\ wrSet[u][i].addr \in StoresTo[u]
                /\ LockTab'[l] = LockTab[l]
  <2> DEFINE l == LockOf[wrSet[u][i].addr]
  <2>1. /\ wrSet[u][i].addr \in StoresTo[u]
        /\ l \notin Again => LockTab[l] = LockedBy(u, i)
    BY <1>1 DEF Kept
  <2>2. l \notin Again => LockTab[l].by = u
    BY <2>1 DEF LockedBy
  <2> QED
    BY <1>2, <2>1, <2>2
<1>5. Unreleased(u)' = Unreleased(u)
  BY DEF Unreleased
<1> QED
  BY <1>1, <1>3, <1>4, <1>5 DEF Kept

\* A step changes the variables of the thread that takes it.
LEMMA Alone ==
  ASSUME KInv, NEW t \in Threads, TL2Step(t), NEW u \in Threads \ {t}
  PROVE  /\ pc'[u] = pc[u] /\ op'[u] = op[u] /\ at'[u] = at[u]
         /\ wrSet'[u] = wrSet[u]
<1>1. /\ pc \in [Threads -> Places] /\ op \in [Threads -> InOp]
      /\ at \in [Threads -> Nat] /\ wrSet \in [Threads -> Seq(Entries)]
  BY DEF KInv, LInv, Types
<1>2. TxAbort(t) => /\ pc'[u] = pc[u] /\ op'[u] = op[u] /\ at'[u] = at[u]
                    /\ wrSet'[u] = wrSet[u]
  BY <1>1 DEF TxAbort, txReset, Goto
<1>3. CASE TxStart(t) \/ Restart(t) \/ CommitReadOnly(t)
  BY <1>1, <1>2, <1>3 DEF TxStart, Restart, CommitReadOnly, txReset, Goto
<1>4. CASE \E a \in Addrs : TxLoad(t, a) \/ LoadRefused(t, a) \/ StoreRefused(t, a)
  BY <1>1, <1>2, <1>4 DEF TxLoad, LoadRefused, StoreRefused, Goto
<1>5. CASE LoadValue(t) \/ LoadCheck(t) \/ LoadFails(t) \/ TrackLoad(t)
  BY <1>1, <1>2, <1>5 DEF LoadValue, LoadCheck, LoadFails, TrackLoad, Accept, Goto
<1>6. CASE ReadSetCoherentPessimistic(t) \/ ReadSetCoherent(t)
  BY <1>1, <1>2, <1>6
     DEF ReadSetCoherentPessimistic, ReadSetCoherent, CheckEntry
<1>7. CASE \E a \in Addrs, v \in Vals : StoreLock(t, a, v) \/ StoreOwn(t, a, v)
  BY <1>1, <1>7 DEF StoreLock, StoreOwn, BeginStore, Goto
<1>8. CASE StoreRecord(t) \/ StoreValue(t) \/ WriteBackReverse(t)
  BY <1>1, <1>8 DEF StoreRecord, StoreValue, WriteBackReverse, Goto
<1>9. CASE GVGenerate(t) \/ GVSwap(t) \/ Validated(t)
  BY <1>1, <1>9 DEF GVGenerate, GVSwap, Validated, Goto
<1>10. CASE DropLocks(t) \/ RestoreLocks(t)
  BY <1>1, <1>10 DEF DropLocks, RestoreLocks, Release, txReset, Goto
<1> QED
  BY <1>3, <1>4, <1>5, <1>6, <1>7, <1>8, <1>9, <1>10 DEF TL2Step

\* Steps that touch neither LockTab nor a write set.
Quiet(t) ==
    /\ pc[t] \notin {"drop", "restore"} /\ pc'[t] # "store"
    /\ UNCHANGED <<LockTab, wrSet>>

LEMMA QuietSteps ==
  ASSUME KInv, NEW t \in Threads, TL2Step(t), ~StoreRecord(t),
         ~ \E a \in Addrs, v \in Vals : StoreLock(t, a, v) \/ StoreOwn(t, a, v),
         ~DropLocks(t), ~RestoreLocks(t)
  PROVE  Quiet(t)
<1>1. pc \in [Threads -> Places] /\ wrSet \in [Threads -> Seq(Entries)]
  BY DEF KInv, LInv, Types
<1>2. TxAbort(t) => UNCHANGED <<LockTab, wrSet>> /\ pc'[t] # "store"
  BY <1>1 DEF TxAbort, txReset, Goto, shared
<1>3. CASE TxStart(t) \/ Restart(t) \/ CommitReadOnly(t)
  BY <1>1, <1>2, <1>3
     DEF Quiet, TxStart, Restart, CommitReadOnly, txReset, Goto, shared
<1>4. CASE \E a \in Addrs : TxLoad(t, a) \/ LoadRefused(t, a) \/ StoreRefused(t, a)
  BY <1>1, <1>2, <1>4 DEF Quiet, TxLoad, LoadRefused, StoreRefused, Goto, shared
<1>5. CASE LoadValue(t) \/ LoadCheck(t) \/ LoadFails(t) \/ TrackLoad(t)
  BY <1>1, <1>2, <1>5
     DEF Quiet, LoadValue, LoadCheck, LoadFails, TrackLoad, Accept, Goto, shared
<1>6. CASE ReadSetCoherentPessimistic(t) \/ ReadSetCoherent(t)
  BY <1>1, <1>2, <1>6
     DEF Quiet, ReadSetCoherentPessimistic, ReadSetCoherent, CheckEntry, shared
<1>7. CASE StoreValue(t) \/ WriteBackReverse(t)
  BY <1>1, <1>7 DEF Quiet, StoreValue, WriteBackReverse, Goto
<1>8. CASE GVGenerate(t) \/ GVSwap(t) \/ Validated(t)
  BY <1>1, <1>8 DEF Quiet, GVGenerate, GVSwap, Validated, Goto, shared
<1> QED
  BY <1>3, <1>4, <1>5, <1>6, <1>7, <1>8 DEF TL2Step

\* An entry of t's, by its place.
LEMMA EntryLock ==
  ASSUME LInv, NEW t \in Threads, NEW i \in 1 .. Len(wrSet[t])
  PROVE  LockOf[wrSet[t][i].addr] \in Locks /\ i # 0
<1>1. wrSet[t][i] \in Entries
  BY DEF LInv, Types
<1> QED
  BY <1>1, TL2Assumption DEF Entries

LEMMA StoreKept ==
  ASSUME KInv, NEW t \in Threads, NEW a \in Addrs, NEW v \in Vals,
         StoreLock(t, a, v) \/ StoreOwn(t, a, v)
  PROVE  Kept(t)' /\ Takes(t)
<1> DEFINE k == LockOf[a]
<1>1. k \in Locks /\ LockTab \in [Locks -> Stamps] /\ Kept(t) /\ LInv
  BY TL2Assumption DEF KInv, LInv, Types
<1>2. /\ pc[t] = "body" /\ pc'[t] = "store" /\ op'[t].addr = a
      /\ a \in StoresTo[t] /\ UNCHANGED <<wrSet, at>>
  BY ZenonT(60) DEF StoreLock, StoreOwn, BeginStore, Goto, KInv, LInv, Types, Idle
<1>3. Unreleased(t)' = Unreleased(t)
  BY <1>2 DEF Unreleased
<1>4. CASE StoreLock(t, a, v)
  <2>1. LockTab[k].by = NoThread /\ LockTab' = [LockTab EXCEPT ![k] = LockedBy(t, 0)]
    BY <1>4 DEF StoreLock, OwnerOf
  <2>2. LockTab'[k] = LockedBy(t, 0) /\ \A l \in Locks \ {k} : LockTab'[l] = LockTab[l]
    BY <1>1, <2>1
  <2>3. ASSUME NEW i \in Unreleased(t)
        PROVE  LET l == LockOf[wrSet[t][i].addr]
               IN /\ wrSet[t][i].addr \in StoresTo[t]
                  /\ LockTab'[l] = LockTab[l] /\ LockTab[l].by = t
                  /\ l \notin Again => LockTab[l] = LockedBy(t, i)
    <3>1. /\ wrSet[t][i].addr \in StoresTo[t]
          /\ LockTab[LockOf[wrSet[t][i].addr]].by = t
          /\ LockOf[wrSet[t][i].addr] \notin Again =>
                 LockTab[LockOf[wrSet[t][i].addr]] = LockedBy(t, i)
      BY <1>1, <1>2 DEF Kept, LockedBy
    <3>2. LockOf[wrSet[t][i].addr] # k
      BY <2>1, <3>1, TL2Assumption
    <3> QED
      BY <1>1, <2>2, <3>1, <3>2, EntryLock DEF Unreleased
  <2>4. Kept(t)'
    BY <1>2, <1>3, <2>2, <2>3 DEF Kept, LockedBy
  <2> QED
    BY <1>2, <2>1, <2>2, <2>4 DEF Takes
<1>5. CASE StoreOwn(t, a, v)
  <2>1. k \in Again /\ UNCHANGED LockTab /\ LockTab[k].by = t
    BY <1>5 DEF StoreOwn, OwnerOf
  <2> QED
    BY <1>1, <1>2, <1>3, <2>1 DEF Kept, Takes
<1> QED
  BY <1>4, <1>5

LEMMA RecordKept ==
  ASSUME KInv, NEW t \in Threads, StoreRecord(t)
  PROVE  Kept(t)' /\ Takes(t)
<1> DEFINE a == op[t].addr
           k == LockOf[a]
           e == [addr |-> a, valu |-> memory[a], rdv |-> op[t].cv.n]
           m == Len(wrSet[t]) + 1
<1>1. /\ pc[t] = "store" /\ pc' = [pc EXCEPT ![t] = "write"]
      /\ wrSet' = [wrSet EXCEPT ![t] = Append(@, e)]
      /\ LockTab' = [LockTab EXCEPT ![k] = LockedBy(t, m)]
  BY DEF StoreRecord, Goto
<1>2. /\ LInv /\ Kept(t) /\ LockTab \in [Locks -> Stamps] /\ a \in Addrs
      /\ k \in Locks /\ pc \in [Threads -> Places]
      /\ wrSet \in [Threads -> Seq(Entries)]
  BY <1>1, TL2Assumption DEF KInv, LInv, Located, Types
<1>3. /\ LockTab'[k] = LockedBy(t, m)
      /\ \A l \in Locks \ {k} : LockTab'[l] = LockTab[l]
      /\ pc'[t] = "write" /\ wrSet'[t] = Append(wrSet[t], e)
  BY <1>1, <1>2
<1>4. LockTab[k].by = t /\ a \in StoresTo[t] /\ (k \notin Again => LockTab[k].n = 0)
  BY <1>1, <1>2 DEF Kept
<1>5. /\ Len(wrSet'[t]) = m /\ m \in Nat
      /\ wrSet'[t][m] = e /\ e.addr = a
      /\ \A i \in 1 .. Len(wrSet'[t]) :
             i # m => /\ i \in 1 .. Len(wrSet[t])
                      /\ wrSet'[t][i] = wrSet[t][i]
  <2>1. wrSet[t] \in Seq(Entries)
    BY <1>2
  <2>2. e.addr = a /\ e \in Entries
    BY <1>2 DEF LInv, Types, Entries, InOp, Stamps
  <2> HIDE DEF e
  <2> QED
    BY <1>3, <2>1, <2>2
<1>6. ASSUME NEW i \in 1 .. Len(wrSet[t])
      PROVE  LET l == LockOf[wrSet[t][i].addr]
             IN /\ wrSet[t][i].addr \in StoresTo[t]
                /\ LockTab'[l].by = t
                /\ l \notin Again => LockTab'[l] = LockedBy(t, i)
  <2> DEFINE l == LockOf[wrSet[t][i].addr]
  <2>1. /\ wrSet[t][i].addr \in StoresTo[t] /\ LockTab[l].by = t
        /\ l \notin Again => LockTab[l] = LockedBy(t, i)
    BY <1>1, <1>2 DEF Kept, Unreleased, LockedBy
  <2>2. l \in Locks /\ i # 0
    BY <1>2, EntryLock
  <2>3. CASE l = k
    BY <1>3, <1>4, <2>1, <2>2, <2>3 DEF LockedBy
  <2>4. CASE l # k
    BY <1>3, <2>1, <2>2, <2>4
  <2> QED
    BY <2>3, <2>4
<1>7. Kept(t)'
  <2>1. ASSUME NEW i \in Unreleased(t)'
        PROVE  LET l == LockOf[wrSet'[t][i].addr]
               IN /\ wrSet'[t][i].addr \in StoresTo[t]
                  /\ LockTab'[l].by = t
                  /\ l \notin Again => LockTab'[l] = LockedBy(t, i)
    <3>1. i \in 1 .. Len(wrSet'[t])
      BY DEF Unreleased
    <3>2. CASE i = m
      <4> HIDE DEF e, m
      <4> QED
        BY <1>3, <1>4, <1>5, <3>2 DEF LockedBy
    <3>3. CASE i # m
      <4> HIDE DEF e, m
      <4> QED
        BY <1>5, <1>6, <3>1, <3>3
    <3> QED
      BY <3>2, <3>3
  <2> QED
    BY <1>3, <2>1 DEF Kept
<1> QED
  BY <1>2, <1>3, <1>4, <1>7 DEF Takes

LEMMA ReleaseKept ==
  ASSUME KInv, NEW t \in Threads, pc[t] \in {"drop", "restore"},
         NEW version, Release(t, version)
  PROVE  Kept(t)' /\ Takes(t)
<1> DEFINE k == LockOf[wrSet[t][at[t]].addr]
<1>1. /\ LInv /\ Kept(t) /\ LockTab \in [Locks -> Stamps]
      /\ at[t] \in 1 .. Len(wrSet[t]) /\ Len(wrSet[t]) \in Nat
  BY DEF KInv, LInv, Types, Located
<1>2. k \in Locks
  BY <1>1, EntryLock
<1>3. /\ \A l \in Locks \ {k} : LockTab'[l] = LockTab[l]
      /\ LockTab'[k].by = NoThread
  BY <1>1, <1>2 DEF Release, Free
<1>4. /\ wrSet[t][at[t]].addr \in StoresTo[t]
      /\ LockTab[k].by \in {t, NoThread}
      /\ k \notin Again => LockTab[k] = LockedBy(t, at[t])
  <2>1. at[t] \in Unreleased(t)
    BY <1>1 DEF Unreleased
  <2> QED
    BY <1>1, <2>1 DEF Kept, LockedBy
<1>5. Takes(t)
  BY <1>3, <1>4 DEF Takes
<1>6. CASE at[t] < Len(wrSet[t])
  <2>1. at' = [at EXCEPT ![t] = @ + 1] /\ UNCHANGED <<pc, wrSet>>
    BY <1>6 DEF Release
  <2>2. at'[t] = at[t] + 1
    BY <2>1 DEF KInv, LInv, Types
  <2>3. ASSUME NEW i \in Unreleased(t)'
        PROVE  LET l == LockOf[wrSet[t][i].addr]
               IN /\ wrSet[t][i].addr \in StoresTo[t]
                  /\ IF l \notin Again THEN LockTab'[l] = LockedBy(t, i)
                     ELSE LockTab'[l].by \in {t, NoThread}
    <3> DEFINE l == LockOf[wrSet[t][i].addr]
    <3>1. i \in 1 .. Len(wrSet[t]) /\ i >= at[t] + 1
      BY <2>1, <2>2 DEF Unreleased
    <3>2. i \in Unreleased(t) /\ i # at[t]
      BY <1>1, <3>1 DEF Unreleased
    <3>3. /\ wrSet[t][i].addr \in StoresTo[t]
          /\ LockTab[l].by \in {t, NoThread}
          /\ l \notin Again => LockTab[l] = LockedBy(t, i)
      BY <1>1, <3>2 DEF Kept, LockedBy
    <3>4. l \in Locks
      BY <1>1, <3>1, EntryLock
    <3>5. CASE l = k
      <4>1. k \in Again
        BY <1>4, <3>2, <3>3, <3>5 DEF LockedBy
      <4> QED
        BY <1>3, <3>3, <3>5, <4>1
    <3>6. CASE l # k
      BY <1>3, <3>3, <3>4, <3>6
    <3> QED
      BY <3>5, <3>6
  <2>4. Kept(t)'
    BY <2>1, <2>3 DEF Kept
  <2> QED
    BY <1>5, <2>4
<1>7. CASE ~(at[t] < Len(wrSet[t]))
  <2>1. txReset(t)
    BY <1>7 DEF Release
  <2>2. wrSet'[t] = << >> /\ pc'[t] = "idle"
    BY <2>1 DEF txReset, Goto, KInv, LInv, Types
  <2>3. Kept(t)'
    BY <2>2 DEF Kept, Unreleased
  <2> QED
    BY <1>5, <2>3
<1> QED
  BY <1>6, <1>7

\* The other steps take no lock; what is in the way of giving one back
\* is empty at the commit point.
LEMMA QuietKept ==
  ASSUME KInv, NEW t \in Threads, TL2Step(t), Quiet(t)
  PROVE  Kept(t)' /\ Takes(t)
<1>1. Unreleased(t)' \subseteq Unreleased(t)
  BY DEF Quiet, Unreleased
<1> QED
  BY <1>1 DEF KInv, Kept, Quiet, Takes

LEMMA KeepsKept ==
  ASSUME SoleStorer, KInv, [TL2Next]_tl2Vars
  PROVE  KInv'
<1>1. LInv'
  BY StepKeeps DEF KInv
<1>2. CASE UNCHANGED tl2Vars
  BY <1>1, <1>2 DEF KInv, Kept, Unreleased, tl2Vars, shared
<1>3. ASSUME NEW t \in Threads, TL2Step(t) PROVE KInv'
  <2>1. Kept(t)' /\ Takes(t)
    <3>1. CASE \E a \in Addrs, v \in Vals : StoreLock(t, a, v) \/ StoreOwn(t, a, v)
      BY <3>1, StoreKept
    <3>2. CASE StoreRecord(t)
      BY <3>2, RecordKept
    <3>3. CASE DropLocks(t)
      BY <3>3, ReleaseKept DEF DropLocks
    <3>4. CASE RestoreLocks(t)
      BY <3>4, ReleaseKept DEF RestoreLocks
    <3>5. CASE Quiet(t)
      BY <1>3, <3>5, QuietKept
    <3> QED
      BY <1>3, <3>1, <3>2, <3>3, <3>4, <3>5, QuietSteps
  <2> QED
    BY <1>1, <1>3, <2>1, Alone, OthersKept DEF KInv
<1> QED
  BY <1>2, <1>3 DEF TL2Next

LEMMA InitKept == TL2Init => KInv
<1> SUFFICES ASSUME TL2Init PROVE KInv
  OBVIOUS
<1>1. \A t \in Threads : pc[t] = "idle" /\ wrSet[t] = << >>
  BY DEF TL2Init
<1> QED
  BY <1>1, InitKeeps DEF KInv, Kept, Unreleased

\* DropLocks and RestoreLocks give back their own locks only, provided that
\* behind the locks where transactions store twice only one thread stores.
THEOREM OwnLocksOnly == SoleStorer => (TL2Spec => []NobodyElsesLock)
<1> SUFFICES ASSUME SoleStorer PROVE TL2Spec => []NobodyElsesLock
  OBVIOUS
<1>1. KInv => NobodyElsesLock
  <2> SUFFICES ASSUME KInv, NEW t \in Threads, pc[t] \in {"drop", "restore"}
               PROVE  OwnerOf(LockOf[wrSet[t][at[t]].addr]) \in {t, NoThread}
    BY DEF NobodyElsesLock
  <2>1. at[t] \in Unreleased(t)
    BY DEF KInv, LInv, Types, Located, Unreleased
  <2> DEFINE l == LockOf[wrSet[t][at[t]].addr]
  <2>2. IF l \notin Again THEN LockTab[l] = LockedBy(t, at[t])
        ELSE LockTab[l].by \in {t, NoThread}
    BY <2>1 DEF KInv, Kept
  <2> QED
    BY <2>2 DEF OwnerOf, LockedBy
<1> QED
  BY <1>1, InitKept, KeepsKept, PTL DEF TL2Spec
=============================================================================
