----------------------------- MODULE STMHistory -----------------------------
(***************************************************************************)
(* STM with a record of what the client was told and what it asked for, to *)
(* state what "atomic block / transaction" (lib/tm.h) means to the client: *)
(* a transaction that commits saw the committed values of the words it     *)
(* read, and leaves behind every value it stored.                          *)
(*                                                                         *)
(* A frame is kept per TxBegin: the body of the innermost TxBegin restarts *)
(* on an abort, so what it read and stored is forgotten with its frame,    *)
(* and what the enclosing bodies read and stored still counts.             *)
(***************************************************************************)
EXTENDS STM, Sequences

VARIABLES
    frames,      \* per thread, per open TxBegin: values read and stored
    unguarded,   \* per thread, the words it read that its read log does not
                 \* vouch for any more
    lost,        \* the words whose store by an enclosing body was ever
                 \* rolled back with an aborted nested one
    committed    \* what the committed transactions stored

hvars == <<frames, unguarded, lost, committed>>

Frame == [seen  : [Addrs -> SUBSET Vals],
          wrote : [Addrs -> Vals \cup {NoEntry}]]

NewFrame == [seen |-> [a \in Addrs |-> {}], wrote |-> EmptyLog]

Top(t) == frames[t][Len(frames[t])]

Butlast(s) == SubSeq(s, 1, Len(s) - 1)

\* The enclosing body goes on with what the nested one did.
Merged(outer, inner) ==
    [seen  |-> [a \in Addrs |-> outer.seen[a] \cup inner.seen[a]],
     wrote |-> [a \in Addrs |-> IF inner.wrote[a] # NoEntry
                                THEN inner.wrote[a] ELSE outer.wrote[a]]]

\* t itself has stored to a in this transaction.
WroteItself(t, a) ==
    \E i \in 1..Len(frames[t]) : frames[t][i].wrote[a] # NoEntry

HInit ==
    /\ Init
    /\ frames = [t \in Threads |-> << >>]
    /\ unguarded = [t \in Threads |-> {}]
    /\ lost = {}
    /\ committed = mem

SetFrames(t, s) == frames' = [frames EXCEPT ![t] = s]

HBegin(t) ==
    /\ Begin(t) \/ BeginNested(t)
    /\ SetFrames(t, Append(frames[t], NewFrame))
    /\ UNCHANGED <<unguarded, lost, committed>>

\* The frame of the nested transaction left on the stack.
BadHCommitNested(t) ==
    /\ CommitNested(t)
    /\ UNCHANGED hvars

HCommitNested(t) ==
    /\ CommitNested(t)
    /\ LET below == Butlast(frames[t])
       IN SetFrames(t, [below EXCEPT ![Len(below)] = Merged(@, Top(t))])
    /\ UNCHANGED <<unguarded, lost, committed>>

\* Only values of words the transaction has not stored to are about the
\* other transactions.
HReadValue(t) ==
    /\ ReadValue(t)
    /\ IF WroteItself(t, target[t]) THEN UNCHANGED frames
       ELSE frames' = [frames EXCEPT
                ![t][Len(frames[t])].seen[target[t]] = @ \cup {mem[target[t]]}]
    /\ UNCHANGED <<unguarded, lost, committed>>

HWriteValue(t) ==
    /\ WriteValue(t)
    /\ frames' = [frames EXCEPT
           ![t][Len(frames[t])].wrote[target[t]] = value[t]]
    /\ UNCHANGED <<unguarded, lost, committed>>

\* A new block is published with what the client put there without TxStore.
HValidateOk(t) ==
    /\ ValidateOk(t)
    /\ committed' = [a \in Addrs |->
           IF Top(t).wrote[a] # NoEntry THEN Top(t).wrote[a]
           ELSE IF a \in allocations[t] THEN mem[a]
           ELSE committed[a]]
    /\ SetFrames(t, << >>)
    /\ UNCHANGED <<unguarded, lost>>

HResetCommit(t) ==
    /\ ResetCommit(t)
    /\ unguarded' = [unguarded EXCEPT ![t] = {}]
    /\ UNCHANGED <<frames, lost, committed>>

\* ClearWriteBit puts the very lock word back that the readers logged, so
\* their validate() cannot tell that they may have read a value that never
\* was committed.
HUndo(t, a) ==
    /\ Undo(t, a)
    /\ unguarded' = [u \in Threads |-> unguarded[u] \cup
           {b \in ReadBy(u) : u # t /\ LockOf[b] = LockOf[a]}]
    /\ UNCHANGED <<frames, lost, committed>>

\* The words some enclosing body of t has read / stored to.
SeenOutside(t) ==
    {a \in Addrs : \E i \in 1..Len(frames[t]) - 1 : frames[t][i].seen[a] # {}}
WroteOutside(t) ==
    {a \in Addrs :
        \E i \in 1..Len(frames[t]) - 1 : frames[t][i].wrote[a] # NoEntry}

\* reset(false) undoes the enclosing bodies' stores and drops their reads
\* from the log, too, and only the innermost body starts again.
HRetry(t) ==
    /\ Retry(t)
    /\ SetFrames(t, Append(Butlast(frames[t]), NewFrame))
    /\ unguarded' = [unguarded EXCEPT ![t] = SeenOutside(t)]
    /\ lost' = lost \cup WroteOutside(t)
    /\ UNCHANGED committed

\* The steps a client cannot tell apart from no step at all.
HSilent(t) ==
    /\ \/ Abort(t) \/ AllocFails(t) \/ ValidateFails(t) \/ ResetAbort(t)
       \/ \E a \in Addrs : OpenRead(t, a) \/ LoadRefused(t, a)
       \/ \E a \in Addrs, v \in Vals : OpenWrite(t, a, v)
       \/ \E a \in Addrs : StoreRefused(t, a)
       \/ \E a \in Addrs, v \in Vals : Alloc(t, a, v)
       \/ \E a \in Addrs : Free(t, a) \/ FreeRefused(t, a)
    /\ UNCHANGED hvars

HStep(t) ==
    \/ HBegin(t) \/ HCommitNested(t) \/ HReadValue(t) \/ HWriteValue(t)
    \/ HValidateOk(t) \/ HResetCommit(t) \/ (\E a \in Addrs : HUndo(t, a))
    \/ HRetry(t) \/ HSilent(t)

HFinished == Finished /\ UNCHANGED hvars

HNext == HFinished \/ \E t \in Threads : HStep(t)

HSpec == HInit /\ [][HNext]_<<vars, hvars>>

-----------------------------------------------------------------------------
(* Properties *)

\* t passes validate() in this step.
Commits(t) == pc[t] = "body" /\ pc'[t] = "commit"

\* What a transaction read (outside its own new blocks) is what is committed
\* when it passes validate().  With the write locks it holds until
\* reset(true), that makes this moment the point at which the whole
\* transaction appears to happen.
CommittedReadsCurrent ==
    [][\A t \in Threads : Commits(t) =>
           \A a \in Addrs \ allocations[t] :
               Top(t).seen[a] \subseteq {committed[a]}
      ]_<<vars, hvars>>

\* The same, for the words the read log vouches for: all of them, except
\* those behind whose lock another transaction rolled back after they were
\* logged, and those of an enclosing body whose nested one was aborted.
GuardedReadsCurrent ==
    [][\A t \in Threads : Commits(t) =>
           \A a \in Addrs \ (allocations[t] \cup unguarded[t] \cup lost) :
               Top(t).seen[a] \subseteq {committed[a]}
      ]_<<vars, hvars>>

\* Static words and the blocks in use.
Existing == (Addrs \ Heap) \cup live

Quiescent == \A t \in Threads : pc[t] = "idle"

\* With no transaction under way, memory holds exactly what the committed
\* transactions stored: no store of an aborted one is left behind and no
\* store of a committed one is missing.
QuiescentMemoryCommitted ==
    Quiescent => \A a \in Existing : mem[a] = committed[a]

\* The abort of a nested transaction is the only thing that breaks that.
QuiescentMemoryKept ==
    Quiescent => \A a \in Existing \ lost : mem[a] = committed[a]

\* The record's own type; frames go with TxDescriptor::depth.
HTypeOK ==
    /\ frames \in [Threads -> Seq(Frame)]
    /\ unguarded \in [Threads -> SUBSET Addrs]
    /\ lost \subseteq Addrs
    /\ committed \in [Addrs -> Vals]
    /\ \A t \in Threads :
           pc[t] # "commit" => Len(frames[t]) = depth[t]
=============================================================================
