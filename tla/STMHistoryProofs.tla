-------------------------- MODULE STMHistoryProofs --------------------------
(***************************************************************************)
(* What a client sees of the STM, for any number of threads, words and     *)
(* levels of nesting, when no two words in use share a lock.               *)
(***************************************************************************)
EXTENDS STMHistory, STMProofs, SequenceTheorems

\* The history only watches: what is proved of the STM holds of it.
LEMMA WatchedStep ==
  ASSUME NEW t \in Threads, HStep(t)
  PROVE  Step(t)
  BY DEF HStep, HBegin, HCommitNested, HReadValue, HWriteValue, HValidateOk,
         HResetCommit, HUndo, HRetry, HSilent, Step

LEMMA WatchedSpec == HSpec => Spec
<1>1. [HNext]_<<vars, hvars>> => [Next]_vars
  BY WatchedStep DEF HNext, HFinished, Next
<1>2. HInit => Init
  BY DEF HInit
<1> QED
  BY <1>1, <1>2, PTL DEF HSpec, Spec

-----------------------------------------------------------------------------
(* Frames *)

Depths(t) == 1 .. Len(frames[t])

FramesOK ==
    /\ HTypeOK
    /\ \A t \in Threads : pc[t] = "commit" => frames[t] = << >>

LEMMA NewFrameType == NewFrame \in Frame
  BY DEF NewFrame, Frame, EmptyLog

LEMMA FrameFields ==
  ASSUME NEW f \in Frame
  PROVE  f.seen \in [Addrs -> SUBSET Vals]
         /\ f.wrote \in [Addrs -> Vals \cup {NoEntry}]
  BY DEF Frame

LEMMA MergedType ==
  ASSUME NEW f \in Frame, NEW g \in Frame
  PROVE  Merged(f, g) \in Frame
<1>1. \A a \in Addrs : f.seen[a] \cup g.seen[a] \in SUBSET Vals
  BY FrameFields
<1>2. \A a \in Addrs : (IF g.wrote[a] # NoEntry THEN g.wrote[a]
                        ELSE f.wrote[a]) \in Vals \cup {NoEntry}
  BY FrameFields
<1> QED
  BY <1>1, <1>2 DEF Merged, Frame

\* All frames but the last.
LEMMA ButlastOf ==
  ASSUME NEW s \in Seq(Frame), Len(s) >= 1
  PROVE  /\ Butlast(s) \in Seq(Frame) /\ Len(Butlast(s)) = Len(s) - 1
         /\ \A k \in 1 .. Len(s) - 1 : Butlast(s)[k] = s[k]
<1>1. Len(s) \in Nat /\ \A k \in 1 .. Len(s) - 1 : s[k] \in Frame
  BY LenProperties, ElementOfSeq
<1> DEFINE n == Len(s) - 1
<1>2. n \in Nat
  BY <1>1
<1> HIDE DEF n
<1>3. /\ SubSeq(s, 1, n) \in Seq(Frame)
      /\ Len(SubSeq(s, 1, n)) = IF 1 <= n THEN n - 1 + 1 ELSE 0
      /\ \A k \in 1 .. n - 1 + 1 : SubSeq(s, 1, n)[k] = s[1 + k - 1]
  BY <1>1, <1>2, SubSeqProperties DEF n
<1>4. Len(SubSeq(s, 1, n)) = n /\ \A k \in 1 .. n : SubSeq(s, 1, n)[k] = s[k]
  BY <1>2, <1>3
<1> QED
  BY <1>3, <1>4 DEF n, Butlast

\* One frame more.
LEMMA AppendOf ==
  ASSUME NEW s \in Seq(Frame), NEW f \in Frame
  PROVE  /\ Append(s, f) \in Seq(Frame) /\ Len(Append(s, f)) = Len(s) + 1
         /\ \A k \in 1 .. Len(s) : Append(s, f)[k] = s[k]
         /\ Append(s, f)[Len(s) + 1] = f
  OBVIOUS

\* TxBegin opens an empty frame.
LEMMA BeginFrames ==
  ASSUME TypeOK, FramesOK, NEW t \in Threads, HBegin(t)
  PROVE  /\ frames' \in [Threads -> Seq(Frame)]
         /\ \A u \in Threads \ {t} : frames'[u] = frames[u]
         /\ Len(frames[t]) = depth[t] /\ Len(frames'[t]) = depth[t] + 1
         /\ \A k \in Depths(t) : frames'[t][k] = frames[t][k]
         /\ frames'[t][depth[t] + 1] = NewFrame
<1>1. frames \in [Threads -> Seq(Frame)] /\ Len(frames[t]) = depth[t]
  BY DEF FramesOK, HTypeOK, HBegin, Begin, BeginNested
<1>2. frames' = [frames EXCEPT ![t] = Append(frames[t], NewFrame)]
  BY DEF HBegin, SetFrames
<1> QED
  BY <1>1, <1>2, AppendOf, NewFrameType DEF Depths

\* A nested TxCommit gives its frame to the enclosing one.
LEMMA MergeFrames ==
  ASSUME TypeOK, FramesOK, NEW t \in Threads, HCommitNested(t)
  PROVE  /\ frames' \in [Threads -> Seq(Frame)]
         /\ \A u \in Threads \ {t} : frames'[u] = frames[u]
         /\ Len(frames[t]) = depth[t] /\ depth[t] \in Nat /\ depth[t] > 1
         /\ Len(frames'[t]) = depth[t] - 1
         /\ \A k \in 1 .. depth[t] - 2 : frames'[t][k] = frames[t][k]
         /\ frames'[t][depth[t] - 1] =
                Merged(frames[t][depth[t] - 1], frames[t][depth[t]])
<1>1. /\ frames \in [Threads -> Seq(Frame)] /\ Len(frames[t]) = depth[t]
      /\ depth[t] \in Nat /\ depth[t] > 1
  BY DEF FramesOK, HTypeOK, HCommitNested, CommitNested, TypeOK
<1> DEFINE s == Butlast(frames[t])
           n == depth[t] - 1
           m == Merged(s[n], Top(t))
<1>2. n \in Nat /\ n >= 1
  BY <1>1
<1>3. /\ s \in Seq(Frame) /\ Len(s) = n
      /\ \A k \in 1 .. n : s[k] = frames[t][k]
  <2>1. frames[t] \in Seq(Frame) /\ Len(frames[t]) >= 1
    BY <1>1
  <2> QED
    BY <1>1, <2>1, ButlastOf
<1>4. /\ frames[t][n] \in Frame /\ Top(t) = frames[t][depth[t]]
      /\ Top(t) \in Frame /\ s[n] = frames[t][n]
  BY <1>1, <1>3, ElementOfSeq DEF Top
<1>5. m \in Frame /\ m = Merged(frames[t][n], frames[t][depth[t]])
  BY <1>4, MergedType
<1>6. frames' = [frames EXCEPT ![t] = [s EXCEPT ![Len(s)] = Merged(@, Top(t))]]
  BY DEF HCommitNested, SetFrames
<1>7. frames' = [frames EXCEPT ![t] = [s EXCEPT ![n] = m]]
  BY <1>3, <1>6
<1> HIDE DEF s, m, n
<1>8. /\ [s EXCEPT ![n] = m] \in Seq(Frame) /\ Len([s EXCEPT ![n] = m]) = n
      /\ \A k \in 1 .. n : [s EXCEPT ![n] = m][k] = IF k = n THEN m ELSE s[k]
  BY <1>2, <1>3, <1>5, ExceptSeq
<1>9. frames'[t] = [s EXCEPT ![n] = m]
      /\ \A u \in Threads \ {t} : frames'[u] = frames[u]
  BY <1>1, <1>7
<1>10. frames' \in [Threads -> Seq(Frame)]
  BY <1>1, <1>7, <1>8
<1>11. /\ \A k \in 1 .. n - 1 : frames'[t][k] = frames[t][k]
       /\ frames'[t][n] = m
  BY <1>2, <1>3, <1>8, <1>9
<1> QED
  BY <1>1, <1>5, <1>8, <1>9, <1>10, <1>11 DEF n

LEMMA SeenMore ==
  ASSUME NEW f \in Frame, NEW a \in Addrs, NEW v \in Vals
  PROVE  /\ [f EXCEPT !.seen[a] = @ \cup {v}] \in Frame
         /\ [f EXCEPT !.seen[a] = @ \cup {v}].wrote = f.wrote
         /\ \A b \in Addrs : [f EXCEPT !.seen[a] = @ \cup {v}].seen[b] =
                IF b = a THEN f.seen[a] \cup {v} ELSE f.seen[b]
  BY DEF Frame

LEMMA WroteMore ==
  ASSUME NEW f \in Frame, NEW a \in Addrs, NEW v \in Vals
  PROVE  /\ [f EXCEPT !.wrote[a] = v] \in Frame
         /\ [f EXCEPT !.wrote[a] = v].seen = f.seen
         /\ \A b \in Addrs : [f EXCEPT !.wrote[a] = v].wrote[b] =
                IF b = a THEN v ELSE f.wrote[b]
  BY DEF Frame

\* Another frame on top.
LEMMA TopChanged ==
  ASSUME frames \in [Threads -> Seq(Frame)], NEW t \in Threads,
         NEW n \in Nat, n >= 1, Len(frames[t]) = n, NEW f \in Frame,
         frames' = [frames EXCEPT ![t] = [frames[t] EXCEPT ![n] = f]]
  PROVE  /\ frames' \in [Threads -> Seq(Frame)]
         /\ \A u \in Threads \ {t} : frames'[u] = frames[u]
         /\ Len(frames'[t]) = n
         /\ \A k \in 1 .. n - 1 : frames'[t][k] = frames[t][k]
         /\ frames'[t][n] = f
<1>1. frames[t] \in Seq(Frame) /\ n \in 1 .. Len(frames[t])
  OBVIOUS
<1> DEFINE s == [frames[t] EXCEPT ![n] = f]
<1>2. /\ s \in Seq(Frame) /\ Len(s) = n
      /\ \A k \in 1 .. n : s[k] = IF k = n THEN f ELSE frames[t][k]
  BY <1>1, ExceptSeq
<1>3. frames' = [frames EXCEPT ![t] = s]
  OBVIOUS
<1> HIDE DEF s
<1> QED
  BY <1>2, <1>3

\* A body that runs has a frame for each TxBegin.
LEMMA BodyFrames ==
  ASSUME TypeOK, FramesOK, NEW t \in Threads,
         pc[t] # "idle", pc[t] # "commit"
  PROVE  /\ frames \in [Threads -> Seq(Frame)]
         /\ depth[t] \in Nat /\ depth[t] >= 1 /\ Len(frames[t]) = depth[t]
         /\ \A k \in 1 .. depth[t] : frames[t][k] \in Frame
<1>1. /\ frames \in [Threads -> Seq(Frame)] /\ Len(frames[t]) = depth[t]
      /\ depth[t] \in Nat /\ depth[t] # 0
  BY DEF FramesOK, HTypeOK, TypeOK
<1>2. \A k \in 1 .. depth[t] : frames[t][k] \in Frame
  BY <1>1, ElementOfSeq
<1> QED
  BY <1>1, <1>2

\* TxLoad adds a value to what the innermost body has seen of a word it has
\* not stored to.
LEMMA ReadFrames ==
  ASSUME TypeOK, FramesOK, NEW t \in Threads, HReadValue(t)
  PROVE  /\ frames' \in [Threads -> Seq(Frame)]
         /\ \A u \in Threads \ {t} : frames'[u] = frames[u]
         /\ Len(frames'[t]) = depth[t]
         /\ \A k \in Depths(t) : frames'[t][k].wrote = frames[t][k].wrote
         /\ \A k \in Depths(t), b \in Addrs :
                \/ frames'[t][k].seen[b] = frames[t][k].seen[b]
                \/ /\ b = target[t] /\ ~WroteItself(t, b)
                   /\ frames'[t][k].seen[b] = frames[t][k].seen[b] \cup {mem[b]}
<1>1. pc[t] = "read" /\ target[t] \in Addrs /\ mem[target[t]] \in Vals
  BY DEF HReadValue, ReadValue, TypeOK
<1>2. /\ frames \in [Threads -> Seq(Frame)] /\ depth[t] \in Nat
      /\ depth[t] >= 1 /\ Len(frames[t]) = depth[t]
      /\ frames[t][depth[t]] \in Frame
  BY <1>1, BodyFrames
<1>3. CASE WroteItself(t, target[t])
  BY <1>2, <1>3 DEF HReadValue, Depths
<1>4. CASE ~WroteItself(t, target[t])
  <2> DEFINE n == depth[t]
             a == target[t]
             f == [frames[t][n] EXCEPT !.seen[a] = @ \cup {mem[a]}]
  <2>1. /\ f \in Frame /\ f.wrote = frames[t][n].wrote
        /\ \A b \in Addrs : f.seen[b] = IF b = a
               THEN frames[t][n].seen[a] \cup {mem[a]} ELSE frames[t][n].seen[b]
    <3> DEFINE g == frames[t][n]
               v == mem[a]
    <3>1. g \in Frame /\ a \in Addrs /\ v \in Vals
      BY <1>1, <1>2
    <3> HIDE DEF g, v, a
    <3>2. /\ [g EXCEPT !.seen[a] = @ \cup {v}] \in Frame
          /\ [g EXCEPT !.seen[a] = @ \cup {v}].wrote = g.wrote
          /\ \A b \in Addrs : [g EXCEPT !.seen[a] = @ \cup {v}].seen[b] =
                 IF b = a THEN g.seen[a] \cup {v} ELSE g.seen[b]
      BY <3>1, SeenMore, ZenonT(60)
    <3> QED
      BY <3>2 DEF f, g, v
  <2>2. frames' = [frames EXCEPT ![t][n].seen[a] = @ \cup {mem[a]}]
    BY <1>2, <1>4 DEF HReadValue
  <2>3. frames' = [frames EXCEPT ![t] = [frames[t] EXCEPT ![n] = f]]
    BY <1>2, <2>2
  <2> HIDE DEF f
  <2>4. /\ frames' \in [Threads -> Seq(Frame)]
        /\ \A u \in Threads \ {t} : frames'[u] = frames[u]
        /\ Len(frames'[t]) = n
        /\ \A k \in 1 .. n - 1 : frames'[t][k] = frames[t][k]
        /\ frames'[t][n] = f
    BY <1>2, <2>1, <2>3, TopChanged
  <2>5. \A k \in 1 .. n : k \in 1 .. n - 1 \/ k = n
    BY <1>2
  <2> QED
    BY <1>2, <1>4, <2>1, <2>4, <2>5, ZenonT(60) DEF Depths
<1> QED
  BY <1>3, <1>4

\* TxStore records the value with the innermost body.
LEMMA WriteFrames ==
  ASSUME TypeOK, FramesOK, NEW t \in Threads, HWriteValue(t)
  PROVE  /\ frames' \in [Threads -> Seq(Frame)]
         /\ \A u \in Threads \ {t} : frames'[u] = frames[u]
         /\ Len(frames'[t]) = depth[t] /\ depth[t] \in Depths(t)
         /\ \A k \in Depths(t) : frames'[t][k].seen = frames[t][k].seen
         /\ \A k \in Depths(t), b \in Addrs : frames'[t][k].wrote[b] =
                IF k = depth[t] /\ b = target[t] THEN value[t]
                ELSE frames[t][k].wrote[b]
<1>1. pc[t] = "write" /\ target[t] \in Addrs /\ value[t] \in Vals
  BY DEF HWriteValue, WriteValue, TypeOK
<1>2. /\ frames \in [Threads -> Seq(Frame)] /\ depth[t] \in Nat
      /\ depth[t] >= 1 /\ Len(frames[t]) = depth[t]
      /\ frames[t][depth[t]] \in Frame
  BY <1>1, BodyFrames
<1> DEFINE n == depth[t]
           a == target[t]
           f == [frames[t][n] EXCEPT !.wrote[a] = value[t]]
<1>3. /\ f \in Frame /\ f.seen = frames[t][n].seen
      /\ \A b \in Addrs : f.wrote[b] =
             IF b = a THEN value[t] ELSE frames[t][n].wrote[b]
  <2> DEFINE g == frames[t][n]
             v == value[t]
  <2>1. g \in Frame /\ a \in Addrs /\ v \in Vals
    BY <1>1, <1>2
  <2> HIDE DEF g, v, a
  <2>2. /\ [g EXCEPT !.wrote[a] = v] \in Frame
        /\ [g EXCEPT !.wrote[a] = v].seen = g.seen
        /\ \A b \in Addrs : [g EXCEPT !.wrote[a] = v].wrote[b] =
               IF b = a THEN v ELSE g.wrote[b]
    BY <2>1, WroteMore
  <2> QED
    BY <2>2 DEF f, g, v
<1>4. frames' = [frames EXCEPT ![t][n].wrote[a] = value[t]]
  BY <1>2 DEF HWriteValue
<1>5. frames' = [frames EXCEPT ![t] = [frames[t] EXCEPT ![n] = f]]
  BY <1>2, <1>4
<1> HIDE DEF f
<1>6. /\ frames' \in [Threads -> Seq(Frame)]
      /\ \A u \in Threads \ {t} : frames'[u] = frames[u]
      /\ Len(frames'[t]) = n
      /\ \A k \in 1 .. n - 1 : frames'[t][k] = frames[t][k]
      /\ frames'[t][n] = f
  BY <1>2, <1>3, <1>5, TopChanged
<1>7. \A k \in 1 .. n : k \in 1 .. n - 1 \/ k = n
  BY <1>2
<1>8. Depths(t) = 1 .. n /\ n \in 1 .. n
  BY <1>2 DEF Depths
<1> HIDE DEF n, a
<1>9. \A k \in 1 .. n :
          frames'[t][k] = IF k = n THEN f ELSE frames[t][k]
  BY <1>6, <1>7
<1>10. \A k \in 1 .. n : frames'[t][k].seen = frames[t][k].seen
  BY <1>3, <1>9
<1>11. \A k \in 1 .. n, b \in Addrs : frames'[t][k].wrote[b] =
           IF k = n /\ b = a THEN value[t] ELSE frames[t][k].wrote[b]
  BY <1>3, <1>9
<1> QED
  BY <1>6, <1>8, <1>10, <1>11 DEF n, a

\* The innermost body starts again with an empty frame.
LEMMA RetryFrames ==
  ASSUME TypeOK, FramesOK, NEW t \in Threads, HRetry(t)
  PROVE  /\ frames' \in [Threads -> Seq(Frame)]
         /\ \A u \in Threads \ {t} : frames'[u] = frames[u]
         /\ Len(frames'[t]) = depth[t] /\ Len(frames[t]) = depth[t]
         /\ depth[t] \in Nat /\ depth[t] >= 1
         /\ \A k \in 1 .. depth[t] - 1 : frames'[t][k] = frames[t][k]
         /\ frames'[t][depth[t]] = NewFrame
<1>1. /\ frames \in [Threads -> Seq(Frame)] /\ depth[t] \in Nat
      /\ depth[t] >= 1 /\ Len(frames[t]) = depth[t]
  BY BodyFrames DEF HRetry, Retry
<1> DEFINE s == Butlast(frames[t])
           n == depth[t]
<1>2. frames[t] \in Seq(Frame) /\ Len(frames[t]) >= 1
  BY <1>1
<1>3. /\ s \in Seq(Frame) /\ Len(s) = n - 1
      /\ \A k \in 1 .. n - 1 : s[k] = frames[t][k]
  BY <1>1, <1>2, ButlastOf
<1>4. frames' = [frames EXCEPT ![t] = Append(s, NewFrame)]
  BY DEF HRetry, SetFrames
<1> HIDE DEF s
<1>5. /\ Append(s, NewFrame) \in Seq(Frame) /\ Len(Append(s, NewFrame)) = n
      /\ \A k \in 1 .. n - 1 : Append(s, NewFrame)[k] = s[k]
      /\ Append(s, NewFrame)[n] = NewFrame
  <2>1. /\ Append(s, NewFrame) \in Seq(Frame)
        /\ Len(Append(s, NewFrame)) = Len(s) + 1
        /\ \A k \in 1 .. Len(s) : Append(s, NewFrame)[k] = s[k]
        /\ Append(s, NewFrame)[Len(s) + 1] = NewFrame
    BY <1>3, NewFrameType, AppendOf
  <2>2. Len(s) + 1 = n
    BY <1>1, <1>3
  <2> QED
    BY <1>3, <2>1, <2>2
<1> QED
  BY <1>1, <1>3, <1>4, <1>5

-----------------------------------------------------------------------------
(* The type of the history *)

\* A step of t that leaves the rest of the history alone and keeps t's
\* frames in step with its nesting.
LEMMA FramesOKFrom ==
  ASSUME TypeOK, FramesOK, NEW t \in Threads,
         frames' \in [Threads -> Seq(Frame)],
         \A u \in Threads \ {t} :
             frames'[u] = frames[u] /\ pc'[u] = pc[u] /\ depth'[u] = depth[u],
         pc'[t] # "commit" => Len(frames'[t]) = depth'[t],
         pc'[t] = "commit" => frames'[t] = << >>,
         unguarded' \in [Threads -> SUBSET Addrs], lost' \subseteq Addrs,
         committed' \in [Addrs -> Vals]
  PROVE  FramesOK'
  BY DEF FramesOK, HTypeOK

LEMMA SilentFrames ==
  ASSUME TypeOK, FramesOK, NEW t \in Threads, HSilent(t)
  PROVE  FramesOK'
<1>1. /\ pc' \in [Threads -> {"idle", "body", "read", "write", "commit",
                              "catch", "undo"}]
      /\ \A u \in Threads \ {t} : pc'[u] = pc[u]
      /\ pc[t] # "commit" /\ pc'[t] # "commit" /\ depth' = depth
  BY ZenonT(60) DEF HSilent, Abort, AllocFails, ValidateFails, ResetAbort, OpenRead,
         LoadRefused, OpenWrite, StoreRefused, Alloc, Free, FreeRefused, Throw,
         Goto, TypeOK
<1>2. UNCHANGED hvars
  BY DEF HSilent
<1> QED
  BY <1>1, <1>2 DEF FramesOK, HTypeOK, hvars

LEMMA StepFrames ==
  ASSUME TypeOK, FramesOK, NEW t \in Threads, HStep(t)
  PROVE  FramesOK'
<1>0. /\ frames \in [Threads -> Seq(Frame)] /\ committed \in [Addrs -> Vals]
      /\ unguarded \in [Threads -> SUBSET Addrs] /\ lost \subseteq Addrs
  BY DEF FramesOK, HTypeOK
<1>1. CASE HBegin(t)
  <2>1. /\ \A u \in Threads \ {t} : pc'[u] = pc[u] /\ depth'[u] = depth[u]
        /\ pc'[t] = "body" /\ depth'[t] = depth[t] + 1
        /\ UNCHANGED <<unguarded, lost, committed>>
    BY <1>1 DEF HBegin, Begin, BeginNested, Goto, TypeOK
  <2> QED
    BY <1>0, <1>1, <2>1, BeginFrames, FramesOKFrom, ZenonT(60)
<1>2. CASE HCommitNested(t)
  <2>1. /\ pc' = pc /\ pc[t] = "body"
        /\ \A u \in Threads \ {t} : depth'[u] = depth[u]
        /\ depth'[t] = depth[t] - 1
        /\ UNCHANGED <<unguarded, lost, committed>>
    BY <1>2 DEF HCommitNested, CommitNested, TypeOK
  <2> QED
    BY <1>0, <1>2, <2>1, MergeFrames, FramesOKFrom, ZenonT(60)
<1>3. CASE HReadValue(t)
  <2>1. /\ \A u \in Threads \ {t} : pc'[u] = pc[u]
        /\ pc'[t] = "body" /\ depth' = depth
        /\ UNCHANGED <<unguarded, lost, committed>>
    BY <1>3 DEF HReadValue, ReadValue, Goto, TypeOK
  <2> QED
    BY <1>0, <1>3, <2>1, ReadFrames, FramesOKFrom, ZenonT(60)
<1>4. CASE HWriteValue(t)
  <2>1. /\ \A u \in Threads \ {t} : pc'[u] = pc[u]
        /\ pc'[t] = "body" /\ depth' = depth
        /\ UNCHANGED <<unguarded, lost, committed>>
    BY <1>4 DEF HWriteValue, WriteValue, Goto, TypeOK
  <2> QED
    BY <1>0, <1>4, <2>1, WriteFrames, FramesOKFrom, SMTT(30)
<1>5. CASE HValidateOk(t)
  <2>1. /\ \A u \in Threads \ {t} : pc'[u] = pc[u]
        /\ pc'[t] = "commit" /\ pc[t] = "body" /\ depth' = depth
        /\ UNCHANGED <<unguarded, lost>>
    BY <1>5 DEF HValidateOk, ValidateOk, Goto, TypeOK
  <2>2. /\ frames' \in [Threads -> Seq(Frame)] /\ frames'[t] = << >>
        /\ \A u \in Threads \ {t} : frames'[u] = frames[u]
    BY <1>0, <1>5 DEF HValidateOk, SetFrames
  <2>3. Top(t) \in Frame
    BY <2>1, BodyFrames DEF Top
  <2>4. committed' \in [Addrs -> Vals]
    <3>1. \A a \in Addrs : Top(t).wrote[a] \in Vals \cup {NoEntry}
      BY <2>3, FrameFields
    <3> QED
      BY <1>0, <1>5, <3>1 DEF HValidateOk, TypeOK
  <2> QED
    BY <1>0, <2>1, <2>2, <2>4, FramesOKFrom
<1>6. CASE HResetCommit(t)
  <2>1. /\ \A u \in Threads \ {t} : pc'[u] = pc[u] /\ depth'[u] = depth[u]
        /\ pc'[t] = "idle" /\ pc[t] = "commit" /\ depth[t] = 1 /\ depth'[t] = 0
        /\ UNCHANGED <<frames, lost, committed>>
        /\ unguarded' = [unguarded EXCEPT ![t] = {}]
    BY <1>6 DEF HResetCommit, ResetCommit, Goto, TypeOK
  <2>2. Len(frames[t]) = 0
    BY <2>1 DEF FramesOK
  <2>3. unguarded' \in [Threads -> SUBSET Addrs]
    BY <1>0, <2>1
  <2> QED
    BY <1>0, <2>1, <2>2, <2>3, FramesOKFrom
<1>7. ASSUME NEW a \in Addrs, HUndo(t, a)
      PROVE  FramesOK'
  <2>1. UNCHANGED <<pc, depth, frames, lost, committed>>
    BY <1>7 DEF HUndo, Undo
  <2>2. unguarded' \in [Threads -> SUBSET Addrs]
    BY <1>0, <1>7 DEF HUndo, ReadBy
  <2> QED
    BY <2>1, <2>2 DEF FramesOK, HTypeOK
<1>8. CASE HRetry(t)
  <2>1. /\ \A u \in Threads \ {t} : pc'[u] = pc[u]
        /\ pc'[t] = "body" /\ depth' = depth /\ UNCHANGED committed
    BY <1>8 DEF HRetry, Retry, Goto, TypeOK
  <2>2. unguarded' \in [Threads -> SUBSET Addrs] /\ lost' \subseteq Addrs
    BY <1>0, <1>8 DEF HRetry, SeenOutside, WroteOutside
  <2> QED
    BY <1>0, <1>8, <2>1, <2>2, RetryFrames, FramesOKFrom, ZenonT(60)
<1> QED
  BY <1>1, <1>2, <1>3, <1>4, <1>5, <1>6, <1>7, <1>8, SilentFrames DEF HStep

LEMMA InitFrames == HInit => FramesOK
<1> SUFFICES ASSUME HInit PROVE FramesOK
  OBVIOUS
<1>1. Init /\ << >> \in Seq(Frame) /\ Len(<< >>) = 0
  BY EmptySeq DEF HInit
<1> QED
  BY <1>1 DEF HInit, Init, FramesOK, HTypeOK

\* The history of every thread goes with its nesting, whatever the locks.
THEOREM HistoryTypeCorrect == HSpec => []HTypeOK
<1>1. TypeOK /\ FramesOK /\ [HNext]_<<vars, hvars>> => FramesOK'
  <2> SUFFICES ASSUME TypeOK, FramesOK, [HNext]_<<vars, hvars>>
               PROVE  FramesOK'
    OBVIOUS
  <2>1. CASE \E t \in Threads : HStep(t)
    BY <2>1, StepFrames
  <2>2. CASE UNCHANGED <<vars, hvars>>
    BY <2>2 DEF FramesOK, HTypeOK, vars, hvars
  <2> QED
    BY <2>1, <2>2 DEF HNext, HFinished, Finished
<1>2. FramesOK => HTypeOK
  BY DEF FramesOK
<1> QED
  BY InitFrames, WatchedSpec, TypeCorrect, <1>1, <1>2, PTL DEF HSpec

-----------------------------------------------------------------------------
(* Committed values *)

\* Some transaction that may still abort is creating the block.
Fresh(a) == \E t \in Threads : a \in allocations[t] /\ ~Validated(t)

\* The words committed speaks of.
Known(a) == a \in Existing \ lost /\ ~Fresh(a)

\* A word is in memory as it was committed, or the undo log of a transaction
\* that may still abort has the value; and a transaction that has logged a
\* word but not stored to it has not changed it.
KeptAt(a) ==
    Known(a) =>
        /\ (\A t \in Threads : a \in WrittenBy(t) => Validated(t))
               => mem[a] = committed[a]
        /\ \A t \in Threads : a \in WrittenBy(t) /\ ~Validated(t) =>
               /\ writeSet[t][a] \in {committed[a], NoVal}
               /\ \/ writeSet[t][a] = NoVal
                  \/ InBody(t) /\ ~WroteItself(t, a)
                  => mem[a] = committed[a]

ValuesKept == \A a \in Addrs : KeptAt(a)

\* The stores of a body that runs are in place, the latest of each word, and
\* their words are logged.
Placed(t) ==
    \A a \in Addrs \ lost, k \in Depths(t) :
        frames[t][k].wrote[a] # NoEntry =>
            /\ a \in WrittenBy(t)
            /\ (\A j \in Depths(t) : j > k => frames[t][j].wrote[a] = NoEntry)
                   => mem[a] = frames[t][k].wrote[a]

StoresInPlace == \A t \in Threads : InBody(t) => Placed(t)

\* A step leaves the frames of the other threads alone.
LEMMA OthersFrames ==
  ASSUME FramesOK, NEW t \in Threads, HStep(t)
  PROVE  \A u \in Threads \ {t} : frames'[u] = frames[u]
<1>1. frames \in [Threads -> Seq(Frame)]
  BY DEF FramesOK, HTypeOK
<1> QED
  BY <1>1 DEF HStep, HBegin, HCommitNested, HReadValue, HWriteValue,
              HValidateOk, HResetCommit, HUndo, HRetry, HSilent, SetFrames,
              hvars

\* What a step of t does to a word of which nothing changes but its frames.
LEMMA KeptFrame ==
  ASSUME NEW a \in Addrs, KeptAt(a),
         Known(a)' =>
             /\ Known(a) /\ mem'[a] = mem[a] /\ committed'[a] = committed[a]
             /\ \A u \in Threads :
                    /\ writeSet'[u][a] = writeSet[u][a]
                    /\ a \in WrittenBy(u) =>
                           /\ Validated(u)' <=> Validated(u)
                           /\ InBody(u)' /\ ~WroteItself(u, a)' =>
                                  InBody(u) /\ ~WroteItself(u, a)
  PROVE  KeptAt(a)'
<1> SUFFICES ASSUME Known(a)' PROVE KeptAt(a)'
  BY DEF KeptAt
<1>1. \A u \in Threads : a \in WrittenBy(u)' <=> a \in WrittenBy(u)
  BY DEF WrittenBy
<1> QED
  BY <1>1 DEF KeptAt

\* Opening, merging and reading leave the words a transaction wrote.
LEMMA WroteKept ==
  ASSUME TypeOK, FramesOK, NEW t \in Threads,
         HBegin(t) \/ HCommitNested(t) \/ HReadValue(t), NEW a \in Addrs
  PROVE  WroteItself(t, a)' <=> WroteItself(t, a)
<1>1. CASE HBegin(t)
  <2>1. NewFrame.wrote[a] = NoEntry
    BY DEF NewFrame, EmptyLog
  <2>2. /\ Len(frames[t]) = depth[t] /\ Len(frames'[t]) = depth[t] + 1
        /\ \A k \in 1 .. depth[t] : frames'[t][k] = frames[t][k]
        /\ frames'[t][depth[t] + 1] = NewFrame
        /\ depth[t] \in Nat
    BY <1>1, BeginFrames DEF Depths, TypeOK
  <2>3. /\ \A k \in 1 .. depth[t] + 1 : k \in 1 .. depth[t] \/ k = depth[t] + 1
        /\ \A k \in 1 .. depth[t] : k \in 1 .. depth[t] + 1
    BY <2>2, SMTT(30)
  <2> QED
    BY <2>1, <2>2, <2>3 DEF WroteItself
<1>2. CASE HCommitNested(t)
  <2>1. /\ Len(frames[t]) = depth[t] /\ depth[t] \in Nat /\ depth[t] > 1
        /\ Len(frames'[t]) = depth[t] - 1
        /\ \A k \in 1 .. depth[t] - 2 : frames'[t][k] = frames[t][k]
        /\ frames'[t][depth[t] - 1] =
               Merged(frames[t][depth[t] - 1], frames[t][depth[t]])
    BY <1>2, MergeFrames
  <2>2. frames'[t][depth[t] - 1].wrote[a] # NoEntry <=>
            \/ frames[t][depth[t] - 1].wrote[a] # NoEntry
            \/ frames[t][depth[t]].wrote[a] # NoEntry
    BY <2>1 DEF Merged
  <2>3. /\ \A k \in 1 .. depth[t] :
               k \in 1 .. depth[t] - 2 \/ k = depth[t] - 1 \/ k = depth[t]
        /\ \A k \in 1 .. depth[t] - 1 :
               k \in 1 .. depth[t] - 2 \/ k = depth[t] - 1
        /\ \A k \in 1 .. depth[t] - 2 :
               k \in 1 .. depth[t] /\ k \in 1 .. depth[t] - 1
        /\ depth[t] - 1 \in 1 .. depth[t] /\ depth[t] \in 1 .. depth[t]
        /\ depth[t] - 1 \in 1 .. depth[t] - 1
    BY <2>1, SMTT(30)
  <2> QED
    BY <2>1, <2>2, <2>3, ZenonT(60) DEF WroteItself
<1>3. CASE HReadValue(t)
  <2>1. pc[t] = "read"
    BY <1>3 DEF HReadValue, ReadValue
  <2>2. Len(frames'[t]) = Len(frames[t])
    BY <1>3, <2>1, ReadFrames, BodyFrames
  <2>3. \A k \in 1 .. Len(frames[t]) : frames'[t][k].wrote = frames[t][k].wrote
    BY <1>3, ReadFrames DEF Depths
  <2> QED
    BY <2>2, <2>3 DEF WroteItself
<1> QED
  BY <1>1, <1>2, <1>3

\* A step that moves no value.
LEMMA QuietKept ==
  ASSUME ValuesKept, UNCHANGED <<mem, live, writeSet, allocations, lost, committed>>,
         \A u \in Threads :
             /\ Validated(u)' <=> Validated(u)
             /\ \A a \in WrittenBy(u) :
                    InBody(u)' /\ ~WroteItself(u, a)' =>
                        InBody(u) /\ ~WroteItself(u, a)
  PROVE  ValuesKept'
<1> SUFFICES ASSUME NEW a \in Addrs PROVE KeptAt(a)'
  BY DEF ValuesKept
<1>1. Known(a)' => Known(a)
  BY DEF Known, Existing, Fresh
<1> QED
  BY <1>1, KeptFrame DEF ValuesKept

LEMMA BeginKept ==
  ASSUME Inv, FramesOK, ValuesKept, NEW t \in Threads,
         HBegin(t) \/ HCommitNested(t) \/ HReadValue(t)
  PROVE  ValuesKept'
<1>1. /\ \A u \in Threads \ {t} : pc'[u] = pc[u] /\ frames'[u] = frames[u]
      /\ pc[t] \in {"idle", "body", "read"} /\ pc'[t] = "body"
      /\ UNCHANGED <<mem, live, writeSet, allocations, lost, committed>>
  BY OthersFrames, ZenonT(60) DEF Inv, TypeOK, HStep, HBegin, HCommitNested, HReadValue,
     Begin, BeginNested, CommitNested, ReadValue, Goto, shared, logs
<1>2. pc[t] = "idle" => WrittenBy(t) = {}
  BY DEF Inv, HInv, LogShape
<1>3. \A a \in Addrs : WroteItself(t, a)' <=> WroteItself(t, a)
  BY WroteKept DEF Inv
<1>4. \A u \in Threads : Validated(u)' <=> Validated(u)
  BY <1>1 DEF Validated
<1>5. ASSUME NEW u \in Threads, NEW a \in WrittenBy(u),
             InBody(u)', ~WroteItself(u, a)'
      PROVE  InBody(u) /\ ~WroteItself(u, a)
  <2>1. CASE u = t
    BY <1>1, <1>2, <1>3, <1>5, <2>1 DEF InBody, WrittenBy
  <2>2. CASE u # t
    BY <1>1, <1>5, <2>2 DEF InBody, WroteItself
  <2> QED
    BY <2>1, <2>2
<1> QED
  BY <1>1, <1>4, <1>5, QuietKept

\* The silent steps that open nothing for writing and move no value.
Quiet(t) ==
    \/ Abort(t) \/ AllocFails(t) \/ ValidateFails(t) \/ ResetAbort(t)
    \/ \E a \in Addrs : OpenRead(t, a) \/ LoadRefused(t, a)
    \/ \E a \in Addrs : StoreRefused(t, a) \/ FreeRefused(t, a)

LEMMA QuietStep ==
  ASSUME TypeOK, NEW t \in Threads, Quiet(t), UNCHANGED hvars
  PROVE  /\ UNCHANGED <<mem, live, writeSet, allocations, lost, committed, frames>>
         /\ \A u \in Threads :
                /\ Validated(u)' <=> Validated(u)
                /\ InBody(u)' => InBody(u)
<1>1. \A u \in Threads \ {t} : pc'[u] = pc[u]
  BY DEF Quiet, Abort, AllocFails, ValidateFails, ResetAbort, OpenRead,
         LoadRefused, StoreRefused, FreeRefused, Throw, Goto, TypeOK
<1>2. \/ pc[t] = "body" /\ pc'[t] \in {"read", "catch"}
      \/ pc[t] = "catch" /\ pc'[t] = "undo"
  BY DEF Quiet, Abort, AllocFails, ValidateFails, ResetAbort, OpenRead,
         LoadRefused, StoreRefused, FreeRefused, Throw, Goto, TypeOK
<1>3. UNCHANGED <<mem, live, writeSet, allocations>>
  BY DEF Quiet, Abort, AllocFails, ValidateFails, ResetAbort, OpenRead,
         LoadRefused, StoreRefused, FreeRefused, Throw, shared, logs
<1> QED
  BY <1>1, <1>2, <1>3 DEF Validated, InBody, hvars

LEMMA QuietStepKept ==
  ASSUME TypeOK, ValuesKept, NEW t \in Threads, Quiet(t), UNCHANGED hvars
  PROVE  ValuesKept'
<1>1. \A u \in Threads, a \in Addrs : WroteItself(u, a)' <=> WroteItself(u, a)
  BY QuietStep DEF WroteItself
<1> QED
  BY <1>1, QuietStep, QuietKept DEF WrittenBy

\* A word becomes known to be in memory as committed when a body may use it.
LEMMA UsableKnown ==
  ASSUME TypeOK, NEW t \in Threads, NEW a \in Addrs, Usable(t, a)
  PROVE  Known(a) \/ a \in lost \/ a \in allocations[t]
  BY DEF Usable, Known, Existing, Fresh, TypeOK

\* A word behind a free lock is in nobody's log.
LEMMA FreeLockNobody ==
  ASSUME LocksMatchLogs, NEW a \in Addrs, ~meta[LockOf[a]].bit
  PROVE  \A u \in Threads : a \notin WrittenBy(u)
  BY LockOfAssumption DEF LocksMatchLogs, BitsMatchLogs, Owns, WrittenBy

\* TxStore saves the committed value with its lock.
LEMMA OpenWriteKept ==
  ASSUME LockPerWord, Inv, ValuesKept, StoresInPlace, NEW t \in Threads,
         NEW a \in Addrs, NEW v \in Vals, OpenWrite(t, a, v), UNCHANGED hvars
  PROVE  ValuesKept'
<1>1. /\ \A u \in Threads \ {t} : pc'[u] = pc[u]
      /\ pc[t] = "body" /\ pc'[t] = "write"
      /\ UNCHANGED <<mem, live, allocations, lost, committed, frames>>
      /\ mem[a] \in Vals
  BY DEF OpenWrite, Goto, Inv, TypeOK, hvars
<1>2. /\ \A u \in Threads : Validated(u)' <=> Validated(u)
      /\ \A u \in Threads : InBody(u)' <=> InBody(u)
      /\ \A b \in Addrs : Known(b)' <=> Known(b)
      /\ \A u \in Threads, b \in Addrs : WroteItself(u, b)' <=> WroteItself(u, b)
  BY <1>1 DEF Validated, InBody, Known, Existing, Fresh, WroteItself
<1>3. CASE OpenWriteHit(t, a)
  BY <1>1, <1>2, <1>3, QuietKept DEF OpenWriteHit, WrittenBy
<1>4. CASE OpenWriteLog(t, a, mem[a])
  <2>1. /\ \A u \in Threads, b \in Addrs :
               writeSet'[u][b] = IF u = t /\ b = a THEN mem[a] ELSE writeSet[u][b]
        /\ ~meta[LockOf[a]].bit
    BY <1>4 DEF OpenWriteLog, Inv, TypeOK
  <2>2. \A b \in Addrs : b # a => KeptAt(b)'
    BY <1>1, <1>2, <2>1, KeptFrame DEF ValuesKept
  <2>3. \A u \in Threads : a \notin WrittenBy(u)
    BY <2>1, FreeLockNobody DEF Inv
  <2>4. Known(a) => mem[a] = committed[a]
    BY <2>3 DEF ValuesKept, KeptAt
  <2>5. KeptAt(a)'
    BY <1>1, <1>2, <2>1, <2>3, <2>4 DEF KeptAt, WrittenBy, Validated
  <2> QED
    BY <2>2, <2>5 DEF ValuesKept
<1> QED
  BY <1>3, <1>4 DEF OpenWrite

LEMMA FreeKept ==
  ASSUME LockPerWord, Inv, ValuesKept, StoresInPlace, NEW t \in Threads,
         NEW a \in Addrs, Free(t, a), UNCHANGED hvars
  PROVE  ValuesKept'
<1>1. UNCHANGED <<pc, mem, live, allocations, lost, committed, frames>>
  BY DEF Free, hvars
<1>2. /\ \A u \in Threads : Validated(u)' <=> Validated(u)
      /\ \A u \in Threads : InBody(u)' <=> InBody(u)
      /\ \A b \in Addrs : Known(b)' <=> Known(b)
      /\ \A u \in Threads, b \in Addrs : WroteItself(u, b)' <=> WroteItself(u, b)
  BY <1>1 DEF Validated, InBody, Known, Existing, Fresh, WroteItself
<1>3. CASE OpenWriteHit(t, a)
  BY <1>1, <1>2, <1>3, QuietKept DEF OpenWriteHit, WrittenBy
<1>4. CASE OpenWriteLog(t, a, NoVal)
  <2>1. /\ \A u \in Threads, b \in Addrs :
               writeSet'[u][b] = IF u = t /\ b = a THEN NoVal ELSE writeSet[u][b]
        /\ ~meta[LockOf[a]].bit
    BY <1>4 DEF OpenWriteLog, Inv, TypeOK
  <2>2. \A b \in Addrs : b # a => KeptAt(b)'
    BY <1>1, <1>2, <2>1, KeptFrame DEF ValuesKept
  <2>3. \A u \in Threads : a \notin WrittenBy(u)
    BY <2>1, FreeLockNobody DEF Inv
  <2>4. Known(a) => mem[a] = committed[a]
    BY <2>3 DEF ValuesKept, KeptAt
  <2>5. KeptAt(a)'
    BY <1>1, <1>2, <2>1, <2>3, <2>4 DEF KeptAt, WrittenBy, Validated
  <2> QED
    BY <2>2, <2>5 DEF ValuesKept
<1> QED
  BY <1>3, <1>4 DEF Free

\* malloc hands out a block that nobody has logged.
LEMMA AllocKept ==
  ASSUME Inv, ValuesKept, NEW t \in Threads,
         NEW a \in Addrs, NEW v \in Vals, Alloc(t, a, v), UNCHANGED hvars
  PROVE  ValuesKept'
<1>1. /\ UNCHANGED <<pc, writeSet, lost, committed, frames>>
      /\ live' = live \cup {a} /\ a \in Heap \ live /\ pc[t] = "body"
      /\ \A u \in Threads \ {t} : allocations'[u] = allocations[u]
      /\ allocations'[t] = allocations[t] \cup {a}
      /\ \A b \in Addrs \ {a} : mem'[b] = mem[b]
  BY DEF Alloc, Inv, TypeOK, hvars
<1>2. \A b \in Addrs : Known(b)' => Known(b) /\ b # a
  BY <1>1 DEF Known, Existing, Fresh, Validated
<1>3. ASSUME NEW u \in Threads
      PROVE  /\ Validated(u)' <=> Validated(u)
             /\ InBody(u)' <=> InBody(u)
             /\ \A b \in Addrs : WroteItself(u, b)' <=> WroteItself(u, b)
  BY <1>1 DEF Validated, InBody, WroteItself
<1> QED
  BY <1>1, <1>2, <1>3, KeptFrame DEF ValuesKept

\* TxStore's value lands in a word the transaction has logged.
LEMMA WriteKept ==
  ASSUME LockPerWord, Inv, FramesOK, ValuesKept, NEW t \in Threads,
         HWriteValue(t)
  PROVE  ValuesKept'
<1>0. PICK a \in Addrs : a = target[t]
  BY DEF Inv, TypeOK, HWriteValue, WriteValue
<1>1. /\ \A u \in Threads \ {t} : pc'[u] = pc[u] /\ frames'[u] = frames[u]
      /\ pc[t] = "write" /\ pc'[t] = "body" /\ a \in Addrs
      /\ UNCHANGED <<live, writeSet, allocations, lost, committed>>
      /\ mem' = [mem EXCEPT ![a] = value[t]] /\ value[t] \in Vals
  BY <1>0, OthersFrames
  DEF Inv, TypeOK, HStep, HWriteValue, WriteValue, Goto, logs
<1>2. a \in WrittenBy(t)
  BY <1>0, <1>1, OwnsIsLogged DEF Inv, LocksMatchLogs, StoresOwned
<1>3. /\ \A u \in Threads : Validated(u)' <=> Validated(u)
      /\ \A u \in Threads : InBody(u)' <=> InBody(u)
      /\ \A b \in Addrs : Known(b)' <=> Known(b)
  BY <1>1 DEF Validated, InBody, Known, Existing, Fresh
<1>4. ASSUME NEW b \in Addrs
      PROVE  /\ WroteItself(t, b) => WroteItself(t, b)'
             /\ b = a => WroteItself(t, b)'
  <2>1. /\ Len(frames[t]) = depth[t] /\ Len(frames'[t]) = depth[t]
        /\ depth[t] \in Depths(t)
        /\ \A k \in Depths(t) : frames'[t][k].wrote[b] =
                IF k = depth[t] /\ b = a THEN value[t]
                ELSE frames[t][k].wrote[b]
    BY <1>0, <1>1, WriteFrames, BodyFrames DEF Inv
  <2>2. value[t] # NoEntry
    BY <1>1, NullAssumption
  <2> QED
    BY <2>1, <2>2 DEF WroteItself, Depths
<1>5. \A u \in Threads \ {t}, b \in Addrs : WroteItself(u, b)' <=> WroteItself(u, b)
  BY <1>1 DEF WroteItself
<1>6. ASSUME NEW b \in Addrs \ {a}
      PROVE  KeptAt(b)'
  <2>1. mem'[b] = mem[b]
    BY <1>1, <1>6 DEF Inv, TypeOK
  <2> QED
    BY <1>1, <1>3, <1>4, <1>5, <2>1, KeptFrame DEF ValuesKept
<1>7. KeptAt(a)'
  <2>1. writeSet[t][a] # NoVal
    BY <1>0, <1>1 DEF Inv, HInv, LogShape, TypeOK
  <2>2. \A u \in Threads : a \in WrittenBy(u) => u = t
    BY <1>2 DEF Inv, LocksMatchLogs, LogsDisjoint
  <2>3. ~Validated(t)
    BY <1>1 DEF Validated
  <2>4. \A u \in Threads : WrittenBy(u)' = WrittenBy(u)
    BY <1>1 DEF WrittenBy
  <2>5. WroteItself(t, a)'
    BY <1>1, <1>4
  <2>6. KeptAt(a)
    BY <1>1 DEF ValuesKept
  <2> QED
    BY <1>1, <1>2, <1>3, <2>1, <2>2, <2>3, <2>4, <2>5, <2>6 DEF KeptAt
<1> QED
  BY <1>6, <1>7 DEF ValuesKept

\* validate() succeeds: what was stored in place is committed.
LEMMA ValidateKept ==
  ASSUME LockPerWord, Inv, FramesOK, ValuesKept, StoresInPlace,
         NEW t \in Threads, HValidateOk(t)
  PROVE  ValuesKept'
<1>1. /\ \A u \in Threads \ {t} : pc'[u] = pc[u] /\ frames'[u] = frames[u]
      /\ pc[t] = "body" /\ pc'[t] = "commit" /\ depth[t] = 1
      /\ UNCHANGED <<mem, live, writeSet, allocations, lost>>
  BY OthersFrames
  DEF Inv, TypeOK, HStep, HValidateOk, ValidateOk, Goto, shared, logs
<1>2. Len(frames[t]) = 1 /\ Top(t) = frames[t][1] /\ Depths(t) = 1 .. 1
  BY <1>1, BodyFrames DEF Inv, Top, Depths
<1>3. \A b \in Addrs : committed'[b] =
          IF Top(t).wrote[b] # NoEntry THEN Top(t).wrote[b]
          ELSE IF b \in allocations[t] THEN mem[b] ELSE committed[b]
  BY DEF HValidateOk
<1>4. \A b \in Addrs : WroteItself(t, b) <=> Top(t).wrote[b] # NoEntry
  BY <1>2 DEF WroteItself
<1>5. InBody(t) /\ ~Validated(t) /\ Validated(t)' /\ ~InBody(t)'
  BY <1>1 DEF InBody, Validated
<1>6. \A u \in Threads \ {t} :
          /\ Validated(u)' <=> Validated(u)
          /\ InBody(u)' <=> InBody(u)
          /\ \A b \in Addrs : WroteItself(u, b)' <=> WroteItself(u, b)
  BY <1>1 DEF Validated, InBody, WroteItself
<1>7. \A u \in Threads : WrittenBy(u)' = WrittenBy(u)
  BY <1>1 DEF WrittenBy
<1> SUFFICES ASSUME NEW a \in Addrs, Known(a)' PROVE KeptAt(a)'
  BY DEF ValuesKept, KeptAt
<1>8. a \in Existing /\ a \notin lost
  BY <1>1 DEF Known, Existing
<1>9. CASE Top(t).wrote[a] # NoEntry
  <2>1. a \in WrittenBy(t) /\ mem[a] = Top(t).wrote[a]
    <3>1. \A k \in Depths(t) : k = 1
      BY <1>2
    <3> QED
      BY <1>2, <1>5, <1>8, <1>9, <3>1 DEF StoresInPlace, Placed
  <2>2. \A u \in Threads : a \in WrittenBy(u) => u = t
    BY <2>1 DEF Inv, LocksMatchLogs, LogsDisjoint
  <2> QED
    BY <1>1, <1>3, <1>5, <1>7, <1>9, <2>1, <2>2 DEF KeptAt
<1>10. CASE Top(t).wrote[a] = NoEntry /\ a \in allocations[t]
  <2>1. a \in Heap
    BY <1>10 DEF Inv, TypeOK
  <2>2. \A u \in Threads \ {t} : a \notin WrittenBy(u)
    BY <1>10, <2>1 DEF Inv, HInv, BlocksOwned
  <2> QED
    BY <1>1, <1>3, <1>5, <1>7, <1>10, <2>2 DEF KeptAt
<1>11. CASE Top(t).wrote[a] = NoEntry /\ a \notin allocations[t]
  <2>1. Known(a)
    BY <1>1, <1>6, <1>8, <1>11 DEF Known, Fresh
  <2>2. committed'[a] = committed[a] /\ mem'[a] = mem[a]
    BY <1>1, <1>3, <1>11
  <2>3. a \in WrittenBy(t) => mem[a] = committed[a]
    BY <1>4, <1>5, <1>11, <2>1 DEF ValuesKept, KeptAt
  <2>4. \A u \in Threads : a \in WrittenBy(t) /\ a \in WrittenBy(u) => u = t
    BY DEF Inv, LocksMatchLogs, LogsDisjoint
  <2>5. CASE a \in WrittenBy(t)
    BY <1>1, <1>5, <1>7, <2>2, <2>3, <2>4, <2>5 DEF KeptAt
  <2>6. CASE a \notin WrittenBy(t)
    <3>1. KeptAt(a)
      BY DEF ValuesKept
    <3> QED
      BY <1>1, <1>6, <2>1, <2>2, <2>6, <3>1, KeptFrame DEF WrittenBy
  <2> QED
    BY <2>5, <2>6
<1> QED
  BY <1>9, <1>10, <1>11

\* reset(true) lets the words go as they are; the blocks it frees are nobody
\* else's and exist no more.
LEMMA ResetKept ==
  ASSUME LockPerWord, Inv, FramesOK, ValuesKept, NEW t \in Threads,
         HResetCommit(t)
  PROVE  ValuesKept'
<1>1. /\ \A u \in Threads \ {t} :
             /\ pc'[u] = pc[u] /\ writeSet'[u] = writeSet[u]
             /\ allocations'[u] = allocations[u]
      /\ pc[t] = "commit" /\ pc'[t] = "idle" /\ writeSet'[t] = EmptyLog
      /\ allocations'[t] = {} /\ live' = live \ frees[t]
      /\ \A b \in Addrs \ frees[t] : mem'[b] = mem[b]
      /\ UNCHANGED <<frames, lost, committed>>
  BY DEF HResetCommit, ResetCommit, Release, ClearLogs, Goto, Inv, TypeOK
<1>2. /\ \A u \in Threads \ {t} :
             /\ Validated(u)' <=> Validated(u)
             /\ InBody(u)' <=> InBody(u)
             /\ \A b \in Addrs : WroteItself(u, b)' <=> WroteItself(u, b)
      /\ Validated(t)
  BY <1>1 DEF Validated, InBody, WroteItself
<1>3. WrittenBy(t)' = {}
  BY <1>1 DEF WrittenBy, EmptyLog
<1>4. ASSUME NEW a \in Addrs, Known(a)'
      PROVE  Known(a) /\ mem'[a] = mem[a]
  <2>1. frees[t] \subseteq Heap
    BY DEF Inv, TypeOK
  <2>2. a \notin frees[t]
    BY <1>1, <1>4, <2>1 DEF Known, Existing
  <2> QED
    BY <1>1, <1>2, <1>4, <2>2 DEF Known, Existing, Fresh
<1>5. ASSUME NEW a \in Addrs, a \notin WrittenBy(t)
      PROVE  KeptAt(a)'
  <2>1. writeSet'[t][a] = writeSet[t][a]
    BY <1>1, <1>5 DEF WrittenBy, EmptyLog
  <2> QED
    BY <1>1, <1>2, <1>4, <1>5, <2>1, KeptFrame DEF ValuesKept
<1>6. ASSUME NEW a \in Addrs, a \in WrittenBy(t), Known(a)'
      PROVE  KeptAt(a)'
  <2>1. \A u \in Threads : a \in WrittenBy(u) => u = t
    BY <1>6 DEF Inv, LocksMatchLogs, LogsDisjoint
  <2>2. mem[a] = committed[a]
    BY <1>2, <1>4, <1>6, <2>1 DEF ValuesKept, KeptAt
  <2>3. \A u \in Threads : a \notin WrittenBy(u)'
    BY <1>1, <1>3, <2>1 DEF WrittenBy
  <2> QED
    BY <1>1, <1>4, <1>6, <2>2, <2>3 DEF KeptAt
<1>7. \A a \in Addrs : ~Known(a)' => KeptAt(a)'
  BY DEF KeptAt
<1> QED
  BY <1>5, <1>6, <1>7 DEF ValuesKept

\* The saved value goes back.
LEMMA UndoKept ==
  ASSUME LockPerWord, Inv, FramesOK, ValuesKept, NEW t \in Threads,
         NEW a \in Addrs, HUndo(t, a)
  PROVE  ValuesKept'
<1>1. /\ UNCHANGED <<pc, live, allocations, frames, lost, committed>>
      /\ pc[t] = "undo" /\ a \in WrittenBy(t)
      /\ \A u \in Threads, b \in Addrs : writeSet'[u][b] =
             IF u = t /\ b = a THEN NoEntry ELSE writeSet[u][b]
      /\ \A b \in Addrs \ {a} : mem'[b] = mem[b]
      /\ mem'[a] = IF writeSet[t][a] = NoVal THEN mem[a] ELSE writeSet[t][a]
  BY DEF HUndo, Undo, Inv, TypeOK
<1>2. /\ \A u \in Threads : Validated(u)' <=> Validated(u)
      /\ \A u \in Threads : InBody(u)' <=> InBody(u)
      /\ \A b \in Addrs : Known(b)' <=> Known(b)
      /\ \A u \in Threads, b \in Addrs : WroteItself(u, b)' <=> WroteItself(u, b)
  BY <1>1 DEF Validated, InBody, Known, Existing, Fresh, WroteItself
<1>3. \A b \in Addrs \ {a} : KeptAt(b)'
  BY <1>1, <1>2, KeptFrame DEF ValuesKept
<1>4. KeptAt(a)'
  <2>1. \A u \in Threads : a \in WrittenBy(u) => u = t
    BY <1>1 DEF Inv, LocksMatchLogs, LogsDisjoint
  <2>2. \A u \in Threads : a \notin WrittenBy(u)'
    BY <1>1, <2>1 DEF WrittenBy
  <2>3. Known(a) => mem'[a] = committed[a]
    BY <1>1 DEF ValuesKept, KeptAt, Validated
  <2> QED
    BY <1>1, <1>2, <2>2, <2>3 DEF KeptAt
<1> QED
  BY <1>3, <1>4 DEF ValuesKept

\* The blocks of an aborted body are given back, and the words of the
\* enclosing ones are lost.
LEMMA RetryKept ==
  ASSUME LockPerWord, Inv, FramesOK, ValuesKept, NEW t \in Threads,
         HRetry(t)
  PROVE  ValuesKept'
<1>1. /\ \A u \in Threads \ {t} :
             /\ pc'[u] = pc[u] /\ writeSet'[u] = writeSet[u]
             /\ allocations'[u] = allocations[u] /\ frames'[u] = frames[u]
      /\ pc[t] = "undo" /\ pc'[t] = "body" /\ writeSet'[t] = EmptyLog
      /\ WrittenBy(t) = {}
      /\ allocations'[t] = {} /\ live' = live \ allocations[t]
      /\ \A b \in Addrs \ allocations[t] : mem'[b] = mem[b]
      /\ lost \subseteq lost' /\ UNCHANGED committed
  BY OthersFrames, ZenonT(60)
  DEF HStep, HRetry, Retry, Release, ClearLogs, Goto, Inv, TypeOK
<1>2. /\ \A u \in Threads : Validated(u)' <=> Validated(u)
      /\ \A u \in Threads \ {t} :
             /\ InBody(u)' <=> InBody(u)
             /\ \A b \in Addrs : WroteItself(u, b)' <=> WroteItself(u, b)
  BY <1>1 DEF Validated, InBody, WroteItself
<1>3. ASSUME NEW a \in Addrs, Known(a)'
      PROVE  Known(a) /\ mem'[a] = mem[a]
  <2>1. allocations[t] \subseteq Heap
    BY DEF Inv, TypeOK
  <2>2. a \notin allocations[t]
    BY <1>1, <1>3, <2>1 DEF Known, Existing
  <2> QED
    BY <1>1, <1>2, <1>3, <2>2 DEF Known, Existing, Fresh
<1>4. ASSUME NEW a \in Addrs
      PROVE  KeptAt(a)'
  <2>1. \A u \in Threads : writeSet'[u][a] = writeSet[u][a]
    BY <1>1 DEF WrittenBy, EmptyLog
  <2> QED
    BY <1>1, <1>2, <1>3, <2>1, KeptFrame DEF ValuesKept
<1> QED
  BY <1>4 DEF ValuesKept

LEMMA StepKept ==
  ASSUME LockPerWord, Inv, FramesOK, ValuesKept, StoresInPlace,
         NEW t \in Threads, HStep(t)
  PROVE  ValuesKept'
<1>1. CASE HSilent(t)
  <2>1. UNCHANGED hvars
    BY <1>1 DEF HSilent
  <2>2. CASE Quiet(t)
    BY <2>1, <2>2, QuietStepKept DEF Inv
  <2> QED
    BY <1>1, <2>1, <2>2, OpenWriteKept, FreeKept, AllocKept DEF HSilent, Quiet
<1> QED
  BY <1>1, BeginKept, WriteKept, ValidateKept, ResetKept, UndoKept, RetryKept
  DEF HStep

-----------------------------------------------------------------------------
(* Stores in place *)

\* What a step of t leaves of what another thread knows.
LEMMA LostGrows ==
  ASSUME NEW t \in Threads, HStep(t)
  PROVE  lost \subseteq lost'
  BY DEF HStep, HBegin, HCommitNested, HReadValue, HWriteValue, HValidateOk,
         HResetCommit, HUndo, HRetry, HSilent, hvars

LEMMA PlacedOthers ==
  ASSUME LockPerWord, Inv, FramesOK, StoresInPlace, NEW t \in Threads,
         HStep(t), NEW u \in Threads \ {t}, InBody(u)'
  PROVE  Placed(u)'
<1>1. frames'[u] = frames[u] /\ lost \subseteq lost'
  BY OthersFrames, LostGrows
<1>2. writeSet'[u] = writeSet[u] /\ InBody(u)
  BY StepOthers, WatchedStep DEF OthersUntouched, Inv, InBody
<1>3. \A a \in WrittenBy(u) : mem'[a] = mem[a]
  BY OthersWordsKept, WatchedStep DEF Inv
<1>4. Placed(u)
  BY <1>2 DEF StoresInPlace
<1> QED
  BY <1>1, <1>2, <1>3, <1>4 DEF Placed, WrittenBy, Depths

\* A step of t that stores nothing and opens no frame.
LEMMA PlacedFrame ==
  ASSUME NEW t \in Threads, Placed(t), lost \subseteq lost',
         frames'[t] = frames[t],
         \A a \in WrittenBy(t) : a \in WrittenBy(t)' /\ mem'[a] = mem[a]
  PROVE  Placed(t)'
  BY DEF Placed, Depths

LEMMA BeginPlaced ==
  ASSUME Inv, FramesOK, StoresInPlace, NEW t \in Threads, HBegin(t)
  PROVE  Placed(t)'
<1>1. /\ pc[t] \in {"idle", "body"} /\ depth[t] \in Nat
      /\ UNCHANGED <<mem, writeSet, lost>>
  BY DEF HBegin, Begin, BeginNested, shared, logs, Inv, TypeOK
<1>2. /\ Len(frames[t]) = depth[t] /\ Len(frames'[t]) = depth[t] + 1
      /\ \A k \in 1 .. depth[t] : frames'[t][k] = frames[t][k]
      /\ frames'[t][depth[t] + 1] = NewFrame
  BY BeginFrames DEF Inv, Depths
<1>3. \A a \in Addrs : NewFrame.wrote[a] = NoEntry
  BY DEF NewFrame, EmptyLog
<1>4. Placed(t)
  <2>1. CASE pc[t] = "idle"
    <3>1. depth[t] = 0
      BY <2>1 DEF Inv, TypeOK
    <3> QED
      BY <1>2, <3>1 DEF Placed, Depths
  <2>2. CASE pc[t] = "body"
    BY <2>2 DEF StoresInPlace, InBody
  <2> QED
    BY <1>1, <2>1, <2>2
<1> SUFFICES ASSUME NEW a \in Addrs \ lost, NEW k \in 1 .. depth[t] + 1,
                    frames'[t][k].wrote[a] # NoEntry
             PROVE  /\ a \in WrittenBy(t)'
                    /\ (\A j \in 1 .. depth[t] + 1 : j > k =>
                            frames'[t][j].wrote[a] = NoEntry)
                           => mem'[a] = frames'[t][k].wrote[a]
  BY <1>1, <1>2 DEF Placed, Depths
<1>5. k \in 1 .. depth[t]
  BY <1>1, <1>2, <1>3
<1>6. \A j \in 1 .. depth[t] :
          j \in 1 .. depth[t] + 1 /\ frames'[t][j] = frames[t][j]
  BY <1>1, <1>2
<1>7. /\ a \in WrittenBy(t)
      /\ (\A j \in 1 .. depth[t] : j > k => frames[t][j].wrote[a] = NoEntry)
             => mem[a] = frames[t][k].wrote[a]
  BY <1>2, <1>4, <1>5, <1>6, ZenonT(60) DEF Placed, Depths
<1> QED
  BY <1>1, <1>5, <1>6, <1>7 DEF WrittenBy

LEMMA MergePlaced ==
  ASSUME Inv, FramesOK, StoresInPlace, NEW t \in Threads, HCommitNested(t)
  PROVE  Placed(t)'
<1>1. UNCHANGED <<mem, writeSet, lost>> /\ Placed(t)
  BY DEF HCommitNested, CommitNested, shared, logs, StoresInPlace, InBody
<1> DEFINE d == depth[t]
<1>2. /\ Len(frames[t]) = d /\ d \in Nat /\ d > 1
      /\ Len(frames'[t]) = d - 1
      /\ \A k \in 1 .. d - 2 : frames'[t][k] = frames[t][k]
      /\ frames'[t][d - 1] = Merged(frames[t][d - 1], frames[t][d])
  BY MergeFrames DEF Inv
<1> HIDE DEF d
<1>3. \A b \in Addrs : frames'[t][d - 1].wrote[b] =
          IF frames[t][d].wrote[b] # NoEntry THEN frames[t][d].wrote[b]
          ELSE frames[t][d - 1].wrote[b]
  BY <1>2 DEF Merged
<1> SUFFICES ASSUME NEW a \in Addrs \ lost, NEW k \in 1 .. d - 1,
                    frames'[t][k].wrote[a] # NoEntry
             PROVE  /\ a \in WrittenBy(t)
                    /\ (\A j \in 1 .. d - 1 : j > k =>
                            frames'[t][j].wrote[a] = NoEntry)
                           => mem[a] = frames'[t][k].wrote[a]
  BY <1>1, <1>2 DEF Placed, Depths, WrittenBy
<1>4. \A i \in 1 .. d : frames[t][i].wrote[a] # NoEntry =>
          /\ a \in WrittenBy(t)
          /\ (\A j \in 1 .. d : j > i => frames[t][j].wrote[a] = NoEntry)
                 => mem[a] = frames[t][i].wrote[a]
  BY <1>1, <1>2 DEF Placed, Depths
<1>5. d \in 1 .. d /\ d - 1 \in 1 .. d /\ k \in 1 .. d
  BY <1>2
<1>6. CASE k = d - 1 /\ frames[t][d].wrote[a] # NoEntry
  <2>1. \A j \in 1 .. d : ~(j > d)
    BY <1>2
  <2> QED
    BY <1>3, <1>4, <1>5, <1>6, <2>1
<1>7. CASE k = d - 1 /\ frames[t][d].wrote[a] = NoEntry
  <2>1. \A j \in 1 .. d : j > d - 1 => j = d
    BY <1>2
  <2> QED
    BY <1>3, <1>4, <1>5, <1>7, <2>1
<1>8. CASE k # d - 1
  <2>1. k \in 1 .. d - 2 /\ d - 1 \in 1 .. d - 1 /\ d - 1 > k
    BY <1>2, <1>8
  <2>2. frames'[t][k] = frames[t][k]
    BY <1>2, <2>1
  <2>3. ASSUME \A j \in 1 .. d - 1 : j > k => frames'[t][j].wrote[a] = NoEntry,
               NEW j \in 1 .. d, j > k
        PROVE  frames[t][j].wrote[a] = NoEntry
    <3>1. frames'[t][d - 1].wrote[a] = NoEntry
      BY <2>1, <2>3
    <3>2. /\ frames[t][d].wrote[a] = NoEntry
          /\ frames[t][d - 1].wrote[a] = NoEntry
      BY <1>3, <3>1
    <3>3. j = d \/ j = d - 1 \/ (j \in 1 .. d - 2 /\ j \in 1 .. d - 1)
      BY <1>2
    <3> QED
      BY <1>2, <2>3, <3>2, <3>3
  <2> QED
    BY <1>4, <1>5, <2>2, <2>3
<1> QED
  BY <1>6, <1>7, <1>8

LEMMA WritePlaced ==
  ASSUME LockPerWord, Inv, FramesOK, StoresInPlace, NEW t \in Threads,
         HWriteValue(t)
  PROVE  Placed(t)'
<1>1. /\ UNCHANGED <<writeSet, lost>> /\ pc[t] = "write"
      /\ mem' = [mem EXCEPT ![target[t]] = value[t]]
      /\ target[t] \in Addrs
  BY DEF HWriteValue, WriteValue, logs, Inv, TypeOK
<1>2. Placed(t) /\ target[t] \in WrittenBy(t)
  BY <1>1, OwnsIsLogged DEF StoresInPlace, InBody, Inv, LocksMatchLogs,
     StoresOwned
<1>3. depth[t] \in Nat /\ Len(frames[t]) = depth[t]
  BY <1>1, BodyFrames DEF Inv
<1>4. \A b \in Addrs : mem'[b] = IF b = target[t] THEN value[t] ELSE mem[b]
  BY <1>1 DEF Inv, TypeOK
<1>5. /\ Len(frames'[t]) = depth[t] /\ depth[t] \in 1 .. depth[t]
      /\ \A k \in 1 .. depth[t], b \in Addrs : frames'[t][k].wrote[b] =
                IF k = depth[t] /\ b = target[t] THEN value[t]
                ELSE frames[t][k].wrote[b]
  BY <1>3, WriteFrames DEF Inv, Depths
<1>6. value[t] # NoEntry
  BY <1>1, NullAssumption DEF Inv, TypeOK
<1> SUFFICES ASSUME NEW a \in Addrs \ lost, NEW k \in 1 .. depth[t],
                    frames'[t][k].wrote[a] # NoEntry
             PROVE  /\ a \in WrittenBy(t)
                    /\ (\A j \in 1 .. depth[t] : j > k =>
                            frames'[t][j].wrote[a] = NoEntry)
                           => mem'[a] = frames'[t][k].wrote[a]
  BY <1>1, <1>5 DEF Placed, Depths, WrittenBy
<1>7. CASE a # target[t]
  BY <1>2, <1>3, <1>4, <1>5, <1>7, SMTT(30) DEF Placed, Depths
<1>8. CASE a = target[t] /\ k = depth[t]
  BY <1>2, <1>4, <1>5, <1>8
<1>9. CASE a = target[t] /\ k # depth[t]
  <2>1. depth[t] > k
    BY <1>3, <1>9
  <2> QED
    BY <1>2, <1>5, <1>6, <1>9, <2>1
<1> QED
  BY <1>7, <1>8, <1>9

LEMMA ReadPlaced ==
  ASSUME Inv, FramesOK, StoresInPlace, NEW t \in Threads, HReadValue(t)
  PROVE  Placed(t)'
<1>1. UNCHANGED <<mem, writeSet, lost>> /\ pc[t] = "read"
  BY DEF HReadValue, ReadValue, shared, logs
<1>2. Placed(t) /\ Len(frames[t]) = depth[t]
  BY <1>1, BodyFrames DEF StoresInPlace, InBody, Inv
<1>3. /\ Len(frames'[t]) = depth[t]
      /\ \A k \in Depths(t) : frames'[t][k].wrote = frames[t][k].wrote
  BY ReadFrames DEF Inv
<1> QED
  BY <1>1, <1>2, <1>3, SMTT(30) DEF Placed, Depths, WrittenBy

LEMMA RetryPlaced ==
  ASSUME Inv, FramesOK, NEW t \in Threads, HRetry(t)
  PROVE  Placed(t)'
<1>1. /\ depth[t] \in Nat /\ Len(frames[t]) = depth[t]
      /\ Len(frames'[t]) = depth[t] /\ frames'[t][depth[t]] = NewFrame
      /\ \A k \in 1 .. depth[t] - 1 : frames'[t][k] = frames[t][k]
  BY RetryFrames DEF Inv
<1>2. \A a \in Addrs : NewFrame.wrote[a] = NoEntry
  BY DEF NewFrame, EmptyLog
<1>3. WroteOutside(t) \subseteq lost'
  BY DEF HRetry
<1>4. ASSUME NEW a \in Addrs \ lost', NEW k \in 1 .. depth[t]
      PROVE  frames'[t][k].wrote[a] = NoEntry
  <2>1. CASE k = depth[t]
    BY <1>1, <1>2, <2>1
  <2>2. CASE k # depth[t]
    <3>1. k \in 1 .. depth[t] - 1
      BY <1>1, <2>2
    <3> QED
      BY <1>1, <1>3, <3>1 DEF WroteOutside
  <2> QED
    BY <2>1, <2>2
<1> QED
  BY <1>1, <1>4 DEF Placed, Depths

LEMMA SilentPlaced ==
  ASSUME LockPerWord, Inv, FramesOK, StoresInPlace, NEW t \in Threads,
         HSilent(t), InBody(t)'
  PROVE  Placed(t)'
<1>1. UNCHANGED hvars
  BY DEF HSilent
<1>2. CASE Quiet(t)
  BY <1>1, <1>2, QuietStep, PlacedFrame DEF Inv, StoresInPlace, WrittenBy
<1>3. ASSUME NEW a \in Addrs, NEW v \in Vals, OpenWrite(t, a, v)
      PROVE  Placed(t)'
  <2>1. UNCHANGED mem /\ pc[t] = "body" /\ mem[a] # NoEntry
    BY <1>3, NullAssumption DEF OpenWrite, Inv, TypeOK
  <2>2. \A b \in WrittenBy(t) : b \in WrittenBy(t)'
    BY <1>3, <2>1 DEF OpenWrite, OpenWriteHit, OpenWriteLog, WrittenBy, Inv,
                      TypeOK
  <2> QED
    BY <1>1, <2>1, <2>2, PlacedFrame DEF StoresInPlace, InBody, hvars
<1>4. ASSUME NEW a \in Addrs, Free(t, a)
      PROVE  Placed(t)'
  <2>1. UNCHANGED mem /\ pc[t] = "body"
    BY <1>4 DEF Free
  <2>2. \A b \in WrittenBy(t) : b \in WrittenBy(t)'
    BY <1>4, NullAssumption DEF Free, OpenWriteHit, OpenWriteLog, WrittenBy,
                                Inv, TypeOK
  <2> QED
    BY <1>1, <2>1, <2>2, PlacedFrame DEF StoresInPlace, InBody, hvars
<1>5. ASSUME NEW a \in Addrs, NEW v \in Vals, Alloc(t, a, v)
      PROVE  Placed(t)'
  <2>1. /\ UNCHANGED writeSet /\ pc[t] = "body" /\ a \in Heap \ live
        /\ \A b \in Addrs \ {a} : mem'[b] = mem[b]
    BY <1>5 DEF Alloc, Inv, TypeOK
  <2>2. a \notin WrittenBy(t)
    BY <2>1 DEF Inv, HInv, BlocksOwned
  <2>3. \A b \in WrittenBy(t) : b \in WrittenBy(t)' /\ mem'[b] = mem[b]
    BY <2>1, <2>2 DEF WrittenBy
  <2> QED
    BY <1>1, <2>1, <2>3, PlacedFrame DEF StoresInPlace, InBody, hvars
<1> QED
  BY <1>2, <1>3, <1>4, <1>5 DEF HSilent, Quiet

LEMMA StepPlaced ==
  ASSUME LockPerWord, Inv, FramesOK, StoresInPlace, NEW t \in Threads, HStep(t)
  PROVE  StoresInPlace'
<1> SUFFICES ASSUME NEW u \in Threads, InBody(u)' PROVE Placed(u)'
  BY DEF StoresInPlace
<1>1. CASE u # t
  BY <1>1, PlacedOthers
<1>2. CASE u = t
  <2>1. CASE HValidateOk(t) \/ HResetCommit(t) \/ \E a \in Addrs : HUndo(t, a)
    BY <1>2, <2>1 DEF HValidateOk, HResetCommit, HUndo, ValidateOk,
                      ResetCommit, Undo, Goto, Inv, TypeOK, InBody
  <2> QED
    BY <1>2, <2>1, BeginPlaced, MergePlaced, ReadPlaced, WritePlaced,
       RetryPlaced, SilentPlaced DEF HStep
<1> QED
  BY <1>1, <1>2

-----------------------------------------------------------------------------
(* What the read logs vouch for *)

\* validate() would accept what t has read of a.
Current(t, a) == a \in WrittenBy(t) \/ meta[LockOf[a]] = readSet[t][a]

\* A logged version is that of a free lock and never ahead of the lock's;
\* while the lock still has it, the word exists for everybody.
ReadLogOK(t) ==
    /\ \A a \in ReadBy(t) :
           /\ ~readSet[t][a].bit
           /\ readSet[t][a].ver <= meta[LockOf[a]].ver
           /\ readSet[t][a].ver = meta[LockOf[a]].ver /\ a \in Heap =>
                  /\ a \in live
                  /\ \A u \in Threads \ {t} : a \notin allocations[u]
    /\ pc[t] = "read" => target[t] \in ReadBy(t) \cup WrittenBy(t)

\* What a body has seen of a word is in its log, and is what is committed
\* there as long as validate() would accept it.
SeenOK(t) ==
    \A k \in Depths(t), a \in Addrs \ unguarded[t] :
        frames[t][k].seen[a] # {} =>
            /\ a \in ReadBy(t) \cup WrittenBy(t)
            /\ Current(t, a) /\ a \notin lost \cup allocations[t] =>
                   frames[t][k].seen[a] = {committed[a]}

ReadsGuarded ==
    \A t \in Threads :
        /\ pc[t] = "idle" => ReadBy(t) = {}
        /\ InBody(t) => ReadLogOK(t) /\ SeenOK(t)

\* With a lock per word, a step changes a word's lock in one of three ways:
\* it takes it, gives it back with another version, or rolls the word back.
LEMMA LockSteps ==
  ASSUME LockPerWord, Inv, NEW t \in Threads, HStep(t), NEW a \in Addrs
  PROVE  \/ meta'[LockOf[a]] = meta[LockOf[a]]
         \/ /\ meta'[LockOf[a]].bit
            /\ meta'[LockOf[a]].ver = meta[LockOf[a]].ver
         \/ meta'[LockOf[a]].ver = meta[LockOf[a]].ver + 1
         \/ /\ meta'[LockOf[a]].ver = meta[LockOf[a]].ver /\ HUndo(t, a)
<1>0. meta \in [Locks -> Word] /\ \A b \in Addrs : LockOf[b] \in Locks
  BY LockOfAssumption DEF Inv, TypeOK
<1>1. ASSUME NEW b \in Addrs, NEW v, OpenWriteHit(t, b) \/ OpenWriteLog(t, b, v)
      PROVE  \/ meta'[LockOf[a]] = meta[LockOf[a]]
             \/ /\ meta'[LockOf[a]].bit
                /\ meta'[LockOf[a]].ver = meta[LockOf[a]].ver
  BY <1>0, <1>1 DEF OpenWriteHit, OpenWriteLog, Word
<1>2. ASSUME NEW b \in Addrs, NEW v \in Vals, OpenWrite(t, b, v)
      PROVE  \/ meta'[LockOf[a]] = meta[LockOf[a]]
             \/ /\ meta'[LockOf[a]].bit
                /\ meta'[LockOf[a]].ver = meta[LockOf[a]].ver
  BY <1>1, <1>2 DEF OpenWrite
<1>3. ASSUME NEW b \in Addrs, Free(t, b)
      PROVE  \/ meta'[LockOf[a]] = meta[LockOf[a]]
             \/ /\ meta'[LockOf[a]].bit
                /\ meta'[LockOf[a]].ver = meta[LockOf[a]].ver
  BY <1>1, <1>3 DEF Free
<1>4. CASE HResetCommit(t)
  BY <1>0, <1>4 DEF HResetCommit, ResetCommit
<1>5. ASSUME NEW b \in Addrs, HUndo(t, b)
      PROVE  \/ meta'[LockOf[a]] = meta[LockOf[a]]
             \/ meta'[LockOf[a]].ver = meta[LockOf[a]].ver /\ HUndo(t, a)
  <2>1. CASE a = b
    BY <1>0, <1>5, <2>1 DEF HUndo, Undo, Word
  <2>2. CASE a # b
    BY <1>0, <1>5, <2>2 DEF HUndo, Undo, LockPerWord
  <2> QED
    BY <2>1, <2>2
<1>6. CASE \/ HBegin(t) \/ HCommitNested(t) \/ HReadValue(t)
           \/ HWriteValue(t) \/ HValidateOk(t) \/ HRetry(t)
  BY <1>6 DEF HBegin, HCommitNested, HReadValue, HWriteValue, HValidateOk,
              HRetry, Begin, BeginNested, CommitNested, ReadValue, WriteValue,
              ValidateOk, Retry, shared
<1>7. CASE HSilent(t)
  BY <1>2, <1>3, <1>7 DEF HSilent, Abort, AllocFails, ValidateFails, ResetAbort,
              OpenRead, LoadRefused, StoreRefused, FreeRefused, Alloc, Throw,
              shared
<1> QED
  BY <1>4, <1>5, <1>6, <1>7 DEF HStep

\* A block that everybody may use is not taken away while its lock keeps its
\* version.
LEMMA LiveKept ==
  ASSUME LockPerWord, Inv, NEW t \in Threads, HStep(t), NEW a \in Heap,
         a \in live, a \notin allocations[t],
         meta'[LockOf[a]].ver = meta[LockOf[a]].ver
  PROVE  a \in live' /\ a \notin allocations'[t]
<1>1. CASE ResetCommit(t)
  <2>1. a \in Addrs /\ LockOf[a] \in Locks /\ meta[LockOf[a]].ver \in Nat
    BY HeapAssumption, LockOfAssumption DEF Inv, TypeOK, Word
  <2>2. ~Owns(t, LockOf[a])
    BY <1>1, <2>1 DEF ResetCommit
  <2>3. a \notin WrittenBy(t)
    BY <2>2 DEF Owns
  <2>4. a \notin frees[t]
    BY <1>1, <2>3 DEF ResetCommit, Inv, HInv, BlocksOwned, Validated
  <2> QED
    BY <1>1, <2>4 DEF ResetCommit, Release, ClearLogs, Inv, TypeOK
<1>2. CASE Retry(t)
  BY <1>2 DEF Retry, Release, ClearLogs, Inv, TypeOK
<1>3. ASSUME NEW b \in Addrs, NEW v \in Vals, Alloc(t, b, v)
      PROVE  a \in live' /\ a \notin allocations'[t]
  BY <1>3 DEF Alloc, Inv, TypeOK
<1> QED
  BY <1>1, <1>2, <1>3, WatchedStep
  DEF Step, Begin, BeginNested, CommitNested, Abort, Throw, OpenRead,
      LoadRefused, ReadValue, OpenWrite, StoreRefused, WriteValue, AllocFails,
      Free, FreeRefused, ValidateOk, ValidateFails, ResetAbort, Undo, shared,
      logs

\* A commit changes the words the transaction logged or allocated only.
LEMMA CommittedKept ==
  ASSUME Inv, FramesOK, StoresInPlace, NEW t \in Threads, HStep(t),
         NEW a \in Addrs \ lost, a \notin WrittenBy(t), a \notin allocations[t]
  PROVE  committed'[a] = committed[a]
<1>1. CASE HValidateOk(t)
  <2>1. pc[t] = "body" /\ depth[t] = 1
    BY <1>1 DEF HValidateOk, ValidateOk
  <2>2. Len(frames[t]) = 1
    BY <2>1, BodyFrames DEF Inv
  <2>3. Top(t) = frames[t][1] /\ Depths(t) = 1 .. 1 /\ 1 \in 1 .. 1
    BY <2>2 DEF Top, Depths
  <2>4. Top(t).wrote[a] = NoEntry
    BY <2>1, <2>3 DEF StoresInPlace, Placed, InBody
  <2> QED
    BY <1>1, <2>4 DEF HValidateOk
<1> QED
  BY <1>1 DEF HStep, HBegin, HCommitNested, HReadValue, HWriteValue,
              HResetCommit, HUndo, HRetry, HSilent, hvars

\* A step leaves the read logs of the other threads alone, and vouches for
\* no more of their words.
LEMMA OthersReads ==
  ASSUME Inv, FramesOK, NEW t \in Threads, HStep(t), NEW u \in Threads \ {t}
  PROVE  readSet'[u] = readSet[u] /\ unguarded[u] \subseteq unguarded'[u]
<1>1. readSet'[u] = readSet[u]
  BY StepOthers, WatchedStep DEF OthersUntouched, Inv
<1>2. unguarded[u] \subseteq unguarded'[u]
  BY DEF HStep, HBegin, HCommitNested, HReadValue, HWriteValue, HValidateOk,
         HResetCommit, HUndo, HRetry, HSilent, hvars, FramesOK, HTypeOK
<1> QED
  BY <1>1, <1>2

\* A reader is not deceived by a step of another thread.
LEMMA GuardedOthers ==
  ASSUME LockPerWord, Inv, FramesOK, StoresInPlace, ReadsGuarded,
         NEW t \in Threads, HStep(t), NEW u \in Threads \ {t}, InBody(u)'
  PROVE  ReadLogOK(u)' /\ SeenOK(u)'
<1>1. /\ readSet'[u] = readSet[u] /\ writeSet'[u] = writeSet[u]
      /\ frames'[u] = frames[u] /\ allocations'[u] = allocations[u]
      /\ pc'[u] = pc[u] /\ target'[u] = target[u] /\ InBody(u)
      /\ unguarded[u] \subseteq unguarded'[u] /\ lost \subseteq lost'
  BY OthersReads, OthersFrames, LostGrows, StepOthers, WatchedStep
  DEF OthersUntouched, Inv, InBody
<1>2. ReadBy(u)' = ReadBy(u) /\ WrittenBy(u)' = WrittenBy(u)
  BY <1>1 DEF ReadBy, WrittenBy
<1>3. ReadLogOK(u) /\ SeenOK(u)
  BY <1>1 DEF ReadsGuarded
<1>4. ASSUME NEW a \in Addrs
      PROVE  /\ meta[LockOf[a]] \in Word /\ meta'[LockOf[a]] \in Word
             /\ meta[LockOf[a]].ver \in Nat /\ meta'[LockOf[a]].ver \in Nat
             /\ meta[LockOf[a]].ver <= meta'[LockOf[a]].ver
  <2>1. /\ meta[LockOf[a]] \in Word /\ meta'[LockOf[a]] \in Word
        /\ meta[LockOf[a]].ver \in Nat /\ meta'[LockOf[a]].ver \in Nat
    BY StepTypeOK, WatchedStep, LockOfAssumption DEF Inv, TypeOK, Word
  <2> QED
    BY <2>1, LockSteps
<1>5. \A a \in ReadBy(u) : a \in Addrs /\ readSet[u][a] \in Word
                           /\ readSet[u][a].ver \in Nat
  BY DEF ReadBy, Inv, TypeOK, Word
<1>6. ReadLogOK(u)'
  <2>1. ASSUME NEW a \in ReadBy(u)
        PROVE  /\ ~readSet'[u][a].bit
               /\ readSet'[u][a].ver <= meta'[LockOf[a]].ver
               /\ readSet'[u][a].ver = meta'[LockOf[a]].ver /\ a \in Heap =>
                      /\ a \in live'
                      /\ \A w \in Threads \ {u} : a \notin allocations'[w]
    <3>1. ~readSet[u][a].bit /\ readSet[u][a].ver <= meta[LockOf[a]].ver
      BY <1>3 DEF ReadLogOK
    <3>2. readSet[u][a].ver <= meta'[LockOf[a]].ver
      BY <1>4, <1>5, <3>1
    <3>3. ASSUME readSet[u][a].ver = meta'[LockOf[a]].ver, a \in Heap
          PROVE  /\ a \in live'
                 /\ \A w \in Threads \ {u} : a \notin allocations'[w]
      <4>1. /\ readSet[u][a].ver = meta[LockOf[a]].ver
            /\ meta'[LockOf[a]].ver = meta[LockOf[a]].ver
        BY <1>4, <1>5, <3>1, <3>3
      <4>2. a \in live /\ \A w \in Threads \ {u} : a \notin allocations[w]
        BY <1>3, <3>3, <4>1 DEF ReadLogOK
      <4>3. a \in live' /\ a \notin allocations'[t]
        BY <3>3, <4>1, <4>2, LiveKept
      <4>4. \A w \in Threads \ {t} : allocations'[w] = allocations[w]
        BY StepOthers, WatchedStep DEF OthersUntouched, Inv
      <4> QED
        BY <4>2, <4>3, <4>4
    <3> QED
      BY <1>1, <3>1, <3>2, <3>3
  <2> QED
    BY <1>1, <1>2, <1>3, <2>1 DEF ReadLogOK
<1>7. SeenOK(u)'
  <2> SUFFICES ASSUME NEW k \in Depths(u), NEW a \in Addrs \ unguarded'[u],
                      frames[u][k].seen[a] # {}
               PROVE  /\ a \in ReadBy(u) \cup WrittenBy(u)
                      /\ Current(u, a)' /\ a \notin lost' \cup allocations[u] =>
                             frames[u][k].seen[a] = {committed'[a]}
    BY <1>1, <1>2 DEF SeenOK, Depths
  <2>1. /\ a \in ReadBy(u) \cup WrittenBy(u)
        /\ Current(u, a) /\ a \notin lost \cup allocations[u] =>
               frames[u][k].seen[a] = {committed[a]}
    BY <1>1, <1>3 DEF SeenOK
  <2> SUFFICES ASSUME Current(u, a)', a \notin lost' \cup allocations[u]
               PROVE  Current(u, a) /\ committed'[a] = committed[a]
    BY <1>1, <2>1
  <2>2. a \in Addrs \ lost
    BY <1>1
  <2>3. CASE a \in WrittenBy(u)
    <3>1. a \notin WrittenBy(t)
      BY <2>3 DEF Inv, LocksMatchLogs, LogsDisjoint
    <3>2. a \notin allocations[t]
      BY <2>3 DEF Inv, HInv, BlocksOwned, TypeOK
    <3> QED
      BY <2>2, <2>3, <3>1, <3>2, CommittedKept DEF Current
  <2>4. CASE a \notin WrittenBy(u)
    <3>1. meta'[LockOf[a]] = readSet[u][a]
      BY <1>1, <1>2, <2>4 DEF Current
    <3>2. a \in ReadBy(u)
      BY <2>1, <2>4
    <3>3. ~HUndo(t, a)
      BY <3>2 DEF HUndo, FramesOK, HTypeOK
    <3>4. ~readSet[u][a].bit /\ readSet[u][a].ver <= meta[LockOf[a]].ver
      BY <1>3, <3>2 DEF ReadLogOK
    <3>5. meta[LockOf[a]] = readSet[u][a]
      BY <1>4, <1>5, <3>1, <3>2, <3>3, <3>4, LockSteps
    <3>6. a \notin WrittenBy(t)
      BY <3>4, <3>5, FreeLockNobody DEF Inv
    <3>7. a \notin allocations[t]
      BY <1>3, <3>2, <3>5 DEF ReadLogOK, Inv, TypeOK
    <3> QED
      BY <2>2, <3>5, <3>6, <3>7, CommittedKept DEF Current
  <2> QED
    BY <2>3, <2>4
<1> QED
  BY <1>6, <1>7

\* A body that has just begun has read nothing.
LEMMA BeginGuarded ==
  ASSUME Inv, FramesOK, ReadsGuarded, NEW t \in Threads, HBegin(t)
  PROVE  ReadLogOK(t)' /\ SeenOK(t)'
<1>1. /\ pc[t] \in {"idle", "body"} /\ pc'[t] = "body" /\ depth[t] \in Nat
      /\ UNCHANGED <<meta, live, readSet, writeSet, allocations, unguarded,
                     lost, committed>>
  BY DEF HBegin, Begin, BeginNested, Goto, shared, logs, Inv, TypeOK
<1>2. /\ Len(frames[t]) = depth[t] /\ Len(frames'[t]) = depth[t] + 1
      /\ \A k \in 1 .. depth[t] : frames'[t][k] = frames[t][k]
      /\ frames'[t][depth[t] + 1] = NewFrame
  BY BeginFrames DEF Inv, Depths
<1>3. ReadLogOK(t)'
  <2>1. CASE pc[t] = "idle"
    BY <1>1, <2>1 DEF ReadsGuarded, ReadLogOK, ReadBy
  <2>2. CASE pc[t] = "body"
    BY <1>1, <2>2 DEF ReadsGuarded, InBody, ReadLogOK, ReadBy
  <2> QED
    BY <1>1, <2>1, <2>2
<1>4. SeenOK(t)'
  <2> SUFFICES ASSUME NEW k \in 1 .. depth[t] + 1,
                      NEW a \in Addrs \ unguarded[t],
                      frames'[t][k].seen[a] # {}
               PROVE  /\ a \in ReadBy(t) \cup WrittenBy(t)
                      /\ Current(t, a) /\ a \notin lost \cup allocations[t] =>
                             frames'[t][k].seen[a] = {committed[a]}
    BY <1>1, <1>2 DEF SeenOK, Depths, ReadBy, WrittenBy, Current
  <2>1. NewFrame.seen[a] = {}
    BY DEF NewFrame
  <2>2. k \in 1 .. depth[t] /\ frames'[t][k] = frames[t][k]
    BY <1>1, <1>2, <2>1
  <2>3. pc[t] = "body"
    BY <1>1, <2>2 DEF Inv, TypeOK
  <2> QED
    BY <1>2, <2>2, <2>3 DEF ReadsGuarded, InBody, SeenOK, Depths
<1> QED
  BY <1>3, <1>4

LEMMA MergeGuarded ==
  ASSUME Inv, FramesOK, ReadsGuarded, NEW t \in Threads, HCommitNested(t)
  PROVE  ReadLogOK(t)' /\ SeenOK(t)'
<1>1. /\ pc[t] = "body"
      /\ UNCHANGED <<meta, live, readSet, writeSet, allocations, unguarded,
                     lost, committed, pc, target>>
  BY DEF HCommitNested, CommitNested, shared, logs
<1>2. ReadLogOK(t) /\ SeenOK(t)
  BY <1>1 DEF ReadsGuarded, InBody
<1>3. ReadLogOK(t)'
  BY <1>1, <1>2 DEF ReadLogOK, ReadBy, WrittenBy
<1> DEFINE d == depth[t]
<1>4. /\ Len(frames[t]) = d /\ d \in Nat /\ d > 1
      /\ Len(frames'[t]) = d - 1
      /\ \A k \in 1 .. d - 2 : frames'[t][k] = frames[t][k]
      /\ frames'[t][d - 1] = Merged(frames[t][d - 1], frames[t][d])
  BY MergeFrames DEF Inv
<1> HIDE DEF d
<1>5. SeenOK(t)'
  <2> SUFFICES ASSUME NEW k \in 1 .. d - 1, NEW a \in Addrs \ unguarded[t],
                      frames'[t][k].seen[a] # {}
               PROVE  /\ a \in ReadBy(t) \cup WrittenBy(t)
                      /\ Current(t, a) /\ a \notin lost \cup allocations[t] =>
                             frames'[t][k].seen[a] = {committed[a]}
    BY <1>1, <1>4 DEF SeenOK, Depths, ReadBy, WrittenBy, Current
  <2>1. \A i \in 1 .. d : frames[t][i].seen[a] # {} =>
            /\ a \in ReadBy(t) \cup WrittenBy(t)
            /\ Current(t, a) /\ a \notin lost \cup allocations[t] =>
                   frames[t][i].seen[a] = {committed[a]}
    BY <1>2, <1>4 DEF SeenOK, Depths
  <2>2. CASE k = d - 1
    <3>1. frames'[t][k].seen[a] =
              frames[t][d - 1].seen[a] \cup frames[t][d].seen[a]
      BY <1>4, <2>2 DEF Merged
    <3>2. d \in 1 .. d /\ d - 1 \in 1 .. d
      BY <1>4
    <3> QED
      BY <2>1, <3>1, <3>2
  <2>3. CASE k # d - 1
    <3>1. k \in 1 .. d - 2 /\ k \in 1 .. d
      BY <1>4, <2>3
    <3> QED
      BY <1>4, <2>1, <3>1
  <2> QED
    BY <2>2, <2>3
<1> QED
  BY <1>3, <1>5

\* What TxLoad returns is committed, or validate() will refuse it, or it is
\* one of the words the read log does not vouch for.
LEMMA ReadGuarded ==
  ASSUME LockPerWord, Inv, FramesOK, ValuesKept, ReadsGuarded,
         NEW t \in Threads, HReadValue(t)
  PROVE  ReadLogOK(t)' /\ SeenOK(t)'
<1>1. /\ pc[t] = "read" /\ pc'[t] = "body" /\ target[t] \in Addrs
      /\ UNCHANGED <<meta, live, readSet, writeSet, allocations, unguarded,
                     lost, committed>>
  BY DEF HReadValue, ReadValue, Goto, shared, logs, Inv, TypeOK
<1>2. InBody(t) /\ ReadLogOK(t) /\ SeenOK(t)
  BY <1>1 DEF ReadsGuarded, InBody
<1>3. ReadLogOK(t)'
  BY <1>1, <1>2 DEF ReadLogOK, ReadBy
<1>4. SeenOK(t)'
  <2>1. Len(frames'[t]) = Len(frames[t])
    BY <1>1, ReadFrames, BodyFrames DEF Inv
  <2> SUFFICES ASSUME NEW k \in Depths(t), NEW a \in Addrs \ unguarded[t],
                      frames'[t][k].seen[a] # {}
               PROVE  /\ a \in ReadBy(t) \cup WrittenBy(t)
                      /\ Current(t, a) /\ a \notin lost \cup allocations[t] =>
                             frames'[t][k].seen[a] = {committed[a]}
    BY <1>1, <2>1 DEF SeenOK, Depths, ReadBy, WrittenBy, Current
  <2>2. CASE frames'[t][k].seen[a] = frames[t][k].seen[a]
    BY <1>2, <2>2 DEF SeenOK
  <2>3. CASE /\ a = target[t] /\ ~WroteItself(t, a)
             /\ frames'[t][k].seen[a] = frames[t][k].seen[a] \cup {mem[a]}
    <3>1. a \in ReadBy(t) \cup WrittenBy(t)
      BY <1>1, <1>2, <2>3 DEF ReadLogOK
    <3>2. ASSUME Current(t, a), a \notin lost \cup allocations[t]
          PROVE  mem[a] = committed[a]
      <4>1. CASE a \in WrittenBy(t)
        <5>1. Known(a)
          BY <1>2, <3>2, <4>1, HeapAssumption
          DEF Inv, HInv, BlocksOwned, TypeOK, Known, Existing, Fresh
        <5> QED
          BY <1>1, <1>2, <2>3, <4>1, <5>1
          DEF ValuesKept, KeptAt, Validated
      <4>2. CASE a \notin WrittenBy(t)
        <5>1. a \in ReadBy(t) /\ meta[LockOf[a]] = readSet[t][a]
          BY <3>1, <3>2, <4>2 DEF Current
        <5>2. \A u \in Threads : a \notin WrittenBy(u)
          BY <1>2, <5>1, FreeLockNobody DEF ReadLogOK, Inv
        <5>3. Known(a)
          BY <1>2, <3>2, <5>1
          DEF ReadLogOK, Inv, TypeOK, Known, Existing, Fresh
        <5> QED
          BY <5>2, <5>3 DEF ValuesKept, KeptAt
      <4> QED
        BY <4>1, <4>2
    <3>3. Current(t, a) /\ a \notin lost \cup allocations[t] =>
              frames[t][k].seen[a] \subseteq {committed[a]}
      BY <1>2 DEF SeenOK
    <3> QED
      BY <2>3, <3>1, <3>2, <3>3
  <2>4. \/ frames'[t][k].seen[a] = frames[t][k].seen[a]
        \/ /\ a = target[t] /\ ~WroteItself(t, a)
           /\ frames'[t][k].seen[a] = frames[t][k].seen[a] \cup {mem[a]}
    BY ReadFrames DEF Inv
  <2> QED
    BY <2>2, <2>3, <2>4
<1> QED
  BY <1>3, <1>4

LEMMA WriteGuarded ==
  ASSUME Inv, FramesOK, ReadsGuarded, NEW t \in Threads, HWriteValue(t)
  PROVE  ReadLogOK(t)' /\ SeenOK(t)'
<1>1. /\ pc[t] = "write" /\ pc'[t] = "body"
      /\ UNCHANGED <<meta, live, readSet, writeSet, allocations, unguarded,
                     lost, committed>>
  BY DEF HWriteValue, WriteValue, Goto, logs, Inv, TypeOK
<1>2. ReadLogOK(t) /\ SeenOK(t)
  BY <1>1 DEF ReadsGuarded, InBody
<1>3. /\ Len(frames'[t]) = Len(frames[t])
      /\ \A k \in Depths(t) : frames'[t][k].seen = frames[t][k].seen
  BY <1>1, WriteFrames, BodyFrames DEF Inv
<1> QED
  BY <1>1, <1>2, <1>3
  DEF ReadLogOK, SeenOK, Depths, ReadBy, WrittenBy, Current

\* Nothing of what an enclosing body has seen is vouched for any more.
LEMMA RetryGuarded ==
  ASSUME Inv, FramesOK, NEW t \in Threads, HRetry(t)
  PROVE  ReadLogOK(t)' /\ SeenOK(t)'
<1>1. /\ pc'[t] = "body" /\ readSet'[t] = EmptyLog
      /\ unguarded'[t] = SeenOutside(t)
  BY DEF HRetry, Retry, ClearLogs, Goto, Inv, TypeOK, FramesOK, HTypeOK
<1>2. /\ depth[t] \in Nat /\ Len(frames[t]) = depth[t]
      /\ Len(frames'[t]) = depth[t] /\ frames'[t][depth[t]] = NewFrame
      /\ \A k \in 1 .. depth[t] - 1 : frames'[t][k] = frames[t][k]
  BY RetryFrames DEF Inv
<1>3. ReadLogOK(t)'
  BY <1>1 DEF ReadLogOK, ReadBy, EmptyLog
<1>4. ASSUME NEW k \in 1 .. depth[t], NEW a \in Addrs \ unguarded'[t]
      PROVE  frames'[t][k].seen[a] = {}
  <2>1. CASE k = depth[t]
    BY <1>2, <2>1 DEF NewFrame
  <2>2. CASE k # depth[t]
    <3>1. k \in 1 .. depth[t] - 1
      BY <1>2, <2>2
    <3> QED
      BY <1>1, <1>2, <3>1 DEF SeenOutside
  <2> QED
    BY <2>1, <2>2
<1>5. SeenOK(t)'
  BY <1>2, <1>4 DEF SeenOK, Depths
<1> QED
  BY <1>3, <1>5

\* open_for_read logs the version of a free lock, or the word is logged.
LEMMA OpenReadGuarded ==
  ASSUME LockPerWord, Inv, FramesOK, ReadsGuarded, NEW t \in Threads,
         NEW a \in Addrs, OpenRead(t, a), UNCHANGED hvars
  PROVE  ReadLogOK(t)' /\ SeenOK(t)'
<1>1. /\ pc[t] = "body" /\ target'[t] = a /\ Usable(t, a)
      /\ UNCHANGED <<meta, live, writeSet, allocations, frames, unguarded,
                     lost, committed>>
  BY DEF OpenRead, shared, hvars, Inv, TypeOK
<1>2. ReadLogOK(t) /\ SeenOK(t)
  BY <1>1 DEF ReadsGuarded, InBody
<1>3. meta[LockOf[a]] \in Word /\ meta[LockOf[a]].ver \in Nat
  BY LockOfAssumption DEF Inv, TypeOK, Word
<1>4. CASE OpenReadHit(t, a)
  <2>1. a \in ReadBy(t) \cup WrittenBy(t) /\ readSet' = readSet
    BY <1>4 DEF OpenReadHit
  <2> QED
    BY <1>1, <1>2, <2>1
    DEF ReadLogOK, SeenOK, Depths, ReadBy, WrittenBy, Current
<1>5. CASE OpenReadLog(t, a)
  <2>1. /\ a \notin ReadBy(t) /\ a \notin WrittenBy(t)
        /\ \A b \in Addrs : readSet'[t][b] =
               IF b = a THEN meta[LockOf[a]] ELSE readSet[t][b]
        /\ ~meta[LockOf[a]].bit
    BY <1>5, OwnsIsLogged DEF OpenReadLog, Inv, TypeOK
  <2>2. ReadBy(t)' = ReadBy(t) \cup {a} /\ WrittenBy(t)' = WrittenBy(t)
    BY <1>1, <1>3, <2>1, NoEntryAssumption DEF ReadBy, WrittenBy
  <2>3. a \in Heap =>
            a \in live /\ \A u \in Threads \ {t} : a \notin allocations[u]
    BY <1>1 DEF Usable
  <2>4. ReadLogOK(t)'
    <3>1. ASSUME NEW b \in ReadBy(t)'
          PROVE  /\ ~readSet'[t][b].bit
                 /\ readSet'[t][b].ver <= meta[LockOf[b]].ver
                 /\ readSet'[t][b].ver = meta[LockOf[b]].ver /\ b \in Heap =>
                        /\ b \in live
                        /\ \A u \in Threads \ {t} : b \notin allocations[u]
      <4>1. CASE b = a
        BY <1>3, <2>1, <2>3, <4>1
      <4>2. CASE b # a
        <5>1. b \in ReadBy(t) /\ readSet'[t][b] = readSet[t][b]
          BY <2>1, <2>2, <4>2 DEF ReadBy
        <5> QED
          BY <1>2, <5>1 DEF ReadLogOK
      <4> QED
        BY <4>1, <4>2
    <3> QED
      BY <1>1, <2>2, <3>1 DEF ReadLogOK
  <2>5. SeenOK(t)'
    <3> SUFFICES ASSUME NEW k \in Depths(t), NEW b \in Addrs \ unguarded[t],
                        frames[t][k].seen[b] # {}
                 PROVE  /\ b \in ReadBy(t)' \cup WrittenBy(t)
                        /\ Current(t, b)' /\ b \notin lost \cup allocations[t]
                               => frames[t][k].seen[b] = {committed[b]}
      BY <1>1, <2>2 DEF SeenOK, Depths
    <3>1. /\ b \in ReadBy(t) \cup WrittenBy(t)
          /\ Current(t, b) /\ b \notin lost \cup allocations[t] =>
                 frames[t][k].seen[b] = {committed[b]}
      BY <1>2 DEF SeenOK
    <3>2. b # a
      BY <2>1, <3>1
    <3>3. Current(t, b)' <=> Current(t, b)
      BY <1>1, <2>1, <2>2, <3>2 DEF Current
    <3> QED
      BY <2>2, <3>1, <3>3
  <2> QED
    BY <2>4, <2>5
<1> QED
  BY <1>4, <1>5 DEF OpenRead

\* A word t takes the lock of after it has read it still has the version
\* that was logged.
LEMMA TakeGuarded ==
  ASSUME LockPerWord, Inv, NEW t \in Threads, ReadLogOK(t), SeenOK(t),
         NEW a \in Addrs, NEW saved \in Vals \cup {NoVal},
         OpenWriteHit(t, a) \/ OpenWriteLog(t, a, saved),
         UNCHANGED <<live, readSet, allocations, hvars>>, pc'[t] # "read"
  PROVE  ReadLogOK(t)' /\ SeenOK(t)'
<1>1. UNCHANGED <<frames, unguarded, lost, committed>>
  BY DEF hvars
<1>2. ReadBy(t)' = ReadBy(t)
  BY DEF ReadBy
<1>3. CASE OpenWriteHit(t, a)
  BY <1>1, <1>2, <1>3
  DEF OpenWriteHit, ReadLogOK, SeenOK, Depths, WrittenBy, Current
<1>4. CASE OpenWriteLog(t, a, saved)
  <2>1. WrittenBy(t)' = WrittenBy(t) \cup {a} /\ a \notin WrittenBy(t)
    BY <1>4, NullAssumption DEF OpenWriteLog, WrittenBy, Inv, TypeOK
  <2>2. \A b \in Addrs : /\ meta'[LockOf[b]].ver = meta[LockOf[b]].ver
                         /\ b # a => meta'[LockOf[b]] = meta[LockOf[b]]
    BY <1>4, LockOfAssumption
    DEF OpenWriteLog, LockPerWord, Inv, TypeOK, Word
  <2>3. ReadLogOK(t)'
    BY <1>2, <2>2 DEF ReadLogOK, ReadBy
  <2>4. SeenOK(t)'
    <3> SUFFICES ASSUME NEW k \in Depths(t), NEW b \in Addrs \ unguarded[t],
                        frames[t][k].seen[b] # {}
                 PROVE  /\ b \in ReadBy(t) \cup WrittenBy(t)'
                        /\ Current(t, b)' /\ b \notin lost \cup allocations[t]
                               => frames[t][k].seen[b] = {committed[b]}
      BY <1>1, <1>2 DEF SeenOK, Depths
    <3>1. /\ b \in ReadBy(t) \cup WrittenBy(t)
          /\ Current(t, b) /\ b \notin lost \cup allocations[t] =>
                 frames[t][k].seen[b] = {committed[b]}
      BY DEF SeenOK
    <3>2. CASE b = a
      BY <1>4, <2>1, <3>1, <3>2 DEF OpenWriteLog, VersionOk, Current
    <3>3. CASE b # a
      BY <2>1, <2>2, <3>1, <3>3 DEF Current
    <3> QED
      BY <3>2, <3>3
  <2> QED
    BY <2>3, <2>4
<1> QED
  BY <1>3, <1>4

LEMMA AllocGuarded ==
  ASSUME Inv, FramesOK, ReadsGuarded, NEW t \in Threads,
         NEW a \in Addrs, NEW v \in Vals, Alloc(t, a, v), UNCHANGED hvars
  PROVE  ReadLogOK(t)' /\ SeenOK(t)'
<1>1. /\ pc[t] = "body" /\ live \subseteq live'
      /\ \A u \in Threads \ {t} : allocations'[u] = allocations[u]
      /\ allocations[t] \subseteq allocations'[t]
      /\ UNCHANGED <<meta, pc, target, readSet, writeSet, frames, unguarded,
                     lost, committed>>
  BY DEF Alloc, hvars, Inv, TypeOK
<1>2. ReadLogOK(t) /\ SeenOK(t)
  BY <1>1 DEF ReadsGuarded, InBody
<1>3. ReadLogOK(t)'
  BY <1>1, <1>2 DEF ReadLogOK, ReadBy, WrittenBy
<1>4. SeenOK(t)'
  BY <1>1, <1>2 DEF SeenOK, Depths, ReadBy, WrittenBy, Current
<1> QED
  BY <1>3, <1>4

LEMMA SilentGuarded ==
  ASSUME LockPerWord, Inv, FramesOK, ReadsGuarded, NEW t \in Threads,
         HSilent(t), InBody(t)'
  PROVE  ReadLogOK(t)' /\ SeenOK(t)'
<1>1. UNCHANGED hvars
  BY DEF HSilent
<1>2. ASSUME NEW a \in Addrs, NEW v \in Vals, OpenWrite(t, a, v)
      PROVE  ReadLogOK(t)' /\ SeenOK(t)'
  <2>1. /\ pc[t] = "body" /\ pc'[t] = "write" /\ mem[a] \in Vals
        /\ OpenWriteHit(t, a) \/ OpenWriteLog(t, a, mem[a])
        /\ UNCHANGED <<live, readSet, allocations>>
    BY <1>2 DEF OpenWrite, Goto, Inv, TypeOK
  <2> QED
    BY <1>1, <2>1, TakeGuarded DEF ReadsGuarded, InBody
<1>3. ASSUME NEW a \in Addrs, Free(t, a)
      PROVE  ReadLogOK(t)' /\ SeenOK(t)'
  <2>1. /\ pc[t] = "body" /\ pc'[t] = "body"
        /\ OpenWriteHit(t, a) \/ OpenWriteLog(t, a, NoVal)
        /\ UNCHANGED <<live, readSet, allocations>>
    BY <1>3 DEF Free
  <2> QED
    BY <1>1, <2>1, TakeGuarded DEF ReadsGuarded, InBody
<1>4. CASE \/ Abort(t) \/ AllocFails(t) \/ ValidateFails(t) \/ ResetAbort(t)
           \/ \E a \in Addrs :
                  LoadRefused(t, a) \/ StoreRefused(t, a) \/ FreeRefused(t, a)
  BY <1>4 DEF Abort, AllocFails, ValidateFails, ResetAbort, LoadRefused,
              StoreRefused, FreeRefused, Throw, Goto, Inv, TypeOK, InBody
<1> QED
  BY <1>1, <1>2, <1>3, <1>4, OpenReadGuarded, AllocGuarded DEF HSilent

LEMMA StepGuarded ==
  ASSUME LockPerWord, Inv, FramesOK, ValuesKept, StoresInPlace, ReadsGuarded,
         NEW t \in Threads, HStep(t)
  PROVE  ReadsGuarded'
<1>1. ASSUME NEW u \in Threads, pc'[u] = "idle"
      PROVE  ReadBy(u)' = {}
  <2>1. CASE u = t /\ HResetCommit(t)
    BY <2>1 DEF HResetCommit, ResetCommit, ClearLogs, EmptyLog, ReadBy, Inv,
                TypeOK
  <2>2. CASE u = t /\ ~HResetCommit(t)
    <3>1. UNCHANGED readSet /\ pc[t] = "idle"
      BY <1>1, <2>2, ZenonT(60)
      DEF HStep, HBegin, HCommitNested, HReadValue, HWriteValue, HValidateOk,
          HUndo, HRetry, HSilent, Begin, BeginNested, CommitNested, Abort,
          Throw, OpenRead, LoadRefused, ReadValue, OpenWrite, StoreRefused,
          WriteValue, Alloc, AllocFails, Free, FreeRefused, ValidateOk,
          ValidateFails, ResetAbort, Undo, Retry, Goto, Inv, TypeOK
    <3> QED
      BY <2>2, <3>1 DEF ReadsGuarded, ReadBy
  <2>3. CASE u # t
    BY <1>1, <2>3, OthersReads, StepOthers, WatchedStep
    DEF OthersUntouched, Inv, ReadsGuarded, ReadBy
  <2> QED
    BY <2>1, <2>2, <2>3
<1>2. ASSUME NEW u \in Threads, InBody(u)'
      PROVE  ReadLogOK(u)' /\ SeenOK(u)'
  <2>1. CASE u # t
    BY <1>2, <2>1, GuardedOthers
  <2>2. CASE u = t
    <3>1. CASE HValidateOk(t) \/ HResetCommit(t) \/ \E a \in Addrs : HUndo(t, a)
      BY <1>2, <2>2, <3>1
      DEF HValidateOk, HResetCommit, HUndo, ValidateOk, ResetCommit, Undo,
          Goto, Inv, TypeOK, InBody
    <3> QED
      BY <1>2, <2>2, <3>1, BeginGuarded, MergeGuarded, ReadGuarded,
         WriteGuarded, RetryGuarded, SilentGuarded DEF HStep
  <2> QED
    BY <2>1, <2>2
<1> QED
  BY <1>1, <1>2 DEF ReadsGuarded

-----------------------------------------------------------------------------
(* The theorems *)

HistoryInv == Inv /\ FramesOK /\ ValuesKept /\ StoresInPlace /\ ReadsGuarded

\* At first nothing is logged, and memory is what is committed.
LEMMA InitHistory == HInit => HistoryInv
<1> SUFFICES ASSUME HInit PROVE HistoryInv
  OBVIOUS
<1>1. Inv /\ FramesOK
  BY InitTypeOK, InitLocks, InitHInv, InitFrames DEF Inv, HInit
<1>2. /\ mem = committed
      /\ \A t \in Threads :
             pc[t] = "idle" /\ WrittenBy(t) = {} /\ ReadBy(t) = {}
  BY DEF HInit, Init, WrittenBy, ReadBy, EmptyLog
<1>3. ValuesKept
  BY <1>2 DEF ValuesKept, KeptAt
<1>4. StoresInPlace /\ ReadsGuarded
  BY <1>2 DEF StoresInPlace, ReadsGuarded, InBody
<1> QED
  BY <1>1, <1>3, <1>4 DEF HistoryInv

\* Standing still keeps it.
LEMMA UnchangedHistory ==
  ASSUME HistoryInv, UNCHANGED <<vars, hvars>>
  PROVE  FramesOK' /\ ValuesKept' /\ StoresInPlace' /\ ReadsGuarded'
<1>1. FramesOK'
  BY DEF HistoryInv, FramesOK, HTypeOK, vars, hvars
<1>2. UNCHANGED <<mem, live, writeSet, allocations, lost, committed, frames,
                  pc, meta, readSet, target, unguarded>>
  BY DEF vars, shared, logs, hvars
<1>3. ValuesKept'
  <2>1. \A u \in Threads, a \in Addrs : WroteItself(u, a)' <=> WroteItself(u, a)
    BY <1>2 DEF WroteItself
  <2>2. \A u \in Threads :
            (Validated(u)' <=> Validated(u)) /\ (InBody(u)' => InBody(u))
    BY <1>2 DEF Validated, InBody
  <2> QED
    BY <1>2, <2>1, <2>2, QuietKept DEF HistoryInv, WrittenBy
<1>4. StoresInPlace'
  BY <1>2 DEF HistoryInv, StoresInPlace, Placed, Depths, InBody, WrittenBy
<1>5. ReadsGuarded'
  BY <1>2 DEF HistoryInv, ReadsGuarded, ReadLogOK, SeenOK, Depths, InBody,
              WrittenBy, ReadBy, Current
<1> QED
  BY <1>1, <1>3, <1>4, <1>5

LEMMA StepHistory ==
  ASSUME LockPerWord, HistoryInv, [HNext]_<<vars, hvars>>
  PROVE  HistoryInv'
<1>1. CASE UNCHANGED <<vars, hvars>>
  BY <1>1, UnchangedHistory, StepInv DEF HistoryInv
<1>2. ASSUME NEW t \in Threads, HStep(t)
      PROVE  HistoryInv'
  <2>1. Inv'
    BY <1>2, WatchedStep, StepInv DEF HistoryInv, Next
  <2> QED
    BY <1>2, <2>1, StepFrames, StepKept, StepPlaced, StepGuarded
    DEF HistoryInv, Inv
<1> QED
  BY <1>1, <1>2 DEF HNext, HFinished, Finished

LEMMA QuietMemory ==
  ASSUME HistoryInv
  PROVE  QuiescentMemoryKept
<1> SUFFICES ASSUME Quiescent, NEW a \in Existing \ lost
             PROVE  mem[a] = committed[a]
  BY DEF QuiescentMemoryKept
<1>1. a \in Addrs
  BY HeapAssumption DEF Existing, HistoryInv, Inv, TypeOK
<1>2. \A t \in Threads : WrittenBy(t) = {} /\ allocations[t] = {}
  BY DEF Quiescent, HistoryInv, Inv, HInv, LogShape
<1> QED
  BY <1>1, <1>2 DEF HistoryInv, ValuesKept, KeptAt, Known, Fresh

\* Nobody but validate() sends a body to commit.
LEMMA CommitsByValidate ==
  ASSUME TypeOK, NEW t \in Threads, NEW u \in Threads, HStep(u), Commits(t)
  PROVE  HValidateOk(t)
<1>1. u = t
  BY WatchedStep, StepOthers DEF OthersUntouched, Commits
<1> QED
  BY <1>1
  DEF Commits, HStep, HBegin, HCommitNested, HReadValue, HWriteValue,
      HResetCommit, HUndo, HRetry, HSilent, Begin, BeginNested, CommitNested,
      Abort, Throw, OpenRead, LoadRefused, ReadValue, OpenWrite, StoreRefused,
      WriteValue, Alloc, AllocFails, Free, FreeRefused, ValidateFails,
      ResetCommit, ResetAbort, Undo, Retry, Goto, TypeOK

LEMMA CommitsSeen ==
  ASSUME LockPerWord, HistoryInv, NEW t \in Threads, HValidateOk(t),
         NEW a \in Addrs \ (allocations[t] \cup unguarded[t] \cup lost)
  PROVE  Top(t).seen[a] \subseteq {committed[a]}
<1>1. pc[t] = "body" /\ depth[t] = 1 /\ ReadsValid(t)
  BY DEF HValidateOk, ValidateOk
<1>2. Len(frames[t]) = 1 /\ Top(t) = frames[t][1] /\ 1 \in Depths(t)
  <2>1. Len(frames[t]) = 1
    BY <1>1 DEF HistoryInv, FramesOK, HTypeOK
  <2> QED
    BY <2>1 DEF Top, Depths
<1>3. SeenOK(t)
  BY <1>1 DEF HistoryInv, ReadsGuarded, InBody
<1> SUFFICES ASSUME frames[t][1].seen[a] # {}
             PROVE  frames[t][1].seen[a] = {committed[a]}
  BY <1>2
<1>4. a \in ReadBy(t) \cup WrittenBy(t)
  BY <1>2, <1>3 DEF SeenOK
<1>5. Current(t, a)
  BY <1>1, <1>4, OwnsIsLogged DEF ReadsValid, Current
<1> QED
  BY <1>2, <1>3, <1>5 DEF SeenOK

\* With no transaction under way, memory holds what the committed ones
\* stored, but where the abort of a nested transaction rolled back a store
\* of an enclosing body.
THEOREM MemoryKept ==
  ASSUME LockPerWord
  PROVE  HSpec => []QuiescentMemoryKept
<1>1. HistoryInv /\ [HNext]_<<vars, hvars>> => HistoryInv'
  BY StepHistory
<1>2. HistoryInv => QuiescentMemoryKept
  BY QuietMemory
<1> QED
  BY InitHistory, <1>1, <1>2, PTL DEF HSpec

\* A transaction that passes validate() saw the committed values of all the
\* words its read log vouches for, however many bodies it is nested of.
THEOREM ReadsCurrent ==
  ASSUME LockPerWord
  PROVE  HSpec => GuardedReadsCurrent
<1>1. HistoryInv /\ [HNext]_<<vars, hvars>> => HistoryInv'
  BY StepHistory
<1>2. HistoryInv /\ [HNext]_<<vars, hvars>> =>
          [\A t \in Threads : Commits(t) =>
               \A a \in Addrs \ (allocations[t] \cup unguarded[t] \cup lost) :
                   Top(t).seen[a] \subseteq {committed[a]}]_<<vars, hvars>>
  <2> SUFFICES ASSUME HistoryInv, [HNext]_<<vars, hvars>>,
                      ~UNCHANGED <<vars, hvars>>,
                      NEW t \in Threads, Commits(t),
                      NEW a \in Addrs \ (allocations[t] \cup unguarded[t]
                                             \cup lost)
               PROVE  Top(t).seen[a] \subseteq {committed[a]}
    OBVIOUS
  <2>1. PICK u \in Threads : HStep(u)
    BY DEF HNext, HFinished, Finished
  <2>2. HValidateOk(t)
    BY <2>1, CommitsByValidate DEF HistoryInv, Inv
  <2> QED
    BY <2>2, CommitsSeen
<1> QED
  BY InitHistory, <1>1, <1>2, PTL DEF HSpec, GuardedReadsCurrent
=============================================================================
