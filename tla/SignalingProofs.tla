-------------------------- MODULE SignalingProofs --------------------------
(***************************************************************************)
(* The outgoing buffer keeps OutputChannel's promise for every number of   *)
(* threads, every set of lines and every bound on the lines sent.          *)
(***************************************************************************)
EXTENDS Signaling, SequenceTheorems, TLAPS

USE SignalingAssumption

StepNames == {"outside", "print"} \cup Holding

\* Pushing extends what was accepted by one line; every other step keeps it.
LEMMA AcceptedByPush ==
  ASSUME TypeOK, NEW l \in Line, buffer' = Append(buffer, l),
         UNCHANGED <<stdout, current>>, pc[Main] # "clear", pc'[Main] # "clear"
  PROVE  Accepted' = Append(Accepted, l)
<1>1. current \in Seq(Line) /\ buffer \in Seq(Line) /\ stdout \in Seq(Line)
  BY DEF TypeOK
<1>2. current \o Append(buffer, l) = Append(current \o buffer, l)
  BY <1>1, AppendIsConcat, ConcatAssociative, ConcatProperties
<1>3. current \o buffer \in Seq(Line)
  BY <1>1, ConcatProperties
<1>4. stdout \o Append(current \o buffer, l) = Append(stdout \o (current \o buffer), l)
  BY <1>1, <1>3, AppendIsConcat, ConcatAssociative, ConcatProperties
<1>5. QED
  BY <1>2, <1>4 DEF Accepted

LEMMA AcceptedType ==
  ASSUME TypeOK
  PROVE  Accepted \in Seq(Line) /\ Len(Accepted) \in Nat
<1>1. current \in Seq(Line) /\ buffer \in Seq(Line) /\ stdout \in Seq(Line)
  BY DEF TypeOK
<1>2. current \o buffer \in Seq(Line)
  BY <1>1, ConcatProperties
<1>3. Accepted \in Seq(Line)
  BY <1>1, <1>2, ConcatProperties DEF Accepted
<1>4. QED
  BY <1>3, LenProperties

\* What each step does to the accepted and the printed lines: the mapping of
\* the steps of the code to those of OutputChannel.
LEMMA StepMaps ==
  ASSUME SignalingInv, [Next]_vars
  PROVE  \/ \E t \in Thread, l \in Line :
                SendPush(t) /\ Channel!Accept(l) /\ Len(Accepted) < MaxLines
         \/ Channel!Emit
         \/ UNCHANGED <<Accepted, stdout>>
<1> USE DEF SignalingInv
<1>t. /\ current \in Seq(Line) /\ buffer \in Seq(Line) /\ stdout \in Seq(Line)
      /\ pc \in [Thread -> StepNames] /\ Main \in Thread
  BY DEF TypeOK, StepNames
<1>1. ASSUME NEW t \in Thread, SendLock(t) PROVE UNCHANGED <<Accepted, stdout>>
  BY <1>1, <1>t DEF SendLock, Lock, Goto, Accepted
<1>2. ASSUME NEW t \in Thread, SendPush(t)
      PROVE  \E l \in Line : Channel!Accept(l) /\ Len(Accepted) < MaxLines
  <2>1. PICK l \in Line : buffer' = Append(buffer, l)
    BY <1>2 DEF SendPush
  <2>2. pc[Main] # "clear" /\ pc'[Main] # "clear"
    BY <1>2, <1>t DEF SendPush, Goto, MutexInv, Holding
  <2>3. Accepted' = Append(Accepted, l)
    BY <1>2, <2>1, <2>2, AcceptedByPush DEF SendPush
  <2>4. Len(Accepted) < MaxLines
    BY <1>2 DEF SendPush, RoomToPush
  <2>5. QED
    BY <1>2, <2>3, <2>4 DEF SendPush, Channel!Accept
<1>3. ASSUME CommitLock PROVE UNCHANGED <<Accepted, stdout>>
  BY <1>3, <1>t DEF CommitLock, Lock, Goto, Accepted
<1>4. ASSUME CommitCopy PROVE UNCHANGED <<Accepted, stdout>>
  <2>1. current = <<>> /\ pc[Main] # "clear" /\ pc'[Main] = "clear"
    BY <1>4, <1>t DEF CommitCopy, CopyIsWhole, Goto
  <2>2. current \o buffer = buffer
    BY <2>1, <1>t, ConcatEmptySeq
  <2>3. QED
    BY <1>4, <2>1, <2>2 DEF CommitCopy, Accepted
<1>5. ASSUME CommitClear PROVE UNCHANGED <<Accepted, stdout>>
  <2>1. current = buffer /\ pc[Main] = "clear" /\ pc'[Main] # "clear"
    BY <1>5, <1>t DEF CommitClear, CopyIsWhole, Goto
  <2>2. current \o <<>> = current
    BY <1>t, ConcatEmptySeq
  <2>3. QED
    BY <1>5, <2>1, <2>2 DEF CommitClear, Accepted
<1>6. ASSUME CommitUnlock PROVE UNCHANGED <<Accepted, stdout>>
  BY <1>6, <1>t DEF CommitUnlock, Goto, Accepted
<1>7. ASSUME CommitPrint PROVE Channel!Emit
  <2> DEFINE rest == current \o buffer
  <2>1. /\ pc[Main] = "print" /\ pc' = pc /\ current # <<>> /\ buffer' = buffer
        /\ stdout' = Append(stdout, Head(current)) /\ current' = Tail(current)
    BY <1>7 DEF CommitPrint
  <2>2. Head(current) \in Line /\ Tail(current) \in Seq(Line) /\ Head(current) = current[1]
    BY <2>1, <1>t, HeadTailProperties, AppendIsConcat, ConcatAssociative
  <2>3. rest \in Seq(Line) /\ rest # <<>> /\ Head(rest) = Head(current)
    <3>1. Len(current) \in Nat \ {0} /\ Len(buffer) \in Nat
      BY <2>1, <1>t, LenProperties, EmptySeq
    <3>2. rest \in Seq(Line) /\ Len(rest) = Len(current) + Len(buffer) /\ rest[1] = current[1]
      BY <3>1, <1>t, ConcatProperties
    <3>3. rest # <<>>
      BY <3>1, <3>2
    <3>4. QED
      BY <3>2, <3>3, <2>2
  <2>4. Append(stdout, Head(current)) \in Seq(Line)
    BY <2>2, <1>t, AppendProperties
  <2>5. stdout' \o (current' \o buffer') = stdout \o rest
    <3>1. stdout' \in Seq(Line) /\ current' \in Seq(Line) /\ buffer' \in Seq(Line)
      BY <2>1, <2>2, <2>4, <1>t
    <3>2. stdout' \o (current' \o buffer') = (stdout' \o current') \o buffer'
      BY <3>1, ConcatAssociative
    <3>3. stdout' \o current' = stdout \o current
      <4>1. <<Head(current)>> \in Seq(Line) /\ current = <<Head(current)>> \o Tail(current)
        BY <2>1, <2>2, <1>t, HeadTailProperties
      <4>2. stdout' = stdout \o <<Head(current)>>
        BY <2>1, <2>2, <1>t, AppendIsConcat
      <4>3. QED
        BY <2>1, <2>2, <4>1, <4>2, <1>t, ConcatAssociative
    <3>4. (stdout \o current) \o buffer = stdout \o rest
      BY <1>t, ConcatAssociative
    <3>5. QED
      BY <2>1, <3>2, <3>3, <3>4
  <2>6. Accepted = stdout \o rest /\ Accepted' = Accepted
    BY <2>1, <2>5 DEF Accepted
  <2>7. Len(stdout) < Len(Accepted) /\ Accepted[Len(stdout) + 1] = Head(current)
    BY <2>3, <2>6, <1>t, ConcatProperties, LenProperties, EmptySeq
  <2>8. QED
    BY <2>1, <2>6, <2>7 DEF Channel!Emit
<1>8. ASSUME CommitReturn PROVE UNCHANGED <<Accepted, stdout>>
  BY <1>8, <1>t DEF CommitReturn, Goto, Accepted
<1>9. CASE UNCHANGED vars
  BY <1>9 DEF vars, Accepted
<1>10. QED
  BY <1>1, <1>2, <1>3, <1>4, <1>5, <1>6, <1>7, <1>8, <1>9
     DEF Next, Send, commitBuffer

----------------------------------------------------------------------------
LEMMA InitInv == Init => SignalingInv
<1> SUFFICES ASSUME Init PROVE SignalingInv
  OBVIOUS
<1>1. /\ mutex = NoThread /\ buffer = <<>> /\ current = <<>> /\ stdout = <<>>
      /\ pc = [t \in Thread |-> "outside"]
  BY DEF Init
<1>2. Accepted = <<>> /\ Len(Accepted) = 0
  BY <1>1 DEF Accepted
<1>3. TypeOK
  BY <1>1, <1>2 DEF TypeOK
<1>4. RoomToPush /\ MutexInv /\ CopyIsWhole
  BY <1>1 DEF RoomToPush, MutexInv, CopyIsWhole, Holding
<1>5. QED
  BY <1>3, <1>4 DEF SignalingInv

\* The bound on the accepted lines, and the room of a thread that may push:
\* only a push adds a line, and it is alone in holding the mutex.
LEMMA BoundStep ==
  ASSUME SignalingInv, [Next]_vars
  PROVE  Len(Accepted') <= MaxLines /\ RoomToPush'
<1>1. Len(Accepted) \in Nat /\ Accepted \in Seq(Line) /\ Len(Accepted) <= MaxLines
  BY AcceptedType DEF SignalingInv, TypeOK
<1>2. pc \in [Thread -> StepNames] /\ Main \in Thread
  BY DEF SignalingInv, TypeOK, StepNames
<1>3. ASSUME NEW t \in Thread, NEW l \in Line,
             SendPush(t), Channel!Accept(l), Len(Accepted) < MaxLines
      PROVE  Len(Accepted') <= MaxLines /\ RoomToPush'
  <2>1. Len(Accepted') = Len(Accepted) + 1
    BY <1>1, <1>3, AppendProperties DEF Channel!Accept
  <2>2. \A u \in Thread : pc'[u] # "push"
    BY <1>2, <1>3 DEF SendPush, Goto, SignalingInv, MutexInv, Holding
  <2>3. QED
    BY <1>1, <1>3, <2>1, <2>2 DEF RoomToPush
<1>4. ASSUME Accepted' = Accepted PROVE Len(Accepted') <= MaxLines /\ RoomToPush'
  <2>1. ASSUME NEW u \in Thread, pc'[u] = "push", pc[u] # "push"
        PROVE  Len(Accepted) < MaxLines
    BY <2>1, <1>2 DEF Next, Send, commitBuffer, SendLock, SendPush, CommitLock, Lock,
          CommitCopy, CommitClear, CommitUnlock, CommitPrint, CommitReturn, Goto, vars
  <2>2. QED
    BY <1>1, <1>4, <2>1 DEF RoomToPush, SignalingInv
<1>5. QED
  BY <1>3, <1>4, StepMaps DEF Channel!Emit

LEMMA StepInv == SignalingInv /\ [Next]_vars => SignalingInv'
<1> SUFFICES ASSUME SignalingInv, [Next]_vars PROVE SignalingInv'
  OBVIOUS
<1> USE DEF SignalingInv
<1>t. /\ current \in Seq(Line) /\ buffer \in Seq(Line) /\ stdout \in Seq(Line)
      /\ pc \in [Thread -> StepNames] /\ Main \in Thread
      /\ mutex \in Thread \cup {NoThread} /\ NoThread \notin Thread
      /\ \A t \in Thread \ {Main} : pc[t] \in {"outside", "push"}
  BY DEF TypeOK, StepNames
<1> DEFINE Types == /\ mutex \in Thread \cup {NoThread}
                    /\ buffer \in Seq(Line) /\ current \in Seq(Line) /\ stdout \in Seq(Line)
                    /\ pc \in [Thread -> StepNames]
                    /\ \A t \in Thread \ {Main} : pc[t] \in {"outside", "push"}
<1>b. Len(Accepted') <= MaxLines /\ RoomToPush'
  BY BoundStep
<1>1. ASSUME NEW t \in Thread, NEW step \in {"push", "copy"}, Lock(t, step),
             step = "copy" => t = Main
      PROVE  Types' /\ MutexInv' /\ CopyIsWhole'
  <2>1. Types'
    BY <1>1, <1>t DEF Lock, Goto, StepNames, Holding
  <2>2. MutexInv' /\ CopyIsWhole'
    BY <1>1, <1>t DEF Lock, Goto, MutexInv, CopyIsWhole, Holding, StepNames
  <2>3. QED
    BY <2>1, <2>2
<1>2. ASSUME NEW t \in Thread, SendPush(t) PROVE Types' /\ MutexInv' /\ CopyIsWhole'
  <2>1. buffer' \in Seq(Line)
    BY <1>2, <1>t, AppendProperties DEF SendPush
  <2>2. Types'
    BY <1>2, <1>t, <2>1 DEF SendPush, Goto, StepNames, Holding
  <2>3. MutexInv'
    BY <1>2, <1>t DEF SendPush, Goto, MutexInv, Holding, StepNames
  <2>4. CopyIsWhole'
    BY <1>2, <1>t DEF SendPush, Goto, MutexInv, CopyIsWhole, Holding, StepNames
  <2>5. QED
    BY <2>2, <2>3, <2>4
<1>3. ASSUME CommitCopy PROVE Types' /\ MutexInv' /\ CopyIsWhole'
  <2>1. current' = buffer /\ buffer' = buffer
    BY <1>3, <1>t, ConcatEmptySeq DEF CommitCopy, CopyIsWhole
  <2>2. QED
    BY <1>3, <1>t, <2>1 DEF CommitCopy, Goto, MutexInv, CopyIsWhole, Holding, StepNames
<1>4. ASSUME CommitClear PROVE Types' /\ MutexInv' /\ CopyIsWhole'
  BY <1>4, <1>t DEF CommitClear, Goto, MutexInv, CopyIsWhole, Holding, StepNames
<1>5. ASSUME CommitUnlock PROVE Types' /\ MutexInv' /\ CopyIsWhole'
  BY <1>5, <1>t DEF CommitUnlock, Goto, MutexInv, CopyIsWhole, Holding, StepNames
<1>6. ASSUME CommitPrint PROVE Types' /\ MutexInv' /\ CopyIsWhole'
  <2>1. current' \in Seq(Line) /\ stdout' \in Seq(Line)
    BY <1>6, <1>t, HeadTailProperties, AppendProperties DEF CommitPrint
  <2>2. QED
    BY <1>6, <1>t, <2>1 DEF CommitPrint, MutexInv, CopyIsWhole, Holding, StepNames
<1>7. ASSUME CommitReturn PROVE Types' /\ MutexInv' /\ CopyIsWhole'
  BY <1>7, <1>t DEF CommitReturn, Goto, MutexInv, CopyIsWhole, Holding, StepNames
<1>8. ASSUME UNCHANGED vars PROVE Types' /\ MutexInv' /\ CopyIsWhole'
  BY <1>8, <1>t DEF vars, MutexInv, CopyIsWhole
<1>9. Types' /\ MutexInv' /\ CopyIsWhole'
  <2>1. CASE \E t \in Thread : SendLock(t) \/ SendPush(t)
    BY <2>1, <1>1, <1>2 DEF SendLock
  <2>2. CASE commitBuffer
    BY <2>2, <1>1, <1>3, <1>4, <1>5, <1>6, <1>7, <1>t DEF commitBuffer, CommitLock
  <2>3. QED
    BY <2>1, <2>2, <1>8 DEF Next, Send
<1>10. TypeOK'
  BY <1>9, <1>b DEF TypeOK, StepNames
<1>11. QED
  BY <1>9, <1>10, <1>b

----------------------------------------------------------------------------
\* No interleaving of sends and commits takes the buffer out of its invariant.
THEOREM SignalingCorrect == Spec => []SignalingInv
<1>1. QED
  BY InitInv, StepInv, PTL DEF Spec

\* The variables keep their types and the number of lines its bound.
THEOREM TypeCorrect == Spec => []TypeOK
<1>1. SignalingInv => TypeOK
  BY DEF SignalingInv
<1>2. QED
  BY <1>1, SignalingCorrect, PTL

\* commitBuffer prints exactly the lines it clears from the buffer.
THEOREM CopyCorrect == Spec => []CopyIsWhole
<1>1. SignalingInv => CopyIsWhole
  BY DEF SignalingInv
<1>2. QED
  BY <1>1, SignalingCorrect, PTL

\* The buffer with its mutex and its copy implements OutputChannel: stdout is
\* always a prefix of what was sent, in the order the mutex gave it.
THEOREM ImplementsChannel == Spec => ChannelSpec
<1>1. Init => Channel!Init
  BY DEF Init, Channel!Init, Accepted
<1>2. SignalingInv /\ [Next]_vars => [Channel!Next]_Channel!vars
  BY StepMaps DEF Channel!Next, Channel!vars
<1>3. QED
  BY <1>1, <1>2, SignalingCorrect, PTL DEF Spec, ChannelSpec, Channel!Spec
============================================================================
