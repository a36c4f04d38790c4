------------------------- MODULE AudioDeviceProofs -------------------------
(***************************************************************************)
(* The invariants of AudioDevice, for every frame size, every feed and any *)
(* number of calls.  AudioInv is inductive: beside the invariants the runs *)
(* check, it says which locks the process thread holds at each of its      *)
(* steps, what a queue without a chain looks like, and what feedRecorder-  *)
(* Data found when it looked.                                              *)
(***************************************************************************)
EXTENDS AudioDevice, TLAPS

USE AudioAssumption DEF Way

\* A device that was just created satisfies the invariant.
LEMMA InitAudio == Init => AudioInv
<1> SUFFICES ASSUME Init PROVE AudioInv
  OBVIOUS
<1> USE DEF Init
<1>1. TypeOK
  <2>1. FlagsOK
    BY DEF FlagsOK
  <2>2. WaysOK
    BY DEF WaysOK
  <2>3. PlacesOK
    BY DEF PlacesOK
  <2>4. CountsOK
    BY DEF CountsOK
  <2>5. QED
    BY <2>1, <2>2, <2>3, <2>4 DEF TypeOK
<1>2. LockInv /\ ChainInv /\ FeedInv
  BY DEF LockInv, ChainInv, FeedInv
<1>3. OneChain /\ ThreadWhileActive /\ StoppedIsSilent /\ CallbackInUse /\ OneLateFeed
  BY DEF OneChain, ThreadWhileActive, StoppedIsSilent, CallbackInUse, OneLateFeed
<1>4. QED
  BY <1>1, <1>2, <1>3 DEF AudioInv

\* No step takes a variable out of its type; the room for a feed was found before.
LEMMA TypeStep == AudioInv /\ [Next]_vars => TypeOK'
<1> SUFFICES ASSUME AudioInv, [Next]_vars PROVE TypeOK'
  OBVIOUS
<1> USE DEF lockVars, queueVars
<1>i. TypeOK /\ FeedInv
  BY DEF AudioInv
<1>1. CASE Register \/ \E w \in Way : Initialize(w) \/ Start(w) \/ Stop(w)
  <2>1. FlagsOK'
    BY <1>i, <1>1 DEF TypeOK, FlagsOK, Register, Initialize, Start, Stop, Call
  <2>2. WaysOK'
    BY <1>i, <1>1 DEF TypeOK, WaysOK, Register, Initialize, Start, Stop, Call
  <2>3. PlacesOK'
    BY <1>i, <1>1 DEF TypeOK, PlacesOK, Register, Initialize, Start, Stop, Call
  <2>4. CountsOK'
    BY <1>i, <1>1 DEF TypeOK, CountsOK, Register, Initialize, Start, Stop, Call
  <2>5. QED
    BY <2>1, <2>2, <2>3, <2>4 DEF TypeOK
<1>2. CASE WorkerNext
  <2>1. FlagsOK'
    BY <1>i, <1>2 DEF TypeOK, FlagsOK, WorkerNext, UpdateStarts, UpdateStops, UpdateJoins
  <2>2. WaysOK'
    BY <1>i, <1>2 DEF TypeOK, WaysOK, WorkerNext, UpdateStarts, UpdateStops, UpdateJoins
  <2>3. PlacesOK'
    BY <1>i, <1>2 DEF TypeOK, PlacesOK, WorkerNext, UpdateStarts, UpdateStops, UpdateJoins
  <2>4. CountsOK'
    BY <1>i, <1>2 DEF TypeOK, CountsOK, WorkerNext, UpdateStarts, UpdateStops, UpdateJoins
  <2>5. QED
    BY <2>1, <2>2, <2>3, <2>4 DEF TypeOK
<1>3. CASE ProcessNext
  <2>1. FlagsOK'
    BY <1>i, <1>3 DEF TypeOK, FlagsOK, ProcessNext, StartProcess, RunProcess, Begin, Received, Sent, Post,
             AfterReceive
  <2>2. WaysOK'
    BY <1>i, <1>3 DEF TypeOK, WaysOK, ProcessNext, StartProcess, RunProcess, Begin, Received, Sent, Post,
             AfterReceive
  <2>3. PlacesOK'
    BY <1>i, <1>3 DEF TypeOK, PlacesOK, ProcessNext, StartProcess, RunProcess, Begin, Received, Sent, Post,
             AfterReceive
  <2>4. CountsOK'
    BY <1>i, <1>3 DEF TypeOK, CountsOK, ProcessNext, StartProcess, RunProcess, Begin, Received, Sent, Post,
             AfterReceive
  <2>5. QED
    BY <2>1, <2>2, <2>3, <2>4 DEF TypeOK
<1>4. CASE Enter \/ Receive \/ Send
  <2>1. FlagsOK'
    BY <1>i, <1>4 DEF TypeOK, FlagsOK, Enter, Receive, Send, AfterReceive
  <2>2. WaysOK'
    BY <1>i, <1>4 DEF TypeOK, WaysOK, Enter, Receive, Send, AfterReceive
  <2>3. PlacesOK'
    BY <1>i, <1>4 DEF TypeOK, PlacesOK, Enter, Receive, Send, AfterReceive
  <2>4. CountsOK'
    BY <1>i, <1>4 DEF TypeOK, CountsOK, Enter, Receive, Send, AfterReceive
  <2>5. QED
    BY <2>1, <2>2, <2>3, <2>4 DEF TypeOK
<1>5. CASE FeedCheck \/ FeedWrite
  <2>1. FlagsOK'
    BY <1>i, <1>5 DEF TypeOK, FlagsOK, FeedCheck, FeedWrite
  <2>2. WaysOK'
    BY <1>i, <1>5 DEF TypeOK, WaysOK, FeedCheck, FeedWrite
  <2>3. PlacesOK'
    BY <1>i, <1>5 DEF TypeOK, PlacesOK, FeedCheck, FeedWrite
  <2>4. CountsOK'
    BY <1>i, <1>5 DEF TypeOK, CountsOK, FeedInv, FeedCheck, FeedWrite
  <2>5. QED
    BY <2>1, <2>2, <2>3, <2>4 DEF TypeOK
<1>6. CASE UNCHANGED vars
  <2>1. FlagsOK'
    BY <1>i, <1>6 DEF TypeOK, FlagsOK, vars
  <2>2. WaysOK'
    BY <1>i, <1>6 DEF TypeOK, WaysOK, vars
  <2>3. PlacesOK'
    BY <1>i, <1>6 DEF TypeOK, PlacesOK, vars
  <2>4. CountsOK'
    BY <1>i, <1>6 DEF TypeOK, CountsOK, vars
  <2>5. QED
    BY <2>1, <2>2, <2>3, <2>4 DEF TypeOK
<1>7. QED
  BY <1>1, <1>2, <1>3, <1>4, <1>5, <1>6 DEF Next

\* No step breaks what the locks protect, and what they are held for.
LEMMA LockStep == AudioInv /\ [Next]_vars => (LockInv /\ StoppedIsSilent /\ CallbackInUse)'
<1> SUFFICES ASSUME AudioInv, [Next]_vars
             PROVE (LockInv /\ StoppedIsSilent /\ CallbackInUse)'
  OBVIOUS
<1> USE DEF AudioInv, TypeOK, FlagsOK, WaysOK, PlacesOK, CountsOK, LockInv, StoppedIsSilent, CallbackInUse, lockVars, queueVars
<1>1. CASE Register \/ \E w \in Way : Initialize(w) \/ Start(w) \/ Stop(w)
  BY <1>1, SMTT(30) DEF Register, Initialize, Start, Stop, Call
<1>2. CASE WorkerNext
  BY <1>2, SMTT(30) DEF WorkerNext, UpdateStarts, UpdateStops, UpdateJoins
<1>3. CASE ProcessNext
  BY <1>3, SMTT(30) DEF ProcessNext, StartProcess, RunProcess, Begin, Received, Sent, Post,
            AfterReceive
<1>4. CASE Enter \/ Receive \/ Send
  BY <1>4, SMTT(30) DEF Enter, Receive, Send, AfterReceive
<1>5. CASE FeedCheck \/ FeedWrite
  BY <1>5 DEF FeedCheck, FeedWrite
<1>6. CASE UNCHANGED vars
  BY <1>6 DEF vars
<1>7. QED
  BY <1>1, <1>2, <1>3, <1>4, <1>5, <1>6 DEF Next

\* No step begins a second chain of frames, or leaves the thread and what is active
\* in disagreement.
LEMMA ChainStep == AudioInv /\ [Next]_vars => (ChainInv /\ OneChain /\ ThreadWhileActive)'
<1> SUFFICES ASSUME AudioInv, [Next]_vars
             PROVE (ChainInv /\ OneChain /\ ThreadWhileActive)'
  OBVIOUS
<1> USE DEF AudioInv, TypeOK, FlagsOK, WaysOK, PlacesOK, CountsOK, ChainInv, OneChain, ThreadWhileActive, lockVars, queueVars
<1>1. CASE Register \/ \E w \in Way : Initialize(w) \/ Start(w) \/ Stop(w)
  BY <1>1, SMTT(30) DEF Register, Initialize, Start, Stop, Call
<1>2. CASE WorkerNext
  BY <1>2, SMTT(30) DEF WorkerNext, UpdateStarts, UpdateStops, UpdateJoins
<1>3. CASE ProcessNext
  BY <1>3, SMTT(30) DEF ProcessNext, StartProcess, RunProcess, Begin, Received, Sent, Post,
            AfterReceive
<1>4. CASE Enter \/ Receive \/ Send
  BY <1>4, SMTT(30) DEF Enter, Receive, Send, AfterReceive
<1>5. CASE FeedCheck \/ FeedWrite
  BY <1>5, SMTT(30) DEF FeedCheck, FeedWrite
<1>6. CASE UNCHANGED vars
  BY <1>6 DEF vars
<1>7. QED
  BY <1>1, <1>2, <1>3, <1>4, <1>5, <1>6 DEF Next

\* No step lets a second feed through after recording stopped.
LEMMA FeedStep == AudioInv /\ [Next]_vars => (FeedInv /\ OneLateFeed)'
<1> SUFFICES ASSUME AudioInv, [Next]_vars PROVE (FeedInv /\ OneLateFeed)'
  OBVIOUS
<1> USE DEF AudioInv, TypeOK, FlagsOK, WaysOK, PlacesOK, CountsOK, FeedInv, OneLateFeed, lockVars, queueVars
<1>1. CASE Register \/ \E w \in Way : Initialize(w) \/ Start(w) \/ Stop(w)
  BY <1>1, SMTT(30) DEF Register, Initialize, Start, Stop, Call
<1>2. CASE WorkerNext
  BY <1>2, SMTT(30) DEF WorkerNext, UpdateStarts, UpdateStops, UpdateJoins
<1>3. CASE ProcessNext
  BY <1>3, SMTT(30) DEF ProcessNext, StartProcess, RunProcess, Begin, Received, Sent, Post
<1>4. CASE Enter \/ Receive \/ Send
  BY <1>4, SMTT(30) DEF Enter, Receive, Send
<1>5. CASE FeedCheck \/ FeedWrite
  BY <1>5, SMTT(30) DEF FeedCheck, FeedWrite
<1>6. CASE UNCHANGED vars
  BY <1>6 DEF vars
<1>7. QED
  BY <1>1, <1>2, <1>3, <1>4, <1>5, <1>6 DEF Next

\* The inductive invariant holds in every behaviour.
THEOREM AudioCorrect == Spec => []AudioInv
<1>1. AudioInv /\ [Next]_vars => AudioInv'
  BY TypeStep, LockStep, ChainStep, FeedStep DEF AudioInv
<1>2. QED
  BY InitAudio, <1>1, PTL DEF Spec

\* The variables keep their types, and the FIFO its bound.
THEOREM TypeCorrect == Spec => []TypeOK
<1>1. AudioInv => TypeOK
  BY DEF AudioInv
<1>2. QED
  BY AudioCorrect, <1>1, PTL

\* Frames are processed by one chain of messages, however often WebRTC starts and stops
\* recording and playout: startProcessP and the join in updateProcessing keep it so.
THEOREM SingleChain == Spec => []OneChain
<1>1. AudioInv => OneChain
  BY DEF AudioInv
<1>2. QED
  BY AudioCorrect, <1>1, PTL

\* updateProcessing keeps a process thread exactly while something is active.
THEOREM ThreadFollowsActive == Spec => []ThreadWhileActive
<1>1. AudioInv => ThreadWhileActive
  BY DEF AudioInv
<1>2. QED
  BY AudioCorrect, <1>1, PTL

\* The three above: a process thread while it is needed, with one chain of frames.
THEOREM DeviceCorrect == Spec => []DeviceInv
<1>1. TypeOK /\ OneChain /\ ThreadWhileActive => DeviceInv
  BY DEF DeviceInv
<1>2. QED
  BY TypeCorrect, SingleChain, ThreadFollowsActive, <1>1, PTL

\* A frame is played or recorded only while StopPlayout or StopRecording has not been
\* through the section under _crit.
THEOREM SilentOnceStopped == Spec => []StoppedIsSilent
<1>1. AudioInv => StoppedIsSilent
  BY DEF AudioInv
<1>2. QED
  BY AudioCorrect, <1>1, PTL

\* RegisterAudioCallback returns only when the old callback is not in use.
THEOREM CallbackIsSafe == Spec => []CallbackInUse
<1>1. AudioInv => CallbackInUse
  BY DEF AudioInv
<1>2. QED
  BY AudioCorrect, <1>1, PTL

\* Of the feeds that race with StopRecording in feedRecorderData, one at most gets
\* through.
THEOREM LateFeedIsSingle == Spec => []OneLateFeed
<1>1. AudioInv => OneLateFeed
  BY DEF AudioInv
<1>2. QED
  BY AudioCorrect, <1>1, PTL
=============================================================================
