---------------------------- MODULE AudioDevice ----------------------------
(***************************************************************************)
(* class BaseAudioDeviceModule: the audio device that WebRTC records from  *)
(* and plays to.  Three threads meet in it:                                *)
(*   - WebRTC's worker starts and stops recording and playout, registers   *)
(*     the callback, and so creates and stops the process thread;          *)
(*   - the process thread handles messages one by one: a frame is sent and *)
(*     received every 10 ms, each frame posting the message for the next;  *)
(*   - the thread of an NDIReader feeds the samples to be recorded.        *)
(*                                                                         *)
(* _crit protects what is active, and is held for a whole frame;           *)
(* _critCallback protects the callback and the FIFO, and is taken inside.  *)
(* A section under one lock that calls nothing is one step here, enabled   *)
(* when the lock is free.                                                  *)
(***************************************************************************)
EXTENDS Naturals

CONSTANTS Frame,        \* the samples of a frame, kNumberSamples
          Sizes,        \* the numbers of samples a reader feeds at once
          MaxSamples,   \* bound on the samples in the FIFO
          MaxCalls      \* bound on the calls of the worker

ASSUME AudioAssumption == /\ Frame \in Nat \ {0}
                          /\ Sizes \subseteq Nat \ {0}
                          /\ MaxSamples \in Nat
                          /\ MaxCalls \in Nat

Way == {"play", "record"}

VARIABLES crit,         \* TRUE while the process thread holds _crit
          critCallback, \* TRUE while the process thread holds _critCallback
          active,       \* _playing and _recording
          initialized,  \* _playIsInitialized and _recIsInitialized
          callback,     \* _audioCallback is set
          started,      \* _started
          thread,       \* _processThread is set
          starts,       \* the number of MSG_START_PROCESS in its queue
          runs,         \* the number of MSG_RUN_PROCESS, delayed
          worker,       \* where the worker is in updateProcessing
          process,      \* where the process thread is in OnMessage
          feeder,       \* where the reader's thread is in feedRecorderData
          fifo,         \* the number of samples in _sendFifo
          calls,        \* counted for the bound
          late          \* history: the feeds that reached the FIFO while not recording
lockVars == <<crit, critCallback>>
queueVars == <<thread, starts, runs>>
vars == <<lockVars, active, initialized, callback, started, queueVars, worker, process,
          feeder, fifo, calls, late>>

Init == /\ crit = FALSE
        /\ critCallback = FALSE
        /\ active = [w \in Way |-> FALSE]
        /\ initialized = [w \in Way |-> FALSE]
        /\ callback = FALSE
        /\ started = FALSE
        /\ thread = FALSE
        /\ starts = 0
        /\ runs = 0
        /\ worker = "idle"
        /\ process = "idle"
        /\ feeder = "idle"
        /\ fifo = 0
        /\ calls = 0
        /\ late = 0

\* A call of the worker.
Call == worker = "idle" /\ calls < MaxCalls /\ calls' = calls + 1

\* The handler that follows a frame's reception, when recording or not.
AfterReceive == IF active["record"] THEN "send" ELSE "post"
-----------------------------------------------------------------------------
(***************************************************************************)
(* Faulty variants of the steps below, one per property stated at the end. *)
(***************************************************************************)

\* The callback is exchanged without its lock.
RegisterUnlocked == /\ Call
                    /\ callback' = ~callback
                    /\ UNCHANGED <<lockVars, active, initialized, started, queueVars,
                                   worker, process, feeder, fifo, late>>

\* The processing is updated before _crit is released.
StopHoldingLock(w) == /\ Call
                      /\ ~crit
                      /\ active' = [active EXCEPT ![w] = FALSE]
                      /\ worker' = IF \E v \in Way : active'[v] THEN "start" ELSE "stop"
                      /\ crit' = (worker' = "stop")
                      /\ UNCHANGED <<critCallback, initialized, callback, started, queueVars,
                                     process, feeder, fifo, late>>

\* Stopping one way stops the processing of both.
StopBoth(w) == /\ Call
               /\ ~crit
               /\ active' = [active EXCEPT ![w] = FALSE]
               /\ worker' = "stop"
               /\ UNCHANGED <<lockVars, initialized, callback, started, queueVars,
                              process, feeder, fifo, late>>

\* _started is not cleared with the thread.
JoinKeepsStarted == /\ worker = "join"
                    /\ process = "idle"
                    /\ thread' = FALSE
                    /\ starts' = 0
                    /\ runs' = 0
                    /\ worker' = "idle"
                    /\ UNCHANGED <<lockVars, active, initialized, callback, started, process,
                                   feeder, fifo, calls, late>>

\* A start message begins a loop of its own each time.
StartProcessAgain == /\ thread
                     /\ worker # "join"
                     /\ process = "idle"
                     /\ starts > 0
                     /\ starts' = starts - 1
                     /\ process' = "begin"
                     /\ UNCHANGED <<lockVars, active, initialized, callback, started, thread,
                                    runs, worker, feeder, fifo, calls, late>>

\* A frame looks at what is active and releases _crit at once.
EnterReleasing == /\ process = "enter"
                  /\ ~crit
                  /\ process' = IF active["play"] THEN "receive" ELSE AfterReceive
                  /\ UNCHANGED <<lockVars, active, initialized, callback, started, queueVars,
                                 worker, feeder, fifo, calls, late>>

\* feedRecorderData does not look at _recording.
FeedUnchecked == /\ feeder = "idle"
                 /\ \A n \in Sizes : fifo + n <= MaxSamples
                 /\ feeder' = "write"
                 /\ UNCHANGED <<lockVars, active, initialized, callback, started, queueVars,
                                worker, process, fifo, calls, late>>

\* A frame is read before it is complete.
SendPartial == /\ process = "send"
               /\ ~critCallback
               /\ \/ /\ callback
                     /\ fifo > 0
                     /\ fifo' = fifo - Frame
                     /\ critCallback' = TRUE
                     /\ process' = "sending"
                  \/ /\ ~callback \/ fifo = 0
                     /\ process' = "post"
                     /\ UNCHANGED <<fifo, critCallback>>
               /\ UNCHANGED <<crit, active, initialized, callback, started, queueVars,
                              worker, feeder, calls, late>>
-----------------------------------------------------------------------------
(* The worker. *)

\* RegisterAudioCallback
Register == /\ Call
            /\ ~critCallback
            /\ callback' = ~callback
            /\ UNCHANGED <<lockVars, active, initialized, started, queueVars, worker,
                           process, feeder, fifo, late>>

\* InitPlayout, InitRecording
Initialize(w) == /\ Call
                 /\ ~initialized[w]
                 /\ initialized' = [initialized EXCEPT ![w] = TRUE]
                 /\ UNCHANGED <<lockVars, active, callback, started, queueVars, worker,
                                process, feeder, fifo, late>>

\* StartPlayout, StartRecording; without initialization they return -1.
Start(w) == /\ Call
            /\ initialized[w]
            /\ ~crit
            /\ active' = [active EXCEPT ![w] = TRUE]
            /\ worker' = "start"
            /\ late' = IF w = "record" THEN 0 ELSE late
            /\ UNCHANGED <<lockVars, initialized, callback, started, queueVars, process,
                           feeder, fifo>>

\* StopPlayout, StopRecording: what is still active decides, under _crit.
Stop(w) == /\ Call
           /\ ~crit
           /\ active' = [active EXCEPT ![w] = FALSE]
           /\ worker' = IF \E v \in Way : active'[v] THEN "start" ELSE "stop"
           /\ UNCHANGED <<lockVars, initialized, callback, started, queueVars, process,
                          feeder, fifo, late>>

\* updateProcessing(true): the thread is created if there is none.
UpdateStarts == /\ worker = "start"
                /\ thread' = TRUE
                /\ starts' = starts + 1
                /\ worker' = "idle"
                /\ UNCHANGED <<lockVars, active, initialized, callback, started, runs,
                               process, feeder, fifo, calls, late>>

\* updateProcessing(false): _processThread->Stop() asks the thread to take no message
\* any more, and waits for it.
UpdateStops == /\ worker = "stop"
               /\ worker' = IF thread THEN "join" ELSE "idle"
               /\ started' = (started /\ thread)
               /\ UNCHANGED <<lockVars, active, initialized, callback, queueVars, process,
                              feeder, fifo, calls, late>>

\* The thread has ended, and its messages are dropped with it.
UpdateJoins == /\ worker = "join"
               /\ process = "idle"
               /\ thread' = FALSE
               /\ starts' = 0
               /\ runs' = 0
               /\ started' = FALSE
               /\ worker' = "idle"
               /\ UNCHANGED <<lockVars, active, initialized, callback, process, feeder,
                              fifo, calls, late>>

(* The process thread. *)

\* startProcessP
StartProcess == /\ thread
                /\ worker # "join"
                /\ process = "idle"
                /\ starts > 0
                /\ starts' = starts - 1
                /\ process' = IF started THEN "idle" ELSE "begin"
                /\ UNCHANGED <<lockVars, active, initialized, callback, started, thread,
                               runs, worker, feeder, fifo, calls, late>>

\* The time of the next frame has come.
RunProcess == /\ thread
              /\ worker # "join"
              /\ process = "idle"
              /\ runs > 0
              /\ runs' = runs - 1
              /\ process' = "begin"
              /\ UNCHANGED <<lockVars, active, initialized, callback, started, thread,
                             starts, worker, feeder, fifo, calls, late>>

\* The beginning of processFrameP.
Begin == /\ process = "begin"
         /\ started' = TRUE
         /\ process' = "enter"
         /\ UNCHANGED <<lockVars, active, initialized, callback, queueVars, worker, feeder,
                        fifo, calls, late>>

Enter == /\ process = "enter"
         /\ ~crit
         /\ crit' = TRUE
         /\ process' = IF active["play"] THEN "receive" ELSE AfterReceive
         /\ UNCHANGED <<critCallback, active, initialized, callback, started, queueVars,
                        worker, feeder, fifo, calls, late>>

\* receiveFrameP, up to NeedMorePlayData.
Receive == /\ process = "receive"
           /\ ~critCallback
           /\ critCallback' = callback
           /\ process' = IF callback THEN "receiving" ELSE AfterReceive
           /\ UNCHANGED <<crit, active, initialized, callback, started, queueVars, worker,
                          feeder, fifo, calls, late>>

Received == /\ process = "receiving"
            /\ critCallback' = FALSE
            /\ process' = AfterReceive
            /\ UNCHANGED <<crit, active, initialized, callback, started, queueVars, worker,
                           feeder, fifo, calls, late>>

\* sendFrameP, up to RecordedDataIsAvailable: a frame is read if there is a whole one.
Send == /\ process = "send"
        /\ ~critCallback
        /\ \/ /\ callback
              /\ fifo >= Frame
              /\ fifo' = fifo - Frame
              /\ critCallback' = TRUE
              /\ process' = "sending"
           \/ /\ ~callback \/ fifo < Frame
              /\ process' = "post"
              /\ UNCHANGED <<fifo, critCallback>>
        /\ UNCHANGED <<crit, active, initialized, callback, started, queueVars, worker,
                       feeder, calls, late>>

Sent == /\ process = "sending"
        /\ critCallback' = FALSE
        /\ process' = "post"
        /\ UNCHANGED <<crit, active, initialized, callback, started, queueVars, worker,
                       feeder, fifo, calls, late>>

\* The end of processFrameP.
Post == /\ process = "post"
        /\ crit' = FALSE
        /\ runs' = runs + 1
        /\ process' = "idle"
        /\ UNCHANGED <<critCallback, active, initialized, callback, started, thread, starts,
                       worker, feeder, fifo, calls, late>>

(* The thread of a reader: feedRecorderData. *)

\* _recording is read under _crit, which is released before the samples are written.
FeedCheck == /\ feeder = "idle"
             /\ ~crit
             /\ active["record"]
             /\ \A n \in Sizes : fifo + n <= MaxSamples
             /\ feeder' = "write"
             /\ UNCHANGED <<lockVars, active, initialized, callback, started, queueVars,
                            worker, process, fifo, calls, late>>

FeedWrite == /\ feeder = "write"
             /\ ~critCallback
             /\ feeder' = "idle"
             /\ \/ /\ callback
                   /\ \E n \in Sizes : fifo' = fifo + n
                   /\ late' = IF active["record"] THEN late ELSE late + 1
                \/ ~callback /\ UNCHANGED <<fifo, late>>
             /\ UNCHANGED <<lockVars, active, initialized, callback, started, queueVars,
                            worker, process, calls>>

ProcessNext == StartProcess \/ RunProcess \/ Begin \/ Received \/ Sent \/ Post
WorkerNext == UpdateStarts \/ UpdateStops \/ UpdateJoins

Next == \/ Register \/ \E w \in Way : Initialize(w) \/ Start(w) \/ Stop(w)
        \/ WorkerNext \/ ProcessNext \/ Enter \/ Receive \/ Send
        \/ FeedCheck \/ FeedWrite

(***************************************************************************)
(* The worker and the process thread are scheduled; a thread that asks for *)
(* a lock again and again gets it in the end.  A reader owes nothing.      *)
(***************************************************************************)
Fairness == /\ WF_vars(WorkerNext)
            /\ WF_vars(ProcessNext)
            /\ SF_vars(Enter)
            /\ SF_vars(Receive)
            /\ SF_vars(Send)
            /\ WF_vars(FeedWrite)

Spec == Init /\ [][Next]_vars

FairSpec == Spec /\ Fairness
-----------------------------------------------------------------------------
\* The types of the variables, and the bounds the FIFO has here.
FlagsOK == /\ crit \in BOOLEAN
           /\ critCallback \in BOOLEAN
           /\ callback \in BOOLEAN
           /\ started \in BOOLEAN
           /\ thread \in BOOLEAN
WaysOK == /\ active \in [Way -> BOOLEAN]
          /\ initialized \in [Way -> BOOLEAN]
PlacesOK == /\ worker \in {"idle", "start", "stop", "join"}
            /\ process \in {"idle", "begin", "enter", "receive", "receiving", "send",
                            "sending", "post"}
            /\ feeder \in {"idle", "write"}
CountsOK == /\ starts \in Nat
            /\ runs \in Nat
            /\ fifo \in 0..MaxSamples
            /\ calls \in 0..MaxCalls
            /\ late \in Nat
TypeOK == FlagsOK /\ WaysOK /\ PlacesOK /\ CountsOK

\* There is one chain of frames, however often the worker starts and stops: a start
\* message that finds the chain running begins no second one.
OneChain == runs + (IF process = "idle" THEN 0 ELSE 1) <= 1

\* Between the worker's calls there is a process thread exactly while there is
\* something to play or record.
ThreadWhileActive == worker = "idle" => (thread <=> \E w \in Way : active[w])

\* There is a process thread while it is needed, with one chain of frames.
DeviceInv == TypeOK /\ OneChain /\ ThreadWhileActive

\* No frame is played or recorded once the stop has returned: _crit is held from the
\* moment a frame looks at what is active until it is done.
StoppedIsSilent == /\ process \in {"receive", "receiving"} => active["play"]
                   /\ process \in {"send", "sending"} => active["record"]

\* The callback is not in use any more when RegisterAudioCallback(nullptr) returns.
CallbackInUse == process \in {"receiving", "sending"} => callback

\* After recording stopped, one feed may still reach the FIFO, the one that had read
\* _recording before; no other is added to the samples StopRecording left there, which
\* are heard when recording starts again.
OneLateFeed == late <= 1

\* What makes the five invariants inductive: which locks the process thread holds and
\* where, ...
LockInv == /\ crit <=> process \in {"receive", "receiving", "send", "sending", "post"}
           /\ critCallback <=> process \in {"receiving", "sending"}

\* ... where the messages of a chain are, the worker's reason to create or stop the
\* thread, ...
ChainInv == /\ ~started => runs = 0 /\ process \in {"idle", "begin"}
            /\ ~thread => runs = 0 /\ starts = 0 /\ process = "idle"
            /\ worker = "start" => \E w \in Way : active[w]
            /\ worker \in {"stop", "join"} => ~ \E w \in Way : active[w]
            /\ worker = "join" => thread

\* ... and the room and the permission a feed has found.
FeedInv == /\ feeder = "write" => \A n \in Sizes : fifo + n <= MaxSamples
           /\ feeder = "write" \/ active["record"] => late = 0

AudioInv == /\ TypeOK /\ LockInv /\ ChainInv /\ FeedInv
            /\ OneChain /\ ThreadWhileActive /\ StoppedIsSilent
            /\ CallbackInUse /\ OneLateFeed

\* A stop returns: it does not wait for the process thread with a lock it needs.
StopReturns == worker \in {"stop", "join"} ~> worker = "idle"

\* As long as there is playout, and a callback, frames keep being played.
KeepsPlaying == <>[](active["play"] /\ callback) => []<>(process = "receiving")
=============================================================================
