-------------------------- MODULE ReaderLifecycle --------------------------
(***************************************************************************)
(* The life of the NDIReader of a PeerContext: an object with a thread     *)
(* that captures video and audio from an NDI source and feeds the device   *)
(* modules.  The member reader, which no lock protects, is used by         *)
(*   - the runner: addTrack creates a reader (and destroys the one before  *)
(*     it), removeTrack stops and destroys it, replaceTrack reopens it;    *)
(*   - the main thread: OnIceGatheringChange starts it, and the end of     *)
(*     main destroys it.                                                   *)
(* Runner calls to the peer connection are marshalled to the main thread.  *)
(*                                                                         *)
(* Starting a reader is two assignments, of the flag running and of the    *)
(* thread, and stopping it clears the flag and joins the thread; the steps *)
(* are those.  Three things end the process, and this model: fault.        *)
(***************************************************************************)
EXTENDS Naturals, FiniteSets

CONSTANTS Stream,          \* the stream ids addTrack is called with
          MaxReaders,      \* bound on the readers created
          MaxCommands,     \* bound on the track commands
          MaxCompletions   \* bound on the completions of ICE gathering

ASSUME ReaderAssumption == MaxReaders \in Nat /\ MaxCommands \in Nat /\ MaxCompletions \in Nat

NoReader == 0
Reader == 1..MaxReaders

VARIABLES reader,       \* PeerContext::reader, or NoReader
          made,         \* the number of readers created: the newest of them
          running,      \* NDIReader::running
          thread,       \* NDIReader::runner: "none" is a thread that is not joinable
          opened,       \* the readers with a receiver, _pNDI_recv
          freed,        \* the readers whose memory was given back
          runner,       \* where the runner thread is in its command
          stream,       \* the stream of that command
          dying,        \* the reader whose destructor runs, or NoReader
          joining,      \* TRUE while that destructor waits for the thread
          main,         \* where the main thread is
          startee,      \* the reader OnIceGatheringChange starts
          gathering,    \* the state of ICE gathering
          senders,      \* the streams that have a sender
          commands, completions,    \* counted for the bounds
          fault,        \* what ended the process abnormally, or "none"
          restarted,    \* history: start was called on a running reader
          overlap,      \* history: a completion was delivered during a command
          failed,       \* history: the readers whose addTrack failed
          added         \* history: the streams that had a sender

readerVars == <<running, thread, opened, freed>>
dyingVars == <<dying, joining>>
mainVars == <<main, startee, gathering, completions>>
history == <<overlap, failed, added>>
vars == <<reader, made, readerVars, runner, stream, dyingVars, mainVars, senders,
          commands, fault, restarted, history>>

Init == /\ reader = NoReader
        /\ made = 0
        /\ running = [r \in Reader |-> FALSE]
        /\ thread = [r \in Reader |-> "none"]
        /\ opened = {}
        /\ freed = {}
        /\ runner = "idle"
        /\ stream \in Stream
        /\ dying = NoReader
        /\ joining = FALSE
        /\ main = "loop"
        /\ startee = NoReader
        /\ gathering = "new"
        /\ senders = {}
        /\ commands = 0
        /\ completions = 0
        /\ fault = "none"
        /\ restarted = FALSE
        /\ overlap = FALSE
        /\ failed = {}
        /\ added = {}

Goto(step) == runner' = step

\* The main thread executes a marshalled call while it processes messages.
Serving == main = "loop"

\* NDIReader::start, first half: the assertion, then running = true.
StartFlag(r) == /\ restarted' = (restarted \/ running[r])
                /\ running' = [running EXCEPT ![r] = TRUE]

\* Second half: the assignment of a new thread ends the process if the old one is
\* joinable; the object may be gone by then.
StartThread(r) ==
    IF r \in freed THEN fault' = "freed" /\ UNCHANGED thread
    ELSE IF thread[r] # "none" THEN fault' = "terminate" /\ UNCHANGED thread
    ELSE thread' = [thread EXCEPT ![r] = "loop"] /\ UNCHANGED fault
-----------------------------------------------------------------------------
(***************************************************************************)
(* Faulty variants of the steps below, one per property stated at the end. *)
(***************************************************************************)

\* The destructor joins the thread without telling it to stop.
DestroyKeepsRunning ==
    /\ dying # NoReader
    /\ ~joining
    /\ IF running[dying]
       THEN joining' = TRUE /\ UNCHANGED <<dying, freed>>
       ELSE freed' = freed \cup {dying} /\ dying' = NoReader /\ UNCHANGED joining
    /\ UNCHANGED <<reader, made, running, thread, opened, runner, stream, mainVars,
                   senders, commands, fault, restarted, history>>

\* addTrack drops the old reader without destroying it.
AddTrackLeaks == /\ made < MaxReaders
                 /\ runner = "idle" /\ main \in {"loop", "startFlag", "startThread"}
                 /\ commands < MaxCommands
                 /\ commands' = commands + 1
                 /\ overlap' = (overlap \/ main # "loop")
                 /\ stream' \in Stream
                 /\ Goto("open")
                 /\ made' = made + 1
                 /\ reader' = made + 1
                 /\ UNCHANGED <<readerVars, dyingVars, mainVars, senders, fault,
                                restarted, failed, added>>

\* A source that is not found is ignored.
AddOpenIgnoresFailure ==
    /\ runner = "open"
    /\ dying = NoReader
    /\ opened' \in {opened, opened \cup {reader}}
    /\ Goto("addSenders")
    /\ UNCHANGED <<reader, made, running, thread, freed, stream, dyingVars, mainVars,
                   senders, commands, fault, restarted, history>>

\* addTrack starts the reader whatever the state of gathering, or never.
AddCheckAlways == /\ runner = "addCheck"
                  /\ Serving
                  /\ Goto("startFlag")
                  /\ UNCHANGED <<reader, made, readerVars, stream, dyingVars, mainVars,
                                 senders, commands, fault, restarted, history>>
AddCheckNever == /\ runner = "addCheck"
                 /\ Serving
                 /\ Goto("idle")
                 /\ UNCHANGED <<reader, made, readerVars, stream, dyingVars, mainVars,
                                senders, commands, fault, restarted, history>>

\* removeTrack does not look whether it found a sender.
RemoveSendersUnfound == /\ runner = "removeSenders"
                        /\ Serving
                        /\ senders' = senders \ {stream}
                        /\ Goto("removeCheck")
                        /\ UNCHANGED <<reader, made, readerVars, stream, dyingVars,
                                       mainVars, commands, fault, restarted, history>>

\* stop joins before it clears the flag.
RemoveCheckKeepsRunning ==
    /\ runner = "removeCheck"
    /\ reader # NoReader
    /\ Goto(IF running[reader] THEN "removeJoin" ELSE "idle")
    /\ UNCHANGED <<reader, made, readerVars, stream, dyingVars, mainVars, senders,
                   commands, fault, restarted, history>>

\* removeTrack destroys the reader and keeps the pointer.
RemoveJoinKeeps == /\ runner = "removeJoin"
                   /\ thread[reader] = "exited"
                   /\ thread' = [thread EXCEPT ![reader] = "none"]
                   /\ dying' = reader
                   /\ Goto("removeDestroy")
                   /\ UNCHANGED <<reader, made, running, opened, freed, stream, joining,
                                  mainVars, senders, commands, fault, restarted, history>>

\* The observer keeps the first reader it saw.
GatheringCompletesCached ==
    /\ main = "loop"
    /\ gathering = "gathering"
    /\ gathering' = "complete"
    /\ completions' = completions + 1
    /\ startee' = IF startee = NoReader THEN reader ELSE startee
    /\ main' = IF startee' # NoReader THEN "startFlag" ELSE "loop"
    /\ overlap' = (overlap \/ runner # "idle")
    /\ UNCHANGED <<reader, made, readerVars, runner, stream, dyingVars, senders,
                   commands, fault, restarted, failed, added>>

\* The context is declared after the reader, so destroyed before its thread has ended.
EndDestroysContextFirst ==
    /\ main = "end"
    /\ main' = "done"
    /\ UNCHANGED <<reader, made, readerVars, runner, stream, dyingVars, startee,
                   gathering, completions, senders, commands, fault, restarted, history>>
-----------------------------------------------------------------------------
(* The readers themselves. *)

\* run finds running set and captures once more, for a second at most; what it does with
\* the frame is in Capture, and changes nothing here.
Capture(r) == /\ thread[r] = "loop"
              /\ running[r]
              /\ UNCHANGED vars

\* run tests running before each capture.
RunReturns(r) == /\ thread[r] = "loop"
                 /\ ~running[r]
                 /\ thread' = [thread EXCEPT ![r] = "exited"]
                 /\ UNCHANGED <<reader, made, running, opened, freed, runner, stream,
                                dyingVars, mainVars, senders, commands, fault,
                                restarted, history>>

\* ~NDIReader stops the reader if it is running.  The destructor of a joinable thread
\* ends the process.
DestroyCheck ==
    /\ dying # NoReader
    /\ ~joining
    /\ IF running[dying]
       THEN /\ running' = [running EXCEPT ![dying] = FALSE]
            /\ joining' = TRUE
            /\ UNCHANGED <<dying, freed, fault>>
       ELSE IF thread[dying] # "none"
       THEN fault' = "terminate" /\ UNCHANGED <<running, joining, dying, freed>>
       ELSE freed' = freed \cup {dying} /\ dying' = NoReader /\ UNCHANGED <<running, joining, fault>>
    /\ UNCHANGED <<reader, made, thread, opened, runner, stream, mainVars, senders,
                   commands, restarted, history>>

\* join throws if there is no thread, and ~NDIReader may not throw.
DestroyJoin ==
    /\ dying # NoReader
    /\ joining
    /\ \/ /\ thread[dying] = "none"
          /\ fault' = "terminate"
          /\ UNCHANGED <<thread, freed, dyingVars>>
       \/ /\ thread[dying] = "exited"
          /\ thread' = [thread EXCEPT ![dying] = "none"]
          /\ freed' = freed \cup {dying}
          /\ dying' = NoReader
          /\ joining' = FALSE
          /\ UNCHANGED fault
    /\ UNCHANGED <<reader, made, running, opened, runner, stream, mainVars, senders,
                   commands, restarted, history>>

(* The runner: addTrack. *)

Begin(step) == /\ runner = "idle"
               /\ main \in {"loop", "startFlag", "startThread"}
               /\ commands < MaxCommands
               /\ commands' = commands + 1
               /\ overlap' = (overlap \/ main # "loop")
               /\ stream' \in Stream
               /\ Goto(step)

\* reader = make_unique<NDIReader>(): the pointer is replaced, then the old reader
\* is destroyed.
AddTrack == /\ made < MaxReaders
            /\ Begin("open")
            /\ made' = made + 1
            /\ reader' = made + 1
            /\ dying' = reader
            /\ UNCHANGED <<readerVars, joining, mainVars, senders, fault, restarted,
                           failed, added>>

\* Configuration(payload) and reader->open(configuration): either may fail, and
\* leaves the reader where it is.
AddOpen == /\ runner = "open"
           /\ dying = NoReader
           /\ \/ opened' = opened \cup {reader} /\ Goto("addSenders") /\ UNCHANGED failed
              \/ failed' = failed \cup {reader} /\ Goto("idle") /\ UNCHANGED opened
           /\ UNCHANGED <<reader, made, running, thread, freed, stream, dyingVars,
                          mainVars, senders, commands, fault, restarted, overlap, added>>

\* pc->AddTrack for the audio and the video: the second may fail after the first.
AddSenders == /\ runner = "addSenders"
              /\ Serving
              /\ \E any, all \in BOOLEAN :
                    /\ all => any
                    /\ senders' = IF any THEN senders \cup {stream} ELSE senders
                    /\ added' = added \cup senders'
                    /\ IF all THEN Goto("addCheck") /\ UNCHANGED failed
                              ELSE Goto("idle") /\ failed' = failed \cup {reader}
              /\ UNCHANGED <<reader, made, readerVars, stream, dyingVars, mainVars,
                             commands, fault, restarted, overlap>>

\* pc->ice_gathering_state() == kIceGatheringComplete
AddCheck == /\ runner = "addCheck"
            /\ Serving
            /\ Goto(IF gathering = "complete" THEN "startFlag" ELSE "idle")
            /\ UNCHANGED <<reader, made, readerVars, stream, dyingVars, mainVars, senders,
                           commands, fault, restarted, history>>

AddStartFlag == /\ runner = "startFlag"
                /\ StartFlag(reader)
                /\ Goto("startThread")
                /\ UNCHANGED <<reader, made, thread, opened, freed, stream, dyingVars,
                               mainVars, senders, commands, fault, history>>

AddStartThread == /\ runner = "startThread"
                  /\ StartThread(reader)
                  /\ Goto("idle")
                  /\ UNCHANGED <<reader, made, running, opened, freed, stream, dyingVars,
                                 mainVars, senders, commands, restarted, history>>

(* The runner: removeTrack and replaceTrack. *)

\* The loop over the senders; a failure to remove one is an error, with an early return.
RemoveTrack == /\ Begin("removeSenders")
               /\ UNCHANGED <<reader, made, readerVars, dyingVars, mainVars, senders,
                              fault, restarted, failed, added>>

RemoveSenders == /\ runner = "removeSenders"
                 /\ Serving
                 /\ \/ /\ stream \in senders
                       /\ senders' = senders \ {stream}
                       /\ Goto("removeCheck")
                    \/ UNCHANGED senders /\ Goto("idle")
                 /\ UNCHANGED <<reader, made, readerVars, stream, dyingVars, mainVars,
                                commands, fault, restarted, history>>

\* found && reader->isRunning(), then running = false in stop.
RemoveCheck == /\ runner = "removeCheck"
               /\ IF reader = NoReader
                  THEN fault' = "null" /\ UNCHANGED <<running, runner>>
                  ELSE /\ Goto(IF running[reader] THEN "removeJoin" ELSE "idle")
                       /\ running' = [running EXCEPT ![reader] = FALSE]
                       /\ UNCHANGED fault
               /\ UNCHANGED <<reader, made, thread, opened, freed, stream, dyingVars,
                              mainVars, senders, commands, restarted, history>>

\* runner.join(): on a thread that is not there yet it throws, to the loop of dispatch;
\* otherwise reader.reset() follows.
RemoveJoin == /\ runner = "removeJoin"
              /\ \/ /\ thread[reader] = "none"
                    /\ Goto("idle")
                    /\ UNCHANGED <<thread, reader, dying>>
                 \/ /\ thread[reader] = "exited"
                    /\ thread' = [thread EXCEPT ![reader] = "none"]
                    /\ dying' = reader
                    /\ reader' = NoReader
                    /\ Goto("removeDestroy")
              /\ UNCHANGED <<made, running, opened, freed, stream, joining, mainVars,
                             senders, commands, fault, restarted, history>>

RemoveReturns == /\ runner = "removeDestroy"
                 /\ dying = NoReader
                 /\ Goto("idle")
                 /\ UNCHANGED <<reader, made, readerVars, stream, dyingVars, mainVars,
                                senders, commands, fault, restarted, history>>

\* replaceTrack: an error without a reader; otherwise open creates the receiver or
\* connects it to another source, and throws if it does not find it.
ReplaceTrack == /\ Begin("idle")
                /\ opened' \in {opened, opened \cup ({reader} \ {NoReader})}
                /\ UNCHANGED <<reader, made, running, thread, freed, dyingVars, mainVars,
                               senders, fault, restarted, failed, added>>

(* The main thread. *)

\* ICE gathering begins, or begins again.
GatheringBegins == /\ main = "loop"
                   /\ gathering # "gathering"
                   /\ completions < MaxCompletions
                   /\ gathering' = "gathering"
                   /\ UNCHANGED <<reader, made, readerVars, runner, stream, dyingVars,
                                  main, startee, completions, senders, commands, fault,
                                  restarted, history>>

\* OnIceGatheringChange(complete): reads reader.
GatheringCompletes == /\ main = "loop"
                      /\ gathering = "gathering"
                      /\ gathering' = "complete"
                      /\ completions' = completions + 1
                      /\ startee' = reader
                      /\ main' = IF reader # NoReader THEN "startFlag" ELSE "loop"
                      /\ overlap' = (overlap \/ runner # "idle")
                      /\ UNCHANGED <<reader, made, readerVars, runner, stream, dyingVars,
                                     senders, commands, fault, restarted, failed, added>>

MainStartFlag == /\ main = "startFlag"
                 /\ IF startee \in freed
                    THEN fault' = "freed" /\ UNCHANGED <<running, restarted, main>>
                    ELSE StartFlag(startee) /\ main' = "startThread" /\ UNCHANGED fault
                 /\ UNCHANGED <<reader, made, thread, opened, freed, runner, stream,
                                dyingVars, startee, gathering, completions, senders,
                                commands, history>>

MainStartThread == /\ main = "startThread"
                   /\ StartThread(startee)
                   /\ main' = "loop"
                   /\ UNCHANGED <<reader, made, running, opened, freed, runner, stream,
                                  dyingVars, startee, gathering, completions, senders,
                                  commands, restarted, history>>

\* STOP was read, the runner has returned, end closed the peer connection: ~PeerContext
\* destroys its members in reverse order, the reader before the context.
EndDestroysReader == /\ main = "loop"
                     /\ runner = "idle"
                     /\ main' = "end"
                     /\ dying' = reader
                     /\ reader' = NoReader
                     /\ UNCHANGED <<made, readerVars, runner, stream, joining, startee,
                                    gathering, completions, senders, commands, fault,
                                    restarted, history>>

\* The device modules are released with the context.
EndDestroysContext == /\ main = "end"
                      /\ dying = NoReader
                      /\ main' = "done"
                      /\ UNCHANGED <<reader, made, readerVars, runner, stream, dyingVars,
                                     startee, gathering, completions, senders, commands,
                                     fault, restarted, history>>

Stopped == (main = "done" \/ fault # "none") /\ UNCHANGED vars

RunnerStep == \/ AddOpen \/ AddStartFlag \/ AddStartThread \/ RemoveCheck \/ RemoveJoin
              \/ RemoveReturns
MarshalledStep == AddSenders \/ AddCheck \/ RemoveSenders
DestructorStep == DestroyCheck \/ DestroyJoin
MainStep == MainStartFlag \/ MainStartThread \/ EndDestroysContext
ClientStep == AddTrack \/ RemoveTrack \/ ReplaceTrack \/ EndDestroysReader

Next == \/ /\ fault = "none"
           /\ \/ RunnerStep \/ MarshalledStep \/ DestructorStep \/ MainStep \/ ClientStep
              \/ GatheringBegins \/ GatheringCompletes
              \/ \E r \in Reader : Capture(r) \/ RunReturns(r)
        \/ Stopped

Running(A) == fault = "none" /\ A

(***************************************************************************)
(* Every thread is scheduled; a marshalled call is served although the     *)
(* main thread is elsewhere now and then.  Neither the client nor ICE owes *)
(* anything.                                                               *)
(***************************************************************************)
Fairness == /\ WF_vars(Running(RunnerStep))
            /\ SF_vars(Running(MarshalledStep))
            /\ WF_vars(Running(DestructorStep))
            /\ WF_vars(Running(MainStep))
            /\ \A r \in Reader : WF_vars(Running(RunReturns(r)))

Spec == Init /\ [][Next]_vars

FairSpec == Spec /\ Fairness
-----------------------------------------------------------------------------
\* The types of the variables; the member reader never refers to a destroyed object.
TypeOK == /\ reader \in (0..made) \ freed
          /\ made \in 0..MaxReaders
          /\ running \in [Reader -> BOOLEAN]
          /\ thread \in [Reader -> {"none", "loop", "exited"}]
          /\ opened \subseteq 1..made
          /\ freed \subseteq 1..made
          /\ runner \in {"idle", "open", "addSenders", "addCheck", "startFlag",
                         "startThread", "removeSenders", "removeCheck", "removeJoin",
                         "removeDestroy"}
          /\ stream \in Stream
          /\ dying \in 0..made
          /\ joining \in BOOLEAN
          /\ main \in {"loop", "startFlag", "startThread", "end", "done"}
          /\ startee \in 0..made
          /\ gathering \in {"new", "gathering", "complete"}
          /\ senders \subseteq added
          /\ commands \in 0..MaxCommands
          /\ completions \in 0..MaxCompletions
          /\ fault \in {"none", "null", "freed", "terminate"}
          /\ restarted \in BOOLEAN
          /\ overlap \in BOOLEAN
          /\ failed \subseteq 1..made
          /\ added \subseteq Stream

\* assert(!running.load()) in NDIReader::start.
StartsIdle == ~restarted

\* A reader is started a second time, and the process ended by the assignment of its
\* thread, only if gathering completed twice or during a track command.
StartsOnce == restarted \/ fault = "terminate" => overlap \/ completions > 1

\* The main thread uses a destroyed reader only if gathering completed during a command.
NoUseAfterFree == fault = "freed" => overlap

\* removeTrack finds no reader only if there was another stream: the first removeTrack
\* destroyed the reader the two share.
NullAfterTwoStreams == fault = "null" => Cardinality(added) > 1

\* Two threads never feed the device modules at once, unless gathering completes
\* during an addTrack that still waits for the old reader to end.
OneCapture == ~overlap => Cardinality({r \in Reader : thread[r] = "loop"}) <= 1

\* A thread captures from a receiver that exists, unless gathering completed during a
\* command, or the reader is what a failed addTrack left.
CapturesOpened == \A r \in Reader :
    thread[r] = "loop" => r \in opened \/ overlap \/ r \in failed

\* Between commands, a reader that addTrack reported captures once gathering is complete,
\* whichever of the two came first, as long as they did not overlap.
CapturesWhenComplete ==
    runner = "idle" /\ main = "loop" /\ gathering = "complete" /\ fault = "none" /\ ~overlap
    /\ reader \notin failed \cup {NoReader}
        => running[reader] /\ thread[reader] = "loop"

\* No thread outlives the device modules it feeds, and none is left at the end.
ThreadsEndFirst == main = "done" => \A r \in Reader : thread[r] = "none"

\* Each way to end the process, or to use a reader that is not there, and the overlap of
\* threads without which it cannot happen.
ReaderInv == /\ TypeOK /\ StartsOnce /\ NoUseAfterFree /\ NullAfterTwoStreams
             /\ CapturesOpened /\ ThreadsEndFirst

\* A track command returns: stop never waits for a thread that does not end.
CommandReturns == runner # "idle" ~> runner = "idle" \/ fault # "none"

\* The worker's exit is not held up by a reader.
EndReturns == main = "end" ~> main = "done" \/ fault # "none"
=============================================================================
