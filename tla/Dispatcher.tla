----------------------------- MODULE Dispatcher -----------------------------
(***************************************************************************)
(* The two loops of class Dispatcher and the replies of class PeerContext. *)
(*                                                                         *)
(* The main thread (run) is also WebRTC's signaling thread: it alternates  *)
(* between processing messages, in which it executes the calls marshalled  *)
(* to it and the observers, and printing what was sent.  The runner thread *)
(* (dispatch) reads one command line after the other and executes it; a    *)
(* call to the peer connection blocks it until the main thread serves it.  *)
(*                                                                         *)
(* send and the copy in commitBuffer are atomic here: module Signaling     *)
(* shows that they may be taken as atomic.                                 *)
(***************************************************************************)
EXTENDS Naturals, Sequences

CONSTANTS Command,      \* the commands the client uses
          MaxLines,     \* bound on the command lines of a behaviour
          MaxEvents     \* bound on the state messages of a behaviour

Described == {"setRemoteDescription", "setLocalDescription"}
Created == {"createOffer", "createAnswer"}
Stats == {"getStats", "getStatsOld"}
Listed == {"getSenders", "getReceivers"}
KnownCommand == Described \cup Created \cup Stats \cup Listed \cup
    {"createPeer", "findNDISources", "addIceCandidate", "createDataChannel",
     "sendDataMessage", "addTrack", "removeTrack", "replaceTrack"}

ASSUME DispatcherAssumption == /\ Command \subseteq KnownCommand \cup {"unknown"}
                               /\ MaxLines \in Nat
                               /\ MaxEvents \in Nat

VARIABLES main,         \* where the main thread is in run
          runner,       \* where the runner thread is in dispatch and exec
          finished,     \* Dispatcher::finished
          stdin,        \* "open", or "closed" once the client closed it
          line,         \* the number of command lines read: identifies them
          command,      \* the command being executed
          todo,         \* what is left to do for it
          peer,         \* PeerContext::hasPeer()
          pending,      \* the lines whose observer has not been called yet
          events,       \* the number of state messages sent
          buffer,       \* Signaling::buffer
          current,      \* commitBuffer's copy of it
          stdout        \* what was printed

mainVars == <<main, current, stdout>>
runnerVars == <<runner, line, command, todo>>
vars == <<mainVars, runnerVars, finished, stdin, peer, pending, events, buffer>>

-----------------------------------------------------------------------------
(* What the code does for a command. *)

\* The things a handler does, in order: "call" is a call marshalled to the main
\* thread, "post" one that leaves an observer to be called later, "assign" the
\* assignment of the new peer connection, "throw" an exception that reaches
\* dispatch; the others send a reply.
Step == {"call", "post", "assign", "ok", "error", "wrongError", "throw"}

\* payload.value() throws on a payload of an unexpected type, opening a reader
\* when its source is not found.
Fails == <<"throw">>

\* The lines sent to the client.  replaceTrack names addTrack in one of its errors.
Reply(l, c, s) == [line |-> l, ok |-> s = "ok",
                   command |-> IF s = "wrongError" THEN "addTrack" ELSE c]
State == [line |-> 0, ok |-> TRUE, command |-> "state"]
Message == [line : 0..MaxLines, ok : BOOLEAN, command : KnownCommand \cup {"unknown", "state"}]

Send(m) == buffer' = Append(buffer, m)

\* Everything sent so far, in order.
Accepted == stdout \o (current \o buffer)

-----------------------------------------------------------------------------
(***************************************************************************)
(* Faulty variants of the definitions below, one per property stated at    *)
(* the end: the property must tell the code from the variant.              *)
(***************************************************************************)

\* An error path of addIceCandidate falls through to its replyOk.
HandlersFallThrough(c, hasPeer) ==
    IF hasPeer /\ c = "addIceCandidate" THEN {<<"error", "ok">>, <<"call", "ok">>}
    ELSE IF hasPeer THEN {<<"post">>} ELSE {<<"call", "assign", "ok">>}

\* createPeer replies before it has assigned the peer connection.
HandlersReplyEarly(c, hasPeer) ==
    IF hasPeer THEN {<<"post">>} ELSE {<<"call", "ok", "assign">>}

\* The reply carries the identity of the line that follows.
SendReplyOfNext == /\ runner = "run"
                   /\ todo # <<>>
                   /\ Head(todo) \in {"ok", "error", "wrongError"}
                   /\ Send(Reply(line + 1, command, Head(todo)))
                   /\ todo' = Tail(todo)
                   /\ UNCHANGED <<mainVars, runner, line, command, finished, stdin,
                                  peer, pending, events>>

\* The main loop stops by itself when the client is gone.
TestClosed == /\ main = "test"
              /\ main' = IF finished \/ stdin = "closed" THEN "join" ELSE "process"
              /\ UNCHANGED <<runnerVars, finished, stdin, peer, pending,
                             events, buffer, current, stdout>>

\* The main loop does not look at finished.
TestNothing == /\ main = "test"
               /\ main' = "process"
               /\ UNCHANGED <<runnerVars, finished, stdin, peer, pending,
                              events, buffer, current, stdout>>

\* The runner is detached instead of joined.
JoinNothing == /\ main = "join"
               /\ main' = "end"
               /\ UNCHANGED <<runnerVars, finished, stdin, peer, pending,
                              events, buffer, current, stdout>>

\* The buffer is not cleared once copied.
TakeCopy == /\ main = "commit"
            /\ current' = buffer
            /\ main' = "print"
            /\ UNCHANGED <<runnerVars, finished, stdin, peer, pending, events, buffer, stdout>>

\* Nothing is committed for a client that closed its end.
LeaveUncommitted == /\ main = "process"
                    /\ main' = IF stdin = "open" THEN "commit" ELSE "test"
                    /\ UNCHANGED <<runnerVars, finished, stdin, peer, pending,
                                   events, buffer, current, stdout>>

\* The call is executed but the thread that waits for it is not woken.
ServeAsleep == /\ main = "process"
               /\ runner = "calling"
               /\ pending' = IF Head(todo) = "post"
                             THEN pending \cup {[line |-> line, command |-> command]}
                             ELSE pending
               /\ UNCHANGED <<mainVars, runnerVars, finished, stdin, peer, events, buffer>>

\* Observers are called only from within a marshalled call.
CompleteInCall(p) == /\ main = "process"
                     /\ runner = "calling"
                     /\ p \in pending
                     /\ pending' = pending \ {p}
                     /\ Send(Reply(p.line, p.command, "ok"))
                     /\ UNCHANGED <<mainVars, runnerVars, finished, stdin, peer, events>>

-----------------------------------------------------------------------------
(* The definitions of the code. *)

(* The handlers of PeerContext, by the outcome of what they call. *)

\* The configurations of the writers are parsed after the assignment; a bad one throws.
createPeer == {Fails, <<"call", "throw">>, <<"call", "assign", "throw">>,
               <<"call", "assign", "ok">>}

findNDISources == {<<"ok">>, Fails}

addIceCandidate == {Fails, <<"error">>, <<"call", "ok">>}

\* setRemoteDescription, setLocalDescription: an error if the description does not parse.
setDescription == {Fails, <<"error">>, <<"post">>}

\* createAnswer, createOffer
createDescription == {Fails, <<"post">>}

\* getStats, getStatsOld
getStats == {<<"post">>}

\* getSenders, getReceivers: one call for the list, others for each track.
listTracks == {<<"call", "ok">>, <<"call", "call", "ok">>}

createDataChannel == {Fails, <<"error">>, <<"call", "call", "ok">>}

\* Send, and state() if it failed.
sendDataMessage == {Fails, <<"error">>, <<"call", "ok">>, <<"call", "call", "error">>}

\* The early returns of the validation and of the reader, then AddTrack for each kind.
addTrack == {Fails, <<"error">>, <<"call", "error">>, <<"call", "call", "ok">>}

\* join may throw when the reader is stopped.
removeTrack == {Fails, <<"call", "throw">>, <<"call", "error">>, <<"call", "ok">>}

replaceTrack == {Fails, <<"error">>, <<"wrongError">>, <<"ok">>}

\* The cases of exec for command c, depending on hasPeer(); a command without a case
\* of its own is ignored.
Handlers(c, hasPeer) ==
    CASE ~hasPeer /\ c = "createPeer" -> createPeer
      [] ~hasPeer /\ c = "findNDISources" -> findNDISources
      [] ~hasPeer /\ c \notin {"createPeer", "findNDISources"} -> {<<"throw">>}
      [] hasPeer /\ c = "createPeer" -> {<<"throw">>}
      [] hasPeer /\ c = "addIceCandidate" -> addIceCandidate
      [] hasPeer /\ c \in Described -> setDescription
      [] hasPeer /\ c \in Created -> createDescription
      [] hasPeer /\ c \in Stats -> getStats
      [] hasPeer /\ c \in Listed -> listTracks
      [] hasPeer /\ c = "createDataChannel" -> createDataChannel
      [] hasPeer /\ c = "sendDataMessage" -> sendDataMessage
      [] hasPeer /\ c = "addTrack" -> addTrack
      [] hasPeer /\ c = "removeTrack" -> removeTrack
      [] hasPeer /\ c = "replaceTrack" -> replaceTrack
      [] OTHER -> {<<>>}

\* What each observer can be called with: a description is set or not, one is created
\* and serialized or not, statistics are only delivered.
SetAnswer == {"ok", "error"}
CreateAnswer == {"ok", "error"}
StatsAnswer == {"ok"}
ObserverAnswer(c) == IF c \in Stats THEN StatsAnswer
                     ELSE IF c \in Created THEN CreateAnswer ELSE SetAnswer

-----------------------------------------------------------------------------
Init == /\ main = "start"
        /\ runner = "unborn"
        /\ finished = FALSE
        /\ stdin = "open"
        /\ line = 0
        /\ command = "unknown"
        /\ todo = <<>>
        /\ peer = FALSE
        /\ pending = {}
        /\ events = 0
        /\ buffer = <<>>
        /\ current = <<>>
        /\ stdout = <<>>

(* The main thread: Dispatcher::run. *)

\* peer->start(), then the runner thread is created.
Start == /\ main = "start"
         /\ main' = "test"
         /\ runner' = "test"
         /\ UNCHANGED <<finished, stdin, line, command, todo, peer, pending,
                        events, buffer, current, stdout>>

\* The condition of the loop.
TestFinished == /\ main = "test"
                /\ main' = IF finished THEN "join" ELSE "process"
                /\ UNCHANGED <<runnerVars, finished, stdin, peer, pending,
                               events, buffer, current, stdout>>

\* In processMessages: the call the runner waits for is executed.
ServeCall == /\ main = "process"
             /\ runner = "calling"
             /\ runner' = "run"
             /\ todo' = Tail(todo)
             /\ pending' = IF Head(todo) = "post"
                           THEN pending \cup {[line |-> line, command |-> command]}
                           ELSE pending
             /\ UNCHANGED <<mainVars, finished, stdin, line, command, peer, events, buffer>>

\* In processMessages, or in the Close of end: an observer is called.
Complete(p) == /\ main \in {"process", "end"}
               /\ p \in pending
               /\ pending' = pending \ {p}
               /\ \E s \in ObserverAnswer(p.command) : Send(Reply(p.line, p.command, s))
               /\ UNCHANGED <<mainVars, runnerVars, finished, stdin, peer, events>>

\* In processMessages, or in the Close of end: the peer connection reports a change of
\* state, a candidate, a track or a message.  What these callbacks do beside that to the
\* channel and the reader is in DataChannel and ReaderLifecycle.
Event == /\ main \in {"process", "end"}
         /\ peer
         /\ events < MaxEvents
         /\ events' = events + 1
         /\ Send(State)
         /\ UNCHANGED <<mainVars, runnerVars, finished, stdin, peer, pending>>

\* processMessages returns after its 100 ms.
LeaveProcess == /\ main = "process"
                /\ main' = "commit"
                /\ UNCHANGED <<runnerVars, finished, stdin, peer, pending,
                               events, buffer, current, stdout>>

\* commitBuffer, under the mutex.
TakeBuffer == /\ main = "commit"
              /\ current' = buffer
              /\ buffer' = <<>>
              /\ main' = "print"
              /\ UNCHANGED <<runnerVars, finished, stdin, peer, pending, events, stdout>>

\* commitBuffer, after the mutex is released.
PrintLine == /\ main = "print"
             /\ current # <<>>
             /\ stdout' = Append(stdout, Head(current))
             /\ current' = Tail(current)
             /\ UNCHANGED <<main, runnerVars, finished, stdin, peer, pending, events, buffer>>

CommitReturns == /\ main = "print"
                 /\ current = <<>>
                 /\ main' = "test"
                 /\ UNCHANGED <<runnerVars, finished, stdin, peer, pending,
                                events, buffer, current, stdout>>

\* runner.join() returns.
Join == /\ main = "join"
        /\ runner = "done"
        /\ main' = "end"
        /\ UNCHANGED <<runnerVars, finished, stdin, peer, pending,
                       events, buffer, current, stdout>>

\* peer->end() is over, and main returns: nothing is printed any more.
End == /\ main = "end"
       /\ main' = "done"
       /\ peer' = FALSE
       /\ UNCHANGED <<runnerVars, finished, stdin, pending, events, buffer, current, stdout>>

(* The runner thread: Dispatcher::dispatch and exec. *)

\* The condition of the loop.
RunnerTest == /\ runner = "test"
              /\ runner' = IF finished THEN "leaving" ELSE "receive"
              /\ UNCHANGED <<mainVars, line, command, todo, finished, stdin,
                             peer, pending, events, buffer>>

\* A line with a command arrives.
Receive(c) == /\ runner = "receive"
              /\ stdin = "open"
              /\ line < MaxLines
              /\ line' = line + 1
              /\ command' = c
              /\ \E h \in Handlers(c, peer) : todo' = h
              /\ runner' = "run"
              /\ UNCHANGED <<mainVars, finished, stdin, peer, pending, events, buffer>>

\* A line that is not a JSON object: the exception is caught in the loop.
ReceiveBadLine == /\ runner = "receive"
                  /\ stdin = "open"
                  /\ runner' = "test"
                  /\ UNCHANGED <<mainVars, line, command, todo, finished, stdin,
                                 peer, pending, events, buffer>>

\* At the end of stdin getline leaves an empty line, which does not parse.
ReceiveNothing == /\ runner = "receive"
                  /\ stdin = "closed"
                  /\ runner' = "test"
                  /\ UNCHANGED <<mainVars, line, command, todo, finished, stdin,
                                 peer, pending, events, buffer>>

\* The line STOP: finished is set, then the loop is left.
ReceiveStop == /\ runner = "receive"
               /\ stdin = "open"
               /\ finished' = TRUE
               /\ runner' = "leaving"
               /\ UNCHANGED <<mainVars, line, command, todo, stdin,
                              peer, pending, events, buffer>>

DispatchReturns == /\ runner = "leaving"
                   /\ runner' = "done"
                   /\ UNCHANGED <<mainVars, line, command, todo, finished, stdin,
                                  peer, pending, events, buffer>>

\* The next step of the handler is a call marshalled to the main thread.
Call == /\ runner = "run"
        /\ todo # <<>>
        /\ Head(todo) \in {"call", "post"}
        /\ runner' = "calling"
        /\ UNCHANGED <<mainVars, line, command, todo, finished, stdin,
                       peer, pending, events, buffer>>

\* pc = context->createPeerConnection(this), after the call.
AssignPeer == /\ runner = "run"
              /\ todo # <<>>
              /\ Head(todo) = "assign"
              /\ peer' = TRUE
              /\ todo' = Tail(todo)
              /\ UNCHANGED <<mainVars, runner, line, command, finished, stdin,
                             pending, events, buffer>>

\* signaling->replyOk, replyWithPayload or replyError.
SendReply == /\ runner = "run"
             /\ todo # <<>>
             /\ Head(todo) \in {"ok", "error", "wrongError"}
             /\ Send(Reply(line, command, Head(todo)))
             /\ todo' = Tail(todo)
             /\ UNCHANGED <<mainVars, runner, line, command, finished, stdin,
                            peer, pending, events>>

\* The exception is caught and reported on stderr: the client gets no reply.
Throw == /\ runner = "run"
         /\ todo # <<>>
         /\ Head(todo) = "throw"
         /\ todo' = <<>>
         /\ runner' = "test"
         /\ UNCHANGED <<mainVars, line, command, finished, stdin,
                        peer, pending, events, buffer>>

ExecReturns == /\ runner = "run"
               /\ todo = <<>>
               /\ runner' = "test"
               /\ UNCHANGED <<mainVars, line, command, todo, finished, stdin,
                              peer, pending, events, buffer>>

(* The client, and the system as a whole. *)

CloseInput == /\ stdin = "open"
              /\ ~finished
              /\ stdin' = "closed"
              /\ UNCHANGED <<mainVars, runnerVars, finished, peer, pending, events, buffer>>

\* The process has exited.
Exited == main = "done" /\ UNCHANGED vars

MainStep == \/ Start \/ TestFinished \/ LeaveProcess \/ TakeBuffer
            \/ PrintLine \/ CommitReturns \/ Join \/ End

\* The steps of the runner that do not wait for the client or the main thread.
RunnerStep == \/ RunnerTest \/ ReceiveNothing \/ Call \/ AssignPeer
              \/ SendReply \/ Throw \/ ExecReturns \/ DispatchReturns

ClientStep == \/ \E c \in Command : Receive(c)
              \/ ReceiveBadLine \/ ReceiveStop \/ CloseInput

Next == \/ MainStep \/ ServeCall \/ Event \/ \E p \in pending : Complete(p)
        \/ RunnerStep \/ ClientStep
        \/ Exited

(***************************************************************************)
(* Both threads are scheduled.  The client owes nothing.  processMessages  *)
(* serves a marshalled call whenever it finds one (rtc::Thread::Get looks  *)
(* at the send list first), and an observer is posted to the queue it      *)
(* empties: each is executed if the loop keeps coming back to it, which is *)
(* strong fairness, the loop being elsewhere in between.                   *)
(***************************************************************************)
Fairness == /\ WF_vars(MainStep)
            /\ WF_vars(RunnerStep)
            /\ SF_vars(ServeCall)
            /\ \A n \in 1..MaxLines :
                  SF_vars(main = "process" /\ \E p \in pending : p.line = n /\ Complete(p))

Spec == Init /\ [][Next]_vars

FairSpec == Spec /\ Fairness
-----------------------------------------------------------------------------
Looping == {"test", "process", "commit", "print"}

\* The types of the variables.
TypeOK == /\ main \in {"start", "join", "end", "done"} \cup Looping
          /\ runner \in {"unborn", "test", "receive", "run", "calling", "leaving", "done"}
          /\ finished \in BOOLEAN
          /\ stdin \in {"open", "closed"}
          /\ line \in 0..MaxLines
          /\ command \in Command \cup {"unknown"}
          /\ todo \in Seq(Step)
          /\ peer \in BOOLEAN
          /\ pending \subseteq [line : 1..MaxLines, command : Command \cup {"unknown"}]
          /\ events \in 0..MaxEvents
          /\ buffer \in Seq(Message)
          /\ current \in Seq(Message)
          /\ stdout \in Seq(Message)

\* A runner blocked in a marshalled call is never abandoned: the main thread is
\* still in its loop and will not leave it, because only the runner itself sets
\* finished.  Otherwise run would wait in join for a thread that waits for it.
CallIsServed == runner = "calling" => main \in Looping /\ ~finished

\* peer->end() destroys the peer connection only when no command can use it any
\* more: the runner is joined first, and the client asked to stop.
EndIsLast == main \in {"end", "done"} => finished /\ runner = "done"

\* The two loops are safe for each other: the runner's calls are served, and the peer
\* connection is there until it has no more calls.
LoopsInv == TypeOK /\ CallIsServed /\ EndIsLast

\* A command line is answered at most once, by the runner or by an observer,
\* whatever path its handler took; and not while its observer is still to come.
OneReply == /\ \A i, j \in 1..Len(Accepted) :
                  Accepted[i].line = Accepted[j].line /\ Accepted[i].line # 0 => i = j
            /\ \A p \in pending, i \in 1..Len(Accepted) : Accepted[i].line # p.line
            /\ \A p, q \in pending : p.line = q.line => p = q

\* What makes CallIsServed and EndIsLast inductive: who sets finished and when,
\* and what the runner has in hand while it waits for the main thread.
ThreadInv == /\ runner = "unborn" <=> main = "start"
             /\ finished <=> runner \in {"leaving", "done"}
             /\ main \in {"join", "end", "done"} => finished
             /\ main \in {"end", "done"} => runner = "done"
             /\ runner \in {"run", "calling"} => line > 0
             /\ runner = "calling" => todo # <<>> /\ Head(todo) \in {"call", "post"}
             /\ main # "print" => current = <<>>

\* The steps of a handler that answer, now or later; a handler has one at most.
Answer == {"post", "ok", "error", "wrongError"}
OneAnswer(h) == \A i, j \in 1..Len(h) : h[i] \in Answer /\ h[j] \in Answer => i = j

\* What makes OneReply inductive: nothing is answered that was not read, and a
\* handler that is still to answer has not answered.
AnswerInv == /\ OneAnswer(todo)
             /\ runner \notin {"run", "calling"} => todo = <<>>
             /\ \A i \in 1..Len(Accepted) : Accepted[i].line <= line
             /\ \A p \in pending : p.line <= line
             /\ (\E k \in 1..Len(todo) : todo[k] \in Answer) =>
                   /\ \A i \in 1..Len(Accepted) : Accepted[i].line # line
                   /\ \A p \in pending : p.line # line

DispatcherInv == TypeOK /\ ThreadInv /\ AnswerInv /\ OneReply

\* A client that has been told that its peer was created has one until the end,
\* and one it was not told of may exist too: createPeer can fail after it.
PeerWasCreated ==
    (\E i \in 1..Len(Accepted) : Accepted[i].ok /\ Accepted[i].command = "createPeer")
        => peer \/ main = "done"

\* What makes PeerWasCreated inductive: createPeer answers nothing but its own success,
\* after the assignment, and no observer answers for it.
CreateInv == /\ command = "createPeer" =>
                   \A k \in 1..Len(todo) :
                      /\ todo[k] # "post"
                      /\ todo[k] = "ok" => peer \/ \E j \in 1..k : todo[j] = "assign"
             /\ \A p \in pending : p.command # "createPeer"

\* What the client reads is a prefix of what was sent, in the order it was sent
\* by the runner and by the observers; lines may be missing only at its end.
Channel == INSTANCE OutputChannel
             WITH Line <- Message, accepted <- Accepted, printed <- stdout

ChannelSpec == Channel!Spec

\* The worker exits once it has read STOP, from whatever it was doing.
StopEnds == finished ~> main = "done"

\* A marshalled call returns, so no command blocks the runner for good.
CallReturns == runner = "calling" ~> runner # "calling"

\* A command that waits for an observer is answered, unless the client says STOP.
PostedIsAnswered == \A n \in 1..MaxLines :
    (\E p \in pending : p.line = n) ~> finished \/ (\A p \in pending : p.line # n)

\* What was sent is printed, unless the client says STOP: the loop ends without
\* a last commitBuffer, so that what is sent meanwhile is lost.
SentIsPrinted == \A n \in 1..(MaxLines + MaxEvents) :
    Len(Accepted) >= n ~> Len(stdout) >= n \/ finished
=============================================================================
