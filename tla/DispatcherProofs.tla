-------------------------- MODULE DispatcherProofs --------------------------
(***************************************************************************)
(* The loops of Dispatcher for every set of commands and every bound: the  *)
(* runner is never left waiting in a marshalled call, the peer connection  *)
(* outlives the runner, no command is answered twice, and stdout receives  *)
(* a prefix of what was sent.                                              *)
(***************************************************************************)
EXTENDS Dispatcher, SequenceTheorems, TLAPS

USE DispatcherAssumption

Names == Command \cup {"unknown"}

\* Every handler is a sequence of known steps, of which at most one answers.
LEMMA HandlerSteps ==
  ASSUME NEW c, NEW p \in BOOLEAN, NEW h \in Handlers(c, p)
  PROVE  h \in Seq(Step) /\ OneAnswer(h)
<1> DEFINE H == {<<>>, Fails, <<"call", "throw">>, <<"call", "assign", "throw">>,
                 <<"call", "assign", "ok">>, <<"ok">>, <<"error">>, <<"call", "ok">>,
                 <<"post">>, <<"call", "call", "ok">>, <<"call", "call", "error">>,
                 <<"call", "error">>, <<"wrongError">>}
<1>1. h \in H
  <2>1. CASE ~p
    BY <2>1 DEF Handlers, createPeer, findNDISources, Fails
  <2>2. CASE p /\ c \in Described \cup Created \cup Stats \cup Listed
    BY <2>2 DEF Handlers, Described, Created, Stats, Listed, setDescription,
                createDescription, getStats, listTracks, Fails
  <2>3. CASE p /\ c \notin Described \cup Created \cup Stats \cup Listed
    <3>1. c \notin Described /\ c \notin Created /\ c \notin Stats /\ c \notin Listed
      BY <2>3
    <3>2. CASE c \in {"createPeer", "addIceCandidate", "createDataChannel", "sendDataMessage"}
      BY <2>3, <3>1, <3>2 DEF Handlers, addIceCandidate, createDataChannel,
                                  sendDataMessage, Fails
    <3>3. CASE c \in {"addTrack", "removeTrack", "replaceTrack"}
      BY <2>3, <3>1, <3>3 DEF Handlers, addTrack, removeTrack, replaceTrack, Fails
    <3>4. CASE c \notin KnownCommand \/ c = "findNDISources"
      BY <2>3, <3>1, <3>4 DEF Handlers, KnownCommand
    <3>5. QED
      BY <2>3, <3>2, <3>3, <3>4 DEF KnownCommand
  <2>4. QED
    BY <2>1, <2>2, <2>3
<1>2. CASE h = <<>>
  BY <1>2 DEF OneAnswer
<1>3. CASE \E a \in Step : h = <<a>>
  <2>1. PICK a \in Step : h = <<a>>
    BY <1>3
  <2>2. h \in Seq(Step)
    BY <2>1
  <2>3. Len(h) = 1
    BY <2>1
  <2>4. QED
    BY <2>2, <2>3 DEF OneAnswer
<1>4. CASE \E b \in Step : h = <<"call", b>>
  <2>1. PICK b \in Step : h = <<"call", b>>
    BY <1>4
  <2>2. h \in Seq(Step)
    BY <2>1 DEF Step
  <2>3. Len(h) = 2 /\ h[1] \notin Answer
    BY <2>1 DEF Answer
  <2>4. QED
    BY <2>2, <2>3 DEF OneAnswer
<1>5. CASE \E b \in {"call", "assign"}, d \in Step : h = <<"call", b, d>>
  <2>1. PICK b \in {"call", "assign"}, d \in Step : h = <<"call", b, d>>
    BY <1>5
  <2>2. h \in Seq(Step)
    BY <2>1 DEF Step
  <2>3. Len(h) = 3 /\ h[1] \notin Answer /\ h[2] \notin Answer
    BY <2>1 DEF Answer
  <2>4. QED
    BY <2>2, <2>3 DEF OneAnswer
<1>6. QED
  BY <1>1, <1>2, <1>3, <1>4, <1>5 DEF Fails, Step

\* What remains of a handler after its first step is a handler again.
LEMMA RestOfHandler ==
  ASSUME TypeOK, todo # <<>>, OneAnswer(todo)
  PROVE  /\ Tail(todo) \in Seq(Step) /\ OneAnswer(Tail(todo))
         /\ Head(todo) = todo[1] /\ Head(todo) \in Step
         /\ Len(Tail(todo)) = Len(todo) - 1 /\ Len(todo) \in Nat \ {0}
         /\ \A k \in 1..Len(Tail(todo)) : Tail(todo)[k] = todo[k + 1]
         /\ todo[1] \in Answer => \A k \in 1..Len(Tail(todo)) : Tail(todo)[k] \notin Answer
<1>1. todo \in Seq(Step) /\ Len(todo) \in Nat \ {0}
  BY LenProperties, EmptySeq DEF TypeOK
<1>2. /\ Tail(todo) \in Seq(Step) /\ Head(todo) \in Step /\ Head(todo) = todo[1]
      /\ Len(Tail(todo)) = Len(todo) - 1
      /\ \A k \in 1..Len(Tail(todo)) : Tail(todo)[k] = todo[k + 1]
  BY <1>1, HeadTailProperties
<1>3. OneAnswer(Tail(todo))
  BY <1>1, <1>2 DEF OneAnswer
<1>4. ASSUME todo[1] \in Answer, NEW k \in 1..Len(Tail(todo)) PROVE Tail(todo)[k] \notin Answer
  BY <1>1, <1>2, <1>4 DEF OneAnswer
<1>5. QED
  BY <1>1, <1>2, <1>3, <1>4

\* The lines the runner and the observers send are messages.
LEMMA ReplyType ==
  ASSUME NEW l \in 0..MaxLines, NEW c \in Names, NEW s
  PROVE  Reply(l, c, s) \in Message /\ Reply(l, c, s).line = l
BY DEF Reply, Message, Names, KnownCommand

LEMMA StateType == State \in Message /\ State.line = 0
BY DEF State, Message

\* Sending appends one message to what was accepted.
LEMMA SendAccepts ==
  ASSUME TypeOK, NEW m \in Message, Send(m), UNCHANGED <<current, stdout>>
  PROVE  /\ Accepted \in Seq(Message) /\ Accepted' \in Seq(Message)
         /\ Accepted' = Append(Accepted, m)
         /\ buffer' \in Seq(Message)
<1>1. current \in Seq(Message) /\ buffer \in Seq(Message) /\ stdout \in Seq(Message)
  BY DEF TypeOK
<1>2. current \o buffer \in Seq(Message)
  BY <1>1, ConcatProperties
<1>3. Accepted \in Seq(Message)
  BY <1>1, <1>2, ConcatProperties DEF Accepted
<1>4. current \o Append(buffer, m) = Append(current \o buffer, m)
  BY <1>1, AppendIsConcat, ConcatAssociative, ConcatProperties
<1>5. stdout \o Append(current \o buffer, m) = Append(Accepted, m)
  BY <1>1, <1>2, AppendIsConcat, ConcatAssociative, ConcatProperties DEF Accepted
<1>6. Append(Accepted, m) \in Seq(Message) /\ Append(buffer, m) \in Seq(Message)
  BY <1>1, <1>3, AppendProperties
<1>7. QED
  BY <1>3, <1>4, <1>5, <1>6 DEF Accepted, Send

\* Taking the buffer and printing a line only move messages towards stdout.
LEMMA MovesKeepAccepted ==
  ASSUME TypeOK, ThreadInv, TakeBuffer \/ PrintLine
  PROVE  /\ Accepted' = Accepted
         /\ buffer' \in Seq(Message) /\ current' \in Seq(Message) /\ stdout' \in Seq(Message)
         /\ PrintLine => /\ Len(stdout) < Len(Accepted)
                         /\ stdout' = Append(stdout, Accepted[Len(stdout) + 1])
<1>1. current \in Seq(Message) /\ buffer \in Seq(Message) /\ stdout \in Seq(Message)
  BY DEF TypeOK
<1>2. CASE TakeBuffer
  <2>1. current = <<>> /\ current' = buffer /\ buffer' = <<>> /\ stdout' = stdout
    BY <1>2 DEF TakeBuffer, ThreadInv
  <2>2. current \o buffer = buffer /\ current' \o buffer' = buffer
    BY <1>1, <2>1, ConcatEmptySeq
  <2>3. ~PrintLine
    BY <1>2 DEF TakeBuffer, PrintLine
  <2>4. QED
    BY <1>1, <2>1, <2>2, <2>3 DEF Accepted
<1>3. CASE PrintLine
  <2>1. /\ current # <<>> /\ buffer' = buffer
        /\ stdout' = Append(stdout, Head(current)) /\ current' = Tail(current)
    BY <1>3 DEF PrintLine
  <2>2. /\ Head(current) \in Message /\ Tail(current) \in Seq(Message)
        /\ Append(stdout, Head(current)) \in Seq(Message)
        /\ Append(stdout, Head(current)) \o Tail(current) = stdout \o current
    <3>1. /\ Head(current) \in Message /\ Tail(current) \in Seq(Message)
          /\ <<Head(current)>> \in Seq(Message) /\ current = <<Head(current)>> \o Tail(current)
      BY <1>1, <2>1, HeadTailProperties
    <3>2. Append(stdout, Head(current)) = stdout \o <<Head(current)>>
      BY <1>1, <3>1, AppendIsConcat
    <3>3. QED
      BY <1>1, <3>1, <3>2, ConcatAssociative, AppendProperties
  <2>3. (stdout \o current) \o buffer = Accepted
    BY <1>1, ConcatAssociative DEF Accepted
  <2>4. stdout' \in Seq(Message) /\ current' \in Seq(Message) /\ buffer' \in Seq(Message)
    BY <1>1, <2>1, <2>2
  <2>5. Accepted' = (stdout' \o current') \o buffer'
    BY <2>4, ConcatAssociative DEF Accepted
  <2>6. Accepted' = Accepted
    BY <2>1, <2>2, <2>3, <2>5
  <2>7. Len(stdout) < Len(stdout \o current) /\ (stdout \o current)[Len(stdout) + 1] = Head(current)
    BY <1>1, <2>1, ConcatProperties, LenProperties, EmptySeq
  <2>8. stdout \o current \in Seq(Message)
    BY <1>1, ConcatProperties
  <2>9. /\ Len(Accepted) = Len(stdout \o current) + Len(buffer)
        /\ Len(buffer) \in Nat /\ Len(stdout) \in Nat /\ Len(stdout \o current) \in Nat
        /\ \A i \in 1..Len(stdout \o current) : Accepted[i] = (stdout \o current)[i]
    BY <1>1, <2>3, <2>8, ConcatProperties, LenProperties
  <2>10. Len(stdout) < Len(Accepted) /\ Accepted[Len(stdout) + 1] = Head(current)
    BY <2>7, <2>9
  <2>11. QED
    BY <2>1, <2>4, <2>6, <2>10
<1>4. QED
  BY <1>2, <1>3

-----------------------------------------------------------------------------
(* The steps, grouped by what they change. *)

\* The steps of the main thread that only move it in run.
MainMoves == Start \/ TestFinished \/ LeaveProcess \/ CommitReturns \/ Join \/ End

\* The steps of the runner and the client that leave the handler alone.
RunnerMoves == \/ RunnerTest \/ ReceiveNothing \/ Call \/ DispatchReturns \/ ExecReturns
               \/ ReceiveBadLine \/ ReceiveStop \/ CloseInput

LEMMA StepCases ==
  ASSUME [Next]_vars
  PROVE  \/ MainMoves \/ RunnerMoves \/ TakeBuffer \/ PrintLine \/ ServeCall
         \/ Event \/ (\E p \in pending : Complete(p))
         \/ AssignPeer \/ SendReply \/ Throw \/ (\E c \in Command : Receive(c))
         \/ UNCHANGED vars
BY DEF Next, MainStep, RunnerStep, ClientStep, Exited, MainMoves, RunnerMoves

LEMMA TypeStep == TypeOK /\ ThreadInv /\ OneAnswer(todo) /\ [Next]_vars => TypeOK'
<1> SUFFICES ASSUME TypeOK, ThreadInv, OneAnswer(todo), [Next]_vars PROVE TypeOK'
  OBVIOUS
<1> USE DEF TypeOK, mainVars, runnerVars, Looping
<1>1. CASE MainMoves
  BY <1>1 DEF MainMoves, Start, TestFinished, LeaveProcess, CommitReturns, Join, End
<1>2. CASE RunnerMoves
  BY <1>2 DEF RunnerMoves, RunnerTest, ReceiveNothing, Call, DispatchReturns, ExecReturns,
              ReceiveBadLine, ReceiveStop, CloseInput
<1>3. CASE TakeBuffer \/ PrintLine
  <2>1. buffer' \in Seq(Message) /\ current' \in Seq(Message) /\ stdout' \in Seq(Message)
    BY <1>3, MovesKeepAccepted
  <2>2. QED
    BY <1>3, <2>1 DEF TakeBuffer, PrintLine
<1>4. CASE ServeCall
  <2>1. todo # <<>> /\ Tail(todo) \in Seq(Step)
    BY <1>4, RestOfHandler DEF ServeCall, ThreadInv
  <2>2. [line |-> line, command |-> command] \in [line : 1..MaxLines, command : Names]
    BY <1>4 DEF ServeCall, ThreadInv, Names
  <2>3. pending' \subseteq [line : 1..MaxLines, command : Names]
    BY <1>4, <2>2 DEF ServeCall, Names
  <2>4. QED
    BY <1>4, <2>1, <2>3 DEF ServeCall, Names
<1>5. CASE Event
  <2>1. buffer' \in Seq(Message)
    BY <1>5, StateType, SendAccepts DEF Event
  <2>2. QED
    BY <1>5, <2>1 DEF Event
<1>6. ASSUME NEW p \in pending, Complete(p) PROVE TypeOK'
  <2>1. p.line \in 0..MaxLines /\ p.command \in Names
    BY DEF Names
  <2>2. PICK s : Send(Reply(p.line, p.command, s))
    BY <1>6 DEF Complete
  <2>3. buffer' \in Seq(Message)
    BY <1>6, <2>1, <2>2, ReplyType, SendAccepts DEF Complete
  <2>4. QED
    BY <1>6, <2>3 DEF Complete
<1>7. CASE AssignPeer
  <2>1. Tail(todo) \in Seq(Step)
    BY <1>7, RestOfHandler DEF AssignPeer
  <2>2. QED
    BY <1>7, <2>1 DEF AssignPeer
<1>8. CASE SendReply
  <2>1. Tail(todo) \in Seq(Step)
    BY <1>8, RestOfHandler DEF SendReply
  <2>2. buffer' \in Seq(Message)
    BY <1>8, ReplyType, SendAccepts DEF SendReply, Names
  <2>3. QED
    BY <1>8, <2>1, <2>2 DEF SendReply
<1>9. CASE Throw
  BY <1>9 DEF Throw
<1>10. ASSUME NEW c \in Command, Receive(c) PROVE TypeOK'
  <2>1. todo' \in Seq(Step)
    BY <1>10, HandlerSteps DEF Receive
  <2>2. line' \in 0..MaxLines
    BY <1>10 DEF Receive
  <2>3. QED
    BY <1>10, <2>1, <2>2 DEF Receive
<1>11. CASE UNCHANGED vars
  BY <1>11 DEF vars
<1>12. QED
  BY <1>1, <1>2, <1>3, <1>4, <1>5, <1>6, <1>7, <1>8, <1>9, <1>10, <1>11, StepCases

LEMMA ThreadStep == TypeOK /\ ThreadInv /\ [Next]_vars => ThreadInv'
<1> SUFFICES ASSUME TypeOK, ThreadInv, [Next]_vars PROVE ThreadInv'
  OBVIOUS
<1> USE DEF TypeOK, ThreadInv, mainVars, runnerVars, Looping
<1>1. CASE MainMoves
  BY <1>1 DEF MainMoves, Start, TestFinished, LeaveProcess, CommitReturns, Join, End
<1>2. CASE RunnerMoves
  BY <1>2 DEF RunnerMoves, RunnerTest, ReceiveNothing, Call, DispatchReturns, ExecReturns,
              ReceiveBadLine, ReceiveStop, CloseInput
<1>3. CASE TakeBuffer \/ PrintLine \/ Event \/ \E p \in pending : Complete(p)
  BY <1>3 DEF TakeBuffer, PrintLine, Event, Complete
<1>4. CASE ServeCall \/ AssignPeer \/ SendReply \/ Throw
  BY <1>4 DEF ServeCall, AssignPeer, SendReply, Throw
<1>5. CASE \E c \in Command : Receive(c)
  BY <1>5 DEF Receive
<1>6. CASE UNCHANGED vars
  BY <1>6 DEF vars
<1>7. QED
  BY <1>1, <1>2, <1>3, <1>4, <1>5, <1>6, StepCases

-----------------------------------------------------------------------------
(* At most one answer. *)

Unanswered(l) == /\ \A i \in 1..Len(Accepted) : Accepted[i].line # l
                 /\ \A p \in pending : p.line # l

ToAnswer(h) == \E k \in 1..Len(h) : h[k] \in Answer

LEMMA AcceptedType ==
  ASSUME TypeOK
  PROVE  Accepted \in Seq(Message) /\ Len(Accepted) \in Nat
<1>1. current \in Seq(Message) /\ buffer \in Seq(Message) /\ stdout \in Seq(Message)
  BY DEF TypeOK
<1>2. current \o buffer \in Seq(Message)
  BY <1>1, ConcatProperties
<1>3. Accepted \in Seq(Message)
  BY <1>1, <1>2, ConcatProperties DEF Accepted
<1>4. QED
  BY <1>3, LenProperties

\* A message for a line that is not answered, or a state message, can be sent.
LEMMA SendKeepsOneReply ==
  ASSUME TypeOK, NEW m \in Message, Send(m), UNCHANGED <<current, stdout>>,
         \A i, j \in 1..Len(Accepted) :
            Accepted[i].line = Accepted[j].line /\ Accepted[i].line # 0 => i = j,
         m.line # 0 => \A i \in 1..Len(Accepted) : Accepted[i].line # m.line
  PROVE  /\ \A i, j \in 1..Len(Accepted') :
               Accepted'[i].line = Accepted'[j].line /\ Accepted'[i].line # 0 => i = j
         /\ \A i \in 1..Len(Accepted') :
               \/ Accepted'[i].line = m.line
               \/ i \in 1..Len(Accepted) /\ Accepted'[i].line = Accepted[i].line
<1>1. /\ Accepted' = Append(Accepted, m) /\ Accepted \in Seq(Message)
      /\ Len(Accepted) \in Nat
  BY SendAccepts, AcceptedType
<1>2. /\ Len(Accepted') = Len(Accepted) + 1
      /\ \A i \in 1..Len(Accepted) : Accepted'[i] = Accepted[i]
      /\ Accepted'[Len(Accepted) + 1] = m
  BY <1>1, AppendProperties
<1>3. \A i \in 1..Len(Accepted') : i = Len(Accepted) + 1 \/ i \in 1..Len(Accepted)
  BY <1>1, <1>2
<1>4. QED
  BY <1>2, <1>3

LEMMA AnswerStep == DispatcherInv /\ [Next]_vars => AnswerInv' /\ OneReply'
<1> SUFFICES ASSUME DispatcherInv, [Next]_vars PROVE AnswerInv' /\ OneReply'
  OBVIOUS
<1>i. TypeOK /\ ThreadInv /\ AnswerInv /\ OneReply
  BY DEF DispatcherInv
<1>t. /\ line \in Nat /\ todo \in Seq(Step) /\ OneAnswer(todo)
      /\ \A i \in 1..Len(Accepted) : Accepted[i].line \in Nat
      /\ \A p \in pending : p.line \in Nat \ {0}
  <2>1. \A i \in 1..Len(Accepted) : Accepted[i] \in Message
    BY <1>i, AcceptedType, ElementOfSeq
  <2>2. QED
    BY <1>i, <2>1 DEF TypeOK, AnswerInv, Message
\* The steps that answer nothing and leave the handler as it is.
<1>1. ASSUME Accepted' = Accepted, pending' = pending, line' = line, todo' = todo,
             runner' \notin {"run", "calling"} => todo = <<>>
      PROVE  AnswerInv' /\ OneReply'
  BY <1>1, <1>i DEF AnswerInv, OneReply
<1>2. CASE MainMoves \/ RunnerMoves \/ UNCHANGED vars
  <2>1. UNCHANGED <<stdout, current, buffer, pending, line, todo>>
    BY <1>2 DEF MainMoves, Start, TestFinished, LeaveProcess, CommitReturns, Join, End,
          RunnerMoves, RunnerTest, ReceiveNothing, Call, DispatchReturns, ExecReturns,
          ReceiveBadLine, ReceiveStop, CloseInput, vars, mainVars, runnerVars
  <2>2. runner' \notin {"run", "calling"} => todo = <<>>
    BY <1>2, <1>i DEF MainMoves, Start, TestFinished, LeaveProcess, CommitReturns, Join, End,
          RunnerMoves, RunnerTest, ReceiveNothing, Call, DispatchReturns, ExecReturns,
          ReceiveBadLine, ReceiveStop, CloseInput, vars, mainVars, runnerVars, AnswerInv, ThreadInv
  <2>3. QED
    BY <1>1, <2>1, <2>2 DEF Accepted
<1>3. CASE TakeBuffer \/ PrintLine
  <2>1. UNCHANGED <<pending, line, todo, runner>> /\ Accepted' = Accepted
    BY <1>3, <1>i, MovesKeepAccepted DEF TakeBuffer, PrintLine, runnerVars
  <2>2. QED
    BY <1>1, <1>i, <2>1 DEF AnswerInv
\* The steps of a handler.
<1>4. CASE ServeCall
  <2>1. /\ todo # <<>> /\ runner' = "run" /\ line' = line /\ todo' = Tail(todo)
        /\ Head(todo) \in {"call", "post"} /\ Accepted' = Accepted
    BY <1>4, <1>i DEF ServeCall, ThreadInv, Accepted, mainVars
  <2>2. OneAnswer(todo') /\ (ToAnswer(todo') => ToAnswer(todo) /\ todo[1] \notin Answer)
    BY <2>1, <1>i, <1>t, RestOfHandler DEF ToAnswer
  <2>3. CASE Head(todo) = "call"
    <3>1. pending' = pending
      BY <1>4, <2>3 DEF ServeCall
    <3>2. QED
      BY <2>1, <2>2, <3>1, <1>i DEF AnswerInv, OneReply, ToAnswer
  <2>4. CASE Head(todo) = "post"
    <3>1. pending' = pending \cup {[line |-> line, command |-> command]}
      BY <1>4, <2>4 DEF ServeCall
    <3>2. todo[1] \in Answer /\ ~ToAnswer(todo')
      BY <2>1, <2>2, <2>4, <1>i, <1>t, RestOfHandler DEF Answer
    <3>3. Unanswered(line)
      BY <3>2, <2>1, <1>i, <1>t, RestOfHandler DEF AnswerInv, Unanswered
    <3>4. QED
      BY <2>1, <2>2, <3>1, <3>2, <3>3, <1>i, <1>t DEF AnswerInv, OneReply, ToAnswer, Unanswered
  <2>5. QED
    BY <2>1, <2>3, <2>4
<1>5. CASE AssignPeer
  <2>1. /\ todo # <<>> /\ line' = line /\ todo' = Tail(todo) /\ runner' = runner
        /\ runner = "run" /\ Accepted' = Accepted /\ pending' = pending
    BY <1>5 DEF AssignPeer, Accepted, mainVars
  <2>2. OneAnswer(todo') /\ (ToAnswer(todo') => ToAnswer(todo))
    BY <2>1, <1>i, <1>t, RestOfHandler DEF ToAnswer
  <2>3. QED
    BY <2>1, <2>2, <1>i DEF AnswerInv, OneReply, ToAnswer
<1>6. CASE SendReply
  <2>1. /\ todo # <<>> /\ line' = line /\ todo' = Tail(todo) /\ runner' = runner
        /\ runner = "run" /\ pending' = pending /\ todo[1] \in Answer
        /\ Send(Reply(line, command, Head(todo))) /\ UNCHANGED <<current, stdout>>
    BY <1>6, <1>i, <1>t, RestOfHandler DEF SendReply, mainVars, Answer
  <2>2. OneAnswer(todo') /\ ~ToAnswer(todo') /\ Len(todo) \in Nat \ {0}
    BY <2>1, <1>i, <1>t, RestOfHandler DEF ToAnswer
  <2>3. Unanswered(line)
    BY <2>1, <2>2, <1>i DEF AnswerInv, Unanswered
  <2>4. /\ Reply(line, command, Head(todo)) \in Message
        /\ Reply(line, command, Head(todo)).line = line
    BY <1>i, ReplyType DEF TypeOK, Names
  <2>5. /\ \A i, j \in 1..Len(Accepted') :
              Accepted'[i].line = Accepted'[j].line /\ Accepted'[i].line # 0 => i = j
        /\ \A i \in 1..Len(Accepted') :
              \/ Accepted'[i].line = line
              \/ i \in 1..Len(Accepted) /\ Accepted'[i].line = Accepted[i].line
    BY <2>1, <2>3, <2>4, <1>i, SendKeepsOneReply DEF OneReply, Unanswered
  <2>6. QED
    BY <2>1, <2>2, <2>3, <2>5, <1>i, <1>t DEF AnswerInv, OneReply, ToAnswer, Unanswered
<1>7. CASE Throw
  <2>1. /\ todo' = <<>> /\ line' = line /\ Accepted' = Accepted /\ pending' = pending
    BY <1>7 DEF Throw, Accepted, mainVars
  <2>2. OneAnswer(todo') /\ ~ToAnswer(todo')
    BY <2>1 DEF OneAnswer, ToAnswer
  <2>3. QED
    BY <2>1, <2>2, <1>i DEF AnswerInv, OneReply, ToAnswer
<1>8. ASSUME NEW c \in Command, Receive(c) PROVE AnswerInv' /\ OneReply'
  <2>1. /\ line' = line + 1 /\ runner' = "run" /\ Accepted' = Accepted /\ pending' = pending
        /\ todo' \in Handlers(c, peer)
    BY <1>8 DEF Receive, Accepted, mainVars
  <2>2. OneAnswer(todo')
    BY <2>1, <1>i, HandlerSteps DEF TypeOK
  <2>3. Unanswered(line + 1)
    BY <1>i, <1>t DEF AnswerInv, Unanswered
  <2>4. \A i \in 1..Len(Accepted) : Accepted[i].line <= line + 1
    BY <1>i, <1>t DEF AnswerInv
  <2>5. \A p \in pending : p.line <= line + 1
    BY <1>i, <1>t DEF AnswerInv
  <2>6. QED
    BY <2>1, <2>2, <2>3, <2>4, <2>5, <1>i DEF AnswerInv, OneReply, Unanswered
\* The observers.
<1>9. ASSUME NEW p \in pending, Complete(p) PROVE AnswerInv' /\ OneReply'
  <2>1. /\ pending' = pending \ {p} /\ line' = line /\ todo' = todo /\ runner' = runner
        /\ UNCHANGED <<current, stdout>>
    BY <1>9 DEF Complete, mainVars, runnerVars
  <2>2. PICK s : Send(Reply(p.line, p.command, s))
    BY <1>9 DEF Complete
  <2>3. Reply(p.line, p.command, s) \in Message /\ Reply(p.line, p.command, s).line = p.line
    <3>1. p.line \in 0..MaxLines /\ p.command \in Names
      BY <1>i DEF TypeOK, Names
    <3>2. QED
      BY <3>1, ReplyType
  <2>4. /\ \A i, j \in 1..Len(Accepted') :
              Accepted'[i].line = Accepted'[j].line /\ Accepted'[i].line # 0 => i = j
        /\ \A i \in 1..Len(Accepted') :
              \/ Accepted'[i].line = p.line
              \/ i \in 1..Len(Accepted) /\ Accepted'[i].line = Accepted[i].line
    BY <2>1, <2>2, <2>3, <1>i, SendKeepsOneReply DEF OneReply
  <2>5. \A q \in pending' : q \in pending /\ q.line # p.line
    BY <2>1, <1>i DEF OneReply
  <2>6. AnswerInv'
    BY <2>1, <2>4, <2>5, <1>i, <1>t DEF AnswerInv
  <2>7. OneReply'
    BY <2>4, <2>5, <1>i DEF OneReply
  <2>8. QED
    BY <2>6, <2>7
<1>10. CASE Event
  <2>1. /\ Send(State) /\ UNCHANGED <<current, stdout, pending, line, todo, runner>>
    BY <1>10 DEF Event, mainVars, runnerVars
  <2>2. /\ \A i, j \in 1..Len(Accepted') :
              Accepted'[i].line = Accepted'[j].line /\ Accepted'[i].line # 0 => i = j
        /\ \A i \in 1..Len(Accepted') :
              \/ Accepted'[i].line = 0
              \/ i \in 1..Len(Accepted) /\ Accepted'[i].line = Accepted[i].line
    BY <2>1, <1>i, StateType, SendKeepsOneReply DEF OneReply
  <2>3. (\E k \in 1..Len(todo) : todo[k] \in Answer) => line > 0
    <3>1. runner \in {"run", "calling"} \/ Len(todo) = 0
      BY <1>i DEF AnswerInv
    <3>2. QED
      BY <3>1, <1>i DEF ThreadInv
  <2>4. AnswerInv'
    BY <2>1, <2>2, <2>3, <1>i, <1>t DEF AnswerInv
  <2>5. OneReply'
    BY <2>1, <2>2, <1>i, <1>t DEF OneReply
  <2>6. QED
    BY <2>4, <2>5
<1>11. QED
  BY <1>2, <1>3, <1>4, <1>5, <1>6, <1>7, <1>8, <1>9, <1>10, StepCases

-----------------------------------------------------------------------------
LEMMA InitInv == Init => DispatcherInv
<1> SUFFICES ASSUME Init PROVE DispatcherInv
  OBVIOUS
<1>1. Accepted = <<>> /\ Len(Accepted) = 0
  BY DEF Init, Accepted
<1>2. TypeOK
  <2>1. todo \in Seq(Step) /\ <<>> \in Seq(Message)
    BY EmptySeq DEF Init
  <2>2. line \in 0..MaxLines /\ events \in 0..MaxEvents
    BY DEF Init
  <2>3. pending \subseteq [line : 1..MaxLines, command : Command \cup {"unknown"}]
    BY DEF Init
  <2>4. QED
    BY <2>1, <2>2, <2>3 DEF Init, TypeOK
<1>3. ThreadInv
  BY DEF Init, ThreadInv
<1>4. AnswerInv /\ OneReply
  BY <1>1 DEF Init, AnswerInv, OneReply, OneAnswer
<1>5. QED
  BY <1>2, <1>3, <1>4 DEF DispatcherInv

\* No step of either thread takes the worker out of its invariant.
THEOREM DispatcherCorrect == Spec => []DispatcherInv
<1>1. DispatcherInv /\ [Next]_vars => DispatcherInv'
  <2>1. DispatcherInv => TypeOK /\ ThreadInv /\ OneAnswer(todo)
    BY DEF DispatcherInv, AnswerInv
  <2>2. QED
    BY <2>1, TypeStep, ThreadStep, AnswerStep DEF DispatcherInv
<1>2. QED
  BY InitInv, <1>1, PTL DEF Spec

\* The variables keep their types.
THEOREM TypeCorrect == Spec => []TypeOK
<1>1. DispatcherInv => TypeOK
  BY DEF DispatcherInv
<1>2. QED
  BY <1>1, DispatcherCorrect, PTL

\* The main thread never leaves its loop while the runner waits for it in a
\* marshalled call.
THEOREM NoStrandedCall == Spec => []CallIsServed
<1>1. DispatcherInv => CallIsServed
  BY DEF DispatcherInv, TypeOK, ThreadInv, CallIsServed
<1>2. QED
  BY <1>1, DispatcherCorrect, PTL

\* The peer connection is closed only after STOP and after the runner returned.
THEOREM PeerOutlivesRunner == Spec => []EndIsLast
<1>1. DispatcherInv => EndIsLast
  BY DEF DispatcherInv, ThreadInv, EndIsLast
<1>2. QED
  BY <1>1, DispatcherCorrect, PTL

\* Neither loop leaves the other behind, with any commands.
THEOREM LoopsCorrect == Spec => []LoopsInv
<1>1. QED
  BY TypeCorrect, NoStrandedCall, PeerOutlivesRunner, PTL DEF LoopsInv

\* No command line is answered twice, by whatever thread.
THEOREM AtMostOneReply == Spec => []OneReply
<1>1. DispatcherInv => OneReply
  BY DEF DispatcherInv
<1>2. QED
  BY <1>1, DispatcherCorrect, PTL

\* The messages of both threads reach stdout as OutputChannel promises: in the
\* order they were sent, each at most once.
THEOREM ImplementsChannel == Spec => ChannelSpec
<1>1. Init => Channel!Init
  BY DEF Init, Channel!Init, Accepted
<1>2. ASSUME DispatcherInv, [Next]_vars PROVE [Channel!Next]_Channel!vars
  <2>i. TypeOK /\ ThreadInv
    BY <1>2 DEF DispatcherInv
  <2>1. ASSUME NEW m \in Message, Send(m), UNCHANGED <<current, stdout>>
        PROVE  Channel!Accept(m)
    BY <2>1, <2>i, SendAccepts DEF Channel!Accept
  <2>2. CASE UNCHANGED <<buffer, current, stdout>>
    BY <2>2 DEF Accepted, Channel!vars
  <2>3. CASE TakeBuffer
    BY <2>3, <2>i, MovesKeepAccepted DEF TakeBuffer, Channel!vars
  <2>4. CASE PrintLine
    BY <2>4, <2>i, MovesKeepAccepted DEF Channel!Next, Channel!Emit
  <2>5. CASE Event
    BY <2>5, <2>1, StateType DEF Event, mainVars, Channel!Next
  <2>6. ASSUME NEW p \in pending, Complete(p) PROVE Channel!Next
    <3>1. p.line \in 0..MaxLines /\ p.command \in Names
      BY <2>i DEF TypeOK, Names
    <3>2. PICK s : Send(Reply(p.line, p.command, s))
      BY <2>6 DEF Complete
    <3>3. QED
      BY <2>1, <2>6, <3>1, <3>2, ReplyType DEF Complete, mainVars, Channel!Next
  <2>7. CASE SendReply
    <3>1. line \in 0..MaxLines /\ command \in Names
      BY <2>i DEF TypeOK, Names
    <3>2. QED
      BY <2>1, <2>7, <3>1, ReplyType DEF SendReply, mainVars, Channel!Next
  <2>8. CASE MainMoves \/ RunnerMoves \/ ServeCall \/ AssignPeer \/ Throw
               \/ (\E c \in Command : Receive(c)) \/ UNCHANGED vars
    BY <2>2, <2>8 DEF MainMoves, Start, TestFinished, LeaveProcess, CommitReturns, Join, End,
          RunnerMoves, RunnerTest, ReceiveNothing, Call, DispatchReturns, ExecReturns,
          ReceiveBadLine, ReceiveStop, CloseInput, ServeCall, AssignPeer, Throw, Receive,
          vars, mainVars, runnerVars
  <2>9. QED
    BY <1>2, <2>3, <2>4, <2>5, <2>6, <2>7, <2>8, StepCases
<1>3. QED
  BY <1>1, <1>2, DispatcherCorrect, PTL DEF Spec, ChannelSpec, Channel!Spec
-----------------------------------------------------------------------------
(* The promise of createPeer. *)

\* No handler of createPeer waits for an observer, or reports success unassigned.
LEMMA CreateHandlers ==
  ASSUME NEW p \in BOOLEAN, NEW h \in Handlers("createPeer", p)
  PROVE  \A k \in 1..Len(h) : /\ h[k] # "post"
                              /\ h[k] = "ok" => \E j \in 1..k : h[j] = "assign"
<1>1. h \in {<<"throw">>, <<"call", "throw">>, <<"call", "assign", "throw">>,
            <<"call", "assign", "ok">>}
  <2>1. CASE ~p
    BY <2>1 DEF Handlers, createPeer, Fails
  <2>2. CASE p
    BY <2>2 DEF Handlers, Described, Created, Stats, Listed
  <2>3. QED
    BY <2>1, <2>2
<1>2. CASE h = <<"throw">>
  BY <1>2
<1>3. CASE h = <<"call", "throw">>
  BY <1>3
<1>4. CASE h = <<"call", "assign", "throw">>
  BY <1>4
<1>5. CASE h = <<"call", "assign", "ok">>
  BY <1>5
<1>6. QED
  BY <1>1, <1>2, <1>3, <1>4, <1>5

\* A message other than the success of createPeer can be sent at any time, and that one
\* while there is a peer connection.
LEMMA SendKeepsPeer ==
  ASSUME TypeOK, PeerWasCreated, NEW m \in Message, Send(m), UNCHANGED <<current, stdout>>,
         UNCHANGED <<peer, main>>, m.ok /\ m.command = "createPeer" => peer
  PROVE  PeerWasCreated'
<1>1. Accepted' = Append(Accepted, m) /\ Accepted \in Seq(Message) /\ Len(Accepted) \in Nat
  BY SendAccepts, AcceptedType
<1>2. /\ Len(Accepted') = Len(Accepted) + 1
      /\ \A i \in 1..Len(Accepted) : Accepted'[i] = Accepted[i]
      /\ Accepted'[Len(Accepted) + 1] = m
  BY <1>1, AppendProperties
<1>3. \A i \in 1..Len(Accepted') : i = Len(Accepted) + 1 \/ i \in 1..Len(Accepted)
  BY <1>1, <1>2
<1>4. QED
  BY <1>2, <1>3 DEF PeerWasCreated

LEMMA CreateStep ==
  DispatcherInv /\ CreateInv /\ PeerWasCreated /\ [Next]_vars => CreateInv' /\ PeerWasCreated'
<1> SUFFICES ASSUME DispatcherInv, CreateInv, PeerWasCreated, [Next]_vars
             PROVE  CreateInv' /\ PeerWasCreated'
  OBVIOUS
<1>i. TypeOK /\ ThreadInv /\ AnswerInv /\ OneAnswer(todo)
  BY DEF DispatcherInv, AnswerInv
\* The steps that send nothing, take no peer connection away and leave the handler.
<1>1. ASSUME UNCHANGED <<command, todo, pending, peer>>, Accepted' = Accepted,
             main = "done" => main' = "done"
      PROVE  CreateInv' /\ PeerWasCreated'
  BY <1>1 DEF CreateInv, PeerWasCreated
<1>2. CASE End
  <2>1. Len(todo) = 0 /\ UNCHANGED <<todo, pending>> /\ main' = "done"
    BY <1>2, <1>i DEF End, ThreadInv, AnswerInv, runnerVars
  <2>2. QED
    BY <2>1 DEF CreateInv, PeerWasCreated
<1>3. CASE Start \/ TestFinished \/ LeaveProcess \/ CommitReturns \/ Join \/ RunnerMoves
             \/ UNCHANGED vars
  BY <1>1, <1>3 DEF Start, TestFinished, LeaveProcess, CommitReturns, Join, Accepted,
        RunnerMoves, RunnerTest, ReceiveNothing, Call, DispatchReturns, ExecReturns,
        ReceiveBadLine, ReceiveStop, CloseInput, vars, mainVars, runnerVars
<1>4. CASE TakeBuffer \/ PrintLine
  <2>1. UNCHANGED <<command, todo, pending, peer>> /\ main # "done"
    BY <1>4 DEF TakeBuffer, PrintLine, runnerVars
  <2>2. Accepted' = Accepted
    BY <1>4, <1>i, MovesKeepAccepted
  <2>3. QED
    BY <1>1, <2>1, <2>2
<1>5. CASE ServeCall
  <2>1. /\ todo # <<>> /\ todo' = Tail(todo) /\ Accepted' = Accepted
        /\ Head(todo) \in {"call", "post"} /\ UNCHANGED <<command, peer, main>>
        /\ pending' \subseteq pending \cup
              (IF Head(todo) = "post" THEN {[line |-> line, command |-> command]} ELSE {})
    BY <1>5, <1>i DEF ServeCall, ThreadInv, Accepted, mainVars
  <2>2. command = "createPeer" => Head(todo) # "post"
    BY <2>1, <1>i, RestOfHandler DEF CreateInv
  <2>3. \A k \in 1..Len(todo') : /\ k + 1 \in 1..Len(todo) /\ todo'[k] = todo[k + 1]
                                 /\ \A j \in 1..(k + 1) : todo[j] = "assign" =>
                                       j - 1 \in 1..k /\ todo'[j - 1] = "assign"
    <3>1. /\ Len(todo') = Len(todo) - 1 /\ Len(todo) \in Nat \ {0}
          /\ \A k \in 1..Len(todo') : todo'[k] = todo[k + 1]
          /\ todo[1] # "assign"
      BY <2>1, <1>i, RestOfHandler
    <3>2. QED
      BY <3>1
  <2>4. CreateInv'
    BY <2>1, <2>2, <2>3 DEF CreateInv
  <2>5. PeerWasCreated'
    BY <2>1 DEF PeerWasCreated
  <2>6. QED
    BY <2>4, <2>5
<1>6. CASE AssignPeer
  <2>1. /\ todo # <<>> /\ todo' = Tail(todo) /\ Accepted' = Accepted /\ peer'
        /\ UNCHANGED <<command, pending>>
    BY <1>6 DEF AssignPeer, Accepted, mainVars
  <2>2. \A k \in 1..Len(todo') : k + 1 \in 1..Len(todo) /\ todo'[k] = todo[k + 1]
    BY <2>1, <1>i, RestOfHandler
  <2>3. QED
    BY <2>1, <2>2 DEF CreateInv, PeerWasCreated
<1>7. CASE SendReply
  <2>1. /\ todo # <<>> /\ todo' = Tail(todo) /\ UNCHANGED <<current, stdout>>
        /\ UNCHANGED <<command, pending, peer, main>>
        /\ Send(Reply(line, command, Head(todo)))
        /\ Head(todo) \in {"ok", "error", "wrongError"}
    BY <1>7 DEF SendReply, mainVars
  <2>2. /\ Reply(line, command, Head(todo)) \in Message
        /\ Len(todo) \in Nat \ {0} /\ Head(todo) = todo[1]
    BY <1>i, <2>1, ReplyType, RestOfHandler DEF TypeOK, Names
  <2>3. Reply(line, command, Head(todo)).ok /\ Reply(line, command, Head(todo)).command = "createPeer"
          => Head(todo) = "ok" /\ command = "createPeer"
    BY <2>1 DEF Reply
  <2>4. Head(todo) = "ok" /\ command = "createPeer" => peer
    BY <2>2 DEF CreateInv
  <2>5. PeerWasCreated'
    BY <1>i, <2>1, <2>2, <2>3, <2>4, SendKeepsPeer
  <2>6. command = "createPeer" => \A k \in 1..Len(todo') : todo'[k] # "post" /\ todo'[k] # "ok"
    <3>1. /\ todo[1] \in Answer
          /\ \A k \in 1..Len(todo') : todo'[k] \notin Answer
      BY <2>1, <2>2, <1>i, RestOfHandler DEF Answer
    <3>2. QED
      BY <3>1 DEF Answer
  <2>7. CreateInv'
    BY <2>1, <2>6 DEF CreateInv
  <2>8. QED
    BY <2>5, <2>7
<1>8. CASE Throw
  <2>1. /\ Len(todo') = 0 /\ UNCHANGED <<pending, peer, main>> /\ Accepted' = Accepted
    BY <1>8 DEF Throw, Accepted, mainVars
  <2>2. QED
    BY <2>1 DEF CreateInv, PeerWasCreated
<1>9. ASSUME NEW c \in Command, Receive(c) PROVE CreateInv' /\ PeerWasCreated'
  <2>1. /\ command' = c /\ todo' \in Handlers(c, peer) /\ peer \in BOOLEAN
        /\ UNCHANGED <<pending, peer, main>> /\ Accepted' = Accepted
    BY <1>9, <1>i DEF Receive, Accepted, mainVars, TypeOK
  <2>2. c = "createPeer" =>
          \A k \in 1..Len(todo') : /\ todo'[k] # "post"
                                   /\ todo'[k] = "ok" => \E j \in 1..k : todo'[j] = "assign"
    BY <2>1, CreateHandlers
  <2>3. QED
    BY <2>1, <2>2 DEF CreateInv, PeerWasCreated
<1>10. ASSUME NEW p \in pending, Complete(p) PROVE CreateInv' /\ PeerWasCreated'
  <2>1. /\ pending' \subseteq pending /\ UNCHANGED <<command, todo, peer, main>>
        /\ UNCHANGED <<current, stdout>> /\ p.command # "createPeer"
    BY <1>10 DEF Complete, CreateInv, mainVars, runnerVars
  <2>2. PICK s \in ObserverAnswer(p.command) : Send(Reply(p.line, p.command, s))
    BY <1>10 DEF Complete
  <2>3. Reply(p.line, p.command, s) \in Message
    <3>1. p.line \in 0..MaxLines /\ p.command \in Names
      BY <1>i DEF TypeOK, Names
    <3>2. QED
      BY <3>1, ReplyType
  <2>4. Reply(p.line, p.command, s).command # "createPeer"
    BY <2>1 DEF Reply
  <2>5. PeerWasCreated'
    BY <1>i, <2>1, <2>2, <2>3, <2>4, SendKeepsPeer
  <2>6. QED
    BY <2>1, <2>5 DEF CreateInv
<1>11. CASE Event
  <2>1. /\ Send(State) /\ UNCHANGED <<current, stdout, command, todo, pending, peer, main>>
    BY <1>11 DEF Event, mainVars, runnerVars
  <2>2. PeerWasCreated'
    BY <1>i, <2>1, StateType, SendKeepsPeer DEF State
  <2>3. QED
    BY <2>1, <2>2 DEF CreateInv
<1>12. QED
  BY <1>2, <1>3, <1>4, <1>5, <1>6, <1>7, <1>8, <1>9, <1>10, <1>11, StepCases DEF MainMoves

\* A client that was told that its peer was created has one until the end: the reply of
\* createPeer follows the assignment, and nothing but end takes it back.
THEOREM CreatePeerKept == Spec => []PeerWasCreated
<1>1. Init => CreateInv /\ PeerWasCreated
  BY DEF Init, CreateInv, PeerWasCreated, Accepted
<1>2. DispatcherInv /\ CreateInv /\ PeerWasCreated /\ [Next]_vars
        => CreateInv' /\ PeerWasCreated'
  BY CreateStep
<1>3. QED
  BY <1>1, <1>2, DispatcherCorrect, PTL DEF Spec
=============================================================================
