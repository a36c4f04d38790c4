---------------------------- MODULE DataChannel ----------------------------
(***************************************************************************)
(* The data channel of class PeerContext, from the moment there is a peer  *)
(* connection.  The member dc, a reference that no lock protects, is read  *)
(* and written by two threads:                                             *)
(*   - the runner, in createDataChannel and sendDataMessage, whose calls   *)
(*     to a channel are marshalled to the main thread and block;           *)
(*   - the main thread, in OnDataChannel (the peer opened a channel), in   *)
(*     OnStateChange (a channel this object observes changed its state),   *)
(*     and in end, after the runner has returned.                          *)
(*                                                                         *)
(* The channels themselves belong to WebRTC: they exist from their         *)
(* creation, go through the states of DataState in order, and call the     *)
(* observer, if one is registered, on the main thread at each change.  A   *)
(* read or write of the reference is taken to be atomic.                   *)
(***************************************************************************)
EXTENDS Naturals, FiniteSets, Sequences

CONSTANTS Local,        \* the channel createDataChannel creates
          Remote,       \* the channels the peer may open
          NoChannel,    \* a null reference
          MaxCommands   \* bound on the commands of a behaviour

Channel == {Local} \cup Remote

ASSUME DataChannelAssumption == /\ Local \notin Remote
                                /\ NoChannel \notin Channel
                                /\ MaxCommands \in Nat

VARIABLES dc,           \* PeerContext::dc
          state,        \* the state of each channel, "none" before it exists
          observed,     \* the channels with this PeerContext as their observer
          runner,       \* where the runner thread is in its command
          target,       \* the channel its pending call is made on
          main,         \* where the main thread is in OnDataChannel or in end
          offered,      \* the argument of OnDataChannel
          commands,     \* the number of commands executed
          replies,      \* the replies to the commands
          told,         \* the states sent as OnDataChannelStateChange
          assigned,     \* history: the channels dc has referred to
          nullDeref     \* TRUE once a null dc was dereferenced
runnerVars == <<runner, target, commands, replies>>
vars == <<dc, state, observed, runnerVars, main, offered, told, assigned, nullDeref>>

DataState == {"connecting", "open", "closing", "closed"}

\* The states a channel can go to next.
After(s) == CASE s = "connecting" -> {"open", "closing"}
              [] s = "open" -> {"closing"}
              [] s = "closing" -> {"closed"}
              [] OTHER -> {}

Init == /\ dc = NoChannel
        /\ state = [ch \in Channel |-> "none"]
        /\ observed = {}
        /\ runner = "idle"
        /\ target = NoChannel
        /\ main = "loop"
        /\ offered = NoChannel
        /\ commands = 0
        /\ replies = <<>>
        /\ told = <<>>
        /\ assigned = {}
        /\ nullDeref = FALSE

Assign(ch) == /\ dc' = ch
              /\ assigned' = assigned \cup {ch}

\* A marshalled call is executed while the main thread processes messages.
Serving == main = "loop" /\ ~nullDeref

Reply(c, answer) == replies' = Append(replies, [command |-> c, answer |-> answer])
-----------------------------------------------------------------------------
(***************************************************************************)
(* Faulty variants of the steps below, one per property stated at the end. *)
(***************************************************************************)

\* createDataChannel does not look at dc first.
CreateUnchecked == /\ runner = "idle"
                   /\ main \in {"loop", "assign", "register"}
                   /\ ~nullDeref
                   /\ commands < MaxCommands
                   /\ commands' = commands + 1
                   /\ runner' = "callCreate"
                   /\ UNCHANGED <<dc, state, observed, target, main, offered, replies,
                                  told, assigned, nullDeref>>

\* An error of sendDataMessage is replied under the name of another command.
SendCheckMisnamed == /\ runner = "idle"
                     /\ main \in {"loop", "assign", "register"}
                     /\ ~nullDeref
                     /\ commands < MaxCommands
                     /\ commands' = commands + 1
                     /\ IF dc = NoChannel
                        THEN Reply("create", "noChannel") /\ UNCHANGED runner
                        ELSE runner' = "send" /\ UNCHANGED replies
                     /\ UNCHANGED <<dc, state, observed, target, main, offered, told,
                                    assigned, nullDeref>>

\* end does not stop observing the channel before it forgets it.
EndKeepsObserving == /\ main = "end"
                     /\ dc # NoChannel
                     /\ state[dc] \in {"closing", "closed"}
                     /\ dc' = NoChannel
                     /\ UNCHANGED <<state, observed, runnerVars, main, offered, told,
                                    assigned, nullDeref>>

\* OnStateChange reports the first state once more.
NotifyFirst(ch) ==
    IF ch \in observed
    THEN /\ nullDeref' = (dc = NoChannel)
         /\ told' = IF dc = NoChannel THEN told
                    ELSE Append(told, IF told = <<>> THEN state'[dc] ELSE told[1])
    ELSE UNCHANGED <<told, nullDeref>>

\* Two cases of the switch are swapped.
SendErrorSwapped(s) == CASE s = "connecting" -> "closing"
                         [] s = "closing" -> "connecting"
                         [] OTHER -> s
-----------------------------------------------------------------------------
(* The runner: createDataChannel. *)

CreateCheck == /\ runner = "idle"
               /\ main \in {"loop", "assign", "register"}
               /\ ~nullDeref
               /\ commands < MaxCommands
               /\ commands' = commands + 1
               /\ IF dc # NoChannel
                  THEN Reply("create", "error") /\ UNCHANGED runner
                  ELSE runner' = "callCreate" /\ UNCHANGED replies
               /\ UNCHANGED <<dc, state, observed, target, main, offered, told,
                              assigned, nullDeref>>

\* pc->CreateDataChannel(name, &config), on the main thread.
ServeCreate == /\ runner = "callCreate"
               /\ Serving
               /\ state' = [state EXCEPT ![Local] = "connecting"]
               /\ runner' = "assign"
               /\ UNCHANGED <<dc, observed, target, commands, replies, main, offered,
                              told, assigned, nullDeref>>

\* dc = ..., back on the runner.
CreateAssign == /\ runner = "assign"
                /\ Assign(Local)
                /\ runner' = "register"
                /\ UNCHANGED <<state, observed, target, commands, replies, main,
                               offered, told, nullDeref>>

\* The runner reads dc again and makes its next call on it.
CallOnChannel == /\ runner \in {"register", "send", "state"}
                 /\ target' = dc
                 /\ runner' = CASE runner = "register" -> "callRegister"
                                [] runner = "send" -> "callSend"
                                [] OTHER -> "callState"
                 /\ UNCHANGED <<dc, state, observed, commands, replies, main, offered,
                                told, assigned, nullDeref>>

\* dc->RegisterObserver(this), then replyOk.
ServeRegister == /\ runner = "callRegister"
                 /\ Serving
                 /\ observed' = observed \cup {target}
                 /\ Reply("create", "ok")
                 /\ runner' = "idle"
                 /\ UNCHANGED <<dc, state, target, commands, main, offered, told,
                                assigned, nullDeref>>

(* The runner: sendDataMessage. *)

SendCheck == /\ runner = "idle"
             /\ main \in {"loop", "assign", "register"}
             /\ ~nullDeref
             /\ commands < MaxCommands
             /\ commands' = commands + 1
             /\ IF dc = NoChannel
                THEN Reply("send", "noChannel") /\ UNCHANGED runner
                ELSE runner' = "send" /\ UNCHANGED replies
             /\ UNCHANGED <<dc, state, observed, target, main, offered, told,
                            assigned, nullDeref>>

\* dc->Send(dataBuffer): only an open channel takes a message.
ServeSend == /\ runner = "callSend"
             /\ Serving
             /\ IF state[target] = "open"
                THEN Reply("send", "ok") /\ runner' = "idle"
                ELSE runner' = "state" /\ UNCHANGED replies
             /\ UNCHANGED <<dc, state, observed, target, commands, main, offered, told,
                            assigned, nullDeref>>

\* The switch on dc->state(): the error it replies for each state.
SendError(s) == s

\* dc->state() is a call of its own: the channel may have opened since Send failed.
ServeState == /\ runner = "callState"
              /\ Serving
              /\ Reply("send", SendError(state[target]))
              /\ runner' = "idle"
              /\ UNCHANGED <<dc, state, observed, target, commands, main, offered, told,
                             assigned, nullDeref>>

(* The main thread: the observers. *)

\* The peer opens a channel: OnDataChannel reads dc.
OnDataChannel(ch) == /\ Serving
                     /\ state[ch] = "none"
                     /\ state' = [state EXCEPT ![ch] = "connecting"]
                     /\ IF dc = NoChannel
                        THEN main' = "assign" /\ offered' = ch
                        ELSE UNCHANGED <<main, offered>>
                     /\ UNCHANGED <<dc, observed, runnerVars, told, assigned, nullDeref>>

\* dc = data_channel
OnDataChannelAssign == /\ main = "assign"
                       /\ Assign(offered)
                       /\ main' = "register"
                       /\ UNCHANGED <<state, observed, runnerVars, offered, told, nullDeref>>

\* dc->RegisterObserver(this), whatever dc refers to by now.
OnDataChannelRegister == /\ main = "register"
                         /\ observed' = observed \cup {dc}
                         /\ main' = "loop"
                         /\ UNCHANGED <<dc, state, runnerVars, offered, told, assigned,
                                        nullDeref>>

\* OnStateChange, called on a change of ch: it reports the state of dc.
Notify(ch) ==
    IF ch \in observed
    THEN /\ nullDeref' = (dc = NoChannel)
         /\ told' = IF dc = NoChannel THEN told ELSE Append(told, state'[dc])
    ELSE UNCHANGED <<told, nullDeref>>

Change(ch, s) == /\ state' = [state EXCEPT ![ch] = s]
                 /\ Notify(ch)
                 /\ UNCHANGED <<dc, observed, runnerVars, main, offered, assigned>>

\* A channel changes its state while messages are processed.
StateChange(ch) == /\ Serving
                   /\ \E s \in After(state[ch]) : Change(ch, s)

(* The main thread: PeerContext::end, once the runner was joined. *)

\* STOP was read and the runner has returned: nothing is executed any more.
EndBegins == /\ Serving
             /\ runner = "idle"
             /\ main' = "end"
             /\ UNCHANGED <<dc, state, observed, runnerVars, offered, told, assigned,
                            nullDeref>>

\* dc->Close(), which gets the channel to "closing", and to "closed" at once if it
\* was never connected.
EndCloses == /\ main = "end"
             /\ dc # NoChannel
             /\ \E s \in After(state[dc]) \ {"open"} : Change(dc, s)

\* dc->UnregisterObserver(); dc = nullptr
EndForgets == /\ main = "end"
              /\ dc # NoChannel
              /\ state[dc] \in {"closing", "closed"}
              /\ observed' = observed \ {dc}
              /\ dc' = NoChannel
              /\ UNCHANGED <<state, runnerVars, main, offered, told, assigned, nullDeref>>

\* pc->Close() closes every channel that is left.
EndClosesPeer(ch) == /\ main = "end"
                     /\ dc = NoChannel
                     /\ ~nullDeref
                     /\ \E s \in After(state[ch]) \ {"open"} : Change(ch, s)

EndReturns == /\ main = "end"
              /\ dc = NoChannel
              /\ ~nullDeref
              /\ \A ch \in Channel : state[ch] \in {"none", "closed"}
              /\ main' = "done"
              /\ UNCHANGED <<dc, state, observed, runnerVars, offered, told, assigned,
                             nullDeref>>

\* The process has exited, or has crashed.
Stopped == (main = "done" \/ nullDeref) /\ UNCHANGED vars

Next == \/ CreateCheck \/ ServeCreate \/ CreateAssign \/ CallOnChannel \/ ServeRegister
        \/ SendCheck \/ ServeSend \/ ServeState
        \/ \E ch \in Remote : OnDataChannel(ch)
        \/ OnDataChannelAssign \/ OnDataChannelRegister
        \/ \E ch \in Channel : StateChange(ch)
        \/ EndBegins \/ EndCloses \/ EndForgets
        \/ \E ch \in Channel : EndClosesPeer(ch)
        \/ EndReturns \/ Stopped

Spec == Init /\ [][Next]_vars
-----------------------------------------------------------------------------
Answers == [command : {"create"}, answer : {"ok", "error"}] \cup
           [command : {"send"}, answer : {"ok", "noChannel"} \cup DataState]

\* The types of the variables.
TypeOK == /\ dc \in Channel \cup {NoChannel}
          /\ state \in [Channel -> {"none"} \cup DataState]
          /\ observed \subseteq Channel
          /\ runner \in {"idle", "callCreate", "assign", "register", "callRegister",
                         "send", "callSend", "state", "callState"}
          /\ target \in Channel \cup {NoChannel}
          /\ main \in {"loop", "assign", "register", "end", "done"}
          /\ offered \in Remote \cup {NoChannel}
          /\ commands \in 0..MaxCommands
          /\ replies \in Seq(Answers)
          /\ told \in Seq(DataState)
          /\ assigned \subseteq Channel
          /\ nullDeref \in BOOLEAN

\* "Only one datachannel supported": this object never observes two.
OnlyOneChannel == Cardinality(observed) <= 1

\* Whatever the peer opens and whenever, createDataChannel creates no second
\* channel: dc is never null again once it was set, until end.
OneCreated ==
    Cardinality({i \in 1..Len(replies) :
                    replies[i].command = "create" /\ replies[i].answer = "ok"}) <= 1

\* OnStateChange finds dc null in no other case than the one OnlyOneChannel rules
\* out: end stops observing the channel it forgets before pc->Close changes it.
NullOnlyAfterTwo == nullDeref => Cardinality(assigned) > 1

\* createDataChannel creates one channel, and OnStateChange finds it.
DataChannelInv == TypeOK /\ OneCreated /\ NullOnlyAfterTwo

\* With one channel, what the client was told last is the state of that channel: no
\* report is late or out of order.  It may have been told nothing: the channel of
\* createDataChannel can open before its observer is registered.
ToldIsCurrent ==
    told # <<>> /\ Cardinality(assigned) = 1 /\ dc # NoChannel
        => told[Len(told)] = state[dc]

Rank(s) == CASE s = "connecting" -> 1 [] s = "open" -> 2 [] s = "ok" -> 2
             [] s = "closing" -> 3 [] s = "closed" -> 4 [] OTHER -> 0

\* With one channel, the answers to sendDataMessage never go back to an earlier state
\* of the channel, although Send and state() are two calls with changes in between.
AnswersInOrder ==
    Cardinality(assigned) = 1 =>
        \A i, j \in 1..Len(replies) :
            i < j /\ replies[i].command = "send" /\ replies[j].command = "send"
                => Rank(replies[i].answer) <= Rank(replies[j].answer)
=============================================================================
