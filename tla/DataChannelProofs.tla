------------------------- MODULE DataChannelProofs -------------------------
(***************************************************************************)
(* The invariants of DataChannel, for any channels the peer may open and   *)
(* any number of commands.  ChannelInv is inductive: beside what the runs  *)
(* check, it relates dc, which any thread may have read a while ago, to    *)
(* the channels it ever referred to.                                       *)
(***************************************************************************)
EXTENDS DataChannel, FiniteSetTheorems, TLAPS

USE DataChannelAssumption

Ending == main \in {"end", "done"}

TwoAssigned == \E c, d \in assigned : c # d

\* Before the end dc is not null once it was set, and a call under way is made on a channel
\* that was assigned; the end begins when the runner rests.
ReferenceInv ==
    /\ IsFiniteSet(assigned)
    /\ IF dc = NoChannel THEN Ending \/ assigned = {} ELSE dc \in assigned
    /\ observed \subseteq assigned
    /\ \A c \in assigned : state[c] # "none"
    /\ Ending => runner = "idle"
    /\ runner \in {"callCreate", "assign"} => Local \notin assigned
    /\ runner = "assign" => state[Local] # "none"
    /\ runner \notin {"idle", "callCreate", "assign"} => assigned # {}
    /\ runner \in {"callRegister", "callSend", "callState"} => target \in assigned
    /\ main = "assign" => /\ offered \in Remote \ assigned
                          /\ state[offered] # "none"
    /\ main = "register" => assigned # {}

\* A forgotten channel is observed no more: only another one can find dc null.
NullInv == /\ Ending /\ dc = NoChannel /\ observed # {} => TwoAssigned
           /\ nullDeref => main = "end" /\ TwoAssigned

IsCreated(reply) == reply = [command |-> "create", answer |-> "ok"]

\* A channel is created at most once, and only before the reply that says so.
CreatedInv ==
    /\ assigned = {} \/ runner \in {"callCreate", "assign", "register", "callRegister"}
          => \A i \in 1..Len(replies) : ~IsCreated(replies[i])
    /\ \A i, j \in 1..Len(replies) : IsCreated(replies[i]) /\ IsCreated(replies[j]) => i = j

\* The only channel is observed from the first report on.
ToldInv ==
    /\ told # <<>> => assigned # {}
    /\ \A c \in Channel : assigned = {c} /\ told # <<>> /\ dc # NoChannel
                             => c \in observed /\ told[Len(told)] = state[c]

Sent(i) == replies[i].command = "send"

\* The answers do not go beyond the state of the only channel.
AnswerInv ==
    /\ assigned = {} => \A i \in 1..Len(replies) : Sent(i) => replies[i].answer = "noChannel"
    /\ \A c \in Channel : assigned = {c} =>
           /\ \A i \in 1..Len(replies) : Sent(i) => Rank(replies[i].answer) <= Rank(state[c])
           /\ \A i, j \in 1..Len(replies) :
                  i < j /\ Sent(i) /\ Sent(j) => Rank(replies[i].answer) <= Rank(replies[j].answer)

ChannelInv == TypeOK /\ ReferenceInv /\ NullInv /\ CreatedInv /\ ToldInv /\ AnswerInv
-----------------------------------------------------------------------------
(* Facts about finite sets, states and replies. *)

\* Two channels make more than one.
LEMMA TwoAreMore == ASSUME IsFiniteSet(assigned), TwoAssigned PROVE Cardinality(assigned) > 1
<1>1. PICK c \in assigned, d \in assigned : c # d
  BY DEF TwoAssigned
<1>2. Cardinality({c}) = 1 /\ IsFiniteSet({c}) /\ d \notin {c}
  BY <1>1, FS_Singleton
<1>3. Cardinality({c} \cup {d}) = 2
  <2>1. Cardinality({c} \cup {d}) = Cardinality({c}) + 1
    BY <1>2, FS_AddElement
  <2>2. QED
    BY <1>2, <2>1
<1>4. Cardinality({c} \cup {d}) <= Cardinality(assigned) /\ Cardinality(assigned) \in Nat
  BY <1>1, FS_Subset, FS_CardinalityType
<1>5. QED
  BY <1>3, <1>4

\* A state that follows another has a greater rank.
LEMMA RankGrows == ASSUME NEW s \in {"none"} \cup DataState, NEW t \in After(s)
                   PROVE  t \in DataState /\ Rank(s) <= Rank(t)
BY DEF After, DataState, Rank

\* A reply is the last one of those there are then.
LEMMA Replied == ASSUME replies \in Seq(Answers), NEW c, NEW a,
                        [command |-> c, answer |-> a] \in Answers, Reply(c, a)
                 PROVE  /\ replies' \in Seq(Answers)
                        /\ Len(replies') = Len(replies) + 1
                        /\ Len(replies) \in Nat
                        /\ replies'[Len(replies) + 1] = [command |-> c, answer |-> a]
                        /\ \A i \in 1..Len(replies) : replies'[i] = replies[i]
BY DEF Reply

\* A peer connection without a channel satisfies the invariant.
LEMMA InitChannel == Init => ChannelInv
<1> SUFFICES ASSUME Init PROVE ChannelInv
  OBVIOUS
<1> USE DEF Init
<1>1. TypeOK
  <2>1. replies \in Seq(Answers) /\ told \in Seq(DataState)
    OBVIOUS
  <2>2. state \in [Channel -> {"none"} \cup DataState] /\ nullDeref \in BOOLEAN
    OBVIOUS
  <2>3. commands \in 0..MaxCommands
    OBVIOUS
  <2>4. QED
    BY <2>1, <2>2, <2>3 DEF TypeOK
<1>2. ReferenceInv
  BY FS_EmptySet DEF ReferenceInv, Ending
<1>3. NullInv /\ CreatedInv /\ ToldInv /\ AnswerInv
  BY DEF NullInv, CreatedInv, ToldInv, AnswerInv, Ending
<1>4. QED
  BY <1>1, <1>2, <1>3 DEF ChannelInv
-----------------------------------------------------------------------------
(* The steps. *)

\* What Notify appends is a state, because the channel it reports exists.
LEMMA TypeStep == TypeOK /\ ReferenceInv /\ [Next]_vars => TypeOK'
<1> SUFFICES ASSUME TypeOK, ReferenceInv, [Next]_vars PROVE TypeOK'
  OBVIOUS
<1> USE DEF TypeOK, runnerVars
<1>1. CASE CreateCheck
  <2>1. replies' \in Seq(Answers)
    BY <1>1, Replied DEF CreateCheck, Answers
  <2>2. QED
    BY <1>1, <2>1 DEF CreateCheck
<1>2. CASE ServeCreate \/ CreateAssign \/ CallOnChannel
  BY <1>2 DEF ServeCreate, CreateAssign, CallOnChannel, Assign, Channel, DataState
<1>3. CASE ServeRegister
  <2>1. replies' \in Seq(Answers)
    BY <1>3, Replied DEF ServeRegister, Answers
  <2>2. target \in Channel
    BY <1>3 DEF ServeRegister, ReferenceInv
  <2>3. QED
    BY <1>3, <2>1, <2>2 DEF ServeRegister
<1>4. CASE SendCheck
  <2>1. replies' \in Seq(Answers)
    BY <1>4, Replied DEF SendCheck, Answers
  <2>2. QED
    BY <1>4, <2>1 DEF SendCheck
<1>5. CASE ServeSend
  <2>1. replies' \in Seq(Answers)
    BY <1>5, Replied DEF ServeSend, Answers
  <2>2. QED
    BY <1>5, <2>1 DEF ServeSend
<1>6. CASE ServeState
  <2>1. state[target] \in DataState
    BY <1>6 DEF ServeState, ReferenceInv
  <2>2. replies' \in Seq(Answers)
    BY <1>6, <2>1, Replied DEF ServeState, SendError, Answers
  <2>3. QED
    BY <1>6, <2>2 DEF ServeState
<1>7. CASE \/ \E ch \in Remote : OnDataChannel(ch)
           \/ OnDataChannelAssign \/ OnDataChannelRegister
  <2>1. main = "assign" => offered \in Channel
    BY DEF ReferenceInv, Channel
  <2>2. main = "register" => dc \in Channel
    BY DEF ReferenceInv, Ending
  <2>3. QED
    BY <1>7, <2>1, <2>2 DEF OnDataChannel, OnDataChannelAssign, OnDataChannelRegister, Assign,
                            Channel, DataState
<1>8. ASSUME NEW ch \in Channel, NEW s \in After(state[ch]), Change(ch, s) PROVE TypeOK'
  <2>1. s \in DataState /\ state' = [state EXCEPT ![ch] = s]
    BY <1>8, RankGrows DEF Change
  <2>2. state' \in [Channel -> {"none"} \cup DataState]
    BY <2>1
  <2>3. told' \in Seq(DataState)
    <3>1. CASE told' = told
      BY <3>1
    <3>2. CASE dc # NoChannel /\ told' = Append(told, state'[dc])
      <4>1. state'[dc] \in DataState
        BY <2>1, <3>2 DEF ReferenceInv
      <4>2. QED
        BY <3>2, <4>1
    <3>3. QED
      BY <1>8, <3>1, <3>2 DEF Change, Notify
  <2>4. nullDeref' \in BOOLEAN
    BY <1>8 DEF Change, Notify
  <2>5. QED
    BY <1>8, <2>2, <2>3, <2>4 DEF Change
<1>9. CASE \/ \E ch \in Channel : StateChange(ch) \/ EndClosesPeer(ch)
           \/ EndCloses
  BY <1>8, <1>9 DEF StateChange, EndClosesPeer, EndCloses
<1>10. CASE EndBegins \/ EndForgets \/ EndReturns
  BY <1>10 DEF EndBegins, EndForgets, EndReturns
<1>11. CASE UNCHANGED vars
  BY <1>11 DEF vars
<1>12. QED
  BY <1>1, <1>2, <1>3, <1>4, <1>5, <1>6, <1>7, <1>9, <1>10, <1>11 DEF Next, Stopped
\* The reference: who reads it late finds a channel that was assigned.
LEMMA ReferenceStep == TypeOK /\ ReferenceInv /\ NullInv /\ [Next]_vars => ReferenceInv'
<1> SUFFICES ASSUME TypeOK, ReferenceInv, NullInv, [Next]_vars PROVE ReferenceInv'
  OBVIOUS
<1> USE DEF TypeOK, ReferenceInv, Ending, runnerVars
<1>1. CASE CreateCheck \/ SendCheck
  BY <1>1 DEF CreateCheck, SendCheck
<1>2. CASE ServeCreate
  <2>1. /\ \A c \in assigned : state'[c] = state[c]
        /\ state'[Local] = "connecting"
    BY <1>2 DEF ServeCreate, Channel
  <2>2. QED
    BY <1>2, <2>1 DEF ServeCreate, Serving
<1>3. CASE CreateAssign
  <2>1. IsFiniteSet(assigned')
    BY <1>3, FS_AddElement DEF CreateAssign, Assign
  <2>2. QED
    BY <1>3, <2>1 DEF CreateAssign, Assign, Channel
<1>4. CASE CallOnChannel
  BY <1>4 DEF CallOnChannel
<1>5. CASE ServeRegister \/ ServeSend \/ ServeState
  BY <1>5 DEF ServeRegister, ServeSend, ServeState, Serving
<1>6. ASSUME NEW ch \in Remote, OnDataChannel(ch) PROVE ReferenceInv'
  BY <1>6 DEF OnDataChannel, Serving, Channel
<1>7. CASE OnDataChannelAssign
  <2>1. IsFiniteSet(assigned')
    BY <1>7, FS_AddElement DEF OnDataChannelAssign, Assign
  <2>2. QED
    BY <1>7, <2>1 DEF OnDataChannelAssign, Assign, Channel
<1>8. CASE OnDataChannelRegister
  BY <1>8 DEF OnDataChannelRegister
<1>9. ASSUME NEW ch \in Channel, NEW s \in After(state[ch]), Change(ch, s) PROVE ReferenceInv'
  <2>1. s # "none" /\ state' = [state EXCEPT ![ch] = s]
    BY <1>9, RankGrows DEF Change, DataState
  <2>2. /\ \A c \in assigned : state'[c] # "none"
        /\ runner = "assign" => state'[Local] # "none"
        /\ main = "assign" => state'[offered] # "none"
    BY <2>1 DEF Channel
  <2>3. QED
    BY <1>9, <2>2 DEF Change
<1>10. CASE \/ \E ch \in Channel : StateChange(ch) \/ EndClosesPeer(ch)
            \/ EndCloses
  BY <1>9, <1>10 DEF StateChange, EndClosesPeer, EndCloses
<1>11. CASE EndBegins \/ EndForgets \/ EndReturns
  BY <1>11 DEF EndBegins, EndForgets, EndReturns, Serving
<1>12. CASE UNCHANGED vars
  BY <1>12 DEF vars
<1>13. QED
  BY <1>1, <1>2, <1>3, <1>4, <1>5, <1>6, <1>7, <1>8, <1>10, <1>11, <1>12 DEF Next, Stopped

\* A null dc: only end assigns it.
LEMMA NullStep == TypeOK /\ ReferenceInv /\ NullInv /\ [Next]_vars => NullInv'
<1> SUFFICES ASSUME TypeOK, ReferenceInv, NullInv, [Next]_vars PROVE NullInv'
  OBVIOUS
<1> USE DEF ReferenceInv, NullInv, Ending, TwoAssigned, runnerVars
<1>1. CASE CreateCheck \/ SendCheck \/ ServeCreate \/ CallOnChannel \/ ServeRegister
             \/ ServeSend \/ ServeState
  BY <1>1 DEF CreateCheck, SendCheck, ServeCreate, CallOnChannel, ServeRegister, ServeSend,
              ServeState, Serving
<1>2. CASE CreateAssign
  BY <1>2 DEF CreateAssign, Assign
<1>3. CASE \/ \E ch \in Remote : OnDataChannel(ch)
           \/ OnDataChannelAssign \/ OnDataChannelRegister
  BY <1>3 DEF OnDataChannel, OnDataChannelAssign, OnDataChannelRegister, Assign, Serving
<1>4. ASSUME NEW ch \in Channel, NEW s, Change(ch, s), main # "done"
      PROVE  NullInv'
  <2>1. UNCHANGED <<dc, observed, main, assigned>>
    BY <1>4 DEF Change
  <2>2. nullDeref' => nullDeref \/ (observed # {} /\ dc = NoChannel)
    BY <1>4 DEF Change, Notify
  <2>3. observed # {} /\ dc = NoChannel => main = "end" /\ TwoAssigned
    BY <1>4
  <2>4. QED
    BY <2>1, <2>2, <2>3
<1>5. CASE \/ \E ch \in Channel : StateChange(ch) \/ EndClosesPeer(ch)
           \/ EndCloses
  BY <1>4, <1>5 DEF StateChange, EndClosesPeer, EndCloses, Serving, TypeOK
<1>6. CASE EndForgets
  BY <1>6 DEF EndForgets
<1>7. CASE EndBegins \/ EndReturns
  BY <1>7 DEF EndBegins, EndReturns, Serving
<1>8. CASE UNCHANGED vars
  BY <1>8 DEF vars
<1>9. QED
  BY <1>1, <1>2, <1>3, <1>5, <1>6, <1>7, <1>8 DEF Next, Stopped

\* The replies to createDataChannel.
LEMMA CreatedStep == TypeOK /\ ReferenceInv /\ CreatedInv /\ [Next]_vars => CreatedInv'
<1> SUFFICES ASSUME TypeOK, ReferenceInv, CreatedInv, [Next]_vars PROVE CreatedInv'
  OBVIOUS
<1> USE DEF CreatedInv, IsCreated, runnerVars
<1>i. replies \in Seq(Answers)
  BY DEF TypeOK
<1>1. ASSUME NEW c, NEW a, Reply(c, a), [command |-> c, answer |-> a] \in Answers,
             c # "create" \/ a # "ok", UNCHANGED <<runner, assigned>>
      PROVE  CreatedInv'
  BY <1>i, <1>1, Replied
<1>2. CASE CreateCheck
  <2>1. CASE dc # NoChannel
    <3>1. Reply("create", "error") /\ UNCHANGED <<runner, assigned>>
      BY <1>2, <2>1 DEF CreateCheck
    <3>2. QED
      BY <1>1, <3>1 DEF Answers
  <2>2. CASE dc = NoChannel
    <3>1. assigned = {}
      BY <1>2, <2>2 DEF CreateCheck, ReferenceInv, Ending
    <3>2. QED
      BY <1>2, <2>2, <3>1 DEF CreateCheck
  <2>3. QED
    BY <2>1, <2>2
<1>3. CASE ServeCreate \/ CreateAssign \/ CallOnChannel
  BY <1>3 DEF ServeCreate, CreateAssign, CallOnChannel, TypeOK, ReferenceInv
<1>4. CASE ServeRegister
  <2>1. /\ Len(replies') = Len(replies) + 1
        /\ Len(replies) \in Nat
        /\ \A i \in 1..Len(replies) : replies'[i] = replies[i]
    BY <1>i, <1>4, Replied DEF ServeRegister, Answers
  <2>2. \A i \in 1..Len(replies) : ~IsCreated(replies[i])
    BY <1>4 DEF ServeRegister
  <2>3. assigned' # {} /\ runner' = "idle"
    BY <1>4 DEF ServeRegister, ReferenceInv
  <2>4. QED
    BY <2>1, <2>2, <2>3
<1>5. CASE SendCheck
  <2>1. CASE dc = NoChannel
    <3>1. Reply("send", "noChannel") /\ UNCHANGED <<runner, assigned>>
      BY <1>5, <2>1 DEF SendCheck
    <3>2. QED
      BY <1>1, <3>1 DEF Answers
  <2>2. CASE dc # NoChannel
    BY <1>5, <2>2 DEF SendCheck
  <2>3. QED
    BY <2>1, <2>2
<1>6. CASE ServeSend \/ ServeState
  <2>1. assigned' # {} /\ runner' \in {"idle", "state"}
    BY <1>6 DEF ServeSend, ServeState, ReferenceInv
  <2>2. \/ UNCHANGED replies
        \/ \E a \in {"ok"} \cup DataState : Reply("send", a)
    <3>1. CASE ServeSend
      BY <3>1 DEF ServeSend
    <3>2. CASE ServeState
      <4>1. state[target] \in DataState
        BY <3>2 DEF ServeState, ReferenceInv, TypeOK
      <4>2. QED
        BY <3>2, <4>1 DEF ServeState, SendError
    <3>3. QED
      BY <1>6, <3>1, <3>2
  <2>3. CASE UNCHANGED replies
    BY <2>1, <2>3
  <2>4. ASSUME NEW a \in {"ok"} \cup DataState, Reply("send", a) PROVE CreatedInv'
    <3>1. /\ Len(replies') = Len(replies) + 1
          /\ Len(replies) \in Nat
          /\ replies'[Len(replies) + 1] = [command |-> "send", answer |-> a]
          /\ \A i \in 1..Len(replies) : replies'[i] = replies[i]
      BY <1>i, <2>4, Replied DEF Answers
    <3>2. \A i \in 1..Len(replies') : IsCreated(replies'[i]) => i \in 1..Len(replies)
      BY <3>1
    <3>3. QED
      BY <2>1, <3>1, <3>2
  <2>5. QED
    BY <2>2, <2>3, <2>4
<1>7. CASE \/ \E ch \in Remote : OnDataChannel(ch)
           \/ OnDataChannelAssign \/ OnDataChannelRegister
  BY <1>7 DEF OnDataChannel, OnDataChannelAssign, OnDataChannelRegister, Assign
<1>8. CASE \/ \E ch \in Channel : StateChange(ch) \/ EndClosesPeer(ch)
           \/ EndCloses \/ EndBegins \/ EndForgets \/ EndReturns
  BY <1>8 DEF StateChange, EndClosesPeer, EndCloses, EndBegins, EndForgets, EndReturns, Change
<1>9. CASE UNCHANGED vars
  BY <1>9 DEF vars
<1>10. QED
  BY <1>2, <1>3, <1>4, <1>5, <1>6, <1>7, <1>8, <1>9 DEF Next, Stopped
\* The reports: who is told of the only channel is told all its states from then on.
LEMMA ToldStep == TypeOK /\ ReferenceInv /\ ToldInv /\ [Next]_vars => ToldInv'
<1> SUFFICES ASSUME TypeOK, ReferenceInv, ToldInv, [Next]_vars PROVE ToldInv'
  OBVIOUS
<1> USE DEF ReferenceInv, ToldInv, Ending, runnerVars
<1>1. CASE CreateCheck \/ SendCheck \/ CallOnChannel \/ ServeRegister \/ ServeSend \/ ServeState
  BY <1>1 DEF CreateCheck, SendCheck, CallOnChannel, ServeRegister, ServeSend, ServeState
<1>2. CASE ServeCreate
  <2>1. \A c \in assigned : state'[c] = state[c]
    BY <1>2 DEF ServeCreate, TypeOK
  <2>2. QED
    BY <1>2, <2>1 DEF ServeCreate
<1>3. ASSUME NEW ch \in Channel, Assign(ch), ch \notin assigned, UNCHANGED told PROVE ToldInv'
  BY <1>3 DEF Assign
<1>4. CASE CreateAssign \/ OnDataChannelAssign
  BY <1>3, <1>4 DEF CreateAssign, OnDataChannelAssign, Channel
<1>5. ASSUME NEW ch \in Remote, OnDataChannel(ch) PROVE ToldInv'
  <2>1. \A c \in assigned : state'[c] = state[c]
    BY <1>5 DEF OnDataChannel, TypeOK
  <2>2. QED
    BY <1>5, <2>1 DEF OnDataChannel
<1>6. CASE OnDataChannelRegister
  BY <1>6 DEF OnDataChannelRegister
<1>7. ASSUME NEW ch \in Channel, NEW s, Change(ch, s) PROVE ToldInv'
  <2>1. UNCHANGED <<dc, observed, assigned>> /\ state' = [state EXCEPT ![ch] = s]
    BY <1>7 DEF Change
  <2>2. CASE ch \in observed /\ dc # NoChannel
    <3>1. told' = Append(told, state'[dc]) /\ told \in Seq(DataState)
      BY <1>7, <2>2 DEF Change, Notify, TypeOK
    <3>2. told' # <<>> /\ told'[Len(told')] = state'[dc]
      BY <3>1
    <3>3. QED
      BY <2>1, <2>2, <3>2
  <2>3. CASE ch \in observed /\ dc = NoChannel
    BY <1>7, <2>1, <2>3 DEF Change, Notify
  <2>4. CASE ch \notin observed
    <3>1. told' = told
      BY <1>7, <2>4 DEF Change, Notify
    <3>2. \A c \in observed : state'[c] = state[c]
      BY <2>1, <2>4 DEF TypeOK
    <3>3. QED
      BY <2>1, <3>1, <3>2
  <2>5. QED
    BY <2>2, <2>3, <2>4
<1>8. CASE \/ \E ch \in Channel : StateChange(ch) \/ EndClosesPeer(ch)
           \/ EndCloses
  BY <1>7, <1>8 DEF StateChange, EndClosesPeer, EndCloses, TypeOK
<1>9. CASE EndBegins \/ EndForgets \/ EndReturns
  BY <1>9 DEF EndBegins, EndForgets, EndReturns
<1>10. CASE UNCHANGED vars
  BY <1>10 DEF vars
<1>11. QED
  BY <1>1, <1>2, <1>4, <1>5, <1>6, <1>8, <1>9, <1>10 DEF Next, Stopped

\* An answer about the state of the only channel is at the end of the others.
LEMMA AnswerLast ==
    ASSUME TypeOK, ReferenceInv, AnswerInv, NEW c \in Channel, c \in assigned,
           NEW a \in {"ok"} \cup DataState, Rank(a) = Rank(state[c]), Reply("send", a),
           UNCHANGED <<state, assigned>>
    PROVE  AnswerInv'
<1>1. /\ Len(replies') = Len(replies) + 1
      /\ Len(replies) \in Nat
      /\ replies'[Len(replies) + 1] = [command |-> "send", answer |-> a]
      /\ \A i \in 1..Len(replies) : replies'[i] = replies[i]
  BY Replied DEF TypeOK, Answers
<1>2. SUFFICES ASSUME assigned = {c}
               PROVE  /\ \A i \in 1..Len(replies') :
                             Sent(i)' => Rank(replies'[i].answer) <= Rank(state[c])
                      /\ \A i, j \in 1..Len(replies') :
                             i < j /\ Sent(i)' /\ Sent(j)'
                                => Rank(replies'[i].answer) <= Rank(replies'[j].answer)
  BY DEF AnswerInv
<1>3. Rank(a) \in Nat
  BY DEF Rank
<1>4. \A i \in 1..Len(replies) : Sent(i)' => Rank(replies'[i].answer) <= Rank(a)
  BY <1>1, <1>2 DEF AnswerInv, Sent
<1>5. replies'[Len(replies')].answer = a
  BY <1>1
<1>6. \A i \in 1..Len(replies') : i # Len(replies') => i \in 1..Len(replies)
  BY <1>1
<1>7. \A i \in 1..Len(replies') : Sent(i)' => Rank(replies'[i].answer) <= Rank(a)
  BY <1>3, <1>4, <1>5, <1>6
<1>8. ASSUME NEW i \in 1..Len(replies'), NEW j \in 1..Len(replies'), i < j, Sent(i)', Sent(j)'
      PROVE  Rank(replies'[i].answer) <= Rank(replies'[j].answer)
  <2>1. CASE j = Len(replies')
    BY <1>5, <1>7, <1>8, <2>1
  <2>2. CASE j # Len(replies')
    <3>1. i \in 1..Len(replies) /\ j \in 1..Len(replies)
      BY <1>1, <1>8, <2>2
    <3>2. QED
      BY <1>1, <1>2, <1>8, <3>1 DEF AnswerInv, Sent
  <2>3. QED
    BY <2>1, <2>2
<1>9. QED
  BY <1>7, <1>8

\* The answers: the only channel does not go back, and a null dc was never assigned.
LEMMA AnswerStep == TypeOK /\ ReferenceInv /\ AnswerInv /\ [Next]_vars => AnswerInv'
<1> SUFFICES ASSUME TypeOK, ReferenceInv, AnswerInv, [Next]_vars PROVE AnswerInv'
  OBVIOUS
<1> USE DEF ReferenceInv, Ending, runnerVars
<1>i. replies \in Seq(Answers)
  BY DEF TypeOK
\* A reply that says nothing about the channel.
<1>1. ASSUME NEW c, NEW a, Reply(c, a), [command |-> c, answer |-> a] \in Answers,
             c = "create" \/ (a = "noChannel" /\ assigned = {}), UNCHANGED <<state, assigned>>
      PROVE  AnswerInv'
  <2>1. /\ Len(replies') = Len(replies) + 1
        /\ Len(replies) \in Nat
        /\ replies'[Len(replies) + 1] = [command |-> c, answer |-> a]
        /\ \A i \in 1..Len(replies) : replies'[i] = replies[i]
    BY <1>i, <1>1, Replied
  <2>2. CASE c = "create"
    <3>1. \A i \in 1..Len(replies') : Sent(i)' => i \in 1..Len(replies) /\ Sent(i)
      BY <2>1, <2>2 DEF Sent
    <3>2. QED
      BY <1>1, <2>1, <3>1 DEF AnswerInv
  <2>3. CASE assigned = {} /\ a = "noChannel"
    BY <1>1, <2>1, <2>3 DEF AnswerInv, Sent
  <2>4. QED
    BY <1>1, <2>2, <2>3
<1>2. CASE CreateCheck
  BY <1>1, <1>2 DEF CreateCheck, Answers, AnswerInv, Sent
<1>3. ASSUME UNCHANGED <<replies, assigned>>, \A c \in assigned : Rank(state[c]) <= Rank(state'[c])
      PROVE  AnswerInv'
  <2>1. ASSUME NEW c \in Channel, assigned = {c}, NEW i \in 1..Len(replies), Sent(i)
        PROVE  Rank(replies[i].answer) <= Rank(state'[c])
    <3>1. Rank(replies[i].answer) <= Rank(state[c]) /\ Rank(state[c]) <= Rank(state'[c])
      BY <1>3, <2>1 DEF AnswerInv
    <3>2. \A a : Rank(a) \in Nat
      BY DEF Rank
    <3>3. QED
      BY <3>1, <3>2
  <2>2. QED
    BY <1>3, <2>1 DEF AnswerInv, Sent
<1>4. CASE ServeCreate
  <2>1. \A c \in assigned : state'[c] = state[c]
    BY <1>4 DEF ServeCreate, TypeOK
  <2>2. \A a : Rank(a) <= Rank(a)
    BY DEF Rank
  <2>3. QED
    BY <1>3, <1>4, <2>1, <2>2 DEF ServeCreate
<1>5. ASSUME NEW ch \in Channel, Assign(ch), ch \notin assigned, UNCHANGED <<replies, state>>
      PROVE  AnswerInv'
  <2>1. ASSUME NEW c \in Channel, assigned' = {c}
        PROVE  assigned = {}
    BY <1>5, <2>1 DEF Assign
  <2>2. assigned' # {}
    BY <1>5 DEF Assign
  <2>3. Rank("noChannel") = 0 /\ \A a : Rank(a) >= 0
    BY DEF Rank
  <2>4. QED
    BY <1>5, <2>1, <2>2, <2>3 DEF AnswerInv, Sent
<1>6. CASE CreateAssign \/ OnDataChannelAssign
  BY <1>5, <1>6 DEF CreateAssign, OnDataChannelAssign, Channel
<1>7. CASE CallOnChannel \/ OnDataChannelRegister \/ EndBegins \/ EndForgets \/ EndReturns
  BY <1>7 DEF CallOnChannel, OnDataChannelRegister, EndBegins, EndForgets, EndReturns, AnswerInv,
              Sent
<1>8. CASE ServeRegister
  BY <1>1, <1>8 DEF ServeRegister, Answers
<1>9. CASE SendCheck
  <2>1. CASE dc = NoChannel
    BY <1>1, <1>9, <2>1 DEF SendCheck, Answers
  <2>2. CASE dc # NoChannel
    BY <1>9, <2>2 DEF SendCheck, AnswerInv, Sent
  <2>3. QED
    BY <2>1, <2>2
<1>10. CASE ServeSend
  <2>1. CASE state[target] = "open"
    <3>1. target \in assigned /\ target \in Channel /\ Reply("send", "ok")
          /\ UNCHANGED <<state, assigned>>
      BY <1>10, <2>1 DEF ServeSend, TypeOK
    <3>2. Rank("ok") = Rank(state[target])
      BY <2>1 DEF Rank
    <3>3. QED
      BY <3>1, <3>2, AnswerLast
  <2>2. CASE state[target] # "open"
    BY <1>10, <2>2 DEF ServeSend, AnswerInv, Sent
  <2>3. QED
    BY <2>1, <2>2
<1>11. CASE ServeState
  <2>1. target \in assigned /\ target \in Channel /\ Reply("send", state[target])
        /\ UNCHANGED <<state, assigned>>
    BY <1>11 DEF ServeState, SendError, TypeOK
  <2>2. state[target] \in DataState
    BY <2>1 DEF TypeOK
  <2>3. QED
    BY <2>1, <2>2, AnswerLast
<1>12. ASSUME NEW ch \in Remote, OnDataChannel(ch) PROVE AnswerInv'
  <2>1. \A c \in assigned : state'[c] = state[c]
    BY <1>12 DEF OnDataChannel, TypeOK
  <2>2. \A a : Rank(a) <= Rank(a)
    BY DEF Rank
  <2>3. QED
    BY <1>3, <1>12, <2>1, <2>2 DEF OnDataChannel
<1>13. ASSUME NEW ch \in Channel, NEW s \in After(state[ch]), Change(ch, s) PROVE AnswerInv'
  <2>1. UNCHANGED <<replies, assigned>> /\ state' = [state EXCEPT ![ch] = s]
    BY <1>13 DEF Change
  <2>2. Rank(state[ch]) <= Rank(s)
    BY RankGrows DEF TypeOK
  <2>3. \A a : Rank(a) <= Rank(a)
    BY DEF Rank
  <2>4. QED
    BY <1>3, <2>1, <2>2, <2>3 DEF TypeOK
<1>14. CASE \/ \E ch \in Channel : StateChange(ch) \/ EndClosesPeer(ch)
            \/ EndCloses
  BY <1>13, <1>14 DEF StateChange, EndClosesPeer, EndCloses, TypeOK
<1>15. CASE UNCHANGED vars
  BY <1>15 DEF vars, AnswerInv, Sent
<1>16. QED
  BY <1>2, <1>4, <1>6, <1>7, <1>8, <1>9, <1>10, <1>11, <1>12, <1>14, <1>15 DEF Next, Stopped
-----------------------------------------------------------------------------
\* The invariant is inductive.
THEOREM ChannelCorrect == Spec => []ChannelInv
<1>1. ChannelInv /\ [Next]_vars => ChannelInv'
  BY TypeStep, ReferenceStep, NullStep, CreatedStep, ToldStep, AnswerStep DEF ChannelInv
<1>2. QED
  BY <1>1, InitChannel, PTL DEF Spec

\* However many channels the peer opens and whenever: one channel is created, and a null dc is
\* dereferenced only if there were two.
THEOREM DataChannelCorrect == Spec => []DataChannelInv
<1>1. ChannelInv => DataChannelInv
  <2> SUFFICES ASSUME ChannelInv PROVE DataChannelInv
    OBVIOUS
  <2>1. OneCreated
    <3> DEFINE created == {i \in 1..Len(replies) :
                              replies[i].command = "create" /\ replies[i].answer = "ok"}
    <3>1. \A i \in 1..Len(replies) : replies[i] \in Answers
      BY DEF ChannelInv, TypeOK
    <3>2. \A i \in created : IsCreated(replies[i])
      BY <3>1 DEF IsCreated, Answers
    <3>3. \A i, j \in created : i = j
      BY <3>2 DEF ChannelInv, CreatedInv
    <3>4. created = {} \/ \E i : created = {i}
      BY <3>3
    <3> HIDE DEF created
    <3>5. Cardinality(created) = 0 \/ Cardinality(created) = 1
      BY <3>4, FS_EmptySet, FS_Singleton
    <3>6. QED
      BY <3>5 DEF OneCreated, created
  <2>2. NullOnlyAfterTwo
    BY TwoAreMore DEF NullOnlyAfterTwo, ChannelInv, NullInv, ReferenceInv
  <2>3. QED
    BY <2>1, <2>2 DEF ChannelInv, DataChannelInv
<1>2. QED
  BY <1>1, ChannelCorrect, PTL

\* The client is never told a state of its only channel that is not its state.
THEOREM ToldIsTrue == Spec => []ToldIsCurrent
<1>1. ChannelInv => ToldIsCurrent
  <2> SUFFICES ASSUME ChannelInv, told # <<>>, Cardinality(assigned) = 1, dc # NoChannel
               PROVE  told[Len(told)] = state[dc]
    BY DEF ToldIsCurrent
  <2>1. PICK c : assigned = {c}
    BY FS_Singleton DEF ChannelInv, ReferenceInv
  <2>2. dc = c /\ c \in Channel
    BY <2>1 DEF ChannelInv, ReferenceInv, TypeOK
  <2>3. QED
    BY <2>1, <2>2 DEF ChannelInv, ToldInv
<1>2. QED
  BY <1>1, ChannelCorrect, PTL

\* The answers about the only channel follow the order of its states.
THEOREM AnswersFollow == Spec => []AnswersInOrder
<1>1. ChannelInv => AnswersInOrder
  <2> SUFFICES ASSUME ChannelInv, Cardinality(assigned) = 1
               PROVE  AnswersInOrder
    BY DEF AnswersInOrder
  <2>1. PICK c : assigned = {c}
    BY FS_Singleton DEF ChannelInv, ReferenceInv
  <2>2. c \in Channel
    BY <2>1 DEF ChannelInv, TypeOK
  <2>3. QED
    BY <2>1, <2>2 DEF ChannelInv, AnswerInv, Sent, AnswersInOrder
<1>2. QED
  BY <1>1, ChannelCorrect, PTL
=============================================================================
