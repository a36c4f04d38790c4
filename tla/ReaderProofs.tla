---------------------------- MODULE ReaderProofs ----------------------------
(***************************************************************************)
(* Proofs about the life of the NDIReader, for every set of streams and    *)
(* every bound.  The inductive invariant LifeInv says who holds a reader   *)
(* (the member, a destructor, or nobody once it is destroyed) and, until a *)
(* completion of ICE gathering meets a track command, that the flag and    *)
(* the thread of a reader agree but between the two halves of start and    *)
(* of stop.  Each lemma has one step per action.                           *)
(***************************************************************************)
EXTENDS ReaderLifecycle, FiniteSetTheorems, TLAPS

USE ReaderAssumption DEF Reader, NoReader

\* The steps of addTrack after the new reader was assigned, and those of removeTrack that
\* have found a sender.
Adding == {"open", "addSenders", "addCheck", "startFlag", "startThread"}
Removing == {"removeCheck", "removeJoin"}
Starting == {"startFlag", "startThread"}

\* Two streams had a sender.
TwoAdded == \E s, t \in added : s # t

\* A reader is destroyed, or the member refers to it, or its destructor runs; the runner's
\* destructor is part of its command, and the end has the other one.
HolderInv ==
    /\ \A r \in Reader : r > made => thread[r] = "none" /\ ~running[r]
    /\ \A r \in 1..made : r \in freed \cup {reader, dying}
    /\ \A r \in freed : thread[r] = "none"
    /\ dying # NoReader => /\ dying \notin freed \cup {reader}
                           /\ runner \in {"open", "removeDestroy"} \/ main = "end"
    /\ joining => dying # NoReader
    /\ runner \in Adding \cup {"removeJoin"} => reader # NoReader
    /\ runner = "removeDestroy" => reader = NoReader
    /\ main \in Starting => startee # NoReader
    /\ main \in {"end", "done"} => runner = "idle" /\ reader = NoReader
    /\ main = "done" => dying = NoReader

\* Without a reader there is a sender only if there were two streams, since removeTrack
\* removes the sender of its stream before it destroys the reader.
SenderInv ==
    /\ IsFiniteSet(added)
    /\ runner \in Removing => stream \in added \ senders
    /\ reader = NoReader /\ main \notin {"end", "done"} => senders = {} \/ TwoAdded
    /\ reader = NoReader /\ runner = "removeCheck" => TwoAdded
    /\ fault = "null" => TwoAdded

\* Before gathering was complete nothing was started.
GatheringInv ==
    /\ gathering = "gathering" => completions < MaxCompletions
    /\ completions = 0 => /\ gathering # "complete"
                          /\ main \notin Starting /\ ~joining
                          /\ runner \notin Starting \cup {"removeJoin"}
                          /\ \A r \in Reader : ~running[r] /\ thread[r] = "none"

\* A reader between the two halves of start, and between those of stop.
InStart(r) == (runner = "startThread" /\ r = reader) \/ (main = "startThread" /\ r = startee)
InStop(r) == (runner = "removeJoin" /\ r = reader) \/ (joining /\ r = dying)

\* The flag and the thread of a reader agree but in the middle of a start or a stop.
FlagInv ==
    \A r \in Reader :
        IF InStart(r) THEN running[r] /\ thread[r] # "exited"
        ELSE IF InStop(r) THEN ~running[r] /\ thread[r] # "none"
        ELSE thread[r] = IF running[r] THEN "loop" ELSE "none"

\* The main thread starts the member while the runner rests; a reader that is being added
\* does not run yet, and an older one runs unless it failed or gathering is not complete.
OrderInv ==
    /\ main \in Starting => runner = "idle" /\ startee = reader
    /\ runner \in Adding \ {"startThread"} => ~running[reader]
    /\ runner = "startThread" => thread[reader] = "none"
    /\ reader # NoReader => reader \in opened \cup failed \/ runner = "open"
    /\ \A r \in Reader : thread[r] = "loop" => r \in opened \cup failed
    /\ gathering = "complete" /\ main = "loop" /\ runner \in {"idle", "removeSenders", "removeCheck"}
       /\ reader \notin failed \cup {NoReader}
           => running[reader]

\* A first completion starts a reader that does not run.
OnceInv ==
    /\ completions <= 1 /\ main = "startFlag" => ~running[startee]
    /\ completions <= 1 /\ main = "startThread" => thread[startee] = "none"
    /\ restarted \/ fault = "terminate" => completions > 1
    /\ fault # "freed"

\* What holds until a completion is delivered during a command.
QuietInv == ~overlap => FlagInv /\ OrderInv /\ OnceInv

\* addTrack goes on only with a reader that was opened.
OpenedInv == runner \in Adding \ {"open"} => reader \in opened

\* The inductive invariant.
LifeInv == TypeOK /\ HolderInv /\ SenderInv /\ GatheringInv /\ OpenedInv /\ QuietInv
-----------------------------------------------------------------------------
\* The actions of Next; a capture and a process that stopped change nothing.
LEMMA StepCases ==
    ASSUME [Next]_vars
    PROVE  \/ AddOpen \/ AddStartFlag \/ AddStartThread \/ RemoveCheck \/ RemoveJoin
           \/ RemoveReturns \/ AddSenders \/ AddCheck \/ RemoveSenders
           \/ DestroyCheck \/ DestroyJoin \/ MainStartFlag \/ MainStartThread
           \/ EndDestroysContext \/ AddTrack \/ RemoveTrack \/ ReplaceTrack
           \/ EndDestroysReader \/ GatheringBegins \/ GatheringCompletes
           \/ (\E r \in Reader : RunReturns(r)) \/ UNCHANGED vars
BY DEF Next, RunnerStep, MarshalledStep, DestructorStep, MainStep, ClientStep, Stopped, Capture

\* No step leaves the types, and a member that is replaced was not destroyed.
LEMMA TypeStep == TypeOK /\ HolderInv /\ GatheringInv /\ [Next]_vars => TypeOK'
<1> SUFFICES ASSUME TypeOK, HolderInv, GatheringInv, [Next]_vars PROVE TypeOK'
  OBVIOUS
<1> USE DEF TypeOK, HolderInv, GatheringInv, Adding, Starting, readerVars, dyingVars,
            mainVars, history
<1>1. CASE AddOpen
  <2>1. reader \in 1..made
    BY <1>1 DEF AddOpen
  <2>2. opened' \subseteq 1..made /\ failed' \subseteq 1..made
    BY <1>1, <2>1 DEF AddOpen
  <2>3. QED
    BY <1>1, <2>2 DEF AddOpen, Goto
<1>2. CASE AddStartFlag
  BY <1>2 DEF AddStartFlag, StartFlag, Goto
<1>3. CASE AddStartThread
  BY <1>3 DEF AddStartThread, StartThread, Goto
<1>4. CASE RemoveCheck
  BY <1>4 DEF RemoveCheck, Goto
<1>5. CASE RemoveJoin
  BY <1>5 DEF RemoveJoin, Goto
<1>6. CASE RemoveReturns
  BY <1>6 DEF RemoveReturns, Goto
<1>7. CASE AddSenders
  <2>1. reader \in 1..made
    BY <1>7 DEF AddSenders
  <2>2. senders' \subseteq added' /\ added' \subseteq Stream
    BY <1>7 DEF AddSenders
  <2>3. failed' \subseteq 1..made /\ runner' \in {"idle", "addCheck"}
    BY <1>7, <2>1 DEF AddSenders, Goto
  <2>4. QED
    BY <1>7, <2>2, <2>3 DEF AddSenders
<1>8. CASE AddCheck
  BY <1>8 DEF AddCheck, Serving, Goto
<1>9. CASE RemoveSenders
  BY <1>9 DEF RemoveSenders, Serving, Goto
<1>10. CASE DestroyCheck
  <2>1. dying \in 1..made /\ dying # reader
    BY <1>10 DEF DestroyCheck
  <2>2. freed' \in {freed, freed \cup {dying}} /\ reader' = reader
    BY <1>10 DEF DestroyCheck
  <2>3. freed' \subseteq 1..made /\ reader' \notin freed'
    BY <2>1, <2>2
  <2>4. running' \in [Reader -> BOOLEAN] /\ dying' \in 0..made /\ joining' \in BOOLEAN
    <3>1. CASE running[dying]
      BY <1>10, <2>1, <3>1 DEF DestroyCheck
    <3>2. CASE ~running[dying]
      BY <1>10, <2>1, <3>2 DEF DestroyCheck
    <3>3. QED
      BY <3>1, <3>2
  <2>5. QED
    BY <1>10, <2>2, <2>3, <2>4 DEF DestroyCheck
<1>11. CASE DestroyJoin
  <2>1. dying \in 1..made /\ dying # reader
    BY <1>11 DEF DestroyJoin
  <2>2. thread' \in {thread, [thread EXCEPT ![dying] = "none"]}
    BY <1>11 DEF DestroyJoin
  <2>3. thread' \in [Reader -> {"none", "loop", "exited"}]
    BY <2>2
  <2>4. freed' \in {freed, freed \cup {dying}} /\ reader' = reader /\ made' = made
    BY <1>11 DEF DestroyJoin
  <2>5. freed' \subseteq 1..made' /\ reader' \in (0..made') \ freed'
    BY <2>1, <2>4
  <2>6. /\ dying' \in 0..made' /\ joining' \in BOOLEAN
        /\ fault' \in {"none", "null", "freed", "terminate"}
    <3>1. CASE thread[dying] = "exited"
      <4>1. dying' = 0 /\ joining' = FALSE /\ fault' = fault
        BY <1>11, <3>1 DEF DestroyJoin
      <4>2. dying' \in 0..made'
        BY <4>1, <2>4
      <4>3. joining' \in BOOLEAN
        BY <4>1
      <4>4. fault' \in {"none", "null", "freed", "terminate"}
        BY <4>1
      <4>5. QED
        BY <4>2, <4>3, <4>4
    <3>2. CASE thread[dying] # "exited"
      <4>1. dying' = dying /\ joining' = joining /\ fault' = "terminate"
        BY <1>11, <3>2 DEF DestroyJoin
      <4>2. QED
        BY <4>1, <2>4
    <3>3. QED
      BY <3>1, <3>2
  <2>7. UNCHANGED <<made, running, opened, runner, stream, main, startee, gathering, completions,
                    senders, commands, restarted, overlap, failed, added>>
    BY <1>11 DEF DestroyJoin
  <2>8. QED
    BY <2>3, <2>5, <2>6, <2>7
<1>12. CASE MainStartFlag
  BY <1>12 DEF MainStartFlag, StartFlag
<1>13. CASE MainStartThread
  BY <1>13 DEF MainStartThread, StartThread
<1>14. CASE EndDestroysContext
  BY <1>14 DEF EndDestroysContext
<1>15. CASE AddTrack
  BY <1>15 DEF AddTrack, Begin, Goto
<1>16. CASE RemoveTrack
  BY <1>16 DEF RemoveTrack, Begin, Goto
<1>17. CASE ReplaceTrack
  BY <1>17 DEF ReplaceTrack, Begin, Goto
<1>18. CASE EndDestroysReader
  BY <1>18 DEF EndDestroysReader
<1>19. CASE GatheringBegins
  BY <1>19 DEF GatheringBegins
<1>20. CASE GatheringCompletes
  BY <1>20 DEF GatheringCompletes
<1>21. ASSUME NEW r \in Reader, RunReturns(r) PROVE TypeOK'
  BY <1>21 DEF RunReturns
<1>22. CASE UNCHANGED vars
  BY <1>22 DEF vars
<1>23. QED
  BY <1>1, <1>2, <1>3, <1>4, <1>5, <1>6, <1>7, <1>8, <1>9, <1>10, <1>11, <1>12, <1>13,
     <1>14, <1>15, <1>16, <1>17, <1>18, <1>19, <1>20, <1>21, <1>22, StepCases

\* A step that takes a reader from the member leaves it to a destructor, and one that ends
\* a destructor destroys it.
LEMMA HolderStep == TypeOK /\ HolderInv /\ [Next]_vars => HolderInv'
<1> SUFFICES ASSUME TypeOK, HolderInv, [Next]_vars PROVE HolderInv'
  OBVIOUS
<1> USE DEF TypeOK, HolderInv, Adding, Starting, readerVars, dyingVars, mainVars, history
<1>1. CASE AddOpen
  BY <1>1 DEF AddOpen, Goto
<1>2. CASE AddStartFlag
  BY <1>2 DEF AddStartFlag, StartFlag, Goto
<1>3. CASE AddStartThread
  BY <1>3 DEF AddStartThread, StartThread, Goto
<1>4. CASE RemoveCheck
  BY <1>4 DEF RemoveCheck, Goto
<1>5. CASE RemoveJoin
  BY <1>5 DEF RemoveJoin, Goto
<1>6. CASE RemoveReturns
  BY <1>6 DEF RemoveReturns, Goto
<1>7. CASE AddSenders
  BY <1>7 DEF AddSenders, Serving, Goto
<1>8. CASE AddCheck
  BY <1>8 DEF AddCheck, Serving, Goto
<1>9. CASE RemoveSenders
  BY <1>9 DEF RemoveSenders, Serving, Goto
<1>10. CASE DestroyCheck
  BY <1>10 DEF DestroyCheck
<1>11. CASE DestroyJoin
  <2>1. dying \in 1..made /\ dying # reader
    BY <1>11 DEF DestroyJoin
  <2>2. CASE thread[dying] = "none"
    BY <1>11, <2>2 DEF DestroyJoin
  <2>3. CASE thread[dying] = "exited"
    <3>1. /\ thread' = [thread EXCEPT ![dying] = "none"] /\ freed' = freed \cup {dying}
          /\ dying' = NoReader /\ joining' = FALSE
          /\ UNCHANGED <<reader, made, running, runner, main, startee>>
      BY <1>11, <2>3 DEF DestroyJoin
    <3>2. \A r \in freed' : thread'[r] = "none"
      BY <2>1, <3>1
    <3>3. \A r \in Reader : r > made' => thread'[r] = "none" /\ ~running'[r]
      BY <2>1, <3>1
    <3>4. QED
      BY <2>1, <3>1, <3>2, <3>3
  <2>4. QED
    BY <1>11, <2>2, <2>3 DEF DestroyJoin
<1>12. CASE MainStartFlag
  BY <1>12 DEF MainStartFlag, StartFlag
<1>13. CASE MainStartThread
  BY <1>13 DEF MainStartThread, StartThread
<1>14. CASE EndDestroysContext
  BY <1>14 DEF EndDestroysContext
<1>15. CASE AddTrack
  BY <1>15 DEF AddTrack, Begin, Goto
<1>16. CASE RemoveTrack
  BY <1>16 DEF RemoveTrack, Begin, Goto
<1>17. CASE ReplaceTrack
  BY <1>17 DEF ReplaceTrack, Begin, Goto
<1>18. CASE EndDestroysReader
  BY <1>18 DEF EndDestroysReader
<1>19. CASE GatheringBegins
  BY <1>19 DEF GatheringBegins
<1>20. CASE GatheringCompletes
  BY <1>20 DEF GatheringCompletes
<1>21. ASSUME NEW r \in Reader, RunReturns(r) PROVE HolderInv'
  BY <1>21 DEF RunReturns
<1>22. CASE UNCHANGED vars
  BY <1>22 DEF vars
<1>23. QED
  BY <1>1, <1>2, <1>3, <1>4, <1>5, <1>6, <1>7, <1>8, <1>9, <1>10, <1>11, <1>12, <1>13,
     <1>14, <1>15, <1>16, <1>17, <1>18, <1>19, <1>20, <1>21, <1>22, StepCases

\* The member is taken away by removeTrack, which has removed the sender of its stream,
\* and by the end of main.
LEMMA SenderStep == TypeOK /\ HolderInv /\ SenderInv /\ [Next]_vars => SenderInv'
<1> SUFFICES ASSUME TypeOK, HolderInv, SenderInv, [Next]_vars PROVE SenderInv'
  OBVIOUS
<1> USE DEF TypeOK, HolderInv, SenderInv, TwoAdded, Adding, Removing, readerVars, dyingVars,
            mainVars, history
<1>1. CASE AddOpen
  BY <1>1 DEF AddOpen, Goto
<1>2. CASE AddStartFlag
  BY <1>2 DEF AddStartFlag, StartFlag, Goto
<1>3. CASE AddStartThread
  BY <1>3 DEF AddStartThread, StartThread, Goto
<1>4. CASE RemoveCheck
  BY <1>4 DEF RemoveCheck, Goto
<1>5. CASE RemoveJoin
  BY <1>5 DEF RemoveJoin, Goto
<1>6. CASE RemoveReturns
  BY <1>6 DEF RemoveReturns, Goto
<1>7. CASE AddSenders
  <2>1. added' \in {added, added \cup {stream}}
    BY <1>7 DEF AddSenders
  <2>2. IsFiniteSet(added')
    BY <2>1, FS_AddElement
  <2>3. QED
    BY <1>7, <2>2 DEF AddSenders, Serving, Goto
<1>8. CASE AddCheck
  BY <1>8 DEF AddCheck, Serving, Goto
<1>9. CASE RemoveSenders
  BY <1>9 DEF RemoveSenders, Serving, Goto
<1>10. CASE DestroyCheck
  BY <1>10 DEF DestroyCheck
<1>11. CASE DestroyJoin
  BY <1>11 DEF DestroyJoin
<1>12. CASE MainStartFlag
  BY <1>12 DEF MainStartFlag, StartFlag
<1>13. CASE MainStartThread
  BY <1>13 DEF MainStartThread, StartThread
<1>14. CASE EndDestroysContext
  BY <1>14 DEF EndDestroysContext
<1>15. CASE AddTrack
  BY <1>15 DEF AddTrack, Begin, Goto
<1>16. CASE RemoveTrack
  BY <1>16 DEF RemoveTrack, Begin, Goto
<1>17. CASE ReplaceTrack
  BY <1>17 DEF ReplaceTrack, Begin, Goto
<1>18. CASE EndDestroysReader
  BY <1>18 DEF EndDestroysReader
<1>19. CASE GatheringBegins
  BY <1>19 DEF GatheringBegins
<1>20. CASE GatheringCompletes
  BY <1>20 DEF GatheringCompletes
<1>21. ASSUME NEW r \in Reader, RunReturns(r) PROVE SenderInv'
  BY <1>21 DEF RunReturns
<1>22. CASE UNCHANGED vars
  BY <1>22 DEF vars
<1>23. QED
  BY <1>1, <1>2, <1>3, <1>4, <1>5, <1>6, <1>7, <1>8, <1>9, <1>10, <1>11, <1>12, <1>13,
     <1>14, <1>15, <1>16, <1>17, <1>18, <1>19, <1>20, <1>21, <1>22, StepCases

\* Only a completion of gathering, and an addTrack after one, start a reader.
LEMMA GatheringStep == TypeOK /\ HolderInv /\ GatheringInv /\ [Next]_vars => GatheringInv'
<1> SUFFICES ASSUME TypeOK, HolderInv, GatheringInv, [Next]_vars PROVE GatheringInv'
  OBVIOUS
<1> USE DEF TypeOK, HolderInv, GatheringInv, Adding, Starting, readerVars, dyingVars,
            mainVars, history
<1>1. CASE AddOpen
  BY <1>1 DEF AddOpen, Goto
<1>2. CASE AddStartFlag
  BY <1>2 DEF AddStartFlag, StartFlag, Goto
<1>3. CASE AddStartThread
  BY <1>3 DEF AddStartThread, StartThread, Goto
<1>4. CASE RemoveCheck
  BY <1>4 DEF RemoveCheck, Goto
<1>5. CASE RemoveJoin
  BY <1>5 DEF RemoveJoin, Goto
<1>6. CASE RemoveReturns
  BY <1>6 DEF RemoveReturns, Goto
<1>7. CASE AddSenders
  BY <1>7 DEF AddSenders, Serving, Goto
<1>8. CASE AddCheck
  BY <1>8 DEF AddCheck, Serving, Goto
<1>9. CASE RemoveSenders
  BY <1>9 DEF RemoveSenders, Serving, Goto
<1>10. CASE DestroyCheck
  BY <1>10 DEF DestroyCheck
<1>11. CASE DestroyJoin
  BY <1>11 DEF DestroyJoin
<1>12. CASE MainStartFlag
  BY <1>12 DEF MainStartFlag, StartFlag
<1>13. CASE MainStartThread
  BY <1>13 DEF MainStartThread, StartThread
<1>14. CASE EndDestroysContext
  BY <1>14 DEF EndDestroysContext
<1>15. CASE AddTrack
  BY <1>15 DEF AddTrack, Begin, Goto
<1>16. CASE RemoveTrack
  BY <1>16 DEF RemoveTrack, Begin, Goto
<1>17. CASE ReplaceTrack
  BY <1>17 DEF ReplaceTrack, Begin, Goto
<1>18. CASE EndDestroysReader
  BY <1>18 DEF EndDestroysReader
<1>19. CASE GatheringBegins
  BY <1>19 DEF GatheringBegins
<1>20. CASE GatheringCompletes
  BY <1>20 DEF GatheringCompletes
<1>21. ASSUME NEW r \in Reader, RunReturns(r) PROVE GatheringInv'
  BY <1>21 DEF RunReturns
<1>22. CASE UNCHANGED vars
  BY <1>22 DEF vars
<1>23. QED
  BY <1>1, <1>2, <1>3, <1>4, <1>5, <1>6, <1>7, <1>8, <1>9, <1>10, <1>11, <1>12, <1>13,
     <1>14, <1>15, <1>16, <1>17, <1>18, <1>19, <1>20, <1>21, <1>22, StepCases

\* addTrack goes on with a reader only if it was opened.
LEMMA OpenedStep == TypeOK /\ OpenedInv /\ [Next]_vars => OpenedInv'
<1> SUFFICES ASSUME TypeOK, OpenedInv, [Next]_vars PROVE OpenedInv'
  OBVIOUS
<1> USE DEF TypeOK, OpenedInv, Adding, readerVars, dyingVars, mainVars, history
<1>1. CASE AddOpen
  BY <1>1 DEF AddOpen, Goto
<1>2. CASE AddStartFlag
  BY <1>2 DEF AddStartFlag, StartFlag, Goto
<1>3. CASE AddStartThread
  BY <1>3 DEF AddStartThread, StartThread, Goto
<1>4. CASE RemoveCheck
  BY <1>4 DEF RemoveCheck, Goto
<1>5. CASE RemoveJoin
  BY <1>5 DEF RemoveJoin, Goto
<1>6. CASE RemoveReturns
  BY <1>6 DEF RemoveReturns, Goto
<1>7. CASE AddSenders
  BY <1>7 DEF AddSenders, Serving, Goto
<1>8. CASE AddCheck
  BY <1>8 DEF AddCheck, Serving, Goto
<1>9. CASE RemoveSenders
  BY <1>9 DEF RemoveSenders, Serving, Goto
<1>10. CASE DestroyCheck
  BY <1>10 DEF DestroyCheck
<1>11. CASE DestroyJoin
  BY <1>11 DEF DestroyJoin
<1>12. CASE MainStartFlag
  BY <1>12 DEF MainStartFlag, StartFlag
<1>13. CASE MainStartThread
  BY <1>13 DEF MainStartThread, StartThread
<1>14. CASE EndDestroysContext
  BY <1>14 DEF EndDestroysContext
<1>15. CASE AddTrack
  BY <1>15 DEF AddTrack, Begin, Goto
<1>16. CASE RemoveTrack
  BY <1>16 DEF RemoveTrack, Begin, Goto
<1>17. CASE ReplaceTrack
  BY <1>17 DEF ReplaceTrack, Begin, Goto
<1>18. CASE EndDestroysReader
  BY <1>18 DEF EndDestroysReader
<1>19. CASE GatheringBegins
  BY <1>19 DEF GatheringBegins
<1>20. CASE GatheringCompletes
  BY <1>20 DEF GatheringCompletes
<1>21. ASSUME NEW r \in Reader, RunReturns(r) PROVE OpenedInv'
  BY <1>21 DEF RunReturns
<1>22. CASE UNCHANGED vars
  BY <1>22 DEF vars
<1>23. QED
  BY <1>1, <1>2, <1>3, <1>4, <1>5, <1>6, <1>7, <1>8, <1>9, <1>10, <1>11, <1>12, <1>13,
     <1>14, <1>15, <1>16, <1>17, <1>18, <1>19, <1>20, <1>21, <1>22, StepCases

\* Each half of start and of stop is followed by its other half before anyone else starts or
\* stops that reader, as long as no completion meets a command.
LEMMA FlagStep == TypeOK /\ HolderInv /\ QuietInv /\ [Next]_vars => (~overlap' => FlagInv')
<1> SUFFICES ASSUME TypeOK, HolderInv, QuietInv, [Next]_vars PROVE ~overlap' => FlagInv'
  OBVIOUS
<1> USE DEF TypeOK, HolderInv, QuietInv, FlagInv, OrderInv, OnceInv, Adding, Starting,
            InStart, InStop, readerVars, dyingVars, mainVars, history
<1>1. CASE AddOpen
  BY <1>1 DEF AddOpen, Goto
<1>2. CASE AddStartFlag
  BY <1>2 DEF AddStartFlag, StartFlag, Goto
<1>3. CASE AddStartThread
  BY <1>3 DEF AddStartThread, StartThread, Goto
<1>4. CASE RemoveCheck
  BY <1>4 DEF RemoveCheck, Goto
<1>5. CASE RemoveJoin
  BY <1>5 DEF RemoveJoin, Goto
<1>6. CASE RemoveReturns
  BY <1>6 DEF RemoveReturns, Goto
<1>7. CASE AddSenders
  BY <1>7 DEF AddSenders, Serving, Goto
<1>8. CASE AddCheck
  BY <1>8 DEF AddCheck, Serving, Goto
<1>9. CASE RemoveSenders
  BY <1>9 DEF RemoveSenders, Serving, Goto
<1>10. CASE DestroyCheck
  BY <1>10 DEF DestroyCheck
<1>11. CASE DestroyJoin
  BY <1>11 DEF DestroyJoin
<1>12. CASE MainStartFlag
  BY <1>12 DEF MainStartFlag, StartFlag
<1>13. CASE MainStartThread
  BY <1>13 DEF MainStartThread, StartThread
<1>14. CASE EndDestroysContext
  BY <1>14 DEF EndDestroysContext
<1>15. CASE AddTrack
  BY <1>15 DEF AddTrack, Begin, Goto
<1>16. CASE RemoveTrack
  BY <1>16 DEF RemoveTrack, Begin, Goto
<1>17. CASE ReplaceTrack
  BY <1>17 DEF ReplaceTrack, Begin, Goto
<1>18. CASE EndDestroysReader
  BY <1>18 DEF EndDestroysReader
<1>19. CASE GatheringBegins
  BY <1>19 DEF GatheringBegins
<1>20. CASE GatheringCompletes
  BY <1>20 DEF GatheringCompletes
<1>21. ASSUME NEW r \in Reader, RunReturns(r) PROVE ~overlap' => FlagInv'
  BY <1>21 DEF RunReturns
<1>22. CASE UNCHANGED vars
  BY <1>22 DEF vars
<1>23. QED
  BY <1>1, <1>2, <1>3, <1>4, <1>5, <1>6, <1>7, <1>8, <1>9, <1>10, <1>11, <1>12, <1>13,
     <1>14, <1>15, <1>16, <1>17, <1>18, <1>19, <1>20, <1>21, <1>22, StepCases

\* A reader is started by the completion that finds it added, or by the addTrack that finds
\* gathering complete.
LEMMA OrderStep == TypeOK /\ HolderInv /\ OpenedInv /\ QuietInv /\ [Next]_vars => (~overlap' => OrderInv')
<1> SUFFICES ASSUME TypeOK, HolderInv, OpenedInv, QuietInv, [Next]_vars PROVE ~overlap' => OrderInv'
  OBVIOUS
<1> USE DEF TypeOK, HolderInv, OpenedInv, QuietInv, FlagInv, OrderInv, OnceInv, Adding,
            Starting, InStart, InStop, readerVars, dyingVars, mainVars, history
<1>1. CASE AddOpen
  BY <1>1 DEF AddOpen, Goto
<1>2. CASE AddStartFlag
  BY <1>2 DEF AddStartFlag, StartFlag, Goto
<1>3. CASE AddStartThread
  BY <1>3 DEF AddStartThread, StartThread, Goto
<1>4. CASE RemoveCheck
  BY <1>4 DEF RemoveCheck, Goto
<1>5. CASE RemoveJoin
  BY <1>5 DEF RemoveJoin, Goto
<1>6. CASE RemoveReturns
  BY <1>6 DEF RemoveReturns, Goto
<1>7. CASE AddSenders
  BY <1>7 DEF AddSenders, Serving, Goto
<1>8. CASE AddCheck
  BY <1>8 DEF AddCheck, Serving, Goto
<1>9. CASE RemoveSenders
  BY <1>9 DEF RemoveSenders, Serving, Goto
<1>10. CASE DestroyCheck
  BY <1>10 DEF DestroyCheck
<1>11. CASE DestroyJoin
  BY <1>11 DEF DestroyJoin
<1>12. CASE MainStartFlag
  BY <1>12 DEF MainStartFlag, StartFlag
<1>13. CASE MainStartThread
  BY <1>13 DEF MainStartThread, StartThread
<1>14. CASE EndDestroysContext
  BY <1>14 DEF EndDestroysContext
<1>15. CASE AddTrack
  <2>1. made' \in Reader /\ reader' = made' /\ ~running[made'] /\ thread[made'] = "none"
    BY <1>15 DEF AddTrack
  <2>2. QED
    BY <1>15, <2>1 DEF AddTrack, Begin, Goto
<1>16. CASE RemoveTrack
  BY <1>16 DEF RemoveTrack, Begin, Goto
<1>17. CASE ReplaceTrack
  BY <1>17 DEF ReplaceTrack, Begin, Goto
<1>18. CASE EndDestroysReader
  BY <1>18 DEF EndDestroysReader
<1>19. CASE GatheringBegins
  BY <1>19 DEF GatheringBegins
<1>20. CASE GatheringCompletes
  BY <1>20 DEF GatheringCompletes
<1>21. ASSUME NEW r \in Reader, RunReturns(r) PROVE ~overlap' => OrderInv'
  BY <1>21 DEF RunReturns
<1>22. CASE UNCHANGED vars
  BY <1>22 DEF vars
<1>23. QED
  BY <1>1, <1>2, <1>3, <1>4, <1>5, <1>6, <1>7, <1>8, <1>9, <1>10, <1>11, <1>12, <1>13,
     <1>14, <1>15, <1>16, <1>17, <1>18, <1>19, <1>20, <1>21, <1>22, StepCases

\* The first completion finds a reader that no one started.
LEMMA OnceStep == TypeOK /\ HolderInv /\ GatheringInv /\ QuietInv /\ [Next]_vars => (~overlap' => OnceInv')
<1> SUFFICES ASSUME TypeOK, HolderInv, GatheringInv, QuietInv, [Next]_vars PROVE ~overlap' => OnceInv'
  OBVIOUS
<1> USE DEF TypeOK, HolderInv, GatheringInv, QuietInv, FlagInv, OrderInv, OnceInv, Adding,
            Starting, InStart, InStop, readerVars, dyingVars, mainVars, history
<1>1. CASE AddOpen
  BY <1>1 DEF AddOpen, Goto
<1>2. CASE AddStartFlag
  BY <1>2 DEF AddStartFlag, StartFlag, Goto
<1>3. CASE AddStartThread
  BY <1>3 DEF AddStartThread, StartThread, Goto
<1>4. CASE RemoveCheck
  BY <1>4 DEF RemoveCheck, Goto
<1>5. CASE RemoveJoin
  BY <1>5 DEF RemoveJoin, Goto
<1>6. CASE RemoveReturns
  BY <1>6 DEF RemoveReturns, Goto
<1>7. CASE AddSenders
  BY <1>7 DEF AddSenders, Serving, Goto
<1>8. CASE AddCheck
  BY <1>8 DEF AddCheck, Serving, Goto
<1>9. CASE RemoveSenders
  BY <1>9 DEF RemoveSenders, Serving, Goto
<1>10. CASE DestroyCheck
  BY <1>10 DEF DestroyCheck
<1>11. CASE DestroyJoin
  <2>1. ~overlap => thread[dying] # "none"
    BY <1>11 DEF DestroyJoin
  <2>2. QED
    BY <1>11, <2>1 DEF DestroyJoin
<1>12. CASE MainStartFlag
  BY <1>12 DEF MainStartFlag, StartFlag
<1>13. CASE MainStartThread
  BY <1>13 DEF MainStartThread, StartThread
<1>14. CASE EndDestroysContext
  BY <1>14 DEF EndDestroysContext
<1>15. CASE AddTrack
  BY <1>15 DEF AddTrack, Begin, Goto
<1>16. CASE RemoveTrack
  BY <1>16 DEF RemoveTrack, Begin, Goto
<1>17. CASE ReplaceTrack
  BY <1>17 DEF ReplaceTrack, Begin, Goto
<1>18. CASE EndDestroysReader
  BY <1>18 DEF EndDestroysReader
<1>19. CASE GatheringBegins
  BY <1>19 DEF GatheringBegins
<1>20. CASE GatheringCompletes
  BY <1>20 DEF GatheringCompletes
<1>21. ASSUME NEW r \in Reader, RunReturns(r) PROVE ~overlap' => OnceInv'
  BY <1>21 DEF RunReturns
<1>22. CASE UNCHANGED vars
  BY <1>22 DEF vars
<1>23. QED
  BY <1>1, <1>2, <1>3, <1>4, <1>5, <1>6, <1>7, <1>8, <1>9, <1>10, <1>11, <1>12, <1>13,
     <1>14, <1>15, <1>16, <1>17, <1>18, <1>19, <1>20, <1>21, <1>22, StepCases

-----------------------------------------------------------------------------
(* The inductive invariant. *)

\* It holds when the peer is created: no reader, no thread, no sender.
LEMMA InitLife == Init => LifeInv
<1> SUFFICES ASSUME Init PROVE LifeInv
  OBVIOUS
<1> USE DEF Init
<1>1. TypeOK
  <2>1. /\ reader \in (0..made) \ freed /\ made \in 0..MaxReaders /\ opened \subseteq 1..made
        /\ freed \subseteq 1..made /\ dying \in 0..made /\ startee \in 0..made
        /\ commands \in 0..MaxCommands /\ completions \in 0..MaxCompletions
    OBVIOUS
  <2>2. joining \in BOOLEAN /\ restarted \in BOOLEAN /\ overlap \in BOOLEAN
    OBVIOUS
  <2>3. running \in [Reader -> BOOLEAN] /\ thread \in [Reader -> {"none", "loop", "exited"}]
    OBVIOUS
  <2>4. QED
    BY <2>1, <2>2, <2>3 DEF TypeOK
<1>2. HolderInv
  BY DEF HolderInv, Adding, Starting
<1>3. SenderInv
  BY FS_EmptySet DEF SenderInv, Removing
<1>4. GatheringInv
  BY DEF GatheringInv, Starting
<1>5. OpenedInv
  BY DEF OpenedInv, Adding
<1>6. FlagInv
  BY DEF FlagInv, InStart, InStop
<1>7. OrderInv
  BY DEF OrderInv, Adding, Starting
<1>8. OnceInv
  BY DEF OnceInv
<1>9. QED
  BY <1>1, <1>2, <1>3, <1>4, <1>5, <1>6, <1>7, <1>8 DEF LifeInv, QuietInv

\* Every step of the runner, of the main thread and of a reader preserves it.
LEMMA LifeStep == LifeInv /\ [Next]_vars => LifeInv'
<1> SUFFICES ASSUME LifeInv, [Next]_vars PROVE LifeInv'
  OBVIOUS
<1>1. TypeOK' /\ HolderInv' /\ SenderInv' /\ GatheringInv' /\ OpenedInv'
  BY TypeStep, HolderStep, SenderStep, GatheringStep, OpenedStep DEF LifeInv
<1>2. ~overlap' => FlagInv' /\ OrderInv' /\ OnceInv'
  BY FlagStep, OrderStep, OnceStep DEF LifeInv
<1>3. QED
  BY <1>1, <1>2 DEF LifeInv, QuietInv

\* Whatever the client, ICE and the readers do, a reader is held or destroyed, and until a
\* completion of gathering meets a command its flag and its thread agree.
THEOREM LifeCorrect == Spec => []LifeInv
BY InitLife, LifeStep, PTL DEF Spec
-----------------------------------------------------------------------------
(* What follows from it. *)

\* Two streams make a set of more than one.
LEMMA TwoAreMore == ASSUME IsFiniteSet(added), TwoAdded PROVE Cardinality(added) > 1
<1>1. PICK s \in added, t \in added : s # t
  BY DEF TwoAdded
<1>2. Cardinality({s}) = 1 /\ IsFiniteSet({s}) /\ t \notin {s}
  BY <1>1, FS_Singleton
<1>3. Cardinality({s} \cup {t}) = 2
  <2>1. Cardinality({s} \cup {t}) = Cardinality({s}) + 1
    BY <1>2, FS_AddElement
  <2>2. QED
    BY <1>2, <2>1
<1>4. Cardinality({s} \cup {t}) <= Cardinality(added) /\ Cardinality(added) \in Nat
  BY <1>1, FS_Subset, FS_CardinalityType
<1>5. QED
  BY <1>3, <1>4

\* At the end every reader that was made is destroyed, and a destroyed one has no thread.
LEMMA EndedWithoutThreads == LifeInv => ThreadsEndFirst
<1> SUFFICES ASSUME LifeInv, main = "done", NEW r \in Reader PROVE thread[r] = "none"
  BY DEF ThreadsEndFirst
<1>1. dying = NoReader /\ reader = NoReader
  BY DEF LifeInv, HolderInv
<1>2. CASE r > made
  BY <1>2 DEF LifeInv, HolderInv
<1>3. CASE r <= made
  <2>1. r \in 1..made /\ r # NoReader
    BY <1>3 DEF LifeInv, TypeOK
  <2>2. r \in freed
    BY <1>1, <2>1 DEF LifeInv, HolderInv
  <2>3. QED
    BY <2>2 DEF LifeInv, HolderInv
<1>4. QED
  BY <1>2, <1>3 DEF LifeInv, TypeOK

\* A reader is started twice, used after it was destroyed or missed by removeTrack only
\* in the overlaps its parts name, it captures from a receiver that exists, and its thread
\* ends before the device modules it feeds.
THEOREM ReaderCorrect == Spec => []ReaderInv
<1>1. LifeInv => ReaderInv
  <2> SUFFICES ASSUME LifeInv PROVE ReaderInv
    OBVIOUS
  <2>1. TypeOK /\ StartsOnce /\ NoUseAfterFree
    BY DEF LifeInv, QuietInv, OnceInv, StartsOnce, NoUseAfterFree
  <2>2. NullAfterTwoStreams
    BY TwoAreMore DEF LifeInv, SenderInv, NullAfterTwoStreams
  <2>3. CapturesOpened
    BY DEF LifeInv, QuietInv, OrderInv, CapturesOpened
  <2>4. QED
    BY <2>1, <2>2, <2>3, EndedWithoutThreads DEF ReaderInv
<1>2. QED
  BY <1>1, LifeCorrect, PTL

\* Until a completion meets a command one thread at most feeds the device modules: while an
\* old reader is destroyed the member is the one being added, which was not started, or none.
THEOREM OneCaptures == Spec => []OneCapture
<1>1. LifeInv => OneCapture
  <2> DEFINE Looping == {r \in Reader : thread[r] = "loop"}
  <2> SUFFICES ASSUME LifeInv, ~overlap PROVE Cardinality(Looping) <= 1
    BY DEF OneCapture
  <2>1. FlagInv /\ OrderInv
    BY DEF LifeInv, QuietInv
  <2>2. \A r \in Reader : thread[r] = "loop" => r \in {reader, dying}
    BY DEF LifeInv, TypeOK, HolderInv
  <2>3. dying # NoReader /\ reader # NoReader => thread[reader] = "none"
    <3> SUFFICES ASSUME dying # NoReader, reader # NoReader PROVE thread[reader] = "none"
      OBVIOUS
    <3>1. runner = "open" /\ dying # reader /\ reader \in Reader
      BY DEF LifeInv, TypeOK, HolderInv
    <3>2. ~running[reader] /\ main \notin Starting
      BY <2>1, <3>1 DEF OrderInv, Adding
    <3>3. ~InStart(reader) /\ ~InStop(reader)
      BY <3>1, <3>2 DEF InStart, InStop, Starting
    <3>4. QED
      BY <2>1, <3>1, <3>2, <3>3 DEF FlagInv
  <2>4. PICK x : Looping \subseteq {x}
    <3>1. CASE dying = NoReader
      <4>1. Looping \subseteq {reader}
        BY <2>2, <3>1
      <4>2. QED
        BY <4>1
    <3>2. CASE dying # NoReader
      <4>1. Looping \subseteq {dying}
        BY <2>2, <2>3, <3>2
      <4>2. QED
        BY <4>1
    <3>3. QED
      BY <3>1, <3>2
  <2> HIDE DEF Looping
  <2>5. Cardinality({x}) = 1 /\ IsFiniteSet({x})
    BY FS_Singleton
  <2>6. QED
    BY <2>4, <2>5, FS_Subset
<1>2. QED
  BY <1>1, LifeCorrect, PTL

\* Between commands a reader that was added captures once gathering is complete.
THEOREM CapturesOnceComplete == Spec => []CapturesWhenComplete
<1>1. LifeInv => CapturesWhenComplete
  <2> SUFFICES ASSUME LifeInv, runner = "idle", main = "loop", gathering = "complete", ~overlap,
                      reader \notin failed \cup {NoReader}
               PROVE  running[reader] /\ thread[reader] = "loop"
    BY DEF CapturesWhenComplete
  <2>1. running[reader]
    BY DEF LifeInv, QuietInv, OrderInv
  <2>2. reader \in Reader /\ ~InStart(reader) /\ ~InStop(reader)
    BY DEF LifeInv, TypeOK, HolderInv, InStart, InStop
  <2>3. QED
    BY <2>1, <2>2 DEF LifeInv, QuietInv, FlagInv
<1>2. QED
  BY <1>1, LifeCorrect, PTL
=============================================================================
