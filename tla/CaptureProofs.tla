--------------------------- MODULE CaptureProofs ---------------------------
(***************************************************************************)
(* The invariants of Capture and of the reporters it composes, for sources *)
(* of any rates and any number of reports.  CaptureInv is inductive: beside*)
(* what the runs check, it says what a frame that was captured was taken   *)
(* for until it is counted, and what the rate told is on its way.          *)
(***************************************************************************)
EXTENDS Capture, TLAPS

USE CaptureAssumption, ReporterAssumption

\* A frame that was captured is not counted yet.
Uncounted == reader \in {"update", "halve", "feed", "count"}

\* What became of the last frame above 30 tells the parity of the count.
AlternationInv == /\ lastHigh = "fed" => numVideoFrames = IF Uncounted THEN 0 ELSE 1
                  /\ lastHigh = "dropped" => numVideoFrames = IF Uncounted THEN 1 ELSE 0
                  /\ AlternateFrames

\* The rate the factory ends with.
Final(rate) == IF Above(Told(rate), 30) THEN Halve(Told(rate)) ELSE Told(rate)

\* Where the rate of the frame is on its way to the encoder.
RateInv == /\ reader \in {"update", "halve", "feed"} =>
                  frame \in FrameRate /\ (Above(frame, 60) => fast)
           /\ reader = "halve" => Above(Told(frame), 30)
           /\ reader = "feed" => frame_rate = Final(frame)
           /\ delivered \/ reader \in {"halve", "feed"} => frame_rate[1] > 0
           /\ ~fast => ~Above(frame_rate, 30)

\* No reporter has more to print than it was told, or looks ahead.
CountInv == /\ CountsAreExact
            /\ \A r \in Reporter : total_reports[r] <= reported[r] /\ looked[r] <= reported[r]

CaptureInv == TypeOK /\ CountInv /\ AlternationInv /\ RateInv /\ EncoderKnowsRate
-----------------------------------------------------------------------------
(* The arithmetic of the rates. *)

\* Halving once gives a rate of the code's: positive, and not above 30 up to 60.
LEMMA ToldRate == ASSUME NEW rate \in FrameRate
                  PROVE  /\ Told(rate) \in Nat \X Nat
                         /\ Told(rate)[1] > 0
                         /\ Told(rate)[2] = rate[2]
                         /\ ~Above(rate, 60) => ~Above(Told(rate), 30)
<1>1. /\ rate[1] \in Nat /\ rate[1] > 0 /\ rate[2] \in Nat /\ rate[2] > 0
      /\ rate = <<rate[1], rate[2]>>
  OBVIOUS
<1>2. CASE Above(rate, 30)
  <2>1. Told(rate) = <<rate[1] \div 2, rate[2]>>
    BY <1>2 DEF Told, Halve
  <2>2. rate[1] > 30 * rate[2]
    BY <1>2 DEF Above
  <2>3. rate[1] \div 2 \in Nat /\ rate[1] \div 2 > 0
    BY <1>1, <2>2
  <2>4. rate[1] <= 60 * rate[2] => rate[1] \div 2 <= 30 * rate[2]
    BY <1>1
  <2>5. QED
    BY <1>1, <2>1, <2>3, <2>4 DEF Above
<1>3. CASE ~Above(rate, 30)
  BY <1>1, <1>3 DEF Told, Above
<1>4. QED
  BY <1>2, <1>3

\* So does halving twice, up to 120.
LEMMA FinalRate == ASSUME NEW rate \in FrameRate
                   PROVE  /\ Final(rate) \in Nat \X Nat
                          /\ Final(rate)[1] > 0
                          /\ Final(rate)[2] = rate[2]
                          /\ Final(rate)[1] <= Told(rate)[1]
                          /\ ~Above(rate, 60) => Final(rate) = Told(rate)
                          /\ ~Above(rate, 60) => ~Above(Final(rate), 30)
                          /\ ~Above(rate, 120) => ~Above(Final(rate), 30)
<1> DEFINE told == Told(rate)
<1>1. /\ rate[1] \in Nat /\ rate[1] > 0 /\ rate[2] \in Nat /\ rate[2] > 0
      /\ rate = <<rate[1], rate[2]>>
  OBVIOUS
<1>2. /\ told \in Nat \X Nat /\ told[1] > 0 /\ told[2] = rate[2]
      /\ ~Above(rate, 60) => ~Above(told, 30)
  BY ToldRate
<1>3. told[1] \in Nat /\ told[2] \in Nat /\ told = <<told[1], told[2]>>
  BY <1>2
<1>4. ~Above(rate, 120) => told[1] <= 60 * rate[2]
  <2>1. CASE Above(rate, 30)
    <3>1. told[1] = rate[1] \div 2
      BY <2>1 DEF Told, Halve
    <3>2. rate[1] <= 120 * rate[2] => rate[1] \div 2 <= 60 * rate[2]
      BY <1>1
    <3>3. QED
      BY <1>1, <3>1, <3>2 DEF Above
  <2>2. CASE ~Above(rate, 30)
    BY <1>1, <2>2 DEF Told, Above
  <2>3. QED
    BY <2>1, <2>2
<1>5. CASE Above(told, 30)
  <2>1. Final(rate) = <<told[1] \div 2, told[2]>>
    BY <1>5 DEF Final, Halve
  <2>2. told[1] > 30 * told[2]
    BY <1>5 DEF Above
  <2>3. told[1] \div 2 \in Nat /\ told[1] \div 2 > 0 /\ told[1] \div 2 <= told[1]
    BY <1>1, <1>2, <1>3, <2>2
  <2>4. told[1] <= 60 * told[2] => told[1] \div 2 <= 30 * told[2]
    BY <1>3
  <2>5. QED
    BY <1>2, <1>3, <1>4, <1>5, <2>1, <2>3, <2>4 DEF Above
<1>6. CASE ~Above(told, 30)
  <2>1. Final(rate) = told
    BY <1>6 DEF Final
  <2>2. QED
    BY <1>2, <1>3, <1>6, <2>1
<1>7. QED
  BY <1>5, <1>6

\* What the encoder is told is not above what it is fed, and little below it.
LEMMA GapOfFinal ==
    ASSUME NEW rate \in FrameRate
    PROVE  LET fed == IF Above(rate, 30) THEN <<rate[1], 2 * rate[2]>> ELSE rate
               gap == fed[1] * Final(rate)[2] - Final(rate)[1] * fed[2]
           IN gap >= 0 /\ (~Above(rate, 60) => gap < fed[2] * Final(rate)[2])
<1> DEFINE n == rate[1]
           d == rate[2]
           f == Final(rate)[1]
<1>1. n \in Nat /\ n > 0 /\ d \in Nat /\ d > 0 /\ rate = <<n, d>>
  OBVIOUS
<1>2. f \in Nat /\ f > 0 /\ f <= Told(rate)[1] /\ Final(rate)[2] = d
  BY FinalRate
<1>3. CASE Above(rate, 30)
  <2>1. Told(rate)[1] = n \div 2
    BY <1>3 DEF Told, Halve
  <2>2. PICK rest \in Nat : n = 2 * f + rest
    <3>1. n - 2 * f \in Nat
      BY <1>1, <1>2, <2>1
    <3>2. QED
      BY <3>1, <1>1, <1>2
  <2> HIDE DEF n, d, f
  <2>3. n * d - f * (2 * d) = rest * d
    BY <1>1, <1>2, <2>2
  <2>4. rest * d >= 0
    BY <1>1
  <2>5. ASSUME ~Above(rate, 60)
        PROVE  rest * d < (2 * d) * d
    <3>1. f = n \div 2
      BY <2>1, <2>5, FinalRate DEF f
    <3>2. rest <= 1
      BY <1>1, <2>2, <3>1
    <3>3. rest * d <= d
      BY <1>1, <3>2
    <3>4. d < (2 * d) * d
      BY <1>1
    <3>5. QED
      BY <1>1, <3>3, <3>4
  <2>6. QED
    BY <1>2, <1>3, <2>3, <2>4, <2>5 DEF n, d, f
<1>4. CASE ~Above(rate, 30)
  <2>1. Told(rate) = rate /\ ~Above(rate, 60)
    BY <1>1, <1>4 DEF Told, Above
  <2>2. Final(rate) = rate
    BY <2>1, FinalRate
  <2> HIDE DEF n, d
  <2>3. n * d - n * d = 0 /\ 0 < d * d
    BY <1>1
  <2>4. QED
    BY <1>4, <2>2, <2>3 DEF n, d
<1>5. QED
  BY <1>3, <1>4
-----------------------------------------------------------------------------
(* The reporters. *)

\* No report was made and no frame captured: the invariant holds.
LEMMA InitCapture == Init => CaptureInv
<1> SUFFICES ASSUME Init PROVE CaptureInv
  OBVIOUS
<1> USE DEF Init, ReporterInit, NoRate, NoEncoder
<1>1. TypeOK
  <2>1. ReporterTypeOK
    BY DEF ReporterTypeOK
  <2>2. frame_rate \in Nat \X Nat /\ encoder \in Nat \X Nat
    OBVIOUS
  <2>3. /\ running \in BOOLEAN /\ delivered \in BOOLEAN /\ alike \in BOOLEAN
        /\ fast \in BOOLEAN
    OBVIOUS
  <2>4. /\ frame \in FrameRate \cup {NoRate} /\ numVideoFrames \in 0..1
        /\ \A r \in Reporter : object[r] = "alive"
    OBVIOUS
  <2> HIDE DEF NoRate
  <2>5. QED
    BY <2>1, <2>2, <2>3, <2>4 DEF TypeOK
<1>2. CountInv
  BY DEF CountInv, CountsAreExact, Pending, Lost
<1>3. AlternationInv /\ RateInv /\ EncoderKnowsRate
  BY DEF AlternationInv, AlternateFrames, Uncounted, RateInv, EncoderKnowsRate, Above
<1>4. QED
  BY <1>1, <1>2, <1>3 DEF CaptureInv

\* Every report is counted, and every count printed that the thread has looked at.
LEMMA CountStep ==
    ASSUME ReporterTypeOK, CountInv, NEW r \in Reporter,
           Report(r) \/ Run(r) \/ Destroying(r) \/ DestructorClears(r)
    PROVE  CountInv'
<1> USE DEF ReporterTypeOK, CountInv, CountsAreExact, Pending, Lost
<1>1. CASE Report(r)
  BY <1>1 DEF Report
<1>2. CASE Run(r)
  <2>1. CASE RunnerTest(r) \/ RunnerCount(r) \/ RunnerWait(r) \/ WaitTimesOut(r)
    BY <2>1 DEF RunnerTest, RunnerCount, RunnerWait, WaitTimesOut, Advance
  <2>2. CASE RunnerPrint(r)
    BY <2>2 DEF RunnerPrint, Advance
  <2>3. CASE RunnerReset(r)
    BY <2>3 DEF RunnerReset, Advance
  <2>4. QED
    BY <1>2, <2>1, <2>2, <2>3 DEF Run
<1>3. CASE Destroying(r) \/ DestructorClears(r)
  BY <1>3 DEF Destroying, DestructorNotifies, DestructorJoins, DestructorClears, Destruct
<1>4. QED
  BY <1>1, <1>2, <1>3

\* The variables of the reporters keep their types: there is never more to print than was
\* reported.
LEMMA ReporterTypeStep ==
    ASSUME ReporterTypeOK, CountInv, NEW r \in Reporter,
           Report(r) \/ Run(r) \/ Destroying(r) \/ DestructorClears(r)
    PROVE  ReporterTypeOK'
<1> USE DEF ReporterTypeOK
<1>1. CASE Report(r)
  BY <1>1 DEF Report, CountInv
<1>2. CASE Run(r)
  <2>1. CASE RunnerTest(r) \/ RunnerCount(r) \/ RunnerWait(r) \/ WaitTimesOut(r)
    BY <2>1 DEF RunnerTest, RunnerCount, RunnerWait, WaitTimesOut, Advance
  <2>2. CASE RunnerPrint(r)
    BY <2>2 DEF RunnerPrint, Advance
  <2>3. CASE RunnerReset(r)
    BY <2>3 DEF RunnerReset, Advance
  <2>4. QED
    BY <1>2, <2>1, <2>2, <2>3 DEF Run
<1>3. CASE DestructorNotifies(r)
  BY <1>3 DEF DestructorNotifies, Destruct
<1>4. CASE DestructorJoins(r)
  BY <1>4 DEF DestructorJoins, Destruct
<1>5. CASE DestructorClears(r)
  <2>1. running_' \in [Reporter -> BOOLEAN]
    BY <1>5 DEF DestructorClears
  <2>2. ASSUME NEW q \in Reporter
        PROVE  running_'[q] <=> object'[q] = "alive"
    <3>1. CASE q = r
      BY <1>5, <3>1 DEF DestructorClears, Destruct
    <3>2. CASE q # r
      BY <1>5, <3>2 DEF DestructorClears, Destruct
    <3>3. QED
      BY <3>1, <3>2
  <2>3. QED
    BY <1>5, <2>1, <2>2 DEF DestructorClears, Destruct
<1>6. QED
  BY <1>1, <1>2, <1>3, <1>4, <1>5 DEF Destroying

\* A step leaves the reporters alone or is a step of one of them.
LEMMA ReporterStep ==
    ASSUME Next
    PROVE  \/ UNCHANGED reporterVars
           \/ \E r \in Reporter : Report(r) \/ Run(r) \/ Destroying(r) \/ DestructorClears(r)
BY DEF Next, Step, ReaderThread, Stopped, vars, TestRunning, CaptureNothing, CaptureVideo,
       CaptureOther, Update, UpdateHalves, FeedSkipped, FeedFrame, Count, CreateEncoder, Stop,
       DestroyReader, DestroyModule
-----------------------------------------------------------------------------
(* The steps. *)

\* No step takes a variable out of its type: what is told and halved stays a rate.
LEMMA TypeStep == CaptureInv /\ [Next]_vars => TypeOK'
<1> SUFFICES ASSUME CaptureInv, [Next]_vars PROVE TypeOK'
  OBVIOUS
<1>i. TypeOK /\ CountInv
  BY DEF CaptureInv
<1>1. ReporterTypeOK'
  <2>1. CASE UNCHANGED reporterVars
    BY <1>i, <2>1 DEF TypeOK, ReporterTypeOK, reporterVars
  <2>2. CASE UNCHANGED vars
    BY <2>1, <2>2 DEF vars
  <2>3. CASE Next
    BY <1>i, <2>1, <2>3, ReporterStep, ReporterTypeStep DEF TypeOK
  <2>4. QED
    BY <2>2, <2>3
<1> USE <1>i, <1>1 DEF TypeOK, captureVars, readerVars, encoderVars, history
<1>2. CASE TestRunning \/ CaptureNothing \/ CaptureOther
  BY <1>2 DEF TestRunning, CaptureNothing, CaptureOther, Goto, Report, reporterVars
<1>3. CASE CaptureVideo
  <2>1. alike' \in BOOLEAN /\ fast' \in BOOLEAN
    BY <1>3 DEF CaptureVideo
  <2>2. lastHigh' \in {"none", "fed", "dropped"} /\ reader' \in {"update", "count"}
    BY <1>3 DEF CaptureVideo, Goto
  <2>3. \A r \in Reporter : object'[r] = "alive"
    BY <1>3 DEF CaptureVideo, reporterVars
  <2>4. QED
    BY <1>3, <2>1, <2>2, <2>3 DEF CaptureVideo
<1>4. CASE Update
  <2>1. frame_rate' \in Nat \X Nat
    BY <1>4, ToldRate DEF Update, CaptureInv, RateInv
  <2>2. QED
    BY <1>4, <2>1 DEF Update, Goto, reporterVars
<1>5. CASE UpdateHalves
  <2>1. frame_rate' \in Nat \X Nat
    BY <1>5, FinalRate DEF UpdateHalves, CaptureInv, RateInv, Final
  <2>2. QED
    BY <1>5, <2>1 DEF UpdateHalves, Goto, reporterVars
<1>6. CASE FeedSkipped \/ FeedFrame \/ Count
  <2>1. CASE FeedSkipped
    BY <2>1 DEF FeedSkipped, Goto, Report
  <2>2. CASE FeedFrame
    BY <2>2 DEF FeedFrame, Goto, reporterVars
  <2>3. CASE Count
    BY <2>3 DEF Count, Goto, reporterVars
  <2>4. QED
    BY <1>6, <2>1, <2>2, <2>3
<1>7. CASE CreateEncoder \/ Stop
  BY <1>7 DEF CreateEncoder, Stop, reporterVars
<1>8. CASE DestroyReader \/ DestroyModule
  <2>1. reader \in {"left", "exited"}
    BY <1>8 DEF DestroyReader, DestroyModule
  <2>2. QED
    BY <1>8, <2>1 DEF DestroyReader, DestroyModule
<1>9. ASSUME NEW r \in Reporter, Run(r) \/ Destroying(r), UNCHANGED captureVars
      PROVE  TypeOK'
  <2>1. \A q \in Reporter : object[q] = "alive" => object'[q] = "alive"
    BY <1>9 DEF Run, RunnerTest, RunnerCount, RunnerPrint, RunnerReset, RunnerWait,
                WaitTimesOut, Destroying, DestructorNotifies, DestructorJoins, Destruct,
                ReporterTypeOK
  <2>2. QED
    BY <1>9, <2>1
<1>10. CASE UNCHANGED vars
  BY <1>10 DEF vars, reporterVars
<1>11. QED
  BY <1>2, <1>3, <1>4, <1>5, <1>6, <1>7, <1>8, <1>9, <1>10 DEF Next, Step, ReaderThread, Stopped

\* A frame above 30 is treated by the parity of the count, which each frame turns.
LEMMA AlternationStep == CaptureInv /\ [Next]_vars => AlternationInv'
<1> SUFFICES ASSUME CaptureInv, [Next]_vars PROVE AlternationInv'
  OBVIOUS
<1> USE DEF CaptureInv, AlternationInv, AlternateFrames, Uncounted, Goto
<1>i. numVideoFrames \in 0..1 /\ lastHigh \in {"none", "fed", "dropped"}
  BY DEF TypeOK
<1>1. CASE TestRunning \/ CaptureNothing \/ CaptureOther
  BY <1>1 DEF TestRunning, CaptureNothing, CaptureOther, encoderVars, history
<1>2. CASE CaptureVideo
  <2>1. /\ numVideoFrames' = numVideoFrames /\ reader' \in {"update", "count"}
        /\ lastHigh' # "none" => lastHigh' = IF numVideoFrames = 0 THEN "fed" ELSE "dropped"
    BY <1>2 DEF CaptureVideo
  <2>2. reader = "capture" /\ alike' = (alike \/ (Above(frame', 30) /\ lastHigh = lastHigh'))
    BY <1>2 DEF CaptureVideo
  <2>3. lastHigh = lastHigh' => lastHigh' = "none"
    BY <1>i, <2>1, <2>2
  <2>4. Above(frame', 30) => lastHigh' # "none"
    BY <1>2 DEF CaptureVideo
  <2>5. ~alike'
    BY <2>2, <2>3, <2>4
  <2>6. QED
    BY <1>i, <2>1, <2>5
<1>3. CASE Update \/ UpdateHalves \/ FeedSkipped \/ FeedFrame
  <2>1. UNCHANGED <<numVideoFrames, lastHigh, alike>>
    BY <1>3 DEF Update, UpdateHalves, FeedSkipped, FeedFrame, history
  <2>2. reader \in {"update", "halve", "feed"} /\ reader' \in {"halve", "feed", "count"}
    BY <1>3 DEF Update, UpdateHalves, FeedSkipped, FeedFrame
  <2>3. QED
    BY <2>1, <2>2
<1>4. CASE Count
  BY <1>i, <1>4 DEF Count, history
<1>5. CASE CreateEncoder \/ Stop
  BY <1>5 DEF CreateEncoder, Stop, readerVars, history
<1>6. CASE UNCHANGED captureVars
  BY <1>6 DEF captureVars, readerVars, history
<1>7. QED
  BY <1>1, <1>2, <1>3, <1>4, <1>5, <1>6
     DEF Next, Step, ReaderThread, Stopped, DestroyReader, DestroyModule, vars

\* A rate is told before its frame is fed, and an encoder created after a frame was.
LEMMA RateStep == CaptureInv /\ [Next]_vars => RateInv' /\ EncoderKnowsRate'
<1> SUFFICES ASSUME CaptureInv, [Next]_vars PROVE RateInv' /\ EncoderKnowsRate'
  OBVIOUS
<1>i. TypeOK /\ RateInv /\ EncoderKnowsRate
  BY DEF CaptureInv
<1> USE <1>i DEF RateInv, EncoderKnowsRate, Goto
<1>1. CASE TestRunning \/ CaptureNothing \/ CaptureOther
  BY <1>1 DEF TestRunning, CaptureNothing, CaptureOther, encoderVars, history
<1>2. CASE CaptureVideo
  <2>1. /\ UNCHANGED <<frame_rate, delivered, encoder>>
        /\ reader' = "update" \/ reader' = "count"
        /\ frame' \in FrameRate
        /\ fast => fast'
    BY <1>2 DEF CaptureVideo, encoderVars
  <2>2. reader' = "update" /\ Above(frame', 60) => fast'
    <3>1. SUFFICES ASSUME reader' = "update", Above(frame', 60), numVideoFrames # 0
                   PROVE  fast'
      BY <1>2 DEF CaptureVideo
    <3>2. numVideoFrames = 1 /\ ~Above(frame', 30)
      BY <1>2, <3>1 DEF CaptureVideo, TypeOK
    <3>3. frame'[1] \in Nat /\ frame'[2] \in Nat
      BY <2>1
    <3>4. QED
      BY <3>1, <3>2, <3>3 DEF Above
  <2>3. QED
    BY <2>1, <2>2 DEF Above
<1>3. CASE Update
  <2>1. /\ frame \in FrameRate /\ Told(frame)[1] > 0
        /\ ~fast => ~Above(Told(frame), 30)
    BY <1>3, ToldRate DEF Update
  <2>2. QED
    BY <1>3, <2>1 DEF Update, history, Final
<1>4. CASE UpdateHalves
  <2>1. /\ frame \in FrameRate /\ Final(frame)[1] > 0
        /\ ~fast => ~Above(Final(frame), 30)
    BY <1>4, FinalRate DEF UpdateHalves
  <2>2. frame_rate' = Final(frame)
    BY <1>4 DEF UpdateHalves, Final
  <2>3. QED
    BY <1>4, <2>1, <2>2 DEF UpdateHalves, history
<1>5. CASE FeedSkipped \/ FeedFrame \/ Count
  <2>1. UNCHANGED <<frame_rate, encoder, fast>>
    BY <1>5 DEF FeedSkipped, FeedFrame, Count, encoderVars, history
  <2>2. reader' = "count" \/ reader' = "test"
    BY <1>5 DEF FeedSkipped, FeedFrame, Count
  <2>3. delivered' => delivered \/ reader = "feed"
    BY <1>5 DEF FeedSkipped, FeedFrame, Count, encoderVars
  <2>4. QED
    BY <2>1, <2>2, <2>3
<1>6. CASE CreateEncoder \/ Stop
  BY <1>6 DEF CreateEncoder, Stop, readerVars, encoderVars, history
<1>7. CASE UNCHANGED captureVars
  BY <1>7 DEF captureVars, readerVars, encoderVars, history
<1>8. QED
  BY <1>1, <1>2, <1>3, <1>4, <1>5, <1>6, <1>7
     DEF Next, Step, ReaderThread, Stopped, DestroyReader, DestroyModule, vars

\* The invariant is inductive.
THEOREM CaptureCorrect == Spec => []CaptureInv
<1>1. CaptureInv /\ [Next]_vars => CaptureInv'
  <2> SUFFICES ASSUME CaptureInv, [Next]_vars PROVE CaptureInv'
    OBVIOUS
  <2>1. CountInv'
    <3>1. CASE UNCHANGED reporterVars
      BY <3>1 DEF CaptureInv, CountInv, CountsAreExact, Pending, Lost, reporterVars
    <3>2. CASE Next
      BY <3>1, <3>2, ReporterStep, CountStep DEF CaptureInv, TypeOK
    <3>3. QED
      BY <3>1, <3>2 DEF vars
  <2>2. QED
    BY <2>1, TypeStep, AlternationStep, RateStep DEF CaptureInv
<1>2. QED
  BY <1>1, InitCapture, PTL DEF Spec

\* Whatever is reported when, no report is printed twice, none is lost but those between a
\* print and its reset and those made after the last look at the counter before the end, and
\* the reporters outlive their users.
THEOREM ReportersCorrect == Spec => []ReportersInv
<1>1. CaptureInv => ReportersInv
  BY DEF CaptureInv, CountInv, ReportersInv
<1>2. QED
  BY <1>1, CaptureCorrect, PTL

\* Of two successive frames above 30 one is fed and one is dropped, for any sequence of rates.
THEOREM FramesAlternate == Spec => []AlternateFrames
<1>1. CaptureInv => AlternateFrames
  BY DEF CaptureInv, AlternationInv
<1>2. QED
  BY <1>1, CaptureCorrect, PTL

\* No encoder is created before a rate is told, nor with one above 30 for a source up to 60.
THEOREM EncoderIsTold == Spec => []EncoderKnowsRate
<1>1. CaptureInv => EncoderKnowsRate
  BY DEF CaptureInv
<1>2. QED
  BY <1>1, CaptureCorrect, PTL

\* The rate told is the rate fed, but for the rounding of the integers, for every rate.
THEOREM FedAtRateTold == Spec => []RateIsFed
<1>1. CaptureInv => RateIsFed
  <2> SUFFICES ASSUME CaptureInv, reader = "feed" PROVE RateIsFed
    BY DEF RateIsFed
  <2>1. frame \in FrameRate /\ frame_rate = Final(frame)
    BY DEF CaptureInv, RateInv
  <2>2. QED
    BY <2>1, GapOfFinal, FinalRate DEF RateIsFed
<1>2. QED
  BY <1>1, CaptureCorrect, PTL
=============================================================================
