-------------------------- MODULE ThrottledReporter --------------------------
(***************************************************************************)
(* class ThrottledReporter: counts reports, and a thread of its own prints *)
(* how many there were every few seconds.  There is one in each NDIReader, *)
(* for captures without data, one in VideoDeviceModule, for the frames     *)
(* AdaptFrame drops, and one in BaseAudioDeviceModule, for frames that give*)
(* another number of samples than asked for.  Capture composes the first   *)
(* two with their users.                                                   *)
(*                                                                         *)
(* The counter is atomic, but the thread reads it to print it and resets   *)
(* it in two steps; and it does not look at it once more when it leaves its*)
(* loop.  The destructor clears running_ and notifies without              *)
(* the mutex: a notification that finds the thread between its test of     *)
(* running_ and wait_for is lost, and only the timeout of wait_for ends    *)
(* the wait.                                                               *)
(***************************************************************************)
EXTENDS Integers

CONSTANTS Reporter,     \* the reporters
          MaxReports    \* bound on the reports made to each

ASSUME ReporterAssumption == MaxReports \in Nat

VARIABLES total_reports,   \* the reports not printed yet
          running_,
          runner,          \* where the thread runner_ is in run
          object,          \* "alive", or how far the destructor is
          reported,        \* history: the reports made
          printed,         \* history: the sum of the numbers printed
          late,            \* history: the reports made between a print and its reset
          looked           \* history: the reports made when the thread last looked
reporterVars == <<total_reports, running_, runner, object, reported, printed, late,
                  looked>>

ReporterInit == /\ total_reports = [r \in Reporter |-> 0]
                /\ running_ = [r \in Reporter |-> TRUE]
                /\ runner = [r \in Reporter |-> "test"]
                /\ object = [r \in Reporter |-> "alive"]
                /\ reported = [r \in Reporter |-> 0]
                /\ printed = [r \in Reporter |-> 0]
                /\ late = [r \in Reporter |-> 0]
                /\ looked = [r \in Reporter |-> 0]

Advance(r, from, to) == runner[r] = from /\ runner' = [runner EXCEPT ![r] = to]
Destruct(r, from, to) == object[r] = from /\ object' = [object EXCEPT ![r] = to]
-----------------------------------------------------------------------------
\* Faulty variants: the counter is not reset; wait instead of wait_for.

RunnerKeeps(r) == /\ Advance(r, "reset", "wait")
                  /\ UNCHANGED <<total_reports, running_, object, reported, printed, late, looked>>

WaitForever(r) == FALSE /\ UNCHANGED reporterVars
-----------------------------------------------------------------------------
\* report, called by the owner's threads.
Report(r) == /\ reported[r] < MaxReports
             /\ total_reports' = [total_reports EXCEPT ![r] = @ + 1]
             /\ reported' = [reported EXCEPT ![r] = @ + 1]
             /\ late' = [late EXCEPT ![r] = IF runner[r] = "reset" THEN @ + 1 ELSE @]
             /\ UNCHANGED <<running_, runner, object, printed, looked>>

(* run: the thread. *)

RunnerTest(r) == /\ Advance(r, "test", IF running_[r] THEN "count" ELSE "left")
                 /\ UNCHANGED <<total_reports, running_, object, reported, printed, late, looked>>

RunnerCount(r) == /\ Advance(r, "count", IF total_reports[r] > 0 THEN "print" ELSE "wait")
                  /\ looked' = [looked EXCEPT ![r] = reported[r]]
                  /\ UNCHANGED <<total_reports, running_, object, reported, printed, late>>

RunnerPrint(r) == /\ Advance(r, "print", "reset")
                  /\ printed' = [printed EXCEPT ![r] = @ + total_reports[r]]
                  /\ UNCHANGED <<total_reports, running_, object, reported, late, looked>>

RunnerReset(r) == /\ Advance(r, "reset", "wait")
                  /\ total_reports' = [total_reports EXCEPT ![r] = 0]
                  /\ UNCHANGED <<running_, object, reported, printed, late, looked>>

\* The mutex is taken and given back by wait_for; nobody else takes it.
RunnerWait(r) == /\ Advance(r, "wait", "waiting")
                 /\ UNCHANGED <<total_reports, running_, object, reported, printed, late, looked>>

WaitTimesOut(r) == /\ Advance(r, "waiting", "test")
                   /\ UNCHANGED <<total_reports, running_, object, reported, printed, late, looked>>

(* The destructor. *)

DestructorClears(r) == /\ Destruct(r, "alive", "cleared")
                       /\ running_' = [running_ EXCEPT ![r] = FALSE]
                       /\ UNCHANGED <<total_reports, runner, reported, printed, late, looked>>

\* notify_all wakes the thread only if it waits already.
DestructorNotifies(r) ==
    /\ Destruct(r, "cleared", "joining")
    /\ runner' = [runner EXCEPT ![r] = IF @ = "waiting" THEN "test" ELSE @]
    /\ UNCHANGED <<total_reports, running_, reported, printed, late, looked>>

DestructorJoins(r) == /\ runner[r] = "left"
                      /\ Destruct(r, "joining", "gone")
                      /\ UNCHANGED <<total_reports, running_, runner, reported, printed,
                                     late, looked>>

Run(r) == \/ RunnerTest(r) \/ RunnerCount(r) \/ RunnerPrint(r) \/ RunnerReset(r)
          \/ RunnerWait(r) \/ WaitTimesOut(r)

Destroying(r) == DestructorNotifies(r) \/ DestructorJoins(r)
-----------------------------------------------------------------------------
\* The types of the variables; the thread leaves only once the destructor runs.
ReporterTypeOK ==
    /\ total_reports \in [Reporter -> 0..MaxReports]
    /\ running_ \in [Reporter -> BOOLEAN]
    /\ runner \in [Reporter -> {"test", "count", "print", "reset", "wait", "waiting", "left"}]
    /\ object \in [Reporter -> {"alive", "cleared", "joining", "gone"}]
    /\ \A r \in Reporter : running_[r] <=> object[r] = "alive"
    /\ reported \in [Reporter -> 0..MaxReports]
    /\ printed \in [Reporter -> Nat]
    /\ late \in [Reporter -> Nat]
    /\ looked \in [Reporter -> 0..MaxReports]

\* The reports that will not be printed: "total_reports_ = 0" forgets those made since the
\* print, and nobody prints those still counted when the thread has left.
Lost(r) == late[r] + IF runner[r] = "left" THEN total_reports[r] ELSE 0

\* The reports still to be printed; those just printed are counted until the reset.
Pending(r) == IF runner[r] \in {"reset", "left"} THEN 0 ELSE total_reports[r]

\* No report is printed twice, and none is lost but between a print and its reset, or at
\* the end; and what is lost at the end was reported after the thread looked at the counter
\* for the last time: it prints whatever it found then.
CountsAreExact ==
    \A r \in Reporter :
        /\ reported[r] = printed[r] + Pending(r) + Lost(r)
        /\ runner[r] \notin {"print", "reset"} => total_reports[r] <= reported[r] - looked[r]
=============================================================================
