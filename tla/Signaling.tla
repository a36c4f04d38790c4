----------------------------- MODULE Signaling -----------------------------
(***************************************************************************)
(* class Signaling: the buffer of outgoing lines.  Any thread appends to   *)
(* it under a mutex (send); the main thread copies and clears it under the *)
(* same mutex and prints the copy after unlocking (commitBuffer).          *)
(*                                                                         *)
(* The main thread sends too: the observers of the peer connection run on  *)
(* it, between two calls of commitBuffer.                                  *)
(***************************************************************************)
EXTENDS Naturals, Sequences

CONSTANTS Thread,       \* the threads that call send
          Main,         \* the one that also calls commitBuffer
          Line,         \* the lines they send
          NoThread,     \* the owner of a free mutex
          MaxLines      \* bound on the number of lines sent in a behaviour

ASSUME SignalingAssumption == /\ Main \in Thread
                              /\ NoThread \notin Thread
                              /\ MaxLines \in Nat

VARIABLES mutex,        \* Signaling::mutex: its owner
          buffer,       \* Signaling::buffer
          current,      \* commitBuffer's local copy
          stdout,       \* the lines written to cout
          pc            \* where each thread is: outside, or in a step named below
vars == <<mutex, buffer, current, stdout, pc>>

Init == /\ mutex = NoThread
        /\ buffer = <<>>
        /\ current = <<>>
        /\ stdout = <<>>
        /\ pc = [t \in Thread |-> "outside"]

Goto(t, step) == pc' = [pc EXCEPT ![t] = step]

\* unique_lock<std::mutex> lock(mutex), on entry to send or commitBuffer.
Lock(t, step) == /\ pc[t] = "outside"
                 /\ mutex = NoThread
                 /\ mutex' = t
                 /\ Goto(t, step)
                 /\ UNCHANGED <<buffer, current, stdout>>

\* The lines sent so far, in order.
\* While commitBuffer is between its copy and its clear they are in both.
Accepted == stdout \o (IF pc[Main] = "clear" THEN buffer ELSE current \o buffer)

----------------------------------------------------------------------------
(***************************************************************************)
(* Faulty variants of the steps below, one per property stated at the end: *)
(* the property must tell the code from the variant.                       *)
(***************************************************************************)

\* The lock is dropped before the buffer is cleared.
CopyThenUnlock == /\ pc[Main] = "copy"
                  /\ current' = current \o buffer
                  /\ mutex' = NoThread
                  /\ Goto(Main, "clear")
                  /\ UNCHANGED <<buffer, stdout>>

\* send does not take the mutex.
SendLockFree(t) == /\ Len(Accepted) < MaxLines
                   /\ pc[t] = "outside"
                   /\ Goto(t, "push")
                   /\ UNCHANGED <<mutex, buffer, current, stdout>>

\* The loop ends after the first line of the copy.
PrintFirst == /\ pc[Main] = "print"
              /\ current # <<>>
              /\ stdout' = Append(stdout, Head(current))
              /\ current' = <<>>
              /\ UNCHANGED <<mutex, buffer, pc>>

\* Lines are taken from the back of the copy.
PrintNewest == /\ pc[Main] = "print"
               /\ current # <<>>
               /\ stdout' = Append(stdout, current[Len(current)])
               /\ current' = SubSeq(current, 1, Len(current) - 1)
               /\ UNCHANGED <<mutex, buffer, pc>>
----------------------------------------------------------------------------
(* The steps of the code. *)

SendLock(t) == /\ Len(Accepted) < MaxLines
               /\ Lock(t, "push")

\* buffer.push_back(s), and the lock is released on return.
SendPush(t) == /\ pc[t] = "push"
               /\ \E l \in Line : buffer' = Append(buffer, l)
               /\ mutex' = NoThread
               /\ Goto(t, "outside")
               /\ UNCHANGED <<current, stdout>>

CommitLock == Lock(Main, "copy")

\* The loop that copies buffer into the empty local vector.
CommitCopy == /\ pc[Main] = "copy"
              /\ current' = current \o buffer
              /\ Goto(Main, "clear")
              /\ UNCHANGED <<mutex, buffer, stdout>>

CommitClear == /\ pc[Main] = "clear"
               /\ buffer' = <<>>
               /\ Goto(Main, "unlock")
               /\ UNCHANGED <<mutex, current, stdout>>

\* lock.unlock(), before anything is printed.
CommitUnlock == /\ pc[Main] = "unlock"
                /\ mutex' = NoThread
                /\ Goto(Main, "print")
                /\ UNCHANGED <<buffer, current, stdout>>

\* cout << i << endl, for the next line of the copy.
CommitPrint == /\ pc[Main] = "print"
               /\ current # <<>>
               /\ stdout' = Append(stdout, Head(current))
               /\ current' = Tail(current)
               /\ UNCHANGED <<mutex, buffer, pc>>

\* The early return on an empty copy, or the flush after the last line.
CommitReturn == /\ pc[Main] = "print"
                /\ current = <<>>
                /\ Goto(Main, "outside")
                /\ UNCHANGED <<mutex, buffer, current, stdout>>

Send(t) == SendLock(t) \/ SendPush(t)

commitBuffer == \/ CommitLock \/ CommitCopy \/ CommitClear
                \/ CommitUnlock \/ CommitPrint \/ CommitReturn

Next == commitBuffer \/ \E t \in Thread : Send(t)

(***************************************************************************)
(* Dispatcher::run calls commitBuffer in a loop, so the main thread keeps  *)
(* taking its steps; a thread that holds the mutex releases it.  Under     *)
(* contention std::mutex does not starve a thread forever: strong fairness *)
(* of CommitLock.  Nobody is obliged to send.                              *)
(***************************************************************************)
Fairness == /\ SF_vars(CommitLock)
            /\ WF_vars(CommitCopy \/ CommitClear \/ CommitUnlock)
            /\ WF_vars(CommitPrint \/ CommitReturn)
            /\ \A t \in Thread : WF_vars(SendPush(t))

Spec == Init /\ [][Next]_vars

FairSpec == Spec /\ Fairness
----------------------------------------------------------------------------
Holding == {"push", "copy", "clear", "unlock"}

\* The types of the variables, and the bound on the lines of a behaviour.
TypeOK == /\ mutex \in Thread \cup {NoThread}
          /\ buffer \in Seq(Line)
          /\ current \in Seq(Line)
          /\ stdout \in Seq(Line)
          /\ pc \in [Thread -> {"outside", "print"} \cup Holding]
          /\ \A t \in Thread \ {Main} : pc[t] \in {"outside", "push"}
          /\ Len(Accepted) <= MaxLines

\* A thread that may push has room for its line.
RoomToPush == \A t \in Thread : pc[t] = "push" => Len(Accepted) < MaxLines

\* The mutex is owned by the one thread that is in a step under the lock.
MutexInv == \A t \in Thread : pc[t] \in Holding <=> mutex = t

\* The copy commitBuffer prints is the whole buffer it clears: no line gets in
\* between the loop and buffer.clear(), where it would be cleared uncopied, and
\* nothing of an earlier copy is left when the next one is made.
CopyIsWhole == /\ pc[Main] = "clear" => current = buffer
               /\ pc[Main] = "unlock" => buffer = <<>>
               /\ pc[Main] \in {"outside", "push", "copy"} => current = <<>>

\* What makes the refinement below inductive.
SignalingInv == TypeOK /\ RoomToPush /\ MutexInv /\ CopyIsWhole

\* The detailed buffer, with its mutex and its copy, keeps the promise of
\* OutputChannel: stdout is at all times a prefix of what the threads sent, in
\* the order the mutex gave them, with nothing lost, doubled or swapped.
Channel == INSTANCE OutputChannel WITH accepted <- Accepted, printed <- stdout

ChannelSpec == Channel!Spec

\* Every line that was sent is printed: commitBuffer never leaves one behind,
\* however sends and commits interleave.
EveryLinePrinted == \A n \in 1..MaxLines : Len(Accepted) >= n ~> Len(stdout) >= n
============================================================================
