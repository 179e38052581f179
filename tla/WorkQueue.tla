------------------------------ MODULE WorkQueue ------------------------------
(***************************************************************************)
(* What a durable work queue promises to the code that publishes to it,    *)
(* with no table, channel, semaphore or clock in sight: a message that was *)
(* accepted stays with the queue until some attempt at it has ended, and   *)
(* it does not stay for ever.  Attempts may be abandoned (the process      *)
(* died, the handler asked for another try, the outcome could not be       *)
(* stored) and made again, so delivery is at least once.                   *)
(*                                                                         *)
(* QliteBroker implements this specification.                              *)
(***************************************************************************)
CONSTANT Msgs   \* the messages that may ever be published

VARIABLES waiting,   \* accepted, nobody works on it
          taken,     \* some handler works on it
          done       \* an attempt ended and its outcome is on record

queue == <<waiting, taken, done>>

Init == /\ waiting = {}
        /\ taken = {}
        /\ done = {}

Accept(m) == /\ m \notin waiting \cup taken \cup done
             /\ waiting' = waiting \cup {m}
             /\ UNCHANGED <<taken, done>>

Take(m) == /\ m \in waiting
           /\ waiting' = waiting \ {m}
           /\ taken' = taken \cup {m}
           /\ UNCHANGED done

\* One attempt, or at a crash every attempt at once, ends with nothing on record.
Abandon(S) == /\ S \subseteq taken
              /\ taken' = taken \ S
              /\ waiting' = waiting \cup S
              /\ UNCHANGED done

Finish(m) == /\ m \in taken
             /\ taken' = taken \ {m}
             /\ done' = done \cup {m}
             /\ UNCHANGED waiting

Next == \/ \E m \in Msgs : Accept(m) \/ Take(m) \/ Finish(m)
        \/ \E S \in SUBSET taken : Abandon(S)

\* The safety part of the promise.
SafeSpec == Init /\ [][Next]_queue

=============================================================================
