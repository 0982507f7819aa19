---------------------------- MODULE MessageQueue ----------------------------
(***************************************************************************)
(* mq/src/main.c: the main thread sends five messages through a POSIX      *)
(* queue of a few places, an empty one after each, to a thread that        *)
(* receives for ever; then it joins that thread.                           *)
(***************************************************************************)
EXTENDS Integers, Sequences, SequencesExt

CONSTANTS MaxMsg,       \* mq_maxmsg, the program's argument
          Empty         \* a message of no bytes

Count == 5

VARIABLES
    queue,      \* the messages in the kernel
    pc,         \* of main: "open", "create", "send", "sendEmpty", "join" or "exit"
    i,          \* main's loop counter
    running,    \* the receiver exists
    received    \* the messages it has received

vars == <<queue, pc, i, running, received>>

Init == /\ queue = << >> /\ pc = "open" /\ i = 0
        /\ running = FALSE /\ received = << >>

(* The return of main ends the receiver, too. *)
Exit == pc' = "exit" /\ running' = FALSE /\ UNCHANGED <<queue, i, received>>

(* mq_unlink, then a new queue; the kernel may refuse it. *)
Open == /\ pc = "open"
        /\ \/ pc' = "create" /\ UNCHANGED <<queue, i, running, received>>
           \/ Exit

Create == /\ pc = "create"
          /\ \/ pc' = "send" /\ running' = TRUE /\ UNCHANGED <<queue, i, received>>
             \/ Exit

(* mq_send waits for a place. *)
Put(m) == Len(queue) < MaxMsg /\ queue' = Append(queue, m)

Send == /\ pc = "send"
        /\ i < Count
        /\ Put(i)
        /\ pc' = "sendEmpty"
        /\ UNCHANGED <<i, running, received>>

(* An error of the first mq_send ends the program; one of the second is not seen. *)
SendFails == pc = "send" /\ i < Count /\ Exit

SendEmpty == /\ pc = "sendEmpty"
             /\ Put(Empty) \/ UNCHANGED queue
             /\ i' = i + 1
             /\ pc' = "send"
             /\ UNCHANGED <<running, received>>

Join == /\ pc = "send" /\ i = Count
        /\ pc' = "join"
        /\ UNCHANGED <<queue, i, running, received>>

(* The receiver ends when mq_receive returns less than 0. *)
Ends(m) == FALSE

Receive == /\ running
           /\ queue # << >>
           /\ received' = Append(received, Head(queue))
           /\ queue' = Tail(queue)
           /\ running' = ~ Ends(Head(queue))
           /\ UNCHANGED <<pc, i>>

Main == Open \/ Create \/ Send \/ SendFails \/ SendEmpty \/ Join

Next == Main \/ Receive

Fairness == WF_vars(Main) /\ WF_vars(Receive)

Spec == Init /\ [][Next]_vars /\ Fairness

--------------------------------------------------------------------------
Done ==
    \/ pc = "exit"
    \/ /\ pc = "join"
       /\ SelectSeq(received, LAMBDA m : m # Empty) = [k \in 1 .. Count |-> k - 1]

(* Though the queue has fewer places than there are messages, main comes to the *)
(* join, and all five are received in order by then or later, unless the        *)
(* program ends before.                                                         *)
AllReceived == <>Done
=============================================================================
