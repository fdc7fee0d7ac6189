----------------------------- MODULE ByteSource -----------------------------
(***************************************************************************)
(* What a byte source over a file promises the tasks that share it, as the *)
(* readers rely on it (copc-streaming/src/byte_source.rs).  A task asks    *)
(* for a batch of ranges and waits.  If it is given data, it is given the  *)
(* bytes of its own ranges, one buffer per range, in order.  A range that  *)
(* no buffer can hold breaks the source: the task panics, and so does      *)
(* every task that asks later.                                             *)
(***************************************************************************)
EXTENDS Integers, Sequences

CONSTANTS
    Task,      \* the tasks, or threads, that share the source
    Batch,     \* the lists of ranges that are asked for
    FileSize,  \* length of the file
    Content,   \* Content[i]: the byte at offset i
    MaxAlloc   \* the longest buffer that can be allocated

VARIABLES
    waiting,   \* the tasks that wait for an answer
    ask,       \* ask[t]: the batch t asked for last
    reply,     \* reply[t]: the answer t was given last
    broken

vars == << waiting, ask, reply, broken >>

DataOf(r) == [i \in 0 .. r.length - 1 |-> Content[r.offset + i]]

(* An empty range is read wherever it lies: read_exact of an empty buffer  *)
(* asks for nothing (file_source.rs:34-36).                                *)
InFile(r) == r.length = 0 \/ r.offset + r.length <= FileSize

NoReply == [kind |-> "none", data |-> << >>]
Err     == [kind |-> "err", data |-> << >>]
Panic   == [kind |-> "panic", data |-> << >>]

Given(b) == [kind |-> "ok", data |-> [i \in DOMAIN b |-> DataOf(b[i])]]

Init ==
    /\ waiting = {}
    /\ ask = [t \in Task |-> << >>]
    /\ reply = [t \in Task |-> NoReply]
    /\ broken = FALSE

Ask(t, b) ==
    /\ t \notin waiting
    /\ waiting' = waiting \cup {t}
    /\ ask' = [ask EXCEPT ![t] = b]
    /\ reply' = [reply EXCEPT ![t] = NoReply]
    /\ UNCHANGED broken

Answer(t, r) ==
    /\ t \in waiting
    /\ waiting' = waiting \ {t}
    /\ reply' = [reply EXCEPT ![t] = r]
    /\ UNCHANGED ask

Give(t) ==
    /\ ~broken
    /\ \A i \in DOMAIN ask[t] : InFile(ask[t][i])
    /\ Answer(t, Given(ask[t]))
    /\ UNCHANGED broken

(* A range past the end of the file, or an I/O error. *)
Refuse(t) ==
    /\ ~broken
    /\ Answer(t, Err)
    /\ UNCHANGED broken

Break(t) ==
    /\ ~broken
    /\ \E i \in DOMAIN ask[t] : ask[t][i].length > MaxAlloc
    /\ Answer(t, Panic)
    /\ broken' = TRUE

FindBroken(t) ==
    /\ broken
    /\ Answer(t, Panic)
    /\ UNCHANGED broken

Next ==
    \E t \in Task :
        \/ \E b \in Batch : Ask(t, b)
        \/ Give(t) \/ Refuse(t) \/ Break(t) \/ FindBroken(t)

Spec == Init /\ [][Next]_vars
=============================================================================
