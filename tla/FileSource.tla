----------------------------- MODULE FileSource -----------------------------
(***************************************************************************)
(* A local file as a byte source (copc-streaming/src/file_source.rs) that  *)
(* threads share: one file handle, with one cursor, behind one mutex.      *)
(*                                                                         *)
(* A thread reads a batch of ranges one after the other, as the read_ranges *)
(* of byte_source.rs does.  A read takes the mutex, seeks, allocates its   *)
(* buffer and fills it in as many reads of the file as these take, then    *)
(* releases the mutex.  No read suspends, so no future is dropped halfway. *)
(* A buffer longer than MaxAlloc makes the allocation panic while the      *)
(* mutex is held, which poisons it; the unwrap of a poisoned lock panics.  *)
(*                                                                         *)
(* Abstractions.  usize has 64 bits, so that no length is truncated; an    *)
(* allocation that the machine has no memory for ends the program and is   *)
(* not modelled.  A batch without ranges touches nothing and is left out.  *)
(***************************************************************************)
EXTENDS Integers, Sequences

CONSTANTS
    Task,      \* the threads that share the source
    Batch,     \* the lists of ranges they read
    FileSize,  \* length of the file
    Content,   \* Content[i]: the byte at offset i
    Byte,      \* the values of a byte
    MaxAlloc,  \* isize::MAX, the longest Vec<u8>
    MaxSeek,   \* i64::MAX, the last offset that can be seeked to
    MaxCalls   \* bound on the batches a thread reads

Range == [offset : Nat, length : Nat]

ASSUME FileSourceAssumption ==
    /\ Batch \subseteq Seq(Range) \ { << >> }
    /\ FileSize \in Nat
    /\ Content \in [0 .. FileSize - 1 -> Byte]
    /\ 0 \in Byte
    /\ MaxAlloc \in Nat
    /\ MaxSeek \in Nat
    /\ MaxCalls \in Nat

VARIABLES
    pos,       \* the cursor of the file handle
    holder,    \* the threads in the mutex
    poisoned,  \* whether the mutex is poisoned
    pc,        \* where a thread is in read_range; idle outside of it
    ask,       \* the batch it reads
    got,       \* the buffers it has read of its batch
    buf,       \* the buffer it is filling
    filled,    \* how much of buf it has filled
    reply,     \* what its last batch returned
    calls      \* batches it has begun

vars == << pos, holder, poisoned, pc, ask, got, buf, filled, reply, calls >>

NoReply == [kind |-> "none", data |-> << >>]
Err     == [kind |-> "err", data |-> << >>]
Panic   == [kind |-> "panic", data |-> << >>]

Init ==
    /\ pos = 0
    /\ holder = {}
    /\ poisoned = FALSE
    /\ pc = [t \in Task |-> "idle"]
    /\ ask = [t \in Task |-> << >>]
    /\ got = [t \in Task |-> << >>]
    /\ buf = [t \in Task |-> << >>]
    /\ filled = [t \in Task |-> 0]
    /\ reply = [t \in Task |-> NoReply]
    /\ calls = [t \in Task |-> 0]

(* The range thread t reads. *)
Current(t) == ask[t][Len(got[t]) + 1]

Goto(t, from, to) ==
    /\ pc[t] = from
    /\ pc' = [pc EXCEPT ![t] = to]

(* The batch of t ends. *)
Return(t, r) ==
    /\ pc' = [pc EXCEPT ![t] = "idle"]
    /\ reply' = [reply EXCEPT ![t] = r]
    /\ got' = [got EXCEPT ![t] = << >>]
    /\ UNCHANGED << ask, calls >>

(* The guard of the mutex goes out of scope, and with it the buffer. *)
Unlock(t) ==
    /\ holder' = holder \ {t}
    /\ buf' = [buf EXCEPT ![t] = << >>]
    /\ filled' = [filled EXCEPT ![t] = 0]

-----------------------------------------------------------------------------
ReadRanges(t, b) ==
    /\ calls[t] < MaxCalls
    /\ Goto(t, "idle", "lock")
    /\ calls' = [calls EXCEPT ![t] = @ + 1]
    /\ ask' = [ask EXCEPT ![t] = b]
    /\ reply' = [reply EXCEPT ![t] = NoReply]
    /\ UNCHANGED << pos, holder, poisoned, got, buf, filled >>

(* Mutants: no mutex; a poisoned mutex taken all the same. *)
LockNothing(t) ==
    /\ ~poisoned
    /\ Goto(t, "lock", "seek")
    /\ holder' = holder \cup {t}
    /\ UNCHANGED << pos, poisoned, ask, got, buf, filled, reply, calls >>

LockPoisonedToo(t) ==
    /\ holder = {}
    /\ Goto(t, "lock", "seek")
    /\ holder' = {t}
    /\ UNCHANGED << pos, poisoned, ask, got, buf, filled, reply, calls >>

Lock(t) ==
    /\ holder = {} /\ ~poisoned
    /\ Goto(t, "lock", "seek")
    /\ holder' = {t}
    /\ UNCHANGED << pos, poisoned, ask, got, buf, filled, reply, calls >>

(* The unwrap of lock() on a poisoned mutex. *)
LockPanics(t) ==
    /\ holder = {} /\ poisoned
    /\ pc[t] = "lock"
    /\ Return(t, Panic)
    /\ UNCHANGED << pos, holder, poisoned, buf, filled >>

Seek(t) ==
    /\ Goto(t, "seek", "alloc")
    /\ Current(t).offset <= MaxSeek
    /\ pos' = Current(t).offset
    /\ UNCHANGED << holder, poisoned, ask, got, buf, filled, reply, calls >>

Alloc(t) ==
    /\ Goto(t, "alloc", "fill")
    /\ Current(t).length <= MaxAlloc
    /\ buf' = [buf EXCEPT ![t] = [i \in 0 .. Current(t).length - 1 |-> 0]]
    /\ filled' = [filled EXCEPT ![t] = 0]
    /\ UNCHANGED << pos, holder, poisoned, ask, got, reply, calls >>

AllocPanics(t) ==
    /\ pc[t] = "alloc"
    /\ Current(t).length > MaxAlloc
    /\ poisoned' = TRUE
    /\ Unlock(t)
    /\ Return(t, Panic)
    /\ UNCHANGED pos

(* Mutant: a portion longer than what is left of the buffer. *)
AllOfFile(t) == 1 .. FileSize - pos

(* What one read of the file may bring: at least a byte, unless the file   *)
(* ends.                                                                   *)
Portion(t) ==
    { n \in 1 .. FileSize - pos : filled[t] + n <= Current(t).length }

Fill(t) ==
    /\ pc[t] = "fill"
    /\ \E n \in Portion(t) :
          /\ buf' = [buf EXCEPT ![t] =
                        [i \in 0 .. Current(t).length - 1 |->
                            IF filled[t] <= i /\ i < filled[t] + n
                            THEN Content[pos + (i - filled[t])] ELSE @[i]]]
          /\ filled' = [filled EXCEPT ![t] = @ + n]
          /\ pos' = pos + n
    /\ UNCHANGED << holder, poisoned, pc, ask, got, reply, calls >>

(* The buffer is full: on to the next range, or Ok. *)
Filled(t) ==
    /\ pc[t] = "fill"
    /\ filled[t] = Current(t).length
    /\ Unlock(t)
    /\ \/ /\ Len(got[t]) + 1 < Len(ask[t])
          /\ pc' = [pc EXCEPT ![t] = "lock"]
          /\ got' = [got EXCEPT ![t] = Append(@, buf[t])]
          /\ UNCHANGED << ask, reply, calls >>
       \/ /\ Len(got[t]) + 1 = Len(ask[t])
          /\ Return(t, [kind |-> "ok", data |-> Append(got[t], buf[t])])
    /\ UNCHANGED << pos, poisoned >>

(* Mutant: an error leaves the mutex locked. *)
FailsLocked(t) ==
    /\ pc[t] \in {"seek", "fill"}
    /\ Return(t, Err)
    /\ UNCHANGED << pos, holder, poisoned, buf, filled >>

(* The seek or a read fails, or the file ends before the buffer is full. *)
Fails(t) ==
    /\ pc[t] \in {"seek", "fill"}
    /\ Unlock(t)
    /\ Return(t, Err)
    /\ UNCHANGED << pos, poisoned >>

-----------------------------------------------------------------------------
Step(t) ==
    \/ Lock(t) \/ LockPanics(t)
    \/ Seek(t) \/ Alloc(t) \/ AllocPanics(t)
    \/ Fill(t) \/ Filled(t) \/ Fails(t)

Next == \E t \in Task : Step(t) \/ \E b \in Batch : ReadRanges(t, b)

Spec == Init /\ [][Next]_vars

(* Every thread runs.  The mutex need not be fair: a thread that waits for *)
(* it waits for finitely many reads.                                       *)
FairSpec == Spec /\ \A t \in Task : WF_vars(Step(t))
-----------------------------------------------------------------------------
(* Types. *)
TypeOK ==
    /\ pos \in Nat
    /\ holder \subseteq Task
    /\ poisoned \in BOOLEAN
    /\ pc \in [Task -> {"idle", "lock", "seek", "alloc", "fill"}]
    /\ ask \in [Task -> Seq(Range)]
    /\ calls \in [Task -> 0 .. MaxCalls]
    /\ \A t \in Task :
          /\ pc[t] # "idle" => Len(got[t]) < Len(ask[t])
          /\ pc[t] = "fill" => filled[t] \in 0 .. Current(t).length

(* The cursor is that of the thread in the mutex, and what it has read     *)
(* into its buffer are the bytes of its own range, although the handle is  *)
(* shared and a range takes several reads (file_source.rs:33-36).          *)
CursorIsMine ==
    \A t \in Task :
        /\ pc[t] \in {"seek", "alloc", "fill"} <=> t \in holder
        /\ pc[t] = "alloc" => pos = Current(t).offset
        /\ pc[t] = "fill" =>
              /\ pos = Current(t).offset + filled[t]
              /\ \A i \in 0 .. filled[t] - 1 :
                    buf[t][i] = Content[Current(t).offset + i]

(* Every batch ends, with its data, an error or a panic: no thread waits   *)
(* for a mutex that nobody will release (file_source.rs:32-38).            *)
BatchReturns == \A t \in Task : pc[t] # "idle" ~> pc[t] = "idle"

Source == INSTANCE ByteSource WITH
            waiting <- { t \in Task : pc[t] # "idle" }, broken <- poisoned

(* To the threads it is a ByteSource: batches are answered at once, with   *)
(* their own bytes, until a range that no buffer can hold breaks it for    *)
(* all (file_source.rs:32-38, byte_source.rs:26-37).                       *)
ImplementsByteSource == Source!Spec
=============================================================================
