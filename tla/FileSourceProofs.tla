-------------------------- MODULE FileSourceProofs --------------------------
(***************************************************************************)
(* The safety of FileSource, for any number of threads, any file and any   *)
(* batches: the cursor belongs to the one thread in the mutex, a thread is *)
(* given the bytes of its own ranges, and the source is a ByteSource.      *)
(*                                                                         *)
(* CursorIsMine is not inductive by itself.  It needs that the mutex has   *)
(* one holder (Shared), and the refinement needs that the buffers already  *)
(* read are those asked for and that nobody is in a poisoned mutex.        *)
(***************************************************************************)
EXTENDS FileSource, TLAPS

PcValues == {"idle", "lock", "seek", "alloc", "fill"}

(* What the threads share, and that the rest is a function of the threads. *)
Shared ==
    /\ pos \in Nat
    /\ holder \subseteq Task
    /\ poisoned \in BOOLEAN
    /\ pc \in [Task -> PcValues]
    /\ ask \in [Task -> Seq(Range)]
    /\ calls \in [Task -> 0 .. MaxCalls]
    /\ \E B : got \in [Task -> Seq(B)]
    /\ DOMAIN buf = Task /\ DOMAIN filled = Task /\ DOMAIN reply = Task
    /\ \A s, t \in holder : s = t
    /\ holder # {} => ~poisoned

(* The place of one thread, its buffers and the cursor. *)
Mine(t) ==
    /\ pc[t] \in {"seek", "alloc", "fill"} <=> t \in holder
    /\ pc[t] = "idle" => got[t] = << >>
    /\ pc[t] # "idle" => Len(got[t]) < Len(ask[t])
    /\ \A i \in 1 .. Len(got[t]) :
          Source!InFile(ask[t][i]) /\ got[t][i] = Source!DataOf(ask[t][i])
    /\ pc[t] = "alloc" => pos = Current(t).offset
    /\ pc[t] = "fill" =>
          /\ pos = Current(t).offset + filled[t]
          /\ filled[t] \in 0 .. Current(t).length
          /\ buf[t] = [i \in 0 .. Current(t).length - 1 |-> buf[t][i]]
          /\ \A i \in 0 .. filled[t] - 1 :
                buf[t][i] = Content[Current(t).offset + i]
          /\ filled[t] > 0 => Current(t).offset + filled[t] <= FileSize

IInv == Shared /\ \A t \in Task : Mine(t)

-----------------------------------------------------------------------------
(* The range a thread reads is one of its batch. *)
LEMMA CurrentType ==
    ASSUME Shared, NEW t \in Task, Mine(t), pc[t] # "idle"
    PROVE  /\ Current(t) = ask[t][Len(got[t]) + 1]
           /\ Current(t) \in Range
           /\ Current(t).offset \in Nat /\ Current(t).length \in Nat
           /\ Len(got[t]) \in Nat /\ Len(ask[t]) \in Nat
           /\ Len(got[t]) + 1 \in 1 .. Len(ask[t])
<1>1. ask[t] \in Seq(Range) /\ Len(got[t]) < Len(ask[t])
    BY DEF Shared, Mine
<1>2. PICK B : got \in [Task -> Seq(B)]
    BY DEF Shared
<1>3. got[t] \in Seq(B)
    BY <1>2
<1>4. Len(got[t]) \in Nat /\ Len(ask[t]) \in Nat
    BY <1>1, <1>3
<1>5. Len(got[t]) + 1 \in 1 .. Len(ask[t])
    BY <1>1, <1>4
<1>6. Current(t) \in Range
    BY <1>1, <1>5 DEF Current
<1>7. QED
    BY <1>4, <1>5, <1>6 DEF Range, Current

(* A step of another thread leaves a thread as it was, if it leaves the    *)
(* cursor alone or the thread is outside of the mutex.                     *)
LEMMA Untouched ==
    ASSUME NEW s \in Task, Mine(s),
           pc'[s] = pc[s], ask'[s] = ask[s], got'[s] = got[s],
           buf'[s] = buf[s], filled'[s] = filled[s],
           s \in holder' <=> s \in holder,
           s \in holder => pos' = pos
    PROVE  Mine(s)'
<1>1. Current(s)' = Current(s)
    BY DEF Current
<1>2. QED
    BY <1>1 DEF Mine

LEMMA InitIInv == Init => IInv
<1> SUFFICES ASSUME Init PROVE IInv
    OBVIOUS
<1>1. << >> \in Seq(Range) /\ Len(<< >>) = 0
    OBVIOUS
<1>2. ask \in [Task -> Seq(Range)] /\ got \in [Task -> Seq(Range)]
    BY <1>1 DEF Init
<1>3. calls \in [Task -> 0 .. MaxCalls]
    BY FileSourceAssumption DEF Init
<1>4. Shared
    BY <1>2, <1>3 DEF Init, Shared, PcValues
<1>5. ASSUME NEW t \in Task
      PROVE  Mine(t)
    <2>1. got[t] = << >> /\ pc[t] = "idle" /\ holder = {}
        BY DEF Init
    <2>2. 1 .. Len(got[t]) = {}
        BY <1>1, <2>1
    <2>3. QED
        BY <2>1, <2>2 DEF Mine
<1>6. QED
    BY <1>4, <1>5 DEF IInv

-----------------------------------------------------------------------------
(* One lemma per action: the shared part, the thread that steps, the       *)
(* others.                                                                 *)

LEMMA ReadRangesIInv ==
    ASSUME IInv, NEW t \in Task, NEW b \in Batch, ReadRanges(t, b)
    PROVE  IInv'
<1> USE DEF ReadRanges, Goto
<1>1. Shared /\ \A s \in Task : Mine(s)
    BY DEF IInv
<1>2. b \in Seq(Range) /\ b # << >> /\ Len(b) \in Nat /\ Len(b) > 0
    BY FileSourceAssumption
<1>3. calls' \in [Task -> 0 .. MaxCalls]
    BY <1>1, FileSourceAssumption DEF Shared
<1>4. Shared'
    BY <1>1, <1>2, <1>3 DEF Shared, PcValues
<1>5. Mine(t)'
    <2>1. pc[t] = "idle" /\ pc'[t] = "lock" /\ ask'[t] = b /\ got'[t] = << >>
        BY <1>1 DEF Shared, Mine
    <2>2. Len(got'[t]) = 0 /\ 1 .. Len(got'[t]) = {}
        BY <2>1
    <2>3. t \notin holder
        BY <1>1, <2>1 DEF Mine
    <2>4. QED
        BY <1>2, <2>1, <2>2, <2>3 DEF Mine
<1>6. ASSUME NEW s \in Task, s # t
      PROVE  Mine(s)'
    BY <1>1, <1>6, Untouched DEF Shared
<1>7. QED
    BY <1>4, <1>5, <1>6 DEF IInv

LEMMA LockIInv ==
    ASSUME IInv, NEW t \in Task, Lock(t)
    PROVE  IInv'
<1> USE DEF Lock, Goto
<1>1. Shared /\ \A s \in Task : Mine(s)
    BY DEF IInv
<1>2. Shared'
    BY <1>1 DEF Shared, PcValues
<1>3. Mine(t)'
    BY <1>1 DEF Shared, Mine
<1>4. ASSUME NEW s \in Task, s # t
      PROVE  Mine(s)'
    BY <1>1, <1>4, Untouched DEF Shared
<1>5. QED
    BY <1>2, <1>3, <1>4 DEF IInv

LEMMA LockPanicsIInv ==
    ASSUME IInv, NEW t \in Task, LockPanics(t)
    PROVE  IInv'
<1> USE DEF LockPanics, Return
<1>1. Shared /\ \A s \in Task : Mine(s)
    BY DEF IInv
<1>2. PICK B : got \in [Task -> Seq(B)]
    BY <1>1 DEF Shared
<1>3. got' \in [Task -> Seq(B)]
    BY <1>2
<1>4. Shared'
    BY <1>1, <1>3 DEF Shared, PcValues
<1>5. Mine(t)'
    <2>1. pc'[t] = "idle" /\ got'[t] = << >> /\ t \notin holder'
        BY <1>1 DEF Shared
    <2>2. 1 .. Len(got'[t]) = {}
        BY <2>1
    <2>3. QED
        BY <2>1, <2>2 DEF Mine
<1>6. ASSUME NEW s \in Task, s # t
      PROVE  Mine(s)'
    BY <1>1, <1>6, Untouched DEF Shared
<1>7. QED
    BY <1>4, <1>5, <1>6 DEF IInv

LEMMA SeekIInv ==
    ASSUME IInv, NEW t \in Task, Seek(t)
    PROVE  IInv'
<1> USE DEF Seek, Goto
<1>1. Shared /\ \A s \in Task : Mine(s)
    BY DEF IInv
<1>2. Current(t).offset \in Nat /\ t \in holder
    BY <1>1, CurrentType DEF Mine
<1>3. Shared'
    BY <1>1, <1>2 DEF Shared, PcValues
<1>4. Mine(t)'
    <2>1. pc'[t] = "alloc" /\ Current(t)' = Current(t)
        BY <1>1 DEF Shared, Current
    <2>2. QED
        BY <1>1, <1>2, <2>1 DEF Mine
<1>5. ASSUME NEW s \in Task, s # t
      PROVE  Mine(s)'
    BY <1>1, <1>2, <1>5, Untouched DEF Shared
<1>6. QED
    BY <1>3, <1>4, <1>5 DEF IInv

LEMMA AllocIInv ==
    ASSUME IInv, NEW t \in Task, Alloc(t)
    PROVE  IInv'
<1> USE DEF Alloc, Goto
<1>1. Shared /\ \A s \in Task : Mine(s)
    BY DEF IInv
<1>2. Current(t).offset \in Nat /\ Current(t).length \in Nat
    BY <1>1, CurrentType
<1>3. Shared'
    BY <1>1 DEF Shared, PcValues
<1>4. Mine(t)'
    <2>1. /\ pc[t] = "alloc" /\ pc'[t] = "fill"
          /\ Current(t)' = Current(t) /\ filled'[t] = 0
          /\ buf'[t] = [i \in 0 .. Current(t).length - 1 |-> 0]
        BY <1>1 DEF Shared, Current
    <2>2. buf'[t] = [i \in 0 .. Current(t).length - 1 |-> buf'[t][i]]
        BY <2>1
    <2>3. 0 .. filled'[t] - 1 = {} /\ filled'[t] \in 0 .. Current(t).length
        BY <1>2, <2>1
    <2>4. /\ pos = Current(t).offset /\ pos' = pos
          /\ t \in holder' /\ Len(got'[t]) < Len(ask'[t])
        BY <1>1, <2>1 DEF Mine
    <2>5. pos' = Current(t).offset + filled'[t]
        BY <1>2, <2>1, <2>4
    <2>6. \A i \in 1 .. Len(got'[t]) :
              Source!InFile(ask'[t][i]) /\ got'[t][i] = Source!DataOf(ask'[t][i])
        BY <1>1 DEF Mine
    <2>7. ~(filled'[t] > 0)
        BY <2>1
    <2>8. QED
        BY <2>1, <2>2, <2>3, <2>4, <2>5, <2>6, <2>7 DEF Mine
<1>5. ASSUME NEW s \in Task, s # t
      PROVE  Mine(s)'
    BY <1>1, <1>5, Untouched DEF Shared
<1>6. QED
    BY <1>3, <1>4, <1>5 DEF IInv

(* A thread that leaves the mutex and its batch. *)
LEMMA LeaveIInv ==
    ASSUME IInv, NEW t \in Task, t \in holder, NEW r, Unlock(t), Return(t, r),
           pos' = pos, poisoned' \in BOOLEAN
    PROVE  IInv'
<1> USE DEF Unlock, Return
<1>1. Shared /\ \A s \in Task : Mine(s)
    BY DEF IInv
<1>2. holder' = {}
    BY <1>1 DEF Shared
<1>3. PICK B : got \in [Task -> Seq(B)]
    BY <1>1 DEF Shared
<1>4. got' \in [Task -> Seq(B)]
    BY <1>3
<1>5. Shared'
    BY <1>1, <1>2, <1>4 DEF Shared, PcValues
<1>6. Mine(t)'
    <2>1. pc'[t] = "idle" /\ got'[t] = << >> /\ t \notin holder'
        BY <1>1, <1>2 DEF Shared
    <2>2. 1 .. Len(got'[t]) = {}
        BY <2>1
    <2>3. QED
        BY <2>1, <2>2 DEF Mine
<1>7. ASSUME NEW s \in Task, s # t
      PROVE  Mine(s)'
    BY <1>1, <1>7, Untouched DEF Shared
<1>8. QED
    BY <1>5, <1>6, <1>7 DEF IInv

LEMMA AllocPanicsIInv ==
    ASSUME IInv, NEW t \in Task, AllocPanics(t)
    PROVE  IInv'
<1>1. t \in holder
    BY DEF IInv, Mine, AllocPanics
<1>2. Unlock(t) /\ Return(t, Panic) /\ pos' = pos /\ poisoned' \in BOOLEAN
    BY DEF AllocPanics
<1>3. QED
    BY <1>1, <1>2, LeaveIInv

LEMMA FailsIInv ==
    ASSUME IInv, NEW t \in Task, Fails(t)
    PROVE  IInv'
<1>1. t \in holder
    BY DEF IInv, Mine, Fails
<1>2. Unlock(t) /\ Return(t, Err) /\ pos' = pos /\ poisoned' \in BOOLEAN
    BY DEF Fails, IInv, Shared
<1>3. QED
    BY <1>1, <1>2, LeaveIInv

LEMMA FillIInv ==
    ASSUME IInv, NEW t \in Task, Fill(t)
    PROVE  IInv'
<1> USE DEF Fill
<1>1. Shared /\ (\A s \in Task : Mine(s)) /\ pc[t] = "fill"
    BY DEF IInv
<1>2. Mine(t) /\ t \in holder
    BY <1>1 DEF Mine
<1>3. Current(t).offset \in Nat /\ Current(t).length \in Nat
    BY <1>1, CurrentType
<1> DEFINE o == Current(t).offset
           l == Current(t).length
<1>4. /\ pos = o + filled[t] /\ filled[t] \in 0 .. l
      /\ buf[t] = [i \in 0 .. l - 1 |-> buf[t][i]]
      /\ \A i \in 0 .. filled[t] - 1 : buf[t][i] = Content[o + i]
    BY <1>1, <1>2 DEF Mine
<1>5. PICK n \in Portion(t) :
          /\ buf' = [buf EXCEPT ![t] =
                        [i \in 0 .. l - 1 |->
                            IF filled[t] <= i /\ i < filled[t] + n
                            THEN Content[pos + (i - filled[t])] ELSE @[i]]]
          /\ filled' = [filled EXCEPT ![t] = @ + n]
          /\ pos' = pos + n
    OBVIOUS
<1>6. n \in Nat /\ n > 0 /\ n <= FileSize - pos /\ filled[t] + n <= l
    BY <1>1, FileSourceAssumption DEF Portion, Shared
<1>7. DOMAIN buf = Task /\ DOMAIN filled = Task
    BY <1>1 DEF Shared
<1>8. filled'[t] = filled[t] + n
    BY <1>5, <1>7
<1>9. buf'[t] = [i \in 0 .. l - 1 |->
                    IF filled[t] <= i /\ i < filled[t] + n
                    THEN Content[pos + (i - filled[t])] ELSE buf[t][i]]
    BY <1>5, <1>7
<1>10. Shared'
    <2>1. pos' \in Nat
        BY <1>1, <1>5, <1>6 DEF Shared
    <2>2. DOMAIN buf' = Task /\ DOMAIN filled' = Task
        BY <1>5, <1>7
    <2>3. QED
        BY <1>1, <2>1, <2>2 DEF Shared
<1>11. Mine(t)'
    <2>1. Current(t)' = Current(t)
        BY DEF Current
    <2>2. pos' = o + filled'[t] /\ filled'[t] \in 0 .. l
        BY <1>3, <1>4, <1>5, <1>6, <1>8
    <2>3. buf'[t] = [i \in 0 .. l - 1 |-> buf'[t][i]]
        BY <1>9
    <2>4. ASSUME NEW i \in 0 .. filled'[t] - 1
          PROVE  buf'[t][i] = Content[o + i]
        <3>1. i \in 0 .. l - 1 /\ i \in Int /\ i < filled[t] + n
            BY <1>3, <1>4, <1>6, <1>8
        <3>2. CASE filled[t] <= i
            <4>1. pos + (i - filled[t]) = o + i
                BY <1>3, <1>4, <3>1
            <4>2. QED
                BY <1>9, <3>1, <3>2, <4>1
        <3>3. CASE ~(filled[t] <= i)
            <4>1. i \in 0 .. filled[t] - 1
                BY <1>4, <3>1, <3>3
            <4>2. QED
                BY <1>4, <1>9, <3>1, <3>3, <4>1
        <3>4. QED
            BY <3>2, <3>3
    <2>5. o + filled'[t] <= FileSize
        BY <1>3, <1>4, <1>6, <1>8, FileSourceAssumption
    <2>6. /\ \A i \in 1 .. Len(got'[t]) :
                Source!InFile(ask'[t][i]) /\ got'[t][i] = Source!DataOf(ask'[t][i])
          /\ Len(got'[t]) < Len(ask'[t])
          /\ t \in holder' /\ pc'[t] = "fill"
        BY <1>1, <1>2 DEF Mine
    <2>7. QED
        BY <2>1, <2>2, <2>3, <2>4, <2>5, <2>6 DEF Mine
<1>12. ASSUME NEW s \in Task, s # t
      PROVE  Mine(s)'
    <2>1. s \notin holder
        BY <1>1, <1>2, <1>12 DEF Shared
    <2>2. buf'[s] = buf[s] /\ filled'[s] = filled[s]
        BY <1>5, <1>7, <1>12
    <2>3. QED
        BY <1>1, <2>1, <2>2, Untouched
<1>13. QED
    BY <1>10, <1>11, <1>12 DEF IInv

(* A buffer that is full holds the range it was read for. *)
LEMMA FullBuffer ==
    ASSUME Shared, NEW t \in Task, Mine(t), Filled(t)
    PROVE  /\ t \in holder
           /\ Source!InFile(Current(t))
           /\ buf[t] = Source!DataOf(Current(t))
<1>1. pc[t] = "fill" /\ filled[t] = Current(t).length
    BY DEF Filled
<1>2. Current(t).offset \in Nat /\ Current(t).length \in Nat
    BY <1>1, CurrentType
<1>3. /\ t \in holder
      /\ buf[t] = [i \in 0 .. Current(t).length - 1 |-> buf[t][i]]
      /\ \A i \in 0 .. filled[t] - 1 : buf[t][i] = Content[Current(t).offset + i]
      /\ filled[t] > 0 => Current(t).offset + filled[t] <= FileSize
    BY <1>1 DEF Mine
<1>4. Source!InFile(Current(t))
    BY <1>1, <1>2, <1>3 DEF Source!InFile
<1>5. buf[t] = Source!DataOf(Current(t))
    BY <1>1, <1>3 DEF Source!DataOf
<1>6. QED
    BY <1>3, <1>4, <1>5

LEMMA NextRangeIInv ==
    ASSUME IInv, NEW t \in Task, Filled(t), Len(got[t]) + 1 < Len(ask[t]),
           pc' = [pc EXCEPT ![t] = "lock"],
           got' = [got EXCEPT ![t] = Append(@, buf[t])],
           UNCHANGED << ask, reply, calls >>
    PROVE  IInv'
<1> USE DEF Filled, Unlock
<1>1. Shared /\ (\A s \in Task : Mine(s)) /\ pc[t] = "fill"
    BY DEF IInv
<1>2. t \in holder /\ holder' = {}
    BY <1>1 DEF Mine, Shared
<1>3. PICK B : got \in [Task -> Seq(B)]
    BY <1>1 DEF Shared
<1>4. got[t] \in Seq(B) /\ got'[t] = Append(got[t], buf[t])
    BY <1>3
<1>5. got' \in [Task -> Seq(B \cup {buf[t]})]
    <2>1. Append(got[t], buf[t]) \in Seq(B \cup {buf[t]})
        BY <1>4
    <2>2. \A s \in Task : got[s] \in Seq(B \cup {buf[t]})
        BY <1>3
    <2>3. QED
        BY <1>3, <2>1, <2>2
<1>6. Shared'
    <2>1. /\ DOMAIN buf' = Task /\ DOMAIN filled' = Task /\ DOMAIN reply' = Task
          /\ pc' \in [Task -> PcValues]
        BY <1>1 DEF Shared, PcValues
    <2>2. QED
        BY <1>1, <1>2, <1>5, <2>1 DEF Shared
<1>7. Mine(t)'
    <2>1. /\ Current(t) = ask[t][Len(got[t]) + 1]
          /\ Len(got[t]) \in Nat /\ Len(ask[t]) \in Nat
        BY <1>1, CurrentType
    <2>2. Len(got'[t]) = Len(got[t]) + 1
        BY <1>4
    <2>3. ASSUME NEW i \in 1 .. Len(got'[t])
          PROVE  Source!InFile(ask'[t][i]) /\ got'[t][i] = Source!DataOf(ask'[t][i])
        <3>1. CASE i = Len(got[t]) + 1
            <4>1. Source!InFile(Current(t)) /\ buf[t] = Source!DataOf(Current(t))
                BY <1>1, FullBuffer
            <4>2. got'[t][i] = buf[t]
                BY <1>4, <3>1
            <4>3. ask'[t][i] = Current(t)
                BY <2>1, <3>1
            <4>4. QED
                BY <4>1, <4>2, <4>3
        <3>2. CASE i # Len(got[t]) + 1
            <4>1. i \in 1 .. Len(got[t])
                BY <2>1, <2>2, <3>2
            <4>2. got'[t][i] = got[t][i]
                BY <1>4, <4>1
            <4>3. QED
                BY <1>1, <4>1, <4>2 DEF Mine
        <3>3. QED
            BY <3>1, <3>2
    <2>4. pc'[t] = "lock" /\ t \notin holder'
        BY <1>1, <1>2 DEF Shared
    <2>5. QED
        BY <2>2, <2>3, <2>4 DEF Mine
<1>8. ASSUME NEW s \in Task, s # t
      PROVE  Mine(s)'
    BY <1>1, <1>3, <1>8, Untouched DEF Shared
<1>9. QED
    BY <1>6, <1>7, <1>8 DEF IInv

LEMMA FilledIInv ==
    ASSUME IInv, NEW t \in Task, Filled(t)
    PROVE  IInv'
<1>1. t \in holder
    BY DEF IInv, Mine, Filled
<1>2. CASE /\ Len(got[t]) + 1 < Len(ask[t])
           /\ pc' = [pc EXCEPT ![t] = "lock"]
           /\ got' = [got EXCEPT ![t] = Append(@, buf[t])]
           /\ UNCHANGED << ask, reply, calls >>
    BY <1>2, NextRangeIInv
<1>3. CASE Return(t, [kind |-> "ok", data |-> Append(got[t], buf[t])])
    <2>1. Unlock(t) /\ pos' = pos /\ poisoned' \in BOOLEAN
        BY DEF Filled, IInv, Shared
    <2>2. QED
        BY <1>1, <1>3, <2>1, LeaveIInv
<1>4. QED
    BY <1>2, <1>3 DEF Filled

LEMMA StepIInv == IInv /\ [Next]_vars => IInv'
<1> SUFFICES ASSUME IInv, [Next]_vars PROVE IInv'
    OBVIOUS
<1>1. CASE UNCHANGED vars
    BY <1>1 DEF vars, IInv, Shared, Mine, Current
<1>2. ASSUME NEW t \in Task, Step(t)
      PROVE  IInv'
    BY <1>2, LockIInv, LockPanicsIInv, SeekIInv, AllocIInv, AllocPanicsIInv,
       FillIInv, FilledIInv, FailsIInv DEF Step
<1>3. ASSUME NEW t \in Task, NEW b \in Batch, ReadRanges(t, b)
      PROVE  IInv'
    BY <1>3, ReadRangesIInv
<1>4. QED
    BY <1>1, <1>2, <1>3 DEF Next

(* The inductive invariant: the mutex has at most one holder, and every    *)
(* thread has the bytes of its own ranges (file_source.rs:32-38).          *)
THEOREM FileSourceInvariant == Spec => []IInv
BY InitIInv, StepIInv, PTL DEF Spec

(* Every variable keeps its type; a thread is never past its batch or its  *)
(* buffer (file_source.rs:35-37, byte_source.rs:31-35).                    *)
THEOREM TypeCorrect == Spec => []TypeOK
<1>1. IInv => TypeOK
    <2> SUFFICES ASSUME IInv PROVE TypeOK
        OBVIOUS
    <2>1. \A t \in Task :
              /\ pc[t] # "idle" => Len(got[t]) < Len(ask[t])
              /\ pc[t] = "fill" => filled[t] \in 0 .. Current(t).length
        BY DEF IInv, Mine
    <2>2. QED
        BY <2>1 DEF IInv, Shared, TypeOK, PcValues
<1>2. QED
    BY <1>1, FileSourceInvariant, PTL

(* The cursor is that of the thread in the mutex, for any number of        *)
(* threads that share the handle (file_source.rs:33-36).                   *)
THEOREM CursorIsOfTheHolder == Spec => []CursorIsMine
<1>1. IInv => CursorIsMine
    <2> SUFFICES ASSUME IInv, NEW t \in Task
                 PROVE  /\ pc[t] \in {"seek", "alloc", "fill"} <=> t \in holder
                        /\ pc[t] = "alloc" => pos = Current(t).offset
                        /\ pc[t] = "fill" =>
                              /\ pos = Current(t).offset + filled[t]
                              /\ \A i \in 0 .. filled[t] - 1 :
                                    buf[t][i] = Content[Current(t).offset + i]
        BY DEF CursorIsMine
    <2>1. Mine(t)
        BY DEF IInv
    <2>2. QED
        BY <2>1 DEF Mine
<1>2. QED
    BY <1>1, FileSourceInvariant, PTL

-----------------------------------------------------------------------------
(* The refinement.                                                         *)

Waiting == { t \in Task : pc[t] # "idle" }

LEMMA InitRefines == Init => Source!Init
<1> SUFFICES ASSUME Init PROVE Source!Init
    OBVIOUS
<1>1. Waiting = {}
    BY DEF Init, Waiting
<1>2. QED
    BY <1>1 DEF Init, Source!Init, Waiting, NoReply, Source!NoReply

(* A thread that returns leaves the threads that wait. *)
LEMMA ReturnAnswers ==
    ASSUME IInv, NEW t \in Task, pc[t] # "idle", NEW r, Return(t, r)
    PROVE  Source!Answer(t, r)
<1>1. t \in Waiting /\ Waiting' = Waiting \ {t}
    BY DEF Return, Waiting, IInv, Shared
<1>2. QED
    BY <1>1 DEF Return, Source!Answer, Waiting

LEMMA FilledRefines ==
    ASSUME IInv, NEW t \in Task, Filled(t)
    PROVE  Source!Give(t) \/ UNCHANGED Source!vars
<1>1. Shared /\ Mine(t) /\ pc[t] = "fill"
    BY DEF IInv, Filled
<1>2. CASE /\ pc' = [pc EXCEPT ![t] = "lock"]
           /\ UNCHANGED << ask, reply, calls >>
    <2>1. Waiting' = Waiting
        BY <1>1, <1>2 DEF Waiting, Shared
    <2>2. QED
        BY <1>2, <2>1 DEF Source!vars, Waiting, Filled
<1>3. CASE /\ Len(got[t]) + 1 = Len(ask[t])
           /\ Return(t, [kind |-> "ok", data |-> Append(got[t], buf[t])])
    <2> DEFINE all == Append(got[t], buf[t])
    <2>1. PICK B : got \in [Task -> Seq(B)]
        BY <1>1 DEF Shared
    <2>2. got[t] \in Seq(B) /\ ask[t] \in Seq(Range)
        BY <1>1, <2>1 DEF Shared
    <2>3. DOMAIN ask[t] = 1 .. Len(got[t]) + 1 /\ Len(got[t]) \in Nat
        BY <1>3, <2>2
    <2>4. /\ Current(t) = ask[t][Len(got[t]) + 1]
          /\ Source!InFile(Current(t)) /\ buf[t] = Source!DataOf(Current(t))
          /\ t \in holder
        BY <1>1, CurrentType, FullBuffer
    <2>5. all = [i \in 1 .. Len(got[t]) + 1 |-> all[i]]
        BY <2>2
    <2>6. ASSUME NEW i \in 1 .. Len(got[t]) + 1
          PROVE  Source!InFile(ask[t][i]) /\ all[i] = Source!DataOf(ask[t][i])
        <3>1. CASE i = Len(got[t]) + 1
            BY <2>2, <2>4, <3>1
        <3>2. CASE i # Len(got[t]) + 1
            <4>1. i \in 1 .. Len(got[t])
                BY <2>3, <3>2
            <4>2. all[i] = got[t][i]
                BY <2>2, <4>1
            <4>3. QED
                BY <1>1, <4>1, <4>2 DEF Mine
        <3>3. QED
            BY <3>1, <3>2
    <2>7. all = [i \in DOMAIN ask[t] |-> Source!DataOf(ask[t][i])]
        BY <2>3, <2>5, <2>6
    <2>8. Source!Given(ask[t]) = [kind |-> "ok", data |-> all]
        BY <2>7 DEF Source!Given
    <2>9. Source!Answer(t, Source!Given(ask[t]))
        <3>1. t \in Waiting /\ Waiting' = Waiting \ {t}
            BY <1>1, <1>3 DEF Return, Waiting, Shared
        <3>2. reply' = [reply EXCEPT ![t] = Source!Given(ask[t])]
            BY <1>3, <2>8, Zenon DEF Return
        <3>3. ask' = ask
            BY <1>3 DEF Return
        <3>4. QED
            BY <3>1, <3>2, <3>3 DEF Source!Answer, Waiting
    <2>10. ~poisoned /\ poisoned' = poisoned
        BY <1>1, <2>4 DEF Shared, Filled
    <2>11. QED
        BY <2>3, <2>6, <2>9, <2>10 DEF Source!Give
<1>4. QED
    BY <1>2, <1>3 DEF Filled

(* A step in the mutex is a stutter, one that returns is an answer. *)
LEMMA StepRefines == IInv /\ [Next]_vars => [Source!Next]_Source!vars
<1> SUFFICES ASSUME IInv, [Next]_vars PROVE [Source!Next]_Source!vars
    OBVIOUS
<1>1. Shared /\ \A t \in Task : Mine(t)
    BY DEF IInv
<1>2. CASE UNCHANGED vars
    BY <1>2 DEF vars, Source!vars
<1>3. ASSUME NEW t \in Task, NEW b \in Batch, ReadRanges(t, b)
      PROVE  Source!Ask(t, b)
    <2>1. t \notin Waiting /\ Waiting' = Waiting \cup {t}
        BY <1>1, <1>3 DEF ReadRanges, Goto, Waiting, Shared
    <2>2. QED
        BY <1>3, <2>1 DEF ReadRanges, Source!Ask, Waiting, NoReply, Source!NoReply
<1>4. ASSUME NEW t \in Task, Lock(t) \/ Seek(t) \/ Alloc(t) \/ Fill(t)
      PROVE  UNCHANGED Source!vars
    <2>1. Waiting' = Waiting
        BY <1>1, <1>4 DEF Lock, Seek, Alloc, Fill, Goto, Waiting, Shared
    <2>2. QED
        BY <1>4, <2>1 DEF Lock, Seek, Alloc, Fill, Source!vars, Waiting
<1>5. ASSUME NEW t \in Task, LockPanics(t)
      PROVE  Source!FindBroken(t)
    <2>1. Source!Answer(t, Panic)
        BY <1>5, ReturnAnswers DEF LockPanics
    <2>2. QED
        BY <1>5, <2>1 DEF LockPanics, Source!FindBroken, Panic, Source!Panic
<1>6. ASSUME NEW t \in Task, AllocPanics(t)
      PROVE  Source!Break(t)
    <2>1. Source!Answer(t, Panic)
        BY <1>6, ReturnAnswers DEF AllocPanics
    <2>2. ~poisoned
        BY <1>1, <1>6 DEF AllocPanics, Mine, Shared
    <2>3. \E i \in DOMAIN ask[t] : ask[t][i].length > MaxAlloc
        <3>1. /\ Current(t) = ask[t][Len(got[t]) + 1]
              /\ Len(got[t]) + 1 \in 1 .. Len(ask[t])
            BY <1>1, <1>6, CurrentType DEF AllocPanics
        <3>2. DOMAIN ask[t] = 1 .. Len(ask[t])
            BY <1>1 DEF Shared
        <3>3. QED
            BY <1>6, <3>1, <3>2 DEF AllocPanics
    <2>4. QED
        BY <1>6, <2>1, <2>2, <2>3 DEF AllocPanics, Source!Break, Panic, Source!Panic
<1>7. ASSUME NEW t \in Task, Fails(t)
      PROVE  Source!Refuse(t)
    <2>1. Source!Answer(t, Err)
        BY <1>7, ReturnAnswers DEF Fails
    <2>2. ~poisoned
        BY <1>1, <1>7 DEF Fails, Mine, Shared
    <2>3. QED
        BY <1>7, <2>1, <2>2 DEF Fails, Source!Refuse, Err, Source!Err
<1>8. ASSUME NEW t \in Task, Step(t)
      PROVE  [Source!Next]_Source!vars
    BY <1>4, <1>5, <1>6, <1>7, <1>8, FilledRefines DEF Step, Source!Next
<1>9. QED
    BY <1>2, <1>3, <1>8 DEF Next, Source!Next

(* To any number of threads the file source is a ByteSource: batches are   *)
(* answered at once, with their own bytes, until a range that no buffer    *)
(* can hold breaks it for all (file_source.rs:32-38).                      *)
THEOREM RefinesByteSource == Spec => ImplementsByteSource
BY InitRefines, StepRefines, FileSourceInvariant, PTL
   DEF Spec, ImplementsByteSource, Source!Spec
=============================================================================
