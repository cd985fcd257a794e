---------------------------- MODULE SignalProofs ----------------------------
(***************************************************************************)
(* Proofs about Signal, for every number of signals and every number sent, *)
(* whatever numbers sys_kill is called with and wherever the program calls *)
(* sigret, fork and exec.                                                  *)
(***************************************************************************)
EXTENDS Signal, TLAPS

FrameType == [i : 0 .. SIG_MAX, ret : {"user", "handler"}]

\* Where the thread is, sigcheck and the kernel stack agree.  Above the calls of
\* check_sig that exec and fork have left there is at most one more.  It is there
\* in the loop and gone in user code; a handler has it, unless it is one that
\* called fork and goes on in the child, without a saved context of its own.
StackShape ==
    /\ Depth \in {left, left + 1}
    /\ pc = "user" => Depth = left
    /\ pc = "loop" => Depth = left + 1
    /\ pc \in {"loop", "handler"} /\ Depth = left + 1 =>
        /\ sigcheck > 0
        /\ frames[Depth].ret = "handler" => left > 0
    /\ pc = "loop" /\ frames[Depth].ret = "handler" => sig_save_cxt.depth # left
    /\ pc = "handler" => Depth > 0 /\ (Depth = left => sig_save_cxt.depth # left)

\* The inductive invariant.
IInv ==
    /\ TypeOK
    /\ HandledOnce
    /\ SigretResumesLoop
    /\ StackShape

-----------------------------------------------------------------------------
(* The stack.                                                              *)

\* The innermost call, and the stack without it.
LEMMA Innermost ==
    ASSUME NEW S, NEW s \in Seq(S), Len(s) > 0
    PROVE  /\ Last(s) = s[Len(s)]
           /\ s[Len(s)] \in S
           /\ Front(s) \in Seq(S)
           /\ Len(Front(s)) = Len(s) - 1
<1>1. Last(s) = s[Len(s)] /\ s[Len(s)] \in S
  BY DEF Last
<1>2. Front(s) \in Seq(S) /\ Len(Front(s)) = Len(s) - 1
  <2>1. PICK n \in Nat : Len(s) = n + 1
    BY Len(s) - 1 \in Nat
  <2>2. Len(s) - 1 = n /\ n \in 0 .. Len(s)
    BY <2>1
  <2>3. SubSeq(s, 1, n) \in Seq(S) /\ Len(SubSeq(s, 1, n)) = n
    BY <2>2
  <2> QED
    BY <2>2, <2>3 DEF Front
<1> QED
  BY <1>1, <1>2

\* One more call.
LEMMA Pushed ==
    ASSUME NEW S, NEW s \in Seq(S), NEW c \in S
    PROVE  /\ Append(s, c) \in Seq(S)
           /\ Len(Append(s, c)) = Len(s) + 1
           /\ Append(s, c)[Len(s) + 1] = c
  OBVIOUS

\* The innermost call with another loop variable.
LEMMA CallAt ==
    ASSUME NEW s \in Seq(FrameType), Len(s) > 0, NEW n \in 0 .. SIG_MAX
    PROVE  LET t == [s EXCEPT ![Len(s)].i = n]
           IN  /\ t \in Seq(FrameType)
               /\ Len(t) = Len(s)
               /\ t[Len(s)].ret = s[Len(s)].ret
<1>1. s[Len(s)] \in FrameType
  OBVIOUS
<1>2. PICK c : c = [s[Len(s)] EXCEPT !.i = n]
  OBVIOUS
<1>3. c \in FrameType /\ c.ret = s[Len(s)].ret
  BY <1>1, <1>2 DEF FrameType
<1>4. [s EXCEPT ![Len(s)].i = n] = [s EXCEPT ![Len(s)] = c]
  BY <1>2
<1> QED
  BY <1>3, <1>4

-----------------------------------------------------------------------------
(* One lemma per operation.                                                *)

\* thread_create clears the thread's signal state.
LEMMA InitInv == Init => IInv
<1> SUFFICES ASSUME Init PROVE IInv
  OBVIOUS
<1>1. frames \in Seq(FrameType) /\ sig_save_cxt \in [depth : Nat, i : 0 .. SIG_MAX]
  BY SignalAssumption DEF Init, NoCxt
<1>2. TypeOK
  BY <1>1 DEF Init, TypeOK, Zero, Sig, FrameType
<1>3. HandledOnce
  BY DEF Init, HandledOnce, Zero, Sig
<1>4. SigretResumesLoop /\ StackShape
  BY DEF Init, SigretResumesLoop, StackShape, Depth
<1> QED
  BY <1>2, <1>3, <1>4 DEF IInv

\* sys_kill counts the signal, raises sigcheck or runs into other memory.
LEMMA KillInv ==
    ASSUME IInv, NEW n \in Number, sys_kill(n)
    PROVE  IInv'
<1>1. /\ sigcount' \in [Sig -> Nat] /\ sent' \in [Sig -> Nat]
      /\ \A j \in Sig : sent'[j] = handled[j] + sigcount'[j]
  <2>1. CASE /\ n \in Sig
             /\ sigcount' = [sigcount EXCEPT ![n] = @ + 1]
             /\ sent' = [sent EXCEPT ![n] = @ + 1]
    BY <2>1 DEF IInv, TypeOK, HandledOnce
  <2>2. CASE UNCHANGED <<sigcount, sent>>
    BY <2>2 DEF IInv, TypeOK, HandledOnce
  <2> QED
    BY <2>1, <2>2 DEF sys_kill
<1>2. sigcheck' \in Nat /\ sigcheck' >= sigcheck /\ pc' \in {pc, "wild"}
  BY DEF IInv, TypeOK, sys_kill
<1>3. TypeOK' /\ HandledOnce'
  BY <1>1, <1>2 DEF IInv, TypeOK, HandledOnce, sys_kill
<1>4. SigretResumesLoop' /\ StackShape'
  BY <1>2 DEF IInv, TypeOK, SigretResumesLoop, StackShape, sys_kill, Depth
<1> QED
  BY <1>3, <1>4 DEF IInv

\* sys_signal changes nothing but the handler.
LEMMA SignalInv ==
    ASSUME IInv, NEW i \in Sig, sys_signal(i)
    PROVE  IInv'
<1>1. sig_handler' \in [Sig -> {"default", "user"}]
  BY DEF IInv, TypeOK, sys_signal
<1> QED
  BY <1>1 DEF IInv, TypeOK, HandledOnce, SigretResumesLoop, StackShape, sys_signal, Depth

\* sys_exec and sys_fork start with clear signal state, on the stack as it is.
LEMMA ResetInv ==
    ASSUME IInv, sys_exec \/ sys_fork
    PROVE  IInv'
<1>1. /\ frames' = frames /\ left' = Depth /\ sigcheck' = 0
      /\ sigcount' = Zero /\ sent' = Zero /\ handled' = Zero
      /\ sig_handler' \in [Sig -> {"default", "user"}]
      /\ \/ pc' = "user" /\ sig_save_cxt' = sig_save_cxt
         \/ pc' = pc /\ pc \in {"user", "handler"} /\ sig_save_cxt' = NoCxt
  BY DEF sys_exec, sys_fork, InUser, IInv, TypeOK
<1>2. Zero \in [Sig -> Nat] /\ \A j \in Sig : Zero[j] = Zero[j] + Zero[j]
  BY DEF Zero
<1>3. sig_save_cxt' \in [depth : Nat, i : 0 .. SIG_MAX]
  BY <1>1, SignalAssumption DEF NoCxt, IInv, TypeOK
<1>4. Depth \in Nat
  BY DEF Depth, IInv, TypeOK
<1>5. TypeOK'
  BY <1>1, <1>2, <1>3, <1>4 DEF IInv, TypeOK
<1>6. HandledOnce'
  BY <1>1, <1>2 DEF HandledOnce
<1>7. SigretResumesLoop' /\ StackShape'
  BY <1>1, <1>4 DEF SigretResumesLoop, StackShape, IInv, Depth, NoCxt
<1> QED
  BY <1>5, <1>6, <1>7 DEF IInv

\* sigret continues the loop that started the handler, or something unknown.
LEMMA SigretInv ==
    ASSUME IInv, sys_sigret
    PROVE  IInv'
<1>1. CASE ~CanResume
  BY <1>1 DEF IInv, TypeOK, HandledOnce, SigretResumesLoop, StackShape, sys_sigret, Depth
<1>2. CASE CanResume
  <2>1. /\ frames \in Seq(FrameType) /\ Len(frames) = left + 1 /\ left \in Nat
        /\ pc = "handler" /\ sigcheck > 0
        /\ frames[Len(frames)].ret = "handler" => left > 0
        /\ sig_save_cxt.depth = left + 1 /\ sig_save_cxt.i \in 0 .. SIG_MAX
    BY <1>2 DEF CanResume, Depth, IInv, TypeOK, StackShape, FrameType
  <2>2. frames' = [frames EXCEPT ![Len(frames)].i = sig_save_cxt.i] /\ pc' = "loop"
    BY <1>2 DEF sys_sigret, Depth
  <2>3. /\ frames' \in Seq(FrameType) /\ Len(frames') = Len(frames)
        /\ frames'[Len(frames)].ret = frames[Len(frames)].ret
    BY <2>1, <2>2, CallAt
  <2>4. TypeOK'
    BY <2>2, <2>3 DEF IInv, TypeOK, sys_sigret, FrameType
  <2>5. HandledOnce' /\ SigretResumesLoop'
    BY <2>2 DEF IInv, HandledOnce, SigretResumesLoop, sys_sigret
  <2>6. StackShape'
    BY <2>1, <2>2, <2>3 DEF StackShape, sys_sigret, Depth
  <2> QED
    BY <2>4, <2>5, <2>6 DEF IInv
<1> QED
  BY <1>1, <1>2

\* check_sig starts only above what exec and fork have left: in the handler of a
\* call above that, sigcheck is set.
LEMMA CheckInv ==
    ASSUME IInv, check_sig
    PROVE  IInv'
<1>1. /\ frames \in Seq(FrameType) /\ Len(frames) = left /\ left \in Nat
      /\ pc \in {"user", "handler"}
      /\ pc = "handler" => left > 0 /\ sig_save_cxt.depth # left
  BY DEF check_sig, InUser, IInv, TypeOK, StackShape, Depth, FrameType
<1>2. Frame(0, pc) \in FrameType /\ Frame(0, pc).ret = pc
  BY <1>1, SignalAssumption DEF Frame, FrameType
<1>3. frames' = Append(frames, Frame(0, pc)) /\ pc' = "loop" /\ sigcheck' = 1
  BY DEF check_sig
<1>4. /\ frames' \in Seq(FrameType) /\ Len(frames') = left + 1
      /\ frames'[left + 1].ret = pc
  BY <1>1, <1>2, <1>3, Pushed
<1>5. TypeOK'
  BY <1>4, <1>3 DEF IInv, TypeOK, check_sig, FrameType
<1>6. HandledOnce' /\ SigretResumesLoop'
  BY <1>3 DEF IInv, HandledOnce, SigretResumesLoop, check_sig
<1>7. StackShape'
  BY <1>1, <1>3, <1>4 DEF StackShape, check_sig, Depth
<1> QED
  BY <1>5, <1>6, <1>7 DEF IInv

\* What is known in the loop, at signal i.
LEMMA InLoop ==
    ASSUME IInv, NEW i \in Sig, AtSignal(i)
    PROVE  /\ frames \in Seq(FrameType) /\ Len(frames) = left + 1 /\ left \in Nat
           /\ sigcheck > 0 /\ sigcheck \in Nat
           /\ frames[Len(frames)].ret = "handler" => left > 0
           /\ frames[Len(frames)].i = i /\ Last(frames) = frames[Len(frames)]
           /\ i \in 0 .. SIG_MAX /\ i + 1 \in 0 .. SIG_MAX
           /\ sig_save_cxt' = [depth |-> left + 1, i |-> i]
           /\ sig_save_cxt' \in [depth : Nat, i : 0 .. SIG_MAX]
<1>1. /\ frames \in Seq(FrameType) /\ Len(frames) = left + 1 /\ left \in Nat
      /\ sigcheck > 0 /\ sigcheck \in Nat
      /\ frames[Len(frames)].ret = "handler" => left > 0
  BY DEF AtSignal, IInv, TypeOK, StackShape, FrameType, Depth
<1>2. Last(frames) = frames[Len(frames)] /\ Last(frames).i = i
  BY <1>1, Innermost DEF AtSignal
<1>3. i \in 0 .. SIG_MAX /\ i + 1 \in 0 .. SIG_MAX
  BY SignalAssumption DEF Sig
<1>4. sig_save_cxt' = [depth |-> left + 1, i |-> i]
  BY <1>1 DEF AtSignal, Depth
<1> QED
  BY <1>1, <1>2, <1>3, <1>4

\* The loop passes a signal of which none is waiting.
LEMMA SkipInv ==
    ASSUME IInv, NEW i \in Sig, SkipSignal(i)
    PROVE  IInv'
<1>1. frames' = [frames EXCEPT ![Len(frames)].i = i + 1] /\ pc' = "loop"
  BY InLoop DEF SkipSignal, Depth, AtSignal
<1>2. /\ frames' \in Seq(FrameType) /\ Len(frames') = Len(frames)
      /\ frames'[Len(frames)].ret = frames[Len(frames)].ret
  <2>1. frames \in Seq(FrameType) /\ Len(frames) > 0 /\ i + 1 \in 0 .. SIG_MAX
    BY InLoop DEF SkipSignal
  <2> QED
    BY <1>1, <2>1, CallAt
<1> USE InLoop DEF SkipSignal
<1>3. TypeOK'
  BY <1>1, <1>2 DEF IInv, TypeOK, FrameType
<1>4. HandledOnce' /\ SigretResumesLoop'
  BY <1>1 DEF IInv, HandledOnce, SigretResumesLoop
<1>5. StackShape'
  BY <1>1, <1>2 DEF StackShape, Depth
<1> QED
  BY <1>3, <1>4, <1>5 DEF IInv

\* run_sig takes one of the signals that wait, and the context that was saved
\* on the way is the one sigret needs.
LEMMA RunInv ==
    ASSUME IInv, NEW i \in Sig, run_sig(i)
    PROVE  IInv'
<1> USE InLoop DEF run_sig
<1>1. /\ sigcount' \in [Sig -> Nat] /\ handled' \in [Sig -> Nat]
      /\ \A j \in Sig : sent[j] = handled'[j] + sigcount'[j]
  <2> HIDE InLoop
  <2> QED
    BY DEF IInv, TypeOK, HandledOnce
<1>2. pc' \in {"dead", "handler"} /\ frames' = frames /\ left' = left
  OBVIOUS
<1>3. TypeOK'
  BY <1>1, <1>2 DEF IInv, TypeOK
<1>4. HandledOnce'
  BY <1>1 DEF HandledOnce
<1>5. SigretResumesLoop'
  BY <1>2 DEF SigretResumesLoop, Depth
<1>6. StackShape'
  BY <1>2 DEF StackShape, Depth
<1> QED
  BY <1>3, <1>4, <1>5, <1>6 DEF IInv

\* check_sig returns to the code it interrupted.
LEMMA DoneInv ==
    ASSUME IInv, CheckDone
    PROVE  IInv'
<1>1. /\ frames \in Seq(FrameType) /\ Len(frames) = left + 1 /\ left \in Nat
      /\ frames[Len(frames)].ret = "handler" => left > 0 /\ sig_save_cxt.depth # left
  BY DEF CheckDone, IInv, TypeOK, StackShape, FrameType, Depth
<1>2. /\ Last(frames) = frames[Len(frames)] /\ Last(frames) \in FrameType
      /\ Front(frames) \in Seq(FrameType) /\ Len(Front(frames)) = left
  BY <1>1, Innermost
<1>3. /\ pc' = frames[Len(frames)].ret /\ pc' \in {"user", "handler"}
      /\ frames' \in Seq(FrameType) /\ Len(frames') = left /\ sigcheck' = 0
  BY <1>2 DEF CheckDone, FrameType
<1>4. TypeOK'
  BY <1>3 DEF IInv, TypeOK, CheckDone, FrameType
<1>5. HandledOnce' /\ SigretResumesLoop'
  BY <1>1, <1>3 DEF IInv, HandledOnce, SigretResumesLoop, CheckDone, Depth
<1>6. StackShape'
  BY <1>1, <1>3 DEF StackShape, CheckDone, Depth
<1> QED
  BY <1>4, <1>5, <1>6 DEF IInv

\* Every step preserves the inductive invariant.
LEMMA NextInv ==
    ASSUME IInv, [Next]_vars
    PROVE  IInv'
<1>1. CASE UNCHANGED vars
  BY <1>1 DEF vars, IInv, TypeOK, HandledOnce, SigretResumesLoop, StackShape, Depth
<1>2. CASE Next
  BY <1>2, KillInv, SignalInv, ResetInv, SigretInv, CheckInv, SkipInv, RunInv, DoneInv DEF Next
<1> QED
  BY <1>1, <1>2

-----------------------------------------------------------------------------
(* The theorems.                                                           *)

\* The inductive invariant holds in every run.
THEOREM InvariantHolds == Spec => []IInv
<1>1. Init => IInv
  BY InitInv
<1>2. IInv /\ [Next]_vars => IInv'
  BY NextInv
<1> QED
  BY <1>1, <1>2, PTL DEF Spec

\* Every signal that sys_kill has counted is waiting or has been handled once.
THEOREM SignalsCountedOnce == Spec => []HandledOnce
<1>1. IInv => HandledOnce
  BY DEF IInv
<1> QED
  BY <1>1, InvariantHolds, PTL

\* A handler is never interrupted by another handler: above what exec and fork
\* found on the kernel stack there is at most one call of check_sig, with
\* sigcheck set, whatever sys_kill has written into sigcheck.
THEOREM HandlersNotNested == Spec => []NoNestedHandler
<1>1. IInv => NoNestedHandler
  BY DEF IInv, TypeOK, StackShape, NoNestedHandler, Depth
<1> QED
  BY <1>1, InvariantHolds, PTL

\* sigret continues the loop of check_sig that started the handler, at the
\* signal that was being handled.
THEOREM SigretSound == Spec => []SigretResumesLoop
<1>1. IInv => SigretResumesLoop
  BY DEF IInv
<1> QED
  BY <1>1, InvariantHolds, PTL

=============================================================================
