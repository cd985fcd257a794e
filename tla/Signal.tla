------------------------------- MODULE Signal -------------------------------
(***************************************************************************)
(* POSIX-like signals of one thread: check_sig and run_sig of              *)
(* lib/signal.c, and sys_signal, sys_kill, sys_sigret of lib/syscall.c.    *)
(*                                                                         *)
(* irq_handler calls check_sig when it is about to return to user mode.    *)
(* A user handler is entered by eret with check_sig's call still on the    *)
(* kernel stack, and sigret continues that call where store_cxt saved it.  *)
(* frames holds the calls of check_sig on the kernel stack, the innermost  *)
(* last: its loop variable and the place it returns to.                    *)
(*                                                                         *)
(* pc = "wild": the kernel runs on memory that does not belong there, and  *)
(* the model stops.                                                        *)
(***************************************************************************)
EXTENDS Integers, SequencesExt

CONSTANTS
    SIG_MAX,        \* signal numbers are below it, 32 in include/signal.h
    MaxSends,       \* bound on the signals of each number that are sent
    MaxLeft         \* bound on the calls that exec and fork leave on the stack

ASSUME SignalAssumption ==
    /\ SIG_MAX \in Nat \ {0}
    /\ MaxSends \in Nat
    /\ MaxLeft \in Nat

VARIABLES
    sigcount,       \* signals sent and not handled yet
    sigcheck,       \* not 0: check_sig does not deliver
    sig_handler,    \* signal -> "default" or "user"
    sig_save_cxt,   \* what store_cxt saved last: depth of the call, its i
    frames,         \* calls of check_sig on the kernel stack
    pc,             \* where the thread is
    sent,           \* signals sent since the counters were last cleared
    handled,        \* handlers started since then
    left            \* calls on the stack when exec or fork was last called

vars == <<sigcount, sigcheck, sig_handler, sig_save_cxt, frames, pc, sent, handled, left>>

-----------------------------------------------------------------------------
Sig == 0 .. (SIG_MAX - 1)

\* What sys_kill may be called with; SIG_MAX + 1 stands for all that follow.
Number == 0 .. (SIG_MAX + 1)
Zero == [i \in Sig |-> 0]
Depth == Len(frames)
Frame(i, ret) == [i |-> i, ret |-> ret]
NoCxt == [depth |-> 0, i |-> 0]

\* User code, which may make system calls.
InUser == pc \in {"user", "handler"}

Init ==
    /\ sigcount = Zero
    /\ sigcheck = 0
    /\ sig_handler = [i \in Sig |-> "default"]
    /\ sig_save_cxt = NoCxt
    /\ frames = <<>>
    /\ pc = "user"
    /\ sent = Zero
    /\ handled = Zero
    /\ left = 0

-----------------------------------------------------------------------------
(* System calls.                                                           *)

\* sys_kill in another thread.  It does not look at the number: sigcount[SIG_MAX]
\* is sigcheck, which follows sigcount in thread_t, and what comes after that is
\* sig_save_cxt and then memory of others.
sys_kill(n) ==
    /\ pc \notin {"dead", "wild"}
    /\ \/ /\ n \in Sig
          /\ sent[n] < MaxSends
          /\ sigcount' = [sigcount EXCEPT ![n] = @ + 1]
          /\ sent' = [sent EXCEPT ![n] = @ + 1]
          /\ UNCHANGED <<sigcheck, pc>>
       \/ /\ n = SIG_MAX
          /\ sigcheck < MaxSends
          /\ sigcheck' = sigcheck + 1
          /\ UNCHANGED <<sigcount, sent, pc>>
       \/ /\ n > SIG_MAX
          /\ pc' = "wild"
          /\ UNCHANGED <<sigcount, sent, sigcheck>>
    /\ UNCHANGED <<sig_handler, sig_save_cxt, frames, handled, left>>

\* sys_signal registers a handler, of a number below SIG_MAX.
sys_signal(i) ==
    /\ InUser
    /\ sig_handler' = [sig_handler EXCEPT ![i] = "user"]
    /\ UNCHANGED <<sigcount, sigcheck, sig_save_cxt, frames, pc, sent, handled, left>>

\* sys_exec: the new program starts with no handlers and no signals, on the
\* kernel stack as it is.
sys_exec ==
    /\ InUser
    /\ Depth <= MaxLeft
    /\ left' = Depth
    /\ sigcheck' = 0
    /\ sig_handler' = [i \in Sig |-> "default"]
    /\ sigcount' = Zero
    /\ sent' = Zero
    /\ handled' = Zero
    /\ pc' = "user"
    /\ UNCHANGED <<sig_save_cxt, frames>>

\* sys_fork: the model goes on with the child, which has the parent's handlers
\* and a copy of its kernel stack, and nothing else of its signal state (what
\* sig_save_cxt holds was not written for it).
sys_fork ==
    /\ InUser
    /\ Depth <= MaxLeft
    /\ left' = Depth
    /\ sigcheck' = 0
    /\ sigcount' = Zero
    /\ sig_save_cxt' = NoCxt
    /\ sent' = Zero
    /\ handled' = Zero
    /\ UNCHANGED <<sig_handler, frames, pc>>

\* load_cxt continues the innermost call: the one saved is on the stack, and a
\* handler that it started runs.
CanResume == pc = "handler" /\ sig_save_cxt.depth = Depth

\* sys_sigret, which the wrapper calls when the handler returns, and which a
\* program may call at any time: load_cxt, from a context that may be another
\* handler's, one whose call has returned, or one that was never written.
sys_sigret ==
    /\ InUser
    /\ IF CanResume
       THEN /\ frames' = [frames EXCEPT ![Depth].i = sig_save_cxt.i]
            /\ pc' = "loop"
       ELSE pc' = "wild" /\ UNCHANGED frames
    /\ UNCHANGED <<sigcount, sigcheck, sig_handler, sig_save_cxt, sent, handled, left>>

-----------------------------------------------------------------------------
(* check_sig and run_sig.                                                  *)

\* Mutant: no test of sigcheck.
check_sig_nested ==
    /\ InUser
    /\ sigcheck' = 1
    /\ frames' = Append(frames, Frame(0, pc))
    /\ pc' = "loop"
    /\ UNCHANGED <<sigcount, sig_handler, sig_save_cxt, sent, handled, left>>

\* Mutant: the loop starts at 1.
check_sig_from1 ==
    /\ InUser
    /\ sigcheck = 0
    /\ sigcheck' = 1
    /\ frames' = Append(frames, Frame(1, pc))
    /\ pc' = "loop"
    /\ UNCHANGED <<sigcount, sig_handler, sig_save_cxt, sent, handled, left>>

\* An interrupt in user mode; check_sig returns at once if sigcheck is set.
check_sig ==
    /\ InUser
    /\ sigcheck = 0
    /\ sigcheck' = 1
    /\ frames' = Append(frames, Frame(0, pc))
    /\ pc' = "loop"
    /\ UNCHANGED <<sigcount, sig_handler, sig_save_cxt, sent, handled, left>>

\* Mutant: store_cxt before the loop.
AtSignal_before(i) ==
    /\ pc = "loop"
    /\ Last(frames).i = i
    /\ sig_save_cxt' = [depth |-> Depth, i |-> 0]

\* The loop for signal i: store_cxt, then the test.
AtSignal(i) ==
    /\ pc = "loop"
    /\ Last(frames).i = i
    /\ sig_save_cxt' = [depth |-> Depth, i |-> i]

\* Nothing to deliver: the next signal.
SkipSignal(i) ==
    /\ AtSignal(i)
    /\ sigcount[i] = 0
    /\ frames' = [frames EXCEPT ![Depth].i = @ + 1]
    /\ UNCHANGED <<sigcount, sigcheck, sig_handler, pc, sent, handled, left>>

\* Mutant: the count is cleared, as if signals did not queue.
run_sig_all(i) ==
    /\ AtSignal(i)
    /\ sigcount[i] > 0
    /\ sigcount' = [sigcount EXCEPT ![i] = 0]
    /\ handled' = [handled EXCEPT ![i] = @ + 1]
    /\ pc' = IF sig_handler[i] = "default" THEN "dead" ELSE "handler"
    /\ UNCHANGED <<sigcheck, sig_handler, frames, sent, left>>

\* run_sig: into the user's handler, or default_sig_handler ends the thread.
run_sig(i) ==
    /\ AtSignal(i)
    /\ sigcount[i] > 0
    /\ sigcount' = [sigcount EXCEPT ![i] = @ - 1]
    /\ handled' = [handled EXCEPT ![i] = @ + 1]
    /\ pc' = IF sig_handler[i] = "default" THEN "dead" ELSE "handler"
    /\ UNCHANGED <<sigcheck, sig_handler, frames, sent, left>>

\* The end of check_sig and of irq_handler: back to the interrupted code.
CheckDone ==
    /\ pc = "loop"
    /\ Last(frames).i = SIG_MAX
    /\ sigcheck' = 0
    /\ pc' = Last(frames).ret
    /\ frames' = Front(frames)
    /\ UNCHANGED <<sigcount, sig_handler, sig_save_cxt, sent, handled, left>>

-----------------------------------------------------------------------------
Next ==
    \/ \E n \in Number : sys_kill(n)
    \/ \E i \in Sig : sys_signal(i)
    \/ sys_exec
    \/ sys_fork
    \/ sys_sigret
    \/ check_sig
    \/ \E i \in Sig : SkipSignal(i)
    \/ \E i \in Sig : run_sig(i)
    \/ CheckDone

Spec == Init /\ [][Next]_vars

\* The timer interrupts user code again and again, the kernel's loop goes on,
\* and handlers return.
FairSpec ==
    /\ Spec
    /\ WF_vars(check_sig)
    /\ WF_vars(CheckDone \/ \E i \in Sig : SkipSignal(i) \/ run_sig(i))
    /\ WF_vars(pc = "handler" /\ sys_sigret)

-----------------------------------------------------------------------------
(* Properties.                                                             *)

\* Every variable has its type.
TypeOK ==
    /\ sigcount \in [Sig -> Nat]
    /\ sigcheck \in Nat
    /\ sig_handler \in [Sig -> {"default", "user"}]
    /\ sig_save_cxt \in [depth : Nat, i : 0 .. SIG_MAX]
    /\ frames \in Seq([i : 0 .. SIG_MAX, ret : {"user", "handler"}])
    /\ pc \in {"user", "handler", "loop", "dead", "wild"}
    /\ sent \in [Sig -> Nat]
    /\ handled \in [Sig -> Nat]
    /\ left \in Nat

\* Each signal sent is handled once: it waits in sigcount or a handler has been
\* started for it.
HandledOnce == \A i \in Sig : sent[i] = handled[i] + sigcount[i]

\* A handler is never interrupted by a handler: at most one call of check_sig is
\* on the kernel stack (KSTACK_SIZE bounds it), sigcheck is set as long as it is,
\* and it is gone when user code outside handlers goes on.  Only what exec and
\* fork found on the stack when a handler called them stays below it.
NoNestedHandler ==
    /\ Depth \in {left, left + 1}
    /\ pc = "user" => Depth = left
    /\ pc \in {"loop", "handler"} /\ Depth > left => sigcheck > 0

\* While a handler runs, the saved context is that of the loop that started it,
\* at the signal being handled: sigret continues there, and the loop looks at
\* the same signal again.  (A child forked by the handler has no saved context.)
SigretResumesLoop ==
    pc = "handler" /\ Depth > left =>
        sig_save_cxt = [depth |-> Depth, i |-> Last(frames).i]

\* Signals are blocked for ever: sigcheck is set and no check_sig runs that
\* would clear it.  sys_kill of SIG_MAX does this.
Blocked == sigcheck > 0 /\ Depth = left

\* Every signal is handled, unless the thread ends first, sigcheck is set from
\* outside, or the kernel goes wild.
SignalsHandled ==
    \A i \in Sig : sigcount[i] > 0 ~> sigcount[i] = 0 \/ pc \in {"dead", "wild"} \/ Blocked

=============================================================================
