-------------------------- MODULE KernelCallsProofs --------------------------
(***************************************************************************)
(* Proofs about KernelCalls, for any number of threads, of kernel VMs and  *)
(* of frames, and for activations nested as deeply as MaxCalls lets them.  *)
(*                                                                         *)
(* Every step leaves the activations alone or pushes or pops one on one    *)
(* thread.  Eight such moves are told apart by what lies below and what    *)
(* becomes of the thread-local variables (section 3); that each keeps the  *)
(* invariant is shown for sequences, without the actions (section 2).      *)
(* Frames, stops and resets come on top of that (section 5): a step counts *)
(* the frames of one VM of its own thread, or resets one VM.               *)
(***************************************************************************)
EXTENDS KernelCalls, SequenceTheorems, TLAPS

-----------------------------------------------------------------------------
(* 1. The inductive invariant *)

\* What may stand on what: b on a.
Link(t, a, b) ==
    \/ a.kind \in {"run", "code"} /\ b.kind \in {"run", "code", "work"} /\ b.vm = a.vm
    \/ a.kind \in {"run", "work"} /\ b.kind = "range" /\ b.vm = Own(t) /\ b.savedVM = a.vm
    \/ a.kind = "range" /\ ~a.kernel.compiled /\ b.kind = "run"
    \/ a.kind = "range" /\ a.kernel.compiled /\ b.kind = "code" /\ b.vm = Own(t)

Chained(t, c) ==
    /\ Len(c) > 0 => c[1].kind # "range"
    /\ \A n \in 2 .. Len(c) : Link(t, c[n - 1], c[n])

\* An interpreter that runKernelRange has started.
OnKernel(c, n) == n > 1 /\ c[n].kind = "run" /\ c[n - 1].kind = "range"

\* Code runs on the thread's own VM or on that of a kernel further down.
Homes(t, c) ==
    \A n \in 1 .. Len(c) :
        c[n].vm = Own(t) \/ \E m \in 1 .. n : OnKernel(c, m) /\ c[m].vm = c[n].vm

\* The kernel VMs in use are those of the depths counted, the deepest on top.
Levels(t, c, depth) ==
    /\ \A n \in 1 .. Len(c) : OnKernel(c, n) =>
          \E d \in 1 .. depth : c[n].vm = KernelVM(t, d)
    /\ \A m, n \in 1 .. Len(c) :
          m < n /\ OnKernel(c, m) /\ OnKernel(c, n) => c[m].vm[2] < c[n].vm[2]
    /\ \A d \in 1 .. depth : \E n \in 1 .. Len(c) : OnKernel(c, n) /\ c[n].vm = KernelVM(t, d)

\* j is the job of the innermost dispatch among the first k activations.
InForce(c, k, j) ==
    \/ j = None /\ \A n \in 1 .. k : c[n].kind # "range"
    \/ \E n \in 1 .. k :
          /\ c[n].kind = "range" /\ j = c[n].job
          /\ \A m \in n + 1 .. k : c[m].kind # "range"

\* Each dispatch has saved the job in force below it.
Jobs(c, j) ==
    /\ InForce(c, Len(c), j)
    /\ \A n \in 1 .. Len(c) : c[n].kind = "range" => InForce(c, n - 1, c[n].savedJob)

\* The VM that tl_currentVM names.
Current(t, c, vm) ==
    IF Len(c) = 0 THEN vm = Own(t)
    ELSE IF c[Len(c)].kind # "range" THEN vm = c[Len(c)].vm
    ELSE c[Len(c)].kernel.compiled => vm = Own(t)

ThreadInv(t, c, vm, job, depth) ==
    Chained(t, c) /\ Homes(t, c) /\ Levels(t, c, depth) /\ Jobs(c, job) /\ Current(t, c, vm)

ThreadsInv ==
    \A t \in Thread : ThreadInv(t, calls[t], currentVM[t], currentJob[t], kernelDepth[t])

\* The published job is that of a participation of the host that is under way.
PublishedInv ==
    published # None =>
        published[2] \in 1 .. Len(calls[Host]) /\ calls[Host][published[2]].kind = "work"

CallsInv == KCTypeOK /\ ThreadsInv /\ PublishedInv

-----------------------------------------------------------------------------
(* 2. Pushing and popping *)

\* d is c with a on top.
IsPush(c, a, d) ==
    /\ Len(d) = Len(c) + 1 /\ d[Len(d)] = a
    /\ \A n \in 1 .. Len(c) : d[n] = c[n]

LEMMA AppendPushes ==
    ASSUME NEW S, NEW c \in Seq(S), NEW a \in S
    PROVE  Append(c, a) \in Seq(S) /\ IsPush(c, a, Append(c, a))
BY DEF IsPush

LEMMA SubSeqPops ==
    ASSUME NEW S, NEW c \in Seq(S), Len(c) > 0
    PROVE  LET d == SubSeq(c, 1, Len(c) - 1)
           IN  d \in Seq(S) /\ IsPush(d, c[Len(c)], c) /\ c[Len(c)] \in S
<1> DEFINE d == SubSeq(c, 1, Len(c) - 1)
<1>1. Len(c) \in Nat /\ Len(c) >= 1
  OBVIOUS
<1>2. Len(c) > 1 \/ Len(c) = 1
  BY <1>1
<1>3. \A n \in 1 .. Len(c) - 1 : c[n] \in S
  OBVIOUS
<1>4. /\ d \in Seq(S)
      /\ Len(d) = IF 1 <= Len(c) - 1 THEN Len(c) - 1 - 1 + 1 ELSE 0
      /\ \A n \in 1 .. Len(c) - 1 - 1 + 1 : d[n] = c[1 + n - 1]
  BY <1>1, <1>3, SubSeqProperties
<1> HIDE DEF d
<1>5. Len(d) = Len(c) - 1
  <2>1. CASE Len(c) > 1
    BY <1>1, <1>4, <2>1
  <2>2. CASE Len(c) = 1
    BY <1>4, <2>2
  <2>3. QED
    BY <1>2, <2>1, <2>2
<1>6. \A n \in 1 .. Len(c) - 1 : d[n] = c[n]
  BY <1>1, <1>4
<1>7. IsPush(d, c[Len(c)], c)
  BY <1>1, <1>5, <1>6 DEF IsPush
<1>8. QED
  BY <1>1, <1>4, <1>7 DEF d

LEMMA ChainedPush ==
    ASSUME NEW t, NEW c \in Seq(Activation), NEW a \in Activation, NEW d \in Seq(Activation),
           IsPush(c, a, d), Chained(t, c),
           Len(c) = 0 => a.kind # "range",
           Len(c) > 0 => Link(t, c[Len(c)], a)
    PROVE  Chained(t, d)
<1>1. Len(c) \in Nat /\ Len(d) = Len(c) + 1
  BY DEF IsPush
<1>2. Len(d) > 0 => d[1].kind # "range"
  <2>1. CASE Len(c) = 0
    BY <1>1, <2>1 DEF IsPush
  <2>2. CASE Len(c) > 0
    BY <1>1, <2>2 DEF IsPush, Chained
  <2>3. QED
    BY <1>1, <2>1, <2>2
<1>3. ASSUME NEW n \in 2 .. Len(d)
      PROVE  Link(t, d[n - 1], d[n])
  <2>1. CASE n \in 2 .. Len(c)
    <3>1. n - 1 \in 1 .. Len(c) /\ n \in 1 .. Len(c)
      BY <1>1, <2>1
    <3>2. d[n - 1] = c[n - 1] /\ d[n] = c[n]
      BY <3>1 DEF IsPush
    <3>3. QED
      BY <2>1, <3>2 DEF Chained
  <2>2. CASE n = Len(c) + 1
    <3>1. Len(c) > 0 /\ n - 1 = Len(c) /\ n = Len(d)
      BY <1>1, <2>2
    <3>2. d[n - 1] = c[Len(c)] /\ d[n] = a
      BY <1>1, <3>1 DEF IsPush
    <3>3. QED
      BY <3>1, <3>2
  <2>3. QED
    BY <1>1, <1>3, <2>1, <2>2
<1>4. QED
  BY <1>2, <1>3 DEF Chained

LEMMA ChainedPop ==
    ASSUME NEW t, NEW c \in Seq(Activation), NEW a, NEW d \in Seq(Activation),
           IsPush(c, a, d), Chained(t, d)
    PROVE  /\ Chained(t, c)
           /\ Len(c) = 0 => a.kind # "range"
           /\ Len(c) > 0 => Link(t, c[Len(c)], a)
<1>1. Len(c) \in Nat /\ Len(d) = Len(c) + 1 /\ d[Len(d)] = a
  BY DEF IsPush
<1>2. ASSUME NEW n \in 2 .. Len(c)
      PROVE  Link(t, c[n - 1], c[n])
  <2>1. n - 1 \in 1 .. Len(c) /\ n \in 1 .. Len(c) /\ n \in 2 .. Len(d)
    BY <1>1
  <2>2. d[n - 1] = c[n - 1] /\ d[n] = c[n]
    BY <2>1 DEF IsPush
  <2>3. QED
    BY <2>1, <2>2 DEF Chained
<1>3. Len(c) > 0 => c[1].kind # "range"
  BY <1>1 DEF IsPush, Chained
<1>4. ASSUME Len(c) > 0
      PROVE  Link(t, c[Len(c)], a)
  <2>1. Len(d) \in 2 .. Len(d) /\ Len(d) - 1 = Len(c) /\ Len(c) \in 1 .. Len(c)
    BY <1>1, <1>4
  <2>2. d[Len(d) - 1] = c[Len(c)]
    BY <2>1 DEF IsPush
  <2>3. QED
    BY <1>1, <2>1, <2>2 DEF Chained
<1>5. Len(c) = 0 => a.kind # "range"
  BY <1>1 DEF Chained
<1>6. QED
  BY <1>2, <1>3, <1>4, <1>5 DEF Chained

\* Kernels' interpreters stay what they are when something is pushed on top.
LEMMA OnKernelPush ==
    ASSUME NEW c \in Seq(Activation), NEW a, NEW d \in Seq(Activation), IsPush(c, a, d)
    PROVE  /\ Len(c) \in Nat /\ Len(d) = Len(c) + 1
           /\ \A n \in 1 .. Len(c) : d[n] = c[n] /\ (OnKernel(d, n) <=> OnKernel(c, n))
           /\ d[Len(d)] = a
           /\ OnKernel(d, Len(d)) <=> Len(c) > 0 /\ a.kind = "run" /\ c[Len(c)].kind = "range"
<1>1. Len(c) \in Nat /\ Len(d) = Len(c) + 1
  BY DEF IsPush
<1>2. ASSUME NEW n \in 1 .. Len(c)
      PROVE  d[n] = c[n] /\ (OnKernel(d, n) <=> OnKernel(c, n))
  <2>1. d[n] = c[n] /\ (n > 1 => d[n - 1] = c[n - 1])
    BY <1>1 DEF IsPush
  <2>2. QED
    BY <2>1 DEF OnKernel
<1>3. OnKernel(d, Len(d)) <=> Len(c) > 0 /\ a.kind = "run" /\ c[Len(c)].kind = "range"
  <2>1. Len(c) > 0 => d[Len(d) - 1] = c[Len(c)]
    BY <1>1 DEF IsPush
  <2>2. QED
    BY <1>1, <2>1 DEF OnKernel, IsPush
<1>4. QED
  BY <1>1, <1>2, <1>3 DEF IsPush

LEMMA HomesPush ==
    ASSUME NEW t, NEW c \in Seq(Activation), NEW a, NEW d \in Seq(Activation),
           IsPush(c, a, d), Homes(t, c),
           \/ a.vm = Own(t)
           \/ Len(c) > 0 /\ a.vm = c[Len(c)].vm
           \/ OnKernel(d, Len(d))
    PROVE  Homes(t, d)
<1>1. /\ Len(c) \in Nat /\ Len(d) = Len(c) + 1 /\ d[Len(d)] = a
      /\ \A n \in 1 .. Len(c) : d[n] = c[n] /\ (OnKernel(d, n) <=> OnKernel(c, n))
  BY OnKernelPush
<1>2. ASSUME NEW n \in 1 .. Len(c)
      PROVE  d[n].vm = Own(t) \/ \E m \in 1 .. n : OnKernel(d, m) /\ d[m].vm = d[n].vm
  <2>1. CASE c[n].vm = Own(t)
    BY <1>1, <2>1
  <2>2. CASE \E m \in 1 .. n : OnKernel(c, m) /\ c[m].vm = c[n].vm
    <3>1. PICK m \in 1 .. n : OnKernel(c, m) /\ c[m].vm = c[n].vm
      BY <2>2
    <3>2. m \in 1 .. Len(c)
      BY <1>1
    <3>3. OnKernel(d, m) /\ d[m].vm = d[n].vm
      BY <1>1, <3>1, <3>2
    <3>4. QED
      BY <3>3
  <2>3. QED
    BY <2>1, <2>2 DEF Homes
<1>3. a.vm = Own(t) \/ \E m \in 1 .. Len(d) : OnKernel(d, m) /\ d[m].vm = a.vm
  <2>1. CASE Len(c) > 0 /\ a.vm = c[Len(c)].vm
    <3>1. Len(c) \in 1 .. Len(c) /\ 1 .. Len(c) \subseteq 1 .. Len(d)
      BY <1>1, <2>1
    <3>2. d[Len(c)].vm = a.vm
      BY <1>1, <2>1, <3>1
    <3>3. QED
      BY <1>2, <3>1, <3>2
  <2>2. CASE OnKernel(d, Len(d))
    <3>1. Len(d) \in 1 .. Len(d)
      BY <1>1
    <3>2. QED
      BY <1>1, <2>2, <3>1
  <2>3. QED
    BY <2>1, <2>2
<1>4. QED
  <2>1. SUFFICES ASSUME NEW n \in 1 .. Len(d)
                 PROVE  d[n].vm = Own(t) \/ \E m \in 1 .. n : OnKernel(d, m) /\ d[m].vm = d[n].vm
    BY DEF Homes
  <2>2. n \in 1 .. Len(c) \/ n = Len(d)
    BY <1>1
  <2>3. QED
    BY <1>1, <1>2, <1>3, <2>2

LEMMA HomesPop ==
    ASSUME NEW t, NEW c \in Seq(Activation), NEW a, NEW d \in Seq(Activation),
           IsPush(c, a, d), Homes(t, d)
    PROVE  Homes(t, c) /\ (Len(c) = 0 => a.vm = Own(t))
<1>1. /\ Len(c) \in Nat /\ Len(d) = Len(c) + 1 /\ d[Len(d)] = a
      /\ \A n \in 1 .. Len(c) : d[n] = c[n] /\ (OnKernel(d, n) <=> OnKernel(c, n))
  BY OnKernelPush
<1>2. ASSUME NEW n \in 1 .. Len(c)
      PROVE  c[n].vm = Own(t) \/ \E m \in 1 .. n : OnKernel(c, m) /\ c[m].vm = c[n].vm
  <2>1. n \in 1 .. Len(d) /\ d[n] = c[n]
    BY <1>1
  <2>2. CASE \E m \in 1 .. n : OnKernel(d, m) /\ d[m].vm = d[n].vm
    <3>1. PICK m \in 1 .. n : OnKernel(d, m) /\ d[m].vm = d[n].vm
      BY <2>2
    <3>2. m \in 1 .. Len(c)
      BY <1>1
    <3>3. OnKernel(c, m) /\ c[m].vm = c[n].vm
      BY <1>1, <2>1, <3>1, <3>2
    <3>4. QED
      BY <3>3
  <2>3. QED
    BY <2>1, <2>2 DEF Homes
<1>3. ASSUME Len(c) = 0
      PROVE  a.vm = Own(t)
  <2>1. Len(d) = 1 /\ 1 \in 1 .. Len(d) /\ d[1] = a
    BY <1>1, <1>3
  <2>2. \A m \in 1 .. 1 : ~OnKernel(d, m)
    BY DEF OnKernel
  <2>3. QED
    BY <2>1, <2>2 DEF Homes
<1>4. QED
  BY <1>2, <1>3 DEF Homes

\* Something else than a kernel's interpreter is pushed.
LEMMA LevelsPush ==
    ASSUME NEW t, NEW c \in Seq(Activation), NEW a, NEW d \in Seq(Activation), NEW depth \in Nat,
           IsPush(c, a, d), Levels(t, c, depth), ~OnKernel(d, Len(d))
    PROVE  Levels(t, d, depth)
<1>1. /\ Len(c) \in Nat /\ Len(d) = Len(c) + 1
      /\ \A n \in 1 .. Len(c) : d[n] = c[n] /\ (OnKernel(d, n) <=> OnKernel(c, n))
  BY OnKernelPush
<1>2. \A n \in 1 .. Len(d) : OnKernel(d, n) => n \in 1 .. Len(c) /\ OnKernel(c, n) /\ d[n] = c[n]
  BY <1>1
<1>3. \A n \in 1 .. Len(c) : OnKernel(c, n) => n \in 1 .. Len(d) /\ OnKernel(d, n) /\ d[n] = c[n]
  BY <1>1
<1>4. \A n \in 1 .. Len(d) : OnKernel(d, n) => \E l \in 1 .. depth : d[n].vm = KernelVM(t, l)
  BY <1>2 DEF Levels
<1>5. \A m, n \in 1 .. Len(d) :
         m < n /\ OnKernel(d, m) /\ OnKernel(d, n) => d[m].vm[2] < d[n].vm[2]
  BY <1>2 DEF Levels
<1>6. \A l \in 1 .. depth : \E n \in 1 .. Len(d) : OnKernel(d, n) /\ d[n].vm = KernelVM(t, l)
  BY <1>3 DEF Levels
<1>7. QED
  BY <1>4, <1>5, <1>6 DEF Levels

LEMMA LevelsPop ==
    ASSUME NEW t, NEW c \in Seq(Activation), NEW a, NEW d \in Seq(Activation), NEW depth \in Nat,
           IsPush(c, a, d), Levels(t, d, depth), ~OnKernel(d, Len(d))
    PROVE  Levels(t, c, depth)
<1>1. /\ Len(c) \in Nat /\ Len(d) = Len(c) + 1
      /\ \A n \in 1 .. Len(c) : d[n] = c[n] /\ (OnKernel(d, n) <=> OnKernel(c, n))
  BY OnKernelPush
<1>2. \A n \in 1 .. Len(d) : OnKernel(d, n) => n \in 1 .. Len(c) /\ OnKernel(c, n) /\ d[n] = c[n]
  BY <1>1
<1>3. \A n \in 1 .. Len(c) : OnKernel(c, n) => n \in 1 .. Len(d) /\ OnKernel(d, n) /\ d[n] = c[n]
  BY <1>1
<1>4. \A n \in 1 .. Len(c) : OnKernel(c, n) => \E l \in 1 .. depth : c[n].vm = KernelVM(t, l)
  BY <1>3 DEF Levels
<1>5. \A m, n \in 1 .. Len(c) :
         m < n /\ OnKernel(c, m) /\ OnKernel(c, n) => c[m].vm[2] < c[n].vm[2]
  BY <1>3 DEF Levels
<1>6. \A l \in 1 .. depth : \E n \in 1 .. Len(c) : OnKernel(c, n) /\ c[n].vm = KernelVM(t, l)
  BY <1>2 DEF Levels
<1>7. QED
  BY <1>4, <1>5, <1>6 DEF Levels

LEMMA LevelsPushKernel ==
    ASSUME NEW t, NEW c \in Seq(Activation), NEW a, NEW d \in Seq(Activation), NEW depth \in Nat,
           IsPush(c, a, d), Levels(t, c, depth), OnKernel(d, Len(d)),
           a.vm = KernelVM(t, depth + 1)
    PROVE  Levels(t, d, depth + 1)
<1>1. /\ Len(c) \in Nat /\ Len(d) = Len(c) + 1 /\ d[Len(d)] = a
      /\ \A n \in 1 .. Len(c) : d[n] = c[n] /\ (OnKernel(d, n) <=> OnKernel(c, n))
  BY OnKernelPush
<1>2. \A n \in 1 .. Len(d) : n \in 1 .. Len(c) \/ n = Len(d)
  BY <1>1
<1>3. ASSUME NEW n \in 1 .. Len(d), OnKernel(d, n)
      PROVE  \E l \in 1 .. depth + 1 : d[n].vm = KernelVM(t, l)
  <2>1. CASE n = Len(d)
    BY <1>1, <2>1
  <2>2. CASE n \in 1 .. Len(c)
    <3>1. PICK l \in 1 .. depth : c[n].vm = KernelVM(t, l)
      BY <1>1, <1>3, <2>2 DEF Levels
    <3>2. l \in 1 .. depth + 1 /\ d[n].vm = KernelVM(t, l)
      BY <1>1, <2>2, <3>1
    <3>3. QED
      BY <3>2
  <2>3. QED
    BY <1>2, <2>1, <2>2
<1>4. ASSUME NEW m \in 1 .. Len(d), NEW n \in 1 .. Len(d),
             m < n, OnKernel(d, m), OnKernel(d, n)
      PROVE  d[m].vm[2] < d[n].vm[2]
  <2>1. m \in 1 .. Len(c)
    BY <1>1, <1>4
  <2>2. CASE n = Len(d)
    <3>1. PICK l \in 1 .. depth : c[m].vm = KernelVM(t, l)
      BY <1>1, <1>4, <2>1 DEF Levels
    <3>2. d[m].vm[2] = l /\ d[n].vm[2] = depth + 1
      BY <1>1, <2>1, <2>2, <3>1 DEF KernelVM
    <3>3. QED
      BY <3>2
  <2>3. CASE n \in 1 .. Len(c)
    BY <1>1, <1>4, <2>1, <2>3 DEF Levels
  <2>4. QED
    BY <1>2, <2>2, <2>3
<1>5. ASSUME NEW l \in 1 .. depth + 1
      PROVE  \E n \in 1 .. Len(d) : OnKernel(d, n) /\ d[n].vm = KernelVM(t, l)
  <2>1. CASE l = depth + 1
    <3>1. Len(d) \in 1 .. Len(d)
      BY <1>1
    <3>2. QED
      BY <1>1, <2>1, <3>1
  <2>2. CASE l \in 1 .. depth
    <3>1. PICK n \in 1 .. Len(c) : OnKernel(c, n) /\ c[n].vm = KernelVM(t, l)
      BY <2>2 DEF Levels
    <3>2. n \in 1 .. Len(d) /\ OnKernel(d, n) /\ d[n].vm = KernelVM(t, l)
      BY <1>1, <3>1
    <3>3. QED
      BY <3>2
  <2>3. QED
    BY <2>1, <2>2
<1>6. QED
  BY <1>3, <1>4, <1>5 DEF Levels

\* The interpreter on top runs at the depth that is counted: no other does.
LEMMA LevelsPopKernel ==
    ASSUME NEW t, NEW c \in Seq(Activation), NEW a, NEW d \in Seq(Activation), NEW depth \in Nat,
           IsPush(c, a, d), Levels(t, d, depth), OnKernel(d, Len(d))
    PROVE  depth > 0 /\ Levels(t, c, depth - 1)
<1>1. /\ Len(c) \in Nat /\ Len(d) = Len(c) + 1
      /\ \A n \in 1 .. Len(c) : d[n] = c[n] /\ (OnKernel(d, n) <=> OnKernel(c, n))
  BY OnKernelPush
<1>2. Len(d) \in 1 .. Len(d) /\ \A n \in 1 .. Len(c) : n \in 1 .. Len(d) /\ n < Len(d)
  BY <1>1
<1>3. PICK top \in 1 .. depth : d[Len(d)].vm = KernelVM(t, top)
  BY <1>2 DEF Levels
<1>4. ASSUME NEW n \in 1 .. Len(c), OnKernel(c, n)
      PROVE  \E l \in 1 .. top - 1 : c[n].vm = KernelVM(t, l)
  <2>1. OnKernel(d, n) /\ d[n] = c[n] /\ n \in 1 .. Len(d) /\ n < Len(d)
    BY <1>1, <1>2, <1>4
  <2>2. PICK l \in 1 .. depth : d[n].vm = KernelVM(t, l)
    BY <2>1 DEF Levels
  <2>3. d[n].vm[2] < d[Len(d)].vm[2]
    BY <1>2, <2>1 DEF Levels
  <2>4. l < top
    BY <1>3, <2>2, <2>3 DEF KernelVM
  <2>5. l \in 1 .. top - 1
    BY <2>4
  <2>6. QED
    BY <2>1, <2>2, <2>5
<1>5. top = depth
  <2>1. SUFFICES ASSUME top # depth
                 PROVE  FALSE
    OBVIOUS
  <2>2. depth \in 1 .. depth
    BY <1>3
  <2>3. PICK n \in 1 .. Len(d) : OnKernel(d, n) /\ d[n].vm = KernelVM(t, depth)
    BY <2>2 DEF Levels
  <2>4. n # Len(d)
    BY <1>3, <2>1, <2>3 DEF KernelVM
  <2>5. n \in 1 .. Len(c)
    BY <1>1, <2>4
  <2>6. PICK l \in 1 .. top - 1 : c[n].vm = KernelVM(t, l)
    BY <1>1, <1>4, <2>3, <2>5
  <2>7. l = depth
    BY <1>1, <2>3, <2>5, <2>6 DEF KernelVM
  <2>8. QED
    BY <2>7
<1>6. \A m, n \in 1 .. Len(c) :
         m < n /\ OnKernel(c, m) /\ OnKernel(c, n) => c[m].vm[2] < c[n].vm[2]
  BY <1>1, <1>2 DEF Levels
<1>7. ASSUME NEW l \in 1 .. depth - 1
      PROVE  \E n \in 1 .. Len(c) : OnKernel(c, n) /\ c[n].vm = KernelVM(t, l)
  <2>1. l \in 1 .. depth
    OBVIOUS
  <2>2. PICK n \in 1 .. Len(d) : OnKernel(d, n) /\ d[n].vm = KernelVM(t, l)
    BY <2>1 DEF Levels
  <2>3. n # Len(d)
    BY <1>3, <1>5, <2>2 DEF KernelVM
  <2>4. n \in 1 .. Len(c)
    BY <1>1, <2>3
  <2>5. QED
    BY <1>1, <2>2, <2>4
<1>8. \A n \in 1 .. Len(c) : OnKernel(c, n) => \E l \in 1 .. depth - 1 : c[n].vm = KernelVM(t, l)
  BY <1>4, <1>5
<1>9. Levels(t, c, depth - 1)
  BY <1>6, <1>7, <1>8 DEF Levels
<1>10. QED
  BY <1>3, <1>9

\* Nothing but a dispatch changes the job in force.
LEMMA JobsPush ==
    ASSUME NEW c \in Seq(Activation), NEW a, NEW d \in Seq(Activation), NEW j,
           IsPush(c, a, d), Jobs(c, j), a.kind # "range"
    PROVE  Jobs(d, j)
<1>1. /\ Len(c) \in Nat /\ Len(d) = Len(c) + 1 /\ d[Len(d)].kind # "range"
      /\ \A n \in 1 .. Len(c) : d[n] = c[n]
  BY DEF IsPush
<1>2. \A k \in 0 .. Len(c) : \A i : InForce(c, k, i) => InForce(d, k, i)
  BY <1>1 DEF InForce
<1>3. InForce(d, Len(c), j)
  BY <1>1, <1>2 DEF Jobs
<1>4. InForce(d, Len(d), j)
  BY <1>1, <1>3 DEF InForce
<1>5. ASSUME NEW n \in 1 .. Len(d), d[n].kind = "range"
      PROVE  InForce(d, n - 1, d[n].savedJob)
  <2>1. n \in 1 .. Len(c) /\ n - 1 \in 0 .. Len(c) /\ d[n] = c[n]
    BY <1>1, <1>5
  <2>2. InForce(c, n - 1, c[n].savedJob)
    BY <1>5, <2>1 DEF Jobs
  <2>3. QED
    BY <1>2, <2>1, <2>2
<1>6. QED
  BY <1>4, <1>5 DEF Jobs

LEMMA JobsPushRange ==
    ASSUME NEW c \in Seq(Activation), NEW a, NEW d \in Seq(Activation), NEW j,
           IsPush(c, a, d), Jobs(c, j), a.kind = "range", a.savedJob = j
    PROVE  Jobs(d, a.job)
<1>1. /\ Len(c) \in Nat /\ Len(d) = Len(c) + 1 /\ d[Len(d)] = a
      /\ \A n \in 1 .. Len(c) : d[n] = c[n]
  BY DEF IsPush
<1>2. \A k \in 0 .. Len(c) : \A i : InForce(c, k, i) => InForce(d, k, i)
  BY <1>1 DEF InForce
<1>3. InForce(d, Len(d), a.job)
  <2>1. Len(d) \in 1 .. Len(d) /\ \A m \in Len(d) + 1 .. Len(d) : d[m].kind # "range"
    BY <1>1
  <2>2. QED
    BY <1>1, <2>1 DEF InForce
<1>4. ASSUME NEW n \in 1 .. Len(d), d[n].kind = "range"
      PROVE  InForce(d, n - 1, d[n].savedJob)
  <2>1. CASE n = Len(d)
    <3>1. n - 1 = Len(c) /\ d[n].savedJob = j /\ Len(c) \in 0 .. Len(c)
      BY <1>1, <2>1
    <3>2. InForce(c, Len(c), j)
      BY DEF Jobs
    <3>3. QED
      BY <1>2, <3>1, <3>2
  <2>2. CASE n \in 1 .. Len(c)
    <3>1. n - 1 \in 0 .. Len(c) /\ d[n] = c[n]
      BY <1>1, <2>2
    <3>2. InForce(c, n - 1, c[n].savedJob)
      BY <1>4, <2>2, <3>1 DEF Jobs
    <3>3. QED
      BY <1>2, <3>1, <3>2
  <2>3. QED
    BY <1>1, <2>1, <2>2
<1>5. QED
  BY <1>3, <1>4 DEF Jobs

LEMMA JobsPop ==
    ASSUME NEW c \in Seq(Activation), NEW a, NEW d \in Seq(Activation), NEW j,
           IsPush(c, a, d), Jobs(d, j)
    PROVE  /\ a.kind # "range" => Jobs(c, j)
           /\ a.kind = "range" => Jobs(c, a.savedJob) /\ j = a.job
<1>1. /\ Len(c) \in Nat /\ Len(d) = Len(c) + 1 /\ d[Len(d)] = a
      /\ \A n \in 1 .. Len(c) : d[n] = c[n]
  BY DEF IsPush
<1>2. \A k \in 0 .. Len(c) : \A i : InForce(d, k, i) => InForce(c, k, i)
  BY <1>1 DEF InForce
<1>3. \A n \in 1 .. Len(c) : c[n].kind = "range" => InForce(c, n - 1, c[n].savedJob)
  <2>1. SUFFICES ASSUME NEW n \in 1 .. Len(c), c[n].kind = "range"
                 PROVE  InForce(c, n - 1, c[n].savedJob)
    OBVIOUS
  <2>2. n \in 1 .. Len(d) /\ n - 1 \in 0 .. Len(c) /\ d[n] = c[n]
    BY <1>1
  <2>3. InForce(d, n - 1, d[n].savedJob)
    BY <2>1, <2>2 DEF Jobs
  <2>4. QED
    BY <1>2, <2>2, <2>3
<1>4. ASSUME a.kind # "range"
      PROVE  Jobs(c, j)
  <2>1. InForce(d, Len(d), j)
    BY DEF Jobs
  <2>2. InForce(c, Len(c), j)
    BY <1>1, <1>4, <2>1 DEF InForce
  <2>3. QED
    BY <1>3, <2>2 DEF Jobs
<1>5. ASSUME a.kind = "range"
      PROVE  Jobs(c, a.savedJob) /\ j = a.job
  <2>1. InForce(d, Len(d) - 1, d[Len(d)].savedJob)
    BY <1>1, <1>5 DEF Jobs
  <2>2. InForce(c, Len(c), a.savedJob)
    BY <1>1, <1>2, <2>1
  <2>3. InForce(d, Len(d), j)
    BY DEF Jobs
  <2>4. j = a.job
    BY <1>1, <1>5, <2>3 DEF InForce
  <2>5. QED
    BY <1>3, <2>2, <2>4 DEF Jobs
<1>6. QED
  BY <1>4, <1>5

-----------------------------------------------------------------------------
(* 3. The moves *)

\* Under each move, c, vm, job and depth are the activations, tl_currentVM,
\* tl_currentJob and tl_kernelDepth of thread t before, those with an s after.

\* A call, a dispatch over the shared job, a worker that joins it.
PushesPlain(t, c, cs, vm, vms, job, jobs, depth, depths) ==
    \E a \in Activation :
        /\ IsPush(c, a, cs)
        /\ a.kind \in {"run", "code", "work"}
        /\ Len(c) = 0 => a.vm = Own(t)
        /\ Len(c) > 0 => c[Len(c)].kind \in {"run", "code"} /\ a.vm = c[Len(c)].vm
        /\ vms = a.vm /\ jobs = job /\ depths = depth

PushesCode(t, c, cs, vm, vms, job, jobs, depth, depths) ==
    \E a \in Activation :
        /\ IsPush(c, a, cs)
        /\ a.kind = "code" /\ a.vm = Own(t)
        /\ Len(c) > 0 /\ c[Len(c)].kind = "range" /\ c[Len(c)].kernel.compiled
        /\ vms = vm /\ jobs = job /\ depths = depth

PushesKernel(t, c, cs, vm, vms, job, jobs, depth, depths) ==
    \E a \in Activation :
        /\ IsPush(c, a, cs)
        /\ a.kind = "run" /\ a.vm = KernelVM(t, depth + 1)
        /\ Len(c) > 0 /\ c[Len(c)].kind = "range" /\ ~c[Len(c)].kernel.compiled
        /\ vms = a.vm /\ jobs = job /\ depths = depth + 1

PushesRange(t, c, cs, vm, vms, job, jobs, depth, depths) ==
    \E a \in Activation :
        /\ IsPush(c, a, cs)
        /\ a.kind = "range" /\ a.vm = Own(t) /\ a.savedVM = vm /\ a.savedJob = job
        /\ Len(c) > 0 /\ c[Len(c)].kind \in {"run", "work"}
        /\ vms = Own(t) /\ jobs = a.job /\ depths = depth

\* A return to code, to a compiled kernel's loop, or out of workOnJob.
PopsPlain(t, c, cs, vm, vms, job, jobs, depth, depths) ==
    /\ Len(c) > 0 /\ IsPush(cs, c[Len(c)], c)
    /\ c[Len(c)].kind # "range" /\ ~OnKernel(c, Len(c))
    /\ vms = vm /\ jobs = job /\ depths = depth

PopsKernel(t, c, cs, vm, vms, job, jobs, depth, depths) ==
    /\ Len(c) > 0 /\ IsPush(cs, c[Len(c)], c) /\ OnKernel(c, Len(c))
    /\ vms = vm /\ jobs = job /\ depths = Released(depth)

PopsRange(t, c, cs, vm, vms, job, jobs, depth, depths) ==
    /\ Len(c) > 0 /\ IsPush(cs, c[Len(c)], c) /\ c[Len(c)].kind = "range"
    /\ vms = c[Len(c)].savedVM /\ jobs = c[Len(c)].savedJob /\ depths = depth

Rests(t, c, cs, vm, vms, job, jobs, depth, depths) ==
    cs = c /\ vms = vm /\ jobs = job /\ depths = depth

Moves(t, c, cs, vm, vms, job, jobs, depth, depths) ==
    \/ PushesPlain(t, c, cs, vm, vms, job, jobs, depth, depths)
    \/ PushesCode(t, c, cs, vm, vms, job, jobs, depth, depths)
    \/ PushesKernel(t, c, cs, vm, vms, job, jobs, depth, depths)
    \/ PushesRange(t, c, cs, vm, vms, job, jobs, depth, depths)
    \/ PopsPlain(t, c, cs, vm, vms, job, jobs, depth, depths)
    \/ PopsKernel(t, c, cs, vm, vms, job, jobs, depth, depths)
    \/ PopsRange(t, c, cs, vm, vms, job, jobs, depth, depths)
    \/ Rests(t, c, cs, vm, vms, job, jobs, depth, depths)

LEMMA MovesKeepThreadInv ==
    ASSUME NEW t, NEW c \in Seq(Activation), NEW cs \in Seq(Activation),
           NEW vm, NEW vms, NEW job, NEW jobs, NEW depth \in Nat, NEW depths,
           ThreadInv(t, c, vm, job, depth),
           Moves(t, c, cs, vm, vms, job, jobs, depth, depths)
    PROVE  ThreadInv(t, cs, vms, jobs, depths)
<1>1. Len(c) \in Nat /\ Len(cs) \in Nat
  OBVIOUS
<1>2. Chained(t, c) /\ Homes(t, c) /\ Levels(t, c, depth) /\ Jobs(c, job) /\ Current(t, c, vm)
  BY DEF ThreadInv
<1>3. CASE PushesPlain(t, c, cs, vm, vms, job, jobs, depth, depths)
  <2>1. PICK a \in Activation :
          /\ IsPush(c, a, cs) /\ a.kind \in {"run", "code", "work"}
          /\ Len(c) = 0 => a.vm = Own(t)
          /\ Len(c) > 0 => c[Len(c)].kind \in {"run", "code"} /\ a.vm = c[Len(c)].vm
          /\ vms = a.vm /\ jobs = job /\ depths = depth
    BY <1>3 DEF PushesPlain
  <2>2. a.kind # "range" /\ Len(cs) = Len(c) + 1 /\ cs[Len(cs)] = a
    BY <2>1 DEF IsPush
  <2>3. ~OnKernel(cs, Len(cs))
    BY <2>1, <2>2, OnKernelPush
  <2>4. Chained(t, cs)
    <3>1. Len(c) > 0 => Link(t, c[Len(c)], a)
      BY <2>1 DEF Link
    <3>2. QED
      BY <1>2, <2>1, <2>2, <3>1, ChainedPush
  <2>5. Homes(t, cs)
    <3>1. a.vm = Own(t) \/ (Len(c) > 0 /\ a.vm = c[Len(c)].vm)
      BY <1>1, <2>1
    <3>2. QED
      BY <1>2, <2>1, <3>1, HomesPush
  <2>6. Levels(t, cs, depths)
    BY <1>2, <2>1, <2>3, LevelsPush
  <2>7. Jobs(cs, jobs)
    BY <1>2, <2>1, <2>2, JobsPush
  <2>8. Current(t, cs, vms)
    BY <1>1, <2>1, <2>2 DEF Current
  <2>9. QED
    BY <2>4, <2>5, <2>6, <2>7, <2>8 DEF ThreadInv
<1>4. CASE PushesCode(t, c, cs, vm, vms, job, jobs, depth, depths)
  <2>1. PICK a \in Activation :
          /\ IsPush(c, a, cs) /\ a.kind = "code" /\ a.vm = Own(t)
          /\ Len(c) > 0 /\ c[Len(c)].kind = "range" /\ c[Len(c)].kernel.compiled
          /\ vms = vm /\ jobs = job /\ depths = depth
    BY <1>4 DEF PushesCode
  <2>2. a.kind # "range" /\ Len(cs) = Len(c) + 1 /\ cs[Len(cs)] = a
    BY <2>1 DEF IsPush
  <2>3. ~OnKernel(cs, Len(cs))
    BY <2>1, <2>2, OnKernelPush
  <2>4. Chained(t, cs)
    <3>1. Link(t, c[Len(c)], a)
      BY <2>1 DEF Link
    <3>2. QED
      BY <1>1, <1>2, <2>1, <2>2, <3>1, ChainedPush
  <2>5. Homes(t, cs)
    BY <1>2, <2>1, HomesPush
  <2>6. Levels(t, cs, depths)
    BY <1>2, <2>1, <2>3, LevelsPush
  <2>7. Jobs(cs, jobs)
    BY <1>2, <2>1, <2>2, JobsPush
  <2>8. Current(t, cs, vms)
    <3>1. vm = Own(t)
      BY <1>1, <1>2, <2>1 DEF Current
    <3>2. QED
      BY <1>1, <2>1, <2>2, <3>1 DEF Current
  <2>9. QED
    BY <2>4, <2>5, <2>6, <2>7, <2>8 DEF ThreadInv
<1>5. CASE PushesKernel(t, c, cs, vm, vms, job, jobs, depth, depths)
  <2>1. PICK a \in Activation :
          /\ IsPush(c, a, cs) /\ a.kind = "run" /\ a.vm = KernelVM(t, depth + 1)
          /\ Len(c) > 0 /\ c[Len(c)].kind = "range" /\ ~c[Len(c)].kernel.compiled
          /\ vms = a.vm /\ jobs = job /\ depths = depth + 1
    BY <1>5 DEF PushesKernel
  <2>2. a.kind # "range" /\ Len(cs) = Len(c) + 1 /\ cs[Len(cs)] = a
    BY <2>1 DEF IsPush
  <2>3. OnKernel(cs, Len(cs))
    BY <2>1, <2>2, OnKernelPush
  <2>4. Chained(t, cs)
    <3>1. Link(t, c[Len(c)], a)
      BY <2>1 DEF Link
    <3>2. QED
      BY <1>1, <1>2, <2>1, <2>2, <3>1, ChainedPush
  <2>5. Homes(t, cs)
    BY <1>2, <2>1, <2>3, HomesPush
  <2>6. Levels(t, cs, depths)
    BY <1>2, <2>1, <2>3, LevelsPushKernel
  <2>7. Jobs(cs, jobs)
    BY <1>2, <2>1, <2>2, JobsPush
  <2>8. Current(t, cs, vms)
    BY <1>1, <2>1, <2>2 DEF Current
  <2>9. QED
    BY <2>4, <2>5, <2>6, <2>7, <2>8 DEF ThreadInv
<1>6. CASE PushesRange(t, c, cs, vm, vms, job, jobs, depth, depths)
  <2>1. PICK a \in Activation :
          /\ IsPush(c, a, cs) /\ a.kind = "range" /\ a.vm = Own(t)
          /\ a.savedVM = vm /\ a.savedJob = job
          /\ Len(c) > 0 /\ c[Len(c)].kind \in {"run", "work"}
          /\ vms = Own(t) /\ jobs = a.job /\ depths = depth
    BY <1>6 DEF PushesRange
  <2>2. Len(cs) = Len(c) + 1 /\ cs[Len(cs)] = a
    BY <2>1 DEF IsPush
  <2>3. ~OnKernel(cs, Len(cs))
    BY <2>1, <2>2, OnKernelPush
  <2>4. Chained(t, cs)
    <3>1. vm = c[Len(c)].vm
      BY <1>1, <1>2, <2>1 DEF Current
    <3>2. Link(t, c[Len(c)], a)
      BY <2>1, <3>1 DEF Link
    <3>3. QED
      BY <1>1, <1>2, <2>1, <2>2, <3>2, ChainedPush
  <2>5. Homes(t, cs)
    BY <1>2, <2>1, HomesPush
  <2>6. Levels(t, cs, depths)
    BY <1>2, <2>1, <2>3, LevelsPush
  <2>7. Jobs(cs, jobs)
    BY <1>2, <2>1, <2>2, JobsPushRange
  <2>8. Current(t, cs, vms)
    BY <1>1, <2>1, <2>2 DEF Current
  <2>9. QED
    BY <2>4, <2>5, <2>6, <2>7, <2>8 DEF ThreadInv
<1>7. ASSUME Len(c) > 0, IsPush(cs, c[Len(c)], c)
      PROVE  /\ Chained(t, cs) /\ Homes(t, cs)
             /\ Len(cs) = 0 => c[Len(c)].kind # "range" /\ c[Len(c)].vm = Own(t)
             /\ Len(cs) > 0 => Link(t, cs[Len(cs)], c[Len(c)])
             /\ OnKernel(c, Len(c)) <=>
                   Len(cs) > 0 /\ c[Len(c)].kind = "run" /\ cs[Len(cs)].kind = "range"
  BY <1>2, <1>7, ChainedPop, HomesPop, OnKernelPush
<1>8. CASE PopsPlain(t, c, cs, vm, vms, job, jobs, depth, depths)
  <2>1. /\ Len(c) > 0 /\ IsPush(cs, c[Len(c)], c)
        /\ c[Len(c)].kind # "range" /\ ~OnKernel(c, Len(c))
        /\ vms = vm /\ jobs = job /\ depths = depth
    BY <1>8 DEF PopsPlain
  <2>2. Levels(t, cs, depths)
    BY <1>2, <2>1, LevelsPop
  <2>3. Jobs(cs, jobs)
    BY <1>2, <2>1, JobsPop
  <2>4. Current(t, cs, vms)
    <3>1. vm = c[Len(c)].vm
      BY <1>1, <1>2, <2>1 DEF Current
    <3>2. CASE Len(cs) = 0
      BY <1>7, <2>1, <3>1, <3>2 DEF Current
    <3>3. CASE Len(cs) > 0
      BY <1>1, <1>7, <2>1, <3>1, <3>3 DEF Current, Link
    <3>4. QED
      BY <1>1, <3>2, <3>3
  <2>5. QED
    BY <1>7, <2>1, <2>2, <2>3, <2>4 DEF ThreadInv
<1>9. CASE PopsKernel(t, c, cs, vm, vms, job, jobs, depth, depths)
  <2>1. /\ Len(c) > 0 /\ IsPush(cs, c[Len(c)], c) /\ OnKernel(c, Len(c))
        /\ vms = vm /\ jobs = job /\ depths = Released(depth)
    BY <1>9 DEF PopsKernel
  <2>2. Levels(t, cs, depths)
    <3>1. depth > 0 /\ Levels(t, cs, depth - 1)
      BY <1>2, <2>1, LevelsPopKernel
    <3>2. QED
      BY <2>1, <3>1 DEF Released
  <2>3. c[Len(c)].kind # "range"
    BY <2>1 DEF OnKernel
  <2>4. Jobs(cs, jobs)
    BY <1>2, <2>1, <2>3, JobsPop
  <2>5. Current(t, cs, vms)
    <3>1. Len(cs) > 0 /\ c[Len(c)].kind = "run" /\ cs[Len(cs)].kind = "range"
      BY <1>7, <2>1
    <3>2. ~cs[Len(cs)].kernel.compiled
      BY <1>7, <2>1, <3>1 DEF Link
    <3>3. QED
      BY <1>1, <3>1, <3>2 DEF Current
  <2>6. QED
    BY <1>7, <2>1, <2>2, <2>4, <2>5 DEF ThreadInv
<1>10. CASE PopsRange(t, c, cs, vm, vms, job, jobs, depth, depths)
  <2>1. /\ Len(c) > 0 /\ IsPush(cs, c[Len(c)], c) /\ c[Len(c)].kind = "range"
        /\ vms = c[Len(c)].savedVM /\ jobs = c[Len(c)].savedJob /\ depths = depth
    BY <1>10 DEF PopsRange
  <2>2. Levels(t, cs, depths)
    <3>1. ~OnKernel(c, Len(c))
      BY <2>1 DEF OnKernel
    <3>2. QED
      BY <1>2, <2>1, <3>1, LevelsPop
  <2>3. Jobs(cs, jobs)
    BY <1>2, <2>1, JobsPop
  <2>4. Current(t, cs, vms)
    <3>1. Len(cs) > 0
      BY <1>1, <1>7, <2>1
    <3>2. cs[Len(cs)].kind \in {"run", "work"} /\ vms = cs[Len(cs)].vm
      BY <1>7, <2>1, <3>1 DEF Link
    <3>3. QED
      BY <1>1, <3>1, <3>2 DEF Current
  <2>5. QED
    BY <1>7, <2>1, <2>2, <2>3, <2>4 DEF ThreadInv
<1>11. CASE Rests(t, c, cs, vm, vms, job, jobs, depth, depths)
  BY <1>11 DEF Rests
<1>12. QED
  BY <1>3, <1>4, <1>5, <1>6, <1>8, <1>9, <1>10, <1>11 DEF Moves

-----------------------------------------------------------------------------
(* 4. The steps and their moves *)

LEMMA ActivationParts ==
    ASSUME NEW a \in Activation
    PROVE  /\ a.kind \in {"run", "code", "work", "range"} /\ a.vm \in VM
           /\ a.kind = "run" => a.stop \in Int
           /\ a.kind \in {"work", "range"} => a.job \in Job /\ a.kernel \in Kernel
           /\ a.kind = "range" => a.savedVM \in VM /\ a.savedJob \in Job \cup {None}
BY DEF Activation

LEMMA Activations ==
    ASSUME NEW vm \in VM
    PROVE  /\ \A stop \in Int : Run(vm, stop) \in Activation
           /\ Code(vm) \in Activation
           /\ \A job \in Job, kernel \in Kernel : Work(job, vm, kernel) \in Activation
           /\ \A job \in Job, kernel \in Kernel, savedVM \in VM, savedJob \in Job \cup {None} :
                 KernelRange(job, vm, kernel, savedVM, savedJob) \in Activation
           /\ \A a \in Activation : a.kind = "work" =>
                 [a EXCEPT !.vm = vm] \in Activation /\ [a EXCEPT !.vm = vm].kind = "work"
                     /\ [a EXCEPT !.vm = vm].vm = vm
<1>1. \A stop \in Int : Run(vm, stop) \in Activation
  BY DEF Activation, Run
<1>2. Code(vm) \in Activation
  BY DEF Activation, Code
<1>3. \A job \in Job, kernel \in Kernel : Work(job, vm, kernel) \in Activation
  BY DEF Activation, Work
<1>4. \A job \in Job, kernel \in Kernel, savedVM \in VM, savedJob \in Job \cup {None} :
         KernelRange(job, vm, kernel, savedVM, savedJob) \in Activation
  BY DEF Activation, KernelRange
<1>5. ASSUME NEW a \in Activation, a.kind = "work"
      PROVE  [a EXCEPT !.vm = vm] \in Activation /\ [a EXCEPT !.vm = vm].kind = "work"
                 /\ [a EXCEPT !.vm = vm].vm = vm
  <2>1. a \in [kind : {"work"}, vm : VM, job : Job, kernel : Kernel]
    BY <1>5 DEF Activation
  <2>2. [a EXCEPT !.vm = vm] \in [kind : {"work"}, vm : VM, job : Job, kernel : Kernel]
    BY <2>1
  <2>3. [a EXCEPT !.vm = vm].vm = vm
    BY <2>1
  <2>4. QED
    BY <2>2, <2>3 DEF Activation
<1>6. QED
  BY <1>1, <1>2, <1>3, <1>4, <1>5

LEMMA OwnVMs ==
    ASSUME NEW t \in Thread
    PROVE  Own(t) \in VM /\ Main \in VM /\ Host \in Thread
BY ThreadAssumption, NestAssumption DEF Own, Main, VM

\* Inside a dispatch there is a job in force.
LEMMA JobInForce ==
    ASSUME NEW c \in Seq(Activation), NEW j, Jobs(c, j),
           NEW n \in 1 .. Len(c), c[n].kind = "range"
    PROVE  j \in Job
<1>1. PICK m \in 1 .. Len(c) : c[m].kind = "range" /\ j = c[m].job
  BY DEF Jobs, InForce
<1>2. c[m] \in Activation
  OBVIOUS
<1>3. QED
  BY <1>1, <1>2, ActivationParts

CallsTyped == calls \in [Thread -> Seq(Activation)]

RestTyped ==
    /\ frames \in [VM -> Int] /\ hasStack \subseteq VM /\ strayed \subseteq VM
    /\ currentVM \in [Thread -> VM] /\ currentJob \in [Thread -> Job \cup {None}]
    /\ kernelDepth \in [Thread -> 0 .. KernelNest]
    /\ failed \subseteq Job /\ published \in Job \cup {None}
    /\ status \in {"running", "undefined"}

MovesAt(t) ==
    Moves(t, calls[t], calls'[t], currentVM[t], currentVM'[t], currentJob[t], currentJob'[t],
          kernelDepth[t], kernelDepth'[t])

OthersRest(t) ==
    \A u \in Thread \ {t} :
        /\ calls'[u] = calls[u] /\ currentVM'[u] = currentVM[u]
        /\ currentJob'[u] = currentJob[u] /\ kernelDepth'[u] = kernelDepth[u]

\* What each action is shown to do.
GoodStep(t) == CallsTyped' /\ RestTyped' /\ MovesAt(t) /\ OthersRest(t) /\ PublishedInv'

LEMMA GoodStepKeepsInv ==
    ASSUME CallsInv, NEW t \in Thread, GoodStep(t)
    PROVE  CallsInv'
<1>1. KCTypeOK'
  BY DEF GoodStep, CallsTyped, RestTyped, KCTypeOK
<1>2. ASSUME NEW u \in Thread
      PROVE  ThreadInv(u, calls'[u], currentVM'[u], currentJob'[u], kernelDepth'[u])
  <2>1. ThreadInv(u, calls[u], currentVM[u], currentJob[u], kernelDepth[u])
    BY DEF CallsInv, ThreadsInv
  <2>2. CASE u = t
    <3>1. calls[t] \in Seq(Activation) /\ calls'[t] \in Seq(Activation) /\ kernelDepth[t] \in Nat
      BY <1>1, NestAssumption DEF CallsInv, KCTypeOK
    <3>2. QED
      BY <2>1, <2>2, <3>1, MovesKeepThreadInv DEF GoodStep, MovesAt
  <2>3. CASE u # t
    BY <2>1, <2>3 DEF GoodStep, OthersRest
  <2>4. QED
    BY <2>2, <2>3
<1>3. QED
  BY <1>1, <1>2 DEF CallsInv, ThreadsInv, GoodStep

LEMMA PushStep ==
    ASSUME CallsInv, NEW t \in Thread, NEW a \in Activation, calls' = Pushed(t, a)
    PROVE  /\ CallsTyped' /\ IsPush(calls[t], a, calls'[t])
           /\ \A u \in Thread \ {t} : calls'[u] = calls[u]
           /\ published' = published => PublishedInv'
<1>1. calls \in [Thread -> Seq(Activation)]
  BY DEF CallsInv, KCTypeOK
<1>2. calls'[t] = Append(calls[t], a) /\ \A u \in Thread \ {t} : calls'[u] = calls[u]
  BY <1>1 DEF Pushed
<1>3. calls'[t] \in Seq(Activation) /\ IsPush(calls[t], a, calls'[t])
  BY <1>1, <1>2, AppendPushes
<1>4. CallsTyped'
  BY <1>1 DEF Pushed, CallsTyped
<1>5. ASSUME published' = published, published # None
      PROVE  published[2] \in 1 .. Len(calls'[Host]) /\ calls'[Host][published[2]].kind = "work"
  <2>1. published[2] \in 1 .. Len(calls[Host]) /\ calls[Host][published[2]].kind = "work"
    BY <1>5 DEF CallsInv, PublishedInv
  <2>2. CASE t = Host
    <3>1. Len(calls[t]) \in Nat /\ Len(calls'[t]) = Len(calls[t]) + 1
      BY <1>1, <1>3 DEF IsPush
    <3>2. \A n \in 1 .. Len(calls[t]) : calls'[t][n] = calls[t][n] /\ n \in 1 .. Len(calls'[t])
      BY <1>3, <3>1 DEF IsPush
    <3>3. QED
      BY <2>1, <2>2, <3>2
  <2>3. CASE t # Host
    BY <1>2, <2>1, <2>3, ThreadAssumption
  <2>4. QED
    BY <2>2, <2>3
<1>6. QED
  BY <1>2, <1>3, <1>4, <1>5 DEF PublishedInv

LEMMA PopStep ==
    ASSUME CallsInv, NEW t \in Thread, Height(t) > 0, calls' = Popped(t)
    PROVE  /\ CallsTyped' /\ IsPush(calls'[t], Top(t), calls[t]) /\ Top(t) \in Activation
           /\ \A u \in Thread \ {t} : calls'[u] = calls[u]
           /\ published' = published /\ (t = Host => Top(t).kind # "work") => PublishedInv'
<1>1. calls \in [Thread -> Seq(Activation)]
  BY DEF CallsInv, KCTypeOK
<1>2. /\ calls'[t] = SubSeq(calls[t], 1, Len(calls[t]) - 1)
      /\ \A u \in Thread \ {t} : calls'[u] = calls[u]
  BY <1>1 DEF Popped
<1>3. /\ calls'[t] \in Seq(Activation) /\ IsPush(calls'[t], Top(t), calls[t])
      /\ Top(t) \in Activation
  BY <1>1, <1>2, SubSeqPops DEF Height, Top
<1>4. CallsTyped'
  <2>1. SubSeq(calls[t], 1, Len(calls[t]) - 1) \in Seq(Activation)
    BY <1>2, <1>3
  <2>2. QED
    BY <1>1, <2>1 DEF Popped, CallsTyped
<1>5. ASSUME published' = published, t = Host => Top(t).kind # "work", published # None
      PROVE  published[2] \in 1 .. Len(calls'[Host]) /\ calls'[Host][published[2]].kind = "work"
  <2>1. published[2] \in 1 .. Len(calls[Host]) /\ calls[Host][published[2]].kind = "work"
    BY <1>5 DEF CallsInv, PublishedInv
  <2>2. CASE t = Host
    <3>1. Len(calls'[t]) \in Nat /\ Len(calls[t]) = Len(calls'[t]) + 1
      BY <1>3 DEF IsPush
    <3>2. published[2] # Len(calls[t])
      BY <1>5, <2>1, <2>2 DEF Top, Height
    <3>3. published[2] \in 1 .. Len(calls'[t])
      BY <2>1, <2>2, <3>1, <3>2
    <3>4. calls'[t][published[2]] = calls[t][published[2]]
      BY <1>3, <3>3 DEF IsPush
    <3>5. QED
      BY <2>1, <2>2, <3>3, <3>4
  <2>3. CASE t # Host
    BY <1>2, <2>1, <2>3, ThreadAssumption
  <2>4. QED
    BY <2>2, <2>3
<1>6. QED
  BY <1>2, <1>3, <1>4, <1>5 DEF PublishedInv

LEMMA AtThread ==
    ASSUME CallsInv, NEW t \in Thread
    PROVE  /\ calls[t] \in Seq(Activation) /\ Height(t) = Len(calls[t]) /\ Height(t) \in Nat
           /\ Height(t) > 0 => Top(t) = calls[t][Len(calls[t])] /\ Top(t) \in Activation
           /\ RestTyped /\ currentVM[t] \in VM /\ kernelDepth[t] \in 0 .. KernelNest
           /\ ThreadInv(t, calls[t], currentVM[t], currentJob[t], kernelDepth[t])
BY DEF CallsInv, KCTypeOK, RestTyped, ThreadsInv, Height, Top

LEMMA PlainPush ==
    ASSUME CallsInv, NEW t \in Thread, NEW a \in Activation, calls' = Pushed(t, a),
           a.kind \in {"run", "code", "work"},
           Height(t) = 0 => a.vm = Own(t),
           Height(t) > 0 => Top(t).kind \in {"run", "code"} /\ a.vm = Top(t).vm,
           currentVM' = currentVM \/ currentVM'[t] = a.vm,
           \A u \in Thread \ {t} : currentVM'[u] = currentVM[u],
           UNCHANGED <<currentJob, kernelDepth>>
    PROVE  MovesAt(t) /\ OthersRest(t)
<1>1. /\ IsPush(calls[t], a, calls'[t])
      /\ \A u \in Thread \ {t} : calls'[u] = calls[u]
  BY PushStep
<1>2. /\ Height(t) = Len(calls[t]) /\ Height(t) \in Nat
      /\ Height(t) > 0 => Top(t) = calls[t][Len(calls[t])]
      /\ Current(t, calls[t], currentVM[t])
  BY AtThread DEF ThreadInv
<1>3. currentVM'[t] = a.vm
  <2>1. currentVM[t] = a.vm
    BY <1>2 DEF Current
  <2>2. QED
    BY <2>1
<1>4. PushesPlain(t, calls[t], calls'[t], currentVM[t], currentVM'[t], currentJob[t],
                  currentJob'[t], kernelDepth[t], kernelDepth'[t])
  BY <1>1, <1>2, <1>3 DEF PushesPlain
<1>5. OthersRest(t)
  BY <1>1 DEF OthersRest
<1>6. QED
  BY <1>4, <1>5 DEF MovesAt, Moves

LEMMA PlainPop ==
    ASSUME CallsInv, NEW t \in Thread, Height(t) > 0, calls' = Popped(t),
           Top(t).kind # "range", ~OnKernel(calls[t], Height(t)), UNCHANGED locals
    PROVE  MovesAt(t) /\ OthersRest(t)
<1>1. /\ IsPush(calls'[t], Top(t), calls[t])
      /\ \A u \in Thread \ {t} : calls'[u] = calls[u]
  BY PopStep
<1>2. Height(t) = Len(calls[t]) /\ Top(t) = calls[t][Len(calls[t])]
  BY AtThread
<1>3. PopsPlain(t, calls[t], calls'[t], currentVM[t], currentVM'[t], currentJob[t],
                currentJob'[t], kernelDepth[t], kernelDepth'[t])
  BY <1>1, <1>2 DEF PopsPlain, locals
<1>4. QED
  BY <1>1, <1>3 DEF MovesAt, Moves, OthersRest, locals

LEMMA KernelPop ==
    ASSUME CallsInv, NEW t \in Thread, Height(t) > 0, calls' = Popped(t),
           OnKernel(calls[t], Height(t)),
           kernelDepth' = [kernelDepth EXCEPT ![t] = Released(@)],
           UNCHANGED <<currentVM, currentJob>>
    PROVE  MovesAt(t) /\ OthersRest(t) /\ kernelDepth' \in [Thread -> 0 .. KernelNest]
<1>1. /\ IsPush(calls'[t], Top(t), calls[t])
      /\ \A u \in Thread \ {t} : calls'[u] = calls[u]
  BY PopStep
<1>2. /\ Height(t) = Len(calls[t]) /\ Top(t) = calls[t][Len(calls[t])]
      /\ kernelDepth \in [Thread -> 0 .. KernelNest]
  BY AtThread DEF RestTyped
<1>3. kernelDepth'[t] = Released(kernelDepth[t])
  BY <1>2
<1>4. Released(kernelDepth[t]) \in 0 .. KernelNest
  <2>1. kernelDepth[t] \in 0 .. KernelNest
    BY <1>2
  <2>2. QED
    BY <2>1, NestAssumption DEF Released
<1>5. PopsKernel(t, calls[t], calls'[t], currentVM[t], currentVM'[t], currentJob[t],
                 currentJob'[t], kernelDepth[t], kernelDepth'[t])
  BY <1>1, <1>2, <1>3 DEF PopsKernel
<1>6. QED
  BY <1>1, <1>2, <1>4, <1>5 DEF MovesAt, Moves, OthersRest

LEMMA RestStep ==
    ASSUME CallsInv, NEW t \in Thread, UNCHANGED <<calls, locals, published>>
    PROVE  CallsTyped' /\ MovesAt(t) /\ OthersRest(t) /\ PublishedInv'
<1>1. CallsTyped'
  BY DEF CallsInv, KCTypeOK, CallsTyped
<1>2. MovesAt(t) /\ OthersRest(t)
  BY DEF MovesAt, Moves, Rests, OthersRest, locals
<1>3. QED
  BY <1>1, <1>2 DEF CallsInv, PublishedInv

LEMMA ResetTyped ==
    ASSUME RestTyped, NEW vm \in VM, Reset(vm)
    PROVE  frames' \in [VM -> Int] /\ hasStack' \subseteq VM /\ strayed' \subseteq VM
BY DEF RestTyped, Reset

\* runtimeError in run.
LEMMA RunFailsGood ==
    ASSUME CallsInv, NEW t \in Thread, Running(t, "run"), NEW vm \in VM, RunFails(t, vm)
    PROVE  GoodStep(t)
<1>1. /\ Height(t) > 0 /\ Top(t).kind = "run" /\ Height(t) = Len(calls[t])
      /\ calls[t] \in Seq(Activation) /\ RestTyped
      /\ ThreadInv(t, calls[t], currentVM[t], currentJob[t], kernelDepth[t])
  BY AtThread DEF Running
<1>2. CallsTyped' /\ PublishedInv'
  BY <1>1, PopStep DEF RunFails
<1>3. InKernel(t) <=> OnKernel(calls[t], Height(t))
  BY <1>1 DEF InKernel, OnKernel, Under, Top, Height
<1>4. frames' \in [VM -> Int] /\ hasStack' \subseteq VM /\ strayed' \subseteq VM
  BY <1>1, ResetTyped DEF RunFails
<1>5. CASE InKernel(t)
  <2>1. MovesAt(t) /\ OthersRest(t) /\ kernelDepth' \in [Thread -> 0 .. KernelNest]
    BY <1>1, <1>3, <1>5, KernelPop DEF RunFails
  <2>2. Under(t).job \in Job
    <3>1. Under(t) \in Activation /\ Under(t).kind = "range"
      BY <1>1, <1>5 DEF InKernel, Under, Height
    <3>2. QED
      BY <3>1, ActivationParts
  <2>3. RestTyped'
    BY <1>1, <1>4, <1>5, <2>1, <2>2 DEF RestTyped, RunFails
  <2>4. QED
    BY <1>2, <2>1, <2>3 DEF GoodStep
<1>6. CASE ~InKernel(t)
  <2>1. MovesAt(t) /\ OthersRest(t)
    BY <1>1, <1>3, <1>6, PlainPop DEF RunFails, locals
  <2>2. RestTyped'
    BY <1>1, <1>4, <1>6 DEF RestTyped, RunFails
  <2>3. QED
    BY <1>2, <2>1, <2>2 DEF GoodStep
<1>7. QED
  BY <1>5, <1>6

LEMMA ErrorsGood ==
    ASSUME CallsInv, NEW t \in Thread,
           \/ RunError(t) \/ DispatchTooLarge(t) \/ CodeError(t) \/ BufferNativeError(t)
           \/ CodeCallFails(t)
    PROVE  GoodStep(t)
<1>1. RestTyped /\ currentVM[t] \in VM /\ Main \in VM
  BY AtThread, OwnVMs
<1>2. Height(t) > 0 => Top(t).vm \in VM
  BY AtThread, ActivationParts
<1>3. CASE RunError(t)
  BY <1>2, <1>3, RunFailsGood DEF RunError, Running
<1>4. CASE DispatchTooLarge(t)
  BY <1>1, <1>4, RunFailsGood DEF DispatchTooLarge
<1>5. CASE CodeError(t)
  <2>1. UNCHANGED <<calls, locals, published, status>> /\ MarkJobFailed(t)
    BY <1>5 DEF CodeError
  <2>2. CASE currentJob[t] # None
    <3>1. currentJob[t] \in Job
      BY <1>1, <2>2 DEF RestTyped
    <3>2. failed' = failed \cup {currentJob[t]} /\ UNCHANGED vmState
      BY <2>1, <2>2 DEF MarkJobFailed
    <3>3. RestTyped'
      BY <1>1, <2>1, <3>1, <3>2 DEF RestTyped, vmState, locals
    <3>4. QED
      BY <2>1, <3>3, RestStep DEF GoodStep
  <2>3. CASE currentJob[t] = None
    <3>1. Reset(currentVM[t]) /\ UNCHANGED failed
      BY <2>1, <2>3 DEF MarkJobFailed
    <3>2. RestTyped'
      BY <1>1, <2>1, <3>1, ResetTyped DEF RestTyped, locals
    <3>3. QED
      BY <2>1, <3>2, RestStep DEF GoodStep
  <2>4. QED
    BY <2>2, <2>3
<1>6. CASE BufferNativeError(t)
  <2>1. UNCHANGED <<calls, locals, failed, published>> /\ Reset(Main)
    BY <1>6 DEF BufferNativeError
  <2>2. RestTyped'
    BY <1>1, <1>6, <2>1, ResetTyped DEF RestTyped, locals, BufferNativeError
  <2>3. QED
    BY <2>1, <2>2, RestStep DEF GoodStep
<1>7. CASE CodeCallFails(t)
  <2>1. UNCHANGED <<calls, locals, failed, published, status>> /\ Reset(Top(t).vm)
    BY <1>7 DEF CodeCallFails
  <2>2. Top(t).vm \in VM
    BY <1>2, <1>7 DEF CodeCallFails, Running
  <2>3. RestTyped'
    BY <1>1, <2>1, <2>2, ResetTyped DEF RestTyped, locals
  <2>4. QED
    BY <2>1, <2>3, RestStep DEF GoodStep
<1>8. QED
  BY <1>3, <1>4, <1>5, <1>6, <1>7

LEMMA InterpretGood ==
    ASSUME CallsInv, Interpret
    PROVE  GoodStep(Host)
<1>1. Host \in Thread /\ Main \in VM /\ Main = Own(Host) /\ RestTyped /\ Height(Host) = 0
  <2>1. Host \in Thread
    BY ThreadAssumption
  <2>2. Main \in VM /\ RestTyped
    BY <2>1, OwnVMs, AtThread
  <2>3. Height(Host) = 0
    BY DEF Interpret, Height
  <2>4. QED
    BY <2>1, <2>2, <2>3 DEF Main
<1> DEFINE a == Run(Main, 0)
<1>2. a \in Activation /\ a.kind = "run" /\ a.vm = Main
  BY <1>1, Activations DEF Run
<1>3. /\ calls' = Pushed(Host, a) /\ currentVM' = [currentVM EXCEPT ![Host] = a.vm]
      /\ UNCHANGED <<currentJob, kernelDepth, published>>
  BY <1>2 DEF Interpret
<1> HIDE DEF a
<1>4. CallsTyped' /\ PublishedInv' /\ MovesAt(Host) /\ OthersRest(Host)
  <2>1. CallsTyped' /\ PublishedInv'
    BY <1>1, <1>2, <1>3, PushStep
  <2>2. currentVM'[Host] = a.vm /\ \A u \in Thread \ {Host} : currentVM'[u] = currentVM[u]
    BY <1>1, <1>3 DEF RestTyped
  <2>3. MovesAt(Host) /\ OthersRest(Host)
    BY <1>1, <1>2, <1>3, <2>2, PlainPush
  <2>4. QED
    BY <2>1, <2>3
<1>5. RestTyped'
  BY <1>1 DEF RestTyped, Interpret
<1>6. QED
  BY <1>4, <1>5 DEF GoodStep

LEMMA CallsGood ==
    ASSUME CallsInv, NEW t \in Thread, RunCalls(t) \/ CallsCode(t) \/ CodeCalls(t)
    PROVE  GoodStep(t)
<1>1. RestTyped /\ status = "running" /\ Height(t) > 0 /\ Top(t).kind \in {"run", "code"}
  BY AtThread DEF RunCalls, CallsCode, CodeCalls, Running, Executing
<1>2. Top(t).vm \in VM
  BY <1>1, AtThread, ActivationParts
<1>3. CASE RunCalls(t)
  <2>1. RestTyped'
    BY <1>1, <1>2, <1>3 DEF RestTyped, RunCalls, locals
  <2>2. QED
    BY <1>3, <2>1, RestStep DEF GoodStep, RunCalls
<1>4. CASE CallsCode(t)
  <2>1. /\ Code(Top(t).vm) \in Activation
        /\ Code(Top(t).vm).kind = "code" /\ Code(Top(t).vm).vm = Top(t).vm
    BY <1>2, Activations DEF Code
  <2>2. CallsTyped' /\ PublishedInv'
    BY <1>4, <2>1, PushStep DEF CallsCode
  <2>3. MovesAt(t) /\ OthersRest(t)
    BY <1>1, <1>4, <2>1, PlainPush DEF CallsCode, locals, RestTyped
  <2>4. RestTyped'
    BY <1>1, <1>4 DEF RestTyped, CallsCode, vmState, locals
  <2>5. QED
    BY <2>2, <2>3, <2>4 DEF GoodStep
<1>5. CASE CodeCalls(t)
  <2> DEFINE vm == Top(t).vm
  <2>1. CASE vm \in hasStack
    <3>1. /\ calls' = Pushed(t, Run(vm, Stop(vm))) /\ frames' = [frames EXCEPT ![vm] = @ + 1]
          /\ currentVM' = [currentVM EXCEPT ![t] = vm]
          /\ UNCHANGED <<hasStack, currentJob, kernelDepth, failed, published, status, strayed>>
      BY <1>5, <2>1 DEF CodeCalls
    <3>2. Stop(vm) \in Int
      BY <1>1, <1>2 DEF Stop, RestTyped
    <3> DEFINE a == Run(vm, Stop(vm))
    <3>3. a \in Activation /\ a.kind = "run" /\ a.vm = vm
      BY <1>2, <3>2, Activations DEF Run
    <3>4. calls' = Pushed(t, a) /\ currentVM' = [currentVM EXCEPT ![t] = a.vm]
      BY <3>1, <3>3
    <3>5. CallsTyped' /\ PublishedInv' /\ MovesAt(t) /\ OthersRest(t)
      <4> HIDE DEF a, vm
      <4>1. vm = Top(t).vm
        BY DEF vm
      <4>2. CallsTyped' /\ PublishedInv'
        BY <3>1, <3>3, <3>4, PushStep
      <4>3. currentVM'[t] = a.vm /\ \A u \in Thread \ {t} : currentVM'[u] = currentVM[u]
        BY <1>1, <3>4 DEF RestTyped
      <4>4. MovesAt(t) /\ OthersRest(t)
        BY <1>1, <3>1, <3>3, <3>4, <4>1, <4>3, PlainPush
      <4>5. QED
        BY <4>2, <4>4
    <3>6. RestTyped'
      BY <1>1, <1>2, <3>1 DEF RestTyped
    <3>7. QED
      BY <3>5, <3>6 DEF GoodStep
  <2>2. CASE vm \notin hasStack
    <3>1. /\ status' = "undefined" /\ UNCHANGED <<calls, frames, currentVM>>
          /\ UNCHANGED <<hasStack, currentJob, kernelDepth, failed, published, strayed>>
      BY <1>5, <2>2 DEF CodeCalls
    <3>2. RestTyped'
      BY <1>1, <3>1 DEF RestTyped
    <3>3. QED
      BY <3>1, <3>2, RestStep DEF GoodStep, locals
  <2>3. QED
    BY <2>1, <2>2
<1>6. QED
  BY <1>3, <1>4, <1>5

LEMMA ReturnsGood ==
    ASSUME CallsInv, NEW t \in Thread,
           CodeReturns(t) \/ RunReturns(t) \/ RunEnds(t) \/ KernelEnds(t)
    PROVE  GoodStep(t)
<1>1. /\ RestTyped /\ status = "running" /\ Height(t) > 0 /\ Top(t).kind \in {"run", "code"}
      /\ Height(t) = Len(calls[t]) /\ Top(t) = calls[t][Height(t)]
      /\ calls[t] \in Seq(Activation) /\ Jobs(calls[t], currentJob[t])
  BY AtThread DEF CodeReturns, RunReturns, RunEnds, KernelEnds, Running, ThreadInv
<1>2. Top(t).vm \in VM
  BY <1>1, AtThread, ActivationParts
<1>3. OnKernel(calls[t], Height(t)) <=> Top(t).kind = "run" /\ InKernel(t)
  BY <1>1 DEF InKernel, OnKernel, Under, Top, Height
<1>4. ASSUME InKernel(t)
      PROVE  \A isNumber \in BOOLEAN : Accumulated(t, isNumber) \subseteq Job
  <2>1. Height(t) - 1 \in 1 .. Len(calls[t]) /\ calls[t][Height(t) - 1].kind = "range"
    BY <1>1, <1>4 DEF InKernel, Under
  <2>2. currentJob[t] \in Job
    BY <1>1, <2>1, JobInForce
  <2>3. QED
    BY <1>1, <2>2 DEF Accumulated, RestTyped
<1>5. CASE CodeReturns(t)
  <2>1. CallsTyped' /\ PublishedInv'
    BY <1>1, <1>5, PopStep DEF CodeReturns
  <2>2. ~OnKernel(calls[t], Height(t))
    BY <1>3, <1>5 DEF CodeReturns, Running
  <2>3. MovesAt(t) /\ OthersRest(t)
    BY <1>1, <1>5, <2>2, PlainPop DEF CodeReturns
  <2>4. failed' \subseteq Job
    BY <1>1, <1>4, <1>5 DEF CodeReturns, RestTyped
  <2>5. RestTyped'
    BY <1>1, <1>5, <2>4 DEF RestTyped, CodeReturns, vmState, locals
  <2>6. QED
    BY <2>1, <2>3, <2>5 DEF GoodStep
<1>6. CASE RunReturns(t)
  <2>1. RestTyped'
    BY <1>1, <1>2, <1>6 DEF RestTyped, RunReturns, locals
  <2>2. QED
    BY <1>6, <2>1, RestStep DEF GoodStep, RunReturns
<1>7. CASE RunEnds(t)
  <2>1. CallsTyped' /\ PublishedInv'
    BY <1>1, <1>7, PopStep DEF RunEnds
  <2>2. MovesAt(t) /\ OthersRest(t)
    BY <1>1, <1>3, <1>7, PlainPop DEF RunEnds
  <2>3. RestTyped'
    BY <1>1, <1>2, <1>7 DEF RestTyped, RunEnds, locals
  <2>4. QED
    BY <2>1, <2>2, <2>3 DEF GoodStep
<1>8. CASE KernelEnds(t)
  <2>1. CallsTyped' /\ PublishedInv'
    BY <1>1, <1>8, PopStep DEF KernelEnds
  <2>2. MovesAt(t) /\ OthersRest(t) /\ kernelDepth' \in [Thread -> 0 .. KernelNest]
    <3>1. OnKernel(calls[t], Height(t))
      BY <1>3, <1>8 DEF KernelEnds, Running
    <3>2. QED
      BY <1>1, <1>8, <3>1, KernelPop DEF KernelEnds
  <2>3. failed' \subseteq Job
    BY <1>4, <1>8 DEF KernelEnds
  <2>4. RestTyped'
    <3>1. frames' \in [VM -> Int]
      BY <1>1, <1>2, <1>8 DEF RestTyped, KernelEnds
    <3>2. QED
      BY <1>1, <1>8, <2>2, <2>3, <3>1 DEF RestTyped, KernelEnds
  <2>5. QED
    BY <2>1, <2>2, <2>4 DEF GoodStep
<1>9. QED
  BY <1>5, <1>6, <1>7, <1>8

\* runKernelRange begins, on top of run or workOnJob.
LEMMA StartRangeGood ==
    ASSUME CallsInv, NEW t \in Thread, NEW job \in Job, NEW kernel \in Kernel,
           Running(t, "run") \/ Running(t, "work"), StartRange(t, job, kernel),
           UNCHANGED <<vmState, kernelDepth, failed, published, status>>
    PROVE  GoodStep(t)
<1> DEFINE a == KernelRange(job, Own(t), kernel, currentVM[t], currentJob[t])
<1>1. /\ RestTyped /\ Height(t) > 0 /\ Top(t).kind \in {"run", "work"}
      /\ Height(t) = Len(calls[t]) /\ Top(t) = calls[t][Len(calls[t])]
      /\ Own(t) \in VM /\ currentVM[t] \in VM /\ currentJob[t] \in Job \cup {None}
  BY AtThread, OwnVMs DEF Running, RestTyped
<1>2. a \in Activation
  BY <1>1, Activations
<1>3. /\ a.kind = "range" /\ a.vm = Own(t) /\ a.savedVM = currentVM[t]
      /\ a.savedJob = currentJob[t] /\ a.job = job
  BY DEF KernelRange
<1>4. calls' = Pushed(t, a)
  BY DEF StartRange
<1> HIDE DEF a
<1>5. CallsTyped' /\ PublishedInv' /\ IsPush(calls[t], a, calls'[t])
      /\ \A u \in Thread \ {t} : calls'[u] = calls[u]
  BY <1>2, <1>4, PushStep
<1>6. currentVM' = [currentVM EXCEPT ![t] = Own(t)] /\ currentJob' = [currentJob EXCEPT ![t] = job]
  BY DEF StartRange
<1>7. RestTyped'
  BY <1>1, <1>6 DEF RestTyped, vmState
<1>8. PushesRange(t, calls[t], calls'[t], currentVM[t], currentVM'[t], currentJob[t],
                  currentJob'[t], kernelDepth[t], kernelDepth'[t])
  BY <1>1, <1>2, <1>3, <1>5, <1>6 DEF PushesRange, RestTyped
<1>9. OthersRest(t)
  BY <1>1, <1>5, <1>6 DEF OthersRest, RestTyped
<1>10. QED
  BY <1>5, <1>7, <1>8, <1>9 DEF GoodStep, MovesAt, Moves

LEMMA DispatchParallelGood ==
    ASSUME CallsInv, DispatchParallel
    PROVE  GoodStep(Host)
<1>1. Host \in Thread
  BY ThreadAssumption
<1>2. PICK kernel \in Kernel : calls' = Pushed(Host, Work(published', currentVM[Host], kernel))
  BY DEF DispatchParallel
<1> DEFINE a == Work(published', currentVM[Host], kernel)
<1>3. /\ RestTyped /\ currentVM[Host] \in VM /\ calls[Host] \in Seq(Activation)
      /\ Height(Host) = Len(calls[Host]) /\ Height(Host) \in Nat /\ Height(Host) > 0
      /\ Top(Host).kind = "run" /\ Top(Host) = calls[Host][Len(calls[Host])]
      /\ Current(Host, calls[Host], currentVM[Host])
  BY <1>1, AtThread DEF DispatchParallel, Running, ThreadInv
<1>4. published' = <<Host, Height(Host) + 1>> /\ published' \in Job
  BY <1>1, <1>3 DEF DispatchParallel, Job
<1>5. a \in Activation /\ a.kind = "work" /\ a.vm = currentVM[Host]
  BY <1>3, <1>4, Activations DEF Work
<1>6. calls' = Pushed(Host, a) /\ UNCHANGED <<vmState, locals, failed, status>>
  BY <1>2 DEF DispatchParallel
<1> HIDE DEF a
<1>7. CallsTyped' /\ IsPush(calls[Host], a, calls'[Host])
  BY <1>1, <1>5, <1>6, PushStep
<1>8. PublishedInv'
  <2>1. published'[2] = Len(calls[Host]) + 1
    BY <1>3, <1>4
  <2>2. Len(calls'[Host]) = Len(calls[Host]) + 1 /\ calls'[Host][Len(calls'[Host])] = a
    BY <1>7 DEF IsPush
  <2>3. QED
    BY <1>3, <1>5, <2>1, <2>2 DEF PublishedInv
<1>9. a.vm = Top(Host).vm
  BY <1>3, <1>5 DEF Current
<1>10. MovesAt(Host) /\ OthersRest(Host)
  BY <1>1, <1>3, <1>5, <1>6, <1>9, PlainPush DEF locals
<1>11. RestTyped'
  BY <1>3, <1>4, <1>6 DEF RestTyped, vmState, locals
<1>12. QED
  BY <1>7, <1>8, <1>10, <1>11 DEF GoodStep

LEMMA DispatchesGood ==
    ASSUME CallsInv, NEW t \in Thread, DispatchSerial(t) \/ Join(t) \/ Claim(t)
    PROVE  GoodStep(t)
<1>1. RestTyped /\ Height(t) \in Nat /\ (Height(t) > 0 => Top(t) \in Activation)
  BY AtThread
<1>2. CASE DispatchSerial(t)
  <2>1. PICK kernel \in Kernel : StartRange(t, <<t, Height(t) + 1>>, kernel)
    BY <1>2 DEF DispatchSerial
  <2>2. <<t, Height(t) + 1>> \in Job
    BY <1>1 DEF Job
  <2>3. QED
    BY <1>2, <2>1, <2>2, StartRangeGood DEF DispatchSerial
<1>3. CASE Claim(t)
  <2>1. Top(t).job \in Job /\ Top(t).kernel \in Kernel
    BY <1>1, <1>3, ActivationParts DEF Claim, Running
  <2>2. QED
    BY <1>3, <2>1, StartRangeGood DEF Claim
<1>4. CASE Join(t)
  <2> DEFINE a == [calls[Host][published[2]] EXCEPT !.vm = currentVM[t]]
  <2>1. /\ currentVM[t] \in VM /\ Height(t) = 0 /\ Current(t, calls[t], currentVM[t])
        /\ Height(t) = Len(calls[t])
    BY <1>4, AtThread DEF Join, Height, ThreadInv
  <2>2. calls[Host][published[2]] \in Activation /\ calls[Host][published[2]].kind = "work"
    <3>1. published[2] \in 1 .. Len(calls[Host]) /\ calls[Host][published[2]].kind = "work"
      BY <1>4 DEF Join, CallsInv, PublishedInv
    <3>2. calls[Host] \in Seq(Activation)
      BY ThreadAssumption DEF CallsInv, KCTypeOK
    <3>3. QED
      BY <3>1, <3>2
  <2>3. a \in Activation /\ a.kind = "work" /\ a.vm = currentVM[t]
    BY <2>1, <2>2, Activations
  <2>4. calls' = Pushed(t, a) /\ UNCHANGED <<vmState, locals, failed, published, status>>
    BY <1>4 DEF Join
  <2> HIDE DEF a
  <2>5. CallsTyped' /\ PublishedInv'
    BY <2>3, <2>4, PushStep
  <2>6. a.vm = Own(t)
    BY <2>1, <2>3 DEF Current
  <2>7. MovesAt(t) /\ OthersRest(t)
    BY <2>1, <2>3, <2>4, <2>6, PlainPush DEF locals
  <2>8. RestTyped'
    BY <1>1, <2>4 DEF RestTyped, vmState, locals
  <2>9. QED
    BY <2>5, <2>7, <2>8 DEF GoodStep
<1>5. QED
  BY <1>2, <1>3, <1>4

LEMMA IndicesGood ==
    ASSUME CallsInv, NEW t \in Thread, NextCompiled(t) \/ NextInterpreted(t) \/ NoKernelVM(t)
    PROVE  GoodStep(t)
<1>1. /\ RestTyped /\ Height(t) > 0 /\ Top(t).kind = "range" /\ Top(t) \in Activation
      /\ Height(t) = Len(calls[t]) /\ Top(t) = calls[t][Len(calls[t])]
      /\ calls[t] \in Seq(Activation) /\ Own(t) \in VM
      /\ Chained(t, calls[t]) /\ kernelDepth[t] \in 0 .. KernelNest
  BY AtThread, OwnVMs DEF NextCompiled, NextInterpreted, NoKernelVM, Running, ThreadInv
<1>2. CASE NextCompiled(t)
  <2> DEFINE a == Code(Top(t).vm)
  <2>1. Top(t).vm = Own(t)
    <3>1. Len(calls[t]) \in 2 .. Len(calls[t])
      BY <1>1 DEF Chained
    <3>2. Link(t, calls[t][Len(calls[t]) - 1], calls[t][Len(calls[t])])
      BY <1>1, <3>1 DEF Chained
    <3>3. QED
      BY <1>1, <3>2 DEF Link
  <2>2. a \in Activation /\ a.kind = "code" /\ a.vm = Own(t)
    BY <1>1, <2>1, Activations DEF Code
  <2>3. calls' = Pushed(t, a) /\ UNCHANGED <<vmState, locals, failed, published, status>>
    BY <1>2 DEF NextCompiled
  <2> HIDE DEF a
  <2>4. /\ CallsTyped' /\ PublishedInv' /\ IsPush(calls[t], a, calls'[t])
        /\ \A u \in Thread \ {t} : calls'[u] = calls[u]
    BY <2>2, <2>3, PushStep
  <2>5. RestTyped'
    BY <1>1, <2>3 DEF RestTyped, vmState, locals
  <2>6. PushesCode(t, calls[t], calls'[t], currentVM[t], currentVM'[t], currentJob[t],
                   currentJob'[t], kernelDepth[t], kernelDepth'[t])
    BY <1>1, <1>2, <2>2, <2>3, <2>4 DEF PushesCode, NextCompiled, locals
  <2>7. OthersRest(t)
    BY <2>3, <2>4 DEF OthersRest, locals
  <2>8. QED
    BY <2>4, <2>5, <2>6, <2>7 DEF GoodStep, MovesAt, Moves
<1>3. CASE NextInterpreted(t)
  <2> DEFINE vm == KernelVM(t, kernelDepth[t] + 1)
             a == Run(vm, 0)
  <2>1. kernelDepth[t] + 1 \in 0 .. KernelNest /\ vm \in VM
    BY <1>1, <1>3, NestAssumption DEF NextInterpreted, HasKernelVM, KernelVM, VM
  <2>2. a \in Activation /\ a.kind = "run" /\ a.vm = KernelVM(t, kernelDepth[t] + 1)
    BY <2>1, Activations DEF Run
  <2>3. /\ calls' = Pushed(t, a) /\ ~Top(t).kernel.compiled
        /\ kernelDepth' = [kernelDepth EXCEPT ![t] = @ + 1]
        /\ frames' = [frames EXCEPT ![vm] = 1] /\ hasStack' = hasStack \cup {vm}
        /\ strayed' = strayed \ {vm} /\ currentVM' = [currentVM EXCEPT ![t] = vm]
        /\ UNCHANGED <<currentJob, failed, published, status>>
    BY <1>3 DEF NextInterpreted
  <2>4. a.vm = vm
    BY <2>2
  <2> HIDE DEF a, vm
  <2>5. /\ CallsTyped' /\ PublishedInv' /\ IsPush(calls[t], a, calls'[t])
        /\ \A u \in Thread \ {t} : calls'[u] = calls[u]
    BY <2>2, <2>3, PushStep
  <2>6. RestTyped'
    BY <1>1, <2>1, <2>3 DEF RestTyped
  <2>7. PushesKernel(t, calls[t], calls'[t], currentVM[t], currentVM'[t], currentJob[t],
                     currentJob'[t], kernelDepth[t], kernelDepth'[t])
    BY <1>1, <2>2, <2>3, <2>4, <2>5 DEF PushesKernel, RestTyped
  <2>8. OthersRest(t)
    BY <1>1, <2>3, <2>5 DEF OthersRest, RestTyped
  <2>9. QED
    BY <2>5, <2>6, <2>7, <2>8 DEF GoodStep, MovesAt, Moves
<1>4. CASE NoKernelVM(t)
  <2>1. Top(t).job \in Job
    BY <1>1, ActivationParts
  <2>2. RestTyped'
    BY <1>1, <1>4, <2>1 DEF RestTyped, NoKernelVM, vmState, locals
  <2>3. QED
    BY <1>4, <2>2, RestStep DEF GoodStep, NoKernelVM
<1>5. QED
  BY <1>2, <1>3, <1>4

LEMMA EndsGood ==
    ASSUME CallsInv, NEW t \in Thread, RangeEnds(t) \/ Leave(t)
    PROVE  GoodStep(t)
<1>1. /\ RestTyped /\ Height(t) > 0 /\ Top(t).kind \in {"range", "work"} /\ Top(t) \in Activation
      /\ Height(t) = Len(calls[t]) /\ Top(t) = calls[t][Len(calls[t])]
  BY AtThread DEF RangeEnds, Leave, Running
<1>2. /\ CallsTyped' /\ IsPush(calls'[t], Top(t), calls[t])
      /\ \A u \in Thread \ {t} : calls'[u] = calls[u]
      /\ published' = published /\ (t = Host => Top(t).kind # "work") => PublishedInv'
  BY <1>1, PopStep DEF RangeEnds, Leave
<1>3. CASE RangeEnds(t)
  <2>1. /\ Top(t).kind = "range" /\ Top(t).savedVM \in VM /\ Top(t).savedJob \in Job \cup {None}
        /\ Top(t).job \in Job
    BY <1>1, <1>3, ActivationParts DEF RangeEnds, Running
  <2>2. /\ currentVM' = [currentVM EXCEPT ![t] = Top(t).savedVM]
        /\ currentJob' = [currentJob EXCEPT ![t] = Top(t).savedJob]
        /\ failed' \subseteq failed /\ UNCHANGED <<vmState, kernelDepth, published, status>>
    BY <1>3 DEF RangeEnds, RestoredVM, RestoredJob
  <2>3. RestTyped'
    BY <1>1, <2>1, <2>2 DEF RestTyped, vmState
  <2>4. PopsRange(t, calls[t], calls'[t], currentVM[t], currentVM'[t], currentJob[t],
                  currentJob'[t], kernelDepth[t], kernelDepth'[t])
    BY <1>1, <1>2, <2>1, <2>2 DEF PopsRange, RestTyped
  <2>5. OthersRest(t)
    BY <1>1, <1>2, <2>2 DEF OthersRest, RestTyped
  <2>6. PublishedInv'
    BY <1>2, <2>1, <2>2
  <2>7. QED
    BY <1>2, <2>3, <2>4, <2>5, <2>6 DEF GoodStep, MovesAt, Moves
<1>4. CASE Leave(t)
  <2>1. Top(t).kind = "work"
    BY <1>4 DEF Leave, Running
  <2>2. ~OnKernel(calls[t], Height(t))
    BY <1>1, <2>1 DEF OnKernel
  <2>3. MovesAt(t) /\ OthersRest(t)
    BY <1>1, <1>4, <2>1, <2>2, PlainPop DEF Leave
  <2>4. PublishedInv'
    <3>1. CASE t = Host
      BY <1>4, <3>1 DEF Leave, PublishedInv
    <3>2. CASE t # Host
      BY <1>2, <1>4, <3>2 DEF Leave
    <3>3. QED
      BY <3>1, <3>2
  <2>5. RestTyped'
    BY <1>1, <1>4 DEF RestTyped, Leave, vmState, locals
  <2>6. QED
    BY <1>2, <2>3, <2>4, <2>5 DEF GoodStep
<1>5. QED
  BY <1>3, <1>4

LEMMA StepKeepsCallsInv ==
    ASSUME CallsInv, [KCNext]_vars
    PROVE  CallsInv'
<1>1. CASE Interpret
  BY <1>1, ThreadAssumption, InterpretGood, GoodStepKeepsInv
<1>2. CASE DispatchParallel
  BY <1>2, ThreadAssumption, DispatchParallelGood, GoodStepKeepsInv
<1>3. ASSUME NEW t \in Thread, Step(t)
      PROVE  CallsInv'
  <2>1. GoodStep(t)
    BY <1>3, ErrorsGood, CallsGood, ReturnsGood, DispatchesGood, IndicesGood, EndsGood DEF Step
  <2>2. QED
    BY <2>1, GoodStepKeepsInv
<1>4. CASE UNCHANGED vars
  <2>1. UNCHANGED <<calls, frames, hasStack, currentVM, currentJob, kernelDepth, failed,
                    published, status, strayed>>
    BY <1>4 DEF vars
  <2>2. QED
    BY <2>1 DEF CallsInv, KCTypeOK, ThreadsInv, PublishedInv
<1>5. QED
  BY <1>1, <1>2, <1>3, <1>4 DEF KCNext

LEMMA InitCallsInv ==
    ASSUME KCInit
    PROVE  CallsInv
<1>1. KCTypeOK
  BY ThreadAssumption, NestAssumption DEF KCInit, KCTypeOK, VM, Main, Own
<1>2. ASSUME NEW t \in Thread
      PROVE  ThreadInv(t, calls[t], currentVM[t], currentJob[t], kernelDepth[t])
  <2>1. /\ Len(calls[t]) = 0 /\ currentVM[t] = Own(t) /\ currentJob[t] = None
        /\ kernelDepth[t] = 0
    BY DEF KCInit
  <2>2. Chained(t, calls[t]) /\ Homes(t, calls[t]) /\ Levels(t, calls[t], kernelDepth[t])
    BY <2>1 DEF Chained, Homes, Levels
  <2>3. Jobs(calls[t], currentJob[t]) /\ Current(t, calls[t], currentVM[t])
    BY <2>1 DEF Jobs, InForce, Current
  <2>4. QED
    BY <2>2, <2>3 DEF ThreadInv
<1>3. QED
  BY <1>1, <1>2 DEF CallsInv, ThreadsInv, PublishedInv, KCInit

LEMMA CallsInvariance == KCSpec => []CallsInv
<1>1. KCInit => CallsInv
  BY InitCallsInv
<1>2. CallsInv /\ [KCNext]_vars => CallsInv'
  BY StepKeepsCallsInv
<1>3. QED
  BY <1>1, <1>2, PTL DEF KCSpec

-----------------------------------------------------------------------------
(* 5. Frames and stacks *)

\* The interpreter at place n stops at a frame of its own.
FramedAt(t, c, n, count) ==
    /\ c[n].stop < count[c[n].vm]
    /\ c[n].stop = 0 => c[n].vm = Own(t) \/ OnKernel(c, n)
    /\ \A m \in 1 .. n - 1 :
          c[m].kind = "run" /\ c[m].vm = c[n].vm => c[m].stop < c[n].stop

FramedRun(t, c, n, count, astray) ==
    c[n].kind = "run" =>
        /\ c[n].stop \in Nat
        /\ c[n].vm \notin astray => FramedAt(t, c, n, count)

Framed(t, c, count, astray) == \A n \in 1 .. Len(c) : FramedRun(t, c, n, count, astray)

FramesInv ==
    status = "running" =>
        /\ frames \in [VM -> Nat]
        /\ \A t \in Thread : Framed(t, calls[t], frames, strayed)

\* The VMs on which machine code can call back: those of kernels have a stack.
StacksInv ==
    /\ Main \in hasStack
    /\ \A t \in Thread : \A d \in 1 .. kernelDepth[t] : KernelVM(t, d) \in hasStack

WrongInv == CallsInv /\ FramesInv /\ StacksInv /\ OnlyStraysGoWrong

LEMMA ThreadsOwnTheirVMs ==
    ASSUME NEW t, NEW c \in Seq(Activation), NEW depth \in Nat,
           Homes(t, c), Levels(t, c, depth), NEW n \in 1 .. Len(c)
    PROVE  c[n].vm[1] = t /\ c[n].vm # KernelVM(t, depth + 1)
<1>1. CASE c[n].vm = Own(t)
  BY <1>1 DEF Own, KernelVM
<1>2. CASE \E m \in 1 .. n : OnKernel(c, m) /\ c[m].vm = c[n].vm
  <2>1. PICK m \in 1 .. n : OnKernel(c, m) /\ c[m].vm = c[n].vm
    BY <1>2
  <2>2. m \in 1 .. Len(c)
    OBVIOUS
  <2>3. PICK d \in 1 .. depth : c[m].vm = KernelVM(t, d)
    BY <2>1, <2>2 DEF Levels
  <2>4. QED
    BY <2>1, <2>3 DEF KernelVM
<1>3. QED
  BY <1>1, <1>2 DEF Homes

\* What holds of an interpreter is not disturbed above it.
LEMMA FramedCarry ==
    ASSUME NEW t, NEW c, NEW d, NEW count, NEW counts, NEW astray, NEW astrays,
           Framed(t, c, count, astray),
           NEW n \in 1 .. Len(c), n \in Nat, \A m \in 1 .. n : d[m] = c[m], d[n].kind = "run",
           d[n].vm \notin astrays => c[n].vm \notin astray /\ c[n].stop < counts[c[n].vm]
    PROVE  FramedRun(t, d, n, counts, astrays)
<1>1. d[n] = c[n] /\ (n > 1 => d[n - 1] = c[n - 1])
  OBVIOUS
<1>2. c[n].stop \in Nat /\ (c[n].vm \notin astray => FramedAt(t, c, n, count))
  BY <1>1 DEF Framed, FramedRun
<1>3. OnKernel(d, n) <=> OnKernel(c, n)
  BY <1>1 DEF OnKernel
<1>4. \A m \in 1 .. n - 1 : d[m] = c[m]
  OBVIOUS
<1>5. ASSUME d[n].vm \notin astrays
      PROVE  FramedAt(t, d, n, counts)
  <2>1. FramedAt(t, c, n, count) /\ c[n].stop < counts[c[n].vm]
    BY <1>1, <1>2, <1>5
  <2>2. d[n].stop = 0 => d[n].vm = Own(t) \/ OnKernel(d, n)
    BY <1>1, <1>3, <2>1 DEF FramedAt
  <2>3. \A m \in 1 .. n - 1 : d[m].kind = "run" /\ d[m].vm = d[n].vm => d[m].stop < d[n].stop
    BY <1>1, <1>4, <2>1 DEF FramedAt
  <2>4. QED
    BY <1>1, <2>1, <2>2, <2>3 DEF FramedAt
<1>6. QED
  BY <1>1, <1>2, <1>5 DEF FramedRun

\* A thread's activations stay, or one goes, or one comes that is not run.
Quiet(u) ==
    \/ calls'[u] = calls[u]
    \/ \E a \in Activation : IsPush(calls[u], a, calls'[u]) /\ a.kind # "run"
    \/ \E a \in Activation : IsPush(calls'[u], a, calls[u])

LEMMA QuietCarry ==
    ASSUME NEW u \in Thread, calls[u] \in Seq(Activation), calls'[u] \in Seq(Activation), Quiet(u),
           NEW n \in 1 .. Len(calls'[u]), calls'[u][n].kind = "run"
    PROVE  n \in 1 .. Len(calls[u]) /\ \A m \in 1 .. n : calls'[u][m] = calls[u][m]
<1>1. CASE calls'[u] = calls[u]
  BY <1>1
<1>2. CASE \E a \in Activation : IsPush(calls[u], a, calls'[u]) /\ a.kind # "run"
  <2>1. PICK a \in Activation : IsPush(calls[u], a, calls'[u]) /\ a.kind # "run"
    BY <1>2
  <2>2. Len(calls[u]) \in Nat /\ Len(calls'[u]) = Len(calls[u]) + 1 /\ n # Len(calls'[u])
    BY <2>1 DEF IsPush
  <2>3. n \in 1 .. Len(calls[u]) /\ \A m \in 1 .. n : m \in 1 .. Len(calls[u])
    BY <2>2
  <2>4. QED
    BY <2>1, <2>3 DEF IsPush
<1>3. CASE \E a \in Activation : IsPush(calls'[u], a, calls[u])
  <2>1. PICK a \in Activation : IsPush(calls'[u], a, calls[u])
    BY <1>3
  <2>2. Len(calls'[u]) \in Nat /\ Len(calls[u]) = Len(calls'[u]) + 1
    BY <2>1 DEF IsPush
  <2>3. n \in 1 .. Len(calls[u]) /\ \A m \in 1 .. n : m \in 1 .. Len(calls'[u])
    BY <2>2
  <2>4. QED
    BY <2>1, <2>3 DEF IsPush
<1>4. QED
  BY <1>1, <1>2, <1>3 DEF Quiet

LEMMA CallsSequences ==
    ASSUME CallsInv, CallsInv', NEW u \in Thread
    PROVE  calls[u] \in Seq(Activation) /\ calls'[u] \in Seq(Activation)
BY DEF CallsInv, KCTypeOK

LEMMA QuietFrames ==
    ASSUME CallsInv, CallsInv', FramesInv, status = "running", UNCHANGED <<frames, strayed>>,
           \A u \in Thread : Quiet(u)
    PROVE  FramesInv'
<1>1. frames' \in [VM -> Nat]
  BY DEF FramesInv
<1>2. ASSUME NEW u \in Thread, NEW n \in 1 .. Len(calls'[u]), calls'[u][n].kind = "run"
      PROVE  FramedRun(u, calls'[u], n, frames', strayed')
  <2>1. Framed(u, calls[u], frames, strayed)
    BY DEF FramesInv
  <2>2. n \in 1 .. Len(calls[u]) /\ \A m \in 1 .. n : calls'[u][m] = calls[u][m]
    BY <1>2, CallsSequences, QuietCarry
  <2>3. calls'[u][n] = calls[u][n]
    BY <2>2
  <2>4. calls'[u][n].vm \notin strayed' =>
           calls[u][n].vm \notin strayed /\ calls[u][n].stop < frames'[calls[u][n].vm]
    BY <1>2, <2>1, <2>2, <2>3 DEF Framed, FramedRun, FramedAt
  <2>5. QED
    BY <1>2, <2>1, <2>2, <2>3, <2>4, FramedCarry
<1>3. ASSUME NEW u \in Thread, NEW n \in 1 .. Len(calls'[u])
      PROVE  FramedRun(u, calls'[u], n, frames', strayed')
  BY <1>2 DEF FramedRun
<1>4. QED
  BY <1>1, <1>3 DEF FramesInv, Framed

LEMMA ResetFrames ==
    ASSUME CallsInv, CallsInv', FramesInv, status = "running", NEW vm \in VM, Reset(vm),
           \A u \in Thread : Quiet(u)
    PROVE  FramesInv'
<1>1. frames' \in [VM -> Nat]
  BY DEF FramesInv, Reset
<1>2. ASSUME NEW u \in Thread, NEW n \in 1 .. Len(calls'[u]), calls'[u][n].kind = "run"
      PROVE  FramedRun(u, calls'[u], n, frames', strayed')
  <2>1. Framed(u, calls[u], frames, strayed) /\ frames \in [VM -> Nat]
    BY DEF FramesInv
  <2>2. n \in 1 .. Len(calls[u]) /\ \A m \in 1 .. n : calls'[u][m] = calls[u][m]
    BY <1>2, CallsSequences, QuietCarry
  <2>3. calls'[u][n] = calls[u][n] /\ calls[u][n].vm \in VM
    BY <2>2, CallsSequences, ActivationParts
  <2>4. ASSUME calls'[u][n].vm \notin strayed'
        PROVE  calls[u][n].vm \notin strayed /\ calls[u][n].stop < frames'[calls[u][n].vm]
    <3>1. n \in DOMAIN calls'[u]
      BY CallsSequences
    <3>2. calls'[u][n].vm = vm => StillUsed(vm)
      BY <1>2, <3>1 DEF StillUsed
    <3>3. calls[u][n].vm # vm /\ calls[u][n].vm \notin strayed
      BY <2>3, <2>4, <3>2 DEF Reset
    <3>4. frames'[calls[u][n].vm] = frames[calls[u][n].vm]
      BY <2>1, <2>3, <3>3 DEF Reset
    <3>5. calls[u][n].stop < frames[calls[u][n].vm]
      BY <1>2, <2>1, <2>2, <2>3, <3>3 DEF Framed, FramedRun, FramedAt
    <3>6. QED
      BY <3>3, <3>4, <3>5
  <2>5. QED
    BY <1>2, <2>1, <2>2, <2>3, <2>4, FramedCarry
<1>3. ASSUME NEW u \in Thread, NEW n \in 1 .. Len(calls'[u])
      PROVE  FramedRun(u, calls'[u], n, frames', strayed')
  BY <1>2 DEF FramedRun
<1>4. QED
  BY <1>1, <1>3 DEF FramesInv, Framed

\* A step that counts frames of one VM of its own thread only.
LEMMA LocalFrames ==
    ASSUME CallsInv, CallsInv', FramesInv, status = "running", NEW t \in Thread,
           frames' \in [VM -> Nat],
           \A v \in VM : v[1] # t => frames'[v] = frames[v] /\ (v \in strayed' <=> v \in strayed),
           \A u \in Thread \ {t} : calls'[u] = calls[u],
           Framed(t, calls'[t], frames', strayed')
    PROVE  FramesInv'
<1>1. ASSUME NEW u \in Thread \ {t}, NEW n \in 1 .. Len(calls'[u]), calls'[u][n].kind = "run"
      PROVE  FramedRun(u, calls'[u], n, frames', strayed')
  <2>1. Framed(u, calls[u], frames, strayed) /\ calls'[u] = calls[u]
    BY DEF FramesInv
  <2>2. /\ calls[u] \in Seq(Activation) /\ kernelDepth[u] \in Nat
        /\ Homes(u, calls[u]) /\ Levels(u, calls[u], kernelDepth[u])
    BY AtThread, NestAssumption DEF ThreadInv
  <2>3. calls[u][n].vm \in VM /\ calls[u][n].vm[1] # t
    <3>1. calls[u][n].vm[1] = u
      BY <2>1, <2>2, ThreadsOwnTheirVMs
    <3>2. calls[u][n] \in Activation
      BY <2>1, <2>2
    <3>3. QED
      BY <3>1, <3>2, ActivationParts
  <2>4. frames'[calls[u][n].vm] = frames[calls[u][n].vm]
        /\ (calls[u][n].vm \in strayed' <=> calls[u][n].vm \in strayed)
    BY <2>3
  <2>5. calls'[u][n].vm \notin strayed' =>
           calls[u][n].vm \notin strayed /\ calls[u][n].stop < frames'[calls[u][n].vm]
    BY <1>1, <2>1, <2>4 DEF Framed, FramedRun, FramedAt
  <2>6. n \in 1 .. Len(calls[u]) /\ \A m \in 1 .. n : calls'[u][m] = calls[u][m]
    BY <2>1
  <2>7. QED
    BY <1>1, <2>1, <2>5, <2>6, FramedCarry
<1>2. \A u \in Thread : Framed(u, calls'[u], frames', strayed')
  BY <1>1 DEF Framed, FramedRun
<1>3. QED
  BY <1>2 DEF FramesInv

\* A step that leaves frames and resets alone, or resets one VM.
LEMMA QuietSteps ==
    ASSUME CallsInv, NEW t \in Thread, Height(t) \in Nat
    PROVE  /\ UNCHANGED calls => \A u \in Thread : Quiet(u)
           /\ Height(t) > 0 /\ calls' = Popped(t) => \A u \in Thread : Quiet(u)
           /\ \A a \in Activation :
                 a.kind # "run" /\ calls' = Pushed(t, a) => \A u \in Thread : Quiet(u)
<1>1. UNCHANGED calls => \A u \in Thread : Quiet(u)
  BY DEF Quiet
<1>2. Height(t) > 0 /\ calls' = Popped(t) => \A u \in Thread : Quiet(u)
  BY PopStep DEF Quiet
<1>3. ASSUME NEW a \in Activation, a.kind # "run", calls' = Pushed(t, a)
      PROVE  \A u \in Thread : Quiet(u)
  BY <1>3, PushStep DEF Quiet
<1>4. QED
  BY <1>1, <1>2, <1>3

LEMMA ErrorsFrames ==
    ASSUME CallsInv, CallsInv', FramesInv, NEW t \in Thread,
           \/ RunError(t) \/ DispatchTooLarge(t) \/ CodeError(t) \/ BufferNativeError(t)
           \/ CodeCallFails(t)
    PROVE  FramesInv'
<1>1. /\ Height(t) \in Nat /\ currentVM[t] \in VM /\ Main \in VM
      /\ Height(t) > 0 => Top(t).vm \in VM
  BY AtThread, OwnVMs, ActivationParts
<1>2. /\ status = "running" /\ Height(t) > 0
      /\ (\E vm \in VM : Reset(vm)) \/ UNCHANGED <<frames, strayed>>
  BY <1>1 DEF RunError, DispatchTooLarge, CodeError, BufferNativeError, CodeCallFails, RunFails,
              MarkJobFailed, Running, Executing, vmState
<1>3. calls' = Popped(t) \/ UNCHANGED calls
  BY DEF RunError, DispatchTooLarge, CodeError, BufferNativeError, CodeCallFails, RunFails
<1>4. \A u \in Thread : Quiet(u)
  BY <1>1, <1>2, <1>3, QuietSteps
<1>5. QED
  BY <1>2, <1>4, ResetFrames, QuietFrames

LEMMA QuietStepsFrames ==
    ASSUME CallsInv, CallsInv', FramesInv, NEW t \in Thread,
           \/ CallsCode(t) \/ CodeReturns(t) \/ DispatchSerial(t) \/ Join(t) \/ Claim(t)
           \/ NextCompiled(t) \/ NoKernelVM(t) \/ RangeEnds(t) \/ Leave(t)
           \/ DispatchParallel /\ t = Host
    PROVE  FramesInv'
<1>1. /\ RestTyped /\ Height(t) \in Nat /\ currentVM[t] \in VM /\ Own(t) \in VM
      /\ currentJob[t] \in Job \cup {None}
      /\ Height(t) > 0 => Top(t) \in Activation
  BY AtThread, OwnVMs DEF RestTyped
<1>2. status = "running" /\ UNCHANGED <<frames, strayed>>
  BY DEF CallsCode, CodeReturns, DispatchSerial, Join, Claim, NextCompiled, NoKernelVM, RangeEnds,
         Leave, DispatchParallel, Running, Executing, vmState
<1>3. CASE CallsCode(t) \/ NextCompiled(t)
  <2>1. Top(t).vm \in VM /\ calls' = Pushed(t, Code(Top(t).vm))
    BY <1>1, <1>3, ActivationParts DEF CallsCode, NextCompiled, Running, Executing
  <2>2. Code(Top(t).vm) \in Activation /\ Code(Top(t).vm).kind # "run"
    BY <2>1, Activations DEF Code
  <2>3. QED
    BY <1>1, <1>2, <2>1, <2>2, QuietSteps, QuietFrames
<1>4. CASE CodeReturns(t) \/ RangeEnds(t) \/ Leave(t)
  <2>1. Height(t) > 0 /\ calls' = Popped(t)
    BY <1>4 DEF CodeReturns, RangeEnds, Leave, Running
  <2>2. QED
    BY <1>1, <1>2, <2>1, QuietSteps, QuietFrames
<1>5. CASE DispatchSerial(t) \/ Claim(t)
  <2>1. PICK job \in Job, kernel \in Kernel : StartRange(t, job, kernel)
    <3>1. CASE DispatchSerial(t)
      BY <1>1, <3>1 DEF DispatchSerial, Job
    <3>2. CASE Claim(t)
      BY <1>1, <3>2, ActivationParts DEF Claim, Running
    <3>3. QED
      BY <1>5, <3>1, <3>2
  <2> DEFINE a == KernelRange(job, Own(t), kernel, currentVM[t], currentJob[t])
  <2>2. a \in Activation /\ a.kind # "run" /\ calls' = Pushed(t, a)
    BY <1>1, <2>1, Activations DEF StartRange, KernelRange
  <2> HIDE DEF a
  <2>3. QED
    BY <1>1, <1>2, <2>2, QuietSteps, QuietFrames
<1>6. CASE NoKernelVM(t)
  <2>1. UNCHANGED calls
    BY <1>6 DEF NoKernelVM
  <2>2. QED
    BY <1>1, <1>2, <2>1, QuietSteps, QuietFrames
<1>7. CASE Join(t)
  <2> DEFINE a == [calls[Host][published[2]] EXCEPT !.vm = currentVM[t]]
  <2>1. calls[Host][published[2]] \in Activation /\ calls[Host][published[2]].kind = "work"
    <3>1. published[2] \in 1 .. Len(calls[Host]) /\ calls[Host][published[2]].kind = "work"
      BY <1>7 DEF Join, CallsInv, PublishedInv
    <3>2. QED
      BY <3>1, ThreadAssumption, AtThread
  <2>2. a \in Activation /\ a.kind = "work" /\ calls' = Pushed(t, a)
    BY <1>1, <1>7, <2>1, Activations DEF Join
  <2> HIDE DEF a
  <2>3. QED
    BY <1>1, <1>2, <2>2, QuietSteps, QuietFrames
<1>8. CASE DispatchParallel /\ t = Host
  <2>1. PICK kernel \in Kernel : calls' = Pushed(t, Work(published', currentVM[t], kernel))
    BY <1>8 DEF DispatchParallel
  <2> DEFINE a == Work(published', currentVM[t], kernel)
  <2>2. published' \in Job
    BY <1>1, <1>8 DEF DispatchParallel, Job
  <2>3. a \in Activation /\ a.kind = "work"
    BY <1>1, <2>2, Activations DEF Work
  <2>4. calls' = Pushed(t, a)
    BY <2>1
  <2> HIDE DEF a
  <2>5. QED
    BY <1>1, <1>2, <2>3, <2>4, QuietSteps, QuietFrames
<1>9. QED
  BY <1>3, <1>4, <1>5, <1>6, <1>7, <1>8

\* What changes on one VM of the thread, and on no other.
LEMMA OneVMFrames ==
    ASSUME CallsInv, CallsInv', FramesInv, status = "running", NEW t \in Thread,
           NEW vm \in VM, vm[1] = t, NEW x \in Nat, frames' = [frames EXCEPT ![vm] = x],
           strayed' = strayed \/ strayed' = strayed \ {vm},
           \A u \in Thread \ {t} : calls'[u] = calls[u],
           Framed(t, calls'[t], frames', strayed')
    PROVE  FramesInv'
<1>1. frames \in [VM -> Nat]
  BY DEF FramesInv
<1>2. frames' \in [VM -> Nat]
  BY <1>1
<1>3. \A v \in VM : v[1] # t => frames'[v] = frames[v] /\ (v \in strayed' <=> v \in strayed)
  BY <1>1
<1>4. QED
  BY <1>2, <1>3, LocalFrames

\* Of a thread before a step: what the proofs below use.
LEMMA FramesAt ==
    ASSUME CallsInv, FramesInv, status = "running", NEW t \in Thread
    PROVE  /\ calls[t] \in Seq(Activation) /\ Len(calls[t]) \in Nat
           /\ frames \in [VM -> Nat] /\ kernelDepth[t] \in 0 .. KernelNest
           /\ Framed(t, calls[t], frames, strayed)
           /\ \A n \in 1 .. Len(calls[t]) :
                 /\ calls[t][n] \in Activation
                 /\ calls[t][n].vm \in VM /\ calls[t][n].vm[1] = t
                 /\ calls[t][n].vm # KernelVM(t, kernelDepth[t] + 1)
                 /\ calls[t][n].kind = "run" => calls[t][n].stop \in Nat
<1>1. /\ calls[t] \in Seq(Activation) /\ Len(calls[t]) \in Nat
      /\ kernelDepth[t] \in 0 .. KernelNest /\ kernelDepth[t] \in Nat
      /\ Homes(t, calls[t]) /\ Levels(t, calls[t], kernelDepth[t])
  BY AtThread, NestAssumption DEF ThreadInv
<1>2. frames \in [VM -> Nat] /\ Framed(t, calls[t], frames, strayed)
  BY DEF FramesInv
<1>3. ASSUME NEW n \in 1 .. Len(calls[t])
      PROVE  /\ calls[t][n] \in Activation
             /\ calls[t][n].vm \in VM /\ calls[t][n].vm[1] = t
             /\ calls[t][n].vm # KernelVM(t, kernelDepth[t] + 1)
             /\ calls[t][n].kind = "run" => calls[t][n].stop \in Nat
  <2>1. calls[t][n] \in Activation
    BY <1>1
  <2>2. calls[t][n].vm[1] = t /\ calls[t][n].vm # KernelVM(t, kernelDepth[t] + 1)
    BY <1>1, ThreadsOwnTheirVMs
  <2>3. calls[t][n].kind = "run" => calls[t][n].stop \in Nat
    BY <1>2 DEF Framed, FramedRun
  <2>4. QED
    BY <2>1, <2>2, <2>3, ActivationParts
<1>4. QED
  BY <1>1, <1>2, <1>3

\* Interpreters of the thread that were there before keep their frames.
LEMMA OthersFramed ==
    ASSUME CallsInv, FramesInv, status = "running", NEW t \in Thread, NEW cs, NEW counts, NEW astray,
           NEW n \in 1 .. Len(calls[t]), \A m \in 1 .. n : cs[m] = calls[t][m],
           LET a == calls[t][n]
           IN  a.kind = "run" /\ a.vm \notin astray =>
                  a.vm \notin strayed /\ (a.stop < frames[a.vm] => a.stop < counts[a.vm])
    PROVE  FramedRun(t, cs, n, counts, astray)
<1>1. SUFFICES ASSUME cs[n].kind = "run"
               PROVE  FramedRun(t, cs, n, counts, astray)
  BY DEF FramedRun
<1>2. Framed(t, calls[t], frames, strayed)
  BY FramesAt
<1>3. cs[n] = calls[t][n] /\ n \in Nat
  OBVIOUS
<1>4. cs[n].vm \notin astray =>
         calls[t][n].vm \notin strayed /\ calls[t][n].stop < counts[calls[t][n].vm]
  BY <1>1, <1>2, <1>3 DEF Framed, FramedRun, FramedAt
<1>5. QED
  BY <1>1, <1>2, <1>3, <1>4, FramedCarry

LEMMA RunCallsFrames ==
    ASSUME CallsInv, CallsInv', FramesInv, NEW t \in Thread, RunCalls(t)
    PROVE  FramesInv'
<1> DEFINE vm == Top(t).vm
<1>1. /\ status = "running" /\ Height(t) > 0 /\ UNCHANGED <<calls, strayed>>
      /\ frames' = [frames EXCEPT ![vm] = @ + 1]
  BY DEF RunCalls, Running
<1>2. /\ Height(t) = Len(calls[t]) /\ Height(t) \in 1 .. Len(calls[t])
      /\ Top(t) = calls[t][Height(t)]
  BY <1>1, FramesAt DEF Height, Top
<1>3. vm \in VM /\ vm[1] = t /\ frames \in [VM -> Nat]
  BY <1>1, <1>2, FramesAt
<1> HIDE DEF vm
<1>4. ASSUME NEW n \in 1 .. Len(calls'[t])
      PROVE  FramedRun(t, calls'[t], n, frames', strayed')
  <2>1. n \in 1 .. Len(calls[t]) /\ \A m \in 1 .. n : calls'[t][m] = calls[t][m]
    BY <1>1
  <2>2. calls[t][n].vm \in VM /\ (calls[t][n].kind = "run" => calls[t][n].stop \in Nat)
    BY <1>1, <2>1, FramesAt
  <2>3. calls[t][n].kind = "run" /\ calls[t][n].vm \notin strayed' =>
           /\ calls[t][n].vm \notin strayed
           /\ calls[t][n].stop < frames[calls[t][n].vm] =>
                 calls[t][n].stop < frames'[calls[t][n].vm]
    BY <1>1, <1>3, <2>2
  <2>4. QED
    BY <1>1, <2>1, <2>3, OthersFramed
<1>5. frames' = [frames EXCEPT ![vm] = frames[vm] + 1] /\ frames[vm] + 1 \in Nat
  BY <1>1, <1>3
<1>6. Framed(t, calls'[t], frames', strayed')
  BY <1>4 DEF Framed
<1>7. QED
  BY <1>1, <1>3, <1>5, <1>6, OneVMFrames

LEMMA RunReturnsFrames ==
    ASSUME CallsInv, CallsInv', FramesInv, NEW t \in Thread, RunReturns(t)
    PROVE  FramesInv' /\ (status' = "undefined" => strayed' # {})
<1> DEFINE vm == Top(t).vm
           top == Top(t)
<1>1. /\ status = "running" /\ Height(t) > 0 /\ UNCHANGED <<calls, strayed>>
      /\ frames' = [frames EXCEPT ![vm] = @ - 1] /\ top.kind = "run"
      /\ frames[vm] - 1 # top.stop
      /\ status' = IF frames[vm] > 1 THEN status ELSE "undefined"
  BY DEF RunReturns, Running
<1>2. /\ Height(t) = Len(calls[t]) /\ Height(t) \in 1 .. Len(calls[t])
      /\ top = calls[t][Height(t)]
  BY <1>1, FramesAt DEF Height, Top
<1>3. vm \in VM /\ vm[1] = t /\ frames \in [VM -> Nat] /\ top.stop \in Nat /\ vm = top.vm
  BY <1>1, <1>2, FramesAt
<1>4. FramedRun(t, calls[t], Height(t), frames, strayed)
  BY <1>1, <1>2, FramesAt DEF Framed
<1> HIDE DEF vm, top
<1>5. vm \notin strayed => /\ top.stop < frames[vm] - 1
                         /\ \A m \in 1 .. Height(t) - 1 :
                               calls[t][m].kind = "run" /\ calls[t][m].vm = vm
                                  => calls[t][m].stop < top.stop
  BY <1>1, <1>2, <1>3, <1>4 DEF FramedRun, FramedAt
<1>6. status' = "undefined" => strayed' # {}
  BY <1>1, <1>3, <1>5
<1>7. ASSUME status' = "running"
      PROVE  FramesInv'
  <2>1. frames[vm] > 1
    BY <1>1, <1>7
  <2>2. ASSUME NEW n \in 1 .. Len(calls'[t])
        PROVE  FramedRun(t, calls'[t], n, frames', strayed')
    <3>1. n \in 1 .. Len(calls[t]) /\ \A m \in 1 .. n : calls'[t][m] = calls[t][m]
      BY <1>1
    <3>2. calls[t][n].vm \in VM /\ (calls[t][n].kind = "run" => calls[t][n].stop \in Nat)
      BY <1>1, <3>1, FramesAt
    <3>3. calls[t][n].kind = "run" /\ calls[t][n].vm = vm /\ vm \notin strayed
             => calls[t][n].stop <= top.stop
      <4>1. n = Height(t) \/ n \in 1 .. Height(t) - 1
        BY <1>2, <3>1
      <4>2. QED
        BY <1>2, <1>3, <1>5, <3>2, <4>1
    <3>4. calls[t][n].kind = "run" /\ calls[t][n].vm \notin strayed' =>
             /\ calls[t][n].vm \notin strayed
             /\ calls[t][n].stop < frames[calls[t][n].vm] =>
                   calls[t][n].stop < frames'[calls[t][n].vm]
      <4>1. CASE calls[t][n].vm = vm
        BY <1>1, <1>3, <1>5, <3>2, <3>3, <4>1
      <4>2. CASE calls[t][n].vm # vm
        BY <1>1, <1>3, <3>2, <4>2
      <4>3. QED
        BY <4>1, <4>2
    <3>5. QED
      BY <1>1, <3>1, <3>4, OthersFramed
  <2>3. frames' = [frames EXCEPT ![vm] = frames[vm] - 1] /\ frames[vm] - 1 \in Nat
    BY <1>1, <1>3, <2>1
  <2>4. Framed(t, calls'[t], frames', strayed')
    BY <2>2 DEF Framed
  <2>5. QED
    BY <1>1, <1>3, <2>3, <2>4, OneVMFrames
<1>8. QED
  BY <1>6, <1>7 DEF FramesInv

LEMMA RunEndsFrames ==
    ASSUME CallsInv, CallsInv', FramesInv, NEW t \in Thread, RunEnds(t) \/ KernelEnds(t)
    PROVE  FramesInv'
<1> DEFINE vm == Top(t).vm
           top == Top(t)
<1>1. /\ status = "running" /\ Height(t) > 0 /\ calls' = Popped(t) /\ UNCHANGED strayed
      /\ frames' = [frames EXCEPT ![vm] = @ - 1] /\ top.kind = "run"
      /\ frames[vm] - 1 = top.stop
  BY DEF RunEnds, KernelEnds, Running
<1>2. /\ Height(t) = Len(calls[t]) /\ Height(t) \in 1 .. Len(calls[t])
      /\ top = calls[t][Height(t)]
  BY <1>1, FramesAt DEF Height, Top
<1>3. vm \in VM /\ vm[1] = t /\ frames \in [VM -> Nat] /\ top.stop \in Nat /\ vm = top.vm
  BY <1>1, <1>2, FramesAt
<1>4. FramedRun(t, calls[t], Height(t), frames, strayed)
  BY <1>1, <1>2, FramesAt DEF Framed
<1>5. IsPush(calls'[t], Top(t), calls[t]) /\ \A u \in Thread \ {t} : calls'[u] = calls[u]
  BY <1>1, PopStep
<1> HIDE DEF vm, top
<1>6. vm \notin strayed => \A m \in 1 .. Height(t) - 1 :
                             calls[t][m].kind = "run" /\ calls[t][m].vm = vm
                                => calls[t][m].stop < top.stop
  BY <1>1, <1>2, <1>3, <1>4 DEF FramedRun, FramedAt
<1>7. ASSUME NEW n \in 1 .. Len(calls'[t])
      PROVE  FramedRun(t, calls'[t], n, frames', strayed')
  <2>1. /\ n \in 1 .. Len(calls[t]) /\ n \in 1 .. Height(t) - 1
        /\ \A m \in 1 .. n : calls'[t][m] = calls[t][m]
    <3>1. calls'[t] \in Seq(Activation) /\ calls[t] \in Seq(Activation)
      BY CallsSequences
    <3>2. Len(calls'[t]) \in Nat /\ Len(calls[t]) = Len(calls'[t]) + 1
      BY <1>5, <3>1 DEF IsPush
    <3>3. n \in 1 .. Len(calls[t]) /\ \A m \in 1 .. n : m \in 1 .. Len(calls'[t])
      BY <3>2
    <3>4. QED
      BY <1>2, <1>5, <3>2, <3>3 DEF IsPush
  <2>2. calls[t][n].vm \in VM /\ (calls[t][n].kind = "run" => calls[t][n].stop \in Nat)
    BY <1>1, <2>1, FramesAt
  <2>3. calls[t][n].kind = "run" /\ calls[t][n].vm \notin strayed' =>
           /\ calls[t][n].vm \notin strayed
           /\ calls[t][n].stop < frames[calls[t][n].vm] =>
                 calls[t][n].stop < frames'[calls[t][n].vm]
    <3>1. CASE calls[t][n].vm = vm
      BY <1>1, <1>3, <1>6, <2>1, <2>2, <3>1
    <3>2. CASE calls[t][n].vm # vm
      BY <1>1, <1>3, <2>2, <3>2
    <3>3. QED
      BY <3>1, <3>2
  <2>4. QED
    BY <1>1, <2>1, <2>3, OthersFramed
<1> DEFINE x == frames[vm] - 1
<1>8. frames' = [frames EXCEPT ![vm] = x] /\ x \in Nat
  BY <1>1, <1>3
<1> HIDE DEF x
<1>9. Framed(t, calls'[t], frames', strayed')
  BY <1>7 DEF Framed
<1>10. /\ status = "running" /\ vm \in VM /\ vm[1] = t
       /\ \A u \in Thread \ {t} : calls'[u] = calls[u]
  BY <1>1, <1>3, <1>5
<1>11. strayed' = strayed \/ strayed' = strayed \ {vm}
  BY <1>1
<1>12. QED
  BY <1>8, <1>9, <1>10, <1>11, OneVMFrames

\* An interpreter starts on a VM: the others on it stop below its frame.
LEMMA StartsFrames ==
    ASSUME CallsInv, CallsInv', FramesInv, status = "running", NEW t \in Thread,
           NEW vm \in VM, vm[1] = t, NEW stop \in Nat,
           NEW x \in Nat, stop < x,
           calls' = Pushed(t, Run(vm, stop)), frames' = [frames EXCEPT ![vm] = x],
           strayed' = strayed \/ strayed' = strayed \ {vm},
           vm \notin strayed' /\ stop = 0 => vm = Own(t) \/ OnKernel(calls'[t], Len(calls'[t])),
           \A n \in 1 .. Len(calls[t]) : calls[t][n].kind = "run" /\ calls[t][n].vm = vm =>
              (vm \notin strayed' => vm \notin strayed /\ frames[vm] <= stop)
    PROVE  FramesInv'
<1> DEFINE a == Run(vm, stop)
<1>1. a \in Activation /\ a.kind = "run" /\ a.vm = vm /\ a.stop = stop
  BY Activations DEF Run
<1> HIDE DEF a
<1>2. /\ IsPush(calls[t], a, calls'[t]) /\ \A u \in Thread \ {t} : calls'[u] = calls[u]
  BY <1>1, PushStep DEF a
<1>3. /\ calls[t] \in Seq(Activation) /\ calls'[t] \in Seq(Activation)
      /\ Len(calls[t]) \in Nat /\ Len(calls'[t]) = Len(calls[t]) + 1
      /\ calls'[t][Len(calls'[t])] = a
      /\ \A m \in 1 .. Len(calls[t]) : calls'[t][m] = calls[t][m]
  BY <1>2, CallsSequences DEF IsPush
<1>4. frames \in [VM -> Nat]
  BY FramesAt
<1>5. ASSUME NEW n \in 1 .. Len(calls[t])
      PROVE  /\ FramedRun(t, calls'[t], n, frames', strayed')
             /\ calls[t][n].kind = "run" /\ calls[t][n].vm = vm /\ vm \notin strayed'
                   => calls[t][n].stop < stop
  <2>1. calls[t][n].vm \in VM /\ (calls[t][n].kind = "run" => calls[t][n].stop \in Nat)
    BY FramesAt
  <2>2. FramedRun(t, calls[t], n, frames, strayed)
    BY FramesAt DEF Framed
  <2>3. calls[t][n].kind = "run" /\ calls[t][n].vm = vm /\ vm \notin strayed'
           => calls[t][n].stop < stop
    BY <1>4, <2>1, <2>2 DEF FramedRun, FramedAt
  <2>4. calls[t][n].kind = "run" /\ calls[t][n].vm \notin strayed' =>
           /\ calls[t][n].vm \notin strayed
           /\ calls[t][n].stop < frames[calls[t][n].vm] =>
                 calls[t][n].stop < frames'[calls[t][n].vm]
    <3>1. CASE calls[t][n].vm = vm
      BY <1>4, <2>1, <2>3, <3>1
    <3>2. CASE calls[t][n].vm # vm
      BY <1>4, <2>1, <3>2
    <3>3. QED
      BY <3>1, <3>2
  <2>5. \A m \in 1 .. n : calls'[t][m] = calls[t][m]
    BY <1>3
  <2>6. FramedRun(t, calls'[t], n, frames', strayed')
    BY <2>4, <2>5, OthersFramed
  <2>7. QED
    BY <2>3, <2>6
<1>6. FramedRun(t, calls'[t], Len(calls'[t]), frames', strayed')
  <2>1. stop < frames'[vm]
    BY <1>4
  <2>2. ASSUME vm \notin strayed', NEW m \in 1 .. Len(calls'[t]) - 1,
               calls'[t][m].kind = "run", calls'[t][m].vm = vm
        PROVE  calls'[t][m].stop < stop
    <3>1. m \in 1 .. Len(calls[t]) /\ calls'[t][m] = calls[t][m]
      BY <1>3
    <3>2. QED
      BY <1>5, <2>2, <3>1
  <2>3. QED
    BY <1>1, <1>3, <2>1, <2>2 DEF FramedRun, FramedAt
<1>7. ASSUME NEW n \in 1 .. Len(calls'[t])
      PROVE  FramedRun(t, calls'[t], n, frames', strayed')
  <2>1. n \in 1 .. Len(calls[t]) \/ n = Len(calls'[t])
    BY <1>3
  <2>2. QED
    BY <1>5, <1>6, <2>1
<1>8. Framed(t, calls'[t], frames', strayed')
  BY <1>7 DEF Framed
<1>9. QED
  BY <1>2, <1>8, OneVMFrames

LEMMA InterpretFrames ==
    ASSUME CallsInv, CallsInv', FramesInv, Interpret
    PROVE  FramesInv'
<1>1. Host \in Thread /\ Main \in VM /\ Main = Own(Host) /\ Main[1] = Host
  BY OwnVMs, ThreadAssumption DEF Main, Own
<1>2. /\ status = "running" /\ calls[Host] = <<>> /\ strayed' = strayed \ {Main}
      /\ calls' = Pushed(Host, Run(Main, 0)) /\ frames' = [frames EXCEPT ![Main] = @ + 1]
  BY DEF Interpret
<1>3. frames \in [VM -> Nat]
  BY <1>1, <1>2, FramesAt
<1> DEFINE x == frames[Main] + 1
<1>4. x \in Nat /\ 0 < x /\ frames' = [frames EXCEPT ![Main] = x]
  BY <1>1, <1>2, <1>3
<1> HIDE DEF x
<1>5. \A n \in 1 .. Len(calls[Host]) : FALSE
  BY <1>2
<1>6. QED
  BY <1>1, <1>2, <1>4, <1>5, StartsFrames

LEMMA NextInterpretedFrames ==
    ASSUME CallsInv, CallsInv', FramesInv, NEW t \in Thread, NextInterpreted(t)
    PROVE  FramesInv'
<1> DEFINE vm == KernelVM(t, kernelDepth[t] + 1)
<1>1. /\ status = "running" /\ Height(t) > 0 /\ Top(t).kind = "range"
      /\ strayed' = strayed \ {vm} /\ frames' = [frames EXCEPT ![vm] = 1]
      /\ calls' = Pushed(t, Run(vm, 0)) /\ kernelDepth[t] < KernelNest
  BY DEF NextInterpreted, Running, HasKernelVM
<1>2. vm \in VM /\ vm[1] = t
  BY <1>1, FramesAt, NestAssumption DEF KernelVM, VM
<1>3. \A n \in 1 .. Len(calls[t]) : calls[t][n].vm # vm
  BY <1>1, FramesAt
<1> HIDE DEF vm
<1>4. OnKernel(calls'[t], Len(calls'[t]))
  <2>1. Run(vm, 0) \in Activation /\ Run(vm, 0).kind = "run"
    BY <1>2, Activations DEF Run
  <2>2. IsPush(calls[t], Run(vm, 0), calls'[t])
    BY <1>1, <2>1, PushStep
  <2>3. calls[t] \in Seq(Activation) /\ Height(t) = Len(calls[t]) /\ Len(calls[t]) \in Nat
    BY AtThread
  <2>4. /\ Len(calls'[t]) = Len(calls[t]) + 1 /\ calls'[t][Len(calls'[t])] = Run(vm, 0)
        /\ calls'[t][Len(calls[t])] = calls[t][Len(calls[t])]
    BY <1>1, <2>2, <2>3 DEF IsPush
  <2>5. QED
    BY <1>1, <2>1, <2>3, <2>4 DEF OnKernel, Top
<1> DEFINE stop == 0
           x == 1
<1>5. /\ stop \in Nat /\ x \in Nat /\ stop < x /\ frames' = [frames EXCEPT ![vm] = x]
      /\ calls' = Pushed(t, Run(vm, stop))
  BY <1>1
<1>6. \A n \in 1 .. Len(calls[t]) : calls[t][n].kind = "run" /\ calls[t][n].vm = vm =>
         (vm \notin strayed' => vm \notin strayed /\ frames[vm] <= stop)
  BY <1>3
<1>7. strayed' = strayed \/ strayed' = strayed \ {vm}
  BY <1>1
<1> HIDE DEF stop, x
<1>8. QED
  BY <1>1, <1>2, <1>4, <1>5, <1>6, <1>7, StartsFrames

LEMMA CodeCallsFrames ==
    ASSUME CallsInv, CallsInv', FramesInv, NEW t \in Thread, CodeCalls(t)
    PROVE  FramesInv'
<1> DEFINE vm == Top(t).vm
<1>1. SUFFICES ASSUME vm \in hasStack
               PROVE  FramesInv'
  BY DEF CodeCalls, FramesInv
<1>2. /\ status = "running" /\ Height(t) > 0 /\ UNCHANGED strayed
      /\ calls' = Pushed(t, Run(vm, frames[vm])) /\ frames' = [frames EXCEPT ![vm] = @ + 1]
  BY <1>1 DEF CodeCalls, Running, Stop
<1>3. /\ Height(t) = Len(calls[t]) /\ Height(t) \in 1 .. Len(calls[t])
      /\ Top(t) = calls[t][Height(t)]
  BY <1>2, FramesAt DEF Height, Top
<1>4. vm \in VM /\ vm[1] = t /\ frames \in [VM -> Nat] /\ vm = calls[t][Height(t)].vm
  BY <1>2, <1>3, FramesAt
<1> HIDE DEF vm
<1> DEFINE stop == frames[vm]
           x == frames[vm] + 1
<1>5. stop \in Nat /\ x \in Nat /\ stop < x /\ frames' = [frames EXCEPT ![vm] = x]
  BY <1>2, <1>4
<1>6. vm \in strayed \/ (stop = 0 => vm = Own(t))
  <2>1. SUFFICES ASSUME vm \notin strayed, vm # Own(t)
                 PROVE  stop # 0
    OBVIOUS
  <2>2. PICK m \in 1 .. Height(t) : OnKernel(calls[t], m) /\ calls[t][m].vm = vm
    BY <1>3, <1>4, <2>1, AtThread DEF ThreadInv, Homes
  <2>3. /\ m \in 1 .. Len(calls[t]) /\ calls[t][m].kind = "run" /\ calls[t][m].stop \in Nat
        /\ FramedRun(t, calls[t], m, frames, strayed)
    BY <1>2, <1>3, <2>2, FramesAt DEF OnKernel, Framed
  <2>4. calls[t][m].stop < frames[vm]
    BY <2>1, <2>2, <2>3 DEF FramedRun, FramedAt
  <2>5. QED
    BY <1>4, <2>3, <2>4
<1>7. calls' = Pushed(t, Run(vm, stop)) /\ frames[vm] <= stop
  BY <1>2, <1>4
<1> HIDE DEF stop, x
<1>8. QED
  BY <1>2, <1>4, <1>5, <1>6, <1>7, StartsFrames

LEMMA StepKeepsFramesInv ==
    ASSUME CallsInv, CallsInv', FramesInv, [KCNext]_vars
    PROVE  FramesInv'
<1>1. CASE Interpret
  BY <1>1, InterpretFrames
<1>2. CASE DispatchParallel
  BY <1>2, ThreadAssumption, QuietStepsFrames
<1>3. ASSUME NEW t \in Thread, Step(t)
      PROVE  FramesInv'
  BY <1>3, ErrorsFrames, QuietStepsFrames, RunCallsFrames, RunReturnsFrames, RunEndsFrames,
     NextInterpretedFrames, CodeCallsFrames DEF Step
<1>4. CASE UNCHANGED vars
  BY <1>4 DEF vars, FramesInv
<1>5. QED
  BY <1>1, <1>2, <1>3, <1>4 DEF KCNext

LEMMA StepKeepsStacksInv ==
    ASSUME CallsInv, StacksInv, [KCNext]_vars
    PROVE  StacksInv'
<1>1. kernelDepth \in [Thread -> 0 .. KernelNest] /\ KernelNest \in Nat
  BY NestAssumption DEF CallsInv, KCTypeOK
<1>2. ASSUME hasStack \subseteq hasStack', \A u \in Thread : kernelDepth'[u] <= kernelDepth[u],
             \A u \in Thread : kernelDepth'[u] \in Nat
      PROVE  StacksInv'
  BY <1>1, <1>2 DEF StacksInv
<1>3. ASSUME NEW t \in Thread, NextInterpreted(t)
      PROVE  StacksInv'
  <2>1. /\ kernelDepth' = [kernelDepth EXCEPT ![t] = @ + 1]
        /\ hasStack' = hasStack \cup {KernelVM(t, kernelDepth[t] + 1)}
    BY <1>3 DEF NextInterpreted
  <2>2. ASSUME NEW u \in Thread, NEW d \in 1 .. kernelDepth'[u]
        PROVE  KernelVM(u, d) \in hasStack'
    <3>1. d \in 1 .. kernelDepth[u] \/ (u = t /\ d = kernelDepth[t] + 1)
      BY <1>1, <2>1
    <3>2. QED
      BY <2>1, <3>1 DEF StacksInv
  <2>3. QED
    BY <2>1, <2>2 DEF StacksInv
<1>4. ASSUME NEW t \in Thread, RunError(t) \/ DispatchTooLarge(t) \/ KernelEnds(t)
      PROVE  StacksInv'
  <2>1. /\ hasStack \subseteq hasStack'
        /\ \/ kernelDepth' = [kernelDepth EXCEPT ![t] = Released(@)]
           \/ kernelDepth' = kernelDepth
    BY <1>4 DEF RunError, DispatchTooLarge, KernelEnds, RunFails, Reset
  <2>2. \A u \in Thread : kernelDepth'[u] <= kernelDepth[u] /\ kernelDepth'[u] \in Nat
    BY <1>1, <2>1 DEF Released
  <2>3. QED
    BY <1>2, <2>1, <2>2
<1>5. ASSUME hasStack \subseteq hasStack', UNCHANGED kernelDepth
      PROVE  StacksInv'
  BY <1>1, <1>2, <1>5
<1>6. ASSUME NEW t \in Thread, Step(t), ~NextInterpreted(t), ~RunError(t), ~DispatchTooLarge(t),
             ~KernelEnds(t)
      PROVE  hasStack \subseteq hasStack' /\ UNCHANGED kernelDepth
  <2>1. CASE CodeError(t) \/ BufferNativeError(t) \/ CodeCallFails(t)
    BY <2>1 DEF CodeError, BufferNativeError, CodeCallFails, MarkJobFailed, Reset, locals, vmState
  <2>2. CASE RunCalls(t) \/ CallsCode(t) \/ CodeCalls(t) \/ CodeReturns(t) \/ RunReturns(t)
             \/ RunEnds(t)
    BY <2>2 DEF RunCalls, CallsCode, CodeCalls, CodeReturns, RunReturns, RunEnds, locals, vmState
  <2>3. CASE DispatchSerial(t) \/ Join(t) \/ Claim(t) \/ NextCompiled(t) \/ NoKernelVM(t)
             \/ RangeEnds(t) \/ Leave(t)
    BY <2>3 DEF DispatchSerial, Join, Claim, NextCompiled, NoKernelVM, RangeEnds, Leave, locals,
                vmState
  <2>4. QED
    BY <1>6, <2>1, <2>2, <2>3 DEF Step
<1>7. CASE Interpret \/ DispatchParallel \/ UNCHANGED vars
  BY <1>5, <1>7 DEF Interpret, DispatchParallel, vars, locals, vmState
<1>8. QED
  BY <1>3, <1>4, <1>5, <1>6, <1>7 DEF KCNext

LEMMA StepKeepsStraysWrong ==
    ASSUME WrongInv, CallsInv', FramesInv', [KCNext]_vars
    PROVE  OnlyStraysGoWrong'
<1> USE DEF WrongInv
<1>1. CASE UNCHANGED vars
  BY <1>1 DEF vars, OnlyStraysGoWrong, Top, Height
<1>2. ASSUME status' = status, status = "running"
      PROVE  OnlyStraysGoWrong'
  BY <1>2 DEF OnlyStraysGoWrong
<1>3. ASSUME NEW t \in Thread, BufferNativeError(t)
      PROVE  OnlyStraysGoWrong'
  <2>1. /\ status = "running" /\ Height(t) > 0 /\ UNCHANGED calls /\ Reset(Main)
        /\ status' = IF Top(t).kind = "run" /\ Top(t).vm = Main THEN "undefined" ELSE status
    BY <1>3 DEF BufferNativeError, Executing, Running
  <2>2. ASSUME Top(t).kind = "run", Top(t).vm = Main
        PROVE  Main \in strayed'
    <3>1. calls[t] \in Seq(Activation) /\ Height(t) = Len(calls[t]) /\ Height(t) \in Nat
      BY AtThread
    <3>2. Height(t) \in DOMAIN calls'[t] /\ calls'[t][Height(t)] = Top(t)
      BY <2>1, <3>1 DEF Top
    <3>3. StillUsed(Main)
      BY <2>2, <3>2 DEF StillUsed
    <3>4. QED
      BY <2>1, <3>3 DEF Reset
  <2>3. CASE Top(t).kind = "run" /\ Top(t).vm = Main
    BY <2>2, <2>3 DEF OnlyStraysGoWrong
  <2>4. CASE ~(Top(t).kind = "run" /\ Top(t).vm = Main)
    BY <1>2, <2>1, <2>4
  <2>5. QED
    BY <2>3, <2>4
<1>4. ASSUME NEW t \in Thread, RunReturns(t)
      PROVE  OnlyStraysGoWrong'
  BY <1>2, <1>4, RunReturnsFrames DEF OnlyStraysGoWrong, RunReturns, Running
<1>5. ASSUME NEW t \in Thread, CodeCalls(t)
      PROVE  OnlyStraysGoWrong'
  <2> DEFINE vm == Top(t).vm
  <2>1. CASE vm \in hasStack
    BY <1>2, <1>5, <2>1 DEF CodeCalls, Running
  <2>2. CASE vm \notin hasStack
    <3>1. /\ status = "running" /\ Height(t) > 0 /\ Top(t).kind = "code"
          /\ UNCHANGED calls /\ UNCHANGED hasStack
      BY <1>5, <2>2 DEF CodeCalls, Running
    <3>2. /\ calls[t] \in Seq(Activation) /\ Height(t) = Len(calls[t]) /\ Height(t) \in Nat
          /\ Top(t) = calls[t][Height(t)] /\ Top(t) \in Activation
          /\ Homes(t, calls[t]) /\ Levels(t, calls[t], kernelDepth[t])
      BY <3>1, AtThread DEF ThreadInv
    <3>3. \A m \in 1 .. Height(t) : OnKernel(calls[t], m) => calls[t][m].vm \in hasStack
      <4>1. SUFFICES ASSUME NEW m \in 1 .. Height(t), OnKernel(calls[t], m)
                     PROVE  calls[t][m].vm \in hasStack
        OBVIOUS
      <4>2. PICK d \in 1 .. kernelDepth[t] : calls[t][m].vm = KernelVM(t, d)
        BY <3>2, <4>1 DEF Levels
      <4>3. QED
        BY <4>2 DEF StacksInv
    <3>4. vm = Own(t)
      <4>1. Height(t) \in 1 .. Len(calls[t]) /\ vm = calls[t][Height(t)].vm
        BY <3>1, <3>2
      <4>2. vm = Own(t) \/ \E m \in 1 .. Height(t) :
                             OnKernel(calls[t], m) /\ calls[t][m].vm = vm
        BY <3>2, <4>1 DEF Homes
      <4>3. QED
        BY <2>2, <3>3, <4>2
    <3>5. t # Host
      BY <2>2, <3>4 DEF StacksInv, Main
    <3>6. Top(t) = Code(Own(t))
      BY <3>1, <3>2, <3>4 DEF Activation, Code
    <3>7. calls[t] # <<>> /\ Own(t) \notin hasStack
      BY <2>2, <3>1, <3>2, <3>4
    <3>8. Top(t)' = Top(t) /\ calls'[t] = calls[t] /\ hasStack' = hasStack
      BY <3>1 DEF Top, Height
    <3>9. QED
      BY <3>5, <3>6, <3>7, <3>8 DEF OnlyStraysGoWrong
  <2>3. QED
    BY <2>1, <2>2
<1>6. ASSUME NEW t \in Thread, Step(t), ~BufferNativeError(t), ~RunReturns(t), ~CodeCalls(t)
      PROVE  status' = status /\ status = "running"
  <2>1. CASE RunError(t) \/ DispatchTooLarge(t) \/ CodeError(t) \/ CodeCallFails(t)
    BY <2>1 DEF RunError, DispatchTooLarge, CodeError, CodeCallFails, RunFails, Running
  <2>2. CASE RunCalls(t) \/ CallsCode(t) \/ CodeReturns(t) \/ RunEnds(t) \/ KernelEnds(t)
    BY <2>2 DEF RunCalls, CallsCode, CodeReturns, RunEnds, KernelEnds, Running, Executing
  <2>3. CASE DispatchSerial(t) \/ Join(t) \/ Claim(t) \/ NextCompiled(t) \/ NextInterpreted(t)
             \/ NoKernelVM(t) \/ RangeEnds(t) \/ Leave(t)
    BY <2>3 DEF DispatchSerial, Join, Claim, NextCompiled, NextInterpreted, NoKernelVM, RangeEnds,
                Leave, Running
  <2>4. QED
    BY <1>6, <2>1, <2>2, <2>3 DEF Step
<1>7. CASE Interpret \/ DispatchParallel
  BY <1>2, <1>7 DEF Interpret, DispatchParallel, Running
<1>8. QED
  BY <1>1, <1>2, <1>3, <1>4, <1>5, <1>6, <1>7 DEF KCNext

LEMMA WrongInvariance == KCSpec => []WrongInv
<1>1. KCInit => WrongInv
  <2>1. SUFFICES ASSUME KCInit
                 PROVE  WrongInv
    OBVIOUS
  <2>2. CallsInv
    BY <2>1, InitCallsInv
  <2>3. \A t \in Thread : Len(calls[t]) = 0 /\ kernelDepth[t] = 0
    BY <2>1 DEF KCInit
  <2>4. FramesInv
    BY <2>1, <2>3 DEF KCInit, FramesInv, Framed
  <2>5. StacksInv /\ OnlyStraysGoWrong
    BY <2>1, <2>3 DEF KCInit, StacksInv, OnlyStraysGoWrong
  <2>6. QED
    BY <2>2, <2>4, <2>5 DEF WrongInv
<1>2. WrongInv /\ [KCNext]_vars => WrongInv'
  <2>1. SUFFICES ASSUME WrongInv, [KCNext]_vars
                 PROVE  WrongInv'
    OBVIOUS
  <2>2. CallsInv' /\ StacksInv'
    BY <2>1, StepKeepsCallsInv, StepKeepsStacksInv DEF WrongInv
  <2>3. FramesInv'
    BY <2>1, <2>2, StepKeepsFramesInv DEF WrongInv
  <2>4. OnlyStraysGoWrong'
    BY <2>1, <2>2, <2>3, StepKeepsStraysWrong
  <2>5. QED
    BY <2>2, <2>3, <2>4 DEF WrongInv
<1>3. QED
  BY <1>1, <1>2, PTL DEF KCSpec

-----------------------------------------------------------------------------
(* 6. What follows *)

\* The activations and the thread-local variables of acquireKernelVM and
\* runKernelRange keep their types: no kernel runs deeper than there are VMs.
THEOREM KernelDepthBounded == KCSpec => []KCTypeOK
<1>1. CallsInv => KCTypeOK
  BY DEF CallsInv
<1>2. QED
  BY <1>1, CallsInvariance, PTL

\* tl_currentVM names the VM of the code that runs, after every callback,
\* dispatch, return and error.
THEOREM CurrentVMIsOwn == KCSpec => []ErrorsOnOwnVM
<1>1. CallsInv => ErrorsOnOwnVM
  <2>1. SUFFICES ASSUME CallsInv, NEW t \in Thread, calls[t] # <<>>, Top(t).kind # "range"
                 PROVE  currentVM[t] = Top(t).vm
    BY DEF ErrorsOnOwnVM
  <2>2. /\ calls[t] \in Seq(Activation) /\ Top(t) = calls[t][Len(calls[t])]
        /\ Current(t, calls[t], currentVM[t])
    BY <2>1, AtThread DEF ThreadInv, Top, Height
  <2>3. Len(calls[t]) # 0
    BY <2>1, <2>2
  <2>4. QED
    BY <2>1, <2>2, <2>3 DEF Current
<1>2. QED
  BY <1>1, CallsInvariance, PTL

\* tl_currentJob names the job of the innermost dispatch under way, and none
\* outside dispatches.
THEOREM CurrentJobIsInnermost == KCSpec => []ErrorsFailOwnJob
<1>1. CallsInv => ErrorsFailOwnJob
  <2>1. ASSUME CallsInv, NEW t \in Thread
        PROVE  InForce(calls[t], Height(t), currentJob[t])
    BY <2>1, AtThread DEF ThreadInv, Jobs
  <2>2. QED
    BY <2>1 DEF ErrorsFailOwnJob, InForce, Dispatching
<1>2. QED
  BY <1>1, CallsInvariance, PTL

\* Nested interpreted kernels run on VMs of their own, one for each depth that
\* acquireKernelVM has counted.
THEOREM KernelsHaveOwnVMs == KCSpec => []KernelVMsNest
<1>1. CallsInv => KernelVMsNest
  <2>1. SUFFICES ASSUME CallsInv, NEW t \in Thread
                 PROVE  /\ \A n \in 1 .. Height(t) : OnKernelVM(t, n) =>
                              \E d \in 1 .. kernelDepth[t] : calls[t][n].vm = KernelVM(t, d)
                        /\ \A m, n \in 1 .. Height(t) :
                              OnKernelVM(t, m) /\ OnKernelVM(t, n) /\ m # n
                                 => calls[t][m].vm # calls[t][n].vm
                        /\ \A d \in 1 .. kernelDepth[t] : \E n \in 1 .. Height(t) :
                              OnKernelVM(t, n) /\ calls[t][n].vm = KernelVM(t, d)
    BY DEF KernelVMsNest
  <2>2. /\ Levels(t, calls[t], kernelDepth[t]) /\ Height(t) = Len(calls[t])
        /\ kernelDepth[t] \in Nat
    BY <2>1, AtThread, NestAssumption DEF ThreadInv
  <2>3. \A n : OnKernelVM(t, n) <=> OnKernel(calls[t], n)
    BY DEF OnKernelVM, OnKernel, Dispatching
  <2>4. ASSUME NEW m \in 1 .. Height(t), NEW n \in 1 .. Height(t),
               OnKernelVM(t, m), OnKernelVM(t, n), m < n
        PROVE  calls[t][m].vm # calls[t][n].vm
    <3>1. calls[t][m].vm[2] < calls[t][n].vm[2]
      BY <2>2, <2>3, <2>4 DEF Levels
    <3>2. PICK d \in 1 .. kernelDepth[t] : calls[t][n].vm = KernelVM(t, d)
      BY <2>2, <2>3, <2>4 DEF Levels
    <3>3. calls[t][n].vm[2] = d
      BY <3>2 DEF KernelVM
    <3>4. QED
      BY <3>1, <3>3
  <2>5. ASSUME NEW m \in 1 .. Height(t), NEW n \in 1 .. Height(t),
               OnKernelVM(t, m), OnKernelVM(t, n), m # n
        PROVE  calls[t][m].vm # calls[t][n].vm
    <3>1. m < n \/ n < m
      BY <2>2, <2>5
    <3>2. QED
      BY <2>4, <2>5, <3>1
  <2>6. QED
    BY <2>2, <2>3, <2>5 DEF Levels
<1>2. QED
  BY <1>1, CallsInvariance, PTL

\* Interpreters that share a VM which was not reset under them stop at frames of
\* their own, in the order in which they started.
THEOREM InterpretersNest == KCSpec => []FramesNest
<1>1. WrongInv => FramesNest
  <2>1. SUFFICES ASSUME WrongInv, NEW t \in Thread, NEW n \in 1 .. Height(t),
                        status = "running", calls[t][n].kind = "run",
                        calls[t][n].vm \notin strayed
                 PROVE  /\ calls[t][n].stop < frames[calls[t][n].vm]
                        /\ calls[t][n].stop = 0 => calls[t][n].vm = Own(t) \/ OnKernelVM(t, n)
                        /\ \A m \in 1 .. n - 1 :
                              calls[t][m].kind = "run" /\ calls[t][m].vm = calls[t][n].vm
                                 => calls[t][m].stop < calls[t][n].stop
    BY DEF FramesNest
  <2>2. FramedAt(t, calls[t], n, frames)
    BY <2>1, AtThread DEF WrongInv, FramesInv, Framed, FramedRun
  <2>3. OnKernelVM(t, n) <=> OnKernel(calls[t], n)
    BY DEF OnKernelVM, OnKernel, Dispatching
  <2>4. QED
    BY <2>1, <2>2, <2>3 DEF FramedAt
<1>2. QED
  BY <1>1, WrongInvariance, PTL

\* The C++ program goes wrong only on a VM that an error reset under code that
\* still ran on it, or when a compiled kernel on a worker calls a function that
\* is interpreted: without an error inside a callback, and with every function
\* that kernels call compiled, it does not.
THEOREM WrongOnlyAfterReset == KCSpec => []OnlyStraysGoWrong
<1>1. WrongInv => OnlyStraysGoWrong
  BY DEF WrongInv
<1>2. QED
  BY <1>1, WrongInvariance, PTL
=============================================================================
