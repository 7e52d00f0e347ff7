------------------------- MODULE VirtualMachineProofs -------------------------
(***************************************************************************)
(* Proofs about the virtual machine: its two engines (NativeCode, which    *)
(* extends StackVM) and the hash table of its globals (SymbolTable).       *)
(*                                                                         *)
(* Sections 1 to 17, for any sessions of planned code, any number of       *)
(* frames and any native functions. Until machine code strays from what    *)
(* the interpreter would do, the frames lie one above the other, each at   *)
(* the height that the plan of its code says; the activations of the       *)
(* interpreter and of machine code share those frames out among them; the  *)
(* list of open upvalues goes down the stack and names slots of frames in  *)
(* use; and every reference has an object. Each move keeps the frames and  *)
(* activations (sections 4 and 5), each write keeps memory (6 to 9), so    *)
(* each instruction keeps the invariant, in the interpreter (7 to 12) and  *)
(* in machine code (14 to 16).                                             *)
(*                                                                         *)
(* The sections after that, for any names, values, threads, hashes and     *)
(* number of cells: probes end, cells have one owner, cached cells stay    *)
(* those of their names, and the hash table implements GlobalMap.          *)
(***************************************************************************)
EXTENDS NativeCode, SymbolTable, NumberLemmas, SequenceTheorems, FiniteSetTheorems


-----------------------------------------------------------------------------
(* 1. Sequences *)

\* Memory is a sequence of whatever values there are.
Sequence(s) == \E S : s \in Seq(S)

\* s with x in it.
LEMMA SequenceFacts ==
    ASSUME NEW s, Sequence(s)
    PROVE  Len(s) \in Nat /\ DOMAIN s = 1 .. Len(s)
<1>1. PICK S : s \in Seq(S)
  BY DEF Sequence
<1>2. QED
  BY <1>1, LenProperties

LEMMA EmptyFacts == Sequence(<<>>) /\ Len(<<>>) = 0
<1>1. <<>> \in Seq({})
  OBVIOUS
<1>2. QED
  BY <1>1 DEF Sequence

LEMMA AppendFacts ==
    ASSUME NEW s, Sequence(s), NEW x
    PROVE  /\ Sequence(Append(s, x)) /\ Len(Append(s, x)) = Len(s) + 1
           /\ Append(s, x)[Len(s) + 1] = x
           /\ \A i \in 1 .. Len(s) : Append(s, x)[i] = s[i]
<1>1. PICK S : s \in Seq(S)
  BY DEF Sequence
<1> DEFINE T == S \cup {x}
<1>2. s \in Seq(T) /\ x \in T
  BY <1>1, SeqMonotonic
<1> HIDE DEF T
<1>3. Append(s, x) \in Seq(T)
  BY <1>2, AppendProperties
<1>4. QED
  BY <1>2, <1>3, AppendProperties DEF Sequence

LEMMA ExceptFacts ==
    ASSUME NEW s, Sequence(s), NEW i \in 1 .. Len(s), NEW x
    PROVE  /\ Sequence([s EXCEPT ![i] = x]) /\ Len([s EXCEPT ![i] = x]) = Len(s)
           /\ [s EXCEPT ![i] = x][i] = x
           /\ \A j \in 1 .. Len(s) : j # i => [s EXCEPT ![i] = x][j] = s[j]
<1>1. PICK S : s \in Seq(S)
  BY DEF Sequence
<1> DEFINE T == S \cup {x}
<1>2. s \in Seq(T) /\ x \in T
  BY <1>1, SeqMonotonic
<1> HIDE DEF T
<1>3. QED
  BY <1>2, ExceptSeq, LenProperties DEF Sequence

LEMMA ConcatFacts ==
    ASSUME NEW s, Sequence(s), NEW t, Sequence(t)
    PROVE  /\ Sequence(s \o t) /\ Len(s \o t) = Len(s) + Len(t)
           /\ \A i \in 1 .. Len(s) : (s \o t)[i] = s[i]
           /\ \A i \in 1 .. Len(t) : (s \o t)[Len(s) + i] = t[i]
<1>1. PICK S : s \in Seq(S)
  BY DEF Sequence
<1>2. PICK T : t \in Seq(T)
  BY DEF Sequence
<1> DEFINE U == S \cup T
<1>3. s \in Seq(U) /\ t \in Seq(U)
  BY <1>1, <1>2, SeqMonotonic
<1> HIDE DEF U
<1>4. Len(s) \in Nat /\ Len(t) \in Nat
  BY SequenceFacts
<1>5. QED
  BY <1>3, <1>4, ConcatProperties DEF Sequence

LEMMA SubSeqFacts ==
    ASSUME NEW s, Sequence(s), NEW m \in Nat, NEW n \in Nat, 1 <= m, m <= n + 1, n <= Len(s)
    PROVE  /\ Sequence(SubSeq(s, m, n)) /\ Len(SubSeq(s, m, n)) = n - m + 1
           /\ \A i \in 1 .. n - m + 1 : SubSeq(s, m, n)[i] = s[m + i - 1]
<1>1. PICK S : s \in Seq(S)
  BY DEF Sequence
<1>2. Len(s) \in Nat /\ \A i \in m .. n : i \in 1 .. Len(s)
  BY <1>1
<1>3. \A i \in m .. n : s[i] \in S
  BY <1>1, <1>2
<1>4. /\ SubSeq(s, m, n) \in Seq(S) /\ Len(SubSeq(s, m, n)) = IF m <= n THEN n - m + 1 ELSE 0
      /\ \A i \in 1 .. n - m + 1 : SubSeq(s, m, n)[i] = s[m + i - 1]
  BY <1>3, SubSeqProperties
<1>5. (IF m <= n THEN n - m + 1 ELSE 0) = n - m + 1
  OBVIOUS
<1>6. QED
  BY <1>4, <1>5 DEF Sequence

LEMMA SingleFacts ==
    ASSUME NEW x
    PROVE  Sequence(<<x>>) /\ Len(<<x>>) = 1 /\ <<x>>[1] = x
<1>1. <<x>> \in Seq({x})
  OBVIOUS
<1>2. QED
  BY <1>1 DEF Sequence

\* A function on an interval from 1 is a sequence.
LEMMA FunctionFacts ==
    ASSUME NEW s, NEW n \in Nat, s = [i \in 1 .. n |-> s[i]]
    PROVE  Sequence(s) /\ Len(s) = n
<1> DEFINE S == {s[i] : i \in 1 .. n}
<1>1. s \in [1 .. n -> S]
  OBVIOUS
<1>2. s \in Seq(S)
  BY <1>1, SeqDef
<1>3. Len(s) \in Nat /\ DOMAIN s = 1 .. Len(s) /\ DOMAIN s = 1 .. n
  BY <1>1, <1>2, LenProperties
<1>4. n = Len(s)
  <2>1. ~(n < Len(s)) /\ ~(Len(s) < n)
    <3>1. (n + 1 \in 1 .. n <=> n + 1 \in 1 .. Len(s)) /\ (Len(s) + 1 \in 1 .. n <=> Len(s) + 1 \in 1 .. Len(s))
      BY <1>3
    <3>2. QED
      BY <1>3, <3>1
  <2>2. QED
    BY <1>3, <2>1
<1>5. QED
  BY <1>2, <1>4 DEF Sequence

\* Writing to memory, at most one place above it.
LEMMA PutFacts ==
    ASSUME NEW s, Sequence(s), NEW i \in 1 .. Len(s) + 1, NEW x
    PROVE  /\ Sequence(Put(s, i, x)) /\ Len(Put(s, i, x)) >= Len(s) /\ Len(Put(s, i, x)) >= i
           /\ Put(s, i, x)[i] = x /\ Len(Put(s, i, x)) \in Nat
           /\ \A j \in 1 .. Len(s) : j # i => Put(s, i, x)[j] = s[j]
           /\ \A j \in 1 .. Len(Put(s, i, x)) : j = i \/ j \in 1 .. Len(s)
<1>0. Len(s) \in Nat
  BY SequenceFacts
<1>1. CASE i > Len(s)
  BY <1>0, <1>1, AppendFacts DEF Put
<1>2. CASE i <= Len(s)
  <2>1. i \in 1 .. Len(s) /\ ~(i > Len(s))
    BY <1>0, <1>2
  <2>2. QED
    BY <1>0, <2>1, ExceptFacts DEF Put
<1>3. QED
  BY <1>0, <1>1, <1>2

-----------------------------------------------------------------------------
(* 2. The inductive invariant *)

\* A value that h, a heap, gives a meaning to; and memory full of such values.
Good(h, v) ==
    /\ v[1] = "obj" => v[2] \in 1 .. Len(h)
    /\ v[1] = "native" => v[2] \in NativeNames
Filled(h, mem) == Sequence(mem) /\ \A i \in 1 .. Len(mem) : Good(h, mem[i])

\* Objects: a closure is of a planned function and has all its upvalues.
IsClosureObject(p, h, us, o) ==
    /\ o.kind = "closure"
    /\ o = [kind |-> "closure", values |-> <<>>, fn |-> o.fn, upvalues |-> o.upvalues]
    /\ o.fn \in DOMAIN p
    /\ Sequence(o.upvalues) /\ Len(o.upvalues) = Len(o.fn.upvalues)
    /\ \A n \in 1 .. Len(o.upvalues) : o.upvalues[n] \in 1 .. Len(us)
IsArrayObject(h, o) ==
    /\ o.kind = "array" /\ o = [kind |-> "array", values |-> o.values, upvalues |-> <<>>]
    /\ Filled(h, o.values)
Objects(p, h, us) ==
    Sequence(h) /\ \A i \in 1 .. Len(h) : IsClosureObject(p, h, us, h[i]) \/ IsArrayObject(h, h[i])

\* Upvalues: each is closed, or stands for a slot that there is memory for.
Upvals(h, us, size) ==
    /\ Sequence(us)
    /\ \A u \in 1 .. Len(us) :
          /\ us[u] = [at |-> us[u].at, closed |-> us[u].closed]
          /\ us[u].at \in 0 .. size /\ Good(h, us[u].closed)

\* The list of the open ones goes down the stack and leaves none out but those
\* that an error forgot.
Listing(us, open, lost) ==
    /\ Sequence(open)
    /\ \A n \in 1 .. Len(open) : open[n] \in 1 .. Len(us) /\ us[open[n]].at > 0
    /\ \A m, n \in 1 .. Len(open) : m < n => us[open[m]].at > us[open[n]].at
    /\ \A u \in 1 .. Len(us) : us[u].at > 0 => u \in lost \/ \E n \in 1 .. Len(open) : open[n] = u

NamesGood(h, g) == \A x \in DOMAIN g : Good(h, g[x])

Data(p, h, us, mem, g) ==
    Objects(p, h, us) /\ Upvals(h, us, Len(mem)) /\ Filled(h, mem) /\ NamesGood(h, g)

\* A planned instruction of a closure, and what the plan says of it.
Located(p, h, c, ip) == c \in 1 .. Len(h) /\ h[c].kind = "closure" /\ h[c].fn \in DOMAIN p /\ ip \in DOMAIN p[h[c].fn]
HeightAt(p, h, c, ip) == p[h[c].fn][ip].height
CapturedAt(p, h, c, ip) == p[h[c].fn][ip].captured

\* How high the stack is when a frame goes on.
Ceiling(p, h, f) == f.slots + HeightAt(p, h, f.closure, f.ip) - 1

\* A frame that waits for a result, which no closure can have captured.
Waits(p, h, f) == HeightAt(p, h, f.closure, f.ip) - 1 \notin CapturedAt(p, h, f.closure, f.ip)

\* The frames in use lie one above the other.
IsFrame(p, h, f) ==
    /\ f = [closure |-> f.closure, ip |-> f.ip, slots |-> f.slots]
    /\ Located(p, h, f.closure, f.ip) /\ f.slots \in Nat \ {0}
Stacked(p, h, fs, count) ==
    /\ Sequence(fs) /\ count \in 0 .. FramesMax /\ count <= Len(fs)
    /\ \A i \in 1 .. count : IsFrame(p, h, fs[i])
    /\ \A i, j \in 1 .. count : i < j => Ceiling(p, h, fs[i]) <= fs[j].slots
    /\ \A i \in 1 .. count - 1 : Waits(p, h, fs[i])

\* An activation of run has frames of its own, above the one it stops at; each
\* gives its stack back to the one below, and all of them to what called run.
IsRun(p, h, fs, count, a, k) ==
    /\ a.kind = "run"
    /\ a = [kind |-> "run", frame |-> a.frame, stop |-> a.stop, saved |-> a.saved]
    /\ a.stop \in Nat /\ a.frame \in Nat /\ a.saved \in Nat
    /\ a.stop < a.frame /\ a.frame <= count
    /\ fs[a.stop + 1].slots = a.saved + 1
    /\ \A i \in a.stop + 1 .. a.frame - 1 : fs[i + 1].slots = Ceiling(p, h, fs[i])
    /\ IF k = 1 THEN a.stop = 0 /\ a.saved = 0
                ELSE a.stop > 0 /\ a.saved >= Ceiling(p, h, fs[a.stop])

\* Machine code, with as many operands as planned; one is missing while a call
\* is under way.
IsNative(p, h, a, missing) ==
    /\ a.kind = "native"
    /\ a = [kind |-> "native", closure |-> a.closure, ip |-> a.ip, slots |-> a.slots, mem |-> a.mem]
    /\ Located(p, h, a.closure, a.ip) /\ Filled(h, a.mem) /\ Len(a.mem) >= 1
    /\ a.mem[1][2] = a.closure /\ a.slots \in Nat
    /\ Len(a.mem) + missing = HeightAt(p, h, a.closure, a.ip)

\* What stands on what: machine code on an interpreter that has stepped on, and
\* called code on machine code.
IsRunAct(a) == a.kind = "run"
Activations(p, h, fs, count, chain) ==
    \A k \in 1 .. Len(chain) :
       \/ IsRun(p, h, fs, count, chain[k], k)
       \/ k > 1 /\ IsNative(p, h, chain[k], IF k < Len(chain) THEN 1 ELSE 0)
Links(p, h, fs, chain) ==
    \A k \in 2 .. Len(chain) :
       IF IsRunAct(chain[k]) THEN ~IsRunAct(chain[k - 1])
       ELSE IF IsRunAct(chain[k - 1]) THEN chain[k].slots = Ceiling(p, h, fs[chain[k - 1].frame])
            ELSE chain[k].slots = 0

\* Each interpreter has the frames above those of the one before; the last one
\* has the innermost.
Levels(chain) ==
    \A j, k \in 1 .. Len(chain) : j < k /\ IsRunAct(chain[j]) /\ IsRunAct(chain[k]) =>
       /\ chain[j].frame <= chain[k].stop
       /\ chain[j].frame = chain[k].stop \/ \E m \in j + 1 .. k - 1 : IsRunAct(chain[m])
Reaches(chain, count) ==
    \A k \in 1 .. Len(chain) : IsRunAct(chain[k]) =>
       chain[k].frame = count \/ \E m \in k + 1 .. Len(chain) : IsRunAct(chain[m])

Acting(p, h, fs, count, chain) ==
    /\ Sequence(chain) /\ Len(chain) >= 1
    /\ Activations(p, h, fs, count, chain) /\ Links(p, h, fs, chain)
    /\ Levels(chain) /\ Reaches(chain, count)

\* The stack is as high as the innermost frame wants it, or higher while machine
\* code runs above that frame.
Innermost(chain) == chain[Len(chain)]
Topped(p, h, fs, count, chain, height) ==
    /\ height \in Nat /\ height >= Ceiling(p, h, fs[count])
    /\ IF IsRunAct(Innermost(chain)) THEN height = Ceiling(p, h, fs[count]) ELSE Waits(p, h, fs[count])

Control(p, h, fs, count, chain, height) ==
    Stacked(p, h, fs, count) /\ Acting(p, h, fs, count, chain) /\ Topped(p, h, fs, count, chain, height)

\* Slots of open upvalues are ones that the plan says are captured.
SlotsPlanned(p, h, fs, count, us, open) ==
    \A n \in 1 .. Len(open) : \E i \in 1 .. count :
        us[open[n]].at - fs[i].slots \in CapturedAt(p, h, fs[i].closure, fs[i].ip)

InputInv == session \in Sessions /\ taken \in 0 .. Len(session.code) /\ strayed \in BOOLEAN
Idle == status = "idle" /\ acts = <<>> /\ top = 0 /\ frameCount = 0 /\ Sequence(frames)
Running == status = "running" /\ Control(session.plan, heap, frames, frameCount, acts, top)
DataInv == Data(session.plan, heap, upvalues, stack, globals)
ListInv ==
    /\ Listing(upvalues, openUpvalues, forgotten)
    /\ SlotsPlanned(session.plan, heap, frames, frameCount, upvalues, openUpvalues)
VMInv == (Idle \/ Running) /\ top <= Len(stack) /\ DataInv /\ ListInv
IInv == InputInv /\ (~strayed => VMInv)

-----------------------------------------------------------------------------
(* 3. Plans, and heaps that grow *)

PlansKept(p) == \A fn \in DOMAIN p : Planned(fn, p)

LEMMA SessionPlans ==
    ASSUME NEW s \in Sessions
    PROVE  PlansKept(s.plan) /\ Len(s.code) \in Nat
BY SessionsAssumption DEF PlansKept

\* Every planned instruction keeps the plan, and slot 0 is always there.
LEMMA PlannedFacts ==
    ASSUME NEW p, PlansKept(p), NEW h, NEW c, NEW ip, Located(p, h, c, ip)
    PROVE  /\ KeepsPlan(h[c].fn, ip, p)
           /\ HeightAt(p, h, c, ip) \in Nat \ {0}
           /\ CapturedAt(p, h, c, ip) \subseteq 0 .. HeightAt(p, h, c, ip) - 1
           /\ ip \in Nat /\ Takes(h[c].fn.code[ip]) \in Nat
<1> DEFINE ins == h[c].fn.code[ip]
<1>1. KeepsPlan(h[c].fn, ip, p)
  BY DEF PlansKept, Planned, Located
<1>2. ins[1] \in {"CALL", "BUILD_ARRAY"} => ins[2] \in Nat
  BY <1>1 DEF KeepsPlan, OperandsFit
<1>3. Takes(ins) \in Nat
  BY <1>2 DEF Takes
<1>4. /\ HeightAt(p, h, c, ip) \in Nat /\ Takes(ins) < HeightAt(p, h, c, ip) /\ ip \in Nat
      /\ CapturedAt(p, h, c, ip) \subseteq 0 .. HeightAt(p, h, c, ip) - 1
  BY <1>1 DEF KeepsPlan, HeightAt, CapturedAt
<1> HIDE DEF ins
<1>5. HeightAt(p, h, c, ip) \in Nat \ {0}
  BY <1>3, <1>4
<1>6. QED
  BY <1>1, <1>3, <1>4, <1>5 DEF ins

\* The instruction after is planned too.
LEMMA NextPlanned ==
    ASSUME NEW p, PlansKept(p), NEW h, NEW c, NEW ip, Located(p, h, c, ip),
           NEW m \in Nexts(ip, h[c].fn.code[ip])
    PROVE  /\ Located(p, h, c, m)
           /\ HeightAt(p, h, c, m) = HeightAt(p, h, c, ip) - Takes(h[c].fn.code[ip])
                                        + Leaves(h[c].fn.code[ip])
           /\ CapturedAfter(h[c].fn.code[ip], HeightAt(p, h, c, ip), CapturedAt(p, h, c, ip))
                 \subseteq CapturedAt(p, h, c, m)
           /\ h[c].fn.code[ip][1] = "CALL" => HeightAt(p, h, c, m) - 1 \notin CapturedAt(p, h, c, m)
<1> DEFINE fn == h[c].fn
           ins == fn.code[ip]
<1>1. KeepsPlan(fn, ip, p) /\ Located(p, h, c, ip)
  BY PlannedFacts
<1>2. /\ m \in DOMAIN p[fn]
      /\ p[fn][m].height = p[fn][ip].height - Takes(ins) + Leaves(ins)
      /\ CapturedAfter(ins, p[fn][ip].height, p[fn][ip].captured) \subseteq p[fn][m].captured
      /\ ins[1] = "CALL" => p[fn][m].height - 1 \notin p[fn][m].captured
  BY <1>1 DEF KeepsPlan
<1>3. QED
  BY <1>1, <1>2 DEF Located, HeightAt, CapturedAt

\* A function that is called starts where its plan does.
LEMMA StartPlanned ==
    ASSUME NEW p, PlansKept(p), NEW h, NEW c \in 1 .. Len(h), h[c].kind = "closure", h[c].fn \in DOMAIN p
    PROVE  /\ Located(p, h, c, 1) /\ HeightAt(p, h, c, 1) = h[c].fn.arity + 1
           /\ h[c].fn.arity \in Nat /\ Len(h[c].fn.upvalues) \in Nat
BY DEF PlansKept, Planned, Located, HeightAt

\* k is h after objects were made, or got other values.
Grows(h, k) ==
    /\ Len(h) \in Nat /\ Len(k) \in Nat /\ Len(h) <= Len(k)
    /\ \A i \in 1 .. Len(h) : k[i].kind = h[i].kind /\ (h[i].kind = "closure" => k[i].fn = h[i].fn)

LEMMA SameGrows == ASSUME NEW h, Sequence(h) PROVE Grows(h, h)
BY SequenceFacts DEF Grows

LEMMA FilledGrows ==
    ASSUME NEW h, NEW k, Grows(h, k)
    PROVE  /\ \A v : Good(h, v) => Good(k, v)
           /\ \A mem : Filled(h, mem) => Filled(k, mem)
           /\ \A us, size : Upvals(h, us, size) => Upvals(k, us, size)
           /\ \A g : NamesGood(h, g) => NamesGood(k, g)
<1>1. 1 .. Len(h) \subseteq 1 .. Len(k)
  BY DEF Grows
<1>2. \A v : Good(h, v) => Good(k, v)
  BY <1>1 DEF Good
<1>3. QED
  BY <1>2 DEF Filled, Upvals, NamesGood

LEMMA LocatedGrows ==
    ASSUME NEW p, NEW h, NEW k, Grows(h, k), NEW c, NEW ip, Located(p, h, c, ip)
    PROVE  /\ Located(p, k, c, ip) /\ HeightAt(p, k, c, ip) = HeightAt(p, h, c, ip)
           /\ CapturedAt(p, k, c, ip) = CapturedAt(p, h, c, ip)
BY DEF Grows, Located, HeightAt, CapturedAt

LEMMA FrameGrows ==
    ASSUME NEW p, NEW h, NEW k, Grows(h, k), NEW f, IsFrame(p, h, f)
    PROVE  /\ IsFrame(p, k, f) /\ Ceiling(p, k, f) = Ceiling(p, h, f)
           /\ Waits(p, h, f) => Waits(p, k, f)
BY LocatedGrows DEF IsFrame, Ceiling, Waits

\* Numbers that a frame stands for.
LEMMA FrameFacts ==
    ASSUME NEW p, PlansKept(p), NEW h, NEW f, IsFrame(p, h, f)
    PROVE  /\ Ceiling(p, h, f) \in Nat \ {0} /\ Ceiling(p, h, f) >= f.slots /\ f.slots \in Nat \ {0}
           /\ HeightAt(p, h, f.closure, f.ip) \in Nat \ {0}
           /\ Ceiling(p, h, f) = f.slots + HeightAt(p, h, f.closure, f.ip) - 1
           /\ CapturedAt(p, h, f.closure, f.ip) \subseteq 0 .. HeightAt(p, h, f.closure, f.ip) - 1
           /\ f.ip \in Nat
<1>1. Located(p, h, f.closure, f.ip) /\ f.slots \in Nat \ {0}
  BY DEF IsFrame
<1>2. /\ HeightAt(p, h, f.closure, f.ip) \in Nat \ {0} /\ f.ip \in Nat
      /\ CapturedAt(p, h, f.closure, f.ip) \subseteq 0 .. HeightAt(p, h, f.closure, f.ip) - 1
  BY <1>1, PlannedFacts
<1>3. QED
  BY <1>1, <1>2 DEF Ceiling

LEMMA StackedGrows ==
    ASSUME NEW p, NEW h, NEW k, Grows(h, k), NEW fs, NEW count, Stacked(p, h, fs, count)
    PROVE  /\ Stacked(p, k, fs, count)
           /\ \A i \in 1 .. count : /\ Ceiling(p, k, fs[i]) = Ceiling(p, h, fs[i])
                                    /\ Waits(p, h, fs[i]) => Waits(p, k, fs[i])
<1>1. \A i \in 1 .. count : /\ IsFrame(p, k, fs[i]) /\ Ceiling(p, k, fs[i]) = Ceiling(p, h, fs[i])
                            /\ Waits(p, h, fs[i]) => Waits(p, k, fs[i])
  BY FrameGrows DEF Stacked
<1>2. \A i \in 1 .. count - 1 : Waits(p, k, fs[i])
  BY <1>1 DEF Stacked
<1>3. QED
  BY <1>1, <1>2 DEF Stacked

LEMMA NativeGrows ==
    ASSUME NEW p, NEW h, NEW k, Grows(h, k), NEW a, NEW missing, IsNative(p, h, a, missing)
    PROVE  IsNative(p, k, a, missing)
<1>1. Filled(k, a.mem)
  BY FilledGrows DEF IsNative
<1>2. Located(p, k, a.closure, a.ip) /\ HeightAt(p, k, a.closure, a.ip) = HeightAt(p, h, a.closure, a.ip)
  BY LocatedGrows DEF IsNative
<1>3. QED
  BY <1>1, <1>2 DEF IsNative

LEMMA RunGrows ==
    ASSUME NEW p, NEW h, NEW k, Grows(h, k), NEW fs, NEW count, Stacked(p, h, fs, count),
           NEW a, NEW n, IsRun(p, h, fs, count, a, n)
    PROVE  IsRun(p, k, fs, count, a, n)
<1>1. \A i \in 1 .. count : Ceiling(p, k, fs[i]) = Ceiling(p, h, fs[i])
  BY StackedGrows
<1>2. a.stop \in Nat /\ a.frame \in Nat /\ a.frame <= count /\ a.stop < a.frame /\ count \in Nat
  BY DEF IsRun, Stacked
<1>3. \A i \in a.stop + 1 .. a.frame - 1 : fs[i + 1].slots = Ceiling(p, k, fs[i])
  BY <1>1, <1>2 DEF IsRun
<1>4. n # 1 => a.saved >= Ceiling(p, k, fs[a.stop])
  BY <1>1, <1>2 DEF IsRun
<1>5. QED
  BY <1>3, <1>4 DEF IsRun

LEMMA ControlGrows ==
    ASSUME NEW p, NEW h, NEW k, Grows(h, k), NEW fs, NEW count, NEW chain, NEW t,
           Control(p, h, fs, count, chain, t), count >= 1
    PROVE  Control(p, k, fs, count, chain, t)
<1>0. count \in Nat /\ count \in 1 .. count
  BY FramesAssumption DEF Control, Stacked
<1>1. Stacked(p, k, fs, count)
  BY StackedGrows DEF Control
<1>2. \A i \in 1 .. count : /\ Ceiling(p, k, fs[i]) = Ceiling(p, h, fs[i])
                            /\ Waits(p, h, fs[i]) => Waits(p, k, fs[i])
  BY StackedGrows DEF Control
<1>3. ASSUME NEW n \in 1 .. Len(chain)
      PROVE  \/ IsRun(p, k, fs, count, chain[n], n)
             \/ n > 1 /\ IsNative(p, k, chain[n], IF n < Len(chain) THEN 1 ELSE 0)
  BY NativeGrows, RunGrows DEF Control, Acting, Activations, Links
<1>4. ASSUME NEW n \in 2 .. Len(chain), ~IsRunAct(chain[n]), IsRunAct(chain[n - 1])
      PROVE  chain[n].slots = Ceiling(p, k, fs[chain[n - 1].frame])
  <2>0. Len(chain) \in Nat
    BY SequenceFacts DEF Control, Acting, Activations, Links
  <2>1. n - 1 \in 1 .. Len(chain)
    BY <2>0
  <2>2. IsRun(p, h, fs, count, chain[n - 1], n - 1)
    BY <2>1, <1>4 DEF Control, Acting, Activations, IsNative, IsRunAct
  <2>3. chain[n - 1].frame \in 1 .. count
    BY <2>2, <1>0 DEF IsRun
  <2>4. chain[n].slots = Ceiling(p, h, fs[chain[n - 1].frame])
    BY <1>4 DEF Control, Acting, Activations, Links
  <2>5. QED
    BY <2>3, <2>4, <1>2
<1>5. Acting(p, k, fs, count, chain)
  BY <1>3, <1>4 DEF Control, Acting, Activations, Links
<1>6. Topped(p, k, fs, count, chain, t)
  BY <1>0, <1>2 DEF Control, Topped
<1>7. QED
  BY <1>1, <1>5, <1>6 DEF Control

LEMMA SlotsPlannedGrows ==
    ASSUME NEW p, NEW h, NEW k, Grows(h, k), NEW fs, NEW count, Stacked(p, h, fs, count),
           NEW us, NEW open, SlotsPlanned(p, h, fs, count, us, open)
    PROVE  SlotsPlanned(p, k, fs, count, us, open)
<1>1. ASSUME NEW i \in 1 .. count
      PROVE  CapturedAt(p, k, fs[i].closure, fs[i].ip) = CapturedAt(p, h, fs[i].closure, fs[i].ip)
  <2>1. Located(p, h, fs[i].closure, fs[i].ip)
    BY DEF Stacked, IsFrame
  <2>2. QED
    BY <2>1, LocatedGrows
<1>2. QED
  BY <1>1 DEF SlotsPlanned

-----------------------------------------------------------------------------
(* 4. Activations: what each move makes of them *)

LEMMA ActivationKinds ==
    ASSUME NEW p, NEW h, NEW fs, NEW count, NEW chain, Acting(p, h, fs, count, chain)
    PROVE  /\ Len(chain) \in Nat /\ Len(chain) >= 1
           /\ IsRun(p, h, fs, count, chain[1], 1)
           /\ \A k \in 1 .. Len(chain) :
                 /\ IsRunAct(chain[k]) => IsRun(p, h, fs, count, chain[k], k)
                 /\ ~IsRunAct(chain[k]) =>
                       k > 1 /\ IsNative(p, h, chain[k], IF k < Len(chain) THEN 1 ELSE 0)
<1>1. Len(chain) \in Nat /\ Len(chain) >= 1 /\ 1 \in 1 .. Len(chain)
  BY SequenceFacts DEF Acting
<1>2. \A k \in 1 .. Len(chain) :
                 /\ IsRunAct(chain[k]) => IsRun(p, h, fs, count, chain[k], k)
                 /\ ~IsRunAct(chain[k]) =>
                       k > 1 /\ IsNative(p, h, chain[k], IF k < Len(chain) THEN 1 ELSE 0)
  BY DEF Acting, Activations, IsRun, IsNative, IsRunAct
<1>3. IsRun(p, h, fs, count, chain[1], 1)
  BY <1>1, <1>2
<1>4. QED
  BY <1>1, <1>2, <1>3

\* While the interpreter runs it is at the innermost frame, at its height.
LEMMA InnermostRun ==
    ASSUME NEW p, NEW h, NEW fs, NEW count, NEW chain, NEW t,
           Control(p, h, fs, count, chain, t), IsRunAct(Innermost(chain))
    PROVE  /\ count \in Nat /\ count >= 1 /\ count <= FramesMax /\ IsFrame(p, h, fs[count])
           /\ IsRun(p, h, fs, count, Innermost(chain), Len(chain))
           /\ Innermost(chain).frame = count /\ t = Ceiling(p, h, fs[count])
           /\ \A k \in 1 .. Len(chain) - 1 : IsRunAct(chain[k]) =>
                 IsRun(p, h, fs, count, chain[k], k) /\ chain[k].frame < count
<1>0. Acting(p, h, fs, count, chain) /\ count \in 0 .. FramesMax /\ FramesMax \in Nat
  BY FramesAssumption DEF Control, Stacked
<1>1. Len(chain) \in Nat /\ Len(chain) >= 1
  BY <1>0, ActivationKinds
<1>2. Len(chain) \in 1 .. Len(chain) /\ IsRun(p, h, fs, count, chain[Len(chain)], Len(chain))
  BY <1>0, <1>1, ActivationKinds DEF Innermost
<1>3. chain[Len(chain)].frame = count
  BY <1>0, <1>1, <1>2 DEF Acting, Reaches, Innermost
<1>4. count >= 1
  BY <1>0, <1>2, <1>3 DEF IsRun
<1>5. ASSUME NEW k \in 1 .. Len(chain) - 1, IsRunAct(chain[k])
      PROVE  IsRun(p, h, fs, count, chain[k], k) /\ chain[k].frame < count
  <2>1. k \in 1 .. Len(chain) /\ k < Len(chain)
    BY <1>1
  <2>2. IsRun(p, h, fs, count, chain[k], k)
    BY <1>0, <2>1, <1>5, ActivationKinds
  <2>3. chain[k].frame <= chain[Len(chain)].stop
    BY <1>0, <1>2, <2>1, <1>5 DEF Acting, Levels, Innermost
  <2>4. QED
    BY <2>2, <2>3, <1>2, <1>3 DEF IsRun
<1>6. IsFrame(p, h, fs[count])
  BY <1>0, <1>4 DEF Control, Stacked
<1>7. t = Ceiling(p, h, fs[count])
  BY DEF Control, Topped
<1>8. QED
  BY <1>0, <1>2, <1>3, <1>4, <1>5, <1>6, <1>7 DEF Innermost

\* While machine code runs, the innermost frame waits below it.
LEMMA InnermostNative ==
    ASSUME NEW p, NEW h, NEW fs, NEW count, NEW chain, NEW t,
           Control(p, h, fs, count, chain, t), ~IsRunAct(Innermost(chain))
    PROVE  /\ count \in Nat /\ count >= 1 /\ count <= FramesMax /\ IsFrame(p, h, fs[count])
           /\ Len(chain) \in Nat /\ Len(chain) > 1 /\ IsNative(p, h, Innermost(chain), 0)
           /\ t \in Nat /\ t >= Ceiling(p, h, fs[count]) /\ Waits(p, h, fs[count])
<1>0. Acting(p, h, fs, count, chain) /\ count \in 0 .. FramesMax /\ FramesMax \in Nat
  BY FramesAssumption DEF Control, Stacked
<1>1. Len(chain) \in Nat /\ Len(chain) >= 1 /\ IsRun(p, h, fs, count, chain[1], 1)
  BY <1>0, ActivationKinds
<1>2. Len(chain) \in 1 .. Len(chain)
  BY <1>1
<1>3. Len(chain) > 1 /\ IsNative(p, h, chain[Len(chain)], 0)
  BY <1>0, <1>2, ActivationKinds DEF Innermost
<1>4. count >= 1
  BY <1>0, <1>1 DEF IsRun
<1>5. IsFrame(p, h, fs[count])
  BY <1>0, <1>4 DEF Control, Stacked
<1>6. t \in Nat /\ t >= Ceiling(p, h, fs[count]) /\ Waits(p, h, fs[count])
  BY DEF Control, Topped
<1>7. QED
  BY <1>0, <1>1, <1>3, <1>4, <1>5, <1>6 DEF Innermost

\* The activations of run are the same in d as in c up to m.
SameRuns(c, d, m) ==
    \A k \in 1 .. m : /\ IsRunAct(d[k]) <=> IsRunAct(c[k])
                      /\ IsRunAct(c[k]) => d[k] = c[k]

LEMMA PushNativeLevels ==
    ASSUME NEW c, NEW d, NEW count, Len(c) \in Nat, Len(d) = Len(c) + 1, SameRuns(c, d, Len(c)),
           ~IsRunAct(d[Len(d)]), Levels(c), Reaches(c, count)
    PROVE  Levels(d) /\ Reaches(d, count)
<1>1. \A k \in 1 .. Len(d) : IsRunAct(d[k]) => k \in 1 .. Len(c) /\ IsRunAct(c[k]) /\ d[k] = c[k]
  BY DEF SameRuns
<1>2. \A k \in 1 .. Len(c) : IsRunAct(c[k]) => IsRunAct(d[k])
  BY DEF SameRuns
<1>3. Levels(d)
  <2> SUFFICES ASSUME NEW j \in 1 .. Len(d), NEW k \in 1 .. Len(d), j < k, IsRunAct(d[j]), IsRunAct(d[k])
               PROVE  /\ d[j].frame <= d[k].stop
                      /\ d[j].frame = d[k].stop \/ \E m \in j + 1 .. k - 1 : IsRunAct(d[m])
    BY DEF Levels
  <2>1. j \in 1 .. Len(c) /\ k \in 1 .. Len(c) /\ d[j] = c[j] /\ d[k] = c[k] /\ IsRunAct(c[j]) /\ IsRunAct(c[k])
    BY <1>1
  <2>2. c[j].frame <= c[k].stop /\ (c[j].frame = c[k].stop \/ \E m \in j + 1 .. k - 1 : IsRunAct(c[m]))
    BY <2>1 DEF Levels
  <2>3. \A m \in j + 1 .. k - 1 : m \in 1 .. Len(c)
    BY <2>1
  <2>4. QED
    BY <2>1, <2>2, <2>3, <1>2
<1>4. Reaches(d, count)
  <2> SUFFICES ASSUME NEW k \in 1 .. Len(d), IsRunAct(d[k])
               PROVE  d[k].frame = count \/ \E m \in k + 1 .. Len(d) : IsRunAct(d[m])
    BY DEF Reaches
  <2>1. k \in 1 .. Len(c) /\ d[k] = c[k] /\ IsRunAct(c[k])
    BY <1>1
  <2>2. c[k].frame = count \/ \E m \in k + 1 .. Len(c) : IsRunAct(c[m])
    BY <2>1 DEF Reaches
  <2>3. \A m \in k + 1 .. Len(c) : m \in 1 .. Len(c) /\ m \in k + 1 .. Len(d)
    BY <2>1
  <2>4. QED
    BY <2>1, <2>2, <2>3, <1>2
<1>5. QED
  BY <1>3, <1>4

LEMMA PushRunLevels ==
    ASSUME NEW c, NEW d, NEW count \in Nat, Len(c) \in Nat, Len(d) = Len(c) + 1, SameRuns(c, d, Len(c)),
           IsRunAct(d[Len(d)]), d[Len(d)].stop = count, d[Len(d)].frame = count + 1,
           Levels(c), Reaches(c, count), \A k \in 1 .. Len(c) : IsRunAct(c[k]) => c[k].frame <= count
    PROVE  Levels(d) /\ Reaches(d, count + 1)
<1>1. \A k \in 1 .. Len(d) : k < Len(d) /\ IsRunAct(d[k]) => k \in 1 .. Len(c) /\ IsRunAct(c[k]) /\ d[k] = c[k]
  BY DEF SameRuns
<1>2. \A k \in 1 .. Len(c) : IsRunAct(c[k]) => IsRunAct(d[k])
  BY DEF SameRuns
<1>3. Levels(d)
  <2> SUFFICES ASSUME NEW j \in 1 .. Len(d), NEW k \in 1 .. Len(d), j < k, IsRunAct(d[j]), IsRunAct(d[k])
               PROVE  /\ d[j].frame <= d[k].stop
                      /\ d[j].frame = d[k].stop \/ \E m \in j + 1 .. k - 1 : IsRunAct(d[m])
    BY DEF Levels
  <2>1. j \in 1 .. Len(c) /\ d[j] = c[j] /\ IsRunAct(c[j]) /\ j < Len(d)
    BY <1>1
  <2>2. CASE k < Len(d)
    <3>1. k \in 1 .. Len(c) /\ d[k] = c[k] /\ IsRunAct(c[k])
      BY <2>2, <1>1
    <3>2. c[j].frame <= c[k].stop /\ (c[j].frame = c[k].stop \/ \E m \in j + 1 .. k - 1 : IsRunAct(c[m]))
      BY <2>1, <3>1 DEF Levels
    <3>3. \A m \in j + 1 .. k - 1 : m \in 1 .. Len(c)
      BY <2>1, <3>1
    <3>4. QED
      BY <2>1, <3>1, <3>2, <3>3, <1>2
  <2>3. CASE k = Len(d)
    <3>1. c[j].frame <= count /\ (c[j].frame = count \/ \E m \in j + 1 .. Len(c) : IsRunAct(c[m]))
      BY <2>1 DEF Reaches
    <3>2. \A m \in j + 1 .. Len(c) : m \in 1 .. Len(c) /\ m \in j + 1 .. k - 1
      BY <2>1, <2>3
    <3>3. QED
      BY <2>1, <2>3, <3>1, <3>2, <1>2
  <2>4. k < Len(d) \/ k = Len(d)
    OBVIOUS
  <2>5. QED
    BY <2>2, <2>3, <2>4
<1>4. Reaches(d, count + 1)
  <2> SUFFICES ASSUME NEW k \in 1 .. Len(d), k # Len(d)
               PROVE  \E m \in k + 1 .. Len(d) : IsRunAct(d[m])
    BY DEF Reaches
  <2>1. Len(d) \in k + 1 .. Len(d)
    OBVIOUS
  <2>2. QED
    BY <2>1
<1>5. QED
  BY <1>3, <1>4

\* The innermost activation is gone: its frames too, if it was of run.
LEMMA PopLevels ==
    ASSUME NEW c, NEW d, NEW count, Len(d) \in Nat, Len(c) = Len(d) + 1, SameRuns(c, d, Len(d)),
           Levels(c), Reaches(c, count)
    PROVE  /\ Levels(d)
           /\ ~IsRunAct(c[Len(c)]) => Reaches(d, count)
           /\ IsRunAct(c[Len(c)]) => Reaches(d, c[Len(c)].stop)
<1>1. \A k \in 1 .. Len(d) : k \in 1 .. Len(c) /\ (IsRunAct(d[k]) => IsRunAct(c[k]) /\ d[k] = c[k])
  BY DEF SameRuns
<1>2. \A k \in 1 .. Len(d) : IsRunAct(c[k]) => IsRunAct(d[k])
  BY DEF SameRuns
<1>3. Levels(d)
  <2> SUFFICES ASSUME NEW j \in 1 .. Len(d), NEW k \in 1 .. Len(d), j < k, IsRunAct(d[j]), IsRunAct(d[k])
               PROVE  /\ d[j].frame <= d[k].stop
                      /\ d[j].frame = d[k].stop \/ \E m \in j + 1 .. k - 1 : IsRunAct(d[m])
    BY DEF Levels
  <2>1. j \in 1 .. Len(c) /\ k \in 1 .. Len(c) /\ d[j] = c[j] /\ d[k] = c[k] /\ IsRunAct(c[j]) /\ IsRunAct(c[k])
    BY <1>1
  <2>2. c[j].frame <= c[k].stop /\ (c[j].frame = c[k].stop \/ \E m \in j + 1 .. k - 1 : IsRunAct(c[m]))
    BY <2>1 DEF Levels
  <2>3. \A m \in j + 1 .. k - 1 : m \in 1 .. Len(d)
    OBVIOUS
  <2>4. QED
    BY <2>1, <2>2, <2>3, <1>2
<1>4. ASSUME ~IsRunAct(c[Len(c)]) PROVE Reaches(d, count)
  <2> SUFFICES ASSUME NEW k \in 1 .. Len(d), IsRunAct(d[k])
               PROVE  d[k].frame = count \/ \E m \in k + 1 .. Len(d) : IsRunAct(d[m])
    BY DEF Reaches
  <2>1. k \in 1 .. Len(c) /\ d[k] = c[k] /\ IsRunAct(c[k])
    BY <1>1
  <2>2. c[k].frame = count \/ \E m \in k + 1 .. Len(c) : IsRunAct(c[m])
    BY <2>1 DEF Reaches
  <2>3. \A m \in k + 1 .. Len(c) : m # Len(c) => m \in 1 .. Len(d) /\ m \in k + 1 .. Len(d)
    OBVIOUS
  <2>4. QED
    BY <2>1, <2>2, <2>3, <1>2, <1>4
<1>5. ASSUME IsRunAct(c[Len(c)]) PROVE Reaches(d, c[Len(c)].stop)
  <2> SUFFICES ASSUME NEW k \in 1 .. Len(d), IsRunAct(d[k])
               PROVE  d[k].frame = c[Len(c)].stop \/ \E m \in k + 1 .. Len(d) : IsRunAct(d[m])
    BY DEF Reaches
  <2>1. k \in 1 .. Len(c) /\ d[k] = c[k] /\ IsRunAct(c[k]) /\ Len(c) \in 1 .. Len(c) /\ k < Len(c)
    BY <1>1
  <2>2. c[k].frame = c[Len(c)].stop \/ \E m \in k + 1 .. Len(c) - 1 : IsRunAct(c[m])
    BY <2>1, <1>5 DEF Levels
  <2>3. \A m \in k + 1 .. Len(c) - 1 : m \in 1 .. Len(d) /\ m \in k + 1 .. Len(d)
    OBVIOUS
  <2>4. QED
    BY <2>1, <2>2, <2>3, <1>2
<1>6. QED
  BY <1>3, <1>4, <1>5

\* The innermost activation of run has gone to another frame.
LEMMA MoveLevels ==
    ASSUME NEW c, NEW d, NEW count, Len(c) \in Nat, Len(c) >= 1, Len(d) = Len(c),
           SameRuns(c, d, Len(c) - 1), IsRunAct(c[Len(c)]), IsRunAct(d[Len(d)]),
           d[Len(d)].stop = c[Len(c)].stop, d[Len(d)].frame = count, Levels(c)
    PROVE  Levels(d) /\ Reaches(d, count)
<1>1. \A k \in 1 .. Len(d) : k < Len(d) => (IsRunAct(d[k]) => IsRunAct(c[k]) /\ d[k] = c[k])
  BY DEF SameRuns
<1>2. \A k \in 1 .. Len(c) : IsRunAct(c[k]) => IsRunAct(d[k])
  BY DEF SameRuns
<1>3. Levels(d)
  <2> SUFFICES ASSUME NEW j \in 1 .. Len(d), NEW k \in 1 .. Len(d), j < k, IsRunAct(d[j]), IsRunAct(d[k])
               PROVE  /\ d[j].frame <= d[k].stop
                      /\ d[j].frame = d[k].stop \/ \E m \in j + 1 .. k - 1 : IsRunAct(d[m])
    BY DEF Levels
  <2>1. j < Len(d) /\ d[j] = c[j] /\ IsRunAct(c[j]) /\ d[k].stop = c[k].stop /\ IsRunAct(c[k])
    BY <1>1
  <2>2. c[j].frame <= c[k].stop /\ (c[j].frame = c[k].stop \/ \E m \in j + 1 .. k - 1 : IsRunAct(c[m]))
    BY <2>1 DEF Levels
  <2>3. \A m \in j + 1 .. k - 1 : m \in 1 .. Len(c)
    OBVIOUS
  <2>4. QED
    BY <2>1, <2>2, <2>3, <1>2
<1>4. Reaches(d, count)
  <2> SUFFICES ASSUME NEW k \in 1 .. Len(d), k # Len(d)
               PROVE  \E m \in k + 1 .. Len(d) : IsRunAct(d[m])
    BY DEF Reaches
  <2>1. Len(d) \in k + 1 .. Len(d)
    OBVIOUS
  <2>2. QED
    BY <2>1
<1>5. QED
  BY <1>3, <1>4

\* Activations of run do not see frames above theirs change.
LEMMA RunAlike ==
    ASSUME NEW p, NEW h, NEW fs, NEW gs, NEW count, NEW total \in Nat, NEW a, NEW k,
           IsRun(p, h, fs, count, a, k), a.frame <= total,
           \A i \in 1 .. a.frame - 1 : gs[i] = fs[i], gs[a.frame].slots = fs[a.frame].slots
    PROVE  IsRun(p, h, gs, total, a, k)
<1>1. a.stop \in Nat /\ a.frame \in Nat /\ a.stop < a.frame
  BY DEF IsRun
<1>2. \A i \in 1 .. a.frame : gs[i].slots = fs[i].slots
  BY <1>1
<1>3. gs[a.stop + 1].slots = a.saved + 1
  BY <1>1, <1>2 DEF IsRun
<1>4. \A i \in a.stop + 1 .. a.frame - 1 : gs[i + 1].slots = Ceiling(p, h, gs[i])
  <2> SUFFICES ASSUME NEW i \in a.stop + 1 .. a.frame - 1
               PROVE  gs[i + 1].slots = Ceiling(p, h, gs[i])
    OBVIOUS
  <2>1. i \in 1 .. a.frame - 1 /\ i + 1 \in 1 .. a.frame
    BY <1>1
  <2>2. QED
    BY <2>1, <1>2 DEF IsRun
<1>5. k # 1 => a.stop \in 1 .. a.frame - 1 /\ gs[a.stop] = fs[a.stop]
  BY <1>1 DEF IsRun
<1>6. QED
  BY <1>3, <1>4, <1>5 DEF IsRun

-----------------------------------------------------------------------------
(* 5. The moves of the two engines *)

\* gs is fs with f as its frame n.
FrameAt(fs, gs, n, f) ==
    /\ Sequence(gs) /\ n <= Len(gs) /\ gs[n] = f
    /\ \A i \in 1 .. n - 1 : gs[i] = fs[i]

\* The frames, once the innermost one has gone on to instruction m.
SteppedFrame(f, m) == [closure |-> f.closure, ip |-> m, slots |-> f.slots]

LEMMA StackedStep ==
    ASSUME NEW p, PlansKept(p), NEW h, NEW fs, NEW gs, NEW n \in Nat, n >= 1, NEW f,
           Stacked(p, h, fs, n), FrameAt(fs, gs, n, f), IsFrame(p, h, f), f.slots = fs[n].slots
    PROVE  Stacked(p, h, gs, n)
<1>1. \A i \in 1 .. n : IsFrame(p, h, gs[i]) /\ gs[i].slots = fs[i].slots
  BY DEF Stacked, FrameAt
<1>2. \A i \in 1 .. n - 1 : gs[i] = fs[i]
  BY DEF FrameAt
<1>3. ASSUME NEW i \in 1 .. n, NEW j \in 1 .. n, i < j
      PROVE  Ceiling(p, h, gs[i]) <= gs[j].slots
  <2>1. i \in 1 .. n - 1
    BY <1>3
  <2>2. Ceiling(p, h, fs[i]) <= fs[j].slots
    BY <1>3 DEF Stacked
  <2>3. QED
    BY <2>1, <2>2, <1>1, <1>2
<1>4. QED
  BY <1>1, <1>2, <1>3 DEF Stacked, FrameAt

\* One more frame, on top of one that waits for it.
LEMMA StackedPush ==
    ASSUME NEW p, PlansKept(p), NEW h, NEW fs, NEW gs, NEW n \in Nat, NEW f,
           Stacked(p, h, fs, n), n < FramesMax, FrameAt(fs, gs, n + 1, f), IsFrame(p, h, f),
           n >= 1 => Waits(p, h, fs[n]) /\ Ceiling(p, h, fs[n]) <= f.slots
    PROVE  Stacked(p, h, gs, n + 1)
<1>0. FramesMax \in Nat
  BY FramesAssumption
<1>1. \A i \in 1 .. n : gs[i] = fs[i]
  BY DEF FrameAt
<1>2. \A i \in 1 .. n + 1 : i \in 1 .. n \/ i = n + 1
  OBVIOUS
<1>3. \A i \in 1 .. n + 1 : IsFrame(p, h, gs[i])
  BY <1>1, <1>2 DEF Stacked, FrameAt
<1>4. ASSUME NEW i \in 1 .. n
      PROVE  Ceiling(p, h, fs[i]) <= f.slots
  <2>1. CASE i = n
    BY <2>1
  <2>2. CASE i # n
    <3>1. n \in 1 .. n /\ i < n /\ n >= 1
      BY <2>2
    <3>2. Ceiling(p, h, fs[i]) <= fs[n].slots
      BY <3>1 DEF Stacked
    <3>3. fs[n].slots <= Ceiling(p, h, fs[n])
      BY <3>1, FrameFacts DEF Stacked
    <3>4. Ceiling(p, h, fs[i]) \in Nat /\ fs[n].slots \in Nat /\ Ceiling(p, h, fs[n]) \in Nat /\ f.slots \in Nat
      BY <3>1, FrameFacts DEF Stacked
    <3>5. QED
      BY <3>1, <3>2, <3>3, <3>4
  <2>3. QED
    BY <2>1, <2>2
<1>5. ASSUME NEW i \in 1 .. n + 1, NEW j \in 1 .. n + 1, i < j
      PROVE  Ceiling(p, h, gs[i]) <= gs[j].slots
  <2>1. i \in 1 .. n /\ gs[i] = fs[i]
    BY <1>1, <1>5
  <2>2. CASE j = n + 1
    BY <2>1, <2>2, <1>4 DEF FrameAt
  <2>3. CASE j \in 1 .. n
    BY <2>1, <2>3, <1>1, <1>5 DEF Stacked
  <2>4. QED
    BY <2>2, <2>3, <1>2
<1>6. ASSUME NEW i \in 1 .. n
      PROVE  Waits(p, h, gs[i])
  <2>1. CASE i = n
    BY <2>1, <1>1
  <2>2. CASE i # n
    <3>1. i \in 1 .. n - 1
      BY <2>2
    <3>2. QED
      BY <3>1, <1>1 DEF Stacked
  <2>3. QED
    BY <2>1, <2>2
<1>7. \A i \in 1 .. n + 1 - 1 : Waits(p, h, gs[i])
  BY <1>6
<1>8. n + 1 \in 0 .. FramesMax
  BY <1>0
<1>9. QED
  BY <1>3, <1>5, <1>7, <1>8 DEF Stacked, FrameAt

LEMMA StackedPop ==
    ASSUME NEW p, NEW h, NEW fs, NEW n \in Nat, n >= 1, Stacked(p, h, fs, n)
    PROVE  Stacked(p, h, fs, n - 1)
<1>1. 1 .. n - 1 \subseteq 1 .. n /\ 1 .. n - 1 - 1 \subseteq 1 .. n - 1
  OBVIOUS
<1>2. Len(fs) \in Nat
  BY SequenceFacts DEF Stacked
<1>3. QED
  BY <1>1, <1>2, FramesAssumption DEF Stacked

\* The interpreter goes on in its frame.
LEMMA StepMove ==
    ASSUME NEW p, PlansKept(p), NEW h, NEW fs, NEW gs, NEW n, NEW chain, NEW t, NEW f,
           Control(p, h, fs, n, chain, t), IsRunAct(Innermost(chain)),
           FrameAt(fs, gs, n, f), IsFrame(p, h, f), f.slots = fs[n].slots
    PROVE  Control(p, h, gs, n, chain, Ceiling(p, h, f))
<1>0. n \in Nat /\ n >= 1 /\ Innermost(chain).frame = n
  BY InnermostRun
<1>a. Acting(p, h, fs, n, chain) /\ Stacked(p, h, fs, n)
  BY DEF Control
<1>b. Len(chain) \in Nat /\ Len(chain) >= 1
  BY <1>a, ActivationKinds
<1>1. Stacked(p, h, gs, n)
  BY <1>0, <1>a, StackedStep
<1>2. \A i \in 1 .. n : gs[i].slots = fs[i].slots
  BY <1>0 DEF FrameAt
<1>3. \A i \in 1 .. n - 1 : gs[i] = fs[i]
  BY DEF FrameAt
<1>4. ASSUME NEW k \in 1 .. Len(chain), IsRunAct(chain[k])
      PROVE  /\ chain[k].frame \in 1 .. n /\ IsRun(p, h, gs, n, chain[k], k)
             /\ k # Len(chain) => chain[k].frame < n
  <2>1. IsRun(p, h, fs, n, chain[k], k)
    BY <1>4, <1>a, ActivationKinds
  <2>2. chain[k].frame \in Nat /\ chain[k].frame \in 1 .. n
    BY <2>1, <1>0 DEF IsRun
  <2>3. \A i \in 1 .. chain[k].frame - 1 : gs[i] = fs[i]
    BY <2>2, <1>3, <1>0
  <2>4. IsRun(p, h, gs, n, chain[k], k)
    BY <2>1, <2>2, <2>3, <1>2, <1>0, RunAlike
  <2>5. k # Len(chain) => chain[k].frame < n
    <3>1. k # Len(chain) => k \in 1 .. Len(chain) - 1
      BY <1>b
    <3>2. QED
      BY <3>1, <1>4, InnermostRun
  <2>6. QED
    BY <2>2, <2>4, <2>5
<1>5. Activations(p, h, gs, n, chain)
  BY <1>4, <1>a, ActivationKinds DEF Activations
<1>6. Links(p, h, gs, chain)
  <2> SUFFICES ASSUME NEW k \in 2 .. Len(chain), ~IsRunAct(chain[k]), IsRunAct(chain[k - 1])
               PROVE  chain[k].slots = Ceiling(p, h, gs[chain[k - 1].frame])
    BY <1>a DEF Acting, Links
  <2>1. k - 1 \in 1 .. Len(chain) /\ k - 1 # Len(chain)
    BY <1>b
  <2>2. chain[k - 1].frame \in 1 .. n /\ chain[k - 1].frame < n
    BY <2>1, <1>4
  <2>3. gs[chain[k - 1].frame] = fs[chain[k - 1].frame]
    BY <2>2, <1>3, <1>0
  <2>4. QED
    BY <2>3, <1>a DEF Acting, Links
<1>7. Acting(p, h, gs, n, chain)
  BY <1>5, <1>6, <1>a DEF Acting
<1>8. Topped(p, h, gs, n, chain, Ceiling(p, h, f))
  BY FrameFacts DEF Topped, FrameAt
<1>9. QED
  BY <1>1, <1>7, <1>8 DEF Control

\* d is c up to m - 1, with a as its m-th and last activation.
EndsWith(c, d, m, a) == Sequence(d) /\ Len(d) = m /\ d[m] = a /\ \A k \in 1 .. m - 1 : d[k] = c[k]

\* d is c with b instead of its last activation, and a on top.
Pushes2(c, d, b, a) ==
    /\ Sequence(d) /\ Len(d) = Len(c) + 1 /\ d[Len(c)] = b /\ d[Len(c) + 1] = a
    /\ \A k \in 1 .. Len(c) - 1 : d[k] = c[k]

\* Machine code goes on.
LEMMA NativeMove ==
    ASSUME NEW p, NEW h, NEW fs, NEW n, NEW chain, NEW d, NEW t, NEW b,
           Control(p, h, fs, n, chain, t), ~IsRunAct(Innermost(chain)),
           EndsWith(chain, d, Len(chain), b), IsNative(p, h, b, 0), b.slots = Innermost(chain).slots
    PROVE  Control(p, h, fs, n, d, t)
<1>a. Acting(p, h, fs, n, chain)
  BY DEF Control
<1>b. Len(chain) \in Nat /\ Len(chain) > 1 /\ IsNative(p, h, Innermost(chain), 0)
  BY InnermostNative
<1>c. ~IsRunAct(b) /\ ~IsRunAct(chain[Len(chain)])
  BY DEF IsNative, IsRunAct, Innermost
<1>1. \A k \in 1 .. Len(chain) : k # Len(chain) => d[k] = chain[k]
  BY <1>b DEF EndsWith
<1>2. Activations(p, h, fs, n, d)
  BY <1>1, <1>a, <1>b DEF EndsWith, Acting, Activations
<1>3. Links(p, h, fs, d)
  <2> SUFFICES ASSUME NEW k \in 2 .. Len(chain)
               PROVE  IF IsRunAct(d[k]) THEN ~IsRunAct(d[k - 1])
                      ELSE IF IsRunAct(d[k - 1]) THEN d[k].slots = Ceiling(p, h, fs[d[k - 1].frame])
                           ELSE d[k].slots = 0
    BY DEF Links, EndsWith
  <2>1. k - 1 \in 1 .. Len(chain) /\ k - 1 # Len(chain)
    BY <1>b
  <2>2. d[k - 1] = chain[k - 1]
    BY <2>1, <1>1
  <2>3. (IsRunAct(d[k]) <=> IsRunAct(chain[k])) /\ (~IsRunAct(d[k]) => d[k].slots = chain[k].slots)
    BY <1>1, <1>c DEF EndsWith, Innermost
  <2>4. IF IsRunAct(chain[k]) THEN ~IsRunAct(chain[k - 1])
        ELSE IF IsRunAct(chain[k - 1]) THEN chain[k].slots = Ceiling(p, h, fs[chain[k - 1].frame])
             ELSE chain[k].slots = 0
    BY <1>a DEF Acting, Links
  <2>5. QED
    BY <2>2, <2>3, <2>4
<1>4. Levels(d) /\ Reaches(d, n)
  <2>1. \A k \in 1 .. Len(d) : (IsRunAct(d[k]) <=> IsRunAct(chain[k])) /\ (IsRunAct(d[k]) => d[k] = chain[k])
    BY <1>1, <1>c DEF EndsWith
  <2>2. Len(d) = Len(chain) /\ Levels(chain) /\ Reaches(chain, n)
    BY <1>a DEF EndsWith, Acting
  <2>3. Levels(d)
    <3> SUFFICES ASSUME NEW j \in 1 .. Len(d), NEW k \in 1 .. Len(d), j < k, IsRunAct(d[j]), IsRunAct(d[k])
                 PROVE  /\ d[j].frame <= d[k].stop
                        /\ d[j].frame = d[k].stop \/ \E m \in j + 1 .. k - 1 : IsRunAct(d[m])
      BY DEF Levels
    <3>1. chain[j].frame <= chain[k].stop
             /\ (chain[j].frame = chain[k].stop \/ \E m \in j + 1 .. k - 1 : IsRunAct(chain[m]))
      BY <2>1, <2>2 DEF Levels
    <3>2. \A m \in j + 1 .. k - 1 : m \in 1 .. Len(d)
      BY <2>2, <1>b
    <3>3. QED
      BY <3>1, <3>2, <2>1
  <2>4. Reaches(d, n)
    <3> SUFFICES ASSUME NEW k \in 1 .. Len(d), IsRunAct(d[k])
                 PROVE  d[k].frame = n \/ \E m \in k + 1 .. Len(d) : IsRunAct(d[m])
      BY DEF Reaches
    <3>1. chain[k].frame = n \/ \E m \in k + 1 .. Len(chain) : IsRunAct(chain[m])
      BY <2>1, <2>2 DEF Reaches
    <3>2. \A m \in k + 1 .. Len(d) : m \in 1 .. Len(d)
      BY <2>2, <1>b
    <3>3. QED
      BY <3>1, <3>2, <2>1, <2>2
  <2>5. QED
    BY <2>3, <2>4
<1>5. Acting(p, h, fs, n, d)
  BY <1>2, <1>3, <1>4, <1>b DEF Acting, EndsWith
<1>6. Topped(p, h, fs, n, d, t)
  BY <1>c DEF Control, Topped, Innermost, EndsWith
<1>7. QED
  BY <1>5, <1>6 DEF Control

\* The interpreter calls machine code.
LEMMA PushNativeOnRun ==
    ASSUME NEW p, NEW h, NEW fs, NEW n, NEW chain, NEW d, NEW t, NEW u \in Nat, NEW b,
           Control(p, h, fs, n, chain, t), IsRunAct(Innermost(chain)), Waits(p, h, fs[n]),
           EndsWith(chain, d, Len(chain) + 1, b), IsNative(p, h, b, 0), b.slots = t, t <= u
    PROVE  Control(p, h, fs, n, d, u)
<1>a. Acting(p, h, fs, n, chain)
  BY DEF Control
<1>b. Len(chain) \in Nat /\ Len(chain) >= 1 /\ chain[Len(chain)].frame = n /\ t = Ceiling(p, h, fs[n])
  BY <1>a, ActivationKinds, InnermostRun DEF Innermost
<1>c. ~IsRunAct(b) /\ IsRunAct(chain[Len(chain)])
  BY DEF IsNative, IsRunAct, Innermost
<1>1. /\ \A k \in 1 .. Len(chain) : d[k] = chain[k]
      /\ d[Len(chain) + 1] = b /\ Len(d) = Len(chain) + 1 /\ Sequence(d)
  BY <1>b DEF EndsWith
<1>2. Activations(p, h, fs, n, d)
  <2> SUFFICES ASSUME NEW k \in 1 .. Len(d)
               PROVE  \/ IsRun(p, h, fs, n, d[k], k)
                      \/ k > 1 /\ IsNative(p, h, d[k], IF k < Len(d) THEN 1 ELSE 0)
    BY DEF Activations
  <2>1. CASE k = Len(d)
    BY <2>1, <1>1, <1>b
  <2>2. CASE k = Len(chain)
    BY <2>2, <1>1, <1>b, <1>c, <1>a, ActivationKinds
  <2>3. CASE k # Len(d) /\ k # Len(chain)
    <3>1. k \in 1 .. Len(chain) /\ k < Len(chain) /\ k < Len(d)
      BY <2>3, <1>1, <1>b
    <3>2. QED
      BY <3>1, <1>1, <1>a DEF Acting, Activations
  <2>4. QED
    BY <2>1, <2>2, <2>3
<1>3. Links(p, h, fs, d)
  <2> SUFFICES ASSUME NEW k \in 2 .. Len(d)
               PROVE  IF IsRunAct(d[k]) THEN ~IsRunAct(d[k - 1])
                      ELSE IF IsRunAct(d[k - 1]) THEN d[k].slots = Ceiling(p, h, fs[d[k - 1].frame])
                           ELSE d[k].slots = 0
    BY DEF Links
  <2>1. CASE k = Len(d)
    <3>1. k - 1 = Len(chain) /\ Len(chain) \in 1 .. Len(chain)
      BY <2>1, <1>1, <1>b
    <3>2. d[k - 1] = chain[Len(chain)] /\ d[k] = b
      BY <3>1, <2>1, <1>1
    <3>3. QED
      BY <3>2, <1>b, <1>c
  <2>2. CASE k # Len(d)
    <3>1. k \in 2 .. Len(chain) /\ k \in 1 .. Len(chain) /\ k - 1 \in 1 .. Len(chain)
      BY <2>2, <1>1, <1>b
    <3>2. d[k] = chain[k] /\ d[k - 1] = chain[k - 1]
      BY <3>1, <1>1
    <3>3. QED
      BY <3>1, <3>2, <1>a DEF Acting, Links
  <2>3. QED
    BY <2>1, <2>2
<1>4. Levels(d) /\ Reaches(d, n)
  BY <1>1, <1>a, <1>b, <1>c, PushNativeLevels DEF SameRuns, Acting
<1>5. Acting(p, h, fs, n, d)
  BY <1>1, <1>2, <1>3, <1>4, <1>b DEF Acting
<1>6. Topped(p, h, fs, n, d, u)
  BY <1>1, <1>b, <1>c DEF Topped, Innermost
<1>7. QED
  BY <1>5, <1>6 DEF Control

\* Machine code calls machine code, and waits for its answer.
LEMMA PushNativeOnNative ==
    ASSUME NEW p, NEW h, NEW fs, NEW n, NEW chain, NEW d, NEW t, NEW b, NEW a,
           Control(p, h, fs, n, chain, t), ~IsRunAct(Innermost(chain)), Pushes2(chain, d, b, a),
           IsNative(p, h, b, 1), b.slots = Innermost(chain).slots,
           IsNative(p, h, a, 0), a.slots = 0
    PROVE  Control(p, h, fs, n, d, t)
<1>a. Acting(p, h, fs, n, chain)
  BY DEF Control
<1>b. Len(chain) \in Nat /\ Len(chain) > 1 /\ Len(chain) \in 1 .. Len(chain)
  BY InnermostNative
<1>c. ~IsRunAct(a) /\ ~IsRunAct(b) /\ ~IsRunAct(chain[Len(chain)])
  BY DEF IsNative, IsRunAct, Innermost
<1>1. /\ \A k \in 1 .. Len(chain) : k # Len(chain) => d[k] = chain[k]
      /\ d[Len(chain)] = b /\ d[Len(chain) + 1] = a /\ Len(d) = Len(chain) + 1 /\ Sequence(d)
  BY <1>b DEF Pushes2
<1>2. Activations(p, h, fs, n, d)
  <2> SUFFICES ASSUME NEW k \in 1 .. Len(d)
               PROVE  \/ IsRun(p, h, fs, n, d[k], k)
                      \/ k > 1 /\ IsNative(p, h, d[k], IF k < Len(d) THEN 1 ELSE 0)
    BY DEF Activations
  <2>1. CASE k = Len(d)
    BY <2>1, <1>1, <1>b
  <2>2. CASE k = Len(chain)
    BY <2>2, <1>1, <1>b
  <2>3. CASE k # Len(d) /\ k # Len(chain)
    <3>1. k \in 1 .. Len(chain) /\ k < Len(chain) /\ k < Len(d)
      BY <2>3, <1>1, <1>b
    <3>2. QED
      BY <3>1, <1>1, <1>a DEF Acting, Activations
  <2>4. QED
    BY <2>1, <2>2, <2>3
<1>3. Links(p, h, fs, d)
  <2> SUFFICES ASSUME NEW k \in 2 .. Len(d)
               PROVE  IF IsRunAct(d[k]) THEN ~IsRunAct(d[k - 1])
                      ELSE IF IsRunAct(d[k - 1]) THEN d[k].slots = Ceiling(p, h, fs[d[k - 1].frame])
                           ELSE d[k].slots = 0
    BY DEF Links
  <2>1. CASE k = Len(d)
    <3>1. k - 1 = Len(chain)
      BY <2>1, <1>1, <1>b
    <3>2. d[k - 1] = b /\ d[k] = a
      BY <3>1, <2>1, <1>1
    <3>3. QED
      BY <3>2, <1>c
  <2>2. CASE k # Len(d)
    <3>1. k \in 2 .. Len(chain) /\ k \in 1 .. Len(chain) /\ k - 1 \in 1 .. Len(chain) /\ k - 1 # Len(chain)
      BY <2>2, <1>1, <1>b
    <3>2. d[k - 1] = chain[k - 1]
      BY <3>1, <1>1
    <3>3. (IsRunAct(d[k]) <=> IsRunAct(chain[k])) /\ d[k].slots = chain[k].slots
      BY <3>1, <1>1, <1>c DEF Innermost
    <3>4. IF IsRunAct(chain[k]) THEN ~IsRunAct(chain[k - 1])
          ELSE IF IsRunAct(chain[k - 1]) THEN chain[k].slots = Ceiling(p, h, fs[chain[k - 1].frame])
               ELSE chain[k].slots = 0
      BY <3>1, <1>a DEF Acting, Links
    <3>5. QED
      BY <3>2, <3>3, <3>4
  <2>3. QED
    BY <2>1, <2>2
<1>4. Levels(d) /\ Reaches(d, n)
  <2>1. SameRuns(chain, d, Len(chain))
    BY <1>1, <1>c DEF SameRuns
  <2>2. QED
    BY <2>1, <1>1, <1>a, <1>b, <1>c, PushNativeLevels DEF Acting
<1>5. Acting(p, h, fs, n, d)
  BY <1>1, <1>2, <1>3, <1>4, <1>b DEF Acting
<1>6. Topped(p, h, fs, n, d, t)
  BY <1>1, <1>b, <1>c DEF Control, Topped, Innermost
<1>7. QED
  BY <1>5, <1>6 DEF Control

\* Machine code calls the interpreter, which gets a frame above the stack.
LEMMA PushRunOnNative ==
    ASSUME NEW p, PlansKept(p), NEW h, NEW fs, NEW gs, NEW n, NEW chain, NEW d, NEW t, NEW b, NEW a, NEW f,
           Control(p, h, fs, n, chain, t), ~IsRunAct(Innermost(chain)), Pushes2(chain, d, b, a),
           IsNative(p, h, b, 1), b.slots = Innermost(chain).slots, n < FramesMax,
           a = [kind |-> "run", frame |-> n + 1, stop |-> n, saved |-> t],
           FrameAt(fs, gs, n + 1, f), IsFrame(p, h, f), f.slots = t + 1
    PROVE  Control(p, h, gs, n + 1, d, Ceiling(p, h, f))
<1>a. Acting(p, h, fs, n, chain) /\ Stacked(p, h, fs, n)
  BY DEF Control
<1>b. /\ Len(chain) \in Nat /\ Len(chain) > 1 /\ Len(chain) \in 1 .. Len(chain)
      /\ n \in Nat /\ n >= 1 /\ t \in Nat /\ t >= Ceiling(p, h, fs[n]) /\ Waits(p, h, fs[n])
      /\ Ceiling(p, h, fs[n]) \in Nat
  BY InnermostNative, FrameFacts
<1>c. IsRunAct(a) /\ ~IsRunAct(b) /\ ~IsRunAct(chain[Len(chain)])
  BY DEF IsNative, IsRunAct, Innermost
<1>1. /\ \A k \in 1 .. Len(chain) : k # Len(chain) => d[k] = chain[k]
      /\ d[Len(chain)] = b /\ d[Len(chain) + 1] = a /\ Len(d) = Len(chain) + 1 /\ Sequence(d)
  BY <1>b DEF Pushes2
<1>2. \A i \in 1 .. n : gs[i] = fs[i]
  BY <1>b DEF FrameAt
<1>3. Stacked(p, h, gs, n + 1)
  BY <1>a, <1>b, StackedPush
<1>4. IsRun(p, h, gs, n + 1, a, Len(d))
  <2>1. gs[n + 1].slots = t + 1 /\ gs[n] = fs[n]
    BY <1>2, <1>b DEF FrameAt
  <2>2. QED
    BY <2>1, <1>1, <1>b DEF IsRun
<1>5. ASSUME NEW k \in 1 .. Len(chain), IsRunAct(chain[k])
      PROVE  chain[k].frame <= n /\ chain[k].frame \in Nat \ {0} /\ IsRun(p, h, gs, n + 1, chain[k], k)
  <2>1. IsRun(p, h, fs, n, chain[k], k)
    BY <1>5, <1>a, ActivationKinds
  <2>2. chain[k].frame \in Nat \ {0} /\ chain[k].frame <= n
    BY <2>1 DEF IsRun
  <2>3. /\ \A i \in 1 .. chain[k].frame - 1 : gs[i] = fs[i]
        /\ gs[chain[k].frame].slots = fs[chain[k].frame].slots
    BY <2>2, <1>2, <1>b
  <2>4. QED
    BY <2>1, <2>2, <2>3, <1>b, RunAlike
<1>6. Activations(p, h, gs, n + 1, d)
  <2> SUFFICES ASSUME NEW k \in 1 .. Len(d)
               PROVE  \/ IsRun(p, h, gs, n + 1, d[k], k)
                      \/ k > 1 /\ IsNative(p, h, d[k], IF k < Len(d) THEN 1 ELSE 0)
    BY DEF Activations
  <2>1. CASE k = Len(d)
    BY <2>1, <1>1, <1>4
  <2>2. CASE k = Len(chain)
    BY <2>2, <1>1, <1>b
  <2>3. CASE k # Len(d) /\ k # Len(chain)
    <3>1. k \in 1 .. Len(chain) /\ k < Len(chain) /\ k < Len(d)
      BY <2>3, <1>1, <1>b
    <3>2. QED
      BY <3>1, <1>1, <1>5, <1>a, ActivationKinds
  <2>4. QED
    BY <2>1, <2>2, <2>3
<1>7. Links(p, h, gs, d)
  <2> SUFFICES ASSUME NEW k \in 2 .. Len(d)
               PROVE  IF IsRunAct(d[k]) THEN ~IsRunAct(d[k - 1])
                      ELSE IF IsRunAct(d[k - 1]) THEN d[k].slots = Ceiling(p, h, gs[d[k - 1].frame])
                           ELSE d[k].slots = 0
    BY DEF Links
  <2>1. CASE k = Len(d)
    <3>1. k - 1 = Len(chain)
      BY <2>1, <1>1, <1>b
    <3>2. d[k - 1] = b /\ d[k] = a
      BY <3>1, <2>1, <1>1
    <3>3. QED
      BY <3>2, <1>c
  <2>2. CASE k # Len(d)
    <3>1. k \in 2 .. Len(chain) /\ k \in 1 .. Len(chain) /\ k - 1 \in 1 .. Len(chain) /\ k - 1 # Len(chain)
      BY <2>2, <1>1, <1>b
    <3>2. d[k - 1] = chain[k - 1]
      BY <3>1, <1>1
    <3>3. (IsRunAct(d[k]) <=> IsRunAct(chain[k])) /\ (~IsRunAct(d[k]) => d[k].slots = chain[k].slots)
      BY <3>1, <1>1, <1>c DEF Innermost
    <3>4. IF IsRunAct(chain[k]) THEN ~IsRunAct(chain[k - 1])
          ELSE IF IsRunAct(chain[k - 1]) THEN chain[k].slots = Ceiling(p, h, fs[chain[k - 1].frame])
               ELSE chain[k].slots = 0
      BY <3>1, <1>a DEF Acting, Links
    <3>5. IsRunAct(chain[k - 1]) => gs[chain[k - 1].frame] = fs[chain[k - 1].frame]
      <4>1. ASSUME IsRunAct(chain[k - 1]) PROVE chain[k - 1].frame \in 1 .. n
        BY <3>1, <4>1, <1>5, <1>b
      <4>2. QED
        BY <4>1, <1>2
    <3>6. QED
      BY <3>2, <3>3, <3>4, <3>5
  <2>3. QED
    BY <2>1, <2>2
<1>8. Levels(d) /\ Reaches(d, n + 1)
  <2>1. SameRuns(chain, d, Len(chain))
    BY <1>1, <1>c DEF SameRuns
  <2>2. Levels(chain) /\ Reaches(chain, n) /\ IsRunAct(d[Len(d)]) /\ d[Len(d)].stop = n /\ d[Len(d)].frame = n + 1
    BY <1>1, <1>a, <1>b, <1>c DEF Acting
  <2>3. \A k \in 1 .. Len(chain) : IsRunAct(chain[k]) => chain[k].frame <= n
    BY <1>5
  <2>4. QED
    BY <2>1, <2>2, <2>3, <1>1, <1>b, PushRunLevels
<1>9. Acting(p, h, gs, n + 1, d)
  BY <1>1, <1>6, <1>7, <1>8, <1>b DEF Acting
<1>10. Topped(p, h, gs, n + 1, d, Ceiling(p, h, f))
  BY <1>1, <1>c, FrameFacts DEF Topped, Innermost, FrameAt
<1>11. QED
  BY <1>3, <1>9, <1>10 DEF Control

\* The interpreter has gone to the frame m, the one above or the one below.
LEMMA ActingMove ==
    ASSUME NEW p, NEW h, NEW fs, NEW gs, NEW n, NEW m \in Nat, NEW chain, NEW d, NEW t, NEW b,
           Control(p, h, fs, n, chain, t), IsRunAct(Innermost(chain)),
           EndsWith(chain, d, Len(chain), b), IsRunAct(b), b.frame = m, b.stop = Innermost(chain).stop,
           IsRun(p, h, gs, m, b, Len(chain)), \A i \in 1 .. Innermost(chain).stop : gs[i] = fs[i]
    PROVE  Acting(p, h, gs, m, d)
<1> DEFINE stop == Innermost(chain).stop
<1>a. Acting(p, h, fs, n, chain)
  BY DEF Control
<1>b. Len(chain) \in Nat /\ Len(chain) >= 1 /\ Len(chain) \in 1 .. Len(chain)
  BY <1>a, ActivationKinds
<1>c. stop \in Nat /\ stop < m /\ IsRunAct(chain[Len(chain)]) /\ chain[Len(chain)].stop = stop
  BY DEF IsRun, Innermost
<1> HIDE DEF stop
<1>1. /\ \A k \in 1 .. Len(chain) : k # Len(chain) => d[k] = chain[k]
      /\ d[Len(chain)] = b /\ Len(d) = Len(chain) /\ Sequence(d)
  BY <1>b DEF EndsWith
<1>2. ASSUME NEW k \in 1 .. Len(chain), k # Len(chain), IsRunAct(chain[k])
      PROVE  /\ chain[k].frame \in 1 .. stop /\ IsRun(p, h, gs, m, chain[k], k)
             /\ gs[chain[k].frame] = fs[chain[k].frame]
  <2>1. IsRun(p, h, fs, n, chain[k], k)
    BY <1>2, <1>a, ActivationKinds
  <2>2. chain[k].frame \in Nat \ {0}
    BY <2>1 DEF IsRun
  <2>3. chain[k].frame <= stop
    <3>1. k < Len(chain)
      BY <1>2, <1>b
    <3>2. QED
      BY <3>1, <1>2, <1>a, <1>b, <1>c DEF Acting, Levels
  <2>4. chain[k].frame \in 1 .. stop /\ \A i \in 1 .. chain[k].frame : gs[i] = fs[i]
    BY <2>2, <2>3, <1>c DEF stop
  <2>5. \A i \in 1 .. chain[k].frame - 1 : gs[i] = fs[i]
    BY <2>2, <2>4
  <2>6. gs[chain[k].frame] = fs[chain[k].frame]
    BY <2>2, <2>4
  <2>7. QED
    BY <2>1, <2>2, <2>4, <2>5, <2>6, <1>c, RunAlike
<1>3. Activations(p, h, gs, m, d)
  <2> SUFFICES ASSUME NEW k \in 1 .. Len(chain)
               PROVE  \/ IsRun(p, h, gs, m, d[k], k)
                      \/ k > 1 /\ IsNative(p, h, d[k], IF k < Len(d) THEN 1 ELSE 0)
    BY <1>1 DEF Activations
  <2>1. CASE k = Len(chain)
    BY <2>1, <1>1
  <2>2. CASE k # Len(chain)
    BY <2>2, <1>1, <1>2, <1>a, ActivationKinds
  <2>3. QED
    BY <2>1, <2>2
<1>4. Links(p, h, gs, d)
  <2> SUFFICES ASSUME NEW k \in 2 .. Len(chain)
               PROVE  IF IsRunAct(d[k]) THEN ~IsRunAct(d[k - 1])
                      ELSE IF IsRunAct(d[k - 1]) THEN d[k].slots = Ceiling(p, h, gs[d[k - 1].frame])
                           ELSE d[k].slots = 0
    BY <1>1 DEF Links
  <2>1. k \in 1 .. Len(chain) /\ k - 1 \in 1 .. Len(chain) /\ k - 1 # Len(chain)
    BY <1>b
  <2>2. d[k - 1] = chain[k - 1]
    BY <2>1, <1>1
  <2>3. (IsRunAct(d[k]) <=> IsRunAct(chain[k])) /\ (~IsRunAct(d[k]) => d[k].slots = chain[k].slots)
    BY <2>1, <1>1, <1>c DEF Innermost
  <2>4. IF IsRunAct(chain[k]) THEN ~IsRunAct(chain[k - 1])
        ELSE IF IsRunAct(chain[k - 1]) THEN chain[k].slots = Ceiling(p, h, fs[chain[k - 1].frame])
             ELSE chain[k].slots = 0
    BY <1>a DEF Acting, Links
  <2>5. IsRunAct(chain[k - 1]) => gs[chain[k - 1].frame] = fs[chain[k - 1].frame]
    BY <2>1, <1>2
  <2>6. QED
    BY <2>2, <2>3, <2>4, <2>5
<1>5. Levels(d) /\ Reaches(d, m)
  <2>1. SameRuns(chain, d, Len(chain) - 1)
    <3>1. \A k \in 1 .. Len(chain) - 1 : k \in 1 .. Len(chain) /\ k # Len(chain)
      BY <1>b
    <3>2. QED
      BY <3>1, <1>1 DEF SameRuns
  <2>2. Levels(chain) /\ d[Len(d)] = b
    BY <1>1, <1>a DEF Acting
  <2>3. QED
    BY <2>1, <2>2, <1>1, <1>b, <1>c, MoveLevels DEF stop
<1>6. QED
  BY <1>1, <1>3, <1>4, <1>5, <1>b DEF Acting

\* The interpreter calls a function that it will run itself.
LEMMA PushFrameMove ==
    ASSUME NEW p, PlansKept(p), NEW h, NEW fs, NEW gs, NEW n, NEW chain, NEW d, NEW t, NEW b, NEW f,
           Control(p, h, fs, n, chain, t), IsRunAct(Innermost(chain)), Waits(p, h, fs[n]), n < FramesMax,
           EndsWith(chain, d, Len(chain), b), b = [Innermost(chain) EXCEPT !.frame = n + 1],
           FrameAt(fs, gs, n + 1, f), IsFrame(p, h, f), f.slots = t
    PROVE  Control(p, h, gs, n + 1, d, Ceiling(p, h, f))
<1> DEFINE a == Innermost(chain)
<1>1. /\ n \in Nat /\ n >= 1 /\ IsRun(p, h, fs, n, a, Len(chain)) /\ a.frame = n /\ t = Ceiling(p, h, fs[n])
      /\ Stacked(p, h, fs, n)
  BY InnermostRun DEF Control
<1>2. \A i \in 1 .. n : gs[i] = fs[i]
  BY <1>1 DEF FrameAt
<1>3. Stacked(p, h, gs, n + 1)
  BY <1>1, FrameFacts, StackedPush DEF IsFrame
<1>4. a.stop \in Nat /\ a.stop < n /\ a.saved \in Nat
  BY <1>1 DEF IsRun
<1>5. b = [kind |-> "run", frame |-> n + 1, stop |-> a.stop, saved |-> a.saved] /\ IsRunAct(b)
  BY <1>1 DEF IsRun, IsRunAct
<1>6. \A i \in 1 .. a.stop : gs[i] = fs[i]
  BY <1>2, <1>4, <1>1
<1>7. IsRun(p, h, gs, n + 1, b, Len(chain))
  <2>1. gs[a.stop + 1] = fs[a.stop + 1] /\ (a.stop > 0 => gs[a.stop] = fs[a.stop])
    BY <1>1, <1>2, <1>4
  <2>2. \A i \in a.stop + 1 .. n : gs[i + 1].slots = Ceiling(p, h, gs[i])
    <3> SUFFICES ASSUME NEW i \in a.stop + 1 .. n
                 PROVE  gs[i + 1].slots = Ceiling(p, h, gs[i])
      OBVIOUS
    <3>1. i \in 1 .. n /\ gs[i] = fs[i]
      BY <1>1, <1>2, <1>4
    <3>2. CASE i = n
      BY <3>1, <3>2, <1>1 DEF FrameAt
    <3>3. CASE i # n
      <4>1. i \in a.stop + 1 .. a.frame - 1 /\ i + 1 \in 1 .. n
        BY <3>3, <1>1, <1>4
      <4>2. fs[i + 1].slots = Ceiling(p, h, fs[i])
        BY <4>1, <1>1 DEF IsRun
      <4>3. QED
        BY <3>1, <4>1, <4>2, <1>2
    <3>4. QED
      BY <3>2, <3>3
  <2>3. n + 1 - 1 = n
    BY <1>1
  <2>4. QED
    BY <2>1, <2>2, <2>3, <1>1, <1>4, <1>5 DEF IsRun
<1>8. Acting(p, h, gs, n + 1, d)
  <2>1. n + 1 \in Nat /\ b.frame = n + 1 /\ b.stop = a.stop
    BY <1>1, <1>5
  <2>2. QED
    BY <2>1, <1>5, <1>6, <1>7, ActingMove
<1>9. Topped(p, h, gs, n + 1, d, Ceiling(p, h, f))
  BY <1>5, FrameFacts DEF Topped, Innermost, FrameAt, EndsWith
<1>10. QED
  BY <1>3, <1>8, <1>9 DEF Control

\* A function returns to one that the same run called it from.
LEMMA PopFrameMove ==
    ASSUME NEW p, PlansKept(p), NEW h, NEW fs, NEW n, NEW chain, NEW d, NEW t, NEW b,
           Control(p, h, fs, n, chain, t), IsRunAct(Innermost(chain)), Innermost(chain).stop # n - 1,
           EndsWith(chain, d, Len(chain), b), b = [Innermost(chain) EXCEPT !.frame = n - 1]
    PROVE  Control(p, h, fs, n - 1, d, fs[n].slots) /\ n > 1
<1> DEFINE a == Innermost(chain)
<1>1. /\ n \in Nat /\ n >= 1 /\ IsRun(p, h, fs, n, a, Len(chain)) /\ a.frame = n
      /\ Stacked(p, h, fs, n)
  BY InnermostRun DEF Control
<1>2. a.stop \in Nat /\ a.stop < n - 1 /\ a.saved \in Nat
  BY <1>1 DEF IsRun
<1>3. n > 1 /\ n - 1 \in Nat /\ n - 1 \in 1 .. n
  BY <1>1, <1>2
<1>4. Stacked(p, h, fs, n - 1)
  BY <1>1, StackedPop
<1>5. b = [kind |-> "run", frame |-> n - 1, stop |-> a.stop, saved |-> a.saved] /\ IsRunAct(b)
  BY <1>1 DEF IsRun, IsRunAct
<1>6. IsRun(p, h, fs, n - 1, b, Len(chain))
  <2>1. \A i \in a.stop + 1 .. n - 1 - 1 : i \in a.stop + 1 .. a.frame - 1
    BY <1>1, <1>2
  <2>2. \A i \in a.stop + 1 .. n - 1 - 1 : fs[i + 1].slots = Ceiling(p, h, fs[i])
    BY <2>1, <1>1 DEF IsRun
  <2>3. /\ fs[a.stop + 1].slots = a.saved + 1
        /\ IF Len(chain) = 1 THEN a.stop = 0 /\ a.saved = 0
                             ELSE a.stop > 0 /\ a.saved >= Ceiling(p, h, fs[a.stop])
    BY <1>1 DEF IsRun
  <2>4. b.kind = "run" /\ b.frame = n - 1 /\ b.stop = a.stop /\ b.saved = a.saved
    BY <1>5
  <2> HIDE DEF a
  <2>5. b = [kind |-> "run", frame |-> b.frame, stop |-> b.stop, saved |-> b.saved]
    BY <1>5, <2>4, Zenon
  <2>6. b.frame \in Nat /\ b.stop < b.frame /\ b.frame <= n - 1
    BY <2>4, <1>2, <1>3
  <2>7. \A i \in b.stop + 1 .. b.frame - 1 : fs[i + 1].slots = Ceiling(p, h, fs[i])
    BY <2>2, <2>4
  <2>8. QED
    BY <2>3, <2>4, <2>5, <2>6, <2>7, <1>2 DEF IsRun
<1>7. Acting(p, h, fs, n - 1, d)
  <2>1. b.frame = n - 1 /\ b.stop = a.stop
    BY <1>5
  <2>2. QED
    BY <2>1, <1>3, <1>5, <1>6, ActingMove
<1>8. fs[n].slots = Ceiling(p, h, fs[n - 1])
  <2>1. n - 1 \in a.stop + 1 .. a.frame - 1
    BY <1>1, <1>2
  <2>2. fs[n - 1 + 1].slots = Ceiling(p, h, fs[n - 1])
    BY <2>1, <1>1 DEF IsRun
  <2>3. QED
    BY <2>2, <1>1
<1>9. fs[n].slots \in Nat /\ Ceiling(p, h, fs[n - 1]) \in Nat
  BY <1>1, <1>3, FrameFacts DEF Stacked
<1>10. Topped(p, h, fs, n - 1, d, fs[n].slots)
  BY <1>5, <1>8, <1>9 DEF Topped, Innermost, EndsWith
<1>11. QED
  BY <1>3, <1>4, <1>7, <1>10 DEF Control

\* The innermost activation is gone; machine code that waited for it has got
\* its answer.
LEMMA ActingPop ==
    ASSUME NEW p, NEW h, NEW fs, NEW n \in Nat, NEW m \in Nat, NEW chain, NEW d, NEW b,
           Acting(p, h, fs, n, chain), Len(chain) > 1, EndsWith(chain, d, Len(chain) - 1, b),
           IF IsRunAct(chain[Len(chain) - 1]) THEN b = chain[Len(chain) - 1]
           ELSE IsNative(p, h, b, 0) /\ b.slots = chain[Len(chain) - 1].slots,
           m = IF IsRunAct(chain[Len(chain)]) THEN chain[Len(chain)].stop ELSE n
    PROVE  Acting(p, h, fs, m, d)
<1> DEFINE l == Len(chain) - 1
<1>a. Len(chain) \in Nat /\ l \in Nat /\ l >= 1 /\ l \in 1 .. Len(chain) /\ l < Len(chain)
  BY ActivationKinds
<1>b. IsRunAct(b) <=> IsRunAct(chain[l])
  BY DEF IsNative, IsRunAct
<1>1. Len(d) = l /\ Sequence(d) /\ d[l] = b /\ \A k \in 1 .. l : k # l => d[k] = chain[k]
  BY <1>a DEF EndsWith
<1> HIDE DEF l
<1>2. ASSUME NEW k \in 1 .. l, IsRunAct(chain[k])
      PROVE  IsRun(p, h, fs, m, chain[k], k)
  <2>1. k \in 1 .. Len(chain) /\ k < Len(chain) /\ Len(chain) \in 1 .. Len(chain)
    BY <1>a DEF l
  <2>2. IsRun(p, h, fs, n, chain[k], k)
    BY <2>1, <1>2, ActivationKinds
  <2>3. chain[k].frame \in Nat /\ chain[k].frame <= m
    BY <2>1, <2>2, <1>2 DEF Acting, Levels, IsRun
  <2>4. QED
    BY <2>2, <2>3 DEF IsRun
<1>3. Activations(p, h, fs, m, d)
  <2> SUFFICES ASSUME NEW k \in 1 .. l
               PROVE  \/ IsRun(p, h, fs, m, d[k], k)
                      \/ k > 1 /\ IsNative(p, h, d[k], IF k < Len(d) THEN 1 ELSE 0)
    BY <1>1 DEF Activations
  <2>1. k \in 1 .. Len(chain) /\ k < Len(chain)
    BY <1>a
  <2>2. CASE k = l
    BY <2>1, <2>2, <1>1, <1>2, <1>a, ActivationKinds DEF l
  <2>3. CASE k # l
    BY <2>1, <2>3, <1>1, <1>2, <1>a, ActivationKinds
  <2>4. QED
    BY <2>2, <2>3
<1>4. Links(p, h, fs, d)
  <2> SUFFICES ASSUME NEW k \in 2 .. l
               PROVE  IF IsRunAct(d[k]) THEN ~IsRunAct(d[k - 1])
                      ELSE IF IsRunAct(d[k - 1]) THEN d[k].slots = Ceiling(p, h, fs[d[k - 1].frame])
                           ELSE d[k].slots = 0
    BY <1>1 DEF Links
  <2>1. k \in 2 .. Len(chain) /\ k \in 1 .. l /\ k - 1 \in 1 .. l /\ k - 1 # l
    BY <1>a
  <2>2. d[k - 1] = chain[k - 1]
    BY <2>1, <1>1
  <2>3. (IsRunAct(d[k]) <=> IsRunAct(chain[k])) /\ (~IsRunAct(d[k]) => d[k].slots = chain[k].slots)
    BY <2>1, <1>1, <1>b DEF l
  <2>4. IF IsRunAct(chain[k]) THEN ~IsRunAct(chain[k - 1])
        ELSE IF IsRunAct(chain[k - 1]) THEN chain[k].slots = Ceiling(p, h, fs[chain[k - 1].frame])
             ELSE chain[k].slots = 0
    BY <2>1 DEF Acting, Links
  <2>5. QED
    BY <2>2, <2>3, <2>4
<1>5. Levels(d) /\ Reaches(d, m)
  <2>1. SameRuns(chain, d, Len(d))
    <3> SUFFICES ASSUME NEW k \in 1 .. l
                 PROVE  (IsRunAct(d[k]) <=> IsRunAct(chain[k])) /\ (IsRunAct(chain[k]) => d[k] = chain[k])
      BY <1>1 DEF SameRuns
    <3>1. CASE k = l
      BY <3>1, <1>1, <1>b DEF l
    <3>2. CASE k # l
      BY <3>2, <1>1
    <3>3. QED
      BY <3>1, <3>2
  <2>2. Levels(chain) /\ Reaches(chain, n) /\ Len(chain) = Len(d) + 1
    BY <1>1, <1>a DEF Acting, l
  <2>3. Len(d) \in Nat
    BY <1>1, <1>a
  <2>4. QED
    BY <2>1, <2>2, <2>3, PopLevels
<1>6. QED
  BY <1>1, <1>3, <1>4, <1>5, <1>a DEF Acting

\* run, called by machine code, returns to it with the stack as it was.
LEMMA RunEndsMove ==
    ASSUME NEW p, PlansKept(p), NEW h, NEW fs, NEW n, NEW chain, NEW d, NEW t, NEW b,
           Control(p, h, fs, n, chain, t), IsRunAct(Innermost(chain)), Innermost(chain).stop = n - 1,
           Len(chain) > 1, EndsWith(chain, d, Len(chain) - 1, b),
           IsNative(p, h, b, 0), b.slots = chain[Len(chain) - 1].slots
    PROVE  /\ Control(p, h, fs, n - 1, d, Innermost(chain).saved) /\ n > 1
           /\ fs[n].slots = Innermost(chain).saved + 1
<1> DEFINE a == Innermost(chain)
<1>1. /\ n \in Nat /\ n >= 1 /\ IsRun(p, h, fs, n, a, Len(chain)) /\ a.frame = n
      /\ Stacked(p, h, fs, n) /\ Acting(p, h, fs, n, chain)
  BY InnermostRun DEF Control
<1>2. Len(chain) \in Nat /\ Len(chain) # 1
  <2>1. Len(chain) \in Nat
    BY <1>1, ActivationKinds
  <2>2. \A x \in Nat : x > 1 => x # 1
    OBVIOUS
  <2>3. QED
    BY <2>1, <2>2
<1>3. a.stop > 0 /\ a.saved >= Ceiling(p, h, fs[a.stop]) /\ a.saved \in Nat /\ fs[a.stop + 1].slots = a.saved + 1
  <2> HIDE DEF a
  <2>1. QED
    BY <1>1, <1>2 DEF IsRun
<1>4. n > 1 /\ n - 1 \in Nat /\ a.stop + 1 = n /\ a.stop = n - 1
  BY <1>1, <1>3
<1>5. ~IsRunAct(chain[Len(chain) - 1])
  BY <1>1, <1>2 DEF Acting, Links, Innermost
<1>6. Acting(p, h, fs, n - 1, d)
  BY <1>1, <1>4, <1>5, ActingPop DEF Innermost
<1>7. Stacked(p, h, fs, n - 1)
  BY <1>1, StackedPop
<1>8. Waits(p, h, fs[n - 1])
  BY <1>1, <1>4 DEF Stacked
<1>9. ~IsRunAct(Innermost(d))
  BY DEF EndsWith, Innermost, IsNative, IsRunAct
<1>10. Topped(p, h, fs, n - 1, d, a.saved)
  BY <1>3, <1>4, <1>8, <1>9 DEF Topped
<1>11. QED
  BY <1>3, <1>4, <1>6, <1>7, <1>10 DEF Control

\* Where machine code that the interpreter called leaves its result.
LEMMA NativeSlots ==
    ASSUME NEW p, NEW h, NEW fs, NEW n, NEW chain, NEW t,
           Control(p, h, fs, n, chain, t), ~IsRunAct(Innermost(chain)), IsRunAct(chain[Len(chain) - 1])
    PROVE  Innermost(chain).slots = Ceiling(p, h, fs[n])
<1>1. Len(chain) \in Nat /\ Len(chain) > 1
  BY InnermostNative
<1>2. Acting(p, h, fs, n, chain)
  BY DEF Control
<1>3. chain[Len(chain) - 1].frame = n
  <2>1. Len(chain) - 1 \in 1 .. Len(chain) /\ Len(chain) - 1 + 1 = Len(chain)
    BY <1>1
  <2>2. \A m \in Len(chain) - 1 + 1 .. Len(chain) : m = Len(chain)
    BY <1>1
  <2>3. QED
    BY <2>1, <2>2, <1>2 DEF Acting, Reaches, Innermost
<1>4. Len(chain) \in 2 .. Len(chain)
  BY <1>1
<1>5. QED
  BY <1>2, <1>3, <1>4 DEF Acting, Links, Innermost

\* Machine code returns to the interpreter.
LEMMA NativeToRun ==
    ASSUME NEW p, PlansKept(p), NEW h, NEW fs, NEW n, NEW chain, NEW d, NEW t,
           Control(p, h, fs, n, chain, t), ~IsRunAct(Innermost(chain)),
           IsRunAct(chain[Len(chain) - 1]), EndsWith(chain, d, Len(chain) - 1, chain[Len(chain) - 1])
    PROVE  Control(p, h, fs, n, d, Innermost(chain).slots) /\ Innermost(chain).slots <= t
<1>1. /\ n \in Nat /\ n >= 1 /\ IsFrame(p, h, fs[n]) /\ Len(chain) \in Nat /\ Len(chain) > 1
      /\ t >= Ceiling(p, h, fs[n])
  BY InnermostNative
<1>2. Acting(p, h, fs, n, chain) /\ Stacked(p, h, fs, n)
  BY DEF Control
<1>3. Acting(p, h, fs, n, d)
  BY <1>1, <1>2, ActingPop DEF Innermost
<1>4. Innermost(chain).slots = Ceiling(p, h, fs[n])
  BY NativeSlots
<1>5. IsRunAct(Innermost(d))
  BY DEF EndsWith, Innermost
<1>6. Topped(p, h, fs, n, d, Innermost(chain).slots)
  BY <1>1, <1>4, <1>5, FrameFacts DEF Topped
<1>7. QED
  BY <1>1, <1>2, <1>3, <1>4, <1>6 DEF Control

\* Machine code answers machine code.
LEMMA NativeToNative ==
    ASSUME NEW p, NEW h, NEW fs, NEW n, NEW chain, NEW d, NEW t, NEW b,
           Control(p, h, fs, n, chain, t), ~IsRunAct(Innermost(chain)),
           ~IsRunAct(chain[Len(chain) - 1]), EndsWith(chain, d, Len(chain) - 1, b),
           IsNative(p, h, b, 0), b.slots = chain[Len(chain) - 1].slots
    PROVE  Control(p, h, fs, n, d, t) /\ Innermost(chain).slots = 0
<1>1. n \in Nat /\ Len(chain) \in Nat /\ Len(chain) > 1
  BY InnermostNative
<1>2. Acting(p, h, fs, n, chain)
  BY DEF Control
<1>3. Acting(p, h, fs, n, d)
  BY <1>1, <1>2, ActingPop DEF Innermost
<1>4. ~IsRunAct(Innermost(d))
  BY DEF EndsWith, Innermost, IsNative, IsRunAct
<1>5. Topped(p, h, fs, n, d, t)
  BY <1>4 DEF Control, Topped
<1>6. Innermost(chain).slots = 0
  <2>1. Len(chain) \in 2 .. Len(chain)
    BY <1>1
  <2>2. QED
    BY <2>1, <1>2 DEF Acting, Links, Innermost
<1>7. QED
  BY <1>3, <1>5, <1>6 DEF Control

\* A script starts.
LEMMA FirstMove ==
    ASSUME NEW p, PlansKept(p), NEW h, NEW fs, NEW gs, NEW d, NEW f, FrameAt(fs, gs, 1, f),
           IsFrame(p, h, f), f.slots = 1,
           d = <<[kind |-> "run", frame |-> 1, stop |-> 0, saved |-> 0]>>
    PROVE  Control(p, h, gs, 1, d, Ceiling(p, h, f))
<1> DEFINE a == [kind |-> "run", frame |-> 1, stop |-> 0, saved |-> 0]
<1>1. Sequence(d) /\ Len(d) = 1 /\ d[1] = a
  BY SingleFacts
<1>2. Stacked(p, h, gs, 1)
  <2>1. FramesMax \in Nat /\ 1 <= FramesMax
    BY FramesAssumption
  <2>2. QED
    BY <2>1 DEF Stacked, FrameAt
<1>3. IsRun(p, h, gs, 1, a, 1) /\ IsRunAct(a)
  BY DEF IsRun, IsRunAct, FrameAt
<1>4. \A k \in 1 .. Len(d) : k = 1
  BY <1>1
<1> HIDE DEF a
<1>5. Activations(p, h, gs, 1, d) /\ Links(p, h, gs, d)
  BY <1>1, <1>3, <1>4 DEF Activations, Links
<1>6. Levels(d) /\ Reaches(d, 1)
  <2>1. a.frame = 1
    BY DEF a
  <2>2. QED
    BY <2>1, <1>1, <1>4 DEF Levels, Reaches
<1>7. Topped(p, h, gs, 1, d, Ceiling(p, h, f))
  BY <1>1, <1>3, FrameFacts DEF Topped, Innermost, FrameAt
<1>8. QED
  BY <1>1, <1>2, <1>5, <1>6, <1>7 DEF Control, Acting

-----------------------------------------------------------------------------
(* 6. Memory and the heap *)

LEMMA FilledPut ==
    ASSUME NEW h, NEW mem, Filled(h, mem), NEW i \in 1 .. Len(mem) + 1, NEW v, Good(h, v)
    PROVE  /\ Filled(h, Put(mem, i, v)) /\ Len(Put(mem, i, v)) \in Nat
           /\ Len(Put(mem, i, v)) >= i /\ Len(Put(mem, i, v)) >= Len(mem)
<1>1. Sequence(mem)
  BY DEF Filled
<1>2. /\ Sequence(Put(mem, i, v)) /\ Len(Put(mem, i, v)) >= Len(mem) /\ Len(Put(mem, i, v)) >= i
      /\ Put(mem, i, v)[i] = v /\ Len(Put(mem, i, v)) \in Nat
      /\ \A j \in 1 .. Len(mem) : j # i => Put(mem, i, v)[j] = mem[j]
      /\ \A j \in 1 .. Len(Put(mem, i, v)) : j = i \/ j \in 1 .. Len(mem)
  BY <1>1, PutFacts
<1>3. ASSUME NEW j \in 1 .. Len(Put(mem, i, v)) PROVE Good(h, Put(mem, i, v)[j])
  <2>1. CASE j = i
    BY <2>1, <1>2
  <2>2. CASE j # i
    BY <2>2, <1>2 DEF Filled
  <2>3. QED
    BY <2>1, <2>2
<1>4. QED
  BY <1>2, <1>3 DEF Filled

LEMMA FilledExcept ==
    ASSUME NEW h, NEW mem, Filled(h, mem), NEW i \in 1 .. Len(mem), NEW v, Good(h, v)
    PROVE  Filled(h, [mem EXCEPT ![i] = v]) /\ Len([mem EXCEPT ![i] = v]) = Len(mem)
<1>1. Sequence(mem)
  BY DEF Filled
<1> DEFINE new == [mem EXCEPT ![i] = v]
<1>2. /\ Sequence(new) /\ Len(new) = Len(mem) /\ new[i] = v
      /\ \A j \in 1 .. Len(mem) : j # i => new[j] = mem[j]
  BY <1>1, ExceptFacts
<1> HIDE DEF new
<1>3. \A j \in 1 .. Len(new) : Good(h, new[j])
  BY <1>2 DEF Filled
<1>4. QED
  BY <1>2, <1>3 DEF Filled, new

LEMMA FilledWrite ==
    ASSUME NEW h, NEW mem, Filled(h, mem), NEW i \in 1 .. Len(mem), NEW v, Good(h, v),
           NEW new, new = [mem EXCEPT ![i] = v]
    PROVE  Filled(h, new) /\ Len(new) = Len(mem)
<1>1. Filled(h, [mem EXCEPT ![i] = v])
  BY FilledExcept
<1>2. Len([mem EXCEPT ![i] = v]) = Len(mem)
  BY FilledExcept
<1>3. QED
  BY <1>1, <1>2

LEMMA FilledAppend ==
    ASSUME NEW h, NEW mem, Filled(h, mem), NEW v, Good(h, v)
    PROVE  Filled(h, Append(mem, v)) /\ Len(Append(mem, v)) = Len(mem) + 1
<1>1. Sequence(mem) /\ Len(mem) \in Nat
  BY SequenceFacts DEF Filled
<1>2. /\ Sequence(Append(mem, v)) /\ Len(Append(mem, v)) = Len(mem) + 1
      /\ Append(mem, v)[Len(mem) + 1] = v /\ \A j \in 1 .. Len(mem) : Append(mem, v)[j] = mem[j]
  BY <1>1, AppendFacts
<1>3. \A j \in 1 .. Len(mem) + 1 : j \in 1 .. Len(mem) \/ j = Len(mem) + 1
  BY <1>1
<1>4. QED
  BY <1>2, <1>3 DEF Filled

LEMMA FilledSub ==
    ASSUME NEW h, NEW mem, Filled(h, mem), NEW m \in Nat, NEW n \in Nat,
           1 <= m, m <= n + 1, n <= Len(mem)
    PROVE  /\ Filled(h, SubSeq(mem, m, n)) /\ Len(SubSeq(mem, m, n)) = n - m + 1
           /\ \A i \in 1 .. n - m + 1 : SubSeq(mem, m, n)[i] = mem[m + i - 1]
<1>1. Sequence(mem) /\ Len(mem) \in Nat
  BY SequenceFacts DEF Filled
<1>2. /\ Sequence(SubSeq(mem, m, n)) /\ Len(SubSeq(mem, m, n)) = n - m + 1
      /\ \A i \in 1 .. n - m + 1 : SubSeq(mem, m, n)[i] = mem[m + i - 1]
  BY <1>1, SubSeqFacts
<1>3. \A i \in 1 .. n - m + 1 : m + i - 1 \in 1 .. Len(mem)
  BY <1>1
<1>4. QED
  BY <1>2, <1>3 DEF Filled

LEMMA FilledConcat ==
    ASSUME NEW h, NEW mem, Filled(h, mem), NEW new, Filled(h, new)
    PROVE  /\ Filled(h, mem \o new) /\ Len(mem \o new) = Len(mem) + Len(new)
           /\ \A i \in 1 .. Len(mem) : (mem \o new)[i] = mem[i]
           /\ \A i \in 1 .. Len(new) : (mem \o new)[Len(mem) + i] = new[i]
<1>1. Sequence(mem) /\ Len(mem) \in Nat /\ Sequence(new) /\ Len(new) \in Nat
  BY SequenceFacts DEF Filled
<1>2. /\ Sequence(mem \o new) /\ Len(mem \o new) = Len(mem) + Len(new)
      /\ \A i \in 1 .. Len(mem) : (mem \o new)[i] = mem[i]
      /\ \A i \in 1 .. Len(new) : (mem \o new)[Len(mem) + i] = new[i]
  BY <1>1, ConcatFacts
<1>3. ASSUME NEW i \in 1 .. Len(mem) + Len(new) PROVE Good(h, (mem \o new)[i])
  <2>1. CASE i <= Len(mem)
    BY <2>1, <1>1, <1>2 DEF Filled
  <2>2. CASE i > Len(mem)
    <3>1. i - Len(mem) \in 1 .. Len(new) /\ Len(mem) + (i - Len(mem)) = i
      BY <2>2, <1>1
    <3>2. QED
      BY <3>1, <1>2 DEF Filled
  <2>3. QED
    BY <2>1, <2>2, <1>1
<1>4. QED
  BY <1>2, <1>3 DEF Filled

LEMMA FilledSingle ==
    ASSUME NEW h, NEW v, Good(h, v)
    PROVE  Filled(h, <<v>>) /\ Len(<<v>>) = 1 /\ <<v>>[1] = v
<1>1. Sequence(<<v>>) /\ Len(<<v>>) = 1 /\ <<v>>[1] = v
  BY SingleFacts
<1>2. \A i \in 1 .. Len(<<v>>) : <<v>>[i] = v
  BY <1>1
<1>3. QED
  BY <1>1, <1>2 DEF Filled

\* A new object.
LEMMA ObjectsAppend ==
    ASSUME NEW p, NEW h, NEW us, Objects(p, h, us), NEW o, NEW k, k = Append(h, o)
    PROVE  /\ Sequence(k) /\ Len(k) = Len(h) + 1 /\ Len(h) \in Nat /\ Grows(h, k) /\ k[Len(h) + 1] = o
           /\ Good(k, <<"obj", Len(h) + 1>>)
           /\ IsClosureObject(p, k, us, o) \/ IsArrayObject(k, o) => Objects(p, k, us)
<1>1. Sequence(h) /\ Len(h) \in Nat
  BY SequenceFacts DEF Objects
<1>2. /\ Sequence(k) /\ Len(k) = Len(h) + 1 /\ k[Len(h) + 1] = o
      /\ \A i \in 1 .. Len(h) : k[i] = h[i]
  BY <1>1, AppendFacts
<1>3. Grows(h, k)
  BY <1>1, <1>2 DEF Grows
<1>4. Good(k, <<"obj", Len(h) + 1>>)
  BY <1>1, <1>2 DEF Good
<1>5. ASSUME IsClosureObject(p, k, us, o) \/ IsArrayObject(k, o) PROVE Objects(p, k, us)
  <2>1. ASSUME NEW i \in 1 .. Len(k) PROVE IsClosureObject(p, k, us, k[i]) \/ IsArrayObject(k, k[i])
    <3>1. CASE i = Len(h) + 1
      BY <3>1, <1>2, <1>5
    <3>2. CASE i \in 1 .. Len(h)
      <4>1. k[i] = h[i] /\ (IsClosureObject(p, h, us, h[i]) \/ IsArrayObject(h, h[i]))
        BY <3>2, <1>2 DEF Objects
      <4>2. QED
        BY <4>1, <1>3, FilledGrows DEF IsClosureObject, IsArrayObject
    <3>3. QED
      BY <3>1, <3>2, <1>1, <1>2
  <2>2. QED
    BY <1>2, <2>1 DEF Objects
<1>6. QED
  BY <1>1, <1>2, <1>3, <1>4, <1>5

\* An array with other values.
LEMMA ObjectsStore ==
    ASSUME NEW p, NEW h, NEW us, Objects(p, h, us), NEW i \in 1 .. Len(h), h[i].kind = "array",
           NEW vs, Filled(h, vs), NEW o, o = [kind |-> "array", values |-> vs, upvalues |-> <<>>],
           NEW k, k = [h EXCEPT ![i] = o]
    PROVE  Objects(p, k, us) /\ Grows(h, k)
<1>1. Sequence(h) /\ Len(h) \in Nat
  BY SequenceFacts DEF Objects
<1>2. Sequence(k) /\ Len(k) = Len(h) /\ k[i] = o /\ \A j \in 1 .. Len(h) : j # i => k[j] = h[j]
  <2>1. \A x : /\ Sequence([h EXCEPT ![i] = x]) /\ Len([h EXCEPT ![i] = x]) = Len(h)
               /\ [h EXCEPT ![i] = x][i] = x
               /\ \A j \in 1 .. Len(h) : j # i => [h EXCEPT ![i] = x][j] = h[j]
    BY <1>1, ExceptFacts
  <2>2. QED
    BY <2>1, Zenon
<1>4. o = [kind |-> "array", values |-> vs, upvalues |-> <<>>]
  OBVIOUS
<1>5. Grows(h, k)
  <2>1. \A j \in 1 .. Len(h) : k[j].kind = h[j].kind /\ (h[j].kind = "closure" => k[j].fn = h[j].fn)
    BY <1>2, <1>4
  <2>2. QED
    BY <1>1, <1>2, <2>1 DEF Grows
<1>6. IsArrayObject(k, o)
  BY <1>4, <1>5, FilledGrows DEF IsArrayObject
<1>7. ASSUME NEW j \in 1 .. Len(k) PROVE IsClosureObject(p, k, us, k[j]) \/ IsArrayObject(k, k[j])
  <2>1. CASE j = i
    BY <2>1, <1>2, <1>6
  <2>2. CASE j # i
    <3>1. k[j] = h[j] /\ (IsClosureObject(p, h, us, h[j]) \/ IsArrayObject(h, h[j]))
      BY <2>2, <1>2 DEF Objects
    <3>2. QED
      BY <3>1, <1>5, FilledGrows DEF IsClosureObject, IsArrayObject
  <2>3. QED
    BY <2>1, <2>2
<1>8. QED
  BY <1>2, <1>5, <1>7 DEF Objects

\* What an object is, when a value refers to it.
LEMMA ObjectKinds ==
    ASSUME NEW p, NEW h, NEW us, Objects(p, h, us), NEW v, Good(h, v), v[1] = "obj"
    PROVE  /\ v[2] \in 1 .. Len(h)
           /\ h[v[2]].kind = "array" => IsArrayObject(h, h[v[2]])
           /\ h[v[2]].kind = "closure" => IsClosureObject(p, h, us, h[v[2]])
           /\ h[v[2]].kind \in {"array", "closure"}
BY DEF Objects, Good, IsClosureObject, IsArrayObject

\* More upvalues, and a heap that stays.
LEMMA ObjectsMore ==
    ASSUME NEW p, NEW h, NEW us, NEW new, Objects(p, h, us), 1 .. Len(us) \subseteq 1 .. Len(new)
    PROVE  Objects(p, h, new)
BY DEF Objects, IsClosureObject

\* Plain values.
LEMMA GoodPlain ==
    ASSUME NEW h
    PROVE  /\ Good(h, Nil) /\ \A b : Good(h, Bool(b)) /\ \A n : Good(h, Num(n))
           /\ \A s : Good(h, <<"str", s>>)
BY DEF Good, Nil, Bool, Num

LEMMA AssignedGood ==
    ASSUME NEW h, NamesGood(h, globals), NEW x, NEW v, Good(h, v)
    PROVE  NamesGood(h, Assigned(x, v))
BY DEF NamesGood, Assigned

-----------------------------------------------------------------------------
(* 7. A step of the interpreter *)

Height == HeightAt(session.plan, heap, Frame.closure, Frame.ip)
Captive == CapturedAt(session.plan, heap, Frame.closure, Frame.ip)

\* What is known while the interpreter runs.
AtFrame ==
    /\ PlansKept(session.plan) /\ IsRunAct(Innermost(acts)) /\ Act = Innermost(acts) /\ status = "running"
    /\ Control(session.plan, heap, frames, frameCount, acts, top) /\ DataInv /\ ListInv
    /\ Act.frame = frameCount /\ frameCount \in Nat /\ frameCount >= 1 /\ frameCount <= FramesMax
    /\ Sequence(frames) /\ frameCount <= Len(frames) /\ Frame = frames[frameCount]
    /\ IsFrame(session.plan, heap, Frame) /\ top = Ceiling(session.plan, heap, Frame)
    /\ Frame.slots \in Nat \ {0} /\ Frame.ip \in Nat
    /\ IsClosureObject(session.plan, heap, upvalues, heap[Frame.closure])
    /\ Frame.closure \in 1 .. Len(heap)
    /\ KeepsPlan(heap[Frame.closure].fn, Frame.ip, session.plan)
    /\ OperandsFit(heap[Frame.closure].fn, Ins, Height, session.plan)
    /\ Height \in Nat \ {0} /\ Captive \subseteq 0 .. Height - 1
    /\ Takes(Ins) \in Nat /\ Takes(Ins) < Height /\ top = Frame.slots + Height - 1
    /\ top \in Nat /\ top <= Len(stack) /\ Len(stack) \in Nat /\ Filled(heap, stack)

LEMMA Interpreted ==
    ASSUME IInv, ~strayed, Interpreting
    PROVE  AtFrame
<1> DEFINE p == session.plan
<1>1. PlansKept(p) /\ VMInv
  BY SessionPlans DEF IInv, InputInv
<1>2. status = "running" /\ Act.kind = "run" /\ Act = Innermost(acts) /\ IsRunAct(Innermost(acts))
  BY DEF Interpreting, Act, Last, Innermost, IsRunAct
<1>3. Control(p, heap, frames, frameCount, acts, top)
  BY <1>1, <1>2 DEF VMInv, Idle, Running
<1>4. DataInv /\ ListInv /\ top <= Len(stack)
  BY <1>1 DEF VMInv
<1>5. /\ frameCount \in Nat /\ frameCount >= 1 /\ frameCount <= FramesMax
      /\ IsFrame(p, heap, frames[frameCount])
      /\ Act.frame = frameCount /\ top = Ceiling(p, heap, frames[frameCount])
  BY <1>2, <1>3, InnermostRun
<1>6. Sequence(frames) /\ frameCount <= Len(frames) /\ Frame = frames[frameCount]
  BY <1>3, <1>5 DEF Control, Stacked, Frame
<1> HIDE DEF p
<1>7. IsFrame(p, heap, Frame) /\ Located(p, heap, Frame.closure, Frame.ip) /\ Frame.slots \in Nat \ {0}
  BY <1>5, <1>6 DEF IsFrame
<1>8. /\ KeepsPlan(heap[Frame.closure].fn, Frame.ip, p)
      /\ HeightAt(p, heap, Frame.closure, Frame.ip) \in Nat \ {0}
      /\ CapturedAt(p, heap, Frame.closure, Frame.ip) \subseteq 0 .. HeightAt(p, heap, Frame.closure, Frame.ip) - 1
      /\ Frame.ip \in Nat /\ Takes(Ins) \in Nat
  BY <1>1, <1>7, PlannedFacts DEF p, Ins
<1>9. IsClosureObject(p, heap, upvalues, heap[Frame.closure]) /\ Frame.closure \in 1 .. Len(heap)
  <2>1. Frame.closure \in 1 .. Len(heap) /\ heap[Frame.closure].kind = "closure"
    BY <1>7 DEF Located
  <2>2. Objects(p, heap, upvalues)
    BY <1>4 DEF DataInv, Data, p
  <2>3. QED
    BY <2>1, <2>2 DEF Objects, IsArrayObject
<1>10. OperandsFit(heap[Frame.closure].fn, Ins, Height, p) /\ Takes(Ins) < Height
  BY <1>8 DEF KeepsPlan, Height, HeightAt, Ins, p
<1>11. Filled(heap, stack) /\ Len(stack) \in Nat
  BY <1>4, SequenceFacts DEF DataInv, Data, Filled
<1>12. top = Frame.slots + Height - 1 /\ top \in Nat
  BY <1>5, <1>6, <1>7, <1>8 DEF Ceiling, Height, p
<1>13. QED
  BY <1>1, <1>2, <1>3, <1>4, <1>5, <1>6, <1>7, <1>8, <1>9, <1>10, <1>11, <1>12 DEF AtFrame, Height, Captive, p

\* The frames after a step to m.
Moved(fs, m) == fs = [frames EXCEPT ![Act.frame] = SteppedFrame(Frame, m)]

LEMMA FrameSteps ==
    ASSUME AtFrame, NEW m \in Nexts(Frame.ip, Ins), NEW k, Grows(heap, k),
           NEW fs, Moved(fs, m)
    PROVE  /\ FrameAt(frames, fs, frameCount, SteppedFrame(Frame, m))
           /\ IsFrame(session.plan, k, SteppedFrame(Frame, m))
           /\ Ceiling(session.plan, k, SteppedFrame(Frame, m)) = top - Takes(Ins) + Leaves(Ins)
           /\ CapturedAt(session.plan, k, Frame.closure, m) = CapturedAt(session.plan, heap, Frame.closure, m)
           /\ CapturedAfter(Ins, Height, Captive) \subseteq CapturedAt(session.plan, k, Frame.closure, m)
           /\ Ins[1] = "CALL" => Waits(session.plan, k, SteppedFrame(Frame, m))
           /\ Sequence(fs) /\ Len(fs) = Len(frames)
<1> DEFINE p == session.plan  f == SteppedFrame(Frame, m)
<1>0. f.closure = Frame.closure /\ f.ip = m /\ f.slots = Frame.slots
  BY DEF SteppedFrame
<1>1. Located(p, heap, Frame.closure, Frame.ip) /\ Frame.slots \in Nat \ {0} /\ PlansKept(p)
  BY DEF AtFrame, IsFrame
<1>2. /\ Located(p, heap, Frame.closure, m)
      /\ HeightAt(p, heap, Frame.closure, m) = Height - Takes(Ins) + Leaves(Ins)
      /\ CapturedAfter(Ins, Height, Captive) \subseteq CapturedAt(p, heap, Frame.closure, m)
      /\ Ins[1] = "CALL" => HeightAt(p, heap, Frame.closure, m) - 1 \notin CapturedAt(p, heap, Frame.closure, m)
  BY <1>1, NextPlanned DEF Ins, Height, Captive
<1>3. /\ Located(p, k, Frame.closure, m)
      /\ HeightAt(p, k, Frame.closure, m) = HeightAt(p, heap, Frame.closure, m)
      /\ CapturedAt(p, k, Frame.closure, m) = CapturedAt(p, heap, Frame.closure, m)
  BY <1>2, LocatedGrows
<1>4. IsFrame(p, k, f)
  BY <1>0, <1>1, <1>3 DEF IsFrame, SteppedFrame
<1>5. Ceiling(p, k, f) = top - Takes(Ins) + Leaves(Ins)
  <2>1. Leaves(Ins) \in Nat
    BY DEF Leaves
  <2>2. Takes(Ins) \in Nat /\ Height \in Nat /\ Frame.slots \in Nat /\ top = Frame.slots + Height - 1
    BY DEF AtFrame
  <2>3. Ceiling(p, k, f) = Frame.slots + (Height - Takes(Ins) + Leaves(Ins)) - 1
    BY <1>0, <1>2, <1>3 DEF Ceiling
  <2>4. QED
    BY <2>1, <2>2, <2>3
<1>6. FrameAt(frames, fs, frameCount, f) /\ Sequence(fs) /\ Len(fs) = Len(frames)
  <2>1. frameCount \in 1 .. Len(frames) /\ Sequence(frames) /\ Act.frame = frameCount /\ Len(frames) \in Nat
    BY SequenceFacts DEF AtFrame
  <2> HIDE DEF f
  <2>2. /\ Sequence(fs) /\ Len(fs) = Len(frames) /\ fs[frameCount] = f
        /\ \A j \in 1 .. Len(frames) : j # frameCount => fs[j] = frames[j]
    <3>1. \A x : /\ Sequence([frames EXCEPT ![frameCount] = x])
                 /\ Len([frames EXCEPT ![frameCount] = x]) = Len(frames)
                 /\ [frames EXCEPT ![frameCount] = x][frameCount] = x
                 /\ \A j \in 1 .. Len(frames) : j # frameCount => [frames EXCEPT ![frameCount] = x][j] = frames[j]
      BY <2>1, ExceptFacts
    <3>2. fs = [frames EXCEPT ![frameCount] = f]
      BY <2>1 DEF f, Moved
    <3>3. QED
      BY <3>1, <3>2, Zenon
  <2>3. QED
    BY <2>1, <2>2 DEF FrameAt
<1>7. Ins[1] = "CALL" => Waits(p, k, f)
  BY <1>0, <1>2, <1>3 DEF Waits
<1>8. QED
  BY <1>2, <1>3, <1>4, <1>5, <1>6, <1>7

\* The control after a step.
LEMMA StepControl ==
    ASSUME AtFrame, NEW m \in Nexts(Frame.ip, Ins), NEW k, Grows(heap, k),
           NEW fs, Moved(fs, m)
    PROVE  Control(session.plan, k, fs, frameCount, acts, top - Takes(Ins) + Leaves(Ins))
<1> DEFINE p == session.plan  f == SteppedFrame(Frame, m)
<1>1. /\ FrameAt(frames, fs, frameCount, f) /\ IsFrame(p, k, f)
      /\ Ceiling(p, k, f) = top - Takes(Ins) + Leaves(Ins)
  BY FrameSteps
<1>2. f.slots = frames[frameCount].slots
  BY DEF SteppedFrame, AtFrame
<1> HIDE DEF f
<1>3. Control(p, k, frames, frameCount, acts, top)
  BY ControlGrows DEF AtFrame
<1>4. Control(p, k, fs, frameCount, acts, Ceiling(p, k, f))
  BY <1>1, <1>2, <1>3, StepMove DEF AtFrame
<1>5. QED
  BY <1>1, <1>4

\* The slots in the list are planned for after a step: those of the frames
\* below, and those of this one that are still captured.
LEMMA StepSlots ==
    ASSUME AtFrame, NEW m \in Nexts(Frame.ip, Ins), NEW k, Grows(heap, k),
           NEW fs, Moved(fs, m),
           NEW us, NEW open,
           \A n \in 1 .. Len(open) :
              \/ us[open[n]].at - Frame.slots \in CapturedAfter(Ins, Height, Captive)
              \/ \E i \in 1 .. frameCount - 1 :
                    us[open[n]].at - frames[i].slots \in CapturedAt(session.plan, heap, frames[i].closure, frames[i].ip)
    PROVE  SlotsPlanned(session.plan, k, fs, frameCount, us, open)
<1> DEFINE p == session.plan  f == SteppedFrame(Frame, m)
<1>1. /\ FrameAt(frames, fs, frameCount, f)
      /\ CapturedAfter(Ins, Height, Captive) \subseteq CapturedAt(p, k, Frame.closure, m)
  BY FrameSteps
<1>2. f.slots = Frame.slots /\ f.closure = Frame.closure /\ f.ip = m
  BY DEF SteppedFrame
<1>3. frameCount \in Nat /\ frameCount >= 1 /\ frameCount \in 1 .. frameCount
  BY DEF AtFrame
<1> SUFFICES ASSUME NEW n \in 1 .. Len(open)
             PROVE  \E i \in 1 .. frameCount : us[open[n]].at - fs[i].slots \in CapturedAt(p, k, fs[i].closure, fs[i].ip)
  BY DEF SlotsPlanned
<1>4. CASE us[open[n]].at - Frame.slots \in CapturedAfter(Ins, Height, Captive)
  <2>1. us[open[n]].at - fs[frameCount].slots \in CapturedAt(p, k, fs[frameCount].closure, fs[frameCount].ip)
    BY <1>1, <1>2, <1>4 DEF FrameAt
  <2>2. QED
    BY <2>1, <1>3
<1>5. CASE \E i \in 1 .. frameCount - 1 :
              us[open[n]].at - frames[i].slots \in CapturedAt(p, heap, frames[i].closure, frames[i].ip)
  <2>1. PICK i \in 1 .. frameCount - 1 :
              us[open[n]].at - frames[i].slots \in CapturedAt(p, heap, frames[i].closure, frames[i].ip)
    BY <1>5
  <2>2. i \in 1 .. frameCount /\ fs[i] = frames[i]
    BY <1>1, <1>3 DEF FrameAt
  <2>3. Located(p, heap, frames[i].closure, frames[i].ip)
    BY <2>2 DEF AtFrame, Control, Stacked, IsFrame
  <2>4. CapturedAt(p, k, frames[i].closure, frames[i].ip) = CapturedAt(p, heap, frames[i].closure, frames[i].ip)
    <3>1. \A c, ip : Located(p, heap, c, ip) => CapturedAt(p, k, c, ip) = CapturedAt(p, heap, c, ip)
      BY LocatedGrows
    <3>2. QED
      BY <2>3, <3>1, Zenon
  <2>5. QED
    BY <2>1, <2>2, <2>4
<1>6. QED
  BY <1>4, <1>5

\* A step of the interpreter keeps the invariant, if data and list are kept.
LEMMA StepDone ==
    ASSUME IInv, AtFrame, NEW m \in Nexts(Frame.ip, Ins), Moved(frames', m), UNCHANGED control,
           Grows(heap, heap'), top' = top - Takes(Ins) + Leaves(Ins), top' <= Len(stack'),
           DataInv', Listing(upvalues', openUpvalues', forgotten),
           \A n \in 1 .. Len(openUpvalues') :
              \/ upvalues'[openUpvalues'[n]].at - Frame.slots \in CapturedAfter(Ins, Height, Captive)
              \/ \E i \in 1 .. frameCount - 1 :
                    upvalues'[openUpvalues'[n]].at - frames[i].slots
                       \in CapturedAt(session.plan, heap, frames[i].closure, frames[i].ip)
    PROVE  IInv'
<1>0. /\ session' = session /\ taken' = taken /\ status' = status /\ acts' = acts
      /\ frameCount' = frameCount /\ forgotten' = forgotten /\ strayed' = strayed
  BY DEF control
<1>1. Control(session.plan, heap', frames', frameCount, acts, top - Takes(Ins) + Leaves(Ins))
  BY StepControl
<1>2. SlotsPlanned(session.plan, heap', frames', frameCount, upvalues', openUpvalues')
  BY StepSlots
<1>3. Running'
  BY <1>0, <1>1 DEF Running, AtFrame
<1>4. ListInv'
  BY <1>0, <1>2 DEF ListInv
<1>5. InputInv'
  BY <1>0 DEF IInv, InputInv
<1>6. QED
  BY <1>3, <1>4, <1>5 DEF IInv, VMInv

\* The same when no upvalue is opened, closed or left.
LEMMA ListKept ==
    ASSUME AtFrame, Ins[1] \notin {"CLOSURE", "CLOSE_UPVALUE"},
           NEW us, Len(us) = Len(upvalues), \A u \in 1 .. Len(us) : us[u].at = upvalues[u].at
    PROVE  /\ Listing(us, openUpvalues, forgotten)
           /\ \A n \in 1 .. Len(openUpvalues) :
                 \/ us[openUpvalues[n]].at - Frame.slots \in CapturedAfter(Ins, Height, Captive)
                 \/ \E i \in 1 .. frameCount - 1 :
                       us[openUpvalues[n]].at - frames[i].slots
                          \in CapturedAt(session.plan, heap, frames[i].closure, frames[i].ip)
<1>1. /\ Listing(upvalues, openUpvalues, forgotten)
      /\ SlotsPlanned(session.plan, heap, frames, frameCount, upvalues, openUpvalues)
  BY DEF AtFrame, ListInv
<1>2. Listing(us, openUpvalues, forgotten)
  BY <1>1 DEF Listing
<1>3. CapturedAfter(Ins, Height, Captive) = Captive
  BY DEF CapturedAfter
<1>4. ASSUME NEW n \in 1 .. Len(openUpvalues)
      PROVE  \/ us[openUpvalues[n]].at - Frame.slots \in CapturedAfter(Ins, Height, Captive)
             \/ \E i \in 1 .. frameCount - 1 :
                   us[openUpvalues[n]].at - frames[i].slots
                      \in CapturedAt(session.plan, heap, frames[i].closure, frames[i].ip)
  <2>1. PICK i \in 1 .. frameCount : upvalues[openUpvalues[n]].at - frames[i].slots
                                        \in CapturedAt(session.plan, heap, frames[i].closure, frames[i].ip)
    BY <1>1 DEF SlotsPlanned
  <2>2. openUpvalues[n] \in 1 .. Len(us)
    BY <1>1 DEF Listing
  <2>3. us[openUpvalues[n]].at = upvalues[openUpvalues[n]].at
    BY <2>2
  <2>4. CASE i = frameCount
    BY <2>1, <2>3, <2>4, <1>3 DEF AtFrame, Captive
  <2>5. CASE i # frameCount
    <3>1. i \in 1 .. frameCount - 1
      BY <2>5 DEF AtFrame
    <3>2. QED
      BY <3>1, <2>1, <2>3
  <2>6. QED
    BY <2>4, <2>5
<1>5. QED
  BY <1>2, <1>4

LEMMA StepKeeps ==
    ASSUME IInv, AtFrame, NEW m \in Nexts(Frame.ip, Ins), Moved(frames', m), UNCHANGED control,
           Grows(heap, heap'), top' = top - Takes(Ins) + Leaves(Ins), top' <= Len(stack'),
           DataInv', openUpvalues' = openUpvalues, Ins[1] \notin {"CLOSURE", "CLOSE_UPVALUE"},
           Len(upvalues') = Len(upvalues), \A u \in 1 .. Len(upvalues') : upvalues'[u].at = upvalues[u].at
    PROVE  IInv'
BY ListKept, StepDone

\* Where Advance and Jump lead.
LEMMA JumpMoves ==
    ASSUME AtFrame, NEW distance, Jump(distance)
    PROVE  Moved(frames', Frame.ip + 1 + distance)
<1> DEFINE a == Act.frame  m == frames[a].ip + 1 + distance
<1>1. frames' = [frames EXCEPT ![a] = [frames[a] EXCEPT !.ip = m]]
  BY DEF Jump, Stepped
<1>2. frames[a] = [closure |-> frames[a].closure, ip |-> frames[a].ip, slots |-> frames[a].slots]
  BY DEF AtFrame, IsFrame, Frame
<1> HIDE DEF m
<1>3. [frames[a] EXCEPT !.ip = m] = [closure |-> frames[a].closure, ip |-> m, slots |-> frames[a].slots]
  BY <1>2
<1>4. QED
  BY <1>1, <1>3 DEF Moved, SteppedFrame, Frame, m

\* Instructions that the next one follows.
Leaps == {"RETURN", "JUMP", "JUMP_IF_FALSE", "LOOP", "LOOP_INCR_LESS", "LOOP_INCR_LEQ"}

LEMMA AdvanceMoves ==
    ASSUME AtFrame, Advance, Ins[1] \notin Leaps
    PROVE  Frame.ip + 1 \in Nexts(Frame.ip, Ins) /\ Moved(frames', Frame.ip + 1)
<1>1. Moved(frames', Frame.ip + 1 + 0)
  BY JumpMoves DEF Advance
<1>2. Frame.ip + 1 + 0 = Frame.ip + 1
  BY DEF AtFrame
<1>3. Frame.ip + 1 \in Nexts(Frame.ip, Ins)
  BY DEF Nexts, Leaps
<1>4. QED
  BY <1>1, <1>2, <1>3

\* A step of an instruction that leaves the upvalues alone.
LEMMA HeapStep ==
    ASSUME IInv, AtFrame, NEW m \in Nexts(Frame.ip, Ins), Moved(frames', m), UNCHANGED control,
           Ins[1] \notin {"CLOSURE", "CLOSE_UPVALUE"}, UNCHANGED <<upvalues, openUpvalues>>,
           Grows(heap, heap'), Objects(session.plan, heap', upvalues), NamesGood(heap', globals'),
           Filled(heap', stack'), Len(stack') >= Len(stack), Len(stack') \in Nat,
           top' = top - Takes(Ins) + Leaves(Ins), top' <= Len(stack')
    PROVE  IInv'
<1>1. Upvals(heap, upvalues, Len(stack)) /\ Len(stack) \in Nat
  BY DEF AtFrame, DataInv, Data
<1>2. Upvals(heap', upvalues, Len(stack))
  BY <1>1, FilledGrows
<1>3. Upvals(heap', upvalues, Len(stack'))
  BY <1>1, <1>2 DEF Upvals
<1>4. session' = session
  BY DEF control
<1>5. DataInv'
  BY <1>3, <1>4 DEF DataInv, Data
<1>6. QED
  BY <1>5, StepKeeps

LEMMA ReplaceStep ==
    ASSUME IInv, AtFrame, Ins[1] \notin Leaps \cup {"CLOSURE", "CLOSE_UPVALUE"}, Advance,
           UNCHANGED control, UNCHANGED <<upvalues, openUpvalues, globals>>,
           Grows(heap, heap'), Objects(session.plan, heap', upvalues),
           NEW n, n = Takes(Ins), Leaves(Ins) = 1, NEW v, Good(heap', v), Replace(n, v)
    PROVE  IInv'
<1>1. Frame.ip + 1 \in Nexts(Frame.ip, Ins) /\ Moved(frames', Frame.ip + 1)
  BY AdvanceMoves
<1>2. n \in Nat /\ n < Height /\ top \in Nat /\ top = Frame.slots + Height - 1 /\ top <= Len(stack)
         /\ Len(stack) \in Nat /\ Frame.slots \in Nat \ {0} /\ Height \in Nat
  BY DEF AtFrame
<1>3. top - n + 1 \in 1 .. Len(stack) + 1
  BY <1>2
<1>4. Filled(heap', stack) /\ NamesGood(heap', globals)
  BY FilledGrows DEF AtFrame, DataInv, Data
<1>5. stack' = Put(stack, top - n + 1, v) /\ top' = top - n + 1
  BY DEF Replace
<1>6. /\ Filled(heap', stack') /\ Len(stack') \in Nat
      /\ Len(stack') >= top - n + 1 /\ Len(stack') >= Len(stack)
  BY <1>3, <1>4, <1>5, FilledPut
<1>7. QED
  BY <1>1, <1>4, <1>5, <1>6, HeapStep

LEMMA PushStep ==
    ASSUME IInv, AtFrame, Ins[1] \notin Leaps \cup {"CLOSURE", "CLOSE_UPVALUE"}, Advance,
           UNCHANGED <<control, data>>, Takes(Ins) = 0, Leaves(Ins) = 1, NEW v, Good(heap, v), Push(v)
    PROVE  IInv'
<1>1. Objects(session.plan, heap, upvalues) /\ Grows(heap, heap)
  BY SameGrows DEF AtFrame, DataInv, Data, Objects
<1>2. QED
  BY <1>1, ReplaceStep DEF Push, control, data

\* An operator takes n operands and leaves its result.
LEMMA OperatorStep ==
    ASSUME IInv, AtFrame, Ins[1] \notin Leaps \cup {"CLOSURE", "CLOSE_UPVALUE"}, Advance,
           UNCHANGED <<control, data>>, NEW n, Takes(Ins) = n, Leaves(Ins) = 1,
           NEW v, Good(heap, v), Replace(n, v)
    PROVE  IInv'
<1>1. Objects(session.plan, heap, upvalues) /\ Grows(heap, heap)
  BY SameGrows DEF AtFrame, DataInv, Data, Objects
<1>2. QED
  BY <1>1, ReplaceStep DEF control, data

\* Operands are taken, and nothing is left.
LEMMA DropStep ==
    ASSUME IInv, AtFrame, Ins[1] \notin Leaps \cup {"CLOSURE", "CLOSE_UPVALUE"}, Advance,
           UNCHANGED control, UNCHANGED <<upvalues, openUpvalues, stack>>,
           Grows(heap, heap'), Objects(session.plan, heap', upvalues), NamesGood(heap', globals'),
           Leaves(Ins) = 0, NEW n, n = Takes(Ins), top' = top - n
    PROVE  IInv'
<1>1. Frame.ip + 1 \in Nexts(Frame.ip, Ins) /\ Moved(frames', Frame.ip + 1)
  BY AdvanceMoves
<1>2. n \in Nat /\ top \in Nat /\ top <= Len(stack) /\ Len(stack) \in Nat
  BY DEF AtFrame
<1>3. Filled(heap', stack)
  BY FilledGrows DEF AtFrame
<1>4. top' = top - Takes(Ins) + Leaves(Ins) /\ top' <= Len(stack)
  BY <1>2
<1>5. QED
  BY <1>1, <1>2, <1>3, <1>4, HeapStep

\* What lies where, and is a value.
LEMMA Operands0 ==
    ASSUME AtFrame
    PROVE  /\ \A i \in 1 .. Len(stack) : Good(heap, stack[i])
           /\ \A d \in Nat : d < Height => top - d \in 1 .. Len(stack) /\ Good(heap, Peek(d))
           /\ \A n \in 0 .. Height - 1 : Frame.slots + n \in 1 .. Len(stack) /\ Good(heap, Slot(n))
<1>1. \A i \in 1 .. Len(stack) : Good(heap, stack[i])
  BY DEF AtFrame, Filled
<1>2. Frame.slots \in Nat \ {0} /\ Height \in Nat /\ top = Frame.slots + Height - 1 /\ top <= Len(stack) /\ Len(stack) \in Nat
  BY DEF AtFrame
<1>3. ASSUME NEW d \in Nat, d < Height PROVE top - d \in 1 .. Len(stack)
  BY <1>2, <1>3
<1>4. ASSUME NEW n \in 0 .. Height - 1 PROVE Frame.slots + n \in 1 .. Len(stack)
  BY <1>2
<1>5. QED
  BY <1>1, <1>3, <1>4 DEF Peek, Slot

-----------------------------------------------------------------------------
(* 8. The instructions *)

LEMMA ConstantKeeps == IInv /\ ~strayed /\ Constant => IInv'
<1> SUFFICES ASSUME IInv, ~strayed, Constant PROVE IInv'
  OBVIOUS
<1>1. AtFrame /\ Ins[1] = "CONSTANT"
  BY Interpreted DEF Constant, Fetch
<1>2. Good(heap, Ins[2])
  BY <1>1 DEF AtFrame, OperandsFit, Good
<1>3. Takes(Ins) = 0 /\ Leaves(Ins) = 1 /\ Ins[1] \notin Leaps \cup {"CLOSURE", "CLOSE_UPVALUE"}
  BY <1>1 DEF Takes, Leaves, Leaps
<1>4. Push(Ins[2]) /\ Advance /\ UNCHANGED <<control, data>>
  BY DEF Constant
<1>5. QED
  BY <1>1, <1>2, <1>3, <1>4, PushStep

LEMMA PopKeeps == IInv /\ ~strayed /\ Pop => IInv'
<1> SUFFICES ASSUME IInv, ~strayed, Pop PROVE IInv'
  OBVIOUS
<1>1. AtFrame /\ Ins[1] = "POP"
  BY Interpreted DEF Pop, Fetch
<1>2. Takes(Ins) = 1 /\ Leaves(Ins) = 0 /\ Ins[1] \notin Leaps \cup {"CLOSURE", "CLOSE_UPVALUE"}
  BY <1>1 DEF Takes, Leaves, Leaps
<1>3. Objects(session.plan, heap, upvalues) /\ Grows(heap, heap) /\ NamesGood(heap, globals)
  BY <1>1, SameGrows DEF AtFrame, DataInv, Data, Objects
<1>4. /\ top' = top - 1 /\ Advance /\ UNCHANGED control /\ UNCHANGED <<upvalues, openUpvalues, stack>>
      /\ heap' = heap /\ globals' = globals
  BY DEF Pop, data
<1>5. QED
  BY <1>1, <1>2, <1>3, <1>4, DropStep

LEMMA GetLocalKeeps == IInv /\ ~strayed /\ GetLocal => IInv'
<1> SUFFICES ASSUME IInv, ~strayed, GetLocal PROVE IInv'
  OBVIOUS
<1>1. AtFrame /\ Ins[1] = "GET_LOCAL"
  BY Interpreted DEF GetLocal, Fetch
<1>2. Good(heap, Slot(Ins[2]))
  BY <1>1, Operands0 DEF AtFrame, OperandsFit
<1>3. Takes(Ins) = 0 /\ Leaves(Ins) = 1 /\ Ins[1] \notin Leaps \cup {"CLOSURE", "CLOSE_UPVALUE"}
  BY <1>1 DEF Takes, Leaves, Leaps
<1>4. Push(Slot(Ins[2])) /\ Advance /\ UNCHANGED <<control, data>>
  BY DEF GetLocal
<1>5. QED
  BY <1>1, <1>2, <1>3, <1>4, PushStep

\* Something is written below the top.
LEMMA WriteStep ==
    ASSUME IInv, AtFrame, NEW m \in Nexts(Frame.ip, Ins), Moved(frames', m),
           Ins[1] \notin {"CLOSURE", "CLOSE_UPVALUE"}, UNCHANGED <<control, data>>,
           top' = top, Takes(Ins) = Leaves(Ins),
           NEW i \in 1 .. Len(stack), NEW v, Good(heap, v), stack' = [stack EXCEPT ![i] = v]
    PROVE  IInv'
<1>1. Filled(heap, stack) /\ Len(stack) \in Nat /\ Takes(Ins) \in Nat /\ top \in Nat /\ top <= Len(stack)
  BY DEF AtFrame
<1>2. Filled(heap, stack') /\ Len(stack') = Len(stack)
  <2>1. Filled(heap, stack')
    BY <1>1, FilledWrite
  <2>2. Len(stack') = Len(stack)
    BY <1>1, FilledWrite
  <2>3. QED
    BY <2>1, <2>2
<1>3. Objects(session.plan, heap, upvalues) /\ Grows(heap, heap) /\ NamesGood(heap, globals)
  BY SameGrows DEF AtFrame, DataInv, Data, Objects
<1>4. /\ UNCHANGED control /\ UNCHANGED <<upvalues, openUpvalues>> /\ heap' = heap /\ globals' = globals
  BY DEF data
<1>5. top' = top - Takes(Ins) + Leaves(Ins) /\ top' <= Len(stack') /\ Len(stack') >= Len(stack)
  BY <1>1, <1>2
<1>6. QED
  BY <1>1, <1>2, <1>3, <1>4, <1>5, HeapStep

LEMMA SetLocalKeeps == IInv /\ ~strayed /\ SetLocal => IInv'
<1> SUFFICES ASSUME IInv, ~strayed, SetLocal PROVE IInv'
  OBVIOUS
<1>1. AtFrame /\ Ins[1] = "SET_LOCAL"
  BY Interpreted DEF SetLocal, Fetch
<1>2. Takes(Ins) = 1 /\ Leaves(Ins) = 1 /\ Ins[1] \notin Leaps \cup {"CLOSURE", "CLOSE_UPVALUE"}
  BY <1>1 DEF Takes, Leaves, Leaps
<1>3. Good(heap, Peek(0)) /\ Frame.slots + Ins[2] \in 1 .. Len(stack)
  <2>1. 0 < Height /\ Ins[2] \in 0 .. Height - 1
    BY <1>1, <1>2 DEF AtFrame, OperandsFit
  <2>2. QED
    BY <1>1, <2>1, Operands0
<1>4. Frame.ip + 1 \in Nexts(Frame.ip, Ins) /\ Moved(frames', Frame.ip + 1)
  BY <1>1, <1>2, AdvanceMoves DEF SetLocal
<1>5. UNCHANGED <<control, data>> /\ top' = top /\ stack' = [stack EXCEPT ![Frame.slots + Ins[2]] = Peek(0)]
  BY DEF SetLocal
<1>6. QED
  BY <1>1, <1>2, <1>3, <1>4, <1>5, WriteStep

LEMMA GetGlobalKeeps == IInv /\ ~strayed /\ GetGlobal => IInv'
<1> SUFFICES ASSUME IInv, ~strayed, GetGlobal PROVE IInv'
  OBVIOUS
<1>1. AtFrame /\ Ins[1] = "GET_GLOBAL"
  BY Interpreted DEF GetGlobal, Fetch
<1>2. Good(heap, globals[Ins[2]])
  BY <1>1 DEF GetGlobal, AtFrame, DataInv, Data, NamesGood
<1>3. Takes(Ins) = 0 /\ Leaves(Ins) = 1 /\ Ins[1] \notin Leaps \cup {"CLOSURE", "CLOSE_UPVALUE"}
  BY <1>1 DEF Takes, Leaves, Leaps
<1>4. Push(globals[Ins[2]]) /\ Advance /\ UNCHANGED <<control, data>>
  BY DEF GetGlobal
<1>5. QED
  BY <1>1, <1>2, <1>3, <1>4, PushStep

LEMMA DefineGlobalKeeps == IInv /\ ~strayed /\ DefineGlobal => IInv'
<1> SUFFICES ASSUME IInv, ~strayed, DefineGlobal PROVE IInv'
  OBVIOUS
<1>1. AtFrame /\ Ins[1] = "DEFINE_GLOBAL"
  BY Interpreted DEF DefineGlobal, Fetch
<1>2. Takes(Ins) = 1 /\ Leaves(Ins) = 0 /\ Ins[1] \notin Leaps \cup {"CLOSURE", "CLOSE_UPVALUE"}
  BY <1>1 DEF Takes, Leaves, Leaps
<1>3. Objects(session.plan, heap, upvalues) /\ Grows(heap, heap) /\ NamesGood(heap, globals)
  BY <1>1, SameGrows DEF AtFrame, DataInv, Data, Objects
<1>4. Good(heap, Peek(0))
  BY <1>1, Operands0 DEF AtFrame
<1>5. /\ top' = top - 1 /\ Advance /\ UNCHANGED control /\ UNCHANGED <<upvalues, openUpvalues, stack>>
      /\ heap' = heap /\ globals' = Assigned(Ins[2], Peek(0))
  BY DEF DefineGlobal
<1>6. NamesGood(heap, globals')
  BY <1>3, <1>4, <1>5, AssignedGood
<1>7. QED
  BY <1>1, <1>2, <1>3, <1>5, <1>6, DropStep

LEMMA SetGlobalKeeps == IInv /\ ~strayed /\ SetGlobal => IInv'
<1> SUFFICES ASSUME IInv, ~strayed, SetGlobal PROVE IInv'
  OBVIOUS
<1>1. AtFrame /\ Ins[1] = "SET_GLOBAL"
  BY Interpreted DEF SetGlobal, Fetch
<1>2. Takes(Ins) = 1 /\ Leaves(Ins) = 1 /\ Ins[1] \notin Leaps \cup {"CLOSURE", "CLOSE_UPVALUE"}
  BY <1>1 DEF Takes, Leaves, Leaps
<1>3. /\ Objects(session.plan, heap, upvalues) /\ Grows(heap, heap) /\ NamesGood(heap, globals)
      /\ Filled(heap, stack) /\ Len(stack) \in Nat /\ top \in Nat /\ top <= Len(stack)
  BY <1>1, SameGrows DEF AtFrame, DataInv, Data, Objects
<1>4. Good(heap, Peek(0))
  BY <1>1, Operands0 DEF AtFrame
<1>5. /\ top' = top /\ Advance /\ UNCHANGED control /\ UNCHANGED <<upvalues, openUpvalues>> /\ stack' = stack
      /\ heap' = heap /\ globals' = Assigned(Ins[2], Peek(0))
  BY DEF SetGlobal
<1>6. NamesGood(heap, globals')
  BY <1>3, <1>4, <1>5, AssignedGood
<1>7. Frame.ip + 1 \in Nexts(Frame.ip, Ins) /\ Moved(frames', Frame.ip + 1)
  BY <1>1, <1>2, <1>5, AdvanceMoves
<1>8. top' = top - Takes(Ins) + Leaves(Ins)
  BY <1>2, <1>3, <1>5
<1>9. QED
  BY <1>1, <1>2, <1>3, <1>5, <1>6, <1>7, <1>8, HeapStep

\* What an upvalue stands for, open or closed.
LEMMA CapturedGood ==
    ASSUME DataInv, NEW u \in 1 .. Len(upvalues)
    PROVE  Good(heap, Captured(u))
<1>1. /\ upvalues[u].at \in 0 .. Len(stack) /\ Good(heap, upvalues[u].closed) /\ Filled(heap, stack)
  BY DEF DataInv, Data, Upvals
<1>2. Len(stack) \in Nat
  BY <1>1, SequenceFacts DEF Filled
<1>3. upvalues[u].at > 0 => upvalues[u].at \in 1 .. Len(stack)
  BY <1>1, <1>2
<1>4. QED
  BY <1>1, <1>3 DEF Captured, Filled

LEMMA SetCapturedKeeps ==
    ASSUME DataInv, NEW u \in 1 .. Len(upvalues), NEW v, Good(heap, v), SetCaptured(u, v)
    PROVE  /\ Filled(heap, stack') /\ Len(stack') = Len(stack) /\ Len(upvalues') = Len(upvalues)
           /\ Upvals(heap, upvalues', Len(stack))
           /\ \A w \in 1 .. Len(upvalues) : upvalues'[w].at = upvalues[w].at
<1>1. Upvals(heap, upvalues, Len(stack)) /\ Filled(heap, stack)
  BY DEF DataInv, Data
<1>2. CASE upvalues[u].at > 0
  <2>1. Len(stack) \in Nat
    BY <1>1, SequenceFacts DEF Filled
  <2>2. upvalues[u].at \in 1 .. Len(stack)
    <3>1. upvalues[u].at \in 0 .. Len(stack)
      BY <1>1 DEF Upvals
    <3>2. QED
      BY <3>1, <2>1, <1>2
  <2>3. stack' = [stack EXCEPT ![upvalues[u].at] = v] /\ upvalues' = upvalues
    BY <1>2 DEF SetCaptured
  <2>4. Filled(heap, stack')
    BY <1>1, <2>2, <2>3, FilledWrite
  <2>5. Len(stack') = Len(stack)
    BY <1>1, <2>2, <2>3, FilledWrite
  <2>6. QED
    BY <1>1, <2>3, <2>4, <2>5
<1>3. CASE ~(upvalues[u].at > 0)
  <2>1. stack' = stack /\ upvalues' = [upvalues EXCEPT ![u].closed = v]
    BY <1>3 DEF SetCaptured
  <2> DEFINE new == [upvalues[u] EXCEPT !.closed = v]
  <2>2. upvalues' = [upvalues EXCEPT ![u] = new]
    BY <2>1
  <2>3. upvalues[u] = [at |-> upvalues[u].at, closed |-> upvalues[u].closed]
    BY <1>1 DEF Upvals
  <2>4. new = [at |-> upvalues[u].at, closed |-> v]
    BY <2>3
  <2> HIDE DEF new
  <2>5. /\ Sequence(upvalues') /\ Len(upvalues') = Len(upvalues) /\ upvalues'[u] = new
        /\ \A w \in 1 .. Len(upvalues) : w # u => upvalues'[w] = upvalues[w]
    <3>1. /\ Sequence([upvalues EXCEPT ![u] = new]) /\ Len([upvalues EXCEPT ![u] = new]) = Len(upvalues)
          /\ [upvalues EXCEPT ![u] = new][u] = new
          /\ \A w \in 1 .. Len(upvalues) : w # u => [upvalues EXCEPT ![u] = new][w] = upvalues[w]
      BY <1>1, ExceptFacts DEF Upvals
    <3>2. QED
      BY <2>2, <3>1, Zenon
  <2>6. new.at = upvalues[u].at /\ new.closed = v /\ new = [at |-> new.at, closed |-> new.closed]
    BY <2>4
  <2>7. Upvals(heap, upvalues', Len(stack))
    <3>1. ASSUME NEW w \in 1 .. Len(upvalues)
          PROVE  /\ upvalues'[w] = [at |-> upvalues'[w].at, closed |-> upvalues'[w].closed]
                 /\ upvalues'[w].at \in 0 .. Len(stack) /\ Good(heap, upvalues'[w].closed)
      <4>1. CASE w = u
        BY <4>1, <2>5, <2>6, <1>1 DEF Upvals
      <4>2. CASE w # u
        BY <4>2, <2>5, <1>1 DEF Upvals
      <4>3. QED
        BY <4>1, <4>2
    <3>2. QED
      BY <3>1, <2>5 DEF Upvals
  <2>8. \A w \in 1 .. Len(upvalues) : upvalues'[w].at = upvalues[w].at
    BY <2>5, <2>6
  <2>9. QED
    BY <1>1, <2>1, <2>5, <2>7, <2>8
<1>4. QED
  BY <1>2, <1>3

\* The upvalue that an instruction names.
LEMMA UpvalueThere ==
    ASSUME AtFrame, Ins[1] \in {"GET_UPVALUE", "SET_UPVALUE"}
    PROVE  Upvalue(Ins[2]) \in 1 .. Len(upvalues)
<1> DEFINE o == heap[Frame.closure]
<1>1. Ins[2] \in 0 .. Len(o.fn.upvalues) - 1
  BY DEF AtFrame, OperandsFit
<1>2. Len(o.upvalues) = Len(o.fn.upvalues) /\ Sequence(o.upvalues)
         /\ \A n \in 1 .. Len(o.upvalues) : o.upvalues[n] \in 1 .. Len(upvalues)
  BY DEF AtFrame, IsClosureObject
<1> HIDE DEF o
<1>3. Len(o.upvalues) \in Nat
  BY <1>2, SequenceFacts
<1>4. Ins[2] + 1 \in 1 .. Len(o.upvalues)
  BY <1>1, <1>2, <1>3
<1>5. QED
  BY <1>2, <1>4 DEF Upvalue, o

LEMMA GetUpvalueKeeps == IInv /\ ~strayed /\ GetUpvalue => IInv'
<1> SUFFICES ASSUME IInv, ~strayed, GetUpvalue PROVE IInv'
  OBVIOUS
<1>1. AtFrame /\ Ins[1] = "GET_UPVALUE"
  BY Interpreted DEF GetUpvalue, Fetch
<1>2. Good(heap, Captured(Upvalue(Ins[2])))
  BY <1>1, UpvalueThere, CapturedGood DEF AtFrame
<1>3. Takes(Ins) = 0 /\ Leaves(Ins) = 1 /\ Ins[1] \notin Leaps \cup {"CLOSURE", "CLOSE_UPVALUE"}
  BY <1>1 DEF Takes, Leaves, Leaps
<1>4. Push(Captured(Upvalue(Ins[2]))) /\ Advance /\ UNCHANGED <<control, data>>
  BY DEF GetUpvalue
<1>5. QED
  BY <1>1, <1>2, <1>3, <1>4, PushStep

LEMMA SetUpvalueKeeps == IInv /\ ~strayed /\ SetUpvalue => IInv'
<1> SUFFICES ASSUME IInv, ~strayed, SetUpvalue PROVE IInv'
  OBVIOUS
<1>1. AtFrame /\ Ins[1] = "SET_UPVALUE"
  BY Interpreted DEF SetUpvalue, Fetch
<1>2. Takes(Ins) = 1 /\ Leaves(Ins) = 1 /\ Ins[1] \notin Leaps \cup {"CLOSURE", "CLOSE_UPVALUE"}
  BY <1>1 DEF Takes, Leaves, Leaps
<1>3. /\ Objects(session.plan, heap, upvalues) /\ Grows(heap, heap) /\ NamesGood(heap, globals)
      /\ Len(stack) \in Nat /\ top \in Nat /\ top <= Len(stack) /\ DataInv
  BY <1>1, SameGrows DEF AtFrame, DataInv, Data, Objects
<1>4. Good(heap, Peek(0)) /\ Upvalue(Ins[2]) \in 1 .. Len(upvalues)
  BY <1>1, UpvalueThere, Operands0 DEF AtFrame
<1>5. /\ top' = top /\ Advance /\ UNCHANGED control /\ openUpvalues' = openUpvalues
      /\ heap' = heap /\ globals' = globals /\ SetCaptured(Upvalue(Ins[2]), Peek(0)) /\ session' = session
  BY DEF SetUpvalue, control
<1>6. /\ Filled(heap, stack') /\ Len(stack') = Len(stack) /\ Len(upvalues') = Len(upvalues)
      /\ Upvals(heap, upvalues', Len(stack))
      /\ \A w \in 1 .. Len(upvalues) : upvalues'[w].at = upvalues[w].at
  BY <1>3, <1>4, <1>5, SetCapturedKeeps
<1>7. Objects(session.plan, heap, upvalues')
  BY <1>3, <1>6, ObjectsMore
<1>8. DataInv'
  BY <1>3, <1>5, <1>6, <1>7 DEF DataInv, Data
<1>9. Frame.ip + 1 \in Nexts(Frame.ip, Ins) /\ Moved(frames', Frame.ip + 1)
  BY <1>1, <1>2, <1>5, AdvanceMoves
<1>10. top' = top - Takes(Ins) + Leaves(Ins)
  BY <1>2, <1>3, <1>5
<1>11. QED
  BY <1>1, <1>2, <1>3, <1>5, <1>6, <1>8, <1>9, <1>10, StepKeeps

LEMMA PrintTopKeeps == IInv /\ ~strayed /\ PrintTop => IInv'
<1> SUFFICES ASSUME IInv, ~strayed, PrintTop PROVE IInv'
  OBVIOUS
<1>1. AtFrame /\ Ins[1] = "PRINT"
  BY Interpreted DEF PrintTop, Fetch
<1>2. Takes(Ins) = 1 /\ Leaves(Ins) = 0 /\ Ins[1] \notin Leaps \cup {"CLOSURE", "CLOSE_UPVALUE"}
  BY <1>1 DEF Takes, Leaves, Leaps
<1>3. Objects(session.plan, heap, upvalues) /\ Grows(heap, heap) /\ NamesGood(heap, globals)
  BY <1>1, SameGrows DEF AtFrame, DataInv, Data, Objects
<1>4. /\ top' = top - 1 /\ Advance /\ UNCHANGED control /\ UNCHANGED <<upvalues, openUpvalues, stack>>
      /\ heap' = heap /\ globals' = globals
  BY DEF PrintTop, data
<1>5. QED
  BY <1>1, <1>2, <1>3, <1>4, DropStep

LEMMA EqualKeeps == IInv /\ ~strayed /\ Equal => IInv'
<1> SUFFICES ASSUME IInv, ~strayed, Equal PROVE IInv'
  OBVIOUS
<1>1. AtFrame /\ Ins[1] = "EQUAL"
  BY Interpreted DEF Equal, Fetch
<1>2. Takes(Ins) = 2 /\ Leaves(Ins) = 1 /\ Ins[1] \notin Leaps \cup {"CLOSURE", "CLOSE_UPVALUE"}
  BY <1>1 DEF Takes, Leaves, Leaps
<1>3. Replace(2, Bool(Peek(1) = Peek(0))) /\ Advance /\ UNCHANGED <<control, data>>
  BY DEF Equal
<1>4. QED
  BY <1>1, <1>2, <1>3, GoodPlain, OperatorStep

LEMMA CompareKeeps == IInv /\ ~strayed /\ Compare => IInv'
<1> SUFFICES ASSUME IInv, ~strayed, Compare PROVE IInv'
  OBVIOUS
<1>1. AtFrame /\ Ins[1] \in {"LESS", "GREATER"}
  BY Interpreted DEF Compare, Fetch
<1>2. Takes(Ins) = 2 /\ Leaves(Ins) = 1 /\ Ins[1] \notin Leaps \cup {"CLOSURE", "CLOSE_UPVALUE"}
  BY <1>1 DEF Takes, Leaves, Leaps
<1>3. PICK b : Replace(2, Bool(b))
  BY DEF Compare
<1>4. Advance /\ UNCHANGED <<control, data>>
  BY DEF Compare
<1>5. QED
  BY <1>1, <1>2, <1>3, <1>4, GoodPlain, OperatorStep

LEMMA AddKeeps == IInv /\ ~strayed /\ Add => IInv'
<1> SUFFICES ASSUME IInv, ~strayed, Add PROVE IInv'
  OBVIOUS
<1>1. AtFrame /\ Ins[1] = "ADD"
  BY Interpreted DEF Add, Fetch
<1>2. Takes(Ins) = 2 /\ Leaves(Ins) = 1 /\ Ins[1] \notin Leaps \cup {"CLOSURE", "CLOSE_UPVALUE"}
  BY <1>1 DEF Takes, Leaves, Leaps
<1>3. PICK v : Replace(2, v) /\ Good(heap, v)
  BY GoodPlain DEF Add
<1>4. Advance /\ UNCHANGED <<control, data>>
  BY DEF Add
<1>5. QED
  BY <1>1, <1>2, <1>3, <1>4, OperatorStep

LEMMA ArithmeticKeeps == IInv /\ ~strayed /\ Arithmetic => IInv'
<1> SUFFICES ASSUME IInv, ~strayed, Arithmetic PROVE IInv'
  OBVIOUS
<1>1. AtFrame /\ Ins[1] \in {"SUBTRACT", "MULTIPLY"}
  BY Interpreted DEF Arithmetic, Fetch
<1>2. Takes(Ins) = 2 /\ Leaves(Ins) = 1 /\ Ins[1] \notin Leaps \cup {"CLOSURE", "CLOSE_UPVALUE"}
  BY <1>1 DEF Takes, Leaves, Leaps
<1>3. PICK n : Replace(2, Num(n))
  BY DEF Arithmetic
<1>4. Advance /\ UNCHANGED <<control, data>>
  BY DEF Arithmetic
<1>5. QED
  BY <1>1, <1>2, <1>3, <1>4, GoodPlain, OperatorStep

LEMMA NotKeeps == IInv /\ ~strayed /\ Not => IInv'
<1> SUFFICES ASSUME IInv, ~strayed, Not PROVE IInv'
  OBVIOUS
<1>1. AtFrame /\ Ins[1] = "NOT"
  BY Interpreted DEF Not, Fetch
<1>2. Takes(Ins) = 1 /\ Leaves(Ins) = 1 /\ Ins[1] \notin Leaps \cup {"CLOSURE", "CLOSE_UPVALUE"}
  BY <1>1 DEF Takes, Leaves, Leaps
<1>3. Replace(1, Bool(IsFalsey(Peek(0)))) /\ Advance /\ UNCHANGED <<control, data>>
  BY DEF Not
<1>4. QED
  BY <1>1, <1>2, <1>3, GoodPlain, OperatorStep

LEMMA NegateKeeps == IInv /\ ~strayed /\ Negate => IInv'
<1> SUFFICES ASSUME IInv, ~strayed, Negate PROVE IInv'
  OBVIOUS
<1>1. AtFrame /\ Ins[1] = "NEGATE"
  BY Interpreted DEF Negate, Fetch
<1>2. Takes(Ins) = 1 /\ Leaves(Ins) = 1 /\ Ins[1] \notin Leaps \cup {"CLOSURE", "CLOSE_UPVALUE"}
  BY <1>1 DEF Takes, Leaves, Leaps
<1>3. Replace(1, Num(-Peek(0)[2])) /\ Advance /\ UNCHANGED <<control, data>>
  BY DEF Negate
<1>4. QED
  BY <1>1, <1>2, <1>3, GoodPlain, OperatorStep

\* A jump: nothing else changes.
LEMMA JumpStep ==
    ASSUME IInv, AtFrame, NEW m \in Nexts(Frame.ip, Ins), Moved(frames', m),
           Ins[1] \notin {"CLOSURE", "CLOSE_UPVALUE"}, UNCHANGED <<control, data, stack, top>>,
           Takes(Ins) = Leaves(Ins)
    PROVE  IInv'
<1>1. Objects(session.plan, heap, upvalues) /\ Grows(heap, heap) /\ NamesGood(heap, globals)
  BY SameGrows DEF AtFrame, DataInv, Data, Objects
<1>2. /\ Filled(heap, stack) /\ Len(stack) \in Nat /\ top \in Nat /\ top <= Len(stack) /\ Takes(Ins) \in Nat
  BY DEF AtFrame
<1>3. /\ UNCHANGED control /\ UNCHANGED <<upvalues, openUpvalues>> /\ heap' = heap /\ globals' = globals
      /\ stack' = stack /\ top' = top
  BY DEF data
<1>4. top' = top - Takes(Ins) + Leaves(Ins)
  BY <1>2, <1>3
<1>5. Filled(heap', stack') /\ Len(stack') >= Len(stack) /\ Len(stack') \in Nat /\ top' <= Len(stack')
  BY <1>2, <1>3
<1>6. Objects(session.plan, heap', upvalues) /\ Grows(heap, heap') /\ NamesGood(heap', globals')
  BY <1>1, <1>3
<1>7. QED
  BY <1>3, <1>4, <1>5, <1>6, HeapStep

LEMMA JumpAheadKeeps == IInv /\ ~strayed /\ JumpAhead => IInv'
<1> SUFFICES ASSUME IInv, ~strayed, JumpAhead PROVE IInv'
  OBVIOUS
<1>1. AtFrame /\ Ins[1] \in {"JUMP", "JUMP_IF_FALSE"}
  BY Interpreted DEF JumpAhead, Fetch
<1>2. Takes(Ins) = Leaves(Ins) /\ Ins[1] \notin {"CLOSURE", "CLOSE_UPVALUE"}
  BY <1>1 DEF Takes, Leaves
<1>3. PICK d : d \in {0, Ins[2]} /\ Jump(d) /\ (Ins[1] = "JUMP" => d = Ins[2])
  BY DEF JumpAhead, Fetch
<1>4. Frame.ip \in Nat /\ Ins[2] \in Int
  BY <1>1 DEF AtFrame, OperandsFit
<1>5. Frame.ip + 1 + d \in Nexts(Frame.ip, Ins)
  <2>1. Frame.ip + 1 + d = Frame.ip + 1 \/ Frame.ip + 1 + d = Frame.ip + 1 + Ins[2]
    BY <1>3, <1>4
  <2>2. CASE Ins[1] = "JUMP"
    BY <2>2, <1>3 DEF Nexts
  <2>3. CASE Ins[1] = "JUMP_IF_FALSE"
    BY <2>1, <2>3 DEF Nexts
  <2>4. QED
    BY <1>1, <2>2, <2>3
<1>6. Moved(frames', Frame.ip + 1 + d)
  BY <1>1, <1>3, JumpMoves
<1>7. UNCHANGED <<control, data, stack, top>>
  BY DEF JumpAhead
<1>8. QED
  BY <1>1, <1>2, <1>5, <1>6, <1>7, JumpStep

LEMMA LoopKeeps == IInv /\ ~strayed /\ Loop => IInv'
<1> SUFFICES ASSUME IInv, ~strayed, Loop PROVE IInv'
  OBVIOUS
<1>1. AtFrame /\ Ins[1] = "LOOP"
  BY Interpreted DEF Loop, Fetch
<1>2. Takes(Ins) = Leaves(Ins) /\ Ins[1] \notin {"CLOSURE", "CLOSE_UPVALUE"}
  BY <1>1 DEF Takes, Leaves
<1>3. Frame.ip \in Nat /\ Ins[2] \in Int
  BY <1>1 DEF AtFrame, OperandsFit
<1>4. Frame.ip + 1 + (-Ins[2]) \in Nexts(Frame.ip, Ins)
  <2>1. Frame.ip + 1 + (-Ins[2]) = Frame.ip + 1 - Ins[2]
    BY <1>3
  <2>2. QED
    BY <2>1, <1>1 DEF Nexts
<1>5. Moved(frames', Frame.ip + 1 + (-Ins[2]))
  BY <1>1, JumpMoves DEF Loop
<1>6. UNCHANGED <<control, data, stack, top>>
  BY DEF Loop
<1>7. QED
  BY <1>1, <1>2, <1>4, <1>5, <1>6, JumpStep

LEMMA LoopIncrKeeps == IInv /\ ~strayed /\ LoopIncr => IInv'
<1> SUFFICES ASSUME IInv, ~strayed, LoopIncr PROVE IInv'
  OBVIOUS
<1>1. AtFrame /\ Ins[1] \in {"LOOP_INCR_LESS", "LOOP_INCR_LEQ"}
  BY Interpreted DEF LoopIncr, Fetch
<1>2. Takes(Ins) = Leaves(Ins) /\ Ins[1] \notin {"CLOSURE", "CLOSE_UPVALUE"}
  BY <1>1 DEF Takes, Leaves
<1>3. Frame.ip \in Nat /\ Ins[4] \in Int /\ Ins[2] \in 1 .. Height - 1
  BY <1>1 DEF AtFrame, OperandsFit
<1>4. PICK d : d \in {0, -Ins[4]} /\ Jump(d)
  BY DEF LoopIncr
<1>5. Frame.ip + 1 + d \in Nexts(Frame.ip, Ins)
  <2>1. Frame.ip + 1 + d = Frame.ip + 1 \/ Frame.ip + 1 + d = Frame.ip + 1 - Ins[4]
    BY <1>3, <1>4
  <2>2. QED
    BY <2>1, <1>1 DEF Nexts
<1>6. Moved(frames', Frame.ip + 1 + d)
  BY <1>1, <1>4, JumpMoves
<1>7. PICK v : v = Num(Slot(Ins[2])[2] + 1)
  OBVIOUS
<1>8. UNCHANGED <<control, data>> /\ top' = top /\ stack' = [stack EXCEPT ![Frame.slots + Ins[2]] = v]
  BY <1>7 DEF LoopIncr
<1>9. Frame.slots + Ins[2] \in 1 .. Len(stack)
  <2>1. Ins[2] \in 0 .. Height - 1
    BY <1>1, <1>3 DEF AtFrame
  <2>2. QED
    BY <2>1, <1>1, Operands0
<1>10. Good(heap, v)
  BY <1>7, GoodPlain
<1>11. QED
  BY <1>1, <1>2, <1>5, <1>6, <1>8, <1>9, <1>10, WriteStep

-----------------------------------------------------------------------------
(* 9. Arrays and native functions *)

\* An array's values are written over.
LEMMA ArrayWritten ==
    ASSUME NEW p, NEW us, Objects(p, heap, us), NEW v, Good(heap, v), IsArray(v), NEW vs, Filled(heap, vs),
           NEW k, k = [heap EXCEPT ![v[2]].values = vs]
    PROVE  Objects(p, k, us) /\ Grows(heap, k)
<1> DEFINE i == v[2]  a == heap[i]  o == [kind |-> "array", values |-> vs, upvalues |-> <<>>]
<1>1. i \in 1 .. Len(heap) /\ a.kind = "array" /\ IsArrayObject(heap, a)
  BY ObjectKinds DEF IsArray
<1>2. a = [kind |-> "array", values |-> a.values, upvalues |-> <<>>]
  BY <1>1 DEF IsArrayObject
<1>3. k = [heap EXCEPT ![i] = [a EXCEPT !.values = vs]]
  OBVIOUS
<1> HIDE DEF i, a
<1>4. [a EXCEPT !.values = vs] = o
  BY <1>2
<1> HIDE DEF o
<1>5. k = [heap EXCEPT ![i] = o]
  BY <1>3, <1>4
<1>6. a = heap[i] /\ o = [kind |-> "array", values |-> vs, upvalues |-> <<>>]
  BY DEF a, o
<1>7. heap[i].kind = "array"
  BY <1>1, <1>6
<1>8. \A w : w = [heap EXCEPT ![i] = o] => Objects(p, w, us) /\ Grows(heap, w)
  <2>1. o = [kind |-> "array", values |-> vs, upvalues |-> <<>>]
    BY <1>6
  <2>2. i \in 1 .. Len(heap)
    BY <1>1
  <2>3. \A u : \A j \in 1 .. Len(heap) : heap[j].kind = "array" /\ u = [kind |-> "array", values |-> vs, upvalues |-> <<>>]
           => \A w : w = [heap EXCEPT ![j] = u] => Objects(p, w, us) /\ Grows(heap, w)
    BY ObjectsStore, Zenon
  <2>4. QED
    BY <2>1, <2>2, <2>3, <1>7, Zenon
<1>9. QED
  BY <1>5, <1>8, Zenon

\* The values of an array.
LEMMA ArrayFacts ==
    ASSUME NEW p, NEW us, Objects(p, heap, us), NEW v, Good(heap, v), IsArray(v)
    PROVE  Filled(heap, heap[v[2]].values) /\ Sequence(heap[v[2]].values) /\ Len(heap[v[2]].values) \in Nat
<1>1. IsArrayObject(heap, heap[v[2]])
  BY ObjectKinds DEF IsArray
<1>2. Filled(heap, heap[v[2]].values)
  BY <1>1 DEF IsArrayObject
<1>3. QED
  BY <1>2, SequenceFacts DEF Filled

LEMMA ItemGood ==
    ASSUME NEW p, NEW us, Objects(p, heap, us), NEW array, Good(heap, array), NEW index, Within(array, index)
    PROVE  Good(heap, Item(array, index)) /\ index[2] + 1 \in 1 .. Len(heap[array[2]].values)
<1> DEFINE vs == heap[array[2]].values
<1>1. Filled(heap, vs) /\ Len(vs) \in Nat
  BY ArrayFacts DEF Within
<1>2. index[2] \in 0 .. Len(vs) - 1
  BY DEF Within
<1> HIDE DEF vs
<1>3. index[2] + 1 \in 1 .. Len(vs)
  BY <1>1, <1>2
<1>4. QED
  BY <1>1, <1>3 DEF Filled, Item, vs

LEMMA StoreItemKeeps ==
    ASSUME NEW p, NEW us, Objects(p, heap, us), NEW array, Good(heap, array), NEW index, Within(array, index),
           NEW v, Good(heap, v), StoreItem(array, index, v)
    PROVE  Objects(p, heap', us) /\ Grows(heap, heap')
<1> DEFINE vs == heap[array[2]].values  j == index[2] + 1  new == [vs EXCEPT ![j] = v]
<1>1. IsArray(array) /\ Filled(heap, vs) /\ j \in 1 .. Len(vs)
  BY ArrayFacts, ItemGood DEF Within
<1>2. heap' = [heap EXCEPT ![array[2]].values = new]
  BY DEF StoreItem
<1> HIDE DEF vs, j
<1>3. Filled(heap, new)
  BY <1>1, FilledExcept
<1> HIDE DEF new
<1>4. Objects(p, heap', us)
  BY <1>1, <1>2, <1>3, ArrayWritten
<1>5. Grows(heap, heap')
  BY <1>1, <1>2, <1>3, ArrayWritten
<1>6. QED
  BY <1>4, <1>5

LEMMA StoredKeeps ==
    ASSUME NEW p, NEW us, Objects(p, heap, us), NEW array, Good(heap, array), IsArray(array),
           NEW range, NEW items,
           \A i \in 1 .. Len(heap[array[2]].values) : i - 1 \in range => Good(heap, items[i]),
           heap' = Stored(array, range, items)
    PROVE  Objects(p, heap', us) /\ Grows(heap, heap')
<1> DEFINE vs == heap[array[2]].values
           Item2(i) == IF i - 1 \in range THEN items[i] ELSE vs[i]
           new == [i \in 1 .. Len(vs) |-> Item2(i)]
<1>1. Filled(heap, vs) /\ Len(vs) \in Nat /\ DOMAIN vs = 1 .. Len(vs)
  BY ArrayFacts, SequenceFacts
<1>2. \A i \in 1 .. Len(vs) : i - 1 \in range => Good(heap, items[i])
  OBVIOUS
<1>3. heap' = [heap EXCEPT ![array[2]].values = new]
  BY <1>1 DEF Stored
<1> HIDE DEF vs
<1>4. ASSUME NEW i \in 1 .. Len(vs) PROVE Good(heap, new[i])
  BY <1>1, <1>2 DEF Filled
<1>5. Sequence(new) /\ Len(new) = Len(vs)
  <2>1. new = [i \in 1 .. Len(vs) |-> new[i]]
    OBVIOUS
  <2> HIDE DEF new
  <2>2. QED
    BY <2>1, <1>1, FunctionFacts
<1> HIDE DEF new
<1>6. Filled(heap, new)
  BY <1>4, <1>5 DEF Filled
<1>7. Objects(p, heap', us)
  BY <1>3, <1>6, ArrayWritten
<1>8. Grows(heap, heap')
  BY <1>3, <1>6, ArrayWritten
<1>9. QED
  BY <1>7, <1>8

\* A new array.
LEMMA ArrayMade ==
    ASSUME NEW p, NEW us, Objects(p, heap, us), NEW vs, Filled(heap, vs)
    PROVE  /\ Objects(p, NewObject(NewArray(vs)), us) /\ Grows(heap, NewObject(NewArray(vs)))
           /\ Good(NewObject(NewArray(vs)), NewRef)
<1> DEFINE o == [kind |-> "array", values |-> vs, upvalues |-> <<>>]  k == Append(heap, o)
<1>1. k = NewObject(NewArray(vs))
  BY DEF NewObject, NewArray
<1>2. o = [kind |-> "array", values |-> vs, upvalues |-> <<>>]
  OBVIOUS
<1>3. o.kind = "array" /\ o.values = vs
  OBVIOUS
<1> HIDE DEF o
<1>4. Grows(heap, k) /\ Good(k, NewRef) /\ (IsArrayObject(k, o) => Objects(p, k, us))
  <2>1. k = Append(heap, o)
    OBVIOUS
  <2> HIDE DEF k
  <2>2. QED
    BY <2>1, ObjectsAppend DEF NewRef
<1> HIDE DEF k
<1>5. Filled(k, vs)
  BY <1>4, FilledGrows
<1>6. IsArrayObject(k, o)
  BY <1>2, <1>3, <1>5 DEF IsArrayObject
<1>7. QED
  BY <1>1, <1>4, <1>6

LEMMA NativeKeeps ==
    ASSUME NEW p, NEW us, Objects(p, heap, us), NEW args, Filled(heap, args), NEW name \in NativeNames
    PROVE  /\ Objects(p, Native(name, args).heap, us) /\ Grows(heap, Native(name, args).heap)
           /\ Good(Native(name, args).heap, Native(name, args).value)
<1>0. Grows(heap, heap) /\ Len(args) \in Nat /\ \A i \in 1 .. Len(args) : Good(heap, args[i])
  BY SameGrows, SequenceFacts DEF Objects, Filled
<1>1. CASE name = "len"
  <2>1. Native(name, args).heap = heap /\ Native(name, args).value = Num(Size(args))
    BY <1>1 DEF Native
  <2>2. QED
    BY <2>1, <1>0, GoodPlain
<1>2. CASE name = "array"
  <2>1. CASE Len(args) < 1 \/ ~IsNumber(args[1])
    <3>1. Native(name, args).heap = heap /\ Native(name, args).value = Nil
      BY <2>1, <1>2 DEF Native
    <3>2. QED
      BY <3>1, <1>0, GoodPlain
  <2>2. CASE ~(Len(args) < 1 \/ ~IsNumber(args[1]))
    <3> DEFINE n == Count(args[1])  v == IF Len(args) > 1 THEN args[2] ELSE Num(0)
               vs == [i \in 1 .. n |-> v]
    <3>1. /\ Native(name, args).heap = NewObject(NewArray(vs)) /\ Native(name, args).value = NewRef
      BY <2>2, <1>2 DEF Native
    <3>2. n \in Nat
      BY DEF Count
    <3>3. Good(heap, v)
      <4>1. CASE Len(args) > 1
        BY <4>1, <1>0
      <4>2. CASE ~(Len(args) > 1)
        BY <4>2, GoodPlain
      <4>3. QED
        BY <4>1, <4>2
    <3> HIDE DEF n, v
    <3>4. Sequence(vs) /\ Len(vs) = n /\ \A i \in 1 .. n : vs[i] = v
      <4>1. vs = [i \in 1 .. n |-> vs[i]] /\ \A i \in 1 .. n : vs[i] = v
        OBVIOUS
      <4> HIDE DEF vs
      <4>2. QED
        BY <4>1, <3>2, FunctionFacts
    <3> HIDE DEF vs
    <3>5. Filled(heap, vs)
      BY <3>3, <3>4 DEF Filled
    <3>6. QED
      BY <3>1, <3>5, ArrayMade
  <2>3. QED
    BY <2>1, <2>2
<1>3. CASE name = "push"
  <2>1. CASE Len(args) = 2 /\ IsArray(args[1])
    <3> DEFINE new == Append(heap[args[1][2]].values, args[2])
    <3>1. /\ Native(name, args).heap = [heap EXCEPT ![args[1][2]].values = new]
          /\ Native(name, args).value = Nil
      BY <2>1, <1>3 DEF Native
    <3>2. Good(heap, args[1]) /\ Good(heap, args[2])
      BY <2>1, <1>0
    <3>3. Filled(heap, new)
      BY <2>1, <3>2, ArrayFacts, FilledAppend
    <3> HIDE DEF new
    <3>4. Objects(p, Native(name, args).heap, us)
      BY <3>1, <3>2, <3>3, <2>1, ArrayWritten
    <3>5. Grows(heap, Native(name, args).heap)
      BY <3>1, <3>2, <3>3, <2>1, ArrayWritten
    <3>6. QED
      BY <3>1, <3>4, <3>5, GoodPlain
  <2>2. CASE ~(Len(args) = 2 /\ IsArray(args[1]))
    <3>1. Native(name, args).heap = heap /\ Native(name, args).value = Nil
      BY <2>2, <1>3 DEF Native
    <3>2. QED
      BY <3>1, <1>0, GoodPlain
  <2>3. QED
    BY <2>1, <2>2
<1>4. QED
  BY <1>1, <1>2, <1>3 DEF NativeNames

LEMMA ArgumentsFilled ==
    ASSUME AtFrame, NEW n \in Nat, n < Height
    PROVE  Filled(heap, Arguments(n)) /\ Len(Arguments(n)) = n
<1>1. /\ Filled(heap, stack) /\ top \in Nat /\ top <= Len(stack) /\ top = Frame.slots + Height - 1
      /\ Frame.slots \in Nat \ {0} /\ Height \in Nat /\ Len(stack) \in Nat
  BY DEF AtFrame
<1>2. top \in Nat /\ n <= top /\ top <= Len(stack)
  BY <1>1
<1> DEFINE m == top - n + 1
<1>3. m \in Nat /\ 1 <= m /\ m <= top + 1 /\ top - m + 1 = n
  BY <1>2
<1>4. Arguments(n) = SubSeq(stack, m, top)
  BY DEF Arguments
<1> HIDE DEF m
<1>5. Filled(heap, SubSeq(stack, m, top)) /\ Len(SubSeq(stack, m, top)) = top - m + 1
  BY <1>1, <1>2, <1>3, FilledSub
<1>6. QED
  BY <1>3, <1>4, <1>5

LEMMA BuildArrayKeeps == IInv /\ ~strayed /\ BuildArray => IInv'
<1> SUFFICES ASSUME IInv, ~strayed, BuildArray PROVE IInv'
  OBVIOUS
<1>1. AtFrame /\ Ins[1] = "BUILD_ARRAY"
  BY Interpreted DEF BuildArray, Fetch
<1>2. Takes(Ins) = Ins[2] /\ Leaves(Ins) = 1 /\ Ins[1] \notin Leaps \cup {"CLOSURE", "CLOSE_UPVALUE"}
  BY <1>1 DEF Takes, Leaves, Leaps
<1>3. Ins[2] \in Nat /\ Ins[2] < Height /\ Objects(session.plan, heap, upvalues)
  BY <1>1, <1>2 DEF AtFrame, DataInv, Data
<1>4. Filled(heap, Arguments(Ins[2]))
  BY <1>1, <1>3, ArgumentsFilled
<1>5. heap' = NewObject(NewArray(Arguments(Ins[2]))) /\ Replace(Ins[2], NewRef)
  BY DEF BuildArray
<1>6. Objects(session.plan, heap', upvalues) /\ Grows(heap, heap') /\ Good(heap', NewRef)
  BY <1>3, <1>4, <1>5, ArrayMade
<1>7. Advance /\ UNCHANGED control /\ UNCHANGED <<upvalues, openUpvalues, globals>>
  BY DEF BuildArray
<1>8. QED
  BY <1>1, <1>2, <1>5, <1>6, <1>7, ReplaceStep

LEMMA GetIndexKeeps == IInv /\ ~strayed /\ GetIndex => IInv'
<1> SUFFICES ASSUME IInv, ~strayed, GetIndex PROVE IInv'
  OBVIOUS
<1>1. AtFrame /\ Ins[1] = "GET_INDEX"
  BY Interpreted DEF GetIndex, Fetch
<1>2. Takes(Ins) = 2 /\ Leaves(Ins) = 1 /\ Ins[1] \notin Leaps \cup {"CLOSURE", "CLOSE_UPVALUE"}
  BY <1>1 DEF Takes, Leaves, Leaps
<1>3. Good(heap, Peek(1)) /\ Objects(session.plan, heap, upvalues)
  <2>1. 1 < Height
    BY <1>1, <1>2 DEF AtFrame
  <2>2. QED
    BY <2>1, <1>1, Operands0 DEF AtFrame, DataInv, Data
<1>4. Within(Peek(1), Peek(0)) /\ Replace(2, Item(Peek(1), Peek(0))) /\ Advance /\ UNCHANGED <<control, data>>
  BY DEF GetIndex
<1>5. Good(heap, Item(Peek(1), Peek(0)))
  BY <1>3, <1>4, ItemGood
<1>6. QED
  BY <1>1, <1>2, <1>4, <1>5, OperatorStep

LEMMA SetIndexKeeps == IInv /\ ~strayed /\ SetIndex => IInv'
<1> SUFFICES ASSUME IInv, ~strayed, SetIndex PROVE IInv'
  OBVIOUS
<1>1. AtFrame /\ Ins[1] = "SET_INDEX"
  BY Interpreted DEF SetIndex, Fetch
<1>2. Takes(Ins) = 3 /\ Leaves(Ins) = 1 /\ Ins[1] \notin Leaps \cup {"CLOSURE", "CLOSE_UPVALUE"}
  BY <1>1 DEF Takes, Leaves, Leaps
<1>3. Good(heap, Peek(2)) /\ Good(heap, Peek(0)) /\ Objects(session.plan, heap, upvalues)
  <2>1. 2 < Height /\ 0 < Height
    BY <1>1, <1>2 DEF AtFrame
  <2>2. QED
    BY <2>1, <1>1, Operands0 DEF AtFrame, DataInv, Data
<1>4. /\ Within(Peek(2), Peek(1)) /\ StoreItem(Peek(2), Peek(1), Peek(0)) /\ Replace(3, Peek(0)) /\ Advance
      /\ UNCHANGED control /\ UNCHANGED <<upvalues, openUpvalues, globals>>
  BY DEF SetIndex
<1>5. Objects(session.plan, heap', upvalues) /\ Grows(heap, heap')
  BY <1>3, <1>4, StoreItemKeeps
<1>6. Good(heap', Peek(0))
  BY <1>3, <1>5, FilledGrows
<1>7. QED
  BY <1>1, <1>2, <1>4, <1>5, <1>6, ReplaceStep

LEMMA ArrayCopyKeeps == IInv /\ ~strayed /\ ArrayCopy => IInv'
<1> SUFFICES ASSUME IInv, ~strayed, ArrayCopy PROVE IInv'
  OBVIOUS
<1> DEFINE dest == Peek(3)
           source == Peek(2)
           length == Len(heap[dest[2]].values)
           sourceLength == Len(heap[source[2]].values)
           range == Clamped(Peek(1)[2], Peek(0)[2], IF sourceLength < length THEN sourceLength ELSE length)
<1>1. AtFrame /\ Ins[1] = "SIMD_ARRAY_COPY"
  BY Interpreted DEF ArrayCopy, Fetch
<1>2. Takes(Ins) = 4 /\ Leaves(Ins) = 0 /\ Ins[1] \notin Leaps \cup {"CLOSURE", "CLOSE_UPVALUE"}
  BY <1>1 DEF Takes, Leaves, Leaps
<1>3. Good(heap, dest) /\ Good(heap, source) /\ Objects(session.plan, heap, upvalues)
  <2>1. 3 < Height /\ 2 < Height
    BY <1>1, <1>2 DEF AtFrame
  <2>2. QED
    BY <2>1, <1>1, Operands0 DEF AtFrame, DataInv, Data
<1>4. /\ IsArray(dest) /\ IsArray(source) /\ heap' = Stored(dest, range, heap[source[2]].values)
      /\ top' = top - 4 /\ Advance /\ UNCHANGED control
      /\ UNCHANGED <<upvalues, openUpvalues, stack>> /\ globals' = globals
  BY DEF ArrayCopy
<1>5. /\ length \in Nat /\ sourceLength \in Nat
      /\ \A i \in 1 .. sourceLength : Good(heap, heap[source[2]].values[i])
  BY <1>3, <1>4, ArrayFacts DEF Filled
<1>6. ASSUME NEW i \in 1 .. length, i - 1 \in range PROVE Good(heap, heap[source[2]].values[i])
  <2>1. i - 1 \in 0 .. (IF sourceLength < length THEN sourceLength ELSE length) - 1
    BY <1>6 DEF Clamped
  <2> HIDE DEF length, sourceLength
  <2>2. i \in 1 .. sourceLength
    BY <2>1, <1>5, <1>6
  <2>3. QED
    BY <2>2, <1>5
<1> HIDE DEF range
<1>7. Objects(session.plan, heap', upvalues) /\ Grows(heap, heap')
  BY <1>3, <1>4, <1>6, StoredKeeps
<1>8. NamesGood(heap', globals')
  BY <1>1, <1>4, <1>7, FilledGrows DEF AtFrame, DataInv, Data
<1>9. QED
  BY <1>1, <1>2, <1>4, <1>7, <1>8, DropStep

LEMMA ArrayFillKeeps == IInv /\ ~strayed /\ ArrayFill => IInv'
<1> SUFFICES ASSUME IInv, ~strayed, ArrayFill PROVE IInv'
  OBVIOUS
<1> DEFINE dest == Peek(3)
           range == Clamped(Peek(1)[2], Peek(0)[2], Len(heap[dest[2]].values))
           items == [i \in DOMAIN heap[dest[2]].values |-> Peek(2)]
<1>1. AtFrame /\ Ins[1] = "SIMD_ARRAY_FILL"
  BY Interpreted DEF ArrayFill, Fetch
<1>2. Takes(Ins) = 4 /\ Leaves(Ins) = 0 /\ Ins[1] \notin Leaps \cup {"CLOSURE", "CLOSE_UPVALUE"}
  BY <1>1 DEF Takes, Leaves, Leaps
<1>3. Good(heap, dest) /\ Good(heap, Peek(2)) /\ Objects(session.plan, heap, upvalues)
  <2>1. 3 < Height /\ 2 < Height
    BY <1>1, <1>2 DEF AtFrame
  <2>2. QED
    BY <2>1, <1>1, Operands0 DEF AtFrame, DataInv, Data
<1>4. /\ IsArray(dest) /\ heap' = Stored(dest, range, items)
      /\ top' = top - 4 /\ Advance /\ UNCHANGED control
      /\ UNCHANGED <<upvalues, openUpvalues, stack>> /\ globals' = globals
  BY DEF ArrayFill
<1>5. DOMAIN heap[dest[2]].values = 1 .. Len(heap[dest[2]].values)
  BY <1>3, <1>4, ArrayFacts, SequenceFacts
<1>6. ASSUME NEW i \in 1 .. Len(heap[dest[2]].values) PROVE Good(heap, items[i])
  BY <1>3, <1>5
<1> HIDE DEF range, items
<1>7. Objects(session.plan, heap', upvalues) /\ Grows(heap, heap')
  BY <1>3, <1>4, <1>6, StoredKeeps
<1>8. NamesGood(heap', globals')
  BY <1>1, <1>4, <1>7, FilledGrows DEF AtFrame, DataInv, Data
<1>9. QED
  BY <1>1, <1>2, <1>4, <1>7, <1>8, DropStep

LEMMA CallNativeKeeps == IInv /\ ~strayed /\ CallNative => IInv'
<1> SUFFICES ASSUME IInv, ~strayed, CallNative PROVE IInv'
  OBVIOUS
<1> DEFINE callee == Peek(Ins[2])
           result == Native(callee[2], Arguments(Ins[2]))
<1>1. AtFrame /\ Ins[1] = "CALL"
  BY Interpreted DEF CallNative, Fetch
<1>2. Takes(Ins) = Ins[2] + 1 /\ Leaves(Ins) = 1 /\ Ins[1] \notin Leaps \cup {"CLOSURE", "CLOSE_UPVALUE"}
  BY <1>1 DEF Takes, Leaves, Leaps
<1>3. Ins[2] \in Nat /\ Ins[2] < Height
  <2>1. Ins[2] \in Nat /\ Ins[2] + 1 < Height /\ Height \in Nat
    BY <1>1, <1>2 DEF AtFrame, OperandsFit
  <2>2. QED
    BY <2>1
<1>4. Good(heap, callee) /\ Filled(heap, Arguments(Ins[2])) /\ Objects(session.plan, heap, upvalues)
  BY <1>1, <1>3, Operands0, ArgumentsFilled DEF AtFrame, DataInv, Data
<1>5. callee[1] = "native" /\ heap' = result.heap /\ Replace(Ins[2] + 1, result.value)
  BY DEF CallNative
<1>6. callee[2] \in NativeNames
  BY <1>4, <1>5 DEF Good
<1>7. Objects(session.plan, heap', upvalues) /\ Grows(heap, heap') /\ Good(heap', result.value)
  BY <1>4, <1>5, <1>6, NativeKeeps
<1>8. Advance /\ UNCHANGED control /\ UNCHANGED <<upvalues, openUpvalues, globals>>
  BY DEF CallNative
<1> HIDE DEF result
<1>9. QED
  BY <1>1, <1>2, <1>5, <1>7, <1>8, ReplaceStep

-----------------------------------------------------------------------------
(* 10. Upvalues are closed *)

LEMMA NotAboveFacts ==
    ASSUME NEW list, Sequence(list), NEW us, NEW at
    PROVE  /\ NotAbove(list, us, at) \in 1 .. Len(list) + 1
           /\ \A n \in 1 .. Len(list) : n < NotAbove(list, us, at) => ~(us[list[n]].at <= at)
           /\ NotAbove(list, us, at) <= Len(list) => us[list[NotAbove(list, us, at)]].at <= at
<1> DEFINE I == {i \in 1 .. Len(list) : us[list[i]].at <= at}
           found == SelectInSeq(list, LAMBDA u : us[u].at <= at)
<1>1. Len(list) \in Nat
  BY SequenceFacts
<1>2. found = IF I # {} THEN Min(I) ELSE 0
  BY DEF SelectInSeq
<1>3. NotAbove(list, us, at) = IF found = 0 THEN Len(list) + 1 ELSE found
  BY DEF NotAbove
<1> HIDE DEF found
<1>4. CASE I = {}
  <2>1. NotAbove(list, us, at) = Len(list) + 1
    BY <1>2, <1>3, <1>4
  <2>2. \A n \in 1 .. Len(list) : ~(us[list[n]].at <= at)
    BY <1>4
  <2>3. QED
    BY <2>1, <2>2, <1>1
<1>5. CASE I # {}
  <2>1. I \in SUBSET Nat
    BY <1>1
  <2>2. \E m \in I : \A k \in I : m <= k
    BY <2>1, <1>5, LeastElement
  <2>3. Min(I) \in I /\ \A k \in I : Min(I) <= k
    BY <2>2 DEF Min
  <2>4. found \in I /\ (\A k \in I : found <= k) /\ found # 0
    BY <2>3, <1>2, <1>5, <1>1
  <2>5. found \in 1 .. Len(list) /\ us[list[found]].at <= at
    BY <2>4
  <2>6. ASSUME NEW n \in 1 .. Len(list), n < found PROVE ~(us[list[n]].at <= at)
    <3>1. n \notin I
      BY <2>4, <2>5, <2>6, <1>1
    <3>2. QED
      BY <3>1
  <2>7. NotAbove(list, us, at) = found
    BY <1>3, <2>4
  <2>8. QED
    BY <2>5, <2>6, <2>7, <1>1
<1>6. QED
  BY <1>4, <1>5

\* What closeUpvalues leaves open is below the slot that it was given.
LEMMA CloseFacts ==
    ASSUME NEW p, Objects(p, heap, upvalues), Upvals(heap, upvalues, Len(stack)), Filled(heap, stack),
           NEW lost, Listing(upvalues, openUpvalues, lost), NEW last \in Nat \ {0}, CloseUpvalues(last)
    PROVE  /\ Objects(p, heap, upvalues') /\ Upvals(heap, upvalues', Len(stack))
           /\ Len(upvalues') = Len(upvalues)
           /\ Listing(upvalues', openUpvalues', lost)
           /\ \A n \in 1 .. Len(openUpvalues') :
                 /\ upvalues'[openUpvalues'[n]].at \in Nat /\ upvalues'[openUpvalues'[n]].at < last
                 /\ \E m \in 1 .. Len(openUpvalues) :
                       upvalues'[openUpvalues'[n]].at = upvalues[openUpvalues[m]].at
<1> DEFINE list == openUpvalues
           c == Closing(last)
           closing == {list[n] : n \in 1 .. c}
           rest == SubSeq(list, c + 1, Len(list))
           Closed(u) == [at |-> 0, closed |-> stack[upvalues[u].at]]
<1>1. /\ Sequence(list) /\ Sequence(upvalues) /\ Len(list) \in Nat /\ Len(upvalues) \in Nat
      /\ DOMAIN upvalues = 1 .. Len(upvalues) /\ Len(stack) \in Nat
  BY SequenceFacts DEF Listing, Upvals, Filled
<1>2. /\ \A n \in 1 .. Len(list) : list[n] \in 1 .. Len(upvalues) /\ upvalues[list[n]].at > 0
      /\ \A m, n \in 1 .. Len(list) : m < n => upvalues[list[m]].at > upvalues[list[n]].at
      /\ \A u \in 1 .. Len(upvalues) : upvalues[u].at > 0 => u \in lost \/ \E n \in 1 .. Len(list) : list[n] = u
  BY DEF Listing
<1>3. \A u \in 1 .. Len(upvalues) :
          /\ upvalues[u] = [at |-> upvalues[u].at, closed |-> upvalues[u].closed]
          /\ upvalues[u].at \in 0 .. Len(stack) /\ upvalues[u].at \in Nat /\ Good(heap, upvalues[u].closed)
  BY <1>1 DEF Upvals
<1>4. /\ openUpvalues' = rest
      /\ upvalues' = [u \in 1 .. Len(upvalues) |-> IF u \in closing THEN Closed(u) ELSE upvalues[u]]
  BY <1>1 DEF CloseUpvalues
<1>5. /\ c \in 0 .. Len(list)
      /\ \A n \in 1 .. c : upvalues[list[n]].at >= last
      /\ \A n \in c + 1 .. Len(list) : upvalues[list[n]].at < last
  <2> DEFINE place == NotAbove(list, upvalues, last - 1)
  <2>1. /\ place \in 1 .. Len(list) + 1
        /\ \A n \in 1 .. Len(list) : n < place => ~(upvalues[list[n]].at <= last - 1)
        /\ place <= Len(list) => upvalues[list[place]].at <= last - 1
    BY <1>1, NotAboveFacts
  <2>2. c = place - 1
    BY DEF Closing
  <2> HIDE DEF place, c
  <2>3. ASSUME NEW n \in 1 .. c PROVE upvalues[list[n]].at >= last
    <3>1. n \in 1 .. Len(list) /\ n < place
      BY <2>1, <2>2, <1>1
    <3>2. upvalues[list[n]].at \in Nat
      BY <3>1, <1>2, <1>3
    <3>3. QED
      BY <3>1, <3>2, <2>1
  <2>4. ASSUME NEW n \in c + 1 .. Len(list) PROVE upvalues[list[n]].at < last
    <3>1. n \in 1 .. Len(list) /\ place <= Len(list) /\ place \in 1 .. Len(list) /\ (n = place \/ place < n)
      BY <2>1, <2>2, <1>1
    <3>2. upvalues[list[n]].at \in Nat /\ upvalues[list[place]].at \in Nat
      BY <3>1, <1>2, <1>3
    <3>3. n # place => upvalues[list[place]].at > upvalues[list[n]].at
      BY <3>1, <1>2
    <3>4. QED
      BY <3>1, <3>2, <3>3, <2>1
  <2>5. QED
    BY <2>1, <2>2, <2>3, <2>4, <1>1
<1> HIDE DEF c
<1>6. /\ Sequence(rest) /\ Len(rest) = Len(list) - c
      /\ \A n \in 1 .. Len(list) - c : rest[n] = list[c + n]
  <2>1. c + 1 \in Nat /\ 1 <= c + 1 /\ c + 1 <= Len(list) + 1 /\ Len(list) - (c + 1) + 1 = Len(list) - c
    BY <1>1, <1>5
  <2>2. /\ Sequence(rest) /\ Len(rest) = Len(list) - (c + 1) + 1
        /\ \A n \in 1 .. Len(list) - (c + 1) + 1 : rest[n] = list[c + 1 + n - 1]
    BY <2>1, <1>1, SubSeqFacts
  <2>3. \A n \in 1 .. Len(list) - c : c + 1 + n - 1 = c + n
    BY <1>1, <1>5
  <2> HIDE DEF rest
  <2>4. QED
    BY <2>1, <2>2, <2>3
<1> HIDE DEF rest
<1>7. \A n \in 1 .. Len(rest) : c + n \in 1 .. Len(list) /\ c + n \in c + 1 .. Len(list)
  BY <1>1, <1>5, <1>6
<1>8. \A u \in closing : upvalues[u].at >= last /\ upvalues[u].at > 0 /\ u \in 1 .. Len(upvalues)
  BY <1>1, <1>2, <1>5
<1>9. \A n \in 1 .. Len(rest) : rest[n] \notin closing /\ rest[n] \in 1 .. Len(upvalues)
  <2> TAKE n \in 1 .. Len(rest)
  <2>1. rest[n] = list[c + n] /\ upvalues[list[c + n]].at < last /\ list[c + n] \in 1 .. Len(upvalues)
    BY <1>5, <1>6, <1>7, <1>2
  <2>2. upvalues[list[c + n]].at \in Nat
    BY <2>1, <1>3
  <2>3. QED
    BY <2>1, <2>2, <1>8
<1> DEFINE new == upvalues'
<1>10. /\ Sequence(new) /\ Len(new) = Len(upvalues)
       /\ \A u \in 1 .. Len(upvalues) : new[u] = IF u \in closing THEN Closed(u) ELSE upvalues[u]
  <2> HIDE DEF closing
  <2>1. \A u \in 1 .. Len(upvalues) : new[u] = IF u \in closing THEN Closed(u) ELSE upvalues[u]
    BY <1>4
  <2>2. new = [u \in 1 .. Len(upvalues) |-> new[u]]
    BY <1>4
  <2> HIDE DEF new, Closed
  <2>3. Sequence(new) /\ Len(new) = Len(upvalues)
    BY <2>2, <1>1, FunctionFacts
  <2>4. QED
    BY <2>1, <2>3
<1> HIDE DEF new
<1>11. ASSUME NEW u \in 1 .. Len(upvalues)
       PROVE  /\ new[u] = [at |-> new[u].at, closed |-> new[u].closed]
              /\ new[u].at \in 0 .. Len(stack) /\ Good(heap, new[u].closed)
              /\ new[u].at > 0 => u \notin closing /\ new[u].at = upvalues[u].at
  <2>1. CASE u \in closing
    <3>1. upvalues[u].at \in 1 .. Len(stack)
      BY <2>1, <1>1, <1>3, <1>8
    <3>2. Good(heap, stack[upvalues[u].at])
      BY <3>1 DEF Filled
    <3>3. new[u] = Closed(u)
      BY <2>1, <1>10
    <3>4. new[u].at = 0 /\ new[u].closed = stack[upvalues[u].at]
          /\ new[u] = [at |-> new[u].at, closed |-> new[u].closed]
      BY <3>3
    <3>5. QED
      BY <3>2, <3>4, <1>1
  <2>2. CASE u \notin closing
    <3>1. new[u] = upvalues[u]
      BY <2>2, <1>10
    <3>2. QED
      BY <3>1, <2>2, <1>3
  <2>3. QED
    BY <2>1, <2>2
<1>12. Upvals(heap, new, Len(stack))
  BY <1>10, <1>11 DEF Upvals
<1>13. \A n \in 1 .. Len(rest) : new[rest[n]].at = upvalues[list[c + n]].at
  BY <1>6, <1>7, <1>9, <1>10
<1>14. Listing(new, rest, lost)
  <2>1. \A n \in 1 .. Len(rest) : rest[n] \in 1 .. Len(new) /\ new[rest[n]].at > 0
    BY <1>2, <1>7, <1>9, <1>10, <1>13
  <2>2. ASSUME NEW m \in 1 .. Len(rest), NEW n \in 1 .. Len(rest), m < n
        PROVE  new[rest[m]].at > new[rest[n]].at
    <3>1. c + m < c + n /\ c + m \in 1 .. Len(list) /\ c + n \in 1 .. Len(list)
      BY <2>2, <1>5, <1>6, <1>7, <1>1
    <3>2. upvalues[list[c + m]].at > upvalues[list[c + n]].at
      BY <3>1, <1>2
    <3>3. QED
      BY <3>2, <1>13
  <2>3. ASSUME NEW u \in 1 .. Len(new), new[u].at > 0
        PROVE  u \in lost \/ \E n \in 1 .. Len(rest) : rest[n] = u
    <3>1. u \in 1 .. Len(upvalues) /\ u \notin closing /\ upvalues[u].at > 0
      BY <2>3, <1>10, <1>11
    <3>2. CASE \E n \in 1 .. Len(list) : list[n] = u
      <4>1. PICK n \in 1 .. Len(list) : list[n] = u
        BY <3>2
      <4>2. n \notin 1 .. c
        BY <4>1, <3>1
      <4>3. n - c \in 1 .. Len(rest) /\ c + (n - c) = n
        BY <4>2, <1>1, <1>5, <1>6
      <4>4. rest[n - c] = u
        BY <4>1, <4>3, <1>6
      <4>5. QED
        BY <4>3, <4>4
    <3>3. QED
      BY <3>1, <3>2, <1>2
  <2>4. QED
    BY <2>1, <2>2, <2>3, <1>6 DEF Listing
<1>15. Objects(p, heap, new)
  BY <1>10, ObjectsMore
<1>16. ASSUME NEW n \in 1 .. Len(rest)
       PROVE  /\ new[rest[n]].at \in Nat /\ new[rest[n]].at < last
              /\ \E m \in 1 .. Len(list) : new[rest[n]].at = upvalues[list[m]].at
  <2>1. c + n \in 1 .. Len(list) /\ c + n \in c + 1 .. Len(list) /\ new[rest[n]].at = upvalues[list[c + n]].at
    BY <1>7, <1>13
  <2>2. upvalues[list[c + n]].at \in Nat /\ upvalues[list[c + n]].at < last
    BY <2>1, <1>2, <1>3, <1>5
  <2>3. QED
    BY <2>1, <2>2
<1>17. openUpvalues' = rest /\ upvalues' = new
  BY <1>4 DEF new
<1>18. QED
  BY <1>10, <1>12, <1>14, <1>15, <1>16, <1>17

\* What is left in the list after closing, and the frames that it is planned for.
LEMMA ClosedPlanned ==
    ASSUME AtFrame, NEW last \in Nat \ {0}, CloseUpvalues(last), NEW n \in 1 .. Len(openUpvalues')
    PROVE  /\ upvalues'[openUpvalues'[n]].at \in Nat /\ upvalues'[openUpvalues'[n]].at < last
           /\ \/ upvalues'[openUpvalues'[n]].at - Frame.slots \in Captive
              \/ \E i \in 1 .. frameCount - 1 :
                    upvalues'[openUpvalues'[n]].at - frames[i].slots
                       \in CapturedAt(session.plan, heap, frames[i].closure, frames[i].ip)
<1> DEFINE at == upvalues'[openUpvalues'[n]].at
<1>1. /\ Objects(session.plan, heap, upvalues) /\ Upvals(heap, upvalues, Len(stack)) /\ Filled(heap, stack)
      /\ Listing(upvalues, openUpvalues, forgotten)
      /\ SlotsPlanned(session.plan, heap, frames, frameCount, upvalues, openUpvalues)
  BY DEF AtFrame, DataInv, Data, ListInv
<1>2. at \in Nat /\ at < last /\ \E m \in 1 .. Len(openUpvalues) : at = upvalues[openUpvalues[m]].at
  BY <1>1, CloseFacts
<1> HIDE DEF at
<1>3. PICK i \in 1 .. frameCount : at - frames[i].slots \in CapturedAt(session.plan, heap, frames[i].closure, frames[i].ip)
  BY <1>1, <1>2 DEF SlotsPlanned
<1>4. frameCount \in Nat /\ Frame = frames[frameCount]
  BY DEF AtFrame
<1>5. CASE i = frameCount
  <2>1. at - Frame.slots \in Captive
    BY <1>3, <1>4, <1>5 DEF Captive
  <2>2. QED
    BY <2>1, <1>2 DEF at
<1>6. CASE i # frameCount
  <2>1. i \in 1 .. frameCount - 1
    BY <1>4, <1>6
  <2>2. QED
    BY <2>1, <1>2, <1>3 DEF at
<1>7. QED
  BY <1>5, <1>6

LEMMA CloseUpvalueKeeps == IInv /\ ~strayed /\ CloseUpvalue => IInv'
<1> SUFFICES ASSUME IInv, ~strayed, CloseUpvalue PROVE IInv'
  OBVIOUS
<1>1. AtFrame /\ Ins[1] = "CLOSE_UPVALUE"
  BY Interpreted DEF CloseUpvalue, Fetch
<1>2. Takes(Ins) = 1 /\ Leaves(Ins) = 0 /\ Ins[1] \notin Leaps
  BY <1>1 DEF Takes, Leaves, Leaps
<1>3. /\ CloseUpvalues(top) /\ top' = top - 1 /\ Advance /\ UNCHANGED control /\ stack' = stack
      /\ heap' = heap /\ globals' = globals /\ session' = session
  BY DEF CloseUpvalue, control
<1>4. /\ Objects(session.plan, heap, upvalues) /\ Upvals(heap, upvalues, Len(stack)) /\ Filled(heap, stack)
      /\ Listing(upvalues, openUpvalues, forgotten) /\ NamesGood(heap, globals) /\ Grows(heap, heap)
      /\ top \in Nat \ {0} /\ top = Frame.slots + Height - 1 /\ top <= Len(stack) /\ Len(stack) \in Nat
      /\ Frame.slots \in Nat \ {0} /\ Height \in Nat \ {0}
  <2>1. top \in Nat /\ top = Frame.slots + Height - 1 /\ Frame.slots \in Nat \ {0} /\ Height \in Nat \ {0}
    BY <1>1 DEF AtFrame
  <2>2. top \in Nat \ {0}
    BY <2>1
  <2>3. QED
    BY <2>1, <2>2, <1>1, SameGrows DEF AtFrame, DataInv, Data, ListInv, Objects
<1>5. Frame.ip + 1 \in Nexts(Frame.ip, Ins) /\ Moved(frames', Frame.ip + 1)
  BY <1>1, <1>2, <1>3, AdvanceMoves
<1>6. Objects(session.plan, heap, upvalues') /\ Upvals(heap, upvalues', Len(stack)) /\ Listing(upvalues', openUpvalues', forgotten)
  BY <1>3, <1>4, CloseFacts
<1>7. DataInv'
  BY <1>3, <1>4, <1>6 DEF DataInv, Data
<1>8. ASSUME NEW n \in 1 .. Len(openUpvalues')
      PROVE  \/ upvalues'[openUpvalues'[n]].at - Frame.slots \in CapturedAfter(Ins, Height, Captive)
             \/ \E i \in 1 .. frameCount - 1 :
                   upvalues'[openUpvalues'[n]].at - frames[i].slots
                      \in CapturedAt(session.plan, heap, frames[i].closure, frames[i].ip)
  <2> DEFINE at == upvalues'[openUpvalues'[n]].at
  <2>1. at \in Nat /\ at < top
    BY <1>1, <1>3, <1>4, ClosedPlanned
  <2>2. at - Frame.slots # Height - 1
    BY <2>1, <1>4
  <2>3. CapturedAfter(Ins, Height, Captive) = Captive \ {Height - 1}
    BY <1>1 DEF CapturedAfter
  <2>4. QED
    BY <2>2, <2>3, <1>1, <1>3, <1>4, ClosedPlanned
<1>9. top' = top - Takes(Ins) + Leaves(Ins) /\ top' <= Len(stack')
  BY <1>2, <1>3, <1>4
<1>10. Grows(heap, heap')
  BY <1>3, <1>4
<1>11. QED
  BY <1>1, <1>3, <1>5, <1>6, <1>7, <1>8, <1>9, <1>10, StepDone

\* What Return does to data and list.
LEMMA ReturnData ==
    ASSUME AtFrame, Return
    PROVE  /\ DataInv' /\ Listing(upvalues', openUpvalues', forgotten)
           /\ SlotsPlanned(session.plan, heap, frames, frameCount - 1, upvalues', openUpvalues')
           /\ Len(stack') \in Nat /\ Len(stack') >= Len(stack) /\ Len(stack') >= Frame.slots
           /\ Good(heap, Peek(0)) /\ stack'[Frame.slots] = Peek(0)
<1>1. /\ CloseUpvalues(Frame.slots) /\ stack' = Put(stack, Frame.slots, Peek(0))
      /\ heap' = heap /\ globals' = globals /\ session' = session
  BY DEF Return
<1>2. /\ Objects(session.plan, heap, upvalues) /\ Upvals(heap, upvalues, Len(stack)) /\ Filled(heap, stack)
      /\ Listing(upvalues, openUpvalues, forgotten) /\ NamesGood(heap, globals)
      /\ Len(stack) \in Nat /\ Frame.slots \in Nat \ {0} /\ top = Frame.slots + Height - 1 /\ top <= Len(stack)
      /\ Height \in Nat \ {0} /\ Captive \subseteq 0 .. Height - 1 /\ frameCount \in Nat
  BY DEF AtFrame, DataInv, Data, ListInv
<1>3. Good(heap, Peek(0)) /\ Frame.slots \in 1 .. Len(stack) /\ Frame.slots \in 1 .. Len(stack) + 1
  <2>1. 0 < Height
    BY <1>2
  <2>2. Frame.slots \in 1 .. Len(stack) /\ Frame.slots \in 1 .. Len(stack) + 1
    BY <1>2
  <2>3. QED
    BY <2>1, <2>2, Operands0
<1>4. /\ Filled(heap, stack') /\ Len(stack') \in Nat /\ Len(stack') >= Frame.slots /\ Len(stack') >= Len(stack)
      /\ stack'[Frame.slots] = Peek(0)
  BY <1>1, <1>2, <1>3, FilledPut, PutFacts DEF Filled
<1>5. Objects(session.plan, heap, upvalues') /\ Upvals(heap, upvalues', Len(stack)) /\ Listing(upvalues', openUpvalues', forgotten)
  BY <1>1, <1>2, CloseFacts
<1>6. Upvals(heap, upvalues', Len(stack'))
  BY <1>2, <1>4, <1>5 DEF Upvals
<1>7. DataInv'
  BY <1>1, <1>2, <1>4, <1>5, <1>6 DEF DataInv, Data
<1>8. ASSUME NEW n \in 1 .. Len(openUpvalues')
      PROVE  \E i \in 1 .. frameCount - 1 :
                upvalues'[openUpvalues'[n]].at - frames[i].slots
                   \in CapturedAt(session.plan, heap, frames[i].closure, frames[i].ip)
  <2> DEFINE at == upvalues'[openUpvalues'[n]].at
  <2>1. at \in Nat /\ at < Frame.slots
    BY <1>1, <1>2, ClosedPlanned
  <2>2. at - Frame.slots \notin Captive
    BY <2>1, <1>2
  <2>3. QED
    BY <2>2, <1>1, <1>2, ClosedPlanned
<1>9. SlotsPlanned(session.plan, heap, frames, frameCount - 1, upvalues', openUpvalues')
  BY <1>8 DEF SlotsPlanned
<1>10. QED
  BY <1>3, <1>4, <1>5, <1>7, <1>9

\* A value is pushed where machine code waits for it.
LEMMA AnswerMove ==
    ASSUME NEW p, NEW h, Sequence(acts), Len(acts) > 1, IsNative(p, h, acts[Len(acts) - 1], 1),
           NEW v, Good(h, v), Answer(v)
    PROVE  \E b : /\ EndsWith(acts, acts', Len(acts) - 1, b) /\ IsNative(p, h, b, 0)
                  /\ b.slots = acts[Len(acts) - 1].slots
<1> DEFINE m == Len(acts) - 1  a == acts[m]  new == Append(a.mem, v)
           b == [kind |-> "native", closure |-> a.closure, ip |-> a.ip, slots |-> a.slots, mem |-> new]
<1>1. Len(acts) \in Nat /\ m \in Nat /\ m >= 1 /\ m <= Len(acts)
  BY SequenceFacts
<1>2. /\ Sequence(Front(acts)) /\ Len(Front(acts)) = m /\ \A k \in 1 .. m : Front(acts)[k] = acts[k]
  <2>1. m - 1 + 1 = m /\ \A k \in 1 .. m : 1 + k - 1 = k
    BY <1>1
  <2>2. /\ Sequence(SubSeq(acts, 1, m)) /\ Len(SubSeq(acts, 1, m)) = m - 1 + 1
        /\ \A k \in 1 .. m - 1 + 1 : SubSeq(acts, 1, m)[k] = acts[1 + k - 1]
    BY <1>1, SubSeqFacts
  <2> HIDE DEF m
  <2>3. Front(acts) = SubSeq(acts, 1, m)
    BY DEF Front, m
  <2>4. QED
    BY <2>1, <2>2, <2>3
<1>3. acts' = [Front(acts) EXCEPT ![m] = [Front(acts)[m] EXCEPT !.mem = Append(Front(acts)[m].mem, v)]]
  BY DEF Answer
<1>4. a = [kind |-> "native", closure |-> a.closure, ip |-> a.ip, slots |-> a.slots, mem |-> a.mem]
  BY DEF IsNative
<1>5. Front(acts)[m] = a /\ m \in 1 .. m
  BY <1>1, <1>2
<1> HIDE DEF a, m
<1>6. [a EXCEPT !.mem = Append(a.mem, v)] = b
  BY <1>4
<1>7. IsNative(p, h, a, 1)
  BY DEF a, m
<1>8. /\ b.kind = "native" /\ b.closure = a.closure /\ b.ip = a.ip /\ b.slots = a.slots /\ b.mem = new
      /\ b = [kind |-> "native", closure |-> b.closure, ip |-> b.ip, slots |-> b.slots, mem |-> b.mem]
  OBVIOUS
<1> HIDE DEF b
<1>9. /\ Filled(h, new) /\ Len(new) = Len(a.mem) + 1 /\ Len(a.mem) \in Nat /\ Len(new) \in Nat
      /\ new[1] = a.mem[1] /\ Len(a.mem) >= 1
  <2>1. Filled(h, a.mem) /\ Len(a.mem) >= 1 /\ Sequence(a.mem)
    BY <1>7 DEF IsNative, Filled
  <2>2. Len(a.mem) \in Nat
    BY <2>1, SequenceFacts
  <2>3. 1 \in 1 .. Len(a.mem)
    BY <2>1, <2>2
  <2>4. QED
    BY <2>1, <2>2, <2>3, FilledAppend, AppendFacts
<1> HIDE DEF new
<1>10. IsNative(p, h, b, 0)
  BY <1>7, <1>8, <1>9 DEF IsNative
<1>11. acts' = [Front(acts) EXCEPT ![m] = b]
  BY <1>3, <1>5, <1>6
<1>12. EndsWith(acts, acts', m, b)
  <2>1. /\ Sequence([Front(acts) EXCEPT ![m] = b]) /\ Len([Front(acts) EXCEPT ![m] = b]) = m
        /\ [Front(acts) EXCEPT ![m] = b][m] = b
        /\ \A k \in 1 .. m : k # m => [Front(acts) EXCEPT ![m] = b][k] = Front(acts)[k]
    BY <1>1, <1>2, ExceptFacts DEF m
  <2>2. \A k \in 1 .. m - 1 : k \in 1 .. m /\ k # m
    BY <1>1 DEF m
  <2>3. /\ Sequence(acts') /\ Len(acts') = m /\ acts'[m] = b /\ \A k \in 1 .. m : k # m => acts'[k] = Front(acts)[k]
    BY <2>1, <1>11, Zenon
  <2>4. QED
    BY <2>2, <2>3, <1>2 DEF EndsWith
<1>13. QED
  BY <1>8, <1>10, <1>12 DEF m, a

LEMMA ReturnKeeps == IInv /\ ~strayed /\ Return => IInv'
<1> SUFFICES ASSUME IInv, ~strayed, Return PROVE IInv'
  OBVIOUS
<1> DEFINE p == session.plan  n == frameCount
<1>1. AtFrame /\ Ins[1] = "RETURN"
  BY Interpreted DEF Return, Fetch
<1>2. /\ DataInv' /\ Listing(upvalues', openUpvalues', forgotten)
      /\ SlotsPlanned(p, heap, frames, n - 1, upvalues', openUpvalues')
      /\ Len(stack') \in Nat /\ Len(stack') >= Len(stack) /\ Len(stack') >= Frame.slots
      /\ Good(heap, Peek(0)) /\ stack'[Frame.slots] = Peek(0)
  BY <1>1, ReturnData
<1>3. /\ frameCount' = n - 1 /\ session' = session /\ taken' = taken /\ frames' = frames /\ heap' = heap
      /\ forgotten' = forgotten /\ strayed' = strayed
  BY DEF Return
<1>4. /\ PlansKept(p) /\ IsRunAct(Innermost(acts)) /\ Act = Innermost(acts) /\ status = "running"
      /\ Control(p, heap, frames, n, acts, top) /\ Act.frame = n /\ n \in Nat /\ n >= 1
      /\ Sequence(frames) /\ Frame = frames[n] /\ Frame.slots \in Nat \ {0} /\ Len(stack) \in Nat
      /\ IsRun(p, heap, frames, n, Act, Len(acts)) /\ Sequence(acts) /\ Len(acts) \in Nat /\ Len(acts) >= 1
  BY <1>1, InnermostRun, SequenceFacts DEF AtFrame, Control, Acting
<1>5. InputInv' /\ ListInv'
  BY <1>2, <1>3 DEF IInv, InputInv, ListInv
<1>6. ASSUME Idle' \/ Running', top' <= Len(stack') PROVE IInv'
  BY <1>2, <1>5, <1>6 DEF IInv, VMInv
<1> HIDE DEF p, n
<1>7. CASE n - 1 = Act.stop /\ Len(acts) = 1
  <2>1. Act.stop = 0
    BY <1>4, <1>7 DEF IsRun
  <2>2. RunEnds(stack', 0)
    BY <1>7, <2>1 DEF Return, n
  <2>3. status' = "idle" /\ acts' = <<>> /\ top' = 0
    BY <2>2, <1>7 DEF RunEnds
  <2>4. Idle' /\ top' <= Len(stack')
    BY <2>1, <2>3, <1>2, <1>3, <1>4, <1>7 DEF Idle
  <2>5. QED
    BY <2>4, <1>6
<1>8. CASE n - 1 = Act.stop /\ Len(acts) # 1
  <2> DEFINE v == IF Frame.slots > Act.saved THEN stack'[Act.saved + 1] ELSE Nil
             m == Len(acts) - 1
  <2>1. Len(acts) > 1 /\ Act.stop # 0
    <3>1. Len(acts) > 1
      <4>1. Len(acts) \in Nat /\ Len(acts) >= 1
        BY <1>4
      <4>2. Len(acts) # 1
        BY <1>8
      <4>3. \A l \in Nat : l >= 1 /\ l # 1 => l > 1
        OBVIOUS
      <4>4. QED
        BY <4>1, <4>2, <4>3
    <3>2. Act.stop > 0 /\ Act.stop \in Nat
      BY <1>4, <1>8 DEF IsRun
    <3>3. QED
      BY <3>1, <3>2
  <2>2. RunEnds(stack', Frame.slots)
    BY <1>8, <2>1 DEF Return, n
  <2>3. Answer(v) /\ top' = Act.saved /\ status' = "running"
    BY <2>2, <1>8, <1>4 DEF RunEnds
  <2>4. ~IsRunAct(acts[m]) /\ IsNative(p, heap, acts[m], 1) /\ m \in 1 .. Len(acts)
    <3>1. m \in 1 .. Len(acts) /\ m < Len(acts) /\ m >= 1 /\ Len(acts) \in 2 .. Len(acts) /\ Len(acts) - 1 = m
      BY <2>1, <1>4
    <3>2. Acting(p, heap, frames, n, acts)
      BY <1>4 DEF Control
    <3>3. ~IsRunAct(acts[m])
      BY <3>1, <3>2, <1>4 DEF Acting, Links, Innermost
    <3>4. ~IsRunAct(acts[m]) => IsNative(p, heap, acts[m], IF m < Len(acts) THEN 1 ELSE 0)
      <4>1. \A k \in 1 .. Len(acts) : ~IsRunAct(acts[k]) => IsNative(p, heap, acts[k], IF k < Len(acts) THEN 1 ELSE 0)
        BY <3>2, ActivationKinds
      <4>2. QED
        BY <3>1, <4>1
    <3>5. QED
      BY <3>1, <3>3, <3>4
  <2>5. frames[n].slots = Act.saved + 1 /\ Act.saved \in Nat
    <3>1. Act.saved \in Nat /\ frames[Act.stop + 1].slots = Act.saved + 1
      BY <1>4 DEF IsRun
    <3>2. Act.stop + 1 = n
      BY <1>4, <1>8
    <3>3. QED
      BY <3>1, <3>2
  <2>6. Good(heap, v)
    BY <2>5, <1>2, <1>4
  <2> HIDE DEF v
  <2>7. PICK b : EndsWith(acts, acts', m, b) /\ IsNative(p, heap, b, 0) /\ b.slots = acts[m].slots
    BY <2>1, <2>3, <2>4, <2>6, <1>4, AnswerMove
  <2>8. Control(p, heap, frames, n - 1, acts', Act.saved)
    BY <2>1, <2>7, <1>4, <1>8, RunEndsMove
  <2>9. Running'
    BY <2>3, <2>8, <1>3 DEF Running, p, n
  <2>10. top' <= Len(stack')
    BY <2>3, <2>5, <1>2, <1>4
  <2>11. QED
    BY <2>9, <2>10, <1>6
<1>9. CASE n - 1 # Act.stop
  <2> DEFINE b == [Act EXCEPT !.frame = n - 1]
  <2>1. /\ top' = Frame.slots /\ acts' = [acts EXCEPT ![Len(acts)] = [acts[Len(acts)] EXCEPT !.frame = n - 1]]
        /\ status' = IF n - 1 > 0 THEN status ELSE "undefined"
    BY <1>9 DEF Return, n
  <2>2. acts[Len(acts)] = Act
    BY <1>4 DEF Innermost
  <2>3. acts' = [acts EXCEPT ![Len(acts)] = b]
    BY <2>1, <2>2
  <2>4. b = [Innermost(acts) EXCEPT !.frame = n - 1]
    BY <1>4
  <2> HIDE DEF b
  <2>5. EndsWith(acts, acts', Len(acts), b)
    <3>1. Len(acts) \in 1 .. Len(acts)
      BY <1>4
    <3>2. \A x : /\ Sequence([acts EXCEPT ![Len(acts)] = x]) /\ Len([acts EXCEPT ![Len(acts)] = x]) = Len(acts)
                 /\ [acts EXCEPT ![Len(acts)] = x][Len(acts)] = x
                 /\ \A k \in 1 .. Len(acts) : k # Len(acts) => [acts EXCEPT ![Len(acts)] = x][k] = acts[k]
      BY <3>1, <1>4, ExceptFacts
    <3>3. /\ Sequence(acts') /\ Len(acts') = Len(acts) /\ acts'[Len(acts)] = b
          /\ \A k \in 1 .. Len(acts) : k # Len(acts) => acts'[k] = acts[k]
      BY <3>2, <2>3, Zenon
    <3>4. \A k \in 1 .. Len(acts) - 1 : k \in 1 .. Len(acts) /\ k # Len(acts)
      BY <1>4
    <3>5. QED
      BY <3>3, <3>4 DEF EndsWith
  <2>6. Innermost(acts).stop # n - 1
    BY <1>4, <1>9
  <2>7. Control(p, heap, frames, n - 1, acts', frames[n].slots) /\ n > 1
    <3>1. n > 1
      BY <2>4, <2>5, <2>6, <1>4, PopFrameMove
    <3>2. Control(p, heap, frames, n - 1, acts', frames[n].slots)
      BY <2>4, <2>5, <2>6, <1>4, PopFrameMove
    <3>3. QED
      BY <3>1, <3>2
  <2>8. status' = "running"
    BY <2>1, <2>7, <1>4
  <2>9. Running'
    BY <2>1, <2>7, <2>8, <1>3, <1>4 DEF Running, p, n
  <2>10. top' <= Len(stack')
    BY <2>1, <1>2
  <2>11. QED
    BY <2>9, <2>10, <1>6
<1>10. QED
  BY <1>7, <1>8, <1>9

-----------------------------------------------------------------------------
(* 11. Calls from the interpreter *)

LEMMA SteppedMoves ==
    ASSUME AtFrame
    PROVE  Moved(Stepped(0), Frame.ip + 1)
<1> DEFINE a == Act.frame  m == frames[a].ip + 1 + 0
<1>1. Stepped(0) = [frames EXCEPT ![a] = [frames[a] EXCEPT !.ip = m]]
  BY DEF Stepped
<1>2. frames[a] = [closure |-> frames[a].closure, ip |-> frames[a].ip, slots |-> frames[a].slots]
  BY DEF AtFrame, IsFrame, Frame
<1>3. m = Frame.ip + 1
  BY DEF AtFrame, Frame
<1> HIDE DEF m
<1>4. [frames[a] EXCEPT !.ip = m] = [closure |-> frames[a].closure, ip |-> m, slots |-> frames[a].slots]
  BY <1>2
<1>5. QED
  BY <1>1, <1>3, <1>4 DEF Moved, SteppedFrame, Frame

\* The caller's frame goes on to wait for the result.
LEMMA CallSteps ==
    ASSUME AtFrame, Ins[1] = "CALL", NEW fs, Moved(fs, Frame.ip + 1)
    PROVE  /\ Control(session.plan, heap, fs, frameCount, acts, top - Ins[2])
           /\ Waits(session.plan, heap, fs[frameCount])
           /\ SlotsPlanned(session.plan, heap, fs, frameCount, upvalues, openUpvalues)
           /\ Sequence(fs) /\ frameCount <= Len(fs) /\ Len(fs) \in Nat
<1>1. /\ Grows(heap, heap) /\ Frame.ip + 1 \in Nexts(Frame.ip, Ins)
      /\ Ins[1] \notin {"CLOSURE", "CLOSE_UPVALUE"} /\ Takes(Ins) = Ins[2] + 1 /\ Leaves(Ins) = 1
      /\ Ins[2] \in Nat /\ top \in Nat
  BY SameGrows DEF AtFrame, DataInv, Data, Objects, Nexts, Takes, Leaves, OperandsFit
<1>2. top - Takes(Ins) + Leaves(Ins) = top - Ins[2]
  BY <1>1
<1>3. Control(session.plan, heap, fs, frameCount, acts, top - Ins[2])
  <2>1. Control(session.plan, heap, fs, frameCount, acts, top - Takes(Ins) + Leaves(Ins))
    BY <1>1, StepControl
  <2>2. QED
    BY <2>1, <1>2
<1>4. /\ FrameAt(frames, fs, frameCount, SteppedFrame(Frame, Frame.ip + 1))
      /\ Waits(session.plan, heap, SteppedFrame(Frame, Frame.ip + 1)) /\ Sequence(fs) /\ Len(fs) = Len(frames)
  BY <1>1, FrameSteps
<1>5. \A n \in 1 .. Len(openUpvalues) :
          \/ upvalues[openUpvalues[n]].at - Frame.slots \in CapturedAfter(Ins, Height, Captive)
          \/ \E i \in 1 .. frameCount - 1 :
                upvalues[openUpvalues[n]].at - frames[i].slots
                   \in CapturedAt(session.plan, heap, frames[i].closure, frames[i].ip)
  BY <1>1, ListKept
<1>6. SlotsPlanned(session.plan, heap, fs, frameCount, upvalues, openUpvalues)
  BY <1>1, <1>5, StepSlots
<1>7. Sequence(fs) /\ frameCount <= Len(fs) /\ Len(fs) \in Nat
  BY <1>4, SequenceFacts DEF AtFrame
<1>8. Waits(session.plan, heap, fs[frameCount])
  BY <1>4 DEF FrameAt
<1>9. QED
  BY <1>3, <1>6, <1>7, <1>8

\* A closure that can be called.
LEMMA ClosureFacts ==
    ASSUME PlansKept(session.plan), Objects(session.plan, heap, upvalues), NEW v, Good(heap, v), IsClosure(v)
    PROVE  /\ v[2] \in 1 .. Len(heap) /\ Located(session.plan, heap, v[2], 1)
           /\ HeightAt(session.plan, heap, v[2], 1) = Arity(v) + 1 /\ Arity(v) \in Nat
<1>1. v[2] \in 1 .. Len(heap) /\ heap[v[2]].kind = "closure" /\ IsClosureObject(session.plan, heap, upvalues, heap[v[2]])
  BY ObjectKinds DEF IsClosure
<1>2. heap[v[2]].fn \in DOMAIN session.plan
  BY <1>1 DEF IsClosureObject
<1>3. QED
  BY <1>1, <1>2, StartPlanned DEF Arity

LEMMA CallNativeCode ==
    ASSUME IInv, ~strayed, Call, RunsNative(Peek(Ins[2]), Ins[2])
    PROVE  IInv'
<1> DEFINE p == session.plan  callee == Peek(Ins[2])  n == Ins[2]  slots == top - n  mem == SubSeq(stack, slots, top)
           b == [kind |-> "native", closure |-> callee[2], ip |-> 1, slots |-> slots, mem |-> mem]
<1>1. AtFrame /\ Ins[1] = "CALL" /\ IsClosure(callee)
  BY Interpreted DEF Call, Fetch
<1>2. /\ n \in Nat /\ n < Height /\ top \in Nat /\ top <= Len(stack) /\ Len(stack) \in Nat
      /\ slots \in Nat /\ 1 <= slots /\ slots <= top + 1 /\ top - slots + 1 = n + 1 /\ slots <= top
  <2>1. Takes(Ins) = n + 1
    BY <1>1 DEF Takes
  <2>2. n \in Nat /\ n + 1 < Height /\ Height \in Nat /\ top = Frame.slots + Height - 1 /\ Frame.slots \in Nat
        /\ top \in Nat /\ top <= Len(stack) /\ Len(stack) \in Nat
    BY <1>1, <2>1 DEF AtFrame, OperandsFit
  <2> HIDE DEF n
  <2>3. n < Height /\ n < top
    BY <2>2
  <2>4. slots \in Nat /\ 1 <= slots /\ slots <= top
    BY <2>2, <2>3
  <2>5. slots <= top + 1 /\ top - slots + 1 = n + 1
    BY <2>2, <2>4
  <2>6. QED
    BY <2>2, <2>3, <2>4, <2>5
<1>3. /\ Filled(heap, stack) /\ Objects(p, heap, upvalues) /\ PlansKept(p) /\ IsRunAct(Innermost(acts)) /\ Sequence(acts)
      /\ status = "running" /\ DataInv /\ ListInv
  BY <1>1 DEF AtFrame, DataInv, Data, Control, Acting
<1>4. Filled(heap, mem) /\ Len(mem) = n + 1 /\ mem[1] = callee
  <2> HIDE DEF n, slots
  <2>1. /\ Filled(heap, mem) /\ Len(mem) = top - slots + 1
        /\ \A i \in 1 .. top - slots + 1 : mem[i] = stack[slots + i - 1]
    <3>1. slots \in Nat /\ top \in Nat /\ 1 <= slots /\ slots <= top + 1 /\ top <= Len(stack)
      BY <1>2
    <3>2. Filled(heap, stack)
      BY <1>3
    <3>3. QED
      BY <3>1, <3>2, FilledSub
  <2>2. 1 \in 1 .. top - slots + 1 /\ slots + 1 - 1 = slots
    BY <1>2
  <2>3. callee = stack[slots]
    BY DEF Peek, slots, n
  <2> HIDE DEF mem, callee
  <2>4. mem[1] = stack[slots]
    BY <2>1, <2>2
  <2>5. QED
    BY <2>1, <2>3, <2>4, <1>2
<1>5. /\ Good(heap, callee) /\ Located(p, heap, callee[2], 1) /\ HeightAt(p, heap, callee[2], 1) = n + 1
  <2>1. Good(heap, callee)
    BY <1>1, <1>2, Operands0
  <2>2. Arity(callee) = n
    BY DEF RunsNative
  <2>3. QED
    BY <2>1, <2>2, <1>1, <1>3, ClosureFacts
<1>6. /\ Advance /\ acts' = Append(acts, b) /\ frameCount' = frameCount
      /\ session' = session /\ taken' = taken /\ status' = status /\ forgotten' = forgotten /\ strayed' = strayed
      /\ heap' = heap /\ upvalues' = upvalues /\ openUpvalues' = openUpvalues /\ globals' = globals
      /\ stack' = stack /\ top' = top
  BY DEF Call, data
<1> HIDE DEF callee, n, slots, mem
<1>7. /\ b.kind = "native" /\ b.closure = callee[2] /\ b.ip = 1 /\ b.slots = slots /\ b.mem = mem
      /\ b = [kind |-> "native", closure |-> b.closure, ip |-> b.ip, slots |-> b.slots, mem |-> b.mem]
  OBVIOUS
<1> HIDE DEF b
<1>8. IsNative(p, heap, b, 0)
  BY <1>2, <1>4, <1>5, <1>7 DEF IsNative
<1>9. EndsWith(acts, acts', Len(acts) + 1, b)
  <2>1. Len(acts) \in Nat
    BY <1>3, SequenceFacts
  <2>2. \A k \in 1 .. Len(acts) + 1 - 1 : k \in 1 .. Len(acts)
    BY <2>1
  <2>3. QED
    BY <2>2, <1>3, <1>6, AppendFacts DEF EndsWith
<1>10. Moved(frames', Frame.ip + 1)
  BY <1>1, <1>6, AdvanceMoves DEF Leaps
<1>11. /\ Control(p, heap, frames', frameCount, acts, slots) /\ Waits(p, heap, frames'[frameCount])
       /\ SlotsPlanned(p, heap, frames', frameCount, upvalues, openUpvalues)
  BY <1>1, <1>10, CallSteps DEF slots, n
<1>12. Control(p, heap, frames', frameCount, acts', top)
  BY <1>2, <1>3, <1>7, <1>8, <1>9, <1>11, PushNativeOnRun
<1>13. Running' /\ top' <= Len(stack')
  BY <1>2, <1>3, <1>6, <1>12 DEF Running, p
<1>14. DataInv' /\ ListInv' /\ InputInv'
  BY <1>3, <1>6, <1>11 DEF DataInv, Data, ListInv, IInv, InputInv, p
<1>15. QED
  BY <1>13, <1>14 DEF IInv, VMInv

\* A frame is pushed above a stack of frames.
LEMMA PushedFrame ==
    ASSUME NEW fs, Sequence(fs), NEW n \in Nat, n <= Len(fs), NEW f
    PROVE  FrameAt(fs, Put(fs, n + 1, f), n + 1, f)
<1>1. Len(fs) \in Nat /\ n + 1 \in 1 .. Len(fs) + 1
  <2>1. Len(fs) \in Nat
    BY SequenceFacts
  <2>2. QED
    BY <2>1
<1>2. /\ Sequence(Put(fs, n + 1, f)) /\ Len(Put(fs, n + 1, f)) >= n + 1 /\ Put(fs, n + 1, f)[n + 1] = f
      /\ \A j \in 1 .. Len(fs) : j # n + 1 => Put(fs, n + 1, f)[j] = fs[j]
      /\ Len(Put(fs, n + 1, f)) \in Nat
  BY <1>1, PutFacts
<1>3. \A j \in 1 .. n + 1 - 1 : j \in 1 .. Len(fs) /\ j # n + 1
  BY <1>1
<1>4. n + 1 <= Len(Put(fs, n + 1, f))
  BY <1>2
<1>5. QED
  BY <1>2, <1>3, <1>4 DEF FrameAt

\* The slots that are planned stay so when a frame is pushed.
LEMMA SlotsPushed ==
    ASSUME NEW p, NEW h, NEW fs, NEW gs, NEW n \in Nat, NEW f, NEW us, NEW open,
           SlotsPlanned(p, h, fs, n, us, open), FrameAt(fs, gs, n + 1, f)
    PROVE  SlotsPlanned(p, h, gs, n + 1, us, open)
<1>1. \A i \in 1 .. n : gs[i] = fs[i] /\ i \in 1 .. n + 1
  BY DEF FrameAt
<1>2. QED
  BY <1>1 DEF SlotsPlanned

LEMMA CallInterpreter ==
    ASSUME IInv, ~strayed, Call, ~RunsNative(Peek(Ins[2]), Ins[2])
    PROVE  IInv'
<1> DEFINE p == session.plan  callee == Peek(Ins[2])  n == frameCount  slots == top - Ins[2]
           fs == Stepped(0)
           f == [closure |-> callee[2], ip |-> 1, slots |-> slots]
           b == [Innermost(acts) EXCEPT !.frame = n + 1]
<1>1. AtFrame /\ Ins[1] = "CALL" /\ IsClosure(callee) /\ Callable(callee, Ins[2])
  BY Interpreted DEF Call, Fetch
<1>2. /\ Ins[2] \in Nat /\ Ins[2] < Height /\ top \in Nat /\ top <= Len(stack)
      /\ slots \in Nat \ {0} /\ slots + (Ins[2] + 1) - 1 = top
  <2>1. Takes(Ins) = Ins[2] + 1
    BY <1>1 DEF Takes
  <2>2. Ins[2] \in Nat /\ Ins[2] + 1 < Height /\ Height \in Nat /\ top = Frame.slots + Height - 1 /\ Frame.slots \in Nat
        /\ top \in Nat /\ top <= Len(stack)
    BY <1>1, <2>1 DEF AtFrame, OperandsFit
  <2>3. QED
    BY <2>2
<1>3. /\ Objects(p, heap, upvalues) /\ PlansKept(p) /\ IsRunAct(Innermost(acts)) /\ Sequence(acts) /\ Len(acts) \in Nat
      /\ Len(acts) >= 1 /\ status = "running" /\ DataInv /\ ListInv /\ n \in Nat /\ n >= 1
  BY <1>1, SequenceFacts DEF AtFrame, DataInv, Data, Control, Acting
<1>4. /\ Located(p, heap, callee[2], 1) /\ HeightAt(p, heap, callee[2], 1) = Ins[2] + 1 /\ n < FramesMax
  <2>1. Good(heap, callee)
    BY <1>1, <1>2, Operands0
  <2>2. Arity(callee) = Ins[2] /\ n < FramesMax
    BY <1>1 DEF Callable
  <2>3. QED
    BY <2>1, <2>2, <1>1, <1>3, ClosureFacts
<1>5. /\ frames' = Put(fs, n + 1, f) /\ frameCount' = n + 1
      /\ acts' = [acts EXCEPT ![Len(acts)] = [acts[Len(acts)] EXCEPT !.frame = n + 1]]
      /\ session' = session /\ taken' = taken /\ status' = status /\ forgotten' = forgotten /\ strayed' = strayed
      /\ heap' = heap /\ upvalues' = upvalues /\ openUpvalues' = openUpvalues /\ globals' = globals
      /\ stack' = stack /\ top' = top
  BY DEF Call, data, Pushed
<1>6. acts' = [acts EXCEPT ![Len(acts)] = b]
  BY <1>5 DEF Innermost
<1> HIDE DEF callee, slots, fs
<1>7. /\ f.closure = callee[2] /\ f.ip = 1 /\ f.slots = slots
      /\ f = [closure |-> f.closure, ip |-> f.ip, slots |-> f.slots]
  OBVIOUS
<1> HIDE DEF f
<1>8. IsFrame(p, heap, f) /\ Ceiling(p, heap, f) = top
  BY <1>2, <1>4, <1>7 DEF IsFrame, Ceiling
<1>9. b = [Innermost(acts) EXCEPT !.frame = n + 1]
  OBVIOUS
<1> HIDE DEF b
<1>10. EndsWith(acts, acts', Len(acts), b)
  <2>1. Len(acts) \in 1 .. Len(acts)
    BY <1>3
  <2>2. \A x : /\ Sequence([acts EXCEPT ![Len(acts)] = x]) /\ Len([acts EXCEPT ![Len(acts)] = x]) = Len(acts)
               /\ [acts EXCEPT ![Len(acts)] = x][Len(acts)] = x
               /\ \A k \in 1 .. Len(acts) : k # Len(acts) => [acts EXCEPT ![Len(acts)] = x][k] = acts[k]
    BY <2>1, <1>3, ExceptFacts
  <2>3. /\ Sequence(acts') /\ Len(acts') = Len(acts) /\ acts'[Len(acts)] = b
        /\ \A k \in 1 .. Len(acts) : k # Len(acts) => acts'[k] = acts[k]
    BY <2>2, <1>6, Zenon
  <2>4. \A k \in 1 .. Len(acts) - 1 : k \in 1 .. Len(acts) /\ k # Len(acts)
    BY <1>3
  <2>5. QED
    BY <2>3, <2>4 DEF EndsWith
<1>11. /\ Control(p, heap, fs, n, acts, slots) /\ Waits(p, heap, fs[n])
       /\ SlotsPlanned(p, heap, fs, n, upvalues, openUpvalues) /\ Sequence(fs) /\ n <= Len(fs)
  BY <1>1, SteppedMoves, CallSteps DEF slots, fs
<1>12. FrameAt(fs, frames', n + 1, f)
  BY <1>3, <1>5, <1>11, PushedFrame
<1>13. Control(p, heap, frames', n + 1, acts', top)
  <2>1. Control(p, heap, frames', n + 1, acts', Ceiling(p, heap, f))
    BY <1>3, <1>4, <1>7, <1>8, <1>9, <1>10, <1>11, <1>12, PushFrameMove
  <2>2. QED
    BY <2>1, <1>8
<1>14. SlotsPlanned(p, heap, frames', n + 1, upvalues, openUpvalues)
  BY <1>3, <1>11, <1>12, SlotsPushed
<1>15. Running' /\ top' <= Len(stack')
  BY <1>2, <1>3, <1>5, <1>13 DEF Running
<1>16. DataInv' /\ ListInv' /\ InputInv'
  BY <1>3, <1>5, <1>14 DEF DataInv, Data, ListInv, IInv, InputInv
<1>17. QED
  BY <1>15, <1>16 DEF IInv, VMInv

LEMMA CallKeeps == IInv /\ ~strayed /\ Call => IInv'
BY CallNativeCode, CallInterpreter

-----------------------------------------------------------------------------
(* 12. Closures are made *)

LEMMA JoinFacts ==
    ASSUME NEW x, NEW y, NEW z, Sequence(x), Sequence(y), z = x \o y
    PROVE  /\ Sequence(z) /\ Len(z) = Len(x) + Len(y) /\ (\A m \in 1 .. Len(x) : z[m] = x[m])
           /\ \A m \in 1 .. Len(y) : z[Len(x) + m] = y[m]
BY ConcatFacts

\* What lies where after something has been inserted.
LEMMA InsertFacts ==
    ASSUME NEW s, Sequence(s), NEW i \in 1 .. Len(s) + 1, NEW e
    PROVE  /\ Sequence(InsertAt(s, i, e)) /\ Len(InsertAt(s, i, e)) = Len(s) + 1
           /\ \A m \in 1 .. i - 1 : InsertAt(s, i, e)[m] = s[m]
           /\ InsertAt(s, i, e)[i] = e
           /\ \A m \in i .. Len(s) : InsertAt(s, i, e)[m + 1] = s[m]
<1> DEFINE a == SubSeq(s, 1, i - 1)  b == SubSeq(s, i, Len(s))  c == a \o <<e>>  d == c \o b  n == Len(s)
<1>1. n \in Nat /\ i - 1 \in Nat /\ i \in Nat /\ i >= 1 /\ i - 1 <= n /\ i <= n + 1
  BY SequenceFacts
<1>2. Sequence(a) /\ Len(a) = i - 1 /\ \A m \in 1 .. i - 1 : a[m] = s[m]
  <2> DEFINE j == i - 1
  <2>1. j \in Nat /\ j <= n /\ j - 1 + 1 = j /\ \A m \in 1 .. j : 1 + m - 1 = m
    BY <1>1
  <2> HIDE DEF j
  <2>2. /\ Sequence(SubSeq(s, 1, j)) /\ Len(SubSeq(s, 1, j)) = j - 1 + 1
        /\ \A m \in 1 .. j - 1 + 1 : SubSeq(s, 1, j)[m] = s[1 + m - 1]
    BY <2>1, <1>1, SubSeqFacts
  <2>3. Sequence(SubSeq(s, 1, j)) /\ Len(SubSeq(s, 1, j)) = j /\ \A m \in 1 .. j : SubSeq(s, 1, j)[m] = s[m]
    BY <2>1, <2>2
  <2>4. QED
    BY <2>3 DEF j
<1>3. Sequence(b) /\ Len(b) = n - i + 1 /\ \A m \in 1 .. n - i + 1 : b[m] = s[i + m - 1]
  BY <1>1, SubSeqFacts
<1>4. InsertAt(s, i, e) = d
  BY DEF InsertAt
<1> HIDE DEF a, b, n
<1>5. Sequence(c) /\ Len(c) = i /\ c[i] = e /\ \A m \in 1 .. i - 1 : c[m] = a[m]
  <2>1. Sequence(<<e>>) /\ Len(<<e>>) = 1 /\ <<e>>[1] = e
    BY SingleFacts
  <2> DEFINE last == <<e>>
  <2>2. /\ Sequence(c) /\ Len(c) = Len(a) + Len(last) /\ \A m \in 1 .. Len(a) : c[m] = a[m]
        /\ \A m \in 1 .. Len(last) : c[Len(a) + m] = last[m]
    <3>1. Sequence(a) /\ Sequence(last) /\ c = a \o last
      BY <1>2, <2>1
    <3> HIDE DEF c, last
    <3>2. \A t : Sequence(t) =>
             /\ Sequence(a \o t) /\ Len(a \o t) = Len(a) + Len(t) /\ (\A m \in 1 .. Len(a) : (a \o t)[m] = a[m])
             /\ \A m \in 1 .. Len(t) : (a \o t)[Len(a) + m] = t[m]
      BY <3>1, ConcatFacts
    <3>3. QED
      BY <3>1, <3>2, Zenon
  <2>3. Len(a) + 1 = i /\ 1 \in 1 .. Len(<<e>>)
    BY <1>1, <1>2, <2>1
  <2> HIDE DEF c
  <2>4. c[Len(a) + 1] = e
    BY <2>1, <2>2, <2>3
  <2>5. QED
    BY <1>2, <2>1, <2>2, <2>3, <2>4
<1> HIDE DEF c
<1>6. /\ Sequence(d) /\ Len(d) = i + (n - i + 1) /\ \A m \in 1 .. i : d[m] = c[m]
      /\ \A m \in 1 .. n - i + 1 : d[i + m] = b[m]
  <2>0. d = c \o b
    OBVIOUS
  <2>1. Sequence(c) /\ Sequence(b)
    BY <1>3, <1>5
  <2> HIDE DEF d
  <2>2. Sequence(d)
    BY <2>0, <2>1, JoinFacts
  <2>3. Len(d) = Len(c) + Len(b)
    BY <2>0, <2>1, JoinFacts
  <2>4. \A m \in 1 .. Len(c) : d[m] = c[m]
    BY <2>0, <2>1, JoinFacts
  <2>5. \A m \in 1 .. Len(b) : d[Len(c) + m] = b[m]
    BY <2>0, <2>1, JoinFacts
  <2>6. Len(c) = i /\ Len(b) = n - i + 1
    BY <1>3, <1>5
  <2>7. QED
    BY <2>2, <2>3, <2>4, <2>5, <2>6
<1> HIDE DEF d
<1>7. ASSUME NEW m \in i .. n PROVE d[m + 1] = s[m]
  <2>1. m - i + 1 \in 1 .. n - i + 1 /\ i + (m - i + 1) = m + 1 /\ i + (m - i + 1) - 1 = m
    BY <1>1
  <2>2. d[i + (m - i + 1)] = b[m - i + 1] /\ b[m - i + 1] = s[i + (m - i + 1) - 1]
    BY <2>1, <1>3, <1>6
  <2>3. QED
    BY <2>1, <2>2
<1>8. ASSUME NEW m \in 1 .. i - 1 PROVE d[m] = s[m]
  BY <1>1, <1>2, <1>5, <1>6
<1>9. Sequence(d) /\ Len(d) = n + 1 /\ d[i] = e
  BY <1>1, <1>5, <1>6
<1>10. QED
  BY <1>4, <1>7, <1>8, <1>9 DEF n

\* A sequence of members of a set.
LEMMA SequenceIn ==
    ASSUME NEW s, Sequence(s), NEW T, \A i \in 1 .. Len(s) : s[i] \in T
    PROVE  s \in Seq(T)
<1>1. PICK S : s \in Seq(S)
  BY DEF Sequence
<1>2. Len(s) \in Nat /\ s \in [1 .. Len(s) -> S]
  BY <1>1, LenProperties
<1>3. s \in [1 .. Len(s) -> T]
  BY <1>2
<1>4. QED
  BY <1>2, <1>3, SeqDef

\* The slots that may be captured after the instruction, and those of callers.
Kept(at) ==
    \/ at - Frame.slots \in CapturedAfter(Ins, Height, Captive)
    \/ \E i \in 1 .. frameCount - 1 :
          at - frames[i].slots \in CapturedAt(session.plan, heap, frames[i].closure, frames[i].ip)

\* What captureUpvalue finds and leaves.
Gathered(acc, size) ==
    /\ acc = [open |-> acc.open, us |-> acc.us, captured |-> acc.captured]
    /\ Upvals(heap, acc.us, size) /\ Listing(acc.us, acc.open, forgotten)
    /\ Len(upvalues) <= Len(acc.us)
    /\ Sequence(acc.captured)
    /\ \A k \in 1 .. Len(acc.captured) : acc.captured[k] \in 1 .. Len(acc.us)
    /\ \A k \in 1 .. Len(acc.open) : Kept(acc.us[acc.open[k]].at)

\* One more captured.
LEMMA GatheredMore ==
    ASSUME NEW acc, NEW size, Gathered(acc, size), NEW u \in 1 .. Len(acc.us),
           NEW new, new = [open |-> acc.open, us |-> acc.us, captured |-> Append(acc.captured, u)]
    PROVE  Gathered(new, size) /\ Len(new.captured) = Len(acc.captured) + 1
<1>1. /\ new.open = acc.open /\ new.us = acc.us /\ new.captured = Append(acc.captured, u)
      /\ new = [open |-> new.open, us |-> new.us, captured |-> new.captured]
  OBVIOUS
<1>2. /\ Sequence(new.captured) /\ Len(new.captured) = Len(acc.captured) + 1 /\ Len(acc.captured) \in Nat
      /\ new.captured[Len(acc.captured) + 1] = u
      /\ \A k \in 1 .. Len(acc.captured) : new.captured[k] = acc.captured[k]
  BY <1>1, AppendFacts, SequenceFacts DEF Gathered
<1>3. \A k \in 1 .. Len(new.captured) : new.captured[k] \in 1 .. Len(new.us)
  <2> TAKE k \in 1 .. Len(new.captured)
  <2>1. k \in 1 .. Len(acc.captured) \/ k = Len(acc.captured) + 1
    BY <1>2
  <2>2. QED
    BY <2>1, <1>1, <1>2 DEF Gathered
<1>4. QED
  BY <1>1, <1>2, <1>3 DEF Gathered

\* A new open upvalue in its place.
LEMMA GatheredNew ==
    ASSUME NEW acc, NEW size \in Nat, Gathered(acc, size), Len(upvalues) \in Nat, NEW at \in 1 .. size, Kept(at),
           NEW place, place = NotAbove(acc.open, acc.us, at),
           ~(place <= Len(acc.open) /\ acc.us[acc.open[place]].at = at),
           NEW new, new = [open |-> InsertAt(acc.open, place, Len(acc.us) + 1),
                           us |-> Append(acc.us, [at |-> at, closed |-> Nil]),
                           captured |-> Append(acc.captured, Len(acc.us) + 1)]
    PROVE  Gathered(new, size) /\ Len(new.captured) = Len(acc.captured) + 1
<1> DEFINE us == acc.us  open == acc.open  j == Len(us) + 1  x == [at |-> at, closed |-> Nil]
           us2 == new.us  open2 == new.open  At(n) == us[open[n]].at  At2(n) == us2[open2[n]].at
<1>1. /\ open2 = InsertAt(open, place, j) /\ us2 = Append(us, x) /\ new.captured = Append(acc.captured, j)
      /\ new = [open |-> new.open, us |-> new.us, captured |-> new.captured]
  OBVIOUS
<1>2. /\ Upvals(heap, us, size) /\ Listing(us, open, forgotten) /\ Len(upvalues) <= Len(us)
      /\ Sequence(acc.captured) /\ (\A k \in 1 .. Len(acc.captured) : acc.captured[k] \in 1 .. Len(us))
      /\ (\A k \in 1 .. Len(open) : Kept(At(k)))
  BY DEF Gathered
<1>3. x.at = at /\ x.closed = Nil /\ x = [at |-> x.at, closed |-> x.closed] /\ at \in 0 .. size /\ at \in Nat /\ at > 0
  OBVIOUS
<1> HIDE DEF x, us2, open2
<1>4. /\ Sequence(us) /\ Len(us) \in Nat /\ Sequence(open) /\ Len(open) \in Nat
      /\ Len(acc.captured) \in Nat
  BY <1>2, SequenceFacts DEF Upvals, Listing
<1> HIDE DEF us, open
<1>5. /\ \A n \in 1 .. Len(open) : open[n] \in 1 .. Len(us) /\ At(n) > 0 /\ At(n) \in Nat
      /\ \A m, n \in 1 .. Len(open) : m < n => At(m) > At(n)
      /\ \A u \in 1 .. Len(us) : us[u].at > 0 => u \in forgotten \/ \E n \in 1 .. Len(open) : open[n] = u
  <2>1. \A n \in 1 .. Len(open) : open[n] \in 1 .. Len(us) /\ At(n) > 0
    BY <1>2 DEF Listing
  <2>2. \A u \in 1 .. Len(us) : us[u].at \in Nat
    <3>1. \A u \in 1 .. Len(us) : us[u].at \in 0 .. size
      BY <1>2 DEF Upvals
    <3>2. \A n \in 0 .. size : n \in Nat
      OBVIOUS
    <3>3. QED
      BY <3>1, <3>2
  <2>3. QED
    BY <2>1, <2>2, <1>2 DEF Listing
<1>6. /\ Sequence(us2) /\ Len(us2) = j /\ us2[j] = x /\ j \in Nat
      /\ \A u \in 1 .. Len(us) : us2[u] = us[u]
  BY <1>1, <1>4, AppendFacts
<1>7. place \in 1 .. Len(open) + 1 /\ place \in Nat
  <2>1. place \in 1 .. Len(open) + 1
    BY <1>4, NotAboveFacts DEF us, open
  <2>2. QED
    BY <2>1, <1>4
<1>8. /\ \A n \in 1 .. Len(open) : n < place => At(n) > at
      /\ \A n \in 1 .. Len(open) : n >= place => At(n) < at
  <2>1. /\ \A n \in 1 .. Len(open) : n < place => ~(At(n) <= at)
        /\ place <= Len(open) => At(place) <= at
    BY <1>4, NotAboveFacts DEF us, open
  <2>2. place <= Len(open) => At(place) # at
    BY DEF us, open
  <2>3. ASSUME NEW n \in 1 .. Len(open), n >= place PROVE At(n) < at
    <3>1. place <= Len(open) /\ place \in 1 .. Len(open) /\ (n = place \/ place < n)
      BY <2>3, <1>4, <1>7
    <3>2. At(place) < at /\ At(n) \in Nat /\ At(place) \in Nat
      BY <2>1, <2>2, <3>1, <1>3, <1>5
    <3>3. n # place => At(place) > At(n)
      BY <3>1, <1>5
    <3>4. QED
      BY <3>2, <3>3, <1>3
  <2>4. ASSUME NEW n \in 1 .. Len(open), n < place PROVE At(n) > at
    BY <2>1, <2>4, <1>3, <1>5
  <2>5. QED
    BY <2>3, <2>4
<1>9. /\ Sequence(open2) /\ Len(open2) = Len(open) + 1 /\ open2[place] = j
      /\ \A m \in 1 .. place - 1 : open2[m] = open[m]
      /\ \A m \in place .. Len(open) : open2[m + 1] = open[m]
  BY <1>1, <1>4, <1>7, InsertFacts
<1>10. ASSUME NEW n \in 1 .. Len(open2)
       PROVE  \/ n = place /\ open2[n] = j /\ At2(n) = at
              \/ n < place /\ n \in 1 .. Len(open) /\ open2[n] = open[n] /\ At2(n) = At(n)
              \/ n > place /\ n - 1 \in 1 .. Len(open) /\ n - 1 >= place /\ open2[n] = open[n - 1] /\ At2(n) = At(n - 1)
  <2>1. CASE n = place
    BY <2>1, <1>3, <1>6, <1>9
  <2>2. CASE n < place
    <3>1. n \in 1 .. Len(open) /\ n \in 1 .. place - 1
      BY <2>2, <1>4, <1>7, <1>9
    <3>2. open2[n] = open[n] /\ open[n] \in 1 .. Len(us)
      BY <3>1, <1>5, <1>9
    <3>3. QED
      BY <3>1, <3>2, <2>2, <1>6
  <2>3. CASE n > place
    <3>1. n - 1 \in 1 .. Len(open) /\ n - 1 \in place .. Len(open) /\ (n - 1) + 1 = n /\ n - 1 >= place
      BY <2>3, <1>4, <1>7, <1>9
    <3>2. open2[n] = open[n - 1] /\ open[n - 1] \in 1 .. Len(us)
      BY <3>1, <1>5, <1>9
    <3>3. QED
      BY <3>1, <3>2, <2>3, <1>6
  <2>4. QED
    BY <2>1, <2>2, <2>3, <1>4, <1>7, <1>9
<1>20. \A n \in 1 .. Len(open2) :
          /\ n = place => At2(n) = at
          /\ n < place => n \in 1 .. Len(open) /\ At2(n) = At(n)
          /\ n > place => n - 1 \in 1 .. Len(open) /\ n - 1 >= place /\ At2(n) = At(n - 1)
  <2> TAKE n \in 1 .. Len(open2)
  <2>1. n \in Nat /\ place \in Nat
    BY <1>4, <1>7, <1>9
  <2> HIDE DEF At2, At
  <2>2. n = place => ~(n < place) /\ ~(n > place)
    BY <2>1
  <2>3. n < place => n # place /\ ~(n > place)
    BY <2>1
  <2>4. n > place => n # place /\ ~(n < place)
    BY <2>1
  <2>5. QED
    BY <1>10, <2>2, <2>3, <2>4
<1>11. \A n \in 1 .. Len(open2) : open2[n] \in 1 .. Len(us2) /\ At2(n) > 0
  <2> TAKE n \in 1 .. Len(open2)
  <2>1. \A u \in 1 .. Len(us) : u \in 1 .. Len(us2)
    BY <1>4, <1>6
  <2>2. j \in 1 .. Len(us2)
    BY <1>4, <1>6
  <2>3. QED
    BY <2>1, <2>2, <1>3, <1>5, <1>10
<1>12. ASSUME NEW m \in 1 .. Len(open2), NEW n \in 1 .. Len(open2), m < n
       PROVE  At2(m) > At2(n)
  <2> HIDE DEF j, At, At2
  <2>1. m \in Nat /\ n \in Nat
    BY <1>4, <1>9
  <2>2. CASE m = place
    <3>1. n > place
      BY <2>2, <1>12
    <3>2. At2(m) = at /\ At2(n) = At(n - 1) /\ n - 1 \in 1 .. Len(open) /\ n - 1 >= place
      BY <2>2, <3>1, <2>1, <1>7, <1>20
    <3>3. At(n - 1) < at /\ At(n - 1) \in Nat
      BY <3>2, <1>5, <1>8
    <3>4. QED
      BY <3>2, <3>3, <1>3
  <2>3. CASE m < place
    <3>1. At2(m) = At(m) /\ m \in 1 .. Len(open) /\ At(m) \in Nat /\ At(m) > at
      BY <2>3, <2>1, <1>5, <1>7, <1>8, <1>20
    <3>2. CASE n = place
      BY <3>1, <3>2, <1>20, <2>1, <1>7
    <3>3. CASE n < place
      <4>1. At2(n) = At(n) /\ n \in 1 .. Len(open)
        BY <3>3, <2>1, <1>7, <1>20
      <4>2. QED
        BY <4>1, <3>1, <1>5, <1>12
    <3>4. CASE n > place
      <4>1. At2(n) = At(n - 1) /\ n - 1 \in 1 .. Len(open) /\ n - 1 >= place
        BY <3>4, <2>1, <1>7, <1>20
      <4>2. At(n - 1) < at /\ At(n - 1) \in Nat
        BY <4>1, <1>5, <1>8
      <4>3. QED
        BY <4>1, <4>2, <3>1, <1>3
    <3>5. QED
      BY <3>2, <3>3, <3>4, <2>1, <1>7
  <2>4. CASE m > place
    <3>1. n > place
      BY <2>4, <1>12, <2>1, <1>7
    <3>2. At2(m) = At(m - 1) /\ m - 1 \in 1 .. Len(open) /\ At2(n) = At(n - 1) /\ n - 1 \in 1 .. Len(open)
      BY <2>4, <3>1, <2>1, <1>7, <1>20
    <3>3. m - 1 < n - 1
      BY <2>1, <1>12
    <3>4. QED
      BY <3>2, <3>3, <1>5
  <2>5. QED
    BY <2>1, <2>2, <2>3, <2>4, <1>7
<1>13. ASSUME NEW u \in 1 .. Len(us2), us2[u].at > 0
       PROVE  u \in forgotten \/ \E n \in 1 .. Len(open2) : open2[n] = u
  <2>1. place \in 1 .. Len(open2)
    BY <1>4, <1>7, <1>9
  <2>2. CASE u = j
    BY <2>1, <2>2, <1>9
  <2>3. CASE u # j
    <3>1. u \in 1 .. Len(us) /\ us[u].at > 0
      BY <2>3, <1>4, <1>6, <1>13
    <3>2. CASE \E n \in 1 .. Len(open) : open[n] = u
      <4>1. PICK n \in 1 .. Len(open) : open[n] = u
        BY <3>2
      <4>2. CASE n < place
        <5>1. n \in 1 .. place - 1 /\ n \in 1 .. Len(open2)
          BY <4>2, <1>4, <1>7, <1>9
        <5>2. QED
          BY <5>1, <4>1, <1>9
      <4>3. CASE n >= place
        <5>1. n \in place .. Len(open) /\ n + 1 \in 1 .. Len(open2)
          BY <4>3, <1>4, <1>7, <1>9
        <5>2. QED
          BY <5>1, <4>1, <1>9
      <4>4. QED
        BY <4>2, <4>3, <1>4, <1>7
    <3>3. QED
      BY <3>1, <3>2, <1>5
  <2>4. QED
    BY <2>2, <2>3
<1>14. Listing(us2, open2, forgotten)
  BY <1>9, <1>11, <1>12, <1>13 DEF Listing
<1>15. Upvals(heap, us2, size)
  <2>1. ASSUME NEW u \in 1 .. Len(us2)
        PROVE  /\ us2[u] = [at |-> us2[u].at, closed |-> us2[u].closed]
               /\ us2[u].at \in 0 .. size /\ Good(heap, us2[u].closed)
    <3>1. CASE u = j
      BY <3>1, <1>3, <1>6, GoodPlain
    <3>2. CASE u # j
      <4>1. u \in 1 .. Len(us)
        BY <3>2, <1>4, <1>6
      <4>2. QED
        BY <4>1, <1>2, <1>6 DEF Upvals
    <3>3. QED
      BY <3>1, <3>2
  <2>2. QED
    BY <2>1, <1>6 DEF Upvals
<1>16. \A k \in 1 .. Len(open2) : Kept(At2(k))
  BY <1>2, <1>10
<1>17. /\ Sequence(new.captured) /\ Len(new.captured) = Len(acc.captured) + 1
       /\ \A k \in 1 .. Len(new.captured) : new.captured[k] \in 1 .. Len(us2)
  <2>1. /\ Sequence(new.captured) /\ Len(new.captured) = Len(acc.captured) + 1
        /\ new.captured[Len(acc.captured) + 1] = j
        /\ \A k \in 1 .. Len(acc.captured) : new.captured[k] = acc.captured[k]
    BY <1>1, <1>2, AppendFacts
  <2>2. \A u \in 1 .. Len(us) : u \in 1 .. Len(us2)
    BY <1>4, <1>6
  <2>3. j \in 1 .. Len(us2)
    BY <1>4, <1>6
  <2>4. ASSUME NEW k \in 1 .. Len(new.captured) PROVE new.captured[k] \in 1 .. Len(us2)
    <3>1. k \in 1 .. Len(acc.captured) \/ k = Len(acc.captured) + 1
      BY <2>1, <1>4
    <3>2. QED
      BY <3>1, <2>1, <2>2, <2>3, <1>2
  <2>5. QED
    BY <2>1, <2>4
<1>18. Len(upvalues) <= Len(us2)
  BY <1>2, <1>4, <1>6
<1>19. QED
  BY <1>1, <1>14, <1>15, <1>16, <1>17, <1>18 DEF Gathered, us2, open2

\* The closed values that there are: those of before, and nil.
ClosedValues == {Nil} \cup {upvalues[u].closed : u \in 1 .. Len(upvalues)}
Within0(acc) == \A u \in 1 .. Len(acc.us) : acc.us[u].closed \in ClosedValues
Accs(size) ==
    {acc \in [open : Seq(Nat), us : Seq([at : 0 .. size, closed : ClosedValues]), captured : Seq(Nat)] :
        Gathered(acc, size) /\ Within0(acc)}

LEMMA AccsHold ==
    ASSUME NEW size \in Nat, NEW acc, Gathered(acc, size), Within0(acc)
    PROVE  acc \in Accs(size)
<1>1. /\ acc = [open |-> acc.open, us |-> acc.us, captured |-> acc.captured]
      /\ Sequence(acc.open) /\ Sequence(acc.us) /\ Sequence(acc.captured)
  BY DEF Gathered, Upvals, Listing
<1>2. Len(acc.us) \in Nat /\ \A u \in 1 .. Len(acc.us) : u \in Nat
  BY <1>1, SequenceFacts
<1>3. acc.open \in Seq(Nat)
  <2>1. \A n \in 1 .. Len(acc.open) : acc.open[n] \in Nat
    BY <1>2 DEF Gathered, Listing
  <2>2. QED
    BY <1>1, <2>1, SequenceIn
<1>4. acc.captured \in Seq(Nat)
  <2>1. \A n \in 1 .. Len(acc.captured) : acc.captured[n] \in Nat
    BY <1>2 DEF Gathered
  <2>2. QED
    BY <1>1, <2>1, SequenceIn
<1>5. acc.us \in Seq([at : 0 .. size, closed : ClosedValues])
  <2>1. ASSUME NEW u \in 1 .. Len(acc.us) PROVE acc.us[u] \in [at : 0 .. size, closed : ClosedValues]
    <3>1. acc.us[u] = [at |-> acc.us[u].at, closed |-> acc.us[u].closed] /\ acc.us[u].at \in 0 .. size
      BY DEF Gathered, Upvals
    <3>2. acc.us[u].closed \in ClosedValues
      BY DEF Within0
    <3>3. QED
      BY <3>1, <3>2
  <2>2. QED
    BY <1>1, <2>1, SequenceIn
<1>6. acc \in [open : Seq(Nat), us : Seq([at : 0 .. size, closed : ClosedValues]), captured : Seq(Nat)]
  BY <1>1, <1>3, <1>4, <1>5
<1>7. QED
  BY <1>6 DEF Accs

\* A closure is being made.
AtClosure ==
    /\ AtFrame /\ Ins[1] = "CLOSURE" /\ Ins[2] \in DOMAIN session.plan /\ Len(Ins[2].upvalues) \in Nat
    /\ \A k \in 1 .. Len(Ins[2].upvalues) :
          Ins[2].upvalues[k].index \in (IF Ins[2].upvalues[k].isLocal THEN 0 .. Height
                                        ELSE 0 .. Len(heap[Frame.closure].fn.upvalues) - 1)

LEMMA AtClosureThere ==
    ASSUME AtFrame, Ins[1] = "CLOSURE"
    PROVE  AtClosure
<1>1. OperandsFit(heap[Frame.closure].fn, Ins, Height, session.plan) /\ PlansKept(session.plan)
  BY DEF AtFrame
<1>2. Ins[2] \in DOMAIN session.plan
  BY <1>1 DEF OperandsFit
<1>3. Len(Ins[2].upvalues) \in Nat
  BY <1>1, <1>2 DEF PlansKept, Planned
<1>4. QED
  BY <1>1, <1>2, <1>3 DEF OperandsFit, AtClosure

\* One upvalue of the new closure.
LEMMA CaptureStep ==
    ASSUME AtClosure, NEW size \in Nat, top + 1 <= size, NEW k \in 1 .. Len(Ins[2].upvalues),
           NEW acc, Gathered(acc, size), Within0(acc),
           NEW new, new = Capture(acc, Ins[2].upvalues[k])
    PROVE  Gathered(new, size) /\ Within0(new) /\ Len(new.captured) = Len(acc.captured) + 1
<1> DEFINE up == Ins[2].upvalues[k]
<1>1. /\ Sequence(acc.us) /\ Len(acc.us) \in Nat /\ Sequence(acc.open) /\ Len(acc.open) \in Nat
      /\ acc = [open |-> acc.open, us |-> acc.us, captured |-> acc.captured] /\ Len(upvalues) <= Len(acc.us)
      /\ \A n \in 1 .. Len(acc.open) : acc.open[n] \in 1 .. Len(acc.us)
  <2>1. Sequence(acc.us) /\ Sequence(acc.open) /\ Len(upvalues) <= Len(acc.us)
    BY DEF Gathered, Upvals, Listing
  <2>2. Len(acc.us) \in Nat /\ Len(acc.open) \in Nat
    BY <2>1, SequenceFacts
  <2>3. QED
    BY <2>1, <2>2 DEF Gathered, Listing
<1>2. Len(upvalues) \in Nat
  <2>1. Sequence(upvalues)
    BY DEF AtClosure, AtFrame, DataInv, Data, Upvals
  <2>2. QED
    BY <2>1, SequenceFacts
<1>3. CASE ~up.isLocal
  <2>1. up.index \in 0 .. Len(heap[Frame.closure].fn.upvalues) - 1
    BY <1>3 DEF AtClosure
  <2>2. Upvalue(up.index) \in 1 .. Len(upvalues)
    <3>1. /\ Len(heap[Frame.closure].upvalues) = Len(heap[Frame.closure].fn.upvalues)
          /\ Sequence(heap[Frame.closure].upvalues)
          /\ \A n \in 1 .. Len(heap[Frame.closure].upvalues) : heap[Frame.closure].upvalues[n] \in 1 .. Len(upvalues)
      BY DEF AtClosure, AtFrame, IsClosureObject
    <3>2. Len(heap[Frame.closure].upvalues) \in Nat
      BY <3>1, SequenceFacts
    <3>5. \A l \in Nat : \A i \in 0 .. l - 1 : i + 1 \in 1 .. l
      OBVIOUS
    <3>3. up.index + 1 \in 1 .. Len(heap[Frame.closure].upvalues)
      BY <2>1, <3>1, <3>2, <3>5
    <3>4. QED
      BY <3>1, <3>3 DEF Upvalue
  <2>3. Upvalue(up.index) \in 1 .. Len(acc.us)
    BY <2>2, <1>1, <1>2
  <2>4. new = [acc EXCEPT !.captured = Append(@, Upvalue(up.index))]
    BY <1>3 DEF Capture
  <2>5. new = [open |-> acc.open, us |-> acc.us, captured |-> Append(acc.captured, Upvalue(up.index))]
    BY <2>4, <1>1
  <2>6. Gathered(new, size) /\ Len(new.captured) = Len(acc.captured) + 1
    BY <2>3, <2>5, GatheredMore
  <2>7. new.us = acc.us
    BY <2>5
  <2>8. QED
    BY <2>6, <2>7 DEF Within0
<1>4. CASE up.isLocal
  <2> DEFINE at == Frame.slots + up.index  place == NotAbove(acc.open, acc.us, at)
  <2>1. up.index \in 0 .. Height /\ Frame.slots \in Nat \ {0} /\ Height \in Nat \ {0} /\ top = Frame.slots + Height - 1
    BY <1>4 DEF AtClosure, AtFrame
  <2>2. at \in 1 .. size /\ at - Frame.slots = up.index
    <3>1. \A h, s \in Nat \ {0} : \A i \in 0 .. h : \A t : t = s + h - 1 /\ t + 1 <= size =>
             s + i \in 1 .. size /\ s + i - s = i
      OBVIOUS
    <3> HIDE DEF up
    <3>2. \A t : t = Frame.slots + Height - 1 /\ t + 1 <= size => Frame.slots + up.index \in 1 .. size
      BY <2>1, <3>1
    <3>3. Frame.slots + up.index - Frame.slots = up.index
      BY <2>1, <3>1
    <3>4. QED
      BY <2>1, <3>2, <3>3
  <2>3. Kept(at)
    <3>1. up.index \in LocalsOf(Ins[2])
      BY <1>4 DEF LocalsOf
    <3>2. up.index \in CapturedAfter(Ins, Height, Captive)
      BY <3>1 DEF CapturedAfter, AtClosure
    <3>3. QED
      BY <3>2, <2>2 DEF Kept
  <2>4. new = CaptureUpvalue(acc, at)
    BY <1>4 DEF Capture
  <2>5. place \in 1 .. Len(acc.open) + 1
    BY <1>1, NotAboveFacts
  <2> HIDE DEF at
  <2>6. CASE place <= Len(acc.open) /\ acc.us[acc.open[place]].at = at
    <3>1. new = [acc EXCEPT !.captured = Append(@, acc.open[place])]
      BY <2>4, <2>6 DEF CaptureUpvalue
    <3> HIDE DEF place
    <3>2. new = [open |-> acc.open, us |-> acc.us, captured |-> Append(acc.captured, acc.open[place])]
      BY <3>1, <1>1
    <3>3. acc.open[place] \in 1 .. Len(acc.us)
      BY <2>5, <2>6, <1>1
    <3>4. Gathered(new, size) /\ Len(new.captured) = Len(acc.captured) + 1
      BY <3>2, <3>3, GatheredMore
    <3>5. new.us = acc.us
      BY <3>2
    <3>6. QED
      BY <3>4, <3>5 DEF Within0
  <2>7. CASE ~(place <= Len(acc.open) /\ acc.us[acc.open[place]].at = at)
    <3>1. new = [open |-> InsertAt(acc.open, place, Len(acc.us) + 1),
                 us |-> Append(acc.us, [at |-> at, closed |-> Nil]),
                 captured |-> Append(acc.captured, Len(acc.us) + 1)]
      BY <2>4, <2>7 DEF CaptureUpvalue
    <3>2. place = NotAbove(acc.open, acc.us, at)
      OBVIOUS
    <3> HIDE DEF place
    <3>3. Gathered(new, size) /\ Len(new.captured) = Len(acc.captured) + 1
      <4>1. Gathered(new, size)
        BY <1>2, <2>2, <2>3, <2>7, <3>1, <3>2, GatheredNew
      <4>2. Len(new.captured) = Len(acc.captured) + 1
        <5>1. new.captured = Append(acc.captured, Len(acc.us) + 1)
          BY <3>1
        <5>2. Sequence(acc.captured)
          BY DEF Gathered
        <5>3. QED
          BY <5>1, <5>2, AppendFacts
      <4>3. QED
        BY <4>1, <4>2
    <3>4. new.us = Append(acc.us, [at |-> at, closed |-> Nil])
      BY <3>1
    <3>5. Within0(new)
      <4> DEFINE x == [at |-> at, closed |-> Nil]
      <4>1. x.closed = Nil
        OBVIOUS
      <4> HIDE DEF x
      <4>2. /\ Len(new.us) = Len(acc.us) + 1 /\ new.us[Len(acc.us) + 1] = x
            /\ \A u \in 1 .. Len(acc.us) : new.us[u] = acc.us[u]
        BY <3>4, <1>1, AppendFacts DEF x
      <4>3. ASSUME NEW u \in 1 .. Len(new.us) PROVE new.us[u].closed \in ClosedValues
        <5>1. u \in 1 .. Len(acc.us) \/ u = Len(acc.us) + 1
          BY <4>2, <1>1
        <5>2. CASE u = Len(acc.us) + 1
          BY <5>2, <4>1, <4>2 DEF ClosedValues
        <5>3. CASE u \in 1 .. Len(acc.us)
          BY <5>3, <4>2 DEF Within0
        <5>4. QED
          BY <5>1, <5>2, <5>3
      <4>4. QED
        BY <4>3 DEF Within0
    <3>6. QED
      BY <3>3, <3>5
  <2>8. QED
    BY <2>6, <2>7
<1>5. QED
  BY <1>3, <1>4

\* All of them, from those there are.
LEMMA CapturesDone ==
    ASSUME AtClosure, NEW size \in Nat, top + 1 <= size, Len(stack) <= size
    PROVE  /\ Gathered(Captures(Ins[2].upvalues), size)
           /\ Len(Captures(Ins[2].upvalues).captured) = Len(Ins[2].upvalues)
<1> DEFINE ups == Ins[2].upvalues
           n == Len(ups)
           start == [open |-> openUpvalues, us |-> upvalues, captured |-> <<>>]
           T == Accs(size)
           made[i \in 0 .. n] == IF i = 0 THEN start ELSE Capture(made[i - 1], ups[i])
           Turn == [i \in 1 .. n |-> [acc \in T |-> Capture(acc, ups[i])]]
<1>1. n \in Nat
  BY DEF AtClosure
<1>2. Gathered(start, size) /\ Within0(start) /\ Len(start.captured) = 0
  <2>1. /\ start.open = openUpvalues /\ start.us = upvalues /\ start.captured = <<>>
        /\ start = [open |-> start.open, us |-> start.us, captured |-> start.captured]
    OBVIOUS
  <2> HIDE DEF start
  <2>2. Upvals(heap, upvalues, size)
    <3>1. Upvals(heap, upvalues, Len(stack)) /\ Len(stack) \in Nat
      BY DEF AtClosure, AtFrame, DataInv, Data
    <3>2. \A at \in 0 .. Len(stack) : at \in 0 .. size
      BY <3>1
    <3>3. QED
      BY <3>1, <3>2 DEF Upvals
  <2>3. Listing(upvalues, openUpvalues, forgotten)
    BY DEF AtClosure, AtFrame, ListInv
  <2>4. Len(upvalues) \in Nat
    <3>1. Sequence(upvalues)
      BY <2>2 DEF Upvals
    <3>2. QED
      BY <3>1, SequenceFacts
  <2>5. ASSUME NEW m \in 1 .. Len(openUpvalues) PROVE Kept(upvalues[openUpvalues[m]].at)
    <3>1. /\ SlotsPlanned(session.plan, heap, frames, frameCount, upvalues, openUpvalues)
          /\ frameCount \in Nat /\ Frame = frames[frameCount]
      BY DEF AtClosure, AtFrame, ListInv
    <3>2. PICK i \in 1 .. frameCount :
             upvalues[openUpvalues[m]].at - frames[i].slots
                \in CapturedAt(session.plan, heap, frames[i].closure, frames[i].ip)
      BY <3>1 DEF SlotsPlanned
    <3>3. CASE i = frameCount
      <4>1. upvalues[openUpvalues[m]].at - Frame.slots \in Captive
        BY <3>1, <3>2, <3>3 DEF Captive
      <4>2. QED
        BY <4>1 DEF Kept, CapturedAfter, AtClosure
    <3>4. CASE i # frameCount
      <4>1. i \in 1 .. frameCount - 1
        BY <3>1, <3>4
      <4>2. QED
        BY <4>1, <3>2 DEF Kept
    <3>5. QED
      BY <3>3, <3>4
  <2>6. Within0(start)
    BY <2>1 DEF Within0, ClosedValues
  <2>7. Sequence(start.captured) /\ Len(start.captured) = 0
    BY <2>1, EmptyFacts
  <2>8. \A k \in 1 .. Len(start.captured) : start.captured[k] \in 1 .. Len(start.us)
    BY <2>7
  <2>9. Gathered(start, size)
    BY <2>1, <2>2, <2>3, <2>4, <2>5, <2>7, <2>8 DEF Gathered
  <2>10. QED
    BY <2>6, <2>7, <2>9
<1> HIDE DEF start
<1>3. \A acc : acc \in T <=> Gathered(acc, size) /\ Within0(acc)
  BY AccsHold DEF Accs
<1>4. start \in T
  BY <1>2, <1>3
<1>5. \A i \in 1 .. n : \A acc \in T :
         Capture(acc, ups[i]) \in T /\ Len(Capture(acc, ups[i]).captured) = Len(acc.captured) + 1
  <2> SUFFICES ASSUME NEW i \in 1 .. n, NEW acc \in T
               PROVE  Capture(acc, ups[i]) \in T /\ Len(Capture(acc, ups[i]).captured) = Len(acc.captured) + 1
    OBVIOUS
  <2> DEFINE new == Capture(acc, ups[i])
  <2>1. Gathered(acc, size) /\ Within0(acc)
    BY <1>3
  <2>2. new = Capture(acc, Ins[2].upvalues[i]) /\ i \in 1 .. Len(Ins[2].upvalues)
    OBVIOUS
  <2> HIDE DEF new, n, ups
  <2>3. Gathered(new, size)
    BY <2>1, <2>2, CaptureStep
  <2>4. Within0(new)
    BY <2>1, <2>2, CaptureStep
  <2>5. Len(new.captured) = Len(acc.captured) + 1
    BY <2>1, <2>2, CaptureStep
  <2>6. QED
    BY <2>3, <2>4, <2>5, <1>3 DEF new
<1> HIDE DEF T
<1>6. Turn \in Turns(n, T)
  <2> HIDE DEF n, ups
  <2>1. QED
    BY <1>5 DEF Turns
<1>7. PICK g : Follows(g, n, T, start, Turn)
  <2> HIDE DEF Turn, n
  <2>1. QED
    BY <1>1, <1>4, <1>6, RecursionHasSolution
<1>8. /\ \A i \in 1 .. n : g[i - 1] \in T
      /\ g = [i \in 0 .. n |-> IF i = 0 THEN start ELSE Turn[i][g[i - 1]]]
  <2> HIDE DEF Turn, n
  <2>1. QED
    BY <1>1, <1>7, FollowsSteps
<1>9. g = [i \in 0 .. n |-> IF i = 0 THEN start ELSE Capture(g[i - 1], ups[i])]
  <2> HIDE DEF n, ups
  <2>1. \A i \in 1 .. n : Turn[i][g[i - 1]] = Capture(g[i - 1], ups[i])
    BY <1>8
  <2>2. \A i \in 0 .. n : i # 0 => i \in 1 .. n
    BY <1>1
  <2> HIDE DEF Turn
  <2>3. QED
    BY <1>8, <2>1, <2>2, Zenon
<1>10. made = [i \in 0 .. n |-> IF i = 0 THEN start ELSE Capture(made[i - 1], ups[i])]
  <2> HIDE DEF n, ups
  <2>1. QED
    BY <1>9
<1>11. Captures(Ins[2].upvalues) = made[n]
  BY DEF Captures, start
<1> HIDE DEF made, ups, n, Turn
<1> DEFINE S == {i \in 0 .. n : made[i] \in T /\ Len(made[i].captured) = i}
<1>12. 0 \in S
  <2>1. 0 \in 0 .. n /\ made[0] = start
    BY <1>1, <1>10
  <2>2. QED
    BY <2>1, <1>2, <1>4
<1>13. ASSUME NEW i \in 0 .. n - 1, i \in S PROVE i + 1 \in S
  <2>1. i + 1 \in 0 .. n /\ i + 1 # 0 /\ i + 1 - 1 = i /\ i + 1 \in 1 .. n
    BY <1>1
  <2>5. \A m \in 0 .. n : m # 0 => made[m] = Capture(made[m - 1], ups[m])
    BY <1>10
  <2>2. made[i + 1] = Capture(made[i], ups[i + 1])
    BY <2>1, <2>5
  <2>3. made[i + 1] \in T /\ Len(made[i + 1].captured) = Len(made[i].captured) + 1
    BY <1>13, <2>1, <2>2, <1>5
  <2>4. QED
    BY <1>13, <2>1, <2>3
<1>14. \A i \in 0 .. n : i \in S
  <2> HIDE DEF S
  <2>1. QED
    BY <1>1, <1>12, <1>13, IntervalInduction
<1>15. n \in 0 .. n
  BY <1>1
<1>16. made[n] \in T /\ Len(made[n].captured) = n
  BY <1>14, <1>15
<1>17. QED
  BY <1>3, <1>11, <1>16 DEF n, ups

LEMMA MakeClosureKeeps == IInv /\ ~strayed /\ MakeClosure => IInv'
<1> SUFFICES ASSUME IInv, ~strayed, MakeClosure PROVE IInv'
  OBVIOUS
<1> DEFINE made == Captures(Ins[2].upvalues)  o == Closure(Ins[2], made.captured)  size == Len(stack')
<1>1. AtFrame /\ Ins[1] = "CLOSURE"
  BY Interpreted DEF MakeClosure, Fetch
<1>2. AtClosure
  BY <1>1, AtClosureThere
<1>3. /\ stack' = Put(stack, top + 1, NewRef) /\ top' = top + 1
      /\ heap' = Append(heap, o) /\ openUpvalues' = made.open /\ upvalues' = made.us
      /\ Advance /\ UNCHANGED control /\ globals' = globals
  <2>1. Replace(0, NewRef)
    BY DEF MakeClosure, Push
  <2>2. top \in Nat
    BY <1>1 DEF AtFrame
  <2>3. top - 0 + 1 = top + 1
    BY <2>2
  <2>4. stack' = Put(stack, top + 1, NewRef) /\ top' = top + 1
    BY <2>1, <2>3 DEF Replace
  <2>5. QED
    BY <2>4 DEF MakeClosure, NewObject
<1>4. top \in Nat /\ Len(stack) \in Nat /\ top <= Len(stack) /\ Sequence(stack) /\ Filled(heap, stack)
  BY <1>1 DEF AtFrame, Filled
<1>5. top + 1 \in 1 .. Len(stack) + 1
  BY <1>4
<1>6. size \in Nat /\ Len(stack) <= size /\ top + 1 <= size
  <2>1. /\ Len(Put(stack, top + 1, NewRef)) >= Len(stack) /\ Len(Put(stack, top + 1, NewRef)) >= top + 1
        /\ Len(Put(stack, top + 1, NewRef)) \in Nat
    BY <1>4, <1>5, PutFacts
  <2>2. QED
    BY <2>1, <1>3, <1>4
<1> HIDE DEF size
<1>7. Gathered(made, size) /\ Len(made.captured) = Len(Ins[2].upvalues)
  BY <1>2, <1>6, CapturesDone
<1> HIDE DEF made
<1>8. /\ Upvals(heap, upvalues', size) /\ Listing(upvalues', openUpvalues', forgotten)
      /\ Sequence(made.captured) /\ Len(upvalues) <= Len(upvalues')
      /\ (\A k \in 1 .. Len(made.captured) : made.captured[k] \in 1 .. Len(upvalues'))
      /\ \A k \in 1 .. Len(openUpvalues') : Kept(upvalues'[openUpvalues'[k]].at)
  BY <1>3, <1>7 DEF Gathered
<1>9. Objects(session.plan, heap, upvalues) /\ NamesGood(heap, globals) /\ Sequence(upvalues)
  BY <1>1 DEF AtFrame, DataInv, Data, Upvals
<1>10. Objects(session.plan, heap, upvalues')
  <2>1. Sequence(upvalues')
    BY <1>8 DEF Upvals
  <2>2. Len(upvalues) \in Nat /\ Len(upvalues') \in Nat
    BY <2>1, <1>9, SequenceFacts
  <2>3. 1 .. Len(upvalues) \subseteq 1 .. Len(upvalues')
    BY <2>2, <1>8
  <2>4. QED
    BY <2>3, <1>9, ObjectsMore
<1>11. /\ o.kind = "closure" /\ o.fn = Ins[2] /\ o.upvalues = made.captured
       /\ o = [kind |-> "closure", values |-> <<>>, fn |-> o.fn, upvalues |-> o.upvalues]
  BY DEF Closure
<1> HIDE DEF o
<1>12. IsClosureObject(session.plan, heap', upvalues', o)
  <2>1. Ins[2] \in DOMAIN session.plan
    BY <1>2 DEF AtClosure
  <2>2. QED
    BY <2>1, <1>7, <1>8, <1>11 DEF IsClosureObject
<1>13. /\ Grows(heap, heap') /\ Good(heap', NewRef) /\ Objects(session.plan, heap', upvalues')
  <2>1. Grows(heap, heap')
    BY <1>3, <1>10, ObjectsAppend
  <2>2. Good(heap', NewRef)
    BY <1>3, <1>10, ObjectsAppend DEF NewRef
  <2>3. Objects(session.plan, heap', upvalues')
    BY <1>3, <1>10, <1>12, ObjectsAppend
  <2>4. QED
    BY <2>1, <2>2, <2>3
<1>14. Filled(heap', stack) /\ NamesGood(heap', globals') /\ Upvals(heap', upvalues', size)
  BY <1>3, <1>4, <1>8, <1>9, <1>13, FilledGrows
<1>15. Filled(heap', stack')
  BY <1>3, <1>5, <1>13, <1>14, FilledPut
<1>16. DataInv'
  <2>1. session' = session
    BY <1>3 DEF control
  <2>2. QED
    BY <2>1, <1>13, <1>14, <1>15 DEF DataInv, Data, size
<1>17. Ins[1] \notin Leaps /\ Takes(Ins) = 0 /\ Leaves(Ins) = 1
  BY <1>1 DEF Leaps, Takes, Leaves
<1>18. Frame.ip + 1 \in Nexts(Frame.ip, Ins) /\ Moved(frames', Frame.ip + 1)
  BY <1>1, <1>3, <1>17, AdvanceMoves
<1>19. top' = top - Takes(Ins) + Leaves(Ins)
  BY <1>3, <1>4, <1>17
<1>20. top' <= Len(stack')
  BY <1>3, <1>6 DEF size
<1>21. QED
  BY <1>1, <1>3, <1>8, <1>13, <1>16, <1>18, <1>19, <1>20, StepDone DEF Kept

-----------------------------------------------------------------------------
(* 13. Inputs, and errors *)

\* After straying nothing is promised but the input.
LEMMA StrayedKeeps ==
    ASSUME IInv, UNCHANGED <<session, taken>>, strayed' = TRUE
    PROVE  IInv'
BY DEF IInv, InputInv

LEMMA RefusedKeeps ==
    ASSUME IInv, ~strayed, Interpret, session.code[taken + 1].bad
    PROVE  IInv'
<1>1. /\ taken' = taken + 1 /\ taken < Len(session.code) /\ session' = session /\ strayed' = strayed
      /\ UNCHANGED <<openUpvalues, upvalues, globals, forgotten, status, acts, stack, top, frames, frameCount, heap>>
  BY DEF Interpret
<1>2. session \in Sessions /\ taken \in 0 .. Len(session.code) /\ strayed \in BOOLEAN /\ VMInv
  BY DEF IInv, InputInv
<1>3. Len(session.code) \in Nat
  BY <1>2, SessionPlans
<1>4. InputInv'
  BY <1>1, <1>2, <1>3 DEF InputInv
<1>5. Idle' <=> Idle
  BY <1>1 DEF Idle
<1>6. Running' <=> Running
  BY <1>1 DEF Running
<1>7. DataInv' <=> DataInv
  BY <1>1 DEF DataInv
<1>8. ListInv' <=> ListInv
  BY <1>1 DEF ListInv
<1>9. VMInv'
  BY <1>1, <1>2, <1>5, <1>6, <1>7, <1>8 DEF VMInv
<1>10. QED
  BY <1>4, <1>9 DEF IInv

LEMMA StartKeeps ==
    ASSUME IInv, ~strayed, Interpret, ~session.code[taken + 1].bad
    PROVE  IInv'
<1> DEFINE fn == session.code[taken + 1].fn  o == Closure(fn, <<>>)  c == Len(heap) + 1
           f == [closure |-> c, ip |-> 1, slots |-> 1]
           p == session.plan
<1>1. /\ status = "idle" /\ taken < Len(session.code) /\ taken' = taken + 1
      /\ UNCHANGED <<session, openUpvalues, upvalues, globals, forgotten, strayed>>
      /\ status' = "running" /\ heap' = NewObject(o) /\ Push(NewRef)
      /\ frames' = Pushed(frames, c, top + 1) /\ frameCount' = frameCount + 1
      /\ acts' = <<[kind |-> "run", frame |-> frameCount + 1, stop |-> frameCount, saved |-> top]>>
  BY DEF Interpret
<1>2. session \in Sessions /\ taken \in 0 .. Len(session.code) /\ strayed \in BOOLEAN /\ VMInv
  BY DEF IInv, InputInv
<1>3. Len(session.code) \in Nat /\ PlansKept(p)
  BY <1>2, SessionPlans
<1>4. InputInv'
  BY <1>1, <1>2, <1>3 DEF InputInv
<1>5. /\ top = 0 /\ frameCount = 0 /\ Sequence(frames) /\ top <= Len(stack) /\ DataInv /\ ListInv
  BY <1>1, <1>2 DEF VMInv, Idle, Running
<1>6. /\ heap' = Append(heap, o) /\ stack' = Put(stack, 1, NewRef) /\ top' = 1
      /\ frames' = Put(frames, 1, f) /\ frameCount' = 1
      /\ acts' = <<[kind |-> "run", frame |-> 1, stop |-> 0, saved |-> 0]>>
  <2>1. 0 - 0 + 1 = 1 /\ 0 + 1 = 1
    OBVIOUS
  <2>2. stack' = Put(stack, 1, NewRef) /\ top' = 1
    BY <1>1, <1>5, <2>1 DEF Push, Replace
  <2>3. frames' = Put(frames, 1, f)
    BY <1>1, <1>5, <2>1 DEF Pushed
  <2>4. QED
    BY <1>1, <1>5, <2>1, <2>2, <2>3 DEF NewObject
<1>7. /\ Objects(p, heap, upvalues) /\ Upvals(heap, upvalues, Len(stack)) /\ Filled(heap, stack)
      /\ NamesGood(heap, globals) /\ Sequence(heap) /\ Len(heap) \in Nat
  <2>1. /\ Objects(p, heap, upvalues) /\ Upvals(heap, upvalues, Len(stack)) /\ Filled(heap, stack)
        /\ NamesGood(heap, globals)
    BY <1>5 DEF DataInv, Data
  <2>2. Sequence(heap)
    BY <2>1 DEF Objects
  <2>3. QED
    BY <2>1, <2>2, SequenceFacts
<1>8. fn \in DOMAIN p /\ fn.arity = 0 /\ fn.upvalues = <<>>
  <2>1. taken + 1 \in 1 .. Len(session.code)
    BY <1>1, <1>2, <1>3
  <2>2. QED
    BY <2>1, <1>2, SessionsAssumption
<1>9. /\ o.kind = "closure" /\ o.fn = fn /\ o.upvalues = <<>>
      /\ o = [kind |-> "closure", values |-> <<>>, fn |-> o.fn, upvalues |-> o.upvalues]
  BY DEF Closure
<1> HIDE DEF o, fn
<1>10. IsClosureObject(p, heap', upvalues, o)
  <2>1. Sequence(o.upvalues) /\ Len(o.upvalues) = 0 /\ Len(o.fn.upvalues) = 0
    BY <1>8, <1>9, EmptyFacts
  <2>2. QED
    BY <2>1, <1>8, <1>9 DEF IsClosureObject
<1>11. Grows(heap, heap')
  BY <1>6, <1>7, ObjectsAppend
<1>12. Good(heap', NewRef)
  BY <1>6, <1>7, ObjectsAppend DEF NewRef
<1>13. Objects(p, heap', upvalues)
  BY <1>6, <1>7, <1>10, ObjectsAppend
<1>14. Len(heap') = Len(heap) + 1 /\ heap'[c] = o
  BY <1>6, <1>7, ObjectsAppend
<1>15. Filled(heap', stack) /\ NamesGood(heap', globals) /\ Upvals(heap', upvalues, Len(stack))
  BY <1>7, <1>11, FilledGrows
<1>16. /\ Filled(heap', stack') /\ Len(stack') \in Nat /\ Len(stack') >= Len(stack) /\ Len(stack') >= 1
       /\ Len(stack) \in Nat
  <2>1. Len(stack) \in Nat
    BY <1>7, SequenceFacts DEF Filled
  <2>2. 1 \in 1 .. Len(stack) + 1
    BY <2>1
  <2>3. QED
    BY <2>1, <2>2, <1>6, <1>12, <1>15, FilledPut
<1>17. DataInv'
  <2>1. \A at \in 0 .. Len(stack) : at \in 0 .. Len(stack')
    BY <1>16
  <2>2. Upvals(heap', upvalues, Len(stack'))
    BY <2>1, <1>15 DEF Upvals
  <2>3. QED
    BY <2>2, <1>1, <1>13, <1>15, <1>16 DEF DataInv, Data
<1>18. f = [closure |-> f.closure, ip |-> f.ip, slots |-> f.slots] /\ f.closure = c /\ f.ip = 1 /\ f.slots = 1
  OBVIOUS
<1> HIDE DEF f
<1>19. Located(p, heap', c, 1) /\ HeightAt(p, heap', c, 1) = 1
  <2>1. c \in 1 .. Len(heap') /\ heap'[c].kind = "closure" /\ heap'[c].fn \in DOMAIN p /\ heap'[c].fn.arity = 0
    BY <1>7, <1>8, <1>9, <1>14
  <2> HIDE DEF c
  <2>2. Located(p, heap', c, 1) /\ HeightAt(p, heap', c, 1) = heap'[c].fn.arity + 1
    BY <2>1, <1>3, StartPlanned
  <2>3. QED
    BY <2>1, <2>2
<1> HIDE DEF c
<1>20. IsFrame(p, heap', f) /\ Ceiling(p, heap', f) = 1
  BY <1>18, <1>19 DEF IsFrame, Ceiling
<1>21. FrameAt(frames, frames', 1, f)
  <2>1. Len(frames) \in Nat /\ 0 \in Nat /\ 0 <= Len(frames) /\ 0 + 1 = 1
    BY <1>5, SequenceFacts
  <2>2. FrameAt(frames, Put(frames, 0 + 1, f), 0 + 1, f)
    BY <1>5, <2>1, PushedFrame
  <2>3. QED
    BY <2>1, <2>2, <1>6
<1>22. Control(p, heap', frames', 1, acts', 1)
  <2>1. Control(p, heap', frames', 1, acts', Ceiling(p, heap', f))
    BY <1>3, <1>6, <1>18, <1>20, <1>21, FirstMove
  <2>2. QED
    BY <2>1, <1>20
<1>23. Running'
  BY <1>1, <1>6, <1>22 DEF Running
<1>24. ListInv'
  <2>1. \A n \in 1 .. Len(openUpvalues) : FALSE
    BY <1>5 DEF ListInv, SlotsPlanned
  <2>2. Listing(upvalues', openUpvalues', forgotten')
    BY <1>1, <1>5 DEF ListInv
  <2>3. SlotsPlanned(session.plan', heap', frames', frameCount', upvalues', openUpvalues')
    BY <2>1, <1>1 DEF SlotsPlanned
  <2>4. QED
    BY <2>2, <2>3 DEF ListInv
<1>25. VMInv'
  BY <1>6, <1>16, <1>17, <1>23, <1>24 DEF VMInv
<1>26. QED
  BY <1>4, <1>25 DEF IInv

LEMMA InterpretKeeps == IInv /\ ~strayed /\ Interpret => IInv'
BY RefusedKeeps, StartKeeps

LEMMA RuntimeErrorKeeps == IInv /\ ~strayed /\ RuntimeError => IInv'
<1> SUFFICES ASSUME IInv, ~strayed, RuntimeError PROVE IInv'
  OBVIOUS
<1>1. AtFrame
  BY Interpreted DEF RuntimeError
<1>2. UNCHANGED <<session, taken, stack, frames, upvalues, heap, globals>>
  BY DEF RuntimeError
<1>3. CASE Len(acts) > 1
  BY <1>2, <1>3, StrayedKeeps DEF RuntimeError
<1>4. CASE ~(Len(acts) > 1)
  <2>1. Len(acts) = 1
    <3>1. Acting(session.plan, heap, frames, frameCount, acts)
      BY <1>1 DEF AtFrame, Control
    <3>2. Len(acts) \in Nat /\ Len(acts) >= 1
      BY <3>1, ActivationKinds
    <3>3. QED
      BY <3>2, <1>4
  <2>2. /\ top' = 0 /\ frameCount' = 0 /\ openUpvalues' = <<>> /\ status' = "idle" /\ acts' = <<>>
        /\ forgotten' = forgotten \cup ToSet(openUpvalues) /\ strayed' = FALSE
    BY <1>4, <2>1 DEF RuntimeError, ResetStack
  <2>3. Idle'
    <3>1. Sequence(frames)
      BY <1>1 DEF AtFrame
    <3>2. QED
      BY <3>1, <1>2, <2>2 DEF Idle
  <2>4. DataInv'
    BY <1>1, <1>2 DEF AtFrame, DataInv
  <2>5. Listing(upvalues', openUpvalues', forgotten')
    <3>1. Listing(upvalues, openUpvalues, forgotten)
      BY <1>1 DEF AtFrame, ListInv
    <3>2. Sequence(<<>>) /\ Len(<<>>) = 0
      BY EmptyFacts
    <3>3. ASSUME NEW u \in 1 .. Len(upvalues), upvalues[u].at > 0 PROVE u \in forgotten'
      <4>1. u \in forgotten \/ \E n \in 1 .. Len(openUpvalues) : openUpvalues[n] = u
        BY <3>1, <3>3 DEF Listing
      <4>2. DOMAIN openUpvalues = 1 .. Len(openUpvalues)
        BY <3>1, SequenceFacts DEF Listing
      <4>3. QED
        BY <4>1, <4>2, <2>2 DEF ToSet
    <3>4. QED
      BY <3>2, <3>3, <1>2, <2>2 DEF Listing
  <2>6. SlotsPlanned(session.plan', heap', frames', frameCount', upvalues', openUpvalues')
    BY <2>2, EmptyFacts DEF SlotsPlanned
  <2>7. top' <= Len(stack')
    BY <1>1, <1>2, <2>2 DEF AtFrame
  <2>8. InputInv'
    BY <1>2, <2>2 DEF IInv, InputInv
  <2>9. QED
    BY <2>3, <2>4, <2>5, <2>6, <2>7, <2>8 DEF IInv, VMInv, ListInv
<1>5. QED
  BY <1>3, <1>4

-----------------------------------------------------------------------------
(* 14. A step of machine code *)

\* What is known while machine code runs.
AtCode ==
    /\ PlansKept(session.plan) /\ ~IsRunAct(Innermost(acts)) /\ Act = Innermost(acts) /\ status = "running"
    /\ Control(session.plan, heap, frames, frameCount, acts, top) /\ DataInv /\ ListInv
    /\ Sequence(acts) /\ Len(acts) \in Nat /\ Len(acts) > 1
    /\ frameCount \in Nat /\ frameCount >= 1 /\ frameCount <= FramesMax
    /\ top \in Nat /\ top <= Len(stack) /\ Len(stack) \in Nat
    /\ IsNative(session.plan, heap, Act, 0)
    /\ Act = [kind |-> "native", closure |-> Act.closure, ip |-> Act.ip, slots |-> Act.slots, mem |-> Act.mem]
    /\ Filled(heap, Act.mem) /\ Len(Act.mem) \in Nat /\ Len(Act.mem) >= 1 /\ Act.mem[1][2] = Act.closure
    /\ Act.slots \in Nat /\ Act.ip \in Nat
    /\ Located(session.plan, heap, Act.closure, Act.ip)
    /\ HeightAt(session.plan, heap, Act.closure, Act.ip) = Len(Act.mem)
    /\ Act.closure \in 1 .. Len(heap)
    /\ IsClosureObject(session.plan, heap, upvalues, heap[Act.closure])
    /\ OperandsFit(heap[Act.closure].fn, NativeIns, Len(Act.mem), session.plan)
    /\ Takes(NativeIns) \in Nat /\ Takes(NativeIns) < Len(Act.mem)

LEMMA CodeThere ==
    ASSUME IInv, ~strayed, status = "running", Act.kind = "native"
    PROVE  AtCode
<1> DEFINE p == session.plan
<1>1. PlansKept(p) /\ VMInv
  BY SessionPlans DEF IInv, InputInv
<1>2. Act = Innermost(acts) /\ ~IsRunAct(Innermost(acts))
  BY DEF Act, Last, Innermost, IsRunAct
<1>3. Control(p, heap, frames, frameCount, acts, top)
  BY <1>1 DEF VMInv, Idle, Running
<1>4. DataInv /\ ListInv /\ top <= Len(stack)
  BY <1>1 DEF VMInv
<1>5. /\ frameCount \in Nat /\ frameCount >= 1 /\ frameCount <= FramesMax
      /\ Len(acts) \in Nat /\ Len(acts) > 1 /\ IsNative(p, heap, Act, 0) /\ top \in Nat
  BY <1>2, <1>3, InnermostNative
<1>6. Sequence(acts)
  BY <1>3 DEF Control, Acting
<1> HIDE DEF p
<1>7. /\ Act = [kind |-> "native", closure |-> Act.closure, ip |-> Act.ip, slots |-> Act.slots, mem |-> Act.mem]
      /\ Filled(heap, Act.mem) /\ Len(Act.mem) >= 1 /\ Act.mem[1][2] = Act.closure /\ Act.slots \in Nat
      /\ Located(p, heap, Act.closure, Act.ip)
      /\ Len(Act.mem) + 0 = HeightAt(p, heap, Act.closure, Act.ip)
  BY <1>5 DEF IsNative
<1>8. Len(Act.mem) \in Nat
  BY <1>7, SequenceFacts DEF Filled
<1>9. HeightAt(p, heap, Act.closure, Act.ip) = Len(Act.mem)
  BY <1>7, <1>8
<1>10. KeepsPlan(heap[Act.closure].fn, Act.ip, p) /\ Act.ip \in Nat /\ Takes(NativeIns) \in Nat
  BY <1>1, <1>7, PlannedFacts DEF p, NativeIns
<1>11. OperandsFit(heap[Act.closure].fn, NativeIns, Len(Act.mem), p) /\ Takes(NativeIns) < Len(Act.mem)
  BY <1>9, <1>10 DEF KeepsPlan, HeightAt, NativeIns
<1>12. IsClosureObject(p, heap, upvalues, heap[Act.closure]) /\ Act.closure \in 1 .. Len(heap)
  <2>1. Act.closure \in 1 .. Len(heap) /\ heap[Act.closure].kind = "closure"
    BY <1>7 DEF Located
  <2>2. Objects(p, heap, upvalues)
    BY <1>4 DEF DataInv, Data, p
  <2>3. QED
    BY <2>1, <2>2 DEF Objects, IsArrayObject
<1>13. Len(stack) \in Nat
  BY <1>4, SequenceFacts DEF DataInv, Data, Filled
<1>14. QED
  BY <1>1, <1>2, <1>3, <1>4, <1>5, <1>6, <1>7, <1>8, <1>9, <1>10, <1>11, <1>12, <1>13 DEF AtCode, p

\* The machine code that runs, with another memory and at instruction m.
CodeAt(mem, m) == [kind |-> "native", closure |-> Act.closure, ip |-> m, slots |-> Act.slots, mem |-> mem]

LEMMA GoneOnMoves ==
    ASSUME AtCode, NEW mem, NEW distance, NEW chain, chain = GoneOn(mem, distance)
    PROVE  EndsWith(acts, chain, Len(acts), CodeAt(mem, Act.ip + 1 + distance))
<1> DEFINE x == [Act EXCEPT !.mem = mem, !.ip = Act.ip + 1 + distance]
<1>1. Sequence(acts) /\ Len(acts) \in Nat /\ Len(acts) > 1 /\ Act = acts[Len(acts)]
  BY DEF AtCode, Innermost
<1>2. chain = [acts EXCEPT ![Len(acts)] = x]
  BY DEF GoneOn
<1>3. x = CodeAt(mem, Act.ip + 1 + distance)
  <2>1. Act = [kind |-> "native", closure |-> Act.closure, ip |-> Act.ip, slots |-> Act.slots, mem |-> Act.mem]
    BY DEF AtCode
  <2> DEFINE y == [Act EXCEPT !.mem = mem]  n == Act.ip + 1 + distance
  <2>2. y = [kind |-> "native", closure |-> Act.closure, ip |-> Act.ip, slots |-> Act.slots, mem |-> mem]
    BY <2>1
  <2>3. x = [y EXCEPT !.ip = n]
    OBVIOUS
  <2> HIDE DEF x, y, n
  <2>4. x = [kind |-> "native", closure |-> Act.closure, ip |-> n, slots |-> Act.slots, mem |-> mem]
    BY <2>2, <2>3
  <2>5. QED
    BY <2>4 DEF CodeAt, n
<1> HIDE DEF x
<1>4. Len(acts) \in 1 .. Len(acts)
  BY <1>1
<1>5. /\ Sequence([acts EXCEPT ![Len(acts)] = x]) /\ Len([acts EXCEPT ![Len(acts)] = x]) = Len(acts)
      /\ [acts EXCEPT ![Len(acts)] = x][Len(acts)] = x
      /\ \A j \in 1 .. Len(acts) : j # Len(acts) => [acts EXCEPT ![Len(acts)] = x][j] = acts[j]
  BY <1>1, <1>4, ExceptFacts
<1>6. /\ Sequence(chain) /\ Len(chain) = Len(acts) /\ chain[Len(acts)] = x
      /\ \A j \in 1 .. Len(acts) : j # Len(acts) => chain[j] = acts[j]
  BY <1>2, <1>5, Zenon
<1>7. \A j \in 1 .. Len(acts) - 1 : j \in 1 .. Len(acts) /\ j # Len(acts)
  BY <1>1
<1>8. QED
  BY <1>3, <1>6, <1>7 DEF EndsWith

\* Where the code goes on, with as many operands as planned there.
LEMMA CodePlanned ==
    ASSUME AtCode, NEW m \in Nexts(Act.ip, NativeIns), NEW k, Grows(heap, k), NEW mem, Filled(k, mem),
           Len(mem) \in Nat, mem[1][2] = Act.closure, NEW missing \in Nat, Len(mem) >= 1,
           Len(mem) + missing = Len(Act.mem) - Takes(NativeIns) + Leaves(NativeIns)
    PROVE  IsNative(session.plan, k, CodeAt(mem, m), missing) /\ CodeAt(mem, m).slots = Act.slots
<1> DEFINE b == CodeAt(mem, m)
<1>1. /\ b.kind = "native" /\ b.closure = Act.closure /\ b.ip = m /\ b.slots = Act.slots /\ b.mem = mem
      /\ b = [kind |-> "native", closure |-> b.closure, ip |-> b.ip, slots |-> b.slots, mem |-> b.mem]
  BY DEF CodeAt
<1> HIDE DEF b
<1>2. /\ PlansKept(session.plan) /\ Located(session.plan, heap, Act.closure, Act.ip) /\ Act.slots \in Nat
      /\ HeightAt(session.plan, heap, Act.closure, Act.ip) = Len(Act.mem)
      /\ NativeIns = heap[Act.closure].fn.code[Act.ip]
  BY DEF AtCode, NativeIns
<1>3. /\ Located(session.plan, heap, Act.closure, m)
      /\ HeightAt(session.plan, heap, Act.closure, m) = Len(Act.mem) - Takes(NativeIns) + Leaves(NativeIns)
  BY <1>2, NextPlanned
<1>4. /\ Located(session.plan, k, Act.closure, m)
      /\ HeightAt(session.plan, k, Act.closure, m) = Len(mem) + missing
  BY <1>3, LocatedGrows
<1>5. QED
  BY <1>1, <1>2, <1>4 DEF IsNative, b

\* A step of machine code keeps the invariant, if data are kept.
LEMMA CodeStep ==
    ASSUME IInv, AtCode, NEW m \in Nexts(Act.ip, NativeIns), NEW mem,
           EndsWith(acts, acts', Len(acts), CodeAt(mem, m)),
           UNCHANGED <<session, taken, status, top, frames, frameCount, openUpvalues, forgotten>>,
           Grows(heap, heap'), DataInv', Len(stack') = Len(stack), Len(upvalues') = Len(upvalues),
           \A u \in 1 .. Len(upvalues') : upvalues'[u].at = upvalues[u].at,
           Filled(heap', mem), Len(mem) \in Nat, Len(mem) >= 1, mem[1][2] = Act.closure,
           Len(mem) = Len(Act.mem) - Takes(NativeIns) + Leaves(NativeIns), strayed' \in BOOLEAN
    PROVE  IInv'
<1>1. IsNative(session.plan, heap', CodeAt(mem, m), 0) /\ CodeAt(mem, m).slots = Act.slots
  <2>1. Len(mem) + 0 = Len(Act.mem) - Takes(NativeIns) + Leaves(NativeIns)
    OBVIOUS
  <2>2. QED
    BY <2>1, CodePlanned
<1>2. /\ Control(session.plan, heap, frames, frameCount, acts, top) /\ frameCount >= 1
      /\ ~IsRunAct(Innermost(acts)) /\ Act = Innermost(acts) /\ status = "running"
      /\ top <= Len(stack) /\ ListInv
  BY DEF AtCode
<1>3. Control(session.plan, heap', frames, frameCount, acts, top)
  BY <1>2, ControlGrows
<1>4. Control(session.plan, heap', frames, frameCount, acts', top)
  BY <1>1, <1>2, <1>3, NativeMove
<1>5. Running' /\ top' <= Len(stack')
  BY <1>2, <1>4 DEF Running
<1>6. /\ Listing(upvalues, openUpvalues, forgotten)
      /\ SlotsPlanned(session.plan, heap, frames, frameCount, upvalues, openUpvalues)
  BY <1>2 DEF ListInv
<1>7. SlotsPlanned(session.plan, heap', frames, frameCount, upvalues, openUpvalues)
  BY <1>2, <1>6, SlotsPlannedGrows DEF Control
<1>8. \A n \in 1 .. Len(openUpvalues) : upvalues'[openUpvalues[n]].at = upvalues[openUpvalues[n]].at
  BY <1>6 DEF Listing
<1>9. Listing(upvalues', openUpvalues, forgotten)
  BY <1>6 DEF Listing
<1>10. SlotsPlanned(session.plan, heap', frames, frameCount, upvalues', openUpvalues)
  BY <1>7, <1>8 DEF SlotsPlanned
<1>11. ListInv'
  BY <1>9, <1>10 DEF ListInv
<1>12. InputInv'
  BY DEF IInv, InputInv
<1>13. QED
  BY <1>5, <1>11, <1>12 DEF IInv, VMInv

\* The data, when only the heap and the globals may have changed.
LEMMA DataStep ==
    ASSUME AtCode, UNCHANGED <<session, stack, upvalues>>, Grows(heap, heap'),
           Objects(session.plan, heap', upvalues), NamesGood(heap', globals')
    PROVE  DataInv'
<1>1. Upvals(heap, upvalues, Len(stack)) /\ Filled(heap, stack)
  BY DEF AtCode, DataInv, Data
<1>2. Upvals(heap', upvalues, Len(stack)) /\ Filled(heap', stack)
  BY <1>1, FilledGrows
<1>3. QED
  BY <1>2 DEF DataInv, Data

\* Memory without n operands.
LEMMA BelowFacts ==
    ASSUME AtCode, NEW n \in Nat, n < Len(Act.mem)
    PROVE  /\ Filled(heap, Below(n)) /\ Len(Below(n)) = Len(Act.mem) - n /\ Len(Below(n)) \in Nat
           /\ Len(Below(n)) >= 1 /\ Below(n)[1] = Act.mem[1]
<1> DEFINE l == Len(Act.mem)
<1>1. Filled(heap, Act.mem) /\ l \in Nat
  BY DEF AtCode
<1>2. l - n \in Nat /\ 1 <= l - n /\ 1 <= l - n + 1 /\ l - n <= l /\ l - n - 1 + 1 = l - n /\ 1 \in 1 .. l - n
      /\ 1 + 1 - 1 = 1
  BY <1>1
<1> DEFINE e == l - n
<1> HIDE DEF e
<1>3. /\ Filled(heap, SubSeq(Act.mem, 1, e)) /\ Len(SubSeq(Act.mem, 1, e)) = e - 1 + 1
      /\ \A i \in 1 .. e - 1 + 1 : SubSeq(Act.mem, 1, e)[i] = Act.mem[1 + i - 1]
  BY <1>1, <1>2, FilledSub DEF e
<1>4. QED
  BY <1>2, <1>3 DEF Below, e

\* Operands, locals.
LEMMA Operands1 ==
    ASSUME AtCode
    PROVE  /\ \A d \in Nat : d < Len(Act.mem) => Len(Act.mem) - d \in 1 .. Len(Act.mem) /\ Good(heap, Operand(d))
           /\ \A n \in 0 .. Len(Act.mem) - 1 : n + 1 \in 1 .. Len(Act.mem) /\ Good(heap, Local(n))
<1>1. (\A i \in 1 .. Len(Act.mem) : Good(heap, Act.mem[i])) /\ Len(Act.mem) \in Nat
  BY DEF AtCode, Filled
<1>2. \A d \in Nat : d < Len(Act.mem) => Len(Act.mem) - d \in 1 .. Len(Act.mem)
  BY <1>1
<1>3. \A n \in 0 .. Len(Act.mem) - 1 : n + 1 \in 1 .. Len(Act.mem)
  BY <1>1
<1>4. QED
  BY <1>1, <1>2, <1>3 DEF Operand, Local

\* The code goes on with another memory; the heap is as it was.
LEMMA PlainStep ==
    ASSUME IInv, AtCode, NEW mem, NEW distance, GoOn(mem, distance),
           Act.ip + 1 + distance \in Nexts(Act.ip, NativeIns),
           UNCHANGED <<input, frame, upvalues, heap>>, NamesGood(heap, globals'),
           Filled(heap, mem), Len(mem) \in Nat, Len(mem) >= 1, mem[1] = Act.mem[1],
           Len(mem) = Len(Act.mem) - Takes(NativeIns) + Leaves(NativeIns), strayed' \in BOOLEAN
    PROVE  IInv'
<1>1. UNCHANGED <<session, taken, status, stack, top, frames, frameCount, openUpvalues, forgotten, upvalues, heap>>
  BY DEF input, frame
<1>2. Grows(heap, heap') /\ Objects(session.plan, heap', upvalues)
  BY <1>1, SameGrows DEF AtCode, DataInv, Data, Objects
<1>3. DataInv'
  BY <1>1, <1>2, DataStep
<1>4. EndsWith(acts, acts', Len(acts), CodeAt(mem, Act.ip + 1 + distance))
  BY GoneOnMoves DEF GoOn
<1>5. Filled(heap', mem) /\ mem[1][2] = Act.closure
  BY <1>1 DEF AtCode
<1>6. QED
  BY <1>1, <1>2, <1>3, <1>4, <1>5, CodeStep

\* A value takes the place of n operands.
LEMMA GiveStep ==
    ASSUME IInv, AtCode, NativeIns[1] \notin Leaps, NEW n, n = Takes(NativeIns), Leaves(NativeIns) = 1,
           NEW v, Good(heap', v), Give(n, v), UNCHANGED <<input, frame, upvalues, globals>>,
           Grows(heap, heap'), Objects(session.plan, heap', upvalues), strayed' \in BOOLEAN
    PROVE  IInv'
<1> DEFINE mem == Append(Below(n), v)
<1>1. UNCHANGED <<session, taken, status, stack, top, frames, frameCount, openUpvalues, forgotten, upvalues, globals>>
  BY DEF input, frame
<1>2. NamesGood(heap', globals')
  BY <1>1, FilledGrows DEF AtCode, DataInv, Data
<1>3. DataInv'
  BY <1>1, <1>2, DataStep
<1>4. n \in Nat /\ n < Len(Act.mem) /\ Act.ip \in Nat /\ Act.mem[1][2] = Act.closure /\ Len(Act.mem) \in Nat
  BY DEF AtCode
<1>5. /\ Filled(heap, Below(n)) /\ Len(Below(n)) = Len(Act.mem) - n /\ Len(Below(n)) \in Nat
      /\ Len(Below(n)) >= 1 /\ Below(n)[1] = Act.mem[1]
  BY <1>4, BelowFacts
<1>6. Filled(heap', Below(n))
  BY <1>5, FilledGrows
<1>7. Filled(heap', mem) /\ Len(mem) = Len(Below(n)) + 1
  BY <1>6, FilledAppend
<1>8. mem[1] = Below(n)[1]
  <2>1. 1 \in 1 .. Len(Below(n))
    BY <1>5
  <2>2. QED
    BY <2>1, <1>6, AppendFacts DEF Filled
<1>9. EndsWith(acts, acts', Len(acts), CodeAt(mem, Act.ip + 1))
  <2>1. Act.ip + 1 + 0 = Act.ip + 1
    BY <1>4
  <2>2. acts' = GoneOn(mem, 0)
    BY DEF Give, GoOn
  <2> HIDE DEF mem
  <2>3. EndsWith(acts, acts', Len(acts), CodeAt(mem, Act.ip + 1 + 0))
    BY <2>2, GoneOnMoves
  <2>4. QED
    BY <2>1, <2>3
<1>10. Act.ip + 1 \in Nexts(Act.ip, NativeIns)
  BY DEF Nexts, Leaps
<1> HIDE DEF mem
<1>11. Len(mem) \in Nat /\ Len(mem) >= 1 /\ Len(mem) = Len(Act.mem) - Takes(NativeIns) + Leaves(NativeIns)
  BY <1>4, <1>5, <1>7
<1>12. mem[1][2] = Act.closure
  BY <1>4, <1>5, <1>8
<1>13. QED
  BY <1>1, <1>3, <1>7, <1>9, <1>10, <1>11, <1>12, CodeStep

\* The same with the heap as it was.
LEMMA ValueStep ==
    ASSUME IInv, AtCode, NativeIns[1] \notin Leaps, NEW n, n = Takes(NativeIns), Leaves(NativeIns) = 1,
           NEW v, Good(heap, v), Give(n, v), UNCHANGED <<input, frame, upvalues, heap, globals>>,
           strayed' \in BOOLEAN
    PROVE  IInv'
<1>1. Grows(heap, heap) /\ Objects(session.plan, heap, upvalues)
  BY SameGrows DEF AtCode, DataInv, Data, Objects
<1>2. QED
  BY <1>1, GiveStep

\* A helper that refuses its operands makes the code stray.
LEMMA AnswersStep ==
    ASSUME IInv, AtCode, NativeIns[1] \notin Leaps, NEW n, n = Takes(NativeIns), Leaves(NativeIns) = 1,
           NEW accepted, NEW v, NEW otherwise, Answers(n, accepted, v, otherwise), strayed = FALSE,
           accepted => Good(heap', v) /\ Grows(heap, heap') /\ Objects(session.plan, heap', upvalues)
    PROVE  IInv'
<1>1. CASE accepted
  <2>1. Give(n, v) /\ UNCHANGED <<input, frame, upvalues, globals>> /\ strayed' = FALSE
    BY <1>1 DEF Answers
  <2>2. QED
    BY <1>1, <2>1, GiveStep
<1>2. CASE ~accepted
  <2>1. strayed' = TRUE /\ UNCHANGED <<session, taken>>
    BY <1>2 DEF Answers, MarkFailed, input
  <2>2. QED
    BY <2>1, StrayedKeeps
<1>3. QED
  BY <1>1, <1>2

\* The same with the heap as it was.
LEMMA OperationStep ==
    ASSUME IInv, AtCode, NativeIns[1] \notin Leaps, NEW n, n = Takes(NativeIns), Leaves(NativeIns) = 1,
           NEW accepted, NEW v, NEW otherwise, Answers(n, accepted, v, otherwise), strayed = FALSE,
           heap' = heap, Good(heap, v)
    PROVE  IInv'
<1>1. Grows(heap, heap) /\ Objects(session.plan, heap, upvalues)
  BY SameGrows DEF AtCode, DataInv, Data, Objects
<1>2. QED
  BY <1>1, AnswersStep

LEMMA NativeConstantKeeps == IInv /\ ~strayed /\ NativeConstant => IInv'
<1> SUFFICES ASSUME IInv, ~strayed, NativeConstant PROVE IInv'
  OBVIOUS
<1>1. AtCode /\ NativeIns[1] = "CONSTANT"
  BY CodeThere DEF NativeConstant, Machine
<1>2. Good(heap, NativeIns[2])
  BY <1>1 DEF AtCode, OperandsFit, Good
<1>3. Takes(NativeIns) = 0 /\ Leaves(NativeIns) = 1 /\ NativeIns[1] \notin Leaps
  BY <1>1 DEF Takes, Leaves, Leaps
<1>4. Give(0, NativeIns[2]) /\ UNCHANGED <<input, frame, upvalues, heap, globals>> /\ strayed' \in BOOLEAN
  BY DEF NativeConstant, IInv, InputInv
<1>5. QED
  BY <1>1, <1>2, <1>3, <1>4, ValueStep

LEMMA NativePopKeeps == IInv /\ ~strayed /\ NativePop => IInv'
<1> SUFFICES ASSUME IInv, ~strayed, NativePop PROVE IInv'
  OBVIOUS
<1>1. AtCode /\ NativeIns[1] = "POP"
  BY CodeThere DEF NativePop, Machine
<1>2. Takes(NativeIns) = 1 /\ Leaves(NativeIns) = 0 /\ NativeIns[1] \notin Leaps
  BY <1>1 DEF Takes, Leaves, Leaps
<1>3. /\ GoOn(Below(1), 0) /\ UNCHANGED <<input, frame, upvalues, heap>> /\ globals' = globals
      /\ strayed' \in BOOLEAN
  BY DEF NativePop, IInv, InputInv
<1>4. 1 < Len(Act.mem) /\ Len(Act.mem) \in Nat /\ NamesGood(heap, globals) /\ Act.ip \in Nat
  BY <1>1, <1>2 DEF AtCode, DataInv, Data
<1>5. /\ Filled(heap, Below(1)) /\ Len(Below(1)) = Len(Act.mem) - 1 /\ Len(Below(1)) \in Nat
      /\ Len(Below(1)) >= 1 /\ Below(1)[1] = Act.mem[1]
  BY <1>1, <1>4, BelowFacts
<1>6. Act.ip + 1 + 0 \in Nexts(Act.ip, NativeIns)
  BY <1>2, <1>4 DEF Nexts, Leaps
<1>7. Len(Below(1)) = Len(Act.mem) - Takes(NativeIns) + Leaves(NativeIns)
  BY <1>2, <1>4, <1>5
<1>8. QED
  BY <1>1, <1>3, <1>4, <1>5, <1>6, <1>7, PlainStep

LEMMA NativeGetLocalKeeps == IInv /\ ~strayed /\ NativeGetLocal => IInv'
<1> SUFFICES ASSUME IInv, ~strayed, NativeGetLocal PROVE IInv'
  OBVIOUS
<1>1. AtCode /\ NativeIns[1] = "GET_LOCAL"
  BY CodeThere DEF NativeGetLocal, Machine
<1>2. Good(heap, Local(NativeIns[2]))
  BY <1>1, Operands1 DEF AtCode, OperandsFit
<1>3. Takes(NativeIns) = 0 /\ Leaves(NativeIns) = 1 /\ NativeIns[1] \notin Leaps
  BY <1>1 DEF Takes, Leaves, Leaps
<1>4. Give(0, Local(NativeIns[2])) /\ UNCHANGED <<input, frame, upvalues, heap, globals>> /\ strayed' \in BOOLEAN
  BY DEF NativeGetLocal, IInv, InputInv
<1>5. QED
  BY <1>1, <1>2, <1>3, <1>4, ValueStep

\* The operands that an instruction takes are values.
LEMMA TopGood ==
    ASSUME AtCode, NEW d \in Nat, d < Takes(NativeIns)
    PROVE  Good(heap, Operand(d))
<1>1. d < Len(Act.mem)
  BY DEF AtCode
<1>2. QED
  BY <1>1, Operands1

\* A local is written: not the callee.
LEMMA WriteCode ==
    ASSUME IInv, AtCode, NEW i \in 1 .. Len(Act.mem) - 1, NEW v, Good(heap, v), NEW distance,
           GoOn([Act.mem EXCEPT ![i + 1] = v], distance),
           Act.ip + 1 + distance \in Nexts(Act.ip, NativeIns),
           UNCHANGED <<input, frame, upvalues, heap, globals>>, Takes(NativeIns) = Leaves(NativeIns),
           strayed' \in BOOLEAN
    PROVE  IInv'
<1> DEFINE mem == [Act.mem EXCEPT ![i + 1] = v]
<1>1. /\ Filled(heap, Act.mem) /\ Len(Act.mem) \in Nat /\ NamesGood(heap, globals) /\ Len(Act.mem) >= 1
      /\ Takes(NativeIns) \in Nat
  BY DEF AtCode, DataInv, Data
<1>2. i + 1 \in 1 .. Len(Act.mem) /\ 1 \in 1 .. Len(Act.mem) /\ 1 # i + 1
  BY <1>1
<1>3. Filled(heap, mem)
  BY <1>1, <1>2, FilledExcept
<1>4. Len(mem) = Len(Act.mem)
  BY <1>1, <1>2, FilledExcept
<1>5. mem[1] = Act.mem[1]
  BY <1>1, <1>2, ExceptFacts DEF Filled
<1> HIDE DEF mem
<1>6. GoOn(mem, distance)
  BY DEF mem
<1>7. Len(mem) = Len(Act.mem) - Takes(NativeIns) + Leaves(NativeIns)
  BY <1>1, <1>4
<1>8. QED
  BY <1>1, <1>3, <1>4, <1>5, <1>6, <1>7, PlainStep

LEMMA NativeSetLocalKeeps == IInv /\ ~strayed /\ NativeSetLocal => IInv'
<1> SUFFICES ASSUME IInv, ~strayed, NativeSetLocal PROVE IInv'
  OBVIOUS
<1>1. AtCode /\ NativeIns[1] = "SET_LOCAL"
  BY CodeThere DEF NativeSetLocal, Machine
<1>2. NativeIns[2] \in 1 .. Len(Act.mem) - 1 /\ Act.ip \in Nat
  BY <1>1 DEF AtCode, OperandsFit
<1>3. Takes(NativeIns) = 1 /\ Leaves(NativeIns) = 1 /\ NativeIns[1] \notin Leaps
  BY <1>1 DEF Takes, Leaves, Leaps
<1>4. Good(heap, Operand(0))
  BY <1>1, <1>3, TopGood
<1>5. /\ GoOn([Act.mem EXCEPT ![NativeIns[2] + 1] = Operand(0)], 0)
      /\ UNCHANGED <<input, frame, upvalues, heap, globals>> /\ strayed' \in BOOLEAN
  BY DEF NativeSetLocal, IInv, InputInv
<1>6. Act.ip + 1 + 0 \in Nexts(Act.ip, NativeIns)
  BY <1>2, <1>3 DEF Nexts, Leaps
<1>7. QED
  BY <1>1, <1>2, <1>3, <1>4, <1>5, <1>6, WriteCode

\* The upvalue that an instruction of machine code names.
LEMMA NativeUpvalueThere ==
    ASSUME AtCode, NativeIns[1] \in {"GET_UPVALUE", "SET_UPVALUE"}
    PROVE  NativeUpvalue(NativeIns[2]) \in 1 .. Len(upvalues)
<1> DEFINE o == heap[Act.closure]
<1>1. NativeIns[2] \in 0 .. Len(o.fn.upvalues) - 1
  BY DEF AtCode, OperandsFit
<1>2. Len(o.upvalues) = Len(o.fn.upvalues) /\ Sequence(o.upvalues)
         /\ \A n \in 1 .. Len(o.upvalues) : o.upvalues[n] \in 1 .. Len(upvalues)
  BY DEF AtCode, IsClosureObject
<1> HIDE DEF o
<1>3. Len(o.upvalues) \in Nat
  BY <1>2, SequenceFacts
<1>4. NativeIns[2] + 1 \in 1 .. Len(o.upvalues)
  BY <1>1, <1>2, <1>3
<1>5. QED
  BY <1>2, <1>4 DEF NativeUpvalue, o

LEMMA NativeGetUpvalueKeeps == IInv /\ ~strayed /\ NativeGetUpvalue => IInv'
<1> SUFFICES ASSUME IInv, ~strayed, NativeGetUpvalue PROVE IInv'
  OBVIOUS
<1>1. AtCode /\ NativeIns[1] = "GET_UPVALUE"
  BY CodeThere DEF NativeGetUpvalue, Machine
<1>2. Good(heap, Captured(NativeUpvalue(NativeIns[2])))
  BY <1>1, NativeUpvalueThere, CapturedGood DEF AtCode
<1>3. Takes(NativeIns) = 0 /\ Leaves(NativeIns) = 1 /\ NativeIns[1] \notin Leaps
  BY <1>1 DEF Takes, Leaves, Leaps
<1>4. /\ Give(0, Captured(NativeUpvalue(NativeIns[2]))) /\ UNCHANGED <<input, frame, upvalues, heap, globals>>
      /\ strayed' \in BOOLEAN
  BY DEF NativeGetUpvalue, IInv, InputInv
<1>5. QED
  BY <1>1, <1>2, <1>3, <1>4, ValueStep

LEMMA NativeSetUpvalueKeeps == IInv /\ ~strayed /\ NativeSetUpvalue => IInv'
<1> SUFFICES ASSUME IInv, ~strayed, NativeSetUpvalue PROVE IInv'
  OBVIOUS
<1>1. AtCode /\ NativeIns[1] = "SET_UPVALUE"
  BY CodeThere DEF NativeSetUpvalue, Machine
<1>2. Takes(NativeIns) = 1 /\ Leaves(NativeIns) = 1 /\ NativeIns[1] \notin Leaps
  BY <1>1 DEF Takes, Leaves, Leaps
<1>3. /\ Objects(session.plan, heap, upvalues) /\ Grows(heap, heap) /\ NamesGood(heap, globals)
      /\ DataInv /\ Act.ip \in Nat /\ Filled(heap, Act.mem) /\ Len(Act.mem) \in Nat /\ Len(Act.mem) >= 1
      /\ Act.mem[1][2] = Act.closure
  BY <1>1, SameGrows DEF AtCode, DataInv, Data, Objects
<1>4. Good(heap, Operand(0)) /\ NativeUpvalue(NativeIns[2]) \in 1 .. Len(upvalues)
  BY <1>1, <1>2, NativeUpvalueThere, TopGood
<1>5. /\ UNCHANGED <<session, taken, status, top, frames, frameCount, openUpvalues, forgotten, heap, globals>>
      /\ SetCaptured(NativeUpvalue(NativeIns[2]), Operand(0)) /\ acts' = GoneOn(Act.mem, 0)
      /\ strayed' \in BOOLEAN
  BY DEF NativeSetUpvalue, GoOn, input, IInv, InputInv
<1>6. /\ Filled(heap, stack') /\ Len(stack') = Len(stack) /\ Len(upvalues') = Len(upvalues)
      /\ Upvals(heap, upvalues', Len(stack))
      /\ \A w \in 1 .. Len(upvalues) : upvalues'[w].at = upvalues[w].at
  BY <1>3, <1>4, <1>5, SetCapturedKeeps
<1>7. Objects(session.plan, heap, upvalues')
  BY <1>3, <1>6, ObjectsMore
<1>8. DataInv'
  BY <1>3, <1>5, <1>6, <1>7 DEF DataInv, Data
<1>9. Act.ip + 1 + 0 \in Nexts(Act.ip, NativeIns)
  BY <1>2, <1>3 DEF Nexts, Leaps
<1>10. EndsWith(acts, acts', Len(acts), CodeAt(Act.mem, Act.ip + 1 + 0))
  BY <1>1, <1>5, GoneOnMoves
<1>11. Len(Act.mem) = Len(Act.mem) - Takes(NativeIns) + Leaves(NativeIns)
  BY <1>2, <1>3
<1>12. heap' = heap /\ Filled(heap', Act.mem) /\ Grows(heap, heap')
  BY <1>3, <1>5
<1>13. QED
  BY <1>1, <1>3, <1>5, <1>6, <1>8, <1>9, <1>10, <1>11, <1>12, CodeStep

LEMMA NamedGood ==
    ASSUME AtCode, NEW x
    PROVE  Good(heap, Named(x))
<1>1. 0 \in 0 .. Len(Act.mem) - 1 /\ NamesGood(heap, globals)
  BY DEF AtCode, DataInv, Data
<1>2. Good(heap, Local(0))
  BY <1>1, Operands1
<1>3. Good(heap, GlobalOrNil(x))
  BY <1>1, GoodPlain DEF GlobalOrNil, NamesGood
<1>4. QED
  BY <1>2, <1>3 DEF Named

LEMMA NativeGetGlobalKeeps == IInv /\ ~strayed /\ NativeGetGlobal => IInv'
<1> SUFFICES ASSUME IInv, ~strayed, NativeGetGlobal PROVE IInv'
  OBVIOUS
<1>1. AtCode /\ NativeIns[1] = "GET_GLOBAL"
  BY CodeThere DEF NativeGetGlobal, Machine
<1>2. Good(heap, Named(NativeIns[2]))
  BY <1>1, NamedGood
<1>3. Takes(NativeIns) = 0 /\ Leaves(NativeIns) = 1 /\ NativeIns[1] \notin Leaps
  BY <1>1 DEF Takes, Leaves, Leaps
<1>4. Give(0, Named(NativeIns[2])) /\ UNCHANGED <<input, frame, upvalues, heap, globals>> /\ strayed' \in BOOLEAN
  BY DEF NativeGetGlobal
<1>5. QED
  BY <1>1, <1>2, <1>3, <1>4, ValueStep

LEMMA NativeSetGlobalKeeps == IInv /\ ~strayed /\ NativeSetGlobal => IInv'
<1> SUFFICES ASSUME IInv, ~strayed, NativeSetGlobal PROVE IInv'
  OBVIOUS
<1>1. AtCode /\ NativeIns[1] = "SET_GLOBAL"
  BY CodeThere DEF NativeSetGlobal, Machine
<1>2. Takes(NativeIns) = 1 /\ Leaves(NativeIns) = 1 /\ NativeIns[1] \notin Leaps
  BY <1>1 DEF Takes, Leaves, Leaps
<1>3. Good(heap, Operand(0))
  BY <1>1, <1>2, TopGood
<1>4. /\ NamesGood(heap, globals) /\ Filled(heap, Act.mem) /\ Len(Act.mem) \in Nat /\ Len(Act.mem) >= 1
      /\ Act.ip \in Nat
  BY <1>1 DEF AtCode, DataInv, Data
<1>5. /\ GoOn(Act.mem, 0) /\ globals' = Assigned(NativeIns[2], Operand(0))
      /\ UNCHANGED <<input, frame, upvalues, heap>> /\ strayed' \in BOOLEAN
  BY DEF NativeSetGlobal
<1>6. NamesGood(heap, globals')
  BY <1>3, <1>4, <1>5, AssignedGood
<1>7. Act.ip + 1 + 0 \in Nexts(Act.ip, NativeIns)
  BY <1>2, <1>4 DEF Nexts, Leaps
<1>8. Len(Act.mem) = Len(Act.mem) - Takes(NativeIns) + Leaves(NativeIns)
  BY <1>2, <1>4
<1>9. QED
  BY <1>1, <1>4, <1>5, <1>6, <1>7, <1>8, PlainStep

LEMMA NativePrintKeeps == IInv /\ ~strayed /\ NativePrint => IInv'
<1> SUFFICES ASSUME IInv, ~strayed, NativePrint PROVE IInv'
  OBVIOUS
<1>1. AtCode /\ NativeIns[1] = "PRINT"
  BY CodeThere DEF NativePrint, Machine
<1>2. Takes(NativeIns) = 1 /\ Leaves(NativeIns) = 0 /\ NativeIns[1] \notin Leaps
  BY <1>1 DEF Takes, Leaves, Leaps
<1>3. /\ GoOn(Below(1), 0) /\ UNCHANGED <<input, frame, upvalues, heap>> /\ globals' = globals
      /\ strayed' \in BOOLEAN
  BY DEF NativePrint, IInv, InputInv
<1>4. 1 < Len(Act.mem) /\ Len(Act.mem) \in Nat /\ NamesGood(heap, globals) /\ Act.ip \in Nat
  BY <1>1, <1>2 DEF AtCode, DataInv, Data
<1>5. /\ Filled(heap, Below(1)) /\ Len(Below(1)) = Len(Act.mem) - 1 /\ Len(Below(1)) \in Nat
      /\ Len(Below(1)) >= 1 /\ Below(1)[1] = Act.mem[1]
  BY <1>1, <1>4, BelowFacts
<1>6. Act.ip + 1 + 0 \in Nexts(Act.ip, NativeIns)
  BY <1>2, <1>4 DEF Nexts, Leaps
<1>7. Len(Below(1)) = Len(Act.mem) - Takes(NativeIns) + Leaves(NativeIns)
  BY <1>2, <1>4, <1>5
<1>8. QED
  BY <1>1, <1>3, <1>4, <1>5, <1>6, <1>7, PlainStep

-----------------------------------------------------------------------------
(* 15. The operators of machine code *)

LEMMA NativeAddKeeps == IInv /\ ~strayed /\ NativeAdd => IInv'
<1> SUFFICES ASSUME IInv, ~strayed, NativeAdd PROVE IInv'
  OBVIOUS
<1> DEFINE v == IF AreNumbers THEN Num(Number(1) + Number(0)) ELSE <<"str", Operand(1)[2] \o Operand(0)[2]>>
<1>1. AtCode /\ NativeIns[1] = "ADD" /\ strayed = FALSE
  BY CodeThere DEF NativeAdd, Machine, IInv, InputInv
<1>2. Takes(NativeIns) = 2 /\ Leaves(NativeIns) = 1 /\ NativeIns[1] \notin Leaps
  BY <1>1 DEF Takes, Leaves, Leaps
<1>3. Good(heap, v)
  BY GoodPlain
<1>4. Answers(2, AreNumbers \/ AreStrings, v, Nil) /\ heap' = heap
  BY DEF NativeAdd
<1> HIDE DEF v
<1>5. QED
  BY <1>1, <1>2, <1>3, <1>4, OperationStep

LEMMA NativeSubtractKeeps == IInv /\ ~strayed /\ NativeSubtract => IInv'
<1> SUFFICES ASSUME IInv, ~strayed, NativeSubtract PROVE IInv'
  OBVIOUS
<1>1. AtCode /\ NativeIns[1] = "SUBTRACT" /\ strayed = FALSE
  BY CodeThere DEF NativeSubtract, Machine, IInv, InputInv
<1>2. Takes(NativeIns) = 2 /\ Leaves(NativeIns) = 1 /\ NativeIns[1] \notin Leaps
  BY <1>1 DEF Takes, Leaves, Leaps
<1>3. Good(heap, Num(Number(1) - Number(0)))
  BY GoodPlain
<1>4. Answers(2, AreNumbers, Num(Number(1) - Number(0)), Nil) /\ heap' = heap
  BY DEF NativeSubtract
<1>5. QED
  BY <1>1, <1>2, <1>3, <1>4, OperationStep

LEMMA NativeMultiplyKeeps == IInv /\ ~strayed /\ NativeMultiply => IInv'
<1> SUFFICES ASSUME IInv, ~strayed, NativeMultiply PROVE IInv'
  OBVIOUS
<1>1. AtCode /\ NativeIns[1] = "MULTIPLY" /\ strayed = FALSE
  BY CodeThere DEF NativeMultiply, Machine, IInv, InputInv
<1>2. Takes(NativeIns) = 2 /\ Leaves(NativeIns) = 1 /\ NativeIns[1] \notin Leaps
  BY <1>1 DEF Takes, Leaves, Leaps
<1>3. Good(heap, Num(Number(1) * Number(0)))
  BY GoodPlain
<1>4. Answers(2, AreNumbers, Num(Number(1) * Number(0)), Nil) /\ heap' = heap
  BY DEF NativeMultiply
<1>5. QED
  BY <1>1, <1>2, <1>3, <1>4, OperationStep

LEMMA NativeNegateKeeps == IInv /\ ~strayed /\ NativeNegate => IInv'
<1> SUFFICES ASSUME IInv, ~strayed, NativeNegate PROVE IInv'
  OBVIOUS
<1>1. AtCode /\ NativeIns[1] = "NEGATE" /\ strayed = FALSE
  BY CodeThere DEF NativeNegate, Machine, IInv, InputInv
<1>2. Takes(NativeIns) = 1 /\ Leaves(NativeIns) = 1 /\ NativeIns[1] \notin Leaps
  BY <1>1 DEF Takes, Leaves, Leaps
<1>3. Good(heap, Num(-Number(0)))
  BY GoodPlain
<1>4. Answers(1, IsNumber(Operand(0)), Num(-Number(0)), Nil) /\ heap' = heap
  BY DEF NativeNegate
<1>5. QED
  BY <1>1, <1>2, <1>3, <1>4, OperationStep

LEMMA NativeLessKeeps == IInv /\ ~strayed /\ NativeLess => IInv'
<1> SUFFICES ASSUME IInv, ~strayed, NativeLess PROVE IInv'
  OBVIOUS
<1>1. AtCode /\ NativeIns[1] = "LESS" /\ strayed = FALSE
  BY CodeThere DEF NativeLess, Machine, IInv, InputInv
<1>2. Takes(NativeIns) = 2 /\ Leaves(NativeIns) = 1 /\ NativeIns[1] \notin Leaps
  BY <1>1 DEF Takes, Leaves, Leaps
<1>3. Good(heap, Bool(Number(1) < Number(0)))
  BY GoodPlain
<1>4. Answers(2, AreNumbers, Bool(Number(1) < Number(0)), Bool(FALSE)) /\ heap' = heap
  BY DEF NativeLess
<1>5. QED
  BY <1>1, <1>2, <1>3, <1>4, OperationStep

LEMMA NativeGreaterKeeps == IInv /\ ~strayed /\ NativeGreater => IInv'
<1> SUFFICES ASSUME IInv, ~strayed, NativeGreater PROVE IInv'
  OBVIOUS
<1>1. AtCode /\ NativeIns[1] = "GREATER" /\ strayed = FALSE
  BY CodeThere DEF NativeGreater, Machine, IInv, InputInv
<1>2. Takes(NativeIns) = 2 /\ Leaves(NativeIns) = 1 /\ NativeIns[1] \notin Leaps
  BY <1>1 DEF Takes, Leaves, Leaps
<1>3. Good(heap, Bool(Number(1) > Number(0)))
  BY GoodPlain
<1>4. Answers(2, AreNumbers, Bool(Number(1) > Number(0)), Bool(FALSE)) /\ heap' = heap
  BY DEF NativeGreater
<1>5. QED
  BY <1>1, <1>2, <1>3, <1>4, OperationStep

LEMMA NativeNotKeeps == IInv /\ ~strayed /\ NativeNot => IInv'
<1> SUFFICES ASSUME IInv, ~strayed, NativeNot PROVE IInv'
  OBVIOUS
<1>1. AtCode /\ NativeIns[1] = "NOT"
  BY CodeThere DEF NativeNot, Machine
<1>2. Takes(NativeIns) = 1 /\ Leaves(NativeIns) = 1 /\ NativeIns[1] \notin Leaps
  BY <1>1 DEF Takes, Leaves, Leaps
<1>3. Good(heap, Bool(IsFalsey(Operand(0))))
  BY GoodPlain
<1>4. /\ Give(1, Bool(IsFalsey(Operand(0)))) /\ UNCHANGED <<input, frame, upvalues, heap, globals>>
      /\ strayed' \in BOOLEAN
  BY DEF NativeNot, IInv, InputInv
<1>5. QED
  BY <1>1, <1>2, <1>3, <1>4, ValueStep

LEMMA NativeEqualKeeps == IInv /\ ~strayed /\ NativeEqual => IInv'
<1> SUFFICES ASSUME IInv, ~strayed, NativeEqual PROVE IInv'
  OBVIOUS
<1>1. AtCode /\ NativeIns[1] = "EQUAL"
  BY CodeThere DEF NativeEqual, Machine
<1>2. Takes(NativeIns) = 2 /\ Leaves(NativeIns) = 1 /\ NativeIns[1] \notin Leaps
  BY <1>1 DEF Takes, Leaves, Leaps
<1>3. Good(heap, Bool(Operand(1) = Operand(0)))
  BY GoodPlain
<1>4. /\ Give(2, Bool(Operand(1) = Operand(0))) /\ UNCHANGED <<input, frame, upvalues, heap, globals>>
      /\ strayed' \in BOOLEAN
  BY DEF NativeEqual, IInv, InputInv
<1>5. QED
  BY <1>1, <1>2, <1>3, <1>4, ValueStep

LEMMA NativeCompareStringsKeeps == IInv /\ ~strayed /\ NativeCompareStrings => IInv'
BY StrayedKeeps DEF NativeCompareStrings, input

LEMMA NativeGetIndexKeeps == IInv /\ ~strayed /\ NativeGetIndex => IInv'
<1> SUFFICES ASSUME IInv, ~strayed, NativeGetIndex PROVE IInv'
  OBVIOUS
<1>1. AtCode /\ NativeIns[1] = "GET_INDEX" /\ strayed = FALSE
  BY CodeThere DEF NativeGetIndex, Machine, IInv, InputInv
<1>2. Takes(NativeIns) = 2 /\ Leaves(NativeIns) = 1 /\ NativeIns[1] \notin Leaps
  BY <1>1 DEF Takes, Leaves, Leaps
<1>3. Good(heap, Operand(1)) /\ Objects(session.plan, heap, upvalues)
  BY <1>1, <1>2, TopGood DEF AtCode, DataInv, Data
<1>4. /\ Answers(2, Within(Operand(1), Operand(0)), Item(Operand(1), Operand(0)), Nil)
      /\ heap' = heap
  BY DEF NativeGetIndex
<1>5. Within(Operand(1), Operand(0)) =>
         Good(heap', Item(Operand(1), Operand(0))) /\ Grows(heap, heap') /\ Objects(session.plan, heap', upvalues)
  BY <1>3, <1>4, ItemGood, SameGrows DEF Objects
<1>6. QED
  BY <1>1, <1>2, <1>4, <1>5, AnswersStep

LEMMA NativeSetIndexKeeps == IInv /\ ~strayed /\ NativeSetIndex => IInv'
<1> SUFFICES ASSUME IInv, ~strayed, NativeSetIndex PROVE IInv'
  OBVIOUS
<1>1. AtCode /\ NativeIns[1] = "SET_INDEX" /\ strayed = FALSE
  BY CodeThere DEF NativeSetIndex, Machine, IInv, InputInv
<1>2. Takes(NativeIns) = 3 /\ Leaves(NativeIns) = 1 /\ NativeIns[1] \notin Leaps
  BY <1>1 DEF Takes, Leaves, Leaps
<1>3. Good(heap, Operand(2)) /\ Good(heap, Operand(0)) /\ Objects(session.plan, heap, upvalues)
  BY <1>1, <1>2, TopGood DEF AtCode, DataInv, Data
<1>4. /\ Answers(3, Within(Operand(2), Operand(1)), Operand(0), Operand(0))
      /\ Within(Operand(2), Operand(1)) => StoreItem(Operand(2), Operand(1), Operand(0))
  BY DEF NativeSetIndex
<1>5. Within(Operand(2), Operand(1)) => Grows(heap, heap') /\ Objects(session.plan, heap', upvalues)
  BY <1>3, <1>4, StoreItemKeeps
<1>6. Within(Operand(2), Operand(1)) => Good(heap', Operand(0))
  BY <1>3, <1>5, FilledGrows
<1>7. QED
  BY <1>1, <1>2, <1>4, <1>5, <1>6, AnswersStep

LEMMA NativeJumpKeeps == IInv /\ ~strayed /\ NativeJump => IInv'
<1> SUFFICES ASSUME IInv, ~strayed, NativeJump PROVE IInv'
  OBVIOUS
<1>1. AtCode /\ NativeIns[1] \in {"JUMP", "JUMP_IF_FALSE", "LOOP"}
  BY CodeThere DEF NativeJump, Machine
<1>2. Takes(NativeIns) = Leaves(NativeIns) /\ Takes(NativeIns) \in Nat
  BY <1>1 DEF Takes, Leaves
<1>3. PICK d : /\ GoOn(Act.mem, d)
               /\ \/ NativeIns[1] = "JUMP" /\ d = NativeIns[2]
                  \/ NativeIns[1] = "JUMP_IF_FALSE" /\ d \in {0, NativeIns[2]}
                  \/ NativeIns[1] = "LOOP" /\ d = -NativeIns[2]
  BY DEF NativeJump, Machine
<1>4. Act.ip \in Nat /\ NativeIns[2] \in Int
  BY <1>1 DEF AtCode, OperandsFit
<1>5. Act.ip + 1 + d \in Nexts(Act.ip, NativeIns)
  <2>1. CASE NativeIns[1] = "JUMP"
    BY <2>1, <1>3 DEF Nexts
  <2>2. CASE NativeIns[1] = "JUMP_IF_FALSE"
    <3>1. Act.ip + 1 + d = Act.ip + 1 \/ Act.ip + 1 + d = Act.ip + 1 + NativeIns[2]
      BY <2>2, <1>3, <1>4
    <3>2. QED
      BY <3>1, <2>2 DEF Nexts
  <2>3. CASE NativeIns[1] = "LOOP"
    <3>1. Act.ip + 1 + d = Act.ip + 1 - NativeIns[2]
      BY <2>3, <1>3, <1>4
    <3>2. QED
      BY <3>1, <2>3 DEF Nexts
  <2>4. QED
    BY <1>1, <2>1, <2>2, <2>3
<1>6. UNCHANGED <<input, frame, upvalues, heap>> /\ globals' = globals /\ strayed' \in BOOLEAN
  BY DEF NativeJump, IInv, InputInv
<1>7. NamesGood(heap, globals') /\ Filled(heap, Act.mem) /\ Len(Act.mem) \in Nat /\ Len(Act.mem) >= 1
  BY <1>1, <1>6 DEF AtCode, DataInv, Data
<1>8. Len(Act.mem) = Len(Act.mem) - Takes(NativeIns) + Leaves(NativeIns)
  BY <1>2, <1>7
<1>9. QED
  BY <1>1, <1>3, <1>5, <1>6, <1>7, <1>8, PlainStep

LEMMA NativeLoopIncrKeeps == IInv /\ ~strayed /\ NativeLoopIncr => IInv'
<1> SUFFICES ASSUME IInv, ~strayed, NativeLoopIncr PROVE IInv'
  OBVIOUS
<1> DEFINE iter == Local(NativeIns[2])
           limit == Local(NativeIns[3])
           ordered == IsNumber(iter) /\ IsNumber(limit)
<1>1. AtCode /\ NativeIns[1] \in {"LOOP_INCR_LESS", "LOOP_INCR_LEQ"}
  BY CodeThere DEF NativeLoopIncr, Machine
<1>2. Takes(NativeIns) = Leaves(NativeIns)
  BY <1>1 DEF Takes, Leaves
<1>3. Act.ip \in Nat /\ NativeIns[4] \in Int /\ NativeIns[2] \in 1 .. Len(Act.mem) - 1
  BY <1>1 DEF AtCode, OperandsFit
<1>4. strayed' = (strayed \/ ~ordered) /\ UNCHANGED <<input, frame, upvalues, heap, globals>>
  BY DEF NativeLoopIncr
<1>5. CASE ~ordered
  <2>1. strayed' = TRUE /\ UNCHANGED <<session, taken>>
    BY <1>4, <1>5 DEF input
  <2>2. QED
    BY <2>1, StrayedKeeps
<1>6. CASE ordered
  <2>1. PICK v, d : /\ v = Num(iter[2] + 1) /\ d \in {0, -NativeIns[4]}
                    /\ GoOn([Act.mem EXCEPT ![NativeIns[2] + 1] = v], d)
    BY <1>6 DEF NativeLoopIncr
  <2>2. Act.ip + 1 + d \in Nexts(Act.ip, NativeIns)
    <3>1. Act.ip + 1 + d = Act.ip + 1 \/ Act.ip + 1 + d = Act.ip + 1 - NativeIns[4]
      BY <2>1, <1>3
    <3>2. QED
      BY <3>1, <1>1 DEF Nexts
  <2>3. Good(heap, v)
    BY <2>1, GoodPlain
  <2>4. strayed' \in BOOLEAN
    BY <1>4 DEF IInv, InputInv
  <2>5. QED
    BY <2>1, <2>2, <2>3, <2>4, <1>1, <1>2, <1>3, <1>4, WriteCode
<1>7. QED
  BY <1>5, <1>6

-----------------------------------------------------------------------------
(* 16. Calls from machine code *)

\* The caller and what it passes.
LEMMA PassedFacts ==
    ASSUME AtCode, NativeIns[1] = "CALL"
    PROVE  /\ NativeIns[2] \in Nat /\ Takes(NativeIns) = NativeIns[2] + 1 /\ Leaves(NativeIns) = 1
           /\ NativeIns[1] \notin Leaps
           /\ Good(heap, Callee) /\ Filled(heap, Args) /\ Len(Args) = NativeIns[2]
<1> DEFINE n == NativeIns[2]  l == Len(Act.mem)
<1>1. Takes(NativeIns) = n + 1 /\ Leaves(NativeIns) = 1 /\ NativeIns[1] \notin Leaps
  BY DEF Takes, Leaves, Leaps
<1>2. n \in Nat /\ n + 1 < l /\ l \in Nat /\ Filled(heap, Act.mem)
  BY <1>1 DEF AtCode, OperandsFit
<1> HIDE DEF n
<1>3. n < Takes(NativeIns)
  BY <1>1, <1>2
<1>4. Good(heap, Callee)
  BY <1>2, <1>3, TopGood DEF Callee, n
<1>5. l - n + 1 \in Nat /\ 1 <= l - n + 1 /\ l - n + 1 <= l + 1 /\ l - (l - n + 1) + 1 = n
  BY <1>2
<1> DEFINE e == l - n + 1
<1> HIDE DEF e
<1>6. Filled(heap, SubSeq(Act.mem, e, l)) /\ Len(SubSeq(Act.mem, e, l)) = l - e + 1
  BY <1>2, <1>5, FilledSub DEF e
<1>7. Filled(heap, Args) /\ Len(Args) = n
  BY <1>5, <1>6 DEF Args, Operands, e, n
<1>8. QED
  BY <1>1, <1>2, <1>4, <1>7 DEF n

\* The caller, once it has called, lacks the result.
LEMMA CallerFacts ==
    ASSUME AtCode, NativeIns[1] = "CALL"
    PROVE  \E b : /\ IsNative(session.plan, heap, b, 1) /\ b.slots = Act.slots
                  /\ \A a : Pushes2(acts, Append(Called, a), b, a)
<1> DEFINE n == NativeIns[2] + 1  mem == Below(n)  b == CodeAt(mem, Act.ip + 1)
<1>1. n \in Nat /\ n < Len(Act.mem) /\ Act.ip \in Nat /\ Act.ip + 1 \in Nexts(Act.ip, NativeIns)
      /\ Takes(NativeIns) = n /\ Leaves(NativeIns) = 1
  BY PassedFacts DEF AtCode, Nexts
<1>2. /\ Filled(heap, mem) /\ Len(mem) = Len(Act.mem) - n /\ Len(mem) \in Nat /\ Len(mem) >= 1
      /\ mem[1] = Act.mem[1] /\ Len(Act.mem) \in Nat /\ Act.mem[1][2] = Act.closure
  BY <1>1, BelowFacts DEF AtCode
<1> HIDE DEF n, mem
<1>3. Len(mem) + 1 = Len(Act.mem) - Takes(NativeIns) + Leaves(NativeIns)
  BY <1>1, <1>2
<1>4. Grows(heap, heap) /\ mem[1][2] = Act.closure
  BY <1>2, SameGrows DEF AtCode, DataInv, Data, Objects
<1>5. IsNative(session.plan, heap, b, 1) /\ b.slots = Act.slots
  BY <1>1, <1>2, <1>3, <1>4, CodePlanned
<1>6. EndsWith(acts, Called, Len(acts), b)
  <2>1. Act.ip + 1 + 0 = Act.ip + 1
    BY <1>1
  <2>2. Called = GoneOn(mem, 0)
    BY DEF Called, mem, n
  <2>3. EndsWith(acts, Called, Len(acts), CodeAt(mem, Act.ip + 1 + 0))
    BY <2>2, GoneOnMoves
  <2>4. QED
    BY <2>1, <2>3
<1> HIDE DEF b
<1>7. ASSUME NEW a PROVE Pushes2(acts, Append(Called, a), b, a)
  <2>1. /\ Sequence(Called) /\ Len(Called) = Len(acts) /\ Called[Len(acts)] = b
        /\ \A k \in 1 .. Len(acts) - 1 : Called[k] = acts[k]
    BY <1>6 DEF EndsWith
  <2>2. Len(acts) \in Nat /\ Len(acts) > 1
    BY DEF AtCode
  <2>3. Len(acts) \in 1 .. Len(acts) /\ \A k \in 1 .. Len(acts) - 1 : k \in 1 .. Len(acts)
    BY <2>2
  <2>4. /\ Sequence(Append(Called, a)) /\ Len(Append(Called, a)) = Len(Called) + 1
        /\ Append(Called, a)[Len(Called) + 1] = a
        /\ \A i \in 1 .. Len(Called) : Append(Called, a)[i] = Called[i]
    BY <2>1, AppendFacts
  <2>5. QED
    BY <2>1, <2>3, <2>4 DEF Pushes2
<1>8. QED
  BY <1>5, <1>7

\* Only the activations have changed, and perhaps the history.
LEMMA ControlStep ==
    ASSUME IInv, AtCode, UNCHANGED <<input, frame, upvalues, heap, globals>>, strayed' \in BOOLEAN,
           Control(session.plan, heap, frames, frameCount, acts', top)
    PROVE  IInv'
<1>1. UNCHANGED <<session, taken, status, stack, top, frames, frameCount, openUpvalues, forgotten, upvalues, heap, globals>>
  BY DEF input, frame
<1>2. DataInv /\ ListInv /\ top <= Len(stack) /\ status = "running"
  BY DEF AtCode
<1>3. Running'
  BY <1>1, <1>2 DEF Running
<1>4. DataInv'
  BY <1>1, <1>2 DEF DataInv
<1>5. ListInv'
  BY <1>1, <1>2 DEF ListInv
<1>6. InputInv'
  BY <1>1 DEF IInv, InputInv
<1>7. top' <= Len(stack')
  BY <1>1, <1>2
<1>8. QED
  BY <1>3, <1>4, <1>5, <1>6, <1>7 DEF IInv, VMInv

\* Machine code that starts with its callee and as many parameters as it has.
LEMMA EnteredPlanned ==
    ASSUME AtCode, NEW c \in 1 .. Len(heap), heap[c].kind = "closure",
           NEW mem, Filled(heap, mem), Len(mem) = heap[c].fn.arity + 1, mem[1][2] = c
    PROVE  IsNative(session.plan, heap, Entered(c, mem), 0) /\ Entered(c, mem).slots = 0
<1> DEFINE a == Entered(c, mem)
<1>1. Objects(session.plan, heap, upvalues) /\ PlansKept(session.plan)
  BY DEF AtCode, DataInv, Data
<1>2. heap[c].fn \in DOMAIN session.plan
  BY <1>1 DEF Objects, IsClosureObject, IsArrayObject
<1>3. /\ Located(session.plan, heap, c, 1) /\ HeightAt(session.plan, heap, c, 1) = heap[c].fn.arity + 1
      /\ heap[c].fn.arity \in Nat
  BY <1>1, <1>2, StartPlanned
<1>4. /\ a.kind = "native" /\ a.closure = c /\ a.ip = 1 /\ a.slots = 0 /\ a.mem = mem
      /\ a = [kind |-> "native", closure |-> a.closure, ip |-> a.ip, slots |-> a.slots, mem |-> a.mem]
  BY DEF Entered
<1> HIDE DEF a
<1>5. Len(mem) >= 1 /\ Len(mem) + 0 = heap[c].fn.arity + 1
  BY <1>3
<1>6. IsNative(session.plan, heap, a, 0)
  BY <1>3, <1>4, <1>5 DEF IsNative
<1>7. QED
  BY <1>4, <1>6 DEF a

\* A callee with what is passed to it.
LEMMA CalleeFirst ==
    ASSUME NEW h, NEW v, Good(h, v), NEW ps, Filled(h, ps)
    PROVE  /\ Filled(h, <<v>> \o ps) /\ Len(<<v>> \o ps) = 1 + Len(ps) /\ (<<v>> \o ps)[1] = v
           /\ Len(ps) \in Nat
<1>1. Filled(h, <<v>>) /\ Len(<<v>>) = 1 /\ <<v>>[1] = v
  BY FilledSingle
<1>2. 1 \in 1 .. 1
  OBVIOUS
<1>3. /\ Filled(h, <<v>> \o ps) /\ Len(<<v>> \o ps) = Len(<<v>>) + Len(ps)
      /\ \A i \in 1 .. Len(<<v>>) : (<<v>> \o ps)[i] = <<v>>[i]
  BY <1>1, FilledConcat
<1>4. Len(ps) \in Nat
  BY SequenceFacts DEF Filled
<1>5. QED
  BY <1>1, <1>2, <1>3, <1>4

LEMMA CallNativeFnKeeps == IInv /\ ~strayed /\ CallNativeFn => IInv'
<1> SUFFICES ASSUME IInv, ~strayed, CallNativeFn PROVE IInv'
  OBVIOUS
<1> DEFINE result == Native(Callee[2], Args)
<1>1. AtCode /\ NativeIns[1] = "CALL"
  BY CodeThere DEF CallNativeFn, Machine
<1>2. /\ Takes(NativeIns) = NativeIns[2] + 1 /\ Leaves(NativeIns) = 1
      /\ NativeIns[1] \notin Leaps
      /\ Good(heap, Callee) /\ Filled(heap, Args) /\ Objects(session.plan, heap, upvalues)
  BY <1>1, PassedFacts DEF AtCode, DataInv, Data
<1>3. /\ Callee[1] = "native" /\ Give(NativeIns[2] + 1, result.value) /\ heap' = result.heap
      /\ UNCHANGED <<input, frame, upvalues, globals>> /\ strayed' = strayed
  BY DEF CallNativeFn
<1>4. Callee[2] \in NativeNames
  BY <1>2, <1>3 DEF Good
<1>5. Objects(session.plan, heap', upvalues) /\ Grows(heap, heap') /\ Good(heap', result.value)
  BY <1>2, <1>3, <1>4, NativeKeeps
<1>6. strayed' \in BOOLEAN
  BY <1>3 DEF IInv, InputInv
<1> HIDE DEF result
<1>7. QED
  BY <1>1, <1>2, <1>3, <1>5, <1>6, GiveStep

LEMMA CallFailsKeeps == IInv /\ ~strayed /\ (CallFails \/ CallNothing) => IInv'
BY StrayedKeeps DEF CallFails, CallNothing, input

\* Machine code calls machine code.
LEMMA EnterKeeps ==
    ASSUME IInv, AtCode, NativeIns[1] = "CALL", NEW c \in 1 .. Len(heap), heap[c].kind = "closure",
           NEW mem, Filled(heap, mem), Len(mem) = heap[c].fn.arity + 1, mem[1][2] = c,
           acts' = Append(Called, Entered(c, mem)),
           UNCHANGED <<input, frame, upvalues, heap, globals>>, strayed' \in BOOLEAN
    PROVE  IInv'
<1> DEFINE a == Entered(c, mem)
<1>1. PICK b : /\ IsNative(session.plan, heap, b, 1) /\ b.slots = Act.slots
               /\ \A x : Pushes2(acts, Append(Called, x), b, x)
  BY CallerFacts
<1>2. IsNative(session.plan, heap, a, 0) /\ a.slots = 0
  BY EnteredPlanned
<1>3. Pushes2(acts, acts', b, a)
  BY <1>1
<1> HIDE DEF a
<1>4. /\ Control(session.plan, heap, frames, frameCount, acts, top) /\ ~IsRunAct(Innermost(acts))
      /\ b.slots = Innermost(acts).slots
  BY <1>1 DEF AtCode
<1>5. Control(session.plan, heap, frames, frameCount, acts', top)
  BY <1>1, <1>2, <1>3, <1>4, PushNativeOnNative
<1>6. QED
  BY <1>5, ControlStep

LEMMA CallCompiledKeeps == IInv /\ ~strayed /\ CallCompiled => IInv'
<1> SUFFICES ASSUME IInv, ~strayed, CallCompiled PROVE IInv'
  OBVIOUS
<1> DEFINE mem == <<Callee>> \o Args
<1>1. AtCode /\ NativeIns[1] = "CALL"
  BY CodeThere DEF CallCompiled, Machine
<1>2. /\ IsClosure(Callee) /\ Arity(Callee) = Len(Args) /\ acts' = Append(Called, Entered(Callee[2], mem))
      /\ UNCHANGED <<input, frame, upvalues, heap, globals>> /\ strayed' \in BOOLEAN
  BY DEF CallCompiled, RunsNative, IInv, InputInv
<1>3. Good(heap, Callee) /\ Filled(heap, Args)
  BY <1>1, PassedFacts
<1>4. Filled(heap, mem) /\ Len(mem) = 1 + Len(Args) /\ mem[1] = Callee /\ Len(Args) \in Nat
  BY <1>3, CalleeFirst
<1> HIDE DEF mem
<1>5. Callee[2] \in 1 .. Len(heap) /\ heap[Callee[2]].kind = "closure" /\ heap[Callee[2]].fn.arity = Len(Args)
  BY <1>2, <1>3 DEF IsClosure, Good, Arity
<1>6. Len(mem) = heap[Callee[2]].fn.arity + 1 /\ mem[1][2] = Callee[2]
  BY <1>4, <1>5
<1>7. QED
  BY <1>1, <1>2, <1>4, <1>5, <1>6, EnterKeeps

LEMMA CallSelfKeeps == IInv /\ ~strayed /\ CallSelf => IInv'
<1> SUFFICES ASSUME IInv, ~strayed, CallSelf PROVE IInv'
  OBVIOUS
<1> DEFINE arity == Arity(Callee)
           passed == IF Len(Args) < arity THEN Len(Args) ELSE arity
<1>1. AtCode /\ NativeIns[1] = "CALL"
  BY CodeThere DEF CallSelf, Machine
<1>2. /\ Callee = Local(0) /\ strayed' = (strayed \/ Len(Args) # arity)
      /\ UNCHANGED <<input, frame, upvalues, heap, globals>>
  BY DEF CallSelf
<1>3. CASE Len(Args) # arity
  <2>1. strayed' = TRUE /\ UNCHANGED <<session, taken>>
    BY <1>2, <1>3 DEF input
  <2>2. QED
    BY <2>1, StrayedKeeps
<1>4. CASE Len(Args) = arity
  <2>1. Good(heap, Callee) /\ Filled(heap, Args) /\ Len(Args) \in Nat
    BY <1>1, PassedFacts
  <2>2. PICK rest \in [1 .. arity - passed -> Leftovers] :
            acts' = Append(Called, Entered(Act.closure, <<Callee>> \o SubSeq(Args, 1, passed) \o rest))
    BY DEF CallSelf
  <2>3. passed = arity /\ arity - passed = 0 /\ arity \in Nat
    BY <1>4, <2>1
  <2>4. Filled(heap, rest) /\ Len(rest) = 0
    <3>1. rest \in [1 .. 0 -> Leftovers]
      BY <2>2, <2>3
    <3>2. rest = [i \in 1 .. 0 |-> rest[i]]
      BY <3>1
    <3>3. Sequence(rest) /\ Len(rest) = 0
      BY <3>2, FunctionFacts
    <3>4. QED
      BY <3>3 DEF Filled
  <2> DEFINE ps == SubSeq(Args, 1, arity)  start == <<Callee>> \o ps  mem == start \o rest
  <2>5. Filled(heap, ps) /\ Len(ps) = arity
    <3>1. arity - 1 + 1 = arity /\ 1 \in Nat /\ 1 <= 1 /\ 1 <= arity + 1 /\ arity <= Len(Args)
      BY <1>4, <2>3
    <3>2. Filled(heap, SubSeq(Args, 1, arity)) /\ Len(SubSeq(Args, 1, arity)) = arity - 1 + 1
      BY <3>1, <2>1, <2>3, FilledSub
    <3>3. QED
      BY <3>1, <3>2
  <2>6. acts' = Append(Called, Entered(Act.closure, mem))
    BY <2>2, <2>3
  <2> HIDE DEF ps, arity
  <2>7. Filled(heap, start) /\ Len(start) = 1 + arity /\ start[1] = Callee
    BY <2>1, <2>5, CalleeFirst
  <2> HIDE DEF start
  <2>8. Filled(heap, mem) /\ Len(mem) = arity + 1 /\ mem[1] = Callee
    <3>1. Filled(heap, mem) /\ Len(mem) = Len(start) + Len(rest) /\ \A i \in 1 .. Len(start) : mem[i] = start[i]
      BY <2>4, <2>7, FilledConcat
    <3>2. 1 \in 1 .. Len(start) /\ Len(start) + Len(rest) = arity + 1
      BY <2>3, <2>4, <2>7
    <3>3. QED
      BY <3>1, <3>2, <2>7
  <2> HIDE DEF mem
  <2>9. /\ Act.closure \in 1 .. Len(heap) /\ heap[Act.closure].kind = "closure" /\ Act.mem[1][2] = Act.closure
    BY <1>1 DEF AtCode, Located
  <2>10. Callee[2] = Act.closure
    <3>1. 0 + 1 = 1
      OBVIOUS
    <3>2. QED
      BY <3>1, <1>2, <2>9 DEF Local
  <2>11. arity = heap[Act.closure].fn.arity
    BY <2>10 DEF Arity, arity
  <2>12. Len(mem) = heap[Act.closure].fn.arity + 1 /\ mem[1][2] = Act.closure
    BY <2>8, <2>10, <2>11
  <2>13. strayed' \in BOOLEAN
    BY <1>2 DEF IInv, InputInv
  <2>14. QED
    BY <1>1, <1>2, <2>6, <2>8, <2>9, <2>12, <2>13, EnterKeeps
<1>5. QED
  BY <1>3, <1>4

\* The callee and its arguments go above what the stack holds.
LEMMA StackWithFacts ==
    ASSUME NEW h, Filled(h, stack), top \in Nat, top <= Len(stack), NEW vs, Filled(h, vs)
    PROVE  /\ Filled(h, StackWith(vs)) /\ Len(StackWith(vs)) \in Nat
           /\ Len(StackWith(vs)) >= Len(stack) /\ Len(StackWith(vs)) >= top + Len(vs)
<1> DEFINE l == Len(stack)  n == Len(vs)  low == SubSeq(stack, 1, top)  rest == SubSeq(stack, top + n + 1, l)
<1>1. l \in Nat /\ n \in Nat
  BY SequenceFacts DEF Filled
<1>2. Filled(h, low) /\ Len(low) = top
  <2>1. top - 1 + 1 = top /\ 1 \in Nat /\ 1 <= 1 /\ 1 <= top + 1
    OBVIOUS
  <2>2. Filled(h, SubSeq(stack, 1, top)) /\ Len(SubSeq(stack, 1, top)) = top - 1 + 1
    BY <2>1, FilledSub
  <2>3. QED
    BY <2>1, <2>2
<1>3. Filled(h, rest) /\ Len(rest) \in Nat /\ Len(rest) >= l - (top + n)
  <2> DEFINE m == top + n + 1
  <2>1. m \in Nat /\ 1 <= m /\ l \in Nat /\ m - 1 = top + n
    BY <1>1
  <2> HIDE DEF m, l
  <2>2. CASE m <= l + 1
    <3>1. Filled(h, SubSeq(stack, m, l)) /\ Len(SubSeq(stack, m, l)) = l - m + 1
      BY <2>1, <2>2, FilledSub DEF l
    <3>2. l - m + 1 \in Nat /\ l - m + 1 >= l - (top + n)
      <4>1. \A x, y, z \in Int : x <= y + 1 /\ x - 1 = z => y - x + 1 \in Nat /\ y - x + 1 >= y - z
        OBVIOUS
      <4>2. top + n \in Int
        BY <1>1
      <4>3. QED
        BY <4>1, <4>2, <2>1, <2>2
    <3>3. QED
      BY <3>1, <3>2 DEF m
  <2>3. CASE ~(m <= l + 1)
    <3>1. l < m
      BY <2>1, <2>3
    <3>2. SubSeq(stack, m, l) = <<>>
      BY <3>1, <2>1, SubSeqEmpty
    <3>3. Filled(h, <<>>) /\ Len(<<>>) = 0
      BY EmptyFacts DEF Filled
    <3>4. 0 >= l - (top + n)
      <4>1. \A x, y, z \in Int : ~(x <= y + 1) /\ x - 1 = z => 0 >= y - z
        OBVIOUS
      <4>2. top + n \in Int
        BY <1>1
      <4>3. QED
        BY <4>1, <4>2, <2>1, <2>3
    <3>5. QED
      BY <3>2, <3>3, <3>4 DEF m
  <2>4. QED
    BY <2>2, <2>3
<1>4. StackWith(vs) = low \o vs \o rest
  BY DEF StackWith
<1> HIDE DEF low, rest
<1> DEFINE start == low \o vs
<1>5. Filled(h, start) /\ Len(start) = top + n
  BY <1>2, FilledConcat
<1> HIDE DEF start
<1>6. Filled(h, start \o rest) /\ Len(start \o rest) = Len(start) + Len(rest)
  BY <1>3, <1>5, FilledConcat
<1>7. StackWith(vs) = start \o rest
  BY <1>4 DEF start
<1> HIDE DEF l, n
<1>8. Len(start) + Len(rest) \in Nat /\ Len(start) + Len(rest) >= l /\ Len(start) + Len(rest) >= top + n
  <2>1. \A x, y, z, w \in Nat : w >= z - (x + y) => x + y + w \in Nat /\ x + y + w >= z /\ x + y + w >= x + y
    OBVIOUS
  <2>2. QED
    BY <2>1, <1>1, <1>3, <1>5
<1>9. QED
  BY <1>6, <1>7, <1>8 DEF l, n

LEMMA CallInterpretedKeeps == IInv /\ ~strayed /\ CallInterpreted => IInv'
<1> SUFFICES ASSUME IInv, ~strayed, CallInterpreted PROVE IInv'
  OBVIOUS
<1> DEFINE p == session.plan  n == frameCount  vs == <<Callee>> \o Args
           f == [closure |-> Callee[2], ip |-> 1, slots |-> top + 1]
           a == [kind |-> "run", frame |-> n + 1, stop |-> n, saved |-> top]
<1>1. AtCode /\ NativeIns[1] = "CALL"
  BY CodeThere DEF CallInterpreted, Machine
<1>2. /\ IsClosure(Callee) /\ Arity(Callee) = Len(Args) /\ n < FramesMax
      /\ stack' = StackWith(vs) /\ top' = top + Len(Args) + 1
      /\ frames' = Put(frames, n + 1, f) /\ frameCount' = n + 1 /\ acts' = Append(Called, a)
      /\ UNCHANGED <<session, taken, status, openUpvalues, forgotten, upvalues, heap, globals, strayed>>
  BY DEF CallInterpreted, Callable, Pushed, StopFrame, input
<1>3. Good(heap, Callee) /\ Filled(heap, Args)
  BY <1>1, PassedFacts
<1>4. /\ Objects(p, heap, upvalues) /\ Upvals(heap, upvalues, Len(stack)) /\ Filled(heap, stack)
      /\ NamesGood(heap, globals) /\ Listing(upvalues, openUpvalues, forgotten)
      /\ SlotsPlanned(p, heap, frames, n, upvalues, openUpvalues)
      /\ PlansKept(p) /\ ~IsRunAct(Innermost(acts)) /\ Act = Innermost(acts) /\ status = "running"
      /\ Control(p, heap, frames, n, acts, top) /\ n \in Nat /\ top \in Nat /\ top <= Len(stack)
      /\ Sequence(frames) /\ n <= Len(frames) /\ Len(stack) \in Nat
  BY <1>1 DEF AtCode, DataInv, Data, ListInv, Control, Stacked
<1>5. /\ Filled(heap, vs) /\ Len(vs) = 1 + Len(Args) /\ Len(Args) \in Nat
  BY <1>3, CalleeFirst
<1> HIDE DEF vs
<1>6. Filled(heap, stack') /\ Len(stack') \in Nat /\ Len(stack') >= Len(stack) /\ Len(stack') >= top + Len(vs)
  BY <1>2, <1>4, <1>5, StackWithFacts
<1>7. DataInv'
  <2>1. \A at \in 0 .. Len(stack) : at \in 0 .. Len(stack')
    BY <1>4, <1>6
  <2>2. Upvals(heap, upvalues, Len(stack'))
    BY <2>1, <1>4 DEF Upvals
  <2>3. QED
    BY <2>2, <1>2, <1>4, <1>6 DEF DataInv, Data
<1>8. /\ Located(p, heap, Callee[2], 1) /\ HeightAt(p, heap, Callee[2], 1) = Len(Args) + 1
  BY <1>2, <1>3, <1>4, ClosureFacts
<1>9. /\ f.closure = Callee[2] /\ f.ip = 1 /\ f.slots = top + 1
      /\ f = [closure |-> f.closure, ip |-> f.ip, slots |-> f.slots]
  OBVIOUS
<1> HIDE DEF f
<1>10. IsFrame(p, heap, f) /\ Ceiling(p, heap, f) = top'
  <2>1. top + 1 \in Nat \ {0} /\ top + 1 + (Len(Args) + 1) - 1 = top + Len(Args) + 1
    BY <1>4, <1>5
  <2>2. IsFrame(p, heap, f)
    BY <2>1, <1>8, <1>9 DEF IsFrame
  <2>3. Ceiling(p, heap, f) = top'
    BY <2>1, <1>2, <1>8, <1>9 DEF Ceiling
  <2>4. QED
    BY <2>2, <2>3
<1>11. FrameAt(frames, frames', n + 1, f)
  BY <1>2, <1>4, PushedFrame
<1>12. PICK b : /\ IsNative(p, heap, b, 1) /\ b.slots = Act.slots
                /\ \A x : Pushes2(acts, Append(Called, x), b, x)
  BY <1>1, CallerFacts
<1>13. Pushes2(acts, acts', b, a)
  BY <1>2, <1>12
<1>14. a = [kind |-> "run", frame |-> n + 1, stop |-> n, saved |-> top] /\ b.slots = Innermost(acts).slots
  BY <1>4, <1>12
<1> HIDE DEF a
<1>15. Control(p, heap, frames', n + 1, acts', Ceiling(p, heap, f))
  BY <1>2, <1>4, <1>9, <1>10, <1>11, <1>12, <1>13, <1>14, PushRunOnNative
<1>16. Control(p, heap, frames', n + 1, acts', top')
  BY <1>10, <1>15
<1>17. Running'
  BY <1>2, <1>4, <1>16 DEF Running
<1>18. SlotsPlanned(p, heap, frames', n + 1, upvalues, openUpvalues)
  BY <1>4, <1>11, SlotsPushed
<1>19. ListInv'
  BY <1>2, <1>4, <1>18 DEF ListInv
<1>20. top' <= Len(stack')
  <2>1. top + Len(Args) + 1 = top + Len(vs)
    BY <1>4, <1>5
  <2>2. QED
    BY <2>1, <1>2, <1>4, <1>5, <1>6
<1>21. InputInv'
  BY <1>2 DEF IInv, InputInv
<1>22. QED
  BY <1>7, <1>17, <1>19, <1>20, <1>21 DEF IInv, VMInv

\* The activations without the innermost one.
LEMMA FrontFacts ==
    ASSUME AtCode
    PROVE  EndsWith(acts, Front(acts), Len(acts) - 1, acts[Len(acts) - 1])
<1> DEFINE m == Len(acts) - 1
<1>1. Sequence(acts) /\ m \in Nat /\ m >= 1 /\ m <= Len(acts) /\ 1 <= m + 1
  BY DEF AtCode
<1>2. m - 1 + 1 = m /\ \A k \in 1 .. m : 1 + k - 1 = k
  BY <1>1
<1>3. Front(acts) = SubSeq(acts, 1, m)
  BY DEF Front
<1> HIDE DEF m
<1>4. /\ Sequence(SubSeq(acts, 1, m)) /\ Len(SubSeq(acts, 1, m)) = m - 1 + 1
      /\ \A k \in 1 .. m - 1 + 1 : SubSeq(acts, 1, m)[k] = acts[1 + k - 1]
  BY <1>1, SubSeqFacts
<1>5. Sequence(Front(acts)) /\ Len(Front(acts)) = m /\ \A k \in 1 .. m : Front(acts)[k] = acts[k]
  BY <1>2, <1>3, <1>4
<1>6. m \in 1 .. m /\ \A k \in 1 .. m - 1 : k \in 1 .. m
  BY <1>1
<1>7. QED
  BY <1>5, <1>6 DEF EndsWith, m

LEMMA NativeReturnKeeps == IInv /\ ~strayed /\ NativeReturn => IInv'
<1> SUFFICES ASSUME IInv, ~strayed, NativeReturn PROVE IInv'
  OBVIOUS
<1> DEFINE p == session.plan  n == frameCount  m == Len(acts) - 1
           v == IF Len(Act.mem) > heap[Act.closure].fn.arity + 1 THEN Operand(0) ELSE Nil
<1>1. AtCode /\ NativeIns[1] = "RETURN"
  BY CodeThere DEF NativeReturn, Machine
<1>2. Good(heap, v)
  <2>1. Takes(NativeIns) = 1 /\ 0 \in Nat /\ 0 < 1
    BY <1>1 DEF Takes
  <2>2. Good(heap, Operand(0)) /\ Good(heap, Nil)
    BY <2>1, <1>1, TopGood, GoodPlain
  <2>3. QED
    BY <2>2
<1>3. /\ UNCHANGED <<input, frames, frameCount, openUpvalues, forgotten, upvalues, heap, globals, output, strayed>>
      /\ Act.slots > 0 => acts' = Front(acts) /\ stack' = Put(stack, Act.slots, v) /\ top' = Act.slots
      /\ ~(Act.slots > 0) => Answer(v) /\ stack' = stack /\ top' = top
  BY DEF NativeReturn
<1> HIDE DEF v
<1>4. /\ Objects(p, heap, upvalues) /\ Upvals(heap, upvalues, Len(stack)) /\ Filled(heap, stack)
      /\ NamesGood(heap, globals) /\ DataInv /\ ListInv
      /\ PlansKept(p) /\ ~IsRunAct(Innermost(acts)) /\ Act = Innermost(acts) /\ status = "running"
      /\ Control(p, heap, frames, n, acts, top) /\ n \in Nat /\ top \in Nat /\ top <= Len(stack)
      /\ Len(stack) \in Nat /\ Acting(p, heap, frames, n, acts) /\ Sequence(acts) /\ Len(acts) \in Nat
      /\ Len(acts) > 1 /\ Act.slots \in Nat
  BY <1>1 DEF AtCode, DataInv, Data, Control
<1>5. m \in 1 .. Len(acts) /\ m < Len(acts) /\ Len(acts) \in 2 .. Len(acts) /\ Len(acts) - 1 = m
  BY <1>4
<1>6. EndsWith(acts, Front(acts), Len(acts) - 1, acts[Len(acts) - 1])
  BY <1>1, FrontFacts
<1> HIDE DEF p, n
<1>7. CASE IsRunAct(acts[m])
  <2>1. Control(p, heap, frames, n, Front(acts), Act.slots)
    BY <1>4, <1>6, <1>7, NativeToRun
  <2>2. Act.slots = Ceiling(p, heap, frames[n]) /\ Act.slots <= top
    <3>1. /\ PlansKept(p) /\ Control(p, heap, frames, n, acts, top) /\ ~IsRunAct(Innermost(acts))
          /\ IsRunAct(acts[Len(acts) - 1]) /\ EndsWith(acts, Front(acts), Len(acts) - 1, acts[Len(acts) - 1])
      BY <1>4, <1>6, <1>7
    <3>2. Innermost(acts).slots = Ceiling(p, heap, frames[n])
      BY <3>1, NativeSlots
    <3>3. Innermost(acts).slots <= top
      BY <3>1, NativeToRun
    <3>4. QED
      BY <3>2, <3>3, <1>4
  <2>3. Ceiling(p, heap, frames[n]) \in Nat \ {0}
    BY <1>4, InnermostNative, FrameFacts
  <2>4. Act.slots > 0 /\ Act.slots \in 1 .. Len(stack) + 1
    BY <2>2, <2>3, <1>4
  <2>5. acts' = Front(acts) /\ stack' = Put(stack, Act.slots, v) /\ top' = Act.slots
    BY <2>4, <1>3
  <2>6. Filled(heap, stack') /\ Len(stack') \in Nat /\ Len(stack') >= Act.slots /\ Len(stack') >= Len(stack)
    BY <2>4, <2>5, <1>2, <1>4, FilledPut
  <2>7. DataInv'
    <3>1. \A at \in 0 .. Len(stack) : at \in 0 .. Len(stack')
      BY <2>6, <1>4
    <3>2. Upvals(heap, upvalues, Len(stack'))
      BY <3>1, <1>4 DEF Upvals
    <3>3. QED
      BY <3>2, <2>6, <1>3, <1>4 DEF DataInv, Data, p, input
  <2>8. Running'
    BY <2>1, <2>5, <1>3, <1>4 DEF Running, p, n, input
  <2>9. ListInv'
    BY <1>3, <1>4 DEF ListInv, input
  <2>10. top' <= Len(stack')
    BY <2>5, <2>6
  <2>11. InputInv'
    BY <1>3 DEF IInv, InputInv, input
  <2>12. QED
    BY <2>7, <2>8, <2>9, <2>10, <2>11 DEF IInv, VMInv
<1>8. CASE ~IsRunAct(acts[m])
  <2>1. Act.slots = 0
    <3>1. \A k \in 2 .. Len(acts) : ~IsRunAct(acts[k]) /\ ~IsRunAct(acts[k - 1]) => acts[k].slots = 0
      BY <1>4 DEF Acting, Links
    <3>2. ~IsRunAct(acts[Len(acts)]) /\ Act = acts[Len(acts)] /\ ~IsRunAct(acts[Len(acts) - 1])
      BY <1>4, <1>8 DEF Innermost
    <3>3. QED
      BY <3>1, <3>2, <1>5
  <2>2. Answer(v) /\ stack' = stack /\ top' = top
    BY <2>1, <1>3, <1>4
  <2>3. IsNative(p, heap, acts[m], 1)
    <3>1. \A k \in 1 .. Len(acts) : ~IsRunAct(acts[k]) => IsNative(p, heap, acts[k], IF k < Len(acts) THEN 1 ELSE 0)
      BY <1>4, ActivationKinds
    <3>2. QED
      BY <3>1, <1>5, <1>8
  <2>4. PICK b : EndsWith(acts, acts', m, b) /\ IsNative(p, heap, b, 0) /\ b.slots = acts[m].slots
    BY <2>2, <2>3, <1>2, <1>4, AnswerMove
  <2>5. Control(p, heap, frames, n, acts', top)
    BY <2>4, <1>4, <1>8, NativeToNative
  <2>6. UNCHANGED <<input, frame, upvalues, heap, globals>> /\ strayed' \in BOOLEAN
    BY <2>2, <1>3 DEF frame, IInv, InputInv
  <2>7. QED
    BY <2>5, <2>6, <1>1, ControlStep DEF p, n
<1>9. QED
  BY <1>7, <1>8

-----------------------------------------------------------------------------
(* 17. The invariant *)

LEMMA InitKeeps == Init => IInv
<1> SUFFICES ASSUME Init PROVE IInv
  OBVIOUS
<1>1. /\ session \in Sessions /\ taken = 0 /\ status = "idle" /\ acts = <<>>
      /\ stack = <<>> /\ top = 0 /\ frames = <<>> /\ frameCount = 0
      /\ openUpvalues = <<>> /\ upvalues = <<>> /\ heap = <<>> /\ forgotten = {} /\ strayed = FALSE
      /\ globals = [x \in NativeNames |-> <<"native", x>>]
  BY DEF Init
<1>2. Sequence(<<>>) /\ Len(<<>>) = 0
  BY EmptyFacts
<1>3. InputInv
  <2>1. Len(session.code) \in Nat
    BY <1>1, SessionPlans
  <2>2. \A l \in Nat : 0 \in 0 .. l
    OBVIOUS
  <2>3. taken \in 0 .. Len(session.code)
    BY <2>1, <2>2, <1>1
  <2>4. QED
    BY <2>3, <1>1 DEF InputInv
<1>4. Idle /\ top <= Len(stack)
  BY <1>1, <1>2 DEF Idle
<1>5. NamesGood(heap, globals)
  BY <1>1 DEF NamesGood, Good
<1>6. DataInv
  BY <1>1, <1>2, <1>5 DEF DataInv, Data, Objects, Upvals, Filled
<1>7. ListInv
  BY <1>1, <1>2 DEF ListInv, Listing, SlotsPlanned
<1>8. QED
  BY <1>3, <1>4, <1>6, <1>7 DEF IInv, VMInv

\* Once compiled code has strayed it stays so, and the input goes on as before.
LEMMA InterpreterInput ==
    ASSUME IInv, strayed, Next
    PROVE  strayed' = TRUE /\ session' = session /\ (taken' = taken \/ (taken' = taken + 1 /\ taken < Len(session.code)))
<1>1. strayed = TRUE
  BY DEF IInv, InputInv
<1>2. CASE Interpret
  <2>1. UNCHANGED <<session, strayed>> /\ taken' = taken + 1 /\ taken < Len(session.code)
    BY <1>2 DEF Interpret
  <2>2. QED
    BY <2>1, <1>1
<1>3. ASSUME UNCHANGED control
      PROVE  strayed' = TRUE /\ session' = session /\ taken' = taken
  BY <1>1, <1>3 DEF control
<1>4. CASE UNCHANGED control
  BY <1>3, <1>4
<1>5. ASSUME \/ Constant \/ Pop \/ GetLocal \/ SetLocal \/ GetGlobal \/ DefineGlobal \/ SetGlobal
             \/ GetUpvalue \/ SetUpvalue \/ PrintTop \/ Equal \/ Compare \/ Add \/ Arithmetic \/ Not \/ Negate
             \/ JumpAhead \/ Loop \/ LoopIncr \/ MakeClosure \/ CloseUpvalue \/ CallNative
             \/ BuildArray \/ GetIndex \/ SetIndex \/ ArrayCopy \/ ArrayFill
      PROVE  UNCHANGED control
  <2>1. CASE Constant \/ Pop \/ GetLocal \/ SetLocal \/ GetGlobal
    BY <2>1 DEF Constant, Pop, GetLocal, SetLocal, GetGlobal
  <2>2. CASE DefineGlobal \/ SetGlobal \/ GetUpvalue \/ SetUpvalue
    BY <2>2 DEF DefineGlobal, SetGlobal, GetUpvalue, SetUpvalue
  <2>3. CASE PrintTop \/ Equal \/ Compare \/ Add \/ Arithmetic \/ Not \/ Negate
    BY <2>3 DEF PrintTop, Equal, Compare, Add, Arithmetic, Not, Negate
  <2>4. CASE JumpAhead \/ Loop \/ LoopIncr
    BY <2>4 DEF JumpAhead, Loop, LoopIncr
  <2>5. CASE MakeClosure \/ CloseUpvalue \/ CallNative
    BY <2>5 DEF MakeClosure, CloseUpvalue, CallNative
  <2>6. CASE BuildArray \/ GetIndex \/ SetIndex \/ ArrayCopy \/ ArrayFill
    BY <2>6 DEF BuildArray, GetIndex, SetIndex, ArrayCopy, ArrayFill
  <2>7. QED
    BY <1>5, <2>1, <2>2, <2>3, <2>4, <2>5, <2>6
<1>6. CASE Call \/ Return \/ RuntimeError
  <2>1. UNCHANGED <<session, taken>> /\ (strayed' = strayed \/ strayed' = (strayed \/ Len(acts) > 1))
    BY <1>6 DEF Call, Return, RuntimeError
  <2>2. QED
    BY <2>1, <1>1
<1>7. QED
  BY <1>2, <1>4, <1>5, <1>6 DEF Next

LEMMA CodeInput ==
    ASSUME IInv, strayed, NativeNext
    PROVE  strayed' = TRUE /\ session' = session /\ taken' = taken
<1>1. strayed = TRUE
  BY DEF IInv, InputInv
<1>2. CASE NativeConstant \/ NativePop \/ NativeGetLocal \/ NativeSetLocal \/ NativeGetUpvalue \/ NativeSetUpvalue
  BY <1>1, <1>2 DEF NativeConstant, NativePop, NativeGetLocal, NativeSetLocal, NativeGetUpvalue, NativeSetUpvalue, input
<1>3. CASE NativeGetGlobal \/ NativeSetGlobal \/ NativePrint \/ NativeNot \/ NativeEqual \/ NativeCompareStrings
           \/ NativeJump \/ NativeLoopIncr
  BY <1>1, <1>3 DEF NativeGetGlobal, NativeSetGlobal, NativePrint, NativeNot, NativeEqual, NativeCompareStrings,
                    NativeJump, NativeLoopIncr, input
<1>4. ASSUME NEW n, NEW accepted, NEW v, NEW otherwise, Answers(n, accepted, v, otherwise)
      PROVE  strayed' = TRUE /\ session' = session /\ taken' = taken
  BY <1>1, <1>4 DEF Answers, MarkFailed, input
<1>5. CASE NativeAdd \/ NativeSubtract \/ NativeMultiply \/ NativeNegate \/ NativeLess \/ NativeGreater
           \/ NativeGetIndex \/ NativeSetIndex
  BY <1>4, <1>5 DEF NativeAdd, NativeSubtract, NativeMultiply, NativeNegate, NativeLess, NativeGreater,
                    NativeGetIndex, NativeSetIndex
<1>6. CASE CallSelf \/ CallCompiled \/ CallInterpreted \/ CallFails \/ CallNativeFn \/ CallNothing \/ NativeReturn
  BY <1>1, <1>6 DEF CallSelf, CallCompiled, CallInterpreted, CallFails, CallNativeFn, CallNothing, NativeReturn, input
<1>7. QED
  BY <1>2, <1>3, <1>5, <1>6 DEF NativeNext

LEMMA StrayedStays ==
    ASSUME IInv, strayed, Next \/ NativeNext
    PROVE  IInv'
<1>1. strayed' = TRUE /\ session' = session /\ (taken' = taken \/ (taken' = taken + 1 /\ taken < Len(session.code)))
  <2>1. CASE Next
    BY <2>1, InterpreterInput
  <2>2. CASE NativeNext
    BY <2>2, CodeInput
  <2>3. QED
    BY <2>1, <2>2
<1>2. session \in Sessions /\ taken \in 0 .. Len(session.code)
  BY DEF IInv, InputInv
<1>3. Len(session.code) \in Nat
  BY <1>2, SessionPlans
<1>4. taken' \in 0 .. Len(session.code)
  BY <1>1, <1>2, <1>3
<1>5. QED
  BY <1>1, <1>2, <1>4 DEF IInv, InputInv

LEMMA InterpreterKeeps == IInv /\ ~strayed /\ Next => IInv'
BY InterpretKeeps, ConstantKeeps, PopKeeps, GetLocalKeeps, SetLocalKeeps, GetGlobalKeeps, DefineGlobalKeeps,
   SetGlobalKeeps, GetUpvalueKeeps, SetUpvalueKeeps, PrintTopKeeps, EqualKeeps, CompareKeeps, AddKeeps,
   ArithmeticKeeps, NotKeeps, NegateKeeps, JumpAheadKeeps, LoopKeeps, LoopIncrKeeps, MakeClosureKeeps,
   CloseUpvalueKeeps, CallKeeps, CallNativeKeeps, ReturnKeeps, BuildArrayKeeps, GetIndexKeeps, SetIndexKeeps,
   ArrayCopyKeeps, ArrayFillKeeps, RuntimeErrorKeeps
   DEF Next

LEMMA CodeKeeps == IInv /\ ~strayed /\ NativeNext => IInv'
BY NativeConstantKeeps, NativePopKeeps, NativeGetLocalKeeps, NativeSetLocalKeeps, NativeGetUpvalueKeeps,
   NativeSetUpvalueKeeps, NativeGetGlobalKeeps, NativeSetGlobalKeeps, NativePrintKeeps, NativeAddKeeps,
   NativeSubtractKeeps, NativeMultiplyKeeps, NativeNegateKeeps, NativeNotKeeps, NativeEqualKeeps,
   NativeLessKeeps, NativeGreaterKeeps, NativeCompareStringsKeeps, NativeGetIndexKeeps, NativeSetIndexKeeps,
   NativeJumpKeeps, NativeLoopIncrKeeps, CallSelfKeeps, CallCompiledKeeps, CallInterpretedKeeps,
   CallFailsKeeps, CallNativeFnKeeps, NativeReturnKeeps
   DEF NativeNext

LEMMA StutterKeeps == IInv /\ UNCHANGED vars => IInv'
<1> SUFFICES ASSUME IInv, UNCHANGED vars PROVE IInv'
  OBVIOUS
<1>1. UNCHANGED <<session, taken, status, acts, stack, top, frames, frameCount, openUpvalues, upvalues, heap, globals,
                  forgotten, strayed>>
  BY DEF vars
<1>2. Idle' <=> Idle
  BY <1>1 DEF Idle
<1>3. Running' <=> Running
  BY <1>1 DEF Running
<1>4. DataInv' <=> DataInv
  BY <1>1 DEF DataInv
<1>5. ListInv' <=> ListInv
  BY <1>1 DEF ListInv
<1>6. VMInv' <=> VMInv
  BY <1>1, <1>2, <1>3, <1>4, <1>5 DEF VMInv
<1>7. InputInv' <=> InputInv
  BY <1>1 DEF InputInv
<1>8. QED
  BY <1>1, <1>6, <1>7 DEF IInv

\* Until compiled code strays, plans, frames, activations, the heap and the
\* list of open upvalues fit together.
THEOREM MachineInvariance == Spec => []IInv
<1>1. IInv /\ [Next \/ NativeNext]_vars => IInv'
  <2> SUFFICES ASSUME IInv, [Next \/ NativeNext]_vars PROVE IInv'
    OBVIOUS
  <2>1. CASE strayed /\ (Next \/ NativeNext)
    BY <2>1, StrayedStays
  <2>2. CASE ~strayed /\ (Next \/ NativeNext)
    BY <2>2, InterpreterKeeps, CodeKeeps
  <2>3. CASE UNCHANGED vars
    BY <2>3, StutterKeeps
  <2>4. QED
    BY <2>1, <2>2, <2>3
<1>2. QED
  BY InitKeeps, <1>1, PTL DEF Spec

-----------------------------------------------------------------------------
(* 18. What the invariant says *)

\* The frames that lie on each other: a lower one starts lower.
LEMMA SlotsRise ==
    ASSUME NEW p, PlansKept(p), NEW h, NEW fs, NEW n, Stacked(p, h, fs, n), NEW i \in 1 .. n, NEW j \in 1 .. n,
           i <= j
    PROVE  fs[i].slots <= fs[j].slots /\ fs[i].slots \in Nat /\ fs[j].slots \in Nat
<1>1. IsFrame(p, h, fs[i]) /\ IsFrame(p, h, fs[j]) /\ n \in 0 .. FramesMax /\ FramesMax \in Nat
  BY FramesAssumption DEF Stacked
<1>2. /\ Ceiling(p, h, fs[i]) \in Nat /\ Ceiling(p, h, fs[i]) >= fs[i].slots /\ fs[i].slots \in Nat
      /\ fs[j].slots \in Nat
  BY <1>1, FrameFacts
<1>3. CASE i = j
  BY <1>2, <1>3
<1>4. CASE i # j
  <2>1. i < j
    BY <1>1, <1>4
  <2>2. Ceiling(p, h, fs[i]) <= fs[j].slots
    BY <2>1 DEF Stacked
  <2>3. QED
    BY <2>2, <1>2
<1>5. QED
  BY <1>3, <1>4

\* Of the activations of run one is the innermost.
LEMMA LastRun ==
    ASSUME NEW p, NEW h, NEW fs, NEW n, NEW chain, Acting(p, h, fs, n, chain)
    PROVE  \E k \in 1 .. Len(chain) : /\ IsRunAct(chain[k]) /\ chain[k].frame = n
                                      /\ \A j \in 1 .. Len(chain) : IsRunAct(chain[j]) => j <= k
<1> DEFINE l == Len(chain)  S == {l - k : k \in {i \in 1 .. l : IsRunAct(chain[i])}}
<1>1. l \in Nat /\ l >= 1 /\ IsRun(p, h, fs, n, chain[1], 1)
  BY ActivationKinds
<1>2. IsRunAct(chain[1]) /\ 1 \in 1 .. l
  BY <1>1 DEF IsRun, IsRunAct
<1>3. S \in SUBSET Nat
  <2>1. \A k \in 1 .. l : l - k \in Nat
    BY <1>1
  <2>2. QED
    BY <2>1
<1>4. S # {}
  BY <1>2
<1>5. PICK m \in S : \A x \in S : m <= x
  BY <1>3, <1>4, LeastElement
<1>6. PICK k \in 1 .. l : IsRunAct(chain[k]) /\ m = l - k
  BY <1>5
<1>7. ASSUME NEW j \in 1 .. l, IsRunAct(chain[j]) PROVE j <= k
  <2>1. l - j \in S
    BY <1>7
  <2>2. m <= l - j
    BY <2>1, <1>5
  <2> HIDE DEF S
  <2>3. QED
    BY <2>2, <1>1, <1>6
<1>8. chain[k].frame = n
  <2>1. chain[k].frame = n \/ \E i \in k + 1 .. l : IsRunAct(chain[i])
    BY <1>6 DEF Acting, Reaches
  <2>2. \A i \in k + 1 .. l : i \in 1 .. l /\ ~(i <= k)
    BY <1>1
  <2>3. QED
    BY <2>1, <2>2, <1>7
<1>9. QED
  BY <1>6, <1>7, <1>8

LEMMA NestHolds == IInv => EnginesNest
<1> SUFFICES ASSUME IInv, ~strayed, status # "idle"
             PROVE  /\ status = "running"
                    /\ \A k \in Runs : acts[k].stop < acts[k].frame /\ acts[k].saved < Slots(k)
                    /\ \E k \in Runs : acts[k].frame = frameCount /\ \A j \in Runs : j <= k
                    /\ \A j, k \in Runs : j < k /\ Runs \cap j + 1 .. k - 1 = {} =>
                          acts[k].stop = acts[j].frame /\ acts[k].saved >= Slots(j)
  BY DEF EnginesNest
<1> DEFINE p == session.plan  n == frameCount
<1>1. PlansKept(p) /\ status = "running" /\ Control(p, heap, frames, n, acts, top)
  BY SessionPlans DEF IInv, InputInv, VMInv, Idle, Running
<1>2. Stacked(p, heap, frames, n) /\ Acting(p, heap, frames, n, acts)
  BY <1>1 DEF Control
<1>3. Len(acts) \in Nat /\ DOMAIN acts = 1 .. Len(acts) /\ n \in Nat
  BY <1>2, SequenceFacts, FramesAssumption DEF Acting, Stacked
<1> HIDE DEF p, n
<1>4. Runs = {k \in 1 .. Len(acts) : IsRunAct(acts[k])}
  BY <1>3 DEF Runs, IsRunAct
<1>5. ASSUME NEW k \in Runs
      PROVE  /\ k \in 1 .. Len(acts) /\ IsRun(p, heap, frames, n, acts[k], k)
             /\ acts[k].stop \in Nat /\ acts[k].frame \in Nat /\ acts[k].saved \in Nat
             /\ acts[k].stop < acts[k].frame /\ acts[k].frame <= n
             /\ frames[acts[k].stop + 1].slots = acts[k].saved + 1
  <2>1. k \in 1 .. Len(acts) /\ IsRunAct(acts[k])
    BY <1>4
  <2>2. IsRun(p, heap, frames, n, acts[k], k)
    BY <2>1, <1>2, ActivationKinds
  <2>3. QED
    BY <2>1, <2>2 DEF IsRun
<1>6. ASSUME NEW k \in Runs PROVE acts[k].saved < Slots(k)
  <2>1. acts[k].stop + 1 \in 1 .. n /\ acts[k].frame \in 1 .. n /\ acts[k].stop + 1 <= acts[k].frame
    BY <1>3, <1>5
  <2>2. /\ frames[acts[k].stop + 1].slots <= frames[acts[k].frame].slots
        /\ frames[acts[k].frame].slots \in Nat
    BY <2>1, <1>1, <1>2, SlotsRise
  <2>3. QED
    BY <2>2, <1>5 DEF Slots
<1>7. \A k \in Runs : acts[k].stop < acts[k].frame
  BY <1>5
<1>8. \E k \in Runs : acts[k].frame = n /\ \A j \in Runs : j <= k
  BY <1>2, <1>4, LastRun
<1>9. ASSUME NEW j \in Runs, NEW k \in Runs, j < k, Runs \cap j + 1 .. k - 1 = {}
      PROVE  acts[k].stop = acts[j].frame /\ acts[k].saved >= Slots(j)
  <2>1. ~\E m \in j + 1 .. k - 1 : IsRunAct(acts[m])
    <3>1. \A m \in j + 1 .. k - 1 : m \in 1 .. Len(acts)
      BY <1>3, <1>5
    <3>2. QED
      BY <3>1, <1>4, <1>9
  <2>2. acts[k].stop = acts[j].frame
    <3>1. IsRunAct(acts[j]) /\ IsRunAct(acts[k]) /\ j \in 1 .. Len(acts) /\ k \in 1 .. Len(acts)
      BY <1>4
    <3>2. acts[j].frame = acts[k].stop \/ \E m \in j + 1 .. k - 1 : IsRunAct(acts[m])
      BY <3>1, <1>2, <1>9 DEF Acting, Levels
    <3>3. QED
      BY <3>2, <2>1
  <2>3. k # 1
    BY <1>5, <1>9
  <2>4. acts[k].saved >= Ceiling(p, heap, frames[acts[k].stop]) /\ acts[k].saved \in Nat
    BY <2>3, <1>5 DEF IsRun
  <2>5. acts[j].frame \in 1 .. n
    BY <1>3, <1>5
  <2>6. /\ Ceiling(p, heap, frames[acts[j].frame]) >= Slots(j) /\ Slots(j) \in Nat
        /\ Ceiling(p, heap, frames[acts[j].frame]) \in Nat
    <3>1. IsFrame(p, heap, frames[acts[j].frame])
      BY <2>5, <1>2 DEF Stacked
    <3>2. QED
      BY <3>1, <1>1, FrameFacts DEF Slots
  <2>7. QED
    BY <2>2, <2>4, <2>6
<1>10. QED
  BY <1>1, <1>6, <1>7, <1>8, <1>9 DEF n

LEMMA BalanceHolds == IInv => StackBalanced
<1> SUFFICES ASSUME IInv, ~strayed, status = "running"
             PROVE  IF Act.kind = "run" THEN Planning(Frame.closure, Frame.ip, top - Frame.slots + 1)
                                        ELSE Planning(Act.closure, Act.ip, Len(Act.mem))
  BY DEF StackBalanced
<1> DEFINE p == session.plan
<1>1. PlansKept(p) /\ Control(p, heap, frames, frameCount, acts, top) /\ Act = Innermost(acts)
  BY SessionPlans DEF IInv, InputInv, VMInv, Idle, Running, Act, Last, Innermost
<1>2. CASE Act.kind = "run"
  <2>1. /\ frameCount \in Nat /\ IsFrame(p, heap, frames[frameCount]) /\ Act.frame = frameCount
        /\ top = Ceiling(p, heap, frames[frameCount])
    BY <1>1, <1>2, InnermostRun DEF IsRunAct
  <2>2. Frame = frames[frameCount]
    BY <2>1 DEF Frame
  <2>3. /\ Located(p, heap, Frame.closure, Frame.ip) /\ Frame.slots \in Nat
        /\ top = Frame.slots + HeightAt(p, heap, Frame.closure, Frame.ip) - 1
    BY <2>1, <2>2 DEF IsFrame, Ceiling
  <2>4. HeightAt(p, heap, Frame.closure, Frame.ip) \in Nat
    BY <2>3, <1>1, PlannedFacts
  <2>5. top - Frame.slots + 1 = HeightAt(p, heap, Frame.closure, Frame.ip)
    BY <2>3, <2>4
  <2>6. QED
    BY <2>3, <2>5, <1>2 DEF Planning, Located, HeightAt
<1>3. CASE Act.kind # "run"
  <2>1. IsNative(p, heap, Act, 0)
    BY <1>1, <1>3, InnermostNative DEF IsRunAct
  <2>2. /\ Located(p, heap, Act.closure, Act.ip) /\ Filled(heap, Act.mem)
        /\ Len(Act.mem) + 0 = HeightAt(p, heap, Act.closure, Act.ip)
    BY <2>1 DEF IsNative
  <2>3. Len(Act.mem) = HeightAt(p, heap, Act.closure, Act.ip)
    BY <2>2, SequenceFacts DEF Filled
  <2>4. QED
    BY <2>2, <2>3, <1>3 DEF Planning, Located, HeightAt
<1>4. QED
  BY <1>2, <1>3

LEMMA CapturesHold == IInv /\ ~strayed => CapturesStaySound
<1> SUFFICES ASSUME IInv, ~strayed, NEW i \in DOMAIN heap, heap[i].kind = "closure",
                    NEW u \in ToSet(heap[i].upvalues) \ forgotten, upvalues[u].at > 0
             PROVE  u \in ToSet(openUpvalues) /\ upvalues[u].at <= top
  BY DEF CapturesStaySound
<1> DEFINE p == session.plan  n == frameCount
<1>1. PlansKept(p) /\ DataInv /\ ListInv /\ (Idle \/ Running)
  BY SessionPlans DEF IInv, InputInv, VMInv
<1>2. /\ Objects(p, heap, upvalues) /\ Listing(upvalues, openUpvalues, forgotten)
      /\ SlotsPlanned(p, heap, frames, n, upvalues, openUpvalues) /\ Upvals(heap, upvalues, Len(stack))
      /\ Filled(heap, stack)
  BY <1>1 DEF DataInv, Data, ListInv
<1>3. u \in 1 .. Len(upvalues)
  <2>1. IsClosureObject(p, heap, upvalues, heap[i])
    BY <1>2, SequenceFacts DEF Objects, IsArrayObject
  <2>2. Sequence(heap[i].upvalues) /\ \A k \in 1 .. Len(heap[i].upvalues) : heap[i].upvalues[k] \in 1 .. Len(upvalues)
    BY <2>1 DEF IsClosureObject
  <2>3. QED
    BY <2>2, SequenceFacts DEF ToSet
<1>4. PICK k \in 1 .. Len(openUpvalues) : openUpvalues[k] = u
  BY <1>2, <1>3 DEF Listing
<1>5. u \in ToSet(openUpvalues)
  BY <1>2, <1>4, SequenceFacts DEF Listing, ToSet
<1>6. PICK j \in 1 .. n : upvalues[u].at - frames[j].slots \in CapturedAt(p, heap, frames[j].closure, frames[j].ip)
  BY <1>2, <1>4 DEF SlotsPlanned
<1>7. Control(p, heap, frames, n, acts, top)
  BY <1>1, <1>6 DEF Idle, Running
<1>8. Stacked(p, heap, frames, n) /\ n \in Nat /\ n \in 1 .. n
  <2>1. Stacked(p, heap, frames, n)
    BY <1>7 DEF Control
  <2>2. n \in 0 .. FramesMax /\ FramesMax \in Nat
    BY <2>1, FramesAssumption DEF Stacked
  <2>3. QED
    BY <2>1, <2>2, <1>6
<1>9. /\ IsFrame(p, heap, frames[j]) /\ IsFrame(p, heap, frames[n])
  BY <1>6, <1>8 DEF Stacked
<1> DEFINE height == HeightAt(p, heap, frames[j].closure, frames[j].ip)  slots == frames[j].slots
<1>10. /\ height \in Nat /\ slots \in Nat /\ upvalues[u].at - slots \in 0 .. height - 1
       /\ Ceiling(p, heap, frames[j]) = slots + height - 1
  <2>1. /\ Located(p, heap, frames[j].closure, frames[j].ip) /\ slots \in Nat
    BY <1>9 DEF IsFrame
  <2>2. height \in Nat /\ CapturedAt(p, heap, frames[j].closure, frames[j].ip) \subseteq 0 .. height - 1
    BY <2>1, <1>1, PlannedFacts
  <2>3. QED
    BY <2>1, <2>2, <1>6 DEF Ceiling
<1>11. upvalues[u].at \in Nat
  <2>1. Len(stack) \in Nat
    BY <1>2, SequenceFacts DEF Filled
  <2>2. upvalues[u].at \in 0 .. Len(stack)
    BY <1>2, <1>3 DEF Upvals
  <2>3. QED
    BY <2>1, <2>2
<1> HIDE DEF height, slots
<1>12. upvalues[u].at <= Ceiling(p, heap, frames[j])
  BY <1>10, <1>11
<1>13. Ceiling(p, heap, frames[j]) <= Ceiling(p, heap, frames[n])
  <2>1. Ceiling(p, heap, frames[n]) \in Nat /\ Ceiling(p, heap, frames[n]) >= frames[n].slots /\ frames[n].slots \in Nat
        /\ Ceiling(p, heap, frames[j]) \in Nat
    BY <1>1, <1>9, FrameFacts
  <2>2. CASE j = n
    BY <2>1, <2>2
  <2>3. CASE j # n
    <3>1. j < n
      BY <2>3, <1>6, <1>8
    <3>2. Ceiling(p, heap, frames[j]) <= frames[n].slots
      BY <3>1, <1>6, <1>8 DEF Stacked
    <3>3. QED
      BY <3>2, <2>1
  <2>4. QED
    BY <2>2, <2>3
<1>14. top \in Nat /\ top >= Ceiling(p, heap, frames[n]) /\ Ceiling(p, heap, frames[n]) \in Nat
       /\ Ceiling(p, heap, frames[j]) \in Nat
  BY <1>1, <1>7, <1>9, FrameFacts DEF Control, Topped
<1>15. upvalues[u].at <= top
  BY <1>11, <1>12, <1>13, <1>14
<1>16. QED
  BY <1>5, <1>15

LEMMA TypesHold == IInv /\ ~strayed => TypeOK
<1> SUFFICES ASSUME IInv, ~strayed PROVE TypeOK
  OBVIOUS
<1>1. InputInv /\ DataInv /\ ListInv /\ (Idle \/ Running) /\ top <= Len(stack)
  BY DEF IInv, VMInv
<1>2. Len(stack) \in Nat /\ FramesMax \in Nat
  BY <1>1, SequenceFacts, FramesAssumption DEF DataInv, Data, Filled
<1>3. top \in Nat /\ frameCount \in 0 .. FramesMax
  BY <1>1, <1>2 DEF Idle, Running, Control, Topped, Stacked
<1>4. top \in 0 .. Len(stack) /\ frameCount \in -1 .. FramesMax
  BY <1>1, <1>2, <1>3
<1>5. status \in {"idle", "running", "undefined"} /\ (status = "idle" => top = 0 /\ frameCount = 0 /\ acts = <<>>)
  BY <1>1 DEF Idle, Running
<1>6. DOMAIN upvalues = 1 .. Len(upvalues)
  BY <1>1, SequenceFacts DEF DataInv, Data, Upvals
<1>7. \A u \in DOMAIN upvalues : upvalues[u].at \in 0 .. Len(stack)
  BY <1>1, <1>6 DEF DataInv, Data, Upvals
<1>8. ToSet(openUpvalues) \subseteq DOMAIN upvalues
  BY <1>1, <1>6, SequenceFacts DEF ListInv, Listing, ToSet
<1>9. taken \in 0 .. Len(session.code) /\ strayed \in BOOLEAN
  BY <1>1 DEF InputInv
<1>10. QED
  BY <1>4, <1>5, <1>7, <1>8, <1>9 DEF TypeOK

\* The top of the stack stays inside its memory, the frames within FramesMax,
\* and the upvalues in the list exist, until compiled code strays.
THEOREM TypesStay == Spec => [](~strayed => TypeOK)
<1>1. IInv => (~strayed => TypeOK)
  BY TypesHold
<1>2. QED
  BY <1>1, MachineInvariance, PTL

\* The interpreters that are under way nest: each stops at the frame of the one
\* that it was called from, and has its own part of the stack above that one's.
THEOREM EnginesAlwaysNest == Spec => []EnginesNest
BY NestHolds, MachineInvariance, PTL

\* Each instruction is reached with the stack as high as the compiler counted on,
\* by the interpreter in its frame and by machine code with its operands.
THEOREM StackAlwaysBalanced == Spec => []StackBalanced
BY BalanceHolds, MachineInvariance, PTL

\* An open upvalue of a closure is in the list and stands for a slot in use,
\* unless an error forgot it, until compiled code strays.
THEOREM CapturesStay == Spec => [](~strayed => CapturesStaySound)
<1>1. IInv => (~strayed => CapturesStaySound)
  BY CapturesHold
<1>2. QED
  BY <1>1, MachineInvariance, PTL

-----------------------------------------------------------------------------
(* 19. Probing *)

\* Min of a set of naturals is its least element.
LEMMA MinIsLeast ==
    ASSUME NEW S \in SUBSET Nat, S # {}
    PROVE  Min(S) \in S /\ \A k \in S : Min(S) <= k
BY LeastElement DEF Min

Entry == {NeverUsed, Grave} \cup [key : Name, cell : Cell]

\* Step d of the probe for a name, in an array of c entries.
At(h, n, c, d) == (h[n] + d) % c

\* The probe for a name comes to place i before it meets a never-used entry.
Reached(h, es, c, n, i) ==
    \E d \in 0 .. c - 1 : /\ At(h, n, c, d) = i
                          /\ \A m \in 0 .. d - 1 : es[At(h, n, c, m)] # NeverUsed

\* Every live entry is where the probe for its name finds it, and no name has
\* two entries.
Placed(h, es, c) ==
    /\ \A i \in 0 .. c - 1 : es[i].key # NoName => Reached(h, es, c, es[i].key, i)
    /\ \A i, j \in 0 .. c - 1 : es[i].key # NoName /\ es[i].key = es[j].key => i = j

Hashes == [Name -> Nat]
Arrays(c) == [0 .. c - 1 -> Entry]

\* An entry is never used, a tombstone, or live with a name of its own.
LEMMA EntryKinds ==
    /\ NeverUsed \in Entry /\ Grave \in Entry /\ NeverUsed # Grave
    /\ NeverUsed.key = NoName /\ Grave.key = NoName
    /\ \A e \in Entry : e = NeverUsed \/ e = Grave \/ e.key # NoName
    /\ \A e \in Entry : e.key # NoName => e \in [key : Name, cell : Cell]
BY MarksAssumption DEF Entry, NeverUsed, Grave, Null, Tombstone

\* A probe comes to every place, and to none twice in c steps.
LEMMA ProbeGoesRound ==
    ASSUME NEW h \in Hashes, NEW n \in Name, NEW c \in Nat \ {0}
    PROVE  /\ \A d \in Nat : At(h, n, c, d) \in 0 .. c - 1
           /\ \A i \in 0 .. c - 1 : \E d \in 0 .. c - 1 : At(h, n, c, d) = i
           /\ \A d, e \in 0 .. c - 1 : At(h, n, c, d) = At(h, n, c, e) => d = e
<1> DEFINE x == h[n]
<1>0. x \in Nat
  BY DEF Hashes
<1> HIDE DEF x
<1>1. ASSUME NEW d \in Nat
      PROVE  /\ At(h, n, c, d) \in 0 .. c - 1 /\ (x + d) \div c \in Nat
             /\ x + d = c * ((x + d) \div c) + At(h, n, c, d)
  <2>1. x + d \in Nat
    BY <1>0
  <2>2. At(h, n, c, d) = (x + d) % c
    BY DEF At, x
  <2>3. QED
    BY <2>1, <2>2, DivMod
<1>2. ASSUME NEW i \in 0 .. c - 1
      PROVE  \E d \in 0 .. c - 1 : At(h, n, c, d) = i
  <2> DEFINE q == x \div c  r == x % c
             d == IF i >= r THEN i - r ELSE (i - r) + c
             p == IF i >= r THEN q ELSE q + 1
  <2>1. q \in Nat /\ r \in 0 .. c - 1 /\ x = c * q + r
    BY <1>0, DivMod
  <2> HIDE DEF q, r
  <2>2. d \in 0 .. c - 1 /\ p \in Nat
    BY <2>1
  <2>3. x + d = c * p + i
    BY <2>1
  <2> HIDE DEF d, p
  <2>4. (x + d) % c = i
    BY <2>2, <2>3, DivModUnique
  <2>5. QED
    BY <2>2, <2>4 DEF At, x
<1>3. ASSUME NEW d \in 0 .. c - 1, NEW e \in 0 .. c - 1, At(h, n, c, d) = At(h, n, c, e)
      PROVE  d = e
  <2> DEFINE p == (x + d) \div c  q == (x + e) \div c  r == At(h, n, c, d)
  <2>1. p \in Nat /\ q \in Nat /\ r \in 0 .. c - 1 /\ x + d = c * p + r /\ x + e = c * q + r
    BY <1>1, <1>3
  <2> HIDE DEF p, q, r
  <2>2. d - e = c * (p - q)
    BY <1>0, <2>1
  <2>3. p - q >= 1 => c * (p - q) >= c
    BY <2>1
  <2>4. p - q <= -1 => c * (p - q) <= -c
    BY <2>1
  <2>5. p - q = 0
    BY <2>1, <2>2, <2>3, <2>4
  <2>6. QED
    BY <2>2, <2>5
<1>4. QED
  BY <1>1, <1>2, <1>3

\* What findEntry returns: the entry of the name, or a place without an entry
\* that the probe for the name reaches.
LEMMA FindEntryFinds ==
    ASSUME NEW c \in Nat \ {0}, NEW es \in Arrays(c), hash \in Hashes, Placed(hash, es, c),
           \E j \in 0 .. c - 1 : es[j] = NeverUsed, NEW n \in Name
    PROVE  /\ FindEntry(es, c, n) \in 0 .. c - 1
           /\ \/ es[FindEntry(es, c, n)].key = n
              \/ /\ es[FindEntry(es, c, n)].key = NoName
                 /\ \A j \in 0 .. c - 1 : es[j].key # n
                 /\ Reached(hash, es, c, n, FindEntry(es, c, n))
<1> DEFINE Stops == {i \in 0 .. c - 1 : es[At(hash, n, c, i)].key = n
                                        \/ es[At(hash, n, c, i)] = NeverUsed}
           Stop == Min(Stops)
           Graves == {i \in 0 .. Stop - 1 : es[At(hash, n, c, i)] = Grave}
           place == IF es[At(hash, n, c, Stop)].key = n \/ Graves = {} THEN Stop ELSE Min(Graves)
<1>0. FindEntry(es, c, n) = At(hash, n, c, place)
  BY DEF FindEntry, At
<1>1. PICK u \in 0 .. c - 1 : es[At(hash, n, c, u)] = NeverUsed
  BY ProbeGoesRound
<1>2. Stops \in SUBSET Nat /\ Stops # {}
  BY <1>1
<1>3. Stop \in Stops /\ \A k \in Stops : Stop <= k
  <2> HIDE DEF Stops
  <2>1. QED
    BY <1>2, MinIsLeast
<1> HIDE DEF Stop
<1>4. Stop \in 0 .. c - 1 /\ Stop \in Nat
  BY <1>3
<1>5. \A m \in 0 .. Stop - 1 : es[At(hash, n, c, m)] # NeverUsed
  BY <1>3, <1>4
<1>6. CASE es[At(hash, n, c, Stop)].key = n
  <2>1. place = Stop
    BY <1>6
  <2>2. QED
    BY <1>0, <1>4, <1>6, <2>1, ProbeGoesRound
<1>7. CASE es[At(hash, n, c, Stop)].key # n
  <2>1. es[At(hash, n, c, Stop)] = NeverUsed
    BY <1>3, <1>7
  <2>2. ASSUME NEW j \in 0 .. c - 1, es[j].key = n
        PROVE  FALSE
    <3>1. PICK d \in 0 .. c - 1 :
            /\ At(hash, n, c, d) = j
            /\ \A m \in 0 .. d - 1 : es[At(hash, n, c, m)] # NeverUsed
      BY <2>2, MarksAssumption DEF Placed, Reached
    <3>2. d \in Stops
      BY <2>2, <3>1
    <3>3. Stop <= d
      BY <1>3, <3>2
    <3>4. Stop # d
      BY <2>2, <3>1, <1>7
    <3>5. QED
      BY <1>4, <2>1, <3>1, <3>3, <3>4
  <2>3. place \in 0 .. Stop /\ es[At(hash, n, c, place)].key = NoName
    <3>1. CASE Graves = {}
      BY <1>4, <2>1, <3>1, EntryKinds
    <3>2. CASE Graves # {}
      <4>1. Graves \in SUBSET Nat
        BY <1>4
      <4>2. Min(Graves) \in Graves
        <5> HIDE DEF Graves
        <5>1. QED
          BY <3>2, <4>1, MinIsLeast
      <4>3. place = Min(Graves)
        BY <1>7, <3>2
      <4> HIDE DEF place
      <4>4. place \in 0 .. Stop - 1 /\ es[At(hash, n, c, place)] = Grave
        BY <4>2, <4>3
      <4>5. QED
        BY <1>4, <4>4, EntryKinds
    <3>3. QED
      BY <3>1, <3>2
  <2> HIDE DEF place
  <2>4. place \in 0 .. c - 1 /\ place \in Nat
    BY <1>4, <2>3
  <2>5. \A m \in 0 .. place - 1 : es[At(hash, n, c, m)] # NeverUsed
    BY <1>4, <1>5, <2>3
  <2>6. At(hash, n, c, place) \in 0 .. c - 1
    BY <2>4, ProbeGoesRound
  <2>7. Reached(hash, es, c, n, At(hash, n, c, place))
    BY <2>4, <2>5 DEF Reached
  <2>8. QED
    BY <1>0, <2>2, <2>3, <2>6, <2>7
<1>8. QED
  BY <1>6, <1>7

\* An entry may be written where the probe for its name comes, if the name has
\* no other; a grave may be dug anywhere.
LEMMA PlacedWrite ==
    ASSUME NEW c \in Nat \ {0}, NEW es \in Arrays(c), NEW h \in Hashes, Placed(h, es, c),
           NEW f \in 0 .. c - 1, NEW e \in Entry \ {NeverUsed},
           e.key # NoName => /\ Reached(h, es, c, e.key, f)
                             /\ \A j \in 0 .. c - 1 : es[j].key = e.key => j = f
    PROVE  [es EXCEPT ![f] = e] \in Arrays(c) /\ Placed(h, [es EXCEPT ![f] = e], c)
<1> DEFINE new == [es EXCEPT ![f] = e]
<1>1. new \in Arrays(c) /\ new[f] = e /\ \A i \in 0 .. c - 1 : i # f => new[i] = es[i]
  BY DEF Arrays
<1> HIDE DEF new
<1>2. ASSUME NEW n \in Name, NEW i \in 0 .. c - 1, Reached(h, es, c, n, i)
      PROVE  Reached(h, new, c, n, i)
  <2>1. PICK d \in 0 .. c - 1 : /\ At(h, n, c, d) = i
                                /\ \A m \in 0 .. d - 1 : es[At(h, n, c, m)] # NeverUsed
    BY <1>2 DEF Reached
  <2>2. \A m \in 0 .. d - 1 : new[At(h, n, c, m)] # NeverUsed
    <3>1. \A m \in 0 .. d - 1 : At(h, n, c, m) \in 0 .. c - 1
      BY ProbeGoesRound
    <3>2. QED
      BY <1>1, <2>1, <3>1
  <2>3. QED
    BY <2>1, <2>2 DEF Reached
<1>3. ASSUME NEW i \in 0 .. c - 1, new[i].key # NoName
      PROVE  Reached(h, new, c, new[i].key, i)
  <2>1. new[i] \in Entry /\ new[i].key \in Name
    BY <1>1, <1>3, EntryKinds DEF Arrays
  <2>2. Reached(h, es, c, new[i].key, i)
    BY <1>1, <1>3 DEF Placed
  <2>3. QED
    BY <1>2, <2>1, <2>2
<1>4. ASSUME NEW i \in 0 .. c - 1, NEW j \in 0 .. c - 1,
             new[i].key # NoName, new[i].key = new[j].key
      PROVE  i = j
  BY <1>1, <1>4 DEF Placed
<1>5. QED
  BY <1>1, <1>3, <1>4 DEF Placed, new

-----------------------------------------------------------------------------
(* 20. Tables *)

LiveOf(es, c) == {i \in 0 .. c - 1 : es[i].key # NoName}
UsedOf(es, c) == {i \in 0 .. c - 1 : es[i] # NeverUsed}

\* The live entries: which name has which cell.
Bound(es, c) == {es[i] : i \in LiveOf(es, c)}
Bindings(t) == Bound(t.entries, t.capacity)

Tables == [count : Nat, capacity : Nat, entries : UNION {Arrays(c) : c \in Nat},
           heap : [Cell -> Value \cup {Free}]]

\* The invariant of a table in which names have the hashes h: count counts the
\* tombstones too, three quarters of the array is the most that is used, and
\* the cells that are not free are those of the live entries, one each.
Counted(t) ==
    /\ t.count = Cardinality(UsedOf(t.entries, t.capacity))
    /\ t.capacity = 0 \/ t.capacity >= MinCapacity
    /\ 4 * t.count <= 3 * t.capacity
Owned(t) ==
    /\ \A b, d \in Bindings(t) : b.cell = d.cell => b = d
    /\ \A c \in Cell : t.heap[c] # Free <=> \E b \in Bindings(t) : b.cell = c
TableInv(h, t) ==
    /\ t \in Tables /\ t.entries \in Arrays(t.capacity)
    /\ Counted(t)
    /\ Placed(h, t.entries, t.capacity)
    /\ Owned(t)

\* In a table whose entries are placed, a name has one binding.
LEMMA BindingFacts ==
    ASSUME NEW h, NEW c \in Nat, NEW es \in Arrays(c), Placed(h, es, c)
    PROVE  /\ Bound(es, c) \subseteq [key : Name, cell : Cell]
           /\ \A b, d \in Bound(es, c) : b.key = d.key => b = d
           /\ \A b \in Bound(es, c) : \E i \in LiveOf(es, c) : b = es[i]
           /\ \A i \in LiveOf(es, c) : es[i] \in Bound(es, c)
<1>1. ASSUME NEW i \in LiveOf(es, c)
      PROVE  es[i] \in [key : Name, cell : Cell]
  BY EntryKinds DEF LiveOf, Arrays
<1>2. \A i, j \in LiveOf(es, c) : es[i].key = es[j].key => i = j
  BY DEF LiveOf, Placed
<1>3. QED
  BY <1>1, <1>2 DEF Bound

\* Less used than the array is long: a probe ends.
LEMMA SomeNeverUsed ==
    ASSUME NEW c \in Nat, NEW es \in Arrays(c), Cardinality(UsedOf(es, c)) < c
    PROVE  \E j \in 0 .. c - 1 : es[j] = NeverUsed
<1> SUFFICES ASSUME \A j \in 0 .. c - 1 : es[j] # NeverUsed
             PROVE  FALSE
  OBVIOUS
<1>1. UsedOf(es, c) = 0 .. c - 1
  BY DEF UsedOf
<1>2. Cardinality(0 .. c - 1) = c
  BY FS_Interval
<1>3. QED
  BY <1>1, <1>2

\* The places of a table are finite in number.
LEMMA PlacesFinite ==
    ASSUME NEW c \in Nat, NEW es
    PROVE  /\ IsFiniteSet(UsedOf(es, c)) /\ Cardinality(UsedOf(es, c)) \in Nat
           /\ IsFiniteSet(LiveOf(es, c)) /\ Cardinality(LiveOf(es, c)) \in Nat
<1>1. IsFiniteSet(0 .. c - 1)
  BY FS_Interval
<1>2. UsedOf(es, c) \subseteq 0 .. c - 1 /\ LiveOf(es, c) \subseteq 0 .. c - 1
  BY DEF UsedOf, LiveOf
<1>3. QED
  BY <1>1, <1>2, FS_Subset, FS_CardinalityType

\* How an array changes when one of its places is written.
LEMMA WriteUses ==
    ASSUME NEW c \in Nat, NEW es \in Arrays(c), NEW f \in 0 .. c - 1,
           NEW e \in Entry \ {NeverUsed}
    PROVE  Cardinality(UsedOf([es EXCEPT ![f] = e], c)) =
               Cardinality(UsedOf(es, c)) + (IF es[f] = NeverUsed THEN 1 ELSE 0)
<1> DEFINE new == [es EXCEPT ![f] = e]
<1>1. new[f] = e /\ \A i \in 0 .. c - 1 : i # f => new[i] = es[i]
  BY DEF Arrays
<1> HIDE DEF new
<1>2. UsedOf(new, c) = UsedOf(es, c) \cup {f}
  BY <1>1 DEF UsedOf
<1>3. CASE es[f] = NeverUsed
  <2>1. f \notin UsedOf(es, c)
    BY <1>3 DEF UsedOf
  <2>2. Cardinality(UsedOf(new, c)) = Cardinality(UsedOf(es, c)) + 1
    BY <1>2, <2>1, PlacesFinite, FS_AddElement
  <2>3. QED
    BY <1>3, <2>2 DEF new
<1>4. CASE es[f] # NeverUsed
  <2>1. UsedOf(new, c) = UsedOf(es, c)
    BY <1>2, <1>4 DEF UsedOf
  <2>2. QED
    BY <1>4, <2>1, PlacesFinite DEF new
<1>5. QED
  BY <1>3, <1>4

\* Writing a live entry over one that is not adds its binding.
LEMMA WriteBinds ==
    ASSUME NEW c \in Nat, NEW es \in Arrays(c), NEW f \in 0 .. c - 1,
           NEW e \in Entry \ {NeverUsed}, es[f].key = NoName, e.key # NoName
    PROVE  Bound([es EXCEPT ![f] = e], c) = Bound(es, c) \cup {e}
<1> DEFINE new == [es EXCEPT ![f] = e]
<1>1. new[f] = e /\ \A i \in 0 .. c - 1 : i # f => new[i] = es[i]
  BY DEF Arrays
<1> HIDE DEF new
<1>2. LiveOf(new, c) = LiveOf(es, c) \cup {f} /\ f \notin LiveOf(es, c)
  BY <1>1 DEF LiveOf
<1>3. \A i \in LiveOf(es, c) : new[i] = es[i]
  BY <1>1, <1>2 DEF LiveOf
<1>4. ASSUME NEW b
      PROVE  b \in Bound(new, c) <=> b \in Bound(es, c) \cup {e}
  BY <1>1, <1>2, <1>3 DEF Bound
<1>5. QED
  BY <1>4 DEF new

-----------------------------------------------------------------------------
(* 21. Growth *)

\* The live entries before place i.
LiveBefore(es, i) == {x \in 0 .. i - 1 : es[x].key # NoName}

\* What has been copied from old into an array of c after i entries.
CopiedSofar(h, old, i, es, c) ==
    /\ es \in Arrays(c) /\ Placed(h, es, c)
    /\ \A j \in 0 .. c - 1 : es[j] # Grave
    /\ Bound(es, c) = {old[x] : x \in LiveBefore(old, i)}
    /\ Cardinality(UsedOf(es, c)) = Cardinality(LiveBefore(old, i))

\* Before anything is copied the new array is an empty table.
LEMMA CopyNone ==
    ASSUME NEW c \in Nat, NEW h, NEW old
    PROVE  CopiedSofar(h, old, 0, [j \in 0 .. c - 1 |-> NeverUsed], c)
<1> DEFINE es == [j \in 0 .. c - 1 |-> NeverUsed]
<1>1. \A j \in 0 .. c - 1 : es[j] = NeverUsed /\ es[j].key = NoName /\ es[j] # Grave
  BY EntryKinds
<1>2. es \in Arrays(c)
  BY EntryKinds DEF Arrays
<1> HIDE DEF es
<1>3. UsedOf(es, c) = {} /\ LiveOf(es, c) = {} /\ LiveBefore(old, 0) = {}
  BY <1>1 DEF UsedOf, LiveOf, LiveBefore
<1>4. Placed(h, es, c)
  BY <1>1 DEF Placed
<1>5. Bound(es, c) = {} /\ {old[x] : x \in LiveBefore(old, 0)} = {}
  BY <1>3 DEF Bound
<1>6. QED
  BY <1>1, <1>2, <1>3, <1>4, <1>5 DEF CopiedSofar, es

\* One turn of adjustCapacity's loop.
CopyEntry(es, c, e) == IF e.key = NoName THEN es ELSE [es EXCEPT ![FindEntry(es, c, e.key)] = e]

\* Copying one more entry keeps what has been copied so far.
LEMMA CopyOne ==
    ASSUME hash \in Hashes, NEW n \in Nat, NEW old \in Arrays(n), Placed(hash, old, n),
           NEW c \in Nat, Cardinality(LiveOf(old, n)) < c,
           NEW i \in 0 .. n - 1, NEW es, CopiedSofar(hash, old, i, es, c)
    PROVE  CopiedSofar(hash, old, i + 1, CopyEntry(es, c, old[i]), c)
<1> DEFINE e == old[i]
<1>1. CASE e.key = NoName
  <2>1. LiveBefore(old, i + 1) = LiveBefore(old, i)
    BY <1>1 DEF LiveBefore
  <2>2. CopyEntry(es, c, e) = es
    BY <1>1 DEF CopyEntry
  <2>3. QED
    BY <2>1, <2>2 DEF CopiedSofar
<1>2. CASE e.key # NoName
  <2> DEFINE f == FindEntry(es, c, e.key)  new == [es EXCEPT ![f] = e]
  <2>1. e \in [key : Name, cell : Cell] /\ e \in Entry \ {NeverUsed}
    BY <1>2, EntryKinds DEF Arrays
  <2>2. LiveBefore(old, i + 1) = LiveBefore(old, i) \cup {i} /\ i \notin LiveBefore(old, i)
    BY <1>2 DEF LiveBefore
  <2>3. LiveBefore(old, i) \subseteq LiveOf(old, n) /\ LiveBefore(old, i + 1) \subseteq LiveOf(old, n)
    BY DEF LiveBefore, LiveOf
  <2>4. /\ IsFiniteSet(LiveBefore(old, i)) /\ Cardinality(LiveBefore(old, i)) \in Nat
        /\ Cardinality(LiveBefore(old, i + 1)) = Cardinality(LiveBefore(old, i)) + 1
        /\ Cardinality(LiveBefore(old, i + 1)) <= Cardinality(LiveOf(old, n))
    BY <2>2, <2>3, PlacesFinite, FS_Subset, FS_CardinalityType, FS_AddElement
  <2>5. Cardinality(UsedOf(es, c)) < c /\ es \in Arrays(c) /\ Placed(hash, es, c) /\ c # 0
    BY <2>4, PlacesFinite DEF CopiedSofar
  <2>6. \E j \in 0 .. c - 1 : es[j] = NeverUsed
    BY <2>5, SomeNeverUsed
  <2>7. \A j \in 0 .. c - 1 : es[j].key # e.key
    <3> SUFFICES ASSUME NEW j \in 0 .. c - 1, es[j].key = e.key
                 PROVE  FALSE
      OBVIOUS
    <3>1. es[j] \in Bound(es, c)
      BY <1>2 DEF Bound, LiveOf
    <3>2. PICK x \in LiveBefore(old, i) : es[j] = old[x]
      BY <3>1 DEF CopiedSofar
    <3>3. x \in 0 .. n - 1 /\ x # i /\ old[x].key = old[i].key
      BY <3>2 DEF LiveBefore
    <3>4. QED
      BY <1>2, <3>3 DEF Placed
  <2>8. /\ f \in 0 .. c - 1 /\ es[f].key = NoName /\ Reached(hash, es, c, e.key, f)
    BY <2>1, <2>5, <2>6, <2>7, FindEntryFinds
  <2> HIDE DEF f
  <2>9. es[f] = NeverUsed
    BY <2>5, <2>8, EntryKinds DEF CopiedSofar, Arrays
  <2>10. new \in Arrays(c) /\ Placed(hash, new, c)
    BY <2>1, <2>5, <2>7, <2>8, PlacedWrite
  <2> HIDE DEF e
  <2>11. Cardinality(UsedOf(new, c)) = Cardinality(UsedOf(es, c)) + 1
    BY <2>1, <2>5, <2>8, <2>9, WriteUses
  <2>12. Bound(new, c) = Bound(es, c) \cup {e}
    BY <1>2, <2>1, <2>5, <2>8, WriteBinds
  <2>13. \A j \in 0 .. c - 1 : new[j] # Grave
    BY <1>2, <2>5, <2>8, EntryKinds DEF CopiedSofar, Arrays
  <2>14. Bound(new, c) = {old[x] : x \in LiveBefore(old, i + 1)}
    BY <2>2, <2>12 DEF CopiedSofar, e
  <2>15. CopyEntry(es, c, e) = new
    BY <1>2 DEF CopyEntry, f
  <2> HIDE DEF new
  <2>16. QED
    BY <2>4, <2>10, <2>11, <2>13, <2>14, <2>15 DEF CopiedSofar, e
<1>3. QED
  BY <1>1, <1>2

\* adjustCapacity inserts every live entry again and nothing else.
LEMMA AdjustCopies ==
    ASSUME hash \in Hashes, NEW t, t.capacity \in Nat, t.entries \in Arrays(t.capacity),
           Placed(hash, t.entries, t.capacity),
           NEW c \in Nat, Cardinality(LiveOf(t.entries, t.capacity)) < c
    PROVE  \E es \in Arrays(c) :
              /\ AdjustCapacity(t, c) =
                    [t EXCEPT !.capacity = c, !.entries = es,
                              !.count = Cardinality(LiveOf(t.entries, t.capacity))]
              /\ CopiedSofar(hash, t.entries, t.capacity, es, c)
<1> DEFINE n == t.capacity  old == t.entries
           start == [j \in 0 .. c - 1 |-> NeverUsed]
           Copied[i \in 0 .. n] ==
               IF i = 0 THEN start ELSE CopyEntry(Copied[i - 1], c, old[i - 1])
           Turn == [i \in 1 .. n |-> [es \in Arrays(c) |-> CopyEntry(es, c, old[i - 1])]]
<1>1. start \in Arrays(c)
  BY EntryKinds DEF Arrays
<1>2. ASSUME NEW es \in Arrays(c), NEW e \in Entry
      PROVE  CopyEntry(es, c, e) \in Arrays(c)
  BY <1>2 DEF CopyEntry, Arrays
<1>3. \A i \in 0 .. n - 1 : old[i] \in Entry
  BY DEF Arrays
<1>4. Turn \in Turns(n, Arrays(c))
  BY <1>2, <1>3 DEF Turns
<1>5. Copied = [i \in 0 .. n |-> IF i = 0 THEN start ELSE CopyEntry(Copied[i - 1], c, old[i - 1])]
  <2>1. PICK g : Follows(g, n, Arrays(c), start, Turn)
    <3> HIDE DEF Turn, start, Copied
    <3>1. QED
      BY <1>1, <1>4, RecursionHasSolution
  <2>2. \A i \in 1 .. n : g[i - 1] \in Arrays(c)
    BY <2>1 DEF Follows
  <2>3. \A i \in 1 .. n : Turn[i][g[i - 1]] = CopyEntry(g[i - 1], c, old[i - 1])
    BY <2>2
  <2> HIDE DEF Turn, start
  <2>4. g = [i \in 0 .. n |-> IF i = 0 THEN start ELSE CopyEntry(g[i - 1], c, old[i - 1])]
    BY <2>1, <2>3 DEF Follows
  <2>5. QED
    BY <2>4
<1>6. AdjustCapacity(t, c) = [t EXCEPT !.capacity = c, !.entries = Copied[n],
                                       !.count = Cardinality(LiveOf(old, n))]
  BY DEF AdjustCapacity, CopyEntry, LiveOf
<1> HIDE DEF Copied
<1> DEFINE S == {i \in 0 .. n : CopiedSofar(hash, old, i, Copied[i], c)}
<1>7. 0 \in S
  <2>1. 0 \in 0 .. n
    OBVIOUS
  <2>2. Copied[0] = start
    BY <1>5, <2>1
  <2>3. CopiedSofar(hash, old, 0, start, c)
    BY CopyNone
  <2>4. QED
    BY <2>1, <2>2, <2>3
<1>8. ASSUME NEW i \in 0 .. n - 1, i \in S
      PROVE  i + 1 \in S
  <2>1. CopiedSofar(hash, old, i + 1, CopyEntry(Copied[i], c, old[i]), c)
    BY <1>8, CopyOne
  <2>2. i + 1 \in 0 .. n /\ i + 1 # 0 /\ (i + 1) - 1 = i
    OBVIOUS
  <2>3. Copied[i + 1] = CopyEntry(Copied[i], c, old[i])
    BY <1>5, <2>2
  <2>4. QED
    BY <2>1, <2>2, <2>3
<1>9. n \in S
  <2> HIDE DEF S
  <2>1. \A i \in 0 .. n : i \in S
    BY <1>7, <1>8, IntervalInduction
  <2>2. QED
    BY <2>1
<1>10. Copied[n] \in Arrays(c)
  BY <1>9 DEF CopiedSofar
<1>11. QED
  BY <1>6, <1>9, <1>10

\* A table that may have grown holds what it held and has room for one more.
LEMMA GrownKeeps ==
    ASSUME hash \in Hashes, NEW t, TableInv(hash, t)
    PROVE  /\ TableInv(hash, Grown(t))
           /\ Bindings(Grown(t)) = Bindings(t) /\ Grown(t).heap = t.heap
           /\ Grown(t).capacity # 0
           /\ 4 * (Grown(t).count + 1) <= 3 * Grown(t).capacity
           /\ \E j \in 0 .. Grown(t).capacity - 1 : Grown(t).entries[j] = NeverUsed
<1> DEFINE n == t.capacity  old == t.entries  c == GrowCapacity(n)
<1>1. /\ t \in Tables /\ n \in Nat /\ old \in Arrays(n) /\ t.count \in Nat
      /\ Placed(hash, old, n) /\ 4 * t.count <= 3 * n /\ (n = 0 \/ n >= MinCapacity)
      /\ t.count = Cardinality(UsedOf(old, n))
  BY DEF TableInv, Tables, Counted
<1>2. CASE ~Overloaded(t)
  <2>1. Grown(t) = t
    BY <1>2 DEF Grown
  <2>2. 4 * (t.count + 1) <= 3 * t.capacity /\ t.capacity # 0
    BY <1>1, <1>2 DEF Overloaded
  <2>3. Cardinality(UsedOf(old, n)) < n
    BY <1>1, <2>2
  <2>4. QED
    BY <1>1, <2>1, <2>2, <2>3, SomeNeverUsed
<1>3. CASE Overloaded(t)
  <2> DEFINE live == Cardinality(LiveOf(old, n))
  <2>1. Grown(t) = AdjustCapacity(t, c)
    BY <1>3 DEF Grown
  <2>2. live \in Nat /\ live <= t.count
    <3>1. LiveOf(old, n) \subseteq UsedOf(old, n)
      BY EntryKinds DEF LiveOf, UsedOf
    <3>2. QED
      BY <1>1, <3>1, PlacesFinite, FS_Subset
  <2>3. c \in Nat /\ c >= MinCapacity /\ c >= 2 /\ c >= 2 * n
    <3>1. MinCapacity \in Nat /\ MinCapacity >= 2
      BY CapacityAssumption
    <3>2. CASE n < MinCapacity
      BY <1>1, <3>1, <3>2 DEF GrowCapacity
    <3>3. CASE ~(n < MinCapacity)
      BY <1>1, <3>1, <3>3 DEF GrowCapacity
    <3>4. QED
      BY <3>2, <3>3
  <2> HIDE DEF c, live
  <2>4. live < c /\ 4 * (live + 1) <= 3 * c /\ 4 * live <= 3 * c
    BY <1>1, <2>2, <2>3
  <2>5. PICK es \in Arrays(c) :
          /\ AdjustCapacity(t, c) = [t EXCEPT !.capacity = c, !.entries = es, !.count = live]
          /\ CopiedSofar(hash, old, n, es, c)
    BY <1>1, <2>3, <2>4, AdjustCopies DEF live
  <2> DEFINE g == Grown(t)
  <2>6. es \in UNION {Arrays(k) : k \in Nat}
    BY <2>3
  <2>7. g = [t EXCEPT !.capacity = c, !.entries = es, !.count = live]
    BY <2>1, <2>5
  <2> HIDE DEF g
  <2>8. g \in Tables /\ g.capacity = c /\ g.entries = es /\ g.count = live /\ g.heap = t.heap
    BY <1>1, <2>2, <2>3, <2>6, <2>7 DEF Tables
  <2>9. LiveBefore(old, n) = LiveOf(old, n)
    BY DEF LiveBefore, LiveOf
  <2>10. Bound(es, c) = Bound(old, n) /\ Cardinality(UsedOf(es, c)) = live /\ Placed(hash, es, c)
    BY <2>5, <2>9 DEF CopiedSofar, Bound, live
  <2>11. \E j \in 0 .. c - 1 : es[j] = NeverUsed
    BY <2>3, <2>4, <2>10, SomeNeverUsed
  <2>12. Bindings(g) = Bindings(t)
    BY <2>8, <2>10 DEF Bindings
  <2>13. TableInv(hash, g)
    BY <2>3, <2>4, <2>8, <2>10, <2>12 DEF TableInv, Counted, Owned
  <2>14. QED
    BY <2>3, <2>4, <2>8, <2>11, <2>12, <2>13 DEF g
<1>4. QED
  BY <1>2, <1>3

-----------------------------------------------------------------------------
(* 22. Looking up *)

\* Names have at most one cell each, and there are more cells than names.
LEMMA FreeCellFound ==
    ASSUME NEW h, NEW t, TableInv(h, t)
    PROVE  FreeCell(t) \in Cell /\ t.heap[FreeCell(t)] = Free
<1> DEFINE free == {c \in Cell : t.heap[c] = Free}
<1>1. free # {}
  <2> SUFFICES ASSUME \A c \in Cell : t.heap[c] # Free
               PROVE  FALSE
    OBVIOUS
  <2> DEFINE Owner(c) == CHOOSE b \in Bindings(t) : b.cell = c
             f == [c \in Cell |-> Owner(c).key]
  <2>1. \A c \in Cell : Owner(c) \in Bindings(t) /\ Owner(c).cell = c
    BY DEF TableInv, Owned
  <2>2. /\ Bindings(t) \subseteq [key : Name, cell : Cell]
        /\ \A b, d \in Bindings(t) : b.key = d.key => b = d
    <3>1. t.capacity \in Nat
      BY DEF TableInv, Tables
    <3>2. QED
      BY <3>1, BindingFacts DEF TableInv, Bindings
  <2> HIDE DEF Owner
  <2>3. f \in Injection(Cell, Name)
    BY <2>1, <2>2 DEF Injection, IsInjective
  <2>4. Cardinality(Cell) <= Cardinality(Name)
    BY <2>3, NameAssumption, FS_Injection
  <2>5. Cardinality(Name) \in Nat
    BY NameAssumption, FS_CardinalityType
  <2>6. Cardinality(1 .. Cells) = Cells
    <3>1. Cells \in Int /\ Cells >= 1
      BY <2>5, CellsAssumption
    <3>2. QED
      BY <3>1, FS_Interval
  <2>7. QED
    BY <2>4, <2>5, <2>6, CellsAssumption DEF Cell
<1>2. free \in SUBSET Nat
  BY CellsAssumption DEF Cell
<1>3. Min(free) \in free
  <2> HIDE DEF free
  <2>1. QED
    BY <1>1, <1>2, MinIsLeast
<1>4. QED
  BY <1>3 DEF FreeCell

\* A binding that is looked up is found, and what is found is a binding.
LEMMA GetPtrFinds ==
    ASSUME hash \in Hashes, NEW t, TableInv(hash, t), NEW n \in Name
    PROVE  \/ GetPtr(t, n) = Null /\ \A b \in Bindings(t) : b.key # n
           \/ /\ GetPtr(t, n) \in Cell /\ GetPtr(t, n) # Null
              /\ [key |-> n, cell |-> GetPtr(t, n)] \in Bindings(t)
              /\ t.capacity # 0 /\ FindEntry(t.entries, t.capacity, n) \in 0 .. t.capacity - 1
              /\ EntryFor(t, n) = [key |-> n, cell |-> GetPtr(t, n)]
<1> DEFINE c == t.capacity  es == t.entries
<1>1. /\ c \in Nat /\ es \in Arrays(c) /\ t.count \in Nat /\ Placed(hash, es, c)
      /\ t.count = Cardinality(UsedOf(es, c)) /\ 4 * t.count <= 3 * c
  BY DEF TableInv, Tables, Counted
<1>2. \A b \in Bindings(t) : \E i \in LiveOf(es, c) : b = es[i]
  BY <1>1, BindingFacts DEF Bindings
<1>3. CASE t.count = 0
  <2>1. UsedOf(es, c) = {}
    BY <1>1, <1>3, PlacesFinite, FS_EmptySet
  <2>2. LiveOf(es, c) = {}
    BY <2>1, EntryKinds DEF UsedOf, LiveOf
  <2>3. QED
    BY <1>2, <1>3, <2>2 DEF GetPtr
<1>4. CASE t.count # 0
  <2> DEFINE f == FindEntry(es, c, n)
  <2>1. c # 0 /\ Cardinality(UsedOf(es, c)) < c
    BY <1>1, <1>4
  <2>2. \E j \in 0 .. c - 1 : es[j] = NeverUsed
    BY <1>1, <2>1, SomeNeverUsed
  <2>3. /\ f \in 0 .. c - 1
        /\ es[f].key = n \/ (es[f].key = NoName /\ \A j \in 0 .. c - 1 : es[j].key # n)
    BY <1>1, <2>1, <2>2, FindEntryFinds
  <2>4. EntryFor(t, n) = es[f]
    BY DEF EntryFor
  <2> HIDE DEF f
  <2>5. CASE es[f].key = n
    <3>1. es[f] \in [key : Name, cell : Cell] /\ es[f].key # NoName
      BY <1>1, <2>3, <2>5, EntryKinds, MarksAssumption DEF Arrays
    <3>2. GetPtr(t, n) = es[f].cell
      BY <1>4, <2>4, <3>1 DEF GetPtr
    <3>3. es[f] \in Bindings(t)
      BY <2>3, <3>1 DEF Bindings, Bound, LiveOf
    <3>4. es[f] = [key |-> n, cell |-> GetPtr(t, n)]
      BY <2>5, <3>1, <3>2
    <3>5. GetPtr(t, n) \in Cell /\ GetPtr(t, n) # Null
      BY <3>1, <3>2, CellsAssumption DEF Cell, Null
    <3>6. QED
      BY <2>1, <2>3, <2>4, <3>3, <3>4, <3>5 DEF f
  <2>6. CASE es[f].key # n
    <3>1. GetPtr(t, n) = Null
      BY <1>4, <2>3, <2>4, <2>6 DEF GetPtr
    <3>2. \A b \in Bindings(t) : b.key # n
      BY <1>2, <2>3, <2>6 DEF LiveOf
    <3>3. QED
      BY <3>1, <3>2
  <2>7. QED
    BY <2>5, <2>6
<1>5. QED
  BY <1>3, <1>4
-----------------------------------------------------------------------------
(* 23. Writing *)

\* Entry f of t is rewritten for name n, with its cell, or with a new one.
SetTo(g, f, n, c, v) ==
    [g EXCEPT !.count = IF g.entries[f] = NeverUsed THEN @ + 1 ELSE @,
              !.entries[f] = [key |-> n, cell |-> c],
              !.heap[c] = v]

\* One field at a time: what the record holds afterwards.
LEMMA SetToFields ==
    ASSUME NEW g \in Tables, NEW f \in DOMAIN g.entries, NEW n \in Name, NEW c \in Cell,
           NEW v \in Value, g.entries \in Arrays(g.capacity)
    PROVE  /\ SetTo(g, f, n, c, v) \in Tables
           /\ SetTo(g, f, n, c, v).count =
                g.count + (IF g.entries[f] = NeverUsed THEN 1 ELSE 0)
           /\ SetTo(g, f, n, c, v).capacity = g.capacity
           /\ SetTo(g, f, n, c, v).entries = [g.entries EXCEPT ![f] = [key |-> n, cell |-> c]]
           /\ SetTo(g, f, n, c, v).heap = [g.heap EXCEPT ![c] = v]
<1> DEFINE es == [g.entries EXCEPT ![f] = [key |-> n, cell |-> c]]
           kept == [g.heap EXCEPT ![c] = v]
           count == IF g.entries[f] = NeverUsed THEN g.count + 1 ELSE g.count
           s == SetTo(g, f, n, c, v)
<1>1. s = [g EXCEPT !.count = count, !.entries = es, !.heap = kept]
  BY DEF SetTo, Tables
<1>2. g.capacity \in Nat /\ g.count \in Nat /\ g.heap \in [Cell -> Value \cup {Free}]
  BY DEF Tables
<1>3. es \in Arrays(g.capacity)
  BY DEF Arrays, Entry
<1>4. es \in UNION {Arrays(k) : k \in Nat}
  BY <1>2, <1>3
<1>5. kept \in [Cell -> Value \cup {Free}] /\ count \in Nat
  BY <1>2
<1>6. count = g.count + (IF g.entries[f] = NeverUsed THEN 1 ELSE 0)
  BY <1>2
<1> HIDE DEF es, kept, count, s
<1>7. /\ s \in Tables /\ s.count = count /\ s.capacity = g.capacity
      /\ s.entries = es /\ s.heap = kept
  BY <1>1, <1>4, <1>5 DEF Tables
<1>8. QED
  BY <1>6, <1>7 DEF es, kept, s

\* set: the name has a cell, the one it had if there was one, and that cell has
\* the value; nothing else changes.
SetGives(t, n, v, c) ==
    /\ TableInv(hash, Set(t, n, v))
    /\ Set(t, n, v).heap = [t.heap EXCEPT ![c] = v]
    /\ Bindings(Set(t, n, v)) = Bindings(t) \cup {[key |-> n, cell |-> c]}
    /\ \/ ~IsNewKey(t, n) /\ [key |-> n, cell |-> c] \in Bindings(t)
       \/ IsNewKey(t, n) /\ t.heap[c] = Free /\ \A b \in Bindings(t) : b.key # n

\* Set binds the name to its cell and keeps every other binding.
LEMMA SetBinds ==
    ASSUME hash \in Hashes, NEW t, TableInv(hash, t), NEW n \in Name, NEW v \in Value
    PROVE  \E c \in Cell : SetGives(t, n, v, c)
<1> DEFINE g == Grown(t)  f == FindEntry(g.entries, g.capacity, n)
           cell == IF IsNewKey(t, n) THEN FreeCell(g) ELSE g.entries[f].cell
           s == Set(t, n, v)
<1>1. /\ TableInv(hash, g) /\ Bindings(g) = Bindings(t) /\ g.heap = t.heap
      /\ g.capacity # 0 /\ 4 * (g.count + 1) <= 3 * g.capacity
      /\ \E j \in 0 .. g.capacity - 1 : g.entries[j] = NeverUsed
  BY GrownKeeps
<1>2. s = SetTo(g, f, n, cell, v) /\ (IsNewKey(t, n) <=> g.entries[f].key = NoName)
  BY DEF Set, SetTo, IsNewKey, EntryFor
<1> HIDE DEF g
<1>3. /\ g \in Tables /\ g.capacity \in Nat \ {0} /\ g.count \in Nat
      /\ g.entries \in Arrays(g.capacity) /\ Placed(hash, g.entries, g.capacity)
      /\ g.heap \in [Cell -> Value \cup {Free}] /\ Counted(g) /\ Owned(g)
  BY <1>1 DEF TableInv, Tables
<1>4. /\ f \in 0 .. g.capacity - 1
      /\ \/ g.entries[f].key = n
         \/ /\ g.entries[f].key = NoName
            /\ \A j \in 0 .. g.capacity - 1 : g.entries[j].key # n
            /\ Reached(hash, g.entries, g.capacity, n, f)
  BY <1>1, <1>3, FindEntryFinds
<1> HIDE DEF f
<1>5. n # NoName /\ Bindings(g) = Bound(g.entries, g.capacity)
  BY MarksAssumption DEF Bindings
<1>6. /\ \A b \in Bindings(g) : b \in [key : Name, cell : Cell]
                               /\ \E i \in LiveOf(g.entries, g.capacity) : b = g.entries[i]
      /\ \A i \in LiveOf(g.entries, g.capacity) : g.entries[i] \in Bindings(g)
  BY <1>3, <1>5, BindingFacts
<1>7. CASE ~IsNewKey(t, n)
  <2> DEFINE e == [key |-> n, cell |-> cell]
  <2>1. f \in LiveOf(g.entries, g.capacity)
    BY <1>2, <1>4, <1>7 DEF LiveOf
  <2>2. g.entries[f] = e /\ e \in Bindings(g) /\ cell \in Cell
    BY <1>2, <1>4, <1>6, <1>7, <2>1
  <2>3. g.entries[f] # NeverUsed
    BY <1>2, <1>7, EntryKinds
  <2> HIDE DEF e, cell, s
  <2>4. /\ s \in Tables /\ s.count = g.count /\ s.capacity = g.capacity
        /\ s.entries = [g.entries EXCEPT ![f] = e] /\ s.heap = [g.heap EXCEPT ![cell] = v]
    BY <1>2, <1>3, <1>4, <2>2, <2>3, SetToFields DEF Arrays, e
  <2>5. s.entries = g.entries
    BY <1>3, <1>4, <2>2, <2>4 DEF Arrays
  <2>6. Bindings(s) = Bindings(g)
    BY <2>4, <2>5 DEF Bindings
  <2>7. Counted(s)
    BY <1>3, <2>4, <2>5 DEF Counted
  <2>8. Owned(s)
    <3>1. v # Free /\ e.cell = cell
      BY MarksAssumption DEF e
    <3>2. \A c \in Cell : s.heap[c] # Free <=> g.heap[c] # Free
      BY <1>3, <2>2, <2>4, <3>1 DEF Owned
    <3>3. QED
      BY <1>3, <2>6, <3>2 DEF Owned
  <2>9. TableInv(hash, s)
    BY <1>3, <2>4, <2>5, <2>7, <2>8 DEF TableInv
  <2>10. Bindings(s) = Bindings(t) \cup {e}
    BY <1>1, <2>2, <2>6
  <2>11. SetGives(t, n, v, cell)
    BY <1>1, <1>7, <2>2, <2>4, <2>9, <2>10 DEF SetGives, e, s
  <2>12. QED
    BY <2>2, <2>11
<1>8. CASE IsNewKey(t, n)
  <2> DEFINE e == [key |-> n, cell |-> cell]
  <2>1. g.entries[f].key = NoName
    BY <1>2, <1>8
  <2>2. cell \in Cell /\ g.heap[cell] = Free
    BY <1>1, <1>8, FreeCellFound
  <2>3. e \in Entry \ {NeverUsed} /\ e.key = n /\ e.cell = cell
    BY <1>5, <2>2, EntryKinds DEF Entry
  <2> HIDE DEF e, cell, s
  <2>4. /\ s \in Tables /\ s.capacity = g.capacity
        /\ s.count = g.count + (IF g.entries[f] = NeverUsed THEN 1 ELSE 0)
        /\ s.entries = [g.entries EXCEPT ![f] = e] /\ s.heap = [g.heap EXCEPT ![cell] = v]
    BY <1>2, <1>3, <1>4, <2>2, SetToFields DEF Arrays, e
  <2>5. s.entries \in Arrays(s.capacity) /\ Placed(hash, s.entries, s.capacity)
    BY <1>3, <1>4, <1>5, <2>1, <2>3, <2>4, PlacedWrite
  <2>6. Bindings(s) = Bindings(g) \cup {e}
    BY <1>3, <1>4, <1>5, <2>1, <2>3, <2>4, WriteBinds DEF Bindings
  <2>7. Counted(s)
    <3>1. Cardinality(UsedOf(s.entries, s.capacity)) = s.count
      BY <1>3, <1>4, <2>3, <2>4, WriteUses DEF Counted
    <3>2. 4 * s.count <= 3 * s.capacity
      BY <1>1, <1>3, <2>4
    <3>3. QED
      BY <1>3, <2>4, <3>1, <3>2 DEF Counted
  <2>8. Owned(s)
    <3>1. v # Free
      BY MarksAssumption
    <3>2. \A b \in Bindings(g) : b.cell # cell
      BY <1>3, <2>2 DEF Owned
    <3>3. \A b, d \in Bindings(s) : b.cell = d.cell => b = d
      BY <1>3, <2>3, <2>6, <3>2 DEF Owned
    <3>4. \A c \in Cell : s.heap[c] # Free <=> g.heap[c] # Free \/ c = cell
      BY <1>3, <2>2, <2>4, <3>1
    <3>5. QED
      BY <1>3, <2>3, <2>6, <3>2, <3>3, <3>4 DEF Owned
  <2>9. TableInv(hash, s)
    BY <2>4, <2>5, <2>7, <2>8 DEF TableInv
  <2>10. \A b \in Bindings(t) : b.key # n
    BY <1>1, <1>4, <1>5, <1>6, <2>1 DEF LiveOf
  <2>11. SetGives(t, n, v, cell)
    BY <1>1, <1>8, <2>2, <2>4, <2>6, <2>9, <2>10 DEF SetGives, e, s
  <2>12. QED
    BY <2>2, <2>11
<1>9. QED
  BY <1>7, <1>8

\* del of a bound name: the binding goes and its cell is free.
LEMMA DelUnbinds ==
    ASSUME hash \in Hashes, NEW t, TableInv(hash, t), NEW n \in Name, NEW c,
           [key |-> n, cell |-> c] \in Bindings(t)
    PROVE  /\ TableInv(hash, Del(t, n))
           /\ Bindings(Del(t, n)) = Bindings(t) \ {[key |-> n, cell |-> c]}
           /\ Del(t, n).heap = [t.heap EXCEPT ![c] = Free]
<1> DEFINE e == [key |-> n, cell |-> c]  f == FindEntry(t.entries, t.capacity, n)
           d == Del(t, n)  new == [t.entries EXCEPT ![f] = Grave]
           kept == [t.heap EXCEPT ![c] = Free]
<1>1. /\ t \in Tables /\ t.capacity \in Nat /\ t.count \in Nat
      /\ t.entries \in Arrays(t.capacity) /\ Placed(hash, t.entries, t.capacity)
      /\ t.heap \in [Cell -> Value \cup {Free}] /\ Counted(t) /\ Owned(t)
  BY DEF TableInv, Tables
<1>2. /\ Bindings(t) \subseteq [key : Name, cell : Cell]
      /\ \A a, b \in Bindings(t) : a.key = b.key => a = b
  BY <1>1, BindingFacts DEF Bindings
<1>3. e.key = n /\ e.cell = c /\ e \in Bindings(t) /\ c \in Cell
  BY <1>2
<1>4. /\ GetPtr(t, n) # Null /\ [key |-> n, cell |-> GetPtr(t, n)] \in Bindings(t)
      /\ t.capacity # 0 /\ f \in 0 .. t.capacity - 1
      /\ t.entries[f] = [key |-> n, cell |-> GetPtr(t, n)]
  BY <1>3, GetPtrFinds DEF EntryFor
<1>5. GetPtr(t, n) = c /\ t.entries[f] = e
  BY <1>2, <1>3, <1>4
<1>6. d = [t EXCEPT !.entries = new, !.heap = kept]
  BY <1>4, <1>5 DEF Del
<1> HIDE DEF f, d
<1>7. e.key # NoName /\ e # NeverUsed
  BY <1>3, MarksAssumption, EntryKinds
<1>8. new \in Arrays(t.capacity) /\ Placed(hash, new, t.capacity)
  BY <1>1, <1>4, EntryKinds, PlacedWrite
<1>9. new[f] = Grave /\ \A i \in 0 .. t.capacity - 1 : i # f => new[i] = t.entries[i]
  BY <1>1, <1>4 DEF Arrays
<1>10. Cardinality(UsedOf(new, t.capacity)) = Cardinality(UsedOf(t.entries, t.capacity))
  <2>1. UsedOf(new, t.capacity) = UsedOf(t.entries, t.capacity)
    BY <1>5, <1>7, <1>9, EntryKinds DEF UsedOf
  <2>2. QED
    BY <2>1
<1>11. LiveOf(new, t.capacity) = LiveOf(t.entries, t.capacity) \ {f}
  BY <1>9, EntryKinds DEF LiveOf
<1>12. Bound(new, t.capacity) = Bindings(t) \ {e}
  <2>1. \A i \in LiveOf(t.entries, t.capacity) : i # f => t.entries[i] # e
    BY <1>1, <1>4, <1>5, <1>7 DEF Placed, LiveOf
  <2>2. \A i \in LiveOf(new, t.capacity) : new[i] = t.entries[i] /\ i # f
    BY <1>9, <1>11 DEF LiveOf
  <2>3. ASSUME NEW b
        PROVE  b \in Bound(new, t.capacity) <=> b \in Bindings(t) \ {e}
    BY <1>5, <1>11, <2>1, <2>2 DEF Bound, Bindings
  <2>4. QED
    BY <2>3
<1>13. new \in UNION {Arrays(k) : k \in Nat} /\ kept \in [Cell -> Value \cup {Free}]
  BY <1>1, <1>3, <1>8
<1> HIDE DEF new, kept
<1>14. /\ d \in Tables /\ d.count = t.count /\ d.capacity = t.capacity
       /\ d.entries = new /\ d.heap = kept
  BY <1>1, <1>6, <1>13 DEF Tables
<1>15. Bindings(d) = Bindings(t) \ {e}
  BY <1>12, <1>14 DEF Bindings
<1>16. Counted(d)
  BY <1>1, <1>10, <1>14 DEF Counted
<1>17. Owned(d)
  <2>1. \A a, b \in Bindings(d) : a.cell = b.cell => a = b
    BY <1>1, <1>15 DEF Owned
  <2>2. \A k \in Cell : d.heap[k] # Free <=> t.heap[k] # Free /\ k # c
    BY <1>1, <1>3, <1>14 DEF kept
  <2>3. \A b \in Bindings(t) : b.cell = c <=> b = e
    BY <1>1, <1>3 DEF Owned
  <2>4. QED
    BY <1>1, <1>15, <2>1, <2>2, <2>3 DEF Owned
<1>18. TableInv(hash, d)
  BY <1>8, <1>14, <1>16, <1>17 DEF TableInv
<1>19. QED
  BY <1>14, <1>15, <1>18 DEF d, kept
\* A refused assignment leaves what is bound, and every cell, as it was.
LEMMA RefusedLeavesNoTrace ==
    ASSUME hash \in Hashes, NEW t, TableInv(hash, t), NEW n \in Name, NEW v \in Value,
           IsNewKey(t, n)
    PROVE  /\ TableInv(hash, Del(Set(t, n, v), n))
           /\ Bindings(Del(Set(t, n, v), n)) = Bindings(t)
           /\ Del(Set(t, n, v), n).heap = t.heap
<1> DEFINE s == Set(t, n, v)
<1>1. PICK c \in Cell : SetGives(t, n, v, c)
  BY SetBinds
<1> DEFINE e == [key |-> n, cell |-> c]
<1>2. /\ TableInv(hash, s) /\ s.heap = [t.heap EXCEPT ![c] = v]
      /\ Bindings(s) = Bindings(t) \cup {e}
      /\ t.heap[c] = Free /\ \A b \in Bindings(t) : b.key # n
  BY <1>1 DEF SetGives
<1> HIDE DEF s
<1>3. e \in Bindings(s) /\ e \notin Bindings(t)
  BY <1>2
<1>4. /\ TableInv(hash, Del(s, n)) /\ Bindings(Del(s, n)) = Bindings(s) \ {e}
      /\ Del(s, n).heap = [s.heap EXCEPT ![c] = Free]
  BY <1>2, <1>3, DelUnbinds
<1>5. t.heap \in [Cell -> Value \cup {Free}]
  BY DEF TableInv, Tables
<1>6. Del(s, n).heap = t.heap
  BY <1>2, <1>4, <1>5
<1>7. QED
  BY <1>2, <1>3, <1>4, <1>6 DEF s

-----------------------------------------------------------------------------
(* 24. The invariant *)

\* Name n has cell c.
Has(t, n, c) == [key |-> n, cell |-> c] \in Bindings(t)

Readings == [name : Name \cup {NoName}, cell : Cell \cup {Null}]

STInv ==
    /\ hash \in Hashes /\ TableInv(hash, table)
    /\ cache \in [Name -> Cell \cup {Null}]
    /\ reading \in [Thread -> Readings]
    /\ answer \in [Thread -> Value \cup {Undefined}]
    /\ \A n \in Name : cache[n] # Null => Has(table, n, cache[n])
    /\ \A t \in Thread : reading[t].cell # Null =>
            reading[t].name \in Name /\ Has(table, reading[t].name, reading[t].cell)

\* The invariant holds of the empty table.
LEMMA InitInv == STInit => STInv
<1> SUFFICES ASSUME STInit
             PROVE  STInv
  OBVIOUS
<1>1. hash \in Hashes
  BY CapacityAssumption DEF STInit, Hashes
<1>2. /\ table.count = 0 /\ table.capacity = 0 /\ table.entries = <<>>
      /\ table.heap = [c \in Cell |-> Free]
  BY DEF STInit, EmptyTable
<1>3. <<>> \in Arrays(0)
  BY DEF Arrays
<1>4. table \in Tables /\ table.entries \in Arrays(table.capacity)
  <2>1. <<>> \in UNION {Arrays(k) : k \in Nat}
    BY <1>3
  <2>2. [c \in Cell |-> Free] \in [Cell -> Value \cup {Free}]
    OBVIOUS
  <2>3. table \in Tables
    BY <2>1, <2>2 DEF STInit, EmptyTable, Tables
  <2>4. QED
    BY <1>2, <1>3, <2>3
<1>5. UsedOf(table.entries, table.capacity) = {} /\ LiveOf(table.entries, table.capacity) = {}
  BY <1>2 DEF UsedOf, LiveOf
<1>6. Counted(table)
  <2>1. Cardinality({}) = 0
    BY FS_EmptySet
  <2>2. Cardinality(UsedOf(table.entries, table.capacity)) = 0
    BY <1>5, <2>1
  <2>3. QED
    BY <1>2, <2>2 DEF Counted
<1>7. Placed(hash, table.entries, table.capacity)
  BY <1>2 DEF Placed
<1>8. Bindings(table) = {}
  BY <1>5 DEF Bindings, Bound
<1>9. TableInv(hash, table)
  BY <1>2, <1>4, <1>6, <1>7, <1>8 DEF TableInv, Owned
<1>10. QED
  BY <1>1, <1>9 DEF STInit, STInv, NotReading, Readings

\* A write keeps the invariant if it keeps that of the table and what is bound.
LEMMA WriteKeepsInv ==
    ASSUME STInv, UNCHANGED <<hash, cache, reading, answer>>,
           TableInv(hash, table'), Bindings(table) \subseteq Bindings(table')
    PROVE  STInv'
BY DEF STInv, Has

\* Every step of a thread keeps the invariant.
LEMMA NextInv ==
    ASSUME STInv, [STNext]_stVars
    PROVE  STInv'
<1>1. hash \in Hashes /\ TableInv(hash, table)
  BY DEF STInv
<1>2. ASSUME NEW n \in Name, NEW v \in Value, Define(n, v) \/ Assign(n, v)
      PROVE  STInv'
  <2>1. table' = Set(table, n, v) /\ UNCHANGED <<hash, cache, reading, answer>>
    BY <1>2 DEF Define, Assign
  <2>2. PICK c \in Cell : SetGives(table, n, v, c)
    BY <1>1, SetBinds
  <2>3. TableInv(hash, table') /\ Bindings(table) \subseteq Bindings(table')
    BY <2>1, <2>2 DEF SetGives
  <2>4. QED
    BY <2>1, <2>3, WriteKeepsInv
<1>3. ASSUME NEW n \in Name, NEW v \in Value, RefuseAssign(n, v)
      PROVE  STInv'
  <2>1. TableInv(hash, table') /\ Bindings(table') = Bindings(table)
    BY <1>1, <1>3, RefusedLeavesNoTrace DEF RefuseAssign
  <2>2. QED
    BY <1>3, <2>1, WriteKeepsInv DEF RefuseAssign
<1>4. ASSUME NEW t \in Thread, NEW n \in Name, LoadCache(t, n)
      PROVE  STInv'
  <2>1. reading' = [reading EXCEPT ![t] = [name |-> n, cell |-> cache[n]]]
    BY <1>4 DEF LoadCache
  <2>2. [name |-> n, cell |-> cache[n]] \in Readings
    BY DEF STInv, Readings
  <2>3. QED
    BY <1>4, <2>1, <2>2 DEF LoadCache, STInv
<1>5. ASSUME NEW t \in Thread, LookUp(t)
      PROVE  STInv'
  <2> DEFINE n == reading[t].name  c == GetPtr(table, n)  r == [name |-> n, cell |-> c]
  <2>1. n \in Name /\ c # Null
    BY <1>5 DEF LookUp, STInv, Readings
  <2>2. c \in Cell /\ Has(table, n, c)
    BY <1>1, <2>1, GetPtrFinds DEF Has
  <2> HIDE DEF c
  <2>3. reading[t] \in Readings
    BY DEF STInv
  <2>4. reading' = [reading EXCEPT ![t] = [reading[t] EXCEPT !.cell = c]]
    BY <1>5 DEF LookUp, STInv, c
  <2>5. [reading[t] EXCEPT !.cell = c] = r
    BY <2>3 DEF Readings
  <2>6. r \in Readings
    BY <2>1, <2>2 DEF Readings
  <2> HIDE DEF r
  <2>7. reading' = [reading EXCEPT ![t] = r]
    BY <2>4, <2>5
  <2>8. r.name = n /\ r.cell = c
    BY DEF r
  <2>9. UNCHANGED <<hash, table, cache, answer>>
    BY <1>5 DEF LookUp
  <2> HIDE DEF n
  <2>10. QED
    BY <2>1, <2>2, <2>6, <2>7, <2>8, <2>9 DEF STInv
<1>6. ASSUME NEW t \in Thread, LookUpFails(t)
      PROVE  STInv'
  BY <1>6 DEF LookUpFails, STInv, NotReading, Readings
<1>7. ASSUME NEW t \in Thread, UseCell(t)
      PROVE  STInv'
  <2> DEFINE n == reading[t].name  c == reading[t].cell
  <2>1. c \in Cell /\ n \in Name /\ Has(table, n, c)
    BY <1>7 DEF UseCell, STInv, Readings
  <2>2. table.heap[c] \in Value
    <3>1. table.heap[c] # Free
      BY <1>1, <2>1 DEF TableInv, Owned, Has
    <3>2. QED
      BY <1>1, <2>1, <3>1 DEF TableInv, Tables
  <2>3. /\ cache' = [cache EXCEPT ![n] = c] /\ answer' = [answer EXCEPT ![t] = table.heap[c]]
        /\ reading' = [reading EXCEPT ![t] = NotReading] /\ UNCHANGED <<hash, table>>
    BY <1>7 DEF UseCell
  <2> HIDE DEF n, c
  <2>4. cache' \in [Name -> Cell \cup {Null}] /\ answer' \in [Thread -> Value \cup {Undefined}]
    BY <2>1, <2>2, <2>3 DEF STInv
  <2>5. \A m \in Name : cache'[m] # Null => Has(table, m, cache'[m])
    BY <2>1, <2>3 DEF STInv
  <2>6. QED
    BY <2>3, <2>4, <2>5 DEF STInv, NotReading, Readings
<1>8. ASSUME NEW t \in Thread, NEW n \in Name, GetUnderLock(t, n)
      PROVE  STInv'
  <2>1. Get(n) \in Value \cup {Undefined}
    <3>1. CASE GetPtr(table, n) = Null
      BY <3>1 DEF Get
    <3>2. CASE GetPtr(table, n) # Null
      <4>1. GetPtr(table, n) \in Cell /\ Has(table, n, GetPtr(table, n))
        BY <1>1, <3>2, GetPtrFinds DEF Has
      <4>2. table.heap[GetPtr(table, n)] # Free
        BY <1>1, <4>1 DEF TableInv, Owned, Has
      <4>3. QED
        BY <1>1, <3>2, <4>1, <4>2 DEF Get, TableInv, Tables
    <3>3. QED
      BY <3>1, <3>2
  <2>2. QED
    BY <1>8, <2>1 DEF GetUnderLock, STInv
<1>9. CASE UNCHANGED stVars
  BY <1>9 DEF stVars, STInv, Has
<1>10. QED
  BY <1>2, <1>3, <1>4, <1>5, <1>6, <1>7, <1>8, <1>9 DEF STNext

\* In every state the hashes are fixed, the table satisfies its invariant, and
\* every cell a cache or a thread holds is bound to the name it is held for.
THEOREM STInvariance == STSpec => []STInv
<1>1. STInv /\ [STNext]_stVars => STInv'
  BY NextInv
<1>2. QED
  BY InitInv, <1>1, PTL DEF STSpec
-----------------------------------------------------------------------------
(* 25. What follows from the invariant *)

\* findEntry always stops: count counts the tombstones too, and what it counts
\* never fills the array.
THEOREM ProbesAlwaysEnd == STSpec => []ProbesEnd
<1>1. ASSUME STInv
      PROVE  ProbesEnd
  <2>1. /\ table.count \in Nat /\ table.capacity \in Nat /\ 4 * table.count <= 3 * table.capacity
        /\ table.count = Cardinality(UsedOf(table.entries, table.capacity))
    BY <1>1 DEF STInv, TableInv, Tables, Counted
  <2>2. Used(table) = UsedOf(table.entries, table.capacity)
    BY DEF Used, UsedOf
  <2>3. QED
    BY <2>1, <2>2 DEF ProbesEnd
<1>2. QED
  BY <1>1, STInvariance, PTL

\* Every cell that is not free is that of exactly one live entry: growth, reuse
\* of tombstones and refused assignments neither leak a cell nor share one.
THEOREM CellsAlwaysOwnedOnce == STSpec => []CellsOwnedOnce
<1>1. ASSUME STInv
      PROVE  CellsOwnedOnce
  <2> DEFINE es == table.entries  k == table.capacity
  <2>1. k \in Nat /\ es \in Arrays(k) /\ Placed(hash, es, k) /\ Owned(table)
    BY <1>1 DEF STInv, TableInv, Tables
  <2>2. Live = LiveOf(es, k)
    BY DEF Live, LiveOf
  <2>3. /\ \A b \in Bindings(table) : \E i \in LiveOf(es, k) : b = es[i]
        /\ \A i \in LiveOf(es, k) : es[i] \in Bindings(table)
    BY <2>1, BindingFacts DEF Bindings
  <2> HIDE DEF es, k
  <2>4. ASSUME NEW c \in Cell
        PROVE  Cardinality({i \in LiveOf(es, k) : es[i].cell = c})
                   = IF table.heap[c] = Free THEN 0 ELSE 1
    <3> DEFINE owners == {i \in LiveOf(es, k) : es[i].cell = c}
    <3>1. CASE table.heap[c] = Free
      <4>1. owners = {}
        BY <2>1, <2>3, <3>1 DEF Owned
      <4>2. QED
        BY <3>1, <4>1, FS_EmptySet
    <3>2. CASE table.heap[c] # Free
      <4>1. PICK i \in LiveOf(es, k) : es[i].cell = c
        BY <2>1, <2>3, <3>2 DEF Owned
      <4>2. ASSUME NEW j \in owners
            PROVE  j = i
        <5>1. es[j] = es[i]
          BY <2>1, <2>3, <4>1 DEF Owned
        <5>2. QED
          BY <2>1, <4>1, <5>1 DEF Placed, LiveOf
      <4>3. owners = {i}
        BY <4>1, <4>2
      <4>4. QED
        BY <3>2, <4>3, FS_Singleton
    <3>3. QED
      BY <3>1, <3>2
  <2>5. QED
    BY <2>2, <2>4 DEF CellsOwnedOnce, es, k
<1>2. QED
  BY <1>1, STInvariance, PTL

\* What a name has is what a lookup of it finds.
LEMMA HasIsFound ==
    ASSUME hash \in Hashes, NEW t, TableInv(hash, t), NEW n \in Name, NEW c, Has(t, n, c)
    PROVE  GetPtr(t, n) = c
<1>1. t.capacity \in Nat /\ t.entries \in Arrays(t.capacity)
  BY DEF TableInv, Tables
<1>2. \A a, b \in Bindings(t) : a.key = b.key => a = b
  BY <1>1, BindingFacts DEF Bindings, TableInv
<1>3. QED
  BY <1>2, GetPtrFinds DEF Has

\* A pointer in an inline cache, or in the hands of a thread that has released
\* the lock, is the cell a lookup of the name would find now.
THEOREM CachedCellsAlwaysLive == STSpec => []CachedCellsLive
<1>1. ASSUME STInv
      PROVE  CachedCellsLive
  <2>1. \A n \in Name : cache[n] # Null => cache[n] = GetPtr(table, n)
    BY <1>1, HasIsFound DEF STInv
  <2>2. \A t \in Thread :
          reading[t].cell # Null => reading[t].cell = GetPtr(table, reading[t].name)
    BY <1>1, HasIsFound DEF STInv
  <2>3. QED
    BY <2>1, <2>2 DEF CachedCellsLive
<1>2. QED
  BY <1>1, STInvariance, PTL

-----------------------------------------------------------------------------
(* 26. The hash table implements the map of values *)

\* Contents, of any table.
ContentsOf(t) ==
    LET live == {i \in 0 .. t.capacity - 1 : t.entries[i].key # NoName}
    IN  [n \in Name |->
            IF \E i \in live : t.entries[i].key = n
            THEN t.heap[t.entries[CHOOSE i \in live : t.entries[i].key = n].cell]
            ELSE Undefined]

\* The contents at a name that is bound are the value in its cell.
LEMMA BoundContents ==
    ASSUME NEW h, NEW t, TableInv(h, t), NEW n \in Name, NEW c, Has(t, n, c)
    PROVE  c \in Cell /\ ContentsOf(t)[n] = t.heap[c] /\ ContentsOf(t)[n] \in Value
<1> DEFINE es == t.entries  k == t.capacity  live == LiveOf(es, k)
           chosen == CHOOSE i \in live : es[i].key = n
<1>1. k \in Nat /\ es \in Arrays(k) /\ Placed(h, es, k) /\ Owned(t) /\ t \in Tables
  BY DEF TableInv, Tables
<1>2. /\ \A b \in Bindings(t) : \E i \in live : b = es[i]
      /\ \A i \in live : es[i] \in Bindings(t)
      /\ \A a, b \in Bindings(t) : a.key = b.key => a = b
      /\ Bindings(t) \subseteq [key : Name, cell : Cell]
  BY <1>1, BindingFacts DEF Bindings
<1>3. PICK i \in live : es[i] = [key |-> n, cell |-> c]
  BY <1>2 DEF Has
<1>4. chosen \in live /\ es[chosen].key = n
  BY <1>3
<1>5. ContentsOf(t)[n] = t.heap[es[chosen].cell]
  <2>1. ContentsOf(t)[n] =
          IF \E j \in live : es[j].key = n THEN t.heap[es[chosen].cell] ELSE Undefined
    BY DEF ContentsOf, LiveOf
  <2>2. es[i].key = n
    BY <1>3
  <2> HIDE DEF chosen, live
  <2>3. QED
    BY <2>1, <2>2
<1> HIDE DEF live, chosen
<1>6. es[chosen] = [key |-> n, cell |-> c]
  BY <1>2, <1>3, <1>4
<1>7. ContentsOf(t)[n] = t.heap[c]
  BY <1>5, <1>6
<1>8. c \in Cell /\ t.heap[c] # Free
  BY <1>1, <1>2 DEF Has, Owned
<1>9. QED
  BY <1>1, <1>7, <1>8 DEF Tables

\* The contents at a name that is not bound are Undefined.
LEMMA UnboundContents ==
    ASSUME NEW h, NEW t, TableInv(h, t), NEW n \in Name, \A c : ~Has(t, n, c)
    PROVE  /\ ContentsOf(t)[n] = Undefined
           /\ \A b \in Bindings(t) : b.key # n
<1>1. t.capacity \in Nat /\ t.entries \in Arrays(t.capacity) /\ Placed(h, t.entries, t.capacity)
  BY DEF TableInv, Tables
<1>2. /\ Bindings(t) \subseteq [key : Name, cell : Cell]
      /\ \A i \in LiveOf(t.entries, t.capacity) : t.entries[i] \in Bindings(t)
  BY <1>1, BindingFacts DEF Bindings
<1>3. ASSUME NEW b \in Bindings(t)
      PROVE  b.key # n
  <2>1. b = [key |-> b.key, cell |-> b.cell]
    BY <1>2
  <2>2. Has(t, b.key, b.cell)
    BY <2>1 DEF Has
  <2>3. QED
    BY <2>2
<1>4. ContentsOf(t)[n] = Undefined
  BY <1>2, <1>3 DEF ContentsOf, LiveOf
<1>5. QED
  BY <1>3, <1>4

\* A write after which name n alone has a new value, or a first one.
LEMMA SetDefines ==
    ASSUME hash \in Hashes, NEW t, TableInv(hash, t), NEW n \in Name, NEW v \in Value
    PROVE  ContentsOf(Set(t, n, v)) = [ContentsOf(t) EXCEPT ![n] = v]
<1> DEFINE s == Set(t, n, v)
<1>1. PICK c \in Cell : SetGives(t, n, v, c)
  BY SetBinds
<1>2. /\ TableInv(hash, s) /\ s.heap = [t.heap EXCEPT ![c] = v]
      /\ Bindings(s) = Bindings(t) \cup {[key |-> n, cell |-> c]}
      /\ \/ [key |-> n, cell |-> c] \in Bindings(t)
         \/ t.heap[c] = Free /\ \A b \in Bindings(t) : b.key # n
  BY <1>1 DEF SetGives
<1> HIDE DEF s
<1>3. /\ t.capacity \in Nat /\ t.heap \in [Cell -> Value \cup {Free}] /\ Owned(t)
      /\ Bindings(t) \subseteq [key : Name, cell : Cell]
  <2>1. t.capacity \in Nat /\ t.entries \in Arrays(t.capacity)
    BY DEF TableInv, Tables
  <2>2. QED
    BY <2>1, BindingFacts DEF TableInv, Tables, Bindings
<1>4. ContentsOf(s)[n] = v
  <2>1. Has(s, n, c)
    BY <1>2 DEF Has
  <2>2. TableInv(hash, s)
    BY <1>2
  <2>3. ContentsOf(s)[n] = s.heap[c]
    BY <2>1, <2>2, BoundContents
  <2>4. QED
    BY <1>2, <1>3, <2>3
<1>5. ASSUME NEW m \in Name, m # n
      PROVE  ContentsOf(s)[m] = ContentsOf(t)[m]
  <2>1. ASSUME NEW d, Has(t, m, d)
        PROVE  ContentsOf(s)[m] = ContentsOf(t)[m]
    <3>1. Has(s, m, d) /\ d \in Cell
      BY <1>2, <1>3, <2>1 DEF Has
    <3>2. d # c
      <4>1. t.heap[d] # Free
        BY <1>3, <2>1, <3>1 DEF Owned, Has
      <4>2. [key |-> n, cell |-> c] \in Bindings(t) => d # c
        BY <1>3, <1>5, <2>1 DEF Owned, Has
      <4>3. QED
        BY <1>2, <4>1, <4>2
    <3>3. s.heap[d] = t.heap[d]
      BY <1>2, <1>3, <3>1, <3>2
    <3>4. TableInv(hash, s)
      BY <1>2
    <3>5. ContentsOf(s)[m] = s.heap[d]
      BY <3>1, <3>4, BoundContents
    <3>6. ContentsOf(t)[m] = t.heap[d]
      BY <2>1, BoundContents
    <3>7. QED
      BY <3>3, <3>5, <3>6
  <2>2. ASSUME \A d : ~Has(t, m, d)
        PROVE  ContentsOf(s)[m] = ContentsOf(t)[m]
    <3>1. \A d : ~Has(s, m, d)
      BY <1>2, <1>5, <2>2 DEF Has
    <3>2. QED
      BY <1>2, <2>2, <3>1, UnboundContents
  <2>3. QED
    BY <2>1, <2>2
<1> DEFINE new == ContentsOf(s)  old == ContentsOf(t)
<1>6. new = [m \in Name |-> new[m]] /\ old = [m \in Name |-> old[m]]
  BY DEF ContentsOf
<1> HIDE DEF new, old
<1>7. new[n] = v /\ \A m \in Name : m # n => new[m] = old[m]
  BY <1>4, <1>5 DEF new, old
<1>8. new = [old EXCEPT ![n] = v]
  BY <1>6, <1>7
<1>9. QED
  BY <1>8 DEF new, old, s

\* A table with the same bindings and the same cells has the same contents.
LEMMA SameContents ==
    ASSUME NEW h, NEW t, TableInv(h, t), NEW s, TableInv(h, s),
           Bindings(s) = Bindings(t), s.heap = t.heap
    PROVE  ContentsOf(s) = ContentsOf(t)
<1>1. ASSUME NEW n \in Name
      PROVE  ContentsOf(s)[n] = ContentsOf(t)[n]
  <2>1. \A d : Has(s, n, d) <=> Has(t, n, d)
    BY DEF Has
  <2>2. ASSUME NEW d, Has(t, n, d)
        PROVE  ContentsOf(s)[n] = ContentsOf(t)[n]
    <3>1. ContentsOf(s)[n] = s.heap[d]
      BY <2>1, <2>2, BoundContents
    <3>2. ContentsOf(t)[n] = t.heap[d]
      BY <2>2, BoundContents
    <3>3. QED
      BY <3>1, <3>2
  <2>3. ASSUME \A d : ~Has(t, n, d)
        PROVE  ContentsOf(s)[n] = ContentsOf(t)[n]
    BY <2>1, <2>3, UnboundContents
  <2>4. QED
    BY <2>2, <2>3
<1> DEFINE new == ContentsOf(s)  old == ContentsOf(t)
<1>2. new = [m \in Name |-> new[m]] /\ old = [m \in Name |-> old[m]]
  BY DEF ContentsOf
<1> HIDE DEF new, old
<1>3. \A m \in Name : new[m] = old[m]
  BY <1>1 DEF new, old
<1>4. new = old
  BY <1>2, <1>3
<1>5. QED
  BY <1>4 DEF new, old

\* What a lookup leads to is what the table holds.
LEMMA LookupIsContents ==
    ASSUME hash \in Hashes, NEW t, TableInv(hash, t), NEW n \in Name
    PROVE  ContentsOf(t)[n] = IF GetPtr(t, n) = Null THEN Undefined ELSE t.heap[GetPtr(t, n)]
<1>1. CASE GetPtr(t, n) = Null
  <2>1. \A b \in Bindings(t) : b.key # n
    BY <1>1, GetPtrFinds
  <2>2. \A c : ~Has(t, n, c)
    BY <2>1 DEF Has
  <2>3. QED
    BY <1>1, <2>2, UnboundContents
<1>2. CASE GetPtr(t, n) # Null
  <2>1. Has(t, n, GetPtr(t, n))
    BY <1>2, GetPtrFinds DEF Has
  <2>2. QED
    BY <1>2, <2>1, BoundContents
<1>3. QED
  BY <1>1, <1>2

\* The initial states are initial states of the map.
LEMMA InitDefinesNothing == STInit => GM!Init
<1> SUFFICES ASSUME STInit
             PROVE  GM!Init
  OBVIOUS
<1>1. Contents = ContentsOf(table)
  BY DEF Contents, ContentsOf, Live
<1>2. table.capacity = 0
  BY DEF STInit, EmptyTable
<1>3. ContentsOf(table) = [n \in Name |-> Undefined]
  BY <1>2 DEF ContentsOf
<1>4. QED
  BY <1>1, <1>3 DEF STInit, GM!Init

\* A write that gives a name a value is a definition of the map, or a stutter.
LEMMA WriteDefines ==
    ASSUME STInv, NEW n \in Name, NEW v \in Value, table' = Set(table, n, v),
           UNCHANGED <<hash, cache, reading, answer>>
    PROVE  GM!Next
<1> DEFINE old == ContentsOf(table)  new == ContentsOf(table')
<1>1. Contents = old /\ Contents' = new
  BY DEF Contents, ContentsOf, Live
<1>2. new = [old EXCEPT ![n] = v]
  BY SetDefines DEF STInv
<1>3. DOMAIN old = Name
  BY DEF ContentsOf
<1> HIDE DEF old, new
<1>4. new[n] = v
  BY <1>2, <1>3
<1>5. new = [old EXCEPT ![n] = new[n]]
  BY <1>2, <1>4
<1>6. GM!Define(n)
  BY <1>1, <1>4, <1>5 DEF GM!Define
<1>7. QED
  BY <1>6 DEF GM!Next

\* A read that changes no table answers what the map holds, or is a stutter.
LEMMA ReadAnswers ==
    ASSUME STInv, UNCHANGED table, NEW t \in Thread, NEW n \in Name,
           answer' = [answer EXCEPT ![t] = ContentsOf(table)[n]]
    PROVE  GM!Next
<1>1. Contents = ContentsOf(table) /\ Contents' = ContentsOf(table')
  BY DEF Contents, ContentsOf, Live
<1>2. GM!Answer(t, n)
  BY <1>1 DEF GM!Answer
<1>3. QED
  BY <1>2 DEF GM!Next

\* Every step of the table is one of the map, or changes nothing of it.
LEMMA StepImplementsMap ==
    ASSUME STInv, [STNext]_stVars
    PROVE  [GM!Next]_<<Contents, answer>>
<1>1. hash \in Hashes /\ TableInv(hash, table)
  BY DEF STInv
<1>2. Contents = ContentsOf(table) /\ Contents' = ContentsOf(table')
  BY DEF Contents, ContentsOf, Live
<1>3. ASSUME NEW n \in Name, NEW v \in Value, Define(n, v) \/ Assign(n, v)
      PROVE  GM!Next
  BY <1>3, WriteDefines DEF Define, Assign
<1>4. ASSUME NEW n \in Name, NEW v \in Value, RefuseAssign(n, v)
      PROVE  UNCHANGED <<Contents, answer>>
  <2>1. /\ TableInv(hash, table') /\ Bindings(table') = Bindings(table)
        /\ table'.heap = table.heap
    BY <1>1, <1>4, RefusedLeavesNoTrace DEF RefuseAssign
  <2>2. ContentsOf(table') = ContentsOf(table)
    BY <1>1, <2>1, SameContents
  <2>3. QED
    BY <1>2, <1>4, <2>2 DEF RefuseAssign
<1>5. ASSUME NEW t \in Thread, NEW n \in Name, LoadCache(t, n)
      PROVE  UNCHANGED <<Contents, answer>>
  BY <1>2, <1>5 DEF LoadCache
<1>6. ASSUME NEW t \in Thread, LookUp(t)
      PROVE  UNCHANGED <<Contents, answer>>
  BY <1>2, <1>6 DEF LookUp
<1>7. ASSUME NEW t \in Thread, LookUpFails(t)
      PROVE  GM!Next
  <2>1. reading[t].name \in Name
    BY <1>7 DEF LookUpFails, STInv, Readings
  <2>2. ContentsOf(table)[reading[t].name] = Undefined
    BY <1>1, <1>7, <2>1, LookupIsContents DEF LookUpFails
  <2>3. QED
    BY <1>7, <2>1, <2>2, ReadAnswers DEF LookUpFails
<1>8. ASSUME NEW t \in Thread, UseCell(t)
      PROVE  GM!Next
  <2>1. reading[t].name \in Name /\ Has(table, reading[t].name, reading[t].cell)
    BY <1>8 DEF UseCell, STInv
  <2>2. ContentsOf(table)[reading[t].name] = table.heap[reading[t].cell]
    BY <1>1, <2>1, BoundContents
  <2>3. QED
    BY <1>8, <2>1, <2>2, ReadAnswers DEF UseCell
<1>9. ASSUME NEW t \in Thread, NEW n \in Name, GetUnderLock(t, n)
      PROVE  GM!Next
  <2>1. ContentsOf(table)[n] = Get(n)
    BY <1>1, LookupIsContents DEF Get
  <2>2. QED
    BY <1>9, <2>1, ReadAnswers DEF GetUnderLock
<1>10. CASE UNCHANGED stVars
  BY <1>2, <1>10 DEF stVars
<1>11. QED
  BY <1>3, <1>4, <1>5, <1>6, <1>7, <1>8, <1>9, <1>10 DEF STNext

\* What a reader gets, by probing under the lock or through a cached cell after
\* it, is what the map of values holds at that moment; definitions change one
\* name, refused assignments and the growth of the table change none.
THEOREM TableImplementsGlobalMap == STSpec => ImplementsGlobalMap
<1>1. STInv /\ [STNext]_stVars => [GM!Next]_<<Contents, answer>>
  BY StepImplementsMap
<1>2. QED
  BY InitDefinesNothing, <1>1, STInvariance, PTL
     DEF STSpec, ImplementsGlobalMap, GM!Spec, GM!gmVars
=============================================================================
