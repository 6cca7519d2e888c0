-------------------------- MODULE StateContextProofs --------------------------
(* Theorems about StateContext, for any threads, engines, policies and     *)
(* states, and any number of calls in progress.                            *)
EXTENDS StateContext, SequenceTheorems, WellFoundedInduction, TLAPS

(* What TypeOK leaves open: the vectors are sequences.                     *)
Vectors ==
  /\ stack \in [Threads -> Seq(Objects)]
  /\ calls \in [Threads -> Seq(CallType)]

(* A batch with a call of an input above it has that input left.           *)
Batches ==
  \A t \in Threads : \A i, j \in DOMAIN calls[t] :
    i < j /\ calls[t][i].kind = "batch" /\ IsCall(calls[t][j]) => calls[t][i].left > 0

(* Where the state of a call comes from: a batch has a state that was lent *)
(* to it if any; a slot is the thread's own, and has been made; a   *)
(* shared state is in the engine's storage until it is replaced.           *)
Sources ==
  \A t \in Threads : \A i \in DOMAIN calls[t] :
    LET c == calls[t][i]
    IN  /\ c.kind \in {"run", "batch"} => c.engine \in Engines
        /\ c.kind = "batch" => c.obj \in Lent \union {None}
        /\ c.obj \in Slots => c.obj = Slot(c.engine, t) /\ <<c.engine, t>> \in slots
        /\ c.kind = "run" /\ c.kept /\ c.obj \in Heap
             => c.engine \in DOMAIN heap /\ heap[c.engine] = c.obj

(* A call that is alone with a value is the only one that has it.          *)
OneAlone ==
  \A t, u \in Threads : \A i \in DOMAIN calls[t], j \in DOMAIN calls[u] :
    LET c == calls[t][i]
        d == calls[u][j]
    IN  c.obj \in Values /\ c.obj = d.obj /\ c.alone => t = u /\ i = j

(* A slot that has not been made has no content.                           *)
Unmade == \A e \in Engines, t \in Threads : <<e, t>> \notin slots => hits[Slot(e, t)] = 0

IInv ==
  /\ TypeOK
  /\ Vectors
  /\ Batches
  /\ FramesAreOnTheStack
  /\ Sources
  /\ OneAlone
  /\ ResetRunsSeeTheirWrites
  /\ Unmade

-----------------------------------------------------------------------------
(* Last of the places that have a property, and sequences without a place. *)

(* A nonempty set of numbers has a least one.                              *)
LEMMA LeastExists ==
  ASSUME NEW T, T \subseteq Nat, T # {}
  PROVE  \E x \in T : \A y \in T : x <= y
<1>1. PICK x \in T : \A y \in T : ~ (<<y, x>> \in OpToRel(<, Nat))
  BY WFMin, NatLessThanWellFounded
<1>2. \A y \in T : ~ (y < x)
  BY <1>1 DEF OpToRel
<1>. QED
  BY <1>2

(* Max finds the greatest one of a set that is bounded.                    *)
LEMMA MaxIsGreatest ==
  ASSUME NEW n \in Nat, NEW T, T \subseteq 1 .. n, T # {}
  PROVE  Max(T) \in T /\ \A y \in T : y <= Max(T)
<1>. DEFINE U == {n - y : y \in T}
<1>1. U \subseteq Nat /\ U # {}
  OBVIOUS
<1>. HIDE DEF U
<1>2. PICK x \in U : \A y \in U : x <= y
  BY <1>1, LeastExists
<1>3. PICK z \in T : x = n - z
  BY DEF U
<1>4. \A y \in T : n - y \in U
  BY DEF U
<1>5. \A y \in T : z >= y
  BY <1>2, <1>3, <1>4
<1>. QED
  BY <1>3, <1>5 DEF Max

(* pop finds the last entry with the value, and leaves a vector without it *)
(* alone.                                                                  *)
LEMMA PoppedLast ==
  ASSUME NEW s \in Seq(Objects), NEW n \in DOMAIN s
  PROVE  \E k \in DOMAIN s : /\ s[k] = s[n]
                             /\ \A m \in DOMAIN s : s[m] = s[n] => m <= k
                             /\ Popped(s, s[n]) = RemoveAt(s, k)
<1>. DEFINE same == {m \in 1 .. Len(s) : s[m] = s[n]}
<1>1. DOMAIN s = 1 .. Len(s) /\ Len(s) \in Nat /\ n \in same
  OBVIOUS
<1>2. Popped(s, s[n]) = IF Max(same) = 0 THEN s ELSE RemoveAt(s, Max(same))
  BY <1>1 DEF Popped, SelectLastInSeq
<1>. DEFINE k == Max(same)
<1>3. k \in same /\ \A m \in same : m <= k
  BY <1>1, MaxIsGreatest
<1>4. Popped(s, s[n]) = IF k = 0 THEN s ELSE RemoveAt(s, k)
  BY <1>2
<1>. HIDE DEF k
<1>5. k \in DOMAIN s /\ s[k] = s[n] /\ k # 0 /\ \A m \in DOMAIN s : s[m] = s[n] => m <= k
  BY <1>1, <1>3
<1>. QED
  BY <1>4, <1>5

(* What RemoveAt makes of a sequence.                                      *)
LEMMA RemoveAtProperties ==
  ASSUME NEW S, NEW s \in Seq(S), NEW k \in DOMAIN s
  PROVE  /\ RemoveAt(s, k) \in Seq(S)
         /\ Len(RemoveAt(s, k)) = Len(s) - 1
         /\ DOMAIN RemoveAt(s, k) = 1 .. Len(s) - 1
         /\ \A j \in 1 .. Len(s) - 1 :
              RemoveAt(s, k)[j] = IF j < k THEN s[j] ELSE s[j + 1]
<1>1. Len(s) \in Nat /\ DOMAIN s = 1 .. Len(s) /\ k \in 1 .. Len(s)
  OBVIOUS
<1>. DEFINE a == SubSeq(s, 1, k - 1)
            b == SubSeq(s, k + 1, Len(s))
<1>2. a \in Seq(S) /\ Len(a) = k - 1 /\ \A j \in 1 .. k - 1 : a[j] = s[j]
  BY <1>1, SubSeqProperties
<1>3. b \in Seq(S) /\ Len(b) = Len(s) - k /\ \A j \in 1 .. Len(s) - k : b[j] = s[k + j]
  BY <1>1, SubSeqProperties
<1>. HIDE DEF a, b
<1>4. /\ a \o b \in Seq(S) /\ Len(a \o b) = Len(a) + Len(b)
      /\ \A j \in 1 .. Len(a) + Len(b) :
           (a \o b)[j] = IF j <= Len(a) THEN a[j] ELSE b[j - Len(a)]
  BY <1>2, <1>3, ConcatProperties
<1>5. Len(a) + Len(b) = Len(s) - 1
  BY <1>1, <1>2, <1>3
<1>6. ASSUME NEW j \in 1 .. Len(s) - 1
      PROVE  (a \o b)[j] = IF j < k THEN s[j] ELSE s[j + 1]
  <2>1. CASE j < k
    BY <1>1, <1>2, <1>4, <1>5, <2>1
  <2>2. CASE ~(j < k)
    <3>1. j - (k - 1) \in 1 .. Len(s) - k /\ k + (j - (k - 1)) = j + 1
      BY <1>1, <2>2
    <3>2. (a \o b)[j] = b[j - (k - 1)]
      BY <1>1, <1>2, <1>4, <1>5, <2>2
    <3>. QED
      BY <1>3, <2>2, <3>1, <3>2
  <2>. QED
    BY <2>1, <2>2
<1>7. RemoveAt(s, k) = a \o b
  BY DEF RemoveAt, a, b
<1>8. a \o b \in Seq(S) /\ Len(a \o b) = Len(s) - 1 /\ DOMAIN (a \o b) = 1 .. Len(s) - 1
  BY <1>4, <1>5
<1>. HIDE DEF a, b
<1>. QED
  BY <1>6, <1>7, <1>8

(* The innermost call of a vector of calls: above it are frames only.      *)
LEMMA InnermostIsLast ==
  ASSUME Vectors, NEW t \in Threads
  PROVE  /\ InCall(t) \in 0 .. Len(calls[t])
         /\ InCall(t) # 0 => InCall(t) \in DOMAIN calls[t] /\ IsCall(calls[t][InCall(t)])
         /\ \A j \in DOMAIN calls[t] : IsCall(calls[t][j]) => j <= InCall(t)
<1>. DEFINE some == {j \in 1 .. Len(calls[t]) : IsCall(calls[t][j])}
<1>1. Len(calls[t]) \in Nat /\ DOMAIN calls[t] = 1 .. Len(calls[t])
  BY DEF Vectors
<1>. DEFINE k == Max(some)
<1>2. InCall(t) = IF some # {} THEN k ELSE 0
  BY DEF InCall, SelectLastInSeq
<1>3. some # {} => k \in some /\ \A y \in some : y <= k
  BY <1>1, MaxIsGreatest
<1>. HIDE DEF k
<1>4. CASE some = {}
  BY <1>1, <1>2, <1>4
<1>5. CASE some # {}
  BY <1>1, <1>2, <1>3, <1>5
<1>. QED
  BY <1>4, <1>5

(* And the call below it: between the two are frames only.                 *)
LEMMA BelowIsNext ==
  ASSUME Vectors, NEW t \in Threads, NEW i \in DOMAIN calls[t]
  PROVE  /\ Below(t, i) \in 0 .. i - 1
         /\ Below(t, i) # 0 => /\ Below(t, i) \in DOMAIN calls[t]
                               /\ IsCall(calls[t][Below(t, i)])
         /\ \A j \in DOMAIN calls[t] : j < i /\ IsCall(calls[t][j]) => j <= Below(t, i)
<1>. DEFINE some == {j \in 1 .. i - 1 : IsCall(calls[t][j])}
<1>1. Len(calls[t]) \in Nat /\ DOMAIN calls[t] = 1 .. Len(calls[t]) /\ i \in Nat /\ i >= 1
      /\ i <= Len(calls[t])
  BY DEF Vectors
<1>. DEFINE k == Max(some)
<1>2. Below(t, i) = IF some # {} THEN k ELSE 0
  BY DEF Below, SelectLastInSubSeq
<1>3. some # {} => k \in some /\ \A y \in some : y <= k
  <2>1. some \subseteq 1 .. i - 1 /\ i - 1 \in Nat
    BY <1>1
  <2>. QED
    BY <2>1, MaxIsGreatest
<1>. HIDE DEF k
<1>4. CASE some = {}
  BY <1>1, <1>2, <1>4
<1>5. CASE some # {}
  BY <1>1, <1>2, <1>3, <1>5
<1>. QED
  BY <1>4, <1>5

(* The frame a thread writes through.                                      *)
Writer(t, o) == SelectLastInSeq(calls[t], LAMBDA c : Framed(c) /\ c.obj = o)

(* It is there if any frame has the state.                                 *)
LEMMA WriterExists ==
  ASSUME Vectors, NEW t \in Threads, NEW o, NEW i \in Frames(t), calls[t][i].obj = o
  PROVE  /\ Writer(t, o) \in Frames(t)
         /\ calls[t][Writer(t, o)].obj = o
<1>. DEFINE some == {j \in 1 .. Len(calls[t]) : Framed(calls[t][j]) /\ calls[t][j].obj = o}
<1>1. Len(calls[t]) \in Nat /\ DOMAIN calls[t] = 1 .. Len(calls[t])
  BY DEF Vectors
<1>2. Writer(t, o) = IF some # {} THEN Max(some) ELSE 0
  BY DEF Writer, SelectLastInSeq
<1>3. i \in some
  BY <1>1 DEF Frames
<1>4. Max(some) \in some
  BY <1>1, <1>3, MaxIsGreatest
<1>. QED
  BY <1>1, <1>2, <1>3, <1>4 DEF Frames

-----------------------------------------------------------------------------
(* The entries of a stack against the frames of a vector of calls.  These  *)
(* facts are about any two vectors, so that they can be used on those      *)
(* before and after a step.                                                *)

Live(cs) == {i \in DOMAIN cs : Framed(cs[i])}

Matched(s, cs, f) ==
  /\ f \in [DOMAIN s -> Live(cs)]
  /\ \A m, n \in DOMAIN s : m # n => f[m] # f[n]
  /\ \A i \in Live(cs) : \E n \in DOMAIN s : f[n] = i
  /\ \A n \in DOMAIN s : s[n] = cs[f[n]].obj

Sorted(s, f) == \A m, n \in DOMAIN s : m < n => f[m] < f[n]

Fits(s, cs, inOrder) == \E f : Matched(s, cs, f) /\ (inOrder => Sorted(s, f))

(* FramesAreOnTheStack says that every thread's vectors fit.               *)
LEMMA FramesFit ==
  /\ FramesAreOnTheStack <=> \A t \in Threads : Fits(stack[t], calls[t], ordered[t])
  /\ (\A t \in Threads : Fits(stack'[t], calls'[t], ordered'[t])) => FramesAreOnTheStack'
<1>1. \A s, cs, f : f \in Bijection(DOMAIN s, Live(cs))
                    /\ (\A n \in DOMAIN s : s[n] = cs[f[n]].obj) <=> Matched(s, cs, f)
  BY DEF Bijection, Injection, Surjection, IsInjective, Matched
<1>2. \A t \in Threads : Live(calls[t]) = Frames(t) /\ Live(calls'[t]) = Frames(t)'
  BY DEF Live, Frames, Framed
<1>. QED
  BY <1>1, <1>2 DEF FramesAreOnTheStack, Fits, Sorted

(* Every entry has a frame with its state, and every frame an entry.       *)
LEMMA EntriesAreFrames ==
  ASSUME FramesAreOnTheStack, NEW t \in Threads
  PROVE  /\ \A n \in DOMAIN stack[t] : \E i \in Frames(t) : calls[t][i].obj = stack[t][n]
         /\ \A i \in Frames(t) : \E n \in DOMAIN stack[t] : calls[t][i].obj = stack[t][n]
BY FramesFit DEF Fits, Matched, Live, Frames

(* ds has the frames that cs has, where place says, and others where       *)
(* nothing is framed.                                                      *)
Carries(cs, ds, place, D) ==
  /\ D \subseteq DOMAIN ds
  /\ place \in [D -> DOMAIN cs]
  /\ \A i, j \in D : i < j => place[i] < place[j]
  /\ \A i \in D : ds[i].kind = cs[place[i]].kind /\ ds[i].obj = cs[place[i]].obj

(* The vectors still fit if no frame comes or goes.                        *)
LEMMA FitsSame ==
  ASSUME NEW s, NEW cs, NEW ds, NEW place, NEW D, NEW inOrder,
         DOMAIN ds \subseteq Nat, DOMAIN cs \subseteq Nat, DOMAIN s \subseteq Nat,
         Fits(s, cs, inOrder), Carries(cs, ds, place, D),
         Live(ds) \subseteq D,
         \A i \in Live(cs) : \E j \in D : place[j] = i
  PROVE  Fits(s, ds, inOrder)
<1>1. PICK f : Matched(s, cs, f) /\ (inOrder => Sorted(s, f))
  BY DEF Fits
<1>. DEFINE g == [n \in DOMAIN s |-> CHOOSE j \in D : place[j] = f[n]]
<1>2. \A n \in DOMAIN s : g[n] \in D /\ place[g[n]] = f[n]
  BY <1>1 DEF Matched
<1>3. DOMAIN g = DOMAIN s /\ g = [n \in DOMAIN s |-> g[n]]
  OBVIOUS
<1>. HIDE DEF g
<1>4. \A n \in DOMAIN s : g[n] \in Live(ds)
  BY <1>1, <1>2 DEF Matched, Live, Carries, Framed
<1>5. g \in [DOMAIN s -> Live(ds)]
  BY <1>3, <1>4
<1>6. \A i, j \in D : place[i] = place[j] => i = j
  BY DEF Carries
<1>7. \A i \in Live(ds) : \E n \in DOMAIN s : g[n] = i
  <2>. SUFFICES ASSUME NEW i \in Live(ds) PROVE \E n \in DOMAIN s : g[n] = i
    OBVIOUS
  <2>1. i \in D /\ place[i] \in Live(cs)
    BY DEF Live, Carries, Framed
  <2>2. PICK n \in DOMAIN s : f[n] = place[i]
    BY <1>1, <2>1 DEF Matched
  <2>. QED
    BY <1>2, <1>6, <2>1, <2>2
<1>8. \A n \in DOMAIN s : s[n] = ds[g[n]].obj
  BY <1>1, <1>2 DEF Matched, Carries
<1>9. \A m, n \in DOMAIN s : m # n => g[m] # g[n]
  BY <1>1, <1>2 DEF Matched
<1>10. Matched(s, ds, g)
  BY <1>5, <1>7, <1>8, <1>9 DEF Matched
<1>11. inOrder => Sorted(s, g)
  <2>. SUFFICES ASSUME inOrder, NEW m \in DOMAIN s, NEW n \in DOMAIN s, m < n
                PROVE  g[m] < g[n]
    BY DEF Sorted
  <2>1. place[g[m]] < place[g[n]]
    BY <1>1, <1>2 DEF Sorted
  <2>2. g[m] \in D /\ g[n] \in D /\ g[m] \in Nat /\ g[n] \in Nat
    BY <1>2 DEF Carries
  <2>3. place[g[m]] \in Nat /\ place[g[n]] \in Nat
    BY <2>2 DEF Carries
  <2>4. CASE g[n] < g[m]
    <3>1. place[g[n]] < place[g[m]]
      BY <2>2, <2>4 DEF Carries
    <3>. QED
      BY <2>1, <2>3, <3>1
  <2>5. g[m] # g[n]
    BY <2>1, <2>3
  <2>. QED
    BY <2>2, <2>4, <2>5
<1>. QED
  BY <1>10, <1>11 DEF Fits

(* A frame's constructor keeps them in step.                               *)
LEMMA FitsPush ==
  ASSUME NEW s \in Seq(Objects), NEW cs \in Seq(CallType), NEW ds, NEW o \in Objects,
         NEW inOrder,
         Fits(s, cs, inOrder), DOMAIN ds = 1 .. Len(cs) + 1,
         \A i \in DOMAIN cs : ds[i].kind = cs[i].kind /\ ds[i].obj = cs[i].obj,
         Framed(ds[Len(cs) + 1]), ds[Len(cs) + 1].obj = o
  PROVE  Fits(Append(s, o), ds, inOrder)
<1>1. PICK f : Matched(s, cs, f) /\ (inOrder => Sorted(s, f))
  BY DEF Fits
<1>. DEFINE top == Len(s) + 1
            new == Len(cs) + 1
            r == Append(s, o)
            g == [n \in 1 .. top |-> IF n = top THEN new ELSE f[n]]
<1>2. /\ Len(s) \in Nat /\ DOMAIN s = 1 .. Len(s)
      /\ Len(cs) \in Nat /\ DOMAIN cs = 1 .. Len(cs)
  OBVIOUS
<1>3. DOMAIN r = 1 .. top /\ r[top] = o /\ \A n \in DOMAIN s : r[n] = s[n]
  BY <1>2, AppendProperties
<1>4. Live(ds) = Live(cs) \union {new} /\ new \notin Live(cs)
  BY <1>2 DEF Live, Framed
<1>5. /\ g[top] = new /\ \A n \in DOMAIN s : g[n] = f[n] /\ n # top
      /\ DOMAIN s \union {top} = 1 .. top /\ top \notin DOMAIN s
  BY <1>2
<1>6. g = [n \in 1 .. top |-> g[n]]
  OBVIOUS
<1>. HIDE DEF g, r, top, new
<1>7. \A n \in DOMAIN s : f[n] \in Live(cs) /\ f[n] # new
  BY <1>1, <1>4 DEF Matched
<1>8. g \in [DOMAIN r -> Live(ds)]
  BY <1>3, <1>4, <1>5, <1>6, <1>7
<1>9. \A m, n \in DOMAIN r : m # n => g[m] # g[n]
  BY <1>1, <1>3, <1>5, <1>7 DEF Matched
<1>10. \A i \in Live(ds) : \E n \in DOMAIN r : g[n] = i
  BY <1>1, <1>3, <1>4, <1>5 DEF Matched
<1>11. \A n \in DOMAIN r : r[n] = ds[g[n]].obj
  <2>1. ds[new].obj = o
    BY DEF new
  <2>2. \A n \in DOMAIN s : f[n] \in DOMAIN cs /\ ds[f[n]].obj = s[n]
    BY <1>1 DEF Matched, Live
  <2>. QED
    BY <1>3, <1>5, <2>1, <2>2
<1>12. inOrder => Sorted(r, g)
  <2>. SUFFICES ASSUME inOrder, NEW m \in DOMAIN r, NEW n \in DOMAIN r, m < n
                PROVE  g[m] < g[n]
    BY DEF Sorted
  <2>1. m \in DOMAIN s
    BY <1>2, <1>3, <1>5 DEF top
  <2>2. CASE n = top
    <3>1. f[m] \in DOMAIN cs
      BY <1>1, <2>1 DEF Matched, Live
    <3>. QED
      BY <1>2, <1>5, <2>1, <2>2, <3>1 DEF new
  <2>3. CASE n \in DOMAIN s
    BY <1>1, <1>5, <2>1, <2>3 DEF Sorted
  <2>. QED
    BY <1>3, <1>5, <2>2, <2>3
<1>13. Matched(r, ds, g)
  BY <1>8, <1>9, <1>10, <1>11 DEF Matched
<1>. QED
  BY <1>12, <1>13 DEF Fits, r

(* A frame's destructor keeps them in step too.  It takes the last entry   *)
(* with the frame's state, which may have been that of another frame with  *)
(* the same state: the two then change places.                             *)
LEMMA FitsPop ==
  ASSUME NEW s \in Seq(Objects), NEW cs \in Seq(CallType), NEW i \in Live(cs),
         NEW before, NEW after,
         Fits(s, cs, before),
         after => \/ Popped(s, cs[i].obj) = <<>>
                  \/ before /\ \A l \in Live(cs) : l <= i
  PROVE  Fits(Popped(s, cs[i].obj), [cs EXCEPT ![i].kind = "batch"], after)
<1>. DEFINE es == [cs EXCEPT ![i].kind = "batch"]
<1>1. PICK f : Matched(s, cs, f) /\ (before => Sorted(s, f))
  BY DEF Fits
<1>2. PICK m \in DOMAIN s : f[m] = i
  BY <1>1 DEF Matched
<1>3. s[m] = cs[i].obj
  BY <1>1, <1>2 DEF Matched
<1>4. PICK k \in DOMAIN s : /\ s[k] = s[m]
                            /\ \A n \in DOMAIN s : s[n] = s[m] => n <= k
                            /\ Popped(s, s[m]) = RemoveAt(s, k)
  BY PoppedLast
<1>. DEFINE r == RemoveAt(s, k)
            From(n) == IF n < k THEN n ELSE n + 1
            Swapped(n) == IF n = m THEN f[k] ELSE f[n]
            g == [n \in DOMAIN r |-> Swapped(From(n))]
<1>5. Len(s) \in Nat /\ DOMAIN s = 1 .. Len(s) /\ k \in 1 .. Len(s) /\ m \in 1 .. Len(s)
  OBVIOUS
<1>6. DOMAIN r = 1 .. Len(s) - 1 /\ \A n \in DOMAIN r : r[n] = s[From(n)]
  BY RemoveAtProperties
<1>7. /\ \A n \in DOMAIN r : From(n) \in DOMAIN s /\ From(n) # k
      /\ \A a, b \in DOMAIN r : a < b => From(a) < From(b)
      /\ \A a, b \in DOMAIN r : a # b => From(a) # From(b)
  BY <1>5, <1>6
<1>8. \A l \in DOMAIN s : l # k => \E n \in DOMAIN r : From(n) = l
  <2>. SUFFICES ASSUME NEW l \in DOMAIN s, l # k PROVE \E n \in DOMAIN r : From(n) = l
    OBVIOUS
  <2>1. CASE l < k
    BY <1>5, <1>6, <2>1
  <2>2. CASE l > k
    <3>1. l - 1 \in DOMAIN r /\ From(l - 1) = l
      BY <1>5, <1>6, <2>2
    <3>. QED
      BY <3>1
  <2>. QED
    BY <1>5, <2>1, <2>2
<1>9. Live(es) = Live(cs) \ {i} /\ \A l \in Live(es) : es[l] = cs[l]
  <2>1. DOMAIN es = DOMAIN cs /\ es[i].kind = "batch" /\ \A l \in DOMAIN cs : l # i => es[l] = cs[l]
    <3>1. cs \in [1 .. Len(cs) -> CallType] /\ DOMAIN cs = 1 .. Len(cs) /\ i \in DOMAIN cs
      BY DEF Live
    <3>2. \A c \in CallType : [c EXCEPT !.kind = "batch"].kind = "batch"
      BY DEF CallType
    <3>. QED
      BY <3>1, <3>2
  <2>. HIDE DEF es
  <2>. QED
    BY <2>1 DEF Live, Framed
<1>10. /\ \A n \in DOMAIN s : n # k => Swapped(n) \in Live(cs) \ {i}
       /\ \A a, b \in DOMAIN s : a # b /\ a # k /\ b # k => Swapped(a) # Swapped(b)
       /\ \A l \in Live(cs) : l # i => \E n \in DOMAIN s : n # k /\ Swapped(n) = l
       /\ \A n \in DOMAIN s : n # k => s[n] = cs[Swapped(n)].obj
  <2>1. /\ \A n \in DOMAIN s : f[n] \in Live(cs) /\ (f[n] = i => n = m)
        /\ \A a, b \in DOMAIN s : a # b => f[a] # f[b]
        /\ \A l \in Live(cs) : \E n \in DOMAIN s : f[n] = l
        /\ \A n \in DOMAIN s : s[n] = cs[f[n]].obj
    BY <1>1, <1>2 DEF Matched
  <2>2. \A n \in DOMAIN s : n # k => Swapped(n) \in Live(cs) \ {i}
    BY <2>1
  <2>3. \A a, b \in DOMAIN s : a # b /\ a # k /\ b # k => Swapped(a) # Swapped(b)
    BY <2>1
  <2>4. ASSUME NEW l \in Live(cs), l # i PROVE \E n \in DOMAIN s : n # k /\ Swapped(n) = l
    <3>1. PICK n \in DOMAIN s : f[n] = l
      BY <2>1
    <3>2. CASE n = k
      BY <1>2, <2>4, <3>1, <3>2
    <3>3. CASE n # k
      BY <1>2, <2>4, <3>1, <3>3
    <3>. QED
      BY <3>2, <3>3
  <2>5. \A n \in DOMAIN s : n # k => s[n] = cs[Swapped(n)].obj
    BY <1>4, <2>1
  <2>. QED
    BY <2>2, <2>3, <2>4, <2>5
<1>11. \A n \in DOMAIN r : g[n] = Swapped(From(n))
  OBVIOUS
<1>12. DOMAIN g = DOMAIN r /\ g = [n \in DOMAIN r |-> g[n]]
  OBVIOUS
<1>. HIDE DEF r, From, Swapped, g, es
<1>13. g \in [DOMAIN r -> Live(es)]
  BY <1>7, <1>9, <1>10, <1>11, <1>12
<1>14. \A a, b \in DOMAIN r : a # b => g[a] # g[b]
  BY <1>7, <1>10, <1>11
<1>15. \A l \in Live(es) : \E n \in DOMAIN r : g[n] = l
  BY <1>8, <1>9, <1>10, <1>11
<1>16. \A n \in DOMAIN r : r[n] = es[g[n]].obj
  BY <1>6, <1>7, <1>9, <1>10, <1>11
<1>17. Matched(r, es, g)
  BY <1>13, <1>14, <1>15, <1>16 DEF Matched
<1>18. Popped(s, cs[i].obj) = r
  BY <1>3, <1>4 DEF r
<1>19. after => Sorted(r, g)
  <2>. SUFFICES ASSUME after PROVE Sorted(r, g)
    OBVIOUS
  <2>1. CASE r = <<>>
    <3>1. DOMAIN r = {}
      BY <2>1
    <3>. QED
      BY <3>1 DEF Sorted
  <2>2. CASE before /\ \A l \in Live(cs) : l <= i
    <3>1. \A n \in DOMAIN s : n > m => f[n] > i
      BY <1>1, <1>2, <2>2 DEF Sorted
    <3>2. \A n \in DOMAIN s : f[n] \in Nat /\ f[n] <= i /\ i \in Nat
      <4>1. Live(cs) \subseteq Nat
        BY DEF Live
      <4>. QED
        BY <1>1, <2>2, <4>1 DEF Matched
    <3>3. m = Len(s) /\ k = m
      BY <1>4, <1>5, <3>1, <3>2
    <3>4. \A n \in DOMAIN r : g[n] = f[n] /\ n \in DOMAIN s
      BY <1>5, <1>6, <1>11, <3>3 DEF From, Swapped
    <3>. QED
      BY <1>1, <2>2, <3>4 DEF Sorted
  <2>. QED
    BY <1>18, <2>1, <2>2
<1>. QED
  BY <1>17, <1>18, <1>19 DEF Fits, es

-----------------------------------------------------------------------------
(* What the actions do to the calls.                                       *)

(* d is the call c after a step that leaves it in progress.                *)
Stays(c, d) ==
  /\ d.kind = c.kind /\ d.engine = c.engine /\ d.obj = c.obj /\ d.left = c.left
  /\ d.kept => c.kept
  /\ d.alone => c.alone

(* The states engines hold, those of callers and shared ones are apart.    *)
LEMMA ObjectsApart ==
  /\ Values \intersect Slots = {}
  /\ (Lent \union Heap) \intersect (Values \union Slots) = {} /\ Lent \intersect Heap = {}
  /\ None \notin Objects
  /\ \A e \in Engines, t \in Threads : Slot(e, t) \in Slots
  /\ \A e \in Engines : Value(e) \in Values
  /\ \A e, f, t, u : Slot(e, t) = Slot(f, u) => e = f /\ t = u
<1>1. Values \intersect Slots = {}
  <2>. SUFFICES ASSUME NEW e \in Engines, NEW f \in Engines, NEW t \in Threads,
                       Value(e) = Slot(f, t)
                PROVE  FALSE
    BY DEF Values, Slots
  <2>1. Value(e)[1] = "value" /\ Slot(f, t)[1] = "slot"
    BY DEF Value, Slot
  <2>. QED
    BY <2>1
<1>2. \A e, f, t, u : Slot(e, t) = Slot(f, u) => e = f /\ t = u
  BY DEF Slot
<1>. QED
  BY <1>1, <1>2, StateAssumption DEF Values, Slots

(* A storage's active state is one of its own.                             *)
LEMMA ActiveIs ==
  ASSUME TypeOK, NEW e \in Engines, NEW t \in Threads, storage[e] # "borrowed"
  PROVE  /\ Active(e, t) \in Objects
         /\ Active(e, t) \in Values => Active(e, t) = Value(e)
         /\ Active(e, t) \in Slots =>
              Active(e, t) = Slot(e, t) /\ storage[e] = "thread_local_owned"
         /\ Active(e, t) \in Heap => e \in DOMAIN heap /\ heap[e] = Active(e, t)
         /\ storage[e] = "reset_per_run" => Active(e, t) = Value(e)
<1>1. storage[e] \in Policies
  BY StateAssumption DEF TypeOK
<1>2. CASE storage[e] \in {"owned", "reset_per_run"}
  <2>1. Active(e, t) = Value(e)
    BY <1>2 DEF Active
  <2>. QED
    BY <2>1, ObjectsApart DEF Objects
<1>3. CASE storage[e] = "thread_local_owned"
  <2>1. Active(e, t) = Slot(e, t)
    BY <1>3 DEF Active
  <2>. QED
    BY <1>3, <2>1, ObjectsApart DEF Objects
<1>4. CASE storage[e] = "shared"
  <2>1. Active(e, t) = heap[e] /\ e \in DOMAIN heap /\ heap[e] \in Heap
    BY <1>4 DEF Active, TypeOK
  <2>. QED
    BY <1>4, <2>1, ObjectsApart DEF Objects
<1>. QED
  BY <1>1, <1>2, <1>3, <1>4 DEF Policies

FrameCall(kind, e, o, b) == [Call(kind, e, o) EXCEPT !.alone = b]

(* A frame as it begins.                                                   *)
LEMMA FrameTyped ==
  ASSUME NEW kind \in Kinds, NEW e \in Engines \union {None},
         NEW o \in Objects \union {None}, NEW b \in BOOLEAN
  PROVE  LET c == FrameCall(kind, e, o, b)
         IN  c \in CallType /\ c.kind = kind /\ c.engine = e /\ c.obj = o /\ c.alone = b /\ c.writes = 0
<1>. DEFINE c == [kind |-> kind, engine |-> e, obj |-> o, left |-> 0, caller |-> None,
                  writes |-> 0, alone |-> b, kept |-> TRUE]
<1>1. ASSUME NEW d, d = FrameCall(kind, e, o, b)
      PROVE  d = c
  BY <1>1 DEF FrameCall, Call
<1>2. MaxBatch \in Nat
  BY StateAssumption
<1>3. c \in CallType /\ c.kind = kind /\ c.engine = e /\ c.obj = o /\ c.alone = b /\ c.writes = 0
  BY <1>2 DEF CallType
<1>. QED
  BY <1>1, <1>3

BatchCall(kind, e, o, n) == [Call(kind, e, o) EXCEPT !.left = n]

(* A batch has all of its inputs left.                                     *)
LEMMA BatchTyped ==
  ASSUME NEW kind \in Kinds, NEW e \in Engines \union {None},
         NEW o \in Objects \union {None}, NEW n \in 0 .. MaxBatch
  PROVE  LET c == BatchCall(kind, e, o, n)
         IN  c \in CallType /\ c.kind = kind /\ c.engine = e /\ c.obj = o /\ c.left = n
<1>. DEFINE c == [kind |-> kind, engine |-> e, obj |-> o, left |-> n, caller |-> None,
                  writes |-> 0, alone |-> TRUE, kept |-> TRUE]
<1>1. ASSUME NEW d, d = BatchCall(kind, e, o, n)
      PROVE  d = c
  BY <1>1 DEF BatchCall, Call
<1>2. MaxBatch \in Nat
  BY StateAssumption
<1>3. c \in CallType /\ c.kind = kind /\ c.engine = e /\ c.obj = o /\ c.left = n
  BY <1>2 DEF CallType
<1>. QED
  BY <1>1, <1>3

CaseCall(kind, e, o, t) == [Call(kind, e, o) EXCEPT !.caller = t]

(* A case knows whose it is.                                               *)
LEMMA CaseTyped ==
  ASSUME NEW kind \in Kinds, NEW e \in Engines \union {None},
         NEW o \in Objects \union {None}, NEW t \in Threads
  PROVE  LET c == CaseCall(kind, e, o, t)
         IN  c \in CallType /\ c.kind = kind /\ c.engine = e /\ c.obj = o
<1>. DEFINE c == [kind |-> kind, engine |-> e, obj |-> o, left |-> 0, caller |-> t,
                  writes |-> 0, alone |-> TRUE, kept |-> TRUE]
<1>1. ASSUME NEW d, d = CaseCall(kind, e, o, t)
      PROVE  d = c
  BY <1>1 DEF CaseCall, Call
<1>2. MaxBatch \in Nat
  BY StateAssumption
<1>3. c \in CallType /\ c.kind = kind /\ c.engine = e /\ c.obj = o
  BY <1>2 DEF CallType
<1>. QED
  BY <1>1, <1>3

(* The calls once something else uses a state.                             *)
LEMMA CrowdProperties ==
  ASSUME Vectors, NEW o
  PROVE  /\ Crowd(calls, o) \in [Threads -> Seq(CallType)]
         /\ \A u \in Threads :
              /\ Len(Crowd(calls, o)[u]) = Len(calls[u])
              /\ \A i \in DOMAIN calls[u] :
                   /\ Stays(calls[u][i], Crowd(calls, o)[u][i])
                   /\ o \in Values /\ calls[u][i].obj = o => ~Crowd(calls, o)[u][i].alone
                   /\ Crowd(calls, o)[u][i].alone
                        => Crowd(calls, o)[u][i].writes = calls[u][i].writes
<1>. DEFINE hit(c) == o \in Values /\ c.obj = o
            after(c) == IF hit(c) THEN [c EXCEPT !.alone = FALSE, !.writes = 0] ELSE c
            vec(cs) == [i \in DOMAIN cs |-> after(cs[i])]
<1>1. ASSUME NEW c \in CallType
      PROVE  /\ after(c) \in CallType
             /\ Stays(c, after(c))
             /\ hit(c) => ~after(c).alone
             /\ after(c).alone => after(c).writes = c.writes
  <2>1. [c EXCEPT !.alone = FALSE, !.writes = 0] \in CallType
    BY DEF CallType
  <2>2. CASE hit(c)
    BY <2>1, <2>2 DEF CallType, Stays
  <2>3. CASE ~hit(c)
    BY <2>3 DEF CallType, Stays
  <2>. QED
    BY <2>2, <2>3
<1>2. Crowd(calls, o) = [u \in Threads |-> vec(calls[u])]
  BY DEF Crowd
<1>3. ASSUME NEW u \in Threads
      PROVE  /\ vec(calls[u]) \in Seq(CallType)
             /\ Len(vec(calls[u])) = Len(calls[u])
             /\ \A i \in DOMAIN calls[u] : /\ vec(calls[u])[i] = after(calls[u][i])
                                           /\ calls[u][i] \in CallType
  <2>. HIDE DEF after
  <2>1. calls[u] \in Seq(CallType) /\ Len(calls[u]) \in Nat
        /\ DOMAIN calls[u] = 1 .. Len(calls[u])
    BY DEF Vectors
  <2>2. vec(calls[u]) \in [1 .. Len(calls[u]) -> CallType]
    BY <1>1, <2>1
  <2>. QED
    BY <2>1, <2>2, IsASeq, LenProperties
<1>. HIDE DEF after, vec, hit
<1>4. Crowd(calls, o) \in [Threads -> Seq(CallType)]
  BY <1>2, <1>3
<1>5. \A u \in Threads : Crowd(calls, o)[u] = vec(calls[u])
  BY <1>2
<1>. QED
  BY <1>1, <1>3, <1>4, <1>5 DEF hit

(* One more call in a thread.                                              *)
Grown(t) ==
  /\ calls' \in [Threads -> Seq(CallType)]
  /\ \A u \in Threads :
       /\ DOMAIN calls[u] = 1 .. Len(calls[u]) /\ Len(calls[u]) \in Nat
       /\ DOMAIN calls'[u] = IF u = t THEN 1 .. Len(calls[u]) + 1 ELSE DOMAIN calls[u]
       /\ \A i \in DOMAIN calls[u] :
            /\ Stays(calls[u][i], calls'[u][i])
            /\ calls'[u][i].alone => calls'[u][i].writes = calls[u][i].writes

New(t) == calls'[t][Len(calls[t]) + 1]

(* Vectors that are appended to.                                           *)
LEMMA GrownBy ==
  ASSUME Vectors, NEW t \in Threads, NEW c \in CallType,
         NEW ks \in [Threads -> Seq(CallType)],
         \A u \in Threads :
           /\ Len(ks[u]) = Len(calls[u])
           /\ \A i \in DOMAIN calls[u] :
                /\ Stays(calls[u][i], ks[u][i])
                /\ ks[u][i].alone => ks[u][i].writes = calls[u][i].writes,
         calls' = [ks EXCEPT ![t] = Append(@, c)]
  PROVE  /\ Grown(t) /\ New(t) = c
         /\ \A u \in Threads : \A i \in DOMAIN calls[u] : calls'[u][i] = ks[u][i]
<1>1. /\ calls' \in [Threads -> Seq(CallType)]
      /\ calls'[t] = Append(ks[t], c) /\ \A u \in Threads : u # t => calls'[u] = ks[u]
  BY AppendProperties
<1>2. \A u \in Threads : /\ calls[u] \in Seq(CallType) /\ ks[u] \in Seq(CallType)
                         /\ Len(ks[u]) \in Nat
                         /\ DOMAIN calls[u] = 1 .. Len(ks[u]) /\ DOMAIN ks[u] = 1 .. Len(ks[u])
  BY DEF Vectors
<1>3. /\ DOMAIN calls'[t] = 1 .. Len(ks[t]) + 1
      /\ \A i \in DOMAIN ks[t] : calls'[t][i] = ks[t][i]
      /\ calls'[t][Len(ks[t]) + 1] = c
  BY <1>1, <1>2, AppendProperties
<1>4. \A u \in Threads : \A i \in DOMAIN calls[u] : calls'[u][i] = ks[u][i]
  BY <1>1, <1>2, <1>3
<1>5. New(t) = c
  BY <1>3 DEF New
<1>. QED
  BY <1>1, <1>2, <1>3, <1>4, <1>5 DEF Grown

(* A frame's constructor, and what it knows of the others.                 *)
LEMMA EnterEffect ==
  ASSUME Vectors, NEW t \in Threads, NEW kind \in {"run", "frame"},
         NEW e \in Engines \union {None}, NEW o \in Objects, Enter(t, kind, e, o)
  PROVE  /\ Grown(t)
         /\ New(t).kind = kind /\ New(t).engine = e /\ New(t).obj = o /\ New(t).writes = 0
         /\ o \in Values => \A u \in Threads : \A i \in DOMAIN calls[u] :
              calls[u][i].obj = o => ~calls'[u][i].alone /\ ~New(t).alone
         /\ stack' = [stack EXCEPT ![t] = Append(@, o)]
<1>. DEFINE b == Alone(o)
            c == FrameCall(kind, e, o, b)
<1>1. /\ c \in CallType
      /\ c.kind = kind /\ c.engine = e /\ c.obj = o /\ c.alone = b /\ c.writes = 0
  <2>1. b \in BOOLEAN
    BY DEF Alone
  <2>2. kind \in Kinds /\ o \in Objects \union {None}
    BY DEF Kinds
  <2>. HIDE DEF b
  <2>. QED
    BY <2>1, <2>2, FrameTyped
<1>2. calls' = [Crowd(calls, o) EXCEPT ![t] = Append(@, c)]
  BY DEF Enter, FrameCall
<1>. HIDE DEF c
<1>3. /\ Grown(t) /\ New(t) = c
      /\ \A u \in Threads : \A i \in DOMAIN calls[u] : calls'[u][i] = Crowd(calls, o)[u][i]
  <2>. DEFINE ks == Crowd(calls, o)
  <2>1. /\ ks \in [Threads -> Seq(CallType)]
        /\ \A u \in Threads :
             /\ Len(ks[u]) = Len(calls[u])
             /\ \A i \in DOMAIN calls[u] :
                  /\ Stays(calls[u][i], ks[u][i])
                  /\ ks[u][i].alone => ks[u][i].writes = calls[u][i].writes
    BY CrowdProperties
  <2>2. calls' = [ks EXCEPT ![t] = Append(@, c)]
    BY <1>2
  <2>. HIDE DEF ks
  <2>3. /\ Grown(t) /\ New(t) = c
        /\ \A u \in Threads : \A i \in DOMAIN calls[u] : calls'[u][i] = ks[u][i]
    BY <1>1, <2>1, <2>2, GrownBy
  <2>. QED
    BY <2>3 DEF ks
<1>4. o \in Values => \A u \in Threads : \A i \in DOMAIN calls[u] :
        calls[u][i].obj = o => ~calls'[u][i].alone /\ ~c.alone
  BY <1>1, <1>3, CrowdProperties DEF Alone
<1>. QED
  BY <1>1, <1>3, <1>4 DEF Enter

(* A batch begins, or a case.                                              *)
LEMMA AddEffect ==
  ASSUME Vectors, NEW t \in Threads, NEW c \in CallType,
         calls' = [calls EXCEPT ![t] = Append(@, c)]
  PROVE  /\ Grown(t) /\ New(t) = c
         /\ \A u \in Threads : \A i \in DOMAIN calls[u] : calls'[u][i] = calls[u][i]
<1>1. \A u \in Threads : \A i \in DOMAIN calls[u] : Stays(calls[u][i], calls[u][i])
  BY DEF Stays
<1>2. calls \in [Threads -> Seq(CallType)]
  BY DEF Vectors
<1>. QED
  BY <1>1, <1>2, GrownBy

(* d is the call c but for the inputs it has left.                         *)
Resumes(c, d) ==
  /\ d.kind = c.kind /\ d.engine = c.engine /\ d.obj = c.obj
  /\ d.kept = c.kept /\ d.alone = c.alone /\ d.writes = c.writes

(* ds has the calls of cs that are not gone, where place says.             *)
Remains(cs, ds, gone, place) ==
  /\ ds \in Seq(CallType)
  /\ place \in [DOMAIN ds -> DOMAIN cs \ gone]
  /\ \A i, j \in DOMAIN ds : i < j => place[i] < place[j]
  /\ \A l \in DOMAIN cs \ gone : \E j \in DOMAIN ds : place[j] = l
  /\ \A j \in DOMAIN ds : Resumes(cs[place[j]], ds[j])

Skip(cs, k) == [j \in 1 .. Len(cs) - 1 |-> IF j < k THEN j ELSE j + 1]

(* A call that ends.                                                       *)
LEMMA RemainsOne ==
  ASSUME NEW cs \in Seq(CallType), NEW k \in DOMAIN cs
  PROVE  /\ Remains(cs, RemoveAt(cs, k), {k}, Skip(cs, k))
         /\ \A j \in DOMAIN RemoveAt(cs, k) : RemoveAt(cs, k)[j] = cs[Skip(cs, k)[j]]
<1>. DEFINE ds == RemoveAt(cs, k)
            place == Skip(cs, k)
<1>1. Len(cs) \in Nat /\ DOMAIN cs = 1 .. Len(cs) /\ k \in 1 .. Len(cs)
  OBVIOUS
<1>2. /\ ds \in Seq(CallType) /\ DOMAIN ds = 1 .. Len(cs) - 1
      /\ \A j \in DOMAIN ds : ds[j] = IF j < k THEN cs[j] ELSE cs[j + 1]
  BY RemoveAtProperties
<1>3. /\ place = [j \in DOMAIN ds |-> place[j]]
      /\ \A j \in DOMAIN ds : place[j] = IF j < k THEN j ELSE j + 1
  BY <1>2 DEF Skip
<1>. HIDE DEF ds, place
<1>4. /\ place \in [DOMAIN ds -> DOMAIN cs \ {k}]
      /\ \A i, j \in DOMAIN ds : i < j => place[i] < place[j]
      /\ \A j \in DOMAIN ds : ds[j] = cs[place[j]]
  BY <1>1, <1>2, <1>3
<1>5. ASSUME NEW l \in DOMAIN cs \ {k} PROVE \E j \in DOMAIN ds : place[j] = l
  <2>1. CASE l < k
    BY <1>1, <1>2, <1>3, <2>1
  <2>2. CASE l > k
    <3>1. l - 1 \in DOMAIN ds /\ place[l - 1] = l
      BY <1>1, <1>2, <1>3, <2>2
    <3>. QED
      BY <3>1
  <2>. QED
    BY <1>1, <2>1, <2>2
<1>6. Remains(cs, ds, {k}, place)
  BY <1>2, <1>4, <1>5 DEF Remains, Resumes
<1>. QED
  BY <1>4, <1>6 DEF ds, place

(* And another one.                                                        *)
LEMMA RemainsTwo ==
  ASSUME NEW cs \in Seq(CallType), NEW ds, NEW gone, NEW place,
         Remains(cs, ds, gone, place), NEW b \in DOMAIN ds
  PROVE  Remains(cs, RemoveAt(ds, b), gone \union {place[b]},
                 [j \in DOMAIN RemoveAt(ds, b) |-> place[Skip(ds, b)[j]]])
<1>. DEFINE es == RemoveAt(ds, b)
            skip == Skip(ds, b)
            both == [j \in DOMAIN es |-> place[skip[j]]]
<1>1. Remains(ds, es, {b}, skip)
  BY RemainsOne DEF Remains
<1>2. DOMAIN es \subseteq Nat /\ DOMAIN ds \subseteq Nat
  BY <1>1 DEF Remains
<1>3. both = [j \in DOMAIN es |-> both[j]] /\ \A j \in DOMAIN es : both[j] = place[skip[j]]
  OBVIOUS
<1>. HIDE DEF es, skip, both
<1>4. \A i, j \in DOMAIN ds : place[i] = place[j] => i = j
  <2>1. \A i \in DOMAIN ds : place[i] \in Nat
    BY DEF Remains
  <2>2. \A i, j \in DOMAIN ds : i < j => place[i] # place[j]
    BY <2>1 DEF Remains
  <2>. QED
    BY <1>2, <2>2
<1>5. \A j \in DOMAIN es : skip[j] \in DOMAIN ds /\ skip[j] # b
  BY <1>1 DEF Remains
<1>6. both \in [DOMAIN es -> DOMAIN cs \ (gone \union {place[b]})]
  BY <1>3, <1>4, <1>5 DEF Remains
<1>7. \A i, j \in DOMAIN es : i < j => both[i] < both[j]
  BY <1>1, <1>3, <1>5 DEF Remains
<1>8. ASSUME NEW l \in DOMAIN cs \ (gone \union {place[b]})
      PROVE  \E j \in DOMAIN es : both[j] = l
  <2>1. PICK i \in DOMAIN ds : place[i] = l
    BY DEF Remains
  <2>2. i \in DOMAIN ds \ {b}
    BY <2>1
  <2>3. PICK j \in DOMAIN es : skip[j] = i
    BY <1>1, <2>2 DEF Remains
  <2>. QED
    BY <1>3, <2>1, <2>3
<1>9. \A j \in DOMAIN es : Resumes(cs[both[j]], es[j])
  BY <1>1, <1>3, <1>5 DEF Remains, Resumes
<1>10. Remains(cs, es, gone \union {place[b]}, both)
  BY <1>1, <1>6, <1>7, <1>8, <1>9 DEF Remains
<1>. QED
  BY <1>10 DEF both, es, skip

(* What ends in a thread when a call or a frame of it ends.                *)
Ended(t, gone, place) ==
  /\ calls' \in [Threads -> Seq(CallType)]
  /\ \A u \in Threads : u # t => calls'[u] = calls[u]
  /\ Remains(calls[t], calls'[t], gone, place)

(* Inputs are only taken from a batch with nothing above it.               *)
SameLeft(t, place) ==
  \A j \in DOMAIN calls'[t] :
    \/ calls'[t][j].left = calls[t][place[j]].left
    \/ \A l \in DOMAIN calls'[t] : l > j => ~IsCall(calls'[t][l])

(* A batch or a case ends, or a frame is dropped.                          *)
LEMMA OneEnds ==
  ASSUME Vectors, NEW t \in Threads, NEW k \in DOMAIN calls[t],
         calls' = [calls EXCEPT ![t] = RemoveAt(calls[t], k)]
  PROVE  \E place : Ended(t, {k}, place) /\ SameLeft(t, place)
<1>1. calls[t] \in Seq(CallType) /\ calls \in [Threads -> Seq(CallType)]
  BY DEF Vectors
<1>2. calls'[t] = RemoveAt(calls[t], k) /\ \A u \in Threads : u # t => calls'[u] = calls[u]
  BY <1>1
<1>3. /\ Remains(calls[t], calls'[t], {k}, Skip(calls[t], k))
      /\ \A j \in DOMAIN calls'[t] : calls'[t][j] = calls[t][Skip(calls[t], k)[j]]
  BY <1>1, <1>2, RemainsOne
<1>4. calls' \in [Threads -> Seq(CallType)]
  BY <1>1, RemoveAtProperties
<1>5. Ended(t, {k}, Skip(calls[t], k)) /\ SameLeft(t, Skip(calls[t], k))
  BY <1>2, <1>3, <1>4 DEF Ended, SameLeft
<1>. QED
  BY <1>5

(* A frame's destructor, whatever the rest of the calls.                   *)
LEMMA UnframeEffect ==
  ASSUME Vectors, ordered \in [Threads -> BOOLEAN], NEW t \in Threads,
         NEW i \in Live(calls[t]), NEW rest \in Seq(CallType), Unframe(t, i, rest)
  PROVE  /\ stack' = [stack EXCEPT ![t] = Popped(@, calls[t][i].obj)]
         /\ calls' = [calls EXCEPT ![t] = rest]
         /\ ordered' \in [Threads -> BOOLEAN]
         /\ \A u \in Threads : u # t => ordered'[u] = ordered[u]
         /\ ordered'[t] => \/ Popped(stack[t], calls[t][i].obj) = <<>>
                           \/ ordered[t] /\ \A l \in Live(calls[t]) : l <= i
<1>. DEFINE b == \/ stack'[t] = <<>>
                 \/ ordered[t] /\ ~ \E j \in i + 1 .. Len(calls[t]) : Framed(calls[t][j])
<1>1. b \in BOOLEAN
  OBVIOUS
<1>2. ordered' = [ordered EXCEPT ![t] = b]
  BY DEF Unframe
<1>3. b => \/ stack'[t] = <<>>
           \/ ordered[t] /\ \A l \in Live(calls[t]) : l <= i
  <2>1. DOMAIN calls[t] = 1 .. Len(calls[t]) /\ Len(calls[t]) \in Nat
    BY DEF Vectors
  <2>. QED
    BY <2>1 DEF Live
<1>. HIDE DEF b
<1>4. ordered' \in [Threads -> BOOLEAN] /\ ordered'[t] = b
      /\ \A u \in Threads : u # t => ordered'[u] = ordered[u]
  BY <1>1, <1>2
<1>5. stack' = [stack EXCEPT ![t] = Popped(@, calls[t][i].obj)]
      /\ calls' = [calls EXCEPT ![t] = rest]
  BY DEF Unframe
<1>6. stack'[t] = Popped(stack[t], calls[t][i].obj)
  BY <1>5 DEF Vectors
<1>. QED
  BY <1>3, <1>4, <1>5, <1>6

(* What a frame's end does besides.                                        *)
Unframes(t, i, gone, place) ==
  /\ Ended(t, gone, place) /\ SameLeft(t, place)
  /\ gone \intersect Live(calls[t]) = {i}
  /\ stack' = [stack EXCEPT ![t] = Popped(@, calls[t][i].obj)]
  /\ ordered' \in [Threads -> BOOLEAN]
  /\ \A u \in Threads : u # t => ordered'[u] = ordered[u]
  /\ ordered'[t] => \/ Popped(stack[t], calls[t][i].obj) = <<>>
                    \/ ordered[t] /\ \A l \in Live(calls[t]) : l <= i

(* An explicit frame is dropped.                                           *)
LEMMA DropEffect ==
  ASSUME TypeOK, Vectors, NEW t \in Threads, NEW i \in DOMAIN calls[t], DropFrame(t, i)
  PROVE  /\ \E place : Unframes(t, i, {i}, place)
         /\ i \in Live(calls[t])
<1>1. i \in Live(calls[t]) /\ calls[t] \in Seq(CallType)
  BY DEF DropFrame, Live, Framed, Vectors
<1>2. RemoveAt(calls[t], i) \in Seq(CallType)
  BY <1>1, RemoveAtProperties
<1>3. Unframe(t, i, RemoveAt(calls[t], i))
  BY DEF DropFrame
<1>4. /\ stack' = [stack EXCEPT ![t] = Popped(@, calls[t][i].obj)]
      /\ calls' = [calls EXCEPT ![t] = RemoveAt(calls[t], i)]
      /\ ordered' \in [Threads -> BOOLEAN]
      /\ \A u \in Threads : u # t => ordered'[u] = ordered[u]
      /\ ordered'[t] => \/ Popped(stack[t], calls[t][i].obj) = <<>>
                        \/ ordered[t] /\ \A l \in Live(calls[t]) : l <= i
  BY <1>1, <1>2, <1>3, UnframeEffect DEF TypeOK
<1>5. PICK place : Ended(t, {i}, place) /\ SameLeft(t, place)
  BY <1>4, OneEnds
<1>6. {i} \intersect Live(calls[t]) = {i}
  BY <1>1
<1>. QED
  BY <1>1, <1>4, <1>5, <1>6 DEF Unframes

(* A run ends, as the call of a stage or as an input of a batch.           *)
LEMMA LeaveEffect ==
  ASSUME TypeOK, Vectors, Batches, NEW t \in Threads, NEW throws \in BOOLEAN,
         Leave(t, throws)
  PROVE  /\ \E gone, place : Unframes(t, InCall(t), gone, place)
         /\ InCall(t) \in Live(calls[t]) /\ calls[t][InCall(t)].kind = "run"
<1>. DEFINE i == InCall(t)
            b == Below(t, i)
            inBatch == b # 0 /\ calls[t][b].kind = "batch"
            cs == calls[t]
            rest == RemoveAt(cs, i)
            all == IF ~inBatch THEN rest
                   ELSE IF throws THEN RemoveAt(rest, b)
                   ELSE [rest EXCEPT ![b].left = @ - 1]
<1>1. /\ i \in DOMAIN cs /\ IsCall(cs[i]) /\ cs[i].kind = "run"
      /\ \A j \in DOMAIN cs : IsCall(cs[j]) => j <= i
  <2>1. InKind(t) = "run"
    BY DEF Leave
  <2>2. i # 0 /\ cs[i].kind = "run"
    BY <2>1 DEF InKind
  <2>. QED
    BY <2>2, InnermostIsLast
<1>2. /\ b \in 0 .. i - 1 /\ (b # 0 => b \in DOMAIN cs)
      /\ \A j \in DOMAIN cs : j < i /\ IsCall(cs[j]) => j <= b
  BY <1>1, BelowIsNext
<1>3. Unframe(t, i, all)
  BY DEF Leave
<1>4. i \in Live(cs) /\ cs \in Seq(CallType) /\ calls \in [Threads -> Seq(CallType)]
  BY <1>1 DEF Live, Framed, Vectors
<1>. HIDE DEF i, b, cs, all
<1>5. /\ Remains(cs, rest, {i}, Skip(cs, i))
      /\ \A j \in DOMAIN rest : rest[j] = cs[Skip(cs, i)[j]]
  BY <1>4, RemainsOne DEF Live
<1>6. /\ rest \in Seq(CallType) /\ DOMAIN rest = 1 .. Len(cs) - 1 /\ Len(cs) \in Nat
      /\ DOMAIN cs = 1 .. Len(cs)
      /\ \A j \in DOMAIN rest : Skip(cs, i)[j] = IF j < i THEN j ELSE j + 1
  BY <1>1, <1>4, RemoveAtProperties DEF Skip
<1>7. inBatch => /\ b \in DOMAIN rest /\ Skip(cs, i)[b] = b /\ rest[b] = cs[b]
                 /\ b \notin Live(cs)
                 /\ cs[b].left \in 0 .. MaxBatch /\ cs[b].left > 0
  <2>. SUFFICES ASSUME inBatch
                PROVE  /\ b \in DOMAIN rest /\ Skip(cs, i)[b] = b /\ rest[b] = cs[b]
                       /\ b \notin Live(cs)
                       /\ cs[b].left \in 0 .. MaxBatch /\ cs[b].left > 0
    OBVIOUS
  <2>1. b < i /\ b \in DOMAIN rest /\ b \in DOMAIN cs
    BY <1>1, <1>2, <1>6
  <2>2. Skip(cs, i)[b] = b /\ rest[b] = cs[b]
    BY <1>5, <1>6, <2>1
  <2>3. b \notin Live(cs)
    BY DEF Live, Framed, cs
  <2>4. cs[b] \in CallType
    BY <1>4, <2>1
  <2>5. cs[b].left > 0
    BY <1>1, <2>1 DEF Batches, cs
  <2>. QED
    BY <2>1, <2>2, <2>3, <2>4, <2>5 DEF CallType
<1>8. inBatch => \A l \in DOMAIN rest : l > b => ~IsCall(rest[l])
  <2>. SUFFICES ASSUME inBatch, NEW l \in DOMAIN rest, l > b, IsCall(rest[l])
                PROVE  FALSE
    OBVIOUS
  <2>1. rest[l] = cs[IF l < i THEN l ELSE l + 1]
    BY <1>5, <1>6
  <2>. QED
    BY <1>1, <1>2, <1>6, <2>1
<1>9. \E gone, place :
        /\ Remains(cs, all, gone, place)
        /\ gone \intersect Live(cs) = {i}
        /\ \A j \in DOMAIN all : \/ all[j].left = cs[place[j]].left
                                 \/ \A l \in DOMAIN all : l > j => ~IsCall(all[l])
  <2>1. CASE ~inBatch
    <3>1. all = rest
      BY <2>1 DEF all
    <3>2. {i} \intersect Live(cs) = {i}
      BY <1>4
    <3>. QED
      BY <1>5, <3>1, <3>2
  <2>2. CASE inBatch /\ throws
    <3>. DEFINE both == [j \in DOMAIN RemoveAt(rest, b) |-> Skip(cs, i)[Skip(rest, b)[j]]]
    <3>1. all = RemoveAt(rest, b)
      BY <2>2 DEF all
    <3>2. Remains(cs, all, {i} \union {Skip(cs, i)[b]}, both)
      BY <1>4, <1>5, <1>7, <2>2, <3>1, RemainsTwo
    <3>3. ({i} \union {Skip(cs, i)[b]}) \intersect Live(cs) = {i}
      BY <1>4, <1>7, <2>2
    <3>4. \A j \in DOMAIN all : all[j] = cs[both[j]]
      <4>1. \A j \in DOMAIN all : all[j] = rest[Skip(rest, b)[j]] /\ Skip(rest, b)[j] \in DOMAIN rest
        BY <1>6, <1>7, <2>2, <3>1, RemainsOne DEF Remains
      <4>. QED
        BY <1>5, <3>1, <4>1
    <3>. QED
      BY <3>2, <3>3, <3>4
  <2>3. CASE inBatch /\ ~throws
    <3>1. all = [rest EXCEPT ![b].left = @ - 1]
      BY <2>3 DEF all
    <3>2. rest[b] \in CallType /\ [rest[b] EXCEPT !.left = @ - 1] \in CallType
          /\ Resumes(rest[b], [rest[b] EXCEPT !.left = @ - 1])
      <4>1. rest[b] \in CallType /\ rest[b].left - 1 \in 0 .. MaxBatch
        BY <1>6, <1>7, <2>3, StateAssumption
      <4>. QED
        BY <4>1 DEF CallType, Resumes
    <3>3. /\ all \in Seq(CallType) /\ DOMAIN all = DOMAIN rest
          /\ all[b] = [rest[b] EXCEPT !.left = @ - 1]
          /\ \A j \in DOMAIN rest : j # b => all[j] = rest[j]
      <4>. DEFINE c == [rest[b] EXCEPT !.left = @ - 1]
      <4>1. all = [rest EXCEPT ![b] = c] /\ c \in CallType
        BY <3>1, <3>2
      <4>. HIDE DEF c
      <4>2. /\ all \in Seq(CallType) /\ DOMAIN all = DOMAIN rest
            /\ all[b] = c /\ \A j \in DOMAIN rest : j # b => all[j] = rest[j]
        BY <1>6, <1>7, <2>3, <4>1, ExceptSeq
      <4>. QED
        BY <4>2 DEF c
    <3>4. \A j \in DOMAIN rest : Resumes(rest[j], all[j])
      BY <3>2, <3>3 DEF Resumes
    <3>5. Remains(cs, all, {i}, Skip(cs, i))
      BY <1>5, <3>3, <3>4 DEF Remains, Resumes
    <3>6. \A l \in DOMAIN all : l > b => ~IsCall(all[l])
      BY <1>8, <2>3, <3>3, <3>4 DEF Resumes, IsCall
    <3>7. \A j \in DOMAIN all : j # b => all[j].left = cs[Skip(cs, i)[j]].left
      BY <1>5, <3>3
    <3>8. {i} \intersect Live(cs) = {i}
      BY <1>4
    <3>. QED
      BY <3>5, <3>6, <3>7, <3>8
  <2>. QED
    BY <2>1, <2>2, <2>3
<1>10. PICK gone, place :
        /\ Remains(cs, all, gone, place)
        /\ gone \intersect Live(cs) = {i}
        /\ \A j \in DOMAIN all : \/ all[j].left = cs[place[j]].left
                                 \/ \A l \in DOMAIN all : l > j => ~IsCall(all[l])
  BY <1>9
<1>11. /\ stack' = [stack EXCEPT ![t] = Popped(@, calls[t][i].obj)]
       /\ calls' = [calls EXCEPT ![t] = all]
       /\ ordered' \in [Threads -> BOOLEAN]
       /\ \A u \in Threads : u # t => ordered'[u] = ordered[u]
       /\ ordered'[t] => \/ Popped(stack[t], calls[t][i].obj) = <<>>
                         \/ ordered[t] /\ \A l \in Live(calls[t]) : l <= i
  <2>1. all \in Seq(CallType) /\ i \in Live(calls[t])
    BY <1>4, <1>10 DEF Remains, cs
  <2>. QED
    BY <1>3, <2>1, UnframeEffect DEF TypeOK
<1>12. calls'[t] = all /\ calls' \in [Threads -> Seq(CallType)]
       /\ \A u \in Threads : u # t => calls'[u] = calls[u]
  BY <1>4, <1>10, <1>11 DEF Remains
<1>13. Unframes(t, i, gone, place)
  BY <1>10, <1>11, <1>12 DEF Unframes, Ended, SameLeft, cs
<1>. QED
  BY <1>1, <1>4, <1>13 DEF i, cs

(* The calls go on as they are.                                            *)
Touched ==
  /\ calls' \in [Threads -> Seq(CallType)]
  /\ \A u \in Threads :
       /\ DOMAIN calls'[u] = DOMAIN calls[u]
       /\ \A i \in DOMAIN calls[u] : Stays(calls[u][i], calls'[u][i])

(* A write is one of the thread's innermost frame with the state on top.   *)
LEMMA WriteEffect ==
  ASSUME TypeOK, Vectors, FramesAreOnTheStack, NEW t \in Threads, Write(t)
  PROVE  LET o == Top(t)
             w == Writer(t, o)
         IN  /\ Touched
             /\ o \in Values \union Slots /\ o \in Objects
             /\ hits' = [hits EXCEPT ![o] = @ + 1]
             /\ w \in Frames(t) /\ calls[t][w].obj = o
             /\ \A u \in Threads : \A i \in DOMAIN calls[u] :
                  calls'[u][i].writes = calls[u][i].writes
                    + (IF u = t /\ i = w /\ o \in Values /\ calls[t][w].alone THEN 1 ELSE 0)
<1>. DEFINE o == Top(t)
            w == Writer(t, o)
            c == calls[t][w]
            sum == IF o \in Values /\ c.alone THEN c.writes + 1 ELSE c.writes
            d == [c EXCEPT !.writes = sum]
<1>1. o \in Values \union Slots /\ hits' = [hits EXCEPT ![o] = @ + 1]
  BY DEF Write, TypeOK
<1>2. o # None /\ stack[t] \in Seq(Objects)
  BY <1>1, ObjectsApart DEF Vectors, Objects
<1>3. Len(stack[t]) \in DOMAIN stack[t] /\ o = stack[t][Len(stack[t])]
  <2>1. stack[t] # <<>> /\ o = Last(stack[t])
    BY <1>2 DEF Top
  <2>. QED
    BY <1>2, <2>1 DEF Last
<1>4. \E i \in Frames(t) : calls[t][i].obj = o
  BY <1>3, EntriesAreFrames
<1>5. w \in Frames(t) /\ c.obj = o
  BY <1>4, WriterExists
<1>6. calls' = [calls EXCEPT ![t][w].writes = IF o \in Values /\ calls[t][w].alone
                                              THEN @ + 1 ELSE @]
  BY DEF Write, Writer
<1>7. /\ calls[t] \in Seq(CallType) /\ calls \in [Threads -> Seq(CallType)]
      /\ w \in DOMAIN calls[t] /\ c \in CallType
  BY <1>5 DEF Vectors, Frames
<1>8. d \in CallType /\ Stays(c, d)
      /\ d.writes = c.writes + (IF o \in Values /\ c.alone THEN 1 ELSE 0)
  <2>. HIDE DEF c, o
  <2>1. c.writes \in Nat
    BY <1>7 DEF CallType
  <2>2. sum \in Nat /\ sum = c.writes + (IF o \in Values /\ c.alone THEN 1 ELSE 0)
    BY <2>1
  <2>. HIDE DEF sum
  <2>3. d \in CallType /\ Stays(c, d) /\ d.writes = sum
    BY <1>7, <2>2 DEF CallType, Stays
  <2>. QED
    BY <2>2, <2>3
<1>9. calls' = [calls EXCEPT ![t] = [calls[t] EXCEPT ![w] = d]]
  BY <1>6
<1>. HIDE DEF d, w, o
<1>10. [calls[t] EXCEPT ![w] = d] \in Seq(CallType)
  BY <1>7, <1>8, ExceptSeq
<1>11. /\ calls' \in [Threads -> Seq(CallType)]
       /\ calls'[t] = [calls[t] EXCEPT ![w] = d]
       /\ \A u \in Threads : u # t => calls'[u] = calls[u]
  BY <1>7, <1>9, <1>10
<1>12. /\ DOMAIN calls'[t] = DOMAIN calls[t] /\ calls'[t][w] = d
       /\ \A i \in DOMAIN calls[t] : i # w => calls'[t][i] = calls[t][i]
  BY <1>7, <1>8, <1>11, ExceptSeq
<1>13. Touched
  BY <1>8, <1>11, <1>12 DEF Touched, Stays
<1>14. ASSUME NEW u \in Threads, NEW i \in DOMAIN calls[u]
       PROVE  calls'[u][i].writes = calls[u][i].writes
                + (IF u = t /\ i = w /\ o \in Values /\ calls[t][w].alone THEN 1 ELSE 0)
  <2>1. calls[u][i].writes \in Nat
    <3>1. calls[u] \in Seq(CallType) /\ calls[u][i] \in CallType
      BY DEF Vectors
    <3>. QED
      BY <3>1 DEF CallType
  <2>2. CASE u = t /\ i = w
    BY <1>8, <1>12, <2>2
  <2>3. CASE ~(u = t /\ i = w)
    BY <1>11, <1>12, <2>1, <2>3
  <2>. QED
    BY <2>2, <2>3
<1>15. o \in Objects
  BY <1>1 DEF Objects
<1>. QED
  BY <1>1, <1>5, <1>13, <1>14, <1>15 DEF w, o

(* set_state disturbs those who use the value.                             *)
LEMMA SetEffect ==
  ASSUME Vectors, NEW e \in Engines, NEW value, SetState(e, value)
  PROVE  /\ Touched
         /\ \A u \in Threads : \A i \in DOMAIN calls[u] :
              /\ calls[u][i].obj = Value(e) => ~calls'[u][i].alone
              /\ calls'[u][i].alone => calls'[u][i].writes = calls[u][i].writes
<1>1. calls' = Crowd(calls, Value(e)) /\ Value(e) \in Values
  BY ObjectsApart DEF SetState
<1>2. \A u \in Threads : calls[u] \in Seq(CallType) /\ calls'[u] \in Seq(CallType)
                         /\ Len(calls'[u]) = Len(calls[u])
  BY <1>1, CrowdProperties DEF Vectors
<1>3. \A u \in Threads : DOMAIN calls'[u] = DOMAIN calls[u]
  BY <1>2
<1>. QED
  BY <1>1, <1>3, CrowdProperties DEF Touched

(* set_shared_state takes the state from those who had it of the storage.  *)
LEMMA ShareEffect ==
  ASSUME Vectors, NEW e \in Engines, NEW o \in Heap, SetSharedState(e, o)
  PROVE  /\ Touched
         /\ \A u \in Threads : \A i \in DOMAIN calls[u] :
              /\ calls'[u][i].kept => calls[u][i].obj # heap[e]
              /\ calls'[u][i].alone = calls[u][i].alone
              /\ calls'[u][i].writes = calls[u][i].writes
<1>. DEFINE lost(c) == c.obj = heap[e]
            after(c) == [c EXCEPT !.kept = @ /\ c.obj # heap[e]]
            vec(cs) == [i \in DOMAIN cs |-> after(cs[i])]
<1>1. ASSUME NEW c \in CallType
      PROVE  /\ after(c) \in CallType
             /\ Stays(c, after(c))
             /\ after(c).kept => ~lost(c)
             /\ after(c).alone = c.alone /\ after(c).writes = c.writes
  <2>1. CASE lost(c)
    BY <2>1 DEF CallType, Stays
  <2>2. CASE ~lost(c)
    BY <2>2 DEF CallType, Stays
  <2>. QED
    BY <2>1, <2>2
<1>2. calls' = [u \in Threads |-> vec(calls[u])]
  BY DEF SetSharedState
<1>3. ASSUME NEW u \in Threads
      PROVE  /\ vec(calls[u]) \in Seq(CallType)
             /\ DOMAIN vec(calls[u]) = DOMAIN calls[u]
             /\ \A i \in DOMAIN calls[u] : /\ vec(calls[u])[i] = after(calls[u][i])
                                           /\ calls[u][i] \in CallType
  <2>. HIDE DEF after
  <2>1. calls[u] \in Seq(CallType) /\ Len(calls[u]) \in Nat
        /\ DOMAIN calls[u] = 1 .. Len(calls[u])
    BY DEF Vectors
  <2>2. vec(calls[u]) \in [1 .. Len(calls[u]) -> CallType]
    BY <1>1, <2>1
  <2>. QED
    BY <2>1, <2>2, IsASeq
<1>. HIDE DEF after, vec, lost
<1>4. calls' \in [Threads -> Seq(CallType)] /\ \A u \in Threads : calls'[u] = vec(calls[u])
  BY <1>2, <1>3
<1>. QED
  BY <1>1, <1>3, <1>4 DEF Touched, lost

(* Every batch in progress has inputs left: a call may begin.              *)
Ready(t) == \A i \in DOMAIN calls[t] : calls[t][i].kind = "batch" => calls[t][i].left > 0

(* Only a batch that has just begun or counted has nothing above it.       *)
LEMMA ReadyWhen ==
  ASSUME TypeOK, Vectors, Batches, NEW t \in Threads,
         InKind(t) = "batch" => calls[t][InCall(t)].left > 0
  PROVE  Ready(t)
<1> SUFFICES ASSUME NEW i \in DOMAIN calls[t], calls[t][i].kind = "batch"
             PROVE  calls[t][i].left > 0
  BY DEF Ready
<1>1. DOMAIN calls[t] = 1 .. Len(calls[t]) /\ Len(calls[t]) \in Nat
  BY DEF Vectors
<1>2. IsCall(calls[t][i])
  BY DEF IsCall
<1>3. /\ InCall(t) # 0 => InCall(t) \in DOMAIN calls[t] /\ IsCall(calls[t][InCall(t)])
      /\ \A j \in DOMAIN calls[t] : IsCall(calls[t][j]) => InCall(t) # 0 /\ j <= InCall(t)
  BY <1>1, InnermostIsLast
<1>4. InCall(t) # 0 /\ i <= InCall(t) /\ InCall(t) \in DOMAIN calls[t]
      /\ IsCall(calls[t][InCall(t)])
  BY <1>2, <1>3
<1>5. CASE i = InCall(t)
  BY <1>4, <1>5 DEF InKind
<1>6. CASE i # InCall(t)
  <2>1. i \in Nat /\ InCall(t) \in Nat
    BY <1>1, <1>4
  <2>2. i < InCall(t)
    BY <1>4, <1>6, <2>1
  <2> QED  BY <1>4, <2>2 DEF Batches
<1> QED  BY <1>5, <1>6

(* A frame begins: with the state o of engine e, if it is a run.           *)
Enters(t, kind, e, o) ==
  /\ Grown(t) /\ Ready(t)
  /\ kind \in {"run", "frame"} /\ o \in Objects /\ (kind = "run" => e \in Engines)
  /\ New(t).kind = kind /\ New(t).engine = e /\ New(t).obj = o /\ New(t).writes = 0
  /\ o \in Values => \A u \in Threads : \A i \in DOMAIN calls[u] :
       calls[u][i].obj = o => ~calls'[u][i].alone /\ ~New(t).alone
  /\ stack' = [stack EXCEPT ![t] = Append(@, o)]
  /\ o \in Slots => o = Slot(e, t) /\ <<e, t>> \in slots'
  /\ o \in Heap /\ kind = "run" => e \in DOMAIN heap /\ heap[e] = o
  /\ hits' \in [Values \union Slots -> Nat]
  /\ \A x \in Values \union Slots : hits'[x] = hits[x] \/ (x = o /\ hits'[x] = 0)
  /\ kind = "run" /\ o = Value(e) /\ storage[e] = "reset_per_run" => hits'[o] = 0
  /\ slots \subseteq slots' /\ slots' \subseteq Engines \X Threads
  /\ UNCHANGED <<storage, heap, held, ordered>>

(* An engine runs with its own state.                                      *)
LEMMA OwnEnters ==
  ASSUME TypeOK, Vectors, NEW t \in Threads, Ready(t), NEW e \in Engines, RunOwn(t, e)
  PROVE  Enters(t, "run", e, Active(e, t))
<1> DEFINE o == Active(e, t)
<1>1. storage[e] # "borrowed" /\ Enter(t, "run", e, o)
  BY DEF RunOwn
<1>2. /\ o \in Objects
      /\ o \in Values => o = Value(e)
      /\ o \in Slots => o = Slot(e, t) /\ storage[e] = "thread_local_owned"
      /\ o \in Heap => e \in DOMAIN heap /\ heap[e] = o
      /\ storage[e] = "reset_per_run" => o = Value(e)
  BY <1>1, ActiveIs
<1> HIDE DEF o
<1>3. /\ Grown(t)
      /\ New(t).kind = "run" /\ New(t).engine = e /\ New(t).obj = o /\ New(t).writes = 0
      /\ o \in Values => \A u \in Threads : \A i \in DOMAIN calls[u] :
           calls[u][i].obj = o => ~calls'[u][i].alone /\ ~New(t).alone
      /\ stack' = [stack EXCEPT ![t] = Append(@, o)]
  BY <1>1, <1>2, EnterEffect
<1>4. /\ hits' = IF storage[e] = "reset_per_run"
                 THEN [hits EXCEPT ![Value(e)] = 0] ELSE hits
      /\ slots' = IF storage[e] = "thread_local_owned"
                  THEN slots \union {<<e, t>>} ELSE slots
      /\ UNCHANGED <<storage, heap, held, ordered>>
  BY DEF RunOwn
<1>5. hits \in [Values \union Slots -> Nat] /\ slots \subseteq Engines \X Threads
  BY DEF TypeOK
<1>6. /\ hits' \in [Values \union Slots -> Nat]
      /\ \A x \in Values \union Slots : hits'[x] = hits[x] \/ (x = o /\ hits'[x] = 0)
      /\ o = Value(e) /\ storage[e] = "reset_per_run" => hits'[o] = 0
  BY <1>2, <1>4, <1>5, ObjectsApart
<1>7. /\ slots \subseteq slots' /\ slots' \subseteq Engines \X Threads
      /\ o \in Slots => o = Slot(e, t) /\ <<e, t>> \in slots'
  BY <1>2, <1>4, <1>5
<1>8. Enters(t, "run", e, o)
  BY <1>2, <1>3, <1>4, <1>6, <1>7 DEF Enters
<1> QED  BY <1>8 DEF o

(* A frame begins with a state that a caller lends.                        *)
LEMMA LentEnters ==
  ASSUME TypeOK, Vectors, NEW t \in Threads, Ready(t), NEW kind \in {"run", "frame"},
         NEW e \in Engines \union {None}, NEW o \in Lent, Enter(t, kind, e, o),
         kind = "run" => e \in Engines,
         UNCHANGED <<storage, hits, slots, heap, held, ordered>>
  PROVE  Enters(t, kind, e, o)
<1>1. o \in Objects /\ o \notin Values /\ o \notin Slots /\ o \notin Heap
  BY ObjectsApart DEF Objects
<1>2. /\ Grown(t)
      /\ New(t).kind = kind /\ New(t).engine = e /\ New(t).obj = o /\ New(t).writes = 0
      /\ o \in Values => \A u \in Threads : \A i \in DOMAIN calls[u] :
           calls[u][i].obj = o => ~calls'[u][i].alone /\ ~New(t).alone
      /\ stack' = [stack EXCEPT ![t] = Append(@, o)]
  BY <1>1, EnterEffect
<1>3. e \in Engines => Value(e) \in Values
  BY DEF Values
<1>4. hits \in [Values \union Slots -> Nat] /\ slots \subseteq Engines \X Threads
  BY DEF TypeOK
<1>5. /\ hits' \in [Values \union Slots -> Nat]
      /\ \A x \in Values \union Slots : hits'[x] = hits[x] \/ (x = o /\ hits'[x] = 0)
      /\ slots \subseteq slots' /\ slots' \subseteq Engines \X Threads
  BY <1>4
<1>6. kind = "run" /\ o = Value(e) /\ storage[e] = "reset_per_run" => hits'[o] = 0
  BY <1>1, <1>3
<1> QED  BY <1>1, <1>2, <1>5, <1>6 DEF Enters

(* run, run_with_state, an input of a batch and an explicit frame begin    *)
(* frames.                                                                 *)
LEMMA EnterActions ==
  ASSUME TypeOK, Vectors, Batches, Sources, NEW t \in Threads,
         \/ \E e \in Engines : Run(t, e)
         \/ \E e \in Engines, o \in Lent : RunWithState(t, e, o)
         \/ BatchItem(t)
         \/ \E o \in Lent : MakeFrame(t, o)
  PROVE  \E kind, e, o : Enters(t, kind, e, o)
<1>1. InUserCode(t) => Ready(t)
  BY ReadyWhen DEF InUserCode
<1>2. ASSUME NEW e \in Engines, Run(t, e)
      PROVE  \E kind, f, o : Enters(t, kind, f, o)
  <2>1. Ready(t) /\ RunOwn(t, e)
    BY <1>1, <1>2 DEF Run
  <2>2. Enters(t, "run", e, Active(e, t))
    BY <2>1, OwnEnters
  <2> QED  BY <2>2
<1>3. ASSUME NEW e \in Engines, NEW o \in Lent, RunWithState(t, e, o)
      PROVE  \E kind, f, p : Enters(t, kind, f, p)
  <2>1. Ready(t) /\ Enter(t, "run", e, o)
        /\ UNCHANGED <<storage, hits, slots, heap, held, ordered>>
    BY <1>1, <1>3 DEF RunWithState, RunLent
  <2>2. Enters(t, "run", e, o)
    BY <2>1, LentEnters
  <2> QED  BY <2>2
<1>4. ASSUME BatchItem(t)
      PROVE  \E kind, f, p : Enters(t, kind, f, p)
  <2> DEFINE i == InCall(t)
             b == calls[t][i]
  <2>1. /\ InKind(t) = "batch" /\ b.left > 0
        /\ IF b.obj = None THEN RunOwn(t, b.engine) ELSE RunLent(t, b.engine, b.obj)
    BY <1>4 DEF BatchItem
  <2>2. i # 0 /\ b.kind = "batch"
    BY <2>1 DEF InKind
  <2>3. i \in DOMAIN calls[t]
    BY <2>2, InnermostIsLast
  <2>4. b.engine \in Engines /\ b.obj \in Lent \union {None}
    BY <2>2, <2>3 DEF Sources
  <2>5. Ready(t)
    BY <2>1, ReadyWhen
  <2>6. CASE b.obj = None
    <3>1. RunOwn(t, b.engine)
      BY <2>1, <2>6
    <3>2. Enters(t, "run", b.engine, Active(b.engine, t))
      BY <2>4, <2>5, <3>1, OwnEnters
    <3> QED  BY <3>2
  <2>7. CASE b.obj # None
    <3>1. Enter(t, "run", b.engine, b.obj)
          /\ UNCHANGED <<storage, hits, slots, heap, held, ordered>>
      BY <2>1, <2>7 DEF RunLent
    <3>2. b.obj \in Lent
      BY <2>4, <2>7
    <3>3. Enters(t, "run", b.engine, b.obj)
      BY <2>4, <2>5, <3>1, <3>2, LentEnters
    <3> QED  BY <3>3
  <2> QED  BY <2>6, <2>7
<1>5. ASSUME NEW o \in Lent, MakeFrame(t, o)
      PROVE  \E kind, f, p : Enters(t, kind, f, p)
  <2>1. Ready(t) /\ Enter(t, "frame", None, o)
        /\ UNCHANGED <<storage, hits, slots, heap, held, ordered>>
    BY <1>1, <1>5 DEF MakeFrame
  <2>2. Enters(t, "frame", None, o)
    BY <2>1, LentEnters
  <2> QED  BY <2>2
<1> QED  BY <1>2, <1>3, <1>4, <1>5

(* A vector that keeps its frames fits as it did.                          *)
LEMMA FitsStays ==
  ASSUME NEW s, NEW cs, NEW ds, NEW inOrder,
         DOMAIN cs \subseteq Nat, DOMAIN s \subseteq Nat, DOMAIN ds = DOMAIN cs,
         Fits(s, cs, inOrder),
         \A i \in DOMAIN cs : ds[i].kind = cs[i].kind /\ ds[i].obj = cs[i].obj
  PROVE  Fits(s, ds, inOrder)
<1> DEFINE same == [i \in DOMAIN cs |-> i]
<1>1. Carries(cs, ds, same, DOMAIN cs)
  BY DEF Carries
<1>2. Live(ds) \subseteq DOMAIN cs /\ \A i \in Live(cs) : \E j \in DOMAIN cs : same[j] = i
  BY DEF Live
<1> HIDE DEF same
<1> QED  BY <1>1, <1>2, FitsSame

(* A frame that begins keeps each invariant: the stacks are as they were,  *)
(* with one more entry for one more frame.                                 *)
LEMMA EntersFits ==
  ASSUME TypeOK, Vectors, FramesAreOnTheStack, NEW t \in Threads, NEW kind, NEW e, NEW o,
         Enters(t, kind, e, o)
  PROVE  FramesAreOnTheStack'
<1> SUFFICES ASSUME NEW u \in Threads
             PROVE  Fits(stack'[u], calls'[u], ordered'[u])
  BY FramesFit
<1>1. Fits(stack[u], calls[u], ordered[u]) /\ ordered' = ordered
  BY FramesFit DEF Enters
<1>2. /\ stack[u] \in Seq(Objects) /\ calls[u] \in Seq(CallType)
      /\ DOMAIN calls[u] = 1 .. Len(calls[u]) /\ Len(calls[u]) \in Nat
      /\ DOMAIN stack[u] = 1 .. Len(stack[u]) /\ Len(stack[u]) \in Nat
  BY DEF Vectors
<1>3. \A i \in DOMAIN calls[u] :
        calls'[u][i].kind = calls[u][i].kind /\ calls'[u][i].obj = calls[u][i].obj
  BY DEF Enters, Grown, Stays
<1>4. stack' = [stack EXCEPT ![t] = Append(@, o)] /\ stack \in [Threads -> Seq(Objects)]
  BY DEF Enters, Vectors
<1>5. CASE u = t
  <2>1. /\ DOMAIN calls'[u] = 1 .. Len(calls[u]) + 1
        /\ Framed(calls'[u][Len(calls[u]) + 1]) /\ calls'[u][Len(calls[u]) + 1].obj = o
        /\ o \in Objects
    BY <1>5 DEF Enters, Grown, New, Framed
  <2>2. stack'[u] = Append(stack[u], o)
    BY <1>4, <1>5
  <2> QED  BY <1>1, <1>2, <1>3, <2>1, <2>2, FitsPush
<1>6. CASE u # t
  <2>1. stack'[u] = stack[u]
    BY <1>4, <1>6
  <2>2. DOMAIN calls'[u] = DOMAIN calls[u]
    BY <1>6 DEF Enters, Grown
  <2>3. DOMAIN stack[u] \subseteq Nat /\ DOMAIN calls[u] \subseteq Nat
    BY <1>2
  <2> QED  BY <1>1, <1>3, <2>1, <2>2, <2>3, FitsStays
<1> QED  BY <1>5, <1>6

(* The calls of a thread after one has begun: those it had, and New.       *)
LEMMA GrownCalls ==
  ASSUME NEW t \in Threads, Grown(t), NEW u \in Threads, NEW i \in DOMAIN calls'[u]
  PROVE  \/ i \in DOMAIN calls[u] /\ i <= Len(calls[u])
         \/ u = t /\ i = Len(calls[u]) + 1 /\ calls'[u][i] = New(t)
<1>1. /\ DOMAIN calls[u] = 1 .. Len(calls[u]) /\ Len(calls[u]) \in Nat
      /\ DOMAIN calls'[u] = IF u = t THEN 1 .. Len(calls[u]) + 1 ELSE DOMAIN calls[u]
  BY DEF Grown
<1>2. CASE u = t
  <2>1. i \in 1 .. Len(calls[u]) \/ i = Len(calls[u]) + 1
    BY <1>1, <1>2
  <2> QED  BY <1>1, <1>2, <2>1 DEF New
<1>3. CASE u # t
  BY <1>1, <1>3
<1> QED  BY <1>2, <1>3

(* The inputs of the batches below a call that begins.                     *)
LEMMA GrownBatches ==
  ASSUME Batches, NEW t \in Threads, Grown(t), Ready(t)
  PROVE  Batches'
<1> SUFFICES ASSUME NEW u \in Threads, NEW i \in DOMAIN calls'[u], NEW j \in DOMAIN calls'[u],
                    i < j, calls'[u][i].kind = "batch", IsCall(calls'[u][j])
             PROVE  calls'[u][i].left > 0
  BY DEF Batches, IsCall
<1>1. \/ i \in DOMAIN calls[u] /\ i <= Len(calls[u])
      \/ u = t /\ i = Len(calls[u]) + 1 /\ calls'[u][i] = New(t)
  BY GrownCalls
<1>2. \/ j \in DOMAIN calls[u] /\ j <= Len(calls[u])
      \/ u = t /\ j = Len(calls[u]) + 1 /\ calls'[u][j] = New(t)
  BY GrownCalls
<1>3. DOMAIN calls[u] = 1 .. Len(calls[u]) /\ Len(calls[u]) \in Nat
  BY DEF Grown
<1>4. i \in DOMAIN calls[u]
  BY <1>1, <1>2, <1>3
<1>5. calls[u][i].kind = "batch" /\ calls'[u][i].left = calls[u][i].left
  BY <1>4 DEF Grown, Stays
<1>6. CASE j \in DOMAIN calls[u]
  <2>1. IsCall(calls[u][j])
    BY <1>6 DEF Grown, Stays, IsCall
  <2> QED  BY <1>4, <1>5, <1>6, <2>1 DEF Batches
<1>7. CASE u = t
  BY <1>4, <1>5, <1>7 DEF Ready
<1> QED  BY <1>2, <1>6, <1>7

(* A frame that begins keeps the types, and each frame has a state.        *)
LEMMA EntersTyped ==
  ASSUME TypeOK, Vectors, NEW t \in Threads, NEW kind, NEW e, NEW o, Enters(t, kind, e, o)
  PROVE  TypeOK' /\ Vectors'
<1>1. calls' \in [Threads -> Seq(CallType)]
  BY DEF Enters, Grown
<1>2. stack' \in [Threads -> Seq(Objects)]
  <2>1. stack' = [stack EXCEPT ![t] = Append(@, o)] /\ o \in Objects
        /\ stack \in [Threads -> Seq(Objects)]
    BY DEF Enters, Vectors
  <2> QED  BY <2>1
<1>3. Vectors'
  BY <1>1, <1>2 DEF Vectors, CallType
<1>4. ASSUME NEW u \in Threads
      PROVE  /\ \A i \in DOMAIN stack'[u] : stack'[u][i] \in Objects
             /\ \A i \in DOMAIN calls'[u] : calls'[u][i] \in CallType
             /\ \A i \in DOMAIN calls'[u] : Framed(calls'[u][i]) => calls'[u][i].obj # None
  <2>1. stack'[u] \in Seq(Objects) /\ calls'[u] \in Seq(CallType)
    BY <1>1, <1>2
  <2>2. ASSUME NEW i \in DOMAIN calls'[u], Framed(calls'[u][i])
        PROVE  calls'[u][i].obj # None
    <3>1. CASE i \in DOMAIN calls[u]
      <4>1. Stays(calls[u][i], calls'[u][i])
        BY <3>1 DEF Enters, Grown
      <4>2. Framed(calls[u][i]) => calls[u][i].obj # None
        BY <3>1 DEF TypeOK
      <4> QED  BY <2>2, <4>1, <4>2 DEF Stays, Framed
    <3>2. CASE u = t /\ calls'[u][i] = New(t)
      <4>1. New(t).obj = o /\ o \in Objects
        BY DEF Enters
      <4> QED  BY <3>2, <4>1, ObjectsApart
    <3>3. Grown(t)
      BY DEF Enters
    <3> QED  BY <3>1, <3>2, <3>3, GrownCalls
  <2> QED  BY <2>1, <2>2
<1>5. DOMAIN stack' = Threads /\ DOMAIN calls' = Threads
  BY <1>1, <1>2
<1>6. /\ storage' = storage /\ heap' = heap /\ held' = held /\ ordered' = ordered
      /\ hits' \in [Values \union Slots -> Nat] /\ slots' \subseteq Engines \X Threads
  BY DEF Enters
<1>7. /\ storage \in Storages /\ heap \in [{f \in Engines : storage[f] = "shared"} -> Heap]
      /\ held \subseteq Heap /\ ordered \in [Threads -> BOOLEAN]
  BY DEF TypeOK
<1>8. TypeOK'
  BY <1>4, <1>5, <1>6, <1>7 DEF TypeOK, CallType
<1> QED  BY <1>3, <1>8

(* A frame that begins keeps what is known of where states come from.      *)
LEMMA EntersSources ==
  ASSUME TypeOK, Vectors, Sources, NEW t \in Threads, NEW kind, NEW e, NEW o,
         Enters(t, kind, e, o)
  PROVE  Sources'
<1>1. Grown(t) /\ heap' = heap /\ slots \subseteq slots'
  BY DEF Enters
<1>2. ASSUME NEW u \in Threads, NEW i \in DOMAIN calls'[u]
      PROVE  LET c == calls'[u][i]
             IN  /\ c.kind \in {"run", "batch"} => c.engine \in Engines
                 /\ c.kind = "batch" => c.obj \in Lent \union {None}
                 /\ c.obj \in Slots => c.obj = Slot(c.engine, u) /\ <<c.engine, u>> \in slots'
                 /\ c.kind = "run" /\ c.kept /\ c.obj \in Heap
                      => c.engine \in DOMAIN heap' /\ heap'[c.engine] = c.obj
  <2> DEFINE d == calls[u][i]
  <2>1. CASE i \in DOMAIN calls[u]
    <3>1. Stays(d, calls'[u][i])
      BY <1>1, <2>1 DEF Grown
    <3>2. /\ d.kind \in {"run", "batch"} => d.engine \in Engines
          /\ d.kind = "batch" => d.obj \in Lent \union {None}
          /\ d.obj \in Slots => d.obj = Slot(d.engine, u) /\ <<d.engine, u>> \in slots
          /\ d.kind = "run" /\ d.kept /\ d.obj \in Heap
               => d.engine \in DOMAIN heap /\ heap[d.engine] = d.obj
      BY <2>1 DEF Sources
    <3> HIDE DEF d
    <3> QED  BY <1>1, <3>1, <3>2 DEF Stays
  <2>2. CASE u = t /\ calls'[u][i] = New(t)
    <3>1. /\ kind \in {"run", "frame"} /\ (kind = "run" => e \in Engines)
          /\ New(t).kind = kind /\ New(t).engine = e /\ New(t).obj = o
          /\ o \in Slots => o = Slot(e, t) /\ <<e, t>> \in slots'
          /\ o \in Heap /\ kind = "run" => e \in DOMAIN heap /\ heap[e] = o
      BY DEF Enters
    <3> QED  BY <1>1, <2>2, <3>1
  <2> QED  BY <1>1, <2>1, <2>2, GrownCalls
<1>3. Slots' = Slots /\ \A e1, u1 : Slot(e1, u1)' = Slot(e1, u1)
  BY DEF Slots, Slot
<1> QED  BY <1>2, <1>3 DEF Sources

(* A frame that begins is alone with a value, or none is.                  *)
LEMMA EntersAlone ==
  ASSUME TypeOK, Vectors, OneAlone, NEW t \in Threads, NEW kind, NEW e, NEW o,
         Enters(t, kind, e, o)
  PROVE  OneAlone'
<1>1. /\ Grown(t) /\ New(t).obj = o
      /\ o \in Values => \A u \in Threads : \A i \in DOMAIN calls[u] :
           calls[u][i].obj = o => ~calls'[u][i].alone /\ ~New(t).alone
  BY DEF Enters
<1>2. ASSUME NEW u \in Threads, NEW v \in Threads,
             NEW i \in DOMAIN calls'[u], NEW j \in DOMAIN calls'[v],
             calls'[u][i].obj \in Values, calls'[u][i].obj = calls'[v][j].obj,
             calls'[u][i].alone
      PROVE  u = v /\ i = j
  <2>1. CASE i \in DOMAIN calls[u] /\ j \in DOMAIN calls[v]
    <3>1. Stays(calls[u][i], calls'[u][i]) /\ Stays(calls[v][j], calls'[v][j])
      BY <1>1, <2>1 DEF Grown
    <3>2. /\ calls[u][i].obj \in Values /\ calls[u][i].obj = calls[v][j].obj
          /\ calls[u][i].alone
      BY <1>2, <3>1 DEF Stays
    <3> QED  BY <2>1, <3>2 DEF OneAlone
  <2>2. ASSUME NEW w \in Threads, NEW k \in DOMAIN calls[w],
               calls'[w][k].obj = o, o \in Values, calls'[w][k].alone
        PROVE  FALSE
    <3>1. calls[w][k].obj = o
      BY <1>1, <2>2 DEF Grown, Stays
    <3> QED  BY <1>1, <2>2, <3>1
  <2>3. CASE i \notin DOMAIN calls[u] /\ j \in DOMAIN calls[v]
    <3>1. calls'[u][i] = New(t)
      BY <1>1, <2>3, GrownCalls
    <3>2. calls[v][j].obj = o /\ o \in Values
      BY <1>1, <1>2, <2>3, <3>1 DEF Grown, Stays
    <3> QED  BY <1>1, <1>2, <2>3, <3>1, <3>2
  <2>4. CASE i \in DOMAIN calls[u] /\ j \notin DOMAIN calls[v]
    <3>1. calls'[v][j] = New(t)
      BY <1>1, <2>4, GrownCalls
    <3> QED  BY <1>1, <1>2, <2>2, <2>4, <3>1
  <2>5. CASE i \notin DOMAIN calls[u] /\ j \notin DOMAIN calls[v]
    BY <1>1, <2>5, GrownCalls
  <2> QED  BY <2>1, <2>3, <2>4, <2>5
<1> QED  BY <1>2 DEF OneAlone, Values, Value

(* A run that begins finds nothing in a state that resets, and a run that  *)
(* is alone with its state finds what it has written.                      *)
LEMMA EntersWrites ==
  ASSUME TypeOK, Vectors, Sources, ResetRunsSeeTheirWrites, NEW t \in Threads, NEW kind, NEW e, NEW o,
         Enters(t, kind, e, o)
  PROVE  ResetRunsSeeTheirWrites'
<1>1. /\ Grown(t)
      /\ New(t).kind = kind /\ New(t).engine = e /\ New(t).obj = o /\ New(t).writes = 0
      /\ o \in Values => \A u \in Threads : \A i \in DOMAIN calls[u] :
           calls[u][i].obj = o => ~calls'[u][i].alone /\ ~New(t).alone
      /\ \A x \in Values \union Slots : hits'[x] = hits[x] \/ (x = o /\ hits'[x] = 0)
      /\ kind = "run" /\ o = Value(e) /\ storage[e] = "reset_per_run" => hits'[o] = 0
      /\ storage' = storage
  BY DEF Enters
<1>2. ASSUME NEW u \in Threads, NEW i \in DOMAIN calls'[u],
             calls'[u][i].kind = "run", calls'[u][i].alone,
             calls'[u][i].obj = Value(calls'[u][i].engine),
             storage[calls'[u][i].engine] = "reset_per_run"
      PROVE  hits'[calls'[u][i].obj] = calls'[u][i].writes
  <2>1. CASE i \in DOMAIN calls[u]
    <3> DEFINE c == calls[u][i]
               d == calls'[u][i]
    <3>1. /\ d.kind = c.kind /\ d.engine = c.engine /\ d.obj = c.obj
          /\ c.alone /\ d.writes = c.writes
      BY <1>1, <1>2, <2>1 DEF Grown, Stays
    <3>2. hits[c.obj] = c.writes
      BY <1>2, <2>1, <3>1 DEF ResetRunsSeeTheirWrites
    <3>3. c.obj \in Values
      <4>1. c.engine \in Engines
        BY <1>2, <2>1, <3>1 DEF Sources
      <4> QED  BY <1>2, <3>1, <4>1, ObjectsApart
    <3>4. c.obj # o
      BY <1>1, <1>2, <2>1, <3>1, <3>3
    <3> QED  BY <1>1, <3>1, <3>2, <3>3, <3>4
  <2>2. CASE u = t /\ calls'[u][i] = New(t)
    BY <1>1, <1>2, <2>2
  <2> QED  BY <1>1, <2>1, <2>2, GrownCalls
<1> QED  BY <1>1, <1>2 DEF ResetRunsSeeTheirWrites, Value

(* A frame that begins writes nothing to a slot that has not been made.    *)
LEMMA EntersUnmade ==
  ASSUME TypeOK, Unmade, NEW t \in Threads, NEW kind, NEW e, NEW o, Enters(t, kind, e, o)
  PROVE  Unmade'
<1>1. /\ \A x \in Values \union Slots : hits'[x] = hits[x] \/ (x = o /\ hits'[x] = 0)
      /\ slots \subseteq slots'
  BY DEF Enters
<1>2. ASSUME NEW f \in Engines, NEW u \in Threads, <<f, u>> \notin slots'
      PROVE  hits'[Slot(f, u)] = 0
  <2>1. hits[Slot(f, u)] = 0 /\ Slot(f, u) \in Values \union Slots
    BY <1>1, <1>2, ObjectsApart DEF Unmade
  <2> QED  BY <1>1, <2>1
<1> QED  BY <1>2 DEF Unmade, Slot

(* A batch begins, or a case does on a thread of the pool: a call that has *)
(* no frame.                                                               *)
Adds(t) ==
  /\ Grown(t) /\ Ready(t)
  /\ New(t).kind \in {"batch", "case"}
  /\ New(t).kind = "batch" => New(t).engine \in Engines
  /\ New(t).obj \in Lent \union {None}
  /\ \A u \in Threads : \A i \in DOMAIN calls[u] : calls'[u][i] = calls[u][i]
  /\ UNCHANGED <<storage, stack, hits, slots, heap, held, ordered>>

(* Batch and StartCase do.                                                 *)
LEMMA AddActions ==
  ASSUME TypeOK, Vectors, Batches, NEW t \in Threads,
         \/ \E e \in Engines, o \in Lent \union {None} : Batch(t, e, o)
         \/ \E w \in Threads : StartCase(t, w)
  PROVE  \E w \in Threads : Adds(w)
<1>1. ASSUME NEW e \in Engines, NEW o \in Lent \union {None}, Batch(t, e, o)
      PROVE  Adds(t)
  <2> DEFINE c == BatchCall("batch", e, o, MaxBatch)
  <2>1. calls' = [calls EXCEPT ![t] = Append(@, c)]
        /\ UNCHANGED <<storage, stack, hits, slots, heap, held, ordered>>
    BY <1>1 DEF Batch, BatchCall
  <2>2. Ready(t)
    BY <1>1, ReadyWhen DEF Batch, InUserCode
  <2>3. /\ "batch" \in Kinds /\ e \in Engines \union {None}
        /\ o \in Objects \union {None} /\ MaxBatch \in 0 .. MaxBatch
    BY StateAssumption DEF Kinds, Objects
  <2>4. c \in CallType /\ c.kind = "batch" /\ c.engine = e /\ c.obj = o
    BY <2>3, BatchTyped
  <2> HIDE DEF c
  <2>5. /\ Grown(t) /\ New(t) = c
        /\ \A u \in Threads : \A i \in DOMAIN calls[u] : calls'[u][i] = calls[u][i]
    BY <2>1, <2>4, AddEffect
  <2> QED  BY <2>1, <2>2, <2>4, <2>5 DEF Adds
<1>2. ASSUME NEW w \in Threads, StartCase(t, w)
      PROVE  Adds(w)
  <2> DEFINE e == calls[t][InCall(t)].engine
             c == CaseCall("case", e, None, t)
  <2>1. /\ InKind(t) = "run" /\ calls[w] = <<>>
        /\ calls' = [calls EXCEPT ![w] = <<c>>]
        /\ UNCHANGED <<storage, stack, hits, slots, heap, held, ordered>>
    BY <1>2 DEF StartCase, CaseCall
  <2>2. e \in Engines \union {None}
    <3>1. InCall(t) # 0
      BY <2>1 DEF InKind
    <3>2. InCall(t) \in DOMAIN calls[t]
      BY <3>1, InnermostIsLast
    <3>3. calls[t][InCall(t)] \in CallType
      BY <3>2 DEF TypeOK
    <3> QED  BY <3>3 DEF CallType
  <2> HIDE DEF e
  <2>3. "case" \in Kinds /\ None \in Objects \union {None}
    BY DEF Kinds
  <2>4. c \in CallType /\ c.kind = "case" /\ c.engine = e /\ c.obj = None
    <3>1. \A kind \in Kinds, f \in Engines \union {None}, o \in Objects \union {None} :
            LET d == CaseCall(kind, f, o, t)
            IN  d \in CallType /\ d.kind = kind /\ d.engine = f /\ d.obj = o
      BY CaseTyped
    <3> QED  BY <2>2, <2>3, <3>1
  <2> HIDE DEF c
  <2>5. calls \in [Threads -> Seq(CallType)] /\ <<c>> = Append(calls[w], c)
    BY <2>1 DEF Vectors
  <2>6. calls' = [calls EXCEPT ![w] = Append(@, c)]
    BY <2>1, <2>5
  <2>7. /\ Grown(w) /\ New(w) = c
        /\ \A u \in Threads : \A i \in DOMAIN calls[u] : calls'[u][i] = calls[u][i]
    BY <2>4, <2>6, AddEffect
  <2>8. Ready(w)
    BY <2>1 DEF Ready
  <2> QED  BY <2>1, <2>4, <2>7, <2>8 DEF Adds
<1> QED  BY <1>1, <1>2

(* A call that has no frame leaves every other as it is.                   *)
LEMMA AddsKeep ==
  ASSUME IInv, NEW t \in Threads, Adds(t)
  PROVE  IInv'
<1>1. /\ Grown(t) /\ Ready(t)
      /\ \A u \in Threads : \A i \in DOMAIN calls[u] : calls'[u][i] = calls[u][i]
      /\ storage' = storage /\ stack' = stack /\ hits' = hits /\ slots' = slots
      /\ heap' = heap /\ held' = held /\ ordered' = ordered
      /\ New(t).kind \in {"batch", "case"}
      /\ New(t).kind = "batch" => New(t).engine \in Engines
      /\ New(t).obj \in Lent \union {None}
  BY DEF Adds
<1>2. calls' \in [Threads -> Seq(CallType)]
  BY <1>1 DEF Grown
<1>3. ASSUME NEW u \in Threads, NEW i \in DOMAIN calls'[u]
      PROVE  \/ i \in DOMAIN calls[u] /\ calls'[u][i] = calls[u][i]
             \/ u = t /\ i = Len(calls[u]) + 1 /\ calls'[u][i] = New(t)
  BY <1>1, GrownCalls
<1>4. New(t).obj \notin Values /\ New(t).obj \notin Slots /\ New(t).obj \notin Heap
  BY <1>1, ObjectsApart DEF Objects
<1>5. TypeOK' /\ Vectors'
  <2>1. Vectors'
    BY <1>1, <1>2 DEF IInv, Vectors, CallType
  <2>2. ASSUME NEW u \in Threads
        PROVE  /\ \A i \in DOMAIN stack'[u] : stack'[u][i] \in Objects
               /\ \A i \in DOMAIN calls'[u] : calls'[u][i] \in CallType
               /\ \A i \in DOMAIN calls'[u] : Framed(calls'[u][i]) => calls'[u][i].obj # None
    <3>1. \A i \in DOMAIN stack'[u] : stack'[u][i] \in Objects
      BY <1>1 DEF IInv, TypeOK
    <3>2. calls'[u] \in Seq(CallType)
      BY <1>2
    <3>3. ASSUME NEW i \in DOMAIN calls'[u], Framed(calls'[u][i])
          PROVE  calls'[u][i].obj # None
      BY <1>1, <1>3, <3>3 DEF Framed, IInv, TypeOK
    <3> QED  BY <3>1, <3>2, <3>3
  <2>3. DOMAIN calls' = Threads
    BY <1>2
  <2>4. TypeOK
    BY DEF IInv
  <2>5. TypeOK'
    BY <1>1, <2>2, <2>3, <2>4 DEF TypeOK, CallType
  <2> QED  BY <2>1, <2>5
<1>6. Batches'
  BY <1>1, GrownBatches DEF IInv
<1>7. FramesAreOnTheStack'
  <2> SUFFICES ASSUME NEW u \in Threads
               PROVE  Fits(stack'[u], calls'[u], ordered'[u])
    BY FramesFit
  <2>1. Fits(stack[u], calls[u], ordered[u])
    BY FramesFit DEF IInv
  <2>2. /\ DOMAIN calls[u] = 1 .. Len(calls[u]) /\ Len(calls[u]) \in Nat
        /\ DOMAIN stack[u] = 1 .. Len(stack[u]) /\ Len(stack[u]) \in Nat
        /\ DOMAIN calls'[u] = 1 .. Len(calls'[u]) /\ Len(calls'[u]) \in Nat
    BY <1>2 DEF IInv, Vectors
  <2> DEFINE same == [i \in DOMAIN calls[u] |-> i]
  <2>3. Carries(calls[u], calls'[u], same, DOMAIN calls[u])
    <3>1. DOMAIN calls[u] \subseteq DOMAIN calls'[u]
      BY <1>1, <2>2 DEF Grown
    <3> QED  BY <1>1, <3>1 DEF Carries
  <2>4. Live(calls'[u]) \subseteq DOMAIN calls[u]
    BY <1>1, <1>3 DEF Live, Framed
  <2>5. \A i \in Live(calls[u]) : \E j \in DOMAIN calls[u] : same[j] = i
    BY DEF Live
  <2> HIDE DEF same
  <2>6. /\ DOMAIN calls[u] \subseteq Nat /\ DOMAIN calls'[u] \subseteq Nat
        /\ DOMAIN stack[u] \subseteq Nat
    BY <2>2
  <2>7. Fits(stack[u], calls'[u], ordered[u])
    BY <2>1, <2>3, <2>4, <2>5, <2>6, FitsSame
  <2> QED  BY <1>1, <2>7
<1>8. Sources'
  <2>1. ASSUME NEW u \in Threads, NEW i \in DOMAIN calls'[u]
        PROVE  LET c == calls'[u][i]
               IN  /\ c.kind \in {"run", "batch"} => c.engine \in Engines
                   /\ c.kind = "batch" => c.obj \in Lent \union {None}
                   /\ c.obj \in Slots => c.obj = Slot(c.engine, u) /\ <<c.engine, u>> \in slots
                   /\ c.kind = "run" /\ c.kept /\ c.obj \in Heap
                        => c.engine \in DOMAIN heap /\ heap[c.engine] = c.obj
    BY <1>1, <1>3, <1>4 DEF IInv, Sources
  <2>2. Slots' = Slots /\ \A e1, u1 : Slot(e1, u1)' = Slot(e1, u1)
    BY DEF Slots, Slot
  <2> QED  BY <1>1, <2>1, <2>2 DEF Sources
<1>9. OneAlone'
  <2>1. ASSUME NEW u \in Threads, NEW v \in Threads,
               NEW i \in DOMAIN calls'[u], NEW j \in DOMAIN calls'[v],
               calls'[u][i].obj \in Values, calls'[u][i].obj = calls'[v][j].obj,
               calls'[u][i].alone
        PROVE  u = v /\ i = j
    <3>1. /\ i \in DOMAIN calls[u] /\ calls'[u][i] = calls[u][i]
          /\ j \in DOMAIN calls[v] /\ calls'[v][j] = calls[v][j]
      BY <1>3, <1>4, <2>1
    <3> QED  BY <2>1, <3>1 DEF IInv, OneAlone
  <2> QED  BY <2>1 DEF OneAlone, Values, Value
<1>10. ResetRunsSeeTheirWrites'
  <2>1. ASSUME NEW u \in Threads, NEW i \in DOMAIN calls'[u],
               calls'[u][i].kind = "run", calls'[u][i].alone,
               calls'[u][i].obj = Value(calls'[u][i].engine),
               storage[calls'[u][i].engine] = "reset_per_run"
        PROVE  hits[calls'[u][i].obj] = calls'[u][i].writes
    BY <1>1, <1>3, <2>1 DEF IInv, ResetRunsSeeTheirWrites
  <2> QED  BY <1>1, <2>1 DEF ResetRunsSeeTheirWrites, Value
<1>11. Unmade'
  BY <1>1 DEF IInv, Unmade, Slot
<1> QED  BY <1>5, <1>6, <1>7, <1>8, <1>9, <1>10, <1>11 DEF IInv

(* A step that makes no call and ends none, and what it does to states and *)
(* storages: a run that is alone with a value still sees its own writes, a *)
(* run whose state is kept still has it in the storage, and a slot that    *)
(* has not been made is not written to.                                    *)
Keeps ==
  /\ Touched
  /\ hits' \in [Values \union Slots -> Nat]
  /\ heap' \in [DOMAIN heap -> Heap]
  /\ \A u \in Threads : \A i \in DOMAIN calls[u] :
       LET c == calls[u][i]
           d == calls'[u][i]
       IN  /\ d.kept /\ c.kind = "run" /\ c.kept /\ c.engine \in DOMAIN heap
                /\ heap[c.engine] = c.obj => heap'[c.engine] = c.obj
           /\ d.alone /\ c.obj \in Values /\ hits[c.obj] = c.writes
                => hits'[c.obj] = d.writes
  /\ \A e \in Engines, u \in Threads :
       <<e, u>> \notin slots => hits'[Slot(e, u)] = hits[Slot(e, u)]
  /\ UNCHANGED <<storage, stack, slots, ordered>>
  /\ held' \subseteq Heap

(* Write, SetState and SetSharedState are such steps.                      *)
LEMMA KeepActions ==
  ASSUME IInv,
         \/ \E t \in Threads : Write(t)
         \/ \E e \in Engines, value \in 0 .. MaxHits : SetState(e, value)
         \/ \E e \in Engines, o \in Heap : SetSharedState(e, o)
  PROVE  Keeps
<1>1. /\ hits \in [Values \union Slots -> Nat] /\ held \subseteq Heap
      /\ heap \in [DOMAIN heap -> Heap] /\ DOMAIN heap = {e \in Engines : storage[e] = "shared"}
  BY DEF IInv, TypeOK
<1>2. ASSUME NEW t \in Threads, Write(t)
      PROVE  Keeps
  <2> DEFINE o == Top(t)
             w == Writer(t, o)
  <2>1. /\ Touched
        /\ o \in Values \union Slots /\ o \in Objects
        /\ hits' = [hits EXCEPT ![o] = @ + 1]
        /\ w \in Frames(t) /\ calls[t][w].obj = o
        /\ \A u \in Threads : \A i \in DOMAIN calls[u] :
             calls'[u][i].writes = calls[u][i].writes
               + (IF u = t /\ i = w /\ o \in Values /\ calls[t][w].alone THEN 1 ELSE 0)
    BY <1>2, WriteEffect DEF IInv
  <2>2. UNCHANGED <<storage, stack, slots, heap, held, ordered>>
    BY <1>2 DEF Write
  <2> HIDE DEF o, w
  <2>3. w \in DOMAIN calls[t]
    BY <2>1 DEF Frames
  <2>4. /\ hits' \in [Values \union Slots -> Nat] /\ hits'[o] = hits[o] + 1
        /\ \A x \in Values \union Slots : x # o => hits'[x] = hits[x]
    BY <1>1, <2>1
  <2>5. ASSUME NEW u \in Threads, NEW i \in DOMAIN calls[u],
               calls'[u][i].alone, calls[u][i].obj \in Values,
               hits[calls[u][i].obj] = calls[u][i].writes
        PROVE  hits'[calls[u][i].obj] = calls'[u][i].writes
    <3>1. calls[u][i].alone
      BY <2>1, <2>5 DEF Touched, Stays
    <3>2. calls[u][i].writes \in Nat
      <4>1. calls[u][i] \in CallType
        BY DEF IInv, TypeOK
      <4> QED  BY <4>1 DEF CallType
    <3>3. CASE calls[u][i].obj = o
      <4>1. u = t /\ i = w
        BY <2>1, <2>3, <2>5, <3>1, <3>3 DEF IInv, OneAlone
      <4>2. o \in Values /\ calls[t][w].alone
        BY <2>5, <3>1, <3>3, <4>1
      <4>3. calls'[u][i].writes = calls[u][i].writes + 1
        BY <2>1, <4>1, <4>2
      <4> QED  BY <2>4, <2>5, <3>3, <4>3
    <3>4. CASE calls[u][i].obj # o
      <4>1. ~(u = t /\ i = w)
        BY <2>1, <3>4
      <4>2. calls'[u][i].writes = calls[u][i].writes + 0
        BY <2>1, <4>1
      <4>3. hits'[calls[u][i].obj] = hits[calls[u][i].obj]
        BY <2>4, <2>5, <3>4
      <4> QED  BY <2>5, <3>2, <4>2, <4>3
    <3> QED  BY <3>3, <3>4
  <2>6. ASSUME NEW e \in Engines, NEW u \in Threads, <<e, u>> \notin slots
        PROVE  hits'[Slot(e, u)] = hits[Slot(e, u)]
    <3>1. Slot(e, u) # o
      <4> SUFFICES ASSUME Slot(e, u) = o
                   PROVE  FALSE
        OBVIOUS
      <4>1. o \in Slots
        BY ObjectsApart
      <4>2. o = Slot(calls[t][w].engine, t) /\ <<calls[t][w].engine, t>> \in slots
        BY <2>1, <2>3, <4>1 DEF IInv, Sources
      <4> QED  BY <2>6, <4>2, ObjectsApart
    <3> QED  BY <2>4, <3>1, ObjectsApart
  <2> QED  BY <1>1, <2>1, <2>2, <2>4, <2>5, <2>6 DEF Keeps
<1>3. ASSUME NEW e \in Engines, NEW value \in 0 .. MaxHits, SetState(e, value)
      PROVE  Keeps
  <2>1. /\ Touched
        /\ \A u \in Threads : \A i \in DOMAIN calls[u] :
             /\ calls[u][i].obj = Value(e) => ~calls'[u][i].alone
             /\ calls'[u][i].alone => calls'[u][i].writes = calls[u][i].writes
    BY <1>3, SetEffect DEF IInv
  <2>2. /\ hits' = [hits EXCEPT ![Value(e)] = value] /\ value \in Nat
        /\ UNCHANGED <<storage, stack, slots, heap, held, ordered>>
    BY <1>3 DEF SetState
  <2>3. Value(e) \in Values /\ Value(e) \notin Slots
    BY ObjectsApart
  <2>4. /\ hits' \in [Values \union Slots -> Nat]
        /\ \A x \in Values \union Slots : x # Value(e) => hits'[x] = hits[x]
    BY <1>1, <2>2
  <2>5. \A f \in Engines, u \in Threads : hits'[Slot(f, u)] = hits[Slot(f, u)]
    BY <2>3, <2>4, ObjectsApart
  <2>6. \A u \in Threads : \A i \in DOMAIN calls[u] :
          calls'[u][i].alone /\ calls[u][i].obj \in Values
            /\ hits[calls[u][i].obj] = calls[u][i].writes
          => hits'[calls[u][i].obj] = calls'[u][i].writes
    BY <2>1, <2>4
  <2> QED  BY <1>1, <2>1, <2>2, <2>4, <2>5, <2>6 DEF Keeps
<1>4. ASSUME NEW e \in Engines, NEW o \in Heap, SetSharedState(e, o)
      PROVE  Keeps
  <2>1. /\ Touched
        /\ \A u \in Threads : \A i \in DOMAIN calls[u] :
             /\ calls'[u][i].kept => calls[u][i].obj # heap[e]
             /\ calls'[u][i].alone = calls[u][i].alone
             /\ calls'[u][i].writes = calls[u][i].writes
    BY <1>4, ShareEffect DEF IInv
  <2>2. /\ heap' = [heap EXCEPT ![e] = o]
        /\ UNCHANGED <<storage, stack, hits, slots, held, ordered>>
    BY <1>4 DEF SetSharedState
  <2>3. /\ heap' \in [DOMAIN heap -> Heap]
        /\ \A f \in DOMAIN heap : f # e => heap'[f] = heap[f]
    BY <1>1, <2>2
  <2>4. \A u \in Threads : \A i \in DOMAIN calls[u] :
          calls'[u][i].kept /\ calls[u][i].engine \in DOMAIN heap
            /\ heap[calls[u][i].engine] = calls[u][i].obj
          => heap'[calls[u][i].engine] = calls[u][i].obj
    BY <2>1, <2>3
  <2> QED  BY <1>1, <2>1, <2>2, <2>3, <2>4 DEF Keeps
<1> QED  BY <1>2, <1>3, <1>4

(* Such a step keeps the invariant.                                        *)
LEMMA KeepsKeep ==
  ASSUME IInv, Keeps
  PROVE  IInv'
<1>1. /\ calls' \in [Threads -> Seq(CallType)]
      /\ hits' \in [Values \union Slots -> Nat]
      /\ heap' \in [DOMAIN heap -> Heap] /\ held' \subseteq Heap
      /\ storage' = storage /\ stack' = stack /\ slots' = slots /\ ordered' = ordered
  BY DEF Keeps, Touched
<1>2. \A u \in Threads :
        /\ DOMAIN calls'[u] = DOMAIN calls[u]
        /\ \A i \in DOMAIN calls[u] : Stays(calls[u][i], calls'[u][i])
  BY DEF Keeps, Touched
<1>3. TypeOK' /\ Vectors'
  <2>1. Vectors'
    BY <1>1 DEF IInv, Vectors, CallType
  <2>2. ASSUME NEW u \in Threads
        PROVE  /\ \A i \in DOMAIN stack'[u] : stack'[u][i] \in Objects
               /\ \A i \in DOMAIN calls'[u] : calls'[u][i] \in CallType
               /\ \A i \in DOMAIN calls'[u] : Framed(calls'[u][i]) => calls'[u][i].obj # None
    <3>1. \A i \in DOMAIN stack'[u] : stack'[u][i] \in Objects
      BY <1>1 DEF IInv, TypeOK
    <3>2. calls'[u] \in Seq(CallType)
      BY <1>1
    <3>3. ASSUME NEW i \in DOMAIN calls'[u], Framed(calls'[u][i])
          PROVE  calls'[u][i].obj # None
      <4>1. i \in DOMAIN calls[u] /\ Stays(calls[u][i], calls'[u][i])
        BY <1>2
      <4>2. Framed(calls[u][i]) => calls[u][i].obj # None
        BY <4>1 DEF IInv, TypeOK
      <4> QED  BY <3>3, <4>1, <4>2 DEF Stays, Framed
    <3> QED  BY <3>1, <3>2, <3>3
  <2>3. DOMAIN calls' = Threads
    BY <1>1
  <2>4. TypeOK
    BY DEF IInv
  <2>5. heap' \in [{e \in Engines : storage[e] = "shared"} -> Heap]
    BY <1>1, <2>4 DEF TypeOK
  <2>6. TypeOK'
    BY <1>1, <2>2, <2>3, <2>4, <2>5 DEF TypeOK, CallType
  <2> QED  BY <2>1, <2>6
<1>4. Batches'
  <2> SUFFICES ASSUME NEW u \in Threads, NEW i \in DOMAIN calls'[u], NEW j \in DOMAIN calls'[u],
                      i < j, calls'[u][i].kind = "batch", IsCall(calls'[u][j])
               PROVE  calls'[u][i].left > 0
    BY DEF Batches, IsCall
  <2>1. /\ i \in DOMAIN calls[u] /\ j \in DOMAIN calls[u]
        /\ Stays(calls[u][i], calls'[u][i]) /\ Stays(calls[u][j], calls'[u][j])
    BY <1>2
  <2>2. calls[u][i].kind = "batch" /\ IsCall(calls[u][j])
        /\ calls'[u][i].left = calls[u][i].left
    BY <2>1 DEF Stays, IsCall
  <2> QED  BY <2>1, <2>2 DEF IInv, Batches
<1>5. FramesAreOnTheStack'
  <2> SUFFICES ASSUME NEW u \in Threads
               PROVE  Fits(stack'[u], calls'[u], ordered'[u])
    BY FramesFit
  <2>1. Fits(stack[u], calls[u], ordered[u])
    BY FramesFit DEF IInv
  <2>2. /\ DOMAIN calls[u] = 1 .. Len(calls[u]) /\ Len(calls[u]) \in Nat
        /\ DOMAIN stack[u] = 1 .. Len(stack[u]) /\ Len(stack[u]) \in Nat
    BY DEF IInv, Vectors
  <2>3. DOMAIN calls[u] \subseteq Nat /\ DOMAIN stack[u] \subseteq Nat
    BY <2>2
  <2>4. \A i \in DOMAIN calls[u] :
          calls'[u][i].kind = calls[u][i].kind /\ calls'[u][i].obj = calls[u][i].obj
    BY <1>2 DEF Stays
  <2>5. Fits(stack[u], calls'[u], ordered[u])
    BY <1>2, <2>1, <2>3, <2>4, FitsStays
  <2> QED  BY <1>1, <2>5
<1>6. Sources'
  <2>1. ASSUME NEW u \in Threads, NEW i \in DOMAIN calls'[u]
        PROVE  LET c == calls'[u][i]
               IN  /\ c.kind \in {"run", "batch"} => c.engine \in Engines
                   /\ c.kind = "batch" => c.obj \in Lent \union {None}
                   /\ c.obj \in Slots => c.obj = Slot(c.engine, u) /\ <<c.engine, u>> \in slots
                   /\ c.kind = "run" /\ c.kept /\ c.obj \in Heap
                        => c.engine \in DOMAIN heap' /\ heap'[c.engine] = c.obj
    <3> DEFINE c == calls[u][i]
               d == calls'[u][i]
    <3>1. i \in DOMAIN calls[u]
      BY <1>2
    <3>2. Stays(c, d)
      BY <1>2, <3>1
    <3>3. /\ c.kind \in {"run", "batch"} => c.engine \in Engines
          /\ c.kind = "batch" => c.obj \in Lent \union {None}
          /\ c.obj \in Slots => c.obj = Slot(c.engine, u) /\ <<c.engine, u>> \in slots
          /\ c.kind = "run" /\ c.kept /\ c.obj \in Heap
               => c.engine \in DOMAIN heap /\ heap[c.engine] = c.obj
      BY <3>1 DEF IInv, Sources
    <3>4. d.kept /\ c.kind = "run" /\ c.kept /\ c.engine \in DOMAIN heap
            /\ heap[c.engine] = c.obj => heap'[c.engine] = c.obj
      BY <3>1 DEF Keeps
    <3>5. DOMAIN heap' = DOMAIN heap
      BY <1>1
    <3> HIDE DEF c
    <3> QED  BY <3>2, <3>3, <3>4, <3>5 DEF Stays
  <2>2. Slots' = Slots /\ \A e1, u1 : Slot(e1, u1)' = Slot(e1, u1)
    BY DEF Slots, Slot
  <2> QED  BY <1>1, <2>1, <2>2 DEF Sources
<1>7. OneAlone'
  <2>1. ASSUME NEW u \in Threads, NEW v \in Threads,
               NEW i \in DOMAIN calls'[u], NEW j \in DOMAIN calls'[v],
               calls'[u][i].obj \in Values, calls'[u][i].obj = calls'[v][j].obj,
               calls'[u][i].alone
        PROVE  u = v /\ i = j
    <3>1. /\ i \in DOMAIN calls[u] /\ Stays(calls[u][i], calls'[u][i])
          /\ j \in DOMAIN calls[v] /\ Stays(calls[v][j], calls'[v][j])
      BY <1>2
    <3>2. /\ calls[u][i].obj \in Values /\ calls[u][i].obj = calls[v][j].obj
          /\ calls[u][i].alone
      BY <2>1, <3>1 DEF Stays
    <3> QED  BY <3>1, <3>2 DEF IInv, OneAlone
  <2> QED  BY <2>1 DEF OneAlone, Values, Value
<1>8. ResetRunsSeeTheirWrites'
  <2>1. ASSUME NEW u \in Threads, NEW i \in DOMAIN calls'[u],
               calls'[u][i].kind = "run", calls'[u][i].alone,
               calls'[u][i].obj = Value(calls'[u][i].engine),
               storage[calls'[u][i].engine] = "reset_per_run"
        PROVE  hits'[calls'[u][i].obj] = calls'[u][i].writes
    <3> DEFINE c == calls[u][i]
               d == calls'[u][i]
    <3>1. i \in DOMAIN calls[u]
      BY <1>2
    <3>2. d.kind = c.kind /\ d.engine = c.engine /\ d.obj = c.obj /\ c.alone
      BY <1>2, <2>1, <3>1 DEF Stays
    <3>3. hits[c.obj] = c.writes
      BY <2>1, <3>1, <3>2 DEF IInv, ResetRunsSeeTheirWrites
    <3>4. c.engine \in Engines
      BY <2>1, <3>1, <3>2 DEF IInv, Sources
    <3>5. c.obj \in Values
      BY <2>1, <3>2, <3>4, ObjectsApart
    <3>6. d.alone /\ c.obj \in Values /\ hits[c.obj] = c.writes => hits'[c.obj] = d.writes
      BY <3>1 DEF Keeps
    <3> QED  BY <2>1, <3>2, <3>3, <3>5, <3>6
  <2> QED  BY <1>1, <2>1 DEF ResetRunsSeeTheirWrites, Value
<1>9. Unmade'
  <2>1. \A e \in Engines, u \in Threads : <<e, u>> \notin slots => hits'[Slot(e, u)] = 0
    BY DEF Keeps, IInv, Unmade
  <2> QED  BY <1>1, <2>1 DEF Unmade, Slot
<1> QED  BY <1>3, <1>4, <1>5, <1>6, <1>7, <1>8, <1>9 DEF IInv

(* Calls of t end; the stacks still fit what is left.                      *)
Ends(t, gone, place) ==
  /\ Ended(t, gone, place) /\ SameLeft(t, place)
  /\ stack' \in [Threads -> Seq(Objects)] /\ ordered' \in [Threads -> BOOLEAN]
  /\ \A u \in Threads : Fits(stack'[u], calls'[u], ordered'[u])
  /\ UNCHANGED <<storage, hits, slots, heap, held>>

(* The calls that remain have the places of those they were.               *)
LEMMA RemainsCarries ==
  ASSUME NEW cs \in Seq(CallType), NEW ds, NEW gone, NEW place, Remains(cs, ds, gone, place),
         NEW ms, DOMAIN ms = DOMAIN cs,
         \A l \in DOMAIN cs \ gone : ms[l] = cs[l]
  PROVE  Carries(ms, ds, place, DOMAIN ds)
<1>1. \A j \in DOMAIN ds : place[j] \in DOMAIN cs /\ place[j] \notin gone
  BY DEF Remains
<1>2. \A j \in DOMAIN ds : ds[j].kind = ms[place[j]].kind /\ ds[j].obj = ms[place[j]].obj
  BY <1>1 DEF Remains, Resumes
<1>3. place \in [DOMAIN ds -> DOMAIN ms]
  BY DEF Remains
<1>4. \A i, j \in DOMAIN ds : i < j => place[i] < place[j]
  BY DEF Remains
<1> QED  BY <1>2, <1>3, <1>4 DEF Carries

(* A batch or a case has no frame: the stack stays.                        *)
LEMMA FramelessEnds ==
  ASSUME IInv, NEW t \in Threads, NEW k \in DOMAIN calls[t], ~Framed(calls[t][k]),
         calls' = [calls EXCEPT ![t] = RemoveAt(calls[t], k)],
         UNCHANGED <<storage, stack, hits, slots, heap, held, ordered>>
  PROVE  \E gone, place : Ends(t, gone, place)
<1>1. PICK place : Ended(t, {k}, place) /\ SameLeft(t, place)
  BY OneEnds DEF IInv
<1>2. stack' \in [Threads -> Seq(Objects)] /\ ordered' \in [Threads -> BOOLEAN]
  BY DEF IInv, Vectors, TypeOK
<1>3. ASSUME NEW u \in Threads
      PROVE  Fits(stack'[u], calls'[u], ordered'[u])
  <2>1. Fits(stack[u], calls[u], ordered[u]) /\ stack'[u] = stack[u] /\ ordered'[u] = ordered[u]
    BY FramesFit DEF IInv
  <2>2. CASE u # t
    BY <1>1, <2>1, <2>2 DEF Ended
  <2>3. CASE u = t
    <3>1. Remains(calls[t], calls'[t], {k}, place) /\ calls[t] \in Seq(CallType)
      BY <1>1 DEF Ended, IInv, Vectors
    <3>2. Carries(calls[t], calls'[t], place, DOMAIN calls'[t])
      BY <3>1, RemainsCarries
    <3>3. Live(calls'[t]) \subseteq DOMAIN calls'[t]
      BY DEF Live
    <3>4. \A i \in Live(calls[t]) : \E j \in DOMAIN calls'[t] : place[j] = i
      BY <3>1 DEF Live, Remains
    <3>5. stack[t] \in Seq(Objects) /\ calls'[t] \in Seq(CallType)
      BY <3>1 DEF IInv, Vectors, Remains
    <3>6. DOMAIN calls[t] \subseteq Nat /\ DOMAIN calls'[t] \subseteq Nat
          /\ DOMAIN stack[t] \subseteq Nat
      BY <3>1, <3>5
    <3>7. Fits(stack[t], calls'[t], ordered[t])
      BY <2>1, <2>3, <3>2, <3>3, <3>4, <3>6, FitsSame
    <3> QED  BY <2>1, <2>3, <3>7
  <2> QED  BY <2>2, <2>3
<1>4. Ends(t, {k}, place)
  BY <1>1, <1>2, <1>3 DEF Ends
<1> QED  BY <1>4

(* The end of a frame takes the last entry with its state: what is left    *)
(* fits the frames that are left.                                          *)
LEMMA FramedEnds ==
  ASSUME IInv, NEW t \in Threads, NEW i \in Live(calls[t]), NEW gone, NEW place,
         Unframes(t, i, gone, place), UNCHANGED <<storage, hits, slots, heap, held>>
  PROVE  Ends(t, gone, place)
<1> DEFINE cs == calls[t]
           s == stack[t]
           p == Popped(s, cs[i].obj)
           mid == [cs EXCEPT ![i].kind = "batch"]
<1>1. /\ cs \in Seq(CallType) /\ s \in Seq(Objects)
      /\ stack \in [Threads -> Seq(Objects)]
  BY DEF IInv, Vectors
<1>2. /\ Ended(t, gone, place) /\ SameLeft(t, place)
      /\ gone \intersect Live(cs) = {i}
      /\ stack' = [stack EXCEPT ![t] = p]
      /\ ordered' \in [Threads -> BOOLEAN]
      /\ \A u \in Threads : u # t => ordered'[u] = ordered[u]
      /\ ordered'[t] => p = <<>> \/ (ordered[t] /\ \A l \in Live(cs) : l <= i)
  BY DEF Unframes
<1>3. Remains(cs, calls'[t], gone, place)
  BY <1>2 DEF Ended
<1>4. p \in Seq(Objects)
  <2>1. PICK n \in DOMAIN s : cs[i].obj = s[n]
    <3>1. i \in Frames(t)
      BY DEF Frames, Live
    <3> QED  BY <3>1, EntriesAreFrames DEF IInv
  <2>2. PICK k \in DOMAIN s : Popped(s, s[n]) = RemoveAt(s, k)
    BY <1>1, PoppedLast
  <2> QED  BY <1>1, <2>1, <2>2, RemoveAtProperties
<1>5. Fits(p, mid, ordered'[t])
  <2>1. Fits(s, cs, ordered[t])
    BY FramesFit DEF IInv
  <2> HIDE DEF s, cs
  <2>2. /\ i \in Live(cs)
        /\ ordered'[t] => \/ p = <<>>
                          \/ ordered[t] /\ \A l \in Live(cs) : l <= i
    BY <1>2 DEF cs
  <2> QED  BY <1>1, <2>1, <2>2, FitsPop
<1>6. i \in DOMAIN cs /\ i \in gone /\ DOMAIN mid = DOMAIN cs
      /\ \A l \in DOMAIN cs : l # i => mid[l] = cs[l]
  BY <1>2 DEF Live
<1>7. mid[i].kind = "batch"
  <2>1. cs[i] \in CallType
    BY <1>1, <1>6
  <2> QED  BY <1>6, <2>1 DEF CallType
<1> HIDE DEF mid, p
<1>8. Carries(mid, calls'[t], place, DOMAIN calls'[t])
  BY <1>1, <1>3, <1>6, RemainsCarries
<1>9. Live(calls'[t]) \subseteq DOMAIN calls'[t]
  BY DEF Live
<1>10. \A l \in Live(mid) : \E j \in DOMAIN calls'[t] : place[j] = l
  <2> SUFFICES ASSUME NEW l \in Live(mid)
               PROVE  \E j \in DOMAIN calls'[t] : place[j] = l
    OBVIOUS
  <2>1. l \in DOMAIN cs /\ l # i /\ Framed(cs[l])
    BY <1>6, <1>7 DEF Live, Framed
  <2>2. l \in Live(cs) /\ l \notin gone
    BY <1>2, <2>1 DEF Live
  <2> QED  BY <1>3, <2>1, <2>2 DEF Remains
<1>11. Fits(p, calls'[t], ordered'[t])
  <2>1. calls'[t] \in Seq(CallType)
    BY <1>3 DEF Remains
  <2>2. DOMAIN calls'[t] \subseteq Nat /\ DOMAIN mid \subseteq Nat /\ DOMAIN p \subseteq Nat
    BY <1>1, <1>4, <1>6, <2>1
  <2> QED  BY <1>5, <1>8, <1>9, <1>10, <2>2, FitsSame
<1>12. \A u \in Threads : Fits(stack'[u], calls'[u], ordered'[u])
  <2> SUFFICES ASSUME NEW u \in Threads
               PROVE  Fits(stack'[u], calls'[u], ordered'[u])
    OBVIOUS
  <2>1. Fits(stack[u], calls[u], ordered[u])
    BY FramesFit DEF IInv
  <2>2. CASE u # t
    BY <1>1, <1>2, <2>1, <2>2 DEF Ended
  <2>3. CASE u = t
    BY <1>1, <1>2, <1>11, <2>3
  <2> QED  BY <2>2, <2>3
<1>13. stack' \in [Threads -> Seq(Objects)]
  BY <1>1, <1>2, <1>4
<1> QED  BY <1>2, <1>12, <1>13 DEF Ends

(* A batch, a case, a run and an explicit frame end.                       *)
LEMMA EndActions ==
  ASSUME IInv, NEW t \in Threads,
         \/ BatchReturns(t)
         \/ \E throws \in BOOLEAN : Leave(t, throws)
         \/ \E i \in DOMAIN calls[t] : DropFrame(t, i)
         \/ EndCase(t)
  PROVE  \E gone, place : Ends(t, gone, place)
<1>1. CASE BatchReturns(t) \/ EndCase(t)
  <2> DEFINE k == InCall(t)
  <2>1. InKind(t) \in {"batch", "case"}
    BY <1>1 DEF BatchReturns, EndCase
  <2>2. k # 0 /\ calls[t][k].kind \in {"batch", "case"}
    BY <2>1 DEF InKind
  <2>3. k \in DOMAIN calls[t] /\ ~Framed(calls[t][k])
    BY <2>2, InnermostIsLast DEF IInv, Framed
  <2>4. /\ calls' = [calls EXCEPT ![t] = RemoveAt(calls[t], k)]
        /\ UNCHANGED <<storage, stack, hits, slots, heap, held, ordered>>
    BY <1>1 DEF BatchReturns, EndCase
  <2> HIDE DEF k
  <2> QED  BY <2>3, <2>4, FramelessEnds
<1>2. ASSUME NEW throws \in BOOLEAN, Leave(t, throws)
      PROVE  \E gone, place : Ends(t, gone, place)
  <2>1. PICK gone, place : Unframes(t, InCall(t), gone, place)
    BY <1>2, LeaveEffect DEF IInv
  <2>2. InCall(t) \in Live(calls[t])
    BY <1>2, LeaveEffect DEF IInv
  <2>3. UNCHANGED <<storage, hits, slots, heap, held>>
    BY <1>2 DEF Leave
  <2>4. Ends(t, gone, place)
    BY <2>1, <2>2, <2>3, FramedEnds
  <2> QED  BY <2>4
<1>3. ASSUME NEW i \in DOMAIN calls[t], DropFrame(t, i)
      PROVE  \E gone, place : Ends(t, gone, place)
  <2>1. PICK place : Unframes(t, i, {i}, place)
    BY <1>3, DropEffect DEF IInv
  <2>2. i \in Live(calls[t])
    BY <1>3, DropEffect DEF IInv
  <2>3. UNCHANGED <<storage, hits, slots, heap, held>>
    BY <1>3 DEF DropFrame
  <2>4. Ends(t, {i}, place)
    BY <2>1, <2>2, <2>3, FramedEnds
  <2> QED  BY <2>4
<1> QED  BY <1>1, <1>2, <1>3

(* The place a call had before others ended.                               *)
Was(t, place, u, j) == IF u = t THEN place[j] ELSE j

(* Every call that remains is one that there was, and no two are the same. *)
LEMMA EndsCalls ==
  ASSUME NEW t \in Threads, NEW gone, NEW place, Vectors, Ends(t, gone, place)
  PROVE  /\ \A u \in Threads : \A j \in DOMAIN calls'[u] :
              /\ Was(t, place, u, j) \in DOMAIN calls[u]
              /\ Resumes(calls[u][Was(t, place, u, j)], calls'[u][j])
         /\ \A u \in Threads : \A i, j \in DOMAIN calls'[u] :
              /\ i < j => Was(t, place, u, i) < Was(t, place, u, j)
              /\ Was(t, place, u, i) = Was(t, place, u, j) => i = j
<1>1. /\ \A u \in Threads : u # t => calls'[u] = calls[u]
      /\ Remains(calls[t], calls'[t], gone, place)
      /\ calls' \in [Threads -> Seq(CallType)]
  BY DEF Ends, Ended
<1>2. ASSUME NEW u \in Threads, NEW j \in DOMAIN calls'[u]
      PROVE  /\ Was(t, place, u, j) \in DOMAIN calls[u]
             /\ Resumes(calls[u][Was(t, place, u, j)], calls'[u][j])
  BY <1>1 DEF Was, Remains, Resumes
<1>3. ASSUME NEW u \in Threads, NEW i \in DOMAIN calls'[u], NEW j \in DOMAIN calls'[u]
      PROVE  /\ i < j => Was(t, place, u, i) < Was(t, place, u, j)
             /\ Was(t, place, u, i) = Was(t, place, u, j) => i = j
  <2>1. CASE u # t
    BY <2>1 DEF Was
  <2>2. CASE u = t
    <3>1. i < j \/ j < i \/ i = j
      <4>1. calls'[u] \in Seq(CallType)
        BY <1>1
      <4> QED  BY <4>1
    <3>2. \A k, l \in DOMAIN calls'[t] : k < l => place[k] < place[l]
      BY <1>1 DEF Remains
    <3>3. place[i] \in Nat /\ place[j] \in Nat
      <4>1. place[i] \in DOMAIN calls[t] /\ place[j] \in DOMAIN calls[t]
        BY <1>1, <2>2 DEF Remains
      <4>2. calls[t] \in Seq(CallType)
        BY DEF Vectors
      <4> QED  BY <4>1, <4>2
    <3>4. i < j => place[i] < place[j]
      BY <2>2, <3>2
    <3>5. j < i => place[j] < place[i]
      BY <2>2, <3>2
    <3>6. place[i] = place[j] => i = j
      BY <3>1, <3>3, <3>4, <3>5
    <3> QED  BY <2>2, <3>4, <3>6 DEF Was
  <2> QED  BY <2>1, <2>2
<1> QED  BY <1>2, <1>3

(* The end of a call keeps the invariant.                                  *)
LEMMA EndsKeep ==
  ASSUME IInv, NEW t \in Threads, NEW gone, NEW place, Ends(t, gone, place)
  PROVE  IInv'
<1> DEFINE was(u, j) == Was(t, place, u, j)
<1>1. /\ calls' \in [Threads -> Seq(CallType)]
      /\ stack' \in [Threads -> Seq(Objects)] /\ ordered' \in [Threads -> BOOLEAN]
      /\ storage' = storage /\ hits' = hits /\ slots' = slots /\ heap' = heap /\ held' = held
      /\ SameLeft(t, place)
      /\ \A u \in Threads : u # t => calls'[u] = calls[u]
  BY DEF Ends, Ended
<1>2. /\ \A u \in Threads : \A j \in DOMAIN calls'[u] :
           was(u, j) \in DOMAIN calls[u] /\ Resumes(calls[u][was(u, j)], calls'[u][j])
      /\ \A u \in Threads : \A i, j \in DOMAIN calls'[u] :
           /\ i < j => was(u, i) < was(u, j)
           /\ was(u, i) = was(u, j) => i = j
  BY EndsCalls DEF IInv
<1>3. TypeOK' /\ Vectors'
  <2>1. Vectors'
    BY <1>1 DEF Vectors, CallType
  <2>2. ASSUME NEW u \in Threads
        PROVE  /\ \A i \in DOMAIN stack'[u] : stack'[u][i] \in Objects
               /\ \A i \in DOMAIN calls'[u] : calls'[u][i] \in CallType
               /\ \A i \in DOMAIN calls'[u] : Framed(calls'[u][i]) => calls'[u][i].obj # None
    <3>1. stack'[u] \in Seq(Objects) /\ calls'[u] \in Seq(CallType)
      BY <1>1
    <3>2. ASSUME NEW i \in DOMAIN calls'[u], Framed(calls'[u][i])
          PROVE  calls'[u][i].obj # None
      <4>1. was(u, i) \in DOMAIN calls[u] /\ Resumes(calls[u][was(u, i)], calls'[u][i])
        BY <1>2
      <4> HIDE DEF was
      <4>2. Framed(calls[u][was(u, i)]) => calls[u][was(u, i)].obj # None
        BY <4>1 DEF IInv, TypeOK
      <4> QED  BY <3>2, <4>1, <4>2 DEF Resumes, Framed
    <3> QED  BY <3>1, <3>2
  <2>3. DOMAIN calls' = Threads /\ DOMAIN stack' = Threads
    BY <1>1
  <2>4. TypeOK
    BY DEF IInv
  <2>5. TypeOK'
    BY <1>1, <2>2, <2>3, <2>4 DEF TypeOK, CallType
  <2> QED  BY <2>1, <2>5
<1>4. Batches'
  <2> SUFFICES ASSUME NEW u \in Threads, NEW i \in DOMAIN calls'[u], NEW j \in DOMAIN calls'[u],
                      i < j, calls'[u][i].kind = "batch", IsCall(calls'[u][j])
               PROVE  calls'[u][i].left > 0
    BY DEF Batches, IsCall
  <2>1. CASE u # t
    BY <1>1, <2>1 DEF IInv, Batches
  <2>2. CASE u = t
    <3>1. /\ place[i] \in DOMAIN calls[t] /\ place[j] \in DOMAIN calls[t]
          /\ place[i] < place[j]
          /\ Resumes(calls[t][place[i]], calls'[t][i])
          /\ Resumes(calls[t][place[j]], calls'[t][j])
      BY <1>2, <2>2 DEF Was
    <3>2. calls[t][place[i]].kind = "batch" /\ IsCall(calls[t][place[j]])
      BY <2>2, <3>1 DEF Resumes, IsCall
    <3>3. calls[t][place[i]].left > 0
      BY <3>1, <3>2 DEF IInv, Batches
    <3>4. calls'[t][i].left = calls[t][place[i]].left
      <4>1. j > i
        BY <1>1
      <4> QED  BY <1>1, <2>2, <4>1 DEF SameLeft
    <3> QED  BY <2>2, <3>3, <3>4
  <2> QED  BY <2>1, <2>2
<1>5. FramesAreOnTheStack'
  BY FramesFit DEF Ends
<1> HIDE DEF was
<1>6. Sources'
  <2>1. ASSUME NEW u \in Threads, NEW i \in DOMAIN calls'[u]
        PROVE  LET c == calls'[u][i]
               IN  /\ c.kind \in {"run", "batch"} => c.engine \in Engines
                   /\ c.kind = "batch" => c.obj \in Lent \union {None}
                   /\ c.obj \in Slots => c.obj = Slot(c.engine, u) /\ <<c.engine, u>> \in slots
                   /\ c.kind = "run" /\ c.kept /\ c.obj \in Heap
                        => c.engine \in DOMAIN heap /\ heap[c.engine] = c.obj
    <3> DEFINE c == calls[u][was(u, i)]
               d == calls'[u][i]
    <3>1. was(u, i) \in DOMAIN calls[u] /\ Resumes(c, d)
      BY <1>2
    <3>2. /\ c.kind \in {"run", "batch"} => c.engine \in Engines
          /\ c.kind = "batch" => c.obj \in Lent \union {None}
          /\ c.obj \in Slots => c.obj = Slot(c.engine, u) /\ <<c.engine, u>> \in slots
          /\ c.kind = "run" /\ c.kept /\ c.obj \in Heap
               => c.engine \in DOMAIN heap /\ heap[c.engine] = c.obj
      BY <3>1 DEF IInv, Sources
    <3> HIDE DEF c
    <3> QED  BY <3>1, <3>2 DEF Resumes
  <2>2. Slots' = Slots /\ \A e1, u1 : Slot(e1, u1)' = Slot(e1, u1)
    BY DEF Slots, Slot
  <2> QED  BY <1>1, <2>1, <2>2 DEF Sources
<1>7. OneAlone'
  <2>1. ASSUME NEW u \in Threads, NEW v \in Threads,
               NEW i \in DOMAIN calls'[u], NEW j \in DOMAIN calls'[v],
               calls'[u][i].obj \in Values, calls'[u][i].obj = calls'[v][j].obj,
               calls'[u][i].alone
        PROVE  u = v /\ i = j
    <3>1. /\ was(u, i) \in DOMAIN calls[u] /\ Resumes(calls[u][was(u, i)], calls'[u][i])
          /\ was(v, j) \in DOMAIN calls[v] /\ Resumes(calls[v][was(v, j)], calls'[v][j])
      BY <1>2
    <3>2. /\ calls[u][was(u, i)].obj \in Values
          /\ calls[u][was(u, i)].obj = calls[v][was(v, j)].obj
          /\ calls[u][was(u, i)].alone
      BY <2>1, <3>1 DEF Resumes
    <3>3. u = v /\ was(u, i) = was(v, j)
      BY <3>1, <3>2 DEF IInv, OneAlone
    <3> QED  BY <1>2, <3>3
  <2> QED  BY <2>1 DEF OneAlone, Values, Value
<1>8. ResetRunsSeeTheirWrites'
  <2>1. ASSUME NEW u \in Threads, NEW i \in DOMAIN calls'[u],
               calls'[u][i].kind = "run", calls'[u][i].alone,
               calls'[u][i].obj = Value(calls'[u][i].engine),
               storage[calls'[u][i].engine] = "reset_per_run"
        PROVE  hits[calls'[u][i].obj] = calls'[u][i].writes
    <3> DEFINE c == calls[u][was(u, i)]
               d == calls'[u][i]
    <3>1. was(u, i) \in DOMAIN calls[u] /\ Resumes(c, d)
      BY <1>2
    <3>2. hits[c.obj] = c.writes
      BY <2>1, <3>1 DEF IInv, ResetRunsSeeTheirWrites, Resumes
    <3> QED  BY <3>1, <3>2 DEF Resumes
  <2> QED  BY <1>1, <2>1 DEF ResetRunsSeeTheirWrites, Value
<1>9. Unmade'
  BY <1>1 DEF IInv, Unmade, Slot
<1> QED  BY <1>3, <1>4, <1>5, <1>6, <1>7, <1>8, <1>9 DEF IInv

(* Nothing is in progress in an initial state.                             *)
LEMMA Initial == Init => IInv
<1> SUFFICES ASSUME Init
             PROVE  IInv
  OBVIOUS
<1>1. \A t \in Threads : stack[t] = <<>> /\ calls[t] = <<>>
  BY DEF Init
<1>2. TypeOK
  <2>1. hits \in [Values \union Slots -> Nat] /\ ordered \in [Threads -> BOOLEAN]
        /\ DOMAIN stack = Threads /\ DOMAIN calls = Threads
    BY DEF Init
  <2> QED  BY <1>1, <2>1 DEF Init, TypeOK
<1>3. Vectors
  BY <1>1 DEF Init, Vectors
<1>4. Batches /\ Sources /\ OneAlone /\ ResetRunsSeeTheirWrites
  BY <1>1 DEF Batches, Sources, OneAlone, ResetRunsSeeTheirWrites
<1>5. FramesAreOnTheStack
  <2> SUFFICES ASSUME NEW t \in Threads
               PROVE  Fits(stack[t], calls[t], ordered[t])
    BY FramesFit
  <2>1. DOMAIN stack[t] = {} /\ DOMAIN calls[t] = {}
    BY <1>1
  <2> DEFINE f == [n \in {} |-> 0]
  <2>2. f \in [DOMAIN stack[t] -> Live(calls[t])] /\ Live(calls[t]) = {}
    BY <2>1 DEF Live
  <2>3. Matched(stack[t], calls[t], f) /\ Sorted(stack[t], f)
    BY <2>1, <2>2 DEF Matched, Sorted
  <2> QED  BY <2>3 DEF Fits
<1>6. Unmade
  BY ObjectsApart DEF Init, Unmade
<1> QED  BY <1>2, <1>3, <1>4, <1>5, <1>6 DEF IInv

(* What only makes a slot or lets a shared_ptr go changes no call.         *)
LEMMA Aside ==
  ASSUME IInv, UNCHANGED <<storage, stack, calls, hits, heap, ordered>>,
         slots \subseteq slots', slots' \subseteq Engines \X Threads, held' \subseteq Heap
  PROVE  IInv'
<1>1. TypeOK'
  BY DEF IInv, TypeOK, CallType, Framed
<1>2. Vectors'
  BY DEF IInv, Vectors, CallType
<1>3. Batches'
  BY DEF IInv, Batches, IsCall
<1>4. FramesAreOnTheStack'
  <2>1. \A t \in Threads : Fits(stack'[t], calls'[t], ordered'[t])
    BY FramesFit DEF IInv
  <2> QED  BY <2>1, FramesFit
<1>5. Sources'
  <2>1. Slots' = Slots /\ \A e1, u1 : Slot(e1, u1)' = Slot(e1, u1)
    BY DEF Slots, Slot
  <2> QED  BY <2>1 DEF IInv, Sources
<1>6. OneAlone'
  BY DEF IInv, OneAlone, Values, Value
<1>7. ResetRunsSeeTheirWrites'
  BY DEF IInv, ResetRunsSeeTheirWrites, Value
<1>8. Unmade'
  BY DEF IInv, Unmade, Slot
<1> QED  BY <1>1, <1>2, <1>3, <1>4, <1>5, <1>6, <1>7, <1>8 DEF IInv

(* Every step keeps the invariant.                                         *)
LEMMA Inductive == IInv /\ [Next]_vars => IInv'
<1> SUFFICES ASSUME IInv, [Next]_vars
             PROVE  IInv'
  OBVIOUS
<1>1. ASSUME NEW t \in Threads,
             \/ \E e \in Engines : Run(t, e)
             \/ \E e \in Engines, o \in Lent : RunWithState(t, e, o)
             \/ BatchItem(t)
             \/ \E o \in Lent : MakeFrame(t, o)
      PROVE  IInv'
  <2>1. PICK kind, e, o : Enters(t, kind, e, o)
    BY <1>1, EnterActions DEF IInv
  <2>2. TypeOK' /\ Vectors'
    BY <2>1, EntersTyped DEF IInv
  <2>3. Batches'
    BY <2>1, GrownBatches DEF IInv, Enters
  <2>4. FramesAreOnTheStack'
    BY <2>1, EntersFits DEF IInv
  <2>5. Sources'
    BY <2>1, EntersSources DEF IInv
  <2>6. OneAlone'
    BY <2>1, EntersAlone DEF IInv
  <2>7. ResetRunsSeeTheirWrites'
    BY <2>1, EntersWrites DEF IInv
  <2>8. Unmade'
    BY <2>1, EntersUnmade DEF IInv
  <2> QED  BY <2>2, <2>3, <2>4, <2>5, <2>6, <2>7, <2>8 DEF IInv
<1>2. ASSUME NEW t \in Threads,
             \/ \E e \in Engines, o \in Lent \union {None} : Batch(t, e, o)
             \/ \E w \in Threads : StartCase(t, w)
      PROVE  IInv'
  <2>1. PICK w \in Threads : Adds(w)
    BY <1>2, AddActions DEF IInv
  <2> QED  BY <2>1, AddsKeep
<1>3. ASSUME \/ \E t \in Threads : Write(t)
             \/ \E e \in Engines, value \in 0 .. MaxHits : SetState(e, value)
             \/ \E e \in Engines, o \in Heap : SetSharedState(e, o)
      PROVE  IInv'
  <2>1. Keeps
    BY <1>3, KeepActions
  <2> QED  BY <2>1, KeepsKeep
<1>4. ASSUME NEW t \in Threads,
             \/ BatchReturns(t)
             \/ \E throws \in BOOLEAN : Leave(t, throws)
             \/ \E i \in DOMAIN calls[t] : DropFrame(t, i)
             \/ EndCase(t)
      PROVE  IInv'
  <2>1. PICK gone, place : Ends(t, gone, place)
    BY <1>4, EndActions
  <2> QED  BY <2>1, EndsKeep
<1>5. ASSUME NEW t \in Threads, NEW e \in Engines, ThreadLocalState(t, e)
      PROVE  IInv'
  <2>1. /\ UNCHANGED <<storage, stack, calls, hits, heap, held, ordered>>
        /\ slots' = slots \union {<<e, t>>}
    BY <1>5 DEF ThreadLocalState
  <2>2. slots \subseteq Engines \X Threads /\ held \subseteq Heap
    BY DEF IInv, TypeOK
  <2> QED  BY <2>1, <2>2, Aside
<1>6. ASSUME NEW o \in Heap, Release(o)
      PROVE  IInv'
  <2>1. UNCHANGED <<storage, stack, calls, hits, slots, heap, ordered>> /\ held' \subseteq held
    BY <1>6 DEF Release
  <2>2. slots \subseteq Engines \X Threads /\ held \subseteq Heap
    BY DEF IInv, TypeOK
  <2> QED  BY <2>1, <2>2, Aside
<1>7. CASE UNCHANGED vars
  <2>1. slots \subseteq Engines \X Threads /\ held \subseteq Heap
    BY DEF IInv, TypeOK
  <2> QED  BY <1>7, <2>1, Aside DEF vars
<1>8. CASE Next
  BY <1>1, <1>2, <1>3, <1>4, <1>5, <1>6, <1>8 DEF Next
<1> QED  BY <1>7, <1>8

(* The invariant holds in every reachable state.                           *)
THEOREM Invariance == Spec => []IInv
  BY Initial, Inductive, PTL DEF Spec

(* The variables have their types, and every frame its state.              *)
THEOREM Typed == Spec => []TypeOK
<1>1. IInv => TypeOK
  BY DEF IInv
<1> QED  BY <1>1, Invariance, PTL

(* In whatever order frames end, nest and throw, each has its entry on the *)
(* stack of its thread, and no entry is left without a frame; while they   *)
(* end innermost first, the entries are in the order of the frames.        *)
THEOREM FramesHold == Spec => []FramesAreOnTheStack
<1>1. IInv => FramesAreOnTheStack
  BY DEF IInv
<1> QED  BY <1>1, Invariance, PTL

(* A run under reset_per_run that is alone with the engine's value finds   *)
(* what it has written to it, and nothing else.                            *)
THEOREM Resets == Spec => []ResetRunsSeeTheirWrites
<1>1. IInv => ResetRunsSeeTheirWrites
  BY DEF IInv
<1> QED  BY <1>1, Invariance, PTL

(* A slot of thread_local_owned is only on its own thread's stack, and is  *)
(* made before anything is written to it.                                  *)
THEOREM Isolated == Spec => []ThreadLocalIsIsolated
<1>1. ASSUME IInv
      PROVE  ThreadLocalIsIsolated
  <2>1. ASSUME NEW e \in Engines, NEW t \in Threads, NEW v \in Threads,
               Slot(e, v) \in ToSet(stack[t])
        PROVE  v = t
    <3>1. PICK n \in DOMAIN stack[t] : stack[t][n] = Slot(e, v)
      BY <2>1 DEF ToSet
    <3>2. PICK i \in Frames(t) : calls[t][i].obj = Slot(e, v)
      BY <1>1, <3>1, EntriesAreFrames DEF IInv
    <3>3. i \in DOMAIN calls[t] /\ Slot(e, v) \in Slots
      BY ObjectsApart DEF Frames
    <3>4. Slot(e, v) = Slot(calls[t][i].engine, t)
      BY <1>1, <3>2, <3>3 DEF IInv, Sources
    <3> QED  BY <3>4, ObjectsApart
  <2>2. ASSUME NEW e \in Engines, NEW t \in Threads, NEW u \in Threads, t # u
        PROVE  ToSet(stack[t]) \intersect ToSet(stack[u])
                 \intersect {Slot(e, v) : v \in Threads} = {}
    BY <2>1, <2>2
  <2>3. \A e \in Engines, t \in Threads : <<e, t>> \notin slots => hits[Slot(e, t)] = 0
    BY <1>1 DEF IInv, Unmade
  <2> QED  BY <2>2, <2>3 DEF ThreadLocalIsIsolated
<1> QED  BY <1>1, Invariance, PTL

(* The pointer on the stack to a run's shared state only dangles when      *)
(* set_shared_state has replaced it during the run.                        *)
THEOREM Dangles == Spec => []DanglesOnlyWhenReplaced
<1>1. ASSUME IInv
      PROVE  DanglesOnlyWhenReplaced
  <2> SUFFICES ASSUME NEW t \in Threads, NEW i \in DOMAIN calls[t],
                      calls[t][i].kind = "run", ~Alive(calls[t][i].obj), calls[t][i].kept
               PROVE  FALSE
    BY DEF DanglesOnlyWhenReplaced
  <2>1. calls[t][i].obj \in Heap
        /\ ~ \E e \in DOMAIN heap : heap[e] = calls[t][i].obj
    BY DEF Alive
  <2> QED  BY <1>1, <2>1 DEF IInv, Sources
<1> QED  BY <1>1, Invariance, PTL
=============================================================================
