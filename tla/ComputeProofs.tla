--------------------------- MODULE ComputeProofs ----------------------------
(***************************************************************************)
(* Theorems about ComputeTasks and ParallelSplit, for every number of      *)
(* cores, heaps and jobs and every nesting of calls: a worker heap is in   *)
(* one place at a time (OneOwner); up to the first error, while a core     *)
(* reads the heap of the script, no script code runs and only results of   *)
(* the same run_parallel are copied into it (OnlyPartsWrite), and every    *)
(* job is in one place until it is reported, once (JobsAccounted); and     *)
(* run_parallel runs every iteration once, for every interval, min_iters   *)
(* and number of cores, as long as no int overflows (IterationsOnce).      *)
(*                                                                         *)
(* None of them is inductive.  HeapInv knows which call may hold a heap    *)
(* (Good), which call may have made which (Link), and that a native        *)
(* function that is about to start finds as many inactive heaps as there   *)
(* are cores (NativeReady).  StillInv adds that heaps on the lists have    *)
(* work (Loaded) and that readers exist only below a run_parallel (Modes). *)
(* PartsInv adds that such a run_parallel is at hand or right below, and   *)
(* that then only jobs without a finish function are on the heaps.         *)
(* JobInv counts the jobs: fresh, given to a call, or carried by one heap. *)
(***************************************************************************)
EXTENDS MCComputeTasks, SequenceTheorems, FunctionTheorems, FiniteSetTheorems, TLAPS

-----------------------------------------------------------------------------
(* Sequences that grow and shrink at their front                           *)

(* A sequence with one more element in front.                              *)
LEMMA Pushed ==
    ASSUME NEW S, NEW s \in Seq(S), NEW e \in S
    PROVE  /\ <<e>> \o s \in Seq(S) /\ Len(<<e>> \o s) = Len(s) + 1
           /\ Head(<<e>> \o s) = e /\ Tail(<<e>> \o s) = s /\ <<e>> \o s # <<>>
           /\ \A j \in 1 .. Len(s) + 1 : (<<e>> \o s)[j] = IF j = 1 THEN e ELSE s[j - 1]
<1>1. /\ <<e>> \o s \in Seq(S) /\ Len(<<e>> \o s) = Len(s) + 1
      /\ \A j \in 1 .. Len(s) + 1 : (<<e>> \o s)[j] = IF j = 1 THEN e ELSE s[j - 1]
  OBVIOUS
<1>2. Head(<<e>> \o s) = e /\ <<e>> \o s # <<>> OBVIOUS
<1>3. Tail(<<e>> \o s) = s
  <2>1. PICK r : r = <<e>> \o s OBVIOUS
  <2>2. /\ Tail(r) \in Seq(S) /\ Len(Tail(r)) = Len(r) - 1
        /\ \A i \in 1 .. Len(Tail(r)) : Tail(r)[i] = r[i + 1]
    BY <1>1, <1>2, <2>1, HeadTailProperties
  <2>3. Len(Tail(r)) = Len(s) /\ \A i \in 1 .. Len(s) : Tail(r)[i] = s[i]
    BY <1>1, <2>1, <2>2, LenProperties
  <2> QED BY <2>1, <2>2, <2>3, SeqEqual
<1> QED BY <1>1, <1>2, <1>3

(* A sequence without its first element.                                   *)
LEMMA Popped ==
    ASSUME NEW S, NEW s \in Seq(S), s # <<>>
    PROVE  /\ Tail(s) \in Seq(S) /\ Len(Tail(s)) = Len(s) - 1 /\ Head(s) = s[1] /\ Head(s) \in S
           /\ Len(s) >= 1
           /\ \A j \in 1 .. Len(s) - 1 : Tail(s)[j] = s[j + 1]
OBVIOUS

(* Two elements in front are one in front of another.                      *)
LEMMA TwoPushed ==
    ASSUME NEW S, NEW s \in Seq(S), NEW f \in S, NEW g \in S
    PROVE  <<f, g>> \o s = <<f>> \o (<<g>> \o s)
<1>1. <<f, g>> \in Seq(S) /\ <<f>> \in Seq(S) /\ <<g>> \in Seq(S) OBVIOUS
<1>2. <<f>> \o <<g>> \in Seq(S) /\ Len(<<f>> \o <<g>>) = 2 OBVIOUS
<1>3. Len(<<f, g>>) = 2 /\ <<f, g>>[1] = f /\ <<f, g>>[2] = g OBVIOUS
<1>4. (<<f>> \o <<g>>)[1] = f OBVIOUS
<1>5. (<<f>> \o <<g>>)[2] = g OBVIOUS
<1>6. <<f>> \o <<g>> = <<f, g>>
  <2>1. PICK u, v : u = <<f>> \o <<g>> /\ v = <<f, g>> OBVIOUS
  <2>2. u \in Seq(S) /\ v \in Seq(S) /\ Len(u) = 2 /\ Len(v) = 2 /\ u[1] = v[1] /\ u[2] = v[2]
    BY <1>1, <1>2, <1>3, <1>4, <1>5, <2>1, Zenon
  <2>3. \A i \in 1 .. Len(u) : u[i] = v[i] BY <2>2
  <2>4. u = v BY <2>2, <2>3, SeqEqual
  <2> QED BY <2>1, <2>4
<1>7. (<<f>> \o <<g>>) \o s = <<f>> \o (<<g>> \o s) BY <1>1, ConcatAssociative
<1> QED BY <1>6, <1>7, Zenon

-----------------------------------------------------------------------------
(* Where each heap is                                                      *)

Spots == {"inactive", "active", "finished", "running", "stack"}
Whereabouts == [Heap -> Spots]

(* What is at a spot is there once.                                        *)
Listed(s, at, p) ==
    /\ s \in Seq(Heap)
    /\ \A i, j \in DOMAIN s : s[i] = s[j] => i = j
    /\ \A h \in Heap : at[h] = p <=> \E i \in DOMAIN s : s[i] = h

Run(f, at) ==
    /\ f \in [Core -> Heap \cup {NoHeap}]
    /\ \A c, d \in Core : f[c] = f[d] /\ f[c] # NoHeap => c = d
    /\ \A h \in Heap : at[h] = "running" <=> \E c \in Core : f[c] = h

Ops == Functions \cup {"callback"}
Phases == {"loop", "finish", "wait", "clone", "script", "before", "parts", "after", "failed"}
Frame == [op : Ops, phase : Phases, job : SUBSET Job, heap : Heap \cup {NoHeap}, left : {0, 1}]

Held(s, at) ==
    /\ s \in Seq(Frame)
    /\ \A i, j \in DOMAIN s : s[i].heap = s[j].heap /\ s[i].heap # NoHeap => i = j
    /\ \A h \in Heap : at[h] = "stack" <=> \E i \in DOMAIN s : s[i].heap = h

(* A heap that is pushed on a list is at the spot of that list.            *)
LEMMA Put ==
    ASSUME NEW at \in Whereabouts, NEW p \in Spots, NEW s, Listed(s, at, p), NEW h \in Heap, at[h] # p
    PROVE  Listed(<<h>> \o s, [at EXCEPT ![h] = p], p)
<1>1. PICK r : r = <<h>> \o s OBVIOUS
<1>2. /\ r \in Seq(Heap) /\ DOMAIN r = 1 .. Len(s) + 1 /\ DOMAIN s = 1 .. Len(s) /\ Len(s) \in Nat
      /\ \A j \in 1 .. Len(s) + 1 : r[j] = IF j = 1 THEN h ELSE s[j - 1]
  BY <1>1, Pushed, LenProperties DEF Listed
<1>3. \A j \in 1 .. Len(s) : r[j + 1] = s[j] BY <1>2
<1>4. \A i \in DOMAIN s : s[i] # h BY DEF Listed
<1>5. \A i, j \in DOMAIN r : r[i] = r[j] => i = j
  <2> TAKE i, j \in DOMAIN r
  <2>1. CASE i = 1 /\ j # 1 BY <1>2, <1>4, <2>1
  <2>2. CASE i # 1 /\ j = 1 BY <1>2, <1>4, <2>2
  <2>3. CASE i # 1 /\ j # 1
    <3>1. PICK k, m : k = i - 1 /\ m = j - 1 OBVIOUS
    <3>2. k \in DOMAIN s /\ m \in DOMAIN s /\ r[i] = s[k] /\ r[j] = s[m]
      BY <1>2, <2>3, <3>1
    <3>3. r[i] = r[j] => k = m BY <3>2 DEF Listed
    <3> QED BY <1>2, <3>1, <3>3
  <2> QED BY <2>1, <2>2, <2>3
<1>6. PICK at2 : at2 = [at EXCEPT ![h] = p] OBVIOUS
<1>7. at2[h] = p /\ \A g \in Heap : g # h => at2[g] = at[g] BY <1>6 DEF Whereabouts
<1>8. ASSUME NEW g \in Heap PROVE at2[g] = p <=> \E i \in DOMAIN r : r[i] = g
  <2>1. CASE g = h
    <3>1. 1 \in DOMAIN r /\ r[1] = g BY <1>2, <2>1
    <3> QED BY <1>7, <2>1, <3>1
  <2>2. CASE g # h
    <3>1. ASSUME NEW i \in DOMAIN r, r[i] = g PROVE i - 1 \in DOMAIN s /\ s[i - 1] = g
      BY <1>2, <2>2, <3>1
    <3>2. ASSUME NEW i \in DOMAIN s, s[i] = g PROVE i + 1 \in DOMAIN r /\ r[i + 1] = g
      BY <1>2, <1>3, <3>2
    <3> QED BY <1>7, <2>2, <3>1, <3>2 DEF Listed
  <2> QED BY <2>1, <2>2
<1>9. Listed(r, at2, p) BY <1>2, <1>5, <1>8 DEF Listed
<1> QED BY <1>1, <1>6, <1>9

(* A heap that is popped from a list is at another spot.                   *)
LEMMA Taken ==
    ASSUME NEW at \in Whereabouts, NEW p \in Spots, NEW s, Listed(s, at, p), s # <<>>,
           NEW q \in Spots, q # p
    PROVE  /\ Head(s) \in Heap /\ at[Head(s)] = p
           /\ Listed(Tail(s), [at EXCEPT ![Head(s)] = q], p)
<1>1. PICK r, h : r = Tail(s) /\ h = Head(s) OBVIOUS
<1>2. /\ s \in Seq(Heap) /\ r \in Seq(Heap) /\ DOMAIN s = 1 .. Len(s) /\ Len(s) \in Nat /\ Len(s) >= 1
      /\ DOMAIN r = 1 .. Len(s) - 1 /\ h = s[1] /\ h \in Heap
      /\ \A j \in 1 .. Len(s) - 1 : r[j] = s[j + 1]
  BY <1>1, Popped, LenProperties DEF Listed
<1>3. at[h] = p /\ 1 \in DOMAIN s BY <1>2 DEF Listed
<1>4. \A i, j \in DOMAIN r : r[i] = r[j] => i = j
  <2> TAKE i, j \in DOMAIN r
  <2>1. PICK k, m : k = i + 1 /\ m = j + 1 OBVIOUS
  <2>2. k \in DOMAIN s /\ m \in DOMAIN s /\ r[i] = s[k] /\ r[j] = s[m] BY <1>2, <2>1
  <2>3. r[i] = r[j] => k = m BY <2>2 DEF Listed
  <2> QED BY <1>2, <2>1, <2>3
<1>5. PICK at2 : at2 = [at EXCEPT ![h] = q] OBVIOUS
<1>6. at2[h] = q /\ \A g \in Heap : g # h => at2[g] = at[g] BY <1>2, <1>5 DEF Whereabouts
<1>7. ASSUME NEW g \in Heap PROVE at2[g] = p <=> \E i \in DOMAIN r : r[i] = g
  <2>1. CASE g = h
    <3>1. ASSUME NEW i \in DOMAIN r, r[i] = g PROVE FALSE
      <4>1. i + 1 \in DOMAIN s /\ s[i + 1] = s[1] BY <1>2, <2>1, <3>1
      <4>2. i + 1 = 1 BY <1>3, <4>1 DEF Listed
      <4> QED BY <1>2, <4>2
    <3> QED BY <1>6, <2>1, <3>1
  <2>2. CASE g # h
    <3>1. ASSUME NEW i \in DOMAIN s, s[i] = g PROVE i - 1 \in DOMAIN r /\ r[i - 1] = g
      BY <1>2, <2>2, <3>1
    <3>2. ASSUME NEW i \in DOMAIN r, r[i] = g PROVE i + 1 \in DOMAIN s /\ s[i + 1] = g
      BY <1>2, <3>2
    <3> QED BY <1>6, <2>2, <3>1, <3>2 DEF Listed
  <2> QED BY <2>1, <2>2
<1>8. Listed(r, at2, p) BY <1>2, <1>4, <1>7 DEF Listed
<1> QED BY <1>1, <1>2, <1>3, <1>5, <1>8

(* What another heap does.                                                 *)
LEMMA Beside ==
    ASSUME NEW at \in Whereabouts, NEW h \in Heap, NEW q \in Spots
    PROVE  /\ [at EXCEPT ![h] = q] \in Whereabouts /\ [at EXCEPT ![h] = q][h] = q
           /\ \A g \in Heap : g # h => [at EXCEPT ![h] = q][g] = at[g]
           /\ \A s : \A p \in Spots : Listed(s, at, p) /\ at[h] # p /\ q # p
                => Listed(s, [at EXCEPT ![h] = q], p)
           /\ \A f : Run(f, at) /\ at[h] # "running" /\ q # "running"
                => Run(f, [at EXCEPT ![h] = q])
           /\ \A s : Held(s, at) /\ at[h] # "stack" /\ q # "stack" => Held(s, [at EXCEPT ![h] = q])
<1>1. PICK at2 : at2 = [at EXCEPT ![h] = q] OBVIOUS
<1>2. at2 \in Whereabouts /\ at2[h] = q /\ \A g \in Heap : g # h => at2[g] = at[g]
  BY <1>1 DEF Whereabouts
<1>3. ASSUME NEW p, at[h] # p, q # p, NEW g \in Heap PROVE at2[g] = p <=> at[g] = p
  BY <1>2, <1>3
<1>4. \A s : \A p \in Spots : Listed(s, at, p) /\ at[h] # p /\ q # p => Listed(s, at2, p)
  BY <1>3 DEF Listed
<1>5. \A f : Run(f, at) /\ at[h] # "running" /\ q # "running" => Run(f, at2)
  BY <1>3 DEF Run
<1>6. \A s : Held(s, at) /\ at[h] # "stack" /\ q # "stack" => Held(s, at2)
  BY <1>3 DEF Held
<1> QED BY <1>1, <1>2, <1>4, <1>5, <1>6

(* A core takes a heap, or gives it back.                                  *)
LEMMA RunTakes ==
    ASSUME NEW at \in Whereabouts, NEW f, Run(f, at), NEW c \in Core, f[c] = NoHeap,
           NEW h \in Heap, at[h] # "running"
    PROVE  Run([f EXCEPT ![c] = h], [at EXCEPT ![h] = "running"])
<1>1. PICK g, at2 : g = [f EXCEPT ![c] = h] /\ at2 = [at EXCEPT ![h] = "running"] OBVIOUS
<1>2. /\ g \in [Core -> Heap \cup {NoHeap}] /\ g[c] = h /\ \A d \in Core : d # c => g[d] = f[d]
      /\ at2[h] = "running" /\ \A k \in Heap : k # h => at2[k] = at[k]
  BY <1>1 DEF Run, Whereabouts
<1>3. \A d \in Core : f[d] # h BY DEF Run
<1>4. \A d, e \in Core : g[d] = g[e] /\ g[d] # NoHeap => d = e
  BY <1>2, <1>3 DEF Run
<1>5. \A k \in Heap : at2[k] = "running" <=> \E d \in Core : g[d] = k
  <2> TAKE k \in Heap
  <2>1. CASE k = h BY <1>2, <2>1
  <2>2. CASE k # h
    <3>1. k # NoHeap BY ComputeAssumption
    <3> QED BY <1>2, <2>2, <3>1 DEF Run
  <2> QED BY <2>1, <2>2
<1>6. Run(g, at2) BY <1>2, <1>4, <1>5 DEF Run
<1> QED BY <1>1, <1>6

(* A core gives its heap back.                                             *)
LEMMA RunGives ==
    ASSUME NEW at \in Whereabouts, NEW f, Run(f, at), NEW c \in Core, f[c] # NoHeap,
           NEW q \in Spots, q # "running"
    PROVE  /\ f[c] \in Heap /\ at[f[c]] = "running"
           /\ Run([f EXCEPT ![c] = NoHeap], [at EXCEPT ![f[c]] = q])
<1>1. PICK h : h = f[c] OBVIOUS
<1>2. h \in Heap /\ at[h] = "running" /\ NoHeap \notin Heap BY <1>1, ComputeAssumption DEF Run
<1>3. PICK g, at2 : g = [f EXCEPT ![c] = NoHeap] /\ at2 = [at EXCEPT ![h] = q] OBVIOUS
<1>4. /\ g \in [Core -> Heap \cup {NoHeap}] /\ g[c] = NoHeap /\ \A d \in Core : d # c => g[d] = f[d]
      /\ at2[h] = q /\ \A k \in Heap : k # h => at2[k] = at[k]
  BY <1>2, <1>3 DEF Run, Whereabouts
<1>5. \A d \in Core : d # c => f[d] # h BY <1>1, <1>2 DEF Run
<1>6. \A d, e \in Core : g[d] = g[e] /\ g[d] # NoHeap => d = e
  BY <1>4 DEF Run
<1>7. \A k \in Heap : at2[k] = "running" <=> \E d \in Core : g[d] = k
  <2> TAKE k \in Heap
  <2>1. CASE k = h BY <1>2, <1>4, <1>5, <2>1
  <2>2. CASE k # h BY <1>1, <1>2, <1>4, <2>2 DEF Run
  <2> QED BY <2>1, <2>2
<1>8. Run(g, at2) BY <1>4, <1>6, <1>7 DEF Run
<1> QED BY <1>1, <1>2, <1>3, <1>8

(* A call begins: with a heap that is in its hands from now on, or without.*)
LEMMA HeldPush ==
    ASSUME NEW at \in Whereabouts, NEW s, Held(s, at), NEW f \in Frame,
           f.heap = NoHeap \/ at[f.heap] # "stack"
    PROVE  /\ f.heap = NoHeap => Held(<<f>> \o s, at)
           /\ f.heap # NoHeap => Held(<<f>> \o s, [at EXCEPT ![f.heap] = "stack"])
<1>1. PICK r, h : r = <<f>> \o s /\ h = f.heap OBVIOUS
<1>2. /\ r \in Seq(Frame) /\ DOMAIN r = 1 .. Len(s) + 1 /\ DOMAIN s = 1 .. Len(s) /\ Len(s) \in Nat
      /\ \A j \in 1 .. Len(s) + 1 : r[j] = IF j = 1 THEN f ELSE s[j - 1]
  BY <1>1, Pushed, LenProperties DEF Held
<1>3. /\ r[1].heap = h /\ 1 \in DOMAIN r
      /\ \A j \in DOMAIN r : j # 1 => j - 1 \in DOMAIN s /\ r[j].heap = s[j - 1].heap
      /\ \A j \in DOMAIN s : j + 1 \in DOMAIN r /\ r[j + 1].heap = s[j].heap
      /\ NoHeap \notin Heap /\ h \in Heap \cup {NoHeap}
  BY <1>1, <1>2, ComputeAssumption DEF Frame
<1>4. h # NoHeap => \A i \in DOMAIN s : s[i].heap # h BY <1>1, <1>3 DEF Held
<1>5. \A i, j \in DOMAIN r : r[i].heap = r[j].heap /\ r[i].heap # NoHeap => i = j
  <2> TAKE i, j \in DOMAIN r
  <2>1. CASE i = 1 /\ j # 1 BY <1>3, <1>4, <2>1
  <2>2. CASE i # 1 /\ j = 1 BY <1>3, <1>4, <2>2
  <2>3. CASE i # 1 /\ j # 1
    <3>1. PICK k, m : k = i - 1 /\ m = j - 1 OBVIOUS
    <3>2. k \in DOMAIN s /\ m \in DOMAIN s /\ r[i].heap = s[k].heap /\ r[j].heap = s[m].heap
      BY <1>3, <2>3, <3>1
    <3>3. r[i].heap = r[j].heap /\ r[i].heap # NoHeap => k = m BY <3>2 DEF Held
    <3> QED BY <1>2, <3>1, <3>3
  <2> QED BY <2>1, <2>2, <2>3
<1>6. ASSUME NEW g \in Heap, g # h PROVE (\E i \in DOMAIN r : r[i].heap = g) <=> \E i \in DOMAIN s : s[i].heap = g
  BY <1>3, <1>6
<1>7. CASE h = NoHeap
  <2>1. \A g \in Heap : at[g] = "stack" <=> \E i \in DOMAIN r : r[i].heap = g
    BY <1>3, <1>6, <1>7 DEF Held
  <2> QED BY <1>1, <1>2, <1>5, <1>7, <2>1 DEF Held
<1>8. CASE h # NoHeap
  <2>1. PICK at2 : at2 = [at EXCEPT ![h] = "stack"] OBVIOUS
  <2>2. at2[h] = "stack" /\ \A g \in Heap : g # h => at2[g] = at[g]
    BY <1>3, <1>8, <2>1 DEF Whereabouts
  <2>3. \A g \in Heap : at2[g] = "stack" <=> \E i \in DOMAIN r : r[i].heap = g
    BY <1>3, <1>6, <2>2 DEF Held
  <2>4. Held(r, at2) BY <1>2, <1>5, <2>3 DEF Held
  <2> QED BY <1>1, <1>8, <2>1, <2>4
<1> QED BY <1>7, <1>8

(* A call ends, and what it held goes elsewhere.                           *)
LEMMA HeldPop ==
    ASSUME NEW at \in Whereabouts, NEW s, Held(s, at), s # <<>>, NEW q \in Spots, q # "stack"
    PROVE  /\ Head(s) \in Frame
           /\ Head(s).heap = NoHeap => Held(Tail(s), at)
           /\ Head(s).heap # NoHeap =>
                /\ Head(s).heap \in Heap /\ at[Head(s).heap] = "stack"
                /\ Held(Tail(s), [at EXCEPT ![Head(s).heap] = q])
<1>1. PICK r, f, h : r = Tail(s) /\ f = Head(s) /\ h = f.heap OBVIOUS
<1>2. /\ s \in Seq(Frame) /\ r \in Seq(Frame) /\ DOMAIN s = 1 .. Len(s) /\ Len(s) \in Nat /\ Len(s) >= 1
      /\ DOMAIN r = 1 .. Len(s) - 1 /\ f = s[1] /\ f \in Frame
      /\ \A j \in 1 .. Len(s) - 1 : r[j] = s[j + 1]
  BY <1>1, Popped, LenProperties DEF Held
<1>3. /\ s[1].heap = h /\ 1 \in DOMAIN s
      /\ \A j \in DOMAIN s : j # 1 => j - 1 \in DOMAIN r /\ s[j].heap = r[j - 1].heap
      /\ \A j \in DOMAIN r : j + 1 \in DOMAIN s /\ s[j + 1].heap = r[j].heap /\ j + 1 # 1
      /\ NoHeap \notin Heap /\ h \in Heap \cup {NoHeap}
  BY <1>1, <1>2, ComputeAssumption DEF Frame
<1>4. \A i, j \in DOMAIN r : r[i].heap = r[j].heap /\ r[i].heap # NoHeap => i = j
  <2> TAKE i, j \in DOMAIN r
  <2>1. PICK k, m : k = i + 1 /\ m = j + 1 OBVIOUS
  <2>2. k \in DOMAIN s /\ m \in DOMAIN s /\ s[k].heap = r[i].heap /\ s[m].heap = r[j].heap
    BY <1>3, <2>1
  <2>3. r[i].heap = r[j].heap /\ r[i].heap # NoHeap => k = m BY <2>2 DEF Held
  <2> QED BY <1>2, <2>1, <2>3
<1>5. ASSUME NEW g \in Heap, g # h PROVE (\E i \in DOMAIN r : r[i].heap = g) <=> \E i \in DOMAIN s : s[i].heap = g
  BY <1>3, <1>5
<1>6. CASE h = NoHeap
  <2>1. \A g \in Heap : at[g] = "stack" <=> \E i \in DOMAIN r : r[i].heap = g
    BY <1>3, <1>5, <1>6 DEF Held
  <2> QED BY <1>1, <1>2, <1>4, <1>6, <2>1 DEF Held
<1>7. CASE h # NoHeap
  <2>1. h \in Heap /\ at[h] = "stack" BY <1>3, <1>7 DEF Held
  <2>2. PICK at2 : at2 = [at EXCEPT ![h] = q] OBVIOUS
  <2>3. at2[h] = q /\ \A g \in Heap : g # h => at2[g] = at[g] BY <2>1, <2>2 DEF Whereabouts
  <2>4. \A i \in DOMAIN r : r[i].heap # h
    <3> SUFFICES ASSUME NEW i \in DOMAIN r, r[i].heap = h PROVE FALSE OBVIOUS
    <3>1. i + 1 \in DOMAIN s /\ s[i + 1].heap = s[1].heap /\ s[1].heap # NoHeap /\ i + 1 # 1
      BY <1>3, <1>7
    <3> QED BY <1>3, <3>1, Zenon DEF Held
  <2>5. \A g \in Heap : at2[g] = "stack" <=> \E i \in DOMAIN r : r[i].heap = g
    BY <1>5, <2>3, <2>4 DEF Held
  <2>6. Held(r, at2) BY <1>2, <1>4, <2>5 DEF Held
  <2> QED BY <1>1, <1>2, <1>7, <2>1, <2>2, <2>6
<1> QED BY <1>6, <1>7

-----------------------------------------------------------------------------
(* The calls of the main thread                                            *)

PhasesOf(op) ==
    CASE op = "run" -> {"loop", "finish", "clone"}
      [] op = "check_finished" -> {"finish"}
      [] op = "finish_all" -> {"loop", "finish", "wait"}
      [] op = "run_parallel" -> {"before", "parts", "after", "failed"}
      [] op = "native" -> {"before", "wait"}
      [] op = "callback" -> {"script"}

(* A call by itself, and a call f made from the call g.                    *)
Good(f) ==
    /\ f.phase \in PhasesOf(f.op)
    /\ f.heap # NoHeap <=> f.phase \in {"clone", "script"}
    /\ f.op = "run" => \E j \in Job : f.job = {j}
    /\ f.job # {} => f.op = "run" \/ (f.op = "run_parallel" /\ f.phase \in {"before", "parts"})

Link(f, g) ==
    /\ g.phase \in {"finish", "script", "before", "parts", "after", "failed"}
    /\ f.op = "callback" <=> g.phase = "finish"
    /\ g.phase \in {"before", "after", "failed"} => f.op = "finish_all"
    /\ g.phase = "parts" => f.op = "run"

Shape(s) ==
    /\ s \in Seq(Frame)
    /\ \A i \in DOMAIN s : Good(s[i])
    /\ \A i \in DOMAIN s : IF i = Len(s) THEN s[i].op # "callback" ELSE Link(s[i], s[i + 1])

(* A call that may be made by the call at hand can be pushed.              *)
LEMMA ShapePush ==
    ASSUME NEW s, Shape(s), NEW f \in Frame, Good(f),
           IF s = <<>> THEN f.op # "callback" ELSE Link(f, Head(s))
    PROVE  Shape(<<f>> \o s)
<1>1. PICK r : r = <<f>> \o s OBVIOUS
<1>2. /\ s \in Seq(Frame) /\ r \in Seq(Frame) /\ DOMAIN r = 1 .. Len(s) + 1 /\ DOMAIN s = 1 .. Len(s)
      /\ Len(s) \in Nat /\ Len(r) = Len(s) + 1
      /\ \A j \in 1 .. Len(s) + 1 : r[j] = IF j = 1 THEN f ELSE s[j - 1]
  BY <1>1, Pushed, LenProperties DEF Shape
<1>3. s # <<>> => Len(s) >= 1 /\ Head(s) = s[1] BY <1>2, Popped
<1>4. s = <<>> => Len(s) = 0 OBVIOUS
<1>5. ASSUME NEW i \in DOMAIN r
      PROVE  Good(r[i]) /\ IF i = Len(r) THEN r[i].op # "callback" ELSE Link(r[i], r[i + 1])
  <2>1. CASE i = 1 /\ s = <<>> BY <1>2, <1>4, <2>1
  <2>2. CASE i = 1 /\ s # <<>>
    <3>1. r[1] = f /\ r[2] = s[1] /\ 1 # Len(r) BY <1>2, <1>3, <2>2
    <3> QED BY <1>3, <2>2, <3>1
  <2>3. CASE i # 1
    <3>1. PICK k : k = i - 1 OBVIOUS
    <3>2. k \in DOMAIN s /\ r[i] = s[k] /\ (i = Len(r) <=> k = Len(s)) /\ (i # Len(r) => r[i + 1] = s[k + 1])
      BY <1>2, <2>3, <3>1
    <3>3. Good(s[k]) /\ IF k = Len(s) THEN s[k].op # "callback" ELSE Link(s[k], s[k + 1])
      BY <3>2 DEF Shape
    <3>4. CASE k = Len(s) BY <3>2, <3>3, <3>4
    <3>5. CASE k # Len(s) BY <3>2, <3>3, <3>5
    <3> QED BY <3>4, <3>5
  <2> QED BY <2>1, <2>2, <2>3
<1>6. Shape(r) BY <1>2, <1>5 DEF Shape
<1> QED BY <1>1, <1>6

(* The call at hand is good, fits what is below it, and can be popped.     *)
LEMMA ShapePop ==
    ASSUME NEW s, Shape(s), s # <<>>
    PROVE  /\ Shape(Tail(s)) /\ Head(s) \in Frame /\ Good(Head(s))
           /\ IF Tail(s) = <<>> THEN Head(s).op # "callback"
              ELSE Link(Head(s), Head(Tail(s))) /\ Head(Tail(s)) \in Frame /\ Good(Head(Tail(s)))
<1>1. PICK r : r = Tail(s) OBVIOUS
<1>2. /\ s \in Seq(Frame) /\ r \in Seq(Frame) /\ DOMAIN s = 1 .. Len(s) /\ Len(s) \in Nat /\ Len(s) >= 1
      /\ DOMAIN r = 1 .. Len(r) /\ Len(r) = Len(s) - 1 /\ Head(s) = s[1] /\ Head(s) \in Frame
      /\ \A j \in 1 .. Len(s) - 1 : r[j] = s[j + 1]
  BY <1>1, Popped, LenProperties DEF Shape
<1>3. ASSUME NEW i \in DOMAIN r
      PROVE  Good(r[i]) /\ IF i = Len(r) THEN r[i].op # "callback" ELSE Link(r[i], r[i + 1])
  <2>1. PICK k : k = i + 1 OBVIOUS
  <2>2. k \in DOMAIN s /\ r[i] = s[k] /\ (i = Len(r) <=> k = Len(s)) /\ (i # Len(r) => r[i + 1] = s[k + 1])
    BY <1>2, <2>1
  <2>3. Good(s[k]) /\ IF k = Len(s) THEN s[k].op # "callback" ELSE Link(s[k], s[k + 1])
    BY <2>2 DEF Shape
  <2>4. CASE k = Len(s) BY <2>2, <2>3, <2>4
  <2>5. CASE k # Len(s) BY <2>2, <2>3, <2>5
  <2> QED BY <2>4, <2>5
<1>4. Shape(r) BY <1>2, <1>3 DEF Shape
<1>5. 1 \in DOMAIN s BY <1>2
<1>6. Good(s[1]) /\ IF 1 = Len(s) THEN s[1].op # "callback" ELSE Link(s[1], s[1 + 1])
  BY <1>5 DEF Shape
<1>7. CASE r = <<>>
  <2>0. Len(r) = 0 BY <1>7
  <2>1. Len(s) = 1
    <3>1. Len(r) = Len(s) - 1 /\ Len(s) \in Nat BY <1>2
    <3>2. PICK n : n = Len(s) OBVIOUS
    <3> QED BY <2>0, <3>1, <3>2
  <2> QED BY <1>1, <1>2, <1>4, <1>6, <1>7, <2>1
<1>8. CASE r # <<>>
  <2>1. Head(r) = r[1] /\ Len(r) >= 1 BY <1>2, <1>8, Popped
  <2>2. r[1] = s[1 + 1] /\ 1 # Len(s) /\ 1 \in DOMAIN r BY <1>2, <2>1
  <2>3. r[1] \in Frame BY <1>2, <2>2, ElementOfSeq
  <2> QED BY <1>1, <1>2, <1>3, <1>4, <1>6, <1>8, <2>1, <2>2, <2>3
<1> QED BY <1>7, <1>8

-----------------------------------------------------------------------------
(* Everything in its place                                                 *)

OnePlace(ina, act, fin, run, stk, at) ==
    /\ at \in Whereabouts
    /\ Listed(ina, at, "inactive") /\ Listed(act, at, "active") /\ Listed(fin, at, "finished")
    /\ Run(run, at)
    /\ Held(stk, at) /\ Shape(stk)

(* The call that is at hand goes on, with the heap it has.                 *)
LEMMA GoesOn ==
    ASSUME NEW ina, NEW act, NEW fin, NEW run, NEW stk, NEW at, OnePlace(ina, act, fin, run, stk, at),
           stk # <<>>, NEW f \in Frame, Good(f), f.op = Head(stk).op, f.heap = NoHeap, Head(stk).heap = NoHeap
    PROVE  /\ OnePlace(ina, act, fin, run, <<f>> \o Tail(stk), at)
           /\ Head(<<f>> \o Tail(stk)) = f /\ <<f>> \o Tail(stk) # <<>>
           /\ OnePlace(ina, act, fin, run, Tail(stk), at)
<1>1. PICK r : r = Tail(stk) OBVIOUS
<1>2. Held(r, at) /\ "inactive" \in Spots /\ at \in Whereabouts
  <2>1. "inactive" \in Spots /\ "inactive" # "stack" /\ at \in Whereabouts /\ Held(stk, at)
    BY DEF Spots, OnePlace
  <2> QED BY <1>1, <2>1, HeldPop
<1>3. /\ Shape(r)
      /\ IF r = <<>> THEN Head(stk).op # "callback" ELSE Link(Head(stk), Head(r))
  BY <1>1, ShapePop DEF OnePlace
<1>4. IF r = <<>> THEN f.op # "callback" ELSE Link(f, Head(r)) BY <1>3 DEF Link
<1>5. PICK q : q = <<f>> \o r OBVIOUS
<1>6. Held(q, at) BY <1>2, <1>5, HeldPush
<1>7. Shape(q) BY <1>3, <1>4, <1>5, ShapePush
<1>8. r \in Seq(Frame) BY <1>3 DEF Shape
<1>9. Head(q) = f /\ q # <<>> BY <1>5, <1>8, Pushed
<1> QED BY <1>1, <1>3, <1>2, <1>5, <1>6, <1>7, <1>9 DEF OnePlace

(* The call at hand makes another call, with the heap it holds, if any.    *)
LEMMA HeldSame ==
    ASSUME NEW at, NEW s, Held(s, at), Shape(s), s # <<>>,
           NEW f \in Frame, Good(f), f.op = Head(s).op, f.heap = Head(s).heap
    PROVE  /\ Held(<<f>> \o Tail(s), at) /\ Shape(<<f>> \o Tail(s))
           /\ Head(<<f>> \o Tail(s)) = f /\ <<f>> \o Tail(s) # <<>>
<1>1. PICK t, r : t = Tail(s) /\ r = <<f>> \o t OBVIOUS
<1>2. /\ s \in Seq(Frame) /\ t \in Seq(Frame) /\ DOMAIN s = 1 .. Len(s) /\ Len(s) \in Nat /\ Len(s) >= 1
      /\ Len(t) = Len(s) - 1 /\ Head(s) = s[1]
      /\ \A j \in 1 .. Len(s) - 1 : t[j] = s[j + 1]
  BY <1>1, Popped, LenProperties DEF Held
<1>3. /\ r \in Seq(Frame) /\ DOMAIN r = 1 .. Len(t) + 1
      /\ \A j \in 1 .. Len(t) + 1 : r[j] = IF j = 1 THEN f ELSE t[j - 1]
      /\ Head(r) = f /\ r # <<>>
  BY <1>1, <1>2, Pushed, LenProperties
<1>4. DOMAIN r = DOMAIN s
  <2>1. Len(t) + 1 = Len(s) BY <1>2
  <2> QED BY <1>2, <1>3, <2>1
<1>5. ASSUME NEW j \in DOMAIN s PROVE r[j].heap = s[j].heap
  <2>1. CASE j = 1 BY <1>2, <1>3, <1>4, <2>1
  <2>2. CASE j # 1
    <3>1. PICK k : k = j - 1 OBVIOUS
    <3>2. k \in 1 .. Len(s) - 1 /\ k + 1 = j BY <1>2, <2>2, <3>1
    <3>3. t[k] = s[j] BY <1>2, <3>2
    <3>4. r[j] = t[k] BY <1>3, <1>4, <2>2, <3>1
    <3> QED BY <3>3, <3>4
  <2> QED BY <2>1, <2>2
<1>6. Held(r, at)
  <2>1. \A i, j \in DOMAIN r : r[i].heap = r[j].heap /\ r[i].heap # NoHeap => i = j
    BY <1>4, <1>5, Zenon DEF Held
  <2>2. ASSUME NEW h \in Heap PROVE at[h] = "stack" <=> \E i \in DOMAIN r : r[i].heap = h
    BY ZenonT(60), <1>4, <1>5 DEF Held
  <2> QED BY <1>3, <2>1, <2>2 DEF Held
<1>7. Shape(t) /\ IF t = <<>> THEN Head(s).op # "callback" ELSE Link(Head(s), Head(t))
  BY <1>1, ShapePop
<1>8. IF t = <<>> THEN f.op # "callback" ELSE Link(f, Head(t)) BY <1>7 DEF Link
<1>9. Shape(r) BY <1>1, <1>7, <1>8, ShapePush
<1> QED BY <1>1, <1>3, <1>6, <1>9

(* A call without a heap begins or ends.                                   *)
LEMMA Begins ==
    ASSUME NEW ina, NEW act, NEW fin, NEW run, NEW stk, NEW at, OnePlace(ina, act, fin, run, stk, at),
           NEW f \in Frame, Good(f), f.heap = NoHeap,
           IF stk = <<>> THEN f.op # "callback" ELSE Link(f, Head(stk))
    PROVE  /\ OnePlace(ina, act, fin, run, <<f>> \o stk, at)
           /\ Head(<<f>> \o stk) = f /\ <<f>> \o stk # <<>>
<1>1. PICK q : q = <<f>> \o stk OBVIOUS
<1>2. Held(q, at) BY <1>1, HeldPush DEF OnePlace
<1>3. Shape(q) BY <1>1, ShapePush DEF OnePlace
<1>4. stk \in Seq(Frame) BY DEF OnePlace, Shape
<1>5. Head(q) = f /\ q # <<>> BY <1>1, <1>4, Pushed
<1> QED BY <1>1, <1>2, <1>3, <1>5 DEF OnePlace

(* Heaps that move from a list to another.                                 *)
LEMMA FinishedMoves ==
    ASSUME NEW ina, NEW act, NEW fin, NEW run, NEW stk, NEW at, OnePlace(ina, act, fin, run, stk, at),
           fin # <<>>
    PROVE  \E at2 : OnePlace(<<Head(fin)>> \o ina, act, Tail(fin), run, stk, at2)
<1>1. PICK h : h = Head(fin) OBVIOUS
<1>2. PICK at2 : at2 = [at EXCEPT ![h] = "inactive"] OBVIOUS
<1>3. at \in Whereabouts /\ {"inactive", "finished", "active"} \subseteq Spots BY DEF OnePlace, Spots
<1>4. h \in Heap /\ at[h] = "finished" /\ Listed(Tail(fin), at2, "finished")
  <2>1. Listed(fin, at, "finished") /\ "finished" \in Spots /\ "inactive" \in Spots
        /\ "inactive" # "finished"
    BY <1>3 DEF OnePlace
  <2> QED BY <2>1, <1>1, <1>2, <1>3, Taken
<1>5. Listed(<<h>> \o ina, at2, "inactive") BY <1>2, <1>3, <1>4, Put DEF OnePlace
<1>6. /\ at2 \in Whereabouts /\ Listed(act, at2, "active") /\ Run(run, at2) /\ Held(stk, at2)
  BY <1>2, <1>3, <1>4, Beside DEF OnePlace
<1>7. OnePlace(<<h>> \o ina, act, Tail(fin), run, stk, at2) BY <1>4, <1>5, <1>6 DEF OnePlace
<1> QED BY <1>1, <1>7

(* The heap a core gives back is pushed on the list of the inactive or of  *)
(* the finished ones.                                                      *)
LEMMA RunMoves ==
    ASSUME NEW ina, NEW act, NEW fin, NEW run, NEW stk, NEW at, OnePlace(ina, act, fin, run, stk, at),
           NEW c \in Core, run[c] # NoHeap
    PROVE  /\ \E at2 : OnePlace(<<run[c]>> \o ina, act, fin, [run EXCEPT ![c] = NoHeap], stk, at2)
           /\ \E at2 : OnePlace(ina, act, <<run[c]>> \o fin, [run EXCEPT ![c] = NoHeap], stk, at2)
<1>1. PICK h : h = run[c] OBVIOUS
<1>2. at \in Whereabouts /\ {"inactive", "finished", "active", "running"} \subseteq Spots
  BY DEF OnePlace, Spots
<1>3. /\ h \in Heap /\ at[h] = "running"
      /\ Run([run EXCEPT ![c] = NoHeap], [at EXCEPT ![h] = "inactive"])
      /\ Run([run EXCEPT ![c] = NoHeap], [at EXCEPT ![h] = "finished"])
  BY <1>1, <1>2, RunGives DEF OnePlace
<1>4. PICK at2 : at2 = [at EXCEPT ![h] = "inactive"] OBVIOUS
<1>5. OnePlace(<<h>> \o ina, act, fin, [run EXCEPT ![c] = NoHeap], stk, at2)
  <2>1. Listed(<<h>> \o ina, at2, "inactive") BY <1>2, <1>3, <1>4, Put DEF OnePlace
  <2>2. /\ at2 \in Whereabouts /\ Listed(act, at2, "active") /\ Listed(fin, at2, "finished")
        /\ Held(stk, at2)
    BY <1>2, <1>3, <1>4, Beside DEF OnePlace
  <2> QED BY <1>3, <1>4, <2>1, <2>2 DEF OnePlace
<1>6. PICK at3 : at3 = [at EXCEPT ![h] = "finished"] OBVIOUS
<1>7. OnePlace(ina, act, <<h>> \o fin, [run EXCEPT ![c] = NoHeap], stk, at3)
  <2>1. Listed(<<h>> \o fin, at3, "finished") BY <1>2, <1>3, <1>6, Put DEF OnePlace
  <2>2. /\ at3 \in Whereabouts /\ Listed(act, at3, "active") /\ Listed(ina, at3, "inactive")
        /\ Held(stk, at3)
    BY <1>2, <1>3, <1>6, Beside DEF OnePlace
  <2> QED BY <1>3, <1>6, <2>1, <2>2 DEF OnePlace
<1> QED BY <1>1, <1>5, <1>7

(* The first active heap is taken by a core.                               *)
LEMMA ActiveMoves ==
    ASSUME NEW ina, NEW act, NEW fin, NEW run, NEW stk, NEW at, OnePlace(ina, act, fin, run, stk, at),
           act # <<>>, NEW c \in Core, run[c] = NoHeap
    PROVE  \E at2 : OnePlace(ina, Tail(act), fin, [run EXCEPT ![c] = Head(act)], stk, at2)
<1>1. PICK h : h = Head(act) OBVIOUS
<1>2. PICK at2 : at2 = [at EXCEPT ![h] = "running"] OBVIOUS
<1>3. at \in Whereabouts /\ {"inactive", "finished", "active", "running"} \subseteq Spots
  BY DEF OnePlace, Spots
<1>4. h \in Heap /\ at[h] = "active" /\ Listed(Tail(act), at2, "active")
  <2>1. Listed(act, at, "active") /\ "active" \in Spots /\ "running" \in Spots
        /\ "running" # "active"
    BY <1>3 DEF OnePlace
  <2> QED BY <2>1, <1>1, <1>2, <1>3, Taken
<1>5. Run([run EXCEPT ![c] = h], at2) BY <1>2, <1>3, <1>4, RunTakes DEF OnePlace
<1>6. /\ at2 \in Whereabouts /\ Listed(ina, at2, "inactive") /\ Listed(fin, at2, "finished")
      /\ Held(stk, at2)
  BY <1>2, <1>3, <1>4, Beside DEF OnePlace
<1>7. OnePlace(ina, Tail(act), fin, [run EXCEPT ![c] = h], stk, at2) BY <1>4, <1>5, <1>6 DEF OnePlace
<1> QED BY <1>1, <1>7

(* A call that takes the heap a list begins with.                          *)
LEMMA CallTakes ==
    ASSUME NEW ina, NEW act, NEW fin, NEW run, NEW stk, NEW at, OnePlace(ina, act, fin, run, stk, at),
           NEW f \in Frame, Good(f), f.heap # NoHeap,
           IF stk = <<>> THEN f.op # "callback" ELSE Link(f, Head(stk))
    PROVE  /\ fin # <<>> /\ f.heap = Head(fin)
                => \E at2 : OnePlace(ina, act, Tail(fin), run, <<f>> \o stk, at2)
           /\ ina # <<>> /\ f.heap = Head(ina)
                => \E at2 : OnePlace(Tail(ina), act, fin, run, <<f>> \o stk, at2)
<1>1. PICK h : h = f.heap OBVIOUS
<1>at. PICK at2 : at2 = [at EXCEPT ![h] = "stack"] OBVIOUS
<1>2. at \in Whereabouts /\ {"inactive", "finished", "active", "running", "stack"} \subseteq Spots
  BY DEF OnePlace, Spots
<1>3. Shape(<<f>> \o stk) BY ShapePush DEF OnePlace
<1>4. ASSUME fin # <<>>, h = Head(fin) PROVE OnePlace(ina, act, Tail(fin), run, <<f>> \o stk, at2)
  <2>1. h \in Heap /\ at[h] = "finished" /\ Listed(Tail(fin), at2, "finished")
    <3>1. Listed(fin, at, "finished") /\ "finished" \in Spots /\ "stack" \in Spots /\ "stack" # "finished"
      BY <1>2 DEF OnePlace
    <3> QED BY <3>1, <1>at, <1>2, <1>4, Taken
  <2>2. Held(<<f>> \o stk, at2) BY <1>1, <1>at, <1>2, <2>1, HeldPush DEF OnePlace
  <2>3. at2 \in Whereabouts /\ Listed(ina, at2, "inactive") /\ Listed(act, at2, "active") /\ Run(run, at2)
    BY <1>at, <1>2, <2>1, Beside DEF OnePlace
  <2> QED BY <1>3, <2>1, <2>2, <2>3 DEF OnePlace
<1>5. ASSUME ina # <<>>, h = Head(ina) PROVE OnePlace(Tail(ina), act, fin, run, <<f>> \o stk, at2)
  <2>1. h \in Heap /\ at[h] = "inactive" /\ Listed(Tail(ina), at2, "inactive")
    <3>1. Listed(ina, at, "inactive") /\ "inactive" \in Spots /\ "stack" \in Spots /\ "stack" # "inactive"
      BY <1>2 DEF OnePlace
    <3> QED BY <3>1, <1>at, <1>2, <1>5, Taken
  <2>2. Held(<<f>> \o stk, at2) BY <1>1, <1>at, <1>2, <2>1, HeldPush DEF OnePlace
  <2>3. at2 \in Whereabouts /\ Listed(fin, at2, "finished") /\ Listed(act, at2, "active") /\ Run(run, at2)
    BY <1>at, <1>2, <2>1, Beside DEF OnePlace
  <2> QED BY <1>3, <2>1, <2>2, <2>3 DEF OnePlace
<1> QED BY <1>1, <1>4, <1>5

(* A call that gives its heap to a list, and ends.                         *)
LEMMA CallGives ==
    ASSUME NEW ina, NEW act, NEW fin, NEW run, NEW stk, NEW at, OnePlace(ina, act, fin, run, stk, at),
           stk # <<>>, Head(stk).heap # NoHeap
    PROVE  /\ \E at2 : OnePlace(<<Head(stk).heap>> \o ina, act, fin, run, Tail(stk), at2)
           /\ \E at2 : OnePlace(ina, <<Head(stk).heap>> \o act, fin, run, Tail(stk), at2)
<1>1. PICK h : h = Head(stk).heap OBVIOUS
<1>2. at \in Whereabouts /\ {"inactive", "finished", "active", "running", "stack"} \subseteq Spots
  BY DEF OnePlace, Spots
<1>3. Shape(Tail(stk)) BY ShapePop DEF OnePlace
<1>4. /\ h \in Heap /\ at[h] = "stack"
      /\ Held(Tail(stk), [at EXCEPT ![h] = "inactive"])
      /\ Held(Tail(stk), [at EXCEPT ![h] = "active"])
  <2>1. Held(stk, at) BY DEF OnePlace
  <2>2. \A q \in Spots : q # "stack" =>
            h \in Heap /\ at[h] = "stack" /\ Held(Tail(stk), [at EXCEPT ![h] = q])
    BY <1>1, <1>2, <2>1, HeldPop
  <2> QED BY <1>2, <2>2
<1>5. PICK at2 : at2 = [at EXCEPT ![h] = "inactive"] OBVIOUS
<1>6. OnePlace(<<h>> \o ina, act, fin, run, Tail(stk), at2)
  <2>1. Listed(<<h>> \o ina, at2, "inactive") BY <1>2, <1>4, <1>5, Put DEF OnePlace
  <2>2. /\ at2 \in Whereabouts /\ Listed(act, at2, "active") /\ Listed(fin, at2, "finished")
        /\ Run(run, at2)
    BY <1>2, <1>4, <1>5, Beside DEF OnePlace
  <2> QED BY <1>3, <1>4, <1>5, <2>1, <2>2 DEF OnePlace
<1>7. PICK at3 : at3 = [at EXCEPT ![h] = "active"] OBVIOUS
<1>8. OnePlace(ina, <<h>> \o act, fin, run, Tail(stk), at3)
  <2>1. Listed(<<h>> \o act, at3, "active") BY <1>2, <1>4, <1>7, Put DEF OnePlace
  <2>2. /\ at3 \in Whereabouts /\ Listed(ina, at3, "inactive") /\ Listed(fin, at3, "finished")
        /\ Run(run, at3)
    BY <1>2, <1>4, <1>7, Beside DEF OnePlace
  <2> QED BY <1>3, <1>4, <1>7, <2>1, <2>2 DEF OnePlace
<1> QED BY <1>1, <1>6, <1>8

(* The heaps native functions take at once, in front of the active ones.   *)
LEMMA NativeMoves ==
    ASSUME NEW ina, NEW act, NEW fin, NEW run, NEW stk, NEW at, OnePlace(ina, act, fin, run, stk, at),
           NEW n \in Nat, n <= Len(ina)
    PROVE  \E at2 : OnePlace(SubSeq(ina, n + 1, Len(ina)), [i \in 1..n |-> ina[n + 1 - i]] \o act,
                             fin, run, stk, at2)
<1>1. PICK r : r = SubSeq(ina, n + 1, Len(ina)) OBVIOUS
<1>2. PICK v : v = [i \in 1..n |-> ina[n + 1 - i]] OBVIOUS
<1>3. PICK w : w = v \o act OBVIOUS
<1>4. /\ ina \in Seq(Heap) /\ DOMAIN ina = 1 .. Len(ina) /\ Len(ina) \in Nat
      /\ act \in Seq(Heap) /\ DOMAIN act = 1 .. Len(act) /\ Len(act) \in Nat
      /\ \A i \in 1 .. Len(ina) : ina[i] \in Heap
      /\ \A i \in 1 .. Len(act) : act[i] \in Heap
  BY LenProperties, ElementOfSeq DEF OnePlace, Listed
<1>5. PICK l : l = Len(ina) OBVIOUS
<1>6. /\ r \in Seq(Heap) /\ DOMAIN r = 1 .. l - n
      /\ \A i \in 1 .. l - n : r[i] = ina[i + n]
  <2>1. l \in Nat /\ n + 1 \in 1 .. l + 1 /\ ina \in Seq(Heap) BY <1>4, <1>5
  <2>2. r \in Seq(Heap) /\ Len(r) = l - n /\ \A i \in 1 .. l - n : r[i] = ina[i + n]
    <3>1. r = SubSeq(ina, n + 1, l) BY <1>1, <1>5
    <3> QED BY <2>1, <3>1, <1>5
  <2> QED BY <2>2, LenProperties
<1>7. /\ v \in Seq(Heap) /\ Len(v) = n /\ \A i \in 1 .. n : v[i] = ina[n + 1 - i]
  <2>1. v \in [1 .. n -> Heap] BY <1>2, <1>4
  <2> QED BY <1>2, <2>1
<1>8. /\ w \in Seq(Heap) /\ DOMAIN w = 1 .. n + Len(act)
      /\ \A i \in 1 .. n + Len(act) : w[i] = IF i <= n THEN ina[n + 1 - i] ELSE act[i - n]
  <2>1. /\ w \in Seq(Heap) /\ Len(w) = n + Len(act)
        /\ \A i \in 1 .. n + Len(act) : w[i] = IF i <= n THEN v[i] ELSE act[i - n]
    BY ZenonT(60), <1>3, <1>4, <1>7, ConcatProperties
  <2>2. DOMAIN w = 1 .. n + Len(act) BY <2>1, LenProperties
  <2> QED BY <1>4, <1>7, <2>1, <2>2
<1>9. PICK at2 : at2 = [h \in Heap |-> IF \E i \in 1 .. n : ina[i] = h THEN "active" ELSE at[h]]
  OBVIOUS
<1>10. /\ at2 \in Whereabouts
       /\ \A h \in Heap : (\E i \in 1 .. n : ina[i] = h) => at2[h] = "active" /\ at[h] = "inactive"
       /\ \A h \in Heap : ~(\E i \in 1 .. n : ina[i] = h) => at2[h] = at[h]
  <2>1. at \in Whereabouts /\ "active" \in Spots BY DEF OnePlace, Spots
  <2>2. ASSUME NEW h \in Heap, NEW i \in 1 .. n, ina[i] = h PROVE at[h] = "inactive"
    <3>1. i \in DOMAIN ina BY <1>4
    <3> QED BY <2>2, <3>1 DEF OnePlace, Listed
  <2> QED BY <1>9, <2>1, <2>2 DEF Whereabouts
<1>11. ASSUME NEW i \in 1 .. l, NEW j \in 1 .. l, ina[i] = ina[j] PROVE i = j
  BY SMTT(40), <1>4, <1>5, <1>11 DEF OnePlace, Listed
<1>a. \A i, j \in DOMAIN act : act[i] = act[j] => i = j BY DEF OnePlace, Listed
<1>12. Listed(r, at2, "inactive")
  <2>1. \A i, j \in DOMAIN r : r[i] = r[j] => i = j
    <3> TAKE i, j \in DOMAIN r
    <3>1. PICK k, m : k = i + n /\ m = j + n OBVIOUS
    <3>2. k \in 1 .. l /\ m \in 1 .. l /\ r[i] = ina[k] /\ r[j] = ina[m] BY <1>4, <1>5, <1>6, <3>1
    <3>3. r[i] = r[j] => k = m BY <3>2, <1>11
    <3> QED BY <1>4, <1>5, <1>6, <3>1, <3>3
  <2>2. ASSUME NEW h \in Heap PROVE at2[h] = "inactive" <=> \E i \in DOMAIN r : r[i] = h
    <3>1. ASSUME at2[h] = "inactive" PROVE \E i \in DOMAIN r : r[i] = h
      <4>1. at[h] = "inactive" /\ ~(\E i \in 1 .. n : ina[i] = h) BY <1>10, <3>1
      <4>2. PICK k \in 1 .. l : ina[k] = h BY <1>4, <1>5, <4>1 DEF OnePlace, Listed
      <4>3. k \notin 1 .. n BY <4>1, <4>2
      <4>4. PICK i : i = k - n OBVIOUS
      <4>5. i \in 1 .. l - n /\ i + n = k BY <1>4, <1>5, <4>2, <4>3, <4>4
      <4> QED BY <1>6, <4>2, <4>5
    <3>2. ASSUME NEW i \in DOMAIN r, r[i] = h PROVE at2[h] = "inactive"
      <4>1. PICK k : k = i + n OBVIOUS
      <4>2. k \in 1 .. l /\ ina[k] = h /\ k \notin 1 .. n BY <1>4, <1>5, <1>6, <3>2, <4>1
      <4>3. ~(\E m \in 1 .. n : ina[m] = h)
        <5>1. \A m \in 1 .. n : m \in 1 .. l BY <1>4, <1>5
        <5> QED BY <4>2, <5>1, <1>11
      <4>4. at[h] = "inactive" BY <1>4, <1>5, <4>2 DEF OnePlace, Listed
      <4> QED BY <1>10, <4>3, <4>4
    <3> QED BY <3>1, <3>2
  <2> QED BY <1>6, <2>1, <2>2 DEF Listed
<1>13. Listed(w, at2, "active")
  <2>1. ASSUME NEW i \in 1 .. n PROVE n + 1 - i \in 1 .. l /\ n + 1 - i \in 1 .. n
    BY <1>4, <1>5
  <2>2. ASSUME NEW i \in 1 .. n, NEW k \in DOMAIN act PROVE ina[i] # act[k]
    <3>1. i \in DOMAIN ina /\ ina[i] \in Heap BY <1>4
    <3>2. at[ina[i]] = "inactive" BY <3>1 DEF OnePlace, Listed
    <3>3. act[k] \in Heap /\ at[act[k]] = "active" BY <1>4 DEF OnePlace, Listed
    <3> QED BY <3>2, <3>3
  <2>3. \A i, j \in DOMAIN w : w[i] = w[j] => i = j
    <3> TAKE i, j \in DOMAIN w
    <3> HAVE w[i] = w[j]
    <3>1. CASE i <= n /\ j <= n
      <4>1. PICK k, m : k = n + 1 - i /\ m = n + 1 - j OBVIOUS
      <4>2. k \in 1 .. l /\ m \in 1 .. l /\ w[i] = ina[k] /\ w[j] = ina[m] BY SMTT(40), <1>8, <2>1, <3>1, <4>1
      <4>3. k = m BY <4>2, <1>11
      <4> QED BY <1>8, <4>1, <4>3
    <3>2. CASE i > n /\ j > n
      <4>1. PICK k, m : k = i - n /\ m = j - n OBVIOUS
      <4>2. k \in DOMAIN act /\ m \in DOMAIN act /\ w[i] = act[k] /\ w[j] = act[m]
        BY <1>4, <1>8, <3>2, <4>1
      <4>3. k = m BY <1>a, <4>2
      <4> QED BY <1>8, <4>1, <4>3
    <3>3. CASE i <= n /\ j > n
      <4>1. PICK k, m : k = n + 1 - i /\ m = j - n OBVIOUS
      <4>2. k \in 1 .. n /\ m \in DOMAIN act /\ w[i] = ina[k] /\ w[j] = act[m]
        <5>1. i \in 1 .. n /\ i \in 1 .. n + Len(act) /\ ~(j <= n) /\ j \in 1 .. n + Len(act)
          BY <1>4, <1>8, <3>3
        <5>2. k \in 1 .. n /\ m \in DOMAIN act BY <5>1, <1>4, <4>1
        <5> QED BY <5>1, <5>2, <1>8, <4>1
      <4> QED BY <2>2, <4>2
    <3>4. CASE i > n /\ j <= n
      <4>1. PICK k, m : k = i - n /\ m = n + 1 - j OBVIOUS
      <4>2. k \in DOMAIN act /\ m \in 1 .. n /\ w[i] = act[k] /\ w[j] = ina[m]
        BY <1>4, <1>8, <2>1, <3>4, <4>1
      <4> QED BY <2>2, <4>2
    <3> QED BY <1>8, <3>1, <3>2, <3>3, <3>4
  <2>4. ASSUME NEW h \in Heap PROVE at2[h] = "active" <=> \E i \in DOMAIN w : w[i] = h
    <3>1. ASSUME NEW m \in 1 .. n, ina[m] = h PROVE \E i \in DOMAIN w : w[i] = h
      <4>1. PICK i : i = n + 1 - m OBVIOUS
      <4>2. i \in 1 .. n /\ n + 1 - i = m BY <3>1, <4>1
      <4>3. i \in 1 .. n + Len(act) /\ i <= n BY <1>4, <4>2
      <4>4. w[i] = ina[m] BY <1>8, <4>2, <4>3
      <4> QED BY <1>8, <3>1, <4>3, <4>4
    <3>2. ASSUME at[h] = "active" PROVE \E i \in DOMAIN w : w[i] = h
      <4>1. PICK k \in DOMAIN act : act[k] = h BY <3>2 DEF OnePlace, Listed
      <4>2. PICK i : i = k + n OBVIOUS
      <4>3. i \in 1 .. n + Len(act) /\ ~(i <= n) /\ i - n = k BY <1>4, <4>1, <4>2
      <4> QED BY <1>8, <4>1, <4>3
    <3>3. ASSUME NEW i \in DOMAIN w, w[i] = h PROVE at2[h] = "active"
      <4>1. CASE i <= n
        <5>1. PICK m : m = n + 1 - i OBVIOUS
        <5>2. m \in 1 .. n /\ ina[m] = h BY <1>8, <2>1, <3>3, <4>1, <5>1
        <5> QED BY <1>10, <5>2
      <4>2. CASE i > n
        <5>1. PICK k : k = i - n OBVIOUS
        <5>2. k \in DOMAIN act /\ act[k] = h BY <1>4, <1>8, <3>3, <4>2, <5>1
        <5>3. at[h] = "active" BY <5>2 DEF OnePlace, Listed
        <5> QED BY <1>10, <5>3
      <4> QED BY <1>8, <4>1, <4>2
    <3> QED BY <1>10, <3>1, <3>2, <3>3
  <2> QED BY <1>8, <2>3, <2>4 DEF Listed
<1>14. \A p \in {"finished", "running", "stack"}, h \in Heap : at2[h] = p <=> at[h] = p
  BY <1>10
<1>15. Listed(fin, at2, "finished") /\ Run(run, at2) /\ Held(stk, at2) /\ Shape(stk)
  BY <1>14 DEF OnePlace, Listed, Run, Held
<1>16. OnePlace(r, w, fin, run, stk, at2) BY <1>10, <1>12, <1>13, <1>15 DEF OnePlace
<1> QED BY <1>1, <1>2, <1>3, <1>16

-----------------------------------------------------------------------------
(* The inductive invariant, and the start                                  *)

(* A native function that is about to start finds enough heaps inactive.   *)
NativeReady(ina, stk, err) ==
    stk # <<>> /\ Head(stk).op = "native" /\ Head(stk).phase = "before" /\ ~err
        => Len(ina) >= num_cores

HeapInv ==
    ~quit => /\ \E at : OnePlace(inactive, active, finished, running, stack, at)
             /\ NativeReady(inactive, stack, error)

(* The jobs that are still to be given are jobs.                           *)
FreshInv == ~quit => fresh \subseteq Job

(* There is a core, and a heap for every core.                             *)
LEMMA Numbers ==
    /\ num_cores \in Nat /\ num_cores >= 1 /\ num_heaps \in Nat /\ num_heaps >= num_cores
    /\ IsFiniteSet(Heap) /\ NoHeap \notin Heap
<1>1. num_cores \in Nat /\ num_heaps \in Nat
  BY ComputeAssumption, FS_CardinalityType DEF num_cores, num_heaps
<1>2. num_cores # 0 BY ComputeAssumption, FS_EmptySet DEF num_cores
<1> QED BY <1>1, <1>2, ComputeAssumption

(* At the start every heap is on the inactive list, once.                  *)
LEMMA InitHeaps == Init => HeapInv
<1> SUFFICES ASSUME Init PROVE HeapInv OBVIOUS
<1>1. PICK n : n = num_heaps OBVIOUS
<1>2. /\ inactive \in [1 .. n -> Heap] /\ \A h \in Heap : \E i \in DOMAIN inactive : inactive[i] = h
      /\ n \in Nat
  BY <1>1, Numbers DEF Init
<1>3. \A i, j \in 1 .. n : inactive[i] = inactive[j] => i = j
  <2>1. inactive \in Surjection(1 .. n, Heap) BY <1>2, Fun_IsSurj
  <2>2. IsFiniteSet(1 .. n) /\ Cardinality(1 .. n) = n
    <3>1. IsFiniteSet(1 .. n) /\ Cardinality(1 .. n) = IF 1 > n THEN 0 ELSE n - 1 + 1
      BY <1>2, FS_Interval
    <3> QED BY <1>2, <3>1
  <2>3. Cardinality(Heap) = Cardinality(1 .. n) BY <1>1, <2>2 DEF num_heaps
  <2>4. inactive \in Injection(1 .. n, Heap) BY <2>1, <2>2, <2>3, FS_Surjection
  <2> QED BY <2>4 DEF Injection, IsInjective
<1>4. inactive \in Seq(Heap) /\ DOMAIN inactive = 1 .. n BY <1>2
<1>5. PICK at : at = [h \in Heap |-> "inactive"] OBVIOUS
<1>6. at \in Whereabouts /\ \A h \in Heap : at[h] = "inactive" BY <1>5 DEF Whereabouts, Spots
<1>7. Listed(inactive, at, "inactive") BY <1>2, <1>3, <1>4, <1>6 DEF Listed
<1>8. Listed(active, at, "active") /\ Listed(finished, at, "finished")
  BY <1>6 DEF Init, Listed
<1>9. Run(running, at) BY <1>6, Numbers DEF Init, Run
<1>10. Held(stack, at) /\ Shape(stack) BY <1>6 DEF Init, Held, Shape
<1>11. OnePlace(inactive, active, finished, running, stack, at)
  BY <1>6, <1>7, <1>8, <1>9, <1>10 DEF OnePlace
<1> QED BY <1>11 DEF Init, HeapInv, NativeReady

-----------------------------------------------------------------------------
(* The steps of the main thread                                            *)

(* The fields of the calls the actions make.                               *)
LEMMA PhaseSet ==
    \A g \in Frame, p \in Phases :
        /\ [g EXCEPT !.phase = p] \in Frame /\ [g EXCEPT !.phase = p].op = g.op
        /\ [g EXCEPT !.phase = p].phase = p /\ [g EXCEPT !.phase = p].job = g.job
        /\ [g EXCEPT !.phase = p].heap = g.heap
BY DEF Frame, NewFrame

(* A frame with another set of jobs is a frame.                            *)
LEMMA JobSet ==
    \A g \in Frame, J \in SUBSET Job :
        /\ [g EXCEPT !.job = J] \in Frame /\ [g EXCEPT !.job = J].op = g.op
        /\ [g EXCEPT !.job = J].phase = g.phase /\ [g EXCEPT !.job = J].job = J
        /\ [g EXCEPT !.job = J].heap = g.heap
BY DEF Frame, NewFrame

(* What holds of the call at hand.                                         *)
LEMMA AtHand ==
    ASSUME HeapInv, ~quit, stack # <<>>
    PROVE  /\ Top \in Frame /\ Good(Top) /\ stack \in Seq(Frame)
           /\ Top.phase \in PhasesOf(Top.op)
           /\ Top.heap # NoHeap <=> Top.phase \in {"clone", "script"}
           /\ Tail(stack) # <<>> =>
                /\ Link(Top, Head(Tail(stack))) /\ Head(Tail(stack)) \in Frame
                /\ Good(Head(Tail(stack)))
           /\ Tail(stack) = <<>> => Top.op # "callback"
<1>1. Shape(stack) BY DEF HeapInv, OnePlace
<1>2. stack \in Seq(Frame) BY <1>1 DEF Shape
<1> QED BY <1>1, <1>2, ShapePop DEF Top, Good

(* The calls that run finish_tasks, and where they are then.               *)
LEMMA FinishingCalls ==
    ASSUME HeapInv, ~quit, Finishing
    PROVE  /\ stack # <<>> /\ finished # <<>> /\ Top.heap = NoHeap
           /\ Top.op \in {"run", "finish_all", "check_finished"}
           /\ Top.phase \in {"loop", "wait", "finish"}
<1>1. stack # <<>> /\ finished # <<>> /\ Top.phase \in {"loop", "wait", "finish"}
  BY DEF Finishing, In
<1>2. Top.op \in {"run", "finish_all", "check_finished"}
  <2>1. CASE Top.phase = "finish"
    <3>1. Top.op \in Ops /\ "finish" \in PhasesOf(Top.op) BY <1>1, <2>1, AtHand DEF Frame
    <3> QED BY <3>1 DEF PhasesOf, Ops, Functions
  <2>2. CASE Top.phase # "finish" BY <1>1, <2>2 DEF Finishing, In
  <2> QED BY <2>1, <2>2
<1> QED BY <1>1, <1>2, AtHand DEF Good

(* No heap moves.                                                          *)
LEMMA Kept ==
    ASSUME \E at : OnePlace(inactive', active', finished', running', stack', at),
           NativeReady(inactive', stack', error')
    PROVE  HeapInv'
BY DEF HeapInv

(* A call that ends: only finish_all leaves a call before its start.       *)
LEMMA ReadyAfter ==
    ASSUME NEW ina, NEW stk, Shape(stk), stk # <<>>, NEW err, err \/ Head(stk).op # "finish_all"
    PROVE  NativeReady(ina, Tail(stk), err)
BY ShapePop DEF NativeReady, Link

(* GoesOn, for the call at hand.                                           *)
LEMMA TopGoesOn ==
    ASSUME NEW at, OnePlace(inactive, active, finished, running, stack, at), stack # <<>>,
           Top.heap = NoHeap, NEW f \in Frame, Good(f), f.op = Top.op, f.heap = NoHeap
    PROVE  /\ OnePlace(inactive, active, finished, running, <<f>> \o Tail(stack), at)
           /\ Head(<<f>> \o Tail(stack)) = f /\ <<f>> \o Tail(stack) # <<>>
           /\ OnePlace(inactive, active, finished, running, Tail(stack), at)
<1>1. f.op = Head(stack).op /\ Head(stack).heap = NoHeap BY DEF Top
<1> QED BY <1>1, GoesOn

(* Of the calls that go on, none is a native function before its start.    *)
LEMMA GoesOnStep ==
    ASSUME HeapInv, ~quit, stack # <<>>, Top.heap = NoHeap, NEW f \in Frame, Good(f),
           f.op = Top.op, f.heap = NoHeap, f.phase # "before", stack' = <<f>> \o Tail(stack),
           UNCHANGED <<lists, running>>
    PROVE  HeapInv'
<1>1. PICK at : OnePlace(inactive, active, finished, running, stack, at) BY DEF HeapInv
<1>2. PICK q : q = <<f>> \o Tail(stack) OBVIOUS
<1>3. OnePlace(inactive, active, finished, running, q, at) /\ Head(q) = f
  <2>1. /\ OnePlace(inactive, active, finished, running, <<f>> \o Tail(stack), at)
        /\ Head(<<f>> \o Tail(stack)) = f
    BY <1>1, TopGoesOn
  <2> QED BY <1>2, <2>1, Zenon
<1>4. NativeReady(inactive', q, error') BY <1>3 DEF NativeReady
<1>5. OnePlace(inactive', active', finished', running', stack', at)
  BY <1>2, <1>3 DEF lists
<1> QED BY <1>2, <1>4, <1>5, Kept

(* A call at hand that holds no heap returns.                              *)
LEMMA ReturnStep ==
    ASSUME HeapInv, ~quit, stack # <<>>, Top.heap = NoHeap, stack' = Tail(stack),
           UNCHANGED <<lists, running>>, NativeReady(inactive, Tail(stack), error')
    PROVE  HeapInv'
<1>1. PICK at : OnePlace(inactive, active, finished, running, stack, at) BY DEF HeapInv
<1>2. PICK q : q = Tail(stack) OBVIOUS
<1>3. OnePlace(inactive, active, finished, running, q, at)
  BY <1>1, <1>2, GoesOn, AtHand DEF Top
<1>4. OnePlace(inactive', active', finished', running', stack', at)
  BY <1>2, <1>3 DEF lists
<1>5. NativeReady(inactive', stack', error') BY DEF lists
<1> QED BY <1>4, <1>5, Kept

(* A call f, by the call at hand that goes on as g.                        *)
LEMMA CallStep ==
    ASSUME HeapInv, ~quit, stack # <<>>, Top.heap = NoHeap, NEW g \in Frame, Good(g),
           g.op = Top.op, g.heap = NoHeap,
           NEW f \in Frame, Good(f), f.heap = NoHeap, f.phase # "before", Link(f, g),
           CallFrom(g, f), UNCHANGED <<lists, running>>
    PROVE  HeapInv'
<1>1. PICK at : OnePlace(inactive, active, finished, running, stack, at) BY DEF HeapInv
<1>2. PICK q : q = <<g>> \o Tail(stack) OBVIOUS
<1>3. OnePlace(inactive, active, finished, running, q, at) /\ Head(q) = g /\ q # <<>>
  <2>1. /\ OnePlace(inactive, active, finished, running, <<g>> \o Tail(stack), at)
        /\ Head(<<g>> \o Tail(stack)) = g /\ <<g>> \o Tail(stack) # <<>>
    BY <1>1, TopGoesOn
  <2> QED BY <1>2, <2>1, Zenon
<1>4. PICK r : r = <<f>> \o q OBVIOUS
<1>5. OnePlace(inactive, active, finished, running, r, at) /\ Head(r) = f
  BY <1>3, <1>4, Begins
<1>6. NativeReady(inactive', r, error') BY <1>5 DEF NativeReady
<1>7. stack' = r
  <2>1. Tail(stack) \in Seq(Frame) BY AtHand, HeadTailProperties
  <2>2. <<f, g>> \o Tail(stack) = <<f>> \o (<<g>> \o Tail(stack)) BY <2>1
  <2> QED BY <1>2, <1>4, <2>2 DEF CallFrom
<1>8. OnePlace(inactive', active', finished', running', stack', at)
  BY <1>5, <1>7 DEF lists
<1> QED BY <1>6, <1>7, <1>8, Kept

(* A call that holds no heap may end.                                      *)
LEMMA Ends ==
    ASSUME NEW ina, NEW act, NEW fin, NEW run, NEW stk, NEW at,
           OnePlace(ina, act, fin, run, stk, at), stk # <<>>, Head(stk).heap = NoHeap
    PROVE  OnePlace(ina, act, fin, run, Tail(stk), at)
<1>1. "inactive" \in Spots /\ "inactive" # "stack" /\ at \in Whereabouts /\ Held(stk, at)
  BY DEF Spots, OnePlace
<1>2. Held(Tail(stk), at) BY <1>1, HeldPop
<1>3. Shape(Tail(stk)) BY ShapePop DEF OnePlace
<1> QED BY <1>2, <1>3 DEF OnePlace

(* A call at hand that holds no heap may end.                              *)
LEMMA TopEnds ==
    ASSUME NEW at, OnePlace(inactive, active, finished, running, stack, at), stack # <<>>,
           Top.heap = NoHeap
    PROVE  OnePlace(inactive, active, finished, running, Tail(stack), at)
BY Ends DEF Top

(* A call that finishes a heap goes on from there.                         *)
LEMMA FinishingGoesOn ==
    ASSUME HeapInv, ~quit, Finishing, NEW at,
           OnePlace(inactive, active, finished, running, stack, at),
           NEW f, f = [Top EXCEPT !.phase = "finish"]
    PROVE  /\ f \in Frame /\ f.phase = "finish" /\ f.op = Top.op
           /\ OnePlace(inactive, active, finished, running, <<f>> \o Tail(stack), at)
           /\ Head(<<f>> \o Tail(stack)) = f /\ <<f>> \o Tail(stack) # <<>>
<1>1. /\ stack # <<>> /\ finished # <<>> /\ Top.heap = NoHeap
      /\ Top.op \in {"run", "finish_all", "check_finished"}
  BY FinishingCalls
<1>2. Top \in Frame /\ Good(Top) BY <1>1, AtHand
<1>3. /\ f \in Frame /\ f.op = Top.op /\ f.phase = "finish" /\ f.job = Top.job /\ f.heap = Top.heap
  <2>1. "finish" \in Phases BY DEF Phases
  <2>2. PICK t : t = Top OBVIOUS
  <2> QED BY <1>2, <2>1, <2>2, PhaseSet, SMT
<1>4. Good(f) BY <1>1, <1>2, <1>3, FinishingCalls DEF Good, PhasesOf
<1>5. f.heap = NoHeap BY <1>3, FinishingCalls
<1>6. Top.heap = NoHeap BY FinishingCalls
<1> QED BY <1>1, <1>3, <1>4, <1>5, <1>6, TopGoesOn

LEMMA FinishFailedHeaps == HeapInv /\ ~quit /\ FinishFailed => HeapInv'
<1> SUFFICES ASSUME HeapInv, ~quit, FinishFailed PROVE HeapInv' OBVIOUS
<1>1. PICK at : OnePlace(inactive, active, finished, running, stack, at) BY DEF HeapInv
<1>2. stack # <<>> /\ finished # <<>> /\ Top.heap = NoHeap BY FinishingCalls DEF FinishFailed
<1>3. OnePlace(inactive, active, finished, running, Tail(stack), at) BY <1>1, <1>2, TopEnds
<1>4. \E at2 : OnePlace(<<Head(finished)>> \o inactive, active, Tail(finished), running, Tail(stack), at2)
  BY <1>2, <1>3, FinishedMoves
<1>5. \E at2 : OnePlace(inactive', active', finished', running', stack', at2)
  BY <1>4 DEF FinishFailed, Finished, Return, coreVars
<1>6. NativeReady(inactive', stack', error') BY DEF FinishFailed, Return, NativeReady
<1> QED BY <1>5, <1>6, Kept

LEMMA FinishPlainHeaps == HeapInv /\ ~quit /\ FinishPlain => HeapInv'
<1> SUFFICES ASSUME HeapInv, ~quit, FinishPlain PROVE HeapInv' OBVIOUS
<1>1. PICK at : OnePlace(inactive, active, finished, running, stack, at) BY DEF HeapInv
<1>2. PICK f : f = [Top EXCEPT !.phase = "finish"] OBVIOUS
<1>3. /\ f.phase = "finish" /\ finished # <<>>
      /\ OnePlace(inactive, active, finished, running, <<f>> \o Tail(stack), at)
      /\ Head(<<f>> \o Tail(stack)) = f
  BY <1>1, <1>2, FinishingGoesOn, FinishingCalls DEF FinishPlain
<1>4. \E at2 : OnePlace(<<Head(finished)>> \o inactive, active, Tail(finished), running,
                       <<f>> \o Tail(stack), at2)
  BY <1>3, FinishedMoves
<1>5. stack' = <<f>> \o Tail(stack) BY <1>2 DEF FinishPlain, Become
<1>6. \E at2 : OnePlace(inactive', active', finished', running', stack', at2)
  BY <1>4, <1>5 DEF FinishPlain, Finished, coreVars
<1>7. NativeReady(inactive', stack', error') BY <1>3, <1>5 DEF NativeReady
<1> QED BY <1>6, <1>7, Kept

LEMMA FinishCallbackHeaps == HeapInv /\ ~quit /\ FinishCallback => HeapInv'
<1> SUFFICES ASSUME HeapInv, ~quit, FinishCallback PROVE HeapInv' OBVIOUS
<1>1. PICK at : OnePlace(inactive, active, finished, running, stack, at) BY DEF HeapInv
<1>2. PICK g : g = [Top EXCEPT !.phase = "finish"] OBVIOUS
<1>3. /\ g \in Frame /\ g.phase = "finish" /\ finished # <<>> /\ stack # <<>>
      /\ OnePlace(inactive, active, finished, running, <<g>> \o Tail(stack), at)
      /\ Head(<<g>> \o Tail(stack)) = g /\ <<g>> \o Tail(stack) # <<>>
  BY <1>1, <1>2, FinishingGoesOn, FinishingCalls DEF FinishCallback
<1>h. PICK h : h = Head(finished) OBVIOUS
<1>f. PICK f : f = [NewFrame("callback", "script") EXCEPT !.heap = h, !.left = 1]
  OBVIOUS
<1>4. h = Head(finished) /\ f = [NewFrame("callback", "script") EXCEPT !.heap = h, !.left = 1]
  BY <1>h, <1>f
<1>5. h \in Heap /\ h # NoHeap
  <2>1. finished \in Seq(Heap) BY <1>1 DEF OnePlace, Listed
  <2> QED BY <1>3, <1>4, <2>1, Popped, Numbers
<1>6. /\ f \in Frame /\ f.op = "callback" /\ f.phase = "script" /\ f.job = {} /\ f.heap = h
  <2>2. /\ [NewFrame("callback", "script") EXCEPT !.heap = h, !.left = 1] \in Frame
        /\ [NewFrame("callback", "script") EXCEPT !.heap = h, !.left = 1].op = "callback"
        /\ [NewFrame("callback", "script") EXCEPT !.heap = h, !.left = 1].phase = "script"
        /\ [NewFrame("callback", "script") EXCEPT !.heap = h, !.left = 1].job = {}
        /\ [NewFrame("callback", "script") EXCEPT !.heap = h, !.left = 1].heap = h
    BY <1>5 DEF Frame, NewFrame, Ops, Phases
  <2> QED BY <1>4, <2>2, Zenon
<1>7. Good(f) /\ Link(f, g) BY <1>3, <1>5, <1>6 DEF Good, PhasesOf, Link
<1>8. PICK q : q = <<g>> \o Tail(stack) OBVIOUS
<1>9. /\ OnePlace(inactive, active, finished, running, q, at) /\ q # <<>> /\ Link(f, Head(q))
      /\ f.heap # NoHeap /\ f.heap = Head(finished)
  BY <1>3, <1>4, <1>5, <1>6, <1>7, <1>8
<1>10. \E at2 : OnePlace(inactive, active, Tail(finished), running, <<f>> \o q, at2)
  BY <1>3, <1>6, <1>7, <1>9, CallTakes
<1>11. Tail(stack) \in Seq(Frame) BY <1>3, AtHand, HeadTailProperties
<1>12. stack' = <<f>> \o q
  <2>1. stack' = <<f, g>> \o Tail(stack)
    BY <1>2, <1>4 DEF FinishCallback, CallFrom, Finished
  <2>2. <<f, g>> \o Tail(stack) = <<f>> \o (<<g>> \o Tail(stack)) BY <1>11
  <2> QED BY <1>8, <2>1, <2>2, Zenon
<1>13. \E at2 : OnePlace(inactive', active', finished', running', stack', at2)
  BY <1>10, <1>12 DEF FinishCallback, coreVars
<1>14. q \in Seq(Frame) BY <1>3, <1>8, <1>11, Pushed
<1>15. Head(stack') = f BY <1>6, <1>12, <1>14, Pushed
<1>16. NativeReady(inactive', stack', error') BY <1>6, <1>15 DEF NativeReady
<1> QED BY <1>13, <1>16, Kept

LEMMA CallbackReturnsHeaps == HeapInv /\ ~quit /\ CallbackReturns => HeapInv'
<1> SUFFICES ASSUME HeapInv, ~quit, CallbackReturns PROVE HeapInv' OBVIOUS
<1>1. PICK at : OnePlace(inactive, active, finished, running, stack, at) BY DEF HeapInv
<1>2. stack # <<>> /\ Top.op = "callback" /\ Top.phase = "script" BY DEF CallbackReturns, In
<1>3. /\ Top.heap # NoHeap /\ Tail(stack) # <<>> /\ Link(Top, Head(Tail(stack)))
      /\ Head(Tail(stack)) \in Frame /\ Good(Head(Tail(stack)))
  BY <1>2, AtHand
<1>4. Head(Tail(stack)).phase = "finish" /\ Head(Tail(stack)).heap = NoHeap
  BY <1>2, <1>3 DEF Link, Good
<1>5. PICK at2 : OnePlace(<<Top.heap>> \o inactive, active, finished, running, Tail(stack), at2)
  BY <1>1, <1>2, <1>3, CallGives DEF Top
<1>6. inactive' = <<Top.heap>> \o inactive /\ UNCHANGED <<active, finished, running>>
  BY DEF CallbackReturns, coreVars
<1>7. CASE error'
  <2>1. OnePlace(<<Top.heap>> \o inactive, active, finished, running, Tail(Tail(stack)), at2)
    BY <1>3, <1>4, <1>5, Ends
  <2>2. stack' = Tail(Tail(stack)) BY <1>7 DEF CallbackReturns
  <2>3. \E at3 : OnePlace(inactive', active', finished', running', stack', at3)
    BY <1>6, <2>1, <2>2
  <2>4. NativeReady(inactive', stack', error') BY <1>7 DEF NativeReady
  <2> QED BY <2>3, <2>4, Kept
<1>8. CASE ~error'
  <2>1. stack' = Tail(stack) BY <1>8 DEF CallbackReturns
  <2>2. \E at3 : OnePlace(inactive', active', finished', running', stack', at3)
    BY <1>5, <1>6, <2>1
  <2>3. NativeReady(inactive', stack', error') BY <1>4, <2>1 DEF NativeReady
  <2> QED BY <2>2, <2>3, Kept
<1> QED BY <1>7, <1>8

-----------------------------------------------------------------------------
(* compute_task_run                                                        *)

LEMMA PickHeapHeaps == HeapInv /\ ~quit /\ PickHeap => HeapInv'
<1> SUFFICES ASSUME HeapInv, ~quit, PickHeap PROVE HeapInv' OBVIOUS
<1>1. PICK at : OnePlace(inactive, active, finished, running, stack, at) BY DEF HeapInv
<1>2. stack # <<>> /\ Top.op = "run" /\ Top.phase \in {"loop", "finish"} /\ inactive # <<>>
  BY DEF PickHeap, In
<1>3. Top \in Frame /\ Good(Top) /\ Top.heap = NoHeap BY <1>2, AtHand
<1>4. OnePlace(inactive, active, finished, running, Tail(stack), at) BY <1>1, <1>2, <1>3, TopEnds
<1>h. PICK h : h = Head(inactive) OBVIOUS
<1>5. h \in Heap /\ h # NoHeap
  <2>1. inactive \in Seq(Heap) BY <1>1 DEF OnePlace, Listed
  <2> QED BY <1>2, <1>h, <2>1, Popped, Numbers
<1>f. PICK f : f = [Top EXCEPT !.phase = "clone", !.heap = h] OBVIOUS
<1>6. /\ f \in Frame /\ f.op = Top.op /\ f.phase = "clone" /\ f.job = Top.job /\ f.heap = h
  <2>1. PICK t, p : t = Top /\ p = "clone" OBVIOUS
  <2>2. t \in Frame /\ p \in Phases BY <1>3, <2>1 DEF Phases
  <2>3. PICK g : g = [t EXCEPT !.phase = p, !.heap = h] OBVIOUS
  <2>4. g \in Frame /\ g.op = t.op /\ g.phase = p /\ g.job = t.job /\ g.heap = h
    BY <1>5, <2>2, <2>3 DEF Frame
  <2> QED BY <1>f, <2>1, <2>3, <2>4, Zenon
<1>7. Good(f) /\ f.op # "callback" BY <1>2, <1>3, <1>5, <1>6 DEF Good, PhasesOf
<1>8. PICK r : r = Tail(stack) OBVIOUS
<1>9. IF r = <<>> THEN f.op # "callback" ELSE Link(f, Head(r))
  BY <1>2, <1>6, <1>7, <1>8, AtHand DEF Link
<1>10. \E at2 : OnePlace(Tail(inactive), active, finished, running, <<f>> \o r, at2)
  <2>1. OnePlace(inactive, active, finished, running, r, at) /\ f.heap # NoHeap /\ f.heap = Head(inactive)
    BY <1>4, <1>h, <1>5, <1>6, <1>8
  <2>2. inactive # <<>> /\ f \in Frame /\ Good(f) BY <1>2, <1>6, <1>7
  <2> QED BY <1>9, <2>1, <2>2, CallTakes, Zenon
<1>11. stack' = <<f>> \o r BY <1>h, <1>f, <1>8 DEF PickHeap, Become
<1>12. \E at2 : OnePlace(inactive', active', finished', running', stack', at2)
  BY <1>10, <1>11 DEF PickHeap, coreVars
<1>13. r \in Seq(Frame) BY <1>2, <1>8, AtHand, HeadTailProperties
<1>14. Head(stack') = f BY <1>6, <1>11, <1>13, Pushed
<1>15. NativeReady(inactive', stack', error') BY <1>6, <1>14 DEF NativeReady
<1> QED BY <1>12, <1>15, Kept

(* A call of the main thread that only changes its phase.                  *)
LEMMA NextPhase ==
    ASSUME HeapInv, ~quit, stack # <<>>, NEW p \in {"loop", "wait", "parts"},
           p \in PhasesOf(Top.op), Top.heap = NoHeap, p = "parts" => Top.op = "run_parallel",
           Top.op = "run_parallel" => p = "parts",
           stack' = <<[Top EXCEPT !.phase = p]>> \o Tail(stack), UNCHANGED <<lists, running>>
    PROVE  HeapInv'
<1>1. Top \in Frame /\ Good(Top) BY AtHand
<1>2. PICK f : f = [Top EXCEPT !.phase = p] OBVIOUS
<1>3. /\ f \in Frame /\ f.op = Top.op /\ f.phase = p /\ f.job = Top.job /\ f.heap = Top.heap
  <2>1. p \in Phases BY DEF Phases
  <2>2. PICK t : t = Top OBVIOUS
  <2> QED BY <1>1, <1>2, <2>1, <2>2, PhaseSet, SMT
<1>4. Good(f) BY <1>1, <1>3 DEF Good
<1>5. f.phase # "before" /\ f.heap = NoHeap /\ stack' = <<f>> \o Tail(stack) BY <1>2, <1>3
<1> QED BY <1>3, <1>4, <1>5, GoesOnStep

LEMMA WaitToRunHeaps == HeapInv /\ ~quit /\ WaitToRun => HeapInv'
<1> SUFFICES ASSUME HeapInv, ~quit, WaitToRun PROVE HeapInv' OBVIOUS
<1>1. stack # <<>> /\ Top.op = "run" /\ Top.phase \in {"loop", "finish"} BY DEF WaitToRun, In
<1>2. Top.heap = NoHeap BY <1>1, AtHand
<1>3. "loop" \in PhasesOf(Top.op) BY <1>1 DEF PhasesOf
<1>4. stack' = <<[Top EXCEPT !.phase = "loop"]>> \o Tail(stack) /\ UNCHANGED <<lists, running>>
  BY DEF WaitToRun, Sleep, Become, coreVars
<1> QED BY <1>1, <1>2, <1>3, <1>4, NextPhase

LEMMA CloneFailsHeaps == HeapInv /\ ~quit /\ CloneFails => HeapInv'
<1> SUFFICES ASSUME HeapInv, ~quit, CloneFails PROVE HeapInv' OBVIOUS
<1>1. PICK at : OnePlace(inactive, active, finished, running, stack, at) BY DEF HeapInv
<1>2. stack # <<>> /\ Top.heap # NoHeap BY AtHand DEF CloneFails, In
<1>3. \E at2 : OnePlace(<<Top.heap>> \o inactive, active, finished, running, Tail(stack), at2)
  BY <1>1, <1>2, CallGives DEF Top
<1>4. \E at2 : OnePlace(inactive', active', finished', running', stack', at2)
  BY <1>3 DEF CloneFails, Return, coreVars
<1>5. NativeReady(inactive', stack', error') BY DEF CloneFails, Return, NativeReady
<1> QED BY <1>4, <1>5, Kept

LEMMA StartJobHeaps == HeapInv /\ ~quit /\ StartJob => HeapInv'
<1> SUFFICES ASSUME HeapInv, ~quit, StartJob PROVE HeapInv' OBVIOUS
<1>1. PICK at : OnePlace(inactive, active, finished, running, stack, at) BY DEF HeapInv
<1>2. stack # <<>> /\ Top.heap # NoHeap /\ Top.op = "run" BY AtHand DEF StartJob, In
<1>3. \E at2 : OnePlace(inactive, <<Top.heap>> \o active, finished, running, Tail(stack), at2)
  BY <1>1, <1>2, CallGives DEF Top
<1>4. \E at2 : OnePlace(inactive', active', finished', running', stack', at2)
  BY <1>3 DEF StartJob, Return, coreVars
<1>5. Shape(stack) /\ Head(stack).op # "finish_all" BY <1>1, <1>2 DEF OnePlace, Top
<1>6. NativeReady(inactive, Tail(stack), FALSE) BY <1>2, <1>5, ReadyAfter
<1>7. NativeReady(inactive', stack', error') BY <1>6 DEF StartJob, Return
<1> QED BY <1>4, <1>7, Kept

-----------------------------------------------------------------------------
(* compute_task_check_finished and compute_task_finish_all                 *)

LEMMA CheckFinishedReturnsHeaps == HeapInv /\ ~quit /\ CheckFinishedReturns => HeapInv'
<1> SUFFICES ASSUME HeapInv, ~quit, CheckFinishedReturns PROVE HeapInv' OBVIOUS
<1>1. stack # <<>> /\ Top.op = "check_finished" /\ Top.phase = "finish" BY DEF CheckFinishedReturns, In
<1>2. Top.heap = NoHeap BY <1>1, AtHand
<1>3. stack' = Tail(stack) /\ ~error' /\ UNCHANGED <<lists, running>>
  BY DEF CheckFinishedReturns, Return, coreVars
<1>4. Shape(stack) /\ Head(stack).op # "finish_all" BY <1>1 DEF HeapInv, OnePlace, Top
<1>5. NativeReady(inactive, Tail(stack), error') BY <1>1, <1>4, ReadyAfter
<1> QED BY <1>1, <1>2, <1>3, <1>5, ReturnStep

LEMMA WaitToFinishHeaps == HeapInv /\ ~quit /\ WaitToFinish => HeapInv'
<1> SUFFICES ASSUME HeapInv, ~quit, WaitToFinish PROVE HeapInv' OBVIOUS
<1>1. stack # <<>> /\ Top.op = "finish_all" /\ Top.phase \in {"loop", "finish", "wait"}
  BY DEF WaitToFinish, In
<1>2. Top.heap = NoHeap BY <1>1, AtHand
<1>3. "wait" \in PhasesOf(Top.op) BY <1>1 DEF PhasesOf
<1>4. stack' = <<[Top EXCEPT !.phase = "wait"]>> \o Tail(stack) /\ UNCHANGED <<lists, running>>
  BY DEF WaitToFinish, Sleep, Become, coreVars
<1> QED BY <1>1, <1>2, <1>3, <1>4, NextPhase

LEMMA FinishAllReturnsHeaps == HeapInv /\ ~quit /\ FinishAllReturns => HeapInv'
<1> SUFFICES ASSUME HeapInv, ~quit, FinishAllReturns PROVE HeapInv' OBVIOUS
<1>1. stack # <<>> /\ Top.op = "finish_all" /\ Top.phase \in {"loop", "finish"} /\ AllInactive
  BY DEF FinishAllReturns, In
<1>2. Top.heap = NoHeap BY <1>1, AtHand
<1>3. stack' = Tail(stack) /\ UNCHANGED <<lists, running>>
  BY DEF FinishAllReturns, Return, coreVars
<1>4. Len(inactive) >= num_cores BY <1>1, Numbers DEF AllInactive
<1>5. NativeReady(inactive, Tail(stack), error') BY <1>4 DEF NativeReady
<1> QED BY <1>1, <1>2, <1>3, <1>5, ReturnStep

-----------------------------------------------------------------------------
(* compute_task_run_parallel                                               *)

LEMMA ParallelStartsHeaps == HeapInv /\ ~quit /\ ParallelStarts => HeapInv'
<1> SUFFICES ASSUME HeapInv, ~quit, ParallelStarts PROVE HeapInv' OBVIOUS
<1>1. stack # <<>> /\ Top.op = "run_parallel" /\ Top.phase = "before" BY DEF ParallelStarts, In
<1>2. Top.heap = NoHeap BY <1>1, AtHand
<1>3. "parts" \in PhasesOf(Top.op) BY <1>1 DEF PhasesOf
<1>4. stack' = <<[Top EXCEPT !.phase = "parts"]>> \o Tail(stack) /\ UNCHANGED <<lists, running>>
  BY DEF ParallelStarts, Become, coreVars
<1> QED BY <1>1, <1>2, <1>3, <1>4, NextPhase

LEMMA RunPartHeaps == HeapInv /\ ~quit /\ RunPart => HeapInv'
<1> SUFFICES ASSUME HeapInv, ~quit, RunPart PROVE HeapInv' OBVIOUS
<1>1. stack # <<>> /\ Top.op = "run_parallel" /\ Top.phase = "parts" /\ UNCHANGED <<lists, running>>
  BY DEF RunPart, In, coreVars
<1>2. Top \in Frame /\ Good(Top) /\ Top.heap = NoHeap BY <1>1, AtHand
<1>3. PICK j \in Top.job : CallFrom([Top EXCEPT !.job = @ \ {j}], [NewFrame("run", "loop") EXCEPT !.job = {j}])
  BY DEF RunPart
<1>t. PICK t : t = Top OBVIOUS
<1>J. PICK J : J = t.job \ {j} OBVIOUS
<1>g. PICK g : g = [t EXCEPT !.job = J] OBVIOUS
<1>f. PICK f : f = [NewFrame("run", "loop") EXCEPT !.job = {j}] OBVIOUS
<1>4. j \in Job /\ J \in SUBSET Job BY <1>2, <1>3, <1>t, <1>J DEF Frame
<1>5. /\ g \in Frame /\ g.op = t.op /\ g.phase = t.phase /\ g.job = J /\ g.heap = t.heap
  BY <1>2, <1>t, <1>4, <1>g, JobSet
<1>6. f \in Frame /\ f.op = "run" /\ f.phase = "loop" /\ f.job = {j} /\ f.heap = NoHeap
  BY <1>4, <1>f DEF Frame, NewFrame, Ops, Functions, Phases
<1>7. Good(g) BY <1>1, <1>2, <1>5, <1>t DEF Good
<1>8. Good(f) BY <1>4, <1>6 DEF Good, PhasesOf
<1>9. Link(f, g) BY <1>1, <1>5, <1>6, <1>t DEF Link
<1>10. CallFrom(g, f) BY <1>3, <1>t, <1>J, <1>g, <1>f, Zenon
<1>11. g.op = Top.op /\ g.heap = NoHeap /\ f.phase # "before" BY <1>2, <1>5, <1>6, <1>t
<1> QED BY <1>1, <1>2, <1>5, <1>6, <1>7, <1>8, <1>9, <1>10, <1>11, CallStep

(* finish_all, as a frame.                                                 *)
LEMMA FinishAllCall ==
    /\ FinishAll \in Frame /\ FinishAll.op = "finish_all" /\ FinishAll.phase = "loop"
    /\ FinishAll.job = {} /\ FinishAll.heap = NoHeap /\ Good(FinishAll)
<1>1. PICK f : f = FinishAll OBVIOUS
<1>2. /\ f \in Frame /\ f.op = "finish_all" /\ f.phase = "loop"
      /\ f.job = {} /\ f.heap = NoHeap
  BY <1>1 DEF FinishAll, NewFrame, Frame, Ops, Functions, Phases
<1>3. Good(f) BY <1>2 DEF Good, PhasesOf
<1> QED BY <1>1, <1>2, <1>3, Zenon

LEMMA PartsGivenHeaps == HeapInv /\ ~quit /\ PartsGiven => HeapInv'
<1> SUFFICES ASSUME HeapInv, ~quit, PartsGiven PROVE HeapInv' OBVIOUS
<1>1. stack # <<>> /\ Top.op = "run_parallel" /\ Top.phase = "parts" /\ UNCHANGED <<lists, running>>
  BY DEF PartsGiven, In, coreVars
<1>2. Top \in Frame /\ Good(Top) /\ Top.heap = NoHeap BY <1>1, AtHand
<1>p. PICK p : p = IF error THEN "failed" ELSE "after" OBVIOUS
<1>t. PICK t : t = Top OBVIOUS
<1>g. PICK g : g = [t EXCEPT !.phase = p, !.job = {}] OBVIOUS
<1>4. p \in {"failed", "after"} /\ p \in Phases BY <1>p DEF Phases
<1>5. /\ g \in Frame /\ g.op = t.op /\ g.phase = p /\ g.job = {} /\ g.heap = t.heap
  BY <1>2, <1>t, <1>4, <1>g DEF Frame
<1>f. PICK f : f = FinishAll OBVIOUS
<1>6. /\ f \in Frame /\ f.op = "finish_all" /\ f.phase = "loop"
      /\ f.job = {} /\ f.heap = NoHeap /\ Good(f)
  BY <1>f, FinishAllCall
<1>7. Good(g) BY <1>1, <1>2, <1>4, <1>5, <1>t DEF Good, PhasesOf
<1>8. Link(f, g) BY <1>4, <1>5, <1>6 DEF Link
<1>9. CallFrom(g, f) BY <1>p, <1>t, <1>g, <1>f, Zenon DEF PartsGiven
<1>10. g.op = Top.op /\ g.heap = NoHeap /\ f.phase # "before" BY <1>2, <1>5, <1>6, <1>t
<1> QED BY <1>1, <1>2, <1>5, <1>6, <1>7, <1>8, <1>9, <1>10, CallStep

LEMMA ParallelReturnsHeaps == HeapInv /\ ~quit /\ ParallelReturns => HeapInv'
<1> SUFFICES ASSUME HeapInv, ~quit, ParallelReturns PROVE HeapInv' OBVIOUS
<1>1. stack # <<>> /\ Top.op = "run_parallel" /\ Top.phase \in {"after", "failed", "before"}
  BY DEF ParallelReturns, In
<1>2. Top.heap = NoHeap BY <1>1, AtHand
<1>3. stack' = Tail(stack) /\ UNCHANGED <<lists, running>>
  BY DEF ParallelReturns, Return, coreVars
<1>4. Shape(stack) /\ Head(stack).op # "finish_all" BY <1>1 DEF HeapInv, OnePlace, Top
<1>5. NativeReady(inactive, Tail(stack), error') BY <1>1, <1>4, ReadyAfter
<1> QED BY <1>1, <1>2, <1>3, <1>5, ReturnStep

-----------------------------------------------------------------------------
(* fixtask_run_on_compute_threads                                          *)

LEMMA NativeStartsHeaps == HeapInv /\ ~quit /\ NativeStarts => HeapInv'
<1> SUFFICES ASSUME HeapInv, ~quit, NativeStarts PROVE HeapInv' OBVIOUS
<1>1. PICK at : OnePlace(inactive, active, finished, running, stack, at) BY DEF HeapInv
<1>2. stack # <<>> /\ Top.op = "native" /\ Top.phase = "before" /\ ~error BY DEF NativeStarts, In
<1>3. Top \in Frame /\ Good(Top) /\ Top.heap = NoHeap BY <1>2, AtHand
<1>4. Len(inactive) >= num_cores BY <1>2 DEF HeapInv, NativeReady, Top
<1>t. PICK t : t = Top OBVIOUS
<1>f. PICK f : f = [t EXCEPT !.phase = "wait"] OBVIOUS
<1>5. /\ f \in Frame /\ f.op = t.op /\ f.phase = "wait" /\ f.job = t.job /\ f.heap = t.heap
  BY <1>3, <1>t, <1>f DEF Frame, Phases
<1>6. Good(f) /\ f.op = Top.op /\ f.heap = NoHeap
  BY <1>2, <1>3, <1>5, <1>t DEF Good, PhasesOf
<1>7. PICK q : q = <<f>> \o Tail(stack) OBVIOUS
<1>8. OnePlace(inactive, active, finished, running, q, at) /\ Head(q) = f
  <2>1. /\ OnePlace(inactive, active, finished, running, <<f>> \o Tail(stack), at)
        /\ Head(<<f>> \o Tail(stack)) = f
    BY <1>1, <1>2, <1>3, <1>5, <1>6, TopGoesOn
  <2> QED BY <1>7, <2>1, Zenon
<1>9. PICK n : n = num_cores OBVIOUS
<1>10. n \in Nat /\ n <= Len(inactive)
  <2>1. inactive \in Seq(Heap) BY <1>1 DEF OnePlace, Listed
  <2> QED BY <1>4, <1>9, <2>1, Numbers
<1>11. \E at2 : OnePlace(SubSeq(inactive, n + 1, Len(inactive)),
                        [i \in 1..n |-> inactive[n + 1 - i]] \o active, finished, running, q, at2)
  BY <1>8, <1>10, NativeMoves
<1>12. stack' = q BY <1>t, <1>f, <1>7 DEF NativeStarts, Become
<1>13. \E at2 : OnePlace(inactive', active', finished', running', stack', at2)
  BY <1>9, <1>11, <1>12, Zenon DEF NativeStarts, coreVars
<1>14. NativeReady(inactive', stack', error') BY <1>5, <1>8, <1>12 DEF NativeReady
<1> QED BY <1>13, <1>14, Kept

LEMMA WaitForNativeHeaps == HeapInv /\ ~quit /\ WaitForNative => HeapInv'
<1> SUFFICES ASSUME HeapInv, ~quit, WaitForNative PROVE HeapInv' OBVIOUS
<1>1. stack # <<>> /\ Top.op = "native" /\ Top.phase = "wait" BY DEF WaitForNative, In
<1>2. Top \in Frame /\ Good(Top) /\ Top.heap = NoHeap BY <1>1, AtHand
<1>3. stack' = <<Top>> \o Tail(stack) /\ UNCHANGED <<lists, running>>
  BY DEF WaitForNative, Sleep, Become, coreVars
<1>4. PICK t : t = Top OBVIOUS
<1>5. t \in Frame /\ Good(t) /\ t.op = Top.op /\ t.heap = NoHeap /\ t.phase # "before"
      /\ stack' = <<t>> \o Tail(stack)
  BY <1>1, <1>2, <1>3, <1>4
<1> QED BY <1>1, <1>2, <1>3, <1>5, GoesOnStep

LEMMA NativeReturnsHeaps == HeapInv /\ ~quit /\ NativeReturns => HeapInv'
<1> SUFFICES ASSUME HeapInv, ~quit, NativeReturns PROVE HeapInv' OBVIOUS
<1>1. stack # <<>> /\ Top.op = "native" /\ Top.phase \in {"before", "wait"}
  BY DEF NativeReturns, In
<1>2. Top.heap = NoHeap BY <1>1, AtHand
<1>3. stack' = Tail(stack) /\ UNCHANGED <<lists, running>>
  BY DEF NativeReturns, Return, coreVars
<1>4. Shape(stack) /\ Head(stack).op # "finish_all" BY <1>1 DEF HeapInv, OnePlace, Top
<1>5. NativeReady(inactive, Tail(stack), error') BY <1>1, <1>4, ReadyAfter
<1> QED BY <1>1, <1>2, <1>3, <1>5, ReturnStep

-----------------------------------------------------------------------------
(* The calls of the script, or of a finish function                        *)

(* The calls the script makes are on top of calls that hold the same       *)
(* heaps, the first of which is in a finish function.                      *)
LEMMA CalledFrom ==
    ASSUME HeapInv, ~quit, NEW op, NEW frames \in Seq(Frame), ScriptCalls(op, frames)
    PROVE  \E b, at : /\ OnePlace(inactive, active, finished, running, b, at)
                      /\ b = <<>> \/ Head(b).phase = "script"
                      /\ b \in Seq(Frame) /\ stack' = frames \o b
<1>1. PICK at : OnePlace(inactive, active, finished, running, stack, at) BY DEF HeapInv
<1>2. CASE stack = <<>> /\ stack' = frames
  <2>1. frames \o <<>> = frames OBVIOUS
  <2>2. OnePlace(inactive, active, finished, running, <<>>, at) BY <1>1, <1>2
  <2>3. <<>> \in Seq(Frame) OBVIOUS
  <2> QED BY <1>2, <2>1, <2>2, <2>3, Zenon
<1>3. CASE /\ In("callback", {"script"})
           /\ stack' = frames \o <<[Top EXCEPT !.left = 0]>> \o Tail(stack)
  <2>1. stack # <<>> /\ Top.phase = "script" BY <1>3 DEF In
  <2>2. Top \in Frame /\ Good(Top) BY <2>1, AtHand
  <2>3. PICK t : t = Top OBVIOUS
  <2>4. PICK f : f = [t EXCEPT !.left = 0] OBVIOUS
  <2>5. f \in Frame /\ f.op = t.op /\ f.phase = t.phase /\ f.job = t.job /\ f.heap = t.heap
    BY <2>2, <2>3, <2>4 DEF Frame
  <2>6. Good(f) /\ f.op = Head(stack).op /\ f.heap = Head(stack).heap
    BY <2>2, <2>3, <2>5 DEF Good, Top
  <2>7. PICK r : r = Tail(stack) OBVIOUS
  <2>8. PICK b : b = <<f>> \o r OBVIOUS
  <2>9. Held(stack, at) /\ Shape(stack) BY <1>1 DEF OnePlace
  <2>10. /\ Held(<<f>> \o Tail(stack), at) /\ Shape(<<f>> \o Tail(stack))
         /\ Head(<<f>> \o Tail(stack)) = f
    BY <2>1, <2>5, <2>6, <2>9, HeldSame
  <2>11. Held(b, at) /\ Shape(b) /\ Head(b) = f BY <2>7, <2>8, <2>10, Zenon
  <2>12. OnePlace(inactive, active, finished, running, b, at) BY <1>1, <2>11 DEF OnePlace
  <2>13. r \in Seq(Frame) BY <2>1, <2>7, AtHand, HeadTailProperties
  <2>14. <<f>> \in Seq(Frame) BY <2>5
  <2>15. (frames \o <<f>>) \o r = frames \o b BY <2>8, <2>13, <2>14, ConcatAssociative
  <2>16. stack' = (frames \o <<f>>) \o r BY <1>3, <2>3, <2>4, <2>7
  <2>17. b \in Seq(Frame) /\ Head(b).phase = "script" BY <2>1, <2>3, <2>5, <2>11 DEF Shape
  <2> QED BY <2>12, <2>15, <2>16, <2>17
<1> QED BY <1>2, <1>3 DEF ScriptCalls

(* One call, and finish_all called by another at once.                     *)
LEMMA OneCall ==
    ASSUME HeapInv, ~quit, NEW op, NEW f \in Frame, Good(f), f.heap = NoHeap,
           f.op # "callback", f.phase # "before", ScriptCalls(op, <<f>>),
           UNCHANGED <<lists, running>>
    PROVE  HeapInv'
<1>1. <<f>> \in Seq(Frame) OBVIOUS
<1>2. PICK b, at : /\ OnePlace(inactive, active, finished, running, b, at)
                   /\ b = <<>> \/ Head(b).phase = "script"
                   /\ b \in Seq(Frame) /\ stack' = <<f>> \o b
  BY <1>1, CalledFrom
<1>3. IF b = <<>> THEN f.op # "callback" ELSE Link(f, Head(b)) BY <1>2 DEF Link
<1>4. OnePlace(inactive, active, finished, running, <<f>> \o b, at) /\ Head(<<f>> \o b) = f
  BY <1>2, <1>3, Begins
<1>5. \E at2 : OnePlace(inactive', active', finished', running', stack', at2)
  BY <1>2, <1>4 DEF lists
<1>6. NativeReady(inactive', stack', error') BY <1>2, <1>4 DEF NativeReady
<1> QED BY <1>5, <1>6, Kept

(* A call that makes finish_all run before it starts.                      *)
LEMMA FinishAllFirst ==
    ASSUME HeapInv, ~quit, NEW op, NEW g \in Frame, Good(g), g.heap = NoHeap,
           g.op # "callback", g.phase = "before", ScriptCalls(op, <<FinishAll, g>>),
           UNCHANGED <<lists, running>>
    PROVE  HeapInv'
<1>f. PICK f : f = FinishAll OBVIOUS
<1>1. /\ f \in Frame /\ f.op = "finish_all" /\ f.phase = "loop" /\ f.heap = NoHeap /\ Good(f)
  BY <1>f, FinishAllCall
<1>2. <<f, g>> \in Seq(Frame) BY <1>1
<1>3. PICK b, at : /\ OnePlace(inactive, active, finished, running, b, at)
                   /\ b = <<>> \/ Head(b).phase = "script"
                   /\ b \in Seq(Frame) /\ stack' = <<f, g>> \o b
  BY <1>f, <1>2, CalledFrom
<1>4. IF b = <<>> THEN g.op # "callback" ELSE Link(g, Head(b)) BY <1>3 DEF Link
<1>5. PICK q : q = <<g>> \o b OBVIOUS
<1>6. OnePlace(inactive, active, finished, running, q, at) /\ Head(q) = g /\ q # <<>>
  BY <1>3, <1>4, <1>5, Begins
<1>7. Link(f, g) BY <1>1 DEF Link
<1>8. OnePlace(inactive, active, finished, running, <<f>> \o q, at) /\ Head(<<f>> \o q) = f
  BY <1>1, <1>6, <1>7, Begins
<1>9. stack' = <<f>> \o q
  <2>1. <<f, g>> \o b = <<f>> \o (<<g>> \o b) BY <1>3
  <2> QED BY <1>3, <1>5, <2>1, Zenon
<1>10. \E at2 : OnePlace(inactive', active', finished', running', stack', at2)
  BY <1>8, <1>9 DEF lists
<1>11. NativeReady(inactive', stack', error') BY <1>1, <1>8, <1>9 DEF NativeReady
<1> QED BY <1>10, <1>11, Kept

LEMMA ScriptStepHeaps == HeapInv /\ FreshInv /\ ~quit /\ ScriptStep => HeapInv'
<1> SUFFICES ASSUME HeapInv, FreshInv, ~quit, ScriptStep PROVE HeapInv' OBVIOUS
<1>0. fresh \subseteq Job BY DEF FreshInv
<1>1. CASE CallRun
  <2>1. PICK j \in fresh : ScriptCalls("run", <<[NewFrame("run", "loop") EXCEPT !.job = {j}]>>)
    BY <1>1 DEF CallRun
  <2>2. PICK f : f = [NewFrame("run", "loop") EXCEPT !.job = {j}] OBVIOUS
  <2>3. f \in Frame /\ f.op = "run" /\ f.phase = "loop" /\ f.job = {j} /\ f.heap = NoHeap
    BY <1>0, <2>1, <2>2 DEF Frame, NewFrame, Ops, Functions, Phases
  <2>4. Good(f) BY <1>0, <2>1, <2>3 DEF Good, PhasesOf
  <2>5. UNCHANGED <<lists, running>> BY <1>1 DEF CallRun, coreVars
  <2>6. ScriptCalls("run", <<f>>) BY <2>1, <2>2
  <2> QED BY <2>3, <2>4, <2>5, <2>6, OneCall
<1>2. CASE CallCheckFinished
  <2>2. PICK f : f = NewFrame("check_finished", "finish") OBVIOUS
  <2>3. f \in Frame /\ f.op = "check_finished" /\ f.phase = "finish" /\ f.job = {} /\ f.heap = NoHeap
    BY <2>2 DEF Frame, NewFrame, Ops, Functions, Phases
  <2>4. Good(f) BY <2>3 DEF Good, PhasesOf
  <2>5. UNCHANGED <<lists, running>> BY <1>2 DEF CallCheckFinished, coreVars
  <2>6. ScriptCalls("check_finished", <<f>>) BY <1>2, <2>2 DEF CallCheckFinished
  <2> QED BY <2>3, <2>4, <2>5, <2>6, OneCall
<1>3. CASE CallFinishAll
  <2>2. PICK f : f = FinishAll OBVIOUS
  <2>3. f \in Frame /\ f.op = "finish_all" /\ f.phase = "loop" /\ f.heap = NoHeap /\ Good(f)
    BY <2>2, FinishAllCall
  <2>5. UNCHANGED <<lists, running>> BY <1>3 DEF CallFinishAll, coreVars
  <2>6. ScriptCalls("finish_all", <<f>>) BY <1>3, <2>2 DEF CallFinishAll
  <2> QED BY <2>3, <2>5, <2>6, OneCall
<1>4. CASE CallParallel
  <2>1. PICK parts \in SUBSET (fresh \ WithFinish) :
            ScriptCalls("run_parallel",
                <<FinishAll, [NewFrame("run_parallel", "before") EXCEPT !.job = parts]>>)
    BY <1>4 DEF CallParallel
  <2>2. PICK g : g = [NewFrame("run_parallel", "before") EXCEPT !.job = parts] OBVIOUS
  <2>3. /\ g \in Frame /\ g.op = "run_parallel" /\ g.phase = "before" /\ g.job = parts
        /\ g.heap = NoHeap
    BY <1>0, <2>1, <2>2 DEF Frame, NewFrame, Ops, Functions, Phases
  <2>4. Good(g) BY <2>3 DEF Good, PhasesOf
  <2>5. UNCHANGED <<lists, running>> BY <1>4 DEF CallParallel, coreVars
  <2>6. ScriptCalls("run_parallel", <<FinishAll, g>>) BY <2>1, <2>2
  <2> QED BY <2>3, <2>4, <2>5, <2>6, FinishAllFirst
<1>5. CASE CallNative
  <2>2. PICK g : g = NewFrame("native", "before") OBVIOUS
  <2>3. /\ g \in Frame /\ g.op = "native" /\ g.phase = "before" /\ g.job = {} /\ g.heap = NoHeap
    BY <2>2 DEF Frame, NewFrame, Ops, Functions, Phases
  <2>4. Good(g) BY <2>3 DEF Good, PhasesOf
  <2>5. UNCHANGED <<lists, running>> BY <1>5 DEF CallNative, coreVars
  <2>6. ScriptCalls("native", <<FinishAll, g>>) BY <1>5, <2>2 DEF CallNative
  <2> QED BY <2>3, <2>4, <2>5, <2>6, FinishAllFirst
<1> QED BY <1>1, <1>2, <1>3, <1>4, <1>5 DEF ScriptStep

(* Jobs come back to fresh only from calls, which have jobs only.          *)
LEMMA FreshStep == HeapInv /\ FreshInv /\ [Next]_vars => FreshInv'
<1> SUFFICES ASSUME HeapInv, FreshInv, [Next]_vars, ~quit' PROVE fresh' \subseteq Job BY DEF FreshInv
<1>1. CASE UNCHANGED vars BY <1>1 DEF vars, coreVars, FreshInv
<1>2. CASE ScriptStep
  BY <1>2 DEF ScriptStep, CallRun, CallParallel, CallCheckFinished, CallFinishAll, CallNative,
              ScriptCalls, FreshInv
<1>3. CASE PartsGiven \/ ParallelReturns
  <2>1. stack # <<>> /\ ~quit BY <1>3 DEF PartsGiven, ParallelReturns, In, coreVars
  <2>2. Top.job \subseteq Job BY <2>1, AtHand DEF Frame
  <2> QED BY <1>3, <2>1, <2>2 DEF PartsGiven, ParallelReturns, FreshInv
<1>4. CASE FinishFailed \/ FinishPlain \/ FinishCallback \/ CallbackReturns \/ PickHeap
           \/ WaitToRun \/ CloneFails \/ StartJob
  BY <1>4 DEF FinishFailed, FinishPlain, FinishCallback, CallbackReturns, PickHeap,
              WaitToRun, CloneFails, StartJob, Sleep, coreVars, FreshInv
<1>5. CASE CheckFinishedReturns \/ WaitToFinish \/ FinishAllReturns \/ ParallelStarts \/ RunPart
           \/ NativeStarts \/ WaitForNative \/ NativeReturns
  BY <1>5 DEF CheckFinishedReturns, WaitToFinish, FinishAllReturns, ParallelStarts, RunPart,
              NativeStarts, WaitForNative, NativeReturns, Sleep, coreVars, FreshInv
<1>6. CASE \E c \in Core : CoreStep(c)
  BY <1>6 DEF CoreStep, TakeHeap, WaitForWork, Leave, FreshInv
<1>7. CASE EndScript \/ WakeSpuriously BY <1>7 DEF EndScript, WakeSpuriously, coreVars, FreshInv
<1> QED BY <1>1, <1>2, <1>3, <1>4, <1>5, <1>6, <1>7 DEF Next, MainStep

-----------------------------------------------------------------------------
(* The cores                                                               *)

(* One more inactive heap does not make a native function less ready.      *)
LEMMA MoreReady ==
    ASSUME HeapInv, ~quit, UNCHANGED <<stack, error>>,
           inactive \in Seq(Heap), NEW h \in Heap,
           inactive' = inactive \/ inactive' = <<h>> \o inactive
    PROVE  NativeReady(inactive', stack', error')
<1>1. NativeReady(inactive, stack, error) BY DEF HeapInv
<1>2. Len(inactive') >= Len(inactive) /\ Len(inactive) \in Nat /\ Len(inactive') \in Nat
  <2>1. CASE inactive' = inactive BY <2>1, LenProperties
  <2>2. CASE inactive' = <<h>> \o inactive BY <2>2, Pushed, LenProperties
  <2> QED BY <2>1, <2>2
<1> QED BY <1>1, <1>2, Numbers DEF NativeReady

(* A core that comes back has no heap for a moment.                        *)
LEMMA CoreGives ==
    ASSUME HeapInv, ~quit, NEW c \in Core, GiveBack(c), UNCHANGED <<stack, error>>
    PROVE  /\ \E at : OnePlace(inactive', active, finished', [running EXCEPT ![c] = NoHeap], stack, at)
           /\ NativeReady(inactive', stack', error')
<1>1. PICK at : OnePlace(inactive, active, finished, running, stack, at) BY DEF HeapInv
<1>2. inactive \in Seq(Heap) /\ running \in [Core -> Heap \cup {NoHeap}]
  BY <1>1 DEF OnePlace, Listed, Run
<1>3. CASE ~Ran(c)
  <2>1. running[c] = NoHeap /\ inactive' = inactive /\ finished' = finished
    BY <1>3 DEF Ran, RanNative, GiveBack
  <2>2. [running EXCEPT ![c] = NoHeap] = running BY <1>2, <2>1
  <2>3. OnePlace(inactive', active, finished', [running EXCEPT ![c] = NoHeap], stack, at)
    BY <1>1, <2>1, <2>2
  <2>4. NativeReady(inactive', stack', error') BY <2>1 DEF HeapInv
  <2> QED BY <2>3, <2>4
<1>4. CASE Ran(c)
  <2>1. running[c] # NoHeap /\ running[c] \in Heap BY <1>2, <1>4 DEF Ran
  <2>2. /\ \E at2 : OnePlace(<<running[c]>> \o inactive, active, finished,
                              [running EXCEPT ![c] = NoHeap], stack, at2)
        /\ \E at2 : OnePlace(inactive, active, <<running[c]>> \o finished,
                              [running EXCEPT ![c] = NoHeap], stack, at2)
    BY <1>1, <2>1, RunMoves
  <2>3. CASE RanNative(c)
    <3>1. inactive' = <<running[c]>> \o inactive /\ finished' = finished
      BY <2>3 DEF GiveBack
    <3>2. NativeReady(inactive', stack', error') BY <1>2, <2>1, <3>1, MoreReady
    <3> QED BY <2>2, <3>1, <3>2
  <2>4. CASE ~RanNative(c)
    <3>1. inactive' = inactive /\ finished' = <<running[c]>> \o finished
      BY <1>4, <2>4 DEF GiveBack
    <3>2. NativeReady(inactive', stack', error') BY <1>2, <2>1, <3>1, MoreReady
    <3> QED BY <2>2, <3>1, <3>2
  <2> QED BY <2>3, <2>4
<1> QED BY <1>3, <1>4

(* A core that comes back gives its heap to a list, and takes the first    *)
(* active one if there is one.                                             *)
LEMMA CoreHeaps == ASSUME HeapInv, ~quit, NEW c \in Core, TakeHeap(c) \/ WaitForWork(c) PROVE HeapInv'
<1>1. GiveBack(c) /\ UNCHANGED <<stack, error>> BY DEF TakeHeap, WaitForWork
<1>2. PICK at : OnePlace(inactive', active, finished', [running EXCEPT ![c] = NoHeap], stack, at)
  BY <1>1, CoreGives
<1>3. NativeReady(inactive', stack', error') BY <1>1, CoreGives
<1>4. CASE WaitForWork(c)
  <2>1. \E at2 : OnePlace(inactive', active', finished', running', stack', at2)
    BY <1>2, <1>4 DEF WaitForWork
  <2> QED BY <1>3, <2>1, Kept
<1>5. CASE TakeHeap(c)
  <2>1. PICK run : run = [running EXCEPT ![c] = NoHeap] OBVIOUS
  <2>2. running \in [Core -> Heap \cup {NoHeap}] BY DEF HeapInv, OnePlace, Run
  <2>3. run[c] = NoHeap /\ [run EXCEPT ![c] = Head(active)] = [running EXCEPT ![c] = Head(active)]
    BY <2>1, <2>2
  <2>4. PICK ina, fin : ina = inactive' /\ fin = finished' OBVIOUS
  <2>5. OnePlace(ina, active, fin, run, stack, at) /\ active # <<>>
    BY <1>2, <1>5, <2>1, <2>4 DEF TakeHeap
  <2>6. \E at2 : OnePlace(ina, Tail(active), fin, [run EXCEPT ![c] = Head(active)], stack, at2)
    BY <2>3, <2>5, ActiveMoves
  <2>7. \E at2 : OnePlace(inactive', active', finished', running', stack', at2)
    BY <1>5, <2>3, <2>4, <2>6 DEF TakeHeap
  <2> QED BY <1>3, <2>7, Kept
<1> QED BY <1>4, <1>5

-----------------------------------------------------------------------------
(* Every step, and what it means for the places of a heap                  *)

(* Every step keeps each heap in one place.                                *)
LEMMA HeapStep == HeapInv /\ FreshInv /\ [Next]_vars => HeapInv'
<1> SUFFICES ASSUME HeapInv, FreshInv, [Next]_vars PROVE HeapInv' OBVIOUS
<1>1. CASE quit'
  BY <1>1 DEF HeapInv
<1>2. CASE ~quit'
  <2>1. ~quit
    <3>1. CASE UNCHANGED vars BY <1>2, <3>1 DEF vars, coreVars
    <3>2. CASE ScriptStep BY <3>2 DEF ScriptStep, CallRun, CallParallel, CallCheckFinished, CallFinishAll,
                                     CallNative, ScriptCalls
    <3>3. CASE MainStep
      BY <1>2, <3>3 DEF MainStep, FinishFailed, FinishPlain, FinishCallback, CallbackReturns, PickHeap,
              WaitToRun, CloneFails, StartJob, CheckFinishedReturns, WaitToFinish, FinishAllReturns,
              ParallelStarts, RunPart, PartsGiven, ParallelReturns,
              NativeStarts, WaitForNative, NativeReturns, Sleep, coreVars
    <3>4. CASE \E c \in Core : CoreStep(c) BY <1>2, <3>4 DEF CoreStep, TakeHeap, WaitForWork, Leave
    <3>5. CASE EndScript \/ WakeSpuriously BY <1>2, <3>5 DEF EndScript, WakeSpuriously, coreVars
    <3> QED BY <3>1, <3>2, <3>3, <3>4, <3>5 DEF Next
  <2>2. CASE UNCHANGED vars BY <2>2 DEF vars, coreVars, lists, HeapInv
  <2>3. CASE ScriptStep BY <2>1, <2>3, ScriptStepHeaps
  <2>4. CASE MainStep
    BY <2>1, <2>4, FinishFailedHeaps, FinishPlainHeaps, FinishCallbackHeaps, CallbackReturnsHeaps,
       PickHeapHeaps, WaitToRunHeaps, CloneFailsHeaps, StartJobHeaps, CheckFinishedReturnsHeaps,
       WaitToFinishHeaps, FinishAllReturnsHeaps, ParallelStartsHeaps, RunPartHeaps, PartsGivenHeaps,
       ParallelReturnsHeaps, NativeStartsHeaps, WaitForNativeHeaps, NativeReturnsHeaps, Zenon
    DEF MainStep
  <2>5. CASE \E c \in Core : CoreStep(c)
    <3>1. PICK c \in Core : CoreStep(c) BY <2>5
    <3>2. ~Leave(c) BY <2>1 DEF Leave
    <3> QED BY <2>1, <3>1, <3>2, CoreHeaps DEF CoreStep
  <2>6. CASE EndScript BY <1>2, <2>6 DEF EndScript
  <2>7. CASE WakeSpuriously BY <2>7 DEF WakeSpuriously, coreVars, lists, HeapInv
  <2> QED BY <2>2, <2>3, <2>4, <2>5, <2>6, <2>7 DEF Next
<1> QED BY <1>1, <1>2

(* A heap that is at one spot, once, has one place.                        *)
LEMMA PlaceOf ==
    ASSUME NEW at, OnePlace(inactive, active, finished, running, stack, at), NEW h \in Heap
    PROVE  \E p : Places(h) = {p}
<1>1. /\ \A i \in DOMAIN inactive : inactive[i] = h => at[h] = "inactive"
      /\ \A i \in DOMAIN active : active[i] = h => at[h] = "active"
      /\ \A i \in DOMAIN finished : finished[i] = h => at[h] = "finished"
      /\ \A c \in Core : running[c] = h => at[h] = "running"
      /\ \A i \in DOMAIN stack : stack[i].heap = h => at[h] = "stack"
  BY DEF OnePlace, Listed, Run, Held
<1>2. h # NoHeap BY Numbers
<1>3. CASE at[h] = "inactive"
  <2>1. PICK i \in DOMAIN inactive : inactive[i] = h BY <1>3 DEF OnePlace, Listed
  <2>2. \A j \in DOMAIN inactive : inactive[j] = h => j = i BY <2>1 DEF OnePlace, Listed
  <2>3. Places(h) = {<<"inactive", i>>} BY <1>1, <1>3, <2>1, <2>2 DEF Places
  <2> QED BY <2>3
<1>4. CASE at[h] = "active"
  <2>1. PICK i \in DOMAIN active : active[i] = h BY <1>4 DEF OnePlace, Listed
  <2>2. \A j \in DOMAIN active : active[j] = h => j = i BY <2>1 DEF OnePlace, Listed
  <2>3. Places(h) = {<<"active", i>>} BY <1>1, <1>4, <2>1, <2>2 DEF Places
  <2> QED BY <2>3
<1>5. CASE at[h] = "finished"
  <2>1. PICK i \in DOMAIN finished : finished[i] = h BY <1>5 DEF OnePlace, Listed
  <2>2. \A j \in DOMAIN finished : finished[j] = h => j = i BY <2>1 DEF OnePlace, Listed
  <2>3. Places(h) = {<<"finished", i>>} BY <1>1, <1>5, <2>1, <2>2 DEF Places
  <2> QED BY <2>3
<1>6. CASE at[h] = "running"
  <2>1. PICK c \in Core : running[c] = h BY <1>6 DEF OnePlace, Run
  <2>2. \A d \in Core : running[d] = h => d = c BY <1>2, <2>1 DEF OnePlace, Run
  <2>3. Places(h) = {<<"running", c>>} BY <1>1, <1>6, <2>1, <2>2 DEF Places
  <2> QED BY <2>3
<1>7. CASE at[h] = "stack"
  <2>1. PICK i \in DOMAIN stack : stack[i].heap = h BY <1>7 DEF OnePlace, Held
  <2>2. \A j \in DOMAIN stack : stack[j].heap = h => j = i BY <1>2, <2>1 DEF OnePlace, Held
  <2>3. Places(h) = {<<"stack", i>>} BY <1>1, <1>7, <2>1, <2>2 DEF Places
  <2> QED BY <2>3
<1>8. at[h] \in Spots BY DEF OnePlace, Whereabouts
<1> QED BY <1>3, <1>4, <1>5, <1>6, <1>7, <1>8 DEF Spots

(* The inductive invariant says what HeapsInOnePlace says.                 *)
LEMMA HeapInvPlaces == HeapInv => HeapsInOnePlace
<1> SUFFICES ASSUME HeapInv, ~quit, NEW h \in Heap PROVE Cardinality(Places(h)) = 1
  BY DEF HeapsInOnePlace
<1>1. PICK at : OnePlace(inactive, active, finished, running, stack, at) BY DEF HeapInv
<1>2. PICK p : Places(h) = {p} BY <1>1, PlaceOf
<1> QED BY <1>2, FS_Singleton

(* A worker heap is never with two owners, and never lost.                 *)
THEOREM OneOwner == Spec => []HeapsInOnePlace
<1>1. Init => HeapInv /\ FreshInv BY InitHeaps DEF Init, FreshInv
<1>2. HeapInv /\ FreshInv /\ [Next]_vars => HeapInv' /\ FreshInv' BY HeapStep, FreshStep
<1> QED BY <1>1, <1>2, HeapInvPlaces, PTL DEF Spec

-----------------------------------------------------------------------------
(* The heap of the script holds still while others read it                 *)

Elements(s) == {s[i] : i \in DOMAIN s}

(* What a sequence with one more element holds.                            *)
LEMMA ElementsPushed ==
    ASSUME NEW S, NEW s \in Seq(S), NEW e \in S
    PROVE  Elements(<<e>> \o s) = {e} \cup Elements(s)
<1>1. PICK r : r = <<e>> \o s OBVIOUS
<1>2. /\ DOMAIN r = 1 .. Len(s) + 1 /\ DOMAIN s = 1 .. Len(s) /\ Len(s) \in Nat
      /\ \A j \in 1 .. Len(s) + 1 : r[j] = IF j = 1 THEN e ELSE s[j - 1]
  BY <1>1, Pushed, LenProperties
<1>3. ASSUME NEW i \in DOMAIN r PROVE r[i] \in {e} \cup Elements(s)
  <2>1. CASE i = 1 BY <1>2, <2>1
  <2>2. CASE i # 1
    <3>1. PICK k : k = i - 1 OBVIOUS
    <3>2. k \in DOMAIN s /\ r[i] = s[k] BY <1>2, <2>2, <3>1
    <3> QED BY <3>2 DEF Elements
  <2> QED BY <2>1, <2>2
<1>4. ASSUME NEW i \in DOMAIN s PROVE s[i] \in Elements(r)
  <2>1. PICK k : k = i + 1 OBVIOUS
  <2>2. k \in DOMAIN r /\ r[k] = s[i] BY <1>2, <2>1
  <2> QED BY <2>2 DEF Elements
<1>5. e \in Elements(r)
  <2>1. 1 \in DOMAIN r /\ r[1] = e BY <1>2
  <2> QED BY <2>1 DEF Elements
<1>6. Elements(r) = {e} \cup Elements(s)
  <2>1. \A x \in Elements(r) : x \in {e} \cup Elements(s) BY <1>3 DEF Elements
  <2>2. \A x \in Elements(s) : x \in Elements(r) BY <1>4 DEF Elements
  <2> QED BY <1>5, <2>1, <2>2
<1> QED BY <1>1, <1>6

(* What a sequence holds, from its first element on.                       *)
LEMMA ElementsPopped ==
    ASSUME NEW S, NEW s \in Seq(S), s # <<>>
    PROVE  Elements(s) = {Head(s)} \cup Elements(Tail(s))
<1>1. PICK r : r = Tail(s) OBVIOUS
<1>2. /\ r \in Seq(S) /\ DOMAIN s = 1 .. Len(s) /\ Len(s) \in Nat /\ Len(s) >= 1
      /\ DOMAIN r = 1 .. Len(s) - 1 /\ Head(s) = s[1]
      /\ \A j \in 1 .. Len(s) - 1 : r[j] = s[j + 1]
  BY <1>1, Popped, LenProperties
<1>3. ASSUME NEW i \in DOMAIN s PROVE s[i] \in {Head(s)} \cup Elements(r)
  <2>1. CASE i = 1 BY <1>2, <2>1
  <2>2. CASE i # 1
    <3>1. PICK k : k = i - 1 OBVIOUS
    <3>2. k \in DOMAIN r /\ r[k] = s[i] BY <1>2, <2>2, <3>1
    <3> QED BY <3>2 DEF Elements
  <2> QED BY <2>1, <2>2
<1>4. ASSUME NEW i \in DOMAIN r PROVE r[i] \in Elements(s)
  <2>1. PICK k : k = i + 1 OBVIOUS
  <2>2. k \in DOMAIN s /\ s[k] = r[i] BY <1>2, <2>1
  <2> QED BY <2>2 DEF Elements
<1>5. Head(s) \in Elements(s)
  <2>1. 1 \in DOMAIN s /\ s[1] = Head(s) BY <1>2
  <2> QED BY <2>1 DEF Elements
<1>6. Elements(s) = {Head(s)} \cup Elements(r)
  <2>1. \A x \in Elements(s) : x \in {Head(s)} \cup Elements(r) BY <1>3 DEF Elements
  <2>2. \A x \in Elements(r) : x \in Elements(s) BY <1>4 DEF Elements
  <2> QED BY <1>5, <2>1, <2>2
<1> QED BY <1>1, <1>6

(* What short sequences hold.                                              *)
LEMMA ElementsOfFew ==
    /\ Elements(<<>>) = {}
    /\ \A e : Elements(<<e>>) = {e}
    /\ \A e, f : Elements(<<e, f>>) = {e, f}
BY DEF Elements

(* The heaps that run, and those in the hands of calls.                    *)
Running(run) == {run[c] : c \in Core} \ {NoHeap}
Holding(stk) == {f.heap : f \in Elements(stk)} \ {NoHeap}

Apart(ina, act, fin, run, stk) ==
    /\ Elements(ina) \cup Elements(act) \cup Elements(fin) \cup Running(run) \cup Holding(stk) = Heap
    /\ Elements(ina) \cap (Elements(act) \cup Elements(fin) \cup Running(run) \cup Holding(stk)) = {}
    /\ Elements(act) \cap (Elements(fin) \cup Running(run) \cup Holding(stk)) = {}
    /\ Elements(fin) \cap (Running(run) \cup Holding(stk)) = {}
    /\ Running(run) \cap Holding(stk) = {}
    /\ ina \in Seq(Heap) /\ act \in Seq(Heap) /\ fin \in Seq(Heap)
    /\ stk \in Seq(Frame) /\ run \in [Core -> Heap \cup {NoHeap}]

(* Heaps in one place each: the sets of them are apart and together all.   *)
LEMMA OnePlaceApart ==
    ASSUME NEW ina, NEW act, NEW fin, NEW run, NEW stk, NEW at, OnePlace(ina, act, fin, run, stk, at)
    PROVE  Apart(ina, act, fin, run, stk)
<1>2. /\ ina \in Seq(Heap) /\ act \in Seq(Heap) /\ fin \in Seq(Heap)
      /\ stk \in Seq(Frame) /\ run \in [Core -> Heap \cup {NoHeap}]
  BY DEF OnePlace, Listed, Held, Run
<1>3. ASSUME NEW h \in Heap PROVE h \in Elements(ina) <=> at[h] = "inactive"
  BY DEF OnePlace, Listed, Elements
<1>4. ASSUME NEW h \in Heap PROVE h \in Elements(act) <=> at[h] = "active"
  BY DEF OnePlace, Listed, Elements
<1>5. ASSUME NEW h \in Heap PROVE h \in Elements(fin) <=> at[h] = "finished"
  BY DEF OnePlace, Listed, Elements
<1>6. ASSUME NEW h \in Heap PROVE h \in Running(run) <=> at[h] = "running"
  BY Numbers DEF OnePlace, Run, Running
<1>7. ASSUME NEW h \in Heap PROVE h \in Holding(stk) <=> at[h] = "stack"
  <2>1. h # NoHeap BY Numbers
  <2>2. h \in Holding(stk) <=> \E i \in DOMAIN stk : stk[i].heap = h BY <2>1 DEF Holding, Elements
  <2> QED BY <2>2 DEF OnePlace, Held
<1>8. Elements(ina) \subseteq Heap /\ Elements(act) \subseteq Heap /\ Elements(fin) \subseteq Heap
  BY <1>2, ElementOfSeq, LenProperties DEF Elements
<1>9. Running(run) \subseteq Heap BY <1>2 DEF Running
<1>10. Holding(stk) \subseteq Heap
  <2>1. \A i \in DOMAIN stk : stk[i] \in Frame BY <1>2, ElementOfSeq, LenProperties
  <2> QED BY <2>1 DEF Holding, Elements, Frame
<1>11. \A h \in Heap : at[h] \in Spots BY DEF OnePlace, Whereabouts
<1>12. Elements(ina) \cup Elements(act) \cup Elements(fin) \cup Running(run) \cup Holding(stk) = Heap
  BY <1>3, <1>4, <1>5, <1>6, <1>7, <1>8, <1>9, <1>10, <1>11 DEF Spots
<1>13. /\ Elements(ina) \cap (Elements(act) \cup Elements(fin) \cup Running(run) \cup Holding(stk)) = {}
       /\ Elements(act) \cap (Elements(fin) \cup Running(run) \cup Holding(stk)) = {}
       /\ Elements(fin) \cap (Running(run) \cup Holding(stk)) = {}
       /\ Running(run) \cap Holding(stk) = {}
  BY <1>3, <1>4, <1>5, <1>6, <1>7, <1>8, <1>9, <1>10
<1> QED BY <1>2, <1>12, <1>13 DEF Apart

Idle == Elements(inactive)
Ready == Elements(active)
Done == Elements(finished)
Runs == Running(running)
InCalls == Holding(stack)

AllApart == Apart(inactive, active, finished, running, stack)

(* That is so in a state of HeapInv,                                       *)
LEMMA ApartNow == HeapInv /\ ~quit => AllApart
<1> SUFFICES ASSUME HeapInv, ~quit PROVE AllApart OBVIOUS
<1>1. PICK at : OnePlace(inactive, active, finished, running, stack, at) BY DEF HeapInv
<1> QED BY <1>1, OnePlaceApart DEF AllApart

(* and in the next one.                                                    *)
LEMMA ApartThen == HeapInv' /\ ~quit' => AllApart'
<1> SUFFICES ASSUME HeapInv', ~quit' PROVE AllApart' OBVIOUS
<1>1. PICK ina, act, fin, run, stk : ina = inactive' /\ act = active' /\ fin = finished'
                                   /\ run = running' /\ stk = stack'
  OBVIOUS
<1>2. PICK at : OnePlace(ina, act, fin, run, stk, at) BY <1>1 DEF HeapInv
<1>3. Apart(ina, act, fin, run, stk) BY <1>2, OnePlaceApart
<1> QED BY <1>1, <1>3 DEF AllApart

-----------------------------------------------------------------------------
Rest == Elements(Tail(stack))

(* The calls in progress after a step of the main thread.                  *)
LEMMA StackMoves ==
    ASSUME HeapInv, ~quit, stack # <<>>
    PROVE  /\ Elements(stack) = {Top} \cup Rest
           /\ \A f \in Frame : stack' = <<f>> \o Tail(stack) =>
                /\ Elements(stack') = {f} \cup Rest /\ Head(stack') = f /\ stack' # <<>>
           /\ \A f \in Frame, g \in Frame : stack' = <<f, g>> \o Tail(stack) =>
                /\ Elements(stack') = {f, g} \cup Rest /\ Head(stack') = f /\ stack' # <<>>
<1>1. stack \in Seq(Frame) BY AtHand
<1>2. PICK r : r = Tail(stack) OBVIOUS
<1>3. r \in Seq(Frame) BY <1>1, <1>2, HeadTailProperties
<1>4. Elements(stack) = {Top} \cup Rest BY <1>1, ElementsPopped DEF Top, Rest
<1>5. ASSUME NEW f \in Frame
      PROVE  Elements(<<f>> \o r) = {f} \cup Rest /\ Head(<<f>> \o r) = f /\ <<f>> \o r # <<>>
  <2>1. Elements(<<f>> \o r) = {f} \cup Elements(r) BY <1>3, ElementsPushed
  <2>2. Head(<<f>> \o r) = f /\ <<f>> \o r # <<>> BY <1>3, Pushed
  <2>3. Elements(r) = Rest BY <1>2 DEF Rest
  <2> QED BY <2>1, <2>2, <2>3
<1>6. ASSUME NEW f \in Frame, NEW g \in Frame
      PROVE  /\ Elements(<<f, g>> \o r) = {f, g} \cup Rest /\ Head(<<f, g>> \o r) = f
             /\ <<f, g>> \o r # <<>>
  <2>1. PICK q : q = <<g>> \o r OBVIOUS
  <2>2. q \in Seq(Frame) /\ Elements(q) = {g} \cup Rest BY <1>3, <1>5, <2>1, Pushed
  <2>3. Elements(<<f>> \o q) = {f} \cup Elements(q) /\ Head(<<f>> \o q) = f /\ <<f>> \o q # <<>>
    BY <2>2, ElementsPushed, Pushed
  <2>4. <<f, g>> \o r = <<f>> \o q
    <3>1. <<f, g>> \o r = <<f>> \o (<<g>> \o r) BY <1>3, TwoPushed
    <3> QED BY <2>1, <3>1, Zenon
  <2> QED BY <2>2, <2>3, <2>4
<1> QED BY ZenonT(60), <1>2, <1>4, <1>5, <1>6

-----------------------------------------------------------------------------
(* The second inductive invariant                                          *)

ParallelCall(phases) ==
    \E f \in Elements(stack) : f.op = "run_parallel" /\ f.phase \in phases
OnTop(phases) == stack # <<>> /\ Top.op = "run_parallel" /\ Top.phase \in phases

(* A heap that is ready, runs or is done has work, and so has the heap of  *)
(* a finish function, whose job is reported.                               *)
Loaded ==
    /\ \A h \in Ready \cup Done \cup Runs : work[h] # {}
    /\ \A f \in Elements(stack) : f.op = "callback" =>
          work[f.heap] # {} /\ \A j \in work[f.heap] : j \in Job /\ reported[j] >= 1

(* Who reads the heap of the script, and the mode in which readers start.  *)
Readers ==
    /\ reading \subseteq Heap
    /\ ~quit => reading \subseteq Ready \cup Runs
Modes ==
    /\ parallel_mode => ParallelCall({"parts"})
    /\ NoErrorYet /\ reading # {} => ParallelCall({"parts", "after", "failed"})
    /\ OnTop({"after", "failed"}) /\ NoErrorYet => reading = {}
    /\ OnTop({"before"}) /\ error => ~NoErrorYet

StillInv ==
    /\ reported \in [Job -> Nat]
    /\ work \in [Heap -> SUBSET (Job \cup {Native})]
    /\ quit => stack = <<>>
    /\ ~quit => Loaded
    /\ Readers
    /\ Modes

(* At the start nothing has work, and nothing reads.                       *)
LEMMA StillInit == Init => StillInv
<1> SUFFICES ASSUME Init PROVE StillInv OBVIOUS
<1>1. Elements(<<>>) = {} BY DEF Elements
<1>2. Ready = {} /\ Done = {} /\ Elements(stack) = {} BY <1>1 DEF Init, Ready, Done
<1>3. Runs = {} BY DEF Init, Runs, Running
<1>4. work \in [Heap -> SUBSET (Job \cup {Native})] BY DEF Init
<1>5. reported \in [Job -> Nat] /\ stack = <<>> /\ reading = {} /\ ~parallel_mode BY DEF Init
<1> QED BY <1>2, <1>3, <1>4, <1>5 DEF StillInv, Loaded, Readers, Modes, OnTop

(* What is reported once more was not reported less before.                *)
LEMMA Reports ==
    ASSUME reported \in [Job -> Nat], NEW J, Report(J)
    PROVE  /\ reported' \in [Job -> Nat] /\ \A j \in Job : reported'[j] >= reported[j]
           /\ \A j \in Job \cap J : reported'[j] >= 1
           /\ NoErrorYet' => NoErrorYet
           /\ NoErrorYet' => J \cap (Failing \cup Raising) = {}
<1>1. /\ reported' \in [Job -> Nat]
      /\ \A j \in Job : reported'[j] = reported[j] + (IF j \in J THEN 1 ELSE 0)
  BY DEF Report
<1>2. \A j \in Job : reported'[j] >= reported[j] /\ (j \in J => reported'[j] >= 1)
  BY <1>1
<1>3. Failing \cup Raising \subseteq Job BY ComputeAssumption
<1> QED BY <1>1, <1>2, <1>3 DEF NoErrorYet

(* A step that neither starts nor ends a run_parallel, and after which     *)
(* none is at hand, keeps the modes.                                       *)
LEMMA ModesKept ==
    ASSUME Modes, NoErrorYet' => NoErrorYet, reading' \subseteq reading, parallel_mode' => parallel_mode,
           \A f \in Elements(stack) : f.op = "run_parallel" => f \in Elements(stack'),
           stack' = <<>> \/ Head(stack').op # "run_parallel" \/ Head(stack').phase = "parts"
    PROVE  Modes'
<1>2. parallel_mode' => ParallelCall({"parts"})'
  BY DEF Modes, ParallelCall
<1>3. NoErrorYet' /\ reading' # {} => ParallelCall({"parts", "after", "failed"})'
  BY DEF Modes, ParallelCall
<1> QED BY <1>2, <1>3 DEF Modes, OnTop, Top

(* What may be below a call.                                               *)
LEMMA UnderTop ==
    ASSUME HeapInv, ~quit, stack # <<>>, Tail(stack) # <<>>
    PROVE  /\ Head(Tail(stack)) \in Rest
           /\ Top.op = "callback" <=> Head(Tail(stack)).phase = "finish"
           /\ Top.op \notin {"run", "finish_all"} => Head(Tail(stack)).op # "run_parallel"
           /\ Head(Tail(stack)).op = "run_parallel" /\ Top.op = "finish_all"
                => Head(Tail(stack)).phase \in {"before", "after", "failed"}
           /\ Head(Tail(stack)).op = "run_parallel" /\ Top.op = "run"
                => Head(Tail(stack)).phase = "parts"
           /\ Head(Tail(stack)).op = "run_parallel" => Head(Tail(stack)).phase # "finish"
<1>1. Link(Top, Head(Tail(stack))) /\ Good(Head(Tail(stack))) BY AtHand
<1>2. PICK g : g = Head(Tail(stack)) OBVIOUS
<1>3. g.op = "run_parallel" => g.phase \in {"before", "parts", "after", "failed"}
  BY <1>1, <1>2 DEF Good, PhasesOf
<1>4. Tail(stack) \in Seq(Frame) BY AtHand, HeadTailProperties
<1>5. g \in Rest BY <1>2, <1>4, ElementsPopped DEF Rest
<1> QED BY <1>1, <1>2, <1>3, <1>5 DEF Link

(* Every call in progress, not the one at hand only, is good.              *)
LEMMA CallsAreGood ==
    ASSUME HeapInv, ~quit
    PROVE  \A f \in Elements(stack) :
              f \in Frame /\ Good(f) /\ (f.op = "callback" => f.heap \in InCalls)
<1>1. Shape(stack) BY DEF HeapInv, OnePlace
<1>2. stack \in Seq(Frame) /\ DOMAIN stack = 1 .. Len(stack) BY <1>1, LenProperties DEF Shape
<1>3. \A f \in Elements(stack) : f \in Frame /\ Good(f) BY <1>1, <1>2, ElementOfSeq DEF Shape, Elements
<1>4. ASSUME NEW f \in Elements(stack), f.op = "callback" PROVE f.heap \in InCalls
  <2>1. f.heap # NoHeap BY <1>3, <1>4 DEF Good, PhasesOf
  <2> QED BY <2>1 DEF InCalls, Holding
<1> QED BY <1>3, <1>4

(* What keeps the heaps loaded.                                            *)
LEMMA LoadedKept ==
    ASSUME Loaded, reported \in [Job -> Nat], reported' \in [Job -> Nat],
           \A j \in Job : reported'[j] >= reported[j],
           \A h \in Ready' \cup Done' \cup Runs' :
              h \in Ready \cup Done \cup Runs /\ work'[h] = work[h],
           \A f \in Elements(stack') : f.op = "callback" =>
              f \in Elements(stack) /\ work'[f.heap] = work[f.heap]
    PROVE  Loaded'
<1>1. \A h \in Ready' \cup Done' \cup Runs' : work'[h] # {} BY DEF Loaded
<1>2. ASSUME NEW f \in Elements(stack'), f.op = "callback"
      PROVE  work'[f.heap] # {} /\ \A j \in work'[f.heap] : j \in Job /\ reported'[j] >= 1
  <2>1. work'[f.heap] = work[f.heap] /\ f \in Elements(stack) BY <1>2
  <2>2. ASSUME NEW j \in work[f.heap] PROVE j \in Job /\ reported'[j] >= 1
    <3>1. j \in Job /\ reported[j] >= 1 BY <1>2, <2>1 DEF Loaded
    <3>2. reported'[j] >= reported[j] /\ reported'[j] \in Nat /\ reported[j] \in Nat BY <3>1
    <3> QED BY <3>1, <3>2
  <2> QED BY <1>2, <2>1, <2>2 DEF Loaded
<1> QED BY <1>1, <1>2 DEF Loaded

(* A heap loses its work; the others keep theirs.                          *)
LEMMA WorkCleared ==
    ASSUME work \in [Heap -> SUBSET (Job \cup {Native})], NEW h, work' = [work EXCEPT ![h] = {}]
    PROVE  /\ work' \in [Heap -> SUBSET (Job \cup {Native})]
           /\ \A g \in Heap : g # h => work'[g] = work[g]
OBVIOUS

(* A heap that is given back loses its work; the others keep theirs.       *)
LEMMA GivenBack ==
    ASSUME HeapInv, HeapInv', StillInv, ~quit, ~quit', NEW h \in Heap,
           inactive' = <<h>> \o inactive, work' = [work EXCEPT ![h] = {}],
           Ready' \cup Done' \cup Runs' \subseteq Ready \cup Done \cup Runs,
           \A f \in Elements(stack') : f.op = "callback" => f \in Elements(stack),
           reported' \in [Job -> Nat], \A j \in Job : reported'[j] >= reported[j]
    PROVE  Loaded' /\ work' \in [Heap -> SUBSET (Job \cup {Native})]
<1>1. AllApart /\ AllApart' BY ApartNow, ApartThen
<1>2. Idle' = {h} \cup Idle
  BY <1>1, ElementsPushed DEF AllApart, Apart, Idle
<1>3. h \notin Ready' \cup Done' \cup Runs' \cup InCalls'
  BY <1>1, <1>2 DEF AllApart, Apart, Idle, Ready, Runs, Done, InCalls
<1>4. /\ work' \in [Heap -> SUBSET (Job \cup {Native})]
      /\ \A g \in Heap : g # h => work'[g] = work[g]
  BY WorkCleared DEF StillInv
<1>5. \A g \in Ready' \cup Done' \cup Runs' : g \in Ready \cup Done \cup Runs /\ g \in Heap /\ g # h
  BY <1>1, <1>3 DEF AllApart, Apart, Ready, Runs, Done
<1>6. ASSUME NEW f \in Elements(stack'), f.op = "callback"
      PROVE  f \in Elements(stack) /\ f.heap \in Heap /\ f.heap # h
  <2>1. f \in Elements(stack) /\ f.heap \in InCalls BY <1>6, CallsAreGood
  <2>2. f.heap # NoHeap BY <2>1 DEF InCalls, Holding
  <2>3. f.heap \in InCalls' BY <2>2 DEF InCalls, Holding
  <2>4. InCalls' \subseteq Heap BY <1>1 DEF AllApart, Apart, InCalls
  <2> QED BY <1>3, <2>1, <2>3, <2>4
<1>7. Loaded' BY <1>4, <1>5, <1>6, LoadedKept DEF StillInv
<1> QED BY <1>4, <1>7

LEMMA FinishFailedStill ==
    ASSUME HeapInv, HeapInv', StillInv, ~quit, FinishFailed PROVE StillInv'
<1>1. stack # <<>> /\ finished # <<>> /\ Top.op # "run_parallel" BY FinishingCalls DEF FinishFailed
<1>2. ~quit' /\ inactive' = <<Finished>> \o inactive /\ finished' = Tail(finished)
      /\ work' = [work EXCEPT ![Finished] = {}] /\ Report(work[Finished]) /\ stack' = Tail(stack)
      /\ UNCHANGED <<active, running, reading, parallel_mode>>
  BY DEF FinishFailed, Return, coreVars
<1>h. PICK h : h = Finished OBVIOUS
<1>3. Elements(finished) = {h} \cup Elements(Tail(finished)) /\ h \in Heap
  BY <1>1, <1>h, ApartNow, ElementsPopped, Popped DEF AllApart, Apart, Finished
<1>4. Ready' = Ready /\ Runs' = Runs /\ Done' \subseteq Done /\ h \in Done
  BY <1>2, <1>3 DEF Ready, Runs, Done
<1>5. Elements(stack) = {Top} \cup Elements(stack') BY <1>1, <1>2, StackMoves DEF Rest
<1>6. work[h] # {} /\ work[h] \subseteq Failing
  BY <1>4, <1>h DEF StillInv, Loaded, FinishFailed
<1>7. /\ reported' \in [Job -> Nat] /\ \A j \in Job : reported'[j] >= reported[j]
      /\ ~NoErrorYet'
  BY <1>2, <1>6, <1>h, Reports DEF StillInv
<1>8. Loaded' /\ work' \in [Heap -> SUBSET (Job \cup {Native})]
  BY <1>2, <1>3, <1>4, <1>5, <1>7, <1>h, GivenBack
<1>9. Readers' BY <1>2, <1>4 DEF StillInv, Readers
<1>10. parallel_mode' => ParallelCall({"parts"})'
  <2>1. \A f \in Elements(stack) : f.op = "run_parallel" => f \in Elements(stack')
    BY <1>1, <1>5
  <2> QED BY <1>2, <2>1 DEF StillInv, Modes, ParallelCall
<1>11. Modes' BY <1>7, <1>10 DEF Modes
<1> QED BY <1>2, <1>7, <1>8, <1>9, <1>11 DEF StillInv

LEMMA FinishPlainStill ==
    ASSUME HeapInv, HeapInv', StillInv, ~quit, FinishPlain PROVE StillInv'
<1>1. stack # <<>> /\ finished # <<>> /\ Top.op # "run_parallel" /\ Top.op # "callback"
  BY FinishingCalls DEF FinishPlain
<1>f. PICK f : f = [Top EXCEPT !.phase = "finish"] OBVIOUS
<1>2. ~quit' /\ inactive' = <<Finished>> \o inactive /\ finished' = Tail(finished)
      /\ work' = [work EXCEPT ![Finished] = {}] /\ Report(work[Finished]) /\ stack' = <<f>> \o Tail(stack)
      /\ UNCHANGED <<active, running, reading, parallel_mode>>
  BY <1>f DEF FinishPlain, Become, coreVars
<1>h. PICK h : h = Finished OBVIOUS
<1>3. Elements(finished) = {h} \cup Elements(Tail(finished)) /\ h \in Heap
  BY <1>1, <1>h, ApartNow, ElementsPopped, Popped DEF AllApart, Apart, Finished
<1>4. Ready' = Ready /\ Runs' = Runs /\ Done' \subseteq Done
  BY <1>2, <1>3 DEF Ready, Runs, Done
<1>5. f \in Frame /\ f.op = Top.op
  <2>1. PICK at : OnePlace(inactive, active, finished, running, stack, at) BY DEF HeapInv
  <2> QED BY <1>f, <2>1, FinishingGoesOn DEF FinishPlain
<1>6. Elements(stack) = {Top} \cup Rest /\ Elements(stack') = {f} \cup Rest /\ Head(stack') = f
  BY <1>1, <1>2, <1>5, StackMoves
<1>7. /\ reported' \in [Job -> Nat] /\ \A j \in Job : reported'[j] >= reported[j]
      /\ NoErrorYet' => NoErrorYet
  BY <1>2, <1>h, Reports DEF StillInv
<1>8. Loaded' /\ work' \in [Heap -> SUBSET (Job \cup {Native})]
  BY <1>1, <1>2, <1>3, <1>4, <1>5, <1>6, <1>7, <1>h, GivenBack
<1>9. Readers' BY <1>2, <1>4 DEF StillInv, Readers
<1>10. Modes'
  <2>1. \A g \in Elements(stack) : g.op = "run_parallel" => g \in Elements(stack')
    BY <1>1, <1>6
  <2> QED BY <1>1, <1>2, <1>5, <1>6, <1>7, <2>1, ModesKept DEF StillInv
<1> QED BY <1>2, <1>7, <1>8, <1>9, <1>10 DEF StillInv

LEMMA FinishCallbackStill ==
    ASSUME HeapInv, HeapInv', StillInv, ~quit, FinishCallback PROVE StillInv'
<1>1. stack # <<>> /\ finished # <<>> /\ Top.op # "run_parallel" /\ Top.op # "callback"
  BY FinishingCalls DEF FinishCallback
<1>g. PICK g : g = [Top EXCEPT !.phase = "finish"] OBVIOUS
<1>h. PICK h : h = Finished OBVIOUS
<1>f. PICK f : f = [NewFrame("callback", "script") EXCEPT !.heap = h, !.left = 1] OBVIOUS
<1>2. ~quit' /\ finished' = Tail(finished) /\ Report(work[Finished])
      /\ stack' = <<f, g>> \o Tail(stack)
      /\ UNCHANGED <<inactive, active, running, work, reading, parallel_mode>>
  BY <1>f, <1>g, <1>h DEF FinishCallback, CallFrom, coreVars
<1>3. Elements(finished) = {h} \cup Elements(Tail(finished)) /\ h \in Heap
  BY <1>1, <1>h, ApartNow, ElementsPopped, Popped DEF AllApart, Apart, Finished
<1>4. Ready' = Ready /\ Runs' = Runs /\ Done' \subseteq Done /\ h \in Done
  BY <1>2, <1>3 DEF Ready, Runs, Done
<1>5. g \in Frame /\ g.op = Top.op
  <2>1. PICK at : OnePlace(inactive, active, finished, running, stack, at) BY DEF HeapInv
  <2> QED BY <1>g, <2>1, FinishingGoesOn DEF FinishCallback
<1>6. f \in Frame /\ f.op = "callback" /\ f.heap = h
  BY <1>3, <1>f DEF Frame, NewFrame, Ops, Phases
<1>7. Elements(stack) = {Top} \cup Rest /\ Elements(stack') = {f, g} \cup Rest /\ Head(stack') = f
  BY <1>1, <1>2, <1>5, <1>6, StackMoves
<1>8. /\ reported' \in [Job -> Nat] /\ \A j \in Job : reported'[j] >= reported[j]
      /\ NoErrorYet' => NoErrorYet
      /\ \A j \in Job \cap work[h] : reported'[j] >= 1
  BY <1>2, <1>h, Reports DEF StillInv
<1>9. Loaded'
  <2>1. \A k \in Ready' \cup Done' \cup Runs' : work'[k] # {} BY <1>2, <1>4 DEF StillInv, Loaded
  <2>2. work'[f.heap] # {} /\ \A j \in work'[f.heap] : j \in Job /\ reported'[j] >= 1
    <3>1. work[h] # {} BY <1>4 DEF StillInv, Loaded
    <3>2. work[h] \subseteq Job BY <1>h, ComputeAssumption DEF FinishCallback
    <3> QED BY <1>2, <1>6, <1>8, <3>1, <3>2
  <2>3. ASSUME NEW k \in Elements(stack'), k.op = "callback", k # f
        PROVE  work'[k.heap] # {} /\ \A j \in work'[k.heap] : j \in Job /\ reported'[j] >= 1
    <3>1. k \in Elements(stack) BY <1>1, <1>5, <1>7, <2>3
    <3>2. work[k.heap] # {} /\ \A j \in work[k.heap] : j \in Job /\ reported[j] >= 1
      BY <2>3, <3>1 DEF StillInv, Loaded
    <3>3. reported \in [Job -> Nat] BY DEF StillInv
    <3>4. ASSUME NEW j \in work[k.heap] PROVE j \in Job /\ reported'[j] >= 1
      <4>1. j \in Job /\ reported[j] >= 1 BY <3>2
      <4>2. reported'[j] >= reported[j] /\ reported'[j] \in Nat /\ reported[j] \in Nat BY <1>8, <3>3, <4>1
      <4> QED BY <4>1, <4>2
    <3> QED BY <1>2, <3>2, <3>4
  <2> QED BY <2>1, <2>2, <2>3 DEF Loaded
<1>10. Readers' BY <1>2, <1>4 DEF StillInv, Readers
<1>11. Modes'
  <2>1. \A k \in Elements(stack) : k.op = "run_parallel" => k \in Elements(stack')
    BY <1>1, <1>7
  <2> QED BY <1>2, <1>6, <1>7, <1>8, <2>1, ModesKept DEF StillInv
<1> QED BY <1>2, <1>8, <1>9, <1>10, <1>11 DEF StillInv

LEMMA CallbackReturnsStill ==
    ASSUME HeapInv, HeapInv', StillInv, ~quit, CallbackReturns PROVE StillInv'
<1>1. stack # <<>> /\ Top.op = "callback" /\ Tail(stack) # <<>>
  BY AtHand DEF CallbackReturns, In
<1>h. PICK h : h = Top.heap OBVIOUS
<1>2. ~quit' /\ inactive' = <<h>> \o inactive /\ work' = [work EXCEPT ![h] = {}]
      /\ error' = (work[h] \subseteq Raising)
      /\ stack' = (IF error' THEN Tail(Tail(stack)) ELSE Tail(stack))
      /\ UNCHANGED <<active, finished, running, reading, parallel_mode, reported>>
  BY <1>h DEF CallbackReturns, coreVars
<1>3. Elements(stack) = {Top} \cup Rest BY <1>1, StackMoves
<1>4. h \in Heap /\ work[h] # {} /\ \A j \in work[h] : j \in Job /\ reported[j] >= 1
  <2>1. h \in InCalls BY <1>1, <1>3, <1>h, CallsAreGood
  <2>2. h \in Heap BY <2>1, ApartNow DEF AllApart, Apart, InCalls
  <2> QED BY <1>1, <1>3, <1>h, <2>2 DEF StillInv, Loaded
<1>5. PICK g : g = Head(Tail(stack)) OBVIOUS
<1>6. g.phase = "finish" /\ g.op # "run_parallel" BY <1>1, <1>5, UnderTop
<1>7. Rest = {g} \cup Elements(Tail(Tail(stack)))
  <2>1. Tail(stack) \in Seq(Frame) BY <1>1, AtHand, HeadTailProperties
  <2> QED BY <1>1, <1>5, <2>1, ElementsPopped DEF Rest
<1>8. Elements(stack') \subseteq Elements(stack) BY <1>2, <1>3, <1>7 DEF Rest
<1>9. \A f \in Elements(stack) : f.op = "run_parallel" => f \in Elements(stack')
  <2>1. CASE error' BY <1>1, <1>2, <1>3, <1>6, <1>7, <2>1
  <2>2. CASE ~error' BY <1>1, <1>2, <1>3, <2>2 DEF Rest
  <2> QED BY <2>1, <2>2
<1>10. Ready' = Ready /\ Runs' = Runs /\ Done' = Done BY <1>2 DEF Ready, Runs, Done
<1>11. reported' \in [Job -> Nat] /\ \A j \in Job : reported'[j] >= reported[j]
  BY <1>2 DEF StillInv
<1>12. Loaded' /\ work' \in [Heap -> SUBSET (Job \cup {Native})]
  BY <1>2, <1>4, <1>8, <1>10, <1>11, GivenBack
<1>13. Readers' BY <1>2, <1>10 DEF StillInv, Readers
<1>14. Modes'
  <2>1. NoErrorYet' => NoErrorYet BY <1>2 DEF NoErrorYet
  <2>2. CASE error'
    <3>1. ~NoErrorYet'
      <4>1. PICK j \in work[h] : j \in Job /\ reported[j] >= 1 BY <1>4
      <4>2. j \in Raising BY <1>2, <2>2, <4>1
      <4>3. reported'[j] = reported[j] /\ reported[j] \in Nat BY <1>2, <4>1 DEF StillInv
      <4>4. reported'[j] # 0 BY <4>1, <4>3
      <4> QED BY <4>2, <4>4 DEF NoErrorYet
    <3>2. parallel_mode' => ParallelCall({"parts"})'
      BY <1>2, <1>9 DEF StillInv, Modes, ParallelCall
    <3> QED BY <3>1, <3>2 DEF Modes
  <2>3. CASE ~error'
    <3>1. stack' = Tail(stack) /\ Head(stack').op # "run_parallel" BY <1>2, <1>5, <1>6, <2>3
    <3> QED BY <1>2, <1>9, <2>1, <3>1, ModesKept DEF StillInv
  <2> QED BY <2>2, <2>3
<1> QED BY <1>2, <1>11, <1>12, <1>13, <1>14 DEF StillInv

(* A call that goes on, or waits, without touching a heap with work.       *)
LEMMA Quiet ==
    ASSUME HeapInv, StillInv, ~quit, stack # <<>>, Top.op \notin {"run_parallel", "callback"},
           NEW f \in Frame, f.op = Top.op, stack' = <<f>> \o Tail(stack),
           UNCHANGED <<active, finished, running, work, reading, parallel_mode, reported, quit>>
    PROVE  StillInv'
<1>1. Elements(stack) = {Top} \cup Rest /\ Elements(stack') = {f} \cup Rest /\ Head(stack') = f
  BY StackMoves
<1>2. Ready' = Ready /\ Runs' = Runs /\ Done' = Done BY DEF Ready, Runs, Done
<1>3. Loaded' BY <1>1, <1>2 DEF StillInv, Loaded
<1>4. Modes'
  <2>1. \A g \in Elements(stack) : g.op = "run_parallel" => g \in Elements(stack')
    BY <1>1
  <2>2. NoErrorYet' => NoErrorYet BY DEF NoErrorYet
  <2> QED BY <1>1, <2>1, <2>2, ModesKept DEF StillInv
<1> QED BY <1>2, <1>3, <1>4 DEF StillInv, Readers

LEMMA QuietMain ==
    ASSUME HeapInv, HeapInv', StillInv, ~quit,
           PickHeap \/ WaitToRun \/ WaitToFinish \/ WaitForNative
    PROVE  StillInv'
<1>1. stack # <<>> /\ Top.op \notin {"run_parallel", "callback"}
  BY DEF PickHeap, WaitToRun, WaitToFinish, WaitForNative, In
<1>2. Top \in Frame BY <1>1, AtHand
<1>3. UNCHANGED <<active, finished, running, work, reading, parallel_mode, reported, quit>>
  BY DEF PickHeap, WaitToRun, WaitToFinish, WaitForNative, Sleep, lists, coreVars
<1>4. CASE PickHeap
  <2>1. PICK t : t = Top OBVIOUS
  <2>2. PICK h : h = Head(inactive) OBVIOUS
  <2>3. h \in Heap
    BY <1>4, <2>2, ApartNow, Popped DEF PickHeap, AllApart, Apart
  <2>4. PICK f : f = [t EXCEPT !.phase = "clone", !.heap = h] OBVIOUS
  <2>5. f \in Frame /\ f.op = t.op BY <1>2, <2>1, <2>3, <2>4 DEF Frame, Phases
  <2>6. stack' = <<f>> \o Tail(stack) BY <1>4, <2>1, <2>2, <2>4 DEF PickHeap, Become
  <2> QED BY <1>1, <1>3, <2>1, <2>5, <2>6, Quiet
<1>5. ASSUME NEW p \in {"loop", "wait"}, stack' = <<[Top EXCEPT !.phase = p]>> \o Tail(stack)
      PROVE  StillInv'
  <2>1. PICK t : t = Top OBVIOUS
  <2>2. PICK f : f = [t EXCEPT !.phase = p] OBVIOUS
  <2>3. f \in Frame /\ f.op = t.op BY <1>2, <2>1, <2>2 DEF Frame, Phases
  <2>4. stack' = <<f>> \o Tail(stack) BY <1>5, <2>1, <2>2
  <2> QED BY <1>1, <1>3, <2>1, <2>3, <2>4, Quiet
<1>6. CASE WaitToRun BY <1>5, <1>6 DEF WaitToRun, Sleep, Become
<1>7. CASE WaitToFinish BY <1>5, <1>7 DEF WaitToFinish, Sleep, Become
<1>8. CASE WaitForNative
  <2>1. PICK t : t = Top OBVIOUS
  <2>2. stack' = <<t>> \o Tail(stack) BY <1>8, <2>1 DEF WaitForNative, Sleep, Become
  <2> QED BY <1>1, <1>2, <1>3, <2>1, <2>2, Quiet
<1> QED BY <1>4, <1>6, <1>7, <1>8

(* A call returns, without touching a heap with work.                      *)
LEMMA QuietReturn ==
    ASSUME HeapInv, StillInv, ~quit, stack # <<>>, Top.op \notin {"run_parallel", "finish_all"},
           stack' = Tail(stack), reported' \in [Job -> Nat],
           \A j \in Job : reported'[j] >= reported[j], NoErrorYet' => NoErrorYet,
           UNCHANGED <<active, finished, running, work, reading, parallel_mode, quit>>
    PROVE  StillInv'
<1>1. Elements(stack) = {Top} \cup Elements(stack') BY StackMoves DEF Rest
<1>2. Ready' = Ready /\ Runs' = Runs /\ Done' = Done BY DEF Ready, Runs, Done
<1>3. Loaded' BY <1>1, <1>2, LoadedKept DEF StillInv
<1>4. Modes'
  <2>1. \A g \in Elements(stack) : g.op = "run_parallel" => g \in Elements(stack')
    BY <1>1
  <2>2. stack' = <<>> \/ Head(stack').op # "run_parallel" \/ Head(stack').phase = "parts"
    BY UnderTop
  <2> QED BY <2>1, <2>2, ModesKept DEF StillInv
<1> QED BY <1>2, <1>3, <1>4 DEF StillInv, Readers

LEMMA QuietReturns ==
    ASSUME HeapInv, HeapInv', StillInv, ~quit, CloneFails \/ CheckFinishedReturns \/ NativeReturns
    PROVE  StillInv'
<1>1. stack # <<>> /\ Top.op \notin {"run_parallel", "finish_all"} /\ stack' = Tail(stack)
  BY DEF CloneFails, CheckFinishedReturns, NativeReturns, In, Return
<1>2. UNCHANGED <<active, finished, running, work, reading, parallel_mode, quit>>
  BY DEF CloneFails, CheckFinishedReturns, NativeReturns, lists, coreVars
<1>3. /\ reported' \in [Job -> Nat] /\ \A j \in Job : reported'[j] >= reported[j]
      /\ NoErrorYet' => NoErrorYet
  <2>1. CASE CloneFails
    <3>1. PICK J : J = Top.job OBVIOUS
    <3> QED BY <2>1, <3>1, Reports DEF StillInv, CloneFails
  <2>2. CASE CheckFinishedReturns \/ NativeReturns
    <3>1. reported' = reported BY <2>2 DEF CheckFinishedReturns, NativeReturns
    <3> QED BY <3>1 DEF StillInv, NoErrorYet
  <2> QED BY <2>1, <2>2
<1> QED BY <1>1, <1>2, <1>3, QuietReturn

-----------------------------------------------------------------------------
(* A worker heap is given a job, or a native function                      *)

LEMMA StartJobStill ==
    ASSUME HeapInv, HeapInv', StillInv, ~quit, StartJob PROVE StillInv'
<1>1. stack # <<>> /\ Top.op = "run" /\ Top.phase = "clone" BY DEF StartJob, In
<1>h. PICK h, J : h = Top.heap /\ J = Top.job OBVIOUS
<1>2. ~quit' /\ active' = <<h>> \o active /\ work' = [work EXCEPT ![h] = J]
      /\ stack' = Tail(stack) /\ reading' \subseteq reading \cup {h}
      /\ (~parallel_mode => reading' = reading)
      /\ UNCHANGED <<inactive, finished, running, parallel_mode, reported>>
  BY <1>h DEF StartJob, Return, coreVars
<1>3. h \in Heap /\ J # {} /\ J \subseteq Job
  <2>1. PICK t : t = Top OBVIOUS
  <2>2. t \in Frame /\ Good(t) BY <1>1, <2>1, AtHand
  <2>3. \E j \in Job : t.job = {j} BY <1>1, <2>1, <2>2 DEF Good
  <2>4. h # NoHeap BY <1>1, <1>h, AtHand
  <2>5. h \in Heap BY <1>h, <2>1, <2>2, <2>4 DEF Frame
  <2> QED BY <1>h, <2>1, <2>3, <2>5
<1>4. AllApart /\ AllApart' BY <1>2, ApartNow, ApartThen
<1>5. Ready' = {h} \cup Ready /\ Runs' = Runs /\ Done' = Done
  BY <1>2, <1>3, <1>4, ElementsPushed DEF AllApart, Apart, Ready, Runs, Done
<1>6. Elements(stack) = {Top} \cup Elements(stack') BY <1>1, <1>2, StackMoves DEF Rest
<1>7. h \notin InCalls' BY <1>4, <1>5 DEF AllApart, Apart, Ready, InCalls
<1>8. /\ work' \in [Heap -> SUBSET (Job \cup {Native})] /\ work'[h] = J
      /\ \A g \in Heap : g # h => work'[g] = work[g]
  BY <1>2, <1>3 DEF StillInv
<1>9. ASSUME NEW f \in Elements(stack'), f.op = "callback"
      PROVE  f \in Elements(stack) /\ f.heap \in Heap /\ f.heap # h
  <2>1. f \in Elements(stack) /\ f.heap \in InCalls BY <1>6, <1>9, CallsAreGood
  <2>2. f.heap # NoHeap BY <2>1 DEF InCalls, Holding
  <2>3. f.heap \in InCalls' BY <1>9, <2>2 DEF InCalls, Holding
  <2>4. InCalls' \subseteq Heap BY <1>4 DEF AllApart, Apart, InCalls
  <2> QED BY <1>7, <2>1, <2>3, <2>4
<1>10. Loaded'
  <2>1. \A g \in Ready' \cup Done' \cup Runs' : g \in Heap BY <1>4 DEF AllApart, Apart, Ready, Runs, Done
  <2>2. \A g \in Ready' \cup Done' \cup Runs' : work'[g] # {}
    BY <1>3, <1>5, <1>8, <2>1 DEF StillInv, Loaded
  <2>3. \A f \in Elements(stack') : f.op = "callback" =>
          work'[f.heap] # {} /\ \A j \in work'[f.heap] : j \in Job /\ reported'[j] >= 1
    BY <1>2, <1>8, <1>9 DEF StillInv, Loaded
  <2> QED BY <2>2, <2>3 DEF Loaded
<1>11. Readers' BY <1>2, <1>3, <1>5 DEF StillInv, Readers
<1>12. Modes'
  <2>1. \A f \in Elements(stack) : f.op = "run_parallel" => f \in Elements(stack')
    BY <1>1, <1>6
  <2>2. stack' = <<>> \/ Head(stack').op # "run_parallel" \/ Head(stack').phase = "parts"
    BY <1>1, <1>2, UnderTop
  <2>3. NoErrorYet' <=> NoErrorYet BY <1>2 DEF NoErrorYet
  <2>4. parallel_mode' => ParallelCall({"parts"})'
    BY <1>2, <2>1 DEF StillInv, Modes, ParallelCall
  <2>5. NoErrorYet' /\ reading' # {} => ParallelCall({"parts", "after", "failed"})'
    <3>1. CASE parallel_mode BY <1>2, <2>4, <3>1 DEF ParallelCall
    <3>2. CASE ~parallel_mode BY <1>2, <2>1, <2>3, <3>2 DEF StillInv, Modes, ParallelCall
    <3> QED BY <3>1, <3>2
  <2> QED BY <2>2, <2>4, <2>5 DEF Modes, OnTop, Top
<1> QED BY <1>2, <1>8, <1>10, <1>11, <1>12 DEF StillInv

(* When all heaps are inactive, none is elsewhere.                         *)
LEMMA AllAreIdle ==
    ASSUME HeapInv, ~quit, AllInactive
    PROVE  Idle = Heap
<1>1. PICK at : OnePlace(inactive, active, finished, running, stack, at) BY DEF HeapInv
<1>2. /\ inactive \in Seq(Heap) /\ \A i, j \in DOMAIN inactive : inactive[i] = inactive[j] => i = j
  BY <1>1 DEF OnePlace, Listed
<1>3. PICK n : n = num_heaps OBVIOUS
<1>4. n \in Nat /\ DOMAIN inactive = 1 .. n BY <1>2, <1>3, Numbers, LenProperties DEF AllInactive
<1>5. inactive \in Injection(1 .. n, Heap)
  <2>1. inactive \in [1 .. n -> Heap]
    <3>1. Len(inactive) = n BY <1>3 DEF AllInactive
    <3> QED BY <1>2, <3>1, LenProperties
  <2> QED BY <1>2, <1>4, <2>1 DEF Injection, IsInjective
<1>6. IsFiniteSet(1 .. n) /\ Cardinality(1 .. n) = n
  <2>1. IsFiniteSet(1 .. n) /\ Cardinality(1 .. n) = IF 1 > n THEN 0 ELSE n - 1 + 1
    BY <1>4, FS_Interval
  <2> QED BY <1>4, <2>1
<1>7. Cardinality(1 .. n) = Cardinality(Heap) BY <1>3, <1>6 DEF num_heaps
<1>8. inactive \in Surjection(1 .. n, Heap) BY <1>5, <1>6, <1>7, Numbers, FS_Injection
<1>9. \A h \in Heap : \E i \in 1 .. n : inactive[i] = h BY <1>8 DEF Surjection
<1>10. Idle \subseteq Heap BY <1>1, ApartNow DEF AllApart, Apart, Idle
<1> QED BY <1>4, <1>9, <1>10 DEF Idle, Elements

LEMMA FinishAllReturnsStill ==
    ASSUME HeapInv, HeapInv', StillInv, ~quit, FinishAllReturns PROVE StillInv'
<1>1. stack # <<>> /\ Top.op = "finish_all" BY DEF FinishAllReturns, In
<1>2. ~quit' /\ stack' = Tail(stack) /\ ~error' /\ AllInactive
      /\ UNCHANGED <<inactive, active, finished, running, work, reading, parallel_mode, reported>>
  BY DEF FinishAllReturns, Return, lists, coreVars
<1>3. Elements(stack) = {Top} \cup Elements(stack') BY <1>1, <1>2, StackMoves DEF Rest
<1>4. Ready' = Ready /\ Runs' = Runs /\ Done' = Done BY <1>2 DEF Ready, Runs, Done
<1>5. reading = {} /\ reading' = {}
  <2>1. AllApart /\ Idle = Heap BY <1>2, ApartNow, AllAreIdle
  <2>2. Ready \cup Runs = {} BY <2>1 DEF AllApart, Apart, Idle, Ready, Runs
  <2> QED BY <1>2, <2>2 DEF StillInv, Readers
<1>6. Loaded' BY <1>2, <1>3, <1>4, LoadedKept DEF StillInv
<1>7. parallel_mode' => ParallelCall({"parts"})'
  <2>1. \A f \in Elements(stack) : f.op = "run_parallel" => f \in Elements(stack')
    BY <1>1, <1>3
  <2> QED BY <1>2, <2>1 DEF StillInv, Modes, ParallelCall
<1>8. Modes' BY <1>2, <1>5, <1>7 DEF Modes
<1> QED BY <1>2, <1>4, <1>6, <1>8 DEF StillInv, Readers

-----------------------------------------------------------------------------
(* compute_task_run_parallel                                               *)

LEMMA ParallelStartsStill ==
    ASSUME HeapInv, HeapInv', StillInv, ~quit, ParallelStarts PROVE StillInv'
<1>1. stack # <<>> /\ Top.op = "run_parallel" /\ Top.phase = "before" BY DEF ParallelStarts, In
<1>t. PICK t : t = Top OBVIOUS
<1>f. PICK f : f = [t EXCEPT !.phase = "parts"] OBVIOUS
<1>2. ~quit' /\ stack' = <<f>> \o Tail(stack)
      /\ UNCHANGED <<inactive, active, finished, running, work, reading, reported>>
  BY <1>t, <1>f DEF ParallelStarts, Become, lists, coreVars
<1>3. t \in Frame BY <1>1, <1>t, AtHand
<1>4. f \in Frame /\ f.op = "run_parallel" /\ f.phase = "parts"
  BY <1>1, <1>t, <1>3, <1>f DEF Frame, Phases
<1>5. Elements(stack) = {Top} \cup Rest /\ Elements(stack') = {f} \cup Rest /\ Head(stack') = f
  BY <1>1, <1>2, <1>4, StackMoves
<1>6. Ready' = Ready /\ Runs' = Runs /\ Done' = Done BY <1>2 DEF Ready, Runs, Done
<1>7. Loaded' BY <1>2, <1>4, <1>5, <1>6, LoadedKept DEF StillInv
<1>8. Modes' BY <1>4, <1>5 DEF Modes, ParallelCall, OnTop, Top
<1> QED BY <1>2, <1>6, <1>7, <1>8 DEF StillInv, Readers

(* A call f, by run_parallel, which goes on as g.                          *)
LEMMA ParallelCalls ==
    ASSUME HeapInv, StillInv, ~quit, stack # <<>>, Top.op = "run_parallel",
           NEW f \in Frame, NEW g \in Frame, f.op \in {"run", "finish_all"},
           g.op = "run_parallel", g.phase \in {"parts", "after", "failed"},
           CallFrom(g, f), parallel_mode' => g.phase = "parts",
           UNCHANGED <<active, finished, running, work, reading, reported, quit>>
    PROVE  StillInv'
<1>1. stack' = <<f, g>> \o Tail(stack) BY DEF CallFrom
<1>2. Elements(stack) = {Top} \cup Rest /\ Elements(stack') = {f, g} \cup Rest /\ Head(stack') = f
  BY <1>1, StackMoves
<1>3. Ready' = Ready /\ Runs' = Runs /\ Done' = Done BY DEF Ready, Runs, Done
<1>4. Loaded' BY <1>2, <1>3, LoadedKept DEF StillInv
<1>5. Modes' BY <1>2 DEF Modes, ParallelCall, OnTop, Top
<1> QED BY <1>3, <1>4, <1>5 DEF StillInv, Readers

LEMMA RunPartStill ==
    ASSUME HeapInv, HeapInv', StillInv, ~quit, RunPart PROVE StillInv'
<1>1. stack # <<>> /\ Top.op = "run_parallel" /\ Top.phase = "parts"
      /\ UNCHANGED <<active, finished, running, work, reading, reported, quit>>
  BY DEF RunPart, In, lists, coreVars
<1>t. PICK t : t = Top OBVIOUS
<1>2. PICK j \in t.job : CallFrom([t EXCEPT !.job = @ \ {j}], [NewFrame("run", "loop") EXCEPT !.job = {j}])
  BY <1>t DEF RunPart
<1>J. PICK J : J = t.job \ {j} OBVIOUS
<1>g. PICK g : g = [t EXCEPT !.job = J] OBVIOUS
<1>f. PICK f : f = [NewFrame("run", "loop") EXCEPT !.job = {j}] OBVIOUS
<1>3. t \in Frame BY <1>1, <1>t, AtHand
<1>4. j \in Job /\ J \in SUBSET Job BY <1>2, <1>3, <1>J DEF Frame
<1>5. g \in Frame /\ g.op = t.op /\ g.phase = t.phase BY <1>3, <1>4, <1>g, JobSet
<1>6. f \in Frame /\ f.op = "run" BY <1>4, <1>f DEF Frame, NewFrame, Ops, Functions, Phases
<1>7. CallFrom(g, f) BY <1>2, <1>J, <1>g, <1>f, Zenon
<1>8. g.op = "run_parallel" /\ g.phase = "parts" BY <1>1, <1>t, <1>5
<1> QED BY <1>1, <1>5, <1>6, <1>7, <1>8, ParallelCalls

LEMMA PartsGivenStill ==
    ASSUME HeapInv, HeapInv', StillInv, ~quit, PartsGiven PROVE StillInv'
<1>1. stack # <<>> /\ Top.op = "run_parallel" /\ Top.phase = "parts" /\ ~parallel_mode'
      /\ UNCHANGED <<active, finished, running, work, reading, reported, quit>>
  BY DEF PartsGiven, In, lists, coreVars
<1>t. PICK t : t = Top OBVIOUS
<1>p. PICK p : p = IF error THEN "failed" ELSE "after" OBVIOUS
<1>g. PICK g : g = [t EXCEPT !.phase = p, !.job = {}] OBVIOUS
<1>2. t \in Frame BY <1>1, <1>t, AtHand
<1>3. p \in {"failed", "after"} /\ p \in Phases BY <1>p DEF Phases
<1>4. g \in Frame /\ g.op = "run_parallel" /\ g.phase = p
  BY <1>1, <1>t, <1>2, <1>3, <1>g DEF Frame
<1>f. PICK f : f = FinishAll OBVIOUS
<1>5. f \in Frame /\ f.op = "finish_all" BY <1>f, FinishAllCall
<1>6. CallFrom(g, f) BY <1>p, <1>t, <1>g, <1>f, Zenon DEF PartsGiven
<1>7. g.phase \in {"parts", "after", "failed"} BY <1>3, <1>4
<1> QED BY <1>1, <1>4, <1>5, <1>6, <1>7, ParallelCalls

LEMMA ParallelReturnsStill ==
    ASSUME HeapInv, HeapInv', StillInv, ~quit, ParallelReturns PROVE StillInv'
<1>1. /\ stack # <<>> /\ Top.op = "run_parallel"
      /\ Top.phase \in {"after", "failed"} \/ (Top.phase = "before" /\ error)
  BY DEF ParallelReturns, In
<1>2. ~quit' /\ stack' = Tail(stack)
      /\ UNCHANGED <<inactive, active, finished, running, work, reading, parallel_mode, reported>>
  BY DEF ParallelReturns, Return, lists, coreVars
<1>3. Elements(stack) = {Top} \cup Elements(stack') BY <1>1, <1>2, StackMoves DEF Rest
<1>4. Ready' = Ready /\ Runs' = Runs /\ Done' = Done BY <1>2 DEF Ready, Runs, Done
<1>5. Loaded' BY <1>2, <1>3, <1>4, LoadedKept DEF StillInv
<1>6. NoErrorYet' => reading' = {}
  <2>1. NoErrorYet' => NoErrorYet BY <1>2 DEF NoErrorYet
  <2>2. NoErrorYet => reading = {} BY <1>1 DEF StillInv, Modes, OnTop
  <2> QED BY <1>2, <2>1, <2>2
<1>7. parallel_mode' => ParallelCall({"parts"})'
  <2>1. Top.phase # "parts" BY <1>1
  <2> QED BY <1>2, <1>3, <2>1 DEF StillInv, Modes, ParallelCall
<1>8. stack' = <<>> \/ Head(stack').op # "run_parallel"
  <2>1. Top.op \notin {"run", "finish_all"} BY <1>1
  <2> QED BY <1>1, <1>2, <2>1, UnderTop
<1>9. Modes' BY <1>6, <1>7, <1>8 DEF Modes, OnTop, Top
<1> QED BY <1>2, <1>4, <1>5, <1>9 DEF StillInv, Readers

-----------------------------------------------------------------------------
(* fixtask_run_on_compute_threads                                          *)

(* The heaps it takes were inactive, and are ready then.                   *)
LEMMA NativeReadies ==
    ASSUME HeapInv, ~quit, NativeStarts, NEW n, n = num_cores
    PROVE  /\ Ready \subseteq Ready' /\ Runs' = Runs /\ Done' = Done
           /\ \A h \in Ready' : h \in Ready \/ \E i \in 1 .. n : inactive[i] = h
           /\ \A i \in 1 .. n : inactive[i] \in Idle /\ inactive[i] \in Ready'
<1>1. stack # <<>> /\ Top.op = "native" /\ Top.phase = "before" /\ ~error BY DEF NativeStarts, In
<1>2. /\ active' = [i \in 1..n |-> inactive[n + 1 - i]] \o active
      /\ UNCHANGED <<finished, running>>
  BY DEF NativeStarts, coreVars
<1>6. AllApart BY ApartNow
<1>7. /\ inactive \in Seq(Heap) /\ active \in Seq(Heap) /\ n \in Nat /\ n <= Len(inactive)
      /\ DOMAIN inactive = 1 .. Len(inactive) /\ Len(inactive) \in Nat
  <2>1. Len(inactive) >= num_cores BY <1>1 DEF HeapInv, NativeReady, Top
  <2>2. inactive \in Seq(Heap) /\ active \in Seq(Heap) BY <1>6 DEF AllApart, Apart
  <2> QED BY <2>1, <2>2, Numbers, LenProperties
<1>8. Ready \subseteq Ready' /\ Runs' = Runs /\ Done' = Done
      /\ (\A h \in Ready' : h \in Ready \/ \E i \in 1 .. n : inactive[i] = h)
      /\ \A i \in 1 .. n : inactive[i] \in Ready'
  <2>1. PICK v : v = [i \in 1..n |-> inactive[n + 1 - i]] OBVIOUS
  <2>2. PICK w : w = v \o active OBVIOUS
  <2>3. v \in Seq(Heap) /\ Len(v) = n /\ \A i \in 1 .. n : v[i] = inactive[n + 1 - i]
    <3>1. \A i \in 1 .. n : inactive[n + 1 - i] \in Heap BY <1>7, ElementOfSeq
    <3>2. v \in [1 .. n -> Heap] BY <2>1, <3>1
    <3> QED BY <1>7, <2>1, <3>2
  <2>4. /\ DOMAIN w = 1 .. n + Len(active) /\ DOMAIN active = 1 .. Len(active) /\ Len(active) \in Nat
        /\ \A i \in 1 .. n + Len(active) : w[i] = IF i <= n THEN v[i] ELSE active[i - n]
    <3>1. /\ w \in Seq(Heap) /\ Len(w) = Len(v) + Len(active)
          /\ \A i \in 1 .. Len(v) + Len(active) : w[i] = IF i <= Len(v) THEN v[i] ELSE active[i - Len(v)]
      BY <1>7, <2>2, <2>3, ConcatProperties
    <3>2. Len(active) \in Nat /\ DOMAIN active = 1 .. Len(active) BY <1>7, LenProperties
    <3>3. DOMAIN w = 1 .. Len(w) BY <3>1, LenProperties
    <3> QED BY <2>3, <3>1, <3>2, <3>3
  <2>5. ASSUME NEW i \in DOMAIN w
        PROVE  (\E k \in DOMAIN active : w[i] = active[k]) \/ \E k \in 1 .. n : w[i] = inactive[k]
    <3>1. CASE i <= n
      <4>1. PICK k : k = n + 1 - i OBVIOUS
      <4>2. k \in 1 .. n /\ w[i] = inactive[k] BY <1>7, <2>3, <2>4, <3>1, <4>1
      <4> QED BY <4>2
    <3>2. CASE ~(i <= n)
      <4>1. PICK k : k = i - n OBVIOUS
      <4>2. k \in DOMAIN active /\ w[i] = active[k] BY SMTT(40), <1>7, <2>4, <3>2, <4>1
      <4> QED BY <4>2
    <3> QED BY <3>1, <3>2
  <2>6. ASSUME NEW k \in DOMAIN active PROVE \E i \in DOMAIN w : w[i] = active[k]
    <3>1. PICK i : i = k + n OBVIOUS
    <3>2. i \in DOMAIN w /\ w[i] = active[k] BY <1>7, <2>4, <3>1
    <3> QED BY <3>2
  <2>7. active' = w BY <1>2, <2>1, <2>2
  <2>8. Ready' = {w[i] : i \in DOMAIN w} /\ Ready = {active[i] : i \in DOMAIN active}
    BY <2>7 DEF Ready, Elements
  <2>9. Ready \subseteq Ready' BY <2>6, <2>8
  <2>10. \A h \in Ready' : h \in Ready \/ \E i \in 1 .. n : inactive[i] = h BY <2>5, <2>8
  <2>11. Runs' = Runs /\ Done' = Done BY <1>2 DEF Runs, Done
  <2>12. ASSUME NEW k \in 1 .. n PROVE inactive[k] \in Ready'
    <3>1. PICK i : i = n + 1 - k OBVIOUS
    <3>2. i \in 1 .. n /\ n + 1 - i = k BY <1>7, <3>1
    <3>3. i \in DOMAIN w /\ w[i] = inactive[k] BY <1>7, <2>3, <2>4, <3>2
    <3> QED BY <2>8, <3>3
  <2> QED BY <2>9, <2>10, <2>11, <2>12
<1>9. \A i \in 1 .. n : inactive[i] \in Idle
  BY <1>7 DEF Idle, Elements
<1> QED BY <1>8, <1>9

LEMMA NativeStartsStill ==
    ASSUME HeapInv, HeapInv', StillInv, ~quit, NativeStarts PROVE StillInv'
<1>1. stack # <<>> /\ Top.op = "native" /\ Top.phase = "before" /\ ~error BY DEF NativeStarts, In
<1>t. PICK t : t = Top OBVIOUS
<1>f. PICK f : f = [t EXCEPT !.phase = "wait"] OBVIOUS
<1>n. PICK n : n = num_cores OBVIOUS
<1>2. /\ ~quit' /\ stack' = <<f>> \o Tail(stack)
      /\ active' = [i \in 1..n |-> inactive[n + 1 - i]] \o active
      /\ work' = [h \in Heap |-> IF \E i \in 1..n : inactive[i] = h THEN {Native} ELSE work[h]]
      /\ UNCHANGED <<finished, running, reading, parallel_mode, reported>>
  BY <1>t, <1>f, <1>n DEF NativeStarts, Become, coreVars
<1>3. t \in Frame BY <1>1, <1>t, AtHand
<1>4. f \in Frame /\ f.op = "native" BY <1>1, <1>t, <1>3, <1>f DEF Frame, Phases
<1>5. Elements(stack) = {Top} \cup Rest /\ Elements(stack') = {f} \cup Rest /\ Head(stack') = f
      /\ stack' # <<>>
  BY <1>1, <1>2, <1>4, StackMoves
<1>6. AllApart /\ AllApart' BY <1>2, ApartNow, ApartThen
<1>8. /\ Ready \subseteq Ready' /\ Runs' = Runs /\ Done' = Done
      /\ \A h \in Ready' : h \in Ready \/ \E i \in 1 .. n : inactive[i] = h
  BY <1>n, NativeReadies
<1>9. \A i \in 1 .. n : inactive[i] \in Idle BY <1>n, NativeReadies
<1>10. /\ work' \in [Heap -> SUBSET (Job \cup {Native})]
       /\ \A h \in Heap : (\E i \in 1 .. n : inactive[i] = h) => work'[h] # {}
       /\ \A h \in Heap : h \notin Idle => work'[h] = work[h]
  BY <1>2, <1>9 DEF StillInv
<1>11. Loaded'
  <2>1. ASSUME NEW h \in Ready' \cup Done' \cup Runs' PROVE work'[h] # {}
    <3>1. h \in Heap BY <1>6 DEF AllApart, Apart, Ready, Runs, Done
    <3>2. CASE \E i \in 1 .. n : inactive[i] = h BY <1>10, <3>1, <3>2
    <3>3. CASE ~\E i \in 1 .. n : inactive[i] = h
      <4>1. h \in Ready \cup Done \cup Runs BY <1>8, <3>3
      <4>2. h \notin Idle BY <1>6, <4>1 DEF AllApart, Apart, Idle, Ready, Runs, Done
      <4> QED BY <1>10, <3>1, <4>1, <4>2 DEF StillInv, Loaded
    <3> QED BY <3>2, <3>3
  <2>2. ASSUME NEW k \in Elements(stack'), k.op = "callback"
        PROVE  work'[k.heap] # {} /\ \A j \in work'[k.heap] : j \in Job /\ reported'[j] >= 1
    <3>1. k \in Elements(stack) BY <1>4, <1>5, <2>2
    <3>2. k.heap \in InCalls BY <2>2, <3>1, CallsAreGood
    <3>3. k.heap \in Heap /\ k.heap \notin Idle BY <1>6, <3>2 DEF AllApart, Apart, Idle, InCalls
    <3> QED BY <1>2, <1>10, <2>2, <3>1, <3>3 DEF StillInv, Loaded
  <2> QED BY <2>1, <2>2 DEF Loaded
<1>12. Readers' BY <1>2, <1>8 DEF StillInv, Readers
<1>13. Modes'
  <2>1. \A k \in Elements(stack) : k.op = "run_parallel" => k \in Elements(stack')
    BY <1>1, <1>5
  <2>2. NoErrorYet' => NoErrorYet BY <1>2 DEF NoErrorYet
  <2> QED BY <1>2, <1>4, <1>5, <2>1, <2>2, ModesKept DEF StillInv
<1> QED BY <1>2, <1>10, <1>11, <1>12, <1>13 DEF StillInv

-----------------------------------------------------------------------------
(* The cores                                                               *)

(* The heap a core gives back is inactive after a native function and      *)
(* finished after a job; all else is ready or runs as before.              *)
LEMMA CoreMoves ==
    ASSUME HeapInv, HeapInv', ~quit, NEW c \in Core, TakeHeap(c) \/ WaitForWork(c), NEW h, h = running[c]
    PROVE  /\ Ran(c) => h \in Heap /\ h \in Runs
           /\ Idle' = Idle \cup (IF RanNative(c) THEN {h} ELSE {})
           /\ Done' = Done \cup (IF Ran(c) /\ ~RanNative(c) THEN {h} ELSE {})
           /\ Ready' \cup Runs' = (Ready \cup Runs) \ {h}
<1>h. h = running[c] OBVIOUS
<1>1. /\ ~quit'
      /\ finished' = (IF Ran(c) /\ ~RanNative(c) THEN <<h>> \o finished ELSE finished)
      /\ inactive' = (IF RanNative(c) THEN <<h>> \o inactive ELSE inactive)
  BY DEF TakeHeap, WaitForWork, GiveBack
<1>2. AllApart /\ AllApart' BY <1>1, ApartNow, ApartThen
<1>3. Ran(c) => h \in Heap /\ h \in Runs
  BY <1>2 DEF AllApart, Apart, Runs, Running, Ran
<1>4. Done' = Done \cup (IF Ran(c) /\ ~RanNative(c) THEN {h} ELSE {})
  <2>1. CASE Ran(c) /\ ~RanNative(c)
    <3>1. finished \in Seq(Heap) BY <1>2 DEF AllApart, Apart
    <3>2. Elements(<<h>> \o finished) = {h} \cup Elements(finished) BY <1>3, <2>1, <3>1, ElementsPushed
    <3> QED BY <1>1, <2>1, <3>2 DEF Done
  <2>2. CASE ~(Ran(c) /\ ~RanNative(c)) BY <1>1, <2>2 DEF Done
  <2> QED BY <2>1, <2>2
<1>5. Idle' = Idle \cup (IF RanNative(c) THEN {h} ELSE {})
  <2>1. CASE RanNative(c)
    <3>1. inactive \in Seq(Heap) /\ h \in Heap BY <1>2, <1>3, <2>1 DEF AllApart, Apart, RanNative
    <3>2. Elements(<<h>> \o inactive) = {h} \cup Elements(inactive) BY <3>1, ElementsPushed
    <3> QED BY <1>1, <2>1, <3>2 DEF Idle
  <2>2. CASE ~RanNative(c) BY <1>1, <2>2 DEF Idle
  <2> QED BY <2>1, <2>2
<1>6. /\ Ready' \cup Runs' \subseteq Ready \cup Runs
      /\ \A g \in Ready \cup Runs : g # h => g \in Ready' \cup Runs'
  <2>0. running \in [Core -> Heap \cup {NoHeap}] /\ active \in Seq(Heap)
    BY <1>2 DEF AllApart, Apart
  <2>1. CASE TakeHeap(c)
    <3>1. PICK a : a = Head(active) OBVIOUS
    <3>2. active # <<>> /\ active' = Tail(active) /\ running' = [running EXCEPT ![c] = a]
      BY <2>1, <3>1 DEF TakeHeap
    <3>3. Ready = {a} \cup Ready' BY <2>0, <3>1, <3>2, ElementsPopped DEF Ready
    <3>4. a \in Heap /\ a # NoHeap BY <2>0, <3>1, <3>2, Popped, Numbers
    <3>5. running'[c] = a /\ \A d \in Core : d # c => running'[d] = running[d] BY <2>0, <3>2
    <3>6. a \in Runs' BY <3>4, <3>5 DEF Runs, Running
    <3>7. Runs' \subseteq Runs \cup {a} BY <3>5 DEF Runs, Running
    <3>8. \A g \in Runs : g # h => g \in Runs' BY <1>h, <3>5 DEF Runs, Running
    <3> QED BY <3>3, <3>6, <3>7, <3>8
  <2>2. CASE WaitForWork(c)
    <3>1. active' = active /\ running' = [running EXCEPT ![c] = NoHeap] BY <2>2 DEF WaitForWork
    <3>2. running'[c] = NoHeap /\ \A d \in Core : d # c => running'[d] = running[d] BY <2>0, <3>1
    <3>3. Runs' \subseteq Runs BY <3>2 DEF Runs, Running
    <3>4. \A g \in Runs : g # h => g \in Runs' BY <1>h, <3>2 DEF Runs, Running
    <3> QED BY <3>1, <3>3, <3>4 DEF Ready
  <2> QED BY <2>1, <2>2
<1>7. h \notin Ready' \cup Runs'
  <2>1. CASE Ran(c)
    <3>1. h \in Idle' \cup Done' BY <1>4, <1>5, <2>1
    <3> QED BY <1>2, <3>1 DEF AllApart, Apart, Idle, Ready, Runs, Done
  <2>2. CASE ~Ran(c)
    <3>1. h \notin Heap BY <1>h, <2>2, Numbers DEF Ran
    <3> QED BY <1>2, <3>1 DEF AllApart, Apart, Ready, Runs
  <2> QED BY <2>1, <2>2
<1> QED BY <1>3, <1>4, <1>5, <1>6, <1>7

(* Who no longer runs a heap no longer reads with it.                      *)
LEMMA CoreStill ==
    ASSUME HeapInv, HeapInv', StillInv, ~quit, NEW c \in Core, TakeHeap(c) \/ WaitForWork(c)
    PROVE  StillInv'
<1>h. PICK h : h = running[c] OBVIOUS
<1>1. /\ ~quit' /\ reading' = reading \ {h}
      /\ finished' = (IF Ran(c) /\ ~RanNative(c) THEN <<h>> \o finished ELSE finished)
      /\ inactive' = (IF RanNative(c) THEN <<h>> \o inactive ELSE inactive)
      /\ work' = (IF RanNative(c) THEN [work EXCEPT ![h] = {}] ELSE work)
      /\ UNCHANGED <<stack, error, parallel_mode, reported>>
  BY <1>h DEF TakeHeap, WaitForWork, GiveBack
<1>2. AllApart /\ AllApart' BY <1>1, ApartNow, ApartThen
<1>3. /\ Ran(c) => h \in Heap /\ h \in Runs
      /\ Idle' = Idle \cup (IF RanNative(c) THEN {h} ELSE {})
      /\ Done' = Done \cup (IF Ran(c) /\ ~RanNative(c) THEN {h} ELSE {})
      /\ Ready' \cup Runs' = (Ready \cup Runs) \ {h}
  BY <1>h, CoreMoves
<1>5. RanNative(c) => h \notin Ready' \cup Done' \cup Runs' \cup InCalls'
  <2> SUFFICES ASSUME RanNative(c) PROVE h \notin Ready' \cup Done' \cup Runs' \cup InCalls' OBVIOUS
  <2>1. h \in Idle' BY <1>3
  <2> QED BY <1>2, <2>1 DEF AllApart, Apart, Idle, Ready, Runs, Done, InCalls
<1>7. /\ work' \in [Heap -> SUBSET (Job \cup {Native})]
      /\ \A g \in Heap : (RanNative(c) /\ g = h) \/ work'[g] = work[g]
  <2>1. CASE RanNative(c) BY <1>1, <2>1, WorkCleared DEF StillInv
  <2>2. CASE ~RanNative(c) BY <1>1, <2>2 DEF StillInv
  <2> QED BY <2>1, <2>2
<1>8. Loaded'
  <2>1. ASSUME NEW g \in Ready' \cup Done' \cup Runs'
        PROVE  g \in Ready \cup Done \cup Runs /\ work'[g] = work[g]
    <3>1. g \in Ready \cup Done \cup Runs BY <1>3
    <3>2. g \in Heap BY <1>2, <3>1 DEF AllApart, Apart, Ready, Runs, Done
    <3> QED BY <1>5, <1>7, <3>1, <3>2
  <2>2. ASSUME NEW f \in Elements(stack'), f.op = "callback"
        PROVE  f \in Elements(stack) /\ work'[f.heap] = work[f.heap]
    <3>1. f \in Elements(stack) BY <1>1
    <3>2. f.heap \in InCalls /\ InCalls' = InCalls BY <1>1, <2>2, <3>1, CallsAreGood DEF InCalls
    <3>3. f.heap \in Heap BY <1>2, <3>2 DEF AllApart, Apart, InCalls
    <3> QED BY <1>5, <1>7, <3>1, <3>2, <3>3
  <2>3. reported' \in [Job -> Nat] /\ \A j \in Job : reported'[j] >= reported[j]
    BY <1>1 DEF StillInv
  <2> QED BY <2>1, <2>2, <2>3, LoadedKept DEF StillInv
<1>9. Readers'
  <2>1. reading \subseteq Ready \cup Runs /\ reading \subseteq Heap BY DEF StillInv, Readers
  <2>2. \A g \in reading' : g \in Ready' \cup Runs' BY <1>1, <1>3, <2>1
  <2> QED BY <1>1, <2>1, <2>2 DEF Readers
<1>10. Modes'
  BY <1>1 DEF StillInv, Modes, NoErrorYet, ParallelCall, OnTop, Top
<1> QED BY <1>1, <1>7, <1>8, <1>9, <1>10 DEF StillInv

-----------------------------------------------------------------------------
(* The calls of the script, or of a finish function                        *)

(* What is below the new calls: the calls in progress, of which the one    *)
(* that makes the new ones has made its last.                              *)
LEMMA BelowCalls ==
    ASSUME HeapInv, ~quit, NEW op, NEW frames \in Seq(Frame), ScriptCalls(op, frames)
    PROVE  \E q \in Seq(Frame) :
              /\ stack' = frames \o q
              /\ \/ q = stack
                 \/ \E b \in Frame : /\ stack # <<>> /\ Top.op = "callback" /\ Top.phase = "script"
                                     /\ b.op = Top.op /\ b.phase = Top.phase
                                     /\ b.job = Top.job /\ b.heap = Top.heap
                                     /\ q = <<b>> \o Tail(stack)
<1>1. CASE stack = <<>> /\ stack' = frames
  <2>1. frames \o <<>> = frames BY ConcatEmptySeq
  <2>2. stack \in Seq(Frame) BY <1>1
  <2>3. stack' = frames \o stack BY <1>1, <2>1, Zenon
  <2> QED BY <2>2, <2>3
<1>2. CASE /\ In("callback", {"script"})
           /\ stack' = frames \o <<[Top EXCEPT !.left = 0]>> \o Tail(stack)
  <2>1. stack # <<>> /\ Top.op = "callback" /\ Top.phase = "script" BY <1>2 DEF In
  <2>2. PICK t, r : t = Top /\ r = Tail(stack) OBVIOUS
  <2>3. PICK b : b = [t EXCEPT !.left = 0] OBVIOUS
  <2>4. t \in Frame BY <2>1, <2>2, AtHand
  <2>5. /\ b \in Frame /\ b.op = Top.op /\ b.phase = Top.phase
        /\ b.job = Top.job /\ b.heap = Top.heap
    BY <2>2, <2>3, <2>4 DEF Frame
  <2>6. r \in Seq(Frame) BY <2>1, <2>2, AtHand, HeadTailProperties
  <2>7. PICK q : q = <<b>> \o r OBVIOUS
  <2>8. q \in Seq(Frame) BY <2>5, <2>6, <2>7, Pushed
  <2>9. stack' = frames \o q
    <3>1. stack' = (frames \o <<b>>) \o r BY <1>2, <2>2, <2>3
    <3>2. <<b>> \in Seq(Frame) BY <2>5
    <3>3. (frames \o <<b>>) \o r = frames \o q BY <2>6, <2>7, <3>2, ConcatAssociative
    <3> QED BY <3>1, <3>3
  <2>10. q = <<b>> \o Tail(stack) BY <2>2, <2>7
  <2> QED BY <2>1, <2>5, <2>8, <2>9, <2>10
<1> QED BY <1>1, <1>2 DEF ScriptCalls

(* The new calls on top of the others.                                     *)
LEMMA ElementsOfCalls ==
    ASSUME NEW q \in Seq(Frame), NEW f \in Frame, NEW g \in Frame,
           NEW frames, frames = <<f>> \/ frames = <<f, g>>
    PROVE  /\ frames \in Seq(Frame) /\ Head(frames \o q) = f /\ frames \o q # <<>>
           /\ Elements(frames) \subseteq {f, g}
           /\ Elements(frames \o q) = Elements(frames) \cup Elements(q)
<1>1. CASE frames = <<f>>
  <2>1. Elements(<<f>> \o q) = {f} \cup Elements(q) BY ElementsPushed
  <2>2. Head(<<f>> \o q) = f /\ <<f>> \o q # <<>> BY Pushed
  <2>3. <<f>> \in Seq(Frame) OBVIOUS
  <2> QED BY <1>1, <2>1, <2>2, <2>3, ElementsOfFew, Zenon
<1>2. CASE frames = <<f, g>>
  <2>1. PICK u : u = <<g>> \o q OBVIOUS
  <2>2. u \in Seq(Frame) /\ Elements(u) = {g} \cup Elements(q) BY <2>1, Pushed, ElementsPushed
  <2>3. Elements(<<f>> \o u) = {f} \cup Elements(u) BY <2>2, ElementsPushed
  <2>4. Head(<<f>> \o u) = f /\ <<f>> \o u # <<>> BY <2>2, Pushed
  <2>5. frames \o q = <<f>> \o u
    <3>1. <<f, g>> \o q = <<f>> \o (<<g>> \o q) BY TwoPushed
    <3> QED BY <1>2, <2>1, <3>1
  <2>6. Elements(frames) = {f, g} /\ frames \in Seq(Frame) BY <1>2, ElementsOfFew
  <2> QED BY <2>2, <2>3, <2>4, <2>5, <2>6
<1> QED BY <1>1, <1>2

(* One call f, which may be made by a call g that is made first.           *)
LEMMA ScriptCallStill ==
    ASSUME HeapInv, StillInv, ~quit, NEW op, NEW f \in Frame, NEW g \in Frame,
           NEW frames, ScriptCalls(op, frames), frames = <<f>> \/ frames = <<f, g>>,
           f.op \notin {"run_parallel", "callback"}, g.op # "callback",
           UNCHANGED <<active, finished, running, work, reading, parallel_mode, reported, quit>>
    PROVE  StillInv'
<1>0. frames \in Seq(Frame)
  <2>1. <<>> \in Seq(Frame) OBVIOUS
  <2> QED BY <2>1, ElementsOfCalls
<1>1. PICK q \in Seq(Frame) :
          /\ stack' = frames \o q
          /\ \/ q = stack
             \/ \E b \in Frame : /\ stack # <<>> /\ Top.op = "callback" /\ Top.phase = "script"
                                 /\ b.op = Top.op /\ b.phase = Top.phase
                                 /\ b.job = Top.job /\ b.heap = Top.heap
                                 /\ q = <<b>> \o Tail(stack)
  BY <1>0, BelowCalls
<1>2. /\ stack' # <<>> /\ Head(stack') = f
      /\ Elements(stack') \subseteq {f, g} \cup Elements(q) /\ Elements(q) \subseteq Elements(stack')
  <2>1. /\ Head(frames \o q) = f /\ frames \o q # <<>>
        /\ Elements(frames) \subseteq {f, g}
        /\ Elements(frames \o q) = Elements(frames) \cup Elements(q)
    BY ElementsOfCalls
  <2> QED BY <1>1, <2>1
<1>3. /\ \A k \in Elements(stack) : k.op = "run_parallel" => k \in Elements(stack')
      /\ \A k \in Elements(stack') : k.op = "callback" =>
            \E m \in Elements(stack) : m.op = "callback" /\ m.heap = k.heap
  <2>1. CASE q = stack BY <1>2, <2>1
  <2>2. CASE q # stack
    <3>1. PICK b \in Frame : /\ stack # <<>> /\ Top.op = "callback" /\ b.op = Top.op
                             /\ b.heap = Top.heap /\ q = <<b>> \o Tail(stack)
      BY <1>1, <2>2
    <3>2. PICK r : r = Tail(stack) OBVIOUS
    <3>3. r \in Seq(Frame) BY <3>1, <3>2, AtHand, HeadTailProperties
    <3>4. Elements(q) = {b} \cup Elements(r) BY <3>1, <3>2, <3>3, ElementsPushed
    <3>5. Elements(stack) = {Top} \cup Elements(r) BY <3>1, <3>2, StackMoves DEF Rest
    <3> QED BY <1>2, <3>1, <3>4, <3>5
  <2> QED BY <2>1, <2>2
<1>4. Ready' = Ready /\ Runs' = Runs /\ Done' = Done BY DEF Ready, Runs, Done
<1>5. Loaded'
  <2>1. \A h \in Ready' \cup Done' \cup Runs' : work'[h] # {} BY <1>4 DEF StillInv, Loaded
  <2>2. ASSUME NEW k \in Elements(stack'), k.op = "callback"
        PROVE  work'[k.heap] # {} /\ \A j \in work'[k.heap] : j \in Job /\ reported'[j] >= 1
    <3>1. PICK m \in Elements(stack) : m.op = "callback" /\ m.heap = k.heap BY <1>3, <2>2
    <3>2. work[m.heap] # {} /\ \A j \in work[m.heap] : j \in Job /\ reported[j] >= 1
      BY <3>1 DEF StillInv, Loaded
    <3> QED BY <3>1, <3>2
  <2> QED BY <2>1, <2>2 DEF Loaded
<1>6. Modes'
  <2>1. NoErrorYet' => NoErrorYet BY DEF NoErrorYet
  <2> QED BY <1>2, <1>3, <2>1, ModesKept DEF StillInv
<1> QED BY <1>4, <1>5, <1>6 DEF StillInv, Readers

LEMMA ScriptStepStill ==
    ASSUME HeapInv, FreshInv, StillInv, ~quit, ScriptStep PROVE StillInv'
<1>1. UNCHANGED <<active, finished, running, work, reading, parallel_mode, reported, quit>>
  BY DEF ScriptStep, CallRun, CallCheckFinished, CallFinishAll, CallParallel, CallNative, lists, coreVars
<1>2. CASE CallRun
  <2>1. PICK j \in fresh : ScriptCalls("run", <<[NewFrame("run", "loop") EXCEPT !.job = {j}]>>)
    BY <1>2 DEF CallRun
  <2>2. PICK f : f = [NewFrame("run", "loop") EXCEPT !.job = {j}] OBVIOUS
  <2>3. f \in Frame /\ f.op = "run"
    BY <2>1, <2>2 DEF FreshInv, Frame, NewFrame, Ops, Functions, Phases
  <2>4. ScriptCalls("run", <<f>>) BY <2>1, <2>2
  <2>5. f.op \notin {"run_parallel", "callback"} BY <2>3
  <2> QED BY <1>1, <2>3, <2>4, <2>5, ScriptCallStill
<1>3. CASE CallCheckFinished
  <2>1. PICK f : f = NewFrame("check_finished", "finish") OBVIOUS
  <2>2. f \in Frame /\ f.op = "check_finished" BY <2>1 DEF Frame, NewFrame, Ops, Functions, Phases
  <2>3. ScriptCalls("check_finished", <<f>>) BY <1>3, <2>1 DEF CallCheckFinished
  <2>4. f.op \notin {"run_parallel", "callback"} BY <2>2
  <2> QED BY <1>1, <2>2, <2>3, <2>4, ScriptCallStill
<1>f. PICK f : f = FinishAll OBVIOUS
<1>4. f \in Frame /\ f.op \notin {"run_parallel", "callback"} BY <1>f, FinishAllCall
<1>5. CASE CallFinishAll
  <2>1. ScriptCalls("finish_all", <<f>>) BY <1>5, <1>f DEF CallFinishAll
  <2> QED BY <1>1, <1>4, <2>1, ScriptCallStill
<1>6. CASE CallParallel
  <2>1. PICK parts \in SUBSET (fresh \ WithFinish) :
            ScriptCalls("run_parallel",
                <<FinishAll, [NewFrame("run_parallel", "before") EXCEPT !.job = parts]>>)
    BY <1>6 DEF CallParallel
  <2>2. PICK g : g = [NewFrame("run_parallel", "before") EXCEPT !.job = parts] OBVIOUS
  <2>3. g \in Frame /\ g.op # "callback"
    BY <2>1, <2>2 DEF FreshInv, Frame, NewFrame, Ops, Functions, Phases
  <2>4. ScriptCalls("run_parallel", <<f, g>>) BY <1>f, <2>1, <2>2
  <2> QED BY <1>1, <1>4, <2>3, <2>4, ScriptCallStill
<1>7. CASE CallNative
  <2>1. PICK g : g = NewFrame("native", "before") OBVIOUS
  <2>2. g \in Frame /\ g.op # "callback" BY <2>1 DEF Frame, NewFrame, Ops, Functions, Phases
  <2>3. ScriptCalls("native", <<f, g>>) BY <1>7, <1>f, <2>1 DEF CallNative
  <2> QED BY <1>1, <1>4, <2>2, <2>3, ScriptCallStill
<1> QED BY <1>2, <1>3, <1>5, <1>6, <1>7 DEF ScriptStep

-----------------------------------------------------------------------------
(* The end of the script, and what follows it                              *)

LEMMA LeavingStill ==
    ASSUME StillInv, NEW c \in Core, Leave(c) PROVE StillInv'
<1>1. /\ reading' \subseteq reading /\ quit' /\ quit
      /\ work' = (IF RanNative(c) THEN [work EXCEPT ![running[c]] = {}] ELSE work)
      /\ UNCHANGED <<stack, error, parallel_mode, reported>>
  BY DEF Leave, GiveBack
<1>2. work' \in [Heap -> SUBSET (Job \cup {Native})] BY <1>1 DEF StillInv
<1>3. Modes' BY <1>1 DEF StillInv, Modes, NoErrorYet, ParallelCall, OnTop, Top
<1>4. Readers' BY <1>1 DEF StillInv, Readers
<1> QED BY <1>1, <1>2, <1>3, <1>4 DEF StillInv

(* Only the script makes a first call.                                     *)
LEMMA MainStepHasCall == MainStep => stack # <<>>
BY DEF MainStep, FinishFailed, FinishPlain, FinishCallback, Finishing, CallbackReturns, PickHeap,
       WaitToRun, CloneFails, StartJob, CheckFinishedReturns, WaitToFinish, FinishAllReturns,
       ParallelStarts, RunPart, PartsGiven, ParallelReturns,
       NativeStarts, WaitForNative, NativeReturns, In

(* Every step keeps the heap of the script still.                          *)
LEMMA StillStep == HeapInv /\ HeapInv' /\ FreshInv /\ StillInv /\ [Next]_vars => StillInv'
<1> SUFFICES ASSUME HeapInv, HeapInv', FreshInv, StillInv, [Next]_vars PROVE StillInv' OBVIOUS
<1>1. CASE UNCHANGED <<active, finished, running, work, reading, stack, error, parallel_mode, reported, quit>>
  BY <1>1 DEF StillInv, Loaded, Readers, Modes, NoErrorYet, ParallelCall, OnTop, Top, Ready, Done, Runs
<1>2. CASE UNCHANGED vars \/ WakeSpuriously
  BY <1>1, <1>2 DEF vars, coreVars, lists, WakeSpuriously
<1>3. CASE EndScript
  <2>1. quit' /\ stack' = <<>> /\ UNCHANGED <<work, reading, stack, error, parallel_mode, reported>>
    BY <1>3 DEF EndScript
  <2>2. Modes' BY <2>1 DEF StillInv, Modes, NoErrorYet, ParallelCall, OnTop, Top
  <2> QED BY <2>1, <2>2 DEF StillInv, Readers
<1>4. CASE \E c \in Core : CoreStep(c)
  <2>1. PICK c \in Core : CoreStep(c) BY <1>4
  <2>2. CASE Leave(c) BY <2>2, LeavingStill
  <2>3. CASE TakeHeap(c) \/ WaitForWork(c)
    <3>1. ~quit BY <2>3 DEF TakeHeap, WaitForWork
    <3> QED BY <2>3, <3>1, CoreStill
  <2> QED BY <2>1, <2>2, <2>3 DEF CoreStep
<1>5. CASE ScriptStep
  <2>1. ~quit BY <1>5 DEF ScriptStep, CallRun, CallParallel, CallCheckFinished, CallFinishAll,
                          CallNative, ScriptCalls
  <2> QED BY <1>5, <2>1, ScriptStepStill
<1>6. CASE MainStep
  <2>1. stack # <<>> BY <1>6, MainStepHasCall
  <2>2. ~quit BY <2>1 DEF StillInv
  <2>3. CASE FinishFailed \/ FinishPlain \/ FinishCallback \/ CallbackReturns
    BY <2>2, <2>3, FinishFailedStill, FinishPlainStill, FinishCallbackStill, CallbackReturnsStill
  <2>4. CASE PickHeap \/ WaitToRun \/ WaitToFinish \/ WaitForNative BY <2>2, <2>4, QuietMain
  <2>5. CASE CloneFails \/ CheckFinishedReturns \/ NativeReturns BY <2>2, <2>5, QuietReturns
  <2>6. CASE StartJob \/ FinishAllReturns \/ NativeStarts
    BY <2>2, <2>6, StartJobStill, FinishAllReturnsStill, NativeStartsStill
  <2>7. CASE ParallelStarts \/ RunPart \/ PartsGiven \/ ParallelReturns
    BY <2>2, <2>7, ParallelStartsStill, RunPartStill, PartsGivenStill, ParallelReturnsStill
  <2> QED BY <1>6, <2>3, <2>4, <2>5, <2>6, <2>7 DEF MainStep
<1> QED BY <1>2, <1>3, <1>4, <1>5, <1>6 DEF Next

-----------------------------------------------------------------------------
(* What run_parallel is busy with are its parts                            *)

(* The heaps with work.                                                    *)
Working == Ready \cup Done \cup Runs

(* A run_parallel that has waited for what was there before it.            *)
Busy(f) == f.op = "run_parallel" /\ f.phase # "before"
NoBusy(s) == \A f \in Elements(s) : ~Busy(f)

(* There is one at most, at hand or right below the call at hand.          *)
Shallow(s) == s # <<>> => Tail(s) = <<>> \/ NoBusy(Tail(Tail(s)))

(* While there is one, only its parts are on the heaps, and they have no   *)
(* finish function: it starts when all heaps are inactive.                 *)
PartsInv ==
    ~quit =>
       /\ Shallow(stack)
       /\ \A f \in Elements(stack) : f.op = "run_parallel" => f.job \cap WithFinish = {}
       /\ ~NoBusy(stack) => /\ \A h \in Working : work[h] \cap WithFinish = {}
                            /\ Top.op = "run" => Top.job \cap WithFinish = {}
       /\ OnTop({"before"}) /\ ~error => Working = {}

LEMMA PartsInit == Init => PartsInv
BY ElementsOfFew DEF Init, PartsInv, Shallow, NoBusy, OnTop

(* What holds of all calls holds of those below the one at hand.           *)
LEMMA BusyPopped ==
    ASSUME NEW s \in Seq(Frame), s # <<>>
    PROVE  /\ NoBusy(s) => NoBusy(Tail(s))
           /\ NoBusy(s) => Shallow(s)
           /\ Shallow(s) => Shallow(Tail(s))
<1>1. ASSUME NEW r \in Seq(Frame), r # <<>>
      PROVE  Tail(r) \in Seq(Frame) /\ (NoBusy(r) => NoBusy(Tail(r)))
  <2>1. Elements(r) = {Head(r)} \cup Elements(Tail(r)) BY <1>1, ElementsPopped
  <2> QED BY <1>1, <2>1, HeadTailProperties DEF NoBusy
<1>2. NoBusy(s) => NoBusy(Tail(s)) BY <1>1
<1>3. NoBusy(s) => Shallow(s) BY <1>1, <1>2 DEF Shallow
<1>4. Shallow(s) => Shallow(Tail(s)) BY <1>1 DEF Shallow
<1> QED BY <1>2, <1>3, <1>4

(* Below the call at hand.                                                 *)
LEMMA BusyBelow ==
    ASSUME HeapInv, ~quit, PartsInv, stack # <<>>
    PROVE  /\ Top.op \notin {"run", "finish_all"} => NoBusy(Tail(stack))
           /\ ~NoBusy(Tail(stack)) => /\ Tail(stack) # <<>>
                                      /\ Head(Tail(stack)).op = "run_parallel"
           /\ Tail(stack) # <<>> => NoBusy(Tail(Tail(stack)))
           /\ stack \in Seq(Frame) /\ Tail(stack) \in Seq(Frame)
<1>1. stack \in Seq(Frame) /\ Tail(stack) \in Seq(Frame) BY AtHand, HeadTailProperties
<1>2. Tail(stack) = <<>> => NoBusy(Tail(stack)) BY ElementsOfFew DEF NoBusy
<1>3. Tail(stack) # <<>> => NoBusy(Tail(Tail(stack))) BY DEF PartsInv, Shallow
<1>4. Tail(stack) # <<>> => Elements(Tail(stack)) = {Head(Tail(stack))} \cup Elements(Tail(Tail(stack)))
  BY <1>1, ElementsPopped
<1>5. ~NoBusy(Tail(stack)) => Tail(stack) # <<>> /\ Head(Tail(stack)).op = "run_parallel"
  BY <1>2, <1>3, <1>4 DEF NoBusy, Busy
<1>6. Top.op \notin {"run", "finish_all"} => NoBusy(Tail(stack)) BY <1>5, UnderTop
<1> QED BY <1>1, <1>3, <1>5, <1>6

(* No run_parallel is busy after the step.                                 *)
LEMMA PartsNone ==
    ASSUME stack' \in Seq(Frame), NoBusy(stack)',
           \A f \in Elements(stack') : f.op = "run_parallel" => f.job \cap WithFinish = {},
           OnTop({"before"})' /\ ~error' => Working' = {}
    PROVE  PartsInv'
<1>1. Shallow(stack)'
  <2>1. PICK s : s = stack' OBVIOUS
  <2>2. NoBusy(s) /\ s \in Seq(Frame) BY <2>1 DEF NoBusy, Busy, Elements
  <2>3. Shallow(s)
    <3>1. CASE s = <<>> BY <3>1 DEF Shallow
    <3>2. CASE s # <<>> BY <2>2, <3>2, BusyPopped
    <3> QED BY <3>1, <3>2
  <2> QED BY <2>1, <2>3 DEF Shallow, NoBusy, Busy, Elements
<1> QED BY <1>1 DEF PartsInv

(* A call goes on.                                                         *)
LEMMA PartsGoOn ==
    ASSUME HeapInv, PartsInv, ~quit, stack # <<>>, Top.op # "run_parallel",
           NEW f \in Frame, f.op = Top.op, f.job = Top.job, stack' = <<f>> \o Tail(stack),
           ~NoBusy(stack) => \A h \in Working' : work'[h] \cap WithFinish = {}
    PROVE  PartsInv'
<1>1. Elements(stack) = {Top} \cup Rest /\ Elements(stack') = {f} \cup Rest /\ Head(stack') = f
      /\ stack' # <<>>
  BY StackMoves
<1>2. PICK r : r = Tail(stack) OBVIOUS
<1>3. r \in Seq(Frame) /\ (r = <<>> \/ NoBusy(Tail(r)))
  BY <1>2, BusyBelow
<1>4. Tail(<<f>> \o r) = r BY <1>3, Pushed
<1>5. Shallow(stack)'
  <2>1. PICK s : s = stack' OBVIOUS
  <2>2. Tail(s) = r BY <1>2, <1>4, <2>1
  <2>3. Shallow(s) BY <1>3, <2>2 DEF Shallow
  <2> QED BY <2>1, <2>3 DEF Shallow, NoBusy, Busy, Elements
<1>6. NoBusy(stack) => NoBusy(stack)' BY <1>1 DEF NoBusy, Busy
<1>7. \A g \in Elements(stack') : g.op = "run_parallel" => g.job \cap WithFinish = {}
  BY <1>1 DEF PartsInv
<1>8. ~NoBusy(stack) /\ f.op = "run" => f.job \cap WithFinish = {} BY DEF PartsInv
<1> QED BY <1>1, <1>5, <1>6, <1>7, <1>8 DEF PartsInv, OnTop, Top

(* A call returns.                                                         *)
LEMMA PartsReturn ==
    ASSUME HeapInv, PartsInv, ~quit, stack # <<>>, stack' = Tail(stack),
           ~NoBusy(stack) => \A h \in Working' : work'[h] \cap WithFinish = {},
           OnTop({"before"})' /\ ~error' => Working' = {}
    PROVE  PartsInv'
<1>1. Elements(stack) = {Top} \cup Elements(stack') BY StackMoves DEF Rest
<1>2. PICK s : s = stack' OBVIOUS
<1>3. Shallow(s) BY <1>2, BusyBelow, BusyPopped DEF PartsInv
<1>4. Shallow(stack)' BY <1>2, <1>3 DEF Shallow, NoBusy, Busy, Elements
<1>5. NoBusy(stack) => NoBusy(stack)' BY <1>1 DEF NoBusy, Busy
<1>6. ~NoBusy(stack)' => Top'.op # "run"
  <2> SUFFICES ASSUME ~NoBusy(stack)' PROVE Top'.op # "run" OBVIOUS
  <2>1. ~NoBusy(s) BY <1>2 DEF NoBusy, Busy, Elements
  <2>2. ~NoBusy(Tail(stack)) BY <1>2, <2>1
  <2>3. Head(Tail(stack)).op = "run_parallel" BY <2>2, BusyBelow
  <2> QED BY <2>3 DEF Top
<1>7. \A g \in Elements(stack') : g.op = "run_parallel" => g.job \cap WithFinish = {}
  BY <1>1 DEF PartsInv
<1> QED BY <1>4, <1>5, <1>6, <1>7 DEF PartsInv

(* A heap loses its work, the others keep theirs.                          *)
LEMMA PlainCleared ==
    ASSUME PartsInv, ~quit, ~NoBusy(stack), Working' \subseteq Working, Working \subseteq Heap,
           \A h \in Heap : work'[h] = work[h] \/ work'[h] = {}
    PROVE  \A h \in Working' : work'[h] \cap WithFinish = {}
BY DEF PartsInv

(* The heaps that are given back by finish_tasks.                          *)
LEMMA FinishParts ==
    ASSUME HeapInv, HeapInv', StillInv, PartsInv, ~quit, FinishFailed \/ FinishPlain
    PROVE  PartsInv'
<1>h. PICK h : h = Finished OBVIOUS
<1>1. /\ stack # <<>> /\ finished # <<>> /\ Top.op # "run_parallel"
      /\ finished' = Tail(finished) /\ work' = [work EXCEPT ![h] = {}]
      /\ UNCHANGED <<active, running>>
  BY <1>h, FinishingCalls DEF FinishFailed, FinishPlain, coreVars
<1>2. Elements(finished) = {h} \cup Elements(Tail(finished)) /\ Working \subseteq Heap
  BY <1>1, <1>h, ApartNow, ElementsPopped DEF AllApart, Apart, Finished, Working, Ready, Done, Runs
<1>3. Working' \subseteq Working BY <1>1, <1>2 DEF Working, Ready, Runs, Done
<1>4. \A g \in Heap : work'[g] = work[g] \/ work'[g] = {} BY <1>1 DEF StillInv
<1>5. ~NoBusy(stack) => \A g \in Working' : work'[g] \cap WithFinish = {}
  BY <1>2, <1>3, <1>4, PlainCleared
<1>6. CASE FinishFailed
  <2>1. stack' = Tail(stack) /\ error' BY <1>6 DEF FinishFailed, Return
  <2> QED BY <1>1, <1>5, <2>1, PartsReturn
<1>7. CASE FinishPlain
  <2>1. PICK t : t = Top OBVIOUS
  <2>2. PICK f : f = [t EXCEPT !.phase = "finish"] OBVIOUS
  <2>3. t \in Frame BY <1>1, <2>1, AtHand
  <2>4. f \in Frame /\ f.op = t.op /\ f.job = t.job BY <2>2, <2>3, PhaseSet DEF Phases
  <2>5. stack' = <<f>> \o Tail(stack) BY <1>7, <2>1, <2>2 DEF FinishPlain, Become
  <2> QED BY <1>1, <1>5, <2>1, <2>4, <2>5, PartsGoOn
<1> QED BY <1>6, <1>7

(* No finish function runs while a run_parallel is busy.                   *)
LEMMA CallbackParts ==
    ASSUME HeapInv, HeapInv', StillInv, PartsInv, ~quit, FinishCallback
    PROVE  PartsInv' /\ NoBusy(stack)
<1>h. PICK h : h = Finished OBVIOUS
<1>t. PICK t : t = Top OBVIOUS
<1>g. PICK g : g = [t EXCEPT !.phase = "finish"] OBVIOUS
<1>f. PICK f : f = [NewFrame("callback", "script") EXCEPT !.heap = h, !.left = 1] OBVIOUS
<1>1. /\ stack # <<>> /\ finished # <<>> /\ t.op \in {"run", "finish_all", "check_finished"}
      /\ work[h] \subseteq WithFinish /\ stack' = <<f, g>> \o Tail(stack)
  BY <1>h, <1>t, <1>g, <1>f, FinishingCalls DEF FinishCallback, CallFrom
<1>2. Elements(finished) = {h} \cup Elements(Tail(finished)) /\ h \in Heap
  BY <1>1, <1>h, ApartNow, ElementsPopped, Popped DEF AllApart, Apart, Finished
<1>3. h \in Done /\ work[h] # {} BY <1>2 DEF Done, StillInv, Loaded
<1>4. NoBusy(stack) BY <1>1, <1>3 DEF PartsInv, Working
<1>5. t \in Frame BY <1>1, <1>t, AtHand
<1>6. g \in Frame /\ g.op = t.op BY <1>5, <1>g, PhaseSet DEF Phases
<1>7. f \in Frame /\ f.op = "callback" BY <1>2, <1>f DEF Frame, NewFrame, Ops, Phases
<1>8. Elements(stack) = {Top} \cup Rest /\ Elements(stack') = {f, g} \cup Rest /\ Head(stack') = f
  BY <1>1, <1>6, <1>7, StackMoves
<1>9. NoBusy(stack)' BY <1>1, <1>4, <1>6, <1>7, <1>8 DEF NoBusy, Busy
<1>10. \A k \in Elements(stack') : k.op = "run_parallel" => k.job \cap WithFinish = {}
  BY <1>1, <1>6, <1>7, <1>8 DEF PartsInv
<1>11. stack' \in Seq(Frame)
  <2>1. \E at : Shape(stack') BY <1>1 DEF HeapInv, OnePlace, FinishCallback, coreVars
  <2> QED BY <2>1 DEF Shape
<1>12. ~OnTop({"before"})' BY <1>7, <1>8 DEF OnTop, Top
<1>13. PartsInv' BY <1>9, <1>10, <1>11, <1>12, PartsNone
<1> QED BY <1>4, <1>13

LEMMA CallbackReturnsParts ==
    ASSUME HeapInv, HeapInv', StillInv, PartsInv, ~quit, CallbackReturns
    PROVE  PartsInv'
<1>1. stack # <<>> /\ Top.op = "callback" /\ Tail(stack) # <<>>
  BY AtHand DEF CallbackReturns, In
<1>2. /\ stack' = (IF error' THEN Tail(Tail(stack)) ELSE Tail(stack))
      /\ Head(Tail(stack)).phase = "finish"
  BY <1>1, UnderTop DEF CallbackReturns
<1>3. /\ NoBusy(Tail(stack)) /\ NoBusy(Tail(Tail(stack)))
      /\ Tail(stack) \in Seq(Frame) /\ Tail(Tail(stack)) \in Seq(Frame)
  BY <1>1, BusyBelow, HeadTailProperties
<1>4. PICK s : s = stack' OBVIOUS
<1>5. NoBusy(s) /\ s \in Seq(Frame) BY <1>2, <1>3, <1>4
<1>6. NoBusy(stack)' BY <1>4, <1>5 DEF NoBusy, Busy, Elements
<1>7. Elements(s) \subseteq Elements(stack)
  <2>1. /\ Elements(stack) = {Top} \cup Elements(Tail(stack))
        /\ Elements(Tail(stack)) = {Head(Tail(stack))} \cup Elements(Tail(Tail(stack)))
    BY <1>1, <1>3, StackMoves, ElementsPopped DEF Rest
  <2> QED BY <1>2, <1>4, <2>1
<1>8. \A k \in Elements(stack') : k.op = "run_parallel" => k.job \cap WithFinish = {}
  BY <1>4, <1>7 DEF PartsInv
<1>9. ~OnTop({"before"})' \/ error' BY <1>2 DEF OnTop, Top
<1> QED BY <1>4, <1>5, <1>6, <1>8, <1>9, PartsNone

(* A call that touches no heap with work goes on, or waits.                *)
LEMMA QuietParts ==
    ASSUME HeapInv, HeapInv', StillInv, PartsInv, ~quit,
           PickHeap \/ WaitToRun \/ WaitToFinish \/ WaitForNative
    PROVE  PartsInv'
<1>1. stack # <<>> /\ Top.op # "run_parallel"
      /\ UNCHANGED <<active, finished, running, work>>
  BY DEF PickHeap, WaitToRun, WaitToFinish, WaitForNative, In, Sleep, lists, coreVars
<1>t. PICK t : t = Top OBVIOUS
<1>2. t \in Frame BY <1>1, <1>t, AtHand
<1>3. Working' = Working BY <1>1 DEF Working, Ready, Done, Runs
<1>4. ~NoBusy(stack) => \A h \in Working' : work'[h] \cap WithFinish = {}
  BY <1>1, <1>3 DEF PartsInv
<1>5. ASSUME NEW f \in Frame, f.op = t.op, f.job = t.job, stack' = <<f>> \o Tail(stack)
      PROVE  PartsInv'
  BY <1>1, <1>t, <1>4, <1>5, PartsGoOn
<1>6. CASE PickHeap
  <2>1. PICK h : h = Head(inactive) OBVIOUS
  <2>2. h \in Heap BY <1>6, <2>1, ApartNow, Popped DEF PickHeap, AllApart, Apart
  <2>3. PICK f : f = [t EXCEPT !.phase = "clone", !.heap = h] OBVIOUS
  <2>4. f \in Frame /\ f.op = t.op /\ f.job = t.job BY <1>2, <2>2, <2>3 DEF Frame, Phases
  <2>5. stack' = <<f>> \o Tail(stack) BY <1>6, <1>t, <2>1, <2>3 DEF PickHeap, Become
  <2> QED BY <1>5, <2>4, <2>5
<1>7. ASSUME NEW p \in {"loop", "wait"}, stack' = <<[Top EXCEPT !.phase = p]>> \o Tail(stack)
      PROVE  PartsInv'
  <2>1. PICK f : f = [t EXCEPT !.phase = p] OBVIOUS
  <2>2. f \in Frame /\ f.op = t.op /\ f.job = t.job BY <1>2, <2>1 DEF Frame, Phases
  <2>3. stack' = <<f>> \o Tail(stack) BY <1>7, <1>t, <2>1
  <2> QED BY <1>5, <2>2, <2>3
<1>8. CASE WaitToRun BY <1>7, <1>8 DEF WaitToRun, Sleep, Become
<1>9. CASE WaitToFinish BY <1>7, <1>9 DEF WaitToFinish, Sleep, Become
<1>10. CASE WaitForNative
  <2>1. stack' = <<t>> \o Tail(stack) BY <1>10, <1>t DEF WaitForNative, Sleep, Become
  <2> QED BY <1>2, <1>5, <2>1
<1> QED BY <1>6, <1>8, <1>9, <1>10

(* A call returns; finish_all does when all heaps are inactive.            *)
LEMMA ReturnsParts ==
    ASSUME HeapInv, HeapInv', StillInv, PartsInv, ~quit,
           \/ CloneFails \/ CheckFinishedReturns \/ NativeReturns
           \/ FinishAllReturns \/ ParallelReturns
    PROVE  PartsInv'
<1>1. stack # <<>> /\ stack' = Tail(stack) /\ UNCHANGED <<active, finished, running, work>>
  BY DEF CloneFails, CheckFinishedReturns, NativeReturns, FinishAllReturns, ParallelReturns,
         In, Return, lists, coreVars
<1>2. Working' = Working BY <1>1 DEF Working, Ready, Done, Runs
<1>3. ~NoBusy(stack) => \A h \in Working' : work'[h] \cap WithFinish = {}
  BY <1>1, <1>2 DEF PartsInv
<1>4. OnTop({"before"})' => Working' = {}
  <2> SUFFICES ASSUME OnTop({"before"})' PROVE Working' = {} OBVIOUS
  <2>1. /\ Tail(stack) # <<>> /\ Head(Tail(stack)).op = "run_parallel"
        /\ Head(Tail(stack)).phase = "before"
    BY <1>1 DEF OnTop, Top
  <2>2. Top.op = "finish_all" BY <1>1, <2>1, UnderTop
  <2>3. AllInactive
    BY <2>2 DEF CloneFails, CheckFinishedReturns, NativeReturns, FinishAllReturns, ParallelReturns, In
  <2>4. Idle = Heap /\ AllApart BY <2>3, AllAreIdle, ApartNow
  <2>5. Working = {} BY <2>4 DEF Working, AllApart, Apart, Idle, Ready, Done, Runs
  <2> QED BY <1>2, <2>5
<1> QED BY <1>1, <1>3, <1>4, PartsReturn

(* A part is given to a heap, or another job when no run_parallel is busy. *)
LEMMA StartJobParts ==
    ASSUME HeapInv, HeapInv', StillInv, PartsInv, ~quit, StartJob
    PROVE  PartsInv'
<1>h. PICK h, J : h = Top.heap /\ J = Top.job OBVIOUS
<1>1. /\ stack # <<>> /\ Top.op = "run" /\ stack' = Tail(stack) /\ ~quit'
      /\ active' = <<h>> \o active /\ work' = [work EXCEPT ![h] = J]
      /\ UNCHANGED <<finished, running>>
  BY <1>h DEF StartJob, In, Return, coreVars
<1>2. h \in Heap
  <2>1. Top.heap # NoHeap /\ Top \in Frame BY <1>1, AtHand DEF StartJob, In
  <2> QED BY <1>h, <2>1 DEF Frame
<1>3. AllApart BY ApartNow
<1>4. Working' = {h} \cup Working /\ Working \subseteq Heap
  BY <1>1, <1>2, <1>3, ElementsPushed DEF AllApart, Apart, Working, Ready, Runs, Done
<1>5. work'[h] = J /\ \A g \in Heap : g # h => work'[g] = work[g]
  BY <1>1, <1>2 DEF StillInv
<1>6. ~NoBusy(stack) => \A g \in Working' : work'[g] \cap WithFinish = {}
  BY <1>h, <1>1, <1>4, <1>5 DEF PartsInv
<1>7. ~OnTop({"before"})'
  <2> SUFFICES ASSUME OnTop({"before"})' PROVE FALSE OBVIOUS
  <2>1. /\ Tail(stack) # <<>> /\ Head(Tail(stack)).op = "run_parallel"
        /\ Head(Tail(stack)).phase = "before"
    BY <1>1 DEF OnTop, Top
  <2> QED BY <1>1, <2>1, UnderTop
<1> QED BY <1>1, <1>6, <1>7, PartsReturn

(* A native function is no job.                                            *)
LEMMA NativeStartsParts ==
    ASSUME HeapInv, HeapInv', StillInv, PartsInv, ~quit, NativeStarts
    PROVE  PartsInv'
<1>1. stack # <<>> /\ Top.op = "native" /\ Top.phase = "before" BY DEF NativeStarts, In
<1>t. PICK t : t = Top OBVIOUS
<1>f. PICK f : f = [t EXCEPT !.phase = "wait"] OBVIOUS
<1>n. PICK n : n = num_cores OBVIOUS
<1>2. /\ stack' = <<f>> \o Tail(stack)
      /\ work' = [h \in Heap |-> IF \E i \in 1..n : inactive[i] = h THEN {Native} ELSE work[h]]
  BY <1>t, <1>f, <1>n DEF NativeStarts, Become
<1>3. f \in Frame /\ f.op = t.op /\ f.job = t.job
  <2>1. t \in Frame BY <1>1, <1>t, AtHand
  <2> QED BY <1>f, <2>1, PhaseSet DEF Phases
<1>4. /\ Runs' = Runs /\ Done' = Done
      /\ \A h \in Ready' : h \in Ready \/ \E i \in 1 .. n : inactive[i] = h
      /\ \A i \in 1 .. n : inactive[i] \in Idle
  BY <1>n, NativeReadies
<1>5. AllApart BY ApartNow
<1>6. ASSUME ~NoBusy(stack), NEW h \in Working' PROVE work'[h] \cap WithFinish = {}
  <2>1. (\E i \in 1 .. n : inactive[i] = h) \/ h \in Working BY <1>4, <1>6 DEF Working
  <2>2. h \in Heap
    BY <1>4, <1>5, <2>1 DEF AllApart, Apart, Working, Idle, Ready, Runs, Done
  <2>3. CASE \E i \in 1 .. n : inactive[i] = h
    <3>1. work'[h] = {Native} BY <1>2, <2>2, <2>3
    <3> QED BY <3>1, ComputeAssumption
  <2>4. CASE ~\E i \in 1 .. n : inactive[i] = h
    <3>1. work'[h] = work[h] /\ h \in Working BY <1>2, <2>1, <2>2, <2>4
    <3> QED BY <1>6, <3>1 DEF PartsInv
  <2> QED BY <2>3, <2>4
<1>7. Top.op # "run_parallel" BY <1>1
<1> QED BY <1>1, <1>t, <1>2, <1>3, <1>6, <1>7, PartsGoOn

(* run_parallel goes on as g, and may call f.                              *)
LEMMA ParallelParts ==
    ASSUME HeapInv, PartsInv, ~quit, stack # <<>>, Top.op = "run_parallel",
           NEW f \in Frame, NEW g \in Frame, f.op \in {"run", "finish_all"},
           g.op = "run_parallel", g.job \cap WithFinish = {}, f.job \cap WithFinish = {},
           CallFrom(g, f) \/ (Become(g) /\ g.phase # "before"), Busy(Top) \/ Working = {},
           UNCHANGED <<active, finished, running, work>>
    PROVE  PartsInv'
<1>1. NoBusy(Tail(stack)) /\ Tail(stack) \in Seq(Frame) BY BusyBelow
<1>2. Working' = Working BY DEF Working, Ready, Done, Runs
<1>3. \A h \in Working' : work'[h] \cap WithFinish = {}
  <2>1. Busy(Top) => ~NoBusy(stack) BY StackMoves DEF NoBusy
  <2> QED BY <1>2, <2>1 DEF PartsInv
<1>4. PICK r : r = Tail(stack) OBVIOUS
<1>5. PICK q : q = <<g>> \o r OBVIOUS
<1>6. r \in Seq(Frame) /\ q \in Seq(Frame) /\ Tail(q) = r BY <1>1, <1>4, <1>5, Pushed
<1>7. CASE Become(g) /\ g.phase # "before"
  <2>1. stack' = <<g>> \o Tail(stack) BY <1>7 DEF Become
  <2>2. Elements(stack) = {Top} \cup Rest /\ Elements(stack') = {g} \cup Rest /\ Head(stack') = g
    BY <2>1, StackMoves
  <2>3. Shallow(q)
    <3>1. CASE r = <<>> BY <1>6, <3>1 DEF Shallow
    <3>2. CASE r # <<>>
      <4>1. NoBusy(Tail(r)) BY <1>1, <1>4, <1>6, <3>2, BusyPopped
      <4> QED BY <1>6, <4>1 DEF Shallow
    <3> QED BY <3>1, <3>2
  <2>4. stack' = q BY <1>4, <1>5, <2>1
  <2>5. Shallow(stack)' BY <2>3, <2>4 DEF Shallow, NoBusy, Busy, Elements
  <2>6. Top'.op = "run_parallel" /\ ~OnTop({"before"})' BY <1>7, <2>2 DEF OnTop, Top
  <2>7. \A k \in Elements(stack') : k.op = "run_parallel" => k.job \cap WithFinish = {}
    BY <2>2 DEF PartsInv
  <2> QED BY <1>3, <2>5, <2>6, <2>7 DEF PartsInv
<1>8. CASE CallFrom(g, f)
  <2>1. stack' = <<f, g>> \o Tail(stack) BY <1>8 DEF CallFrom
  <2>2. Elements(stack) = {Top} \cup Rest /\ Elements(stack') = {f, g} \cup Rest /\ Head(stack') = f
    BY <2>1, StackMoves
  <2>3. PICK s : s = <<f>> \o q OBVIOUS
  <2>4. stack' = s
    <3>1. <<f, g>> \o r = <<f>> \o (<<g>> \o r) BY <1>6, TwoPushed
    <3> QED BY <1>4, <1>5, <2>1, <2>3, <3>1
  <2>5. Tail(s) = q BY <1>6, <2>3, Pushed
  <2>6. Shallow(s) BY <1>1, <1>4, <1>6, <2>5 DEF Shallow
  <2>7. Shallow(stack)' BY <2>4, <2>6 DEF Shallow, NoBusy, Busy, Elements
  <2>8. Top' = f /\ ~OnTop({"before"})' BY <2>2 DEF OnTop, Top
  <2>9. \A k \in Elements(stack') : k.op = "run_parallel" => k.job \cap WithFinish = {}
    BY <2>2 DEF PartsInv
  <2> QED BY <1>3, <2>7, <2>8, <2>9 DEF PartsInv
<1> QED BY <1>7, <1>8

LEMMA RunParallelParts ==
    ASSUME HeapInv, HeapInv', StillInv, PartsInv, ~quit, ParallelStarts \/ RunPart \/ PartsGiven
    PROVE  PartsInv'
<1>1. /\ stack # <<>> /\ Top.op = "run_parallel" /\ UNCHANGED <<active, finished, running, work>>
      /\ Top.phase = IF ParallelStarts THEN "before" ELSE "parts"
  BY DEF ParallelStarts, RunPart, PartsGiven, In, lists, coreVars
<1>t. PICK t : t = Top OBVIOUS
<1>2. t \in Frame /\ t.op = "run_parallel" BY <1>1, <1>t, AtHand
<1>3. t.job \cap WithFinish = {} BY <1>1, <1>t, StackMoves DEF PartsInv
<1>4. Busy(Top) \/ Working = {}
  <2>1. CASE ParallelStarts BY <1>1, <2>1 DEF ParallelStarts, In, PartsInv, OnTop
  <2>2. CASE ~ParallelStarts BY <1>1, <2>2 DEF Busy
  <2> QED BY <2>1, <2>2
<1>5. CASE ParallelStarts
  <2>1. PICK g : g = [t EXCEPT !.phase = "parts"] OBVIOUS
  <2>2. g \in Frame /\ g.op = t.op /\ g.job = t.job /\ g.phase = "parts"
    BY <1>2, <2>1, PhaseSet DEF Phases
  <2>3. Become(g) BY <1>5, <1>t, <2>1 DEF ParallelStarts
  <2>4. PICK f : f = FinishAll OBVIOUS
  <2>5. f \in Frame /\ f.op = "finish_all" /\ f.job = {} BY <2>4, FinishAllCall
  <2> QED BY <1>1, <1>2, <1>3, <1>4, <2>2, <2>3, <2>5, ParallelParts
<1>6. CASE RunPart
  <2>1. PICK j \in t.job : CallFrom([t EXCEPT !.job = @ \ {j}], [NewFrame("run", "loop") EXCEPT !.job = {j}])
    BY <1>6, <1>t DEF RunPart
  <2>2. PICK J : J = t.job \ {j} OBVIOUS
  <2>3. PICK g : g = [t EXCEPT !.job = J] OBVIOUS
  <2>4. PICK f : f = [NewFrame("run", "loop") EXCEPT !.job = {j}] OBVIOUS
  <2>5. j \in Job /\ J \in SUBSET Job BY <1>2, <2>1, <2>2 DEF Frame
  <2>6. g \in Frame /\ g.op = t.op /\ g.job = J BY <1>2, <2>3, <2>5, JobSet
  <2>7. f \in Frame /\ f.op = "run" /\ f.job = {j}
    BY <2>4, <2>5 DEF Frame, NewFrame, Ops, Functions, Phases
  <2>8. CallFrom(g, f) BY <2>1, <2>2, <2>3, <2>4, Zenon
  <2>9. g.job \cap WithFinish = {} /\ f.job \cap WithFinish = {} BY <1>3, <2>2, <2>6, <2>7
  <2> QED BY <1>1, <1>2, <1>4, <2>6, <2>7, <2>8, <2>9, ParallelParts
<1>7. CASE PartsGiven
  <2>1. PICK p : p = IF error THEN "failed" ELSE "after" OBVIOUS
  <2>2. PICK g : g = [t EXCEPT !.phase = p, !.job = {}] OBVIOUS
  <2>3. g \in Frame /\ g.op = t.op /\ g.job = {}
    <3>1. p \in Phases BY <2>1 DEF Phases
    <3> QED BY <1>2, <2>2, <3>1 DEF Frame
  <2>4. PICK f : f = FinishAll OBVIOUS
  <2>5. f \in Frame /\ f.op = "finish_all" /\ f.job = {} BY <2>4, FinishAllCall
  <2>6. CallFrom(g, f) BY <1>7, <1>t, <2>1, <2>2, <2>4, Zenon DEF PartsGiven
  <2>7. g.job \cap WithFinish = {} /\ f.job \cap WithFinish = {} BY <2>3, <2>5
  <2> QED BY <1>1, <1>2, <1>4, <2>3, <2>5, <2>6, <2>7, ParallelParts
<1> QED BY <1>5, <1>6, <1>7

(* The cores add no work.                                                  *)
LEMMA CoreParts ==
    ASSUME HeapInv, HeapInv', StillInv, PartsInv, ~quit, NEW c \in Core, TakeHeap(c) \/ WaitForWork(c)
    PROVE  PartsInv'
<1>h. PICK h : h = running[c] OBVIOUS
<1>1. /\ work' = (IF RanNative(c) THEN [work EXCEPT ![h] = {}] ELSE work)
      /\ UNCHANGED <<stack, error>>
  BY <1>h DEF TakeHeap, WaitForWork, GiveBack
<1>2. Working' \subseteq Working
  <2>1. /\ Ran(c) => h \in Runs
        /\ Done' = Done \cup (IF Ran(c) /\ ~RanNative(c) THEN {h} ELSE {})
        /\ Ready' \cup Runs' = (Ready \cup Runs) \ {h}
    BY <1>h, CoreMoves
  <2> QED BY <2>1 DEF Working
<1>3. Working \subseteq Heap BY ApartNow DEF AllApart, Apart, Working, Ready, Runs, Done
<1>4. \A g \in Heap : work'[g] = work[g] \/ work'[g] = {}
  BY <1>1 DEF StillInv
<1>5. ~NoBusy(stack) => \A g \in Working' : work'[g] \cap WithFinish = {}
  BY <1>2, <1>3, <1>4, PlainCleared
<1> QED BY <1>1, <1>2, <1>5 DEF PartsInv, Shallow, NoBusy, OnTop, Top

(* The script makes calls when no run_parallel is busy.                    *)
LEMMA CallParts ==
    ASSUME HeapInv, PartsInv, ~quit, NEW op, NEW f \in Frame, NEW g \in Frame,
           NEW frames, ScriptCalls(op, frames), frames = <<f>> \/ frames = <<f, g>>,
           f.op # "run_parallel", ~Busy(g), g.job \cap WithFinish = {}
    PROVE  PartsInv'
<1>0. frames \in Seq(Frame)
  <2>1. <<>> \in Seq(Frame) OBVIOUS
  <2> QED BY <2>1, ElementsOfCalls
<1>1. PICK q \in Seq(Frame) :
          /\ stack' = frames \o q
          /\ \/ q = stack
             \/ \E b \in Frame : /\ stack # <<>> /\ Top.op = "callback" /\ Top.phase = "script"
                                 /\ b.op = Top.op /\ b.phase = Top.phase
                                 /\ b.job = Top.job /\ b.heap = Top.heap
                                 /\ q = <<b>> \o Tail(stack)
  BY <1>0, BelowCalls
<1>2. /\ frames \o q # <<>> /\ Head(frames \o q) = f
      /\ Elements(frames \o q) \subseteq {f, g} \cup Elements(q)
  BY ElementsOfCalls
<1>3. NoBusy(stack)
  <2>1. CASE stack = <<>> BY <2>1, ElementsOfFew DEF NoBusy
  <2>2. CASE stack # <<>>
    <3>1. Top.op = "callback" BY <2>2 DEF ScriptCalls, In
    <3>2. NoBusy(Tail(stack)) BY <2>2, <3>1, BusyBelow
    <3> QED BY <2>2, <3>1, <3>2, StackMoves DEF NoBusy, Busy, Rest
  <2> QED BY <2>1, <2>2
<1>4. \A k \in Elements(q) : k.op = "run_parallel" => k \in Elements(stack)
  <2>1. CASE q = stack BY <2>1
  <2>2. CASE q # stack
    <3>1. PICK b \in Frame : /\ stack # <<>> /\ Top.op = "callback" /\ b.op = Top.op
                             /\ q = <<b>> \o Tail(stack)
      BY <1>1, <2>2
    <3>2. PICK r : r = Tail(stack) OBVIOUS
    <3>3. r \in Seq(Frame) BY <3>1, <3>2, AtHand, HeadTailProperties
    <3>4. Elements(q) = {b} \cup Elements(r) BY <3>1, <3>2, <3>3, ElementsPushed
    <3>5. Elements(stack) = {Top} \cup Elements(r) BY <3>1, <3>2, StackMoves DEF Rest
    <3> QED BY <3>1, <3>4, <3>5
  <2> QED BY <2>1, <2>2
<1>5. NoBusy(stack)' BY <1>1, <1>2, <1>3, <1>4 DEF NoBusy, Busy
<1>6. \A k \in Elements(stack') : k.op = "run_parallel" => k.job \cap WithFinish = {}
  BY <1>1, <1>2, <1>4 DEF PartsInv
<1>7. ~OnTop({"before"})' BY <1>1, <1>2 DEF OnTop, Top
<1>8. stack' \in Seq(Frame) BY <1>0, <1>1, ConcatProperties
<1> QED BY <1>5, <1>6, <1>7, <1>8, PartsNone

LEMMA ScriptStepParts ==
    ASSUME HeapInv, FreshInv, PartsInv, ~quit, ScriptStep PROVE PartsInv'
<1>f. PICK f : f = FinishAll OBVIOUS
<1>1. f \in Frame /\ f.op # "run_parallel" /\ ~Busy(f) /\ f.job \cap WithFinish = {}
  BY <1>f, FinishAllCall DEF Busy
<1>2. ASSUME NEW op, NEW g \in Frame, g.op # "run_parallel", ScriptCalls(op, <<g>>) PROVE PartsInv'
  BY <1>1, <1>2, CallParts
<1>3. CASE CallRun
  <2>1. PICK j \in fresh : ScriptCalls("run", <<[NewFrame("run", "loop") EXCEPT !.job = {j}]>>)
    BY <1>3 DEF CallRun
  <2>2. PICK g : g = [NewFrame("run", "loop") EXCEPT !.job = {j}] OBVIOUS
  <2>3. g \in Frame /\ g.op = "run"
    BY <2>1, <2>2 DEF FreshInv, Frame, NewFrame, Ops, Functions, Phases
  <2>4. ScriptCalls("run", <<g>>) BY <2>1, <2>2
  <2>5. g.op # "run_parallel" BY <2>3
  <2> QED BY <1>2, <2>3, <2>4, <2>5
<1>4. CASE CallCheckFinished
  <2>1. PICK g : g = NewFrame("check_finished", "finish") OBVIOUS
  <2>2. g \in Frame /\ g.op = "check_finished" BY <2>1 DEF Frame, NewFrame, Ops, Functions, Phases
  <2>3. ScriptCalls("check_finished", <<g>>) BY <1>4, <2>1 DEF CallCheckFinished
  <2>5. g.op # "run_parallel" BY <2>2
  <2> QED BY <1>2, <2>2, <2>3, <2>5
<1>5. CASE CallFinishAll
  <2>1. ScriptCalls("finish_all", <<f>>) BY <1>5, <1>f DEF CallFinishAll
  <2> QED BY <1>1, <1>2, <2>1
<1>6. CASE CallParallel
  <2>1. PICK parts \in SUBSET (fresh \ WithFinish) :
            ScriptCalls("run_parallel",
                <<FinishAll, [NewFrame("run_parallel", "before") EXCEPT !.job = parts]>>)
    BY <1>6 DEF CallParallel
  <2>2. PICK g : g = [NewFrame("run_parallel", "before") EXCEPT !.job = parts] OBVIOUS
  <2>3. g \in Frame /\ g.phase = "before" /\ g.job = parts
    BY <2>1, <2>2 DEF FreshInv, Frame, NewFrame, Ops, Functions, Phases
  <2>4. ScriptCalls("run_parallel", <<f, g>>) BY <1>f, <2>1, <2>2
  <2>5. ~Busy(g) /\ g.job \cap WithFinish = {} BY <2>3 DEF Busy
  <2> QED BY <1>1, <2>3, <2>4, <2>5, CallParts
<1>7. CASE CallNative
  <2>1. PICK g : g = NewFrame("native", "before") OBVIOUS
  <2>2. g \in Frame /\ g.op = "native" /\ g.job = {} BY <2>1 DEF Frame, NewFrame, Ops, Functions, Phases
  <2>3. ScriptCalls("native", <<f, g>>) BY <1>7, <1>f, <2>1 DEF CallNative
  <2>4. ~Busy(g) /\ g.job \cap WithFinish = {} BY <2>2 DEF Busy
  <2> QED BY <1>1, <2>2, <2>3, <2>4, CallParts
<1> QED BY <1>3, <1>4, <1>5, <1>6, <1>7 DEF ScriptStep

LEMMA PartsStep ==
    HeapInv /\ HeapInv' /\ FreshInv /\ StillInv /\ PartsInv /\ [Next]_vars => PartsInv'
<1> SUFFICES ASSUME HeapInv, HeapInv', FreshInv, StillInv, PartsInv, [Next]_vars PROVE PartsInv' OBVIOUS
<1>1. CASE quit'
  BY <1>1 DEF PartsInv
<1>2. CASE ~quit' /\ UNCHANGED <<active, finished, running, work, stack, error, quit>>
  BY <1>2 DEF PartsInv, Shallow, NoBusy, OnTop, Top, Working, Ready, Done, Runs
<1>3. CASE UNCHANGED vars \/ WakeSpuriously
  BY <1>1, <1>2, <1>3 DEF vars, coreVars, lists, WakeSpuriously
<1>4. CASE EndScript BY <1>1, <1>4 DEF EndScript
<1>5. CASE \E c \in Core : CoreStep(c)
  <2>1. PICK c \in Core : CoreStep(c) BY <1>5
  <2>2. CASE Leave(c) BY <1>1, <2>2 DEF Leave
  <2>3. CASE TakeHeap(c) \/ WaitForWork(c)
    <3>1. ~quit BY <2>3 DEF TakeHeap, WaitForWork
    <3> QED BY <2>3, <3>1, CoreParts
  <2> QED BY <2>1, <2>2, <2>3 DEF CoreStep
<1>6. CASE ScriptStep
  <2>1. ~quit BY <1>6 DEF ScriptStep, CallRun, CallParallel, CallCheckFinished, CallFinishAll,
                          CallNative, ScriptCalls
  <2> QED BY <1>6, <2>1, ScriptStepParts
<1>7. CASE MainStep
  <2>1. stack # <<>> BY <1>7, MainStepHasCall
  <2>2. ~quit BY <2>1 DEF StillInv
  <2>3. CASE FinishFailed \/ FinishPlain BY <2>2, <2>3, FinishParts
  <2>4. CASE FinishCallback BY <2>2, <2>4, CallbackParts
  <2>5. CASE CallbackReturns BY <2>2, <2>5, CallbackReturnsParts
  <2>6. CASE PickHeap \/ WaitToRun \/ WaitToFinish \/ WaitForNative BY <2>2, <2>6, QuietParts
  <2>7. CASE \/ CloneFails \/ CheckFinishedReturns \/ NativeReturns
             \/ FinishAllReturns \/ ParallelReturns
    BY <2>2, <2>7, ReturnsParts
  <2>8. CASE StartJob BY <2>2, <2>8, StartJobParts
  <2>9. CASE NativeStarts BY <2>2, <2>9, NativeStartsParts
  <2>10. CASE ParallelStarts \/ RunPart \/ PartsGiven BY <2>2, <2>10, RunParallelParts
  <2> QED BY <1>7, <2>3, <2>4, <2>5, <2>6, <2>7, <2>8, <2>9, <2>10 DEF MainStep
<1> QED BY <1>3, <1>4, <1>5, <1>6, <1>7 DEF Next

(* Who reads the heap of the script does so for a run_parallel that is     *)
(* busy; so it is not the script that runs, and what is copied is a part.  *)
LEMMA PartsOnly ==
    ASSUME HeapInv, HeapInv', StillInv, PartsInv, NoErrorYet, Reads
    PROVE  ~ScriptRuns /\ (CopiesIn => Called("run_parallel"))
<1>1. ParallelCall({"parts", "after", "failed"})
  <2>1. reading # {} BY DEF Reads
  <2> QED BY <2>1 DEF StillInv, Modes
<1>2. ~NoBusy(stack) /\ stack # <<>>
  <2>1. ~NoBusy(stack) BY <1>1 DEF ParallelCall, NoBusy, Busy
  <2> QED BY <2>1, ElementsOfFew DEF NoBusy
<1>3. ~quit BY <1>2 DEF StillInv
<1>4. Top.op # "callback"
  <2>1. SUFFICES ASSUME Top.op = "callback" PROVE FALSE OBVIOUS
  <2>2. NoBusy(Tail(stack)) BY <1>2, <1>3, <2>1, BusyBelow
  <2> QED BY <1>2, <1>3, <2>1, <2>2, StackMoves DEF NoBusy, Busy, Rest
<1>5. ASSUME CopiesIn PROVE Called("run_parallel")
  <2>1. ~FinishCallback BY <1>2, <1>3, CallbackParts
  <2>2. Top.op # "run_parallel"
    BY <1>3, <1>5, <2>1, FinishingCalls DEF CopiesIn, FinishFailed, FinishPlain, CloneFails, In
  <2>3. ~NoBusy(Tail(stack)) BY <1>2, <1>3, <2>2, StackMoves DEF NoBusy, Busy, Rest
  <2>4. Tail(stack) # <<>> /\ Head(Tail(stack)).op = "run_parallel" BY <1>2, <1>3, <2>3, BusyBelow
  <2>5. PICK r : r = Tail(stack) OBVIOUS
  <2>6. stack \in Seq(Frame) /\ r \in Seq(Frame) BY <1>2, <1>3, <2>5, BusyBelow
  <2>7. /\ Len(r) = Len(stack) - 1 /\ Len(stack) \in Nat
        /\ \A j \in 1 .. Len(stack) - 1 : r[j] = stack[j + 1]
    BY <1>2, <2>5, <2>6, Popped, LenProperties
  <2>8. Head(r) = r[1] /\ Len(r) >= 1 BY <2>4, <2>5, <2>6, Popped
  <2>9. Len(stack) > 1 /\ stack[2] = Head(r) BY <2>7, <2>8
  <2> QED BY <2>4, <2>5, <2>9 DEF Called
<1> QED BY <1>2, <1>4, <1>5 DEF ScriptRuns

(* Up to the first error, while a core reads the heap of the script, no    *)
(* script code runs, and only the results of the parts of the run_parallel *)
(* it works for are copied into that heap.                                 *)
THEOREM OnlyPartsWrite == Spec => OnlyPartsDisturb
<1>1. Init => HeapInv /\ FreshInv /\ StillInv /\ PartsInv
  BY InitHeaps, StillInit, PartsInit DEF Init, FreshInv
<1>2. HeapInv /\ FreshInv /\ StillInv /\ PartsInv /\ [Next]_vars
         => HeapInv' /\ FreshInv' /\ StillInv' /\ PartsInv'
  BY HeapStep, FreshStep, StillStep, PartsStep
<1>3. HeapInv /\ HeapInv' /\ StillInv /\ PartsInv
         => (NoErrorYet /\ Reads => ~ScriptRuns /\ (CopiesIn => Called("run_parallel")))
  BY PartsOnly
<1> QED BY <1>1, <1>2, <1>3, PTL DEF Spec, OnlyPartsDisturb

-----------------------------------------------------------------------------
(* Where each job is                                                       *)

(* The jobs the calls still have to run, and that no two calls have one.   *)
Given(s) == UNION {f.job : f \in Elements(s)}
Alone(s) == \A i, k \in DOMAIN s : s[i].job \cap s[k].job # {} => i = k

(* The jobs on the heaps with work, and that no two heaps have one.        *)
Carried == Job \cap UNION {work[h] : h \in Working}
CarriedOnce == \A h, g \in Working : Job \cap work[h] \cap work[g] # {} => h = g

(* An inactive heap has no work, nor has one that a job is being copied to.*)
NoWork ==
    /\ \A h \in Idle : work[h] = {}
    /\ \A f \in Elements(stack) : f.phase = "clone" => work[f.heap] = {}

Counted ==
    /\ Alone(stack) /\ CarriedOnce
    /\ fresh \cap Given(stack) = {} /\ fresh \cap Carried = {} /\ Given(stack) \cap Carried = {}
    /\ \A j \in Job : reported[j] = IF j \in fresh \cup Given(stack) \cup Carried THEN 0 ELSE 1

JobInv == ~quit => NoWork /\ (NoErrorYet => Counted)

(* At the start every job is fresh.                                        *)
LEMMA JobInit == Init => JobInv
<1> SUFFICES ASSUME Init PROVE NoWork /\ Counted BY DEF JobInv
<1>1. Elements(stack) = {} /\ Ready = {} /\ Done = {} BY ElementsOfFew DEF Init, Ready, Done
<1>2. Runs = {} BY DEF Init, Runs, Running
<1>3. Given(stack) = {} /\ Carried = {} BY <1>1, <1>2 DEF Given, Carried, Working
<1>4. Alone(stack) /\ CarriedOnce BY <1>1, <1>2 DEF Init, Alone, CarriedOnce, Working
<1>5. Idle \subseteq Heap BY DEF Init, Idle, Elements
<1>6. NoWork BY <1>1, <1>5 DEF Init, NoWork
<1> QED BY <1>3, <1>4, <1>6 DEF Init, Counted

(* The jobs of one more call.                                              *)
LEMMA GivenPushed ==
    ASSUME NEW s \in Seq(Frame), NEW e \in Frame
    PROVE  /\ Given(<<e>> \o s) = e.job \cup Given(s)
           /\ Alone(<<e>> \o s) <=> Alone(s) /\ e.job \cap Given(s) = {}
<1>1. PICK r : r = <<e>> \o s OBVIOUS
<1>2. /\ DOMAIN r = 1 .. Len(s) + 1 /\ DOMAIN s = 1 .. Len(s) /\ Len(s) \in Nat
      /\ \A j \in 1 .. Len(s) + 1 : r[j] = IF j = 1 THEN e ELSE s[j - 1]
  BY <1>1, Pushed, LenProperties
<1>3. Elements(r) = {e} \cup Elements(s) BY <1>1, ElementsPushed
<1>4. Given(r) = e.job \cup Given(s) BY <1>3 DEF Given
<1>5. ASSUME Alone(r) PROVE Alone(s) /\ e.job \cap Given(s) = {}
  <2>1. \A i \in DOMAIN s : i + 1 \in DOMAIN r /\ r[i + 1] = s[i] /\ i + 1 # 1 BY <1>2
  <2>2. 1 \in DOMAIN r /\ r[1] = e BY <1>2
  <2>3. ASSUME NEW i \in DOMAIN s, NEW k \in DOMAIN s, s[i].job \cap s[k].job # {} PROVE i = k
    <3>1. r[i + 1].job \cap r[k + 1].job # {} BY <2>1, <2>3
    <3>2. i + 1 = k + 1 BY <1>5, <2>1, <3>1 DEF Alone
    <3> QED BY <1>2, <3>2
  <2>4. ASSUME NEW i \in DOMAIN s, e.job \cap s[i].job # {} PROVE FALSE
    <3>1. r[1].job \cap r[i + 1].job # {} BY <2>1, <2>2, <2>4
    <3>2. 1 = i + 1 BY <1>5, <2>1, <2>2, <3>1 DEF Alone
    <3> QED BY <2>1, <3>2
  <2> QED BY <2>3, <2>4 DEF Alone, Given, Elements
<1>6. ASSUME Alone(s), e.job \cap Given(s) = {} PROVE Alone(r)
  <2>1. \A i \in DOMAIN s : e.job \cap s[i].job = {} BY <1>6 DEF Given, Elements
  <2> SUFFICES ASSUME NEW i \in DOMAIN r, NEW k \in DOMAIN r, r[i].job \cap r[k].job # {} PROVE i = k
    BY DEF Alone
  <2>2. PICK m, n : m = i - 1 /\ n = k - 1 OBVIOUS
  <2>3. CASE i = 1 /\ k # 1
    <3>1. n \in DOMAIN s /\ r[k] = s[n] /\ r[i] = e BY <1>2, <2>2, <2>3
    <3> QED BY <2>1, <3>1
  <2>4. CASE i # 1 /\ k = 1
    <3>1. m \in DOMAIN s /\ r[i] = s[m] /\ r[k] = e BY <1>2, <2>2, <2>4
    <3> QED BY <2>1, <3>1
  <2>5. CASE i # 1 /\ k # 1
    <3>1. m \in DOMAIN s /\ r[i] = s[m] /\ n \in DOMAIN s /\ r[k] = s[n] BY <1>2, <2>2, <2>5
    <3>2. m = n BY <1>6, <3>1 DEF Alone
    <3> QED BY <1>2, <2>2, <3>2
  <2> QED BY <2>3, <2>4, <2>5
<1> QED BY <1>1, <1>4, <1>5, <1>6

(* The jobs in calls after a step of the main thread.                      *)
LEMMA StackJobs ==
    ASSUME HeapInv, ~quit, stack # <<>>, NEW r, r = Tail(stack)
    PROVE  /\ Given(stack) = Top.job \cup Given(r)
           /\ Alone(stack) <=> Alone(r) /\ Top.job \cap Given(r) = {}
           /\ \A f \in Frame : stack' = <<f>> \o r =>
                /\ Given(stack') = f.job \cup Given(r)
                /\ Alone(stack') <=> Alone(r) /\ f.job \cap Given(r) = {}
           /\ \A f \in Frame, g \in Frame : stack' = <<f, g>> \o r =>
                /\ Given(stack') = f.job \cup g.job \cup Given(r)
                /\ Alone(stack') <=> /\ Alone(r) /\ g.job \cap Given(r) = {}
                                     /\ f.job \cap (g.job \cup Given(r)) = {}
<1>1. stack \in Seq(Frame) /\ Top \in Frame BY AtHand
<1>2. PICK t : t = Top OBVIOUS
<1>3. r \in Seq(Frame) /\ t \in Frame BY <1>1, <1>2, HeadTailProperties
<1>4. stack = <<t>> \o r BY <1>1, <1>2 DEF Top
<1>5. \A f \in Frame : /\ Given(<<f>> \o r) = f.job \cup Given(r)
                       /\ Alone(<<f>> \o r) <=> Alone(r) /\ f.job \cap Given(r) = {}
  BY <1>3, GivenPushed
<1>6. ASSUME NEW f \in Frame, NEW g \in Frame
      PROVE  /\ Given(<<f, g>> \o r) = f.job \cup g.job \cup Given(r)
             /\ Alone(<<f, g>> \o r) <=> /\ Alone(r) /\ g.job \cap Given(r) = {}
                                         /\ f.job \cap (g.job \cup Given(r)) = {}
  <2>1. PICK q : q = <<g>> \o r OBVIOUS
  <2>2. /\ q \in Seq(Frame) /\ Given(q) = g.job \cup Given(r)
        /\ Alone(q) <=> Alone(r) /\ g.job \cap Given(r) = {}
    BY <1>3, <1>5, <2>1, Pushed
  <2>3. /\ Given(<<f>> \o q) = f.job \cup Given(q)
        /\ Alone(<<f>> \o q) <=> Alone(q) /\ f.job \cap Given(q) = {}
    BY <2>2, GivenPushed
  <2>4. <<f, g>> \o r = <<f>> \o q
    <3>1. <<f, g>> \o r = <<f>> \o (<<g>> \o r) BY <1>3, TwoPushed
    <3> QED BY <2>1, <3>1, Zenon
  <2> QED BY <2>2, <2>3, <2>4
<1>7. /\ Given(stack) = t.job \cup Given(r)
      /\ Alone(stack) <=> Alone(r) /\ t.job \cap Given(r) = {}
  BY <1>3, <1>4, <1>5
<1>8. ASSUME NEW f \in Frame, stack' = <<f>> \o r
      PROVE  /\ Given(stack') = f.job \cup Given(r)
             /\ Alone(stack') <=> Alone(r) /\ f.job \cap Given(r) = {}
  BY <1>5, <1>8, Zenon
<1>9. ASSUME NEW f \in Frame, NEW g \in Frame, stack' = <<f, g>> \o r
      PROVE  /\ Given(stack') = f.job \cup g.job \cup Given(r)
             /\ Alone(stack') <=> /\ Alone(r) /\ g.job \cap Given(r) = {}
                                  /\ f.job \cap (g.job \cup Given(r)) = {}
  BY <1>6, <1>9, Zenon
<1> QED BY <1>2, <1>7, <1>8, <1>9, Zenon

-----------------------------------------------------------------------------
(* What the steps have in common                                           *)

(* What keeps the inactive heaps without work.                             *)
LEMMA NoWorkKept ==
    ASSUME NoWork,
           \A h \in Idle' : work'[h] = {} \/ (h \in Idle /\ work'[h] = work[h]),
           \A f \in Elements(stack') : f.phase = "clone" =>
              work'[f.heap] = {} \/ (f \in Elements(stack) /\ work'[f.heap] = work[f.heap])
    PROVE  NoWork'
BY DEF NoWork

(* The heaps with work are the same, with the same jobs.                   *)
LEMMA CarriedKept ==
    ASSUME Working' = Working, \A h \in Working : Job \cap work'[h] = Job \cap work[h]
    PROVE  Carried' = Carried /\ (CarriedOnce => CarriedOnce')
<1>1. Carried' = Carried BY DEF Carried
<1>2. CarriedOnce => CarriedOnce' BY DEF CarriedOnce
<1> QED BY <1>1, <1>2

(* One of them loses its job.                                              *)
LEMMA CarriedLess ==
    ASSUME CarriedOnce, NEW h \in Working, Working' = Working \ {h},
           \A g \in Working' : work'[g] = work[g]
    PROVE  Carried' = Carried \ work[h] /\ CarriedOnce'
BY DEF Carried, CarriedOnce

(* The jobs of a step without an error.                                    *)
LEMMA ReportedOnce ==
    ASSUME Counted, NEW J, Report(J), Alone(stack'), CarriedOnce', fresh' = fresh,
           Given(stack') \subseteq Given(stack), Carried' \subseteq Carried,
           Job \cap J \subseteq Given(stack) \cup Carried,
           Given(stack') \cup Carried' = (Given(stack) \cup Carried) \ (Job \cap J)
    PROVE  Counted'
<1>1. \A j \in Job : reported'[j] = reported[j] + (IF j \in J THEN 1 ELSE 0)
  BY DEF Report
<1>2. \A j \in Job : reported'[j] = IF j \in fresh \cup Given(stack') \cup Carried' THEN 0 ELSE 1
  <2> TAKE j \in Job
  <2>1. reported[j] = IF j \in fresh \cup Given(stack) \cup Carried THEN 0 ELSE 1 BY DEF Counted
  <2>2. CASE j \in J
    <3>1. j \notin fresh /\ j \in Given(stack) \cup Carried BY <2>2 DEF Counted
    <3> QED BY <1>1, <2>1, <2>2, <3>1
  <2>3. CASE j \notin J BY <1>1, <2>1, <2>3
  <2> QED BY <2>2, <2>3
<1> QED BY <1>2 DEF Counted

(* A step that moves no heap and no job but from a call to one it makes.   *)
LEMMA QuietJobs ==
    ASSUME HeapInv, JobInv, ~quit, stack # <<>>, NEW r, r = Tail(stack), NEW f \in Frame, NEW g \in Frame,
           \/ stack' = r /\ Top.job = {}
           \/ stack' = <<f>> \o r /\ f.job = Top.job
           \/ stack' = <<f, g>> \o r /\ f.job \cup g.job = Top.job /\ f.job \cap g.job = {},
           f.phase # "clone", g.phase # "clone",
           UNCHANGED <<lists, running, work, fresh, reported, quit>>
    PROVE  JobInv'
<1>1. /\ Elements(stack) = {Top} \cup Elements(r)
      /\ Elements(stack') \subseteq {f, g} \cup Elements(r)
  BY StackMoves DEF Rest
<1>2. Idle' = Idle /\ Ready' = Ready /\ Runs' = Runs /\ Done' = Done
  BY DEF lists, Idle, Ready, Runs, Done
<1>3. NoWork' BY <1>1, <1>2, NoWorkKept DEF JobInv
<1>4. NoErrorYet' => NoErrorYet BY DEF NoErrorYet
<1>5. Given(stack') = Given(stack) /\ (Alone(stack) => Alone(stack'))
  <2>0. /\ Given(stack) = Top.job \cup Given(r)
        /\ Alone(stack) <=> Alone(r) /\ Top.job \cap Given(r) = {}
    BY StackJobs
  <2>1. CASE stack' = r /\ Top.job = {}
    <3>1. Given(stack') = Given(r) /\ (Alone(stack') <=> Alone(r)) BY <2>1, Zenon
    <3> QED BY <2>0, <2>1, <3>1
  <2>2. CASE stack' = <<f>> \o r /\ f.job = Top.job
    <3>1. /\ Given(stack') = f.job \cup Given(r)
          /\ Alone(stack') <=> Alone(r) /\ f.job \cap Given(r) = {}
      BY <2>2, StackJobs
    <3> QED BY <2>0, <2>2, <3>1
  <2>3. CASE stack' = <<f, g>> \o r /\ f.job \cup g.job = Top.job /\ f.job \cap g.job = {}
    <3>1. /\ Given(stack') = f.job \cup g.job \cup Given(r)
          /\ Alone(stack') <=> /\ Alone(r) /\ g.job \cap Given(r) = {}
                               /\ f.job \cap (g.job \cup Given(r)) = {}
      BY ZenonT(60), <2>3, StackJobs
    <3> QED BY <2>0, <2>3, <3>1
  <2> QED BY <2>1, <2>2, <2>3
<1>6. Carried' = Carried /\ (CarriedOnce => CarriedOnce')
  <2>1. Working' = Working BY <1>2 DEF Working
  <2> QED BY <2>1, CarriedKept
<1>7. Counted => Counted' BY <1>5, <1>6 DEF Counted
<1> QED BY <1>3, <1>4, <1>7 DEF JobInv

LEMMA QuietMainJobs ==
    ASSUME HeapInv, JobInv, ~quit, WaitToRun \/ WaitToFinish \/ WaitForNative \/ ParallelStarts
    PROVE  JobInv'
<1>1. stack # <<>> BY DEF WaitToRun, WaitToFinish, WaitForNative, ParallelStarts, In
<1>t. PICK t, r : t = Top /\ r = Tail(stack) OBVIOUS
<1>2. t \in Frame /\ Good(t) BY <1>1, <1>t, AtHand
<1>3. UNCHANGED <<lists, running, work, fresh, reported, quit>>
  BY DEF WaitToRun, WaitToFinish, WaitForNative, ParallelStarts, Sleep, coreVars
<1>4. ASSUME NEW p \in {"loop", "wait", "parts"}, stack' = <<[t EXCEPT !.phase = p]>> \o r
      PROVE  JobInv'
  <2>1. PICK f : f = [t EXCEPT !.phase = p] OBVIOUS
  <2>2. p \in Phases /\ p # "clone" BY DEF Phases
  <2>3. f \in Frame /\ f.phase = p /\ f.job = t.job BY <1>2, <2>1, <2>2 DEF Frame
  <2>4. stack' = <<f>> \o r /\ f.job = Top.job /\ f.phase # "clone" BY <1>t, <1>4, <2>1, <2>2, <2>3
  <2> QED BY <1>1, <1>t, <1>3, <2>3, <2>4, QuietJobs
<1>5. CASE WaitToRun BY <1>t, <1>4, <1>5 DEF WaitToRun, Sleep, Become
<1>6. CASE WaitToFinish BY <1>t, <1>4, <1>6 DEF WaitToFinish, Sleep, Become
<1>7. CASE ParallelStarts BY <1>t, <1>4, <1>7 DEF ParallelStarts, Become
<1>8. CASE WaitForNative
  <2>1. stack' = <<t>> \o r /\ t.job = Top.job BY <1>t, <1>8 DEF WaitForNative, Sleep, Become
  <2>2. t.phase # "clone" BY <1>t, <1>8 DEF WaitForNative, In
  <2> QED BY <1>1, <1>t, <1>2, <1>3, <2>1, <2>2, QuietJobs
<1> QED BY <1>5, <1>6, <1>7, <1>8

LEMMA QuietReturnJobs ==
    ASSUME HeapInv, JobInv, ~quit, CheckFinishedReturns \/ FinishAllReturns \/ NativeReturns
    PROVE  JobInv'
<1>1. stack # <<>> /\ Top.op \notin {"run", "run_parallel"}
  BY DEF CheckFinishedReturns, FinishAllReturns, NativeReturns, In
<1>2. UNCHANGED <<lists, running, work, fresh, reported, quit>>
  BY DEF CheckFinishedReturns, FinishAllReturns, NativeReturns, coreVars
<1>t. PICK t, r : t = Top /\ r = Tail(stack) OBVIOUS
<1>3. t \in Frame /\ Good(t) BY <1>1, <1>t, AtHand
<1>4. Top.job = {} BY <1>1, <1>t, <1>3 DEF Good
<1>5. stack' = r BY <1>t DEF CheckFinishedReturns, FinishAllReturns, NativeReturns, Return
<1>f. PICK f : f = FinishAll OBVIOUS
<1>6. f \in Frame /\ f.phase # "clone" BY <1>f, FinishAllCall
<1> QED BY <1>1, <1>2, <1>t, <1>4, <1>5, <1>6, QuietJobs

LEMMA RunPartJobs == HeapInv /\ JobInv /\ ~quit /\ RunPart => JobInv'
<1> SUFFICES ASSUME HeapInv, JobInv, ~quit, RunPart PROVE JobInv' OBVIOUS
<1>1. stack # <<>> /\ Top.op = "run_parallel" /\ Top.phase = "parts"
      /\ UNCHANGED <<lists, running, work, fresh, reported, quit>>
  BY DEF RunPart, In, coreVars
<1>t. PICK t, r : t = Top /\ r = Tail(stack) OBVIOUS
<1>2. PICK j \in t.job : CallFrom([t EXCEPT !.job = @ \ {j}], [NewFrame("run", "loop") EXCEPT !.job = {j}])
  BY <1>t DEF RunPart
<1>J. PICK J : J = t.job \ {j} OBVIOUS
<1>g. PICK g : g = [t EXCEPT !.job = J] OBVIOUS
<1>f. PICK f : f = [NewFrame("run", "loop") EXCEPT !.job = {j}] OBVIOUS
<1>3. t \in Frame BY <1>1, <1>t, AtHand
<1>4. j \in Job /\ J \in SUBSET Job BY <1>2, <1>3, <1>J DEF Frame
<1>5. g \in Frame /\ g.phase = t.phase /\ g.job = J BY <1>3, <1>4, <1>g, JobSet
<1>6. f \in Frame /\ f.phase = "loop" /\ f.job = {j}
  BY <1>4, <1>f DEF Frame, NewFrame, Ops, Functions, Phases
<1>7. CallFrom(g, f) BY <1>2, <1>J, <1>g, <1>f, Zenon
<1>8. stack' = <<f, g>> \o r BY <1>t, <1>7 DEF CallFrom
<1>9. f.job \cup g.job = Top.job /\ f.job \cap g.job = {} BY <1>t, <1>2, <1>J, <1>5, <1>6
<1>10. f.phase # "clone" /\ g.phase # "clone" BY <1>1, <1>t, <1>5, <1>6
<1> QED BY <1>1, <1>t, <1>5, <1>6, <1>8, <1>9, <1>10, QuietJobs

(* run_parallel gives back the jobs it did not give to run.                *)
LEMMA BackToFresh ==
    ASSUME HeapInv, JobInv, ~quit, stack # <<>>, NEW r, r = Tail(stack), NEW f \in Frame, NEW g \in Frame,
           stack' = r \/ stack' = <<f, g>> \o r, f.job = {}, g.job = {},
           f.phase # "clone", g.phase # "clone", fresh' = fresh \cup Top.job,
           UNCHANGED <<lists, running, work, reported, quit>>
    PROVE  JobInv'
<1>1. /\ Elements(stack) = {Top} \cup Elements(r)
      /\ Elements(stack') \subseteq {f, g} \cup Elements(r)
  BY StackMoves DEF Rest
<1>2. Idle' = Idle /\ Ready' = Ready /\ Runs' = Runs /\ Done' = Done
  BY DEF lists, Idle, Ready, Runs, Done
<1>3. NoWork' BY <1>1, <1>2, NoWorkKept DEF JobInv
<1>4. NoErrorYet' => NoErrorYet BY DEF NoErrorYet
<1>5. /\ Given(stack') = Given(r) /\ Given(stack) = Top.job \cup Given(r)
      /\ Alone(stack) => (Alone(stack') /\ Top.job \cap Given(r) = {})
  <2>0. /\ Given(stack) = Top.job \cup Given(r)
        /\ Alone(stack) <=> Alone(r) /\ Top.job \cap Given(r) = {}
    BY StackJobs
  <2>1. CASE stack' = r
    <3>1. Given(stack') = Given(r) /\ (Alone(stack') <=> Alone(r)) BY <2>1, Zenon
    <3> QED BY <2>0, <3>1
  <2>2. CASE stack' = <<f, g>> \o r
    <3>1. /\ Given(stack') = f.job \cup g.job \cup Given(r)
          /\ Alone(stack') <=> /\ Alone(r) /\ g.job \cap Given(r) = {}
                               /\ f.job \cap (g.job \cup Given(r)) = {}
      BY ZenonT(60), <2>2, StackJobs
    <3> QED BY <2>0, <3>1
  <2> QED BY <2>1, <2>2
<1>6. Carried' = Carried /\ (CarriedOnce => CarriedOnce')
  <2>1. Working' = Working BY <1>2 DEF Working
  <2> QED BY <2>1, CarriedKept
<1>7. Counted => Counted' BY <1>5, <1>6 DEF Counted
<1> QED BY <1>3, <1>4, <1>7 DEF JobInv

LEMMA ParallelBackJobs ==
    ASSUME HeapInv, JobInv, ~quit, PartsGiven \/ ParallelReturns
    PROVE  JobInv'
<1>1. stack # <<>> /\ fresh' = fresh \cup Top.job /\ UNCHANGED <<lists, running, work, reported, quit>>
  BY DEF PartsGiven, ParallelReturns, In, coreVars
<1>t. PICK t, r : t = Top /\ r = Tail(stack) OBVIOUS
<1>p. PICK p : p = IF error THEN "failed" ELSE "after" OBVIOUS
<1>g. PICK g : g = [t EXCEPT !.phase = p, !.job = {}] OBVIOUS
<1>2. t \in Frame BY <1>1, <1>t, AtHand
<1>3. p \in {"failed", "after"} /\ p \in Phases BY <1>p DEF Phases
<1>4. g \in Frame /\ g.job = {} /\ g.phase = p BY <1>2, <1>3, <1>g DEF Frame
<1>f. PICK f : f = FinishAll OBVIOUS
<1>5. f \in Frame /\ f.job = {} /\ f.phase # "clone" BY <1>f, FinishAllCall
<1>6. stack' = r \/ stack' = <<f, g>> \o r
  <2>1. CASE ParallelReturns BY <1>t, <2>1 DEF ParallelReturns, Return
  <2>2. CASE PartsGiven
    <3>1. CallFrom(g, f) BY <1>p, <1>t, <1>g, <1>f, <2>2, Zenon DEF PartsGiven
    <3> QED BY <1>t, <3>1 DEF CallFrom
  <2> QED BY <2>1, <2>2
<1>7. g.phase # "clone" BY <1>3, <1>4
<1> QED BY <1>1, <1>t, <1>4, <1>5, <1>6, <1>7, BackToFresh

-----------------------------------------------------------------------------
(* Jobs that are finished                                                  *)

(* A heap that is given back has no work any more.                         *)
LEMMA GivenBackEmpty ==
    ASSUME HeapInv, StillInv, NoWork, ~quit, NEW h \in Heap,
           inactive' = <<h>> \o inactive, work' = [work EXCEPT ![h] = {}],
           \A f \in Elements(stack') : f.phase = "clone" => f \in Elements(stack)
    PROVE  NoWork'
<1>1. AllApart BY ApartNow
<1>2. Idle' = {h} \cup Idle BY <1>1, ElementsPushed DEF AllApart, Apart, Idle
<1>3. /\ work'[h] = {} /\ \A g \in Heap : work'[g] = {} \/ work'[g] = work[g]
  BY DEF StillInv
<1>4. Idle \subseteq Heap BY <1>1 DEF AllApart, Apart, Idle
<1>5. ASSUME NEW f \in Elements(stack'), f.phase = "clone"
      PROVE  f \in Elements(stack) /\ f.heap \in Heap
  <2>1. f \in Elements(stack) BY <1>5
  <2>2. f \in Frame /\ Good(f) BY <2>1, CallsAreGood
  <2> QED BY <1>5, <2>1, <2>2 DEF Frame, Good
<1> QED BY <1>2, <1>3, <1>4, <1>5, NoWorkKept

LEMMA FinishFailedJobs ==
    ASSUME HeapInv, HeapInv', StillInv, JobInv, ~quit, FinishFailed PROVE JobInv'
<1>1. stack # <<>> /\ finished # <<>> BY FinishingCalls DEF FinishFailed
<1>h. PICK h : h = Finished OBVIOUS
<1>2. /\ inactive' = <<h>> \o inactive /\ work' = [work EXCEPT ![h] = {}]
      /\ Report(work[h]) /\ stack' = Tail(stack) /\ work[h] \subseteq Failing
  BY <1>h DEF FinishFailed, Return
<1>3. h \in Heap /\ h \in Done
  BY <1>1, <1>h, ApartNow, ElementsPopped, Popped DEF AllApart, Apart, Finished, Done
<1>4. Elements(stack) = {Top} \cup Elements(stack') BY <1>1, <1>2, StackMoves DEF Rest
<1>5. NoWork' BY <1>2, <1>3, <1>4, GivenBackEmpty DEF JobInv
<1>6. ~NoErrorYet'
  <2>1. work[h] # {} BY <1>3 DEF StillInv, Loaded
  <2>2. NoErrorYet' => work[h] \cap (Failing \cup Raising) = {} BY <1>2, Reports DEF StillInv
  <2> QED BY <1>2, <2>1, <2>2
<1> QED BY <1>5, <1>6 DEF JobInv

(* The heap a finish function has, or that is inactive, has no job to do.  *)
LEMMA FinishedLeaves ==
    ASSUME HeapInv, HeapInv', ~quit, ~quit', Finishing, finished' = Tail(finished),
           UNCHANGED <<active, running>>, NEW h, h = Finished, h \in Idle' \cup InCalls'
    PROVE  h \in Heap /\ h \in Working /\ Working' = Working \ {h}
<1>1. finished # <<>> BY FinishingCalls
<1>2. AllApart /\ AllApart' BY ApartNow, ApartThen
<1>3. Done = {h} \cup Done' /\ h \in Heap
  BY <1>1, <1>2, ElementsPopped, Popped DEF AllApart, Apart, Finished, Done
<1>4. Ready' = Ready /\ Runs' = Runs BY DEF Ready, Runs
<1>5. h \notin Ready' \cup Done' \cup Runs'
  BY <1>2 DEF AllApart, Apart, Idle, InCalls, Ready, Runs, Done
<1> QED BY <1>3, <1>4, <1>5 DEF Working

LEMMA FinishPlainJobs ==
    ASSUME HeapInv, HeapInv', StillInv, JobInv, ~quit, FinishPlain PROVE JobInv'
<1>1. stack # <<>> /\ finished # <<>> BY FinishingCalls DEF FinishPlain
<1>f. PICK f : f = [Top EXCEPT !.phase = "finish"] OBVIOUS
<1>h. PICK h, r : h = Finished /\ r = Tail(stack) OBVIOUS
<1>2. /\ inactive' = <<h>> \o inactive /\ work' = [work EXCEPT ![h] = {}] /\ ~quit'
      /\ Report(work[h]) /\ stack' = <<f>> \o r /\ finished' = Tail(finished)
      /\ UNCHANGED <<active, running, fresh>>
  BY <1>f, <1>h DEF FinishPlain, Become, coreVars
<1>3. f \in Frame /\ f.job = Top.job /\ f.phase = "finish"
  <2>1. PICK t : t = Top OBVIOUS
  <2>2. t \in Frame BY <1>1, <2>1, AtHand
  <2>3. "finish" \in Phases BY DEF Phases
  <2> QED BY <1>f, <2>1, <2>2, <2>3 DEF Frame
<1>4. h \in Heap /\ h \in Working /\ Working' = Working \ {h}
  <2>1. h \in Heap
    BY <1>1, <1>h, ApartNow, ElementsPopped, Popped DEF AllApart, Apart, Finished
  <2>2. h \in Idle' BY <1>2, <2>1, ApartNow, ElementsPushed DEF AllApart, Apart, Idle
  <2> QED BY <1>h, <1>2, <2>2, FinishedLeaves DEF FinishPlain
<1>5. Elements(stack) = {Top} \cup Elements(r) /\ Elements(stack') = {f} \cup Elements(r)
  BY <1>h, <1>1, <1>2, <1>3, StackMoves DEF Rest
<1>6. NoWork' BY <1>2, <1>3, <1>4, <1>5, GivenBackEmpty DEF JobInv
<1>7. NoErrorYet' => NoErrorYet BY <1>2, Reports DEF StillInv
<1>8. Given(stack') = Given(stack) /\ (Alone(stack') <=> Alone(stack))
  <2>1. /\ Given(stack) = Top.job \cup Given(r)
        /\ Alone(stack) <=> Alone(r) /\ Top.job \cap Given(r) = {}
    BY <1>h, <1>1, StackJobs
  <2>2. /\ Given(stack') = f.job \cup Given(r)
        /\ Alone(stack') <=> Alone(r) /\ f.job \cap Given(r) = {}
    BY <1>h, <1>1, <1>2, <1>3, StackJobs
  <2> QED BY <1>3, <2>1, <2>2
<1>9. ASSUME Counted PROVE Counted'
  <2>1. \A g \in Working' : g \in Heap /\ g # h
    BY <1>4, ApartNow DEF AllApart, Apart, Working, Ready, Runs, Done
  <2>2. \A g \in Working' : work'[g] = work[g] BY <1>2, <2>1 DEF StillInv
  <2>3. Carried' = Carried \ work[h] /\ CarriedOnce' BY <1>4, <1>9, <2>2, CarriedLess DEF Counted
  <2>4. Job \cap work[h] \subseteq Carried BY <1>4 DEF Carried
  <2>5. Given(stack') \cup Carried' = (Given(stack) \cup Carried) \ (Job \cap work[h])
    <3>1. Carried \subseteq Job BY DEF Carried
    <3> QED BY <1>8, <1>9, <2>3, <2>4, <3>1 DEF Counted
  <2> QED BY <1>2, <1>8, <1>9, <2>3, <2>4, <2>5, ReportedOnce DEF Counted
<1> QED BY <1>6, <1>7, <1>9 DEF JobInv

LEMMA FinishCallbackJobs ==
    ASSUME HeapInv, HeapInv', StillInv, JobInv, ~quit, FinishCallback PROVE JobInv'
<1>1. stack # <<>> /\ finished # <<>> BY FinishingCalls DEF FinishCallback
<1>h. PICK h, r : h = Finished /\ r = Tail(stack) OBVIOUS
<1>g. PICK g : g = [Top EXCEPT !.phase = "finish"] OBVIOUS
<1>f. PICK f : f = [NewFrame("callback", "script") EXCEPT !.heap = h, !.left = 1] OBVIOUS
<1>2. /\ ~quit' /\ Report(work[h]) /\ stack' = <<f, g>> \o r /\ finished' = Tail(finished)
      /\ UNCHANGED <<inactive, active, running, work, fresh>>
  BY <1>f, <1>g, <1>h DEF FinishCallback, CallFrom, coreVars
<1>3. g \in Frame /\ g.job = Top.job /\ g.phase = "finish"
  <2>1. PICK t : t = Top OBVIOUS
  <2>2. t \in Frame BY <1>1, <2>1, AtHand
  <2>3. "finish" \in Phases BY DEF Phases
  <2> QED BY <1>g, <2>1, <2>2, <2>3 DEF Frame
<1>4. h \in Heap /\ h # NoHeap
  BY <1>1, <1>h, ApartNow, ElementsPopped, Popped, Numbers DEF AllApart, Apart, Finished
<1>5. f \in Frame /\ f.job = {} /\ f.heap = h /\ f.phase = "script"
  BY <1>4, <1>f DEF Frame, NewFrame, Ops, Phases
<1>6. Elements(stack) = {Top} \cup Elements(r) /\ Elements(stack') = {f, g} \cup Elements(r)
  BY <1>h, <1>1, <1>2, <1>3, <1>5, StackMoves DEF Rest
<1>7. h \in Working /\ Working' = Working \ {h}
  <2>1. h \in InCalls' BY <1>4, <1>5, <1>6 DEF InCalls, Holding
  <2> QED BY <1>h, <1>2, <2>1, FinishedLeaves DEF FinishCallback
<1>8. NoWork'
  <2>1. Idle' = Idle BY <1>2 DEF Idle
  <2>2. \A k \in Elements(stack') : k.phase = "clone" => k \in Elements(stack)
    BY <1>3, <1>5, <1>6
  <2> QED BY <1>2, <2>1, <2>2, NoWorkKept DEF JobInv
<1>9. NoErrorYet' => NoErrorYet BY <1>2, Reports DEF StillInv
<1>10. Given(stack') = Given(stack) /\ (Alone(stack') <=> Alone(stack))
  <2>1. /\ Given(stack) = Top.job \cup Given(r)
        /\ Alone(stack) <=> Alone(r) /\ Top.job \cap Given(r) = {}
    BY <1>h, <1>1, StackJobs
  <2>2. /\ Given(stack') = f.job \cup g.job \cup Given(r)
        /\ Alone(stack') <=> /\ Alone(r) /\ g.job \cap Given(r) = {}
                             /\ f.job \cap (g.job \cup Given(r)) = {}
    BY ZenonT(60), <1>h, <1>1, <1>2, <1>3, <1>5, StackJobs
  <2> QED BY <1>3, <1>5, <2>1, <2>2
<1>11. ASSUME Counted PROVE Counted'
  <2>1. Carried' = Carried \ work[h] /\ CarriedOnce' BY <1>2, <1>7, <1>11, CarriedLess DEF Counted
  <2>2. Job \cap work[h] \subseteq Carried BY <1>7 DEF Carried
  <2>3. Given(stack') \cup Carried' = (Given(stack) \cup Carried) \ (Job \cap work[h])
    <3>1. Carried \subseteq Job BY DEF Carried
    <3> QED BY <1>10, <1>11, <2>1, <2>2, <3>1 DEF Counted
  <2> QED BY <1>2, <1>10, <1>11, <2>1, <2>2, <2>3, ReportedOnce DEF Counted
<1> QED BY <1>8, <1>9, <1>11 DEF JobInv

(* The step of a call that returns the heap of a finish function fails     *)
(* only when its job is one that gives an error.                           *)
LEMMA CallbackReturnsJobs ==
    ASSUME HeapInv, HeapInv', StillInv, JobInv, ~quit, CallbackReturns PROVE JobInv'
<1>1. stack # <<>> /\ Top.op = "callback" BY DEF CallbackReturns, In
<1>h. PICK h, r : h = Top.heap /\ r = Tail(stack) OBVIOUS
<1>2. /\ ~quit' /\ inactive' = <<h>> \o inactive /\ work' = [work EXCEPT ![h] = {}]
      /\ error' = (work[h] \subseteq Raising)
      /\ stack' = IF error' THEN Tail(r) ELSE r
      /\ UNCHANGED <<active, finished, running, fresh, reported>>
  BY <1>h DEF CallbackReturns, coreVars
<1>3. /\ Elements(stack) = {Top} \cup Elements(r) /\ r # <<>> /\ Elements(r) = {Head(r)} \cup Elements(Tail(r))
  <2>1. r # <<>> /\ r \in Seq(Frame) BY <1>1, <1>h, AtHand, HeadTailProperties
  <2> QED BY <1>1, <1>h, <2>1, StackMoves, ElementsPopped DEF Rest
<1>4. Elements(stack') \subseteq Elements(stack) BY <1>2, <1>3
<1>5. h \in Heap /\ h \in InCalls /\ work[h] # {} /\ \A j \in work[h] : j \in Job /\ reported[j] >= 1
  <2>1. h \in InCalls BY <1>1, <1>3, <1>h, CallsAreGood
  <2>2. h \in Heap BY <2>1, ApartNow DEF AllApart, Apart, InCalls
  <2> QED BY <1>1, <1>3, <1>h, <2>1, <2>2 DEF StillInv, Loaded
<1>6. NoWork' BY <1>2, <1>4, <1>5, GivenBackEmpty DEF JobInv
<1>7. NoErrorYet' => NoErrorYet /\ ~error'
  <2>1. NoErrorYet' => NoErrorYet BY <1>2 DEF NoErrorYet
  <2>2. PICK j \in work[h] : j \in Job /\ reported[j] >= 1 BY <1>5
  <2>3. reported'[j] # 0 BY <1>2, <2>2 DEF StillInv
  <2>4. error' => j \in Raising BY <1>2
  <2>5. error' => ~NoErrorYet' BY <2>3, <2>4 DEF NoErrorYet
  <2> QED BY <2>1, <2>5
<1>8. ASSUME Counted, ~error' PROVE Counted'
  <2>1. stack' = r BY <1>2, <1>8
  <2>2. Top.job = {}
    <3>1. PICK t : t = Top OBVIOUS
    <3>2. t.op = "callback" /\ Good(t) BY <1>1, <3>1, AtHand
    <3>3. t.job = {} BY <3>2 DEF Good
    <3> QED BY <3>1, <3>3
  <2>3. Given(stack') = Given(stack) /\ (Alone(stack') <=> Alone(stack))
    <3>1. /\ Given(stack) = Top.job \cup Given(r)
          /\ Alone(stack) <=> Alone(r) /\ Top.job \cap Given(r) = {}
      BY <1>h, <1>1, StackJobs
    <3>2. Given(stack') = Given(r) /\ (Alone(stack') <=> Alone(r)) BY <2>1, Zenon
    <3> QED BY <2>2, <3>1, <3>2
  <2>4. Working' = Working BY <1>2 DEF Working, Ready, Runs, Done
  <2>5. h \notin Working /\ Working \subseteq Heap
    BY <1>5, ApartNow DEF AllApart, Apart, InCalls, Working, Ready, Runs, Done
  <2>6. \A g \in Working : work'[g] = work[g] BY <1>2, <2>5 DEF StillInv
  <2>7. Carried' = Carried /\ CarriedOnce' BY <1>8, <2>4, <2>6, CarriedKept DEF Counted
  <2> QED BY <1>2, <1>8, <2>3, <2>7 DEF Counted
<1> QED BY <1>6, <1>7, <1>8 DEF JobInv

-----------------------------------------------------------------------------
(* Jobs that are given to run                                              *)

LEMMA PickHeapJobs ==
    ASSUME HeapInv, HeapInv', JobInv, ~quit, PickHeap PROVE JobInv'
<1>1. stack # <<>> /\ inactive # <<>> BY DEF PickHeap, In
<1>h. PICK t, h, r : t = Top /\ h = Head(inactive) /\ r = Tail(stack) OBVIOUS
<1>f. PICK f : f = [t EXCEPT !.phase = "clone", !.heap = h] OBVIOUS
<1>2. /\ ~quit' /\ inactive' = Tail(inactive) /\ stack' = <<f>> \o r
      /\ UNCHANGED <<active, finished, running, work, fresh, reported>>
  BY <1>h, <1>f DEF PickHeap, Become, coreVars
<1>3. h \in Heap /\ Idle = {h} \cup Idle'
  BY <1>1, <1>2, <1>h, ApartNow, Popped, ElementsPopped DEF AllApart, Apart, Idle
<1>4. t \in Frame BY <1>1, <1>h, AtHand
<1>5. f \in Frame /\ f.heap = h /\ f.job = Top.job BY <1>h, <1>3, <1>4, <1>f DEF Frame, Phases
<1>6. Elements(stack) = {Top} \cup Elements(r) /\ Elements(stack') = {f} \cup Elements(r)
  BY <1>h, <1>1, <1>2, <1>5, StackMoves DEF Rest
<1>7. NoWork'
  <2>1. work[h] = {} BY <1>3 DEF JobInv, NoWork
  <2> QED BY <1>2, <1>3, <1>5, <1>6, <2>1, NoWorkKept DEF JobInv
<1>8. NoErrorYet' => NoErrorYet BY <1>2 DEF NoErrorYet
<1>9. Given(stack') = Given(stack) /\ (Alone(stack') <=> Alone(stack))
  <2>1. /\ Given(stack) = Top.job \cup Given(r)
        /\ Alone(stack) <=> Alone(r) /\ Top.job \cap Given(r) = {}
    BY <1>h, <1>1, StackJobs
  <2>2. /\ Given(stack') = f.job \cup Given(r)
        /\ Alone(stack') <=> Alone(r) /\ f.job \cap Given(r) = {}
    BY <1>h, <1>1, <1>2, <1>5, StackJobs
  <2> QED BY <1>5, <2>1, <2>2
<1>10. Carried' = Carried /\ (CarriedOnce => CarriedOnce')
  <2>1. Working' = Working BY <1>2 DEF Working, Ready, Runs, Done
  <2> QED BY <1>2, <2>1, CarriedKept
<1>11. Counted => Counted' BY <1>2, <1>9, <1>10 DEF Counted
<1> QED BY <1>7, <1>8, <1>11 DEF JobInv

LEMMA CloneFailsJobs ==
    ASSUME HeapInv, HeapInv', StillInv, JobInv, ~quit, CloneFails PROVE JobInv'
<1>1. stack # <<>> /\ Top.op = "run" /\ Top.phase = "clone" BY DEF CloneFails, In
<1>h. PICK h, J, r : h = Top.heap /\ J = Top.job /\ r = Tail(stack) OBVIOUS
<1>2. /\ ~quit' /\ inactive' = <<h>> \o inactive /\ Report(J) /\ stack' = r
      /\ UNCHANGED <<active, finished, running, work, fresh>>
  BY <1>h DEF CloneFails, Return, coreVars
<1>3. h \in Heap
  <2>1. PICK t : t = Top OBVIOUS
  <2>2. t \in Frame BY <1>1, <2>1, AtHand
  <2>3. t.heap # NoHeap BY <1>1, <2>1, AtHand
  <2> QED BY <1>h, <2>1, <2>2, <2>3 DEF Frame
<1>4. Elements(stack) = {Top} \cup Elements(r) BY <1>h, <1>1, StackMoves DEF Rest
<1>5. NoWork'
  <2>1. Idle' = {h} \cup Idle BY <1>2, <1>3, ApartNow, ElementsPushed DEF AllApart, Apart, Idle
  <2>2. work[h] = {} BY <1>h, <1>1, <1>4 DEF JobInv, NoWork
  <2> QED BY <1>2, <1>4, <2>1, <2>2, NoWorkKept DEF JobInv
<1>6. NoErrorYet' => NoErrorYet BY <1>2, Reports DEF StillInv
<1>7. ASSUME Counted PROVE Counted'
  <2>1. /\ Given(stack) = J \cup Given(r)
        /\ Alone(stack) <=> Alone(r) /\ J \cap Given(r) = {}
    BY <1>h, <1>1, StackJobs
  <2>2. Given(stack') = Given(r) /\ (Alone(stack') <=> Alone(r)) BY <1>2, Zenon
  <2>3. Alone(stack) /\ Given(stack) \cap Carried = {} BY <1>7 DEF Counted
  <2>4. Carried' = Carried /\ CarriedOnce'
    <3>1. Working' = Working BY <1>2 DEF Working, Ready, Runs, Done
    <3> QED BY <1>2, <1>7, <3>1, CarriedKept DEF Counted
  <2>5. J \subseteq Job
    <3>1. PICK t : t = Top OBVIOUS
    <3>2. t \in Frame BY <1>1, <3>1, AtHand
    <3> QED BY <1>h, <3>1, <3>2 DEF Frame
  <2>6. Given(stack') \cup Carried' = (Given(stack) \cup Carried) \ (Job \cap J)
    BY <2>1, <2>2, <2>3, <2>4, <2>5
  <2>7. Alone(stack') /\ Given(stack') \subseteq Given(stack) /\ Job \cap J \subseteq Given(stack) \cup Carried
    BY <2>1, <2>2, <2>3
  <2> QED BY <1>2, <1>7, <2>4, <2>6, <2>7, ReportedOnce
<1> QED BY <1>5, <1>6, <1>7 DEF JobInv

LEMMA StartJobJobs ==
    ASSUME HeapInv, HeapInv', StillInv, JobInv, ~quit, StartJob PROVE JobInv'
<1>1. stack # <<>> /\ Top.op = "run" /\ Top.phase = "clone" BY DEF StartJob, In
<1>h. PICK h, J, r : h = Top.heap /\ J = Top.job /\ r = Tail(stack) OBVIOUS
<1>2. /\ ~quit' /\ active' = <<h>> \o active /\ work' = [work EXCEPT ![h] = J] /\ stack' = r
      /\ UNCHANGED <<inactive, finished, running, fresh, reported>>
  BY <1>h DEF StartJob, Return, coreVars
<1>3. h \in Heap /\ J \subseteq Job
  <2>1. PICK t : t = Top OBVIOUS
  <2>2. t \in Frame BY <1>1, <2>1, AtHand
  <2>3. t.heap # NoHeap BY <1>1, <2>1, AtHand
  <2> QED BY <1>h, <2>1, <2>2, <2>3 DEF Frame
<1>4. AllApart /\ AllApart' BY <1>2, ApartNow, ApartThen
<1>5. Elements(stack) = {Top} \cup Elements(r) BY <1>h, <1>1, StackMoves DEF Rest
<1>6. Ready' = {h} \cup Ready /\ Runs' = Runs /\ Done' = Done /\ Idle' = Idle
  BY <1>2, <1>3, <1>4, ElementsPushed DEF AllApart, Apart, Ready, Runs, Done, Idle
<1>7. h \notin InCalls' /\ h \notin Idle'
  BY <1>4, <1>6 DEF AllApart, Apart, Ready, Idle, InCalls
<1>8. h \notin Working
  <2>1. h \in InCalls
    <3>1. Top.heap # NoHeap BY <1>1, AtHand
    <3> QED BY <1>h, <1>5, <3>1 DEF InCalls, Holding
  <2> QED BY <1>4, <2>1 DEF AllApart, Apart, InCalls, Working, Ready, Runs, Done
<1>9. work'[h] = J /\ \A g \in Heap : g # h => work'[g] = work[g]
  BY <1>2, <1>3 DEF StillInv
<1>10. NoWork'
  <2>1. \A g \in Idle' : g \in Idle /\ work'[g] = work[g]
    BY <1>4, <1>6, <1>7, <1>9 DEF AllApart, Apart, Idle
  <2>2. ASSUME NEW f \in Elements(stack'), f.phase = "clone"
        PROVE  f \in Elements(stack) /\ work'[f.heap] = work[f.heap]
    <3>1. f \in Elements(stack) BY <1>2, <1>5, <2>2
    <3>2. f \in Frame /\ Good(f) BY <3>1, CallsAreGood
    <3>3. f.heap # NoHeap /\ f.heap \in Heap BY <2>2, <3>2 DEF Good, Frame
    <3>4. f.heap \in InCalls' BY <2>2, <3>3 DEF InCalls, Holding
    <3> QED BY <1>7, <1>9, <3>1, <3>3, <3>4
  <2> QED BY <2>1, <2>2, NoWorkKept DEF JobInv
<1>11. NoErrorYet' => NoErrorYet BY <1>2 DEF NoErrorYet
<1>12. ASSUME Counted PROVE Counted'
  <2>1. /\ Given(stack) = J \cup Given(r)
        /\ Alone(stack) <=> Alone(r) /\ J \cap Given(r) = {}
    BY <1>h, <1>1, StackJobs
  <2>2. Given(stack') = Given(r) /\ (Alone(stack') <=> Alone(r)) BY <1>2, Zenon
  <2>3. Alone(stack) /\ Given(stack) \cap Carried = {} /\ CarriedOnce BY <1>12 DEF Counted
  <2>4. Working' = {h} \cup Working BY <1>6 DEF Working
  <2>5. \A g \in Working : g # h /\ work'[g] = work[g]
    BY <1>4, <1>8, <1>9 DEF AllApart, Apart, Working, Ready, Runs, Done
  <2>6. Carried' = J \cup Carried BY <1>3, <1>9, <2>4, <2>5 DEF Carried
  <2>7. J \cap Carried = {} BY <2>1, <2>3
  <2>8. CarriedOnce'
    <3>1. \A g \in Working : Job \cap work[g] \subseteq Carried BY DEF Carried
    <3>2. \A g \in Working : Job \cap work'[g] \cap work'[h] = {} BY <1>9, <2>5, <2>7, <3>1
    <3> QED BY <2>3, <2>4, <2>5, <3>2 DEF CarriedOnce
  <2> QED BY <1>2, <1>12, <2>1, <2>2, <2>3, <2>6, <2>8 DEF Counted
<1> QED BY <1>10, <1>11, <1>12 DEF JobInv

(* A native function is not a job.                                         *)
LEMMA NativeStartsJobs ==
    ASSUME HeapInv, HeapInv', StillInv, JobInv, ~quit, NativeStarts PROVE JobInv'
<1>1. stack # <<>> /\ Top.op = "native" BY DEF NativeStarts, In
<1>t. PICK t, r : t = Top /\ r = Tail(stack) OBVIOUS
<1>f. PICK f : f = [t EXCEPT !.phase = "wait"] OBVIOUS
<1>n. PICK n : n = num_cores OBVIOUS
<1>F. PICK F : F = {inactive[i] : i \in 1 .. n} OBVIOUS
<1>2. /\ ~quit' /\ stack' = <<f>> \o r
      /\ work' = [h \in Heap |-> IF \E i \in 1..n : inactive[i] = h THEN {Native} ELSE work[h]]
      /\ UNCHANGED <<finished, running, fresh, reported>>
  BY <1>t, <1>f, <1>n DEF NativeStarts, Become, coreVars
<1>3. t \in Frame BY <1>1, <1>t, AtHand
<1>4. f \in Frame /\ f.phase = "wait" /\ f.job = Top.job BY <1>t, <1>3, <1>f DEF Frame, Phases
<1>5. Elements(stack) = {Top} \cup Elements(r) /\ Elements(stack') = {f} \cup Elements(r)
  BY <1>t, <1>1, <1>2, <1>4, StackMoves DEF Rest
<1>6. AllApart /\ AllApart' BY <1>2, ApartNow, ApartThen
<1>7. F \subseteq Idle /\ F \subseteq Ready' /\ Ready' = Ready \cup F /\ Runs' = Runs /\ Done' = Done
  <2>1. /\ Ready \subseteq Ready' /\ Runs' = Runs /\ Done' = Done
        /\ \A h \in Ready' : h \in Ready \/ \E i \in 1 .. n : inactive[i] = h
        /\ \A i \in 1 .. n : inactive[i] \in Idle /\ inactive[i] \in Ready'
    BY <1>n, NativeReadies
  <2> QED BY <1>F, <2>1
<1>8. Working' = Working \cup F BY <1>7 DEF Working
<1>9. \A h \in Heap : work'[h] = IF h \in F THEN {Native} ELSE work[h]
  BY <1>2, <1>F
<1>10. Idle' \subseteq Heap /\ Idle' \cap F = {} /\ InCalls' \subseteq Heap /\ InCalls' \cap F = {}
  BY <1>6, <1>7 DEF AllApart, Apart, Idle, Ready, InCalls
<1>11. Idle' \subseteq Idle
  <2>1. f.heap = Top.heap BY <1>t, <1>f, <1>3 DEF Frame
  <2>2. InCalls' = InCalls BY <1>5, <2>1 DEF InCalls, Holding
  <2>3. Idle' \cap (Ready \cup Done \cup Runs \cup InCalls) = {}
    BY <1>6, <1>7, <2>2 DEF AllApart, Apart, Idle, Ready, Done, Runs, InCalls
  <2> QED BY <1>6, <1>10, <2>3 DEF AllApart, Apart, Idle, Ready, Done, Runs, InCalls
<1>12. NoWork'
  <2>1. \A h \in Idle' : h \in Idle /\ work'[h] = work[h] BY <1>9, <1>10, <1>11
  <2>2. ASSUME NEW k \in Elements(stack'), k.phase = "clone"
        PROVE  k \in Elements(stack) /\ work'[k.heap] = work[k.heap]
    <3>1. k \in Elements(stack) BY <1>4, <1>5, <2>2
    <3>2. k \in Frame /\ Good(k) BY <3>1, CallsAreGood
    <3>3. k.heap # NoHeap BY <2>2, <3>2 DEF Good
    <3>4. k.heap \in InCalls' BY <2>2, <3>3 DEF InCalls, Holding
    <3> QED BY <1>9, <1>10, <3>1, <3>4
  <2> QED BY <2>1, <2>2, NoWorkKept DEF JobInv
<1>13. NoErrorYet' => NoErrorYet BY <1>2 DEF NoErrorYet
<1>14. Given(stack') = Given(stack) /\ (Alone(stack') <=> Alone(stack))
  <2>1. /\ Given(stack) = Top.job \cup Given(r)
        /\ Alone(stack) <=> Alone(r) /\ Top.job \cap Given(r) = {}
    BY <1>t, <1>1, StackJobs
  <2>2. /\ Given(stack') = f.job \cup Given(r)
        /\ Alone(stack') <=> Alone(r) /\ f.job \cap Given(r) = {}
    BY <1>t, <1>1, <1>2, <1>4, StackJobs
  <2> QED BY <1>4, <2>1, <2>2
<1>15. Carried' = Carried /\ (CarriedOnce => CarriedOnce')
  <2>1. \A h \in Working' : h \in Heap
    BY <1>2, <1>6 DEF AllApart, Apart, Working, Ready, Done, Runs
  <2>2. \A h \in F : h \in Heap /\ Job \cap work'[h] = {}
    <3>1. Native \notin Job BY ComputeAssumption
    <3> QED BY <1>8, <1>9, <2>1, <3>1
  <2>3. \A h \in Working : h \notin F /\ work'[h] = work[h]
    <3>1. Working \cap Idle = {}
      BY <1>6 DEF AllApart, Apart, Idle, Working, Ready, Done, Runs
    <3> QED BY <1>7, <1>8, <1>9, <2>1, <3>1
  <2>4. Carried' = Carried BY <1>8, <2>2, <2>3 DEF Carried
  <2>5. CarriedOnce => CarriedOnce' BY <1>8, <2>2, <2>3 DEF CarriedOnce
  <2> QED BY <2>4, <2>5
<1>16. Counted => Counted' BY <1>2, <1>14, <1>15 DEF Counted
<1> QED BY <1>12, <1>13, <1>16 DEF JobInv

-----------------------------------------------------------------------------
(* The cores do not lose a job                                             *)

(* A core moves the heap of a job, and the job with it; a native function  *)
(* ends without one.                                                       *)
LEMMA CoreJobs ==
    ASSUME HeapInv, HeapInv', StillInv, JobInv, ~quit, NEW c \in Core, TakeHeap(c) \/ WaitForWork(c)
    PROVE  JobInv'
<1>h. PICK h : h = running[c] OBVIOUS
<1>1. /\ ~quit'
      /\ work' = (IF RanNative(c) THEN [work EXCEPT ![h] = {}] ELSE work)
      /\ UNCHANGED <<stack, fresh, reported>>
  BY <1>h DEF TakeHeap, WaitForWork, GiveBack
<1>2. AllApart /\ AllApart' BY <1>1, ApartNow, ApartThen
<1>3. /\ Ran(c) => h \in Heap /\ h \in Runs
      /\ Idle' = Idle \cup (IF RanNative(c) THEN {h} ELSE {})
      /\ Done' = Done \cup (IF Ran(c) /\ ~RanNative(c) THEN {h} ELSE {})
      /\ Ready' \cup Runs' = (Ready \cup Runs) \ {h}
  BY <1>h, CoreMoves
<1>4. NoErrorYet' => NoErrorYet BY <1>1 DEF NoErrorYet
<1>5. CASE RanNative(c)
  <2>1. h \in Heap /\ h \in Working /\ work[h] = {Native} /\ h \in Idle' /\ Idle' = Idle \cup {h}
    BY <1>3, <1>5, <1>h DEF RanNative, Working
  <2>2. h \notin Working' /\ h \notin Done' /\ h \notin InCalls'
    BY <1>2, <2>1 DEF AllApart, Apart, Idle, Ready, Done, Runs, InCalls, Working
  <2>3. Working' = Working \ {h} BY <1>3, <1>5, <2>2 DEF Working
  <2>4. work'[h] = {} /\ \A g \in Heap : g # h => work'[g] = work[g]
    BY <1>1, <1>5, <2>1 DEF StillInv
  <2>5. NoWork'
    <3>1. \A g \in Idle' : work'[g] = {} \/ (g \in Idle /\ work'[g] = work[g])
      BY <1>2, <2>1, <2>4 DEF AllApart, Apart, Idle
    <3>2. ASSUME NEW k \in Elements(stack'), k.phase = "clone"
          PROVE  k \in Elements(stack) /\ work'[k.heap] = work[k.heap]
      <4>1. k \in Elements(stack) BY <1>1
      <4>2. k \in Frame /\ Good(k) BY <4>1, CallsAreGood
      <4>3. k.heap # NoHeap /\ k.heap \in Heap BY <3>2, <4>2 DEF Good, Frame
      <4>4. k.heap \in InCalls' BY <3>2, <4>3 DEF InCalls, Holding
      <4> QED BY <2>2, <2>4, <4>1, <4>3, <4>4
    <3> QED BY <3>1, <3>2, NoWorkKept DEF JobInv
  <2>6. ASSUME CarriedOnce PROVE Carried' = Carried /\ CarriedOnce'
    <3>1. \A g \in Working' : g \in Heap /\ g # h
      BY <1>2, <2>2 DEF AllApart, Apart, Working, Ready, Done, Runs
    <3>2. Carried' = Carried \ work[h] /\ CarriedOnce' BY <2>1, <2>3, <2>4, <2>6, <3>1, CarriedLess
    <3>3. Native \notin Carried BY ComputeAssumption DEF Carried
    <3> QED BY <2>1, <3>2, <3>3
  <2>7. Counted => Counted' BY <1>1, <2>6 DEF Counted
  <2> QED BY <1>4, <2>5, <2>7 DEF JobInv
<1>6. CASE ~RanNative(c)
  <2>1. Working' = Working /\ Idle' = Idle /\ work' = work
    <3>1. Ran(c) => Done' = Done \cup {h} /\ h \in Runs BY <1>3, <1>6
    <3>2. ~Ran(c) => Done' = Done /\ h \notin Heap BY <1>3, <1>h, Numbers DEF Ran
    <3>3. Ready \cup Runs \subseteq Heap BY <1>2 DEF AllApart, Apart, Ready, Runs
    <3> QED BY <1>1, <1>3, <1>6, <3>1, <3>2, <3>3 DEF Working
  <2>2. NoWork' BY <1>1, <2>1, NoWorkKept DEF JobInv
  <2>3. Carried' = Carried /\ (CarriedOnce => CarriedOnce') BY <2>1, CarriedKept
  <2>4. Counted => Counted' BY <1>1, <2>3 DEF Counted
  <2> QED BY <1>4, <2>2, <2>4 DEF JobInv
<1> QED BY <1>5, <1>6

-----------------------------------------------------------------------------
(* The script calls                                                        *)

(* What is below the new calls has the same jobs as before.                *)
LEMMA BelowJobs ==
    ASSUME HeapInv, ~quit, NEW op, NEW frames \in Seq(Frame), ScriptCalls(op, frames)
    PROVE  \E q \in Seq(Frame) :
              /\ stack' = frames \o q
              /\ Given(q) = Given(stack) /\ (Alone(q) <=> Alone(stack))
              /\ \A k \in Elements(q) : k.phase = "clone" => k \in Elements(stack)
<1>1. PICK q \in Seq(Frame) :
          /\ stack' = frames \o q
          /\ \/ q = stack
             \/ \E b \in Frame : /\ stack # <<>> /\ Top.op = "callback" /\ Top.phase = "script"
                                 /\ b.op = Top.op /\ b.phase = Top.phase
                                 /\ b.job = Top.job /\ b.heap = Top.heap
                                 /\ q = <<b>> \o Tail(stack)
  BY BelowCalls
<1>2. CASE q = stack BY <1>1, <1>2
<1>3. CASE q # stack
  <2>1. PICK b \in Frame : /\ stack # <<>> /\ Top.phase = "script" /\ b.phase = Top.phase
                           /\ b.job = Top.job /\ q = <<b>> \o Tail(stack)
    BY <1>1, <1>3
  <2>2. PICK r : r = Tail(stack) OBVIOUS
  <2>3. r \in Seq(Frame) BY <2>1, <2>2, AtHand, HeadTailProperties
  <2>4. /\ Given(q) = b.job \cup Given(r)
        /\ Alone(q) <=> Alone(r) /\ b.job \cap Given(r) = {}
        /\ Elements(q) = {b} \cup Elements(r)
    BY <2>1, <2>2, <2>3, GivenPushed, ElementsPushed
  <2>5. /\ Given(stack) = Top.job \cup Given(r)
        /\ Alone(stack) <=> Alone(r) /\ Top.job \cap Given(r) = {}
    BY <2>1, <2>2, StackJobs
  <2>6. Elements(stack) = {Top} \cup Elements(r) BY <2>1, <2>2, StackMoves DEF Rest
  <2>7. \A k \in Elements(q) : k.phase = "clone" => k \in Elements(stack)
    BY <2>1, <2>4, <2>6
  <2> QED BY <1>1, <2>1, <2>4, <2>5, <2>7
<1> QED BY <1>2, <1>3

(* The jobs of the calls were to be given.                                 *)
LEMMA ScriptCallJobs ==
    ASSUME HeapInv, JobInv, ~quit, NEW op, NEW f \in Frame, NEW g \in Frame,
           NEW frames, ScriptCalls(op, frames),
           (frames = <<f>> /\ g.job = {}) \/ (frames = <<f, g>> /\ f.job = {}),
           f.phase # "clone", g.phase # "clone",
           f.job \cup g.job \subseteq fresh, fresh' = fresh \ (f.job \cup g.job),
           UNCHANGED <<lists, running, work, reported, quit>>
    PROVE  JobInv'
<1>0. frames \in Seq(Frame)
  <2>1. <<>> \in Seq(Frame) OBVIOUS
  <2> QED BY <2>1, ElementsOfCalls
<1>1. PICK q \in Seq(Frame) :
          /\ stack' = frames \o q
          /\ Given(q) = Given(stack) /\ (Alone(q) <=> Alone(stack))
          /\ \A k \in Elements(q) : k.phase = "clone" => k \in Elements(stack)
  BY <1>0, BelowJobs
<1>J. PICK J : J = f.job \cup g.job OBVIOUS
<1>2. /\ Given(stack') = J \cup Given(q)
      /\ Alone(q) /\ J \cap Given(q) = {} => Alone(stack')
      /\ Elements(stack') \subseteq {f, g} \cup Elements(q)
  <2>1. CASE frames = <<f>> /\ g.job = {}
    <3>1. /\ Given(<<f>> \o q) = f.job \cup Given(q)
          /\ Alone(<<f>> \o q) <=> Alone(q) /\ f.job \cap Given(q) = {}
      BY GivenPushed
    <3>2. Elements(<<f>> \o q) = {f} \cup Elements(q) BY ElementsPushed
    <3>3. stack' = <<f>> \o q BY <1>1, <2>1
    <3>4. J = f.job BY <1>J, <2>1
    <3> QED BY <3>1, <3>2, <3>3, <3>4
  <2>2. CASE frames = <<f, g>> /\ f.job = {}
    <3>1. PICK u : u = <<g>> \o q OBVIOUS
    <3>2. /\ u \in Seq(Frame) /\ Given(u) = g.job \cup Given(q)
          /\ Alone(u) <=> Alone(q) /\ g.job \cap Given(q) = {}
          /\ Elements(u) = {g} \cup Elements(q)
      BY <3>1, GivenPushed, Pushed, ElementsPushed
    <3>3. /\ Given(<<f>> \o u) = f.job \cup Given(u)
          /\ Alone(<<f>> \o u) <=> Alone(u) /\ f.job \cap Given(u) = {}
          /\ Elements(<<f>> \o u) = {f} \cup Elements(u)
      BY <3>2, GivenPushed, ElementsPushed
    <3>4. stack' = <<f>> \o u
      <4>1. <<f, g>> \o q = <<f>> \o (<<g>> \o q) BY TwoPushed
      <4> QED BY <1>1, <2>2, <3>1, <4>1
    <3>5. J = g.job BY <1>J, <2>2
    <3> QED BY <2>2, <3>2, <3>3, <3>4, <3>5
  <2> QED BY <2>1, <2>2
<1>3. Idle' = Idle /\ Ready' = Ready /\ Runs' = Runs /\ Done' = Done
  BY DEF lists, Idle, Ready, Runs, Done
<1>4. NoWork'
  <2>1. \A k \in Elements(stack') : k.phase = "clone" => k \in Elements(stack) BY <1>1, <1>2
  <2> QED BY <1>3, <2>1, NoWorkKept DEF JobInv
<1>5. NoErrorYet' => NoErrorYet BY DEF NoErrorYet
<1>6. Carried' = Carried /\ (CarriedOnce => CarriedOnce')
  <2>1. Working' = Working BY <1>3 DEF Working
  <2> QED BY <2>1, CarriedKept
<1>7. ASSUME Counted PROVE Counted'
  <2>1. J \subseteq fresh /\ fresh' = fresh \ J BY <1>J
  <2>2. Alone(stack') /\ Given(stack') = J \cup Given(stack) BY <1>1, <1>2, <1>7, <2>1 DEF Counted
  <2>3. fresh' \cup Given(stack') \cup Carried' = fresh \cup Given(stack) \cup Carried
    BY <1>6, <2>1, <2>2
  <2>4. /\ fresh' \cap Given(stack') = {} /\ fresh' \cap Carried' = {}
        /\ Given(stack') \cap Carried' = {}
    BY <1>6, <1>7, <2>1, <2>2 DEF Counted
  <2>5. \A j \in Job : reported'[j] = IF j \in fresh' \cup Given(stack') \cup Carried' THEN 0 ELSE 1
    BY <1>7, <2>3 DEF Counted
  <2> QED BY <1>6, <1>7, <2>2, <2>4, <2>5 DEF Counted
<1> QED BY <1>4, <1>5, <1>7 DEF JobInv

LEMMA ScriptStepJobs ==
    ASSUME HeapInv, FreshInv, JobInv, ~quit, ScriptStep PROVE JobInv'
<1>1. UNCHANGED <<lists, running, work, reported, quit>>
  BY DEF ScriptStep, CallRun, CallCheckFinished, CallFinishAll, CallParallel, CallNative, coreVars
<1>f. PICK f : f = FinishAll OBVIOUS
<1>2. f \in Frame /\ f.job = {} /\ f.phase # "clone" BY <1>f, FinishAllCall
<1>3. CASE CallRun
  <2>1. PICK j \in fresh : /\ ScriptCalls("run", <<[NewFrame("run", "loop") EXCEPT !.job = {j}]>>)
                           /\ fresh' = fresh \ {j}
    BY <1>3 DEF CallRun
  <2>2. PICK g : g = [NewFrame("run", "loop") EXCEPT !.job = {j}] OBVIOUS
  <2>3. g \in Frame /\ g.job = {j} /\ g.phase = "loop"
    BY <2>1, <2>2 DEF FreshInv, Frame, NewFrame, Ops, Functions, Phases
  <2>4. ScriptCalls("run", <<g>>) BY <2>1, <2>2
  <2>5. /\ g.job \cup f.job \subseteq fresh /\ fresh' = fresh \ (g.job \cup f.job)
        /\ g.phase # "clone"
    BY <1>2, <2>1, <2>3
  <2> QED BY <1>1, <1>2, <2>3, <2>4, <2>5, ScriptCallJobs
<1>4. CASE CallCheckFinished
  <2>1. PICK g : g = NewFrame("check_finished", "finish") OBVIOUS
  <2>2. g \in Frame /\ g.job = {} /\ g.phase = "finish"
    BY <2>1 DEF Frame, NewFrame, Ops, Functions, Phases
  <2>3. ScriptCalls("check_finished", <<g>>) BY <1>4, <2>1 DEF CallCheckFinished
  <2>4. /\ g.job \cup f.job \subseteq fresh /\ fresh' = fresh \ (g.job \cup f.job)
        /\ g.phase # "clone"
    BY <1>2, <1>4, <2>2 DEF CallCheckFinished
  <2> QED BY <1>1, <1>2, <2>2, <2>3, <2>4, ScriptCallJobs
<1>5. CASE CallFinishAll
  <2>1. ScriptCalls("finish_all", <<f>>) BY <1>5, <1>f DEF CallFinishAll
  <2>2. f.job \cup f.job \subseteq fresh /\ fresh' = fresh \ (f.job \cup f.job)
    BY <1>2, <1>5 DEF CallFinishAll
  <2> QED BY <1>1, <1>2, <2>1, <2>2, ScriptCallJobs
<1>6. CASE CallParallel
  <2>1. PICK parts \in SUBSET (fresh \ WithFinish) :
            /\ ScriptCalls("run_parallel",
                   <<FinishAll, [NewFrame("run_parallel", "before") EXCEPT !.job = parts]>>)
            /\ fresh' = fresh \ parts
    BY <1>6 DEF CallParallel
  <2>2. PICK g : g = [NewFrame("run_parallel", "before") EXCEPT !.job = parts] OBVIOUS
  <2>3. g \in Frame /\ g.job = parts /\ g.phase = "before"
    BY <2>1, <2>2 DEF FreshInv, Frame, NewFrame, Ops, Functions, Phases
  <2>4. ScriptCalls("run_parallel", <<f, g>>) BY <1>f, <2>1, <2>2
  <2>5. /\ f.job \cup g.job \subseteq fresh /\ fresh' = fresh \ (f.job \cup g.job)
        /\ g.phase # "clone"
    BY <1>2, <2>1, <2>3
  <2> QED BY <1>1, <1>2, <2>3, <2>4, <2>5, ScriptCallJobs
<1>7. CASE CallNative
  <2>1. PICK g : g = NewFrame("native", "before") OBVIOUS
  <2>2. g \in Frame /\ g.job = {} /\ g.phase = "before"
    BY <2>1 DEF Frame, NewFrame, Ops, Functions, Phases
  <2>3. ScriptCalls("native", <<f, g>>) BY <1>7, <1>f, <2>1 DEF CallNative
  <2>4. /\ f.job \cup g.job \subseteq fresh /\ fresh' = fresh \ (f.job \cup g.job)
        /\ g.phase # "clone"
    BY <1>2, <1>7, <2>2 DEF CallNative
  <2> QED BY <1>1, <1>2, <2>2, <2>3, <2>4, ScriptCallJobs
<1> QED BY <1>3, <1>4, <1>5, <1>6, <1>7 DEF ScriptStep

-----------------------------------------------------------------------------
(* Every step keeps the jobs accounted for.                                *)
LEMMA JobStep ==
    HeapInv /\ HeapInv' /\ FreshInv /\ StillInv /\ StillInv' /\ JobInv /\ [Next]_vars => JobInv'
<1> SUFFICES ASSUME HeapInv, HeapInv', FreshInv, StillInv, StillInv', JobInv, [Next]_vars PROVE JobInv'
  OBVIOUS
<1>1. CASE quit' BY <1>1 DEF JobInv
<1>2. CASE UNCHANGED <<lists, running, quit, work, stack, fresh, reported>>
  BY <1>2 DEF lists, JobInv, NoWork, NoErrorYet, Counted, CarriedOnce, Carried, Working,
              Idle, Ready, Done, Runs
<1>3. CASE UNCHANGED vars \/ WakeSpuriously
  BY <1>2, <1>3 DEF vars, coreVars, lists, WakeSpuriously
<1>4. CASE EndScript BY <1>1, <1>4 DEF EndScript
<1>5. CASE \E c \in Core : CoreStep(c)
  <2>1. PICK c \in Core : CoreStep(c) BY <1>5
  <2>2. CASE Leave(c) BY <1>1, <2>2 DEF Leave
  <2>3. CASE TakeHeap(c) \/ WaitForWork(c)
    <3>1. ~quit BY <2>3 DEF TakeHeap, WaitForWork
    <3> QED BY <2>3, <3>1, CoreJobs
  <2> QED BY <2>1, <2>2, <2>3 DEF CoreStep
<1>6. CASE ScriptStep
  <2>1. ~quit
    BY <1>6 DEF ScriptStep, CallRun, CallCheckFinished, CallFinishAll, CallParallel, CallNative, ScriptCalls
  <2> QED BY <1>6, <2>1, ScriptStepJobs
<1>7. CASE MainStep
  <2>1. stack # <<>> BY <1>7, MainStepHasCall
  <2>2. ~quit BY <2>1 DEF StillInv
  <2>3. CASE FinishFailed \/ FinishPlain \/ FinishCallback \/ CallbackReturns
    BY <2>2, <2>3, FinishFailedJobs, FinishPlainJobs, FinishCallbackJobs, CallbackReturnsJobs
  <2>4. CASE PickHeap \/ CloneFails \/ StartJob \/ NativeStarts
    BY <2>2, <2>4, PickHeapJobs, CloneFailsJobs, StartJobJobs, NativeStartsJobs
  <2>5. CASE WaitToRun \/ WaitToFinish \/ WaitForNative \/ ParallelStarts
    BY <2>2, <2>5, QuietMainJobs
  <2>6. CASE CheckFinishedReturns \/ FinishAllReturns \/ NativeReturns BY <2>2, <2>6, QuietReturnJobs
  <2>7. CASE RunPart BY <2>2, <2>7, RunPartJobs
  <2>8. CASE PartsGiven \/ ParallelReturns BY <2>2, <2>8, ParallelBackJobs
  <2> QED BY <1>7, <2>3, <2>4, <2>5, <2>6, <2>7, <2>8 DEF MainStep
<1> QED BY <1>3, <1>4, <1>5, <1>6, <1>7 DEF Next

(* A job with a call is pending there, one on a heap there, any other job  *)
(* nowhere.                                                                *)
LEMMA JobsPending == HeapInv /\ JobInv => EveryJobAccountedFor
<1> SUFFICES ASSUME HeapInv, JobInv, ~quit, NoErrorYet, NEW j \in Job, j \notin fresh
             PROVE  reported[j] + Cardinality(Pending(j)) = 1
  BY DEF EveryJobAccountedFor
<1>1. AllApart BY ApartNow
<1>2. NoWork /\ Counted BY DEF JobInv
<1>3. reported[j] = IF j \in Given(stack) \cup Carried THEN 0 ELSE 1 BY <1>2 DEF Counted
<1>A. PICK A : A = {i \in DOMAIN stack : j \in stack[i].job} OBVIOUS
<1>B. PICK B : B = {h \in Heap : j \in work[h] /\ ~\E i \in DOMAIN stack : stack[i].heap = h} OBVIOUS
<1>4. Pending(j) = A \cup B BY <1>A, <1>B DEF Pending
<1>5. B = {h \in Working : j \in work[h]}
  <2>1. ASSUME NEW h \in Heap PROVE h \in InCalls <=> \E i \in DOMAIN stack : stack[i].heap = h
    <3>1. h # NoHeap BY Numbers
    <3> QED BY <3>1 DEF InCalls, Holding, Elements
  <2>2. Heap = Idle \cup Working \cup InCalls /\ Working \cap InCalls = {}
    BY <1>1 DEF AllApart, Apart, Idle, Working, Ready, Done, Runs, InCalls
  <2>3. \A h \in Idle : j \notin work[h] BY <1>2 DEF NoWork
  <2> QED BY <1>B, <2>1, <2>2, <2>3
<1>6. j \in Given(stack) <=> A # {} BY <1>A DEF Given, Elements
<1>7. j \in Carried <=> B # {} BY <1>5 DEF Carried
<1>8. CASE j \in Given(stack)
  <2>1. PICK i : i \in A BY <1>6, <1>8
  <2>2. A = {i} BY <1>2, <1>A, <2>1 DEF Counted, Alone
  <2>3. B = {} BY <1>2, <1>7, <1>8 DEF Counted
  <2>4. Pending(j) = {i} BY <1>4, <2>2, <2>3
  <2>5. Cardinality(Pending(j)) = 1 BY <2>4, FS_Singleton
  <2> QED BY <1>3, <1>8, <2>5
<1>9. CASE j \in Carried
  <2>1. PICK h : h \in B BY <1>7, <1>9
  <2>2. B = {h} BY <1>2, <1>5, <2>1 DEF Counted, CarriedOnce
  <2>3. A = {} BY <1>2, <1>6, <1>9 DEF Counted
  <2>4. Pending(j) = {h} BY <1>4, <2>2, <2>3
  <2>5. Cardinality(Pending(j)) = 1 BY <2>4, FS_Singleton
  <2> QED BY <1>3, <1>9, <2>5
<1>10. CASE j \notin Given(stack) \cup Carried
  <2>1. Pending(j) = {} BY <1>4, <1>6, <1>7, <1>10
  <2>2. Cardinality(Pending(j)) = 0 BY <2>1, FS_EmptySet
  <2> QED BY <1>3, <1>10, <2>2
<1> QED BY <1>8, <1>9, <1>10

(* Up to the first error, every job that was given to run is in one place, *)
(* with a call that has yet to run it or on a heap that does, and is       *)
(* reported in the step that takes it off that place: none is lost, none   *)
(* is finished twice.                                                      *)
THEOREM JobsAccounted == Spec => []EveryJobAccountedFor
<1>1. Init => HeapInv /\ FreshInv /\ StillInv /\ JobInv
  BY InitHeaps, StillInit, JobInit DEF Init, FreshInv
<1>2. HeapInv /\ FreshInv /\ StillInv /\ JobInv /\ [Next]_vars
        => HeapInv' /\ FreshInv' /\ StillInv' /\ JobInv'
  BY HeapStep, FreshStep, StillStep, JobStep
<1>3. HeapInv /\ JobInv => EveryJobAccountedFor BY JobsPending
<1> QED BY <1>1, <1>2, <1>3, PTL DEF Spec

-----------------------------------------------------------------------------
(* The division of an interval                                             *)

(* What is in range does not wrap.                                         *)
LEMMA WrapInRange == ASSUME NEW x \in Ints PROVE Wrap(x) = x
<1>1. Bound \in Nat \ {0} BY SplitAssumption
<1>2. x + Bound \in 0..(2 * Bound - 1) BY <1>1 DEF Ints, MaxInt
<1>3. (x + Bound) % (2 * Bound) = x + Bound BY <1>1, <1>2
<1> QED BY <1>1, <1>3 DEF Wrap, Ints

(* What an integer quotient is between.                                    *)
LEMMA QuotientBounds ==
    ASSUME NEW n \in Nat \ {0}, NEW x \in Nat
    PROVE  /\ Quotient(x, n) \in Nat
           /\ Quotient(x, n) * n <= x
           /\ x < (Quotient(x, n) + 1) * n
<1>1. x = n * (x \div n) + (x % n) /\ (x % n) \in 0..(n - 1) /\ x \div n \in Nat
  OBVIOUS
<1> QED BY <1>1 DEF Quotient

(* Blocks of length a: the block of d, and the order of blocks.            *)
LEMMA BlocksInOrder ==
    ASSUME NEW a \in Nat, NEW i \in Nat, NEW j \in Nat, i < j
    PROVE  a * (i + 1) <= a * j
OBVIOUS

IntCalls == [from : Ints, to : Ints, num_cores : 1..MaxInt, min_iters : 1..MaxInt]

(* A call that is worth dividing keeps at least one core, and every core   *)
(* gets at least one iteration.                                            *)
LEMMA FitCoresType ==
    ASSUME NEW call \in IntCalls, NoOverflow(call), call.from < call.to, ~Light(call)
    PROVE  /\ Length(call) = call.to - call.from
           /\ FitCores(call).from = call.from /\ FitCores(call).to = call.to
           /\ FitCores(call).num_cores \in Nat \ {0}
           /\ FitCores(call).min_iters \in Nat \ {0}
<1> DEFINE L == call.to - call.from
           m == call.min_iters
           c == call.num_cores
           fewer == Quotient(L, m)
<1>1. /\ call.from \in Int /\ call.to \in Int /\ Bound \in Nat \ {0}
      /\ m \in Nat \ {0} /\ c \in Nat \ {0}
  BY SplitAssumption DEF IntCalls, Ints, MaxInt
<1>2. L \in Nat \ {0} /\ L + c <= MaxInt /\ m * c <= MaxInt
  BY <1>1 DEF NoOverflow
<1>3. Length(call) = L
  BY <1>1, <1>2, WrapInRange DEF Length, Ints, MaxInt
<1>4. Wrap(m * c) = m * c
  <2>1. m * c \in Nat BY <1>1
  <2>2. m * c \in Ints BY <2>1, <1>1, <1>2 DEF Ints, MaxInt
  <2> QED BY <2>2, WrapInRange
<1>5. CASE ~(L < m * c)
  BY <1>1, <1>3, <1>4, <1>5 DEF FitCores
<1>6. CASE L < m * c
  <2>1. fewer \in Nat /\ fewer * m <= L /\ L < (fewer + 1) * m
    <3> HIDE DEF L, m
    <3> QED BY <1>1, <1>2, QuotientBounds DEF fewer
  <2>2. L \div 2 >= m BY <1>1, <1>2, <1>3 DEF Light
  <2>3. fewer \in Nat \ {0}
    <3>1. L >= m BY <2>2, <1>1, <1>2
    <3> HIDE DEF L, m, fewer
    <3>2. fewer = 0 => L < m BY <2>1, <1>1
    <3> QED BY <3>1, <3>2, <2>1, <1>1, <1>2
  <2>4. fewer < c
    <3> HIDE DEF L, m, c, fewer
    <3>1. SUFFICES ASSUME fewer >= c PROVE FALSE BY <2>1, <1>1
    <3>2. c * m <= fewer * m BY <3>1, <2>1, <1>1
    <3> QED BY <3>2, <2>1, <1>6, <1>1, <1>2
  <2>5. L + fewer - 1 \in Ints /\ L + fewer - 1 >= fewer
    <3> HIDE DEF L, fewer
    <3> QED BY <1>1, <1>2, <2>3, <2>4 DEF Ints, MaxInt, c
  <2>6. Wrap(L + fewer - 1) = L + fewer - 1 BY <2>5, WrapInRange
  <2>7. Quotient(L + fewer - 1, fewer) \in Nat \ {0}
    <3> HIDE DEF L, fewer
    <3>1. L + fewer - 1 \in Nat BY <1>2, <2>3
    <3> DEFINE x == L + fewer - 1
               q == Quotient(x, fewer)
    <3>2. q \in Nat /\ x < (q + 1) * fewer BY <3>1, <2>3, QuotientBounds
    <3>3. q = 0 => x < fewer BY <3>2, <3>1, <2>3
    <3> QED BY <3>2, <3>3, <2>5, <3>1, <2>3
  <2>8. FitCores(call) = [call EXCEPT !.num_cores = fewer,
                             !.min_iters = Quotient(L + fewer - 1, fewer)]
    BY <1>3, <1>4, <1>6, <2>6 DEF FitCores
  <2> HIDE DEF L, fewer
  <2> QED BY <2>8, <2>3, <2>7, <1>3 DEF IntCalls, L
<1> QED BY <1>5, <1>6

(* The bounds of a part, without the wrapping.                             *)
LEMMA PartWithoutWrap ==
    ASSUME NEW fit, NEW a \in Nat \ {0}, NEW n \in Nat \ {0}, NEW i \in 0..(n - 1),
           fit.from \in Ints, fit.to \in Ints, fit.num_cores = n, ItersPerCore(fit) = a,
           a * n <= MaxInt, fit.from + a * n <= MaxInt
    PROVE  PartOfCore(fit, i) =
               <<fit.from + a * i,
                 IF fit.from + a * i + a > fit.to \/ i = n - 1
                 THEN fit.to ELSE fit.from + a * i + a>>
<1>1. a * i \in Nat /\ a * i + a <= a * n
  <2>1. i \in Nat /\ i + 1 <= n OBVIOUS
  <2>2. a * (i + 1) <= a * n BY <2>1
  <2> QED BY <2>1, <2>2
<1>2. a * n \in Nat /\ Bound \in Nat \ {0} BY SplitAssumption
<1>3. a * i \in Ints /\ fit.from + a * i \in Ints /\ fit.from + a * i + a \in Ints
  BY <1>1, <1>2 DEF Ints, MaxInt
<1>4. /\ Wrap(a * i) = a * i /\ Wrap(fit.from + a * i) = fit.from + a * i
      /\ Wrap(fit.from + a * i + a) = fit.from + a * i + a
  BY <1>3, WrapInRange
<1> QED BY <1>4 DEF PartOfCore

(* Blocks of equal length, the last one open at its end: each d is in one. *)
LEMMA OneBlock ==
    ASSUME NEW a \in Nat \ {0}, NEW n \in Nat \ {0}, NEW d \in Nat
    PROVE  \E j \in 0..(n - 1) : \A i \in 0..(n - 1) :
               (a * i <= d /\ (i = n - 1 \/ d < a * i + a)) <=> i = j
<1> DEFINE q == Quotient(d, a)
           j == IF q < n - 1 THEN q ELSE n - 1
<1>1. q \in Nat /\ q * a <= d /\ d < (q + 1) * a BY QuotientBounds
<1> HIDE DEF q
<1>2. j \in 0..(n - 1) BY <1>1
<1>3. ASSUME NEW i \in 0..(n - 1)
      PROVE  (a * i <= d /\ (i = n - 1 \/ d < a * i + a)) <=> i = j
  <2>1. i \in Nat /\ n - 1 \in Nat /\ q \in Nat BY <1>1
  <2>2. CASE i < q
    <3>1. a * i + a <= a * q BY <2>1, <2>2, BlocksInOrder
    <3>2. a * q <= d BY <1>1, <2>1
    <3>3. a * i <= d /\ ~(d < a * i + a) BY <3>1, <3>2, <2>1
    <3>4. i = j <=> i = n - 1 BY <2>1, <2>2
    <3> QED BY <3>3, <3>4
  <2>3. CASE i = q
    <3>1. a * i <= d /\ d < a * i + a BY <1>1, <2>1, <2>3
    <3>2. i = j BY <2>1, <2>3
    <3> QED BY <3>1, <3>2
  <2>4. CASE i > q
    <3>1. a * (q + 1) <= a * i BY <2>1, <2>4, BlocksInOrder
    <3>2. ~(a * i <= d) BY <3>1, <1>1, <2>1
    <3>3. i # j BY <2>1, <2>4
    <3> QED BY <3>2, <3>3
  <2> QED BY <2>1, <2>2, <2>3, <2>4
<1> HIDE DEF j
<1> QED BY <1>2, <1>3

(* run_parallel runs every iteration of the interval in one part, and      *)
(* nothing else, for every interval, min_iters and number of cores, unless *)
(* an int overflows (compute_task_run_parallel).                           *)
THEOREM DivisionIsExact ==
    ASSUME NEW call \in IntCalls, NoOverflow(call)
    PROVE  Exact(call)
<1> SUFFICES ASSUME NEW k \in Ints
             PROVE  IF call.from <= k /\ k < call.to
                    THEN \E i \in DOMAIN Parts(call) : Takers(Parts(call), k) = {i}
                    ELSE Takers(Parts(call), k) = {}
  BY DEF Exact
<1>1. /\ call.from \in Ints /\ call.to \in Ints /\ k \in Int
      /\ call.from \in Int /\ call.to \in Int
  BY SplitAssumption DEF IntCalls, Ints, MaxInt
<1>2. CASE call.from >= call.to
  <2>1. Parts(call) = <<>> BY <1>2 DEF Parts
  <2> QED BY <1>1, <1>2, <2>1 DEF Takers
<1>3. CASE call.from < call.to /\ Light(call)
  <2>1. Parts(call) = <<<<call.from, call.to>>>> BY <1>1, <1>3 DEF Parts
  <2>2. Takers(Parts(call), k) = IF call.from <= k /\ k < call.to THEN {1} ELSE {}
    BY <2>1 DEF Takers
  <2> QED BY <2>1, <2>2
<1>4. CASE call.from < call.to /\ ~Light(call)
  <2> DEFINE fit == FitCores(call)
             n == fit.num_cores
             a == ItersPerCore(fit)
  <2>1. /\ Length(call) = call.to - call.from
        /\ fit.from = call.from /\ fit.to = call.to
        /\ n \in Nat \ {0} /\ fit.min_iters \in Nat \ {0}
    BY <1>4, FitCoresType
  <2>2. Length(fit) = call.to - call.from BY <2>1 DEF Length
  <2>3. a \in Nat \ {0}
    <3> HIDE DEF fit, n
    <3>1. call.to - call.from \in Nat BY <1>1, <1>4
    <3>2. Quotient(call.to - call.from, n) \in Nat BY <3>1, <2>1, QuotientBounds
    <3> QED BY <3>2, <2>1, <2>2 DEF ItersPerCore, n
  <2>4. a * n <= MaxInt /\ call.from + a * n <= MaxInt BY <1>4 DEF NoOverflow
  <2>5. Parts(call) = [i \in 1..n |-> PartOfCore(fit, i - 1)] BY <1>1, <1>4 DEF Parts
  <2> HIDE DEF fit, n, a
  <2>6. ASSUME NEW i \in 1..n
        PROVE  i \in Takers(Parts(call), k) <=>
                   /\ call.from <= k /\ k < call.to
                   /\ a * (i - 1) <= k - call.from
                   /\ i - 1 = n - 1 \/ k - call.from < a * (i - 1) + a
    <3> DEFINE o == i - 1
    <3>1. o \in 0..(n - 1) /\ a * o \in Nat BY <2>1, <2>3
    <3>2. PartOfCore(fit, o) =
             <<call.from + a * o,
               IF call.from + a * o + a > call.to \/ o = n - 1
               THEN call.to ELSE call.from + a * o + a>>
      BY SMTT(40), <3>1, <2>1, <2>3, <2>4, <1>1, PartWithoutWrap DEF n, a
    <3>3. i \in Takers(Parts(call), k)
             <=> PartOfCore(fit, o)[1] <= k /\ k < PartOfCore(fit, o)[2]
      BY <2>5 DEF Takers
    <3> HIDE DEF o
    <3> QED BY <3>1, <3>2, <3>3, <1>1, <2>3 DEF o
  <2>7. Takers(Parts(call), k) \subseteq 1..n BY <2>5 DEF Takers
  <2>8. CASE ~(call.from <= k /\ k < call.to)
    BY <2>6, <2>7, <2>8
  <2>9. CASE call.from <= k /\ k < call.to
    <3>1. k - call.from \in Nat BY <1>1, <2>9
    <3>2. PICK j \in 0..(n - 1) : \A i \in 0..(n - 1) :
             (a * i <= k - call.from /\ (i = n - 1 \/ k - call.from < a * i + a)) <=> i = j
      BY <3>1, <2>1, <2>3, OneBlock
    <3>3. ASSUME NEW i \in 1..n PROVE i \in Takers(Parts(call), k) <=> i = j + 1
      <4>1. i - 1 \in 0..(n - 1) BY <2>1
      <4>2. i - 1 = j <=> i = j + 1 BY <4>1, <3>2, <2>1
      <4> QED BY <4>1, <4>2, <3>2, <2>6, <2>9
    <3>4. j + 1 \in 1..n BY <3>2, <2>1
    <3>5. Takers(Parts(call), k) = {j + 1} BY <3>3, <3>4, <2>7
    <3> QED BY <3>4, <3>5, <2>5, <2>9
  <2> QED BY <2>8, <2>9
<1> QED BY <1>1, <1>2, <1>3, <1>4

(* The jobs a run_parallel under way gives to run make up the interval it  *)
(* was called with.                                                        *)
THEOREM IterationsOnce == Spec => []EveryIterationOnce
<1>1. ASSUME NEW call \in SplitCalls, NoOverflow(call) PROVE Exact(call)
  <2>1. PICK m \in MinIters : call.min_iters = IF m < 1 THEN 1 ELSE m BY DEF SplitCalls
  <2>2. call.from \in Points /\ call.to \in Points /\ call.num_cores \in Cores BY DEF SplitCalls
  <2>3. Bound \in Nat /\ m \in Ints /\ call.num_cores \in 1 .. MaxInt /\ call.from \in Ints /\ call.to \in Ints
    BY <2>1, <2>2, SplitAssumption
  <2>4. call.min_iters \in 1 .. MaxInt BY <2>1, <2>3 DEF Ints, MaxInt
  <2>5. call = [from |-> call.from, to |-> call.to, num_cores |-> call.num_cores,
                min_iters |-> call.min_iters]
    BY DEF SplitCalls
  <2>6. call \in IntCalls BY <2>3, <2>4, <2>5 DEF IntCalls
  <2> QED BY <1>1, <2>6, DivisionIsExact
<1>2. EveryIterationOnce BY <1>1 DEF EveryIterationOnce, Inexact
<1> QED BY <1>2, PTL
=============================================================================
