----------------------------- MODULE GraphProofs -----------------------------
(***************************************************************************)
(* Proofs about the programs on the graph library as MCGraphs runs them,   *)
(* for every burst size and every arc: what the walk of dpdk-graph-fw has  *)
(* in hand explains the differences between its counters, at any place     *)
(* where the CLI may read them; the firewall flag is read once for a whole *)
(* burst; the arc is the enabled features in order; the walks of           *)
(* graph/pipeline and of the small programs deliver what came in.          *)
(***************************************************************************)
EXTENDS MCGraphs, FiniteSetTheorems, SequenceTheorems, WellFoundedInduction, TLAPS

-----------------------------------------------------------------------------
(* Loops                                                                   *)

\* Every non-empty set of naturals has a least element: what stands for
\* induction below, applied to the set of counterexamples.
LEMMA LeastNat ==
  ASSUME NEW T, T \subseteq Nat, T # {}
  PROVE  \E m \in T : \A k \in T : ~(k < m)
<1>1. IsWellFoundedOn(OpToRel(<, Nat), Nat)
  BY NatLessThanWellFounded
<1>2. PICK m \in T : \A k \in T : ~(<<k, m>> \in OpToRel(<, Nat))
  BY <1>1, WFMin
<1> QED
  BY <1>2 DEF OpToRel

\* Induction, for the rounds of a loop: T are those of which something holds.
LEMMA Rounds ==
  ASSUME NEW N \in Nat, NEW T, 0 \in T, \A k \in 1 .. N : k - 1 \in T => k \in T
  PROVE  \A k \in 0 .. N : k \in T
<1> DEFINE U == {k \in 0 .. N : k \notin T}
<1> SUFFICES ASSUME U # {} PROVE FALSE
  OBVIOUS
<1>1. U \subseteq Nat
  OBVIOUS
<1>2. PICK m \in U : \A k \in U : ~(k < m)
  <2> HIDE DEF U
  <2> QED
    BY <1>1, LeastNat
<1>3. m \in 1 .. N
  BY <1>2
<1>4. m - 1 \in 0 .. N /\ m - 1 < m
  BY <1>3
<1> QED
  BY <1>2, <1>3, <1>4

\* A loop of N rounds, the k-th of which makes G[<<k, x>>] of x, has a course.
CourseOf(D, b, G, f, n) ==
  f \in [0 .. n -> D] /\ f[0] = b /\ \A k \in 1 .. n : f[k] = G[<<k, f[k - 1]>>]

LEMMA Iterates ==
  ASSUME NEW D, NEW b \in D, NEW N \in Nat, NEW G \in [(1 .. N) \X D -> D]
  PROVE  \E f : CourseOf(D, b, G, f, N)
<1> USE DEF CourseOf
<1> DEFINE Course(f, n) == CourseOf(D, b, G, f, n)
           T == {n \in 0 .. N : \E f : Course(f, n)}
<1>1. 0 \in T
  <2> DEFINE f == [k \in 0 .. 0 |-> b]
  <2>1. Course(f, 0)
    OBVIOUS
  <2>2. 0 \in 0 .. N
    OBVIOUS
  <2> HIDE DEF f, CourseOf
  <2> QED
    BY <2>1, <2>2
<1>2. ASSUME NEW n \in 1 .. N, n - 1 \in T PROVE n \in T
  <2>1. PICK f : Course(f, n - 1)
    BY <1>2
  <2> DEFINE g == [k \in 0 .. n |-> IF k = n THEN G[<<n, f[n - 1]>>] ELSE f[k]]
  <2>2. n \in Nat /\ n - 1 \in 0 .. (n - 1) /\ n - 1 # n /\ f[n - 1] \in D
    BY <2>1
  <2>3. G[<<n, f[n - 1]>>] \in D
    BY <2>2
  <2>4. \A k \in 0 .. n : k # n => k \in 0 .. (n - 1)
    BY <2>2
  <2>5. g \in [0 .. n -> D]
    BY <2>1, <2>3, <2>4
  <2>6. g[0] = b
    BY <2>1, <2>2
  <2>7. ASSUME NEW k \in 1 .. n PROVE g[k] = G[<<k, g[k - 1]>>]
    <3>1. k - 1 \in 0 .. n /\ k - 1 # n /\ g[k - 1] = f[k - 1] /\ k \in 0 .. n
      BY <2>2
    <3>2. CASE k = n
      BY <3>1, <3>2
    <3>3. CASE k # n
      <4>1. k \in 1 .. (n - 1) /\ g[k] = f[k]
        BY <2>2, <3>1, <3>3
      <4>2. f[k] = G[<<k, f[k - 1]>>]
        BY <2>1, <4>1
      <4> QED
        BY <3>1, <4>1, <4>2
    <3> QED
      BY <3>2, <3>3
  <2>8. Course(g, n)
    BY <2>5, <2>6, <2>7
  <2>9. n \in 0 .. N
    BY <2>2
  <2> QED
    BY <2>8, <2>9
<1>3. N \in T
  <2> HIDE DEF T
  <2> QED
    BY <1>1, <1>2, Rounds
<1> QED
  BY <1>3

\* The course of the loop of Selected.
SelectLoop(s, S, f) ==
  f = [k \in 0 .. Len(s) |->
         IF k = 0 THEN <<>>
         ELSE IF s[k] \in S THEN Append(f[k - 1], s[k]) ELSE f[k - 1]]

SelectRounds(s, S, f, n) ==
  /\ f[0] = <<>> /\ DOMAIN f = 0 .. n
  /\ \A k \in 1 .. n : f[k] = IF s[k] \in S THEN Append(f[k - 1], s[k]) ELSE f[k - 1]

LEMMA SelectRound ==
  ASSUME NEW s, NEW S, NEW n \in Nat, n = Len(s), NEW f, SelectLoop(s, S, f)
  PROVE  SelectRounds(s, S, f, n)
<1>1. /\ DOMAIN f = 0 .. n
      /\ \A k \in 0 .. n : f[k] = IF k = 0 THEN <<>>
                                  ELSE IF s[k] \in S THEN Append(f[k - 1], s[k]) ELSE f[k - 1]
  BY DEF SelectLoop
<1>2. 0 \in 0 .. n /\ \A k \in 1 .. n : k \in 0 .. n /\ k # 0
  OBVIOUS
<1> QED
  BY <1>1, <1>2 DEF SelectRounds

LEMMA SelectCourse ==
  ASSUME NEW T, NEW s \in Seq(T), NEW S
  PROVE  \E f \in [0 .. Len(s) -> Seq(T)] : SelectLoop(s, S, f) /\ Selected(s, S) = f[Len(s)]
<1>1. PICK n \in Nat : n = Len(s) /\ \A k \in 1 .. n : s[k] \in T
  BY LenProperties, ElementOfSeq
<1> DEFINE G == [p \in (1 .. n) \X Seq(T) |-> IF s[p[1]] \in S THEN Append(p[2], s[p[1]]) ELSE p[2]]
<1>2. G \in [(1 .. n) \X Seq(T) -> Seq(T)]
  <2> SUFFICES ASSUME NEW k \in 1 .. n, NEW x \in Seq(T) PROVE Append(x, s[k]) \in Seq(T)
    OBVIOUS
  <2> QED
    BY <1>1, AppendProperties
<1>3. \A k \in 1 .. n, x \in Seq(T) : G[<<k, x>>] = IF s[k] \in S THEN Append(x, s[k]) ELSE x
  OBVIOUS
<1> HIDE DEF G
<1>4. PICK f \in [0 .. n -> Seq(T)] : f[0] = <<>> /\ \A k \in 1 .. n : f[k] = G[<<k, f[k - 1]>>]
  <2>1. <<>> \in Seq(T)
    BY EmptySeq
  <2>2. \E f : CourseOf(Seq(T), <<>>, G, f, n)
    BY <1>1, <1>2, <2>1, Iterates
  <2> QED
    BY <2>2 DEF CourseOf
<1>5. \A k \in 1 .. n : f[k] = IF s[k] \in S THEN Append(f[k - 1], s[k]) ELSE f[k - 1]
  <2> SUFFICES ASSUME NEW k \in 1 .. n PROVE f[k] = IF s[k] \in S THEN Append(f[k - 1], s[k]) ELSE f[k - 1]
    OBVIOUS
  <2>1. k - 1 \in 0 .. n
    BY <1>1
  <2>2. f[k - 1] \in Seq(T)
    BY <1>4, <2>1
  <2> QED
    BY <1>3, <1>4, <2>2
<1>6. SelectLoop(s, S, f)
  <2>1. \A k \in 0 .. n : f[k] = IF k = 0 THEN <<>>
                                 ELSE IF s[k] \in S THEN Append(f[k - 1], s[k]) ELSE f[k - 1]
    <3>1. \A k \in 0 .. n : k = 0 \/ (k # 0 /\ k \in 1 .. n)
      BY <1>1
    <3> QED
      BY <1>4, <1>5, <3>1
  <2>2. f = [k \in 0 .. n |-> f[k]]
    BY <1>4
  <2> QED
    BY <1>1, <2>1, <2>2 DEF SelectLoop
<1> DEFINE h == CHOOSE g : SelectLoop(s, S, g)
<1>7. SelectLoop(s, S, h)
  BY <1>6
<1>8. Selected(s, S) = h[n]
  BY <1>1 DEF Selected, SelectLoop
<1> HIDE DEF h
<1>9. /\ h[0] = <<>> /\ \A k \in 1 .. n : h[k] = IF s[k] \in S THEN Append(h[k - 1], s[k]) ELSE h[k - 1]
      /\ DOMAIN h = 0 .. n
  <2>1. SelectRounds(s, S, h, n)
    BY <1>1, <1>7, SelectRound
  <2> QED
    BY <2>1 DEF SelectRounds
<1>10. \A k \in 0 .. n : h[k] = f[k]
  <2> DEFINE E == {k \in 0 .. n : h[k] = f[k]}
  <2>1. 0 \in E
    BY <1>4, <1>9
  <2>2. \A k \in 1 .. n : k - 1 \in E => k \in E
    <3>1. \A k \in 1 .. n : k \in 0 .. n
      OBVIOUS
    <3> QED
      BY <1>5, <1>9, <3>1
  <2>3. \A k \in 0 .. n : k \in E
    <3> HIDE DEF E
    <3> QED
      BY <2>1, <2>2, Rounds
  <2> QED
    BY <2>3
<1> QED
  BY <1>1, <1>4, <1>6, <1>8, <1>10

\* What has been kept of the first k elements of s is in order: at tells where
\* each stood.
Keeps(r, s, S, k, at) ==
  /\ at \in [1 .. Len(r) -> 1 .. k]
  /\ \A j, l \in 1 .. Len(r) : j < l => at[j] < at[l]
  /\ \A j \in 1 .. Len(r) : r[j] = s[at[j]] /\ s[at[j]] \in S
  /\ \A m \in 1 .. k : s[m] \in S => \E j \in 1 .. Len(r) : at[j] = m

LEMMA KeepsMore ==
  ASSUME NEW T, NEW s \in Seq(T), NEW S, NEW k \in 1 .. Len(s), NEW r \in Seq(T), NEW at, Keeps(r, s, S, k - 1, at)
  PROVE  /\ s[k] \in S => \E at2 : Keeps(Append(r, s[k]), s, S, k, at2)
         /\ s[k] \notin S => Keeps(r, s, S, k, at)
<1>1. PICK n \in Nat : n = Len(r)
  BY LenProperties
<1>2. k \in Nat /\ s[k] \in T /\ (\A m \in 1 .. k : m # k => m \in 1 .. (k - 1)) /\ (\A m \in 1 .. (k - 1) : m \in 1 .. k /\ m < k)
  BY LenProperties, ElementOfSeq
<1>3. /\ at \in [1 .. n -> 1 .. (k - 1)]
      /\ \A j, l \in 1 .. n : j < l => at[j] < at[l]
      /\ \A j \in 1 .. n : r[j] = s[at[j]] /\ s[at[j]] \in S
      /\ \A m \in 1 .. (k - 1) : s[m] \in S => \E j \in 1 .. n : at[j] = m
  BY <1>1 DEF Keeps
<1>4. ASSUME s[k] \notin S PROVE Keeps(r, s, S, k, at)
  <2>1. at \in [1 .. n -> 1 .. k]
    BY <1>2, <1>3
  <2> QED
    BY <1>1, <1>2, <1>3, <1>4, <2>1 DEF Keeps
<1>5. ASSUME s[k] \in S PROVE \E at2 : Keeps(Append(r, s[k]), s, S, k, at2)
  <2>1. PICK u : u = Append(r, s[k])
    OBVIOUS
  <2>2. Len(u) = n + 1 /\ u[n + 1] = s[k] /\ \A j \in 1 .. n : u[j] = r[j]
    BY <1>1, <1>2, <2>1, AppendProperties
  <2> DEFINE at2 == [j \in 1 .. (n + 1) |-> IF j = n + 1 THEN k ELSE at[j]]
  <2>3. (\A j \in 1 .. (n + 1) : j # n + 1 => j \in 1 .. n) /\ (\A j \in 1 .. n : j \in 1 .. (n + 1) /\ j # n + 1) /\ n + 1 \in 1 .. (n + 1)
    BY <1>1
  <2>4. at2 \in [1 .. (n + 1) -> 1 .. k] /\ at2[n + 1] = k /\ \A j \in 1 .. n : at2[j] = at[j]
    BY <1>2, <1>3, <2>3
  <2> HIDE DEF at2
  <2>5. ASSUME NEW j \in 1 .. (n + 1), NEW l \in 1 .. (n + 1), j < l PROVE at2[j] < at2[l]
    <3>1. j \in 1 .. n
      BY <1>1, <2>5
    <3>2. CASE l = n + 1
      BY <1>2, <1>3, <2>4, <3>1, <3>2
    <3>3. CASE l \in 1 .. n
      BY <1>3, <2>4, <2>5, <3>1, <3>3
    <3> QED
      BY <2>3, <3>2, <3>3
  <2>6. \A j \in 1 .. (n + 1) : u[j] = s[at2[j]] /\ s[at2[j]] \in S
    BY <1>3, <1>5, <2>2, <2>3, <2>4
  <2>7. \A m \in 1 .. k : s[m] \in S => \E j \in 1 .. (n + 1) : at2[j] = m
    BY <1>2, <1>3, <2>3, <2>4
  <2>8. Keeps(u, s, S, k, at2)
    BY <2>2, <2>4, <2>5, <2>6, <2>7 DEF Keeps
  <2> QED
    BY <2>1, <2>8
<1> QED
  BY <1>4, <1>5

\* What Selected returns.
LEMMA SelectedKeeps ==
  ASSUME NEW T, NEW s \in Seq(T), NEW S
  PROVE  Selected(s, S) \in Seq(T) /\ \E at : Keeps(Selected(s, S), s, S, Len(s), at)
<1>1. PICK n \in Nat : n = Len(s)
  BY LenProperties
<1>2. PICK f \in [0 .. n -> Seq(T)] : SelectLoop(s, S, f) /\ Selected(s, S) = f[n]
  BY <1>1, SelectCourse
<1>3. f[0] = <<>> /\ \A k \in 1 .. n : f[k] = IF s[k] \in S THEN Append(f[k - 1], s[k]) ELSE f[k - 1]
  <2>1. SelectRounds(s, S, f, n)
    BY <1>1, <1>2, SelectRound
  <2> QED
    BY <2>1 DEF SelectRounds
<1> DEFINE E == {k \in 0 .. n : \E at : Keeps(f[k], s, S, k, at)}
<1>4. 0 \in E
  <2>1. Len(f[0]) = 0
    BY <1>3
  <2> DEFINE at == [j \in 1 .. 0 |-> 0]
  <2>2. Keeps(f[0], s, S, 0, at)
    BY <2>1 DEF Keeps
  <2>3. 0 \in 0 .. n
    OBVIOUS
  <2> HIDE DEF at
  <2> QED
    BY <2>2, <2>3
<1>5. ASSUME NEW k \in 1 .. n, k - 1 \in E PROVE k \in E
  <2>1. PICK at : Keeps(f[k - 1], s, S, k - 1, at)
    BY <1>5
  <2>2. k \in 0 .. n /\ k - 1 \in 0 .. n /\ f[k - 1] \in Seq(T)
    BY <1>1, <1>2
  <2>3. \E at2 : Keeps(f[k], s, S, k, at2)
    BY <1>1, <1>3, <2>1, <2>2, KeepsMore, ZenonT(30)
  <2> QED
    BY <2>2, <2>3
<1>6. n \in 0 .. n
  BY <1>1
<1>7. n \in E
  <2> HIDE DEF E
  <2> QED
    BY <1>1, <1>4, <1>5, <1>6, Rounds
<1> QED
  BY <1>1, <1>2, <1>6, <1>7

\* No more is kept than there was.
LEMMA KeepsFewer ==
  ASSUME NEW r, Len(r) \in Nat, NEW s, NEW S, NEW k \in Nat, NEW at, Keeps(r, s, S, k, at)
  PROVE  Len(r) <= k
<1>1. PICK n \in Nat : n = Len(r)
  OBVIOUS
<1>2. at \in [1 .. n -> 1 .. k] /\ \A j, l \in 1 .. n : j < l => at[j] < at[l]
  BY <1>1 DEF Keeps
<1> DEFINE E == {j \in 0 .. n : j # 0 => at[j] >= j}
<1>3. 0 \in E
  BY <1>1
<1>4. ASSUME NEW j \in 1 .. n, j - 1 \in E PROVE j \in E
  <2>1. CASE j = 1
    BY <1>1, <1>2, <2>1
  <2>2. CASE j # 1
    <3>1. j - 1 \in 1 .. n /\ j - 1 < j /\ j \in 0 .. n
      BY <1>1, <2>2
    <3>2. at[j - 1] >= j - 1 /\ at[j - 1] < at[j] /\ at[j] \in Nat /\ at[j - 1] \in Nat
      BY <1>2, <1>4, <3>1
    <3> QED
      BY <3>1, <3>2
  <2> QED
    BY <2>1, <2>2
<1>5. n \in E
  <2>1. n \in 0 .. n
    BY <1>1
  <2> HIDE DEF E
  <2> QED
    BY <1>1, <1>3, <1>4, <2>1, Rounds
<1>6. CASE n = 0
  BY <1>1, <1>6
<1>7. CASE n # 0
  <2>1. n \in 1 .. n
    BY <1>1, <1>7
  <2>2. at[n] >= n /\ at[n] \in 1 .. k
    BY <1>2, <1>5, <1>7, <2>1
  <2> QED
    BY <1>1, <2>2
<1> QED
  BY <1>6, <1>7

-----------------------------------------------------------------------------
(* dpdk-graph-fw                                                           *)

\* What the firewall lets through: long packets only, and no more than came.
LEMMA KeptLong ==
  ASSUME NEW s \in Seq(Lengths)
  PROVE  /\ Kept(s) \in Seq(Lengths) /\ Len(Kept(s)) <= Len(s)
         /\ \A j \in 1 .. Len(Kept(s)) : IsLong(Kept(s)[j])
<1>1. PICK S : S = {l \in Lengths : IsLong(l)}
  OBVIOUS
<1>2. PICK r : r = Kept(s)
  OBVIOUS
<1>3. r = Selected(s, S)
  BY <1>1, <1>2 DEF Kept
<1>4. r \in Seq(Lengths) /\ \E at : Keeps(r, s, S, Len(s), at)
  BY <1>3, SelectedKeeps
<1>5. PICK at : Keeps(r, s, S, Len(s), at)
  BY <1>4
<1>6. Len(s) \in Nat /\ Len(r) \in Nat
  BY <1>4, LenProperties
<1>7. Len(r) <= Len(s)
  BY <1>5, <1>6, KeepsFewer
<1>8. \A j \in 1 .. Len(r) : r[j] \in S
  BY <1>5 DEF Keeps
<1> QED
  BY <1>1, <1>2, <1>4, <1>7, <1>8

Nodes4 == {"rx", "parser", "firewall", "tx"}

\* Types of what the walk and the CLI share.
Typed ==
  /\ count \in [Nodes4 -> Nat] /\ dropped \in Nat
  /\ objs \in Seq(Lengths) /\ Len(objs) <= Burst
  /\ walk_pc \in {"test", "rx", "parser", "firewall", "tx", "done"}
  /\ firewall_enabled \in BOOLEAN /\ was_off \in BOOLEAN
  /\ shown \in Seq(Nat) /\ Len(shown) <= 4
  /\ cli_pc = "execute" => Len(shown) < 4

\* The packets in hand are the difference between the counters.
InHand ==
  /\ count["rx"] = count["parser"] + (IF walk_pc = "parser" THEN Len(objs) ELSE 0)
  /\ count["parser"] = count["tx"] + dropped + (IF walk_pc \in {"firewall", "tx"} THEN Len(objs) ELSE 0)
  /\ count["firewall"] + (IF walk_pc = "firewall" THEN Len(objs) ELSE 0) <= count["parser"]

\* What has been printed was true when it was read.
Printed ==
  /\ Len(shown) >= 1 => shown[1] <= count["rx"]
  /\ Len(shown) >= 2 => shown[1] <= shown[2] + Burst /\ shown[2] <= count["parser"]
  /\ Len(shown) >= 3 => shown[3] <= count["firewall"]
  /\ Len(shown) >= 4 => /\ shown[2] <= shown[4] + dropped + Burst
                        /\ shown[3] <= shown[4] + dropped + Burst

\* The firewall was on all the time, so what it passes on is long.
OnSince ==
  /\ ~was_off => firewall_enabled
  /\ walk_pc = "tx" /\ ~was_off => \A j \in 1 .. Len(objs) : IsLong(objs[j])

FwInv == Typed /\ InHand /\ Printed /\ OnSince

-----------------------------------------------------------------------------
LEMMA FwInit == Init => FwInv
<1> SUFFICES ASSUME Init PROVE FwInv
  OBVIOUS
<1>1. /\ <<>> \in Seq(Lengths) /\ <<>> \in Seq(Nat) /\ Len(<<>>) = 0
      /\ 0 <= Burst
  BY EmptySeq, GraphFwAssumption
<1>2. count \in [Nodes4 -> Nat]
  BY DEF Init, Nodes4
<1>3. Typed
  <2>1. objs \in Seq(Lengths) /\ Len(objs) <= Burst
    BY <1>1 DEF Init
  <2>2. shown \in Seq(Nat) /\ Len(shown) <= 4 /\ cli_pc # "execute"
    BY <1>1 DEF Init
  <2>3. firewall_enabled \in BOOLEAN /\ was_off \in BOOLEAN
    BY DEF Init
  <2>4. dropped \in Nat /\ walk_pc = "test"
    BY DEF Init
  <2> QED
    BY <1>2, <2>1, <2>2, <2>3, <2>4 DEF Typed
<1>4. InHand
  BY DEF Init, InHand
<1>5. Printed
  BY <1>1 DEF Init, Printed
<1>6. OnSince
  BY DEF Init, OnSince
<1> QED
  BY <1>3, <1>4, <1>5, <1>6 DEF FwInv

\* A counter is raised; the others stay.
LEMMA AddStep ==
  ASSUME count \in [Nodes4 -> Nat], NEW c \in Nodes4, NEW n \in Nat, Add(c, n)
  PROVE  /\ count' \in [Nodes4 -> Nat] /\ count'[c] = count[c] + n
         /\ \A d \in Nodes4 \ {c} : count'[d] = count[d]
BY DEF Add, Nodes4

\* The counters only grow, so what was printed stays true.
LEMMA PrintedKept ==
  ASSUME Typed, Printed, UNCHANGED shown, count' \in [Nodes4 -> Nat], dropped' \in Nat,
         count["rx"] <= count'["rx"], count["parser"] <= count'["parser"],
         count["firewall"] <= count'["firewall"], dropped <= dropped'
  PROVE  Printed'
<1>1. /\ count["rx"] \in Nat /\ count["parser"] \in Nat /\ dropped \in Nat
      /\ count'["rx"] \in Nat /\ count'["parser"] \in Nat /\ Burst \in Nat
      /\ count["firewall"] \in Nat /\ count'["firewall"] \in Nat /\ dropped' \in Nat
  BY GraphFwAssumption DEF Typed, Nodes4
<1>2. \A j \in 1 .. Len(shown) : shown[j] \in Nat
  BY ElementOfSeq DEF Typed
<1>3. Len(shown) \in Nat
  BY LenProperties DEF Typed
<1>4. Len(shown) >= 1 => shown[1] \in Nat
  BY <1>2, <1>3
<1>5. Len(shown) >= 2 => shown[2] \in Nat
  BY <1>2, <1>3
<1>6. /\ Len(shown) >= 3 => shown[3] \in Nat
      /\ Len(shown) >= 4 => shown[4] \in Nat /\ shown[2] \in Nat /\ shown[3] \in Nat
  BY <1>2, <1>3
<1>7. Len(shown) >= 1 => shown[1] <= count'["rx"]
  BY <1>1, <1>4 DEF Printed
<1>8. Len(shown) >= 2 => shown[1] <= shown[2] + Burst /\ shown[2] <= count'["parser"]
  BY <1>1, <1>5 DEF Printed
<1>9. Len(shown) >= 4 => /\ shown[2] <= shown[4] + dropped' + Burst
                         /\ shown[3] <= shown[4] + dropped' + Burst
  <2> SUFFICES ASSUME Len(shown) >= 4
               PROVE  /\ shown[2] <= shown[4] + dropped' + Burst
                      /\ shown[3] <= shown[4] + dropped' + Burst
    OBVIOUS
  <2>1. shown[2] \in Nat /\ shown[3] \in Nat /\ shown[4] \in Nat
    BY <1>6
  <2>2. shown[2] <= shown[4] + dropped + Burst /\ shown[3] <= shown[4] + dropped + Burst
    BY DEF Printed
  <2>3. PICK x, y, z \in Nat : x = shown[2] /\ y = shown[3] /\ z = shown[4]
    BY <2>1
  <2>4. x <= z + dropped + Burst /\ y <= z + dropped + Burst
    BY <2>2, <2>3
  <2>5. x <= z + dropped' + Burst /\ y <= z + dropped' + Burst
    <3>1. \A l, m, d, d2, b \in Nat : l <= m + d + b /\ d <= d2 => l <= m + d2 + b
      OBVIOUS
    <3>2. dropped \in Nat /\ dropped' \in Nat /\ Burst \in Nat
      BY <1>1
    <3> QED
      BY <2>3, <2>4, <3>1, <3>2
  <2> QED
    BY <2>3, <2>5
<1>10. Len(shown) >= 3 => shown[3] <= count'["firewall"]
  BY <1>1, <1>6 DEF Printed
<1> QED
  BY <1>7, <1>8, <1>9, <1>10 DEF Printed

LEMMA FwRx == ASSUME FwInv, rx_node_process PROVE FwInv'
<1>1. Typed /\ InHand /\ Printed /\ OnSince
  BY DEF FwInv
<1>2. PICK nb_rx \in 0 .. Burst : \E ls \in [1 .. nb_rx -> Lengths] :
        /\ Add("rx", nb_rx) /\ objs' = ls
        /\ walk_pc' = IF nb_rx > 0 THEN "parser" ELSE "test"
  BY DEF rx_node_process
<1>3. PICK ls \in [1 .. nb_rx -> Lengths] :
        /\ Add("rx", nb_rx) /\ objs' = ls
        /\ walk_pc' = IF nb_rx > 0 THEN "parser" ELSE "test"
  BY <1>2
<1>4. nb_rx \in Nat /\ Burst \in Nat
  BY GraphFwAssumption
<1>5. /\ count' \in [Nodes4 -> Nat] /\ count'["rx"] = count["rx"] + nb_rx
      /\ count'["parser"] = count["parser"] /\ count'["firewall"] = count["firewall"]
      /\ count'["tx"] = count["tx"]
  BY <1>1, <1>3, <1>4, AddStep DEF Typed, Nodes4
<1>6. objs' \in Seq(Lengths) /\ Len(objs') = nb_rx
  <2>1. objs' \in Seq(Lengths)
    BY <1>3, <1>4, SeqDef
  <2>2. DOMAIN objs' = 1 .. nb_rx /\ Len(objs') \in Nat /\ DOMAIN objs' = 1 .. Len(objs')
    BY <1>3, <2>1, LenProperties
  <2> QED
    BY <1>4, <2>1, <2>2
<1>7. /\ walk_pc = "rx" /\ was_off' = ~firewall_enabled
      /\ UNCHANGED <<firewall_enabled, dropped, cli_pc, shown>>
  BY DEF rx_node_process, cliVars
<1>8. Typed'
  BY <1>1, <1>3, <1>4, <1>5, <1>6, <1>7 DEF Typed
<1>9. /\ count["rx"] \in Nat /\ count["parser"] \in Nat /\ count["tx"] \in Nat
      /\ count["firewall"] \in Nat /\ dropped \in Nat
  BY <1>1 DEF Typed, Nodes4
<1>10. /\ count["rx"] = count["parser"] /\ count["parser"] = count["tx"] + dropped
       /\ count["firewall"] <= count["parser"]
  BY <1>1, <1>7, <1>9 DEF InHand
<1>11. InHand'
  <2>1. CASE nb_rx > 0
    BY <1>3, <1>4, <1>5, <1>6, <1>7, <1>9, <1>10, <2>1 DEF InHand
  <2>2. CASE nb_rx = 0
    BY <1>3, <1>5, <1>7, <1>9, <1>10, <2>2 DEF InHand
  <2> QED
    BY <1>4, <2>1, <2>2
<1>12. Printed'
  BY <1>1, <1>4, <1>5, <1>7, <1>9, PrintedKept
<1>13. OnSince'
  BY <1>1, <1>3, <1>7 DEF OnSince, Typed
<1> QED
  BY <1>8, <1>11, <1>12, <1>13 DEF FwInv

LEMMA FwParser == ASSUME FwInv, parser_node_process PROVE FwInv'
<1>1. Typed /\ InHand /\ Printed /\ OnSince
  BY DEF FwInv
<1>2. /\ walk_pc = "parser" /\ Add("parser", Len(objs))
      /\ walk_pc' = IF firewall_enabled THEN "firewall" ELSE "tx"
      /\ UNCHANGED <<firewall_enabled, objs, dropped, cli_pc, shown, was_off>>
  BY DEF parser_node_process, cliVars
<1>3. /\ count["rx"] \in Nat /\ count["parser"] \in Nat /\ count["tx"] \in Nat
      /\ count["firewall"] \in Nat /\ dropped \in Nat /\ Len(objs) \in Nat
  BY <1>1, LenProperties DEF Typed, Nodes4
<1>4. /\ count' \in [Nodes4 -> Nat] /\ count'["parser"] = count["parser"] + Len(objs)
      /\ count'["rx"] = count["rx"] /\ count'["firewall"] = count["firewall"]
      /\ count'["tx"] = count["tx"]
  BY <1>1, <1>2, <1>3, AddStep DEF Typed, Nodes4
<1>5. Typed'
  BY <1>1, <1>2, <1>4 DEF Typed
<1>6. /\ count["rx"] = count["parser"] + Len(objs) /\ count["parser"] = count["tx"] + dropped
      /\ count["firewall"] <= count["parser"]
  BY <1>1, <1>2, <1>3 DEF InHand
<1>7. InHand'
  BY <1>2, <1>3, <1>4, <1>6 DEF InHand
<1>8. Printed'
  BY <1>1, <1>2, <1>3, <1>4, PrintedKept
<1>9. OnSince'
  BY <1>1, <1>2 DEF OnSince
<1> QED
  BY <1>5, <1>7, <1>8, <1>9 DEF FwInv

LEMMA FwFirewall == ASSUME FwInv, firewall_node_process PROVE FwInv'
<1>1. Typed /\ InHand /\ Printed /\ OnSince
  BY DEF FwInv
<1>2. /\ walk_pc = "firewall" /\ Add("firewall", Len(objs))
      /\ objs' = Kept(objs) /\ dropped' = dropped + (Len(objs) - Len(objs'))
      /\ walk_pc' = IF Len(objs') > 0 THEN "tx" ELSE "test"
      /\ UNCHANGED <<firewall_enabled, cli_pc, shown, was_off>>
  BY DEF firewall_node_process, cliVars
<1>3. /\ count["rx"] \in Nat /\ count["parser"] \in Nat /\ count["tx"] \in Nat
      /\ count["firewall"] \in Nat /\ dropped \in Nat /\ Len(objs) \in Nat /\ Burst \in Nat
  BY <1>1, LenProperties, GraphFwAssumption DEF Typed, Nodes4
<1>4. /\ count' \in [Nodes4 -> Nat] /\ count'["firewall"] = count["firewall"] + Len(objs)
      /\ count'["rx"] = count["rx"] /\ count'["parser"] = count["parser"]
      /\ count'["tx"] = count["tx"]
  BY <1>1, <1>2, <1>3, AddStep DEF Typed, Nodes4
<1>5. /\ objs' \in Seq(Lengths) /\ Len(objs') <= Len(objs)
      /\ \A j \in 1 .. Len(objs') : IsLong(objs'[j])
  BY <1>1, <1>2, KeptLong DEF Typed
<1>6. Len(objs') \in Nat /\ dropped' \in Nat /\ dropped <= dropped'
  <2>1. Len(objs') \in Nat
    BY <1>5, LenProperties
  <2> QED
    BY <1>2, <1>3, <1>5, <2>1
<1>7. Typed'
  <2>1. Len(objs) <= Burst /\ Len(objs') <= Burst
    BY <1>1, <1>3, <1>5, <1>6 DEF Typed
  <2> QED
    BY <1>1, <1>2, <1>4, <1>5, <1>6, <2>1 DEF Typed
<1>8. /\ count["rx"] = count["parser"] /\ count["parser"] = count["tx"] + dropped + Len(objs)
      /\ count["firewall"] + Len(objs) <= count["parser"]
  BY <1>1, <1>2, <1>3 DEF InHand
<1>9. count["tx"] + dropped + Len(objs) = count["tx"] + dropped' + Len(objs')
  BY <1>2, <1>3, <1>6
<1>10. InHand'
  <2>1. CASE Len(objs') > 0
    BY <1>2, <1>3, <1>4, <1>8, <1>9, <2>1, SMTT(30) DEF InHand
  <2>2. CASE Len(objs') = 0
    <3>1. count["parser"] = count["tx"] + dropped'
      BY <1>3, <1>6, <1>8, <1>9, <2>2
    <3> QED
      BY <1>2, <1>3, <1>4, <1>6, <1>8, <2>2, <3>1 DEF InHand
  <2> QED
    BY <1>6, <2>1, <2>2
<1>11. Printed'
  BY <1>1, <1>2, <1>3, <1>4, <1>6, PrintedKept
<1>12. OnSince'
  BY <1>1, <1>2, <1>5 DEF OnSince
<1> QED
  BY <1>7, <1>10, <1>11, <1>12 DEF FwInv

LEMMA FwTx == ASSUME FwInv, tx_node_process PROVE FwInv'
<1>1. Typed /\ InHand /\ Printed /\ OnSince
  BY DEF FwInv
<1>2. /\ walk_pc = "tx" /\ Add("tx", Len(objs)) /\ objs' = <<>> /\ walk_pc' = "test"
      /\ UNCHANGED <<firewall_enabled, dropped, cli_pc, shown, was_off>>
  BY DEF tx_node_process, cliVars
<1>3. /\ count["rx"] \in Nat /\ count["parser"] \in Nat /\ count["tx"] \in Nat
      /\ count["firewall"] \in Nat /\ dropped \in Nat /\ Len(objs) \in Nat /\ Burst \in Nat
  BY <1>1, LenProperties, GraphFwAssumption DEF Typed, Nodes4
<1>4. /\ count' \in [Nodes4 -> Nat] /\ count'["tx"] = count["tx"] + Len(objs)
      /\ count'["rx"] = count["rx"] /\ count'["parser"] = count["parser"]
      /\ count'["firewall"] = count["firewall"]
  BY <1>1, <1>2, <1>3, AddStep DEF Typed, Nodes4
<1>5. objs' \in Seq(Lengths) /\ Len(objs') = 0
  BY <1>2, EmptySeq
<1>6. Typed'
  BY <1>1, <1>2, <1>3, <1>4, <1>5 DEF Typed
<1>7. /\ count["rx"] = count["parser"] /\ count["parser"] = count["tx"] + dropped + Len(objs)
      /\ count["firewall"] <= count["parser"]
  BY <1>1, <1>2, <1>3 DEF InHand
<1>8. InHand'
  BY <1>2, <1>3, <1>4, <1>7 DEF InHand
<1>9. Printed'
  BY <1>1, <1>2, <1>3, <1>4, PrintedKept
<1>10. OnSince'
  BY <1>1, <1>2 DEF OnSince
<1> QED
  BY <1>6, <1>8, <1>9, <1>10 DEF FwInv

\* show stats reads one counter: it may lag what was printed by a burst.
LEMMA FwShow == ASSUME FwInv, ShowStats PROVE FwInv'
<1>1. Typed /\ InHand /\ Printed /\ OnSince
  BY DEF FwInv
<1> DEFINE n == Len(shown)
           x == count[Counters[Len(shown) + 1]]
<1>2. /\ cli_pc = "execute" /\ shown' = Append(shown, x)
      /\ cli_pc' = IF Len(shown') = 4 THEN "test" ELSE "execute"
      /\ UNCHANGED <<firewall_enabled, count, walk_pc, objs, dropped, was_off>>
  BY DEF ShowStats, graphVars
<1>3. n \in Nat /\ n < 4 /\ Burst \in Nat
  BY <1>1, <1>2, LenProperties, GraphFwAssumption DEF Typed
<1>4. n \in {0, 1, 2, 3}
  <2> HIDE DEF n
  <2> QED
    BY <1>3
<1>5. /\ n = 0 => x = count["rx"]
      /\ n = 1 => x = count["parser"]
      /\ n = 2 => x = count["firewall"]
      /\ n = 3 => x = count["tx"]
  <2>1. /\ Counters[1] = "rx" /\ Counters[2] = "parser"
        /\ Counters[3] = "firewall" /\ Counters[4] = "tx"
    BY DEF Counters
  <2>2. x = count[Counters[n + 1]]
    OBVIOUS
  <2> HIDE DEF n, x
  <2> QED
    BY <2>1, <2>2
<1>6. /\ count["rx"] \in Nat /\ count["parser"] \in Nat /\ count["tx"] \in Nat
      /\ count["firewall"] \in Nat /\ dropped \in Nat /\ Len(objs) \in Nat /\ Len(objs) <= Burst
  BY <1>1, LenProperties DEF Typed, Nodes4
<1>7. x \in Nat
  BY <1>4, <1>5, <1>6
<1> HIDE DEF x
<1>8. /\ shown' \in Seq(Nat) /\ Len(shown') = n + 1
      /\ \A j \in 1 .. n : shown'[j] = shown[j]
      /\ shown'[n + 1] = x
  BY <1>1, <1>2, <1>7, AppendProperties DEF Typed
<1>9. Typed'
  <2>1. Len(shown') <= 4 /\ (cli_pc' = "execute" => Len(shown') < 4)
    BY <1>2, <1>3, <1>8
  <2> QED
    BY <1>1, <1>2, <1>8, <2>1 DEF Typed
<1>10. InHand' /\ OnSince'
  BY <1>1, <1>2 DEF InHand, OnSince
<1>11. /\ count["rx"] <= count["parser"] + Burst
       /\ count["parser"] <= count["tx"] + dropped + Burst
       /\ count["firewall"] <= count["tx"] + dropped + Burst
  <2>1. /\ count["rx"] <= count["parser"] + Burst
        /\ count["parser"] <= count["tx"] + dropped + Burst
    <3>1. PICK u, v \in 0 .. Len(objs) : /\ count["rx"] = count["parser"] + u
                                         /\ count["parser"] = count["tx"] + dropped + v
      BY <1>1, <1>6 DEF InHand
    <3>2. u \in Nat /\ v \in Nat /\ u <= Burst /\ v <= Burst
      BY <1>3, <1>6, <3>1
    <3> QED
      BY <1>3, <1>6, <3>1, <3>2, SMTT(30)
  <2>2. count["firewall"] <= count["parser"]
    BY <1>1, <1>3, <1>6 DEF InHand
  <2> QED
    BY <1>3, <1>6, <2>1, <2>2
<1>12. \A j \in 1 .. n : shown[j] \in Nat
  BY <1>1, ElementOfSeq DEF Typed
<1> HIDE DEF n
<1>13. Printed'
  <2>1. CASE n = 0
    BY <1>2, <1>5, <1>6, <1>8, <2>1 DEF Printed
  <2>2. CASE n = 1
    <3>1. shown'[1] = shown[1] /\ shown'[2] = count["parser"] /\ Len(shown') = 2
      BY <1>5, <1>8, <2>2
    <3>2. shown[1] \in Nat /\ shown[1] <= count["rx"]
      BY <1>1, <1>12, <2>2 DEF Printed, n
    <3>3. shown[1] <= count["parser"] + Burst
      BY <1>3, <1>6, <1>11, <3>2
    <3> QED
      BY <1>2, <1>6, <3>1, <3>2, <3>3 DEF Printed
  <2>3. CASE n = 2
    <3>1. /\ shown'[1] = shown[1] /\ shown'[2] = shown[2] /\ shown'[3] = count["firewall"]
          /\ Len(shown') = 3
      BY <1>5, <1>8, <2>3
    <3> QED
      BY <1>1, <1>2, <1>6, <2>3, <3>1 DEF Printed, n
  <2>4. CASE n = 3
    <3>1. /\ shown'[1] = shown[1] /\ shown'[2] = shown[2] /\ shown'[3] = shown[3]
          /\ shown'[4] = count["tx"] /\ Len(shown') = 4
      BY <1>5, <1>8, <2>4
    <3>2. /\ shown[1] <= count["rx"] /\ shown[1] <= shown[2] + Burst
          /\ shown[2] <= count["parser"] /\ shown[2] \in Nat
          /\ shown[3] <= count["firewall"] /\ shown[3] \in Nat
      BY <1>1, <1>12, <2>4 DEF Printed, n
    <3>3. /\ shown[2] <= count["tx"] + dropped + Burst
          /\ shown[3] <= count["tx"] + dropped + Burst
      <4>1. PICK most \in Nat : most = count["tx"] + dropped + Burst
        BY <1>3, <1>6
      <4>2. shown[2] <= most /\ shown[3] <= most
        BY <1>6, <1>11, <3>2, <4>1, SMTT(30)
      <4> QED
        BY <4>1, <4>2
    <3> QED
      BY <1>2, <3>1, <3>2, <3>3 DEF Printed
  <2> QED
    BY <1>4, <2>1, <2>2, <2>3, <2>4
<1> QED
  BY <1>9, <1>10, <1>13 DEF FwInv

\* The other commands, and the places where nothing is counted.
LEMMA FwOther ==
  ASSUME FwInv,
         \/ WalkTest \/ ReadCommand \/ EnableFirewall \/ DisableFirewall
         \/ Quit \/ Help \/ CliTest \/ UNCHANGED vars
  PROVE  FwInv'
<1>1. Typed /\ InHand /\ Printed /\ OnSince
  BY DEF FwInv
<1>2. <<>> \in Seq(Nat) /\ Len(<<>>) = 0
  BY EmptySeq
<1>3. UNCHANGED <<count, objs, dropped>>
  BY DEF WalkTest, ReadCommand, EnableFirewall, DisableFirewall, Quit, Help, CliTest, vars,
         graphVars, cliVars
<1>4. walk_pc' = walk_pc \/ (walk_pc = "test" /\ walk_pc' \in {"rx", "done"})
  BY DEF WalkTest, ReadCommand, EnableFirewall, DisableFirewall, Quit, Help, CliTest, vars,
         graphVars, cliVars
<1>5. \/ shown' = <<>>
      \/ /\ shown' = shown
         /\ cli_pc' = "execute" => cli_pc = "execute"
  BY DEF WalkTest, ReadCommand, EnableFirewall, DisableFirewall, Quit, Help, CliTest, vars,
         graphVars, cliVars
<1>6. \/ firewall_enabled' = firewall_enabled /\ was_off' = was_off
      \/ firewall_enabled' = TRUE /\ was_off' = was_off
      \/ firewall_enabled' = FALSE /\ was_off' = TRUE
  BY DEF WalkTest, ReadCommand, EnableFirewall, DisableFirewall, Quit, Help, CliTest, vars,
         graphVars, cliVars
<1>7. Typed'
  <2>1. /\ shown' \in Seq(Nat) /\ Len(shown') <= 4
        /\ cli_pc' = "execute" => Len(shown') < 4
    <3>1. CASE shown' = <<>>
      BY <1>2, <3>1
    <3>2. CASE shown' = shown /\ (cli_pc' = "execute" => cli_pc = "execute")
      BY <1>1, <3>2 DEF Typed
    <3> QED
      BY <1>5, <3>1, <3>2
  <2>2. firewall_enabled' \in BOOLEAN /\ was_off' \in BOOLEAN
    BY <1>1, <1>6 DEF Typed
  <2>3. walk_pc' \in {"test", "rx", "parser", "firewall", "tx", "done"}
    BY <1>1, <1>4 DEF Typed
  <2> QED
    BY <1>1, <1>3, <2>1, <2>2, <2>3 DEF Typed
<1>8. InHand'
  BY <1>1, <1>3, <1>4 DEF InHand
<1>9. Printed'
  BY <1>1, <1>2, <1>3, <1>5 DEF Printed
<1>10. OnSince'
  BY <1>1, <1>3, <1>4, <1>6 DEF OnSince
<1> QED
  BY <1>7, <1>8, <1>9, <1>10 DEF FwInv

LEMMA FwStep == FwInv /\ [Next]_vars => FwInv'
BY FwRx, FwParser, FwFirewall, FwTx, FwShow, FwOther DEF Next, main, run_cli

-----------------------------------------------------------------------------
NextAll == RunMain \/ RunCli \/ RunHelper \/ CallArc \/ Signal

\* dpdk-graph-fw takes its own steps only, whichever program runs.
LEMMA FwOnly == [NextAll]_allVars => [Next]_vars
BY DEF NextAll, RunMain, RunCli, RunHelper, CallArc, Signal, Next, allVars

\* The walk's packets in hand, whatever the CLI does meanwhile.
THEOREM FwInvariance == SpecAll => []FwInv
<1>1. InitAll => FwInv
  BY FwInit DEF InitAll
<1>2. FwInv /\ [NextAll]_allVars => FwInv'
  BY FwStep, FwOnly
<1> QED
  BY <1>1, <1>2, PTL DEF SpecAll, NextAll

\* The counters of dpdk-graph-fw agree between walks, and show stats, which reads
\* them one by one while the graph runs, is never off by more than a burst.
THEOREM StatsAgree == SpecAll => []CountersAgree
<1>1. FwInv => CountersAgree
  <2> SUFFICES ASSUME FwInv PROVE CountersAgree
    OBVIOUS
  <2>1. /\ count["rx"] \in Nat /\ count["parser"] \in Nat /\ count["tx"] \in Nat
        /\ count["firewall"] \in Nat /\ dropped \in Nat
    BY DEF FwInv, Typed, Nodes4
  <2>2. walk_pc \in {"test", "rx", "done"} =>
          /\ count["rx"] = count["parser"] /\ count["parser"] = count["tx"] + dropped
          /\ count["firewall"] <= count["parser"]
    BY <2>1 DEF FwInv, InHand
  <2>3. Len(shown) = 4 => /\ shown[1] <= shown[2] + Burst
                          /\ shown[2] <= shown[4] + dropped + Burst
                          /\ shown[3] <= shown[4] + dropped + Burst
    BY DEF FwInv, Printed
  <2> QED
    BY <2>2, <2>3 DEF CountersAgree
<1> QED
  BY <1>1, FwInvariance, PTL

\* A short packet passes only if the firewall was off while its burst was in
\* the graph: the flag is read once for a burst, by parser_node_process.
THEOREM ShortOnlyWhenOff == SpecAll => []FirewallHolds
<1>1. FwInv => FirewallHolds
  <2> SUFFICES ASSUME FwInv PROVE FirewallHolds
    OBVIOUS
  <2>1. DOMAIN objs = 1 .. Len(objs)
    BY LenProperties DEF FwInv, Typed
  <2> QED
    BY <2>1 DEF FwInv, OnSince, FirewallHolds
<1> QED
  BY <1>1, FwInvariance, PTL

LEMMA ArcSelected == ASSUME NEW s, NEW S PROVE Arc!Selected(s, S) = Selected(s, S)
BY DEF Arc!Selected, Selected

-----------------------------------------------------------------------------
(* The arc.                                                                *)

Place == Len(Features)

\* The order of the nodes: from the start to the end.
Rank(m) ==
  IF m = Start THEN 0
  ELSE IF m = End THEN Place + 1
  ELSE CHOOSE k \in 1 .. Place : Features[k] = m

LEMMA Ranks ==
  /\ Place \in Nat
  /\ Start \in Arc!Nodes /\ Rank(Start) = 0 /\ End \in Arc!Nodes /\ Rank(End) = Place + 1
  /\ \A k \in 1 .. Place : Features[k] \in Arc!Nodes /\ Rank(Features[k]) = k /\ Features[k] \in Arc!ToSet(Features)
  /\ \A m \in Arc!Nodes : Rank(m) \in 0 .. (Place + 1) /\ m # NULL
  /\ Arc!ToSet(Features) \subseteq Arc!Nodes
<1>1. Place \in Nat /\ DOMAIN Features = 1 .. Place
  BY ArcAssumption, LenProperties DEF Place
<1>2. \A m : m \in Arc!ToSet(Features) <=> \E k \in 1 .. Place : m = Features[k]
  BY <1>1 DEF Arc!ToSet
<1>3. Start \in Arc!Nodes /\ Rank(Start) = 0 /\ End \in Arc!Nodes /\ Rank(End) = Place + 1
  BY ArcAssumption DEF Arc!Nodes, Rank
<1>4. ASSUME NEW k \in 1 .. Place PROVE Features[k] \in Arc!Nodes /\ Rank(Features[k]) = k
  <2>1. Features[k] # Start /\ Features[k] # End
    BY <1>1, ArcAssumption
  <2>2. Rank(Features[k]) = CHOOSE j \in 1 .. Place : Features[j] = Features[k]
    BY <2>1 DEF Rank
  <2>3. \A j \in 1 .. Place : Features[j] = Features[k] => j = k
    BY <1>1, ArcAssumption
  <2> QED
    BY <1>2, <2>2, <2>3 DEF Arc!Nodes
<1>5. ASSUME NEW m \in Arc!Nodes PROVE Rank(m) \in 0 .. (Place + 1) /\ m # NULL
  <2>1. CASE m \in {Start, End}
    BY <1>1, <1>3, <2>1, ArcAssumption
  <2>2. CASE m \in Arc!ToSet(Features)
    <3>1. PICK k \in 1 .. Place : m = Features[k]
      BY <1>2, <2>2
    <3> QED
      BY <1>1, <1>4, <3>1, ArcAssumption
  <2> QED
    BY <2>1, <2>2 DEF Arc!Nodes
<1> QED
  BY <1>1, <1>2, <1>3, <1>4, <1>5 DEF Arc!Nodes

\* Links go up, so that there is no loop.
Upward(nodes) ==
  /\ nodes \in [Arc!Nodes -> Arc!Nodes \cup {NULL}]
  /\ \A m \in Arc!Nodes : nodes[m] # NULL => Rank(m) < Rank(nodes[m])

\* The nodes of s, of the first k, are linked one to the next.
OnPath(nodes, s, k) ==
  /\ s \in Seq(Arc!Nodes) /\ Len(s) >= 1 /\ s[1] = Start
  /\ \A j \in 1 .. Len(s) : Rank(s[j]) <= k
  /\ \A j, l \in 1 .. Len(s) : j < l => Rank(s[j]) < Rank(s[l])
  /\ \A j \in 1 .. (Len(s) - 1) : nodes[s[j]] = s[j + 1]
  /\ Upward(nodes)

LEMMA PathStays ==
  ASSUME NEW nodes, NEW s, NEW k \in 1 .. (Place + 1), OnPath(nodes, s, k - 1)
  PROVE  OnPath(nodes, s, k)
<1>1. \A j \in 1 .. Len(s) : Rank(s[j]) \in 0 .. (Place + 1)
  BY Ranks, ElementOfSeq DEF OnPath
<1>2. \A j \in 1 .. Len(s) : Rank(s[j]) <= k
  BY <1>1, Ranks DEF OnPath
<1> QED
  BY <1>2 DEF OnPath

Extended(nodes2, t, nodes, s, m) == nodes2 = [nodes EXCEPT ![s[Len(s)]] = m] /\ t = Append(s, m)

LEMMA PathGrows ==
  ASSUME NEW nodes, NEW s, NEW k \in 1 .. (Place + 1), OnPath(nodes, s, k - 1), NEW m \in Arc!Nodes, Rank(m) = k,
         NEW nodes2, NEW t, Extended(nodes2, t, nodes, s, m)
  PROVE  OnPath(nodes2, t, k) /\ t[Len(t)] = m
<1>1. PICK n \in Nat : n = Len(s) /\ n >= 1
  BY LenProperties DEF OnPath
<1>2. /\ \A j \in 1 .. n : s[j] \in Arc!Nodes /\ Rank(s[j]) \in 0 .. (Place + 1) /\ Rank(s[j]) <= k - 1
      /\ \A j, l \in 1 .. n : j < l => Rank(s[j]) < Rank(s[l])
      /\ \A j \in 1 .. (n - 1) : nodes[s[j]] = s[j + 1]
      /\ s \in Seq(Arc!Nodes) /\ s[1] = Start
  BY <1>1, Ranks, ElementOfSeq DEF OnPath
<1>4. t \in Seq(Arc!Nodes) /\ Len(t) = n + 1 /\ t[n + 1] = m /\ \A j \in 1 .. n : t[j] = s[j]
  BY <1>1, <1>2, AppendProperties DEF Extended
<1>5. (\A j \in 1 .. (n + 1) : j # n + 1 => j \in 1 .. n) /\ 1 \in 1 .. n /\ n \in 1 .. n /\ k \in Nat /\ Place \in Nat
  BY <1>1, Ranks
<1>6. PICK last \in Arc!Nodes : last = s[n]
  BY <1>2, <1>5
<1>7. nodes2 = [nodes EXCEPT ![last] = m]
  BY <1>1, <1>6 DEF Extended
<1>8. Upward(nodes)
  BY DEF OnPath
<1>9. /\ nodes2 \in [Arc!Nodes -> Arc!Nodes \cup {NULL}] /\ nodes2[last] = m
      /\ \A x \in Arc!Nodes : x # last => nodes2[x] = nodes[x]
  BY <1>7, <1>8 DEF Upward
<1>10. Rank(last) < Rank(m)
  BY <1>2, <1>5, <1>6
<1>11. Upward(nodes2)
  BY <1>8, <1>9, <1>10 DEF Upward
<1>12. ASSUME NEW j \in 1 .. (n + 1) PROVE Rank(t[j]) <= k
  BY <1>2, <1>4, <1>5
<1>13. ASSUME NEW j \in 1 .. (n + 1), NEW l \in 1 .. (n + 1), j < l PROVE Rank(t[j]) < Rank(t[l])
  <2>1. j \in 1 .. n
    BY <1>13
  <2>2. CASE l = n + 1
    BY <1>2, <1>4, <1>5, <2>1, <2>2
  <2>3. CASE l # n + 1
    BY <1>2, <1>4, <1>5, <1>13, <2>1, <2>3
  <2> QED
    BY <2>2, <2>3
<1>14. ASSUME NEW j \in 1 .. n PROVE nodes2[t[j]] = t[j + 1]
  <2>1. CASE j = n
    BY <1>4, <1>6, <1>9, <2>1
  <2>2. CASE j # n
    <3>1. j \in 1 .. (n - 1) /\ j < n /\ j \in 1 .. n /\ j + 1 \in 1 .. n
      BY <1>1, <2>2
    <3>2. s[j] # last
      BY <1>2, <1>5, <1>6, <3>1
    <3>3. nodes2[s[j]] = nodes[s[j]] /\ nodes[s[j]] = s[j + 1]
      BY <1>2, <1>9, <3>1, <3>2
    <3> QED
      BY <1>4, <3>1, <3>3
  <2> QED
    BY <2>1, <2>2
<1>15. (n + 1) - 1 = n /\ n + 1 >= 1
  BY <1>1
<1>16. OnPath(nodes2, t, k)
  BY <1>2, <1>4, <1>5, <1>11, <1>12, <1>13, <1>14, <1>15 DEF OnPath
<1> QED
  BY <1>4, <1>16

\* The course of the loop of feature_arc_rebuild.
Acc == [nodes : [Arc!Nodes -> Arc!Nodes \cup {NULL}], prev : Arc!Nodes]

LinkLoop(f) ==
  f = [k \in 0 .. Len(Features) |->
         IF k = 0 THEN [nodes |-> next, prev |-> Start] ELSE Arc!link(f[k - 1], Features[k])]

LEMMA LinkTyped ==
  ASSUME NEW a \in Acc, NEW k \in 1 .. Place
  PROVE  /\ Arc!link(a, Features[k]) \in Acc
         /\ enabled[Features[k]] => /\ Arc!link(a, Features[k]).nodes = [a.nodes EXCEPT ![a.prev] = Features[k]]
                                    /\ Arc!link(a, Features[k]).prev = Features[k]
         /\ ~enabled[Features[k]] => Arc!link(a, Features[k]) = a
<1>1. Features[k] \in Arc!Nodes
  BY Ranks
<1> QED
  BY <1>1 DEF Arc!link, Arc!set_next, Acc

LinkRounds(f) ==
  /\ f \in [0 .. Place -> Acc] /\ f[0] = [nodes |-> next, prev |-> Start]
  /\ \A k \in 1 .. Place : f[k] = Arc!link(f[k - 1], Features[k])

LEMMA LinkCourse ==
  ASSUME next \in [Arc!Nodes -> Arc!Nodes \cup {NULL}]
  PROVE  \E f : LinkRounds(f) /\ Arc!Linked = f[Place]
<1>1. PICK n \in Nat : n = Place /\ n = Len(Features)
  BY Ranks DEF Place
<1>2. PICK b : b = [nodes |-> next, prev |-> Start]
  OBVIOUS
<1>3. b \in Acc
  BY <1>2, Ranks DEF Acc
<1> DEFINE G == [p \in (1 .. n) \X Acc |-> Arc!link(p[2], Features[p[1]])]
<1>4. \A k \in 1 .. n, x \in Acc : Arc!link(x, Features[k]) \in Acc
  BY <1>1, LinkTyped
<1>5. G \in [(1 .. n) \X Acc -> Acc]
  BY <1>4
<1>6. \A k \in 1 .. n, x \in Acc : G[<<k, x>>] = Arc!link(x, Features[k])
  OBVIOUS
<1> HIDE DEF G
<1>7. PICK f : CourseOf(Acc, b, G, f, n)
  BY <1>1, <1>3, <1>5, Iterates
<1>8. f \in [0 .. n -> Acc] /\ f[0] = b /\ \A k \in 1 .. n : f[k] = G[<<k, f[k - 1]>>]
  BY <1>7 DEF CourseOf
<1>9. \A k \in 1 .. n : f[k] = Arc!link(f[k - 1], Features[k])
  <2>1. \A k \in 1 .. n : k - 1 \in 0 .. n
    BY <1>1
  <2> QED
    BY <1>6, <1>8, <2>1
<1>10. LinkLoop(f)
  <2>1. \A k \in 0 .. n : k = 0 \/ (k # 0 /\ k \in 1 .. n)
    BY <1>1
  <2>2. \A k \in 0 .. n : f[k] = IF k = 0 THEN b ELSE Arc!link(f[k - 1], Features[k])
    BY <1>8, <1>9, <2>1
  <2>3. f = [k \in 0 .. n |-> f[k]]
    BY <1>8
  <2> QED
    BY <1>1, <1>2, <2>2, <2>3 DEF LinkLoop
<1> DEFINE h == CHOOSE g : LinkLoop(g)
<1>11. LinkLoop(h)
  BY <1>10
<1>12. Arc!Linked = h[n]
  BY <1>1 DEF Arc!Linked, LinkLoop
<1> HIDE DEF h
<1>13. \A k \in 0 .. n : h[k] = IF k = 0 THEN b ELSE Arc!link(h[k - 1], Features[k])
  BY <1>1, <1>2, <1>11 DEF LinkLoop
<1>14. \A k \in 0 .. n : h[k] = f[k]
  <2> DEFINE E == {k \in 0 .. n : h[k] = f[k]}
  <2>0. 0 \in 0 .. n /\ \A k \in 1 .. n : k \in 0 .. n /\ k # 0
    BY <1>1
  <2>1. 0 \in E
    BY <1>8, <1>13, <2>0
  <2>2. \A k \in 1 .. n : k - 1 \in E => k \in E
    BY <1>9, <1>13, <2>0
  <2>3. \A k \in 0 .. n : k \in E
    <3> HIDE DEF E
    <3> QED
      BY <1>1, <2>1, <2>2, Rounds
  <2> QED
    BY <2>3
<1>15. LinkRounds(f)
  BY <1>1, <1>2, <1>8, <1>9 DEF LinkRounds
<1>16. n \in 0 .. n
  BY <1>1
<1> QED
  BY <1>1, <1>12, <1>14, <1>15, <1>16

\* A sequence behind the start.
LEMMA FromStart ==
  ASSUME NEW s \in Seq(Arc!Nodes), NEW m \in Arc!Nodes
  PROVE  /\ <<Start>> \o Append(s, m) = Append(<<Start>> \o s, m)
         /\ (<<Start>> \o s) \o <<m>> = Append(<<Start>> \o s, m)
         /\ <<Start>> \o s \in Seq(Arc!Nodes) /\ Len(<<Start>> \o s) = Len(s) + 1
<1>1. <<Start>> \in Seq(Arc!Nodes) /\ Len(<<Start>>) = 1
  BY Ranks
<1>2. <<Start>> \o s \in Seq(Arc!Nodes) /\ Len(<<Start>> \o s) = 1 + Len(s) /\ Len(s) \in Nat
  BY <1>1, ConcatProperties, LenProperties
<1>3. PICK t : t = <<Start>> \o s
  OBVIOUS
<1>4. t \o <<m>> = Append(t, m)
  BY <1>2, <1>3, AppendIsConcat
<1>5. Append(s, m) = s \o <<m>>
  BY AppendIsConcat
<1>6. <<m>> \in Seq(Arc!Nodes)
  OBVIOUS
<1>7. <<Start>> \o (s \o <<m>>) = (<<Start>> \o s) \o <<m>>
  BY <1>1, <1>6, ConcatAssociative
<1> QED
  BY <1>2, <1>3, <1>4, <1>5, <1>7

Chain == <<Start>> \o Selected(Features, Arc!Enabled) \o <<End>>

\* After k rounds the enabled ones of the first k features are linked.
LinkedSoFar(a, s, k) ==
  OnPath(a.nodes, <<Start>> \o s, k) /\ a.prev = (<<Start>> \o s)[Len(<<Start>> \o s)]

LEMMA RebuildLinks ==
  ASSUME Upward(next), Arc!feature_arc_rebuild
  PROVE  OnPath(next', Chain, Place + 1) /\ Chain[Len(Chain)] = End
<1>1. PICK n \in Nat : n = Place /\ n = Len(Features)
  BY Ranks DEF Place
<1>2. next \in [Arc!Nodes -> Arc!Nodes \cup {NULL}]
  BY DEF Upward
<1>3. PICK f : LinkRounds(f) /\ Arc!Linked = f[n]
  BY <1>1, <1>2, LinkCourse
<1>4. Features \in Seq(Arc!ToSet(Features))
  BY ArcAssumption DEF Arc!ToSet
<1>5. Features \in Seq(Arc!Nodes)
  <2>1. \A k \in 1 .. n : Features[k] \in Arc!Nodes
    BY <1>1, Ranks
  <2>2. DOMAIN Features = 1 .. n
    BY <1>1, <1>4, LenProperties
  <2> QED
    BY <1>1, <1>4, <2>1, <2>2, SeqDef
<1>6. PICK g \in [0 .. n -> Seq(Arc!Nodes)] : SelectLoop(Features, Arc!Enabled, g) /\ Selected(Features, Arc!Enabled) = g[n]
  BY <1>1, <1>5, SelectCourse
<1>7. /\ g[0] = <<>>
      /\ \A k \in 1 .. n : g[k] = IF Features[k] \in Arc!Enabled THEN Append(g[k - 1], Features[k]) ELSE g[k - 1]
  <2>1. SelectRounds(Features, Arc!Enabled, g, n)
    BY <1>1, <1>6, SelectRound
  <2> QED
    BY <2>1 DEF SelectRounds
<1>8. /\ f \in [0 .. n -> Acc] /\ f[0] = [nodes |-> next, prev |-> Start]
      /\ \A k \in 1 .. n : f[k] = Arc!link(f[k - 1], Features[k])
  BY <1>1, <1>3 DEF LinkRounds
<1> DEFINE E == {k \in 0 .. n : LinkedSoFar(f[k], g[k], k)}
<1>9. 0 \in E
  <2>1. <<Start>> \o g[0] = <<Start>>
    BY <1>7
  <2>2. f[0].nodes = next /\ f[0].prev = Start
    BY <1>8
  <2>3. <<Start>> \in Seq(Arc!Nodes) /\ Len(<<Start>>) = 1 /\ <<Start>>[1] = Start
    BY Ranks
  <2>4. OnPath(next, <<Start>>, 0)
    BY <2>3, Ranks DEF OnPath
  <2>5. LinkedSoFar(f[0], g[0], 0)
    BY <2>1, <2>2, <2>3, <2>4 DEF LinkedSoFar
  <2> QED
    BY <1>1, <2>5
<1>10. ASSUME NEW k \in 1 .. n, k - 1 \in E PROVE k \in E
  <2>1. PICK x, y, m : x = f[k - 1] /\ y = g[k - 1] /\ m = Features[k]
    OBVIOUS
  <2>2. /\ k - 1 \in 0 .. n /\ k \in 0 .. n /\ k \in 1 .. (Place + 1) /\ k \in 1 .. Place
    BY <1>1
  <2>3. x \in Acc /\ y \in Seq(Arc!Nodes) /\ m \in Arc!Nodes /\ Rank(m) = k /\ m \in Arc!ToSet(Features)
    BY <1>1, <1>6, <1>8, <2>1, <2>2, Ranks
  <2>4. OnPath(x.nodes, <<Start>> \o y, k - 1) /\ x.prev = (<<Start>> \o y)[Len(<<Start>> \o y)]
    BY <1>10, <2>1 DEF LinkedSoFar
  <2>5. CASE enabled[m]
    <3>1. g[k] = Append(y, m)
      BY <1>7, <2>1, <2>3, <2>5 DEF Arc!Enabled
    <3>2. f[k].nodes = [x.nodes EXCEPT ![x.prev] = m] /\ f[k].prev = m
      BY <1>1, <1>8, <2>1, <2>2, <2>3, <2>5, LinkTyped
    <3>3. PICK t : t = <<Start>> \o y
      OBVIOUS
    <3>4. <<Start>> \o g[k] = Append(t, m)
      BY <2>3, <3>1, <3>3, FromStart
    <3>5. PICK nodes2, u : Extended(nodes2, u, x.nodes, t, m)
      BY DEF Extended
    <3>6. OnPath(x.nodes, t, k - 1)
      BY <2>4, <3>3
    <3>7. OnPath(nodes2, u, k) /\ u[Len(u)] = m
      BY <2>2, <2>3, <3>5, <3>6, PathGrows
    <3>8. f[k].nodes = nodes2 /\ <<Start>> \o g[k] = u
      BY <2>4, <3>2, <3>3, <3>4, <3>5 DEF Extended
    <3>9. LinkedSoFar(f[k], g[k], k)
      BY <3>2, <3>7, <3>8 DEF LinkedSoFar
    <3> QED
      BY <2>2, <3>9
  <2>6. CASE ~enabled[m]
    <3>1. g[k] = y
      BY <1>7, <2>1, <2>3, <2>6 DEF Arc!Enabled
    <3>2. f[k] = x
      BY <1>1, <1>8, <2>1, <2>2, <2>3, <2>6, LinkTyped
    <3>3. OnPath(x.nodes, <<Start>> \o y, k)
      BY <2>2, <2>4, PathStays
    <3>4. LinkedSoFar(f[k], g[k], k)
      BY <2>4, <3>1, <3>2, <3>3 DEF LinkedSoFar
    <3> QED
      BY <2>2, <3>4
  <2> QED
    BY <2>5, <2>6
<1>11. LinkedSoFar(f[n], g[n], n)
  <2>1. n \in 0 .. n
    BY <1>1
  <2>2. n \in E
    <3> HIDE DEF E
    <3> QED
      BY <1>1, <1>9, <1>10, <2>1, Rounds
  <2> QED
    BY <2>2
<1>12. PICK s : s = <<Start>> \o g[n]
  OBVIOUS
<1>13. g[n] \in Seq(Arc!Nodes)
  BY <1>1, <1>6
<1>14. Chain = Append(s, End)
  BY <1>6, <1>12, <1>13, Ranks, FromStart DEF Chain
<1>15. next' = [f[n].nodes EXCEPT ![s[Len(s)]] = End] /\ OnPath(f[n].nodes, s, n)
  BY <1>3, <1>11, <1>12 DEF LinkedSoFar, Arc!feature_arc_rebuild, Arc!set_next
<1>16. Place + 1 \in 1 .. (Place + 1) /\ (Place + 1) - 1 = n
  BY <1>1
<1>17. PICK nodes, nodes2, t, k : nodes = f[n].nodes /\ nodes2 = next' /\ t = Chain /\ k = Place + 1
  OBVIOUS
<1>18. Extended(nodes2, t, nodes, s, End)
  BY <1>14, <1>15, <1>17 DEF Extended
<1>19. k \in 1 .. (Place + 1) /\ OnPath(nodes, s, k - 1) /\ Rank(End) = k /\ End \in Arc!Nodes
  BY <1>15, <1>16, <1>17, Ranks
<1>20. OnPath(nodes2, t, k) /\ t[Len(t)] = End
  BY <1>18, <1>19, PathGrows
<1> QED
  BY <1>17, <1>20

\* A walk along the links, and one that is over.
Walk(s) ==
  /\ s \in Seq(Arc!Nodes) /\ Len(s) >= 1 /\ s[1] = Start
  /\ \A j \in 1 .. (Len(s) - 1) : next[s[j]] = s[j + 1]
Over(s) == next[s[Len(s)]] = NULL

\* A walk that is over is the only one.
LEMMA OneWalk ==
  ASSUME NEW s, NEW t, Walk(s), Over(s), Walk(t), Over(t)
  PROVE  s = t
<1>1. PICK m \in Nat, n \in Nat : m = Len(s) /\ n = Len(t) /\ m >= 1 /\ n >= 1
  BY LenProperties DEF Walk
<1>2. \A j \in 1 .. m : s[j] \in Arc!Nodes /\ s[j] # NULL
  BY <1>1, ElementOfSeq, Ranks DEF Walk
<1>3. \A j \in 1 .. n : t[j] \in Arc!Nodes /\ t[j] # NULL
  BY <1>1, ElementOfSeq, Ranks DEF Walk
<1> DEFINE E == {k \in Nat : k + 1 <= m => k + 1 <= n /\ s[k + 1] = t[k + 1]}
<1>4. 0 \in E
  BY <1>1 DEF Walk
<1>5. ASSUME NEW k \in 1 .. m, k - 1 \in E PROVE k \in E
  <2> SUFFICES ASSUME k + 1 <= m PROVE k + 1 <= n /\ s[k + 1] = t[k + 1]
    BY <1>1
  <2>1. (k - 1) + 1 = k /\ k <= m /\ k \in 1 .. (m - 1) /\ k \in Nat /\ k + 1 \in 1 .. m
    BY <1>1
  <2>2. k <= n /\ s[k] = t[k]
    BY <1>5, <2>1
  <2>3. next[s[k]] = s[k + 1]
    BY <1>1, <2>1 DEF Walk
  <2>4. k # n
    BY <1>1, <1>2, <2>1, <2>2, <2>3 DEF Over
  <2>5. k \in 1 .. (n - 1) /\ k + 1 <= n
    BY <1>1, <2>1, <2>2, <2>4
  <2>6. next[t[k]] = t[k + 1]
    BY <1>1, <2>5 DEF Walk
  <2> QED
    BY <2>2, <2>3, <2>5, <2>6
<1>6. \A k \in 0 .. m : k \in E
  <2> HIDE DEF E
  <2> QED
    BY <1>1, <1>4, <1>5, Rounds
<1>7. ASSUME NEW j \in 1 .. m PROVE j <= n /\ s[j] = t[j]
  <2>1. j - 1 \in 0 .. m /\ (j - 1) + 1 = j /\ j <= m
    BY <1>1
  <2>2. j - 1 \in E
    BY <1>6, <2>1
  <2> QED
    BY <2>1, <2>2
<1>8. m = n
  <2> SUFFICES ASSUME m # n PROVE FALSE
    OBVIOUS
  <2>1. m \in 1 .. m /\ m \in 1 .. (n - 1) /\ m + 1 \in 1 .. n /\ s[m] = t[m]
    <3>1. m \in 1 .. m
      BY <1>1
    <3>2. m <= n /\ s[m] = t[m]
      BY <1>7, <3>1
    <3> QED
      BY <1>1, <3>1, <3>2
  <2>2. next[t[m]] = t[m + 1] /\ next[s[m]] = NULL
    BY <1>1, <2>1 DEF Walk, Over
  <2> QED
    BY <1>3, <2>1, <2>2
<1> QED
  BY <1>1, <1>7, <1>8, SeqEqual DEF Walk

\* A round of dump_pipeline.
Visit(x) == IF next[Arc!Last(x)] = NULL THEN x ELSE Append(x, next[Arc!Last(x)])

\* After k rounds it has followed k links, or is over.
Dumped(x, k) ==
  /\ Walk(x) /\ Len(x) <= k + 1 /\ (Over(x) \/ Len(x) = k + 1)
  /\ \A j \in 1 .. Len(x) : Rank(x[j]) >= j - 1

LEMMA VisitWalks ==
  ASSUME Upward(next), NEW k \in Nat, NEW x, Dumped(x, k)
  PROVE  Dumped(Visit(x), k + 1)
<1>1. PICK n \in Nat : n = Len(x) /\ n >= 1 /\ n <= k + 1
  BY LenProperties DEF Dumped, Walk
<1>2. Arc!Last(x) = x[n] /\ x \in Seq(Arc!Nodes) /\ x[n] \in Arc!Nodes
  BY <1>1, ElementOfSeq DEF Arc!Last, Dumped, Walk
<1>3. CASE next[x[n]] = NULL
  <2>1. Visit(x) = x /\ Over(x)
    BY <1>1, <1>2, <1>3 DEF Visit, Over
  <2> QED
    BY <1>1, <2>1 DEF Dumped
<1>4. CASE next[x[n]] # NULL
  <2>1. PICK m \in Arc!Nodes : m = next[x[n]] /\ Rank(x[n]) < Rank(m)
    BY <1>2, <1>4 DEF Upward
  <2>2. PICK t : t = Append(x, m)
    OBVIOUS
  <2>3. Visit(x) = t
    BY <1>2, <1>4, <2>1, <2>2 DEF Visit
  <2>4. t \in Seq(Arc!Nodes) /\ Len(t) = n + 1 /\ t[n + 1] = m /\ \A j \in 1 .. n : t[j] = x[j]
    BY <1>1, <1>2, <2>2, AppendProperties
  <2>5. n = k + 1
    BY <1>1, <1>4 DEF Dumped, Over
  <2>6. /\ x[1] = Start /\ \A j \in 1 .. (n - 1) : next[x[j]] = x[j + 1]
        /\ \A j \in 1 .. n : Rank(x[j]) >= j - 1
    BY <1>1 DEF Dumped, Walk
  <2>7. ASSUME NEW j \in 1 .. n PROVE next[t[j]] = t[j + 1]
    <3>1. CASE j = n
      BY <2>1, <2>4, <3>1
    <3>2. CASE j # n
      <4>1. j \in 1 .. (n - 1) /\ j + 1 \in 1 .. n
        BY <1>1, <3>2
      <4> QED
        BY <2>4, <2>6, <4>1
    <3> QED
      BY <3>1, <3>2
  <2>8. ASSUME NEW j \in 1 .. (n + 1) PROVE Rank(t[j]) >= j - 1
    <3>1. CASE j \in 1 .. n
      BY <2>4, <2>6, <3>1
    <3>2. CASE j = n + 1
      <4>1. n \in 1 .. n
        BY <1>1
      <4>2. Rank(x[n]) >= n - 1 /\ Rank(x[n]) \in Int /\ Rank(m) \in Int
        BY <1>2, <2>6, <4>1, Ranks
      <4> QED
        BY <1>1, <2>1, <2>4, <3>2, <4>2
    <3> QED
      BY <1>1, <3>1, <3>2
  <2>9. t[1] = Start /\ (n + 1) - 1 = n /\ n + 1 >= 1 /\ n + 1 = (k + 1) + 1
    BY <1>1, <2>4, <2>5, <2>6
  <2>10. Walk(t)
    BY <2>4, <2>7, <2>9 DEF Walk
  <2>11. Dumped(t, k + 1)
    BY <2>4, <2>8, <2>9, <2>10 DEF Dumped
  <2> QED
    BY <2>3, <2>11
<1> QED
  BY <1>3, <1>4

\* The course of the loop of dump_pipeline.
Walks == {s \in Seq(Arc!Nodes) : Len(s) >= 1}

DumpLoop(f, n) ==
  f = [k \in 0 .. n |->
         IF k = 0 THEN <<Start>>
         ELSE IF next[Arc!Last(f[k - 1])] = NULL THEN f[k - 1] ELSE Append(f[k - 1], next[Arc!Last(f[k - 1])])]

LEMMA VisitTyped ==
  ASSUME Upward(next), NEW x \in Walks
  PROVE  Visit(x) \in Walks
<1>1. PICK n \in Nat : n = Len(x) /\ n >= 1 /\ x \in Seq(Arc!Nodes)
  BY LenProperties DEF Walks
<1>2. Arc!Last(x) = x[n] /\ x[n] \in Arc!Nodes
  BY <1>1, ElementOfSeq DEF Arc!Last
<1>3. CASE next[x[n]] = NULL
  BY <1>2, <1>3 DEF Visit
<1>4. CASE next[x[n]] # NULL
  <2>1. PICK m \in Arc!Nodes : m = next[x[n]]
    BY <1>2, <1>4 DEF Upward
  <2>2. PICK t : t = Append(x, m)
    OBVIOUS
  <2>3. t \in Seq(Arc!Nodes) /\ Len(t) = n + 1
    BY <1>1, <2>2, AppendProperties
  <2>4. t \in Walks
    BY <1>1, <2>3 DEF Walks
  <2> QED
    BY <1>2, <1>4, <2>1, <2>2, <2>4 DEF Visit
<1> QED
  BY <1>3, <1>4

LEMMA DumpCourse ==
  ASSUME Upward(next), NEW n \in Nat
  PROVE  \E f : /\ f[0] = <<Start>> /\ (\A k \in 1 .. n : f[k] = Visit(f[k - 1]))
                /\ Arc!dump_pipeline(n) = f[n]
<1>1. PICK b : b = <<Start>>
  OBVIOUS
<1>2. b \in Walks
  BY <1>1, Ranks DEF Walks
<1> DEFINE G == [p \in (1 .. n) \X Walks |-> Visit(p[2])]
<1>3. G \in [(1 .. n) \X Walks -> Walks]
  BY VisitTyped
<1>4. \A k \in 1 .. n, x \in Walks : G[<<k, x>>] = Visit(x)
  OBVIOUS
<1> HIDE DEF G
<1>5. PICK f : CourseOf(Walks, b, G, f, n)
  BY <1>2, <1>3, Iterates
<1>6. f \in [0 .. n -> Walks] /\ f[0] = b /\ \A k \in 1 .. n : f[k] = G[<<k, f[k - 1]>>]
  BY <1>5 DEF CourseOf
<1>7. \A k \in 1 .. n : f[k] = Visit(f[k - 1])
  <2>1. \A k \in 1 .. n : k - 1 \in 0 .. n
    OBVIOUS
  <2> QED
    BY <1>4, <1>6, <2>1
<1>8. DumpLoop(f, n)
  <2>1. \A k \in 0 .. n : k = 0 \/ (k # 0 /\ k \in 1 .. n)
    OBVIOUS
  <2>2. \A k \in 0 .. n : f[k] = IF k = 0 THEN b ELSE Visit(f[k - 1])
    BY <1>6, <1>7, <2>1
  <2>3. f = [k \in 0 .. n |-> f[k]]
    BY <1>6
  <2> QED
    BY <1>1, <2>2, <2>3 DEF DumpLoop, Visit
<1> DEFINE h == CHOOSE g : DumpLoop(g, n)
<1>9. DumpLoop(h, n)
  BY <1>8
<1>10. Arc!dump_pipeline(n) = h[n]
  BY DEF Arc!dump_pipeline, DumpLoop
<1> HIDE DEF h
<1>11. \A k \in 0 .. n : h[k] = IF k = 0 THEN b ELSE Visit(h[k - 1])
  BY <1>1, <1>9 DEF DumpLoop, Visit
<1>12. h[0] = <<Start>> /\ \A k \in 1 .. n : h[k] = Visit(h[k - 1])
  <2>1. 0 \in 0 .. n /\ \A k \in 1 .. n : k \in 0 .. n /\ k # 0
    OBVIOUS
  <2> QED
    BY <1>1, <1>11, <2>1
<1> QED
  BY <1>10, <1>12

\* The dump reaches the end of the links.
LEMMA DumpEnds ==
  ASSUME Upward(next)
  PROVE  Walk(Arc!dump_pipeline(Len(Features) + 2)) /\ Over(Arc!dump_pipeline(Len(Features) + 2))
<1>1. PICK n \in Nat : n = Len(Features) + 2 /\ n = Place + 2
  BY Ranks DEF Place
<1>2. PICK f : /\ f[0] = <<Start>> /\ (\A k \in 1 .. n : f[k] = Visit(f[k - 1]))
               /\ Arc!dump_pipeline(n) = f[n]
  BY DumpCourse
<1> DEFINE E == {k \in 0 .. n : Dumped(f[k], k)}
<1>3. 0 \in E
  <2>1. <<Start>> \in Seq(Arc!Nodes) /\ Len(<<Start>>) = 1 /\ <<Start>>[1] = Start
    BY Ranks
  <2>2. Dumped(<<Start>>, 0)
    BY <2>1, Ranks DEF Dumped, Walk
  <2> QED
    BY <1>2, <2>2
<1>4. ASSUME NEW k \in 1 .. n, k - 1 \in E PROVE k \in E
  <2>1. k - 1 \in Nat /\ (k - 1) + 1 = k /\ k \in 0 .. n
    OBVIOUS
  <2>2. PICK x : x = f[k - 1]
    OBVIOUS
  <2>3. Dumped(x, k - 1)
    BY <1>4, <2>2
  <2>4. Dumped(Visit(x), (k - 1) + 1)
    BY <2>1, <2>3, VisitWalks
  <2>5. Dumped(f[k], k)
    BY <1>2, <2>1, <2>2, <2>4
  <2> QED
    BY <2>1, <2>5
<1>5. n \in E
  <2>1. n \in 0 .. n
    BY <1>1
  <2> HIDE DEF E
  <2> QED
    BY <1>1, <1>3, <1>4, <2>1, Rounds
<1>6. PICK x : x = Arc!dump_pipeline(Len(Features) + 2)
  OBVIOUS
<1>7. Dumped(x, n)
  BY <1>1, <1>2, <1>5, <1>6
<1>8. Len(x) # n + 1
  <2> SUFFICES ASSUME Len(x) = n + 1 PROVE FALSE
    OBVIOUS
  <2>1. n + 1 \in 1 .. (n + 1) /\ x \in Seq(Arc!Nodes)
    BY <1>7 DEF Dumped, Walk
  <2>2. Rank(x[n + 1]) >= (n + 1) - 1
    BY <1>7, <2>1 DEF Dumped
  <2>3. Rank(x[n + 1]) \in 0 .. (Place + 1)
    BY <2>1, ElementOfSeq, Ranks
  <2> QED
    BY <1>1, <2>2, <2>3, Ranks
<1> QED
  BY <1>6, <1>7, <1>8 DEF Dumped

ArcInv ==
  /\ enabled \in [Arc!ToSet(Features) -> BOOLEAN] /\ rebuilt \in BOOLEAN
  /\ Upward(next)
  /\ rebuilt => OnPath(next, Chain, Place + 1) /\ Chain[Len(Chain)] = End

LEMMA ArcInvFollows ==
  ArcInv => ArcFollowsFeatures
<1> SUFFICES ASSUME ArcInv PROVE ArcFollowsFeatures
  OBVIOUS
<1>1. PICK d : d = Arc!dump_pipeline(Len(Features) + 2)
  OBVIOUS
<1>2. Walk(d) /\ Over(d)
  BY <1>1, DumpEnds DEF ArcInv
<1>3. next[Arc!Last(d)] = NULL
  BY <1>2 DEF Over, Arc!Last
<1>4. ASSUME rebuilt PROVE d = Chain
  <2>1. OnPath(next, Chain, Place + 1) /\ Chain[Len(Chain)] = End
    BY <1>4 DEF ArcInv
  <2>2. Walk(Chain)
    BY <2>1 DEF OnPath, Walk
  <2>3. next[End] = NULL
    <3>1. End \in Arc!Nodes /\ Rank(End) = Place + 1 /\ Place \in Nat
      BY Ranks
    <3>2. next[End] \in Arc!Nodes => Rank(next[End]) \in 0 .. (Place + 1)
      BY Ranks
    <3> QED
      BY <3>1, <3>2 DEF ArcInv, Upward
  <2>4. Over(Chain)
    BY <2>1, <2>3 DEF Over
  <2> QED
    BY <1>2, <2>2, <2>4, OneWalk
<1>5. Chain = <<Start>> \o Arc!Selected(Features, Arc!Enabled) \o <<End>>
  BY ArcSelected DEF Chain
<1> QED
  BY <1>1, <1>3, <1>4, <1>5 DEF ArcFollowsFeatures, Arc!ArcFollowsFeatures

LEMMA ArcInvInit ==
  Arc!Init => ArcInv
<1> SUFFICES ASSUME Arc!Init PROVE ArcInv
  OBVIOUS
<1>1. next = [m \in Arc!Nodes |-> NULL] /\ rebuilt = FALSE
  BY DEF Arc!Init
<1>2. enabled \in [Arc!ToSet(Features) -> BOOLEAN]
  BY DEF Arc!Init
<1>3. Upward(next)
  BY <1>1 DEF Upward
<1> QED
  BY <1>1, <1>2, <1>3 DEF ArcInv

LEMMA ArcInvStep ==
  ArcInv /\ Arc!Next => ArcInv'
<1> SUFFICES ASSUME ArcInv, Arc!Next PROVE ArcInv'
  OBVIOUS
<1>0. Upward(next) /\ enabled \in [Arc!ToSet(Features) -> BOOLEAN]
  BY DEF ArcInv
<1>1. CASE \E f \in Arc!ToSet(Features) : Arc!feature_enable(f) \/ Arc!feature_disable(f)
  <2>1. next' = next /\ rebuilt' = FALSE /\ enabled' \in [Arc!ToSet(Features) -> BOOLEAN]
    BY <1>0, <1>1 DEF Arc!feature_enable, Arc!feature_disable
  <2>2. Upward(next')
    BY <1>0, <2>1
  <2> QED
    BY <2>1, <2>2 DEF ArcInv
<1>2. CASE Arc!feature_arc_rebuild
  <2>1. OnPath(next', Chain, Place + 1) /\ Chain[Len(Chain)] = End
    BY <1>0, <1>2, RebuildLinks
  <2>2. enabled' = enabled /\ rebuilt' = TRUE
    BY <1>2 DEF Arc!feature_arc_rebuild
  <2>3. Chain' = Chain
    BY <2>2 DEF Chain, Arc!Enabled
  <2>4. Upward(next')
    BY <2>1 DEF OnPath
  <2>5. OnPath(next', Chain', Place + 1) /\ Chain'[Len(Chain')] = End
    BY <2>1, <2>3
  <2> QED
    BY <1>0, <2>2, <2>4, <2>5 DEF ArcInv
<1> QED
  BY <1>1, <1>2 DEF Arc!Next

LEMMA ArcInvStutter ==
  ArcInv /\ UNCHANGED arcVars => ArcInv'
<1> SUFFICES ASSUME ArcInv, UNCHANGED arcVars PROVE ArcInv'
  OBVIOUS
<1>1. next' = next /\ enabled' = enabled /\ rebuilt' = rebuilt
  BY DEF arcVars
<1>2. Chain' = Chain
  BY <1>1 DEF Chain, Arc!Enabled
<1>3. Upward(next')
  BY <1>1 DEF ArcInv
<1>4. rebuilt' => OnPath(next', Chain', Place + 1) /\ Chain'[Len(Chain')] = End
  BY <1>1, <1>2 DEF ArcInv
<1> QED
  BY <1>1, <1>3, <1>4 DEF ArcInv

\* After arc_rebuild the walk over the arc visits the enabled features, each once
\* and in their order, whatever was enabled and disabled before.
THEOREM ArcInOrder == SpecAll => []ArcFollowsFeatures
<1>1. InitAll => ArcInv
  BY ArcInvInit DEF InitAll
<1>2. ArcInv /\ [NextAll]_allVars => ArcInv'
  <2> SUFFICES ASSUME ArcInv, [NextAll]_allVars PROVE ArcInv'
    OBVIOUS
  <2>1. CASE CallArc
    BY <2>1, ArcInvStep DEF CallArc
  <2>2. CASE ~CallArc
    <3>1. UNCHANGED arcVars
      BY <2>2 DEF NextAll, RunMain, RunCli, RunHelper, Signal, allVars
    <3> QED
      BY <3>1, ArcInvStutter
  <2> QED
    BY <2>1, <2>2
<1> QED
  BY <1>1, <1>2, ArcInvFollows, PTL DEF SpecAll, NextAll

-----------------------------------------------------------------------------
(* graph/pipeline                                                          *)

Places == Pipe!Nodes \cup {"wire"}
Pkts == [type : Pipe!EtherTypes, number : Nat]

\* A packet goes up from level to level, and the places of a level share no type.
Level(p) == IF p = "l2" THEN 0 ELSE IF p = "tx" THEN 2 ELSE IF p = "wire" THEN 3 ELSE 1
Types(p) ==
  IF p = "ipv4" THEN {"IPV4"} ELSE IF p = "ipv6" THEN {"IPV6"} ELSE IF p = "drop" THEN {"other"}
  ELSE IF p = "l2" THEN Pipe!EtherTypes ELSE {"IPV4", "IPV6"}

LEMMA Levels ==
  /\ \A p \in Places : Level(p) \in 0 .. 3
  /\ \A p, q \in Places : p # q /\ Level(p) = Level(q) => Types(p) \cap Types(q) = {}
  /\ \A x \in Pkts : x.type \in Pipe!EtherTypes /\ x.number \in Nat
<1>1. \A p \in Places : Level(p) \in 0 .. 3
  BY DEF Level
<1>2. ASSUME NEW p \in Places, NEW q \in Places, p # q, Level(p) = Level(q) PROVE Types(p) \cap Types(q) = {}
  BY <1>2 DEF Places, Pipe!Nodes, Level, Types
<1>3. \A x \in Pkts : x.type \in Pipe!EtherTypes /\ x.number \in Nat
  BY DEF Pkts
<1> QED
  BY <1>1, <1>2, <1>3

\* Places hold packets of their types; one of the same type that is further on,
\* or before it in the same place, was received before it.
Before(y, x) == x.type = y.type => y.number < x.number
Holding(A) ==
  /\ A \in [Places -> Seq(Pkts)]
  /\ \A p \in Places : \A j \in 1 .. Len(A[p]) : A[p][j].type \in Types(p)
  /\ \A p, q \in Places : Level(p) < Level(q) =>
       \A j \in 1 .. Len(A[p]), k \in 1 .. Len(A[q]) : Before(A[q][k], A[p][j])
  /\ \A p \in Places : \A j, k \in 1 .. Len(A[p]) : k < j => Before(A[p][k], A[p][j])

\* r is some of s, in the same order.
From(r, s, at) ==
  /\ at \in [1 .. Len(r) -> 1 .. Len(s)]
  /\ \A j, l \in 1 .. Len(r) : j < l => at[j] < at[l]
  /\ \A j \in 1 .. Len(r) : r[j] = s[at[j]]

\* The node p is called: what it held is gone, and R says what went where.
Moves(A, B, p, R) ==
  /\ B \in [Places -> Seq(Pkts)] /\ R \in [Places -> Seq(Pkts)]
  /\ B[p] = <<>> /\ \A q \in Places : q # p => B[q] = A[q] \o R[q]
  /\ \A q \in Places : Len(R[q]) > 0 => Level(q) = Level(p) + 1
  /\ \A q \in Places : \E at : From(R[q], A[p], at)
  /\ \A q \in Places : \A j \in 1 .. Len(R[q]) : R[q][j].type \in Types(q)

\* No packet is in two places, or twice in one.
LEMMA HeldOnce ==
  ASSUME NEW A, Holding(A), NEW p \in Places, NEW q \in Places,
         NEW j \in 1 .. Len(A[p]), NEW k \in 1 .. Len(A[q]), p # q \/ j # k
  PROVE  A[p][j] # A[q][k]
<1>1. A[p] \in Seq(Pkts) /\ A[q] \in Seq(Pkts)
  BY DEF Holding
<1>2. A[p][j] \in Pkts /\ A[q][k] \in Pkts
  BY <1>1, ElementOfSeq
<1>3. PICK x, y : x = A[p][j] /\ y = A[q][k]
  OBVIOUS
<1>4. x.number \in Nat /\ y.number \in Nat /\ x.type \in Types(p) /\ y.type \in Types(q)
  BY <1>2, <1>3, Levels DEF Holding
<1>5. CASE p = q
  <2>1. j \in Nat /\ k \in Nat /\ j # k
    BY <1>1, <1>5, LenProperties
  <2>2. Before(x, y) \/ Before(y, x)
    BY <1>3, <1>5, <2>1 DEF Holding
  <2> QED
    BY <1>3, <1>4, <2>2 DEF Before
<1>6. CASE p # q /\ Level(p) = Level(q)
  <2>1. Types(p) \cap Types(q) = {}
    BY <1>6, Levels
  <2> QED
    BY <1>3, <1>4, <2>1
<1>7. CASE Level(p) # Level(q)
  <2>1. Level(p) < Level(q) \/ Level(q) < Level(p)
    BY <1>7, Levels
  <2>2. Before(x, y) \/ Before(y, x)
    BY <1>3, <2>1 DEF Holding
  <2> QED
    BY <1>3, <1>4, <2>2 DEF Before
<1> QED
  BY <1>5, <1>6, <1>7

\* A sequence joined from two, of lengths a and b.
Joined(u, s, r, a, b) ==
  /\ Len(u) = a + b
  /\ \A k \in 1 .. a : u[k] = s[k]
  /\ \A k \in 1 .. (a + b) : k \notin 1 .. a => k > a /\ k - a \in 1 .. b /\ u[k] = r[k - a]

LEMMA Joins ==
  ASSUME NEW T, NEW s \in Seq(T), NEW r \in Seq(T), NEW a \in Nat, NEW b \in Nat, a = Len(s), b = Len(r)
  PROVE  s \o r \in Seq(T) /\ Joined(s \o r, s, r, a, b)
<1>1. PICK u : u = s \o r
  OBVIOUS
<1>2. /\ u \in Seq(T) /\ Len(u) = a + b
      /\ \A k \in 1 .. (a + b) : u[k] = IF k <= a THEN s[k] ELSE r[k - a]
  BY <1>1, ConcatProperties
<1>3. \A k \in 1 .. a : k \in 1 .. (a + b) /\ k <= a
  OBVIOUS
<1>4. \A k \in 1 .. (a + b) : k \notin 1 .. a => k > a /\ k - a \in 1 .. b
  OBVIOUS
<1>5. \A k \in 1 .. (a + b) : k > a => ~(k <= a)
  OBVIOUS
<1>6. Joined(u, s, r, a, b)
  BY <1>2, <1>3, <1>4, <1>5 DEF Joined
<1> QED
  BY <1>1, <1>2, <1>6

\* What is now in a place was there, or in the place that was emptied.
Was(A, q, j, x) == j \in 1 .. Len(A[q]) /\ x = A[q][j]
Came(A, q, p, j, x) ==
  j > Len(A[q]) /\ Level(q) = Level(p) + 1 /\ \E l \in 1 .. Len(A[p]) : x = A[p][l]

LEMMA MoveOrigin ==
  ASSUME NEW A, NEW B, NEW R, NEW p \in Places, Holding(A), Moves(A, B, p, R),
         NEW q \in Places, NEW j \in 1 .. Len(B[q])
  PROVE  /\ q # p /\ (Was(A, q, j, B[q][j]) \/ Came(A, q, p, j, B[q][j]))
         /\ B[q][j].type \in Types(q)
<1>1. q # p
  BY DEF Moves
<1>2. B[q] = A[q] \o R[q] /\ A[q] \in Seq(Pkts) /\ R[q] \in Seq(Pkts)
  BY <1>1 DEF Moves, Holding
<1>3. PICK a \in Nat, r \in Nat : a = Len(A[q]) /\ r = Len(R[q])
  BY <1>2, LenProperties
<1>4. Joined(B[q], A[q], R[q], a, r)
  BY <1>2, <1>3, Joins
<1>5. CASE j \in 1 .. a
  <2>1. B[q][j] = A[q][j]
    BY <1>4, <1>5 DEF Joined
  <2> QED
    BY <1>1, <1>3, <1>5, <2>1 DEF Was, Holding
<1>6. CASE j \notin 1 .. a
  <2>0. j > a /\ j - a \in 1 .. r /\ B[q][j] = R[q][j - a]
    BY <1>4, <1>6 DEF Joined
  <2>1. j > a /\ j - a \in 1 .. r /\ B[q][j] = R[q][j - a] /\ r > 0
    BY <1>3, <2>0
  <2>2. PICK at : From(R[q], A[p], at)
    BY DEF Moves
  <2>3. at[j - a] \in 1 .. Len(A[p]) /\ R[q][j - a] = A[p][at[j - a]]
    BY <1>3, <2>1, <2>2 DEF From
  <2>4. Level(q) = Level(p) + 1 /\ R[q][j - a].type \in Types(q)
    BY <1>3, <2>1 DEF Moves
  <2> QED
    BY <1>1, <1>3, <2>1, <2>3, <2>4 DEF Came
<1> QED
  BY <1>5, <1>6

LEMMA MoveKeeps ==
  ASSUME NEW A, NEW B, NEW R, NEW p \in Places, Holding(A), Moves(A, B, p, R)
  PROVE  Holding(B)
<1>1. B \in [Places -> Seq(Pkts)]
  BY DEF Moves
<1>2. \A q \in Places : \A j \in 1 .. Len(B[q]) : B[q][j].type \in Types(q)
  BY MoveOrigin
<1>3. ASSUME NEW q \in Places, NEW q2 \in Places, Level(q) < Level(q2),
             NEW j \in 1 .. Len(B[q]), NEW k \in 1 .. Len(B[q2])
      PROVE  Before(B[q2][k], B[q][j])
  <2>1. PICK x, y : x = B[q][j] /\ y = B[q2][k]
    OBVIOUS
  <2>2. q # p /\ (Was(A, q, j, x) \/ Came(A, q, p, j, x)) /\ x.type \in Types(q)
    BY <2>1, MoveOrigin
  <2>3. q2 # p /\ (Was(A, q2, k, y) \/ Came(A, q2, p, k, y)) /\ y.type \in Types(q2)
    BY <2>1, MoveOrigin
  <2>4. Level(p) \in Nat /\ Level(q) \in Nat /\ Level(q2) \in Nat
    BY Levels
  <2>5. CASE Was(A, q, j, x) /\ Was(A, q2, k, y)
    BY <1>3, <2>1, <2>5 DEF Was, Holding
  <2>6. CASE Came(A, q, p, j, x) /\ Was(A, q2, k, y)
    <3>1. Level(p) < Level(q2)
      BY <1>3, <2>4, <2>6 DEF Came
    <3>2. PICK l \in 1 .. Len(A[p]) : x = A[p][l]
      BY <2>6 DEF Came
    <3> QED
      BY <2>1, <2>6, <3>1, <3>2 DEF Was, Holding
  <2>7. CASE Came(A, q, p, j, x) /\ Came(A, q2, p, k, y)
    BY <1>3, <2>4, <2>7 DEF Came
  <2>8. CASE Was(A, q, j, x) /\ Came(A, q2, p, k, y)
    <3>1. Level(q) <= Level(p)
      BY <1>3, <2>4, <2>8 DEF Came
    <3>2. PICK l \in 1 .. Len(A[p]) : y = A[p][l]
      BY <2>8 DEF Came
    <3>3. CASE Level(q) < Level(p)
      BY <2>1, <2>8, <3>2, <3>3 DEF Was, Holding
    <3>4. CASE Level(q) = Level(p)
      <4>1. Types(p) \cap Types(q) = {}
        BY <2>2, <3>4, Levels
      <4>2. y.type \in Types(p)
        BY <3>2 DEF Holding
      <4> QED
        BY <2>1, <2>2, <4>1, <4>2 DEF Before
    <3> QED
      BY <2>4, <3>1, <3>3, <3>4
  <2> QED
    BY <2>2, <2>3, <2>5, <2>6, <2>7, <2>8
<1>4. ASSUME NEW q \in Places, NEW j \in 1 .. Len(B[q]), NEW k \in 1 .. Len(B[q]), k < j
      PROVE  Before(B[q][k], B[q][j])
  <2>1. q # p
    BY MoveOrigin
  <2>2. B[q] = A[q] \o R[q] /\ A[q] \in Seq(Pkts) /\ R[q] \in Seq(Pkts)
    BY <2>1 DEF Moves, Holding
  <2>3. PICK a \in Nat, r \in Nat : a = Len(A[q]) /\ r = Len(R[q])
    BY <2>2, LenProperties
  <2>4. Joined(B[q], A[q], R[q], a, r) /\ Len(B[q]) = a + r
    <3>1. Joined(B[q], A[q], R[q], a, r)
      BY <2>2, <2>3, Joins
    <3> QED
      BY <3>1 DEF Joined
  <2>5. PICK at : From(R[q], A[p], at)
    BY DEF Moves
  <2>6. CASE j \in 1 .. a
    <3>1. k \in 1 .. a
      BY <1>4, <2>3, <2>4, <2>6
    <3> QED
      BY <1>4, <2>3, <2>4, <2>6, <3>1 DEF Holding, Joined
  <2>7. CASE j \notin 1 .. a
    <3>0. j - a \in 1 .. r /\ B[q][j] = R[q][j - a]
      BY <2>4, <2>7 DEF Joined
    <3>1. j - a \in 1 .. r /\ B[q][j] = R[q][j - a] /\ r > 0
      BY <2>3, <3>0
    <3>2. at[j - a] \in 1 .. Len(A[p]) /\ R[q][j - a] = A[p][at[j - a]]
      BY <2>3, <2>5, <3>1 DEF From
    <3>3. CASE k \in 1 .. a
      <4>1. Level(p) < Level(q)
        <5>1. Level(q) = Level(p) + 1
          BY <2>3, <3>1 DEF Moves
        <5> QED
          BY <5>1, Levels
      <4>2. B[q][k] = A[q][k]
        BY <2>4, <3>3 DEF Joined
      <4> QED
        BY <2>3, <3>1, <3>2, <3>3, <4>1, <4>2 DEF Holding
    <3>4. CASE k \notin 1 .. a
      <4>0. k - a \in 1 .. r /\ B[q][k] = R[q][k - a]
        BY <2>4, <3>4 DEF Joined
      <4>1. k - a \in 1 .. r /\ B[q][k] = R[q][k - a] /\ k - a < j - a
        BY <1>4, <2>3, <2>4, <4>0
      <4>2. at[k - a] \in 1 .. Len(A[p]) /\ R[q][k - a] = A[p][at[k - a]] /\ at[k - a] < at[j - a]
        BY <2>3, <2>5, <3>1, <4>1 DEF From
      <4> QED
        BY <3>1, <3>2, <4>1, <4>2 DEF Holding
    <3> QED
      BY <3>3, <3>4
  <2> QED
    BY <2>6, <2>7
<1> QED
  BY <1>1, <1>2, <1>3, <1>4 DEF Holding

\* An array without repetitions has as many elements as places.
LEMMA CountOf ==
  ASSUME NEW s \in Seq(Pkts), \A j, k \in 1 .. Len(s) : j # k => s[j] # s[k]
  PROVE  IsFiniteSet(Pipe!Elements(s)) /\ Cardinality(Pipe!Elements(s)) = Len(s)
<1>1. PICK n \in Nat : n = Len(s)
  BY LenProperties
<1>2. PICK E : E = Pipe!Elements(s)
  OBVIOUS
<1>3. E = {s[j] : j \in 1 .. n}
  BY <1>1, <1>2, LenProperties DEF Pipe!Elements
<1> DEFINE f == [j \in 1 .. n |-> s[j]]
<1>4. f \in Bijection(1 .. n, E)
  BY <1>1, <1>3 DEF Bijection, Injection, Surjection, IsInjective
<1>5. ExistsBijection(1 .. n, E)
  BY <1>4 DEF ExistsBijection
<1>6. IsFiniteSet(E)
  BY <1>5, FS_NatBijection
<1>7. Cardinality(E) = n
  BY <1>5, FS_CountingElements
<1> QED
  BY <1>1, <1>2, <1>6, <1>7

Total(A) == Len(A["l2"]) + Len(A["ipv4"]) + Len(A["ipv6"]) + Len(A["drop"]) + Len(A["tx"]) + Len(A["wire"])

Numbered(A, F, N) ==
  /\ \A x \in F : x.number <= N
  /\ \A p \in Places : \A j \in 1 .. Len(A[p]) : A[p][j].number <= N
Apart(A, F) == \A p \in Places : \A j \in 1 .. Len(A[p]) : A[p][j] \notin F

\* The packets 1 .. N are in the places A or have been freed.
Accounted(A, F, N) ==
  /\ Holding(A) /\ F \subseteq Pkts /\ IsFiniteSet(F) /\ N \in Nat
  /\ Numbered(A, F, N) /\ Apart(A, F) /\ Total(A) + Cardinality(F) = N

\* The rest of what p held, G, goes nowhere.
Leaves(A, p, R, G) ==
  /\ G \in Seq(Pkts) /\ \E at : From(G, A[p], at)
  /\ \A q \in Places : \A j \in 1 .. Len(R[q]), k \in 1 .. Len(G) : R[q][j] # G[k]
  /\ Total(R) + Len(G) = Len(A[p])

LEMMA MoveTotal ==
  ASSUME NEW A, NEW B, NEW R, NEW p \in Pipe!Nodes, Holding(A), Moves(A, B, p, R)
  PROVE  /\ Total(A) \in Nat /\ Total(B) \in Nat /\ Total(R) \in Nat /\ Len(A[p]) \in Nat
         /\ Total(B) + Len(A[p]) = Total(A) + Total(R)
<1>0. p \in Places /\ p # "wire" /\ p \in {"l2", "ipv4", "ipv6", "drop", "tx"}
  BY DEF Places, Pipe!Nodes
<1>1. \A q \in Places : A[q] \in Seq(Pkts) /\ B[q] \in Seq(Pkts) /\ R[q] \in Seq(Pkts)
  BY DEF Moves, Holding
<1>2. \A q \in Places : Len(A[q]) \in Nat /\ Len(B[q]) \in Nat /\ Len(R[q]) \in Nat
  BY <1>1, LenProperties
<1>3. \A q \in Places : q # p => Len(B[q]) = Len(A[q]) + Len(R[q])
  <2> SUFFICES ASSUME NEW q \in Places, q # p PROVE Len(B[q]) = Len(A[q]) + Len(R[q])
    OBVIOUS
  <2>1. B[q] = A[q] \o R[q]
    BY DEF Moves
  <2> QED
    BY <1>1, <2>1, ConcatProperties
<1>4. Len(B[p]) = 0 /\ Len(R[p]) = 0
  <2>1. ~(Len(R[p]) > 0)
    BY <1>0, Levels DEF Moves
  <2> QED
    BY <1>0, <1>2, <2>1 DEF Moves
<1>5. \A q \in {"l2", "ipv4", "ipv6", "drop", "tx", "wire"} : q \in Places
  BY DEF Places, Pipe!Nodes
<1>6. PICK a1 \in Nat, a2 \in Nat, a3 \in Nat, a4 \in Nat, a5 \in Nat, a6 \in Nat :
        a1 = Len(A["l2"]) /\ a2 = Len(A["ipv4"]) /\ a3 = Len(A["ipv6"]) /\ a4 = Len(A["drop"]) /\ a5 = Len(A["tx"]) /\ a6 = Len(A["wire"])
  BY <1>2, <1>5
<1>7. PICK b1 \in Nat, b2 \in Nat, b3 \in Nat, b4 \in Nat, b5 \in Nat, b6 \in Nat :
        b1 = Len(B["l2"]) /\ b2 = Len(B["ipv4"]) /\ b3 = Len(B["ipv6"]) /\ b4 = Len(B["drop"]) /\ b5 = Len(B["tx"]) /\ b6 = Len(B["wire"])
  BY <1>2, <1>5
<1>8. PICK r1 \in Nat, r2 \in Nat, r3 \in Nat, r4 \in Nat, r5 \in Nat, r6 \in Nat :
        r1 = Len(R["l2"]) /\ r2 = Len(R["ipv4"]) /\ r3 = Len(R["ipv6"]) /\ r4 = Len(R["drop"]) /\ r5 = Len(R["tx"]) /\ r6 = Len(R["wire"])
  BY <1>2, <1>5
<1>9. /\ Total(A) = a1 + a2 + a3 + a4 + a5 + a6
      /\ Total(B) = b1 + b2 + b3 + b4 + b5 + b6
      /\ Total(R) = r1 + r2 + r3 + r4 + r5 + r6
  BY <1>6, <1>7, <1>8 DEF Total
<1>10. /\ Total(A) \in Nat /\ Total(B) \in Nat /\ Total(R) \in Nat
  BY <1>9
<1>11. CASE p = "l2"
  <2>1. b1 = 0 /\ r1 = 0 /\ Len(A[p]) = a1 /\ b2 = a2 + r2 /\ b3 = a3 + r3 /\ b4 = a4 + r4 /\ b5 = a5 + r5 /\ b6 = a6 + r6
    BY <1>3, <1>4, <1>5, <1>6, <1>7, <1>8, <1>11
  <2> QED
    BY <1>9, <2>1
<1>12. CASE p = "ipv4"
  <2>1. b1 = a1 + r1 /\ b2 = 0 /\ r2 = 0 /\ Len(A[p]) = a2 /\ b3 = a3 + r3 /\ b4 = a4 + r4 /\ b5 = a5 + r5 /\ b6 = a6 + r6
    BY <1>3, <1>4, <1>5, <1>6, <1>7, <1>8, <1>12
  <2> QED
    BY <1>9, <2>1
<1>13. CASE p = "ipv6"
  <2>1. b1 = a1 + r1 /\ b2 = a2 + r2 /\ b3 = 0 /\ r3 = 0 /\ Len(A[p]) = a3 /\ b4 = a4 + r4 /\ b5 = a5 + r5 /\ b6 = a6 + r6
    BY <1>3, <1>4, <1>5, <1>6, <1>7, <1>8, <1>13
  <2> QED
    BY <1>9, <2>1
<1>14. CASE p = "drop"
  <2>1. b1 = a1 + r1 /\ b2 = a2 + r2 /\ b3 = a3 + r3 /\ b4 = 0 /\ r4 = 0 /\ Len(A[p]) = a4 /\ b5 = a5 + r5 /\ b6 = a6 + r6
    BY <1>3, <1>4, <1>5, <1>6, <1>7, <1>8, <1>14
  <2> QED
    BY <1>9, <2>1
<1>15. CASE p = "tx"
  <2>1. b1 = a1 + r1 /\ b2 = a2 + r2 /\ b3 = a3 + r3 /\ b4 = a4 + r4 /\ b5 = 0 /\ r5 = 0 /\ Len(A[p]) = a5 /\ b6 = a6 + r6
    BY <1>3, <1>4, <1>5, <1>6, <1>7, <1>8, <1>15
  <2> QED
    BY <1>9, <2>1
<1> QED
  BY <1>0, <1>2, <1>10, <1>11, <1>12, <1>13, <1>14, <1>15

LEMMA MoveAccounted ==
  ASSUME NEW A, NEW B, NEW R, NEW G, NEW p \in Pipe!Nodes, NEW F, NEW N, Accounted(A, F, N),
         Moves(A, B, p, R), Leaves(A, p, R, G)
  PROVE  Accounted(B, F \cup Pipe!Elements(G), N)
<1>0. p \in Places
  BY DEF Places
<1>1. Holding(A) /\ Holding(B)
  BY <1>0, MoveKeeps DEF Accounted
<1>2. G \in Seq(Pkts) /\ Len(G) \in Nat /\ DOMAIN G = 1 .. Len(G)
  BY LenProperties DEF Leaves
<1>3. PICK at : From(G, A[p], at)
  BY DEF Leaves
<1>4. \A x : x \in Pipe!Elements(G) <=> \E k \in 1 .. Len(G) : x = G[k]
  BY <1>2 DEF Pipe!Elements
<1>5. \A k \in 1 .. Len(G) : at[k] \in 1 .. Len(A[p]) /\ G[k] = A[p][at[k]] /\ G[k] \in Pkts
  BY <1>2, <1>3, ElementOfSeq DEF From
<1>6. \A j, k \in 1 .. Len(G) : j # k => G[j] # G[k]
  <2> SUFFICES ASSUME NEW j \in 1 .. Len(G), NEW k \in 1 .. Len(G), j # k PROVE G[j] # G[k]
    OBVIOUS
  <2>0. Len(A[p]) \in Nat
    BY <1>0, <1>1, LenProperties DEF Holding
  <2>1. at[j] # at[k]
    <3>1. j < k \/ k < j
      BY <1>2
    <3>2. at[j] < at[k] \/ at[k] < at[j]
      BY <1>3, <3>1 DEF From
    <3> QED
      BY <1>5, <2>0, <3>2
  <2> QED
    BY <1>0, <1>1, <1>5, <2>1, HeldOnce, SMTT(30)
<1>7. PICK E : E = Pipe!Elements(G)
  OBVIOUS
<1>8. IsFiniteSet(E) /\ Cardinality(E) = Len(G)
  BY <1>2, <1>6, <1>7, CountOf
<1>9. F \cap E = {}
  BY <1>0, <1>4, <1>5, <1>7 DEF Accounted, Apart
<1>10. IsFiniteSet(F \cup E) /\ Cardinality(F \cup E) = Cardinality(F) + Len(G) /\ Cardinality(F) \in Nat
  <2>1. IsFiniteSet(F)
    BY DEF Accounted
  <2>2. Cardinality(F) \in Nat
    BY <2>1, FS_CardinalityType
  <2>3. IsFiniteSet(F \cup E) /\ Cardinality(F \cup E) = Cardinality(F) + Cardinality(E) - Cardinality(F \cap E)
    BY <1>8, <2>1, FS_Union
  <2>4. Cardinality(F \cap E) = 0
    BY <1>9, FS_EmptySet
  <2> QED
    BY <1>2, <1>8, <2>2, <2>3, <2>4
<1>11. F \cup E \subseteq Pkts /\ N \in Nat
  BY <1>4, <1>5, <1>7 DEF Accounted
<1>12. ASSUME NEW q \in Places, NEW j \in 1 .. Len(B[q])
       PROVE  B[q][j].number <= N /\ B[q][j] \notin F \cup E
  <2>1. PICK x : x = B[q][j]
    OBVIOUS
  <2>2. q # p /\ (Was(A, q, j, x) \/ Came(A, q, p, j, x))
    BY <1>0, <1>1, <2>1, MoveOrigin
  <2>3. x.number <= N /\ x \notin F
    BY <1>0, <2>2 DEF Was, Came, Accounted, Numbered, Apart
  <2>4. ASSUME NEW k \in 1 .. Len(G), x = G[k] PROVE FALSE
    <3>1. CASE Was(A, q, j, x)
      <4>1. j \in 1 .. Len(A[q]) /\ x = A[q][j] /\ at[k] \in 1 .. Len(A[p]) /\ x = A[p][at[k]]
        BY <1>5, <2>4, <3>1 DEF Was
      <4> QED
        BY <1>0, <1>1, <2>2, <4>1, HeldOnce
    <3>2. CASE ~Was(A, q, j, x)
      <4>1. B[q] = A[q] \o R[q] /\ A[q] \in Seq(Pkts) /\ R[q] \in Seq(Pkts)
        BY <2>2 DEF Moves, Accounted, Holding
      <4>2. PICK a \in Nat, r \in Nat : a = Len(A[q]) /\ r = Len(R[q])
        BY <4>1, LenProperties
      <4>3. Joined(B[q], A[q], R[q], a, r)
        BY <4>1, <4>2, Joins
      <4>4. j \notin 1 .. a
        BY <2>1, <3>2, <4>2, <4>3 DEF Was, Joined
      <4>5. j - a \in 1 .. Len(R[q]) /\ x = R[q][j - a]
        BY <2>1, <4>2, <4>3, <4>4 DEF Joined
      <4> QED
        BY <2>4, <4>5 DEF Leaves
    <3> QED
      BY <3>1, <3>2
  <2> QED
    BY <1>4, <1>7, <2>1, <2>3, <2>4
<1>13. \A x \in F \cup E : x.number <= N
  BY <1>0, <1>4, <1>5, <1>7 DEF Accounted, Numbered
<1>14. Total(B) + Cardinality(F \cup E) = N
  <2>1. /\ Total(A) \in Nat /\ Total(B) \in Nat /\ Total(R) \in Nat /\ Len(A[p]) \in Nat
        /\ Total(B) + Len(A[p]) = Total(A) + Total(R)
    BY <1>1, MoveTotal
  <2>2. Total(A) + Cardinality(F) = N /\ Total(R) + Len(G) = Len(A[p])
    BY DEF Accounted, Leaves
  <2> QED
    BY <1>2, <1>10, <1>11, <2>1, <2>2, SMTT(30)
<1> QED
  BY <1>1, <1>7, <1>10, <1>11, <1>12, <1>13, <1>14 DEF Accounted, Numbered, Apart

LEMMA PipeSelected == ASSUME NEW s, NEW S PROVE Pipe!Selected(s, S) = Selected(s, S)
BY DEF Pipe!Selected, Selected

\* Each element of s is in one of three sets; then it is selected into one of
\* three arrays.
InOne(s, S1, S2, S3) ==
  \A k \in 1 .. Len(s) : /\ s[k] \in S1 \/ s[k] \in S2 \/ s[k] \in S3
                         /\ ~(s[k] \in S1 /\ s[k] \in S2) /\ ~(s[k] \in S1 /\ s[k] \in S3)
                         /\ ~(s[k] \in S2 /\ s[k] \in S3)

LEMMA SelectThree ==
  ASSUME NEW T, NEW s \in Seq(T), NEW S1, NEW S2, NEW S3, InOne(s, S1, S2, S3)
  PROVE  Len(Selected(s, S1)) + Len(Selected(s, S2)) + Len(Selected(s, S3)) = Len(s)
<1>1. PICK n \in Nat : n = Len(s)
  BY LenProperties
<1>2. PICK f1 \in [0 .. n -> Seq(T)] : SelectLoop(s, S1, f1) /\ Selected(s, S1) = f1[n]
  BY <1>1, SelectCourse
<1>3. PICK f2 \in [0 .. n -> Seq(T)] : SelectLoop(s, S2, f2) /\ Selected(s, S2) = f2[n]
  BY <1>1, SelectCourse
<1>4. PICK f3 \in [0 .. n -> Seq(T)] : SelectLoop(s, S3, f3) /\ Selected(s, S3) = f3[n]
  BY <1>1, SelectCourse
<1>5. SelectRounds(s, S1, f1, n) /\ SelectRounds(s, S2, f2, n) /\ SelectRounds(s, S3, f3, n)
  BY <1>1, <1>2, <1>3, <1>4, SelectRound
<1> DEFINE E == {k \in 0 .. n : Len(f1[k]) + Len(f2[k]) + Len(f3[k]) = k}
<1>6. 0 \in E
  <2>1. f1[0] = <<>> /\ f2[0] = <<>> /\ f3[0] = <<>>
    BY <1>5 DEF SelectRounds
  <2> QED
    BY <1>1, <2>1
<1>7. ASSUME NEW k \in 1 .. n, k - 1 \in E PROVE k \in E
  <2>1. k - 1 \in 0 .. n /\ k \in 0 .. n
    BY <1>1
  <2>2. PICK x1, x2, x3, m : x1 = f1[k - 1] /\ x2 = f2[k - 1] /\ x3 = f3[k - 1] /\ m = s[k]
    OBVIOUS
  <2>3. x1 \in Seq(T) /\ x2 \in Seq(T) /\ x3 \in Seq(T) /\ m \in T
    BY <1>1, <1>2, <1>3, <1>4, <2>1, <2>2, ElementOfSeq
  <2>4. PICK a \in Nat, b \in Nat, c \in Nat : a = Len(x1) /\ b = Len(x2) /\ c = Len(x3)
    BY <2>3, LenProperties
  <2>5. Len(Append(x1, m)) = a + 1 /\ Len(Append(x2, m)) = b + 1 /\ Len(Append(x3, m)) = c + 1
    BY <2>3, <2>4, AppendProperties
  <2>6. Len(f1[k]) = IF m \in S1 THEN a + 1 ELSE a
    BY <1>5, <2>2, <2>4, <2>5 DEF SelectRounds
  <2>7. Len(f2[k]) = IF m \in S2 THEN b + 1 ELSE b
    BY <1>5, <2>2, <2>4, <2>5 DEF SelectRounds
  <2>8. Len(f3[k]) = IF m \in S3 THEN c + 1 ELSE c
    BY <1>5, <2>2, <2>4, <2>5 DEF SelectRounds
  <2>9. a + b + c = k - 1
    BY <1>7, <2>2, <2>4
  <2>10. Len(f1[k]) + Len(f2[k]) + Len(f3[k]) = k
    <3>1. /\ m \in S1 \/ m \in S2 \/ m \in S3
          /\ ~(m \in S1 /\ m \in S2) /\ ~(m \in S1 /\ m \in S3) /\ ~(m \in S2 /\ m \in S3)
      BY <1>1, <2>2 DEF InOne
    <3>2. k \in Nat
      BY <2>1
    <3>3. CASE m \in S1
      BY <2>6, <2>7, <2>8, <2>9, <3>1, <3>2, <3>3
    <3>4. CASE m \in S2
      BY <2>6, <2>7, <2>8, <2>9, <3>1, <3>2, <3>4
    <3>5. CASE m \in S3
      BY <2>6, <2>7, <2>8, <2>9, <3>1, <3>2, <3>5
    <3> QED
      BY <3>1, <3>3, <3>4, <3>5
  <2> QED
    BY <2>1, <2>10
<1>8. n \in 0 .. n
  BY <1>1
<1>9. n \in E
  <2> HIDE DEF E
  <2> QED
    BY <1>1, <1>6, <1>7, <1>8, Rounds
<1> QED
  BY <1>1, <1>2, <1>3, <1>4, <1>9

-----------------------------------------------------------------------------
\* The graph: a node that holds something is to be called.
Waits(g) ==
  /\ g.pending \in Seq(Pipe!Nodes) /\ g.stream \in [Pipe!Nodes -> Seq(Pkts)]
  /\ \A n \in Pipe!Nodes : g.stream[n] # <<>> => \E j \in 1 .. Len(g.pending) : g.pending[j] = n

Graph1 == [pending |-> pending1, stream |-> stream1]

Enqueued(h, g, n, new) ==
  h.stream[n] = g.stream[n] \o new /\ \A m \in Pipe!Nodes : m # n => h.stream[m] = g.stream[m]

LEMMA EnqueueWaits ==
  ASSUME NEW g, Waits(g), NEW n \in Pipe!Nodes, NEW new \in Seq(Pkts)
  PROVE  Waits(Pipe!Enqueue(g, n, new)) /\ Enqueued(Pipe!Enqueue(g, n, new), g, n, new)
<1>1. PICK h : h = Pipe!Enqueue(g, n, new)
  OBVIOUS
<1>2. /\ h.pending = IF new = <<>> \/ g.stream[n] # <<>> THEN g.pending ELSE Append(g.pending, n)
      /\ h.stream = [g.stream EXCEPT ![n] = g.stream[n] \o new]
  BY <1>1 DEF Pipe!Enqueue
<1>3. g.pending \in Seq(Pipe!Nodes) /\ g.stream \in [Pipe!Nodes -> Seq(Pkts)]
  BY DEF Waits
<1>4. g.stream[n] \o new \in Seq(Pkts)
  BY <1>3, ConcatProperties
<1>5. h.stream \in [Pipe!Nodes -> Seq(Pkts)] /\ Enqueued(h, g, n, new)
  BY <1>2, <1>3, <1>4 DEF Enqueued
<1>6. PICK a \in Nat : a = Len(g.pending)
  BY <1>3, LenProperties
<1>7. CASE new = <<>> \/ g.stream[n] # <<>>
  <2>1. h.pending = g.pending
    BY <1>2, <1>7
  <2>2. ASSUME NEW m \in Pipe!Nodes, h.stream[m] # <<>> PROVE g.stream[m] # <<>>
    <3>1. CASE m # n
      BY <1>5, <2>2, <3>1 DEF Enqueued
    <3>2. CASE m = n /\ new = <<>>
      <4>1. h.stream[m] = g.stream[m] \o <<>>
        BY <1>5, <3>2 DEF Enqueued
      <4> QED
        BY <1>3, <2>2, <4>1, ConcatEmptySeq
    <3> QED
      BY <1>7, <3>1, <3>2
  <2>3. Waits(h)
    BY <1>3, <1>5, <2>1, <2>2 DEF Waits
  <2> QED
    BY <1>1, <1>5, <2>3
<1>8. CASE ~(new = <<>> \/ g.stream[n] # <<>>)
  <2>1. h.pending = Append(g.pending, n)
    BY <1>2, <1>8
  <2>2. /\ h.pending \in Seq(Pipe!Nodes) /\ Len(h.pending) = a + 1 /\ h.pending[a + 1] = n
        /\ \A j \in 1 .. a : h.pending[j] = g.pending[j]
    BY <1>3, <1>6, <2>1, AppendProperties
  <2>3. a + 1 \in 1 .. (a + 1) /\ \A j \in 1 .. a : j \in 1 .. (a + 1)
    BY <1>6
  <2>4. ASSUME NEW m \in Pipe!Nodes, h.stream[m] # <<>> PROVE \E j \in 1 .. (a + 1) : h.pending[j] = m
    <3>1. CASE m = n
      BY <2>2, <2>3, <3>1
    <3>2. CASE m # n
      <4>1. g.stream[m] # <<>>
        BY <1>5, <2>4, <3>2 DEF Enqueued
      <4>2. PICK j \in 1 .. a : g.pending[j] = m
        BY <1>6, <4>1 DEF Waits
      <4> QED
        BY <2>2, <2>3, <4>2
    <3> QED
      BY <3>1, <3>2
  <2>5. Waits(h)
    BY <1>5, <2>2, <2>4 DEF Waits
  <2> QED
    BY <1>1, <1>5, <2>5
<1> QED
  BY <1>7, <1>8

LEMMA RestWaits ==
  ASSUME Waits(Graph1), NEW n \in Pipe!Nodes, Pipe!Calls(n)
  PROVE  /\ Waits(Pipe!Rest) /\ Pipe!Rest.stream[n] = <<>>
         /\ \A m \in Pipe!Nodes : m # n => Pipe!Rest.stream[m] = stream1[m]
<1>1. PICK h : h = Pipe!Rest
  OBVIOUS
<1>2. pending1 \in Seq(Pipe!Nodes) /\ stream1 \in [Pipe!Nodes -> Seq(Pkts)] /\ pending1 # <<>> /\ Head(pending1) = n
  BY DEF Waits, Graph1, Pipe!Calls
<1>3. h.pending = Tail(pending1) /\ h.stream = [stream1 EXCEPT ![n] = <<>>]
  BY <1>1, <1>2 DEF Pipe!Rest
<1>4. <<>> \in Seq(Pkts)
  BY EmptySeq
<1>5. /\ h.stream \in [Pipe!Nodes -> Seq(Pkts)] /\ h.stream[n] = <<>>
      /\ \A m \in Pipe!Nodes : m # n => h.stream[m] = stream1[m]
  BY <1>2, <1>3, <1>4
<1>6. PICK a \in Nat : a = Len(pending1) /\ a >= 1
  BY <1>2, LenProperties, EmptySeq
<1>7. /\ h.pending \in Seq(Pipe!Nodes) /\ Len(h.pending) = a - 1 /\ pending1[1] = n
      /\ \A j \in 1 .. (a - 1) : h.pending[j] = pending1[j + 1]
  BY <1>2, <1>3, <1>6, HeadTailProperties
<1>8. ASSUME NEW m \in Pipe!Nodes, h.stream[m] # <<>> PROVE \E j \in 1 .. (a - 1) : h.pending[j] = m
  <2>1. m # n /\ stream1[m] # <<>>
    BY <1>5, <1>8
  <2>2. PICK j \in 1 .. a : pending1[j] = m
    BY <1>6, <2>1 DEF Waits, Graph1
  <2>3. j # 1
    BY <1>7, <2>1, <2>2
  <2>4. j - 1 \in 1 .. (a - 1) /\ (j - 1) + 1 = j
    BY <1>6, <2>3
  <2> QED
    BY <1>7, <2>2, <2>4
<1>9. Waits(h)
  BY <1>5, <1>7, <1>8 DEF Waits
<1> QED
  BY <1>1, <1>5, <1>9

\* The sequences that the places hold.
PipeAt == [p \in Places |-> IF p = "wire" THEN wire1 ELSE stream1[p]]

PipeInv ==
  /\ pc1 \in {"test", "walk", "done"} /\ (pc1 # "walk" => pending1 = <<>>)
  /\ Waits(Graph1) /\ Accounted(PipeAt, freed1, received1)

LEMMA PipeHolds ==
  ASSUME PipeInv
  PROVE  /\ Holding(PipeAt) /\ PipeAt["wire"] = wire1 /\ "wire" \in Places /\ wire1 \in Seq(Pkts)
         /\ \A n \in Pipe!Nodes : n \in Places /\ n # "wire" /\ PipeAt[n] = stream1[n] /\ stream1[n] \in Seq(Pkts)
<1>1. Holding(PipeAt)
  BY DEF PipeInv, Accounted
<1>2. "wire" \in Places /\ PipeAt["wire"] = wire1
  BY DEF Places, PipeAt
<1>3. \A n \in Pipe!Nodes : n \in Places /\ n # "wire" /\ PipeAt[n] = stream1[n]
  BY DEF Places, PipeAt, Pipe!Nodes
<1> QED
  BY <1>1, <1>2, <1>3 DEF Holding

\* A place that is not touched, and one that is given something.
Untouched(A, B, R, q) == B[q] = A[q] /\ R[q] = <<>>
Receives(A, B, p, R, q) ==
  /\ B[q] = A[q] \o R[q] /\ Level(q) = Level(p) + 1 /\ \E at : From(R[q], A[p], at)
  /\ \A j \in 1 .. Len(R[q]) : R[q][j].type \in Types(q)

LEMMA MovesIf ==
  ASSUME NEW A, NEW B, NEW R, NEW p \in Places, Holding(A), B \in [Places -> Seq(Pkts)],
         R \in [Places -> Seq(Pkts)], B[p] = <<>>, R[p] = <<>>,
         \A q \in Places : q # p => Untouched(A, B, R, q) \/ Receives(A, B, p, R, q)
  PROVE  Moves(A, B, p, R)
<1>1. \A q \in Places : A[q] \in Seq(Pkts) /\ A[q] \o <<>> = A[q]
  BY ConcatEmptySeq DEF Holding
<1>2. ASSUME NEW q \in Places, R[q] = <<>> PROVE Len(R[q]) = 0 /\ \E at : From(R[q], A[p], at)
  <2>1. Len(R[q]) = 0
    BY <1>2
  <2> DEFINE at == [j \in 1 .. 0 |-> 0]
  <2>2. From(R[q], A[p], at)
    BY <2>1 DEF From
  <2> HIDE DEF at
  <2> QED
    BY <2>1, <2>2
<1>3. \A q \in Places : q # p => B[q] = A[q] \o R[q]
  BY <1>1 DEF Untouched, Receives
<1>4. \A q \in Places : Len(R[q]) > 0 => Level(q) = Level(p) + 1
  BY <1>2 DEF Untouched, Receives
<1>5. \A q \in Places : \E at : From(R[q], A[p], at)
  BY <1>2 DEF Untouched, Receives
<1>6. \A q \in Places : \A j \in 1 .. Len(R[q]) : R[q][j].type \in Types(q)
  <2> SUFFICES ASSUME NEW q \in Places, NEW j \in 1 .. Len(R[q]) PROVE R[q][j].type \in Types(q)
    OBVIOUS
  <2>1. R[q] # <<>>
    BY <1>2
  <2> QED
    BY <2>1 DEF Untouched, Receives
<1> QED
  BY <1>3, <1>4, <1>5, <1>6 DEF Moves

\* The new sequences.
LEMMA NextAt ==
  ASSUME NEW g, Waits(g), Pipe!Becomes(g), wire1' \in Seq(Pkts), NEW B, B = PipeAt'
  PROVE  /\ B \in [Places -> Seq(Pkts)] /\ B["wire"] = wire1' /\ \A n \in Pipe!Nodes : B[n] = g.stream[n]
         /\ Waits(Graph1)'
<1>1. stream1' = g.stream /\ pending1' = g.pending /\ g.stream \in [Pipe!Nodes -> Seq(Pkts)]
  BY DEF Pipe!Becomes, Waits
<1>2. B = [p \in Places |-> IF p = "wire" THEN wire1' ELSE g.stream[p]]
  BY <1>1 DEF PipeAt
<1>3. \A p \in Places : p # "wire" => p \in Pipe!Nodes
  BY DEF Places
<1>4. "wire" \in Places /\ \A n \in Pipe!Nodes : n \in Places /\ n # "wire"
  BY DEF Places, Pipe!Nodes
<1>5. B \in [Places -> Seq(Pkts)]
  BY <1>1, <1>2, <1>3
<1>6. B["wire"] = wire1' /\ \A n \in Pipe!Nodes : B[n] = g.stream[n]
  BY <1>2, <1>4
<1>7. Waits(Graph1)'
  BY <1>1 DEF Waits, Graph1
<1> QED
  BY <1>5, <1>6, <1>7

\* A node has been called.
LEMMA NodeStep ==
  ASSUME PipeInv, pc1 = "walk", UNCHANGED <<pc1, received1>>, Waits(Graph1)', NEW p \in Pipe!Nodes, NEW R, NEW G,
         NEW A, A = PipeAt, NEW B, B = PipeAt', Moves(A, B, p, R), Leaves(A, p, R, G),
         freed1' = freed1 \cup Pipe!Elements(G)
  PROVE  PipeInv'
<1>1. Accounted(A, freed1, received1)
  BY DEF PipeInv
<1>2. PICK F, N : F = freed1 /\ N = received1
  OBVIOUS
<1>3. Accounted(A, F, N)
  BY <1>1, <1>2
<1>4. Accounted(B, F \cup Pipe!Elements(G), N)
  BY <1>3, MoveAccounted
<1>5. Accounted(PipeAt, freed1, received1)'
  BY <1>2, <1>4
<1> QED
  BY <1>5 DEF PipeInv

LEMMA NothingLeaves ==
  ASSUME NEW A, NEW R, NEW p, Len(A[p]) \in Nat, Total(R) = Len(A[p])
  PROVE  Leaves(A, p, R, <<>>) /\ Pipe!Elements(<<>>) = {}
<1>1. <<>> \in Seq(Pkts) /\ Len(<<>>) = 0
  BY EmptySeq
<1> DEFINE at == [j \in 1 .. 0 |-> 0]
<1>2. From(<<>>, A[p], at)
  BY <1>1 DEF From
<1> HIDE DEF at
<1>3. Total(R) + 0 = Len(A[p])
  OBVIOUS
<1>4. Leaves(A, p, R, <<>>)
  BY <1>1, <1>2, <1>3 DEF Leaves
<1>5. Pipe!Elements(<<>>) = {}
  BY DEF Pipe!Elements
<1> QED
  BY <1>4, <1>5

\* All of a sequence, and a part of it.
LEMMA FromAll ==
  ASSUME NEW s \in Seq(Pkts)
  PROVE  \E at : From(s, s, at)
<1>1. PICK n \in Nat : n = Len(s)
  BY LenProperties
<1> DEFINE at == [j \in 1 .. n |-> j]
<1>2. From(s, s, at)
  BY <1>1 DEF From
<1> HIDE DEF at
<1> QED
  BY <1>2

\* ipv4 or ipv6 passes on all it is given.
LEMMA PassesOn ==
  ASSUME PipeInv, NEW n \in {"ipv4", "ipv6"}, Pipe!Calls(n),
         Pipe!Becomes(Pipe!Enqueue(Pipe!Rest, "tx", stream1[n])), UNCHANGED <<pc1, received1, wire1, freed1>>
  PROVE  PipeInv'
<1>1. n \in Pipe!Nodes /\ "tx" \in Pipe!Nodes /\ n # "tx"
  BY DEF Pipe!Nodes
<1>2. Waits(Graph1) /\ pc1 = "walk"
  BY DEF PipeInv, Pipe!Calls
<1>3. PICK A, B : A = PipeAt /\ B = PipeAt'
  OBVIOUS
<1>4. PICK g, h, s : g = Pipe!Rest /\ h = Pipe!Enqueue(g, "tx", s) /\ s = stream1[n]
  OBVIOUS
<1>5. Waits(g) /\ g.stream[n] = <<>> /\ \A m \in Pipe!Nodes : m # n => g.stream[m] = stream1[m]
  BY <1>1, <1>2, <1>4, RestWaits
<1>6. /\ Holding(A) /\ A["wire"] = wire1 /\ wire1 \in Seq(Pkts)
      /\ \A m \in Pipe!Nodes : m \in Places /\ m # "wire" /\ A[m] = stream1[m] /\ stream1[m] \in Seq(Pkts)
  BY <1>3, PipeHolds
<1>7. s \in Seq(Pkts) /\ s = A[n]
  BY <1>1, <1>4, <1>6
<1>8. Waits(h) /\ Enqueued(h, g, "tx", s)
  BY <1>1, <1>4, <1>5, <1>7, EnqueueWaits
<1>9. /\ B \in [Places -> Seq(Pkts)] /\ B["wire"] = wire1 /\ (\A m \in Pipe!Nodes : B[m] = h.stream[m])
      /\ Waits(Graph1)'
  BY <1>3, <1>4, <1>6, <1>8, NextAt
<1> DEFINE R == [q \in Places |-> IF q = "tx" THEN s ELSE <<>>]
<1>10. /\ R \in [Places -> Seq(Pkts)] /\ R["tx"] = s /\ \A q \in Places : q # "tx" => R[q] = <<>>
  BY <1>1, <1>6, <1>7, EmptySeq
<1> HIDE DEF R
<1>11. B[n] = <<>> /\ R[n] = <<>>
  BY <1>1, <1>5, <1>6, <1>8, <1>9, <1>10 DEF Enqueued
<1>12. Receives(A, B, n, R, "tx")
  <2>1. B["tx"] = A["tx"] \o R["tx"]
    BY <1>1, <1>5, <1>6, <1>8, <1>9, <1>10 DEF Enqueued
  <2>2. Level("tx") = Level(n) + 1
    BY DEF Level
  <2>3. \E at : From(R["tx"], A[n], at)
    BY <1>7, <1>10, FromAll
  <2>4. \A j \in 1 .. Len(R["tx"]) : R["tx"][j].type \in Types("tx")
    <3>1. \A j \in 1 .. Len(s) : s[j].type \in Types(n)
      BY <1>1, <1>6, <1>7 DEF Holding
    <3>2. Types(n) \subseteq Types("tx")
      BY DEF Types
    <3> QED
      BY <1>10, <3>1, <3>2
  <2> QED
    BY <2>1, <2>2, <2>3, <2>4 DEF Receives
<1>13. ASSUME NEW q \in Places, q # n, q # "tx" PROVE Untouched(A, B, R, q)
  <2>1. q = "wire" \/ q \in Pipe!Nodes
    BY DEF Places
  <2>2. CASE q = "wire"
    BY <1>6, <1>9, <1>10, <1>13, <2>2 DEF Untouched
  <2>3. CASE q \in Pipe!Nodes
    BY <1>5, <1>6, <1>8, <1>9, <1>10, <1>13, <2>3 DEF Untouched, Enqueued
  <2> QED
    BY <2>1, <2>2, <2>3
<1>14. Moves(A, B, n, R)
  BY <1>1, <1>6, <1>9, <1>10, <1>11, <1>12, <1>13, MovesIf
<1>15. Total(R) = Len(A[n]) /\ Len(A[n]) \in Nat
  <2>1. \A q \in {"l2", "ipv4", "ipv6", "drop", "wire"} : Len(R[q]) = 0
    BY <1>10 DEF Places, Pipe!Nodes
  <2>2. Len(R["tx"]) = Len(A[n]) /\ Len(A[n]) \in Nat
    BY <1>7, <1>10, LenProperties
  <2>3. PICK a \in Nat : a = Len(R["tx"]) /\ a = Len(A[n])
    BY <2>2
  <2>4. Total(R) = 0 + 0 + 0 + 0 + a + 0
    BY <2>1, <2>3 DEF Total
  <2> QED
    BY <2>3, <2>4
<1>16. Leaves(A, n, R, <<>>) /\ Pipe!Elements(<<>>) = {}
  BY <1>15, NothingLeaves
<1>17. freed1' = freed1 \cup Pipe!Elements(<<>>)
  BY <1>16
<1> QED
  BY <1>1, <1>2, <1>3, <1>9, <1>14, <1>16, <1>17, NodeStep

\* The burst is sorted.
LEMMA Sorts ==
  ASSUME PipeInv, Pipe!l2_node_process
  PROVE  PipeInv'
<1>1. /\ "l2" \in Pipe!Nodes /\ "ipv4" \in Pipe!Nodes /\ "ipv6" \in Pipe!Nodes /\ "drop" \in Pipe!Nodes
  BY DEF Pipe!Nodes
<1>2. Waits(Graph1) /\ pc1 = "walk" /\ Pipe!Calls("l2") /\ UNCHANGED <<pc1, received1, wire1, freed1>>
  BY DEF PipeInv, Pipe!Calls, Pipe!l2_node_process
<1>3. PICK A, B, s : A = PipeAt /\ B = PipeAt' /\ s = stream1["l2"]
  OBVIOUS
<1>4. PICK S4, S6, SD : /\ S4 = {m \in Pipe!Elements(s) : Pipe!IsIPv4(m)}
                        /\ S6 = {m \in Pipe!Elements(s) : Pipe!IsIPv6(m)}
                        /\ SD = {m \in Pipe!Elements(s) : Pipe!IsOther(m)}
  OBVIOUS
<1>5. PICK v4, v6, d : v4 = Selected(s, S4) /\ v6 = Selected(s, S6) /\ d = Selected(s, SD)
  OBVIOUS
<1>6. PICK g0, g1, g2, h : /\ g0 = Pipe!Rest /\ g1 = Pipe!Enqueue(g0, "ipv4", v4)
                           /\ g2 = Pipe!Enqueue(g1, "ipv6", v6) /\ h = Pipe!Enqueue(g2, "drop", d)
  OBVIOUS
<1>7. Pipe!Becomes(h)
  BY <1>3, <1>4, <1>5, <1>6, PipeSelected DEF Pipe!l2_node_process
<1>8. /\ Holding(A) /\ A["wire"] = wire1 /\ wire1 \in Seq(Pkts)
      /\ \A m \in Pipe!Nodes : m \in Places /\ m # "wire" /\ A[m] = stream1[m] /\ stream1[m] \in Seq(Pkts)
  BY <1>3, PipeHolds
<1>9. s \in Seq(Pkts) /\ s = A["l2"]
  BY <1>1, <1>3, <1>8
<1>10. /\ v4 \in Seq(Pkts) /\ \E at : Keeps(v4, s, S4, Len(s), at)
       /\ v6 \in Seq(Pkts) /\ \E at : Keeps(v6, s, S6, Len(s), at)
       /\ d \in Seq(Pkts) /\ \E at : Keeps(d, s, SD, Len(s), at)
  BY <1>5, <1>9, SelectedKeeps
<1>11. Waits(g0) /\ g0.stream["l2"] = <<>> /\ \A m \in Pipe!Nodes : m # "l2" => g0.stream[m] = stream1[m]
  BY <1>1, <1>2, <1>6, RestWaits
<1>12. Waits(g1) /\ Enqueued(g1, g0, "ipv4", v4)
  BY <1>1, <1>6, <1>10, <1>11, EnqueueWaits
<1>13. Waits(g2) /\ Enqueued(g2, g1, "ipv6", v6)
  BY <1>1, <1>6, <1>10, <1>12, EnqueueWaits
<1>14. Waits(h) /\ Enqueued(h, g2, "drop", d)
  BY <1>1, <1>6, <1>10, <1>13, EnqueueWaits
<1>15. /\ B \in [Places -> Seq(Pkts)] /\ B["wire"] = wire1 /\ (\A m \in Pipe!Nodes : B[m] = h.stream[m])
       /\ Waits(Graph1)'
  BY <1>2, <1>3, <1>7, <1>8, <1>14, NextAt
<1>16. /\ B["l2"] = <<>> /\ B["tx"] = A["tx"] /\ B["ipv4"] = A["ipv4"] \o v4
       /\ B["ipv6"] = A["ipv6"] \o v6 /\ B["drop"] = A["drop"] \o d
  BY <1>8, <1>11, <1>12, <1>13, <1>14, <1>15 DEF Enqueued, Pipe!Nodes
<1> DEFINE R == [q \in Places |-> IF q = "ipv4" THEN v4 ELSE IF q = "ipv6" THEN v6
                                  ELSE IF q = "drop" THEN d ELSE <<>>]
<1>17. /\ R \in [Places -> Seq(Pkts)] /\ R["ipv4"] = v4 /\ R["ipv6"] = v6 /\ R["drop"] = d
       /\ R["l2"] = <<>> /\ R["tx"] = <<>> /\ R["wire"] = <<>>
  BY <1>10, EmptySeq DEF Places, Pipe!Nodes
<1> HIDE DEF R
<1>18. ASSUME NEW r, NEW S, NEW at, Keeps(r, s, S, Len(s), at) PROVE From(r, s, at) /\ \A j \in 1 .. Len(r) : r[j] \in S
  BY <1>18 DEF Keeps, From
<1>19. \A m \in S4 : m.type = "IPV4"
  BY <1>4 DEF Pipe!IsIPv4
<1>20. \A m \in S6 : m.type = "IPV6"
  BY <1>4 DEF Pipe!IsIPv6
<1>21. \A m \in SD : m.type = "other"
  <2>1. \A m \in Pipe!Elements(s) : m.type \in Pipe!EtherTypes
    BY <1>9, ElementOfSeq, LenProperties, Levels DEF Pipe!Elements
  <2> QED
    BY <1>4, <2>1 DEF Pipe!IsOther, Pipe!IsIPv4, Pipe!IsIPv6, Pipe!EtherTypes
<1>22. Receives(A, B, "l2", R, "ipv4")
  <2>1. \E at : From(v4, s, at) /\ \A j \in 1 .. Len(v4) : v4[j] \in S4
    BY <1>10, <1>18
  <2>2. Level("ipv4") = Level("l2") + 1 /\ Types("ipv4") = {"IPV4"}
    BY DEF Level, Types
  <2> QED
    BY <1>9, <1>16, <1>17, <1>19, <2>1, <2>2 DEF Receives
<1>23. Receives(A, B, "l2", R, "ipv6")
  <2>1. \E at : From(v6, s, at) /\ \A j \in 1 .. Len(v6) : v6[j] \in S6
    BY <1>10, <1>18
  <2>2. Level("ipv6") = Level("l2") + 1 /\ Types("ipv6") = {"IPV6"}
    BY DEF Level, Types
  <2> QED
    BY <1>9, <1>16, <1>17, <1>20, <2>1, <2>2 DEF Receives
<1>24. Receives(A, B, "l2", R, "drop")
  <2>1. \E at : From(d, s, at) /\ \A j \in 1 .. Len(d) : d[j] \in SD
    BY <1>10, <1>18
  <2>2. Level("drop") = Level("l2") + 1 /\ Types("drop") = {"other"}
    BY DEF Level, Types
  <2> QED
    BY <1>9, <1>16, <1>17, <1>21, <2>1, <2>2 DEF Receives
<1>25. Untouched(A, B, R, "tx") /\ Untouched(A, B, R, "wire")
  BY <1>8, <1>15, <1>16, <1>17 DEF Untouched
<1>26. Moves(A, B, "l2", R)
  <2>1. \A q \in Places : q # "l2" => Untouched(A, B, R, q) \/ Receives(A, B, "l2", R, q)
    BY <1>22, <1>23, <1>24, <1>25 DEF Places, Pipe!Nodes
  <2> QED
    BY <1>1, <1>8, <1>15, <1>16, <1>17, <2>1, MovesIf
<1>27. Total(R) = Len(A["l2"]) /\ Len(A["l2"]) \in Nat
  <2>1. Len(v4) + Len(v6) + Len(d) = Len(s)
    <3>1. \A k \in 1 .. Len(s) : s[k] \in Pipe!Elements(s) /\ s[k].type \in Pipe!EtherTypes
      BY <1>9, ElementOfSeq, LenProperties, Levels DEF Pipe!Elements
    <3>2. \A k \in 1 .. Len(s) : /\ s[k] \in S4 \/ s[k] \in S6 \/ s[k] \in SD
                                 /\ ~(s[k] \in S4 /\ s[k] \in S6) /\ ~(s[k] \in S4 /\ s[k] \in SD)
                                 /\ ~(s[k] \in S6 /\ s[k] \in SD)
      BY <1>4, <1>19, <1>20, <1>21, <3>1 DEF Pipe!IsOther, Pipe!IsIPv4, Pipe!IsIPv6
    <3>3. InOne(s, S4, S6, SD)
      BY <3>2 DEF InOne
    <3> QED
      BY <1>5, <1>9, <3>3, SelectThree
  <2>2. PICK a \in Nat, b \in Nat, c \in Nat : a = Len(v4) /\ b = Len(v6) /\ c = Len(d)
    BY <1>10, LenProperties
  <2>3. Total(R) = 0 + a + b + c + 0 + 0
    BY <1>17, <2>2 DEF Total
  <2> QED
    BY <1>9, <2>1, <2>2, <2>3
<1>28. Leaves(A, "l2", R, <<>>) /\ Pipe!Elements(<<>>) = {}
  BY <1>27, NothingLeaves
<1>29. freed1' = freed1 \cup Pipe!Elements(<<>>)
  BY <1>2, <1>28
<1> QED
  BY <1>1, <1>2, <1>3, <1>15, <1>26, <1>28, <1>29, NodeStep

\* The first n of s, and the others.
CutAt(u, v, s, n) == u = SubSeq(s, 1, n) /\ v = SubSeq(s, n + 1, Len(s))
Halves(u, v, s, a, n) ==
  /\ u \in Seq(Pkts) /\ v \in Seq(Pkts) /\ Len(u) = n /\ Len(v) = a - n
  /\ (\E at : From(u, s, at)) /\ (\E at : From(v, s, at))
  /\ \A j \in 1 .. n : j \in 1 .. a /\ u[j] = s[j]
  /\ \A j \in 1 .. (a - n) : n + j \in 1 .. a /\ v[j] = s[n + j]

LEMMA Cut ==
  ASSUME NEW s \in Seq(Pkts), NEW a \in Nat, a = Len(s), NEW n \in 0 .. a, NEW u, NEW v, CutAt(u, v, s, n)
  PROVE  Halves(u, v, s, a, n)
<1>0. u = SubSeq(s, 1, n) /\ v = SubSeq(s, n + 1, Len(s))
  BY DEF CutAt
<1>1. /\ u \in Seq(Pkts) /\ Len(u) = n /\ \A j \in 1 .. n : j \in 1 .. a /\ u[j] = s[j]
  <2>1. \A j \in 1 .. n : s[j] \in Pkts
    BY ElementOfSeq
  <2>2. CASE n = 0
    <3>1. u = <<>>
      BY <2>2, SubSeqProperties, <1>0
    <3> QED
      BY <2>2, <3>1, EmptySeq
  <2>3. CASE n # 0
    BY <2>1, <2>3, SubSeqProperties, <1>0
  <2> QED
    BY <2>2, <2>3
<1>2. /\ v \in Seq(Pkts) /\ Len(v) = a - n /\ \A j \in 1 .. (a - n) : n + j \in 1 .. a /\ v[j] = s[n + j]
  <2>1. \A j \in (n + 1) .. a : s[j] \in Pkts
    BY ElementOfSeq
  <2>2. CASE n = a
    <3>1. v = <<>>
      BY <2>2, SubSeqProperties, <1>0
    <3> QED
      BY <2>2, <3>1, EmptySeq
  <2>3. CASE n # a
    <3>1. Len(v) = a - n /\ v \in Seq(Pkts)
      BY <2>1, <2>3, SubSeqProperties, <1>0
    <3>2. \A j \in 1 .. (a - n) : v[j] = s[n + j] /\ n + j \in 1 .. a
      BY <2>3, SubSeqProperties, <1>0
    <3> QED
      BY <3>1, <3>2
  <2> QED
    BY <2>2, <2>3
<1>3. \E at : From(u, s, at)
  <2> DEFINE at == [j \in 1 .. n |-> j]
  <2>1. From(u, s, at)
    BY <1>1 DEF From
  <2> HIDE DEF at
  <2> QED
    BY <2>1
<1>4. \E at : From(v, s, at)
  <2> DEFINE at == [j \in 1 .. (a - n) |-> n + j]
  <2>1. From(v, s, at)
    BY <1>2 DEF From
  <2> HIDE DEF at
  <2> QED
    BY <2>1
<1> QED
  BY <1>1, <1>2, <1>3, <1>4 DEF Halves

LEMMA Sends ==
  ASSUME PipeInv, Pipe!tx_node_process
  PROVE  PipeInv'
<1>1. "tx" \in Pipe!Nodes /\ "tx" \in Places /\ "wire" \in Places
  BY DEF Pipe!Nodes, Places
<1>2. Waits(Graph1) /\ pc1 = "walk" /\ Pipe!Calls("tx") /\ UNCHANGED <<pc1, received1>> /\ Pipe!Becomes(Pipe!Rest)
  BY DEF PipeInv, Pipe!Calls, Pipe!tx_node_process
<1>3. PICK A, B, s, g : A = PipeAt /\ B = PipeAt' /\ s = stream1["tx"] /\ g = Pipe!Rest
  OBVIOUS
<1>4. /\ Holding(A) /\ A["wire"] = wire1 /\ wire1 \in Seq(Pkts)
      /\ \A m \in Pipe!Nodes : m \in Places /\ m # "wire" /\ A[m] = stream1[m] /\ stream1[m] \in Seq(Pkts)
  BY <1>3, PipeHolds
<1>5. s \in Seq(Pkts) /\ s = A["tx"]
  BY <1>1, <1>3, <1>4
<1>6. PICK a \in Nat : a = Len(s)
  BY <1>5, LenProperties
<1>7. PICK n \in 0 .. a : /\ wire1' = wire1 \o SubSeq(s, 1, n)
                          /\ freed1' = freed1 \cup Pipe!Elements(SubSeq(s, n + 1, Len(s)))
  BY <1>3, <1>6 DEF Pipe!tx_node_process
<1>8. PICK u, v : u = SubSeq(s, 1, n) /\ v = SubSeq(s, n + 1, Len(s))
  OBVIOUS
<1>9. /\ u \in Seq(Pkts) /\ v \in Seq(Pkts) /\ Len(u) = n /\ Len(v) = a - n
      /\ (\E at : From(u, s, at)) /\ (\E at : From(v, s, at))
      /\ \A j \in 1 .. n : j \in 1 .. a /\ u[j] = s[j]
      /\ \A j \in 1 .. (a - n) : n + j \in 1 .. a /\ v[j] = s[n + j]
  <2>1. CutAt(u, v, s, n)
    BY <1>8 DEF CutAt
  <2>2. Halves(u, v, s, a, n)
    BY <1>5, <1>6, <2>1, Cut
  <2> QED
    BY <2>2 DEF Halves
<1>10. wire1' = wire1 \o u /\ wire1' \in Seq(Pkts)
  BY <1>4, <1>7, <1>8, <1>9, ConcatProperties
<1>11. Waits(g) /\ g.stream["tx"] = <<>> /\ \A m \in Pipe!Nodes : m # "tx" => g.stream[m] = stream1[m]
  BY <1>1, <1>2, <1>3, RestWaits
<1>12. /\ B \in [Places -> Seq(Pkts)] /\ B["wire"] = wire1' /\ (\A m \in Pipe!Nodes : B[m] = g.stream[m])
       /\ Waits(Graph1)'
  BY <1>2, <1>3, <1>10, <1>11, NextAt
<1> DEFINE R == [q \in Places |-> IF q = "wire" THEN u ELSE <<>>]
<1>13. R \in [Places -> Seq(Pkts)] /\ R["wire"] = u /\ \A q \in Places : q # "wire" => R[q] = <<>>
  BY <1>1, <1>9, EmptySeq
<1> HIDE DEF R
<1>14. B["tx"] = <<>> /\ R["tx"] = <<>>
  BY <1>1, <1>11, <1>12, <1>13
<1>15. Receives(A, B, "tx", R, "wire")
  <2>1. Level("wire") = Level("tx") + 1 /\ Types("wire") = Types("tx")
    BY DEF Level, Types
  <2>2. \A j \in 1 .. n : u[j].type \in Types("tx")
    BY <1>1, <1>4, <1>5, <1>6, <1>9 DEF Holding
  <2> QED
    BY <1>4, <1>5, <1>9, <1>10, <1>12, <1>13, <2>1, <2>2 DEF Receives
<1>16. ASSUME NEW q \in Places, q # "tx", q # "wire" PROVE Untouched(A, B, R, q)
  BY <1>4, <1>11, <1>12, <1>13, <1>16 DEF Untouched, Places
<1>17. Moves(A, B, "tx", R)
  BY <1>1, <1>4, <1>12, <1>13, <1>14, <1>15, <1>16, MovesIf
<1>18. Leaves(A, "tx", R, v)
  <2>1. ASSUME NEW q \in Places, NEW j \in 1 .. Len(R[q]), NEW k \in 1 .. Len(v) PROVE R[q][j] # v[k]
    <3>1. q = "wire" /\ j \in 1 .. n /\ R[q][j] = u[j]
      BY <1>9, <1>13, <2>1
    <3>2. n + k \in 1 .. a /\ j \in 1 .. a /\ j # n + k /\ u[j] = s[j] /\ v[k] = s[n + k]
      BY <1>9, <3>1
    <3> QED
      BY <1>1, <1>4, <1>5, <1>6, <3>1, <3>2, HeldOnce
  <2>2. Total(R) = 0 + 0 + 0 + 0 + 0 + n
    <3>1. \A q \in {"l2", "ipv4", "ipv6", "drop", "tx"} : Len(R[q]) = 0
      BY <1>13 DEF Places, Pipe!Nodes
    <3> QED
      BY <1>9, <1>13, <3>1 DEF Total
  <2>3. Total(R) + Len(v) = Len(A["tx"])
    BY <1>5, <1>6, <1>9, <2>2
  <2> QED
    BY <1>5, <1>9, <2>1, <2>3 DEF Leaves
<1>19. freed1' = freed1 \cup Pipe!Elements(v)
  BY <1>7, <1>8
<1> QED
  BY <1>1, <1>2, <1>3, <1>12, <1>17, <1>18, <1>19, NodeStep

LEMMA Drops ==
  ASSUME PipeInv, Pipe!drop_node_process
  PROVE  PipeInv'
<1>1. "drop" \in Pipe!Nodes /\ "drop" \in Places
  BY DEF Pipe!Nodes, Places
<1>2. /\ Waits(Graph1) /\ pc1 = "walk" /\ Pipe!Calls("drop") /\ UNCHANGED <<pc1, received1, wire1>>
      /\ Pipe!Becomes(Pipe!Rest) /\ freed1' = freed1 \cup Pipe!Elements(stream1["drop"])
  BY DEF PipeInv, Pipe!Calls, Pipe!drop_node_process
<1>3. PICK A, B, s, g : A = PipeAt /\ B = PipeAt' /\ s = stream1["drop"] /\ g = Pipe!Rest
  OBVIOUS
<1>4. /\ Holding(A) /\ A["wire"] = wire1 /\ wire1 \in Seq(Pkts)
      /\ \A m \in Pipe!Nodes : m \in Places /\ m # "wire" /\ A[m] = stream1[m] /\ stream1[m] \in Seq(Pkts)
  BY <1>3, PipeHolds
<1>5. s \in Seq(Pkts) /\ s = A["drop"]
  BY <1>1, <1>3, <1>4
<1>6. Waits(g) /\ g.stream["drop"] = <<>> /\ \A m \in Pipe!Nodes : m # "drop" => g.stream[m] = stream1[m]
  BY <1>1, <1>2, <1>3, RestWaits
<1>7. /\ B \in [Places -> Seq(Pkts)] /\ B["wire"] = wire1' /\ (\A m \in Pipe!Nodes : B[m] = g.stream[m])
      /\ Waits(Graph1)'
  BY <1>2, <1>3, <1>4, <1>6, NextAt
<1> DEFINE R == [q \in Places |-> <<>>]
<1>8. R \in [Places -> Seq(Pkts)] /\ \A q \in Places : R[q] = <<>>
  BY EmptySeq
<1> HIDE DEF R
<1>9. ASSUME NEW q \in Places, q # "drop" PROVE Untouched(A, B, R, q)
  BY <1>2, <1>4, <1>6, <1>7, <1>8, <1>9 DEF Untouched, Places
<1>10. Moves(A, B, "drop", R)
  BY <1>1, <1>4, <1>6, <1>7, <1>8, <1>9, MovesIf
<1>11. Leaves(A, "drop", R, s)
  <2>1. \A q \in Places : Len(R[q]) = 0
    BY <1>8
  <2>2. Total(R) = 0
    <3>1. \A q \in {"l2", "ipv4", "ipv6", "drop", "tx", "wire"} : Len(R[q]) = 0
      BY <2>1 DEF Places, Pipe!Nodes
    <3>2. Total(R) = 0 + 0 + 0 + 0 + 0 + 0
      BY <3>1 DEF Total
    <3> QED
      BY <3>2
  <2>3. Total(R) + Len(s) = Len(A["drop"])
    BY <1>5, <2>2, LenProperties
  <2>4. \E at : From(s, A["drop"], at)
    BY <1>5, FromAll
  <2> QED
    BY <1>5, <2>1, <2>3, <2>4 DEF Leaves
<1> QED
  BY <1>1, <1>2, <1>3, <1>7, <1>10, <1>11, NodeStep

\* A burst s arrives in an empty graph.
Arrives(A, B, s, N) ==
  /\ \A q \in Pipe!Nodes : A[q] = <<>> /\ (q # "l2" => B[q] = <<>>)
  /\ B["wire"] = A["wire"] /\ B["l2"] = s
  /\ s \in Seq(Pkts) /\ \A k \in 1 .. Len(s) : s[k].number = N + k

LEMMA ArrivalAccounted ==
  ASSUME NEW A, NEW B, NEW F, NEW N, NEW s, NEW n \in Nat, n = Len(s), Accounted(A, F, N), Arrives(A, B, s, N),
         B \in [Places -> Seq(Pkts)]
  PROVE  Accounted(B, F, N + n)
<1>1. /\ Holding(A) /\ F \subseteq Pkts /\ IsFiniteSet(F) /\ N \in Nat /\ N + n \in Nat
      /\ Numbered(A, F, N) /\ Apart(A, F) /\ Total(A) + Cardinality(F) = N
  BY DEF Accounted
<1>2. \A q \in Places : q = "wire" \/ q \in Pipe!Nodes
  BY DEF Places
<1>3. "wire" \in Places /\ "l2" \in Places /\ "l2" \in Pipe!Nodes /\ "wire" \notin Pipe!Nodes
  BY DEF Places, Pipe!Nodes
<1>4. \A k \in 1 .. n : s[k] \in Pkts /\ s[k].number = N + k /\ s[k].type \in Pipe!EtherTypes
  BY ElementOfSeq, Levels DEF Arrives
<1>5. PICK w \in Nat : w = Len(A["wire"])
  BY <1>1, <1>3, LenProperties DEF Holding
<1>6. \A k \in 1 .. w : A["wire"][k] \in Pkts /\ A["wire"][k].number <= N /\ A["wire"][k].number \in Nat
  <2>1. A["wire"] \in Seq(Pkts)
    BY <1>1, <1>3 DEF Holding
  <2> QED
    BY <1>1, <1>3, <1>5, <2>1, ElementOfSeq, Levels DEF Numbered
<1>7. ASSUME NEW q \in Places, NEW j \in 1 .. Len(B[q])
      PROVE  (q = "wire" /\ j \in 1 .. w /\ B[q][j] = A["wire"][j]) \/ (q = "l2" /\ j \in 1 .. n /\ B[q][j] = s[j])
  <2>1. CASE q = "wire"
    BY <1>5, <2>1 DEF Arrives
  <2>2. CASE q = "l2"
    BY <2>2 DEF Arrives
  <2>3. CASE q # "wire" /\ q # "l2"
    <3>1. B[q] = <<>>
      BY <1>2, <2>3 DEF Arrives
    <3>2. Len(B[q]) = 0
      BY <3>1
    <3> QED
      BY <1>7, <3>2
  <2> QED
    BY <2>1, <2>2, <2>3
<1>8. Holding(B)
  <2>1. ASSUME NEW p \in Places, NEW j \in 1 .. Len(B[p]) PROVE B[p][j].type \in Types(p)
    <3>1. Types("l2") = Pipe!EtherTypes
      BY DEF Types
    <3> QED
      BY <1>1, <1>3, <1>4, <1>5, <1>7, <3>1 DEF Holding
  <2>2. ASSUME NEW p \in Places, NEW q \in Places, Level(p) < Level(q), NEW j \in 1 .. Len(B[p]), NEW k \in 1 .. Len(B[q])
        PROVE  Before(B[q][k], B[p][j])
    <3>1. Level("wire") = 3 /\ Level("l2") = 0
      BY DEF Level
    <3>2. p = "l2" /\ q = "wire"
      BY <1>7, <2>2, <3>1
    <3>3. j \in 1 .. n /\ B[p][j] = s[j] /\ k \in 1 .. w /\ B[q][k] = A["wire"][k]
      BY <1>7, <3>2
    <3>4. s[j].number = N + j /\ A["wire"][k].number <= N /\ A["wire"][k].number \in Nat /\ j \in Nat /\ j >= 1
      BY <1>4, <1>6, <3>3
    <3>5. A["wire"][k].number < s[j].number
      BY <1>1, <3>4
    <3> QED
      BY <3>3, <3>5 DEF Before
  <2>3. ASSUME NEW p \in Places, NEW j \in 1 .. Len(B[p]), NEW k \in 1 .. Len(B[p]), k < j
        PROVE  Before(B[p][k], B[p][j])
    <3>1. CASE p = "wire"
      <4>1. B[p] = A[p]
        BY <3>1 DEF Arrives
      <4> QED
        BY <1>1, <2>3, <4>1 DEF Holding
    <3>2. CASE p = "l2"
      <4>1. j \in 1 .. n /\ B[p][j] = s[j] /\ k \in 1 .. n /\ B[p][k] = s[k]
        BY <1>7, <3>2
      <4>2. s[k].number = N + k /\ s[j].number = N + j
        BY <1>4, <4>1
      <4>3. s[k].number < s[j].number
        BY <1>1, <2>3, <4>1, <4>2
      <4> QED
        BY <4>1, <4>3 DEF Before
    <3> QED
      BY <1>7, <3>1, <3>2
  <2> QED
    BY <2>1, <2>2, <2>3 DEF Holding
<1>9. Numbered(B, F, N + n)
  <2>1. ASSUME NEW x \in F PROVE x.number <= N + n
    <3>1. x.number \in Nat /\ x.number <= N
      BY <1>1, Levels DEF Numbered
    <3> QED
      BY <1>1, <3>1
  <2>2. ASSUME NEW q \in Places, NEW j \in 1 .. Len(B[q]) PROVE B[q][j].number <= N + n
    <3>1. CASE j \in 1 .. w /\ B[q][j] = A["wire"][j]
      <4>1. A["wire"][j].number \in Nat /\ A["wire"][j].number <= N
        BY <1>6, <3>1
      <4> QED
        BY <1>1, <3>1, <4>1
    <3>2. CASE j \in 1 .. n /\ B[q][j] = s[j]
      <4>1. s[j].number = N + j
        BY <1>4, <3>2
      <4> QED
        BY <1>1, <3>2, <4>1
    <3> QED
      BY <1>7, <3>1, <3>2
  <2> QED
    BY <2>1, <2>2 DEF Numbered
<1>10. Apart(B, F)
  <2> SUFFICES ASSUME NEW q \in Places, NEW j \in 1 .. Len(B[q]) PROVE B[q][j] \notin F
    BY DEF Apart
  <2>1. CASE q = "wire" /\ j \in 1 .. w /\ B[q][j] = A["wire"][j]
    BY <1>1, <1>3, <1>5, <2>1 DEF Apart
  <2>2. CASE j \in 1 .. n /\ B[q][j] = s[j]
    <3>1. s[j].number = N + j
      BY <1>4, <2>2
    <3>2. \A x \in F : x.number <= N
      BY <1>1 DEF Numbered
    <3>3. ~(N + j <= N)
      BY <1>1, <2>2
    <3> QED
      BY <2>2, <3>1, <3>2, <3>3
  <2> QED
    BY <1>7, <2>1, <2>2
<1>11. Total(B) + Cardinality(F) = N + n
  <2>1. \A q \in {"ipv4", "ipv6", "drop", "tx"} : Len(A[q]) = 0 /\ Len(B[q]) = 0
    <3>1. \A q \in {"ipv4", "ipv6", "drop", "tx"} : A[q] = <<>> /\ B[q] = <<>>
      BY DEF Arrives, Pipe!Nodes
    <3> QED
      BY <3>1
  <2>2. Len(A["l2"]) = 0 /\ Len(B["l2"]) = n /\ Len(B["wire"]) = w
    BY <1>3, <1>5 DEF Arrives
  <2>3. Total(A) = 0 + 0 + 0 + 0 + 0 + w /\ Total(B) = n + 0 + 0 + 0 + 0 + w
    BY <1>5, <2>1, <2>2 DEF Total
  <2>4. PICK c \in Nat : c = Cardinality(F)
    BY <1>1, FS_CardinalityType
  <2>5. w + c = N
    BY <1>1, <1>5, <2>3, <2>4
  <2> QED
    BY <1>1, <1>5, <2>3, <2>4, <2>5, SMTT(30)
<1> QED
  BY <1>1, <1>8, <1>9, <1>10, <1>11 DEF Accounted

\* With nothing pending the graph is empty.
LEMMA NothingWaits ==
  ASSUME Waits(Graph1), pending1 = <<>>
  PROVE  \A n \in Pipe!Nodes : stream1[n] = <<>>
<1>1. Len(pending1) = 0
  OBVIOUS
<1> QED
  BY <1>1 DEF Waits, Graph1

LEMMA Receiving ==
  ASSUME PipeInv, pc1 = "test", Pipe!rx_node_process, pc1' = "walk", UNCHANGED <<wire1, freed1>>
  PROVE  PipeInv'
<1>1. "l2" \in Pipe!Nodes /\ Waits(Graph1) /\ pending1 = <<>>
  BY DEF Pipe!Nodes, PipeInv
<1>2. PICK n \in 0 .. Burst : \E types \in [1 .. n -> Pipe!EtherTypes] :
        LET new == [k \in 1 .. n |-> [type |-> types[k], number |-> received1 + k]]
        IN  /\ Pipe!Becomes(Pipe!Enqueue([pending |-> pending1, stream |-> stream1], "l2", new))
            /\ received1' = received1 + n
  BY DEF Pipe!rx_node_process
<1>3. PICK types \in [1 .. n -> Pipe!EtherTypes] :
        LET new == [k \in 1 .. n |-> [type |-> types[k], number |-> received1 + k]]
        IN  /\ Pipe!Becomes(Pipe!Enqueue([pending |-> pending1, stream |-> stream1], "l2", new))
            /\ received1' = received1 + n
  BY <1>2
<1>4. PICK N \in Nat : N = received1
  BY DEF PipeInv, Accounted
<1>5. PICK s : s = [k \in 1 .. n |-> [type |-> types[k], number |-> N + k]]
  OBVIOUS
<1>6. n \in Nat
  BY GraphFwAssumption
<1>7. s \in Seq(Pkts) /\ Len(s) = n /\ \A k \in 1 .. n : s[k].number = N + k
  <2>1. \A k \in 1 .. n : s[k].number = N + k /\ s[k] \in Pkts
    BY <1>4, <1>5, <1>6 DEF Pkts
  <2>2. s \in [1 .. n -> Pkts]
    BY <1>5, <2>1
  <2> QED
    BY <1>6, <2>1, <2>2, SeqDef
<1>8. PICK g, h : g = Graph1 /\ h = Pipe!Enqueue(g, "l2", s)
  OBVIOUS
<1>9. Pipe!Becomes(h) /\ received1' = N + n
  BY <1>3, <1>4, <1>5, <1>8 DEF Graph1
<1>10. Waits(h) /\ Enqueued(h, g, "l2", s)
  BY <1>1, <1>7, <1>8, EnqueueWaits
<1>11. PICK A, B, F : A = PipeAt /\ B = PipeAt' /\ F = freed1
  OBVIOUS
<1>12. A["wire"] = wire1 /\ wire1 \in Seq(Pkts) /\ \A m \in Pipe!Nodes : A[m] = stream1[m]
  BY <1>11, PipeHolds
<1>13. /\ B \in [Places -> Seq(Pkts)] /\ B["wire"] = wire1' /\ (\A m \in Pipe!Nodes : B[m] = h.stream[m])
       /\ Waits(Graph1)'
  BY <1>9, <1>10, <1>11, <1>12, NextAt
<1>14. Arrives(A, B, s, N)
  <2>1. \A m \in Pipe!Nodes : stream1[m] = <<>> /\ g.stream[m] = <<>>
    BY <1>1, <1>8, NothingWaits DEF Graph1
  <2>2. <<>> \o s = s
    BY <1>7, ConcatEmptySeq
  <2>3. h.stream["l2"] = s /\ \A m \in Pipe!Nodes : m # "l2" => h.stream[m] = <<>>
    BY <1>1, <1>10, <2>1, <2>2 DEF Enqueued
  <2> QED
    BY <1>1, <1>7, <1>12, <1>13, <2>1, <2>3 DEF Arrives
<1>15. Accounted(A, F, N)
  BY <1>4, <1>11 DEF PipeInv
<1>16. Accounted(B, F, N + n)
  BY <1>6, <1>7, <1>13, <1>14, <1>15, ArrivalAccounted
<1>17. Accounted(PipeAt, freed1, received1)'
  BY <1>9, <1>11, <1>16
<1> QED
  BY <1>13, <1>17 DEF PipeInv

LEMMA PipeStutter ==
  ASSUME PipeInv, UNCHANGED <<pending1, stream1, received1, wire1, freed1>>,
         pc1' \in {"test", "walk", "done"}, pc1' # "walk" => pending1 = <<>>
  PROVE  PipeInv'
<1>1. PipeAt' = PipeAt /\ Graph1' = Graph1
  BY DEF PipeAt, Graph1
<1>2. Accounted(PipeAt, freed1, received1)' /\ Waits(Graph1)'
  <2>1. Accounted(PipeAt', freed1', received1') /\ Waits(Graph1')
    BY <1>1 DEF PipeInv
  <2> QED
    BY <2>1
<1> QED
  BY <1>2 DEF PipeInv

LEMMA PipeStep ==
  ASSUME PipeInv, Pipe!Next \/ UNCHANGED pipeVars
  PROVE  PipeInv'
<1>0. pc1 \in {"test", "walk", "done"} /\ (pc1 # "walk" => pending1 = <<>>)
  BY DEF PipeInv
<1>1. CASE Pipe!BeginWalk
  <2>1. CASE pc1' = "done" /\ UNCHANGED <<pending1, stream1, received1>>
    BY <1>0, <1>1, <2>1, PipeStutter DEF Pipe!BeginWalk
  <2>2. CASE pc1' = "walk" /\ Pipe!rx_node_process
    BY <1>1, <2>2, Receiving DEF Pipe!BeginWalk
  <2> QED
    BY <1>1, <2>1, <2>2 DEF Pipe!BeginWalk, Pipe!graphVars
<1>2. CASE Pipe!EndWalk
  BY <1>2, PipeStutter DEF Pipe!EndWalk, Pipe!graphVars
<1>3. CASE Pipe!l2_node_process
  BY <1>3, Sorts
<1>4. CASE Pipe!ipv4_node_process
  BY <1>4, PassesOn DEF Pipe!ipv4_node_process
<1>5. CASE Pipe!ipv6_node_process
  BY <1>5, PassesOn DEF Pipe!ipv6_node_process
<1>6. CASE Pipe!tx_node_process
  BY <1>6, Sends
<1>7. CASE Pipe!drop_node_process
  BY <1>7, Drops
<1>8. CASE Pipe!handler
  BY <1>0, <1>8, PipeStutter DEF Pipe!handler, Pipe!graphVars
<1>9. CASE UNCHANGED pipeVars
  BY <1>0, <1>9, PipeStutter DEF pipeVars
<1> QED
  BY <1>1, <1>2, <1>3, <1>4, <1>5, <1>6, <1>7, <1>8, <1>9 DEF Pipe!Next, Pipe!main

LEMMA PipeStart == Pipe!Init => PipeInv
<1> SUFFICES ASSUME Pipe!Init PROVE PipeInv
  OBVIOUS
<1>1. pc1 = "test" /\ pending1 = <<>> /\ stream1 = [n \in Pipe!Nodes |-> <<>>] /\ received1 = 0 /\ wire1 = <<>> /\ freed1 = {}
  BY DEF Pipe!Init
<1>2. <<>> \in Seq(Pkts) /\ <<>> \in Seq(Pipe!Nodes) /\ Len(<<>>) = 0
  BY EmptySeq
<1>3. Waits(Graph1)
  BY <1>1, <1>2 DEF Waits, Graph1
<1>4. PICK A : A = PipeAt
  OBVIOUS
<1>5. A \in [Places -> Seq(Pkts)] /\ \A q \in Places : A[q] = <<>>
  BY <1>1, <1>2, <1>4 DEF PipeAt, Places
<1>6. \A q \in Places : Len(A[q]) = 0
  BY <1>2, <1>5
<1>7. Holding(A)
  BY <1>5, <1>6 DEF Holding
<1>8. Total(A) = 0 + 0 + 0 + 0 + 0 + 0
  <2>1. \A q \in {"l2", "ipv4", "ipv6", "drop", "tx", "wire"} : Len(A[q]) = 0
    BY <1>6 DEF Places, Pipe!Nodes
  <2> QED
    BY <2>1 DEF Total
<1>9. Cardinality({}) = 0 /\ IsFiniteSet({})
  BY FS_EmptySet
<1>10. Total(A) + Cardinality({}) = 0
  BY <1>8, <1>9
<1>11. Numbered(A, {}, 0) /\ Apart(A, {})
  BY <1>6 DEF Numbered, Apart
<1>12. Accounted(A, {}, 0)
  BY <1>7, <1>9, <1>10, <1>11 DEF Accounted
<1> QED
  BY <1>1, <1>3, <1>4, <1>12 DEF PipeInv

LEMMA PipeCardinality == ASSUME NEW S PROVE Pipe!Cardinality(S) = Cardinality(S)
BY DEF Pipe!Cardinality, Cardinality

LEMMA PipeConserves == PipeInv => Pipe!WalkConserves
<1> SUFFICES ASSUME PipeInv PROVE Pipe!WalkConserves
  OBVIOUS
<1>1. PICK A : A = PipeAt
  OBVIOUS
<1>2. /\ Holding(A) /\ A["wire"] = wire1 /\ "wire" \in Places /\ wire1 \in Seq(Pkts)
      /\ \A n \in Pipe!Nodes : n \in Places /\ n # "wire" /\ A[n] = stream1[n] /\ stream1[n] \in Seq(Pkts)
  BY <1>1, PipeHolds
<1>3. PICK w \in Nat : w = Len(wire1) /\ DOMAIN wire1 = 1 .. w
  BY <1>2, LenProperties
<1>4. ASSUME NEW j \in DOMAIN wire1 PROVE ~Pipe!IsOther(wire1[j]) /\ wire1[j] \notin freed1
  <2>1. wire1[j].type \in Types("wire")
    BY <1>2, <1>3 DEF Holding
  <2>2. Types("wire") = {"IPV4", "IPV6"}
    BY DEF Types
  <2>3. wire1[j] \notin freed1
    BY <1>1, <1>2, <1>3 DEF PipeInv, Accounted, Apart
  <2> QED
    BY <2>1, <2>2, <2>3 DEF Pipe!IsOther, Pipe!IsIPv4, Pipe!IsIPv6
<1>5. ASSUME NEW j \in DOMAIN wire1, NEW k \in DOMAIN wire1, j < k, wire1[j].type = wire1[k].type
      PROVE  wire1[j].number < wire1[k].number
  <2>1. Before(wire1[j], wire1[k])
    BY <1>2, <1>3, <1>5 DEF Holding
  <2> QED
    BY <1>5, <2>1 DEF Before
<1>6. ASSUME pc1 \in {"test", "done"}
      PROVE  /\ pending1 = <<>> /\ \A n \in Pipe!Nodes : stream1[n] = <<>>
             /\ Len(wire1) + Cardinality(freed1) = received1
             /\ Pipe!Elements(wire1) \cap freed1 = {}
  <2>1. pending1 = <<>> /\ \A n \in Pipe!Nodes : stream1[n] = <<>>
    BY <1>6, NothingWaits DEF PipeInv
  <2>2. Total(A) = 0 + 0 + 0 + 0 + 0 + w
    <3>1. \A n \in {"l2", "ipv4", "ipv6", "drop", "tx"} : A[n] = <<>>
      BY <1>2, <2>1 DEF Pipe!Nodes
    <3>2. \A n \in {"l2", "ipv4", "ipv6", "drop", "tx"} : Len(A[n]) = 0
      BY <3>1
    <3> QED
      BY <1>2, <1>3, <3>2 DEF Total
  <2>3. PICK c \in Nat : c = Cardinality(freed1)
    BY FS_CardinalityType DEF PipeInv, Accounted
  <2>4. Total(A) + c = received1
    BY <1>1, <2>3 DEF PipeInv, Accounted
  <2>5. Len(wire1) + Cardinality(freed1) = received1
    BY <1>3, <2>2, <2>3, <2>4
  <2>6. Pipe!Elements(wire1) \cap freed1 = {}
    BY <1>4 DEF Pipe!Elements
  <2> QED
    BY <2>1, <2>5, <2>6
<1>7. \A j, k \in DOMAIN wire1 :
        /\ ~Pipe!IsOther(wire1[j])
        /\ j < k /\ wire1[j].type = wire1[k].type => wire1[j].number < wire1[k].number
  BY <1>4, <1>5
<1>8. pc1 \in {"test", "done"} =>
        /\ pending1 = <<>> /\ \A n \in Pipe!Nodes : stream1[n] = <<>>
        /\ Len(wire1) + Cardinality(freed1) = received1
        /\ Pipe!Elements(wire1) \cap freed1 = {}
  BY <1>6
<1> QED
  BY <1>7, <1>8, PipeCardinality DEF Pipe!WalkConserves

\* graph/pipeline takes its own steps only, whichever program runs.
LEMMA PipeOnly == [NextAll]_allVars => Pipe!Next \/ UNCHANGED pipeVars
BY DEF NextAll, RunMain, RunCli, RunHelper, CallArc, Signal, Pipe!Next, allVars

-----------------------------------------------------------------------------
(* The small programs                                                      *)

Objects == [type : {"IPV4", "other"}, number : Nat] \cup Nat \cup {"start1", "start2"}
CallSet == [node : Sample!Nodes, objs : Seq(Objects)]

\* The graph: a node that holds something is to be called.
Queued(g) ==
  /\ g.pending \in Seq(Sample!Nodes) /\ g.stream \in [Sample!Nodes -> Seq(Objects)]
  /\ \A n \in Sample!Nodes : g.stream[n] # <<>> => \E j \in 1 .. Len(g.pending) : g.pending[j] = n

Put(h, g, n, new) ==
  /\ h.stream[n] = g.stream[n] \o new /\ \A m \in Sample!Nodes : m # n => h.stream[m] = g.stream[m]
  /\ h.pending = IF g.stream[n] = <<>> THEN Append(g.pending, n) ELSE g.pending

LEMMA EnqueueQueued ==
  ASSUME NEW g, Queued(g), NEW n \in Sample!Nodes, NEW new \in Seq(Objects)
  PROVE  Queued(Sample!Enqueue(g, n, new)) /\ Put(Sample!Enqueue(g, n, new), g, n, new)
<1>1. PICK h : h = Sample!Enqueue(g, n, new)
  OBVIOUS
<1>2. /\ h.pending = IF g.stream[n] = <<>> THEN Append(g.pending, n) ELSE g.pending
      /\ h.stream = [g.stream EXCEPT ![n] = g.stream[n] \o new]
  BY <1>1 DEF Sample!Enqueue
<1>3. g.pending \in Seq(Sample!Nodes) /\ g.stream \in [Sample!Nodes -> Seq(Objects)]
  BY DEF Queued
<1>4. g.stream[n] \o new \in Seq(Objects)
  BY <1>3, ConcatProperties
<1>5. h.stream \in [Sample!Nodes -> Seq(Objects)] /\ Put(h, g, n, new)
  BY <1>2, <1>3, <1>4 DEF Put
<1>6. PICK a \in Nat : a = Len(g.pending)
  BY <1>3, LenProperties
<1>7. CASE g.stream[n] # <<>>
  <2>1. h.pending = g.pending
    BY <1>2, <1>7
  <2>2. ASSUME NEW m \in Sample!Nodes, h.stream[m] # <<>> PROVE g.stream[m] # <<>>
    BY <1>5, <1>7, <2>2 DEF Put
  <2>3. Queued(h)
    BY <1>3, <1>5, <2>1, <2>2 DEF Queued
  <2> QED
    BY <1>1, <1>5, <2>3
<1>8. CASE g.stream[n] = <<>>
  <2>1. h.pending = Append(g.pending, n)
    BY <1>2, <1>8
  <2>2. /\ h.pending \in Seq(Sample!Nodes) /\ Len(h.pending) = a + 1 /\ h.pending[a + 1] = n
        /\ \A j \in 1 .. a : h.pending[j] = g.pending[j]
    BY <1>3, <1>6, <2>1, AppendProperties
  <2>3. a + 1 \in 1 .. (a + 1) /\ \A j \in 1 .. a : j \in 1 .. (a + 1)
    BY <1>6
  <2>4. ASSUME NEW m \in Sample!Nodes, h.stream[m] # <<>> PROVE \E j \in 1 .. (a + 1) : h.pending[j] = m
    <3>1. CASE m = n
      BY <2>2, <2>3, <3>1
    <3>2. CASE m # n
      <4>1. g.stream[m] # <<>>
        BY <1>5, <2>4, <3>2 DEF Put
      <4>2. PICK j \in 1 .. a : g.pending[j] = m
        BY <1>6, <4>1 DEF Queued
      <4> QED
        BY <2>2, <2>3, <4>2
    <3> QED
      BY <3>1, <3>2
  <2>5. Queued(h)
    BY <1>5, <2>2, <2>4 DEF Queued
  <2> QED
    BY <1>1, <1>5, <2>5
<1> QED
  BY <1>7, <1>8

\* The graph is left without the first pending node and what it held.
Without(h, n) ==
  /\ h.stream[n] = <<>> /\ \A m \in Sample!Nodes : m # n => h.stream[m] = stream2[m]
  /\ h.pending = Tail(pending2)

LEMMA RestQueued ==
  ASSUME Queued(Sample!Graph), NEW n \in Sample!Nodes, pending2 # <<>>, Head(pending2) = n
  PROVE  Queued(Sample!Rest) /\ Without(Sample!Rest, n)
<1>1. PICK h : h = Sample!Rest
  OBVIOUS
<1>2. pending2 \in Seq(Sample!Nodes) /\ stream2 \in [Sample!Nodes -> Seq(Objects)]
  BY DEF Queued, Sample!Graph
<1>3. h.pending = Tail(pending2) /\ h.stream = [stream2 EXCEPT ![n] = <<>>]
  BY <1>1, <1>2 DEF Sample!Rest
<1>4. <<>> \in Seq(Objects)
  BY EmptySeq
<1>5. /\ h.stream \in [Sample!Nodes -> Seq(Objects)] /\ h.stream[n] = <<>>
      /\ \A m \in Sample!Nodes : m # n => h.stream[m] = stream2[m]
  BY <1>2, <1>3, <1>4
<1>6. PICK a \in Nat : a = Len(pending2) /\ a >= 1
  BY <1>2, LenProperties, EmptySeq
<1>7. /\ h.pending \in Seq(Sample!Nodes) /\ Len(h.pending) = a - 1 /\ pending2[1] = n
      /\ \A j \in 1 .. (a - 1) : h.pending[j] = pending2[j + 1]
  BY <1>2, <1>3, <1>6, HeadTailProperties
<1>8. ASSUME NEW m \in Sample!Nodes, h.stream[m] # <<>> PROVE \E j \in 1 .. (a - 1) : h.pending[j] = m
  <2>1. m # n /\ stream2[m] # <<>>
    BY <1>5, <1>8
  <2>2. PICK j \in 1 .. a : pending2[j] = m
    BY <1>6, <2>1 DEF Queued, Sample!Graph
  <2>3. j # 1
    BY <1>7, <2>1, <2>2
  <2>4. j - 1 \in 1 .. (a - 1) /\ (j - 1) + 1 = j
    BY <1>6, <2>3
  <2> QED
    BY <1>7, <2>2, <2>4
<1>9. Queued(h)
  BY <1>5, <1>7, <1>8 DEF Queued
<1> QED
  BY <1>1, <1>3, <1>5, <1>9 DEF Without

\* With nothing pending the graph is empty.
LEMMA NothingQueued ==
  ASSUME Queued(Sample!Graph), pending2 = <<>>
  PROVE  \A n \in Sample!Nodes : stream2[n] = <<>>
<1>1. Len(pending2) = 0
  OBVIOUS
<1> QED
  BY <1>1 DEF Queued, Sample!Graph

-----------------------------------------------------------------------------
\* The course of the loop of GivenIn.
GivenLoop(cs, n, f) ==
  f = [k \in 0 .. Len(cs) |->
         IF k = 0 THEN <<>>
         ELSE IF cs[k].node = n THEN f[k - 1] \o cs[k].objs ELSE f[k - 1]]

GivenRounds(cs, n, f, a) ==
  /\ f \in [0 .. a -> Seq(Objects)] /\ f[0] = <<>>
  /\ \A k \in 1 .. a : f[k] = IF cs[k].node = n THEN f[k - 1] \o cs[k].objs ELSE f[k - 1]

LEMMA GivenCourse ==
  ASSUME NEW cs \in Seq(CallSet), NEW n, NEW a \in Nat, a = Len(cs)
  PROVE  \E f : GivenRounds(cs, n, f, a) /\ Sample!GivenIn(cs, n) = f[a]
<1>1. \A k \in 1 .. a : cs[k] \in CallSet
  BY ElementOfSeq
<1>2. \A k \in 1 .. a : cs[k].objs \in Seq(Objects)
  BY <1>1 DEF CallSet
<1> DEFINE G == [p \in (1 .. a) \X Seq(Objects) |-> IF cs[p[1]].node = n THEN p[2] \o cs[p[1]].objs ELSE p[2]]
<1>3. G \in [(1 .. a) \X Seq(Objects) -> Seq(Objects)]
  <2> SUFFICES ASSUME NEW k \in 1 .. a, NEW x \in Seq(Objects) PROVE x \o cs[k].objs \in Seq(Objects)
    OBVIOUS
  <2> QED
    BY <1>2, ConcatProperties
<1>4. \A k \in 1 .. a, x \in Seq(Objects) : G[<<k, x>>] = IF cs[k].node = n THEN x \o cs[k].objs ELSE x
  OBVIOUS
<1> HIDE DEF G
<1>5. PICK f \in [0 .. a -> Seq(Objects)] : f[0] = <<>> /\ \A k \in 1 .. a : f[k] = G[<<k, f[k - 1]>>]
  <2>1. <<>> \in Seq(Objects)
    BY EmptySeq
  <2>2. \E f : CourseOf(Seq(Objects), <<>>, G, f, a)
    BY <1>3, <2>1, Iterates
  <2> QED
    BY <2>2 DEF CourseOf
<1>6. GivenRounds(cs, n, f, a)
  <2> SUFFICES ASSUME NEW k \in 1 .. a PROVE f[k] = IF cs[k].node = n THEN f[k - 1] \o cs[k].objs ELSE f[k - 1]
    BY <1>5 DEF GivenRounds
  <2>1. f[k - 1] \in Seq(Objects)
    BY <1>5
  <2> QED
    BY <1>4, <1>5, <2>1
<1>7. GivenLoop(cs, n, f)
  <2>1. \A k \in 0 .. a : f[k] = IF k = 0 THEN <<>>
                                 ELSE IF cs[k].node = n THEN f[k - 1] \o cs[k].objs ELSE f[k - 1]
    <3>1. \A k \in 0 .. a : k = 0 \/ (k # 0 /\ k \in 1 .. a)
      OBVIOUS
    <3> QED
      BY <1>6, <3>1 DEF GivenRounds
  <2>2. f = [k \in 0 .. a |-> f[k]]
    BY <1>5
  <2> QED
    BY <2>1, <2>2 DEF GivenLoop
<1> DEFINE h == CHOOSE g : GivenLoop(cs, n, g)
<1>8. GivenLoop(cs, n, h)
  BY <1>7
<1>9. Sample!GivenIn(cs, n) = h[a]
  BY DEF Sample!GivenIn, GivenLoop
<1> HIDE DEF h
<1>10. \A k \in 0 .. a : h[k] = IF k = 0 THEN <<>>
                               ELSE IF cs[k].node = n THEN h[k - 1] \o cs[k].objs ELSE h[k - 1]
  BY <1>8 DEF GivenLoop
<1>11. \A k \in 0 .. a : h[k] = f[k]
  <2> DEFINE E == {k \in 0 .. a : h[k] = f[k]}
  <2>0. 0 \in 0 .. a /\ \A k \in 1 .. a : k \in 0 .. a /\ k # 0
    OBVIOUS
  <2>1. 0 \in E
    BY <1>5, <1>10, <2>0
  <2>2. ASSUME NEW k \in 1 .. a, k - 1 \in E PROVE k \in E
    <3>1. h[k - 1] = f[k - 1]
      BY <2>2
    <3> QED
      BY <1>6, <1>10, <2>0, <3>1 DEF GivenRounds
  <2>3. \A k \in 0 .. a : k \in E
    <3> HIDE DEF E
    <3> QED
      BY <2>1, <2>2, Rounds
  <2> QED
    BY <2>3
<1>12. a \in 0 .. a
  OBVIOUS
<1> QED
  BY <1>6, <1>9, <1>11, <1>12

\* One more call.
LEMMA GivenAppend ==
  ASSUME NEW cs \in Seq(CallSet), NEW c \in CallSet, NEW n
  PROVE  /\ Sample!GivenIn(cs, n) \in Seq(Objects)
         /\ Sample!GivenIn(Append(cs, c), n)
              = IF c.node = n THEN Sample!GivenIn(cs, n) \o c.objs ELSE Sample!GivenIn(cs, n)
<1>1. PICK a \in Nat : a = Len(cs)
  BY LenProperties
<1>2. PICK ds : ds = Append(cs, c)
  OBVIOUS
<1>3. ds \in Seq(CallSet) /\ Len(ds) = a + 1 /\ ds[a + 1] = c /\ \A k \in 1 .. a : ds[k] = cs[k]
  BY <1>1, <1>2, AppendProperties
<1>4. PICK f : GivenRounds(cs, n, f, a) /\ Sample!GivenIn(cs, n) = f[a]
  BY <1>1, GivenCourse
<1>5. a + 1 \in Nat
  BY <1>1
<1>6. PICK h : GivenRounds(ds, n, h, a + 1) /\ Sample!GivenIn(ds, n) = h[a + 1]
  BY <1>3, <1>5, GivenCourse
<1>7. h[a] = f[a]
  <2> DEFINE E == {k \in 0 .. a : h[k] = f[k]}
  <2>0. 0 \in 0 .. a /\ a \in 0 .. a /\ \A k \in 1 .. a : k \in 0 .. a /\ k \in 1 .. (a + 1)
    BY <1>1
  <2>1. 0 \in E
    BY <1>4, <1>6, <2>0 DEF GivenRounds
  <2>2. ASSUME NEW k \in 1 .. a, k - 1 \in E PROVE k \in E
    <3>1. h[k - 1] = f[k - 1] /\ ds[k] = cs[k]
      BY <1>3, <2>2
    <3> QED
      BY <1>4, <1>6, <2>0, <3>1 DEF GivenRounds
  <2>3. \A k \in 0 .. a : k \in E
    <3> HIDE DEF E
    <3> QED
      BY <1>1, <2>1, <2>2, Rounds
  <2> QED
    BY <2>0, <2>3
<1>8. a + 1 \in 1 .. (a + 1) /\ (a + 1) - 1 = a /\ a \in 0 .. a
  BY <1>1
<1>9. h[a + 1] = IF c.node = n THEN h[a] \o c.objs ELSE h[a]
  BY <1>3, <1>6, <1>8 DEF GivenRounds
<1>10. f[a] \in Seq(Objects)
  BY <1>4, <1>8 DEF GivenRounds
<1> QED
  BY <1>2, <1>4, <1>6, <1>7, <1>9, <1>10

LEMMA GivenNothing == ASSUME NEW n PROVE Sample!GivenIn(<<>>, n) = <<>>
<1>1. <<>> \in Seq(CallSet) /\ Len(<<>>) = 0
  BY EmptySeq
<1>2. PICK f : GivenRounds(<<>>, n, f, 0) /\ Sample!GivenIn(<<>>, n) = f[0]
  BY <1>1, GivenCourse
<1> QED
  BY <1>2 DEF GivenRounds

-----------------------------------------------------------------------------
SampleNames == {"rx_drop_sample", "testing", "two_start_node", "two_start_with_worker",
                "node_sched", "sample", "graph_arc"}

\* The state of the graph and the walk.
WalkTyped ==
  calls \in Seq(CallSet) /\ made \in Seq(Objects) /\ count2 \in Nat /\ Queued(Sample!Graph)

\* Only graph_arc has a helper, which may leave something behind.
Places2 ==
  /\ sample \in SampleNames /\ pc2 \in {"test", "walk", "hello", "done", "crashed"}
  /\ sample # "graph_arc" => /\ helper = "none" /\ pc2 \in {"test", "walk", "done"}
                             /\ pc2 # "walk" => pending2 = <<>>

Becoming(h) == Queued(h) /\ Sample!Becomes(h)

LEMMA Typed2 ==
  ASSUME NEW h, Becoming(h), calls' \in Seq(CallSet), made' \in Seq(Objects), count2' \in Nat
  PROVE  WalkTyped'
<1>1. pending2' = h.pending /\ stream2' = h.stream
  BY DEF Becoming, Sample!Becomes
<1>2. Queued(Sample!Graph)'
  BY <1>1 DEF Becoming, Queued, Sample!Graph
<1> QED
  BY <1>2 DEF WalkTyped

\* What a source gives to a node.
LEMMA Gives ==
  ASSUME WalkTyped, NEW n \in Sample!Nodes, NEW new \in Seq(Objects),
         Sample!Becomes(Sample!Enqueue(Sample!Graph, n, new))
  PROVE  \E h : /\ Becoming(h) /\ stream2'[n] = stream2[n] \o new
                /\ \A m \in Sample!Nodes : m # n => stream2'[m] = stream2[m]
                /\ pending2' = IF stream2[n] = <<>> THEN Append(pending2, n) ELSE pending2
<1>1. PICK g, h : g = Sample!Graph /\ h = Sample!Enqueue(g, n, new)
  OBVIOUS
<1>2. Queued(g)
  BY <1>1 DEF WalkTyped
<1>3. Queued(h) /\ Put(h, g, n, new)
  BY <1>1, <1>2, EnqueueQueued
<1>4. Sample!Becomes(h)
  BY <1>1
<1>5. g.stream = stream2 /\ g.pending = pending2 /\ pending2' = h.pending /\ stream2' = h.stream
  BY <1>1, <1>4 DEF Sample!Becomes, Sample!Graph
<1>6. Becoming(h)
  BY <1>3, <1>4 DEF Becoming
<1> QED
  BY <1>3, <1>5, <1>6 DEF Put

\* A node is called.
CalledWith(n) ==
  /\ calls' \in Seq(CallSet) /\ pending2 # <<>> /\ Head(pending2) = n
  /\ calls' = Append(calls, [node |-> n, objs |-> stream2[n]])
  /\ Queued(Sample!Rest) /\ Without(Sample!Rest, n) /\ stream2[n] \in Seq(Objects)
  /\ \A m : /\ Sample!GivenIn(calls, m) \in Seq(Objects)
            /\ Sample!GivenIn(calls', m) = IF m = n THEN Sample!GivenIn(calls, n) \o stream2[n]
                                           ELSE Sample!GivenIn(calls, m)

LEMMA CallFacts ==
  ASSUME WalkTyped, NEW p, NEW n \in Sample!Nodes, Sample!Call(p, n)
  PROVE  CalledWith(n)
<1>1. pending2 # <<>> /\ Head(pending2) = n /\ calls' = Append(calls, [node |-> n, objs |-> stream2[n]])
  BY DEF Sample!Call
<1>2. stream2[n] \in Seq(Objects)
  BY DEF WalkTyped, Queued, Sample!Graph
<1>3. PICK c \in CallSet : c = [node |-> n, objs |-> stream2[n]] /\ c.node = n /\ c.objs = stream2[n]
  <2>1. PICK c : c = [node |-> n, objs |-> stream2[n]]
    OBVIOUS
  <2>2. c \in CallSet
    BY <1>2, <2>1 DEF CallSet
  <2>3. c.node = n /\ c.objs = stream2[n]
    BY <2>1
  <2> QED
    BY <2>1, <2>2, <2>3
<1>4. calls' = Append(calls, c) /\ calls' \in Seq(CallSet)
  BY <1>1, <1>3, AppendProperties DEF WalkTyped
<1>5. Queued(Sample!Rest) /\ Without(Sample!Rest, n)
  BY <1>1, RestQueued DEF WalkTyped
<1>6. ASSUME NEW m
      PROVE  /\ Sample!GivenIn(calls, m) \in Seq(Objects)
             /\ Sample!GivenIn(calls', m) = IF m = n THEN Sample!GivenIn(calls, n) \o stream2[n]
                                            ELSE Sample!GivenIn(calls, m)
  <2>1. PICK cs \in Seq(CallSet) : cs = calls
    BY DEF WalkTyped
  <2>2. /\ Sample!GivenIn(cs, m) \in Seq(Objects)
        /\ Sample!GivenIn(Append(cs, c), m)
             = IF c.node = m THEN Sample!GivenIn(cs, m) \o c.objs ELSE Sample!GivenIn(cs, m)
    BY GivenAppend
  <2> QED
    BY <1>3, <1>4, <2>1, <2>2
<1> QED
  BY <1>1, <1>2, <1>4, <1>5, <1>6 DEF CalledWith

\* A last node.
LEMMA ReceiveFacts ==
  ASSUME WalkTyped, NEW p, NEW n \in Sample!Nodes, Sample!Call(p, n), Sample!Becomes(Sample!Rest)
  PROVE  \E h : /\ Becoming(h) /\ stream2'[n] = <<>> /\ pending2' = Tail(pending2)
                /\ \A m \in Sample!Nodes : m # n => stream2'[m] = stream2[m]
<1>1. PICK h : h = Sample!Rest
  OBVIOUS
<1>2. Queued(h) /\ Without(h, n)
  BY <1>1, CallFacts DEF CalledWith
<1>3. Becoming(h)
  BY <1>1, <1>2 DEF Becoming
<1>4. stream2' = h.stream /\ pending2' = h.pending
  BY <1>1 DEF Sample!Becomes
<1> QED
  BY <1>2, <1>3, <1>4 DEF Without

\* A node passes on all that it was given.
LEMMA HandsOn ==
  ASSUME WalkTyped, NEW p, NEW n \in Sample!Nodes, NEW to \in Sample!Nodes, to # n, Sample!Call(p, n),
         Sample!Becomes(Sample!Enqueue(Sample!Rest, to, stream2[n]))
  PROVE  \E h : /\ Becoming(h) /\ stream2'[n] = <<>> /\ stream2'[to] = stream2[to] \o stream2[n]
                /\ \A m \in Sample!Nodes : m # n /\ m # to => stream2'[m] = stream2[m]
<1>1. PICK g, h, new : g = Sample!Rest /\ new = stream2[n] /\ h = Sample!Enqueue(g, to, new)
  OBVIOUS
<1>2. Queued(g) /\ Without(g, n) /\ new \in Seq(Objects)
  BY <1>1, CallFacts DEF CalledWith
<1>3. Queued(h) /\ Put(h, g, to, new)
  BY <1>1, <1>2, EnqueueQueued
<1>4. Becoming(h)
  BY <1>1, <1>3 DEF Becoming
<1>5. stream2' = h.stream
  BY <1>1 DEF Sample!Becomes
<1> QED
  BY <1>1, <1>2, <1>3, <1>4, <1>5 DEF Without, Put

LEMMA SameGraph ==
  ASSUME WalkTyped, UNCHANGED <<pending2, stream2>>
  PROVE  \E h : Becoming(h)
<1>1. PICK h : h = Sample!Graph
  OBVIOUS
<1>2. Queued(h) /\ Sample!Becomes(h)
  BY <1>1 DEF WalkTyped, Sample!Becomes, Sample!Graph
<1> QED
  BY <1>2 DEF Becoming

\* The objects of the sources.
LEMMA SourceObjects ==
  /\ <<>> \in Seq(Objects) /\ <<>> \in Seq(CallSet)
  /\ \A n \in {"start1", "start2"} : n \in Objects /\ <<n>> \in Seq(Objects)
  /\ \A k \in Nat : k \in Objects /\ <<k>> \in Seq(Objects)
  /\ \A k \in Nat : Sample!BurstOf(k) \in Seq(Objects) /\ Len(Sample!BurstOf(k)) = Burst
                    /\ \A j \in 1 .. Burst : Sample!BurstOf(k)[j] = k + j
  /\ \A k \in Nat : Sample!Numbers(k) \in Seq(Objects)
<1>1. <<>> \in Seq(Objects) /\ <<>> \in Seq(CallSet)
  BY EmptySeq
<1>2. \A n \in {"start1", "start2"} : n \in Objects /\ <<n>> \in Seq(Objects)
  BY DEF Objects
<1>3. \A k \in Nat : k \in Objects /\ <<k>> \in Seq(Objects)
  BY DEF Objects
<1>4. Burst \in Nat
  BY GraphFwAssumption
<1>5. ASSUME NEW k \in Nat
      PROVE  /\ Sample!BurstOf(k) \in Seq(Objects) /\ Len(Sample!BurstOf(k)) = Burst
             /\ \A j \in 1 .. Burst : Sample!BurstOf(k)[j] = k + j
  <2>1. PICK s : s = Sample!BurstOf(k)
    OBVIOUS
  <2>2. s = [j \in 1 .. Burst |-> k + j]
    BY <2>1 DEF Sample!BurstOf
  <2>3. \A j \in 1 .. Burst : k + j \in Nat
    BY <1>4
  <2>4. s \in [1 .. Burst -> Objects]
    BY <1>3, <2>2, <2>3
  <2> QED
    <3>1. s \in Seq(Objects) /\ Len(s) = Burst
      BY <1>4, <2>4, SeqDef
    <3>2. \A j \in 1 .. Burst : s[j] = k + j
      BY <2>2
    <3> QED
      BY <2>1, <3>1, <3>2
<1>6. ASSUME NEW k \in Nat PROVE Sample!Numbers(k) \in Seq(Objects)
  <2>1. PICK s : s = Sample!Numbers(k)
    OBVIOUS
  <2>2. s = [j \in 1 .. Burst |-> k + j - 1]
    BY <2>1 DEF Sample!Numbers
  <2>3. \A j \in 1 .. Burst : k + j - 1 \in Nat
    BY <1>4
  <2>4. s \in [1 .. Burst -> Objects]
    BY <1>3, <2>2, <2>3
  <2> QED
    BY <1>4, <2>1, <2>4, SeqDef
<1> QED
  BY <1>1, <1>2, <1>3, <1>5, <1>6

\* All that a node was given in this walk, and what it holds.
Had(n) == Sample!GivenIn(calls, n) \o stream2[n]

LEMMA HadTyped ==
  ASSUME WalkTyped, NEW n \in Sample!Nodes
  PROVE  Sample!GivenIn(calls, n) \in Seq(Objects) /\ stream2[n] \in Seq(Objects) /\ Had(n) \in Seq(Objects)
<1>1. stream2[n] \in Seq(Objects)
  BY DEF WalkTyped, Queued, Sample!Graph
<1>2. PICK cs \in Seq(CallSet) : cs = calls
  BY DEF WalkTyped
<1>3. PICK a \in Nat : a = Len(cs)
  BY LenProperties
<1>4. PICK f : GivenRounds(cs, n, f, a) /\ Sample!GivenIn(cs, n) = f[a]
  BY <1>3, GivenCourse
<1>5. Sample!GivenIn(calls, n) \in Seq(Objects)
  BY <1>2, <1>3, <1>4 DEF GivenRounds
<1> QED
  BY <1>1, <1>5, ConcatProperties DEF Had

LEMMA HadReceive ==
  ASSUME WalkTyped, NEW p, NEW n \in Sample!Nodes, Sample!Call(p, n), Sample!Becomes(Sample!Rest)
  PROVE  \A m \in Sample!Nodes : Had(m)' = Had(m)
<1> SUFFICES ASSUME NEW m \in Sample!Nodes PROVE Had(m)' = Had(m)
  OBVIOUS
<1>1. stream2'[n] = <<>> /\ (m # n => stream2'[m] = stream2[m])
  BY ReceiveFacts
<1>2. Sample!GivenIn(calls', m) = IF m = n THEN Sample!GivenIn(calls, n) \o stream2[n]
                                  ELSE Sample!GivenIn(calls, m)
  BY CallFacts DEF CalledWith
<1>3. Had(m)' = Sample!GivenIn(calls', m) \o stream2'[m]
  BY DEF Had
<1>4. CASE m # n
  BY <1>1, <1>2, <1>3, <1>4 DEF Had
<1>5. CASE m = n
  <2>1. Had(n) \in Seq(Objects)
    BY HadTyped
  <2>2. Had(m)' = Had(n) \o <<>>
    BY <1>1, <1>2, <1>3, <1>5 DEF Had
  <2>3. Had(n) \o <<>> = Had(n)
    BY <2>1, ConcatEmptySeq
  <2> QED
    BY <1>5, <2>2, <2>3
<1> QED
  BY <1>4, <1>5

LEMMA HadGives ==
  ASSUME WalkTyped, NEW n \in Sample!Nodes, NEW new \in Seq(Objects), UNCHANGED calls,
         Sample!Becomes(Sample!Enqueue(Sample!Graph, n, new))
  PROVE  Had(n)' = Had(n) \o new /\ \A m \in Sample!Nodes : m # n => Had(m)' = Had(m)
<1>1. stream2'[n] = stream2[n] \o new /\ \A m \in Sample!Nodes : m # n => stream2'[m] = stream2[m]
  BY Gives
<1>2. ASSUME NEW m \in Sample!Nodes PROVE Had(m)' = Sample!GivenIn(calls, m) \o stream2'[m]
  BY DEF Had
<1>3. \A m \in Sample!Nodes : m # n => Had(m)' = Had(m)
  BY <1>1, <1>2 DEF Had
<1>4. PICK a, b : a = Sample!GivenIn(calls, n) /\ b = stream2[n]
  OBVIOUS
<1>5. a \in Seq(Objects) /\ b \in Seq(Objects)
  BY <1>4, HadTyped
<1>6. a \o (b \o new) = (a \o b) \o new
  BY <1>5, ConcatAssociative
<1>7. Had(n)' = Had(n) \o new
  BY <1>1, <1>2, <1>4, <1>6 DEF Had
<1> QED
  BY <1>3, <1>7

\* The steps of the loops, and the signal.
OfLoop == Sample!EndWalk \/ Sample!Exit \/ Sample!signal_handler \/ UNCHANGED sampleVars

LEMMA LoopSteps ==
  ASSUME WalkTyped, Places2, OfLoop
  PROVE  /\ WalkTyped' /\ Places2' /\ UNCHANGED <<sample, left, pending2, stream2, calls, made, data, feature, helper>>
         /\ \A n : Had(n)' = Had(n)
<1>1. UNCHANGED <<sample, left, pending2, stream2, calls, made, data, feature, helper>>
  BY DEF OfLoop, Sample!EndWalk, Sample!Exit, Sample!signal_handler, sampleVars, Sample!graphVars, Sample!walkVars, Sample!arcVars
<1>2. count2' \in Nat
  <2>1. CASE Sample!EndWalk
    <3>1. Burst \in Nat /\ count2 \in Nat
      BY GraphFwAssumption DEF WalkTyped
    <3>2. count2' = count2 + Burst \/ count2' = count2 + 1 \/ count2' = count2
      BY <2>1 DEF Sample!EndWalk
    <3> QED
      BY <3>1, <3>2
  <2>2. CASE ~Sample!EndWalk
    BY <2>2 DEF OfLoop, Sample!Exit, Sample!signal_handler, sampleVars, WalkTyped
  <2> QED
    BY <2>1, <2>2
<1>3. WalkTyped'
  BY <1>1, <1>2, SameGraph, Typed2 DEF WalkTyped
<1>4. Places2'
  <2>1. CASE Sample!EndWalk
    BY <1>1, <2>1 DEF Places2, Sample!EndWalk
  <2>2. CASE Sample!Exit
    BY <1>1, <2>2 DEF Places2, Sample!Exit
  <2>3. CASE Sample!signal_handler \/ UNCHANGED sampleVars
    BY <1>1, <2>3 DEF Places2, Sample!signal_handler, sampleVars
  <2> QED
    BY <2>1, <2>2, <2>3 DEF OfLoop
<1>5. \A n : Had(n)' = Had(n)
  BY <1>1 DEF Had
<1> QED
  BY <1>1, <1>3, <1>4, <1>5

\* A walk begins, in all programs but testing.
LEMMA Begins ==
  ASSUME WalkTyped, Places2, sample # "testing", Sample!BeginWalk
  PROVE  /\ WalkTyped' /\ Places2' /\ calls' = <<>> /\ made' = <<>> /\ pc2 = "test" /\ pc2' = "walk"
         /\ left' = Sample!Sources[sample] /\ Sample!GoesOn
         /\ UNCHANGED <<sample, pending2, stream2, count2, quit2, feature, helper>>
         /\ sample # "graph_arc" => pending2 = <<>> /\ \A n \in Sample!Nodes : Had(n)' = <<>> /\ stream2[n] = <<>>
<1>1. /\ calls' = <<>> /\ made' = <<>> /\ pc2 = "test" /\ pc2' = "walk" /\ left' = Sample!Sources[sample] /\ Sample!GoesOn
      /\ UNCHANGED <<sample, pending2, stream2, count2, quit2, feature, helper>>
  BY DEF Sample!BeginWalk, Sample!graphVars, Sample!arcVars
<1>2. WalkTyped'
  BY <1>1, SameGraph, Typed2, SourceObjects DEF WalkTyped
<1>3. Places2'
  BY <1>1 DEF Places2
<1>4. ASSUME sample # "graph_arc" PROVE pending2 = <<>> /\ \A n \in Sample!Nodes : Had(n)' = <<>> /\ stream2[n] = <<>>
  <2>1. pending2 = <<>>
    BY <1>1, <1>4 DEF Places2
  <2>2. \A n \in Sample!Nodes : stream2[n] = <<>>
    BY <2>1, NothingQueued DEF WalkTyped
  <2>3. ASSUME NEW n \in Sample!Nodes PROVE Had(n)' = <<>>
    <3>1. Had(n)' = Sample!GivenIn(<<>>, n) \o <<>>
      BY <1>1, <2>2 DEF Had
    <3>2. <<>> \o <<>> = <<>>
      BY EmptySeq, ConcatEmptySeq
    <3> QED
      BY <3>1, <3>2, GivenNothing
  <2> QED
    BY <2>1, <2>2, <2>3
<1> QED
  BY <1>1, <1>2, <1>3, <1>4

-----------------------------------------------------------------------------
(* two_start_node                                                          *)

TwoInv == Had("worker") = made /\ count2 <= CountLimit

LEMMA TwoStep ==
  ASSUME WalkTyped, Places2, sample = "two_start_node", TwoInv, Sample!main \/ Sample!HelperEnqueues \/ OfLoop
  PROVE  WalkTyped' /\ Places2' /\ TwoInv'
<1>0. "worker" \in Sample!Nodes /\ count2 \in Nat /\ CountLimit \in Nat
  BY SampleAssumption DEF Sample!Nodes, WalkTyped
<1>1. CASE OfLoop
  <2>1. count2' = count2
    BY <1>1 DEF OfLoop, Sample!EndWalk, Sample!Exit, Sample!signal_handler, sampleVars
  <2> QED
    BY <1>1, <2>1, LoopSteps DEF TwoInv
<1>2. CASE Sample!BeginWalk
  <2>1. Had("worker")' = <<>> /\ made' = <<>> /\ count2' = count2
    BY <1>0, <1>2, Begins
  <2> QED
    BY <1>2, <2>1, Begins DEF TwoInv
<1>3. CASE \E n \in {"start1", "start2"} : Sample!produce(n)
  <2>1. PICK n \in {"start1", "start2"} : Sample!produce(n)
    BY <1>3
  <2>2. UNCHANGED <<sample, pc2, calls, helper>> /\ pc2 = "walk"
    BY <2>1 DEF Sample!produce, Sample!CallSource, Sample!arcVars
  <2>3. CASE UNCHANGED <<made, count2, pending2, stream2>>
    <3>1. WalkTyped'
      BY <2>2, <2>3, SameGraph, Typed2 DEF WalkTyped
    <3>2. Had("worker")' = Had("worker")
      BY <2>2, <2>3 DEF Had
    <3> QED
      BY <2>2, <2>3, <3>1, <3>2 DEF TwoInv, Places2
  <2>4. CASE ~UNCHANGED <<made, count2, pending2, stream2>>
    <3>1. /\ count2 < CountLimit /\ made' = Append(made, n) /\ count2' = count2 + 1
          /\ Sample!Becomes(Sample!Enqueue(Sample!Graph, "worker", <<n>>))
      BY <2>1, <2>4 DEF Sample!produce, Sample!Produces, Sample!graphVars
    <3>2. <<n>> \in Seq(Objects) /\ n \in Objects /\ made \in Seq(Objects)
      BY SourceObjects DEF WalkTyped
    <3>3. Had("worker")' = Had("worker") \o <<n>>
      BY <1>0, <2>2, <3>1, <3>2, HadGives
    <3>4. made' = made \o <<n>> /\ made' \in Seq(Objects)
      BY <3>1, <3>2, AppendIsConcat, AppendProperties
    <3>5. PICK h : Becoming(h)
      BY <1>0, <3>1, <3>2, Gives
    <3>6. WalkTyped'
      BY <1>0, <2>2, <3>1, <3>4, <3>5, Typed2 DEF WalkTyped
    <3>7. Places2'
      BY <2>2 DEF Places2
    <3> QED
      BY <1>0, <3>1, <3>3, <3>4, <3>6, <3>7 DEF TwoInv
  <2> QED
    BY <2>3, <2>4
<1>4. CASE Sample!worker_process
  <2>1. /\ Sample!Call("two_start_node", "worker") /\ Sample!Becomes(Sample!Rest)
        /\ UNCHANGED <<sample, pc2, made, count2, helper>> /\ pc2 = "walk"
    BY <1>4 DEF Sample!worker_process, Sample!Receive, Sample!Call, Sample!arcVars
  <2>2. PICK h : Becoming(h)
    BY <1>0, <2>1, ReceiveFacts
  <2>3. calls' \in Seq(CallSet)
    BY <1>0, <2>1, CallFacts DEF CalledWith
  <2>4. WalkTyped'
    BY <2>1, <2>2, <2>3, Typed2 DEF WalkTyped
  <2>5. Had("worker")' = Had("worker")
    BY <1>0, <2>1, HadReceive
  <2> QED
    BY <2>1, <2>4, <2>5 DEF TwoInv, Places2
<1> QED
  <2>1. Sample!main => OfLoop \/ Sample!BeginWalk \/ (\E n \in {"start1", "start2"} : Sample!produce(n)) \/ Sample!worker_process
    BY DEF OfLoop, Places2, Sample!main, Sample!two_start1_process, Sample!two_start2_process, Sample!rx_node_process, Sample!ipv4_node_process, Sample!tx_node_process, Sample!drop_node_process, Sample!start_node_process, Sample!parse_node_process, Sample!classify_node_process, Sample!forward_node_process, Sample!Stage, Sample!start1_process, Sample!start2_process, Sample!start_process, Sample!work1_process, Sample!work2_process, Sample!sched_hello_process, Sample!sched_dummy_process, Sample!sample_hello_process, Sample!sample_dummy_process, Sample!arc_hello_process, Sample!HelloReturns, Sample!arc_dummy_process, Sample!CallSource, Sample!Call, Sample!Receive
  <2>2. ~Sample!HelperEnqueues
    BY DEF Places2, Sample!HelperEnqueues
  <2> QED
    BY <1>1, <1>2, <1>3, <1>4, <2>1, <2>2

-----------------------------------------------------------------------------
(* two_start_with_worker                                                   *)

WorkInv ==
  /\ count2 <= CountLimit
  /\ pc2 = "walk" => /\ count2 < CountLimit
                     /\ Had("work1") = IF "start1" \in left THEN <<>> ELSE Sample!Numbers(0)
                     /\ Had("work2") = IF "start2" \in left THEN <<>> ELSE Sample!Numbers(100)
  /\ pc2 # "walk" /\ made # <<>> => Had("work1") = Sample!Numbers(0) /\ Had("work2") = Sample!Numbers(100)

LEMMA WorkSource ==
  ASSUME WalkTyped, Places2, sample = "two_start_with_worker", WorkInv,
         NEW n, NEW o, NEW base \in Nat, NEW to, NEW other,
         <<n, o, base, to, other>> \in {<<"start1", "start2", 0, "work1", "work2">>,
                                        <<"start2", "start1", 100, "work2", "work1">>},
         Sample!start_process(n, base, to)
  PROVE  WalkTyped' /\ Places2' /\ WorkInv'
<1>1. n # o /\ to \in Sample!Nodes /\ other \in Sample!Nodes /\ to # other
  BY DEF Sample!Nodes
<1>2. /\ made' = made \o Sample!Numbers(base) /\ Sample!Becomes(Sample!Enqueue(Sample!Graph, to, Sample!Numbers(base)))
      /\ UNCHANGED <<sample, pc2, calls, count2, helper>> /\ pc2 = "walk" /\ n \in left /\ left' = left \ {n}
  BY DEF Sample!start_process, Sample!CallSource, Sample!arcVars
<1>3. PICK new \in Seq(Objects) : new = Sample!Numbers(base)
  BY SourceObjects
<1>4. made' \in Seq(Objects)
  BY <1>2, <1>3, ConcatProperties DEF WalkTyped
<1>5. Had(to)' = Had(to) \o new /\ Had(other)' = Had(other)
  BY <1>1, <1>2, <1>3, HadGives
<1>6. PICK h : Becoming(h)
  BY <1>1, <1>2, <1>3, Gives
<1>7. WalkTyped'
  BY <1>2, <1>4, <1>6, Typed2 DEF WalkTyped
<1>8. Places2'
  BY <1>2 DEF Places2
<1>9. Had(to) = <<>> /\ Had(to)' = new
  <2>1. Had(to) = <<>>
    BY <1>2 DEF WorkInv
  <2> QED
    BY <1>5, <2>1, ConcatEmptySeq
<1>10. WorkInv'
  <2>1. (o \in left' <=> o \in left) /\ n \notin left'
    BY <1>1, <1>2
  <2>2. CASE to = "work1"
    <3>1. n = "start1" /\ o = "start2" /\ base = 0 /\ other = "work2"
      BY <2>2
    <3>2. Had("work1")' = Sample!Numbers(0)
      BY <1>3, <1>9, <2>2, <3>1
    <3>3. Had("work2")' = Had("work2")
      BY <1>5, <3>1
    <3> QED
      BY <1>2, <2>1, <3>1, <3>2, <3>3 DEF WorkInv
  <2>3. CASE to = "work2"
    <3>1. n = "start2" /\ o = "start1" /\ base = 100 /\ other = "work1"
      BY <2>3
    <3>2. Had("work2")' = Sample!Numbers(100)
      BY <1>3, <1>9, <2>3, <3>1
    <3>3. Had("work1")' = Had("work1")
      BY <1>5, <3>1
    <3> QED
      BY <1>2, <2>1, <3>1, <3>2, <3>3 DEF WorkInv
  <2> QED
    BY <2>2, <2>3
<1> QED
  BY <1>7, <1>8, <1>10

LEMMA WorkStep ==
  ASSUME WalkTyped, Places2, sample = "two_start_with_worker", WorkInv,
         Sample!main \/ Sample!HelperEnqueues \/ OfLoop
  PROVE  WalkTyped' /\ Places2' /\ WorkInv'
<1>0. {"work1", "work2"} \subseteq Sample!Nodes /\ count2 \in Nat /\ CountLimit \in Nat
  BY SampleAssumption DEF Sample!Nodes, WalkTyped
<1>1. CASE OfLoop
  <2>1. WalkTyped' /\ Places2' /\ UNCHANGED <<left, made>> /\ \A n : Had(n)' = Had(n)
    BY <1>1, LoopSteps
  <2>2. CASE Sample!EndWalk
    <3>1. left = {} /\ pc2 = "walk" /\ pc2' = "test" /\ count2' = count2 + 1
      BY <2>2 DEF Sample!EndWalk
    <3>2. Had("work1")' = Sample!Numbers(0) /\ Had("work2")' = Sample!Numbers(100) /\ count2' <= CountLimit
      BY <1>0, <2>1, <3>1 DEF WorkInv
    <3> QED
      BY <2>1, <3>1, <3>2 DEF WorkInv
  <2>3. CASE Sample!Exit
    <3>1. pc2 = "test" /\ pc2' = "done" /\ count2' = count2
      BY <2>3 DEF Sample!Exit
    <3> QED
      BY <2>1, <3>1 DEF WorkInv
  <2>4. CASE Sample!signal_handler \/ UNCHANGED sampleVars
    <3>1. pc2' = pc2 /\ count2' = count2
      BY <2>4 DEF Sample!signal_handler, sampleVars
    <3> QED
      BY <2>1, <3>1 DEF WorkInv
  <2> QED
    BY <1>1, <2>2, <2>3, <2>4 DEF OfLoop
<1>2. CASE Sample!BeginWalk
  <2>1. /\ WalkTyped' /\ Places2' /\ made' = <<>> /\ count2' = count2 /\ pc2' = "walk" /\ Sample!GoesOn
        /\ left' = Sample!Sources[sample] /\ Had("work1")' = <<>> /\ Had("work2")' = <<>>
    BY <1>0, <1>2, Begins
  <2>2. "start1" \in left' /\ "start2" \in left'
    BY <2>1 DEF Sample!Sources
  <2>3. count2 < CountLimit
    BY <2>1 DEF Sample!GoesOn, Sample!two_worker_main
  <2> QED
    BY <2>1, <2>2, <2>3 DEF WorkInv
<1>3. CASE Sample!start1_process \/ Sample!start2_process
  <2>1. CASE Sample!start1_process
    BY <2>1, WorkSource DEF Sample!start1_process
  <2>2. CASE Sample!start2_process
    BY <2>2, WorkSource DEF Sample!start2_process
  <2> QED
    BY <1>3, <2>1, <2>2
<1>4. CASE \E n \in {"work1", "work2"} : Sample!Receive("two_start_with_worker", n)
  <2>0. PICK n \in {"work1", "work2"} : Sample!Receive("two_start_with_worker", n)
    BY <1>4
  <2>1. /\ Sample!Call("two_start_with_worker", n) /\ Sample!Becomes(Sample!Rest) /\ n \in Sample!Nodes
        /\ UNCHANGED <<sample, pc2, left, made, count2, helper>> /\ pc2 = "walk"
    BY <1>0, <2>0 DEF Sample!Receive, Sample!Call, Sample!arcVars
  <2>2. PICK h : Becoming(h)
    BY <2>1, ReceiveFacts
  <2>3. calls' \in Seq(CallSet)
    BY <2>1, CallFacts DEF CalledWith
  <2>4. WalkTyped'
    BY <2>1, <2>2, <2>3, Typed2 DEF WalkTyped
  <2>5. \A m \in Sample!Nodes : Had(m)' = Had(m)
    BY <2>1, HadReceive
  <2>6. Had("work1")' = Had("work1") /\ Had("work2")' = Had("work2")
    BY <1>0, <2>5
  <2> QED
    BY <2>1, <2>4, <2>6 DEF WorkInv, Places2
<1> QED
  <2>1. Sample!main => OfLoop \/ Sample!BeginWalk \/ Sample!start1_process \/ Sample!start2_process
                       \/ \E n \in {"work1", "work2"} : Sample!Receive("two_start_with_worker", n)
    BY DEF OfLoop, Places2, Sample!main, Sample!two_start1_process, Sample!two_start2_process, Sample!produce, Sample!worker_process, Sample!rx_node_process, Sample!ipv4_node_process, Sample!tx_node_process, Sample!drop_node_process, Sample!start_node_process, Sample!parse_node_process, Sample!classify_node_process, Sample!forward_node_process, Sample!Stage, Sample!work1_process, Sample!work2_process, Sample!sched_hello_process, Sample!sched_dummy_process, Sample!sample_hello_process, Sample!sample_dummy_process, Sample!arc_hello_process, Sample!HelloReturns, Sample!arc_dummy_process, Sample!CallSource, Sample!Call, Sample!Receive
  <2>2. ~Sample!HelperEnqueues
    BY DEF Places2, Sample!HelperEnqueues
  <2> QED
    BY <1>1, <1>2, <1>3, <1>4, <2>1, <2>2

-----------------------------------------------------------------------------
(* node_sched                                                              *)

\* The node whose turn it is, and the only one that was called.
Turn == IF count2 % 2 = 0 THEN "dummy_node" ELSE "dummy_node2"
OnlyCall(n) == Len(calls) = 1 /\ calls[1].node = n

SchedInv ==
  /\ pc2 = "walk" /\ left # {} => left = {"hello_node"} /\ calls = <<>> /\ pending2 = <<>>
  /\ pc2 = "walk" /\ left = {} => \/ calls = <<>> /\ pending2 = <<Turn>>
                                  \/ OnlyCall(Turn) /\ pending2 = <<>>
  /\ pc2 # "walk" => calls = <<>> \/ OnlyCall(Turn)

LEMMA SchedStep ==
  ASSUME WalkTyped, Places2, sample = "node_sched", SchedInv, Sample!main \/ Sample!HelperEnqueues \/ OfLoop
  PROVE  WalkTyped' /\ Places2' /\ SchedInv'
<1>0. {"dummy_node", "dummy_node2"} \subseteq Sample!Nodes /\ count2 \in Nat
  BY DEF Sample!Nodes, WalkTyped
<1>1. CASE OfLoop
  <2>1. WalkTyped' /\ Places2' /\ UNCHANGED <<left, calls, pending2>>
    BY <1>1, LoopSteps
  <2>2. count2' = count2
    BY <1>1 DEF OfLoop, Sample!EndWalk, Sample!Exit, Sample!signal_handler, sampleVars
  <2>3. Turn' = Turn /\ (OnlyCall(Turn)' <=> OnlyCall(Turn))
    BY <2>1, <2>2 DEF Turn, OnlyCall
  <2>4. \/ pc2 = "walk" /\ left = {} /\ pending2 = <<>> /\ pc2' = "test"
        \/ pc2 = "test" /\ pc2' = "done"
        \/ pc2' = pc2
    BY <1>1 DEF OfLoop, Sample!EndWalk, Sample!Exit, Sample!signal_handler, sampleVars
  <2>5. <<Turn>> # <<>>
    OBVIOUS
  <2> HIDE DEF Turn
  <2> QED
    BY <2>1, <2>3, <2>4, <2>5 DEF SchedInv
<1>2. CASE Sample!BeginWalk
  <2>1. /\ WalkTyped' /\ Places2' /\ calls' = <<>> /\ pc2' = "walk" /\ pending2 = <<>> /\ pending2' = pending2
        /\ left' = Sample!Sources[sample]
    BY <1>2, Begins
  <2>2. left' = {"hello_node"}
    BY <2>1 DEF Sample!Sources
  <2> QED
    BY <2>1, <2>2 DEF SchedInv
<1>3. CASE Sample!sched_hello_process
  <2>1. PICK n : n = Turn'
    OBVIOUS
  <2>2. /\ count2' = count2 + 1 /\ made' = <<count2'>> /\ UNCHANGED <<sample, pc2, calls, helper>>
        /\ Sample!Becomes(Sample!Enqueue(Sample!Graph, n, made'))
        /\ pc2 = "walk" /\ "hello_node" \in left /\ left' = left \ {"hello_node"}
    BY <1>3, <2>1 DEF Sample!sched_hello_process, Sample!CallSource, Sample!arcVars, Turn
  <2>3. left' = {} /\ calls = <<>> /\ pending2 = <<>>
    BY <2>2 DEF SchedInv
  <2>4. n \in Sample!Nodes
    BY <1>0, <2>1 DEF Turn
  <2>5. count2' \in Nat
    BY <1>0, <2>2
  <2>6. PICK new \in Seq(Objects) : new = made'
    BY <2>2, <2>5, SourceObjects
  <2>7. stream2[n] = <<>>
    BY <2>3, <2>4, NothingQueued DEF WalkTyped
  <2>8. PICK h : Becoming(h) /\ pending2' = IF stream2[n] = <<>> THEN Append(pending2, n) ELSE pending2
    BY <2>2, <2>4, <2>6, Gives
  <2>9. pending2' = <<n>>
    BY <2>3, <2>7, <2>8
  <2>10. WalkTyped'
    BY <2>2, <2>5, <2>6, <2>8, Typed2 DEF WalkTyped
  <2>11. SchedInv'
    BY <2>1, <2>2, <2>3, <2>9 DEF SchedInv
  <2> QED
    BY <2>2, <2>10, <2>11 DEF Places2
<1>4. CASE \E n \in {"dummy_node", "dummy_node2"} : Sample!sched_dummy_process(n)
  <2>0. PICK n \in {"dummy_node", "dummy_node2"} : Sample!sched_dummy_process(n)
    BY <1>4
  <2>1. /\ Sample!Call("node_sched", n) /\ Sample!Becomes(Sample!Rest) /\ n \in Sample!Nodes
        /\ UNCHANGED <<sample, pc2, left, made, count2, helper>> /\ pc2 = "walk" /\ left = {}
    BY <1>0, <2>0 DEF Sample!sched_dummy_process, Sample!Receive, Sample!Call, Sample!arcVars
  <2>2. PICK h : Becoming(h) /\ pending2' = Tail(pending2)
    BY <2>1, ReceiveFacts
  <2>3. /\ calls' \in Seq(CallSet) /\ pending2 # <<>> /\ Head(pending2) = n
        /\ calls' = Append(calls, [node |-> n, objs |-> stream2[n]])
    BY <2>1, CallFacts DEF CalledWith
  <2>4. WalkTyped'
    BY <2>1, <2>2, <2>3, Typed2 DEF WalkTyped
  <2>5. PICK t : t = Turn /\ t = Turn'
    BY <2>1 DEF Turn
  <2>6. calls = <<>> /\ pending2 = <<t>>
    BY <2>1, <2>3, <2>5 DEF SchedInv
  <2>7. t = n /\ pending2' = <<>>
    BY <2>2, <2>3, <2>6
  <2>8. Len(calls') = 1 /\ calls'[1].node = n
    <3>1. PICK c : c = [node |-> n, objs |-> stream2[n]]
      OBVIOUS
    <3>2. calls' = <<c>>
      BY <2>3, <2>6, <3>1
    <3> QED
      BY <3>1, <3>2
  <2>9. OnlyCall(Turn)'
    BY <2>5, <2>7, <2>8 DEF OnlyCall
  <2> QED
    BY <2>1, <2>4, <2>7, <2>9 DEF SchedInv, Places2
<1> QED
  <2>1. Sample!main => OfLoop \/ Sample!BeginWalk \/ Sample!sched_hello_process
                       \/ \E n \in {"dummy_node", "dummy_node2"} : Sample!sched_dummy_process(n)
    BY DEF OfLoop, Places2, Sample!main, Sample!two_start1_process, Sample!two_start2_process, Sample!produce, Sample!worker_process, Sample!rx_node_process, Sample!ipv4_node_process, Sample!tx_node_process, Sample!drop_node_process, Sample!start_node_process, Sample!parse_node_process, Sample!classify_node_process, Sample!forward_node_process, Sample!Stage, Sample!start1_process, Sample!start2_process, Sample!start_process, Sample!work1_process, Sample!work2_process, Sample!sample_hello_process, Sample!sample_dummy_process, Sample!arc_hello_process, Sample!HelloReturns, Sample!arc_dummy_process, Sample!CallSource, Sample!Call, Sample!Receive
  <2>2. ~Sample!HelperEnqueues
    BY DEF Places2, Sample!HelperEnqueues
  <2> QED
    BY <1>1, <1>2, <1>3, <1>4, <2>1, <2>2

-----------------------------------------------------------------------------
(* sample                                                                  *)

SampInv ==
  /\ pc2 = "walk" /\ left # {} => left = {"hello_node"} /\ pending2 = <<>> /\ count2 % 2 = 0 /\ count2 < CountLimit
  /\ pc2 = "walk" /\ left = {} => \/ count2 % 2 = 1 /\ pending2 = <<"dummy_node">> /\ count2 < CountLimit
                                  \/ count2 % 2 = 0 /\ pending2 = <<>> /\ count2 <= CountLimit
  /\ pc2 # "walk" => count2 % 2 = 0 /\ count2 <= CountLimit

LEMMA SampStep ==
  ASSUME WalkTyped, Places2, sample = "sample", SampInv, Sample!main \/ Sample!HelperEnqueues \/ OfLoop
  PROVE  WalkTyped' /\ Places2' /\ SampInv'
<1>0. "dummy_node" \in Sample!Nodes /\ count2 \in Nat /\ CountLimit \in Nat /\ CountLimit % 2 = 0
  BY SampleAssumption DEF Sample!Nodes, WalkTyped
<1>1. CASE OfLoop
  <2>1. WalkTyped' /\ Places2' /\ UNCHANGED <<left, pending2>>
    BY <1>1, LoopSteps
  <2>2. count2' = count2
    BY <1>1 DEF OfLoop, Sample!EndWalk, Sample!Exit, Sample!signal_handler, sampleVars
  <2>3. \/ pc2 = "walk" /\ left = {} /\ pending2 = <<>> /\ pc2' = "test"
        \/ pc2 = "test" /\ pc2' = "done"
        \/ pc2' = pc2
    BY <1>1 DEF OfLoop, Sample!EndWalk, Sample!Exit, Sample!signal_handler, sampleVars
  <2>4. <<"dummy_node">> # <<>>
    OBVIOUS
  <2> QED
    BY <2>1, <2>2, <2>3, <2>4 DEF SampInv
<1>2. CASE Sample!BeginWalk
  <2>1. /\ WalkTyped' /\ Places2' /\ pc2 = "test" /\ pc2' = "walk" /\ pending2 = <<>> /\ pending2' = pending2
        /\ left' = Sample!Sources[sample] /\ Sample!GoesOn /\ count2' = count2
    BY <1>2, Begins
  <2>2. left' = {"hello_node"}
    BY <2>1 DEF Sample!Sources
  <2>3. count2 < CountLimit
    BY <2>1 DEF Sample!GoesOn, Sample!sample_main
  <2> QED
    BY <2>1, <2>2, <2>3 DEF SampInv
<1>3. CASE Sample!sample_hello_process
  <2>1. /\ count2' = count2 + 1 /\ UNCHANGED <<sample, pc2, calls, made, helper>>
        /\ Sample!Becomes(Sample!Enqueue(Sample!Graph, "dummy_node", <<>>))
        /\ pc2 = "walk" /\ "hello_node" \in left /\ left' = left \ {"hello_node"}
    BY <1>3 DEF Sample!sample_hello_process, Sample!CallSource, Sample!arcVars, Sample!walkVars
  <2>2. left' = {} /\ pending2 = <<>> /\ count2 % 2 = 0 /\ count2 < CountLimit
    BY <2>1 DEF SampInv
  <2>3. count2' \in Nat /\ count2' % 2 = 1 /\ count2' < CountLimit
    BY <1>0, <2>1, <2>2
  <2>4. stream2["dummy_node"] = <<>>
    BY <1>0, <2>2, NothingQueued DEF WalkTyped
  <2>5. PICK h : Becoming(h) /\ pending2' = IF stream2["dummy_node"] = <<>> THEN Append(pending2, "dummy_node") ELSE pending2
    BY <1>0, <2>1, Gives, SourceObjects
  <2>6. pending2' = <<"dummy_node">>
    BY <2>2, <2>4, <2>5
  <2>7. WalkTyped'
    BY <2>1, <2>3, <2>5, Typed2 DEF WalkTyped
  <2> QED
    BY <2>1, <2>2, <2>3, <2>6, <2>7 DEF SampInv, Places2
<1>4. CASE Sample!sample_dummy_process
  <2>1. /\ Sample!Call("sample", "dummy_node") /\ Sample!Becomes(Sample!Rest) /\ count2' = count2 + 1
        /\ UNCHANGED <<sample, pc2, left, made, helper>> /\ pc2 = "walk" /\ left = {}
    BY <1>4 DEF Sample!sample_dummy_process, Sample!Call, Sample!arcVars
  <2>2. PICK h : Becoming(h) /\ pending2' = Tail(pending2)
    BY <1>0, <2>1, ReceiveFacts
  <2>3. calls' \in Seq(CallSet) /\ pending2 # <<>>
    BY <1>0, <2>1, CallFacts DEF CalledWith
  <2>4. count2' \in Nat
    BY <1>0, <2>1
  <2>5. WalkTyped'
    BY <2>1, <2>2, <2>3, <2>4, Typed2 DEF WalkTyped
  <2>6. pending2 = <<"dummy_node">> /\ count2 % 2 = 1 /\ count2 < CountLimit
    BY <2>1, <2>3 DEF SampInv
  <2>7. pending2' = <<>> /\ count2' % 2 = 0 /\ count2' <= CountLimit
    BY <1>0, <2>1, <2>2, <2>6
  <2> QED
    BY <2>1, <2>5, <2>7 DEF SampInv, Places2
<1> QED
  <2>1. Sample!main => OfLoop \/ Sample!BeginWalk \/ Sample!sample_hello_process \/ Sample!sample_dummy_process
    BY DEF OfLoop, Places2, Sample!main, Sample!two_start1_process, Sample!two_start2_process, Sample!produce, Sample!worker_process, Sample!rx_node_process, Sample!ipv4_node_process, Sample!tx_node_process, Sample!drop_node_process, Sample!start_node_process, Sample!parse_node_process, Sample!classify_node_process, Sample!forward_node_process, Sample!Stage, Sample!start1_process, Sample!start2_process, Sample!start_process, Sample!work1_process, Sample!work2_process, Sample!sched_hello_process, Sample!sched_dummy_process, Sample!arc_hello_process, Sample!HelloReturns, Sample!arc_dummy_process, Sample!CallSource, Sample!Call, Sample!Receive
  <2>2. ~Sample!HelperEnqueues
    BY DEF Places2, Sample!HelperEnqueues
  <2> QED
    BY <1>1, <1>2, <1>3, <1>4, <2>1, <2>2

-----------------------------------------------------------------------------
(* graph_arc                                                               *)

InQueue(s, m) == \E j \in 1 .. Len(s) : s[j] = m
WasCalled(cs, m) == \E j \in DOMAIN cs : cs[j].node = m

\* Is to be called in this walk, or has been.
Chosen(m) == InQueue(pending2, m) \/ WasCalled(calls, m)

Held == \E n \in Sample!Nodes : stream2[n] # <<>>

\* With the feature bits as the code tests them.
OneSelects == Sample!On(0) /\ (Sample!On(1) \/ Sample!Off(1))
TwoSelects == Sample!On(1) /\ Sample!Off(0)

HelloDone ==
  /\ left = {}
  /\ Chosen("dummy_node") <=> OneSelects
  /\ Chosen("dummy_node2") => Sample!On(1)
  /\ TwoSelects => Chosen("dummy_node2")
  /\ helper # "none" => Sample!On(0) /\ Sample!On(1)

GraphArcInv ==
  /\ ~Held
  /\ count2 = 0 => /\ calls = <<>> /\ pending2 = <<>> /\ helper = "none" /\ pc2 \in {"test", "walk"} /\ ~quit2
                   /\ pc2 = "walk" => left = {"hello_node"}
  /\ count2 > 0 => HelloDone
  /\ count2 > 0 /\ pc2 \in {"test", "done"} =>
       ~InQueue(pending2, "dummy_node") /\ (InQueue(pending2, "dummy_node2") => helper = "done")
  /\ \A m : InQueue(pending2, m) => m \in {"dummy_node", "dummy_node2"}
  /\ pc2 = "crashed" => helper = "done"

LEMMA QueuesAppend ==
  ASSUME NEW S, NEW s \in Seq(S), NEW n \in S
  PROVE  \A m : InQueue(Append(s, n), m) <=> InQueue(s, m) \/ m = n
<1>1. PICK a \in Nat : a = Len(s)
  BY LenProperties
<1>2. PICK t : t = Append(s, n)
  OBVIOUS
<1>3. Len(t) = a + 1 /\ t[a + 1] = n /\ \A j \in 1 .. a : t[j] = s[j]
  BY <1>1, <1>2, AppendProperties
<1>4. 1 .. (a + 1) = (1 .. a) \cup {a + 1}
  BY <1>1
<1> QED
  BY <1>1, <1>2, <1>3, <1>4 DEF InQueue

LEMMA QueuesTail ==
  ASSUME NEW S, NEW s \in Seq(S), s # <<>>
  PROVE  \A m : InQueue(s, m) <=> InQueue(Tail(s), m) \/ m = Head(s)
<1>1. PICK a \in Nat : a = Len(s) /\ a >= 1
  BY LenProperties, EmptySeq
<1>2. PICK t : t = Tail(s)
  OBVIOUS
<1>3. Len(t) = a - 1 /\ Head(s) = s[1] /\ \A j \in 1 .. (a - 1) : t[j] = s[j + 1]
  BY <1>1, <1>2, HeadTailProperties
<1>4. 1 \in 1 .. a /\ \A j \in 1 .. (a - 1) : j + 1 \in 1 .. a
  BY <1>1
<1>5. \A j \in 1 .. a : j = 1 \/ (j - 1 \in 1 .. (a - 1) /\ (j - 1) + 1 = j)
  BY <1>1
<1>6. ASSUME NEW m, InQueue(s, m) PROVE InQueue(t, m) \/ m = s[1]
  <2>1. PICK j \in 1 .. a : s[j] = m
    BY <1>1, <1>6 DEF InQueue
  <2>2. CASE j = 1
    BY <2>1, <2>2
  <2>3. CASE j # 1
    <3>1. j - 1 \in 1 .. (a - 1) /\ t[j - 1] = m
      BY <1>3, <1>5, <2>1, <2>3
    <3> QED
      BY <1>3, <3>1 DEF InQueue
  <2> QED
    BY <2>2, <2>3
<1>7. ASSUME NEW m, InQueue(t, m) \/ m = s[1] PROVE InQueue(s, m)
  <2>1. CASE m = s[1]
    BY <1>1, <1>4, <2>1 DEF InQueue
  <2>2. CASE InQueue(t, m)
    <3>1. PICK j \in 1 .. (a - 1) : t[j] = m
      BY <1>3, <2>2 DEF InQueue
    <3>2. j + 1 \in 1 .. a /\ s[j + 1] = m
      BY <1>3, <1>4, <3>1
    <3> QED
      BY <1>1, <3>2 DEF InQueue
  <2> QED
    BY <1>7, <2>1, <2>2
<1> QED
  BY <1>2, <1>3, <1>6, <1>7

LEMMA CalledAppend ==
  ASSUME NEW cs \in Seq(CallSet), NEW c \in CallSet
  PROVE  \A m : WasCalled(Append(cs, c), m) <=> WasCalled(cs, m) \/ m = c.node
<1>1. PICK a \in Nat : a = Len(cs)
  BY LenProperties
<1>2. PICK t : t = Append(cs, c)
  OBVIOUS
<1>3. Len(t) = a + 1 /\ t[a + 1] = c /\ (\A j \in 1 .. a : t[j] = cs[j]) /\ t \in Seq(CallSet)
  BY <1>1, <1>2, AppendProperties
<1>4. DOMAIN t = 1 .. (a + 1) /\ DOMAIN cs = 1 .. a
  BY <1>1, <1>3, LenProperties
<1>5. 1 .. (a + 1) = (1 .. a) \cup {a + 1}
  BY <1>1
<1> QED
  BY <1>2, <1>3, <1>4, <1>5 DEF WasCalled

LEMMA NobodyQueues == ASSUME NEW m PROVE ~InQueue(<<>>, m) /\ ~WasCalled(<<>>, m)
  BY DEF InQueue, WasCalled

\* An empty object list makes the node wait, and a node that is called is still chosen.
LEMMA ArcEnqueue ==
  ASSUME WalkTyped, ~Held, NEW n \in Sample!Nodes, Sample!Becomes(Sample!Enqueue(Sample!Graph, n, <<>>))
  PROVE  /\ \E h : Becoming(h) /\ ~Held'
         /\ \A m : InQueue(pending2', m) <=> InQueue(pending2, m) \/ m = n
<1>1. PICK h : /\ Becoming(h) /\ stream2'[n] = stream2[n] \o <<>>
               /\ \A m \in Sample!Nodes : m # n => stream2'[m] = stream2[m]
               /\ pending2' = IF stream2[n] = <<>> THEN Append(pending2, n) ELSE pending2
  BY Gives, SourceObjects
<1>2. stream2[n] = <<>> /\ <<>> \o <<>> = <<>>
  BY EmptySeq, ConcatEmptySeq DEF Held
<1>3. pending2' = Append(pending2, n)
  BY <1>1, <1>2
<1>4. ~Held'
  BY <1>1, <1>2 DEF Held
<1>5. \A m : InQueue(pending2', m) <=> InQueue(pending2, m) \/ m = n
  BY <1>3, QueuesAppend DEF WalkTyped, Queued, Sample!Graph
<1> QED
  BY <1>1, <1>4, <1>5

LEMMA ArcCall ==
  ASSUME WalkTyped, ~Held, NEW p, NEW n \in Sample!Nodes, Sample!Call(p, n), Sample!Becomes(Sample!Rest)
  PROVE  /\ \E h : Becoming(h) /\ ~Held' /\ calls' \in Seq(CallSet)
         /\ \A m : (InQueue(pending2', m) => InQueue(pending2, m)) /\ (Chosen(m)' <=> Chosen(m))
<1>1. PICK h : /\ Becoming(h) /\ stream2'[n] = <<>> /\ pending2' = Tail(pending2)
               /\ \A m \in Sample!Nodes : m # n => stream2'[m] = stream2[m]
  BY ReceiveFacts
<1>2. /\ calls' \in Seq(CallSet) /\ pending2 # <<>> /\ Head(pending2) = n
      /\ calls' = Append(calls, [node |-> n, objs |-> stream2[n]]) /\ stream2[n] \in Seq(Objects)
  BY CallFacts DEF CalledWith
<1>3. ~Held'
  BY <1>1 DEF Held
<1>4. \A m : InQueue(pending2, m) <=> InQueue(pending2', m) \/ m = n
  BY <1>1, <1>2, QueuesTail DEF WalkTyped, Queued, Sample!Graph
<1>5. \A m : WasCalled(calls', m) <=> WasCalled(calls, m) \/ m = n
  <2>1. PICK c : c = [node |-> n, objs |-> stream2[n]]
    OBVIOUS
  <2>2. c \in CallSet
    BY <1>2, <2>1 DEF CallSet
  <2>3. c.node = n
    BY <2>1
  <2>4. calls' = Append(calls, c) /\ calls \in Seq(CallSet)
    BY <1>2, <2>1 DEF WalkTyped
  <2> QED
    BY <2>2, <2>3, <2>4, CalledAppend
<1> QED
  BY <1>1, <1>2, <1>3, <1>4, <1>5 DEF Chosen

LEMMA GraphArcStep ==
  ASSUME WalkTyped, Places2, sample = "graph_arc", GraphArcInv, Sample!main \/ Sample!HelperEnqueues \/ OfLoop
  PROVE  WalkTyped' /\ Places2' /\ GraphArcInv'
<1>0. {"dummy_node", "dummy_node2"} \subseteq Sample!Nodes /\ count2 \in Nat
  BY DEF Sample!Nodes, WalkTyped
<1>a. ~Held /\ \A m : InQueue(pending2, m) => m \in {"dummy_node", "dummy_node2"}
  BY DEF GraphArcInv
<1>1. CASE OfLoop
  <2>1. WalkTyped' /\ Places2' /\ UNCHANGED <<left, calls, pending2, stream2, feature, helper>>
    BY <1>1, LoopSteps
  <2>2. count2' = count2 /\ quit2' = quit2
    BY <1>1 DEF OfLoop, Sample!EndWalk, Sample!Exit, Sample!signal_handler, sampleVars
  <2>3. \/ pc2 = "walk" /\ left = {} /\ pending2 = <<>> /\ pc2' = "test"
        \/ pc2 = "test" /\ pc2' = "done" /\ ~Sample!GoesOn
        \/ pc2' = pc2
    BY <1>1 DEF OfLoop, Sample!EndWalk, Sample!Exit, Sample!signal_handler, sampleVars
  <2>4. /\ (Held' <=> Held) /\ (HelloDone' <=> HelloDone)
        /\ \A m : InQueue(pending2, m)' <=> InQueue(pending2, m)
    BY <2>1 DEF Held, HelloDone, InQueue, Chosen, WasCalled, OneSelects, TwoSelects, Sample!On, Sample!Off
  <2>5. pending2 = <<>> => \A m : ~InQueue(pending2, m)
    BY NobodyQueues
  <2>6. ~Sample!GoesOn => quit2 \/ count2 # 0
    BY DEF Sample!GoesOn, Sample!arc_main
  <2> QED
    BY <2>1, <2>2, <2>3, <2>4, <2>5, <2>6 DEF GraphArcInv
<1>2. CASE Sample!BeginWalk
  <2>1. /\ WalkTyped' /\ Places2' /\ pc2 = "test" /\ pc2' = "walk" /\ calls' = <<>>
        /\ left' = Sample!Sources[sample] /\ Sample!GoesOn
        /\ UNCHANGED <<pending2, stream2, count2, quit2, feature, helper>>
    BY <1>2, Begins
  <2>2. left' = {"hello_node"}
    BY <2>1 DEF Sample!Sources
  <2>3. count2 = 0 /\ count2' = 0
    BY <1>0, <2>1 DEF Sample!GoesOn, Sample!arc_main
  <2>4. ~Held' /\ \A m : InQueue(pending2, m)' => m \in {"dummy_node", "dummy_node2"}
    BY <1>a, <2>1 DEF Held
  <2> QED
    BY <2>1, <2>2, <2>3, <2>4 DEF GraphArcInv
<1>3. CASE Sample!arc_hello_process
  <2>1. /\ count2' = count2 + 1 /\ UNCHANGED <<sample, calls, made, feature>>
        /\ pc2 = "walk" /\ "hello_node" \in left /\ left' = left \ {"hello_node"}
    BY <1>3 DEF Sample!arc_hello_process, Sample!CallSource, Sample!walkVars
  <2>2. count2' \in Nat /\ count2' > 0
    BY <1>0, <2>1
  <2>3. count2 = 0
    <3>1. ~(count2 > 0)
      BY <2>1 DEF GraphArcInv, HelloDone
    <3> QED
      BY <1>0, <3>1
  <2>4. left' = {} /\ calls' = <<>> /\ pending2 = <<>> /\ helper = "none"
    BY <2>1, <2>3 DEF GraphArcInv
  <2>5. (OneSelects' <=> OneSelects) /\ (TwoSelects' <=> TwoSelects) /\ (Sample!On(0)' <=> Sample!On(0)) /\ (Sample!On(1)' <=> Sample!On(1))
    BY <2>1 DEF OneSelects, TwoSelects, Sample!On, Sample!Off
  <2>6. OneSelects => ~TwoSelects /\ Sample!On(0)
    BY DEF OneSelects, TwoSelects, Sample!On, Sample!Off
  <2>7. TwoSelects => Sample!On(1)
    BY DEF TwoSelects
  <2>8. \A m : ~InQueue(pending2, m) /\ ~WasCalled(calls', m)
    BY <2>4, NobodyQueues
  <2>9. /\ pc2' \in {"walk", "hello"}
        /\ \/ /\ OneSelects /\ Sample!Becomes(Sample!Enqueue(Sample!Graph, "dummy_node", <<>>))
              /\ IF Sample!On(1) THEN helper' = "launched" ELSE helper' = helper
           \/ /\ TwoSelects /\ Sample!Becomes(Sample!Enqueue(Sample!Graph, "dummy_node2", <<>>)) /\ helper' = helper
           \/ ~OneSelects /\ ~TwoSelects /\ UNCHANGED <<pending2, stream2>> /\ helper' = helper
    BY <1>3, <2>1 DEF Sample!arc_hello_process, OneSelects, TwoSelects, Sample!graphVars
  <2>10. CASE OneSelects /\ Sample!Becomes(Sample!Enqueue(Sample!Graph, "dummy_node", <<>>))
    <3>1. /\ \E h : Becoming(h) /\ ~Held'
          /\ \A m : InQueue(pending2', m) <=> InQueue(pending2, m) \/ m = "dummy_node"
      BY <1>0, <1>a, <2>10, ArcEnqueue
    <3>2. WalkTyped'
      BY <2>1, <2>2, <3>1, Typed2 DEF WalkTyped
    <3>3. \A m : Chosen(m)' <=> m = "dummy_node"
      BY <2>8, <3>1 DEF Chosen
    <3>4. helper' # "none" => Sample!On(1)
      BY <2>4, <2>6, <2>9, <2>10
    <3>5. HelloDone'
      BY <2>4, <2>5, <2>6, <2>10, <3>3, <3>4 DEF HelloDone
    <3>6. \A m : InQueue(pending2', m) => m \in {"dummy_node", "dummy_node2"}
      BY <2>8, <3>1
    <3> QED
      BY <2>1, <2>2, <2>9, <3>1, <3>2, <3>5, <3>6 DEF GraphArcInv, Places2
  <2>11. CASE TwoSelects /\ Sample!Becomes(Sample!Enqueue(Sample!Graph, "dummy_node2", <<>>)) /\ helper' = helper
    <3>1. /\ \E h : Becoming(h) /\ ~Held'
          /\ \A m : InQueue(pending2', m) <=> InQueue(pending2, m) \/ m = "dummy_node2"
      BY <1>0, <1>a, <2>11, ArcEnqueue
    <3>2. WalkTyped'
      BY <2>1, <2>2, <3>1, Typed2 DEF WalkTyped
    <3>3. \A m : Chosen(m)' <=> m = "dummy_node2"
      BY <2>8, <3>1 DEF Chosen
    <3>4. HelloDone'
      BY <2>4, <2>5, <2>6, <2>7, <2>11, <3>3 DEF HelloDone
    <3>5. \A m : InQueue(pending2', m) => m \in {"dummy_node", "dummy_node2"}
      BY <2>8, <3>1
    <3> QED
      BY <2>1, <2>2, <2>9, <3>1, <3>2, <3>4, <3>5 DEF GraphArcInv, Places2
  <2>12. CASE ~OneSelects /\ ~TwoSelects /\ UNCHANGED <<pending2, stream2>> /\ helper' = helper
    <3>1. WalkTyped'
      BY <2>1, <2>2, <2>12, SameGraph, Typed2 DEF WalkTyped
    <3>2. ~Held' /\ \A m : ~InQueue(pending2', m)
      BY <1>a, <2>8, <2>12 DEF Held
    <3>3. \A m : ~Chosen(m)'
      BY <2>8, <3>2 DEF Chosen
    <3>4. HelloDone'
      BY <2>4, <2>5, <2>12, <3>3 DEF HelloDone
    <3> QED
      BY <2>1, <2>2, <2>9, <3>1, <3>2, <3>4 DEF GraphArcInv, Places2
  <2> QED
    BY <2>9, <2>10, <2>11, <2>12
<1>4. CASE Sample!HelloReturns
  <2>1. /\ pc2 = "hello" /\ pc2' = "walk"
        /\ UNCHANGED <<sample, left, pending2, stream2, calls, made, count2, feature, helper>>
    BY <1>4 DEF Sample!HelloReturns, Sample!graphVars, Sample!walkVars, Sample!arcVars
  <2>2. WalkTyped'
    BY <2>1, SameGraph, Typed2 DEF WalkTyped
  <2>3. (Held' <=> Held) /\ (HelloDone' <=> HelloDone)
    BY <2>1 DEF Held, HelloDone, InQueue, Chosen, WasCalled, OneSelects, TwoSelects, Sample!On, Sample!Off
  <2>4. count2 # 0
    BY <2>1 DEF GraphArcInv
  <2> QED
    BY <1>a, <2>1, <2>2, <2>3, <2>4 DEF GraphArcInv, Places2
<1>5. CASE \E n \in {"dummy_node", "dummy_node2"} : Sample!arc_dummy_process(n)
  <2>0. PICK n \in {"dummy_node", "dummy_node2"} : Sample!arc_dummy_process(n)
    BY <1>5
  <2>1. /\ Sample!Call("graph_arc", n) /\ Sample!Becomes(Sample!Rest) /\ n \in Sample!Nodes /\ count2' = count2 + 1
        /\ UNCHANGED <<sample, pc2, left, made, feature, helper>> /\ pc2 = "walk" /\ left = {}
    BY <1>0, <2>0 DEF Sample!arc_dummy_process, Sample!Call, Sample!arcVars
  <2>2. count2' \in Nat /\ count2' > 0 /\ count2 > 0
    BY <1>0, <2>1 DEF GraphArcInv
  <2>3. /\ \E h : Becoming(h) /\ ~Held' /\ calls' \in Seq(CallSet)
        /\ \A m : (InQueue(pending2', m) => InQueue(pending2, m)) /\ (Chosen(m)' <=> Chosen(m))
    BY <1>a, <2>1, ArcCall
  <2>4. WalkTyped'
    BY <2>1, <2>2, <2>3, Typed2 DEF WalkTyped
  <2>5. (OneSelects' <=> OneSelects) /\ (TwoSelects' <=> TwoSelects) /\ (Sample!On(0)' <=> Sample!On(0)) /\ (Sample!On(1)' <=> Sample!On(1))
    BY <2>1 DEF OneSelects, TwoSelects, Sample!On, Sample!Off
  <2>6. HelloDone
    BY <2>2 DEF GraphArcInv
  <2>7. HelloDone'
    BY <2>1, <2>3, <2>5, <2>6 DEF HelloDone
  <2> QED
    BY <1>a, <2>1, <2>2, <2>3, <2>4, <2>7 DEF GraphArcInv, Places2
<1>6. CASE Sample!HelperEnqueues
  <2>1. /\ helper = "launched" /\ helper' = "done" /\ pc2' \in {pc2, "crashed"}
        /\ UNCHANGED <<sample, left, calls, made, count2, quit2, feature>>
        /\ \/ Sample!Becomes(Sample!Enqueue(Sample!Graph, "dummy_node2", <<>>))
           \/ UNCHANGED <<pending2, stream2>>
    BY <1>6 DEF Sample!HelperEnqueues, Sample!graphVars, Sample!walkVars
  <2>2. count2 > 0
    BY <1>0, <2>1 DEF GraphArcInv
  <2>3. (OneSelects' <=> OneSelects) /\ (TwoSelects' <=> TwoSelects) /\ (Sample!On(0)' <=> Sample!On(0)) /\ (Sample!On(1)' <=> Sample!On(1))
    BY <2>1 DEF OneSelects, TwoSelects, Sample!On, Sample!Off
  <2>4. HelloDone /\ Sample!On(0) /\ Sample!On(1)
    BY <2>1, <2>2 DEF GraphArcInv, HelloDone
  <2>5. /\ \E h : Becoming(h)
        /\ ~Held' /\ \A m : (InQueue(pending2', m) <=> InQueue(pending2, m) \/ m = "dummy_node2")
                            \/ (InQueue(pending2', m) <=> InQueue(pending2, m))
    <3>1. CASE Sample!Becomes(Sample!Enqueue(Sample!Graph, "dummy_node2", <<>>))
      BY <1>0, <1>a, <3>1, ArcEnqueue
    <3>2. CASE UNCHANGED <<pending2, stream2>>
      <4>1. ~Held'
        BY <1>a, <3>2 DEF Held
      <4> QED
        BY <3>2, <4>1, SameGraph
    <3> QED
      BY <2>1, <3>1, <3>2
  <2>6. WalkTyped'
    BY <2>1, <2>5, Typed2 DEF WalkTyped
  <2>7. (Chosen("dummy_node")' <=> Chosen("dummy_node")) /\ (Chosen("dummy_node2") => Chosen("dummy_node2")')
    BY <2>1, <2>5 DEF Chosen
  <2>8. HelloDone'
    BY <2>1, <2>3, <2>4, <2>7 DEF HelloDone
  <2>9. /\ \A m : InQueue(pending2', m) => m \in {"dummy_node", "dummy_node2"}
        /\ InQueue(pending2', "dummy_node") => InQueue(pending2, "dummy_node")
    BY <1>a, <2>5
  <2>10. GraphArcInv'
    BY <2>1, <2>2, <2>5, <2>8, <2>9 DEF GraphArcInv
  <2> QED
    BY <2>1, <2>6, <2>10 DEF Places2
<1> QED
  <2>1. Sample!main => OfLoop \/ Sample!BeginWalk \/ Sample!arc_hello_process \/ Sample!HelloReturns
                       \/ \E n \in {"dummy_node", "dummy_node2"} : Sample!arc_dummy_process(n)
    BY DEF OfLoop, Places2, Sample!main, Sample!two_start1_process, Sample!two_start2_process, Sample!produce, Sample!worker_process, Sample!rx_node_process, Sample!ipv4_node_process, Sample!tx_node_process, Sample!drop_node_process, Sample!start_node_process, Sample!parse_node_process, Sample!classify_node_process, Sample!forward_node_process, Sample!Stage, Sample!start1_process, Sample!start2_process, Sample!start_process, Sample!work1_process, Sample!work2_process, Sample!sched_hello_process, Sample!sched_dummy_process, Sample!sample_hello_process, Sample!sample_dummy_process, Sample!CallSource, Sample!Call, Sample!Receive
  <2> QED
    BY <1>1, <1>2, <1>3, <1>4, <1>5, <1>6, <2>1

-----------------------------------------------------------------------------
(* rx_drop_sample                                                          *)

QueuedGraphs == {g \in [pending : Seq(Sample!Nodes), stream : [Sample!Nodes -> Seq(Objects)]] : Queued(g)}

LEMMA InQueuedGraphs ==
  /\ \A g \in QueuedGraphs : Queued(g)
  /\ \A g : \A n : \A new : Queued(Sample!Enqueue(g, n, new)) => Sample!Enqueue(g, n, new) \in QueuedGraphs
  /\ Queued(Sample!Rest) => Sample!Rest \in QueuedGraphs
<1>1. \A g \in QueuedGraphs : Queued(g)
  BY DEF QueuedGraphs
<1>2. ASSUME NEW u, NEW v, NEW h, h = [pending |-> u, stream |-> v], Queued(h) PROVE h \in QueuedGraphs
  <2>1. h.pending = u /\ h.stream = v
    BY <1>2
  <2>2. u \in Seq(Sample!Nodes) /\ v \in [Sample!Nodes -> Seq(Objects)]
    BY <1>2, <2>1 DEF Queued
  <2>3. h \in [pending : Seq(Sample!Nodes), stream : [Sample!Nodes -> Seq(Objects)]]
    BY <1>2, <2>2
  <2> QED
    BY <1>2, <2>3 DEF QueuedGraphs
<1>3. ASSUME NEW g, NEW n, NEW new, Queued(Sample!Enqueue(g, n, new))
      PROVE  Sample!Enqueue(g, n, new) \in QueuedGraphs
  <2>1. PICK h, u, v : /\ h = Sample!Enqueue(g, n, new)
                       /\ u = IF g.stream[n] = <<>> THEN Append(g.pending, n) ELSE g.pending
                       /\ v = [g.stream EXCEPT ![n] = g.stream[n] \o new]
    OBVIOUS
  <2>2. h = [pending |-> u, stream |-> v]
    BY <2>1 DEF Sample!Enqueue
  <2> QED
    BY <1>2, <1>3, <2>1, <2>2
<1>4. ASSUME Queued(Sample!Rest) PROVE Sample!Rest \in QueuedGraphs
  <2>1. PICK h, u, v : h = Sample!Rest /\ u = Tail(pending2) /\ v = [stream2 EXCEPT ![Head(pending2)] = <<>>]
    OBVIOUS
  <2>2. h = [pending |-> u, stream |-> v]
    BY <2>1 DEF Sample!Rest
  <2> QED
    BY <1>2, <1>4, <2>1, <2>2
<1> QED
  BY <1>1, <1>3, <1>4

\* The course of the loop of ipv4_node_process over s, which begins with b.
SortLoop(s, b, f) ==
  f = [k \in 0 .. Len(s) |->
         IF k = 0 THEN b ELSE Sample!Enqueue(f[k - 1], Sample!NextOf(s[k]), <<s[k]>>)]

SortRounds(s, b, f, a) ==
  /\ f \in [0 .. a -> QueuedGraphs] /\ f[0] = b
  /\ \A k \in 1 .. a : f[k] = Sample!Enqueue(f[k - 1], Sample!NextOf(s[k]), <<s[k]>>)

LEMMA SortCourse ==
  ASSUME NEW s \in Seq(Objects), NEW b \in QueuedGraphs, NEW a \in Nat, a = Len(s)
  PROVE  \E f : SortRounds(s, b, f, a) /\ (CHOOSE g : SortLoop(s, b, g))[a] = f[a]
<1>1. \A k \in 1 .. a : s[k] \in Objects
  BY ElementOfSeq
<1>2. \A k \in 1 .. a : <<s[k]>> \in Seq(Objects) /\ Sample!NextOf(s[k]) \in Sample!Nodes
  BY <1>1 DEF Sample!NextOf, Sample!Nodes
<1> DEFINE G == [p \in (1 .. a) \X QueuedGraphs |-> Sample!Enqueue(p[2], Sample!NextOf(s[p[1]]), <<s[p[1]]>>)]
<1>3. ASSUME NEW k \in 1 .. a, NEW x \in QueuedGraphs
      PROVE  Sample!Enqueue(x, Sample!NextOf(s[k]), <<s[k]>>) \in QueuedGraphs
  <2>1. Queued(x)
    BY InQueuedGraphs
  <2>2. PICK n \in Sample!Nodes : n = Sample!NextOf(s[k])
    BY <1>2
  <2>3. PICK new \in Seq(Objects) : new = <<s[k]>>
    BY <1>2
  <2>4. Queued(Sample!Enqueue(x, n, new))
    BY <2>1, EnqueueQueued
  <2>5. Sample!Enqueue(x, n, new) \in QueuedGraphs
    BY <2>4, InQueuedGraphs
  <2> QED
    BY <2>2, <2>3, <2>5
<1>4. G \in [(1 .. a) \X QueuedGraphs -> QueuedGraphs]
  BY <1>3
<1>5. \A k \in 1 .. a, x \in QueuedGraphs : G[<<k, x>>] = Sample!Enqueue(x, Sample!NextOf(s[k]), <<s[k]>>)
  OBVIOUS
<1> HIDE DEF G
<1>6. PICK f \in [0 .. a -> QueuedGraphs] : f[0] = b /\ \A k \in 1 .. a : f[k] = G[<<k, f[k - 1]>>]
  <2>1. \E f : CourseOf(QueuedGraphs, b, G, f, a)
    BY <1>4, Iterates
  <2> QED
    BY <2>1 DEF CourseOf
<1>7. SortRounds(s, b, f, a)
  <2> SUFFICES ASSUME NEW k \in 1 .. a PROVE f[k] = Sample!Enqueue(f[k - 1], Sample!NextOf(s[k]), <<s[k]>>)
    BY <1>6 DEF SortRounds
  <2>1. f[k - 1] \in QueuedGraphs
    BY <1>6
  <2> QED
    BY <1>5, <1>6, <2>1
<1>8. SortLoop(s, b, f)
  <2>1. \A k \in 0 .. a : f[k] = IF k = 0 THEN b ELSE Sample!Enqueue(f[k - 1], Sample!NextOf(s[k]), <<s[k]>>)
    <3>1. \A k \in 0 .. a : k = 0 \/ (k # 0 /\ k \in 1 .. a)
      OBVIOUS
    <3> QED
      BY <1>7, <3>1 DEF SortRounds
  <2>2. f = [k \in 0 .. a |-> f[k]]
    BY <1>6
  <2> QED
    BY <2>1, <2>2 DEF SortLoop
<1> DEFINE h == CHOOSE g : SortLoop(s, b, g)
<1>9. SortLoop(s, b, h)
  BY <1>8
<1>10. \A k \in 0 .. a : h[k] = IF k = 0 THEN b ELSE Sample!Enqueue(h[k - 1], Sample!NextOf(s[k]), <<s[k]>>)
  <2> HIDE DEF h
  <2> QED
    BY <1>9 DEF SortLoop
<1>11. \A k \in 0 .. a : h[k] = f[k]
  <2> HIDE DEF h
  <2> DEFINE E == {k \in 0 .. a : h[k] = f[k]}
  <2>0. 0 \in 0 .. a /\ \A k \in 1 .. a : k \in 0 .. a /\ k # 0
    OBVIOUS
  <2>1. 0 \in E
    BY <1>6, <1>10, <2>0
  <2>2. ASSUME NEW k \in 1 .. a, k - 1 \in E PROVE k \in E
    <3>1. h[k - 1] = f[k - 1]
      BY <2>2
    <3> QED
      BY <1>7, <1>10, <2>0, <3>1 DEF SortRounds
  <2>3. \A k \in 0 .. a : k \in E
    <3> HIDE DEF E
    <3> QED
      BY <2>1, <2>2, Rounds
  <2> QED
    BY <2>3
<1>12. h[a] = f[a]
  BY <1>11
<1> QED
  BY <1>7, <1>12

LEMMA ObjectsInOrder ==
  \A x, y, z \in Seq(Objects) : (x \o y) \o z = x \o (y \o z)
  BY ConcatAssociative

\* What it has sorted goes where NextOf says.
Meant(s, S, n, a) == \A k \in 1 .. a : s[k] \in S <=> Sample!NextOf(s[k]) = n
SortedTo(f, a, b, s, S, n) == f[a].stream[n] = b.stream[n] \o Selected(s, S)

LEMMA SortFacts ==
  ASSUME NEW s \in Seq(Objects), NEW b \in QueuedGraphs, NEW a \in Nat, a = Len(s), NEW f, SortRounds(s, b, f, a),
         NEW n \in {"tx_node", "drop_node"}, NEW S, Meant(s, S, n, a)
  PROVE  SortedTo(f, a, b, s, S, n)
<1>0. n \in Sample!Nodes
  BY DEF Sample!Nodes
<1>1. PICK f2 \in [0 .. a -> Seq(Objects)] : SelectLoop(s, S, f2) /\ Selected(s, S) = f2[a]
  BY SelectCourse
<1>2. f2[0] = <<>> /\ \A k \in 1 .. a : f2[k] = IF s[k] \in S THEN Append(f2[k - 1], s[k]) ELSE f2[k - 1]
  <2>1. SelectRounds(s, S, f2, a)
    BY <1>1, SelectRound
  <2> QED
    BY <2>1 DEF SelectRounds
<1>3. /\ f \in [0 .. a -> QueuedGraphs] /\ f[0] = b
      /\ \A k \in 1 .. a : f[k] = Sample!Enqueue(f[k - 1], Sample!NextOf(s[k]), <<s[k]>>)
  BY DEF SortRounds
<1>4. PICK y \in Seq(Objects) : y = b.stream[n]
  BY <1>0, InQueuedGraphs DEF Queued
<1> DEFINE E == {k \in 0 .. a : f[k].stream[n] = y \o f2[k]}
<1>5. 0 \in E
  BY <1>2, <1>3, <1>4, ConcatEmptySeq
<1>6. ASSUME NEW k \in 1 .. a, k - 1 \in E PROVE k \in E
  <2>1. k \in 0 .. a /\ k - 1 \in 0 .. a /\ f[k - 1].stream[n] = y \o f2[k - 1] /\ f2[k - 1] \in Seq(Objects)
    BY <1>1, <1>6, SMTT(30)
  <2>2. PICK g, m, new : g = f[k - 1] /\ m = Sample!NextOf(s[k]) /\ new = <<s[k]>>
    OBVIOUS
  <2>3. s[k] \in Objects
    BY ElementOfSeq
  <2>4. m \in Sample!Nodes /\ new \in Seq(Objects)
    BY <2>2, <2>3 DEF Sample!NextOf, Sample!Nodes
  <2>5. Queued(g)
    BY <1>3, <2>1, <2>2, InQueuedGraphs
  <2>6. PICK h : h = Sample!Enqueue(g, m, new) /\ h = f[k]
    BY <1>3, <2>2
  <2>7. Put(h, g, m, new)
    BY <2>4, <2>5, <2>6, EnqueueQueued
  <2>8. CASE m = n
    <3>1. f2[k] = Append(f2[k - 1], s[k])
      BY <1>2, <2>2, <2>8 DEF Meant
    <3>2. f2[k] = f2[k - 1] \o new
      BY <2>1, <2>2, <2>3, <3>1, AppendIsConcat
    <3>3. h.stream[n] = (y \o f2[k - 1]) \o new
      BY <2>1, <2>2, <2>7, <2>8 DEF Put
    <3>4. (y \o f2[k - 1]) \o new = y \o (f2[k - 1] \o new)
      <4>1. PICK z \in Seq(Objects) : z = f2[k - 1]
        BY <2>1
      <4>2. y \in Seq(Objects) /\ z \in Seq(Objects) /\ new \in Seq(Objects)
        BY <2>4
      <4>3. (y \o z) \o new = y \o (z \o new)
        BY <4>2, ObjectsInOrder
      <4> QED
        BY <4>1, <4>3
    <3> QED
      BY <2>1, <2>6, <3>2, <3>3, <3>4
  <2>9. CASE m # n
    <3>1. f2[k] = f2[k - 1]
      BY <1>2, <2>2, <2>9 DEF Meant
    <3>2. h.stream[n] = g.stream[n]
      BY <1>0, <2>7, <2>9 DEF Put
    <3> QED
      BY <2>1, <2>2, <2>6, <3>1, <3>2
  <2> QED
    BY <2>8, <2>9
<1>7. a \in E
  <2>1. a \in 0 .. a
    OBVIOUS
  <2> HIDE DEF E
  <2> QED
    BY <1>5, <1>6, <2>1, Rounds
<1> QED
  BY <1>1, <1>4, <1>7 DEF SortedTo

LEMMA SortElsewhere ==
  ASSUME NEW s \in Seq(Objects), NEW b \in QueuedGraphs, NEW a \in Nat, a = Len(s), NEW f, SortRounds(s, b, f, a)
  PROVE  f[a].stream["ipv4_node"] = b.stream["ipv4_node"]
<1>0. "ipv4_node" \in Sample!Nodes
  BY DEF Sample!Nodes
<1>1. /\ f \in [0 .. a -> QueuedGraphs] /\ f[0] = b
      /\ \A k \in 1 .. a : f[k] = Sample!Enqueue(f[k - 1], Sample!NextOf(s[k]), <<s[k]>>)
  BY DEF SortRounds
<1> DEFINE E == {k \in 0 .. a : f[k].stream["ipv4_node"] = b.stream["ipv4_node"]}
<1>2. 0 \in E
  BY <1>1
<1>3. ASSUME NEW k \in 1 .. a, k - 1 \in E PROVE k \in E
  <2>1. k \in 0 .. a /\ k - 1 \in 0 .. a /\ f[k - 1].stream["ipv4_node"] = b.stream["ipv4_node"]
    BY <1>3
  <2>2. PICK g, m, new : g = f[k - 1] /\ m = Sample!NextOf(s[k]) /\ new = <<s[k]>>
    OBVIOUS
  <2>3. s[k] \in Objects
    BY ElementOfSeq
  <2>4. m \in Sample!Nodes /\ new \in Seq(Objects) /\ m # "ipv4_node"
    BY <2>2, <2>3 DEF Sample!NextOf, Sample!Nodes
  <2>5. Queued(g)
    BY <1>1, <2>1, <2>2, InQueuedGraphs
  <2>6. PICK h : h = Sample!Enqueue(g, m, new) /\ h = f[k]
    BY <1>1, <2>2
  <2>7. Put(h, g, m, new)
    BY <2>4, <2>5, <2>6, EnqueueQueued
  <2>8. h.stream["ipv4_node"] = g.stream["ipv4_node"]
    BY <1>0, <2>4, <2>7 DEF Put
  <2> QED
    BY <2>1, <2>2, <2>6, <2>8
<1>4. a \in E
  <2>1. a \in 0 .. a
    OBVIOUS
  <2> HIDE DEF E
  <2> QED
    BY <1>2, <1>3, <2>1, Rounds
<1> QED
  BY <1>4

\* What is to be sent and what is to be freed.
IPv4Of(s) == {m \in Sample!ToSet(s) : m.type = "IPV4"}
OthersOf(s) == Sample!ToSet(s) \ IPv4Of(s)

Unsorted == stream2["ipv4_node"] = made /\ Had("tx_node") = <<>> /\ Had("drop_node") = <<>>
SortedOut ==
  /\ stream2["ipv4_node"] = <<>>
  /\ Had("tx_node") = Selected(made, IPv4Of(made)) /\ Had("drop_node") = Selected(made, OthersOf(made))

RxInv == ("rx_node" \in left => made = <<>> /\ Unsorted) /\ (Unsorted \/ SortedOut)

LEMMA SelectedNothing == ASSUME NEW S PROVE Selected(<<>>, S) = <<>>
<1>1. PICK e : e = <<>>
  OBVIOUS
<1>2. e \in Seq(Objects) /\ Len(e) = 0
  BY <1>1, EmptySeq
<1>3. PICK f \in [0 .. Len(e) -> Seq(Objects)] : SelectLoop(e, S, f) /\ Selected(e, S) = f[Len(e)]
  BY <1>2, SelectCourse
<1>4. SelectRounds(e, S, f, 0)
  BY <1>2, <1>3, SelectRound
<1> QED
  BY <1>1, <1>2, <1>3, <1>4 DEF SelectRounds

LEMMA RxIpv4 ==
  ASSUME WalkTyped, Sample!ipv4_node_process
  PROVE  /\ WalkTyped' /\ UNCHANGED <<sample, pc2, left, made, helper>> /\ pc2 = "walk" /\ stream2'["ipv4_node"] = <<>>
         /\ Had("tx_node")' = Had("tx_node") \o Selected(stream2["ipv4_node"], IPv4Of(stream2["ipv4_node"]))
         /\ Had("drop_node")' = Had("drop_node") \o Selected(stream2["ipv4_node"], OthersOf(stream2["ipv4_node"]))
<1>0. {"ipv4_node", "tx_node", "drop_node"} \subseteq Sample!Nodes
  BY DEF Sample!Nodes
<1>1. PICK s, b : s = stream2["ipv4_node"] /\ b = Sample!Rest
  OBVIOUS
<1>2. /\ Sample!Call("rx_drop_sample", "ipv4_node") /\ UNCHANGED <<sample, pc2, made, count2, helper>>
      /\ Sample!Becomes((CHOOSE g : SortLoop(s, b, g))[Len(s)])
  BY <1>1 DEF Sample!ipv4_node_process, SortLoop, Sample!arcVars
<1>3. pc2 = "walk" /\ left' = left
  BY <1>2 DEF Sample!Call
<1>4. CalledWith("ipv4_node")
  BY <1>0, <1>2, CallFacts
<1>5. /\ s \in Seq(Objects) /\ b \in QueuedGraphs /\ Without(b, "ipv4_node") /\ calls' \in Seq(CallSet)
      /\ Sample!GivenIn(calls', "tx_node") = Sample!GivenIn(calls, "tx_node")
      /\ Sample!GivenIn(calls', "drop_node") = Sample!GivenIn(calls, "drop_node")
  BY <1>1, <1>4, InQueuedGraphs DEF CalledWith
<1>6. PICK a \in Nat : a = Len(s)
  BY <1>5, LenProperties
<1>7. PICK f : SortRounds(s, b, f, a) /\ (CHOOSE g : SortLoop(s, b, g))[a] = f[a]
  BY <1>5, <1>6, SortCourse
<1>8. PICK h : h = f[a] /\ h \in QueuedGraphs /\ Sample!Becomes(h)
  BY <1>2, <1>6, <1>7 DEF SortRounds
<1>9. Becoming(h) /\ stream2' = h.stream
  BY <1>8, InQueuedGraphs DEF Becoming, Sample!Becomes
<1>10. WalkTyped'
  BY <1>2, <1>5, <1>9, Typed2 DEF WalkTyped
<1>11. stream2'["ipv4_node"] = <<>>
  BY <1>5, <1>6, <1>7, <1>8, <1>9, SortElsewhere DEF Without
<1>12. ASSUME NEW k \in 1 .. a
       PROVE  /\ s[k] \in IPv4Of(s) <=> Sample!NextOf(s[k]) = "tx_node"
              /\ s[k] \in OthersOf(s) <=> Sample!NextOf(s[k]) = "drop_node"
  <2>1. s[k] \in Sample!ToSet(s)
    BY <1>5, <1>6, LenProperties DEF Sample!ToSet
  <2> QED
    BY <2>1 DEF IPv4Of, OthersOf, Sample!NextOf
<1>13. stream2'["tx_node"] = b.stream["tx_node"] \o Selected(s, IPv4Of(s))
  <2>1. PICK S : S = IPv4Of(s)
    OBVIOUS
  <2>2. PICK n \in {"tx_node", "drop_node"} : n = "tx_node"
    OBVIOUS
  <2>3. Meant(s, S, n, a)
    BY <1>12, <2>1, <2>2 DEF Meant
  <2>4. SortedTo(f, a, b, s, S, n)
    <3>1. s \in Seq(Objects) /\ b \in QueuedGraphs /\ SortRounds(s, b, f, a)
      BY <1>5, <1>7
    <3> QED
      BY <1>6, <2>2, <2>3, <3>1, SortFacts
  <2> QED
    BY <1>8, <1>9, <2>1, <2>2, <2>4 DEF SortedTo
<1>14. stream2'["drop_node"] = b.stream["drop_node"] \o Selected(s, OthersOf(s))
  <2>1. PICK S : S = OthersOf(s)
    OBVIOUS
  <2>2. PICK n \in {"tx_node", "drop_node"} : n = "drop_node"
    OBVIOUS
  <2>3. Meant(s, S, n, a)
    BY <1>12, <2>1, <2>2 DEF Meant
  <2>4. SortedTo(f, a, b, s, S, n)
    <3>1. s \in Seq(Objects) /\ b \in QueuedGraphs /\ SortRounds(s, b, f, a)
      BY <1>5, <1>7
    <3> QED
      BY <1>6, <2>2, <2>3, <3>1, SortFacts
  <2> QED
    BY <1>8, <1>9, <2>1, <2>2, <2>4 DEF SortedTo
<1>15. b.stream["tx_node"] = stream2["tx_node"] /\ b.stream["drop_node"] = stream2["drop_node"]
  BY <1>0, <1>5 DEF Without
<1>16. ASSUME NEW n \in {"tx_node", "drop_node"}, NEW S, stream2'[n] = stream2[n] \o Selected(s, S)
       PROVE  Had(n)' = Had(n) \o Selected(s, S)
  <2>1. PICK x, y, z : x = Sample!GivenIn(calls, n) /\ y = stream2[n] /\ z = Selected(s, S)
    OBVIOUS
  <2>2. n \in Sample!Nodes
    BY <1>0
  <2>3. x \in Seq(Objects) /\ y \in Seq(Objects)
    BY <2>1, <2>2, HadTyped
  <2>4. z \in Seq(Objects)
    BY <1>5, <2>1, SelectedKeeps
  <2>5. (x \o y) \o z = x \o (y \o z)
    BY <2>3, <2>4, ObjectsInOrder
  <2>6. Had(n)' = x \o (y \o z)
    BY <1>5, <1>16, <2>1 DEF Had
  <2> QED
    BY <2>1, <2>5, <2>6 DEF Had
<1>17. /\ Had("tx_node")' = Had("tx_node") \o Selected(s, IPv4Of(s))
       /\ Had("drop_node")' = Had("drop_node") \o Selected(s, OthersOf(s))
  BY <1>13, <1>14, <1>15, <1>16
<1> QED
  BY <1>1, <1>2, <1>3, <1>10, <1>11, <1>17

LEMMA RxSource ==
  ASSUME WalkTyped, sample = "rx_drop_sample", RxInv, Sample!rx_node_process
  PROVE  /\ WalkTyped' /\ UNCHANGED <<sample, pc2, helper>> /\ pc2 = "walk" /\ RxInv'
<1>0. {"ipv4_node", "tx_node", "drop_node"} \subseteq Sample!Nodes /\ count2 \in Nat
  BY DEF Sample!Nodes, WalkTyped
<1>1. UNCHANGED <<sample, pc2, calls, helper>> /\ pc2 = "walk" /\ "rx_node" \in left /\ left' = left \ {"rx_node"}
  BY DEF Sample!rx_node_process, Sample!CallSource, Sample!arcVars
<1>2. made = <<>> /\ stream2["ipv4_node"] = <<>> /\ Had("tx_node") = <<>> /\ Had("drop_node") = <<>>
  BY <1>1 DEF RxInv, Unsorted
<1>3. PICK n \in 0 .. Burst : \E types \in [1 .. n -> {"IPV4", "other"}] :
         /\ count2' = IF n > 0 THEN count2 + 1 ELSE count2
         /\ made' = [k \in 1 .. n |-> [type |-> types[k], number |-> k]]
         /\ Sample!Becomes(IF n > 0 THEN Sample!Enqueue(Sample!Graph, "ipv4_node", [k \in 1 .. n |-> [type |-> types[k], number |-> k]])
                           ELSE Sample!Graph)
  BY DEF Sample!rx_node_process
<1>4. PICK types \in [1 .. n -> {"IPV4", "other"}] :
         /\ count2' = IF n > 0 THEN count2 + 1 ELSE count2
         /\ made' = [k \in 1 .. n |-> [type |-> types[k], number |-> k]]
         /\ Sample!Becomes(IF n > 0 THEN Sample!Enqueue(Sample!Graph, "ipv4_node", [k \in 1 .. n |-> [type |-> types[k], number |-> k]])
                           ELSE Sample!Graph)
  BY <1>3
<1>5. PICK new : /\ new = [k \in 1 .. n |-> [type |-> types[k], number |-> k]] /\ new = made'
                 /\ Sample!Becomes(IF n > 0 THEN Sample!Enqueue(Sample!Graph, "ipv4_node", new) ELSE Sample!Graph)
  BY <1>4
<1>6. n \in Nat /\ count2' \in Nat
  BY <1>0, <1>4, GraphFwAssumption
<1>7. new \in Seq(Objects) /\ Len(new) = n
  <2>1. ASSUME NEW k \in 1 .. n PROVE [type |-> types[k], number |-> k] \in Objects
    <3>1. types[k] \in {"IPV4", "other"} /\ k \in Nat
      OBVIOUS
    <3>2. [type |-> types[k], number |-> k] \in [type : {"IPV4", "other"}, number : Nat]
      BY <3>1
    <3> QED
      BY <3>2 DEF Objects
  <2>2. new \in [1 .. n -> Objects]
    BY <1>5, <2>1
  <2> QED
    BY <1>6, <2>2, SeqDef
<1>8. CASE n > 0
  <2>1. Sample!Becomes(Sample!Enqueue(Sample!Graph, "ipv4_node", new))
    BY <1>5, <1>8
  <2>2. PICK h : Becoming(h) /\ stream2'["ipv4_node"] = stream2["ipv4_node"] \o new
    BY <1>0, <1>7, <2>1, Gives
  <2>3. Had("tx_node")' = <<>> /\ Had("drop_node")' = <<>>
    BY <1>0, <1>1, <1>2, <1>7, <2>1, HadGives
  <2>4. stream2'["ipv4_node"] = made'
    BY <1>2, <1>5, <1>7, <2>2, ConcatEmptySeq
  <2>5. WalkTyped'
    BY <1>1, <1>5, <1>6, <1>7, <2>2, Typed2 DEF WalkTyped
  <2> QED
    BY <1>1, <2>3, <2>4, <2>5 DEF RxInv, Unsorted
<1>9. CASE ~(n > 0)
  <2>1. n = 0
    BY <1>6, <1>9
  <2>2. made' = <<>>
    BY <1>5, <1>7, <2>1, EmptySeq
  <2>3. UNCHANGED <<pending2, stream2>>
    <3>1. Sample!Becomes(Sample!Graph)
      BY <1>5, <1>9
    <3> QED
      BY <3>1 DEF Sample!Becomes, Sample!Graph
  <2>4. WalkTyped'
    BY <1>1, <1>5, <1>6, <1>7, <2>3, SameGraph, Typed2 DEF WalkTyped
  <2>5. Had("tx_node")' = <<>> /\ Had("drop_node")' = <<>>
    BY <1>1, <1>2, <2>3 DEF Had
  <2> QED
    BY <1>1, <1>2, <2>2, <2>3, <2>4, <2>5 DEF RxInv, Unsorted
<1> QED
  BY <1>8, <1>9

LEMMA RxStep ==
  ASSUME WalkTyped, Places2, sample = "rx_drop_sample", RxInv, Sample!main \/ Sample!HelperEnqueues \/ OfLoop
  PROVE  WalkTyped' /\ Places2' /\ RxInv'
<1>0. {"ipv4_node", "tx_node", "drop_node"} \subseteq Sample!Nodes /\ count2 \in Nat
  BY DEF Sample!Nodes, WalkTyped
<1>1. CASE OfLoop
  <2>1. WalkTyped' /\ Places2' /\ UNCHANGED <<left, made, stream2>> /\ \A n : Had(n)' = Had(n)
    BY <1>1, LoopSteps
  <2>2. Had("tx_node")' = Had("tx_node") /\ Had("drop_node")' = Had("drop_node")
    BY <2>1
  <2>3. (Unsorted' <=> Unsorted) /\ (SortedOut' <=> SortedOut)
    BY <2>1, <2>2 DEF Unsorted, SortedOut
  <2> QED
    BY <2>1, <2>3 DEF RxInv
<1>2. CASE Sample!BeginWalk
  <2>1. /\ WalkTyped' /\ Places2' /\ made' = <<>> /\ stream2' = stream2
        /\ \A n \in Sample!Nodes : Had(n)' = <<>> /\ stream2[n] = <<>>
    BY <1>2, Begins
  <2>2. Unsorted'
    BY <1>0, <2>1 DEF Unsorted
  <2> QED
    BY <2>1, <2>2 DEF RxInv
<1>3. CASE Sample!rx_node_process
  BY <1>3, RxSource DEF Places2
<1>4. CASE Sample!ipv4_node_process
  <2>1. /\ WalkTyped' /\ UNCHANGED <<sample, pc2, left, made, helper>> /\ pc2 = "walk" /\ stream2'["ipv4_node"] = <<>>
        /\ Had("tx_node")' = Had("tx_node") \o Selected(stream2["ipv4_node"], IPv4Of(stream2["ipv4_node"]))
        /\ Had("drop_node")' = Had("drop_node") \o Selected(stream2["ipv4_node"], OthersOf(stream2["ipv4_node"]))
    BY <1>4, RxIpv4
  <2>2. left = {}
    BY <1>4 DEF Sample!ipv4_node_process, Sample!Call
  <2>3. PICK s \in Seq(Objects) : s = made
    BY DEF WalkTyped
  <2>4. CASE Unsorted
    <3>1. /\ Had("tx_node")' = <<>> \o Selected(s, IPv4Of(s))
          /\ Had("drop_node")' = <<>> \o Selected(s, OthersOf(s))
      BY <2>1, <2>3, <2>4 DEF Unsorted
    <3>2. Selected(s, IPv4Of(s)) \in Seq(Objects) /\ Selected(s, OthersOf(s)) \in Seq(Objects)
      BY SelectedKeeps
    <3>3. /\ Had("tx_node")' = Selected(s, IPv4Of(s)) /\ Had("drop_node")' = Selected(s, OthersOf(s))
      BY <3>1, <3>2, ConcatEmptySeq
    <3>4. SortedOut'
      BY <2>1, <2>3, <3>3 DEF SortedOut
    <3> QED
      BY <2>1, <2>2, <3>4 DEF RxInv, Places2
  <2>5. CASE SortedOut
    <3>1. stream2["ipv4_node"] = <<>>
      BY <2>5 DEF SortedOut
    <3>2. Had("tx_node")' = Had("tx_node") \o <<>> /\ Had("drop_node")' = Had("drop_node") \o <<>>
      BY <2>1, <3>1, SelectedNothing
    <3>3. Had("tx_node") \in Seq(Objects) /\ Had("drop_node") \in Seq(Objects)
      BY <1>0, HadTyped
    <3>4. Had("tx_node")' = Had("tx_node") /\ Had("drop_node")' = Had("drop_node")
      BY <3>2, <3>3, ConcatEmptySeq
    <3>5. SortedOut'
      BY <2>1, <2>5, <3>4 DEF SortedOut
    <3> QED
      BY <2>1, <2>2, <3>5 DEF RxInv, Places2
  <2> QED
    BY <2>4, <2>5 DEF RxInv
<1>5. CASE Sample!tx_node_process \/ Sample!drop_node_process
  <2>0. PICK n \in {"tx_node", "drop_node"} : /\ Sample!Call("rx_drop_sample", n) /\ Sample!Becomes(Sample!Rest)
                                              /\ UNCHANGED <<sample, pc2, made, count2, helper>>
    BY <1>5 DEF Sample!tx_node_process, Sample!drop_node_process, Sample!Receive, Sample!arcVars
  <2>1. n \in Sample!Nodes /\ left' = left /\ pc2 = "walk"
    BY <1>0, <2>0 DEF Sample!Call
  <2>2. PICK h : Becoming(h) /\ \A m \in Sample!Nodes : m # n => stream2'[m] = stream2[m]
    BY <2>0, <2>1, ReceiveFacts
  <2>3. calls' \in Seq(CallSet)
    BY <2>0, <2>1, CallFacts DEF CalledWith
  <2>4. WalkTyped'
    BY <2>0, <2>2, <2>3, Typed2 DEF WalkTyped
  <2>5. \A m \in Sample!Nodes : Had(m)' = Had(m)
    BY <2>0, <2>1, HadReceive
  <2>6. Had("tx_node")' = Had("tx_node") /\ Had("drop_node")' = Had("drop_node") /\ stream2'["ipv4_node"] = stream2["ipv4_node"]
    BY <1>0, <2>2, <2>5
  <2>7. (Unsorted' <=> Unsorted) /\ (SortedOut' <=> SortedOut)
    BY <2>0, <2>6 DEF Unsorted, SortedOut
  <2> QED
    BY <2>0, <2>1, <2>4, <2>7 DEF RxInv, Places2
<1> QED
  <2>1. Sample!main => OfLoop \/ Sample!BeginWalk \/ Sample!rx_node_process \/ Sample!ipv4_node_process
                       \/ Sample!tx_node_process \/ Sample!drop_node_process
    BY DEF OfLoop, Places2, Sample!main, Sample!two_start1_process, Sample!two_start2_process, Sample!produce, Sample!worker_process, Sample!start_node_process, Sample!parse_node_process, Sample!classify_node_process, Sample!forward_node_process, Sample!Stage, Sample!start1_process, Sample!start2_process, Sample!start_process, Sample!work1_process, Sample!work2_process, Sample!sched_hello_process, Sample!sched_dummy_process, Sample!sample_hello_process, Sample!sample_dummy_process, Sample!arc_hello_process, Sample!HelloReturns, Sample!arc_dummy_process, Sample!CallSource, Sample!Call, Sample!Receive
  <2>2. ~Sample!HelperEnqueues
    BY DEF Places2, Sample!HelperEnqueues
  <2> QED
    BY <1>1, <1>2, <1>3, <1>4, <1>5, <2>1, <2>2

-----------------------------------------------------------------------------
(* testing                                                                 *)

\* The stages that still have to undo what they did, when the burst has passed d.
Todo(d) == IF d = 0 THEN Sample!Stages ELSE IF d = 1 THEN {"classify", "forward"} ELSE IF d = 2 THEN {"forward"} ELSE {}

Treated(d) ==
  \A p \in 1 .. NumPkts :
    data[p] = IF p <= count2 THEN {} ELSE IF p <= count2 + Burst THEN Todo(d) ELSE Sample!Stages

Phase(d) ==
  /\ stream2["parse_node"] = (IF d = 0 THEN made ELSE <<>>)
  /\ stream2["classify_node"] = (IF d = 1 THEN made ELSE <<>>)
  /\ stream2["forward_node"] = (IF d = 2 THEN made ELSE <<>>)
  /\ Sample!GivenIn(calls, "forward_node") = (IF d = 3 THEN made ELSE <<>>)
  /\ Treated(d)

TestInv ==
  /\ DOMAIN data = 1 .. NumPkts
  /\ pc2 = "walk" => made = Sample!BurstOf(count2) /\ \E d \in 0 .. 3 : Phase(d)
  /\ pc2 # "walk" =>
       /\ Sample!GivenIn(calls, "forward_node") = made
       /\ \A p \in 1 .. NumPkts : data[p] = IF p <= count2 THEN {} ELSE Sample!Stages
  /\ pc2 = "done" => NumPkts <= count2

LEMMA BurstSet ==
  ASSUME NEW c \in Nat
  PROVE  /\ \A p \in Nat : p \in Sample!ToSet(Sample!BurstOf(c)) <=> c < p /\ p <= c + Burst
         /\ Sample!BurstOf(c) # <<>> /\ Sample!BurstOf(c) \in Seq(Objects)
<1>1. Burst \in Nat /\ Burst # 0
  BY GraphFwAssumption
<1>2. PICK s : s = Sample!BurstOf(c)
  OBVIOUS
<1>3. s = [j \in 1 .. Burst |-> c + j]
  BY <1>2 DEF Sample!BurstOf
<1>4. s \in Seq(Objects) /\ Len(s) = Burst
  BY <1>2, SourceObjects
<1>5. s # <<>>
  BY <1>1, <1>4, EmptySeq
<1>6. Sample!ToSet(s) = {s[j] : j \in 1 .. Burst}
  BY <1>3 DEF Sample!ToSet
<1>7. ASSUME NEW p \in Nat PROVE p \in Sample!ToSet(s) <=> c < p /\ p <= c + Burst
  <2>1. ASSUME p \in Sample!ToSet(s) PROVE c < p /\ p <= c + Burst
    <3>1. PICK j \in 1 .. Burst : p = c + j
      BY <1>3, <1>6, <2>1
    <3> QED
      BY <1>1, <3>1
  <2>2. ASSUME c < p, p <= c + Burst PROVE p \in Sample!ToSet(s)
    <3>1. p - c \in 1 .. Burst /\ c + (p - c) = p
      BY <1>1, <2>2
    <3>2. s[p - c] = p
      BY <1>3, <3>1
    <3> QED
      BY <1>6, <3>1, <3>2
  <2> QED
    BY <2>1, <2>2
<1> QED
  BY <1>2, <1>4, <1>5, <1>7

LEMMA FlipNothing ==
  ASSUME DOMAIN data = 1 .. NumPkts, NEW stage, data' = Sample!Flip(stage, <<>>)
  PROVE  DOMAIN data' = 1 .. NumPkts /\ \A p \in 1 .. NumPkts : data'[p] = data[p]
<1>1. Sample!ToSet(<<>>) = {}
  BY DEF Sample!ToSet
<1> QED
  BY <1>1 DEF Sample!Flip

LEMMA FlipBurst ==
  ASSUME DOMAIN data = 1 .. NumPkts, count2 \in Nat, NEW d \in 0 .. 2, NEW stage, Treated(d),
         <<d, stage>> \in {<<0, "parse">>, <<1, "classify">>, <<2, "forward">>},
         data' = Sample!Flip(stage, Sample!BurstOf(count2)), count2' = count2
  PROVE  DOMAIN data' = 1 .. NumPkts /\ Treated(d + 1)'
<1>0. Burst \in Nat /\ NumPkts \in Nat
  BY GraphFwAssumption, SampleAssumption
<1>1. /\ DOMAIN data' = 1 .. NumPkts
      /\ \A p \in 1 .. NumPkts :
           data'[p] = IF p \notin Sample!ToSet(Sample!BurstOf(count2)) THEN data[p]
                      ELSE IF stage \in data[p] THEN data[p] \ {stage} ELSE data[p] \cup {stage}
  BY DEF Sample!Flip
<1>2. stage \in Todo(d) /\ Todo(d) \ {stage} = Todo(d + 1)
  BY DEF Todo, Sample!Stages
<1>3. PICK c \in Nat : c = count2
  OBVIOUS
<1>4. ASSUME NEW p \in 1 .. NumPkts
      PROVE  data'[p] = IF p <= c THEN {} ELSE IF p <= c + Burst THEN Todo(d + 1) ELSE Sample!Stages
  <2>1. p \in Nat
    BY <1>0
  <2>2. p \in Sample!ToSet(Sample!BurstOf(count2)) <=> ~(p <= c) /\ p <= c + Burst
    <3>1. p \in Sample!ToSet(Sample!BurstOf(c)) <=> c < p /\ p <= c + Burst
      BY <1>3, <2>1, BurstSet
    <3> QED
      BY <1>3, <2>1, <3>1
  <2>3. data[p] = IF p <= c THEN {} ELSE IF p <= c + Burst THEN Todo(d) ELSE Sample!Stages
    BY <1>3 DEF Treated
  <2>4. p <= c => p <= c + Burst
    BY <1>0, <2>1
  <2> QED
    BY <1>1, <1>2, <2>2, <2>3, <2>4
<1>5. Treated(d + 1)'
  BY <1>3, <1>4 DEF Treated, Todo
<1> QED
  BY <1>1, <1>5

\* Each stage undoes its own bit, and passes on all that it was given.
LEMMA TestParse ==
  ASSUME WalkTyped, TestInv, pc2 = "walk", Sample!parse_node_process
  PROVE  WalkTyped' /\ TestInv' /\ UNCHANGED <<sample, pc2, helper>>
<1>0. {"parse_node", "classify_node", "forward_node"} \subseteq Sample!Nodes /\ count2 \in Nat
  BY DEF Sample!Nodes, WalkTyped
<1>1. /\ Sample!Call("testing", "parse_node") /\ data' = Sample!Flip("parse", stream2["parse_node"])
      /\ Sample!Becomes(Sample!Enqueue(Sample!Rest, "classify_node", stream2["parse_node"]))
      /\ UNCHANGED <<sample, pc2, made, count2, helper>>
  BY DEF Sample!parse_node_process, Sample!Stage, Sample!arcVars
<1>2. PICK h : /\ Becoming(h) /\ stream2'["parse_node"] = <<>>
               /\ stream2'["classify_node"] = stream2["classify_node"] \o stream2["parse_node"]
               /\ stream2'["forward_node"] = stream2["forward_node"]
  <2>1. PICK n \in Sample!Nodes, to \in Sample!Nodes : n = "parse_node" /\ to = "classify_node" /\ to # n
    BY <1>0
  <2>2. \E h : /\ Becoming(h) /\ stream2'[n] = <<>> /\ stream2'[to] = stream2[to] \o stream2[n]
               /\ \A m \in Sample!Nodes : m # n /\ m # to => stream2'[m] = stream2[m]
    BY <1>1, <2>1, HandsOn
  <2> QED
    BY <1>0, <2>1, <2>2
<1>3. calls' \in Seq(CallSet) /\ Sample!GivenIn(calls', "forward_node") = Sample!GivenIn(calls, "forward_node")
  BY <1>0, <1>1, CallFacts DEF CalledWith
<1>4. WalkTyped'
  BY <1>0, <1>1, <1>2, <1>3, Typed2 DEF WalkTyped
<1>5. PICK d \in 0 .. 3 : Phase(d)
  BY DEF TestInv
<1>6. made = Sample!BurstOf(count2) /\ DOMAIN data = 1 .. NumPkts /\ made \in Seq(Objects)
  BY DEF TestInv, WalkTyped
<1>7. CASE d = 0
  <2>1. stream2["parse_node"] = made /\ stream2["classify_node"] = <<>> /\ Treated(0)
    BY <1>5, <1>7 DEF Phase
  <2>2. DOMAIN data' = 1 .. NumPkts /\ Treated(1)'
    <3>1. data' = Sample!Flip("parse", Sample!BurstOf(count2))
      BY <1>1, <1>6, <2>1
    <3>2. DOMAIN data' = 1 .. NumPkts /\ Treated(0 + 1)'
      BY <1>0, <1>1, <1>6, <2>1, <3>1, FlipBurst
    <3> QED
      BY <3>2
  <2>3. stream2'["classify_node"] = made
    BY <1>2, <1>6, <2>1, ConcatEmptySeq
  <2>4. Phase(1)'
    BY <1>1, <1>2, <1>3, <1>5, <1>7, <2>2, <2>3 DEF Phase
  <2> QED
    BY <1>1, <1>4, <1>6, <2>2, <2>4 DEF TestInv
<1>8. CASE d # 0
  <2>1. stream2["parse_node"] = <<>> /\ Treated(d)
    BY <1>5, <1>8 DEF Phase
  <2>2. DOMAIN data' = 1 .. NumPkts /\ \A p \in 1 .. NumPkts : data'[p] = data[p]
    BY <1>1, <1>6, <2>1, FlipNothing
  <2>3. Treated(d)'
    BY <1>1, <2>1, <2>2 DEF Treated, Todo
  <2>4. stream2["classify_node"] \in Seq(Objects)
    BY <1>0, HadTyped
  <2>5. stream2'["classify_node"] = stream2["classify_node"]
    BY <1>2, <2>1, <2>4, ConcatEmptySeq
  <2>6. Phase(d)'
    BY <1>1, <1>2, <1>3, <1>5, <1>8, <2>3, <2>5 DEF Phase
  <2> QED
    BY <1>1, <1>4, <1>5, <1>6, <2>2, <2>6 DEF TestInv
<1> QED
  BY <1>7, <1>8

LEMMA TestClassify ==
  ASSUME WalkTyped, TestInv, pc2 = "walk", Sample!classify_node_process
  PROVE  WalkTyped' /\ TestInv' /\ UNCHANGED <<sample, pc2, helper>>
<1>0. {"parse_node", "classify_node", "forward_node"} \subseteq Sample!Nodes /\ count2 \in Nat
  BY DEF Sample!Nodes, WalkTyped
<1>1. /\ Sample!Call("testing", "classify_node") /\ data' = Sample!Flip("classify", stream2["classify_node"])
      /\ Sample!Becomes(Sample!Enqueue(Sample!Rest, "forward_node", stream2["classify_node"]))
      /\ UNCHANGED <<sample, pc2, made, count2, helper>>
  BY DEF Sample!classify_node_process, Sample!Stage, Sample!arcVars
<1>2. PICK h : /\ Becoming(h) /\ stream2'["classify_node"] = <<>>
               /\ stream2'["forward_node"] = stream2["forward_node"] \o stream2["classify_node"]
               /\ stream2'["parse_node"] = stream2["parse_node"]
  <2>1. PICK n \in Sample!Nodes, to \in Sample!Nodes : n = "classify_node" /\ to = "forward_node" /\ to # n
    BY <1>0
  <2>2. \E h : /\ Becoming(h) /\ stream2'[n] = <<>> /\ stream2'[to] = stream2[to] \o stream2[n]
               /\ \A m \in Sample!Nodes : m # n /\ m # to => stream2'[m] = stream2[m]
    BY <1>1, <2>1, HandsOn
  <2> QED
    BY <1>0, <2>1, <2>2
<1>3. calls' \in Seq(CallSet) /\ Sample!GivenIn(calls', "forward_node") = Sample!GivenIn(calls, "forward_node")
  BY <1>0, <1>1, CallFacts DEF CalledWith
<1>4. WalkTyped'
  BY <1>0, <1>1, <1>2, <1>3, Typed2 DEF WalkTyped
<1>5. PICK d \in 0 .. 3 : Phase(d)
  BY DEF TestInv
<1>6. made = Sample!BurstOf(count2) /\ DOMAIN data = 1 .. NumPkts /\ made \in Seq(Objects)
  BY DEF TestInv, WalkTyped
<1>7. CASE d = 1
  <2>1. stream2["classify_node"] = made /\ stream2["forward_node"] = <<>> /\ Treated(1)
    BY <1>5, <1>7 DEF Phase
  <2>2. DOMAIN data' = 1 .. NumPkts /\ Treated(2)'
    <3>1. data' = Sample!Flip("classify", Sample!BurstOf(count2))
      BY <1>1, <1>6, <2>1
    <3>2. DOMAIN data' = 1 .. NumPkts /\ Treated(1 + 1)'
      BY <1>0, <1>1, <1>6, <2>1, <3>1, FlipBurst
    <3> QED
      BY <3>2
  <2>3. stream2'["forward_node"] = made
    BY <1>2, <1>6, <2>1, ConcatEmptySeq
  <2>4. Phase(2)'
    BY <1>1, <1>2, <1>3, <1>5, <1>7, <2>2, <2>3 DEF Phase
  <2> QED
    BY <1>1, <1>4, <1>6, <2>2, <2>4 DEF TestInv
<1>8. CASE d # 1
  <2>1. stream2["classify_node"] = <<>> /\ Treated(d)
    BY <1>5, <1>8 DEF Phase
  <2>2. DOMAIN data' = 1 .. NumPkts /\ \A p \in 1 .. NumPkts : data'[p] = data[p]
    BY <1>1, <1>6, <2>1, FlipNothing
  <2>3. Treated(d)'
    BY <1>1, <2>1, <2>2 DEF Treated, Todo
  <2>4. stream2["forward_node"] \in Seq(Objects)
    BY <1>0, HadTyped
  <2>5. stream2'["forward_node"] = stream2["forward_node"]
    BY <1>2, <2>1, <2>4, ConcatEmptySeq
  <2>6. Phase(d)'
    BY <1>1, <1>2, <1>3, <1>5, <1>8, <2>3, <2>5 DEF Phase
  <2> QED
    BY <1>1, <1>4, <1>5, <1>6, <2>2, <2>6 DEF TestInv
<1> QED
  BY <1>7, <1>8

LEMMA TestForward ==
  ASSUME WalkTyped, TestInv, pc2 = "walk", Sample!forward_node_process
  PROVE  WalkTyped' /\ TestInv' /\ UNCHANGED <<sample, pc2, helper>>
<1>0. {"parse_node", "classify_node", "forward_node"} \subseteq Sample!Nodes /\ count2 \in Nat
  BY DEF Sample!Nodes, WalkTyped
<1>1. /\ Sample!Call("testing", "forward_node") /\ data' = Sample!Flip("forward", stream2["forward_node"])
      /\ Sample!Becomes(Sample!Rest)
      /\ UNCHANGED <<sample, pc2, made, count2, helper>>
  BY DEF Sample!forward_node_process, Sample!Stage, Sample!arcVars
<1>2. PICK h : /\ Becoming(h) /\ stream2'["forward_node"] = <<>>
               /\ stream2'["parse_node"] = stream2["parse_node"]
               /\ stream2'["classify_node"] = stream2["classify_node"]
  BY <1>0, <1>1, ReceiveFacts
<1>3. /\ calls' \in Seq(CallSet) /\ Sample!GivenIn(calls, "forward_node") \in Seq(Objects)
      /\ Sample!GivenIn(calls', "forward_node") = Sample!GivenIn(calls, "forward_node") \o stream2["forward_node"]
  BY <1>0, <1>1, CallFacts DEF CalledWith
<1>4. WalkTyped'
  BY <1>0, <1>1, <1>2, <1>3, Typed2 DEF WalkTyped
<1>5. PICK d \in 0 .. 3 : Phase(d)
  BY DEF TestInv
<1>6. made = Sample!BurstOf(count2) /\ DOMAIN data = 1 .. NumPkts /\ made \in Seq(Objects)
  BY DEF TestInv, WalkTyped
<1>7. CASE d = 2
  <2>1. stream2["forward_node"] = made /\ Sample!GivenIn(calls, "forward_node") = <<>> /\ Treated(2)
    BY <1>5, <1>7 DEF Phase
  <2>2. DOMAIN data' = 1 .. NumPkts /\ Treated(3)'
    <3>1. data' = Sample!Flip("forward", Sample!BurstOf(count2))
      BY <1>1, <1>6, <2>1
    <3>2. DOMAIN data' = 1 .. NumPkts /\ Treated(2 + 1)'
      BY <1>0, <1>1, <1>6, <2>1, <3>1, FlipBurst
    <3> QED
      BY <3>2
  <2>3. Sample!GivenIn(calls', "forward_node") = made
    BY <1>3, <1>6, <2>1, ConcatEmptySeq
  <2>4. Phase(3)'
    BY <1>1, <1>2, <1>5, <1>7, <2>2, <2>3 DEF Phase
  <2> QED
    BY <1>1, <1>4, <1>6, <2>2, <2>4 DEF TestInv
<1>8. CASE d # 2
  <2>1. stream2["forward_node"] = <<>> /\ Treated(d)
    BY <1>5, <1>8 DEF Phase
  <2>2. DOMAIN data' = 1 .. NumPkts /\ \A p \in 1 .. NumPkts : data'[p] = data[p]
    BY <1>1, <1>6, <2>1, FlipNothing
  <2>3. Treated(d)'
    BY <1>1, <2>1, <2>2 DEF Treated, Todo
  <2>4. Sample!GivenIn(calls', "forward_node") = Sample!GivenIn(calls, "forward_node")
    BY <1>3, <2>1, ConcatEmptySeq
  <2>5. Phase(d)'
    BY <1>1, <1>2, <1>5, <1>8, <2>3, <2>4 DEF Phase
  <2> QED
    BY <1>1, <1>4, <1>5, <1>6, <2>2, <2>5 DEF TestInv
<1> QED
  BY <1>7, <1>8

LEMMA TestStart ==
  ASSUME WalkTyped, TestInv, Sample!start_node_process
  PROVE  WalkTyped' /\ TestInv' /\ UNCHANGED <<sample, pc2, helper>> /\ pc2 = "walk"
<1>0. {"parse_node", "classify_node", "forward_node"} \subseteq Sample!Nodes /\ count2 \in Nat
  BY DEF Sample!Nodes, WalkTyped
<1>1. /\ pc2 = "walk" /\ Sample!Becomes(Sample!Enqueue(Sample!Graph, "parse_node", <<>>))
      /\ UNCHANGED <<sample, pc2, calls, made, count2, data, helper>>
  BY DEF Sample!start_node_process, Sample!CallSource, Sample!walkVars, Sample!arcVars
<1>2. PICK h : /\ Becoming(h) /\ stream2'["parse_node"] = stream2["parse_node"] \o <<>>
               /\ stream2'["classify_node"] = stream2["classify_node"]
               /\ stream2'["forward_node"] = stream2["forward_node"]
  BY <1>0, <1>1, Gives, SourceObjects
<1>3. stream2'["parse_node"] = stream2["parse_node"]
  <2>1. stream2["parse_node"] \in Seq(Objects)
    BY <1>0, HadTyped
  <2> QED
    BY <1>2, <2>1, ConcatEmptySeq
<1>4. WalkTyped'
  BY <1>0, <1>1, <1>2, Typed2 DEF WalkTyped
<1>5. PICK d \in 0 .. 3 : Phase(d)
  BY <1>1 DEF TestInv
<1>6. Phase(d)'
  BY <1>1, <1>2, <1>3, <1>5 DEF Phase, Treated, Todo
<1> QED
  BY <1>1, <1>4, <1>5, <1>6 DEF TestInv

LEMMA TestBegins ==
  ASSUME WalkTyped, Places2, sample = "testing", TestInv, Sample!BeginWalk
  PROVE  WalkTyped' /\ TestInv' /\ Places2'
<1>0. {"parse_node", "classify_node", "forward_node"} \subseteq Sample!Nodes /\ count2 \in Nat
  BY DEF Sample!Nodes, WalkTyped
<1>1. /\ pc2 = "test" /\ pc2' = "walk" /\ calls' = <<>> /\ made' = Sample!BurstOf(count2)
      /\ Sample!Becomes(Sample!Enqueue(Sample!Graph, "parse_node", Sample!BurstOf(count2)))
      /\ UNCHANGED <<sample, count2, data, helper>>
  BY DEF Sample!BeginWalk, Sample!arcVars
<1>2. pending2 = <<>>
  BY <1>1 DEF Places2
<1>3. \A n \in Sample!Nodes : stream2[n] = <<>>
  BY <1>2, NothingQueued DEF WalkTyped
<1>4. PICK new \in Seq(Objects) : new = Sample!BurstOf(count2)
  BY <1>0, SourceObjects
<1>5. PICK h : /\ Becoming(h) /\ stream2'["parse_node"] = stream2["parse_node"] \o new
               /\ \A m \in Sample!Nodes : m # "parse_node" => stream2'[m] = stream2[m]
  BY <1>0, <1>1, <1>4, Gives
<1>6. stream2'["parse_node"] = made' /\ stream2'["classify_node"] = <<>> /\ stream2'["forward_node"] = <<>>
  <2>1. <<>> \o new = new
    BY ConcatEmptySeq
  <2> QED
    BY <1>0, <1>1, <1>3, <1>4, <1>5, <2>1
<1>7. WalkTyped'
  BY <1>0, <1>1, <1>4, <1>5, Typed2, SourceObjects DEF WalkTyped
<1>8. Sample!GivenIn(calls', "forward_node") = <<>>
  BY <1>1, GivenNothing
<1>9. Treated(0)'
  BY <1>1 DEF TestInv, Treated, Todo
<1>10. Phase(0)'
  BY <1>6, <1>8, <1>9 DEF Phase
<1>11. 0 \in 0 .. 3
  OBVIOUS
<1>12. TestInv'
  BY <1>1, <1>10, <1>11 DEF TestInv
<1> QED
  BY <1>1, <1>7, <1>12 DEF Places2

LEMMA TestEnds ==
  ASSUME WalkTyped, sample = "testing", TestInv, Sample!EndWalk
  PROVE  TestInv'
<1>0. {"parse_node", "classify_node", "forward_node"} \subseteq Sample!Nodes /\ count2 \in Nat /\ Burst \in Nat /\ NumPkts \in Nat
  BY GraphFwAssumption, SampleAssumption DEF Sample!Nodes, WalkTyped
<1>1. /\ pc2 = "walk" /\ pc2' = "test" /\ pending2 = <<>> /\ count2' = count2 + Burst
      /\ UNCHANGED <<calls, made, data>>
  BY DEF Sample!EndWalk, Sample!walkVars
<1>2. PICK d \in 0 .. 3 : Phase(d)
  BY <1>1 DEF TestInv
<1>3. made # <<>>
  BY <1>0, <1>1, BurstSet DEF TestInv
<1>4. \A n \in Sample!Nodes : stream2[n] = <<>>
  BY <1>1, NothingQueued DEF WalkTyped
<1>5. stream2["parse_node"] = <<>> /\ stream2["classify_node"] = <<>> /\ stream2["forward_node"] = <<>>
  BY <1>0, <1>4
<1>6. d = 3
  BY <1>2, <1>3, <1>5 DEF Phase
<1>7. Sample!GivenIn(calls, "forward_node") = made /\ Treated(3)
  BY <1>2, <1>6 DEF Phase
<1>8. ASSUME NEW p \in 1 .. NumPkts PROVE data'[p] = IF p <= count2' THEN {} ELSE Sample!Stages
  <2>1. p \in Nat /\ (p <= count2 => p <= count2 + Burst)
    BY <1>0
  <2>2. data[p] = IF p <= count2 THEN {} ELSE IF p <= count2 + Burst THEN {} ELSE Sample!Stages
    BY <1>7 DEF Treated, Todo
  <2> QED
    BY <1>1, <2>1, <2>2
<1>9. DOMAIN data' = 1 .. NumPkts
  BY <1>1 DEF TestInv
<1> QED
  BY <1>1, <1>7, <1>8, <1>9 DEF TestInv

LEMMA TestStep ==
  ASSUME WalkTyped, Places2, sample = "testing", TestInv, Sample!main \/ Sample!HelperEnqueues \/ OfLoop
  PROVE  WalkTyped' /\ Places2' /\ TestInv'
<1>1. CASE OfLoop
  <2>1. WalkTyped' /\ Places2' /\ UNCHANGED <<stream2, calls, made, data>>
    BY <1>1, LoopSteps
  <2>2. CASE Sample!EndWalk
    BY <2>1, <2>2, TestEnds
  <2>3. CASE Sample!Exit
    <3>1. pc2 = "test" /\ pc2' = "done" /\ count2' = count2 /\ ~Sample!GoesOn
      BY <2>3 DEF Sample!Exit
    <3>2. NumPkts <= count2
      BY <3>1, SampleAssumption DEF Sample!GoesOn, Sample!testing_main, WalkTyped
    <3> QED
      BY <2>1, <3>1, <3>2 DEF TestInv
  <2>4. CASE Sample!signal_handler \/ UNCHANGED sampleVars
    <3>1. pc2' = pc2 /\ count2' = count2
      BY <2>4 DEF Sample!signal_handler, sampleVars
    <3>2. \A d : Phase(d) <=> Phase(d)'
      BY <2>1, <3>1 DEF Phase, Treated, Todo
    <3> QED
      BY <2>1, <3>1, <3>2 DEF TestInv
  <2> QED
    BY <1>1, <2>2, <2>3, <2>4 DEF OfLoop
<1>2. CASE Sample!BeginWalk
  BY <1>2, TestBegins
<1>3. CASE Sample!start_node_process
  BY <1>3, TestStart DEF Places2
<1>4. CASE Sample!parse_node_process \/ Sample!classify_node_process \/ Sample!forward_node_process
  <2>1. pc2 = "walk"
    BY <1>4 DEF Sample!parse_node_process, Sample!classify_node_process, Sample!forward_node_process, Sample!Stage, Sample!Call
  <2>2. WalkTyped' /\ TestInv' /\ UNCHANGED <<sample, pc2, helper>>
    BY <1>4, <2>1, TestParse, TestClassify, TestForward
  <2> QED
    BY <2>1, <2>2 DEF Places2
<1> QED
  <2>1. Sample!main => OfLoop \/ Sample!BeginWalk \/ Sample!start_node_process
                       \/ Sample!parse_node_process \/ Sample!classify_node_process \/ Sample!forward_node_process
    BY DEF OfLoop, Places2, Sample!main, Sample!two_start1_process, Sample!two_start2_process, Sample!produce, Sample!worker_process, Sample!rx_node_process, Sample!ipv4_node_process, Sample!tx_node_process, Sample!drop_node_process, Sample!start1_process, Sample!start2_process, Sample!start_process, Sample!work1_process, Sample!work2_process, Sample!sched_hello_process, Sample!sched_dummy_process, Sample!sample_hello_process, Sample!sample_dummy_process, Sample!arc_hello_process, Sample!HelloReturns, Sample!arc_dummy_process, Sample!CallSource, Sample!Call, Sample!Receive
  <2>2. ~Sample!HelperEnqueues
    BY DEF Places2, Sample!HelperEnqueues
  <2> QED
    BY <1>1, <1>2, <1>3, <1>4, <2>1, <2>2

-----------------------------------------------------------------------------
(* All small programs                                                      *)

\* What holds of each program between any two steps.
OwnInv ==
  CASE sample = "rx_drop_sample" -> RxInv
    [] sample = "testing" -> TestInv
    [] sample = "two_start_node" -> TwoInv
    [] sample = "two_start_with_worker" -> WorkInv
    [] sample = "node_sched" -> SchedInv
    [] sample = "sample" -> SampInv
    [] sample = "graph_arc" -> GraphArcInv

SampleInv == WalkTyped /\ Places2 /\ OwnInv

LEMMA SampleStep ==
  ASSUME SampleInv, Sample!main \/ Sample!HelperEnqueues \/ OfLoop
  PROVE  SampleInv'
<1>1. sample \in SampleNames /\ WalkTyped /\ Places2
  BY DEF SampleInv, Places2
<1>2. sample' = sample
  BY DEF OfLoop, sampleVars, Sample!EndWalk, Sample!Exit, Sample!signal_handler, Sample!HelperEnqueues, Sample!BeginWalk, Sample!main, Sample!two_start1_process, Sample!two_start2_process, Sample!produce, Sample!worker_process, Sample!rx_node_process, Sample!ipv4_node_process, Sample!tx_node_process, Sample!drop_node_process, Sample!start_node_process, Sample!parse_node_process, Sample!classify_node_process, Sample!forward_node_process, Sample!Stage, Sample!start1_process, Sample!start2_process, Sample!start_process, Sample!work1_process, Sample!work2_process, Sample!sched_hello_process, Sample!sched_dummy_process, Sample!sample_hello_process, Sample!sample_dummy_process, Sample!arc_hello_process, Sample!HelloReturns, Sample!arc_dummy_process, Sample!Receive
<1>3. CASE sample = "rx_drop_sample"
  <2>1. RxInv
    BY <1>3 DEF SampleInv, OwnInv
  <2>2. WalkTyped' /\ Places2' /\ RxInv'
    BY <1>1, <1>3, <2>1, RxStep
  <2> QED
    BY <1>2, <1>3, <2>2 DEF SampleInv, OwnInv
<1>4. CASE sample = "testing"
  <2>1. TestInv
    BY <1>4 DEF SampleInv, OwnInv
  <2>2. WalkTyped' /\ Places2' /\ TestInv'
    BY <1>1, <1>4, <2>1, TestStep
  <2> QED
    BY <1>2, <1>4, <2>2 DEF SampleInv, OwnInv
<1>5. CASE sample = "two_start_node"
  <2>1. TwoInv
    BY <1>5 DEF SampleInv, OwnInv
  <2>2. WalkTyped' /\ Places2' /\ TwoInv'
    BY <1>1, <1>5, <2>1, TwoStep
  <2> QED
    BY <1>2, <1>5, <2>2 DEF SampleInv, OwnInv
<1>6. CASE sample = "two_start_with_worker"
  <2>1. WorkInv
    BY <1>6 DEF SampleInv, OwnInv
  <2>2. WalkTyped' /\ Places2' /\ WorkInv'
    BY <1>1, <1>6, <2>1, WorkStep
  <2> QED
    BY <1>2, <1>6, <2>2 DEF SampleInv, OwnInv
<1>7. CASE sample = "node_sched"
  <2>1. SchedInv
    BY <1>7 DEF SampleInv, OwnInv
  <2>2. WalkTyped' /\ Places2' /\ SchedInv'
    BY <1>1, <1>7, <2>1, SchedStep
  <2> QED
    BY <1>2, <1>7, <2>2 DEF SampleInv, OwnInv
<1>8. CASE sample = "sample"
  <2>1. SampInv
    BY <1>8 DEF SampleInv, OwnInv
  <2>2. WalkTyped' /\ Places2' /\ SampInv'
    BY <1>1, <1>8, <2>1, SampStep
  <2> QED
    BY <1>2, <1>8, <2>2 DEF SampleInv, OwnInv
<1>9. CASE sample = "graph_arc"
  <2>1. GraphArcInv
    BY <1>9 DEF SampleInv, OwnInv
  <2>2. WalkTyped' /\ Places2' /\ GraphArcInv'
    BY <1>1, <1>9, <2>1, GraphArcStep
  <2> QED
    BY <1>2, <1>9, <2>2 DEF SampleInv, OwnInv
<1> QED
  BY <1>1, <1>3, <1>4, <1>5, <1>6, <1>7, <1>8, <1>9 DEF SampleNames

LEMMA SampleStarts == Sample!Init => SampleInv
<1> SUFFICES ASSUME Sample!Init PROVE SampleInv
  OBVIOUS
<1>1. /\ pc2 = "test" /\ left = {} /\ pending2 = <<>> /\ stream2 = [n \in Sample!Nodes |-> <<>>]
      /\ calls = <<>> /\ made = <<>> /\ count2 = 0 /\ quit2 = FALSE /\ helper = "none"
      /\ data = [p \in 1 .. NumPkts |-> IF sample = "testing" THEN Sample!Stages ELSE {}]
  BY DEF Sample!Init
<1>2. sample \in SampleNames
  BY DEF Sample!Init, Sample!Sources, SampleNames
<1>3. WalkTyped
  <2>1. <<>> \in Seq(Sample!Nodes) /\ <<>> \in Seq(Objects) /\ <<>> \in Seq(CallSet)
    BY EmptySeq
  <2>2. PICK g : g = Sample!Graph
    OBVIOUS
  <2>3. g.pending = <<>> /\ g.stream = [n \in Sample!Nodes |-> <<>>]
    BY <1>1, <2>2 DEF Sample!Graph
  <2>4. Queued(g)
    BY <2>1, <2>3 DEF Queued
  <2> QED
    BY <1>1, <2>1, <2>2, <2>4 DEF WalkTyped
<1>4. Places2
  BY <1>1, <1>2 DEF Places2
<1>5. \A n \in Sample!Nodes : stream2[n] = <<>> /\ Had(n) = <<>>
  <2> SUFFICES ASSUME NEW n \in Sample!Nodes PROVE stream2[n] = <<>> /\ Had(n) = <<>>
    OBVIOUS
  <2>1. stream2[n] = <<>>
    BY <1>1
  <2>2. Had(n) = Sample!GivenIn(<<>>, n) \o <<>>
    BY <1>1, <2>1 DEF Had
  <2>3. <<>> \o <<>> = <<>>
    BY EmptySeq, ConcatEmptySeq
  <2> QED
    BY <2>1, <2>2, <2>3, GivenNothing
<1>6. {"ipv4_node", "tx_node", "drop_node", "worker", "work1", "work2"} \subseteq Sample!Nodes
  BY DEF Sample!Nodes
<1>7. RxInv
  <2>1. Had("tx_node") = <<>> /\ Had("drop_node") = <<>> /\ stream2["ipv4_node"] = <<>>
    BY <1>5, <1>6
  <2> QED
    BY <1>1, <2>1 DEF RxInv, Unsorted
<1>8. TwoInv
  <2>1. Had("worker") = <<>>
    BY <1>5, <1>6
  <2> QED
    BY <1>1, <2>1, SampleAssumption DEF TwoInv
<1>9. WorkInv
  BY <1>1, SampleAssumption DEF WorkInv
<1>10. SchedInv /\ SampInv
  BY <1>1, SampleAssumption DEF SchedInv, SampInv
<1>11. GraphArcInv
  <2>1. ~Held
    BY <1>5 DEF Held
  <2>2. \A m : ~InQueue(pending2, m)
    BY <1>1, NobodyQueues
  <2> QED
    BY <1>1, <2>1, <2>2 DEF GraphArcInv
<1>12. sample = "testing" => TestInv
  <2> SUFFICES ASSUME sample = "testing" PROVE TestInv
    OBVIOUS
  <2>1. Sample!GivenIn(calls, "forward_node") = made
    BY <1>1, GivenNothing
  <2>2. DOMAIN data = 1 .. NumPkts
    BY <1>1
  <2>3. \A p \in 1 .. NumPkts : ~(p <= 0) /\ data[p] = Sample!Stages
    BY <1>1, SampleAssumption
  <2> QED
    BY <1>1, <2>1, <2>2, <2>3 DEF TestInv
<1> QED
  BY <1>2, <1>3, <1>4, <1>7, <1>8, <1>9, <1>10, <1>11, <1>12 DEF SampleInv, OwnInv, SampleNames

\* A walk that is over has left nothing, except for what the helper came with.
LEMMA WalkIsOver ==
  ASSUME SampleInv, Sample!WalkOver
  PROVE  /\ \A n \in Sample!Nodes : stream2[n] = <<>>
         /\ \A n \in Sample!Nodes : Had(n) = Sample!Given(n)
         /\ pending2 # <<>> => helper = "done"
<1>1. WalkTyped /\ Places2 /\ pc2 \in {"test", "done"}
  BY DEF SampleInv, Sample!WalkOver
<1>2. \A n \in Sample!Nodes : stream2[n] = <<>>
  <2>1. CASE sample # "graph_arc"
    BY <1>1, <2>1, NothingQueued DEF Places2, WalkTyped
  <2>2. CASE sample = "graph_arc"
    BY <2>2 DEF SampleInv, OwnInv, GraphArcInv, Held
  <2> QED
    BY <2>1, <2>2
<1>3. ASSUME NEW n \in Sample!Nodes PROVE Had(n) = Sample!Given(n)
  <2>1. PICK g \in Seq(Objects) : g = Sample!GivenIn(calls, n)
    BY <1>1, HadTyped
  <2>2. g \o <<>> = g
    BY <2>1, ConcatEmptySeq
  <2> QED
    BY <1>2, <2>1, <2>2 DEF Had, Sample!Given
<1>4. ASSUME pending2 # <<>> PROVE helper = "done"
  <2>1. sample = "graph_arc"
    BY <1>1, <1>4 DEF Places2
  <2>2. GraphArcInv /\ count2 \in Nat
    BY <1>1, <2>1 DEF SampleInv, OwnInv, WalkTyped
  <2>3. count2 > 0
    BY <1>4, <2>2 DEF GraphArcInv
  <2>4. PICK a \in Nat : a = Len(pending2) /\ a >= 1
    BY <1>1, <1>4, LenProperties, EmptySeq DEF WalkTyped, Queued, Sample!Graph
  <2>5. InQueue(pending2, pending2[1])
    BY <2>4 DEF InQueue
  <2>6. pending2[1] \in {"dummy_node", "dummy_node2"}
    BY <2>2, <2>5 DEF GraphArcInv
  <2>7. ~InQueue(pending2, "dummy_node") /\ (InQueue(pending2, "dummy_node2") => helper = "done")
    BY <1>1, <2>2, <2>3 DEF GraphArcInv
  <2> QED
    BY <2>5, <2>6, <2>7
<1> QED
  BY <1>2, <1>3, <1>4

LEMMA SampleSelected == ASSUME NEW s, NEW S PROVE Sample!Selected(s, S) = Selected(s, S)
BY DEF Sample!Selected, Selected

LEMMA SampleDelivers == SampleInv => Sample!WalkDelivers
<1> SUFFICES ASSUME SampleInv, Sample!WalkOver
             PROVE  /\ \A n \in Sample!Nodes : stream2[n] = <<>>
                    /\ pending2 # <<>> => helper = "done"
                    /\ sample = "rx_drop_sample" =>
                         /\ Sample!Given("tx_node") = Sample!Selected(made, IPv4Of(made))
                         /\ Sample!Given("drop_node") = Sample!Selected(made, OthersOf(made))
                    /\ sample = "testing" => Sample!Given("forward_node") = made
                    /\ sample = "two_start_node" => Sample!Given("worker") = made
                    /\ sample = "two_start_with_worker" /\ made # <<>> =>
                         Sample!Given("work1") = Sample!Numbers(0) /\ Sample!Given("work2") = Sample!Numbers(100)
  BY DEF Sample!WalkDelivers, IPv4Of, OthersOf
<1>1. /\ \A n \in Sample!Nodes : stream2[n] = <<>> /\ Had(n) = Sample!Given(n)
      /\ pending2 # <<>> => helper = "done"
  BY WalkIsOver
<1>2. {"ipv4_node", "tx_node", "drop_node", "worker", "work1", "work2"} \subseteq Sample!Nodes
  BY DEF Sample!Nodes
<1>3. pc2 # "walk"
  BY DEF Sample!WalkOver
<1>4. ASSUME sample = "rx_drop_sample"
      PROVE  /\ Sample!Given("tx_node") = Sample!Selected(made, IPv4Of(made))
             /\ Sample!Given("drop_node") = Sample!Selected(made, OthersOf(made))
  <2>1. RxInv
    BY <1>4 DEF SampleInv, OwnInv
  <2>2. CASE Unsorted
    <3>1. made = <<>> /\ Had("tx_node") = <<>> /\ Had("drop_node") = <<>>
      BY <1>1, <1>2, <2>2 DEF Unsorted
    <3> QED
      BY <1>1, <1>2, <3>1, SampleSelected, SelectedNothing
  <2>3. CASE SortedOut
    <3>1. Had("tx_node") = Selected(made, IPv4Of(made)) /\ Had("drop_node") = Selected(made, OthersOf(made))
      BY <2>3 DEF SortedOut
    <3> QED
      BY <1>1, <1>2, <3>1, SampleSelected
  <2> QED
    BY <2>1, <2>2, <2>3 DEF RxInv
<1>5. ASSUME sample = "testing" PROVE Sample!Given("forward_node") = made
  BY <1>3, <1>5 DEF SampleInv, OwnInv, TestInv, Sample!Given
<1>6. ASSUME sample = "two_start_node" PROVE Sample!Given("worker") = made
  BY <1>1, <1>2, <1>6 DEF SampleInv, OwnInv, TwoInv
<1>7. ASSUME sample = "two_start_with_worker", made # <<>>
      PROVE  Sample!Given("work1") = Sample!Numbers(0) /\ Sample!Given("work2") = Sample!Numbers(100)
  BY <1>1, <1>2, <1>3, <1>7 DEF SampleInv, OwnInv, WorkInv
<1> QED
  BY <1>1, <1>4, <1>5, <1>6, <1>7

LEMMA SampleCounts == SampleInv => Sample!CountsRight
<1> SUFFICES ASSUME SampleInv PROVE Sample!CountsRight
  OBVIOUS
<1>1. sample \in SampleNames /\ WalkTyped /\ Places2
  BY DEF SampleInv, Places2
<1>2. CASE sample = "two_start_node"
  BY <1>2 DEF SampleInv, OwnInv, TwoInv, Sample!CountsRight
<1>3. CASE sample = "testing"
  <2>1. TestInv
    BY <1>3 DEF SampleInv, OwnInv
  <2>2. ASSUME pc2 = "done", NEW p \in DOMAIN data PROVE data[p] = {}
    <3>1. p \in 1 .. NumPkts /\ NumPkts <= count2 /\ data[p] = IF p <= count2 THEN {} ELSE Sample!Stages
      BY <2>1, <2>2 DEF TestInv
    <3>2. p <= count2
      BY <1>1, <3>1, SampleAssumption DEF WalkTyped
    <3> QED
      BY <3>1, <3>2
  <2> QED
    BY <1>3, <2>2 DEF Sample!CountsRight
<1>4. CASE sample = "node_sched"
  <2>1. SchedInv
    BY <1>4 DEF SampleInv, OwnInv
  <2>2. ASSUME Sample!WalkOver, calls # <<>> PROVE Len(calls) = 1 /\ (Sample!Called("dummy_node") <=> count2 % 2 = 0)
    <3>1. OnlyCall(Turn)
      BY <2>1, <2>2 DEF SchedInv, Sample!WalkOver
    <3>2. Len(calls) = 1 /\ calls[1].node = Turn
      BY <3>1 DEF OnlyCall
    <3>3. DOMAIN calls = 1 .. 1
      BY <1>1, <3>2, LenProperties DEF WalkTyped
    <3>4. Sample!Called("dummy_node") <=> calls[1].node = "dummy_node"
      BY <3>3 DEF Sample!Called
    <3> QED
      BY <3>2, <3>4 DEF Turn
  <2> QED
    BY <1>4, <2>2 DEF Sample!CountsRight
<1>5. CASE sample = "sample"
  BY <1>5 DEF SampleInv, OwnInv, SampInv, Sample!CountsRight, Sample!WalkOver
<1>6. CASE sample = "graph_arc"
  <2>1. GraphArcInv /\ count2 \in Nat
    BY <1>1, <1>6 DEF SampleInv, OwnInv, WalkTyped
  <2>2. ASSUME pc2 = "done"
        PROVE  /\ Sample!Called("dummy_node") <=> OneSelects
               /\ Sample!Called("dummy_node2") => Sample!On(1)
               /\ TwoSelects => Sample!Called("dummy_node2")
    <3>1. count2 > 0
      BY <2>1, <2>2 DEF GraphArcInv
    <3>2. /\ HelloDone /\ ~InQueue(pending2, "dummy_node")
          /\ InQueue(pending2, "dummy_node2") => helper = "done"
      BY <2>1, <2>2, <3>1 DEF GraphArcInv
    <3>3. \A m : Sample!Called(m) <=> WasCalled(calls, m)
      BY DEF Sample!Called, WasCalled
    <3>4. TwoSelects => ~Sample!On(0)
      BY DEF TwoSelects, Sample!On, Sample!Off
    <3> QED
      BY <3>2, <3>3, <3>4 DEF HelloDone, Chosen
  <2>3. ASSUME pc2 = "crashed" PROVE Sample!On(0) /\ Sample!On(1)
    BY <2>1, <2>3 DEF GraphArcInv, HelloDone
  <2> QED
    BY <1>6, <2>2, <2>3 DEF Sample!CountsRight, OneSelects, TwoSelects
<1>7. CASE sample = "two_start_with_worker"
  BY <1>7 DEF SampleInv, OwnInv, WorkInv, Sample!CountsRight
<1>8. CASE sample = "rx_drop_sample"
  BY <1>8 DEF Sample!CountsRight
<1> QED
  BY <1>1, <1>2, <1>3, <1>4, <1>5, <1>6, <1>7, <1>8 DEF SampleNames

\* The small programs take their own steps only.
LEMMA SampleOnly == [NextAll]_allVars => Sample!main \/ Sample!HelperEnqueues \/ OfLoop
BY DEF NextAll, RunMain, RunCli, RunHelper, CallArc, Signal, OfLoop, allVars

\* Every walk delivers, for any burst size, number of packets and limit:
\* graph/pipeline conserves its packets, and each small program hands what came
\* in to its own last node, ends its loop at its count, and runs the nodes that
\* the counter or the features select, wherever the helper thread comes in.
THEOREM WalksDeliver == SpecAll => []WalkDelivers
<1>1. InitAll => PipeInv /\ SampleInv
  BY PipeStart, SampleStarts DEF InitAll
<1>2. PipeInv /\ SampleInv /\ [NextAll]_allVars => PipeInv' /\ SampleInv'
  BY PipeStep, PipeOnly, SampleStep, SampleOnly
<1>3. PipeInv /\ SampleInv => WalkDelivers
  BY PipeConserves, SampleDelivers, SampleCounts DEF WalkDelivers
<1> QED
  BY <1>1, <1>2, <1>3, PTL DEF SpecAll, NextAll

=============================================================================
