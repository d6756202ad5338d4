------------------------ MODULE MdnsResponder_proof ------------------------
(***************************************************************************)
(* That every control block that probes or announces has the packet that   *)
(* carries it on, for any services, interfaces and length of the queue.    *)
(* First folds, sequences and states; then what each operation on the net  *)
(* keeps; then the queue and the actions.                                  *)
(***************************************************************************)
EXTENDS MdnsResponder, FiniteSetTheorems, WellFoundedInduction, NaturalsInduction, TLAPS

-----------------------------------------------------------------------------
(* Numbers.                                                                *)

LEMMA LeastNumber ==
    ASSUME NEW S, S \subseteq Nat, S # {}
    PROVE  \E x \in S : \A y \in S : x <= y
<1> DEFINE R == OpToRel(<, Nat)
<1>1. IsWellFoundedOn(R, Nat)
  BY NatLessThanWellFounded, Zenon
<1>2. \A x, y \in Nat : <<x, y>> \notin R => y <= x
  <2>1. R = {p \in Nat \X Nat : p[1] < p[2]}
    BY DEF OpToRel
  <2> HIDE DEF R
  <2> QED
    BY <2>1, SMT
<1> HIDE DEF R
<1>3. PICK x \in S : \A y \in S : <<y, x>> \notin R
  BY <1>1, WFMin
<1> QED
  BY <1>2, <1>3

LEMMA CountUp ==
    ASSUME NEW Q, Q \subseteq Nat, 0 \in Q, \A n \in Nat : n \in Q => n + 1 \in Q
    PROVE  Q = Nat
<1> SUFFICES ASSUME Nat \ Q # {} PROVE FALSE
  OBVIOUS
<1>1. PICK x \in Nat \ Q : \A y \in Nat \ Q : x <= y
  BY LeastNumber
<1>2. x - 1 \in Nat /\ ~(x <= x - 1)
  BY <1>1
<1>3. x - 1 \in Q
  BY <1>1, <1>2
<1>4. (x - 1) + 1 = x
  BY <1>1
<1> QED
  BY <1>1, <1>2, <1>3, <1>4

LEMMA MinIs ==
    ASSUME NEW S, S \subseteq Nat, S # {}
    PROVE  Min(S) \in S /\ \A y \in S : Min(S) <= y
<1>1. \E x \in S : \A y \in S : x <= y
  BY LeastNumber
<1> QED
  BY <1>1 DEF Min

-----------------------------------------------------------------------------
(* Folds over finite sets: the recursive function of a fold exists, and    *)
(* what each of its turns carries on holds in the end.  T is the step, ch  *)
(* the choice of the next element.                                         *)

Runs(w, S, D, base, T, ch) ==
    \A s \in D : w[s] = IF s = {} THEN base ELSE T[<<ch[s], w[s \ {ch[s]}]>>]

UpTo(S, k) == {s \in SUBSET S : Cardinality(s) <= k}

LEMMA Smaller ==
    ASSUME NEW S, IsFiniteSet(S), NEW s \in SUBSET S, NEW x \in s
    PROVE  /\ IsFiniteSet(s) /\ Cardinality(s) \in Nat
           /\ s \ {x} \in SUBSET S /\ Cardinality(s \ {x}) = Cardinality(s) - 1
<1>1. IsFiniteSet(s) /\ Cardinality(s) \in Nat
  BY FS_Subset, FS_CardinalityType
<1>2. Cardinality(s \ {x}) = Cardinality(s) - 1
  BY <1>1, FS_RemoveElement
<1> QED
  BY <1>1, <1>2

LEMMA FoldExists ==
    ASSUME NEW S, IsFiniteSet(S), NEW V, NEW base \in V, NEW T \in [S \X V -> V],
           NEW ch, \A s \in SUBSET S : s # {} => ch[s] \in s
    PROVE  \E w \in [SUBSET S -> V] : Runs(w, S, SUBSET S, base, T, ch)
<1> DEFINE Q == {k \in Nat : \E w \in [UpTo(S, k) -> V] : Runs(w, S, UpTo(S, k), base, T, ch)}
<1>0. \A s \in SUBSET S : IsFiniteSet(s) /\ Cardinality(s) \in Nat
  BY FS_Subset, FS_CardinalityType
<1>1. 0 \in Q
  <2>1. \A s \in UpTo(S, 0) : s = {}
    BY <1>0, FS_EmptySet DEF UpTo
  <2> DEFINE w == [s \in UpTo(S, 0) |-> base]
  <2>2. w \in [UpTo(S, 0) -> V] /\ Runs(w, S, UpTo(S, 0), base, T, ch)
    BY <2>1 DEF Runs
  <2> QED
    BY <2>2
<1>2. ASSUME NEW k \in Nat, k \in Q PROVE k + 1 \in Q
  <2>1. PICK g \in [UpTo(S, k) -> V] : Runs(g, S, UpTo(S, k), base, T, ch)
    BY <1>2
  <2>2. \A s \in UpTo(S, k + 1) : s # {} => ch[s] \in S /\ s \ {ch[s]} \in UpTo(S, k)
    <3> SUFFICES ASSUME NEW s \in UpTo(S, k + 1), s # {}
                 PROVE  ch[s] \in S /\ s \ {ch[s]} \in UpTo(S, k)
      OBVIOUS
    <3>1. s \in SUBSET S /\ ch[s] \in s /\ Cardinality(s) <= k + 1
      BY DEF UpTo
    <3>2. Cardinality(s \ {ch[s]}) = Cardinality(s) - 1 /\ Cardinality(s) \in Nat
      BY <3>1, Smaller
    <3> QED
      BY <3>1, <3>2 DEF UpTo
  <2> DEFINE w == [s \in UpTo(S, k + 1) |->
                       IF s = {} THEN base ELSE T[<<ch[s], g[s \ {ch[s]}]>>]]
  <2>3. w \in [UpTo(S, k + 1) -> V]
    BY <2>2
  <2>4. \A s \in UpTo(S, k) : s \in UpTo(S, k + 1) /\ w[s] = g[s]
    <3>1. \A s \in UpTo(S, k) : s \in UpTo(S, k + 1)
      BY <1>0 DEF UpTo
    <3> QED
      BY <3>1, <2>1 DEF Runs
  <2>5. Runs(w, S, UpTo(S, k + 1), base, T, ch)
    <3> SUFFICES ASSUME NEW s \in UpTo(S, k + 1)
                 PROVE  w[s] = IF s = {} THEN base ELSE T[<<ch[s], w[s \ {ch[s]}]>>]
      BY DEF Runs
    <3>1. s # {} => w[s \ {ch[s]}] = g[s \ {ch[s]}]
      BY <2>2, <2>4
    <3> QED
      BY <3>1
  <2> HIDE DEF w
  <2> QED
    BY <2>3, <2>5
<1> HIDE DEF Q
<1>3. Q \subseteq Nat
  BY DEF Q
<1>4. Q = Nat
  BY <1>1, <1>2, <1>3, CountUp
<1>5. Cardinality(S) \in Nat /\ \A s \in SUBSET S : Cardinality(s) <= Cardinality(S)
  BY FS_Subset, FS_CardinalityType
<1>6. UpTo(S, Cardinality(S)) = SUBSET S
  BY <1>5 DEF UpTo
<1>7. Cardinality(S) \in Q
  BY <1>4, <1>5
<1>8. \E w \in [UpTo(S, Cardinality(S)) -> V] :
           Runs(w, S, UpTo(S, Cardinality(S)), base, T, ch)
  BY <1>7 DEF Q
<1> QED
  BY <1>6, <1>8

LEMMA FoldHolds ==
    ASSUME NEW S, IsFiniteSet(S), NEW it, NEW G, it[{}] \in G[{}],
           \A s \in SUBSET S : s # {} =>
               \E x \in s : it[s \ {x}] \in G[s \ {x}] => it[s] \in G[s]
    PROVE  it[S] \in G[S]
<1> DEFINE Q == {k \in Nat : \A s \in UpTo(S, k) : it[s] \in G[s]}
<1>0. \A s \in SUBSET S : IsFiniteSet(s) /\ Cardinality(s) \in Nat
  BY FS_Subset, FS_CardinalityType
<1>1. 0 \in Q
  <2>1. \A s \in UpTo(S, 0) : s = {}
    BY <1>0, FS_EmptySet DEF UpTo
  <2> QED
    BY <2>1
<1>2. ASSUME NEW k \in Nat, k \in Q PROVE k + 1 \in Q
  <2> SUFFICES ASSUME NEW s \in UpTo(S, k + 1), s # {} PROVE it[s] \in G[s]
    OBVIOUS
  <2>1. s \in SUBSET S /\ Cardinality(s) <= k + 1
    BY DEF UpTo
  <2>2. PICK x \in s : it[s \ {x}] \in G[s \ {x}] => it[s] \in G[s]
    BY <2>1
  <2>3. s \ {x} \in UpTo(S, k)
    BY <2>1, Smaller DEF UpTo
  <2> QED
    BY <1>2, <2>2, <2>3
<1> HIDE DEF Q
<1>3. Q \subseteq Nat
  BY DEF Q
<1>4. Q = Nat
  BY <1>1, <1>2, <1>3, CountUp
<1>5. Cardinality(S) \in Nat /\ S \in UpTo(S, Cardinality(S))
  BY <1>0 DEF UpTo
<1>6. Cardinality(S) \in Q
  BY <1>4, <1>5
<1> QED
  BY <1>5, <1>6 DEF Q

-----------------------------------------------------------------------------
(* Sequences: what is taken out of the queued packets leaves the others in *)
(* their order.                                                            *)

LEMMA InOrderSame == \A a : InOrder(a, a)
<1> SUFFICES ASSUME NEW a PROVE InOrder(a, a)
  OBVIOUS
<1> DEFINE at == [k \in DOMAIN a |-> k]
<1>1. at \in [DOMAIN a -> DOMAIN a]
  OBVIOUS
<1>2. \A k \in DOMAIN a : a[at[k]] = a[k]
  OBVIOUS
<1>3. \A j, k \in DOMAIN a : j < k => at[j] < at[k]
  OBVIOUS
<1> HIDE DEF at
<1> QED
  BY <1>1, <1>2, <1>3 DEF InOrder

LEMMA InOrderChain ==
    ASSUME NEW a, NEW b, NEW c, InOrder(a, b), InOrder(b, c)
    PROVE  InOrder(a, c)
<1>1. PICK f \in [DOMAIN a -> DOMAIN b] :
           /\ \A k \in DOMAIN a : b[f[k]] = a[k]
           /\ \A j, k \in DOMAIN a : j < k => f[j] < f[k]
  BY DEF InOrder
<1>2. PICK g \in [DOMAIN b -> DOMAIN c] :
           /\ \A k \in DOMAIN b : c[g[k]] = b[k]
           /\ \A j, k \in DOMAIN b : j < k => g[j] < g[k]
  BY DEF InOrder
<1> DEFINE h == [k \in DOMAIN a |-> g[f[k]]]
<1>3. h \in [DOMAIN a -> DOMAIN c]
  OBVIOUS
<1>4. \A k \in DOMAIN a : c[h[k]] = a[k]
  BY <1>1, <1>2
<1>5. \A j, k \in DOMAIN a : j < k => h[j] < h[k]
  BY <1>1, <1>2
<1> HIDE DEF h
<1> QED
  BY <1>3, <1>4, <1>5 DEF InOrder

(* The order of what is queued is the order of the transmit actions.       *)
LEMMA TransmitsInOrder ==
    ASSUME NEW a, NEW b, InOrder(a, b)
    PROVE  InOrder(Transmits(a), Transmits(b))
<1>1. PICK f \in [DOMAIN a -> DOMAIN b] :
           /\ \A k \in DOMAIN a : b[f[k]] = a[k]
           /\ \A j, k \in DOMAIN a : j < k => f[j] < f[k]
  BY DEF InOrder
<1>2. DOMAIN Transmits(a) = DOMAIN a /\ DOMAIN Transmits(b) = DOMAIN b
  BY DEF Transmits
<1>3. \A k \in DOMAIN a : Transmits(b)[f[k]] = Transmits(a)[k]
  BY <1>1 DEF Transmits
<1> QED
  BY <1>1, <1>2, <1>3 DEF InOrder

LEMMA TailInOrder ==
    ASSUME NEW X, NEW s \in Seq(X), s # << >>
    PROVE  InOrder(Tail(s), s)
<1> DEFINE at == [k \in DOMAIN Tail(s) |-> k + 1]
<1>1. Len(s) \in Nat /\ Len(s) >= 1 /\ DOMAIN s = 1 .. Len(s)
  OBVIOUS
<1>2. DOMAIN Tail(s) = 1 .. Len(s) - 1 /\ \A k \in 1 .. Len(s) - 1 : Tail(s)[k] = s[k + 1]
  BY <1>1
<1>3. at \in [DOMAIN Tail(s) -> DOMAIN s]
  BY <1>1, <1>2
<1>4. \A k \in DOMAIN Tail(s) : s[at[k]] = Tail(s)[k]
  BY <1>2
<1>5. \A j, k \in DOMAIN Tail(s) : j < k => at[j] < at[k]
  BY <1>2
<1> HIDE DEF at
<1> QED
  BY <1>3, <1>4, <1>5 DEF InOrder

(* The elements of d are in kept and occur in s, at places in P, in order. *)
Picked(d, s, kept, P) ==
    \E at \in [DOMAIN d -> P] :
        /\ \A k \in DOMAIN d : s[at[k]] = d[k] /\ d[k] \in kept
        /\ \A j, k \in DOMAIN d : j < k => at[j] < at[k]

LEMMA PickOne ==
    ASSUME NEW X, NEW d \in Seq(X), NEW s \in Seq(X), NEW kept, NEW P \in SUBSET DOMAIN s,
           NEW m \in P, \A x \in P : x <= m, Picked(d, s, kept, P \ {m})
    PROVE  LET e == IF s[m] \in kept THEN Append(d, s[m]) ELSE d
           IN  e \in Seq(X) /\ Picked(e, s, kept, P)
<1>0. DOMAIN s \subseteq Nat /\ s[m] \in X /\ DOMAIN d = 1 .. Len(d) /\ Len(d) \in Nat
  OBVIOUS
<1>1. PICK at \in [DOMAIN d -> P \ {m}] :
           /\ \A k \in DOMAIN d : s[at[k]] = d[k] /\ d[k] \in kept
           /\ \A j, k \in DOMAIN d : j < k => at[j] < at[k]
  BY DEF Picked
<1>2. CASE s[m] \notin kept
  <2>1. at \in [DOMAIN d -> P]
    OBVIOUS
  <2>2. Picked(d, s, kept, P)
    BY <1>1, <2>1 DEF Picked
  <2> QED
    BY <1>2, <2>2
<1>3. CASE s[m] \in kept
  <2> DEFINE e == Append(d, s[m])
             new == [k \in 1 .. Len(d) + 1 |-> IF k = Len(d) + 1 THEN m ELSE at[k]]
  <2>1. e \in Seq(X) /\ DOMAIN e = 1 .. Len(d) + 1 /\ e[Len(d) + 1] = s[m]
    BY <1>0
  <2>2. \A k \in DOMAIN d : e[k] = d[k] /\ k # Len(d) + 1 /\ k \in 1 .. Len(d) + 1
    BY <1>0
  <2>3. \A k \in 1 .. Len(d) + 1 : k \in DOMAIN d \/ k = Len(d) + 1
    BY <1>0
  <2>4. \A k \in DOMAIN d : at[k] \in P /\ at[k] < m /\ new[k] = at[k]
    BY <1>0, <2>2
  <2>5. new[Len(d) + 1] = m
    BY <1>0
  <2>6. new \in [DOMAIN e -> P]
    BY <2>1, <2>3, <2>4
  <2> HIDE DEF e, new
  <2>7. \A k \in DOMAIN e : s[new[k]] = e[k] /\ e[k] \in kept
    BY <1>1, <1>3, <2>1, <2>2, <2>3, <2>4, <2>5
  <2>8. \A j, k \in DOMAIN e : j < k => new[j] < new[k]
    <3> SUFFICES ASSUME NEW j \in DOMAIN e, NEW k \in DOMAIN e, j < k
                 PROVE  new[j] < new[k]
      OBVIOUS
    <3>1. j \in DOMAIN d
      BY <1>0, <2>1, <2>3
    <3>2. CASE k = Len(d) + 1
      BY <2>4, <2>5, <3>1, <3>2
    <3>3. CASE k \in DOMAIN d
      BY <1>1, <2>4, <3>1, <3>3
    <3> QED
      BY <2>1, <2>3, <3>2, <3>3
  <2>9. Picked(e, s, kept, P)
    BY <2>6, <2>7, <2>8 DEF Picked
  <2> QED
    BY <1>3, <2>1, <2>9 DEF e
<1> QED
  BY <1>2, <1>3

LEMMA MaxIs ==
    ASSUME NEW n \in Nat, NEW S, S \subseteq 1 .. n, S # {}
    PROVE  Max(S) \in S /\ \A y \in S : y <= Max(S)
<1> DEFINE D == {n - x : x \in S}
<1>0. \A x \in S : x \in Nat /\ n - x \in Nat
  BY SMT
<1>1. D \subseteq Nat /\ D # {}
  BY <1>0
<1>2. PICK d \in D : \A y \in D : d <= y
  BY <1>1, LeastNumber
<1>3. PICK x \in S : d = n - x
  BY <1>2
<1>4. \A y \in S : n - y \in D
  OBVIOUS
<1> HIDE DEF D
<1>5. \A y \in S : x >= y
  BY <1>0, <1>2, <1>3, <1>4
<1>6. Max(S) \in S /\ \A y \in S : Max(S) >= y
  BY <1>3, <1>5 DEF Max
<1> QED
  BY <1>6

LEMMA KeepDueIs ==
    ASSUME NEW X, NEW due \in Seq(X), NEW kept
    PROVE  KeepDue(due, kept) \in Seq(X) /\ Picked(KeepDue(due, kept), due, kept, DOMAIN due)
<1> DEFINE S == DOMAIN due
           Turn(i, d) == IF due[i] \in kept THEN Append(d, due[i]) ELSE d
           ch == [s \in SUBSET S |-> Max(s)]
           T == [c \in S \X Seq(X) |-> Turn(c[1], c[2])]
           Eq(w) == w = [s \in SUBSET S |->
                            IF s = {} THEN << >> ELSE Turn(Max(s), w[s \ {Max(s)}])]
           it == CHOOSE w : Eq(w)
           G == [s \in SUBSET S |-> {d \in Seq(X) : Picked(d, due, kept, s)}]
<1>1. Len(due) \in Nat /\ S = 1 .. Len(due) /\ \A i \in S : due[i] \in X
  OBVIOUS
<1>2. IsFiniteSet(S)
  BY <1>1, FS_Interval
<1>3. \A s \in SUBSET S : s # {} => Max(s) \in s /\ \A y \in s : y <= Max(s)
  BY <1>1, MaxIs
<1>4. KeepDue(due, kept) = it[S]
  BY Zenon DEF KeepDue, FoldLeft, MapThenFoldSet
<1>5. T \in [S \X Seq(X) -> Seq(X)]
  BY <1>1
<1>6. \A i \in S, d \in Seq(X) : T[<<i, d>>] = Turn(i, d)
  OBVIOUS
<1>7. \A s \in SUBSET S : ch[s] = Max(s)
  OBVIOUS
<1> HIDE DEF T, ch
<1>8. PICK w \in [SUBSET S -> Seq(X)] : Runs(w, S, SUBSET S, << >>, T, ch)
  <2>1. << >> \in Seq(X) /\ \A s \in SUBSET S : s # {} => ch[s] \in s
    BY <1>3, <1>7
  <2> QED
    BY <1>2, <1>5, <2>1, FoldExists
<1>9. \A s \in SUBSET S : s # {} => T[<<ch[s], w[s \ {ch[s]}]>>] = Turn(Max(s), w[s \ {Max(s)}])
  <2> SUFFICES ASSUME NEW s \in SUBSET S, s # {}
               PROVE  T[<<ch[s], w[s \ {ch[s]}]>>] = Turn(Max(s), w[s \ {Max(s)}])
    OBVIOUS
  <2>1. ch[s] = Max(s) /\ Max(s) \in S /\ w[s \ {Max(s)}] \in Seq(X)
    BY <1>3, <1>7
  <2> QED
    BY <1>6, <2>1
<1>10. Eq(w)
  <2>1. w = [s \in SUBSET S |-> w[s]]
    OBVIOUS
  <2>2. \A s \in SUBSET S : w[s] = IF s = {} THEN << >> ELSE Turn(Max(s), w[s \ {Max(s)}])
    BY <1>8, <1>9 DEF Runs
  <2> HIDE DEF Turn
  <2> QED
    BY <2>1, <2>2
<1>11. Eq(it)
  <2> HIDE DEF Eq
  <2> QED
    BY <1>10, Zenon
<1> HIDE DEF it
<1>12. \A s \in SUBSET S : it[s] = IF s = {} THEN << >> ELSE Turn(Max(s), it[s \ {Max(s)}])
  <2> HIDE DEF Turn
  <2> QED
    BY <1>11
<1>13. it[{}] \in G[{}]
  <2>0. it[{}] = << >>
    BY <1>12
  <2>1. DOMAIN << >> = {}
    OBVIOUS
  <2> DEFINE none == [k \in {} |-> k]
  <2>2. none \in [{} -> {}]
    OBVIOUS
  <2> HIDE DEF none
  <2>3. Picked(<< >>, due, kept, {})
    BY <2>1, <2>2 DEF Picked
  <2> QED
    BY <2>0, <2>3
<1>14. \A s \in SUBSET S : s # {} =>
            \E x \in s : it[s \ {x}] \in G[s \ {x}] => it[s] \in G[s]
  <2> SUFFICES ASSUME NEW s \in SUBSET S, s # {}
               PROVE  \E x \in s : it[s \ {x}] \in G[s \ {x}] => it[s] \in G[s]
    OBVIOUS
  <2> DEFINE m == Max(s)
             d == it[s \ {m}]
  <2>1. m \in s /\ \A y \in s : y <= m
    BY <1>3
  <2>2. it[s] = Turn(m, d)
    BY <1>12
  <2> HIDE DEF m, d
  <2>3. ASSUME d \in Seq(X), Picked(d, due, kept, s \ {m})
        PROVE  it[s] \in Seq(X) /\ Picked(it[s], due, kept, s)
    BY <2>1, <2>2, <2>3, PickOne
  <2>4. s \ {m} \in SUBSET S
    OBVIOUS
  <2>5. d \in G[s \ {m}] => it[s] \in G[s]
    BY <2>3, <2>4
  <2> QED
    BY <2>1, <2>5 DEF d
<1> HIDE DEF G
<1>15. it[S] \in G[S]
  BY <1>2, <1>13, <1>14, FoldHolds
<1> QED
  BY <1>4, <1>15 DEF G

-----------------------------------------------------------------------------
(* The states of a control block.                                          *)

ProbeNames == {"PROBE_1", "PROBE_2", "PROBE_3"}
AnnounceNames == {"ANNOUNCE_1", "ANNOUNCE_2", "ANNOUNCE_3"}
OffNames == {"OFF", "DUP", "INIT"}
StateNames == OffNames \cup ProbeNames \cup AnnounceNames \cup {"RUNNING"}

LEMMA RangesAre ==
    /\ Range(Probes) = ProbeNames /\ Range(Announces) = AnnounceNames
    /\ Range(States) = StateNames
<1>1. Range(Probes) = ProbeNames
  <2>1. DOMAIN Probes = {1, 2, 3} /\ Probes[1] = "PROBE_1" /\ Probes[2] = "PROBE_2"
             /\ Probes[3] = "PROBE_3"
    BY DEF Probes
  <2> QED
    BY <2>1 DEF Range, ProbeNames
<1>2. Range(Announces) = AnnounceNames
  <2>1. DOMAIN Announces = {1, 2, 3} /\ Announces[1] = "ANNOUNCE_1"
             /\ Announces[2] = "ANNOUNCE_2" /\ Announces[3] = "ANNOUNCE_3"
    BY DEF Announces
  <2> QED
    BY <2>1 DEF Range, AnnounceNames
<1>3. DOMAIN States = 1 .. 10 /\ Len(States) = 10
  BY DEF States, Probes, Announces
<1>4. /\ States[1] = "OFF" /\ States[2] = "DUP" /\ States[3] = "INIT"
      /\ States[4] = "PROBE_1" /\ States[5] = "PROBE_2" /\ States[6] = "PROBE_3"
      /\ States[7] = "ANNOUNCE_1" /\ States[8] = "ANNOUNCE_2" /\ States[9] = "ANNOUNCE_3"
      /\ States[10] = "RUNNING"
  BY DEF States, Probes, Announces
<1>5. Range(States) = StateNames
  <2>1. 1 .. 10 = {1, 2, 3, 4, 5, 6, 7, 8, 9, 10}
    BY SMT
  <2> QED
    BY <1>3, <1>4, <2>1 DEF Range, StateNames, OffNames, ProbeNames, AnnounceNames
<1> QED
  BY <1>1, <1>2, <1>5

LEMMA Successors ==
    /\ Successor("PROBE_1") = "PROBE_2" /\ Successor("PROBE_2") = "PROBE_3"
    /\ Successor("PROBE_3") = "ANNOUNCE_1" /\ Successor("ANNOUNCE_1") = "ANNOUNCE_2"
    /\ Successor("ANNOUNCE_2") = "ANNOUNCE_3" /\ Successor("ANNOUNCE_3") = "RUNNING"
<1>1. DOMAIN States = 1 .. 10
  BY DEF States, Probes, Announces
<1>2. /\ States[1] = "OFF" /\ States[2] = "DUP" /\ States[3] = "INIT"
      /\ States[4] = "PROBE_1" /\ States[5] = "PROBE_2" /\ States[6] = "PROBE_3"
      /\ States[7] = "ANNOUNCE_1" /\ States[8] = "ANNOUNCE_2" /\ States[9] = "ANNOUNCE_3"
      /\ States[10] = "RUNNING"
  BY DEF States, Probes, Announces
<1>3. 1 .. 10 = {1, 2, 3, 4, 5, 6, 7, 8, 9, 10}
  BY SMT
<1>4. ASSUME NEW k \in DOMAIN States
      PROVE  Successor(States[k]) = States[k + 1]
  <2>1. \A i \in DOMAIN States : States[i] = States[k] => i = k
    BY <1>1, <1>2, <1>3
  <2>2. (CHOOSE i \in DOMAIN States : States[i] = States[k]) = k
    BY <2>1
  <2> QED
    BY <2>2 DEF Successor
<1>5. /\ Successor(States[4]) = States[5] /\ Successor(States[5]) = States[6]
      /\ Successor(States[6]) = States[7] /\ Successor(States[7]) = States[8]
      /\ Successor(States[8]) = States[9] /\ Successor(States[9]) = States[10]
  BY <1>1, <1>3, <1>4
<1> QED
  BY <1>2, <1>5

-----------------------------------------------------------------------------
(* The net: types, and what a net record is after a field is assigned.     *)

PcbStates == [state : StateNames, ready : BOOLEAN, probe : SUBSET Services,
              ip : BOOLEAN, running : BOOLEAN]

Tables == UNION {[D -> Packets] : D \in {E \in SUBSET Nat : IsFiniteSet(E)}}

Nets == [services : SUBSET Services, own : SUBSET Services, named : BOOLEAN,
         titled : BOOLEAN, pcb : [Pcbs -> PcbStates], tx : Tables, due : Seq(Nat)]

LEMMA TableIs ==
    \A t : t \in Tables <=> /\ t = [i \in DOMAIN t |-> t[i]]
                            /\ DOMAIN t \in SUBSET Nat /\ IsFiniteSet(DOMAIN t)
                            /\ \A i \in DOMAIN t : t[i] \in Packets
<1>1. \A t : t \in Tables => /\ t = [i \in DOMAIN t |-> t[i]]
                             /\ DOMAIN t \in SUBSET Nat /\ IsFiniteSet(DOMAIN t)
                             /\ \A i \in DOMAIN t : t[i] \in Packets
  <2> SUFFICES ASSUME NEW t \in Tables
               PROVE  /\ t = [i \in DOMAIN t |-> t[i]]
                      /\ DOMAIN t \in SUBSET Nat /\ IsFiniteSet(DOMAIN t)
                      /\ \A i \in DOMAIN t : t[i] \in Packets
    OBVIOUS
  <2>1. PICK D \in SUBSET Nat : IsFiniteSet(D) /\ t \in [D -> Packets]
    BY DEF Tables
  <2>2. DOMAIN t = D
    BY <2>1
  <2> QED
    BY <2>1, <2>2
<1>2. ASSUME NEW t, t = [i \in DOMAIN t |-> t[i]], DOMAIN t \in SUBSET Nat,
             IsFiniteSet(DOMAIN t), \A i \in DOMAIN t : t[i] \in Packets
      PROVE  t \in Tables
  <2>1. t \in [DOMAIN t -> Packets]
    BY <1>2
  <2> QED
    BY <1>2, <2>1 DEF Tables
<1> QED
  BY <1>1, <1>2

WithPackets(n, t, d) == [n EXCEPT !.tx = t, !.due = d]
WithPcb(n, p, b) == [n EXCEPT !.pcb[p] = b]

LEMMA WithPacketsIs ==
    ASSUME NEW n \in Nets, NEW t \in Tables, NEW d \in Seq(Nat)
    PROVE  LET m == WithPackets(n, t, d) IN
           /\ m \in Nets /\ m.services = n.services /\ m.own = n.own /\ m.named = n.named
           /\ m.titled = n.titled /\ m.pcb = n.pcb /\ m.tx = t /\ m.due = d
  BY DEF Nets, WithPackets

LEMMA WithPcbIs ==
    ASSUME NEW n \in Nets, NEW p \in Pcbs, NEW b \in PcbStates
    PROVE  LET m == WithPcb(n, p, b) IN
           /\ m \in Nets /\ m.services = n.services /\ m.own = n.own /\ m.named = n.named
           /\ m.titled = n.titled /\ m.tx = n.tx /\ m.due = n.due
           /\ m.pcb[p] = b /\ \A q \in Pcbs : q # p => m.pcb[q] = n.pcb[q]
<1>1. [n.pcb EXCEPT ![p] = b] \in [Pcbs -> PcbStates]
  BY DEF Nets
<1>2. /\ [n.pcb EXCEPT ![p] = b][p] = b
      /\ \A q \in Pcbs : q # p => [n.pcb EXCEPT ![p] = b][q] = n.pcb[q]
  BY DEF Nets
<1> DEFINE f == [n.pcb EXCEPT ![p] = b]
<1>3. WithPcb(n, p, b) = [n EXCEPT !.pcb = f]
  BY DEF WithPcb
<1> HIDE DEF f
<1>4. f \in [Pcbs -> PcbStates] /\ f[p] = b /\ \A q \in Pcbs : q # p => f[q] = n.pcb[q]
  BY <1>1, <1>2 DEF f
<1> QED
  BY <1>3, <1>4 DEF Nets
-----------------------------------------------------------------------------
(* Scheduling and dropping packets.                                        *)

Named(n) == <<n.services, n.own, n.named, n.titled>>

(* m comes from n by dropping the packets outside kept.                    *)
Dropped(n, m, kept) ==
    /\ m \in Nets /\ Named(m) = Named(n) /\ m.pcb = n.pcb
    /\ DOMAIN m.tx = kept /\ \A i \in kept : m.tx[i] = n.tx[i]
    /\ Range(m.due) \subseteq kept /\ InOrder(m.due, n.due)

(* m comes from n by scheduling packet q at address a.                     *)
Added(n, m, a, q) ==
    /\ m \in Nets /\ Named(m) = Named(n) /\ m.pcb = n.pcb /\ m.due = n.due
    /\ a \notin DOMAIN n.tx /\ DOMAIN m.tx = DOMAIN n.tx \cup {a}
    /\ m.tx[a] = q /\ \A i \in DOMAIN n.tx : m.tx[i] = n.tx[i]

LEMMA KeepTxIs ==
    ASSUME NEW n \in Nets, NEW kept \in SUBSET DOMAIN n.tx
    PROVE  Dropped(n, KeepTx(n, kept), kept)
<1> DEFINE t == Restrict(n.tx, kept)
           d == KeepDue(n.due, kept)
<1>1. n.tx \in Tables /\ n.due \in Seq(Nat)
  BY DEF Nets
<1>2. DOMAIN t = kept /\ \A i \in kept : t[i] = n.tx[i]
  BY DEF Restrict
<1>3. t \in Tables
  <2>1. DOMAIN t \in SUBSET Nat /\ IsFiniteSet(DOMAIN t)
    BY <1>1, <1>2, TableIs, FS_Subset
  <2>2. \A i \in DOMAIN t : t[i] \in Packets
    BY <1>1, <1>2, TableIs
  <2>3. t = [i \in DOMAIN t |-> t[i]]
    BY DEF Restrict
  <2> HIDE DEF t
  <2> QED
    BY <2>1, <2>2, <2>3, TableIs
<1>4. d \in Seq(Nat) /\ Picked(d, n.due, kept, DOMAIN n.due)
  BY <1>1, KeepDueIs
<1>5. KeepTx(n, kept) = WithPackets(n, t, d)
  BY Zenon DEF KeepTx, WithPackets
<1> HIDE DEF t, d
<1>6. Range(d) \subseteq kept
  BY <1>4 DEF Range, Picked
<1>7. InOrder(d, n.due)
  BY <1>4 DEF Picked, InOrder
<1>8. Dropped(n, WithPackets(n, t, d), kept)
  BY <1>2, <1>3, <1>4, <1>6, <1>7, WithPacketsIs DEF Dropped, Named
<1> QED
  BY <1>5, <1>8

LEMMA FreeAddressIs ==
    ASSUME NEW n \in Nets
    PROVE  FreeAddress(n) \in Nat /\ FreeAddress(n) \notin DOMAIN n.tx
<1> DEFINE D == DOMAIN n.tx
           k == Cardinality(D) + 1
<1>1. n.tx \in Tables
  BY DEF Nets
<1>2. D \subseteq Nat /\ IsFiniteSet(D) /\ Cardinality(D) \in Nat
  BY <1>1, TableIs, FS_CardinalityType
<1>3. Cardinality(1 .. k) = k /\ IsFiniteSet(1 .. k)
  <2>1. k \in Int /\ k >= 1 /\ 1 \in Int
    BY <1>2
  <2> HIDE DEF k
  <2>2. IsFiniteSet(1 .. k) /\ Cardinality(1 .. k) = IF 1 > k THEN 0 ELSE k - 1 + 1
    BY <2>1, FS_Interval, Zenon
  <2> QED
    BY <2>1, <2>2
<1>4. (1 .. k) \ D # {}
  <2> SUFFICES ASSUME 1 .. k \subseteq D PROVE FALSE
    OBVIOUS
  <2>1. Cardinality(1 .. k) <= Cardinality(D)
    BY <1>2, FS_Subset
  <2> QED
    BY <1>2, <1>3, <2>1
<1>5. (1 .. k) \ D \subseteq Nat
  BY <1>2
<1>6. Min((1 .. k) \ D) \in (1 .. k) \ D
  BY <1>4, <1>5, MinIs
<1>7. FreeAddress(n) = Min((1 .. k) \ D)
  BY DEF FreeAddress
<1> QED
  BY <1>5, <1>6, <1>7

LEMMA ScheduleTxIs ==
    ASSUME NEW n \in Nets, NEW q \in Packets
    PROVE  Added(n, ScheduleTx(n, q), FreeAddress(n), q)
<1> DEFINE a == FreeAddress(n)
           t == [i \in DOMAIN n.tx \cup {a} |-> IF i = a THEN q ELSE n.tx[i]]
<1>1. n.tx \in Tables /\ n.due \in Seq(Nat)
  BY DEF Nets
<1>2. a \in Nat /\ a \notin DOMAIN n.tx
  BY FreeAddressIs
<1> HIDE DEF a
<1>3. /\ DOMAIN t = DOMAIN n.tx \cup {a} /\ t[a] = q
      /\ \A i \in DOMAIN n.tx : t[i] = n.tx[i]
      /\ t = [i \in DOMAIN t |-> t[i]]
  BY <1>2
<1> HIDE DEF t
<1>4. t \in Tables
  <2>1. DOMAIN t \in SUBSET Nat /\ IsFiniteSet(DOMAIN t)
    BY <1>1, <1>2, <1>3, TableIs, FS_AddElement
  <2>2. \A i \in DOMAIN t : t[i] \in Packets
    BY <1>1, <1>3, TableIs
  <2> QED
    BY <1>3, <2>1, <2>2, TableIs
<1>5. ScheduleTx(n, q) = [n EXCEPT !.tx = t]
  BY DEF ScheduleTx, t, a
<1>6. [n EXCEPT !.tx = t] = WithPackets(n, t, n.due)
  BY DEF WithPackets, Nets
<1>7. Added(n, WithPackets(n, t, n.due), a, q)
  BY <1>1, <1>2, <1>3, <1>4, WithPacketsIs DEF Added, Named
<1> QED
  BY <1>5, <1>6, <1>7 DEF a
-----------------------------------------------------------------------------
(* What holds of every control block between two actions: it probes with   *)
(* one packet, which has all its questions; it announces with a packet; no *)
(* other packet has a question, nor is one empty; and a block that is not  *)
(* set up is off.  W are the services that may be probed.                  *)

Mine(n, p) == {i \in DOMAIN n.tx : n.tx[i].to = p}

Asking(q, S) == q.asks = S /\ q.other = S

Answering(q) ==
    q.asks = {} /\ q.other \subseteq {"host"} /\ (q.answers # {} \/ q.other # {})

Probed(b) == WithHost(b.probe, b.ip)

PcbOK(n, p, W) ==
    /\ n.pcb[p].state \in ProbeNames =>
        /\ n.named /\ n.pcb[p].ready /\ n.pcb[p].probe \subseteq W /\ Probed(n.pcb[p]) # {}
        /\ \E i \in DOMAIN n.tx : Mine(n, p) = {i} /\ Asking(n.tx[i], Probed(n.pcb[p]))
    /\ n.pcb[p].state \notin ProbeNames =>
        n.pcb[p].probe = {} /\ \A i \in Mine(n, p) : Answering(n.tx[i])
    /\ n.pcb[p].state \in AnnounceNames => Mine(n, p) # {}
    /\ ~n.pcb[p].ready => n.pcb[p].state \in OffNames

Proper(n) == n \in Nets /\ n.own \subseteq n.services /\ Range(n.due) \subseteq DOMAIN n.tx

Sound(n) == Proper(n) /\ \A p \in Pcbs : PcbOK(n, p, n.services)

Follows(n, m) == Proper(m) /\ Named(m) = Named(n) /\ InOrder(m.due, n.due)

(* Nothing changes but the block p and its packets.                        *)
Beside(n, m, p) ==
    \A q \in Pcbs : q # p =>
        /\ m.pcb[q] = n.pcb[q] /\ Mine(m, q) = Mine(n, q)
        /\ \A i \in Mine(n, q) : m.tx[i] = n.tx[i]

(* A block that may be set to probing.                                     *)
Startable(n, p) ==
    n.pcb[p].probe \subseteq n.services /\ (~n.named => n.pcb[p].probe = {})

LEMMA FollowsSame == \A n : Proper(n) => Follows(n, n)
  BY InOrderSame DEF Follows

LEMMA FollowsChain ==
    ASSUME NEW n, NEW m, NEW k, Follows(n, m), Follows(m, k)
    PROVE  Follows(n, k)
<1>1. InOrder(k.due, n.due)
  BY InOrderChain DEF Follows
<1> QED
  BY <1>1 DEF Follows

LEMMA NamedIs ==
    \A n, m : Named(m) = Named(n) <=> /\ m.services = n.services /\ m.own = n.own
                                      /\ m.named = n.named /\ m.titled = n.titled
  BY DEF Named

LEMMA BesideChain ==
    ASSUME NEW n, NEW m, NEW k, NEW p, Beside(n, m, p), Beside(m, k, p)
    PROVE  Beside(n, k, p)
  BY DEF Beside

LEMMA BesideKeeps ==
    ASSUME NEW n, NEW m, NEW p, NEW q \in Pcbs, q # p, Beside(n, m, p), m.named = n.named,
           NEW W, PcbOK(n, q, W)
    PROVE  PcbOK(m, q, W)
<1>1. /\ m.pcb[q] = n.pcb[q] /\ Mine(m, q) = Mine(n, q)
      /\ \A i \in Mine(n, q) : m.tx[i] = n.tx[i]
  BY DEF Beside
<1>2. ASSUME n.pcb[q].state \in ProbeNames
      PROVE  \E i \in DOMAIN m.tx : Mine(m, q) = {i} /\ Asking(m.tx[i], Probed(m.pcb[q]))
  <2>1. PICK i \in DOMAIN n.tx : Mine(n, q) = {i} /\ Asking(n.tx[i], Probed(n.pcb[q]))
    BY <1>2 DEF PcbOK
  <2>2. i \in DOMAIN m.tx /\ m.tx[i] = n.tx[i]
    BY <1>1, <2>1 DEF Mine
  <2> QED
    BY <1>1, <2>1, <2>2
<1>3. ASSUME n.pcb[q].state \notin ProbeNames
      PROVE  \A i \in Mine(m, q) : Answering(m.tx[i])
  BY <1>1, <1>3 DEF PcbOK
<1> QED
  BY <1>1, <1>2, <1>3 DEF PcbOK

LEMMA SoundStartable ==
    ASSUME NEW n, Sound(n), NEW p \in Pcbs
    PROVE  Startable(n, p)
  BY DEF Sound, PcbOK, Startable

LEMMA DroppedBeside ==
    ASSUME NEW n, NEW m, NEW kept, NEW p, kept \subseteq DOMAIN n.tx,
           \A i \in DOMAIN n.tx : n.tx[i].to # p => i \in kept, Dropped(n, m, kept)
    PROVE  Beside(n, m, p)
  BY DEF Beside, Dropped, Mine

LEMMA AddedBeside ==
    ASSUME NEW n, NEW m, NEW a, NEW q, NEW p, q.to = p, Added(n, m, a, q)
    PROVE  Beside(n, m, p)
<1> SUFFICES ASSUME NEW r \in Pcbs, r # p
             PROVE  /\ m.pcb[r] = n.pcb[r] /\ Mine(m, r) = Mine(n, r)
                    /\ \A i \in Mine(n, r) : m.tx[i] = n.tx[i]
  BY DEF Beside
<1>1. /\ m.pcb = n.pcb /\ a \notin DOMAIN n.tx /\ DOMAIN m.tx = DOMAIN n.tx \cup {a}
      /\ m.tx[a].to = p /\ \A i \in DOMAIN n.tx : m.tx[i] = n.tx[i]
  BY DEF Added
<1> QED
  BY <1>1 DEF Mine

LEMMA WithPcbBeside ==
    ASSUME NEW n \in Nets, NEW p \in Pcbs, NEW b \in PcbStates
    PROVE  Beside(n, WithPcb(n, p, b), p)
  BY WithPcbIs DEF Beside, Mine

LEMMA DroppedFollows ==
    ASSUME NEW n, Proper(n), NEW kept, NEW m, Dropped(n, m, kept)
    PROVE  Follows(n, m)
  BY NamedIs DEF Dropped, Follows, Proper

LEMMA AddedFollows ==
    ASSUME NEW n, Proper(n), NEW m, NEW a, NEW q, Added(n, m, a, q)
    PROVE  Follows(n, m)
  BY NamedIs, InOrderSame DEF Added, Follows, Proper

LEMMA WithPcbFollows ==
    ASSUME NEW n, Proper(n), NEW p \in Pcbs, NEW b \in PcbStates
    PROVE  Follows(n, WithPcb(n, p, b))
  BY WithPcbIs, InOrderSame DEF Follows, Proper, Named
-----------------------------------------------------------------------------
(* Setting a block to probing.                                             *)

LEMMA ProperParts ==
    ASSUME NEW n \in Nets
    PROVE  /\ n.tx \in Tables /\ n.due \in Seq(Nat) /\ n.pcb \in [Pcbs -> PcbStates]
           /\ n.named \in BOOLEAN /\ n.services \in SUBSET Services
           /\ \A i \in DOMAIN n.tx : n.tx[i] \in Packets /\ n.tx[i].to \in Pcbs
<1>1. n.tx \in Tables
  BY DEF Nets
<1>2. \A i \in DOMAIN n.tx : n.tx[i] \in Packets
  BY <1>1, TableIs
<1> QED
  BY <1>1, <1>2 DEF Nets, Packets

LEMMA ClearPcbTxIs ==
    ASSUME NEW n, Proper(n), NEW p \in Pcbs
    PROVE  LET m == ClearPcbTx(n, p) IN
           /\ Follows(n, m) /\ Beside(n, m, p) /\ m.pcb = n.pcb /\ Mine(m, p) = {}
<1> DEFINE kept == {i \in DOMAIN n.tx : n.tx[i].to # p}
           m == ClearPcbTx(n, p)
<1>1. Dropped(n, m, kept)
  BY KeepTxIs DEF ClearPcbTx, Proper
<1> HIDE DEF m
<1>2. Follows(n, m)
  BY <1>1, DroppedFollows
<1>3. Beside(n, m, p)
  BY <1>1, DroppedBeside
<1>4. m.pcb = n.pcb /\ Mine(m, p) = {}
  BY <1>1 DEF Dropped, Mine
<1> QED
  BY <1>2, <1>3, <1>4 DEF m

LEMMA WithHostType ==
    \A S \in SUBSET Services : \A ip \in BOOLEAN :
        /\ WithHost(S, ip) \in SUBSET Owners
        /\ (S # {} \/ ip) => WithHost(S, ip) # {}
  BY DEF WithHost, Owners

LEMMA ProbePacketType ==
    ASSUME NEW p \in Pcbs, NEW S \in SUBSET Services, NEW ip \in BOOLEAN
    PROVE  ProbePacket(p, S, ip) \in Packets
  BY WithHostType DEF ProbePacket, Packets

Started(b, S, i) == [b EXCEPT !.state = "PROBE_1", !.probe = S, !.ip = i, !.running = TRUE]
InState(b, s) == [b EXCEPT !.state = s]

LEMMA StartedIs ==
    ASSUME NEW b \in PcbStates, NEW S \in SUBSET Services, NEW i \in BOOLEAN
    PROVE  LET d == Started(b, S, i) IN
           /\ d \in PcbStates /\ d.state = "PROBE_1" /\ d.probe = S /\ d.ip = i
           /\ d.ready = b.ready
  BY DEF PcbStates, Started, StateNames, ProbeNames

LEMMA InStateIs ==
    ASSUME NEW b \in PcbStates, NEW s \in StateNames
    PROVE  LET d == InState(b, s) IN
           /\ d \in PcbStates /\ d.state = s /\ d.probe = b.probe /\ d.ip = b.ip
           /\ d.ready = b.ready /\ d.running = b.running
  BY DEF PcbStates, InState

(* p probes for S, and for the host if ip, with its one packet.            *)
ProbesFor(n, m, p, S, ip) ==
    /\ Follows(n, m) /\ Beside(n, m, p) /\ m.pcb[p] = Started(n.pcb[p], S, ip)
    /\ \E i \in DOMAIN m.tx : Mine(m, p) = {i} /\ Asking(m.tx[i], WithHost(S, ip))

LEMMA NewServiceIs ==
    ASSUME NEW n, Proper(n), NEW p \in Pcbs, NEW S \in SUBSET Services, NEW ip \in BOOLEAN,
           Mine(n, p) = {}
    PROVE  ProbesFor(n, InitPcbProbeNewService(n, p, S, ip), p, S, ip)
<1> DEFINE q == ProbePacket(p, S, ip)
           k == ScheduleTx(n, q)
           b == Started(n.pcb[p], S, ip)
           a == FreeAddress(n)
           m == WithPcb(k, p, b)
<1>1. q \in Packets /\ q.to = p /\ Asking(q, WithHost(S, ip))
  BY ProbePacketType DEF ProbePacket, Asking
<1>2. n.pcb[p] \in PcbStates /\ n \in Nets
  BY ProperParts DEF Proper
<1>3. b \in PcbStates
  BY <1>2, StartedIs
<1>4. Added(n, k, a, q)
  BY <1>1, <1>2, ScheduleTxIs
<1>5. InitPcbProbeNewService(n, p, S, ip) = m
  <2>1. k.pcb = n.pcb
    BY <1>4 DEF Added
  <2> HIDE DEF k
  <2>2. [k EXCEPT !.pcb[p] = [@ EXCEPT !.state = "PROBE_1", !.probe = S, !.ip = ip,
                                       !.running = TRUE]] = WithPcb(k, p, b)
    BY <2>1 DEF WithPcb, Started
  <2> QED
    BY <2>2 DEF InitPcbProbeNewService, k
<1> HIDE DEF q, k, b, a, m
<1>6. Follows(n, k) /\ Beside(n, k, p) /\ k \in Nets
  BY <1>1, <1>4, AddedFollows, AddedBeside DEF Added
<1>7. Mine(k, p) = {a} /\ k.tx[a] = q /\ a \in DOMAIN k.tx
  <2>1. a \notin DOMAIN n.tx /\ DOMAIN k.tx = DOMAIN n.tx \cup {a}
             /\ k.tx[a] = q /\ \A i \in DOMAIN n.tx : k.tx[i] = n.tx[i]
    BY <1>4 DEF Added
  <2> QED
    BY <1>1, <2>1 DEF Mine
<1>8. Follows(k, m) /\ Beside(k, m, p) /\ m.tx = k.tx /\ m.pcb[p] = b
  BY <1>3, <1>6, WithPcbFollows, WithPcbBeside, WithPcbIs DEF m, Follows
<1>9. Mine(m, p) = {a} /\ a \in DOMAIN m.tx /\ Asking(m.tx[a], WithHost(S, ip))
  BY <1>1, <1>7, <1>8 DEF Mine
<1>10. Follows(n, m) /\ Beside(n, m, p)
  BY <1>6, <1>8, FollowsChain, BesideChain
<1> QED
  BY <1>5, <1>8, <1>9, <1>10 DEF b, ProbesFor

(* What setting p to probing makes of the net, whatever p was before.      *)
Restarted(n, m, p) ==
    /\ Follows(n, m) /\ Beside(n, m, p) /\ m.pcb[p].ready = n.pcb[p].ready
    /\ Startable(m, p)
    /\ n.pcb[p].ready => PcbOK(m, p, m.services)
    /\ n.named => m.pcb[p].state \in ProbeNames

LEMMA InitPcbProbeIs ==
    ASSUME NEW n, Proper(n), NEW p \in Pcbs, NEW S \in SUBSET n.services,
           NEW ip \in BOOLEAN, S # {} \/ ip, Startable(n, p)
    PROVE  Restarted(n, InitPcbProbe(n, p, S, ip), p)
<1> DEFINE k == ClearPcbTx(n, p)
           m == InitPcbProbe(n, p, S, ip)
<1>1. Follows(n, k) /\ Beside(n, k, p) /\ k.pcb = n.pcb /\ Mine(k, p) = {}
  BY ClearPcbTxIs
<1>2. n.pcb[p] \in PcbStates /\ n \in Nets /\ n.services \in SUBSET Services
          /\ n.named \in BOOLEAN /\ n.pcb[p].ip \in BOOLEAN /\ n.pcb[p].ready \in BOOLEAN
  BY ProperParts DEF Proper, PcbStates
<1>3. k \in Nets /\ Proper(k) /\ k.services = n.services /\ k.named = n.named
  BY <1>1, NamedIs DEF Follows, Proper
<1>4. CASE ~n.named
  <2> DEFINE b == InState(n.pcb[p], "RUNNING")
  <2>1. m = WithPcb(k, p, b)
    <3>1. m = [k EXCEPT !.pcb[p].state = "RUNNING"]
      BY <1>4 DEF InitPcbProbe
    <3> HIDE DEF k, m
    <3> QED
      BY <1>1, <3>1 DEF WithPcb, InState
  <2>2. "RUNNING" \in StateNames
    BY DEF StateNames
  <2>3. /\ b \in PcbStates /\ b.state = "RUNNING" /\ b.probe = n.pcb[p].probe
        /\ b.ready = n.pcb[p].ready
    BY <1>2, <2>2, InStateIs
  <2> HIDE DEF b, k, m
  <2>4. Follows(k, m) /\ Beside(k, m, p) /\ m.tx = k.tx /\ m.pcb[p] = b
             /\ m.services = k.services /\ m.named = k.named
    BY <1>3, <2>1, <2>3, WithPcbFollows, WithPcbBeside, WithPcbIs
  <2>5. Mine(m, p) = {}
    BY <1>1, <2>4 DEF Mine
  <2>6. m.pcb[p].probe = {}
    BY <1>4, <2>3, <2>4 DEF Startable
  <2>7. Startable(m, p)
    BY <2>6 DEF Startable
  <2>8. n.pcb[p].ready => PcbOK(m, p, m.services)
    BY <2>3, <2>4, <2>5, <2>6 DEF PcbOK, ProbeNames, AnnounceNames
  <2> QED
    BY <1>1, <1>4, <2>3, <2>4, <2>7, <2>8, FollowsChain, BesideChain DEF Restarted, m
<1>5. CASE n.named
  <2> DEFINE T == S \cup n.pcb[p].probe
             i == (ip \/ n.pcb[p].ip)
  <2>1. T \in SUBSET n.services /\ T \in SUBSET Services /\ i \in BOOLEAN /\ (T # {} \/ i)
    BY <1>2 DEF Startable
  <2>2. m = InitPcbProbeNewService(k, p, T, i)
    BY <1>5 DEF InitPcbProbe
  <2> HIDE DEF T, i, k, m
  <2>3. /\ Follows(k, m) /\ Beside(k, m, p) /\ m.pcb[p] = Started(n.pcb[p], T, i)
        /\ \E j \in DOMAIN m.tx : Mine(m, p) = {j} /\ Asking(m.tx[j], WithHost(T, i))
    <3>1. ProbesFor(k, InitPcbProbeNewService(k, p, T, i), p, T, i)
      BY <1>1, <1>3, <2>1, NewServiceIs
    <3>2. ProbesFor(k, m, p, T, i) /\ k.pcb[p] = n.pcb[p]
      BY <1>1, <2>2, <3>1
    <3> QED
      BY <3>2 DEF ProbesFor
  <2>4. /\ m.pcb[p].state = "PROBE_1" /\ m.pcb[p].probe = T /\ m.pcb[p].ip = i
        /\ m.pcb[p].ready = n.pcb[p].ready
    BY <1>2, <2>1, <2>3, StartedIs
  <2>5. Follows(n, m) /\ Beside(n, m, p) /\ m.services = n.services /\ m.named = n.named
    BY <1>1, <2>3, FollowsChain, BesideChain, NamedIs DEF Follows
  <2>6. Startable(m, p)
    BY <1>5, <2>1, <2>4, <2>5 DEF Startable
  <2>7. Probed(m.pcb[p]) = WithHost(T, i) /\ WithHost(T, i) # {}
    BY <2>1, <2>4, WithHostType DEF Probed
  <2>8. n.pcb[p].ready => PcbOK(m, p, m.services)
    BY <1>5, <2>1, <2>3, <2>4, <2>5, <2>7 DEF PcbOK, ProbeNames, AnnounceNames
  <2> QED
    BY <2>4, <2>5, <2>6, <2>8 DEF Restarted, m, ProbeNames
<1> QED
  BY <1>2, <1>4, <1>5

(* The fold over a set S that takes any element next.                      *)
AnyOf(s) == CHOOSE x \in s : TRUE

FoldRun(w, S, V, base, T) ==
    /\ w = [s \in SUBSET S |-> IF s = {} THEN base ELSE T[<<AnyOf(s), w[s \ {AnyOf(s)}]>>]]
    /\ \A s \in SUBSET S : w[s] \in V

LEMMA AnyIs == \A s : s # {} => AnyOf(s) \in s
  BY DEF AnyOf

LEMMA FoldSetExists ==
    ASSUME NEW S, IsFiniteSet(S), NEW V, NEW base \in V, NEW T \in [S \X V -> V]
    PROVE  \E w : FoldRun(w, S, V, base, T)
<1> DEFINE ch == [s \in SUBSET S |-> AnyOf(s)]
<1>1. \A s \in SUBSET S : ch[s] = AnyOf(s)
  OBVIOUS
<1>2. \A s \in SUBSET S : s # {} => ch[s] \in s
  BY AnyIs
<1> HIDE DEF ch
<1>3. PICK w \in [SUBSET S -> V] : Runs(w, S, SUBSET S, base, T, ch)
  BY <1>2, FoldExists
<1>4. w = [s \in SUBSET S |-> w[s]]
  OBVIOUS
<1>5. \A s \in SUBSET S : w[s] = IF s = {} THEN base ELSE T[<<AnyOf(s), w[s \ {AnyOf(s)}]>>]
  BY <1>1, <1>3 DEF Runs
<1>6. w = [s \in SUBSET S |-> IF s = {} THEN base ELSE T[<<AnyOf(s), w[s \ {AnyOf(s)}]>>]]
  BY <1>4, <1>5
<1>7. FoldRun(w, S, V, base, T)
  BY <1>3, <1>6 DEF FoldRun
<1> QED
  BY <1>7

-----------------------------------------------------------------------------
(* Probing on every interface.                                             *)

LEMMA PcbsFinite == IsFiniteSet(Pcbs)
<1>1. IsFiniteSet({"sta", "ap", "eth"}) /\ IsFiniteSet({"v4", "v6"})
  <2>1. IsFiniteSet({"sta"}) /\ IsFiniteSet({"v4"})
    BY FS_Singleton
  <2>2. {"sta"} \cup {"ap"} = {"sta", "ap"} /\ {"v4"} \cup {"v6"} = {"v4", "v6"}
    OBVIOUS
  <2>3. IsFiniteSet({"sta", "ap"}) /\ IsFiniteSet({"v4", "v6"})
    BY <2>1, <2>2, FS_AddElement
  <2>4. {"sta", "ap"} \cup {"eth"} = {"sta", "ap", "eth"}
    OBVIOUS
  <2> QED
    BY <2>3, <2>4, FS_AddElement
<1>2. IsFiniteSet(Ifs) /\ IsFiniteSet(Protos)
  BY <1>1, ResponderAssumption, FS_Subset
<1> QED
  BY <1>2, FS_Product DEF Pcbs

Forgotten(b) == [b EXCEPT !.probe = {}, !.running = FALSE]

ProbeTurn(m, p, S, ip, clearOld) ==
    InitPcbProbe(IF clearOld THEN ForgetProbe(m, p) ELSE m, p, S, ip)

LEMMA ProbeTurnIs ==
    ASSUME NEW n, Proper(n), NEW p \in Pcbs, NEW S \in SUBSET n.services,
           NEW ip \in BOOLEAN, NEW clearOld \in BOOLEAN, S # {} \/ ip, Startable(n, p)
    PROVE  Restarted(n, ProbeTurn(n, p, S, ip, clearOld), p)
<1> DEFINE b == Forgotten(n.pcb[p])
           f == ForgetProbe(n, p)
<1>1. n \in Nets /\ n.pcb[p] \in PcbStates
  BY ProperParts DEF Proper
<1>2. b \in PcbStates /\ b.probe = {} /\ b.ready = n.pcb[p].ready
  BY <1>1 DEF PcbStates, Forgotten
<1>3. f = WithPcb(n, p, b)
  BY <1>1 DEF ForgetProbe, WithPcb, Forgotten, Nets
<1> HIDE DEF b, f
<1>4. /\ Follows(n, f) /\ Beside(n, f, p) /\ f.pcb[p] = b
      /\ f.services = n.services /\ f.named = n.named
  BY <1>1, <1>2, <1>3, WithPcbFollows, WithPcbBeside, WithPcbIs
<1>5. Startable(f, p)
  BY <1>2, <1>4 DEF Startable
<1>6. Proper(f) /\ S \in SUBSET f.services
  BY <1>4 DEF Follows
<1>7. Restarted(f, InitPcbProbe(f, p, S, ip), p)
  BY <1>5, <1>6, InitPcbProbeIs
<1>8. Restarted(n, InitPcbProbe(f, p, S, ip), p)
  <2> DEFINE m == InitPcbProbe(f, p, S, ip)
  <2>1. Follows(n, m) /\ Beside(n, m, p)
    BY <1>4, <1>7, FollowsChain, BesideChain DEF Restarted
  <2> QED
    BY <1>2, <1>4, <1>7, <2>1 DEF Restarted
<1>9. Restarted(n, InitPcbProbe(n, p, S, ip), p)
  BY InitPcbProbeIs
<1> QED
  BY <1>8, <1>9 DEF ProbeTurn, f

(* The blocks of s and those not set up are in order, m having come from n *)
(* by restarting those of s.                                               *)
Midway(n, m, s) ==
    /\ Follows(n, m)
    /\ \A p \in Pcbs : /\ Startable(m, p) /\ m.pcb[p].ready = n.pcb[p].ready
                       /\ (p \in s \/ ~n.pcb[p].ready) => PcbOK(m, p, n.services)

LEMMA MidwayTurn ==
    ASSUME NEW n, NEW m, NEW s, NEW x \in s, s \subseteq Pcbs, Midway(n, m, s \ {x}),
           n.pcb[x].ready, NEW k, Restarted(m, k, x)
    PROVE  Midway(n, k, s)
<1>1. x \in Pcbs /\ m.pcb[x].ready = n.pcb[x].ready
  BY DEF Midway
<1>2. Follows(n, m) /\ Follows(m, k) /\ Follows(n, k)
  BY FollowsChain DEF Midway, Restarted
<1>3. k.services = n.services /\ k.services = m.services /\ k.named = m.named
  BY <1>2, NamedIs DEF Follows
<1>4. Beside(m, k, x)
  BY DEF Restarted
<1>5. ASSUME NEW p \in Pcbs
      PROVE  /\ Startable(k, p) /\ k.pcb[p].ready = n.pcb[p].ready
             /\ (p \in s \/ ~n.pcb[p].ready) => PcbOK(k, p, n.services)
  <2>1. CASE p = x
    BY <1>1, <1>3, <2>1 DEF Restarted
  <2>2. CASE p # x
    <3>1. k.pcb[p] = m.pcb[p] /\ Startable(m, p) /\ m.pcb[p].ready = n.pcb[p].ready
      BY <1>4, <2>2 DEF Beside, Midway
    <3>2. Startable(k, p)
      BY <1>3, <3>1 DEF Startable
    <3>3. (p \in s \/ ~n.pcb[p].ready) => PcbOK(m, p, n.services)
      BY <2>2 DEF Midway
    <3> QED
      BY <1>3, <1>4, <2>2, <3>1, <3>2, <3>3, BesideKeeps
  <2> QED
    BY <2>1, <2>2
<1> QED
  BY <1>2, <1>5 DEF Midway

LEMMA ProbeAllPcbsIs ==
    ASSUME NEW n, Midway(n, n, {}), NEW S \in SUBSET n.services, NEW ip \in BOOLEAN,
           NEW clearOld \in BOOLEAN, S # {} \/ ip
    PROVE  Follows(n, ProbeAllPcbs(n, S, ip, clearOld)) /\ Sound(ProbeAllPcbs(n, S, ip, clearOld))
<1> DEFINE R == ReadyPcbs(n)
           Turn(p, m) == ProbeTurn(m, p, S, ip, clearOld)
           V == {m \in Nets : Midway(n, m, {})}
           T == [c \in R \X V |-> Turn(c[1], c[2])]
           Eq(w) == w = [s \in SUBSET R |->
                            IF s = {} THEN n ELSE Turn(AnyOf(s), w[s \ {AnyOf(s)}])]
           it == CHOOSE w : Eq(w)
           G == [s \in SUBSET R |-> {m \in Nets : Midway(n, m, s)}]
<1>1. R \subseteq Pcbs /\ IsFiniteSet(R) /\ \A p \in R : n.pcb[p].ready
  BY PcbsFinite, FS_Subset DEF ReadyPcbs
<1>2. ASSUME NEW s \in SUBSET R, NEW x \in s, NEW m, m \in Nets, Midway(n, m, s \ {x})
      PROVE  Turn(x, m) \in Nets /\ Midway(n, Turn(x, m), s)
  <2>1. Proper(m) /\ m.services = n.services /\ Startable(m, x) /\ x \in Pcbs
    BY <1>1, <1>2, NamedIs DEF Midway, Follows
  <2>2. Restarted(m, Turn(x, m), x)
    BY <2>1, ProbeTurnIs
  <2> HIDE DEF Turn
  <2>3. Midway(n, Turn(x, m), s)
    BY <1>1, <1>2, <2>2, MidwayTurn
  <2> QED
    BY <2>3 DEF Midway, Follows, Proper
<1>3. \A m, s : Midway(n, m, s) => Midway(n, m, {})
  BY DEF Midway
<1>4. ProbeAllPcbs(n, S, ip, clearOld) = it[R]
  BY Zenon DEF ProbeAllPcbs, FoldSet, MapThenFoldSet, ProbeTurn, AnyOf
<1> HIDE DEF Turn, R
<1>5. n \in V
  BY DEF Midway, Follows, Proper
<1>6. \A x \in R, m \in V : Turn(x, m) \in V
  <2> SUFFICES ASSUME NEW x \in R, NEW m \in V PROVE Turn(x, m) \in V
    OBVIOUS
  <2>1. {x} \in SUBSET R /\ x \in {x} /\ {x} \ {x} = {} /\ m \in Nets /\ Midway(n, m, {})
    OBVIOUS
  <2>2. Turn(x, m) \in Nets /\ Midway(n, Turn(x, m), {x})
    BY <1>2, <2>1
  <2> QED
    BY <1>3, <2>2
<1> HIDE DEF V
<1>7. T \in [R \X V -> V] /\ \A x \in R, m \in V : T[<<x, m>>] = Turn(x, m)
  BY <1>6
<1> HIDE DEF T
<1>8. PICK w : FoldRun(w, R, V, n, T)
  BY <1>1, <1>5, <1>7, FoldSetExists
<1>9. Eq(w)
  <2>1. \A s \in SUBSET R :
            s # {} => T[<<AnyOf(s), w[s \ {AnyOf(s)}]>>] = Turn(AnyOf(s), w[s \ {AnyOf(s)}])
    BY <1>7, <1>8, AnyIs DEF FoldRun
  <2> QED
    BY <1>8, <2>1 DEF FoldRun
<1>10. Eq(it)
  <2> HIDE DEF Eq
  <2> QED
    BY <1>9, Zenon
<1> HIDE DEF it
<1>11. it[{}] = n /\ \A s \in SUBSET R : s # {} =>
           it[s] = Turn(AnyOf(s), it[s \ {AnyOf(s)}])
  BY <1>10
<1>12. it[{}] \in G[{}]
  BY <1>11 DEF Midway, Follows, Proper
<1>13. \A s \in SUBSET R : s # {} =>
            \E x \in s : it[s \ {x}] \in G[s \ {x}] => it[s] \in G[s]
  <2> SUFFICES ASSUME NEW s \in SUBSET R, s # {}
               PROVE  \E x \in s : it[s \ {x}] \in G[s \ {x}] => it[s] \in G[s]
    OBVIOUS
  <2>1. PICK x \in s : it[s] = Turn(x, it[s \ {x}])
    BY <1>11, AnyIs
  <2>2. s \ {x} \in SUBSET R
    OBVIOUS
  <2>3. it[s \ {x}] \in G[s \ {x}] => it[s] \in G[s]
    BY <1>2, <2>1, <2>2
  <2> QED
    BY <2>3
<1> HIDE DEF G
<1>14. it[R] \in G[R]
  BY <1>1, <1>12, <1>13, FoldHolds
<1>15. Midway(n, it[R], R)
  BY <1>14 DEF G
<1>16. \A p \in Pcbs : p \in R \/ ~n.pcb[p].ready
  BY DEF R, ReadyPcbs
<1>17. it[R].services = n.services
  BY <1>15, NamedIs DEF Midway, Follows
<1> QED
  BY <1>4, <1>15, <1>16, <1>17 DEF Midway, Sound, Follows
-----------------------------------------------------------------------------
(* Restarting and announcing.  An operation that goes on from a net in     *)
(* order ends with one.                                                    *)

Keeps(n, m) == Sound(m) /\ Follows(n, m)

LEMMA KeepsChain ==
    ASSUME NEW n, NEW m, NEW k, Keeps(n, m), Keeps(m, k)
    PROVE  Keeps(n, k)
  BY FollowsChain DEF Keeps

LEMMA KeepsSame == \A n : Sound(n) => Keeps(n, n)
  BY FollowsSame DEF Keeps, Sound

LEMMA BesideSound ==
    ASSUME NEW n, Proper(n), NEW p \in Pcbs, NEW m, Follows(n, m), Beside(n, m, p),
           \A q \in Pcbs : q # p => PcbOK(n, q, n.services),
           PcbOK(m, p, m.services)
    PROVE  Keeps(n, m)
<1>1. m.services = n.services /\ m.named = n.named /\ Proper(m)
  BY NamedIs DEF Follows
<1>2. \A q \in Pcbs : q # p => PcbOK(m, q, m.services)
  BY <1>1, BesideKeeps
<1> QED
  BY <1>1, <1>2 DEF Keeps, Sound

LEMMA RestartedKeeps ==
    ASSUME NEW n, Sound(n), NEW p \in Pcbs, NEW m, Restarted(n, m, p), n.pcb[p].ready
    PROVE  Keeps(n, m)
  BY BesideSound DEF Restarted, Sound

LEMMA SoundMidway == \A n : Sound(n) => Midway(n, n, {})
  BY FollowsSame, SoundStartable DEF Midway, Sound

LEMMA ProbeAllKeeps ==
    ASSUME NEW n, Sound(n), NEW S \in SUBSET n.services, NEW ip \in BOOLEAN,
           NEW clearOld \in BOOLEAN, S # {} \/ ip
    PROVE  Keeps(n, ProbeAllPcbs(n, S, ip, clearOld))
  BY SoundMidway, ProbeAllPcbsIs DEF Keeps

LEMMA RestartAllKeeps ==
    ASSUME NEW n, Sound(n)
    PROVE  Keeps(n, RestartAllPcbs(n))
<1> DEFINE k == ClearTx(n)
<1>1. Dropped(n, k, {}) /\ n \in Nets /\ Proper(n)
  BY KeepTxIs DEF ClearTx, Sound, Proper
<1>2. Follows(n, k) /\ k.pcb = n.pcb /\ DOMAIN k.tx = {}
  BY <1>1, DroppedFollows DEF Dropped
<1>3. k.services = n.services /\ k.named = n.named /\ Proper(k)
  BY <1>2, NamedIs DEF Follows
<1> HIDE DEF k
<1>4. \A p \in Pcbs : Startable(k, p)
  BY <1>2, <1>3, SoundStartable DEF Startable
<1>5. ASSUME NEW p \in Pcbs, ~k.pcb[p].ready
      PROVE  PcbOK(k, p, k.services)
  <2>1. PcbOK(n, p, n.services) /\ n.pcb[p].state \in OffNames /\ Mine(k, p) = {}
    BY <1>2, <1>5 DEF Sound, PcbOK, Mine
  <2> QED
    BY <1>2, <1>3, <2>1 DEF PcbOK, OffNames, ProbeNames, AnnounceNames
<1>6. Midway(k, k, {})
  BY <1>3, <1>4, <1>5, FollowsSame DEF Midway
<1>7. TRUE \in BOOLEAN /\ n.services \in SUBSET k.services
  BY <1>3
<1>8. LET m == ProbeAllPcbs(k, n.services, TRUE, TRUE) IN Follows(k, m) /\ Sound(m)
  BY <1>6, <1>7, ProbeAllPcbsIs
<1>9. RestartAllPcbs(n) = ProbeAllPcbs(k, n.services, TRUE, TRUE)
  BY DEF RestartAllPcbs, k
<1> QED
  BY <1>2, <1>8, <1>9, FollowsChain DEF Keeps

LEMMA RestartNoInstanceKeeps ==
    ASSUME NEW n, Sound(n)
    PROVE  Keeps(n, RestartAllPcbsNoInstance(n))
<1>1. CASE n.services \subseteq n.own
  BY <1>1, KeepsSame DEF RestartAllPcbsNoInstance
<1>2. CASE ~(n.services \subseteq n.own)
  <2>1. n.services \ n.own # {} /\ n.services \ n.own \in SUBSET n.services
    BY <1>2
  <2>2. Keeps(n, ProbeAllPcbs(n, n.services \ n.own, FALSE, TRUE))
    BY <2>1, ProbeAllKeeps
  <2> QED
    BY <1>2, <2>2 DEF RestartAllPcbsNoInstance
<1> QED
  BY <1>1, <1>2

(* A block goes to another state beside its packets.                       *)
LEMMA StateMoves ==
    ASSUME NEW n, Sound(n), NEW p \in Pcbs, NEW s \in StateNames,
           n.pcb[p].state \in ProbeNames <=> s \in ProbeNames,
           s \in AnnounceNames => Mine(n, p) # {},
           n.pcb[p].ready \/ s \in OffNames
    PROVE  Keeps(n, WithPcb(n, p, InState(n.pcb[p], s)))
<1> DEFINE b == InState(n.pcb[p], s)
           m == WithPcb(n, p, b)
<1>1. n \in Nets /\ Proper(n) /\ n.pcb[p] \in PcbStates
  BY ProperParts DEF Sound, Proper
<1>2. /\ b \in PcbStates /\ b.state = s /\ b.probe = n.pcb[p].probe /\ b.ip = n.pcb[p].ip
      /\ b.ready = n.pcb[p].ready
  BY <1>1, InStateIs
<1> HIDE DEF b
<1>3. Follows(n, m) /\ Beside(n, m, p)
  BY <1>1, <1>2, WithPcbFollows, WithPcbBeside
<1>4. m.pcb[p] = b /\ m.tx = n.tx /\ m.services = n.services /\ m.named = n.named
  BY <1>1, <1>2, WithPcbIs
<1> HIDE DEF m
<1>5. PcbOK(n, p, n.services) /\ Mine(m, p) = Mine(n, p) /\ Probed(b) = Probed(n.pcb[p])
  BY <1>2, <1>4 DEF Sound, Mine, Probed
<1>6. PcbOK(m, p, m.services)
  BY <1>2, <1>4, <1>5 DEF PcbOK
<1> QED
  BY <1>1, <1>3, <1>6, BesideSound DEF Sound, m, b

(* A packet without questions is scheduled for a block that does not probe.*)
LEMMA AnswerKeeps ==
    ASSUME NEW n, Sound(n), NEW p \in Pcbs, n.pcb[p].state \notin ProbeNames,
           NEW q \in Packets, q.to = p, Answering(q)
    PROVE  /\ Keeps(n, ScheduleTx(n, q)) /\ ScheduleTx(n, q).pcb = n.pcb
           /\ Mine(ScheduleTx(n, q), p) # {}
           /\ \E a : Added(n, ScheduleTx(n, q), a, q)
<1> DEFINE a == FreeAddress(n)
           m == ScheduleTx(n, q)
<1>1. n \in Nets /\ Proper(n)
  BY DEF Sound, Proper
<1>2. Added(n, m, a, q)
  BY <1>1, ScheduleTxIs
<1> HIDE DEF a, m
<1>3. Follows(n, m) /\ Beside(n, m, p)
  BY <1>1, <1>2, AddedFollows, AddedBeside
<1>4. /\ m.pcb = n.pcb /\ m.tx[a] = q /\ DOMAIN m.tx = DOMAIN n.tx \cup {a}
      /\ \A i \in DOMAIN n.tx : m.tx[i] = n.tx[i]
  BY <1>2 DEF Added
<1>5. a \in Mine(m, p) /\ Mine(m, p) \subseteq Mine(n, p) \cup {a}
  BY <1>4 DEF Mine
<1>6. PcbOK(n, p, n.services)
  BY DEF Sound
<1>7. \A i \in Mine(m, p) : Answering(m.tx[i])
  BY <1>4, <1>5, <1>6 DEF PcbOK, Mine
<1>8. PcbOK(m, p, m.services)
  BY <1>4, <1>5, <1>6, <1>7 DEF PcbOK
<1>9. Keeps(n, m)
  BY <1>1, <1>3, <1>8, BesideSound DEF Sound
<1> QED
  BY <1>2, <1>4, <1>5, <1>9 DEF m

(* Answers are added to a packet, whichever block it is of.                *)
Enrich(q, A) == [q EXCEPT !.answers = @ \cup A]
Enriched(n, i, A) == [n EXCEPT !.tx[i].answers = @ \cup A]

LEMMA EnrichedIs ==
    ASSUME NEW n, Sound(n), NEW i, NEW A \in SUBSET Owners
    PROVE  LET m == Enriched(n, i, A) IN
           Keeps(n, m) /\ m.pcb = n.pcb /\ \A p \in Pcbs : Mine(m, p) = Mine(n, p)
<1> DEFINE m == Enriched(n, i, A)
           t == [n.tx EXCEPT ![i] = Enrich(@, A)]
<1>1. n \in Nets /\ Proper(n) /\ n.tx \in Tables /\ n.due \in Seq(Nat)
  BY ProperParts DEF Sound, Proper
<1>2. \A j \in DOMAIN n.tx : n.tx[j] \in Packets
  BY <1>1, TableIs
<1>3. DOMAIN t = DOMAIN n.tx /\ t = [j \in DOMAIN t |-> t[j]]
  OBVIOUS
<1>4. ASSUME NEW j \in DOMAIN n.tx
      PROVE  /\ t[j] \in Packets /\ t[j].to = n.tx[j].to /\ t[j].asks = n.tx[j].asks
             /\ t[j].other = n.tx[j].other /\ n.tx[j].answers \subseteq t[j].answers
  <2>1. CASE j = i
    <3>1. t[j] = Enrich(n.tx[j], A)
      BY <2>1
    <3> HIDE DEF t
    <3> QED
      BY <1>2, <3>1 DEF Packets, Enrich
  <2>2. CASE j # i
    <3>1. t[j] = n.tx[j]
      BY <2>2
    <3> QED
      BY <1>2, <3>1
  <2> QED
    BY <2>1, <2>2
<1>5. m = WithPackets(n, t, n.due)
  <2>1. m = [n EXCEPT !.tx = t]
    BY Zenon DEF Enriched, Enrich
  <2> HIDE DEF t, m
  <2> QED
    BY <1>1, <2>1 DEF WithPackets, Nets
<1> HIDE DEF t
<1>6. t \in Tables
  BY <1>1, <1>3, <1>4, TableIs
<1>7. /\ m \in Nets /\ Named(m) = Named(n) /\ m.pcb = n.pcb /\ m.tx = t /\ m.due = n.due
  BY <1>1, <1>5, <1>6, WithPacketsIs DEF Named
<1> HIDE DEF m
<1>8. m.services = n.services /\ m.named = n.named /\ m.own = n.own
  BY <1>7, NamedIs
<1>9. Proper(m) /\ Follows(n, m)
  BY <1>1, <1>3, <1>7, <1>8, InOrderSame DEF Proper, Follows
<1>10. \A p \in Pcbs : Mine(m, p) = Mine(n, p)
  BY <1>3, <1>4, <1>7 DEF Mine
<1>11. \A j \in DOMAIN n.tx : Answering(n.tx[j]) => Answering(m.tx[j])
  BY <1>4, <1>7 DEF Answering
<1>12. \A j \in DOMAIN n.tx : \A S : Asking(n.tx[j], S) => Asking(m.tx[j], S)
  BY <1>4, <1>7 DEF Asking
<1>13. ASSUME NEW p \in Pcbs PROVE PcbOK(m, p, m.services)
  <2>1. PcbOK(n, p, n.services) /\ Mine(m, p) = Mine(n, p) /\ Mine(n, p) \subseteq DOMAIN n.tx
    BY <1>10 DEF Sound, Mine
  <2>2. DOMAIN m.tx = DOMAIN n.tx
    BY <1>3, <1>7
  <2> QED
    BY <1>7, <1>8, <1>11, <1>12, <2>1, <2>2 DEF PcbOK
<1> QED
  BY <1>7, <1>9, <1>10, <1>13 DEF Keeps, Sound, m

LEMMA StateTests ==
    \A b : /\ IsProbing(b) <=> b.state \in {"DUP", "INIT"} \cup ProbeNames
           /\ IsAnnouncing(b) <=> b.state \in AnnounceNames
  BY RangesAre DEF IsProbing, IsAnnouncing

Extended(n, i, p, A) ==
    [n EXCEPT !.tx[i].answers = @ \cup A, !.pcb[p].state = "ANNOUNCE_1"]

Announced(n, p, S, ip) ==
    [ScheduleTx(n, AnnouncePacket(p, S, ip)) EXCEPT !.pcb[p].state = "ANNOUNCE_1"]

AnnounceEnds(n, m, i, p, S, ip) ==
    \/ m = n
    \/ n.pcb[p].ready /\ m = InitPcbProbe(n, p, S, ip)
    \/ n.pcb[p].ready /\ IsAnnouncing(n.pcb[p]) /\ m = Extended(n, i, p, WithHost(S, ip))
    \/ n.pcb[p].ready /\ n.pcb[p].state = "RUNNING" /\ m = Announced(n, p, S, ip)

LEMMA AnnouncePcbCases ==
    ASSUME NEW n, NEW first, NEW p, NEW S, NEW ip,
           n.pcb[p].ready \in BOOLEAN, n.named \in BOOLEAN
    PROVE  AnnounceEnds(n, AnnouncePcb(n, first, p, S, ip), first[p], p, S, ip)
<1> DEFINE b == n.pcb[p]
           one == InitPcbProbe(n, p, S, ip)
           two == Extended(n, first[p], p, WithHost(S, ip))
           three == Announced(n, p, S, ip)
           m == AnnouncePcb(n, first, p, S, ip)
<1>1. m = CASE ~b.ready -> n
            [] b.ready /\ IsProbing(b) -> one
            [] b.ready /\ IsAnnouncing(b) -> IF first[p] = 0 THEN n ELSE two
            [] b.ready /\ b.state = "RUNNING" /\ n.named -> three
            [] OTHER -> n
  BY Zenon DEF AnnouncePcb, Extended, Announced
<1>2. ~(IsProbing(b) /\ IsAnnouncing(b)) /\ ~(IsProbing(b) /\ b.state = "RUNNING")
          /\ ~(IsAnnouncing(b) /\ b.state = "RUNNING")
  BY StateTests DEF ProbeNames, AnnounceNames
<1> HIDE DEF b, one, two, three, m
<1>3. b.ready \in BOOLEAN
  BY DEF b
<1>4. \/ m = n
      \/ b.ready /\ m = one
      \/ b.ready /\ IsAnnouncing(b) /\ m = two
      \/ b.ready /\ b.state = "RUNNING" /\ m = three
  BY <1>1, <1>2, <1>3
<1> QED
  BY <1>4 DEF b, one, two, three, m, AnnounceEnds

LEMMA AnnouncePacketIs ==
    ASSUME NEW p \in Pcbs, NEW S \in SUBSET Services, NEW ip \in BOOLEAN, S # {} \/ ip
    PROVE  LET q == AnnouncePacket(p, S, ip) IN q \in Packets /\ q.to = p /\ Answering(q)
  BY DEF AnnouncePacket, Packets, Answering, WithHost, Owners

LEMMA AnnouncePcbKeeps ==
    ASSUME NEW n, Sound(n), NEW first, NEW p \in Pcbs, NEW S \in SUBSET n.services,
           NEW ip \in BOOLEAN, S # {} \/ ip
    PROVE  Keeps(n, AnnouncePcb(n, first, p, S, ip))
<1> DEFINE m == AnnouncePcb(n, first, p, S, ip)
           one == InitPcbProbe(n, p, S, ip)
           two == Extended(n, first[p], p, WithHost(S, ip))
           three == Announced(n, p, S, ip)
<1>0. n \in Nets /\ Proper(n) /\ n.pcb[p] \in PcbStates /\ n.services \in SUBSET Services
  BY ProperParts DEF Sound, Proper
<1>1. n.pcb[p].ready \in BOOLEAN /\ n.named \in BOOLEAN /\ S \in SUBSET Services
  BY <1>0 DEF PcbStates, Nets
<1>2. "ANNOUNCE_1" \in StateNames /\ "ANNOUNCE_1" \notin ProbeNames
          /\ "ANNOUNCE_1" \in AnnounceNames
  BY DEF StateNames, ProbeNames, AnnounceNames
<1>3. \/ m = n
      \/ n.pcb[p].ready /\ m = one
      \/ n.pcb[p].ready /\ IsAnnouncing(n.pcb[p]) /\ m = two
      \/ n.pcb[p].ready /\ n.pcb[p].state = "RUNNING" /\ m = three
  BY <1>1, AnnouncePcbCases DEF AnnounceEnds
<1>4. CASE m = n
  BY <1>4, KeepsSame
<1>5. CASE n.pcb[p].ready /\ m = one
  <2>1. Restarted(n, one, p)
    BY <1>0, InitPcbProbeIs, SoundStartable
  <2> HIDE DEF one, m
  <2> QED
    BY <1>5, <2>1, RestartedKeeps DEF m
<1>6. CASE n.pcb[p].ready /\ IsAnnouncing(n.pcb[p]) /\ m = two
  <2> DEFINE A == WithHost(S, ip)
             k == Enriched(n, first[p], A)
  <2>1. A \in SUBSET Owners
    BY <1>1, WithHostType
  <2>2. Keeps(n, k) /\ k.pcb = n.pcb /\ Mine(k, p) = Mine(n, p)
    BY <2>1, EnrichedIs
  <2>3. two = [k EXCEPT !.pcb[p].state = "ANNOUNCE_1"]
    BY <1>0 DEF Enriched, Nets, Extended
  <2> HIDE DEF k, A
  <2>4. two = WithPcb(k, p, InState(k.pcb[p], "ANNOUNCE_1"))
    BY <2>2, <2>3 DEF WithPcb, InState
  <2>5. n.pcb[p].state \notin ProbeNames /\ Mine(n, p) # {}
    BY <1>6, StateTests DEF Sound, PcbOK, ProbeNames, AnnounceNames
  <2>6. Sound(k) /\ k.pcb[p].ready
    BY <1>6, <2>2 DEF Keeps
  <2> HIDE DEF two, m
  <2>7. Keeps(k, two)
    BY <1>2, <2>2, <2>4, <2>5, <2>6, StateMoves
  <2> QED
    BY <1>6, <2>2, <2>7, KeepsChain DEF m
<1>7. CASE n.pcb[p].ready /\ n.pcb[p].state = "RUNNING" /\ m = three
  <2> DEFINE q == AnnouncePacket(p, S, ip)
             k == ScheduleTx(n, q)
  <2>1. q \in Packets /\ q.to = p /\ Answering(q)
    BY <1>1, AnnouncePacketIs
  <2>2. n.pcb[p].state \notin ProbeNames
    BY <1>7 DEF ProbeNames
  <2> HIDE DEF q
  <2>3. Keeps(n, k) /\ k.pcb = n.pcb /\ Mine(k, p) # {}
    BY <2>1, <2>2, AnswerKeeps
  <2>4. three = [k EXCEPT !.pcb[p].state = "ANNOUNCE_1"]
    BY DEF q, Announced
  <2> HIDE DEF k, three, m
  <2>5. three = WithPcb(k, p, InState(k.pcb[p], "ANNOUNCE_1"))
    BY <2>4 DEF WithPcb, InState
  <2>6. Sound(k) /\ k.pcb[p].ready
    BY <1>7, <2>3 DEF Keeps
  <2>7. Keeps(k, three)
    BY <1>2, <2>2, <2>3, <2>5, <2>6, StateMoves
  <2> QED
    BY <1>7, <2>3, <2>7, KeepsChain DEF m
<1> QED
  BY <1>3, <1>4, <1>5, <1>6, <1>7

LEMMA AnnounceAllKeeps ==
    ASSUME NEW n, Sound(n), NEW first, NEW S \in SUBSET n.services, NEW ip \in BOOLEAN,
           S # {} \/ ip
    PROVE  Keeps(n, AnnounceAllPcbs(n, first, S, ip))
<1> DEFINE Turn(p, m) == AnnouncePcb(m, first, p, S, ip)
           V == {m \in Nets : Keeps(n, m)}
           T == [c \in Pcbs \X V |-> Turn(c[1], c[2])]
           Eq(w) == w = [s \in SUBSET Pcbs |->
                            IF s = {} THEN n ELSE Turn(AnyOf(s), w[s \ {AnyOf(s)}])]
           it == CHOOSE w : Eq(w)
           G == [s \in SUBSET Pcbs |-> V]
<1>1. IsFiniteSet(Pcbs)
  BY PcbsFinite
<1>2. \A p \in Pcbs, m \in V : Turn(p, m) \in V
  <2> SUFFICES ASSUME NEW p \in Pcbs, NEW m \in V PROVE Turn(p, m) \in V
    OBVIOUS
  <2>1. Sound(m) /\ m.services = n.services
    BY NamedIs DEF Keeps, Follows
  <2>2. Keeps(m, Turn(p, m))
    BY <2>1, AnnouncePcbKeeps
  <2> HIDE DEF Turn
  <2>3. Keeps(n, Turn(p, m))
    BY <2>2, KeepsChain
  <2> QED
    BY <2>3 DEF Keeps, Sound, Proper
<1>3. n \in V
  BY KeepsSame DEF Sound, Proper
<1>4. AnnounceAllPcbs(n, first, S, ip) = it[Pcbs]
  BY Zenon DEF AnnounceAllPcbs, FoldSet, MapThenFoldSet, AnyOf
<1> HIDE DEF Turn, V
<1>5. T \in [Pcbs \X V -> V] /\ \A p \in Pcbs, m \in V : T[<<p, m>>] = Turn(p, m)
  BY <1>2
<1> HIDE DEF T
<1>6. PICK w : FoldRun(w, Pcbs, V, n, T)
  BY <1>1, <1>3, <1>5, FoldSetExists
<1>7. Eq(w)
  <2>1. \A s \in SUBSET Pcbs :
            s # {} => T[<<AnyOf(s), w[s \ {AnyOf(s)}]>>] = Turn(AnyOf(s), w[s \ {AnyOf(s)}])
    BY <1>5, <1>6, AnyIs DEF FoldRun
  <2> QED
    BY <1>6, <2>1 DEF FoldRun
<1>8. Eq(it)
  <2> HIDE DEF Eq
  <2> QED
    BY <1>7, Zenon
<1> HIDE DEF it
<1>9. it[{}] = n /\ \A s \in SUBSET Pcbs : s # {} => it[s] = Turn(AnyOf(s), it[s \ {AnyOf(s)}])
  BY <1>8
<1>10. it[{}] \in G[{}]
  BY <1>3, <1>9
<1>11. \A s \in SUBSET Pcbs : s # {} =>
            \E x \in s : it[s \ {x}] \in G[s \ {x}] => it[s] \in G[s]
  <2> SUFFICES ASSUME NEW s \in SUBSET Pcbs, s # {}
               PROVE  \E x \in s : it[s \ {x}] \in G[s \ {x}] => it[s] \in G[s]
    OBVIOUS
  <2>1. PICK x \in s : it[s] = Turn(x, it[s \ {x}])
    BY <1>9, AnyIs
  <2>2. s \ {x} \in SUBSET Pcbs /\ x \in Pcbs
    OBVIOUS
  <2>3. it[s \ {x}] \in G[s \ {x}] => it[s] \in G[s]
    BY <1>2, <2>1, <2>2
  <2> QED
    BY <2>3
<1> HIDE DEF G
<1>12. it[Pcbs] \in G[Pcbs]
  BY <1>1, <1>10, <1>11, FoldHolds
<1>13. it[Pcbs] \in V
  BY <1>12 DEF G
<1> QED
  BY <1>4, <1>13 DEF V

-----------------------------------------------------------------------------
(* Interfaces.                                                             *)

LEMMA ClosedIs ==
    /\ Closed \in PcbStates /\ Closed.state = "OFF" /\ ~Closed.ready /\ Closed.probe = {}
    /\ "OFF" \in OffNames /\ "DUP" \in OffNames
    /\ \A s \in OffNames : s \in StateNames /\ s \notin ProbeNames /\ s \notin AnnounceNames
  BY DEF Closed, PcbStates, StateNames, OffNames, ProbeNames, AnnounceNames

LEMMA DeinitKeeps ==
    ASSUME NEW n, Sound(n), NEW p \in Pcbs
    PROVE  LET m == DeinitPcb(n, p) IN
           /\ Keeps(n, m) /\ m.pcb[p] = Closed
           /\ \A q \in Pcbs : q # p => m.pcb[q] = n.pcb[q]
<1> DEFINE k == ClearPcbTx(n, p)
           m == DeinitPcb(n, p)
<1>1. Follows(n, k) /\ Beside(n, k, p) /\ k.pcb = n.pcb /\ Mine(k, p) = {}
  BY ClearPcbTxIs DEF Sound
<1>2. m = WithPcb(k, p, Closed)
  BY DEF DeinitPcb, WithPcb
<1> HIDE DEF k, m
<1>3. Follows(k, m) /\ Beside(k, m, p) /\ m.tx = k.tx /\ m.pcb[p] = Closed
  BY <1>1, <1>2, ClosedIs, WithPcbFollows, WithPcbBeside, WithPcbIs DEF Follows, Proper
<1>4. Follows(n, m) /\ Beside(n, m, p)
  BY <1>1, <1>3, FollowsChain, BesideChain
<1>5. PcbOK(m, p, m.services)
  BY <1>1, <1>3, ClosedIs DEF PcbOK, Mine
<1>6. Keeps(n, m)
  BY <1>4, <1>5, BesideSound DEF Sound
<1> QED
  BY <1>3, <1>4, <1>6 DEF Beside, m

SetUp(b) == [b EXCEPT !.ready = TRUE]

LEMMA EnablePcbKeeps ==
    ASSUME NEW n, Sound(n), NEW p \in Pcbs, NEW opens
    PROVE  Keeps(n, EnablePcb(n, p, opens))
<1>1. CASE ~(n.pcb[p].ready \/ opens)
  BY <1>1, KeepsSame DEF EnablePcb
<1>2. CASE n.pcb[p].ready \/ opens
  <2> DEFINE b == SetUp(n.pcb[p])
             k == WithPcb(n, p, b)
             m == RestartPcb(k, p)
  <2>1. n \in Nets /\ Proper(n) /\ n.pcb[p] \in PcbStates
    BY ProperParts DEF Sound, Proper
  <2>2. b \in PcbStates /\ b.ready /\ b.probe = n.pcb[p].probe
    BY <2>1 DEF PcbStates, SetUp
  <2>3. EnablePcb(n, p, opens) = m
    BY <1>2 DEF EnablePcb, WithPcb, SetUp
  <2> HIDE DEF b
  <2>4. /\ Follows(n, k) /\ Beside(n, k, p) /\ k.pcb[p] = b
        /\ k.services = n.services /\ k.named = n.named
    BY <2>1, <2>2, WithPcbFollows, WithPcbBeside, WithPcbIs
  <2> HIDE DEF k
  <2>5. Startable(k, p)
    BY <2>2, <2>4, SoundStartable DEF Startable
  <2>6. Proper(k) /\ k.services \in SUBSET k.services /\ TRUE \in BOOLEAN
    BY <2>4 DEF Follows
  <2>7. Restarted(k, m, p)
    BY <2>5, <2>6, InitPcbProbeIs DEF RestartPcb
  <2> HIDE DEF m
  <2>8. Follows(n, m) /\ Beside(n, m, p) /\ PcbOK(m, p, m.services)
    BY <2>2, <2>4, <2>7, FollowsChain, BesideChain DEF Restarted
  <2>9. Keeps(n, m)
    BY <2>1, <2>8, BesideSound DEF Sound
  <2> QED
    BY <2>3, <2>9
<1> QED
  BY <1>1, <1>2

(* A block that is not set up is marked.                                   *)
LEMMA MarkKeeps ==
    ASSUME NEW n, Sound(n), NEW p \in Pcbs, ~n.pcb[p].ready, NEW s \in OffNames
    PROVE  Keeps(n, [n EXCEPT !.pcb[p].state = s])
<1>1. n.pcb[p].state \in OffNames
  BY DEF Sound, PcbOK
<1>2. Keeps(n, WithPcb(n, p, InState(n.pcb[p], s)))
  BY <1>1, ClosedIs, StateMoves
<1>3. [n EXCEPT !.pcb[p].state = s] = WithPcb(n, p, InState(n.pcb[p], s))
  BY DEF WithPcb, InState
<1> QED
  BY <1>2, <1>3

LEMMA DisablePcbKeeps ==
    ASSUME NEW n, Sound(n), NEW p \in Pcbs, NEW opens
    PROVE  Keeps(n, DisablePcb(n, p, opens))
<1> DEFINE twins == {d \in OtherIf(p[1]) \X {p[2]} : n.pcb[d].state = "DUP"}
           twin == CHOOSE d \in twins : TRUE
           k == DeinitPcb(n, p)
           e == [k EXCEPT !.pcb[twin].state = "OFF"]
           m == DisablePcb(n, p, opens)
<1>1. /\ Keeps(n, k) /\ k.pcb[p] = Closed
      /\ \A q \in Pcbs : q # p => k.pcb[q] = n.pcb[q]
  BY DeinitKeeps
<1>2. n.pcb[p].ready \in BOOLEAN
  BY ProperParts DEF Sound, Proper, PcbStates
<1>3. m = CASE ~n.pcb[p].ready -> [n EXCEPT !.pcb[p].state = "OFF"]
            [] n.pcb[p].ready /\ twins = {} -> k
            [] OTHER -> EnablePcb(e, twin, opens)
  BY Zenon DEF DisablePcb
<1>4. twins # {} => twin \in Pcbs /\ n.pcb[twin].state = "DUP"
  BY DEF OtherIf, Pcbs
<1> HIDE DEF twins, twin, k, m, e
<1>5. CASE ~n.pcb[p].ready
  <2>1. m = [n EXCEPT !.pcb[p].state = "OFF"]
    BY <1>3, <1>5
  <2> QED
    BY <1>5, <2>1, ClosedIs, MarkKeeps DEF m
<1>6. CASE n.pcb[p].ready /\ twins = {}
  <2>1. m = k
    BY <1>3, <1>6
  <2> QED
    BY <1>1, <2>1 DEF m
<1>7. CASE n.pcb[p].ready /\ twins # {}
  <2>1. m = EnablePcb(e, twin, opens)
    BY <1>3, <1>7
  <2>2. twin \in Pcbs /\ k.pcb[twin].state \in OffNames /\ Sound(k)
    BY <1>1, <1>4, <1>7, ClosedIs DEF Keeps
  <2>3. Keeps(k, WithPcb(k, twin, InState(k.pcb[twin], "OFF")))
    BY <2>2, ClosedIs, StateMoves
  <2>4. e = WithPcb(k, twin, InState(k.pcb[twin], "OFF"))
    BY DEF e, WithPcb, InState
  <2>5. Keeps(k, e) /\ Sound(e)
    BY <2>3, <2>4 DEF Keeps
  <2>6. Keeps(e, m)
    BY <2>1, <2>2, <2>5, EnablePcbKeeps
  <2> QED
    BY <1>1, <2>5, <2>6, KeepsChain DEF m
<1> QED
  BY <1>2, <1>5, <1>6, <1>7 DEF m

LEMMA DupPcbKeeps ==
    ASSUME NEW n, Sound(n), NEW first, NEW i \in Ifs, NEW d \in Pcbs
    PROVE  Keeps(n, DupPcb(n, first, i, d))
<1> DEFINE p == <<i, d[2]>>
           k == IF n.pcb[p].ready THEN DeinitPcb(n, p) ELSE n
           e == [k EXCEPT !.pcb[p].state = "DUP"]
<1>1. p \in Pcbs
  BY DEF Pcbs
<1>2. DupPcb(n, first, i, d) = AnnouncePcb(e, first, d, {}, TRUE)
  BY Zenon DEF DupPcb
<1> HIDE DEF p
<1>3. Keeps(n, k) /\ ~k.pcb[p].ready
  BY <1>1, DeinitKeeps, KeepsSame, ClosedIs
<1> HIDE DEF k
<1>4. Keeps(k, e)
  BY <1>1, <1>3, ClosedIs, MarkKeeps DEF Keeps
<1> HIDE DEF e
<1>5. {} \in SUBSET e.services /\ TRUE \in BOOLEAN
  OBVIOUS
<1>6. Keeps(e, AnnouncePcb(e, first, d, {}, TRUE))
  BY <1>4, <1>5, AnnouncePcbKeeps DEF Keeps
<1> QED
  BY <1>2, <1>3, <1>4, <1>6, KeepsChain

LEMMA DupInterfaceKeeps ==
    ASSUME NEW n, Sound(n), NEW first, NEW i \in Ifs
    PROVE  Keeps(n, DupInterface(n, first, i))
<1> DEFINE R == {d \in OtherIf(i) \X Protos : n.pcb[d].ready}
           Turn(d, m) == DupPcb(m, first, i, d)
           V == {m \in Nets : Keeps(n, m)}
           T == [c \in R \X V |-> Turn(c[1], c[2])]
           Eq(w) == w = [s \in SUBSET R |->
                            IF s = {} THEN n ELSE Turn(AnyOf(s), w[s \ {AnyOf(s)}])]
           it == CHOOSE w : Eq(w)
           G == [s \in SUBSET R |-> V]
<1>1. R \subseteq Pcbs /\ IsFiniteSet(R)
  <2>1. R \subseteq Pcbs
    BY DEF OtherIf, Pcbs
  <2> HIDE DEF R
  <2> QED
    BY <2>1, PcbsFinite, FS_Subset
<1>2. \A d \in R, m \in V : Turn(d, m) \in V
  <2> SUFFICES ASSUME NEW d \in R, NEW m \in V PROVE Turn(d, m) \in V
    OBVIOUS
  <2>1. Sound(m) /\ d \in Pcbs
    BY <1>1 DEF Keeps
  <2>2. Keeps(m, Turn(d, m))
    BY <2>1, DupPcbKeeps
  <2> HIDE DEF Turn
  <2>3. Keeps(n, Turn(d, m))
    BY <2>2, KeepsChain
  <2> QED
    BY <2>3 DEF Keeps, Sound, Proper
<1>3. n \in V
  BY KeepsSame DEF Sound, Proper
<1>4. DupInterface(n, first, i) = it[R]
  BY Zenon DEF DupInterface, FoldSet, MapThenFoldSet, AnyOf
<1> HIDE DEF Turn, V, R
<1>5. T \in [R \X V -> V] /\ \A d \in R, m \in V : T[<<d, m>>] = Turn(d, m)
  BY <1>2
<1> HIDE DEF T
<1>6. PICK w : FoldRun(w, R, V, n, T)
  BY <1>1, <1>3, <1>5, FoldSetExists
<1>7. Eq(w)
  <2>1. \A s \in SUBSET R :
            s # {} => T[<<AnyOf(s), w[s \ {AnyOf(s)}]>>] = Turn(AnyOf(s), w[s \ {AnyOf(s)}])
    BY <1>5, <1>6, AnyIs DEF FoldRun
  <2> QED
    BY <1>6, <2>1 DEF FoldRun
<1>8. Eq(it)
  <2> HIDE DEF Eq
  <2> QED
    BY <1>7, Zenon
<1> HIDE DEF it
<1>9. it[{}] = n /\ \A s \in SUBSET R : s # {} => it[s] = Turn(AnyOf(s), it[s \ {AnyOf(s)}])
  BY <1>8
<1>10. it[{}] \in G[{}]
  BY <1>3, <1>9
<1>11. \A s \in SUBSET R : s # {} =>
            \E x \in s : it[s \ {x}] \in G[s \ {x}] => it[s] \in G[s]
  <2> SUFFICES ASSUME NEW s \in SUBSET R, s # {}
               PROVE  \E x \in s : it[s \ {x}] \in G[s \ {x}] => it[s] \in G[s]
    OBVIOUS
  <2>1. PICK x \in s : it[s] = Turn(x, it[s \ {x}])
    BY <1>9, AnyIs
  <2>2. s \ {x} \in SUBSET R /\ x \in R
    OBVIOUS
  <2>3. it[s \ {x}] \in G[s \ {x}] => it[s] \in G[s]
    BY <1>2, <2>1, <2>2
  <2> QED
    BY <2>3
<1> HIDE DEF G
<1>12. it[R] \in G[R]
  BY <1>1, <1>10, <1>11, FoldHolds
<1>13. it[R] \in V
  BY <1>12 DEF G
<1> QED
  BY <1>4, <1>13 DEF V

LEMMA EventStepKeeps ==
    ASSUME NEW n, Sound(n), NEW first, NEW opens, NEW i \in Ifs, NEW bits, NEW e
    PROVE  Keeps(n, EventStep(n, first, opens, i, bits, e))
<1> DEFINE p == <<i, e[2]>>
           m == EventStep(n, first, opens, i, bits, e)
           one == EnablePcb(n, p, opens)
           two == DisablePcb(n, p, opens)
           three == AnnouncePcb(n, first, p, {}, TRUE)
<1>1. m = n \/ (e[2] \in Protos /\ m \in {one, two, three})
  <2>1. m = CASE e \notin bits \/ e[2] \notin Protos -> n
              [] e \in bits /\ e[2] \in Protos /\ e[1] = "enable" -> one
              [] e \in bits /\ e[2] \in Protos /\ e[1] = "disable" -> two
              [] OTHER -> three
    BY Zenon DEF EventStep
  <2> HIDE DEF m, one, two, three
  <2> QED
    BY <2>1
<1>2. CASE m = n
  BY <1>2, KeepsSame
<1>3. CASE e[2] \in Protos /\ m \in {one, two, three}
  <2>1. p \in Pcbs /\ {} \in SUBSET n.services /\ TRUE \in BOOLEAN
    BY <1>3 DEF Pcbs
  <2>2. Keeps(n, one) /\ Keeps(n, two) /\ Keeps(n, three)
    BY <2>1, EnablePcbKeeps, DisablePcbKeeps, AnnouncePcbKeeps
  <2> HIDE DEF one, two, three, m
  <2>3. Keeps(n, m)
    BY <1>3, <2>2
  <2> QED
    BY <2>3 DEF m
<1> QED
  BY <1>1, <1>2, <1>3

LEMMA PerformEventKeeps ==
    ASSUME NEW n, Sound(n), NEW first, NEW opens, NEW i \in Ifs, NEW bits
    PROVE  Keeps(n, PerformEventAction(n, first, opens, i, bits))
<1> DEFINE e4 == EventStep(n, first, opens, i, bits, <<"enable", "v4">>)
           e6 == EventStep(e4, first, opens, i, bits, <<"enable", "v6">>)
           d4 == EventStep(e6, first, opens, i, bits, <<"disable", "v4">>)
           d6 == EventStep(d4, first, opens, i, bits, <<"disable", "v6">>)
           a4 == EventStep(d6, first, opens, i, bits, <<"announce", "v4">>)
           a6 == EventStep(a4, first, opens, i, bits, <<"announce", "v6">>)
<1>1. PerformEventAction(n, first, opens, i, bits) = a6
  BY Zenon DEF PerformEventAction
<1>2. Keeps(n, e4)
  BY EventStepKeeps
<1> HIDE DEF e4
<1>3. Keeps(n, e6)
  BY <1>2, EventStepKeeps, KeepsChain DEF Keeps
<1> HIDE DEF e6
<1>4. Keeps(n, d4)
  BY <1>3, EventStepKeeps, KeepsChain DEF Keeps
<1> HIDE DEF d4
<1>5. Keeps(n, d6)
  BY <1>4, EventStepKeeps, KeepsChain DEF Keeps
<1> HIDE DEF d6
<1>6. Keeps(n, a4)
  BY <1>5, EventStepKeeps, KeepsChain DEF Keeps
<1> HIDE DEF a4
<1>7. Keeps(n, a6)
  BY <1>6, EventStepKeeps, KeepsChain DEF Keeps
<1> QED
  BY <1>1, <1>7

-----------------------------------------------------------------------------
(* Transmitting and answering.                                             *)

(* An action ends with a net in order and has queued no packet.            *)
Serves(n, m) == Sound(m) /\ InOrder(m.due, n.due)

LEMMA KeepsServes == \A n, m : Keeps(n, m) => Serves(n, m)
  BY DEF Keeps, Serves, Follows

LEMMA ServesChain ==
    ASSUME NEW n, NEW m, NEW k, Serves(n, m), Serves(m, k)
    PROVE  Serves(n, k)
<1>1. InOrder(k.due, n.due)
  BY InOrderChain DEF Serves
<1> QED
  BY <1>1 DEF Serves

LEMMA PcbOKSame ==
    ASSUME NEW n, NEW m, NEW p, NEW W, NEW X, PcbOK(n, p, W), W \subseteq X,
           m.pcb = n.pcb, m.tx = n.tx, n.named => m.named
    PROVE  PcbOK(m, p, X)
<1>1. Mine(m, p) = Mine(n, p)
  BY DEF Mine
<1> QED
  BY <1>1 DEF PcbOK

LEMMA Unqueued ==
    ASSUME NEW n, Sound(n), n.due # << >>
    PROVE  LET m == [n EXCEPT !.due = Tail(@)] IN
           Keeps(n, m) /\ m.due = Tail(n.due) /\ m.tx = n.tx /\ m.pcb = n.pcb
                /\ Head(n.due) \in DOMAIN n.tx
<1> DEFINE d == Tail(n.due)
           m == [n EXCEPT !.due = Tail(@)]
<1>1. n \in Nets /\ Proper(n) /\ n.tx \in Tables /\ n.due \in Seq(Nat)
  BY ProperParts DEF Sound, Proper
<1>2. d \in Seq(Nat) /\ InOrder(d, n.due)
  BY <1>1, TailInOrder
<1>3. m = WithPackets(n, n.tx, d)
  BY <1>1 DEF WithPackets, Nets
<1>4. Range(d) \subseteq Range(n.due) /\ Head(n.due) \in Range(n.due)
  <2>1. 1 \in DOMAIN n.due /\ Head(n.due) = n.due[1]
    BY <1>1
  <2>2. \A k \in DOMAIN d : k + 1 \in DOMAIN n.due /\ d[k] = n.due[k + 1]
    BY <1>1
  <2> HIDE DEF d
  <2> QED
    BY <2>1, <2>2 DEF Range
<1> HIDE DEF d, m
<1>5. /\ m \in Nets /\ Named(m) = Named(n) /\ m.pcb = n.pcb /\ m.tx = n.tx /\ m.due = d
  BY <1>1, <1>2, <1>3, WithPacketsIs DEF Named
<1>6. m.services = n.services /\ m.own = n.own /\ m.named = n.named
  BY <1>5, NamedIs
<1>7. Proper(m) /\ Follows(n, m)
  BY <1>1, <1>2, <1>4, <1>5, <1>6 DEF Proper, Follows
<1>8. \A p \in Pcbs : PcbOK(m, p, m.services)
  BY <1>5, <1>6, PcbOKSame DEF Sound
<1> QED
  BY <1>1, <1>4, <1>5, <1>7, <1>8 DEF Keeps, Sound, Proper, m, d

(* A packet of a block that does not need it is freed.                     *)
LEMMA FreeTxKeeps ==
    ASSUME NEW n, Sound(n), NEW i \in DOMAIN n.tx, NEW p, p = n.tx[i].to,
           n.pcb[p].state \notin ProbeNames, n.pcb[p].state \notin AnnounceNames
    PROVE  Keeps(n, FreeTx(n, i))
<1> DEFINE m == FreeTx(n, i)
           kept == DOMAIN n.tx \ {i}
<1>1. n \in Nets /\ Proper(n) /\ p \in Pcbs
  BY ProperParts DEF Sound, Proper
<1>2. Dropped(n, m, kept)
  BY <1>1, KeepTxIs DEF FreeTx
<1> HIDE DEF m
<1>3. Follows(n, m) /\ Beside(n, m, p)
  BY <1>1, <1>2, DroppedFollows, DroppedBeside
<1>4. PcbOK(n, p, n.services)
  BY <1>1 DEF Sound
<1>5. /\ m.pcb = n.pcb /\ Mine(m, p) \subseteq Mine(n, p)
      /\ \A j \in Mine(m, p) : m.tx[j] = n.tx[j]
  BY <1>2 DEF Dropped, Mine
<1>6. PcbOK(m, p, m.services)
  BY <1>4, <1>5 DEF PcbOK
<1> QED
  BY <1>1, <1>3, <1>6, BesideSound DEF Sound, m

LEMMA AnnounceFromProbeIs ==
    ASSUME NEW q \in Packets, q.other # {}
    PROVE  LET a == AnnounceFromProbe(q) IN
           a \in Packets /\ a.to = q.to /\ Answering(a)
  BY DEF AnnounceFromProbe, Packets, Answering, Owners

Rested(b) == [b EXCEPT !.probe = {}, !.ip = FALSE, !.running = FALSE]

(* The last probe of p is sent: packet i is freed and an announcement with *)
(* its records takes its place.                                            *)
ProbeEnds(n, i, p) ==
    FreeTx([ScheduleTx([n EXCEPT !.pcb[p].state = "ANNOUNCE_1"], AnnounceFromProbe(n.tx[i]))
                EXCEPT !.pcb[p] = Rested(@)], i)

LEMMA ProbeEndsKeeps ==
    ASSUME NEW n, Sound(n), NEW i \in DOMAIN n.tx, NEW p, p = n.tx[i].to,
           n.pcb[p].state = "PROBE_3"
    PROVE  Keeps(n, ProbeEnds(n, i, p))
<1> DEFINE b == InState(n.pcb[p], "ANNOUNCE_1")
           on == [n EXCEPT !.pcb[p].state = "ANNOUNCE_1"]
           q == AnnounceFromProbe(n.tx[i])
           k == ScheduleTx(on, q)
           a == FreeAddress(on)
           c == Rested(b)
           e == [k EXCEPT !.pcb[p] = Rested(@)]
           kept == DOMAIN e.tx \ {i}
           m == FreeTx(e, i)
<1>1. /\ n \in Nets /\ Proper(n) /\ p \in Pcbs /\ n.pcb[p] \in PcbStates
      /\ n.tx[i] \in Packets
  BY ProperParts DEF Sound, Proper
<1>2. "ANNOUNCE_1" \in StateNames /\ "ANNOUNCE_1" \notin ProbeNames
          /\ "PROBE_3" \in ProbeNames
  BY DEF StateNames, AnnounceNames, ProbeNames
<1>3. /\ Mine(n, p) = {i} /\ Asking(n.tx[i], Probed(n.pcb[p])) /\ Probed(n.pcb[p]) # {}
      /\ n.pcb[p].ready
  <2>1. PcbOK(n, p, n.services)
    BY <1>1 DEF Sound
  <2>2. i \in Mine(n, p)
    BY DEF Mine
  <2> QED
    BY <1>2, <2>1, <2>2 DEF PcbOK
<1>4. q \in Packets /\ q.to = p /\ Answering(q)
  BY <1>1, <1>3, AnnounceFromProbeIs DEF Asking
<1>5. b \in PcbStates /\ b.state = "ANNOUNCE_1" /\ b.ready
  BY <1>1, <1>2, <1>3, InStateIs
<1>6. c \in PcbStates /\ c.state = "ANNOUNCE_1" /\ c.ready /\ c.probe = {}
  BY <1>5 DEF PcbStates, Rested
<1>7. on = WithPcb(n, p, b)
  BY DEF WithPcb, InState
<1> HIDE DEF q, b, on
<1>8. /\ Follows(n, on) /\ Beside(n, on, p) /\ on.tx = n.tx /\ on.pcb[p] = b
      /\ Proper(on) /\ on \in Nets
  BY <1>1, <1>5, <1>7, WithPcbFollows, WithPcbBeside, WithPcbIs DEF Follows, Proper
<1>9. Added(on, k, a, q)
  BY <1>4, <1>8, ScheduleTxIs
<1> HIDE DEF k, a
<1>10. /\ Follows(on, k) /\ Beside(on, k, p) /\ k.pcb[p] = b /\ Proper(k) /\ k \in Nets
       /\ a \notin DOMAIN on.tx /\ DOMAIN k.tx = DOMAIN on.tx \cup {a} /\ k.tx[a] = q
       /\ \A j \in DOMAIN on.tx : k.tx[j] = on.tx[j]
  <2>1. Follows(on, k) /\ Beside(on, k, p)
    BY <1>4, <1>8, <1>9, AddedFollows, AddedBeside
  <2> QED
    BY <1>8, <1>9, <2>1 DEF Added, Follows
<1>11. e = WithPcb(k, p, c)
  <2>1. k.pcb[p] = b
    BY <1>10
  <2> HIDE DEF k
  <2> QED
    BY <2>1 DEF WithPcb
<1> HIDE DEF e, c
<1>12. /\ Follows(k, e) /\ Beside(k, e, p) /\ e.tx = k.tx /\ e.pcb[p] = c
       /\ Proper(e) /\ e \in Nets
  BY <1>1, <1>6, <1>10, <1>11, WithPcbFollows, WithPcbBeside, WithPcbIs DEF Follows, Proper
<1>13. Dropped(e, m, kept)
  BY <1>12, KeepTxIs DEF FreeTx
<1> HIDE DEF m
<1>14. e.tx[i].to = p /\ \A j \in DOMAIN e.tx : e.tx[j].to # p => j \in kept
  BY <1>8, <1>10, <1>12
<1>15. Follows(e, m) /\ Beside(e, m, p)
  BY <1>12, <1>13, <1>14, DroppedFollows, DroppedBeside
<1>16. Mine(m, p) = {a} /\ m.tx[a] = q /\ m.pcb[p] = c
  <2>1. /\ DOMAIN e.tx = DOMAIN n.tx \cup {a} /\ e.tx[a] = q /\ a # i
        /\ \A j \in DOMAIN n.tx : e.tx[j] = n.tx[j]
    BY <1>8, <1>10, <1>12
  <2>2. /\ DOMAIN m.tx = kept /\ \A j \in kept : m.tx[j] = e.tx[j]
        /\ m.pcb[p] = c
    BY <1>12, <1>13 DEF Dropped
  <2>3. \A j \in DOMAIN n.tx : n.tx[j].to = p => j = i
    BY <1>3 DEF Mine
  <2> QED
    BY <1>4, <2>1, <2>2, <2>3 DEF Mine
<1>17. PcbOK(m, p, m.services)
  BY <1>2, <1>4, <1>6, <1>16 DEF PcbOK
<1>18. Follows(n, m) /\ Beside(n, m, p)
  BY <1>8, <1>10, <1>12, <1>15, FollowsChain, BesideChain
<1>19. Keeps(n, m)
  BY <1>1, <1>17, <1>18, BesideSound DEF Sound
<1>20. ProbeEnds(n, i, p) = m
  BY DEF ProbeEnds, m, e, k, on, q
<1> QED
  BY <1>19, <1>20

LEMMA TxHandlePacketKeeps ==
    ASSUME NEW n, Sound(n), NEW i \in DOMAIN n.tx
    PROVE  Keeps(n, TxHandlePacket(n, i))
<1> DEFINE p == n.tx[i].to
           s == n.pcb[p].state
           on == [n EXCEPT !.pcb[p].state = Successor(s)]
           probed == ProbeEnds(n, i, p)
           m == TxHandlePacket(n, i)
<1>1. n \in Nets /\ p \in Pcbs /\ n.pcb[p] \in PcbStates
  BY ProperParts DEF Sound, Proper
<1>2. PcbOK(n, p, n.services) /\ i \in Mine(n, p)
  BY <1>1 DEF Sound, Mine
<1>3. s = "PROBE_3" =>
        on = [n EXCEPT !.pcb[p].state = "ANNOUNCE_1"]
  BY Successors
<1>4. m = CASE s \in {"PROBE_1", "PROBE_2", "ANNOUNCE_1", "ANNOUNCE_2"} -> on
            [] s = "PROBE_3" -> probed
            [] s = "ANNOUNCE_3" -> FreeTx(on, i)
            [] OTHER -> FreeTx(n, i)
  <2> DEFINE drop == FreeTx([ScheduleTx(on, AnnounceFromProbe(n.tx[i])) EXCEPT
                                !.pcb[p] = Rested(@)], i)
  <2>1. m = CASE s \in {"PROBE_1", "PROBE_2", "ANNOUNCE_1", "ANNOUNCE_2"} -> on
              [] s = "PROBE_3" -> drop
              [] s = "ANNOUNCE_3" -> FreeTx(on, i)
              [] OTHER -> FreeTx(n, i)
    BY Zenon DEF TxHandlePacket, Rested
  <2>2. ASSUME s = "PROBE_3" PROVE drop = probed
    <3> DEFINE on1 == [n EXCEPT !.pcb[p].state = "ANNOUNCE_1"]
    <3>1. on = on1
      BY <1>3, <2>2
    <3>2. probed = FreeTx([ScheduleTx(on1, AnnounceFromProbe(n.tx[i])) EXCEPT
                                !.pcb[p] = Rested(@)], i)
      BY Zenon DEF ProbeEnds
    <3> HIDE DEF on, on1, probed
    <3> QED
      BY <3>1, <3>2, Zenon
  <2> HIDE DEF drop, probed, s, on, m
  <2> QED
    BY <2>1, <2>2
<1>5. on = WithPcb(n, p, InState(n.pcb[p], Successor(s)))
  BY DEF WithPcb, InState
<1> HIDE DEF m, on, probed
<1>6. /\ {"PROBE_1", "PROBE_2", "PROBE_3"} = ProbeNames
      /\ {"ANNOUNCE_1", "ANNOUNCE_2", "ANNOUNCE_3"} = AnnounceNames
      /\ "RUNNING" \notin ProbeNames \cup AnnounceNames
      /\ "PROBE_3" \notin AnnounceNames
      /\ ProbeNames \cup AnnounceNames \cup {"RUNNING"} \subseteq StateNames
      /\ ProbeNames \cap AnnounceNames = {} /\ ProbeNames \cap OffNames = {}
      /\ AnnounceNames \cap OffNames = {}
  BY DEF StateNames, ProbeNames, AnnounceNames, OffNames
<1>7. ASSUME s \in {"PROBE_1", "PROBE_2", "ANNOUNCE_1", "ANNOUNCE_2", "ANNOUNCE_3"}
      PROVE  Keeps(n, on)
  <2>1. n.pcb[p].ready
    <3>1. s \in ProbeNames \cup AnnounceNames
      BY <1>6, <1>7
    <3> HIDE DEF s
    <3> QED
      BY <1>2, <1>6, <3>1 DEF PcbOK, s
  <2>2. /\ Successor(s) \in StateNames
        /\ s \in ProbeNames <=> Successor(s) \in ProbeNames
    <3> HIDE DEF s
    <3> QED
      BY <1>6, <1>7, Successors DEF ProbeNames, AnnounceNames, StateNames
  <2> QED
    BY <1>1, <1>2, <1>5, <2>1, <2>2, StateMoves
<1>8. CASE s \in {"PROBE_1", "PROBE_2", "ANNOUNCE_1", "ANNOUNCE_2"}
  <2>1. m = on
    BY <1>4, <1>8
  <2> QED
    BY <1>7, <1>8, <2>1 DEF m
<1>9. CASE s = "PROBE_3"
  <2>1. m = probed
    BY <1>4, <1>9
  <2> QED
    BY <1>9, <2>1, ProbeEndsKeeps DEF m, probed
<1>10. CASE s = "ANNOUNCE_3"
  <2>1. m = FreeTx(on, i)
    BY <1>4, <1>10
  <2>2. Keeps(n, on)
    BY <1>7, <1>10
  <2>3. Successor(s) = "RUNNING"
    BY <1>10, Successors
  <2>4. on.tx = n.tx /\ on.pcb[p].state = "RUNNING"
    <3> DEFINE b == InState(n.pcb[p], Successor(s))
    <3>1. n.pcb[p] \in PcbStates /\ Successor(s) \in StateNames
      BY <1>1, <1>6, <2>3
    <3>2. b \in PcbStates /\ b.state = "RUNNING"
      BY <2>3, <3>1, InStateIs
    <3> HIDE DEF b
    <3>3. on = WithPcb(n, p, b)
      BY <1>5 DEF b
    <3> QED
      BY <1>1, <3>2, <3>3, WithPcbIs
  <2>5. Sound(on) /\ i \in DOMAIN on.tx /\ p = on.tx[i].to
    BY <2>2, <2>4 DEF Keeps
  <2>6. Keeps(on, m)
    BY <1>6, <2>1, <2>4, <2>5, FreeTxKeeps
  <2> QED
    BY <2>2, <2>6, KeepsChain DEF m
<1>11. CASE s \notin ProbeNames \cup AnnounceNames
  <2>1. m = FreeTx(n, i)
    <3> HIDE DEF s
    <3> QED
      BY <1>4, <1>6, <1>11
  <2> QED
    BY <1>11, <2>1, FreeTxKeeps DEF m
<1> QED
  BY <1>6, <1>8, <1>9, <1>10, <1>11 DEF m

(* A transmit action takes the packet it is about from the queued ones, or *)
(* changes nothing because that packet is not the first of them.           *)
LEMMA TxHandleServes ==
    ASSUME NEW n, Sound(n), NEW i
    PROVE  /\ Sound(TxHandle(n, i)) /\ TxHandle(n, i).services = n.services
           /\ \/ InOrder(TxHandle(n, i).due, n.due) /\ (n.due = << >> \/ Head(n.due) # i)
              \/ n.due # << >> /\ InOrder(TxHandle(n, i).due, Tail(n.due))
<1>1. CASE n.due = << >> \/ Head(n.due) # i
  BY <1>1, InOrderSame DEF TxHandle
<1>2. CASE n.due # << >> /\ Head(n.due) = i
  <2> DEFINE k == [n EXCEPT !.due = Tail(@)]
             m == TxHandle(n, i)
  <2>1. m = TxHandlePacket(k, i)
    BY <1>2 DEF TxHandle
  <2>2. Keeps(n, k) /\ k.due = Tail(n.due) /\ k.tx = n.tx /\ i \in DOMAIN n.tx
    BY <1>2, Unqueued
  <2> HIDE DEF k, m
  <2>3. Keeps(k, m)
    BY <2>1, <2>2, TxHandlePacketKeeps DEF Keeps
  <2>4. m.services = n.services
    BY <2>2, <2>3, NamedIs DEF Keeps, Follows
  <2> QED
    BY <1>2, <2>2, <2>3, <2>4 DEF Keeps, Follows, m
<1> QED
  BY <1>1, <1>2

(* The answer to a shared question is scheduled, unless the block probes.  *)
LEMMA AnswerQueryKeeps ==
    ASSUME NEW n, Sound(n), NEW p \in Pcbs, NEW asked, asked \subseteq n.services \cup {"host"},
           asked # {}
    PROVE  Keeps(n, AnswerQuery(n, p, asked))
<1> DEFINE q == AnswerPacket(p, asked)
<1>1. n \in Nets /\ n.services \in SUBSET Services
  BY ProperParts DEF Sound, Proper
<1>2. q \in Packets /\ q.to = p /\ Answering(q)
  BY <1>1 DEF AnswerPacket, Packets, Answering, Owners
<1>3. CASE n.pcb[p].state \in Range(Announces) \cup {"RUNNING"}
  <2>1. n.pcb[p].state \notin ProbeNames
    BY <1>3, RangesAre DEF ProbeNames, AnnounceNames
  <2> HIDE DEF q
  <2>2. Keeps(n, ScheduleTx(n, q))
    BY <1>2, <2>1, AnswerKeeps
  <2> QED
    BY <1>3, <2>2 DEF AnswerQuery, q
<1>4. CASE n.pcb[p].state \notin Range(Announces) \cup {"RUNNING"}
  BY <1>4, KeepsSame DEF AnswerQuery
<1> QED
  BY <1>3, <1>4

-----------------------------------------------------------------------------
(* What a received packet does.  Only a packet of a block that was closed  *)
(* meanwhile can end with a block that probes without being set up.        *)

Strays(n) == \E p \in Pcbs : ~n.pcb[p].ready /\ n.pcb[p].state \in ProbeNames

KeepsOrStrays(n, m) == Follows(n, m) /\ (Strays(m) \/ Sound(m))

LEMMA KeepsOr == \A n, m : Keeps(n, m) => KeepsOrStrays(n, m)
  BY DEF Keeps, KeepsOrStrays

LEMMA LoneProbe ==
    ASSUME NEW n, Sound(n), n.named, NEW p \in Pcbs, NEW S \in SUBSET n.services,
           NEW ip \in BOOLEAN, S # {} \/ ip
    PROVE  KeepsOrStrays(n, InitPcbProbe(n, p, S, ip))
<1> DEFINE m == InitPcbProbe(n, p, S, ip)
<1>1. Restarted(n, m, p)
  BY InitPcbProbeIs, SoundStartable DEF Sound
<1> HIDE DEF m
<1>2. CASE n.pcb[p].ready
  BY <1>1, <1>2, RestartedKeeps, KeepsOr DEF m
<1>3. CASE ~n.pcb[p].ready
  <2>1. Strays(m)
    BY <1>1, <1>3 DEF Restarted, Strays
  <2> QED
    BY <1>1, <2>1 DEF Restarted, KeepsOrStrays, m
<1> QED
  BY <1>2, <1>3

LEMMA SrvCollisionKeeps ==
    ASSUME NEW n, Sound(n), n.named, NEW p \in Pcbs, NEW s \in n.services
    PROVE  KeepsOrStrays(n, SrvCollision(n, p, s))
<1> DEFINE m == SrvCollision(n, p, s)
           one == InitPcbProbe(n, p, {s}, FALSE)
           two == ProbeAllPcbs(n, {s}, FALSE, FALSE)
           three == RestartAllPcbsNoInstance(n)
           four == RestartAllPcbs(n)
<1>1. m \in {one, two, three, four}
  <2>1. m = CASE ~n.pcb[p].running -> one
              [] n.pcb[p].running /\ s \in n.own -> two
              [] n.pcb[p].running /\ s \notin n.own /\ n.titled -> three
              [] OTHER -> four
    BY Zenon DEF SrvCollision
  <2> HIDE DEF m, one, two, three, four
  <2> QED
    BY <2>1
<1>2. {s} \in SUBSET n.services /\ {s} # {} /\ FALSE \in BOOLEAN
  OBVIOUS
<1>3. KeepsOrStrays(n, one)
  BY <1>2, LoneProbe
<1>4. KeepsOrStrays(n, two) /\ KeepsOrStrays(n, three) /\ KeepsOrStrays(n, four)
  BY <1>2, ProbeAllKeeps, RestartNoInstanceKeeps, RestartAllKeeps, KeepsOr
<1> HIDE DEF m, one, two, three, four
<1>5. KeepsOrStrays(n, m)
  BY <1>1, <1>3, <1>4
<1> QED
  BY <1>5 DEF m

LEMMA RxKeeps ==
    ASSUME NEW n, Sound(n), NEW first, NEW p \in Pcbs, NEW m \in RxOutcomes(n, first, p)
    PROVE  KeepsOrStrays(n, m)
<1>1. CASE m = n
  BY <1>1, KeepsSame, KeepsOr
<1>2. CASE m # n
  <2>1. n.named /\ m \in {DupInterface(n, first, p[1]), AddressCollision(n, p)}
            \cup {AnswerQuery(n, p, asked) : asked \in (SUBSET (n.services \cup {"host"})) \ {{}}}
            \cup {SrvCollision(n, p, s) : s \in n.services}
            \cup {TxtCollision(n, p, s) : s \in n.services}
    BY <1>2 DEF RxOutcomes
  <2>2. CASE m = DupInterface(n, first, p[1])
    <3>1. p[1] \in Ifs
      BY DEF Pcbs
    <3> QED
      BY <2>2, <3>1, DupInterfaceKeeps, KeepsOr
  <2>3. CASE m = AddressCollision(n, p)
    <3>1. {} \in SUBSET n.services /\ TRUE \in BOOLEAN
      OBVIOUS
    <3>2. CASE n.pcb[p].running
      BY <2>3, <3>2, RestartAllKeeps, KeepsOr DEF AddressCollision
    <3>3. CASE ~n.pcb[p].running
      BY <2>1, <2>3, <3>1, <3>3, LoneProbe DEF AddressCollision
    <3> QED
      BY <3>2, <3>3
  <2>4. ASSUME NEW asked \in (SUBSET (n.services \cup {"host"})) \ {{}},
               m = AnswerQuery(n, p, asked)
        PROVE  KeepsOrStrays(n, m)
    <3>1. asked \subseteq n.services \cup {"host"} /\ asked # {}
      BY <2>4, Zenon
    <3>2. Keeps(n, AnswerQuery(n, p, asked))
      BY <3>1, AnswerQueryKeeps
    <3> QED
      BY <2>4, <3>2, KeepsOr
  <2>5. ASSUME NEW s \in n.services, m = SrvCollision(n, p, s)
        PROVE  KeepsOrStrays(n, m)
    BY <2>1, <2>5, SrvCollisionKeeps
  <2>6. ASSUME NEW s \in n.services, m = TxtCollision(n, p, s)
        PROVE  KeepsOrStrays(n, m)
    <3>1. {s} \in SUBSET n.services /\ {s} # {} /\ TRUE \in BOOLEAN
      OBVIOUS
    <3>2. CASE n.pcb[p].running
      BY <2>6, <3>2, KeepsSame, KeepsOr DEF TxtCollision
    <3>3. CASE ~n.pcb[p].running
      BY <2>1, <2>6, <3>1, <3>3, LoneProbe DEF TxtCollision
    <3> QED
      BY <3>2, <3>3
  <2> QED
    BY <2>1, <2>2, <2>3, <2>4, <2>5, <2>6
<1> QED
  BY <1>1, <1>2

-----------------------------------------------------------------------------
(* Removing a service: packet by packet, until no block probes for it.     *)

(* What the packet and the block are once s is taken out of both.          *)
WithoutCases(b, q, s, b2, q2) ==
    /\ b2 \in PcbStates /\ q2 \in Packets /\ q2.to = q.to /\ b2.ready = b.ready
    /\ s \notin b2.probe
    /\ b.state \in ProbeNames => \/ /\ b2.state = b.state /\ Probed(b2) # {}
                                    /\ b2.probe \subseteq b.probe /\ Asking(q2, Probed(b2))
                                 \/ /\ b2.state = "RUNNING" /\ b2.probe = {}
                                    /\ q2.asks = {} /\ q2.other = {}
    /\ b.state \notin ProbeNames =>
        /\ b2.probe = {} /\ q2.asks = {} /\ q2.other \subseteq {"host"}
        /\ \/ b2.state = b.state
              /\ (b.state \in AnnounceNames => q2.answers # {} \/ q2.other # {})
           \/ b.state \in AnnounceNames /\ b2.state = "RUNNING"

LEMMA ProbeWithoutIs ==
    ASSUME NEW b \in PcbStates, NEW s \in Services
    PROVE  LET d == ProbeWithout(b, s) IN
           /\ d \in PcbStates /\ d.ready = b.ready /\ d.ip = b.ip /\ d.probe = b.probe \ {s}
           /\ d.state = b.state \/ d.state = "RUNNING"
           /\ d.state # b.state => b.probe = {s} /\ ~b.ip
           /\ b.probe = {s} /\ ~b.ip => d.state = "RUNNING"
<1>1. "RUNNING" \in StateNames
  BY DEF StateNames
<1>2. CASE b.probe # {s}
  <2>1. ProbeWithout(b, s) = [b EXCEPT !.probe = @ \ {s}]
    BY <1>2 DEF ProbeWithout
  <2> QED
    BY <1>2, <2>1 DEF PcbStates
<1>3. CASE b.probe = {s}
  <2> DEFINE r == (b.running /\ b.ip)
             t == IF b.ip THEN b.state ELSE "RUNNING"
             d == [b EXCEPT !.probe = {}, !.running = r, !.state = t]
  <2>1. ProbeWithout(b, s) = d
    BY <1>3 DEF ProbeWithout
  <2>2. r \in BOOLEAN /\ t \in StateNames /\ b.ip \in BOOLEAN
    BY <1>1 DEF PcbStates
  <2> HIDE DEF r
  <2>3. d \in PcbStates /\ d.ready = b.ready /\ d.ip = b.ip /\ d.probe = {} /\ d.state = t
    BY <2>2 DEF PcbStates
  <2> QED
    BY <1>3, <2>1, <2>2, <2>3
<1> QED
  BY <1>2, <1>3

LEMMA WithoutIs ==
    ASSUME NEW b \in PcbStates, NEW q \in Packets, NEW s \in Services,
           b.state \in ProbeNames => b.ready /\ Asking(q, Probed(b)) /\ Probed(b) # {},
           b.state \notin ProbeNames => b.probe = {} /\ Answering(q),
           ~b.ready => b.state \in OffNames
    PROVE  WithoutCases(b, q, s, PcbWithout(b, s, q), PacketWithout(q, b, s))
<1> DEFINE d == PcbWithout(b, s, q)
           r == PacketWithout(q, b, s)
           hit == b.ready /\ IsProbing(b) /\ s \in b.probe
           lost == b.ready /\ IsAnnouncing(b) /\ q.answers = {s}
           asks == IF hit THEN q.asks \ {s} ELSE q.asks
<1>0. s # "host" /\ b.ready \in BOOLEAN
  BY ResponderAssumption DEF PcbStates
<1>1. d = CASE hit -> ProbeWithout(b, s)
            [] lost -> [b EXCEPT !.state = "RUNNING"]
            [] OTHER -> b
  BY Zenon DEF PcbWithout
<1>2. /\ r \in Packets /\ r.to = q.to /\ r.answers = q.answers \ {s}
      /\ r.other = q.other \ {s} /\ r.asks = asks
  <2>1. r = [q EXCEPT !.answers = @ \ {s}, !.other = @ \ {s}, !.asks = asks]
    BY DEF PacketWithout, Packets
  <2>2. asks \in SUBSET Owners
    BY DEF Packets
  <2> HIDE DEF asks, r
  <2> QED
    BY <2>1, <2>2 DEF Packets
<1>3. /\ IsProbing(b) <=> b.state \in {"DUP", "INIT"} \cup ProbeNames
      /\ IsAnnouncing(b) <=> b.state \in AnnounceNames
  BY StateTests
<1>4. /\ ProbeNames \cap AnnounceNames = {} /\ ProbeNames \cap OffNames = {}
      /\ AnnounceNames \cap OffNames = {} /\ "RUNNING" \in StateNames
      /\ "RUNNING" \notin ProbeNames
      /\ {"DUP", "INIT"} \cap AnnounceNames = {}
  BY DEF StateNames, ProbeNames, AnnounceNames, OffNames
<1> HIDE DEF d, r
<1>5. CASE b.state \in ProbeNames /\ s \in b.probe
  <2>1. hit
    BY <1>3, <1>5
  <2>2. d = ProbeWithout(b, s) /\ r.asks = q.asks \ {s}
    <3>1. asks = q.asks \ {s}
      BY <2>1
    <3>2. d = ProbeWithout(b, s)
      <4>1. (CASE hit -> ProbeWithout(b, s)
               [] lost -> [b EXCEPT !.state = "RUNNING"]
               [] OTHER -> b) = ProbeWithout(b, s)
        <5>1. ~lost
          BY <1>3, <1>4, <1>5
        <5> HIDE DEF hit, lost
        <5> QED
          BY <2>1, <5>1
      <4> QED
        BY <1>1, <4>1
    <3> HIDE DEF hit, lost, asks
    <3> QED
      BY <1>2, <3>1, <3>2
  <2>3. /\ d \in PcbStates /\ d.ready = b.ready /\ d.ip = b.ip /\ d.probe = b.probe \ {s}
        /\ d.state = b.state \/ d.state = "RUNNING"
        /\ d.state # b.state => b.probe = {s} /\ ~b.ip
        /\ b.probe = {s} /\ ~b.ip => d.state = "RUNNING"
    BY <2>2, ProbeWithoutIs
  <2>4. q.asks = Probed(b) /\ q.other = Probed(b)
    BY <1>5 DEF Asking
  <2>5. Probed(d) = Probed(b) \ {s}
    BY <1>0, <2>3 DEF Probed, WithHost
  <2>6. CASE d.state = b.state
    <3>1. ~(b.probe = {s} /\ ~b.ip)
      BY <1>4, <1>5, <2>3, <2>6
    <3>2. Probed(d) # {}
      BY <1>5, <2>3, <3>1 DEF Probed, WithHost
    <3>3. Asking(r, Probed(d))
      BY <1>2, <2>2, <2>4, <2>5 DEF Asking
    <3> QED
      BY <1>2, <1>5, <2>3, <2>6, <3>2, <3>3 DEF WithoutCases, d, r
  <2>7. CASE d.state # b.state
    <3>1. Probed(b) = {s}
      BY <2>3, <2>7 DEF Probed, WithHost
    <3>2. r.asks = {} /\ r.other = {}
      BY <1>2, <2>2, <2>4, <3>1
    <3> QED
      BY <1>2, <1>5, <2>3, <2>7, <3>2 DEF WithoutCases, d, r
  <2> QED
    BY <2>6, <2>7
<1>6. CASE b.state \in ProbeNames /\ s \notin b.probe
  <2>1. ~hit /\ ~lost
    BY <1>3, <1>4, <1>6
  <2>2. d = b /\ r.asks = q.asks
    BY <1>1, <1>2, <2>1
  <2>3. q.asks = Probed(b) /\ q.other = Probed(b) /\ s \notin Probed(b)
    BY <1>0, <1>6 DEF Asking, Probed, WithHost
  <2>4. Asking(r, Probed(b))
    BY <1>2, <2>2, <2>3 DEF Asking
  <2> QED
    BY <1>2, <1>6, <2>2, <2>4 DEF WithoutCases, d, r
<1>7. CASE b.state \notin ProbeNames
  <2>1. b.probe = {} /\ Answering(q) /\ ~hit
    BY <1>7
  <2>2. r.asks = {} /\ r.other = q.other /\ r.other \subseteq {"host"}
    BY <1>0, <1>2, <2>1 DEF Answering
  <2>3. CASE lost
    <3>1. d = [b EXCEPT !.state = "RUNNING"]
      BY <1>1, <2>1, <2>3
    <3>2. d \in PcbStates /\ d.state = "RUNNING" /\ d.ready = b.ready /\ d.probe = {}
      BY <1>4, <2>1, <3>1 DEF PcbStates
    <3>3. b.state \in AnnounceNames
      BY <1>3, <2>3
    <3> QED
      BY <1>2, <1>7, <2>2, <3>2, <3>3 DEF WithoutCases, d, r
  <2>4. CASE ~lost
    <3>1. d = b
      BY <1>1, <2>1, <2>4
    <3>2. b.state \in AnnounceNames => r.answers # {} \/ r.other # {}
      <4> SUFFICES ASSUME b.state \in AnnounceNames PROVE r.answers # {} \/ r.other # {}
        OBVIOUS
      <4>1. b.ready /\ q.answers # {s}
        BY <1>0, <1>3, <1>4, <2>4
      <4> QED
        BY <1>2, <2>1, <2>2, <4>1 DEF Answering
    <3> QED
      BY <1>2, <1>7, <2>1, <2>2, <3>1, <3>2 DEF WithoutCases, d, r
  <2> QED
    BY <2>3, <2>4
<1> QED
  BY <1>5, <1>6, <1>7

(* One packet and its block are changed.                                   *)
Patch(n, p, i, b, q) == [n EXCEPT !.pcb[p] = b, !.tx[i] = q]

Patched(n, m, p, i, b, q) ==
    /\ Follows(n, m) /\ Beside(n, m, p) /\ m.pcb[p] = b /\ Mine(m, p) = Mine(n, p)
    /\ DOMAIN m.tx = DOMAIN n.tx /\ m.tx[i] = q
    /\ \A j \in DOMAIN n.tx : m.tx[j].to = n.tx[j].to /\ (j # i => m.tx[j] = n.tx[j])

LEMMA PatchIs ==
    ASSUME NEW n, Proper(n), NEW i \in DOMAIN n.tx, NEW p, p = n.tx[i].to,
           NEW b \in PcbStates, NEW q \in Packets, q.to = p
    PROVE  Patched(n, Patch(n, p, i, b, q), p, i, b, q)
<1> DEFINE k == WithPcb(n, p, b)
           t == [n.tx EXCEPT ![i] = q]
           m == Patch(n, p, i, b, q)
<1>1. n \in Nets /\ p \in Pcbs /\ n.tx \in Tables
  BY ProperParts DEF Proper
<1>2. /\ Follows(n, k) /\ Beside(n, k, p) /\ k.tx = n.tx /\ k.pcb[p] = b
      /\ k \in Nets /\ k.due \in Seq(Nat) /\ k.due = n.due
  <2>1. /\ Follows(n, k) /\ Beside(n, k, p) /\ k.tx = n.tx /\ k.pcb[p] = b /\ k \in Nets
        /\ k.due = n.due
    BY <1>1, WithPcbFollows, WithPcbBeside, WithPcbIs
  <2> HIDE DEF k
  <2> QED
    BY <2>1, ProperParts
<1>3. /\ DOMAIN t = DOMAIN n.tx /\ t[i] = q /\ \A j \in DOMAIN n.tx : j # i => t[j] = n.tx[j]
      /\ t = [j \in DOMAIN t |-> t[j]]
  OBVIOUS
<1>4. t \in Tables
  <2>1. \A j \in DOMAIN n.tx : n.tx[j] \in Packets
    BY <1>1, TableIs
  <2>2. \A j \in DOMAIN t : t[j] \in Packets
    BY <1>3, <2>1
  <2>3. DOMAIN t \in SUBSET Nat /\ IsFiniteSet(DOMAIN t)
    BY <1>1, <1>3, TableIs
  <2> HIDE DEF t
  <2> QED
    BY <1>3, <2>2, <2>3, TableIs
<1>5. m = WithPackets(k, t, k.due)
  <2>1. m = [k EXCEPT !.tx = t]
    BY <1>1, <1>2 DEF Patch, WithPcb
  <2> HIDE DEF k, t, m
  <2> QED
    BY <1>2, <2>1 DEF WithPackets, Nets
<1> HIDE DEF k, t, m
<1>6. /\ m \in Nets /\ Named(m) = Named(k) /\ m.pcb = k.pcb /\ m.tx = t /\ m.due = k.due
  BY <1>2, <1>4, <1>5, WithPacketsIs DEF Named
<1>7. Follows(k, m)
  <2>1. m.services = k.services /\ m.own = k.own
    BY <1>6, NamedIs
  <2> QED
    BY <1>2, <1>3, <1>6, <2>1, InOrderSame DEF Follows, Proper
<1>8. Follows(n, m)
  BY <1>2, <1>7, FollowsChain
<1>9. \A j \in DOMAIN n.tx : m.tx[j].to = n.tx[j].to
  BY <1>3, <1>6
<1>10. \A r : Mine(m, r) = Mine(n, r)
  BY <1>3, <1>6, <1>9 DEF Mine
<1>11. Beside(n, m, p)
  BY <1>2, <1>3, <1>6, <1>10 DEF Beside, Mine
<1> QED
  BY <1>2, <1>3, <1>6, <1>8, <1>9, <1>10, <1>11 DEF Patched, m

(* Taking s out, with the packets "left" still to be seen to.              *)
Removing(n, m, W, s, left) ==
    /\ Follows(n, m) /\ \A p \in Pcbs : PcbOK(m, p, W)
    /\ left \subseteq DOMAIN m.tx /\ DOMAIN m.tx \subseteq DOMAIN n.tx
    /\ \A i \in DOMAIN m.tx : i \notin left => s \notin m.pcb[m.tx[i].to].probe

LEMMA WithoutKeeps ==
    ASSUME NEW n, NEW W, NEW p \in Pcbs, PcbOK(n, p, W), NEW i \in Mine(n, p), NEW s,
           NEW b, NEW q, NEW k, Patched(n, k, p, i, b, q),
           WithoutCases(n.pcb[p], n.tx[i], s, b, q), NEW m,
           \/ ~IsEmptyPacket(q) /\ m = k
           \/ IsEmptyPacket(q) /\ Dropped(k, m, DOMAIN k.tx \ {i})
    PROVE  PcbOK(m, p, W)
<1> DEFINE rest == Mine(n, p) \ {i}
<1>1. /\ m.pcb[p] = b /\ k.pcb[p] = b /\ m.named = n.named
      /\ rest \subseteq Mine(m, p) /\ \A j \in rest : m.tx[j] = n.tx[j]
      /\ Mine(m, p) \subseteq rest \cup {i}
  <2>1. /\ k.pcb[p] = b /\ Mine(k, p) = Mine(n, p) /\ k.named = n.named
        /\ \A j \in rest : k.tx[j] = n.tx[j]
    BY NamedIs DEF Patched, Follows, Mine
  <2>2. CASE m = k
    BY <2>1, <2>2
  <2>3. CASE Dropped(k, m, DOMAIN k.tx \ {i})
    <3>1. m.named = k.named /\ m.pcb = k.pcb
      BY <2>3, NamedIs DEF Dropped
    <3>2. Mine(m, p) = Mine(k, p) \ {i} /\ \A j \in Mine(m, p) : m.tx[j] = k.tx[j]
      BY <2>3 DEF Dropped, Mine
    <3> QED
      BY <2>1, <3>1, <3>2
  <2> QED
    BY <2>2, <2>3
<1>2. /\ IsEmptyPacket(q) => i \notin Mine(m, p)
      /\ ~IsEmptyPacket(q) => i \in Mine(m, p) /\ m.tx[i] = q
  <2>1. k.tx[i] = q /\ i \in Mine(k, p)
    BY DEF Patched
  <2> QED
    BY <2>1 DEF Dropped, Mine
<1>3. /\ ProbeNames \cap AnnounceNames = {} /\ "RUNNING" \notin ProbeNames
      /\ "RUNNING" \notin AnnounceNames
  BY DEF ProbeNames, AnnounceNames
<1>4. CASE n.pcb[p].state \in ProbeNames
  <2>1. /\ Mine(n, p) = {i} /\ n.named /\ n.pcb[p].ready /\ n.pcb[p].probe \subseteq W
    BY <1>4 DEF PcbOK
  <2>2. b.ready = n.pcb[p].ready
    BY DEF WithoutCases
  <2>3. CASE b.state = n.pcb[p].state /\ Probed(b) # {} /\ b.probe \subseteq n.pcb[p].probe
                 /\ Asking(q, Probed(b))
    <3>1. ~IsEmptyPacket(q)
      BY <2>3 DEF IsEmptyPacket, Asking
    <3>2. Mine(m, p) = {i} /\ m.tx[i] = q /\ i \in DOMAIN m.tx
      BY <1>1, <1>2, <2>1, <3>1 DEF Mine
    <3> QED
      BY <1>1, <1>3, <1>4, <2>1, <2>2, <2>3, <3>2 DEF PcbOK
  <2>4. CASE b.state = "RUNNING" /\ b.probe = {} /\ q.asks = {} /\ q.other = {}
    <3>1. \A j \in Mine(m, p) : Answering(m.tx[j])
      BY <1>1, <1>2, <2>1, <2>4 DEF Answering, IsEmptyPacket
    <3> QED
      BY <1>1, <1>3, <2>1, <2>2, <2>4, <3>1 DEF PcbOK
  <2> QED
    BY <1>4, <2>3, <2>4 DEF WithoutCases
<1>5. CASE n.pcb[p].state \notin ProbeNames
  <2>1. b.ready = n.pcb[p].ready /\ b.probe = {} /\ q.asks = {} /\ q.other \subseteq {"host"}
    BY <1>5 DEF WithoutCases
  <2>2. \A j \in Mine(m, p) : Answering(m.tx[j])
    <3> SUFFICES ASSUME NEW j \in Mine(m, p) PROVE Answering(m.tx[j])
      OBVIOUS
    <3>1. CASE j = i
      BY <1>2, <2>1, <3>1 DEF Answering, IsEmptyPacket
    <3>2. CASE j # i
      BY <1>1, <1>5, <3>2 DEF PcbOK
    <3> QED
      BY <3>1, <3>2
  <2>3. CASE b.state = n.pcb[p].state /\
                (b.state \in AnnounceNames => q.answers # {} \/ q.other # {})
    <3>1. b.state \in AnnounceNames => i \in Mine(m, p)
      BY <1>2, <2>3 DEF IsEmptyPacket
    <3> QED
      BY <1>1, <1>5, <2>1, <2>2, <2>3, <3>1 DEF PcbOK
  <2>4. CASE n.pcb[p].state \in AnnounceNames /\ b.state = "RUNNING"
    <3>1. n.pcb[p].ready
      BY <2>4 DEF PcbOK, AnnounceNames, OffNames
    <3> QED
      BY <1>1, <1>3, <2>1, <2>2, <2>4, <3>1 DEF PcbOK
  <2> QED
    BY <1>5, <2>3, <2>4 DEF WithoutCases
<1> QED
  BY <1>4, <1>5

LEMMA RemoveTurn ==
    ASSUME NEW n, NEW m, NEW W, NEW s \in Services, NEW left, Removing(n, m, W, s, left),
           NEW i \in left
    PROVE  Removing(n, RemoveServiceFrom(m, i, s), W, s, left \ {i})
<1> DEFINE o == m.tx[i]
           p == o.to
           b == PcbWithout(m.pcb[p], s, o)
           q == PacketWithout(o, m.pcb[p], s)
           k == Patch(m, p, i, b, q)
           e == RemoveServiceFrom(m, i, s)
<1>1. /\ Follows(n, m) /\ Proper(m) /\ m \in Nets /\ i \in DOMAIN m.tx /\ o \in Packets
      /\ p \in Pcbs /\ m.pcb[p] \in PcbStates /\ PcbOK(m, p, W) /\ i \in Mine(m, p)
  <2>1. Follows(n, m) /\ Proper(m) /\ m \in Nets /\ i \in DOMAIN m.tx
    BY DEF Removing, Follows, Proper
  <2>2. o \in Packets /\ p \in Pcbs /\ m.pcb \in [Pcbs -> PcbStates]
    BY <2>1, ProperParts
  <2>3. PcbOK(m, p, W)
    BY <2>2 DEF Removing
  <2> QED
    BY <2>1, <2>2, <2>3 DEF Mine
<1>2. WithoutCases(m.pcb[p], o, s, b, q)
  <2>1. m.pcb[p].state \in ProbeNames =>
            m.pcb[p].ready /\ Asking(o, Probed(m.pcb[p])) /\ Probed(m.pcb[p]) # {}
    BY <1>1 DEF PcbOK
  <2>2. m.pcb[p].state \notin ProbeNames => m.pcb[p].probe = {} /\ Answering(o)
    BY <1>1 DEF PcbOK
  <2>3. ~m.pcb[p].ready => m.pcb[p].state \in OffNames
    BY <1>1 DEF PcbOK
  <2> HIDE DEF o, p
  <2> QED
    BY <1>1, <2>1, <2>2, <2>3, WithoutIs
<1>3. e = DetachIfEmpty(k, i)
  BY <1>1, Zenon DEF RemoveServiceFrom, Patch
<1> HIDE DEF b, q
<1>4. b \in PcbStates /\ q \in Packets /\ q.to = p /\ s \notin b.probe
          /\ b.probe \subseteq m.pcb[p].probe
  BY <1>2 DEF WithoutCases
<1>5. Patched(m, k, p, i, b, q)
  BY <1>1, <1>4, PatchIs
<1> HIDE DEF e, k, p, o
<1>6. k.tx[i] = q /\ DOMAIN k.tx = DOMAIN m.tx /\ Follows(m, k) /\ Proper(k) /\ k \in Nets
  BY <1>5 DEF Patched, Follows, Proper
<1>7. \/ ~IsEmptyPacket(q) /\ e = k
      \/ IsEmptyPacket(q) /\ Dropped(k, e, DOMAIN k.tx \ {i})
  BY <1>3, <1>6, KeepTxIs DEF DetachIfEmpty
<1>8. Follows(k, e) /\ Beside(k, e, p)
  <2>1. CASE e = k
    BY <1>6, <2>1, FollowsSame DEF Beside
  <2>2. CASE Dropped(k, e, DOMAIN k.tx \ {i})
    BY <1>4, <1>6, <2>2, DroppedFollows, DroppedBeside
  <2> QED
    BY <1>7, <2>1, <2>2
<1>9. Follows(n, e) /\ Beside(m, e, p) /\ Follows(m, e)
  BY <1>1, <1>5, <1>6, <1>8, FollowsChain, BesideChain DEF Patched
<1>10. PcbOK(e, p, W)
  BY <1>1, <1>2, <1>5, <1>7, WithoutKeeps DEF o
<1>11. ASSUME NEW r \in Pcbs PROVE PcbOK(e, r, W)
  <2>1. CASE r = p
    BY <1>10, <2>1
  <2>2. CASE r # p
    <3>1. e.named = m.named /\ PcbOK(m, r, W)
      BY <1>9, NamedIs DEF Follows, Removing
    <3> QED
      BY <1>9, <2>2, <3>1, BesideKeeps
  <2> QED
    BY <2>1, <2>2
<1>12. /\ DOMAIN m.tx \ {i} \subseteq DOMAIN e.tx /\ DOMAIN e.tx \subseteq DOMAIN m.tx
       /\ \A j \in DOMAIN e.tx : e.tx[j].to = m.tx[j].to /\ e.tx[j].to \in Pcbs
       /\ e.pcb[p] = b
  <2>1. \A j \in DOMAIN k.tx : k.tx[j].to = m.tx[j].to /\ k.tx[j].to \in Pcbs
    BY <1>1, <1>5, ProperParts DEF Patched
  <2>2. k.pcb[p] = b
    BY <1>5 DEF Patched
  <2>3. CASE e = k
    BY <1>6, <2>1, <2>2, <2>3
  <2>4. CASE Dropped(k, e, DOMAIN k.tx \ {i})
    BY <1>6, <2>1, <2>2, <2>4 DEF Dropped
  <2> QED
    BY <1>7, <2>3, <2>4
<1>13. ASSUME NEW j \in DOMAIN e.tx, j \notin left \ {i}
       PROVE  s \notin e.pcb[e.tx[j].to].probe
  <2>1. CASE e.tx[j].to = p
    BY <1>4, <1>12, <2>1
  <2>2. CASE e.tx[j].to # p
    <3>1. j \in DOMAIN m.tx /\ j # i
      BY <1>12, <2>2 DEF p, o
    <3>2. s \notin m.pcb[m.tx[j].to].probe
      BY <1>13, <3>1 DEF Removing
    <3>3. e.pcb[e.tx[j].to] = m.pcb[m.tx[j].to]
      BY <1>9, <1>12, <2>2 DEF Beside
    <3> QED
      BY <3>2, <3>3
  <2> QED
    BY <2>1, <2>2
<1>14. left \ {i} \subseteq DOMAIN e.tx /\ DOMAIN e.tx \subseteq DOMAIN n.tx
  BY <1>12 DEF Removing
<1> QED
  BY <1>9, <1>11, <1>13, <1>14 DEF Removing, e

LEMMA RemoveScheduledIs ==
    ASSUME NEW n, Proper(n), NEW W, \A p \in Pcbs : PcbOK(n, p, W), NEW s \in Services
    PROVE  Removing(n, RemoveScheduledServicePackets(n, s), W, s, {})
<1> DEFINE R == DOMAIN n.tx
           Turn(i, m) == RemoveServiceFrom(m, i, s)
           V == Nets
           T == [c \in R \X V |-> IF Turn(c[1], c[2]) \in Nets THEN Turn(c[1], c[2]) ELSE n]
           Eq(w) == w = [d \in SUBSET R |->
                            IF d = {} THEN n ELSE Turn(AnyOf(d), w[d \ {AnyOf(d)}])]
           it == CHOOSE w : Eq(w)
           G == [d \in SUBSET R |-> {m \in Nets : Removing(n, m, W, s, R \ d)}]
<1>1. n \in Nets /\ IsFiniteSet(R)
  BY ProperParts, TableIs DEF Proper
<1>2. ASSUME NEW d \in SUBSET R, NEW x \in d, NEW m, m \in Nets, Removing(n, m, W, s, R \ (d \ {x}))
      PROVE  Turn(x, m) \in Nets /\ Removing(n, Turn(x, m), W, s, R \ d)
  <2>1. x \in R \ (d \ {x}) /\ (R \ (d \ {x})) \ {x} = R \ d
    OBVIOUS
  <2> HIDE DEF R
  <2>2. Removing(n, Turn(x, m), W, s, R \ d)
    BY <1>2, <2>1, RemoveTurn
  <2> HIDE DEF Turn
  <2> QED
    BY <2>2 DEF Removing, Follows, Proper
<1>3. Removing(n, n, W, s, R)
  BY FollowsSame DEF Removing
<1>4. RemoveScheduledServicePackets(n, s) = it[R]
  BY Zenon DEF RemoveScheduledServicePackets, FoldSet, MapThenFoldSet, AnyOf
<1> HIDE DEF Turn, R
<1>5. T \in [R \X V -> V] /\ \A i \in R, m \in V : Turn(i, m) \in Nets => T[<<i, m>>] = Turn(i, m)
  BY <1>1
<1> HIDE DEF T
<1>6. PICK w : FoldRun(w, R, V, n, T)
  BY <1>1, <1>5, FoldSetExists
<1>7. w[{}] \in G[{}]
  <2>1. w[{}] = n
    BY <1>6 DEF FoldRun
  <2>2. R \ {} = R
    OBVIOUS
  <2> QED
    BY <1>1, <1>3, <2>1, <2>2
<1>8. ASSUME NEW d \in SUBSET R, d # {}, w[d \ {AnyOf(d)}] \in G[d \ {AnyOf(d)}]
      PROVE  w[d] = Turn(AnyOf(d), w[d \ {AnyOf(d)}]) /\ w[d] \in G[d]
  <2> DEFINE x == AnyOf(d)
             m == w[d \ {x}]
  <2>1. x \in d /\ w[d] = T[<<x, m>>] /\ d \ {x} \in SUBSET R
    BY <1>6, <1>8, AnyIs DEF FoldRun
  <2>2. m \in Nets /\ Removing(n, m, W, s, R \ (d \ {x}))
    BY <1>8, <2>1
  <2> HIDE DEF x, m
  <2>3. Turn(x, m) \in Nets /\ Removing(n, Turn(x, m), W, s, R \ d)
    BY <1>2, <2>1, <2>2
  <2>4. x \in R
    BY <2>1
  <2>5. w[d] = Turn(x, m)
    BY <1>5, <2>1, <2>2, <2>3, <2>4
  <2> QED
    BY <2>3, <2>5 DEF x, m
<1> HIDE DEF G
<1>9. \A d \in SUBSET R : w[d] \in G[d]
  <2> SUFFICES ASSUME NEW d \in SUBSET R PROVE w[d] \in G[d]
    OBVIOUS
  <2>1. IsFiniteSet(d)
    BY <1>1, FS_Subset
  <2>2. \A c \in SUBSET d : c # {} => \E x \in c : w[c \ {x}] \in G[c \ {x}] => w[c] \in G[c]
    <3> SUFFICES ASSUME NEW c \in SUBSET d, c # {}
                 PROVE  \E x \in c : w[c \ {x}] \in G[c \ {x}] => w[c] \in G[c]
      OBVIOUS
    <3>1. AnyOf(c) \in c /\ c \in SUBSET R
      BY AnyIs
    <3> QED
      BY <1>8, <3>1
  <2> QED
    BY <1>7, <2>1, <2>2, FoldHolds
<1>10. \A d \in SUBSET R : d # {} => w[d] = Turn(AnyOf(d), w[d \ {AnyOf(d)}])
  <2> SUFFICES ASSUME NEW d \in SUBSET R, d # {}
               PROVE  w[d] = Turn(AnyOf(d), w[d \ {AnyOf(d)}])
    OBVIOUS
  <2>1. d \ {AnyOf(d)} \in SUBSET R
    OBVIOUS
  <2> QED
    BY <1>8, <1>9, <2>1
<1>11. Eq(w)
  <2>1. w = [d \in SUBSET R |-> w[d]] /\ w[{}] = n
    BY <1>6 DEF FoldRun
  <2> QED
    BY <1>10, <2>1
<1>12. Eq(it)
  <2> HIDE DEF Eq
  <2> QED
    BY <1>11, Zenon
<1> HIDE DEF it
<1>13. it[{}] = n /\ \A d \in SUBSET R : d # {} => it[d] = Turn(AnyOf(d), it[d \ {AnyOf(d)}])
  BY <1>12
<1>14. it[{}] \in G[{}]
  <2>1. w[{}] = n
    BY <1>6 DEF FoldRun
  <2> QED
    BY <1>7, <1>13, <2>1
<1>15. \A d \in SUBSET R : d # {} => \E x \in d : it[d \ {x}] \in G[d \ {x}] => it[d] \in G[d]
  <2> SUFFICES ASSUME NEW d \in SUBSET R, d # {}
               PROVE  \E x \in d : it[d \ {x}] \in G[d \ {x}] => it[d] \in G[d]
    OBVIOUS
  <2>1. PICK x \in d : it[d] = Turn(x, it[d \ {x}])
    BY <1>13, AnyIs
  <2>2. d \ {x} \in SUBSET R
    OBVIOUS
  <2>3. it[d \ {x}] \in G[d \ {x}] => it[d] \in G[d]
    BY <1>2, <2>1, <2>2 DEF G
  <2> QED
    BY <2>3
<1>16. it[R] \in G[R]
  BY <1>1, <1>14, <1>15, FoldHolds
<1>17. R \ R = {}
  OBVIOUS
<1> QED
  BY <1>4, <1>16, <1>17 DEF G

(* The names change, the blocks and the packets do not.                    *)
WithNames(n, S, O, named, titled) ==
    [n EXCEPT !.services = S, !.own = O, !.named = named, !.titled = titled]

LEMMA WithNamesIs ==
    ASSUME NEW n, Proper(n), NEW S \in SUBSET Services, NEW O \in SUBSET S,
           NEW named \in BOOLEAN, NEW titled \in BOOLEAN
    PROVE  LET m == WithNames(n, S, O, named, titled) IN
           /\ Proper(m) /\ m.services = S /\ m.own = O /\ m.named = named /\ m.due = n.due
           /\ m.pcb = n.pcb /\ m.tx = n.tx
<1> DEFINE m == WithNames(n, S, O, named, titled)
<1>1. O \in SUBSET Services
  OBVIOUS
<1>2. /\ m \in Nets /\ m.services = S /\ m.own = O /\ m.named = named /\ m.due = n.due
      /\ m.pcb = n.pcb /\ m.tx = n.tx
  BY <1>1 DEF Nets, WithNames, Proper
<1> HIDE DEF m
<1>3. Proper(m)
  BY <1>2 DEF Proper
<1> QED
  BY <1>2, <1>3 DEF m

(* Names are given, services are added.                                    *)
LEMMA WithNamesServes ==
    ASSUME NEW n, Sound(n), NEW S \in SUBSET Services, NEW O \in SUBSET S,
           NEW named \in BOOLEAN, NEW titled \in BOOLEAN,
           n.services \subseteq S, n.named => named
    PROVE  Serves(n, WithNames(n, S, O, named, titled))
<1> DEFINE m == WithNames(n, S, O, named, titled)
<1>1. /\ Proper(m) /\ m.services = S /\ m.named = named /\ m.due = n.due
      /\ m.pcb = n.pcb /\ m.tx = n.tx
  BY WithNamesIs DEF Sound
<1> HIDE DEF m
<1>2. ASSUME NEW p \in Pcbs PROVE PcbOK(m, p, m.services)
  <2>1. PcbOK(n, p, n.services)
    BY DEF Sound
  <2> QED
    BY <1>1, <2>1, PcbOKSame
<1> QED
  BY <1>1, <1>2, InOrderSame DEF Serves, Sound, m

(* The fields of a net one by one.                                         *)
LEMMA FieldsAre ==
    ASSUME NEW n \in Nets, NEW S, NEW O
    PROVE  /\ [n EXCEPT !.named = TRUE] = WithNames(n, n.services, n.own, TRUE, n.titled)
           /\ [n EXCEPT !.titled = TRUE] = WithNames(n, n.services, n.own, n.named, TRUE)
           /\ [n EXCEPT !.services = S] = WithNames(n, S, n.own, n.named, n.titled)
           /\ [n EXCEPT !.own = O] = WithNames(n, n.services, O, n.named, n.titled)
           /\ [n EXCEPT !.services = S, !.own = O]
                  = WithNames(n, S, O, n.named, n.titled)
           /\ n.named \in BOOLEAN /\ n.titled \in BOOLEAN
<1>1. n.named \in BOOLEAN /\ n.titled \in BOOLEAN
  BY DEF Nets
<1>2. [n EXCEPT !.named = TRUE] = WithNames(n, n.services, n.own, TRUE, n.titled)
  BY DEF WithNames, Nets
<1>3. [n EXCEPT !.titled = TRUE] = WithNames(n, n.services, n.own, n.named, TRUE)
  BY DEF WithNames, Nets
<1>4. [n EXCEPT !.services = S] = WithNames(n, S, n.own, n.named, n.titled)
  BY DEF WithNames, Nets
<1>5. [n EXCEPT !.own = O] = WithNames(n, n.services, O, n.named, n.titled)
  BY DEF WithNames, Nets
<1>6. [n EXCEPT !.services = S, !.own = O] = WithNames(n, S, O, n.named, n.titled)
  BY DEF WithNames, Nets
<1> QED
  BY <1>1, <1>2, <1>3, <1>4, <1>5, <1>6

LEMMA RemoveServiceServes ==
    ASSUME NEW n, Sound(n), NEW s \in Services
    PROVE  LET m == RemoveService(n, s) IN
           Serves(n, m) /\ m.services = n.services \ {s}
<1> DEFINE k == [n EXCEPT !.services = @ \ {s}, !.own = @ \ {s}]
           m == RemoveService(n, s)
           S == n.services \ {s}
           W == n.services
<1>1. /\ n \in Nets /\ Proper(n) /\ n.services \in SUBSET Services
      /\ n.own \subseteq n.services
  BY ProperParts DEF Sound, Proper
<1>2. k = WithNames(n, S, n.own \ {s}, n.named, n.titled)
  <2> DEFINE O == n.own \ {s}
  <2>1. k = [n EXCEPT !.services = S, !.own = O]
    BY <1>1 DEF Nets
  <2> HIDE DEF S, O, k
  <2>2. [n EXCEPT !.services = S, !.own = O] = WithNames(n, S, O, n.named, n.titled)
    BY <1>1, FieldsAre, Zenon
  <2> QED
    BY <2>1, <2>2 DEF O
<1>3. m = RemoveScheduledServicePackets(k, s)
  BY DEF RemoveService
<1> HIDE DEF k, m
<1>4. /\ Proper(k) /\ k.services = S /\ k.named = n.named /\ k.due = n.due
      /\ k.pcb = n.pcb /\ k.tx = n.tx
  <2> DEFINE O == n.own \ {s}
  <2>1. S \in SUBSET Services /\ O \in SUBSET S
    BY <1>1
  <2>2. n.named \in BOOLEAN /\ n.titled \in BOOLEAN
    BY <1>1 DEF Nets
  <2>3. k = WithNames(n, S, O, n.named, n.titled)
    BY <1>2
  <2> HIDE DEF S, O
  <2> QED
    BY <1>1, <2>1, <2>2, <2>3, WithNamesIs
<1>5. \A p \in Pcbs : PcbOK(k, p, W)
  <2> SUFFICES ASSUME NEW p \in Pcbs PROVE PcbOK(k, p, W)
    OBVIOUS
  <2>1. PcbOK(n, p, W)
    BY DEF Sound
  <2> QED
    BY <1>4, <2>1, PcbOKSame
<1>6. Removing(k, m, W, s, {})
  BY <1>3, <1>4, <1>5, RemoveScheduledIs
<1>7. Proper(m) /\ m.services = S /\ InOrder(m.due, n.due)
  BY <1>4, <1>6, NamedIs DEF Removing, Follows
<1>8. ASSUME NEW p \in Pcbs PROVE PcbOK(m, p, S)
  <2>1. PcbOK(m, p, W)
    BY <1>6 DEF Removing
  <2>2. m.pcb[p].state \in ProbeNames => s \notin m.pcb[p].probe
    <3> SUFFICES ASSUME m.pcb[p].state \in ProbeNames PROVE s \notin m.pcb[p].probe
      OBVIOUS
    <3>1. PICK i \in DOMAIN m.tx : Mine(m, p) = {i}
      BY <2>1 DEF PcbOK
    <3>2. m.tx[i].to = p
      BY <3>1 DEF Mine
    <3> QED
      BY <1>6, <3>1, <3>2 DEF Removing
  <2> QED
    BY <2>1, <2>2 DEF PcbOK
<1> QED
  BY <1>7, <1>8 DEF Serves, Sound, m

LEMMA ServicesClearServes ==
    ASSUME NEW n, Sound(n)
    PROVE  Serves(n, FoldSet(LAMBDA s, m : RemoveService(m, s), n, n.services))
<1> DEFINE R == n.services
           Turn(s, m) == RemoveService(m, s)
           V == {m \in Nets : Serves(n, m)}
           T == [c \in R \X V |-> Turn(c[1], c[2])]
           Eq(w) == w = [d \in SUBSET R |->
                            IF d = {} THEN n ELSE Turn(AnyOf(d), w[d \ {AnyOf(d)}])]
           it == CHOOSE w : Eq(w)
           G == [d \in SUBSET R |-> V]
<1>1. R \in SUBSET Services /\ IsFiniteSet(R)
  BY ResponderAssumption, ProperParts, FS_Subset DEF Sound, Proper
<1>2. \A s \in R, m \in V : Turn(s, m) \in V
  <2> SUFFICES ASSUME NEW s \in R, NEW m \in V PROVE Turn(s, m) \in V
    OBVIOUS
  <2>1. Sound(m) /\ s \in Services
    BY <1>1 DEF Serves
  <2>2. Serves(m, Turn(s, m))
    BY <2>1, RemoveServiceServes
  <2> HIDE DEF Turn
  <2>3. Serves(n, Turn(s, m))
    BY <2>2, ServesChain
  <2> QED
    BY <2>3 DEF Serves, Sound, Proper
<1>3. n \in V
  BY InOrderSame DEF Sound, Proper, Serves
<1>4. FoldSet(LAMBDA s, m : RemoveService(m, s), n, n.services) = it[R]
  BY Zenon DEF FoldSet, MapThenFoldSet, AnyOf
<1> HIDE DEF Turn, V, R
<1>5. T \in [R \X V -> V] /\ \A s \in R, m \in V : T[<<s, m>>] = Turn(s, m)
  BY <1>2
<1> HIDE DEF T
<1>6. PICK w : FoldRun(w, R, V, n, T)
  BY <1>1, <1>3, <1>5, FoldSetExists
<1>7. Eq(w)
  <2>1. \A d \in SUBSET R :
            d # {} => T[<<AnyOf(d), w[d \ {AnyOf(d)}]>>] = Turn(AnyOf(d), w[d \ {AnyOf(d)}])
    BY <1>5, <1>6, AnyIs DEF FoldRun
  <2> QED
    BY <1>6, <2>1 DEF FoldRun
<1>8. Eq(it)
  <2> HIDE DEF Eq
  <2> QED
    BY <1>7, Zenon
<1> HIDE DEF it
<1>9. it[{}] = n /\ \A d \in SUBSET R : d # {} => it[d] = Turn(AnyOf(d), it[d \ {AnyOf(d)}])
  BY <1>8
<1>10. it[{}] \in G[{}]
  BY <1>3, <1>9
<1>11. \A d \in SUBSET R : d # {} =>
            \E x \in d : it[d \ {x}] \in G[d \ {x}] => it[d] \in G[d]
  <2> SUFFICES ASSUME NEW d \in SUBSET R, d # {}
               PROVE  \E x \in d : it[d \ {x}] \in G[d \ {x}] => it[d] \in G[d]
    OBVIOUS
  <2>1. PICK x \in d : it[d] = Turn(x, it[d \ {x}])
    BY <1>9, AnyIs
  <2>2. d \ {x} \in SUBSET R /\ x \in R
    OBVIOUS
  <2>3. it[d \ {x}] \in G[d \ {x}] => it[d] \in G[d]
    BY <1>2, <2>1, <2>2
  <2> QED
    BY <2>3
<1> HIDE DEF G
<1>12. it[R] \in G[R]
  BY <1>1, <1>10, <1>11, FoldHolds
<1>13. it[R] \in V
  BY <1>12 DEF G
<1> QED
  BY <1>4, <1>13, Zenon DEF V, R

-----------------------------------------------------------------------------
(* The queue: transmit actions stand in it in the order of the packets.    *)

LEMMA InOrderLonger ==
    ASSUME NEW a, NEW q, NEW r, InOrder(a, q), DOMAIN q \subseteq DOMAIN r,
           \A k \in DOMAIN q : r[k] = q[k]
    PROVE  InOrder(a, r)
<1>1. PICK at \in [DOMAIN a -> DOMAIN q] :
           /\ \A k \in DOMAIN a : q[at[k]] = a[k]
           /\ \A j, k \in DOMAIN a : j < k => at[j] < at[k]
  BY DEF InOrder
<1>2. at \in [DOMAIN a -> DOMAIN r]
  BY <1>1
<1>3. \A k \in DOMAIN a : r[at[k]] = a[k]
  BY <1>1
<1> QED
  BY <1>1, <1>2, <1>3 DEF InOrder

LEMMA InOrderBoth ==
    ASSUME NEW X, NEW a \in Seq(X), NEW q \in Seq(X), NEW x \in X, InOrder(a, q)
    PROVE  InOrder(Append(a, x), Append(q, x))
<1> DEFINE c == Append(a, x)
           r == Append(q, x)
           n == Len(a)
           l == Len(q)
<1>1. PICK at \in [DOMAIN a -> DOMAIN q] :
           /\ \A k \in DOMAIN a : q[at[k]] = a[k]
           /\ \A j, k \in DOMAIN a : j < k => at[j] < at[k]
  BY DEF InOrder
<1> DEFINE to == [k \in 1 .. n + 1 |-> IF k = n + 1 THEN l + 1 ELSE at[k]]
<1>2. /\ n \in Nat /\ l \in Nat /\ DOMAIN a = 1 .. n /\ DOMAIN q = 1 .. l
      /\ DOMAIN c = 1 .. n + 1 /\ DOMAIN r = 1 .. l + 1 /\ c[n + 1] = x /\ r[l + 1] = x
      /\ \A k \in 1 .. n : c[k] = a[k]
      /\ \A h \in 1 .. l : r[h] = q[h]
  OBVIOUS
<1> HIDE DEF c, r, n, l
<1>3. \A k \in 1 .. n + 1 : k \in 1 .. n \/ k = n + 1
  BY <1>2
<1>4. \A k \in 1 .. n : k \in 1 .. n + 1 /\ to[k] = at[k] /\ at[k] \in 1 .. l
  BY <1>1, <1>2
<1>5. to[n + 1] = l + 1 /\ l + 1 \in 1 .. l + 1 /\ n + 1 \in 1 .. n + 1
  BY <1>2
<1>6. DOMAIN to = 1 .. n + 1 /\ to = [k \in 1 .. n + 1 |-> to[k]]
  OBVIOUS
<1> HIDE DEF to
<1>7. to \in [DOMAIN c -> DOMAIN r]
  <2>1. \A k \in 1 .. n + 1 : to[k] \in 1 .. l + 1
    BY <1>2, <1>3, <1>4, <1>5
  <2> QED
    BY <1>2, <1>6, <2>1
<1>8. \A k \in DOMAIN c : r[to[k]] = c[k]
  <2> SUFFICES ASSUME NEW k \in 1 .. n + 1 PROVE r[to[k]] = c[k]
    BY <1>2
  <2>1. CASE k = n + 1
    BY <1>2, <1>5, <2>1
  <2>2. CASE k \in 1 .. n
    <3>1. to[k] = at[k] /\ at[k] \in 1 .. l /\ q[at[k]] = a[k]
      BY <1>1, <1>2, <1>4, <2>2
    <3>2. r[at[k]] = q[at[k]] /\ c[k] = a[k]
      BY <1>2, <2>2, <3>1
    <3> QED
      BY <3>1, <3>2
  <2> QED
    BY <1>3, <2>1, <2>2
<1>9. \A j, k \in DOMAIN c : j < k => to[j] < to[k]
  <2> SUFFICES ASSUME NEW j \in 1 .. n + 1, NEW k \in 1 .. n + 1, j < k
               PROVE  to[j] < to[k]
    BY <1>2
  <2>1. j \in 1 .. n
    BY <1>2
  <2>2. CASE k = n + 1
    BY <1>2, <1>4, <1>5, <2>1, <2>2
  <2>3. CASE k \in 1 .. n
    BY <1>1, <1>2, <1>4, <2>1, <2>3
  <2> QED
    BY <1>3, <2>2, <2>3
<1> QED
  BY <1>7, <1>8, <1>9 DEF InOrder, c, r

(* What is found in order in a sequence is, less its head or for another   *)
(* head, found in the rest of it.                                          *)
LEMMA InOrderTail ==
    ASSUME NEW X, NEW a \in Seq(X), NEW q \in Seq(X), a # << >>, q # << >>, InOrder(a, q)
    PROVE  /\ InOrder(Tail(a), Tail(q))
           /\ Head(a) # Head(q) => InOrder(a, Tail(q))
<1> DEFINE c == Tail(a)
           r == Tail(q)
           n == Len(a)
           l == Len(q)
<1>1. PICK at \in [DOMAIN a -> DOMAIN q] :
           /\ \A k \in DOMAIN a : q[at[k]] = a[k]
           /\ \A j, k \in DOMAIN a : j < k => at[j] < at[k]
  BY DEF InOrder
<1> DEFINE to == [k \in 1 .. n - 1 |-> at[k + 1] - 1]
           by == [k \in 1 .. n |-> at[k] - 1]
<1>2. /\ n \in Nat /\ l \in Nat /\ n >= 1 /\ l >= 1 /\ DOMAIN a = 1 .. n /\ DOMAIN q = 1 .. l
      /\ DOMAIN c = 1 .. n - 1 /\ DOMAIN r = 1 .. l - 1 /\ Head(a) = a[1] /\ Head(q) = q[1]
      /\ \A k \in 1 .. n - 1 : c[k] = a[k + 1]
      /\ \A h \in 1 .. l - 1 : r[h] = q[h + 1]
  OBVIOUS
<1>0. /\ \A x, y \in Nat : x > 1 /\ x <= y => x - 1 \in 1 .. y - 1 /\ (x - 1) + 1 = x
      /\ \A x, y \in Nat : x < y => x - 1 < y - 1
  OBVIOUS
<1>3. \A k \in 1 .. n - 1 : to[k] = at[k + 1] - 1
  OBVIOUS
<1>4. \A k \in 1 .. n : by[k] = at[k] - 1
  OBVIOUS
<1>5. to = [k \in 1 .. n - 1 |-> to[k]] /\ by = [k \in 1 .. n |-> by[k]]
  OBVIOUS
<1> HIDE DEF c, r, n, l, to, by
<1>6. \A k \in 1 .. n : at[k] \in Nat /\ 1 <= at[k] /\ at[k] <= l
  <2>1. \A k \in 1 .. n : at[k] \in 1 .. l
    BY <1>1, <1>2
  <2> QED
    BY <1>2, <2>1
<1>10. \A j, k \in 1 .. n : j < k => at[j] < at[k]
  BY <1>1, <1>2
<1>7. \A k \in 1 .. n : k > 1 => at[k] > 1
  <2> SUFFICES ASSUME NEW k \in 1 .. n, k > 1 PROVE at[k] > 1
    OBVIOUS
  <2>1. 1 \in 1 .. n /\ 1 < k
    BY <1>2
  <2>2. at[1] < at[k] /\ at[1] \in Nat /\ at[k] \in Nat /\ 1 <= at[1]
    BY <1>6, <1>10, <2>1
  <2> QED
    BY <2>2
<1>8. InOrder(c, r)
  <2>1. \A k \in 1 .. n - 1 : k + 1 \in 1 .. n /\ k + 1 > 1
    BY <1>2
  <2>2. \A k \in 1 .. n - 1 : to[k] \in 1 .. l - 1 /\ to[k] + 1 = at[k + 1]
    <3> SUFFICES ASSUME NEW k \in 1 .. n - 1
                 PROVE  to[k] \in 1 .. l - 1 /\ to[k] + 1 = at[k + 1]
      OBVIOUS
    <3>1. to[k] = at[k + 1] - 1 /\ at[k + 1] \in Nat /\ at[k + 1] > 1 /\ at[k + 1] <= l
      BY <1>3, <1>6, <1>7, <2>1
    <3>2. l \in Nat
      BY <1>2
    <3> QED
      BY <1>0, <3>1, <3>2
  <2>3. to \in [DOMAIN c -> DOMAIN r]
    BY <1>2, <1>5, <2>2
  <2>4. \A k \in DOMAIN c : r[to[k]] = c[k]
    <3> SUFFICES ASSUME NEW k \in 1 .. n - 1 PROVE r[to[k]] = c[k]
      BY <1>2
    <3>1. r[to[k]] = q[at[k + 1]] /\ c[k] = a[k + 1]
      BY <1>2, <2>2
    <3> QED
      BY <1>1, <1>2, <2>1, <3>1
  <2>5. \A j, k \in DOMAIN c : j < k => to[j] < to[k]
    <3> SUFFICES ASSUME NEW j \in 1 .. n - 1, NEW k \in 1 .. n - 1, j < k
                 PROVE  to[j] < to[k]
      BY <1>2
    <3>1. j + 1 \in 1 .. n /\ k + 1 \in 1 .. n /\ j + 1 < k + 1
      BY <1>2
    <3>2. at[j + 1] < at[k + 1] /\ at[j + 1] \in Nat /\ at[k + 1] \in Nat
      BY <1>1, <1>2, <1>6, <3>1
    <3> QED
      BY <1>3, <3>2
  <2> QED
    BY <2>3, <2>4, <2>5 DEF InOrder
<1>9. ASSUME a[1] # q[1] PROVE InOrder(a, r)
  <2>1. \A k \in 1 .. n : at[k] > 1
    <3>1. at[1] # 1
      BY <1>1, <1>2, <1>9
    <3>2. \A k \in 1 .. n : k = 1 \/ k > 1
      BY <1>2
    <3> QED
      BY <1>2, <1>6, <1>7, <3>1, <3>2
  <2>2. \A k \in 1 .. n : by[k] \in 1 .. l - 1 /\ by[k] + 1 = at[k]
    <3> SUFFICES ASSUME NEW k \in 1 .. n PROVE by[k] \in 1 .. l - 1 /\ by[k] + 1 = at[k]
      OBVIOUS
    <3>1. by[k] = at[k] - 1 /\ at[k] \in Nat /\ at[k] > 1 /\ at[k] <= l
      BY <1>4, <1>6, <2>1
    <3>2. l \in Nat
      BY <1>2
    <3> QED
      BY <1>0, <3>1, <3>2
  <2>3. by \in [DOMAIN a -> DOMAIN r]
    BY <1>2, <1>5, <2>2
  <2>4. \A k \in DOMAIN a : r[by[k]] = a[k]
    BY <1>1, <1>2, <2>2
  <2>5. \A j, k \in DOMAIN a : j < k => by[j] < by[k]
    <3> SUFFICES ASSUME NEW j \in 1 .. n, NEW k \in 1 .. n, j < k PROVE by[j] < by[k]
      BY <1>2
    <3>1. at[j] < at[k] /\ at[j] \in Nat /\ at[k] \in Nat
      BY <1>6, <1>10
    <3>2. by[j] = at[j] - 1 /\ by[k] = at[k] - 1
      BY <1>4
    <3> QED
      BY <1>0, <3>1, <3>2
  <2> QED
    BY <2>3, <2>4, <2>5 DEF InOrder
<1> QED
  BY <1>2, <1>8, <1>9 DEF c, r

-----------------------------------------------------------------------------
(* The actions in the queue: one about a service that the service task     *)
(* looks up stands there only while the service is known and its removal   *)
(* is not on the way.                                                      *)

EventBits == NetifActions \cup
    {{e} : e \in {"enable", "disable", "announce"} \X {"v4", "v6"}}

OfService == {"add", "del", "port", "txt", "untxt", "rename"}
Held == {"port", "txt", "untxt", "rename"}

ActionTypes ==
    {[op |-> o] : o \in {"hostname", "instance", "clear"}}
        \cup {[op |-> o, of |-> s] : o \in OfService, s \in Services}
        \cup {[op |-> "event", of |-> i, bits |-> b] : i \in Ifs, b \in EventBits}
        \cup {[op |-> "rx", of |-> p] : p \in Pcbs}
        \cup {[op |-> "tx", of |-> i] : i \in Nat}

LEMMA ActionIs ==
    ASSUME NEW a \in ActionTypes
    PROVE  /\ a.op \in OfService => a.of \in Services
           /\ a.op = "event" => a.of \in Ifs
           /\ a.op = "rx" => a.of \in Pcbs
           /\ a.op = "tx" => a = [op |-> "tx", of |-> a.of] /\ a.of \in Nat
<1>1. ASSUME NEW o \in {"hostname", "instance", "clear"}, a = [op |-> o]
      PROVE  a.op \notin OfService \cup {"event", "rx", "tx"}
  BY <1>1 DEF OfService
<1>2. ASSUME NEW o \in OfService, NEW s \in Services, a = [op |-> o, of |-> s]
      PROVE  a.op \notin {"event", "rx", "tx"} /\ a.of \in Services
  BY <1>2 DEF OfService
<1>3. ASSUME NEW i \in Ifs, NEW b \in EventBits, a = [op |-> "event", of |-> i, bits |-> b]
      PROVE  a.op \notin OfService \cup {"rx", "tx"} /\ a.of \in Ifs
  BY <1>3 DEF OfService
<1>4. ASSUME NEW p \in Pcbs, a = [op |-> "rx", of |-> p]
      PROVE  a.op \notin OfService \cup {"event", "tx"} /\ a.of \in Pcbs
  BY <1>4 DEF OfService
<1>5. ASSUME NEW i \in Nat, a = [op |-> "tx", of |-> i]
      PROVE  /\ a.op \notin OfService \cup {"event", "rx"}
             /\ a = [op |-> "tx", of |-> a.of] /\ a.of \in Nat
  BY <1>5 DEF OfService
<1>6. \/ \E o \in {"hostname", "instance", "clear"} : a = [op |-> o]
      \/ \E o \in OfService, s \in Services : a = [op |-> o, of |-> s]
      \/ \E i \in Ifs, b \in EventBits : a = [op |-> "event", of |-> i, bits |-> b]
      \/ \E p \in Pcbs : a = [op |-> "rx", of |-> p]
      \/ \E i \in Nat : a = [op |-> "tx", of |-> i]
  BY DEF ActionTypes
<1> QED
  BY <1>1, <1>2, <1>3, <1>4, <1>5, <1>6

Unremoved(q, k, s) ==
    \A j \in DOMAIN q : j < k => q[j].op # "clear" /\ (q[j].op = "del" => q[j].of # s)

QueueOK(q, S) ==
    \A k \in DOMAIN q : q[k].op \in Held => q[k].of \in S /\ Unremoved(q, k, q[k].of)

(* The net and the queue between two actions; a behaviour ends with a net  *)
(* that has a stray block.                                                 *)
Holds(n, q, k) ==
    /\ Proper(n) /\ q \in Seq(ActionTypes) /\ Len(q) <= QueueLength /\ k \in 0 .. MaxPosts
    /\ Strays(n) \/ /\ Sound(n) /\ QueueOK(q, n.services)
                    /\ InOrder(Transmits(n.due), q)

LEMMA AppendIs ==
    ASSUME NEW X, NEW q \in Seq(X), NEW a \in X
    PROVE  LET r == Append(q, a) IN
           /\ r \in Seq(X) /\ Len(r) = Len(q) + 1 /\ DOMAIN q \subseteq DOMAIN r
           /\ \A k \in DOMAIN q : r[k] = q[k]
           /\ \A k \in DOMAIN r : k \in DOMAIN q \/ (r[k] = a /\ \A j \in DOMAIN q : j < k)
           /\ \A k \in DOMAIN q : \A j \in DOMAIN r : j < k => j \in DOMAIN q
<1> DEFINE r == Append(q, a)
           n == Len(q)
<1>1. /\ n \in Nat /\ r \in Seq(X) /\ Len(r) = n + 1 /\ DOMAIN q = 1 .. n
      /\ DOMAIN r = 1 .. n + 1 /\ r[n + 1] = a
  OBVIOUS
<1>2. \A k \in 1 .. n : r[k] = q[k]
  OBVIOUS
<1> HIDE DEF r, n
<1>3. \A k \in 1 .. n + 1 : k \in 1 .. n \/ k = n + 1
  BY <1>1
<1>4. \A j \in 1 .. n : j < n + 1
  BY <1>1
<1>5. \A k \in 1 .. n : \A j \in 1 .. n + 1 : j < k => j \in 1 .. n
  BY <1>1
<1>6. 1 .. n \subseteq 1 .. n + 1
  BY <1>1
<1> QED
  BY <1>1, <1>2, <1>3, <1>4, <1>5, <1>6 DEF r, n

LEMMA QueueAppend ==
    ASSUME NEW q \in Seq(ActionTypes), NEW a \in ActionTypes, NEW S, QueueOK(q, S),
           a.op \in Held => /\ a.of \in S
                            /\ \A j \in DOMAIN q : /\ q[j].op # "clear"
                                                   /\ q[j].op = "del" => q[j].of # a.of
    PROVE  QueueOK(Append(q, a), S)
<1> DEFINE r == Append(q, a)
<1>1. /\ DOMAIN q \subseteq DOMAIN r /\ \A k \in DOMAIN q : r[k] = q[k]
      /\ \A k \in DOMAIN r : k \in DOMAIN q \/ (r[k] = a /\ \A j \in DOMAIN q : j < k)
      /\ \A k \in DOMAIN q : \A j \in DOMAIN r : j < k => j \in DOMAIN q
  BY AppendIs
<1>2. \A k \in DOMAIN r : ~(k < k)
  BY AppendIs
<1> HIDE DEF r
<1>3. ASSUME NEW k \in DOMAIN r, r[k].op \in Held
      PROVE  r[k].of \in S /\ Unremoved(r, k, r[k].of)
  <2>1. CASE k \in DOMAIN q
    BY <1>1, <1>3, <2>1 DEF QueueOK, Unremoved
  <2>2. CASE k \notin DOMAIN q
    <3>1. r[k] = a
      BY <1>1, <2>2
    <3>2. \A j \in DOMAIN r : j < k => j \in DOMAIN q
      <4> SUFFICES ASSUME NEW j \in DOMAIN r, j < k, j \notin DOMAIN q PROVE FALSE
        OBVIOUS
      <4>1. DOMAIN r = 1 .. Len(q) + 1 /\ DOMAIN q = 1 .. Len(q) /\ Len(q) \in Nat
        BY DEF r
      <4> QED
        BY <2>2, <4>1
    <3> QED
      BY <1>1, <1>3, <3>1, <3>2 DEF Unremoved
  <2> QED
    BY <2>1, <2>2
<1> QED
  BY <1>3 DEF QueueOK, r

LEMMA QueueTail ==
    ASSUME NEW q \in Seq(ActionTypes), q # << >>, NEW S, NEW T, QueueOK(q, S),
           \A s \in S : \/ s \in T \/ Head(q).op = "clear"
                        \/ Head(q).op = "del" /\ Head(q).of = s
    PROVE  QueueOK(Tail(q), T)
<1> DEFINE r == Tail(q)
           n == Len(q)
<1>1. /\ n \in Nat /\ n >= 1 /\ DOMAIN q = 1 .. n /\ DOMAIN r = 1 .. n - 1 /\ Head(q) = q[1]
      /\ \A k \in 1 .. n - 1 : r[k] = q[k + 1]
  OBVIOUS
<1> HIDE DEF r, n
<1>2. \A k \in 1 .. n - 1 : k + 1 \in 1 .. n /\ 1 < k + 1 /\ 1 \in 1 .. n
  BY <1>1
<1>3. \A j, k \in 1 .. n - 1 : j < k => j + 1 < k + 1
  BY <1>1
<1>4. ASSUME NEW k \in 1 .. n - 1, r[k].op \in Held
      PROVE  r[k].of \in T /\ Unremoved(r, k, r[k].of)
  <2>1. r[k] = q[k + 1] /\ k + 1 \in DOMAIN q /\ 1 \in DOMAIN q /\ 1 < k + 1
    BY <1>1, <1>2
  <2>2. r[k].of \in S /\ Unremoved(q, k + 1, r[k].of)
    BY <1>4, <2>1 DEF QueueOK
  <2>3. r[k].of \in T
    BY <1>1, <2>1, <2>2 DEF Unremoved
  <2>4. Unremoved(r, k, r[k].of)
    <3> SUFFICES ASSUME NEW j \in 1 .. n - 1, j < k
                 PROVE  r[j].op # "clear" /\ (r[j].op = "del" => r[j].of # r[k].of)
      BY <1>1 DEF Unremoved
    <3>1. j + 1 \in DOMAIN q /\ j + 1 < k + 1 /\ r[j] = q[j + 1]
      BY <1>1, <1>2, <1>3
    <3> QED
      BY <2>2, <3>1 DEF Unremoved
  <2> QED
    BY <2>3, <2>4
<1> QED
  BY <1>1, <1>4 DEF QueueOK, r

LEMMA TransmitsType ==
    ASSUME NEW n \in Nets
    PROVE  /\ Transmits(n.due) \in Seq(ActionTypes) /\ Len(Transmits(n.due)) = Len(n.due)
           /\ \A i \in Nat : Transmits(Append(n.due, i))
                                = Append(Transmits(n.due), [op |-> "tx", of |-> i])
<1> DEFINE d == n.due
           l == Len(d)
           Tx(i) == [op |-> "tx", of |-> i]
           t == [k \in 1 .. l |-> Tx(d[k])]
<1>1. d \in Seq(Nat) /\ l \in Nat /\ DOMAIN d = 1 .. l
  BY DEF Nets
<1>2. \A i \in Nat : Tx(i) \in ActionTypes
  <2> DEFINE A == {[op |-> "tx", of |-> j] : j \in Nat}
  <2>1. \A i \in Nat : Tx(i) \in A
    OBVIOUS
  <2>2. A \subseteq ActionTypes
    BY DEF ActionTypes
  <2> HIDE DEF A, Tx
  <2> QED
    BY <2>1, <2>2
<1>3. Transmits(d) = t
  BY <1>1 DEF Transmits
<1> HIDE DEF l, Tx
<1>4. \A k \in 1 .. l : d[k] \in Nat
  BY <1>1
<1> HIDE DEF d
<1>5. t \in Seq(ActionTypes) /\ Len(t) = l
  BY <1>1, <1>2, <1>4
<1>6. ASSUME NEW i \in Nat
      PROVE  Transmits(Append(d, i)) = Append(t, Tx(i))
  <2> DEFINE e == Append(d, i)
  <2>1. /\ e \in Seq(Nat) /\ DOMAIN e = 1 .. l + 1 /\ e[l + 1] = i
        /\ \A k \in 1 .. l : e[k] = d[k]
    BY <1>1 DEF l
  <2>2. Transmits(e) = [k \in 1 .. l + 1 |-> Tx(e[k])]
    BY <2>1 DEF Transmits, Tx
  <2>3. Append(t, Tx(i)) = [k \in 1 .. l + 1 |-> IF k = l + 1 THEN Tx(i) ELSE t[k]]
    BY <1>1, <1>2, <1>5
  <2>4. \A k \in 1 .. l + 1 : k = l + 1 \/ k \in 1 .. l
    BY <1>1
  <2> HIDE DEF e
  <2>5. \A k \in 1 .. l + 1 : Tx(e[k]) = IF k = l + 1 THEN Tx(i) ELSE t[k]
    BY <2>1, <2>4
  <2> QED
    BY <2>2, <2>3, <2>5 DEF e
<1> QED
  BY <1>3, <1>5, <1>6 DEF d, l, Tx

LEMMA PostHolds ==
    ASSUME NEW n, NEW q, NEW k, Holds(n, q, k), NEW a \in ActionTypes,
           Len(q) < QueueLength, k > 0, ~Strays(n),
           a.op \in Held => /\ a.of \in n.services
                            /\ \A j \in DOMAIN q : /\ q[j].op # "clear"
                                                   /\ q[j].op = "del" => q[j].of # a.of
    PROVE  Holds(n, Append(q, a), k - 1)
<1>1. /\ Proper(n) /\ q \in Seq(ActionTypes) /\ k \in 0 .. MaxPosts /\ Sound(n)
      /\ QueueOK(q, n.services) /\ InOrder(Transmits(n.due), q)
  BY DEF Holds
<1>2. QueueOK(Append(q, a), n.services)
  BY <1>1, QueueAppend
<1>3. /\ Append(q, a) \in Seq(ActionTypes) /\ Len(Append(q, a)) = Len(q) + 1
      /\ InOrder(Transmits(n.due), Append(q, a))
  <2> DEFINE r == Append(q, a)
  <2>1. /\ r \in Seq(ActionTypes) /\ Len(r) = Len(q) + 1 /\ DOMAIN q \subseteq DOMAIN r
        /\ \A j \in DOMAIN q : r[j] = q[j]
    BY <1>1, AppendIs
  <2> HIDE DEF r
  <2>2. InOrder(Transmits(n.due), r)
    BY <1>1, <2>1, InOrderLonger
  <2> QED
    BY <2>1, <2>2 DEF r
<1>4. Len(Append(q, a)) <= QueueLength /\ k - 1 \in 0 .. MaxPosts
  BY <1>1, <1>3, ResponderAssumption
<1> QED
  BY <1>1, <1>2, <1>3, <1>4 DEF Holds

(* The action at the head of the queue is done.                            *)
LEMMA ExecuteHolds ==
    ASSUME NEW n, NEW q, NEW k, Holds(n, q, k), ~Strays(n), q # << >>,
           Head(q).op # "tx", NEW m, Proper(m),
           Strays(m) \/ /\ Serves(n, m)
                        /\ \A s \in n.services : \/ s \in m.services \/ Head(q).op = "clear"
                                                 \/ Head(q).op = "del" /\ Head(q).of = s
    PROVE  Holds(m, Tail(q), k)
<1>1. /\ Proper(n) /\ q \in Seq(ActionTypes) /\ k \in 0 .. MaxPosts /\ Sound(n)
      /\ QueueOK(q, n.services) /\ InOrder(Transmits(n.due), q) /\ Len(q) <= QueueLength
  BY DEF Holds
<1>2. Tail(q) \in Seq(ActionTypes) /\ Len(Tail(q)) <= QueueLength
  BY <1>1, ResponderAssumption
<1>3. ASSUME ~Strays(m)
      PROVE  /\ Sound(m) /\ QueueOK(Tail(q), m.services)
             /\ InOrder(Transmits(m.due), Tail(q))
  <2>1. Serves(n, m) /\ QueueOK(Tail(q), m.services)
    BY <1>1, <1>3, QueueTail
  <2>2. InOrder(Transmits(n.due), Tail(q))
    <3> DEFINE t == Transmits(n.due)
    <3>1. t \in Seq(ActionTypes)
      BY <1>1, TransmitsType DEF Proper
    <3>2. t # << >> => Head(t).op = "tx"
      <4>1. \A j \in DOMAIN t : t[j].op = "tx"
        BY DEF Transmits
      <4> HIDE DEF t
      <4>2. t # << >> => 1 \in DOMAIN t /\ Head(t) = t[1]
        BY <3>1
      <4> QED
        BY <4>1, <4>2
    <3>3. CASE t # << >>
      <4>1. Head(t) # Head(q)
        BY <3>2, <3>3
      <4> HIDE DEF t
      <4> QED
        BY <1>1, <3>1, <3>3, <4>1, InOrderTail DEF t
    <3>4. CASE t = << >>
      <4>1. DOMAIN t = {}
        BY <3>4
      <4> HIDE DEF t
      <4>2. [j \in {} |-> j] \in [DOMAIN t -> DOMAIN Tail(q)]
        BY <4>1
      <4> QED
        BY <4>1, <4>2 DEF InOrder, t
    <3> QED
      BY <3>3, <3>4
  <2>3. InOrder(Transmits(m.due), Transmits(n.due))
    BY <2>1, TransmitsInOrder DEF Serves
  <2> QED
    BY <2>1, <2>2, <2>3, InOrderChain DEF Serves
<1> QED
  BY <1>1, <1>2, <1>3 DEF Holds

LEMMA TransmitHolds ==
    ASSUME NEW n, NEW q, NEW k, Holds(n, q, k), ~Strays(n), q # << >>, Head(q).op = "tx"
    PROVE  Holds(TxHandle(n, Head(q).of), Tail(q), k)
<1> DEFINE i == Head(q).of
           m == TxHandle(n, i)
           t == Transmits(n.due)
<1>1. /\ Proper(n) /\ q \in Seq(ActionTypes) /\ k \in 0 .. MaxPosts /\ Sound(n) /\ n \in Nets
      /\ QueueOK(q, n.services) /\ InOrder(t, q) /\ Len(q) <= QueueLength
  BY DEF Holds, Proper
<1>2. Tail(q) \in Seq(ActionTypes) /\ Len(Tail(q)) <= QueueLength
  BY <1>1, ResponderAssumption
<1>3. /\ t \in Seq(ActionTypes) /\ Len(t) = Len(n.due) /\ n.due \in Seq(Nat)
  BY <1>1, TransmitsType DEF Nets
<1>4. n.due # << >> => /\ t # << >> /\ Head(t) = [op |-> "tx", of |-> Head(n.due)]
                       /\ Tail(t) = Transmits(Tail(n.due))
  <2> SUFFICES ASSUME n.due # << >>
               PROVE  /\ t # << >> /\ Head(t) = [op |-> "tx", of |-> Head(n.due)]
                      /\ Tail(t) = Transmits(Tail(n.due))
    OBVIOUS
  <2> DEFINE d == n.due
             l == Len(d)
  <2>1. /\ l \in Nat /\ l >= 1 /\ DOMAIN d = 1 .. l /\ Head(d) = d[1]
        /\ Len(Tail(d)) = l - 1 /\ DOMAIN Tail(d) = 1 .. l - 1
        /\ \A j \in 1 .. l - 1 : Tail(d)[j] = d[j + 1]
    BY <1>3
  <2>2. \A j \in DOMAIN d : t[j] = [op |-> "tx", of |-> d[j]]
    BY DEF Transmits
  <2>3. Transmits(Tail(d)) = [j \in 1 .. l - 1 |-> [op |-> "tx", of |-> Tail(d)[j]]]
    BY <2>1 DEF Transmits
  <2>4. Len(t) = l
    BY <1>3
  <2> HIDE DEF t, d, l
  <2>5. t # << >> /\ Head(t) = t[1] /\ Tail(t) = [j \in 1 .. l - 1 |-> t[j + 1]]
    <3>1. t # << >>
      BY <2>1, <2>4
    <3>2. Head(t) = t[1]
      BY DEF Head
    <3>3. Tail(t) = [j \in 1 .. Len(t) - 1 |-> t[j + 1]]
      <4> DEFINE r == Tail(t)
                 l1 == Len(t) - 1
      <4>1. r \in Seq(ActionTypes) /\ Len(r) = l1 /\ \A j \in 1 .. l1 : r[j] = t[j + 1]
        BY <1>3, <3>1
      <4> HIDE DEF r, l1
      <4>2. r = [j \in 1 .. Len(r) |-> r[j]]
        BY <4>1
      <4> QED
        BY <4>1, <4>2 DEF r, l1
    <3> QED
      BY <2>4, <3>1, <3>2, <3>3
  <2>6. 1 \in 1 .. l /\ \A j \in 1 .. l - 1 : j + 1 \in 1 .. l
    BY <2>1
  <2>7. \A j \in 1 .. l - 1 : t[j + 1] = [op |-> "tx", of |-> Tail(d)[j]]
    BY <2>1, <2>2, <2>6
  <2>8. Tail(t) = Transmits(Tail(d))
    BY <2>3, <2>5, <2>7
  <2> QED
    BY <2>1, <2>2, <2>5, <2>6, <2>8 DEF d
<1>5. /\ Sound(m)
      /\ \/ InOrder(m.due, n.due) /\ (n.due = << >> \/ Head(n.due) # i)
         \/ n.due # << >> /\ InOrder(m.due, Tail(n.due))
  BY <1>1, TxHandleServes
<1>6. m.services = n.services
  BY <1>1, TxHandleServes
<1> HIDE DEF m, t, i
<1>7. InOrder(Transmits(m.due), Tail(q))
  <2>1. CASE n.due # << >> /\ InOrder(m.due, Tail(n.due))
    <3>1. InOrder(Tail(t), Tail(q))
      BY <1>1, <1>3, <1>4, <2>1, InOrderTail
    <3>2. InOrder(Transmits(m.due), Tail(t))
      BY <1>4, <2>1, TransmitsInOrder
    <3> QED
      BY <3>1, <3>2, InOrderChain
  <2>2. CASE InOrder(m.due, n.due) /\ n.due # << >> /\ Head(n.due) # i
    <3>1. Head(t) # Head(q)
      BY <1>4, <2>2 DEF i
    <3>2. InOrder(t, Tail(q))
      BY <1>1, <1>3, <1>4, <2>2, <3>1, InOrderTail
    <3>3. InOrder(Transmits(m.due), t)
      BY <2>2, TransmitsInOrder DEF t
    <3> QED
      BY <3>2, <3>3, InOrderChain
  <2>3. CASE InOrder(m.due, n.due) /\ n.due = << >>
    <3>1. DOMAIN m.due = {}
      <4>1. DOMAIN n.due = {}
        BY <2>3
      <4> QED
        BY <2>3, <4>1 DEF InOrder
    <3>2. DOMAIN Transmits(m.due) = {}
      BY <3>1 DEF Transmits
    <3>3. [j \in {} |-> j] \in [DOMAIN Transmits(m.due) -> DOMAIN Tail(q)]
      BY <3>2
    <3> QED
      BY <3>2, <3>3 DEF InOrder
  <2> QED
    BY <1>5, <2>1, <2>2, <2>3
<1>8. QueueOK(Tail(q), m.services)
  BY <1>1, <1>6, QueueTail
<1> QED
  BY <1>1, <1>2, <1>5, <1>7, <1>8 DEF Holds, Sound, m, i

-----------------------------------------------------------------------------
(* The actions.                                                            *)

Inv == Holds(net, queue, posts)

LEMMA StrayIs == Stray <=> Strays(net)
  BY RangesAre DEF Stray, Strays

LEMMA InitHolds == ResponderInit => Inv
<1> SUFFICES ASSUME ResponderInit PROVE Inv
  OBVIOUS
<1>1. PICK S \in SUBSET Services, O \in SUBSET Services, named \in BOOLEAN,
           titled \in BOOLEAN, open \in SUBSET Pcbs :
           /\ O \subseteq S
           /\ net = [services |-> S, own |-> O, named |-> named, titled |-> titled,
                     pcb |-> [p \in Pcbs |-> IF p \in open
                                   THEN [Closed EXCEPT !.state = "RUNNING", !.ready = TRUE]
                                   ELSE Closed],
                     tx |-> << >>, due |-> << >>]
  BY ZenonT(30) DEF ResponderInit
<1> DEFINE up == [Closed EXCEPT !.state = "RUNNING", !.ready = TRUE]
           f == [p \in Pcbs |-> IF p \in open THEN up ELSE Closed]
<1>2. up \in PcbStates /\ up.state = "RUNNING" /\ up.ready /\ up.probe = {}
  BY DEF PcbStates, Closed, StateNames
<1> HIDE DEF up
<1>3. f \in [Pcbs -> PcbStates]
  BY <1>2, ClosedIs
<1>4. \A p \in Pcbs : f[p] = up \/ f[p] = Closed
  OBVIOUS
<1>5. /\ net.services = S /\ net.own = O /\ net.pcb = f /\ net.tx = << >> /\ net.due = << >>
      /\ net = [services |-> S, own |-> O, named |-> named, titled |-> titled,
                pcb |-> f, tx |-> << >>, due |-> << >>]
  BY <1>1 DEF up
<1> HIDE DEF f
<1>6. DOMAIN << >> = {} /\ << >> \in Seq(Nat) /\ << >> \in Seq(ActionTypes)
  OBVIOUS
<1>7. << >> \in Tables
  <2>1. IsFiniteSet({})
    BY FS_EmptySet
  <2>2. << >> \in [{} -> Packets]
    OBVIOUS
  <2> QED
    BY <2>1, <2>2 DEF Tables
<1>8. Proper(net)
  <2>1. net \in Nets
    BY <1>3, <1>5, <1>6, <1>7 DEF Nets
  <2>2. Range(net.due) = {}
    BY <1>5, <1>6 DEF Range
  <2> QED
    BY <1>1, <1>5, <2>1, <2>2 DEF Proper
<1>9. ASSUME NEW p \in Pcbs PROVE PcbOK(net, p, net.services)
  <2>1. Mine(net, p) = {}
    BY <1>5, <1>6 DEF Mine
  <2>2. "RUNNING" \notin ProbeNames \cup AnnounceNames
    BY DEF ProbeNames, AnnounceNames
  <2> QED
    BY <1>2, <1>4, <1>5, <2>1, <2>2, ClosedIs DEF PcbOK
<1>10. queue = << >> /\ posts \in 0 .. MaxPosts
  BY DEF ResponderInit
<1>11. Len(queue) <= QueueLength /\ QueueOK(queue, net.services)
  BY <1>10, ResponderAssumption DEF QueueOK
<1>12. Transmits(net.due) = queue
  BY <1>5, <1>10 DEF Transmits
<1> QED
  BY <1>6, <1>8, <1>9, <1>10, <1>11, <1>12, InOrderSame DEF Inv, Holds, Sound

(* What a call, an event or a packet posts.                                *)
LEMMA PostKeeps ==
    ASSUME Inv, NEW a \in ActionTypes, Post(a),
           a.op \in Held => /\ a.of \in net.services
                            /\ \A j \in DOMAIN queue : /\ queue[j].op # "clear"
                                                       /\ queue[j].op = "del" => queue[j].of # a.of
    PROVE  Inv'
<1>1. /\ Holds(net, queue, posts) /\ Len(queue) < QueueLength /\ posts > 0 /\ ~Strays(net)
      /\ posts' = posts - 1 /\ queue' = Append(queue, a) /\ net' = net
  BY StrayIs DEF Inv, Post, Room
<1>2. Holds(net, Append(queue, a), posts - 1)
  BY <1>1, PostHolds
<1>3. Holds(net', queue', posts')
  BY <1>1, <1>2
<1> QED
  BY <1>3 DEF Inv

LEMMA TypesAre ==
    /\ \A o \in {"hostname", "instance", "clear"} :
            [op |-> o] \in ActionTypes /\ [op |-> o].op \notin Held
    /\ \A o \in OfService, s \in Services : [op |-> o, of |-> s] \in ActionTypes
    /\ \A i \in Ifs, b \in EventBits :
            EventAction(i, b) \in ActionTypes /\ EventAction(i, b).op \notin Held
    /\ \A p \in Pcbs :
            [op |-> "rx", of |-> p] \in ActionTypes /\ [op |-> "rx", of |-> p].op \notin Held
<1> DEFINE A == {[op |-> o] : o \in {"hostname", "instance", "clear"}}
           B == {[op |-> o, of |-> s] : o \in OfService, s \in Services}
           C == {[op |-> "event", of |-> i, bits |-> b] : i \in Ifs, b \in EventBits}
           D == {[op |-> "rx", of |-> p] : p \in Pcbs}
<1>1. A \subseteq ActionTypes /\ B \subseteq ActionTypes /\ C \subseteq ActionTypes
          /\ D \subseteq ActionTypes
  BY DEF ActionTypes
<1>2. \A o \in {"hostname", "instance", "clear"} : [op |-> o] \in A /\ [op |-> o].op \notin Held
  BY DEF Held
<1>3. \A o \in OfService, s \in Services : [op |-> o, of |-> s] \in B
  OBVIOUS
<1>4. \A i \in Ifs, b \in EventBits : EventAction(i, b) \in C /\ EventAction(i, b).op \notin Held
  BY DEF Held, EventAction
<1>5. \A p \in Pcbs : [op |-> "rx", of |-> p] \in D /\ [op |-> "rx", of |-> p].op \notin Held
  BY DEF Held
<1> HIDE DEF A, B, C, D
<1> QED
  BY <1>1, <1>2, <1>3, <1>4, <1>5

LEMMA SystemEventHolds ==
    ASSUME Inv, NEW i \in Ifs, HandleSystemEvent(i)
    PROVE  Inv'
<1>1. /\ Holds(net, queue, posts) /\ Len(queue) < QueueLength /\ posts > 0 /\ ~Strays(net)
      /\ posts' = posts - 1 /\ net' = net
  BY StrayIs DEF Inv, HandleSystemEvent, Room
<1>2. PICK e \in SystemEvents(i) :
          queue' = queue \o [k \in 1 .. Min({Len(e), QueueLength - Len(queue)}) |->
                                EventAction(i, {e[k]})]
  BY DEF HandleSystemEvent
<1> DEFINE x == QueueLength - Len(queue)
           l == Min({Len(e), x})
           b == [k \in 1 .. l |-> EventAction(i, {e[k]})]
<1>3. /\ Proper(net) /\ queue \in Seq(ActionTypes) /\ posts \in 0 .. MaxPosts /\ Sound(net)
      /\ QueueOK(queue, net.services) /\ InOrder(Transmits(net.due), queue)
      /\ Len(queue) \in Nat
  BY <1>1 DEF Holds
<1>4. Len(e) \in Nat /\ \A k \in 1 .. Len(e) : {e[k]} \in EventBits
  <2>1. \A a \in {"enable", "disable", "announce"}, v \in {"v4", "v6"} : {<<a, v>>} \in EventBits
    BY DEF EventBits
  <2>7. ASSUME NEW c \in {"enable", "disable", "announce"} \X {"v4", "v6"},
               NEW d \in {"enable", "disable", "announce"} \X {"v4", "v6"}, e = <<c, d>>
        PROVE  Len(e) \in Nat /\ \A k \in 1 .. Len(e) : {e[k]} \in EventBits
    <3>1. {c} \in EventBits /\ {d} \in EventBits
      BY DEF EventBits
    <3>2. Len(e) = 2 /\ e[1] = c /\ e[2] = d
      BY <2>7
    <3>3. \A k \in 1 .. 2 : k = 1 \/ k = 2
      OBVIOUS
    <3> QED
      BY <3>1, <3>2, <3>3
  <2>2. \/ e = <<<<"enable", "v4">>>>
        \/ e = <<<<"disable", "v4">>, <<"disable", "v6">>>>
        \/ e = <<<<"enable", "v6">>, <<"announce", "v4">>>>
        \/ e = <<<<"enable", "v4">>, <<"announce", "v6">>>>
    BY DEF SystemEvents
  <2>3. CASE e = <<<<"enable", "v4">>>>
    BY <2>1, <2>3
  <2>4. CASE e = <<<<"disable", "v4">>, <<"disable", "v6">>>>
    BY <2>4, <2>7
  <2>5. CASE e = <<<<"enable", "v6">>, <<"announce", "v4">>>>
    BY <2>5, <2>7
  <2>6. CASE e = <<<<"enable", "v4">>, <<"announce", "v6">>>>
    BY <2>6, <2>7
  <2> QED
    BY <2>2, <2>3, <2>4, <2>5, <2>6
<1>5. l \in Nat /\ l <= Len(e) /\ l <= x
  <2>1. x \in Nat
    BY <1>1, <1>3, ResponderAssumption
  <2> HIDE DEF x
  <2> QED
    BY <1>4, <2>1, MinIs
<1>6. \A k \in 1 .. l : b[k] \in ActionTypes /\ b[k].op \notin Held
  <2> SUFFICES ASSUME NEW k \in 1 .. l PROVE b[k] \in ActionTypes /\ b[k].op \notin Held
    OBVIOUS
  <2>1. {e[k]} \in EventBits /\ b[k] = EventAction(i, {e[k]})
    BY <1>4, <1>5
  <2> QED
    BY <2>1, TypesAre
<1>7. queue' = queue \o b
  BY <1>2
<1>8. b \in Seq(ActionTypes) /\ Len(b) = l
  <2>1. b \in [1 .. l -> ActionTypes]
    BY <1>6
  <2> HIDE DEF b, l
  <2> QED
    BY <1>5, <2>1
<1> HIDE DEF b, l
<1> DEFINE r == queue \o b
           n == Len(queue)
<1>9. /\ r \in Seq(ActionTypes) /\ Len(r) = n + l /\ DOMAIN r = 1 .. n + l
      /\ DOMAIN queue = 1 .. n
      /\ \A k \in 1 .. n : r[k] = queue[k]
      /\ \A k \in 1 .. n + l : k > n => r[k] = b[k - n]
  BY <1>3, <1>8
<1>10. Len(r) <= QueueLength /\ posts - 1 \in 0 .. MaxPosts
  BY <1>1, <1>3, <1>5, <1>9, ResponderAssumption
<1> HIDE DEF r, n, x
<1>11. n \in Nat /\ \A k \in 1 .. n : k \in 1 .. n + l
  BY <1>3, <1>5 DEF n
<1>12. InOrder(Transmits(net.due), r)
  BY <1>3, <1>9, <1>11, InOrderLonger
<1>13. QueueOK(r, net.services)
  <2> SUFFICES ASSUME NEW k \in 1 .. n + l, r[k].op \in Held
               PROVE  r[k].of \in net.services /\ Unremoved(r, k, r[k].of)
    BY <1>9 DEF QueueOK
  <2>1. k \in 1 .. n
    <3> SUFFICES ASSUME k \notin 1 .. n PROVE FALSE
      OBVIOUS
    <3>1. k > n /\ k - n \in 1 .. l
      BY <1>5, <1>11
    <3> QED
      BY <1>6, <1>9, <3>1
  <2>2. \A j \in 1 .. n + l : j < k => j \in 1 .. n
    BY <1>5, <1>11, <2>1
  <2> QED
    BY <1>3, <1>9, <2>1, <2>2 DEF QueueOK, Unremoved
<1>14. Holds(net, r, posts - 1)
  BY <1>3, <1>9, <1>10, <1>12, <1>13 DEF Holds
<1> QED
  BY <1>1, <1>7, <1>14 DEF Inv, r

LEMMA DisturbKeeps == Inv /\ Disturb => Inv'
<1> SUFFICES ASSUME Inv, Disturb PROVE Inv'
  OBVIOUS
<1>1. \A o \in OfService : o \in Held \/ o = "add" \/ o = "del"
  BY DEF OfService, Held
<1>2. ASSUME NEW s \in Services, NEW o \in OfService, o = "add" \/ o = "del" \/ Known(s),
             Post([op |-> o, of |-> s])
      PROVE  Inv'
  <2> DEFINE a == [op |-> o, of |-> s]
  <2>1. a \in ActionTypes /\ a.op = o /\ a.of = s
    BY TypesAre
  <2>2. o \in Held => Known(s)
    BY <1>2 DEF Held
  <2>3. Post(a)
    BY <1>2
  <2> HIDE DEF a
  <2> QED
    BY <2>1, <2>2, <2>3, PostKeeps DEF Known
<1>3. /\ "add" \in OfService /\ "del" \in OfService /\ "port" \in OfService
      /\ "txt" \in OfService /\ "untxt" \in OfService /\ "rename" \in OfService
  BY DEF OfService
<1>4. CASE MdnsHostnameSet \/ MdnsInstanceNameSet \/ MdnsServiceRemoveAll
  <2>1. PICK o \in {"hostname", "instance", "clear"} : Post([op |-> o])
    BY <1>4 DEF MdnsHostnameSet, MdnsInstanceNameSet, MdnsServiceRemoveAll
  <2> QED
    BY <2>1, TypesAre, PostKeeps
<1>5. ASSUME NEW s \in Services, MdnsServiceAdd(s)
      PROVE  Inv'
  BY <1>2, <1>3, <1>5 DEF MdnsServiceAdd
<1>6. ASSUME NEW s \in Services, MdnsServicePortSet(s)
      PROVE  Inv'
  BY <1>2, <1>3, <1>6 DEF MdnsServicePortSet
<1>7. ASSUME NEW s \in Services, MdnsServiceTxtSet(s)
      PROVE  Inv'
  BY <1>2, <1>3, <1>7 DEF MdnsServiceTxtSet
<1>8. ASSUME NEW s \in Services, MdnsServiceTxtItemRemove(s)
      PROVE  Inv'
  BY <1>2, <1>3, <1>8 DEF MdnsServiceTxtItemRemove
<1>9. ASSUME NEW s \in Services, MdnsServiceInstanceNameSet(s)
      PROVE  Inv'
  BY <1>2, <1>3, <1>9 DEF MdnsServiceInstanceNameSet
<1>10. ASSUME NEW s \in Services, MdnsServiceRemove(s)
       PROVE  Inv'
  BY <1>2, <1>3, <1>10 DEF MdnsServiceRemove
<1>11. ASSUME NEW i \in Ifs, HandleSystemEvent(i)
       PROVE  Inv'
  BY <1>11, SystemEventHolds
<1>12. ASSUME NEW i \in Ifs, NEW b \in NetifActions, MdnsNetifAction(i, b)
       PROVE  Inv'
  <2>1. EventAction(i, b) \in ActionTypes /\ EventAction(i, b).op \notin Held
    BY TypesAre DEF EventBits
  <2> QED
    BY <1>12, <2>1, PostKeeps DEF MdnsNetifAction
<1>13. ASSUME NEW p \in Pcbs, SendRxAction(p)
       PROVE  Inv'
  <2>1. Post([op |-> "rx", of |-> p])
    BY <1>13 DEF SendRxAction
  <2> QED
    BY <2>1, TypesAre, PostKeeps
<1> QED
  BY <1>4, <1>5, <1>6, <1>7, <1>8, <1>9, <1>10, <1>11, <1>12, <1>13 DEF Disturb

(* The timer marks a packet as queued and posts its action.                *)
LEMMA SchedulerKeeps == Inv /\ SchedulerRun => Inv'
<1> SUFFICES ASSUME Inv, SchedulerRun PROVE Inv'
  OBVIOUS
<1>1. PICK i \in DOMAIN net.tx \ Range(net.due) :
          /\ net' = [net EXCEPT !.due = Append(@, i)]
          /\ queue' = Append(queue, [op |-> "tx", of |-> i])
  BY DEF SchedulerRun
<1> DEFINE n == net
           q == queue
           a == [op |-> "tx", of |-> i]
           d == Append(n.due, i)
           m == [n EXCEPT !.due = Append(@, i)]
<1>2. /\ Proper(n) /\ n \in Nets /\ q \in Seq(ActionTypes) /\ posts \in 0 .. MaxPosts
      /\ Sound(n) /\ QueueOK(q, n.services) /\ InOrder(Transmits(n.due), q)
      /\ Len(q) < QueueLength
  BY StrayIs DEF Inv, Holds, SchedulerRun, Room, Proper
<1>3. i \in Nat /\ n.due \in Seq(Nat) /\ n.tx \in Tables
  BY <1>2, ProperParts, TableIs
<1>4. a \in ActionTypes /\ a.op \notin Held
  <2> DEFINE A == {[op |-> "tx", of |-> j] : j \in Nat}
  <2>1. a \in A
    BY <1>3
  <2>2. A \subseteq ActionTypes
    BY DEF ActionTypes
  <2>3. a.op \notin Held
    BY DEF Held
  <2> HIDE DEF A, a
  <2> QED
    BY <2>1, <2>2, <2>3
<1>5. d \in Seq(Nat) /\ Range(d) \subseteq Range(n.due) \cup {i}
  <2>1. d \in Seq(Nat)
    BY <1>3
  <2>2. \A k \in DOMAIN d : d[k] = i \/ (k \in DOMAIN n.due /\ d[k] = n.due[k])
    BY <1>3
  <2> HIDE DEF d
  <2> QED
    BY <2>1, <2>2 DEF Range
<1>6. m = WithPackets(n, n.tx, d)
  BY <1>2 DEF WithPackets, Nets
<1> HIDE DEF n, q, m, a, d
<1>7. /\ m \in Nets /\ Named(m) = Named(n) /\ m.pcb = n.pcb /\ m.tx = n.tx /\ m.due = d
  BY <1>2, <1>3, <1>5, <1>6, WithPacketsIs DEF Named
<1>8. m.services = n.services /\ m.own = n.own /\ m.named = n.named
  BY <1>7, NamedIs
<1>9. Proper(m)
  BY <1>1, <1>2, <1>5, <1>7, <1>8 DEF Proper, n
<1>10. \A p \in Pcbs : PcbOK(m, p, m.services)
  BY <1>2, <1>7, <1>8, PcbOKSame DEF Sound
<1>11. QueueOK(Append(q, a), m.services)
  BY <1>2, <1>4, <1>8, QueueAppend
<1>12. InOrder(Transmits(m.due), Append(q, a))
  <2>1. Transmits(m.due) = Append(Transmits(n.due), a) /\ Transmits(n.due) \in Seq(ActionTypes)
    BY <1>2, <1>3, <1>7, TransmitsType DEF a, d
  <2> QED
    BY <1>2, <1>4, <2>1, InOrderBoth
<1>13. Append(q, a) \in Seq(ActionTypes) /\ Len(Append(q, a)) <= QueueLength
  <2>1. Append(q, a) \in Seq(ActionTypes) /\ Len(Append(q, a)) = Len(q) + 1 /\ Len(q) \in Nat
    BY <1>2, <1>4, AppendIs
  <2> QED
    BY <1>2, <2>1, ResponderAssumption
<1>14. Holds(m, Append(q, a), posts)
  BY <1>2, <1>9, <1>10, <1>11, <1>12, <1>13 DEF Holds, Sound
<1>15. posts' = posts /\ net' = m /\ queue' = Append(q, a)
  BY <1>1 DEF SchedulerRun, m, n, q, a
<1> QED
  BY <1>14, <1>15 DEF Inv

(* What the service task finds at the head of the queue.                   *)
LEMMA ExecuteIs ==
    ASSUME Inv, NEW op, Execute(op)
    PROVE  /\ Holds(net, queue, posts) /\ ~Strays(net) /\ queue # << >> /\ Head(queue).op = op
           /\ queue' = Tail(queue) /\ posts' = posts
           /\ Proper(net) /\ net \in Nets /\ Sound(net) /\ net.services \in SUBSET Services
           /\ op \in OfService => Of \in Services
           /\ op \in Held => Of \in net.services
           /\ op = "event" => Of \in Ifs
           /\ op = "rx" => Of \in Pcbs
<1>1. /\ Holds(net, queue, posts) /\ ~Strays(net) /\ queue # << >> /\ Head(queue).op = op
      /\ queue' = Tail(queue) /\ posts' = posts
  BY StrayIs DEF Inv, Execute
<1>2. /\ Proper(net) /\ net \in Nets /\ Sound(net) /\ queue \in Seq(ActionTypes)
      /\ QueueOK(queue, net.services)
  BY <1>1 DEF Holds, Proper
<1>3. Head(queue) \in ActionTypes /\ 1 \in DOMAIN queue /\ Head(queue) = queue[1]
  BY <1>1, <1>2
<1>4. /\ op \in OfService => Of \in Services
      /\ op = "event" => Of \in Ifs
      /\ op = "rx" => Of \in Pcbs
  BY <1>1, <1>3, ActionIs DEF Of
<1>5. op \in Held => Of \in net.services
  BY <1>1, <1>2, <1>3 DEF QueueOK, Of
<1> QED
  BY <1>1, <1>2, <1>4, <1>5, ProperParts

(* An action that only goes on from the net in order.                      *)
LEMMA ServesKeeps ==
    ASSUME Inv, NEW op, Execute(op), op # "tx", Serves(net, net'),
           \A s \in net.services : \/ s \in net'.services \/ op = "clear"
                                   \/ op = "del" /\ Of = s
    PROVE  Inv'
<1>1. Proper(net')
  BY DEF Serves, Sound
<1>2. Holds(net', Tail(queue), posts)
  BY <1>1, ExecuteIs, ExecuteHolds DEF Of
<1> QED
  BY <1>2, ExecuteIs DEF Inv

LEMMA KeepsKeeps ==
    ASSUME Inv, NEW op, Execute(op), op # "tx", Keeps(net, net')
    PROVE  Inv'
<1>1. Serves(net, net') /\ net'.services = net.services
  BY KeepsServes, NamedIs DEF Keeps, Follows
<1> QED
  BY <1>1, ServesKeeps

LEMMA NamesKeep ==
    ASSUME NEW n, Sound(n)
    PROVE  /\ Serves(n, [n EXCEPT !.named = TRUE])
           /\ Serves(n, [n EXCEPT !.titled = TRUE])
           /\ \A s \in Services :
                  LET m == [n EXCEPT !.services = @ \cup {s}] IN
                  Serves(n, m) /\ m.services = n.services \cup {s}
           /\ \A s \in n.services :
                  LET m == [n EXCEPT !.own = @ \cup {s}] IN
                  Serves(n, m) /\ m.services = n.services
<1>1. /\ Proper(n) /\ n \in Nets /\ n.services \in SUBSET Services
      /\ n.own \in SUBSET n.services /\ n.named \in BOOLEAN /\ n.titled \in BOOLEAN
      /\ TRUE \in BOOLEAN /\ n.services \subseteq n.services
  BY DEF Sound, Proper, Nets
<1>2. Serves(n, [n EXCEPT !.named = TRUE])
  <2>1. Serves(n, WithNames(n, n.services, n.own, TRUE, n.titled))
    BY <1>1, WithNamesServes
  <2>2. [n EXCEPT !.named = TRUE] = WithNames(n, n.services, n.own, TRUE, n.titled)
    BY <1>1, FieldsAre, Zenon
  <2> QED
    BY <2>1, <2>2
<1>3. Serves(n, [n EXCEPT !.titled = TRUE])
  <2>1. Serves(n, WithNames(n, n.services, n.own, n.named, TRUE))
    BY <1>1, WithNamesServes
  <2>2. [n EXCEPT !.titled = TRUE] = WithNames(n, n.services, n.own, n.named, TRUE)
    BY <1>1, FieldsAre, Zenon
  <2> QED
    BY <2>1, <2>2
<1>4. ASSUME NEW s \in Services
      PROVE  LET m == [n EXCEPT !.services = @ \cup {s}] IN
             Serves(n, m) /\ m.services = n.services \cup {s}
  <2> DEFINE S == n.services \cup {s}
             m == [n EXCEPT !.services = @ \cup {s}]
             k == WithNames(n, S, n.own, n.named, n.titled)
  <2>1. S \in SUBSET Services /\ n.own \in SUBSET S /\ n.services \subseteq S
    BY <1>1
  <2>2. m = [n EXCEPT !.services = S]
    OBVIOUS
  <2> HIDE DEF S
  <2>3. [n EXCEPT !.services = S] = k
    BY <1>1, FieldsAre, Zenon
  <2>4. Serves(n, k)
    BY <1>1, <2>1, WithNamesServes
  <2>5. k.services = S
    BY <1>1, <2>1, WithNamesIs
  <2> HIDE DEF m, k
  <2>6. Serves(n, m) /\ m.services = S
    BY <2>2, <2>3, <2>4, <2>5
  <2> QED
    BY <2>6 DEF m, S
<1>5. ASSUME NEW s \in n.services
      PROVE  LET m == [n EXCEPT !.own = @ \cup {s}] IN
             Serves(n, m) /\ m.services = n.services
  <2> DEFINE O == n.own \cup {s}
             m == [n EXCEPT !.own = @ \cup {s}]
             k == WithNames(n, n.services, O, n.named, n.titled)
  <2>1. O \in SUBSET n.services
    BY <1>1
  <2>2. m = [n EXCEPT !.own = O]
    OBVIOUS
  <2> HIDE DEF O
  <2>3. [n EXCEPT !.own = O] = k
    BY <1>1, FieldsAre, Zenon
  <2>4. Serves(n, k)
    BY <1>1, <2>1, WithNamesServes
  <2>5. k.services = n.services
    BY <1>1, <2>1, WithNamesIs
  <2> HIDE DEF m, k
  <2>6. Serves(n, m) /\ m.services = n.services
    BY <2>2, <2>3, <2>4, <2>5
  <2> QED
    BY <2>6 DEF m
<1> QED
  BY <1>2, <1>3, <1>4, <1>5

LEMMA ServiceActions ==
    ASSUME Inv
    PROVE  /\ ServiceAdd \/ ServiceInstanceSet => Inv'
           /\ ServicePortSet \/ ServiceTxtSet \/ ServiceTxtDel => Inv'
           /\ ServiceDel \/ ServicesClear => Inv'
<1>0. /\ "add" \in OfService /\ "del" \in OfService /\ "rename" \in Held
      /\ "port" \in Held /\ "txt" \in Held /\ "untxt" \in Held
  BY DEF OfService, Held
<1>1. ASSUME ServiceAdd PROVE Inv'
  <2> DEFINE m == [net EXCEPT !.services = @ \cup {Of}]
             k == ProbeAllPcbs(m, {Of}, FALSE, FALSE)
  <2>1. Execute("add") /\ net' = k
    BY <1>1 DEF ServiceAdd
  <2>2. Sound(net) /\ Of \in Services
    BY <1>0, <2>1, ExecuteIs
  <2>3. Serves(net, m) /\ m.services = net.services \cup {Of}
    BY <2>2, NamesKeep
  <2> HIDE DEF m
  <2>4. {Of} \in SUBSET m.services /\ {Of} # {} /\ FALSE \in BOOLEAN /\ Sound(m)
    BY <2>3 DEF Serves
  <2>5. Keeps(m, k)
    BY <2>4, ProbeAllKeeps
  <2> HIDE DEF k
  <2>6. Serves(net, k) /\ k.services = net.services \cup {Of}
    BY <2>3, <2>5, KeepsServes, ServesChain, NamedIs DEF Keeps, Follows
  <2> QED
    BY <2>1, <2>6, ServesKeeps
<1>2. ASSUME ServiceInstanceSet PROVE Inv'
  <2> DEFINE m == [net EXCEPT !.own = @ \cup {Of}]
             k == ProbeAllPcbs(m, {Of}, FALSE, FALSE)
  <2>1. Execute("rename") /\ net' = k
    BY <1>2 DEF ServiceInstanceSet
  <2>2. Sound(net) /\ Of \in net.services
    BY <1>0, <2>1, ExecuteIs
  <2>3. Serves(net, m) /\ m.services = net.services
    BY <2>2, NamesKeep
  <2> HIDE DEF m
  <2>4. {Of} \in SUBSET m.services /\ {Of} # {} /\ FALSE \in BOOLEAN /\ Sound(m)
    BY <2>2, <2>3 DEF Serves
  <2>5. Keeps(m, k)
    BY <2>4, ProbeAllKeeps
  <2> HIDE DEF k
  <2>6. Serves(net, k) /\ k.services = net.services
    BY <2>3, <2>5, KeepsServes, ServesChain, NamedIs DEF Keeps, Follows
  <2> QED
    BY <2>1, <2>6, ServesKeeps
<1>3. ASSUME NEW op \in {"port", "txt", "untxt"}, Execute(op), NEW first, NEW ip \in BOOLEAN,
             net' = net \/ net' = AnnounceAllPcbs(net, first, {Of}, ip)
      PROVE  Inv'
  <2>1. Sound(net) /\ Of \in net.services /\ op # "tx"
    BY <1>0, <1>3, ExecuteIs
  <2>2. {Of} \in SUBSET net.services /\ {Of} # {}
    BY <2>1
  <2>3. Keeps(net, AnnounceAllPcbs(net, first, {Of}, ip)) /\ Keeps(net, net)
    BY <2>1, <2>2, AnnounceAllKeeps, KeepsSame
  <2> QED
    BY <1>3, <2>1, <2>3, KeepsKeeps
<1>4. ASSUME ServicePortSet PROVE Inv'
  BY <1>3, <1>4 DEF ServicePortSet
<1>5. ASSUME ServiceTxtSet PROVE Inv'
  BY <1>3, <1>5 DEF ServiceTxtSet
<1>6. ASSUME ServiceTxtDel PROVE Inv'
  BY <1>3, <1>6 DEF ServiceTxtDel
<1>7. ASSUME ServiceDel PROVE Inv'
  <2>1. Execute("del") /\ net' = RemoveService(net, Of)
    BY <1>7 DEF ServiceDel
  <2>2. Sound(net) /\ Of \in Services
    BY <1>0, <2>1, ExecuteIs
  <2>3. Serves(net, net') /\ net'.services = net.services \ {Of}
    BY <2>1, <2>2, RemoveServiceServes
  <2> QED
    BY <2>1, <2>3, ServesKeeps
<1>8. ASSUME ServicesClear PROVE Inv'
  <2>1. Execute("clear")
    BY <1>8, Zenon DEF ServicesClear
  <2>2. Sound(net)
    BY <2>1, ExecuteIs
  <2>3. net' = FoldSet(LAMBDA s, m : RemoveService(m, s), net, net.services)
    BY <1>8, Zenon DEF ServicesClear
  <2>4. Serves(net, net')
    BY <2>2, <2>3, ServicesClearServes, Zenon
  <2> QED
    BY <2>1, <2>4, ServesKeeps
<1> QED
  BY <1>1, <1>2, <1>4, <1>5, <1>6, <1>7, <1>8

(* The calls and events that set up everything again, and the packets.     *)
LEMMA OtherActions ==
    ASSUME Inv
    PROVE  /\ SystemEvent \/ HostnameSet \/ InstanceSet => Inv'
           /\ TransmitHandle \/ RxHandle => Inv'
<1>1. ASSUME SystemEvent PROVE Inv'
  <2>1. Execute("event")
    BY <1>1 DEF SystemEvent
  <2>2. Sound(net) /\ Of \in Ifs
    BY <2>1, ExecuteIs
  <2>3. PICK first \in Firsts, opens \in BOOLEAN :
             net' = PerformEventAction(net, first, opens, Of, Head(queue).bits)
    BY <1>1 DEF SystemEvent
  <2>4. Keeps(net, net')
    BY <2>2, <2>3, PerformEventKeeps
  <2> QED
    BY <2>1, <2>4, KeepsKeeps
<1>2. ASSUME HostnameSet PROVE Inv'
  <2> DEFINE m == [net EXCEPT !.named = TRUE]
  <2>1. Execute("hostname") /\ net' = RestartAllPcbs(m)
    BY <1>2 DEF HostnameSet
  <2>2. Sound(net)
    BY <2>1, ExecuteIs
  <2>3. Serves(net, m) /\ m.services = net.services
    <3>1. net \in Nets
      BY <2>2 DEF Sound, Proper
    <3>2. m.services = net.services
      BY <3>1 DEF Nets
    <3> QED
      BY <2>2, <3>2, NamesKeep
  <2> HIDE DEF m
  <2>4. Keeps(m, net')
    BY <2>1, <2>3, RestartAllKeeps DEF Serves
  <2>5. Serves(net, net') /\ net'.services = net.services
    BY <2>3, <2>4, KeepsServes, ServesChain, NamedIs DEF Keeps, Follows
  <2> QED
    BY <2>1, <2>5, ServesKeeps
<1>3. ASSUME InstanceSet PROVE Inv'
  <2> DEFINE m == [net EXCEPT !.titled = TRUE]
  <2>1. Execute("instance") /\ net' = RestartAllPcbsNoInstance(m)
    BY <1>3 DEF InstanceSet
  <2>2. Sound(net)
    BY <2>1, ExecuteIs
  <2>3. Serves(net, m) /\ m.services = net.services
    <3>1. net \in Nets
      BY <2>2 DEF Sound, Proper
    <3>2. m.services = net.services
      BY <3>1 DEF Nets
    <3> QED
      BY <2>2, <3>2, NamesKeep
  <2> HIDE DEF m
  <2>4. Keeps(m, net')
    BY <2>1, <2>3, RestartNoInstanceKeeps DEF Serves
  <2>5. Serves(net, net') /\ net'.services = net.services
    BY <2>3, <2>4, KeepsServes, ServesChain, NamedIs DEF Keeps, Follows
  <2> QED
    BY <2>1, <2>5, ServesKeeps
<1>4. ASSUME TransmitHandle PROVE Inv'
  <2>1. Execute("tx") /\ net' = TxHandle(net, Head(queue).of)
    BY <1>4 DEF TransmitHandle, Of
  <2>2. Holds(net', Tail(queue), posts)
    BY <2>1, ExecuteIs, TransmitHolds
  <2> QED
    BY <2>1, <2>2, ExecuteIs DEF Inv
<1>5. ASSUME RxHandle PROVE Inv'
  <2>1. Execute("rx")
    BY <1>5 DEF RxHandle
  <2>2. Sound(net) /\ Of \in Pcbs
    BY <2>1, ExecuteIs
  <2>3. PICK first \in Firsts : net' \in RxOutcomes(net, first, Of)
    BY <1>5 DEF RxHandle
  <2>4. KeepsOrStrays(net, net')
    BY <2>2, <2>3, RxKeeps
  <2>5. CASE Sound(net')
    BY <2>1, <2>4, <2>5, KeepsKeeps DEF KeepsOrStrays, Keeps
  <2>6. CASE Strays(net')
    <3>1. Proper(net')
      BY <2>4 DEF KeepsOrStrays, Follows
    <3>2. Holds(net', Tail(queue), posts)
      BY <2>1, <2>6, <3>1, ExecuteIs, ExecuteHolds
    <3> QED
      BY <2>1, <3>2, ExecuteIs DEF Inv
  <2> QED
    BY <2>4, <2>5, <2>6 DEF KeepsOrStrays
<1> QED
  BY <1>1, <1>2, <1>3, <1>4, <1>5

LEMMA ExecuteKeeps == Inv /\ ExecuteAction => Inv'
<1> SUFFICES ASSUME Inv, ExecuteAction PROVE Inv'
  OBVIOUS
<1>1. CASE SystemEvent \/ HostnameSet \/ InstanceSet \/ TransmitHandle \/ RxHandle
  BY <1>1, OtherActions
<1>2. CASE \/ ServiceAdd \/ ServiceInstanceSet \/ ServicePortSet \/ ServiceTxtSet
           \/ ServiceTxtDel \/ ServiceDel \/ ServicesClear
  BY <1>2, ServiceActions
<1> QED
  BY <1>1, <1>2 DEF ExecuteAction

LEMMA NextKeeps == Inv /\ [ResponderNext]_responderVars => Inv'
<1> SUFFICES ASSUME Inv, [ResponderNext]_responderVars PROVE Inv'
  OBVIOUS
<1>1. CASE UNCHANGED responderVars
  BY <1>1 DEF responderVars, Inv
<1> QED
  BY <1>1, DisturbKeeps, SchedulerKeeps, ExecuteKeeps DEF ResponderNext

-----------------------------------------------------------------------------
(* What the invariant says.                                                *)

LEMMA InvTypes == Inv => ResponderTypeOK
<1> SUFFICES ASSUME Inv PROVE ResponderTypeOK
  OBVIOUS
<1>1. /\ net \in Nets /\ net.own \subseteq net.services
      /\ Range(net.due) \subseteq DOMAIN net.tx
      /\ Len(queue) <= QueueLength /\ posts \in 0 .. MaxPosts
  BY DEF Inv, Holds, Proper
<1>2. /\ net.services \subseteq Services /\ net.pcb \in [Pcbs -> PcbStates]
      /\ \A i \in DOMAIN net.tx : net.tx[i] \in Packets
  BY <1>1, ProperParts
<1>3. Range(net.tx) \subseteq Packets
  BY <1>2 DEF Range
<1> QED
  BY <1>1, <1>2, <1>3, RangesAre DEF ResponderTypeOK, PcbStates

LEMMA ProbeOK ==
    ASSUME Sound(net), NEW p \in Pcbs, net.pcb[p].state \in ProbeNames
    PROVE  ProbeIsScheduled(p)
<1> DEFINE b == net.pcb[p]
           M == Mine(net, p)
<1>1. PICK i \in DOMAIN net.tx :
           M = {i} /\ Asking(net.tx[i], Probed(b)) /\ b.probe \subseteq net.services
  BY DEF Sound, PcbOK
<1>2. Cardinality(M) = 1
  BY <1>1, FS_Singleton
<1>3. {net.tx[k].asks : k \in M} = {WithHost(b.probe, b.ip)}
  BY <1>1 DEF Asking, Probed
<1> QED
  BY <1>1, <1>2, <1>3 DEF ProbeIsScheduled, Mine

LEMMA AnnounceOK ==
    ASSUME Sound(net), NEW p \in Pcbs, net.pcb[p].state \in AnnounceNames
    PROVE  AnnounceIsScheduled(p)
  BY DEF Sound, PcbOK, Mine, AnnounceIsScheduled

LEMMA InvSchedules == Inv => WorkIsScheduled
<1> SUFFICES ASSUME Inv PROVE WorkIsScheduled
  OBVIOUS
<1>1. ResponderTypeOK
  BY InvTypes
<1>2. ASSUME ~Stray
      PROVE  Sound(net) /\ InOrder(Transmits(net.due), queue)
  BY <1>2, StrayIs DEF Inv, Holds
<1>3. ASSUME ~Stray, NEW p \in Pcbs
      PROVE  /\ net.pcb[p].state \in Range(Probes) => ProbeIsScheduled(p)
             /\ IsAnnouncing(net.pcb[p]) => AnnounceIsScheduled(p)
  BY <1>2, <1>3, ProbeOK, AnnounceOK, RangesAre DEF IsAnnouncing
<1> QED
  BY <1>1, <1>2, <1>3 DEF WorkIsScheduled

-----------------------------------------------------------------------------
(* The responder keeps its invariant whatever is called and whatever       *)
(* happens on the network.                                                 *)
THEOREM ResponderInvariant == ResponderSpec => []Inv
<1> QED
  BY InitHolds, NextKeeps, PTL DEF ResponderSpec

(* The names, blocks and packets of the responder (the fields of           *)
(* _mdns_server) stay of their types, also past a packet that set a closed *)
(* block to probing: its own instance names are of services it has, what   *)
(* is queued is scheduled, and the queue is never longer than it is.       *)
THEOREM ResponderTypes == ResponderSpec => []ResponderTypeOK
<1> QED
  BY ResponderInvariant, InvTypes, PTL

(* A block that probes has exactly one packet in the list, and it asks for *)
(* what the block keeps as probed, all of it still known; a block that     *)
(* announces has a packet; and every packet marked as queued has its       *)
(* action in the queue, in the order of the list, however calls, events,   *)
(* received packets, transmissions and removals interleave.                *)
THEOREM WorkScheduled == ResponderSpec => []WorkIsScheduled
<1> QED
  BY ResponderInvariant, InvSchedules, PTL
=============================================================================
