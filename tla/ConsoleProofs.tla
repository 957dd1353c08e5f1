---------------------------- MODULE ConsoleProofs ----------------------------
(***************************************************************************)
(* Theorems about Console, for every size of the screen, every session and *)
(* every number of keys, and about Printk, for every call.                 *)
(***************************************************************************)
EXTENDS Console, Printk, FoldLemmas, SequenceTheorems, TLAPS

-----------------------------------------------------------------------------
(* Recursion over an interval *)

\* A function of an interval that is given by its first value and by each
\* value from the one before exists.
Recurs(c, lo, hi, a, G) ==
  c[lo] = a /\ \A k \in lo .. hi : k # lo => c[k] = G[<<k, c[k - 1]>>]

\* Recurs has a solution: the induction is on the interval's length.
LEMMA Recurrence ==
  ASSUME NEW lo \in Int, NEW hi \in Int, lo <= hi, NEW V, NEW a \in V,
         NEW G \in [(lo .. hi) \X V -> V]
  PROVE  \E c \in [lo .. hi -> V] :
           Recurs(c, lo, hi, a, G)
<1> DEFINE W == Nat \X V
           F == [w \in W |-> <<w[1] + 1, IF lo + w[1] + 1 <= hi
                                         THEN G[<<lo + w[1] + 1, w[2]>>] ELSE w[2]>>]
           It(k) == Iterate(k, <<0, a>>, F)
           c == [k \in lo .. hi |-> It(k - lo)[2]]
<1>1. F \in [W -> W]
  <2> SUFFICES ASSUME NEW w \in W
               PROVE  <<w[1] + 1, IF lo + w[1] + 1 <= hi
                                  THEN G[<<lo + w[1] + 1, w[2]>>] ELSE w[2]>> \in W
    OBVIOUS
  <2>1. w[1] \in Nat /\ w[2] \in V
    OBVIOUS
  <2>2. lo + w[1] + 1 <= hi => <<lo + w[1] + 1, w[2]>> \in (lo .. hi) \X V
    BY <2>1
  <2> QED
    BY <2>1, <2>2
<1>2. <<0, a>> \in W
  OBVIOUS
<1>3. /\ It(0) = <<0, a>>
      /\ \A n \in Nat : It(n) \in W /\ It(n + 1) = F[It(n)]
  <2> DEFINE w0 == <<0, a>>
  <2>1. w0 \in W
    BY <1>2
  <2> HIDE DEF W, F, w0
  <2>2. /\ Iterate(0, w0, F) = w0
        /\ \A n \in Nat : /\ Iterate(n, w0, F) \in W
                          /\ Iterate(n + 1, w0, F) = F[Iterate(n, w0, F)]
    BY <1>1, <2>1, Iteration
  <2> QED
    BY <2>2 DEF w0
<1>4. \A n \in Nat : It(n)[1] = n
  <2> DEFINE H == {n \in Nat : It(n)[1] = n}
  <2>0. \A m : m \in H <=> m \in Nat /\ It(m)[1] = m
    <3> HIDE DEF It, F, W
    <3> QED
      OBVIOUS
  <2>1. 0 \in H
    <3> HIDE DEF H, It, F, W
    <3>1. It(0) = <<0, a>>
      BY <1>3, Zenon
    <3>2. It(0)[1] = 0
      BY <3>1
    <3> QED
      BY <2>0, <3>2
  <2>2. ASSUME NEW n \in Nat, n \in H
        PROVE  n + 1 \in H
    <3>1. \A w \in W : F[w][1] = w[1] + 1
      <4> HIDE DEF H, It
      <4> QED
        OBVIOUS
    <3> HIDE DEF H, It, F, W
    <3>2. It(n + 1) = F[It(n)] /\ It(n) \in W /\ It(n)[1] = n
      BY <1>3, <2>0, <2>2
    <3>3. It(n + 1)[1] = n + 1
      BY <3>1, <3>2
    <3> QED
      BY <2>0, <3>3
  <2>3. Nat \subseteq H
    <3> HIDE DEF H, It, F, W
    <3> QED
      BY <2>1, <2>2, SetInduction
  <2> HIDE DEF H, It, F, W
  <2> QED
    BY <2>0, <2>3
<1>5. ASSUME NEW k \in lo .. hi
      PROVE  c[k] = It(k - lo)[2] /\ c[k] \in V
  <2>1. It(k - lo) \in W
    <3>1. k - lo \in Nat
      OBVIOUS
    <3> HIDE DEF It, W
    <3> QED
      BY <1>3, <3>1
  <2>2. c[k] = It(k - lo)[2]
    OBVIOUS
  <2> HIDE DEF It, c
  <2> QED
    BY <2>1, <2>2
<1>6. c[lo] = a
  <2>1. lo \in lo .. hi /\ lo - lo = 0
    OBVIOUS
  <2>2. c[lo] = It(lo - lo)[2] /\ It(0) = <<0, a>>
    <3> HIDE DEF c, It
    <3> QED
      BY <1>3, <1>5, <2>1
  <2> HIDE DEF c, It
  <2> QED
    BY <2>1, <2>2
<1>7. ASSUME NEW k \in lo .. hi, k # lo
      PROVE  c[k] = G[<<k, c[k - 1]>>]
  <2> DEFINE n == k - 1 - lo
  <2>1. n \in Nat /\ n + 1 = k - lo /\ k - 1 \in lo .. hi /\ lo + n + 1 = k /\ k \in lo .. hi
    BY <1>7
  <2>2. It(n) \in W /\ It(n)[1] = n /\ It(n + 1) = F[It(n)]
    <3> HIDE DEF n, It, F, W
    <3> QED
      BY <1>3, <1>4, <2>1
  <2>3. c[k] = It(n + 1)[2] /\ c[k - 1] = It(n)[2]
    <3>1. c[k] = It(k - lo)[2] /\ c[k - 1] = It(k - 1 - lo)[2]
      <4> HIDE DEF It, c
      <4> QED
        BY <1>5, <2>1
    <3> QED
      BY <2>1, <3>1
  <2> HIDE DEF n, It, c
  <2>4. F[It(n)][2] = G[<<k, It(n)[2]>>]
    BY <2>1, <2>2
  <2> QED
    BY <2>2, <2>3, <2>4
<1>8. c \in [lo .. hi -> V]
  <2>1. \A k \in lo .. hi : It(k - lo)[2] \in V
    BY <1>5
  <2> HIDE DEF It
  <2> QED
    BY <2>1
<1> HIDE DEF c
<1> QED
  BY <1>6, <1>7, <1>8 DEF Recurs

-----------------------------------------------------------------------------
(* FlattenSeq *)

\* The concatenation of the first n sequences of f.
Flat(f, n) == FlattenSeq([k \in 1 .. n |-> f[k]])

\* f is a table of sequences; c the table of its concatenations.
Seqs(f, N, V) == \A k \in 1 .. N : f[k] \in Seq(V)
Chain(c, f, N, V) ==
  /\ Seqs(f, N, V) /\ c \in [0 .. N -> Seq(V)]
  /\ c[0] = <<>> /\ \A k \in 1 .. N : c[k] = c[k - 1] \o f[k]

\* The concatenations of a table, whatever function gives them.
LEMMA FlatIs ==
  ASSUME NEW V, NEW N \in Nat, NEW f, NEW c, Chain(c, f, N, V), NEW n \in 0 .. N
  PROVE  Flat(f, n) = c[n]
<1> DEFINE s == [k \in 1 .. n |-> f[k]]
           Sol(d) == d = [i \in 1 .. n |-> IF i = 1 THEN s[i] ELSE d[i - 1] \o s[i]]
<1>1. \A i \in 1 .. n : i \in 1 .. N
  OBVIOUS
<1>2. c[0] = <<>> /\ \A i \in 1 .. n : c[i] = c[i - 1] \o f[i]
  BY <1>1 DEF Chain
<1>3. \A i \in 1 .. n : f[i] \in Seq(V)
  BY <1>1 DEF Chain, Seqs
<1>4. CASE n = 0
  <2>1. Len(s) = 0 /\ s = <<>>
    BY <1>4
  <2>2. Flat(f, n) = <<>>
    BY <1>4, <2>1 DEF Flat, FlattenSeq
  <2> QED
    BY <1>2, <1>4, <2>2
<1>5. CASE n # 0
  <2>1. Len(s) = n
    OBVIOUS
  <2> DEFINE d == [i \in 1 .. n |-> c[i]]
  <2>2. Sol(d)
    <3>1. ASSUME NEW i \in 1 .. n PROVE d[i] = IF i = 1 THEN s[i] ELSE d[i - 1] \o s[i]
      <4>1. c[i] = c[i - 1] \o f[i]
        BY <1>2
      <4>2. <<>> \o f[i] = f[i]
        BY <1>3, ConcatEmptySeq
      <4>3. i # 1 => i - 1 \in 1 .. n
        OBVIOUS
      <4>4. d[i] = c[i] /\ s[i] = f[i] /\ (i # 1 => d[i - 1] = c[i - 1])
        BY <4>3
      <4>5. i = 1 => c[i - 1] = <<>>
        BY <1>2
      <4> HIDE DEF d, s
      <4> QED
        BY <4>1, <4>2, <4>4, <4>5
    <3> DEFINE g == [i \in 1 .. n |-> IF i = 1 THEN s[i] ELSE d[i - 1] \o s[i]]
    <3>2. d = g
      BY <3>1
    <3> HIDE DEF d
    <3> QED
      BY <3>2
  <2>3. Sol(CHOOSE e : Sol(e))
    <3> HIDE DEF d, Sol
    <3> QED
      BY <2>2
  <2>4. Flat(f, n) = (CHOOSE e : Sol(e))[n]
    BY <1>5, <2>1 DEF Flat, FlattenSeq
  <2>5. PICK e : Sol(e) /\ Flat(f, n) = e[n]
    <3> HIDE DEF Sol
    <3> QED
      BY <2>3, <2>4
  <2>6. ASSUME NEW i \in 1 .. n PROVE e[i] = IF i = 1 THEN f[i] ELSE e[i - 1] \o f[i]
    <3>1. e[i] = [j \in 1 .. n |-> IF j = 1 THEN s[j] ELSE e[j - 1] \o s[j]][i]
      BY <2>5
    <3> QED
      BY <3>1
  <2> HIDE DEF Sol, d, s
  <2> DEFINE H == {i \in Nat : i + 1 <= n => e[i + 1] = c[i + 1]}
  <2>7. 0 \in H
    <3>1. 1 \in 1 .. n /\ f[1] \in Seq(V)
      BY <1>3, <1>5
    <3>2. e[1] = f[1]
      BY <2>6, <3>1
    <3>3. c[1] = <<>> \o f[1]
      <4>1. 1 - 1 = 0
        OBVIOUS
      <4>2. c[1] = c[1 - 1] \o f[1]
        BY <1>2, <3>1
      <4> QED
        BY <1>2, <4>1, <4>2
    <3>4. <<>> \o f[1] = f[1]
      BY <3>1, ConcatEmptySeq
    <3> QED
      BY <3>2, <3>3, <3>4
  <2>8. ASSUME NEW i \in Nat, i \in H
        PROVE  i + 1 \in H
    <3> SUFFICES ASSUME i + 1 + 1 <= n PROVE e[i + 1 + 1] = c[i + 1 + 1]
      OBVIOUS
    <3> DEFINE j == i + 1 + 1
    <3>1. j \in 1 .. n /\ j # 1 /\ j - 1 = i + 1
      OBVIOUS
    <3>2. e[i + 1] = c[i + 1]
      BY <2>8
    <3> HIDE DEF j
    <3>3. e[j] = e[j - 1] \o f[j] /\ c[j] = c[j - 1] \o f[j]
      BY <1>2, <2>6, <3>1
    <3>4. e[j] = c[j]
      BY <3>1, <3>2, <3>3
    <3> QED
      BY <3>4 DEF j
  <2>9. Nat \subseteq H
    <3> HIDE DEF H
    <3> QED
      BY <2>7, <2>8, SetInduction
  <2>10. e[n] = c[n]
    <3>1. n - 1 \in Nat /\ n - 1 + 1 = n
      BY <1>5
    <3>2. n - 1 \in H
      BY <2>9, <3>1
    <3> QED
      BY <3>1, <3>2
  <2> QED
    BY <2>5, <2>10
<1> QED
  BY <1>4, <1>5

\* One more sequence of a table.
LEMMA FlatSteps ==
  ASSUME NEW V, NEW N \in Nat, NEW f, Seqs(f, N, V)
  PROVE  /\ Flat(f, 0) = <<>>
         /\ \A n \in 0 .. N : Flat(f, n) \in Seq(V)
         /\ \A n \in 1 .. N : Flat(f, n) = Flat(f, n - 1) \o f[n]
<1> DEFINE G == [p \in (0 .. N) \X Seq(V) |-> IF p[1] = 0 THEN <<>> ELSE p[2] \o f[p[1]]]
<1>1. G \in [(0 .. N) \X Seq(V) -> Seq(V)]
  BY ConcatProperties, EmptySeq DEF Seqs
<1>2. PICK c \in [0 .. N -> Seq(V)] :
        c[0] = <<>> /\ \A k \in 1 .. N : c[k] = G[<<k, c[k - 1]>>]
  <2> DEFINE W == Seq(V)
             nil == <<>>
  <2>1. nil \in W /\ G \in [(0 .. N) \X W -> W] /\ 0 \in Int /\ N \in Int /\ 0 <= N
    BY <1>1
  <2> HIDE DEF G, W, nil
  <2>2. PICK c \in [0 .. N -> W] : Recurs(c, 0, N, nil, G)
    BY <2>1, Recurrence
  <2>3. \A k \in 1 .. N : c[k] = G[<<k, c[k - 1]>>]
    BY <2>2 DEF Recurs
  <2>4. c \in [0 .. N -> W] /\ c[0] = nil
    BY <2>2 DEF Recurs
  <2> QED
    BY <2>3, <2>4 DEF W, nil
<1>3. ASSUME NEW k \in 1 .. N PROVE c[k] = c[k - 1] \o f[k]
  <2>1. <<k, c[k - 1]>> \in (0 .. N) \X Seq(V) /\ k # 0
    OBVIOUS
  <2>2. c[k] = G[<<k, c[k - 1]>>]
    BY <1>2
  <2>3. G[<<k, c[k - 1]>>] = c[k - 1] \o f[k]
    BY <2>1
  <2> QED
    BY <2>2, <2>3
<1>4. \A n \in 0 .. N : Flat(f, n) = c[n]
  <2>1. Chain(c, f, N, V)
    BY <1>2, <1>3 DEF Chain
  <2> HIDE DEF G
  <2> QED
    BY <2>1, FlatIs
<1>5. 0 \in 0 .. N /\ \A n \in 1 .. N : n \in 0 .. N /\ n - 1 \in 0 .. N
  OBVIOUS
<1> HIDE DEF G
<1>6. \A n \in 0 .. N : c[n] \in Seq(V)
  OBVIOUS
<1>7. Flat(f, 0) = <<>>
  BY <1>2, <1>4, <1>5
<1>8. \A n \in 0 .. N : Flat(f, n) \in Seq(V)
  BY <1>4, <1>6
<1>9. \A n \in 1 .. N : Flat(f, n) = Flat(f, n - 1) \o f[n]
  BY <1>3, <1>4, <1>5
<1> QED
  BY <1>7, <1>8, <1>9

\* The k-th sequence of f stands in the concatenation behind the ones before it.
Placed(f, N, k) ==
  /\ Len(Flat(f, k)) = Len(Flat(f, k - 1)) + Len(f[k])
  /\ Len(Flat(f, k)) <= Len(Flat(f, N))
  /\ \A j \in 1 .. Len(f[k]) : Flat(f, N)[Len(Flat(f, k - 1)) + j] = f[k][j]

\* Where sequence k of a table lies in the concatenation of them all.
LEMMA FlatPlaces ==
  ASSUME NEW V, NEW N \in Nat, NEW f, Seqs(f, N, V),
         NEW k \in 1 .. N
  PROVE  Placed(f, N, k)
<1> SUFFICES /\ Len(Flat(f, k)) = Len(Flat(f, k - 1)) + Len(f[k])
             /\ Len(Flat(f, k)) <= Len(Flat(f, N))
             /\ \A j \in 1 .. Len(f[k]) : Flat(f, N)[Len(Flat(f, k - 1)) + j] = f[k][j]
  BY DEF Placed
<1> DEFINE F(n) == Flat(f, n)
           Keeps(n) == /\ Len(F(k)) <= Len(F(n))
                       /\ \A i \in 1 .. Len(F(k)) : F(n)[i] = F(k)[i]
           H == {n \in Nat : k + n <= N => Keeps(k + n)}
<1>1. \A n \in 0 .. N : F(n) \in Seq(V) /\ Len(F(n)) \in Nat
  BY FlatSteps, LenProperties
<1>0. \A n \in 1 .. N : /\ f[n] \in Seq(V) /\ Len(f[n]) \in Nat
                        /\ n - 1 \in 0 .. N /\ n \in 0 .. N
  BY LenProperties DEF Seqs
<1>2. \A n \in 1 .. N : /\ Len(F(n)) = Len(F(n - 1)) + Len(f[n])
                        /\ \A i \in 1 .. Len(F(n)) :
                             F(n)[i] = IF i <= Len(F(n - 1)) THEN F(n - 1)[i]
                                       ELSE f[n][i - Len(F(n - 1))]
  <2> SUFFICES ASSUME NEW n \in 1 .. N
               PROVE  /\ Len(F(n)) = Len(F(n - 1)) + Len(f[n])
                      /\ \A i \in 1 .. Len(F(n)) :
                           F(n)[i] = IF i <= Len(F(n - 1)) THEN F(n - 1)[i]
                                     ELSE f[n][i - Len(F(n - 1))]
    OBVIOUS
  <2>1. F(n) = F(n - 1) \o f[n] /\ n - 1 \in 0 .. N
    BY <1>0, FlatSteps
  <2>2. F(n - 1) \in Seq(V) /\ f[n] \in Seq(V) /\ Len(F(n - 1)) \in Nat /\ Len(f[n]) \in Nat
    BY <1>0, <1>1, <2>1
  <2> HIDE DEF F
  <2> DEFINE g == F(n - 1)
             h == f[n]
  <2>3. g \in Seq(V) /\ h \in Seq(V) /\ Len(g) \in Nat /\ Len(h) \in Nat /\ F(n) = g \o h
    BY <2>1, <2>2
  <2> HIDE DEF g, h
  <2>4. /\ Len(g \o h) = Len(g) + Len(h)
        /\ \A i \in 1 .. Len(g) + Len(h) :
             (g \o h)[i] = IF i <= Len(g) THEN g[i] ELSE h[i - Len(g)]
    BY <2>3, ConcatProperties
  <2>5. /\ Len(F(n)) = Len(g) + Len(h)
        /\ \A i \in 1 .. Len(F(n)) : F(n)[i] = IF i <= Len(g) THEN g[i] ELSE h[i - Len(g)]
    BY <2>3, <2>4
  <2> QED
    BY <2>5 DEF g, h
<1> HIDE DEF F
<1>3. 0 \in H
  <2>1. k + 0 = k /\ k \in 0 .. N
    OBVIOUS
  <2> QED
    BY <1>1, <2>1
<1>4. ASSUME NEW n \in Nat, n \in H
      PROVE  n + 1 \in H
  <2> DEFINE m == k + (n + 1)
  <2> SUFFICES ASSUME m <= N PROVE Keeps(m)
    OBVIOUS
  <2>1. m \in 1 .. N /\ m - 1 = k + n /\ k + n \in 0 .. N /\ k \in 0 .. N
    OBVIOUS
  <2>2. Keeps(m - 1)
    BY <1>4, <2>1
  <2> HIDE DEF m
  <2>3. Len(F(m)) = Len(F(m - 1)) + Len(f[m]) /\ Len(f[m]) \in Nat /\ Len(F(k)) \in Nat /\ Len(F(m - 1)) \in Nat
    BY <1>0, <1>1, <1>2, <2>1
  <2>4. Len(F(k)) <= Len(F(m)) /\ Len(F(k)) <= Len(F(m - 1)) /\ Len(F(m - 1)) <= Len(F(m))
    <3>1. Len(F(k)) <= Len(F(m - 1))
      BY <2>2
    <3> DEFINE x == Len(F(k))
               y == Len(F(m - 1))
               z == Len(F(m))
               u == Len(f[m])
    <3>2. z = y + u /\ u \in Nat /\ x \in Nat /\ y \in Nat /\ x <= y
      BY <2>3, <3>1
    <3> HIDE DEF x, y, z, u
    <3>3. x <= z /\ x <= y /\ y <= z /\ z \in Nat
      BY <3>2
    <3> QED
      BY <3>3 DEF x, y, z
  <2>5. ASSUME NEW i \in 1 .. Len(F(k)) PROVE F(m)[i] = F(k)[i]
    <3>1. i \in 1 .. Len(F(m)) /\ i <= Len(F(m - 1))
      <4>1. Len(F(m)) \in Nat
        BY <1>1, <2>1
      <4> DEFINE x == Len(F(k))
                 y == Len(F(m - 1))
                 z == Len(F(m))
      <4>2. i \in 1 .. x /\ x <= y /\ x <= z /\ x \in Nat /\ y \in Nat /\ z \in Nat
        BY <2>3, <2>4, <4>1
      <4> HIDE DEF x, y, z
      <4>3. i \in 1 .. z /\ i <= y
        BY <4>2
      <4> QED
        BY <4>3 DEF y, z
    <3>2. F(m)[i] = F(m - 1)[i]
      BY <1>2, <2>1, <3>1
    <3> QED
      BY <2>2, <3>2
  <2> QED
    BY <2>4, <2>5
<1>5. Nat \subseteq H
  <2> HIDE DEF H
  <2> QED
    BY <1>3, <1>4, SetInduction
<1>6. Keeps(N)
  <2>1. N - k \in Nat /\ k + (N - k) = N
    OBVIOUS
  <2>2. N - k \in H
    BY <1>5, <2>1
  <2> QED
    BY <2>1, <2>2
<1>7. Len(F(k)) = Len(F(k - 1)) + Len(f[k]) /\ Len(F(k)) <= Len(F(N))
  BY <1>2, <1>6
<1>8. ASSUME NEW j \in 1 .. Len(f[k]) PROVE F(N)[Len(F(k - 1)) + j] = f[k][j]
  <2> DEFINE i == Len(F(k - 1)) + j
  <2>1. Len(F(k - 1)) \in Nat /\ Len(f[k]) \in Nat /\ Len(F(k)) = Len(F(k - 1)) + Len(f[k])
    BY <1>0, <1>1, <1>2
  <2>2. i \in 1 .. Len(F(k)) /\ ~ (i <= Len(F(k - 1))) /\ i - Len(F(k - 1)) = j
    BY <2>1
  <2> HIDE DEF i
  <2>3. F(k)[i] = f[k][j]
    BY <1>2, <2>2
  <2>4. F(N)[i] = F(k)[i]
    BY <1>6, <2>2
  <2> QED
    BY <2>3, <2>4 DEF i
<1> QED
  BY <1>7, <1>8 DEF F

-----------------------------------------------------------------------------
(* The invariant *)

Early == {"format", "loop", "newline", "backspace", "blank", "char", "row", "draw",
          "load_x", "store_x", "store_nl"}
Late == {"zero_nl", "test_x", "full", "store_full", "zero_full", "test_y",
         "zero_y"}
Pcs == Early \cup Late \cup {"fault"}

\* (The provers do not know that a given string is in STRING.)
Chars == STRING \cup {"", " "}
CallType == [pc : Pcs, i : Nat, count : Nat, spaces : 0 .. Tab, char : Chars,
             row : Nat, reg : Nat]

Typed ==
  /\ keys \in 0 .. MaxKeys
  /\ xPos \in Nat /\ yPos \in Nat
  /\ todo \in Seq(Seq(STRING)) /\ irqs \in Seq(Seq(STRING)) /\ buf \in Seq(STRING)
  /\ ctx \in [Contexts -> CallType]

\* Only the last text of a session may be interrupted.
Turns ==
  /\ todo # <<>> => ~ HasBackspace(todo[Len(todo)])
  /\ \A k \in DOMAIN irqs : ~ HasBackspace(irqs[k])
  /\ irqs # <<>> => Len(todo) = 1
  /\ todo = <<>> => ctx["main"] = Idle
  /\ irqs = <<>> => ctx["irq"] = Idle

\* do_IRQ prints on a frame of its own.
Framed == frame \in {"none", "main", "irq"} /\ (irqs # <<>> => frame # "none")

Has(c) == IF c = "irq" THEN irqs # <<>> ELSE todo # <<>>

\* How far the call c has come in its text and in the buffer.
Progress(c) ==
  /\ ctx[c].i <= Len(buf)
  /\ ctx[c].pc = "format" => ctx[c].count = 0 /\ ctx[c].spaces = 0
  /\ ctx[c].pc = "format" /\ Has(c) => ctx[c].i <= Len(Text(c))
  /\ ctx[c].pc \in {"loop", "fault"} => ctx[c].count <= ctx[c].i
  /\ ctx[c].pc \notin {"format", "loop", "fault"} => ctx[c].count < ctx[c].i
  /\ ctx[c].pc = "loop" /\ ctx[c].spaces > 0 => ctx[c].count > 0
  /\ ctx[c].pc = "blank" => ctx[c].spaces > 0

Quiet(c) == Has(c) => ~ HasBackspace(Text(c))

\* Where no text has a "BS" the buffer has none.
Clean(c) ==
  /\ Quiet(c) => \A j \in 1 .. ctx[c].i : buf[j] # "BS"
  /\ ctx[c].pc \in {"backspace", "fault"} => Has(c) /\ ~ Quiet(c)

\* Where the cursor is when a call is at pc: on the screen, off it by at most
\* one cell until the end of the line and of the screen are looked at.  An
\* interrupt may find it so, and be off by o = 1 more.
Place(x, y, at, o, quiet) ==
  /\ at \in Early => x < Cols + o /\ y < Rows + o
  /\ at = "zero_nl" => x < Cols + o /\ y <= Rows + o
  /\ at \in {"test_y", "zero_y"} => x < Cols
  /\ quiet =>
       /\ at = "test_x" =>
            \/ x = 0 /\ y <= Rows + o
            \/ x <= Cols + o /\ y < Rows + o
       /\ at \in {"full", "store_full"} => x <= Cols + o /\ y < Rows + o
       /\ at = "zero_full" => x <= Cols + o /\ y <= Rows + o
       /\ at \in {"test_y", "zero_y"} => y <= Rows + o

\* What a call d has loaded.
Loads(d, o, quiet) ==
  /\ d.pc = "draw" => d.row < Rows + o
  /\ d.pc = "store_x" => d.reg < Cols + o
  /\ d.pc = "store_nl" => d.reg < Rows + o
  /\ quiet /\ d.pc = "store_full" => d.reg < Rows + o

\* While an interrupt has not moved the cursor it is where Start_Kernel left
\* it, and then on the screen, where it may be at any time.
Cursor ==
  /\ Loads(ctx["main"], 0, Quiet("main")) /\ Loads(ctx["irq"], 1, TRUE)
  /\ irqs = <<>> => Place(xPos, yPos, ctx["main"].pc, 0, Quiet("main"))
  /\ irqs # <<>> =>
       /\ Place(xPos, yPos, ctx["irq"].pc, 1, TRUE)
       /\ ctx["irq"].pc \in Early => Place(xPos, yPos, ctx["main"].pc, 0, TRUE)

IInv ==
  /\ Typed /\ Turns /\ Framed
  /\ Progress("main") /\ Progress("irq")
  /\ Clean("main") /\ Clean("irq")
  /\ Cursor

-----------------------------------------------------------------------------
(* The steps *)

\* The assumptions on the screen, one by one.
LEMMA Sizes ==
  /\ Cols \in Nat /\ Cols > 1 /\ Rows \in Nat /\ Rows > 1
  /\ {xRes, yRes, xCharSize, yCharSize, Tab} \subseteq Nat \ {0}
  /\ MappedPixels \in Nat /\ MaxKeys \in Nat
  /\ Cols * xCharSize <= xRes
<1>1. {xRes, yRes, xCharSize, yCharSize} \subseteq Nat \ {0}
  BY ConsoleAssumption
<1>2. \A n \in Nat, d \in Nat \ {0} : n \div d \in Nat /\ (n \div d) * d <= n
  <2> SUFFICES ASSUME NEW n \in Nat, NEW d \in Nat \ {0}
               PROVE  n \div d \in Nat /\ (n \div d) * d <= n
    OBVIOUS
  <2>1. n = d * (n \div d) + (n % d) /\ n % d \in Nat /\ n \div d \in Nat
    OBVIOUS
  <2> QED
    BY <2>1
<1> QED
  BY <1>1, <1>2, ConsoleAssumption DEF Cols, Rows

\* A call that runs does not disturb what the other one keeps.
LEMMA Turn ==
  ASSUME Typed
  PROVE  /\ Running \in Contexts /\ (Running = "irq" <=> irqs # <<>>)
         /\ c0 = ctx[Running] /\ c0 \in CallType
         /\ \A e \in CallType : ctx' = [ctx EXCEPT ![Running] = e] =>
              /\ ctx' \in [Contexts -> CallType] /\ ctx'[Running] = e
              /\ \A c \in Contexts : c # Running => ctx'[c] = ctx[c]
BY DEF Typed, Running, Contexts, c0

\* A call that has not begun.
LEMMA IdleIs ==
  /\ Idle \in CallType
  /\ Idle.pc = "format" /\ Idle.i = 0 /\ Idle.count = 0 /\ Idle.spaces = 0
<1>1. Idle \in CallType
  BY Sizes DEF Idle, CallType, Pcs, Early, Chars
<1> QED
  BY <1>1 DEF Idle

\* The buffer with its k-th character written.
Written(b, k, x) ==
  [j \in 1 .. (IF Len(b) > k THEN Len(b) ELSE k) |-> IF j = k THEN x ELSE b[j]]

Stores(b, k, x) ==
  /\ Written(b, k, x) \in Seq(STRING) /\ Written(b, k, x)[k] = x
  /\ Len(Written(b, k, x)) = IF Len(b) > k THEN Len(b) ELSE k
  /\ \A j \in 1 .. Len(b) : j # k => Written(b, k, x)[j] = b[j]

\* A character stored in the buffer, or right behind it.
LEMMA WrittenIs ==
  ASSUME NEW b \in Seq(STRING), NEW k \in Nat \ {0}, k <= Len(b) + 1, NEW x \in STRING
  PROVE  Stores(b, k, x)
<1> DEFINE n == IF Len(b) > k THEN Len(b) ELSE k
           d == Written(b, k, x)
<1>1. n \in Nat /\ k \in 1 .. n /\ \A j \in 1 .. n : j # k => j \in 1 .. Len(b)
  OBVIOUS
<1>2. \A j \in 1 .. Len(b) : b[j] \in STRING /\ j \in 1 .. n
  OBVIOUS
<1>3. d = [j \in 1 .. n |-> IF j = k THEN x ELSE b[j]]
  BY DEF Written
<1> HIDE DEF n, d
<1>4. \A j \in 1 .. n : (IF j = k THEN x ELSE b[j]) \in STRING
  BY <1>1, <1>2
<1>5. d \in [1 .. n -> STRING]
  BY <1>3, <1>4
<1>6. d \in Seq(STRING) /\ Len(d) = n
  BY <1>1, <1>5
<1>7. d[k] = x /\ \A j \in 1 .. Len(b) : j # k => d[j] = b[j]
  BY <1>1, <1>2, <1>3
<1> QED
  BY <1>6, <1>7 DEF n, d, Stores

\* The call that runs has a text.
LEMMA HasText ==
  ASSUME Typed, Has(Running)
  PROVE  Text(Running) \in Seq(STRING)
BY DEF Typed, Has, Running, Text

\* Each step keeps the types.
LEMMA TypedStep ==
  ASSUME IInv, Next
  PROVE  Typed'
<1> USE Sizes
<1>1. Typed
  BY DEF IInv
<1>2. Running \in Contexts /\ c0 = ctx[Running] /\ c0 \in CallType
  BY <1>1, Turn
<1>3. ASSUME NEW e \in CallType, ctx' = [ctx EXCEPT ![Running] = e]
      PROVE  ctx' \in [Contexts -> CallType]
  BY <1>1, <1>3, Turn
<1>4. CASE Format
  <2>1. Has(Running) /\ c0.i + 1 <= Len(Text(Running)) /\ c0.i \in Nat
    <3>1. Has(Running) /\ c0.pc = "format" /\ c0.i # Len(Text(Running))
      BY <1>4 DEF Format, Formatted, At, Has, Running
    <3>2. Progress(Running)
      BY <1>2 DEF IInv, Contexts
    <3>3. c0.i <= Len(Text(Running))
      BY <1>2, <3>1, <3>2 DEF Progress
    <3>4. c0.i \in Nat
      BY <1>2 DEF CallType
    <3>5. Len(Text(Running)) \in Nat
      BY <1>1, <3>1, HasText
    <3> QED
      BY <3>1, <3>3, <3>4, <3>5
  <2>2. Text(Running)[c0.i + 1] \in STRING
    BY <1>1, <2>1, HasText
  <2>3. buf' \in Seq(STRING)
    <3>1. c0.i + 1 \in Nat \ {0} /\ c0.i + 1 <= Len(buf) + 1 /\ buf \in Seq(STRING)
      <4>1. Progress(Running)
        BY <1>2 DEF IInv, Contexts
      <4>2. buf \in Seq(STRING) /\ Len(buf) \in Nat
        BY <1>1 DEF Typed
      <4>3. c0.i <= Len(buf)
        BY <1>2, <4>1 DEF Progress
      <4> QED
        BY <2>1, <4>2, <4>3
    <3>2. buf' = Written(buf, c0.i + 1, Text(Running)[c0.i + 1])
      BY <1>4 DEF Format, Written
    <3> QED
      BY <1>4, <2>2, <3>1, <3>2, WrittenIs DEF Stores
  <2>4. [c0 EXCEPT !.i = c0.i + 1] \in CallType
    BY <1>2 DEF CallType
  <2>5. ctx' \in [Contexts -> CallType]
    BY <1>3, <1>4, <2>4 DEF Format, Set
  <2> QED
    BY <1>1, <1>4, <2>3, <2>5 DEF Format, Typed, Step, pos
<1>5. CASE FormatEnd \/ ReadRow \/ LoadX \/ LoadY \/ TestX \/ Branch \/ MoreSpaces \/ ReadBlank
  <2>1. PICK e \in CallType : ctx' = [ctx EXCEPT ![Running] = e]
    <3>1. CASE FormatEnd
      <4>1. [c0 EXCEPT !.pc = "loop"] \in CallType
        BY <1>2 DEF CallType, Pcs, Early
      <4> QED
        BY <3>1, <4>1 DEF FormatEnd, Goto, Set
    <3>2. CASE ReadRow
      <4>1. [c0 EXCEPT !.pc = "draw", !.row = yPos] \in CallType
        BY <1>1, <1>2 DEF CallType, Pcs, Early, Typed
      <4> QED
        BY <3>2, <4>1 DEF ReadRow, Set
    <3>3. CASE LoadX
      <4>1. [c0 EXCEPT !.pc = "store_x", !.reg = xPos] \in CallType
        BY <1>1, <1>2 DEF CallType, Pcs, Early, Typed
      <4> QED
        BY <3>3, <4>1 DEF LoadX, Set
    <3>4. CASE LoadY
      <4>1. \A l \in {"store_nl", "store_full"} :
              [c0 EXCEPT !.pc = l, !.reg = yPos] \in CallType
        BY <1>1, <1>2 DEF CallType, Pcs, Early, Late, Typed
      <4>2. PICK l \in {"store_nl", "store_full"} :
              ctx' = [ctx EXCEPT ![Running] = [c0 EXCEPT !.pc = l, !.reg = yPos]]
        BY <3>4 DEF LoadY, Set
      <4> QED
        BY <4>1, <4>2
    <3>5. CASE TestX
      <4>1. \A l \in {"full", "test_y"} : [c0 EXCEPT !.pc = l] \in CallType
        BY <1>2 DEF CallType, Pcs, Early, Late
      <4>2. PICK l \in {"full", "test_y"} : ctx' = [ctx EXCEPT ![Running] = [c0 EXCEPT !.pc = l]]
        BY <3>5 DEF TestX, Goto, Set
      <4> QED
        BY <4>1, <4>2
    <3>6. CASE Branch
      <4>1. \A l \in {"newline", "backspace", "char"} : [c0 EXCEPT !.pc = l] \in CallType
        BY <1>2 DEF CallType, Pcs, Early
      <4>2. TabStop(xPos) \in 0 .. Tab
        <5>1. xPos \in Nat /\ Tab \in Nat \ {0}
          BY <1>1 DEF Typed
        <5>2. \A x \in Nat, t \in Nat \ {0} : x % t \in 0 .. t - 1
          OBVIOUS
        <5>3. xPos % Tab \in 0 .. Tab - 1
          BY <5>1, <5>2
        <5> QED
          BY <5>1, <5>3 DEF TabStop
      <4>3. [c0 EXCEPT !.pc = "blank", !.spaces = TabStop(xPos)] \in CallType
        BY <1>2, <4>2 DEF CallType, Pcs, Early
      <4>4. \/ \E l \in {"newline", "backspace", "char"} :
                 ctx' = [ctx EXCEPT ![Running] = [c0 EXCEPT !.pc = l]]
            \/ ctx' = [ctx EXCEPT ![Running] =
                         [c0 EXCEPT !.pc = "blank", !.spaces = TabStop(xPos)]]
        BY <3>6 DEF Branch, Goto, Set
      <4> QED
        BY <4>1, <4>3, <4>4
    <3>7. CASE MoreSpaces
      <4>1. c0.count \in Nat /\ c0.count > 0
        <5>1. c0.count \in Nat
          BY <1>2 DEF CallType
        <5> QED
          BY <1>2, <3>7, <5>1 DEF MoreSpaces, At, IInv, Progress, Contexts
      <4>3. c0.count - 1 \in Nat
        BY <4>1
      <4>2. [c0 EXCEPT !.pc = "blank", !.count = c0.count - 1] \in CallType
        BY <1>2, <4>3 DEF CallType, Pcs, Early
      <4> QED
        BY <3>7, <4>2 DEF MoreSpaces, Set
    <3>8. CASE ReadBlank
      <4>1. c0.spaces - 1 \in 0 .. Tab
        <5>1. c0.spaces > 0
          BY <1>2, <3>8 DEF ReadBlank, At, IInv, Progress, Contexts
        <5>2. c0.spaces \in 0 .. Tab
          BY <1>2 DEF CallType
        <5> QED
          BY <5>1, <5>2
      <4>2. [c0 EXCEPT !.pc = "row", !.char = " ", !.spaces = c0.spaces - 1] \in CallType
        BY <1>2, <4>1 DEF CallType, Pcs, Early, Chars
      <4> QED
        BY <3>8, <4>2 DEF ReadBlank, Set
    <3> QED
      BY <1>5, <3>1, <3>2, <3>3, <3>4, <3>5, <3>6, <3>7, <3>8
  <2>2. ctx' \in [Contexts -> CallType]
    BY <1>3, <2>1
  <2>3. UNCHANGED <<keys, xPos, yPos, todo, irqs, buf>>
    BY <1>5 DEF FormatEnd, ReadRow, LoadX, LoadY, TestX, Branch, MoreSpaces, ReadBlank, pos, Step
  <2> QED
    BY <1>1, <2>2, <2>3 DEF Typed
<1>6. CASE ReadChar
  <2>1. c0.count + 1 \in 1 .. Len(buf)
    <3>1. c0.count \in Nat /\ c0.i \in Nat /\ Len(buf) \in Nat
      BY <1>1, <1>2 DEF CallType, Typed
    <3>2. c0.count < c0.i /\ c0.i <= Len(buf)
      BY <1>2, <1>6 DEF ReadChar, At, IInv, Progress, Contexts
    <3> QED
      BY <3>1, <3>2
  <2>2. Next1 \in STRING
    BY <1>1, <2>1 DEF Next1, Typed
  <2>3. [c0 EXCEPT !.pc = "row", !.char = Next1] \in CallType
    BY <1>2, <2>2 DEF CallType, Pcs, Early, Chars
  <2> QED
    BY <1>1, <1>3, <1>6, <2>3 DEF ReadChar, Set, Step, pos, Typed
<1>7. CASE Draw
  <2>1. \A l \in {"load_x", "fault"} : [c0 EXCEPT !.pc = l] \in CallType
    BY <1>2 DEF CallType, Pcs, Early
  <2>2. PICK l \in {"load_x", "fault"} : ctx' = [ctx EXCEPT ![Running] = [c0 EXCEPT !.pc = l]]
    BY <1>7 DEF Draw, Drawn, Goto, Set
  <2> QED
    BY <1>1, <1>3, <1>7, <2>1, <2>2 DEF Draw, pos, Typed
<1>8. CASE StoreX
  <2>1. [c0 EXCEPT !.pc = "test_x"] \in CallType /\ c0.reg + 1 \in Nat
    BY <1>2 DEF CallType, Pcs, Late
  <2> QED
    BY <1>1, <1>3, <1>8, <2>1 DEF StoreX, Goto, Set, Step, Typed
<1>9. CASE StoreY
  <2>1. \A l \in {"zero_nl", "zero_full"} :
          [c0 EXCEPT !.pc = l] \in CallType /\ c0.reg + 1 \in Nat
    BY <1>2 DEF CallType, Pcs, Late
  <2>2. PICK l \in {"zero_nl", "zero_full"} :
          ctx' = [ctx EXCEPT ![Running] = [c0 EXCEPT !.pc = l]]
    BY <1>9 DEF StoreY, Goto, Set
  <2> QED
    BY <1>1, <1>3, <1>9, <2>1, <2>2 DEF StoreY, Step, Typed
<1>10. CASE ZeroX
  <2>1. \A l \in {"test_x", "test_y"} : [c0 EXCEPT !.pc = l] \in CallType
    BY <1>2 DEF CallType, Pcs, Late
  <2>2. PICK l \in {"test_x", "test_y"} : ctx' = [ctx EXCEPT ![Running] = [c0 EXCEPT !.pc = l]]
    BY <1>10 DEF ZeroX, Goto, Set
  <2> QED
    BY <1>1, <1>3, <1>10, <2>1, <2>2 DEF ZeroX, Step, Typed
<1>11. CASE Backspace
  <2>1. \A l \in {"test_x", "fault"} : [c0 EXCEPT !.pc = l] \in CallType
    BY <1>2 DEF CallType, Pcs, Late
  <2>2. PICK l \in {"test_x", "fault"} : ctx' = [ctx EXCEPT ![Running] = [c0 EXCEPT !.pc = l]]
    BY <1>11 DEF Backspace, Drawn, Goto, Set
  <2> DEFINE right == (Cols - 1) * xCharSize
             bottom == (Rows - 1) * yCharSize
  <2>3. right \in Nat /\ bottom \in Nat
    OBVIOUS
  <2>4. xPos' \in Nat /\ yPos' \in Nat
    <3>1. xPos' = (IF xPos > 0 THEN xPos - 1 ELSE right)
          /\ yPos' = CASE xPos > 0 -> yPos [] xPos = 0 /\ yPos > 0 -> yPos - 1 [] OTHER -> bottom
      BY <1>11 DEF Backspace
    <3> HIDE DEF right, bottom
    <3>2. xPos \in Nat /\ yPos \in Nat
      BY <1>1 DEF Typed
    <3> QED
      BY <2>3, <3>1, <3>2
  <2> QED
    BY <1>1, <1>3, <1>11, <2>1, <2>2, <2>4 DEF Backspace, Typed
<1>12. CASE TestY \/ ZeroY
  <2>1. [c0 EXCEPT !.pc = "loop", !.count = c0.count + 1] \in CallType
    <3>1. c0.count + 1 \in Nat
      BY <1>2 DEF CallType
    <3> QED
      BY <1>2, <3>1 DEF CallType, Pcs, Early
  <2>2. [c0 EXCEPT !.pc = "zero_y"] \in CallType
    BY <1>2 DEF CallType, Pcs, Late
  <2>3. PICK e \in CallType : ctx' = [ctx EXCEPT ![Running] = e]
    BY <1>12, <2>1, <2>2 DEF TestY, ZeroY, Again, Goto, Set
  <2>4. ctx' \in [Contexts -> CallType]
    BY <1>3, <2>3
  <2>5. UNCHANGED <<keys, xPos, todo, irqs, buf>> /\ yPos' \in {0, yPos}
    BY <1>12 DEF TestY, ZeroY, Step, pos
  <2> QED
    BY <1>1, <2>4, <2>5 DEF Typed
<1>13. CASE MainReturns
  <2>1. todo # <<>> /\ Running = "main"
    BY <1>13 DEF MainReturns, At
  <2>2. Tail(todo) \in Seq(Seq(STRING))
    BY <1>1, <2>1 DEF Typed
  <2>3. ctx' = [ctx EXCEPT ![Running] = Idle]
    BY <1>13, <2>1 DEF MainReturns, Reset
  <2> QED
    BY <1>1, <1>3, <1>13, <2>2, <2>3, IdleIs DEF MainReturns, pos, Typed
<1>14. CASE IrqReturns
  <2>1. irqs # <<>> /\ Running = "irq"
    BY <1>14 DEF IrqReturns, Running
  <2>2. Tail(irqs) \in Seq(Seq(STRING))
    BY <1>1, <2>1 DEF Typed
  <2>3. ctx' = [ctx EXCEPT ![Running] = Idle]
    BY <1>14, <2>1 DEF IrqReturns, Reset
  <2> QED
    BY <1>1, <1>3, <1>14, <2>2, <2>3, IdleIs DEF IrqReturns, pos, Typed
<1>15. CASE Key
  <2>1. IrqTexts \in Seq(Seq(STRING))
    BY ConsoleAssumption
  <2>2. keys' \in 0 .. MaxKeys
    BY <1>1, <1>15 DEF Key, Typed
  <2> QED
    BY <1>1, <1>15, <2>1, <2>2 DEF Key, pos, Typed
<1>16. CASE Iretq
  BY <1>1, <1>16 DEF Iretq, pos, Typed
<1> QED
  BY <1>4, <1>5, <1>6, <1>7, <1>8, <1>9, <1>10, <1>11, <1>12, <1>13, <1>14, <1>15, <1>16
     DEF Next, Printing

\* The steps inside a call.
Inside ==
  \/ Format \/ FormatEnd \/ Branch \/ MoreSpaces \/ ReadBlank \/ ReadChar
  \/ ReadRow \/ Draw \/ LoadX \/ StoreX \/ LoadY \/ StoreY \/ ZeroX
  \/ Backspace \/ TestX \/ TestY \/ ZeroY

\* A step inside a call leaves the other call and all texts alone.
LEMMA InsideFrame ==
  ASSUME IInv, Inside
  PROVE  /\ UNCHANGED <<todo, irqs, frame, keys, Running>> /\ Has(Running)
         /\ \A c : Has(c)' = Has(c) /\ Text(c)' = Text(c) /\ Quiet(c)' = Quiet(c)
         /\ \A c \in Contexts : c # Running => ctx'[c] = ctx[c]
         /\ Running \in Contexts /\ c0 = ctx[Running] /\ c0 \in CallType
         /\ Format \/ buf' = buf
<1>1. Typed
  BY DEF IInv
<1>2. UNCHANGED <<todo, irqs, frame, keys>> /\ (Format \/ buf' = buf)
  BY DEF Inside, Format, FormatEnd, Branch, MoreSpaces, ReadBlank, ReadChar, ReadRow, Draw,
         LoadX, StoreX, LoadY, StoreY, ZeroX, Backspace, TestX, TestY, ZeroY, Step, pos
<1>3. Running' = Running
  BY <1>2 DEF Running
<1>4. \A c : Has(c)' = Has(c) /\ Text(c)' = Text(c)
  BY <1>2 DEF Has, Text
<1>5. \A c : Quiet(c)' = Quiet(c)
  BY <1>4 DEF Quiet
<1>6. Has(Running)
  BY DEF Inside, Format, FormatEnd, Branch, MoreSpaces, ReadBlank, ReadChar, ReadRow, Draw,
         LoadX, StoreX, LoadY, StoreY, ZeroX, Backspace, TestX, TestY, ZeroY, At, Has, Running
<1>7. Running \in Contexts /\ c0 = ctx[Running] /\ c0 \in CallType
  BY <1>1, Turn
<1>8. \A c \in Contexts : c # Running => ctx'[c] = ctx[c]
  <2>1. \E e : ctx' = [ctx EXCEPT ![Running] = e]
    BY DEF Inside, Format, FormatEnd, Branch, MoreSpaces, ReadBlank, ReadChar, ReadRow, Draw,
           Drawn, LoadX, StoreX, LoadY, StoreY, ZeroX, Backspace, TestX, TestY, ZeroY, Again,
           Set, Goto
  <2> QED
    BY <1>1, <2>1 DEF Typed
<1> QED
  BY <1>2, <1>3, <1>4, <1>5, <1>6, <1>7, <1>8

\* The record of the running call after a step.
LEMMA SetIs ==
  ASSUME Typed
  PROVE  /\ \A e : Set(e) => ctx'[Running] = e
         /\ \A l : Goto(l) => ctx'[Running] = [c0 EXCEPT !.pc = l]
<1>1. ASSUME NEW e, Set(e)
      PROVE  ctx'[Running] = e
  BY <1>1, Turn DEF Set, Typed
<1> QED
  BY <1>1 DEF Goto

\* What a step inside a call does to it: pc and what is not in "but".
Becomes(d, e, l, but) ==
  /\ e.pc = l
  /\ "i" \notin but => e.i = d.i
  /\ "count" \notin but => e.count = d.count
  /\ "spaces" \notin but => e.spaces = d.spaces
  /\ "char" \notin but => e.char = d.char
  /\ "row" \notin but => e.row = d.row
  /\ "reg" \notin but => e.reg = d.reg

\* What the steps of a call do to its record, the buffer and the cursor.
LEMMA FormatDoes ==
  ASSUME IInv, Format
  PROVE  /\ c0.pc = "format" /\ c0.i # Len(Text(Running))
         /\ Becomes(c0, ctx'[Running], "format", {"i"}) /\ ctx'[Running].i = c0.i + 1
         /\ buf' = Written(buf, c0.i + 1, Text(Running)[c0.i + 1])
         /\ UNCHANGED pos
<1>1. Typed /\ c0 \in CallType
  BY Turn DEF IInv
<1>2. ctx'[Running] = [c0 EXCEPT !.i = c0.i + 1]
  BY <1>1, SetIs DEF Format
<1> QED
  BY <1>1, <1>2 DEF Format, At, Formatted, Written, Becomes, CallType

\* What the tests between two pieces of drawing do, action by action.
LEMMA BranchDoes ==
  ASSUME IInv, Branch
  PROVE  /\ c0.pc = "loop" /\ c0.spaces = 0 /\ c0.count < c0.i
         /\ \/ Next1 = "NL" /\ Becomes(c0, ctx'[Running], "newline", {})
            \/ Next1 = "BS" /\ Becomes(c0, ctx'[Running], "backspace", {})
            \/ /\ Next1 = "TAB" /\ Becomes(c0, ctx'[Running], "blank", {"spaces"})
               /\ ctx'[Running].spaces = TabStop(xPos)
            \/ Next1 \notin {"NL", "BS", "TAB"} /\ Becomes(c0, ctx'[Running], "char", {})
         /\ UNCHANGED <<buf, pos>>
<1>1. Typed /\ c0 \in CallType
  BY Turn DEF IInv
<1>2. c0.pc = "loop" /\ c0.spaces = 0 /\ c0.count < c0.i
  BY <1>1 DEF Branch, At, More, CallType
<1>3. CASE Next1 = "NL"
  <2>1. ctx'[Running] = [c0 EXCEPT !.pc = "newline"]
    BY <1>1, <1>3, SetIs DEF Branch
  <2> QED
    BY <1>1, <1>2, <1>3, <2>1 DEF Branch, Becomes, CallType
<1>4. CASE Next1 = "BS"
  <2>1. ctx'[Running] = [c0 EXCEPT !.pc = "backspace"]
    BY <1>1, <1>4, SetIs DEF Branch
  <2> QED
    BY <1>1, <1>2, <1>4, <2>1 DEF Branch, Becomes, CallType
<1>5. CASE Next1 = "TAB"
  <2>1. ctx'[Running] = [c0 EXCEPT !.pc = "blank", !.spaces = TabStop(xPos)]
    BY <1>1, <1>5, SetIs DEF Branch
  <2> QED
    BY <1>1, <1>2, <1>5, <2>1 DEF Branch, Becomes, CallType
<1>6. CASE Next1 \notin {"NL", "BS", "TAB"}
  <2>1. ctx'[Running] = [c0 EXCEPT !.pc = "char"]
    BY <1>1, <1>6, SetIs DEF Branch
  <2> QED
    BY <1>1, <1>2, <1>6, <2>1 DEF Branch, Becomes, CallType
<1> QED
  BY <1>3, <1>4, <1>5, <1>6

\* The blanks of a tab: one more, and the decrement of spaces.
LEMMA SpacesDo ==
  ASSUME IInv, MoreSpaces \/ ReadBlank
  PROVE  /\ \/ /\ c0.pc = "loop" /\ c0.spaces > 0
               /\ Becomes(c0, ctx'[Running], "blank", {"count"})
               /\ ctx'[Running].count = c0.count - 1
            \/ /\ c0.pc = "blank" /\ Becomes(c0, ctx'[Running], "row", {"spaces", "char"})
               /\ ctx'[Running].spaces = c0.spaces - 1 /\ ctx'[Running].char = " "
         /\ UNCHANGED <<buf, pos>>
<1>1. Typed /\ c0 \in CallType
  BY Turn DEF IInv
<1>2. CASE MoreSpaces
  <2>1. ctx'[Running] = [c0 EXCEPT !.pc = "blank", !.count = c0.count - 1]
    BY <1>1, <1>2, SetIs DEF MoreSpaces
  <2> QED
    BY <1>1, <1>2, <2>1 DEF MoreSpaces, At, Becomes, CallType
<1>3. CASE ReadBlank
  <2>1. ctx'[Running] = [c0 EXCEPT !.pc = "row", !.char = " ", !.spaces = c0.spaces - 1]
    BY <1>1, <1>3, SetIs DEF ReadBlank
  <2> QED
    BY <1>1, <1>3, <2>1 DEF ReadBlank, At, Becomes, CallType
<1> QED
  BY <1>2, <1>3

\* The reads of the text, of Pos and of the row.
LEMMA ReadsDo ==
  ASSUME IInv, FormatEnd \/ ReadChar \/ ReadRow \/ LoadX \/ LoadY
  PROVE  /\ \/ /\ c0.pc = "format" /\ c0.i = Len(Text(Running))
               /\ Becomes(c0, ctx'[Running], "loop", {})
            \/ /\ c0.pc = "char" /\ Becomes(c0, ctx'[Running], "row", {"char"})
               /\ ctx'[Running].char = Next1
            \/ /\ c0.pc = "row" /\ Becomes(c0, ctx'[Running], "draw", {"row"})
               /\ ctx'[Running].row = yPos
            \/ /\ c0.pc = "load_x" /\ Becomes(c0, ctx'[Running], "store_x", {"reg"})
               /\ ctx'[Running].reg = xPos
            \/ /\ c0.pc = "newline" /\ Becomes(c0, ctx'[Running], "store_nl", {"reg"})
               /\ ctx'[Running].reg = yPos
            \/ /\ c0.pc = "full" /\ Becomes(c0, ctx'[Running], "store_full", {"reg"})
               /\ ctx'[Running].reg = yPos
         /\ UNCHANGED <<buf, pos>>
<1>1. Typed /\ c0 \in CallType
  BY Turn DEF IInv
<1>2. CASE FormatEnd
  <2>1. ctx'[Running] = [c0 EXCEPT !.pc = "loop"]
    BY <1>1, <1>2, SetIs DEF FormatEnd
  <2> QED
    BY <1>1, <1>2, <2>1 DEF FormatEnd, At, Formatted, Becomes, CallType
<1>3. CASE ReadChar
  <2>1. ctx'[Running] = [c0 EXCEPT !.pc = "row", !.char = Next1]
    BY <1>1, <1>3, SetIs DEF ReadChar
  <2> QED
    BY <1>1, <1>3, <2>1 DEF ReadChar, At, Becomes, CallType
<1>4. CASE ReadRow
  <2>1. ctx'[Running] = [c0 EXCEPT !.pc = "draw", !.row = yPos]
    BY <1>1, <1>4, SetIs DEF ReadRow
  <2> QED
    BY <1>1, <1>4, <2>1 DEF ReadRow, At, Becomes, CallType
<1>5. CASE LoadX
  <2>1. ctx'[Running] = [c0 EXCEPT !.pc = "store_x", !.reg = xPos]
    BY <1>1, <1>5, SetIs DEF LoadX
  <2> QED
    BY <1>1, <1>5, <2>1 DEF LoadX, At, Becomes, CallType
<1>6. CASE LoadY
  <2>1. ctx'[Running] = [c0 EXCEPT !.pc = IF c0.pc = "newline" THEN "store_nl" ELSE "store_full",
                                   !.reg = yPos]
    BY <1>1, <1>6, SetIs DEF LoadY
  <2> QED
    BY <1>1, <1>6, <2>1 DEF LoadY, At, Becomes, CallType
<1> QED
  BY <1>2, <1>3, <1>4, <1>5, <1>6

\* Drawing, on the screen or off the mapped pixels.
LEMMA DrawDoes ==
  ASSUME IInv, Draw
  PROVE  /\ c0.pc = "draw"
         /\ \/ /\ Becomes(c0, ctx'[Running], "load_x", {})
               /\ drawn' = [drawn EXCEPT ![Running] =
                     Append(@, [x |-> xPos * xCharSize, y |-> c0.row * yCharSize,
                                char |-> c0.char])]
            \/ /\ ~ (Reaches(xPos * xCharSize, c0.row * yCharSize) < MappedPixels)
               /\ Becomes(c0, ctx'[Running], "fault", {})
         /\ UNCHANGED <<buf, pos>>
<1>1. Typed /\ c0 \in CallType
  BY Turn DEF IInv
<1>2. CASE Reaches(xPos * xCharSize, c0.row * yCharSize) < MappedPixels
  <2>1. ctx'[Running] = [c0 EXCEPT !.pc = "load_x"]
    BY <1>1, <1>2, SetIs DEF Draw, Drawn
  <2> QED
    BY <1>1, <1>2, <2>1 DEF Draw, Drawn, At, Becomes, CallType
<1>3. CASE ~ (Reaches(xPos * xCharSize, c0.row * yCharSize) < MappedPixels)
  <2>1. ctx'[Running] = [c0 EXCEPT !.pc = "fault"]
    BY <1>1, <1>3, SetIs DEF Draw, Drawn
  <2> QED
    BY <1>1, <1>3, <2>1 DEF Draw, Drawn, At, Becomes, CallType
<1> QED
  BY <1>2, <1>3

\* A backspace only moves back.
LEMMA BackspaceDoes ==
  ASSUME IInv, Backspace
  PROVE  /\ c0.pc = "backspace"
         /\ \E l \in {"test_x", "fault"} : Becomes(c0, ctx'[Running], l, {})
         /\ buf' = buf
<1>1. Typed /\ c0 \in CallType
  BY Turn DEF IInv
<1>2. PICK l \in {"test_x", "fault"} : Goto(l)
  BY DEF Backspace, Drawn
<1>3. ctx'[Running] = [c0 EXCEPT !.pc = l]
  BY <1>1, <1>2, SetIs
<1> QED
  BY <1>1, <1>3 DEF Backspace, At, Becomes, CallType

\* The stores to Pos.
LEMMA StoresDo ==
  ASSUME IInv, StoreX \/ StoreY \/ ZeroX
  PROVE  /\ \/ /\ c0.pc = "store_x" /\ Becomes(c0, ctx'[Running], "test_x", {})
               /\ xPos' = c0.reg + 1 /\ yPos' = yPos
            \/ /\ c0.pc = "store_nl" /\ Becomes(c0, ctx'[Running], "zero_nl", {})
               /\ yPos' = c0.reg + 1 /\ xPos' = xPos
            \/ /\ c0.pc = "store_full" /\ Becomes(c0, ctx'[Running], "zero_full", {})
               /\ yPos' = c0.reg + 1 /\ xPos' = xPos
            \/ /\ c0.pc = "zero_nl" /\ Becomes(c0, ctx'[Running], "test_x", {})
               /\ xPos' = 0 /\ yPos' = yPos
            \/ /\ c0.pc = "zero_full" /\ Becomes(c0, ctx'[Running], "test_y", {})
               /\ xPos' = 0 /\ yPos' = yPos
         /\ buf' = buf
<1>1. Typed /\ c0 \in CallType
  BY Turn DEF IInv
<1>2. CASE StoreX
  <2>1. ctx'[Running] = [c0 EXCEPT !.pc = "test_x"]
    BY <1>1, <1>2, SetIs DEF StoreX
  <2> QED
    BY <1>1, <1>2, <2>1 DEF StoreX, At, Becomes, CallType
<1>3. CASE StoreY
  <2>1. ctx'[Running] = [c0 EXCEPT !.pc = IF c0.pc = "store_nl" THEN "zero_nl" ELSE "zero_full"]
    BY <1>1, <1>3, SetIs DEF StoreY
  <2> QED
    BY <1>1, <1>3, <2>1 DEF StoreY, At, Becomes, CallType
<1>4. CASE ZeroX
  <2>1. ctx'[Running] = [c0 EXCEPT !.pc = IF c0.pc = "zero_nl" THEN "test_x" ELSE "test_y"]
    BY <1>1, <1>4, SetIs DEF ZeroX
  <2> QED
    BY <1>1, <1>4, <2>1 DEF ZeroX, At, Becomes, CallType
<1> QED
  BY <1>2, <1>3, <1>4

\* The two tests behind a character, and the way back to the first row.
LEMMA TestsDo ==
  ASSUME IInv, TestX \/ TestY \/ ZeroY
  PROVE  /\ \/ /\ c0.pc = "test_x" /\ xPos >= Cols /\ Becomes(c0, ctx'[Running], "full", {})
               /\ UNCHANGED pos
            \/ /\ c0.pc = "test_x" /\ xPos < Cols /\ Becomes(c0, ctx'[Running], "test_y", {})
               /\ UNCHANGED pos
            \/ /\ c0.pc = "test_y" /\ yPos >= Rows /\ Becomes(c0, ctx'[Running], "zero_y", {})
               /\ UNCHANGED pos
            \/ /\ c0.pc = "test_y" /\ yPos < Rows /\ Becomes(c0, ctx'[Running], "loop", {"count"})
               /\ ctx'[Running].count = c0.count + 1
               /\ UNCHANGED pos
            \/ /\ c0.pc = "zero_y" /\ Becomes(c0, ctx'[Running], "loop", {"count"})
               /\ ctx'[Running].count = c0.count + 1
               /\ xPos' = xPos /\ yPos' = 0
         /\ buf' = buf
<1>1. Typed /\ c0 \in CallType
  BY Turn DEF IInv
<1>2. CASE TestX
  <2>1. ctx'[Running] = [c0 EXCEPT !.pc = IF IsFull THEN "full" ELSE "test_y"]
    BY <1>1, <1>2, SetIs DEF TestX
  <2>2. IsFull <=> ~ (xPos < Cols)
    BY <1>1, Sizes DEF IsFull, Typed
  <2> QED
    BY <1>1, <1>2, <2>1, <2>2 DEF TestX, At, Becomes, CallType, IsFull
<1>3. CASE TestY /\ BelowScreen
  <2>1. ctx'[Running] = [c0 EXCEPT !.pc = "zero_y"]
    BY <1>1, <1>3, SetIs DEF TestY
  <2> QED
    BY <1>1, <1>3, <2>1 DEF TestY, At, Becomes, CallType, BelowScreen
<1>4. Again => ctx'[Running] = [c0 EXCEPT !.pc = "loop", !.count = c0.count + 1]
  BY <1>1, SetIs DEF Again
<1>5. CASE TestY /\ ~ BelowScreen
  <2>1. yPos < Rows
    BY <1>1, <1>5, Sizes DEF BelowScreen, Typed
  <2> QED
    BY <1>1, <1>4, <1>5, <2>1 DEF TestY, At, Becomes, CallType
<1>6. CASE ZeroY
  BY <1>1, <1>4, <1>6 DEF ZeroY, At, Becomes, CallType
<1> QED
  BY <1>2, <1>3, <1>5, <1>6

\* A step of a call that goes on keeps its Progress.
LEMMA ProgressInside ==
  ASSUME IInv, Inside
  PROVE  Progress("main")' /\ Progress("irq")'
<1> DEFINE d == c0
           e == ctx'[Running]
           n == Len(buf)
           m == Len(buf')
<1>1. Typed /\ \A c \in Contexts : Progress(c)
  BY DEF IInv, Contexts
<1>2. /\ d = ctx[Running] /\ Running \in Contexts /\ n \in Nat /\ Has(Running)
      /\ d.i \in Nat /\ d.count \in Nat /\ d.spaces \in Nat
  BY <1>1, InsideFrame, Sizes DEF Typed, CallType
<1>3. /\ d.i <= n
      /\ d.pc = "format" => d.count = 0 /\ d.spaces = 0
      /\ d.pc = "format" => d.i <= Len(Text(Running))
      /\ d.pc \in {"loop", "fault"} => d.count <= d.i
      /\ d.pc \notin {"format", "loop", "fault"} => d.count < d.i
      /\ d.pc = "loop" /\ d.spaces > 0 => d.count > 0
      /\ d.pc = "blank" => d.spaces > 0
  BY <1>1, <1>2 DEF Progress
<1> DEFINE Good ==
             /\ e.i <= m
             /\ e.pc = "format" => e.count = 0 /\ e.spaces = 0
             /\ e.pc = "format" => e.i <= Len(Text(Running))
             /\ e.pc \in {"loop", "fault"} => e.count <= e.i
             /\ e.pc \notin {"format", "loop", "fault"} => e.count < e.i
             /\ e.pc = "loop" /\ e.spaces > 0 => e.count > 0
             /\ e.pc = "blank" => e.spaces > 0
<1> SUFFICES m \in Nat /\ m >= n /\ Good
  <2>1. ASSUME m \in Nat, m >= n, Good, NEW c \in Contexts
        PROVE  Progress(c)'
    <3>1. Has(c)' = Has(c) /\ Text(c)' = Text(c)
      BY InsideFrame
    <3>2. CASE c = Running
      BY <2>1, <3>1, <3>2 DEF Progress
    <3>3. CASE c # Running
      <4>1. ctx'[c] = ctx[c] /\ ctx[c].i \in Nat
        BY <1>1, <3>3, InsideFrame DEF Typed, CallType
      <4> QED
        BY <1>1, <1>2, <2>1, <3>1, <4>1 DEF Progress
    <3> QED
      BY <3>2, <3>3
  <2> QED
    BY <2>1 DEF Contexts
<1> HIDE DEF d, e
<1>4. CASE Format
  <2> DEFINE l == Len(Text(Running))
             x == Text(Running)[d.i + 1]
  <2>1. l \in Nat /\ Text(Running) \in Seq(STRING)
    BY <1>1, <1>2, HasText
  <2>2. d.pc = "format" /\ d.i # l /\ Becomes(d, e, "format", {"i"}) /\ e.i = d.i + 1
        /\ buf' = Written(buf, d.i + 1, x)
    BY <1>4, FormatDoes DEF d, e
  <2>3. d.i + 1 \in Nat \ {0} /\ d.i + 1 <= n + 1 /\ d.i + 1 <= l
    BY <1>2, <1>3, <2>1, <2>2
  <2>4. x \in STRING
    BY <2>1, <2>3
  <2> HIDE DEF l, x
  <2>5. m = IF n > d.i + 1 THEN n ELSE d.i + 1
    <3>1. Stores(buf, d.i + 1, x)
      BY <1>1, <2>3, <2>4, WrittenIs DEF Typed
    <3> QED
      BY <2>2, <3>1 DEF Stores
  <2>6. m \in Nat /\ m >= n
    BY <1>2, <2>3, <2>5
  <2>7. Good
    BY <1>2, <1>3, <2>2, <2>3, <2>5 DEF Becomes, l
  <2> QED
    BY <2>6, <2>7
<1>5. ASSUME ~ Format
      PROVE  m = n
  BY <1>5, InsideFrame
<1>6. CASE Branch
  <2>1. TabStop(xPos) > 0
    BY <1>1, Sizes DEF TabStop, Typed
  <2>2. m = n
    BY <1>5, <1>6 DEF Branch, Format, At
  <2>3. d.count < d.i /\ e.pc \in {"newline", "backspace", "blank", "char"} /\ e.i = d.i
        /\ e.count = d.count /\ (e.pc = "blank" => e.spaces = TabStop(xPos))
    BY <1>6, BranchDoes DEF Becomes, d, e
  <2> QED
    BY <1>2, <1>3, <2>1, <2>2, <2>3
<1>7. CASE MoreSpaces \/ ReadBlank
  <2>1. m = n
    BY <1>5, <1>7 DEF MoreSpaces, ReadBlank, Format, At
  <2>2. \/ /\ d.pc = "loop" /\ d.spaces > 0
           /\ Becomes(d, e, "blank", {"count"}) /\ e.count = d.count - 1
        \/ /\ d.pc = "blank" /\ Becomes(d, e, "row", {"spaces", "char"})
           /\ e.spaces = d.spaces - 1
    BY <1>7, SpacesDo DEF d, e
  <2>3. CASE d.pc = "loop" /\ d.spaces > 0 /\ Becomes(d, e, "blank", {"count"})
             /\ e.count = d.count - 1
    BY <1>2, <1>3, <2>1, <2>3 DEF Becomes
  <2>4. CASE d.pc = "blank" /\ Becomes(d, e, "row", {"spaces", "char"})
    BY <1>2, <1>3, <2>1, <2>4 DEF Becomes
  <2> QED
    BY <2>2, <2>3, <2>4
<1>8. CASE FormatEnd \/ ReadChar \/ ReadRow \/ LoadX \/ LoadY
  BY <1>2, <1>3, <1>5, <1>8, ReadsDo
     DEF Becomes, d, e, FormatEnd, ReadChar, ReadRow, LoadX, LoadY, Format, At
<1>9. CASE Draw
  BY <1>2, <1>3, <1>5, <1>9, DrawDoes DEF Becomes, d, e, Draw, Format, At
<1>10. CASE Backspace
  <2>1. ~ Format
    BY <1>10 DEF Backspace, Format, At
  <2>2. PICK l \in {"test_x", "fault"} : Becomes(d, e, l, {})
    BY <1>10, BackspaceDoes DEF d, e
  <2>3. d.pc = "backspace"
    BY <1>10, BackspaceDoes DEF d
  <2> QED
    BY <1>2, <1>3, <1>5, <2>1, <2>2, <2>3 DEF Becomes
<1>11. CASE StoreX \/ StoreY \/ ZeroX
  <2>1. m = n
    BY <1>5, <1>11 DEF StoreX, StoreY, ZeroX, Format, At
  <2>2. d.pc \in {"store_x", "store_nl", "store_full", "zero_nl", "zero_full"}
        /\ e.pc \in {"test_x", "zero_nl", "zero_full", "test_y"}
        /\ e.i = d.i /\ e.count = d.count
    BY <1>11, StoresDo DEF Becomes, d, e
  <2> QED
    BY <1>2, <1>3, <2>1, <2>2
<1>12. CASE TestX \/ TestY \/ ZeroY
  <2>1. m = n
    BY <1>5, <1>12 DEF TestX, TestY, ZeroY, Format, At
  <2>2. \/ /\ d.pc \in {"test_x", "test_y"} /\ e.pc \in {"full", "test_y", "zero_y"}
           /\ e.i = d.i /\ e.count = d.count
        \/ /\ d.pc \in {"test_y", "zero_y"} /\ e.pc = "loop"
           /\ e.i = d.i /\ e.count = d.count + 1
    BY <1>12, TestsDo DEF Becomes, d, e
  <2> QED
    BY <1>2, <1>3, <2>1, <2>2
<1> QED
  BY <1>4, <1>6, <1>7, <1>8, <1>9, <1>10, <1>11, <1>12 DEF Inside

\* What a returning call leaves.
LEMMA ReturnsAre ==
  ASSUME IInv, MainReturns \/ IrqReturns
  PROVE  /\ c0.pc = "loop" /\ ctx'[Running] = Idle /\ UNCHANGED <<buf, pos, keys>>
         /\ Running \in Contexts
         /\ \A c \in Contexts : c # Running =>
              /\ ctx'[c] = ctx[c] /\ Has(c)' = Has(c) /\ Text(c)' = Text(c)
              /\ Quiet(c)' = Quiet(c)
         /\ \/ /\ Running = "main" /\ irqs = <<>> /\ irqs' = irqs
               /\ todo # <<>> /\ todo' = Tail(todo)
            \/ Running = "irq" /\ irqs # <<>> /\ irqs' = Tail(irqs) /\ todo' = todo
<1>1. Typed /\ Running \in Contexts /\ (Running = "irq" <=> irqs # <<>>)
  BY Turn DEF IInv
<1>2. CASE MainReturns
  <2>1. Running = "main" /\ irqs' = irqs /\ todo' = Tail(todo) /\ todo # <<>> /\ c0.pc = "loop"
    BY <1>2 DEF MainReturns, At
  <2>2. ctx' = [ctx EXCEPT !["main"] = Idle] /\ UNCHANGED <<buf, pos, keys>>
    BY <1>2 DEF MainReturns, Reset
  <2>3. Has("irq")' = Has("irq") /\ Text("irq")' = Text("irq")
    BY <2>1 DEF Has, Text
  <2>4. Quiet("irq")' = Quiet("irq")
    BY <2>3 DEF Quiet
  <2>5. ctx'["main"] = Idle /\ ctx'["irq"] = ctx["irq"]
    BY <1>1, <2>2 DEF Typed, Contexts
  <2> QED
    BY <1>1, <2>1, <2>2, <2>3, <2>4, <2>5 DEF Contexts
<1>3. CASE IrqReturns
  <2>1. Running = "irq" /\ irqs' = Tail(irqs) /\ todo' = todo /\ irqs # <<>> /\ c0.pc = "loop"
    BY <1>1, <1>3 DEF IrqReturns, At
  <2>2. ctx' = [ctx EXCEPT !["irq"] = Idle] /\ UNCHANGED <<buf, pos, keys>>
    BY <1>3 DEF IrqReturns, Reset
  <2>3. Has("main")' = Has("main") /\ Text("main")' = Text("main")
    BY <2>1 DEF Has, Text
  <2>4. Quiet("main")' = Quiet("main")
    BY <2>3 DEF Quiet
  <2>5. ctx'["irq"] = Idle /\ ctx'["main"] = ctx["main"]
    BY <1>1, <2>2 DEF Typed, Contexts
  <2> QED
    BY <1>1, <2>1, <2>2, <2>3, <2>4, <2>5 DEF Contexts
<1> QED
  BY <1>2, <1>3

\* What a key finds and starts.
LEMMA KeyIs ==
  ASSUME IInv, Key
  PROVE  /\ Running = "main" /\ irqs = <<>> /\ irqs' = IrqTexts /\ irqs' # <<>>
         /\ Len(todo) = 1 /\ todo # <<>> /\ Quiet("main") /\ ctx["main"].pc # "fault"
         /\ UNCHANGED <<todo, ctx, buf, xPos, yPos>> /\ ctx["irq"] = Idle
         /\ Has("main")' = Has("main") /\ Text("main")' = Text("main")
         /\ Quiet("main")' = Quiet("main")
<1>1. Typed /\ (Running = "irq" <=> irqs # <<>>) /\ c0 = ctx[Running] /\ Turns
  BY Turn DEF IInv
<1>2. Running = "main" /\ irqs = <<>> /\ irqs' = IrqTexts /\ Len(todo) = 1 /\ c0.pc # "fault"
      /\ UNCHANGED <<todo, ctx, buf, xPos, yPos>>
  <2>1. irqs = <<>>
    BY DEF Key
  <2>2. Running = "main"
    BY <2>1 DEF Running
  <2> QED
    BY <2>1, <2>2 DEF Key, pos
<1> DEFINE Empty == <<>>
<1> Len(Empty) = 0
  OBVIOUS
<1> HIDE DEF Empty
<1>3. irqs' # <<>>
  <2>1. Len(IrqTexts) = 2
    BY ConsoleAssumption
  <2>2. IrqTexts # Empty
    BY <2>1
  <2> QED
    BY <1>2, <2>2 DEF Empty
<1>4. todo # <<>> /\ todo[Len(todo)] = Head(todo)
  <2>1. todo # <<>>
    BY <1>2 DEF Empty
  <2>2. Head(todo) = todo[1]
    BY <1>1, <2>1 DEF Typed
  <2> QED
    BY <1>2, <2>1, <2>2
<1>5. Quiet("main")
  BY <1>1, <1>4 DEF Turns, Quiet, Text
<1>6. Has("main")' = Has("main") /\ Text("main")' = Text("main")
  BY <1>2 DEF Has, Text
<1>7. Quiet("main")' = Quiet("main")
  BY <1>6 DEF Quiet
<1> QED
  BY <1>1, <1>2, <1>3, <1>4, <1>5, <1>6, <1>7 DEF Turns

\* Each step of the model is one of a call, a key or a return.
LEMMA Steps ==
  ASSUME Next
  PROVE  Inside \/ (MainReturns \/ IrqReturns) \/ Key \/ Iretq
BY DEF Next, Printing, Inside

\* iretq touches nothing but the frame.
LEMMA IretqIs ==
  ASSUME Iretq
  PROVE  /\ UNCHANGED <<todo, irqs, keys, ctx, buf, xPos, yPos, start, drawn, mixed>>
         /\ \A c : Has(c)' = Has(c) /\ Text(c)' = Text(c) /\ Quiet(c)' = Quiet(c)
<1>1. UNCHANGED <<todo, irqs, keys, ctx, buf, xPos, yPos, start, drawn, mixed>>
  BY DEF Iretq, pos
<1>2. \A c : Has(c)' = Has(c) /\ Text(c)' = Text(c)
  BY <1>1 DEF Has, Text
<1>3. \A c : Quiet(c)' = Quiet(c)
  BY <1>2 DEF Quiet
<1> QED
  BY <1>1, <1>2, <1>3

\* Each step keeps Framed,
LEMMA FramedStep ==
  ASSUME IInv, Next
  PROVE  Framed'
<1>1. Framed
  BY DEF IInv
<1>2. CASE Inside
  <2>1. UNCHANGED <<irqs, frame>>
    BY <1>2, InsideFrame
  <2> QED
    BY <1>1, <2>1 DEF Framed
<1>3. CASE MainReturns \/ IrqReturns
  <2>1. frame' = frame /\ (irqs' # <<>> => irqs # <<>>)
    BY <1>3 DEF MainReturns, IrqReturns, Running
  <2> QED
    BY <1>1, <2>1 DEF Framed
<1>4. CASE Key
  <2>1. frame' \in {"main", "irq"}
    BY <1>4 DEF Key
  <2> QED
    BY <2>1 DEF Framed
<1>5. CASE Iretq
  <2>1. frame' = "none" /\ irqs' = <<>>
    BY <1>5 DEF Iretq
  <2> QED
    BY <2>1 DEF Framed
<1> QED
  BY <1>2, <1>3, <1>4, <1>5, Steps

\* Progress,
LEMMA ProgressStep ==
  ASSUME IInv, Next
  PROVE  Progress("main")' /\ Progress("irq")'
<1>1. Typed' /\ Progress("main") /\ Progress("irq")
  BY TypedStep DEF IInv
<1>2. \A c \in Contexts : ctx'[c] = Idle => Progress(c)'
  <2> SUFFICES ASSUME NEW c \in Contexts, ctx'[c] = Idle
               PROVE  Progress(c)'
    OBVIOUS
  <2>2. Len(buf') \in Nat
    BY <1>1 DEF Typed
  <2>3. Has(c)' => Len(Text(c)') \in Nat
    BY <1>1 DEF Typed, Has, Text, Contexts
  <2> QED
    BY <2>2, <2>3, IdleIs DEF Progress
<1>3. CASE Inside
  BY <1>3, ProgressInside
<1>4. CASE MainReturns \/ IrqReturns
  <2>1. ASSUME NEW c \in Contexts, c # Running
        PROVE  Progress(c)'
    BY <1>1, <1>4, <2>1, ReturnsAre DEF Progress, Contexts
  <2> QED
    BY <1>2, <1>4, <2>1, ReturnsAre DEF Contexts
<1>5. CASE Key
  <2>1. Progress("main")'
    BY <1>1, <1>5, KeyIs DEF Progress
  <2> QED
    BY <1>2, <1>5, <2>1, KeyIs DEF Contexts
<1>6. CASE Iretq
  BY <1>1, <1>6, IretqIs DEF Progress
<1> QED
  BY <1>3, <1>4, <1>5, <1>6, Steps

\* Turns,
LEMMA TurnsStep ==
  ASSUME IInv, Next
  PROVE  Turns'
<1>1. Typed /\ Turns /\ (Running = "irq" <=> irqs # <<>>)
  BY Turn DEF IInv
<1>2. irqs # <<>> => todo # <<>>
  <2>1. todo = <<>> => Len(todo) = 0
    OBVIOUS
  <2> QED
    BY <1>1, <2>1 DEF Turns
<1>3. CASE Inside
  <2>1. UNCHANGED <<todo, irqs>> /\ Has(Running)
        /\ \A c \in Contexts : c # Running => ctx'[c] = ctx[c]
    BY <1>3, InsideFrame
  <2>2. todo # <<>>
    BY <1>1, <1>2, <2>1 DEF Has, Running
  <2>3. irqs = <<>> => ctx'["irq"] = Idle
    BY <1>1, <2>1 DEF Turns, Contexts
  <2> QED
    BY <1>1, <2>1, <2>2, <2>3 DEF Turns
<1>4. CASE MainReturns \/ IrqReturns
  <2>1. CASE Running = "main"
    <3>1. irqs = <<>> /\ irqs' = irqs /\ todo # <<>> /\ todo' = Tail(todo)
          /\ ctx'["main"] = Idle /\ ctx'["irq"] = ctx["irq"]
      BY <1>4, <2>1, ReturnsAre DEF Contexts
    <3>2. todo' # <<>> => todo'[Len(todo')] = todo[Len(todo)]
      <4>1. todo \in Seq(Seq(STRING)) /\ todo # <<>>
        BY <1>1, <3>1 DEF Typed
      <4>2. /\ Len(todo) \in Nat \ {0} /\ Len(Tail(todo)) = Len(todo) - 1
            /\ \A k \in 1 .. Len(todo) - 1 : Tail(todo)[k] = todo[k + 1]
            /\ Tail(todo) \in Seq(Seq(STRING))
        BY <4>1
      <4>3. todo' # <<>> => Len(todo) - 1 # 0
        <5>1. \A s \in Seq(Seq(STRING)) : Len(s) = 0 => s = <<>>
          OBVIOUS
        <5> QED
          BY <3>1, <4>2, <5>1
      <4> QED
        BY <3>1, <4>2, <4>3
    <3> QED
      BY <1>1, <3>1, <3>2 DEF Turns
  <2>2. CASE Running = "irq"
    <3>1. irqs # <<>> /\ irqs' = Tail(irqs) /\ todo' = todo
          /\ ctx'["irq"] = Idle /\ ctx'["main"] = ctx["main"]
      BY <1>4, <2>2, ReturnsAre DEF Contexts
    <3>2. \A k \in DOMAIN irqs' : ~ HasBackspace(irqs'[k])
      <4>1. irqs \in Seq(Seq(STRING)) /\ irqs # <<>>
        BY <1>1, <3>1 DEF Typed
      <4>2. \A k \in DOMAIN Tail(irqs) : k + 1 \in DOMAIN irqs /\ Tail(irqs)[k] = irqs[k + 1]
        BY <4>1
      <4> QED
        BY <1>1, <3>1, <4>2 DEF Turns
    <3> QED
      BY <1>1, <1>2, <3>1, <3>2 DEF Turns
  <2> QED
    BY <1>4, <2>1, <2>2, ReturnsAre DEF Contexts
<1>5. CASE Key
  BY <1>1, <1>5, KeyIs, ConsoleAssumption DEF Turns
<1>6. CASE Iretq
  BY <1>1, <1>6, IretqIs DEF Turns
<1> QED
  BY <1>3, <1>4, <1>5, <1>6, Steps

\* Every step of a call but vsprintf's keeps i.
LEMMA KeepsLength ==
  ASSUME IInv, Inside, ~ Format
  PROVE  ctx'[Running].i = c0.i /\ buf' = buf
<1> DEFINE d == c0
           e == ctx'[Running]
<1>1. buf' = buf
  BY InsideFrame
<1> SUFFICES e.i = d.i
  BY <1>1
<1> HIDE DEF d, e
<1>2. CASE Branch
  BY <1>2, BranchDoes DEF Becomes, d, e
<1>3. CASE MoreSpaces \/ ReadBlank
  BY <1>3, SpacesDo DEF Becomes, d, e
<1>4. CASE FormatEnd \/ ReadChar \/ ReadRow \/ LoadX \/ LoadY
  BY <1>4, ReadsDo DEF Becomes, d, e
<1>5. CASE Draw
  BY <1>5, DrawDoes DEF Becomes, d, e
<1>6. CASE Backspace
  BY <1>6, BackspaceDoes DEF Becomes, d, e
<1>7. CASE StoreX \/ StoreY \/ ZeroX
  BY <1>7, StoresDo DEF Becomes, d, e
<1>8. CASE TestX \/ TestY \/ ZeroY
  BY <1>8, TestsDo DEF Becomes, d, e
<1> QED
  BY <1>2, <1>3, <1>4, <1>5, <1>6, <1>7, <1>8 DEF Inside

\* One cell off the screen is still mapped.
LEMMA DrawReaches ==
  ASSUME NEW x \in 0 .. Cols, NEW y \in 0 .. Rows
  PROVE  Reaches(x * xCharSize, y * yCharSize) < MappedPixels
<1>1. /\ {xRes, xCharSize, yCharSize} \subseteq Nat \ {0} /\ Cols \in Nat /\ Rows \in Nat
      /\ Cols * xCharSize <= xRes /\ MappedPixels \in Nat /\ Cols >= 1
  BY Sizes
<1>2. xRes * (Rows + 2) * yCharSize <= MappedPixels
  BY ConsoleAssumption
<1>3. \A a, b, n \in Nat : a <= b => a * n <= b * n /\ n * a <= n * b
  OBVIOUS
<1>4. x * xCharSize <= xRes /\ x * xCharSize \in Nat
  BY <1>1, <1>3
<1>5. xCharSize <= xRes
  BY <1>1, <1>3
<1> DEFINE a == x * xCharSize
           b == y * yCharSize
           top == Rows * yCharSize
           line == xRes * yCharSize
<1>6. b <= top /\ b \in Nat /\ top \in Nat
  BY <1>1, <1>3
<1>7. Reaches(a, b) = xRes * (b + yCharSize - 1) + a + xCharSize - 1
  BY DEF Reaches
<1>8. xRes * (b + yCharSize - 1) <= xRes * (top + yCharSize - 1)
  BY <1>1, <1>3, <1>6
<1>9. xRes * (top + yCharSize - 1) = xRes * top + xRes * yCharSize - xRes
  BY <1>1, <1>6
<1>10. xRes * (Rows + 2) * yCharSize = xRes * top + 2 * (xRes * yCharSize)
  BY <1>1
<1>11. xRes <= xRes * yCharSize
  BY <1>1, <1>3
<1>12. xRes * top \in Nat /\ xRes * yCharSize \in Nat /\ xRes * (b + yCharSize - 1) \in Nat
  BY <1>1, <1>6
<1> DEFINE p == xRes * top
           q == xRes * yCharSize
           r == xRes * (b + yCharSize - 1)
<1>13. r <= p + q - xRes /\ p + 2 * q <= MappedPixels /\ xRes <= q /\ a <= xRes
       /\ Reaches(a, b) = r + a + xCharSize - 1
  BY <1>2, <1>4, <1>7, <1>8, <1>9, <1>10, <1>11
<1>14. p \in Nat /\ q \in Nat /\ r \in Nat /\ a \in Nat
  BY <1>4, <1>12
<1>15. Reaches(a, b) < MappedPixels
  <2> HIDE DEF a, b, p, q, r
  <2> QED
    BY <1>1, <1>5, <1>13, <1>14
<1> QED
  BY <1>15

\* What a call draws is mapped.
LEMMA DrawIsMapped ==
  ASSUME IInv, c0.pc = "draw", Has(Running)
  PROVE  Reaches(xPos * xCharSize, c0.row * yCharSize) < MappedPixels
<1>1. Typed /\ Running \in Contexts /\ c0 = ctx[Running] /\ c0 \in CallType
      /\ (Running = "irq" <=> irqs # <<>>)
  BY Turn DEF IInv
<1>2. xPos <= Cols /\ c0.row <= Rows
  <2>1. "draw" \in Early
    BY DEF Early
  <2>2. xPos \in Nat /\ c0.row \in Nat /\ Cols \in Nat /\ Rows \in Nat
    BY <1>1, Sizes DEF Typed, CallType
  <2>3. CASE Running = "main"
    BY <1>1, <2>1, <2>2, <2>3 DEF IInv, Cursor, Place, Loads
  <2>4. CASE Running = "irq"
    BY <1>1, <2>1, <2>2, <2>4 DEF IInv, Cursor, Place, Loads
  <2> QED
    BY <1>1, <2>3, <2>4 DEF Contexts
<1>3. xPos \in 0 .. Cols /\ c0.row \in 0 .. Rows
  BY <1>1, <1>2, Sizes DEF Typed, CallType
<1> QED
  BY <1>3, DrawReaches

\* Clean,
LEMMA CleanStep ==
  ASSUME IInv, Next
  PROVE  Clean("main")' /\ Clean("irq")'
<1>1. Typed /\ Turns /\ \A c \in Contexts : Clean(c) /\ Progress(c)
  BY DEF IInv, Contexts
<1>2. \A c \in Contexts : ctx'[c] = Idle => Clean(c)'
  BY IdleIs DEF Clean
<1>3. Running \in Contexts /\ (Running = "irq" <=> irqs # <<>>)
  BY <1>1, Turn
<1>4. CASE Inside
  <2> DEFINE d == c0
             e == ctx'[Running]
             x == Text(Running)[d.i + 1]
  <2>1. /\ d = ctx[Running] /\ Has(Running) /\ d.i \in Nat /\ d.count \in Nat
        /\ Text(Running) \in Seq(STRING)
    BY <1>1, <1>4, InsideFrame, HasText DEF CallType
  <2>2. Quiet("irq")
    <3>1. irqs # <<>> => Head(irqs) = irqs[1] /\ 1 \in DOMAIN irqs
      BY <1>1 DEF Typed
    <3> QED
      BY <1>1, <3>1 DEF Quiet, Has, Text, Turns
  <2>3. Format => /\ d.pc = "format" /\ e.pc = "format" /\ e.i = d.i + 1
                  /\ buf' = Written(buf, d.i + 1, x) /\ d.i + 1 \in DOMAIN Text(Running)
    <3> SUFFICES ASSUME Format
                 PROVE  /\ d.pc = "format" /\ e.pc = "format" /\ e.i = d.i + 1
                        /\ buf' = Written(buf, d.i + 1, x)
                        /\ d.i + 1 \in DOMAIN Text(Running)
      OBVIOUS
    <3>1. d.pc = "format" /\ e.pc = "format" /\ e.i = d.i + 1 /\ d.i # Len(Text(Running))
          /\ buf' = Written(buf, d.i + 1, x)
      BY FormatDoes DEF Becomes
    <3>2. d.i <= Len(Text(Running))
      BY <1>1, <1>3, <2>1, <3>1 DEF Progress
    <3> QED
      BY <2>1, <3>1, <3>2
  <2>4. Format => /\ \A j \in 1 .. Len(buf) : j # d.i + 1 => buf'[j] = buf[j]
                  /\ buf'[d.i + 1] = x /\ (Quiet(Running) => x # "BS")
    <3> SUFFICES ASSUME Format
                 PROVE  /\ \A j \in 1 .. Len(buf) : j # d.i + 1 => buf'[j] = buf[j]
                        /\ buf'[d.i + 1] = x /\ (Quiet(Running) => x # "BS")
      OBVIOUS
    <3>1. x \in STRING /\ d.i + 1 \in Nat \ {0} /\ buf \in Seq(STRING)
      BY <1>1, <2>1, <2>3 DEF Typed
    <3>2. d.i + 1 <= Len(buf) + 1
      BY <1>1, <1>3, <2>1, <3>1 DEF Progress
    <3>3. Quiet(Running) => x # "BS"
      BY <2>1, <2>3 DEF Quiet, HasBackspace
    <3> DEFINE k == d.i + 1
    <3> HIDE DEF d, x, k
    <3>4. k \in Nat \ {0} /\ k <= Len(buf) + 1
      BY <3>1, <3>2 DEF k
    <3>5. /\ \A j \in 1 .. Len(buf) : j # k => Written(buf, k, x)[j] = buf[j]
          /\ Written(buf, k, x)[k] = x
      <4>1. Stores(buf, k, x)
        BY <3>1, <3>4, WrittenIs
      <4> QED
        BY <4>1 DEF Stores
    <3> QED
      BY <2>3, <3>3, <3>5 DEF k
  <2>5. ASSUME NEW c \in Contexts, Quiet(c), NEW j \in 1 .. ctx'[c].i
        PROVE  buf'[j] # "BS"
    <3>1. CASE ~ Format
      <4>1. ctx'[c].i = ctx[c].i /\ buf' = buf
        BY <1>4, <3>1, InsideFrame, KeepsLength
      <4> QED
        BY <1>1, <2>5, <4>1 DEF Clean
    <3>2. CASE Format /\ c = Running
      <4>1. j = d.i + 1 \/ j \in 1 .. d.i
        BY <2>1, <2>3, <2>5, <3>2
      <4>2. j \in 1 .. d.i => buf[j] # "BS" /\ j \in 1 .. Len(buf) /\ j # d.i + 1
        <5>1. d.i <= Len(buf) /\ Len(buf) \in Nat
          BY <1>1, <2>1, <3>2 DEF Progress, Typed
        <5> QED
          BY <1>1, <2>1, <2>5, <3>2, <5>1 DEF Clean
      <4> QED
        BY <2>4, <2>5, <3>2, <4>1, <4>2
    <3>3. CASE Format /\ c # Running
      <4>1. ctx'[c] = ctx[c] /\ ctx[c].i \in Nat /\ ctx[c].i <= Len(buf) /\ Len(buf) \in Nat
        BY <1>1, <1>4, <3>3, InsideFrame DEF Progress, Typed, CallType
      <4>2. buf[j] # "BS" /\ j \in 1 .. Len(buf)
        BY <1>1, <2>5, <4>1 DEF Clean
      <4>3. Running = "main" => ctx[c].i = 0
        BY <1>1, <1>3, <3>3, IdleIs DEF Turns, Contexts
      <4>4. Quiet(Running)
        BY <1>3, <2>2, <2>5, <4>1, <4>3 DEF Contexts
      <4> QED
        BY <2>4, <3>3, <4>2, <4>4
    <3> QED
      BY <3>1, <3>2, <3>3
  <2>6. e.pc \in {"backspace", "fault"} => ~ Quiet(Running)
    <3>1. CASE Format
      BY <2>3, <3>1
    <3>2. CASE Branch
      <4>1. c0.count < c0.i /\ c0.i <= Len(buf)
        BY <1>1, <1>3, <2>1, <3>2, BranchDoes DEF Progress
      <4>2. c0.count + 1 \in 1 .. c0.i
        BY <2>1, <4>1
      <4>3. Quiet(Running) => Next1 # "BS"
        BY <1>1, <1>3, <2>1, <4>2 DEF Clean, Next1
      <4> QED
        BY <3>2, <4>3, BranchDoes DEF Becomes
    <3>3. CASE MoreSpaces \/ ReadBlank
      BY <3>3, SpacesDo DEF Becomes
    <3>4. CASE FormatEnd \/ ReadChar \/ ReadRow \/ LoadX \/ LoadY
      BY <3>4, ReadsDo DEF Becomes
    <3>5. CASE Draw
      BY <2>1, <3>5, DrawDoes, DrawIsMapped DEF Becomes
    <3>6. CASE Backspace
      BY <1>1, <1>3, <2>1, <3>6, BackspaceDoes DEF Clean
    <3>7. CASE StoreX \/ StoreY \/ ZeroX
      BY <3>7, StoresDo DEF Becomes
    <3>8. CASE TestX \/ TestY \/ ZeroY
      BY <3>8, TestsDo DEF Becomes
    <3> QED
      BY <1>4, <3>1, <3>2, <3>3, <3>4, <3>5, <3>6, <3>7, <3>8 DEF Inside
  <2>7. ASSUME NEW c \in Contexts, ctx'[c].pc \in {"backspace", "fault"}
        PROVE  Has(c) /\ ~ Quiet(c)
    <3>1. CASE c = Running
      BY <2>1, <2>6, <2>7, <3>1
    <3>2. CASE c # Running
      BY <1>1, <1>4, <2>7, <3>2, InsideFrame DEF Clean
    <3> QED
      BY <3>1, <3>2
  <2>8. \A c \in Contexts : Has(c)' = Has(c) /\ Quiet(c)' = Quiet(c)
    BY <1>4, InsideFrame
  <2> QED
    BY <2>5, <2>7, <2>8 DEF Clean, Contexts
<1>5. CASE MainReturns \/ IrqReturns
  <2>1. ASSUME NEW c \in Contexts, c # Running
        PROVE  Clean(c)'
    BY <1>1, <1>5, <2>1, ReturnsAre DEF Clean
  <2> QED
    BY <1>2, <1>5, <2>1, ReturnsAre DEF Contexts
<1>6. CASE Key
  <2>1. Clean("main")'
    BY <1>1, <1>6, KeyIs DEF Clean, Contexts
  <2> QED
    BY <1>2, <1>6, <2>1, KeyIs DEF Contexts
<1>7. CASE Iretq
  BY <1>1, <1>7, IretqIs DEF Clean, Contexts
<1> QED
  BY <1>4, <1>5, <1>6, <1>7, Steps

\* What a step of a call o off the screen makes of the cursor and of what is
\* loaded; and it is on the screen whenever the line and the row were looked at.
LEMMA CursorInside ==
  ASSUME IInv, Inside, NEW o \in {0, 1},
         Place(xPos, yPos, c0.pc, o, Quiet(Running)), Loads(c0, o, Quiet(Running))
  PROVE  /\ Place(xPos', yPos', ctx'[Running].pc, o, Quiet(Running))
         /\ Loads(ctx'[Running], o, Quiet(Running))
         /\ ctx'[Running].pc \in Early /\ Quiet(Running) =>
              \/ UNCHANGED <<xPos, yPos>> /\ c0.pc \in Early
              \/ xPos' < Cols /\ yPos' < Rows
<1> DEFINE d == c0
           e == ctx'[Running]
           q == Quiet(Running)
           Good ==
             /\ Place(xPos', yPos', e.pc, o, q)
             /\ Loads(e, o, q)
             /\ e.pc \in Early /\ q =>
                  \/ UNCHANGED <<xPos, yPos>> /\ d.pc \in Early
                  \/ xPos' < Cols /\ yPos' < Rows
<1>1. Typed /\ Running \in Contexts /\ d = ctx[Running] /\ d \in CallType
  BY Turn DEF IInv
<1>2. xPos \in Nat /\ yPos \in Nat /\ d.reg \in Nat /\ d.row \in Nat
  BY <1>1 DEF Typed, CallType
<1>3. Cols \in Nat /\ Cols > 1 /\ Rows \in Nat /\ Rows > 1
  BY Sizes
<1>4. Place(xPos, yPos, d.pc, o, q) /\ Loads(d, o, q)
  OBVIOUS
<1>5. d.pc = "backspace" => ~ q
  BY <1>1 DEF IInv, Clean, Contexts
<1> SUFFICES Good
  OBVIOUS
<1> HIDE DEF d, e, q
<1>6. CASE Format
  <2>1. d.pc = "format" /\ e.pc = "format" /\ UNCHANGED <<xPos, yPos>>
    BY <1>6, FormatDoes DEF Becomes, pos, d, e
  <2> QED
    BY <1>4, <2>1 DEF Place, Loads, Early
<1>7. CASE Branch
  <2>1. d.pc = "loop" /\ e.pc \in {"newline", "backspace", "blank", "char"}
        /\ UNCHANGED <<xPos, yPos>>
    BY <1>7, BranchDoes DEF Becomes, pos, d, e
  <2> QED
    BY <1>4, <2>1 DEF Place, Loads, Early
<1>8. CASE MoreSpaces \/ ReadBlank
  <2>1. d.pc \in {"loop", "blank"} /\ e.pc \in {"blank", "row"} /\ UNCHANGED <<xPos, yPos>>
    BY <1>8, SpacesDo DEF Becomes, pos, d, e
  <2> QED
    BY <1>4, <2>1 DEF Place, Loads, Early
<1>9. CASE FormatEnd \/ ReadChar \/ ReadRow \/ LoadX \/ LoadY
  <2>1. /\ \/ d.pc = "format" /\ e.pc = "loop"
           \/ d.pc = "char" /\ e.pc = "row"
           \/ d.pc = "row" /\ e.pc = "draw" /\ e.row = yPos
           \/ d.pc = "load_x" /\ e.pc = "store_x" /\ e.reg = xPos
           \/ d.pc = "newline" /\ e.pc = "store_nl" /\ e.reg = yPos
           \/ d.pc = "full" /\ e.pc = "store_full" /\ e.reg = yPos
        /\ UNCHANGED <<xPos, yPos>>
    BY <1>9, ReadsDo DEF Becomes, pos, d, e
  <2> QED
    BY <1>2, <1>3, <1>4, <2>1 DEF Place, Loads, Early
<1>10. CASE Draw
  <2>1. d.pc = "draw" /\ e.pc \in {"load_x", "fault"} /\ UNCHANGED <<xPos, yPos>>
    BY <1>10, DrawDoes DEF Becomes, pos, d, e
  <2> QED
    BY <1>4, <2>1 DEF Place, Loads, Early
<1>11. CASE Backspace
  <2>1. d.pc = "backspace" /\ e.pc \in {"test_x", "fault"}
    BY <1>11, BackspaceDoes DEF Becomes, d, e
  <2> QED
    BY <1>5, <2>1 DEF Place, Loads, Early
<1>12. CASE StoreX \/ StoreY \/ ZeroX
  <2>1. \/ d.pc = "store_x" /\ e.pc = "test_x" /\ xPos' = d.reg + 1 /\ yPos' = yPos
        \/ d.pc = "store_nl" /\ e.pc = "zero_nl" /\ yPos' = d.reg + 1 /\ xPos' = xPos
        \/ d.pc = "store_full" /\ e.pc = "zero_full" /\ yPos' = d.reg + 1 /\ xPos' = xPos
        \/ d.pc = "zero_nl" /\ e.pc = "test_x" /\ xPos' = 0 /\ yPos' = yPos
        \/ d.pc = "zero_full" /\ e.pc = "test_y" /\ xPos' = 0 /\ yPos' = yPos
    BY <1>12, StoresDo DEF Becomes, d, e
  <2> QED
    BY <1>2, <1>3, <1>4, <2>1 DEF Place, Loads, Early
<1>13. CASE TestX \/ TestY \/ ZeroY
  <2>1. \/ d.pc = "test_x" /\ e.pc = "full" /\ xPos >= Cols /\ UNCHANGED <<xPos, yPos>>
        \/ d.pc = "test_x" /\ e.pc = "test_y" /\ xPos < Cols /\ UNCHANGED <<xPos, yPos>>
        \/ d.pc = "test_y" /\ e.pc = "zero_y" /\ UNCHANGED <<xPos, yPos>>
        \/ d.pc = "test_y" /\ e.pc = "loop" /\ yPos < Rows /\ UNCHANGED <<xPos, yPos>>
        \/ d.pc = "zero_y" /\ e.pc = "loop" /\ xPos' = xPos /\ yPos' = 0
    BY <1>13, TestsDo DEF Becomes, pos, d, e
  <2> QED
    BY <1>2, <1>3, <1>4, <2>1 DEF Place, Loads, Early
<1> QED
  BY <1>6, <1>7, <1>8, <1>9, <1>10, <1>11, <1>12, <1>13 DEF Inside

\* A cursor on the screen is right for every pc; where an interrupt finds it,
\* it may be one cell off.
LEMMA AnyPlace ==
  ASSUME NEW x \in Nat, NEW y \in Nat, NEW at
  PROVE  /\ x < Cols /\ y < Rows => Place(x, y, at, 0, TRUE)
         /\ at \in Early \cup Late /\ Place(x, y, at, 0, TRUE) => Place(x, y, "format", 1, TRUE)
<1>1. Cols \in Nat /\ Rows \in Nat
  BY Sizes
<1> QED
  BY <1>1 DEF Place, Early, Late

\* and Cursor.
LEMMA CursorStep ==
  ASSUME IInv, Next
  PROVE  Cursor'
<1>1. Typed /\ Turns /\ Cursor /\ Typed'
  BY TypedStep DEF IInv
<1>2. Running \in Contexts /\ (Running = "irq" <=> irqs # <<>>) /\ c0 = ctx[Running]
  BY <1>1, Turn
<1>3. Quiet("irq")
  <2>1. irqs # <<>> => Head(irqs) = irqs[1] /\ 1 \in DOMAIN irqs
    BY <1>1 DEF Typed
  <2> QED
    BY <1>1, <2>1 DEF Quiet, Has, Text, Turns
<1>4. CASE Inside
  <2> DEFINE e == ctx'[Running]
             o == IF Running = "irq" THEN 1 ELSE 0
  <2>1. irqs' = irqs /\ Quiet("main")' = Quiet("main")
        /\ \A c \in Contexts : c # Running => ctx'[c] = ctx[c]
    BY <1>4, InsideFrame
  <2>2. /\ Place(xPos', yPos', e.pc, o, Quiet(Running)) /\ Loads(e, o, Quiet(Running))
        /\ e.pc \in Early /\ Quiet(Running) =>
             \/ UNCHANGED <<xPos, yPos>> /\ c0.pc \in Early
             \/ xPos' < Cols /\ yPos' < Rows
    <3>1. o \in {0, 1} /\ Quiet(Running) \in BOOLEAN
      BY DEF Quiet
    <3>2. CASE Running = "irq"
      <4>1. Quiet(Running) = TRUE
        BY <1>3, <3>1, <3>2
      <4>2. Place(xPos, yPos, c0.pc, o, Quiet(Running)) /\ Loads(c0, o, Quiet(Running))
        BY <1>1, <1>2, <3>2, <4>1 DEF Cursor
      <4> QED
        BY <1>4, <3>1, <4>2, CursorInside
    <3>3. CASE Running = "main"
      <4>1. Place(xPos, yPos, c0.pc, o, Quiet(Running)) /\ Loads(c0, o, Quiet(Running))
        BY <1>1, <1>2, <3>3 DEF Cursor
      <4> QED
        BY <1>4, <3>1, <4>1, CursorInside
    <3> QED
      BY <1>2, <3>2, <3>3 DEF Contexts
  <2>3. CASE Running = "irq"
    <3>1. Quiet(Running) = TRUE
      BY <1>3, <2>3 DEF Quiet
    <3>2. ctx'["main"] = ctx["main"]
      BY <2>1, <2>3 DEF Contexts
    <3>3. e.pc \in Early => Place(xPos', yPos', ctx'["main"].pc, 0, TRUE)
      <4>1. ASSUME e.pc \in Early, UNCHANGED <<xPos, yPos>>, c0.pc \in Early
            PROVE  Place(xPos', yPos', ctx'["main"].pc, 0, TRUE)
        BY <1>1, <1>2, <2>3, <3>2, <4>1 DEF Cursor
      <4>2. ASSUME xPos' < Cols, yPos' < Rows
            PROVE  Place(xPos', yPos', ctx'["main"].pc, 0, TRUE)
        <5>1. xPos' \in Nat /\ yPos' \in Nat
          BY <1>1 DEF Typed
        <5> QED
          BY <4>2, <5>1, AnyPlace
      <4> QED
        BY <2>2, <3>1, <4>1, <4>2
    <3>4. Place(xPos', yPos', e.pc, 1, TRUE) /\ Loads(e, 1, TRUE)
      BY <2>2, <2>3, <3>1
    <3>5. Loads(ctx'["main"], 0, Quiet("main"))
      BY <1>1, <3>2 DEF Cursor
    <3> QED
      BY <1>2, <2>1, <2>3, <3>3, <3>4, <3>5 DEF Cursor
  <2>4. CASE Running = "main"
    <3>1. ctx'["irq"] = ctx["irq"] /\ irqs = <<>>
      BY <1>2, <2>1, <2>4 DEF Contexts
    <3>2. Place(xPos', yPos', ctx'["main"].pc, 0, Quiet("main"))
          /\ Loads(ctx'["main"], 0, Quiet("main"))
      BY <2>2, <2>4
    <3> QED
      BY <1>1, <2>1, <3>1, <3>2 DEF Cursor
  <2> QED
    BY <1>2, <2>3, <2>4 DEF Contexts
<1>5. CASE MainReturns \/ IrqReturns
  <2>1. c0.pc = "loop" /\ ctx'[Running] = Idle /\ UNCHANGED <<xPos, yPos>>
    BY <1>5, ReturnsAre DEF pos
  <2>2. Idle.pc = "format" /\ {"format", "loop"} \subseteq Early
    BY IdleIs DEF Early
  <2>3. CASE Running = "main"
    <3>1. irqs = <<>> /\ irqs' = irqs /\ ctx'["irq"] = ctx["irq"] /\ ctx'["main"] = Idle
      BY <1>5, <2>3, ReturnsAre DEF Contexts
    <3>2. xPos' < Cols + 0 /\ yPos' < Rows + 0
      BY <1>1, <1>2, <2>1, <2>2, <2>3, <3>1 DEF Cursor, Place
    <3> QED
      BY <1>1, <2>2, <3>1, <3>2 DEF Cursor, Place, Loads
  <2>4. CASE Running = "irq"
    <3>1. irqs # <<>> /\ ctx'["irq"] = Idle /\ ctx'["main"] = ctx["main"]
          /\ Quiet("main")' = Quiet("main")
      BY <1>5, <2>4, ReturnsAre DEF Contexts
    <3>2. xPos' < Cols + 1 /\ yPos' < Rows + 1
      BY <1>1, <1>2, <2>1, <2>2, <2>4, <3>1 DEF Cursor, Place
    <3>3. Place(xPos', yPos', "format", 1, TRUE)
      BY <3>2 DEF Place
    <3>4. Place(xPos', yPos', ctx'["main"].pc, 0, TRUE)
      BY <1>1, <1>2, <2>1, <2>2, <2>4, <3>1 DEF Cursor
    <3>5. Place(xPos', yPos', ctx'["main"].pc, 0, Quiet("main"))
      BY <3>4 DEF Place
    <3>6. Loads(ctx'["main"], 0, Quiet("main")) /\ Loads(ctx'["irq"], 1, TRUE)
      BY <1>1, <2>2, <3>1 DEF Cursor, Loads
    <3> QED
      BY <2>2, <3>1, <3>3, <3>4, <3>5, <3>6 DEF Cursor
  <2> QED
    BY <1>2, <2>3, <2>4 DEF Contexts
<1>6. CASE Key
  <2>1. irqs = <<>> /\ irqs' # <<>> /\ UNCHANGED <<ctx, xPos, yPos>> /\ ctx["irq"] = Idle
        /\ Quiet("main") /\ Quiet("main")' = Quiet("main") /\ ctx["main"].pc # "fault"
    BY <1>6, KeyIs
  <2>2. Quiet("main") = TRUE
    BY <2>1 DEF Quiet
  <2>3. Place(xPos', yPos', ctx'["main"].pc, 0, TRUE)
    BY <1>1, <2>1, <2>2 DEF Cursor
  <2>4. Place(xPos', yPos', ctx'["irq"].pc, 1, TRUE)
    <3>1. xPos' \in Nat /\ yPos' \in Nat /\ ctx'["main"].pc \in Early \cup Late
      BY <1>1, <2>1 DEF Typed, CallType, Pcs, Contexts
    <3>2. ctx'["irq"].pc = "format"
      BY <2>1, IdleIs
    <3> QED
      BY <2>3, <3>1, <3>2, AnyPlace
  <2> QED
    BY <1>1, <2>1, <2>3, <2>4 DEF Cursor
<1>7. CASE Iretq
  BY <1>1, <1>7, IretqIs DEF Cursor
<1> QED
  BY <1>4, <1>5, <1>6, <1>7, Steps

\* The invariant holds when the first text is printed.
LEMMA InitHolds ==
  ASSUME Init
  PROVE  IInv
<1>1. /\ todo \in Seq(Seq(STRING)) /\ (todo # <<>> => ~ HasBackspace(todo[Len(todo)]))
  BY ConsoleAssumption DEF Init
<1>2. ctx = [c \in Contexts |-> Idle] /\ irqs = <<>> /\ buf = <<>> /\ xPos = 0 /\ yPos = 0
      /\ keys = 0 /\ frame = "none"
  BY DEF Init
<1>3. ctx["main"] = Idle /\ ctx["irq"] = Idle
  BY <1>2 DEF Contexts
<1>4. Typed
  BY <1>1, <1>2, IdleIs, Sizes DEF Typed
<1>5. Turns
  BY <1>1, <1>2, <1>3 DEF Turns
<1>6. Progress("main") /\ Progress("irq")
  <2>1. Len(buf) \in Nat
    BY <1>4 DEF Typed
  <2>2. \A c \in Contexts : Has(c) => Len(Text(c)) \in Nat
    BY <1>4 DEF Typed, Has, Text, Contexts
  <2> QED
    BY <1>3, <2>1, <2>2, IdleIs DEF Progress, Contexts
<1>7. Clean("main") /\ Clean("irq")
  BY <1>3, IdleIs DEF Clean
<1>8. Cursor
  BY <1>2, <1>3, IdleIs, Sizes DEF Cursor, Place, Loads
<1>9. Framed
  BY <1>2 DEF Framed
<1> QED
  BY <1>4, <1>5, <1>6, <1>7, <1>8, <1>9 DEF IInv

\* The invariant holds always.
THEOREM Invariance ==
  Spec => []IInv
<1>1. Init => IInv
  BY InitHolds
<1>2. IInv /\ [Next]_vars => IInv'
  <2> SUFFICES ASSUME IInv, [Next]_vars
               PROVE  IInv'
    OBVIOUS
  <2>1. CASE Next
    BY <2>1, TypedStep, TurnsStep, FramedStep, ProgressStep, CleanStep, CursorStep DEF IInv
  <2>2. CASE UNCHANGED vars
    BY <2>2 DEF vars, pos, IInv, Typed, Turns, Framed, Progress, Clean, Cursor, Place, Loads,
                Quiet, Has, Text
  <2> QED
    BY <2>1, <2>2
<1> QED
  BY <1>1, <1>2, PTL DEF Spec

\* Whatever the texts, the sizes and the keys: the counters of a call stay in
\* the buffer, only a text with a "BS" makes Start_Kernel draw outside what the
\* page tables map, do_IRQ never does, and the cursor is off the screen by no
\* more than one cell, two while an interrupt prints.
THEOREM TypeCorrect ==
  Spec => []TypeOK
<1>1. IInv => TypeOK
  <2> SUFFICES ASSUME IInv
               PROVE  TypeOK
    OBVIOUS
  <2>1. Typed /\ Turns /\ Cursor /\ \A c \in Contexts : Progress(c) /\ Clean(c)
    BY DEF IInv, Contexts
  <2>2. Cols \in Nat /\ Rows \in Nat /\ xPos \in Nat /\ yPos \in Nat /\ Len(buf) \in Nat
    BY <2>1, Sizes DEF Typed
  <2>3. Quiet("irq")
    <3>1. irqs # <<>> => Head(irqs) = irqs[1] /\ 1 \in DOMAIN irqs
      BY <2>1 DEF Typed
    <3> QED
      BY <2>1, <3>1 DEF Quiet, Has, Text, Turns
  <2>4. ASSUME NEW c \in Contexts
        PROVE  /\ ctx[c].count \in 0 .. Len(buf) /\ ctx[c].i \in 0 .. Len(buf)
               /\ ctx[c].spaces \in 0 .. Tab
               /\ ctx[c].pc = "fault" => c = "main" /\ HasBackspace(Text(c))
               /\ ctx[c].pc \in Pcs
    <3>1. ctx[c] \in CallType
      BY <2>1 DEF Typed
    <3>2. ctx[c].i \in Nat /\ ctx[c].count \in Nat /\ ctx[c].spaces \in 0 .. Tab
          /\ ctx[c].pc \in Pcs
      BY <3>1 DEF CallType
    <3>3. ctx[c].i <= Len(buf) /\ ctx[c].count <= ctx[c].i
      BY <2>1, <3>2 DEF Progress
    <3>4. ctx[c].pc = "fault" => c = "main" /\ HasBackspace(Text(c))
      BY <2>1, <2>3 DEF Clean, Quiet, Contexts
    <3> QED
      BY <2>2, <3>2, <3>3, <3>4
  <2>5. irqs # <<>> => xPos \in 0 .. Cols + 1 /\ yPos \in 0 .. Rows + 1
    <3>1. ctx["irq"].pc \in Early \cup Late
      BY <2>4 DEF Pcs, Contexts
    <3> SUFFICES ASSUME irqs # <<>>
                 PROVE  xPos <= Cols + 1 /\ yPos <= Rows + 1
      BY <2>2
    <3>2. Place(xPos, yPos, ctx["irq"].pc, 1, TRUE)
      BY <2>1 DEF Cursor
    <3> QED
      BY <2>2, <3>1, <3>2, Sizes DEF Place, Late
  <2>6. irqs = <<>> /\ todo # <<>> /\ ~ HasBackspace(Head(todo)) =>
          xPos \in 0 .. Cols /\ yPos \in 0 .. Rows
    <3> SUFFICES ASSUME irqs = <<>>, todo # <<>>, ~ HasBackspace(Head(todo))
                 PROVE  xPos <= Cols /\ yPos <= Rows
      BY <2>2
    <3>1. Quiet("main")
      BY DEF Quiet, Text
    <3>2. Place(xPos, yPos, ctx["main"].pc, 0, Quiet("main"))
      BY <2>1 DEF Cursor
    <3>3. ctx["main"].pc \in Early \cup Late
      BY <2>1, <2>4, <3>1 DEF Clean, Pcs, Contexts
    <3> QED
      BY <2>2, <3>1, <3>2, <3>3, Sizes DEF Place, Late
  <2>7. /\ keys \in 0 .. MaxKeys
        /\ frame \in {"none", "main", "irq"} /\ (irqs # <<>> => frame # "none")
    BY <2>1 DEF IInv, Typed, Framed
  <2> QED
    BY <2>4, <2>5, <2>6, <2>7 DEF TypeOK
<1> QED
  BY <1>1, Invariance, PTL

\* Whichever loads and stores of ++Pos.xPos, ++Pos.yPos and the two tests the
\* keys come between, and however many come: when the call in Start_Kernel
\* returns the cursor is on the screen.
THEOREM CursorStaysOnScreen ==
  Spec => []CursorOnScreen
<1>1. IInv => CursorOnScreen
  <2> SUFFICES ASSUME IInv, irqs = <<>>, ctx["main"] = Idle
               PROVE  xPos \in 0 .. Cols - 1 /\ yPos \in 0 .. Rows - 1
    BY DEF CursorOnScreen
  <2>1. Cols \in Nat /\ Rows \in Nat /\ xPos \in Nat /\ yPos \in Nat
    BY Sizes DEF IInv, Typed
  <2>2. Place(xPos, yPos, "format", 0, Quiet("main"))
    BY IdleIs DEF IInv, Cursor
  <2> QED
    BY <2>1, <2>2 DEF Place, Early
<1> QED
  BY <1>1, Invariance, PTL

-----------------------------------------------------------------------------
(* Where a text belongs *)

\* The cursor, and the characters on the screen.
Cells == [x : Nat, y : Nat, char : Chars]
Pictures == [pos : Nat \X Nat, cells : Seq(Cells)]

\* A character is drawn in its cell, and the cursor stays on the screen.
LEMMA PutTyped ==
  ASSUME NEW s \in Pictures, NEW char \in Chars
  PROVE  Put(s, char) \in Pictures
<1> DEFINE x == s.pos[1]
           y == s.pos[2]
<1>1. x \in Nat /\ y \in Nat /\ s.pos = <<x, y>> /\ s.cells \in Seq(Cells)
  BY DEF Pictures
<1>2. Cols \in Nat /\ Rows \in Nat /\ xCharSize \in Nat /\ yCharSize \in Nat
  BY Sizes
<1> HIDE DEF x, y
<1>3. After(<<x, y>>) \in Nat \X Nat
  <2>1. Wrapped(y) \in Nat /\ Wrapped(y + 1) \in Nat
    BY <1>1, <1>2 DEF Wrapped
  <2>2. After(<<x, y>>) = IF x + 1 < Cols THEN <<x + 1, Wrapped(y)>> ELSE <<0, Wrapped(y + 1)>>
    BY <1>1, <1>2 DEF After
  <2> QED
    BY <1>1, <2>1, <2>2
<1>4. Cell(<<x, y>>, char) \in Cells
  <2>1. \A a, b \in Nat : a * b \in Nat
    OBVIOUS
  <2>2. x * xCharSize \in Nat /\ y * yCharSize \in Nat
    BY <1>1, <1>2, <2>1
  <2> DEFINE px == x * xCharSize
             py == y * yCharSize
  <2>3. Cell(<<x, y>>, char) = [x |-> px, y |-> py, char |-> char]
    BY DEF Cell
  <2> HIDE DEF px, py
  <2>4. px \in Nat /\ py \in Nat
    BY <2>2 DEF px, py
  <2> QED
    BY <2>3, <2>4 DEF Cells
<1>5. Append(s.cells, Cell(<<x, y>>, char)) \in Seq(Cells)
  BY <1>1, <1>4
<1> QED
  BY <1>1, <1>3, <1>5 DEF Put, Pictures

\* The same of a blank.
LEMMA BlankTyped ==
  ASSUME NEW s \in Pictures
  PROVE  Blank(s) \in Pictures
<1>1. " " \in Chars
  BY Zenon DEF Chars
<1> DEFINE c == " "
<1>2. c \in Chars /\ Blank(s) = Put(s, c)
  BY <1>1, Zenon DEF Blank
<1> HIDE DEF c
<1> QED
  BY <1>2, PutTyped

\* Blanks is the one function that its recursion describes.
LEMMA BlanksAre ==
  ASSUME NEW s, NEW N \in Nat, NEW c \in [0 .. N -> Pictures], c[0] = s,
         \A k \in 1 .. N : c[k] = Blank(c[k - 1]),
         NEW n \in 0 .. N
  PROVE  Blanks(s, n) = c[n]
<1> DEFINE Sol(e) == e = [i \in 0 .. n |-> IF i = 0 THEN s ELSE Blank(e[i - 1])]
           d == [i \in 0 .. n |-> c[i]]
<1>1. Sol(d)
  <2>1. ASSUME NEW i \in 0 .. n PROVE d[i] = IF i = 0 THEN s ELSE Blank(d[i - 1])
    <3>1. CASE i = 0
      BY <3>1
    <3>2. CASE i # 0
      <4>1. i \in 1 .. N /\ i - 1 \in 0 .. n
        BY <3>2
      <4> QED
        BY <3>2, <4>1
    <3> QED
      BY <3>1, <3>2
  <2> DEFINE g == [i \in 0 .. n |-> IF i = 0 THEN s ELSE Blank(d[i - 1])]
  <2>2. d = g
    BY <2>1
  <2> HIDE DEF d
  <2> QED
    BY <2>2
<1>2. Sol(CHOOSE e : Sol(e))
  <2> HIDE DEF d, Sol
  <2> QED
    BY <1>1
<1>3. Blanks(s, n) = (CHOOSE e : Sol(e))[n]
  BY DEF Blanks
<1>4. PICK e : Sol(e) /\ Blanks(s, n) = e[n]
  <2> HIDE DEF Sol
  <2> QED
    BY <1>2, <1>3
<1>5. ASSUME NEW i \in 0 .. n PROVE e[i] = IF i = 0 THEN s ELSE Blank(e[i - 1])
  <2>1. e[i] = [j \in 0 .. n |-> IF j = 0 THEN s ELSE Blank(e[j - 1])][i]
    BY <1>4
  <2> QED
    BY <2>1
<1> HIDE DEF Sol, d
<1> DEFINE H == {i \in Nat : i <= n => e[i] = c[i]}
<1>6. 0 \in H
  BY <1>5
<1>7. ASSUME NEW i \in Nat, i \in H
      PROVE  i + 1 \in H
  <2> SUFFICES ASSUME i + 1 <= n PROVE e[i + 1] = c[i + 1]
    OBVIOUS
  <2>1. i + 1 \in 0 .. n /\ i + 1 \in 1 .. N /\ i + 1 # 0 /\ i + 1 - 1 = i /\ e[i] = c[i]
    BY <1>7
  <2>2. e[i + 1] = Blank(e[i])
    BY <1>5, <2>1
  <2>3. c[i + 1] = Blank(c[i])
    BY <2>1
  <2> QED
    BY <2>1, <2>2, <2>3
<1>8. Nat \subseteq H
  <2> HIDE DEF H
  <2> QED
    BY <1>6, <1>7, SetInduction
<1> QED
  BY <1>4, <1>8

\* One more blank.
LEMMA BlanksSteps ==
  ASSUME NEW s \in Pictures
  PROVE  /\ Blanks(s, 0) = s
         /\ \A n \in Nat : Blanks(s, n) \in Pictures /\ Blanks(s, n + 1) = Blank(Blanks(s, n))
<1> SUFFICES ASSUME NEW n \in Nat
             PROVE  /\ Blanks(s, 0) = s /\ Blanks(s, n) \in Pictures
                    /\ Blanks(s, n + 1) = Blank(Blanks(s, n))
  OBVIOUS
<1> DEFINE N == n + 1
           G == [p \in (0 .. N) \X Pictures |-> Blank(p[2])]
<1>1. G \in [(0 .. N) \X Pictures -> Pictures] /\ N \in Nat
  BY BlankTyped
<1>2. PICK c \in [0 .. N -> Pictures] : Recurs(c, 0, N, s, G)
  <2>1. 0 \in Int /\ N \in Int /\ 0 <= N
    BY <1>1
  <2> HIDE DEF N, G
  <2> QED
    BY <1>1, <2>1, Recurrence
<1>3. ASSUME NEW k \in 1 .. N PROVE c[k] = Blank(c[k - 1])
  <2>1. <<k, c[k - 1]>> \in (0 .. N) \X Pictures /\ k # 0 /\ k \in 0 .. N
    BY <1>1
  <2>2. c[k] = G[<<k, c[k - 1]>>]
    BY <1>2, <2>1 DEF Recurs
  <2>3. G[<<k, c[k - 1]>>] = Blank(c[k - 1])
    BY <2>1
  <2> QED
    BY <2>2, <2>3
<1>4. c[0] = s
  BY <1>2 DEF Recurs
<1>5. \A k \in 0 .. N : Blanks(s, k) = c[k]
  <2> HIDE DEF N, G
  <2> QED
    BY <1>1, <1>3, <1>4, BlanksAre
<1>6. 0 \in 0 .. N /\ n \in 0 .. N /\ n + 1 \in 0 .. N /\ n + 1 \in 1 .. N /\ n + 1 - 1 = n
  OBVIOUS
<1> HIDE DEF N, G
<1> QED
  BY <1>3, <1>4, <1>5, <1>6

\* What a tab stop is short of.
LEMMA TabStopTyped ==
  ASSUME NEW x \in Nat
  PROVE  Tab - (x % Tab) \in 1 .. Tab
<1>1. Tab \in Nat \ {0}
  BY Sizes
<1>2. \A t \in Nat \ {0} : x % t \in 0 .. t - 1
  OBVIOUS
<1>3. x % Tab \in 0 .. Tab - 1
  BY <1>1, <1>2
<1> QED
  BY <1>1, <1>3

\* A character of a text.
LEMMA ShownTyped ==
  ASSUME NEW s \in Pictures, NEW char \in STRING
  PROVE  Shown(s, char) \in Pictures
<1> DEFINE x == s.pos[1]
           y == s.pos[2]
<1>1. x \in Nat /\ y \in Nat /\ s.pos = <<x, y>> /\ s.cells \in Seq(Cells)
  BY DEF Pictures
<1>2. CASE char = "NL"
  <2>1. Wrapped(y + 1) \in Nat
    BY <1>1, Sizes DEF Wrapped
  <2>2. Shown(s, char) = [s EXCEPT !.pos = <<0, Wrapped(y + 1)>>]
    BY <1>2 DEF Shown
  <2> DEFINE q == <<0, Wrapped(y + 1)>>
  <2>3. q \in Nat \X Nat
    BY <2>1
  <2> HIDE DEF x, y, q
  <2> QED
    BY <2>2, <2>3 DEF Pictures, q
<1>3. CASE char = "TAB"
  <2>1. Tab - (x % Tab) \in Nat
    <3>1. x \in Nat /\ Tab \in Nat
      BY <1>1, Sizes
    <3> HIDE DEF x
    <3>2. Tab - (x % Tab) \in 1 .. Tab
      BY <3>1, TabStopTyped
    <3> QED
      BY <3>1, <3>2
  <2>2. Shown(s, char) = Blanks(s, Tab - (x % Tab))
    BY <1>3 DEF Shown
  <2> QED
    BY <2>1, <2>2, BlanksSteps
<1>4. CASE char # "NL" /\ char # "TAB"
  <2>1. Shown(s, char) = Put(s, char)
    BY <1>4 DEF Shown
  <2>2. char \in Chars
    BY DEF Chars
  <2> QED
    BY <2>1, <2>2, PutTyped
<1> QED
  BY <1>2, <1>3, <1>4

Blankly(p) == [pos |-> p, cells |-> <<>>]

\* c is the table of the pictures of a text's first characters.
Filmed(c, p, text, N) ==
  c[0] = Blankly(p) /\ \A k \in 1 .. N : c[k] = Shown(c[k - 1], text[k])

\* LayoutTo is the one function that its recursion describes.
LEMMA LayoutIs ==
  ASSUME NEW p, NEW text, NEW N \in Nat, NEW c, Filmed(c, p, text, N), NEW n \in 0 .. N
  PROVE  LayoutTo(p, text, n) = c[n]
<1> DEFINE s == Blankly(p)
           Sol(e) == e = [i \in 0 .. n |-> IF i = 0 THEN s ELSE Shown(e[i - 1], text[i])]
           d == [i \in 0 .. n |-> c[i]]
<1>3. LayoutTo(p, text, n) = (CHOOSE e : Sol(e))[n]
  BY DEF LayoutTo, Blankly
<1>0. c[0] = s /\ \A k \in 1 .. N : c[k] = Shown(c[k - 1], text[k])
  BY DEF Filmed
<1> HIDE DEF s
<1>1. Sol(d)
  <2>1. ASSUME NEW i \in 0 .. n PROVE d[i] = IF i = 0 THEN s ELSE Shown(d[i - 1], text[i])
    <3>1. CASE i = 0
      BY <1>0, <3>1
    <3>2. CASE i # 0
      <4>1. i \in 1 .. N /\ i - 1 \in 0 .. n
        BY <3>2
      <4> QED
        BY <1>0, <3>2, <4>1
    <3> QED
      BY <3>1, <3>2
  <2> DEFINE g == [i \in 0 .. n |-> IF i = 0 THEN s ELSE Shown(d[i - 1], text[i])]
  <2>2. d = g
    BY <2>1
  <2> HIDE DEF d
  <2> QED
    BY <2>2
<1>2. Sol(CHOOSE e : Sol(e))
  <2> HIDE DEF d, Sol
  <2> QED
    BY <1>1
<1>4. PICK e : Sol(e) /\ LayoutTo(p, text, n) = e[n]
  <2> HIDE DEF Sol
  <2> QED
    BY <1>2, <1>3
<1>5. ASSUME NEW i \in 0 .. n PROVE e[i] = IF i = 0 THEN s ELSE Shown(e[i - 1], text[i])
  <2>1. e[i] = [j \in 0 .. n |-> IF j = 0 THEN s ELSE Shown(e[j - 1], text[j])][i]
    BY <1>4
  <2> QED
    BY <2>1
<1> HIDE DEF Sol, d
<1> DEFINE H == {i \in Nat : i <= n => e[i] = c[i]}
<1>6. 0 \in H
  BY <1>0, <1>5
<1>7. ASSUME NEW i \in Nat, i \in H
      PROVE  i + 1 \in H
  <2> SUFFICES ASSUME i + 1 <= n PROVE e[i + 1] = c[i + 1]
    OBVIOUS
  <2>1. i + 1 \in 0 .. n /\ i + 1 \in 1 .. N /\ i + 1 # 0 /\ i + 1 - 1 = i /\ e[i] = c[i]
    BY <1>7
  <2>2. e[i + 1] = Shown(e[i], text[i + 1])
    BY <1>5, <2>1
  <2>3. c[i + 1] = Shown(c[i], text[i + 1])
    BY <1>0, <2>1
  <2> QED
    BY <2>1, <2>2, <2>3
<1>8. Nat \subseteq H
  <2> HIDE DEF H
  <2> QED
    BY <1>6, <1>7, SetInduction
<1> QED
  BY <1>4, <1>8

\* One more character.
LEMMA LayoutSteps ==
  ASSUME NEW p \in Nat \X Nat, NEW text \in Seq(STRING)
  PROVE  /\ LayoutTo(p, text, 0) = Blankly(p)
         /\ \A n \in 0 .. Len(text) : LayoutTo(p, text, n) \in Pictures
         /\ \A n \in 1 .. Len(text) : LayoutTo(p, text, n) = Shown(LayoutTo(p, text, n - 1), text[n])
<1> DEFINE N == Len(text)
           G == [q \in (0 .. N) \X Pictures |-> IF q[1] = 0 THEN Blankly(p) ELSE Shown(q[2], text[q[1]])]
<1>0. Blankly(p) \in Pictures
  BY DEF Blankly, Pictures
<1>1. G \in [(0 .. N) \X Pictures -> Pictures] /\ N \in Nat
  <2>1. N \in Nat /\ \A k \in 1 .. N : text[k] \in STRING
    OBVIOUS
  <2> HIDE DEF N
  <2>2. ASSUME NEW q \in (0 .. N) \X Pictures
        PROVE  (IF q[1] = 0 THEN Blankly(p) ELSE Shown(q[2], text[q[1]])) \in Pictures
    <3>1. q[1] \in 0 .. N /\ q[2] \in Pictures
      OBVIOUS
    <3>2. q[1] # 0 => q[1] \in 1 .. N
      BY <2>1, <3>1
    <3> QED
      BY <1>0, <2>1, <3>1, <3>2, ShownTyped
  <2> QED
    BY <2>1, <2>2
<1>2. PICK c \in [0 .. N -> Pictures] : Recurs(c, 0, N, Blankly(p), G)
  <2>1. 0 \in Int /\ N \in Int /\ 0 <= N
    BY <1>1
  <2> HIDE DEF N, G
  <2> QED
    BY <1>0, <1>1, <2>1, Recurrence
<1>3. ASSUME NEW k \in 1 .. N PROVE c[k] = Shown(c[k - 1], text[k])
  <2>1. <<k, c[k - 1]>> \in (0 .. N) \X Pictures /\ k # 0 /\ k \in 0 .. N
    <3> HIDE DEF N
    <3>1. k - 1 \in 0 .. N /\ k # 0 /\ k \in 0 .. N
      BY <1>1
    <3> QED
      BY <3>1
  <2>2. c[k] = G[<<k, c[k - 1]>>]
    BY <1>2, <2>1 DEF Recurs
  <2>3. G[<<k, c[k - 1]>>] = Shown(c[k - 1], text[k])
    BY <2>1
  <2> QED
    BY <2>2, <2>3
<1>4. c[0] = Blankly(p)
  BY <1>2 DEF Recurs
<1>5. \A k \in 0 .. N : LayoutTo(p, text, k) = c[k]
  <2> HIDE DEF N, G
  <2>1. Filmed(c, p, text, N)
    BY <1>3, <1>4 DEF Filmed
  <2> QED
    BY <1>1, <2>1, LayoutIs
<1>6. 0 \in 0 .. N /\ \A n \in 1 .. N : n \in 0 .. N /\ n - 1 \in 0 .. N
  BY <1>1
<1> HIDE DEF G
<1> QED
  BY <1>3, <1>4, <1>5, <1>6

-----------------------------------------------------------------------------
(* How much of its text a call has drawn *)

\* Columns to the next tab stop.
ToTab(s) == Tab - (s.pos[1] % Tab)

\* The picture when n characters of the text have been dealt with, but for
\* the last "left" blanks of the n-th, which is a tab.
ReachedTo(p, text, n, left) ==
  IF left > 0
  THEN Blanks(LayoutTo(p, text, n - 1), ToTab(LayoutTo(p, text, n - 1)) - left)
  ELSE LayoutTo(p, text, n)
TabLeft(p, text, n, left) ==
  left > 0 => n > 0 /\ text[n] = "TAB" /\ left <= ToTab(LayoutTo(p, text, n - 1))

Pic(q, dr) == [pos |-> q, cells |-> dr]

\* The picture A is what the rest of putchar and of the loop's body makes of
\* the cursor <<x, y>> and the cells dr.
Ahead(d, text, x, y, dr, A) ==
  /\ d.pc = "char" => A = Put(Pic(<<x, y>>, dr), text[d.count + 1])
  /\ d.pc = "blank" => A = Blank(Pic(<<x, y>>, dr))
  /\ d.pc \in {"row", "draw"} => A = Put(Pic(<<x, y>>, dr), d.char)
  /\ d.pc = "draw" => d.row = y
  /\ d.pc \in {"load_x", "store_x"} => A = Pic(After(<<x, y>>), dr)
  /\ d.pc = "store_x" => d.reg = x
  /\ d.pc = "test_x" => A = Pic(IF x < Cols THEN <<x, Wrapped(y)>> ELSE <<0, Wrapped(y + 1)>>, dr)
  /\ d.pc \in {"newline", "store_nl", "full", "store_full"} => A = Pic(<<0, Wrapped(y + 1)>>, dr)
  /\ d.pc \in {"store_nl", "store_full"} => d.reg = y
  /\ d.pc \in {"zero_nl", "zero_full"} => A = Pic(<<0, Wrapped(y)>>, dr)
  /\ d.pc = "test_y" => A = Pic(<<x, Wrapped(y)>>, dr)
  /\ d.pc = "zero_y" => A = Pic(<<x, 0>>, dr)

\* Blanks of a tab that will be left behind the character at hand.
Rest(d) == IF d.pc = "blank" THEN d.spaces - 1 ELSE d.spaces

\* A call d whose text nothing has come between: buf holds it, and what is
\* drawn is where it belongs.
Laid(d, text, p, b, x, y, dr) ==
  /\ \A j \in 1 .. d.i : b[j] = text[j]
  /\ d.pc # "format" => d.i = Len(text) /\ p \in Nat \X Nat
  /\ d.pc = "loop" =>
       /\ TabLeft(p, text, d.count, d.spaces)
       /\ Pic(<<x, y>>, dr) = ReachedTo(p, text, d.count, d.spaces)
  /\ d.pc \notin {"format", "loop"} =>
       /\ TabLeft(p, text, d.count + 1, d.spaces)
       /\ Ahead(d, text, x, y, dr, ReachedTo(p, text, d.count + 1, Rest(d)))

\* Such a call is do_IRQ's, or Start_Kernel's before a key comes.
Watched == irqs # <<>> \/ (todo # <<>> /\ ~ mixed /\ ~ HasBackspace(Head(todo)))
LaidNow == Laid(c0, Text(Running), start[Running], buf, xPos, yPos, drawn[Running])

LaidInv ==
  /\ DOMAIN start = Contexts /\ DOMAIN drawn = Contexts
  /\ irqs # <<>> => mixed
  /\ Watched => LaidNow

-----------------------------------------------------------------------------
(* Tabs *)

\* The last blank of a tab, and one before it.
LEMMA NextBlank ==
  ASSUME NEW p \in Nat \X Nat, NEW text \in Seq(STRING), NEW n \in 1 .. Len(text),
         NEW left \in Nat \ {0}, TabLeft(p, text, n, left)
  PROVE  Blank(ReachedTo(p, text, n, left)) = ReachedTo(p, text, n, left - 1)
<1> DEFINE s == LayoutTo(p, text, n - 1)
           t == ToTab(s)
<1>1. s \in Pictures /\ LayoutTo(p, text, n) = Shown(s, text[n])
  <2>1. n - 1 \in 0 .. Len(text) /\ n \in 1 .. Len(text)
    OBVIOUS
  <2> QED
    BY <2>1, LayoutSteps
<1>2. text[n] = "TAB" /\ left <= t
  BY DEF TabLeft
<1>3. Shown(s, text[n]) = Blanks(s, t)
  BY <1>2 DEF Shown, ToTab
<1>4. t \in Nat
  <2>1. s.pos[1] \in Nat
    BY <1>1 DEF Pictures
  <2>2. Tab - (s.pos[1] % Tab) \in 1 .. Tab /\ Tab \in Nat
    BY <2>1, TabStopTyped, Sizes
  <2> QED
    BY <2>2 DEF ToTab
<1>5. ReachedTo(p, text, n, left) = Blanks(s, t - left)
  BY DEF ReachedTo
<1>6. ReachedTo(p, text, n, left - 1) = Blanks(s, (t - left) + 1)
  <2>1. CASE left = 1
    <3>1. ReachedTo(p, text, n, 0) = LayoutTo(p, text, n)
      BY DEF ReachedTo
    <3> HIDE DEF t, s
    <3>2. (t - left) + 1 = t /\ left - 1 = 0
      BY <1>4, <2>1
    <3> QED
      BY <1>1, <1>3, <3>1, <3>2
  <2>2. CASE left # 1
    <3>1. left - 1 > 0
      BY <2>2
    <3>2. ReachedTo(p, text, n, left - 1) = Blanks(s, t - (left - 1))
      BY <3>1 DEF ReachedTo
    <3> HIDE DEF t, s
    <3>3. t - (left - 1) = (t - left) + 1
      BY <1>4
    <3> QED
      BY <3>2, <3>3
  <2> QED
    BY <2>1, <2>2
<1>7. t - left \in Nat
  <2> HIDE DEF t
  <2> QED
    BY <1>2, <1>4
<1> HIDE DEF t, s
<1> QED
  BY <1>1, <1>5, <1>6, <1>7, BlanksSteps

\* The first blank of a tab.
LEMMA FirstBlank ==
  ASSUME NEW p \in Nat \X Nat, NEW text \in Seq(STRING), NEW n \in 1 .. Len(text),
         text[n] = "TAB"
  PROVE  /\ ToTab(LayoutTo(p, text, n - 1)) \in Nat \ {0}
         /\ TabLeft(p, text, n, ToTab(LayoutTo(p, text, n - 1)))
         /\ Blank(LayoutTo(p, text, n - 1)) = ReachedTo(p, text, n, ToTab(LayoutTo(p, text, n - 1)) - 1)
<1> DEFINE s == LayoutTo(p, text, n - 1)
           t == ToTab(s)
<1>1. s \in Pictures
  <2>1. n - 1 \in 0 .. Len(text)
    OBVIOUS
  <2> QED
    BY <2>1, LayoutSteps
<1>2. t \in Nat \ {0}
  <2>1. s.pos[1] \in Nat
    BY <1>1 DEF Pictures
  <2>2. Tab - (s.pos[1] % Tab) \in 1 .. Tab /\ Tab \in Nat
    BY <2>1, TabStopTyped, Sizes
  <2> QED
    BY <2>2 DEF ToTab
<1>3. TabLeft(p, text, n, t)
  <2> HIDE DEF t
  <2>1. t <= t
    BY <1>2
  <2> QED
    BY <2>1 DEF TabLeft, t
<1>4. ReachedTo(p, text, n, t) = s
  <2>1. ReachedTo(p, text, n, t) = Blanks(s, t - t)
    BY <1>2 DEF ReachedTo
  <2> HIDE DEF t, s
  <2>2. t - t = 0
    BY <1>2
  <2> QED
    BY <1>1, <2>1, <2>2, BlanksSteps
<1> HIDE DEF t, s
<1>5. Blank(ReachedTo(p, text, n, t)) = ReachedTo(p, text, n, t - 1)
  BY <1>2, <1>3, NextBlank
<1> QED
  BY <1>2, <1>3, <1>4, <1>5 DEF t, s

\* Any other character.
LEMMA NextChar ==
  ASSUME NEW p \in Nat \X Nat, NEW text \in Seq(STRING), NEW n \in 1 .. Len(text)
  PROVE  /\ text[n] = "NL" => ReachedTo(p, text, n, 0) =
              [LayoutTo(p, text, n - 1) EXCEPT !.pos = <<0, Wrapped(LayoutTo(p, text, n - 1).pos[2] + 1)>>]
         /\ text[n] \notin {"NL", "TAB"} =>
              ReachedTo(p, text, n, 0) = Put(LayoutTo(p, text, n - 1), text[n])
         /\ LayoutTo(p, text, n - 1) \in Pictures
<1>1. n - 1 \in 0 .. Len(text)
  OBVIOUS
<1>2. LayoutTo(p, text, n) = Shown(LayoutTo(p, text, n - 1), text[n]) /\ LayoutTo(p, text, n - 1) \in Pictures
  BY <1>1, LayoutSteps
<1>3. ReachedTo(p, text, n, 0) = LayoutTo(p, text, n)
  BY DEF ReachedTo
<1> QED
  BY <1>2, <1>3 DEF Shown

-----------------------------------------------------------------------------
(* The steps of a call whose text nothing has come between *)

\* What is known of such a call.
LEMMA WatchedCall ==
  ASSUME IInv, LaidInv, Watched
  PROVE  /\ LaidNow /\ Has(Running) /\ Quiet(Running) /\ Running \in Contexts
         /\ c0 = ctx[Running] /\ c0 \in CallType
         /\ Text(Running) \in Seq(STRING) /\ Len(Text(Running)) \in Nat
         /\ Progress(Running) /\ Clean(Running)
         /\ xPos \in Nat /\ yPos \in Nat
         /\ c0.i \in Nat /\ c0.count \in Nat /\ c0.spaces \in Nat
<1>1. Typed /\ Turns /\ Running \in Contexts /\ c0 = ctx[Running] /\ c0 \in CallType
      /\ (Running = "irq" <=> irqs # <<>>)
  BY Turn DEF IInv
<1>2. Has(Running) /\ Quiet(Running)
  <2>1. CASE Running = "irq"
    <3>1. irqs # <<>> /\ Head(irqs) = irqs[1] /\ 1 \in DOMAIN irqs
      BY <1>1, <2>1 DEF Typed
    <3> QED
      BY <1>1, <2>1, <3>1 DEF Has, Quiet, Text, Turns
  <2>2. CASE Running = "main"
    BY <1>1, <2>2 DEF Watched, Has, Quiet, Text
  <2> QED
    BY <1>1, <2>1, <2>2 DEF Contexts
<1>3. Text(Running) \in Seq(STRING)
  BY <1>1, <1>2, HasText
<1>4. Progress(Running) /\ Clean(Running)
  BY <1>1 DEF IInv, Contexts
<1>5. LaidNow
  BY DEF LaidInv
<1>6. xPos \in Nat /\ yPos \in Nat
  BY <1>1 DEF Typed
<1>7. c0.i \in Nat /\ c0.count \in Nat /\ c0.spaces \in Nat
  <2>1. c0.spaces \in 0 .. Tab /\ Tab \in Nat
    BY <1>1, Sizes DEF CallType
  <2> QED
    BY <1>1, <2>1 DEF CallType
<1> QED
  BY <1>1, <1>2, <1>3, <1>4, <1>5, <1>6, <1>7

\* The buffer holds what has been formatted of the text.
LEMMA BufferIs ==
  ASSUME IInv, LaidInv, Watched, c0.pc # "format", c0.count < c0.i
  PROVE  /\ Next1 = Text(Running)[c0.count + 1] /\ Next1 # "BS"
         /\ c0.count + 1 \in 1 .. Len(Text(Running)) /\ c0.i = Len(Text(Running))
         /\ start[Running] \in Nat \X Nat
<1>1. LaidNow /\ Clean(Running) /\ Quiet(Running) /\ c0 = ctx[Running]
      /\ c0.count \in Nat /\ c0.i \in Nat
  BY WatchedCall
<1>2. c0.count + 1 \in 1 .. c0.i
  BY <1>1
<1>3. buf[c0.count + 1] = Text(Running)[c0.count + 1] /\ buf[c0.count + 1] # "BS"
  BY <1>1, <1>2 DEF LaidNow, Laid, Clean
<1>4. c0.i = Len(Text(Running)) /\ start[Running] \in Nat \X Nat
  BY <1>1 DEF LaidNow, Laid
<1> QED
  BY <1>2, <1>3, <1>4 DEF Next1

\* What a step makes of it.
LaidNext ==
  Laid(ctx'[Running], Text(Running), start'[Running], buf', xPos', yPos', drawn'[Running])

\* vsprintf writes the next character of the text, and no other.
LEMMA FormatLaid ==
  ASSUME IInv, LaidInv, Watched, Format
  PROVE  LaidNext
<1> DEFINE d == c0
           e == ctx'[Running]
           T == Text(Running)
<1>1. LaidNow /\ T \in Seq(STRING) /\ d.i \in Nat /\ Progress(Running) /\ Typed /\ Has(Running)
      /\ d = ctx[Running]
  BY WatchedCall DEF IInv
<1>2. d.pc = "format" /\ d.i # Len(T) /\ e.pc = "format" /\ e.i = d.i + 1
      /\ buf' = Written(buf, d.i + 1, T[d.i + 1])
  BY FormatDoes DEF Becomes
<1>3. \A j \in 1 .. d.i : buf[j] = T[j]
  BY <1>1 DEF LaidNow, Laid
<1>4. d.i <= Len(buf) /\ d.i <= Len(T) /\ buf \in Seq(STRING)
  BY <1>1, <1>2 DEF Progress, Typed
<1> HIDE DEF d, e, T
<1>5. d.i + 1 \in 1 .. Len(T) /\ d.i + 1 \in Nat \ {0} /\ d.i + 1 <= Len(buf) + 1 /\ Len(buf) \in Nat
  BY <1>1, <1>2, <1>4
<1>6. T[d.i + 1] \in STRING
  BY <1>1, <1>5
<1> DEFINE k == d.i + 1
           x == T[d.i + 1]
<1>9. /\ Written(buf, k, x)[k] = x
      /\ \A l \in 1 .. Len(buf) : l # k => Written(buf, k, x)[l] = buf[l]
  <2>1. k \in Nat \ {0} /\ k <= Len(buf) + 1 /\ x \in STRING /\ buf \in Seq(STRING)
    BY <1>4, <1>5, <1>6
  <2> HIDE DEF k, x
  <2>2. Stores(buf, k, x)
    BY <2>1, WrittenIs
  <2> QED
    BY <2>2 DEF Stores
<1>7. ASSUME NEW j \in 1 .. d.i + 1
      PROVE  buf'[j] = T[j]
  <2>1. CASE j = d.i + 1
    BY <1>2, <1>9, <2>1
  <2>2. CASE j # d.i + 1
    <3>1. j \in 1 .. d.i /\ j \in 1 .. Len(buf)
      BY <1>1, <1>4, <1>5, <2>2
    <3>3. buf'[j] = buf[j]
      BY <1>2, <1>9, <2>2, <3>1
    <3> QED
      BY <1>3, <3>1, <3>3
  <2> QED
    BY <2>1, <2>2
<1> HIDE DEF k, x
<1>8. Laid(e, T, start'[Running], buf', xPos', yPos', drawn'[Running])
  BY <1>2, <1>7 DEF Laid
<1> QED
  BY <1>8 DEF LaidNext, e, T

\* vsprintf has returned: the cursor is where the text begins.
LEMMA FormatEndLaid ==
  ASSUME IInv, LaidInv, Watched, FormatEnd
  PROVE  LaidNext
<1> DEFINE d == c0
           e == ctx'[Running]
           T == Text(Running)
           p == <<xPos, yPos>>
<1>1. LaidNow /\ T \in Seq(STRING) /\ Progress(Running) /\ d = ctx[Running] /\ Running \in Contexts
      /\ xPos \in Nat /\ yPos \in Nat /\ d.spaces \in Nat
  BY WatchedCall
<1>2. d.pc = "format" /\ d.i = Len(T) /\ e.pc = "loop" /\ e.i = d.i /\ e.count = d.count
      /\ e.spaces = d.spaces /\ buf' = buf /\ xPos' = xPos /\ yPos' = yPos
  <2>1. /\ \/ /\ d.pc = "format" /\ d.i = Len(T)
              /\ Becomes(d, e, "loop", {})
           \/ d.pc \in {"char", "row", "load_x", "newline", "full"}
        /\ UNCHANGED <<buf, pos>>
    BY ReadsDo
  <2>2. d.pc = "format"
    BY DEF FormatEnd, At
  <2> QED
    BY <2>1, <2>2 DEF Becomes, pos
<1>3. d.count = 0 /\ d.spaces = 0
  BY <1>1, <1>2 DEF Progress
<1>4. start'[Running] = p /\ drawn'[Running] = <<>>
  BY <1>1 DEF FormatEnd, LaidInv, pos
<1>5. \A j \in 1 .. d.i : buf[j] = T[j]
  BY <1>1 DEF LaidNow, Laid
<1>6. p \in Nat \X Nat
  BY <1>1
<1>7. LayoutTo(p, T, 0) = Blankly(p)
  BY <1>1, <1>6, LayoutSteps
<1>8. ReachedTo(p, T, 0, 0) = Pic(<<xPos, yPos>>, <<>>) /\ TabLeft(p, T, 0, 0)
  BY <1>7 DEF ReachedTo, TabLeft, Pic, Blankly
<1> HIDE DEF d, e, T, p
<1>9. Laid(e, T, start'[Running], buf', xPos', yPos', drawn'[Running])
  BY <1>2, <1>3, <1>4, <1>5, <1>6, <1>8 DEF Laid
<1> QED
  BY <1>9 DEF LaidNext, e, T

\* A step that leaves count and the blanks to come alone, and what is ahead.
LEMMA AheadLaid ==
  ASSUME IInv, LaidInv, Watched, c0.pc \notin {"format", "loop"},
         ctx'[Running].i = c0.i, ctx'[Running].count = c0.count,
         ctx'[Running].pc \notin {"format", "loop"},
         Rest(ctx'[Running]) = Rest(c0), ctx'[Running].spaces \in {c0.spaces, Rest(c0)},
         buf' = buf, start' = start,
         \A A : Ahead(c0, Text(Running), xPos, yPos, drawn[Running], A) =>
                  Ahead(ctx'[Running], Text(Running), xPos', yPos', drawn'[Running], A)
  PROVE  LaidNext
<1> DEFINE d == c0
           e == ctx'[Running]
           T == Text(Running)
           p == start[Running]
           A == ReachedTo(p, T, d.count + 1, Rest(d))
<1>1. LaidNow /\ d.spaces \in Nat
  BY WatchedCall
<1>2. /\ \A j \in 1 .. d.i : buf[j] = T[j]
      /\ d.i = Len(T) /\ p \in Nat \X Nat
      /\ TabLeft(p, T, d.count + 1, d.spaces)
      /\ Ahead(d, T, xPos, yPos, drawn[Running], A)
  BY <1>1 DEF LaidNow, Laid
<1>3. Ahead(e, T, xPos', yPos', drawn'[Running], A)
  BY <1>2
<1>4. TabLeft(p, T, e.count + 1, e.spaces)
  <2>1. e.spaces = d.spaces \/ e.spaces = d.spaces - 1
    BY DEF Rest
  <2>2. e.count = d.count
    OBVIOUS
  <2>3. e.spaces > 0 => d.spaces > 0 /\ e.spaces <= d.spaces
    BY <1>1, <2>1
  <2> DEFINE n == d.count + 1
             r == e.spaces
             l == d.spaces
             t == ToTab(LayoutTo(p, T, n - 1))
  <2>4. t \in Int
    <3>1. d.count \in Nat /\ d.count < d.i /\ T \in Seq(STRING) /\ c0.pc # "fault"
      BY WatchedCall DEF Progress, Clean
    <3>2. n \in 1 .. Len(T)
      BY <1>2, <3>1
    <3> HIDE DEF n, d, T, p
    <3>3. LayoutTo(p, T, n - 1) \in Pictures
      BY <1>2, <3>1, <3>2, NextChar
    <3>4. LayoutTo(p, T, n - 1).pos[1] \in Nat
      BY <3>3 DEF Pictures
    <3>5. Tab - (LayoutTo(p, T, n - 1).pos[1] % Tab) \in Int
      BY <3>4, TabStopTyped
    <3> QED
      BY <3>5 DEF ToTab
  <2> HIDE DEF d, e, T, p
  <2>5. d.spaces \in Nat /\ e.spaces \in Int
    BY <1>1, <2>1
  <2>6. TabLeft(p, T, n, l) /\ t \in Int /\ l \in Nat /\ r \in Int /\ (r > 0 => l > 0 /\ r <= l)
    <3>1. TabLeft(p, T, n, l)
      BY <1>2
    <3>2. t \in Int
      BY <2>4
    <3>3. l \in Nat /\ r \in Int
      BY <2>5
    <3>4. r > 0 => l > 0 /\ r <= l
      BY <2>3
    <3> QED
      BY <3>1, <3>2, <3>3, <3>4
  <2>7. l > 0 => n > 0 /\ T[n] = "TAB" /\ l <= t
    BY <2>6 DEF TabLeft
  <2> HIDE DEF n, r, l, t
  <2>8. r > 0 => n > 0 /\ T[n] = "TAB" /\ r <= t
    BY <2>6, <2>7
  <2>9. TabLeft(p, T, n, r)
    BY <2>8 DEF TabLeft, t
  <2> QED
    BY <2>2, <2>9 DEF n, r
<1>5. e.i = d.i /\ buf' = buf /\ start'[Running] = p /\ e.pc \notin {"format", "loop"}
      /\ A = ReachedTo(p, T, e.count + 1, Rest(e))
  OBVIOUS
<1> HIDE DEF d, e, T, p, A
<1>6. Laid(e, T, p, buf', xPos', yPos', drawn'[Running])
  BY <1>2, <1>3, <1>4, <1>5 DEF Laid
<1> QED
  BY <1>5, <1>6 DEF LaidNext, e, T

\* The blank of a tab.
LEMMA ReadBlankLaid ==
  ASSUME IInv, LaidInv, Watched, ReadBlank
  PROVE  LaidNext
<1> DEFINE d == c0
           e == ctx'[Running]
           space == " "
<1>1. d.pc = "blank" /\ Becomes(d, e, "row", {"spaces", "char"})
      /\ e.spaces = d.spaces - 1 /\ e.char = space /\ UNCHANGED <<buf, pos>>
  <2>1. d.pc = "blank"
    BY DEF ReadBlank, At
  <2> QED
    BY <2>1, SpacesDo
<1>2. UNCHANGED <<buf, xPos, yPos, start, drawn>>
  BY DEF ReadBlank, Step, pos
<1>3. ASSUME NEW s
      PROVE  Blank(s) = Put(s, space)
  BY Zenon DEF Blank
<1>4. e.i = d.i /\ e.count = d.count /\ e.pc = "row"
  BY <1>1 DEF Becomes
<1> HIDE DEF space
<1>5. ASSUME NEW A, Ahead(d, Text(Running), xPos, yPos, drawn[Running], A)
      PROVE  Ahead(e, Text(Running), xPos', yPos', drawn'[Running], A)
  <2>1. A = Put(Pic(<<xPos, yPos>>, drawn[Running]), space)
    BY <1>1, <1>3, <1>5 DEF Ahead
  <2> HIDE DEF d, e
  <2> QED
    BY <1>1, <1>2, <1>4, <2>1 DEF Ahead
<1>6. Rest(e) = Rest(d) /\ e.spaces \in {d.spaces, Rest(d)}
  BY <1>1, <1>4 DEF Rest
<1> QED
  BY <1>1, <1>2, <1>4, <1>5, <1>6, AheadLaid

\* The character, and the row.
LEMMA ReadLaid ==
  ASSUME IInv, LaidInv, Watched, ReadChar \/ ReadRow \/ LoadX \/ LoadY
  PROVE  LaidNext
<1> DEFINE d == c0
           e == ctx'[Running]
           T == Text(Running)
<1>1. UNCHANGED <<buf, xPos, yPos, start, drawn>>
  BY DEF ReadChar, ReadRow, LoadX, LoadY, Step, pos
<1>2. \/ d.pc = "char" /\ e.pc = "row" /\ e.char = T[d.count + 1]
      \/ d.pc = "row" /\ e.pc = "draw" /\ e.char = d.char /\ e.row = yPos
      \/ d.pc = "load_x" /\ e.pc = "store_x" /\ e.reg = xPos
      \/ d.pc = "newline" /\ e.pc = "store_nl" /\ e.reg = yPos
      \/ d.pc = "full" /\ e.pc = "store_full" /\ e.reg = yPos
  <2>1. d.pc # "format"
    BY DEF ReadChar, ReadRow, LoadX, LoadY, At
  <2>2. d.pc = "char" => Next1 = T[d.count + 1]
    <3>1. d.pc = "char" => d.count < d.i
      BY WatchedCall DEF Progress
    <3> QED
      BY <3>1, BufferIs
  <2> QED
    BY <2>1, <2>2, ReadsDo DEF Becomes
<1>3. e.i = d.i /\ e.count = d.count /\ e.spaces = d.spaces
  BY <1>2, ReadsDo DEF Becomes
<1> HIDE DEF d, e, T
<1>4. ASSUME NEW A, Ahead(d, T, xPos, yPos, drawn[Running], A)
      PROVE  Ahead(e, T, xPos', yPos', drawn'[Running], A)
  BY <1>1, <1>2, <1>4 DEF Ahead
<1>5. Rest(e) = Rest(d) /\ e.spaces \in {d.spaces, Rest(d)}
      /\ d.pc \notin {"format", "loop"} /\ e.pc \notin {"format", "loop"}
  BY <1>2, <1>3 DEF Rest
<1> QED
  BY <1>1, <1>3, <1>4, <1>5, AheadLaid DEF d, e, T

\* The character is drawn in the cell of the cursor.
LEMMA DrawLaid ==
  ASSUME IInv, LaidInv, Watched, Draw
  PROVE  LaidNext
<1> DEFINE d == c0
           e == ctx'[Running]
           T == Text(Running)
           dr == drawn[Running]
           cell == [x |-> xPos * xCharSize, y |-> d.row * yCharSize, char |-> d.char]
<1>1. UNCHANGED <<buf, xPos, yPos, start>> /\ Running \in Contexts /\ DOMAIN drawn = Contexts
      /\ Has(Running)
  BY WatchedCall DEF Draw, pos, LaidInv
<1>2. d.pc = "draw" /\ Becomes(d, e, "load_x", {})
      /\ drawn' = [drawn EXCEPT ![Running] = Append(dr, cell)]
  BY <1>1, DrawDoes, DrawIsMapped
<1>3. drawn'[Running] = Append(dr, cell)
  BY <1>1, <1>2
<1>4. e.i = d.i /\ e.count = d.count /\ e.spaces = d.spaces /\ e.pc = "load_x"
  BY <1>2 DEF Becomes
<1>5. ASSUME NEW A, Ahead(d, T, xPos, yPos, dr, A)
      PROVE  Ahead(e, T, xPos', yPos', drawn'[Running], A)
  <2>1. d.row = yPos /\ A = Put(Pic(<<xPos, yPos>>, dr), d.char)
    BY <1>2, <1>5 DEF Ahead
  <2>2. cell = Cell(<<xPos, yPos>>, d.char)
    BY <2>1 DEF Cell
  <2> HIDE DEF cell, d, e, dr
  <2>3. A = Pic(After(<<xPos, yPos>>), Append(dr, cell))
    BY <2>1, <2>2 DEF Put, Pic
  <2> QED
    BY <1>1, <1>3, <1>4, <2>3 DEF Ahead
<1>6. Rest(e) = Rest(d) /\ e.spaces \in {d.spaces, Rest(d)}
  BY <1>2, <1>4 DEF Rest
<1> HIDE DEF cell
<1> QED
  BY <1>1, <1>2, <1>4, <1>5, <1>6, AheadLaid

\* The cursor moves on, and to the next line.
LEMMA StoreLaid ==
  ASSUME IInv, LaidInv, Watched, StoreX \/ StoreY \/ ZeroX
  PROVE  LaidNext
<1> DEFINE d == c0
           e == ctx'[Running]
           T == Text(Running)
           dr == drawn[Running]
<1>1. UNCHANGED <<buf, start, drawn>>
  BY DEF StoreX, StoreY, ZeroX, Step
<1>2. \/ d.pc = "store_x" /\ e.pc = "test_x" /\ xPos' = d.reg + 1 /\ yPos' = yPos
      \/ d.pc = "store_nl" /\ e.pc = "zero_nl" /\ yPos' = d.reg + 1 /\ xPos' = xPos
      \/ d.pc = "store_full" /\ e.pc = "zero_full" /\ yPos' = d.reg + 1 /\ xPos' = xPos
      \/ d.pc = "zero_nl" /\ e.pc = "test_x" /\ xPos' = 0 /\ yPos' = yPos
      \/ d.pc = "zero_full" /\ e.pc = "test_y" /\ xPos' = 0 /\ yPos' = yPos
  BY StoresDo DEF Becomes
<1>3. e.i = d.i /\ e.count = d.count /\ e.spaces = d.spaces
  BY StoresDo DEF Becomes
<1>4. xPos \in Nat /\ yPos \in Nat /\ Cols \in Nat /\ Cols > 1
  BY WatchedCall, Sizes
<1> HIDE DEF d, e, T, dr
<1>5. ASSUME NEW A, Ahead(d, T, xPos, yPos, dr, A)
      PROVE  Ahead(e, T, xPos', yPos', dr, A)
  <2>1. CASE d.pc = "store_x" /\ e.pc = "test_x" /\ xPos' = d.reg + 1 /\ yPos' = yPos
    <3>1. xPos' = xPos + 1 /\ A = Pic(After(<<xPos, yPos>>), dr)
      BY <1>5, <2>1 DEF Ahead
    <3>2. After(<<xPos, yPos>>) =
            IF xPos' < Cols THEN <<xPos', Wrapped(yPos)>> ELSE <<0, Wrapped(yPos + 1)>>
      BY <1>4, <3>1 DEF After
    <3> QED
      BY <2>1, <3>1, <3>2 DEF Ahead
  <2>2. CASE d.pc = "zero_nl" /\ e.pc = "test_x" /\ xPos' = 0 /\ yPos' = yPos
    <3>1. A = Pic(<<0, Wrapped(yPos)>>, dr)
      BY <1>5, <2>2 DEF Ahead
    <3>2. xPos' < Cols
      BY <1>4, <2>2
    <3> QED
      BY <2>2, <3>1, <3>2 DEF Ahead
  <2>3. CASE d.pc \notin {"store_x", "zero_nl"}
    BY <1>2, <1>5, <2>3 DEF Ahead
  <2> QED
    BY <1>2, <2>1, <2>2, <2>3
<1>6. Rest(e) = Rest(d) /\ e.spaces \in {d.spaces, Rest(d)}
      /\ d.pc \notin {"format", "loop"} /\ e.pc \notin {"format", "loop"}
  BY <1>2, <1>3 DEF Rest
<1>7. drawn'[Running] = dr
  BY <1>1 DEF dr
<1> QED
  BY <1>1, <1>3, <1>5, <1>6, <1>7, AheadLaid DEF d, e, T, dr

\* The end of a line.
LEMMA TestXLaid ==
  ASSUME IInv, LaidInv, Watched, TestX
  PROVE  LaidNext
<1> DEFINE d == c0
           e == ctx'[Running]
           T == Text(Running)
           dr == drawn[Running]
<1>1. UNCHANGED <<buf, xPos, yPos, start, drawn>>
  BY DEF TestX, Step, pos
<1>2. /\ d.pc = "test_x"
      /\ \/ e.pc = "full" /\ xPos >= Cols
         \/ e.pc = "test_y" /\ xPos < Cols
  <2>1. d.pc = "test_x"
    BY DEF TestX, At
  <2> QED
    BY <2>1, TestsDo DEF Becomes
<1>3. e.i = d.i /\ e.count = d.count /\ e.spaces = d.spaces
  BY <1>2, TestsDo DEF Becomes
<1>4. xPos \in Nat /\ yPos \in Nat /\ Cols \in Nat
  BY WatchedCall, Sizes
<1> HIDE DEF d, e, T, dr
<1>5. ASSUME NEW A, Ahead(d, T, xPos, yPos, dr, A)
      PROVE  Ahead(e, T, xPos', yPos', dr, A)
  <2>1. A = Pic(IF xPos < Cols THEN <<xPos, Wrapped(yPos)>> ELSE <<0, Wrapped(yPos + 1)>>, dr)
    BY <1>2, <1>5 DEF Ahead
  <2>2. CASE e.pc = "full" /\ xPos >= Cols
    <3>1. ~ (xPos < Cols)
      BY <1>4, <2>2
    <3> QED
      BY <1>1, <2>1, <2>2, <3>1 DEF Ahead
  <2>3. CASE e.pc = "test_y" /\ xPos < Cols
    BY <1>1, <2>1, <2>3 DEF Ahead
  <2> QED
    BY <1>2, <2>2, <2>3
<1>6. Rest(e) = Rest(d) /\ e.spaces \in {d.spaces, Rest(d)}
      /\ d.pc \notin {"format", "loop"} /\ e.pc \notin {"format", "loop"}
  BY <1>2, <1>3 DEF Rest
<1>7. drawn'[Running] = dr
  BY <1>1 DEF dr
<1> QED
  BY <1>1, <1>3, <1>5, <1>6, <1>7, AheadLaid DEF d, e, T, dr

\* The choice of the branch.
LEMMA BranchLaid ==
  ASSUME IInv, LaidInv, Watched, Branch
  PROVE  LaidNext
<1> DEFINE d == c0
           e == ctx'[Running]
           T == Text(Running)
           dr == drawn[Running]
           p == start[Running]
           n == d.count + 1
           s == LayoutTo(p, T, n - 1)
<1>1. UNCHANGED <<buf, xPos, yPos, start, drawn>>
  BY DEF Branch, Step, pos
<1>2. d.pc = "loop" /\ d.spaces = 0 /\ d.count < d.i
  BY BranchDoes
<1>3. /\ Next1 = T[n] /\ Next1 # "BS" /\ n \in 1 .. Len(T) /\ d.i = Len(T) /\ p \in Nat \X Nat
  BY <1>2, BufferIs
<1>4. LaidNow /\ T \in Seq(STRING) /\ xPos \in Nat /\ yPos \in Nat /\ d.count \in Nat /\ n - 1 = d.count
  BY WatchedCall
<1>5. s = Pic(<<xPos, yPos>>, dr) /\ \A j \in 1 .. d.i : buf[j] = T[j]
  <2>1. Pic(<<xPos, yPos>>, dr) = ReachedTo(p, T, d.count, d.spaces) /\ \A j \in 1 .. d.i : buf[j] = T[j]
    BY <1>2, <1>4 DEF LaidNow, Laid
  <2>2. ReachedTo(p, T, d.count, 0) = LayoutTo(p, T, d.count)
    BY DEF ReachedTo
  <2> HIDE DEF d, T, p, dr
  <2> QED
    BY <1>2, <1>4, <2>1, <2>2
<1>6. \/ T[n] = "NL" /\ e.pc = "newline" /\ e.spaces = 0
      \/ T[n] = "TAB" /\ e.pc = "blank" /\ e.spaces = TabStop(xPos)
      \/ T[n] \notin {"NL", "TAB"} /\ e.pc = "char" /\ e.spaces = 0
  BY <1>2, <1>3, BranchDoes DEF Becomes
<1>7. e.i = d.i /\ e.count = d.count
  BY BranchDoes DEF Becomes
<1> HIDE DEF d, e, T, dr, p
<1>8. TabLeft(p, T, e.count + 1, e.spaces)
      /\ Ahead(e, T, xPos, yPos, dr, ReachedTo(p, T, e.count + 1, Rest(e)))
  <2>1. e.count + 1 = n
    BY <1>7
  <2> HIDE DEF n
  <2>2. /\ T[n] = "NL" => ReachedTo(p, T, n, 0) = [s EXCEPT !.pos = <<0, Wrapped(s.pos[2] + 1)>>]
        /\ T[n] \notin {"NL", "TAB"} => ReachedTo(p, T, n, 0) = Put(s, T[n])
    BY <1>3, <1>4, NextChar
  <2>3. s.pos = <<xPos, yPos>> /\ s.cells = dr
    BY <1>5 DEF Pic
  <2> HIDE DEF s
  <2>4. CASE T[n] = "NL" /\ e.pc = "newline" /\ e.spaces = 0
    <3>1. [s EXCEPT !.pos = <<0, Wrapped(yPos + 1)>>] = Pic(<<0, Wrapped(yPos + 1)>>, dr)
      BY <1>5 DEF Pic
    <3>2. s.pos[2] = yPos
      BY <2>3
    <3>3. ReachedTo(p, T, n, 0) = Pic(<<0, Wrapped(yPos + 1)>>, dr)
      BY <2>2, <2>4, <3>1, <3>2
    <3> QED
      BY <2>1, <2>4, <3>3 DEF Ahead, Rest, TabLeft
  <2>5. CASE T[n] = "TAB" /\ e.pc = "blank" /\ e.spaces = TabStop(xPos)
    <3>1. /\ TabLeft(p, T, n, ToTab(s))
          /\ Blank(s) = ReachedTo(p, T, n, ToTab(s) - 1)
      BY <1>3, <1>4, <2>5, FirstBlank DEF s
    <3>2. ToTab(s) = e.spaces
      BY <2>3, <2>5 DEF ToTab, TabStop
    <3> QED
      BY <1>5, <2>1, <2>5, <3>1, <3>2 DEF Ahead, Rest
  <2>6. CASE T[n] \notin {"NL", "TAB"} /\ e.pc = "char" /\ e.spaces = 0
    <3>1. ReachedTo(p, T, n, 0) = Put(Pic(<<xPos, yPos>>, dr), T[n])
      BY <1>5, <2>2, <2>6
    <3> QED
      BY <2>1, <2>6, <3>1 DEF Ahead, Rest, TabLeft
  <2> QED
    BY <1>6, <2>4, <2>5, <2>6
<1>9. e.pc \notin {"format", "loop"}
  BY <1>6
<1> HIDE DEF n, s
<1>10. Laid(e, T, p, buf, xPos, yPos, dr)
  BY <1>3, <1>5, <1>7, <1>8, <1>9 DEF Laid
<1> QED
  BY <1>1, <1>10 DEF LaidNext, e, T, p, dr

\* The next blank of a tab.
LEMMA MoreSpacesLaid ==
  ASSUME IInv, LaidInv, Watched, MoreSpaces
  PROVE  LaidNext
<1> DEFINE d == c0
           e == ctx'[Running]
           T == Text(Running)
           dr == drawn[Running]
           p == start[Running]
           n == d.count
           l == d.spaces
<1>1. UNCHANGED <<buf, xPos, yPos, start, drawn>>
  BY DEF MoreSpaces, Step, pos
<1>2. d.pc = "loop" /\ l > 0 /\ e.pc = "blank" /\ e.i = d.i /\ e.spaces = l /\ e.count = n - 1
  <2>1. d.pc = "loop"
    BY DEF MoreSpaces, At
  <2> QED
    BY <2>1, SpacesDo DEF Becomes
<1>3. LaidNow /\ T \in Seq(STRING) /\ n \in Nat /\ l \in Nat /\ Progress(Running) /\ d = ctx[Running]
      /\ d.i \in Nat
  BY WatchedCall
<1>4. n > 0 /\ n <= d.i
  BY <1>2, <1>3 DEF Progress
<1>5. /\ \A j \in 1 .. d.i : buf[j] = T[j]
      /\ d.i = Len(T) /\ p \in Nat \X Nat
      /\ TabLeft(p, T, n, l)
      /\ Pic(<<xPos, yPos>>, dr) = ReachedTo(p, T, n, l)
  BY <1>2, <1>3 DEF LaidNow, Laid
<1> HIDE DEF d, e, T, dr, p, n, l
<1>6. n \in 1 .. Len(T) /\ l \in Nat \ {0} /\ e.count + 1 = n
  BY <1>2, <1>3, <1>4, <1>5
<1>7. Blank(Pic(<<xPos, yPos>>, dr)) = ReachedTo(p, T, n, l - 1)
  <2>1. Blank(ReachedTo(p, T, n, l)) = ReachedTo(p, T, n, l - 1)
    BY <1>3, <1>5, <1>6, NextBlank
  <2> QED
    BY <1>5, <2>1
<1>8. Ahead(e, T, xPos, yPos, dr, ReachedTo(p, T, e.count + 1, Rest(e)))
  BY <1>2, <1>6, <1>7 DEF Ahead, Rest
<1>9. Laid(e, T, p, buf, xPos, yPos, dr)
  BY <1>2, <1>5, <1>6, <1>8 DEF Laid
<1> QED
  BY <1>1, <1>9 DEF LaidNext, e, T, p, dr

\* The character has been dealt with: count goes on.
LEMMA AgainLaid ==
  ASSUME IInv, LaidInv, Watched, TestY \/ ZeroY, ctx'[Running].pc = "loop"
  PROVE  LaidNext
<1> DEFINE d == c0
           e == ctx'[Running]
           T == Text(Running)
           dr == drawn[Running]
           p == start[Running]
           n == d.count + 1
           l == d.spaces
<1>1. UNCHANGED <<buf, start, drawn>>
  BY DEF TestY, ZeroY, Step
<1>2. /\ \/ d.pc = "test_y" /\ yPos < Rows /\ xPos' = xPos /\ yPos' = yPos
         \/ d.pc = "zero_y" /\ xPos' = xPos /\ yPos' = 0
      /\ e.pc = "loop" /\ e.i = d.i /\ e.spaces = l /\ e.count = n
  <2>1. d.pc \in {"test_y", "zero_y"}
    BY DEF TestY, ZeroY, At
  <2> QED
    BY <2>1, TestsDo DEF Becomes, pos
<1>3. LaidNow
  BY WatchedCall
<1>4. /\ \A j \in 1 .. d.i : buf[j] = T[j]
      /\ d.i = Len(T) /\ p \in Nat \X Nat
      /\ TabLeft(p, T, n, l)
      /\ Ahead(d, T, xPos, yPos, dr, ReachedTo(p, T, n, Rest(d)))
  BY <1>2, <1>3 DEF LaidNow, Laid
<1>5. Rest(d) = l
  BY <1>2 DEF Rest
<1> HIDE DEF d, e, T, dr, p, n, l
<1>6. ReachedTo(p, T, n, l) = Pic(<<xPos', yPos'>>, dr)
  BY <1>2, <1>4, <1>5 DEF Ahead, Wrapped
<1>7. Laid(e, T, p, buf, xPos', yPos', dr)
  BY <1>2, <1>4, <1>6 DEF Laid
<1> QED
  BY <1>1, <1>7 DEF LaidNext, e, T, p, dr

\* The end of the screen.
LEMMA TestYLaid ==
  ASSUME IInv, LaidInv, Watched, TestY \/ ZeroY
  PROVE  LaidNext
<1> DEFINE d == c0
           e == ctx'[Running]
           T == Text(Running)
           dr == drawn[Running]
<1>1. CASE e.pc = "loop"
  BY <1>1, AgainLaid
<1>2. CASE e.pc # "loop"
  <2>1. d.pc = "test_y" /\ yPos >= Rows /\ Becomes(d, e, "zero_y", {})
        /\ xPos' = xPos /\ yPos' = yPos /\ buf' = buf
    <3>1. d.pc \in {"test_y", "zero_y"}
      BY DEF TestY, ZeroY, At
    <3> QED
      BY <1>2, <3>1, TestsDo DEF Becomes, pos
  <2>2. UNCHANGED <<start, drawn>>
    BY DEF TestY, ZeroY, Step
  <2>3. e.i = d.i /\ e.count = d.count /\ e.spaces = d.spaces /\ e.pc = "zero_y"
    BY <2>1 DEF Becomes
  <2>4. Wrapped(yPos) = 0
    <3>1. yPos \in Nat /\ Rows \in Nat
      BY WatchedCall, Sizes
    <3> QED
      BY <2>1, <3>1 DEF Wrapped
  <2> HIDE DEF d, e, T, dr
  <2>5. ASSUME NEW A, Ahead(d, T, xPos, yPos, dr, A)
        PROVE  Ahead(e, T, xPos', yPos', dr, A)
    BY <2>1, <2>3, <2>4, <2>5 DEF Ahead
  <2>6. Rest(e) = Rest(d) /\ e.spaces \in {d.spaces, Rest(d)}
        /\ d.pc \notin {"format", "loop"} /\ e.pc \notin {"format", "loop"}
    BY <2>1, <2>3 DEF Rest
  <2>7. drawn'[Running] = dr
    BY <2>2 DEF dr
  <2> QED
    BY <2>1, <2>2, <2>3, <2>5, <2>6, <2>7, AheadLaid DEF d, e, T, dr
<1> QED
  BY <1>1, <1>2

\* A step inside a call that is watched.
LEMMA InsideLaid ==
  ASSUME IInv, LaidInv, Inside
  PROVE  LaidInv'
<1>1. UNCHANGED <<todo, irqs, Running>> /\ Running \in Contexts /\ Text(Running)' = Text(Running)
      /\ Running' = Running
  BY InsideFrame
<1>2. mixed' = mixed
  BY DEF Inside, Format, FormatEnd, Branch, MoreSpaces, ReadBlank, ReadChar, ReadRow, Draw,
         LoadX, StoreX, LoadY, StoreY, ZeroX, Backspace, TestX, TestY, ZeroY, Step
<1>3. DOMAIN start' = Contexts /\ DOMAIN drawn' = Contexts
  BY DEF Inside, Format, FormatEnd, Branch, MoreSpaces, ReadBlank, ReadChar, ReadRow, Draw, Drawn,
         LoadX, StoreX, LoadY, StoreY, ZeroX, Backspace, TestX, TestY, ZeroY, Step, LaidInv
<1>4. Watched' <=> Watched
  BY <1>1, <1>2 DEF Watched
<1>5. ASSUME Watched
      PROVE  ~ Backspace
  <2>1. Clean(Running) /\ Quiet(Running) /\ c0 = ctx[Running]
    BY <1>5, WatchedCall
  <2>2. c0.pc # "backspace"
    BY <2>1 DEF Clean
  <2> QED
    BY <2>2 DEF Backspace, At
<1>6. ASSUME Watched
      PROVE  LaidNext
  BY <1>5, <1>6, FormatLaid, FormatEndLaid, BranchLaid, MoreSpacesLaid, ReadBlankLaid, ReadLaid,
     DrawLaid, StoreLaid, TestXLaid, TestYLaid DEF Inside
<1>7. LaidNext => LaidNow'
  BY <1>1 DEF LaidNext, LaidNow, c0
<1> QED
  BY <1>1, <1>2, <1>3, <1>4, <1>6, <1>7 DEF LaidInv

\* A call that has not begun has its text before it.
LEMMA IdleLaid ==
  ASSUME c0 = Idle
  PROVE  LaidNow
<1>1. \A j \in 1 .. 0 : FALSE
  OBVIOUS
<1>2. c0.pc = "format" /\ c0.i = 0
  BY IdleIs
<1> QED
  BY <1>1, <1>2 DEF LaidNow, Laid

\* Every step keeps it: a return and a key start a call that is idle.
LEMMA LaidStep ==
  ASSUME IInv, LaidInv, [Next]_vars
  PROVE  LaidInv'
<1>1. Typed /\ Turns /\ DOMAIN ctx = Contexts
  BY DEF IInv, Typed
<1>2. DOMAIN start = Contexts /\ DOMAIN drawn = Contexts /\ (irqs # <<>> => mixed)
  BY DEF LaidInv
<1>3. CASE Inside
  BY <1>3, InsideLaid
<1>4. CASE MainReturns
  <2>1. irqs = <<>> /\ irqs' = <<>> /\ ctx' = [ctx EXCEPT !["main"] = Idle] /\ UNCHANGED <<start, drawn>>
    BY <1>4 DEF MainReturns, Running, Reset
  <2>2. c0' = Idle
    BY <1>1, <2>1 DEF c0, Running, Contexts
  <2>3. (c0 = Idle)' => LaidNow'
    BY IdleLaid, PTL
  <2> QED
    BY <1>2, <2>1, <2>2, <2>3 DEF LaidInv
<1>5. CASE IrqReturns
  <2>1. irqs # <<>> /\ ctx' = [ctx EXCEPT !["irq"] = Idle] /\ UNCHANGED <<start, drawn, mixed>>
    BY <1>5 DEF IrqReturns, Running, Reset
  <2>2. mixed' /\ (Watched' => irqs' # <<>>)
    BY <1>2, <2>1 DEF Watched
  <2>3. irqs' # <<>> => c0' = Idle
    BY <1>1, <2>1 DEF c0, Running, Contexts
  <2>4. (c0 = Idle)' => LaidNow'
    BY IdleLaid, PTL
  <2> QED
    BY <1>2, <2>1, <2>2, <2>3, <2>4 DEF LaidInv
<1>6. CASE Key
  <2>1. irqs = <<>> /\ irqs' = IrqTexts /\ mixed' /\ UNCHANGED <<ctx, start, drawn>>
    BY <1>6 DEF Key, Running
  <2>2. irqs' # <<>>
    BY <1>6, KeyIs
  <2>3. c0' = Idle
    BY <1>1, <2>1, <2>2 DEF c0, Running, Turns
  <2>4. (c0 = Idle)' => LaidNow'
    BY IdleLaid, PTL
  <2> QED
    BY <1>2, <2>1, <2>2, <2>3, <2>4 DEF LaidInv
<1>7. CASE UNCHANGED vars
  BY <1>7 DEF vars, pos, LaidInv, Watched, LaidNow, c0, Running, Text
<1>8. CASE Iretq
  BY <1>2, <1>8, IretqIs DEF LaidInv, Watched, LaidNow, c0, Running
<1> QED
  BY <1>3, <1>4, <1>5, <1>6, <1>7, <1>8, Steps

\* At first no call has begun.
LEMMA LaidInit ==
  ASSUME Init
  PROVE  LaidInv
<1>1. c0 = Idle
  BY DEF Init, c0, Running, Contexts
<1>2. LaidNow
  BY <1>1, IdleLaid
<1> QED
  BY <1>2 DEF Init, LaidInv

\* The text of a call that goes on to return is all drawn.
LEMMA LaidWhole ==
  ASSUME IInv, LaidInv, Watched, c0.pc = "loop", ~ More
  PROVE  LET l == Layout(start[Running], Text(Running))
         IN drawn[Running] = l.cells /\ pos = l.pos
<1> DEFINE T == Text(Running)
           p == start[Running]
           l == Layout(p, T)
<1>1. LaidNow /\ Progress(Running) /\ c0 = ctx[Running]
      /\ c0.i \in Nat /\ c0.count \in Nat /\ c0.spaces \in Nat
  BY WatchedCall
<1>2. c0.count = c0.i /\ c0.spaces = 0
  <2>1. c0.count <= c0.i
    BY <1>1 DEF Progress
  <2> QED
    BY <1>1, <2>1 DEF More
<1>3. c0.i = Len(T) /\ Pic(<<xPos, yPos>>, drawn[Running]) = ReachedTo(p, T, c0.count, c0.spaces)
  BY <1>1 DEF LaidNow, Laid
<1>4. ReachedTo(p, T, c0.count, 0) = LayoutTo(p, T, c0.count)
  BY DEF ReachedTo
<1> HIDE DEF T, p
<1>5. Pic(<<xPos, yPos>>, drawn[Running]) = l
  BY <1>2, <1>3, <1>4 DEF Layout
<1> QED
  BY <1>5 DEF Pic, pos, T, p

\* What a call draws is its text, each character in the next cell of the
\* screen, a tab as blanks up to its stop, whatever the sizes, the texts and
\* the keys: buf, Pos and spaces of color_printk are right for do_IRQ's calls
\* always, and for Start_Kernel's unless a key came between.
THEOREM TextsLaidOut == Spec => []LaidOut
<1>1. Init => LaidInv
  BY LaidInit
<1>2. IInv /\ LaidInv /\ [Next]_vars => LaidInv'
  BY LaidStep
<1>3. IInv /\ LaidInv => LaidOut
  <2> SUFFICES ASSUME IInv, LaidInv
               PROVE  LaidOut
    OBVIOUS
  <2>1. ASSUME Watched, At("loop"), ~ More
        PROVE  LET l == Layout(start[Running], Text(Running))
               IN drawn[Running] = l.cells /\ pos = l.pos
    <3>1. c0.pc = "loop"
      BY <2>1 DEF At
    <3> QED
      BY <2>1, <3>1, LaidWhole
  <2>2. /\ Running = "irq" => Watched
        /\ Running = "main" /\ todo # <<>> /\ ~ mixed /\ ~ HasBackspace(Text("main")) => Watched
    BY DEF Running, Watched, Text
  <2> QED
    BY <2>1, <2>2 DEF LaidOut
<1>4. Spec => []IInv
  BY Invariance
<1> QED
  BY <1>1, <1>2, <1>3, <1>4, PTL DEF Spec

-----------------------------------------------------------------------------
(* Powers and numerals *)

\* Power is the one function that its recursion describes.
LEMMA PowerIs ==
  ASSUME NEW b \in Nat, NEW N \in Nat, NEW c \in [0 .. N -> Nat], c[0] = 1,
         \A k \in 1 .. N : c[k] = b * c[k - 1],
         NEW n \in 0 .. N
  PROVE  Power(b, n) = c[n]
<1> DEFINE Sol(e) == e = [i \in 0 .. n |-> IF i = 0 THEN 1 ELSE b * e[i - 1]]
           d == [i \in 0 .. n |-> c[i]]
<1>1. Sol(d)
  <2>1. ASSUME NEW i \in 0 .. n PROVE d[i] = IF i = 0 THEN 1 ELSE b * d[i - 1]
    <3>1. CASE i = 0
      BY <3>1
    <3>2. CASE i # 0
      <4>1. i \in 1 .. N /\ i - 1 \in 0 .. n
        BY <3>2
      <4> QED
        BY <3>2, <4>1
    <3> QED
      BY <3>1, <3>2
  <2> DEFINE g == [i \in 0 .. n |-> IF i = 0 THEN 1 ELSE b * d[i - 1]]
  <2>2. d = g
    BY <2>1
  <2> HIDE DEF d
  <2> QED
    BY <2>2
<1>2. Sol(CHOOSE e : Sol(e))
  <2> HIDE DEF d, Sol
  <2> QED
    BY <1>1
<1>3. Power(b, n) = (CHOOSE e : Sol(e))[n]
  BY DEF Power
<1>4. PICK e : Sol(e) /\ Power(b, n) = e[n]
  <2> HIDE DEF Sol
  <2> QED
    BY <1>2, <1>3
<1>5. ASSUME NEW i \in 0 .. n PROVE e[i] = IF i = 0 THEN 1 ELSE b * e[i - 1]
  <2>1. e[i] = [j \in 0 .. n |-> IF j = 0 THEN 1 ELSE b * e[j - 1]][i]
    BY <1>4
  <2> QED
    BY <2>1
<1> HIDE DEF Sol, d
<1> DEFINE H == {i \in Nat : i <= n => e[i] = c[i]}
<1>6. 0 \in H
  BY <1>5
<1>7. ASSUME NEW i \in Nat, i \in H
      PROVE  i + 1 \in H
  <2> SUFFICES ASSUME i + 1 <= n PROVE e[i + 1] = c[i + 1]
    OBVIOUS
  <2>1. i + 1 \in 0 .. n /\ i + 1 \in 1 .. N /\ i + 1 # 0 /\ i + 1 - 1 = i /\ e[i] = c[i]
    BY <1>7
  <2>2. e[i + 1] = b * e[i]
    BY <1>5, <2>1
  <2>3. c[i + 1] = b * c[i]
    BY <2>1
  <2> QED
    BY <2>1, <2>2, <2>3
<1>8. Nat \subseteq H
  <2> HIDE DEF H
  <2> QED
    BY <1>6, <1>7, SetInduction
<1> QED
  BY <1>4, <1>8

\* The recursion of Power.
LEMMA PowerSteps ==
  ASSUME NEW b \in Nat
  PROVE  /\ Power(b, 0) = 1
         /\ \A n \in Nat : Power(b, n) \in Nat /\ Power(b, n + 1) = b * Power(b, n)
<1> SUFFICES ASSUME NEW n \in Nat
             PROVE  Power(b, 0) = 1 /\ Power(b, n) \in Nat /\ Power(b, n + 1) = b * Power(b, n)
  OBVIOUS
<1> DEFINE N == n + 1
           G == [p \in (0 .. N) \X Nat |-> b * p[2]]
<1>1. G \in [(0 .. N) \X Nat -> Nat] /\ N \in Nat
  OBVIOUS
<1>2. PICK c \in [0 .. N -> Nat] : Recurs(c, 0, N, 1, G)
  <2>1. 0 \in Int /\ N \in Int /\ 0 <= N /\ 1 \in Nat
    BY <1>1
  <2> HIDE DEF N, G
  <2> QED
    BY <1>1, <2>1, Recurrence
<1>3. ASSUME NEW k \in 1 .. N PROVE c[k] = b * c[k - 1]
  <2>1. <<k, c[k - 1]>> \in (0 .. N) \X Nat /\ k # 0 /\ k \in 0 .. N
    BY <1>1
  <2>2. c[k] = G[<<k, c[k - 1]>>]
    BY <1>2, <2>1 DEF Recurs
  <2>3. G[<<k, c[k - 1]>>] = b * c[k - 1]
    BY <2>1
  <2> QED
    BY <2>2, <2>3
<1>4. c[0] = 1
  BY <1>2 DEF Recurs
<1>5. \A k \in 0 .. N : Power(b, k) = c[k]
  <2> HIDE DEF N, G
  <2> QED
    BY <1>1, <1>3, <1>4, PowerIs
<1>6. 0 \in 0 .. N /\ n \in 0 .. N /\ n + 1 \in 0 .. N /\ n + 1 \in 1 .. N /\ n + 1 - 1 = n
  OBVIOUS
<1> HIDE DEF N, G
<1> QED
  BY <1>3, <1>4, <1>5, <1>6

\* A power of a base is greater than its exponent, and grows with it.
LEMMA PowerBounds ==
  ASSUME NEW b \in Nat \ {0, 1}
  PROVE  /\ \A n \in Nat : Power(b, n) > n /\ Power(b, n) \in Nat \ {0}
         /\ \A m, n \in Nat : m <= n => Power(b, m) <= Power(b, n)
<1>0. b \in Nat /\ Power(b, 0) = 1 /\
      \A n \in Nat : Power(b, n) \in Nat /\ Power(b, n + 1) = b * Power(b, n)
  BY PowerSteps
<1> DEFINE P(n) == Power(b, n)
<1> HIDE DEF P
<1>1. ASSUME NEW x \in Nat, NEW y, y = b * x PROVE y >= 2 * x /\ y \in Nat
  <2>1. (b - 2) * x >= 0
    OBVIOUS
  <2>2. b * x = 2 * x + (b - 2) * x
    OBVIOUS
  <2> QED
    BY <1>1, <2>1, <2>2
<1>2. \A n \in Nat : Power(b, n) > n
  <2> DEFINE H == {n \in Nat : Power(b, n) > n}
  <2>1. 0 \in H
    BY <1>0
  <2>2. ASSUME NEW n \in Nat, n \in H PROVE n + 1 \in H
    <3> DEFINE x == Power(b, n)
               y == Power(b, n + 1)
    <3>1. x \in Nat /\ y = b * x /\ x > n
      BY <1>0, <2>2
    <3> HIDE DEF x, y
    <3>2. y >= 2 * x /\ y \in Nat
      BY <1>1, <3>1
    <3>3. y > n + 1
      BY <3>1, <3>2
    <3> QED
      BY <3>3 DEF y
  <2>3. Nat \subseteq H
    <3> HIDE DEF H
    <3> QED
      BY <2>1, <2>2, SetInduction
  <2> QED
    BY <2>3
<1>3. ASSUME NEW m \in Nat, NEW n \in Nat, m <= n PROVE Power(b, m) <= Power(b, n)
  <2> DEFINE H == {k \in Nat : Power(b, m) <= Power(b, m + k)}
  <2>1. 0 \in H
    BY <1>0
  <2>2. ASSUME NEW k \in Nat, k \in H PROVE k + 1 \in H
    <3> DEFINE x == Power(b, m + k)
               y == Power(b, m + k + 1)
               z == Power(b, m)
    <3>1. x \in Nat /\ y = b * x /\ z <= x /\ z \in Nat
      BY <1>0, <2>2
    <3>2. m + k + 1 = m + (k + 1)
      OBVIOUS
    <3> HIDE DEF x, y, z
    <3>3. y >= 2 * x /\ y \in Nat
      BY <1>1, <3>1
    <3>4. z <= y
      BY <3>1, <3>3
    <3> QED
      BY <3>2, <3>4 DEF y, z
  <2>3. Nat \subseteq H
    <3> HIDE DEF H
    <3> QED
      BY <2>1, <2>2, SetInduction
  <2>4. n - m \in H /\ m + (n - m) = n
    BY <1>3, <2>3
  <2> QED
    BY <2>4
<1>4. \A n \in Nat : Power(b, n) \in Nat \ {0}
  BY <1>0, <1>2
<1> QED
  BY <1>2, <1>3, <1>4

\* Dividing twice.
LEMMA DivDiv ==
  ASSUME NEW n \in Nat, NEW b \in Nat \ {0}, NEW p \in Nat \ {0}
  PROVE  (n \div b) \div p = n \div (b * p)
<1> DEFINE q == n \div b
           r == n % b
           s == q \div p
           t == q % p
<1>1. q \in Nat /\ r \in Nat /\ r <= b - 1 /\ n = b * q + r
  OBVIOUS
<1>2. s \in Nat /\ t \in Nat /\ t <= p - 1 /\ q = p * s + t
  <2> HIDE DEF q, r
  <2> QED
    BY <1>1
<1> HIDE DEF q, r, s, t
<1> DEFINE w == b * t + r
           d == b * p
<1>3. d \in Nat \ {0}
  OBVIOUS
<1>4. w \in Nat
  BY <1>1, <1>2
<1>5. w < d
  <2>1. b * t <= b * (p - 1)
    <3>1. b * (p - 1 - t) >= 0
      BY <1>2
    <3>2. b * (p - 1 - t) = b * (p - 1) - b * t
      BY <1>2
    <3> QED
      BY <3>1, <3>2, <1>2
  <2>2. b * (p - 1) = b * p - b
    OBVIOUS
  <2> QED
    BY <1>1, <1>2, <2>1, <2>2
<1>6. n = s * d + w
  <2>1. b * q = b * (p * s) + b * t
    BY <1>2
  <2>2. b * (p * s) = s * (b * p)
    BY <1>2
  <2> QED
    BY <1>1, <1>2, <2>1, <2>2
<1> HIDE DEF w, d
<1>7. n \div d = s
  BY <1>2, <1>3, <1>4, <1>5, <1>6, DivUnique
<1> QED
  BY <1>7 DEF s, q, d

\* k is the number of digits of n.
IsLen(n, b, k) == n < Power(b, k) /\ (k = 1 \/ Power(b, k - 1) <= n)
LenOf(n, b) == CHOOSE k \in 1 .. n + 1 : IsLen(n, b, k)

\* Numeral, with its number of digits named.
LEMMA NumeralDef ==
  ASSUME NEW n, NEW b, NEW digits
  PROVE  Numeral(n, b, digits) =
           [j \in 1 .. LenOf(n, b) |-> digits[((n \div Power(b, LenOf(n, b) - j)) % b) + 1]]
BY DEF Numeral, LenOf, IsLen

\* A number has exactly one number of digits.
LEMMA LenExists ==
  ASSUME NEW n \in Nat, NEW b \in Nat \ {0, 1}
  PROVE  /\ LenOf(n, b) \in 1 .. n + 1 /\ IsLen(n, b, LenOf(n, b))
         /\ \A k \in Nat \ {0} : IsLen(n, b, k) => k = LenOf(n, b)
<1> DEFINE T == {k \in Nat : k >= 1 /\ n < Power(b, k)}
<1>0. /\ \A m \in Nat : Power(b, m) > m /\ Power(b, m) \in Nat \ {0}
      /\ \A m, l \in Nat : m <= l => Power(b, m) <= Power(b, l)
  BY PowerBounds
<1>1. n + 1 \in T
  <2>1. n + 1 \in Nat /\ n + 1 >= 1
    OBVIOUS
  <2>2. Power(b, n + 1) > n + 1 /\ Power(b, n + 1) \in Nat
    BY <1>0, <2>1
  <2> DEFINE x == Power(b, n + 1)
  <2> HIDE DEF x
  <2>3. n < x
    BY <2>2 DEF x
  <2> QED
    BY <2>1, <2>3 DEF x
<1>2. PICK k \in T : \A l \in T : k <= l
  <2>1. T \in SUBSET Nat /\ T # {}
    BY <1>1
  <2> HIDE DEF T
  <2> QED
    BY <2>1, LeastNatural
<1>3. k \in 1 .. n + 1 /\ n < Power(b, k)
  BY <1>1, <1>2
<1>4. k = 1 \/ Power(b, k - 1) <= n
  <2> SUFFICES ASSUME k # 1 PROVE Power(b, k - 1) <= n
    OBVIOUS
  <2>1. k - 1 \in Nat /\ k - 1 >= 1
    BY <1>3
  <2>2. Power(b, k - 1) \in Nat
    BY <1>0, <2>1
  <2>3. ~ (k - 1 \in T)
    <3> HIDE DEF T
    <3> QED
      BY <1>2, <1>3
  <2>4. ~ (n < Power(b, k - 1))
    BY <2>1, <2>3
  <2> QED
    BY <2>2, <2>4
<1>5. IsLen(n, b, k)
  BY <1>3, <1>4 DEF IsLen
<1>6. LenOf(n, b) \in 1 .. n + 1 /\ IsLen(n, b, LenOf(n, b))
  BY <1>3, <1>5 DEF LenOf
<1>7. ASSUME NEW l \in Nat \ {0}, NEW m \in Nat \ {0}, IsLen(n, b, l), IsLen(n, b, m), l < m
      PROVE  FALSE
  <2>1. l <= m - 1 /\ m - 1 \in Nat /\ l \in Nat /\ m # 1
    BY <1>7
  <2>2. Power(b, l) <= Power(b, m - 1) /\ Power(b, l) \in Nat /\ Power(b, m - 1) \in Nat
    BY <1>0, <2>1
  <2>3. n < Power(b, l) /\ Power(b, m - 1) <= n
    BY <1>7, <2>1 DEF IsLen
  <2> QED
    BY <2>2, <2>3
<1>8. ASSUME NEW l \in Nat \ {0}, IsLen(n, b, l) PROVE l = LenOf(n, b)
  <2>1. LenOf(n, b) \in Nat \ {0}
    BY <1>6
  <2> DEFINE m == LenOf(n, b)
  <2> HIDE DEF m
  <2>2. ~ (l < m) /\ ~ (m < l)
    BY <1>6, <1>7, <1>8, <2>1 DEF m
  <2>3. m \in Nat
    BY <2>1 DEF m
  <2>4. l = m
    BY <2>2, <2>3
  <2> QED
    BY <2>4 DEF m
<1> QED
  BY <1>6, <1>8

\* The digits of n: those of n div b, and the last one.
LEMMA NumeralStep ==
  ASSUME NEW n \in Nat, NEW b \in Nat \ {0, 1}, NEW V, NEW digits,
         \A j \in 1 .. b : digits[j] \in V
  PROVE  /\ n < b => Numeral(n, b, digits) = <<digits[n + 1]>>
         /\ Numeral(n, b, digits) \in Seq(V)
         /\ n >= b => Numeral(n, b, digits) =
                        Append(Numeral(n \div b, b, digits), digits[(n % b) + 1])
<1>0. /\ b \in Nat /\ Power(b, 0) = 1
      /\ \A m \in Nat : Power(b, m) \in Nat \ {0} /\ Power(b, m + 1) = b * Power(b, m)
  BY PowerSteps, PowerBounds
<1>1. ASSUME NEW x \in Nat PROVE digits[(x % b) + 1] \in V
  <2>1. (x % b) + 1 \in 1 .. b
    OBVIOUS
  <2> QED
    BY <2>1
<1>2. Power(b, 1) = b
  <2>1. Power(b, 0 + 1) = b * Power(b, 0)
    BY <1>0
  <2> QED
    BY <1>0, <2>1
<1> DEFINE len == LenOf(n, b)
           Digit(j) == digits[((n \div Power(b, len - j)) % b) + 1]
<1>3. len \in 1 .. n + 1 /\ IsLen(n, b, len) /\ \A k \in Nat \ {0} : IsLen(n, b, k) => k = len
  BY LenExists
<1>4. Numeral(n, b, digits) = [j \in 1 .. len |-> Digit(j)]
  BY NumeralDef
<1> HIDE DEF len
<1>5. ASSUME NEW j \in 1 .. len PROVE Digit(j) \in V
  <2>1. len - j \in Nat
    BY <1>3
  <2>2. Power(b, len - j) \in Nat \ {0}
    BY <1>0, <2>1
  <2> DEFINE p == Power(b, len - j)
  <2> HIDE DEF p
  <2>3. n \div p \in Nat
    BY <2>2 DEF p
  <2> QED
    BY <1>1, <2>3 DEF p
<1>6. Numeral(n, b, digits) \in Seq(V)
  <2>1. len \in Nat
    BY <1>3
  <2> HIDE DEF Digit
  <2>2. [j \in 1 .. len |-> Digit(j)] \in [1 .. len -> V]
    BY <1>5
  <2> QED
    BY <1>4, <2>1, <2>2, SeqDef
<1>7. ASSUME n < b PROVE Numeral(n, b, digits) = <<digits[n + 1]>>
  <2>1. IsLen(n, b, 1)
    BY <1>2, <1>7 DEF IsLen
  <2>2. len = 1
    BY <1>3, <2>1
  <2>3. Digit(1) = digits[n + 1]
    <3>1. Power(b, len - 1) = 1
      BY <1>0, <2>2
    <3>2. n \div 1 = n /\ n % b = n
      BY <1>7
    <3> QED
      BY <3>1, <3>2
  <2>4. \A j \in 1 .. len : Digit(j) = digits[n + 1]
    <3> HIDE DEF Digit
    <3>1. \A j \in 1 .. len : j = 1
      BY <2>2
    <3> QED
      BY <2>3, <3>1
  <2> HIDE DEF Digit
  <2>5. [j \in 1 .. len |-> Digit(j)] = [j \in 1 .. 1 |-> digits[n + 1]]
    BY <2>2, <2>4
  <2>6. <<digits[n + 1]>> = [j \in 1 .. 1 |-> digits[n + 1]]
    OBVIOUS
  <2> QED
    BY <1>4, <2>5, <2>6
<1>8. ASSUME n >= b
      PROVE  Numeral(n, b, digits) = Append(Numeral(n \div b, b, digits), digits[(n % b) + 1])
  <2> DEFINE m == n \div b
             r == n % b
             l == LenOf(m, b)
  <2>1. m \in Nat /\ r \in Nat /\ r <= b - 1 /\ n = b * m + r
    OBVIOUS
  <2>2. m >= 1
    <3> SUFFICES ASSUME m = 0 PROVE FALSE
      BY <2>1
    <3> QED
      BY <1>8, <2>1
  <2> HIDE DEF m, r
  <2>3. l \in 1 .. m + 1 /\ IsLen(m, b, l)
    BY <2>1, LenExists
  <2> HIDE DEF l
  <2>4. l \in Nat \ {0} /\ l - 1 \in Nat /\ l + 1 \in Nat \ {0} /\ l + 1 - 1 = l /\ l + 1 # 1 /\ l - 1 + 1 = l
    BY <2>1, <2>3
  <2>5. n < Power(b, l + 1)
    <3> DEFINE p == Power(b, l)
    <3>1. Power(b, l + 1) = b * p /\ p \in Nat /\ m < p
      BY <1>0, <2>3, <2>4 DEF IsLen
    <3> HIDE DEF p
    <3>2. b * (p - (m + 1)) >= 0
      BY <2>1, <3>1
    <3>3. b * (p - (m + 1)) = b * p - (b * m + b)
      BY <2>1, <3>1
    <3>4. n < b * p
      BY <2>1, <3>1, <3>2, <3>3
    <3> QED
      BY <3>1, <3>4
  <2>6. Power(b, l) <= n
    <3>1. CASE l = 1
      BY <1>2, <1>8, <3>1
    <3>2. CASE l # 1
      <4> DEFINE p == Power(b, l - 1)
      <4>1. Power(b, l) = b * p /\ p \in Nat /\ p <= m
        BY <1>0, <2>3, <2>4, <3>2 DEF IsLen
      <4> HIDE DEF p
      <4>2. b * (m - p) >= 0
        BY <2>1, <4>1
      <4>3. b * (m - p) = b * m - b * p
        BY <2>1, <4>1
      <4>4. b * p <= n
        BY <2>1, <4>1, <4>2, <4>3
      <4> QED
        BY <4>1, <4>4
    <3> QED
      BY <3>1, <3>2
  <2>7. len = l + 1
    BY <1>3, <2>4, <2>5, <2>6 DEF IsLen
  <2> DEFINE Front1 == Numeral(m, b, digits)
             Last1 == digits[r + 1]
  <2>8. Front1 = [j \in 1 .. l |-> digits[((m \div Power(b, l - j)) % b) + 1]]
    BY NumeralDef DEF l
  <2>9. ASSUME NEW j \in 1 .. l PROVE Front1[j] = Digit(j) /\ Front1[j] \in V
    <3> DEFINE p == Power(b, l - j)
    <3>1. l - j \in Nat /\ len - j = l - j + 1 /\ j \in 1 .. len
      BY <2>4, <2>7
    <3>2. p \in Nat \ {0} /\ Power(b, len - j) = b * p
      BY <1>0, <3>1
    <3>3. Front1[j] = digits[((m \div p) % b) + 1]
      BY <2>8
    <3> HIDE DEF p
    <3>4. m \div p = n \div (b * p)
      BY <3>2, DivDiv DEF m
    <3>5. Front1[j] = Digit(j)
      BY <3>2, <3>3, <3>4
    <3> QED
      BY <1>5, <3>1, <3>5
  <2>10. Digit(len) = Last1 /\ Last1 \in V
    <3>1. len - len = 0
      BY <1>3
    <3>2. n \div 1 = n
      OBVIOUS
    <3>3. Digit(len) = digits[((n \div 1) % b) + 1]
      BY <1>0, <3>1
    <3> QED
      BY <1>1, <3>2, <3>3 DEF r
  <2> HIDE DEF Digit, Last1
  <2>11. Front1 \in Seq(V) /\ Len(Front1) = l
    <3>1. Front1 \in [1 .. l -> V]
      BY <2>8, <2>9
    <3> HIDE DEF Front1
    <3> QED
      BY <2>4, <3>1, SeqDef
  <2> HIDE DEF Front1
  <2> DEFINE s == Append(Front1, Last1)
             t == [j \in 1 .. len |-> Digit(j)]
  <2>12. s \in Seq(V) /\ Len(s) = len /\ \A j \in 1 .. len : s[j] = Digit(j)
    <3>1. /\ s \in Seq(V) /\ Len(s) = l + 1
          /\ \A j \in 1 .. Len(Front1) : s[j] = Front1[j]
          /\ s[Len(Front1) + 1] = Last1
      BY <2>10, <2>11, AppendProperties
    <3>2. ASSUME NEW j \in 1 .. len PROVE s[j] = Digit(j)
      <4>1. CASE j = len
        BY <2>7, <2>10, <2>11, <3>1, <4>1
      <4>2. CASE j # len
        <5>1. j \in 1 .. l
          BY <2>4, <2>7, <4>2
        <5> QED
          BY <2>9, <2>11, <3>1, <5>1
      <4> QED
        BY <4>1, <4>2
    <3> QED
      BY <2>7, <3>1, <3>2
  <2>13. t \in Seq(V) /\ Len(t) = len /\ \A j \in 1 .. len : t[j] = Digit(j)
    <3>1. len \in Nat
      BY <1>3
    <3> QED
      BY <1>4, <1>6, <3>1
  <2> HIDE DEF s, t
  <2>14. s = t
    BY <2>12, <2>13, SeqEqual
  <2> QED
    BY <1>4, <2>14 DEF s, t, Front1, Last1, m, r
<1> QED
  BY <1>6, <1>7, <1>8

\* The order in which sequences are put together does not matter.
LEMMA ConcatAssociates == \A V : \A r, s, u \in Seq(V) : (r \o s) \o u = r \o (s \o u)
BY ConcatAssociative

\* Induction over the numbers below.
LEMMA StrongInduction ==
  ASSUME NEW S, \A n \in Nat : (\A m \in Nat : m < n => m \in S) => n \in S
  PROVE  Nat \subseteq S
<1> DEFINE T == Nat \ S
<1> SUFFICES ASSUME T # {} PROVE FALSE
  OBVIOUS
<1>1. PICK x \in T : \A y \in T : x <= y
  <2>1. T \in SUBSET Nat
    OBVIOUS
  <2> HIDE DEF T
  <2> QED
    BY <2>1, LeastNatural
<1>2. \A m \in Nat : m < x => m \in S
  BY <1>1
<1> QED
  BY <1>1, <1>2

\* A number is greater than its quotient by a base.
LEMMA Quotient ==
  ASSUME NEW n \in Nat, NEW b \in Nat \ {0, 1}, n >= b
  PROVE  n \div b \in Nat /\ n \div b < n /\ n \div b > 0
<1> DEFINE m == n \div b
           r == n % b
<1>1. m \in Nat /\ r \in Nat /\ r <= b - 1 /\ n = b * m + r
  OBVIOUS
<1> HIDE DEF m, r
<1>2. m > 0
  <2> SUFFICES ASSUME m = 0 PROVE FALSE
    BY <1>1
  <2> QED
    BY <1>1
<1>3. m < n
  <2>1. (b - 2) * m >= 0
    BY <1>1
  <2>2. b * m = 2 * m + (b - 2) * m
    BY <1>1
  <2> QED
    BY <1>1, <1>2, <2>1, <2>2
<1> QED
  BY <1>1, <1>2, <1>3 DEF m

\* The digits itoa collects in tmp are the numeral.
LEMMA DigitsOfIs ==
  ASSUME NEW n \in Nat, NEW b \in Nat \ {0, 1}, NEW digits
  PROVE  DigitsOf(n, b, digits) = Numeral(n, b, digits)
<1> DEFINE V == {digits[j] : j \in 1 .. b}
<1>0. \A j \in 1 .. b : digits[j] \in V
  OBVIOUS
<1> HIDE DEF V
<1> DEFINE Sol(t) == t = [m \in Nat |-> IF m < b THEN <<digits[m + 1]>>
                                        ELSE Append(t[m \div b], digits[(m % b) + 1])]
           d == [m \in Nat |-> Numeral(m, b, digits)]
<1>1. Sol(d)
  <2>1. ASSUME NEW m \in Nat
        PROVE  d[m] = IF m < b THEN <<digits[m + 1]>> ELSE Append(d[m \div b], digits[(m % b) + 1])
    <3>1. CASE m < b
      BY <1>0, <3>1, NumeralStep
    <3>2. CASE ~ (m < b)
      <4>0. m >= b
        BY <3>2
      <4>1. m \div b \in Nat
        BY <4>0, Quotient
      <4>2. d[m] = Append(Numeral(m \div b, b, digits), digits[(m % b) + 1])
        BY <1>0, <4>0, NumeralStep
      <4>3. d[m \div b] = Numeral(m \div b, b, digits)
        BY <4>1
      <4> HIDE DEF d
      <4> QED
        BY <3>2, <4>2, <4>3
    <3> QED
      BY <3>1, <3>2
  <2> DEFINE g == [m \in Nat |-> IF m < b THEN <<digits[m + 1]>>
                                 ELSE Append(d[m \div b], digits[(m % b) + 1])]
  <2>2. d = g
    BY <2>1
  <2> HIDE DEF d
  <2> QED
    BY <2>2
<1>2. Sol(CHOOSE t : Sol(t))
  <2> HIDE DEF d, Sol
  <2> QED
    BY <1>1
<1>3. DigitsOf(n, b, digits) = (CHOOSE t : Sol(t))[n]
  BY DEF DigitsOf
<1>4. PICK t : Sol(t) /\ DigitsOf(n, b, digits) = t[n]
  <2> HIDE DEF Sol
  <2> QED
    BY <1>2, <1>3
<1>5. ASSUME NEW m \in Nat
      PROVE  t[m] = IF m < b THEN <<digits[m + 1]>> ELSE Append(t[m \div b], digits[(m % b) + 1])
  <2>1. t[m] = [l \in Nat |-> IF l < b THEN <<digits[l + 1]>>
                              ELSE Append(t[l \div b], digits[(l % b) + 1])][m]
    BY <1>4
  <2> QED
    BY <2>1
<1> HIDE DEF Sol, d
<1> DEFINE H == {m \in Nat : t[m] = Numeral(m, b, digits)}
<1>6. ASSUME NEW m \in Nat, \A l \in Nat : l < m => l \in H PROVE m \in H
  <2>1. CASE m < b
    <3>1. t[m] = <<digits[m + 1]>>
      BY <1>5, <2>1
    <3>2. Numeral(m, b, digits) = <<digits[m + 1]>>
      BY <1>0, <2>1, NumeralStep
    <3> QED
      BY <3>1, <3>2
  <2>2. CASE m >= b
    <3>1. m \div b \in Nat /\ m \div b < m
      BY <2>2, Quotient
    <3>2. t[m \div b] = Numeral(m \div b, b, digits)
      BY <1>6, <3>1
    <3>0. ~ (m < b)
      BY <2>2
    <3>3. t[m] = Append(t[m \div b], digits[(m % b) + 1])
      BY <1>5, <3>0
    <3>4. Numeral(m, b, digits) = Append(Numeral(m \div b, b, digits), digits[(m % b) + 1])
      BY <1>0, <2>2, NumeralStep
    <3> QED
      BY <3>2, <3>3, <3>4
  <2> QED
    BY <2>1, <2>2
<1>7. Nat \subseteq H
  <2> HIDE DEF H
  <2> QED
    BY <1>6, StrongInduction
<1> QED
  BY <1>4, <1>7

-----------------------------------------------------------------------------
(* Characters *)

Decimals == {Digits[v + 1] : v \in 0 .. 9}

\* The v-th digit, and the other characters of a directive.
IsTheDigit(v, c) ==
  \/ v = 0 /\ c = "0"
  \/ v = 1 /\ c = "1"
  \/ v = 2 /\ c = "2"
  \/ v = 3 /\ c = "3"
  \/ v = 4 /\ c = "4"
  \/ v = 5 /\ c = "5"
  \/ v = 6 /\ c = "6"
  \/ v = 7 /\ c = "7"
  \/ v = 8 /\ c = "8"
  \/ v = 9 /\ c = "9"
Signs == {NUL, "%", "*", ".", "-", "+", BLANK, "#", "h", "l", "L", "Z",
          "c", "s", "o", "p", "x", "X", "d", "i", "u", "n"}

\* The ten digits of the table.
LEMMA TheDigits == \A v \in 0 .. 9 : IsTheDigit(v, Digits[v + 1])
<1>1. /\ Digits[1] = "0" /\ Digits[2] = "1" /\ Digits[3] = "2" /\ Digits[4] = "3"
      /\ Digits[5] = "4" /\ Digits[6] = "5" /\ Digits[7] = "6" /\ Digits[8] = "7"
      /\ Digits[9] = "8" /\ Digits[10] = "9"
  BY DEF Digits
<1> SUFFICES ASSUME NEW v \in 0 .. 9 PROVE IsTheDigit(v, Digits[v + 1])
  OBVIOUS
<1>2. v = 0 \/ v = 1 \/ v = 2 \/ v = 3 \/ v = 4 \/ v = 5 \/ v = 6 \/ v = 7 \/ v = 8 \/ v = 9
  OBVIOUS
<1>3. CASE v = 0
  BY <1>1, <1>3 DEF IsTheDigit
<1>4. CASE v = 1
  BY <1>1, <1>4 DEF IsTheDigit
<1>5. CASE v = 2
  BY <1>1, <1>5 DEF IsTheDigit
<1>6. CASE v = 3
  BY <1>1, <1>6 DEF IsTheDigit
<1>7. CASE v = 4
  BY <1>1, <1>7 DEF IsTheDigit
<1>8. CASE v = 5
  BY <1>1, <1>8 DEF IsTheDigit
<1>9. CASE v = 6
  BY <1>1, <1>9 DEF IsTheDigit
<1>10. CASE v = 7
  BY <1>1, <1>10 DEF IsTheDigit
<1>11. CASE v = 8
  BY <1>1, <1>11 DEF IsTheDigit
<1>12. CASE v = 9
  BY <1>1, <1>12 DEF IsTheDigit
<1> QED
  BY <1>2, <1>3, <1>4, <1>5, <1>6, <1>7, <1>8, <1>9, <1>10, <1>11, <1>12

\* The blank is not another character, "%" and "." included.
Inked(c) ==
  /\ c \notin {"0", "1", "2", "3", "4", "5", "6", "7", "8", "9"}
  /\ c \notin {"+", "-", "#", "x", "X", "%", "*", ".", "?"} /\ c # NUL
  /\ c \notin {"h", "l", "L", "Z", "c", "s", "o", "p", "d", "i", "u", "n"}

\* The blank differs from each of these.
LEMMA BlankFacts == Inked(BLANK)
BY Zenon DEF Inked, BLANK, NUL

\* is_digit and DigitValue on the ten digits; no other character is one.
LEMMA DigitFacts ==
  /\ \A v \in 0 .. 9 : DigitValue(Digits[v + 1]) = v /\ is_digit(Digits[v + 1])
  /\ \A v \in 1 .. 9 : Digits[v + 1] \notin FlagChars
  /\ \A c \in Decimals : is_digit(c) /\ c # NUL
  /\ \A c \in Signs : ~ is_digit(c)
<1>1. ASSUME NEW v \in 0 .. 9, NEW w \in 0 .. 9, Digits[v + 1] = Digits[w + 1] PROVE v = w
  <2>1. IsTheDigit(v, Digits[v + 1]) /\ IsTheDigit(w, Digits[w + 1])
    BY TheDigits
  <2> QED
    BY <1>1, <2>1 DEF IsTheDigit
<1>2. ASSUME NEW v \in 0 .. 9 PROVE DigitValue(Digits[v + 1]) = v
  BY <1>1 DEF DigitValue
<1>3. ASSUME NEW v \in 1 .. 9 PROVE Digits[v + 1] \notin FlagChars
  <2>1. IsTheDigit(v, Digits[v + 1]) /\ v # 0
    BY TheDigits
  <2> QED
    BY <2>1, BlankFacts DEF IsTheDigit, FlagChars, Inked
<1>4. ASSUME NEW v \in 0 .. 9 PROVE is_digit(Digits[v + 1]) /\ Digits[v + 1] # NUL
  <2>1. IsTheDigit(v, Digits[v + 1])
    BY TheDigits
  <2>2. Digits[v + 1] # NUL
    BY <2>1 DEF IsTheDigit, NUL
  <2> QED
    BY <2>2 DEF is_digit
<1>5. ASSUME NEW c \in Signs PROVE ~ is_digit(c)
  <2> SUFFICES ASSUME NEW v \in 0 .. 9, c = Digits[v + 1] PROVE FALSE
    BY DEF is_digit
  <2>1. IsTheDigit(v, c)
    BY TheDigits
  <2> QED
    BY <2>1, BlankFacts DEF IsTheDigit, Signs, NUL, Inked
<1> QED
  BY <1>2, <1>3, <1>4, <1>5 DEF Decimals

\* A decimal numeral has a digit, only digits, and no leading zero.
LEMMA DecimalNumeral ==
  ASSUME NEW n \in Nat
  PROVE  /\ Numeral(n, 10, Digits) \in Seq(Decimals)
         /\ Len(Numeral(n, 10, Digits)) \in Nat \ {0}
         /\ n > 0 => Numeral(n, 10, Digits)[1] \notin FlagChars
<1> DEFINE N(m) == Numeral(m, 10, Digits)
           H == {m \in Nat : Len(N(m)) \in Nat \ {0} /\ (m > 0 => N(m)[1] \notin FlagChars)}
<1>1. \A j \in 1 .. 10 : Digits[j] \in Decimals
  <2> SUFFICES ASSUME NEW j \in 1 .. 10 PROVE Digits[j] \in Decimals
    OBVIOUS
  <2>1. j - 1 \in 0 .. 9 /\ j - 1 + 1 = j
    OBVIOUS
  <2> QED
    BY <2>1 DEF Decimals
<1>2. ASSUME NEW m \in Nat
      PROVE  /\ N(m) \in Seq(Decimals)
             /\ m < 10 => N(m) = <<Digits[m + 1]>>
             /\ m >= 10 => N(m) = Append(N(m \div 10), Digits[(m % 10) + 1])
             /\ Digits[(m % 10) + 1] \in Decimals
  <2>1. 10 \in Nat \ {0, 1} /\ (m % 10) + 1 \in 1 .. 10
    OBVIOUS
  <2> QED
    BY <1>1, <2>1, NumeralStep
<1> HIDE DEF N
<1>3. ASSUME NEW m \in Nat, \A l \in Nat : l < m => l \in H PROVE m \in H
  <2>1. CASE m < 10
    <3>1. N(m) = <<Digits[m + 1]>>
      BY <1>2, <2>1
    <3>2. m > 0 => m \in 1 .. 9
      BY <2>1
    <3>3. m > 0 => Digits[m + 1] \notin FlagChars
      BY <3>2, DigitFacts
    <3>4. Len(N(m)) = 1 /\ N(m)[1] = Digits[m + 1]
      BY <3>1
    <3>5. Len(N(m)) \in Nat \ {0} /\ (m > 0 => N(m)[1] \notin FlagChars)
      BY <3>3, <3>4
    <3> QED
      BY <3>5
  <2>2. CASE m >= 10
    <3> DEFINE q == m \div 10
               s == N(q)
               c == Digits[(m % 10) + 1]
    <3>1. q \in Nat /\ q < m /\ q > 0
      BY <2>2, Quotient
    <3>2. q \in H
      <4> HIDE DEF q, H
      <4> QED
        BY <1>3, <3>1
    <3>3. Len(s) \in Nat \ {0} /\ s[1] \notin FlagChars
      <4> HIDE DEF q
      <4> QED
        BY <3>1, <3>2
    <3>4. s \in Seq(Decimals) /\ c \in Decimals /\ N(m) = Append(s, c)
      <4> HIDE DEF q
      <4>1. s \in Seq(Decimals)
        BY <1>2, <3>1
      <4> QED
        BY <1>2, <2>2, <4>1 DEF q
    <3> HIDE DEF q, s, c
    <3>5. Len(N(m)) = Len(s) + 1 /\ N(m)[1] = s[1]
      <4>1. 1 \in 1 .. Len(s)
        BY <3>3
      <4> QED
        BY <3>4, <4>1, AppendProperties
    <3>6. Len(N(m)) \in Nat \ {0} /\ N(m)[1] \notin FlagChars
      BY <3>3, <3>5
    <3> QED
      BY <3>6
  <2> QED
    BY <2>1, <2>2
<1>4. Nat \subseteq H
  <2> HIDE DEF H
  <2> QED
    BY <1>3, StrongInduction
<1> QED
  BY <1>2, <1>4 DEF N

-----------------------------------------------------------------------------
(* Reading the format *)

\* EndOfDigits is the first place that holds no digit.
LEMMA EndOfDigitsFacts ==
  ASSUME Len(call.fmt) \in Nat, NEW p \in 1 .. Len(call.fmt) + 1
  PROVE  /\ EndOfDigits(p) \in p .. Len(call.fmt) + 1
         /\ ~ is_digit(CharAt(EndOfDigits(p)))
         /\ \A r \in p .. EndOfDigits(p) - 1 : is_digit(CharAt(r))
         /\ is_digit(CharAt(p)) => EndOfDigits(p) > p
<1> DEFINE L == Len(call.fmt)
           T == {q \in Nat : q >= p /\ ~ is_digit(CharAt(q))}
           Good(q) == ~ is_digit(CharAt(q)) /\ \A r \in p .. q - 1 : is_digit(CharAt(r))
<1>1. L + 1 \in T
  <2>1. CharAt(L + 1) = NUL
    BY DEF CharAt
  <2>2. NUL \in Signs
    BY DEF Signs
  <2> QED
    BY <2>1, <2>2, DigitFacts
<1>2. PICK q \in T : \A r \in T : q <= r
  <2>1. T \in SUBSET Nat /\ T # {}
    BY <1>1
  <2> HIDE DEF T
  <2> QED
    BY <2>1, LeastNatural
<1>3. q \in p .. L + 1
  BY <1>1, <1>2
<1>4. ASSUME NEW r \in p .. q - 1 PROVE is_digit(CharAt(r))
  <2>1. r \in Nat /\ r >= p /\ ~ (q <= r)
    BY <1>3
  <2> QED
    BY <1>2, <2>1
<1>5. Good(q)
  BY <1>4
<1>6. EndOfDigits(p) = CHOOSE x \in p .. L + 1 : Good(x)
  BY DEF EndOfDigits
<1>7. EndOfDigits(p) \in p .. L + 1 /\ Good(EndOfDigits(p))
  <2> HIDE DEF Good, L
  <2> QED
    BY <1>3, <1>5, <1>6
<1>8. is_digit(CharAt(p)) => EndOfDigits(p) > p
  <2>1. EndOfDigits(p) # p => EndOfDigits(p) > p
    BY <1>7
  <2> QED
    BY <1>7, <2>1
<1> QED
  BY <1>7, <1>8

\* The numbers read so far.
NumbersRead(c, p, e) ==
  /\ c[p - 1] = 0
  /\ \A q \in p .. e - 1 : c[q] = c[q - 1] * 10 + DigitValue(CharAt(q))

\* The recursion of skip_atoi.
LEMMA SkipAtoi ==
  ASSUME Len(call.fmt) \in Nat, NEW p \in 1 .. Len(call.fmt) + 1
  PROVE  \E c \in [p - 1 .. EndOfDigits(p) - 1 -> Nat] :
           NumbersRead(c, p, EndOfDigits(p)) /\ skip_atoi(p) = c[EndOfDigits(p) - 1]
<1> DEFINE e == EndOfDigits(p)
           I == p - 1 .. e - 1
           Val(q) == DigitValue(CharAt(q))
           G == [w \in I \X Nat |-> IF w[1] < p THEN 0 ELSE w[2] * 10 + Val(w[1])]
           Sol(d) == d = [q \in I |-> IF q < p THEN 0 ELSE d[q - 1] * 10 + Val(q)]
<1>1. e \in Nat /\ e >= p /\ \A r \in p .. e - 1 : is_digit(CharAt(r))
  BY EndOfDigitsFacts
<1>0. skip_atoi(p) = (CHOOSE d : Sol(d))[e - 1]
  BY DEF skip_atoi
<1> HIDE DEF e
<1>2. ASSUME NEW q \in p .. e - 1 PROVE Val(q) \in Nat
  <2>1. is_digit(CharAt(q))
    BY <1>1
  <2>2. PICK v \in 0 .. 9 : CharAt(q) = Digits[v + 1]
    BY <2>1 DEF is_digit
  <2>3. DigitValue(CharAt(q)) = v
    BY <2>2, DigitFacts
  <2> QED
    BY <2>3
<1> HIDE DEF Val
<1>3. G \in [I \X Nat -> Nat]
  <2> SUFFICES ASSUME NEW w \in I \X Nat
               PROVE  (IF w[1] < p THEN 0 ELSE w[2] * 10 + Val(w[1])) \in Nat
    OBVIOUS
  <2>1. w[1] \in I /\ w[2] \in Nat
    OBVIOUS
  <2>2. ~ (w[1] < p) => w[1] \in p .. e - 1
    BY <1>1, <2>1
  <2>3. ~ (w[1] < p) => Val(w[1]) \in Nat
    BY <1>2, <2>2
  <2> QED
    BY <2>1, <2>3
<1>4. PICK c \in [I -> Nat] : Recurs(c, p - 1, e - 1, 0, G)
  <2>1. p - 1 \in Int /\ e - 1 \in Int /\ p - 1 <= e - 1 /\ 0 \in Nat
    BY <1>1
  <2> HIDE DEF G
  <2> QED
    BY <1>3, <2>1, Recurrence
<1>5. ASSUME NEW q \in p .. e - 1 PROVE c[q] = c[q - 1] * 10 + Val(q)
  <2>1. q \in I /\ q - 1 \in I /\ q # p - 1 /\ ~ (q < p)
    BY <1>1
  <2>2. <<q, c[q - 1]>> \in I \X Nat
    BY <2>1
  <2>3. c[q] = G[<<q, c[q - 1]>>]
    <3> HIDE DEF G
    <3> QED
      BY <1>4, <2>1 DEF Recurs
  <2>4. G[<<q, c[q - 1]>>] = c[q - 1] * 10 + Val(q)
    BY <2>1, <2>2
  <2> QED
    BY <2>3, <2>4
<1>6. c[p - 1] = 0
  BY <1>4 DEF Recurs
<1> HIDE DEF G
<1>7. Sol(c)
  <2>1. ASSUME NEW q \in I PROVE c[q] = IF q < p THEN 0 ELSE c[q - 1] * 10 + Val(q)
    <3>1. CASE q = p - 1
      BY <1>6, <3>1
    <3>2. CASE q # p - 1
      <4>1. q \in p .. e - 1 /\ ~ (q < p)
        BY <3>2, <1>1
      <4> QED
        BY <1>5, <4>1
    <3> QED
      BY <3>1, <3>2
  <2> DEFINE g == [q \in I |-> IF q < p THEN 0 ELSE c[q - 1] * 10 + Val(q)]
  <2>2. c = g
    BY <2>1
  <2> QED
    BY <2>2
<1>8. Sol(CHOOSE d : Sol(d))
  <2> HIDE DEF Sol
  <2> QED
    BY <1>7
<1>9. PICK d : Sol(d) /\ skip_atoi(p) = d[e - 1]
  <2> HIDE DEF Sol
  <2> QED
    BY <1>0, <1>8
<1>10. ASSUME NEW q \in I PROVE d[q] = IF q < p THEN 0 ELSE d[q - 1] * 10 + Val(q)
  <2>1. d[q] = [r \in I |-> IF r < p THEN 0 ELSE d[r - 1] * 10 + Val(r)][q]
    BY <1>9
  <2> QED
    BY <2>1
<1> HIDE DEF Sol
<1> DEFINE H == {n \in Nat : p - 1 + n <= e - 1 => d[p - 1 + n] = c[p - 1 + n]}
<1>11. 0 \in H
  <2>1. p - 1 + 0 = p - 1 /\ p - 1 \in I /\ p - 1 < p
    BY <1>1
  <2> QED
    BY <1>6, <1>10, <2>1
<1>12. ASSUME NEW n \in Nat, n \in H PROVE n + 1 \in H
  <2> SUFFICES ASSUME p - 1 + (n + 1) <= e - 1 PROVE d[p - 1 + (n + 1)] = c[p - 1 + (n + 1)]
    OBVIOUS
  <2> DEFINE q == p - 1 + (n + 1)
  <2>1. q \in I /\ q \in p .. e - 1 /\ ~ (q < p) /\ q - 1 = p - 1 + n /\ p - 1 + n <= e - 1
    BY <1>1
  <2>2. d[q - 1] = c[q - 1]
    BY <1>12, <2>1
  <2> HIDE DEF q
  <2>3. d[q] = d[q - 1] * 10 + Val(q)
    BY <1>10, <2>1
  <2>4. c[q] = c[q - 1] * 10 + Val(q)
    BY <1>5, <2>1
  <2>5. d[q] = c[q]
    BY <2>2, <2>3, <2>4
  <2> QED
    BY <2>5 DEF q
<1>13. Nat \subseteq H
  <2> HIDE DEF H
  <2> QED
    BY <1>11, <1>12, SetInduction
<1>14. d[e - 1] = c[e - 1]
  <2>1. e - p \in Nat /\ p - 1 + (e - p) = e - 1
    BY <1>1
  <2>2. e - p \in H
    BY <1>13, <2>1
  <2> QED
    BY <2>1, <2>2
<1>15. NumbersRead(c, p, e)
  BY <1>5, <1>6 DEF NumbersRead, Val
<1> QED
  BY <1>9, <1>14, <1>15 DEF e

\* t stands in f from place p on.
Stands(f, p, t) == \A j \in 1 .. Len(t) : p + j - 1 <= Len(f) /\ f[p + j - 1] = t[j]

\* What a concatenation stands for, part by part.
LEMMA StandsConcat ==
  ASSUME NEW V, NEW s \in Seq(V), NEW t \in Seq(V), NEW f, NEW p \in Nat
  PROVE  Stands(f, p, s \o t) => Stands(f, p, s) /\ Stands(f, p + Len(s), t)
<1> SUFFICES ASSUME Stands(f, p, s \o t)
             PROVE  Stands(f, p, s) /\ Stands(f, p + Len(s), t)
  OBVIOUS
<1>1. /\ Len(s \o t) = Len(s) + Len(t) /\ Len(s) \in Nat /\ Len(t) \in Nat
      /\ \A i \in 1 .. Len(s) + Len(t) :
           (s \o t)[i] = IF i <= Len(s) THEN s[i] ELSE t[i - Len(s)]
  BY ConcatProperties, LenProperties
<1> DEFINE u == s \o t
<1>2. \A j \in 1 .. Len(u) : p + j - 1 <= Len(f) /\ f[p + j - 1] = u[j]
  BY DEF Stands
<1> HIDE DEF u
<1>3. Len(u) = Len(s) + Len(t) /\ \A i \in 1 .. Len(s) + Len(t) :
           u[i] = IF i <= Len(s) THEN s[i] ELSE t[i - Len(s)]
  BY <1>1 DEF u
<1>4. ASSUME NEW j \in 1 .. Len(s) PROVE p + j - 1 <= Len(f) /\ f[p + j - 1] = s[j]
  <2>1. j \in 1 .. Len(s) + Len(t) /\ j <= Len(s)
    BY <1>1
  <2> QED
    BY <1>2, <1>3, <2>1
<1>5. ASSUME NEW j \in 1 .. Len(t) PROVE p + Len(s) + j - 1 <= Len(f) /\ f[p + Len(s) + j - 1] = t[j]
  <2> DEFINE i == Len(s) + j
  <2>1. i \in 1 .. Len(s) + Len(t) /\ ~ (i <= Len(s)) /\ i - Len(s) = j
        /\ p + i - 1 = p + Len(s) + j - 1
    BY <1>1
  <2> HIDE DEF i
  <2>2. p + i - 1 <= Len(f) /\ f[p + i - 1] = u[i] /\ u[i] = t[j]
    BY <1>2, <1>3, <2>1
  <2> QED
    BY <2>1, <2>2
<1> QED
  BY <1>4, <1>5 DEF Stands

\* A character of a text that stands in the format.
LEMMA StandsAt ==
  ASSUME NEW t, NEW p \in Nat, NEW j \in 1 .. Len(t), Stands(call.fmt, p, t)
  PROVE  CharAt(p + j - 1) = t[j] /\ p + j - 1 <= Len(call.fmt)
BY DEF Stands, CharAt

\* A numeral in the format is read as its number.
LEMMA ReadsNumeral ==
  ASSUME Len(call.fmt) \in Nat, NEW p \in Nat \ {0}, NEW n \in Nat,
         Stands(call.fmt, p, Numeral(n, 10, Digits)),
         ~ is_digit(CharAt(p + Len(Numeral(n, 10, Digits))))
  PROVE  /\ is_digit(CharAt(p)) /\ p <= Len(call.fmt)
         /\ EndOfDigits(p) = p + Len(Numeral(n, 10, Digits))
         /\ skip_atoi(p) = n
<1> DEFINE N(m) == Numeral(m, 10, Digits)
           E == EndOfDigits(p)
<1>1. \A m \in Nat : N(m) \in Seq(Decimals) /\ Len(N(m)) \in Nat \ {0}
  BY DecimalNumeral
<1>2. ASSUME NEW m \in Nat
      PROVE  /\ m < 10 => N(m) = <<Digits[m + 1]>>
             /\ m >= 10 => N(m) = Append(N(m \div 10), Digits[(m % 10) + 1])
             /\ Digits[(m % 10) + 1] \in Decimals
  <2>1. \A j \in 1 .. 10 : Digits[j] \in Decimals
    <3> SUFFICES ASSUME NEW j \in 1 .. 10 PROVE Digits[j] \in Decimals
      OBVIOUS
    <3>1. j - 1 \in 0 .. 9 /\ j - 1 + 1 = j
      OBVIOUS
    <3> QED
      BY <3>1 DEF Decimals
  <2>2. 10 \in Nat \ {0, 1} /\ (m % 10) + 1 \in 1 .. 10
    OBVIOUS
  <2> QED
    BY <2>1, <2>2, NumeralStep
<1> HIDE DEF N
<1>3. Stands(call.fmt, p, N(n)) /\ ~ is_digit(CharAt(p + Len(N(n))))
  BY DEF N
<1>4. ASSUME NEW j \in 1 .. Len(N(n)) PROVE CharAt(p + j - 1) = N(n)[j] /\ is_digit(CharAt(p + j - 1)) /\ p + j - 1 <= Len(call.fmt)
  <2>1. CharAt(p + j - 1) = N(n)[j] /\ p + j - 1 <= Len(call.fmt)
    BY <1>3, StandsAt
  <2>2. N(n)[j] \in Decimals
    BY <1>1, ElementOfSeq
  <2> QED
    BY <2>1, <2>2, DigitFacts
<1>5. is_digit(CharAt(p)) /\ p <= Len(call.fmt)
  <2>1. 1 \in 1 .. Len(N(n)) /\ p + 1 - 1 = p
    BY <1>1
  <2> QED
    BY <1>4, <2>1
<1>6. /\ E \in p .. Len(call.fmt) + 1 /\ ~ is_digit(CharAt(E))
      /\ \A r \in p .. E - 1 : is_digit(CharAt(r))
  BY <1>5, EndOfDigitsFacts
<1> HIDE DEF E
<1> DEFINE l == Len(N(n))
<1>7. l \in Nat \ {0}
  BY <1>1
<1>8. E = p + l
  <2>1. ~ (E < p + l)
    <3> SUFFICES ASSUME E < p + l PROVE FALSE
      OBVIOUS
    <3> DEFINE j == E - p + 1
    <3>1. j \in 1 .. l /\ p + j - 1 = E
      BY <1>6, <1>7
    <3> HIDE DEF j
    <3> QED
      BY <1>4, <1>6, <3>1
  <2>2. ~ (p + l < E)
    <3> SUFFICES ASSUME p + l < E PROVE FALSE
      OBVIOUS
    <3>1. p + l \in p .. E - 1
      BY <1>6, <1>7
    <3> QED
      BY <1>3, <1>6, <3>1
  <2> HIDE DEF l
  <2> QED
    BY <1>6, <1>7, <2>1, <2>2
<1>9. PICK c \in [p - 1 .. E - 1 -> Nat] : NumbersRead(c, p, E) /\ skip_atoi(p) = c[E - 1]
  <2>1. p \in 1 .. Len(call.fmt) + 1
    BY <1>5
  <2> QED
    BY <2>1, SkipAtoi DEF E
<1> HIDE DEF l
<1> DEFINE H == {m \in Nat : Len(N(m)) <= l /\ (\A j \in 1 .. Len(N(m)) : N(m)[j] = N(n)[j])
                             => c[p - 1 + Len(N(m))] = m}
<1>10. ASSUME NEW m \in Nat, \A k \in Nat : k < m => k \in H PROVE m \in H
  <2> SUFFICES ASSUME Len(N(m)) <= l, \A j \in 1 .. Len(N(m)) : N(m)[j] = N(n)[j]
               PROVE  c[p - 1 + Len(N(m))] = m
    OBVIOUS
  <2>1. CASE m < 10
    <3>1. N(m) = <<Digits[m + 1]>>
      BY <1>2, <2>1
    <3>2. Len(N(m)) = 1 /\ N(m)[1] = Digits[m + 1]
      BY <3>1
    <3>3. 1 \in 1 .. l /\ p + 1 - 1 = p /\ p \in p .. E - 1 /\ p - 1 + 1 = p
      BY <1>7, <1>8
    <3>4. CharAt(p) = Digits[m + 1]
      BY <1>4, <3>2, <3>3 DEF l
    <3>5. DigitValue(CharAt(p)) = m
      <4>1. m \in 0 .. 9
        BY <2>1
      <4>2. DigitValue(Digits[m + 1]) = m
        BY <4>1, DigitFacts
      <4> QED
        BY <3>4, <4>2
    <3>6. c[p] = c[p - 1] * 10 + DigitValue(CharAt(p)) /\ c[p - 1] = 0
      BY <1>9, <3>3 DEF NumbersRead
    <3>7. c[p] = m
      BY <3>5, <3>6
    <3> QED
      BY <3>2, <3>3, <3>7
  <2>2. CASE m >= 10
    <3> DEFINE q == m \div 10
               r == m % 10
               s == N(q)
               d == Digits[r + 1]
               k == Len(s)
    <3>1. q \in Nat /\ q < m /\ r \in 0 .. 9 /\ m = q * 10 + r
      BY <2>2, Quotient
    <3>2. N(m) = Append(s, d) /\ d \in Decimals
      BY <1>2, <2>2
    <3> HIDE DEF q, r
    <3>3. s \in Seq(Decimals) /\ k \in Nat \ {0}
      BY <1>1, <3>1
    <3> HIDE DEF s, d
    <3>4. Len(N(m)) = k + 1 /\ (\A j \in 1 .. k : N(m)[j] = s[j]) /\ N(m)[k + 1] = d
      BY <3>2, <3>3, AppendProperties
    <3> HIDE DEF k
    <3>5. k <= l /\ k + 1 \in 1 .. l /\ k + 1 \in 1 .. Len(N(m))
      BY <1>7, <3>3, <3>4
    <3>6. \A j \in 1 .. k : s[j] = N(n)[j]
      <4> SUFFICES ASSUME NEW j \in 1 .. k PROVE s[j] = N(n)[j]
        OBVIOUS
      <4>1. j \in 1 .. Len(N(m))
        BY <3>3, <3>4
      <4> QED
        BY <3>4, <4>1
    <3>7. q \in H
      BY <1>10, <3>1
    <3>8. c[p - 1 + k] = q
      BY <3>1, <3>5, <3>6, <3>7 DEF k, s
    <3> DEFINE x == p + k
    <3>9. p + (k + 1) - 1 = x /\ x - 1 = p - 1 + k /\ x \in p .. E - 1 /\ p - 1 + (k + 1) = x
      BY <1>7, <1>8, <3>3, <3>5
    <3> HIDE DEF x
    <3>10. CharAt(x) = d
      <4>1. N(m)[k + 1] = N(n)[k + 1]
        BY <3>5
      <4>2. CharAt(p + (k + 1) - 1) = N(n)[k + 1]
        BY <1>4, <3>5 DEF l
      <4> QED
        BY <3>4, <3>9, <4>1, <4>2
    <3>11. DigitValue(CharAt(x)) = r
      BY <3>1, <3>10, DigitFacts DEF d
    <3>12. c[x] = c[x - 1] * 10 + DigitValue(CharAt(x))
      BY <1>9, <3>9 DEF NumbersRead
    <3>13. c[x] = m
      BY <3>1, <3>8, <3>9, <3>11, <3>12
    <3> QED
      BY <3>4, <3>9, <3>13
  <2> QED
    BY <2>1, <2>2
<1>11. Nat \subseteq H
  <2> HIDE DEF H
  <2> QED
    BY <1>10, StrongInduction
<1>12. c[p - 1 + l] = n
  <2>1. n \in H /\ Len(N(n)) <= l
    BY <1>7, <1>11 DEF l
  <2> QED
    BY <2>1 DEF l
<1>13. p - 1 + l = E - 1
  BY <1>7, <1>8
<1> QED
  BY <1>5, <1>8, <1>9, <1>12, <1>13 DEF E, l, N

-----------------------------------------------------------------------------
(* itoa *)

\* Every character a call can read or write.
Characters == STRING \cup FlagChars \cup Conversions
         \cup {Digits[j] : j \in 1 .. 16} \cup {Lower[j] : j \in 1 .. 16}
         \cup {"%", "*", ".", "h", "l", "L", "Z", "?"}

\* Padding, which is empty for a size that is not positive.
LEMMA RepeatFacts ==
  ASSUME NEW V, NEW c \in V, NEW n \in Int
  PROVE  /\ Repeat(c, n) \in Seq(V)
         /\ n <= 0 => Repeat(c, n) = <<>>
<1>1. CASE n <= 0
  <2>1. 1 .. n = {}
    BY <1>1
  <2>2. Repeat(c, n) = <<>>
    BY <2>1 DEF Repeat
  <2> QED
    BY <2>2
<1>2. CASE ~ (n <= 0)
  <2>1. n \in Nat
    BY <1>2
  <2>2. Repeat(c, n) \in [1 .. n -> V]
    BY DEF Repeat
  <2> QED
    BY <1>2, <2>1, <2>2, SeqDef
<1> QED
  BY <1>1, <1>2

\* A sequence of one character.
LEMMA SingleFacts ==
  ASSUME NEW V, NEW c \in V
  PROVE  <<c>> \in Seq(V) /\ Len(<<c>>) = 1 /\ <<c>>[1] = c
OBVIOUS

\* Concatenation, as an operator the provers do not look into.
Glue(r, s) == r \o s

\* Concatenation is associative and <<>> neutral.
LEMMA GlueFacts ==
  ASSUME NEW V, NEW W, W = Seq(V)
  PROVE  /\ \A r, s \in W : Glue(r, s) \in W
         /\ \A r, s, u \in W : Glue(Glue(r, s), u) = Glue(r, Glue(s, u))
         /\ \A r \in W : Glue(<<>>, r) = r /\ Glue(r, <<>>) = r
<1>1. \A r, s \in W : Glue(r, s) \in W
  BY ConcatProperties DEF Glue
<1>2. \A r, s, u \in W : Glue(Glue(r, s), u) = Glue(r, Glue(s, u))
  <2> SUFFICES ASSUME NEW r \in W, NEW s \in W, NEW u \in W
               PROVE  (r \o s) \o u = r \o (s \o u)
    BY DEF Glue
  <2>1. r \in Seq(V) /\ s \in Seq(V) /\ u \in Seq(V)
    OBVIOUS
  <2> QED
    BY <2>1, ConcatAssociates
<1>3. \A r \in W : Glue(<<>>, r) = r /\ Glue(r, <<>>) = r
  BY ConcatEmptySeq DEF Glue
<1> QED
  BY <1>1, <1>2, <1>3

Regrouped(S) ==
  \A p \in S : \A g \in S : \A h \in S : \A z \in S : \A t \in S :
         /\ <<>> \o g \o h \o <<>> \o z \o t = (g \o h) \o (z \o t)
         /\ <<>> \o g \o h \o p \o z \o t \o <<>> = (g \o h) \o p \o (z \o t)
         /\ p \o g \o h \o <<>> \o z \o t \o <<>> = p \o (g \o h) \o (z \o t)

\* The pieces itoa appends, as a head, a padding and a tail.
LEMMA Regroup == \A V : Regrouped(Seq(V))
<1> SUFFICES ASSUME NEW V, NEW p \in Seq(V), NEW g \in Seq(V), NEW h \in Seq(V), NEW z \in Seq(V), NEW t \in Seq(V)
    PROVE  /\ <<>> \o g \o h \o <<>> \o z \o t = (g \o h) \o (z \o t)
           /\ <<>> \o g \o h \o p \o z \o t \o <<>> = (g \o h) \o p \o (z \o t)
           /\ p \o g \o h \o <<>> \o z \o t \o <<>> = p \o (g \o h) \o (z \o t)
  BY Zenon DEF Regrouped
<1> DEFINE W == Seq(V)
           nil == <<>>
<1>1. /\ \A r, s \in W : Glue(r, s) \in W
      /\ \A r, s, u \in W : Glue(Glue(r, s), u) = Glue(r, Glue(s, u))
      /\ \A r \in W : Glue(nil, r) = r /\ Glue(r, nil) = r
  BY GlueFacts
<1>2. g \in W /\ h \in W /\ p \in W /\ z \in W /\ t \in W /\ nil \in W
  OBVIOUS
<1> HIDE DEF W, nil
<1>3. Glue(Glue(Glue(Glue(Glue(nil, g), h), nil), z), t) = Glue(Glue(g, h), Glue(z, t))
  BY <1>1, <1>2
<1>4. Glue(Glue(Glue(Glue(Glue(Glue(nil, g), h), p), z), t), nil) = Glue(Glue(Glue(g, h), p), Glue(z, t))
  <2>1. Glue(nil, g) = g
    BY <1>1, <1>2
  <2>2. Glue(g, h) \in W /\ Glue(Glue(g, h), p) \in W
    BY <1>1, <1>2
  <2>3. Glue(Glue(Glue(Glue(g, h), p), z), t) = Glue(Glue(Glue(g, h), p), Glue(z, t))
    BY <1>1, <1>2, <2>2
  <2>4. Glue(Glue(Glue(Glue(g, h), p), z), t) \in W
    BY <1>1, <1>2, <2>2
  <2> QED
    BY <1>1, <2>1, <2>3, <2>4
<1>5. Glue(Glue(Glue(Glue(Glue(Glue(p, g), h), nil), z), t), nil) = Glue(Glue(p, Glue(g, h)), Glue(z, t))
  <2>1. Glue(g, h) \in W /\ Glue(p, Glue(g, h)) \in W
    BY <1>1, <1>2
  <2>2. Glue(Glue(p, g), h) = Glue(p, Glue(g, h))
    BY <1>1, <1>2
  <2>3. Glue(Glue(p, Glue(g, h)), nil) = Glue(p, Glue(g, h))
    BY <1>1, <2>1
  <2>4. /\ Glue(Glue(Glue(p, Glue(g, h)), z), t) = Glue(Glue(p, Glue(g, h)), Glue(z, t))
        /\ Glue(Glue(Glue(p, Glue(g, h)), z), t) \in W
    BY <1>1, <1>2, <2>1
  <2>5. Glue(Glue(Glue(Glue(p, Glue(g, h)), z), t), nil) = Glue(Glue(Glue(p, Glue(g, h)), z), t)
    BY <1>1, <2>4
  <2> QED
    BY <2>2, <2>3, <2>4, <2>5
<1> QED
  BY <1>3, <1>4, <1>5, Zenon DEF Glue, nil

\* A head and a tail in a field of the given width.
Padded(head, tail, width, flgs) ==
  CASE "LEFT" \in flgs -> head \o tail \o Repeat(BLANK, width - Len(head) - Len(tail))
    [] "LEFT" \notin flgs /\ "ZEROPAD" \in flgs ->
         head \o Repeat("0", width - Len(head) - Len(tail)) \o tail
    [] "LEFT" \notin flgs /\ "ZEROPAD" \notin flgs ->
         Repeat(BLANK, width - Len(head) - Len(tail)) \o head \o tail

\* What is in Characters.
LEMMA CharFacts ==
  /\ {"0", BLANK, "+", "-", "x", "X", "%", "*", ".", "?"} \subseteq Characters
  /\ FlagChars \subseteq Characters /\ Conversions \subseteq Characters /\ STRING \subseteq Characters
  /\ \A j \in 1 .. 16 : Digits[j] \in Characters /\ Lower[j] \in Characters
BY DEF Characters, FlagChars, Conversions

\* What SignOf and PrefixOf return does not depend on ZEROPAD.
LEMMA SignFacts ==
  ASSUME NEW num \in Int, NEW base, NEW flgs
  PROVE  /\ SignOf(num, flgs) \in Seq(Characters) /\ PrefixOf(base, flgs) \in Seq(Characters)
         /\ SignOf(num, flgs \ {"ZEROPAD"}) = SignOf(num, flgs)
         /\ PrefixOf(base, flgs \ {"ZEROPAD"}) = PrefixOf(base, flgs)
         /\ SignOf(num, flgs) = <<"-">> <=> ("SIGN" \in flgs /\ num < 0)
<1>1. SignOf(num, flgs \ {"ZEROPAD"}) = SignOf(num, flgs)
  BY DEF SignOf
<1>2. PrefixOf(base, flgs \ {"ZEROPAD"}) = PrefixOf(base, flgs)
  BY DEF PrefixOf
<1>3. SignOf(num, flgs) \in {<<"-">>, <<"+">>, <<BLANK>>, <<>>}
  BY DEF SignOf
<1>4. <<"-">> \in Seq(Characters) /\ <<"+">> \in Seq(Characters) /\ <<BLANK>> \in Seq(Characters) /\ <<>> \in Seq(Characters)
  <2>1. "-" \in Characters /\ "+" \in Characters /\ BLANK \in Characters
    BY CharFacts
  <2> HIDE DEF Characters
  <2>2. <<"-">> \in Seq(Characters)
    BY <2>1
  <2>3. <<"+">> \in Seq(Characters)
    BY <2>1
  <2>4. <<BLANK>> \in Seq(Characters)
    BY <2>1
  <2> QED
    BY <2>2, <2>3, <2>4
<1>5. SignOf(num, flgs) \in Seq(Characters)
  BY <1>3, <1>4
<1>6. PrefixOf(base, flgs) \in {<<"0", "x">>, <<"0", "X">>, <<"0">>, <<>>}
  BY DEF PrefixOf
<1>7. <<"0", "x">> \in Seq(Characters) /\ <<"0", "X">> \in Seq(Characters) /\ <<"0">> \in Seq(Characters)
  <2>1. "0" \in Characters /\ "x" \in Characters /\ "X" \in Characters
    BY CharFacts
  <2> HIDE DEF Characters
  <2> QED
    BY <2>1
<1>8. PrefixOf(base, flgs) \in Seq(Characters)
  BY <1>4, <1>6, <1>7
<1>9. SignOf(num, flgs) = <<"-">> <=> ("SIGN" \in flgs /\ num < 0)
  <2>1. <<"-">> # <<"+">> /\ <<"-">> # <<BLANK>> /\ <<"-">> # <<>>
    BY BlankFacts DEF Inked
  <2>2. CASE "SIGN" \in flgs /\ num < 0
    <3>1. SignOf(num, flgs) = <<"-">>
      BY <2>2 DEF SignOf
    <3> QED
      BY <2>2, <3>1
  <2>3. CASE "SIGN" \in flgs /\ ~ (num < 0)
    <3>1. num >= 0
      BY <2>3
    <3>2. SignOf(num, flgs) = <<"+">>
      BY <2>3, <3>1 DEF SignOf
    <3> QED
      BY <2>1, <2>3, <3>2
  <2>4. CASE "SIGN" \notin flgs
    <3>1. SignOf(num, flgs) = <<BLANK>> \/ SignOf(num, flgs) = <<>>
      BY <2>4 DEF SignOf
    <3> QED
      BY <2>1, <2>4, <3>1
  <2> QED
    BY <2>2, <2>3, <2>4
<1> QED
  BY <1>1, <1>2, <1>5, <1>8, <1>9

\* The magnitude, the digits, the head and the tail itoa arrives at.
Magnitude(num, flgs) == IF "SIGN" \in flgs /\ num < 0 THEN - num ELSE num % LongMod
DigitsFor(flgs) == IF "LOWCASE" \in flgs THEN Lower ELSE Digits
HeadMade(num, base, flgs) == SignOf(num, flgs) \o PrefixOf(base, flgs)
TailMade(num, base, prec, flgs) ==
  LET n == Numeral(Magnitude(num, flgs), base, DigitsFor(flgs))
  IN Repeat("0", prec - Len(n)) \o n

\* What itoa writes: the head and the tail, padded to the size, all of it characters.
Made(num, base, size, prec, flgs) ==
  /\ itoa(num, base, size, prec, flgs) =
       Padded(HeadMade(num, base, flgs), TailMade(num, base, prec, flgs), size, flgs)
  /\ HeadMade(num, base, flgs) \in Seq(Characters)
  /\ TailMade(num, base, prec, flgs) \in Seq(Characters)

\* itoa, whose size is decremented in four places, pads a head and a tail.
LEMMA ItoaIs ==
  ASSUME NEW num \in Int, NEW base \in {8, 10, 16}, NEW size \in Int, NEW prec \in Int, NEW flgs,
         Magnitude(num, flgs) \in Nat
  PROVE  Made(num, base, size, prec, flgs)
<1> DEFINE mag == Magnitude(num, flgs)
           digs == DigitsFor(flgs)
           head == HeadMade(num, base, flgs)
           tail == TailMade(num, base, prec, flgs)
<1>0. /\ mag \in Nat /\ mag = (IF "SIGN" \in flgs /\ num < 0 THEN - num ELSE num % LongMod)
      /\ digs = (IF "LOWCASE" \in flgs THEN Lower ELSE Digits)
      /\ head = SignOf(num, flgs) \o PrefixOf(base, flgs)
      /\ tail = Repeat("0", prec - Len(Numeral(mag, base, digs))) \o Numeral(mag, base, digs)
  BY DEF Magnitude, DigitsFor, HeadMade, TailMade
<1> SUFFICES /\ itoa(num, base, size, prec, flgs) =
                  Padded(head, tail, size, flgs)
             /\ head \in Seq(Characters) /\ tail \in Seq(Characters)
  BY DEF Made
<1> HIDE DEF mag, digs, head, tail
<1> DEFINE attr == IF "LEFT" \in flgs THEN flgs \ {"ZEROPAD"} ELSE flgs
           c == IF "ZEROPAD" \in attr THEN "0" ELSE BLANK
           sign == SignOf(num, attr)
           prefix == PrefixOf(base, attr)
           tmp == DigitsOf(IF sign = <<"-">> THEN - num ELSE num % LongMod, base,
                           IF "LOWCASE" \in attr THEN Lower ELSE Digits)
           i == Len(tmp)
           total == IF i > prec THEN i ELSE prec
           size1 == size - Len(sign) - Len(prefix) - total
           size2 == IF PadsInFront(attr) THEN Spent(size1) ELSE size1
           size3 == IF "LEFT" \in attr THEN size2 ELSE Spent(size2)
           front == IF PadsInFront(attr) THEN Repeat(BLANK, size1) ELSE <<>>
           middle == IF "LEFT" \in attr THEN <<>> ELSE Repeat(c, size2)
           zeros == Repeat("0", total - i)
           end == Repeat(BLANK, size3)
<1>1. itoa(num, base, size, prec, flgs) = front \o sign \o prefix \o middle \o zeros \o tmp \o end
  BY DEF itoa
<1>2. sign = SignOf(num, flgs) /\ prefix = PrefixOf(base, flgs)
  BY SignFacts
<1>3. ("LOWCASE" \in attr <=> "LOWCASE" \in flgs) /\ ("LEFT" \in attr <=> "LEFT" \in flgs)
  OBVIOUS
<1>4. tmp = Numeral(mag, base, digs)
  <2>1. (IF sign = <<"-">> THEN - num ELSE num % LongMod) = mag
    BY <1>0, <1>2, SignFacts
  <2>2. (IF "LOWCASE" \in attr THEN Lower ELSE Digits) = digs
    BY <1>0, <1>3
  <2>3. tmp = DigitsOf(mag, base, digs)
    BY <2>1, <2>2
  <2>4. base \in Nat \ {0, 1}
    OBVIOUS
  <2> HIDE DEF attr, tmp
  <2>5. DigitsOf(mag, base, digs) = Numeral(mag, base, digs)
    BY <1>0, <2>4, DigitsOfIs
  <2> QED
    BY <2>3, <2>5
<1>5. tmp \in Seq(Characters) /\ i \in Nat
  <2>1. base \in Nat \ {0, 1} /\ \A j \in 1 .. base : digs[j] \in Characters
    <3>1. \A j \in 1 .. base : j \in 1 .. 16
      OBVIOUS
    <3>2. \A j \in 1 .. 16 : digs[j] \in Characters
      BY <1>0, CharFacts
    <3>3. base \in Nat \ {0, 1}
      OBVIOUS
    <3>4. \A j \in 1 .. base : digs[j] \in Characters
      BY <3>1, <3>2
    <3> QED
      BY <3>3, <3>4
  <2>2. Numeral(mag, base, digs) \in Seq(Characters)
    BY <1>0, <2>1, NumeralStep
  <2> HIDE DEF tmp
  <2> QED
    BY <1>4, <2>2, LenProperties
<1>6. sign \in Seq(Characters) /\ prefix \in Seq(Characters) /\ Len(sign) \in Nat /\ Len(prefix) \in Nat
  <2>1. sign \in Seq(Characters) /\ prefix \in Seq(Characters)
    BY <1>2, SignFacts
  <2> HIDE DEF sign, prefix
  <2> QED
    BY <2>1, LenProperties
<1>7. head = sign \o prefix
  BY <1>0, <1>2
<1>8. PadsInFront(attr) <=> "ZEROPAD" \notin flgs /\ "LEFT" \notin flgs
  BY DEF PadsInFront
<1>9. c = IF "ZEROPAD" \in flgs /\ "LEFT" \notin flgs THEN "0" ELSE BLANK
  OBVIOUS
<1> HIDE DEF sign, prefix, tmp, i, c, attr
<1>10. total \in Int /\ total >= i /\ (total - i <= 0 <=> prec - i <= 0) /\ (prec - i > 0 => total = prec)
  BY <1>5
<1>11. zeros \in Seq(Characters) /\ Repeat("0", prec - i) = zeros /\ Len(zeros) = total - i
  <2>1. "0" \in Characters
    BY CharFacts
  <2>2. CASE total - i <= 0
    <3>1. total - i \in Int /\ prec - i \in Int /\ prec - i <= 0 /\ total - i = 0
      BY <1>5, <1>10, <2>2
    <3> HIDE DEF total
    <3>2. zeros = <<>> /\ Repeat("0", prec - i) = <<>>
      BY <2>1, <2>2, <3>1, RepeatFacts
    <3> QED
      BY <2>1, <3>1, <3>2, RepeatFacts
  <2>3. CASE ~ (total - i <= 0)
    <3>1. total - i \in Nat /\ total = prec
      BY <1>5, <1>10, <2>3
    <3> HIDE DEF total
    <3>2. Len(Repeat("0", total - i)) = total - i
      BY <3>1 DEF Repeat
    <3> QED
      BY <2>1, <3>1, <3>2, RepeatFacts
  <2> QED
    BY <2>2, <2>3
<1> HIDE DEF zeros, total
<1>12. tail = zeros \o tmp /\ tail \in Seq(Characters) /\ Len(tail) = total
  <2>1. tail = zeros \o tmp
    BY <1>0, <1>4, <1>11 DEF i
  <2>2. Len(zeros \o tmp) = total - i + i /\ zeros \o tmp \in Seq(Characters)
    BY <1>5, <1>11, ConcatProperties DEF i
  <2>3. Len(tail) = total - i + i /\ tail \in Seq(Characters)
    BY <2>1, <2>2
  <2>4. total - i + i = total
    BY <1>5, <1>10
  <2> QED
    BY <2>1, <2>3, <2>4
<1>13. head \in Seq(Characters) /\ Len(head) = Len(sign) + Len(prefix)
  BY <1>6, <1>7, ConcatProperties
<1>14. size1 = size - Len(head) - Len(tail) /\ size1 \in Int
  <2> DEFINE ls == Len(sign)
             lp == Len(prefix)
  <2>1. ls \in Nat /\ lp \in Nat /\ total \in Int /\ Len(tail) = total /\ Len(head) = ls + lp
    BY <1>6, <1>10, <1>12, <1>13
  <2>2. size1 = size - ls - lp - total
    OBVIOUS
  <2> HIDE DEF ls, lp, size1
  <2> QED
    BY <2>1, <2>2
<1> DEFINE pad(x) == Repeat(x, size1)
<1> HIDE DEF size1
<1>15. \A n \in Int : Spent(n) \in Int /\ Spent(n) <= 0
  BY DEF Spent
<1>16. \A n \in Int : Repeat(BLANK, n) \in Seq(Characters) /\ Repeat("0", n) \in Seq(Characters)
  BY CharFacts, RepeatFacts
<1>17. \A n \in Int : n <= 0 => Repeat(BLANK, n) = <<>> /\ Repeat("0", n) = <<>>
  BY CharFacts, RepeatFacts
<1> HIDE DEF Repeat
<1>18. Regrouped(Seq(Characters))
  BY Regroup, Zenon
<1>19. \A p \in Seq(Characters) :
         /\ <<>> \o sign \o prefix \o <<>> \o zeros \o tmp = head \o tail
         /\ <<>> \o sign \o prefix \o p \o zeros \o tmp \o <<>> = head \o p \o tail
         /\ p \o sign \o prefix \o <<>> \o zeros \o tmp \o <<>> = p \o head \o tail
  <2> HIDE DEF pad, front, middle, end, size2, size3
  <2> TAKE p \in Seq(Characters)
  <2>1. sign \in Seq(Characters) /\ prefix \in Seq(Characters) /\ zeros \in Seq(Characters) /\ tmp \in Seq(Characters)
    BY <1>5, <1>6, <1>11
  <2>2. \A g \in Seq(Characters) : \A h \in Seq(Characters) : \A z \in Seq(Characters) : \A t \in Seq(Characters) :
           /\ <<>> \o g \o h \o <<>> \o z \o t = (g \o h) \o (z \o t)
           /\ <<>> \o g \o h \o p \o z \o t \o <<>> = (g \o h) \o p \o (z \o t)
           /\ p \o g \o h \o <<>> \o z \o t \o <<>> = p \o (g \o h) \o (z \o t)
    BY <1>18, Zenon DEF Regrouped
  <2>3. \A h \in Seq(Characters) : \A z \in Seq(Characters) : \A t \in Seq(Characters) :
           /\ <<>> \o sign \o h \o <<>> \o z \o t = (sign \o h) \o (z \o t)
           /\ <<>> \o sign \o h \o p \o z \o t \o <<>> = (sign \o h) \o p \o (z \o t)
           /\ p \o sign \o h \o <<>> \o z \o t \o <<>> = p \o (sign \o h) \o (z \o t)
    BY <2>1, <2>2, Zenon
  <2>4. \A z \in Seq(Characters) : \A t \in Seq(Characters) :
           /\ <<>> \o sign \o prefix \o <<>> \o z \o t = (sign \o prefix) \o (z \o t)
           /\ <<>> \o sign \o prefix \o p \o z \o t \o <<>> = (sign \o prefix) \o p \o (z \o t)
           /\ p \o sign \o prefix \o <<>> \o z \o t \o <<>> = p \o (sign \o prefix) \o (z \o t)
    BY <2>1, <2>3, Zenon
  <2>5. /\ <<>> \o sign \o prefix \o <<>> \o zeros \o tmp = (sign \o prefix) \o (zeros \o tmp)
        /\ <<>> \o sign \o prefix \o p \o zeros \o tmp \o <<>> = (sign \o prefix) \o p \o (zeros \o tmp)
        /\ p \o sign \o prefix \o <<>> \o zeros \o tmp \o <<>> = p \o (sign \o prefix) \o (zeros \o tmp)
    BY <2>1, <2>4, Zenon
  <2> QED
    BY <1>7, <1>12, <2>5
<1>20. CASE "LEFT" \in flgs
  <2>1. front = <<>> /\ middle = <<>> /\ end = pad(BLANK)
    BY <1>3, <1>8, <1>20
  <2>2. pad(BLANK) \in Seq(Characters)
    BY <1>14, <1>16
  <2> HIDE DEF front, middle, end, pad
  <2>3. itoa(num, base, size, prec, flgs) = <<>> \o sign \o prefix \o <<>> \o zeros \o tmp \o pad(BLANK)
    BY <1>1, <2>1
  <2>4. <<>> \o sign \o prefix \o <<>> \o zeros \o tmp = head \o tail
    BY <1>19, <2>2, Zenon
  <2>5. itoa(num, base, size, prec, flgs) = head \o tail \o pad(BLANK)
    BY <2>3, <2>4
  <2> QED
    BY <1>12, <1>13, <1>14, <1>20, <2>5 DEF Padded, pad
<1>21. CASE "LEFT" \notin flgs /\ "ZEROPAD" \in flgs
  <2>1. front = <<>> /\ middle = pad("0") /\ end = <<>>
    BY <1>3, <1>8, <1>9, <1>14, <1>15, <1>17, <1>21
  <2>2. pad("0") \in Seq(Characters)
    BY <1>14, <1>16
  <2> HIDE DEF front, middle, end, pad
  <2>3. itoa(num, base, size, prec, flgs) = <<>> \o sign \o prefix \o pad("0") \o zeros \o tmp \o <<>>
    BY <1>1, <2>1
  <2>4. <<>> \o sign \o prefix \o pad("0") \o zeros \o tmp \o <<>> = head \o pad("0") \o tail
    BY <1>19, <2>2, Zenon
  <2>5. itoa(num, base, size, prec, flgs) = head \o pad("0") \o tail
    BY <2>3, <2>4
  <2> QED
    BY <1>12, <1>13, <1>14, <1>21, <2>5 DEF Padded, pad
<1>22. CASE "LEFT" \notin flgs /\ "ZEROPAD" \notin flgs
  <2>0. size2 = Spent(size1) /\ size3 = Spent(size2)
    BY <1>3, <1>8, <1>22
  <2>1. front = pad(BLANK) /\ middle = <<>> /\ end = <<>>
    <3>1. front = pad(BLANK)
      BY <1>8, <1>22
    <3>2. size2 \in Int /\ size2 <= 0 /\ size3 \in Int /\ size3 <= 0
      BY <1>14, <1>15, <2>0
    <3>3. c = BLANK
      BY <1>9, <1>22
    <3> HIDE DEF size2, size3
    <3> QED
      BY <1>3, <1>17, <1>22, <3>1, <3>2, <3>3
  <2>2. pad(BLANK) \in Seq(Characters)
    BY <1>14, <1>16
  <2> HIDE DEF front, middle, end, pad
  <2>3. itoa(num, base, size, prec, flgs) = pad(BLANK) \o sign \o prefix \o <<>> \o zeros \o tmp \o <<>>
    BY <1>1, <2>1
  <2>4. pad(BLANK) \o sign \o prefix \o <<>> \o zeros \o tmp \o <<>> = pad(BLANK) \o head \o tail
    BY <1>19, <2>2, Zenon
  <2>5. itoa(num, base, size, prec, flgs) = pad(BLANK) \o head \o tail
    BY <2>3, <2>4
  <2> QED
    BY <1>12, <1>13, <1>14, <1>22, <2>5 DEF Padded, pad
<1> QED
  BY <1>12, <1>13, <1>20, <1>21, <1>22

-----------------------------------------------------------------------------
(* Registers *)

\* The remainder is the only one.
LEMMA ModUnique ==
  \A q \in Int, r \in Nat, d \in Nat \ {0} : r < d => (q * d + r) % d = r
OBVIOUS

\* Quotient and remainder.
LEMMA DivMod ==
  ASSUME NEW n \in Int, NEW d \in Nat \ {0}
  PROVE  n \div d \in Int /\ n % d \in 0 .. d - 1 /\ n = (n \div d) * d + (n % d)
OBVIOUS

\* The two moduli: the words of a register fill it.
LEMMA Moduli ==
  /\ IntMod \in Nat \ {0, 1} /\ LongMod \in Nat \ {0, 1}
  /\ \E t \in Nat \ {0} : LongMod = t * IntMod
  /\ \E h \in Nat \ {0} : IntMod = 2 * h /\ IntMod \div 2 = h
  /\ IntMod <= LongMod
<1>1. IntMod \in Nat \ {0, 1} /\ LongMod \in Nat \ {0, 1} /\ IntMod % 2 = 0 /\ LongMod % IntMod = 0
  BY PrintkAssumption
<1> DEFINE t == LongMod \div IntMod
<1>2. t \in Int /\ LongMod = t * IntMod
  BY <1>1, DivMod
<1> HIDE DEF t
<1>3. t > 0
  <2>1. CASE t <= 0
    <3>1. t * IntMod <= 0
      BY <1>1, <1>2, <2>1
    <3> QED
      BY <1>1, <1>2, <3>1
  <2> QED
    BY <1>2, <2>1
<1>4. t * IntMod >= IntMod
  BY <1>1, <1>2, <1>3
<1>5. IntMod = 2 * (IntMod \div 2) /\ IntMod \div 2 \in Nat \ {0}
  BY <1>1
<1>6. \E h \in Nat \ {0} : IntMod = 2 * h /\ IntMod \div 2 = h
  BY <1>5
<1>7. \E s \in Nat \ {0} : LongMod = s * IntMod
  <2>1. t \in Nat \ {0}
    BY <1>2, <1>3
  <2> QED
    BY <1>2, <2>1
<1>8. IntMod <= LongMod
  BY <1>2, <1>4
<1> QED
  BY <1>1, <1>6, <1>7, <1>8

\* An int in a register is read back as itself.
LEMMA IntInSlot ==
  ASSUME NEW w \in Ints
  PROVE  w % LongMod \in Nat /\ Signed(((w % LongMod) % LongMod) % IntMod, IntMod) = w
<1>1. PICK h \in Nat \ {0} : IntMod = 2 * h /\ IntMod \div 2 = h
  BY Moduli
<1>2. PICK t \in Nat \ {0} : LongMod = t * IntMod
  BY Moduli
<1>3. w \in Int /\ - h < w /\ w < h
  BY <1>1 DEF Ints
<1>4. LongMod \in Nat \ {0} /\ IntMod \in Nat \ {0}
  BY Moduli
<1> DEFINE q == w \div LongMod
           r == w % LongMod
<1>5. q \in Int /\ r \in 0 .. LongMod - 1 /\ w = q * LongMod + r
  BY <1>3, <1>4, DivMod
<1> HIDE DEF q, r
<1>6. r % LongMod = r
  BY <1>4, <1>5
<1> DEFINE m == IF w < 0 THEN w + IntMod ELSE w
           k == IF w < 0 THEN - 1 ELSE 0
<1>7. m \in Nat /\ m < IntMod /\ k \in Int /\ w = k * IntMod + m
  BY <1>1, <1>3, <1>4
<1>8. Signed(m, IntMod) = w
  <2>1. CASE w < 0
    <3>1. m >= h /\ m - IntMod = w
      BY <1>1, <1>3, <2>1
    <3> HIDE DEF m
    <3> QED
      BY <1>1, <3>1 DEF Signed
  <2>2. CASE ~ (w < 0)
    <3>1. ~ (m >= h) /\ m = w
      BY <1>1, <1>3, <2>2
    <3> HIDE DEF m
    <3> QED
      BY <1>1, <3>1 DEF Signed
  <2> QED
    BY <2>1, <2>2
<1> HIDE DEF m, k
<1>9. r = (k - q * t) * IntMod + m
  <2>1. r = k * IntMod + m - q * (t * IntMod)
    BY <1>2, <1>4, <1>5, <1>7
  <2>2. q * (t * IntMod) = (q * t) * IntMod
    BY <1>4, <1>5
  <2> DEFINE u == q * t
  <2>3. u \in Int
    BY <1>5
  <2> HIDE DEF u
  <2>4. (k - u) * IntMod = k * IntMod - u * IntMod
    BY <1>4, <1>7, <2>3
  <2>5. k * IntMod \in Int /\ u * IntMod \in Int
    BY <1>4, <1>7, <2>3
  <2>6. r = k * IntMod + m - u * IntMod
    BY <2>1, <2>2 DEF u
  <2> QED
    BY <1>7, <2>4, <2>5, <2>6 DEF u
<1>10. k - q * t \in Int
  BY <1>5, <1>7
<1>11. r % IntMod = m
  BY <1>4, <1>7, <1>9, <1>10, ModUnique
<1> QED
  BY <1>5, <1>6, <1>8, <1>11 DEF r

\* A register's value, read as a long, an unsigned int or an unsigned long.
LEMMA SlotFacts ==
  ASSUME NEW s \in 0 .. LongMod - 1
  PROVE  /\ s % LongMod = s /\ s \in Nat
         /\ Signed(s, LongMod) \in Int /\ Signed(s, LongMod) % LongMod = s
         /\ Signed(s, LongMod) >= 0 => Signed(s, LongMod) = s
         /\ s % IntMod \in Nat /\ (s % IntMod) % LongMod = s % IntMod
<1>1. LongMod \in Nat \ {0} /\ IntMod \in Nat \ {0} /\ IntMod <= LongMod /\ s \in Nat /\ s < LongMod
  BY Moduli
<1>2. s % LongMod = s
  BY <1>1
<1>3. Signed(s, LongMod) = s \/ Signed(s, LongMod) = s - LongMod
  BY DEF Signed
<1>4. (s - LongMod) % LongMod = s
  <2>1. s - LongMod = (- 1) * LongMod + s
    BY <1>1
  <2> QED
    BY <1>1, <2>1, ModUnique
<1>5. s % IntMod \in 0 .. IntMod - 1
  BY <1>1, DivMod
<1> DEFINE m == s % IntMod
<1> HIDE DEF m
<1>6. m \in Nat /\ m < LongMod
  BY <1>1, <1>5 DEF m
<1>7. m % LongMod = m
  BY <1>1, <1>6
<1>8. s - LongMod < 0
  BY <1>1
<1> QED
  BY <1>1, <1>2, <1>3, <1>4, <1>6, <1>7, <1>8 DEF m

-----------------------------------------------------------------------------
(* What a directive renders *)

\* The width and the flags the loop of vsprintf arrives at.
WidthOf(d) == IF "width" \in d.star /\ d.width < 0 THEN - d.width ELSE d.width
FlagsAfter(d) ==
  IF "width" \in d.star /\ d.width < 0 THEN Flags(d) \cup {"LEFT"} ELSE Flags(d)
Bare(d) == "width" \notin d.star /\ d.width = NONE

\* The flag characters are the ones with a flag.
LEMMA FlagFacts ==
  /\ \A c \in FlagChars : FlagOf(c) # {}
  /\ \A c : FlagOf(c) \subseteq {"LEFT", "PLUS", "SPACE", "SPECIAL", "ZEROPAD"}
  /\ \A c : c \notin FlagChars => FlagOf(c) = {}
<1>1. \A c \in FlagChars : FlagOf(c) # {}
  <2> SUFFICES ASSUME NEW c \in FlagChars PROVE FlagOf(c) # {}
    OBVIOUS
  <2>1. c = "-" \/ c = "+" \/ c = BLANK \/ c = "#" \/ c = "0"
    BY Zenon DEF FlagChars
  <2>2. BLANK # "-" /\ BLANK # "+"
    BY BlankFacts, Zenon DEF Inked
  <2>3. BLANK # "#" /\ BLANK # "0"
    BY BlankFacts, Zenon DEF Inked
  <2> QED
    BY <2>1, <2>2, <2>3 DEF FlagOf
<1>2. \A c : FlagOf(c) \subseteq {"LEFT", "PLUS", "SPACE", "SPECIAL", "ZEROPAD"}
  BY DEF FlagOf
<1>3. \A c : c \notin FlagChars => FlagOf(c) = {}
  BY DEF FlagOf, FlagChars
<1> QED
  BY <1>1, <1>2, <1>3

\* The types of what a directive means.
LEMMA DirectiveFacts ==
  ASSUME NEW d, IsDirective(d)
  PROVE  /\ Flags(d) \subseteq {"LEFT", "PLUS", "SPACE", "SPECIAL", "ZEROPAD"}
         /\ WidthOf(d) \in Int /\ WidthOf(d) >= NONE
         /\ WidthOf(d) = NONE <=> Bare(d)
         /\ (~ Bare(d) /\ d.width < 0) <=> ("width" \in d.star /\ d.width < 0)
         /\ PrecisionOf(d) \in Int /\ PrecisionOf(d) >= NONE
         /\ d.width \in Int /\ d.precision \in Int /\ d.slot \in 0 .. LongMod - 1
<1>1. Flags(d) \subseteq {"LEFT", "PLUS", "SPACE", "SPECIAL", "ZEROPAD"}
  BY FlagFacts DEF Flags
<1>2. /\ d.width \in Int /\ ("width" \notin d.star => d.width = NONE \/ d.width > 0)
      /\ d.precision \in Int /\ ("precision" \notin d.star => d.precision = NONE \/ d.precision >= 0)
      /\ d.slot \in 0 .. LongMod - 1
  BY DEF IsDirective, Ints
<1>3. PrecisionOf(d) \in Int /\ PrecisionOf(d) >= NONE
  BY <1>2 DEF PrecisionOf, NONE
<1>4. CASE "width" \in d.star
  BY <1>1, <1>2, <1>3, <1>4 DEF WidthOf, Bare, NONE
<1>5. CASE "width" \notin d.star
  BY <1>1, <1>2, <1>3, <1>5 DEF WidthOf, Bare, NONE
<1> QED
  BY <1>4, <1>5

HeadFor(d) == IF d.conv \in NumberConversions THEN HeadOf(d) ELSE <<>>
TailFor(d) ==
  CASE d.conv \in NumberConversions -> TailOf(d) [] d.conv = "c" -> <<CharOf(d.slot)>>
    [] OTHER -> StringOf(d)

\* Filled, in the form of Padded.
LEMMA FilledIs ==
  ASSUME NEW d, IsDirective(d), NEW flgs,
         "LEFT" \in flgs <=> "LEFT" \in FlagsAfter(d),
         "ZEROPAD" \in flgs <=> (d.conv \in NumberConversions /\
                                  ("ZEROPAD" \in FlagsAfter(d) \/ (Bare(d) /\ d.conv = "p")))
  PROVE  Filled(d) = Padded(HeadFor(d), TailFor(d),
                            IF Bare(d) /\ d.conv = "p" THEN PtrDigits ELSE WidthOf(d), flgs)
<1> DEFINE number == d.conv \in NumberConversions
           head == IF number THEN HeadOf(d) ELSE <<>>
           tail == CASE number -> TailOf(d) [] d.conv = "c" -> <<CharOf(d.slot)>>
                     [] OTHER -> StringOf(d)
           bare == "width" \notin d.star /\ d.width = NONE
           width == CASE bare /\ d.conv = "p" -> PtrDigits [] ~ bare /\ d.width < 0 -> - d.width
                      [] OTHER -> d.width
           fill == width - Len(head) - Len(tail)
           left == "LEFT" \in Flags(d) \/ (~ bare /\ d.width < 0)
           zero == number /\ ("ZEROPAD" \in Flags(d) \/ (bare /\ d.conv = "p"))
<1>1. Filled(d) = CASE left -> head \o tail \o Repeat(BLANK, fill)
                    [] zero /\ ~ left -> head \o Repeat("0", fill) \o tail
                    [] ~ zero /\ ~ left -> Repeat(BLANK, fill) \o head \o tail
  BY DEF Filled
<1>2. head = HeadFor(d) /\ tail = TailFor(d)
  BY DEF HeadFor, TailFor
<1>3. bare <=> Bare(d)
  BY DEF Bare
<1>4. width = IF Bare(d) /\ d.conv = "p" THEN PtrDigits ELSE WidthOf(d)
  <2>1. (~ Bare(d) /\ d.width < 0) <=> ("width" \in d.star /\ d.width < 0)
    BY DirectiveFacts
  <2>2. CASE Bare(d)
    <3>1. WidthOf(d) = d.width
      BY <2>2 DEF Bare, WidthOf
    <3> QED
      BY <1>3, <2>2, <3>1
  <2>3. CASE ~ Bare(d) /\ d.width < 0
    BY <1>3, <2>1, <2>3 DEF WidthOf
  <2>4. CASE ~ Bare(d) /\ ~ (d.width < 0)
    BY <1>3, <2>1, <2>4 DEF WidthOf
  <2> QED
    BY <2>2, <2>3, <2>4
<1>5. left <=> "LEFT" \in flgs
  BY <1>3, DirectiveFacts DEF FlagsAfter
<1>6. zero <=> "ZEROPAD" \in flgs
  <2>1. "ZEROPAD" \in Flags(d) <=> "ZEROPAD" \in FlagsAfter(d)
    BY DEF FlagsAfter
  <2> QED
    BY <1>3, <2>1
<1> DEFINE w == IF Bare(d) /\ d.conv = "p" THEN PtrDigits ELSE WidthOf(d)
<1>7. fill = w - Len(HeadFor(d)) - Len(TailFor(d))
  BY <1>2, <1>4
<1> HIDE DEF head, tail, width, fill, left, zero, w
<1>8. CASE left
  BY <1>1, <1>2, <1>5, <1>7, <1>8 DEF Padded, w
<1>9. CASE ~ left /\ zero
  BY <1>1, <1>2, <1>5, <1>6, <1>7, <1>9 DEF Padded, w
<1>10. CASE ~ left /\ ~ zero
  BY <1>1, <1>2, <1>5, <1>6, <1>7, <1>10 DEF Padded, w
<1> QED
  BY <1>8, <1>9, <1>10

\* Padding gives characters.
LEMMA PaddedSeq ==
  ASSUME NEW head \in Seq(Characters), NEW tail \in Seq(Characters), NEW width \in Int,
         NEW flgs
  PROVE  Padded(head, tail, width, flgs) \in Seq(Characters)
<1> DEFINE fill == width - Len(head) - Len(tail)
<1>1. fill \in Int
  <2>1. Len(head) \in Nat /\ Len(tail) \in Nat
    BY LenProperties
  <2> QED
    BY <2>1
<1>2. Repeat(BLANK, fill) \in Seq(Characters) /\ Repeat("0", fill) \in Seq(Characters)
  BY <1>1, CharFacts, RepeatFacts
<1> DEFINE W == Seq(Characters)
           blanks == Repeat(BLANK, fill)
           zeros == Repeat("0", fill)
<1>3. \A r, s \in W : r \o s \in W
  BY ConcatProperties
<1>4. head \in W /\ tail \in W /\ blanks \in W /\ zeros \in W
  BY <1>2
<1>5. Padded(head, tail, width, flgs) =
        CASE "LEFT" \in flgs -> head \o tail \o blanks
          [] "LEFT" \notin flgs /\ "ZEROPAD" \in flgs -> head \o zeros \o tail
          [] "LEFT" \notin flgs /\ "ZEROPAD" \notin flgs -> blanks \o head \o tail
  BY DEF Padded
<1> HIDE DEF W, blanks, zeros, fill
<1>6. head \o tail \o blanks \in W /\ head \o zeros \o tail \in W /\ blanks \o head \o tail \in W
  BY <1>3, <1>4
<1>7. Padded(head, tail, width, flgs) \in W
  BY <1>5, <1>6
<1> QED
  BY <1>7 DEF W

\* ItoaIs, for every call.
LEMMA ItoaMakes ==
  \A flgs : \A num \in Int : \A base \in {8, 10, 16} : \A size \in Int : \A prec \in Int :
    Magnitude(num, flgs) \in Nat => Made(num, base, size, prec, flgs)
<1> TAKE flgs
<1> TAKE num \in Int
<1> TAKE base \in {8, 10, 16}
<1> TAKE size \in Int
<1> TAKE prec \in Int
<1> HAVE Magnitude(num, flgs) \in Nat
<1> QED
  BY ItoaIs

\* itoa is called with what the directive means.
CalledFor(d, num, base, size, flgs) ==
  /\ base = (CASE d.conv \in {"d", "i", "u"} -> 10 [] d.conv = "o" -> 8 [] OTHER -> 16)
  /\ size = (IF Bare(d) /\ d.conv = "p" THEN PtrDigits ELSE WidthOf(d))
  /\ "SIGN" \in flgs <=> d.conv \in {"d", "i"}
  /\ "LOWCASE" \in flgs <=> d.conv = "x"
  /\ "SPACE" \in flgs <=> "SPACE" \in Flags(d)
  /\ "SPECIAL" \in flgs <=> "SPECIAL" \in Flags(d)
  /\ "LEFT" \in flgs <=> "LEFT" \in FlagsAfter(d)
  /\ "ZEROPAD" \in flgs <=> ("ZEROPAD" \in FlagsAfter(d) \/ (Bare(d) /\ d.conv = "p"))
  /\ d.conv \in {"d", "i"} => ValueOf(d) = num
  /\ d.conv \notin {"d", "i"} => ValueOf(d) >= 0
  /\ ValueOf(d) >= 0 => num % LongMod = ValueOf(d)
  /\ ValueOf(d) \in Int

\* itoa called with what a directive means gives the directive's text.
LEMMA ItoaFilled ==
  ASSUME NEW d, IsDirective(d), d.conv \in NumberConversions,
         NEW num \in Int, NEW base \in {8, 10, 16}, NEW size \in Int, NEW flgs,
         CalledFor(d, num, base, size, flgs)
  PROVE  /\ itoa(num, base, size, PrecisionOf(d), flgs) = Filled(d)
         /\ Filled(d) \in Seq(Characters)
<1> DEFINE v == ValueOf(d)
           mag == IF "SIGN" \in flgs /\ num < 0 THEN - num ELSE num % LongMod
           digs == IF "LOWCASE" \in flgs THEN Lower ELSE Digits
           head == SignOf(num, flgs) \o PrefixOf(base, flgs)
           tail == Repeat("0", PrecisionOf(d) - Len(Numeral(mag, base, digs))) \o Numeral(mag, base, digs)
           signed == d.conv \in {"d", "i"}
<1>1. mag = (IF v < 0 THEN - v ELSE v) /\ mag \in Nat
  BY DEF CalledFor
<1>2. digs = IF d.conv = "x" THEN Lower ELSE Digits
  BY DEF CalledFor
<1>3. PrecisionOf(d) \in Int
  BY DirectiveFacts
<1>4. SignOf(num, flgs) =
        (CASE signed /\ v < 0 -> <<"-">>
           [] signed /\ v >= 0 -> <<"+">>
           [] ~ signed /\ "SPACE" \in Flags(d) -> <<BLANK>>
           [] OTHER -> <<>>)
  <2>1. CASE signed /\ v < 0
    BY <2>1 DEF SignOf, CalledFor
  <2>2. CASE signed /\ ~ (v < 0)
    BY <2>2 DEF SignOf, CalledFor
  <2>3. CASE ~ signed
    BY <2>3 DEF SignOf, CalledFor
  <2> QED
    BY <2>1, <2>2, <2>3
<1>5. PrefixOf(base, flgs) =
        (IF "SPECIAL" \in Flags(d)
         THEN CASE d.conv \in {"X", "p"} -> <<"0", "X">> [] d.conv = "x" -> <<"0", "x">>
                [] d.conv = "o" -> <<"0">> [] OTHER -> <<>>
         ELSE <<>>)
  <2>1. CASE "SPECIAL" \in Flags(d)
    <3>1. CASE d.conv = "x"
      BY <2>1, <3>1 DEF PrefixOf, CalledFor
    <3>2. CASE d.conv \in {"X", "p"}
      BY <2>1, <3>2 DEF PrefixOf, CalledFor
    <3>3. CASE d.conv = "o"
      BY <2>1, <3>3 DEF PrefixOf, CalledFor
    <3>4. CASE d.conv \in {"d", "i", "u"}
      BY <2>1, <3>4 DEF PrefixOf, CalledFor
    <3> QED
      BY <3>1, <3>2, <3>3, <3>4 DEF NumberConversions
  <2>2. CASE "SPECIAL" \notin Flags(d)
    BY <2>2 DEF PrefixOf, CalledFor
  <2> QED
    BY <2>1, <2>2
<1>6. head = HeadFor(d)
  BY <1>4, <1>5 DEF HeadFor, HeadOf
<1>7. tail = TailFor(d)
  <2> DEFINE n == Numeral(IF v < 0 THEN - v ELSE v,
                   CASE d.conv \in {"d", "i", "u"} -> 10 [] d.conv = "o" -> 8 [] OTHER -> 16,
                   IF d.conv = "x" THEN Lower ELSE Digits)
  <2>1. n = Numeral(mag, base, digs)
    <3>1. base = CASE d.conv \in {"d", "i", "u"} -> 10 [] d.conv = "o" -> 8 [] OTHER -> 16
      BY DEF CalledFor
    <3> QED
      BY <1>1, <1>2, <3>1
  <2>2. TailOf(d) = Repeat("0", PrecisionOf(d) - Len(n)) \o n
    BY DEF TailOf
  <2>3. TailFor(d) = TailOf(d)
    BY DEF TailFor, NumberConversions
  <2> HIDE DEF n, mag, digs
  <2> QED
    BY <2>1, <2>2, <2>3
<1>12. /\ mag = Magnitude(num, flgs) /\ head = HeadMade(num, base, flgs)
       /\ tail = TailMade(num, base, PrecisionOf(d), flgs)
  BY DEF Magnitude, DigitsFor, HeadMade, TailMade
<1> HIDE DEF mag, digs, head, tail
<1>8. /\ itoa(num, base, size, PrecisionOf(d), flgs) =
           Padded(head, tail, size, flgs)
      /\ head \in Seq(Characters) /\ tail \in Seq(Characters)
  <2>1. Magnitude(num, flgs) \in Nat
    BY <1>1, <1>12
  <2> DEFINE prec == PrecisionOf(d)
  <2>2. prec \in Int
    BY <1>3
  <2> HIDE DEF prec
  <2>3. /\ itoa(num, base, size, prec, flgs) =
              Padded(HeadMade(num, base, flgs), TailMade(num, base, prec, flgs), size, flgs)
        /\ HeadMade(num, base, flgs) \in Seq(Characters)
        /\ TailMade(num, base, prec, flgs) \in Seq(Characters)
    BY <2>1, <2>2, ItoaMakes DEF Made
  <2> QED
    BY <1>12, <2>3, Zenon DEF prec
<1>9. Filled(d) = Padded(HeadFor(d), TailFor(d), size, flgs)
  <2>1. "ZEROPAD" \in flgs <=> (d.conv \in NumberConversions /\
                                  ("ZEROPAD" \in FlagsAfter(d) \/ (Bare(d) /\ d.conv = "p")))
    BY DEF CalledFor
  <2>2. "LEFT" \in flgs <=> "LEFT" \in FlagsAfter(d)
    BY DEF CalledFor
  <2>3. size = IF Bare(d) /\ d.conv = "p" THEN PtrDigits ELSE WidthOf(d)
    BY DEF CalledFor
  <2> QED
    BY <2>1, <2>2, <2>3, FilledIs
<1>10. itoa(num, base, size, PrecisionOf(d), flgs) = Filled(d)
  BY <1>6, <1>7, <1>8, <1>9
<1>11. Padded(head, tail, size, flgs) \in Seq(Characters)
  BY <1>8, PaddedSeq
<1> QED
  BY <1>8, <1>10, <1>11

\* A number directive: the value is fetched as the qualifier says.
LEMMA NumberIs ==
  ASSUME NEW d, IsDirective(d), d.conv \in {"o", "x", "X", "d", "i", "u"}
  PROVE  /\ itoa(IF d.qualifier = "l" THEN Signed(d.slot, LongMod) ELSE d.slot % IntMod, BaseOf(d.conv),
                 WidthOf(d), PrecisionOf(d), FlagsAfter(d) \cup AttrOf(d.conv)) = Filled(d)
         /\ Filled(d) \in Seq(Characters)
<1> DEFINE num == IF d.qualifier = "l" THEN Signed(d.slot, LongMod) ELSE d.slot % IntMod
           base == BaseOf(d.conv)
           flgs == FlagsAfter(d) \cup AttrOf(d.conv)
<1>1. d.slot \in 0 .. LongMod - 1 /\ WidthOf(d) \in Int
      /\ Flags(d) \subseteq {"LEFT", "PLUS", "SPACE", "SPECIAL", "ZEROPAD"}
  BY DirectiveFacts
<1>2. d.slot \in Nat /\ d.slot % IntMod \in Nat /\ Signed(d.slot, LongMod) \in Int
      /\ Signed(d.slot, LongMod) % LongMod = d.slot
      /\ (Signed(d.slot, LongMod) >= 0 => Signed(d.slot, LongMod) = d.slot)
      /\ (d.slot % IntMod) % LongMod = d.slot % IntMod
  BY <1>1, SlotFacts
<1>3. base \in {8, 10, 16}
      /\ base = (CASE d.conv \in {"d", "i", "u"} -> 10 [] d.conv = "o" -> 8 [] OTHER -> 16)
  BY DEF BaseOf
<1>4. d.conv \in NumberConversions /\ d.conv # "p"
  BY DEF NumberConversions
<1>5. /\ "SIGN" \in flgs <=> d.conv \in {"d", "i"}
      /\ "LOWCASE" \in flgs <=> d.conv = "x"
      /\ "SPACE" \in flgs <=> "SPACE" \in Flags(d)
      /\ "SPECIAL" \in flgs <=> "SPECIAL" \in Flags(d)
      /\ "LEFT" \in flgs <=> "LEFT" \in FlagsAfter(d)
      /\ "ZEROPAD" \in flgs <=> "ZEROPAD" \in FlagsAfter(d)
  BY <1>1 DEF AttrOf, FlagsAfter
<1>6. /\ num \in Int /\ ValueOf(d) \in Int
      /\ d.conv \in {"d", "i"} => ValueOf(d) = num
      /\ d.conv \notin {"d", "i"} => ValueOf(d) >= 0
      /\ ValueOf(d) >= 0 => num % LongMod = ValueOf(d)
  <2>1. CASE d.qualifier = "l" /\ d.conv \in {"d", "i"}
    <3>1. ValueOf(d) = Signed(d.slot, LongMod) /\ num = Signed(d.slot, LongMod)
      BY <2>1 DEF ValueOf, Long
    <3> QED
      BY <1>2, <2>1, <3>1
  <2>2. CASE d.qualifier = "l" /\ d.conv \notin {"d", "i"}
    <3>1. ValueOf(d) = d.slot /\ num = Signed(d.slot, LongMod)
      BY <1>4, <2>2 DEF ValueOf, Long
    <3> QED
      BY <1>2, <2>2, <3>1
  <2>3. CASE d.qualifier # "l"
    <3>1. ValueOf(d) = d.slot % IntMod /\ num = d.slot % IntMod
      BY <1>4, <2>3 DEF ValueOf, Long
    <3> QED
      BY <1>2, <2>3, <3>1
  <2> QED
    BY <2>1, <2>2, <2>3
<1>7. WidthOf(d) = IF Bare(d) /\ d.conv = "p" THEN PtrDigits ELSE WidthOf(d)
  BY <1>4
<1>8. "ZEROPAD" \in flgs <=> ("ZEROPAD" \in FlagsAfter(d) \/ (Bare(d) /\ d.conv = "p"))
  BY <1>4, <1>5
<1> HIDE DEF num, base, flgs
<1>9. CalledFor(d, num, base, WidthOf(d), flgs)
  BY <1>3, <1>5, <1>6, <1>7, <1>8 DEF CalledFor
<1>10. itoa(num, base, WidthOf(d), PrecisionOf(d), flgs) = Filled(d) /\ Filled(d) \in Seq(Characters)
  BY <1>1, <1>3, <1>4, <1>6, <1>9, ItoaFilled
<1> QED
  BY <1>10 DEF num, base, flgs

\* A pointer: as wide as two digits for each byte, and filled with zeros,
\* when the format gives no width.
LEMMA PointerIs ==
  ASSUME NEW d, IsDirective(d), d.conv = "p"
  PROVE  /\ (IF WidthOf(d) = NONE
             THEN itoa(Signed(d.slot, LongMod), 16, PtrDigits, PrecisionOf(d), FlagsAfter(d) \cup {"ZEROPAD"})
             ELSE itoa(Signed(d.slot, LongMod), 16, WidthOf(d), PrecisionOf(d), FlagsAfter(d))) = Filled(d)
         /\ Filled(d) \in Seq(Characters)
<1> DEFINE num == Signed(d.slot, LongMod)
           size == IF WidthOf(d) = NONE THEN PtrDigits ELSE WidthOf(d)
           flgs == IF WidthOf(d) = NONE THEN FlagsAfter(d) \cup {"ZEROPAD"} ELSE FlagsAfter(d)
<1>1. d.slot \in 0 .. LongMod - 1 /\ WidthOf(d) \in Int /\ (WidthOf(d) = NONE <=> Bare(d))
      /\ Flags(d) \subseteq {"LEFT", "PLUS", "SPACE", "SPECIAL", "ZEROPAD"}
  BY DirectiveFacts
<1>2. d.slot \in Nat /\ Signed(d.slot, LongMod) \in Int /\ Signed(d.slot, LongMod) % LongMod = d.slot
  BY <1>1, SlotFacts
<1>3. 16 \in {8, 10, 16}
      /\ 16 = (CASE d.conv \in {"d", "i", "u"} -> 10 [] d.conv = "o" -> 8 [] OTHER -> 16)
  OBVIOUS
<1>4. d.conv \in NumberConversions
  BY DEF NumberConversions
<1>5. /\ "SIGN" \in flgs <=> d.conv \in {"d", "i"}
      /\ "LOWCASE" \in flgs <=> d.conv = "x"
      /\ "SPACE" \in flgs <=> "SPACE" \in Flags(d)
      /\ "SPECIAL" \in flgs <=> "SPECIAL" \in Flags(d)
      /\ "LEFT" \in flgs <=> "LEFT" \in FlagsAfter(d)
      /\ "ZEROPAD" \in flgs <=> ("ZEROPAD" \in FlagsAfter(d) \/ (Bare(d) /\ d.conv = "p"))
  BY <1>1 DEF FlagsAfter
<1>6. /\ num \in Int /\ ValueOf(d) \in Int
      /\ d.conv \in {"d", "i"} => ValueOf(d) = num
      /\ d.conv \notin {"d", "i"} => ValueOf(d) >= 0
      /\ ValueOf(d) >= 0 => num % LongMod = ValueOf(d)
  <2>1. ValueOf(d) = d.slot
    BY DEF ValueOf
  <2> QED
    BY <1>2, <2>1
<1>7. size = (IF Bare(d) /\ d.conv = "p" THEN PtrDigits ELSE WidthOf(d)) /\ size \in Int
  BY <1>1, PrintkAssumption
<1> HIDE DEF num, size, flgs
<1>11. CalledFor(d, num, 16, size, flgs)
  BY <1>3, <1>5, <1>6, <1>7 DEF CalledFor
<1>8. itoa(num, 16, size, PrecisionOf(d), flgs) = Filled(d) /\ Filled(d) \in Seq(Characters)
  BY <1>3, <1>4, <1>6, <1>7, <1>11, ItoaFilled
<1>9. CASE WidthOf(d) = NONE
  BY <1>8, <1>9 DEF num, size, flgs
<1>10. CASE WidthOf(d) # NONE
  BY <1>8, <1>10 DEF num, size, flgs
<1> QED
  BY <1>9, <1>10

\* The two loops around a character or a string pad it.
LEMMA AlignedIs ==
  ASSUME NEW t \in Seq(Characters), field_width \in Int, NEW flgs,
         "LEFT" \in flgs <=> "LEFT" \in flags, "ZEROPAD" \notin flgs
  PROVE  Aligned(t) = Padded(<<>>, t, field_width, flgs)
<1> DEFINE pad == Repeat(BLANK, field_width - Len(t))
           nil == <<>>
<1>1. Len(t) \in Nat
  BY LenProperties
<1>2. field_width - Len(nil) - Len(t) = field_width - Len(t) /\ field_width - Len(t) \in Int
  BY <1>1
<1>3. pad \in Seq(Characters)
  BY <1>2, CharFacts, RepeatFacts
<1>4. nil \o t = t /\ pad \o nil = pad
  <2> HIDE DEF pad
  <2> QED
    BY <1>3, ConcatEmptySeq
<1>5. Aligned(t) = IF "LEFT" \in flags THEN t \o pad ELSE pad \o t
  BY DEF Aligned
<1>6. Padded(nil, t, field_width, flgs) =
        IF "LEFT" \in flgs THEN nil \o t \o pad ELSE pad \o nil \o t
  <2>1. Repeat(BLANK, field_width - Len(nil) - Len(t)) = pad
    BY <1>2
  <2> HIDE DEF pad, nil
  <2>2. CASE "LEFT" \in flgs
    BY <2>1, <2>2 DEF Padded
  <2>3. CASE "LEFT" \notin flgs
    BY <2>1, <2>3 DEF Padded
  <2> QED
    BY <2>2, <2>3
<1> HIDE DEF pad, nil
<1>7. Aligned(t) = Padded(nil, t, field_width, flgs)
  BY <1>4, <1>5, <1>6
<1> QED
  BY <1>7 DEF nil

\* The loop has read the flags, the width and the precision of d.
ReadIn(d) ==
  flags = FlagsAfter(d) /\ field_width = WidthOf(d) /\ precision = PrecisionOf(d)

\* The text of a character or a string, without its padding.
LEMMA CharTail ==
  ASSUME NEW d, IsDirective(d), d.conv = "c"
  PROVE  TailFor(d) = <<CharOf(d.slot)>> /\ TailFor(d) \in Seq(Characters)
<1>1. d.slot \in Nat
  BY DirectiveFacts, SlotFacts
<1>2. CharOf(d.slot) \in Characters
  <2>1. CASE d.slot % 256 \in 48 .. 57
    <3>1. (d.slot % 256) - 47 \in 1 .. 16
      BY <2>1
    <3>2. CharOf(d.slot) = Digits[(d.slot % 256) - 47]
      BY <2>1 DEF CharOf
    <3> QED
      BY <3>1, <3>2, CharFacts
  <2>2. CASE ~ (d.slot % 256 \in 48 .. 57)
    <3>1. CharOf(d.slot) = "?"
      BY <2>2 DEF CharOf
    <3> QED
      BY <3>1, CharFacts
  <2> QED
    BY <2>1, <2>2
<1>3. <<CharOf(d.slot)>> \in Seq(Characters)
  BY <1>2, SingleFacts
<1>4. TailFor(d) = <<CharOf(d.slot)>>
  BY DEF TailFor, NumberConversions
<1> QED
  BY <1>3, <1>4

\* A string's address is not NULL.
LEMMA StringTail ==
  ASSUME NEW d, IsDirective(d), d.conv = "s"
  PROVE  TailFor(d) = StringOf(d) /\ TailFor(d) \in Seq(Characters) /\ d.slot # 0
<1> DEFINE s == StringAt[d.slot]
           n == PrecisionOf(d)
<1>1. s \in Seq(STRING) /\ d.slot # 0
  BY PrintkAssumption DEF IsDirective
<1>2. n \in Int /\ n >= NONE
  BY DirectiveFacts
<1> HIDE DEF s, n
<1>3. s \in Seq(Characters) /\ Len(s) \in Nat
  <2>1. \A j \in 1 .. Len(s) : s[j] \in STRING
    BY <1>1, ElementOfSeq
  <2>2. \A j \in 1 .. Len(s) : s[j] \in Characters
    BY <2>1, CharFacts
  <2>3. s \in [1 .. Len(s) -> Characters] /\ Len(s) \in Nat
    BY <1>1, <2>2, LenProperties
  <2> QED
    BY <2>3, SeqDef
<1>5. StringOf(d) \in Seq(Characters)
  <2>1. StringOf(d) = IF n = NONE \/ Len(s) <= n THEN s ELSE SubSeq(s, 1, n)
    BY DEF StringOf, s, n
  <2>2. CASE n = NONE \/ Len(s) <= n
    BY <1>3, <2>1, <2>2
  <2>3. CASE ~ (n = NONE \/ Len(s) <= n)
    <3>1. n \in Nat /\ n < Len(s)
      BY <1>2, <1>3, <2>3 DEF NONE
    <3>2. \A i \in 1 .. n : s[i] \in Characters
      <4>1. \A i \in 1 .. n : i \in 1 .. Len(s)
        BY <1>3, <3>1
      <4> QED
        BY <1>3, <4>1, ElementOfSeq
    <3>3. SubSeq(s, 1, n) = [i \in 1 .. n |-> s[i]]
      <4>1. SubSeq(s, 1, n) = [i \in 1 .. (1 + n - 1) |-> s[1 + i - 1]]
        BY <1>3, <3>1 
      <4> QED
        BY <3>1, <4>1
    <3>4. SubSeq(s, 1, n) \in [1 .. n -> Characters]
      BY <3>2, <3>3
    <3>5. SubSeq(s, 1, n) \in Seq(Characters)
      BY <3>1, <3>4, SeqDef
    <3> QED
      BY <2>1, <2>3, <3>5
  <2> QED
    BY <2>2, <2>3
<1>6. TailFor(d) = StringOf(d)
  BY DEF TailFor, NumberConversions
<1> QED
  BY <1>1, <1>5, <1>6

\* The text of a character or a string: zeros are never its padding.
LEMMA TextFilled ==
  ASSUME NEW d, IsDirective(d), d.conv \in {"c", "s"}
  PROVE  /\ Filled(d) = Padded(<<>>, TailFor(d), WidthOf(d), FlagsAfter(d) \ {"ZEROPAD"})
         /\ Filled(d) \in Seq(Characters) /\ TailFor(d) \in Seq(Characters) /\ WidthOf(d) \in Int
<1> DEFINE flgs == FlagsAfter(d) \ {"ZEROPAD"}
           t == TailFor(d)
<1>1. d.conv \notin NumberConversions /\ d.conv # "p"
  BY DEF NumberConversions
<1>2. WidthOf(d) \in Int
  BY DirectiveFacts
<1>3. /\ "LEFT" \in flgs <=> "LEFT" \in FlagsAfter(d)
      /\ "ZEROPAD" \notin flgs
  OBVIOUS
<1>4. Filled(d) = Padded(HeadFor(d), t, WidthOf(d), flgs)
  <2> HIDE DEF flgs
  <2>1. Filled(d) = Padded(HeadFor(d), TailFor(d),
                            IF Bare(d) /\ d.conv = "p" THEN PtrDigits ELSE WidthOf(d), flgs)
    BY <1>1, <1>3, FilledIs
  <2> QED
    BY <1>1, <2>1
<1>5. HeadFor(d) = <<>>
  BY <1>1 DEF HeadFor
<1>6. t \in Seq(Characters)
  BY CharTail, StringTail
<1> HIDE DEF flgs, t
<1>8. Padded(<<>>, t, WidthOf(d), flgs) \in Seq(Characters)
  <2>1. <<>> \in Seq(Characters)
    OBVIOUS
  <2> QED
    BY <1>2, <1>6, <2>1, PaddedSeq
<1> QED
  BY <1>2, <1>4, <1>5, <1>6, <1>8 DEF t, flgs

\* Its alignment, when the loop has read the directive.
LEMMA AlignedFilled ==
  ASSUME NEW d, IsDirective(d), d.conv \in {"c", "s"}, ReadIn(d)
  PROVE  Aligned(TailFor(d)) = Filled(d)
<1> DEFINE flgs == FlagsAfter(d) \ {"ZEROPAD"}
           t == TailFor(d)
<1>1. Filled(d) = Padded(<<>>, t, WidthOf(d), flgs) /\ t \in Seq(Characters) /\ WidthOf(d) \in Int
  BY TextFilled
<1>2. "LEFT" \in flgs <=> "LEFT" \in FlagsAfter(d)
  OBVIOUS
<1>3. "ZEROPAD" \notin flgs
  OBVIOUS
<1>4. field_width \in Int /\ field_width = WidthOf(d) /\ flags = FlagsAfter(d)
  BY <1>1 DEF ReadIn
<1> HIDE DEF flgs, t
<1>5. "LEFT" \in flgs <=> "LEFT" \in flags
  BY <1>2, <1>4
<1>6. Aligned(t) = Padded(<<>>, t, field_width, flgs)
  BY <1>1, <1>3, <1>4, <1>5, AlignedIs
<1> QED
  BY <1>1, <1>4, <1>6 DEF t

\* What PrintChar and PrintString append.
LEMMA CharIs ==
  ASSUME NEW d, IsDirective(d), d.conv = "c", ReadIn(d)
  PROVE  Aligned(<<CharOf(d.slot)>>) = Filled(d)
BY CharTail, AlignedFilled

\* The same of a string, cut off at its precision.
LEMMA StringIs ==
  ASSUME NEW d, IsDirective(d), d.conv = "s", ReadIn(d)
  PROVE  Aligned(Truncated(StringAt[d.slot])) = Filled(d)
<1>1. StringOf(d) = Truncated(StringAt[d.slot])
  BY DEF StringOf, Truncated, ReadIn
<1> QED
  BY <1>1, StringTail, AlignedFilled

\* The text of a directive is made of characters.
LEMMA FilledSeq ==
  ASSUME NEW d, IsDirective(d), d.conv \notin {"n", "%"}
  PROVE  Filled(d) \in Seq(Characters)
<1>1. d.conv \in {"o", "x", "X", "d", "i", "u", "p", "c", "s"}
  BY DEF IsDirective, Conversions
<1> QED
  BY <1>1, NumberIs, PointerIs, TextFilled

-----------------------------------------------------------------------------
(* The parts of a directive in the format *)

\* A sequence of a set is one of every larger set.
LEMMA Widen ==
  ASSUME NEW A, NEW B, A \subseteq B, NEW s \in Seq(A)
  PROVE  s \in Seq(B)
<1>1. \A j \in 1 .. Len(s) : s[j] \in B
  BY ElementOfSeq
<1>2. s \in [1 .. Len(s) -> B] /\ Len(s) \in Nat
  BY <1>1, LenProperties
<1> QED
  BY <1>2, SeqDef

\* The parts of a directive are made of characters.
LEMMA PartsTyped ==
  ASSUME NEW d, IsDirective(d)
  PROVE  /\ d.flags \in Seq(Characters) /\ d.flags \in Seq(FlagChars)
         /\ WidthText(d) \in Seq(Characters) /\ PrecisionText(d) \in Seq(Characters)
         /\ QualifierText(d) \in Seq(Characters) /\ <<d.conv>> \in Seq(Characters)
<1>1. /\ d.flags \in Seq(FlagChars) /\ d.conv \in Conversions
      /\ d.qualifier \in {NUL, "h", "l", "L", "Z"}
      /\ d.width \in Int /\ ("width" \notin d.star => d.width = NONE \/ d.width > 0)
      /\ d.precision \in Int /\ ("precision" \notin d.star => d.precision = NONE \/ d.precision >= 0)
  BY DEF IsDirective, Ints
<1>2. d.flags \in Seq(Characters)
  BY <1>1, CharFacts, Widen
<1>3. \A n \in Nat : Numeral(n, 10, Digits) \in Seq(Characters)
  <2>1. Decimals \subseteq Characters
    BY CharFacts DEF Decimals
  <2> QED
    BY <2>1, DecimalNumeral, Widen
<1>4. /\ "*" \in Characters /\ "." \in Characters /\ d.conv \in Characters
      /\ d.qualifier # NUL => d.qualifier \in Characters
  <2>1. "h" \in Characters /\ "l" \in Characters /\ "L" \in Characters /\ "Z" \in Characters
    BY DEF Characters
  <2> QED
    BY <1>1, <2>1, CharFacts
<1>5. <<"*">> \in Seq(Characters) /\ <<".">> \in Seq(Characters) /\ <<".", "*">> \in Seq(Characters) /\ <<>> \in Seq(Characters)
  BY <1>4
<1>6. WidthText(d) \in Seq(Characters)
  <2>1. CASE "width" \in d.star
    <3>1. WidthText(d) = <<"*">>
      BY <2>1 DEF WidthText
    <3> QED
      BY <1>5, <3>1
  <2>2. CASE "width" \notin d.star /\ d.width = NONE
    <3>1. WidthText(d) = <<>>
      BY <2>2 DEF WidthText
    <3> QED
      BY <1>5, <3>1
  <2>3. CASE "width" \notin d.star /\ d.width # NONE
    <3>1. WidthText(d) = Numeral(d.width, 10, Digits)
      BY <2>3 DEF WidthText
    <3>2. d.width \in Nat
      BY <1>1, <2>3
    <3> QED
      BY <1>3, <3>1, <3>2
  <2> QED
    BY <2>1, <2>2, <2>3
<1>7. PrecisionText(d) \in Seq(Characters)
  <2>1. CASE "precision" \in d.star
    <3>1. PrecisionText(d) = <<".", "*">>
      BY <2>1 DEF PrecisionText
    <3> QED
      BY <1>5, <3>1
  <2>2. CASE "precision" \notin d.star /\ d.precision = NONE
    <3>1. PrecisionText(d) = <<>>
      BY <2>2 DEF PrecisionText, NONE
    <3> QED
      BY <1>5, <3>1
  <2>3. CASE "precision" \notin d.star /\ d.precision = 0
    <3>1. PrecisionText(d) = <<".">>
      BY <2>3 DEF PrecisionText, NONE
    <3> QED
      BY <1>5, <3>1
  <2>4. CASE "precision" \notin d.star /\ d.precision # NONE /\ d.precision # 0
    <3>1. PrecisionText(d) = <<".">> \o Numeral(d.precision, 10, Digits)
      BY <2>4 DEF PrecisionText
    <3>2. d.precision \in Nat
      BY <1>1, <2>4
    <3> DEFINE s == <<".">>
               t == Numeral(d.precision, 10, Digits)
    <3>3. s \in Seq(Characters) /\ t \in Seq(Characters)
      BY <1>3, <1>5, <3>2
    <3> HIDE DEF s, t
    <3>4. s \o t \in Seq(Characters)
      BY <3>3, ConcatProperties
    <3> QED
      BY <3>1, <3>4 DEF s, t
  <2> QED
    BY <2>1, <2>2, <2>3, <2>4
<1>8. QualifierText(d) \in Seq(Characters)
  <2>1. CASE d.qualifier = NUL
    <3>1. QualifierText(d) = <<>>
      BY <2>1 DEF QualifierText
    <3> QED
      BY <1>5, <3>1
  <2>2. CASE d.qualifier # NUL
    <3>1. QualifierText(d) = <<d.qualifier>>
      BY <2>2 DEF QualifierText
    <3> QED
      BY <1>4, <2>2, <3>1, SingleFacts
  <2> QED
    BY <2>1, <2>2
<1> QED
  BY <1>1, <1>2, <1>4, <1>6, <1>7, <1>8, SingleFacts

\* How far behind its "%" each part begins.
WidthAt(d) == 1 + Len(d.flags)
PrecisionAt(d) == WidthAt(d) + Len(WidthText(d))
QualifierAt(d) == PrecisionAt(d) + Len(PrecisionText(d))
ConvAt(d) == QualifierAt(d) + Len(QualifierText(d))

\* The types of those places.
LEMMA PlacesTyped ==
  ASSUME NEW d, IsDirective(d)
  PROVE  /\ WidthAt(d) \in Nat \ {0} /\ PrecisionAt(d) \in Nat /\ QualifierAt(d) \in Nat /\ ConvAt(d) \in Nat
         /\ Len(d.flags) \in Nat /\ Len(WidthText(d)) \in Nat
         /\ Len(PrecisionText(d)) \in Nat /\ Len(QualifierText(d)) \in Nat
<1>1. /\ Len(d.flags) \in Nat /\ Len(WidthText(d)) \in Nat
      /\ Len(PrecisionText(d)) \in Nat /\ Len(QualifierText(d)) \in Nat
  BY PartsTyped, LenProperties
<1> QED
  BY <1>1 DEF WidthAt, PrecisionAt, QualifierAt, ConvAt

\* Where a directive stands, each of its parts stands in its place.
LEMMA SpellingParts ==
  ASSUME NEW d, IsDirective(d)
  PROVE  /\ Spelling(d) \in Seq(Characters) /\ Len(Spelling(d)) = ConvAt(d) + 1
         /\ \A f : \A p \in Nat \ {0} : Stands(f, p, Spelling(d)) =>
              /\ Stands(f, p, <<"%">>) /\ Stands(f, p + 1, d.flags)
              /\ Stands(f, p + WidthAt(d), WidthText(d))
              /\ Stands(f, p + PrecisionAt(d), PrecisionText(d))
              /\ Stands(f, p + QualifierAt(d), QualifierText(d))
              /\ Stands(f, p + ConvAt(d), <<d.conv>>)
<1> DEFINE s1 == <<"%">>
           s2 == d.flags
           s3 == WidthText(d)
           s4 == PrecisionText(d)
           s5 == QualifierText(d)
           s6 == <<d.conv>>
<1>1. Spelling(d) = s1 \o s2 \o s3 \o s4 \o s5 \o s6
  <2>1. d.conv # "text"
    BY DEF IsDirective, Conversions
  <2> QED
    BY <2>1 DEF Spelling
<1>2. s1 \in Seq(Characters) /\ Len(s1) = 1 /\ Len(s6) = 1
  <2>1. "%" \in Characters
    BY CharFacts
  <2> QED
    BY <2>1, SingleFacts
<1>3. s2 \in Seq(Characters) /\ s3 \in Seq(Characters) /\ s4 \in Seq(Characters) /\ s5 \in Seq(Characters) /\ s6 \in Seq(Characters)
  BY PartsTyped
<1>4. Len(s2) \in Nat /\ Len(s3) \in Nat /\ Len(s4) \in Nat /\ Len(s5) \in Nat
  BY PlacesTyped
<1>5. /\ WidthAt(d) = 1 + Len(s2) /\ PrecisionAt(d) = WidthAt(d) + Len(s3)
      /\ QualifierAt(d) = PrecisionAt(d) + Len(s4) /\ ConvAt(d) = QualifierAt(d) + Len(s5)
  BY DEF WidthAt, PrecisionAt, QualifierAt, ConvAt
<1>6. WidthAt(d) \in Nat /\ PrecisionAt(d) \in Nat /\ QualifierAt(d) \in Nat /\ ConvAt(d) \in Nat
  BY PlacesTyped
<1> HIDE DEF s1, s2, s3, s4, s5, s6
<1> DEFINE c2 == s1 \o s2
           c3 == c2 \o s3
           c4 == c3 \o s4
           c5 == c4 \o s5
<1>7. c2 \in Seq(Characters) /\ Len(c2) = WidthAt(d)
  <2>1. c2 = s1 \o s2
    OBVIOUS
  <2> HIDE DEF c2
  <2>2. s1 \o s2 \in Seq(Characters) /\ Len(s1 \o s2) = Len(s1) + Len(s2)
    BY <1>3, <1>2, ConcatProperties
  <2> QED
    BY <1>5, <1>2, <2>1, <2>2
<1> HIDE DEF c2
<1>8. c3 \in Seq(Characters) /\ Len(c3) = PrecisionAt(d)
  <2>1. c3 = c2 \o s3
    OBVIOUS
  <2> HIDE DEF c3
  <2>2. c2 \o s3 \in Seq(Characters) /\ Len(c2 \o s3) = Len(c2) + Len(s3)
    BY <1>3, <1>7, ConcatProperties
  <2> QED
    BY <1>5, <1>7, <2>1, <2>2
<1> HIDE DEF c3
<1>9. c4 \in Seq(Characters) /\ Len(c4) = QualifierAt(d)
  <2>1. c4 = c3 \o s4
    OBVIOUS
  <2> HIDE DEF c4
  <2>2. c3 \o s4 \in Seq(Characters) /\ Len(c3 \o s4) = Len(c3) + Len(s4)
    BY <1>3, <1>8, ConcatProperties
  <2> QED
    BY <1>5, <1>8, <2>1, <2>2
<1> HIDE DEF c4
<1>10. c5 \in Seq(Characters) /\ Len(c5) = ConvAt(d)
  <2>1. c5 = c4 \o s5
    OBVIOUS
  <2> HIDE DEF c5
  <2>2. c4 \o s5 \in Seq(Characters) /\ Len(c4 \o s5) = Len(c4) + Len(s5)
    BY <1>3, <1>9, ConcatProperties
  <2> QED
    BY <1>5, <1>9, <2>1, <2>2
<1> HIDE DEF c5
<1>11. Spelling(d) = c5 \o s6
  BY <1>1 DEF c5, c4, c3, c2
<1>12. Spelling(d) \in Seq(Characters) /\ Len(Spelling(d)) = ConvAt(d) + 1
  <2>1. c5 \o s6 \in Seq(Characters) /\ Len(c5 \o s6) = Len(c5) + Len(s6)
    BY <1>3, <1>10, ConcatProperties
  <2> QED
    BY <1>2, <1>10, <1>11, <2>1
<1>13. ASSUME NEW f, NEW p \in Nat \ {0}, Stands(f, p, Spelling(d))
       PROVE  /\ Stands(f, p, s1) /\ Stands(f, p + 1, s2)
              /\ Stands(f, p + WidthAt(d), s3)
              /\ Stands(f, p + PrecisionAt(d), s4)
              /\ Stands(f, p + QualifierAt(d), s5)
              /\ Stands(f, p + ConvAt(d), s6)
  <2>1. Stands(f, p, c5) /\ Stands(f, p + ConvAt(d), s6)
    BY <1>3, <1>10, <1>11, <1>13, StandsConcat
  <2>2. Stands(f, p, c4) /\ Stands(f, p + QualifierAt(d), s5)
    BY <1>3, <1>9, <2>1, StandsConcat DEF c5
  <2>3. Stands(f, p, c3) /\ Stands(f, p + PrecisionAt(d), s4)
    BY <1>3, <1>8, <2>2, StandsConcat DEF c4
  <2>4. Stands(f, p, c2) /\ Stands(f, p + WidthAt(d), s3)
    BY <1>3, <1>7, <2>3, StandsConcat DEF c3
  <2>5. Stands(f, p, s1) /\ Stands(f, p + 1, s2)
    BY <1>2, <1>3, <2>4, StandsConcat DEF c2
  <2> QED
    BY <2>1, <2>2, <2>3, <2>4, <2>5
<1> QED
  BY <1>12, <1>13 DEF s1, s2, s3, s4, s5, s6

-----------------------------------------------------------------------------
(* A call whose format spells directives *)

Spellings(c) == [k \in 1 .. Len(c.meant) |-> Spelling(c.meant[k])]
ArgumentLists(c) == [k \in 1 .. Len(c.meant) |-> Arguments(c.meant[k])]
Renderings(c) == [k \in 1 .. Len(c.meant) |-> Rendering(c.meant[k])]

\* The characters and the arguments of the first k directives, their text, and
\* the counts they store.
Spot(c, k) == Len(Flat(Spellings(c), k))
Taken(c, k) == Len(Flat(ArgumentLists(c), k))
TextTo(c, k) == Flat(Renderings(c), k)
CountLists(c) ==
  [k \in 1 .. Len(c.meant) |-> IF c.meant[k].conv = "n" THEN <<Len(TextTo(c, k - 1))>> ELSE <<>>]
CountsTo(c, k) == Flat(CountLists(c), k)

\* A literal character is spelled by itself.
LEMMA LiteralFacts ==
  ASSUME NEW d, IsLiteral(d)
  PROVE  /\ d.conv = "text" /\ d.char \in Characters /\ d.char # NUL /\ d.char # "%"
         /\ Spelling(d) = <<d.char>> /\ Arguments(d) = <<>> /\ Rendering(d) = <<d.char>>
         /\ Spelling(d) \in Seq(Characters)
<1>1. d.conv = "text" /\ d.char \in STRING /\ d.char # NUL /\ d.char # "%"
  BY DEF IsLiteral
<1>2. d.char \in Characters
  BY <1>1, CharFacts
<1>3. Spelling(d) = <<d.char>> /\ Arguments(d) = <<>>
  BY <1>1 DEF Spelling, Arguments
<1>4. Rendering(d) = <<d.char>>
  BY <1>1 DEF Rendering
<1> QED
  BY <1>1, <1>2, <1>3, <1>4, SingleFacts

\* The arguments of a directive: a starred width, a starred precision, and
\* the one the conversion takes.
FirstArg(d) == Starred(d, "width", d.width)
SecondArg(d) == Starred(d, "precision", d.precision)
LastArg(d) == IF d.conv = "%" THEN <<>> ELSE <<d.slot>>

\* The arguments of a directive stand one behind another.
LEMMA ArgumentParts ==
  ASSUME NEW d, IsDirective(d)
  PROVE  /\ Arguments(d) = FirstArg(d) \o SecondArg(d) \o LastArg(d) /\ Arguments(d) \in Seq(Nat)
         /\ Len(FirstArg(d)) \in Nat /\ Len(SecondArg(d)) \in Nat /\ Len(LastArg(d)) \in Nat
         /\ Len(Arguments(d)) = Len(FirstArg(d)) + Len(SecondArg(d)) + Len(LastArg(d))
         /\ \A f : \A p \in Nat \ {0} : Stands(f, p, Arguments(d)) =>
              /\ Stands(f, p, FirstArg(d)) /\ Stands(f, p + Len(FirstArg(d)), SecondArg(d))
              /\ Stands(f, p + Len(FirstArg(d)) + Len(SecondArg(d)), LastArg(d))
<1> DEFINE s1 == FirstArg(d)
           s2 == SecondArg(d)
           s3 == LastArg(d)
           c2 == s1 \o s2
<1>1. Arguments(d) = c2 \o s3
  <2>1. d.conv # "text"
    BY DEF IsDirective, Conversions
  <2> QED
    BY <2>1 DEF Arguments, FirstArg, SecondArg, LastArg
<1>2. s1 \in Seq(Nat) /\ s2 \in Seq(Nat)
  <2>1. d.width \in Ints /\ d.precision \in Ints
    BY DEF IsDirective
  <2>2. d.width % LongMod \in Nat /\ d.precision % LongMod \in Nat
    BY <2>1, IntInSlot
  <2> QED
    BY <2>2 DEF FirstArg, SecondArg, Starred
<1>3. s3 \in Seq(Nat)
  <2>1. d.slot \in Nat
    BY DirectiveFacts, SlotFacts
  <2> QED
    BY <2>1 DEF LastArg
<1> HIDE DEF s1, s2, s3
<1>4. Len(s1) \in Nat /\ Len(s2) \in Nat /\ Len(s3) \in Nat
  BY <1>2, <1>3, LenProperties
<1>5. s1 \o s2 \in Seq(Nat) /\ Len(s1 \o s2) = Len(s1) + Len(s2)
  BY <1>2, ConcatProperties
<1>6. c2 \in Seq(Nat) /\ Len(c2) = Len(s1) + Len(s2)
  BY <1>5
<1> HIDE DEF c2
<1>7. c2 \o s3 \in Seq(Nat) /\ Len(c2 \o s3) = Len(c2) + Len(s3)
  BY <1>3, <1>6, ConcatProperties
<1>8. ASSUME NEW f, NEW p \in Nat \ {0}, Stands(f, p, Arguments(d))
      PROVE  /\ Stands(f, p, s1) /\ Stands(f, p + Len(s1), s2)
             /\ Stands(f, p + Len(s1) + Len(s2), s3)
  <2>1. Stands(f, p, c2) /\ Stands(f, p + Len(c2), s3)
    BY <1>1, <1>3, <1>6, <1>8, StandsConcat
  <2>2. Stands(f, p, s1) /\ Stands(f, p + Len(s1), s2)
    BY <1>2, <2>1, StandsConcat DEF c2
  <2>3. p + Len(c2) = p + Len(s1) + Len(s2)
    BY <1>4, <1>6
  <2> QED
    BY <2>1, <2>2, <2>3
<1> QED
  BY <1>1, <1>4, <1>6, <1>7, <1>8 DEF s1, s2, s3, c2

\* The text of a directive, by conversion.
LEMMA RenderingSeq ==
  ASSUME NEW d, IsDirective(d)
  PROVE  /\ Rendering(d) \in Seq(Characters) /\ d.conv # "text"
         /\ d.conv = "%" => Rendering(d) = <<"%">>
         /\ d.conv = "n" => Rendering(d) = <<>>
         /\ d.conv \notin {"n", "%"} => Rendering(d) = Filled(d)
<1>1. d.conv # "text"
  BY DEF IsDirective, Conversions
<1>2. CASE d.conv = "%"
  <2>1. Rendering(d) = <<"%">>
    BY <1>2 DEF Rendering
  <2>2. "%" \in Characters
    BY CharFacts
  <2> QED
    BY <1>1, <1>2, <2>1, <2>2, SingleFacts
<1>3. CASE d.conv = "n"
  <2>1. Rendering(d) = <<>>
    BY <1>3 DEF Rendering
  <2> QED
    BY <1>1, <1>3, <2>1
<1>4. CASE d.conv \notin {"n", "%"}
  <2>1. Rendering(d) = Filled(d)
    BY <1>1, <1>4 DEF Rendering
  <2> QED
    BY <1>1, <1>4, <2>1, FilledSeq
<1> QED
  BY <1>2, <1>3, <1>4

\* What PrintkAssumption says of a call that means directives.
LEMMA MeantCall ==
  ASSUME NEW c \in Calls, c.meant # <<>>
  PROVE  /\ Len(c.meant) \in Nat
         /\ \A k \in 1 .. Len(c.meant) : IsLiteral(c.meant[k]) \/ IsDirective(c.meant[k])
         /\ c.fmt = Flat(Spellings(c), Len(c.meant))
         /\ c.args = Flat(ArgumentLists(c), Len(c.meant))
<1> DEFINE V == {c.meant[k] : k \in DOMAIN c.meant}
<1>1. /\ \A k \in DOMAIN c.meant : IsLiteral(c.meant[k]) \/ IsDirective(c.meant[k])
      /\ c.meant \in Seq(V)
      /\ c.fmt = FlattenSeq([k \in DOMAIN c.meant |-> Spelling(c.meant[k])])
      /\ c.args = FlattenSeq([k \in DOMAIN c.meant |-> Arguments(c.meant[k])])
  BY PrintkAssumption
<1> HIDE DEF V
<1>2. Len(c.meant) \in Nat /\ DOMAIN c.meant = 1 .. Len(c.meant)
  BY <1>1, LenProperties
<1>3. [k \in DOMAIN c.meant |-> Spelling(c.meant[k])] = [k \in 1 .. Len(c.meant) |-> Spellings(c)[k]]
  BY <1>2 DEF Spellings
<1>4. [k \in DOMAIN c.meant |-> Arguments(c.meant[k])] = [k \in 1 .. Len(c.meant) |-> ArgumentLists(c)[k]]
  BY <1>2 DEF ArgumentLists
<1> QED
  BY <1>1, <1>2, <1>3, <1>4 DEF Flat

\* The spellings, argument lists, texts and counts of a call.
LEMMA TablesTyped ==
  ASSUME NEW c \in Calls, c.meant # <<>>
  PROVE  /\ Seqs(Spellings(c), Len(c.meant), Characters)
         /\ Seqs(ArgumentLists(c), Len(c.meant), Nat)
         /\ Seqs(Renderings(c), Len(c.meant), Characters)
         /\ Seqs(CountLists(c), Len(c.meant), Nat)
<1> DEFINE N == Len(c.meant)
<1>1. N \in Nat /\ \A k \in 1 .. N : IsLiteral(c.meant[k]) \/ IsDirective(c.meant[k])
  BY MeantCall
<1>2. ASSUME NEW k \in 1 .. N
      PROVE  /\ Spelling(c.meant[k]) \in Seq(Characters) /\ Arguments(c.meant[k]) \in Seq(Nat)
             /\ Rendering(c.meant[k]) \in Seq(Characters)
  <2>1. CASE IsLiteral(c.meant[k])
    <3>1. <<>> \in Seq(Nat)
      OBVIOUS
    <3> QED
      BY <2>1, <3>1, LiteralFacts
  <2>2. CASE IsDirective(c.meant[k])
    BY <2>2, SpellingParts, ArgumentParts, RenderingSeq
  <2> QED
    BY <1>1, <2>1, <2>2
<1> HIDE DEF N
<1>3. Seqs(Spellings(c), N, Characters) /\ Seqs(ArgumentLists(c), N, Nat) /\ Seqs(Renderings(c), N, Characters)
  BY <1>2 DEF Seqs, Spellings, ArgumentLists, Renderings, N
<1>4. \A k \in 0 .. N : TextTo(c, k) \in Seq(Characters)
  BY <1>1, <1>3, FlatSteps DEF TextTo
<1>5. ASSUME NEW k \in 1 .. N PROVE CountLists(c)[k] \in Seq(Nat)
  <2>1. k - 1 \in 0 .. N
    BY <1>1
  <2>2. Len(TextTo(c, k - 1)) \in Nat
    BY <1>4, <2>1, LenProperties
  <2>3. CountLists(c)[k] = IF c.meant[k].conv = "n" THEN <<Len(TextTo(c, k - 1))>> ELSE <<>>
    BY DEF CountLists, N
  <2> QED
    BY <2>2, <2>3, SingleFacts
<1>6. Seqs(CountLists(c), N, Nat)
  BY <1>5 DEF Seqs
<1> QED
  BY <1>3, <1>6 DEF N

\* A table of sequences, its concatenations, and where each one stands.
LEMMA FlatStands ==
  ASSUME NEW V, NEW N \in Nat, NEW f, Seqs(f, N, V)
  PROVE  /\ Len(Flat(f, 0)) = 0
         /\ \A k \in 0 .. N : Len(Flat(f, k)) \in Nat /\ Len(Flat(f, k)) <= Len(Flat(f, N))
         /\ \A k \in 1 .. N :
              /\ Len(Flat(f, k)) = Len(Flat(f, k - 1)) + Len(f[k])
              /\ Stands(Flat(f, N), Len(Flat(f, k - 1)) + 1, f[k])
<1>1. Len(Flat(f, 0)) = 0 /\ \A k \in 0 .. N : Len(Flat(f, k)) \in Nat
  <2>1. Flat(f, 0) = <<>>
    BY FlatSteps
  <2>2. ASSUME NEW k \in 0 .. N PROVE Len(Flat(f, k)) \in Nat
    <3>1. Flat(f, k) \in Seq(V)
      BY FlatSteps
    <3> QED
      BY <3>1, LenProperties
  <2> QED
    BY <2>1, <2>2
<1>2. ASSUME NEW k \in 1 .. N
      PROVE  /\ Len(Flat(f, k)) = Len(Flat(f, k - 1)) + Len(f[k])
             /\ Len(Flat(f, k)) <= Len(Flat(f, N))
             /\ Stands(Flat(f, N), Len(Flat(f, k - 1)) + 1, f[k])
  <2>1. /\ Len(Flat(f, k)) = Len(Flat(f, k - 1)) + Len(f[k])
        /\ Len(Flat(f, k)) <= Len(Flat(f, N))
        /\ \A j \in 1 .. Len(f[k]) : Flat(f, N)[Len(Flat(f, k - 1)) + j] = f[k][j]
    <3>1. Placed(f, N, k)
      BY FlatPlaces
    <3> QED
      BY <3>1 DEF Placed
  <2> DEFINE a == Len(Flat(f, k - 1))
             b == Len(Flat(f, N))
             e == Len(Flat(f, k))
             l == Len(f[k])
             F == Flat(f, N)
  <2>2. a \in Nat /\ b \in Nat /\ e \in Nat
    BY <1>1
  <2>3. l \in Nat
    <3>1. f[k] \in Seq(V)
      BY DEF Seqs
    <3> QED
      BY <3>1, LenProperties
  <2>4. e = a + l /\ e <= b /\ \A j \in 1 .. l : F[a + j] = f[k][j]
    BY <2>1
  <2>5. b = Len(F)
    OBVIOUS
  <2> HIDE DEF a, b, e, l, F
  <2>6. \A j \in 1 .. l : a + 1 + j - 1 = a + j /\ a + j <= b
    BY <2>2, <2>3, <2>4
  <2>7. \A j \in 1 .. l : a + 1 + j - 1 <= Len(F) /\ F[a + 1 + j - 1] = f[k][j]
    BY <2>4, <2>5, <2>6
  <2>8. Stands(F, a + 1, f[k])
    BY <2>7 DEF Stands, l
  <2> QED
    BY <2>1, <2>8 DEF a, F
<1>3. \A k \in 0 .. N : Len(Flat(f, k)) <= Len(Flat(f, N))
  <2>1. Len(Flat(f, N)) \in Nat
    BY <1>1
  <2> TAKE k \in 0 .. N
  <2>2. CASE k = 0
    BY <1>1, <2>1, <2>2
  <2>3. CASE k # 0
    <3>1. k \in 1 .. N
      BY <2>3
    <3> QED
      BY <1>2, <3>1
  <2> QED
    BY <2>2, <2>3
<1> QED
  BY <1>1, <1>2, <1>3

-----------------------------------------------------------------------------
(* What the loop of vsprintf finds at each part of a directive *)

\* One character that stands in the format.
LEMMA StandsOne ==
  ASSUME NEW p \in Nat, NEW x, Stands(call.fmt, p, <<x>>)
  PROVE  CharAt(p) = x /\ p <= Len(call.fmt)
<1> DEFINE t == <<x>>
<1>1. 1 \in 1 .. Len(t) /\ t[1] = x /\ p + 1 - 1 = p
  OBVIOUS
<1> HIDE DEF t
<1>2. Stands(call.fmt, p, t)
  BY DEF t
<1> QED
  BY <1>1, <1>2, StandsAt

Letters == {"h", "l", "L", "Z"} \cup Conversions

\* No qualifier or conversion is read as a part before it.
LEMMA LetterFacts ==
  /\ \A x \in Letters : ~ is_digit(x) /\ x # "*" /\ x # "." /\ x # NUL /\ FlagOf(x) = {}
  /\ \A x \in Conversions : x \notin {"h", "l", "L", "Z"}
  /\ ~ is_digit(".") /\ FlagOf(".") = {} /\ FlagOf("*") = {} /\ ~ is_digit("*")
<1>1. BLANK \notin Letters /\ BLANK # "." /\ BLANK # "*"
  BY BlankFacts, Zenon DEF Inked, Letters, Conversions
<1>2. \A x \in Letters \cup {".", "*"} : x # BLANK
  BY <1>1
<1>3. \A x \in Letters \cup {".", "*"} : x \notin FlagChars
  <2> SUFFICES ASSUME NEW x \in Letters \cup {".", "*"} PROVE x \notin FlagChars
    OBVIOUS
  <2>1. x # BLANK
    BY <1>2
  <2>2. x # "-" /\ x # "+" /\ x # "#" /\ x # "0"
    BY DEF Letters, Conversions
  <2> QED
    BY <2>1, <2>2 DEF FlagChars
<1>4. \A x \in Letters \cup {".", "*"} : FlagOf(x) = {}
  BY <1>3, FlagFacts
<1>5. Letters \cup {".", "*"} \subseteq Signs
  BY DEF Letters, Conversions, Signs
<1>6. \A x \in Letters \cup {".", "*"} : ~ is_digit(x)
  BY <1>5, DigitFacts
<1>7. \A x \in Letters : x # "*" /\ x # "." /\ x # NUL
  BY DEF Letters, Conversions, NUL
<1>8. \A x \in Conversions : x \notin {"h", "l", "L", "Z"}
  BY DEF Conversions
<1> QED
  BY <1>4, <1>6, <1>7, <1>8

\* The last character of a directive is its conversion.
LEMMA ConvChar ==
  ASSUME NEW d, IsDirective(d), NEW p \in Nat \ {0}, Stands(call.fmt, p, Spelling(d))
  PROVE  CharAt(p + ConvAt(d)) = d.conv /\ p + ConvAt(d) <= Len(call.fmt) /\ d.conv \in Conversions
<1>1. Stands(call.fmt, p + ConvAt(d), <<d.conv>>)
  BY SpellingParts
<1>2. p + ConvAt(d) \in Nat
  BY PlacesTyped
<1>3. d.conv \in Conversions
  BY DEF IsDirective
<1> DEFINE q == p + ConvAt(d)
           x == d.conv
<1> HIDE DEF q, x
<1>4. CharAt(q) = x /\ q <= Len(call.fmt)
  BY <1>1, <1>2, StandsOne DEF q, x
<1> QED
  BY <1>3, <1>4 DEF q, x

QualifierRead(d, p) ==
  \/ /\ d.qualifier = NUL /\ CharAt(p + QualifierAt(d)) = d.conv
     /\ ConvAt(d) = QualifierAt(d)
  \/ /\ d.qualifier \in {"h", "l", "L", "Z"} /\ CharAt(p + QualifierAt(d)) = d.qualifier
     /\ ConvAt(d) = QualifierAt(d) + 1

\* The loop finds the qualifier, or the conversion.
LEMMA QualifierChar ==
  ASSUME NEW d, IsDirective(d), NEW p \in Nat \ {0}, Stands(call.fmt, p, Spelling(d))
  PROVE  QualifierRead(d, p) /\ CharAt(p + QualifierAt(d)) \in Letters
<1>1. /\ CharAt(p + ConvAt(d)) = d.conv /\ d.conv \in Conversions
      /\ ConvAt(d) = QualifierAt(d) + Len(QualifierText(d))
      /\ QualifierAt(d) \in Nat
  BY ConvChar, PlacesTyped DEF ConvAt
<1>2. Stands(call.fmt, p + QualifierAt(d), QualifierText(d))
  BY SpellingParts
<1>3. d.qualifier \in {NUL, "h", "l", "L", "Z"}
  BY DEF IsDirective
<1>4. CASE d.qualifier = NUL
  <2>1. QualifierText(d) = <<>>
    BY <1>4 DEF QualifierText
  <2>2. Len(QualifierText(d)) = 0
    BY <2>1
  <2>3. ConvAt(d) = QualifierAt(d)
    BY <1>1, <2>2
  <2> QED
    BY <1>1, <1>4, <2>3 DEF QualifierRead, Letters
<1>5. CASE d.qualifier # NUL
  <2>1. QualifierText(d) = <<d.qualifier>>
    BY <1>5 DEF QualifierText
  <2>2. Len(QualifierText(d)) = 1
    BY <2>1
  <2>3. ConvAt(d) = QualifierAt(d) + 1
    BY <1>1, <2>2
  <2> DEFINE q == p + QualifierAt(d)
             x == d.qualifier
  <2>4. q \in Nat /\ Stands(call.fmt, q, <<x>>)
    BY <1>1, <1>2, <2>1
  <2> HIDE DEF q, x
  <2>5. CharAt(q) = x
    BY <2>4, StandsOne
  <2>6. d.qualifier \in {"h", "l", "L", "Z"}
    BY <1>3, <1>5
  <2> QED
    BY <2>3, <2>5, <2>6 DEF QualifierRead, Letters, q, x
<1> QED
  BY <1>4, <1>5

\* What Precision finds at fmt = p + PrecisionAt(d).
PrecisionRead(d, q) ==
  \/ /\ "precision" \in d.star /\ CharAt(q) = "." /\ CharAt(q + 1) = "*"
     /\ QualifierAt(d) = PrecisionAt(d) + 2
  \/ /\ "precision" \notin d.star /\ d.precision = NONE /\ CharAt(q) \in Letters
     /\ QualifierAt(d) = PrecisionAt(d)
  \/ /\ "precision" \notin d.star /\ d.precision = 0
     /\ CharAt(q) = "." /\ CharAt(q + 1) \in Letters
     /\ QualifierAt(d) = PrecisionAt(d) + 1
  \/ /\ "precision" \notin d.star /\ d.precision \in Nat
     /\ CharAt(q) = "." /\ is_digit(CharAt(q + 1))
     /\ skip_atoi(q + 1) = d.precision
     /\ EndOfDigits(q + 1) = q + QualifierAt(d) - PrecisionAt(d)

\* The loop finds the precision as it is spelled.
LEMMA PrecisionChars ==
  ASSUME NEW d, IsDirective(d), NEW p \in Nat \ {0}, Stands(call.fmt, p, Spelling(d)),
         Len(call.fmt) \in Nat
  PROVE  PrecisionRead(d, p + PrecisionAt(d)) /\ CharAt(p + PrecisionAt(d)) \in Letters \cup {"."}
<1> DEFINE q == p + PrecisionAt(d)
           t == PrecisionText(d)
           r == p + QualifierAt(d)
<1>1. /\ QualifierAt(d) = PrecisionAt(d) + Len(t) /\ PrecisionAt(d) \in Nat /\ Len(t) \in Nat
      /\ QualifierAt(d) \in Nat
  BY PlacesTyped DEF QualifierAt
<1>2. Stands(call.fmt, q, t)
  BY SpellingParts
<1>3. CharAt(r) \in Letters
  BY QualifierChar
<1>4. q \in Nat \ {0} /\ r = q + Len(t)
  BY <1>1
<1>5. d.precision \in Int /\ ("precision" \notin d.star => d.precision = NONE \/ d.precision >= 0)
  BY DEF IsDirective, Ints
<1> HIDE DEF q, r, t
<1>6. CASE "precision" \in d.star
  <2>1. t = <<".", "*">>
    BY <1>6 DEF PrecisionText, t
  <2>2. Len(t) = 2 /\ t[1] = "." /\ t[2] = "*" /\ 1 \in 1 .. Len(t) /\ 2 \in 1 .. Len(t)
    BY <2>1
  <2>3. CharAt(q + 1 - 1) = t[1] /\ CharAt(q + 2 - 1) = t[2]
    BY <1>2, <1>4, <2>2, StandsAt
  <2>4. q + 1 - 1 = q /\ q + 2 - 1 = q + 1
    BY <1>4
  <2>5. CharAt(q) = "." /\ CharAt(q + 1) = "*"
    BY <2>2, <2>3, <2>4
  <2>6. QualifierAt(d) = PrecisionAt(d) + 2
    BY <1>1, <2>2
  <2> QED
    BY <1>6, <2>5, <2>6 DEF PrecisionRead, q
<1>7. CASE "precision" \notin d.star /\ d.precision = NONE
  <2>1. t = <<>>
    BY <1>7 DEF PrecisionText, NONE, t
  <2>2. Len(t) = 0
    BY <2>1
  <2>3. r = q /\ QualifierAt(d) = PrecisionAt(d)
    BY <1>1, <1>4, <2>2
  <2> QED
    BY <1>3, <1>7, <2>3 DEF PrecisionRead, q
<1>8. CASE "precision" \notin d.star /\ d.precision = 0
  <2>1. t = <<".">>
    BY <1>8 DEF PrecisionText, NONE, t
  <2>2. Len(t) = 1
    BY <2>1
  <2>3. r = q + 1 /\ QualifierAt(d) = PrecisionAt(d) + 1
    BY <1>1, <1>4, <2>2
  <2>4. CharAt(q) = "."
    BY <1>2, <1>4, <2>1, StandsOne
  <2> QED
    BY <1>3, <1>8, <2>3, <2>4 DEF PrecisionRead, q
<1>9. CASE "precision" \notin d.star /\ d.precision # NONE /\ d.precision # 0
  <2> DEFINE u == Numeral(d.precision, 10, Digits)
             s == <<".">>
  <2>1. t = s \o u
    BY <1>9 DEF PrecisionText, t
  <2>2. d.precision \in Nat
    BY <1>5, <1>9
  <2>3. u \in Seq(Decimals) /\ Len(u) \in Nat
    BY <2>2, DecimalNumeral
  <2>4. s \in Seq(Characters) /\ Len(s) = 1
    BY CharFacts, SingleFacts
  <2>5. u \in Seq(Characters)
    <3>1. Decimals \subseteq Characters
      <4>1. \A j \in 1 .. 16 : Digits[j] \in Characters
        BY CharFacts
      <4>2. \A v \in 0 .. 9 : v + 1 \in 1 .. 16
        OBVIOUS
      <4> QED
        BY <4>1, <4>2 DEF Decimals
    <3> HIDE DEF u
    <3> QED
      BY <2>3, <3>1, Widen
  <2> HIDE DEF u, s
  <2>6. Len(s \o u) = Len(s) + Len(u)
    BY <2>4, <2>5, ConcatProperties
  <2>7. Len(t) = 1 + Len(u)
    BY <2>1, <2>4, <2>6
  <2>8. Stands(call.fmt, q, s) /\ Stands(call.fmt, q + Len(s), u)
    BY <1>2, <1>4, <2>1, <2>4, <2>5, StandsConcat
  <2>9. CharAt(q) = "."
    BY <1>4, <2>8, StandsOne DEF s
  <2>10. Stands(call.fmt, q + 1, u) /\ q + 1 \in Nat \ {0} /\ r = q + 1 + Len(u)
    BY <1>4, <2>3, <2>4, <2>7, <2>8
  <2>11. ~ is_digit(CharAt(q + 1 + Len(u)))
    BY <1>3, <2>10, LetterFacts
  <2>12. is_digit(CharAt(q + 1)) /\ EndOfDigits(q + 1) = q + 1 + Len(u) /\ skip_atoi(q + 1) = d.precision
    BY <2>2, <2>10, <2>11, ReadsNumeral DEF u
  <2>13. q + 1 + Len(u) = q + QualifierAt(d) - PrecisionAt(d)
    BY <1>1, <1>4, <2>3, <2>7
  <2> QED
    BY <1>9, <2>2, <2>9, <2>12, <2>13 DEF PrecisionRead, q
<1> QED
  BY <1>6, <1>7, <1>8, <1>9

\* What FieldWidth finds at fmt = p + WidthAt(d).
WidthRead(d, q) ==
  \/ /\ "width" \in d.star /\ CharAt(q) = "*" /\ PrecisionAt(d) = WidthAt(d) + 1
  \/ /\ "width" \notin d.star /\ d.width = NONE
     /\ ~ is_digit(CharAt(q)) /\ CharAt(q) # "*" /\ PrecisionAt(d) = WidthAt(d)
  \/ /\ "width" \notin d.star /\ d.width \in Nat \ {0} /\ is_digit(CharAt(q)) /\ skip_atoi(q) = d.width
     /\ EndOfDigits(q) = q + PrecisionAt(d) - WidthAt(d)

\* The loop finds the width as it is spelled, and no flag.
LEMMA WidthChars ==
  ASSUME NEW d, IsDirective(d), NEW p \in Nat \ {0}, Stands(call.fmt, p, Spelling(d)),
         Len(call.fmt) \in Nat
  PROVE  WidthRead(d, p + WidthAt(d)) /\ FlagOf(CharAt(p + WidthAt(d))) = {}
<1> DEFINE q == p + WidthAt(d)
           t == WidthText(d)
           r == p + PrecisionAt(d)
<1>1. /\ PrecisionAt(d) = WidthAt(d) + Len(t) /\ WidthAt(d) \in Nat /\ Len(t) \in Nat
      /\ PrecisionAt(d) \in Nat
  BY PlacesTyped DEF PrecisionAt
<1>2. Stands(call.fmt, q, t)
  BY SpellingParts
<1>3. CharAt(r) \in Letters \cup {"."}
  BY PrecisionChars
<1>10. ~ is_digit(CharAt(r)) /\ CharAt(r) # "*" /\ FlagOf(CharAt(r)) = {}
  BY <1>3, LetterFacts
<1>4. q \in Nat \ {0} /\ r = q + Len(t)
  BY <1>1
<1>5. d.width \in Int /\ ("width" \notin d.star => d.width = NONE \/ d.width > 0)
  BY DEF IsDirective, Ints
<1> HIDE DEF q, r, t
<1>6. CASE "width" \in d.star
  <2>1. t = <<"*">>
    BY <1>6 DEF WidthText, t
  <2>2. Len(t) = 1
    BY <2>1
  <2>3. CharAt(q) = "*"
    BY <1>2, <1>4, <2>1, StandsOne
  <2>4. PrecisionAt(d) = WidthAt(d) + 1
    BY <1>1, <2>2
  <2> QED
    BY <1>6, <2>3, <2>4, LetterFacts DEF WidthRead, q
<1>7. CASE "width" \notin d.star /\ d.width = NONE
  <2>1. t = <<>>
    BY <1>7 DEF WidthText, t
  <2>2. Len(t) = 0
    BY <2>1
  <2>3. r = q /\ PrecisionAt(d) = WidthAt(d)
    BY <1>1, <1>4, <2>2
  <2> QED
    BY <1>7, <1>10, <2>3 DEF WidthRead, q
<1>8. CASE "width" \notin d.star /\ d.width # NONE
  <2>1. t = Numeral(d.width, 10, Digits)
    BY <1>8 DEF WidthText, t
  <2>2. d.width \in Nat \ {0}
    BY <1>5, <1>8
  <2>3. is_digit(CharAt(q)) /\ EndOfDigits(q) = q + Len(t) /\ skip_atoi(q) = d.width /\ q <= Len(call.fmt)
    BY <1>2, <1>4, <1>10, <2>1, <2>2, ReadsNumeral
  <2>4. q + Len(t) = q + PrecisionAt(d) - WidthAt(d)
    BY <1>1, <1>4
  <2>5. FlagOf(CharAt(q)) = {}
    <3>1. 1 \in 1 .. Len(t) /\ t[1] \notin FlagChars
      <4> DEFINE n == d.width
      <4>1. n \in Nat /\ n > 0 /\ t = Numeral(n, 10, Digits)
        BY <2>1, <2>2
      <4> HIDE DEF n
      <4>2. Len(Numeral(n, 10, Digits)) \in Nat \ {0} /\ Numeral(n, 10, Digits)[1] \notin FlagChars
        BY <4>1, DecimalNumeral
      <4>3. Len(t) \in Nat \ {0}
        BY <4>1, <4>2
      <4> QED
        BY <4>1, <4>2, <4>3
    <3>2. CharAt(q + 1 - 1) = t[1]
      BY <1>2, <1>4, <3>1, StandsAt
    <3>3. q + 1 - 1 = q
      BY <1>4
    <3> QED
      BY <3>1, <3>2, <3>3, FlagFacts
  <2> QED
    BY <1>8, <2>2, <2>3, <2>4, <2>5 DEF WidthRead, q
<1> QED
  BY <1>6, <1>7, <1>8

\* The loop finds the j-th flag.
LEMMA FlagChar ==
  ASSUME NEW d, IsDirective(d), NEW p \in Nat \ {0}, Stands(call.fmt, p, Spelling(d)),
         NEW j \in 1 .. Len(d.flags)
  PROVE  CharAt(p + j) = d.flags[j] /\ FlagOf(d.flags[j]) # {}
<1>5. p + 1 \in Nat
  OBVIOUS
<1>1. Stands(call.fmt, p + 1, d.flags)
  BY SpellingParts, Zenon
<1>2. CharAt(p + 1 + j - 1) = d.flags[j]
  BY <1>1, <1>5, StandsAt
<1>3. p + 1 + j - 1 = p + j
  OBVIOUS
<1>4. d.flags[j] \in FlagChars
  BY PartsTyped, ElementOfSeq
<1> QED
  BY <1>2, <1>3, <1>4, FlagFacts

\* A directive starts with "%".
LEMMA PercentChar ==
  ASSUME NEW d, IsDirective(d), NEW p \in Nat \ {0}, Stands(call.fmt, p, Spelling(d))
  PROVE  CharAt(p) = "%"
<1>1. Stands(call.fmt, p, <<"%">>)
  BY SpellingParts
<1> QED
  BY <1>1, StandsOne

-----------------------------------------------------------------------------
(* Where the k-th directive of a call stands in its format, its arguments, *)
(* its text and its counts                                                 *)

CallStep(c, k) ==
  /\ Spot(c, k - 1) \in Nat /\ Spot(c, k) = Spot(c, k - 1) + Len(Spelling(c.meant[k]))
  /\ Stands(c.fmt, Spot(c, k - 1) + 1, Spelling(c.meant[k]))
  /\ Taken(c, k - 1) \in Nat /\ Taken(c, k) = Taken(c, k - 1) + Len(Arguments(c.meant[k]))
  /\ Stands(c.args, Taken(c, k - 1) + 1, Arguments(c.meant[k]))
TextStep(c, k) ==
  /\ TextTo(c, k - 1) \in Seq(Characters)
  /\ TextTo(c, k) = TextTo(c, k - 1) \o Rendering(c.meant[k])
  /\ CountsTo(c, k - 1) \in Seq(Nat)
  /\ CountsTo(c, k) = CountsTo(c, k - 1)
                        \o (IF c.meant[k].conv = "n" THEN <<Len(TextTo(c, k - 1))>> ELSE <<>>)
CallBounds(c, k) ==
  /\ Spot(c, k) \in Nat /\ Spot(c, k) <= Len(c.fmt)
  /\ Taken(c, k) \in Nat /\ Taken(c, k) <= Len(c.args)

\* Directive k stands in the format behind the ones before it, and its
\* arguments behind theirs.
LEMMA CallSteps ==
  ASSUME NEW c \in Calls, c.meant # <<>>, NEW k \in 1 .. Len(c.meant)
  PROVE  CallStep(c, k)
<1> DEFINE N == Len(c.meant)
<1>1. /\ N \in Nat /\ c.fmt = Flat(Spellings(c), N) /\ c.args = Flat(ArgumentLists(c), N)
  BY MeantCall
<1>2. Spellings(c)[k] = Spelling(c.meant[k]) /\ ArgumentLists(c)[k] = Arguments(c.meant[k])
  BY DEF Spellings, ArgumentLists
<1>3. Seqs(Spellings(c), N, Characters) /\ Seqs(ArgumentLists(c), N, Nat) /\ k \in 1 .. N /\ k - 1 \in 0 .. N
  BY <1>1, TablesTyped
<1> HIDE DEF N
<1> DEFINE f == Spellings(c)
           g == ArgumentLists(c)
<1>4. Seqs(f, N, Characters) /\ Seqs(g, N, Nat)
  BY <1>3
<1> HIDE DEF f, g
<1>5. /\ Len(Flat(f, k - 1)) \in Nat /\ Len(Flat(f, k)) = Len(Flat(f, k - 1)) + Len(f[k])
      /\ Stands(Flat(f, N), Len(Flat(f, k - 1)) + 1, f[k])
  BY <1>1, <1>3, <1>4, FlatStands
<1>6. /\ Len(Flat(g, k - 1)) \in Nat /\ Len(Flat(g, k)) = Len(Flat(g, k - 1)) + Len(g[k])
      /\ Stands(Flat(g, N), Len(Flat(g, k - 1)) + 1, g[k])
  BY <1>1, <1>3, <1>4, FlatStands
<1> QED
  BY <1>1, <1>2, <1>5, <1>6 DEF CallStep, Spot, Taken, f, g

\* Its text and count follow the ones before.
LEMMA TextSteps ==
  ASSUME NEW c \in Calls, c.meant # <<>>, NEW k \in 1 .. Len(c.meant)
  PROVE  TextStep(c, k)
<1> DEFINE N == Len(c.meant)
           f == Renderings(c)
           g == CountLists(c)
<1>1. N \in Nat /\ Seqs(f, N, Characters) /\ Seqs(g, N, Nat)
  BY MeantCall, TablesTyped
<1>2. k \in 1 .. N /\ k - 1 \in 0 .. N
  BY <1>1
<1>3. /\ f[k] = Rendering(c.meant[k])
      /\ g[k] = IF c.meant[k].conv = "n" THEN <<Len(TextTo(c, k - 1))>> ELSE <<>>
  BY DEF Renderings, CountLists
<1> HIDE DEF N, f, g
<1>4. Flat(f, k - 1) \in Seq(Characters) /\ Flat(f, k) = Flat(f, k - 1) \o f[k]
  <2>1. \A n \in 0 .. N : Flat(f, n) \in Seq(Characters)
    BY <1>1, FlatSteps
  <2>2. \A n \in 1 .. N : Flat(f, n) = Flat(f, n - 1) \o f[n]
    BY <1>1, FlatSteps
  <2> QED
    BY <1>2, <2>1, <2>2
<1>5. Flat(g, k - 1) \in Seq(Nat) /\ Flat(g, k) = Flat(g, k - 1) \o g[k]
  <2> DEFINE W == Nat
  <2>1. N \in Nat /\ Seqs(g, N, W)
    BY <1>1
  <2> HIDE DEF W
  <2>2. \A n \in 0 .. N : Flat(g, n) \in Seq(W)
    BY <2>1, FlatSteps
  <2>3. \A n \in 1 .. N : Flat(g, n) = Flat(g, n - 1) \o g[n]
    BY <2>1, FlatSteps
  <2> QED
    BY <1>2, <2>2, <2>3 DEF W
<1>6. /\ Flat(f, k) = TextTo(c, k) /\ Flat(f, k - 1) = TextTo(c, k - 1)
      /\ Flat(g, k) = CountsTo(c, k) /\ Flat(g, k - 1) = CountsTo(c, k - 1)
  BY DEF TextTo, CountsTo, f, g
<1>7. TextTo(c, k - 1) \in Seq(Characters) /\ TextTo(c, k) = TextTo(c, k - 1) \o f[k]
  BY <1>4, <1>6
<1>8. CountsTo(c, k - 1) \in Seq(Nat) /\ CountsTo(c, k) = CountsTo(c, k - 1) \o g[k]
  BY <1>5, <1>6
<1>9. TextTo(c, k) = TextTo(c, k - 1) \o Rendering(c.meant[k])
  BY <1>3, <1>7
<1>10. CountsTo(c, k) = CountsTo(c, k - 1)
                        \o (IF c.meant[k].conv = "n" THEN <<Len(TextTo(c, k - 1))>> ELSE <<>>)
  BY <1>3, <1>8
<1> QED
  BY <1>7, <1>8, <1>9, <1>10 DEF TextStep

\* The last directive ends the format.
LEMMA CallEnds ==
  ASSUME NEW c \in Calls, c.meant # <<>>
  PROVE  /\ Len(c.meant) \in Nat /\ \A k \in 0 .. Len(c.meant) : CallBounds(c, k)
         /\ Spot(c, 0) = 0 /\ Taken(c, 0) = 0 /\ TextTo(c, 0) = <<>> /\ CountsTo(c, 0) = <<>>
         /\ Spot(c, Len(c.meant)) = Len(c.fmt)
         /\ Len(c.fmt) \in Nat /\ c.args \in Seq(Nat)
<1> DEFINE N == Len(c.meant)
           f == Spellings(c)
           g == ArgumentLists(c)
<1>1. /\ N \in Nat /\ c.fmt = Flat(f, N) /\ c.args = Flat(g, N)
      /\ Seqs(f, N, Characters) /\ Seqs(g, N, Nat)
  BY MeantCall, TablesTyped
<1>2. TextTo(c, 0) = <<>> /\ CountsTo(c, 0) = <<>>
  BY <1>1, TablesTyped, FlatSteps DEF TextTo, CountsTo
<1> HIDE DEF N, f, g
<1>3. /\ Len(Flat(f, 0)) = 0
      /\ \A k \in 0 .. N : Len(Flat(f, k)) \in Nat /\ Len(Flat(f, k)) <= Len(Flat(f, N))
  BY <1>1, FlatStands
<1>4. /\ Len(Flat(g, 0)) = 0
      /\ \A k \in 0 .. N : Len(Flat(g, k)) \in Nat /\ Len(Flat(g, k)) <= Len(Flat(g, N))
  BY <1>1, FlatStands
<1>5. \A k : Spot(c, k) = Len(Flat(f, k)) /\ Taken(c, k) = Len(Flat(g, k))
  BY DEF Spot, Taken, f, g
<1>6. \A k \in 0 .. N : CallBounds(c, k)
  BY <1>1, <1>3, <1>4, <1>5 DEF CallBounds
<1>7. N \in 0 .. N
  BY <1>1
<1>8. Spot(c, N) = Len(c.fmt) /\ Len(c.fmt) \in Nat
  BY <1>1, <1>3, <1>5, <1>7
<1>9. Flat(g, N) \in Seq(Nat)
  BY <1>1, <1>7, FlatSteps
<1> QED
  BY <1>1, <1>2, <1>3, <1>4, <1>5, <1>6, <1>8, <1>9 DEF N

\* One element that stands in a sequence.
LEMMA StandsHere ==
  ASSUME NEW f, NEW p \in Nat, NEW x, Stands(f, p, <<x>>)
  PROVE  f[p] = x /\ p <= Len(f)
<1> DEFINE t == <<x>>
<1>1. 1 \in 1 .. Len(t) /\ t[1] = x /\ p + 1 - 1 = p
  OBVIOUS
<1>2. Stands(f, p, t)
  OBVIOUS
<1> HIDE DEF t
<1>3. p + 1 - 1 <= Len(f) /\ f[p + 1 - 1] = t[1]
  BY <1>1, <1>2 DEF Stands
<1> QED
  BY <1>1, <1>3

\* The argument a star takes.
LEMMA StarRead ==
  ASSUME NEW w \in Ints, arg \in Nat, Stands(call.args, arg + 1, <<w % LongMod>>)
  PROVE  IntArg = w /\ arg + 1 <= Len(call.args)
<1> DEFINE x == w % LongMod
           p == arg + 1
<1>1. p \in Nat /\ Stands(call.args, p, <<x>>)
  OBVIOUS
<1> HIDE DEF x, p
<1>2. call.args[p] = x /\ p <= Len(call.args)
  BY <1>1, StandsHere
<1>3. call.args[arg + 1] = w % LongMod
  BY <1>2 DEF x, p
<1>4. IntArg = Signed(((w % LongMod) % LongMod) % IntMod, IntMod)
  BY <1>3 DEF IntArg, Slot
<1>5. arg + 1 <= Len(call.args)
  BY <1>2 DEF p
<1>6. IntArg = w
  BY <1>4, IntInSlot
<1> QED
  BY <1>5, <1>6

\* The argument a conversion fetches.
LEMMA SlotRead ==
  ASSUME NEW s \in 0 .. LongMod - 1, arg \in Nat, Stands(call.args, arg + 1, <<s>>)
  PROVE  Slot = s /\ arg + 1 <= Len(call.args)
<1> DEFINE p == arg + 1
<1>1. p \in Nat /\ Stands(call.args, p, <<s>>)
  OBVIOUS
<1> HIDE DEF p
<1>2. call.args[p] = s /\ p <= Len(call.args)
  BY <1>1, StandsHere
<1>3. s % LongMod = s
  BY SlotFacts
<1> QED
  BY <1>2, <1>3 DEF Slot, p

-----------------------------------------------------------------------------
(* The inductive invariant of vsprintf *)

\* The flags of a directive after the first j of its flag characters.
FlagsTo(d, j) == UNION {FlagOf(d.flags[i]) : i \in 1 .. j}

\* Between two directives: the first k are rendered.
AtText ==
  \E k \in 0 .. Len(call.meant) :
    /\ fmt = Spot(call, k) + 1 /\ arg = Taken(call, k)
    /\ str = TextTo(call, k) /\ stored = CountsTo(call, k)

\* In the k-th directive, the ones before it rendered.
InDirective(k) ==
  /\ k \in 1 .. Len(call.meant) /\ IsDirective(call.meant[k])
  /\ str = TextTo(call, k - 1) /\ stored = CountsTo(call, k - 1)
Begin(k) == Spot(call, k - 1) + 1
ArgsOf(k) == Taken(call, k - 1)

AtFlags(k) ==
  LET d == call.meant[k]
  IN \E j \in 0 .. Len(d.flags) :
       /\ fmt = Begin(k) + 1 + j /\ arg = ArgsOf(k)
       /\ flags = FlagsTo(d, j)
AtPrecision(k) ==
  LET d == call.meant[k]
  IN /\ fmt = Begin(k) + PrecisionAt(d) /\ arg = ArgsOf(k) + Len(FirstArg(d))
     /\ flags = FlagsAfter(d) /\ field_width = WidthOf(d)
AtQualifier(k) ==
  LET d == call.meant[k]
  IN /\ fmt = Begin(k) + QualifierAt(d) /\ arg = ArgsOf(k) + Len(FirstArg(d)) + Len(SecondArg(d))
     /\ ReadIn(d)
AtConvert(k) ==
  LET d == call.meant[k]
  IN /\ fmt = Begin(k) + ConvAt(d) /\ arg = ArgsOf(k) + Len(FirstArg(d)) + Len(SecondArg(d))
     /\ ReadIn(d) /\ qualifier = d.qualifier

\* A call whose format spells directives.
FormatProgress ==
  /\ pc = "text" => AtText
  /\ pc = "flags" => \E k \in 1 .. Len(call.meant) : InDirective(k) /\ AtFlags(k)
  /\ pc = "precision" => \E k \in 1 .. Len(call.meant) : InDirective(k) /\ AtPrecision(k)
  /\ pc = "qualifier" => \E k \in 1 .. Len(call.meant) : InDirective(k) /\ AtQualifier(k)
  /\ pc = "convert" => \E k \in 1 .. Len(call.meant) : InDirective(k) /\ AtConvert(k)
  /\ pc = "done" => str = TextTo(call, Len(call.meant)) /\ stored = CountsTo(call, Len(call.meant))
  /\ pc # "fault"

\* The number of "%" and "*" in the first n characters.
Wants(f, n) == Cardinality({p \in 1 .. n : f[p] \in {"%", "*"}})

\* Any other call: it has fetched no more than the format has passed.
Reserve ==
  /\ pc \in {"text", "done", "fault"} => arg <= Wants(call.fmt, fmt - 1)
  /\ pc \in {"flags", "precision", "qualifier", "convert"} => arg + 1 <= Wants(call.fmt, fmt - 1)

FormatInv ==
  /\ call \in Calls /\ FormatTypeOK /\ NeverPastEnd
  /\ call.meant # <<>> => FormatProgress
  /\ call.meant = <<>> => Reserve

-----------------------------------------------------------------------------
(* Calls and their formats *)

\* The types of a call.
LEMMA CallTyped ==
  ASSUME NEW c \in Calls
  PROVE  Len(c.fmt) \in Nat /\ c.args \in Seq(Nat) /\ Len(c.args) \in Nat
<1>1. CASE c.meant # <<>>
  <2>1. Len(c.fmt) \in Nat /\ c.args \in Seq(Nat)
    BY <1>1, CallEnds
  <2> QED
    BY <2>1, LenProperties
<1>2. CASE c.meant = <<>>
  <2>1. c.fmt \in Seq(STRING \ {NUL}) /\ c.args \in Seq(Nat)
    BY <1>2, PrintkAssumption
  <2> QED
    BY <2>1, LenProperties
<1> QED
  BY <1>1, <1>2

\* Wants counts the places in order.
LEMMA WantsFacts ==
  ASSUME NEW f
  PROVE  /\ \A n \in Nat : Wants(f, n) \in Nat
         /\ Wants(f, 0) = 0
         /\ \A n \in Nat : Wants(f, n) <= Wants(f, n + 1)
         /\ \A n \in Nat : f[n + 1] \in {"%", "*"} => Wants(f, n + 1) = Wants(f, n) + 1
         /\ \A n \in Nat : \A m \in Nat : m <= n => Wants(f, m) <= Wants(f, n)
<1> DEFINE S(n) == {p \in 1 .. n : f[p] \in {"%", "*"}}
<1>1. ASSUME NEW n \in Nat PROVE IsFiniteSet(S(n)) /\ Cardinality(S(n)) \in Nat
  <2>1. IsFiniteSet(1 .. n)
    BY FS_Interval
  <2>2. IsFiniteSet(S(n))
    BY <2>1, FS_Subset
  <2> QED
    BY <2>2, FS_CardinalityType
<1>2. ASSUME NEW m \in Nat, NEW n \in Nat, m <= n PROVE Cardinality(S(m)) <= Cardinality(S(n))
  <2>1. S(m) \subseteq S(n)
    BY <1>2
  <2> QED
    BY <1>1, <2>1, FS_Subset
<1>3. ASSUME NEW n \in Nat, f[n + 1] \in {"%", "*"} PROVE Cardinality(S(n + 1)) = Cardinality(S(n)) + 1
  <2>1. S(n + 1) = S(n) \cup {n + 1} /\ n + 1 \notin S(n)
    BY <1>3
  <2> HIDE DEF S
  <2> QED
    BY <1>1, <2>1, FS_AddElement
<1>4. Cardinality(S(0)) = 0
  <2>1. S(0) = {}
    OBVIOUS
  <2> QED
    BY <2>1, FS_EmptySet
<1>5. \A n : Wants(f, n) = Cardinality(S(n))
  BY DEF Wants
<1> HIDE DEF S
<1> QED
  BY <1>1, <1>2, <1>3, <1>4, <1>5

\* Such a call has arguments enough.
LEMMA Supply ==
  ASSUME NEW c \in Calls, c.meant = <<>>, NEW n \in 0 .. Len(c.fmt)
  PROVE  Wants(c.fmt, n) <= Len(c.args)
<1>1. c.fmt \in Seq(STRING \ {NUL}) /\ Len(c.args) >= Wanted(c.fmt) /\ Len(c.fmt) \in Nat /\ Len(c.args) \in Nat
  BY CallTyped, PrintkAssumption
<1>2. DOMAIN c.fmt = 1 .. Len(c.fmt)
  BY <1>1, LenProperties
<1>3. Wanted(c.fmt) = Wants(c.fmt, Len(c.fmt))
  BY <1>2 DEF Wanted, Wants
<1>4. Wants(c.fmt, n) <= Wants(c.fmt, Len(c.fmt)) /\ Wants(c.fmt, n) \in Nat /\ Wants(c.fmt, Len(c.fmt)) \in Nat
  <2> DEFINE l == Len(c.fmt)
             f == c.fmt
  <2>1. n \in Nat /\ l \in Nat /\ n <= l
    BY <1>1
  <2> HIDE DEF l, f
  <2>2. Wants(f, n) <= Wants(f, l) /\ Wants(f, n) \in Nat /\ Wants(f, l) \in Nat
    BY <2>1, WantsFacts
  <2> QED
    BY <2>2 DEF l, f
<1> QED
  BY <1>1, <1>3, <1>4

\* A character in the format ends before its end.
LEMMA CharFound ==
  ASSUME FormatInv, NEW p \in Nat \ {0}, CharAt(p) # NUL
  PROVE  p <= Len(call.fmt) /\ call.fmt[p] = CharAt(p)
BY DEF CharAt

\* The places in the format and the arguments.
LEMMA FmtTyped ==
  ASSUME FormatInv
  PROVE  /\ fmt \in 1 .. Len(call.fmt) + 1 /\ Len(call.fmt) \in Nat
         /\ arg \in 0 .. Len(call.args) /\ Len(call.args) \in Nat /\ arg \in Nat
         /\ call \in Calls
<1>1. call \in Calls /\ fmt \in Nat \ {0} /\ arg \in 0 .. Len(call.args) /\ fmt <= Len(call.fmt) + 1
  BY DEF FormatInv, FormatTypeOK, NeverPastEnd
<1>2. Len(call.fmt) \in Nat /\ Len(call.args) \in Nat
  BY <1>1, CallTyped
<1> QED
  BY <1>1, <1>2

\* An argument that is there can be read as an int.
LEMMA IntArgTyped ==
  ASSUME FormatInv, arg + 1 <= Len(call.args)
  PROVE  IntArg \in Int
<1>1. arg \in Nat /\ Len(call.args) \in Nat /\ call \in Calls
  BY FmtTyped
<1>2. call.args \in Seq(Nat) /\ arg + 1 \in 1 .. Len(call.args)
  BY <1>1, CallTyped
<1>3. call.args[arg + 1] \in Nat
  BY <1>2, ElementOfSeq
<1>4. LongMod \in Nat \ {0} /\ IntMod \in Nat \ {0}
  BY Moduli
<1> DEFINE x == call.args[arg + 1]
           y == x % LongMod
           z == y % IntMod
<1>5. y \in Int
  <2> HIDE DEF x
  <2>1. x \in Int
    BY <1>3 DEF x
  <2> QED
    BY <1>4, <2>1, DivMod
<1> HIDE DEF y
<1>6. z \in Int
  BY <1>4, <1>5, DivMod
<1> HIDE DEF z
<1>7. Signed(z, IntMod) \in Int
  BY <1>4, <1>6 DEF Signed
<1> QED
  BY <1>7 DEF IntArg, Slot, x, y, z

-----------------------------------------------------------------------------
(* The steps of a call whose format spells directives *)

\* The first k directives are rendered and the loop is behind them.
TextAt(k) ==
  /\ fmt = Spot(call, k) + 1 /\ arg = Taken(call, k)
  /\ str = TextTo(call, k) /\ stored = CountsTo(call, k)

\* Append, as a concatenation.
LEMMA AppendIs ==
  ASSUME NEW V, NEW s \in Seq(V), NEW x \in V
  PROVE  Append(s, x) = s \o <<x>>
<1> DEFINE t == <<x>>
           n == Len(s)
<1>1. t \in Seq(V) /\ Len(t) = 1 /\ t[1] = x /\ n \in Nat
  BY LenProperties
<1>2. /\ Append(s, x) \in Seq(V) /\ Len(Append(s, x)) = n + 1
      /\ \A i \in 1 .. n : Append(s, x)[i] = s[i]
      /\ Append(s, x)[n + 1] = x
  BY AppendProperties
<1> HIDE DEF t
<1>3. /\ s \o t \in Seq(V) /\ Len(s \o t) = n + 1
      /\ \A i \in 1 .. n + 1 : (s \o t)[i] = IF i <= n THEN s[i] ELSE t[i - n]
  <2>1. s \in Seq(V) /\ t \in Seq(V)
    BY <1>1
  <2>2. s \o t \in Seq(V) /\ Len(s \o t) = Len(s) + Len(t)
    BY <2>1, ConcatProperties
  <2>3. \A i \in 1 .. Len(s) + Len(t) : (s \o t)[i] = IF i <= Len(s) THEN s[i] ELSE t[i - Len(s)]
    BY <2>1, ConcatProperties
  <2>4. Len(s) + Len(t) = n + 1
    BY <1>1
  <2> QED
    BY <2>2, <2>3, <2>4
<1> HIDE DEF n
<1>4. \A i \in 1 .. n + 1 : Append(s, x)[i] = (s \o t)[i]
  <2> TAKE i \in 1 .. n + 1
  <2>1. CASE i <= n
    <3>1. i \in 1 .. n
      BY <1>1, <2>1
    <3>2. Append(s, x)[i] = s[i]
      BY <1>2, <3>1
    <3> QED
      BY <1>3, <2>1, <3>2
  <2>2. CASE ~ (i <= n)
    <3>1. i = n + 1 /\ i - n = 1
      BY <1>1, <2>2
    <3> QED
      BY <1>1, <1>2, <1>3, <2>2, <3>1
  <2> QED
    BY <2>1, <2>2
<1>5. Append(s, x) = s \o t
  BY <1>1, <1>2, <1>3, <1>4, SeqEqual
<1> QED
  BY <1>5 DEF t

\* What FormatInv says of a call that means directives.
LEMMA MeantTyped ==
  ASSUME FormatInv, call.meant # <<>>
  PROVE  /\ call \in Calls /\ FormatProgress /\ Len(call.meant) \in Nat
         /\ Len(call.fmt) \in Nat /\ Len(call.args) \in Nat
<1>1. call \in Calls /\ FormatProgress
  BY DEF FormatInv
<1> QED
  BY <1>1, CallEnds, CallTyped

\* What the loop finds between two directives.
FoundNext(k, d) ==
  \/ IsLiteral(d) /\ Char = d.char /\ Char # "%" /\ Char # NUL
  \/ IsDirective(d) /\ Char = "%"

\* Behind k directives stands the next one, or the end of the format.
LEMMA TextFinds ==
  ASSUME FormatInv, call.meant # <<>>, NEW k \in 0 .. Len(call.meant), TextAt(k)
  PROVE  /\ k = Len(call.meant) => Char = NUL
         /\ k # Len(call.meant) => /\ k + 1 \in 1 .. Len(call.meant) /\ k + 1 - 1 = k
                                   /\ FoundNext(k, call.meant[k + 1])
<1>1. call \in Calls /\ Len(call.meant) \in Nat /\ Len(call.fmt) \in Nat
  BY MeantTyped
<1>2. CASE k = Len(call.meant)
  <2>1. Spot(call, k) = Len(call.fmt)
    BY <1>1, <1>2, CallEnds
  <2>2. fmt = Len(call.fmt) + 1
    BY <2>1 DEF TextAt
  <2>3. ~ (fmt <= Len(call.fmt))
    BY <1>1, <2>2
  <2>4. Char = NUL
    BY <2>3 DEF Char, CharAt
  <2> QED
    BY <1>2, <2>4
<1>3. CASE k # Len(call.meant)
  <2> DEFINE d == call.meant[k + 1]
  <2>1. k + 1 \in 1 .. Len(call.meant) /\ k + 1 - 1 = k
    BY <1>1, <1>3
  <2>2. IsLiteral(d) \/ IsDirective(d)
    BY <1>1, <2>1, MeantCall
  <2>3. CallStep(call, k + 1)
    BY <1>1, <2>1, CallSteps
  <2>4. fmt \in Nat \ {0} /\ Stands(call.fmt, fmt, Spelling(d))
    BY <2>1, <2>3 DEF CallStep, TextAt
  <2> HIDE DEF d
  <2>5. CASE IsLiteral(d)
    <3>1. Spelling(d) = <<d.char>> /\ d.char # NUL /\ d.char # "%"
      BY <2>5, LiteralFacts
    <3> DEFINE x == d.char
    <3>2. Stands(call.fmt, fmt, <<x>>)
      BY <2>4, <3>1
    <3> HIDE DEF x
    <3>3. CharAt(fmt) = x
      BY <2>4, <3>2, StandsOne
    <3>4. FoundNext(k, d)
      BY <2>5, <3>1, <3>3 DEF FoundNext, Char, x
    <3> QED
      BY <1>3, <2>1, <3>4 DEF d
  <2>6. CASE IsDirective(d)
    <3>1. CharAt(fmt) = "%"
      BY <2>4, <2>6, PercentChar
    <3>2. FoundNext(k, d)
      BY <2>6, <3>1 DEF FoundNext, Char
    <3> QED
      BY <1>3, <2>1, <3>2 DEF d
  <2> QED
    BY <2>2, <2>5, <2>6
<1> QED
  BY <1>2, <1>3

\* A literal is copied as it is.
LEMMA CopyTextMeant ==
  ASSUME FormatInv, call.meant # <<>>, CopyText
  PROVE  FormatProgress'
<1>1. call \in Calls /\ Len(call.meant) \in Nat /\ AtText
  BY MeantTyped DEF CopyText, FormatProgress
<1>2. PICK k \in 0 .. Len(call.meant) : TextAt(k)
  BY <1>1 DEF AtText, TextAt
<1>3. Char # NUL /\ Char # "%"
  BY DEF CopyText
<1> DEFINE d == call.meant[k + 1]
<1>4. k + 1 \in 1 .. Len(call.meant) /\ k + 1 - 1 = k /\ IsLiteral(d) /\ Char = d.char
  <2>1. k # Len(call.meant)
    BY <1>2, <1>3, TextFinds
  <2>2. k + 1 \in 1 .. Len(call.meant) /\ k + 1 - 1 = k /\ FoundNext(k, d)
    BY <1>2, <2>1, TextFinds
  <2> QED
    BY <1>3, <2>2 DEF FoundNext
<1>5. CallStep(call, k + 1) /\ TextStep(call, k + 1)
  BY <1>1, <1>4, CallSteps, TextSteps
<1>6. /\ d.conv = "text" /\ d.char \in Characters
      /\ Spelling(d) = <<d.char>> /\ Arguments(d) = <<>> /\ Rendering(d) = <<d.char>>
  BY <1>4, LiteralFacts
<1>7. Spot(call, k + 1) = fmt /\ fmt \in Nat
  <2>1. Len(Spelling(d)) = 1
    BY <1>6, SingleFacts
  <2> QED
    BY <1>2, <1>4, <1>5, <2>1 DEF CallStep, TextAt
<1>8. Taken(call, k + 1) = arg
  <2>1. Len(Arguments(d)) = 0
    BY <1>6
  <2> QED
    BY <1>2, <1>4, <1>5, <2>1 DEF CallStep, TextAt
<1>9. TextTo(call, k + 1) = Append(str, Char)
  <2>1. str \in Seq(Characters) /\ TextTo(call, k + 1) = str \o <<d.char>>
    <3>1. str = TextTo(call, k)
      BY <1>2 DEF TextAt
    <3>2. TextTo(call, k) \in Seq(Characters) /\ TextTo(call, k + 1) = TextTo(call, k) \o Rendering(d)
      BY <1>4, <1>5 DEF TextStep
    <3>3. Rendering(d) = <<d.char>>
      BY <1>6
    <3> HIDE DEF d
    <3> QED
      BY <3>1, <3>2, <3>3
  <2> DEFINE x == d.char
  <2>2. x \in Characters /\ str \in Seq(Characters) /\ TextTo(call, k + 1) = str \o <<x>>
    BY <1>6, <2>1
  <2> HIDE DEF x
  <2>3. TextTo(call, k + 1) = Append(str, x)
    BY <2>2, AppendIs
  <2> QED
    BY <1>4, <2>3 DEF x
<1>10. CountsTo(call, k + 1) = stored
  <2>1. stored \in Seq(Nat) /\ CountsTo(call, k + 1) = stored \o <<>>
    BY <1>2, <1>4, <1>5, <1>6 DEF TextStep, TextAt
  <2> QED
    BY <2>1, ConcatEmptySeq
<1>11. k + 1 \in 0 .. Len(call.meant)
  BY <1>1, <1>4
<1>12. /\ pc' = "text" /\ call' = call /\ str' = Append(str, Char) /\ fmt' = fmt + 1
       /\ arg' = arg /\ stored' = stored
  BY DEF CopyText
<1>13. AtText'
  <2> DEFINE n == k + 1
  <2>1. /\ n \in 0 .. Len(call'.meant)
        /\ fmt' = Spot(call', n) + 1 /\ arg' = Taken(call', n)
        /\ str' = TextTo(call', n) /\ stored' = CountsTo(call', n)
    BY <1>7, <1>8, <1>9, <1>10, <1>11, <1>12
  <2> HIDE DEF n
  <2> QED
    BY <2>1 DEF AtText
<1> QED
  BY <1>12, <1>13 DEF FormatProgress

\* Where the k-th directive stands.
StandsAsMeant(k) ==
  /\ IsDirective(call.meant[k])
  /\ Begin(k) \in Nat \ {0} /\ Stands(call.fmt, Begin(k), Spelling(call.meant[k]))
  /\ ArgsOf(k) \in Nat /\ Stands(call.args, ArgsOf(k) + 1, Arguments(call.meant[k]))
  /\ Spot(call, k) + 1 = Begin(k) + ConvAt(call.meant[k]) + 1
  /\ Taken(call, k) = ArgsOf(k) + Len(Arguments(call.meant[k]))

\* In a directive, it is the k-th one of the format.
LEMMA DirectiveStands ==
  ASSUME FormatInv, call.meant # <<>>, NEW k, InDirective(k)
  PROVE  StandsAsMeant(k) /\ k \in 1 .. Len(call.meant)
<1>1. call \in Calls /\ k \in 1 .. Len(call.meant) /\ IsDirective(call.meant[k])
  BY MeantTyped DEF InDirective
<1> DEFINE d == call.meant[k]
<1>2. CallStep(call, k)
  BY <1>1, CallSteps
<1>3. Len(Spelling(d)) = ConvAt(d) + 1 /\ ConvAt(d) \in Nat
  BY <1>1, SpellingParts, PlacesTyped
<1> HIDE DEF d
<1>4. /\ Spot(call, k - 1) \in Nat /\ Spot(call, k) = Spot(call, k - 1) + Len(Spelling(d))
      /\ Stands(call.fmt, Spot(call, k - 1) + 1, Spelling(d))
      /\ Taken(call, k - 1) \in Nat /\ Taken(call, k) = Taken(call, k - 1) + Len(Arguments(d))
      /\ Stands(call.args, Taken(call, k - 1) + 1, Arguments(d))
  BY <1>2 DEF CallStep, d
<1>5. Spot(call, k) + 1 = Begin(k) + ConvAt(d) + 1 /\ Begin(k) \in Nat \ {0}
  BY <1>3, <1>4 DEF Begin
<1> QED
  BY <1>1, <1>4, <1>5 DEF StandsAsMeant, Begin, ArgsOf, d

\* The flags, one more at a time.
LEMMA FlagsToFacts ==
  ASSUME NEW d, IsDirective(d)
  PROVE  /\ FlagsTo(d, 0) = {} /\ FlagsTo(d, Len(d.flags)) = Flags(d)
         /\ \A j \in Nat : FlagsTo(d, j + 1) = FlagsTo(d, j) \cup FlagOf(d.flags[j + 1])
<1>1. d.flags \in Seq(FlagChars)
  BY PartsTyped
<1>2. DOMAIN d.flags = 1 .. Len(d.flags)
  BY <1>1, LenProperties
<1>3. FlagsTo(d, Len(d.flags)) = Flags(d)
  BY <1>2 DEF FlagsTo, Flags
<1>4. FlagsTo(d, 0) = {}
  BY DEF FlagsTo
<1>5. \A j \in Nat : FlagsTo(d, j + 1) = FlagsTo(d, j) \cup FlagOf(d.flags[j + 1])
  <2> TAKE j \in Nat
  <2>1. 1 .. j + 1 = (1 .. j) \cup {j + 1}
    OBVIOUS
  <2> QED
    BY <2>1 DEF FlagsTo
<1> QED
  BY <1>3, <1>4, <1>5

\* A directive starts without flags, whatever the last one left in them.
LEMMA PercentMeant ==
  ASSUME FormatInv, call.meant # <<>>, Percent
  PROVE  FormatProgress'
<1>1. call \in Calls /\ Len(call.meant) \in Nat /\ AtText
  BY MeantTyped DEF Percent, FormatProgress
<1>2. PICK k \in 0 .. Len(call.meant) : TextAt(k)
  BY <1>1 DEF AtText, TextAt
<1>3. Char = "%" /\ Char # NUL
  BY DEF Percent, NUL
<1> DEFINE n == k + 1
           d == call.meant[n]
<1>4. n \in 1 .. Len(call.meant) /\ n - 1 = k /\ IsDirective(d)
  <2>1. k # Len(call.meant)
    BY <1>2, <1>3, TextFinds
  <2>2. k + 1 \in 1 .. Len(call.meant) /\ k + 1 - 1 = k /\ FoundNext(k, d)
    BY <1>2, <2>1, TextFinds
  <2> QED
    BY <1>3, <2>2 DEF FoundNext
<1>5. FlagsTo(d, 0) = {} /\ 0 \in 0 .. Len(d.flags)
  <2> HIDE DEF n, d
  <2>1. FlagsTo(d, 0) = {}
    BY <1>4, FlagsToFacts
  <2>2. Len(d.flags) \in Nat
    BY <1>4, PlacesTyped
  <2> QED
    BY <2>1, <2>2
<1>6. /\ pc' = "flags" /\ call' = call /\ str' = str /\ fmt' = fmt + 1
      /\ arg' = arg /\ stored' = stored /\ flags' = {}
  BY DEF Percent
<1>7. fmt = Spot(call, k) + 1 /\ fmt \in Nat
  BY <1>2, FmtTyped DEF TextAt
<1> HIDE DEF n, d
<1>8. /\ n \in 1 .. Len(call'.meant) /\ IsDirective(call'.meant[n])
      /\ str' = TextTo(call', n - 1) /\ stored' = CountsTo(call', n - 1)
  BY <1>2, <1>4, <1>6 DEF TextAt, d
<1>9. /\ fmt' = Spot(call', n - 1) + 1 + 1 + 0 /\ arg' = Taken(call', n - 1)
      /\ flags' = FlagsTo(call'.meant[n], 0) /\ 0 \in 0 .. Len(call'.meant[n].flags)
  <2>1. fmt' = Spot(call', n - 1) + 1 + 1 + 0
    BY <1>4, <1>6, <1>7
  <2> QED
    BY <1>2, <1>4, <1>5, <1>6, <2>1 DEF TextAt, d
<1>10. InDirective(n)' /\ AtFlags(n)'
  <2>1. InDirective(n)'
    BY <1>8 DEF InDirective
  <2>2. AtFlags(n)'
    BY <1>9 DEF AtFlags, Begin, ArgsOf
  <2> QED
    BY <2>1, <2>2
<1> QED
  BY <1>6, <1>8, <1>10 DEF FormatProgress

\* The loop ends with the last directive.
LEMMA FinishMeant ==
  ASSUME FormatInv, call.meant # <<>>, Finish
  PROVE  FormatProgress'
<1>1. call \in Calls /\ Len(call.meant) \in Nat /\ AtText
  BY MeantTyped DEF Finish, FormatProgress
<1>2. PICK k \in 0 .. Len(call.meant) : TextAt(k)
  BY <1>1 DEF AtText, TextAt
<1>3. Char = NUL /\ Char # "%"
  BY DEF Finish, NUL
<1>4. k = Len(call.meant)
  <2>1. SUFFICES ASSUME k # Len(call.meant) PROVE FALSE
    OBVIOUS
  <2>2. FoundNext(k, call.meant[k + 1])
    BY <1>2, <2>1, TextFinds
  <2> QED
    BY <1>3, <2>2 DEF FoundNext
<1>5. pc' = "done" /\ call' = call /\ str' = str /\ stored' = stored
  BY DEF Finish
<1>6. str' = TextTo(call', Len(call'.meant)) /\ stored' = CountsTo(call', Len(call'.meant))
  BY <1>2, <1>4, <1>5 DEF TextAt
<1> QED
  BY <1>5, <1>6 DEF FormatProgress

\* At a flag character, or behind the last.
LEMMA FlagsFinds ==
  ASSUME FormatInv, call.meant # <<>>, pc = "flags"
  PROVE  \E k \in 1 .. Len(call.meant) :
           /\ InDirective(k) /\ StandsAsMeant(k) /\ arg = ArgsOf(k)
           /\ \/ \E j \in 0 .. Len(call.meant[k].flags) :
                   /\ j + 1 \in 0 .. Len(call.meant[k].flags) /\ flags = FlagsTo(call.meant[k], j)
                   /\ fmt = Begin(k) + 1 + j /\ FlagOf(Char) # {} /\ Char = call.meant[k].flags[j + 1]
              \/ /\ FlagOf(Char) = {} /\ fmt = Begin(k) + WidthAt(call.meant[k])
                 /\ flags = Flags(call.meant[k]) /\ WidthRead(call.meant[k], fmt)
<1>1. PICK k \in 1 .. Len(call.meant) : InDirective(k) /\ AtFlags(k)
  BY MeantTyped DEF FormatProgress
<1>2. StandsAsMeant(k)
  BY <1>1, DirectiveStands
<1> DEFINE d == call.meant[k]
<1>3. PICK j \in 0 .. Len(d.flags) : fmt = Begin(k) + 1 + j /\ arg = ArgsOf(k) /\ flags = FlagsTo(d, j)
  BY <1>1 DEF AtFlags
<1>4. IsDirective(d) /\ Begin(k) \in Nat \ {0} /\ Stands(call.fmt, Begin(k), Spelling(d))
  BY <1>2 DEF StandsAsMeant
<1>5. Len(d.flags) \in Nat /\ WidthAt(d) = 1 + Len(d.flags)
  BY <1>4, PlacesTyped DEF WidthAt
<1> HIDE DEF d
<1>6. CASE j = Len(d.flags)
  <2>1. fmt = Begin(k) + WidthAt(d)
    BY <1>3, <1>4, <1>5, <1>6
  <2>2. WidthRead(d, fmt) /\ FlagOf(Char) = {}
    BY <1>4, <2>1, WidthChars, MeantTyped DEF Char
  <2>3. flags = Flags(d)
    BY <1>3, <1>4, <1>6, FlagsToFacts
  <2> QED
    BY <1>1, <1>2, <1>3, <2>1, <2>2, <2>3 DEF d
<1>7. CASE j # Len(d.flags)
  <2>1. j + 1 \in 1 .. Len(d.flags) /\ j + 1 \in 0 .. Len(d.flags) /\ fmt = Begin(k) + (j + 1)
    BY <1>3, <1>4, <1>5, <1>7
  <2> DEFINE i == j + 1
  <2>2. i \in 1 .. Len(d.flags)
    BY <2>1
  <2> HIDE DEF i
  <2>3. CharAt(Begin(k) + i) = d.flags[i] /\ FlagOf(d.flags[i]) # {}
    BY <1>4, <2>2, FlagChar
  <2>4. Char = d.flags[j + 1] /\ FlagOf(Char) # {}
    BY <2>1, <2>3 DEF Char, i
  <2> QED
    BY <1>1, <1>2, <1>3, <2>1, <2>4 DEF d
<1> QED
  BY <1>6, <1>7

\* A flag is added.
LEMMA FlagMeant ==
  ASSUME FormatInv, call.meant # <<>>, Flag
  PROVE  FormatProgress'
<1>1. pc = "flags" /\ FlagOf(Char) # {}
  BY DEF Flag
<1>2. PICK k \in 1 .. Len(call.meant) :
         /\ InDirective(k) /\ StandsAsMeant(k) /\ arg = ArgsOf(k)
         /\ \E j \in 0 .. Len(call.meant[k].flags) :
                   /\ j + 1 \in 0 .. Len(call.meant[k].flags) /\ flags = FlagsTo(call.meant[k], j)
                   /\ fmt = Begin(k) + 1 + j /\ Char = call.meant[k].flags[j + 1]
  BY <1>1, FlagsFinds
<1> DEFINE d == call.meant[k]
<1>3. PICK j \in 0 .. Len(d.flags) :
         /\ j + 1 \in 0 .. Len(d.flags) /\ flags = FlagsTo(d, j)
         /\ fmt = Begin(k) + 1 + j /\ Char = d.flags[j + 1]
  BY <1>2
<1>4. IsDirective(d) /\ Begin(k) \in Nat \ {0}
  BY <1>2 DEF StandsAsMeant
<1>5. /\ pc' = "flags" /\ call' = call /\ str' = str /\ fmt' = fmt + 1
      /\ arg' = arg /\ stored' = stored /\ flags' = flags \cup FlagOf(Char)
  BY DEF Flag
<1> HIDE DEF d
<1>6. FlagsTo(d, j + 1) = flags'
  <2>1. j \in Nat
    OBVIOUS
  <2> QED
    BY <1>3, <1>4, <1>5, <2>1, FlagsToFacts
<1>7. fmt' = Begin(k) + 1 + (j + 1)
  <2>1. j \in Nat
    OBVIOUS
  <2> QED
    BY <1>3, <1>4, <1>5, <2>1
<1> DEFINE i == j + 1
<1>8. i \in 0 .. Len(d.flags) /\ fmt' = Begin(k) + 1 + i /\ flags' = FlagsTo(d, i)
  BY <1>3, <1>6, <1>7
<1> HIDE DEF i
<1>9. Begin(k)' = Begin(k) /\ ArgsOf(k)' = ArgsOf(k) /\ call'.meant[k] = d
  BY <1>5 DEF Begin, ArgsOf, d
<1>10. AtFlags(k)'
  BY <1>2, <1>5, <1>8, <1>9 DEF AtFlags
<1>11. InDirective(k)'
  BY <1>2, <1>5 DEF InDirective
<1>12. k \in 1 .. Len(call'.meant)
  BY <1>5
<1> QED
  BY <1>5, <1>10, <1>11, <1>12 DEF FormatProgress

\* The arguments of the k-th directive.
LEMMA ArgumentsStand ==
  ASSUME NEW k, StandsAsMeant(k)
  PROVE  /\ Stands(call.args, ArgsOf(k) + 1, FirstArg(call.meant[k]))
         /\ Stands(call.args, ArgsOf(k) + Len(FirstArg(call.meant[k])) + 1, SecondArg(call.meant[k]))
         /\ Stands(call.args, ArgsOf(k) + Len(FirstArg(call.meant[k])) + Len(SecondArg(call.meant[k])) + 1,
                   LastArg(call.meant[k]))
         /\ Len(FirstArg(call.meant[k])) \in Nat /\ Len(SecondArg(call.meant[k])) \in Nat
         /\ Len(LastArg(call.meant[k])) \in Nat /\ ArgsOf(k) \in Nat
<1> DEFINE d == call.meant[k]
           a == ArgsOf(k)
           p == a + 1
           l1 == Len(FirstArg(d))
           l2 == Len(SecondArg(d))
<1>1. IsDirective(d) /\ a \in Nat /\ p \in Nat \ {0} /\ Stands(call.args, p, Arguments(d))
  BY DEF StandsAsMeant
<1> HIDE DEF d, a
<1>2. l1 \in Nat /\ l2 \in Nat /\ Len(LastArg(d)) \in Nat
  BY <1>1, ArgumentParts
<1> HIDE DEF p
<1>3. Stands(call.args, p, FirstArg(d)) /\ Stands(call.args, p + l1, SecondArg(d))
      /\ Stands(call.args, p + l1 + l2, LastArg(d))
  BY <1>1, ArgumentParts
<1> HIDE DEF l1, l2
<1>4. p + l1 = a + l1 + 1 /\ p + l1 + l2 = a + l1 + l2 + 1
  BY <1>1, <1>2 DEF p
<1>5. Stands(call.args, a + 1, FirstArg(d)) /\ Stands(call.args, a + l1 + 1, SecondArg(d))
      /\ Stands(call.args, a + l1 + l2 + 1, LastArg(d))
  BY <1>3, <1>4 DEF p
<1> QED
  BY <1>1, <1>2, <1>5 DEF d, a, l1, l2

\* A star takes one argument, the conversion one, and "%" none.
LEMMA StarredFacts ==
  ASSUME NEW d, IsDirective(d)
  PROVE  /\ "width" \in d.star => FirstArg(d) = <<d.width % LongMod>> /\ Len(FirstArg(d)) = 1
         /\ "width" \notin d.star => Len(FirstArg(d)) = 0
         /\ "precision" \in d.star => SecondArg(d) = <<d.precision % LongMod>> /\ Len(SecondArg(d)) = 1
         /\ "precision" \notin d.star => Len(SecondArg(d)) = 0
         /\ d.conv = "%" => Len(LastArg(d)) = 0
         /\ d.conv # "%" => LastArg(d) = <<d.slot>> /\ Len(LastArg(d)) = 1
         /\ d.width \in Ints /\ d.precision \in Ints
BY DEF FirstArg, SecondArg, LastArg, Starred, IsDirective

\* The width is the one that is spelled, or the argument a star takes; a
\* negative one aligns left.
LEMMA FieldWidthMeant ==
  ASSUME FormatInv, call.meant # <<>>, FieldWidth
  PROVE  FormatProgress' /\ (arg' # arg => arg' = arg + 1 /\ arg + 1 <= Len(call.args))
<1>1. pc = "flags" /\ FlagOf(Char) = {}
  BY DEF FieldWidth
<1>2. PICK k \in 1 .. Len(call.meant) :
         /\ InDirective(k) /\ StandsAsMeant(k) /\ arg = ArgsOf(k)
         /\ fmt = Begin(k) + WidthAt(call.meant[k])
         /\ flags = Flags(call.meant[k]) /\ WidthRead(call.meant[k], fmt)
  BY <1>1, FlagsFinds
<1> DEFINE d == call.meant[k]
<1>3. /\ IsDirective(d) /\ Begin(k) \in Nat /\ WidthAt(d) \in Nat /\ PrecisionAt(d) \in Nat
      /\ arg \in Nat
  BY <1>2, PlacesTyped DEF StandsAsMeant
<1>4. Stands(call.args, arg + 1, FirstArg(d))
  BY <1>2, ArgumentsStand
<1>5. fmt = Begin(k) + WidthAt(d) /\ flags = Flags(d) /\ WidthRead(d, fmt) /\ arg = ArgsOf(k)
  BY <1>2
<1>6. /\ pc' = "precision" /\ call' = call /\ str' = str /\ stored' = stored
  BY DEF FieldWidth
<1> HIDE DEF d
<1> DEFINE Goal == /\ fmt' = Begin(k) + PrecisionAt(d) /\ arg' = arg + Len(FirstArg(d))
                   /\ flags' = FlagsAfter(d) /\ field_width' = WidthOf(d)
                   /\ arg' # arg => arg' = arg + 1 /\ arg + 1 <= Len(call.args)
<1>7. ASSUME "width" \in d.star /\ CharAt(fmt) = "*" /\ PrecisionAt(d) = WidthAt(d) + 1
      PROVE  Goal
  <2>1. ~ is_digit(Char) /\ Char = "*"
    BY <1>7, LetterFacts DEF Char
  <2>2. /\ field_width' = IF IntArg < 0 THEN - IntArg ELSE IntArg
        /\ flags' = IF IntArg < 0 THEN flags \cup {"LEFT"} ELSE flags
        /\ arg' = arg + 1 /\ fmt' = fmt + 1
    BY <2>1 DEF FieldWidth
  <2>3. FirstArg(d) = <<d.width % LongMod>> /\ Len(FirstArg(d)) = 1 /\ d.width \in Ints
    BY <1>3, <1>7, StarredFacts
  <2> DEFINE w == d.width
  <2>4. w \in Ints /\ Stands(call.args, arg + 1, <<w % LongMod>>)
    BY <1>4, <2>3
  <2> HIDE DEF w
  <2>5. IntArg = w /\ arg + 1 <= Len(call.args)
    BY <1>3, <2>4, StarRead
  <2>6. field_width' = WidthOf(d) /\ flags' = FlagsAfter(d)
    BY <1>5, <1>7, <2>2, <2>5 DEF WidthOf, FlagsAfter, w
  <2>7. fmt' = Begin(k) + PrecisionAt(d)
    BY <1>3, <1>5, <1>7, <2>2
  <2> QED
    BY <2>2, <2>3, <2>5, <2>6, <2>7
<1>8. ASSUME /\ "width" \notin d.star /\ d.width = NONE
             /\ ~ is_digit(CharAt(fmt)) /\ CharAt(fmt) # "*" /\ PrecisionAt(d) = WidthAt(d)
      PROVE  Goal
  <2>1. ~ is_digit(Char) /\ Char # "*"
    BY <1>8 DEF Char
  <2>2. field_width' = NONE /\ fmt' = fmt /\ arg' = arg /\ flags' = flags
    BY <2>1 DEF FieldWidth
  <2>3. Len(FirstArg(d)) = 0
    BY <1>3, <1>8, StarredFacts
  <2>4. WidthOf(d) = NONE /\ FlagsAfter(d) = Flags(d)
    BY <1>8 DEF WidthOf, FlagsAfter
  <2> QED
    BY <1>3, <1>5, <1>8, <2>2, <2>3, <2>4
<1>9. ASSUME /\ "width" \notin d.star /\ d.width \in Nat \ {0} /\ is_digit(CharAt(fmt)) /\ skip_atoi(fmt) = d.width
             /\ EndOfDigits(fmt) = fmt + PrecisionAt(d) - WidthAt(d)
      PROVE  Goal
  <2>1. is_digit(Char) /\ Char # "*"
    BY <1>9, LetterFacts DEF Char
  <2>2. field_width' = d.width /\ fmt' = fmt + PrecisionAt(d) - WidthAt(d) /\ arg' = arg /\ flags' = flags
    BY <1>9, <2>1 DEF FieldWidth
  <2>3. Len(FirstArg(d)) = 0
    BY <1>3, <1>9, StarredFacts
  <2>4. WidthOf(d) = d.width /\ FlagsAfter(d) = Flags(d)
    BY <1>9 DEF WidthOf, FlagsAfter
  <2>5. fmt' = Begin(k) + PrecisionAt(d)
    BY <1>3, <1>5, <2>2
  <2> QED
    BY <1>3, <1>5, <2>2, <2>3, <2>4, <2>5
<1>10. Goal
  BY <1>5, <1>7, <1>8, <1>9 DEF WidthRead
<1>11. Begin(k)' = Begin(k) /\ ArgsOf(k)' = ArgsOf(k) /\ call'.meant[k] = d
  BY <1>6 DEF Begin, ArgsOf, d
<1>12. AtPrecision(k)'
  BY <1>5, <1>10, <1>11 DEF AtPrecision
<1>13. InDirective(k)' /\ k \in 1 .. Len(call'.meant)
  BY <1>2, <1>6 DEF InDirective
<1>14. FormatProgress'
  BY <1>6, <1>12, <1>13 DEF FormatProgress
<1> QED
  BY <1>10, <1>14

\* The precision is the one that is spelled, or the argument a star takes.
LEMMA PrecisionMeant ==
  ASSUME FormatInv, call.meant # <<>>, Precision
  PROVE  FormatProgress' /\ (arg' # arg => arg' = arg + 1 /\ arg + 1 <= Len(call.args))
<1>1. pc = "precision"
  BY DEF Precision
<1>2. PICK k \in 1 .. Len(call.meant) : InDirective(k) /\ AtPrecision(k)
  BY <1>1, MeantTyped DEF FormatProgress
<1>15. StandsAsMeant(k)
  BY <1>2, DirectiveStands
<1> DEFINE d == call.meant[k]
           a == ArgsOf(k) + Len(FirstArg(d))
<1>3. /\ IsDirective(d) /\ Begin(k) \in Nat \ {0} /\ PrecisionAt(d) \in Nat /\ QualifierAt(d) \in Nat
      /\ Stands(call.fmt, Begin(k), Spelling(d))
  BY <1>15, PlacesTyped DEF StandsAsMeant
<1>4. Stands(call.args, a + 1, SecondArg(d)) /\ a \in Nat /\ Len(SecondArg(d)) \in Nat
  BY <1>15, ArgumentsStand
<1>5. /\ fmt = Begin(k) + PrecisionAt(d) /\ arg = a
      /\ flags = FlagsAfter(d) /\ field_width = WidthOf(d)
  BY <1>2 DEF AtPrecision
<1>6. /\ pc' = "qualifier" /\ call' = call /\ str' = str /\ stored' = stored
      /\ flags' = flags /\ field_width' = field_width
  BY DEF Precision
<1> HIDE DEF d, a
<1>16. PrecisionRead(d, fmt) /\ fmt \in Nat
  BY <1>3, <1>5, MeantTyped, PrecisionChars
<1> DEFINE Goal == /\ fmt' = Begin(k) + QualifierAt(d) /\ arg' = a + Len(SecondArg(d))
                   /\ precision' = PrecisionOf(d)
                   /\ arg' # arg => arg' = arg + 1 /\ arg + 1 <= Len(call.args)
<1>7. ASSUME /\ "precision" \in d.star /\ CharAt(fmt) = "." /\ CharAt(fmt + 1) = "*"
             /\ QualifierAt(d) = PrecisionAt(d) + 2
      PROVE  Goal
  <2>1. ~ is_digit(CharAt(fmt + 1)) /\ Char = "."
    BY <1>7, LetterFacts DEF Char
  <2>2. precision' = NonNegative(IntArg) /\ arg' = arg + 1 /\ fmt' = fmt + 2
    BY <1>7, <2>1 DEF Precision
  <2>3. SecondArg(d) = <<d.precision % LongMod>> /\ Len(SecondArg(d)) = 1 /\ d.precision \in Ints
    BY <1>3, <1>7, StarredFacts
  <2> DEFINE w == d.precision
  <2>4. w \in Ints /\ arg \in Nat /\ Stands(call.args, arg + 1, <<w % LongMod>>)
    BY <1>4, <1>5, <2>3
  <2> HIDE DEF w
  <2>5. IntArg = w /\ arg + 1 <= Len(call.args)
    BY <2>4, StarRead
  <2>6. precision' = PrecisionOf(d)
    BY <1>7, <2>2, <2>5 DEF PrecisionOf, NonNegative, w
  <2>7. fmt' = Begin(k) + QualifierAt(d)
    BY <1>3, <1>5, <1>7, <2>2
  <2> QED
    BY <1>5, <2>2, <2>3, <2>5, <2>6, <2>7
<1>8. ASSUME /\ "precision" \notin d.star /\ d.precision = NONE /\ CharAt(fmt) \in Letters
             /\ QualifierAt(d) = PrecisionAt(d)
      PROVE  Goal
  <2>1. Char # "."
    BY <1>8, LetterFacts DEF Char
  <2>2. precision' = NONE /\ fmt' = fmt /\ arg' = arg
    BY <2>1 DEF Precision
  <2>3. Len(SecondArg(d)) = 0
    BY <1>3, <1>8, StarredFacts
  <2>4. PrecisionOf(d) = NONE
    BY <1>8 DEF PrecisionOf
  <2> QED
    BY <1>3, <1>4, <1>5, <1>8, <2>2, <2>3, <2>4
<1>9. ASSUME /\ "precision" \notin d.star /\ d.precision = 0
             /\ CharAt(fmt) = "." /\ CharAt(fmt + 1) \in Letters
             /\ QualifierAt(d) = PrecisionAt(d) + 1
      PROVE  Goal
  <2>1. Char = "." /\ ~ is_digit(CharAt(fmt + 1)) /\ CharAt(fmt + 1) # "*"
    BY <1>9, LetterFacts DEF Char
  <2>2. precision' = 0 /\ fmt' = fmt + 1 /\ arg' = arg
    BY <2>1 DEF Precision
  <2>3. Len(SecondArg(d)) = 0
    BY <1>3, <1>9, StarredFacts
  <2>4. PrecisionOf(d) = 0
    BY <1>9 DEF PrecisionOf
  <2>5. fmt' = Begin(k) + QualifierAt(d)
    BY <1>3, <1>5, <1>9, <2>2
  <2> QED
    BY <1>4, <1>5, <2>2, <2>3, <2>4, <2>5
<1>17. ASSUME /\ "precision" \notin d.star /\ d.precision \in Nat
              /\ CharAt(fmt) = "." /\ is_digit(CharAt(fmt + 1))
              /\ skip_atoi(fmt + 1) = d.precision
              /\ EndOfDigits(fmt + 1) = fmt + QualifierAt(d) - PrecisionAt(d)
      PROVE  Goal
  <2>1. Char = "." /\ is_digit(CharAt(fmt + 1)) /\ CharAt(fmt + 1) # "*"
    BY <1>17, LetterFacts DEF Char
  <2>2. precision' = d.precision /\ fmt' = fmt + QualifierAt(d) - PrecisionAt(d) /\ arg' = arg
    BY <1>17, <2>1 DEF Precision
  <2>3. Len(SecondArg(d)) = 0
    BY <1>3, <1>17, StarredFacts
  <2>4. PrecisionOf(d) = d.precision
    BY <1>17 DEF PrecisionOf
  <2>5. fmt' = Begin(k) + QualifierAt(d)
    BY <1>3, <1>5, <2>2
  <2> QED
    BY <1>4, <1>5, <2>2, <2>3, <2>4, <2>5
<1>10. Goal
  BY <1>7, <1>8, <1>9, <1>16, <1>17 DEF PrecisionRead
<1>11. Begin(k)' = Begin(k) /\ ArgsOf(k)' = ArgsOf(k) /\ call'.meant[k] = d
  BY <1>6 DEF Begin, ArgsOf, d
<1>12. AtQualifier(k)'
  BY <1>5, <1>6, <1>10, <1>11 DEF AtQualifier, ReadIn, a
<1>13. InDirective(k)' /\ k \in 1 .. Len(call'.meant)
  BY <1>2, <1>6 DEF InDirective
<1>14. FormatProgress'
  BY <1>6, <1>12, <1>13 DEF FormatProgress
<1> QED
  BY <1>10, <1>14

\* The qualifier is the one that is spelled.
LEMMA QualifierMeant ==
  ASSUME FormatInv, call.meant # <<>>, Qualifier
  PROVE  FormatProgress'
<1>1. pc = "qualifier"
  BY DEF Qualifier
<1>2. PICK k \in 1 .. Len(call.meant) : InDirective(k) /\ AtQualifier(k)
  BY <1>1, MeantTyped DEF FormatProgress
<1>3. StandsAsMeant(k)
  BY <1>2, DirectiveStands
<1> DEFINE d == call.meant[k]
<1>4. /\ IsDirective(d) /\ Begin(k) \in Nat \ {0} /\ QualifierAt(d) \in Nat /\ ConvAt(d) \in Nat
      /\ Stands(call.fmt, Begin(k), Spelling(d))
  BY <1>3, PlacesTyped DEF StandsAsMeant
<1>5. /\ fmt = Begin(k) + QualifierAt(d) /\ arg = ArgsOf(k) + Len(FirstArg(d)) + Len(SecondArg(d))
      /\ ReadIn(d)
  BY <1>2 DEF AtQualifier
<1>6. /\ pc' = "convert" /\ call' = call /\ str' = str /\ stored' = stored /\ arg' = arg
      /\ flags' = flags /\ field_width' = field_width /\ precision' = precision
  BY DEF Qualifier
<1> HIDE DEF d
<1>7. QualifierRead(d, Begin(k)) /\ CharAt(Begin(k) + QualifierAt(d)) = Char
  BY <1>4, <1>5, QualifierChar DEF Char
<1>10. qualifier' = d.qualifier /\ fmt' = Begin(k) + ConvAt(d)
  <2>1. \/ d.qualifier = NUL /\ Char = d.conv /\ ConvAt(d) = QualifierAt(d)
        \/ d.qualifier \in {"h", "l", "L", "Z"} /\ Char = d.qualifier /\ ConvAt(d) = QualifierAt(d) + 1
    BY <1>7 DEF QualifierRead
  <2>2. CASE d.qualifier = NUL /\ Char = d.conv /\ ConvAt(d) = QualifierAt(d)
    <3>1. Char \notin {"h", "l", "L", "Z"}
      BY <1>4, <2>2, LetterFacts DEF IsDirective
    <3>2. qualifier' = NUL /\ fmt' = fmt
      BY <3>1 DEF Qualifier
    <3> QED
      BY <1>5, <2>2, <3>2
  <2>3. CASE d.qualifier \in {"h", "l", "L", "Z"} /\ Char = d.qualifier /\ ConvAt(d) = QualifierAt(d) + 1
    <3>1. qualifier' = Char /\ fmt' = fmt + 1
      BY <2>3 DEF Qualifier
    <3>2. fmt + 1 = Begin(k) + ConvAt(d)
      BY <1>4, <1>5, <2>3
    <3> QED
      BY <2>3, <3>1, <3>2
  <2> QED
    BY <2>1, <2>2, <2>3
<1>11. Begin(k)' = Begin(k) /\ ArgsOf(k)' = ArgsOf(k) /\ call'.meant[k] = d
  BY <1>6 DEF Begin, ArgsOf, d
<1>12. AtConvert(k)'
  BY <1>5, <1>6, <1>10, <1>11 DEF AtConvert, ReadIn
<1>13. InDirective(k)' /\ k \in 1 .. Len(call'.meant)
  BY <1>2, <1>6 DEF InDirective
<1> QED
  BY <1>6, <1>12, <1>13 DEF FormatProgress

\* What the loop finds at the conversion of the k-th directive.
AtConversion(k, d) ==
  /\ k \in 1 .. Len(call.meant) /\ InDirective(k) /\ IsDirective(d) /\ d = call.meant[k]
  /\ fmt = Spot(call, k) /\ fmt \in Nat /\ arg \in Nat
  /\ ReadIn(d) /\ qualifier = d.qualifier
  /\ Char = d.conv /\ Char \in Conversions /\ Char # NUL
  /\ d.conv = "%" => Taken(call, k) = arg
  /\ d.conv # "%" => Slot = d.slot /\ arg + 1 <= Len(call.args) /\ Taken(call, k) = arg + 1

\* With all its parts read, the loop is at the conversion and its argument.
LEMMA ConvertFinds ==
  ASSUME FormatInv, call.meant # <<>>, pc = "convert"
  PROVE  \E k, d : AtConversion(k, d)
<1>1. PICK k \in 1 .. Len(call.meant) : InDirective(k) /\ AtConvert(k)
  BY MeantTyped DEF FormatProgress
<1>2. StandsAsMeant(k)
  BY <1>1, DirectiveStands
<1> DEFINE d == call.meant[k]
           l1 == Len(FirstArg(d))
           l2 == Len(SecondArg(d))
           l3 == Len(LastArg(d))
           a == ArgsOf(k)
<1>3. /\ fmt = Begin(k) + ConvAt(d) /\ arg = a + l1 + l2
      /\ ReadIn(d) /\ qualifier = d.qualifier
  BY <1>1 DEF AtConvert
<1>4. /\ IsDirective(d) /\ Begin(k) \in Nat \ {0} /\ ConvAt(d) \in Nat
      /\ Stands(call.fmt, Begin(k), Spelling(d))
  BY <1>2, PlacesTyped DEF StandsAsMeant
<1>5. /\ a \in Nat /\ l1 \in Nat /\ l2 \in Nat /\ l3 \in Nat
      /\ Stands(call.args, a + l1 + l2 + 1, LastArg(d))
  BY <1>2, ArgumentsStand
<1>6. Taken(call, k) = a + Len(Arguments(d)) /\ Spot(call, k) + 1 = Begin(k) + ConvAt(d) + 1
  BY <1>2 DEF StandsAsMeant
<1> HIDE DEF d
<1>7. Len(Arguments(d)) = l1 + l2 + l3
  BY <1>4, ArgumentParts
<1>13. d.conv = "%" => l3 = 0
  BY <1>4, StarredFacts
<1>14. d.conv # "%" => l3 = 1 /\ LastArg(d) = <<d.slot>>
  BY <1>4, StarredFacts
<1>15. d.slot \in 0 .. LongMod - 1
  BY <1>4, DirectiveFacts
<1> HIDE DEF a, l1, l2, l3
<1>8. Taken(call, k) = arg + l3 /\ arg \in Nat
  <2>1. a \in Nat /\ l1 \in Nat /\ l2 \in Nat /\ l3 \in Nat
    BY <1>5
  <2>2. arg = a + l1 + l2 /\ Taken(call, k) = a + (l1 + l2 + l3)
    BY <1>3, <1>6, <1>7
  <2> QED
    BY <2>1, <2>2
<1>9. fmt = Spot(call, k) /\ fmt \in Nat
  <2>1. k \in 0 .. Len(call.meant) /\ call \in Calls
    BY <1>1, MeantTyped
  <2>2. Spot(call, k) \in Nat
    BY <2>1, CallEnds DEF CallBounds
  <2> QED
    BY <1>3, <1>4, <1>6, <2>2
<1>10. Char = d.conv /\ Char \in Conversions /\ Char # NUL
  <2>1. CharAt(Begin(k) + ConvAt(d)) = d.conv /\ d.conv \in Conversions
    BY <1>4, ConvChar
  <2>2. d.conv # NUL
    BY <2>1 DEF Conversions, NUL
  <2> QED
    BY <1>3, <2>1, <2>2 DEF Char
<1>11. ASSUME d.conv # "%"
       PROVE  Slot = d.slot /\ arg + 1 <= Len(call.args) /\ Taken(call, k) = arg + 1
  <2> DEFINE s == d.slot
  <2>1. s \in 0 .. LongMod - 1 /\ Stands(call.args, arg + 1, <<s>>)
    BY <1>3, <1>5, <1>11, <1>14, <1>15
  <2> HIDE DEF s
  <2>2. Slot = s /\ arg + 1 <= Len(call.args)
    BY <1>8, <2>1, SlotRead
  <2> QED
    BY <1>8, <1>11, <1>14, <2>2 DEF s
<1>12. ASSUME d.conv = "%" PROVE Taken(call, k) = arg
  BY <1>8, <1>12, <1>13
<1>16. AtConversion(k, d)
  BY <1>1, <1>3, <1>4, <1>8, <1>9, <1>10, <1>11, <1>12 DEF AtConversion, d
<1> QED
  BY <1>16

\* One more directive is rendered.
LEMMA ConvertMeant ==
  ASSUME FormatInv, call.meant # <<>>, NEW k, NEW d, AtConversion(k, d),
         call' = call, pc' = "text", fmt' = fmt + 1, arg' = Taken(call, k),
         str' = str \o Rendering(d),
         stored' = IF d.conv = "n" THEN Append(stored, Len(str)) ELSE stored
  PROVE  FormatProgress'
<1>1. /\ call \in Calls /\ k \in 1 .. Len(call.meant) /\ d = call.meant[k] /\ fmt = Spot(call, k)
      /\ InDirective(k) /\ Len(call.meant) \in Nat
  BY MeantTyped DEF AtConversion
<1>2. TextStep(call, k)
  BY <1>1, TextSteps
<1>3. str = TextTo(call, k - 1) /\ stored = CountsTo(call, k - 1)
  BY <1>1 DEF InDirective
<1>4. str' = TextTo(call, k)
  BY <1>1, <1>2, <1>3 DEF TextStep
<1>5. stored \in Seq(Nat) /\ str \in Seq(Characters)
      /\ CountsTo(call, k) = stored \o (IF d.conv = "n" THEN <<Len(str)>> ELSE <<>>)
  BY <1>1, <1>2, <1>3 DEF TextStep
<1>6. stored' = CountsTo(call, k)
  <2> DEFINE n == Len(str)
  <2>1. n \in Nat
    BY <1>5, LenProperties
  <2> HIDE DEF n
  <2>2. Append(stored, n) = stored \o <<n>> /\ stored \o <<>> = stored
    BY <1>5, <2>1, AppendIs, ConcatEmptySeq
  <2>3. CASE d.conv = "n"
    BY <1>5, <2>2, <2>3 DEF n
  <2>4. CASE d.conv # "n"
    BY <1>5, <2>2, <2>4
  <2> QED
    BY <2>3, <2>4
<1>7. k \in 0 .. Len(call'.meant)
  BY <1>1
<1>8. /\ fmt' = Spot(call', k) + 1 /\ arg' = Taken(call', k)
      /\ str' = TextTo(call', k) /\ stored' = CountsTo(call', k)
  BY <1>1, <1>4, <1>6
<1>9. AtText'
  BY <1>7, <1>8 DEF AtText
<1> QED
  BY <1>9 DEF FormatProgress

\* What a conversion does with its argument.
ArgKept == arg' # arg => arg' = arg + 1 /\ arg + 1 <= Len(call.args)

\* A conversion that takes one argument and appends the directive's text.
LEMMA EmitMeant ==
  ASSUME FormatInv, call.meant # <<>>, NEW k, NEW d, AtConversion(k, d), NEW text, Emit(text),
         text = Rendering(d), d.conv \notin {"n", "%"}, arg' = arg + 1, stored' = stored
  PROVE  FormatProgress' /\ ArgKept
<1>1. call' = call /\ pc' = "text" /\ fmt' = fmt + 1 /\ str' = str \o Rendering(d)
  BY DEF Emit
<1>2. arg' = Taken(call, k) /\ arg + 1 <= Len(call.args)
  BY DEF AtConversion
<1> QED
  BY <1>1, <1>2, ConvertMeant DEF ArgKept

\* %c.
LEMMA PrintCharMeant ==
  ASSUME FormatInv, call.meant # <<>>, PrintChar
  PROVE  FormatProgress' /\ ArgKept
<1>1. pc = "convert" /\ Char = "c" /\ Emit(Aligned(<<CharOf(Slot)>>)) /\ arg' = arg + 1 /\ stored' = stored
  BY DEF PrintChar, Converts
<1>2. PICK k, d : AtConversion(k, d)
  BY <1>1, ConvertFinds
<1>3. IsDirective(d) /\ d.conv = "c" /\ ReadIn(d) /\ Slot = d.slot
  BY <1>1, <1>2 DEF AtConversion
<1>4. Aligned(<<CharOf(d.slot)>>) = Rendering(d)
  BY <1>3, CharIs, RenderingSeq
<1> QED
  BY <1>1, <1>2, <1>3, <1>4, EmitMeant

\* %s.
LEMMA PrintStringMeant ==
  ASSUME FormatInv, call.meant # <<>>, PrintString
  PROVE  FormatProgress' /\ ArgKept
<1>1. /\ pc = "convert" /\ Char = "s" /\ Emit(Aligned(Truncated(StringAt[Slot])))
      /\ arg' = arg + 1 /\ stored' = stored
  BY DEF PrintString, Converts
<1>2. PICK k, d : AtConversion(k, d)
  BY <1>1, ConvertFinds
<1>3. IsDirective(d) /\ d.conv = "s" /\ ReadIn(d) /\ Slot = d.slot
  BY <1>1, <1>2 DEF AtConversion
<1>4. Aligned(Truncated(StringAt[d.slot])) = Rendering(d)
  BY <1>3, StringIs, RenderingSeq
<1> QED
  BY <1>1, <1>2, <1>3, <1>4, EmitMeant

\* No directive that is meant takes NULL for a string.
LEMMA PrintNullMeant ==
  ASSUME FormatInv, call.meant # <<>>, PrintNull
  PROVE  FALSE
<1>1. pc = "convert" /\ Char = "s" /\ Slot = 0
  BY DEF PrintNull, Converts
<1>2. PICK k, d : AtConversion(k, d)
  BY <1>1, ConvertFinds
<1>3. IsDirective(d) /\ d.conv = "s" /\ Slot = d.slot
  BY <1>1, <1>2 DEF AtConversion
<1> QED
  BY <1>1, <1>3, StringTail

\* %o, %x, %X, %d, %i and %u.
LEMMA PrintNumberMeant ==
  ASSUME FormatInv, call.meant # <<>>, PrintNumber
  PROVE  FormatProgress' /\ ArgKept
<1>1. /\ pc = "convert" /\ Char \in {"o", "x", "X", "d", "i", "u"}
      /\ Emit(itoa(IF qualifier = "l" THEN LongArg ELSE UnsignedArg, BaseOf(Char),
                   field_width, precision, flags \cup AttrOf(Char)))
      /\ arg' = arg + 1 /\ stored' = stored
  BY DEF PrintNumber, Converts
<1>2. PICK k, d : AtConversion(k, d)
  BY <1>1, ConvertFinds
<1>3. /\ IsDirective(d) /\ d.conv = Char /\ ReadIn(d) /\ Slot = d.slot /\ qualifier = d.qualifier
      /\ d.conv \in {"o", "x", "X", "d", "i", "u"}
  BY <1>1, <1>2 DEF AtConversion
<1>4. itoa(IF d.qualifier = "l" THEN Signed(d.slot, LongMod) ELSE d.slot % IntMod, BaseOf(d.conv),
           WidthOf(d), PrecisionOf(d), FlagsAfter(d) \cup AttrOf(d.conv)) = Rendering(d)
  BY <1>3, NumberIs, RenderingSeq
<1>5. LongArg = Signed(d.slot, LongMod) /\ UnsignedArg = d.slot % IntMod
  BY <1>3 DEF LongArg, UnsignedArg
<1>6. field_width = WidthOf(d) /\ precision = PrecisionOf(d) /\ flags = FlagsAfter(d)
  BY <1>3 DEF ReadIn
<1>7. itoa(IF qualifier = "l" THEN LongArg ELSE UnsignedArg, BaseOf(Char),
           field_width, precision, flags \cup AttrOf(Char)) = Rendering(d)
  BY <1>3, <1>4, <1>5, <1>6
<1>8. d.conv \notin {"n", "%"}
  BY <1>3
<1> QED
  BY <1>1, <1>2, <1>7, <1>8, EmitMeant

\* %p.
LEMMA PrintPointerMeant ==
  ASSUME FormatInv, call.meant # <<>>, PrintPointer
  PROVE  FormatProgress' /\ ArgKept
<1> DEFINE text == IF field_width = NONE
                   THEN itoa(LongArg, 16, PtrDigits, precision, flags \cup {"ZEROPAD"})
                   ELSE itoa(LongArg, 16, field_width, precision, flags)
<1>1. pc = "convert" /\ Char = "p" /\ Emit(text) /\ arg' = arg + 1 /\ stored' = stored
  BY DEF PrintPointer, Converts
<1>2. PICK k, d : AtConversion(k, d)
  BY <1>1, ConvertFinds
<1>3. IsDirective(d) /\ d.conv = "p" /\ ReadIn(d) /\ Slot = d.slot
  BY <1>1, <1>2 DEF AtConversion
<1>4. (IF WidthOf(d) = NONE
       THEN itoa(Signed(d.slot, LongMod), 16, PtrDigits, PrecisionOf(d), FlagsAfter(d) \cup {"ZEROPAD"})
       ELSE itoa(Signed(d.slot, LongMod), 16, WidthOf(d), PrecisionOf(d), FlagsAfter(d))) = Rendering(d)
  BY <1>3, PointerIs, RenderingSeq
<1>5. LongArg = Signed(d.slot, LongMod)
  BY <1>3 DEF LongArg
<1>6. field_width = WidthOf(d) /\ precision = PrecisionOf(d) /\ flags = FlagsAfter(d)
  BY <1>3 DEF ReadIn
<1>7. text = Rendering(d)
  BY <1>4, <1>5, <1>6
<1>8. d.conv \notin {"n", "%"}
  BY <1>3
<1> HIDE DEF text
<1> QED
  BY <1>1, <1>2, <1>7, <1>8, EmitMeant

\* %n.
LEMMA StoreCountMeant ==
  ASSUME FormatInv, call.meant # <<>>, StoreCount
  PROVE  FormatProgress' /\ ArgKept
<1>1. /\ pc = "convert" /\ Char = "n" /\ Emit(<<>>) /\ arg' = arg + 1
      /\ stored' = Append(stored, Len(str))
  BY DEF StoreCount, Converts
<1>2. PICK k, d : AtConversion(k, d)
  BY <1>1, ConvertFinds
<1>3. IsDirective(d) /\ d.conv = "n" /\ arg' = Taken(call, k) /\ arg + 1 <= Len(call.args)
  BY <1>1, <1>2 DEF AtConversion
<1>4. call' = call /\ pc' = "text" /\ fmt' = fmt + 1 /\ str' = str \o Rendering(d)
  BY <1>1, <1>3, RenderingSeq DEF Emit
<1>5. stored' = IF d.conv = "n" THEN Append(stored, Len(str)) ELSE stored
  BY <1>1, <1>3
<1>6. FormatProgress'
  BY <1>2, <1>3, <1>4, <1>5, ConvertMeant
<1> QED
  BY <1>1, <1>3, <1>6 DEF ArgKept

\* %%.
LEMMA PrintPercentMeant ==
  ASSUME FormatInv, call.meant # <<>>, PrintPercent
  PROVE  FormatProgress' /\ ArgKept
<1>1. pc = "convert" /\ Char = "%" /\ Emit(<<"%">>) /\ arg' = arg /\ stored' = stored
  BY DEF PrintPercent, Converts
<1>2. PICK k, d : AtConversion(k, d)
  BY <1>1, ConvertFinds
<1>3. IsDirective(d) /\ d.conv = "%" /\ arg' = Taken(call, k)
  BY <1>1, <1>2 DEF AtConversion
<1>4. call' = call /\ pc' = "text" /\ fmt' = fmt + 1 /\ str' = str \o Rendering(d)
  BY <1>1, <1>3, RenderingSeq DEF Emit
<1>5. stored' = IF d.conv = "n" THEN Append(stored, Len(str)) ELSE stored
  BY <1>1, <1>3
<1>6. FormatProgress'
  BY <1>2, <1>3, <1>4, <1>5, ConvertMeant
<1> QED
  BY <1>1, <1>6 DEF ArgKept

\* No format that spells directives reaches an unknown conversion or ends in
\* one.
LEMMA NoOtherMeant ==
  ASSUME FormatInv, call.meant # <<>>, PrintUnknown \/ PrintTruncated
  PROVE  FALSE
<1>1. pc = "convert" /\ ~ (Char \in Conversions /\ Char # NUL)
  BY DEF PrintUnknown, PrintTruncated, Converts
<1>2. PICK k, d : AtConversion(k, d)
  BY <1>1, ConvertFinds
<1> QED
  BY <1>1, <1>2 DEF AtConversion

-----------------------------------------------------------------------------
(* What every step keeps *)

\* Every action but Finish has found a character.
LEMMA StepForward ==
  ASSUME FormatInv, FormatNext
  PROVE  call' = call /\ fmt' \in fmt .. Len(call.fmt) + 1
<1>1. fmt \in 1 .. Len(call.fmt) + 1 /\ Len(call.fmt) \in Nat
  BY FmtTyped
<1>2. ASSUME Char # NUL PROVE fmt + 1 \in fmt .. Len(call.fmt) + 1
  <2>1. fmt <= Len(call.fmt)
    BY <1>1, <1>2, CharFound DEF Char
  <2> QED
    BY <1>1, <2>1
<1>3. ASSUME CopyText \/ Percent PROVE call' = call /\ fmt' = fmt + 1 /\ Char # NUL
  BY <1>3 DEF CopyText, Percent, NUL
<1>4. ASSUME Flag PROVE call' = call /\ fmt' = fmt + 1 /\ Char # NUL
  <2>1. FlagOf(Char) # {}
    BY <1>4 DEF Flag
  <2>2. NUL # BLANK
    BY BlankFacts, Zenon DEF Inked, NUL
  <2>3. NUL \notin FlagChars
    BY <2>2 DEF FlagChars, NUL
  <2>4. Char # NUL
    BY <2>1, <2>3, FlagFacts
  <2> QED
    BY <1>4, <2>4 DEF Flag
<1>5. ASSUME FieldWidth PROVE call' = call /\ fmt' \in fmt .. Len(call.fmt) + 1
  <2>1. call' = call
    BY <1>5 DEF FieldWidth
  <2>2. fmt' = EndOfDigits(fmt) \/ (Char = "*" /\ fmt' = fmt + 1) \/ fmt' = fmt
    BY <1>5 DEF FieldWidth
  <2>3. EndOfDigits(fmt) \in fmt .. Len(call.fmt) + 1
    BY <1>1, EndOfDigitsFacts
  <2>4. CASE Char = "*" /\ fmt' = fmt + 1
    BY <1>2, <2>1, <2>4 DEF NUL
  <2> QED
    BY <1>1, <2>1, <2>2, <2>3, <2>4
<1>6. ASSUME Precision PROVE call' = call /\ fmt' \in fmt .. Len(call.fmt) + 1
  <2>1. call' = call
    BY <1>6 DEF Precision
  <2>2. \/ Char = "." /\ fmt' = EndOfDigits(fmt + 1)
        \/ Char = "." /\ CharAt(fmt + 1) = "*" /\ fmt' = fmt + 2
        \/ Char = "." /\ fmt' = fmt + 1
        \/ fmt' = fmt
    BY <1>6 DEF Precision
  <2>3. ASSUME Char = "." PROVE fmt + 1 \in 1 .. Len(call.fmt) + 1
    <3>1. Char # NUL
      BY <2>3 DEF NUL
    <3> QED
      BY <1>1, <1>2, <3>1
  <2>4. CASE Char = "." /\ fmt' = EndOfDigits(fmt + 1)
    <3> DEFINE p == fmt + 1
    <3>1. p \in 1 .. Len(call.fmt) + 1 /\ p > fmt
      BY <1>1, <2>3, <2>4
    <3> HIDE DEF p
    <3>2. EndOfDigits(p) \in p .. Len(call.fmt) + 1
      BY <1>1, <3>1, EndOfDigitsFacts
    <3>3. fmt' = EndOfDigits(p)
      BY <2>4 DEF p
    <3> QED
      BY <1>1, <2>1, <3>1, <3>2, <3>3
  <2>5. CASE Char = "." /\ CharAt(fmt + 1) = "*" /\ fmt' = fmt + 2
    <3> DEFINE p == fmt + 1
    <3>1. p \in Nat \ {0} /\ CharAt(p) # NUL
      BY <1>1, <2>5 DEF NUL
    <3> HIDE DEF p
    <3>2. p <= Len(call.fmt)
      BY <3>1, CharFound
    <3> QED
      BY <1>1, <2>1, <2>5, <3>2 DEF p
  <2>6. CASE Char = "." /\ fmt' = fmt + 1
    BY <1>1, <2>1, <2>3, <2>6
  <2>7. CASE fmt' = fmt
    BY <1>1, <2>1, <2>7
  <2> QED
    BY <2>2, <2>4, <2>5, <2>6, <2>7
<1>7. ASSUME Qualifier PROVE call' = call /\ fmt' \in fmt .. Len(call.fmt) + 1
  <2>1. call' = call
    BY <1>7 DEF Qualifier
  <2>2. (Char \in {"h", "l", "L", "Z"} /\ fmt' = fmt + 1) \/ fmt' = fmt
    BY <1>7 DEF Qualifier
  <2>3. Char \in {"h", "l", "L", "Z"} => Char # NUL
    BY DEF NUL
  <2> QED
    BY <1>1, <1>2, <2>1, <2>2, <2>3
<1>8. ASSUME Convert PROVE call' = call /\ fmt' \in fmt .. Len(call.fmt) + 1
  <2>1. CASE PrintNull \/ PrintTruncated
    BY <1>1, <2>1 DEF PrintNull, PrintTruncated, StepBack
  <2>2. CASE PrintUnknown
    BY <1>2, <2>2 DEF PrintUnknown, Emit
  <2>3. ASSUME PrintChar \/ PrintString \/ PrintNumber \/ PrintPointer \/ StoreCount \/ PrintPercent
        PROVE  Char # NUL /\ call' = call /\ fmt' = fmt + 1
    <3>1. call' = call /\ fmt' = fmt + 1
      BY <2>3 DEF PrintChar, PrintString, PrintNumber, PrintPointer, StoreCount, PrintPercent, Emit
    <3>2. Char # NUL
      BY <2>3 DEF PrintChar, PrintString, PrintNumber, PrintPointer, StoreCount, PrintPercent, Converts, NUL
    <3> QED
      BY <3>1, <3>2
  <2> QED
    BY <1>2, <1>8, <2>1, <2>2, <2>3 DEF Convert
<1>9. ASSUME Finish PROVE call' = call /\ fmt' \in fmt .. Len(call.fmt) + 1
  BY <1>1, <1>9 DEF Finish
<1> QED
  BY <1>2, <1>3, <1>4, <1>5, <1>6, <1>7, <1>8, <1>9 DEF FormatNext

Reached(n) == Wants(call.fmt, n)

\* Each "%" and "*" that is passed makes room for one more argument.
LEMMA ReachedFacts ==
  ASSUME FormatInv
  PROVE  /\ fmt - 1 \in Nat /\ arg \in Nat
         /\ \A n \in Nat : Reached(n) \in Nat
         /\ \A m, n \in Nat : m <= n => Reached(m) <= Reached(n)
         /\ \A p \in Nat \ {0} : CharAt(p) \in {"%", "*"} => Reached(p) = Reached(p - 1) + 1
         /\ call.meant = <<>> => Reached(fmt - 1) <= Len(call.args)
<1>1. fmt \in 1 .. Len(call.fmt) + 1 /\ Len(call.fmt) \in Nat /\ arg \in Nat /\ call \in Calls
  BY FmtTyped
<1>2. fmt - 1 \in 0 .. Len(call.fmt)
  BY <1>1
<1>3. call.meant = <<>> => Reached(fmt - 1) <= Len(call.args)
  <2> DEFINE n == fmt - 1
  <2>1. n \in 0 .. Len(call.fmt)
    BY <1>2
  <2> HIDE DEF n
  <2>2. call.meant = <<>> => Wants(call.fmt, n) <= Len(call.args)
    BY <1>1, <2>1, Supply
  <2> QED
    BY <2>2 DEF Reached, n
<1>4. ASSUME NEW p \in Nat \ {0}, CharAt(p) \in {"%", "*"} PROVE Reached(p) = Reached(p - 1) + 1
  <2> DEFINE n == p - 1
             f == call.fmt
  <2>1. n \in Nat /\ n + 1 = p
    OBVIOUS
  <2>2. f[p] \in {"%", "*"}
    BY <1>4, CharFound DEF NUL
  <2> HIDE DEF n, f
  <2>3. Wants(f, n + 1) = Wants(f, n) + 1
    BY <2>1, <2>2, WantsFacts
  <2> QED
    BY <2>1, <2>3 DEF Reached, n, f
<1>5. \A n \in Nat : Reached(n) \in Nat
  BY WantsFacts DEF Reached
<1>6. \A m, n \in Nat : m <= n => Reached(m) <= Reached(n)
  BY WantsFacts DEF Reached
<1> QED
  BY <1>1, <1>2, <1>3, <1>4, <1>5, <1>6

\* A format that spells no directives.
LEMMA RawStep ==
  ASSUME FormatInv, call.meant = <<>>, FormatNext
  PROVE  ArgKept /\ Reserve'
<1> DEFINE n == fmt - 1
           m == fmt' - 1
           l == Len(call.args)
<1>1. /\ pc \in {"text", "done", "fault"} => arg <= Reached(n)
      /\ pc \in {"flags", "precision", "qualifier", "convert"} => arg + 1 <= Reached(n)
  BY DEF FormatInv, Reserve, Reached
<1>2. /\ n \in Nat /\ arg \in Nat /\ Reached(n) \in Nat /\ Reached(n) <= l
  BY ReachedFacts
<1>3. call' = call /\ m \in Nat /\ n <= m /\ l \in Nat
  <2>1. call' = call /\ fmt' \in fmt .. Len(call.fmt) + 1 /\ fmt \in 1 .. Len(call.fmt) + 1
        /\ Len(call.fmt) \in Nat /\ Len(call.args) \in Nat
    BY StepForward, FmtTyped
  <2> DEFINE e == fmt'
             z == Len(call.fmt) + 1
  <2>2. z \in Int /\ e \in fmt .. z /\ fmt \in Nat \ {0}
    BY <2>1
  <2>3. m = e - 1
    OBVIOUS
  <2> HIDE DEF e, z, m
  <2>4. m \in Nat /\ n <= m
    BY <2>2, <2>3
  <2> QED
    BY <2>1, <2>4
<1>4. Reached(m) \in Nat /\ Reached(n) <= Reached(m)
  <2> HIDE DEF m, n
  <2> QED
    BY <1>2, <1>3, ReachedFacts
<1>5. ASSUME CharAt(fmt) \in {"%", "*"}, fmt' = fmt + 1 PROVE Reached(m) = Reached(n) + 1
  <2>1. fmt \in Nat \ {0} /\ m = fmt
    BY <1>5, FmtTyped
  <2> QED
    BY <1>5, <2>1, ReachedFacts
<1>6. ASSUME CharAt(fmt + 1) = "*", fmt' = fmt + 2 PROVE Reached(m) >= Reached(n) + 1
  <2> DEFINE p == fmt + 1
  <2>1. p \in Nat \ {0} /\ m = p /\ p - 1 = fmt /\ fmt \in Nat /\ n <= fmt
    BY <1>6, FmtTyped
  <2>2. CharAt(p) \in {"%", "*"}
    BY <1>6
  <2> HIDE DEF p, m, n
  <2>3. Reached(p) = Reached(p - 1) + 1
    BY <2>1, <2>2, ReachedFacts
  <2>4. Reached(n) <= Reached(fmt) /\ Reached(fmt) \in Nat
    BY <1>2, <2>1, ReachedFacts
  <2> QED
    BY <1>2, <2>1, <2>3, <2>4
<1> DEFINE Goal == /\ ArgKept
                   /\ pc' \in {"text", "done", "fault"} => arg' <= Reached(m)
                   /\ pc' \in {"flags", "precision", "qualifier", "convert"} => arg' + 1 <= Reached(m)
<1> HIDE DEF m, n, l
<1>7. CASE CopyText \/ Finish
  <2>1. pc = "text" /\ pc' \in {"text", "done"} /\ arg' = arg
    BY <1>7 DEF CopyText, Finish
  <2>2. Goal
    BY <1>1, <1>2, <1>3, <1>4, <2>1 DEF ArgKept
  <2> QED
    BY <1>3, <2>2 DEF Reserve, Reached, m
<1>8. CASE Percent
  <2>1. pc = "text" /\ pc' = "flags" /\ arg' = arg /\ Char = "%" /\ fmt' = fmt + 1
    BY <1>8 DEF Percent
  <2>2. Reached(m) = Reached(n) + 1
    BY <1>5, <2>1 DEF Char
  <2>3. Goal
    BY <1>1, <1>2, <1>3, <1>4, <2>1, <2>2 DEF ArgKept
  <2> QED
    BY <1>3, <2>3 DEF Reserve, Reached, m
<1>9. CASE Flag \/ Qualifier
  <2>1. pc \in {"flags", "qualifier"} /\ pc' \in {"flags", "convert"} /\ arg' = arg
    BY <1>9 DEF Flag, Qualifier
  <2>2. Goal
    BY <1>1, <1>2, <1>3, <1>4, <2>1 DEF ArgKept
  <2> QED
    BY <1>3, <2>2 DEF Reserve, Reached, m
<1>10. CASE FieldWidth
  <2>1. pc = "flags" /\ pc' = "precision"
        /\ (arg' = arg \/ (Char = "*" /\ arg' = arg + 1 /\ fmt' = fmt + 1))
    BY <1>10 DEF FieldWidth
  <2>2. CASE arg' = arg
    <3>1. Goal
      BY <1>1, <1>2, <1>3, <1>4, <2>1, <2>2 DEF ArgKept
    <3> QED
      BY <1>3, <3>1 DEF Reserve, Reached, m
  <2>3. CASE Char = "*" /\ arg' = arg + 1 /\ fmt' = fmt + 1
    <3>1. Reached(m) = Reached(n) + 1
      BY <1>5, <2>3 DEF Char
    <3>2. Goal
      BY <1>1, <1>2, <1>3, <1>4, <2>1, <2>3, <3>1 DEF ArgKept, l
    <3> QED
      BY <1>3, <3>2 DEF Reserve, Reached, m
  <2> QED
    BY <2>1, <2>2, <2>3
<1>11. CASE Precision
  <2>1. pc = "precision" /\ pc' = "qualifier"
        /\ (arg' = arg \/ (CharAt(fmt + 1) = "*" /\ arg' = arg + 1 /\ fmt' = fmt + 2))
    BY <1>11 DEF Precision
  <2>2. CASE arg' = arg
    <3>1. Goal
      BY <1>1, <1>2, <1>3, <1>4, <2>1, <2>2 DEF ArgKept
    <3> QED
      BY <1>3, <3>1 DEF Reserve, Reached, m
  <2>3. CASE CharAt(fmt + 1) = "*" /\ arg' = arg + 1 /\ fmt' = fmt + 2
    <3>1. Reached(m) >= Reached(n) + 1
      BY <1>6, <2>3
    <3>2. Goal
      BY <1>1, <1>2, <1>3, <1>4, <2>1, <2>3, <3>1 DEF ArgKept, l
    <3> QED
      BY <1>3, <3>2 DEF Reserve, Reached, m
  <2> QED
    BY <2>1, <2>2, <2>3
<1>12. CASE Convert
  <2>1. pc = "convert" /\ pc' \in {"text", "fault"} /\ arg' \in {arg, arg + 1}
    BY <1>12 DEF Convert, PrintChar, PrintString, PrintNull, PrintNumber, PrintPointer, StoreCount,
                 PrintPercent, PrintUnknown, PrintTruncated, Converts, Emit
  <2>2. Goal
    BY <1>1, <1>2, <1>3, <1>4, <2>1 DEF ArgKept, l
  <2> QED
    BY <1>3, <2>2 DEF Reserve, Reached, m
<1> QED
  BY <1>7, <1>8, <1>9, <1>10, <1>11, <1>12 DEF FormatNext

\* A format that spells directives.
LEMMA MeantStep ==
  ASSUME FormatInv, call.meant # <<>>, FormatNext
  PROVE  ArgKept /\ FormatProgress'
<1>1. CASE CopyText
  BY <1>1, CopyTextMeant DEF CopyText, ArgKept
<1>2. CASE Percent
  BY <1>2, PercentMeant DEF Percent, ArgKept
<1>3. CASE Flag
  BY <1>3, FlagMeant DEF Flag, ArgKept
<1>4. CASE FieldWidth
  BY <1>4, FieldWidthMeant DEF ArgKept
<1>5. CASE Precision
  BY <1>5, PrecisionMeant DEF ArgKept
<1>6. CASE Qualifier
  BY <1>6, QualifierMeant DEF Qualifier, ArgKept
<1>7. CASE Finish
  BY <1>7, FinishMeant DEF Finish, ArgKept
<1>8. CASE Convert
  BY <1>8, PrintCharMeant, PrintStringMeant, PrintNullMeant, PrintNumberMeant, PrintPointerMeant,
     StoreCountMeant, PrintPercentMeant, NoOtherMeant DEF Convert
<1> QED
  BY <1>1, <1>2, <1>3, <1>4, <1>5, <1>6, <1>7, <1>8 DEF FormatNext

\* A width or a precision that is read is a number.
LEMMA ReadNumber ==
  ASSUME FormatInv, NEW p \in 1 .. Len(call.fmt) + 1
  PROVE  skip_atoi(p) \in Nat
<1>1. Len(call.fmt) \in Nat
  BY FmtTyped
<1> DEFINE e == EndOfDigits(p)
<1>2. e \in p .. Len(call.fmt) + 1
  BY <1>1, EndOfDigitsFacts
<1>3. PICK c \in [p - 1 .. e - 1 -> Nat] : skip_atoi(p) = c[e - 1]
  BY <1>1, SkipAtoi
<1> HIDE DEF e
<1>4. e - 1 \in p - 1 .. e - 1
  BY <1>1, <1>2
<1> QED
  BY <1>3, <1>4

\* The types are kept.
LEMMA TypeStep ==
  ASSUME FormatInv, FormatNext, ArgKept
  PROVE  FormatTypeOK'
<1>1. /\ pc \in {"text", "flags", "precision", "qualifier", "convert", "done", "fault"}
      /\ flags \subseteq {"LEFT", "PLUS", "SPACE", "SPECIAL", "ZEROPAD"}
      /\ field_width \in Nat \cup {NONE} /\ precision \in Nat \cup {NONE}
  BY DEF FormatInv, FormatTypeOK
<1>2. call' = call /\ fmt' \in Nat \ {0}
  BY StepForward, FmtTyped
<1>3. arg' \in 0 .. Len(call.args)
  BY FmtTyped DEF ArgKept
<1>4. pc' \in {"text", "flags", "precision", "qualifier", "convert", "done", "fault"}
  BY <1>1 DEF FormatNext, CopyText, Percent, Flag, FieldWidth, Precision, Qualifier, Finish,
     Convert, PrintChar, PrintString, PrintNull, PrintNumber, PrintPointer, StoreCount,
     PrintPercent, PrintUnknown, PrintTruncated, Emit
<1>5. /\ flags' \subseteq {"LEFT", "PLUS", "SPACE", "SPECIAL", "ZEROPAD"}
      /\ field_width' \in Nat \cup {NONE} /\ precision' \in Nat \cup {NONE}
  <2>1. CASE CopyText \/ Percent \/ Qualifier \/ Finish
    BY <1>1, <2>1 DEF CopyText, Percent, Qualifier, Finish
  <2>2. CASE Flag
    <3>1. flags' = flags \cup FlagOf(Char) /\ field_width' = field_width /\ precision' = precision
      BY <2>2 DEF Flag
    <3> QED
      BY <1>1, <3>1, FlagFacts
  <2>3. CASE FieldWidth
    <3>1. precision' = precision
      BY <2>3 DEF FieldWidth
    <3>2. \/ field_width' = skip_atoi(fmt) /\ flags' = flags
          \/ /\ field_width' = IF IntArg < 0 THEN - IntArg ELSE IntArg
             /\ flags' = IF IntArg < 0 THEN flags \cup {"LEFT"} ELSE flags
             /\ arg' = arg + 1
          \/ field_width' = NONE /\ flags' = flags
      BY <2>3 DEF FieldWidth
    <3>3. skip_atoi(fmt) \in Nat
      BY FmtTyped, ReadNumber
    <3>4. ASSUME arg' = arg + 1 PROVE IntArg \in Int
      BY <3>4, FmtTyped, IntArgTyped DEF ArgKept
    <3>5. flags' \subseteq {"LEFT", "PLUS", "SPACE", "SPECIAL", "ZEROPAD"}
      <4>1. flags' = flags \/ flags' = flags \cup {"LEFT"}
        BY <3>2
      <4> QED
        BY <1>1, <4>1
    <3>6. field_width' \in Nat \cup {NONE}
      <4>1. CASE arg' = arg + 1 /\ field_width' = IF IntArg < 0 THEN - IntArg ELSE IntArg
        BY <3>4, <4>1
      <4> QED
        BY <3>2, <3>3, <4>1
    <3> QED
      BY <1>1, <3>1, <3>5, <3>6
  <2>4. CASE Precision
    <3>1. flags' = flags /\ field_width' = field_width
      BY <2>4 DEF Precision
    <3>2. \/ Char = "." /\ precision' = skip_atoi(fmt + 1)
          \/ precision' = NonNegative(IntArg) /\ arg' = arg + 1
          \/ precision' = 0
          \/ precision' = NONE
      BY <2>4 DEF Precision
    <3>3. ASSUME Char = "." PROVE skip_atoi(fmt + 1) \in Nat
      <4> DEFINE p == fmt + 1
      <4>1. Char # NUL
        BY <3>3 DEF NUL
      <4>2. p \in 1 .. Len(call.fmt) + 1
        BY <4>1, FmtTyped, CharFound DEF Char
      <4> HIDE DEF p
      <4>3. skip_atoi(p) \in Nat
        BY <4>2, ReadNumber
      <4> QED
        BY <4>3 DEF p
    <3>4. ASSUME arg' = arg + 1 PROVE IntArg \in Int
      BY <3>4, FmtTyped, IntArgTyped DEF ArgKept
    <3> QED
      BY <1>1, <3>1, <3>2, <3>3, <3>4 DEF NonNegative
  <2>5. CASE Convert
    BY <1>1, <2>5 DEF Convert, PrintChar, PrintString, PrintNull, PrintNumber, PrintPointer, StoreCount,
     PrintPercent, PrintUnknown, PrintTruncated, Emit
  <2> QED
    BY <2>1, <2>2, <2>3, <2>4, <2>5 DEF FormatNext
<1> QED
  BY <1>2, <1>3, <1>4, <1>5 DEF FormatTypeOK

\* FormatInv is inductive,
LEMMA FormatStep ==
  ASSUME FormatInv, [FormatNext]_formatVars
  PROVE  FormatInv'
<1>1. CASE FormatNext
  <2>1. ArgKept
    BY <1>1, RawStep, MeantStep
  <2>2. call' = call /\ fmt' \in fmt .. Len(call.fmt) + 1 /\ call \in Calls
    BY <1>1, StepForward, FmtTyped
  <2>3. FormatTypeOK'
    BY <1>1, <2>1, TypeStep
  <2>4. NeverPastEnd'
    BY <2>2, FmtTyped DEF NeverPastEnd
  <2>5. call.meant # <<>> => FormatProgress'
    BY <1>1, MeantStep
  <2>6. call.meant = <<>> => Reserve'
    BY <1>1, RawStep
  <2> QED
    BY <2>2, <2>3, <2>4, <2>5, <2>6 DEF FormatInv
<1>2. CASE UNCHANGED formatVars
  <2> USE <1>2 DEF formatVars
  <2>1. FormatTypeOK' /\ NeverPastEnd' /\ call' = call /\ call \in Calls
    BY DEF FormatInv, FormatTypeOK, NeverPastEnd
  <2>2. call.meant = <<>> => Reserve'
    BY DEF FormatInv, Reserve
  <2>3. ASSUME call.meant # <<>> PROVE FormatProgress'
    <3>1. FormatProgress
      BY <2>3 DEF FormatInv
    <3> QED
      BY <3>1 DEF FormatProgress, AtText, InDirective, AtFlags, AtPrecision, AtQualifier, AtConvert, ReadIn, Begin, ArgsOf
  <2> QED
    BY <2>1, <2>2, <2>3 DEF FormatInv
<1> QED
  BY <1>1, <1>2

\* and holds of every call's start.
LEMMA FormatStart ==
  ASSUME FormatInit
  PROVE  FormatInv
<1>1. /\ call \in Calls /\ pc = "text" /\ fmt = 1 /\ arg = 0 /\ str = <<>> /\ stored = <<>>
      /\ flags = {} /\ field_width = NONE /\ precision = NONE
  BY DEF FormatInit
<1>2. Len(call.fmt) \in Nat /\ Len(call.args) \in Nat
  BY <1>1, CallTyped
<1>3. FormatTypeOK /\ NeverPastEnd
  BY <1>1, <1>2 DEF FormatTypeOK, NeverPastEnd
<1>4. ASSUME call.meant # <<>> PROVE FormatProgress
  <2>1. /\ Len(call.meant) \in Nat /\ Spot(call, 0) = 0 /\ Taken(call, 0) = 0
        /\ TextTo(call, 0) = <<>> /\ CountsTo(call, 0) = <<>>
    BY <1>1, <1>4, CallEnds
  <2>2. AtText
    BY <1>1, <2>1 DEF AtText
  <2> QED
    BY <1>1, <2>2 DEF FormatProgress
<1>5. Reserve
  <2>1. Wants(call.fmt, 0) = 0
    BY WantsFacts
  <2>2. fmt - 1 = 0
    BY <1>1
  <2> QED
    BY <1>1, <2>1, <2>2 DEF Reserve
<1> QED
  BY <1>1, <1>3, <1>4, <1>5 DEF FormatInv

\* The text a call means is the text its directives make.
LEMMA MeantIs ==
  ASSUME call \in Calls, call.meant # <<>>
  PROVE  Meant = TextTo(call, Len(call.meant)) /\ CountsMeant = CountsTo(call, Len(call.meant))
<1> DEFINE N == Len(call.meant)
<1>1. N \in Nat
  BY MeantCall
<1>2. ASSUME NEW n \in 0 .. N PROVE MeantTo(n) = TextTo(call, n)
  <2>1. \A k \in 1 .. n : Renderings(call)[k] = Rendering(call.meant[k])
    BY <1>1 DEF Renderings
  <2>2. [k \in 1 .. n |-> Rendering(call.meant[k])] = [k \in 1 .. n |-> Renderings(call)[k]]
    BY <2>1
  <2> QED
    BY <2>2 DEF MeantTo, TextTo, Flat
<1>3. Meant = TextTo(call, N)
  BY <1>1, <1>2 DEF Meant
<1>4. [k \in 1 .. N |-> IF call.meant[k].conv = "n" THEN <<Len(MeantTo(k - 1))>> ELSE <<>>]
        = [k \in 1 .. N |-> CountLists(call)[k]]
  <2>1. \A k \in 1 .. N : k - 1 \in 0 .. N
    BY <1>1
  <2>2. \A k \in 1 .. N : MeantTo(k - 1) = TextTo(call, k - 1)
    BY <1>2, <2>1
  <2>3. \A k \in 1 .. N : CountLists(call)[k] =
          IF call.meant[k].conv = "n" THEN <<Len(TextTo(call, k - 1))>> ELSE <<>>
    BY DEF CountLists
  <2> QED
    BY <2>2, <2>3
<1>5. CountsMeant = CountsTo(call, N)
  BY <1>4 DEF CountsMeant, CountsTo, Flat
<1> QED
  BY <1>3, <1>5

\* FormatInv holds in every state of every call, so that a width, a precision,
\* a flag or an argument that vsprintf acts on is that of the directive it is in.
THEOREM FormatInvariant == FormatSpec => []FormatInv
BY FormatStart, FormatStep, PTL DEF FormatSpec

\* The variables of vsprintf keep their types: no width or precision it passes
\* to itoa is below -1, one an argument gives included, and it fetches no more
\* arguments than the caller passed, if that is one for each "%" and "*".
THEOREM FormatTyped == FormatSpec => []FormatTypeOK
<1>1. FormatInv => FormatTypeOK
  BY DEF FormatInv
<1> QED
  BY <1>1, FormatInvariant, PTL

\* The loop of vsprintf does not read behind the NUL that ends its format, for
\* any format, one that ends in a directive included.
THEOREM FormatEnds == FormatSpec => []NeverPastEnd
<1>1. FormatInv => NeverPastEnd
  BY DEF FormatInv
<1> QED
  BY <1>1, FormatInvariant, PTL

\* Whatever directives a call means, what vsprintf leaves in buf is their text,
\* and what %n stored are the counts they mean.
THEOREM FormatRendered == FormatSpec => []Rendered
<1>1. FormatInv => Rendered
  <2>1. ASSUME FormatInv, pc = "done", call.meant # <<>>
        PROVE  str = Meant /\ stored = CountsMeant
    <3>1. FormatProgress /\ call \in Calls
      BY <2>1, MeantTyped
    <3> QED
      BY <2>1, <3>1, MeantIs DEF FormatProgress
  <2> QED
    BY <2>1 DEF Rendered
<1> QED
  BY <1>1, FormatInvariant, PTL
=============================================================================
