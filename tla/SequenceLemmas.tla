-------------------------- MODULE SequenceLemmas --------------------------
(***************************************************************************)
(* Induction over an initial segment of the natural numbers, stated with   *)
(* sets instead of predicates; the functions that are defined along one;   *)
(* and what the recursive filter of a sequence keeps. The filters, the     *)
(* sums and the merged histories of the models are reasoned about with     *)
(* these.                                                                  *)
(***************************************************************************)
EXTENDS Filter, SequencesExt, FiniteSetTheorems, SequenceTheorems,
        WellFoundedInduction, TLAPS

\* Every non-empty set of natural numbers has a least element.
LEMMA LeastExists ==
  ASSUME NEW S, S \subseteq Nat, S # {}
  PROVE  \E i \in S : \A j \in S : i <= j
<1> DEFINE R == {ss \in Nat \X Nat : ss[1] < ss[2]}
<1>1. IsWellFoundedOn(R, Nat)
  BY NatLessThanWellFounded, Zenon DEF OpToRel
<1>2. \A x, y \in Nat : x < y => <<x, y>> \in R
  OBVIOUS
<1> HIDE DEF R
<1>3. PICK i \in S : \A j \in S : ~ (<<j, i>> \in R)
  BY <1>1, WFMin, Zenon
<1>4. \A j \in S : ~(j < i)
  BY <1>2, <1>3
<1>. QED
  BY <1>3, <1>4

\* Induction up to N: the predicate is the set S of where it holds.
LEMMA UpwardInduction ==
  ASSUME NEW N \in Nat, NEW S,
         0 \in S, \A n \in 0 .. N - 1 : n \in S => n + 1 \in S
  PROVE  0 .. N \subseteq S
<1> DEFINE Out == {n \in 0 .. N : n \notin S}
<1> SUFFICES ASSUME Out # {} PROVE FALSE
  OBVIOUS
<1>1. Out \subseteq Nat
  OBVIOUS
<1>2. PICK i \in Out : \A j \in Out : i <= j
  <2> HIDE DEF Out
  <2> QED BY <1>1, LeastExists
<1>3. i \in 0 .. N /\ i # 0 /\ i \notin S
  OBVIOUS
<1>4. i - 1 \in 0 .. N - 1 /\ i - 1 \in S /\ (i - 1) + 1 = i
  BY <1>2, <1>3
<1>. QED
  BY <1>3, <1>4

-----------------------------------------------------------------------------
(* Functions defined along 0 .. N                                          *)

Steps(N, V) == [1 .. N -> [V -> V]]

Iterates(f, N, V, base, step) ==
  /\ f \in [0 .. N -> V]
  /\ f[0] = base
  /\ \A n \in 1 .. N : f[n] = step[n][f[n - 1]]

\* Every start and every N steps are iterated by some function.
LEMMA IterationExists ==
  ASSUME NEW N \in Nat, NEW V, NEW base \in V, NEW step \in Steps(N, V)
  PROVE  \E f : Iterates(f, N, V, base, step)
<1> DEFINE S == {m \in 0 .. N : \E f : Iterates(f, m, V, base, step)}
<1>1. 0 \in S
  <2> DEFINE f == [n \in 0 .. 0 |-> base]
  <2>1. f \in [0 .. 0 -> V] /\ f[0] = base
    OBVIOUS
  <2> HIDE DEF f
  <2>2. Iterates(f, 0, V, base, step)
    BY <2>1 DEF Iterates
  <2> QED BY <2>2
<1>2. ASSUME NEW m \in 0 .. N - 1, m \in S PROVE m + 1 \in S
  <2>1. PICK f : Iterates(f, m, V, base, step)
    BY <1>2
  <2>2. /\ f \in [0 .. m -> V] /\ f[0] = base
        /\ \A n \in 1 .. m : f[n] = step[n][f[n - 1]]
    BY <2>1 DEF Iterates
  <2> DEFINE v == step[m + 1][f[m]]
             g == [n \in 0 .. m + 1 |-> IF n <= m THEN f[n] ELSE v]
  <2>3. m + 1 \in 1 .. N /\ m \in 0 .. m /\ f[m] \in V
    BY <2>2
  <2>4. v \in V
    BY <2>3 DEF Steps
  <2>5. g \in [0 .. m + 1 -> V] /\ g[0] = base
    <3> HIDE DEF v
    <3> QED BY <2>2, <2>4
  <2>6. ASSUME NEW n \in 1 .. m + 1 PROVE g[n] = step[n][g[n - 1]]
    <3>1. g[n - 1] = f[n - 1]
      OBVIOUS
    <3>2. CASE n <= m
      <4>1. n \in 1 .. m /\ g[n] = f[n]
        BY <3>2
      <4> HIDE DEF g
      <4> QED BY <4>1, <3>1, <2>2
    <3>3. CASE n = m + 1
      <4>1. g[n] = v /\ n - 1 = m
        BY <3>3
      <4> HIDE DEF g
      <4> QED BY <4>1, <3>1, <3>3
    <3> QED BY <3>2, <3>3
  <2> HIDE DEF g
  <2>7. Iterates(g, m + 1, V, base, step)
    BY <2>5, <2>6 DEF Iterates
  <2> QED BY <2>7
<1> HIDE DEF S
<1>3. 0 .. N \subseteq S
  BY <1>1, <1>2, UpwardInduction
<1>. QED
  BY <1>3 DEF S

\* A function that makes the same steps as long as its values have the type.
Follows(g, N, V, base, step) ==
  /\ g[0] = base
  /\ \A n \in 1 .. N : g[n - 1] \in V => g[n] = step[n][g[n - 1]]

\* There is only one iteration: what follows the steps has its values.
LEMMA IterationUnique ==
  ASSUME NEW N \in Nat, NEW V, NEW base, NEW step,
         NEW f, Iterates(f, N, V, base, step),
         NEW g, Follows(g, N, V, base, step)
  PROVE  \A n \in 0 .. N : g[n] = f[n]
<1> DEFINE S == {n \in 0 .. N : g[n] = f[n]}
<1>1. 0 \in S
  BY DEF Iterates, Follows
<1>2. ASSUME NEW n \in 0 .. N - 1, n \in S PROVE n + 1 \in S
  <2>1. n + 1 \in 1 .. N /\ (n + 1) - 1 = n /\ g[n] = f[n] /\ n \in 0 .. N
    BY <1>2
  <2>2. f[n] \in V /\ f[n + 1] = step[n + 1][f[n]]
    BY <2>1 DEF Iterates
  <2>3. g[n + 1] = step[n + 1][g[n]]
    BY <2>1, <2>2 DEF Follows
  <2> QED BY <2>1, <2>2, <2>3
<1> HIDE DEF S
<1>3. 0 .. N \subseteq S
  BY <1>1, <1>2, UpwardInduction
<1>. QED
  BY <1>3 DEF S

-----------------------------------------------------------------------------
(* Functions defined along the natural numbers                             *)

Recursion(f, V, base, step) ==
  /\ f \in [Nat -> V]
  /\ f[0] = base
  /\ \A n \in Nat \ {0} : f[n] = step[n][f[n - 1]]

\* Every start and every endless row of steps are iterated by some function.
LEMMA RecursionExists ==
  ASSUME NEW V, NEW base \in V, NEW step \in [Nat \ {0} -> [V -> V]]
  PROVE  \E f : Recursion(f, V, base, step)
<1> DEFINE part(N) == [n \in 1 .. N |-> step[n]]
           Is(f, N) == Iterates(f, N, V, base, part(N))
           whole == [N \in Nat |-> (CHOOSE f : Is(f, N))[N]]
<1>1. ASSUME NEW N \in Nat
      PROVE  /\ part(N) \in Steps(N, V)
             /\ \A n \in 1 .. N : part(N)[n] = step[n]
  <2>1. \A n \in 1 .. N : n \in Nat \ {0}
    OBVIOUS
  <2>. QED
    BY <2>1 DEF Steps
<1> HIDE DEF part
<1>2. ASSUME NEW N \in Nat PROVE \E f : Is(f, N)
  BY <1>1, IterationExists
<1>3. ASSUME NEW N \in Nat PROVE Is(CHOOSE f : Is(f, N), N)
  <2> HIDE DEF Is
  <2>. QED
    BY <1>2, Zenon
<1> DEFINE run(N) == CHOOSE f : Is(f, N)
<1>4. \A N \in Nat : Is(run(N), N) /\ whole[N] = run(N)[N]
  BY <1>3
<1> HIDE DEF run, whole
<1>5. ASSUME NEW N \in Nat
      PROVE  /\ run(N) \in [0 .. N -> V]
             /\ run(N)[0] = base
             /\ \A n \in 1 .. N : run(N)[n] = step[n][run(N)[n - 1]]
  BY <1>1, <1>4 DEF Iterates
<1>6. ASSUME NEW N \in Nat PROVE run(N + 1)[N] = run(N)[N]
  <2> DEFINE g == run(N + 1)
  <2>1. g[0] = base /\ \A n \in 1 .. N + 1 : g[n] = step[n][g[n - 1]]
    BY <1>5
  <2>2. \A n \in 1 .. N : g[n] = part(N)[n][g[n - 1]]
    BY <1>1, <2>1
  <2> HIDE DEF g
  <2>3. Follows(g, N, V, base, part(N))
    BY <2>1, <2>2 DEF Follows
  <2>4. Iterates(run(N), N, V, base, part(N))
    BY <1>4
  <2>5. \A n \in 0 .. N : g[n] = run(N)[n]
    <3> DEFINE f == run(N)
               st == part(N)
    <3> HIDE DEF f, st
    <3>. QED
      BY <2>3, <2>4, IterationUnique DEF f, st
  <2>. QED
    BY <2>5 DEF g
<1>7. whole \in [Nat -> V]
  <2>1. \A N \in Nat : run(N)[N] \in V
    BY <1>5
  <2>. QED
    BY <1>4, <2>1 DEF whole, run
<1>8. whole[0] = base
  BY <1>4, <1>5
<1>9. ASSUME NEW n \in Nat \ {0} PROVE whole[n] = step[n][whole[n - 1]]
  <2>1. n - 1 \in Nat /\ (n - 1) + 1 = n /\ n \in 1 .. n
    OBVIOUS
  <2>2. run(n)[n] = step[n][run(n)[n - 1]]
    BY <1>5, <2>1
  <2>3. run(n)[n - 1] = run(n - 1)[n - 1]
    BY <1>6, <2>1
  <2>. QED
    BY <1>4, <2>1, <2>2, <2>3
<1>. QED
  BY <1>7, <1>8, <1>9 DEF Recursion

-----------------------------------------------------------------------------
(* Sequences                                                               *)

\* Keeping the end of a sequence.
LEMMA SuffixProperties ==
  ASSUME NEW S, NEW s \in Seq(S), NEW n \in 0 .. Len(s)
  PROVE  /\ SubSeq(s, n + 1, Len(s)) \in Seq(S)
         /\ Len(SubSeq(s, n + 1, Len(s))) = Len(s) - n
         /\ \A i \in 1 .. Len(s) - n :
              SubSeq(s, n + 1, Len(s))[i] = s[n + i]
<1>1. \A i \in n + 1 .. Len(s) : s[i] \in S
  BY ElementOfSeq
<1>2. Len(s) \in Nat
  BY LenProperties
<1>. QED
  BY <1>1, <1>2, SubSeqProperties

\* A function on an initial segment of the positive numbers is a sequence.
LEMMA FunctionIsSeq ==
  ASSUME NEW S, NEW n \in Nat, NEW f \in [1 .. n -> S]
  PROVE  f \in Seq(S) /\ Len(f) = n
BY SeqDef

-----------------------------------------------------------------------------
(* Keeping part of a sequence                                              *)

KeepStep(s, T, X) ==
  [n \in 1 .. Len(s) |->
     [r \in Seq(X) |-> IF s[n] \in T THEN Append(r, s[n]) ELSE r]]

\* What Only computes is the iteration of that step.
LEMMA OnlyIterates ==
  ASSUME NEW X, NEW s \in Seq(X), NEW T
  PROVE  \E f : /\ Iterates(f, Len(s), Seq(X), <<>>, KeepStep(s, T, X))
                /\ Only(s, T) = f[Len(s)]
<1> DEFINE N == Len(s)
           step == KeepStep(s, T, X)
           e == <<>>
           Kept(g) == g = [n \in 0 .. N |->
                             IF n = 0 THEN e
                             ELSE IF s[n] \in T THEN Append(g[n - 1], s[n])
                                  ELSE g[n - 1]]
           c == CHOOSE g : Kept(g)
<1>1. N \in Nat /\ e \in Seq(X) /\ \A n \in 1 .. N : s[n] \in X
  BY EmptySeq, LenProperties, ElementOfSeq
<1>2. \A n \in 1 .. N, r \in Seq(X) :
         step[n][r] = IF s[n] \in T THEN Append(r, s[n]) ELSE r
  BY DEF KeepStep
<1>3. step \in Steps(N, Seq(X))
  BY <1>1, AppendProperties DEF KeepStep, Steps
<1>4. Only(s, T) = c[N]
  BY DEF Only
<1> HIDE DEF N, step, e
<1>5. PICK f : Iterates(f, N, Seq(X), e, step)
  BY <1>1, <1>3, IterationExists
<1>6. /\ f \in [0 .. N -> Seq(X)] /\ f[0] = e
      /\ \A n \in 1 .. N : f[n] = step[n][f[n - 1]]
  BY <1>5 DEF Iterates
<1>7. Kept(f)
  <2>1. ASSUME NEW n \in 1 .. N
        PROVE  f[n] = IF s[n] \in T THEN Append(f[n - 1], s[n]) ELSE f[n - 1]
    <3>1. n - 1 \in 0 .. N
      BY <1>1
    <3>2. f[n - 1] \in Seq(X)
      BY <1>6, <3>1
    <3>. QED
      BY <1>2, <1>6, <3>2
  <2>2. \A n \in 0 .. N : n = 0 \/ n \in 1 .. N
    BY <1>1
  <2>3. \A n \in 0 .. N : f[n] = IF n = 0 THEN e
                              ELSE IF s[n] \in T THEN Append(f[n - 1], s[n])
                                   ELSE f[n - 1]
    BY <1>6, <2>1, <2>2
  <2>. QED
    BY <1>6, <2>3
<1>8. Kept(c)
  BY <1>7
<1> HIDE DEF c
<1>9. /\ DOMAIN c = 0 .. N
      /\ \A n \in 0 .. N : c[n] = IF n = 0 THEN e
                              ELSE IF s[n] \in T THEN Append(c[n - 1], s[n])
                                   ELSE c[n - 1]
  BY <1>8, Zenon
<1>10. /\ 0 \in 0 .. N
       /\ \A n \in 1 .. N : n \in 0 .. N /\ n # 0
  BY <1>1
<1>11. c[0] = e /\ \A n \in 1 .. N :
                     c[n] = IF s[n] \in T THEN Append(c[n - 1], s[n]) ELSE c[n - 1]
  BY <1>9, <1>10, Zenon
<1>12. \A n \in 1 .. N : c[n - 1] \in Seq(X) => c[n] = step[n][c[n - 1]]
  BY <1>2, <1>11, Zenon
<1>13. Follows(c, N, Seq(X), e, step)
  BY <1>11, <1>12 DEF Follows
<1>14. c[N] = f[N]
  BY <1>1, <1>5, <1>13, IterationUnique
<1>. QED
  BY <1>1, <1>4, <1>5, <1>14 DEF N, step, e

\* What is kept of a sequence over X is one too.
LEMMA OnlyType ==
  ASSUME NEW X, NEW s \in Seq(X), NEW T
  PROVE  Only(s, T) \in Seq(X)
<1>1. PICK f : /\ Iterates(f, Len(s), Seq(X), <<>>, KeepStep(s, T, X))
               /\ Only(s, T) = f[Len(s)]
  BY OnlyIterates
<1>2. Len(s) \in Nat /\ f \in [0 .. Len(s) -> Seq(X)]
  BY <1>1, LenProperties DEF Iterates
<1>. QED
  BY <1>1, <1>2

\* Nothing is kept of nothing.
LEMMA OnlyEmpty ==
  ASSUME NEW T
  PROVE  Only(<<>>, T) = <<>>
<1>1. <<>> \in Seq({}) /\ Len(<<>>) = 0
  BY EmptySeq
<1>2. PICK f : /\ Iterates(f, Len(<<>>), Seq({}), <<>>, KeepStep(<<>>, T, {}))
               /\ Only(<<>>, T) = f[Len(<<>>)]
  BY <1>1, OnlyIterates
<1>. QED
  BY <1>1, <1>2 DEF Iterates

\* The last element is kept or not; all else stays as it was.
LEMMA OnlyAppend ==
  ASSUME NEW X, NEW s \in Seq(X), NEW x \in X, NEW T
  PROVE  Only(Append(s, x), T) =
           IF x \in T THEN Append(Only(s, T), x) ELSE Only(s, T)
<1> DEFINE t == Append(s, x)
           N == Len(s)
           e == <<>>
<1>1. /\ t \in Seq(X) /\ N \in Nat /\ Len(t) = N + 1 /\ t[N + 1] = x
      /\ \A n \in 1 .. N : t[n] = s[n]
  BY AppendProperties, LenProperties
<1> HIDE DEF t, N, e
<1>2. PICK f : /\ Iterates(f, N, Seq(X), e, KeepStep(s, T, X))
               /\ Only(s, T) = f[N]
  BY OnlyIterates DEF N, e
<1>3. PICK g : /\ Iterates(g, N + 1, Seq(X), e, KeepStep(t, T, X))
               /\ Only(t, T) = g[N + 1]
  <2>1. \E g : /\ Iterates(g, Len(t), Seq(X), <<>>, KeepStep(t, T, X))
               /\ Only(t, T) = g[Len(t)]
    BY <1>1, OnlyIterates
  <2>. QED
    BY <1>1, <2>1 DEF e
<1>4. /\ g \in [0 .. N + 1 -> Seq(X)] /\ g[0] = e
      /\ \A n \in 1 .. N + 1 : g[n] = KeepStep(t, T, X)[n][g[n - 1]]
  BY <1>3 DEF Iterates
<1>5. ASSUME NEW n \in 1 .. N + 1
      PROVE  g[n] = IF t[n] \in T THEN Append(g[n - 1], t[n]) ELSE g[n - 1]
  <2>1. g[n - 1] \in Seq(X) /\ n \in 1 .. Len(t)
    BY <1>1, <1>4
  <2>2. KeepStep(t, T, X)[n][g[n - 1]] =
          IF t[n] \in T THEN Append(g[n - 1], t[n]) ELSE g[n - 1]
    BY <2>1 DEF KeepStep
  <2>. QED
    BY <1>4, <2>2
<1> DEFINE h == [n \in 0 .. N |-> g[n]]
<1>6. h[0] = e
  BY <1>1, <1>4
<1>7. \A n \in 1 .. N : h[n - 1] \in Seq(X) => h[n] = KeepStep(s, T, X)[n][h[n - 1]]
  <2>1. SUFFICES ASSUME NEW n \in 1 .. N
                 PROVE  h[n] = KeepStep(s, T, X)[n][h[n - 1]]
    OBVIOUS
  <2>2. n \in 1 .. N + 1 /\ n \in 0 .. N /\ n - 1 \in 0 .. N /\ n - 1 \in 0 .. N + 1
    BY <1>1
  <2>3. h[n] = g[n] /\ h[n - 1] = g[n - 1] /\ g[n - 1] \in Seq(X)
    BY <1>4, <2>2
  <2>4. g[n] = IF s[n] \in T THEN Append(g[n - 1], s[n]) ELSE g[n - 1]
    BY <1>1, <1>5, <2>2
  <2>5. KeepStep(s, T, X)[n][g[n - 1]] =
          IF s[n] \in T THEN Append(g[n - 1], s[n]) ELSE g[n - 1]
    BY <2>3 DEF KeepStep, N
  <2> HIDE DEF h
  <2>. QED
    BY <2>3, <2>4, <2>5
<1>8. g[N] = h[N]
  BY <1>1
<1> HIDE DEF h
<1>9. Follows(h, N, Seq(X), e, KeepStep(s, T, X))
  BY <1>6, <1>7 DEF Follows
<1>10. h[N] = f[N]
  <2>1. N \in Nat
    BY <1>1
  <2>2. \A n \in 0 .. N : h[n] = f[n]
    BY <1>2, <1>9, <2>1, IterationUnique
  <2>. QED
    BY <2>1, <2>2
<1>11. g[N] = Only(s, T)
  BY <1>1, <1>2, <1>8, <1>10
<1>12. N + 1 \in 1 .. N + 1 /\ (N + 1) - 1 = N
  BY <1>1
<1>13. g[N + 1] = IF x \in T THEN Append(g[N], x) ELSE g[N]
  BY <1>1, <1>5, <1>12
<1>. QED
  BY <1>3, <1>11, <1>13 DEF t

\* Induction over the sequences of X: the predicate is the set P of where it
\* holds.
LEMMA SequenceInduction ==
  ASSUME NEW X, NEW P, <<>> \in P,
         \A s \in Seq(X), x \in X : s \in P => Append(s, x) \in P
  PROVE  Seq(X) \subseteq P
<1> SUFFICES ASSUME NEW t \in Seq(X) PROVE t \in P
  OBVIOUS
<1> DEFINE N == Len(t)
           S == {n \in 0 .. N : \A s \in Seq(X) : Len(s) = n => s \in P}
<1>1. N \in Nat
  BY LenProperties
<1>2. 0 \in S
  <2>1. \A s \in Seq(X) : Len(s) = 0 => s = <<>>
    BY EmptySeq
  <2>. QED
    BY <1>1, <2>1
<1>3. ASSUME NEW n \in 0 .. N - 1, n \in S PROVE n + 1 \in S
  <2>1. n \in Nat /\ n + 1 \in 0 .. N
    BY <1>1
  <2>2. SUFFICES ASSUME NEW s \in Seq(X), Len(s) = n + 1 PROVE s \in P
    BY <2>1
  <2>3. s # <<>>
    BY <2>1, <2>2, EmptySeq
  <2>4. PICK r \in Seq(X), x \in X : s = Append(r, x)
    BY <2>3, SequenceEmptyOrAppend
  <2>5. Len(s) = Len(r) + 1 /\ Len(r) \in Nat
    BY <2>4, AppendProperties, LenProperties
  <2>6. Len(r) = n
    BY <2>1, <2>2, <2>5
  <2>7. r \in P
    BY <1>3, <2>6
  <2>. QED
    BY <2>4, <2>7
<1> HIDE DEF S
<1>4. 0 .. N \subseteq S
  <2> HIDE DEF N
  <2>. QED
    BY <1>1, <1>2, <1>3, UpwardInduction
<1>. QED
  BY <1>1, <1>4 DEF S

\* The elements of the empty sequence, of any sequence and of a longer one.
LEMMA ToSetProperties ==
  ASSUME NEW X
  PROVE  /\ ToSet(<<>>) = {}
         /\ \A s \in Seq(X) : /\ ToSet(s) = {s[i] : i \in 1 .. Len(s)}
                              /\ ToSet(s) \subseteq X
         /\ \A s \in Seq(X), x \in X : ToSet(Append(s, x)) = ToSet(s) \cup {x}
<1>1. ToSet(<<>>) = {}
  BY EmptySeq DEF ToSet
<1>2. ASSUME NEW s \in Seq(X)
      PROVE  ToSet(s) = {s[i] : i \in 1 .. Len(s)} /\ ToSet(s) \subseteq X
  BY LenProperties, ElementOfSeq DEF ToSet
<1>3. ASSUME NEW s \in Seq(X), NEW x \in X
      PROVE  ToSet(Append(s, x)) = ToSet(s) \cup {x}
  <2> DEFINE t == Append(s, x)
  <2>1. /\ t \in Seq(X) /\ Len(s) \in Nat /\ Len(t) = Len(s) + 1
        /\ t[Len(s) + 1] = x /\ \A i \in 1 .. Len(s) : t[i] = s[i]
    BY AppendProperties, LenProperties
  <2> HIDE DEF t
  <2>2. ToSet(t) = {t[i] : i \in 1 .. Len(s) + 1}
    BY <1>2, <2>1
  <2>3. ASSUME NEW y \in ToSet(t) PROVE y \in ToSet(s) \cup {x}
    BY <1>2, <2>1, <2>2
  <2>4. ASSUME NEW y \in ToSet(s) PROVE y \in ToSet(t)
    <3>1. PICK i \in 1 .. Len(s) : y = s[i]
      BY <1>2
    <3>2. i \in 1 .. Len(s) + 1 /\ t[i] = y
      BY <2>1, <3>1
    <3>. QED
      BY <2>2, <3>2
  <2>5. x \in ToSet(t)
    BY <2>1, <2>2
  <2>. QED
    BY <2>3, <2>4, <2>5 DEF t
<1>. QED
  BY <1>1, <1>2, <1>3

\* A filter can be taken part by part.
LEMMA OnlyConcat ==
  ASSUME NEW X, NEW s \in Seq(X), NEW t \in Seq(X), NEW T
  PROVE  Only(s \o t, T) = Only(s, T) \o Only(t, T)
<1> DEFINE P == {r \in Seq(X) : Only(s \o r, T) = Only(s, T) \o Only(r, T)}
<1>1. <<>> \in P
  <2>1. <<>> \in Seq(X) /\ s \o <<>> = s /\ Only(s, T) \o <<>> = Only(s, T)
    BY EmptySeq, OnlyType, ConcatEmptySeq
  <2>. QED
    BY <2>1, OnlyEmpty
<1>2. ASSUME NEW r \in Seq(X), NEW x \in X, r \in P PROVE Append(r, x) \in P
  <2>1. /\ s \o r \in Seq(X) /\ Append(r, x) \in Seq(X)
        /\ Only(s, T) \in Seq(X) /\ Only(r, T) \in Seq(X)
    BY ConcatProperties, AppendProperties, OnlyType
  <2>2. s \o Append(r, x) = Append(s \o r, x)
    <3>1. Append(r, x) = r \o <<x>> /\ Append(s \o r, x) = (s \o r) \o <<x>>
      BY <2>1, AppendIsConcat
    <3>2. <<x>> \in Seq(X)
      OBVIOUS
    <3>. QED
      BY <3>1, <3>2, ConcatAssociative
  <2>3. Only(s \o Append(r, x), T) =
          IF x \in T THEN Append(Only(s \o r, T), x) ELSE Only(s \o r, T)
    BY <2>1, <2>2, OnlyAppend, ZenonT(30)
  <2>4. Only(Append(r, x), T) =
          IF x \in T THEN Append(Only(r, T), x) ELSE Only(r, T)
    BY OnlyAppend
  <2>5. Only(s \o r, T) = Only(s, T) \o Only(r, T)
    BY <1>2
  <2>6. Append(Only(s, T) \o Only(r, T), x) = Only(s, T) \o Append(Only(r, T), x)
    <3>1. /\ Append(Only(r, T), x) = Only(r, T) \o <<x>>
          /\ Append(Only(s, T) \o Only(r, T), x) =
               (Only(s, T) \o Only(r, T)) \o <<x>>
      BY <2>1, AppendIsConcat, ConcatProperties
    <3>2. <<x>> \in Seq(X)
      OBVIOUS
    <3>3. (Only(s, T) \o Only(r, T)) \o <<x>> = Only(s, T) \o (Only(r, T) \o <<x>>)
      BY <2>1, <3>2, ConcatAssociative, SMTT(30)
    <3>. QED
      BY <3>1, <3>3, Zenon
  <2>. QED
    BY <2>1, <2>3, <2>4, <2>5, <2>6
<1> HIDE DEF P
<1>3. Seq(X) \subseteq P
  BY <1>1, <1>2, SequenceInduction
<1>. QED
  BY <1>3 DEF P

\* What is kept is what is in the sequence and in the set.
LEMMA OnlyRange ==
  ASSUME NEW X, NEW s \in Seq(X), NEW T
  PROVE  ToSet(Only(s, T)) = ToSet(s) \cap T
<1> DEFINE P == {r \in Seq(X) : ToSet(Only(r, T)) = ToSet(r) \cap T}
<1>1. <<>> \in P
  BY EmptySeq, OnlyEmpty, ToSetProperties
<1>2. ASSUME NEW r \in Seq(X), NEW x \in X, r \in P PROVE Append(r, x) \in P
  <2>1. Append(r, x) \in Seq(X) /\ Only(r, T) \in Seq(X)
    BY AppendProperties, OnlyType
  <2>2. /\ ToSet(Append(r, x)) = ToSet(r) \cup {x}
        /\ ToSet(Append(Only(r, T), x)) = ToSet(Only(r, T)) \cup {x}
    BY <2>1, ToSetProperties
  <2>3. Only(Append(r, x), T) =
          IF x \in T THEN Append(Only(r, T), x) ELSE Only(r, T)
    BY OnlyAppend
  <2>. QED
    BY <1>2, <2>1, <2>2, <2>3
<1> HIDE DEF P
<1>3. Seq(X) \subseteq P
  BY <1>1, <1>2, SequenceInduction
<1>. QED
  BY <1>3 DEF P

\* Two tests that agree on the elements keep the same.
LEMMA OnlyAgrees ==
  ASSUME NEW X, NEW s \in Seq(X), NEW T, NEW U, ToSet(s) \cap T = ToSet(s) \cap U
  PROVE  Only(s, T) = Only(s, U)
<1> DEFINE P == {r \in Seq(X) :
                   ToSet(r) \cap T = ToSet(r) \cap U => Only(r, T) = Only(r, U)}
<1>1. <<>> \in P
  BY EmptySeq, OnlyEmpty
<1>2. ASSUME NEW r \in Seq(X), NEW x \in X, r \in P PROVE Append(r, x) \in P
  <2>1. Append(r, x) \in Seq(X)
    BY AppendProperties
  <2>2. ToSet(Append(r, x)) = ToSet(r) \cup {x}
    BY ToSetProperties
  <2>3. /\ Only(Append(r, x), T) =
             IF x \in T THEN Append(Only(r, T), x) ELSE Only(r, T)
        /\ Only(Append(r, x), U) =
             IF x \in U THEN Append(Only(r, U), x) ELSE Only(r, U)
    BY OnlyAppend
  <2>. QED
    BY <1>2, <2>1, <2>2, <2>3
<1> HIDE DEF P
<1>3. Seq(X) \subseteq P
  BY <1>1, <1>2, SequenceInduction
<1>. QED
  BY <1>3 DEF P

\* A test that all elements pass keeps everything.
LEMMA OnlyAll ==
  ASSUME NEW X, NEW s \in Seq(X), NEW T, ToSet(s) \subseteq T
  PROVE  Only(s, T) = s
<1> DEFINE P == {r \in Seq(X) : ToSet(r) \subseteq T => Only(r, T) = r}
<1>1. <<>> \in P
  BY EmptySeq, OnlyEmpty
<1>2. ASSUME NEW r \in Seq(X), NEW x \in X, r \in P PROVE Append(r, x) \in P
  <2>1. Append(r, x) \in Seq(X)
    BY AppendProperties
  <2>2. ToSet(Append(r, x)) = ToSet(r) \cup {x}
    BY ToSetProperties
  <2>3. Only(Append(r, x), T) =
             IF x \in T THEN Append(Only(r, T), x) ELSE Only(r, T)
    BY OnlyAppend
  <2>. QED
    BY <1>2, <2>1, <2>2, <2>3
<1> HIDE DEF P
<1>3. Seq(X) \subseteq P
  BY <1>1, <1>2, SequenceInduction
<1>. QED
  BY <1>3 DEF P

\* Two filters are one, with the intersection of the tests.
LEMMA OnlyOnly ==
  ASSUME NEW X, NEW s \in Seq(X), NEW T, NEW U
  PROVE  Only(Only(s, T), U) = Only(s, T \cap U)
<1> DEFINE P == {r \in Seq(X) : Only(Only(r, T), U) = Only(r, T \cap U)}
<1>1. <<>> \in P
  BY EmptySeq, OnlyEmpty
<1>2. ASSUME NEW r \in Seq(X), NEW x \in X, r \in P PROVE Append(r, x) \in P
  <2>1. Append(r, x) \in Seq(X) /\ Only(r, T) \in Seq(X)
    BY AppendProperties, OnlyType
  <2>2. /\ Only(Append(r, x), T) =
             IF x \in T THEN Append(Only(r, T), x) ELSE Only(r, T)
        /\ Only(Append(Only(r, T), x), U) =
             IF x \in U THEN Append(Only(Only(r, T), U), x) ELSE Only(Only(r, T), U)
        /\ Only(Append(r, x), T \cap U) =
             IF x \in T \cap U THEN Append(Only(r, T \cap U), x)
             ELSE Only(r, T \cap U)
    BY <2>1, OnlyAppend
  <2>3. Only(Only(r, T), U) = Only(r, T \cap U)
    BY <1>2
  <2>4. Only(Only(Append(r, x), T), U) = Only(Append(r, x), T \cap U)
    <3>1. CASE x \in T
      <4>1. Only(Only(Append(r, x), T), U) = Only(Append(Only(r, T), x), U)
        BY <2>2, <3>1, Zenon
      <4>. QED
        BY <2>2, <2>3, <3>1, <4>1
    <3>2. CASE x \notin T
      <4>1. Only(Only(Append(r, x), T), U) = Only(Only(r, T), U)
        BY <2>2, <3>2, Zenon
      <4>. QED
        BY <2>2, <2>3, <3>2, <4>1
    <3>. QED
      BY <3>1, <3>2
  <2>. QED
    BY <2>1, <2>4
<1> HIDE DEF P
<1>3. Seq(X) \subseteq P
  BY <1>1, <1>2, SequenceInduction
<1>. QED
  BY <1>3 DEF P

-----------------------------------------------------------------------------
(* Sequences in increasing order                                           *)

Increasing(s, W) ==
  \A i, j \in 1 .. Len(s) : i < j => W[s[i]] < W[s[j]]

\* A longer sequence increases if its last element exceeds all others.
LEMMA IncreasingAppend ==
  ASSUME NEW X, NEW s \in Seq(X), NEW x \in X, NEW W
  PROVE  Increasing(Append(s, x), W) <=>
           Increasing(s, W) /\ \A y \in ToSet(s) : W[y] < W[x]
<1> DEFINE t == Append(s, x)
<1>1. /\ Len(s) \in Nat /\ Len(t) = Len(s) + 1
      /\ t[Len(s) + 1] = x /\ \A i \in 1 .. Len(s) : t[i] = s[i]
  BY AppendProperties, LenProperties
<1> HIDE DEF t
<1>2. ToSet(s) = {s[i] : i \in 1 .. Len(s)}
  BY ToSetProperties
<1>3. ASSUME Increasing(t, W)
      PROVE  Increasing(s, W) /\ \A y \in ToSet(s) : W[y] < W[x]
  <2>1. \A i \in 1 .. Len(s) : i \in 1 .. Len(t) /\ i < Len(s) + 1
    BY <1>1
  <2>2. Len(s) + 1 \in 1 .. Len(t)
    BY <1>1
  <2>3. Increasing(s, W)
    BY <1>1, <1>3, <2>1 DEF Increasing
  <2>4. \A i \in 1 .. Len(s) : W[s[i]] < W[x]
    BY <1>1, <1>3, <2>1, <2>2 DEF Increasing
  <2>. QED
    BY <1>2, <2>3, <2>4
<1>4. ASSUME Increasing(s, W), \A y \in ToSet(s) : W[y] < W[x]
      PROVE  Increasing(t, W)
  <2>1. SUFFICES ASSUME NEW i \in 1 .. Len(t), NEW j \in 1 .. Len(t), i < j
                 PROVE  W[t[i]] < W[t[j]]
    BY DEF Increasing
  <2>2. i \in 1 .. Len(s) /\ t[i] = s[i] /\ s[i] \in ToSet(s)
    BY <1>1, <1>2, <2>1
  <2>3. CASE j \in 1 .. Len(s)
    BY <1>1, <1>4, <2>1, <2>2, <2>3 DEF Increasing
  <2>4. CASE j = Len(s) + 1
    BY <1>1, <1>4, <2>2, <2>4
  <2>. QED
    BY <1>1, <2>3, <2>4
<1>. QED
  BY <1>3, <1>4 DEF t

\* A filter keeps the order.
LEMMA OnlyIncreasing ==
  ASSUME NEW X, NEW s \in Seq(X), NEW T, NEW W, Increasing(s, W)
  PROVE  Increasing(Only(s, T), W)
<1> DEFINE P == {r \in Seq(X) : Increasing(r, W) => Increasing(Only(r, T), W)}
<1>1. <<>> \in P
  BY EmptySeq, OnlyEmpty
<1>2. ASSUME NEW r \in Seq(X), NEW x \in X, r \in P PROVE Append(r, x) \in P
  <2>1. Append(r, x) \in Seq(X) /\ Only(r, T) \in Seq(X)
    BY AppendProperties, OnlyType
  <2>2. Only(Append(r, x), T) =
          IF x \in T THEN Append(Only(r, T), x) ELSE Only(r, T)
    BY OnlyAppend
  <2>3. ToSet(Only(r, T)) \subseteq ToSet(r)
    BY OnlyRange
  <2>4. ASSUME Increasing(Append(r, x), W)
        PROVE  Increasing(Only(Append(r, x), T), W)
    <3>1. Increasing(r, W) /\ \A y \in ToSet(r) : W[y] < W[x]
      BY <2>4, IncreasingAppend
    <3>2. Increasing(Only(r, T), W)
      BY <1>2, <3>1
    <3>3. Increasing(Append(Only(r, T), x), W)
      BY <2>1, <2>3, <3>1, <3>2, IncreasingAppend
    <3>. QED
      BY <2>2, <3>2, <3>3
  <2>. QED
    BY <2>1, <2>4
<1> HIDE DEF P
<1>3. Seq(X) \subseteq P
  BY <1>1, <1>2, SequenceInduction
<1>. QED
  BY <1>3 DEF P

-----------------------------------------------------------------------------
(* Sequences without repetition                                            *)

\* A longer sequence repeats nothing if its last element is new.
LEMMA InjectiveAppend ==
  ASSUME NEW X, NEW s \in Seq(X), NEW x \in X
  PROVE  IsInjective(Append(s, x)) <=> IsInjective(s) /\ x \notin ToSet(s)
<1> DEFINE t == Append(s, x)
<1>1. /\ t \in Seq(X) /\ Len(s) \in Nat /\ Len(t) = Len(s) + 1
      /\ t[Len(s) + 1] = x /\ \A i \in 1 .. Len(s) : t[i] = s[i]
  BY AppendProperties, LenProperties
<1> HIDE DEF t
<1>2. ToSet(s) = {s[i] : i \in 1 .. Len(s)}
  BY ToSetProperties
<1>3. DOMAIN s = 1 .. Len(s) /\ DOMAIN t = 1 .. Len(s) + 1
  BY <1>1, LenProperties
<1>4. ASSUME IsInjective(t)
      PROVE  IsInjective(s) /\ x \notin ToSet(s)
  <2>1. \A i \in 1 .. Len(s) : i \in 1 .. Len(s) + 1 /\ i # Len(s) + 1
    BY <1>1
  <2>2. Len(s) + 1 \in 1 .. Len(s) + 1
    BY <1>1
  <2>3. \A i, j \in 1 .. Len(s) + 1 : t[i] = t[j] => i = j
    BY <1>3, <1>4 DEF IsInjective
  <2>4. IsInjective(s)
    BY <1>1, <1>3, <2>1, <2>3 DEF IsInjective
  <2>5. \A i \in 1 .. Len(s) : s[i] # x
    BY <1>1, <2>1, <2>2, <2>3
  <2>. QED
    BY <1>2, <2>4, <2>5
<1>5. ASSUME IsInjective(s), x \notin ToSet(s)
      PROVE  IsInjective(t)
  <2>1. SUFFICES ASSUME NEW i \in 1 .. Len(s) + 1, NEW j \in 1 .. Len(s) + 1,
                        t[i] = t[j]
                 PROVE  i = j
    BY <1>3 DEF IsInjective
  <2>2. \A n \in 1 .. Len(s) + 1 : n = Len(s) + 1 \/ n \in 1 .. Len(s)
    BY <1>1
  <2>3. \A n \in 1 .. Len(s) : t[n] # x
    BY <1>1, <1>2, <1>5
  <2>4. CASE i \in 1 .. Len(s) /\ j \in 1 .. Len(s)
    BY <1>1, <1>3, <1>5, <2>1, <2>4 DEF IsInjective
  <2>. QED
    BY <1>1, <2>1, <2>2, <2>3, <2>4
<1>. QED
  BY <1>4, <1>5 DEF t

\* The empty sequence repeats nothing.
LEMMA InjectiveEmpty == IsInjective(<<>>)
<1>1. <<>> \in Seq({}) /\ Len(<<>>) = 0
  BY EmptySeq
<1>2. DOMAIN <<>> = 1 .. 0
  BY <1>1, LenProperties
<1>. QED
  BY <1>2 DEF IsInjective

\* A filter introduces no repetition.
LEMMA OnlyInjective ==
  ASSUME NEW X, NEW s \in Seq(X), NEW T, IsInjective(s)
  PROVE  IsInjective(Only(s, T))
<1> DEFINE P == {r \in Seq(X) : IsInjective(r) => IsInjective(Only(r, T))}
<1>1. <<>> \in P
  BY EmptySeq, OnlyEmpty
<1>2. ASSUME NEW r \in Seq(X), NEW x \in X, r \in P PROVE Append(r, x) \in P
  <2>1. Append(r, x) \in Seq(X) /\ Only(r, T) \in Seq(X)
    BY AppendProperties, OnlyType
  <2>2. Only(Append(r, x), T) =
          IF x \in T THEN Append(Only(r, T), x) ELSE Only(r, T)
    BY OnlyAppend
  <2>3. ToSet(Only(r, T)) \subseteq ToSet(r)
    BY OnlyRange
  <2>4. ASSUME IsInjective(Append(r, x))
        PROVE  IsInjective(Only(Append(r, x), T))
    <3>1. IsInjective(r) /\ x \notin ToSet(r)
      BY <2>4, InjectiveAppend
    <3>2. IsInjective(Only(r, T))
      BY <1>2, <3>1
    <3>3. IsInjective(Append(Only(r, T), x))
      BY <2>1, <2>3, <3>1, <3>2, InjectiveAppend
    <3>. QED
      BY <2>2, <3>2, <3>3
  <2>. QED
    BY <2>1, <2>4
<1> HIDE DEF P
<1>3. Seq(X) \subseteq P
  BY <1>1, <1>2, SequenceInduction
<1>. QED
  BY <1>3 DEF P

\* A sequence without repetition is as long as its set of elements is large.
LEMMA LengthIsCardinality ==
  ASSUME NEW X, NEW s \in Seq(X), IsInjective(s)
  PROVE  IsFiniteSet(ToSet(s)) /\ Cardinality(ToSet(s)) = Len(s)
<1> DEFINE P == {r \in Seq(X) : IsInjective(r) =>
                   IsFiniteSet(ToSet(r)) /\ Cardinality(ToSet(r)) = Len(r)}
<1>1. <<>> \in P
  <2>1. <<>> \in Seq(X) /\ ToSet(<<>>) = {} /\ Len(<<>>) = 0
    BY EmptySeq, ToSetProperties
  <2>. QED
    BY <2>1, FS_EmptySet
<1>2. ASSUME NEW r \in Seq(X), NEW x \in X, r \in P PROVE Append(r, x) \in P
  <2>1. Append(r, x) \in Seq(X) /\ Len(Append(r, x)) = Len(r) + 1
    BY AppendProperties
  <2>2. ToSet(Append(r, x)) = ToSet(r) \cup {x}
    BY ToSetProperties
  <2>3. ASSUME IsInjective(Append(r, x))
        PROVE  /\ IsFiniteSet(ToSet(Append(r, x)))
               /\ Cardinality(ToSet(Append(r, x))) = Len(Append(r, x))
    <3>1. IsInjective(r) /\ x \notin ToSet(r)
      BY <2>3, InjectiveAppend
    <3>2. IsFiniteSet(ToSet(r)) /\ Cardinality(ToSet(r)) = Len(r)
      BY <1>2, <3>1
    <3>3. /\ IsFiniteSet(ToSet(r) \cup {x})
          /\ Cardinality(ToSet(r) \cup {x}) = Cardinality(ToSet(r)) + 1
      BY <3>1, <3>2, FS_AddElement, Zenon
    <3>. QED
      BY <2>1, <2>2, <3>2, <3>3
  <2>. QED
    BY <2>1, <2>3
<1> HIDE DEF P
<1>3. Seq(X) \subseteq P
  BY <1>1, <1>2, SequenceInduction
<1>. QED
  BY <1>3 DEF P

\* Increasing sequences do not repeat themselves.
LEMMA IncreasingIsInjective ==
  ASSUME NEW X, NEW s \in Seq(X), NEW W, \A x \in X : W[x] \in Nat,
         Increasing(s, W)
  PROVE  IsInjective(s)
<1>1. DOMAIN s = 1 .. Len(s) /\ Len(s) \in Nat
  BY LenProperties
<1>2. \A i \in 1 .. Len(s) : W[s[i]] \in Nat
  BY ElementOfSeq
<1>3. ASSUME NEW i \in 1 .. Len(s), NEW j \in 1 .. Len(s), s[i] = s[j]
      PROVE  i = j
  <2>1. ~(i < j) /\ ~(j < i)
    BY <1>2, <1>3 DEF Increasing
  <2>. QED
    BY <1>1, <2>1
<1>. QED
  BY <1>1, <1>3 DEF IsInjective

-----------------------------------------------------------------------------
(* Parts of sequences                                                      *)

\* The elements of a part of a sequence are those at its positions.
LEMMA ToSetOfPart ==
  ASSUME NEW X, NEW s \in Seq(X), NEW m \in Nat \ {0}, NEW n \in Nat,
         n <= Len(s)
  PROVE  /\ SubSeq(s, m, n) \in Seq(X)
         /\ ToSet(SubSeq(s, m, n)) = {s[i] : i \in m .. n}
<1> DEFINE p == SubSeq(s, m, n)
<1>1. Len(s) \in Nat /\ \A i \in m .. n : s[i] \in X
  <2>1. Len(s) \in Nat
    BY LenProperties
  <2>2. \A i \in m .. n : i \in 1 .. Len(s)
    BY <2>1
  <2>. QED
    BY <2>1, <2>2, ElementOfSeq
<1>2. /\ p \in Seq(X) /\ Len(p) = IF m <= n THEN n - m + 1 ELSE 0
      /\ \A i \in 1 .. n - m + 1 : p[i] = s[m + i - 1]
  BY <1>1, SubSeqProperties
<1> HIDE DEF p
<1>3. ToSet(p) = {p[i] : i \in 1 .. Len(p)}
  BY <1>2, ToSetProperties
<1>4. \A i \in 1 .. Len(p) : i \in 1 .. n - m + 1 /\ m + i - 1 \in m .. n
  BY <1>2
<1>5. ASSUME NEW i \in m .. n PROVE s[i] \in ToSet(p)
  <2>1. i - m + 1 \in 1 .. n - m + 1 /\ i - m + 1 \in 1 .. Len(p)
        /\ m + (i - m + 1) - 1 = i
    BY <1>2
  <2>2. p[i - m + 1] = s[i]
    BY <1>2, <2>1
  <2>. QED
    BY <1>3, <2>1, <2>2
<1>6. \A i \in 1 .. Len(p) : p[i] = s[m + i - 1]
  BY <1>2, <1>4
<1>7. ToSet(p) \subseteq {s[i] : i \in m .. n}
  BY <1>3, <1>4, <1>6
<1>. QED
  BY <1>2, <1>5, <1>7 DEF p

\* Cutting a sequence in two.
LEMMA SplitAt ==
  ASSUME NEW X, NEW s \in Seq(X), NEW n \in 0 .. Len(s)
  PROVE  /\ SubSeq(s, 1, n) \in Seq(X) /\ Len(SubSeq(s, 1, n)) = n
         /\ SubSeq(s, n + 1, Len(s)) \in Seq(X)
         /\ s = SubSeq(s, 1, n) \o SubSeq(s, n + 1, Len(s))
<1>1. Len(s) \in Nat
  BY LenProperties
<1>2. /\ 1 \in 1 .. Len(s) + 1 /\ n \in 1 - 1 .. Len(s) /\ Len(s) \in n .. Len(s)
      /\ n \in Nat /\ n <= Len(s) /\ n + 1 \in Nat \ {0}
  BY <1>1
<1>3. SubSeq(s, 1, n) \o SubSeq(s, n + 1, Len(s)) = SubSeq(s, 1, Len(s))
  BY <1>2, ConcatAdjacentSubSeq
<1>4. SubSeq(s, 1, Len(s)) = s
  BY SubSeqFull
<1>5. \A i \in 1 .. n : s[i] \in X
  BY <1>1, <1>2, ElementOfSeq
<1>6. Len(SubSeq(s, 1, n)) = n /\ SubSeq(s, 1, n) \in Seq(X)
  BY <1>2, <1>5, SubSeqProperties
<1>7. SubSeq(s, n + 1, Len(s)) \in Seq(X)
  BY <1>1, <1>2, ToSetOfPart
<1>. QED
  BY <1>3, <1>4, <1>6, <1>7

\* What is left of a concatenation without its first part.
LEMMA DropFirstPart ==
  ASSUME NEW X, NEW s \in Seq(X), NEW t \in Seq(X)
  PROVE  SubSeq(s \o t, 1 + Len(s), Len(s \o t)) = t
<1>1. /\ s \o t \in Seq(X) /\ Len(s \o t) = Len(s) + Len(t)
      /\ Len(s) \in Nat /\ Len(t) \in Nat
  BY ConcatProperties, LenProperties
<1>2. CASE t = <<>>
  <2>1. Len(t) = 0
    BY <1>2, EmptySeq
  <2>2. SubSeq(s \o t, 1 + Len(s), Len(s \o t)) = <<>>
    BY <1>1, <2>1, SubSeqEmpty
  <2>. QED
    BY <1>2, <2>2
<1>3. CASE t # <<>>
  <2>1. Len(t) # 0
    BY <1>3, EmptySeq
  <2>2. /\ 1 + Len(s) \in Len(s) + 1 .. Len(s) + Len(t)
        /\ Len(s \o t) \in Len(s) + 1 .. Len(s) + Len(t)
        /\ (1 + Len(s)) - Len(s) = 1 /\ Len(s \o t) - Len(s) = Len(t)
    BY <1>1, <2>1
  <2>3. SubSeq(s \o t, 1 + Len(s), Len(s \o t)) =
          SubSeq(t, (1 + Len(s)) - Len(s), Len(s \o t) - Len(s))
    BY <2>2, SubSeqOfConcat2
  <2>. QED
    BY <2>2, <2>3, SubSeqFull
<1>. QED
  BY <1>2, <1>3

\* The first of what is kept of a sequence.
LEMMA OnlySingle ==
  ASSUME NEW x, NEW T
  PROVE  Only(<<x>>, T) = IF x \in T THEN <<x>> ELSE <<>>
<1> DEFINE e == <<>>
<1>1. e \in Seq({x}) /\ x \in {x} /\ <<x>> = Append(e, x) /\ Only(e, T) = e
  BY EmptySeq, OnlyEmpty
<1> HIDE DEF e
<1>2. Only(Append(e, x), T) = IF x \in T THEN Append(Only(e, T), x)
                              ELSE Only(e, T)
  BY <1>1, OnlyAppend
<1>. QED
  BY <1>1, <1>2 DEF e

\* The first element is kept or not, in front of what is kept of the rest.
LEMMA OnlyAfterFirst ==
  ASSUME NEW X, NEW x \in X, NEW s \in Seq(X), NEW T
  PROVE  Only(<<x>> \o s, T) = IF x \in T THEN <<x>> \o Only(s, T) ELSE Only(s, T)
<1> DEFINE one == <<x>>
<1>0. one \in Seq(X)
  OBVIOUS
<1>1. Only(one, T) = IF x \in T THEN one ELSE <<>>
  BY OnlySingle
<1> HIDE DEF one
<1>2. Only(one \o s, T) = Only(one, T) \o Only(s, T)
  BY <1>0, OnlyConcat
<1>3. <<>> \o Only(s, T) = Only(s, T)
  BY OnlyType, ConcatEmptySeq
<1>. QED
  BY <1>1, <1>2, <1>3 DEF one

\* Without repetition, removing an element keeps all the others.
LEMMA RemoveFirstIsOnly ==
  ASSUME NEW X, NEW s \in Seq(X), IsInjective(s), NEW k
  PROVE  RemoveFirst(s, k) = Only(s, X \ {k})
<1>1. Len(s) \in Nat /\ DOMAIN s = 1 .. Len(s)
      /\ ToSet(s) = {s[i] : i \in 1 .. Len(s)} /\ ToSet(s) \subseteq X
  BY LenProperties, ToSetProperties
<1>2. CASE ~ \E i \in 1 .. Len(s) : s[i] = k
  <2>1. RemoveFirst(s, k) = s
    BY <1>2 DEF RemoveFirst
  <2>2. ToSet(s) \subseteq X \ {k}
    BY <1>1, <1>2
  <2>. QED
    BY <2>1, <2>2, OnlyAll
<1>3. ASSUME NEW i \in 1 .. Len(s), s[i] = k
      PROVE  RemoveFirst(s, k) = Only(s, X \ {k})
  <2> DEFINE I == {j \in 1 .. Len(s) : s[j] = k}
             front == SubSeq(s, 1, i - 1)
             back == SubSeq(s, i + 1, Len(s))
  <2>1. I = {i}
    BY <1>1, <1>3 DEF IsInjective
  <2>2. Min(I) = i
    BY <2>1 DEF Min
  <2>3. SelectInSeq(s, LAMBDA v : v = k) = i
    <3>1. SelectInSeq(s, LAMBDA v : v = k) = IF I # {} THEN Min(I) ELSE 0
      BY DEF SelectInSeq
    <3>. QED
      BY <2>1, <2>2, <3>1
  <2>4. RemoveFirst(s, k) = front \o back
    BY <1>3, <2>3 DEF RemoveFirst, RemoveAt
  <2>5. /\ i - 1 \in Nat /\ i - 1 <= Len(s) /\ i + 1 \in Nat \ {0}
        /\ 1 \in Nat \ {0} /\ i \in 0 .. Len(s) /\ i - 1 \in 0 .. Len(s)
        /\ (i - 1) + 1 = i /\ i \in Nat
    BY <1>1, <1>3
  <2>6. /\ front \in Seq(X) /\ ToSet(front) = {s[j] : j \in 1 .. i - 1}
        /\ back \in Seq(X) /\ ToSet(back) = {s[j] : j \in i + 1 .. Len(s)}
    BY <1>1, <2>5, ToSetOfPart
  <2>7. \A j \in 1 .. Len(s) : s[j] = k => j = i
    BY <2>1
  <2>8. ToSet(front) \subseteq X \ {k} /\ ToSet(back) \subseteq X \ {k}
    <3>1. ToSet(front) \subseteq X /\ ToSet(back) \subseteq X
      BY <2>6, ToSetProperties
    <3>2. \A j \in 1 .. i - 1 : j \in 1 .. Len(s) /\ j # i
      BY <1>1, <2>5
    <3>3. \A j \in i + 1 .. Len(s) : j \in 1 .. Len(s) /\ j # i
      BY <1>1, <2>5
    <3>. QED
      BY <2>6, <2>7, <3>1, <3>2, <3>3
  <2>9. s = front \o (<<k>> \o back) /\ <<k>> \in Seq(X) /\ k \in X
    <3>1. s = front \o SubSeq(s, i, Len(s))
      <4>1. s = SubSeq(s, 1, i - 1) \o SubSeq(s, (i - 1) + 1, Len(s))
        BY <2>5, SplitAt
      <4>. QED
        BY <2>5, <4>1
    <3>2. i \in 1 .. Len(s) /\ Len(s) \in i .. Len(s)
      BY <1>1, <1>3
    <3>3. SubSeq(s, i, Len(s)) = <<s[i]>> \o back
      BY <3>2, SubSeqRecursiveFirst
    <3>4. k \in X
      BY <1>1, <1>3
    <3>5. <<k>> \in Seq(X)
      BY <3>4
    <3> HIDE DEF front, back
    <3>. QED
      BY <1>3, <3>1, <3>3, <3>4, <3>5
  <2> HIDE DEF front, back
  <2>10. <<k>> \o back \in Seq(X)
    BY <2>6, <2>9, ConcatProperties
  <2>11. Only(s, X \ {k}) = Only(front, X \ {k}) \o Only(<<k>> \o back, X \ {k})
    <3> DEFINE rest == <<k>> \o back
    <3>1. rest \in Seq(X) /\ front \in Seq(X)
      BY <2>6, <2>10
    <3>2. s = front \o rest
      BY <2>9
    <3> HIDE DEF rest
    <3>3. Only(front \o rest, X \ {k}) = Only(front, X \ {k}) \o Only(rest, X \ {k})
      BY <3>1, OnlyConcat, SMTT(30)
    <3>. QED
      BY <3>2, <3>3 DEF rest
  <2>12. Only(<<k>> \o back, X \ {k}) = Only(back, X \ {k})
    BY <2>6, <2>9, OnlyAfterFirst
  <2>13. Only(front, X \ {k}) = front /\ Only(back, X \ {k}) = back
    BY <2>6, <2>8, OnlyAll
  <2>. QED
    BY <2>4, <2>11, <2>12, <2>13
<1>. QED
  BY <1>2, <1>3

\* Without repetition, dropping the head is filtering it away.
LEMMA TailIsOnly ==
  ASSUME NEW X, NEW s \in Seq(X), IsInjective(s), s # <<>>
  PROVE  Tail(s) = Only(s, X \ {Head(s)}) /\ Head(s) = s[1] /\ Head(s) \in ToSet(s)
<1>1. /\ Len(s) \in Nat /\ Len(s) # 0 /\ DOMAIN s = 1 .. Len(s)
      /\ ToSet(s) = {s[i] : i \in 1 .. Len(s)} /\ ToSet(s) \subseteq X
  BY LenProperties, EmptySeq, ToSetProperties
<1>2. 1 \in 1 .. Len(s) /\ 1 \in 0 .. Len(s) /\ Len(s) \in 1 .. Len(s)
      /\ 1 + 1 \in Nat \ {0} /\ 1 - 1 = 0 /\ 1 + 1 = 2
  BY <1>1
<1>3. Head(s) = s[1] /\ Head(s) \in X
  BY HeadTailProperties
<1>4. Tail(s) = SubSeq(s, 2, Len(s))
  BY TailIsSubSeq
<1>5. s = <<s[1]>> \o Tail(s)
  <2>1. SubSeq(s, 1, Len(s)) = <<s[1]>> \o SubSeq(s, 1 + 1, Len(s))
    BY <1>2, SubSeqRecursiveFirst
  <2>. QED
    BY <1>2, <1>4, <2>1, SubSeqFull
<1>6. Tail(s) \in Seq(X) /\ ToSet(Tail(s)) = {s[i] : i \in 2 .. Len(s)}
  <2>1. /\ SubSeq(s, 2, Len(s)) \in Seq(X)
        /\ ToSet(SubSeq(s, 2, Len(s))) = {s[i] : i \in 2 .. Len(s)}
    BY <1>1, ToSetOfPart
  <2>. QED
    BY <1>4, <2>1
<1>7. ToSet(Tail(s)) \subseteq X \ {s[1]}
  <2>1. \A i \in 2 .. Len(s) : i \in 1 .. Len(s) /\ i # 1
    BY <1>1
  <2>2. \A i \in 2 .. Len(s) : s[i] # s[1]
    BY <1>1, <1>2, <2>1 DEF IsInjective
  <2>3. ToSet(Tail(s)) \subseteq X
    BY <1>6, ToSetProperties
  <2>. QED
    BY <1>6, <2>2, <2>3
<1>8. Only(s, X \ {s[1]}) = Only(Tail(s), X \ {s[1]})
  <2>1. s[1] \in X /\ Tail(s) \in Seq(X) /\ s[1] \notin X \ {s[1]}
    BY <1>3, <1>6
  <2>2. Only(<<s[1]>> \o Tail(s), X \ {s[1]}) = Only(Tail(s), X \ {s[1]})
    <3> DEFINE first == s[1]
               rest == Tail(s)
               T == X \ {first}
    <3>1. first \in X /\ rest \in Seq(X) /\ first \notin T
      BY <2>1
    <3> HIDE DEF first, rest, T
    <3>2. Only(<<first>> \o rest, T) = Only(rest, T)
      BY <3>1, OnlyAfterFirst
    <3>. QED
      BY <3>2 DEF first, rest, T
  <2>. QED
    BY <1>5, <2>2
<1>9. Only(Tail(s), X \ {s[1]}) = Tail(s)
  BY <1>6, <1>7, OnlyAll
<1>. QED
  BY <1>1, <1>2, <1>3, <1>8, <1>9

\* A sequence is its head and its tail.
LEMMA HeadTailConcat ==
  ASSUME NEW X, NEW s \in Seq(X), s # <<>>
  PROVE  Head(s) \in X /\ Tail(s) \in Seq(X) /\ s = <<Head(s)>> \o Tail(s)
<1>1. /\ Len(s) \in Nat /\ Len(s) # 0
      /\ 1 \in 1 .. Len(s) /\ Len(s) \in 1 .. Len(s)
  BY LenProperties, EmptySeq
<1>2. Head(s) = s[1] /\ Head(s) \in X /\ Tail(s) \in Seq(X)
  BY HeadTailProperties
<1>3. Tail(s) = SubSeq(s, 2, Len(s))
  BY TailIsSubSeq
<1>4. SubSeq(s, 1, Len(s)) = <<s[1]>> \o SubSeq(s, 1 + 1, Len(s))
  BY <1>1, SubSeqRecursiveFirst
<1>5. SubSeq(s, 1, Len(s)) = s /\ 1 + 1 = 2
  BY SubSeqFull
<1>. QED
  BY <1>2, <1>3, <1>4, <1>5

\* The tail of a sequence with one more element in front is that sequence.
LEMMA ConsProperties ==
  ASSUME NEW X, NEW x \in X, NEW s \in Seq(X)
  PROVE  /\ <<x>> \o s \in Seq(X) /\ <<x>> \o s # <<>>
         /\ Tail(<<x>> \o s) = s
<1> DEFINE one == <<x>>
           t == one \o s
<1>1. one \in Seq(X) /\ Len(one) = 1
  OBVIOUS
<1> HIDE DEF one
<1>2. t \in Seq(X) /\ Len(t) = Len(one) + Len(s) /\ Len(s) \in Nat
  BY <1>1, ConcatProperties, LenProperties
<1>3. SubSeq(t, 1 + Len(one), Len(t)) = s
  BY <1>1, DropFirstPart
<1> HIDE DEF t
<1>4. t # <<>>
  BY <1>1, <1>2, EmptySeq
<1>5. Tail(t) = SubSeq(t, 2, Len(t))
  BY <1>2, <1>4, TailIsSubSeq
<1>6. Tail(t) = s
  BY <1>1, <1>3, <1>5
<1>. QED
  BY <1>2, <1>4, <1>6 DEF t, one
=============================================================================
