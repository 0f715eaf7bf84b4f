------------------------- MODULE PolicyTrainingProofs -------------------------
(***************************************************************************)
(* Training a policy, for any workers, environments, trees of tasks,       *)
(* configurations of the loss and numbers of episodes.                     *)
(*                                                                         *)
(* The logs an evaluation keeps: `evaluate' pairs the episodes it counts   *)
(* with the log files it asks the workers for, by their position in two    *)
(* lists.  The pairs are right, when an evaluation worker has a single     *)
(* environment, because a log is asked for between two rounds, when each   *)
(* selected worker did exactly one episode since, and because the hooks    *)
(* which write the logs are toggled twice on the workers that live.        *)
(*                                                                         *)
(* The loss: whatever terms are enabled, each reads the batch it is about, *)
(* the noise stays in its box and a mirrored observation is the permuted   *)
(* one, since the slices of the fields share out its entries, when the     *)
(* matrices follow the fields.                                             *)
(*                                                                         *)
(* The curriculum: windows keep the last scores of the tasks below their   *)
(* node, as many as those of its children until they are full; so the      *)
(* weights the driver gives to the environments never vanish.              *)
(***************************************************************************)
EXTENDS PolicyTraining, FiniteSetTheorems, SequenceTheorems, TLAPS

-----------------------------------------------------------------------------
(* The logs an evaluation keeps                                             *)

\* A log is known by the iteration and the number of the episode, and by the environment.
Logs == {<<iter, num, 1>> : iter \in Nat, num \in Nat}

\* The state of the callbacks of a worker that has one environment.
States == [hook : BOOLEAN, log_paths : {Nil} \cup {<<log>> : log \in Logs}]

\* One environment in each evaluation worker.
OneEnv == EvaluationEnvs = 1

\* What the callbacks and an evaluation hold.
EvaluationTypes ==
    /\ healthy \subseteq DOMAIN callbacks \ {Local}
    /\ Local \in DOMAIN callbacks /\ DOMAIN callbacks \subseteq Nat /\ IsFiniteSet(DOMAIN callbacks)
    /\ callbacks \in [DOMAIN callbacks -> States]
    /\ evaluation.episodes \in Seq(Logs) /\ evaluation.logs \in Seq(Logs)
    /\ evaluation = [episodes |-> evaluation.episodes, logs |-> evaluation.logs]
    /\ iteration \in Nat

\* The hook is on the workers of an evaluation, as long as it lasts and they live; there is no
\* log of the local worker, which toggles its own, when it is the only one.
HooksAreOn ==
    /\ \A w \in healthy : callbacks[w].hook = InEvaluation
    /\ DOMAIN callbacks = {Local} => callbacks[Local].hook = InEvaluation /\ callbacks[Local].log_paths = Nil
    /\ pc = "local" => DOMAIN callbacks = {Local}

\* The logs that were gathered are those of the episodes of the same number.
LogsMatch ==
    \A k \in DOMAIN evaluation.episodes \cap DOMAIN evaluation.logs :
        evaluation.logs[k] = evaluation.episodes[k]

\* Before a round, either there is a log of every episode or enough logs; after it, the logs of
\* the selected workers are missing.
RoundsMatch ==
    /\ pc \in {"rounds", "logs", "end"} => LogsMatch
    /\ pc = "rounds" =>
          \/ Len(evaluation.logs) = Len(evaluation.episodes)
          \/ Len(evaluation.logs) > Len(evaluation.episodes) /\ Delta <= 0
    /\ pc = "logs" =>
          /\ Delta > 0
          /\ Len(evaluation.episodes) = Len(evaluation.logs) + Len(Selected)
          /\ \A k \in DOMAIN Selected :
                callbacks[Selected[k]].log_paths = <<evaluation.episodes[Len(evaluation.logs) + k]>>

KeptInv ==
    /\ EvaluationTypes
    /\ disturbed \/ (HooksAreOn /\ RoundsMatch /\ PathsFollowEpisodes)

-----------------------------------------------------------------------------
(* The identifiers of the workers, in order *)

\* Induction over a set of numbers, from the cardinality of what would be missing.
LEMMA Induction ==
    ASSUME NEW T, 0 \in T, \A n \in Nat : n \in T => n + 1 \in T
    PROVE  \A n \in Nat : n \in T
<1> SUFFICES ASSUME NEW n \in Nat, n \notin T PROVE FALSE
  OBVIOUS
<1> DEFINE U == {k \in 0 .. n : k \notin T}
           V == {k \in 0 .. n - 1 : k \notin T}
           pred == [k \in U |-> k - 1]
<1>1. IsFiniteSet(V) /\ Cardinality(V) \in Nat
  <2>1. IsFiniteSet(0 .. n - 1)
    BY FS_Interval
  <2>2. V \in SUBSET (0 .. n - 1)
    OBVIOUS
  <2> QED
    BY <2>1, <2>2, FS_Subset, FS_CardinalityType
<1>2. U = V \cup {n} /\ n \notin V
  OBVIOUS
<1>3. Cardinality(U) = Cardinality(V) + 1
  BY <1>1, <1>2, FS_AddElement
<1>4. pred \in Injection(U, V)
  <2>1. \A k \in U : k - 1 \in V
    <3> SUFFICES ASSUME NEW k \in U PROVE k - 1 \in V
      OBVIOUS
    <3>1. k \in Nat /\ k # 0 /\ k - 1 \in Nat /\ k = (k - 1) + 1
      OBVIOUS
    <3> QED
      BY <3>1
  <2>2. pred \in [U -> V]
    BY <2>1
  <2>3. \A k, l \in U : pred[k] = pred[l] => k = l
    OBVIOUS
  <2> QED
    BY <2>2, <2>3 DEF Injection, IsInjective
<1>5. Cardinality(U) <= Cardinality(V)
  BY <1>1, <1>4, FS_Injection
<1> QED
  BY <1>1, <1>3, <1>5

-----------------------------------------------------------------------------
(* Folds over finite sets *)

\* What holds of a set whenever it does of the same without any of its elements holds of every
\* finite set.
LEMMA SubsetInduction ==
    ASSUME NEW T, IsFiniteSet(T), NEW Good,
           \A s \in SUBSET T : (\A x \in s : s \ {x} \in Good) => s \in Good
    PROVE  \A s \in SUBSET T : s \in Good
<1> DEFINE U == {n \in Nat : \A s \in SUBSET T : Cardinality(s) = n => s \in Good}
<1>1. \A s \in SUBSET T : IsFiniteSet(s) /\ Cardinality(s) \in Nat
  BY FS_Subset, FS_CardinalityType
<1>2. 0 \in U
  <2> SUFFICES ASSUME NEW s \in SUBSET T, Cardinality(s) = 0 PROVE s \in Good
    OBVIOUS
  <2>1. s = {}
    BY <1>1, FS_EmptySet
  <2> QED BY <2>1
<1>3. ASSUME NEW n \in Nat, n \in U PROVE n + 1 \in U
  <2> SUFFICES ASSUME NEW s \in SUBSET T, Cardinality(s) = n + 1 PROVE s \in Good
    OBVIOUS
  <2>1. SUFFICES ASSUME NEW x \in s PROVE s \ {x} \in Good
    OBVIOUS
  <2>2. Cardinality(s \ {x}) = n
    <3>1. IsFiniteSet(s) /\ Cardinality(s \ {x}) = Cardinality(s) - 1
      BY <1>1, FS_RemoveElement
    <3> QED BY <3>1
  <2> QED BY <1>3, <2>2
<1> HIDE DEF U
<1>4. \A n \in Nat : n \in U
  BY <1>2, <1>3, Induction
<1> QED BY <1>1, <1>4 DEF U

\* A function of the subsets of a finite set may be defined by the removal of an element.
IsIteration(h, T, base, pick, F) ==
    \A s \in SUBSET T : h[s] = IF s = {} THEN base ELSE F[pick[s]][h[s \ {pick[s]}]]

HasIteration(T, V, base, pick, F) ==
    \E h \in [SUBSET T -> V] : IsIteration(h, T, base, pick, F)

Small(T, n) == {s \in SUBSET T : Cardinality(s) <= n}
IsSmallIteration(h, T, n, base, pick, F) ==
    \A s \in Small(T, n) : h[s] = IF s = {} THEN base ELSE F[pick[s]][h[s \ {pick[s]}]]

\* One element more.
NextIteration(h, T, n, base, pick, F) ==
    [s \in Small(T, n + 1) |-> IF s = {} THEN base ELSE F[pick[s]][h[s \ {pick[s]}]]]

LEMMA SmallerByOne ==
    ASSUME NEW T, IsFiniteSet(T), NEW n \in Nat, NEW s \in Small(T, n + 1), s # {}, NEW x \in s
    PROVE  s \ {x} \in Small(T, n)
<1>1. IsFiniteSet(s) /\ Cardinality(s) \in Nat /\ Cardinality(s) <= n + 1
  BY FS_Subset, FS_CardinalityType DEF Small
<1>2. Cardinality(s \ {x}) = Cardinality(s) - 1
  BY <1>1, FS_RemoveElement
<1> QED BY <1>1, <1>2 DEF Small

LEMMA IterationExists ==
    ASSUME NEW T, IsFiniteSet(T), NEW V, NEW base \in V, NEW pick, NEW F \in [T -> [V -> V]],
           \A s \in SUBSET T : s # {} => pick[s] \in s
    PROVE  HasIteration(T, V, base, pick, F)
<1> DEFINE Is(h, n) == h \in [Small(T, n) -> V] /\ IsSmallIteration(h, T, n, base, pick, F)
           U == {n \in Nat : \E h : Is(h, n)}
<1>0. \A s \in SUBSET T : IsFiniteSet(s) /\ Cardinality(s) \in Nat
  BY FS_Subset, FS_CardinalityType
<1>1. 0 \in U
  <2> DEFINE h == [s \in Small(T, 0) |-> base]
  <2>1. \A s \in Small(T, 0) : s = {}
    <3> SUFFICES ASSUME NEW s \in Small(T, 0) PROVE s = {}
      OBVIOUS
    <3>1. IsFiniteSet(s) /\ Cardinality(s) = 0
      BY <1>0 DEF Small
    <3> QED BY <3>1, FS_EmptySet
  <2>2. Is(h, 0)
    BY <2>1 DEF IsSmallIteration
  <2> QED BY <2>2
<1>2. ASSUME NEW n \in Nat, n \in U PROVE n + 1 \in U
  <2>1. PICK f : Is(f, n)
    BY <1>2
  <2> DEFINE g == NextIteration(f, T, n, base, pick, F)
  <2>2. \A s \in Small(T, n + 1) : s # {} => pick[s] \in T /\ s \ {pick[s]} \in Small(T, n)
    <3> SUFFICES ASSUME NEW s \in Small(T, n + 1), s # {}
                 PROVE  pick[s] \in T /\ s \ {pick[s]} \in Small(T, n)
      OBVIOUS
    <3>1. s \in SUBSET T /\ pick[s] \in s
      BY DEF Small
    <3> QED BY <3>1, SmallerByOne
  <2>3. \A s \in Small(T, n) : s \in Small(T, n + 1) /\ g[s] = f[s]
    <3> SUFFICES ASSUME NEW s \in Small(T, n) PROVE s \in Small(T, n + 1) /\ g[s] = f[s]
      OBVIOUS
    <3>1. s \in Small(T, n + 1)
      BY <1>0 DEF Small
    <3>2. g[s] = IF s = {} THEN base ELSE F[pick[s]][f[s \ {pick[s]}]]
      BY <3>1 DEF NextIteration
    <3> QED BY <2>1, <3>1, <3>2 DEF IsSmallIteration
  <2>4. g \in [Small(T, n + 1) -> V]
    <3>1. \A s \in Small(T, n + 1) : s # {} => F[pick[s]][f[s \ {pick[s]}]] \in V
      <4> SUFFICES ASSUME NEW s \in Small(T, n + 1), s # {}
                   PROVE  F[pick[s]][f[s \ {pick[s]}]] \in V
        OBVIOUS
      <4>1. pick[s] \in T /\ f[s \ {pick[s]}] \in V
        BY <2>1, <2>2
      <4> QED BY <4>1
    <3> QED BY <3>1 DEF NextIteration
  <2>5. IsSmallIteration(g, T, n + 1, base, pick, F)
    <3> SUFFICES ASSUME NEW s \in Small(T, n + 1)
                 PROVE  g[s] = IF s = {} THEN base ELSE F[pick[s]][g[s \ {pick[s]}]]
      BY DEF IsSmallIteration
    <3>1. g[s] = IF s = {} THEN base ELSE F[pick[s]][f[s \ {pick[s]}]]
      BY DEF NextIteration
    <3>2. s # {} => g[s \ {pick[s]}] = f[s \ {pick[s]}]
      BY <2>2, <2>3
    <3> HIDE DEF g
    <3> QED BY <3>1, <3>2
  <2> HIDE DEF g
  <2> QED BY <2>4, <2>5
<1> HIDE DEF U
<1>3. \A n \in Nat : n \in U
  BY <1>1, <1>2, Induction
<1> DEFINE c == Cardinality(T)
<1>4. c \in Nat /\ Small(T, c) = SUBSET T
  <2>1. c \in Nat
    BY FS_CardinalityType
  <2>2. \A s \in SUBSET T : Cardinality(s) <= c
    BY FS_Subset
  <2> QED BY <2>1, <2>2 DEF Small
<1>5. PICK h : Is(h, c)
  BY <1>3, <1>4 DEF U
<1>6. h \in [SUBSET T -> V] /\ IsIteration(h, T, base, pick, F)
  BY <1>4, <1>5 DEF IsIteration, IsSmallIteration
<1> QED BY <1>6 DEF HasIteration

-----------------------------------------------------------------------------
(* Finite sets in order *)

\* A relation that orders the elements of a set: it is total and transitive.
Orders(R, T) ==
    /\ \A a, b \in T : a # b => <<a, b>> \in R \/ <<b, a>> \in R
    /\ \A a, b, c \in T : <<a, b>> \in R /\ <<b, c>> \in R => <<a, c>> \in R

IsLastOf(z, s, R) == z \in s /\ \A y \in s : y # z => <<y, z>> \in R

LEMMA LastExists ==
    ASSUME NEW T, IsFiniteSet(T), NEW R, Orders(R, T)
    PROVE  \A s \in SUBSET T : s # {} => \E z : IsLastOf(z, s, R)
<1> DEFINE Good == {s \in SUBSET T : s # {} => \E z : IsLastOf(z, s, R)}
<1>1. ASSUME NEW s \in SUBSET T, \A x \in s : s \ {x} \in Good PROVE s \in Good
  <2> SUFFICES ASSUME s # {} PROVE \E z : IsLastOf(z, s, R)
    OBVIOUS
  <2>1. PICK x \in s : s \ {x} \in Good
    BY <1>1
  <2>2. CASE s \ {x} = {}
    <3>1. IsLastOf(x, s, R)
      BY <2>2 DEF IsLastOf
    <3> QED BY <3>1
  <2>3. CASE s \ {x} # {}
    <3>1. PICK z : IsLastOf(z, s \ {x}, R)
      BY <2>1, <2>3
    <3>2. z \in s /\ z # x /\ \A y \in s : y # x /\ y # z => <<y, z>> \in R
      BY <3>1 DEF IsLastOf
    <3>3. CASE <<x, z>> \in R
      <4>1. IsLastOf(z, s, R)
        BY <3>2, <3>3 DEF IsLastOf
      <4> QED BY <4>1
    <3>4. CASE <<z, x>> \in R
      <4>1. \A y \in s : y # x => <<y, x>> \in R
        <5> SUFFICES ASSUME NEW y \in s, y # x PROVE <<y, x>> \in R
          OBVIOUS
        <5>1. CASE y = z
          BY <3>4, <5>1
        <5>2. CASE y # z
          <6>1. <<y, z>> \in R /\ y \in T /\ z \in T /\ x \in T
            BY <3>2, <5>2
          <6> QED BY <3>4, <6>1 DEF Orders
        <5> QED BY <5>1, <5>2
      <4>2. IsLastOf(x, s, R)
        BY <4>1 DEF IsLastOf
      <4> QED BY <4>2
    <3>5. <<x, z>> \in R \/ <<z, x>> \in R
      BY <3>2 DEF Orders
    <3> QED BY <3>3, <3>4, <3>5
  <2> QED BY <2>2, <2>3
<1> HIDE DEF Good
<1>2. \A s \in SUBSET T : s \in Good
  BY <1>1, SubsetInduction
<1> QED BY <1>2 DEF Good

Enumerates(f, s, R) ==
    /\ f \in [1 .. Cardinality(s) -> s]
    /\ \A i, j \in 1 .. Cardinality(s) : i < j => <<f[i], f[j]>> \in R

\* The last one is put behind the others.
LEMMA EnumerationExists ==
    ASSUME NEW T, IsFiniteSet(T), NEW R, Orders(R, T)
    PROVE  \A s \in SUBSET T : \E f : Enumerates(f, s, R)
<1> DEFINE Good == {s \in SUBSET T : \E f : Enumerates(f, s, R)}
<1>0. \A s \in SUBSET T : IsFiniteSet(s) /\ Cardinality(s) \in Nat
  BY FS_Subset, FS_CardinalityType
<1>1. ASSUME NEW s \in SUBSET T, \A x \in s : s \ {x} \in Good PROVE s \in Good
  <2>1. CASE s = {}
    <3> DEFINE f == [i \in 1 .. 0 |-> i]
    <3>1. Cardinality(s) = 0
      BY <2>1, FS_EmptySet
    <3>2. Enumerates(f, s, R)
      BY <3>1 DEF Enumerates
    <3> QED BY <3>2
  <2>2. CASE s # {}
    <3>1. PICK z : IsLastOf(z, s, R)
      BY <2>2, LastExists
    <3> DEFINE n == Cardinality(s)
               m == Cardinality(s \ {z})
    <3>2. n \in Nat /\ m \in Nat /\ n = m + 1 /\ z \in s
      <4>1. z \in s /\ IsFiniteSet(s) /\ m = n - 1 /\ n \in Nat
        BY <1>0, <3>1, FS_RemoveElement DEF IsLastOf
      <4>2. m \in Nat
        BY <1>0
      <4> QED BY <4>1, <4>2
    <3>3. PICK f : Enumerates(f, s \ {z}, R)
      BY <1>1, <3>1 DEF IsLastOf
    <3> DEFINE g == [i \in 1 .. n |-> IF i = n THEN z ELSE f[i]]
    <3>4. /\ \A i \in 1 .. m : f[i] \in s \ {z}
          /\ \A i, j \in 1 .. m : i < j => <<f[i], f[j]>> \in R
      BY <3>3 DEF Enumerates
    <3> HIDE DEF n, m
    <3>5. \A i \in 1 .. n : i # n => i \in 1 .. m
      BY <3>2
    <3>6. g \in [1 .. n -> s]
      BY <3>2, <3>4, <3>5
    <3>7. \A i, j \in 1 .. n : i < j => <<g[i], g[j]>> \in R
      <4> SUFFICES ASSUME NEW i \in 1 .. n, NEW j \in 1 .. n, i < j PROVE <<g[i], g[j]>> \in R
        OBVIOUS
      <4>1. i # n /\ i \in 1 .. m /\ g[i] = f[i]
        BY <3>2, <3>5
      <4>2. CASE j = n
        <5>1. g[j] = z /\ f[i] \in s /\ f[i] # z
          BY <3>4, <4>1, <4>2
        <5> QED BY <3>1, <4>1, <5>1 DEF IsLastOf
      <4>3. CASE j # n
        <5>1. j \in 1 .. m /\ g[j] = f[j]
          BY <3>5, <4>3
        <5> QED BY <3>4, <4>1, <5>1
      <4> QED BY <4>2, <4>3
    <3> HIDE DEF g
    <3>8. Enumerates(g, s, R)
      BY <3>6, <3>7 DEF Enumerates, n
    <3> QED BY <3>8
  <2> QED BY <2>1, <2>2
<1> HIDE DEF Good
<1>2. \A s \in SUBSET T : s \in Good
  BY <1>1, SubsetInduction
<1> QED BY <1>2 DEF Good

\* Numbers in ascending order.
LEMMA AscendingIs ==
    ASSUME NEW W \in SUBSET Nat, IsFiniteSet(W)
    PROVE  /\ Ascending(W) \in [1 .. Cardinality(W) -> W]
           /\ \A i, j \in 1 .. Cardinality(W) : i < j => Ascending(W)[i] < Ascending(W)[j]
<1> DEFINE R == {p \in Nat \X Nat : p[1] < p[2]}
           n == Cardinality(W)
<1>1. \A a, b \in Nat : <<a, b>> \in R <=> a < b
  OBVIOUS
<1> HIDE DEF R
<1>2. Orders(R, W)
  <2>1. \A a, b \in W : a # b => <<a, b>> \in R \/ <<b, a>> \in R
    BY <1>1
  <2>2. \A a, b, c \in W : <<a, b>> \in R /\ <<b, c>> \in R => <<a, c>> \in R
    BY <1>1
  <2> QED BY <2>1, <2>2 DEF Orders
<1>3. PICK f : Enumerates(f, W, R)
  BY <1>2, EnumerationExists
<1>4. f \in [1 .. n -> W] /\ DOMAIN f = 1 .. n
      /\ \A i, j \in 1 .. n : i < j => <<f[i], f[j]>> \in R
  BY <1>3 DEF Enumerates
<1>5. \A i, j \in DOMAIN f : i < j => f[i] < f[j]
  <2> SUFFICES ASSUME NEW i \in 1 .. n, NEW j \in 1 .. n, i < j PROVE f[i] < f[j]
    BY <1>4
  <2>1. f[i] \in Nat /\ f[j] \in Nat /\ <<f[i], f[j]>> \in R
    BY <1>4
  <2> QED BY <1>1, <2>1
<1>6. \E seq \in [1 .. n -> W] : \A i, j \in DOMAIN seq : i < j => seq[i] < seq[j]
  BY <1>4, <1>5
<1>7. /\ Ascending(W) \in [1 .. n -> W]
      /\ \A i, j \in DOMAIN Ascending(W) : i < j => Ascending(W)[i] < Ascending(W)[j]
  BY <1>6 DEF Ascending
<1> QED BY <1>7

\* The workers, each once, by their identifiers.
LEMMA InOrderIs ==
    ASSUME NEW W \in SUBSET Nat, IsFiniteSet(W)
    PROVE  /\ InOrderOf(W) \in Seq(W) /\ Len(InOrderOf(W)) = Cardinality(W)
           /\ \A i, j \in 1 .. Len(InOrderOf(W)) : i < j => InOrderOf(W)[i] < InOrderOf(W)[j]
<1> DEFINE n == Cardinality(W)
<1>1. n \in Nat
  BY FS_CardinalityType
<1>2. /\ InOrderOf(W) \in [1 .. n -> W]
      /\ \A i, j \in 1 .. n : i < j => InOrderOf(W)[i] < InOrderOf(W)[j]
  BY AscendingIs DEF InOrderOf
<1> HIDE DEF n
<1>3. InOrderOf(W) \in Seq(W) /\ Len(InOrderOf(W)) = n
  BY <1>1, <1>2
<1> QED BY <1>2, <1>3 DEF n

-----------------------------------------------------------------------------
(* Sequences one after the other *)

\* The function FlattenSeq is defined by: what the first n sequences make one after the other.
IsFlattening(f, seqs, n) ==
    f = [i \in 1 .. n |-> IF i = 1 THEN seqs[1] ELSE f[i - 1] \o seqs[i]]

\* There is one, however many the sequences.
LEMMA FlatteningExists ==
    ASSUME NEW seqs
    PROVE  \A n \in Nat : \E f : IsFlattening(f, seqs, n)
<1> DEFINE T == {n \in Nat : \E f : IsFlattening(f, seqs, n)}
<1>1. 0 \in T
  <2> DEFINE f == [i \in 1 .. 0 |-> seqs[1]]
  <2>1. IsFlattening(f, seqs, 0)
    BY DEF IsFlattening
  <2> QED BY <2>1
<1>2. ASSUME NEW n \in Nat, n \in T PROVE n + 1 \in T
  <2>1. PICK f : IsFlattening(f, seqs, n)
    BY <1>2
  <2> DEFINE g == [i \in 1 .. n + 1 |->
                     IF i = 1 THEN seqs[1] ELSE f[i - 1] \o seqs[i]]
  <2>2. \A i \in 1 .. n : g[i] = f[i]
    <3>1. \A i \in 1 .. n : i \in 1 .. n + 1
      OBVIOUS
    <3> QED BY <2>1, <3>1, Zenon DEF IsFlattening
  <2>3. \A i \in 1 .. n + 1 : i # 1 => i - 1 \in 1 .. n
    OBVIOUS
  <2>4. g = [i \in 1 .. n + 1 |-> IF i = 1 THEN seqs[1] ELSE g[i - 1] \o seqs[i]]
    <3> SUFFICES ASSUME NEW i \in 1 .. n + 1, i # 1 PROVE g[i - 1] = f[i - 1]
      OBVIOUS
    <3> QED BY <2>2, <2>3
  <2>5. IsFlattening(g, seqs, n + 1)
    BY <2>4 DEF IsFlattening
  <2> QED BY <2>5
<1> HIDE DEF T
<1>3. \A n \in Nat : n \in T
  BY <1>1, <1>2, Induction
<1> QED BY <1>3 DEF T

\* It satisfies the equation that defines it.
LEMMA FlatteningAt ==
    ASSUME NEW f, NEW seqs, NEW n \in Nat, IsFlattening(f, seqs, n), NEW i \in 1 .. n
    PROVE  /\ i = 1 => f[i] = seqs[1]
           /\ i # 1 => f[i] = f[i - 1] \o seqs[i]
BY Zenon DEF IsFlattening

\* The same, for the next one.
LEMMA FlatteningNext ==
    ASSUME NEW S, NEW seqs \in Seq(Seq(S)), NEW f, IsFlattening(f, seqs, Len(seqs))
    PROVE  \A i \in Nat : i + 1 \in 1 .. Len(seqs) =>
             /\ i + 1 = 1 => f[i + 1] = seqs[1]
             /\ i + 1 # 1 => f[i + 1] = f[i] \o seqs[i + 1]
<1> DEFINE n == Len(seqs)
<1> SUFFICES ASSUME NEW i \in Nat, i + 1 \in 1 .. n
             PROVE  /\ i + 1 = 1 => f[i + 1] = seqs[1]
                    /\ i + 1 # 1 => f[i + 1] = f[i] \o seqs[i + 1]
  OBVIOUS
<1>1. ASSUME NEW j \in 1 .. n
      PROVE  /\ j = 1 => f[j] = seqs[1]
             /\ j # 1 => f[j] = f[j - 1] \o seqs[j]
  <2>1. n \in Nat
    BY LenProperties
  <2> QED BY <2>1, FlatteningAt
<1>2. (i + 1) - 1 = i
  OBVIOUS
<1> QED BY <1>1, <1>2

\* What FlattenSeq returns is the last value of such a function.
LEMMA FlattenSeqIsIts ==
    ASSUME NEW S, NEW seqs \in Seq(Seq(S)), seqs # <<>>
    PROVE  \E f : IsFlattening(f, seqs, Len(seqs)) /\ FlattenSeq(seqs) = f[Len(seqs)]
<1> DEFINE Is(f) == f = [i \in 1 .. Len(seqs) |-> IF i = 1 THEN seqs[1] ELSE f[i - 1] \o seqs[i]]
           chosen == CHOOSE f : Is(f)
<1>1. Len(seqs) \in Nat /\ Len(seqs) # 0
  BY EmptySeq, LenProperties
<1>2. \E f : Is(f)
  BY <1>1, FlatteningExists DEF IsFlattening
<1>3. Is(chosen)
  <2> HIDE DEF Is
  <2> QED BY <1>2
<1>4. FlattenSeq(seqs) = chosen[Len(seqs)]
  BY <1>1, Zenon DEF FlattenSeq
<1> QED BY <1>3, <1>4 DEF IsFlattening

\* Sequences that start alike are flattened alike, into sequences.
LEMMA FlatteningsAgree ==
    ASSUME NEW S, NEW s \in Seq(Seq(S)), NEW t \in Seq(Seq(S)),
           NEW f, IsFlattening(f, s, Len(s)), NEW g, IsFlattening(g, t, Len(t)),
           NEW k \in Nat, k <= Len(s), k <= Len(t), \A i \in 1 .. k : s[i] = t[i]
    PROVE  \A i \in 1 .. k : f[i] = g[i] /\ f[i] \in Seq(S)
<1>0. \A i \in Nat :
        /\ i + 1 \in 1 .. Len(s) =>
             /\ i + 1 = 1 => f[i + 1] = s[1]
             /\ i + 1 # 1 => f[i + 1] = f[i] \o s[i + 1]
        /\ i + 1 \in 1 .. Len(t) =>
             /\ i + 1 = 1 => g[i + 1] = t[1]
             /\ i + 1 # 1 => g[i + 1] = g[i] \o t[i + 1]
  <2>2. \A i \in Nat : i + 1 \in 1 .. Len(s) =>
             /\ i + 1 = 1 => f[i + 1] = s[1]
             /\ i + 1 # 1 => f[i + 1] = f[i] \o s[i + 1]
    BY FlatteningNext
  <2>3. \A i \in Nat : i + 1 \in 1 .. Len(t) =>
             /\ i + 1 = 1 => g[i + 1] = t[1]
             /\ i + 1 # 1 => g[i + 1] = g[i] \o t[i + 1]
    BY FlatteningNext
  <2> QED BY <2>2, <2>3, Zenon
<1> DEFINE T == {n \in Nat : \A i \in 1 .. k : i <= n => f[i] = g[i] /\ f[i] \in Seq(S)}
<1>1. 0 \in T
  OBVIOUS
<1>2. ASSUME NEW n \in Nat, n \in T PROVE n + 1 \in T
  <2> SUFFICES ASSUME n + 1 \in 1 .. k
               PROVE  f[n + 1] = g[n + 1] /\ f[n + 1] \in Seq(S)
    BY <1>2
  <2>1. n + 1 \in 1 .. Len(s) /\ n + 1 \in 1 .. Len(t) /\ s[n + 1] = t[n + 1]
        /\ s[n + 1] \in Seq(S)
    <3>1. Len(s) \in Nat /\ Len(t) \in Nat
      BY LenProperties
    <3>2. n + 1 \in 1 .. Len(s) /\ n + 1 \in 1 .. Len(t)
      BY <3>1
    <3> HIDE DEF T
    <3>3. s[n + 1] \in Seq(S)
      BY <3>2, ElementOfSeq
    <3> QED BY <3>2, <3>3
  <2> HIDE DEF T
  <2>2. /\ n + 1 = 1 => f[n + 1] = s[1] /\ g[n + 1] = t[1]
        /\ n + 1 # 1 => f[n + 1] = f[n] \o s[n + 1] /\ g[n + 1] = g[n] \o t[n + 1]
    BY <1>0, <2>1, Zenon
  <2>3. CASE n = 0
    <3>1. f[n + 1] = s[n + 1] /\ g[n + 1] = t[n + 1]
      BY <2>2, <2>3
    <3> QED BY <2>1, <3>1, Zenon
  <2>4. CASE n # 0
    <3>1. n \in 1 .. k /\ f[n] = g[n] /\ f[n] \in Seq(S)
      BY <1>2, <2>4 DEF T
    <3>2. n + 1 # 1
      BY <2>4
    <3>3. f[n + 1] = f[n] \o s[n + 1] /\ g[n + 1] = g[n] \o t[n + 1]
      BY <2>2, <3>2, Zenon
    <3> QED BY <2>1, <3>1, <3>3, ConcatProperties, Zenon
  <2> QED BY <2>3, <2>4
<1> HIDE DEF T
<1>3. \A n \in Nat : n \in T
  BY <1>1, <1>2, Induction
<1>4. k \in T /\ \A i \in 1 .. k : i <= k
  BY <1>3
<1> QED BY <1>4, Zenon DEF T

\* A sequence alone is flattened into itself, and whatever comes last comes last.
LEMMA FlattenLast ==
    ASSUME NEW S, NEW seqs \in Seq(Seq(S)), seqs # <<>>
    PROVE  /\ FlattenSeq(seqs) \in Seq(S)
           /\ Len(seqs) = 1 => FlattenSeq(seqs) = seqs[1]
           /\ \A other \in Seq(Seq(S)) :
                 (/\ other # <<>> /\ Len(other) + 1 = Len(seqs)
                  /\ \A i \in 1 .. Len(other) : other[i] = seqs[i])
                 => FlattenSeq(seqs) = FlattenSeq(other) \o seqs[Len(seqs)]
<1> DEFINE n == Len(seqs)
<1>1. n \in Nat /\ n # 0
  BY EmptySeq, LenProperties
<1>2. PICK f : IsFlattening(f, seqs, n) /\ FlattenSeq(seqs) = f[n]
  BY FlattenSeqIsIts
<1>3. f[n] \in Seq(S)
  <2>1. n <= n /\ n \in 1 .. n
    BY <1>1
  <2> QED BY <1>1, <1>2, <2>1, FlatteningsAgree, Zenon
<1>4. (n = 1 => f[n] = seqs[1]) /\ (n # 1 => f[n] = f[n - 1] \o seqs[n])
  <2>1. n \in 1 .. n
    BY <1>1
  <2> QED BY <1>1, <1>2, <2>1, FlatteningAt, Zenon
<1>5. ASSUME NEW other \in Seq(Seq(S)), other # <<>>, Len(other) + 1 = Len(seqs),
             \A i \in 1 .. Len(other) : other[i] = seqs[i]
      PROVE  FlattenSeq(seqs) = FlattenSeq(other) \o seqs[n]
  <2>1. PICK g : IsFlattening(g, other, Len(other)) /\ FlattenSeq(other) = g[Len(other)]
    BY <1>5, FlattenSeqIsIts
  <2>2. n - 1 = Len(other) /\ Len(other) \in Nat /\ Len(other) # 0 /\ n # 1
    <3>1. Len(other) \in Nat /\ Len(other) # 0
      BY <1>5, EmptySeq, LenProperties
    <3>2. n = Len(other) + 1
      BY <1>5
    <3> HIDE DEF n
    <3> QED BY <3>1, <3>2
  <2> DEFINE m == Len(other)
  <2>3. /\ IsFlattening(g, other, Len(other)) /\ IsFlattening(f, seqs, Len(seqs))
        /\ m \in Nat /\ m <= Len(other) /\ m <= Len(seqs)
        /\ \A i \in 1 .. m : other[i] = seqs[i]
    BY <1>2, <1>5, <2>1, <2>2
  <2>4. m \in 1 .. m
    BY <2>2
  <2> HIDE DEF m
  <2>5. \A i \in 1 .. m : g[i] = f[i] /\ g[i] \in Seq(S)
    BY <1>5, <2>3, FlatteningsAgree
  <2>6. g[Len(other)] = f[n - 1]
    BY <2>2, <2>4, <2>5 DEF m
  <2> QED BY <1>2, <1>4, <2>1, <2>2, <2>6
<1> QED BY <1>2, <1>3, <1>4, <1>5

\* Sequences of one element each make a sequence of as many.
LEMMA FlattenSingles ==
    ASSUME NEW S
    PROVE  \A n \in Nat : \A single \in [1 .. n -> S] :
             FlattenSeq([k \in 1 .. n |-> <<single[k]>>]) = single
<1> DEFINE Is(n) == \A single \in [1 .. n -> S] : FlattenSeq([k \in 1 .. n |-> <<single[k]>>]) = single
           T == {n \in Nat : Is(n)}
<1>1. 0 \in T
  <2> SUFFICES ASSUME NEW single \in [1 .. 0 -> S]
               PROVE  FlattenSeq([k \in 1 .. 0 |-> <<single[k]>>]) = single
    OBVIOUS
  <2> DEFINE pieces == [k \in 1 .. 0 |-> <<single[k]>>]
  <2>1. pieces = <<>> /\ Len(pieces) = 0 /\ single = <<>>
    OBVIOUS
  <2> HIDE DEF pieces
  <2>2. FlattenSeq(pieces) = <<>>
    BY <2>1, Zenon DEF FlattenSeq
  <2> QED BY <2>1, <2>2 DEF pieces
<1>2. ASSUME NEW n \in Nat, n \in T PROVE n + 1 \in T
  <2> SUFFICES ASSUME NEW single \in [1 .. n + 1 -> S]
               PROVE  FlattenSeq([k \in 1 .. n + 1 |-> <<single[k]>>]) = single
    OBVIOUS
  <2> DEFINE before == [k \in 1 .. n |-> single[k]]
             pieces == [k \in 1 .. n + 1 |-> <<single[k]>>]
             others == [k \in 1 .. n |-> <<before[k]>>]
  <2>1. before \in [1 .. n -> S] /\ before \in Seq(S) /\ Len(before) = n
    OBVIOUS
  <2>2. FlattenSeq(others) = before
    BY <1>2, <2>1
  <2>3. \A k \in 1 .. n + 1 : <<single[k]>> \in Seq(S)
    OBVIOUS
  <2>4. pieces \in Seq(Seq(S)) /\ Len(pieces) = n + 1 /\ pieces[n + 1] = <<single[n + 1]>>
    BY <2>3
  <2>5. others \in Seq(Seq(S)) /\ Len(others) = n /\ \A k \in 1 .. n : others[k] = pieces[k]
    <3>1. \A k \in 1 .. n : before[k] = single[k] /\ k \in 1 .. n + 1
      OBVIOUS
    <3>2. \A k \in 1 .. n : others[k] = <<single[k]>> /\ others[k] \in Seq(S)
      BY <2>3, <3>1
    <3> HIDE DEF before
    <3> QED BY <3>1, <3>2
  <2>6. single[n + 1] \in S /\ single \in Seq(S) /\ Len(single) = n + 1
    OBVIOUS
  <2>7. \A k \in 1 .. n : before[k] = single[k]
    OBVIOUS
  <2> HIDE DEF before, pieces, others, T
  <2>8. pieces # <<>>
    BY <2>4
  <2>9. CASE n = 0
    <3>1. FlattenSeq(pieces) = pieces[1]
      BY <2>4, <2>8, <2>9, FlattenLast
    <3>2. single = <<single[1]>>
      BY <2>6, <2>9
    <3> QED BY <2>4, <2>9, <3>1, <3>2 DEF pieces
  <2>10. CASE n # 0
    <3>1. others # <<>> /\ Len(others) + 1 = Len(pieces) /\ \A i \in 1 .. Len(others) : pieces[i] = others[i]
      BY <2>4, <2>5, <2>10
    <3>2. FlattenSeq(pieces) = FlattenSeq(others) \o pieces[Len(pieces)]
      BY <2>4, <2>5, <2>8, <3>1, FlattenLast
    <3>3. FlattenSeq(pieces) = before \o <<single[n + 1]>>
      BY <2>2, <2>4, <3>2
    <3>4. before \o <<single[n + 1]>> = single
      BY <2>1, <2>6, <2>7
    <3> QED BY <3>3, <3>4 DEF pieces
  <2> QED BY <2>9, <2>10
<1> HIDE DEF T
<1>3. \A n \in Nat : n \in T
  BY <1>1, <1>2, Induction
<1> QED BY <1>3 DEF T

-----------------------------------------------------------------------------
(* Hooks and rounds *)

\* The identifiers of the workers are those of functions called on all of them.
LEMMA HealthyInOrder ==
    ASSUME EvaluationTypes
    PROVE  /\ InOrderOf(healthy) \in Seq(healthy) /\ Len(InOrderOf(healthy)) \in Nat
           /\ \A i, j \in 1 .. Len(InOrderOf(healthy)) :
                 InOrderOf(healthy)[i] = InOrderOf(healthy)[j] => i = j
<1>1. healthy \in SUBSET Nat /\ IsFiniteSet(healthy)
  BY FS_Subset DEF EvaluationTypes
<1>2. /\ InOrderOf(healthy) \in Seq(healthy)
      /\ \A i, j \in 1 .. Len(InOrderOf(healthy)) : i < j => InOrderOf(healthy)[i] < InOrderOf(healthy)[j]
  BY <1>1, InOrderIs
<1>3. Len(InOrderOf(healthy)) \in Nat
  BY <1>2, LenProperties
<1>4. \A i \in 1 .. Len(InOrderOf(healthy)) : InOrderOf(healthy)[i] \in Nat
  <2> TAKE i \in 1 .. Len(InOrderOf(healthy))
  <2>1. InOrderOf(healthy)[i] \in healthy
    BY <1>2, ElementOfSeq
  <2> QED
    BY <1>1, <2>1
<1>5. ASSUME NEW i \in 1 .. Len(InOrderOf(healthy)), NEW j \in 1 .. Len(InOrderOf(healthy)),
             InOrderOf(healthy)[i] = InOrderOf(healthy)[j]
      PROVE  i = j
  <2>1. ~(i < j)
    BY <1>2, <1>4, <1>5
  <2>2. ~(j < i)
    BY <1>2, <1>4, <1>5
  <2> QED
    BY <1>3, <2>1, <2>2
<1> QED
  BY <1>2, <1>3, <1>5

\* The selected workers are the first ones, each once.
LEMMA SelectedAre ==
    ASSUME EvaluationTypes, Delta \in Int, Delta > 0
    PROVE  /\ Selected \in Seq(healthy) /\ Len(Selected) \in Nat /\ DOMAIN Selected = 1 .. Len(Selected)
           /\ Len(Selected) = IF Len(InOrderOf(healthy)) <= Delta THEN Len(InOrderOf(healthy)) ELSE Delta
           /\ \A k \in DOMAIN Selected :
                 /\ k \in 1 .. Len(InOrderOf(healthy)) /\ Selected[k] = InOrderOf(healthy)[k]
                 /\ Selected[k] \in healthy
           /\ \A i, j \in DOMAIN Selected : Selected[i] = Selected[j] => i = j
<1> DEFINE ids == InOrderOf(healthy)
           n == Len(ids)
           m == IF n <= Delta THEN n ELSE Delta
<1>1. ids \in Seq(healthy) /\ n \in Nat /\ \A i, j \in 1 .. n : ids[i] = ids[j] => i = j
  BY HealthyInOrder
<1>2. Selected = SubSeq(ids, 1, Min({n, Delta}))
  BY DEF Selected
<1> HIDE DEF n
<1>3. Min({n, Delta}) = m
  BY <1>1 DEF Min
<1>4. m \in Nat /\ m <= n
  BY <1>1
<1> HIDE DEF m, ids
<1>5. \A i \in 1 .. m : ids[i] \in healthy /\ i \in 1 .. n
  <2> TAKE i \in 1 .. m
  <2>1. i \in 1 .. n
    BY <1>1, <1>4
  <2> QED
    BY <1>1, <2>1, ElementOfSeq DEF n
<1>6. 1 \in Int /\ m \in Int /\ \A i \in 1 .. m : ids[i] \in healthy
  BY <1>4, <1>5
<1>7. /\ SubSeq(ids, 1, m) \in Seq(healthy)
      /\ Len(SubSeq(ids, 1, m)) = IF 1 <= m THEN m - 1 + 1 ELSE 0
      /\ \A i \in 1 .. m - 1 + 1 : SubSeq(ids, 1, m)[i] = ids[1 + i - 1]
  BY <1>6, SubSeqProperties
<1> DEFINE s == SubSeq(ids, 1, m)
<1>8. Selected = s
  BY <1>2, <1>3
<1> HIDE DEF s
<1>9. s \in Seq(healthy) /\ Len(s) = m
  BY <1>4, <1>7 DEF s
<1>10. DOMAIN s = 1 .. m
  BY <1>9, LenProperties
<1>11. \A i \in 1 .. m : s[i] = ids[i]
  <2> TAKE i \in 1 .. m
  <2>1. i \in 1 .. m - 1 + 1 /\ 1 + i - 1 = i
    BY <1>4
  <2> QED
    BY <1>7, <2>1 DEF s
<1>12. \A i, j \in 1 .. m : s[i] = s[j] => i = j
  BY <1>1, <1>5, <1>11
<1>13. \A k \in DOMAIN s : k \in 1 .. n /\ s[k] = ids[k] /\ s[k] \in healthy
  BY <1>5, <1>10, <1>11
<1> QED
  BY <1>4, <1>8, <1>9, <1>10, <1>12, <1>13 DEF n, m, ids

\* The logs of the environments of a worker, when it has one.
LEMMA LogsAtOne ==
    ASSUME NEW iter, NEW num
    PROVE  LogsAt(<<iter, num, 1>>, 1) = <<<<iter, num, 1>>>>
<1>1. LogsAt(<<iter, num, 1>>, 1) = [e \in 1 .. 1 |-> <<iter, num, e>>]
  BY DEF LogsAt
<1>2. \A e \in 1 .. 1 : <<iter, num, e>> = <<iter, num, 1>>
  OBVIOUS
<1> QED
  BY <1>1, <1>2

\* An episode of a worker.
LEMMA WithEpisodeIs ==
    ASSUME OneEnv, NEW state \in States, NEW episode \in Logs
    PROVE  /\ WithEpisode(state, episode, EvaluationEnvs) \in States
           /\ WithEpisode(state, episode, EvaluationEnvs).hook = state.hook
           /\ state.hook => WithEpisode(state, episode, EvaluationEnvs).log_paths = <<episode>>
           /\ ~state.hook => WithEpisode(state, episode, EvaluationEnvs) = state
<1>1. PICK iter \in Nat, num \in Nat : episode = <<iter, num, 1>>
  BY DEF Logs
<1>2. LogsAt(episode, EvaluationEnvs) = <<episode>>
  BY <1>1, LogsAtOne DEF OneEnv
<1> QED
  BY <1>2 DEF WithEpisode, States

\* The hook of a worker is toggled.
LEMMA ToggledIs ==
    ASSUME NEW state \in States
    PROVE  /\ Toggled(state) \in States
           /\ Toggled(state).hook = ~state.hook /\ Toggled(state).log_paths = state.log_paths
BY DEF Toggled, States

\* An episode is known by the iteration and a number.
LEMMA EpisodeIs ==
    ASSUME EvaluationTypes, OneEnv, NEW k \in Nat, NEW env \in 1 .. EvaluationEnvs
    PROVE  Episode(k, env) \in Logs
<1>1. Len(evaluation.episodes) \in Nat
  BY LenProperties DEF EvaluationTypes
<1> QED
  BY <1>1 DEF Episode, Logs, EvaluationTypes, OneEnv

\* How many episodes are missing is a number.
LEMMA DeltaIs ==
    ASSUME EvaluationTypes
    PROVE  Delta \in Int /\ Len(evaluation.logs) \in Nat /\ Len(evaluation.episodes) \in Nat
           /\ Delta = EvaluationDuration - Len(evaluation.logs) /\ EvaluationDuration \in Nat
<1>1. Len(evaluation.logs) \in Nat /\ Len(evaluation.episodes) \in Nat
  BY LenProperties DEF EvaluationTypes
<1> QED
  BY <1>1, TrainingAssumption DEF Delta

\* The hooks of some workers are toggled.
LEMMA ToggledOnIs ==
    ASSUME EvaluationTypes, NEW workers, NEW w \in DOMAIN callbacks
    PROVE  /\ DOMAIN ToggledOn(workers) = DOMAIN callbacks
           /\ ToggledOn(workers) \in [DOMAIN callbacks -> States]
           /\ ToggledOn(workers)[w].hook = IF w \in workers THEN ~callbacks[w].hook ELSE callbacks[w].hook
           /\ ToggledOn(workers)[w].log_paths = callbacks[w].log_paths
<1>1. \A v \in DOMAIN callbacks : callbacks[v] \in States
  BY DEF EvaluationTypes
<1>2. \A v \in DOMAIN callbacks :
         /\ Toggled(callbacks[v]) \in States
         /\ Toggled(callbacks[v]).hook = ~callbacks[v].hook
         /\ Toggled(callbacks[v]).log_paths = callbacks[v].log_paths
  BY <1>1, ToggledIs
<1>3. ToggledOn(workers) = [v \in DOMAIN callbacks |-> IF v \in workers THEN Toggled(callbacks[v]) ELSE callbacks[v]]
  BY DEF ToggledOn
<1> QED
  BY <1>1, <1>2, <1>3

-----------------------------------------------------------------------------
(* The steps of an evaluation *)

\* Outside of an evaluation nothing changes what it left.
LEMMA ElsewhereKept ==
    ASSUME KeptInv, UNCHANGED <<callbacks, healthy, evaluation, kept>>,
           iteration' \in Nat, disturbed => disturbed',
           disturbed' \/ (pc \notin {"local", "rounds", "logs", "end"} /\ pc' \notin {"local", "rounds", "logs", "end"})
    PROVE  KeptInv'
<1>1. EvaluationTypes'
  BY DEF KeptInv, EvaluationTypes
<1>2. CASE disturbed'
  BY <1>1, <1>2 DEF KeptInv
<1>3. CASE ~disturbed'
  <2>1. /\ ~disturbed /\ HooksAreOn /\ RoundsMatch /\ PathsFollowEpisodes
        /\ pc \notin {"local", "rounds", "logs", "end"} /\ pc' \notin {"local", "rounds", "logs", "end"}
    BY <1>3 DEF KeptInv
  <2>2. InEvaluation = FALSE /\ InEvaluation' = FALSE
    BY <2>1 DEF InEvaluation
  <2>3. HooksAreOn'
    BY <2>1, <2>2 DEF HooksAreOn
  <2>4. RoundsMatch'
    BY <2>1 DEF RoundsMatch
  <2>5. PathsFollowEpisodes'
    BY <1>3, <2>1 DEF PathsFollowEpisodes
  <2> QED
    BY <1>1, <2>3, <2>4, <2>5 DEF KeptInv
<1> QED
  BY <1>2, <1>3

\* Nothing was done yet by an evaluation that starts.
LEMMA NoEvaluationIs ==
    /\ NoEvaluation.episodes = <<>> /\ NoEvaluation.logs = <<>>
    /\ NoEvaluation.episodes \in Seq(Logs) /\ NoEvaluation.logs \in Seq(Logs)
    /\ NoEvaluation = [episodes |-> NoEvaluation.episodes, logs |-> NoEvaluation.logs]
BY DEF NoEvaluation

\* The hooks are toggled on all the workers that are healthy.
LEMMA StartEvaluationKept ==
    ASSUME KeptInv, StartEvaluation
    PROVE  KeptInv'
<1>1. EvaluationTypes
  BY DEF KeptInv
<1> DEFINE on == {Local} \cup healthy
<1>2. /\ pc = "evaluate" /\ callbacks' = ToggledOn(on) /\ evaluation' = NoEvaluation
      /\ UNCHANGED <<healthy, kept, iteration>>
  BY DEF StartEvaluation
<1>3. /\ DOMAIN callbacks' = DOMAIN callbacks
      /\ callbacks' \in [DOMAIN callbacks -> States]
      /\ \A w \in DOMAIN callbacks :
            /\ callbacks'[w].hook = IF w \in on THEN ~callbacks[w].hook ELSE callbacks[w].hook
            /\ callbacks'[w].log_paths = callbacks[w].log_paths
  <2>1. Local \in DOMAIN callbacks
    BY <1>1 DEF EvaluationTypes
  <2>2. /\ DOMAIN ToggledOn(on) = DOMAIN callbacks
        /\ ToggledOn(on) \in [DOMAIN callbacks -> States]
    BY <1>1, <2>1, ToggledOnIs
  <2>3. ASSUME NEW w \in DOMAIN callbacks
        PROVE  /\ ToggledOn(on)[w].hook = IF w \in on THEN ~callbacks[w].hook ELSE callbacks[w].hook
               /\ ToggledOn(on)[w].log_paths = callbacks[w].log_paths
    BY <1>1, ToggledOnIs
  <2> HIDE DEF on
  <2> QED
    BY <1>2, <2>2, <2>3
<1>4. EvaluationTypes'
  BY <1>1, <1>2, <1>3, NoEvaluationIs DEF EvaluationTypes
<1>5. CASE disturbed'
  BY <1>4, <1>5 DEF KeptInv
<1>6. CASE ~disturbed'
  <2>1. /\ disturbed' = disturbed
        /\ \/ pc' = "local" /\ Remotes = {}
           \/ pc' = "rounds" /\ healthy # {}
           \/ pc' = "result" /\ Remotes # {} /\ healthy = {}
    BY DEF StartEvaluation
  <2>2. HooksAreOn /\ PathsFollowEpisodes /\ ~disturbed
    BY <1>6, <2>1 DEF KeptInv
  <2>3. InEvaluation = FALSE /\ InEvaluation' = (pc' # "result")
    BY <1>2, <2>1 DEF InEvaluation
  <2>4. Local \in DOMAIN callbacks /\ healthy \subseteq DOMAIN callbacks \ {Local}
    BY <1>1 DEF EvaluationTypes
  <2>5. \A w \in healthy : callbacks'[w].hook = InEvaluation'
    <3>1. \A w \in healthy : callbacks[w].hook = FALSE /\ w \in on
      BY <2>2, <2>3 DEF HooksAreOn
    <3>2. healthy # {} => InEvaluation' = TRUE
      BY <2>1, <2>3
    <3> QED
      BY <1>3, <2>4, <3>1, <3>2
  <2>6. HooksAreOn'
    <3>1. pc' = "local" => DOMAIN callbacks' = {Local}
      BY <1>3, <2>1, <2>4 DEF Remotes
    <3>2. ASSUME DOMAIN callbacks' = {Local}
          PROVE  callbacks'[Local].hook = InEvaluation' /\ callbacks'[Local].log_paths = Nil
      <4>1. Remotes = {} /\ healthy = {} /\ callbacks[Local].hook = FALSE /\ callbacks[Local].log_paths = Nil
        <5>1. DOMAIN callbacks = {Local}
          BY <1>3, <3>2
        <5>2. Remotes = {} /\ healthy = {}
          BY <2>4, <5>1 DEF Remotes
        <5>3. callbacks[Local].hook = InEvaluation /\ callbacks[Local].log_paths = Nil
          BY <2>2, <5>1 DEF HooksAreOn
        <5> QED
          BY <2>3, <5>2, <5>3
      <4>2. callbacks'[Local].hook = TRUE /\ callbacks'[Local].log_paths = Nil
        BY <1>3, <2>4, <4>1
      <4>3. InEvaluation' = TRUE
        BY <2>1, <2>3, <4>1
      <4> QED
        BY <4>2, <4>3
    <3> QED
      BY <1>2, <2>5, <3>1, <3>2 DEF HooksAreOn
  <2>7. evaluation'.episodes = <<>> /\ evaluation'.logs = <<>>
    BY <1>2, NoEvaluationIs
  <2>8. LogsMatch'
    BY <2>7 DEF LogsMatch
  <2>9. RoundsMatch'
    BY <2>1, <2>7, <2>8 DEF RoundsMatch
  <2>10. PathsFollowEpisodes'
    BY <1>2, <1>6, <2>2 DEF PathsFollowEpisodes
  <2> QED
    BY <1>4, <2>6, <2>9, <2>10 DEF KeptInv
<1> QED
  BY <1>5, <1>6

\* The local worker toggles a hook that is already there: until an evaluation was disturbed, it
\* has no log to give.
LEMMA LocalKept ==
    ASSUME KeptInv, OneEnv, EvaluateLocally
    PROVE  KeptInv'
<1>1. EvaluationTypes
  BY DEF KeptInv
<1> DEFINE state == callbacks[Local]
<1>2. /\ pc = "local" /\ pc' \in {"end", "idle"} /\ UNCHANGED <<healthy, kept, iteration, disturbed>>
      /\ \E envs \in [1 .. EvaluationDuration -> 1 .. EvaluationEnvs] :
            LET episodes == [k \in DOMAIN envs |-> Episode(k, envs[k])]
                run == LocalEvaluation(state, episodes, EvaluationEnvs)
            IN  \/ /\ \A k \in DOMAIN episodes : IsOneLog(run.paths[k])
                   /\ callbacks' = [callbacks EXCEPT ![Local] = run.after]
                   /\ evaluation' = [episodes |-> episodes, logs |-> [k \in DOMAIN episodes |-> run.paths[k][1]]]
                \/ /\ callbacks' = [callbacks EXCEPT ![Local] = WithEpisode(Toggled(@), episodes[1], EvaluationEnvs)]
                   /\ pc' = "idle" /\ UNCHANGED evaluation
  BY DEF EvaluateLocally
<1>3. PICK envs \in [1 .. EvaluationDuration -> 1 .. EvaluationEnvs] :
         LET episodes == [k \in DOMAIN envs |-> Episode(k, envs[k])]
             run == LocalEvaluation(state, episodes, EvaluationEnvs)
         IN  \/ /\ \A k \in DOMAIN episodes : IsOneLog(run.paths[k])
                /\ callbacks' = [callbacks EXCEPT ![Local] = run.after]
                /\ evaluation' = [episodes |-> episodes, logs |-> [k \in DOMAIN episodes |-> run.paths[k][1]]]
             \/ /\ callbacks' = [callbacks EXCEPT ![Local] = WithEpisode(Toggled(@), episodes[1], EvaluationEnvs)]
                /\ pc' = "idle" /\ UNCHANGED evaluation
  BY <1>2
<1> DEFINE episodes == [k \in DOMAIN envs |-> Episode(k, envs[k])]
           run == LocalEvaluation(state, episodes, EvaluationEnvs)
           logs == [k \in DOMAIN episodes |-> run.paths[k][1]]
           failed == WithEpisode(Toggled(state), episodes[1], EvaluationEnvs)
<1>4. \/ /\ \A k \in DOMAIN episodes : IsOneLog(run.paths[k])
         /\ callbacks' = [callbacks EXCEPT ![Local] = run.after]
         /\ evaluation' = [episodes |-> episodes, logs |-> logs]
      \/ callbacks' = [callbacks EXCEPT ![Local] = failed] /\ pc' = "idle" /\ UNCHANGED evaluation
  BY <1>3
<1>5. EvaluationDuration \in Nat /\ EvaluationDuration >= 1
  BY TrainingAssumption
<1>6. \A k \in 1 .. EvaluationDuration : Episode(k, envs[k]) \in Logs
  <2> TAKE k \in 1 .. EvaluationDuration
  <2>1. k \in Nat /\ envs[k] \in 1 .. EvaluationEnvs
    BY <1>5
  <2> QED
    BY <1>1, <2>1, EpisodeIs
<1>7. episodes \in Seq(Logs) /\ Len(episodes) = EvaluationDuration /\ DOMAIN episodes = 1 .. EvaluationDuration
  BY <1>5, <1>6
<1>8. \A k \in 1 .. EvaluationDuration : episodes[k] \in Logs
  BY <1>6
<1>9. Local \in DOMAIN callbacks /\ state \in States /\ callbacks \in [DOMAIN callbacks -> States]
  BY <1>1 DEF EvaluationTypes
<1>10. Toggled(state) \in States /\ Toggled(state).hook = ~state.hook /\ Toggled(state).log_paths = state.log_paths
  BY <1>9, ToggledIs
<1> HIDE DEF episodes, state
<1>11. \A k \in 1 .. EvaluationDuration : WithEpisode(Toggled(state), episodes[k], EvaluationEnvs) \in States
  <2> TAKE k \in 1 .. EvaluationDuration
  <2> QED
    BY <1>8, <1>10, WithEpisodeIs
<1>12. /\ run.paths = [k \in DOMAIN episodes |-> WithEpisode(Toggled(state), episodes[k], EvaluationEnvs).log_paths]
       /\ run.after = Toggled(WithEpisode(Toggled(state), episodes[Len(episodes)], EvaluationEnvs))
  BY DEF LocalEvaluation
<1> HIDE DEF run
<1>13. \A k \in 1 .. EvaluationDuration : run.paths[k] \in {Nil} \cup {<<log>> : log \in Logs}
  BY <1>7, <1>11, <1>12 DEF States
<1>14. failed \in States /\ run.after \in States
  <2>1. 1 \in 1 .. EvaluationDuration /\ EvaluationDuration \in 1 .. EvaluationDuration
    BY <1>5
  <2>2. WithEpisode(Toggled(state), episodes[Len(episodes)], EvaluationEnvs) \in States
    BY <1>7, <1>11, <2>1
  <2> QED
    BY <1>11, <1>12, <2>1, <2>2, ToggledIs
<1> HIDE DEF failed, logs
<1>15. EvaluationTypes'
  <2>1. callbacks' \in [DOMAIN callbacks -> States] /\ DOMAIN callbacks' = DOMAIN callbacks
    BY <1>4, <1>9, <1>14
  <2>2. /\ evaluation'.episodes \in Seq(Logs) /\ evaluation'.logs \in Seq(Logs)
        /\ evaluation' = [episodes |-> evaluation'.episodes, logs |-> evaluation'.logs]
    <3>1. CASE /\ \A k \in DOMAIN episodes : IsOneLog(run.paths[k])
               /\ evaluation' = [episodes |-> episodes, logs |-> logs]
      <4>1. \A k \in 1 .. EvaluationDuration : run.paths[k][1] \in Logs
        <5> TAKE k \in 1 .. EvaluationDuration
        <5>1. run.paths[k] # Nil
          BY <1>7, <3>1 DEF IsOneLog
        <5>2. PICK log \in Logs : run.paths[k] = <<log>>
          BY <1>13, <5>1
        <5> QED
          BY <5>2
      <4>2. logs \in Seq(Logs)
        BY <1>5, <1>7, <4>1 DEF logs
      <4> QED
        BY <1>7, <3>1, <4>2
    <3>2. CASE UNCHANGED evaluation
      BY <1>1, <3>2 DEF EvaluationTypes
    <3> QED
      BY <1>4, <3>1, <3>2
  <2> QED
    BY <1>1, <1>2, <2>1, <2>2 DEF EvaluationTypes
<1>16. CASE disturbed
  BY <1>2, <1>15, <1>16 DEF KeptInv
<1>17. CASE ~disturbed
  <2>1. HooksAreOn /\ PathsFollowEpisodes
    BY <1>17 DEF KeptInv
  <2>2. DOMAIN callbacks = {Local} /\ state.hook = TRUE /\ state.log_paths = Nil
    <3>1. InEvaluation = TRUE
      BY <1>2 DEF InEvaluation
    <3>2. DOMAIN callbacks = {Local} /\ callbacks[Local].hook = InEvaluation /\ callbacks[Local].log_paths = Nil
      BY <1>2, <2>1 DEF HooksAreOn
    <3> QED
      BY <3>1, <3>2 DEF state
  <2>3. Toggled(state).hook = FALSE /\ Toggled(state).log_paths = Nil
    BY <1>10, <2>2
  <2>4. 1 \in 1 .. EvaluationDuration /\ failed = Toggled(state)
    <3>1. 1 \in 1 .. EvaluationDuration
      BY <1>5
    <3>2. episodes[1] \in Logs /\ ~Toggled(state).hook
      BY <1>8, <2>3, <3>1
    <3> QED
      BY <1>10, <3>1, <3>2, WithEpisodeIs DEF failed
  <2>5. run.paths[1] = Nil
    BY <1>7, <1>12, <2>3, <2>4 DEF failed
  <2>6. callbacks' = [callbacks EXCEPT ![Local] = failed] /\ pc' = "idle" /\ UNCHANGED evaluation
    BY <1>4, <1>7, <2>4, <2>5 DEF IsOneLog
  <2>7. callbacks'[Local].hook = FALSE /\ callbacks'[Local].log_paths = Nil /\ DOMAIN callbacks' = {Local}
    BY <1>9, <2>2, <2>3, <2>4, <2>6
  <2>8. healthy' = {} /\ InEvaluation' = FALSE
    BY <1>1, <1>2, <2>2, <2>6 DEF EvaluationTypes, InEvaluation
  <2>9. HooksAreOn'
    BY <2>6, <2>7, <2>8 DEF HooksAreOn
  <2>10. RoundsMatch'
    BY <2>6 DEF RoundsMatch
  <2>11. PathsFollowEpisodes'
    BY <1>2, <2>1 DEF PathsFollowEpisodes
  <2> QED
    BY <1>15, <2>9, <2>10, <2>11 DEF KeptInv
<1> QED
  BY <1>16, <1>17

\* A policy that is evaluated alone: the hook is on during all the episodes.
LEMMA CheckpointKept ==
    ASSUME KeptInv, EvaluateCheckpoint
    PROVE  KeptInv'
<1> DEFINE episodes == [k \in 1 .. EvaluationDuration |-> <<Nil, k, 1>>]
           run == LocalEvaluation(NewCallbacks, episodes, 1)
<1>1. /\ pc = "idle" /\ UNCHANGED <<callbacks, healthy, evaluation, disturbed, pc, iteration>>
      /\ \E best, worst \in DOMAIN episodes :
            kept' = {[log |-> run.paths[i][1], episode |-> episodes[i]] : i \in {best, worst}}
  BY DEF EvaluateCheckpoint, trainVars
<1>2. \A k \in DOMAIN episodes :
         WithEpisode(Toggled(NewCallbacks), episodes[k], 1).log_paths = <<episodes[k]>>
  BY LogsAtOne DEF WithEpisode, Toggled, NewCallbacks
<1> HIDE DEF episodes
<1>3. run.paths = [k \in DOMAIN episodes |-> WithEpisode(Toggled(NewCallbacks), episodes[k], 1).log_paths]
  BY DEF LocalEvaluation
<1> HIDE DEF run
<1>4. \A i \in DOMAIN episodes : run.paths[i][1] = episodes[i]
  BY <1>2, <1>3
<1>5. \A entry \in kept' : entry.log = entry.episode
  BY <1>1, <1>4
<1>6. EvaluationTypes'
  BY <1>1 DEF KeptInv, EvaluationTypes
<1>7. CASE disturbed
  BY <1>1, <1>6, <1>7 DEF KeptInv
<1>8. CASE ~disturbed
  <2>1. InEvaluation = FALSE /\ InEvaluation' = FALSE
    BY <1>1 DEF InEvaluation
  <2>2. HooksAreOn'
    BY <1>1, <1>8, <2>1 DEF KeptInv, HooksAreOn
  <2>3. RoundsMatch'
    BY <1>1 DEF RoundsMatch
  <2>4. PathsFollowEpisodes'
    BY <1>5 DEF PathsFollowEpisodes
  <2> QED
    BY <1>6, <2>2, <2>3, <2>4 DEF KeptInv
<1> QED
  BY <1>7, <1>8

\* An episode on each of the selected workers.
LEMMA RoundIs ==
    ASSUME EvaluationTypes, OneEnv, RunRound
    PROVE  \E envs \in [DOMAIN Selected -> 1 .. EvaluationEnvs] :
             /\ DOMAIN callbacks' = DOMAIN callbacks
             /\ callbacks' \in [DOMAIN callbacks -> States]
             /\ \A w \in DOMAIN callbacks : callbacks'[w].hook = callbacks[w].hook
             /\ callbacks'[Local] = callbacks[Local]
             /\ \A k \in DOMAIN Selected :
                   /\ Episode(k, envs[k]) \in Logs
                   /\ callbacks[Selected[k]].hook => callbacks'[Selected[k]].log_paths = <<Episode(k, envs[k])>>
             /\ \/ /\ evaluation' = [evaluation EXCEPT !.episodes = @ \o [k \in DOMAIN Selected |-> Episode(k, envs[k])]]
                   /\ pc' = "logs"
                \/ evaluation' = evaluation /\ pc' = "end"
<1>1. Delta \in Int /\ Delta > 0
  BY DeltaIs DEF RunRound
<1>2. /\ Len(Selected) \in Nat /\ DOMAIN Selected = 1 .. Len(Selected)
      /\ \A k \in DOMAIN Selected : Selected[k] \in healthy
      /\ \A i, j \in DOMAIN Selected : Selected[i] = Selected[j] => i = j
  BY <1>1, SelectedAre, Zenon
<1>3. PICK envs \in [DOMAIN Selected -> 1 .. EvaluationEnvs] :
         LET episodes == [k \in DOMAIN Selected |-> Episode(k, envs[k])]
         IN  /\ callbacks' = [w \in DOMAIN callbacks |->
                   IF \E k \in DOMAIN Selected : Selected[k] = w
                   THEN WithEpisode(callbacks[w], episodes[CHOOSE k \in DOMAIN Selected : Selected[k] = w], EvaluationEnvs)
                   ELSE callbacks[w]]
             /\ \/ pc' = "logs" /\ evaluation' = [evaluation EXCEPT !.episodes = @ \o episodes]
                \/ pc' = "end" /\ evaluation' = evaluation
  BY DEF RunRound
<1> DEFINE episodes == [k \in DOMAIN Selected |-> Episode(k, envs[k])]
           place(w) == CHOOSE k \in DOMAIN Selected : Selected[k] = w
           C == [w \in DOMAIN callbacks |->
                    IF \E k \in DOMAIN Selected : Selected[k] = w
                    THEN WithEpisode(callbacks[w], episodes[place(w)], EvaluationEnvs)
                    ELSE callbacks[w]]
<1>4. /\ callbacks' = C
      /\ \/ evaluation' = [evaluation EXCEPT !.episodes = @ \o episodes] /\ pc' = "logs"
         \/ evaluation' = evaluation /\ pc' = "end"
  BY <1>3
<1>5. \A w \in DOMAIN callbacks : callbacks[w] \in States
  BY DEF EvaluationTypes
<1>6. \A k \in DOMAIN Selected : Episode(k, envs[k]) \in Logs
  <2> TAKE k \in DOMAIN Selected
  <2>1. k \in Nat /\ envs[k] \in 1 .. EvaluationEnvs
    BY <1>2
  <2> QED
    BY <2>1, EpisodeIs
<1>7. \A k \in DOMAIN Selected :
         episodes[k] \in Logs /\ place(Selected[k]) = k /\ episodes[k] = Episode(k, envs[k])
  BY <1>2, <1>6
<1>8. \A w \in DOMAIN callbacks :
         (\E k \in DOMAIN Selected : Selected[k] = w) => episodes[place(w)] \in Logs
  BY <1>7
<1> HIDE DEF place, episodes
<1>9. \A w \in DOMAIN callbacks : C[w] \in States /\ C[w].hook = callbacks[w].hook
  <2> TAKE w \in DOMAIN callbacks
  <2>1. CASE \E k \in DOMAIN Selected : Selected[k] = w
    <3>1. callbacks[w] \in States /\ episodes[place(w)] \in Logs
      BY <1>5, <1>8, <2>1
    <3>2. /\ WithEpisode(callbacks[w], episodes[place(w)], EvaluationEnvs) \in States
          /\ WithEpisode(callbacks[w], episodes[place(w)], EvaluationEnvs).hook = callbacks[w].hook
      BY <3>1, WithEpisodeIs
    <3> QED
      BY <2>1, <3>2
  <2>2. CASE ~ \E k \in DOMAIN Selected : Selected[k] = w
    BY <1>5, <2>2
  <2> QED
    BY <2>1, <2>2
<1>10. C[Local] = callbacks[Local]
  <2>1. Local \in DOMAIN callbacks /\ Local \notin healthy
    BY DEF EvaluationTypes
  <2> QED
    BY <1>2, <2>1
<1>11. ASSUME NEW k \in DOMAIN Selected, callbacks[Selected[k]].hook
       PROVE  C[Selected[k]].log_paths = <<Episode(k, envs[k])>>
  <2>1. Selected[k] \in DOMAIN callbacks
    BY <1>2 DEF EvaluationTypes
  <2>2. C[Selected[k]] = WithEpisode(callbacks[Selected[k]], episodes[k], EvaluationEnvs)
    BY <1>7, <2>1
  <2>3. callbacks[Selected[k]] \in States /\ episodes[k] \in Logs
    BY <1>5, <1>7, <2>1
  <2>4. WithEpisode(callbacks[Selected[k]], episodes[k], EvaluationEnvs).log_paths = <<episodes[k]>>
    BY <1>11, <2>3, WithEpisodeIs
  <2> QED
    BY <1>7, <2>2, <2>4
<1>12. C \in [DOMAIN callbacks -> States] /\ DOMAIN C = DOMAIN callbacks
  BY <1>9
<1> HIDE DEF C
<1>13. /\ DOMAIN callbacks' = DOMAIN callbacks /\ callbacks' \in [DOMAIN callbacks -> States]
       /\ \A w \in DOMAIN callbacks : callbacks'[w].hook = callbacks[w].hook
       /\ callbacks'[Local] = callbacks[Local]
  BY <1>4, <1>9, <1>10, <1>12, <1>5 DEF EvaluationTypes
<1>14. \A k \in DOMAIN Selected :
          /\ Episode(k, envs[k]) \in Logs
          /\ callbacks[Selected[k]].hook => callbacks'[Selected[k]].log_paths = <<Episode(k, envs[k])>>
  BY <1>4, <1>6, <1>11
<1> QED
  BY <1>4, <1>13, <1>14 DEF episodes

\* After a round, the logs of the selected workers are missing.
LEMMA RoundKept ==
    ASSUME KeptInv, OneEnv, RunRound
    PROVE  KeptInv'
<1>1. EvaluationTypes
  BY DEF KeptInv
<1>2. /\ pc = "rounds" /\ Delta > 0 /\ pc' \in {"logs", "end"}
      /\ UNCHANGED <<healthy, kept, disturbed, iteration>>
  BY DEF RunRound
<1>3. Delta \in Int
  BY <1>1, DeltaIs
<1>4. /\ Len(Selected) \in Nat /\ DOMAIN Selected = 1 .. Len(Selected)
      /\ \A k \in DOMAIN Selected : Selected[k] \in healthy
  BY <1>1, <1>2, <1>3, SelectedAre, Zenon
<1>5. PICK envs \in [DOMAIN Selected -> 1 .. EvaluationEnvs] :
         /\ DOMAIN callbacks' = DOMAIN callbacks
         /\ callbacks' \in [DOMAIN callbacks -> States]
         /\ \A w \in DOMAIN callbacks : callbacks'[w].hook = callbacks[w].hook
         /\ callbacks'[Local] = callbacks[Local]
         /\ \A k \in DOMAIN Selected :
               /\ Episode(k, envs[k]) \in Logs
               /\ callbacks[Selected[k]].hook => callbacks'[Selected[k]].log_paths = <<Episode(k, envs[k])>>
         /\ \/ /\ evaluation' = [evaluation EXCEPT !.episodes = @ \o [k \in DOMAIN Selected |-> Episode(k, envs[k])]]
               /\ pc' = "logs"
            \/ evaluation' = evaluation /\ pc' = "end"
  BY <1>1, RoundIs
<1> DEFINE ep == [k \in DOMAIN Selected |-> Episode(k, envs[k])]
<1>6. \A k \in 1 .. Len(Selected) : Episode(k, envs[k]) \in Logs
  BY <1>5, <1>4
<1>7. ep \in Seq(Logs) /\ Len(ep) = Len(Selected) /\ DOMAIN ep = DOMAIN Selected
  BY <1>4, <1>6
<1>8. /\ \A k \in DOMAIN Selected : ep[k] = Episode(k, envs[k])
      /\ \/ evaluation' = [evaluation EXCEPT !.episodes = @ \o ep] /\ pc' = "logs"
         \/ evaluation' = evaluation /\ pc' = "end"
  BY <1>5
<1> HIDE DEF ep
<1> DEFINE episodes == evaluation.episodes
           logs == evaluation.logs
<1>9. /\ episodes \in Seq(Logs) /\ logs \in Seq(Logs)
      /\ evaluation = [episodes |-> episodes, logs |-> logs]
      /\ Len(episodes) \in Nat /\ Len(logs) \in Nat
      /\ DOMAIN episodes = 1 .. Len(episodes) /\ DOMAIN logs = 1 .. Len(logs)
  BY <1>1, LenProperties DEF EvaluationTypes
<1>10. CASE evaluation' = evaluation /\ pc' = "end"
  <2>1. EvaluationTypes'
    BY <1>1, <1>2, <1>5, <1>10 DEF EvaluationTypes
  <2>2. CASE disturbed
    BY <1>2, <2>1, <2>2 DEF KeptInv
  <2>3. CASE ~disturbed
    <3>1. HooksAreOn /\ RoundsMatch /\ PathsFollowEpisodes
      BY <2>3 DEF KeptInv
    <3>2. InEvaluation = TRUE /\ InEvaluation' = TRUE
      BY <1>2, <1>10 DEF InEvaluation
    <3>3. HooksAreOn'
      BY <1>1, <1>2, <1>5, <1>10, <3>1, <3>2 DEF HooksAreOn, EvaluationTypes
    <3>4. LogsMatch'
      BY <1>2, <1>10, <3>1 DEF RoundsMatch, LogsMatch
    <3>5. RoundsMatch'
      BY <1>10, <3>4 DEF RoundsMatch
    <3>6. PathsFollowEpisodes'
      BY <1>2, <3>1 DEF PathsFollowEpisodes
    <3> QED
      BY <2>1, <3>3, <3>5, <3>6 DEF KeptInv
  <2> QED
    BY <2>2, <2>3
<1>11. CASE evaluation' = [evaluation EXCEPT !.episodes = @ \o ep] /\ pc' = "logs"
  <2>1. evaluation' = [episodes |-> episodes \o ep, logs |-> logs]
    BY <1>9, <1>11
  <2>2. evaluation'.episodes = episodes \o ep /\ evaluation'.logs = logs
    BY <2>1
  <2>3. /\ episodes \o ep \in Seq(Logs) /\ Len(episodes \o ep) = Len(episodes) + Len(ep)
        /\ \A i \in 1 .. Len(episodes) + Len(ep) :
              (episodes \o ep)[i] = IF i <= Len(episodes) THEN episodes[i] ELSE ep[i - Len(episodes)]
    BY <1>7, <1>9, ConcatProperties
  <2> DEFINE all == episodes \o ep
  <2> HIDE DEF episodes, logs
  <2>4. EvaluationTypes'
    BY <1>1, <1>2, <1>5, <1>9, <2>1, <2>2, <2>3 DEF EvaluationTypes
  <2>5. CASE disturbed
    BY <1>2, <2>4, <2>5 DEF KeptInv
  <2>6. CASE ~disturbed
    <3>1. HooksAreOn /\ RoundsMatch /\ PathsFollowEpisodes
      BY <2>6 DEF KeptInv
    <3>2. InEvaluation = TRUE /\ InEvaluation' = TRUE
      BY <1>2, <1>11 DEF InEvaluation
    <3>3. HooksAreOn'
      BY <1>1, <1>2, <1>5, <1>11, <3>1, <3>2 DEF HooksAreOn, EvaluationTypes
    <3>4. Len(logs) = Len(episodes)
      BY <1>2, <1>3, <3>1 DEF RoundsMatch, logs, episodes
    <3>5. \A k \in DOMAIN episodes \cap DOMAIN logs : logs[k] = episodes[k]
      BY <1>2, <3>1 DEF RoundsMatch, LogsMatch, logs, episodes
    <3> HIDE DEF all
    <3>6. all \in Seq(Logs) /\ Len(all) = Len(episodes) + Len(ep) /\ DOMAIN all = 1 .. Len(episodes) + Len(ep)
      BY <1>9, <1>7, <1>4, <2>3, LenProperties DEF all
    <3>60. \A i \in 1 .. Len(episodes) + Len(ep) :
              all[i] = IF i <= Len(episodes) THEN episodes[i] ELSE ep[i - Len(episodes)]
      BY <2>3 DEF all
    <3>7. \A i \in 1 .. Len(episodes) : all[i] = episodes[i]
      <4> TAKE i \in 1 .. Len(episodes)
      <4>1. i \in 1 .. Len(episodes) + Len(ep) /\ i <= Len(episodes)
        BY <1>4, <1>7, <1>9
      <4> QED
        BY <3>60, <4>1
    <3>8. \A k \in DOMAIN Selected : all[Len(episodes) + k] = Episode(k, envs[k])
      <4> TAKE k \in DOMAIN Selected
      <4> DEFINE i == Len(episodes) + k
      <4>1. i \in 1 .. Len(episodes) + Len(ep) /\ ~(i <= Len(episodes)) /\ i - Len(episodes) = k
        BY <1>4, <1>7, <1>9
      <4> HIDE DEF i
      <4>2. all[i] = ep[i - Len(episodes)]
        BY <3>60, <4>1
      <4>3. ep[i - Len(episodes)] = Episode(k, envs[k])
        BY <1>8, <4>1
      <4> QED
        BY <4>2, <4>3 DEF i
    <3>9. \A k \in DOMAIN all \cap DOMAIN logs : logs[k] = all[k]
      BY <1>9, <3>4, <3>5, <3>7
    <3>10. evaluation'.episodes = all /\ evaluation'.logs = logs
      BY <2>2 DEF all
    <3>11. LogsMatch'
      BY <3>9, <3>10 DEF LogsMatch
    <3>12. Selected' = Selected /\ Delta' = Delta
      BY <1>2, <3>10 DEF Selected, Delta, logs
    <3>13. \A k \in DOMAIN Selected : callbacks'[Selected[k]].log_paths = <<all[Len(logs) + k]>>
      <4> TAKE k \in DOMAIN Selected
      <4>1. Selected[k] \in healthy /\ Selected[k] \in DOMAIN callbacks
        BY <1>1, <1>4 DEF EvaluationTypes
      <4>2. callbacks[Selected[k]].hook
        BY <3>1, <3>2, <4>1 DEF HooksAreOn
      <4> QED
        BY <1>5, <3>4, <3>8, <4>2
    <3>14. Len(all) = Len(logs) + Len(Selected)
      BY <1>7, <3>4, <3>6
    <3>15. RoundsMatch'
      <4>1. pc' = "logs" /\ Delta' > 0
        BY <1>2, <1>11, <3>12
      <4>2. Len(evaluation'.episodes) = Len(evaluation'.logs) + Len(Selected')
        BY <3>10, <3>12, <3>14
      <4>3. \A k \in DOMAIN Selected' :
               callbacks'[Selected'[k]].log_paths = <<evaluation'.episodes[Len(evaluation'.logs) + k]>>
        BY <3>10, <3>12, <3>13
      <4> QED
        BY <3>11, <4>1, <4>2, <4>3 DEF RoundsMatch
    <3>16. PathsFollowEpisodes'
      BY <1>2, <3>1 DEF PathsFollowEpisodes
    <3> QED
      BY <2>4, <3>3, <3>15, <3>16 DEF KeptInv
  <2> QED
    BY <2>5, <2>6
<1> QED
  BY <1>8, <1>10, <1>11

\* The logs of all the workers, of which the selected ones come first.
LEMMA CollectKept ==
    ASSUME KeptInv, CollectLogs
    PROVE  KeptInv'
<1> DEFINE ids == InOrderOf(healthy)
           paths == [k \in DOMAIN ids |-> callbacks[ids[k]].log_paths]
           new == [k \in DOMAIN ids |-> callbacks[ids[k]].log_paths[1]]
           episodes == evaluation.episodes
           logs == evaluation.logs
<1>1. EvaluationTypes
  BY DEF KeptInv
<1>2. /\ ids \in Seq(healthy) /\ Len(ids) \in Nat /\ DOMAIN ids = 1 .. Len(ids)
  BY <1>1, HealthyInOrder, LenProperties
<1>3. ASSUME \A w \in healthy : callbacks[w].log_paths # Nil
      PROVE  /\ \A k \in 1 .. Len(ids) :
                   new[k] \in Logs /\ callbacks[ids[k]].log_paths = <<new[k]>>
             /\ FlattenSeq(paths) = new
  <2>1. \A k \in 1 .. Len(ids) : new[k] \in Logs /\ callbacks[ids[k]].log_paths = <<new[k]>>
    <3> TAKE k \in 1 .. Len(ids)
    <3>1. ids[k] \in healthy
      BY <1>2, ElementOfSeq
    <3>2. ids[k] \in DOMAIN callbacks
      BY <1>1, <3>1 DEF EvaluationTypes
    <3>3. callbacks[ids[k]] \in States
      BY <1>1, <3>2 DEF EvaluationTypes
    <3>4. PICK log \in Logs : callbacks[ids[k]].log_paths = <<log>>
      BY <1>3, <3>1, <3>3 DEF States
    <3>5. new[k] = callbacks[ids[k]].log_paths[1]
      BY <1>2
    <3> HIDE DEF new, ids
    <3> QED
      BY <3>4, <3>5
  <2>2. new \in [1 .. Len(ids) -> Logs]
    BY <1>2, <2>1
  <2>3. paths = [k \in 1 .. Len(ids) |-> <<new[k]>>]
    <3> HIDE DEF new
    <3> QED
      BY <1>2, <2>1
  <2> HIDE DEF ids, new, paths
  <2>4. FlattenSeq([k \in 1 .. Len(ids) |-> <<new[k]>>]) = new
    BY <1>2, <2>2, FlattenSingles
  <2> QED
    BY <2>1, <2>3, <2>4
<1>4. /\ pc = "logs"
      /\ UNCHANGED <<callbacks, healthy, kept, iteration>>
      /\ \/ /\ evaluation' = [evaluation EXCEPT !.logs = @ \o new] /\ pc' = "rounds" /\ UNCHANGED disturbed
            /\ \A k \in 1 .. Len(ids) : new[k] \in Logs /\ callbacks[ids[k]].log_paths = <<new[k]>>
         \/ disturbed' = TRUE /\ UNCHANGED evaluation
  <2>1. /\ pc = "logs"
        /\ UNCHANGED <<callbacks, healthy, kept, iteration>>
        /\ \/ /\ \A w \in healthy : callbacks[w].log_paths # Nil
              /\ evaluation' = [evaluation EXCEPT !.logs = @ \o FlattenSeq(paths)]
              /\ pc' = "rounds" /\ UNCHANGED disturbed
           \/ disturbed' = TRUE /\ UNCHANGED evaluation
    BY DEF CollectLogs
  <2> HIDE DEF paths, new, ids
  <2>2. CASE \A w \in healthy : callbacks[w].log_paths # Nil
    BY <1>3, <2>1, <2>2
  <2>3. CASE ~ \A w \in healthy : callbacks[w].log_paths # Nil
    BY <2>1, <2>3
  <2> QED
    BY <2>2, <2>3
<1>5. /\ episodes \in Seq(Logs) /\ logs \in Seq(Logs)
      /\ evaluation = [episodes |-> episodes, logs |-> logs]
      /\ Len(episodes) \in Nat /\ Len(logs) \in Nat
      /\ DOMAIN episodes = 1 .. Len(episodes) /\ DOMAIN logs = 1 .. Len(logs)
  BY <1>1, LenProperties DEF EvaluationTypes
<1>6. CASE disturbed'
  <2>1. CASE UNCHANGED evaluation
    BY <1>1, <1>4, <1>6, <2>1 DEF KeptInv, EvaluationTypes
  <2>2. CASE /\ evaluation' = [evaluation EXCEPT !.logs = @ \o new] /\ UNCHANGED disturbed
             /\ \A k \in 1 .. Len(ids) : new[k] \in Logs
    <3> HIDE DEF ids
    <3>2. new \in Seq(Logs)
      BY <1>2, <2>2
    <3> HIDE DEF new
    <3>3. logs \o new \in Seq(Logs)
      BY <1>5, <3>2, ConcatProperties
    <3>4. evaluation' = [episodes |-> episodes, logs |-> logs \o new]
      BY <1>5, <2>2
    <3>5. EvaluationTypes'
      BY <1>1, <1>4, <1>5, <3>3, <3>4 DEF EvaluationTypes
    <3> QED
      BY <1>6, <3>5 DEF KeptInv
  <2> HIDE DEF new, ids
  <2> QED
    BY <1>4, <2>1, <2>2
<1>7. CASE ~disturbed'
  <2>1. /\ evaluation' = [evaluation EXCEPT !.logs = @ \o new] /\ pc' = "rounds" /\ ~disturbed
        /\ \A k \in 1 .. Len(ids) : new[k] \in Logs /\ callbacks[ids[k]].log_paths = <<new[k]>>
    <3>1. ~(disturbed' = TRUE)
      BY <1>7
    <3> HIDE DEF new, ids
    <3> QED
      BY <1>4, <1>7, <3>1
  <2>2. HooksAreOn /\ RoundsMatch /\ PathsFollowEpisodes
    BY <2>1 DEF KeptInv
  <2> DEFINE m == Len(Selected)
  <2>4. Delta \in Int /\ Delta > 0 /\ EvaluationDuration \in Nat /\ Delta = EvaluationDuration - Len(logs)
    BY <1>1, <1>4, <2>2, DeltaIs DEF RoundsMatch
  <2>5. /\ m \in Nat /\ DOMAIN Selected = 1 .. m
        /\ m = IF Len(ids) <= Delta THEN Len(ids) ELSE Delta
        /\ \A k \in DOMAIN Selected : k \in 1 .. Len(ids) /\ Selected[k] = ids[k]
    BY <1>1, <2>4, SelectedAre
  <2>6. /\ Len(episodes) = Len(logs) + m
        /\ \A k \in DOMAIN Selected : callbacks[Selected[k]].log_paths = <<episodes[Len(logs) + k]>>
        /\ \A k \in DOMAIN episodes \cap DOMAIN logs : logs[k] = episodes[k]
    BY <1>4, <2>2 DEF RoundsMatch, LogsMatch
  <2> HIDE DEF m, ids
  <2>7. new \in Seq(Logs) /\ Len(new) = Len(ids)
    BY <1>2, <2>1
  <2>8. \A k \in 1 .. m : k \in 1 .. Len(ids) /\ new[k] = episodes[Len(logs) + k]
    <3> TAKE k \in 1 .. m
    <3>1. k \in DOMAIN Selected /\ k \in 1 .. Len(ids) /\ Selected[k] = ids[k]
      BY <2>5
    <3>2. callbacks[ids[k]].log_paths = <<new[k]>>
      BY <2>1, <3>1
    <3>3. callbacks[ids[k]].log_paths = <<episodes[Len(logs) + k]>>
      BY <2>6, <3>1
    <3> HIDE DEF new
    <3> QED
      BY <3>1, <3>2, <3>3
  <2> HIDE DEF new
  <2> DEFINE all == logs \o new
  <2>9. evaluation' = [episodes |-> episodes, logs |-> all]
    BY <1>5, <2>1
  <2>10. evaluation'.episodes = episodes /\ evaluation'.logs = all
    BY <2>9
  <2>11. /\ all \in Seq(Logs) /\ Len(all) = Len(logs) + Len(new)
         /\ \A i \in 1 .. Len(logs) + Len(new) :
               all[i] = IF i <= Len(logs) THEN logs[i] ELSE new[i - Len(logs)]
    BY <1>5, <2>7, ConcatProperties
  <2> HIDE DEF all, episodes, logs
  <2>12. DOMAIN all = 1 .. Len(logs) + Len(new)
    BY <2>11, LenProperties
  <2>13. EvaluationTypes'
    BY <1>1, <1>4, <1>5, <2>9, <2>10, <2>11 DEF EvaluationTypes
  <2>14. \A k \in DOMAIN episodes \cap DOMAIN all : all[k] = episodes[k]
    <3> TAKE k \in DOMAIN episodes \cap DOMAIN all
    <3>1. k \in 1 .. Len(logs) + m /\ k \in 1 .. Len(logs) + Len(new)
      BY <1>5, <2>6, <2>12
    <3>2. CASE k <= Len(logs)
      <4>1. k \in DOMAIN logs /\ k \in DOMAIN episodes
        BY <1>5, <3>1, <3>2
      <4> QED
        BY <2>6, <2>11, <3>1, <3>2, <4>1
    <3>3. CASE ~(k <= Len(logs))
      <4>1. k - Len(logs) \in 1 .. m /\ Len(logs) + (k - Len(logs)) = k
        BY <1>5, <2>5, <3>1, <3>3
      <4>2. all[k] = new[k - Len(logs)]
        BY <2>11, <3>1, <3>3
      <4>3. new[k - Len(logs)] = episodes[Len(logs) + (k - Len(logs))]
        BY <2>8, <4>1
      <4> QED
        BY <4>1, <4>2, <4>3
    <3> QED
      BY <3>2, <3>3
  <2>15. LogsMatch'
    BY <2>10, <2>14 DEF LogsMatch
  <2>16. \/ Len(all) = Len(episodes)
         \/ Len(all) > Len(episodes) /\ EvaluationDuration - Len(all) <= 0
    <3>1. Len(all) = Len(logs) + Len(ids) /\ Len(episodes) = Len(logs) + m
      BY <2>6, <2>7, <2>11
    <3>2. Len(ids) \in Nat
      BY <1>2
    <3>3. Len(logs) \in Nat /\ m \in Nat
      BY <1>5, <2>5
    <3>4. CASE m = Len(ids)
      BY <3>1, <3>4
    <3>5. CASE ~(Len(ids) <= Delta) /\ m = Delta
      <4>1. Delta \in Int /\ EvaluationDuration \in Nat /\ Delta = EvaluationDuration - Len(logs)
        BY <2>4
      <4> QED
        BY <3>1, <3>2, <3>3, <3>5, <4>1
    <3> QED
      BY <2>5, <3>4, <3>5
  <2>17. Delta' = EvaluationDuration - Len(all)
    BY <2>10 DEF Delta
  <2>18. RoundsMatch'
    BY <2>1, <2>10, <2>15, <2>16, <2>17 DEF RoundsMatch
  <2>19. InEvaluation = TRUE /\ InEvaluation' = TRUE
    BY <1>4, <2>1 DEF InEvaluation
  <2>20. HooksAreOn'
    BY <1>4, <2>1, <2>2, <2>19 DEF HooksAreOn
  <2>21. PathsFollowEpisodes'
    BY <1>4, <2>2 DEF PathsFollowEpisodes
  <2> QED
    BY <2>13, <2>18, <2>20, <2>21 DEF KeptInv
<1> QED
  BY <1>6, <1>7

\* There are enough logs.
LEMMA EndRoundsKept ==
    ASSUME KeptInv, EndRounds
    PROVE  KeptInv'
<1>1. /\ pc = "rounds" /\ pc' = "end"
      /\ UNCHANGED <<callbacks, healthy, evaluation, kept, disturbed, iteration>>
  BY DEF EndRounds, evalVars
<1>2. EvaluationTypes'
  BY <1>1 DEF KeptInv, EvaluationTypes
<1>3. InEvaluation = TRUE /\ InEvaluation' = TRUE
  BY <1>1 DEF InEvaluation
<1>4. CASE disturbed
  BY <1>1, <1>2, <1>4 DEF KeptInv
<1>5. CASE ~disturbed
  <2>1. HooksAreOn'
    BY <1>1, <1>3, <1>5 DEF KeptInv, HooksAreOn
  <2>2. LogsMatch'
    BY <1>1, <1>5 DEF KeptInv, RoundsMatch, LogsMatch
  <2>3. RoundsMatch'
    BY <1>1, <2>2 DEF RoundsMatch
  <2>4. PathsFollowEpisodes'
    BY <1>1, <1>5 DEF KeptInv, PathsFollowEpisodes
  <2> QED
    BY <1>2, <2>1, <2>3, <2>4 DEF KeptInv
<1> QED
  BY <1>4, <1>5

\* The best and the worst of the episodes.
LEMMA EndEvaluationKept ==
    ASSUME KeptInv, EndEvaluation
    PROVE  KeptInv'
<1> DEFINE on == {Local} \cup healthy
           n == Len(evaluation.episodes)
<1>1. EvaluationTypes
  BY DEF KeptInv
<1>2. /\ pc = "end" /\ pc' \in {"idle", "result"}
      /\ callbacks' = ToggledOn(on) /\ evaluation' = NoEvaluation
      /\ UNCHANGED <<healthy, disturbed, iteration>>
  BY DEF EndEvaluation
<1>3. \/ UNCHANGED kept
      \/ \E best, worst \in 1 .. n :
            /\ Moves(best, worst) \subseteq DOMAIN evaluation.logs
            /\ kept' = {[log |-> evaluation.logs[i], episode |-> evaluation.episodes[i]]
                          : i \in Moves(best, worst)}
  BY DEF EndEvaluation
<1>4. /\ DOMAIN callbacks' = DOMAIN callbacks
      /\ callbacks' \in [DOMAIN callbacks -> States]
      /\ \A w \in DOMAIN callbacks :
            /\ callbacks'[w].hook = IF w \in on THEN ~callbacks[w].hook ELSE callbacks[w].hook
            /\ callbacks'[w].log_paths = callbacks[w].log_paths
  <2>1. Local \in DOMAIN callbacks
    BY <1>1 DEF EvaluationTypes
  <2>2. /\ DOMAIN ToggledOn(on) = DOMAIN callbacks
        /\ ToggledOn(on) \in [DOMAIN callbacks -> States]
    BY <1>1, <2>1, ToggledOnIs
  <2>3. ASSUME NEW w \in DOMAIN callbacks
        PROVE  /\ ToggledOn(on)[w].hook = IF w \in on THEN ~callbacks[w].hook ELSE callbacks[w].hook
               /\ ToggledOn(on)[w].log_paths = callbacks[w].log_paths
    BY <1>1, ToggledOnIs
  <2> HIDE DEF on
  <2> QED
    BY <1>2, <2>2, <2>3
<1>5. EvaluationTypes'
  BY <1>1, <1>2, <1>4, NoEvaluationIs DEF EvaluationTypes
<1>6. CASE disturbed
  BY <1>2, <1>5, <1>6 DEF KeptInv
<1>7. CASE ~disturbed
  <2>1. HooksAreOn /\ RoundsMatch /\ PathsFollowEpisodes
    BY <1>7 DEF KeptInv
  <2>2. InEvaluation = TRUE /\ InEvaluation' = FALSE
    BY <1>2 DEF InEvaluation
  <2>3. Local \in DOMAIN callbacks /\ healthy \subseteq DOMAIN callbacks
    BY <1>1 DEF EvaluationTypes
  <2>4. \A w \in healthy : callbacks'[w].hook = FALSE
    BY <1>4, <2>1, <2>2, <2>3 DEF HooksAreOn
  <2>5. HooksAreOn'
    <3>1. DOMAIN callbacks' = {Local} => callbacks'[Local].hook = FALSE /\ callbacks'[Local].log_paths = Nil
      BY <1>4, <2>1, <2>2, <2>3 DEF HooksAreOn
    <3> QED
      BY <1>2, <2>2, <2>4, <3>1 DEF HooksAreOn
  <2>6. RoundsMatch'
    BY <1>2 DEF RoundsMatch
  <2>7. \A i \in DOMAIN evaluation.episodes \cap DOMAIN evaluation.logs :
           evaluation.logs[i] = evaluation.episodes[i]
    BY <1>2, <2>1 DEF RoundsMatch, LogsMatch
  <2>8. DOMAIN evaluation.episodes = 1 .. n
    BY <1>1, LenProperties DEF EvaluationTypes
  <2>9. PathsFollowEpisodes'
    <3>1. CASE UNCHANGED kept
      BY <1>2, <2>1, <3>1 DEF PathsFollowEpisodes
    <3>2. ASSUME NEW best \in 1 .. n, NEW worst \in 1 .. n,
                 Moves(best, worst) \subseteq DOMAIN evaluation.logs,
                 kept' = {[log |-> evaluation.logs[i], episode |-> evaluation.episodes[i]]
                            : i \in Moves(best, worst)}
          PROVE  \A entry \in kept' : entry.log = entry.episode
      <4>1. Moves(best, worst) \subseteq 1 .. n
        BY DEF Moves
      <4>2. \A i \in Moves(best, worst) : evaluation.logs[i] = evaluation.episodes[i]
        BY <2>7, <2>8, <3>2, <4>1
      <4> QED
        BY <3>2, <4>2
    <3> QED
      BY <1>3, <3>1, <3>2 DEF PathsFollowEpisodes
  <2> QED
    BY <1>5, <2>5, <2>6, <2>9 DEF KeptInv
<1> QED
  BY <1>6, <1>7

\* A worker that dies is not asked for anything any more; only between a round and the collection
\* of its logs is it missed.
LEMMA DeathKept ==
    ASSUME KeptInv, NEW w \in healthy, WorkerDies(w)
    PROVE  KeptInv'
<1>1. /\ healthy' = healthy \ {w} /\ disturbed' = (disturbed \/ pc = "logs")
      /\ UNCHANGED <<callbacks, evaluation, kept, pc, iteration>>
  BY DEF WorkerDies, trainVars
<1>2. EvaluationTypes'
  BY <1>1 DEF KeptInv, EvaluationTypes
<1>3. CASE disturbed \/ pc = "logs"
  BY <1>1, <1>2, <1>3 DEF KeptInv
<1>4. CASE ~(disturbed \/ pc = "logs")
  <2>1. InEvaluation' = InEvaluation /\ Delta' = Delta /\ ~disturbed /\ pc # "logs"
    BY <1>1, <1>4 DEF InEvaluation, Delta
  <2>2. HooksAreOn /\ RoundsMatch /\ PathsFollowEpisodes
    BY <2>1 DEF KeptInv
  <2>3. HooksAreOn'
    BY <1>1, <2>1, <2>2 DEF HooksAreOn
  <2>4. RoundsMatch'
    BY <1>1, <2>1, <2>2 DEF RoundsMatch, LogsMatch
  <2>5. PathsFollowEpisodes'
    BY <1>1, <2>2 DEF PathsFollowEpisodes
  <2> QED
    BY <1>2, <2>3, <2>4, <2>5 DEF KeptInv
<1> QED
  BY <1>3, <1>4

\* A new worker has new callbacks.
LEMMA RestoredKept ==
    ASSUME KeptInv, RestoreWorkers
    PROVE  KeptInv'
<1> DEFINE R == States
<1>1. EvaluationTypes
  BY DEF KeptInv
<1>2. /\ ~InEvaluation /\ healthy' = Remotes
      /\ callbacks' = [w \in DOMAIN callbacks |-> IF w \in Remotes \ healthy THEN NewCallbacks ELSE callbacks[w]]
      /\ UNCHANGED <<evaluation, kept, disturbed, pc, iteration>>
  BY DEF RestoreWorkers, trainVars
<1>3. NewCallbacks \in R /\ NewCallbacks.hook = FALSE
  BY DEF NewCallbacks, States
<1>4. \A w \in DOMAIN callbacks : callbacks[w] \in R
  BY <1>1 DEF EvaluationTypes
<1>5. callbacks' \in [DOMAIN callbacks -> R] /\ DOMAIN callbacks' = DOMAIN callbacks
  BY <1>2, <1>3, <1>4
<1>6. healthy' = DOMAIN callbacks \ {Local}
  BY <1>2 DEF Remotes
<1>7. EvaluationTypes'
  BY <1>1, <1>2, <1>5, <1>6 DEF EvaluationTypes
<1>8. CASE disturbed
  BY <1>2, <1>7, <1>8 DEF KeptInv
<1>9. CASE ~disturbed
  <2>1. HooksAreOn /\ InEvaluation = FALSE /\ InEvaluation' = FALSE
    BY <1>2, <1>9 DEF KeptInv, InEvaluation
  <2>2. \A w \in healthy' : callbacks'[w].hook = FALSE
    BY <1>1, <1>2, <1>3, <1>6, <2>1 DEF HooksAreOn, EvaluationTypes
  <2>3. callbacks'[Local] = callbacks[Local]
    BY <1>1, <1>2 DEF Remotes, EvaluationTypes
  <2>4. HooksAreOn'
    BY <1>2, <1>5, <2>1, <2>2, <2>3 DEF HooksAreOn
  <2>5. pc \notin {"local", "rounds", "logs", "end"}
    BY <1>2 DEF InEvaluation
  <2>6. RoundsMatch'
    BY <1>2, <2>5 DEF RoundsMatch
  <2>7. PathsFollowEpisodes'
    BY <1>2, <1>9 DEF KeptInv, PathsFollowEpisodes
  <2> QED
    BY <1>7, <2>4, <2>6, <2>7 DEF KeptInv
<1> QED
  BY <1>8, <1>9

\* A step of nobody changes nothing.
LEMMA UnchangedKept ==
    ASSUME KeptInv, UNCHANGED <<evalVars, trainVars>>
    PROVE  KeptInv'
<1>1. UNCHANGED <<callbacks, healthy, evaluation, kept, disturbed, pc, iteration>>
  BY DEF evalVars, trainVars
<1>2. EvaluationTypes'
  BY <1>1 DEF KeptInv, EvaluationTypes
<1>3. InEvaluation' = InEvaluation /\ Delta' = Delta /\ Selected' = Selected
  BY <1>1 DEF InEvaluation, Delta, Selected
<1>4. HooksAreOn => HooksAreOn'
  BY <1>1, <1>3 DEF HooksAreOn
<1>5. LogsMatch => LogsMatch'
  BY <1>1 DEF LogsMatch
<1>6. RoundsMatch => RoundsMatch'
  BY <1>1, <1>3, <1>5 DEF RoundsMatch
<1>7. PathsFollowEpisodes => PathsFollowEpisodes'
  BY <1>1 DEF PathsFollowEpisodes
<1> QED
  BY <1>1, <1>2, <1>4, <1>6, <1>7 DEF KeptInv

\* The loop of `train' runs no evaluation of its own; Ctrl-C in one disturbs it.
LEMMA TrainingKept ==
    ASSUME KeptInv,
           \/ Learn \/ Schedule \/ LogResult \/ Finish \/ Train \/ Interrupt
           \/ \E chosen \in Configurations : BuildPolicy(chosen)
           \/ \E worker \in Workers : LoseWorker(worker) \/ \E e \in EnvIds : Sample(worker, e)
    PROVE  KeptInv'
<1>1. iteration \in Nat
  BY DEF KeptInv, EvaluationTypes
<1>2. CASE Learn
  <2>1. UNCHANGED <<callbacks, healthy, evaluation, kept, disturbed, iteration>> /\ pc = "train" /\ pc' \in {"evaluate", "result"}
    BY <1>2 DEF Learn, evalVars
  <2> QED
    BY <1>1, <2>1, ElsewhereKept
<1>3. CASE Schedule
  <2>1. UNCHANGED <<callbacks, healthy, evaluation, kept, disturbed>> /\ pc = "result" /\ pc' = "log" /\ iteration' = iteration + 1
    BY <1>3 DEF Schedule, evalVars
  <2> QED
    BY <1>1, <2>1, ElsewhereKept
<1>4. CASE LogResult
  <2>1. UNCHANGED <<callbacks, healthy, evaluation, kept, disturbed, iteration>> /\ pc = "log" /\ pc' \in {"finish", "train"}
    BY <1>4 DEF LogResult, evalVars
  <2> QED
    BY <1>1, <2>1, ElsewhereKept
<1>5. CASE Finish
  <2>1. UNCHANGED <<callbacks, healthy, evaluation, kept, disturbed, iteration>> /\ pc = "finish" /\ pc' = "idle"
    BY <1>5 DEF Finish, evalVars
  <2> QED
    BY <1>1, <2>1, ElsewhereKept
<1>6. CASE Train
  <2>1. UNCHANGED <<callbacks, healthy, evaluation, kept, disturbed, iteration>> /\ pc = "idle" /\ pc' = "train"
    BY <1>6 DEF Train, evalVars
  <2> QED
    BY <1>1, <2>1, ElsewhereKept
<1>7. CASE Interrupt
  <2>1. /\ UNCHANGED <<callbacks, healthy, evaluation, kept, iteration>> /\ pc' = "finish"
        /\ disturbed' = (disturbed \/ InEvaluation)
    BY <1>7 DEF Interrupt
  <2>2. disturbed' \/ pc \notin {"local", "rounds", "logs", "end"}
    BY <2>1 DEF InEvaluation
  <2> QED
    BY <1>1, <2>1, <2>2, ElsewhereKept
<1>8. ASSUME NEW chosen \in Configurations, BuildPolicy(chosen) PROVE KeptInv'
  <2>1. UNCHANGED <<callbacks, healthy, evaluation, kept, disturbed, iteration, pc>> /\ pc = "idle"
    BY <1>8 DEF BuildPolicy, evalVars
  <2> QED
    BY <1>1, <2>1, ElsewhereKept
<1>9. ASSUME NEW worker \in Workers, LoseWorker(worker) PROVE KeptInv'
  <2>1. UNCHANGED <<callbacks, healthy, evaluation, kept, disturbed, iteration, pc>> /\ pc = "train"
    BY <1>9 DEF LoseWorker, trainVars
  <2> QED
    BY <1>1, <2>1, ElsewhereKept
<1>10. ASSUME NEW worker \in Workers, NEW e \in EnvIds, Sample(worker, e) PROVE KeptInv'
  BY <1>10, UnchangedKept DEF Sample
<1> QED
  BY <1>2, <1>3, <1>4, <1>5, <1>6, <1>7, <1>8, <1>9, <1>10

\* The invariant is inductive.
LEMMA KeptInvHolds == TrainingSpec => [](OneEnv => KeptInv)
<1>1. TrainingInit => KeptInv
  <2> SUFFICES ASSUME TrainingInit PROVE KeptInv
    OBVIOUS
  <2>1. /\ pc = "idle" /\ iteration = 0 /\ healthy \in SomeRemotes
        /\ callbacks = [w \in {Local} \cup healthy |-> NewCallbacks]
        /\ evaluation = NoEvaluation /\ kept = {} /\ disturbed = FALSE
    BY DEF TrainingInit
  <2>2. healthy \subseteq Nat \ {0} /\ IsFiniteSet(healthy) /\ Local = 0
    BY <2>1, TrainingAssumption DEF Local
  <2>3. IsFiniteSet({Local} \cup healthy)
    BY <2>2, FS_AddElement
  <2>4. DOMAIN callbacks = {Local} \cup healthy
    BY <2>1
  <2>5. /\ NewCallbacks \in States
        /\ NewCallbacks.hook = FALSE /\ NewCallbacks.log_paths = Nil
    BY DEF NewCallbacks, States
  <2>6. \A w \in DOMAIN callbacks : callbacks[w] = NewCallbacks
    BY <2>1
  <2>7. callbacks \in [DOMAIN callbacks -> States]
    BY <2>1, <2>5
  <2>8. EvaluationTypes
    BY <2>1, <2>2, <2>3, <2>4, <2>7, NoEvaluationIs DEF EvaluationTypes
  <2>9. InEvaluation = FALSE
    BY <2>1 DEF InEvaluation
  <2>10. HooksAreOn
    BY <2>1, <2>2, <2>4, <2>5, <2>6, <2>9 DEF HooksAreOn
  <2>11. RoundsMatch
    BY <2>1 DEF RoundsMatch
  <2> QED
    BY <2>1, <2>8, <2>10, <2>11 DEF KeptInv, PathsFollowEpisodes
<1>2. OneEnv /\ KeptInv /\ [TrainingNext]_policyVars => KeptInv'
  <2> SUFFICES ASSUME OneEnv, KeptInv, [TrainingNext]_policyVars PROVE KeptInv'
    OBVIOUS
  <2>1. CASE StartEvaluation
    BY <2>1, StartEvaluationKept
  <2>2. CASE EvaluateLocally
    BY <2>2, LocalKept
  <2>3. CASE RunRound
    BY <2>3, RoundKept
  <2>4. CASE CollectLogs
    BY <2>4, CollectKept
  <2>5. CASE EndRounds
    BY <2>5, EndRoundsKept
  <2>6. CASE EndEvaluation
    BY <2>6, EndEvaluationKept
  <2>7. CASE RestoreWorkers
    BY <2>7, RestoredKept
  <2>8. CASE EvaluateCheckpoint
    BY <2>8, CheckpointKept
  <2>9. ASSUME NEW w \in healthy, WorkerDies(w) PROVE KeptInv'
    BY <2>9, DeathKept
  <2>10. CASE \/ Learn \/ Schedule \/ LogResult \/ Finish \/ Train \/ Interrupt
              \/ \E chosen \in Configurations : BuildPolicy(chosen)
              \/ \E worker \in Workers : LoseWorker(worker) \/ \E e \in EnvIds : Sample(worker, e)
    BY <2>10, TrainingKept
  <2>11. CASE UNCHANGED policyVars
    BY <2>11, UnchangedKept DEF policyVars
  <2> QED
    BY <2>1, <2>2, <2>3, <2>4, <2>5, <2>6, <2>7, <2>8, <2>9, <2>10, <2>11 DEF TrainingNext
<1>3. (OneEnv => KeptInv) /\ [TrainingNext]_policyVars => (OneEnv => KeptInv)'
  BY <1>2 DEF OneEnv
<1> QED
  BY <1>1, <1>3, PTL DEF TrainingSpec

\* The logs that are kept as those of the best and of the worst episode are those of these
\* episodes, for any sets of remote workers of one environment each, any number of episodes,
\* whichever workers are late and die, until hooks are left or a worker dies between a round and
\* the collection of its logs.
THEOREM KeptLogsOfEpisodes == TrainingSpec => []KeptLogsAreTheirs
<1>1. (OneEnv => KeptInv) => KeptLogsAreTheirs
  BY DEF OneEnv, KeptInv, KeptLogsAreTheirs, PathsFollowEpisodes
<1> QED
  BY <1>1, KeptInvHolds, PTL

-----------------------------------------------------------------------------
(* Sums *)

IsSumming(h, val, T) ==
    \A s \in SUBSET T :
        LET x == CHOOSE y \in s : TRUE
        IN  h[s] = IF s = {} THEN 0 ELSE val[x] + h[s \ {x}]

Values(val, T) == \A x \in T : val[x] \in Nat

\* The sum over a set is the last value of a function of its subsets.
LEMMA SummingExists ==
    ASSUME NEW T, IsFiniteSet(T), NEW val, Values(val, T)
    PROVE  \E h \in [SUBSET T -> Nat] : IsSumming(h, val, T)
<1> DEFINE pick == [s \in SUBSET T |-> CHOOSE y \in s : TRUE]
           F == [x \in T |-> [n \in Nat |-> val[x] + n]]
<1>1. F \in [T -> [Nat -> Nat]]
  BY DEF Values
<1>2. \A s \in SUBSET T : s # {} => pick[s] \in s
  OBVIOUS
<1>3. \A x \in T, n \in Nat : F[x][n] = val[x] + n
  OBVIOUS
<1>4. \A s \in SUBSET T : pick[s] = CHOOSE y \in s : TRUE
  OBVIOUS
<1> HIDE DEF F, pick
<1>5. PICK h \in [SUBSET T -> Nat] : IsIteration(h, T, 0, pick, F)
  <2>1. 0 \in Nat
    OBVIOUS
  <2>2. HasIteration(T, Nat, 0, pick, F)
    BY <1>1, <1>2, <2>1, IterationExists, Zenon
  <2> QED BY <2>2 DEF HasIteration
<1>6. IsSumming(h, val, T)
  <2> SUFFICES ASSUME NEW s \in SUBSET T, NEW x, x = CHOOSE y \in s : TRUE
               PROVE  h[s] = IF s = {} THEN 0 ELSE val[x] + h[s \ {x}]
    BY DEF IsSumming
  <2>1. x = pick[s] /\ h[s] = IF s = {} THEN 0 ELSE F[x][h[s \ {x}]]
    <3>1. x = pick[s]
      BY <1>4
    <3> QED BY <1>5, <3>1 DEF IsIteration
  <2>2. s # {} => x \in T /\ h[s \ {x}] \in Nat
    BY <1>2, <2>1
  <2> QED BY <1>3, <2>1, <2>2
<1> QED BY <1>6

LEMMA SumIsIts ==
    ASSUME NEW T, IsFiniteSet(T), NEW val, Values(val, T)
    PROVE  \E h : IsSumming(h, val, T) /\ SumFunctionOnSet(val, T) = h[T]
<1> DEFINE Is(h) == h = [s \in SUBSET T |->
                           IF s = {} THEN 0
                           ELSE LET x == CHOOSE y \in s : TRUE IN val[x] + h[s \ {x}]]
           chosen == CHOOSE h : Is(h)
<1>1. \E h : Is(h)
  <2>1. PICK h \in [SUBSET T -> Nat] : IsSumming(h, val, T)
    BY SummingExists
  <2>2. Is(h)
    BY <2>1 DEF IsSumming
  <2> QED BY <2>2
<1>2. Is(chosen)
  <2> HIDE DEF Is
  <2> QED BY <1>1
<1>3. SumFunctionOnSet(val, T) = chosen[T]
  BY Zenon DEF SumFunctionOnSet, FoldFunctionOnSet, MapThenFoldSet
<1>4. IsSumming(chosen, val, T)
  <2> HIDE DEF chosen
  <2> QED BY <1>2 DEF IsSumming
<1> QED BY <1>3, <1>4

LEMMA SummingsAgree ==
    ASSUME NEW T, IsFiniteSet(T), NEW S \in SUBSET T, NEW val, Values(val, T),
           NEW h, IsSumming(h, val, T), NEW g, IsSumming(g, val, S)
    PROVE  \A s \in SUBSET S : h[s] = g[s] /\ h[s] \in Nat
<1> DEFINE Good == {s \in SUBSET S : h[s] = g[s] /\ h[s] \in Nat}
<1>1. ASSUME NEW s \in SUBSET S, \A x \in s : s \ {x} \in Good PROVE s \in Good
  <2> DEFINE x == CHOOSE y \in s : TRUE
  <2>1. /\ h[s] = IF s = {} THEN 0 ELSE val[x] + h[s \ {x}]
        /\ g[s] = IF s = {} THEN 0 ELSE val[x] + g[s \ {x}]
    BY DEF IsSumming
  <2>2. s # {} => x \in s /\ x \in T /\ val[x] \in Nat
    BY DEF Values
  <2>3. s # {} => h[s \ {x}] = g[s \ {x}] /\ h[s \ {x}] \in Nat
    BY <1>1, <2>2
  <2> HIDE DEF x
  <2>4. h[s] = g[s] /\ h[s] \in Nat
    BY <2>1, <2>2, <2>3
  <2> QED BY <2>4
<1>2. IsFiniteSet(S)
  BY FS_Subset
<1> HIDE DEF Good
<1>3. \A s \in SUBSET S : s \in Good
  BY <1>1, <1>2, SubsetInduction
<1> QED BY <1>3 DEF Good

\* A number, and the sum is that of any of the elements and of the others.
LEMMA SumFirst ==
    ASSUME NEW T, IsFiniteSet(T), NEW val, Values(val, T)
    PROVE  /\ SumFunctionOnSet(val, T) \in Nat
           /\ T = {} => SumFunctionOnSet(val, T) = 0
           /\ T # {} => LET x == CHOOSE y \in T : TRUE
                        IN  SumFunctionOnSet(val, T) = val[x] + SumFunctionOnSet(val, T \ {x})
<1>1. PICK h : IsSumming(h, val, T) /\ SumFunctionOnSet(val, T) = h[T]
  BY SumIsIts
<1>2. \A s \in SUBSET T : h[s] \in Nat
  BY <1>1, SummingsAgree
<1>3. T = {} => h[T] = 0
  BY <1>1 DEF IsSumming
<1>4. ASSUME T # {}, NEW x, x = CHOOSE y \in T : TRUE
      PROVE  h[T] = val[x] + SumFunctionOnSet(val, T \ {x})
  <2>1. IsFiniteSet(T \ {x}) /\ Values(val, T \ {x}) /\ T \ {x} \in SUBSET T
    BY FS_RemoveElement DEF Values
  <2>2. PICK g : IsSumming(g, val, T \ {x}) /\ SumFunctionOnSet(val, T \ {x}) = g[T \ {x}]
    BY <2>1, SumIsIts
  <2>3. h[T \ {x}] = g[T \ {x}]
    BY <1>1, <2>1, <2>2, SummingsAgree
  <2>4. h[T] = val[x] + h[T \ {x}]
    BY <1>1, <1>4 DEF IsSumming
  <2> QED BY <2>2, <2>3, <2>4
<1> QED BY <1>1, <1>2, <1>3, <1>4

LEMMA SumAny ==
    ASSUME NEW T, IsFiniteSet(T), NEW val, Values(val, T)
    PROVE  \A s \in SUBSET T : \A y \in s :
             SumFunctionOnSet(val, s) = val[y] + SumFunctionOnSet(val, s \ {y})
<1> DEFINE Sum(s) == SumFunctionOnSet(val, s)
           Good == {s \in SUBSET T : \A y \in s : Sum(s) = val[y] + Sum(s \ {y})}
<1>1. ASSUME NEW s \in SUBSET T
      PROVE  /\ Sum(s) \in Nat
             /\ s # {} => LET x == CHOOSE y \in s : TRUE IN Sum(s) = val[x] + Sum(s \ {x})
  <2>1. IsFiniteSet(s) /\ Values(val, s)
    BY FS_Subset DEF Values
  <2> QED BY <2>1, SumFirst
<1>2. ASSUME NEW s \in SUBSET T, \A x \in s : s \ {x} \in Good, NEW y \in s
      PROVE  Sum(s) = val[y] + Sum(s \ {y})
  <2> DEFINE x == CHOOSE z \in s : TRUE
  <2>1. x \in s /\ Sum(s) = val[x] + Sum(s \ {x})
    BY <1>1
  <2> HIDE DEF x
  <2>2. CASE x = y
    BY <2>1, <2>2
  <2>3. CASE x # y
    <3>1. s \ {x} \in Good /\ s \ {y} \in Good /\ y \in s \ {x} /\ x \in s \ {y}
      BY <1>2, <2>1, <2>3
    <3>2. Sum(s \ {x}) = val[y] + Sum((s \ {x}) \ {y}) /\ Sum(s \ {y}) = val[x] + Sum((s \ {y}) \ {x})
      BY <3>1
    <3>3. (s \ {x}) \ {y} = (s \ {y}) \ {x} /\ (s \ {y}) \ {x} \in SUBSET T
      OBVIOUS
    <3>4. Sum((s \ {y}) \ {x}) \in Nat /\ val[x] \in Nat /\ val[y] \in Nat
      BY <1>1, <2>1, <3>3 DEF Values
    <3> DEFINE rest == Sum((s \ {y}) \ {x})
    <3>5. Sum(s \ {x}) = val[y] + rest /\ Sum(s \ {y}) = val[x] + rest
      BY <3>2, <3>3
    <3> HIDE DEF rest, Sum
    <3> QED BY <2>1, <3>4, <3>5 DEF rest
  <2> QED BY <2>2, <2>3
<1>3. ASSUME NEW s \in SUBSET T, \A x \in s : s \ {x} \in Good PROVE s \in Good
  BY <1>2, <1>3
<1> HIDE DEF Good
<1>4. \A s \in SUBSET T : s \in Good
  BY <1>3, SubsetInduction
<1> QED BY <1>4 DEF Good

\* One element more.
LEMMA SumMore ==
    ASSUME NEW T, IsFiniteSet(T), NEW y, y \notin T, NEW val, Values(val, T \cup {y})
    PROVE  SumFunctionOnSet(val, T \cup {y}) = val[y] + SumFunctionOnSet(val, T)
<1>1. IsFiniteSet(T \cup {y})
  BY FS_AddElement
<1>2. \A z \in T \cup {y} : SumFunctionOnSet(val, T \cup {y}) = val[z] + SumFunctionOnSet(val, (T \cup {y}) \ {z})
  BY <1>1, SumAny
<1>3. (T \cup {y}) \ {y} = T
  OBVIOUS
<1> QED BY <1>2, <1>3

\* The sum depends on the values of the elements only.
LEMMA SumSame ==
    ASSUME NEW T, IsFiniteSet(T), NEW val, Values(val, T), NEW other, \A x \in T : other[x] = val[x]
    PROVE  SumFunctionOnSet(other, T) = SumFunctionOnSet(val, T)
<1> DEFINE Good == {s \in SUBSET T : SumFunctionOnSet(other, s) = SumFunctionOnSet(val, s)}
<1>1. ASSUME NEW s \in SUBSET T, \A x \in s : s \ {x} \in Good PROVE s \in Good
  <2>1. IsFiniteSet(s) /\ Values(val, s) /\ Values(other, s)
    BY FS_Subset DEF Values
  <2>2. CASE s = {}
    <3>1. SumFunctionOnSet(other, s) = 0 /\ SumFunctionOnSet(val, s) = 0
      BY <2>1, <2>2, SumFirst
    <3> QED BY <3>1
  <2>3. CASE s # {}
    <3>1. PICK x \in s : TRUE
      BY <2>3
    <3>2. /\ SumFunctionOnSet(val, s) = val[x] + SumFunctionOnSet(val, s \ {x})
          /\ SumFunctionOnSet(other, s) = other[x] + SumFunctionOnSet(other, s \ {x})
      BY <2>1, <3>1, SumAny
    <3>3. SumFunctionOnSet(other, s \ {x}) = SumFunctionOnSet(val, s \ {x})
      BY <1>1, <3>1
    <3> QED BY <3>1, <3>2, <3>3
  <2> QED BY <2>2, <2>3
<1> HIDE DEF Good
<1>2. \A s \in SUBSET T : s \in Good
  BY <1>1, SubsetInduction
<1> QED BY <1>2 DEF Good

\* That of a sequence is over its positions.
LEMMA SumOfSequence ==
    ASSUME NEW seq PROVE FoldSeq(+, 0, seq) = SumFunctionOnSet(seq, DOMAIN seq)
BY DEF FoldSeq, FoldFunction, SumFunctionOnSet

-----------------------------------------------------------------------------
(* The slices of a mirrored observation *)

\* The sum of the first fields.
UpTo(k) == SumFunctionOnSet(ObsFields, 1 .. k)
Slice(k) == (UpTo(k - 1) + 1) .. (UpTo(k - 1) + ObsFields[k])

LEMMA FieldsUpTo ==
    /\ Len(ObsFields) \in Nat /\ DOMAIN ObsFields = 1 .. Len(ObsFields)
    /\ UpTo(0) = 0
    /\ \A k \in 0 .. Len(ObsFields) : IsFiniteSet(1 .. k) /\ Values(ObsFields, 1 .. k) /\ UpTo(k) \in Nat
    /\ \A k \in Nat : k + 1 \in 1 .. Len(ObsFields) =>
          UpTo(k + 1) = UpTo(k) + ObsFields[k + 1] /\ ObsFields[k + 1] \in Nat \ {0}
<1>1. Len(ObsFields) \in Nat /\ DOMAIN ObsFields = 1 .. Len(ObsFields)
      /\ \A k \in 1 .. Len(ObsFields) : ObsFields[k] \in Nat \ {0}
  BY PpoAssumption, LenProperties, ElementOfSeq
<1>2. ASSUME NEW k \in 0 .. Len(ObsFields)
      PROVE  IsFiniteSet(1 .. k) /\ Values(ObsFields, 1 .. k) /\ UpTo(k) \in Nat
  <2>1. IsFiniteSet(1 .. k)
    BY FS_Interval
  <2>2. Values(ObsFields, 1 .. k)
    BY <1>1 DEF Values
  <2>3. UpTo(k) \in Nat
    BY <2>1, <2>2, SumFirst DEF UpTo
  <2> QED BY <2>1, <2>2, <2>3
<1>3. UpTo(0) = 0
  <2>1. 1 .. 0 = {} /\ 0 \in 0 .. Len(ObsFields)
    BY <1>1
  <2> QED BY <1>2, <2>1, SumFirst DEF UpTo
<1>4. ASSUME NEW k \in Nat, k + 1 \in 1 .. Len(ObsFields)
      PROVE  UpTo(k + 1) = UpTo(k) + ObsFields[k + 1] /\ ObsFields[k + 1] \in Nat \ {0}
  <2> DEFINE T == 1 .. k
             y == k + 1
  <2>1. 1 .. (k + 1) = T \cup {y} /\ y \notin T /\ k \in 0 .. Len(ObsFields) /\ k + 1 \in 0 .. Len(ObsFields)
    BY <1>1, <1>4
  <2>2. IsFiniteSet(T) /\ Values(ObsFields, T \cup {y})
    BY <1>2, <2>1
  <2>3. ObsFields[y] \in Nat \ {0} /\ UpTo(k) \in Nat
    BY <1>1, <1>2, <1>4, <2>1
  <2> HIDE DEF T, y
  <2>4. SumFunctionOnSet(ObsFields, T \cup {y}) = ObsFields[y] + SumFunctionOnSet(ObsFields, T)
    BY <2>1, <2>2, SumMore
  <2>5. UpTo(k + 1) = ObsFields[y] + UpTo(k)
    BY <2>1, <2>4 DEF UpTo, T
  <2> QED BY <2>3, <2>5 DEF y
<1> QED BY <1>1, <1>2, <1>3, <1>4

\* They cover the observation up to there and do not overlap.
LEMMA SlicesUpTo ==
    \A k \in 0 .. Len(ObsFields) :
        /\ UNION {Slice(j) : j \in 1 .. k} = 1 .. UpTo(k)
        /\ \A j \in 1 .. k : Slice(j) \subseteq 1 .. UpTo(k)
        /\ \A i, j \in 1 .. k : i # j => Slice(i) \cap Slice(j) = {}
<1> DEFINE n == Len(ObsFields)
           Cover(k) == UNION {Slice(j) : j \in 1 .. k} = 1 .. UpTo(k)
           Within(k) == \A j \in 1 .. k : Slice(j) \subseteq 1 .. UpTo(k)
           Apart(k) == \A i, j \in 1 .. k : i # j => Slice(i) \cap Slice(j) = {}
           T == {k \in Nat : k <= n => Cover(k) /\ Within(k) /\ Apart(k)}
<1>1. 0 \in T
  BY FieldsUpTo
<1>2. ASSUME NEW k \in Nat, k \in T, k + 1 <= n PROVE Cover(k + 1) /\ Within(k + 1) /\ Apart(k + 1)
  <2>1. /\ n \in Nat /\ k \in 0 .. n /\ k + 1 \in 1 .. n /\ k <= n
    BY <1>2, FieldsUpTo
  <2>2. UpTo(k) \in Nat /\ UpTo(k + 1) = UpTo(k) + ObsFields[k + 1] /\ ObsFields[k + 1] \in Nat
    BY <2>1, FieldsUpTo
  <2>3. Cover(k) /\ Within(k) /\ Apart(k)
    BY <1>2, <2>1
  <2>4. 1 .. (k + 1) = (1 .. k) \cup {k + 1}
    OBVIOUS
  <2>5. Slice(k + 1) = (UpTo(k) + 1) .. UpTo(k + 1)
    BY <2>2 DEF Slice
  <2>6. 1 .. UpTo(k + 1) = (1 .. UpTo(k)) \cup Slice(k + 1) /\ Slice(k + 1) \cap (1 .. UpTo(k)) = {}
    BY <2>2, <2>5
  <2>7. Cover(k + 1)
    <3>1. (UNION {Slice(j) : j \in 1 .. (k + 1)}) = (UNION {Slice(j) : j \in 1 .. k}) \cup Slice(k + 1)
      BY <2>4, Zenon
    <3> QED BY <2>3, <2>6, <3>1
  <2>8. Within(k + 1)
    BY <2>3, <2>4, <2>6, Zenon
  <2>9. Apart(k + 1)
    BY <2>3, <2>4, <2>6, Zenon
  <2> QED BY <2>7, <2>8, <2>9
<1>3. ASSUME NEW k \in Nat, k \in T PROVE k + 1 \in T
  <2>1. k + 1 <= n => Cover(k + 1) /\ Within(k + 1) /\ Apart(k + 1)
    BY <1>2, <1>3
  <2> HIDE DEF Cover, Within, Apart
  <2> QED BY <2>1
<1> HIDE DEF T
<1>4. \A k \in Nat : k \in T
  BY <1>1, <1>3, Induction
<1> QED BY <1>4, FieldsUpTo DEF T

\* The slices that the policy mirrors are those, when the matrices follow the fields.
LEMMA MirroredSlicesAre ==
    ASSUME MatricesFollowFields
    PROVE  /\ MirroredSlices = [k \in 1 .. Len(ObsFields) |-> Slice(k)]
           /\ FoldSeq(+, 0, ObsFields) = UpTo(Len(ObsFields))
<1>1. FoldSeq(+, 0, ObsFields) = UpTo(Len(ObsFields))
  BY SumOfSequence, FieldsUpTo DEF UpTo
<1>2. ASSUME NEW k \in 1 .. Len(ObsFields)
      PROVE  FoldSeq(+, 0, SubSeq(ObsFields, 1, k - 1)) = UpTo(k - 1)
  <2> DEFINE before == SubSeq(ObsFields, 1, k - 1)
             T == 1 .. (k - 1)
  <2>1. k - 1 \in 0 .. Len(ObsFields) /\ IsFiniteSet(T) /\ Values(ObsFields, T)
    <3>1. k - 1 \in 0 .. Len(ObsFields)
      BY FieldsUpTo
    <3> QED BY <3>1, FieldsUpTo
  <2>2. DOMAIN before = T /\ \A i \in T : before[i] = ObsFields[i]
    <3>1. ObsFields \in Seq(Nat) /\ Len(ObsFields) \in Nat
      BY PpoAssumption, FieldsUpTo
    <3> QED BY <3>1
  <2>3. FoldSeq(+, 0, before) = SumFunctionOnSet(before, DOMAIN before)
    BY SumOfSequence
  <2> HIDE DEF before, T
  <2>4. SumFunctionOnSet(before, T) = SumFunctionOnSet(ObsFields, T)
    BY <2>1, <2>2, SumSame
  <2> QED BY <2>2, <2>3, <2>4 DEF before, T, UpTo
<1>3. MirroredSlices = [k \in 1 .. Len(ObsFields) |-> Slice(k)]
  <2> DEFINE sizes == [k \in DOMAIN MirrorFields |-> ObsFields[MirrorFields[k]]]
  <2>1. DOMAIN MirrorFields = 1 .. Len(ObsFields) /\ \A k \in 1 .. Len(ObsFields) : MirrorFields[k] = k
    BY FieldsUpTo, Zenon DEF MatricesFollowFields
  <2>2. ObsFields = [k \in 1 .. Len(ObsFields) |-> ObsFields[k]]
    BY PpoAssumption, FieldsUpTo
  <2>3. sizes = ObsFields
    BY <2>1, <2>2, Zenon
  <2>4. MirroredSlices = [k \in DOMAIN MirrorFields |->
            (FoldSeq(+, 0, SubSeq(sizes, 1, k - 1)) + 1) .. (FoldSeq(+, 0, SubSeq(sizes, 1, k - 1)) + sizes[k])]
    BY Zenon DEF MirroredSlices
  <2> HIDE DEF sizes
  <2> QED
    BY <1>2, <2>1, <2>3, <2>4, Zenon DEF Slice
<1> QED BY <1>1, <1>3

LEMMA MirroredSound ==
    ASSUME MatricesFollowFields
    PROVE  /\ UNION ToSet(MirroredSlices) = 1 .. FoldSeq(+, 0, ObsFields)
           /\ \A j, k \in DOMAIN MirroredSlices : j # k => MirroredSlices[j] \cap MirroredSlices[k] = {}
<1> DEFINE n == Len(ObsFields)
<1>1. n \in 0 .. n
  BY FieldsUpTo
<1>2. DOMAIN MirroredSlices = 1 .. n /\ \A k \in 1 .. n : MirroredSlices[k] = Slice(k)
  BY MirroredSlicesAre
<1>3. ToSet(MirroredSlices) = {Slice(j) : j \in 1 .. n}
  BY <1>2, Zenon DEF ToSet
<1>4. UNION {Slice(j) : j \in 1 .. n} = 1 .. UpTo(n)
  BY <1>1, SlicesUpTo
<1>5. \A i, j \in 1 .. n : i # j => Slice(i) \cap Slice(j) = {}
  BY <1>1, SlicesUpTo
<1> QED BY <1>2, <1>3, <1>4, <1>5, MirroredSlicesAre, Zenon

-----------------------------------------------------------------------------
(* The noise of the worst observation *)

Box == (-NoiseScale) .. NoiseScale

\* Clipping gives a number of the box.
LEMMA ClippedIsInBox ==
    ASSUME NEW x \in Int PROVE Clipped(x) \in Box
<1> DEFINE m == Min({x, NoiseScale})
<1>1. NoiseScale \in Nat
  BY PpoAssumption
<1>2. m \in Int /\ m <= NoiseScale
  <2>1. CASE x <= NoiseScale
    BY <1>1, <2>1 DEF Min
  <2>2. CASE ~(x <= NoiseScale)
    BY <1>1, <2>2 DEF Min
  <2> QED BY <2>1, <2>2
<1> HIDE DEF m
<1>3. Max({-NoiseScale, m}) \in Box
  <2>1. CASE m >= -NoiseScale
    BY <1>1, <1>2, <2>1 DEF Max, Box
  <2>2. CASE ~(m >= -NoiseScale)
    BY <1>1, <1>2, <2>2 DEF Max, Box
  <2> QED BY <2>1, <2>2
<1> QED BY <1>3 DEF Clipped, m

LEMMA MovedInBox ==
    ASSUME NEW noises \in SUBSET Int PROVE Moved(noises) \in SUBSET Box
<1> SUFFICES ASSUME NEW noise \in noises, NEW sign \in {-1, 0, 1}
             PROVE  Clipped(noise + sign * NoiseScale) \in Box
  BY DEF Moved
<1>1. noise + sign * NoiseScale \in Int
  BY PpoAssumption
<1> QED BY <1>1, ClippedIsInBox

\* A nonempty finite set of numbers has a largest one.
LEMMA LargestExists ==
    ASSUME NEW T, IsFiniteSet(T), T \in SUBSET Int
    PROVE  \A s \in SUBSET T : s # {} => Max(s) \in s /\ \A y \in s : Max(s) >= y
<1> DEFINE Good == {s \in SUBSET T : s # {} => \E x \in s : \A y \in s : x >= y}
<1>1. ASSUME NEW s \in SUBSET T, \A x \in s : s \ {x} \in Good PROVE s \in Good
  <2> SUFFICES ASSUME s # {} PROVE \E x \in s : \A y \in s : x >= y
    OBVIOUS
  <2>1. PICK z \in s : TRUE
    OBVIOUS
  <2>2. s \ {z} \in Good /\ z \in Int /\ s \subseteq Int
    BY <1>1, <2>1
  <2>3. CASE s \ {z} = {}
    BY <2>2, <2>3
  <2>4. CASE s \ {z} # {}
    <3>1. PICK x \in s \ {z} : \A y \in s \ {z} : x >= y
      BY <2>2, <2>4
    <3>2. CASE x >= z
      <4>1. \A y \in s : x >= y
        BY <3>1, <3>2
      <4> QED BY <3>1, <4>1
    <3>3. CASE ~(x >= z)
      <4>1. \A y \in s : z >= y
        BY <2>2, <3>1, <3>3
      <4> QED BY <4>1
    <3> QED BY <3>2, <3>3
  <2> QED BY <2>3, <2>4
<1> HIDE DEF Good
<1>2. \A s \in SUBSET T : s \in Good
  BY <1>1, SubsetInduction
<1> QED BY <1>2 DEF Good, Max

\* The noise after the steps of a set.
IsMoving(h, base, T) ==
    \A s \in SUBSET T : h[s] = IF s = {} THEN base ELSE Moved(h[s \ {Max(s)}])

LEMMA MovingExists ==
    ASSUME NEW T, IsFiniteSet(T), T \in SUBSET Int, NEW base \in SUBSET Box
    PROVE  \E h \in [SUBSET T -> SUBSET Box] : IsMoving(h, base, T)
<1> DEFINE pick == [s \in SUBSET T |-> Max(s)]
           V == SUBSET Box
           F == [x \in T |-> [noises \in V |-> Moved(noises)]]
<1>1. F \in [T -> [V -> V]]
  <2>1. \A noises \in V : Moved(noises) \in V
    BY MovedInBox DEF Box
  <2> QED BY <2>1
<1>2. \A s \in SUBSET T : s # {} => pick[s] \in s
  BY LargestExists
<1>3. \A x \in T : \A noises \in V : F[x][noises] = Moved(noises)
  OBVIOUS
<1>4. \A s \in SUBSET T : pick[s] = Max(s)
  OBVIOUS
<1>5. base \in V
  OBVIOUS
<1> HIDE DEF F, pick, V
<1>6. HasIteration(T, V, base, pick, F)
  BY <1>1, <1>2, <1>5, IterationExists, Zenon
<1>7. PICK h \in [SUBSET T -> V] : IsIteration(h, T, base, pick, F)
  BY <1>6 DEF HasIteration
<1>8. IsMoving(h, base, T)
  <2> SUFFICES ASSUME NEW s \in SUBSET T
               PROVE  h[s] = IF s = {} THEN base ELSE Moved(h[s \ {Max(s)}])
    BY DEF IsMoving
  <2> DEFINE x == pick[s]
  <2>1. h[s] = IF s = {} THEN base ELSE F[x][h[s \ {x}]]
    BY <1>7 DEF IsIteration
  <2>2. s # {} => x \in T /\ h[s \ {x}] \in V
    BY <1>2
  <2>3. x = Max(s)
    BY <1>4
  <2> HIDE DEF x
  <2> QED BY <1>3, <2>1, <2>2, <2>3
<1> QED BY <1>7, <1>8 DEF V

LEMMA MovingInBox ==
    ASSUME NEW T, IsFiniteSet(T), T \in SUBSET Int, NEW base \in SUBSET Box,
           NEW h, IsMoving(h, base, T)
    PROVE  h[T] \in SUBSET Box
<1> DEFINE Good == {s \in SUBSET T : h[s] \in SUBSET Box}
<1>1. ASSUME NEW s \in SUBSET T, \A x \in s : s \ {x} \in Good PROVE s \in Good
  <2>1. h[s] = IF s = {} THEN base ELSE Moved(h[s \ {Max(s)}])
    BY DEF IsMoving
  <2>2. CASE s = {}
    BY <2>1, <2>2
  <2>3. CASE s # {}
    <3>1. Max(s) \in s
      BY <2>3, LargestExists
    <3>2. h[s \ {Max(s)}] \in SUBSET Box
      BY <1>1, <3>1
    <3>3. h[s \ {Max(s)}] \in SUBSET Int
      BY <3>2 DEF Box
    <3>4. Moved(h[s \ {Max(s)}]) \in SUBSET Box
      BY <3>3, MovedInBox
    <3> QED BY <2>1, <2>3, <3>4
  <2> QED BY <2>2, <2>3
<1> HIDE DEF Good
<1>2. \A s \in SUBSET T : s \in Good
  BY <1>1, SubsetInduction
<1> QED BY <1>2 DEF Good

LEMMA NoiseIsInBox == \A noise \in AdversarialNoise : noise \in Box
<1> DEFINE T == 1 .. Steps
           step == NoiseScale \div Steps
           base == {-step, step}
           Is(h) == h = [s \in SUBSET T |-> IF s = {} THEN base ELSE Moved(h[s \ {Max(s)}])]
           chosen == CHOOSE h : Is(h)
<1>1. IsFiniteSet(T) /\ T \in SUBSET Int
  BY PpoAssumption, FS_Interval
<1>2. base \in SUBSET Box
  <2>1. NoiseScale \in Nat /\ Steps \in Nat \ {0}
    BY PpoAssumption
  <2>2. step \in 0 .. NoiseScale
    BY <2>1
  <2> HIDE DEF step
  <2> QED BY <2>1, <2>2 DEF Box
<1>3. \E h : Is(h)
  <2> HIDE DEF base
  <2>1. PICK h \in [SUBSET T -> SUBSET Box] : IsMoving(h, base, T)
    BY <1>1, <1>2, MovingExists
  <2>2. Is(h)
    BY <2>1 DEF IsMoving
  <2> QED BY <2>2
<1>4. Is(chosen)
  <2> HIDE DEF Is
  <2> QED BY <1>3
<1>5. AdversarialNoise = chosen[T]
  <2> DEFINE steps == [i \in 1 .. Steps |-> i]
             over(D) == (CHOOSE h : h = [s \in SUBSET D |->
                                          IF s = {} THEN base ELSE Moved(h[s \ {Max(s)}])])[D]
  <2>1. DOMAIN steps = T
    OBVIOUS
  <2>2. AdversarialNoise = over(DOMAIN steps)
    BY Zenon DEF AdversarialNoise, FoldLeft, MapThenFoldSet
  <2> HIDE DEF steps, base
  <2> QED BY <2>1, <2>2, Zenon
<1>6. IsMoving(chosen, base, T)
  <2> HIDE DEF chosen, base
  <2> QED BY <1>4 DEF IsMoving
<1> HIDE DEF base, chosen, T
<1>7. chosen[T] \in SUBSET Box
  BY <1>1, <1>2, <1>6, MovingInBox
<1> QED BY <1>5, <1>7

-----------------------------------------------------------------------------
(* What the terms of the loss read *)

Names == {"true", "prev", "worst", "noisy", "mirrored"}
IfSo(name, condition) == IF condition THEN <<name>> ELSE <<>>

LEMMA IfSoIs ==
    ASSUME NEW name \in Names, NEW condition \in BOOLEAN
    PROVE  IfSo(name, condition) \in Seq(Names) /\ ToSet(IfSo(name, condition)) = {n \in {name} : condition}
<1>1. CASE condition
  <2>1. IfSo(name, condition) = <<name>>
    BY <1>1 DEF IfSo
  <2>2. <<name>> \in Seq(Names) /\ ToSet(<<name>>) = {name}
    BY DEF ToSet
  <2>3. {n \in {name} : condition} = {name}
    BY <1>1
  <2> QED BY <2>1, <2>2, <2>3
<1>2. CASE ~condition
  <2>1. IfSo(name, condition) = <<>>
    BY <1>2 DEF IfSo
  <2> QED BY <1>2, <2>1 DEF ToSet
<1> QED BY <1>1, <1>2

LEMMA ConcatenatedSet ==
    ASSUME NEW S, NEW s \in Seq(S), NEW t \in Seq(S)
    PROVE  s \o t \in Seq(S) /\ ToSet(s \o t) = ToSet(s) \cup ToSet(t)
<1>1. s \o t \in Seq(S) /\ DOMAIN (s \o t) = 1 .. (Len(s) + Len(t))
      /\ Len(s) \in Nat /\ Len(t) \in Nat /\ DOMAIN s = 1 .. Len(s) /\ DOMAIN t = 1 .. Len(t)
  OBVIOUS
<1>2. \A i \in DOMAIN s : i \in DOMAIN (s \o t) /\ (s \o t)[i] = s[i]
  OBVIOUS
<1>3. \A i \in DOMAIN t : Len(s) + i \in DOMAIN (s \o t) /\ (s \o t)[Len(s) + i] = t[i]
  OBVIOUS
<1>4. \A i \in DOMAIN (s \o t) : (i \in DOMAIN s) \/ (i - Len(s) \in DOMAIN t /\ Len(s) + (i - Len(s)) = i)
  BY <1>1
<1> DEFINE both == s \o t
<1>5. \A i \in DOMAIN both : both[i] \in ToSet(s) \cup ToSet(t)
  BY <1>2, <1>3, <1>4 DEF ToSet
<1>6. \A x \in ToSet(s) \cup ToSet(t) : \E i \in DOMAIN both : both[i] = x
  BY <1>2, <1>3 DEF ToSet
<1> QED BY <1>1, <1>5, <1>6 DEF ToSet

\* The batches that are forwarded are those of which the means are extracted.
LEMMA BatchesAreMeans ==
    ASSUME NEW c \in SUBSET Regularizations
    PROVE  ToSet(TrainBatches(c)) = ActionMeans(c)
<1> DEFINE prev == "caps_temporal" \in c \/ "temporal_barrier" \in c
           worst == {"caps_spatial", "enable_adversarial_noise"} \subseteq c
           noisy == "caps_global" \in c \/ "enable_adversarial_noise" \notin c
           mirrored == "symmetric_policy" \in c
           a == IfSo("prev", prev)
           b == IfSo("worst", worst)
           d == IfSo("noisy", noisy)
           e == IfSo("mirrored", mirrored)
<1>1. TrainBatches(c) = <<"true">> \o a \o b \o d \o e
  BY Zenon DEF TrainBatches, IfSo
<1>2. /\ a \in Seq(Names) /\ ToSet(a) = {n \in {"prev"} : prev}
      /\ b \in Seq(Names) /\ ToSet(b) = {n \in {"worst"} : worst}
      /\ d \in Seq(Names) /\ ToSet(d) = {n \in {"noisy"} : noisy}
      /\ e \in Seq(Names) /\ ToSet(e) = {n \in {"mirrored"} : mirrored}
  <2>1. prev \in BOOLEAN /\ worst \in BOOLEAN /\ noisy \in BOOLEAN /\ mirrored \in BOOLEAN
    OBVIOUS
  <2>2. "prev" \in Names /\ "worst" \in Names /\ "noisy" \in Names /\ "mirrored" \in Names
    BY DEF Names
  <2> HIDE DEF prev, worst, noisy, mirrored
  <2>3. a \in Seq(Names) /\ ToSet(a) = {n \in {"prev"} : prev}
    BY <2>1, <2>2, IfSoIs
  <2>4. b \in Seq(Names) /\ ToSet(b) = {n \in {"worst"} : worst}
    BY <2>1, <2>2, IfSoIs
  <2>5. d \in Seq(Names) /\ ToSet(d) = {n \in {"noisy"} : noisy}
    BY <2>1, <2>2, IfSoIs
  <2>6. e \in Seq(Names) /\ ToSet(e) = {n \in {"mirrored"} : mirrored}
    BY <2>1, <2>2, IfSoIs
  <2> QED BY <2>3, <2>4, <2>5, <2>6
<1> DEFINE o == <<"true">>
<1>3. o \in Seq(Names) /\ ToSet(o) = {"true"}
  BY DEF ToSet, Names
<1>4. ActionMeans(c) = {"true"} \cup {n \in {"prev"} : prev} \cup {n \in {"noisy"} : noisy}
                         \cup {n \in {"worst"} : worst} \cup {n \in {"mirrored"} : mirrored}
  <2>1. \A x, p : {n \in {x} : p} = IF p THEN {x} ELSE {}
    OBVIOUS
  <2> QED BY <2>1, Zenon DEF ActionMeans
<1> HIDE DEF o, a, b, d, e, prev, worst, noisy, mirrored
<1> DEFINE oa == o \o a
           ob == oa \o b
           od == ob \o d
<1>5. oa \in Seq(Names) /\ ToSet(oa) = ToSet(o) \cup ToSet(a)
  BY <1>2, <1>3, ConcatenatedSet
<1>6. ob \in Seq(Names) /\ ToSet(ob) = ToSet(oa) \cup ToSet(b)
  <2> HIDE DEF oa
  <2> QED BY <1>2, <1>5, ConcatenatedSet
<1>7. od \in Seq(Names) /\ ToSet(od) = ToSet(ob) \cup ToSet(d)
  <2> HIDE DEF ob
  <2> QED BY <1>2, <1>6, ConcatenatedSet
<1>8. ToSet(od \o e) = ToSet(od) \cup ToSet(e)
  <2> HIDE DEF od
  <2> QED BY <1>2, <1>7, ConcatenatedSet
<1>9. ToSet(TrainBatches(c)) = ToSet(o) \cup ToSet(a) \cup ToSet(b) \cup ToSet(d) \cup ToSet(e)
  <2>1. TrainBatches(c) = od \o e
    BY <1>1 DEF o
  <2> HIDE DEF od, ob, oa
  <2> QED BY <1>5, <1>6, <1>7, <1>8, <2>1
<1> QED BY <1>2, <1>3, <1>4, <1>9

LEMMA LossReads ==
    ASSUME NEW c \in SUBSET Regularizations
    PROVE  ReadsItsBatches(Loss(c))
<1> DEFINE l == Loss(c)
<1>1. /\ l.policy = Policy(c) /\ l.read = ColumnsRead(c) /\ l.forwarded = Forwarded(TrainBatches(c))
      /\ l.means = ActionMeans(c) /\ l.terms = LossTerms(c) /\ l.stats = StatsRead(c)
  BY DEF Loss
<1>2. DOMAIN l.forwarded = ActionMeans(c)
  BY <1>1, BatchesAreMeans DEF Forwarded
<1> HIDE DEF l
<1>3. l.read \subseteq l.policy.view
  BY <1>1 DEF ColumnsRead, Policy
<1>4. "mirrored" \in ActionMeans(c) => l.policy.mirror_mat
  <2>1. "mirrored" \in ActionMeans(c) => "symmetric_policy" \in c
    BY DEF ActionMeans
  <2>2. Policy(c).mirror_mat = ("symmetric_policy" \in c)
    BY DEF Policy
  <2> QED BY <1>1, <2>1, <2>2
<1>5. DOMAIN l.terms = c \ {"enable_adversarial_noise"}
  BY <1>1 DEF LossTerms
<1>6. ASSUME NEW term \in c \ {"enable_adversarial_noise"} PROVE l.terms[term] \subseteq ActionMeans(c)
  <2>1. term \in Regularizations \ {"enable_adversarial_noise"}
    OBVIOUS
  <2>2. CASE term = "temporal_barrier" \/ term = "caps_temporal"
    <3>1. l.terms[term] = {"prev", "true"}
      BY <1>1, <2>2 DEF LossTerms
    <3> QED BY <2>2, <3>1 DEF ActionMeans
  <2>3. CASE term = "caps_spatial"
    <3>1. l.terms[term] = {IF "enable_adversarial_noise" \in c THEN "worst" ELSE "noisy", "true"}
      BY <1>1, <2>3 DEF LossTerms
    <3> QED BY <2>3, <3>1 DEF ActionMeans
  <2>4. CASE term = "caps_global"
    <3>1. l.terms[term] = {"noisy"}
      BY <1>1, <2>4 DEF LossTerms
    <3> QED BY <2>4, <3>1 DEF ActionMeans
  <2>5. CASE term = "symmetric_policy"
    <3>1. l.terms[term] = {"mirrored", "true"}
      BY <1>1, <2>5 DEF LossTerms
    <3> QED BY <2>5, <3>1 DEF ActionMeans
  <2>6. CASE term = "l2"
    BY <1>1, <2>6 DEF LossTerms
  <2> QED BY <2>1, <2>2, <2>3, <2>4, <2>5, <2>6 DEF Regularizations
<1>7. l.stats = c \ {"enable_adversarial_noise"}
  BY <1>1 DEF StatsRead, Regularizations
<1>8. ReadsItsBatches(l)
  BY <1>1, <1>2, <1>3, <1>4, <1>5, <1>6, <1>7 DEF ReadsItsBatches
<1> QED BY <1>8 DEF l

LEMMA LossTransforms ==
    ASSUME NEW c \in SUBSET Regularizations
    PROVE  TransformsAreSound(Loss(c))
<1> DEFINE l == Loss(c)
<1>1. /\ l.mirrored = IF "symmetric_policy" \in c THEN MirroredSlices ELSE <<>>
      /\ l.noise = IF "worst" \in ToSet(TrainBatches(c)) THEN AdversarialNoise ELSE {}
  BY DEF Loss
<1> HIDE DEF l
<1>2. \A noise \in l.noise : noise \in Box
  BY <1>1, NoiseIsInBox
<1>3. l.mirrored # <<>> => l.mirrored = MirroredSlices
  BY <1>1
<1>4. TransformsAreSound(l)
  BY <1>2, <1>3, MirroredSound, Zenon DEF TransformsAreSound, Box
<1> QED BY <1>4 DEF l

LossInv == \E c \in SUBSET Regularizations : loss = Loss(c)

\* A policy can be built with any set of regularisations, for any fields of an observation and
\* any noise (the conditions that PPOTorchPolicy.loss writes three times, ppo.py).
THEOREM LossesReadTheirs == TrainingSpec => []LossReadsItsBatches
<1>1. TrainingInit => LossInv
  BY Zenon DEF TrainingInit, LossInv, Default
<1>2. LossInv /\ [TrainingNext]_policyVars => LossInv'
  <2> SUFFICES ASSUME LossInv, [TrainingNext]_policyVars PROVE LossInv'
    OBVIOUS
  <2>1. CASE loss' = loss
    BY <2>1 DEF LossInv
  <2>2. ASSUME NEW chosen \in Configurations, BuildPolicy(chosen) PROVE LossInv'
    <3>1. chosen \in SUBSET Regularizations
      BY DEF Configurations, Training, Default
    <3> QED BY <2>2, <3>1, Zenon DEF BuildPolicy, LossInv
  <2>3. loss' = loss \/ \E chosen \in Configurations : BuildPolicy(chosen)
    BY Zenon DEF TrainingNext, policyVars, trainVars, evalVars, Learn, StartEvaluation, EvaluateLocally,
       RunRound, CollectLogs, EndRounds, EndEvaluation, Schedule, LogResult, Finish, Train, Interrupt,
       RestoreWorkers, EvaluateCheckpoint, LoseWorker, Sample, WorkerDies
  <2> QED BY <2>1, <2>2, <2>3, Zenon
<1>3. LossInv => LossReadsItsBatches
  BY LossReads, LossTransforms, Zenon DEF LossInv, LossReadsItsBatches
<1> QED BY <1>1, <1>2, <1>3, PTL DEF TrainingSpec

-----------------------------------------------------------------------------
(* The tree of the tasks *)

Depth == Len(Sizes)

LEMMA DepthIs ==
    /\ Depth \in Nat \ {0} /\ DOMAIN Sizes = 1 .. Depth
    /\ \A l \in 1 .. Depth : Sizes[l] \in Nat \ {0}
<1>1. Sizes \in Seq(Nat \ {0}) /\ Sizes # <<>>
  BY CurriculumAssumption
<1> QED BY <1>1, LenProperties, EmptySeq, ElementOfSeq DEF Depth

\* A path is a choice at every level down to its own.
LEMMA PathIs ==
    ASSUME NEW d \in 1 .. Depth, NEW p
    PROVE  p \in PathsOf(d) <=> p \in [1 .. d -> Nat] /\ \A l \in 1 .. d : p[l] < Sizes[l]
<1> DEFINE Allowed == UNION {0 .. size - 1 : size \in ToSet(Sizes)}
<1>1. p \in PathsOf(d) <=> p \in [1 .. d -> Allowed] /\ \A l \in 1 .. d : p[l] < Sizes[l]
  BY DEF PathsOf
<1>2. \A l \in 1 .. d : l \in DOMAIN Sizes /\ Sizes[l] \in Nat
  BY DepthIs
<1>3. \A c \in Allowed : c \in Nat
  <2>1. \A size \in ToSet(Sizes) : size \in Nat
    BY DepthIs DEF ToSet
  <2> QED BY <2>1
<1>4. \A l \in 1 .. d, c \in Nat : c < Sizes[l] => c \in Allowed
  <2> SUFFICES ASSUME NEW l \in 1 .. d, NEW c \in Nat, c < Sizes[l] PROVE c \in Allowed
    OBVIOUS
  <2>1. Sizes[l] \in ToSet(Sizes)
    BY <1>2 DEF ToSet
  <2>2. c \in 0 .. Sizes[l] - 1
    BY <1>2
  <2> QED BY <2>1, <2>2
<1> HIDE DEF Allowed
<1> QED BY <1>1, <1>3, <1>4

LEMMA NodeIs ==
    ASSUME NEW p
    PROVE  p \in Nodes <=> \E d \in 1 .. Depth :
              p \in [1 .. d -> Nat] /\ \A l \in 1 .. d : p[l] < Sizes[l]
<1>1. p \in Nodes <=> \E d \in 1 .. Depth : p \in PathsOf(d)
  BY DEF Nodes, Depth
<1> QED BY <1>1, PathIs

LEMMA NodeLength ==
    ASSUME NEW node \in Nodes
    PROVE  /\ Len(node) \in 1 .. Depth /\ node \in [1 .. Len(node) -> Nat] /\ node \in Seq(Nat)
           /\ \A l \in 1 .. Len(node) : node[l] \in Nat /\ node[l] < Sizes[l]
<1>1. PICK d \in 1 .. Depth : node \in [1 .. d -> Nat] /\ \A l \in 1 .. d : node[l] < Sizes[l]
  BY NodeIs
<1>2. d \in Nat /\ Len(node) = d /\ node \in Seq(Nat)
  BY <1>1, DepthIs
<1> QED BY <1>1, <1>2

\* The tasks are the deepest nodes.
LEMMA TaskIs ==
    ASSUME NEW p
    PROVE  /\ p \in Tasks <=> p \in [1 .. Depth -> Nat] /\ \A l \in 1 .. Depth : p[l] < Sizes[l]
           /\ p \in Tasks <=> p \in Nodes /\ Len(p) = Depth
<1>1. Depth \in 1 .. Depth
  BY DepthIs
<1>2. p \in Tasks <=> p \in [1 .. Depth -> Nat] /\ \A l \in 1 .. Depth : p[l] < Sizes[l]
  BY <1>1, PathIs DEF Tasks, Depth
<1>3. p \in Tasks => p \in Nodes /\ Len(p) = Depth
  <2> SUFFICES ASSUME p \in Tasks PROVE p \in Nodes /\ Len(p) = Depth
    OBVIOUS
  <2>1. Depth \in Nat /\ Len(p) = Depth
    BY <1>2, DepthIs
  <2> QED BY <1>1, <1>2, <2>1, NodeIs
<1>4. p \in Nodes /\ Len(p) = Depth => p \in Tasks
  BY <1>2, NodeLength
<1> QED BY <1>2, <1>3, <1>4

\* A node is on the path of a task when it makes the same choices.
LEMMA PrefixIs ==
    ASSUME NEW node \in Nodes, NEW p \in Nodes
    PROVE  IsPrefix(node, p) <=> Len(node) <= Len(p) /\ \A l \in 1 .. Len(node) : node[l] = p[l]
<1>1. /\ node \in Seq(Nat) /\ p \in Seq(Nat) /\ Len(node) \in Nat /\ Len(p) \in Nat
      /\ node \in [1 .. Len(node) -> Nat] /\ p \in [1 .. Len(p) -> Nat]
  BY NodeLength, DepthIs
<1>2. SubSeq(node, 1, Len(node)) = node
  BY <1>1
<1>3. ASSUME Len(node) <= Len(p)
      PROVE  SubSeq(p, 1, Len(node)) = [l \in 1 .. Len(node) |-> p[l]]
  BY <1>1, <1>3
<1>4. node = [l \in 1 .. Len(node) |-> node[l]]
  BY <1>1
<1>5. ASSUME Len(node) <= Len(p)
      PROVE  (node = SubSeq(p, 1, Len(node))) <=> \A l \in 1 .. Len(node) : node[l] = p[l]
  BY <1>3, <1>4, <1>5
<1> QED BY <1>2, <1>5 DEF IsPrefix

\* What precedes a node.
LEMMA PrefixOfNode ==
    ASSUME NEW node \in Nodes, NEW d \in 1 .. Len(node)
    PROVE  /\ SubSeq(node, 1, d) \in Nodes /\ Len(SubSeq(node, 1, d)) = d
           /\ \A l \in 1 .. d : SubSeq(node, 1, d)[l] = node[l]
<1>1. /\ node \in Seq(Nat) /\ Len(node) \in 1 .. Depth /\ node \in [1 .. Len(node) -> Nat]
      /\ \A l \in 1 .. Len(node) : node[l] \in Nat /\ node[l] < Sizes[l]
  BY NodeLength
<1>2. Depth \in Nat /\ Len(node) \in Nat /\ d \in Nat /\ d <= Len(node) /\ d \in 1 .. Depth
  BY <1>1, DepthIs
<1> DEFINE cut == SubSeq(node, 1, d)
<1>3. cut = [l \in 1 .. d |-> node[l]]
  BY <1>1, <1>2
<1> HIDE DEF cut
<1>4. \A l \in 1 .. d : l \in 1 .. Len(node) /\ cut[l] = node[l]
  BY <1>2, <1>3
<1>5. cut \in [1 .. d -> Nat] /\ Len(cut) = d
  BY <1>1, <1>2, <1>3, <1>4
<1>6. cut \in Nodes
  BY <1>1, <1>2, <1>4, <1>5, NodeIs
<1> QED BY <1>4, <1>5, <1>6 DEF cut

\* Below every node there is a task: the first one makes no other choice.
FirstTask(node) == [l \in 1 .. Depth |-> IF l <= Len(node) THEN node[l] ELSE 0]

LEMMA TaskBelow ==
    ASSUME NEW node \in Nodes
    PROVE  FirstTask(node) \in Tasks /\ IsPrefix(node, FirstTask(node))
<1>1. /\ Len(node) \in 1 .. Depth /\ \A l \in 1 .. Len(node) : node[l] \in Nat /\ node[l] < Sizes[l]
  BY NodeLength
<1>2. Depth \in Nat \ {0} /\ \A l \in 1 .. Depth : Sizes[l] \in Nat \ {0}
  BY DepthIs
<1> DEFINE first == FirstTask(node)
<1>3. first = [l \in 1 .. Depth |-> IF l <= Len(node) THEN node[l] ELSE 0]
  BY DEF FirstTask
<1> HIDE DEF first
<1>4. \A l \in 1 .. Depth : first[l] \in Nat /\ first[l] < Sizes[l]
  BY <1>1, <1>2, <1>3
<1>5. first \in Tasks
  BY <1>3, <1>4, TaskIs
<1>6. first \in Nodes /\ Len(first) = Depth
  BY <1>5, TaskIs
<1>7. Len(node) <= Len(first) /\ \A l \in 1 .. Len(node) : node[l] = first[l]
  BY <1>1, <1>2, <1>3, <1>6
<1> QED BY <1>5, <1>6, <1>7, PrefixIs DEF first

\* The image of a finite set is finite.
LEMMA ImageIsFinite ==
    ASSUME NEW S, IsFiniteSet(S), NEW f
    PROVE  IsFiniteSet({f[x] : x \in S})
<1> DEFINE T == {f[x] : x \in S}
           g == [x \in S |-> f[x]]
<1>1. g \in [S -> T] /\ \A y \in T : \E x \in S : g[x] = y
  OBVIOUS
<1> HIDE DEF g, T
<1>2. g \in Surjection(S, T)
  BY <1>1 DEF Surjection
<1>3. IsFiniteSet(T)
  BY <1>2, FS_Surjection
<1> QED BY <1>3 DEF T

\* There are finitely many.
LEMMA TasksAreFinite == IsFiniteSet(Tasks)
<1> DEFINE Allowed == {c \in Nat : \E l \in 1 .. Depth : c < Sizes[l]}
           Pairs == (1 .. Depth) \X Allowed
           graph == [t \in Tasks |-> {p \in Pairs : p[2] = t[p[1]]}]
<1>1. IsFiniteSet(Allowed)
  <2> DEFINE interval == [l \in 1 .. Depth |-> 0 .. Sizes[l] - 1]
             Below == {interval[l] : l \in 1 .. Depth}
  <2>1. IsFiniteSet(1 .. Depth)
    BY DepthIs, FS_Interval
  <2>2. IsFiniteSet(Below)
    <3> HIDE DEF interval
    <3> QED BY <2>1, ImageIsFinite
  <2>3. \A s \in Below : IsFiniteSet(s)
    <3> SUFFICES ASSUME NEW l \in 1 .. Depth PROVE IsFiniteSet(interval[l])
      OBVIOUS
    <3>2. interval[l] = 0 .. Sizes[l] - 1
      OBVIOUS
    <3>1. 0 \in Int /\ Sizes[l] - 1 \in Int
      BY DepthIs
    <3> QED BY <3>1, <3>2, FS_Interval
  <2>4. IsFiniteSet(UNION Below)
    <3> HIDE DEF Below
    <3> QED BY <2>2, <2>3, FS_UNION
  <2>5. Allowed \in SUBSET UNION Below
    <3> SUFFICES ASSUME NEW c \in Nat, NEW l \in 1 .. Depth, c < Sizes[l] PROVE c \in UNION Below
      OBVIOUS
    <3>1. c \in interval[l]
      BY DepthIs
    <3> QED BY <3>1
  <2> QED BY <2>4, <2>5, FS_Subset
<1>2. IsFiniteSet(1 .. Depth)
  BY DepthIs, FS_Interval
<1>3. IsFiniteSet(SUBSET Pairs)
  <2>1. IsFiniteSet(Pairs)
    <3> HIDE DEF Allowed
    <3> QED BY <1>1, <1>2, FS_Product
  <2> QED BY <2>1, FS_SUBSET
<1>4. ASSUME NEW t \in Tasks, NEW l \in 1 .. Depth
      PROVE  \A c \in Allowed : <<l, c>> \in graph[t] <=> c = t[l]
  OBVIOUS
<1>5. ASSUME NEW t \in Tasks, NEW l \in 1 .. Depth PROVE t[l] \in Allowed
  BY TaskIs
<1>6. graph \in Injection(Tasks, SUBSET Pairs)
  <2>1. graph \in [Tasks -> SUBSET Pairs]
    OBVIOUS
  <2>2. ASSUME NEW s \in Tasks, NEW t \in Tasks, graph[s] = graph[t] PROVE s = t
    <3>1. s \in [1 .. Depth -> Nat] /\ t \in [1 .. Depth -> Nat]
      BY TaskIs
    <3>2. ASSUME NEW l \in 1 .. Depth PROVE s[l] = t[l]
      <4>1. s[l] \in Allowed
        BY <1>5
      <4>2. <<l, s[l]>> \in graph[s]
        BY <1>4, <4>1
      <4>3. <<l, s[l]>> \in graph[t]
        BY <2>2, <4>2
      <4> QED BY <1>4, <4>1, <4>3
    <3>3. s = [l \in 1 .. Depth |-> s[l]] /\ t = [l \in 1 .. Depth |-> t[l]]
      BY <3>1
    <3> QED BY <3>2, <3>3
  <2> HIDE DEF graph
  <2> QED BY <2>1, <2>2 DEF Injection, IsInjective
<1> QED BY <1>3, <1>6, FS_Injection

\* The nodes are what precedes the tasks.
LEMMA NodesAreFinite ==
    /\ Nodes = NodesOn(Tasks)
    /\ IsFiniteSet(Nodes)
<1> DEFINE Pairs == Tasks \X (1 .. Depth)
           cut == [p \in Pairs |-> SubSeq(p[1], 1, p[2])]
<1>1. \A path \in Tasks, depth \in 1 .. Depth : SubSeq(path, 1, depth) \in Nodes
  <2> SUFFICES ASSUME NEW path \in Tasks, NEW depth \in 1 .. Depth PROVE SubSeq(path, 1, depth) \in Nodes
    OBVIOUS
  <2>1. path \in Nodes /\ depth \in 1 .. Len(path)
    BY TaskIs
  <2> QED BY <2>1, PrefixOfNode
<1>2. \A node \in Nodes : \E path \in Tasks, depth \in 1 .. Depth : node = SubSeq(path, 1, depth)
  <2> SUFFICES ASSUME NEW node \in Nodes
               PROVE  \E path \in Tasks, depth \in 1 .. Depth : node = SubSeq(path, 1, depth)
    OBVIOUS
  <2>1. Len(node) \in 1 .. Depth /\ node \in Seq(Nat) /\ Len(node) \in Nat
    BY NodeLength, DepthIs
  <2>2. FirstTask(node) \in Tasks /\ IsPrefix(node, FirstTask(node))
    BY TaskBelow
  <2>3. SubSeq(node, 1, Len(node)) = node
    BY <2>1
  <2>4. node = SubSeq(FirstTask(node), 1, Len(node))
    BY <2>2, <2>3 DEF IsPrefix
  <2> QED BY <2>1, <2>2, <2>4
<1>3. Nodes = NodesOn(Tasks)
  <2> DEFINE all == NodesOn(Tasks)
  <2>1. \A node : node \in all <=> \E path \in Tasks, depth \in 1 .. Depth : node = SubSeq(path, 1, depth)
    BY DEF NodesOn, Depth
  <2>2. \A node \in all : node \in Nodes
    <3> SUFFICES ASSUME NEW node \in all PROVE node \in Nodes
      OBVIOUS
    <3>1. PICK path \in Tasks, depth \in 1 .. Depth : node = SubSeq(path, 1, depth)
      BY <2>1
    <3> QED BY <1>1, <3>1
  <2>3. \A node \in Nodes : node \in all
    BY <1>2, <2>1
  <2> HIDE DEF all
  <2>4. Nodes = all
    BY <2>2, <2>3
  <2> QED BY <2>4 DEF all
<1>4. IsFiniteSet(Pairs)
  <2>1. IsFiniteSet(1 .. Depth)
    BY DepthIs, FS_Interval
  <2> QED BY <2>1, TasksAreFinite, FS_Product
<1>5. IsFiniteSet({cut[p] : p \in Pairs})
  <2> HIDE DEF Pairs, cut
  <2> QED BY <1>4, ImageIsFinite
<1>6. Nodes \in SUBSET {cut[p] : p \in Pairs}
  <2> SUFFICES ASSUME NEW node \in Nodes PROVE \E p \in Pairs : node = cut[p]
    OBVIOUS
  <2>1. PICK path \in Tasks, depth \in 1 .. Depth : node = SubSeq(path, 1, depth)
    BY <1>2
  <2>2. <<path, depth>> \in Pairs /\ cut[<<path, depth>>] = SubSeq(path, 1, depth)
    OBVIOUS
  <2> QED BY <2>1, <2>2
<1> QED BY <1>3, <1>5, <1>6, FS_Subset

\* The tasks are ordered by the first choice that is not the same.
LEMMA BeforeIs ==
    ASSUME NEW a \in Tasks, NEW b \in Tasks
    PROVE  Before(a, b) <=> \E i \in 1 .. Depth : (\A l \in 1 .. i - 1 : a[l] = b[l]) /\ a[i] < b[i]
<1>1. /\ a \in [1 .. Depth -> Nat] /\ b \in [1 .. Depth -> Nat] /\ a \in Seq(Nat) /\ b \in Seq(Nat)
      /\ Len(a) = Depth /\ Len(b) = Depth /\ Depth \in Nat
  BY TaskIs, NodeLength, DepthIs
<1>2. ASSUME NEW i \in 1 .. Depth
      PROVE  SubSeq(a, 1, i - 1) = SubSeq(b, 1, i - 1) <=> \A l \in 1 .. i - 1 : a[l] = b[l]
  <2>1. /\ SubSeq(a, 1, i - 1) = [l \in 1 .. i - 1 |-> a[l]]
        /\ SubSeq(b, 1, i - 1) = [l \in 1 .. i - 1 |-> b[l]]
    BY <1>1
  <2>2. [l \in 1 .. i - 1 |-> a[l]] = [l \in 1 .. i - 1 |-> b[l]] <=> \A l \in 1 .. i - 1 : a[l] = b[l]
    <3> DEFINE f == [l \in 1 .. i - 1 |-> a[l]]
               g == [l \in 1 .. i - 1 |-> b[l]]
    <3>1. \A l \in 1 .. i - 1 : f[l] = a[l] /\ g[l] = b[l]
      OBVIOUS
    <3>2. f = g => \A l \in 1 .. i - 1 : a[l] = b[l]
      <4> HIDE DEF f, g
      <4> QED BY <3>1
    <3> QED BY <3>2
  <2> QED BY <2>1, <2>2
<1>3. DOMAIN a = 1 .. Depth
  BY <1>1
<1> QED BY <1>2, <1>3 DEF Before

TaskOrder == {p \in Tasks \X Tasks : Before(p[1], p[2])}

LEMMA TasksAreOrdered ==
    /\ Orders(TaskOrder, Tasks)
    /\ \A a \in Tasks : <<a, a>> \notin TaskOrder
<1>0. \A a, b \in Tasks : <<a, b>> \in TaskOrder <=> Before(a, b)
  BY DEF TaskOrder
<1>1. ASSUME NEW a \in Tasks, NEW b \in Tasks, a # b PROVE Before(a, b) \/ Before(b, a)
  <2>1. /\ a \in [1 .. Depth -> Nat] /\ b \in [1 .. Depth -> Nat] /\ Depth \in Nat
    BY TaskIs, DepthIs
  <2> DEFINE differ == {i \in 1 .. Depth : a[i] # b[i]}
             R == {p \in Nat \X Nat : p[1] > p[2]}
  <2>2. differ # {}
    BY <1>1, <2>1
  <2>3. \A x, y \in Nat : <<x, y>> \in R <=> x > y
    OBVIOUS
  <2>4. IsFiniteSet(1 .. Depth) /\ differ \in SUBSET (1 .. Depth)
    BY <2>1, FS_Interval
  <2> HIDE DEF R
  <2>5. Orders(R, 1 .. Depth)
    <3>1. \A x \in 1 .. Depth : x \in Nat
      BY <2>1
    <3>2. \A x, y \in 1 .. Depth : x # y => <<x, y>> \in R \/ <<y, x>> \in R
      BY <2>3, <3>1
    <3>3. \A x, y, z \in 1 .. Depth : <<x, y>> \in R /\ <<y, z>> \in R => <<x, z>> \in R
      BY <2>3, <3>1
    <3> QED BY <3>2, <3>3 DEF Orders
  <2>6. PICK i : IsLastOf(i, differ, R)
    <3> HIDE DEF differ
    <3> QED BY <2>2, <2>4, <2>5, LastExists
  <2>7. i \in 1 .. Depth /\ a[i] # b[i] /\ \A l \in differ : l # i => l > i
    <3>1. i \in differ /\ \A l \in differ : l # i => <<l, i>> \in R
      BY <2>6 DEF IsLastOf
    <3>2. i \in 1 .. Depth /\ a[i] # b[i]
      BY <3>1
    <3>3. \A l \in differ : l \in Nat /\ i \in Nat
      BY <2>1, <3>2
    <3> QED BY <2>3, <3>1, <3>2, <3>3
  <2>8. \A l \in 1 .. i - 1 : a[l] = b[l]
    <3> SUFFICES ASSUME NEW l \in 1 .. i - 1, a[l] # b[l] PROVE FALSE
      OBVIOUS
    <3>1. l \in differ /\ l # i /\ ~(l > i)
      BY <2>1, <2>7
    <3> QED BY <2>7, <3>1
  <2>9. a[i] \in Nat /\ b[i] \in Nat
    BY <2>1, <2>7
  <2>10. a[i] < b[i] \/ b[i] < a[i]
    BY <2>7, <2>9
  <2> QED BY <2>7, <2>8, <2>10, BeforeIs
<1>2. ASSUME NEW a \in Tasks, NEW b \in Tasks, NEW c \in Tasks, Before(a, b), Before(b, c) PROVE Before(a, c)
  <2>1. \A l \in 1 .. Depth : a[l] \in Nat /\ b[l] \in Nat /\ c[l] \in Nat
    BY TaskIs
  <2>2. Depth \in Nat
    BY DepthIs
  <2>3. PICK i \in 1 .. Depth : (\A l \in 1 .. i - 1 : a[l] = b[l]) /\ a[i] < b[i]
    BY <1>2, BeforeIs
  <2>4. PICK j \in 1 .. Depth : (\A l \in 1 .. j - 1 : b[l] = c[l]) /\ b[j] < c[j]
    BY <1>2, BeforeIs
  <2>5. PICK m \in 1 .. Depth : m <= i /\ m <= j /\ (m = i \/ m = j)
    <3>1. i <= j \/ j <= i
      BY <2>2
    <3> QED BY <2>2, <3>1
  <2>6. \A l \in 1 .. m - 1 : a[l] = c[l]
    <3> SUFFICES ASSUME NEW l \in 1 .. m - 1 PROVE a[l] = c[l]
      OBVIOUS
    <3>1. l \in 1 .. i - 1 /\ l \in 1 .. j - 1
      BY <2>2, <2>5
    <3> QED BY <2>3, <2>4, <3>1
  <2>7. a[m] < c[m]
    <3>1. m < i => a[m] = b[m]
      BY <2>2, <2>3
    <3>2. m < j => b[m] = c[m]
      BY <2>2, <2>4
    <3>3. m = i \/ m < i
      BY <2>2, <2>5
    <3>4. m = j \/ m < j
      BY <2>2, <2>5
    <3>5. (m = i /\ m = j) \/ (m = i /\ m < j) \/ (m < i /\ m = j)
      BY <2>5, <3>3, <3>4
    <3>6. a[m] \in Nat /\ b[m] \in Nat /\ c[m] \in Nat
      BY <2>1
    <3> QED BY <2>3, <2>4, <3>1, <3>2, <3>5, <3>6
  <2> QED BY <2>6, <2>7, BeforeIs
<1>3. ASSUME NEW a \in Tasks PROVE ~Before(a, a)
  <2>1. \A l \in 1 .. Depth : a[l] \in Nat
    BY TaskIs
  <2>2. \A l \in 1 .. Depth : ~(a[l] < a[l])
    BY <2>1
  <2> QED BY <2>2, BeforeIs
<1>4. \A a, b \in Tasks : a # b => <<a, b>> \in TaskOrder \/ <<b, a>> \in TaskOrder
  BY <1>0, <1>1
<1>5. \A a, b, c \in Tasks : <<a, b>> \in TaskOrder /\ <<b, c>> \in TaskOrder => <<a, c>> \in TaskOrder
  BY <1>0, <1>2
<1> QED BY <1>0, <1>3, <1>4, <1>5 DEF Orders

TasksBelow(node) == {path \in Tasks : IsPrefix(node, path)}

LEMMA TaskBelowIs ==
    ASSUME NEW node \in Nodes, NEW path \in Tasks
    PROVE  path \in TasksBelow(node) <=> \A l \in 1 .. Len(node) : node[l] = path[l]
<1>1. path \in Nodes /\ Len(path) = Depth /\ Len(node) <= Depth
  BY TaskIs, NodeLength, DepthIs
<1> QED BY <1>1, PrefixIs DEF TasksBelow

\* The windows that an instance of the tree has below a node.
ChildrenOf(node) == {other \in Nodes : Len(other) = Len(node) + 1 /\ Front(other) = node}

LEMMA ChildIs ==
    ASSUME NEW node \in Nodes, NEW other \in Nodes
    PROVE  other \in ChildrenOf(node) <=>
             Len(other) = Len(node) + 1 /\ \A l \in 1 .. Len(node) : other[l] = node[l]
<1>1. /\ Len(node) \in Nat /\ Len(other) \in Nat /\ Depth \in Nat /\ Len(node) # 0
      /\ node \in [1 .. Len(node) -> Nat] /\ node \in Seq(Nat)
  BY NodeLength, DepthIs
<1> SUFFICES ASSUME Len(other) = Len(node) + 1
             PROVE  Front(other) = node <=> \A l \in 1 .. Len(node) : other[l] = node[l]
  BY DEF ChildrenOf
<1>2. Front(other) = SubSeq(other, 1, Len(node))
  BY <1>1 DEF Front
<1>3. Len(node) \in 1 .. Len(other)
  BY <1>1
<1> DEFINE front == SubSeq(other, 1, Len(node))
<1>4. front \in Nodes /\ Len(front) = Len(node) /\ \A l \in 1 .. Len(node) : front[l] = other[l]
  BY <1>3, PrefixOfNode
<1>5. front \in [1 .. Len(front) -> Nat]
  BY <1>4, NodeLength
<1> HIDE DEF front
<1>6. front = node <=> \A l \in 1 .. Len(node) : front[l] = node[l]
  <2>1. ASSUME \A l \in 1 .. Len(node) : front[l] = node[l] PROVE front = node
    <3>1. front = [l \in 1 .. Len(node) |-> front[l]] /\ node = [l \in 1 .. Len(node) |-> node[l]]
      BY <1>1, <1>4, <1>5
    <3> QED BY <2>1, <3>1
  <2> QED BY <2>1
<1> QED BY <1>2, <1>4, <1>6 DEF front

\* The children share out the tasks below their parent.
LEMMA ChildrenShare ==
    ASSUME NEW node \in Nodes, ChildrenOf(node) # {}, NEW path \in Tasks
    PROVE  /\ SubSeq(path, 1, Len(node) + 1) \in Nodes
           /\ path \in TasksBelow(node) => SubSeq(path, 1, Len(node) + 1) \in ChildrenOf(node)
           /\ \A child \in ChildrenOf(node) :
                path \in TasksBelow(child) <=>
                    path \in TasksBelow(node) /\ SubSeq(path, 1, Len(node) + 1) = child
<1> DEFINE d == Len(node) + 1
           cut == SubSeq(path, 1, d)
<1>1. Len(node) \in Nat /\ Depth \in Nat /\ path \in Nodes /\ Len(path) = Depth
  BY TaskIs, NodeLength, DepthIs
<1>2. d \in 1 .. Depth
  <2>1. PICK child : child \in ChildrenOf(node)
    OBVIOUS
  <2>2. child \in Nodes /\ Len(child) = d
    BY <2>1 DEF ChildrenOf
  <2> QED BY <2>2, NodeLength
<1>3. cut \in Nodes /\ Len(cut) = d /\ \A l \in 1 .. d : cut[l] = path[l]
  <2>1. d \in 1 .. Len(path)
    BY <1>1, <1>2
  <2> HIDE DEF d
  <2> QED BY <1>1, <2>1, PrefixOfNode
<1>4. 1 .. d = (1 .. Len(node)) \cup {d}
  BY <1>1
<1> HIDE DEF cut
<1>5. ASSUME path \in TasksBelow(node) PROVE cut \in ChildrenOf(node)
  <2>1. \A l \in 1 .. Len(node) : cut[l] = node[l]
    BY <1>3, <1>4, <1>5, TaskBelowIs
  <2> QED BY <1>3, <2>1, ChildIs
<1>6. ASSUME NEW child \in ChildrenOf(node)
      PROVE  path \in TasksBelow(child) <=> path \in TasksBelow(node) /\ cut = child
  <2>1. child \in Nodes /\ Len(child) = d /\ \A l \in 1 .. Len(node) : child[l] = node[l]
    <3>1. child \in Nodes
      BY DEF ChildrenOf
    <3> QED BY <1>6, <3>1, ChildIs
  <2>2. path \in TasksBelow(child) <=> \A l \in 1 .. d : child[l] = path[l]
    BY <2>1, TaskBelowIs
  <2>3. path \in TasksBelow(node) <=> \A l \in 1 .. Len(node) : node[l] = path[l]
    BY TaskBelowIs
  <2>4. (\A l \in 1 .. d : child[l] = path[l]) => cut = child
    <3> SUFFICES ASSUME \A l \in 1 .. d : child[l] = path[l] PROVE cut = child
      OBVIOUS
    <3>1. cut \in [1 .. d -> Nat] /\ child \in [1 .. d -> Nat]
      BY <1>3, <2>1, NodeLength
    <3>2. cut = [l \in 1 .. d |-> cut[l]] /\ child = [l \in 1 .. d |-> child[l]]
      BY <3>1
    <3>3. \A l \in 1 .. d : cut[l] = child[l]
      BY <1>3
    <3> QED BY <3>2, <3>3
  <2>5. path \in TasksBelow(child) => path \in TasksBelow(node)
    BY <1>4, <2>1, <2>2, <2>3
  <2>6. cut = child => path \in TasksBelow(child)
    BY <1>3, <2>2
  <2> QED BY <2>2, <2>4, <2>5, <2>6
<1> QED BY <1>3, <1>5, <1>6 DEF cut

\* A node has no more siblings than its level has nodes.
LEMMA SiblingsBound ==
    ASSUME NEW node \in Nodes,
           NEW s \in SUBSET {other \in Nodes : Len(other) = Len(node) /\ Front(other) = Front(node)}
    PROVE  IsFiniteSet(s) /\ Cardinality(s) <= Sizes[Len(node)]
<1> DEFINE d == Len(node)
           choice == [other \in s |-> other[d]]
<1>1. d \in 1 .. Depth /\ Sizes[d] \in Nat \ {0} /\ d \in Nat /\ d # 0
  BY NodeLength, DepthIs
<1>2. ASSUME NEW other \in s
      PROVE  /\ other \in [1 .. d -> Nat] /\ other[d] \in 0 .. Sizes[d] - 1
             /\ \A l \in 1 .. d - 1 : other[l] = node[l]
  <2>1. other \in Nodes /\ Len(other) = d /\ Front(other) = Front(node)
    OBVIOUS
  <2>2. other \in [1 .. d -> Nat] /\ \A l \in 1 .. d : other[l] \in Nat /\ other[l] < Sizes[l]
    BY <2>1, NodeLength
  <2>3. d \in 1 .. d
    BY <1>1
  <2>4. other[d] \in 0 .. Sizes[d] - 1
    BY <1>1, <2>2, <2>3
  <2>5. \A l \in 1 .. d - 1 : other[l] = node[l]
    <3>0. SUFFICES ASSUME NEW l \in 1 .. d - 1 PROVE other[l] = node[l]
      OBVIOUS
    <3>1. node \in Seq(Nat) /\ other \in Seq(Nat)
      BY <2>1, NodeLength
    <3>2. Front(other)[l] = other[l]
      BY <1>1, <2>1, <3>1 DEF Front
    <3>3. Front(node)[l] = node[l]
      BY <1>1, <3>1 DEF Front
    <3> QED BY <2>1, <3>2, <3>3
  <2> QED BY <2>2, <2>4, <2>5
<1> HIDE DEF d
<1>3. choice \in Injection(s, 0 .. Sizes[d] - 1)
  <2>1. choice \in [s -> 0 .. Sizes[d] - 1]
    BY <1>2
  <2>2. ASSUME NEW a \in s, NEW b \in s, choice[a] = choice[b] PROVE a = b
    <3>1. \A l \in 1 .. d : a[l] = b[l]
      <4> SUFFICES ASSUME NEW l \in 1 .. d PROVE a[l] = b[l]
        OBVIOUS
      <4>1. l = d => a[l] = b[l]
        BY <2>2
      <4>2. l # d => l \in 1 .. d - 1
        BY <1>1
      <4> QED BY <1>2, <4>1, <4>2
    <3>2. a = [l \in 1 .. d |-> a[l]] /\ b = [l \in 1 .. d |-> b[l]]
      BY <1>2
    <3> QED BY <3>1, <3>2
  <2> HIDE DEF choice
  <2> QED BY <2>1, <2>2 DEF Injection, IsInjective
<1>4. IsFiniteSet(0 .. Sizes[d] - 1) /\ Cardinality(0 .. Sizes[d] - 1) = Sizes[d]
  <2>1. Sizes[d] - 1 \in Int /\ 0 \in Int /\ ~(0 > Sizes[d] - 1) /\ (Sizes[d] - 1) - 0 + 1 = Sizes[d]
    BY <1>1
  <2> DEFINE b == Sizes[d] - 1
  <2> HIDE DEF b
  <2>2. IsFiniteSet(0 .. b) /\ Cardinality(0 .. b) = b - 0 + 1
    <3>1. b \in Int /\ 0 \in Int /\ ~(0 > b)
      BY <2>1 DEF b
    <3> QED BY <3>1, FS_Interval
  <2> QED BY <2>1, <2>2 DEF b
<1> QED BY <1>3, <1>4, FS_Injection DEF d

\* The tasks in the order of a result, each once.
LEMMA InOrderOfTasks ==
    ASSUME NEW W \in SUBSET Tasks
    PROVE  /\ IsFiniteSet(W) /\ Cardinality(W) \in Nat
           /\ InOrder(W) \in [1 .. Cardinality(W) -> W]
           /\ \A i, j \in 1 .. Cardinality(W) : InOrder(W)[i] = InOrder(W)[j] => i = j
           /\ \A w \in W : \E i \in 1 .. Cardinality(W) : InOrder(W)[i] = w
<1> DEFINE n == Cardinality(W)
<1>1. IsFiniteSet(W) /\ n \in Nat
  BY TasksAreFinite, FS_Subset, FS_CardinalityType
<1>2. PICK f : Enumerates(f, W, TaskOrder)
  BY TasksAreFinite, TasksAreOrdered, EnumerationExists
<1>3. /\ f \in [1 .. n -> W] /\ DOMAIN f = 1 .. n
      /\ \A i, j \in 1 .. n : i < j => <<f[i], f[j]>> \in TaskOrder
  BY <1>2 DEF Enumerates
<1>4. \A i, j \in DOMAIN f : i < j => Before(f[i], f[j])
  BY <1>3 DEF TaskOrder
<1>5. \E seq \in [1 .. n -> W] : \A i, j \in DOMAIN seq : i < j => Before(seq[i], seq[j])
  BY <1>3, <1>4
<1> DEFINE g == InOrder(W)
<1>6. g \in [1 .. n -> W] /\ \A i, j \in DOMAIN g : i < j => Before(g[i], g[j])
  BY <1>5, Zenon DEF InOrder
<1> HIDE DEF g, n
<1>7. \A i, j \in 1 .. n : g[i] = g[j] => i = j
  <2> SUFFICES ASSUME NEW i \in 1 .. n, NEW j \in 1 .. n, g[i] = g[j], i # j PROVE FALSE
    OBVIOUS
  <2>1. g[i] \in Tasks /\ g[j] \in Tasks
    BY <1>6
  <2>2. Before(g[i], g[j]) \/ Before(g[j], g[i])
    <3>1. i < j \/ j < i
      BY <1>1
    <3>2. DOMAIN g = 1 .. n
      BY <1>6
    <3> QED BY <1>6, <3>1, <3>2
  <2>3. <<g[i], g[i]>> \in TaskOrder
    BY <2>1, <2>2 DEF TaskOrder
  <2> QED BY <2>1, <2>3, TasksAreOrdered
<1>8. \A w \in W : \E i \in 1 .. n : g[i] = w
  <2>1. g \in Injection(1 .. n, W)
    BY <1>6, <1>7 DEF Injection, IsInjective
  <2>2. IsFiniteSet(1 .. n) /\ Cardinality(1 .. n) = n
    <3>1. 1 \in Int /\ n \in Int /\ (IF 1 > n THEN 0 ELSE n - 1 + 1) = n
      BY <1>1
    <3> QED BY <3>1, FS_Interval
  <2>3. g \in Surjection(1 .. n, W)
    <3>1. Cardinality(1 .. n) = Cardinality(W)
      BY <2>2 DEF n
    <3> QED BY <1>1, <2>1, <3>1, FS_Injection
  <2> QED BY <2>3 DEF Surjection
<1> QED BY <1>1, <1>6, <1>7, <1>8 DEF g, n

-----------------------------------------------------------------------------
(* Sums over parts *)

LEMMA SumIsNat ==
    ASSUME NEW T, IsFiniteSet(T), NEW val, Values(val, T)
    PROVE  \A s \in SUBSET T : SumFunctionOnSet(val, s) \in Nat
<1> SUFFICES ASSUME NEW s \in SUBSET T PROVE SumFunctionOnSet(val, s) \in Nat
  OBVIOUS
<1>1. IsFiniteSet(s) /\ Values(val, s)
  BY FS_Subset DEF Values
<1> QED BY <1>1, SumFirst

LEMMA SumDisjoint ==
    ASSUME NEW T, IsFiniteSet(T), NEW val, Values(val, T), NEW A \in SUBSET T
    PROVE  \A b \in SUBSET (T \ A) :
             SumFunctionOnSet(val, A \cup b) = SumFunctionOnSet(val, A) + SumFunctionOnSet(val, b)
<1> DEFINE Sum(s) == SumFunctionOnSet(val, s)
           Rest == T \ A
           Good == {b \in SUBSET Rest : Sum(A \cup b) = Sum(A) + Sum(b)}
<1>0. \A s \in SUBSET T : Sum(s) \in Nat
  BY SumIsNat
<1>1. ASSUME NEW b \in SUBSET Rest, \A x \in b : b \ {x} \in Good PROVE b \in Good
  <2>1. CASE b = {}
    <3>1. A \cup b = A /\ Sum(b) = 0 /\ Sum(A) \in Nat
      <4>1. Values(val, {}) /\ IsFiniteSet({})
        BY FS_EmptySet DEF Values
      <4>2. SumFunctionOnSet(val, {}) = 0
        BY <4>1, SumFirst
      <4> QED BY <1>0, <2>1, <4>2
    <3> HIDE DEF Sum
    <3> QED BY <3>1
  <2>2. CASE b # {}
    <3>1. PICK x \in b : TRUE
      BY <2>2
    <3>2. b \ {x} \in Good /\ x \in T /\ x \notin A /\ (A \cup b) \ {x} = A \cup (b \ {x})
      BY <1>1
    <3>3. Sum(A \cup b) = val[x] + Sum(A \cup (b \ {x})) /\ Sum(b) = val[x] + Sum(b \ {x})
      <4>1. A \cup b \in SUBSET T /\ b \in SUBSET T /\ x \in A \cup b
        OBVIOUS
      <4>2. Sum(A \cup b) = val[x] + Sum((A \cup b) \ {x})
        BY <4>1, SumAny
      <4>3. Sum(b) = val[x] + Sum(b \ {x})
        BY <4>1, SumAny
      <4> QED BY <3>2, <4>2, <4>3
    <3>4. Sum(A \cup (b \ {x})) = Sum(A) + Sum(b \ {x})
      BY <3>2
    <3>5. Sum(A) \in Nat /\ Sum(b \ {x}) \in Nat /\ val[x] \in Nat
      BY <1>0, <3>2 DEF Values
    <3> HIDE DEF Sum
    <3>6. Sum(A \cup b) = Sum(A) + Sum(b)
      BY <3>3, <3>4, <3>5
    <3> QED BY <3>6 DEF Good
  <2> QED BY <2>1, <2>2
<1>2. IsFiniteSet(Rest)
  BY FS_Subset
<1> HIDE DEF Good, Rest
<1>3. \A b \in SUBSET Rest : b \in Good
  BY <1>1, <1>2, SubsetInduction
<1> QED BY <1>3 DEF Good, Rest

\* What is shared out among parts is the sum of what the parts have.
SharesOut(part, T, val, C, sub) ==
    /\ \A t \in T : part[t] \in C
    /\ \A c \in C : sub[c] = SumFunctionOnSet(val, {t \in T : part[t] = c})

LEMMA SumOfParts ==
    ASSUME NEW T, IsFiniteSet(T), NEW val, Values(val, T), NEW C, IsFiniteSet(C),
           NEW part, NEW sub, SharesOut(part, T, val, C, sub)
    PROVE  SumFunctionOnSet(sub, C) = SumFunctionOnSet(val, T)
<1> DEFINE Of(s) == {t \in T : part[t] \in s}
           Good == {s \in SUBSET C : SumFunctionOnSet(sub, s) = SumFunctionOnSet(val, Of(s))}
<1>0. Values(sub, C) /\ \A s \in SUBSET T : SumFunctionOnSet(val, s) \in Nat
  <2>1. \A s \in SUBSET T : SumFunctionOnSet(val, s) \in Nat
    BY SumIsNat
  <2>2. ASSUME NEW c \in C PROVE sub[c] \in Nat
    <3> DEFINE own == {t \in T : part[t] = c}
    <3>1. sub[c] = SumFunctionOnSet(val, own) /\ own \in SUBSET T
      BY DEF SharesOut
    <3> HIDE DEF own
    <3> QED BY <2>1, <3>1
  <2> QED BY <2>1, <2>2 DEF Values
<1>1. ASSUME NEW s \in SUBSET C, \A x \in s : s \ {x} \in Good PROVE s \in Good
  <2>1. CASE s = {}
    <3>1. Of(s) = {}
      BY <2>1
    <3>2. Values(val, {}) /\ Values(sub, {}) /\ IsFiniteSet({})
      BY FS_EmptySet DEF Values
    <3>3. SumFunctionOnSet(val, {}) = 0 /\ SumFunctionOnSet(sub, {}) = 0
      BY <3>2, SumFirst
    <3>4. SumFunctionOnSet(sub, s) = SumFunctionOnSet(val, Of(s))
      <4> HIDE DEF Of
      <4> QED BY <2>1, <3>1, <3>3
    <3> QED BY <3>4
  <2>2. CASE s # {}
    <3>1. PICK x \in s : TRUE
      BY <2>2
    <3> DEFINE own == {t \in T : part[t] = x}
               rest == Of(s \ {x})
    <3>2. Of(s) = rest \cup own /\ rest \in SUBSET T /\ own \in SUBSET (T \ rest) /\ own \in SUBSET T
      OBVIOUS
    <3>3. SumFunctionOnSet(sub, s \ {x}) = SumFunctionOnSet(val, rest)
      BY <1>1, <3>1
    <3>4. SumFunctionOnSet(sub, s) = sub[x] + SumFunctionOnSet(sub, s \ {x})
      BY <1>0, <3>1, SumAny
    <3>5. sub[x] = SumFunctionOnSet(val, own)
      BY <3>1 DEF SharesOut
    <3> DEFINE all == Of(s)
    <3> HIDE DEF own, rest, all
    <3>6. SumFunctionOnSet(val, rest \cup own) = SumFunctionOnSet(val, rest) + SumFunctionOnSet(val, own)
      BY <3>2, SumDisjoint
    <3>7. SumFunctionOnSet(val, rest) \in Nat /\ SumFunctionOnSet(val, own) \in Nat
      BY <1>0, <3>2
    <3>8. all = rest \cup own
      BY <3>2 DEF all
    <3>9. SumFunctionOnSet(sub, s) = SumFunctionOnSet(val, all)
      BY <3>3, <3>4, <3>5, <3>6, <3>7, <3>8
    <3> QED BY <3>9 DEF all
  <2> QED BY <2>1, <2>2
<1> HIDE DEF Good
<1>2. \A s \in SUBSET C : s \in Good
  BY <1>1, SubsetInduction
<1>3. Of(C) = T
  BY DEF SharesOut
<1> HIDE DEF Of
<1> QED BY <1>2, <1>3 DEF Good

LEMMA SumPlus ==
    ASSUME NEW T, IsFiniteSet(T), NEW f, Values(f, T), NEW g, Values(g, T),
           NEW h, \A x \in T : h[x] = f[x] + g[x]
    PROVE  SumFunctionOnSet(h, T) = SumFunctionOnSet(f, T) + SumFunctionOnSet(g, T)
<1> DEFINE Good == {s \in SUBSET T : SumFunctionOnSet(h, s) = SumFunctionOnSet(f, s) + SumFunctionOnSet(g, s)}
<1>0. Values(h, T)
  BY DEF Values
<1>1. ASSUME NEW s \in SUBSET T, \A x \in s : s \ {x} \in Good PROVE s \in Good
  <2>1. CASE s = {}
    <3>1. Values(f, {}) /\ Values(g, {}) /\ Values(h, {}) /\ IsFiniteSet({})
      BY FS_EmptySet DEF Values
    <3>2. SumFunctionOnSet(f, {}) = 0 /\ SumFunctionOnSet(g, {}) = 0 /\ SumFunctionOnSet(h, {}) = 0
      BY <3>1, SumFirst
    <3> QED BY <2>1, <3>2
  <2>2. CASE s # {}
    <3>1. PICK x \in s : TRUE
      BY <2>2
    <3>2. /\ SumFunctionOnSet(f, s) = f[x] + SumFunctionOnSet(f, s \ {x})
          /\ SumFunctionOnSet(g, s) = g[x] + SumFunctionOnSet(g, s \ {x})
          /\ SumFunctionOnSet(h, s) = h[x] + SumFunctionOnSet(h, s \ {x})
      BY <1>0, <3>1, SumAny
    <3>3. SumFunctionOnSet(h, s \ {x}) = SumFunctionOnSet(f, s \ {x}) + SumFunctionOnSet(g, s \ {x})
      BY <1>1, <3>1
    <3>4. /\ SumFunctionOnSet(f, s \ {x}) \in Nat /\ SumFunctionOnSet(g, s \ {x}) \in Nat
          /\ f[x] \in Nat /\ g[x] \in Nat /\ h[x] = f[x] + g[x]
      BY <3>1, SumIsNat DEF Values
    <3> QED BY <3>2, <3>3, <3>4
  <2> QED BY <2>1, <2>2
<1> HIDE DEF Good
<1>2. \A s \in SUBSET T : s \in Good
  BY <1>1, SubsetInduction
<1> QED BY <1>2 DEF Good

LEMMA SumAtLeast ==
    ASSUME NEW T, IsFiniteSet(T), NEW val, Values(val, T), NEW x \in T
    PROVE  val[x] <= SumFunctionOnSet(val, T)
<1>1. SumFunctionOnSet(val, T) = val[x] + SumFunctionOnSet(val, T \ {x})
  BY SumAny
<1>2. SumFunctionOnSet(val, T \ {x}) \in Nat /\ val[x] \in Nat
  BY SumIsNat DEF Values
<1> QED BY <1>1, <1>2

LEMMA SumAtMost ==
    ASSUME NEW T, IsFiniteSet(T), NEW val, Values(val, T), NEW most \in Nat, \A x \in T : val[x] <= most
    PROVE  SumFunctionOnSet(val, T) <= most * Cardinality(T)
<1> DEFINE Good == {s \in SUBSET T : SumFunctionOnSet(val, s) <= most * Cardinality(s)}
<1>1. ASSUME NEW s \in SUBSET T, \A x \in s : s \ {x} \in Good PROVE s \in Good
  <2>1. CASE s = {}
    <3>1. Values(val, {}) /\ IsFiniteSet({}) /\ Cardinality(s) = 0
      BY <2>1, FS_EmptySet DEF Values
    <3>2. SumFunctionOnSet(val, s) = 0
      BY <2>1, <3>1, SumFirst
    <3> QED BY <3>1, <3>2
  <2>2. CASE s # {}
    <3>1. PICK x \in s : TRUE
      BY <2>2
    <3> DEFINE n == Cardinality(s \ {x})
               rest == SumFunctionOnSet(val, s \ {x})
    <3>2. Cardinality(s) = n + 1 /\ n \in Nat
      <4>1. IsFiniteSet(s) /\ IsFiniteSet(s \ {x})
        BY FS_Subset
      <4>2. n \in Nat /\ Cardinality(s) \in Nat
        BY <4>1, FS_CardinalityType
      <4>3. n = Cardinality(s) - 1
        BY <3>1, <4>1, FS_RemoveElement
      <4> QED BY <4>2, <4>3
    <3>3. SumFunctionOnSet(val, s) = val[x] + rest
      BY <3>1, SumAny
    <3>4. rest \in Nat /\ val[x] \in Nat /\ val[x] <= most
      BY <3>1, SumIsNat DEF Values
    <3>5. rest <= most * n
      BY <1>1, <3>1
    <3> HIDE DEF n, rest
    <3>6. most * (n + 1) = most * n + most /\ most * n \in Nat
      BY <3>2
    <3>7. SumFunctionOnSet(val, s) <= most * (n + 1)
      BY <3>3, <3>4, <3>5, <3>6
    <3> QED BY <3>2, <3>7
  <2> QED BY <2>1, <2>2
<1> HIDE DEF Good
<1>2. \A s \in SUBSET T : s \in Good
  BY <1>1, SubsetInduction
<1> QED BY <1>2 DEF Good

-----------------------------------------------------------------------------
(* How long they are together *)

Lengths(pieces) == [k \in DOMAIN pieces |-> Len(pieces[k])]

\* As long as all the sequences together.
LEMMA FlattenIs ==
    ASSUME NEW S
    PROVE  \A n \in Nat : \A pieces \in [1 .. n -> Seq(S)] :
             /\ FlattenSeq(pieces) \in Seq(S)
             /\ Len(FlattenSeq(pieces)) = SumFunctionOnSet(Lengths(pieces), 1 .. n)
<1> DEFINE Is(n) == \A pieces \in [1 .. n -> Seq(S)] :
             /\ FlattenSeq(pieces) \in Seq(S)
             /\ Len(FlattenSeq(pieces)) = SumFunctionOnSet(Lengths(pieces), 1 .. n)
           T == {n \in Nat : Is(n)}
<1>0. ASSUME NEW n \in Nat, NEW pieces \in [1 .. n -> Seq(S)]
      PROVE  /\ DOMAIN pieces = 1 .. n /\ pieces \in Seq(Seq(S)) /\ Len(pieces) = n
             /\ IsFiniteSet(1 .. n) /\ Values(Lengths(pieces), 1 .. n)
             /\ \A k \in 1 .. n : Lengths(pieces)[k] = Len(pieces[k]) /\ Len(pieces[k]) \in Nat
  <2>1. DOMAIN pieces = 1 .. n /\ pieces \in Seq(Seq(S)) /\ Len(pieces) = n
    OBVIOUS
  <2>2. IsFiniteSet(1 .. n)
    BY FS_Interval
  <2>3. \A k \in 1 .. n : Lengths(pieces)[k] = Len(pieces[k]) /\ Len(pieces[k]) \in Nat
    <3> SUFFICES ASSUME NEW k \in 1 .. n PROVE Lengths(pieces)[k] = Len(pieces[k]) /\ Len(pieces[k]) \in Nat
      OBVIOUS
    <3>1. pieces[k] \in Seq(S)
      OBVIOUS
    <3> QED BY <2>1, <3>1, LenProperties DEF Lengths
  <2> QED BY <2>1, <2>2, <2>3 DEF Values
<1>1. 0 \in T
  <2> SUFFICES ASSUME NEW pieces \in [1 .. 0 -> Seq(S)]
               PROVE  /\ FlattenSeq(pieces) \in Seq(S)
                      /\ Len(FlattenSeq(pieces)) = SumFunctionOnSet(Lengths(pieces), 1 .. 0)
    OBVIOUS
  <2>1. pieces = <<>> /\ Len(pieces) = 0
    OBVIOUS
  <2>2. FlattenSeq(pieces) = <<>>
    BY <2>1, Zenon DEF FlattenSeq
  <2>3. SumFunctionOnSet(Lengths(pieces), 1 .. 0) = 0
    <3>1. 1 .. 0 = {} /\ 0 \in Nat
      OBVIOUS
    <3>2. IsFiniteSet(1 .. 0) /\ Values(Lengths(pieces), 1 .. 0)
      BY <1>0, <3>1
    <3> QED BY <3>1, <3>2, SumFirst
  <2> QED BY <2>2, <2>3
<1>2. ASSUME NEW n \in Nat, n \in T PROVE n + 1 \in T
  <2> SUFFICES ASSUME NEW pieces \in [1 .. n + 1 -> Seq(S)]
               PROVE  /\ FlattenSeq(pieces) \in Seq(S)
                      /\ Len(FlattenSeq(pieces)) = SumFunctionOnSet(Lengths(pieces), 1 .. n + 1)
    OBVIOUS
  <2> DEFINE others == [k \in 1 .. n |-> pieces[k]]
  <2>1. /\ pieces \in Seq(Seq(S)) /\ Len(pieces) = n + 1 /\ pieces # <<>>
        /\ IsFiniteSet(1 .. n + 1) /\ Values(Lengths(pieces), 1 .. n + 1)
        /\ \A k \in 1 .. n + 1 : Lengths(pieces)[k] = Len(pieces[k]) /\ Len(pieces[k]) \in Nat
    <3>1. /\ pieces \in Seq(Seq(S)) /\ Len(pieces) = n + 1
          /\ IsFiniteSet(1 .. n + 1) /\ Values(Lengths(pieces), 1 .. n + 1)
          /\ \A k \in 1 .. n + 1 : Lengths(pieces)[k] = Len(pieces[k]) /\ Len(pieces[k]) \in Nat
      <4>1. n + 1 \in Nat
        OBVIOUS
      <4> QED BY <1>0, <4>1
    <3>2. Len(pieces) # 0
      BY <3>1
    <3> QED BY <3>1, <3>2
  <2>2. others \in [1 .. n -> Seq(S)] /\ \A k \in 1 .. n : others[k] = pieces[k]
    OBVIOUS
  <2> HIDE DEF others, T
  <2>3. /\ others \in Seq(Seq(S)) /\ Len(others) = n
        /\ IsFiniteSet(1 .. n) /\ Values(Lengths(others), 1 .. n)
        /\ \A k \in 1 .. n : Lengths(others)[k] = Len(others[k])
    BY <1>0, <2>2
  <2>4. FlattenSeq(others) \in Seq(S) /\ Len(FlattenSeq(others)) = SumFunctionOnSet(Lengths(others), 1 .. n)
    BY <1>2, <2>2 DEF T
  <2> DEFINE last == pieces[n + 1]
  <2>5. last \in Seq(S) /\ Len(last) \in Nat
    BY <2>1
  <2> HIDE DEF last
  <2>6. FlattenSeq(pieces) \in Seq(S) /\ Len(FlattenSeq(pieces)) = Len(FlattenSeq(others)) + Len(last)
    <3>1. FlattenSeq(pieces) \in Seq(S)
      BY <2>1, FlattenLast
    <3>2. CASE n = 0
      <4>1. FlattenSeq(pieces) = last
        BY <2>1, <3>2, FlattenLast DEF last
      <4>2. Len(FlattenSeq(others)) = 0
        <5>1. others = <<>>
          BY <2>3, <3>2
        <5>2. FlattenSeq(others) = <<>>
          BY <2>3, <3>2, <5>1, Zenon DEF FlattenSeq
        <5> QED BY <5>2
      <4> QED BY <2>5, <3>1, <4>1, <4>2
    <3>3. CASE n # 0
      <4>1. others # <<>> /\ Len(others) + 1 = Len(pieces) /\ \A i \in 1 .. Len(others) : others[i] = pieces[i]
        BY <2>1, <2>2, <2>3, <3>3
      <4>2. FlattenSeq(pieces) = FlattenSeq(others) \o pieces[Len(pieces)]
        BY <2>1, <2>3, <4>1, FlattenLast
      <4>3. FlattenSeq(pieces) = FlattenSeq(others) \o last
        BY <2>1, <4>2 DEF last
      <4> QED BY <2>4, <2>5, <3>1, <4>3, ConcatProperties
    <3> QED BY <3>2, <3>3
  <2>7. SumFunctionOnSet(Lengths(pieces), 1 .. n + 1) = Len(last) + SumFunctionOnSet(Lengths(pieces), 1 .. n)
    <3>1. n + 1 \in 1 .. n + 1 /\ (1 .. n + 1) \ {n + 1} = 1 .. n
      OBVIOUS
    <3>2. Lengths(pieces)[n + 1] = Len(last)
      BY <2>1, <3>1 DEF last
    <3> DEFINE places == 1 .. n + 1
               vals == Lengths(pieces)
               y == n + 1
    <3>3. IsFiniteSet(places) /\ Values(vals, places) /\ y \in places /\ places \ {y} = 1 .. n
      BY <2>1, <3>1
    <3> HIDE DEF places, vals, y
    <3>4. SumFunctionOnSet(vals, places) = vals[y] + SumFunctionOnSet(vals, places \ {y})
      BY <3>3, SumAny
    <3> QED BY <3>2, <3>3, <3>4 DEF places, vals, y
  <2>8. SumFunctionOnSet(Lengths(pieces), 1 .. n) = SumFunctionOnSet(Lengths(others), 1 .. n)
    <3>1. \A k \in 1 .. n : Lengths(pieces)[k] = Lengths(others)[k]
      BY <2>1, <2>2, <2>3
    <3> QED BY <2>3, <3>1, SumSame
  <2>9. Len(FlattenSeq(others)) \in Nat
    BY <2>4, LenProperties
  <2> QED BY <2>4, <2>5, <2>6, <2>7, <2>8, <2>9
<1> HIDE DEF T
<1>3. \A n \in Nat : n \in T
  BY <1>1, <1>2, Induction
<1> QED BY <1>3 DEF T

LEMMA SumSingle ==
    ASSUME NEW x, NEW val, val[x] \in Nat
    PROVE  SumFunctionOnSet(val, {x}) = val[x]
<1>1. IsFiniteSet({x}) /\ Values(val, {x}) /\ IsFiniteSet({}) /\ Values(val, {}) /\ {x} \ {x} = {}
  BY FS_EmptySet, FS_Singleton DEF Values
<1>2. SumFunctionOnSet(val, {x}) = val[x] + SumFunctionOnSet(val, {x} \ {x})
  BY <1>1, SumAny
<1>3. SumFunctionOnSet(val, {}) = 0
  BY <1>1, SumFirst
<1> QED BY <1>1, <1>2, <1>3

\* What some tasks have, in their order, is as much as they have together.
LEMMA FlattenTasks ==
    ASSUME NEW S, NEW stats, NEW W \in SUBSET Tasks, \A w \in W : stats[w] \in Seq(S),
           NEW lens, \A w \in W : lens[w] = Len(stats[w])
    PROVE  LET below == InOrder(W)
               all == FlattenSeq([k \in DOMAIN below |-> stats[below[k]]])
           IN  all \in Seq(S) /\ Len(all) = SumFunctionOnSet(lens, W)
<1> DEFINE n == Cardinality(W)
           g == InOrder(W)
           pieces == [k \in DOMAIN g |-> stats[g[k]]]
<1>1. /\ IsFiniteSet(W) /\ n \in Nat /\ g \in [1 .. n -> W]
      /\ \A i, j \in 1 .. n : g[i] = g[j] => i = j
      /\ \A w \in W : \E i \in 1 .. n : g[i] = w
  BY InOrderOfTasks
<1> HIDE DEF g, n
<1>2. DOMAIN g = 1 .. n /\ pieces \in [1 .. n -> Seq(S)] /\ \A k \in 1 .. n : pieces[k] = stats[g[k]]
  BY <1>1
<1> HIDE DEF pieces
<1>3. FlattenSeq(pieces) \in Seq(S) /\ Len(FlattenSeq(pieces)) = SumFunctionOnSet(Lengths(pieces), 1 .. n)
  BY <1>1, <1>2, FlattenIs
<1>4. \A k \in 1 .. n : Lengths(pieces)[k] = lens[g[k]] /\ lens[g[k]] \in Nat
  <2> SUFFICES ASSUME NEW k \in 1 .. n PROVE Lengths(pieces)[k] = lens[g[k]] /\ lens[g[k]] \in Nat
    OBVIOUS
  <2>1. k \in DOMAIN pieces /\ g[k] \in W /\ pieces[k] = stats[g[k]] /\ pieces[k] \in Seq(S)
    BY <1>1, <1>2
  <2>2. Len(pieces[k]) \in Nat
    BY <2>1, LenProperties
  <2> QED BY <2>1, <2>2 DEF Lengths
<1>5. SumFunctionOnSet(lens, W) = SumFunctionOnSet(Lengths(pieces), 1 .. n)
  <2> DEFINE vals == Lengths(pieces)
             T == 1 .. n
  <2>1. IsFiniteSet(1 .. n) /\ Values(Lengths(pieces), 1 .. n) /\ \A k \in 1 .. n : g[k] \in W
    <3>1. IsFiniteSet(1 .. n)
      BY <1>1, FS_Interval
    <3> QED BY <1>1, <1>4, <3>1 DEF Values
  <2>2. ASSUME NEW w \in W
        PROVE  lens[w] = SumFunctionOnSet(Lengths(pieces), {k \in 1 .. n : g[k] = w})
    <3>1. PICK i \in 1 .. n : g[i] = w
      BY <1>1
    <3>2. {k \in 1 .. n : g[k] = w} = {i}
      BY <1>1, <3>1
    <3>3. Lengths(pieces)[i] \in Nat /\ Lengths(pieces)[i] = lens[w]
      BY <1>4, <3>1
    <3> QED BY <3>2, <3>3, SumSingle
  <2>3. IsFiniteSet(T) /\ Values(vals, T) /\ SharesOut(g, T, vals, W, lens)
    BY <2>1, <2>2 DEF SharesOut
  <2> HIDE DEF vals, T
  <2>4. SumFunctionOnSet(lens, W) = SumFunctionOnSet(vals, T)
    BY <1>1, <2>3, SumOfParts
  <2> QED BY <2>4 DEF vals, T
<1>6. FlattenSeq(pieces) \in Seq(S) /\ Len(FlattenSeq(pieces)) = SumFunctionOnSet(lens, W)
  BY <1>3, <1>5
<1> QED BY <1>6 DEF pieces, g

-----------------------------------------------------------------------------
(* The scores of a result *)

TokensOf(paths) == [task : paths, score : Scores]

\* A sequence over a set is one over a larger set.
LEMMA SeqOver ==
    ASSUME NEW S, NEW T, S \subseteq T
    PROVE  \A seq \in Seq(S) : seq \in Seq(T)
<1> SUFFICES ASSUME NEW seq \in Seq(S) PROVE seq \in Seq(T)
  OBVIOUS
<1>1. Len(seq) \in Nat /\ seq \in [1 .. Len(seq) -> S]
  BY LenProperties
<1>2. seq \in [1 .. Len(seq) -> T]
  BY <1>1
<1> QED BY <1>1, <1>2

\* What an episode, or a result, holds: for every task, the scores of this task.
ScoresOfTasks == {data \in [Tasks -> Seq(TokensOf(Tasks))] :
                    \A path \in Tasks : data[path] \in Seq(TokensOf({path}))}

LEMMA LatestIs ==
    ASSUME NEW S, NEW seq \in Seq(S), NEW n \in Nat
    PROVE  /\ LatestOf(n, seq) \in Seq(S)
           /\ Len(LatestOf(n, seq)) = IF Len(seq) > n THEN n ELSE Len(seq)
<1>1. Len(seq) \in Nat
  BY LenProperties
<1>2. CASE Len(seq) > n
  <2>1. LatestOf(n, seq) = SubSeq(seq, Len(seq) - n + 1, Len(seq))
    BY <1>2 DEF LatestOf
  <2> QED BY <1>1, <1>2, <2>1
<1>3. CASE ~(Len(seq) > n)
  <2>1. LatestOf(n, seq) = SubSeq(seq, 1, Len(seq))
    BY <1>3 DEF LatestOf
  <2>2. SubSeq(seq, 1, Len(seq)) = seq
    OBVIOUS
  <2> QED BY <1>3, <2>1, <2>2
<1> QED BY <1>1, <1>2, <1>3

\* There is a task.
LEMMA SomeTask == \E path : path \in Tasks
<1> DEFINE path == [l \in 1 .. Depth |-> 0]
<1>1. path \in [1 .. Depth -> Nat] /\ \A l \in 1 .. Depth : path[l] < Sizes[l]
  BY DepthIs
<1>2. path \in Tasks
  BY <1>1, TaskIs
<1> QED BY <1>2

\* The episodes of a result, one after the other, task by task.
LEMMA HistStatsAre ==
    ASSUME NEW episodes \in Seq(ScoresOfTasks)
    PROVE  IF episodes = <<>> THEN DOMAIN HistStats(episodes) = {} ELSE HistStats(episodes) \in ScoresOfTasks
<1> DEFINE n == Len(episodes)
           fields == UNION {DOMAIN episodes[i] : i \in DOMAIN episodes}
           pieces(path) == [i \in DOMAIN episodes |-> IF path \in DOMAIN episodes[i] THEN episodes[i][path] ELSE <<>>]
<1>1. n \in Nat /\ DOMAIN episodes = 1 .. n /\ \A i \in 1 .. n : episodes[i] \in ScoresOfTasks
  BY LenProperties, ElementOfSeq
<1>2. \A i \in 1 .. n : /\ DOMAIN episodes[i] = Tasks
                        /\ \A path \in Tasks : episodes[i][path] \in Seq(TokensOf({path}))
  BY <1>1 DEF ScoresOfTasks
<1>3. HistStats(episodes) = [path \in fields |-> FlattenSeq(pieces(path))]
  BY Zenon DEF HistStats
<1>4. CASE episodes = <<>>
  <2>1. fields = {}
    BY <1>4
  <2> HIDE DEF fields, pieces
  <2> QED BY <1>3, <1>4, <2>1
<1>5. CASE episodes # <<>>
  <2>1. fields = Tasks
    <3>1. 1 \in 1 .. n
      BY <1>1, <1>5, EmptySeq
    <3> QED BY <1>1, <1>2, <3>1
  <2>2. ASSUME NEW path \in Tasks PROVE FlattenSeq(pieces(path)) \in Seq(TokensOf({path}))
    <3> DEFINE S == TokensOf({path})
               all == pieces(path)
    <3>1. all \in [1 .. n -> Seq(S)]
      BY <1>1, <1>2
    <3> HIDE DEF all, S, n
    <3>2. FlattenSeq(all) \in Seq(S)
      BY <1>1, <3>1, FlattenIs
    <3> QED BY <3>2 DEF all, S
  <2>3. ASSUME NEW path \in Tasks PROVE Seq(TokensOf({path})) \subseteq Seq(TokensOf(Tasks))
    <3>1. TokensOf({path}) \subseteq TokensOf(Tasks)
      BY DEF TokensOf
    <3> DEFINE A == TokensOf({path})
               B == TokensOf(Tasks)
    <3> HIDE DEF A, B
    <3>2. \A seq \in Seq(A) : seq \in Seq(B)
      BY <3>1, SeqOver DEF A, B
    <3> QED BY <3>2 DEF A, B
  <2> HIDE DEF fields, pieces
  <2>4. \A path \in Tasks : FlattenSeq(pieces(path)) \in Seq(TokensOf(Tasks))
    BY <2>2, <2>3
  <2> DEFINE stats == HistStats(episodes)
  <2>5. stats \in [Tasks -> Seq(TokensOf(Tasks))]
    BY <1>3, <2>1, <2>4
  <2>6. \A path \in Tasks : stats[path] \in Seq(TokensOf({path}))
    BY <1>3, <2>1, <2>2
  <2> HIDE DEF stats
  <2>7. stats \in ScoresOfTasks
    BY <2>5, <2>6 DEF ScoresOfTasks
  <2> QED BY <1>5, <2>7 DEF stats
<1> QED BY <1>4, <1>5

\* The children of a node have together what it has.
Adds(lens, node) == lens[node] = SumFunctionOnSet(lens, ChildrenOf(node))

\* The scores for every node: of the tasks below it, as many as its children have.
IsGathered(new) ==
    /\ DOMAIN new = Nodes
    /\ \A node \in Nodes : new[node] \in Seq(TokensOf(TasksBelow(node)))
    /\ \A node \in Nodes : ChildrenOf(node) # {} => Adds(Lengths(new), node)

LEMMA ScoresBelow ==
    ASSUME NEW stats \in ScoresOfTasks, NEW node \in Nodes
    PROVE  LET below == InOrder(TasksBelow(node))
               all == FlattenSeq([k \in DOMAIN below |-> stats[below[k]]])
           IN  /\ all \in Seq(TokensOf(TasksBelow(node)))
               /\ Len(all) = SumFunctionOnSet(Lengths(stats), TasksBelow(node))
<1> DEFINE W == TasksBelow(node)
           S == TokensOf(W)
           lens == Lengths(stats)
<1>1. W \in SUBSET Tasks
  BY DEF TasksBelow
<1>2. \A w \in W : stats[w] \in Seq(S)
  <2> SUFFICES ASSUME NEW w \in W PROVE stats[w] \in Seq(S)
    OBVIOUS
  <2>1. stats[w] \in Seq(TokensOf({w}))
    BY <1>1 DEF ScoresOfTasks
  <2>2. TokensOf({w}) \subseteq S
    BY DEF TokensOf
  <2> DEFINE R == TokensOf({w})
  <2> HIDE DEF S, R
  <2>3. \A seq \in Seq(R) : seq \in Seq(S)
    BY <2>2, SeqOver DEF R
  <2> QED BY <2>1, <2>3 DEF R
<1>3. \A w \in W : lens[w] = Len(stats[w])
  <2>1. DOMAIN stats = Tasks
    BY DEF ScoresOfTasks
  <2> QED BY <1>1, <2>1 DEF Lengths
<1> HIDE DEF W, S, lens
<1>4. LET below == InOrder(W)
          all == FlattenSeq([k \in DOMAIN below |-> stats[below[k]]])
      IN  all \in Seq(S) /\ Len(all) = SumFunctionOnSet(lens, W)
  BY <1>1, <1>2, <1>3, FlattenTasks
<1> QED BY <1>4 DEF W, S, lens

LEMMA GatheredIs ==
    ASSUME NEW stats \in ScoresOfTasks
    PROVE  IsGathered(Gathered(stats))
<1> DEFINE new == Gathered(stats)
           lens == Lengths(stats)
           Below(node) == LET below == InOrder(TasksBelow(node))
                          IN  FlattenSeq([k \in DOMAIN below |-> stats[below[k]]])
<1>1. DOMAIN stats = Tasks /\ \A path \in Tasks : Len(stats[path]) \in Nat
  BY LenProperties DEF ScoresOfTasks
<1>2. new = [node \in Nodes |-> Below(node)]
  <2>1. NodesOn(DOMAIN stats) = Nodes
    BY <1>1, NodesAreFinite
  <2>2. \A node : {path \in DOMAIN stats : IsPrefix(node, path)} = TasksBelow(node)
    BY <1>1, Zenon DEF TasksBelow
  <2> QED BY <2>1, <2>2, Zenon DEF Gathered
<1>3. \A node \in Nodes : /\ new[node] \in Seq(TokensOf(TasksBelow(node)))
                          /\ Len(new[node]) = SumFunctionOnSet(lens, TasksBelow(node))
  <2> SUFFICES ASSUME NEW node \in Nodes
               PROVE  /\ new[node] \in Seq(TokensOf(TasksBelow(node)))
                      /\ Len(new[node]) = SumFunctionOnSet(lens, TasksBelow(node))
    OBVIOUS
  <2>1. new[node] = Below(node)
    <3> HIDE DEF new, Below
    <3> QED BY <1>2
  <2>2. /\ Below(node) \in Seq(TokensOf(TasksBelow(node)))
        /\ Len(Below(node)) = SumFunctionOnSet(lens, TasksBelow(node))
    BY ScoresBelow
  <2> HIDE DEF new, Below, lens
  <2> QED BY <2>1, <2>2
<1>4. DOMAIN new = Nodes
  <2> HIDE DEF new, Below
  <2> QED BY <1>2
<1> HIDE DEF new, Below
<1>5. ASSUME NEW node \in Nodes, ChildrenOf(node) # {} PROVE Adds(Lengths(new), node)
  <2> DEFINE T == TasksBelow(node)
             C == ChildrenOf(node)
             part == [path \in Tasks |-> SubSeq(path, 1, Len(node) + 1)]
             sub == Lengths(new)
  <2>1. IsFiniteSet(T) /\ IsFiniteSet(C) /\ T \in SUBSET Tasks /\ C \in SUBSET Nodes
    <3>1. T \in SUBSET Tasks /\ C \in SUBSET Nodes
      BY DEF TasksBelow, ChildrenOf
    <3> HIDE DEF T, C
    <3> QED BY <3>1, TasksAreFinite, NodesAreFinite, FS_Subset
  <2>2. Values(lens, T)
    BY <1>1, <2>1 DEF Values, Lengths
  <2>3. \A t \in T : part[t] \in C
    BY <1>5, <2>1, ChildrenShare
  <2>4. ASSUME NEW c \in C PROVE sub[c] = SumFunctionOnSet(lens, {t \in T : part[t] = c})
    <3>1. {t \in T : part[t] = c} = TasksBelow(c)
      <4>1. \A t \in Tasks : t \in TasksBelow(c) <=> t \in T /\ part[t] = c
        BY <1>5, ChildrenShare
      <4>2. TasksBelow(c) \in SUBSET Tasks
        BY DEF TasksBelow
      <4> HIDE DEF T, part
      <4> QED BY <2>1, <4>1, <4>2
    <3>2. c \in Nodes
      BY <2>1
    <3>3. sub[c] = Len(new[c])
      BY <1>4, <3>2 DEF Lengths
    <3> HIDE DEF sub, lens, T, part
    <3> QED BY <1>3, <3>1, <3>2, <3>3
  <2>5. sub[node] = SumFunctionOnSet(lens, T)
    <3>1. sub[node] = Len(new[node])
      BY <1>4 DEF Lengths
    <3> HIDE DEF lens, sub
    <3> QED BY <1>3, <3>1
  <2> HIDE DEF T, C, part, sub, lens
  <2>6. SharesOut(part, T, lens, C, sub)
    BY <2>3, <2>4 DEF SharesOut
  <2>7. SumFunctionOnSet(sub, C) = SumFunctionOnSet(lens, T)
    BY <2>1, <2>2, <2>6, SumOfParts
  <2>8. sub[node] = SumFunctionOnSet(sub, C)
    BY <2>5, <2>7
  <2> QED BY <2>8 DEF Adds, sub, C
<1>6. IsGathered(new)
  BY <1>3, <1>4, <1>5 DEF IsGathered
<1> QED BY <1>6 DEF new

\* Nothing is gathered from nothing.
LEMMA NothingGathered ==
    ASSUME NEW stats, DOMAIN stats = {}
    PROVE  DOMAIN Gathered(stats) = {}
<1>1. NodesOn(DOMAIN stats) = {}
  BY DEF NodesOn
<1> QED BY <1>1 DEF Gathered

-----------------------------------------------------------------------------
(* The windows of the driver *)

\* As many scores as a node has; none when it has no window.
Kept(windows) == [node \in Nodes |-> IF node \in DOMAIN windows THEN Len(windows[node]) ELSE 0]

\* The windows are of the last scores, and nothing was dropped below a node that is not full.
WindowsInv(windows) ==
    /\ DOMAIN windows \in {{}, Nodes}
    /\ \A node \in DOMAIN windows : windows[node] \in Seq(TokensOf(TasksBelow(node)))
    /\ \A node \in Nodes : Kept(windows)[node] <= HistoryLength
    /\ \A node \in Nodes : Kept(windows)[node] < HistoryLength /\ ChildrenOf(node) # {} => Adds(Kept(windows), node)

LEMMA KeptIsNat ==
    ASSUME NEW windows, WindowsInv(windows)
    PROVE  \A node \in Nodes : Kept(windows)[node] \in Nat
<1> SUFFICES ASSUME NEW node \in Nodes PROVE Kept(windows)[node] \in Nat
  OBVIOUS
<1>1. CASE node \in DOMAIN windows
  <2>1. windows[node] \in Seq(TokensOf(TasksBelow(node)))
    BY <1>1 DEF WindowsInv
  <2>2. Len(windows[node]) \in Nat
    BY <2>1, LenProperties
  <2> QED BY <1>1, <2>2 DEF Kept
<1>2. CASE node \notin DOMAIN windows
  BY <1>2 DEF Kept
<1> QED BY <1>1, <1>2

LEMMA ChildrenAreFinite ==
    ASSUME NEW node \in Nodes
    PROVE  IsFiniteSet(ChildrenOf(node)) /\ ChildrenOf(node) \in SUBSET Nodes
<1>1. ChildrenOf(node) \in SUBSET Nodes
  BY DEF ChildrenOf
<1> QED BY <1>1, NodesAreFinite, FS_Subset

\* A window that takes in new scores.
LEMMA WindowIs ==
    ASSUME NEW S, NEW scores \in Seq(S), NEW new \in Seq(S)
    PROVE  /\ Window(scores, new) \in Seq(S) /\ Len(scores) \in Nat /\ Len(new) \in Nat
           /\ Len(Window(scores, new)) =
                IF Len(scores) + Len(new) > HistoryLength THEN HistoryLength ELSE Len(scores) + Len(new)
<1>1. HistoryLength \in Nat
  BY CurriculumAssumption
<1>2. scores \o new \in Seq(S) /\ Len(scores \o new) = Len(scores) + Len(new)
      /\ Len(scores) \in Nat /\ Len(new) \in Nat
  BY ConcatProperties, LenProperties
<1> DEFINE both == scores \o new
<1> HIDE DEF both
<1>3. LatestOf(HistoryLength, both) \in Seq(S)
      /\ Len(LatestOf(HistoryLength, both)) = IF Len(both) > HistoryLength THEN HistoryLength ELSE Len(both)
  BY <1>1, <1>2, LatestIs DEF both
<1>4. Window(scores, new) = LatestOf(HistoryLength, both)
  BY DEF Window, both
<1> QED BY <1>2, <1>3, <1>4 DEF both

LEMMA UpdatedNode ==
    ASSUME NEW windows, WindowsInv(windows), NEW new, IsGathered(new), NEW node \in Nodes
    PROVE  /\ node \in DOMAIN Updated(windows, new)
           /\ Updated(windows, new)[node] \in Seq(TokensOf(TasksBelow(node)))
           /\ Lengths(new)[node] \in Nat
           /\ Len(Updated(windows, new)[node]) =
                IF Kept(windows)[node] + Lengths(new)[node] > HistoryLength THEN HistoryLength
                ELSE Kept(windows)[node] + Lengths(new)[node]
<1> DEFINE old == IF node \in DOMAIN windows THEN windows[node] ELSE <<>>
           S == TokensOf(TasksBelow(node))
<1>1. node \in DOMAIN new /\ new[node] \in Seq(S)
  BY DEF IsGathered
<1>2. old \in Seq(S) /\ Len(old) = Kept(windows)[node]
  BY DEF WindowsInv, Kept
<1>3. node \in DOMAIN Updated(windows, new) /\ Updated(windows, new)[node] = Window(old, new[node])
  BY <1>1 DEF Updated
<1>4. Lengths(new)[node] = Len(new[node])
  BY <1>1 DEF Lengths
<1> HIDE DEF old, S
<1>5. /\ Window(old, new[node]) \in Seq(S) /\ Len(new[node]) \in Nat
      /\ Len(Window(old, new[node])) =
           IF Len(old) + Len(new[node]) > HistoryLength THEN HistoryLength ELSE Len(old) + Len(new[node])
  BY <1>1, <1>2, WindowIs
<1>6. Updated(windows, new)[node] \in Seq(TokensOf(TasksBelow(node)))
  BY <1>3, <1>5 DEF S
<1> QED BY <1>2, <1>3, <1>4, <1>5, <1>6

\* The windows stay consistent when the scores of a result are taken in.
LEMMA UpdatedKept ==
    ASSUME NEW windows, WindowsInv(windows), NEW new, IsGathered(new)
    PROVE  WindowsInv(Updated(windows, new)) /\ DOMAIN Updated(windows, new) = Nodes
<1> DEFINE after == Updated(windows, new)
           was == Kept(windows)
           more == Lengths(new)
           is == Kept(after)
<1>1. DOMAIN after = Nodes
  BY DEF Updated, WindowsInv, IsGathered
<1>2. ASSUME NEW node \in Nodes
      PROVE  /\ after[node] \in Seq(TokensOf(TasksBelow(node)))
             /\ more[node] \in Nat /\ was[node] \in Nat
             /\ is[node] = IF was[node] + more[node] > HistoryLength THEN HistoryLength ELSE was[node] + more[node]
  <2>1. is[node] = Len(after[node])
    BY <1>1 DEF Kept
  <2> QED BY <2>1, UpdatedNode, KeptIsNat
<1>3. HistoryLength \in Nat
  BY CurriculumAssumption
<1>4. /\ \A node \in Nodes : ChildrenOf(node) # {} => Adds(more, node)
      /\ \A node \in Nodes : was[node] < HistoryLength /\ ChildrenOf(node) # {} => Adds(was, node)
  BY DEF WindowsInv, IsGathered
<1> HIDE DEF after, was, more, is
<1>5. ASSUME NEW node \in Nodes, is[node] < HistoryLength, ChildrenOf(node) # {}
      PROVE  Adds(is, node)
  <2> DEFINE C == ChildrenOf(node)
  <2>1. is[node] = was[node] + more[node] /\ was[node] < HistoryLength
    BY <1>2, <1>3, <1>5
  <2>2. was[node] = SumFunctionOnSet(was, C) /\ more[node] = SumFunctionOnSet(more, C)
    BY <1>4, <1>5, <2>1 DEF Adds
  <2>3. IsFiniteSet(C) /\ C \in SUBSET Nodes
    BY ChildrenAreFinite
  <2> HIDE DEF C
  <2>4. Values(was, C) /\ Values(more, C)
    BY <1>2, <2>3 DEF Values
  <2>5. \A c \in C : is[c] = was[c] + more[c]
    <3> SUFFICES ASSUME NEW c \in C PROVE is[c] = was[c] + more[c]
      OBVIOUS
    <3>1. was[c] <= SumFunctionOnSet(was, C) /\ more[c] <= SumFunctionOnSet(more, C)
      BY <2>3, <2>4, SumAtLeast
    <3>2. c \in Nodes
      BY <2>3
    <3>3. /\ was[c] \in Nat /\ more[c] \in Nat /\ was[node] \in Nat /\ more[node] \in Nat
          /\ is[c] = IF was[c] + more[c] > HistoryLength THEN HistoryLength ELSE was[c] + more[c]
      BY <1>2, <3>2
    <3>4. was[c] <= was[node] /\ more[c] <= more[node] /\ was[node] + more[node] < HistoryLength
      BY <1>5, <2>1, <2>2, <3>1
    <3>5. ~(was[c] + more[c] > HistoryLength)
      BY <1>3, <3>3, <3>4
    <3> QED BY <3>3, <3>5
  <2>6. SumFunctionOnSet(is, C) = SumFunctionOnSet(was, C) + SumFunctionOnSet(more, C)
    BY <2>3, <2>4, <2>5, SumPlus
  <2> QED BY <2>1, <2>2, <2>6 DEF Adds, C
<1>6. \A node \in Nodes : is[node] <= HistoryLength
  BY <1>2, <1>3
<1>7. \A node \in Nodes : is[node] < HistoryLength /\ ChildrenOf(node) # {} => Adds(is, node)
  BY <1>5
<1>8. WindowsInv(after)
  BY <1>1, <1>2, <1>6, <1>7 DEF WindowsInv, is
<1> QED BY <1>1, <1>8 DEF after

\* Without new scores, nothing changes.
LEMMA UpdatedWithNothing ==
    ASSUME NEW windows, WindowsInv(windows), NEW new, DOMAIN new = {}
    PROVE  WindowsInv(Updated(windows, new))
<1> DEFINE after == Updated(windows, new)
<1>1. DOMAIN after = DOMAIN windows /\ \A node \in DOMAIN windows : after[node] = windows[node]
  BY DEF Updated
<1> HIDE DEF after
<1>2. Kept(after) = Kept(windows)
  BY <1>1 DEF Kept
<1>3. WindowsInv(after)
  BY <1>1, <1>2 DEF WindowsInv
<1> QED BY <1>3 DEF after

\* What the runs check of the windows.
LEMMA WindowsFromInv ==
    ASSUME WindowsInv(task_tree_scores)
    PROVE  WindowsAreConsistent
<1> SUFFICES ASSUME NEW node \in DOMAIN task_tree_scores,
                    NEW window, window = task_tree_scores[node],
                    NEW children, children = {other \in DOMAIN task_tree_scores :
                                                Len(other) = Len(node) + 1 /\ Front(other) = node}
             PROVE  /\ Len(window) <= HistoryLength
                    /\ \A k \in DOMAIN window : IsPrefix(node, window[k].task)
                    /\ (Len(window) < HistoryLength /\ children # {}) =>
                          Len(window) = SumFunction([other \in children |-> Len(task_tree_scores[other])])
  BY Zenon DEF WindowsAreConsistent
<1>1. DOMAIN task_tree_scores = Nodes /\ node \in Nodes /\ window \in Seq(TokensOf(TasksBelow(node)))
  BY DEF WindowsInv
<1>2. children = ChildrenOf(node)
  BY <1>1 DEF ChildrenOf
<1> DEFINE lens == Kept(task_tree_scores)
<1>3. \A other \in Nodes : lens[other] = Len(task_tree_scores[other])
  BY <1>1 DEF Kept
<1>4. lens[node] <= HistoryLength /\ (lens[node] < HistoryLength /\ ChildrenOf(node) # {} => Adds(lens, node))
  BY <1>1 DEF WindowsInv
<1>5. \A other \in Nodes : lens[other] \in Nat
  BY KeptIsNat
<1> HIDE DEF lens
<1>6. \A k \in DOMAIN window : IsPrefix(node, window[k].task)
  <2> SUFFICES ASSUME NEW k \in DOMAIN window PROVE IsPrefix(node, window[k].task)
    OBVIOUS
  <2>1. window[k] \in TokensOf(TasksBelow(node))
    <3>1. k \in 1 .. Len(window)
      BY <1>1, LenProperties
    <3> QED BY <1>1, <3>1, ElementOfSeq
  <2>2. window[k].task \in TasksBelow(node)
    BY <2>1 DEF TokensOf
  <2> QED BY <2>2 DEF TasksBelow
<1>7. ASSUME Len(window) < HistoryLength, children # {}
      PROVE  Len(window) = SumFunction([other \in children |-> Len(task_tree_scores[other])])
  <2> DEFINE vals == [other \in children |-> Len(task_tree_scores[other])]
  <2>1. Len(window) = SumFunctionOnSet(lens, children)
    BY <1>1, <1>2, <1>3, <1>4, <1>7 DEF Adds
  <2>2. IsFiniteSet(children) /\ children \in SUBSET Nodes
    BY <1>1, <1>2, ChildrenAreFinite
  <2>3. Values(lens, children) /\ \A other \in children : vals[other] = lens[other]
    BY <1>3, <1>5, <2>2 DEF Values
  <2>4. DOMAIN vals = children
    OBVIOUS
  <2> HIDE DEF vals
  <2>5. SumFunctionOnSet(vals, children) = SumFunctionOnSet(lens, children)
    BY <2>2, <2>3, SumSame
  <2>6. SumFunction(vals) = SumFunctionOnSet(vals, children)
    BY <2>4 DEF SumFunction
  <2> QED BY <2>1, <2>5, <2>6 DEF vals
<1> QED BY <1>1, <1>3, <1>4, <1>6, <1>7

-----------------------------------------------------------------------------
(* The probabilities of the nodes *)

LEMMA UnitIsEnough ==
    ASSUME NEW n \in Nat \ {0}, \/ n <= HistoryLength
                                \/ \E level \in 1 .. Depth : n <= Sizes[level]
    PROVE  n <= Unit /\ Unit \div n \in Nat \ {0}
<1>1. Unit \in Nat \ {0} /\ HistoryLength \in Nat \ {0}
  BY CurriculumAssumption
<1>2. \E m \in Nat \ {0} : n <= m /\ Unit % m = 0
  <2>1. CASE n <= HistoryLength
    <3>1. n \in 1 .. HistoryLength
      BY <1>1, <2>1
    <3>2. Unit % n = 0
      BY <3>1, CurriculumAssumption
    <3> QED BY <3>2
  <2>2. ASSUME NEW level \in 1 .. Depth, n <= Sizes[level] PROVE \E m \in Nat \ {0} : n <= m /\ Unit % m = 0
    <3>1. Sizes[level] \in Nat \ {0} /\ Sizes[level] \in ToSet(Sizes)
      BY DepthIs DEF ToSet
    <3>2. Unit % Sizes[level] = 0
      BY <3>1, CurriculumAssumption
    <3> QED BY <2>2, <3>1, <3>2
  <2> QED BY <2>1, <2>2
<1>3. n <= Unit
  <2>1. PICK m \in Nat \ {0} : n <= m /\ Unit % m = 0
    BY <1>2
  <2>2. m <= Unit
    BY <1>1, <2>1
  <2> QED BY <1>1, <2>1, <2>2
<1>4. Unit \div n \in Nat \ {0}
  <2>1. Unit \div n \in Int /\ Unit % n \in 0 .. n - 1 /\ Unit = (n * (Unit \div n)) + (Unit % n)
    BY <1>1
  <2> DEFINE q == Unit \div n
  <2>2. q >= 1
    <3>1. q \in Int /\ Unit < n * q + n
      BY <1>1, <2>1
    <3> HIDE DEF q
    <3>2. q < 1 => n * q + n <= n
      BY <3>1
    <3> QED BY <1>1, <1>3, <3>1, <3>2
  <2> QED BY <2>1, <2>2
<1> QED BY <1>3, <1>4

LEMMA ProductIsPositive ==
    ASSUME NEW a \in Nat \ {0}, NEW b \in Nat \ {0}
    PROVE  a * b \in Nat \ {0}
<1>1. a * b = (a - 1) * b + b
  OBVIOUS
<1>2. (a - 1) * b \in Nat
  OBVIOUS
<1> QED BY <1>1, <1>2

LEMMA LargestScore ==
    ASSUME Scores # {}
    PROVE  Max(Scores) \in Nat /\ \A score \in Scores : score <= Max(Scores)
<1> DEFINE R == {p \in Nat \X Nat : p[1] <= p[2]}
<1>1. Scores \subseteq Nat /\ IsFiniteSet(Scores)
  BY CurriculumAssumption
<1>2. \A a, b \in Nat : <<a, b>> \in R <=> a <= b
  OBVIOUS
<1> HIDE DEF R
<1>3. Orders(R, Scores)
  <2>1. \A a, b \in Scores : a # b => <<a, b>> \in R \/ <<b, a>> \in R
    BY <1>1, <1>2
  <2>2. \A a, b, c \in Scores : <<a, b>> \in R /\ <<b, c>> \in R => <<a, c>> \in R
    BY <1>1, <1>2
  <2> QED BY <2>1, <2>2 DEF Orders
<1>4. PICK z : IsLastOf(z, Scores, R)
  BY <1>1, <1>3, LastExists
<1>5. z \in Scores /\ \A y \in Scores : y # z => <<y, z>> \in R
  BY <1>4 DEF IsLastOf
<1>6. z \in Scores /\ \A y \in Scores : z >= y
  <2> SUFFICES ASSUME NEW y \in Scores PROVE z >= y
    BY <1>5
  <2>1. z \in Nat /\ y \in Nat
    BY <1>1, <1>5
  <2>2. CASE y = z
    BY <2>1, <2>2
  <2>3. CASE y # z
    BY <1>2, <1>5, <2>1, <2>3
  <2> QED BY <2>2, <2>3
<1>7. Max(Scores) \in Scores /\ \A y \in Scores : Max(Scores) >= y
  BY <1>6 DEF Max
<1> QED BY <1>1, <1>7

\* A window that is not empty has a positive weight.
LEMMA SoftminIsPositive ==
    ASSUME NEW W, NEW window \in Seq(TokensOf(W)), window # <<>>, Len(window) <= HistoryLength
    PROVE  Softmin(window) \in Nat \ {0}
<1> DEFINE n == Len(window)
           vals == [k \in DOMAIN window |-> window[k].score]
           total == SumFunction(vals)
           most == Max(Scores)
           q == Unit \div n
<1>1. n \in Nat \ {0} /\ DOMAIN window = 1 .. n
  BY LenProperties, EmptySeq
<1>2. \A k \in 1 .. n : window[k].score \in Scores
  <2> SUFFICES ASSUME NEW k \in 1 .. n PROVE window[k].score \in Scores
    OBVIOUS
  <2>1. window[k] \in TokensOf(W)
    BY ElementOfSeq
  <2> QED BY <2>1 DEF TokensOf
<1>3. Scores # {}
  <2>1. 1 \in 1 .. n
    BY <1>1
  <2> QED BY <1>2, <2>1
<1>4. most \in Nat /\ \A score \in Scores : score <= most
  BY <1>3, LargestScore
<1>5. Scores \subseteq Nat
  BY CurriculumAssumption
<1>6. DOMAIN vals = 1 .. n /\ \A k \in 1 .. n : vals[k] \in Nat /\ vals[k] <= most
  BY <1>1, <1>2, <1>4, <1>5
<1>7. q \in Nat \ {0}
  BY <1>1, UnitIsEnough
<1>8. Softmin(window) = ((1 + most) * n - total) * q
  BY DEF Softmin
<1> HIDE DEF n, vals, most, q
<1>9. total \in Nat /\ total <= most * n
  <2> DEFINE T == 1 .. n
  <2>1. IsFiniteSet(T) /\ Cardinality(T) = n
    <3>1. 1 \in Int /\ n \in Int /\ (IF 1 > n THEN 0 ELSE n - 1 + 1) = n
      BY <1>1
    <3> QED BY <3>1, FS_Interval
  <2>2. Values(vals, T) /\ \A x \in T : vals[x] <= most
    BY <1>6 DEF Values
  <2>3. total = SumFunctionOnSet(vals, T)
    BY <1>6 DEF SumFunction
  <2> HIDE DEF T, total
  <2>4. SumFunctionOnSet(vals, T) \in Nat /\ SumFunctionOnSet(vals, T) <= most * Cardinality(T)
    BY <1>4, <2>1, <2>2, SumIsNat, SumAtMost
  <2> QED BY <2>1, <2>3, <2>4
<1> HIDE DEF total
<1>10. (1 + most) * n - total \in Nat \ {0}
  <2>1. (1 + most) * n = n + most * n /\ most * n \in Nat
    BY <1>1, <1>4
  <2> DEFINE p == most * n
  <2>2. p \in Nat /\ total <= p /\ (1 + most) * n = n + p
    BY <1>9, <2>1
  <2> HIDE DEF p
  <2> QED BY <1>1, <1>9, <2>2
<1> QED BY <1>7, <1>8, <1>10, ProductIsPositive

\* Every node of the windows has a chance.
LEMMA ProbasArePositive ==
    ASSUME NEW windows, WindowsInv(windows)
    PROVE  DOMAIN Probas(windows) = DOMAIN windows
           /\ \A node \in DOMAIN windows : Probas(windows)[node] \in Nat \ {0}
<1>1. DOMAIN Probas(windows) = DOMAIN windows
  BY DEF Probas
<1>2. ASSUME NEW node \in DOMAIN windows PROVE Probas(windows)[node] \in Nat \ {0}
  <2> DEFINE scored == {other \in Siblings(windows, node) : windows[other] # <<>>}
             weights == [other \in scored |-> Softmin(windows[other])]
             n == Cardinality(scored)
  <2>1. Probas(windows)[node] =
          IF windows[node] # <<>> THEN Softmin(windows[node]) * Unit
          ELSE IF scored = {} THEN Unit
          ELSE SumFunction(weights) * (Unit \div n)
    BY Zenon DEF Probas
  <2>2. DOMAIN windows = Nodes /\ node \in Nodes /\ Unit \in Nat \ {0}
    BY CurriculumAssumption DEF WindowsInv
  <2>3. ASSUME NEW other \in Nodes, windows[other] # <<>> PROVE Softmin(windows[other]) \in Nat \ {0}
    <3>1. windows[other] \in Seq(TokensOf(TasksBelow(other)))
      BY <2>2 DEF WindowsInv
    <3>2. Len(windows[other]) <= HistoryLength
      BY <2>2 DEF WindowsInv, Kept
    <3> QED BY <2>3, <3>1, <3>2, SoftminIsPositive
  <2>4. CASE windows[node] # <<>>
    <3>1. Softmin(windows[node]) \in Nat \ {0}
      BY <2>2, <2>3, <2>4
    <3> QED BY <2>1, <2>2, <2>4, <3>1, ProductIsPositive
  <2>5. CASE windows[node] = <<>> /\ scored = {}
    BY <2>1, <2>2, <2>5
  <2>6. CASE windows[node] = <<>> /\ scored # {}
    <3>1. scored \in SUBSET {other \in Nodes : Len(other) = Len(node) /\ Front(other) = Front(node)}
      BY <2>2 DEF Siblings
    <3>2. \A other \in scored : other \in Nodes /\ windows[other] # <<>>
      BY <3>1
    <3>3. DOMAIN weights = scored /\ \A other \in scored : weights[other] \in Nat \ {0}
      BY <2>3, <3>2
    <3> HIDE DEF scored, weights
    <3>4. IsFiniteSet(scored) /\ n <= Sizes[Len(node)] /\ n \in Nat \ {0}
      <4>1. IsFiniteSet(scored) /\ n <= Sizes[Len(node)]
        BY <2>2, <3>1, SiblingsBound
      <4>2. n \in Nat /\ n # 0
        BY <2>6, <4>1, FS_EmptySet, FS_CardinalityType
      <4> QED BY <4>1, <4>2
    <3>5. Unit \div n \in Nat \ {0}
      <4>1. Len(node) \in 1 .. Depth
        BY <2>2, NodeLength
      <4> HIDE DEF n
      <4> QED BY <3>4, <4>1, UnitIsEnough
    <3>6. SumFunction(weights) \in Nat \ {0}
      <4>1. PICK x \in scored : TRUE
        BY <2>6
      <4>2. Values(weights, scored)
        BY <3>3 DEF Values
      <4>3. weights[x] <= SumFunctionOnSet(weights, scored) /\ SumFunctionOnSet(weights, scored) \in Nat
        BY <3>4, <4>1, <4>2, SumAtLeast, SumIsNat
      <4>4. SumFunctionOnSet(weights, scored) \in Nat \ {0}
        BY <3>3, <4>1, <4>3
      <4> QED BY <3>3, <4>4 DEF SumFunction
    <3> DEFINE a == SumFunction(weights)
               b == Unit \div n
    <3>7. a \in Nat \ {0} /\ b \in Nat \ {0} /\ Probas(windows)[node] = a * b
      BY <2>1, <2>6, <3>5, <3>6
    <3> HIDE DEF a, b
    <3> QED BY <3>7, ProductIsPositive
  <2> QED BY <2>4, <2>5, <2>6
<1> QED BY <1>1, <1>2

-----------------------------------------------------------------------------
(* What the curriculum can go on from *)

Trees == [Nodes -> Nat \ {0}]

CurriculumInv ==
    /\ task_tree_probas \in [Envs -> Trees]
    /\ ended \in Seq(ScoresOfTasks) /\ earlier \in Seq(ScoresOfTasks)
    /\ WindowsInv(task_tree_scores)

LEMMA UniformIsTree == UniformTree \in Trees
BY CurriculumAssumption DEF UniformTree, Trees

LEMMA CurriculumInitInv ==
    ASSUME CurriculumInit
    PROVE  CurriculumInv
<1>1. /\ task_tree_probas = [env \in Envs |-> UniformTree]
      /\ ended = <<>> /\ earlier = <<>> /\ task_tree_scores = << >>
  BY DEF CurriculumInit
<1>2. task_tree_probas \in [Envs -> Trees] /\ ended \in Seq(ScoresOfTasks) /\ earlier \in Seq(ScoresOfTasks)
  BY <1>1, UniformIsTree
<1> DEFINE none == task_tree_scores
           lens == Kept(none)
<1>3. DOMAIN none = {}
  BY <1>1
<1> HIDE DEF none
<1>4. \A node \in Nodes : lens[node] = 0
  BY <1>3 DEF Kept
<1> HIDE DEF lens
<1>5. HistoryLength \in Nat
  BY CurriculumAssumption
<1>6. ASSUME NEW node \in Nodes PROVE Adds(lens, node)
  <2> DEFINE C == ChildrenOf(node)
  <2>1. IsFiniteSet(C) /\ C \in SUBSET Nodes /\ Cardinality(C) \in Nat
    BY ChildrenAreFinite, FS_CardinalityType
  <2> HIDE DEF C
  <2>2. Values(lens, C) /\ \A c \in C : lens[c] <= 0
    BY <1>4, <2>1 DEF Values
  <2>3. SumFunctionOnSet(lens, C) \in Nat /\ SumFunctionOnSet(lens, C) <= 0 * Cardinality(C)
    BY <2>1, <2>2, SumIsNat, SumAtMost
  <2>4. SumFunctionOnSet(lens, C) = 0
    BY <2>1, <2>3
  <2> QED BY <1>4, <2>4 DEF Adds, C
<1>7. WindowsInv(none)
  BY <1>3, <1>4, <1>5, <1>6 DEF WindowsInv, lens
<1> QED BY <1>2, <1>7 DEF CurriculumInv, none

\* The trees of the environments have the same tasks, whatever their weights.
LEMMA LeavesAre ==
    ASSUME NEW tree \in Trees
    PROVE  LeavesOf(tree) = Tasks
<1>1. DOMAIN tree = Nodes /\ \A path \in Tasks : path \in Nodes
  BY TaskIs DEF Trees
<1>2. \A node \in Nodes : Len(node) = Len(Sizes) <=> node \in Tasks
  BY TaskIs DEF Depth
<1> QED BY <1>1, <1>2 DEF LeavesOf

LEMMA ScoreDataIs ==
    ASSUME CurriculumInv, NEW worker \in Workers, NEW scores \in [EnvIds -> Scores]
    PROVE  ScoreData(worker, scores) \in ScoresOfTasks
<1> DEFINE fields == UNION {LeavesOf(task_tree_probas[<<worker, e>>]) : e \in EnvIds}
           Performing(path) == Ascending({e \in EnvIds : task[<<worker, e>>] = path})
           field(path) == [k \in DOMAIN Performing(path) |->
                             [task |-> path, score |-> scores[Performing(path)[k]]]]
<1>1. fields = Tasks
  <2>1. \A e \in EnvIds : LeavesOf(task_tree_probas[<<worker, e>>]) = Tasks
    <3> SUFFICES ASSUME NEW e \in EnvIds PROVE LeavesOf(task_tree_probas[<<worker, e>>]) = Tasks
      OBVIOUS
    <3>1. task_tree_probas[<<worker, e>>] \in Trees
      BY DEF CurriculumInv, Envs
    <3> QED BY <3>1, LeavesAre
  <2>2. 1 \in EnvIds
    BY CurriculumAssumption DEF EnvIds
  <2> QED BY <2>1, <2>2
<1>2. ScoreData(worker, scores) = [path \in fields |-> field(path)]
  BY Zenon DEF ScoreData
<1>3. ASSUME NEW path \in Tasks
      PROVE  field(path) \in Seq(TokensOf({path})) /\ field(path) \in Seq(TokensOf(Tasks))
  <2> DEFINE W == {e \in EnvIds : task[<<worker, e>>] = path}
             n == Cardinality(W)
             ids == Ascending(W)
             R == TokensOf({path})
             S == TokensOf(Tasks)
  <2>1. W \in SUBSET Nat /\ IsFiniteSet(W) /\ W \in SUBSET EnvIds
    <3>1. IsFiniteSet(EnvIds) /\ EnvIds \subseteq Nat
      BY CurriculumAssumption, FS_Interval DEF EnvIds
    <3>2. W \in SUBSET EnvIds
      OBVIOUS
    <3> HIDE DEF W
    <3> QED BY <3>1, <3>2, FS_Subset
  <2>2. n \in Nat
    BY <2>1, FS_CardinalityType
  <2>3. ids \in [1 .. n -> W]
    BY <2>1, AscendingIs
  <2>4. field(path) = [k \in DOMAIN ids |-> [task |-> path, score |-> scores[ids[k]]]]
    BY Zenon
  <2> HIDE DEF W, n, ids, field
  <2>5. DOMAIN ids = 1 .. n /\ \A k \in 1 .. n : ids[k] \in EnvIds
    BY <2>1, <2>3
  <2>6. \A k \in 1 .. n : [task |-> path, score |-> scores[ids[k]]] \in R
    BY <2>5 DEF TokensOf
  <2>7. R \subseteq S
    BY DEF TokensOf
  <2> HIDE DEF R, S
  <2>8. field(path) \in [1 .. n -> R]
    BY <2>4, <2>5, <2>6
  <2>9. field(path) \in Seq(R)
    BY <2>2, <2>8
  <2>10. field(path) \in Seq(S)
    BY <2>7, <2>9, SeqOver
  <2> QED BY <2>9, <2>10 DEF R, S
<1> HIDE DEF fields, field
<1> DEFINE data == ScoreData(worker, scores)
<1>4. data = [path \in Tasks |-> field(path)]
  BY <1>1, <1>2
<1> HIDE DEF data
<1>5. data \in [Tasks -> Seq(TokensOf(Tasks))] /\ \A path \in Tasks : data[path] \in Seq(TokensOf({path}))
  BY <1>3, <1>4
<1>6. data \in ScoresOfTasks
  BY <1>5 DEF ScoresOfTasks
<1> QED BY <1>6 DEF data

LEMMA EndEpisodeKept ==
    ASSUME CurriculumInv, NEW worker \in Workers, NEW env \in EnvIds, EndEpisode(worker, env)
    PROVE  CurriculumInv'
<1>1. PICK scores \in [EnvIds -> Scores] : ended' = Append(ended, ScoreData(worker, scores))
  BY DEF EndEpisode
<1>2. UNCHANGED <<task_tree_probas, earlier, task_tree_scores>>
  BY DEF EndEpisode
<1>3. ScoreData(worker, scores) \in ScoresOfTasks
  BY ScoreDataIs
<1>4. ended' \in Seq(ScoresOfTasks)
  BY <1>1, <1>3, AppendProperties DEF CurriculumInv
<1>5. WindowsInv(task_tree_scores)'
  BY <1>2 DEF CurriculumInv, WindowsInv, Kept
<1> QED BY <1>2, <1>4, <1>5 DEF CurriculumInv

LEMMA ReplaceWorkerKept ==
    ASSUME CurriculumInv, NEW worker \in Workers, ReplaceWorker(worker)
    PROVE  CurriculumInv'
<1>1. /\ task_tree_probas' = [env \in Envs |-> IF env[1] = worker THEN UniformTree ELSE task_tree_probas[env]]
      /\ UNCHANGED <<ended, earlier, task_tree_scores>>
  BY DEF ReplaceWorker
<1>2. task_tree_probas' \in [Envs -> Trees]
  <2>1. task_tree_probas \in [Envs -> Trees]
    BY DEF CurriculumInv
  <2> QED BY <1>1, <2>1, UniformIsTree
<1>3. WindowsInv(task_tree_scores)'
  BY <1>1 DEF CurriculumInv, WindowsInv, Kept
<1> QED BY <1>1, <1>2, <1>3 DEF CurriculumInv

LEMMA WithBranchesIs ==
    ASSUME NEW tree \in Trees, NEW windows, WindowsInv(windows)
    PROVE  WithBranches(tree, Probas(windows)) \in Trees
<1> DEFINE probas == Probas(windows)
           fields == DOMAIN probas \cup {old \in DOMAIN tree : <<old[1]>> \notin DOMAIN probas}
<1>1. DOMAIN probas \in {{}, Nodes} /\ \A node \in DOMAIN probas : probas[node] \in Nat \ {0}
  BY ProbasArePositive DEF WindowsInv
<1>2. DOMAIN tree = Nodes /\ \A node \in Nodes : tree[node] \in Nat \ {0}
  BY DEF Trees
<1> HIDE DEF probas
<1>3. fields = Nodes
  <2>1. CASE DOMAIN probas = {}
    BY <1>2, <2>1
  <2>2. CASE DOMAIN probas = Nodes
    BY <1>2, <2>2
  <2> QED BY <1>1, <2>1, <2>2
<1>4. WithBranches(tree, probas) = [node \in fields |-> IF node \in DOMAIN probas THEN probas[node] ELSE tree[node]]
  BY DEF WithBranches
<1> HIDE DEF fields
<1>5. WithBranches(tree, probas) \in [Nodes -> Nat \ {0}]
  BY <1>1, <1>2, <1>3, <1>4
<1> QED BY <1>5 DEF Trees, probas

LEMMA OnTrainResultKept ==
    ASSUME CurriculumInv, OnTrainResult
    PROVE  CurriculumInv'
<1> DEFINE repeated == IF Len(ended) < Smoothing THEN LatestOf(Smoothing - Len(ended), earlier) ELSE <<>>
           episodes == repeated \o ended
           new == Gathered(HistStats(episodes))
           windows == Updated(task_tree_scores, new)
<1>1. /\ ended \in Seq(ScoresOfTasks) /\ earlier \in Seq(ScoresOfTasks)
      /\ WindowsInv(task_tree_scores) /\ task_tree_probas \in [Envs -> Trees]
  BY DEF CurriculumInv
<1>2. Smoothing \in Nat /\ Len(ended) \in Nat
  BY <1>1, CurriculumAssumption, LenProperties
<1>3. /\ task_tree_scores' = windows
      /\ task_metrics'.proba = Probas(task_tree_scores')
      /\ task_tree_probas' = [env \in Envs |-> WithBranches(task_tree_probas[env], task_metrics'.proba)]
      /\ ended' = <<>> /\ earlier' = LatestOf(Smoothing, earlier \o ended)
  <2>1. /\ task_tree_scores' = windows
        /\ task_metrics' = [num |-> [node \in DOMAIN new |-> Len(new[node])], proba |-> Probas(task_tree_scores')]
        /\ task_tree_probas' = [env \in Envs |-> WithBranches(task_tree_probas[env], task_metrics'.proba)]
        /\ ended' = <<>> /\ earlier' = LatestOf(Smoothing, earlier \o ended)
    BY Zenon DEF OnTrainResult
  <2> HIDE DEF windows, new
  <2> QED BY <2>1
<1>4. repeated \in Seq(ScoresOfTasks)
  <2>1. Len(ended) < Smoothing => Smoothing - Len(ended) \in Nat
    BY <1>2
  <2> QED BY <1>1, <2>1, LatestIs
<1> HIDE DEF repeated
<1>5. episodes \in Seq(ScoresOfTasks)
  BY <1>1, <1>4, ConcatProperties
<1> HIDE DEF episodes
<1>6. DOMAIN new = {} \/ IsGathered(new)
  BY <1>5, HistStatsAre, GatheredIs, NothingGathered
<1> HIDE DEF new
<1>7. WindowsInv(windows)
  BY <1>1, <1>6, UpdatedKept, UpdatedWithNothing
<1> HIDE DEF windows
<1>8. task_tree_probas' \in [Envs -> Trees]
  <2>1. \A env \in Envs : WithBranches(task_tree_probas[env], Probas(windows)) \in Trees
    BY <1>1, <1>7, WithBranchesIs
  <2> QED BY <1>3, <2>1
<1>9. earlier' \in Seq(ScoresOfTasks)
  <2>1. earlier \o ended \in Seq(ScoresOfTasks)
    BY <1>1, ConcatProperties
  <2> QED BY <1>2, <1>3, <2>1, LatestIs
<1>10. WindowsInv(task_tree_scores)'
  BY <1>3, <1>7 DEF WindowsInv, Kept
<1>11. ended' \in Seq(ScoresOfTasks)
  BY <1>3
<1> QED BY <1>8, <1>9, <1>10, <1>11 DEF CurriculumInv

LEMMA CurriculumUnchanged ==
    ASSUME CurriculumInv, UNCHANGED <<task_tree_probas, ended, earlier, task_tree_scores>>
    PROVE  CurriculumInv'
<1>1. WindowsInv(task_tree_scores)'
  BY DEF CurriculumInv, WindowsInv, Kept
<1> QED BY <1>1 DEF CurriculumInv

LEMMA SoundFromInv ==
    ASSUME CurriculumInv
    PROVE  CurriculumIsSound
<1>1. EveryTaskCanBeSampled
  <2> SUFFICES ASSUME NEW env \in Envs, NEW path \in Tasks
               PROVE  CanBeSampled(task_tree_probas[env], path)
    BY DEF EveryTaskCanBeSampled
  <2> DEFINE tree == task_tree_probas[env]
  <2>1. tree \in Trees
    BY DEF CurriculumInv
  <2> HIDE DEF tree
  <2>2. DOMAIN tree = Nodes /\ \A node \in Nodes : tree[node] \in Nat \ {0}
    BY <2>1 DEF Trees
  <2>3. path \in Nodes
    BY TaskIs
  <2>4. \A depth \in 1 .. Len(path) : tree[SubSeq(path, 1, depth)] > 0
    <3> SUFFICES ASSUME NEW depth \in 1 .. Len(path) PROVE tree[SubSeq(path, 1, depth)] > 0
      OBVIOUS
    <3>1. SubSeq(path, 1, depth) \in Nodes
      BY <2>3, PrefixOfNode
    <3> QED BY <2>2, <3>1
  <2>5. CanBeSampled(tree, path)
    BY <2>2, <2>3, <2>4 DEF CanBeSampled
  <2> QED BY <2>5 DEF tree
<1>2. WindowsAreConsistent
  BY WindowsFromInv DEF CurriculumInv
<1> QED BY <1>1, <1>2 DEF CurriculumIsSound

\* Whatever the tree of tasks, the windows, the scores and the episodes that end, every task can
\* be sampled by every environment, and the windows that the driver keeps are of the last scores
\* of the tasks below their node, no less than those of its children (curriculum.py:99-229).
THEOREM CurriculumStaysSound == TrainingSpec => []CurriculumIsSound
<1>1. TrainingInit => CurriculumInv
  BY CurriculumInitInv DEF TrainingInit
<1>2. CurriculumInv /\ [TrainingNext]_policyVars => CurriculumInv'
  <2> SUFFICES ASSUME CurriculumInv, [TrainingNext]_policyVars PROVE CurriculumInv'
    OBVIOUS
  <2>1. ASSUME UNCHANGED curriculumVars PROVE CurriculumInv'
    BY <2>1, CurriculumUnchanged DEF curriculumVars
  <2>2. CASE Train
    <3>1. ResetEnvs \/ UNCHANGED curriculumVars
      BY <2>2 DEF Train
    <3>2. ResetEnvs => UNCHANGED <<task_tree_probas, ended, earlier, task_tree_scores>>
      BY DEF ResetEnvs
    <3> QED BY <2>1, <3>1, <3>2, CurriculumUnchanged
  <2>3. ASSUME NEW worker \in Workers, LoseWorker(worker) PROVE CurriculumInv'
    BY <2>3, ReplaceWorkerKept DEF LoseWorker
  <2>4. ASSUME NEW worker \in Workers, NEW e \in EnvIds, Sample(worker, e) PROVE CurriculumInv'
    BY <2>4, EndEpisodeKept DEF Sample
  <2>5. CASE Schedule
    BY <2>5, OnTrainResultKept DEF Schedule
  <2>6. CASE \/ Learn \/ StartEvaluation \/ EvaluateLocally \/ RunRound \/ CollectLogs \/ EndRounds
             \/ EndEvaluation \/ LogResult \/ Finish \/ Interrupt \/ RestoreWorkers \/ EvaluateCheckpoint
    <3>1. UNCHANGED curriculumVars
      BY <2>6 DEF Learn, StartEvaluation, EvaluateLocally, RunRound, CollectLogs, EndRounds, EndEvaluation,
                  LogResult, Finish, Interrupt, RestoreWorkers, EvaluateCheckpoint
    <3> QED BY <2>1, <3>1
  <2>7. ASSUME NEW chosen \in Configurations, BuildPolicy(chosen) PROVE CurriculumInv'
    BY <2>1, <2>7 DEF BuildPolicy
  <2>8. ASSUME NEW w \in healthy, WorkerDies(w) PROVE CurriculumInv'
    BY <2>1, <2>8 DEF WorkerDies
  <2>9. CASE UNCHANGED policyVars
    BY <2>1, <2>9 DEF policyVars
  <2> QED
    BY <2>2, <2>3, <2>4, <2>5, <2>6, <2>7, <2>8, <2>9 DEF TrainingNext
<1>3. CurriculumInv => CurriculumIsSound
  BY SoundFromInv
<1> QED BY <1>1, <1>2, <1>3, PTL DEF TrainingSpec

===============================================================================
