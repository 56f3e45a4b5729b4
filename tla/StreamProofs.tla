----------------------------- MODULE StreamProofs -----------------------------
(***************************************************************************)
(* For any frames, chunks and bounds: what the application gets is what    *)
(* the server meant.                                                       *)
(***************************************************************************)
EXTENDS Stream, SequenceTheorems, FiniteSetTheorems, WellFoundedInduction, TLAPS

-----------------------------------------------------------------------------
(* Numbers and sequences *)

\* A set of numbers has a least one: what an induction rests on here.
LEMMA Least ==
  ASSUME NEW T, T \subseteq Nat, T # {}
  PROVE  \E n \in T : \A m \in T : n <= m
<1> DEFINE Below == {p \in Nat \X Nat : p[1] < p[2]}
<1>1. IsWellFoundedOn(Below, Nat)
  BY NatLessThanWellFounded DEF OpToRel
<1>2. \A m, n \in Nat : m < n => <<m, n>> \in Below
  OBVIOUS
<1> HIDE DEF Below
<1>3. PICK n \in T : \A m \in T : <<m, n>> \notin Below
  BY <1>1, WFMin
<1>4. \A m \in T : ~(m < n)
  BY <1>2, <1>3
<1>5. \A m \in T : m \in Nat
  OBVIOUS
<1> QED
  BY <1>4, <1>5

\* The induction itself, over a set of numbers.
LEMMA Induction ==
  ASSUME NEW N \in Nat, NEW Holds, 0 \in Holds,
         \A n \in 0..N : n \in Holds /\ n < N => n + 1 \in Holds
  PROVE  \A n \in 0..N : n \in Holds
<1> SUFFICES ASSUME NEW n \in 0..N, n \notin Holds
             PROVE  FALSE
  OBVIOUS
<1> DEFINE T == {k \in 0..N : k \notin Holds}
<1>1. T \subseteq Nat /\ T # {}
  OBVIOUS
<1>2. PICK k \in T : \A m \in T : k <= m
  BY <1>1, Least
<1>3. k \in 0..N /\ k # 0
  OBVIOUS
<1>4. k - 1 \in 0..N /\ k - 1 < N /\ (k - 1) + 1 = k
  BY <1>3
<1>5. k - 1 \in Holds
  <2>1. ~(k <= k - 1)
    BY <1>3
  <2> QED
    BY <1>2, <1>4, <2>1
<1> QED
  BY <1>4, <1>5

-----------------------------------------------------------------------------
(* The validator *)

States == {"accept", "more", "reject"}

\* A step of the automaton is a state.
LEMMA StepTyped ==
  ASSUME NEW state, NEW b
  PROVE  Utf8Step(state, b) \in States
BY DEF Utf8Step, States

\* g is a run of the automaton over bytes.
IsRun(g, state, bytes) ==
  /\ g = [i \in 0..Len(bytes) |-> g[i]]
  /\ g[0] = state
  /\ \A i \in 1..Len(bytes) : g[i] = Utf8Step(g[i - 1], bytes[i])

\* There is one.
LEMMA RunExists ==
  ASSUME NEW state, NEW bytes \in Seq(Bytes)
  PROVE  \E g : IsRun(g, state, bytes)
<1> DEFINE N == Len(bytes)
           Begun(g, n) == /\ g = [i \in 0..n |-> g[i]]
                          /\ g[0] = state
                          /\ \A i \in 1..n : g[i] = Utf8Step(g[i - 1], bytes[i])
           Holds == {n \in 0..N : \E g : Begun(g, n)}
<1>0. N \in Nat
  OBVIOUS
<1>1. 0 \in Holds
  <2>1. Begun([i \in 0..0 |-> state], 0)
    OBVIOUS
  <2> HIDE DEF Begun
  <2> QED
    BY <1>0, <2>1
<1>2. ASSUME NEW n \in 0..N, n \in Holds, n < N
      PROVE  n + 1 \in Holds
  <2>1. PICK g : Begun(g, n)
    BY <1>2
  <2> DEFINE h == [i \in 0..(n + 1) |-> IF i = n + 1 THEN Utf8Step(g[n], bytes[n + 1]) ELSE g[i]]
  <2>2. h = [i \in 0..(n + 1) |-> h[i]]
    OBVIOUS
  <2>3. h[0] = state
    BY <2>1
  <2>4. ASSUME NEW i \in 1..(n + 1)
        PROVE  h[i] = Utf8Step(h[i - 1], bytes[i])
    <3>1. CASE i = n + 1
      BY <3>1, <1>0
    <3>2. CASE i # n + 1
      <4>1. i \in 1..n /\ i - 1 \in 0..n /\ i \in 0..(n + 1) /\ i - 1 \in 0..(n + 1)
            /\ i - 1 # n + 1
        BY <3>2, <1>0
      <4>2. h[i] = g[i] /\ h[i - 1] = g[i - 1]
        BY <3>2, <4>1
      <4> QED
        BY <2>1, <4>1, <4>2
    <3> QED
      BY <3>1, <3>2
  <2>5. Begun(h, n + 1)
    <3> HIDE DEF h
    <3> QED
      BY <2>2, <2>3, <2>4
  <2>6. n + 1 \in 0..N
    BY <1>0, <1>2
  <2> HIDE DEF h, Begun
  <2> QED
    BY <2>5, <2>6
<1>3. N \in Holds
  <2> HIDE DEF Holds
  <2>1. \A n \in 0..N : n \in Holds /\ n < N => n + 1 \in Holds
    BY <1>2
  <2>2. \A n \in 0..N : n \in Holds
    BY <1>0, <1>1, <2>1, Induction
  <2> QED
    BY <1>0, <2>2
<1> QED
  BY <1>3 DEF IsRun

\* And Utf8After is where it ends.
LEMMA AfterRun ==
  ASSUME NEW state, NEW bytes \in Seq(Bytes)
  PROVE  \E g : IsRun(g, state, bytes) /\ Utf8After(state, bytes) = g[Len(bytes)]
<1> DEFINE Is(g) == g = [i \in 0..Len(bytes) |->
                           IF i = 0 THEN state ELSE Utf8Step(g[i - 1], bytes[i])]
           run == CHOOSE g : Is(g)
<1>1. Utf8After(state, bytes) = run[Len(bytes)]
  BY DEF Utf8After
<1>2. ASSUME NEW g, IsRun(g, state, bytes)
      PROVE  Is(g)
  BY <1>2, SMTT(30) DEF IsRun
<1>3. ASSUME NEW g, Is(g)
      PROVE  IsRun(g, state, bytes)
  BY <1>3 DEF IsRun
<1>4. \E g : Is(g)
  BY <1>2, RunExists
<1>5. Is(run)
  <2> HIDE DEF Is
  <2> QED
    BY <1>4
<1> HIDE DEF run, Is
<1> QED
  BY <1>1, <1>3, <1>5

\* Two runs agree as long as the bytes do.
LEMMA RunsAgree ==
  ASSUME NEW state, NEW a \in Seq(Bytes), NEW b \in Seq(Bytes), NEW g, NEW h,
         IsRun(g, state, a), IsRun(h, state, b),
         NEW n \in 0..Len(a), n <= Len(b), \A i \in 1..n : a[i] = b[i]
  PROVE  \A i \in 0..n : g[i] = h[i]
<1> DEFINE Holds == {i \in 0..n : g[i] = h[i]}
<1>1. n \in Nat /\ Len(a) \in Nat /\ Len(b) \in Nat
  OBVIOUS
<1>2. 0 \in Holds
  BY <1>1 DEF IsRun
<1>3. ASSUME NEW i \in 0..n, i \in Holds, i < n
      PROVE  i + 1 \in Holds
  <2>1. i + 1 \in 1..n /\ i + 1 \in 1..Len(a) /\ i + 1 \in 1..Len(b) /\ (i + 1) - 1 = i
    BY <1>1, <1>3
  <2>2. g[i + 1] = Utf8Step(g[i], a[i + 1]) /\ h[i + 1] = Utf8Step(h[i], b[i + 1])
    BY <2>1 DEF IsRun
  <2> QED
    BY <1>3, <2>1, <2>2
<1> HIDE DEF Holds
<1>4. \A i \in 0..n : i \in Holds
  BY <1>1, <1>2, <1>3, Induction
<1> QED
  BY <1>4 DEF Holds

\* The validator is fed a piece at a time.
LEMMA AfterConcat ==
  ASSUME NEW state, NEW a \in Seq(Bytes), NEW b \in Seq(Bytes)
  PROVE  Utf8After(state, a \o b) = Utf8After(Utf8After(state, a), b)
<1> DEFINE A == Len(a)
           B == Len(b)
<1>1. /\ A \in Nat /\ B \in Nat /\ Len(a \o b) = A + B /\ a \o b \in Seq(Bytes)
      /\ \A i \in 1..A : (a \o b)[i] = a[i]
      /\ \A i \in 1..B : (a \o b)[A + i] = b[i]
  OBVIOUS
<1>2. PICK g : IsRun(g, state, a \o b) /\ Utf8After(state, a \o b) = g[A + B]
  BY <1>1, AfterRun
<1>3. PICK h : IsRun(h, state, a) /\ Utf8After(state, a) = h[A]
  BY AfterRun
<1>4. PICK k : IsRun(k, h[A], b) /\ Utf8After(h[A], b) = k[B]
  BY AfterRun
<1>5. g[A] = h[A]
  <2>1. A \in 0..Len(a) /\ A <= Len(a \o b) /\ \A i \in 1..A : a[i] = (a \o b)[i]
    BY <1>1
  <2>2. \A i \in 0..A : h[i] = g[i]
    <3> DEFINE c == a \o b
    <3>1. c \in Seq(Bytes) /\ IsRun(g, state, c) /\ IsRun(h, state, a)
      BY <1>1, <1>2, <1>3
    <3>2. A \in 0..Len(a) /\ A <= Len(c) /\ \A i \in 1..A : a[i] = c[i]
      BY <2>1
    <3> HIDE DEF A, c
    <3> QED
      BY <3>1, <3>2, RunsAgree
  <2> QED
    BY <1>1, <2>2
<1> DEFINE Holds == {i \in 0..B : g[A + i] = k[i]}
<1>6. 0 \in Holds
  BY <1>1, <1>4, <1>5 DEF IsRun
<1>7. ASSUME NEW i \in 0..B, i \in Holds, i < B
      PROVE  i + 1 \in Holds
  <2>1. i + 1 \in 1..B /\ A + (i + 1) \in 1..(A + B) /\ (A + (i + 1)) - 1 = A + i
        /\ (i + 1) - 1 = i
    BY <1>1, <1>7
  <2>2. g[A + (i + 1)] = Utf8Step(g[A + i], b[i + 1])
    <3>1. \A j \in 1..(A + B) : g[j] = Utf8Step(g[j - 1], (a \o b)[j])
      BY <1>1, <1>2 DEF IsRun
    <3>2. (a \o b)[A + (i + 1)] = b[i + 1]
      BY <1>1, <2>1
    <3> QED
      BY <2>1, <3>1, <3>2
  <2>3. k[i + 1] = Utf8Step(k[i], b[i + 1])
    BY <1>4, <2>1 DEF IsRun
  <2> QED
    BY <1>1, <1>7, <2>1, <2>2, <2>3
<1>8. B \in Holds
  <2> HIDE DEF Holds
  <2>1. \A i \in 0..B : i \in Holds
    BY <1>1, <1>6, <1>7, Induction
  <2> QED
    BY <1>1, <2>1
<1> QED
  BY <1>2, <1>3, <1>4, <1>8

\* No byte, no step.
LEMMA AfterEmpty ==
  ASSUME NEW state
  PROVE  Utf8After(state, <<>>) = state
<1>0. <<>> \in Seq(Bytes)
  OBVIOUS
<1>1. PICK g : IsRun(g, state, <<>>) /\ Utf8After(state, <<>>) = g[Len(<<>>)]
  BY <1>0, AfterRun
<1> QED
  BY <1>1 DEF IsRun

\* The automaton stays among its states, and in "reject" for ever.
LEMMA AfterTyped ==
  ASSUME NEW state \in States, NEW b \in Seq(Bytes)
  PROVE  /\ Utf8After(state, b) \in States
         /\ state = "reject" => Utf8After(state, b) = "reject"
<1> DEFINE N == Len(b)
<1>1. PICK g : IsRun(g, state, b) /\ Utf8After(state, b) = g[N]
  BY AfterRun
<1>2. N \in Nat
  OBVIOUS
<1> DEFINE Holds == {i \in 0..N : g[i] \in States /\ (state = "reject" => g[i] = "reject")}
<1>3. 0 \in Holds
  BY <1>1, <1>2 DEF IsRun
<1>4. ASSUME NEW i \in 0..N, i \in Holds, i < N
      PROVE  i + 1 \in Holds
  <2>1. i + 1 \in 1..N /\ (i + 1) - 1 = i
    BY <1>2, <1>4
  <2>2. g[i + 1] = Utf8Step(g[i], b[i + 1])
    BY <1>1, <2>1 DEF IsRun
  <2>3. Utf8Step("reject", b[i + 1]) = "reject"
    BY DEF Utf8Step
  <2> QED
    BY <1>4, <2>1, <2>2, <2>3, StepTyped
<1>5. N \in Holds
  <2> HIDE DEF Holds
  <2>1. \A i \in 0..N : i \in Holds
    BY <1>2, <1>3, <1>4, Induction
  <2> QED
    BY <1>2, <2>1
<1> QED
  BY <1>1, <1>5

\* What the automaton accepts is UTF-8, and it rejects nothing else.
LEMMA AfterMeans ==
  ASSUME NEW b \in Seq(Bytes)
  PROVE  /\ Utf8After("accept", b) # "reject" <=> Utf8Prefix(b)
         /\ Utf8After("accept", b) = "accept" <=> Utf8Text(b)
<1> DEFINE N == Len(b)
           Sound(j) == b[j] # "bad" /\ (b[j] = "tail" <=> j > 1 /\ b[j - 1] = "lead")
<1>1. PICK g : IsRun(g, "accept", b) /\ Utf8After("accept", b) = g[N]
  BY AfterRun
<1>2. N \in Nat
  OBVIOUS
<1> DEFINE Holds == {i \in 0..N : /\ g[i] \in States
                                  /\ g[i] # "reject" <=> \A j \in 1..i : Sound(j)
                                  /\ g[i] = "more" => i > 0 /\ b[i] = "lead"
                                  /\ g[i] = "accept" => (i > 0 => b[i] # "lead")}
<1>3. 0 \in Holds
  BY <1>1, <1>2 DEF IsRun, States
<1>4. ASSUME NEW i \in 0..N, i \in Holds, i < N
      PROVE  i + 1 \in Holds
  <2>1. i + 1 \in 1..N /\ (i + 1) - 1 = i /\ i + 1 > 0 /\ i + 1 \in 0..N
    BY <1>2, <1>4
  <2>2. g[i + 1] = Utf8Step(g[i], b[i + 1]) /\ b[i + 1] \in Bytes
    <3>1. g[i + 1] = Utf8Step(g[i], b[i + 1])
      <4> HIDE DEF Holds, Sound
      <4> QED
        BY <1>1, <2>1 DEF IsRun
    <3>2. b[i + 1] \in Bytes
      <4> HIDE DEF Holds, Sound
      <4> QED
        BY <2>1, ElementOfSeq
    <3> QED
      BY <3>1, <3>2
  <2>3. g[i + 1] \in States
    BY <2>2, StepTyped
  <2>4. (\A j \in 1..(i + 1) : Sound(j)) <=> (\A j \in 1..i : Sound(j)) /\ Sound(i + 1)
    <3> HIDE DEF Sound
    <3>1. \A j \in 1..(i + 1) : j \in 1..i \/ j = i + 1
      BY <1>2
    <3>2. i + 1 \in 1..(i + 1) /\ \A j \in 1..i : j \in 1..(i + 1)
      BY <1>2
    <3> QED
      BY <3>1, <3>2
  <2>5. Sound(i + 1) <=> b[i + 1] # "bad" /\ (b[i + 1] = "tail" <=> i > 0 /\ b[i] = "lead")
    BY <1>2, <2>1
  <2>6. CASE g[i] = "reject"
    <3>1. g[i + 1] = "reject"
      BY <2>2, <2>6 DEF Utf8Step
    <3> QED
      BY <1>4, <2>1, <2>3, <2>4, <2>6, <3>1
  <2>7. CASE g[i] = "accept"
    <3>1. /\ b[i + 1] = "a" => g[i + 1] = "accept"
          /\ b[i + 1] = "lead" => g[i + 1] = "more"
          /\ b[i + 1] \in {"tail", "bad"} => g[i + 1] = "reject"
      BY <2>2, <2>7 DEF Utf8Step
    <3>2. Sound(i + 1) <=> b[i + 1] \in {"a", "lead"}
      BY <1>4, <2>2, <2>5, <2>7 DEF Bytes
    <3>3. g[i + 1] # "reject" <=> \A j \in 1..(i + 1) : Sound(j)
      BY <1>4, <2>2, <2>4, <2>7, <3>1, <3>2 DEF Bytes
    <3> HIDE DEF Sound
    <3> QED
      BY <2>1, <2>2, <2>3, <3>1, <3>3 DEF Bytes
  <2>8. CASE g[i] = "more"
    <3>1. /\ b[i + 1] = "tail" => g[i + 1] = "accept"
          /\ b[i + 1] # "tail" => g[i + 1] = "reject"
      BY <2>2, <2>8 DEF Utf8Step
    <3>2. Sound(i + 1) <=> b[i + 1] = "tail"
      BY <1>4, <2>2, <2>5, <2>8 DEF Bytes
    <3>3. g[i + 1] # "reject" <=> \A j \in 1..(i + 1) : Sound(j)
      BY <1>4, <2>4, <2>8, <3>1, <3>2
    <3> HIDE DEF Sound
    <3> QED
      BY <2>1, <2>2, <2>3, <3>1, <3>3 DEF Bytes
  <2> QED
    BY <1>4, <2>6, <2>7, <2>8 DEF States
<1>5. N \in Holds
  <2> HIDE DEF Holds
  <2>1. \A i \in 0..N : i \in Holds
    BY <1>2, <1>3, <1>4, Induction
  <2> QED
    BY <1>2, <2>1
<1>6. g[N] # "reject" <=> Utf8Prefix(b)
  BY <1>2, <1>5, SMTT(30) DEF Utf8Prefix
<1>7. b # <<>> <=> N > 0
  OBVIOUS
<1>8. Last(b) = b[N]
  BY DEF Last
<1>9. g[N] = "accept" <=> Utf8Text(b)
  BY <1>5, <1>6, <1>7, <1>8 DEF Utf8Text, States
<1> QED
  BY <1>1, <1>6, <1>9

-----------------------------------------------------------------------------
(* A payload in pieces *)

\* g has the pieces together up to each of them.
IsJoin(g, seqs) ==
  /\ g = [i \in 1..Len(seqs) |-> g[i]]
  /\ g[1] = seqs[1]
  /\ \A i \in 2..Len(seqs) : g[i] = g[i - 1] \o seqs[i]

\* There is such a g.
LEMMA JoinExists ==
  ASSUME NEW seqs \in Seq(Seq(Bytes)), seqs # <<>>
  PROVE  \E g : IsJoin(g, seqs)
<1> DEFINE N == Len(seqs) - 1
           Begun(g, n) == /\ g = [i \in 1..(n + 1) |-> g[i]]
                          /\ g[1] = seqs[1]
                          /\ \A i \in 2..(n + 1) : g[i] = g[i - 1] \o seqs[i]
           Holds == {n \in 0..N : \E g : Begun(g, n)}
<1>0. N \in Nat /\ Len(seqs) = N + 1
  OBVIOUS
<1>1. 0 \in Holds
  <2>1. Begun([i \in 1..(0 + 1) |-> seqs[1]], 0)
    OBVIOUS
  <2> HIDE DEF Begun
  <2> QED
    BY <1>0, <2>1
<1>2. ASSUME NEW n \in 0..N, n \in Holds, n < N
      PROVE  n + 1 \in Holds
  <2>1. PICK g : Begun(g, n)
    BY <1>2
  <2> DEFINE M == n + 2
             h == [i \in 1..M |-> IF i = M THEN g[n + 1] \o seqs[M] ELSE g[i]]
  <2>2. h = [i \in 1..M |-> h[i]]
    OBVIOUS
  <2>a. M \in Nat /\ M > 1 /\ M - 1 = n + 1
    BY <1>0
  <2>3. h[1] = seqs[1]
    <3>1. h[1] = g[1]
      BY <2>a
    <3> QED
      BY <2>1, <3>1
  <2>4. ASSUME NEW i \in 2..M
        PROVE  h[i] = h[i - 1] \o seqs[i]
    <3>1. CASE i = M
      <4>1. M \in 1..M /\ n + 1 \in 1..M /\ n + 1 # M
        BY <2>a
      <4>2. h[M] = g[n + 1] \o seqs[M] /\ h[n + 1] = g[n + 1]
        BY <4>1
      <4> HIDE DEF h, M
      <4> QED
        BY <2>a, <3>1, <4>2
    <3>2. CASE i # M
      <4>1. i \in 2..(n + 1) /\ i \in 1..M /\ i - 1 \in 1..M /\ i - 1 # M
        BY <3>2, <1>0
      <4>2. h[i] = g[i] /\ h[i - 1] = g[i - 1]
        BY <3>2, <4>1
      <4> QED
        BY <2>1, <4>1, <4>2
    <3> QED
      BY <3>1, <3>2
  <2>5. M = (n + 1) + 1 /\ n + 1 \in 0..N
    BY <1>0, <1>2
  <2>6. Begun(h, n + 1)
    <3> HIDE DEF h, M
    <3> QED
      BY <2>2, <2>3, <2>4, <2>5
  <2> HIDE DEF h, M, Begun
  <2> QED
    BY <2>5, <2>6
<1>3. N \in Holds
  <2> HIDE DEF Holds
  <2>1. \A n \in 0..N : n \in Holds
    BY <1>0, <1>1, <1>2, Induction
  <2> QED
    BY <1>0, <2>1
<1> HIDE DEF N
<1> QED
  BY <1>0, <1>3 DEF IsJoin

\* And FlattenSeq is where it ends.
LEMMA FlattenIs ==
  ASSUME NEW seqs \in Seq(Seq(Bytes)), seqs # <<>>
  PROVE  \E g : IsJoin(g, seqs) /\ FlattenSeq(seqs) = g[Len(seqs)]
<1> DEFINE Is(g) == g = [i \in 1..Len(seqs) |->
                           IF i = 1 THEN seqs[i] ELSE g[i - 1] \o seqs[i]]
           flatten == CHOOSE g : Is(g)
<1>0. Len(seqs) # 0 /\ Len(seqs) \in Nat
  OBVIOUS
<1>1. FlattenSeq(seqs) = flatten[Len(seqs)]
  BY <1>0 DEF FlattenSeq
<1>2. ASSUME NEW g, IsJoin(g, seqs)
      PROVE  Is(g)
  <2>1. \A i \in 1..Len(seqs) : i # 1 => i \in 2..Len(seqs)
    BY <1>0
  <2>2. \A i \in 1..Len(seqs) : g[i] = IF i = 1 THEN seqs[i] ELSE g[i - 1] \o seqs[i]
    BY <1>2, <2>1 DEF IsJoin
  <2>3. g = [i \in 1..Len(seqs) |-> g[i]]
    BY <1>2 DEF IsJoin
  <2> QED
    BY <2>2, <2>3
<1>3. ASSUME NEW g, Is(g)
      PROVE  IsJoin(g, seqs)
  <2>1. 1 \in 1..Len(seqs) /\ \A i \in 2..Len(seqs) : i \in 1..Len(seqs) /\ i # 1
    BY <1>0
  <2>2. \A i \in 1..Len(seqs) : g[i] = IF i = 1 THEN seqs[i] ELSE g[i - 1] \o seqs[i]
    BY <1>3
  <2>3. g = [i \in 1..Len(seqs) |-> g[i]]
    BY <1>3
  <2> HIDE DEF Is
  <2> QED
    BY <2>1, <2>2, <2>3 DEF IsJoin
<1>4. Is(flatten)
  <2>1. \E g : Is(g)
    BY <1>2, JoinExists
  <2> HIDE DEF Is
  <2> QED
    BY <2>1
<1> HIDE DEF flatten, Is
<1> QED
  BY <1>1, <1>3, <1>4

\* The pieces together are bytes.
LEMMA FlattenTyped ==
  ASSUME NEW seqs \in Seq(Seq(Bytes))
  PROVE  FlattenSeq(seqs) \in Seq(Bytes)
<1>1. CASE seqs = <<>>
  BY <1>1 DEF FlattenSeq
<1>2. CASE seqs # <<>>
  <2> DEFINE N == Len(seqs) - 1
  <2>0. N \in Nat /\ Len(seqs) = N + 1
    BY <1>2
  <2>1. PICK g : IsJoin(g, seqs) /\ FlattenSeq(seqs) = g[N + 1]
    BY <1>2, <2>0, FlattenIs
  <2> DEFINE Holds == {n \in 0..N : g[n + 1] \in Seq(Bytes)}
  <2>2. 0 \in Holds
    BY <2>0, <2>1 DEF IsJoin
  <2>3. ASSUME NEW n \in 0..N, n \in Holds, n < N
        PROVE  n + 1 \in Holds
    <3>1. n + 2 \in 2..Len(seqs) /\ (n + 2) - 1 = n + 1 /\ (n + 1) + 1 = n + 2
          /\ n + 1 \in 0..N
      BY <2>0, <2>3
    <3>2. g[n + 2] = g[n + 1] \o seqs[n + 2]
      BY <2>1, <3>1 DEF IsJoin
    <3>3. seqs[n + 2] \in Seq(Bytes)
      BY <3>1
    <3>4. g[n + 2] \in Seq(Bytes)
      BY <2>3, <3>2, <3>3, ConcatProperties
    <3> QED
      BY <3>1, <3>4
  <2>4. N \in Holds
    <3> HIDE DEF Holds
    <3>1. \A n \in 0..N : n \in Holds
      BY <2>0, <2>2, <2>3, Induction
    <3> QED
      BY <2>0, <3>1
  <2> QED
    BY <2>1, <2>4
<1> QED
  BY <1>1, <1>2

\* One piece more.
LEMMA FlattenAppend ==
  ASSUME NEW seqs \in Seq(Seq(Bytes)), NEW b \in Seq(Bytes)
  PROVE  FlattenSeq(Append(seqs, b)) = FlattenSeq(seqs) \o b
<1> DEFINE more == Append(seqs, b)
           L == Len(seqs)
<1>1. /\ L \in Nat /\ more \in Seq(Seq(Bytes)) /\ more # <<>> /\ Len(more) = L + 1
      /\ more[L + 1] = b /\ \A i \in 1..L : more[i] = seqs[i]
  BY AppendProperties
<1>2. PICK g : IsJoin(g, more) /\ FlattenSeq(more) = g[L + 1]
  <2> HIDE DEF more, L
  <2> QED
    BY <1>1, FlattenIs
<1>3. CASE seqs = <<>>
  <2>1. L = 0 /\ FlattenSeq(seqs) = <<>>
    BY <1>3 DEF FlattenSeq
  <2>2. g[1] = b
    BY <1>1, <1>2, <2>1 DEF IsJoin
  <2> QED
    BY <1>2, <2>1, <2>2
<1>4. CASE seqs # <<>>
  <2>0. L - 1 \in Nat /\ (L - 1) + 1 = L
    BY <1>1, <1>4
  <2>1. PICK h : IsJoin(h, seqs) /\ FlattenSeq(seqs) = h[L]
    BY <1>4, FlattenIs
  <2> DEFINE N == L - 1
             Holds == {n \in 0..N : g[n + 1] = h[n + 1]}
  <2> HIDE DEF more
  <2>2. 0 \in Holds
    <3>1. g[1] = more[1]
      BY <1>2 DEF IsJoin
    <3>2. h[1] = seqs[1]
      BY <2>1 DEF IsJoin
    <3>3. 1 \in 1..L
      BY <2>0
    <3>4. more[1] = seqs[1]
      BY <1>1, <3>3
    <3> QED
      BY <2>0, <3>1, <3>2, <3>4
  <2>3. ASSUME NEW n \in 0..N, n \in Holds, n < N
        PROVE  n + 1 \in Holds
    <3>1. n + 2 \in 2..L /\ n + 2 \in 2..(L + 1) /\ (n + 2) - 1 = n + 1
          /\ (n + 1) + 1 = n + 2 /\ n + 1 \in 0..N /\ n + 2 \in 1..L
      BY <2>0, <2>3
    <3>2. g[n + 2] = g[n + 1] \o more[n + 2]
      BY <1>1, <1>2, <3>1 DEF IsJoin
    <3>3. h[n + 2] = h[n + 1] \o seqs[n + 2]
      BY <2>1, <3>1 DEF IsJoin
    <3> QED
      BY <1>1, <2>3, <3>1, <3>2, <3>3
  <2>4. N \in Holds
    <3> HIDE DEF Holds
    <3>1. \A n \in 0..N : n \in Holds
      BY <2>0, <2>2, <2>3, Induction
    <3> QED
      BY <2>0, <3>1
  <2>5. g[L] = h[L]
    BY <2>0, <2>4
  <2>6. g[L + 1] = g[L] \o more[L + 1]
    <3>1. L + 1 \in 2..(L + 1) /\ (L + 1) - 1 = L
      BY <2>0
    <3> QED
      BY <1>1, <1>2, <3>1 DEF IsJoin
  <2> QED
    BY <1>1, <1>2, <2>1, <2>5, <2>6 DEF more
<1> QED
  BY <1>3, <1>4

-----------------------------------------------------------------------------
(* The numbers of a set, in order *)

\* The only member of a set of one.
LEMMA OnlyOne ==
  ASSUME NEW x
  PROVE  TheOnly({x}) = x
BY DEF TheOnly

\* In order, m comes after the numbers in I.
ComesAfter(m, I) ==
  /\ Cardinality(I) \in Nat
  /\ Cardinality(I \cup {m}) = Cardinality(I) + 1
  /\ \A k \in 1..Cardinality(I) : InOrder(I \cup {m})[k] = InOrder(I)[k]
  /\ InOrder(I \cup {m})[Cardinality(I) + 1] = m

\* A number above the others comes after them.
LEMMA OrderGrows ==
  ASSUME NEW n \in Nat, NEW I \in SUBSET (1..n), NEW m \in Nat, m > n
  PROVE  ComesAfter(m, I)
<1> DEFINE J == I \cup {m}
           C == Cardinality(I)
           UpToIn(S, i) == {j \in S : j <= i}
           At(S, k) == {i \in S : Cardinality(UpToIn(S, i)) = k}
<1>1. IsFiniteSet(I) /\ C \in Nat /\ IsFiniteSet(J) /\ Cardinality(J) = C + 1
  <2>1. IsFiniteSet(1..n)
    BY FS_Interval
  <2>2. IsFiniteSet(I)
    BY <2>1, FS_Subset
  <2>3. m \notin I
    OBVIOUS
  <2> QED
    BY <2>2, <2>3, FS_AddElement, FS_CardinalityType
<1>2. \A i \in I : UpToIn(J, i) = UpToIn(I, i)
  OBVIOUS
<1>3. UpToIn(J, m) = J
  <2>1. \A j \in J : j <= m
    OBVIOUS
  <2> HIDE DEF J
  <2> QED
    BY <2>1
<1>4. \A i \in I : Cardinality(UpToIn(I, i)) <= C
  <2>1. \A i \in I : UpToIn(I, i) \in SUBSET I
    OBVIOUS
  <2> HIDE DEF UpToIn
  <2> QED
    BY <1>1, <2>1, FS_Subset
<1> HIDE DEF UpToIn
<1>5. ASSUME NEW k \in 1..C
      PROVE  At(J, k) = At(I, k)
  <2>1. Cardinality(UpToIn(J, m)) # k
    BY <1>1, <1>3
  <2> QED
    BY <1>2, <2>1
<1>6. At(J, C + 1) = {m}
  <2>1. m \in At(J, C + 1)
    BY <1>1, <1>3
  <2>2. ASSUME NEW i \in I
        PROVE  i \notin At(J, C + 1)
    <3>1. Cardinality(UpToIn(J, i)) <= C
      BY <1>2, <1>4
    <3> QED
      BY <1>1, <3>1
  <2> QED
    BY <2>1, <2>2
<1>7. /\ InOrder(J) = [k \in 1..(C + 1) |-> TheOnly(At(J, k))]
      /\ InOrder(I) = [k \in 1..C |-> TheOnly(At(I, k))]
  BY <1>1 DEF InOrder, UpToIn
<1>8. \A k \in 1..C : InOrder(J)[k] = InOrder(I)[k]
  <2> HIDE DEF At, J
  <2>1. \A k \in 1..C : k \in 1..(C + 1)
    BY <1>1
  <2> QED
    BY <1>5, <1>7, <2>1
<1>9. InOrder(J)[C + 1] = m
  <2>1. C + 1 \in 1..(C + 1)
    BY <1>1
  <2>2. InOrder(J)[C + 1] = TheOnly(At(J, C + 1))
    <3> HIDE DEF At, J
    <3> QED
      BY <1>7, <2>1
  <2> QED
    BY <1>6, <2>2, OnlyOne
<1> QED
  BY <1>1, <1>8, <1>9 DEF ComesAfter

\* Each of them is one of the set's.
LEMMA OrderWithin ==
  ASSUME NEW n \in Nat, NEW I \in SUBSET (1..n)
  PROVE  \A k \in 1..Cardinality(I) : InOrder(I)[k] \in I
<1> DEFINE Holds == {b \in 0..n : \A S \in SUBSET (1..b) :
                                    \A k \in 1..Cardinality(S) : InOrder(S)[k] \in S}
<1>1. 0 \in Holds
  <2>1. \A S \in SUBSET (1..0) : S = {}
    OBVIOUS
  <2>2. \A S \in SUBSET (1..0) : Cardinality(S) = 0
    BY <2>1, FS_EmptySet
  <2>3. \A S \in SUBSET (1..0) : \A k \in 1..Cardinality(S) : InOrder(S)[k] \in S
    BY <2>2
  <2> QED
    BY <2>3
<1>2. ASSUME NEW b \in 0..n, b \in Holds, b < n
      PROVE  b + 1 \in Holds
  <2> SUFFICES ASSUME NEW S \in SUBSET (1..(b + 1)), NEW k \in 1..Cardinality(S)
               PROVE  InOrder(S)[k] \in S
    <3>1. b + 1 \in 0..n
      BY <1>2
    <3> QED
      BY <3>1
  <2>1. CASE b + 1 \notin S
    <3>1. S \in SUBSET (1..b)
      BY <2>1
    <3> QED
      BY <1>2, <3>1
  <2>2. CASE b + 1 \in S
    <3> DEFINE T == S \ {b + 1}
    <3>1. T \in SUBSET (1..b) /\ S = T \cup {b + 1} /\ b \in Nat /\ b + 1 \in Nat /\ b + 1 > b
      BY <2>2
    <3> HIDE DEF T
    <3>2. /\ Cardinality(T) \in Nat
          /\ Cardinality(S) = Cardinality(T) + 1
          /\ \A l \in 1..Cardinality(T) : InOrder(S)[l] = InOrder(T)[l]
          /\ InOrder(S)[Cardinality(T) + 1] = b + 1
      <4> DEFINE m == b + 1
      <4>1. m \in Nat /\ m > b /\ S = T \cup {m}
        BY <3>1
      <4> HIDE DEF m
      <4>2. /\ Cardinality(T) \in Nat
            /\ Cardinality(T \cup {m}) = Cardinality(T) + 1
            /\ \A l \in 1..Cardinality(T) : InOrder(T \cup {m})[l] = InOrder(T)[l]
            /\ InOrder(T \cup {m})[Cardinality(T) + 1] = m
        <5>1. b \in Nat /\ T \in SUBSET (1..b)
          BY <3>1
        <5>2. ComesAfter(m, T)
          BY <4>1, <5>1, OrderGrows
        <5> QED
          BY <5>2 DEF ComesAfter
      <4> QED
        BY <4>1, <4>2 DEF m
    <3>3. CASE k = Cardinality(T) + 1
      BY <2>2, <3>2, <3>3
    <3>4. CASE k # Cardinality(T) + 1
      <4>1. k \in 1..Cardinality(T)
        BY <3>2, <3>4
      <4>2. InOrder(T)[k] \in T
        BY <1>2, <3>1, <4>1
      <4> QED
        BY <3>1, <3>2, <4>1, <4>2
    <3> QED
      BY <3>3, <3>4
  <2> QED
    BY <2>1, <2>2
<1>3. n \in Holds
  <2> HIDE DEF Holds
  <2>1. \A b \in 0..n : b \in Holds
    BY <1>1, <1>2, Induction
  <2> QED
    BY <2>1
<1> QED
  BY <1>3

\* So what there is in order is a sequence, which grows at its end.
LEMMA OrderAppends ==
  ASSUME NEW n \in Nat, NEW I \in SUBSET (1..n), NEW m \in Nat, m > n
  PROVE  /\ InOrder(I) \in Seq(I) /\ Len(InOrder(I)) = Cardinality(I)
         /\ Cardinality(I) \in Nat
         /\ InOrder(I \cup {m}) = Append(InOrder(I), m)
<1> DEFINE C == Cardinality(I)
           a == InOrder(I)
           b == InOrder(I \cup {m})
<1>1. /\ C \in Nat /\ Cardinality(I \cup {m}) = C + 1
      /\ \A k \in 1..C : b[k] = a[k]
      /\ b[C + 1] = m
  <2>1. ComesAfter(m, I)
    BY OrderGrows
  <2> QED
    BY <2>1 DEF ComesAfter
<1>2. /\ a = [k \in 1..C |-> a[k]]
      /\ b = [k \in 1..(C + 1) |-> b[k]]
  BY <1>1 DEF InOrder
<1>3. \A k \in 1..C : a[k] \in I
  BY OrderWithin
<1> HIDE DEF a, b, C
<1>4. a \in Seq(I) /\ Len(a) = C
  BY <1>1, <1>2, <1>3, SMTT(30)
<1>a. I \subseteq Nat
  OBVIOUS
<1>5. a \in Seq(Nat)
  BY <1>4, <1>a, SeqMonotonic
<1>6. /\ Len(Append(a, m)) = C + 1 /\ \A k \in 1..C : Append(a, m)[k] = a[k]
      /\ Append(a, m)[C + 1] = m /\ Append(a, m) \in Seq(Nat)
  BY <1>4, <1>5, AppendProperties
<1>7. b \in Seq(Nat) /\ Len(b) = C + 1
  <2>1. \A k \in 1..(C + 1) : b[k] \in Nat
    <3>1. ASSUME NEW k \in 1..(C + 1)
          PROVE  b[k] \in Nat
      <4>1. CASE k = C + 1
        BY <1>1, <4>1
      <4>2. CASE k # C + 1
        <5>1. k \in 1..C
          BY <1>1, <4>2
        <5> QED
          BY <1>1, <1>3, <1>a, <5>1
      <4> QED
        BY <4>1, <4>2
    <3> QED
      BY <3>1
  <2> QED
    BY <1>1, <1>2, <2>1
<1>8. \A k \in 1..(C + 1) : b[k] = Append(a, m)[k]
  BY <1>1, <1>6
<1>9. b = Append(a, m)
  BY <1>6, <1>7, <1>8, SeqEqual
<1> QED
  BY <1>1, <1>4, <1>9 DEF a, b, C

-----------------------------------------------------------------------------
(* The frames of a message *)

\* The frames of s whose numbers are in I.
Picked(s, I) == [k \in 1..Cardinality(I) |-> s[InOrder(I)[k]]]

\* The data frames of s from p to q, and the place of the first of a message.
Data(s, p, q) == {k \in p..q : IsData(s[k])}

IsBegin(s, i, j) ==
  /\ s[j].op \in {"text", "binary"}
  /\ \A k \in (j + 1)..i : s[k].op \notin {"text", "binary"}

Payload(frames) == FlattenSeq([i \in DOMAIN frames |-> frames[i].body])

\* What a message is, with these names.
LEMMA MessageIs ==
  ASSUME NEW s, NEW i
  PROVE  /\ FramesOf(s, i) = Picked(s, {k \in Begins(s, i)..i : IsControl(s[i]) \/ IsData(s[k])})
         /\ MessageAt(s, i) = [op |-> s[Begins(s, i)].op, payload |-> Payload(FramesOf(s, i))]
BY DEF FramesOf, Picked, MessageAt, Payload

\* Frames picked before s grows are still there, and one more comes last.
LEMMA PickedGrows ==
  ASSUME NEW s \in Seq(FrameRecord), NEW f \in FrameRecord, NEW I \in SUBSET (1..Len(s))
  PROVE  /\ Picked(s, I) \in Seq(FrameRecord)
         /\ Picked(Append(s, f), I) = Picked(s, I)
         /\ Picked(Append(s, f), I \cup {Len(s) + 1}) = Append(Picked(s, I), f)
         /\ Len(Picked(s, I)) = Cardinality(I)
<1> DEFINE n == Len(s)
           m == n + 1
           t == Append(s, f)
           C == Cardinality(I)
           a == Picked(s, I)
           b == Picked(t, I)
           c == Picked(t, I \cup {m})
<1>1. /\ n \in Nat /\ m \in Nat /\ m > n
      /\ \A k \in 1..n : t[k] = s[k] /\ s[k] \in FrameRecord
      /\ t[m] = f
  OBVIOUS
<1>2. /\ InOrder(I) \in Seq(I) /\ Len(InOrder(I)) = C /\ C \in Nat
      /\ InOrder(I \cup {m}) = Append(InOrder(I), m)
  <2> HIDE DEF m
  <2> QED
    BY <1>1, OrderAppends
<1>3. Cardinality(I \cup {m}) = C + 1
  <2> HIDE DEF m
  <2>1. ComesAfter(m, I)
    BY <1>1, OrderGrows
  <2> QED
    BY <2>1 DEF ComesAfter
<1>4. \A k \in 1..C : InOrder(I)[k] \in 1..n
  <2>1. \A k \in 1..C : InOrder(I)[k] \in I
    BY <1>2, ElementOfSeq
  <2> QED
    BY <2>1
<1>5. /\ \A k \in 1..C : InOrder(I \cup {m})[k] = InOrder(I)[k]
      /\ InOrder(I \cup {m})[C + 1] = m
  <2>1. InOrder(I) \in Seq(Nat)
    <3>1. I \subseteq Nat
      OBVIOUS
    <3> QED
      BY <1>2, <3>1, SeqMonotonic
  <2> DEFINE o == InOrder(I)
  <2>2. o \in Seq(Nat) /\ Len(o) = C /\ InOrder(I \cup {m}) = Append(o, m)
    BY <1>2, <2>1
  <2> HIDE DEF m, o, C
  <2>3. /\ \A k \in 1..C : Append(o, m)[k] = o[k]
        /\ Append(o, m)[C + 1] = m
    BY <1>1, <2>2, AppendProperties
  <2> QED
    BY <2>2, <2>3 DEF o
<1> HIDE DEF t, m, n
<1>6. a = [k \in 1..C |-> s[InOrder(I)[k]]]
  BY DEF Picked
<1>7. b = [k \in 1..C |-> t[InOrder(I)[k]]]
  BY DEF Picked
<1>8. c = [k \in 1..(C + 1) |-> t[InOrder(I \cup {m})[k]]]
  BY <1>3 DEF Picked
<1>9. a \in Seq(FrameRecord) /\ Len(a) = C
  <2>1. \A k \in 1..C : s[InOrder(I)[k]] \in FrameRecord
    BY <1>1, <1>4
  <2> HIDE DEF a
  <2> QED
    BY <1>2, <1>6, <2>1
<1>10. a = b
  <2>1. \A k \in 1..C : t[InOrder(I)[k]] = s[InOrder(I)[k]]
    BY <1>1, <1>4
  <2> HIDE DEF a, b
  <2> QED
    BY <1>6, <1>7, <2>1
<1>11. /\ \A k \in 1..C : c[k] = a[k]
       /\ c[C + 1] = f
  <2>1. \A k \in 1..C : k \in 1..(C + 1)
    BY <1>2
  <2>2. C + 1 \in 1..(C + 1)
    BY <1>2
  <2> HIDE DEF a, c
  <2>3. c[C + 1] = f
    BY <1>1, <1>5, <1>8, <2>2
  <2>4. ASSUME NEW k \in 1..C
        PROVE  c[k] = a[k]
    <3>1. c[k] = t[InOrder(I)[k]]
      BY <1>5, <1>8, <2>1
    <3> QED
      BY <1>1, <1>4, <1>6, <3>1
  <2> QED
    BY <2>3, <2>4
<1>12. c = Append(a, f)
  <2> HIDE DEF a, c
  <2>1. /\ Append(a, f) \in Seq(FrameRecord) /\ Len(Append(a, f)) = C + 1
        /\ \A k \in 1..C : Append(a, f)[k] = a[k]
        /\ Append(a, f)[C + 1] = f
    BY <1>9, AppendProperties
  <2>2. \A k \in 1..(C + 1) : k \in 1..C \/ k = C + 1
    BY <1>2
  <2>3. \A k \in 1..(C + 1) : c[k] = Append(a, f)[k]
    BY <1>11, <2>1, <2>2
  <2>4. c \in Seq(FrameRecord) /\ Len(c) = C + 1
    <3>1. \A k \in 1..(C + 1) : c[k] \in FrameRecord
      BY <2>1, <2>3
    <3>2. c = [k \in 1..(C + 1) |-> c[k]]
      BY <1>8
    <3>3. C + 1 \in Nat
      BY <1>2
    <3>4. c \in [1..(C + 1) -> FrameRecord]
      BY <3>1, <3>2
    <3> HIDE DEF C
    <3> QED
      BY <3>3, <3>4
  <2> QED
    BY <2>1, <2>3, <2>4, SeqEqual
<1> QED
  BY <1>9, <1>10, <1>12 DEF t, m, n

\* The bytes of frames that grow by one.
LEMMA PayloadGrows ==
  ASSUME NEW frames \in Seq(FrameRecord), NEW f \in FrameRecord
  PROVE  /\ Payload(frames) \in Seq(Bytes)
         /\ Payload(Append(frames, f)) = Payload(frames) \o f.body
         /\ f.body \in Seq(Bytes)
<1> DEFINE bodies(s) == [i \in DOMAIN s |-> s[i].body]
           more == Append(frames, f)
           n == Len(frames)
<1>1. f.body \in Seq(Bytes)
  BY DEF FrameRecord
<1>2. bodies(frames) \in Seq(Seq(Bytes)) /\ Len(bodies(frames)) = n
  <2>1. \A i \in 1..n : frames[i].body \in Seq(Bytes)
    <3>1. \A i \in 1..n : frames[i] \in FrameRecord
      OBVIOUS
    <3> QED
      BY <3>1 DEF FrameRecord
  <2> QED
    BY <2>1
<1>3. bodies(more) = Append(bodies(frames), f.body)
  <2>1. /\ n \in Nat /\ DOMAIN more = 1..(n + 1) /\ more[n + 1] = f
        /\ \A i \in 1..n : more[i] = frames[i]
    OBVIOUS
  <2>2. DOMAIN frames = 1..n
    OBVIOUS
  <2> DEFINE a == Append(bodies(frames), f.body)
  <2>3. /\ a \in Seq(Seq(Bytes)) /\ Len(a) = n + 1
        /\ \A i \in 1..n : a[i] = bodies(frames)[i]
        /\ a[n + 1] = f.body
    <3> HIDE DEF bodies
    <3> QED
      BY <1>1, <1>2, AppendProperties
  <2>4. a = [i \in 1..(n + 1) |-> a[i]]
    BY <2>3
  <2>5. ASSUME NEW i \in 1..(n + 1)
        PROVE  a[i] = more[i].body
    <3> HIDE DEF a, more
    <3>1. CASE i = n + 1
      BY <2>1, <2>3, <3>1
    <3>2. CASE i # n + 1
      <4>1. i \in 1..n
        BY <2>1, <3>2
      <4> QED
        BY <2>1, <2>2, <2>3, <4>1
    <3> QED
      BY <3>1, <3>2
  <2> HIDE DEF a, more
  <2>6. bodies(more) = [i \in 1..(n + 1) |-> more[i].body]
    BY <2>1
  <2>7. a = bodies(more)
    BY <2>4, <2>5, <2>6
  <2> QED
    BY <2>7 DEF a
<1> HIDE DEF bodies
<1>4. FlattenSeq(bodies(more)) = FlattenSeq(bodies(frames)) \o f.body
  BY <1>1, <1>2, <1>3, FlattenAppend
<1> QED
  BY <1>1, <1>2, <1>4, FlattenTyped DEF Payload, bodies

-----------------------------------------------------------------------------
(* What one more frame changes *)

\* Each frame of s belongs to a message that s has begun.
WellBegun(s) == \A i \in DOMAIN s : Begins(s, i) \in 1..i

\* These are the fragments of the message that s leaves open.
OpenAs(s, frames) ==
  /\ frames # <<>> <=> OpenBefore(s, Len(s) + 1)
  /\ frames # <<>> =>
       \E p \in 1..Len(s) :
         /\ IsBegin(s, Len(s), p)
         /\ frames = Picked(s, Data(s, p, Len(s)))
         /\ frames[1] = s[p]

\* A message has one beginning.
LEMMA BeginsAt ==
  ASSUME NEW s, NEW i \in Nat, NEW p \in 1..i, IsBegin(s, i, p), IsData(s[i])
  PROVE  Begins(s, i) = p
<1> DEFINE B == {j \in 1..i : /\ s[j].op \in {"text", "binary"}
                              /\ \A k \in (j + 1)..i : s[k].op \notin {"text", "binary"}}
<1>1. p \in B
  BY DEF IsBegin
<1>2. ASSUME NEW j \in B
      PROVE  j = p
  <2>1. j < p => p \in (j + 1)..i
    OBVIOUS
  <2>2. p < j => j \in (p + 1)..i
    OBVIOUS
  <2>3. ~(j < p)
    BY <1>1, <2>1
  <2>4. ~(p < j)
    BY <1>1, <2>2
  <2> QED
    BY <2>3, <2>4
<1>3. B = {p}
  BY <1>1, <1>2
<1>4. Begins(s, i) = TheOnly(B)
  BY DEF Begins, IsData
<1> HIDE DEF B
<1> QED
  BY <1>3, <1>4, OnlyOne

\* An old frame stays where it was, in the message it was in.
LEMMA MessageKept ==
  ASSUME NEW s \in Seq(FrameRecord), NEW f \in FrameRecord, NEW i \in 1..Len(s)
  PROVE  /\ Begins(Append(s, f), i) = Begins(s, i)
         /\ Begins(s, i) \in 1..i => MessageAt(Append(s, f), i) = MessageAt(s, i)
<1> DEFINE t == Append(s, f)
           n == Len(s)
           B(r) == {j \in 1..i : /\ r[j].op \in {"text", "binary"}
                                 /\ \A k \in (j + 1)..i : r[k].op \notin {"text", "binary"}}
<1>1. n \in Nat /\ i \in 1..n /\ \A k \in 1..n : t[k] = s[k]
  OBVIOUS
<1>2. \A j \in 1..i : j \in 1..n /\ \A k \in (j + 1)..i : k \in 1..n
  OBVIOUS
<1> HIDE DEF t, n
<1>3. B(t) = B(s)
  BY <1>1, <1>2
<1>4. Begins(t, i) = Begins(s, i)
  <2>1. \A r : Begins(r, i) = IF IsControl(r[i]) THEN i ELSE TheOnly(B(r))
    BY DEF Begins
  <2> HIDE DEF B
  <2> QED
    BY <1>1, <1>3, <2>1
<1>5. ASSUME Begins(s, i) \in 1..i
      PROVE  MessageAt(t, i) = MessageAt(s, i)
  <2> DEFINE p == Begins(s, i)
             I == {k \in p..i : IsControl(s[i]) \/ IsData(s[k])}
             J == {k \in p..i : IsControl(t[i]) \/ IsData(t[k])}
  <2>1. \A k \in p..i : k \in 1..n
    BY <1>1, <1>5
  <2>2. p \in 1..n
    BY <1>1, <1>5
  <2>3. I = J /\ I \in SUBSET (1..n)
    BY <1>1, <2>1
  <2>4. Picked(t, I) = Picked(s, I)
    <3> HIDE DEF I, p
    <3> QED
      BY <2>3, PickedGrows DEF t, n
  <2>5. FramesOf(t, i) = Picked(t, J) /\ FramesOf(s, i) = Picked(s, I)
    BY <1>4, MessageIs
  <2>6. t[p] = s[p]
    BY <1>1, <2>2
  <2> HIDE DEF p, I, J
  <2> QED
    BY <1>4, <2>3, <2>4, <2>5, <2>6, MessageIs DEF p
<1> QED
  BY <1>4, <1>5 DEF t

\* So one more frame ends one more message, or none.
LEMMA MessagesGrow ==
  ASSUME NEW s \in Seq(FrameRecord), NEW f \in FrameRecord, WellBegun(s),
         MessagesOf(s) \in Seq(Message), f.fin => MessageAt(Append(s, f), Len(s) + 1) \in Message
  PROVE  MessagesOf(Append(s, f)) =
           IF f.fin THEN Append(MessagesOf(s), MessageAt(Append(s, f), Len(s) + 1))
           ELSE MessagesOf(s)
<1> DEFINE t == Append(s, f)
           n == Len(s)
           m == n + 1
           I == {i \in DOMAIN s : s[i].fin}
           J == {i \in DOMAIN t : t[i].fin}
           C == Cardinality(I)
           a == MessagesOf(s)
           b == MessagesOf(t)
<1>1. /\ n \in Nat /\ m \in Nat /\ m > n
      /\ DOMAIN s = 1..n /\ DOMAIN t = 1..m
      /\ t[m] = f /\ \A i \in 1..n : t[i] = s[i]
  OBVIOUS
<1>2. I \in SUBSET (1..n)
  BY <1>1
<1>3. J = IF f.fin THEN I \cup {m} ELSE I
  <2>1. \A i : i \in 1..m <=> i \in 1..n \/ i = m
    BY <1>1
  <2> HIDE DEF t, n, m
  <2> QED
    BY <1>1, <2>1
<1> HIDE DEF t, n, m, I, J
<1>4. /\ InOrder(I) \in Seq(I) /\ Len(InOrder(I)) = C /\ C \in Nat
      /\ InOrder(I \cup {m}) = Append(InOrder(I), m)
  BY <1>1, <1>2, OrderAppends
<1>5. \A k \in 1..C : InOrder(I)[k] \in 1..n
  <2>1. \A k \in 1..C : InOrder(I)[k] \in I
    BY <1>4, ElementOfSeq
  <2> QED
    BY <1>2, <2>1
<1>6. /\ a = [k \in 1..C |-> MessageAt(s, InOrder(I)[k])]
      /\ b = [k \in 1..Cardinality(J) |-> MessageAt(t, InOrder(J)[k])]
  BY DEF MessagesOf, I, J
<1>7. \A k \in 1..C : MessageAt(t, InOrder(I)[k]) = MessageAt(s, InOrder(I)[k])
  <2>1. \A i \in 1..n : MessageAt(t, i) = MessageAt(s, i)
    BY <1>1, MessageKept DEF WellBegun, t, n
  <2> QED
    BY <1>5, <2>1
<1>8. CASE ~f.fin
  <2>1. J = I
    BY <1>3, <1>8
  <2>2. a = b
    <3> HIDE DEF a, b, C
    <3> QED
      BY <1>6, <1>7, <2>1 DEF C
  <2> QED
    BY <1>8, <2>2 DEF t
<1>9. CASE f.fin
  <2> DEFINE x == MessageAt(t, m)
  <2>1. J = I \cup {m}
    BY <1>3, <1>9
  <2>2. /\ Cardinality(J) = C + 1
        /\ \A k \in 1..C : InOrder(J)[k] = InOrder(I)[k]
        /\ InOrder(J)[C + 1] = m
    <3>1. ComesAfter(m, I)
      BY <1>1, <1>2, OrderGrows
    <3> QED
      BY <2>1, <3>1 DEF ComesAfter
  <2>3. /\ \A k \in 1..C : b[k] = a[k]
        /\ b[C + 1] = x
        /\ b = [k \in 1..(C + 1) |-> b[k]]
    <3>1. \A k \in 1..C : k \in 1..(C + 1)
      BY <1>4
    <3>2. C + 1 \in 1..(C + 1)
      BY <1>4
    <3>3. b = [k \in 1..(C + 1) |-> MessageAt(t, InOrder(J)[k])]
      BY <1>6, <2>2
    <3> HIDE DEF a, b, C
    <3>4. b[C + 1] = x
      BY <2>2, <3>2, <3>3
    <3>5. ASSUME NEW k \in 1..C
          PROVE  b[k] = a[k]
      <4>1. b[k] = MessageAt(t, InOrder(J)[k])
        BY <3>1, <3>3
      <4>2. a[k] = MessageAt(s, InOrder(I)[k])
        BY <1>6
      <4> QED
        BY <1>7, <2>2, <4>1, <4>2
    <3>6. b = [k \in 1..(C + 1) |-> b[k]]
      BY <3>3
    <3> QED
      BY <3>4, <3>5, <3>6
  <2>4. x \in Message /\ a \in Seq(Message)
    BY <1>9 DEF t, m, n
  <2>5. Len(a) = C
    <3> HIDE DEF a, C
    <3> QED
      BY <1>4, <1>6
  <2> HIDE DEF a, b, x, C
  <2>6. /\ Append(a, x) \in Seq(Message) /\ Len(Append(a, x)) = C + 1
        /\ \A k \in 1..C : Append(a, x)[k] = a[k]
        /\ Append(a, x)[C + 1] = x
    BY <2>4, <2>5, AppendProperties
  <2>7. \A k \in 1..(C + 1) : k \in 1..C \/ k = C + 1
    BY <1>4 DEF C
  <2>8. \A k \in 1..(C + 1) : b[k] = Append(a, x)[k]
    BY <2>3, <2>6, <2>7
  <2>9. b \in Seq(Message) /\ Len(b) = C + 1
    <3>1. \A k \in 1..(C + 1) : b[k] \in Message
      BY <2>6, <2>8
    <3>2. b \in [1..(C + 1) -> Message]
      BY <2>3, <3>1
    <3>3. C + 1 \in Nat
      BY <1>4 DEF C
    <3> QED
      BY <3>2, <3>3
  <2>10. b = Append(a, x)
    BY <2>6, <2>8, <2>9, SeqEqual
  <2> QED
    BY <1>9, <2>10 DEF a, b, x, t, m, n
<1> QED
  BY <1>8, <1>9

\* Where a message is open, before the new frame and after it.
LEMMA OpenGrows ==
  ASSUME NEW s \in Seq(FrameRecord), NEW f \in FrameRecord
  PROVE  /\ \A i \in 1..(Len(s) + 1) : OpenBefore(Append(s, f), i) <=> OpenBefore(s, i)
         /\ OpenBefore(Append(s, f), Len(s) + 2) <=>
              IF IsControl(f) THEN OpenBefore(s, Len(s) + 1) ELSE ~f.fin
<1> DEFINE t == Append(s, f)
           n == Len(s)
<1>1. n \in Nat /\ t[n + 1] = f /\ \A k \in 1..n : t[k] = s[k]
  OBVIOUS
<1> HIDE DEF t, n
<1>2. ASSUME NEW i \in 1..(n + 1)
      PROVE  OpenBefore(t, i) <=> OpenBefore(s, i)
  <2>1. \A j \in 1..(i - 1) : j \in 1..n /\ \A k \in (j + 1)..(i - 1) : k \in 1..n
    BY <1>1
  <2> QED
    BY <1>1, <2>1 DEF OpenBefore
<1>3. (n + 2) - 1 = n + 1 /\ (n + 1) - 1 = n
  BY <1>1
<1>4. CASE IsControl(f)
  <2>1. ASSUME OpenBefore(t, n + 2)
        PROVE  OpenBefore(s, n + 1)
    <3>1. PICK j \in 1..(n + 1) : /\ IsData(t[j]) /\ ~t[j].fin
                                  /\ \A k \in (j + 1)..(n + 1) : IsControl(t[k])
      BY <1>3, <2>1 DEF OpenBefore
    <3>2. j # n + 1
      BY <1>1, <1>4, <3>1 DEF IsData
    <3>3. j \in 1..n /\ \A k \in (j + 1)..n : k \in 1..n /\ k \in (j + 1)..(n + 1)
      BY <1>1, <3>2
    <3> QED
      BY <1>1, <1>3, <3>1, <3>3 DEF OpenBefore
  <2>2. ASSUME OpenBefore(s, n + 1)
        PROVE  OpenBefore(t, n + 2)
    <3>1. PICK j \in 1..n : /\ IsData(s[j]) /\ ~s[j].fin
                            /\ \A k \in (j + 1)..n : IsControl(s[k])
      BY <1>3, <2>2 DEF OpenBefore
    <3>2. j \in 1..(n + 1) /\ \A k \in (j + 1)..(n + 1) :
            k = n + 1 \/ (k \in 1..n /\ k \in (j + 1)..n)
      BY <1>1
    <3>3. \A k \in (j + 1)..(n + 1) : IsControl(t[k])
      BY <1>1, <1>4, <3>1, <3>2
    <3> QED
      BY <1>1, <1>3, <3>1, <3>2, <3>3 DEF OpenBefore
  <2> QED
    BY <1>2, <1>4, <2>1, <2>2 DEF t, n
<1>5. CASE ~IsControl(f)
  <2>1. ASSUME OpenBefore(t, n + 2)
        PROVE  ~f.fin
    <3>1. PICK j \in 1..(n + 1) : /\ IsData(t[j]) /\ ~t[j].fin
                                  /\ \A k \in (j + 1)..(n + 1) : IsControl(t[k])
      BY <1>3, <2>1 DEF OpenBefore
    <3>2. j # n + 1 => n + 1 \in (j + 1)..(n + 1)
      BY <1>1
    <3>3. j = n + 1
      BY <1>1, <1>5, <3>1, <3>2
    <3> QED
      BY <1>1, <3>1, <3>3
  <2>2. ASSUME ~f.fin
        PROVE  OpenBefore(t, n + 2)
    <3>1. n + 1 \in 1..(n + 1) /\ \A k \in ((n + 1) + 1)..(n + 1) : FALSE
      BY <1>1
    <3> QED
      BY <1>1, <1>3, <1>5, <2>2, <3>1 DEF OpenBefore, IsData
  <2> QED
    BY <1>2, <1>5, <2>1, <2>2 DEF t, n
<1> QED
  BY <1>4, <1>5

\* The message that ends with the new frame begins at p, and its other frames are
\* the data frames since.
LEMMA MessageFrom ==
  ASSUME NEW s \in Seq(FrameRecord), NEW f \in FrameRecord, IsData(f),
         NEW p \in 1..(Len(s) + 1), IsBegin(Append(s, f), Len(s) + 1, p),
         NEW frames \in Seq(FrameRecord), frames = Picked(s, Data(s, p, Len(s))),
         Head(Append(frames, f)) = Append(s, f)[p]
  PROVE  /\ Begins(Append(s, f), Len(s) + 1) = p
         /\ MessageAt(Append(s, f), Len(s) + 1) = Built(Append(frames, f))
         /\ Append(frames, f) = Picked(Append(s, f), Data(Append(s, f), p, Len(s) + 1))
<1> DEFINE t == Append(s, f)
           n == Len(s)
           m == n + 1
           I == Data(s, p, n)
           J == {k \in p..m : IsControl(t[m]) \/ IsData(t[k])}
<1>1. n \in Nat /\ m \in Nat /\ t[m] = f /\ \A k \in 1..n : t[k] = s[k]
  OBVIOUS
<1>2. Begins(t, m) = p
  <2> HIDE DEF t, m
  <2>1. IsBegin(t, m, p) /\ p \in 1..m /\ IsData(t[m])
    BY <1>1 DEF t, m
  <2> QED
    BY <1>1, <2>1, BeginsAt
<1>3. I \in SUBSET (1..n)
  BY <1>1 DEF Data
<1>4. J = I \cup {m}
  <2> HIDE DEF t
  <2>1. \A k : k \in p..m <=> (k \in p..n \/ k = m)
    BY <1>1
  <2>2. \A k \in p..n : k \in 1..n
    BY <1>1
  <2>3. ~IsControl(t[m]) /\ IsData(t[m])
    BY <1>1 DEF IsData
  <2>4. \A k \in p..n : IsData(t[k]) <=> IsData(s[k])
    BY <1>1, <2>2
  <2>5. J = {k \in p..m : IsData(t[k])}
    BY <2>3
  <2> HIDE DEF m, J
  <2> QED
    BY <2>1, <2>3, <2>4, <2>5 DEF Data
<1>5. Picked(t, J) = Append(frames, f)
  <2> HIDE DEF J, I
  <2>1. Picked(t, I \cup {n + 1}) = Append(Picked(s, I), f)
    BY <1>3, PickedGrows
  <2> QED
    BY <1>4, <2>1 DEF I
<1>6. FramesOf(t, m) = Append(frames, f)
  <2> HIDE DEF t, m
  <2> QED
    BY <1>2, <1>5, MessageIs
<1>7. MessageAt(t, m) = [op |-> t[p].op, payload |-> Payload(Append(frames, f))]
  <2> HIDE DEF t, m
  <2> QED
    BY <1>2, <1>6, MessageIs
<1>8. Built(Append(frames, f)) = [op |-> t[p].op, payload |-> Payload(Append(frames, f))]
  BY DEF Built, Body, Payload
<1>9. Data(t, p, m) = J
  <2>1. ~IsControl(t[m])
    BY <1>1 DEF IsData
  <2> QED
    BY <2>1 DEF Data
<1> QED
  BY <1>2, <1>5, <1>7, <1>8, <1>9

\* A control frame is a message of its own and disturbs no other.
LEMMA ControlIn ==
  ASSUME NEW s \in Seq(FrameRecord), NEW f \in FrameRecord, NEW frames \in Seq(FrameRecord),
         IsControl(f), WellBegun(s), OpenAs(s, frames)
  PROVE  /\ WellBegun(Append(s, f)) /\ OpenAs(Append(s, f), frames)
         /\ MessageAt(Append(s, f), Len(s) + 1) = Built(<<f>>)
<1> DEFINE t == Append(s, f)
           n == Len(s)
           m == n + 1
<1>1. /\ n \in Nat /\ m \in Nat /\ m > n /\ t[m] = f /\ \A k \in 1..n : t[k] = s[k]
      /\ Len(t) = m /\ t \in Seq(FrameRecord) /\ DOMAIN t = 1..m /\ DOMAIN s = 1..n
  OBVIOUS
<1>2. Begins(t, m) = m
  BY <1>1 DEF Begins
<1>3. WellBegun(t)
  <2>1. \A i \in 1..n : Begins(t, i) \in 1..i
    BY <1>1, MessageKept DEF WellBegun
  <2>2. m \in 1..m
    BY <1>1
  <2>3. \A i \in 1..m : i \in 1..n \/ i = m
    BY <1>1
  <2> HIDE DEF t, m, n
  <2> QED
    BY <1>1, <1>2, <2>1, <2>2, <2>3 DEF WellBegun
<1>4. FramesOf(t, m) = <<f>>
  <2> DEFINE J == {k \in m..m : IsControl(t[m]) \/ IsData(t[k])}
  <2>1. J = {m}
    BY <1>1
  <2>2. FramesOf(t, m) = Picked(t, J)
    <3> HIDE DEF t, m
    <3> QED
      BY <1>2, MessageIs
  <2>3. Picked(t, {} \cup {n + 1}) = Append(Picked(s, {}), f)
    BY PickedGrows
  <2>4. Picked(s, {}) \in Seq(FrameRecord) /\ Len(Picked(s, {})) = 0
    <3>1. {} \in SUBSET (1..n)
      OBVIOUS
    <3> QED
      BY <3>1, PickedGrows, FS_EmptySet
  <2>5. Picked(s, {}) = <<>>
    BY <2>4, EmptySeq
  <2>6. Append(<<>>, f) = <<f>>
    OBVIOUS
  <2> HIDE DEF J, t
  <2> QED
    BY <2>1, <2>2, <2>3, <2>5, <2>6
<1>5. MessageAt(t, m) = Built(<<f>>)
  <2>1. MessageAt(t, m) = [op |-> f.op, payload |-> Payload(<<f>>)]
    <3> HIDE DEF t, m
    <3> QED
      BY <1>1, <1>2, <1>4, MessageIs
  <2>2. Head(<<f>>) = f
    OBVIOUS
  <2> QED
    BY <2>1, <2>2 DEF Built, Body, Payload
<1>6. OpenAs(t, frames)
  <2>1. frames # <<>> <=> OpenBefore(t, m + 1)
    <3>1. m + 1 = n + 2
      BY <1>1
    <3> QED
      BY <3>1, OpenGrows DEF OpenAs
  <2>2. ASSUME frames # <<>>
        PROVE  \E p \in 1..m : /\ IsBegin(t, m, p)
                               /\ frames = Picked(t, Data(t, p, m))
                               /\ frames[1] = t[p]
    <3>1. PICK p \in 1..n : /\ IsBegin(s, n, p)
                            /\ frames = Picked(s, Data(s, p, n))
                            /\ frames[1] = s[p]
      BY <2>2 DEF OpenAs
    <3>2. IsBegin(t, m, p)
      <4>1. f.op \notin {"text", "binary"}
        BY DEF IsControl
      <4>2. \A k \in (p + 1)..m : k = m \/ (k \in (p + 1)..n /\ k \in 1..n)
        BY <1>1
      <4> HIDE DEF t, m, n
      <4> QED
        BY <1>1, <3>1, <4>1, <4>2 DEF IsBegin
    <3>3. Data(t, p, m) = Data(s, p, n)
      <4>1. \A k : k \in p..m <=> (k \in p..n \/ k = m)
        BY <1>1
      <4>2. \A k \in p..n : k \in 1..n
        BY <1>1
      <4>3. ~IsData(t[m])
        BY <1>1 DEF IsData
      <4>4. \A k \in p..n : IsData(t[k]) <=> IsData(s[k])
        BY <1>1, <4>2
      <4> HIDE DEF t, m, n
      <4> QED
        BY <4>1, <4>3, <4>4 DEF Data
    <3>4. Data(s, p, n) \in SUBSET (1..n)
      BY <1>1 DEF Data
    <3>5. Picked(t, Data(s, p, n)) = Picked(s, Data(s, p, n))
      <4> DEFINE I == Data(s, p, n)
      <4>1. I \in SUBSET (1..n)
        BY <3>4
      <4> HIDE DEF I
      <4>2. Picked(t, I) = Picked(s, I)
        BY <4>1, PickedGrows
      <4> QED
        BY <4>2 DEF I
    <3>6. p \in 1..m /\ t[p] = s[p]
      BY <1>1
    <3> HIDE DEF t, m, n
    <3> QED
      BY <3>1, <3>2, <3>3, <3>5, <3>6
  <2> HIDE DEF t, m, n
  <2> QED
    BY <1>1, <2>1, <2>2 DEF OpenAs
<1> QED
  BY <1>3, <1>5, <1>6

\* A data frame in its place goes on with the message that is open, or begins one.
LEMMA DataIn ==
  ASSUME NEW s \in Seq(FrameRecord), NEW f \in FrameRecord, NEW frames \in Seq(FrameRecord),
         IsData(f), f.op # "reserved", WellBegun(s), OpenAs(s, frames),
         f.op = "cont" <=> frames # <<>>
  PROVE  /\ WellBegun(Append(s, f))
         /\ OpenAs(Append(s, f), IF f.fin THEN <<>> ELSE Append(frames, f))
         /\ MessageAt(Append(s, f), Len(s) + 1) = Built(Append(frames, f))
<1> DEFINE t == Append(s, f)
           n == Len(s)
           m == n + 1
           more == Append(frames, f)
<1>1. /\ n \in Nat /\ m \in Nat /\ m > n /\ t[m] = f /\ \A k \in 1..n : t[k] = s[k]
      /\ Len(t) = m /\ t \in Seq(FrameRecord) /\ DOMAIN t = 1..m /\ DOMAIN s = 1..n
  OBVIOUS
<1>2. /\ more # <<>> /\ more \in Seq(FrameRecord) /\ Head(more) = more[1]
      /\ frames = <<>> => more[1] = f
      /\ frames # <<>> => more[1] = frames[1]
  OBVIOUS
<1>3. \E p \in 1..m : /\ IsBegin(t, m, p)
                      /\ frames = Picked(s, Data(s, p, n))
                      /\ more[1] = t[p]
  <2>1. CASE frames = <<>>
    <3>1. f.op \in {"text", "binary"}
      BY <2>1 DEF IsData, IsControl, FrameRecord, Ops
    <3>2. m \in 1..m /\ \A k \in (m + 1)..m : FALSE
      BY <1>1
    <3>3. IsBegin(t, m, m)
      <4> HIDE DEF t, m
      <4> QED
        BY <1>1, <3>1, <3>2 DEF IsBegin
    <3>4. Data(s, m, n) = {}
      BY <1>1 DEF Data
    <3>5. Picked(s, {}) = <<>>
      <4>1. {} \in SUBSET (1..n)
        OBVIOUS
      <4>2. Picked(s, {}) \in Seq(FrameRecord) /\ Len(Picked(s, {})) = 0
        BY <4>1, PickedGrows, FS_EmptySet
      <4> QED
        BY <4>2, EmptySeq
    <3> HIDE DEF t, m, n, more
    <3> QED
      BY <1>1, <1>2, <2>1, <3>2, <3>3, <3>4, <3>5
  <2>2. CASE frames # <<>>
    <3>1. PICK p \in 1..n : /\ IsBegin(s, n, p)
                            /\ frames = Picked(s, Data(s, p, n))
                            /\ frames[1] = s[p]
      BY <2>2 DEF OpenAs
    <3>2. IsBegin(t, m, p)
      <4>1. f.op \notin {"text", "binary"}
        BY <2>2
      <4>2. \A k \in (p + 1)..m : k = m \/ (k \in (p + 1)..n /\ k \in 1..n)
        BY <1>1
      <4> HIDE DEF t, m, n
      <4> QED
        BY <1>1, <3>1, <4>1, <4>2 DEF IsBegin
    <3>3. p \in 1..m /\ t[p] = s[p]
      BY <1>1
    <3> HIDE DEF t, m, n, more
    <3> QED
      BY <1>2, <2>2, <3>1, <3>2, <3>3
  <2> QED
    BY <2>1, <2>2
<1>4. PICK p \in 1..m : /\ IsBegin(t, m, p)
                        /\ frames = Picked(s, Data(s, p, n))
                        /\ more[1] = t[p]
  BY <1>3
<1>5. /\ Begins(t, m) = p
      /\ MessageAt(t, m) = Built(more)
      /\ more = Picked(t, Data(t, p, m))
  <2>1. Head(more) = t[p]
    BY <1>2, <1>4
  <2>2. p \in 1..(n + 1) /\ IsBegin(t, n + 1, p) /\ frames = Picked(s, Data(s, p, n))
    BY <1>4
  <2> QED
    BY <2>1, <2>2, MessageFrom
<1>6. WellBegun(t)
  <2>1. \A i \in 1..n : Begins(t, i) \in 1..i
    BY <1>1, MessageKept DEF WellBegun
  <2>2. \A i \in 1..m : i \in 1..n \/ i = m
    BY <1>1
  <2> HIDE DEF t, m, n
  <2> QED
    BY <1>1, <1>5, <2>1, <2>2 DEF WellBegun
<1>7. OpenBefore(t, m + 1) <=> ~f.fin
  <2>1. m + 1 = n + 2
    BY <1>1
  <2> QED
    BY <2>1, OpenGrows DEF IsData
<1>8. OpenAs(t, IF f.fin THEN <<>> ELSE more)
  <2> HIDE DEF t, m, n, more
  <2>1. CASE f.fin
    BY <1>1, <1>7, <2>1 DEF OpenAs
  <2>2. CASE ~f.fin
    BY <1>1, <1>2, <1>4, <1>5, <1>7, <2>2 DEF OpenAs
  <2> QED
    BY <2>1, <2>2
<1> QED
  BY <1>5, <1>6, <1>8

\* What is there of a text that a data frame in its place leaves open.
LEMMA OpenTextIs ==
  ASSUME NEW s \in Seq(FrameRecord), NEW f \in FrameRecord, NEW frames \in Seq(FrameRecord),
         IsData(f), ~f.fin,
         MessageAt(Append(s, f), Len(s) + 1) = Built(Append(frames, f)),
         Built(Append(frames, f)).op = "text"
  PROVE  OpenText(Append(s, f)) = Built(Append(frames, f)).payload
<1> DEFINE t == Append(s, f)
           n == Len(s)
           m == n + 1
           IsLast(k) == IsData(t[k]) /\ \A l \in (k + 1)..Len(t) : IsControl(t[l])
           last == CHOOSE k \in DOMAIN t : IsLast(k)
<1>1. n \in Nat /\ m \in Nat /\ t[m] = f /\ Len(t) = m /\ DOMAIN t = 1..m /\ m \in 1..m
  OBVIOUS
<1>2. OpenBefore(t, Len(t) + 1)
  <2>1. m + 1 = n + 2
    BY <1>1
  <2> QED
    BY <1>1, <2>1, OpenGrows DEF IsData
<1> HIDE DEF t, n, m
<1>3. m \in DOMAIN t /\ IsLast(m)
  <2>1. \A l \in (m + 1)..m : FALSE
    BY <1>1
  <2> QED
    BY <1>1, <2>1
<1>4. ASSUME NEW k \in DOMAIN t, IsLast(k)
      PROVE  k = m
  <2>1. k # m => m \in (k + 1)..m
    BY <1>1
  <2> QED
    BY <1>1, <1>4, <2>1 DEF IsData
<1>5. last = m
  <2> HIDE DEF IsLast
  <2>1. last \in DOMAIN t /\ IsLast(last)
    BY <1>3
  <2> HIDE DEF last
  <2> QED
    BY <1>4, <2>1
<1>6. OpenText(t) = IF t[Begins(t, last)].op = "text" THEN MessageAt(t, last).payload ELSE <<>>
  BY <1>2 DEF OpenText
<1> HIDE DEF last
<1>7. MessageAt(t, m).op = t[Begins(t, m)].op
  <2>1. MessageAt(t, m) = [op |-> t[Begins(t, m)].op, payload |-> Payload(FramesOf(t, m))]
    BY MessageIs
  <2> QED
    BY <2>1
<1>8. MessageAt(t, m) = Built(Append(frames, f))
  BY DEF t, m, n
<1>9. OpenText(t) = Built(Append(frames, f)).payload
  BY <1>5, <1>6, <1>7, <1>8
<1> QED
  BY <1>9 DEF t

-----------------------------------------------------------------------------
(* What the client accepts, and what the rules say *)

\* The rules for a frame, wherever it comes.
Sound(f) ==
  /\ ~f.huge /\ ~f.rsv /\ ~f.mask
  /\ f.op # "reserved"
  /\ IsControl(f) => f.fin

\* One more frame keeps the rules if it is sound and in its place.
LEMMA LegalGrows ==
  ASSUME NEW s \in Seq(FrameRecord), NEW f \in FrameRecord
  PROVE  FramesAreLegal(Append(s, f)) <=>
           /\ FramesAreLegal(s) /\ Sound(f)
           /\ IsData(f) => (f.op = "cont" <=> OpenBefore(s, Len(s) + 1))
<1> DEFINE t == Append(s, f)
           n == Len(s)
           m == n + 1
<1>1. /\ n \in Nat /\ t[m] = f /\ \A k \in 1..n : t[k] = s[k]
      /\ DOMAIN t = 1..m /\ DOMAIN s = 1..n /\ m \in 1..m
      /\ \A k \in 1..m : k \in 1..n \/ k = m
      /\ \A k \in 1..n : k \in 1..m
  OBVIOUS
<1>2. \A k \in 1..m : OpenBefore(t, k) <=> OpenBefore(s, k)
  BY OpenGrows
<1> HIDE DEF t, n, m
<1>3. EachIsLegal(t) <=> EachIsLegal(s) /\ Sound(f)
  BY <1>1 DEF EachIsLegal, Sound
<1>4. FragmentsAlternate(t) <=>
        FragmentsAlternate(s) /\ (IsData(f) => (f.op = "cont" <=> OpenBefore(s, m)))
  BY <1>1, <1>2 DEF FragmentsAlternate
<1> QED
  BY <1>3, <1>4 DEF FramesAreLegal, t, m, n

\* Message.build() refuses what is not legal, and nothing else.
LEMMA RefusalMeans ==
  ASSUME NEW m \in Message
  PROVE  Refusal(m) = "none" <=> MessageIsLegal(m)
<1>1. m.payload \in Seq(Bytes) /\ Len(m.payload) \in Nat
  BY DEF Message
<1>2. Decodes(m.payload) <=> Utf8Text(m.payload)
  BY <1>1, AfterMeans DEF Decodes
<1>3. Reason(m) \in Seq(Bytes)
  BY <1>1 DEF Reason
<1>4. Decodes(Reason(m)) <=> Utf8Text(Reason(m))
  BY <1>3, AfterMeans DEF Decodes
<1>5. Len(m.payload) = 0 => Decodes(Reason(m))
  <2>1. ASSUME Len(m.payload) = 0
        PROVE  Utf8After("accept", Reason(m)) = "accept"
    <3>1. Reason(m) = <<>>
      BY <1>1, <2>1, SubSeqEmpty DEF Reason
    <3> QED
      BY <3>1, AfterEmpty
  <2> QED
    BY <2>1 DEF Decodes
<1>6. MessageIsLegal(m) <=>
        /\ m.op = "text" => Decodes(m.payload)
        /\ m.op = "close" => Len(m.payload) # 1 /\ Decodes(Reason(m))
  BY <1>2, <1>4 DEF MessageIsLegal, Reason
<1>7. CASE m.op = "text"
  BY <1>6, <1>7 DEF Refusal
<1>8. CASE m.op = "close"
  <2>1. Len(m.payload) = 0 \/ Len(m.payload) = 1 \/ Len(m.payload) >= 2
    <3>1. \A n \in Nat : n = 0 \/ n = 1 \/ n >= 2
      OBVIOUS
    <3> QED
      BY <1>1, <3>1
  <2>2. MessageIsLegal(m) <=> Len(m.payload) # 1 /\ (Len(m.payload) >= 2 => Decodes(Reason(m)))
    BY <1>1, <1>5, <1>6, <1>8, <2>1
  <2> QED
    BY <1>1, <1>8, <2>2 DEF Refusal
<1>9. CASE m.op \notin {"text", "close"}
  BY <1>6, <1>9 DEF Refusal
<1> QED
  BY <1>7, <1>8, <1>9

\* What is built is a message, of the kind of its first frame.
LEMMA BuiltTyped ==
  ASSUME NEW frames \in Seq(FrameRecord), NEW f \in FrameRecord
  PROVE  /\ Built(Append(frames, f)) \in Message
         /\ Built(Append(frames, f)).payload = Payload(frames) \o f.body
         /\ Built(Append(frames, f)).op = IF frames = <<>> THEN f.op ELSE frames[1].op
         /\ Built(<<f>>) = Built(Append(<<>>, f))
         /\ Payload(<<>>) = <<>>
<1> DEFINE more == Append(frames, f)
<1>1. more \in Seq(FrameRecord) /\ more # <<>>
      /\ Head(more) = IF frames = <<>> THEN f ELSE frames[1]
  <2>1. more \in Seq(FrameRecord) /\ more # <<>> /\ Head(more) = more[1]
    OBVIOUS
  <2>2. frames = <<>> => more[1] = f
    OBVIOUS
  <2>3. frames # <<>> => more[1] = frames[1]
    OBVIOUS
  <2> QED
    BY <2>1, <2>2, <2>3
<1>2. Head(more) \in FrameRecord
  BY <1>1
<1>3. Head(more).op \in Ops
  BY <1>2 DEF FrameRecord
<1>4. Payload(more) = Payload(frames) \o f.body /\ Payload(more) \in Seq(Bytes)
  <2>1. Payload(more) = Payload(frames) \o f.body
    BY PayloadGrows
  <2>2. Payload(more) \in Seq(Bytes)
    <3> HIDE DEF more
    <3> QED
      BY <1>1, PayloadGrows
  <2> QED
    BY <2>1, <2>2
<1>5. Built(more) = [op |-> Head(more).op, payload |-> Payload(more)]
  BY DEF Built, Body, Payload
<1>6. Append(<<>>, f) = <<f>>
  OBVIOUS
<1>7. Payload(<<>>) = <<>>
  <2>1. [i \in DOMAIN <<>> |-> (<<>>)[i].body] = <<>>
    OBVIOUS
  <2> QED
    BY <2>1 DEF Payload, FlattenSeq
<1> HIDE DEF more
<1>8. Built(more) \in Message
  BY <1>3, <1>4, <1>5 DEF Message
<1>9. Built(more).payload = Payload(more) /\ Built(more).op = Head(more).op
  BY <1>5
<1> QED
  BY <1>1, <1>4, <1>6, <1>7, <1>8, <1>9 DEF more

-----------------------------------------------------------------------------
(* Types *)

SentTypes ==
  /\ header \in HeaderSizes
  /\ sent \in Seq(Frames)
  /\ inflight \in Nat /\ data \in Nat /\ got \in Nat
  /\ done \in 0..Len(sent)

StateTypes ==
  /\ stage \in {"response", "frame", "payload", "complete", "failed"}
  /\ isText \in BOOLEAN
  /\ utf8 \in States
  /\ error \in {"none", "protocol", "critical"}
  /\ stage = "failed" <=> error # "none"

MessageTypes == fragments \in Seq(Frames) /\ messages \in Seq(Message)

\* What the parser awaits is there to come, and not all of it has.
PlaceInv ==
  /\ stage = "response" => got < header /\ done = 0
  /\ stage \in {"frame", "complete"} => got = 0
  /\ stage \in {"payload", "complete"} => done < Len(sent)
  /\ stage = "payload" => got < Len(Current.body)

\* at[i] is the place in the stream where frame i ends.
Places(at, s) ==
  /\ at \in [0..Len(s) -> Nat]
  /\ at[0] = header
  /\ \A i \in 1..Len(s) : at[i] = at[i - 1] + 1 + Len(s[i].body)

\* What was sent is in flight, in the chunk or parsed.
Accounted(at) ==
  /\ stage = "response" => at[Len(sent)] = inflight + data + got
  /\ stage = "frame" => at[Len(sent)] = inflight + data + at[done]
  /\ stage = "payload" => at[Len(sent)] = inflight + data + at[done] + 1 + got
  /\ stage = "complete" => at[Len(sent)] = inflight + data + at[done + 1]

CountInv == \E at : Places(at, sent) /\ Accounted(at)

TypeInv == SentTypes /\ StateTypes /\ MessageTypes /\ PlaceInv /\ CountInv

\* The type invariant by its parts.
LEMMA TypeParts ==
  TypeInv => StreamTypeOK
BY DEF TypeInv, StreamTypeOK, SentTypes, StateTypes, MessageTypes, PlaceInv, States

\* The frames are records, and the current one is one of them.
LEMMA FramesTyped ==
  ASSUME SentTypes
  PROVE  /\ \A s \in Seq(Frames) : s \in Seq(FrameRecord)
         /\ header \in Nat /\ header > 0
         /\ Len(sent) \in Nat /\ done \in Nat
         /\ done < Len(sent) => /\ Current \in Frames /\ Current \in FrameRecord
                                /\ Current.body \in Seq(Bytes) /\ Len(Current.body) \in Nat
<1>1. Frames \subseteq FrameRecord /\ HeaderSizes \subseteq Nat \ {0}
  BY StreamAssumption
<1>2. \A s \in Seq(Frames) : s \in Seq(FrameRecord)
  BY <1>1, SeqMonotonic
<1>3. header \in Nat /\ header > 0
  BY <1>1 DEF SentTypes
<1>4. Len(sent) \in Nat /\ done \in Nat
  BY DEF SentTypes
<1>5. ASSUME done < Len(sent)
      PROVE  Current \in Frames
  <2>1. done + 1 \in 1..Len(sent)
    BY <1>4, <1>5
  <2> QED
    BY <2>1, ElementOfSeq DEF SentTypes, Current
<1>6. \A f \in FrameRecord : f.body \in Seq(Bytes) /\ Len(f.body) \in Nat
  <2>1. \A f \in FrameRecord : f.body \in Seq(Bytes)
    BY DEF FrameRecord
  <2> QED
    BY <2>1
<1> QED
  BY <1>1, <1>2, <1>3, <1>4, <1>5, <1>6

\* A frame more has its place.
LEMMA PlacesGrow ==
  ASSUME SentTypes, NEW at, Places(at, sent), NEW f \in FrameRecord
  PROVE  \E new : /\ Places(new, Append(sent, f))
                  /\ \A i \in 0..Len(sent) : new[i] = at[i]
                  /\ new[Len(sent) + 1] = at[Len(sent)] + 1 + Len(f.body)
<1> DEFINE n == Len(sent)
           t == Append(sent, f)
           new == [i \in 0..(n + 1) |-> IF i = n + 1 THEN at[n] + 1 + Len(f.body) ELSE at[i]]
<1>1. /\ n \in Nat /\ Len(t) = n + 1 /\ t[n + 1] = f
      /\ \A i \in 1..n : t[i] = sent[i]
  BY DEF SentTypes
<1>2. Len(f.body) \in Nat
  <2>1. f.body \in Seq(Bytes)
    BY DEF FrameRecord
  <2> QED
    BY <2>1
<1>3. at \in [0..n -> Nat] /\ at[0] = header
      /\ \A i \in 1..n : at[i] = at[i - 1] + 1 + Len(sent[i].body)
  BY DEF Places
<1> HIDE DEF n, t
<1>4. \A i \in 0..n : i \in 0..(n + 1) /\ i # n + 1
  BY <1>1
<1>5. \A i \in 0..n : new[i] = at[i]
  BY <1>4
<1>6. new[n + 1] = at[n] + 1 + Len(f.body)
  <2>1. n + 1 \in 0..(n + 1)
    BY <1>1
  <2> QED
    BY <2>1
<1>7. new \in [0..(n + 1) -> Nat]
  <2>1. \A i \in 0..(n + 1) : i # n + 1 => i \in 0..n
    BY <1>1
  <2>2. n \in 0..n
    BY <1>1
  <2>3. at[n] + 1 + Len(f.body) \in Nat
    BY <1>2, <1>3, <2>2
  <2> QED
    BY <1>3, <2>1, <2>3
<1> HIDE DEF new
<1>8. ASSUME NEW i \in 1..(n + 1)
      PROVE  new[i] = new[i - 1] + 1 + Len(t[i].body)
  <2>1. CASE i = n + 1
    <3>1. i - 1 = n /\ n \in 0..n
      BY <1>1, <2>1
    <3> QED
      BY <1>1, <1>5, <1>6, <2>1, <3>1
  <2>2. CASE i # n + 1
    <3>1. i \in 1..n /\ i \in 0..n /\ i - 1 \in 0..n
      BY <1>1, <2>2
    <3> QED
      BY <1>1, <1>3, <1>5, <3>1
  <2> QED
    BY <2>1, <2>2
<1>9. new[0] = header
  <2>1. 0 \in 0..n
    BY <1>1
  <2> QED
    BY <1>3, <1>5, <2>1
<1>10. Places(new, t)
  BY <1>1, <1>7, <1>8, <1>9 DEF Places
<1> QED
  BY <1>5, <1>6, <1>10 DEF n, t

\* At first.
LEMMA TypeInit == Init => TypeInv
<1> SUFFICES ASSUME Init
             PROVE  TypeInv
  OBVIOUS
<1>1. header \in Nat /\ header > 0
  BY StreamAssumption DEF Init
<1>2. SentTypes /\ MessageTypes
  BY <1>1 DEF Init, SentTypes, MessageTypes
<1>3. StateTypes
  BY DEF Init, StateTypes, States
<1>4. PlaceInv
  BY <1>1 DEF Init, PlaceInv
<1>5. CountInv
  <2> DEFINE at == [i \in 0..0 |-> header]
  <2>1. Len(sent) = 0
    BY DEF Init
  <2>2. Places(at, sent)
    BY <1>1, <2>1 DEF Places
  <2>3. Accounted(at)
    BY <1>1, <2>1 DEF Init, Accounted
  <2> QED
    BY <2>2, <2>3 DEF CountInv
<1> QED
  BY <1>2, <1>3, <1>4, <1>5 DEF TypeInv

\* The server sends.
LEMMA SendsTyped ==
  ASSUME TypeInv, ServerSends
  PROVE  TypeInv'
<1> USE DEF parserVars, streamVars
<1>1. PICK f \in Frames : sent' = Append(sent, f) /\ inflight' = inflight + 1 + Len(f.body)
  BY DEF ServerSends
<1>2. UNCHANGED <<header, data, stage, got, done, isText, utf8, fragments, messages, error>>
  BY DEF ServerSends
<1>3. SentTypes /\ f \in FrameRecord /\ Len(f.body) \in Nat /\ inflight \in Nat
      /\ Len(sent) \in Nat /\ done \in 0..Len(sent)
  <2>1. SentTypes
    BY DEF TypeInv
  <2>2. f \in FrameRecord
    BY StreamAssumption
  <2>3. f.body \in Seq(Bytes)
    BY <2>2 DEF FrameRecord
  <2>4. Len(f.body) \in Nat
    BY <2>3
  <2> QED
    BY <2>1, <2>2, <2>4 DEF SentTypes
<1>4. /\ sent' \in Seq(Frames) /\ Len(sent') = Len(sent) + 1
      /\ \A i \in 1..Len(sent) : sent'[i] = sent[i]
  BY <1>1, <1>3, AppendProperties DEF SentTypes
<1>5. SentTypes'
  BY <1>1, <1>2, <1>3, <1>4 DEF SentTypes
<1>6. StateTypes' /\ MessageTypes'
  BY <1>2 DEF TypeInv, StateTypes, MessageTypes
<1>7. done < Len(sent) => Current' = Current
  <2>1. done < Len(sent) => done + 1 \in 1..Len(sent)
    BY <1>3
  <2> QED
    BY <1>2, <1>4, <2>1 DEF Current
<1>8. PlaceInv'
  BY <1>2, <1>3, <1>4, <1>7 DEF TypeInv, PlaceInv
<1>9. CountInv'
  <2>1. PICK at : Places(at, sent) /\ Accounted(at)
    BY DEF TypeInv, CountInv
  <2>2. PICK new : /\ Places(new, Append(sent, f))
                   /\ \A i \in 0..Len(sent) : new[i] = at[i]
                   /\ new[Len(sent) + 1] = at[Len(sent)] + 1 + Len(f.body)
    BY <1>3, <2>1, PlacesGrow
  <2>3. Places(new, sent)'
    BY <1>1, <1>2, <2>2 DEF Places
  <2>4. /\ at[Len(sent)] \in Nat /\ at[done] \in Nat /\ data \in Nat /\ got \in Nat
        /\ new[done] = at[done]
    <3>1. Len(sent) \in 0..Len(sent) /\ done \in 0..Len(sent)
      BY <1>3
    <3>2. at \in [0..Len(sent) -> Nat]
      BY <2>1 DEF Places
    <3>3. data \in Nat /\ got \in Nat
      BY <1>3 DEF SentTypes
    <3> QED
      BY <2>2, <3>1, <3>2, <3>3
  <2>5. new[Len(sent')] = at[Len(sent)] + 1 + Len(f.body)
    BY <1>4, <2>2
  <2>6. done < Len(sent) => new[done + 1] = at[done + 1] /\ at[done + 1] \in Nat
    <3>1. done < Len(sent) => done + 1 \in 0..Len(sent)
      BY <1>3
    <3> QED
      BY <2>1, <2>2, <3>1 DEF Places
  <2>7. stage = "complete" => done < Len(sent)
    BY DEF TypeInv, PlaceInv
  <2> DEFINE size == Len(f.body)
             N == Len(sent)
             M == Len(sent')
             total == new[M]
  <2>8. /\ total = at[N] + 1 + size /\ inflight' = inflight + 1 + size
        /\ size \in Nat /\ inflight \in Nat
    BY <1>1, <1>3, <2>5
  <2>9. /\ stage = "response" => at[N] = inflight + data + got
        /\ stage = "frame" => at[N] = inflight + data + new[done]
        /\ stage = "payload" => at[N] = inflight + data + new[done] + 1 + got
        /\ stage = "complete" => at[N] = inflight + data + new[done + 1] /\ new[done + 1] \in Nat
    BY <2>1, <2>4, <2>6, <2>7 DEF Accounted
  <2> HIDE DEF size, N, total
  <2>10. /\ stage = "response" => total = inflight' + data + got
         /\ stage = "frame" => total = inflight' + data + new[done]
    BY <2>4, <2>8, <2>9
  <2>11. /\ stage = "payload" => total = inflight' + data + new[done] + 1 + got
         /\ stage = "complete" => total = inflight' + data + new[done + 1]
    BY <2>4, <2>8, <2>9, SMTT(30)
  <2>12. Accounted(new)'
    BY <1>2, <2>10, <2>11 DEF Accounted, total
  <2> QED
    BY <2>3, <2>12 DEF CountInv
<1> QED
  BY <1>5, <1>6, <1>8, <1>9 DEF TypeInv

\* The places of the frames, in numbers.
LEMMA Counted ==
  ASSUME TypeInv
  PROVE  \E at : /\ Places(at, sent) /\ Accounted(at)
                 /\ at[0] = header
                 /\ at[Len(sent)] \in Nat /\ at[done] \in Nat
                 /\ done < Len(sent) => /\ at[done + 1] \in Nat
                                        /\ at[done + 1] = at[done] + 1 + Len(Current.body)
<1>1. PICK at : Places(at, sent) /\ Accounted(at)
  BY DEF TypeInv, CountInv
<1>2. Len(sent) \in Nat /\ done \in 0..Len(sent)
  BY DEF TypeInv, SentTypes
<1>3. Len(sent) \in 0..Len(sent) /\ at \in [0..Len(sent) -> Nat]
  BY <1>1, <1>2 DEF Places
<1>4. at[Len(sent)] \in Nat /\ at[done] \in Nat
  BY <1>2, <1>3
<1>5. ASSUME done < Len(sent)
      PROVE  at[done + 1] \in Nat /\ at[done + 1] = at[done] + 1 + Len(Current.body)
  <2>1. done + 1 \in 0..Len(sent) /\ done + 1 \in 1..Len(sent) /\ (done + 1) - 1 = done
    BY <1>2, <1>5
  <2>2. at[done + 1] \in Nat
    BY <1>3, <2>1
  <2>3. at[done + 1] = at[done] + 1 + Len(sent[done + 1].body)
    BY <1>1, <2>1 DEF Places
  <2> QED
    BY <2>2, <2>3 DEF Current
<1>6. at[0] = header
  BY <1>1 DEF Places
<1> QED
  BY <1>1, <1>4, <1>5, <1>6

\* A chunk arrives.
LEMMA FeedTyped ==
  ASSUME TypeInv, Feed
  PROVE  TypeInv'
<1> USE DEF parserVars, streamVars
<1>1. /\ UNCHANGED <<header, sent, stage, got, done, isText, utf8, fragments, messages, error>>
      /\ data = 0
  BY DEF Feed
<1>2. PICK n \in 1..inflight : data' = n /\ inflight' = inflight - n
  BY DEF Feed
<1>3. inflight \in Nat /\ got \in Nat
  BY DEF TypeInv, SentTypes
<1>4. data' \in Nat /\ inflight' \in Nat /\ inflight' + data' = inflight + data
  BY <1>1, <1>2, <1>3
<1>5. SentTypes'
  BY <1>1, <1>4 DEF TypeInv, SentTypes
<1>6. StateTypes' /\ MessageTypes'
  BY <1>1 DEF TypeInv, StateTypes, MessageTypes
<1>7. PlaceInv'
  BY <1>1 DEF TypeInv, PlaceInv, Current
<1>8. CountInv'
  <2>1. PICK at : Places(at, sent) /\ Accounted(at)
    BY DEF TypeInv, CountInv
  <2>2. Places(at, sent)'
    BY <1>1, <2>1 DEF Places
  <2>3. Accounted(at)'
    BY <1>1, <1>4, <2>1 DEF Accounted
  <2> QED
    BY <2>2, <2>3 DEF CountInv
<1> QED
  BY <1>5, <1>6, <1>7, <1>8 DEF TypeInv

\* The response is read.
LEMMA ResponseTyped ==
  ASSUME TypeInv, ReadResponse
  PROVE  TypeInv'
<1> DEFINE n == Bite(header - got)
<1>1. /\ stage = "response" /\ data > 0 /\ done = 0
      /\ got \in Nat /\ header \in Nat /\ got < header /\ data \in Nat /\ inflight \in Nat
  BY FramesTyped DEF TypeInv, SentTypes, PlaceInv, ReadResponse
<1>2. n \in Nat /\ n <= data /\ n <= header - got /\ got + n \in Nat
  BY <1>1 DEF Bite
<1> HIDE DEF n
<1>3. UNCHANGED <<header, sent, inflight, done, isText, utf8, fragments, messages>>
      /\ data' = data - n
  BY DEF ReadResponse, n
<1>4. \/ stage' = "failed" /\ error' = "critical" /\ got' = got + n
      \/ stage' = "frame" /\ UNCHANGED error /\ got' = 0 /\ got + n = header
      \/ stage' = "response" /\ UNCHANGED error /\ got' = got + n /\ got + n # header
  BY DEF ReadResponse, Raise, n
<1>5. data' \in Nat /\ got' \in Nat
  BY <1>1, <1>2, <1>3, <1>4
<1>6. SentTypes'
  BY <1>3, <1>5 DEF TypeInv, SentTypes
<1>7. StateTypes' /\ MessageTypes'
  BY <1>3, <1>4 DEF TypeInv, StateTypes, MessageTypes, ReadResponse
<1>8. PlaceInv'
  <2>1. stage' = "response" => got' < header' /\ done' = 0
    BY <1>1, <1>2, <1>3, <1>4
  <2> QED
    BY <1>4, <2>1 DEF PlaceInv
<1>9. CountInv'
  <2>1. PICK at : /\ Places(at, sent) /\ Accounted(at) /\ at[0] = header
                  /\ at[Len(sent)] \in Nat
    BY Counted
  <2>2. Places(at, sent)'
    BY <1>3, <2>1 DEF Places
  <2>3. at[Len(sent)] = inflight + data + got
    BY <1>1, <2>1 DEF Accounted
  <2>4. stage' = "response" => at[Len(sent)] = inflight + data' + got'
    BY <1>1, <1>2, <1>3, <1>4, <2>1, <2>3
  <2>5. stage' = "frame" => at[Len(sent)] = inflight + data' + at[done]
    BY <1>1, <1>2, <1>3, <1>4, <2>1, <2>3
  <2>6. Accounted(at)'
    BY <1>3, <1>4, <2>4, <2>5 DEF Accounted
  <2> QED
    BY <2>2, <2>6 DEF CountInv
<1> QED
  BY <1>6, <1>7, <1>8, <1>9 DEF TypeInv

\* When there is more to parse between two frames, a frame was sent.
LEMMA FrameSent ==
  ASSUME TypeInv, stage = "frame", data > 0
  PROVE  done < Len(sent)
<1>1. PICK at : Accounted(at) /\ at[Len(sent)] \in Nat /\ at[done] \in Nat
  BY Counted
<1>2. at[Len(sent)] = inflight + data + at[done]
  BY <1>1 DEF Accounted
<1>3. inflight \in Nat /\ data \in Nat /\ done \in 0..Len(sent) /\ Len(sent) \in Nat
  BY DEF TypeInv, SentTypes
<1>4. done # Len(sent)
  <2>1. ASSUME done = Len(sent)
        PROVE  FALSE
    BY <1>1, <1>2, <1>3, <2>1
  <2> QED
    BY <2>1
<1> QED
  BY <1>3, <1>4

\* A header is read.
LEMMA HeaderTyped ==
  ASSUME TypeInv, ReadFrameHeader
  PROVE  TypeInv'
<1>1. /\ stage = "frame" /\ data > 0 /\ data' = data - 1
      /\ UNCHANGED <<header, sent, inflight, got, done, utf8, fragments, messages>>
  BY DEF ReadFrameHeader
<1>2. done < Len(sent)
  BY <1>1, FrameSent
<1>3. /\ got = 0 /\ data \in Nat /\ inflight \in Nat /\ Len(Current.body) \in Nat
      /\ Current.body \in Seq(Bytes)
  BY <1>1, <1>2, FramesTyped DEF TypeInv, SentTypes, PlaceInv
<1>4. \/ stage' = "failed" /\ error' = "protocol" /\ UNCHANGED isText
      \/ /\ isText' = (isText \/ Current.op = "text") /\ UNCHANGED error
         /\ \/ stage' = "complete" /\ Current.body = <<>>
            \/ stage' = "payload" /\ Current.body # <<>>
  BY DEF ReadFrameHeader, Raise
<1>5. /\ Current.body = <<>> => Len(Current.body) = 0
      /\ Current.body # <<>> => Len(Current.body) > 0
  BY <1>3
<1>6. data' \in Nat /\ UNCHANGED Current
  BY <1>1, <1>3 DEF Current
<1>7. SentTypes'
  BY <1>1, <1>6 DEF TypeInv, SentTypes
<1>8. StateTypes'
  <2>1. isText' \in BOOLEAN
    BY <1>4 DEF TypeInv, StateTypes
  <2> QED
    BY <1>1, <1>4, <2>1 DEF TypeInv, StateTypes
<1>9. MessageTypes'
  BY <1>1 DEF TypeInv, MessageTypes
<1>10. PlaceInv'
  <2>1. stage' = "payload" => got' < Len(Current.body)'
    BY <1>1, <1>3, <1>4, <1>5, <1>6
  <2>2. stage' \in {"payload", "complete"} => done' < Len(sent')
    BY <1>1, <1>2
  <2>3. stage' # "response" /\ got' = 0
    BY <1>1, <1>3, <1>4
  <2> QED
    BY <2>1, <2>2, <2>3 DEF PlaceInv
<1>11. CountInv'
  <2>1. PICK at : /\ Places(at, sent) /\ Accounted(at)
                  /\ at[Len(sent)] \in Nat /\ at[done] \in Nat
                  /\ at[done + 1] \in Nat /\ at[done + 1] = at[done] + 1 + Len(Current.body)
    BY <1>2, Counted
  <2>2. Places(at, sent)'
    BY <1>1, <2>1 DEF Places
  <2>3. at[Len(sent)] = inflight + data + at[done]
    BY <1>1, <2>1 DEF Accounted
  <2>4. stage' = "payload" => at[Len(sent)] = inflight + data' + at[done] + 1 + got
    BY <1>1, <1>3, <2>1, <2>3
  <2>5. stage' = "complete" => at[Len(sent)] = inflight + data' + at[done + 1]
    BY <1>1, <1>3, <1>4, <1>5, <2>1, <2>3
  <2>6. Accounted(at)'
    BY <1>1, <1>4, <2>4, <2>5 DEF Accounted
  <2> QED
    BY <2>2, <2>6 DEF CountInv
<1> QED
  BY <1>7, <1>8, <1>9, <1>10, <1>11 DEF TypeInv

\* What a bite at a payload is.
LEMMA BiteIs ==
  ASSUME TypeInv, stage = "payload", data > 0,
         NEW n, n = Bite(Len(Current.body) - got)
  PROVE  /\ n \in Nat /\ n > 0 /\ n <= data /\ got + n \in Nat /\ got + n <= Len(Current.body)
         /\ SubSeq(Current.body, got + 1, got + n) \in Seq(Bytes)
<1>1. /\ got \in Nat /\ data \in Nat /\ Len(Current.body) \in Nat /\ got < Len(Current.body)
      /\ Current.body \in Seq(Bytes)
  BY FramesTyped DEF TypeInv, SentTypes, PlaceInv
<1>2. n \in Nat /\ n > 0 /\ n <= data /\ got + n \in Nat /\ got + n <= Len(Current.body)
  BY <1>1 DEF Bite
<1>3. SubSeq(Current.body, got + 1, got + n) \in Seq(Bytes)
  <2>1. \A i \in (got + 1)..(got + n) : i \in 1..Len(Current.body)
    BY <1>1, <1>2
  <2>2. \A i \in (got + 1)..(got + n) : Current.body[i] \in Bytes
    BY <1>1, <2>1, ElementOfSeq
  <2>3. got + 1 \in Int /\ got + n \in Int
    BY <1>1, <1>2
  <2> QED
    BY <2>2, <2>3, SubSeqProperties
<1> QED
  BY <1>2, <1>3

\* A part of a payload is read.
LEMMA PayloadTyped ==
  ASSUME TypeInv, ReadPayload
  PROVE  TypeInv'
<1> DEFINE n == Bite(Len(Current.body) - got)
           bite == SubSeq(Current.body, got + 1, got + n)
<1>1. stage = "payload" /\ data > 0
  BY DEF ReadPayload
<1>2. /\ n \in Nat /\ n > 0 /\ n <= data /\ got + n \in Nat /\ got + n <= Len(Current.body)
      /\ bite \in Seq(Bytes)
  BY <1>1, BiteIs
<1>3. /\ got \in Nat /\ data \in Nat /\ inflight \in Nat /\ Len(Current.body) \in Nat
      /\ done < Len(sent)
  BY <1>1, FramesTyped DEF TypeInv, SentTypes, PlaceInv
<1>4. /\ UNCHANGED <<header, sent, inflight, done, isText, fragments, messages>>
      /\ data' = data - n
      /\ utf8' = utf8 \/ utf8' = Utf8After(utf8, bite)
  BY DEF ReadPayload
<1> HIDE DEF bite
<1>5. \/ stage' = "failed" /\ error' = "critical" /\ UNCHANGED got
      \/ /\ UNCHANGED error
         /\ got' = IF got + n = Len(Current.body) THEN 0 ELSE got + n
         /\ stage' = IF got' = 0 THEN "complete" ELSE "payload"
  BY DEF ReadPayload, Raise, bite
<1> HIDE DEF n
<1>6. \/ stage' = "failed" /\ error' = "critical" /\ UNCHANGED got
      \/ stage' = "complete" /\ UNCHANGED error /\ got' = 0 /\ got + n = Len(Current.body)
      \/ stage' = "payload" /\ UNCHANGED error /\ got' = got + n /\ got + n < Len(Current.body)
  BY <1>2, <1>3, <1>5
<1>7. data' \in Nat /\ got' \in Nat /\ UNCHANGED Current
  BY <1>2, <1>3, <1>4, <1>6 DEF Current
<1>8. SentTypes'
  BY <1>4, <1>7 DEF TypeInv, SentTypes
<1>9. StateTypes'
  <2>1. utf8' \in States
    BY <1>2, <1>4, AfterTyped DEF TypeInv, StateTypes
  <2> QED
    BY <1>1, <1>4, <1>6, <2>1 DEF TypeInv, StateTypes
<1>10. MessageTypes'
  BY <1>4 DEF TypeInv, MessageTypes
<1>11. PlaceInv'
  <2>1. stage' = "payload" => got' < Len(Current.body)'
    BY <1>6, <1>7
  <2>2. done' < Len(sent')
    BY <1>3, <1>4
  <2> QED
    BY <1>6, <2>1, <2>2 DEF PlaceInv
<1>12. CountInv'
  <2>1. PICK at : /\ Places(at, sent) /\ Accounted(at)
                  /\ at[Len(sent)] \in Nat /\ at[done] \in Nat
                  /\ at[done + 1] \in Nat /\ at[done + 1] = at[done] + 1 + Len(Current.body)
    BY <1>3, Counted
  <2>2. Places(at, sent)'
    BY <1>4, <2>1 DEF Places
  <2>3. at[Len(sent)] = inflight + data + at[done] + 1 + got
    BY <1>1, <2>1 DEF Accounted
  <2>4. stage' = "payload" => at[Len(sent)] = inflight + data' + at[done] + 1 + got'
    BY <1>2, <1>3, <1>4, <1>6, <2>1, <2>3
  <2>5. stage' = "complete" => at[Len(sent)] = inflight + data' + at[done + 1]
    BY <1>2, <1>3, <1>4, <1>6, <2>1, <2>3
  <2>6. Accounted(at)'
    BY <1>4, <1>6, <2>4, <2>5 DEF Accounted
  <2> QED
    BY <2>2, <2>6 DEF CountInv
<1> QED
  BY <1>8, <1>9, <1>10, <1>11, <1>12 DEF TypeInv

\* A complete frame is dealt with: it is refused, or it is one frame more.
LEMMA CompleteTyped ==
  ASSUME TypeInv, stage = "complete",
         UNCHANGED <<header, sent, inflight, data, got>>, isText' \in BOOLEAN, utf8' \in States,
         fragments' \in Seq(Frames), messages' \in Seq(Message),
         \/ stage' = "failed" /\ error' \in {"protocol", "critical"} /\ UNCHANGED done
         \/ stage' = "frame" /\ UNCHANGED error /\ done' = done + 1
  PROVE  TypeInv'
<1>1. done < Len(sent) /\ got = 0 /\ done \in Nat /\ Len(sent) \in Nat
  BY DEF TypeInv, SentTypes, PlaceInv
<1>2. done' \in 0..Len(sent)
  BY <1>1
<1>3. SentTypes'
  BY <1>2 DEF TypeInv, SentTypes
<1>4. StateTypes' /\ MessageTypes'
  BY DEF TypeInv, StateTypes, MessageTypes
<1>5. PlaceInv'
  BY <1>1 DEF PlaceInv
<1>6. CountInv'
  <2>1. PICK at : Places(at, sent) /\ Accounted(at)
    BY DEF TypeInv, CountInv
  <2>2. Places(at, sent)'
    BY <2>1 DEF Places
  <2>3. stage' = "frame" => at[Len(sent)] = inflight + data + at[done']
    BY <2>1 DEF Accounted
  <2>4. Accounted(at)'
    BY <2>3 DEF Accounted
  <2> QED
    BY <2>2, <2>4 DEF CountInv
<1> QED
  BY <1>3, <1>4, <1>5, <1>6 DEF TypeInv

\* on_frame() keeps the types of what it touches.
LEMMA OnFrameTyped ==
  ASSUME TypeInv, NEW f, OnFrame(f)
  PROVE  isText' \in BOOLEAN /\ utf8' \in States
<1>1. isText' \in BOOLEAN
  BY DEF OnFrame
<1>2. utf8' \in States
  BY DEF OnFrame, TypeInv, StateTypes, States
<1> QED
  BY <1>1, <1>2

\* A message is yielded, or it is refused.
LEMMA YieldsTyped ==
  ASSUME TypeInv, NEW frames \in Seq(FrameRecord), NEW f \in FrameRecord,
         Yields(Append(frames, f))
  PROVE  /\ messages' \in Seq(Message)
         /\ \/ stage' = "failed" /\ error' \in {"protocol", "critical"} /\ UNCHANGED done
            \/ stage' = "frame" /\ UNCHANGED error /\ done' = done + 1
<1> DEFINE m == Built(Append(frames, f))
<1>1. m \in Message
  BY BuiltTyped
<1>2. messages \in Seq(Message)
  BY DEF TypeInv, MessageTypes
<1>3. Refusal(m) \in {"none", "protocol", "critical"}
  <2> HIDE DEF m
  <2> QED
    BY DEF Refusal
<1>4. \/ Refusal(m) # "none" /\ error' = Refusal(m) /\ stage' = "failed" /\ UNCHANGED <<messages, done>>
      \/ /\ Refusal(m) = "none"
         /\ messages' = Append(messages, m) /\ stage' = "frame" /\ done' = done + 1
         /\ UNCHANGED error
  BY DEF Yields, Raise
<1> HIDE DEF m
<1>5. Append(messages, m) \in Seq(Message)
  BY <1>1, <1>2, AppendProperties
<1> QED
  BY <1>2, <1>3, <1>4, <1>5

\* Every step keeps the types.
LEMMA TypeStep == TypeInv /\ [Next]_vars => TypeInv'
<1> SUFFICES ASSUME TypeInv, [Next]_vars
             PROVE  TypeInv'
  OBVIOUS
<1> USE DEF parserVars
<1>1. SentTypes /\ StateTypes /\ MessageTypes /\ fragments \in Seq(Frames)
      /\ messages \in Seq(Message) /\ isText \in BOOLEAN /\ utf8 \in States
  BY DEF TypeInv, MessageTypes, StateTypes
<1>2. ASSUME stage = "complete"
      PROVE  /\ Current \in Frames /\ Current \in FrameRecord
             /\ fragments \in Seq(FrameRecord)
             /\ Append(fragments, Current) \in Seq(Frames)
             /\ <<>> \in Seq(FrameRecord) /\ <<>> \in Seq(Frames)
             /\ <<Current>> = Append(<<>>, Current)
  <2>1. done < Len(sent)
    BY <1>2 DEF TypeInv, PlaceInv
  <2>2. Current \in Frames /\ Current \in FrameRecord
    BY <1>1, <2>1, FramesTyped
  <2>3. fragments \in Seq(FrameRecord)
    BY <1>1, FramesTyped
  <2>4. Append(fragments, Current) \in Seq(Frames)
    BY <1>1, <2>2, AppendProperties
  <2> QED
    BY <2>2, <2>3, <2>4
<1>3. CASE UNCHANGED vars
  BY <1>3 DEF vars, TypeInv, SentTypes, StateTypes, MessageTypes, PlaceInv, CountInv, Places,
              Accounted, Current
<1>4. CASE Terminated
  BY <1>3, <1>4 DEF Terminated
<1>5. CASE MaskedFrame
  BY <1>1, <1>5, CompleteTyped DEF MaskedFrame, Raise
<1>6. CASE ControlFrame
  <2>1. stage = "complete" /\ OnFrame(Current) /\ Yields(Append(<<>>, Current))
        /\ UNCHANGED <<header, sent, inflight, data, got, fragments>>
    BY <1>2, <1>6 DEF ControlFrame
  <2>2. isText' \in BOOLEAN /\ utf8' \in States
    BY <2>1, OnFrameTyped
  <2>3. /\ messages' \in Seq(Message)
        /\ \/ stage' = "failed" /\ error' \in {"protocol", "critical"} /\ UNCHANGED done
           \/ stage' = "frame" /\ UNCHANGED error /\ done' = done + 1
    BY <1>2, <2>1, YieldsTyped
  <2> QED
    BY <1>1, <2>1, <2>2, <2>3, CompleteTyped
<1>7. CASE OutOfPlace
  <2>1. stage = "complete" /\ OnFrame(Current) /\ stage' = "failed" /\ error' = "protocol"
        /\ UNCHANGED <<header, sent, inflight, data, got, done, fragments, messages>>
    BY <1>7 DEF OutOfPlace, Raise
  <2>2. isText' \in BOOLEAN /\ utf8' \in States
    BY <2>1, OnFrameTyped
  <2> QED
    BY <1>1, <2>1, <2>2, CompleteTyped
<1>8. CASE Fragment
  <2>1. stage = "complete" /\ OnFrame(Current) /\ stage' = "frame" /\ done' = done + 1
        /\ fragments' = Append(fragments, Current)
        /\ UNCHANGED <<header, sent, inflight, data, got, messages, error>>
    BY <1>8 DEF Fragment
  <2>2. isText' \in BOOLEAN /\ utf8' \in States
    BY <2>1, OnFrameTyped
  <2> QED
    BY <1>1, <1>2, <2>1, <2>2, CompleteTyped
<1>9. CASE FinalFrame
  <2>1. stage = "complete" /\ OnFrame(Current) /\ Yields(Append(fragments, Current))
        /\ fragments' = <<>> /\ UNCHANGED <<header, sent, inflight, data, got>>
    BY <1>9 DEF FinalFrame
  <2>2. isText' \in BOOLEAN /\ utf8' \in States
    BY <2>1, OnFrameTyped
  <2>3. /\ messages' \in Seq(Message)
        /\ \/ stage' = "failed" /\ error' \in {"protocol", "critical"} /\ UNCHANGED done
           \/ stage' = "frame" /\ UNCHANGED error /\ done' = done + 1
    BY <1>2, <2>1, YieldsTyped
  <2> QED
    BY <1>2, <2>1, <2>2, <2>3, CompleteTyped
<1> QED
  BY <1>3, <1>4, <1>5, <1>6, <1>7, <1>8, <1>9, SendsTyped, FeedTyped, ResponseTyped,
     HeaderTyped, PayloadTyped DEF Next

\* For any frames, response and bounds: every variable keeps its type, and a frame
\* that is being read is one that the server has sent, with bytes left to read
\* (frame_parser.py, parse; stream.py, feed).
THEOREM StreamTyped == Spec => []StreamTypeOK
<1>1. TypeInv => StreamTypeOK
  BY TypeParts
<1> QED
  BY <1>1, TypeInit, TypeStep, PTL DEF Spec

-----------------------------------------------------------------------------
(* What the application gets *)

LegalInv == FramesAreLegal(Parsed) /\ WellBegun(Parsed)

AcceptedInv == \A k \in DOMAIN messages : MessageIsLegal(messages[k])

OpenInv == stage # "failed" => OpenAs(Parsed, fragments)

HeaderInv ==
  /\ stage \notin {"response", "failed"} => header <= MaxHeader
  /\ stage \in {"payload", "complete"} => ~Current.huge /\ Validates(Current)

MeaningInv == Faithful /\ LegalInv /\ AcceptedInv /\ OpenInv /\ HeaderInv

\* What was parsed, and what with the current frame.
LEMMA ParsedIs ==
  ASSUME SentTypes
  PROVE  /\ Parsed \in Seq(FrameRecord) /\ Len(Parsed) = done
         /\ done < Len(sent) => UpTo = Append(Parsed, Current)
<1>1. /\ Len(sent) \in Nat /\ done \in Nat /\ done <= Len(sent)
      /\ sent \in Seq(FrameRecord)
  BY FramesTyped DEF SentTypes
<1>2. Parsed \in Seq(FrameRecord) /\ Len(Parsed) = done
  <2>1. \A i \in 1..done : sent[i] \in FrameRecord
    BY <1>1
  <2>2. Parsed \in Seq(FrameRecord) /\ Len(Parsed) = IF 1 <= done THEN done - 1 + 1 ELSE 0
    BY <1>1, <2>1, SubSeqProperties DEF Parsed
  <2> QED
    BY <1>1, <2>2
<1>3. ASSUME done < Len(sent)
      PROVE  UpTo = Append(Parsed, Current)
  <2> DEFINE m == done + 1
  <2>1. m \in 1..Len(sent) /\ 1 \in 1..Len(sent) /\ m \in 1..Len(sent) /\ m - 1 = done
    BY <1>1, <1>3
  <2>2. SubSeq(sent, 1, m) = SubSeq(sent, 1, m - 1) \o <<sent[m]>>
    <3>1. m \in 1..Len(sent)
      BY <2>1
    <3> HIDE DEF m
    <3> QED
      BY <1>1, <2>1, SubSeqRecursiveSecond
  <2>3. Current \in FrameRecord
    BY <1>3, FramesTyped
  <2>4. Append(Parsed, Current) = Parsed \o <<Current>>
    BY <1>2, <2>3, AppendIsConcat
  <2> QED
    BY <2>1, <2>2, <2>4 DEF UpTo, Parsed, Current
<1> QED
  BY <1>2, <1>3

\* What the server sends comes after that.
LEMMA SendKeeps ==
  ASSUME SentTypes, NEW f \in Frames, sent' = Append(sent, f), UNCHANGED done
  PROVE  /\ Parsed' = Parsed
         /\ done < Len(sent) => UpTo' = UpTo /\ Current' = Current
<1>1. /\ Len(sent) \in Nat /\ done \in Nat /\ done <= Len(sent)
      /\ Len(sent') = Len(sent) + 1 /\ \A i \in 1..Len(sent) : sent'[i] = sent[i]
      /\ sent \in Seq(Frames) /\ sent' \in Seq(Frames)
  <2>1. sent \in Seq(Frames) /\ done \in 0..Len(sent)
    BY DEF SentTypes
  <2> QED
    BY <2>1, AppendProperties
<1>2. ASSUME NEW n \in 0..Len(sent)
      PROVE  SubSeq(sent', 1, n) = SubSeq(sent, 1, n)
  <2> DEFINE t == sent'
             a == SubSeq(sent, 1, n)
             b == SubSeq(t, 1, n)
  <2>0. t \in Seq(Frames) /\ Len(t) = Len(sent) + 1 /\ \A i \in 1..Len(sent) : t[i] = sent[i]
    BY <1>1
  <2> HIDE DEF t
  <2>1. /\ \A i \in 1..n : sent[i] \in Frames
        /\ \A i \in 1..n : t[i] \in Frames
        /\ \A i \in 1..n : t[i] = sent[i]
        /\ n \in Int /\ 1 \in Int
    BY <1>1, <2>0
  <2>2. a \in Seq(Frames) /\ Len(a) = (IF 1 <= n THEN n - 1 + 1 ELSE 0)
        /\ \A i \in 1..(n - 1 + 1) : a[i] = sent[1 + i - 1]
    BY <2>1, SubSeqProperties
  <2>3. b \in Seq(Frames) /\ Len(b) = (IF 1 <= n THEN n - 1 + 1 ELSE 0)
        /\ \A i \in 1..(n - 1 + 1) : b[i] = t[1 + i - 1]
    BY <2>1, SubSeqProperties
  <2>4. Len(a) = n /\ Len(b) = n /\ \A i \in 1..n : i \in 1..(n - 1 + 1) /\ 1 + i - 1 = i
    BY <1>1, <2>2, <2>3
  <2> HIDE DEF a, b
  <2>5. \A i \in 1..n : a[i] = b[i]
    BY <2>1, <2>2, <2>3, <2>4
  <2>6. a = b
    BY <2>2, <2>3, <2>4, <2>5, SeqEqual
  <2> QED
    BY <2>6 DEF a, b, t
<1>3. Parsed' = Parsed
  BY <1>1, <1>2 DEF Parsed
<1>4. ASSUME done < Len(sent)
      PROVE  UpTo' = UpTo /\ Current' = Current
  <2>1. done + 1 \in 0..Len(sent) /\ done + 1 \in 1..Len(sent)
    BY <1>1, <1>4
  <2> QED
    BY <1>1, <1>2, <2>1 DEF UpTo, Current
<1> QED
  BY <1>3, <1>4

\* At first there is nothing.
LEMMA MeaningInit == Init => MeaningInv
<1> SUFFICES ASSUME Init
             PROVE  MeaningInv
  OBVIOUS
<1>1. Parsed = <<>> /\ Len(<<>>) = 0
  BY SubSeqEmpty DEF Init, Parsed
<1>2. MessagesOf(<<>>) = <<>>
  <2>1. {i \in DOMAIN <<>> : (<<>>)[i].fin} = {}
    OBVIOUS
  <2>2. Cardinality({}) = 0
    BY FS_EmptySet
  <2> QED
    BY <2>1, <2>2 DEF MessagesOf
<1>3. Faithful
  BY <1>1, <1>2 DEF Init, Faithful
<1>4. LegalInv
  BY <1>1 DEF LegalInv, FramesAreLegal, EachIsLegal, FragmentsAlternate, WellBegun
<1>5. AcceptedInv
  BY DEF Init, AcceptedInv
<1>6. OpenInv
  <2>1. ~OpenBefore(<<>>, 0 + 1)
    BY DEF OpenBefore
  <2> QED
    BY <1>1, <2>1 DEF Init, OpenInv, OpenAs
<1>7. HeaderInv
  BY DEF Init, HeaderInv
<1> QED
  BY <1>3, <1>4, <1>5, <1>6, <1>7 DEF MeaningInv

\* A step that parses no frame changes nothing of it.
LEMMA MeaningKept ==
  ASSUME MeaningInv, Parsed' = Parsed, UNCHANGED messages,
         stage' # "failed" => stage # "failed" /\ UNCHANGED fragments,
         HeaderInv'
  PROVE  MeaningInv'
<1>1. Faithful' /\ LegalInv' /\ AcceptedInv'
  BY DEF MeaningInv, Faithful, LegalInv, AcceptedInv
<1>2. OpenInv'
  BY DEF MeaningInv, OpenInv
<1> QED
  BY <1>1, <1>2 DEF MeaningInv

\* A frame that is parsed is one frame more, and ends one message or none.
LEMMA MeaningGrows ==
  ASSUME TypeInv, MeaningInv, stage = "complete", UNCHANGED sent, done' = done + 1,
         stage' = "frame", UNCHANGED header,
         ~Current.mask,
         IsData(Current) => (Current.op = "cont" <=> fragments # <<>>),
         WellBegun(Append(Parsed, Current)), OpenAs(Append(Parsed, Current), fragments'),
         NEW m \in Message, MessageAt(Append(Parsed, Current), Len(Parsed) + 1) = m,
         IF Current.fin THEN messages' = Append(messages, m) /\ MessageIsLegal(m)
         ELSE UNCHANGED messages
  PROVE  MeaningInv'
<1>1. SentTypes /\ messages \in Seq(Message) /\ done < Len(sent)
  BY DEF TypeInv, MessageTypes, PlaceInv
<1>2. /\ Parsed \in Seq(FrameRecord) /\ Len(Parsed) = done /\ Current \in FrameRecord
      /\ UpTo = Append(Parsed, Current)
  BY <1>1, ParsedIs, FramesTyped
<1>3. Parsed' = Append(Parsed, Current)
  BY <1>2 DEF UpTo, Parsed
<1> DEFINE P == Parsed
           f == Current
<1>4. FramesAreLegal(Append(P, f))
  <2>1. Sound(f)
    BY DEF MeaningInv, HeaderInv, Validates, Sound
  <2>2. IsData(f) => (f.op = "cont" <=> OpenBefore(P, Len(P) + 1))
    BY DEF MeaningInv, OpenInv, OpenAs
  <2>3. FramesAreLegal(P)
    BY DEF MeaningInv, LegalInv
  <2>4. P \in Seq(FrameRecord) /\ f \in FrameRecord
    BY <1>2
  <2> HIDE DEF P, f
  <2> QED
    BY <2>1, <2>2, <2>3, <2>4, LegalGrows
<1>5. LegalInv'
  BY <1>3, <1>4 DEF LegalInv
<1>6. OpenInv'
  BY <1>3 DEF OpenInv
<1>7. Faithful'
  <2>1. messages = MessagesOf(P) /\ WellBegun(P)
    BY DEF MeaningInv, Faithful, LegalInv
  <2>2. MessagesOf(Append(P, f)) = IF f.fin THEN Append(MessagesOf(P), m) ELSE MessagesOf(P)
    <3>1. P \in Seq(FrameRecord) /\ f \in FrameRecord /\ MessagesOf(P) \in Seq(Message)
          /\ MessageAt(Append(P, f), Len(P) + 1) = m
      BY <1>1, <1>2, <2>1
    <3> HIDE DEF P, f
    <3> QED
      BY <2>1, <3>1, MessagesGrow
  <2>3. messages' = MessagesOf(Append(P, f))
    BY <2>1, <2>2
  <2> QED
    BY <1>3, <2>3 DEF Faithful
<1>8. AcceptedInv'
  <2>1. CASE Current.fin
    <3>1. /\ Len(messages) \in Nat /\ DOMAIN messages' = 1..(Len(messages) + 1)
          /\ \A k \in 1..Len(messages) : messages'[k] = messages[k]
          /\ messages'[Len(messages) + 1] = m /\ DOMAIN messages = 1..Len(messages)
      BY <1>1, <2>1, AppendProperties
    <3>2. \A k \in 1..(Len(messages) + 1) : k \in 1..Len(messages) \/ k = Len(messages) + 1
      BY <3>1
    <3> QED
      BY <2>1, <3>1, <3>2 DEF MeaningInv, AcceptedInv
  <2>2. CASE ~Current.fin
    BY <2>2 DEF MeaningInv, AcceptedInv
  <2> QED
    BY <2>1, <2>2
<1>9. HeaderInv'
  BY DEF MeaningInv, HeaderInv
<1> QED
  BY <1>5, <1>6, <1>7, <1>8, <1>9 DEF MeaningInv

\* Refused or accepted, a message that is built is what the rules say.
LEMMA YieldsMeans ==
  ASSUME NEW frames, Built(frames) \in Message, Yields(frames)
  PROVE  \/ /\ stage' = "failed" /\ UNCHANGED <<messages, done>>
            /\ error' # "none" /\ ~MessageIsLegal(Built(frames))
         \/ /\ stage' = "frame" /\ done' = done + 1 /\ UNCHANGED error
            /\ messages' = Append(messages, Built(frames)) /\ MessageIsLegal(Built(frames))
BY RefusalMeans DEF Yields, Raise

\* Every step keeps the meaning of what was parsed.
LEMMA MeaningStep ==
  ASSUME TypeInv, MeaningInv, [Next]_vars
  PROVE  MeaningInv'
<1> USE DEF parserVars, streamVars
<1>1. SentTypes
  BY DEF TypeInv
<1>2. ASSUME stage = "complete"
      PROVE  /\ done < Len(sent)
             /\ Parsed \in Seq(FrameRecord) /\ Current \in FrameRecord
             /\ fragments \in Seq(FrameRecord) /\ <<>> \in Seq(FrameRecord)
             /\ WellBegun(Parsed) /\ OpenAs(Parsed, fragments)
             /\ <<Current>> = Append(<<>>, Current)
             /\ ~Current.huge /\ Validates(Current)
             /\ Built(<<Current>>) \in Message /\ Built(Append(fragments, Current)) \in Message
  <2>1. done < Len(sent) /\ fragments \in Seq(Frames)
    BY <1>2 DEF TypeInv, PlaceInv, MessageTypes
  <2>2. Parsed \in Seq(FrameRecord) /\ Current \in FrameRecord
        /\ fragments \in Seq(FrameRecord) /\ <<>> \in Seq(FrameRecord)
    BY <1>1, <2>1, ParsedIs, FramesTyped
  <2>3. <<Current>> = Append(<<>>, Current)
    OBVIOUS
  <2>4. WellBegun(Parsed) /\ OpenAs(Parsed, fragments) /\ ~Current.huge /\ Validates(Current)
    BY <1>2 DEF MeaningInv, LegalInv, OpenInv, HeaderInv
  <2>5. Built(Append(<<>>, Current)) \in Message /\ Built(Append(fragments, Current)) \in Message
    BY <2>2, BuiltTyped
  <2> QED
    BY <2>1, <2>2, <2>3, <2>4, <2>5
<1>3. CASE UNCHANGED vars
  <2>1. Parsed' = Parsed /\ HeaderInv'
    BY <1>3 DEF vars, Parsed, MeaningInv, HeaderInv, Current
  <2> QED
    BY <1>3, <2>1, MeaningKept DEF vars
<1>4. CASE Terminated
  BY <1>3, <1>4 DEF Terminated
<1>5. CASE ServerSends
  <2>1. PICK f \in Frames : sent' = Append(sent, f)
    BY <1>5 DEF ServerSends
  <2>2. UNCHANGED <<header, stage, done, fragments, messages>>
    BY <1>5 DEF ServerSends
  <2>3. Parsed' = Parsed /\ (done < Len(sent) => Current' = Current)
    BY <1>1, <2>1, <2>2, SendKeeps
  <2>4. stage \in {"payload", "complete"} => done < Len(sent)
    BY DEF TypeInv, PlaceInv
  <2>5. HeaderInv'
    BY <2>2, <2>3, <2>4 DEF MeaningInv, HeaderInv
  <2> QED
    BY <2>2, <2>3, <2>5, MeaningKept
<1>6. CASE Feed
  <2>1. UNCHANGED <<header, sent, stage, done, fragments, messages>>
    BY <1>6 DEF Feed
  <2>2. Parsed' = Parsed /\ HeaderInv'
    BY <2>1 DEF Parsed, MeaningInv, HeaderInv, Current
  <2> QED
    BY <2>1, <2>2, MeaningKept
<1>7. CASE ReadResponse
  <2>1. /\ UNCHANGED <<header, sent, done, fragments, messages>> /\ stage = "response"
        /\ stage' \in {"failed", "response", "frame"}
        /\ stage' = "frame" => header <= MaxHeader
    BY <1>7 DEF ReadResponse, Raise
  <2>2. Parsed' = Parsed /\ HeaderInv'
    BY <2>1 DEF Parsed, HeaderInv
  <2> QED
    BY <2>1, <2>2, MeaningKept
<1>8. CASE ReadFrameHeader
  <2>1. /\ UNCHANGED <<header, sent, done, fragments, messages>> /\ stage = "frame"
        /\ stage' # "failed" => ~Current.huge /\ Validates(Current)
    BY <1>8 DEF ReadFrameHeader, Raise
  <2>2. Parsed' = Parsed /\ Current' = Current
    BY <2>1 DEF Parsed, Current
  <2>3. HeaderInv'
    BY <2>1, <2>2 DEF MeaningInv, HeaderInv
  <2> QED
    BY <2>1, <2>2, <2>3, MeaningKept
<1>9. CASE ReadPayload
  <2>1. UNCHANGED <<header, sent, done, fragments, messages>> /\ stage = "payload"
    BY <1>9 DEF ReadPayload
  <2>2. Parsed' = Parsed /\ Current' = Current
    BY <2>1 DEF Parsed, Current
  <2>3. HeaderInv'
    BY <2>1, <2>2 DEF MeaningInv, HeaderInv
  <2> QED
    BY <2>1, <2>2, <2>3, MeaningKept
<1>10. ASSUME stage' = "failed", UNCHANGED <<sent, done, messages>>
       PROVE  MeaningInv'
  <2>1. Parsed' = Parsed /\ HeaderInv'
    BY <1>10 DEF Parsed, HeaderInv
  <2> QED
    BY <1>10, <2>1, MeaningKept
<1>11. CASE MaskedFrame \/ OutOfPlace
  BY <1>10, <1>11 DEF MaskedFrame, OutOfPlace, Raise
<1>12. CASE ControlFrame
  <2>1. /\ stage = "complete" /\ ~Current.mask /\ IsControl(Current) /\ Yields(<<Current>>)
        /\ UNCHANGED <<header, sent, fragments>>
    BY <1>12 DEF ControlFrame
  <2>2. CASE stage' = "failed" /\ UNCHANGED <<messages, done>>
    BY <1>10, <2>1, <2>2
  <2>3. CASE /\ stage' = "frame" /\ done' = done + 1
             /\ messages' = Append(messages, Built(<<Current>>))
             /\ MessageIsLegal(Built(<<Current>>))
    <3>1. /\ WellBegun(Append(Parsed, Current)) /\ OpenAs(Append(Parsed, Current), fragments)
          /\ MessageAt(Append(Parsed, Current), Len(Parsed) + 1) = Built(<<Current>>)
      BY <1>2, <2>1, ControlIn
    <3>2. Current.fin /\ ~IsData(Current)
      BY <1>2, <2>1 DEF Validates, IsData
    <3>3. fragments' = fragments /\ Built(<<Current>>) \in Message
      BY <1>2, <2>1
    <3> QED
      BY <2>1, <2>3, <3>1, <3>2, <3>3, MeaningGrows
  <2> QED
    BY <1>2, <2>1, <2>2, <2>3, YieldsMeans
<1>13. ASSUME stage = "complete", ~IsControl(Current), InPlace(Current)
       PROVE  /\ WellBegun(Append(Parsed, Current))
              /\ OpenAs(Append(Parsed, Current),
                        IF Current.fin THEN <<>> ELSE Append(fragments, Current))
              /\ MessageAt(Append(Parsed, Current), Len(Parsed) + 1)
                   = Built(Append(fragments, Current))
  <2>1. IsData(Current) /\ Current.op # "reserved" /\ (Current.op = "cont" <=> fragments # <<>>)
    BY <1>2, <1>13 DEF IsData, InPlace, Validates
  <2> QED
    BY <1>2, <1>13, <2>1, DataIn
<1>14. CASE Fragment
  <2>1. /\ stage = "complete" /\ ~Current.mask /\ ~IsControl(Current) /\ ~Current.fin
        /\ InPlace(Current) /\ fragments' = Append(fragments, Current)
        /\ stage' = "frame" /\ done' = done + 1 /\ UNCHANGED <<header, sent, messages>>
    BY <1>14 DEF Fragment
  <2>2. Current.op = "cont" <=> fragments # <<>>
    BY <2>1 DEF InPlace
  <2>3. OpenAs(Append(Parsed, Current), fragments')
    BY <1>13, <2>1
  <2> QED
    BY <1>2, <1>13, <2>1, <2>2, <2>3, MeaningGrows
<1>15. CASE FinalFrame
  <2>1. /\ stage = "complete" /\ ~Current.mask /\ ~IsControl(Current) /\ Current.fin
        /\ InPlace(Current) /\ fragments' = <<>>
        /\ Yields(Append(fragments, Current)) /\ UNCHANGED <<header, sent>>
    BY <1>15 DEF FinalFrame
  <2>2. Current.op = "cont" <=> fragments # <<>>
    BY <2>1 DEF InPlace
  <2>3. OpenAs(Append(Parsed, Current), fragments')
    BY <1>13, <2>1
  <2>4. CASE stage' = "failed" /\ UNCHANGED <<messages, done>>
    BY <1>10, <2>1, <2>4
  <2>5. CASE /\ stage' = "frame" /\ done' = done + 1
             /\ messages' = Append(messages, Built(Append(fragments, Current)))
             /\ MessageIsLegal(Built(Append(fragments, Current)))
    BY <1>2, <1>13, <2>1, <2>2, <2>3, <2>5, MeaningGrows
  <2> QED
    BY <1>2, <2>1, <2>4, <2>5, YieldsMeans
<1> QED
  BY <1>3, <1>4, <1>5, <1>6, <1>7, <1>8, <1>9, <1>11, <1>12, <1>14, <1>15 DEF Next

\* For any frames, and however the network and the parser cut the stream: what the
\* application gets is the sequence of the messages that the parsed frames are,
\* complete and in order (stream.py, feed).
THEOREM StreamFaithful == Spec => []Faithful
<1>1. Init => TypeInv /\ MeaningInv
  BY TypeInit, MeaningInit
<1>2. TypeInv /\ MeaningInv /\ [Next]_vars => TypeInv' /\ MeaningInv'
  BY TypeStep, MeaningStep
<1>3. MeaningInv => Faithful
  BY DEF MeaningInv
<1> QED
  BY <1>1, <1>2, <1>3, PTL DEF Spec

\* And nothing that breaks a rule is among them: of the header, of the frames, of
\* their order, of the encoding of a text and of a Close (frame_parser.py, parse;
\* frame.py, validate; stream.py, feed; message.py, build).
THEOREM OnlyLegalAccepted == Spec => []AcceptsOnlyLegal
<1>1. Init => TypeInv /\ MeaningInv
  BY TypeInit, MeaningInit
<1>2. TypeInv /\ MeaningInv /\ [Next]_vars => TypeInv' /\ MeaningInv'
  BY TypeStep, MeaningStep
<1>3. MeaningInv => AcceptsOnlyLegal
  BY DEF MeaningInv, HeaderInv, LegalInv, AcceptedInv, Faithful, AcceptsOnlyLegal,
         MessagesAreLegal
<1> QED
  BY <1>1, <1>2, <1>3, PTL DEF Spec

-----------------------------------------------------------------------------
(* What the client refuses *)

\* What was read of the current frame's payload.
Read == IF stage = "payload" THEN SubSeq(Current.body, 1, got) ELSE Current.body

\* Between two frames the validator is where the open text left it; within a frame
\* that is validated, where the bytes read leave it.  A control frame inside a text
\* clears isText, and what is left of that text is not validated as it arrives.
BetweenInv ==
  /\ fragments = <<>> => utf8 = "accept"
  /\ isText => /\ fragments # <<>> /\ fragments[1].op = "text"
               /\ utf8 = Utf8After("accept", Payload(fragments))

WithinInv ==
  /\ Current.op = "text" => isText
  /\ isText => Current.op = "text" \/ (fragments # <<>> /\ fragments[1].op = "text")
  /\ fragments = <<>> /\ ~Validated(Current) => utf8 = "accept"
  /\ Validated(Current) /\ InPlace(Current) =>
       utf8 = Utf8After("accept", Payload(fragments) \o Read)

TextInv ==
  /\ stage \in {"response", "frame"} => BetweenInv
  /\ stage \in {"payload", "complete"} => WithinInv

\* The frames up to the current one break a rule.
Breaks ==
  /\ done < Len(sent)
  /\ ~FramesAreLegal(UpTo) \/ ~MessagesAreLegal(UpTo) \/ ~Utf8Prefix(OpenText(UpTo))

AlarmInv == error # "none" => header > MaxHeader \/ Breaks

\* The validator after one more bite.
LEMMA BiteRead ==
  ASSUME TypeInv, stage = "payload", data > 0,
         NEW n, n = Bite(Len(Current.body) - got),
         utf8 = Utf8After("accept", Payload(fragments) \o SubSeq(Current.body, 1, got))
  PROVE  Utf8After(utf8, SubSeq(Current.body, got + 1, got + n))
           = Utf8After("accept", Payload(fragments) \o SubSeq(Current.body, 1, got + n))
<1> DEFINE b == Current.body
           p == Payload(fragments)
           old == SubSeq(b, 1, got)
           bite == SubSeq(b, got + 1, got + n)
           new == SubSeq(b, 1, got + n)
<1>1. /\ n \in Nat /\ n > 0 /\ got + n <= Len(b) /\ bite \in Seq(Bytes)
  BY BiteIs
<1>2. /\ got \in Nat /\ Len(b) \in Nat /\ b \in Seq(Bytes) /\ got < Len(b)
      /\ fragments \in Seq(FrameRecord)
  BY FramesTyped DEF TypeInv, SentTypes, PlaceInv, MessageTypes
<1>3. p \in Seq(Bytes)
  <2>1. \E f \in FrameRecord : TRUE
    BY FramesTyped DEF TypeInv, PlaceInv
  <2> QED
    BY <1>2, <2>1, PayloadGrows
<1> HIDE DEF b, p
<1>4. old \in Seq(Bytes)
  <2>1. \A i \in 1..got : i \in 1..Len(b)
    BY <1>2
  <2>2. \A i \in 1..got : b[i] \in Bytes
    BY <1>2, <2>1, ElementOfSeq
  <2>3. 1 \in Int /\ got \in Int
    BY <1>2
  <2> QED
    BY <2>2, <2>3, SubSeqProperties
<1>5. old \o bite = new
  <2> DEFINE k == got
             e == got + n
  <2>1. 1 \in 1..(Len(b) + 1) /\ k \in (1 - 1)..Len(b) /\ e \in k..Len(b)
    BY <1>1, <1>2
  <2>2. SubSeq(b, 1, k) \o SubSeq(b, k + 1, e) = SubSeq(b, 1, e)
    <3> HIDE DEF k, e
    <3> QED
      BY <1>2, <2>1, ConcatAdjacentSubSeq
  <2> QED
    BY <2>2
<1> HIDE DEF old, bite
<1>6. (p \o old) \o bite = p \o (old \o bite)
  BY <1>1, <1>3, <1>4, ConcatAssociative, SMTT(30)
<1>7. p \o old \in Seq(Bytes)
  BY <1>3, <1>4, ConcatProperties
<1>8. Utf8After("accept", (p \o old) \o bite) = Utf8After(Utf8After("accept", p \o old), bite)
  BY <1>1, <1>7, AfterConcat
<1>9. utf8 = Utf8After("accept", p \o old)
  BY DEF p, old, b
<1> QED
  BY <1>5, <1>6, <1>8, <1>9 DEF p, bite, b

\* Bytes that the validator rejects are the beginning of no text.
LEMMA RejectedIsBroken ==
  ASSUME NEW p \in Seq(Bytes), NEW b \in Seq(Bytes), NEW k \in 0..Len(b),
         Utf8After("accept", p \o SubSeq(b, 1, k)) = "reject"
  PROVE  ~Utf8Prefix(p \o b)
<1> DEFINE c == SubSeq(b, 1, k)
           d == SubSeq(b, k + 1, Len(b))
<1>0. Len(b) \in Nat /\ k \in Nat /\ k <= Len(b)
  OBVIOUS
<1>1. c \in Seq(Bytes) /\ d \in Seq(Bytes)
  <2>1. /\ \A i \in 1..k : i \in 1..Len(b)
        /\ \A i \in (k + 1)..Len(b) : i \in 1..Len(b)
    BY <1>0
  <2>2. /\ \A i \in 1..k : b[i] \in Bytes
        /\ \A i \in (k + 1)..Len(b) : b[i] \in Bytes
    BY <2>1, ElementOfSeq
  <2>3. 1 \in Int /\ k \in Int /\ k + 1 \in Int /\ Len(b) \in Int
    BY <1>0
  <2> QED
    BY <2>2, <2>3, SubSeqProperties
<1>2. c \o d = b
  <2> DEFINE N == Len(b)
  <2>1. 1 \in 1..(N + 1) /\ k \in (1 - 1)..N /\ N \in k..N
    BY <1>0
  <2>2. SubSeq(b, 1, k) \o SubSeq(b, k + 1, N) = SubSeq(b, 1, N)
    <3>1. 1 \in 1..(Len(b) + 1) /\ k \in (1 - 1)..Len(b) /\ N \in k..Len(b)
      BY <2>1
    <3> HIDE DEF N
    <3> QED
      BY <3>1, ConcatAdjacentSubSeq
  <2>3. SubSeq(b, 1, N) = b
    BY SubSeqFull
  <2> QED
    BY <2>2, <2>3
<1>3. Utf8After("accept", p \o c) = "reject"
  OBVIOUS
<1> HIDE DEF c, d
<1>4. (p \o c) \o d = p \o b /\ p \o c \in Seq(Bytes) /\ p \o b \in Seq(Bytes)
  <2>1. (p \o c) \o d = p \o (c \o d)
    BY <1>1, ConcatAssociative
  <2>2. p \o c \in Seq(Bytes) /\ p \o b \in Seq(Bytes)
    BY <1>1, ConcatProperties
  <2> QED
    BY <1>2, <2>1, <2>2
<1>5. Utf8After("accept", (p \o c) \o d) = Utf8After(Utf8After("accept", p \o c), d)
  BY <1>1, <1>4, AfterConcat
<1>6. Utf8After("reject", d) = "reject"
  BY <1>1, AfterTyped DEF States
<1>7. Utf8After("accept", p \o b) = "reject"
  BY <1>3, <1>4, <1>5, <1>6
<1> QED
  BY <1>4, <1>7, AfterMeans

\* At first the validator is where a text begins.
LEMMA TextInit == Init => TextInv /\ AlarmInv
BY DEF Init, TextInv, BetweenInv, AlarmInv

\* Every step keeps the validator where the text left it.
LEMMA TextStep ==
  ASSUME TypeInv, MeaningInv, TextInv, [Next]_vars
  PROVE  TextInv'
<1> USE DEF parserVars, streamVars
<1>1. SentTypes
  BY DEF TypeInv
<1>2. ASSUME UNCHANGED <<isText, utf8, fragments>>, Current' = Current,
             Read' = Read \/ stage \in {"response", "frame"}, UNCHANGED stage
      PROVE  TextInv'
  BY <1>2 DEF TextInv, BetweenInv, WithinInv, Validated, InPlace
<1>3. CASE UNCHANGED vars
  BY <1>2, <1>3 DEF vars, Read, Current
<1>4. CASE Terminated
  BY <1>3, <1>4 DEF Terminated
<1>5. CASE ServerSends
  <2>1. PICK f \in Frames : sent' = Append(sent, f)
    BY <1>5 DEF ServerSends
  <2>2. UNCHANGED <<stage, done, got, isText, utf8, fragments>>
    BY <1>5 DEF ServerSends
  <2>3. CASE stage \in {"payload", "complete"}
    <3>1. Current' = Current
      BY <1>1, <2>1, <2>2, <2>3, SendKeeps DEF TypeInv, PlaceInv
    <3>2. Read' = Read
      BY <2>2, <3>1 DEF Read
    <3> QED
      BY <1>2, <2>2, <3>1, <3>2
  <2>4. CASE stage \notin {"payload", "complete"}
    BY <2>2, <2>4 DEF TextInv, BetweenInv
  <2> QED
    BY <2>3, <2>4
<1>6. CASE Feed
  BY <1>2, <1>6 DEF Feed, Read, Current
<1>7. CASE ReadResponse
  <2>1. /\ UNCHANGED <<isText, utf8, fragments>> /\ stage = "response"
        /\ stage' \in {"failed", "response", "frame"}
    BY <1>7 DEF ReadResponse, Raise
  <2> QED
    BY <2>1 DEF TextInv, BetweenInv
<1>8. CASE ReadFrameHeader
  <2>1. UNCHANGED <<sent, got, done, utf8, fragments>> /\ stage = "frame" /\ data > 0
    BY <1>8 DEF ReadFrameHeader
  <2>2. \/ stage' = "failed"
        \/ /\ isText' = (isText \/ Current.op = "text")
           /\ stage' = IF Current.body = <<>> THEN "complete" ELSE "payload"
    BY <1>8 DEF ReadFrameHeader, Raise
  <2>3. CASE stage' = "failed"
    BY <2>3 DEF TextInv
  <2>4. CASE /\ isText' = (isText \/ Current.op = "text")
             /\ stage' = IF Current.body = <<>> THEN "complete" ELSE "payload"
    <3>1. done < Len(sent) /\ got = 0
      BY <2>1, FrameSent DEF TypeInv, PlaceInv
    <3>2. Current' = Current /\ Current \in FrameRecord /\ fragments \in Seq(FrameRecord)
      BY <1>1, <2>1, <3>1, FramesTyped DEF TypeInv, MessageTypes, Current
    <3>3. Read' = <<>>
      <4>1. SubSeq(Current.body, 1, 0) = <<>>
        BY SubSeqEmpty
      <4> QED
        BY <2>1, <2>4, <3>1, <3>2, <4>1 DEF Read
    <3>4. Payload(fragments) \o <<>> = Payload(fragments) /\ Payload(<<>>) = <<>>
      BY <3>2, PayloadGrows, BuiltTyped, ConcatEmptySeq
    <3>5. Utf8After("accept", <<>>) = "accept"
      BY AfterEmpty
    <3>6. BetweenInv
      BY <2>1 DEF TextInv
    <3>7. /\ Current.op = "text" => isText'
          /\ isText' => Current.op = "text" \/ (fragments # <<>> /\ fragments[1].op = "text")
      BY <2>4, <3>6 DEF BetweenInv
    <3>8. fragments = <<>> => utf8 = "accept"
      BY <3>6 DEF BetweenInv
    <3>9. ASSUME Validated(Current)', InPlace(Current)'
          PROVE  utf8 = Utf8After("accept", Payload(fragments))
      <4>1. CASE Current.op = "text"
        <5>1. fragments = <<>>
          BY <2>1, <3>2, <3>9, <4>1 DEF InPlace
        <5> QED
          BY <3>4, <3>5, <3>8, <5>1
      <4>2. CASE Current.op = "cont"
        <5>1. isText
          BY <2>4, <3>2, <3>9, <4>2 DEF Validated
        <5> QED
          BY <3>6, <5>1 DEF BetweenInv
      <4> QED
        BY <3>2, <3>9, <4>1, <4>2 DEF Validated
    <3>10. WithinInv'
      BY <2>1, <3>2, <3>3, <3>4, <3>7, <3>8, <3>9 DEF WithinInv
    <3> QED
      BY <2>4, <3>10 DEF TextInv
  <2> QED
    BY <2>2, <2>3, <2>4
<1>9. CASE ReadPayload
  <2> DEFINE n == Bite(Len(Current.body) - got)
             bite == SubSeq(Current.body, got + 1, got + n)
  <2>1. /\ UNCHANGED <<sent, done, isText, fragments>> /\ stage = "payload" /\ data > 0
        /\ utf8' = IF Validated(Current) THEN Utf8After(utf8, bite) ELSE utf8
    BY <1>9 DEF ReadPayload
  <2>2. /\ n \in Nat /\ n > 0 /\ got \in Nat /\ got + n <= Len(Current.body)
        /\ Len(Current.body) \in Nat /\ Current.body \in Seq(Bytes)
    BY <2>1, BiteIs, FramesTyped DEF TypeInv, SentTypes, PlaceInv
  <2>3. \/ stage' = "failed"
        \/ /\ got' = IF got + n = Len(Current.body) THEN 0 ELSE got + n
           /\ stage' = IF got' = 0 THEN "complete" ELSE "payload"
    BY <1>9 DEF ReadPayload, Raise
  <2>4. CASE stage' = "failed"
    BY <2>4 DEF TextInv
  <2>5. CASE /\ got' = IF got + n = Len(Current.body) THEN 0 ELSE got + n
             /\ stage' = IF got' = 0 THEN "complete" ELSE "payload"
    <3>1. Current' = Current
      BY <2>1 DEF Current
    <3>2. Read' = SubSeq(Current.body, 1, got + n)
      <4>1. SubSeq(Current.body, 1, Len(Current.body)) = Current.body
        BY <2>2, SubSeqFull
      <4> HIDE DEF n
      <4>2. CASE got + n = Len(Current.body)
        BY <2>5, <3>1, <4>1, <4>2 DEF Read
      <4>3. CASE got + n # Len(Current.body)
        <5>1. got' = got + n /\ got' # 0
          BY <2>2, <2>5, <4>3
        <5> QED
          BY <2>5, <3>1, <5>1 DEF Read
      <4> QED
        BY <4>2, <4>3
    <3>3. WithinInv
      BY <2>1 DEF TextInv
    <3>4. ASSUME Validated(Current), InPlace(Current)
          PROVE  utf8' = Utf8After("accept", Payload(fragments) \o SubSeq(Current.body, 1, got + n))
      <4>1. utf8 = Utf8After("accept", Payload(fragments) \o SubSeq(Current.body, 1, got))
        BY <2>1, <3>3, <3>4 DEF WithinInv, Read
      <4> QED
        BY <2>1, <3>4, <4>1, BiteRead
    <3> HIDE DEF n, bite
    <3>5. Validated(Current)' = Validated(Current) /\ InPlace(Current)' = InPlace(Current)
      BY <2>1, <3>1 DEF Validated, InPlace
    <3>6. ~Validated(Current) => utf8' = utf8
      BY <2>1
    <3>7. WithinInv'
      BY <2>1, <3>1, <3>2, <3>3, <3>4, <3>5, <3>6 DEF WithinInv
    <3> QED
      BY <2>5, <3>7 DEF TextInv
  <2> QED
    BY <2>3, <2>4, <2>5
<1>10. CASE MaskedFrame \/ OutOfPlace
  BY <1>10 DEF MaskedFrame, OutOfPlace, Raise, TextInv
<1>11. ASSUME stage = "complete"
       PROVE  /\ WithinInv /\ Validates(Current) /\ Read = Current.body
              /\ Current \in FrameRecord /\ fragments \in Seq(FrameRecord)
  BY <1>1, <1>11, FramesTyped
     DEF TextInv, MeaningInv, HeaderInv, Read, TypeInv, PlaceInv, MessageTypes
<1>12. CASE ControlFrame
  <2>1. /\ stage = "complete" /\ IsControl(Current) /\ OnFrame(Current) /\ UNCHANGED fragments
        /\ stage' \in {"failed", "frame"}
    BY <1>12 DEF ControlFrame, Yields, Raise
  <2>2. ~isText' /\ utf8' = utf8 /\ ~Validated(Current)
    BY <1>11, <2>1 DEF OnFrame, Validates, IsControl, Validated
  <2>3. BetweenInv'
    BY <1>11, <2>1, <2>2 DEF WithinInv, BetweenInv
  <2> QED
    BY <2>1, <2>3 DEF TextInv
<1>13. CASE Fragment
  <2>1. /\ stage = "complete" /\ ~Current.fin /\ OnFrame(Current) /\ ~IsControl(Current)
        /\ InPlace(Current) /\ fragments' = Append(fragments, Current) /\ stage' = "frame"
    BY <1>13 DEF Fragment
  <2>2. isText' = isText /\ utf8' = utf8
    BY <2>1 DEF OnFrame, TypeInv, StateTypes
  <2>3. /\ fragments' # <<>>
        /\ fragments = <<>> => fragments'[1] = Current
        /\ fragments # <<>> => fragments'[1] = fragments[1]
        /\ Payload(fragments') = Payload(fragments) \o Current.body
    BY <1>11, <2>1, PayloadGrows, SMTT(30)
  <2>4. ASSUME isText
        PROVE  Validated(Current) /\ fragments'[1].op = "text"
    <3>1. CASE fragments = <<>>
      BY <1>11, <2>1, <2>3, <2>4, <3>1 DEF WithinInv, Validated
    <3>2. CASE fragments # <<>>
      BY <1>11, <2>1, <2>3, <2>4, <3>2 DEF WithinInv, Validated, InPlace
    <3> QED
      BY <3>1, <3>2
  <2>5. isText => utf8 = Utf8After("accept", Payload(fragments'))
    BY <1>11, <2>1, <2>3, <2>4 DEF WithinInv
  <2>6. BetweenInv'
    BY <2>2, <2>3, <2>4, <2>5 DEF BetweenInv
  <2> QED
    BY <2>1, <2>6 DEF TextInv
<1>14. CASE FinalFrame
  <2>1. /\ stage = "complete" /\ Current.fin /\ OnFrame(Current) /\ ~IsControl(Current)
        /\ InPlace(Current) /\ fragments' = <<>> /\ stage' \in {"failed", "frame"}
    BY <1>14 DEF FinalFrame, Yields, Raise
  <2>2. ~isText'
    BY <2>1 DEF OnFrame
  <2>3. utf8' = "accept"
    <3>1. CASE Current.op \in {"text", "cont"}
      BY <2>1, <3>1 DEF OnFrame
    <3>2. CASE Current.op \notin {"text", "cont"}
      <4>1. fragments = <<>> /\ ~Validated(Current)
        BY <2>1, <3>2 DEF InPlace, Validated
      <4> QED
        BY <1>11, <2>1, <3>2, <4>1 DEF OnFrame, WithinInv
    <3> QED
      BY <3>1, <3>2
  <2>4. BetweenInv'
    BY <2>1, <2>2, <2>3 DEF BetweenInv
  <2> QED
    BY <2>1, <2>4 DEF TextInv
<1> QED
  BY <1>3, <1>4, <1>5, <1>6, <1>7, <1>8, <1>9, <1>10, <1>12, <1>13, <1>14 DEF Next

\* A message that ends with the current frame and is not legal breaks a rule.
LEMMA IllegalBreaks ==
  ASSUME TypeInv, MeaningInv, done < Len(sent), Current.fin,
         NEW m \in Message, MessageAt(Append(Parsed, Current), Len(Parsed) + 1) = m,
         ~MessageIsLegal(m)
  PROVE  Breaks
<1> DEFINE P == Parsed
           f == Current
<1>1. /\ P \in Seq(FrameRecord) /\ f \in FrameRecord /\ UpTo = Append(P, f)
      /\ messages \in Seq(Message)
  BY ParsedIs, FramesTyped DEF TypeInv, MessageTypes
<1>2. messages = MessagesOf(P) /\ WellBegun(P)
  BY DEF MeaningInv, Faithful, LegalInv
<1>3. MessagesOf(UpTo) = Append(MessagesOf(P), m)
  <2>1. f.fin /\ MessageAt(Append(P, f), Len(P) + 1) = m
    OBVIOUS
  <2> HIDE DEF P, f
  <2> QED
    BY <1>1, <1>2, <2>1, MessagesGrow
<1> DEFINE n == Len(MessagesOf(P))
           all == MessagesOf(UpTo)
<1>4. n + 1 \in DOMAIN all /\ all[n + 1] = m
  <2>1. MessagesOf(P) \in Seq(Message)
    BY <1>1, <1>2
  <2> HIDE DEF P
  <2> QED
    BY <1>3, <2>1, AppendProperties
<1>5. ~MessagesAreLegal(UpTo)
  <2> HIDE DEF n
  <2> QED
    BY <1>4 DEF MessagesAreLegal
<1> QED
  BY <1>5 DEF Breaks

\* The frames that the client refuses break a rule.
LEMMA RefusedBreaks ==
  ASSUME TypeInv, MeaningInv, done < Len(sent),
         \/ ~Sound(Current)
         \/ IsData(Current) /\ stage # "failed" /\ ~InPlace(Current)
  PROVE  Breaks
<1> DEFINE P == Parsed
           f == Current
<1>1. P \in Seq(FrameRecord) /\ f \in FrameRecord /\ UpTo = Append(P, f)
  BY ParsedIs, FramesTyped DEF TypeInv
<1>2. stage # "failed" => (fragments # <<>> <=> OpenBefore(P, Len(P) + 1))
  BY DEF MeaningInv, OpenInv, OpenAs
<1>3. \/ ~Sound(f)
      \/ IsData(f) /\ ~(f.op = "cont" <=> OpenBefore(P, Len(P) + 1))
  BY <1>2 DEF InPlace
<1>4. ~FramesAreLegal(UpTo)
  <2> HIDE DEF P, f
  <2> QED
    BY <1>1, <1>3, LegalGrows
<1> QED
  BY <1>4 DEF Breaks

\* A text that the validator rejects as it arrives breaks a rule.
LEMMA RejectedBreaks ==
  ASSUME TypeInv, MeaningInv, TextInv, stage = "payload", data > 0, Validated(Current),
         NEW n, n = Bite(Len(Current.body) - got),
         Utf8After(utf8, SubSeq(Current.body, got + 1, got + n)) = "reject"
  PROVE  Breaks
<1> DEFINE P == Parsed
           f == Current
           m == Built(Append(fragments, f))
<1>1. done < Len(sent) /\ fragments \in Seq(Frames)
  BY DEF TypeInv, PlaceInv, MessageTypes
<1>2. /\ P \in Seq(FrameRecord) /\ f \in FrameRecord /\ UpTo = Append(P, f)
      /\ fragments \in Seq(FrameRecord) /\ f.body \in Seq(Bytes) /\ Len(f.body) \in Nat
  BY <1>1, ParsedIs, FramesTyped DEF TypeInv
<1>3. WithinInv /\ Validates(f) /\ WellBegun(P) /\ OpenAs(P, fragments)
  BY DEF TextInv, MeaningInv, HeaderInv, LegalInv, OpenInv
<1>4. IsData(f) /\ f.op # "reserved"
  BY <1>3 DEF Validated, Validates, IsData, IsControl
<1>5. CASE ~InPlace(Current)
  BY <1>1, <1>4, <1>5, RefusedBreaks
<1>6. CASE InPlace(Current)
  <2>1. utf8 = Utf8After("accept", Payload(fragments) \o SubSeq(f.body, 1, got))
    BY <1>3, <1>6 DEF WithinInv, Read
  <2>2. Utf8After("accept", Payload(fragments) \o SubSeq(f.body, 1, got + n)) = "reject"
    BY <2>1, BiteRead
  <2>3. got + n \in 0..Len(f.body)
    <3>1. got + n \in Nat /\ got + n <= Len(f.body)
      BY BiteIs
    <3> QED
      BY <1>2, <3>1
  <2>4. Payload(fragments) \in Seq(Bytes)
    BY <1>2, PayloadGrows
  <2>5. ~Utf8Prefix(Payload(fragments) \o f.body)
    <3> DEFINE k == got + n
               p == Payload(fragments)
               b == f.body
    <3>1. k \in 0..Len(b) /\ p \in Seq(Bytes) /\ b \in Seq(Bytes)
          /\ Utf8After("accept", p \o SubSeq(b, 1, k)) = "reject"
      BY <1>2, <2>2, <2>3, <2>4
    <3> HIDE DEF k, p, b
    <3>2. ~Utf8Prefix(p \o b)
      BY <3>1, RejectedIsBroken
    <3> QED
      BY <3>2 DEF p, b
  <2>6. /\ m \in Message /\ m.payload = Payload(fragments) \o f.body
        /\ m.op = IF fragments = <<>> THEN f.op ELSE fragments[1].op
    BY <1>2, BuiltTyped
  <2>7. m.op = "text"
    <3>1. CASE fragments = <<>>
      BY <1>6, <2>6, <3>1 DEF Validated, InPlace
    <3>2. CASE fragments # <<>>
      BY <1>3, <1>6, <2>6, <3>2 DEF Validated, InPlace, WithinInv
    <3> QED
      BY <3>1, <3>2
  <2>8. MessageAt(Append(P, f), Len(P) + 1) = m
    <3>1. f.op = "cont" <=> fragments # <<>>
      BY <1>6 DEF InPlace
    <3> HIDE DEF P, f
    <3> QED
      BY <1>2, <1>3, <1>4, <3>1, DataIn
  <2>9. CASE f.fin
    <3>1. ~MessageIsLegal(m)
      <4> HIDE DEF m
      <4> QED
        BY <2>5, <2>6, <2>7 DEF MessageIsLegal, Utf8Text
    <3> QED
      BY <1>1, <2>6, <2>8, <2>9, <3>1, IllegalBreaks
  <2>10. CASE ~f.fin
    <3>1. OpenText(Append(P, f)) = m.payload
      <4>1. m = Built(Append(fragments, f))
        OBVIOUS
      <4> HIDE DEF P, f, m
      <4> QED
        BY <1>2, <1>4, <2>7, <2>8, <2>10, <4>1, OpenTextIs
    <3>2. ~Utf8Prefix(OpenText(UpTo))
      BY <1>2, <2>5, <2>6, <3>1
    <3> QED
      BY <1>1, <3>2 DEF Breaks
  <2> QED
    BY <2>9, <2>10
<1> QED
  BY <1>5, <1>6

\* A step that raises nothing gives no alarm.
LEMMA AlarmKept ==
  ASSUME AlarmInv, UNCHANGED <<header, error>>, error # "none" /\ Breaks => Breaks'
  PROVE  AlarmInv'
BY DEF AlarmInv

\* A step that raises an error does so for what is there already.
LEMMA AlarmRaised ==
  ASSUME UNCHANGED <<header, sent, done>>, header > MaxHeader \/ Breaks
  PROVE  AlarmInv'
BY DEF AlarmInv, Breaks, UpTo

\* Every step that raises an error has its reason.
LEMMA AlarmStep ==
  ASSUME TypeInv, MeaningInv, TextInv, AlarmInv, [Next]_vars
  PROVE  AlarmInv'
<1> USE DEF parserVars, streamVars
<1>1. SentTypes /\ (stage = "failed" <=> error # "none")
  BY DEF TypeInv, StateTypes
<1>2. ASSUME UNCHANGED <<header, sent, done, error>>
      PROVE  AlarmInv'
  BY <1>2, AlarmKept DEF Breaks, UpTo
<1>3. CASE UNCHANGED vars \/ Terminated \/ Feed
  BY <1>2, <1>3 DEF vars, Terminated, Feed
<1>4. CASE ServerSends
  <2>1. PICK f \in Frames : sent' = Append(sent, f)
    BY <1>4 DEF ServerSends
  <2>2. UNCHANGED <<header, done, error>>
    BY <1>4 DEF ServerSends
  <2>3. Len(sent) \in Nat /\ Len(sent') = Len(sent) + 1 /\ done \in Nat
    BY <1>1, <2>1, AppendProperties DEF SentTypes
  <2>4. ASSUME Breaks
        PROVE  Breaks'
    <3>1. done < Len(sent) /\ UpTo' = UpTo
      BY <1>1, <2>1, <2>2, <2>4, SendKeeps DEF Breaks
    <3>2. done' < Len(sent')
      BY <2>2, <2>3, <3>1
    <3> QED
      BY <2>4, <3>1, <3>2 DEF Breaks
  <2> QED
    BY <2>2, <2>4, AlarmKept
<1>5. CASE ReadResponse
  <2> DEFINE n == Bite(header - got)
  <2>1. UNCHANGED <<header, sent, done>> /\ stage = "response"
    BY <1>5 DEF ReadResponse
  <2>2. UNCHANGED error \/ got + n > MaxHeader
    BY <1>5 DEF ReadResponse
  <2>3. got \in Nat /\ header \in Nat /\ got < header /\ data \in Nat /\ MaxHeader \in Nat
    BY <2>1, FramesTyped, StreamAssumption DEF TypeInv, SentTypes, PlaceInv
  <2>4. n <= header - got /\ n \in Nat
    BY <2>3 DEF Bite
  <2> HIDE DEF n
  <2>5. got + n > MaxHeader => header > MaxHeader
    BY <2>3, <2>4
  <2> QED
    BY <1>2, <2>1, <2>2, <2>5, AlarmRaised
<1>6. CASE ReadFrameHeader
  <2>1. UNCHANGED <<header, sent, done>> /\ stage = "frame" /\ data > 0
    BY <1>6 DEF ReadFrameHeader
  <2>2. UNCHANGED error \/ Current.huge \/ ~Validates(Current)
    BY <1>6 DEF ReadFrameHeader
  <2>3. Current.huge \/ ~Validates(Current) => ~Sound(Current)
    BY DEF Validates, Sound
  <2>4. done < Len(sent)
    BY <2>1, FrameSent
  <2> QED
    BY <1>2, <2>1, <2>2, <2>3, <2>4, RefusedBreaks, AlarmRaised
<1>7. CASE ReadPayload
  <2> DEFINE n == Bite(Len(Current.body) - got)
  <2>1. UNCHANGED <<header, sent, done>> /\ stage = "payload" /\ data > 0
    BY <1>7 DEF ReadPayload
  <2>2. \/ UNCHANGED error
        \/ /\ Validated(Current)
           /\ Utf8After(utf8, SubSeq(Current.body, got + 1, got + n)) = "reject"
    BY <1>7 DEF ReadPayload
  <2> QED
    BY <1>2, <2>1, <2>2, RejectedBreaks, AlarmRaised
<1>8. ASSUME stage = "complete"
      PROVE  /\ done < Len(sent) /\ WellBegun(Parsed) /\ OpenAs(Parsed, fragments)
             /\ Validates(Current) /\ error = "none"
             /\ Parsed \in Seq(FrameRecord) /\ Current \in FrameRecord
             /\ fragments \in Seq(FrameRecord) /\ <<>> \in Seq(FrameRecord)
  <2>1. done < Len(sent) /\ fragments \in Seq(Frames)
    BY <1>8 DEF TypeInv, PlaceInv, MessageTypes
  <2>2. WellBegun(Parsed) /\ OpenAs(Parsed, fragments) /\ Validates(Current)
    BY <1>8 DEF MeaningInv, LegalInv, OpenInv, HeaderInv
  <2> QED
    BY <1>1, <1>8, <2>1, <2>2, ParsedIs, FramesTyped
<1>9. CASE MaskedFrame
  <2>1. stage = "complete" /\ Current.mask /\ UNCHANGED <<header, sent, done>>
    BY <1>9 DEF MaskedFrame
  <2>2. ~Sound(Current)
    BY <2>1 DEF Sound
  <2> QED
    BY <1>8, <2>1, <2>2, RefusedBreaks, AlarmRaised
<1>10. CASE OutOfPlace
  <2>1. /\ stage = "complete" /\ IsData(Current) /\ ~InPlace(Current)
        /\ UNCHANGED <<header, sent, done>>
    BY <1>10 DEF OutOfPlace, IsData
  <2> QED
    BY <1>8, <2>1, RefusedBreaks, AlarmRaised
<1>11. CASE ControlFrame
  <2> DEFINE m == Built(<<Current>>)
  <2>1. stage = "complete" /\ IsControl(Current) /\ Yields(<<Current>>) /\ UNCHANGED <<header, sent>>
    BY <1>11 DEF ControlFrame
  <2>2. m \in Message
    BY <1>8, <2>1, BuiltTyped
  <2>3. MessageAt(Append(Parsed, Current), Len(Parsed) + 1) = m /\ Current.fin
    BY <1>8, <2>1, ControlIn DEF Validates
  <2>4. CASE UNCHANGED done /\ ~MessageIsLegal(m)
    <3>1. Breaks
      <4> HIDE DEF m
      <4> QED
        BY <1>8, <2>1, <2>2, <2>3, <2>4, IllegalBreaks
    <3> QED
      BY <2>1, <2>4, <3>1, AlarmRaised
  <2>5. CASE UNCHANGED error
    BY <1>8, <2>1, <2>5 DEF AlarmInv
  <2> QED
    BY <2>1, <2>2, <2>4, <2>5, YieldsMeans
<1>12. CASE FinalFrame
  <2> DEFINE m == Built(Append(fragments, Current))
  <2>1. /\ stage = "complete" /\ ~IsControl(Current) /\ Current.fin /\ InPlace(Current)
        /\ Yields(Append(fragments, Current)) /\ UNCHANGED <<header, sent>>
    BY <1>12 DEF FinalFrame
  <2>2. m \in Message
    BY <1>8, <2>1, BuiltTyped
  <2>3. MessageAt(Append(Parsed, Current), Len(Parsed) + 1) = m
    <3>1. IsData(Current) /\ Current.op # "reserved" /\ (Current.op = "cont" <=> fragments # <<>>)
      BY <1>8, <2>1 DEF IsData, InPlace, Validates
    <3> QED
      BY <1>8, <2>1, <3>1, DataIn
  <2>4. CASE UNCHANGED done /\ ~MessageIsLegal(m)
    <3>1. Breaks
      <4> HIDE DEF m
      <4> QED
        BY <1>8, <2>1, <2>2, <2>3, <2>4, IllegalBreaks
    <3> QED
      BY <2>1, <2>4, <3>1, AlarmRaised
  <2>5. CASE UNCHANGED error
    BY <1>8, <2>1, <2>5 DEF AlarmInv
  <2> QED
    BY <2>1, <2>2, <2>4, <2>5, YieldsMeans
<1>13. CASE Fragment
  <2>1. stage = "complete" /\ UNCHANGED error
    BY <1>13 DEF Fragment
  <2> QED
    BY <1>8, <2>1 DEF AlarmInv
<1> QED
  BY <1>3, <1>4, <1>5, <1>6, <1>7, <1>9, <1>10, <1>11, <1>12, <1>13 DEF Next

\* And a server that keeps to the rules is never refused, however its stream is cut:
\* in the bites of a text the validator never rejects what the whole text, or what
\* there is of it, would not (frame_parser.py, parse and on_frame; every raise of
\* stream.py and message.py).
THEOREM NoneRefused == Spec => []NoFalseAlarm
<1>1. Init => TypeInv /\ MeaningInv /\ TextInv /\ AlarmInv
  BY TypeInit, MeaningInit, TextInit
<1>2. TypeInv /\ MeaningInv /\ TextInv /\ AlarmInv /\ [Next]_vars
        => TypeInv' /\ MeaningInv' /\ TextInv' /\ AlarmInv'
  BY TypeStep, MeaningStep, TextStep, AlarmStep
<1>3. AlarmInv => NoFalseAlarm
  BY DEF AlarmInv, Breaks, NoFalseAlarm
<1> QED
  BY <1>1, <1>2, <1>3, PTL DEF Spec
===============================================================================
