--------------------------- MODULE ConnectionProofs ---------------------------
(***************************************************************************)
(* A connection from the first address that is tried to its frames, for    *)
(* any number of addresses, any answer of a proxy, any lines of a response *)
(* and any frames.                                                         *)
(*                                                                         *)
(* The loop over the lines of a response is judged by what it has told of  *)
(* the lines so far (Tells): it keeps one value for each name, which a     *)
(* field and its folds go on with (Longer), and at its end that value says *)
(* what the lines say.  Of the attempt to connect, Counted says at every   *)
(* place whether there is a socket in hand, Reaching whom it reaches and   *)
(* for whom it was wrapped by then.  ConnectionInv joins these with        *)
(* WireInv, which the stages before the frames leave alone.                *)
(***************************************************************************)
EXTENDS Connection, WireProofs

-----------------------------------------------------------------------------
(* Values *)

\* What values are searched for.
Tokens == {t \in Text : t # Space /\ t # Comma}

LEMMA Separators == Space \in Text /\ Comma \in Text /\ Space # Comma
<1>1. Space # Comma
  BY DEF Space, Comma
<1> QED
  BY <1>1, UpgradeAssumption DEF UpgradeAssumption

IsStripped(s, v, t) ==
  /\ s = <<t>> <=> Says(v, t)
  /\ Contains(s, t) <=> Contains(v, t)

LEMMA Stripped ==
  ASSUME NEW v, v \in Seq(Text), NEW t, t \in Tokens
  PROVE  IsStripped(Strip(v), v, t)
<1> DEFINE n == Len(v)
           solid == {i \in DOMAIN v : v[i] # Space}
<1>1. n \in Nat /\ DOMAIN v = 1..n /\ \A i \in 1..n : v[i] \in Text
  BY LenProperties
<1>2. t # Space
  BY DEF Tokens
<1>3. \A i \in 1..n : i \in solid <=> v[i] # Space
  BY <1>1
<1>4. solid \subseteq 1..n
  BY <1>1
<1>5. Strip(v) = IF solid = {} THEN <<>> ELSE SubSeq(v, Min(solid), Max(solid))
  BY DEF Strip
<1>6. Says(v, t) <=> \E p \in 1..n : v[p] = t /\ \A q \in 1..n \ {p} : v[q] = Space
  BY <1>1 DEF Says
<1>7. Contains(v, t) <=> \E i \in 1..n : v[i] = t
  BY DEF Contains
<1> HIDE DEF solid
<1>8. CASE solid = {}
  <2>1. \A i \in 1..n : v[i] = Space
    BY <1>3, <1>8
  <2>2. ~Says(v, t) /\ ~Contains(v, t)
    BY <1>2, <1>6, <1>7, <2>1
  <2>3. Strip(v) = <<>> /\ <<>> # <<t>> /\ ~Contains(<<>>, t)
    BY <1>5, <1>8 DEF Contains
  <2> QED
    BY <2>2, <2>3 DEF IsStripped
<1>9. CASE solid # {}
  <2> DEFINE a == Min(solid)
             b == Max(solid)
             s == SubSeq(v, a, b)
  <2>1. a \in solid /\ \A y \in solid : a <= y
    <3>1. solid \subseteq Nat
      BY <1>1, <1>4
    <3>2. \E x \in solid : \A y \in solid : x =< y
      BY <1>9, <3>1, LeastOf
    <3> QED
      BY <3>2 DEF Min
  <2>2. b \in solid /\ \A y \in solid : b >= y
    <3> DEFINE T == {n - x : x \in solid}
    <3>1. T \subseteq Nat /\ T # {}
      <4>1. \A x \in solid : n - x \in Nat
        BY <1>1, <1>4
      <4> QED
        BY <1>9, <4>1
    <3>2. PICK k \in T : \A m \in T : k <= m
      BY <3>1, LeastOf
    <3>3. PICK x \in solid : k = n - x
      BY <3>2
    <3>4. \A y \in solid : n - y \in T /\ n - x <= n - y
      BY <3>2, <3>3
    <3>5. \A y \in solid : x >= y
      BY <1>1, <1>4, <3>4
    <3>6. \E z \in solid : \A y \in solid : z >= y
      BY <3>5
    <3> QED
      BY <3>6 DEF Max
  <2> HIDE DEF a, b
  <2>3. a \in 1..n /\ b \in 1..n /\ a <= b
    BY <1>4, <2>1, <2>2
  <2>4. /\ s \in Seq(Text) /\ Len(s) = b - a + 1
        /\ \A i \in 1..(b - a + 1) : s[i] = v[a + i - 1]
    <3>1. \A i \in a..b : v[i] \in Text
      BY <1>1, <2>3
    <3> QED
      BY <1>1, <2>3, <3>1, SubSeqProperties
  <2> HIDE DEF s
  <2>5. Strip(v) = s
    BY <1>5, <1>9 DEF s, a, b
  <2>6. ASSUME s = <<t>>
        PROVE  Says(v, t)
    <3>1. Len(s) = 1 /\ s[1] = t
      BY <2>6
    <3>2. a = b /\ 1 \in 1..(b - a + 1) /\ a + 1 - 1 = a
      <4>1. b - a + 1 = 1
        BY <2>4, <3>1
      <4> QED
        BY <2>3, <4>1
    <3>3. v[a] = t
      BY <2>4, <3>1, <3>2
    <3>4. ASSUME NEW q \in 1..n \ {a}
          PROVE  v[q] = Space
      <4>1. q \notin solid
        BY <1>1, <2>1, <2>2, <2>3, <3>2
      <4> QED
        BY <1>3, <4>1
    <3> QED
      BY <1>6, <2>3, <3>3, <3>4
  <2>7. ASSUME Says(v, t)
        PROVE  s = <<t>>
    <3>1. PICK p \in 1..n : v[p] = t /\ \A q \in 1..n \ {p} : v[q] = Space
      BY <1>6, <2>7
    <3>2. \A q \in solid : q = p
      BY <1>3, <1>4, <3>1
    <3>3. a = p /\ b = p
      BY <2>1, <2>2, <3>2
    <3>4. Len(s) = 1 /\ s[1] = t
      <4>1. b - a + 1 = 1 /\ a + 1 - 1 = a /\ 1 \in 1..1
        BY <2>3, <3>3
      <4> QED
        BY <2>4, <3>1, <3>3, <4>1
    <3>5. <<t>> \in Seq(Text) /\ Len(<<t>>) = 1 /\ <<t>>[1] = t
      BY DEF Tokens
    <3>6. \A i \in 1..1 : i = 1
      OBVIOUS
    <3>7. \A i \in 1..Len(s) : s[i] = <<t>>[i]
      BY <3>4, <3>5, <3>6
    <3> QED
      BY <2>4, <3>4, <3>5, <3>7, SeqEqual
  <2>8. ASSUME Contains(v, t)
        PROVE  Contains(s, t)
    <3>1. PICK i \in 1..n : v[i] = t
      BY <1>7, <2>8
    <3>2. i \in solid
      BY <1>2, <1>3, <3>1
    <3>3. a <= i /\ i <= b
      BY <2>1, <2>2, <3>2, <1>1, <2>3
    <3> DEFINE j == i - a + 1
    <3>4. j \in 1..(b - a + 1) /\ a + j - 1 = i
      BY <2>3, <3>3
    <3> HIDE DEF j
    <3>5. j \in 1..Len(s) /\ s[j] = t
      BY <2>4, <3>1, <3>4
    <3> QED
      BY <3>5 DEF Contains
  <2>9. ASSUME Contains(s, t)
        PROVE  Contains(v, t)
    <3>1. PICK j \in 1..Len(s) : s[j] = t
      BY <2>9 DEF Contains
    <3>2. a + j - 1 \in 1..n /\ v[a + j - 1] = t
      BY <1>1, <2>3, <2>4, <3>1
    <3> QED
      BY <1>7, <3>2
  <2> QED
    BY <2>5, <2>6, <2>7, <2>8, <2>9 DEF IsStripped
<1> QED
  BY <1>8, <1>9

IsJoined(u, v, w) ==
  /\ u \in Seq(Text) /\ Len(u) = Len(v) + Len(w)
  /\ \A i \in 1..Len(v) : u[i] = v[i]
  /\ \A i \in 1..Len(w) : u[Len(v) + i] = w[i]

LEMMA JoinedText ==
  ASSUME NEW v, v \in Seq(Text), NEW w, w \in Seq(Text)
  PROVE  IsJoined(v \o w, v, w)
BY Joined DEF IsJoined

\* A value that goes on after a separator.
IsLonger(u, v, x, w, t) ==
  /\ u \in Seq(Text)
  /\ Contains(u, t) <=> Contains(v, t) \/ Contains(w, t)
  /\ Silent(u) <=> x = Space /\ Silent(v) /\ Silent(w)
  /\ Says(u, t) <=> x = Space /\ ((Says(v, t) /\ Silent(w)) \/ (Silent(v) /\ Says(w, t)))

LEMMA Longer ==
  ASSUME NEW v, v \in Seq(Text), NEW w, w \in Seq(Text),
         NEW x, x \in {Space, Comma}, NEW t, t \in Tokens
  PROVE  IsLonger((v \o <<x>>) \o w, v, x, w, t)
<1> DEFINE m == Len(v)
           n == Len(w)
           one == <<x>>
           half == v \o one
           u == half \o w
<1>1. /\ m \in Nat /\ n \in Nat /\ DOMAIN v = 1..m /\ DOMAIN w = 1..n
      /\ x \in Text /\ t # Space /\ t # x
  <2>1. x \in Text /\ t # Space /\ t # x
    BY Separators DEF Tokens
  <2> QED
    BY <2>1, LenProperties
<1>2. one \in Seq(Text) /\ Len(one) = 1 /\ one[1] = x
  <2>1. x \in Text
    BY <1>1
  <2> QED
    BY <2>1
<1> HIDE DEF one
<1>3. /\ half \in Seq(Text) /\ Len(half) = m + 1
      /\ \A i \in 1..m : half[i] = v[i]
      /\ half[m + 1] = x
  <2>1. /\ half \in Seq(Text) /\ Len(half) = Len(v) + Len(one)
        /\ \A i \in 1..Len(v) : half[i] = v[i]
        /\ \A i \in 1..Len(one) : half[Len(v) + i] = one[i]
    <3>1. IsJoined(half, v, one)
      BY <1>2, JoinedText
    <3> HIDE DEF half
    <3> QED
      BY <3>1 DEF IsJoined
  <2>2. 1 \in 1..Len(one)
    BY <1>2
  <2> HIDE DEF half
  <2> QED
    BY <1>2, <2>1, <2>2
<1> HIDE DEF half
<1>4. /\ u \in Seq(Text) /\ Len(u) = m + 1 + n
      /\ \A i \in 1..(m + 1) : u[i] = half[i]
      /\ \A i \in 1..n : u[m + 1 + i] = w[i]
  <2>1. /\ u \in Seq(Text) /\ Len(u) = Len(half) + Len(w)
        /\ \A i \in 1..Len(half) : u[i] = half[i]
        /\ \A i \in 1..Len(w) : u[Len(half) + i] = w[i]
    <3>1. IsJoined(u, half, w)
      BY <1>3, JoinedText
    <3> HIDE DEF u
    <3> QED
      BY <3>1 DEF IsJoined
  <2> HIDE DEF u
  <2> QED
    BY <1>1, <1>3, <2>1
<1> HIDE DEF u
<1>5. /\ \A i \in 1..m : i \in 1..(m + 1 + n) /\ u[i] = v[i]
      /\ m + 1 \in 1..(m + 1 + n) /\ u[m + 1] = x
      /\ \A i \in 1..n : m + 1 + i \in 1..(m + 1 + n) /\ u[m + 1 + i] = w[i]
      /\ DOMAIN u = 1..(m + 1 + n)
  BY <1>1, <1>3, <1>4, LenProperties
<1>6. ASSUME NEW i \in 1..(m + 1 + n)
      PROVE  \/ i \in 1..m
             \/ i = m + 1
             \/ \E j \in 1..n : i = m + 1 + j
  <2>1. CASE i > m + 1
    <3>1. i - (m + 1) \in 1..n /\ i = m + 1 + (i - (m + 1))
      BY <1>1, <2>1
    <3> QED
      BY <3>1
  <2>2. CASE ~(i > m + 1)
    BY <1>1, <2>2
  <2> QED
    BY <2>1, <2>2
<1>7. Contains(u, t) <=> Contains(v, t) \/ Contains(w, t)
  <2>1. Contains(u, t) <=> \E i \in 1..(m + 1 + n) : u[i] = t
    BY <1>4 DEF Contains
  <2>2. Contains(v, t) <=> \E i \in 1..m : v[i] = t
    BY DEF Contains
  <2>3. Contains(w, t) <=> \E i \in 1..n : w[i] = t
    BY DEF Contains
  <2> HIDE DEF m, n
  <2>4. ASSUME NEW i \in 1..(m + 1 + n), u[i] = t
        PROVE  Contains(v, t) \/ Contains(w, t)
    <3>1. i # m + 1
      BY <1>1, <1>5, <2>4
    <3>2. CASE i \in 1..m
      BY <1>5, <2>2, <2>4, <3>2
    <3>3. CASE \E j \in 1..n : i = m + 1 + j
      <4>1. PICK j \in 1..n : i = m + 1 + j
        BY <3>3
      <4>2. w[j] = t
        BY <1>5, <2>4, <4>1
      <4> QED
        BY <2>3, <4>2
    <3> QED
      BY <1>6, <3>1, <3>2, <3>3
  <2>5. Contains(v, t) => Contains(u, t)
    BY <1>5, <2>1, <2>2
  <2>6. Contains(w, t) => Contains(u, t)
    BY <1>5, <2>1, <2>3
  <2> QED
    BY <2>1, <2>4, <2>5, <2>6
<1>8. Silent(u) <=> x = Space /\ Silent(v) /\ Silent(w)
  <2> HIDE DEF m, n
  <2>1. /\ Silent(u) <=> \A i \in 1..(m + 1 + n) : u[i] = Space
        /\ Silent(v) <=> \A i \in 1..m : v[i] = Space
        /\ Silent(w) <=> \A i \in 1..n : w[i] = Space
    BY <1>1, <1>5 DEF Silent
  <2>2. Silent(u) => x = Space /\ Silent(v) /\ Silent(w)
    BY <1>5, <2>1
  <2>3. ASSUME x = Space, Silent(v), Silent(w), NEW i \in 1..(m + 1 + n)
        PROVE  u[i] = Space
    <3>1. CASE i \in 1..m
      BY <1>5, <2>1, <2>3, <3>1
    <3>2. CASE \E j \in 1..n : i = m + 1 + j
      <4>1. PICK j \in 1..n : i = m + 1 + j
        BY <3>2
      <4> QED
        BY <1>5, <2>1, <2>3, <4>1
    <3> QED
      BY <1>5, <1>6, <2>3, <3>1, <3>2
  <2> QED
    BY <2>1, <2>2, <2>3
<1>9. ASSUME Says(u, t)
      PROVE  x = Space /\ ((Says(v, t) /\ Silent(w)) \/ (Silent(v) /\ Says(w, t)))
  <2> HIDE DEF m, n
  <2>1. PICK p \in 1..(m + 1 + n) : u[p] = t /\ \A q \in 1..(m + 1 + n) \ {p} : u[q] = Space
    BY <1>5, <1>9 DEF Says
  <2>2. p # m + 1 /\ x = Space
    BY <1>1, <1>5, <2>1
  <2>3. CASE p \in 1..m
    <3>1. v[p] = t /\ \A q \in 1..m \ {p} : v[q] = Space
      BY <1>5, <2>1, <2>3
    <3>2. \A q \in 1..n : m + 1 + q # p
      BY <1>1, <2>3
    <3>3. \A q \in 1..n : w[q] = Space
      BY <1>5, <2>1, <3>2
    <3> QED
      BY <1>1, <2>2, <2>3, <3>1, <3>3 DEF Says, Silent
  <2>4. CASE \E j \in 1..n : p = m + 1 + j
    <3>1. PICK j \in 1..n : p = m + 1 + j
      BY <2>4
    <3>2. w[j] = t
      BY <1>5, <2>1, <3>1
    <3>3. \A q \in 1..n \ {j} : m + 1 + q # p
      BY <1>1, <3>1
    <3>4. \A q \in 1..n \ {j} : w[q] = Space
      BY <1>5, <2>1, <3>3
    <3>5. \A q \in 1..m : q # p
      BY <1>1, <3>1
    <3>6. \A q \in 1..m : v[q] = Space
      BY <1>5, <2>1, <3>5
    <3> QED
      BY <1>1, <2>2, <3>2, <3>4, <3>6 DEF Says, Silent
  <2> QED
    BY <1>6, <2>2, <2>3, <2>4
<1>10. ASSUME x = Space, Says(v, t), Silent(w)
       PROVE  Says(u, t)
  <2> HIDE DEF m, n
  <2>1. PICK p \in 1..m : v[p] = t /\ \A q \in 1..m \ {p} : v[q] = Space
    BY <1>1, <1>10 DEF Says
  <2>2. \A q \in 1..n : w[q] = Space
    BY <1>1, <1>10 DEF Silent
  <2>3. ASSUME NEW q \in 1..(m + 1 + n) \ {p}
        PROVE  u[q] = Space
    BY <1>5, <1>6, <1>10, <2>1, <2>2, <2>3
  <2> QED
    BY <1>5, <2>1, <2>3 DEF Says
<1>11. ASSUME x = Space, Silent(v), Says(w, t)
       PROVE  Says(u, t)
  <2> HIDE DEF m, n
  <2>1. PICK p \in 1..n : w[p] = t /\ \A q \in 1..n \ {p} : w[q] = Space
    BY <1>1, <1>11 DEF Says
  <2>2. \A q \in 1..m : v[q] = Space
    BY <1>1, <1>11 DEF Silent
  <2>3. ASSUME NEW q \in 1..(m + 1 + n) \ {m + 1 + p}
        PROVE  u[q] = Space
    <3>1. CASE q \in 1..m
      BY <1>5, <2>2, <3>1
    <3>2. CASE \E j \in 1..n : q = m + 1 + j
      <4>1. PICK j \in 1..n : q = m + 1 + j
        BY <3>2
      <4>2. w[j] = Space
        BY <2>1, <4>1
      <4> QED
        BY <1>5, <4>1, <4>2
    <3> QED
      BY <1>5, <1>6, <1>11, <3>1, <3>2
  <2>4. m + 1 + p \in 1..(m + 1 + n) /\ u[m + 1 + p] = t
    BY <1>5, <2>1
  <2> QED
    BY <1>5, <2>3, <2>4 DEF Says
<1> QED
  BY <1>4, <1>7, <1>8, <1>9, <1>10, <1>11 DEF IsLonger, u, half, one

-----------------------------------------------------------------------------
(* What the first m lines of a header say *)

\* Line i is the last field so far.
Latest(lines, i, m) ==
  lines[i].kind = "field" /\ \A k \in (i + 1)..m : lines[k].kind # "field"

Once(lines, m, name, i) == \A j \in 1..m : IsField(lines, j, name) <=> j = i

MentionsTo(lines, m, name, t) ==
  \E i, j \in 1..m : /\ IsField(lines, i, name) /\ OfField(lines, i, j)
                     /\ Contains(lines[j].value, t)

SilentTo(lines, m, name) ==
  \E i \in 1..m : /\ Once(lines, m, name, i)
                  /\ \A k \in 1..m : OfField(lines, i, k) => Silent(lines[k].value)

SaysTo(lines, m, name, t) ==
  \E i \in 1..m :
    /\ Once(lines, m, name, i)
    /\ \E j \in 1..m :
         /\ OfField(lines, i, j) /\ Says(lines[j].value, t)
         /\ \A k \in 1..m \ {j} : OfField(lines, i, k) => Silent(lines[k].value)

\* A line that is not of the fields with this name changes nothing about them.
Unmoved(lines, m, name, t) ==
  /\ MentionsTo(lines, m + 1, name, t) <=> MentionsTo(lines, m, name, t)
  /\ SilentTo(lines, m + 1, name) <=> SilentTo(lines, m, name)
  /\ SaysTo(lines, m + 1, name, t) <=> SaysTo(lines, m, name, t)

LEMMA LineElsewhere ==
  ASSUME NEW lines, NEW m, m \in Nat, NEW name, NEW t,
         ~IsField(lines, m + 1, name),
         \A i \in 1..m : IsField(lines, i, name) => ~OfField(lines, i, m + 1)
  PROVE  Unmoved(lines, m, name, t)
<1>1. \A i : i \in 1..(m + 1) <=> i \in 1..m \/ i = m + 1
  OBVIOUS
<1>2. m + 1 \notin 1..m
  OBVIOUS
<1>3. \A i \in 1..m : Once(lines, m + 1, name, i) <=> Once(lines, m, name, i)
  BY <1>1, <1>2 DEF Once
<1>4. ~Once(lines, m + 1, name, m + 1)
  BY <1>1 DEF Once
<1>5. \A i \in 1..m : Once(lines, m, name, i) => ~OfField(lines, i, m + 1)
  BY DEF Once
<1> DEFINE n == m + 1
<1> HIDE DEF n
<1>6. /\ \A i : i \in 1..n <=> i \in 1..m \/ i = n
      /\ n \notin 1..m
      /\ \A i \in 1..m : Once(lines, n, name, i) <=> Once(lines, m, name, i)
      /\ ~Once(lines, n, name, n)
      /\ \A i \in 1..m : Once(lines, m, name, i) => ~OfField(lines, i, n)
      /\ ~IsField(lines, n, name)
      /\ \A i \in 1..m : IsField(lines, i, name) => ~OfField(lines, i, n)
  BY <1>1, <1>2, <1>3, <1>4, <1>5 DEF n
<1>7. MentionsTo(lines, n, name, t) <=> MentionsTo(lines, m, name, t)
  BY <1>6 DEF MentionsTo
<1>8. SilentTo(lines, n, name) <=> SilentTo(lines, m, name)
  BY <1>6 DEF SilentTo
<1>9. SaysTo(lines, n, name, t) <=> SaysTo(lines, m, name, t)
  <2>1. ASSUME SaysTo(lines, m, name, t)
        PROVE  SaysTo(lines, n, name, t)
    BY <1>6, <2>1 DEF SaysTo
  <2>2. ASSUME SaysTo(lines, n, name, t)
        PROVE  SaysTo(lines, m, name, t)
    BY <1>6, <2>2 DEF SaysTo
  <2> QED
    BY <2>1, <2>2
<1> QED
  BY <1>7, <1>8, <1>9 DEF n, Unmoved

\* A fold of the field with this name.
Continued(lines, m, name, t) ==
  LET v == lines[m + 1].value
  IN  /\ MentionsTo(lines, m + 1, name, t) <=> MentionsTo(lines, m, name, t) \/ Contains(v, t)
      /\ SilentTo(lines, m + 1, name) <=> SilentTo(lines, m, name) /\ Silent(v)
      /\ SaysTo(lines, m + 1, name, t) <=>
           \/ SaysTo(lines, m, name, t) /\ Silent(v)
           \/ SilentTo(lines, m, name) /\ Says(v, t)

LEMMA LineContinues ==
  ASSUME NEW lines, NEW m, m \in Nat, NEW name, NEW t, t # Space,
         ~IsField(lines, m + 1, name),
         NEW c, c \in 1..m, IsField(lines, c, name), OfField(lines, c, m + 1)
  PROVE  Continued(lines, m, name, t)
<1> DEFINE n == m + 1
           v == lines[n].value
<1>1. /\ \A i : i \in 1..n <=> i \in 1..m \/ i = n
      /\ n \notin 1..m
  OBVIOUS
<1>2. ~IsField(lines, n, name) /\ OfField(lines, c, n)
  OBVIOUS
<1>3. /\ \A i \in 1..m : Once(lines, n, name, i) <=> Once(lines, m, name, i)
      /\ ~Once(lines, n, name, n)
      /\ \A i \in 1..m : Once(lines, m, name, i) => i = c
  BY <1>1, <1>2 DEF Once
<1>4. \A w : Says(w, t) => ~Silent(w)
  BY DEF Says, Silent
<1> HIDE DEF n
<1>5. MentionsTo(lines, n, name, t) <=> MentionsTo(lines, m, name, t) \/ Contains(v, t)
  <2>1. ASSUME MentionsTo(lines, n, name, t)
        PROVE  MentionsTo(lines, m, name, t) \/ Contains(v, t)
    BY <1>1, <1>2, <2>1 DEF MentionsTo
  <2>2. MentionsTo(lines, m, name, t) => MentionsTo(lines, n, name, t)
    BY <1>1 DEF MentionsTo
  <2>3. Contains(v, t) => MentionsTo(lines, n, name, t)
    BY <1>1, <1>2 DEF MentionsTo
  <2> QED
    BY <2>1, <2>2, <2>3
<1> DEFINE Quiet(p) == \A k \in 1..p : OfField(lines, c, k) => Silent(lines[k].value)
           Speaks(p) == \E j \in 1..p :
             /\ OfField(lines, c, j) /\ Says(lines[j].value, t)
             /\ \A k \in 1..p \ {j} : OfField(lines, c, k) => Silent(lines[k].value)
<1>6. /\ SilentTo(lines, m, name) <=> Once(lines, m, name, c) /\ Quiet(m)
      /\ SilentTo(lines, n, name) <=> Once(lines, m, name, c) /\ Quiet(n)
      /\ SaysTo(lines, m, name, t) <=> Once(lines, m, name, c) /\ Speaks(m)
      /\ SaysTo(lines, n, name, t) <=> Once(lines, m, name, c) /\ Speaks(n)
  <2>1. SilentTo(lines, m, name) <=> Once(lines, m, name, c) /\ Quiet(m)
    BY <1>3 DEF SilentTo
  <2>2. SilentTo(lines, n, name) <=> Once(lines, m, name, c) /\ Quiet(n)
    BY <1>1, <1>3 DEF SilentTo
  <2>3. SaysTo(lines, m, name, t) <=> Once(lines, m, name, c) /\ Speaks(m)
    BY <1>3 DEF SaysTo
  <2>4. SaysTo(lines, n, name, t) <=> Once(lines, m, name, c) /\ Speaks(n)
    <3>1. SaysTo(lines, n, name, t) => Once(lines, m, name, c) /\ Speaks(n)
      BY <1>1, <1>3 DEF SaysTo
    <3>2. Once(lines, m, name, c) /\ Speaks(n) => SaysTo(lines, n, name, t)
      BY <1>1, <1>3 DEF SaysTo
    <3> QED
      BY <3>1, <3>2
  <2> QED
    BY <2>1, <2>2, <2>3, <2>4
<1>7. Quiet(n) <=> Quiet(m) /\ Silent(v)
  BY <1>1, <1>2
<1>8. Speaks(n) <=> (Speaks(m) /\ Silent(v)) \/ (Quiet(m) /\ Says(v, t))
  <2>1. ASSUME NEW j \in 1..n, OfField(lines, c, j), Says(lines[j].value, t),
               \A k \in 1..n \ {j} : OfField(lines, c, k) => Silent(lines[k].value)
        PROVE  (Speaks(m) /\ Silent(v)) \/ (Quiet(m) /\ Says(v, t))
    <3>1. CASE j = n
      BY <1>1, <2>1, <3>1
    <3>2. CASE j \in 1..m
      BY <1>1, <1>2, <2>1, <3>2
    <3> QED
      BY <1>1, <3>1, <3>2
  <2>2. Speaks(m) /\ Silent(v) => Speaks(n)
    BY <1>1, <1>2, <1>4
  <2>3. Quiet(m) /\ Says(v, t) => Speaks(n)
    BY <1>1, <1>2
  <2> QED
    BY <2>1, <2>2, <2>3
<1> HIDE DEF Quiet, Speaks, v
<1>9. SilentTo(lines, n, name) <=> SilentTo(lines, m, name) /\ Silent(v)
  BY <1>6, <1>7
<1>10. SaysTo(lines, n, name, t) <=>
         (SaysTo(lines, m, name, t) /\ Silent(v)) \/ (SilentTo(lines, m, name) /\ Says(v, t))
  BY <1>6, <1>8
<1> QED
  BY <1>5, <1>9, <1>10 DEF n, v, Continued

\* One more field with this name.
Started(lines, m, name, t) ==
  LET v == lines[m + 1].value
      first == \A i \in 1..m : ~IsField(lines, i, name)
  IN  /\ MentionsTo(lines, m + 1, name, t) <=> MentionsTo(lines, m, name, t) \/ Contains(v, t)
      /\ SilentTo(lines, m + 1, name) <=> first /\ Silent(v)
      /\ SaysTo(lines, m + 1, name, t) <=> first /\ Says(v, t)

LEMMA LineStarts ==
  ASSUME NEW lines, NEW m, m \in Nat, NEW name, NEW t,
         IsField(lines, m + 1, name)
  PROVE  Started(lines, m, name, t)
<1> DEFINE n == m + 1
           v == lines[n].value
           first == \A i \in 1..m : ~IsField(lines, i, name)
<1>1. /\ \A i : i \in 1..n <=> i \in 1..m \/ i = n
      /\ n \notin 1..m
  OBVIOUS
<1>2. IsField(lines, n, name)
  OBVIOUS
<1>3. \A j \in 1..m : ~OfField(lines, n, j) /\ ~OfField(lines, j, n)
  BY DEF OfField, IsField
<1>4. OfField(lines, n, n)
  BY DEF OfField
<1> HIDE DEF n
<1>5. /\ \A i \in 1..m : ~Once(lines, n, name, i)
      /\ Once(lines, n, name, n) <=> first
  BY <1>1, <1>2 DEF Once
<1>6. MentionsTo(lines, n, name, t) <=> MentionsTo(lines, m, name, t) \/ Contains(v, t)
  <2>1. ASSUME MentionsTo(lines, n, name, t)
        PROVE  MentionsTo(lines, m, name, t) \/ Contains(v, t)
    BY <1>1, <1>2, <1>3, <2>1 DEF MentionsTo
  <2>2. MentionsTo(lines, m, name, t) => MentionsTo(lines, n, name, t)
    BY <1>1 DEF MentionsTo
  <2>3. Contains(v, t) => MentionsTo(lines, n, name, t)
    BY <1>1, <1>2, <1>4 DEF MentionsTo
  <2> QED
    BY <2>1, <2>2, <2>3
<1>7. SilentTo(lines, n, name) <=> first /\ Silent(v)
  BY <1>1, <1>3, <1>4, <1>5 DEF SilentTo
<1>8. SaysTo(lines, n, name, t) <=> first /\ Says(v, t)
  <2>1. ASSUME SaysTo(lines, n, name, t)
        PROVE  first /\ Says(v, t)
    BY <1>1, <1>3, <1>5, <2>1 DEF SaysTo
  <2>2. ASSUME first, Says(v, t)
        PROVE  SaysTo(lines, n, name, t)
    BY <1>1, <1>3, <1>4, <1>5, <2>2 DEF SaysTo
  <2> QED
    BY <2>1, <2>2
<1> QED
  BY <1>6, <1>7, <1>8 DEF n, v, Started

-----------------------------------------------------------------------------
(* The loop over the lines *)

\* The states of a Response that is being read.
HeaderStates ==
  [header : Text, headers : UNION {[D -> Seq(Text)] : D \in SUBSET Text}]

IsState(r) ==
  /\ r.header \in Text
  /\ DOMAIN r.headers \subseteq Text
  /\ \A n \in DOMAIN r.headers : r.headers[n] \in Seq(Text)

LEMMA HeaderState ==
  ASSUME NEW r, r \in HeaderStates
  PROVE  IsState(r)
<1>1. r.header \in Text
  BY DEF HeaderStates
<1>2. r.headers \in UNION {[D -> Seq(Text)] : D \in SUBSET Text}
  BY DEF HeaderStates
<1>3. PICK D \in SUBSET Text : r.headers \in [D -> Seq(Text)]
  BY <1>2
<1>4. DOMAIN r.headers = D /\ \A n \in D : r.headers[n] \in Seq(Text)
  BY <1>3
<1> QED
  BY <1>1, <1>4 DEF IsState

LEMMA HeaderStateMade ==
  ASSUME NEW h, h \in Text, NEW D, D \subseteq Text, NEW g, g \in [D -> Seq(Text)]
  PROVE  [header |-> h, headers |-> g] \in HeaderStates
<1>1. g \in UNION {[E -> Seq(Text)] : E \in SUBSET Text}
  OBVIOUS
<1> QED
  BY <1>1 DEF HeaderStates

LEMMA JoinTyped ==
  ASSUME NEW v, v \in Seq(Text), NEW w, w \in Seq(Text), NEW x, x \in {Space, Comma}
  PROVE  (v \o <<x>>) \o w \in Seq(Text)
<1>1. <<x>> \in Seq(Text)
  BY Separators
<1> DEFINE one == <<x>>
<1> HIDE DEF one
<1>2. one \in Seq(Text)
  BY <1>1 DEF one
<1>3. v \o one \in Seq(Text)
  BY <1>2, Joined
<1> DEFINE half == v \o one
<1> HIDE DEF half
<1>4. half \o w \in Seq(Text)
  BY <1>3, Joined DEF half
<1> QED
  BY <1>4 DEF half, one

\* What a line does to the headers before it.
StepsTo(r, L, s) ==
  /\ L.kind = "blank" => s = r
  /\ L.kind = "fold" =>
       /\ s.header = r.header /\ DOMAIN s.headers = DOMAIN r.headers
       /\ \A n \in DOMAIN r.headers :
            s.headers[n] = IF n = r.header /\ n # "" THEN (r.headers[n] \o <<Space>>) \o L.value
                           ELSE r.headers[n]
  /\ L.kind = "field" =>
       /\ s.header = L.name /\ DOMAIN s.headers = DOMAIN r.headers \cup {L.name}
       /\ L.name \in DOMAIN r.headers =>
            s.headers[L.name] = (r.headers[L.name] \o <<Comma>>) \o L.value
       /\ L.name \notin DOMAIN r.headers => s.headers[L.name] = L.value
       /\ \A n \in DOMAIN r.headers \ {L.name} : s.headers[n] = r.headers[n]

LEMMA LineParsed ==
  ASSUME NEW r, r \in HeaderStates, NEW L, L \in Line
  PROVE  ParseLine(r, L) \in HeaderStates /\ StepsTo(r, L, ParseLine(r, L))
<1> DEFINE D == DOMAIN r.headers
<1>1. /\ L.kind \in {"blank", "fold", "field"}
      /\ L.name \in Text /\ L.value \in Seq(Text)
  BY DEF Line
<1>2. /\ r.header \in Text /\ D \subseteq Text
      /\ \A n \in D : r.headers[n] \in Seq(Text)
  BY HeaderState DEF IsState
<1>3. r = [header |-> r.header, headers |-> r.headers]
  BY DEF HeaderStates
<1>4. r.headers = [n \in D |-> r.headers[n]]
  <2>1. r.headers \in UNION {[E -> Seq(Text)] : E \in SUBSET Text}
    BY DEF HeaderStates
  <2> QED
    BY <2>1
<1>5. CASE L.kind = "blank"
  BY <1>5 DEF ParseLine, StepsTo
<1>6. CASE L.kind = "fold" /\ r.header = ""
  <2>1. ParseLine(r, L) = r
    BY <1>6 DEF ParseLine
  <2> QED
    BY <1>6, <2>1 DEF StepsTo
<1>7. CASE L.kind = "fold" /\ r.header # ""
  <2> DEFINE g == [n \in D |-> IF n = r.header THEN (r.headers[n] \o <<Space>>) \o L.value
                               ELSE r.headers[n]]
             s == [header |-> r.header, headers |-> g]
  <2>1. ParseLine(r, L) = [r EXCEPT !.headers[r.header] = (@ \o <<Space>>) \o L.value]
    BY <1>7 DEF ParseLine
  <2>2. [r.headers EXCEPT ![r.header] = (@ \o <<Space>>) \o L.value] = g
    BY <1>4
  <2>3. ParseLine(r, L) = s
    BY <1>3, <2>1, <2>2
  <2>4. g \in [D -> Seq(Text)]
    BY <1>1, <1>2, JoinTyped
  <2> HIDE DEF g
  <2>5. s \in HeaderStates
    BY <1>2, <2>4, HeaderStateMade
  <2>6. /\ s.header = r.header /\ DOMAIN s.headers = D
        /\ \A n \in D : s.headers[n] = IF n = r.header THEN (r.headers[n] \o <<Space>>) \o L.value
                                       ELSE r.headers[n]
    BY DEF g
  <2> HIDE DEF s
  <2> QED
    BY <1>7, <2>3, <2>5, <2>6 DEF StepsTo
<1>8. CASE L.kind = "field"
  <2> DEFINE before(n) == IF n \in D THEN r.headers[n] \o <<Comma>> ELSE <<>>
             E == D \cup {L.name}
             g == [n \in E |-> IF n = L.name THEN before(n) \o L.value ELSE r.headers[n]]
             s == [header |-> L.name, headers |-> g]
  <2>1. ParseLine(r, L) = s
    BY <1>8 DEF ParseLine
  <2>2. before(L.name) \o L.value = IF L.name \in D THEN (r.headers[L.name] \o <<Comma>>) \o L.value
                                    ELSE L.value
    BY <1>1, ConcatEmptySeq
  <2>3. before(L.name) \o L.value \in Seq(Text)
    BY <1>1, <1>2, <2>2, JoinTyped
  <2>4. DOMAIN g = E /\ g[L.name] = before(L.name) \o L.value
        /\ \A n \in D \ {L.name} : g[n] = r.headers[n]
    OBVIOUS
  <2> HIDE DEF before
  <2>5. g \in [E -> Seq(Text)]
    BY <1>2, <2>3
  <2> HIDE DEF g
  <2>6. E \subseteq Text
    BY <1>1, <1>2
  <2>7. s \in HeaderStates
    BY <1>1, <2>5, <2>6, HeaderStateMade
  <2>8. s.header = L.name /\ s.headers = g
    OBVIOUS
  <2> HIDE DEF s
  <2> QED
    BY <1>8, <2>1, <2>2, <2>4, <2>7, <2>8 DEF StepsTo
<1> QED
  BY <1>1, <1>5, <1>6, <1>7, <1>8

\* The states of the loop.
Parses(q, lines) ==
  q = [i \in 0..Len(lines) |-> IF i = 0 THEN NoHeaders ELSE ParseLine(q[i - 1], lines[i])]

IsParsed(q, lines) ==
  /\ q[0] = NoHeaders
  /\ \A i \in 0..Len(lines) : q[i] \in HeaderStates
  /\ \A i \in 1..Len(lines) : StepsTo(q[i - 1], lines[i], q[i])
  /\ Parsed(lines) = q[Len(lines)]

LEMMA ParsedIs ==
  ASSUME NEW lines, lines \in Seq(Line)
  PROVE  \E q : IsParsed(q, lines)
<1> DEFINE N == Len(lines)
           f == [i \in 1..N |-> [s \in HeaderStates |-> ParseLine(s, lines[i])]]
<1>1. N \in Nat /\ \A i \in 1..N : lines[i] \in Line
  BY LenProperties
<1> HIDE DEF N
<1>2. NoHeaders \in HeaderStates
  <2>1. "" \in Text
    BY UpgradeAssumption DEF UpgradeAssumption
  <2>2. [n \in {} |-> <<>>] \in [{} -> Seq(Text)]
    OBVIOUS
  <2> QED
    BY <2>1, <2>2, HeaderStateMade DEF NoHeaders
<1>3. \A i \in 1..N : \A s \in HeaderStates :
        f[i][s] = ParseLine(s, lines[i]) /\ f[i][s] \in HeaderStates
  BY <1>1, LineParsed
<1> HIDE DEF f
<1>4. PICK p : Runs(p, N, f, NoHeaders, HeaderStates)
  BY <1>1, <1>2, <1>3, RunExists
<1>5. Parses(p, lines)
  <2>1. p = [i \in 0..N |-> p[i]]
    BY <1>4, Zenon DEF Runs
  <2>2. p[0] = NoHeaders /\ \A i \in 0..N : p[i] \in HeaderStates
    BY <1>4, Zenon DEF Runs
  <2>3. \A i \in 1..N : i - 1 \in 0..N
    BY <1>1
  <2>4. \A i \in 1..N : p[i] = ParseLine(p[i - 1], lines[i])
    BY <1>3, <1>4, <2>2, <2>3, Zenon DEF Runs
  <2>5. \A i \in 0..N : i = 0 \/ i \in 1..N
    BY <1>1
  <2>6. \A i \in 1..N : i # 0
    BY <1>1
  <2> DEFINE now == [i \in 0..N |-> IF i = 0 THEN NoHeaders ELSE ParseLine(p[i - 1], lines[i])]
  <2>7. \A i \in 0..N : p[i] = IF i = 0 THEN NoHeaders ELSE ParseLine(p[i - 1], lines[i])
    BY <2>2, <2>4, <2>5, <2>6, Zenon
  <2>8. p = now
    BY <2>1, <2>7, Zenon
  <2> QED
    BY <2>8 DEF Parses, N
<1> DEFINE q == CHOOSE q : Parses(q, lines)
<1>6. Parsed(lines) = q[Len(lines)]
  BY DEF Parsed, Parses
<1>7. Parses(q, lines)
  BY <1>5, Zenon
<1> HIDE DEF q
<1>8. q = [i \in 0..N |-> IF i = 0 THEN NoHeaders ELSE ParseLine(q[i - 1], lines[i])]
  BY <1>7 DEF Parses, N
<1>9. \A i \in 1..N : i \in 0..N /\ i # 0
  BY <1>1
<1>10. 0 \in 0..N
  BY <1>1
<1>11. q[0] = NoHeaders
  BY <1>8, <1>10, Zenon
<1>12. \A i \in 1..N : q[i] = ParseLine(q[i - 1], lines[i])
  BY <1>8, <1>9, Zenon
<1> DEFINE Holds == {i \in 0..N : q[i] \in HeaderStates}
<1>13. 0 \in Holds
  BY <1>2, <1>10, <1>11
<1>14. ASSUME NEW i \in 0..N, i \in Holds, i < N
       PROVE  i + 1 \in Holds
  <2>1. i + 1 \in 1..N /\ i + 1 \in 0..N /\ (i + 1) - 1 = i
    BY <1>1, <1>14
  <2>2. q[i + 1] = ParseLine(q[i], lines[i + 1])
    BY <1>12, <2>1
  <2>3. q[i] \in HeaderStates /\ lines[i + 1] \in Line
    BY <1>1, <1>14, <2>1
  <2>4. q[i + 1] \in HeaderStates
    BY <2>2, <2>3, LineParsed
  <2> QED
    BY <2>1, <2>4
<1> HIDE DEF Holds
<1>15. \A i \in 0..N : i \in Holds
  BY <1>1, <1>13, <1>14, UpTo
<1>16. \A i \in 0..N : q[i] \in HeaderStates
  BY <1>15 DEF Holds
<1>17. ASSUME NEW i \in 1..N
       PROVE  StepsTo(q[i - 1], lines[i], q[i])
  <2>1. i - 1 \in 0..N
    BY <1>1
  <2>2. q[i - 1] \in HeaderStates /\ lines[i] \in Line /\ q[i] = ParseLine(q[i - 1], lines[i])
    BY <1>1, <1>12, <1>16, <2>1
  <2> QED
    BY <2>2, LineParsed
<1> QED
  BY <1>6, <1>11, <1>16, <1>17 DEF IsParsed, N

-----------------------------------------------------------------------------
(* What the headers tell of the lines *)

Named(name) == name # ""

\* Of a name, after the first m lines.
Tells(lines, m, r, name, t) ==
  /\ r.header = name <=> \E i \in 1..m : Latest(lines, i, m) /\ lines[i].name = name
  /\ name \in DOMAIN r.headers <=> \E i \in 1..m : IsField(lines, i, name)
  /\ name \in DOMAIN r.headers =>
       /\ Contains(r.headers[name], t) <=> MentionsTo(lines, m, name, t)
       /\ Silent(r.headers[name]) <=> SilentTo(lines, m, name)
       /\ Says(r.headers[name], t) <=> SaysTo(lines, m, name, t)

LEMMA TellsNone ==
  ASSUME NEW lines, NEW name, Named(name), NEW t
  PROVE  Tells(lines, 0, NoHeaders, name, t)
<1>1. 1..0 = {}
  OBVIOUS
<1>2. NoHeaders.header = "" /\ DOMAIN NoHeaders.headers = {}
  BY DEF NoHeaders
<1> QED
  BY <1>1, <1>2 DEF Tells, Named

\* The field that a line belongs to is the last one.
LEMMA LatestAfter ==
  ASSUME NEW lines, NEW m, m \in Nat, NEW i, i \in 1..m
  PROVE  /\ OfField(lines, i, m + 1) /\ lines[i].kind = "field" =>
              Latest(lines, i, m) /\ lines[m + 1].kind = "fold"
         /\ Latest(lines, i, m) /\ lines[m + 1].kind = "fold" => OfField(lines, i, m + 1)
         /\ Latest(lines, i, m + 1) <=> Latest(lines, i, m) /\ lines[m + 1].kind # "field"
<1>1. /\ \A k : k \in (i + 1)..(m + 1) <=> k \in (i + 1)..m \/ k = m + 1
      /\ i < m + 1 /\ i # m + 1
  OBVIOUS
<1> DEFINE n == m + 1
<1> HIDE DEF n
<1>2. /\ \A k : k \in (i + 1)..n <=> k \in (i + 1)..m \/ k = n
      /\ i < n /\ n # i
  BY <1>1 DEF n
<1>3. OfField(lines, i, n) /\ lines[i].kind = "field" =>
        Latest(lines, i, m) /\ lines[n].kind = "fold"
  BY <1>2 DEF OfField, Latest
<1>4. Latest(lines, i, m) /\ lines[n].kind = "fold" => OfField(lines, i, n)
  BY <1>2 DEF OfField, Latest
<1>5. Latest(lines, i, n) <=> Latest(lines, i, m) /\ lines[n].kind # "field"
  BY <1>2 DEF Latest
<1> QED
  BY <1>3, <1>4, <1>5 DEF n

LEMMA TellsNext ==
  ASSUME NEW lines, NEW m, m \in Nat, lines[m + 1] \in Line,
         NEW r, r \in HeaderStates, NEW s, StepsTo(r, lines[m + 1], s),
         NEW name, Named(name), NEW t, t \in Tokens,
         Tells(lines, m, r, name, t)
  PROVE  Tells(lines, m + 1, s, name, t)
<1> DEFINE n == m + 1
           L == lines[n]
           v == r.headers[name]
<1>1. L.kind \in {"blank", "fold", "field"} /\ L.value \in Seq(Text)
  BY DEF Line
<1>2. name \in DOMAIN r.headers => v \in Seq(Text)
  BY HeaderState DEF IsState
<1>3. /\ \A i : i \in 1..n <=> i \in 1..m \/ i = n
      /\ n \notin 1..m /\ n \in 1..n
  OBVIOUS
<1>4. \A i \in 1..m :
        /\ OfField(lines, i, n) /\ lines[i].kind = "field" =>
             Latest(lines, i, m) /\ L.kind = "fold"
        /\ Latest(lines, i, m) /\ L.kind = "fold" => OfField(lines, i, n)
        /\ Latest(lines, i, n) <=> Latest(lines, i, m) /\ L.kind # "field"
  BY LatestAfter
<1>5. Latest(lines, n, n) <=> L.kind = "field"
  <2>1. (n + 1)..n = {}
    OBVIOUS
  <2> QED
    BY <2>1 DEF Latest
<1>6. Space \in {Space, Comma} /\ Comma \in {Space, Comma} /\ Space # Comma /\ t # Space
  BY Separators DEF Tokens
<1>7. StepsTo(r, L, s)
  OBVIOUS
<1>8. Tells(lines, m, r, name, t)
  OBVIOUS
<1>9. ASSUME ~IsField(lines, n, name),
             \A i \in 1..m : IsField(lines, i, name) => ~OfField(lines, i, n)
      PROVE  Unmoved(lines, m, name, t)
  BY <1>9, LineElsewhere
<1>10. IsField(lines, n, name) <=> L.kind = "field" /\ L.name = name
  BY DEF IsField
<1>11. CASE L.kind = "blank"
  <2>1. s = r
    BY <1>7, <1>11 DEF StepsTo
  <2>2. Unmoved(lines, m, name, t)
    BY <1>4, <1>9, <1>10, <1>11 DEF IsField
  <2>3. \A i \in 1..n : Latest(lines, i, n) <=> i \in 1..m /\ Latest(lines, i, m)
    BY <1>3, <1>4, <1>5, <1>11
  <2>4. \A i \in 1..n : IsField(lines, i, name) => i \in 1..m
    BY <1>3, <1>10, <1>11
  <2> HIDE DEF n
  <2>5. s.header = name <=> \E i \in 1..n : Latest(lines, i, n) /\ lines[i].name = name
    BY <1>3, <1>8, <2>1, <2>3 DEF Tells
  <2>6. name \in DOMAIN s.headers <=> \E i \in 1..n : IsField(lines, i, name)
    BY <1>3, <1>8, <2>1, <2>4 DEF Tells
  <2>7. name \in DOMAIN s.headers =>
          /\ Contains(s.headers[name], t) <=> MentionsTo(lines, n, name, t)
          /\ Silent(s.headers[name]) <=> SilentTo(lines, n, name)
          /\ Says(s.headers[name], t) <=> SaysTo(lines, n, name, t)
    BY <1>8, <2>1, <2>2 DEF Tells, Unmoved, n
  <2> QED
    BY <2>5, <2>6, <2>7 DEF Tells, n
<1>12. CASE L.kind = "fold"
  <2>1. /\ s.header = r.header /\ DOMAIN s.headers = DOMAIN r.headers
        /\ \A x \in DOMAIN r.headers :
             s.headers[x] = IF x = r.header /\ x # "" THEN (r.headers[x] \o <<Space>>) \o L.value
                            ELSE r.headers[x]
    BY <1>7, <1>12 DEF StepsTo
  <2>2. ~IsField(lines, n, name)
    BY <1>10, <1>12
  <2>3. \A i \in 1..n : Latest(lines, i, n) <=> i \in 1..m /\ Latest(lines, i, m)
    BY <1>3, <1>4, <1>5, <1>12
  <2>4. \A i \in 1..n : IsField(lines, i, name) => i \in 1..m
    BY <1>3, <2>2
  <2>5. s.header = name <=> \E i \in 1..n : Latest(lines, i, n) /\ lines[i].name = name
    BY <1>3, <1>8, <2>1, <2>3, Zenon DEF Tells
  <2>6. name \in DOMAIN s.headers <=> \E i \in 1..n : IsField(lines, i, name)
    BY <1>3, <1>8, <2>1, <2>4, Zenon DEF Tells
  <2>7. CASE r.header # name
    <3>1. Unmoved(lines, m, name, t)
      <4>1. ASSUME NEW i \in 1..m, IsField(lines, i, name), OfField(lines, i, n)
            PROVE  FALSE
        <5>1. Latest(lines, i, m) /\ lines[i].name = name
          BY <1>4, <4>1 DEF IsField
        <5> QED
          BY <1>8, <2>7, <5>1 DEF Tells
      <4> QED
        BY <1>9, <2>2, <4>1
    <3>2. name \in DOMAIN r.headers => s.headers[name] = r.headers[name]
      BY <2>1, <2>7
    <3>3. name \in DOMAIN s.headers =>
            /\ Contains(s.headers[name], t) <=> MentionsTo(lines, n, name, t)
            /\ Silent(s.headers[name]) <=> SilentTo(lines, n, name)
            /\ Says(s.headers[name], t) <=> SaysTo(lines, n, name, t)
      BY <1>8, <2>1, <3>1, <3>2 DEF Tells, Unmoved
    <3> QED
      BY <2>5, <2>6, <3>3 DEF Tells
  <2>8. CASE r.header = name
    <3>1. PICK c \in 1..m : Latest(lines, c, m) /\ lines[c].name = name
      BY <1>8, <2>8 DEF Tells
    <3>2. IsField(lines, c, name) /\ OfField(lines, c, n)
      BY <1>4, <1>12, <3>1 DEF Latest, IsField
    <3>3. Continued(lines, m, name, t)
      BY <1>6, <2>2, <3>2, LineContinues
    <3>4. name \in DOMAIN r.headers
      BY <1>8, <3>2 DEF Tells
    <3>5. s.headers[name] = (v \o <<Space>>) \o L.value
      BY <2>1, <2>8, <3>4 DEF Named
    <3>6. IsLonger((v \o <<Space>>) \o L.value, v, Space, L.value, t)
      BY <1>1, <1>2, <1>6, <3>4, Longer
    <3>7. /\ Contains(v, t) <=> MentionsTo(lines, m, name, t)
          /\ Silent(v) <=> SilentTo(lines, m, name)
          /\ Says(v, t) <=> SaysTo(lines, m, name, t)
      BY <1>8, <3>4 DEF Tells
    <3>8. /\ Contains(s.headers[name], t) <=> MentionsTo(lines, n, name, t)
          /\ Silent(s.headers[name]) <=> SilentTo(lines, n, name)
          /\ Says(s.headers[name], t) <=> SaysTo(lines, n, name, t)
      BY <3>3, <3>5, <3>6, <3>7 DEF Continued, IsLonger
    <3> QED
      BY <2>5, <2>6, <3>8 DEF Tells
  <2> QED
    BY <2>7, <2>8
<1>13. CASE L.kind = "field"
  <2>1. /\ s.header = L.name /\ DOMAIN s.headers = DOMAIN r.headers \cup {L.name}
        /\ L.name \in DOMAIN r.headers =>
             s.headers[L.name] = (r.headers[L.name] \o <<Comma>>) \o L.value
        /\ L.name \notin DOMAIN r.headers => s.headers[L.name] = L.value
        /\ \A x \in DOMAIN r.headers \ {L.name} : s.headers[x] = r.headers[x]
    BY <1>7, <1>13 DEF StepsTo
  <2>2. \A i \in 1..n : Latest(lines, i, n) <=> i = n
    BY <1>3, <1>4, <1>5, <1>13
  <2>3. s.header = name <=> \E i \in 1..n : Latest(lines, i, n) /\ lines[i].name = name
    BY <1>3, <2>1, <2>2, Zenon
  <2>4. name \in DOMAIN s.headers <=> \E i \in 1..n : IsField(lines, i, name)
    <3>1. (\E i \in 1..n : IsField(lines, i, name)) <=>
            (\E i \in 1..m : IsField(lines, i, name)) \/ L.name = name
      BY <1>3, <1>10, <1>13, Zenon
    <3>2. name \in DOMAIN r.headers <=> \E i \in 1..m : IsField(lines, i, name)
      BY <1>8, Zenon DEF Tells
    <3> QED
      BY <2>1, <3>1, <3>2
  <2>5. CASE L.name # name
    <3>1. Unmoved(lines, m, name, t)
      BY <1>4, <1>9, <1>10, <1>13, <2>5 DEF IsField
    <3>2. name \in DOMAIN s.headers => name \in DOMAIN r.headers /\ s.headers[name] = r.headers[name]
      BY <2>1, <2>5
    <3>3. name \in DOMAIN s.headers =>
            /\ Contains(s.headers[name], t) <=> MentionsTo(lines, n, name, t)
            /\ Silent(s.headers[name]) <=> SilentTo(lines, n, name)
            /\ Says(s.headers[name], t) <=> SaysTo(lines, n, name, t)
      BY <1>8, <3>1, <3>2 DEF Tells, Unmoved
    <3> QED
      BY <2>3, <2>4, <3>3 DEF Tells
  <2>6. CASE L.name = name
    <3> DEFINE first == \A i \in 1..m : ~IsField(lines, i, name)
    <3>1. Started(lines, m, name, t)
      BY <1>10, <1>13, <2>6, LineStarts
    <3>2. /\ MentionsTo(lines, n, name, t) <=> MentionsTo(lines, m, name, t) \/ Contains(L.value, t)
          /\ SilentTo(lines, n, name) <=> first /\ Silent(L.value)
          /\ SaysTo(lines, n, name, t) <=> first /\ Says(L.value, t)
      BY <3>1 DEF Started
    <3>3. first <=> name \notin DOMAIN r.headers
      BY <1>8, Zenon DEF Tells
    <3> HIDE DEF first
    <3>4. CASE name \notin DOMAIN r.headers
      <4>1. s.headers[name] = L.value
        BY <2>1, <2>6, <3>4
      <4>2. ~MentionsTo(lines, m, name, t)
        BY <3>3, <3>4 DEF MentionsTo, first
      <4>3. /\ Contains(s.headers[name], t) <=> MentionsTo(lines, n, name, t)
            /\ Silent(s.headers[name]) <=> SilentTo(lines, n, name)
            /\ Says(s.headers[name], t) <=> SaysTo(lines, n, name, t)
        BY <3>2, <3>3, <3>4, <4>1, <4>2
      <4> QED
        BY <2>3, <2>4, <4>3 DEF Tells
    <3>5. CASE name \in DOMAIN r.headers
      <4>1. s.headers[name] = (v \o <<Comma>>) \o L.value
        BY <2>1, <2>6, <3>5
      <4>2. IsLonger((v \o <<Comma>>) \o L.value, v, Comma, L.value, t)
        BY <1>1, <1>2, <1>6, <3>5, Longer
      <4>3. Contains(v, t) <=> MentionsTo(lines, m, name, t)
        BY <1>8, <3>5 DEF Tells
      <4>4. /\ Contains(s.headers[name], t) <=> MentionsTo(lines, n, name, t)
            /\ Silent(s.headers[name]) <=> SilentTo(lines, n, name)
            /\ Says(s.headers[name], t) <=> SaysTo(lines, n, name, t)
        BY <1>6, <3>2, <3>3, <3>5, <4>1, <4>2, <4>3 DEF IsLonger
      <4> QED
        BY <2>3, <2>4, <4>4 DEF Tells
    <3> QED
      BY <3>4, <3>5
  <2> QED
    BY <2>5, <2>6
<1> QED
  BY <1>1, <1>11, <1>12, <1>13

LEMMA ParsedTells ==
  ASSUME NEW lines, lines \in Seq(Line), NEW name, Named(name), NEW t, t \in Tokens
  PROVE  /\ Tells(lines, Len(lines), Parsed(lines), name, t)
         /\ Parsed(lines) \in HeaderStates
<1> DEFINE N == Len(lines)
<1>1. N \in Nat /\ \A i \in 1..N : lines[i] \in Line
  BY LenProperties
<1>2. PICK q : IsParsed(q, lines)
  BY ParsedIs
<1>3. /\ q[0] = NoHeaders
      /\ \A i \in 0..N : q[i] \in HeaderStates
      /\ \A i \in 1..N : StepsTo(q[i - 1], lines[i], q[i])
      /\ Parsed(lines) = q[N]
  BY <1>2 DEF IsParsed
<1> HIDE DEF N
<1> DEFINE Holds == {i \in 0..N : Tells(lines, i, q[i], name, t)}
<1>4. 0 \in Holds
  BY <1>1, <1>3, TellsNone
<1>5. ASSUME NEW i \in 0..N, i \in Holds, i < N
      PROVE  i + 1 \in Holds
  <2>1. i + 1 \in 1..N /\ i + 1 \in 0..N /\ (i + 1) - 1 = i /\ i \in Nat
    BY <1>1, <1>5
  <2>2. /\ lines[i + 1] \in Line /\ q[i] \in HeaderStates
        /\ StepsTo(q[i], lines[i + 1], q[i + 1])
    BY <1>1, <1>3, <2>1
  <2>3. Tells(lines, i, q[i], name, t)
    BY <1>5
  <2>4. Tells(lines, i + 1, q[i + 1], name, t)
    BY <2>1, <2>2, <2>3, TellsNext
  <2> QED
    BY <2>1, <2>4
<1> HIDE DEF Holds
<1>6. \A i \in 0..N : i \in Holds
  BY <1>1, <1>4, <1>5, UpTo
<1>7. N \in 0..N
  BY <1>1
<1>8. Tells(lines, N, q[N], name, t)
  BY <1>6, <1>7 DEF Holds
<1> QED
  BY <1>3, <1>7, <1>8 DEF N

\* What Response.get() returns.
LEMMA GetTells ==
  ASSUME NEW lines, lines \in Seq(Line), NEW name, Named(name), NEW t, t \in Tokens
  PROVE  /\ Get(lines, name) = <<t>> <=> SaysOnce(lines, name, t)
         /\ Contains(Get(lines, name), t) <=> Mentions(lines, name, t)
<1> DEFINE N == Len(lines)
           h == Parsed(lines).headers
<1>1. DOMAIN lines = 1..N
  BY LenProperties
<1>2. SaysOnce(lines, name, t) <=> SaysTo(lines, N, name, t)
  BY <1>1 DEF SaysOnce, SaysTo, Once
<1>3. Mentions(lines, name, t) <=> MentionsTo(lines, N, name, t)
  BY <1>1 DEF Mentions, MentionsTo
<1>4. Tells(lines, N, Parsed(lines), name, t) /\ IsState(Parsed(lines))
  BY ParsedTells, HeaderState
<1>5. Get(lines, name) = IF name \in DOMAIN h THEN Strip(h[name]) ELSE <<>>
  BY DEF Get, Headers
<1>6. CASE name \in DOMAIN h
  <2>1. h[name] \in Seq(Text)
    BY <1>4, <1>6 DEF IsState
  <2>2. IsStripped(Strip(h[name]), h[name], t)
    BY <2>1, Stripped
  <2>3. /\ Contains(h[name], t) <=> MentionsTo(lines, N, name, t)
        /\ Says(h[name], t) <=> SaysTo(lines, N, name, t)
    BY <1>4, <1>6 DEF Tells
  <2> QED
    BY <1>2, <1>3, <1>5, <1>6, <2>2, <2>3 DEF IsStripped
<1>7. CASE name \notin DOMAIN h
  <2>1. \A i \in 1..N : ~IsField(lines, i, name)
    BY <1>4, <1>7 DEF Tells
  <2>2. ~SaysTo(lines, N, name, t) /\ ~MentionsTo(lines, N, name, t)
    BY <2>1 DEF SaysTo, MentionsTo, Once
  <2>3. Get(lines, name) = <<>> /\ <<>> # <<t>> /\ ~Contains(<<>>, t)
    BY <1>5, <1>7 DEF Contains
  <2> QED
    BY <1>2, <1>3, <2>2, <2>3
<1> QED
  BY <1>6, <1>7

\* A value is equal to a token up to case when the lines say so.
LEMMA GetEquals ==
  ASSUME NEW lines, lines \in Seq(Line), NEW name, Named(name),
         NEW token, Lower[token] \notin {Space, Comma}
  PROVE  Equals(Get(lines, name), token) <=> SaysInAnyCase(lines, name, token)
<1>1. ASSUME NEW t \in Text, Lower[t] = Lower[token]
      PROVE  Get(lines, name) = <<t>> <=> SaysOnce(lines, name, t)
  <2>1. Lower[Space] = Space /\ Lower[Comma] = Comma
    BY UpgradeAssumption DEF UpgradeAssumption
  <2>2. t \in Tokens
    BY <1>1, <2>1 DEF Tokens
  <2> QED
    BY <2>2, GetTells
<1> QED
  BY <1>1 DEF Equals, SaysInAnyCase

\* What on_response() accepts is an upgrade.
LEMMA Accepted ==
  ASSUME NEW status, NEW lines, lines \in Seq(Line), NEW k, k \in Keys
  PROVE  OnResponse(status, lines, k) <=> IsUpgrade(status, lines, k)
<1>1. /\ Lower[Challenge[k]] \notin {Space, Comma} /\ Lower["websocket"] \notin {Space, Comma}
      /\ "bad option" \in Tokens
  <2>1. "websocket" \notin {Space, Comma} /\ "bad option" \notin {Space, Comma}
    BY DEF Space, Comma
  <2>2. /\ Lower[Challenge[k]] \notin {Space, Comma} /\ Lower["websocket"] = "websocket"
        /\ "bad option" \in Text
    BY UpgradeAssumption DEF UpgradeAssumption
  <2> QED
    BY <2>1, <2>2 DEF Tokens
<1>2. Named("upgrade") /\ Named("sec-websocket-accept") /\ Named("sec-websocket-extensions")
  BY DEF Named
<1>3. Equals(Get(lines, "upgrade"), "websocket") <=>
        SaysInAnyCase(lines, "upgrade", "websocket")
  BY <1>1, <1>2, GetEquals
<1>4. Equals(Get(lines, "sec-websocket-accept"), Challenge[k]) <=>
        SaysInAnyCase(lines, "sec-websocket-accept", Challenge[k])
  BY <1>1, <1>2, GetEquals
<1>5. Contains(Get(lines, "sec-websocket-extensions"), "bad option") <=>
        Mentions(lines, "sec-websocket-extensions", "bad option")
  BY <1>1, <1>2, GetTells
<1> QED
  BY <1>3, <1>4, <1>5 DEF OnResponse, IsUpgrade

\* A server that answers the request as it was sent.
Answering(k) == [status |-> 101, lines |-> <<Field("upgrade", <<"websocket">>),
                                             Field("sec-websocket-accept", <<Challenge[k]>>)>>]

LEMMA AnswerToRequest ==
  ASSUME NEW k, k \in Keys
  PROVE  Acceptance(BuildRequest(k)) = Answering(k)
<1> DEFINE u == Field("upgrade", <<"websocket">>)
           f == Field("sec-websocket-key", <<k>>)
           m == Len(Custom)
           r == BuildRequest(k)
           Asks(i) == r[i].name = "sec-websocket-key"
<1>1. /\ u.name # "sec-websocket-key"
      /\ f.name = "sec-websocket-key" /\ f.value[1] = k
  BY DEF Field
<1>2. m \in Nat /\ \A i \in 1..m : Custom[i].name # "sec-websocket-key"
  <2>1. Custom \in Seq(Line)
    BY UpgradeAssumption DEF UpgradeAssumption
  <2>2. m \in Nat /\ DOMAIN Custom = 1..m
    BY <2>1, LenProperties
  <2> QED
    BY <2>2, UpgradeAssumption DEF UpgradeAssumption
<1> DEFINE S == Line \cup {u, f}
           tail == <<u, f>>
<1>3. tail \in Seq(S) /\ Len(tail) = 2 /\ tail[1] = u /\ tail[2] = f /\ r = Custom \o tail
  BY DEF BuildRequest
<1>4. Custom \in Seq(S)
  <2>1. Custom \in Seq(Line)
    BY UpgradeAssumption DEF UpgradeAssumption
  <2>2. m \in Nat /\ \A i \in 1..m : Custom[i] \in S
    BY <2>1, LenProperties
  <2>3. Custom = [i \in 1..m |-> Custom[i]]
    BY <2>1, LenProperties
  <2> HIDE DEF S, m
  <2> QED
    BY <2>2, <2>3
<1> HIDE DEF u, f, S, tail
<1>5. /\ r \in Seq(S) /\ Len(r) = m + 2
      /\ \A i \in 1..m : r[i] = Custom[i]
      /\ r[m + 1] = u /\ r[m + 2] = f
  <2>1. /\ Custom \o tail \in Seq(S) /\ Len(Custom \o tail) = Len(Custom) + Len(tail)
        /\ \A i \in 1..Len(Custom) : (Custom \o tail)[i] = Custom[i]
        /\ \A i \in 1..Len(tail) : (Custom \o tail)[Len(Custom) + i] = tail[i]
    <3>1. Custom \in Seq(S) /\ tail \in Seq(S)
      BY <1>3, <1>4
    <3> QED
      BY <3>1, Joined
  <2>2. 1 \in 1..Len(tail) /\ 2 \in 1..Len(tail)
    BY <1>3
  <2> QED
    BY <1>3, <2>1, <2>2
<1> HIDE DEF r
<1>6. DOMAIN r = 1..(m + 2)
  BY <1>5, LenProperties
<1> HIDE DEF m
<1>7. m + 2 \in DOMAIN r /\ \A i \in DOMAIN r : i \in 1..m \/ i = m + 1 \/ i = m + 2
  BY <1>2, <1>6
<1>8. \A i \in DOMAIN r : Asks(i) <=> i = m + 2
  <2>1. \A i \in 1..m : ~Asks(i)
    BY <1>2, <1>5
  <2>2. ~Asks(m + 1) /\ Asks(m + 2)
    BY <1>1, <1>5
  <2> HIDE DEF Asks
  <2> QED
    BY <1>7, <2>1, <2>2, Zenon
<1>9. (CHOOSE i \in DOMAIN r : Asks(i)) = m + 2
  <2> HIDE DEF Asks
  <2> QED
    BY <1>7, <1>8, Zenon
<1>10. r[CHOOSE i \in DOMAIN r : r[i].name = "sec-websocket-key"].value[1] = k
  BY <1>1, <1>5, <1>9
<1> QED
  BY <1>10 DEF Acceptance, Answering, r

LEMMA AnswerTyped ==
  ASSUME NEW k, k \in Keys
  PROVE  Answering(k).lines \in Seq(Line)
<1>1. /\ Challenge[k] \in Text
      /\ "upgrade" \in Text /\ "websocket" \in Text /\ "sec-websocket-accept" \in Text
  BY UpgradeAssumption DEF UpgradeAssumption
<1>2. <<"websocket">> \in Seq(Text) /\ <<Challenge[k]>> \in Seq(Text)
  BY <1>1
<1>3. /\ Field("upgrade", <<"websocket">>) \in Line
      /\ Field("sec-websocket-accept", <<Challenge[k]>>) \in Line
  BY <1>1, <1>2 DEF Field, Line
<1> QED
  BY <1>3 DEF Answering

LEMMA AnswerIsUpgrade ==
  ASSUME NEW k, k \in Keys
  PROVE  IsUpgrade(101, Answering(k).lines, k)
<1> DEFINE t == Challenge[k]
           lines == Answering(k).lines
<1>1. /\ DOMAIN lines = {1, 2}
      /\ lines[1] = Field("upgrade", <<"websocket">>)
      /\ lines[2] = Field("sec-websocket-accept", <<t>>)
  BY DEF Answering
<1>2. \A v : Says(<<v>>, v)
  BY DEF Says
<1> HIDE DEF lines, t
<1>3. /\ lines[1].kind = "field" /\ lines[1].name = "upgrade"
      /\ lines[1].value = <<"websocket">>
      /\ lines[2].kind = "field" /\ lines[2].name = "sec-websocket-accept"
      /\ lines[2].value = <<t>>
  BY <1>1 DEF Field
<1>4. \A i, j \in {1, 2} : OfField(lines, i, j) <=> j = i
  BY <1>3 DEF OfField
<1>5. \A j \in {1, 2} : IsField(lines, j, "upgrade") <=> j = 1
  BY <1>3 DEF IsField
<1>6. \A j \in {1, 2} : IsField(lines, j, "sec-websocket-accept") <=> j = 2
  BY <1>3 DEF IsField
<1>7. \A j \in {1, 2} : ~IsField(lines, j, "sec-websocket-extensions")
  BY <1>3 DEF IsField
<1>8. SaysOnce(lines, "upgrade", "websocket")
  BY <1>1, <1>2, <1>3, <1>4, <1>5 DEF SaysOnce
<1>9. SaysOnce(lines, "sec-websocket-accept", t)
  BY <1>1, <1>2, <1>3, <1>4, <1>6 DEF SaysOnce
<1>10. ~Mentions(lines, "sec-websocket-extensions", "bad option")
  BY <1>1, <1>7 DEF Mentions
<1>11. "websocket" \in Text /\ t \in Text
  BY UpgradeAssumption DEF UpgradeAssumption, t
<1> QED
  BY <1>8, <1>9, <1>10, <1>11 DEF IsUpgrade, SaysInAnyCase, lines, t

-----------------------------------------------------------------------------
(* The attempt to connect *)

Sockets ==
  [peer : {"nobody", "none"} \cup Hosts, tls : {"none"} \cup Hosts, timeout : BOOLEAN]

\* A socket is in hand from its creation on; without one no address was left out.
Counted ==
  /\ ConnectingTypeOK
  /\ sock.peer = "nobody" => sock = NoSock
  /\ open = (IF sock = NoSock THEN 0 ELSE 1)
  /\ at \in {"start", "resolve", "address"} => sock = NoSock
  /\ at \in {"wrap", "connect", "ask", "answer", "unblock"} => sock # NoSock
  /\ at \in {"start", "resolve"} => left = 0
  /\ at = "failed" /\ sock = NoSock => left = 0

\* Whom the socket reaches when only the timeout is left to be removed.
Reached ==
  /\ sock.peer = host
  /\ Proxy # "none" => tunnel
  /\ secure => sock.tls = "server"
  /\ ~secure => sock.tls = IF Proxy = "https" THEN "proxy" ELSE "none"

\* The host is the proxy if there is one; a tunnel is there only after a whole
\* answer; the wrapping follows the scheme of whoever is reached.
Reaching ==
  /\ at # "start" => host = IF Proxy = "none" THEN "server" ELSE "proxy"
  /\ tunnel => /\ at \in {"wrap", "unblock", "connected", "failed"}
               /\ reply.status = 200 /\ got = reply.size /\ got <= MaxReply
  /\ at = "wrap" => IF tunnel THEN secure /\ sock.peer = host ELSE WrapsHost
  /\ at = "connect" => sock.tls = IF WrapsHost THEN host ELSE "none"
  /\ at \in {"ask", "answer"} =>
       /\ host = "proxy" /\ sock.peer = "proxy"
       /\ sock.tls = IF WrapsHost THEN "proxy" ELSE "none"
  /\ at = "unblock" => Reached
  /\ at = "connected" => Reached /\ ~sock.timeout
  /\ at # "returned"

AttemptInv == Counted /\ Reaching

LEMMA AttemptInit == ConnectingInit => AttemptInv
<1> SUFFICES ASSUME ConnectingInit PROVE AttemptInv
  OBVIOUS
<1>1. ConnectingTypeOK
  BY ConnectingAssumption
     DEF ConnectingAssumption, ConnectingInit, ConnectingTypeOK, ConnectPCs, Hosts, NoSock
<1> QED
  BY <1>1 DEF ConnectingInit, AttemptInv, Counted, Reaching

\* Every step of the attempt and of the proxy keeps Counted.
LEMMA CountedStep == Counted /\ (ConnectStep \/ ProxyStep) => Counted'
<1> SUFFICES ASSUME Counted, ConnectStep \/ ProxyStep PROVE Counted'
  OBVIOUS
<1> USE ConnectingAssumption
<1> USE DEF Counted, ConnectingTypeOK, argumentVars, ConnectPCs
<1>1. CASE Begin
  BY <1>1 DEF Begin, Hosts
<1>2. CASE Resolve
  BY <1>2 DEF Resolve
<1>3. CASE NoAddressLeft \/ CreateFails
  BY <1>3 DEF NoAddressLeft, CreateFails
<1>4. CASE Create
  <2>1. sock' \in Sockets /\ sock'.peer # "nobody" /\ sock' # NoSock
    BY <1>4 DEF Create, NoSock, Fresh, Sockets
  <2>2. ConnectingTypeOK'
    BY <1>4, <2>1 DEF Create, Sockets
  <2>3. open' = 1
    BY <1>4 DEF Create
  <2>4. at' \in {"wrap", "connect"}
    BY <1>4 DEF Create
  <2> QED
    BY <2>1, <2>2, <2>3, <2>4
<1>5. CASE Wrap \/ ConnectSucceeds \/ Unblock
  <2>1. sock # NoSock
    BY <1>5 DEF Wrap, ConnectSucceeds, Unblock
  <2>2. CASE Wrap
    <3>1. sock' \in Sockets /\ sock'.tls \in Hosts /\ sock'.peer # "nobody"
      BY <2>1, <2>2 DEF Wrap, Hosts, Sockets
    <3>2. sock' # NoSock
      BY <3>1 DEF NoSock, Hosts
    <3> QED
      BY <2>1, <2>2, <3>1, <3>2 DEF Wrap
  <2>3. CASE ConnectSucceeds
    <3>1. sock' \in Sockets /\ sock'.peer # "nobody"
      BY <2>3 DEF ConnectSucceeds, Hosts, Sockets
    <3>2. sock' # NoSock
      BY <3>1 DEF NoSock
    <3> QED
      BY <2>1, <2>3, <3>1, <3>2 DEF ConnectSucceeds
  <2>4. CASE Unblock
    <3>1. sock' \in Sockets /\ sock'.peer # "nobody"
      BY <2>1, <2>4 DEF Unblock, Sockets
    <3>2. sock' # NoSock
      BY <3>1 DEF NoSock
    <3> QED
      BY <2>1, <2>4, <3>1, <3>2 DEF Unblock
  <2> QED
    BY <1>5, <2>2, <2>3, <2>4
<1>6. CASE ConnectRefused
  <2>1. sock' \in Sockets
    BY <1>6 DEF ConnectRefused, NoSock, Sockets
  <2>2. open = 1
    BY <1>6 DEF ConnectRefused
  <2>3. sock' = NoSock /\ open' = 0 /\ at' = "address"
    BY <1>6, <2>2 DEF ConnectRefused
  <2>4. ConnectingTypeOK'
    BY <1>6, <2>1, <2>3 DEF ConnectRefused, Sockets
  <2> QED
    BY <2>3, <2>4
<1>7. CASE WrapFails \/ Ask \/ RecvEof \/ RecvTimesOut \/ ProxyEnds
  BY <1>7 DEF WrapFails, Ask, RecvEof, RecvTimesOut, ProxyEnds
<1>8. CASE ProxyAnswers
  BY <1>8 DEF ProxyAnswers
<1>9. CASE RecvReply
  BY <1>9 DEF RecvReply
<1> QED
  BY <1>1, <1>2, <1>3, <1>4, <1>5, <1>6, <1>7, <1>8, <1>9
     DEF ConnectStep, ProxyStep

\* Every step of them keeps Reaching.
LEMMA ReachingStep == AttemptInv /\ (ConnectStep \/ ProxyStep) => Reaching'
<1> SUFFICES ASSUME AttemptInv, ConnectStep \/ ProxyStep PROVE Reaching'
  OBVIOUS
<1> USE ConnectingAssumption
<1> USE DEF AttemptInv, Counted, ConnectingTypeOK, Reaching, Reached, argumentVars, Proxy,
            WrapsHost
<1>1. CASE Begin
  BY <1>1 DEF Begin
<1>2. CASE Resolve \/ NoAddressLeft \/ CreateFails \/ ConnectRefused
  BY <1>2 DEF Resolve, NoAddressLeft, CreateFails, ConnectRefused
<1>3. CASE Create
  BY <1>3 DEF Create, Fresh
<1>4. CASE Wrap
  <2>1. /\ sock'.tls = IF tunnel THEN "server" ELSE host
        /\ sock'.peer = sock.peer
    BY <1>4 DEF Wrap, Sockets
  <2> QED
    BY <1>4, <2>1 DEF Wrap
<1>5. CASE ConnectSucceeds
  <2>1. sock'.peer = host /\ sock'.tls = sock.tls
    BY <1>5 DEF ConnectSucceeds, Sockets
  <2> QED
    BY <1>5, <2>1 DEF ConnectSucceeds, Hosts
<1>6. CASE WrapFails \/ Ask \/ RecvEof \/ RecvTimesOut \/ ProxyEnds
  BY <1>6 DEF WrapFails, Ask, RecvEof, RecvTimesOut, ProxyEnds
<1>7. CASE ProxyAnswers
  BY <1>7 DEF ProxyAnswers
<1>8. CASE Unblock
  <2>1. /\ sock'.peer = sock.peer /\ sock'.tls = sock.tls
        /\ ~sock'.timeout
    BY <1>8 DEF Unblock, Sockets
  <2> QED
    BY <1>8, <2>1 DEF Unblock
<1>9. CASE RecvReply
  <2>1. /\ got' \in Nat /\ got' <= reply.size
        /\ UNCHANGED <<secure, proxies, host, sock, reply>>
    BY <1>9 DEF RecvReply
  <2>2. tunnel' => reply.status = 200 /\ got' = reply.size /\ got' <= MaxReply
    <3>1. reply.size \in Nat
      BY DEF NoReply, ConnectingAssumption
    <3>2. got' <= reply.size /\ (tunnel' <=> Fed(reply, got') = "tunnel")
      BY <1>9 DEF RecvReply
    <3>3. Fed(reply, got') = "tunnel" =>
            /\ ~(got' > MaxReply) /\ ~(got' < reply.size) /\ reply.status = 200
      BY DEF Fed
    <3>4. MaxReply \in Nat
      BY DEF ConnectingAssumption
    <3> QED
      BY <2>1, <3>1, <3>2, <3>3, <3>4
  <2>3. tunnel' <=> at' \in {"wrap", "unblock"}
    BY <1>9 DEF RecvReply, Fed
  <2>4. at' \in {"answer", "failed", IF secure THEN "wrap" ELSE "unblock"}
    BY <1>9 DEF RecvReply
  <2>5. CASE tunnel'
    BY <1>9, <2>1, <2>2, <2>3, <2>4, <2>5 DEF RecvReply
  <2>6. CASE ~tunnel'
    BY <1>9, <2>1, <2>3, <2>4, <2>6 DEF RecvReply
  <2> QED
    BY <1>9, <2>5, <2>6 DEF RecvReply
<1> QED
  BY <1>1, <1>2, <1>3, <1>4, <1>5, <1>6, <1>7, <1>8, <1>9 DEF ConnectStep, ProxyStep

LEMMA AttemptStep ==
  AttemptInv /\ [ConnectStep \/ ProxyStep]_connectingVars => AttemptInv'
<1>1. CASE UNCHANGED connectingVars
  BY <1>1 DEF connectingVars, AttemptInv, Counted, ConnectingTypeOK, Reaching, Reached,
              Proxy, WrapsHost
<1> QED
  BY <1>1, CountedStep, ReachingStep DEF AttemptInv

-----------------------------------------------------------------------------
(* The connection *)

\* There is a socket from the request to the end, whoever ended it.
Opening ==
  /\ ConnectingTypeOK
  /\ stage \in {"connect", "response", "ready", "rejected", "open", "failed"}
  /\ stage = "connect" => AttemptInv
  /\ stage # "connect" => at = "returned" /\ open = (IF sock = NoSock THEN 0 ELSE 1)
  /\ stage \in {"response", "ready", "open"} => sock # NoSock
  /\ stage \in {"rejected", "failed"} => sock = NoSock

\* The key is that of the request for as long as the answer is to be judged by it.
Upgrading ==
  /\ key \in Keys
  /\ request \in {<<>>, BuildRequest(key)}
  /\ said \in {"nothing", "part", "answer", "end"}
  /\ answer.status \in Statuses \cup {0, 101}
  /\ answer.lines \in Seq(Line)
  /\ stage \in {"response", "ready", "rejected"} => request = BuildRequest(key)
  /\ stage = "ready" => OnResponse(answer.status, answer.lines, key)
  /\ stage = "rejected" => ~OnResponse(answer.status, answer.lines, key)

ConnectionInv == Opening /\ Upgrading /\ WireInv

LEMMA ConnectionBegins ==
  ASSUME Init
  PROVE  ConnectionInv
<1>1. AttemptInv
  BY AttemptInit DEF Init
<1>2. Opening
  BY <1>1 DEF Init, Opening, AttemptInv, Counted
<1>3. answer.status = 0 /\ answer.lines \in Seq(Line)
  BY DEF Init, NoAnswer
<1>4. Upgrading
  BY <1>3 DEF Init, Upgrading
<1>5. WireInv
  BY WireInvBegins DEF Init
<1> QED
  BY <1>2, <1>4, <1>5 DEF ConnectionInv

LEMMA OpeningKept ==
  ASSUME Opening, [Next]_vars
  PROVE  Opening'
<1>1. CASE Connects \/ ProxyActs
  <2>1. stage = "connect" /\ stage' = stage /\ (ConnectStep \/ ProxyStep)
    BY <1>1 DEF Connects, ProxyActs, openingVars
  <2>2. AttemptInv'
    BY <2>1, AttemptStep DEF Opening
  <2> QED
    BY <2>1, <2>2 DEF Opening, AttemptInv, Counted
<1>2. CASE SendRequest
  <2>1. stage = "connect" /\ at = "connected" /\ AttemptInv /\ ConnectReturns
    BY <1>2 DEF SendRequest, Opening
  <2>2. sock # NoSock /\ open = 1
    BY <2>1 DEF AttemptInv, Counted, Reaching, Reached, ConnectingTypeOK, NoSock, Hosts
  <2>3. \/ stage' = "response" /\ open' = 1
           /\ sock' = [Fresh EXCEPT !.peer = "server", !.timeout = FALSE]
        \/ stage' = "failed" /\ open' = 0 /\ sock' = NoSock
    BY <1>2, <2>2 DEF SendRequest, CloseSocket
  <2>4. /\ [Fresh EXCEPT !.peer = "server", !.timeout = FALSE] # NoSock
        /\ [Fresh EXCEPT !.peer = "server", !.timeout = FALSE] \in Sockets
        /\ NoSock \in Sockets
    BY DEF Fresh, NoSock, Sockets, Hosts
  <2>5. ConnectingTypeOK'
    <3>1. sock' \in Sockets /\ open' \in Nat
      BY <2>3, <2>4
    <3>2. /\ at' = "returned" /\ secure' = FALSE /\ host' = "server" /\ left' = 0
          /\ tunnel' = FALSE /\ reply' = NoReply /\ got' = 0 /\ ended' = FALSE
      BY <2>1 DEF ConnectReturns
    <3>3. proxies' \in [{"http", "https"} -> {"none", "http", "https"}]
      BY <2>1 DEF ConnectReturns
    <3> QED
      BY <3>1, <3>2, <3>3 DEF ConnectingTypeOK, ConnectPCs, Hosts, Sockets
  <2> QED
    BY <2>1, <2>3, <2>4, <2>5 DEF Opening, ConnectReturns
<1>3. CASE FeedResponse \/ RecvEnd
  <2>1. stage = "response" /\ at = "returned" /\ open = 1 /\ sock # NoSock
    BY <1>3 DEF FeedResponse, RecvEnd, Opening
  <2>2. /\ UNCHANGED <<argumentVars, at, host, left, reply, got, ended, tunnel>>
        /\ \/ stage' = "ready" /\ sock' = sock /\ open' = open
           \/ stage' \in {"rejected", "failed"} /\ sock' = NoSock /\ open' = 0
    BY <1>3, <2>1 DEF FeedResponse, RecvEnd, CloseSocket
  <2>3. ConnectingTypeOK'
    <3>1. sock' \in Sockets /\ open' \in Nat
      <4>1. sock \in Sockets /\ NoSock \in Sockets
        BY DEF Opening, ConnectingTypeOK, NoSock, Sockets, Hosts
      <4> QED
        BY <2>1, <2>2, <4>1
    <3>2. UNCHANGED <<secure, proxies, at, host, left, reply, got, ended, tunnel>>
      BY <2>2 DEF argumentVars
    <3> QED
      BY <3>1, <3>2 DEF Opening, ConnectingTypeOK, Sockets
  <2> QED
    BY <2>1, <2>2, <2>3 DEF Opening
<1>4. CASE ServerStarts \/ ServerAnswers \/ ServerEnds \/ Opens \/ Frames \/ UNCHANGED vars
  <2>1. /\ UNCHANGED connectingVars
        /\ stage' = stage \/ (stage = "ready" /\ stage' = "open")
    BY <1>4 DEF ServerStarts, ServerAnswers, ServerEnds, Opens, Frames, vars, openingVars
  <2>2. ConnectingTypeOK'
    BY <2>1 DEF Opening, ConnectingTypeOK, connectingVars
  <2>3. stage' = "connect" => AttemptInv'
    BY <2>1, AttemptStep DEF Opening
  <2> QED
    BY <2>1, <2>2, <2>3 DEF Opening, connectingVars
<1> QED
  BY <1>1, <1>2, <1>3, <1>4 DEF Next, LoopStep

LEMMA AnswerGiven ==
  ASSUME Upgrading, ServerAnswers, request = BuildRequest(key)
  PROVE  answer'.status \in Statuses \cup {0, 101} /\ answer'.lines \in Seq(Line)
<1>1. CASE answer' = Acceptance(request)
  <2>1. key \in Keys /\ answer' = Answering(key)
    BY <1>1, AnswerToRequest DEF Upgrading
  <2>2. Answering(key).status = 101 /\ Answering(key).lines \in Seq(Line)
    BY <2>1, AnswerTyped DEF Answering
  <2> QED
    BY <2>1, <2>2
<1>2. CASE \E status \in Statuses, n \in 0..MaxLines :
             \E lines \in [1..n -> HeaderLines] : answer' = [status |-> status, lines |-> lines]
  <2>1. PICK status \in Statuses, n \in 0..MaxLines :
               \E lines \in [1..n -> HeaderLines] : answer' = [status |-> status, lines |-> lines]
    BY <1>2
  <2>2. PICK lines \in [1..n -> HeaderLines] : answer' = [status |-> status, lines |-> lines]
    BY <2>1
  <2>3. n \in Nat /\ lines \in [1..n -> Line]
    BY ConnectionAssumption DEF ConnectionAssumption
  <2>4. lines \in Seq(Line)
    BY <2>3
  <2> QED
    BY <2>2, <2>4
<1> QED
  BY <1>1, <1>2 DEF ServerAnswers

LEMMA UpgradingKept ==
  ASSUME Upgrading, [Next]_vars
  PROVE  Upgrading'
<1>1. CASE UNCHANGED openingVars
  BY <1>1 DEF openingVars, Upgrading
<1>2. CASE SendRequest
  <2>1. /\ UNCHANGED <<key, said, answer>>
        /\ \/ stage' = "response" /\ request' = BuildRequest(key)
           \/ stage' = "failed" /\ request' = request
    BY <1>2 DEF SendRequest
  <2> QED
    BY <2>1 DEF Upgrading
<1>3. CASE ServerAnswers
  <2>1. /\ stage = "response" /\ request = BuildRequest(key)
        /\ UNCHANGED <<stage, key, request>> /\ said' = "answer"
    BY <1>3 DEF ServerAnswers, Upgrading
  <2>2. answer'.status \in Statuses \cup {0, 101} /\ answer'.lines \in Seq(Line)
    BY <1>3, <2>1, AnswerGiven
  <2> QED
    BY <2>1, <2>2 DEF Upgrading
<1>4. CASE ServerStarts \/ ServerEnds
  BY <1>4 DEF ServerStarts, ServerEnds, Upgrading
<1>5. CASE FeedResponse \/ RecvEnd
  <2>1. /\ UNCHANGED <<key, request, said, answer>> /\ request = BuildRequest(key)
        /\ \/ stage' = "ready" /\ OnResponse(answer.status, answer.lines, key)
           \/ stage' = "rejected" /\ ~OnResponse(answer.status, answer.lines, key)
           \/ stage' = "failed"
    BY <1>5 DEF FeedResponse, RecvEnd, Upgrading
  <2> QED
    BY <2>1 DEF Upgrading
<1>6. CASE Opens
  <2>1. /\ stage' = "open" /\ key' = (CHOOSE k \in Keys : TRUE) /\ request' = <<>>
        /\ said' = "nothing" /\ answer' = NoAnswer
    BY <1>6 DEF Opens
  <2>2. key' \in Keys
    BY <2>1, Zenon DEF Upgrading
  <2>3. answer'.status = 0 /\ answer'.lines \in Seq(Line)
    BY <2>1 DEF NoAnswer
  <2> QED
    BY <2>1, <2>2, <2>3 DEF Upgrading
<1>7. Connects \/ ProxyActs \/ Frames \/ UNCHANGED vars => UNCHANGED openingVars
  BY DEF Connects, ProxyActs, Frames, vars, openingVars
<1> QED
  BY <1>1, <1>2, <1>3, <1>4, <1>5, <1>6, <1>7 DEF Next, LoopStep

LEMMA ConnectionKept ==
  ASSUME ConnectionInv, [Next]_vars
  PROVE  ConnectionInv'
<1>1. Opening' /\ Upgrading'
  BY OpeningKept, UpgradingKept DEF ConnectionInv
<1>2. [WireStep]_wireVars
  BY DEF Next, LoopStep, Connects, ProxyActs, SendRequest, ServerStarts, ServerAnswers,
         ServerEnds,
         FeedResponse, RecvEnd, Opens, Frames, vars
<1>3. WireInv'
  BY <1>2, WireInvKept DEF ConnectionInv
<1> QED
  BY <1>1, <1>3 DEF ConnectionInv

LEMMA ConnectionSays ==
  ASSUME ConnectionInv
  PROVE  /\ ConnectionTypeOK /\ UpgradeAgreed
         /\ AddressesTried /\ HandsOverServer
         /\ ServerFrameUnderstood /\ ClientFrameUnderstood /\ Utf8Agrees
<1>1. WireTypeOK /\ ServerFrameUnderstood /\ ClientFrameUnderstood /\ Utf8Agrees
  BY WireInvSays DEF ConnectionInv
<1>2. Opening /\ Upgrading
  BY DEF ConnectionInv
<1>3. ConnectionTypeOK
  BY <1>1, <1>2 DEF Opening, Upgrading, ConnectionTypeOK
<1>4. AddressesTried
  BY <1>2 DEF Opening, AttemptInv, Counted, AddressesTried
<1>5. HandsOverServer
  BY <1>2 DEF Opening, AttemptInv, Reaching, Reached, HandsOverServer
<1>6. OnResponse(answer.status, answer.lines, key) <=> IsUpgrade(answer.status, answer.lines, key)
  BY <1>2, Accepted DEF Upgrading
<1>7. UpgradeAgreed
  <2>1. CASE stage # "rejected"
    <3>1. stage = "ready" => OnResponse(answer.status, answer.lines, key)
      BY <1>2 DEF Upgrading
    <3> QED
      BY <1>6, <2>1, <3>1 DEF UpgradeAgreed
  <2>2. CASE stage = "rejected"
    <3>1. /\ key \in Keys /\ request = BuildRequest(key)
          /\ ~IsUpgrade(answer.status, answer.lines, key)
      BY <1>2, <1>6, <2>2 DEF Upgrading
    <3>2. Acceptance(request) = Answering(key) /\ Answering(key).status = 101
      BY <3>1, AnswerToRequest DEF Answering
    <3>3. IsUpgrade(101, Answering(key).lines, key)
      BY <3>1, AnswerIsUpgrade
    <3>4. answer # Acceptance(request)
      BY <3>1, <3>2, <3>3
    <3>5. stage # "ready"
      BY <2>2
    <3> QED
      BY <3>1, <3>4, <3>5 DEF UpgradeAgreed
  <2> QED
    BY <2>1, <2>2
<1> QED
  BY <1>1, <1>3, <1>4, <1>5, <1>7

LEMMA ConnectionAlways == Spec => []ConnectionInv
<1>1. Init => ConnectionInv
  BY ConnectionBegins
<1>2. ConnectionInv /\ [Next]_vars => ConnectionInv'
  BY ConnectionKept
<1> QED
  BY <1>1, <1>2, PTL DEF Spec

-----------------------------------------------------------------------------
\* The state has its types in every stage, and no more than one socket is open,
\* none after the opening failed (session.py, run and _connect).
THEOREM ConnectionTyped == Spec => []ConnectionTypeOK
<1>1. ConnectionInv => ConnectionTypeOK
  BY ConnectionSays
<1> QED
  BY <1>1, ConnectionAlways, PTL

\* A response is accepted exactly when its lines, in any order, folded and repeated
\* as they may be, say once what on_response() compares the headers with (which is
\* less than RFC 6455 asks for); and a server that answers the key in the request is
\* not rejected (websocket.py, on_response; response.py).
THEOREM Upgraded == Spec => []UpgradeAgreed
<1>1. ConnectionInv => UpgradeAgreed
  BY ConnectionSays
<1> QED
  BY <1>1, ConnectionAlways, PTL

\* No socket is left open by an attempt but the one in hand, and without one it is
\* given up only when all addresses have been tried (session.py, _connect_sock).
THEOREM Tried == Spec => []AddressesTried
<1>1. ConnectionInv => AddressesTried
  BY ConnectionSays
<1> QED
  BY <1>1, ConnectionAlways, PTL

\* What run() is given reaches the server, with the proxy's consent and the
\* wrapping that the scheme asks for, and blocks (session.py, _connect).
THEOREM HandedOver == Spec => []HandsOverServer
<1>1. ConnectionInv => HandsOverServer
  BY ConnectionSays
<1> QED
  BY <1>1, ConnectionAlways, PTL

\* Whatever the server frames, in pieces of any size, is read as it was meant: a
\* header means the frame that was sent, and one that is refused was not one that
\* RFC 6455 allows (frame_parser.py, stream.py).
THEOREM ServerIsUnderstood == Spec => []ServerFrameUnderstood
<1>1. ConnectionInv => ServerFrameUnderstood
  BY ConnectionSays
<1> QED
  BY <1>1, ConnectionAlways, PTL

\* What the client builds is, on the wire, the frame it was asked for, under any
\* mask (frame.py, build; mask.py).
THEOREM ClientIsUnderstood == Spec => []ClientFrameUnderstood
<1>1. ConnectionInv => ClientFrameUnderstood
  BY ConnectionSays
<1> QED
  BY <1>1, ConnectionAlways, PTL

\* The table of the validator rejects a byte exactly when no character goes on
\* with it (utf8validator.py).
THEOREM ValidatorAgrees == Spec => []Utf8Agrees
<1>1. ConnectionInv => Utf8Agrees
  BY ConnectionSays
<1> QED
  BY <1>1, ConnectionAlways, PTL
=============================================================================
