--------------------------- MODULE AppIndexProofs ---------------------------
(***************************************************************************)
(* A built index is the expected one of what was read, and half of one a   *)
(* part of it, for any resources and items of any number of versions.      *)
(*                                                                         *)
(* The argument: a loop gives what its turns give, one after the other; of *)
(* the first turn at which something went wrong, the one before was right. *)
(***************************************************************************)
EXTENDS AppIndex, SequenceTheorems, WellFoundedInduction, TLAPS

-----------------------------------------------------------------------------
(* Loops.                                                                  *)

LEMMA LeastNumber ==
    ASSUME NEW S \in SUBSET Nat, S # {}
    PROVE  \E n \in S : \A m \in S : n <= m
  <1> DEFINE R == OpToRel(<, Nat)
  <1>1. IsWellFoundedOn(R, Nat)
    BY NatLessThanWellFounded
  <1>2. \A m, n \in Nat : m < n => <<m, n>> \in R
    BY DEF OpToRel
  <1> HIDE DEF R
  <1>3. PICK n \in S : \A m \in S : <<m, n>> \notin R
    BY <1>1, WFMin
  <1>4. \A m \in S : ~(m < n)
    BY <1>2, <1>3
  <1>5. \A m \in S : n <= m
    BY <1>4
  <1> QED
    BY <1>5

\* What holds before the first turn and is kept by each holds after all of them.
LEMMA EachTurn ==
    ASSUME NEW k \in Nat, NEW T, 0 \in T, \A n \in 1..k : n - 1 \in T => n \in T
    PROVE  \A n \in 0..k : n \in T
  <1> DEFINE Bad == {n \in 0..k : n \notin T}
  <1> SUFFICES ASSUME Bad # {} PROVE FALSE
    OBVIOUS
  <1>0. Bad \in SUBSET Nat
    OBVIOUS
  <1> HIDE DEF Bad
  <1>1. PICK n \in Bad : \A m \in Bad : n <= m
    BY <1>0, LeastNumber
  <1> USE DEF Bad
  <1>2. n \in 1..k /\ n - 1 \in 0..k /\ n - 1 \notin Bad
    BY <1>1
  <1> QED
    BY <1>1, <1>2 DEF Bad

\* The results of a loop's turns, G being what a turn makes of the result before it.
Results(f, base, G, k) ==
    /\ f[0] = base
    /\ \A n \in 1..k : f[n] = G[<<f[n - 1], n>>]

LEMMA LoopEnds ==
    ASSUME NEW X, NEW base \in X, NEW k \in Nat, NEW G \in [X \X (1..k) -> X]
    PROVE  \E f \in [0..k -> X] : Results(f, base, G, k)
  <1> DEFINE T == {n \in 0..k : \E f \in [0..n -> X] : Results(f, base, G, n)}
  <1>1. 0 \in T
    <2>1. [n \in 0..0 |-> base] \in [0..0 -> X]
      OBVIOUS
    <2>2. Results([n \in 0..0 |-> base], base, G, 0)
      BY DEF Results
    <2> QED
      BY <2>1, <2>2
  <1>2. ASSUME NEW n \in 1..k, n - 1 \in T
        PROVE  n \in T
    <2>1. PICK f \in [0 .. n - 1 -> X] : Results(f, base, G, n - 1)
      BY <1>2
    <2> DEFINE g == [m \in 0..n |-> IF m = n THEN G[<<f[n - 1], n>>] ELSE f[m]]
    <2>2. f[n - 1] \in X /\ G[<<f[n - 1], n>>] \in X
      BY <2>1
    <2>3. g \in [0..n -> X]
      BY <2>1, <2>2
    <2>4. g[0] = base
      BY <2>1 DEF Results
    <2>5. ASSUME NEW m \in 1..n
          PROVE  g[m] = G[<<g[m - 1], m>>]
      <3>1. m - 1 \in 0..n /\ m - 1 # n /\ g[m - 1] = f[m - 1]
        OBVIOUS
      <3>2. CASE m = n
        BY <3>1, <3>2
      <3>3. CASE m # n
        <4>1. m \in 1 .. n - 1
          BY <3>3
        <4> QED
          BY <2>1, <3>1, <3>3, <4>1 DEF Results
      <3> QED
        BY <3>2, <3>3
    <2> HIDE DEF g
    <2>6. Results(g, base, G, n)
      BY <2>4, <2>5 DEF Results
    <2> QED
      BY <2>3, <2>6
  <1> HIDE DEF T
  <1>3. k \in T
    BY <1>1, <1>2, EachTurn
  <1> QED
    BY <1>3 DEF T

-----------------------------------------------------------------------------
(* The elements of a sequence that are in a set.                           *)

Keeps(f, s, E, S) ==
    /\ f \in [0..Len(s) -> Seq(E \cap S)]
    /\ f[0] = <<>>
    /\ \A n \in 1..Len(s) : f[n] = IF s[n] \in S THEN Append(f[n - 1], s[n]) ELSE f[n - 1]

LEMMA KeptIsLoop ==
    ASSUME NEW E, NEW s \in Seq(E), NEW S
    PROVE  Keeps(KeptAfter(s, S), s, E, S)
  <1> DEFINE X == Seq(E \cap S)
             k == Len(s)
             G == [p \in X \X (1..k) |-> IF s[p[2]] \in S THEN Append(p[1], s[p[2]]) ELSE p[1]]
             Is(f) == f = [n \in 0..k |->
                             IF n = 0 THEN <<>>
                             ELSE IF s[n] \in S THEN Append(f[n - 1], s[n]) ELSE f[n - 1]]
  <1>1. k \in Nat /\ <<>> \in X /\ \A n \in 1..k : s[n] \in E
    BY ElementOfSeq, EmptySeq
  <1>2. G \in [X \X (1..k) -> X]
    <2>1. ASSUME NEW p \in X \X (1..k)
          PROVE  (IF s[p[2]] \in S THEN Append(p[1], s[p[2]]) ELSE p[1]) \in X
      <3>1. p[1] \in X /\ p[2] \in 1..k /\ s[p[2]] \in E
        BY <1>1
      <3>2. s[p[2]] \in S => Append(p[1], s[p[2]]) \in X
        BY <3>1, AppendProperties
      <3> QED
        BY <3>1, <3>2
    <2> QED
      BY <2>1
  <1> HIDE DEF G, X
  <1>3. PICK f \in [0..k -> X] : Results(f, <<>>, G, k)
    BY <1>1, <1>2, LoopEnds
  <1>4. Is(f)
    <2>1. ASSUME NEW n \in 0..k
          PROVE  f[n] = IF n = 0 THEN <<>>
                        ELSE IF s[n] \in S THEN Append(f[n - 1], s[n]) ELSE f[n - 1]
      <3>1. CASE n = 0
        BY <1>3, <3>1 DEF Results
      <3>2. CASE n # 0
        <4>1. n \in 1..k /\ n - 1 \in 0..k
          BY <1>1, <3>2
        <4>2. <<f[n - 1], n>> \in X \X (1..k)
          BY <1>3, <4>1
        <4>3. f[n] = G[<<f[n - 1], n>>]
          BY <1>3, <4>1 DEF Results
        <4> QED
          BY <3>2, <4>2, <4>3 DEF G
      <3> QED
        BY <3>1, <3>2
    <2> QED
      BY <2>1
  <1> DEFINE g == CHOOSE h : Is(h)
  <1>5. KeptAfter(s, S) = g
    BY DEF KeptAfter
  <1>6. Is(g)
    BY <1>4
  <1> HIDE DEF g
  <1>7. DOMAIN g = 0..k /\ g[0] = <<>>
    BY <1>1, <1>6
  <1>8. \A n \in 1..k : g[n] = IF s[n] \in S THEN Append(g[n - 1], s[n]) ELSE g[n - 1]
    <2>1. \A n \in 1..k : n \in 0..k /\ n # 0
      BY <1>1
    <2> QED
      BY <1>6, <2>1
  <1>9. \A n \in 0..k : g[n] \in X
    <2> DEFINE T == {n \in 0..k : g[n] \in X}
    <2>1. 0 \in T
      BY <1>1, <1>7
    <2>2. ASSUME NEW n \in 1..k, n - 1 \in T
          PROVE  n \in T
      <3>1. g[n - 1] \in X /\ s[n] \in E
        BY <1>1, <2>2
      <3>2. s[n] \in S => Append(g[n - 1], s[n]) \in X
        BY <3>1, AppendProperties DEF X
      <3> QED
        BY <1>1, <1>8, <3>1, <3>2
    <2> HIDE DEF T
    <2>3. \A n \in 0..k : n \in T
      BY <1>1, <2>1, <2>2, EachTurn
    <2> QED
      BY <2>3 DEF T
  <1>10. g = [n \in 0..k |-> g[n]]
    BY <1>6
  <1>11. g \in [0..k -> X]
    BY <1>9, <1>10
  <1> QED
    BY <1>5, <1>7, <1>8, <1>11 DEF X, Keeps

\* What is kept: each element of the set, the first of them first.
LEMMA KeptIs ==
    ASSUME NEW E, NEW s \in Seq(E), NEW S, NEW n \in 0..Len(s)
    PROVE  /\ \A e : e \in ToSet(KeptAfter(s, S)[n]) <=> \E k \in 1..n : s[k] = e /\ e \in S
           /\ \A k \in 1..n :
                 s[k] \in S /\ (\A j \in 1 .. k - 1 : s[j] \notin S)
                 => KeptAfter(s, S)[n] # <<>> /\ KeptAfter(s, S)[n][1] = s[k]
  <1> DEFINE f == KeptAfter(s, S)
             Holds(m) == \A e : e \in ToSet(f[m]) <=> \E k \in 1..m : s[k] = e /\ e \in S
             Heads(m) == \A k \in 1..m :
                            s[k] \in S /\ (\A j \in 1 .. k - 1 : s[j] \notin S)
                            => f[m] # <<>> /\ f[m][1] = s[k]
             T == {m \in 0..Len(s) : Holds(m) /\ Heads(m)}
  <1>1. /\ Len(s) \in Nat /\ f[0] = <<>>
        /\ \A m \in 0..Len(s) : f[m] \in Seq(E \cap S)
        /\ \A m \in 1..Len(s) : f[m] = IF s[m] \in S THEN Append(f[m - 1], s[m]) ELSE f[m - 1]
    <2>1. Keeps(f, s, E, S)
      BY KeptIsLoop
    <2> HIDE DEF f
    <2>2. \A m \in 0..Len(s) : f[m] \in Seq(E \cap S)
      BY <2>1 DEF Keeps
    <2> QED
      BY <2>1, <2>2 DEF Keeps
  <1> HIDE DEF f
  <1>2. 0 \in T
    <2>1. Holds(0)
      BY <1>1 DEF ToSet
    <2>2. Heads(0)
      OBVIOUS
    <2> QED
      BY <1>1, <2>1, <2>2
  <1>3. ASSUME NEW m \in 1..Len(s), m - 1 \in T
        PROVE  m \in T
    <2>1. /\ Holds(m - 1) /\ Heads(m - 1) /\ m - 1 \in 0..Len(s)
          /\ f[m - 1] \in Seq(E \cap S) /\ f[m] \in Seq(E \cap S)
      BY <1>1, <1>3
    <2>2. CASE s[m] \notin S
      <3>1. f[m] = f[m - 1]
        BY <1>1, <2>2
      <3>2. Holds(m)
        <4>1. \A e : (\E k \in 1..m : s[k] = e /\ e \in S)
                     <=> \E k \in 1 .. m - 1 : s[k] = e /\ e \in S
          <5>1. \A k \in 1..m : k = m \/ k \in 1 .. m - 1
            BY <1>1
          <5>2. \A k \in 1 .. m - 1 : k \in 1..m
            BY <1>1
          <5> QED
            BY <2>2, <5>1, <5>2
        <4> QED
          BY <2>1, <3>1, <4>1
      <3>3. Heads(m)
        <4>1. \A k \in 1..m : s[k] \in S => k \in 1 .. m - 1
          BY <1>1, <2>2
        <4> QED
          BY <2>1, <3>1, <4>1
      <3> QED
        BY <3>2, <3>3
    <2>3. CASE s[m] \in S
      <3>1. /\ f[m] = Append(f[m - 1], s[m]) /\ Len(f[m - 1]) \in Nat
            /\ DOMAIN f[m - 1] = 1..Len(f[m - 1]) /\ DOMAIN f[m] = 1 .. Len(f[m - 1]) + 1
            /\ \A i \in 1..Len(f[m - 1]) : f[m][i] = f[m - 1][i]
            /\ f[m][Len(f[m - 1]) + 1] = s[m] /\ f[m] # <<>>
        <4>1. f[m] = Append(f[m - 1], s[m]) /\ s[m] \in E \cap S
          BY <1>1, <2>3, ElementOfSeq
        <4>2. Len(f[m - 1]) \in Nat /\ DOMAIN f[m - 1] = 1..Len(f[m - 1])
          BY <2>1, LenProperties
        <4>3. /\ Len(f[m]) = Len(f[m - 1]) + 1
              /\ \A i \in 1..Len(f[m - 1]) : f[m][i] = f[m - 1][i]
              /\ f[m][Len(f[m - 1]) + 1] = s[m]
          BY <2>1, <4>1, AppendProperties
        <4>4. DOMAIN f[m] = 1 .. Len(f[m - 1]) + 1 /\ f[m] # <<>>
          BY <2>1, <4>2, <4>3, LenProperties, EmptySeq
        <4> QED
          BY <4>1, <4>2, <4>3, <4>4
      <3>2. \A e : e \in ToSet(f[m]) <=> e \in ToSet(f[m - 1]) \/ e = s[m]
        <4>1. \A i \in DOMAIN f[m] : i \in DOMAIN f[m - 1] \/ i = Len(f[m - 1]) + 1
          BY <3>1
        <4>2. /\ \A i \in DOMAIN f[m - 1] : i \in DOMAIN f[m]
              /\ Len(f[m - 1]) + 1 \in DOMAIN f[m]
          BY <3>1
        <4> QED
          BY <3>1, <4>1, <4>2 DEF ToSet
      <3>3. Holds(m)
        <4>1. \A k \in 1..m : k = m \/ k \in 1 .. m - 1
          BY <1>1
        <4>2. m \in 1..m /\ \A k \in 1 .. m - 1 : k \in 1..m
          BY <1>1
        <4> QED
          BY <2>1, <2>3, <3>2, <4>1, <4>2
      <3>4. ASSUME NEW k \in 1..m, s[k] \in S, \A j \in 1 .. k - 1 : s[j] \notin S
            PROVE  f[m][1] = s[k]
        <4>1. CASE k = m
          <5>1. ~ \E j \in 1 .. m - 1 : s[j] \in S
            BY <3>4, <4>1
          <5>2. ToSet(f[m - 1]) = {}
            BY <2>1, <5>1
          <5>3. Len(f[m - 1]) = 0
            <6>1. DOMAIN f[m - 1] = {}
              BY <5>2 DEF ToSet
            <6> QED
              BY <3>1, <6>1
          <5> QED
            BY <3>1, <4>1, <5>3
        <4>2. CASE k # m
          <5>1. k \in 1 .. m - 1
            BY <4>2
          <5>2. f[m - 1] # <<>> /\ f[m - 1][1] = s[k]
            BY <2>1, <3>4, <5>1
          <5>3. 1 \in 1..Len(f[m - 1])
            BY <2>1, <3>1, <5>2, EmptySeq
          <5> QED
            BY <3>1, <5>2, <5>3
        <4> QED
          BY <4>1, <4>2
      <3>5. Heads(m)
        BY <3>1, <3>4
      <3> QED
        BY <3>3, <3>5
    <2> QED
      BY <2>2, <2>3
  <1> HIDE DEF T
  <1>4. n \in T
    BY <1>1, <1>2, <1>3, EachTurn
  <1> QED
    BY <1>4 DEF T, f

Extends(t, u) == Len(t) <= Len(u) /\ \A i \in 1..Len(t) : u[i] = t[i]

\* Each turn leaves what was kept before it.
LEMMA KeptStays ==
    ASSUME NEW E, NEW s \in Seq(E), NEW S, NEW m \in 0..Len(s), NEW n \in m..Len(s)
    PROVE  /\ KeptAfter(s, S)[m] \in Seq(E) /\ KeptAfter(s, S)[n] \in Seq(E)
           /\ Extends(KeptAfter(s, S)[m], KeptAfter(s, S)[n])
  <1> DEFINE f == KeptAfter(s, S)
             T == {k \in 0..Len(s) : k >= m => Extends(f[m], f[k])}
  <1>1. /\ Len(s) \in Nat
        /\ \A k \in 0..Len(s) : f[k] \in Seq(E \cap S) /\ Len(f[k]) \in Nat
        /\ \A k \in 1..Len(s) : f[k] = IF s[k] \in S THEN Append(f[k - 1], s[k]) ELSE f[k - 1]
    <2>1. Keeps(f, s, E, S)
      BY KeptIsLoop
    <2> HIDE DEF f
    <2>2. \A k \in 0..Len(s) : f[k] \in Seq(E \cap S)
      BY <2>1 DEF Keeps
    <2> QED
      BY <2>1, <2>2 DEF Keeps
  <1> HIDE DEF f
  <1>2. 0 \in T
    BY <1>1 DEF Extends
  <1>3. ASSUME NEW k \in 1..Len(s), k - 1 \in T
        PROVE  k \in T
    <2> SUFFICES ASSUME k > m PROVE Extends(f[m], f[k])
      BY <1>1 DEF Extends
    <2>1. Extends(f[m], f[k - 1]) /\ f[k - 1] \in Seq(E \cap S) /\ Len(f[k - 1]) \in Nat
      BY <1>1, <1>3
    <2>2. /\ Len(f[k - 1]) <= Len(f[k])
          /\ \A i \in 1..Len(f[k - 1]) : f[k][i] = f[k - 1][i]
      <3>1. CASE s[k] \in S
        <4>1. f[k] = Append(f[k - 1], s[k]) /\ s[k] \in E \cap S
          BY <1>1, <3>1, ElementOfSeq
        <4>2. /\ Len(f[k]) = Len(f[k - 1]) + 1
              /\ \A i \in 1..Len(f[k - 1]) : f[k][i] = f[k - 1][i]
          BY <2>1, <4>1, AppendProperties
        <4> QED
          BY <2>1, <4>2
      <3>2. CASE s[k] \notin S
        BY <1>1, <2>1, <3>2
      <3> QED
        BY <3>1, <3>2
    <2>3. \A i \in 1..Len(f[m]) : i \in 1..Len(f[k - 1])
      BY <1>1, <2>1 DEF Extends
    <2> QED
      BY <1>1, <2>1, <2>2, <2>3 DEF Extends
  <1> HIDE DEF T
  <1>4. n \in T /\ n \in 0..Len(s)
    <2>1. n \in 0..Len(s)
      BY <1>1
    <2> QED
      BY <1>1, <1>2, <1>3, <2>1, EachTurn
  <1>5. \A t : t \in Seq(E \cap S) => t \in Seq(E)
    BY SeqMonotonic
  <1> QED
    BY <1>1, <1>4, <1>5 DEF T, f

-----------------------------------------------------------------------------
(* Labels.                                                                 *)

Texts == Keys \X Folders

Labels == [Keys -> SUBSET (Languages \X Texts)]

LEMMA AddFileType ==
    ASSUME NEW labels \in Labels, NEW file \in Files
    PROVE  AddFile(labels, file) \in Labels
  <1>1. LanguageOf[file.folder] \in Languages /\ file.folder \in Folders
    BY DEF Files, Languages
  <1>2. \A key \in Keys : Text(key, file.folder) \in Texts
    BY <1>1 DEF Text, Texts
  <1>3. \A key \in Keys :
            Overwritten(labels[key], LanguageOf[file.folder], Text(key, file.folder))
                \in SUBSET (Languages \X Texts)
    BY <1>1, <1>2 DEF Overwritten, Labels
  <1> QED
    BY <1>3 DEF AddFile, Labels

Told(files, key, language, k) ==
    key \in files[k].keys /\ LanguageOf[files[k].folder] = language

\* What the first n files say for a key.
SaysAfter(files, key, language, n) ==
    LET telling == {k \in 1..n : Told(files, key, language, k)}
    IN  {Text(key, files[k].folder) : k \in {j \in telling : \A i \in telling : i <= j}}

LEMMA SaysOnce ==
    ASSUME NEW files, NEW key, NEW language, NEW n \in Nat
    PROVE  \A a, b \in SaysAfter(files, key, language, n) : a = b
  BY DEF SaysAfter

\* The last file that tells has the word, in its language.
LEMMA LastFileSays ==
    ASSUME NEW files, NEW key, NEW language, NEW n \in Nat, n > 0
    PROVE  SaysAfter(files, key, language, n)
             = IF Told(files, key, language, n) THEN {Text(key, files[n].folder)}
               ELSE SaysAfter(files, key, language, n - 1)
  <1> DEFINE Telling(m) == {k \in 1..m : Told(files, key, language, k)}
             HasTheWord(m) == {j \in Telling(m) : \A i \in Telling(m) : i <= j}
  <1>1. \A k \in 1..n : k = n \/ k \in 1 .. n - 1
    OBVIOUS
  <1>2. n \in 1..n /\ \A k \in 1 .. n - 1 : k \in 1..n /\ k <= n /\ ~(n <= k)
    OBVIOUS
  <1>3. Told(files, key, language, n) => HasTheWord(n) = {n}
    BY <1>1, <1>2
  <1>4. ~Told(files, key, language, n) => Telling(n) = Telling(n - 1)
    BY <1>1, <1>2
  <1>5. ~Told(files, key, language, n) => HasTheWord(n) = HasTheWord(n - 1)
    BY <1>4
  <1>6. \A m : SaysAfter(files, key, language, m) = {Text(key, files[k].folder) : k \in HasTheWord(m)}
    BY DEF SaysAfter
  <1> HIDE DEF HasTheWord
  <1> QED
    BY <1>3, <1>5, <1>6

\* The labels hold what the files that were read say, and nothing else.
Gathered(r, labels) ==
    /\ labels \in Labels
    /\ \A key \in Keys : \A language, text :
          <<language, text>> \in labels[key]
          <=> language \in Languages /\ text \in Says(r, key, language)

LEMMA SaysIs ==
    ASSUME NEW r \in Reading, NEW key, NEW language
    PROVE  /\ Says(r, key, language) = SaysAfter(r.files, key, language, Len(r.files))
           /\ \A a, b \in Says(r, key, language) : a = b
  <1>1. r.files \in Seq(Files) /\ Len(r.files) \in Nat /\ DOMAIN r.files = 1..Len(r.files)
    BY DEF Reading
  <1>2. Says(r, key, language) = SaysAfter(r.files, key, language, Len(r.files))
    BY <1>1 DEF Says, SaysAfter, Told
  <1> QED
    BY <1>1, <1>2, SaysOnce

LEMMA NothingGathered ==
    ASSUME NEW r \in Reading, r.files = <<>>
    PROVE  Gathered(r, NoLabels)
  <1>1. NoLabels \in Labels /\ \A key \in Keys : NoLabels[key] = {}
    BY DEF NoLabels, Labels
  <1>2. \A key, language : Says(r, key, language) = {}
    BY DEF Says
  <1> QED
    BY <1>1, <1>2 DEF Gathered

\* Another file adds what it says, and takes the word from those of its language.
LEMMA FileGathered ==
    ASSUME NEW r \in Reading, NEW labels, Gathered(r, labels), NEW file \in Files,
           NEW s \in Reading, s.files = Append(r.files, file)
    PROVE  Gathered(s, AddFile(labels, file))
  <1> DEFINE n == Len(r.files)
             own == LanguageOf[file.folder]
             added == AddFile(labels, file)
  <1>1. /\ n \in Nat /\ Len(s.files) = n + 1 /\ s.files[n + 1] = file
        /\ \A k \in 1..n : s.files[k] = r.files[k]
    <2>1. r.files \in Seq(Files)
      BY DEF Reading
    <2> QED
      BY <2>1, AppendProperties
  <1>2. labels \in Labels /\ added \in Labels /\ own \in Languages
    BY AddFileType DEF Gathered, Files, Languages
  <1> HIDE DEF n
  <1>3. ASSUME NEW key, NEW language
        PROVE  Says(s, key, language)
                 = IF key \in file.keys /\ language = own THEN {Text(key, file.folder)}
                   ELSE Says(r, key, language)
    <2>1. Says(s, key, language) = SaysAfter(s.files, key, language, n + 1)
      BY <1>1, SaysIs
    <2>2. Says(r, key, language) = SaysAfter(r.files, key, language, n)
      BY SaysIs DEF n
    <2>3. SaysAfter(s.files, key, language, n) = SaysAfter(r.files, key, language, n)
      BY <1>1 DEF SaysAfter, Told
    <2>4. SaysAfter(s.files, key, language, n + 1)
            = IF Told(s.files, key, language, n + 1) THEN {Text(key, file.folder)}
              ELSE SaysAfter(s.files, key, language, n)
      <3> DEFINE m == n + 1
      <3>1. m \in Nat /\ m > 0 /\ m - 1 = n /\ s.files[m] = file
        BY <1>1
      <3> HIDE DEF m
      <3>2. SaysAfter(s.files, key, language, m)
              = IF Told(s.files, key, language, m) THEN {Text(key, s.files[m].folder)}
                ELSE SaysAfter(s.files, key, language, m - 1)
        BY <3>1, LastFileSays
      <3> QED
        BY <3>1, <3>2 DEF m
    <2>5. Told(s.files, key, language, n + 1) <=> key \in file.keys /\ language = own
      BY <1>1 DEF Told
    <2> QED
      BY <2>1, <2>2, <2>3, <2>4, <2>5
  <1>4. ASSUME NEW key \in Keys, NEW language, NEW text
        PROVE  <<language, text>> \in added[key]
               <=> language \in Languages /\ text \in Says(s, key, language)
    <2>0. <<language, text>> \in labels[key]
          <=> language \in Languages /\ text \in Says(r, key, language)
      BY DEF Gathered
    <2>1. CASE key \notin file.keys
      <3>1. added[key] = labels[key]
        BY <2>1 DEF AddFile
      <3> QED
        BY <1>3, <2>0, <2>1, <3>1
    <2>2. CASE key \in file.keys
      <3>1. added[key] = {t \in labels[key] : t[1] # own} \cup {<<own, Text(key, file.folder)>>}
        BY <2>2 DEF AddFile, Overwritten
      <3>2. CASE language = own
        BY <1>2, <1>3, <2>2, <3>1, <3>2
      <3>3. CASE language # own
        BY <1>3, <2>0, <3>1, <3>3
      <3> QED
        BY <3>2, <3>3
    <2> QED
      BY <2>1, <2>2
  <1> HIDE DEF added
  <1>5. Gathered(s, added)
    BY <1>2, <1>4 DEF Gathered
  <1> QED
    BY <1>5 DEF added

LEMMA LabelsAre ==
    ASSUME NEW p \in Reading, Gathered(p, allLabels), NEW key \in Keys
    PROVE  /\ allLabels[key]
                = UNION {{language} \X Says(p, key, language) : language \in Languages}
           /\ \A language, text :
                 <<language, text>> \in allLabels[key]
                 <=> language \in Languages /\ text \in Says(p, key, language)
           /\ \A t \in allLabels[key] : t = <<t[1], t[2]>>
  <1>1. allLabels[key] \subseteq Languages \X Texts
    BY DEF Gathered, Labels
  <1>2. \A language, text :
            <<language, text>> \in allLabels[key]
            <=> language \in Languages /\ text \in Says(p, key, language)
    BY DEF Gathered
  <1>3. \A t \in allLabels[key] : t = <<t[1], t[2]>>
    BY <1>1
  <1>4. \A language : \A t \in {language} \X Says(p, key, language) :
            t[1] = language /\ t[2] \in Says(p, key, language) /\ t = <<t[1], t[2]>>
    OBVIOUS
  <1>5. \A t : t \in allLabels[key]
               <=> \E language \in Languages : t \in {language} \X Says(p, key, language)
    BY <1>2, <1>3, <1>4
  <1> QED
    BY <1>2, <1>3, <1>5

-----------------------------------------------------------------------------
(* Items.                                                                  *)

\* Which keys have a translation, and whether it is an English one.
LEMMA KeysTranslated ==
    ASSUME NEW p \in Reading, Gathered(p, allLabels)
    PROVE  /\ {key \in Keys : allLabels[key] # {}} = Translated(p)
           /\ \A key \in Keys : (\E t \in allLabels[key] : t[1] = English)
                                <=> Says(p, key, English) # {}
  <1>1. ASSUME NEW key \in Keys
        PROVE  /\ \A language, text : <<language, text>> \in allLabels[key]
                     <=> language \in Languages /\ text \in Says(p, key, language)
               /\ \A t \in allLabels[key] : t = <<t[1], t[2]>>
    BY LabelsAre
  <1>2. ASSUME NEW key \in Keys, NEW t \in allLabels[key]
        PROVE  t[1] \in Languages /\ t[2] \in Says(p, key, t[1])
    BY <1>1
  <1>3. ASSUME NEW key \in Keys, NEW language \in Languages, NEW text \in Says(p, key, language)
        PROVE  <<language, text>> \in allLabels[key] /\ <<language, text>>[1] = language
    BY <1>1
  <1>4. \A key \in Keys : allLabels[key] # {}
                         <=> \E language \in Languages : Says(p, key, language) # {}
    BY <1>2, <1>3
  <1>5. \A key \in Keys : (\E t \in allLabels[key] : t[1] = English)
                         <=> Says(p, key, English) # {}
    <2>1. English \in Languages
      BY DEF Languages
    <2> QED
      BY <1>2, <1>3, <2>1
  <1> QED
    BY <1>4, <1>5 DEF Translated

\* With the labels gathered, an item is stored as expected of the files.
LEMMA LabelsOfVersion ==
    ASSUME NEW p \in Reading, Gathered(p, allLabels)
    PROVE  /\ {key \in Keys : allLabels[key] # {}} = Translated(p)
           /\ \A key \in Keys : WithEnglish(key) = Translations(p, key)
  <1>1. ASSUME NEW key \in Keys
        PROVE  WithEnglish(key) = Translations(p, key)
    <2>1. allLabels[key] = UNION {{language} \X Says(p, key, language) : language \in Languages}
      BY LabelsAre
    <2>2. (\E t \in allLabels[key] : t[1] = English) <=> Says(p, key, English) # {}
      BY KeysTranslated
    <2>3. CASE Says(p, key, English) # {}
      <3>1. WithEnglish(key) = allLabels[key]
        BY <2>2, <2>3 DEF WithEnglish
      <3>2. Translations(p, key)
              = UNION {{language} \X Says(p, key, language) : language \in Languages}
        BY <2>3 DEF Translations
      <3> QED
        BY <2>1, <3>1, <3>2
    <2>4. CASE Says(p, key, English) = {}
      <3>1. WithEnglish(key) = allLabels[key] \cup {<<English, Itself(key)>>}
        BY <2>2, <2>4 DEF WithEnglish
      <3>2. Translations(p, key)
              = (UNION {{language} \X Says(p, key, language) : language \in Languages})
                \cup {<<English, Itself(key)>>}
        BY <2>4 DEF Translations
      <3> QED
        BY <2>1, <3>1, <3>2
    <2> QED
      BY <2>3, <2>4
  <1> QED
    BY <1>1, KeysTranslated

LEMMA KnownIs ==
    ASSUME NEW p \in Reading, Gathered(p, allLabels), NEW item \in Items
    PROVE  /\ Known(item) \in Seq(Keys)
           /\ ToSet(Known(item)) = {item.labels[k] : k \in Keyed(p, item)}
           /\ Known(item) = <<>> <=> Keyed(p, item) = {}
           /\ Keyed(p, item) # {} =>
                 \E k \in Keyed(p, item) :
                    (\A j \in Keyed(p, item) : k <= j) /\ Known(item)[1] = item.labels[k]
  <1> DEFINE s == item.labels
             S == Translated(p)
             known == KeptAfter(s, S)[Len(s)]
  <1>1. s \in Seq(Keys) /\ Len(s) \in Nat /\ DOMAIN s = 1..Len(s) /\ Len(s) \in 0..Len(s)
    BY DEF Items
  <1>2. Known(item) = known
    BY LabelsOfVersion DEF Known, Among
  <1>3. Keyed(p, item) = {k \in 1..Len(s) : s[k] \in S}
    BY <1>1 DEF Keyed
  <1> HIDE DEF S, s
  <1>4. /\ \A e : e \in ToSet(known) <=> \E k \in 1..Len(s) : s[k] = e /\ e \in S
        /\ \A k \in 1..Len(s) :
              s[k] \in S /\ (\A j \in 1 .. k - 1 : s[j] \notin S) => known # <<>> /\ known[1] = s[k]
    <2>1. \A e : e \in ToSet(known) <=> \E k \in 1..Len(s) : s[k] = e /\ e \in S
      BY <1>1, KeptIs DEF known
    <2>2. ASSUME NEW k \in 1..Len(s), s[k] \in S, \A j \in 1 .. k - 1 : s[j] \notin S
          PROVE  known # <<>> /\ known[1] = s[k]
      BY <1>1, <2>2, KeptIs DEF known
    <2> QED
      BY <2>1, <2>2
  <1>5. known \in Seq(Keys)
    <2>1. known \in Seq(Keys \cap S)
      BY <1>1, KeptIsLoop DEF known, Keeps
    <2> QED
      BY <2>1, SeqMonotonic
  <1> HIDE DEF known
  <1>6. ToSet(known) = {s[k] : k \in Keyed(p, item)}
    BY <1>4, <1>3
  <1>7. ASSUME Keyed(p, item) # {}
        PROVE  \E k \in Keyed(p, item) :
                  (\A j \in Keyed(p, item) : k <= j) /\ known[1] = s[k] /\ known # <<>>
    <2>1. Keyed(p, item) \in SUBSET Nat
      BY <1>1, <1>3
    <2>2. PICK k \in Keyed(p, item) : \A j \in Keyed(p, item) : k <= j
      BY <1>7, <2>1, LeastNumber
    <2>3. k \in 1..Len(s) /\ s[k] \in S
      BY <1>3, <2>2
    <2>4. \A j \in 1 .. k - 1 : s[j] \notin S
      <3>1. \A j \in 1 .. k - 1 : j \in 1..Len(s) /\ ~(k <= j)
        BY <1>1, <2>3
      <3> QED
        BY <1>3, <2>2, <3>1
    <2> QED
      BY <1>4, <2>2, <2>3, <2>4
  <1>8. Keyed(p, item) = {} => known = <<>>
    <2>1. Keyed(p, item) = {} => ToSet(known) = {}
      BY <1>6
    <2>2. ToSet(known) = {} => DOMAIN known = {}
      BY DEF ToSet
    <2>3. DOMAIN known = {} => known = <<>>
      BY <1>5, LenProperties, EmptySeq
    <2> QED
      BY <2>1, <2>2, <2>3
  <1> QED
    BY <1>2, <1>5, <1>6, <1>7, <1>8 DEF s

LEMMA ItemIsExpected ==
    ASSUME NEW p \in Reading, Gathered(p, allLabels), NEW item \in Items
    PROVE  /\ Skipped(item) <=> ~Wanted(p, item)
           /\ Wanted(p, item) => SearchItem(item) = Made(p, item)
  <1>1. Skipped(item) <=> ~Wanted(p, item)
    BY KnownIs DEF Skipped, Wanted
  <1>2. ASSUME Wanted(p, item)
        PROVE  SearchItem(item) = Made(p, item)
    <2> DEFINE First == CHOOSE k \in Keyed(p, item) : \A j \in Keyed(p, item) : k <= j
    <2>1. Keyed(p, item) # {}
      BY <1>2 DEF Wanted
    <2>2. PICK k \in Keyed(p, item) :
              (\A j \in Keyed(p, item) : k <= j) /\ Known(item)[1] = item.labels[k]
      BY <2>1, KnownIs
    <2>3. Keyed(p, item) \subseteq Nat /\ \A j \in Keyed(p, item) : item.labels[j] \in Keys
      BY ElementOfSeq DEF Keyed, Items
    <2>4. First = k
      BY <2>2, <2>3
    <2> HIDE DEF First
    <2>5. Titled(item) = Translations(p, item.labels[First])
      <3>1. item.launches /\ Known(item) # <<>>
        BY <1>2, <2>1, KnownIs DEF Wanted
      <3>2. WithEnglish(item.labels[First]) = Translations(p, item.labels[First])
        BY <2>2, <2>3, <2>4, LabelsOfVersion
      <3> QED
        BY <2>2, <2>4, <3>1, <3>2 DEF Titled
    <2>6. {{t[2] : t \in WithEnglish(key)} : key \in ToSet(Known(item))}
            = {{t[2] : t \in Translations(p, item.labels[j])} : j \in Keyed(p, item)}
      <3>1. \A j \in Keyed(p, item) :
                WithEnglish(item.labels[j]) = Translations(p, item.labels[j])
        BY <2>3, LabelsOfVersion
      <3>2. ToSet(Known(item)) = {item.labels[j] : j \in Keyed(p, item)}
        BY KnownIs
      <3> QED
        BY <3>1, <3>2
    <2>7. UNION {{t[2] : t \in Translations(p, item.labels[j])} : j \in Keyed(p, item)}
            = {t[2] : t \in UNION {Translations(p, item.labels[j]) : j \in Keyed(p, item)}}
      OBVIOUS
    <2> QED
      BY <2>5, <2>6, <2>7 DEF SearchItem, Made, First
  <1> QED
    BY <1>1, <1>2

-----------------------------------------------------------------------------
(* The index, item by item.                                                *)

WantedOf(p) == {item \in ToSet(p.items) : Wanted(p, item)}

\* What is stored when n items were gone through.
Indexed(p, n) ==
    LET wanted == KeptAfter(p.items, WantedOf(p))[n]
    IN  [k \in DOMAIN wanted |-> Made(p, wanted[k])]

LEMMA WantedKept ==
    ASSUME NEW p \in Reading
    PROVE  /\ p.items \in Seq(Items) /\ Len(p.items) \in Nat
           /\ \A n \in 0..Len(p.items) :
                 /\ KeptAfter(p.items, WantedOf(p))[n] \in Seq(Items \cap WantedOf(p))
                 /\ Len(KeptAfter(p.items, WantedOf(p))[n]) \in Nat
                 /\ DOMAIN KeptAfter(p.items, WantedOf(p))[n]
                       = 1..Len(KeptAfter(p.items, WantedOf(p))[n])
           /\ KeptAfter(p.items, WantedOf(p))[0] = <<>>
           /\ \A n \in 1..Len(p.items) :
                 /\ p.items[n] \in Items /\ (p.items[n] \in WantedOf(p) <=> Wanted(p, p.items[n]))
                 /\ KeptAfter(p.items, WantedOf(p))[n]
                       = IF Wanted(p, p.items[n])
                         THEN Append(KeptAfter(p.items, WantedOf(p))[n - 1], p.items[n])
                         ELSE KeptAfter(p.items, WantedOf(p))[n - 1]
  <1> DEFINE W == WantedOf(p)
             f == KeptAfter(p.items, W)
  <1>1. p.items \in Seq(Items) /\ Len(p.items) \in Nat /\ DOMAIN p.items = 1..Len(p.items)
    BY DEF Reading
  <1>2. \A n \in 1..Len(p.items) :
            p.items[n] \in Items /\ (p.items[n] \in WantedOf(p) <=> Wanted(p, p.items[n]))
    BY <1>1, ElementOfSeq DEF WantedOf, ToSet
  <1> HIDE DEF W
  <1>3. /\ f \in [0..Len(p.items) -> Seq(Items \cap W)] /\ f[0] = <<>>
        /\ \A n \in 1..Len(p.items) :
              f[n] = IF p.items[n] \in W THEN Append(f[n - 1], p.items[n]) ELSE f[n - 1]
    <2>1. Keeps(f, p.items, Items, W)
      BY <1>1, KeptIsLoop
    <2> HIDE DEF f
    <2> QED
      BY <2>1 DEF Keeps
  <1> HIDE DEF f
  <1>4. \A n \in 0..Len(p.items) : f[n] \in Seq(Items \cap W)
    BY <1>3
  <1>5. \A n \in 0..Len(p.items) : Len(f[n]) \in Nat /\ DOMAIN f[n] = 1..Len(f[n])
    BY <1>4, LenProperties
  <1> QED
    BY <1>1, <1>2, <1>3, <1>4, <1>5 DEF f, W

LEMMA ExpectedIsIndexed ==
    ASSUME NEW p \in Reading
    PROVE  Expected(p) = Indexed(p, Len(p.items))
  BY DEF Expected, Indexed, Among, WantedOf

LEMMA NothingIndexed ==
    ASSUME NEW p \in Reading
    PROVE  Indexed(p, 0) = <<>>
  <1>1. KeptAfter(p.items, WantedOf(p))[0] = <<>>
    BY WantedKept
  <1>2. [k \in DOMAIN <<>> |-> Made(p, <<>>[k])] = <<>>
    OBVIOUS
  <1> QED
    BY <1>1, <1>2 DEF Indexed

LEMMA IndexedTurn ==
    ASSUME NEW p \in Reading, NEW n \in 1..Len(p.items)
    PROVE  Indexed(p, n) = IF Wanted(p, p.items[n])
                           THEN Append(Indexed(p, n - 1), Made(p, p.items[n]))
                           ELSE Indexed(p, n - 1)
  <1> DEFINE before == KeptAfter(p.items, WantedOf(p))[n - 1]
             after == KeptAfter(p.items, WantedOf(p))[n]
             item == p.items[n]
  <1>1. n - 1 \in 0..Len(p.items) /\ Len(p.items) \in Nat
    BY WantedKept
  <1>2. /\ after = IF Wanted(p, item) THEN Append(before, item) ELSE before
        /\ before \in Seq(Items \cap WantedOf(p)) /\ Len(before) \in Nat
        /\ DOMAIN before = 1..Len(before)
        /\ item \in Items /\ (item \in WantedOf(p) <=> Wanted(p, item))
    BY <1>1, WantedKept
  <1>3. /\ Indexed(p, n - 1) = [k \in DOMAIN before |-> Made(p, before[k])]
        /\ Indexed(p, n) = [k \in DOMAIN after |-> Made(p, after[k])]
    BY DEF Indexed
  <1> HIDE DEF before, after, item
  <1>4. CASE ~Wanted(p, item)
    BY <1>2, <1>3, <1>4 DEF item
  <1>5. CASE Wanted(p, item)
    <2> DEFINE old == [k \in 1..Len(before) |-> Made(p, before[k])]
    <2>1. /\ Len(after) = Len(before) + 1 /\ after \in Seq(Items \cap WantedOf(p))
          /\ \A k \in 1..Len(before) : after[k] = before[k]
          /\ after[Len(before) + 1] = item
      BY <1>2, <1>5, AppendProperties
    <2>2. DOMAIN after = 1 .. Len(before) + 1
      BY <2>1, LenProperties
    <2>3. old \in Seq({Made(p, e) : e \in Items}) /\ Len(old) = Len(before)
      <3>1. \A k \in 1..Len(before) : before[k] \in Items
        BY <1>2, ElementOfSeq
      <3>2. \A k \in 1..Len(before) : Made(p, before[k]) \in {Made(p, e) : e \in Items}
        BY <3>1
      <3> QED
        BY <1>2, <3>2, IsASeq
    <2>4. Append(old, Made(p, item))
            = [k \in 1 .. Len(before) + 1 |-> IF k = Len(before) + 1 THEN Made(p, item) ELSE old[k]]
      BY <1>2, <2>3
    <2>5. \A k \in 1 .. Len(before) + 1 :
              Made(p, after[k]) = IF k = Len(before) + 1 THEN Made(p, item) ELSE old[k]
      BY <1>2, <2>1
    <2>6. Indexed(p, n) = Append(old, Made(p, item))
      BY <1>3, <2>2, <2>4, <2>5
    <2> QED
      BY <1>2, <1>3, <1>5, <2>6 DEF item
  <1> QED
    BY <1>4, <1>5

\* What is stored half way is a part of the index.
LEMMA IndexedIsPrefix ==
    ASSUME NEW p \in Reading, NEW n \in 0..Len(p.items)
    PROVE  IsPrefix(Indexed(p, n), Expected(p))
  <1> DEFINE half == KeptAfter(p.items, WantedOf(p))[n]
             all == KeptAfter(p.items, WantedOf(p))[Len(p.items)]
             M(s) == [k \in 1..Len(s) |-> Made(p, s[k])]
  <1>1. /\ p.items \in Seq(Items) /\ Len(p.items) \in n..Len(p.items)
        /\ Len(p.items) \in 0..Len(p.items)
    <2>1. p.items \in Seq(Items) /\ Len(p.items) \in Nat
      BY WantedKept
    <2> QED
      BY <2>1
  <1>2. /\ Len(half) <= Len(all) /\ \A i \in 1..Len(half) : all[i] = half[i]
        /\ Len(half) \in Nat /\ Len(all) \in Nat
        /\ DOMAIN half = 1..Len(half) /\ DOMAIN all = 1..Len(all)
        /\ half \in Seq(Items) /\ all \in Seq(Items)
    <2>1. /\ Len(half) <= Len(all) /\ \A i \in 1..Len(half) : all[i] = half[i]
          /\ half \in Seq(Items) /\ all \in Seq(Items)
      <3>1. half \in Seq(Items) /\ all \in Seq(Items) /\ Extends(half, all)
        BY <1>1, KeptStays
      <3> QED
        BY <3>1 DEF Extends
    <2> QED
      BY <2>1, LenProperties
  <1>3. Indexed(p, n) = M(half) /\ Expected(p) = M(all)
    BY <1>2, ExpectedIsIndexed DEF Indexed
  <1> HIDE DEF half, all
  <1> DEFINE S == {Made(p, e) : e \in Items}
  <1>4. ASSUME NEW s \in Seq(Items)
        PROVE  M(s) \in Seq(S) /\ Len(M(s)) = Len(s)
    <2>1. \A k \in 1..Len(s) : Made(p, s[k]) \in S
      BY ElementOfSeq
    <2> QED
      BY <2>1, IsASeq
  <1>5. \A i \in 1..Len(half) : M(all)[i] = M(half)[i]
    BY <1>2
  <1>6. M(half) \in Seq(S) /\ M(all) \in Seq(S) /\ Len(M(half)) = Len(half) /\ Len(M(all)) = Len(all)
    BY <1>2, <1>4
  <1> HIDE DEF M, S
  <1>7. SubSeq(M(half), 1, Len(half)) = SubSeq(M(all), 1, Len(half))
    BY <1>2, <1>5, <1>6
  <1> QED
    BY <1>2, <1>3, <1>6, <1>7 DEF IsPrefix

-----------------------------------------------------------------------------
(* Titles.                                                                 *)

\* A key has one text in each language it is translated to, English among them.
LEMMA TranslationsTell ==
    ASSUME NEW p \in Reading, NEW key \in Keys
    PROVE  /\ \A t \in Translations(p, key) : t[1] \in Languages
           /\ \A t, u \in Translations(p, key) : t[1] = u[1] => t = u
           /\ \E t \in Translations(p, key) : t[1] = English
  <1> DEFINE Said == UNION {{language} \X Says(p, key, language) : language \in Languages}
  <1>1. \A t \in Said : /\ t[1] \in Languages /\ t[2] \in Says(p, key, t[1])
                        /\ t = <<t[1], t[2]>>
    OBVIOUS
  <1>2. \A language : \A a, b \in Says(p, key, language) : a = b
    BY SaysIs
  <1>3. \A t, u \in Said : t[1] = u[1] => t = u
    BY <1>1, <1>2
  <1>4. English \in Languages
    BY DEF Languages
  <1>5. CASE Says(p, key, English) # {}
    <2>1. Translations(p, key) = Said
      BY <1>5 DEF Translations
    <2>2. PICK text \in Says(p, key, English) : TRUE
      BY <1>5
    <2>3. <<English, text>> \in Said /\ <<English, text>>[1] = English
      BY <1>4, <2>2
    <2> HIDE DEF Said
    <2> QED
      BY <1>1, <1>3, <2>1, <2>3
  <1>6. CASE Says(p, key, English) = {}
    <2> DEFINE own == <<English, Itself(key)>>
    <2>1. Translations(p, key) = Said \cup {own}
      BY <1>6 DEF Translations
    <2>2. own[1] = English
      OBVIOUS
    <2>3. \A t \in Said : t[1] # English
      BY <1>1, <1>6
    <2> HIDE DEF Said, own
    <2> QED
      BY <1>1, <1>3, <1>4, <2>1, <2>2, <2>3
  <1> QED
    BY <1>5, <1>6

\* What is stored for an item has one title in each language, and is found by it.
LEMMA MadeShows ==
    ASSUME NEW p \in Reading, NEW item \in Items, Wanted(p, item), NEW language
    PROVE  /\ Made(p, item).title # {} /\ Made(p, item).value # {}
           /\ \E text \in Made(p, item).value : ShownTitle(Made(p, item), language) = {text}
  <1> DEFINE keyed == Keyed(p, item)
             First == CHOOSE k \in keyed : \A j \in keyed : k <= j
             title == Translations(p, item.labels[First])
             In(l) == {t[2] : t \in {u \in title : u[1] = l}}
  <1>1. keyed \in SUBSET Nat /\ \A k \in keyed : item.labels[k] \in Keys
    BY ElementOfSeq DEF Keyed, Items
  <1>2. keyed # {}
    BY DEF Wanted
  <1> HIDE DEF keyed
  <1>3. \E k \in keyed : \A j \in keyed : k <= j
    BY <1>1, <1>2, LeastNumber
  <1>4. First \in keyed
    BY <1>3
  <1>5. /\ Made(p, item).title = title
        /\ Made(p, item).value
             = {t[2] : t \in UNION {Translations(p, item.labels[k]) : k \in keyed}}
    BY DEF Made, keyed
  <1> HIDE DEF First
  <1>6. \A t \in title : t[2] \in Made(p, item).value
    BY <1>4, <1>5
  <1>7. /\ \A t, u \in title : t[1] = u[1] => t = u
        /\ \E t \in title : t[1] = English
    BY <1>1, <1>4, TranslationsTell
  <1> HIDE DEF title
  <1>8. \A l : \A t \in title : t[1] = l => In(l) = {t[2]}
    BY <1>7
  <1>9. ShownTitle(Made(p, item), language)
          = IF In(language) # {} THEN In(language) ELSE In(English)
    BY <1>5 DEF ShownTitle
  <1>10. In(language) # {} => \E t \in title : t[1] = language
    OBVIOUS
  <1>11. \E t \in title : ShownTitle(Made(p, item), language) = {t[2]}
    BY <1>7, <1>8, <1>9, <1>10
  <1> QED
    BY <1>5, <1>6, <1>11

-----------------------------------------------------------------------------
(* What is built.                                                          *)

FirstFiles(version, n) == [k \in 1..n |-> FileOf(version, version.manifest[k])]

\* Where the reads have come to, and that they were of one version.
ReadOfOne ==
    /\ phase = "manifest" => read = [files |-> <<>>, items |-> package.items]
    /\ phase = "labels" =>
          \E n \in 0..Len(package.manifest) :
             /\ left = SubSeq(package.manifest, n + 1, Len(package.manifest))
             /\ read = [files |-> FirstFiles(package, n), items |-> package.items]
    /\ phase \in {"building", "built"} => \E version \in Packages : read = Whole(version)

\* How far the loops over the files and over the items have come says what is gathered
\* and what is stored, whether they go on or a death ended them.
IInv ==
    /\ package \in Packages /\ read \in Reading /\ mixed \in BOOLEAN
    /\ phase \in {"down", "manifest", "labels", "building", "built"}
    /\ left \in Seq(Folders)
    /\ Gathered(read, allLabels)
    /\ \E n \in 0..Len(read.items) :
          /\ stored = Indexed(read, n)
          /\ todo = IF phase = "building" THEN SubSeq(read.items, n + 1, Len(read.items)) ELSE <<>>
    /\ phase \in {"manifest", "labels"} => stored = <<>>
    /\ phase = "built" => stored = Expected(read)
    /\ mixed \/ ReadOfOne

LEMMA VersionsTyped ==
    ASSUME IInv
    PROVE  /\ package \in Package /\ package.manifest \in Seq(Folders)
           /\ package.items \in Seq(Items) /\ Len(package.manifest) \in Nat
           /\ read \in Reading /\ read.files \in Seq(Files)
           /\ read.items \in Seq(Items) /\ Len(read.items) \in Nat
  BY PackagesAssumption DEF IInv, Package, Reading

\* Before the first file nothing is gathered and nothing stored.
LEMMA NothingRead ==
    ASSUME NEW items \in Seq(Items)
    PROVE  LET r == [files |-> <<>>, items |-> items]
           IN  /\ r \in Reading /\ Gathered(r, NoLabels)
               /\ <<>> = Indexed(r, 0) /\ 0 \in 0..Len(r.items)
  <1> DEFINE r == [files |-> <<>>, items |-> items]
  <1>1. r \in Reading /\ r.files = <<>> /\ r.items = items
    <2>1. <<>> \in Seq(Files)
      BY EmptySeq
    <2> QED
      BY <2>1 DEF Reading
  <1> HIDE DEF r
  <1>2. Len(r.items) \in Nat
    BY <1>1
  <1>3. Gathered(r, NoLabels) /\ <<>> = Indexed(r, 0)
    BY <1>1, NothingGathered, NothingIndexed
  <1> QED
    BY <1>1, <1>2, <1>3 DEF r

LEMMA InitInv == Init => IInv
  <1> SUFFICES ASSUME Init PROVE IInv
    OBVIOUS
  <1>1. <<>> \in Seq(Items) /\ <<>> \in Seq(Folders)
    BY EmptySeq
  <1>2. /\ read \in Reading /\ Gathered(read, allLabels)
        /\ <<>> = Indexed(read, 0) /\ 0 \in 0..Len(read.items)
    BY <1>1, NothingRead DEF Init
  <1> QED
    BY <1>1, <1>2 DEF Init, IInv, ReadOfOne

\* Nothing is expected of what has no labels.
LEMMA UnlabelledIsEmpty ==
    ASSUME NEW p \in Reading, Translated(p) = {}
    PROVE  Expected(p) = <<>>
  <1> DEFINE n == Len(p.items)
             f == KeptAfter(p.items, WantedOf(p))
  <1>1. n \in Nat /\ f[n] \in Seq(Items \cap WantedOf(p))
    <2>1. n \in Nat /\ n \in 0..n
      BY WantedKept
    <2> QED
      BY <2>1, WantedKept
  <1>2. WantedOf(p) = {}
    BY DEF WantedOf, Wanted, Keyed
  <1>3. f[n] = <<>>
    <2>1. f[n] \in Seq({})
      BY <1>1, <1>2
    <2> HIDE DEF f, n
    <2>2. \A i \in 1..Len(f[n]) : f[n][i] \in {}
      BY <2>1, ElementOfSeq
    <2>3. Len(f[n]) = 0
      BY <2>1, <2>2, LenProperties
    <2> QED
      BY <2>1, <2>3, EmptySeq
  <1>4. [k \in DOMAIN <<>> |-> Made(p, <<>>[k])] = <<>>
    OBVIOUS
  <1> QED
    BY <1>3, <1>4, ExpectedIsIndexed DEF Indexed

LEMMA CreateIndexesInv == IInv /\ CreateIndexes => IInv'
  <1> SUFFICES ASSUME IInv, CreateIndexes PROVE IInv'
    OBVIOUS
  <1>1. /\ phase' = "manifest" /\ stored' = <<>> /\ allLabels' = NoLabels /\ mixed' = FALSE
        /\ read' = [files |-> <<>>, items |-> package.items]
        /\ UNCHANGED <<package, left, todo>> /\ phase \in {"down", "built"}
    BY DEF CreateIndexes, Erased
  <1>2. /\ read' \in Reading /\ Gathered(read', NoLabels)
        /\ <<>> = Indexed(read', 0) /\ 0 \in 0..Len(read'.items)
    BY <1>1, VersionsTyped, NothingRead
  <1>3. todo = <<>>
    BY <1>1 DEF IInv
  <1>4. Gathered(read, allLabels)'
    BY <1>1, <1>2 DEF Gathered, Says
  <1>5. ReadOfOne'
    BY <1>1 DEF ReadOfOne
  <1>6. (\E n \in 0..Len(read.items) : /\ stored = Indexed(read, n)
           /\ todo = IF phase = "building" THEN SubSeq(read.items, n + 1, Len(read.items))
                     ELSE <<>>)'
    BY <1>1, <1>2, <1>3
  <1> QED
    BY <1>1, <1>2, <1>4, <1>5, <1>6 DEF IInv

LEMMA ReadManifestInv == IInv /\ ReadManifest => IInv'
  <1> SUFFICES ASSUME IInv, ReadManifest PROVE IInv'
    OBVIOUS
  <1>1. /\ phase = "manifest" /\ phase' = "labels" /\ left' = package.manifest
        /\ UNCHANGED <<package, allLabels, todo, stored, read, mixed>>
    BY DEF ReadManifest
  <1>2. package.manifest \in Seq(Folders) /\ Len(package.manifest) \in Nat
    BY VersionsTyped
  <1>3. mixed \/ ReadOfOne'
    <2> SUFFICES ASSUME ~mixed PROVE ReadOfOne'
      OBVIOUS
    <2>1. read = [files |-> <<>>, items |-> package.items]
      BY <1>1 DEF IInv, ReadOfOne
    <2>2. FirstFiles(package, 0) = <<>>
      BY DEF FirstFiles
    <2>3. package.manifest = SubSeq(package.manifest, 0 + 1, Len(package.manifest))
      BY <1>2, SubSeqFull
    <2>4. 0 \in 0..Len(package.manifest)
      BY <1>2
    <2>5. \E n \in 0..Len(package.manifest) :
             /\ package.manifest = SubSeq(package.manifest, n + 1, Len(package.manifest))
             /\ read = [files |-> FirstFiles(package, n), items |-> package.items]
      BY <2>1, <2>2, <2>3, <2>4
    <2> QED
      BY <1>1, <2>5 DEF ReadOfOne, FirstFiles, FileOf
  <1> QED
    BY <1>1, <1>2, <1>3 DEF IInv, Gathered, Says, Indexed, Expected

LEMMA ReadLabelsInv == IInv /\ ReadLabels => IInv'
  <1> SUFFICES ASSUME IInv, ReadLabels PROVE IInv'
    OBVIOUS
  <1> DEFINE manifest == package.manifest
             file == FileOf(package, Head(left))
  <1>1. /\ phase = "labels" /\ left # <<>> /\ left' = Tail(left)
        /\ allLabels' = AddFile(allLabels, file)
        /\ read' = [read EXCEPT !.files = Append(@, file)]
        /\ UNCHANGED <<package, phase, todo, stored, mixed>>
    BY DEF ReadLabels
  <1>2. /\ package \in Package /\ manifest \in Seq(Folders) /\ Len(manifest) \in Nat
        /\ read \in Reading /\ read.files \in Seq(Files) /\ read.items \in Seq(Items)
    BY VersionsTyped
  <1>3. left \in Seq(Folders) /\ Head(left) \in Folders /\ Tail(left) \in Seq(Folders)
    <2>1. left \in Seq(Folders)
      BY DEF IInv
    <2> QED
      BY <1>1, <2>1, HeadTailProperties
  <1>4. file \in Files
    BY <1>2, <1>3 DEF FileOf, Files, Package
  <1> HIDE DEF file, manifest
  <1>5. read' = [files |-> Append(read.files, file), items |-> read.items]
    BY <1>1, <1>2 DEF Reading
  <1>6. /\ read' \in Reading /\ read'.files = Append(read.files, file)
        /\ read'.items = read.items
    <2>1. Append(read.files, file) \in Seq(Files)
      BY <1>2, <1>4, AppendProperties
    <2> QED
      BY <1>2, <1>5, <2>1 DEF Reading
  <1>7. Gathered(read', AddFile(allLabels, file))
    <2>1. Gathered(read, allLabels)
      BY DEF IInv
    <2> QED
      BY <1>2, <1>4, <1>6, <2>1, FileGathered
  <1>8. stored = <<>> /\ todo = <<>>
    BY <1>1 DEF IInv
  <1>9. <<>> = Indexed(read', 0) /\ 0 \in 0..Len(read'.items)
    BY <1>2, <1>6, NothingIndexed
  <1>10. mixed \/ ReadOfOne'
    <2> SUFFICES ASSUME ~mixed PROVE ReadOfOne'
      OBVIOUS
    <2>1. PICK n \in 0..Len(manifest) :
              /\ left = SubSeq(manifest, n + 1, Len(manifest))
              /\ read = [files |-> FirstFiles(package, n), items |-> package.items]
      BY <1>1 DEF IInv, ReadOfOne, manifest
    <2>2. n # Len(manifest)
      <3>1. SubSeq(manifest, Len(manifest) + 1, Len(manifest)) = <<>>
        BY <1>2, SubSeqEmpty
      <3> QED
        BY <1>1, <2>1, <3>1
    <2>3. n + 1 \in 1..Len(manifest) /\ Len(manifest) \in n + 1 .. Len(manifest)
          /\ n \in Nat
      BY <1>2, <2>1, <2>2
    <2>4. Head(left) = manifest[n + 1] /\ Tail(left) = SubSeq(manifest, (n + 1) + 1, Len(manifest))
      BY <1>2, <2>1, <2>3, HeadTailOfSubSeq
    <2>5. read.files = FirstFiles(package, n) /\ read.items = package.items
      BY <2>1
    <2>6. Append(FirstFiles(package, n), file) = FirstFiles(package, n + 1)
      <3> DEFINE old == FirstFiles(package, n)
      <3>1. old \in Seq(Files) /\ old = [k \in 1..n |-> FileOf(package, package.manifest[k])]
        BY <1>2, <2>5 DEF FirstFiles
      <3>2. Len(old) = n
        BY <2>3, <3>1, LenProperties
      <3>3. Append(old, file) = [k \in 1 .. n + 1 |-> IF k = n + 1 THEN file ELSE old[k]]
        BY <3>1, <3>2
      <3>4. file = FileOf(package, package.manifest[n + 1])
        BY <2>4 DEF file, manifest
      <3>5. \A k \in 1 .. n + 1 : FileOf(package, package.manifest[k])
                                    = IF k = n + 1 THEN file ELSE old[k]
        BY <2>3, <3>1, <3>4
      <3> QED
        BY <3>3, <3>5 DEF FirstFiles
    <2>7. /\ left' = SubSeq(manifest, (n + 1) + 1, Len(manifest))
          /\ read' = [files |-> FirstFiles(package, n + 1), items |-> package.items]
      BY <1>1, <1>5, <2>4, <2>5, <2>6
    <2>8. n + 1 \in 0..Len(manifest)
      BY <2>3
    <2>9. \E m \in 0..Len(package.manifest) :
             /\ left' = SubSeq(package.manifest, m + 1, Len(package.manifest))
             /\ read' = [files |-> FirstFiles(package, m), items |-> package.items]
      BY <2>7, <2>8 DEF manifest
    <2>10. phase' = "labels" /\ package' = package
      BY <1>1
    <2> QED
      BY <2>9, <2>10 DEF ReadOfOne, FirstFiles, FileOf
  <1>11. Gathered(read, allLabels)'
    BY <1>1, <1>7 DEF Gathered, Says
  <1>12. (\E n \in 0..Len(read.items) : /\ stored = Indexed(read, n)
           /\ todo = IF phase = "building" THEN SubSeq(read.items, n + 1, Len(read.items))
                     ELSE <<>>)'
    BY <1>1, <1>8, <1>9
  <1> QED
    BY <1>1, <1>3, <1>6, <1>8, <1>10, <1>11, <1>12 DEF IInv

LEMMA LabelsReadInv == IInv /\ LabelsRead => IInv'
  <1> SUFFICES ASSUME IInv, LabelsRead PROVE IInv'
    OBVIOUS
  <1> DEFINE labelled == \E key \in Keys : allLabels[key] # {}
             items == read.items
             manifest == package.manifest
  <1>1. /\ phase = "labels" /\ left = <<>>
        /\ todo' = IF labelled THEN items ELSE <<>>
        /\ phase' = IF labelled THEN "building" ELSE "built"
        /\ UNCHANGED <<package, left, allLabels, stored, read, mixed>>
    BY DEF LabelsRead
  <1>2. /\ read \in Reading /\ items \in Seq(Items) /\ Len(items) \in Nat
        /\ manifest \in Seq(Folders) /\ Len(manifest) \in Nat
    BY VersionsTyped
  <1>3. stored = <<>> /\ <<>> = Indexed(read, 0) /\ 0 \in 0..Len(items)
    BY <1>1, <1>2, NothingIndexed DEF IInv
  <1>4. mixed \/ \E version \in Packages : read = Whole(version)
    <2> SUFFICES ASSUME ~mixed PROVE read = Whole(package)
      BY DEF IInv
    <2>1. PICK n \in 0..Len(manifest) :
              /\ left = SubSeq(manifest, n + 1, Len(manifest))
              /\ read = [files |-> FirstFiles(package, n), items |-> package.items]
      BY <1>1 DEF IInv, ReadOfOne
    <2>2. n = Len(manifest)
      <3>1. \A i \in n + 1 .. Len(manifest) : manifest[i] \in Folders
        <4>1. \A i \in n + 1 .. Len(manifest) : i \in 1..Len(manifest)
          BY <1>2
        <4> QED
          BY <1>2, <4>1, ElementOfSeq
      <3>2. Len(left) = Len(manifest) - n
        BY <1>2, <2>1, <3>1, SubSeqProperties
      <3> QED
        BY <1>1, <1>2, <3>2
    <2>3. DOMAIN manifest = 1..n
      BY <1>2, <2>2, LenProperties
    <2> QED
      BY <2>1, <2>3 DEF Whole, FirstFiles
  <1>5. labelled => items = SubSeq(items, 0 + 1, Len(items))
    BY <1>2, SubSeqFull
  <1>6. ~labelled => stored = Expected(read)
    <2> SUFFICES ASSUME ~labelled PROVE stored = Expected(read)
      OBVIOUS
    <2>1. Gathered(read, allLabels)
      BY DEF IInv
    <2>2. Translated(read) = {}
      BY <1>2, <2>1, KeysTranslated
    <2> QED
      BY <1>2, <1>3, <2>2, UnlabelledIsEmpty
  <1> HIDE DEF labelled
  <1>7. \E n \in 0..Len(items) :
           /\ stored = Indexed(read, n)
           /\ todo' = IF phase' = "building" THEN SubSeq(items, n + 1, Len(items)) ELSE <<>>
    BY <1>1, <1>3, <1>5
  <1>8. phase' = "built" => stored = Expected(read)
    BY <1>1, <1>6
  <1>9. mixed \/ ReadOfOne'
    BY <1>1, <1>4 DEF ReadOfOne, Whole, FileOf
  <1>10. Gathered(read, allLabels)'
    BY <1>1 DEF IInv, Gathered, Says
  <1>11. (\E n \in 0..Len(read.items) : /\ stored = Indexed(read, n)
           /\ todo = IF phase = "building" THEN SubSeq(read.items, n + 1, Len(read.items))
                     ELSE <<>>)'
    BY <1>1, <1>7
  <1>12. (phase = "built" => stored = Expected(read))'
    BY <1>1, <1>8
  <1>13. phase' \in {"building", "built"}
    BY <1>1
  <1> QED
    BY <1>1, <1>9, <1>10, <1>11, <1>12, <1>13 DEF IInv

LEMMA IndexItemInv == IInv /\ IndexItem => IInv'
  <1> SUFFICES ASSUME IInv, IndexItem PROVE IInv'
    OBVIOUS
  <1> DEFINE items == read.items
  <1>1. /\ phase = "building" /\ todo # <<>> /\ todo' = Tail(todo)
        /\ stored' = IF Skipped(Head(todo)) THEN stored
                     ELSE Append(stored, SearchItem(Head(todo)))
        /\ UNCHANGED <<package, read, phase, left, allLabels, mixed>>
    BY DEF IndexItem
  <1>2. PICK n \in 0..Len(items) :
            stored = Indexed(read, n) /\ todo = SubSeq(items, n + 1, Len(items))
    BY <1>1 DEF IInv
  <1>3. read \in Reading /\ items \in Seq(Items) /\ Len(items) \in Nat
    BY VersionsTyped
  <1>4. n # Len(items)
    <2>1. SubSeq(items, Len(items) + 1, Len(items)) = <<>>
      BY <1>3, SubSeqEmpty
    <2> QED
      BY <1>1, <1>2, <2>1
  <1>5. n + 1 \in 1..Len(items) /\ Len(items) \in n + 1 .. Len(items) /\ (n + 1) - 1 = n
    BY <1>2, <1>3, <1>4
  <1>6. Head(todo) = items[n + 1] /\ Tail(todo) = SubSeq(items, (n + 1) + 1, Len(items))
    BY <1>2, <1>3, <1>5, HeadTailOfSubSeq
  <1>7. items[n + 1] \in Items
    BY <1>3, <1>5, ElementOfSeq
  <1>8. /\ Skipped(items[n + 1]) <=> ~Wanted(read, items[n + 1])
        /\ Wanted(read, items[n + 1]) => SearchItem(items[n + 1]) = Made(read, items[n + 1])
    <2>1. Gathered(read, allLabels)
      BY DEF IInv
    <2> QED
      BY <1>3, <1>7, <2>1, ItemIsExpected
  <1>9. Indexed(read, n + 1) = IF Wanted(read, items[n + 1])
                               THEN Append(Indexed(read, n), Made(read, items[n + 1]))
                               ELSE Indexed(read, n)
    BY <1>3, <1>5, IndexedTurn
  <1>10. stored' = Indexed(read, n + 1)
    BY <1>1, <1>2, <1>6, <1>8, <1>9
  <1>11. read' = read /\ todo' = SubSeq(read.items, (n + 1) + 1, Len(read.items))
         /\ n + 1 \in 0..Len(read.items)
    BY <1>1, <1>5, <1>6
  <1>12. Gathered(read, allLabels)' /\ (mixed \/ ReadOfOne)'
    BY <1>1 DEF IInv, Gathered, Says, ReadOfOne
  <1> QED
    BY <1>1, <1>10, <1>11, <1>12 DEF IInv

LEMMA EndIndexesInv == IInv /\ EndIndexes => IInv'
  <1> SUFFICES ASSUME IInv, EndIndexes PROVE IInv'
    OBVIOUS
  <1> DEFINE items == read.items
  <1>1. /\ phase = "building" /\ todo = <<>> /\ phase' = "built"
        /\ UNCHANGED <<package, read, left, allLabels, todo, stored, mixed>>
    BY DEF EndIndexes
  <1>2. PICK n \in 0..Len(items) :
            stored = Indexed(read, n) /\ todo = SubSeq(items, n + 1, Len(items))
    BY <1>1 DEF IInv
  <1>3. read \in Reading /\ items \in Seq(Items) /\ Len(items) \in Nat
    BY VersionsTyped
  <1>4. n = Len(items)
    <2>1. \A i \in n + 1 .. Len(items) : items[i] \in Items
      <3>1. \A i \in n + 1 .. Len(items) : i \in 1..Len(items)
        BY <1>3
      <3> QED
        BY <1>3, <3>1, ElementOfSeq
    <2>2. Len(todo) = Len(items) - n
      BY <1>2, <1>3, <2>1, SubSeqProperties
    <2> QED
      BY <1>1, <1>3, <2>2
  <1>5. stored = Expected(read)
    BY <1>2, <1>3, <1>4, ExpectedIsIndexed
  <1>6. Gathered(read, allLabels)' /\ (mixed \/ ReadOfOne)'
    BY <1>1 DEF IInv, Gathered, Says, ReadOfOne
  <1> QED
    BY <1>1, <1>2, <1>5, <1>6 DEF IInv

LEMMA OtherStepsInv ==
    ASSUME IInv, Crash \/ (\E other \in Packages : Update(other)) \/ UNCHANGED vars
    PROVE  IInv'
  <1>1. CASE Crash
    <2>1. /\ phase' = "down" /\ left' = <<>> /\ todo' = <<>>
          /\ UNCHANGED <<package, allLabels, stored, read, mixed>>
      BY <1>1 DEF Crash
    <2>2. left' \in Seq(Folders)
      BY <2>1, EmptySeq
    <2>3. Gathered(read, allLabels)' /\ ReadOfOne'
      BY <2>1 DEF IInv, Gathered, Says, ReadOfOne
    <2> QED
      BY <2>1, <2>2, <2>3 DEF IInv
  <1>2. ASSUME NEW other \in Packages, Update(other)
        PROVE  IInv'
    <2>1. /\ package' = other /\ UNCHANGED <<phase, left, allLabels, todo, stored, read>>
          /\ mixed' = (mixed \/ (phase \in {"manifest", "labels"} /\ other # package))
      BY <1>2 DEF Update
    <2>2. Gathered(read, allLabels)'
      BY <2>1 DEF IInv, Gathered, Says
    <2>3. mixed' \in BOOLEAN
      BY <2>1
    <2>4. mixed' \/ ReadOfOne'
      <3> SUFFICES ASSUME ~mixed' PROVE ReadOfOne'
        OBVIOUS
      <3>1. ReadOfOne /\ (phase \in {"manifest", "labels"} => package' = package)
        BY <2>1 DEF IInv
      <3> QED
        BY <2>1, <3>1 DEF ReadOfOne
    <2> QED
      BY <2>1, <2>2, <2>3, <2>4 DEF IInv
  <1>3. CASE UNCHANGED vars
    BY <1>3 DEF vars, IInv, Gathered, Says, ReadOfOne
  <1> QED
    BY <1>1, <1>2, <1>3

\* The loops over the files and the items are where their results say (AppContents.cpp 25-142).
THEOREM IndexAlways == Spec => []IInv
  <1>1. IInv /\ [Next]_vars => IInv'
    BY CreateIndexesInv, ReadManifestInv, ReadLabelsInv, LabelsReadInv, IndexItemInv,
       EndIndexesInv, OtherStepsInv DEF Next
  <1> QED
    BY <1>1, InitInv, PTL DEF Spec

\* What is stored is a part of the index, each item of it for one that is wanted.
LEMMA StoredIsMade ==
    ASSUME IInv, NEW k \in DOMAIN stored
    PROVE  \E item \in Items : Wanted(read, item) /\ stored[k] = Made(read, item)
  <1>1. PICK n \in 0..Len(read.items) : stored = Indexed(read, n)
    BY DEF IInv
  <1> DEFINE wanted == KeptAfter(read.items, WantedOf(read))[n]
  <1>2. wanted \in Seq(Items \cap WantedOf(read)) /\ DOMAIN wanted = 1..Len(wanted)
    BY <1>1, VersionsTyped, WantedKept
  <1>3. stored = [i \in DOMAIN wanted |-> Made(read, wanted[i])]
    BY <1>1 DEF Indexed
  <1> HIDE DEF wanted
  <1>4. wanted[k] \in Items \cap WantedOf(read) /\ stored[k] = Made(read, wanted[k])
    BY <1>2, <1>3, ElementOfSeq
  <1> QED
    BY <1>4 DEF WantedOf

\* However often the daemon dies and whatever versions are installed meanwhile, labels
\* are filed under languages, items to do are items, and what is stored has a title and
\* words it is found by (AppContents.cpp 25-142, 181-231).
THEOREM TypeCorrect == Spec => []TypeOK
  <1>1. IInv => TypeOK
    <2> SUFFICES ASSUME IInv PROVE TypeOK
      OBVIOUS
    <2>1. /\ package \in Packages /\ read \in Reading /\ mixed \in BOOLEAN
          /\ phase \in {"down", "manifest", "labels", "building", "built"}
          /\ left \in Seq(Folders)
      BY DEF IInv
    <2>2. allLabels \in Labels
      BY DEF IInv, Gathered
    <2>3. \A key \in Keys : {t[1] : t \in allLabels[key]} \subseteq Languages
      BY <2>2 DEF Labels
    <2>4. todo \in Seq(Items)
      <3>1. <<>> \in Seq(Items)
        BY EmptySeq
      <3>2. ASSUME NEW n \in 0..Len(read.items)
            PROVE  SubSeq(read.items, n + 1, Len(read.items)) \in Seq(Items)
        <4>1. \A i \in n + 1 .. Len(read.items) : read.items[i] \in Items
          <5>1. \A i \in n + 1 .. Len(read.items) : i \in 1..Len(read.items)
            BY VersionsTyped
          <5> QED
            BY <5>1, VersionsTyped, ElementOfSeq
        <4> QED
          BY <4>1, VersionsTyped, SubSeqProperties
      <3> QED
        BY <3>1, <3>2 DEF IInv
    <2>5. \A k \in DOMAIN stored : stored[k].title # {} /\ stored[k].value # {}
      BY StoredIsMade, MadeShows, VersionsTyped
    <2> QED
      BY <2>1, <2>3, <2>4, <2>5 DEF TypeOK
  <1> QED
    BY <1>1, IndexAlways, PTL

\* Once built, an index has exactly the items that were read, say where they lead and have
\* a translated label, in order, under every translation of every label, however many files,
\* items, labels and deaths there were; and what was read is one version unless another was
\* installed between two of the reads (AppContents.cpp 25-142, 181-231).
THEOREM BuiltAsExpected == Spec => []BuiltIsExpected
  <1>1. IInv => BuiltIsExpected
    BY DEF IInv, ReadOfOne, BuiltIsExpected
  <1> QED
    BY <1>1, IndexAlways, PTL

\* At any time, in a loop or after a death in one, what is stored is the first part of
\* that index (AppContents.cpp 25-33, 74-138).
THEOREM HalfAsExpected == Spec => []HalfIsPrefix
  <1>1. IInv => HalfIsPrefix
    BY VersionsTyped, IndexedIsPrefix DEF IInv, HalfIsPrefix
  <1> QED
    BY <1>1, IndexAlways, PTL

\* Whatever language the user's settings name, each result has one title in it or in
\* English, by which it is found (AppContents.cpp 100-113, 144-165).
THEOREM OneTitleShown == Spec => []TitlesShown
  <1>1. IInv => TitlesShown
    <2> SUFFICES ASSUME IInv, NEW k \in DOMAIN stored, NEW language
                 PROVE  \E text \in stored[k].value : ShownTitle(stored[k], language) = {text}
      BY DEF TitlesShown
    <2>1. PICK item \in Items : Wanted(read, item) /\ stored[k] = Made(read, item)
      BY StoredIsMade
    <2>2. read \in Reading
      BY VersionsTyped
    <2> QED
      BY <2>1, <2>2, MadeShows
  <1> QED
    BY <1>1, IndexAlways, PTL
=============================================================================
