-------------------------- MODULE MessengerProofs ---------------------------
(***************************************************************************)
(* The loops of Messenger.tla that remove elements by their place, and the *)
(* invariants of the messenger: its lists of peers, its rooms and windows. *)
(***************************************************************************)
EXTENDS Messenger, Induction, FiniteSetTheorems, SequenceTheorems

\* Kept is defined step by step: each place of the list is left out or appended.
LEMMA KeptSteps ==
    ASSUME NEW T, NEW list \in Seq(T), NEW gone
    PROVE  /\ Kept(list, gone) \in [0 .. Len(list) -> Seq(T)]
           /\ Kept(list, gone)[0] = <<>>
           /\ \A n \in 1 .. Len(list) :
                 Kept(list, gone)[n] = IF n \in gone THEN Kept(list, gone)[n - 1]
                                       ELSE Append(Kept(list, gone)[n - 1], list[n])
<1> DEFINE L == Len(list)
           X == Seq(T)
           nothing == <<>>
           Body(k) == [n \in 0 .. L |->
                         IF n = 0 THEN <<>>
                         ELSE IF n \in gone THEN k[n - 1]
                              ELSE Append(k[n - 1], list[n])]
           step == [n \in 1 .. L |->
                      [k \in X |-> IF n \in gone THEN k ELSE Append(k, list[n])]]
<1>1. L \in Nat /\ nothing \in X /\ step \in [1 .. L -> [X -> X]]
  OBVIOUS
<1>2. PICK g \in [0 .. L -> X] :
         g[0] = nothing /\ \A n \in 1 .. L : g[n] = step[n][g[n - 1]]
  <2> HIDE DEF L, X, nothing, step
  <2> QED
    BY <1>1, Iteration
<1>3. \A n \in 1 .. L : g[n] = IF n \in gone THEN g[n - 1] ELSE Append(g[n - 1], list[n])
  <2> SUFFICES ASSUME NEW n \in 1 .. L
               PROVE  g[n] = IF n \in gone THEN g[n - 1] ELSE Append(g[n - 1], list[n])
    OBVIOUS
  <2> HIDE DEF L, X
  <2>1. n - 1 \in 0 .. L
    BY <1>1
  <2>2. g[n - 1] \in X
    BY <1>2, <2>1
  <2> QED
    BY <1>2, <2>2
<1>4. g = Body(g)
  <2>1. ASSUME NEW n \in 0 .. L PROVE g[n] = Body(g)[n]
    <3> HIDE DEF L, X
    <3>1. n = 0 \/ n \in 1 .. L
      BY <1>1
    <3> QED
      BY <1>2, <1>3, <3>1
  <2> QED
    BY <1>2, <2>1
<1>5. Kept(list, gone) = Body(Kept(list, gone))
  BY <1>4 DEF Kept
<1>6. \A n \in 0 .. L : Kept(list, gone)[n] =
         IF n = 0 THEN <<>>
         ELSE IF n \in gone THEN Kept(list, gone)[n - 1]
              ELSE Append(Kept(list, gone)[n - 1], list[n])
  <2> HIDE DEF L
  <2> QED
    BY <1>5
<1>7. \A n \in 0 .. L : Kept(list, gone)[n] = g[n]
  <2> DEFINE S == {n \in 0 .. L : Kept(list, gone)[n] = g[n]}
  <2>1. 0 \in S
    BY <1>1, <1>2, <1>6
  <2>2. ASSUME NEW n \in 0 .. L - 1, n \in S PROVE n + 1 \in S
    <3>1. n + 1 \in 1 .. L /\ n + 1 \in 0 .. L /\ (n + 1) - 1 = n /\ n + 1 # 0
      BY <1>1
    <3> QED
      BY <1>3, <1>6, <2>2, <3>1
  <2>3. \A n \in 0 .. L : n \in S
    <3> HIDE DEF S, L
    <3> QED
      BY <1>1, <2>1, <2>2, Upwards
  <2> QED
    BY <2>3
<1>8. Kept(list, gone) = g
  <2> HIDE DEF L
  <2>1. DOMAIN Kept(list, gone) = 0 .. L
    BY <1>5
  <2>2. Kept(list, gone) = [n \in DOMAIN Kept(list, gone) |-> Kept(list, gone)[n]]
    BY <1>5
  <2> QED
    BY <1>2, <1>7, <2>1, <2>2
<1> QED
  BY <1>2, <1>3, <1>8

\* What Without leaves of a list: every other element, in the order of the list,
\* none further back than it was, and further forward once one before it is gone.
LEMMA WithoutPositions ==
    ASSUME NEW T, NEW list \in Seq(T), NEW gone
    PROVE  /\ Without(list, gone) \in Seq(T)
           /\ Len(Without(list, gone)) <= Len(list)
           /\ \E pos \in [DOMAIN Without(list, gone) -> DOMAIN list] :
                 /\ \A k \in DOMAIN Without(list, gone) :
                       /\ Without(list, gone)[k] = list[pos[k]]
                       /\ pos[k] \notin gone
                       /\ k <= pos[k]
                       /\ \A d \in 1 .. pos[k] - 1 : d \in gone => k < pos[k]
                 /\ \A j, k \in DOMAIN Without(list, gone) : j < k => pos[j] < pos[k]
                 /\ \A i \in DOMAIN list \ gone :
                       \E k \in DOMAIN Without(list, gone) : pos[k] = i
<1> DEFINE L == Len(list)
           K == Kept(list, gone)
           Good(n, pos) ==
              /\ \A k \in 1 .. Len(K[n]) :
                    /\ pos[k] \in 1 .. n
                    /\ K[n][k] = list[pos[k]]
                    /\ pos[k] \notin gone
                    /\ k <= pos[k]
                    /\ \A d \in 1 .. pos[k] - 1 : d \in gone => k < pos[k]
              /\ \A j, k \in 1 .. Len(K[n]) : j < k => pos[j] < pos[k]
              /\ \A i \in (1 .. n) \ gone : \E k \in 1 .. Len(K[n]) : pos[k] = i
              /\ Len(K[n]) <= n
              /\ \A d \in 1 .. n : d \in gone => Len(K[n]) < n
           S == {n \in 0 .. L : \E pos \in [1 .. Len(K[n]) -> Nat] : Good(n, pos)}
<1>1. /\ L \in Nat /\ DOMAIN list = 1 .. L
      /\ K \in [0 .. L -> Seq(T)] /\ K[0] = <<>>
      /\ \A n \in 1 .. L : K[n] = IF n \in gone THEN K[n - 1]
                                  ELSE Append(K[n - 1], list[n])
  BY KeptSteps
<1> HIDE DEF K, L
<1>2. 0 \in S
  <2>1. Len(K[0]) = 0
    BY <1>1
  <2>2. <<>> \in [1 .. Len(K[0]) -> Nat]
    BY <2>1
  <2>3. Good(0, <<>>)
    BY <2>1
  <2>4. \E pos \in [1 .. Len(K[0]) -> Nat] : Good(0, pos)
    <3> HIDE DEF Good
    <3> QED
      BY <2>2, <2>3
  <2>5. 0 \in 0 .. L
    BY <1>1
  <2> HIDE DEF Good
  <2> QED
    BY <2>4, <2>5
<1>3. ASSUME NEW n \in 0 .. L - 1, n \in S PROVE n + 1 \in S
  <2>1. PICK pos \in [1 .. Len(K[n]) -> Nat] : Good(n, pos)
    BY <1>3
  <2>2. /\ n \in Nat /\ n + 1 \in 1 .. L /\ n + 1 \in 0 .. L /\ n \in 0 .. L
        /\ (n + 1) - 1 = n
    BY <1>1
  <2>3. K[n] \in Seq(T) /\ Len(K[n]) \in Nat
    BY <1>1, <2>2
  <2>4. \E p \in [1 .. Len(K[n + 1]) -> Nat] : Good(n + 1, p)
    <3>1. CASE n + 1 \in gone
      <4>1. K[n + 1] = K[n]
        BY <1>1, <2>2, <3>1
      <4>2. Good(n + 1, pos)
        <5>1. \A i \in (1 .. n + 1) \ gone : i \in (1 .. n) \ gone
          BY <2>2, <3>1
        <5> QED
          BY <2>1, <2>2, <2>3, <4>1, <5>1
      <4> HIDE DEF Good
      <4> QED
        BY <2>1, <4>1, <4>2
    <3>2. CASE n + 1 \notin gone
      <4> DEFINE m == Len(K[n]) + 1
                 p == [k \in 1 .. m |-> IF k = m THEN n + 1 ELSE pos[k]]
      <4>1. /\ K[n + 1] = Append(K[n], list[n + 1]) /\ Len(K[n + 1]) = m
            /\ K[n + 1][m] = list[n + 1]
            /\ \A k \in 1 .. Len(K[n]) : K[n + 1][k] = K[n][k] /\ k # m /\ k \in 1 .. m
            /\ \A k \in 1 .. m : k = m \/ k \in 1 .. Len(K[n])
            /\ m \in 1 .. m
        <5>1. K[n + 1] = Append(K[n], list[n + 1])
          BY <1>1, <2>2, <3>2
        <5> QED
          BY <2>3, <5>1
      <4>2. /\ p[m] = n + 1
            /\ \A k \in 1 .. Len(K[n]) : p[k] = pos[k]
        BY <4>1
      <4>3. p \in [1 .. m -> Nat]
        BY <2>1, <2>2, <4>1
      <4> HIDE DEF m, p
      <4>4. \A k \in 1 .. m :
               /\ p[k] \in 1 .. n + 1
               /\ K[n + 1][k] = list[p[k]]
               /\ p[k] \notin gone
               /\ k <= p[k]
               /\ \A d \in 1 .. p[k] - 1 : d \in gone => k < p[k]
        <5> SUFFICES ASSUME NEW k \in 1 .. m
                     PROVE  /\ p[k] \in 1 .. n + 1
                            /\ K[n + 1][k] = list[p[k]]
                            /\ p[k] \notin gone
                            /\ k <= p[k]
                            /\ \A d \in 1 .. p[k] - 1 : d \in gone => k < p[k]
          OBVIOUS
        <5>1. CASE k = m
          BY <2>1, <2>2, <2>3, <3>2, <4>1, <4>2, <5>1 DEF m
        <5>2. CASE k \in 1 .. Len(K[n])
          BY <2>1, <2>2, <2>3, <4>1, <4>2, <5>2
        <5> QED
          BY <4>1, <5>1, <5>2
      <4>5. \A j, k \in 1 .. m : j < k => p[j] < p[k]
        <5> SUFFICES ASSUME NEW j \in 1 .. m, NEW k \in 1 .. m, j < k
                     PROVE  p[j] < p[k]
          OBVIOUS
        <5>1. j \in 1 .. Len(K[n])
          BY <2>3 DEF m
        <5>2. p[j] = pos[j] /\ pos[j] \in 1 .. n
          BY <2>1, <4>2, <5>1
        <5>3. CASE k = m
          BY <2>2, <4>2, <5>2, <5>3
        <5>4. CASE k \in 1 .. Len(K[n])
          BY <2>1, <4>2, <5>1, <5>2, <5>4
        <5> QED
          BY <4>1, <5>3, <5>4
      <4>6. ASSUME NEW i \in (1 .. n + 1) \ gone PROVE \E k \in 1 .. m : p[k] = i
        <5>1. CASE i = n + 1
          BY <4>1, <4>2, <5>1
        <5>2. CASE i # n + 1
          <6>1. i \in (1 .. n) \ gone
            BY <2>2, <5>2
          <6>2. PICK k \in 1 .. Len(K[n]) : pos[k] = i
            BY <2>1, <6>1
          <6> QED
            BY <4>1, <4>2, <6>2
        <5> QED
          BY <5>1, <5>2
      <4>7. /\ m <= n + 1
            /\ \A d \in 1 .. n + 1 : d \in gone => m < n + 1
        <5>1. \A d \in 1 .. n + 1 : d \in gone => d \in 1 .. n
          BY <2>2, <3>2
        <5> QED
          BY <2>1, <2>2, <2>3, <5>1 DEF m
      <4>8. Good(n + 1, p)
        BY <4>1, <4>4, <4>5, <4>6, <4>7
      <4> HIDE DEF Good
      <4> QED
        BY <4>1, <4>3, <4>8
    <3> QED
      BY <3>1, <3>2
  <2> HIDE DEF Good
  <2> QED
    BY <2>2, <2>4
<1>4. L \in S
  <2>1. \A n \in 0 .. L : n \in S
    <3> HIDE DEF S
    <3> QED
      BY <1>1, <1>2, <1>3, Upwards
  <2>2. L \in 0 .. L
    BY <1>1
  <2> HIDE DEF S
  <2> QED
    BY <2>1, <2>2
<1>5. PICK pos \in [1 .. Len(K[L]) -> Nat] : Good(L, pos)
  BY <1>4
<1>6. Without(list, gone) = K[L] /\ K[L] \in Seq(T) /\ DOMAIN K[L] = 1 .. Len(K[L])
  <2>1. Without(list, gone) = K[L]
    BY DEF Without, K, L
  <2> QED
    BY <1>1, <2>1
<1>7. pos \in [1 .. Len(K[L]) -> 1 .. L]
  BY <1>5
<1>8. /\ Len(K[L]) <= L
      /\ \A k \in 1 .. Len(K[L]) :
            /\ K[L][k] = list[pos[k]]
            /\ pos[k] \notin gone
            /\ k <= pos[k]
            /\ \A d \in 1 .. pos[k] - 1 : d \in gone => k < pos[k]
      /\ \A j, k \in 1 .. Len(K[L]) : j < k => pos[j] < pos[k]
      /\ \A i \in (1 .. L) \ gone : \E k \in 1 .. Len(K[L]) : pos[k] = i
  BY <1>5
<1> HIDE DEF Good
<1>9. Len(Without(list, gone)) <= Len(list)
  BY <1>6, <1>8 DEF L
<1>10. pos \in [DOMAIN Without(list, gone) -> DOMAIN list]
  BY <1>1, <1>6, <1>7
<1>11. /\ \A k \in DOMAIN Without(list, gone) :
             /\ Without(list, gone)[k] = list[pos[k]]
             /\ pos[k] \notin gone
             /\ k <= pos[k]
             /\ \A d \in 1 .. pos[k] - 1 : d \in gone => k < pos[k]
       /\ \A j, k \in DOMAIN Without(list, gone) : j < k => pos[j] < pos[k]
       /\ \A i \in DOMAIN list \ gone :
             \E k \in DOMAIN Without(list, gone) : pos[k] = i
  BY <1>1, <1>6, <1>8
<1> QED
  BY <1>6, <1>9, <1>10, <1>11

\* Removed is defined step by step: an old peer is removed unless the loop has
\* just removed the one before it.
LEMMA RemovedSteps ==
    ASSUME NEW list, Len(list) \in Nat
    PROVE  /\ ~ Removed(list)[0]
           /\ \A n \in 1 .. Len(list) :
                 Removed(list)[n] <=> IsOld(list[n]) /\ ~ Removed(list)[n - 1]
<1> DEFINE L == Len(list)
           X == BOOLEAN
           Old(n) == IsOld(list[n])
           Body(k) == [n \in 0 .. L |-> n # 0 /\ Old(n) /\ ~ k[n - 1]]
           step == [n \in 1 .. L |-> [k \in X |-> Old(n) /\ ~ k]]
<1>1. L \in Nat /\ step \in [1 .. L -> [X -> X]]
  OBVIOUS
<1>2. PICK g \in [0 .. L -> X] :
         g[0] = FALSE /\ \A n \in 1 .. L : g[n] = step[n][g[n - 1]]
  <2>1. PICK first \in X : first = FALSE
    OBVIOUS
  <2>2. PICK next \in [1 .. L -> [X -> X]] : next = step
    <3> HIDE DEF step
    <3> QED
      BY <1>1
  <2>3. L \in Nat
    OBVIOUS
  <2> HIDE DEF L, X, step
  <2>4. \E g \in [0 .. L -> X] :
           g[0] = first /\ \A n \in 1 .. L : g[n] = next[n][g[n - 1]]
    BY <2>3, Iteration
  <2> QED
    BY <2>1, <2>2, <2>4, Zenon
<1> HIDE DEF L, Old
<1>3. \A n \in 1 .. L : g[n] = (Old(n) /\ ~ g[n - 1])
  <2> SUFFICES ASSUME NEW n \in 1 .. L PROVE g[n] = (Old(n) /\ ~ g[n - 1])
    OBVIOUS
  <2>1. n - 1 \in 0 .. L
    BY <1>1
  <2>2. g[n - 1] \in BOOLEAN
    BY <1>2, <2>1
  <2>3. g[n] = step[n][g[n - 1]]
    BY <1>2
  <2> QED
    BY <2>2, <2>3, Zenon
<1>4. g = Body(g)
  <2>1. ASSUME NEW n \in 0 .. L PROVE g[n] = (n # 0 /\ Old(n) /\ ~ g[n - 1])
    <3>1. n = 0 \/ n \in 1 .. L
      BY <1>1
    <3>2. CASE n = 0
      BY <1>2, <3>2
    <3>3. CASE n # 0
      BY <1>3, <3>1, <3>3, Zenon
    <3> QED
      BY <3>2, <3>3
  <2> QED
    BY <1>2, <2>1, Zenon
<1>5. Removed(list) = Body(Removed(list))
  BY <1>4, Zenon DEF Removed, L, Old
<1>6. \A n \in 0 .. L : Removed(list)[n] = (n # 0 /\ Old(n) /\ ~ Removed(list)[n - 1])
  <2> HIDE DEF L
  <2> QED
    BY <1>5, Zenon
<1>7. \A n \in 1 .. L : n \in 0 .. L /\ n # 0
  BY <1>1
<1>8. 0 \in 0 .. L
  BY <1>1
<1> QED
  BY <1>6, <1>7, <1>8, Zenon DEF L, Old

\* What the timer leaves of a list of peers: some of them in their order, and
\* every old one has moved forward.
LEMMA PrunePositions ==
    ASSUME NEW list \in Seq(Peer)
    PROVE  /\ Prune(list) \in Seq(Peer)
           /\ \E pos \in [DOMAIN Prune(list) -> DOMAIN list] :
                 /\ \A k \in DOMAIN Prune(list) :
                       /\ Prune(list)[k] = list[pos[k]]
                       /\ k <= pos[k]
                       /\ IsOld(list[pos[k]]) => k < pos[k]
                 /\ \A j, k \in DOMAIN Prune(list) : j < k => pos[j] < pos[k]
<1> DEFINE gone == {n \in DOMAIN list : Removed(list)[n]}
<1>1. Prune(list) = Without(list, gone)
  BY DEF Prune
<1>2. Len(list) \in Nat /\ DOMAIN list = 1 .. Len(list)
  OBVIOUS
<1>3. ASSUME NEW i \in DOMAIN list, IsOld(list[i]), i \notin gone
      PROVE  i - 1 \in 1 .. i - 1 /\ i - 1 \in gone
  <2>1. ~ Removed(list)[i]
    BY <1>3
  <2>2. Removed(list)[i - 1]
    BY <1>2, <1>3, <2>1, RemovedSteps
  <2>3. i # 1
    BY <1>2, <2>2, RemovedSteps
  <2>4. i - 1 \in DOMAIN list /\ i - 1 \in 1 .. i - 1
    BY <1>2, <2>3
  <2> QED
    BY <2>2, <2>4
<1> HIDE DEF gone
<1>4. /\ Prune(list) \in Seq(Peer)
      /\ \E pos \in [DOMAIN Prune(list) -> DOMAIN list] :
            /\ \A k \in DOMAIN Prune(list) :
                  /\ Prune(list)[k] = list[pos[k]]
                  /\ pos[k] \notin gone
                  /\ k <= pos[k]
                  /\ \A d \in 1 .. pos[k] - 1 : d \in gone => k < pos[k]
            /\ \A j, k \in DOMAIN Prune(list) : j < k => pos[j] < pos[k]
  <2> HIDE DEF Prune
  <2>1. /\ Without(list, gone) \in Seq(Peer)
        /\ \E pos \in [DOMAIN Without(list, gone) -> DOMAIN list] :
              /\ \A k \in DOMAIN Without(list, gone) :
                    /\ Without(list, gone)[k] = list[pos[k]]
                    /\ pos[k] \notin gone
                    /\ k <= pos[k]
                    /\ \A d \in 1 .. pos[k] - 1 : d \in gone => k < pos[k]
              /\ \A j, k \in DOMAIN Without(list, gone) : j < k => pos[j] < pos[k]
    BY WithoutPositions
  <2> QED
    BY <1>1, <2>1, Zenon
<1>5. PICK pos \in [DOMAIN Prune(list) -> DOMAIN list] :
         /\ \A k \in DOMAIN Prune(list) :
               /\ Prune(list)[k] = list[pos[k]]
               /\ pos[k] \notin gone
               /\ k <= pos[k]
               /\ \A d \in 1 .. pos[k] - 1 : d \in gone => k < pos[k]
         /\ \A j, k \in DOMAIN Prune(list) : j < k => pos[j] < pos[k]
  BY <1>4
<1>6. ASSUME NEW k \in DOMAIN Prune(list), IsOld(list[pos[k]]) PROVE k < pos[k]
  <2>1. pos[k] \in DOMAIN list /\ pos[k] \notin gone
    BY <1>5
  <2>2. pos[k] - 1 \in 1 .. pos[k] - 1 /\ pos[k] - 1 \in gone
    BY <1>3, <1>6, <2>1
  <2> QED
    BY <1>5, <2>2
<1> QED
  BY <1>4, <1>5, <1>6

---------------------------------------------------------------------------
Once(list) == \A i, j \in DOMAIN list : list[i].id = list[j].id => i = j

\* The timer brings nobody into a list and nobody twice.
LEMMA PruneKeeps ==
    ASSUME NEW list \in Seq(Peer)
    PROVE  /\ Prune(list) \in Seq(Peer)
           /\ \A id : Knows(Prune(list), id) => Knows(list, id)
           /\ Once(list) => Once(Prune(list))
<1>1. PICK pos \in [DOMAIN Prune(list) -> DOMAIN list] :
         /\ \A k \in DOMAIN Prune(list) : Prune(list)[k] = list[pos[k]]
         /\ \A j, k \in DOMAIN Prune(list) : j < k => pos[j] < pos[k]
  BY PrunePositions
<1>2. Prune(list) \in Seq(Peer)
  BY PrunePositions
<1>3. DOMAIN list \subseteq Nat /\ DOMAIN Prune(list) \subseteq Nat
  BY <1>2
<1>4. \A id : Knows(Prune(list), id) => Knows(list, id)
  BY <1>1 DEF Knows
<1>5. ASSUME Once(list), NEW j \in DOMAIN Prune(list), NEW k \in DOMAIN Prune(list),
             Prune(list)[j].id = Prune(list)[k].id
      PROVE  j = k
  <2>1. pos[j] = pos[k] /\ pos[j] \in Nat
    BY <1>1, <1>3, <1>5 DEF Once
  <2>2. j \in Nat /\ k \in Nat /\ ~ (j < k) /\ ~ (k < j)
    BY <1>1, <1>3, <2>1
  <2> QED
    BY <2>2
<1> QED
  BY <1>2, <1>4, <1>5 DEF Once

\* The timer looks through the rooms one after the other.
LEMMA VisitedSteps ==
    ASSUME rooms \in Seq(Rooms), roomslist \in [Rooms -> Seq(Peer)]
    PROVE  /\ Visited[0] = roomslist
           /\ \A n \in 1 .. Len(rooms) :
                 Visited[n] = [Visited[n - 1] EXCEPT ![rooms[n]] = Prune(@)]
<1> DEFINE L == Len(rooms)
           X == [Rooms -> Seq(Peer)]
           Body(k) == [n \in 0 .. L |->
                         IF n = 0 THEN roomslist
                         ELSE [k[n - 1] EXCEPT ![rooms[n]] = Prune(@)]]
           step == [n \in 1 .. L |->
                      [k \in X |-> [k EXCEPT ![rooms[n]] = Prune(@)]]]
<1>1. L \in Nat /\ roomslist \in X /\ step \in [1 .. L -> [X -> X]]
  <2>1. ASSUME NEW n \in 1 .. L, NEW k \in X
        PROVE  [k EXCEPT ![rooms[n]] = Prune(@)] \in X
    <3>1. rooms[n] \in Rooms
      OBVIOUS
    <3>2. Prune(k[rooms[n]]) \in Seq(Peer)
      BY <3>1, PruneKeeps
    <3> QED
      BY <3>1, <3>2
  <2>2. step \in [1 .. L -> [X -> X]]
    <3> HIDE DEF L, X
    <3> QED
      BY <2>1
  <2> QED
    BY <2>2
<1>2. \E g \in [0 .. L -> X] :
         g[0] = roomslist /\ \A n \in 1 .. L : g[n] = step[n][g[n - 1]]
  <2> HIDE DEF L, X, step
  <2>1. PICK top \in Nat : top = L
    BY <1>1
  <2>2. PICK first \in X : first = roomslist
    BY <1>1
  <2>3. PICK next \in [1 .. top -> [X -> X]] : next = step
    BY <1>1, <2>1
  <2>4. \E g \in [0 .. top -> X] :
           g[0] = first /\ \A n \in 1 .. top : g[n] = next[n][g[n - 1]]
    BY ONLY Iteration
  <2> QED
    BY <2>1, <2>2, <2>3, <2>4, Zenon
<1>3. PICK g \in [0 .. L -> X] :
         g[0] = roomslist /\ \A n \in 1 .. L : g[n] = step[n][g[n - 1]]
  BY <1>2
<1>4. g = Body(g)
  <2>1. ASSUME NEW n \in 0 .. L
        PROVE  g[n] = IF n = 0 THEN roomslist
                      ELSE [g[n - 1] EXCEPT ![rooms[n]] = Prune(@)]
    <3>1. CASE n = 0
      BY <1>3, <3>1
    <3>2. CASE n # 0
      <4>1. n \in 1 .. L /\ n - 1 \in 0 .. L
        BY <1>1, <3>2
      <4>2. g[n - 1] \in X /\ g[n] = step[n][g[n - 1]]
        BY <1>3, <4>1
      <4>3. step[n][g[n - 1]] = [g[n - 1] EXCEPT ![rooms[n]] = Prune(@)]
        <5> HIDE DEF L, X
        <5> QED
          BY <4>1, <4>2
      <4> QED
        BY <3>2, <4>2, <4>3, Zenon
    <3> QED
      BY <3>1, <3>2
  <2> QED
    BY <1>3, <2>1, Zenon
<1>5. Visited = Body(Visited)
  BY <1>4, Zenon DEF Visited
<1>6. \A n \in 0 .. L : Visited[n] = IF n = 0 THEN roomslist
                                     ELSE [Visited[n - 1] EXCEPT ![rooms[n]] = Prune(@)]
  <2> HIDE DEF L
  <2> QED
    BY <1>5, Zenon
<1>7. 0 \in 0 .. L /\ \A n \in 1 .. L : n \in 0 .. L /\ n # 0
  BY <1>1
<1> QED
  BY <1>6, <1>7, Zenon

\* The timer leaves the lists of the rooms that are not joined, and in the others
\* it brings nobody in and nobody twice.
LEMMA VisitedKeeps ==
    ASSUME rooms \in Seq(Rooms), roomslist \in [Rooms -> Seq(Peer)]
    PROVE  /\ Visited[Len(rooms)] \in [Rooms -> Seq(Peer)]
           /\ \A r \in Rooms :
                 /\ ~ Joined(r) => Visited[Len(rooms)][r] = roomslist[r]
                 /\ \A id : Knows(Visited[Len(rooms)][r], id) => Knows(roomslist[r], id)
                 /\ Once(roomslist[r]) => Once(Visited[Len(rooms)][r])
<1> DEFINE L == Len(rooms)
           Good(lists) ==
              /\ lists \in [Rooms -> Seq(Peer)]
              /\ \A r \in Rooms :
                    /\ ~ Joined(r) => lists[r] = roomslist[r]
                    /\ \A id : Knows(lists[r], id) => Knows(roomslist[r], id)
                    /\ Once(roomslist[r]) => Once(lists[r])
           S == {n \in 0 .. L : Good(Visited[n])}
<1>1. L \in Nat /\ DOMAIN rooms = 1 .. L
  OBVIOUS
<1>2. 0 \in S
  <2>1. Good(Visited[0])
    BY VisitedSteps
  <2> HIDE DEF Good
  <2> QED
    BY <1>1, <2>1
<1>3. ASSUME NEW n \in 0 .. L - 1, n \in S PROVE n + 1 \in S
  <2> DEFINE room == rooms[n + 1]
             old == Visited[n]
  <2>1. n + 1 \in 1 .. L /\ (n + 1) - 1 = n
    BY <1>1
  <2>2. room \in Rooms /\ Joined(room)
    BY <1>1, <2>1 DEF Joined
  <2>3. Good(old)
    BY <1>3
  <2>4. Visited[n + 1] = [old EXCEPT ![room] = Prune(old[room])]
    BY <2>1, VisitedSteps
  <2>5. old[room] \in Seq(Peer)
    BY <2>2, <2>3
  <2> HIDE DEF room, old
  <2>6. /\ Prune(old[room]) \in Seq(Peer)
        /\ \A id : Knows(Prune(old[room]), id) => Knows(old[room], id)
        /\ Once(old[room]) => Once(Prune(old[room]))
    BY <2>5, PruneKeeps
  <2>7. Good(Visited[n + 1])
    <3>1. Visited[n + 1] \in [Rooms -> Seq(Peer)]
      BY <2>2, <2>3, <2>4, <2>6
    <3>2. ASSUME NEW r \in Rooms
          PROVE  /\ ~ Joined(r) => Visited[n + 1][r] = roomslist[r]
                 /\ \A id : Knows(Visited[n + 1][r], id) => Knows(roomslist[r], id)
                 /\ Once(roomslist[r]) => Once(Visited[n + 1][r])
      <4>1. CASE r = room
        <5>1. Visited[n + 1][r] = Prune(old[room])
          BY <2>2, <2>3, <2>4, <4>1
        <5> QED
          BY <2>2, <2>3, <2>6, <4>1, <5>1
      <4>2. CASE r # room
        <5>1. Visited[n + 1][r] = old[r]
          BY <2>3, <2>4, <4>2
        <5> QED
          BY <2>3, <5>1
      <4> QED
        BY <4>1, <4>2
    <3> QED
      BY <3>1, <3>2
  <2>8. n + 1 \in 0 .. L
    BY <2>1
  <2> HIDE DEF Good
  <2> QED
    BY <2>7, <2>8
<1>4. \A n \in 0 .. L : n \in S
  <2> HIDE DEF S, L
  <2> QED
    BY <1>1, <1>2, <1>3, Upwards
<1>5. L \in 0 .. L
  BY <1>1
<1>6. Good(Visited[L])
  <2> HIDE DEF Good
  <2> QED
    BY <1>4, <1>5
<1> QED
  BY <1>6

\* There are finitely many old peers in a list.
LEMMA OldType ==
    ASSUME NEW list \in Seq(Peer)
    PROVE  IsFiniteSet(OldIn(list)) /\ Cardinality(OldIn(list)) \in Nat
<1>1. OldIn(list) \in SUBSET (1 .. Len(list)) /\ Len(list) \in Nat
  BY DEF OldIn
<1>2. IsFiniteSet(1 .. Len(list))
  BY <1>1, FS_Interval
<1> QED
  BY <1>1, <1>2, FS_Subset, FS_CardinalityType

\* Before each old peer that is stepped over, one has been removed; so one pass
\* removes as many old ones as it leaves.
LEMMA PruneHalves ==
    ASSUME NEW list \in Seq(Peer)
    PROVE  Halved(list, Prune(list))
<1> DEFINE gone == {n \in DOMAIN list : Removed(list)[n]}
           old  == OldIn(list)
           stay == old \ gone
           left == OldIn(Prune(list))
           before == [i \in stay |-> i - 1]
<1>1. Len(list) \in Nat /\ DOMAIN list = 1 .. Len(list)
  OBVIOUS
<1>2. gone \subseteq old
  BY <1>1, RemovedSteps DEF OldIn
<1>3. ASSUME NEW i \in stay PROVE i - 1 \in gone /\ i \in Nat
  <2>1. i \in 1 .. Len(list) /\ IsOld(list[i]) /\ ~ Removed(list)[i]
    BY <1>1 DEF OldIn
  <2>2. Removed(list)[i - 1]
    BY <1>1, <2>1, RemovedSteps
  <2>3. i # 1
    BY <1>1, <2>2, RemovedSteps
  <2> QED
    BY <1>1, <2>1, <2>2, <2>3
<1>4. IsFiniteSet(old) /\ IsFiniteSet(gone) /\ IsFiniteSet(stay)
  <2>1. gone \in SUBSET old /\ stay \in SUBSET old
    BY <1>2
  <2> HIDE DEF gone, stay
  <2> QED
    BY <2>1, OldType, FS_Subset
<1>5. Cardinality(stay) <= Cardinality(gone)
  <2>1. before \in [stay -> gone]
    BY <1>3
  <2>2. \A i, j \in stay : before[i] = before[j] => i = j
    BY <1>3
  <2>3. before \in Injection(stay, gone)
    BY <2>1, <2>2 DEF Injection, IsInjective
  <2> HIDE DEF before, stay, gone
  <2> QED
    BY <1>4, <2>3, FS_Injection
<1>6. Cardinality(old) = Cardinality(stay) + Cardinality(gone)
  <2>1. stay \cup gone = old /\ stay \cap gone = {}
    BY <1>2
  <2> HIDE DEF stay, gone, old
  <2>2. Cardinality(stay) \in Nat /\ Cardinality(gone) \in Nat
    BY <1>4, FS_CardinalityType
  <2>3. Cardinality(stay \cup gone)
           = Cardinality(stay) + Cardinality(gone) - Cardinality(stay \cap gone)
    BY <1>4, FS_Union
  <2>4. Cardinality(stay \cap gone) = 0
    BY <2>1, FS_EmptySet
  <2>5. Cardinality(stay \cup gone) = Cardinality(stay) + Cardinality(gone)
    BY <2>2, <2>3, <2>4
  <2> QED
    BY <2>1, <2>5, Zenon
<1>7. Cardinality(left) <= Cardinality(stay)
  <2> HIDE DEF gone
  <2>1. Prune(list) = Without(list, gone)
    BY DEF Prune, gone
  <2>2. PICK pos \in [DOMAIN Without(list, gone) -> DOMAIN list] :
           /\ \A k \in DOMAIN Without(list, gone) :
                 Without(list, gone)[k] = list[pos[k]] /\ pos[k] \notin gone
           /\ \A j, k \in DOMAIN Without(list, gone) : j < k => pos[j] < pos[k]
    BY WithoutPositions
  <2>3. Without(list, gone) \in Seq(Peer)
    BY WithoutPositions
  <2> DEFINE place == [k \in left |-> pos[k]]
  <2>4. left \subseteq DOMAIN Without(list, gone)
        /\ \A k \in left : k \in Nat /\ IsOld(Without(list, gone)[k])
    BY <2>1, <2>3 DEF OldIn
  <2>5. \A k \in left : pos[k] \in stay
    BY <2>2, <2>4 DEF OldIn
  <2>6. \A j, k \in left : pos[j] = pos[k] => j = k
    <3> SUFFICES ASSUME NEW j \in left, NEW k \in left, pos[j] = pos[k] PROVE j = k
      OBVIOUS
    <3>1. pos[j] \in Nat /\ j \in Nat /\ k \in Nat
      BY <1>1, <2>2, <2>4
    <3>2. ~ (j < k) /\ ~ (k < j)
      BY <2>2, <2>4, <3>1
    <3> QED
      BY <3>1, <3>2
  <2>7. place \in Injection(left, stay)
    BY <2>5, <2>6 DEF Injection, IsInjective
  <2> HIDE DEF place, left, stay
  <2> QED
    BY <1>4, <2>7, FS_Injection
<1>8. /\ Cardinality(left) \in Nat /\ Cardinality(stay) \in Nat
      /\ Cardinality(gone) \in Nat /\ Cardinality(old) \in Nat
  <2> HIDE DEF left, stay, gone, old
  <2>1. Cardinality(left) \in Nat
    BY OldType, PruneKeeps DEF left
  <2> QED
    BY <1>4, <2>1, FS_CardinalityType
<1> HIDE DEF stay, gone
<1> QED
  BY <1>5, <1>6, <1>7, <1>8 DEF Halved

\* The timer halves the old peers of each joined room, and of a room that was
\* joined twice it leaves no more than that.
LEMMA VisitedHalves ==
    ASSUME rooms \in Seq(Rooms), roomslist \in [Rooms -> Seq(Peer)],
           NEW r \in Rooms, Joined(r)
    PROVE  Halved(roomslist[r], Visited[Len(rooms)][r])
<1> DEFINE L == Len(rooms)
           Olds(list) == Cardinality(OldIn(list))
           Good(n) ==
              /\ Visited[n] \in [Rooms -> Seq(Peer)]
              /\ Olds(Visited[n][r]) <= Olds(roomslist[r])
              /\ (\E i \in 1 .. n : rooms[i] = r)
                    => 2 * Olds(Visited[n][r]) <= Olds(roomslist[r])
           S == {n \in 0 .. L : Good(n)}
<1>1. L \in Nat /\ DOMAIN rooms = 1 .. L
  OBVIOUS
<1>2. \A list \in Seq(Peer) : Olds(list) \in Nat
  BY OldType
<1> HIDE DEF Olds
<1>3. 0 \in S
  <2>1. Visited[0] = roomslist
    BY VisitedSteps
  <2>2. Olds(roomslist[r]) \in Nat
    BY <1>2
  <2> QED
    BY <1>1, <2>1, <2>2
<1>4. ASSUME NEW n \in 0 .. L - 1, n \in S PROVE n + 1 \in S
  <2> DEFINE room == rooms[n + 1]
             old == Visited[n]
  <2>1. n + 1 \in 1 .. L /\ (n + 1) - 1 = n /\ n + 1 \in 0 .. L /\ n \in Nat
    BY <1>1
  <2>2. room \in Rooms
    BY <1>1, <2>1
  <2>3. Good(n)
    BY <1>4
  <2>4. Visited[n + 1] = [old EXCEPT ![room] = Prune(old[room])]
    BY <2>1, VisitedSteps
  <2>5. old \in [Rooms -> Seq(Peer)]
    BY <2>3
  <2>6. Visited[n + 1] \in [Rooms -> Seq(Peer)]
    <3>1. Prune(old[room]) \in Seq(Peer)
      BY <2>2, <2>5, PruneKeeps
    <3> HIDE DEF old, room
    <3> QED
      BY <2>2, <2>4, <2>5, <3>1
  <2>7. Olds(old[r]) \in Nat /\ Olds(roomslist[r]) \in Nat /\ Olds(Visited[n + 1][r]) \in Nat
    BY <1>2, <2>5, <2>6
  <2>8. Good(n + 1)
    <3>1. CASE r = room
      <4>1. Visited[n + 1][r] = Prune(old[r])
        BY <2>4, <2>5, <3>1
      <4>2. 2 * Olds(Prune(old[r])) <= Olds(old[r])
        BY <2>5, PruneHalves DEF Halved, Olds
      <4>3. Olds(Visited[n + 1][r]) <= Olds(roomslist[r])
            /\ 2 * Olds(Visited[n + 1][r]) <= Olds(roomslist[r])
        <5>1. Olds(old[r]) <= Olds(roomslist[r])
          BY <2>3
        <5> HIDE DEF old, Good
        <5> QED
          BY <2>7, <4>1, <4>2, <5>1
      <4> QED
        BY <2>6, <4>3
    <3>2. CASE r # room
      <4>1. Visited[n + 1][r] = old[r]
        BY <2>4, <2>5, <3>2
      <4>2. \A i \in 1 .. n + 1 : rooms[i] = r => i \in 1 .. n
        BY <2>1, <3>2
      <4> QED
        BY <2>3, <2>6, <4>1, <4>2
    <3> QED
      BY <3>1, <3>2
  <2> HIDE DEF Good
  <2> QED
    BY <2>1, <2>8
<1>5. Good(L)
  <2>1. \A n \in 0 .. L : n \in S
    <3> HIDE DEF S, L
    <3> QED
      BY <1>1, <1>3, <1>4, Upwards
  <2>2. L \in 0 .. L
    BY <1>1
  <2> HIDE DEF Good
  <2> QED
    BY <2>1, <2>2
<1>6. \E i \in 1 .. L : rooms[i] = r
  BY <1>1 DEF Joined
<1> QED
  BY <1>5, <1>6 DEF Halved, Olds

\* What becomes of a list when a peer announces itself: a known peer is seen
\* again, one with a bad ID is not taken, any other one is appended.
LEMMA HeardCases ==
    ASSUME NEW list \in Seq(Peer), NEW id \in Ids, NEW sender \in Ids \cup {NewHost},
           time \in 0 .. (Day - 1)
    PROVE  /\ Heard(list, id, sender) \in Seq(Peer)
           /\ \/ /\ Len(Heard(list, id, sender)) = Len(list)
                 /\ DOMAIN Heard(list, id, sender) = DOMAIN list
                 /\ \A i \in DOMAIN list :
                       /\ Heard(list, id, sender)[i].id = list[i].id
                       /\ Heard(list, id, sender)[i].host = list[i].host
                       /\ Heard(list, id, sender)[i].lastseen \in {list[i].lastseen, time}
              \/ /\ Len(Heard(list, id, sender)) = Len(list) + 1
                 /\ DOMAIN Heard(list, id, sender) = 1 .. Len(list) + 1
                 /\ ~ Knows(list, id)
                 /\ \A i \in DOMAIN list : Heard(list, id, sender)[i] = list[i]
                 /\ Heard(list, id, sender)[Len(list) + 1] = NewPeer(id, sender)
<1> DEFINE H == Heard(list, id, sender)
           same == [i \in DOMAIN list |->
                      IF list[i].id = id THEN [list[i] EXCEPT !.lastseen = time]
                                         ELSE list[i]]
<1>1. Len(list) \in Nat /\ DOMAIN list = 1 .. Len(list)
      /\ \A i \in DOMAIN list : list[i] \in Peer
  OBVIOUS
<1>2. CASE Knows(list, id)
  <2>1. H = same
    BY <1>2 DEF Heard
  <2>2. ASSUME NEW i \in DOMAIN list
        PROVE  /\ same[i] \in Peer
               /\ same[i].id = list[i].id
               /\ same[i].host = list[i].host
               /\ same[i].lastseen \in {list[i].lastseen, time}
    BY <1>1 DEF Peer
  <2>3. DOMAIN same = DOMAIN list
    OBVIOUS
  <2>4. same \in [1 .. Len(list) -> Peer]
    BY <1>1, <2>2
  <2>5. same \in Seq(Peer) /\ Len(same) = Len(list)
    <3> HIDE DEF same
    <3> QED
      BY <1>1, <2>4
  <2> HIDE DEF same
  <2> QED
    BY <2>1, <2>2, <2>3, <2>5
<1>3. CASE ~ Knows(list, id) /\ id \in BadIds
  BY <1>1, <1>3 DEF Heard
<1>4. CASE ~ Knows(list, id) /\ id \notin BadIds
  <2>1. H = Append(list, NewPeer(id, sender))
    BY <1>4 DEF Heard
  <2>2. NewPeer(id, sender) \in Peer
    BY <1>4 DEF NewPeer, Peer
  <2> HIDE DEF NewPeer, H
  <2>3. H \in Seq(Peer) /\ Len(H) = Len(list) + 1 /\ DOMAIN H = 1 .. Len(list) + 1
    BY <1>1, <2>1, <2>2
  <2>4. /\ \A i \in DOMAIN list : H[i] = list[i]
        /\ H[Len(list) + 1] = NewPeer(id, sender)
    BY <1>1, <2>1, <2>2
  <2> QED
    BY <1>4, <2>3, <2>4 DEF H
<1> QED
  BY <1>2, <1>3, <1>4

\* So a place of the list holds the peer that it held, or the new one.
LEMMA HeardPlaces ==
    ASSUME NEW list \in Seq(Peer), NEW id \in Ids, NEW sender \in Ids \cup {NewHost},
           time \in 0 .. (Day - 1), NEW i \in DOMAIN Heard(list, id, sender)
    PROVE  \/ /\ i \in DOMAIN list
              /\ Heard(list, id, sender)[i].id = list[i].id
              /\ Heard(list, id, sender)[i].host = list[i].host
              /\ Heard(list, id, sender)[i].lastseen \in {list[i].lastseen, time}
           \/ Heard(list, id, sender)[i] = NewPeer(id, sender)
<1>1. DOMAIN list = 1 .. Len(list) /\ Len(list) \in Nat
  OBVIOUS
<1> DEFINE H == Heard(list, id, sender)
<1>2. \/ /\ Len(H) = Len(list)
         /\ DOMAIN H = DOMAIN list
         /\ \A k \in DOMAIN list : /\ H[k].id = list[k].id
                                   /\ H[k].host = list[k].host
                                   /\ H[k].lastseen \in {list[k].lastseen, time}
      \/ /\ Len(H) = Len(list) + 1
         /\ DOMAIN H = 1 .. Len(list) + 1
         /\ ~ Knows(list, id)
         /\ \A k \in DOMAIN list : H[k] = list[k]
         /\ H[Len(list) + 1] = NewPeer(id, sender)
  BY HeardCases, Zenon
<1> HIDE DEF H
<1>3. i \in DOMAIN H
  BY DEF H
<1>4. CASE DOMAIN H = DOMAIN list
  <2>1. Len(list) + 1 \notin DOMAIN list
    BY <1>1
  <2> QED
    BY <1>1, <1>2, <1>3, <1>4, <2>1 DEF H
<1>5. CASE DOMAIN H = 1 .. Len(list) + 1
  <2>1. i \in DOMAIN list \/ i = Len(list) + 1
    BY <1>1, <1>3, <1>5
  <2>2. Len(list) + 1 \notin DOMAIN list /\ Len(list) + 1 \in DOMAIN H
    BY <1>1, <1>5
  <2> QED
    BY <1>2, <2>1, <2>2 DEF H
<1> QED
  BY <1>2, <1>4, <1>5

\* A datagram brings nobody into a list but its sender, and nobody twice.
LEMMA HeardKeeps ==
    ASSUME NEW list \in Seq(Peer), NEW id \in Ids, NEW sender \in Ids \cup {NewHost},
           time \in 0 .. (Day - 1)
    PROVE  /\ \A x : Knows(Heard(list, id, sender), x) => Knows(list, x) \/ x = id
           /\ Once(list) => Once(Heard(list, id, sender))
           /\ Len(Heard(list, id, sender)) = Len(list) =>
                 IdsOf(Heard(list, id, sender)) = IdsOf(list)
<1> DEFINE H == Heard(list, id, sender)
<1>1. Len(list) \in Nat /\ DOMAIN list = 1 .. Len(list)
  OBVIOUS
<1>2. \/ /\ Len(H) = Len(list) /\ DOMAIN H = DOMAIN list
         /\ \A i \in DOMAIN list : H[i].id = list[i].id
      \/ /\ Len(H) = Len(list) + 1 /\ DOMAIN H = 1 .. Len(list) + 1
         /\ ~ Knows(list, id)
         /\ \A i \in DOMAIN list : H[i] = list[i]
         /\ H[Len(list) + 1].id = id
  <2>1. NewPeer(id, sender).id = id
    BY DEF NewPeer
  <2>2. \/ /\ Len(H) = Len(list) /\ DOMAIN H = DOMAIN list
           /\ \A i \in DOMAIN list :
                 /\ H[i].id = list[i].id
                 /\ H[i].host = list[i].host
                 /\ H[i].lastseen \in {list[i].lastseen, time}
        \/ /\ Len(H) = Len(list) + 1 /\ DOMAIN H = 1 .. Len(list) + 1
           /\ ~ Knows(list, id)
           /\ \A i \in DOMAIN list : H[i] = list[i]
           /\ H[Len(list) + 1] = NewPeer(id, sender)
    BY HeardCases, ZenonT(60)
  <2> HIDE DEF H
  <2> QED
    BY <2>1, <2>2, Zenon
<1> HIDE DEF H
<1>3. \A x : Knows(H, x) => Knows(list, x) \/ x = id
  BY <1>1, <1>2 DEF Knows
<1>4. Once(list) => Once(H)
  <2>1. CASE DOMAIN H = DOMAIN list /\ \A i \in DOMAIN list : H[i].id = list[i].id
    BY <2>1 DEF Once
  <2>2. CASE /\ DOMAIN H = 1 .. Len(list) + 1
             /\ ~ Knows(list, id)
             /\ \A i \in DOMAIN list : H[i] = list[i]
             /\ H[Len(list) + 1].id = id
    <3>1. \A i \in DOMAIN H : i \in DOMAIN list \/ i = Len(list) + 1
      BY <1>1, <2>2
    <3>2. \A i \in DOMAIN list : H[i].id = list[i].id /\ H[i].id # id
      BY <2>2 DEF Knows
    <3> QED
      BY <2>2, <3>1, <3>2 DEF Once
  <2> QED
    BY <1>2, <2>1, <2>2
<1>5. Len(H) = Len(list) => IdsOf(H) = IdsOf(list)
  BY <1>1, <1>2 DEF IdsOf
<1> QED
  BY <1>3, <1>4, <1>5 DEF H

\* leaveRoom takes a room out and leaves the others.
LEMMA LeavingRooms ==
    ASSUME rooms \in Seq(Rooms), NEW room,
           rooms' = Without(rooms, {i \in DOMAIN rooms : rooms[i] = room})
    PROVE  /\ rooms' \in Seq(Rooms) /\ Len(rooms') <= Len(rooms)
           /\ \A r : Joined(r)' <=> Joined(r) /\ r # room
<1> DEFINE gone == {i \in DOMAIN rooms : rooms[i] = room}
           left == Without(rooms, gone)
<1>1. /\ left \in Seq(Rooms) /\ Len(left) <= Len(rooms)
      /\ \E pos \in [DOMAIN left -> DOMAIN rooms] :
            /\ \A k \in DOMAIN left : left[k] = rooms[pos[k]] /\ pos[k] \notin gone
            /\ \A i \in DOMAIN rooms \ gone : \E k \in DOMAIN left : pos[k] = i
  <2> HIDE DEF gone
  <2>1. /\ left \in Seq(Rooms) /\ Len(left) <= Len(rooms)
        /\ \E pos \in [DOMAIN left -> DOMAIN rooms] :
              /\ \A k \in DOMAIN left :
                    /\ left[k] = rooms[pos[k]]
                    /\ pos[k] \notin gone
                    /\ k <= pos[k]
                    /\ \A d \in 1 .. pos[k] - 1 : d \in gone => k < pos[k]
              /\ \A j, k \in DOMAIN left : j < k => pos[j] < pos[k]
              /\ \A i \in DOMAIN rooms \ gone : \E k \in DOMAIN left : pos[k] = i
    BY ONLY WithoutPositions, rooms \in Seq(Rooms)
  <2> HIDE DEF left
  <2> QED
    BY <2>1
<1>2. PICK pos \in [DOMAIN left -> DOMAIN rooms] :
         /\ \A k \in DOMAIN left : left[k] = rooms[pos[k]] /\ pos[k] \notin gone
         /\ \A i \in DOMAIN rooms \ gone : \E k \in DOMAIN left : pos[k] = i
  BY <1>1
<1>3. rooms' = left
  OBVIOUS
<1> HIDE DEF left
<1>4. \A r : (\E k \in DOMAIN left : left[k] = r) <=> Joined(r) /\ r # room
  BY <1>2 DEF Joined
<1>5. \A r : Joined(r)' <=> Joined(r) /\ r # room
  BY <1>3, <1>4 DEF Joined
<1> QED
  BY <1>1, <1>3, <1>5

\* Datagrams come from the host of their sender or from the new address.
LEMMA SendersType ==
    ASSUME NEW id \in Ids
    PROVE  Senders(id) \subseteq Ids \cup {NewHost}
BY DEF Senders, Hosts

\* The names in a list of peers make a list of IDs.
LEMMA IdsOfType ==
    ASSUME NEW list \in Seq(Peer)
    PROVE  IdsOf(list) \in Seq(Ids)
<1>1. Len(list) \in Nat /\ DOMAIN list = 1 .. Len(list)
  OBVIOUS
<1>2. \A i \in DOMAIN list : list[i].id \in Ids
  <2>1. \A i \in DOMAIN list : list[i] \in Peer
    BY <1>1
  <2> QED
    BY <2>1 DEF Peer
<1>3. IdsOf(list) \in [1 .. Len(list) -> Ids]
  BY <1>1, <1>2 DEF IdsOf
<1> QED
  BY <1>1, <1>3

\* Every step keeps the variables in their types: removing from a list leaves a
\* list, and only peers with a good ID are ever appended.
LEMMA TypeStep ==
    TypeOK /\ [Next]_vars => TypeOK'
<1> SUFFICES ASSUME TypeOK, [Next]_vars PROVE TypeOK'
  OBVIOUS
<1> USE MessengerAssumption
<1>1. CASE Tick
  <2>1. time' \in 0 .. (Day - 1)
    BY <1>1 DEF Tick, TypeOK
  <2> QED
    BY <1>1, <2>1 DEF Tick, TypeOK, roomVars
<1>2. CASE OnTimerdiscovery
  <2> DEFINE pruned == Visited[Len(rooms)]
             left == {r \in Rooms : pruned[r] # roomslist[r]}
  <2>1. pruned \in [Rooms -> Seq(Peer)]
    BY VisitedKeeps DEF TypeOK
  <2>2. peers' \in Seq(Peer)
    BY <1>2, PruneKeeps DEF OnTimerdiscovery, TypeOK
  <2>3. roomslist' = pruned /\ rms' = rms \cup left /\ due' = FALSE
        /\ shown' = [r \in Rooms |-> IF r \in left THEN IdsOf(pruned[r]) ELSE shown[r]]
    BY <1>2 DEF OnTimerdiscovery
  <2> HIDE DEF pruned
  <2>4. \A r \in Rooms : IdsOf(pruned[r]) \in Seq(Ids)
    BY <2>1, IdsOfType
  <2>5. shown' \in [Rooms -> Seq(Ids)] /\ rms' \subseteq Rooms
    BY <2>3, <2>4 DEF TypeOK
  <2> QED
    BY <1>2, <2>1, <2>2, <2>3, <2>5 DEF OnTimerdiscovery, TypeOK
<1>3. ASSUME NEW id \in Ids, Discovery(id) PROVE TypeOK'
  <2>1. PICK sender \in Senders(id) : peers' = Heard(peers, id, sender)
    BY <1>3 DEF Discovery
  <2>2. peers' \in Seq(Peer)
    BY <2>1, SendersType, HeardCases DEF TypeOK
  <2> QED
    BY <1>3, <2>2 DEF Discovery, TypeOK, roomVars
<1>4. ASSUME NEW room \in Rooms, NEW id \in RoomIds, RoomList(room, id) PROVE TypeOK'
  <2>1. PICK sender \in Senders(id) :
           roomslist' = [roomslist EXCEPT ![room] = Heard(roomslist[room], id, sender)]
    BY <1>4 DEF RoomList
  <2>2. id \in Ids /\ sender \in Ids \cup {NewHost} /\ roomslist[room] \in Seq(Peer)
    BY SendersType DEF TypeOK
  <2>3. Heard(roomslist[room], id, sender) \in Seq(Peer)
    BY <2>2, HeardCases DEF TypeOK
  <2>4. roomslist' \in [Rooms -> Seq(Peer)]
    BY <2>1, <2>3 DEF TypeOK
  <2>5. IdsOf(roomslist'[room]) \in Seq(Ids)
    BY <2>4, IdsOfType
  <2>6. \/ /\ rms' = rms \cup {room}
           /\ shown' = [shown EXCEPT ![room] = IdsOf(roomslist'[room])]
        \/ rms' = rms /\ shown' = shown
    BY <1>4 DEF RoomList
  <2>7. shown' \in [Rooms -> Seq(Ids)] /\ rms' \subseteq Rooms
    BY <2>5, <2>6 DEF TypeOK
  <2> QED
    BY <1>4, <2>4, <2>7 DEF RoomList, TypeOK
<1>5. ASSUME NEW room \in Rooms, MakeRoomWindow(room)
      PROVE  rms' \subseteq Rooms /\ shown' \in [Rooms -> Seq(Ids)]
  BY <1>5 DEF MakeRoomWindow, TypeOK
<1>6. ASSUME NEW room \in Rooms, RoomText(room) PROVE TypeOK'
  BY <1>5, <1>6 DEF RoomText, TypeOK
<1>7. ASSUME NEW room \in Rooms, OnJoinRoom(room) PROVE TypeOK'
  <2>1. rooms' \in Seq(Rooms) /\ Len(rooms') <= MaxJoins
    BY <1>7 DEF OnJoinRoom, TypeOK
  <2> QED
    BY <1>5, <1>7, <2>1 DEF OnJoinRoom, TypeOK
<1>8. ASSUME NEW room \in Rooms, OnRoomClosed(room) PROVE TypeOK'
  <2>1. rooms' = Without(rooms, {i \in DOMAIN rooms : rooms[i] = room})
    BY <1>8 DEF OnRoomClosed
  <2>2. rooms' \in Seq(Rooms) /\ Len(rooms') <= Len(rooms)
    BY <2>1, LeavingRooms DEF TypeOK
  <2>3. Len(rooms') <= MaxJoins
    BY <2>2 DEF TypeOK
  <2> QED
    BY <1>8, <2>2, <2>3 DEF OnRoomClosed, TypeOK
<1>9. ASSUME NEW id \in Talkers, PM(id) \/ OpenPM(id) \/ OnPMClosed(id) PROVE TypeOK'
  BY <1>9 DEF PM, OpenPM, MakePMWindow, OnPMClosed, TypeOK, roomVars
<1>10. ASSUME NEW id \in Movers, Move(id) PROVE TypeOK'
  BY <1>10 DEF Move, TypeOK, roomVars
<1>11. CASE UNCHANGED vars
  BY <1>11 DEF vars, TypeOK
<1> QED
  BY <1>1, <1>2, <1>3, <1>4, <1>6, <1>7, <1>8, <1>9, <1>10, <1>11
     DEF Next, Receive, User

\* The program starts with empty lists, no rooms and no windows.
LEMMA TypeInit == Init => TypeOK
<1> SUFFICES ASSUME Init PROVE TypeOK
  OBVIOUS
<1>1. <<>> \in Seq(Peer) /\ <<>> \in Seq(Rooms) /\ <<>> \in Seq(Ids) /\ Len(<<>>) = 0
  OBVIOUS
<1>2. peers \in Seq(Peer) /\ roomslist \in [Rooms -> Seq(Peer)]
  BY <1>1 DEF Init
<1>3. rooms \in Seq(Rooms) /\ Len(rooms) <= MaxJoins
  BY <1>1, MessengerAssumption DEF Init
<1>4. shown \in [Rooms -> Seq(Ids)]
  BY <1>1 DEF Init
<1> QED
  BY <1>2, <1>3, <1>4 DEF Init, TypeOK

\* The lists hold peers with good IDs, addresses and times of day, and windows
\* exist for rooms only, at every moment.
THEOREM TypeCorrect == Spec => []TypeOK
BY TypeInit, TypeStep, PTL DEF Spec

---------------------------------------------------------------------------
\* A step keeps a window open for exactly the joined rooms.
LEMMA WindowStep ==
    TypeOK /\ WindowIffJoined /\ [Next]_vars => WindowIffJoined'
<1> SUFFICES ASSUME TypeOK, WindowIffJoined, [Next]_vars PROVE WindowIffJoined'
  OBVIOUS
<1>1. ASSUME rooms' = rooms, rms' = rms PROVE WindowIffJoined'
  BY <1>1 DEF WindowIffJoined, Joined
<1>2. CASE OnTimerdiscovery
  <2> DEFINE left == {r \in Rooms : Visited[Len(rooms)][r] # roomslist[r]}
  <2>1. rooms' = rooms /\ rms' = rms \cup left
    BY <1>2 DEF OnTimerdiscovery
  <2>2. \A r \in left : Joined(r) /\ r \in rms
    BY VisitedKeeps DEF TypeOK, WindowIffJoined
  <2> HIDE DEF left
  <2>3. rms' = rms
    BY <2>1, <2>2
  <2> QED
    BY <1>1, <2>1, <2>3
<1>3. ASSUME NEW room \in Rooms, NEW id \in RoomIds, RoomList(room, id)
      PROVE  WindowIffJoined'
  <2>1. room \in rms /\ rooms' = rooms
    BY <1>3 DEF RoomList, WindowIffJoined
  <2>2. rms' = rms
    BY <1>3, <2>1 DEF RoomList
  <2> QED
    BY <1>1, <2>1, <2>2
<1>4. ASSUME NEW room \in Rooms, RoomText(room) PROVE WindowIffJoined'
  <2>1. room \in rms /\ rooms' = rooms
    BY <1>4 DEF RoomText, WindowIffJoined
  <2>2. rms' = rms
    BY <1>4, <2>1 DEF RoomText, MakeRoomWindow
  <2> QED
    BY <1>1, <2>1, <2>2
<1>5. ASSUME NEW room \in Rooms, OnJoinRoom(room) PROVE WindowIffJoined'
  <2>1. rooms' = Append(rooms, room) /\ rms' = rms \cup {room}
    BY <1>5 DEF OnJoinRoom, MakeRoomWindow
  <2>2. ASSUME NEW r PROVE Joined(r)' <=> Joined(r) \/ r = room
    <3>1. rooms \in Seq(Rooms) /\ Len(rooms) \in Nat
      BY DEF TypeOK
    <3>2. /\ DOMAIN rooms' = 1 .. Len(rooms) + 1
          /\ DOMAIN rooms = 1 .. Len(rooms)
          /\ rooms'[Len(rooms) + 1] = room
          /\ \A i \in DOMAIN rooms : rooms'[i] = rooms[i]
      BY <2>1, <3>1
    <3>3. \A i \in DOMAIN rooms' : i \in DOMAIN rooms \/ i = Len(rooms) + 1
      BY <3>1, <3>2
    <3>4. DOMAIN rooms \subseteq DOMAIN rooms' /\ Len(rooms) + 1 \in DOMAIN rooms'
      BY <3>1, <3>2
    <3> QED
      BY <3>2, <3>3, <3>4 DEF Joined
  <2> QED
    BY <2>1, <2>2 DEF WindowIffJoined
<1>6. ASSUME NEW room \in Rooms, OnRoomClosed(room) PROVE WindowIffJoined'
  <2>1. /\ rooms' = Without(rooms, {i \in DOMAIN rooms : rooms[i] = room})
        /\ rms' = rms \ {room}
    BY <1>6 DEF OnRoomClosed
  <2>2. \A r : Joined(r)' <=> Joined(r) /\ r # room
    BY <2>1, LeavingRooms DEF TypeOK
  <2> QED
    BY <2>1, <2>2 DEF WindowIffJoined
<1>7. CASE \/ Tick \/ UNCHANGED vars
           \/ \E id \in Ids : Discovery(id)
           \/ \E id \in Talkers : PM(id) \/ OpenPM(id) \/ OnPMClosed(id)
           \/ \E id \in Movers : Move(id)
  <2>1. rooms' = rooms /\ rms' = rms
    BY <1>7 DEF Tick, Discovery, PM, OpenPM, MakePMWindow, OnPMClosed, Move,
                roomVars, vars
  <2> QED
    BY <1>1, <2>1
<1> QED
  BY <1>2, <1>3, <1>4, <1>5, <1>6, <1>7 DEF Next, Receive, User

\* A step leaves in the window of a joined room its peers, or nobody.
LEMMA ShownStep ==
    TypeOK /\ WindowIffJoined /\ WindowFollowsList /\ [Next]_vars => WindowFollowsList'
<1> SUFFICES ASSUME TypeOK, WindowIffJoined, WindowFollowsList, [Next]_vars
             PROVE  WindowFollowsList'
  OBVIOUS
<1>1. ASSUME roomslist' = roomslist, rms' \subseteq rms, shown' = shown
      PROVE  WindowFollowsList'
  BY <1>1 DEF WindowFollowsList, IdsOf
<1>2. CASE OnTimerdiscovery
  <2> DEFINE pruned == Visited[Len(rooms)]
             left == {r \in Rooms : pruned[r] # roomslist[r]}
  <2>1. /\ roomslist' = pruned /\ rms' = rms \cup left
        /\ shown' = [r \in Rooms |-> IF r \in left THEN IdsOf(pruned[r]) ELSE shown[r]]
    BY <1>2 DEF OnTimerdiscovery
  <2>2. \A r \in Rooms : r \notin left => pruned[r] = roomslist[r]
    OBVIOUS
  <2>3. left \subseteq Rooms /\ rms \subseteq Rooms
    BY DEF TypeOK
  <2> HIDE DEF pruned, left
  <2>4. \A r \in rms' : r \in Rooms /\ shown'[r] \in {<<>>, IdsOf(pruned[r])}
    BY <2>1, <2>2, <2>3 DEF WindowFollowsList
  <2>5. \A r : IdsOf(roomslist[r])' = IdsOf(pruned[r])
    BY <2>1 DEF IdsOf
  <2> QED
    BY <2>4, <2>5 DEF WindowFollowsList
<1>3. ASSUME NEW room \in Rooms, NEW id \in RoomIds, RoomList(room, id)
      PROVE  WindowFollowsList'
  <2>1. PICK sender \in Senders(id) :
           roomslist' = [roomslist EXCEPT ![room] = Heard(roomslist[room], id, sender)]
    BY <1>3 DEF RoomList
  <2>2. id \in Ids /\ sender \in Ids \cup {NewHost} /\ roomslist[room] \in Seq(Peer)
    BY SendersType, MessengerAssumption DEF TypeOK
  <2>3. Len(Heard(roomslist[room], id, sender)) = Len(roomslist[room]) =>
           IdsOf(Heard(roomslist[room], id, sender)) = IdsOf(roomslist[room])
    BY <2>2, HeardKeeps DEF TypeOK
  <2>4. /\ roomslist'[room] = Heard(roomslist[room], id, sender)
        /\ \A r \in Rooms : r # room => roomslist'[r] = roomslist[r]
    BY <2>1 DEF TypeOK
  <2>5. room \in rms /\ rms' \subseteq rms \cup {room}
    BY <1>3 DEF RoomList, WindowIffJoined
  <2>6. \/ /\ shown' = [shown EXCEPT ![room] = IdsOf(roomslist'[room])]
        \/ /\ Len(roomslist'[room]) = Len(roomslist[room])
           /\ shown' = shown
    BY <1>3 DEF RoomList
  <2>7. rms \subseteq Rooms /\ shown \in [Rooms -> Seq(Ids)]
    BY DEF TypeOK
  <2>8. shown'[room] \in {<<>>, IdsOf(roomslist'[room])}
    BY <2>3, <2>4, <2>5, <2>6, <2>7 DEF WindowFollowsList
  <2>9. ASSUME NEW r \in rms', r # room PROVE shown'[r] \in {<<>>, IdsOf(roomslist'[r])}
    <3>1. r \in rms /\ r \in Rooms /\ shown'[r] = shown[r] /\ roomslist'[r] = roomslist[r]
      BY <2>4, <2>5, <2>6, <2>7, <2>9
    <3> QED
      BY <3>1 DEF WindowFollowsList
  <2>10. \A r \in rms' : shown'[r] \in {<<>>, IdsOf(roomslist'[r])}
    BY <2>8, <2>9
  <2> QED
    BY <2>10 DEF WindowFollowsList, IdsOf
<1>4. ASSUME NEW room \in Rooms, MakeRoomWindow(room), roomslist' = roomslist
      PROVE  WindowFollowsList'
  <2>1. rms' = rms \cup {room} /\ shown \in [Rooms -> Seq(Ids)] /\ rms \subseteq Rooms
    BY <1>4 DEF MakeRoomWindow, TypeOK
  <2>2. shown' = IF room \in rms THEN shown ELSE [shown EXCEPT ![room] = <<>>]
    BY <1>4 DEF MakeRoomWindow
  <2>3. \A r \in rms' : (r \in rms /\ shown'[r] = shown[r]) \/ shown'[r] = <<>>
    BY <2>1, <2>2
  <2>4. \A r \in rms' : shown'[r] \in {<<>>, IdsOf(roomslist[r])}
    BY <2>3 DEF WindowFollowsList
  <2> QED
    BY <1>4, <2>4 DEF WindowFollowsList, IdsOf
<1>5. ASSUME NEW room \in Rooms, RoomText(room) \/ OnJoinRoom(room)
      PROVE  WindowFollowsList'
  BY <1>4, <1>5 DEF RoomText, OnJoinRoom
<1>6. CASE \/ Tick \/ UNCHANGED vars
           \/ \E id \in Ids : Discovery(id)
           \/ \E id \in Talkers : PM(id) \/ OpenPM(id) \/ OnPMClosed(id)
           \/ \E id \in Movers : Move(id)
           \/ \E room \in Rooms : OnRoomClosed(room)
  <2>1. roomslist' = roomslist /\ rms' \subseteq rms /\ shown' = shown
    BY <1>6 DEF Tick, Discovery, PM, OpenPM, MakePMWindow, OnPMClosed, Move,
                OnRoomClosed, roomVars, vars
  <2> QED
    BY <1>1, <2>1
<1> QED
  BY <1>2, <1>3, <1>5, <1>6 DEF Next, Receive, User

---------------------------------------------------------------------------
\* A step names no peer twice in a list.
LEMMA OnceStep ==
    TypeOK /\ NamedOnce /\ [Next]_vars => NamedOnce'
<1> SUFFICES ASSUME TypeOK, NamedOnce, [Next]_vars PROVE NamedOnce'
  OBVIOUS
<1>1. Once(peers) /\ \A r \in Rooms : Once(roomslist[r])
  BY DEF NamedOnce, Once
<1>2. ASSUME Once(peers'), \A r \in Rooms : Once(roomslist'[r]) PROVE NamedOnce'
  BY <1>2 DEF NamedOnce, Once
<1>3. CASE OnTimerdiscovery
  <2>1. peers' = Prune(peers) /\ roomslist' = Visited[Len(rooms)]
    BY <1>3 DEF OnTimerdiscovery
  <2>2. Once(Prune(peers))
    BY <1>1, PruneKeeps DEF TypeOK
  <2>3. \A r \in Rooms : Once(Visited[Len(rooms)][r])
    BY <1>1, VisitedKeeps DEF TypeOK
  <2> QED
    BY <1>2, <2>1, <2>2, <2>3
<1>4. ASSUME NEW id \in Ids, Discovery(id) PROVE NamedOnce'
  <2>1. PICK sender \in Senders(id) : peers' = Heard(peers, id, sender)
    BY <1>4 DEF Discovery
  <2>2. roomslist' = roomslist
    BY <1>4 DEF Discovery, roomVars
  <2>3. Once(Heard(peers, id, sender))
    BY <1>1, HeardKeeps, SendersType DEF TypeOK
  <2> QED
    BY <1>1, <1>2, <2>1, <2>2, <2>3
<1>5. ASSUME NEW room \in Rooms, NEW id \in RoomIds, RoomList(room, id) PROVE NamedOnce'
  <2>1. PICK sender \in Senders(id) :
           roomslist' = [roomslist EXCEPT ![room] = Heard(roomslist[room], id, sender)]
    BY <1>5 DEF RoomList
  <2>2. id \in Ids /\ sender \in Ids \cup {NewHost} /\ roomslist[room] \in Seq(Peer)
    BY SendersType, MessengerAssumption DEF TypeOK
  <2>3. Once(Heard(roomslist[room], id, sender))
    BY <1>1, <2>2, HeardKeeps DEF TypeOK
  <2>4. \A r \in Rooms : roomslist'[r] = IF r = room THEN Heard(roomslist[room], id, sender)
                                                   ELSE roomslist[r]
    BY <2>1 DEF TypeOK
  <2>5. peers' = peers
    BY <1>5 DEF RoomList
  <2>6. \A r \in Rooms : Once(roomslist'[r])
    BY <1>1, <2>3, <2>4
  <2> QED
    BY <1>1, <1>2, <2>5, <2>6
<1>6. CASE \/ Tick \/ UNCHANGED vars
           \/ \E id \in Talkers : PM(id) \/ OpenPM(id) \/ OnPMClosed(id)
           \/ \E id \in Movers : Move(id)
           \/ \E room \in Rooms : RoomText(room) \/ OnJoinRoom(room) \/ OnRoomClosed(room)
  <2>1. peers' = peers /\ roomslist' = roomslist
    BY <1>6 DEF Tick, PM, OpenPM, MakePMWindow, OnPMClosed, Move, RoomText,
                OnJoinRoom, OnRoomClosed, roomVars, vars
  <2> QED
    BY <1>1, <1>2, <2>1
<1> QED
  BY <1>3, <1>4, <1>5, <1>6 DEF Next, Receive, User

---------------------------------------------------------------------------
Population == Cardinality(Ids \ BadIds)

\* The address of a peer is one that it has had.
AtHome == \A i \in DOMAIN peers : peers[i].host \in Hosts(peers[i].id)

\* The further back in the list, the younger: an old peer that the timer steps over
\* moves forward by one place at least.
Young ==
    \A i \in DOMAIN peers :
        time - peers[i].lastseen <= Expiry + Population - i + (IF due THEN 1 ELSE 0)

\* A list that names nobody twice is no longer than there are good IDs.
LEMMA FewPeers ==
    ASSUME NEW list \in Seq(Peer), Once(list)
    PROVE  Population \in Nat /\ Len(list) <= Population
<1> DEFINE S == 1 .. Len(list)
           name == [i \in S |-> list[i].id]
<1>1. Len(list) \in Nat /\ DOMAIN list = S /\ \A i \in S : list[i] \in Peer
  OBVIOUS
<1>2. IsFiniteSet(Ids \ BadIds) /\ Cardinality(Ids \ BadIds) \in Nat
  BY FS_Subset, FS_CardinalityType, MessengerAssumption
<1>3. name \in Injection(S, Ids \ BadIds)
  <2>1. \A i \in S : list[i].id \in Ids \ BadIds
    BY <1>1 DEF Peer
  <2>2. \A i, j \in S : name[i] = name[j] => i = j
    BY <1>1 DEF Once
  <2> QED
    BY <2>1, <2>2 DEF Injection, IsInjective
<1>4. Cardinality(S) <= Cardinality(Ids \ BadIds)
  <2> HIDE DEF name
  <2> QED
    BY <1>2, <1>3, FS_Injection
<1>5. Cardinality(S) = Len(list)
  <2>1. Cardinality(1 .. Len(list)) = IF 1 > Len(list) THEN 0 ELSE Len(list) - 1 + 1
    BY <1>1, FS_Interval
  <2> QED
    BY <1>1, <2>1
<1> QED
  BY <1>2, <1>4, <1>5 DEF Population

\* A step keeps the addresses: the list takes the host of a new peer from the
\* datagram that announces it.
LEMMA HomeStep ==
    TypeOK /\ AtHome /\ [Next]_vars => AtHome'
<1> SUFFICES ASSUME TypeOK, AtHome, [Next]_vars
             PROVE  AtHome'
  OBVIOUS
<1>1. \A j \in DOMAIN peers : peers[j].host \in Hosts(peers[j].id)
  BY DEF AtHome
<1>2. peers \in Seq(Peer) /\ DOMAIN peers = 1 .. Len(peers) /\ Len(peers) \in Nat
      /\ \A j \in DOMAIN peers : peers[j] \in Peer
  BY DEF TypeOK
<1>3. ASSUME moved' = moved,
             \A i \in DOMAIN peers' : peers'[i].host \in Hosts(peers'[i].id)
      PROVE  AtHome'
  BY <1>3 DEF AtHome, Hosts
<1>4. CASE OnTimerdiscovery
  <2>1. peers' = Prune(peers) /\ moved' = moved
    BY <1>4 DEF OnTimerdiscovery
  <2>2. ASSUME NEW i \in DOMAIN peers' PROVE peers'[i].host \in Hosts(peers'[i].id)
    <3>1. PICK j \in DOMAIN peers : Prune(peers)[i] = peers[j]
      BY <1>2, <2>1, PrunePositions
    <3> QED
      BY <1>1, <2>1, <3>1
  <2> QED
    BY <1>3, <2>1, <2>2
<1>5. ASSUME NEW id \in Ids, Discovery(id) PROVE AtHome'
  <2>1. PICK sender \in Senders(id) : peers' = Heard(peers, id, sender)
    BY <1>5 DEF Discovery
  <2>2. moved' = moved
    BY <1>5 DEF Discovery
  <2>3. sender \in Hosts(id)
    BY DEF Senders
  <2>4. ASSUME NEW i \in DOMAIN peers' PROVE peers'[i].host \in Hosts(peers'[i].id)
    <3>1. sender \in Ids \cup {NewHost} /\ time \in 0 .. (Day - 1)
      BY SendersType DEF TypeOK
    <3>2. i \in DOMAIN Heard(peers, id, sender)
      BY <2>1, <2>4
    <3>3. \/ i \in DOMAIN peers /\ peers'[i].id = peers[i].id /\ peers'[i].host = peers[i].host
          \/ peers'[i] = NewPeer(id, sender)
      BY <1>2, <2>1, <3>1, <3>2, HeardPlaces
    <3> QED
      BY <1>1, <2>3, <3>3 DEF NewPeer
  <2> QED
    BY <1>3, <2>2, <2>4
<1>6. ASSUME NEW id \in Movers, Move(id) PROVE AtHome'
  <2>1. moved = NoHost /\ peers' = peers
    BY <1>6 DEF Move
  <2>2. ASSUME NEW i \in DOMAIN peers PROVE peers[i].host = peers[i].id
    <3>1. peers[i].id \in Ids
      BY <1>2, <2>2 DEF Peer
    <3>2. moved # peers[i].id
      BY <2>1, <3>1, MessengerAssumption
    <3> QED
      BY <1>1, <2>2, <3>2 DEF Hosts
  <2> QED
    BY <2>1, <2>2 DEF AtHome, Hosts
<1>7. CASE \/ Tick \/ UNCHANGED vars
           \/ \E id \in Talkers : PM(id) \/ OpenPM(id) \/ OnPMClosed(id)
           \/ \E room \in Rooms : \/ RoomText(room) \/ OnJoinRoom(room) \/ OnRoomClosed(room)
                                  \/ \E id \in RoomIds : RoomList(room, id)
  <2>1. peers' = peers /\ moved' = moved
    BY <1>7 DEF Tick, PM, OpenPM, MakePMWindow, OnPMClosed, RoomText, RoomList,
                OnJoinRoom, OnRoomClosed, vars
  <2> QED
    BY <1>1, <1>3, <2>1
<1> QED
  BY <1>4, <1>5, <1>6, <1>7 DEF Next, Receive, User

\* A step keeps the bound on the ages: time adds one before the timer's slot runs,
\* and that slot moves every old peer forward or removes it.
LEMMA AgeStep ==
    TypeOK /\ NamedOnce /\ Young /\ [Next]_vars => Young'
<1> SUFFICES ASSUME TypeOK, NamedOnce, Young, [Next]_vars, NEW i \in DOMAIN peers'
             PROVE  time' - peers'[i].lastseen
                       <= Expiry + Population - i + (IF due' THEN 1 ELSE 0)
  BY DEF Young
<1>1. /\ time \in Nat /\ time < Day /\ Day \in Nat /\ Expiry \in Nat
      /\ peers \in Seq(Peer) /\ DOMAIN peers = 1 .. Len(peers) /\ Len(peers) \in Nat
      /\ \A j \in DOMAIN peers : peers[j] \in Peer /\ peers[j].lastseen \in Nat
  <2>1. /\ time \in Nat /\ time < Day /\ Day \in Nat /\ Expiry \in Nat
        /\ peers \in Seq(Peer)
    BY MessengerAssumption DEF TypeOK
  <2>2. \A j \in DOMAIN peers : peers[j] \in Peer
    BY <2>1
  <2>3. \A p \in Peer : p.lastseen \in Nat
    BY <2>1 DEF Peer
  <2> QED
    BY <2>1, <2>2, <2>3
<1>2. \A j \in DOMAIN peers :
         time - peers[j].lastseen <= Expiry + Population - j + (IF due THEN 1 ELSE 0)
  BY DEF Young
<1>3. Once(peers')
  BY OnceStep DEF NamedOnce, Once
<1>4. peers' \in Seq(Peer)
  BY TypeStep DEF TypeOK
<1>5. Population \in Nat /\ Len(peers') <= Population
  BY <1>3, <1>4, FewPeers
<1>6. i \in Nat /\ 1 <= i /\ i <= Population
  BY <1>4, <1>5
<1>7. CASE Tick
  <2>1. /\ time' = (time + 1) % Day
        /\ peers' = peers /\ ~ due /\ due'
    BY <1>7 DEF Tick
  <2>2. time' \in Nat /\ time' <= time + 1
    <3>1. ASSUME NEW t \in Nat, t < Day PROVE t % Day = t
      BY <1>1, <3>1
    <3>2. CASE time + 1 = Day
      BY <1>1, <2>1, <3>2
    <3>3. CASE time + 1 < Day
      BY <1>1, <2>1, <3>1, <3>3
    <3> QED
      BY <1>1, <3>2, <3>3
  <2>3. i \in DOMAIN peers /\ peers[i].lastseen \in Nat
    BY <1>1, <2>1
  <2>4. time - peers[i].lastseen <= Expiry + Population - i
    BY <1>1, <1>2, <1>5, <1>6, <2>1, <2>3
  <2> QED
    BY <1>1, <1>5, <1>6, <2>1, <2>2, <2>3, <2>4
<1>8. CASE OnTimerdiscovery
  <2>1. peers' = Prune(peers) /\ time' = time /\ due' = FALSE /\ due
    BY <1>8 DEF OnTimerdiscovery
  <2>2. PICK j \in DOMAIN peers : /\ peers'[i] = peers[j]
                                  /\ IsOld(peers[j]) => i < j
    BY <1>1, <2>1, PrunePositions
  <2>3. j \in Nat /\ peers[j].lastseen \in Nat
        /\ time - peers[j].lastseen <= Expiry + Population - j + 1
    BY <1>1, <1>2, <2>1
  <2>4. time - peers[j].lastseen \in Int /\ Expiry \in Nat
    BY <1>1, <2>3
  <2>5. time - peers[j].lastseen <= Expiry + Population - i
    <3>1. CASE IsOld(peers[j])
      <4>1. i < j
        BY <2>2, <3>1
      <4> QED
        BY <1>5, <1>6, <2>3, <2>4, <4>1
    <3>2. CASE ~ IsOld(peers[j])
      <4>1. time - peers[j].lastseen <= Expiry
        BY <2>4, <3>2 DEF IsOld
      <4> QED
        BY <1>5, <1>6, <2>4, <4>1
    <3> QED
      BY <3>1, <3>2
  <2> QED
    BY <1>5, <1>6, <2>1, <2>2, <2>4, <2>5
<1>9. ASSUME NEW id \in Ids, Discovery(id)
      PROVE  time' - peers'[i].lastseen
                <= Expiry + Population - i + (IF due' THEN 1 ELSE 0)
  <2>1. PICK sender \in Senders(id) : peers' = Heard(peers, id, sender)
    BY <1>9 DEF Discovery
  <2>2. time' = time /\ due' = due
    BY <1>9 DEF Discovery
  <2>3. \/ i \in DOMAIN peers /\ peers'[i].lastseen = peers[i].lastseen
        \/ peers'[i].lastseen = time
    <3>1. sender \in Ids \cup {NewHost} /\ time \in 0 .. (Day - 1)
      BY SendersType DEF TypeOK
    <3>2. i \in DOMAIN Heard(peers, id, sender)
      BY <2>1
    <3>3. NewPeer(id, sender).lastseen = time
      BY DEF NewPeer
    <3> QED
      BY <1>1, <2>1, <3>1, <3>2, <3>3, HeardPlaces
  <2>4. CASE i \in DOMAIN peers /\ peers'[i].lastseen = peers[i].lastseen
    BY <1>2, <2>2, <2>4
  <2>5. CASE peers'[i].lastseen = time
    BY <1>1, <1>5, <1>6, <2>2, <2>5
  <2> QED
    BY <2>3, <2>4, <2>5
<1>10. CASE \/ UNCHANGED vars
            \/ \E id \in Talkers : PM(id) \/ OpenPM(id) \/ OnPMClosed(id)
            \/ \E id \in Movers : Move(id)
            \/ \E room \in Rooms : \/ RoomText(room) \/ OnJoinRoom(room) \/ OnRoomClosed(room)
                                   \/ \E id \in RoomIds : RoomList(room, id)
  <2>1. peers' = peers /\ time' = time /\ due' = due
    BY <1>10 DEF PM, OpenPM, MakePMWindow, OnPMClosed, Move, RoomText, RoomList,
                 OnJoinRoom, OnRoomClosed, vars
  <2> QED
    BY <1>2, <2>1
<1> QED
  BY <1>7, <1>8, <1>9, <1>10 DEF Next, Receive, User

---------------------------------------------------------------------------
\* The inductive invariant: the properties themselves, and what the last two of
\* them follow from.
Inv ==
    /\ TypeOK
    /\ WindowIffJoined
    /\ WindowFollowsList
    /\ NamedOnce
    /\ AtHome
    /\ Young

\* The inductive invariant holds at every moment.
LEMMA Invariance == Spec => []Inv
<1>1. ASSUME Init PROVE Inv
  <2>1. /\ peers = <<>> /\ rooms = <<>> /\ rms = {}
        /\ \A r \in Rooms : roomslist[r] = <<>>
    BY <1>1 DEF Init
  <2>2. DOMAIN <<>> = {}
    OBVIOUS
  <2>3. NamedOnce /\ AtHome /\ Young
    BY <2>1, <2>2 DEF NamedOnce, AtHome, Young
  <2>4. WindowIffJoined /\ WindowFollowsList
    BY <2>1, <2>2 DEF WindowIffJoined, Joined, WindowFollowsList
  <2> QED
    BY <1>1, <2>3, <2>4, TypeInit DEF Inv
<1>2. Inv /\ [Next]_vars => Inv'
  BY TypeStep, WindowStep, ShownStep, OnceStep, HomeStep, AgeStep DEF Inv
<1> QED
  BY <1>1, <1>2, PTL DEF Spec

\* At every moment a room has a window exactly when it is joined.
THEOREM RoomWindows == Spec => []WindowIffJoined
<1>1. Inv => WindowIffJoined
  BY DEF Inv
<1> QED
  BY <1>1, Invariance, PTL

\* At every moment the window of a room lists those in the messenger's list of the
\* room, or nobody.
THEOREM WindowsFollowLists == Spec => []WindowFollowsList
<1>1. Inv => WindowFollowsList
  BY DEF Inv
<1> QED
  BY <1>1, Invariance, PTL

\* At every moment each list names a peer at most once.
THEOREM PeersNamedOnce == Spec => []NamedOnce
<1>1. Inv => NamedOnce
  BY DEF Inv
<1> QED
  BY <1>1, Invariance, PTL

\* Whenever the timer's slot runs, at least half of the old peers leave each list
\* that it looks through.
THEOREM OldPeersHalved == Spec => HalfOfTheOldLeave
<1>1. ASSUME Inv, [Next]_vars, due, ~ due'
      PROVE  /\ Halved(peers, peers')
             /\ \A r \in Rooms : Joined(r) => Halved(roomslist[r], roomslist'[r])
  <2>1. OnTimerdiscovery
    BY <1>1 DEF Next, Tick, Receive, User, Discovery, RoomList, RoomText, PM, OpenPM,
                MakePMWindow, OnPMClosed, OnJoinRoom, OnRoomClosed, Move, vars
  <2>2. peers' = Prune(peers) /\ roomslist' = Visited[Len(rooms)]
    BY <2>1 DEF OnTimerdiscovery
  <2>3. /\ peers \in Seq(Peer)
        /\ rooms \in Seq(Rooms) /\ roomslist \in [Rooms -> Seq(Peer)]
    BY <1>1 DEF Inv, TypeOK
  <2>4. Halved(peers, Prune(peers))
    BY <2>3, PruneHalves
  <2>5. \A r \in Rooms : Joined(r) => Halved(roomslist[r], Visited[Len(rooms)][r])
    BY <2>3, VisitedHalves
  <2> QED
    BY <2>2, <2>4, <2>5
<1> QED
  BY <1>1, Invariance, PTL DEF Spec, HalfOfTheOldLeave

\* However often the loop steps over an old peer, on the day it was last seen no
\* peer stays longer than one timer period for each peer there can be.
THEOREM OldPeersCaught == Spec => []CaughtInTheEnd
<1>1. Inv => CaughtInTheEnd
  <2> SUFFICES ASSUME Inv, NEW i \in DOMAIN peers
               PROVE  time - peers[i].lastseen <= Expiry + Population
    BY DEF CaughtInTheEnd, Population
  <2>1. peers \in Seq(Peer) /\ time \in Nat /\ Expiry \in Nat
    BY MessengerAssumption DEF Inv, TypeOK
  <2>2. peers[i] \in Peer /\ i \in Nat /\ 1 <= i
    BY <2>1
  <2>3. peers[i].lastseen \in Nat
    BY <2>2, MessengerAssumption DEF Peer
  <2>4. Population \in Nat
    BY <2>1, FewPeers DEF Inv, NamedOnce, Once
  <2>5. time - peers[i].lastseen <= Expiry + Population - i + (IF due THEN 1 ELSE 0)
    BY DEF Inv, Young
  <2> QED
    BY <2>1, <2>2, <2>3, <2>4, <2>5
<1> QED
  BY <1>1, Invariance, PTL

\* A private message to a listed peer goes to an address that this peer has had.
THEOREM MessagesReachTheirPeer == Spec => []MessagesArrive
<1>1. Inv => MessagesArrive
  <2> SUFFICES ASSUME Inv, NEW id \in pms, Knows(peers, id)
               PROVE  AddressOf(id) \in Hosts(id)
    BY DEF MessagesArrive
  <2> DEFINE i == CHOOSE k \in DOMAIN peers : peers[k].id = id
  <2>1. i \in DOMAIN peers /\ peers[i].id = id
    BY DEF Knows
  <2>2. peers[i].host \in Hosts(id)
    BY <2>1 DEF Inv, AtHome
  <2> QED
    BY <2>2 DEF AddressOf
<1> QED
  BY <1>1, Invariance, PTL
=============================================================================
