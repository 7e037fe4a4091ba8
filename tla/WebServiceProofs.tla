------------------------- MODULE WebServiceProofs -------------------------
(***************************************************************************)
(* Proofs about WebService, for any finite set of request threads, any     *)
(* numbers, texts and hash codes of them, and any number of requests.      *)
(***************************************************************************)
EXTENDS WebService, FiniteSetTheorems, SequenceTheorems, TLAPS

Lettering == Adding \cup Updating \cup {"find", "save", "complete"}

\* s can be calculated and has the hash code k.
RightFor(k, s) == s \in Sum /\ Calculable(s) /\ HashCode(s) = k

\* A thread's request is of the kind that its handler is for.
KindInv ==
    \A t \in Threads :
        /\ pc[t] \in Calculating => req[t] \in Sum
        /\ pc[t] \in Calculating \ {"lookup"} => req[t].first # BadNumber
        /\ pc[t] \in Lettering => req[t] \in Letter

CacheInv == \A e \in cache : RightFor(e.key, e.value)

ResultInv ==
    \A t \in Threads :
        /\ pc[t] \in {"put", "putting"} => RightFor(HashCode(req[t]), result[t])
        /\ pc[t] \in {"wrote", "leave", "idle"} /\ page[t] = "result" =>
              RightFor(HashCode(req[t]), result[t])

\* A thread that is going to put something has found nothing, and who else puts
\* something in its time has raced with it.
MapInv ==
    \A t \in Threads :
        /\ pc[t] \in {"put", "putting"} /\ "cache" \notin raced[t] => Entries(t) = {}
        /\ pc[t] \in {"lookup", "get", "put", "putting"} /\ "cache" \notin raced[t] =>
              \A u \in Threads \ {t} : pc[u] # "putting"

Savers(x) == {t \in Threads : pc[t] = "save" /\ req[t].text = x}

\* A thread that is going to insert a row has found none.
RowInv == \A x \in Texts : rows[x] + Cardinality(Savers(x)) <= Cardinality(Threads)

\* The fields are right for a text ...
MinCovers(x) == field["min"] # None /\ field["min"] <= x
MaxCovers(x) == field["max"] # None /\ x <= field["max"]
MostCovers(x) == field["popular"] # None /\ Frequency(x) <= Frequency(field["popular"])

\* ... that is an element of the list.
Covered(i) ==
    elements[i] # None =>
        MinCovers(elements[i]) /\ MaxCovers(elements[i]) /\ MostCovers(elements[i])

\* The part of the list that an undisturbed update has been through is covered,
\* and of the element it has come to the fields it has compared.
RepairFor(t) ==
    "shared" \notin raced[t] =>
        /\ pc[t] = "visit" =>
              at[t] <= Len(elements) /\ \A i \in 1 .. at[t] : Covered(i)
        /\ pc[t] \in Updating \ {"visit"} =>
              /\ at[t] \in 1 .. Len(elements) /\ string[t] = elements[at[t]]
              /\ \A i \in 1 .. at[t] : i # at[t] => Covered(i)
        /\ pc[t] \in {"min=", "max="} =>
              \A f \in {"min", "max"} : pc[t] = Assignment[f] =>
                  Beats(string[t], f) /\ (string[t] = None => field[f] = None)
        /\ pc[t] \in Updating \ {"visit", "min", "min="} =>
              IF string[t] = None THEN field["min"] = None ELSE MinCovers(string[t])
        /\ pc[t] \in {"popular", "counting", "popular="} /\ string[t] # None =>
              MaxCovers(string[t])
        /\ pc[t] = "counting" => field["popular"] # None
        /\ pc[t] = "popular=" =>
              \/ field["popular"] = None
              \/ Frequency(string[t]) > Frequency(field["popular"])
        /\ pc[t] = "find" => \A i \in 1 .. size : Covered(i)

RepairInv == \A t \in Threads : RepairFor(t)

IInv ==
    /\ TypeOK /\ KindInv /\ CacheInv /\ ResultInv /\ MapInv
    /\ CounterCounts /\ RowInv /\ RepairInv

---------------------------------------------------------------------------
(***************************************************************************)
(* The hash code is an int.                                                *)
(***************************************************************************)
LEMMA WordType ==
    ASSUME NEW p \in Word
    PROVE  p[1] \in Int /\ p[2] \in Int
  BY DEF Word

\* The sum of a hash is cut to two halves of 16 bits ...
LEMMA Times31PlusType ==
    ASSUME NEW x \in Word, NEW y \in Word
    PROVE  Times31Plus(x, y) \in Word
<1> DEFINE low == 31 * x[2] + y[2]
           high == 31 * x[1] + y[1] + low \div Half
<1>1. \A n \in Int : n % Half \in 0 .. Half - 1 /\ n \div Half \in Int
  <2>1. Half \in Int /\ Half > 0
    BY DEF Half
  <2>2. ASSUME NEW n \in Int PROVE n % Half \in 0 .. Half - 1 /\ n \div Half \in Int
    BY <2>1
  <2> QED
    BY <2>2
<1>2. low \in Int
  BY WordType
<1>3. high \in Int
  BY <1>1, <1>2, WordType
<1>4. Times31Plus(x, y) = <<high % Half, low % Half>>
  BY DEF Times31Plus
<1> QED
  BY <1>1, <1>2, <1>3, <1>4 DEF Word

\* ... so the hash of a request is an int.
LEMMA HashCodeType ==
    ASSUME NEW s \in Sum, s.first # BadNumber
    PROVE  HashCode(s) \in Word
<1>1. <<0, 1>> \in Word
  <2>1. Half \in Int /\ Half > 1
    BY DEF Half
  <2> QED
    BY <2>1 DEF Word
<1>2. DoubleHash[s.first] \in Word /\ DoubleHash[s.second] \in Word /\ ActHash[s.act] \in Word
  BY ServiceAssumption DEF Sum
<1> QED
  BY <1>1, <1>2, Times31PlusType DEF HashCode

---------------------------------------------------------------------------
(***************************************************************************)
(* What a thread leaves alone.                                             *)
(***************************************************************************)
Apart(t) ==
    \A u \in Threads \ {t} :
        /\ pc'[u] = pc[u] /\ req'[u] = req[u] /\ page'[u] = page[u]
        /\ at'[u] = at[u] /\ string'[u] = string[u]
        /\ raced[u] \subseteq raced'[u]

LEMMA CalculationFrame ==
    ASSUME TypeOK, NEW t \in Threads, Calculation(t)
    PROVE  /\ UNCHANGED <<loop, letterVars>> /\ Apart(t)
           /\ \A u \in Threads \ {t} : result'[u] = result[u]
           /\ pc[t] \in Calculating \cup {"idle"} /\ pc'[t] \in Calculating \cup {"idle"}
<1> USE DEF TypeOK, Apart, loop, Calculating
<1>1. CASE Calculate(t)
  BY <1>1 DEF Calculate, Begins, Goes, Answers
<1>2. CASE ParseFails(t) \/ GetsNull(t) \/ DividesByZero(t)
  BY <1>2 DEF ParseFails, GetsNull, DividesByZero, NotCached, Throw, Answers
<1>3. CASE ContainsKey(t) \/ Get(t) \/ WrongAct(t) \/ Compute(t)
  BY <1>3 DEF ContainsKey, Get, WrongAct, Compute, NotCached, Goes, Answers
<1>4. CASE PutBegins(t)
  <2>1. \A u \in Threads : raced[u] \subseteq raced'[u]
    BY <1>4 DEF PutBegins, Races
  <2> QED
    BY <1>4, <2>1 DEF PutBegins, Goes
<1>5. CASE PutEnds(t)
  BY <1>5 DEF PutEnds, Goes, Answers
<1>6. CASE Leave(t)
  BY <1>6 DEF Leave
<1> QED
  BY <1>1, <1>2, <1>3, <1>4, <1>5, <1>6 DEF Calculation

LEMMA CountCharacterFrame ==
    ASSUME TypeOK, NEW t \in Threads, CountCharacter(t)
    PROVE  /\ UNCHANGED <<result, calcVars>> /\ Apart(t)
           /\ pc[t] \in Lettering \cup {"idle"} /\ pc'[t] \in Lettering \cup {"idle"}
           /\ page'[t] # "result"
<1>1. PICK l \in Letter :
         /\ Begins(t, l, IF l.single THEN "add" ELSE "idle")
         /\ Answers(t, IF l.single THEN "none" ELSE "error")
  BY DEF CountCharacter
<1>2. pc[t] = "idle" /\ \E x \in {"add", "idle"} : pc' = [pc EXCEPT ![t] = x]
  BY <1>1 DEF Begins, Goes
<1>3. \E p \in {"none", "error"} : page' = [page EXCEPT ![t] = p]
  BY <1>1 DEF Answers
<1>4. req' = [req EXCEPT ![t] = l]
  BY <1>1 DEF Begins
<1>5. UNCHANGED <<result, calcVars, loop>> /\ raced' = [raced EXCEPT ![t] = {}]
  BY DEF CountCharacter
<1>6. pc'[t] \in {"add", "idle"} /\ page'[t] # "result"
  BY <1>2, <1>3 DEF TypeOK
<1>7. Apart(t)
  BY <1>2, <1>3, <1>4, <1>5 DEF Apart, TypeOK, loop
<1>8. pc[t] \in Lettering \cup {"idle"} /\ pc'[t] \in Lettering \cup {"idle"}
  BY <1>2, <1>6 DEF Lettering, Adding
<1> QED
  BY <1>5, <1>6, <1>7, <1>8

LEMMA LetterFrame ==
    ASSUME TypeOK, NEW t \in Threads, LetterCount(t)
    PROVE  /\ UNCHANGED <<result, calcVars>> /\ Apart(t)
           /\ pc[t] \in Lettering \cup {"idle"} /\ pc'[t] \in Lettering \cup {"idle"}
           /\ page'[t] = page[t] \/ page'[t] # "result"
           /\ CountCharacter(t) \/ (req'[t] = req[t] /\ pc[t] \in Lettering)
<1>1. CASE CountCharacter(t)
  BY <1>1, CountCharacterFrame
<1> USE DEF TypeOK, Apart, loop, Lettering, Adding, Updating
<1>2. CASE EnsureCapacity(t) \/ WriteSize(t) \/ Assign(t)
  <2>1. EnsureCapacity(t) =>
           /\ UNCHANGED <<result, calcVars, req, page, at, string>>
           /\ pc[t] = "add"
           /\ pc' = [pc EXCEPT ![t] = "ref"] \/ pc' = [pc EXCEPT ![t] = "grow"]
           /\ \A u \in Threads : raced[u] \subseteq raced'[u]
    BY DEF EnsureCapacity, Goes, Races
  <2>2. CASE WriteSize(t)
    BY <2>2 DEF WriteSize, Goes, Touches, Races
  <2>3. CASE Assign(t)
    <3>1. UNCHANGED <<result, calcVars, req, page, at, string>>
      BY <2>3 DEF Assign
    <3>2. pc[t] \in Updating /\ \E x \in Updating : pc' = [pc EXCEPT ![t] = x]
      <4>1. PICK f \in Fields : Goes(t, Assignment[f], After[f])
        BY <2>3 DEF Assign
      <4>2. Assignment[f] \in Updating /\ After[f] \in Updating
        BY DEF Assignment, After, Fields
      <4> QED
        BY <4>1, <4>2 DEF Goes
    <3>3. \A u \in Threads : raced[u] \subseteq raced'[u]
      BY <2>3 DEF Assign, Touches, Races
    <3> QED
      BY <3>1, <3>2, <3>3
  <2> QED
    BY <1>2, <2>1, <2>2, <2>3
<1>3. CASE Grow(t) \/ ReadArray(t) \/ ReadSize(t) \/ Store(t)
  <2>1. CASE Grow(t)
    <3>1. \A u \in Threads : raced[u] \subseteq raced'[u]
      BY <2>1 DEF Grow
    <3> QED
      BY <2>1, <3>1 DEF Grow, Goes
  <2>2. CASE ReadArray(t) \/ ReadSize(t)
    BY <2>2 DEF ReadArray, ReadSize, Goes
  <2>3. CASE Store(t)
    <3>1. \A u \in Threads \ {t} : raced[u] \subseteq raced'[u]
      BY <2>3 DEF Store
    <3> QED
      BY <2>3, <3>1 DEF Store, Goes
  <2> QED
    BY <1>3, <2>1, <2>2, <2>3
<1>4. CASE Fails(t) /\ pc[t] \in Lettering
  BY <1>4 DEF Fails, Answers, LoopEnds
<1>5. StoreThrows(t) \/ VisitThrows(t) \/ CompareThrows(t) \/ CountThrows(t) \/ FindsMany(t)
         \/ CompleteTask(t) => Fails(t) /\ pc[t] \in Lettering
  BY DEF StoreThrows, VisitThrows, CompareThrows, CountThrows, FindsMany, CompleteTask
<1>6. CASE Visit(t) \/ UpdateEnds(t)
  BY <1>6 DEF Visit, UpdateEnds, LoopEnds, Goes
<1>7. CASE Compare(t) \/ BeginCount(t) \/ EndCount(t)
  <2>1. UNCHANGED <<result, calcVars, req, page, at, string>>
    BY <1>7 DEF Compare, BeginCount, EndCount
  <2>2. pc[t] \in Updating /\ \E x \in Updating : pc' = [pc EXCEPT ![t] = x]
    BY <1>7 DEF Compare, BeginCount, EndCount, Assignment, After, Goes
  <2>3. \A u \in Threads \ {t} : raced[u] \subseteq raced'[u]
    BY <1>7 DEF Compare, BeginCount, EndCount
  <2> QED
    BY <2>1, <2>2, <2>3
<1>8. CASE FindByString(t) \/ Save(t)
  BY <1>8 DEF FindByString, Save, Goes
<1> QED
  BY <1>1, <1>2, <1>3, <1>4, <1>5, <1>6, <1>7, <1>8 DEF LetterCount, Add, Update

\* No place belongs to both handlers.
LEMMA PlacesApart ==
    ASSUME NEW p
    PROVE  /\ p \in Lettering => p \notin Calculating /\ p # "idle"
           /\ p \in Calculating => p # "idle"
           /\ p \in Updating \cup {"find", "save"} => p \in Lettering
  BY DEF Lettering, Adding, Updating, Calculating

---------------------------------------------------------------------------
(***************************************************************************)
(* The initial state.                                                      *)
(***************************************************************************)
LEMMA InitIInv == Init => IInv
<1> SUFFICES ASSUME Init
             PROVE  IInv
  OBVIOUS
<1>1. TypeOK
  <2>1. /\ elements \in Seq(Texts \cup {None}) /\ size \in Nat
        /\ array \in [Threads -> Seq(Texts \cup {None})]
    BY DEF Init
  <2>2. /\ pc \in [Threads -> Places]
        /\ req \in [Threads -> Sum \cup Letter \cup {None}]
        /\ result \in [Threads -> Sum \cup {None}]
        /\ page \in [Threads -> {"none", "result", "error", "exception"}]
        /\ raced \in [Threads -> SUBSET {"cache", "array", "modCount", "count", "shared"}]
        /\ cache \subseteq [key : Word, value : Sum]
    BY DEF Init, Places
  <2>3. /\ at \in [Threads -> Nat]
        /\ string \in [Threads -> Texts \cup {None}]
        /\ counter \in Int /\ thrown \in Nat
        /\ field \in [Fields -> Texts \cup {None}]
        /\ rows \in [Texts -> Nat]
        /\ served \in 0 .. MaxRequests
    BY ServiceAssumption DEF Init
  <2> QED
    BY <2>1, <2>2, <2>3 DEF TypeOK
<1>2. /\ \A t \in Threads : pc[t] = "idle" /\ page[t] = "none"
      /\ counter = 0 /\ thrown = 0 /\ cache = {}
      /\ \A x \in Texts : rows[x] = 0
  BY DEF Init
<1>3. KindInv /\ CacheInv /\ ResultInv /\ MapInv
  BY <1>2 DEF KindInv, CacheInv, ResultInv, MapInv, Calculating, Lettering, Adding, Updating
<1>4. RepairInv
  BY <1>2 DEF RepairInv, RepairFor, Updating
<1>5. CounterCounts
  <2>1. {t \in Threads : pc[t] \in Calculating} = {}
    BY <1>2 DEF Calculating
  <2> QED
    BY <1>2, <2>1, FS_EmptySet DEF CounterCounts
<1>6. RowInv
  <2>1. \A x \in Texts : Savers(x) = {}
    BY <1>2 DEF Savers
  <2>2. Cardinality(Threads) \in Nat
    BY ServiceAssumption, FS_CardinalityType
  <2> QED
    BY <1>2, <2>1, <2>2, FS_EmptySet DEF RowInv
<1> QED
  BY <1>1, <1>3, <1>4, <1>5, <1>6 DEF IInv

---------------------------------------------------------------------------
(***************************************************************************)
(* Types.                                                                  *)
(***************************************************************************)
LEMMA KindStep == ASSUME IInv, [Next]_vars PROVE KindInv'
<1> USE DEF IInv, KindInv
<1>1. CASE UNCHANGED vars
  BY <1>1 DEF vars
<1>2. ASSUME NEW t \in Threads, Calculation(t) PROVE KindInv'
  <2>1. \A u \in Threads \ {t} : pc'[u] = pc[u] /\ req'[u] = req[u]
    BY <1>2, CalculationFrame DEF Apart
  <2>2. pc'[t] \in Calculating => req'[t] \in Sum
    BY <1>2 DEF Calculation, Calculate, ParseFails, ContainsKey, Get, GetsNull, WrongAct,
       DividesByZero, Compute, PutBegins, PutEnds, Leave, Throw, Begins, Goes, NotCached,
       Calculating, TypeOK
  <2>3. pc'[t] \in Calculating \ {"lookup"} => req'[t].first # BadNumber
    BY <1>2 DEF Calculation, Calculate, ParseFails, ContainsKey, Get, GetsNull, WrongAct,
       DividesByZero, Compute, PutBegins, PutEnds, Leave, Throw, Begins, Goes, NotCached,
       Calculating, TypeOK
  <2>4. pc'[t] \notin Lettering
    BY <1>2, CalculationFrame, PlacesApart
  <2> QED
    BY <2>1, <2>2, <2>3, <2>4
<1>3. ASSUME NEW t \in Threads, LetterCount(t) PROVE KindInv'
  <2>1. \A u \in Threads \ {t} : pc'[u] = pc[u] /\ req'[u] = req[u]
    BY <1>3, LetterFrame DEF Apart
  <2>2. pc'[t] \notin Calculating
    BY <1>3, LetterFrame, PlacesApart DEF Calculating
  <2>3. req'[t] \in Letter
    <3>1. CountCharacter(t) => req'[t] \in Letter
      BY DEF CountCharacter, Begins, TypeOK
    <3> QED
      BY <1>3, <3>1, LetterFrame
  <2> QED
    BY <2>1, <2>2, <2>3
<1> QED
  BY <1>1, <1>2, <1>3 DEF Next

PlaceType ==
    /\ pc \in [Threads -> Places]
    /\ req \in [Threads -> Sum \cup Letter \cup {None}]
    /\ page \in [Threads -> {"none", "result", "error", "exception"}]
    /\ served \in 0 .. MaxRequests

\* Types are kept: the places, requests and pages of the threads ...
LEMMA PlaceTypeStep == ASSUME IInv, [Next]_vars PROVE PlaceType'
<1> USE DEF PlaceType, IInv, TypeOK
<1>p. \A x \in Calculating \cup Lettering \cup {"idle"} : x \in Places
  BY DEF Places, Lettering
<1>1. CASE UNCHANGED vars
  BY <1>1 DEF vars
<1>2. ASSUME NEW t \in Threads, Calculate(t) PROVE PlaceType'
  BY <1>2, ServiceAssumption DEF Calculate, Begins, Goes, Answers, Places, Calculating
<1>3. ASSUME NEW t \in Threads,
             ParseFails(t) \/ GetsNull(t) \/ DividesByZero(t) \/ Leave(t)
      PROVE  PlaceType'
  BY <1>3, <1>p DEF ParseFails, GetsNull, DividesByZero, Leave, Throw, Answers
<1>4. ASSUME NEW t \in Threads, ContainsKey(t) \/ Get(t) \/ WrongAct(t) \/ Compute(t)
      PROVE  PlaceType'
  BY <1>4 DEF ContainsKey, Get, WrongAct, Compute, Goes, Answers, Places, Calculating
<1>5. ASSUME NEW t \in Threads, PutBegins(t) \/ PutEnds(t) PROVE PlaceType'
  BY <1>5 DEF PutBegins, PutEnds, Goes, Answers, Places, Calculating
<1>6. ASSUME NEW t \in Threads, CountCharacter(t) PROVE PlaceType'
  <2>1. PICK l \in Letter :
           /\ Begins(t, l, IF l.single THEN "add" ELSE "idle")
           /\ Answers(t, IF l.single THEN "none" ELSE "error")
    BY <1>6 DEF CountCharacter
  <2>2. \E x \in {"add", "idle"} : pc' = [pc EXCEPT ![t] = x]
    BY <2>1 DEF Begins, Goes
  <2>3. \E p \in {"none", "error"} : page' = [page EXCEPT ![t] = p]
    BY <2>1 DEF Answers
  <2>4. req' = [req EXCEPT ![t] = l] /\ served' \in 0 .. MaxRequests
    BY <2>1, ServiceAssumption DEF Begins
  <2> QED
    BY <2>2, <2>3, <2>4, <1>p DEF Lettering, Adding
<1>7. ASSUME NEW t \in Threads, LetterCount(t), ~ CountCharacter(t) PROVE PlaceType'
  <2>1. req' = req /\ served' = served
    BY <1>7 DEF LetterCount, Add, EnsureCapacity, Grow, ReadArray, ReadSize, WriteSize,
       Store, StoreThrows, Update, Visit, VisitThrows, Compare, CompareThrows, BeginCount,
       EndCount, CountThrows, Assign, UpdateEnds, FindByString, FindsMany, Save,
       CompleteTask, Fails
  <2>2. page' = page \/ page' = [page EXCEPT ![t] = "exception"]
    BY <1>7 DEF LetterCount, Add, EnsureCapacity, Grow, ReadArray, ReadSize, WriteSize,
       Store, StoreThrows, Update, Visit, VisitThrows, Compare, CompareThrows, BeginCount,
       EndCount, CountThrows, Assign, UpdateEnds, FindByString, FindsMany, Save,
       CompleteTask, Fails, Answers
  <2>3. \E x : pc' = [pc EXCEPT ![t] = x]
    BY <1>7 DEF LetterCount, Add, EnsureCapacity, Grow, ReadArray, ReadSize, WriteSize,
       Store, StoreThrows, Update, Visit, VisitThrows, Compare, CompareThrows, BeginCount,
       EndCount, CountThrows, Assign, UpdateEnds, FindByString, FindsMany, Save,
       CompleteTask, Fails, Goes
  <2>4. pc'[t] \in Places
    BY <1>7, <1>p, LetterFrame
  <2> QED
    BY <2>1, <2>2, <2>3, <2>4
<1> QED
  BY <1>1, <1>2, <1>3, <1>4, <1>5, <1>6, <1>7 DEF Next, Calculation

RacedType == raced \in [Threads -> SUBSET {"cache", "array", "modCount", "count", "shared"}]

\* ... what each has raced with ...
LEMMA RacedTypeStep == ASSUME IInv, [Next]_vars PROVE RacedType'
<1>0. RacedType
  BY DEF IInv, TypeOK, RacedType
<1> USE DEF RacedType
<1>1. ASSUME UNCHANGED raced PROVE RacedType'
  BY <1>0, <1>1
<1>2. ASSUME NEW t \in Threads,
             NEW s \in SUBSET {"cache", "array", "modCount", "count", "shared"},
             raced' = [raced EXCEPT ![t] = s]
      PROVE  RacedType'
  BY <1>0, <1>2
<1>3. ASSUME NEW t \in Threads, NEW places,
             NEW what \in SUBSET {"cache", "array", "modCount", "count", "shared"},
             Races(t, places, what)
      PROVE  RacedType'
  BY <1>0, <1>3 DEF Races
<1>4. ASSUME NEW t \in Threads, Calculation(t) PROVE RacedType'
  <2>1. CASE Calculate(t)
    <3>1. \E s \in SUBSET {"cache"} : raced' = [raced EXCEPT ![t] = s]
      BY <2>1 DEF Calculate
    <3> QED
      BY <1>2, <3>1
  <2>2. CASE PutBegins(t)
    BY <1>3, <2>2 DEF PutBegins
  <2>3. CASE ContainsKey(t) \/ Get(t) \/ WrongAct(t) \/ Compute(t) \/ PutEnds(t)
    BY <1>1, <2>3 DEF ContainsKey, Get, WrongAct, Compute, PutEnds
  <2>4. CASE ParseFails(t) \/ GetsNull(t) \/ DividesByZero(t) \/ Leave(t)
    BY <1>2, <2>4 DEF ParseFails, GetsNull, DividesByZero, Leave, Throw
  <2> QED
    BY <1>4, <2>1, <2>2, <2>3, <2>4 DEF Calculation
<1>5. ASSUME NEW t \in Threads, LetterCount(t) PROVE RacedType'
  <2>1. CASE CountCharacter(t)
    BY <1>2, <2>1 DEF CountCharacter
  <2>2. CASE EnsureCapacity(t) \/ WriteSize(t) \/ Assign(t)
    BY <1>3, <2>2 DEF EnsureCapacity, WriteSize, Assign, Touches
  <2>3. CASE Grow(t)
    BY <1>0, <2>3 DEF Grow
  <2>4. CASE Store(t)
    BY <1>0, <2>4 DEF Store
  <2>5. CASE BeginCount(t)
    BY <1>0, <2>5 DEF BeginCount
  <2>6. CASE Fails(t)
    BY <1>2, <2>6 DEF Fails
  <2>7. CASE \/ ReadArray(t) \/ ReadSize(t) \/ Visit(t) \/ Compare(t) \/ EndCount(t)
             \/ UpdateEnds(t) \/ FindByString(t) \/ Save(t)
    BY <1>1, <2>7 DEF ReadArray, ReadSize, Visit, Compare, EndCount, UpdateEnds,
                      FindByString, Save
  <2> QED
    BY <1>5, <2>1, <2>2, <2>3, <2>4, <2>5, <2>6, <2>7
       DEF LetterCount, Add, Update, StoreThrows, VisitThrows, CompareThrows, CountThrows,
           FindsMany, CompleteTask
<1> QED
  BY <1>1, <1>4, <1>5 DEF Next, vars

LoopType ==
    /\ at \in [Threads -> Nat]
    /\ array \in [Threads -> Seq(Texts \cup {None})]
    /\ string \in [Threads -> Texts \cup {None}]

ListType ==
    /\ elements \in Seq(Texts \cup {None}) /\ size \in Nat
    /\ field \in [Fields -> Texts \cup {None}]
    /\ rows \in [Texts -> Nat]

\* The copy that a growing list is given is as long as the new capacity.
LEMMA NewCapacityType ==
    ASSUME TypeOK
    PROVE  NewCapacity \in Nat
<1> DEFINE len == Len(elements)
           s == {size + 1, len + len \div 2, IF len = 0 THEN DefaultCapacity ELSE 0}
<1>1. len \in Nat /\ size \in Nat
  BY DEF TypeOK
<1>2. len + len \div 2 \in Nat
  BY <1>1
<1> DEFINE half == len + len \div 2
           first == IF len = 0 THEN DefaultCapacity ELSE 0
<1>3. half \in Nat /\ first \in Nat
  BY <1>2, ServiceAssumption
<1> HIDE DEF half, first
<1>4. \E x \in {size + 1, half, first} : \A y \in {size + 1, half, first} : y <= x
  BY <1>1, <1>3
<1>5. \A x \in {size + 1, half, first} : x \in Nat
  BY <1>1, <1>3
<1>6. NewCapacity = CHOOSE x \in {size + 1, half, first} :
                        \A y \in {size + 1, half, first} : y <= x
  BY DEF NewCapacity, LargestOf, half, first
<1> QED
  BY <1>4, <1>5, <1>6

\* ... the locals of add and update ...
LEMMA LoopTypeStep == ASSUME IInv, [Next]_vars PROVE LoopType'
<1> USE DEF LoopType
<1>0. LoopType /\ TypeOK /\ elements \in Seq(Texts \cup {None}) /\ size \in Nat
  BY DEF IInv, TypeOK
<1>1. ASSUME UNCHANGED loop PROVE LoopType'
  BY <1>0, <1>1 DEF loop
<1>2. ASSUME NEW t \in Threads, LoopEnds(t) PROVE LoopType'
  <2>1. <<>> \in Seq(Texts \cup {None})
    OBVIOUS
  <2> QED
    BY <1>0, <1>2, <2>1 DEF LoopEnds
<1>3. ASSUME NEW t \in Threads, EnsureCapacity(t) PROVE LoopType'
  <2> DEFINE copy == [i \in 1 .. NewCapacity |->
                         IF i <= Len(elements) THEN elements[i] ELSE None]
  <2>1. \A i \in 1 .. NewCapacity :
           (IF i <= Len(elements) THEN elements[i] ELSE None) \in Texts \cup {None}
    BY <1>0, NewCapacityType
  <2>2. copy \in [1 .. NewCapacity -> Texts \cup {None}]
    BY <2>1
  <2>3. copy \in Seq(Texts \cup {None})
    <3> HIDE DEF copy
    <3>1. NewCapacity \in Nat
      BY <1>0, NewCapacityType
    <3> QED
      BY <2>2, <3>1, SeqDef
  <2>4. array' = array \/ array' = [array EXCEPT ![t] = copy]
    BY <1>3 DEF EnsureCapacity
  <2>5. at' = at /\ string' = string
    BY <1>3 DEF EnsureCapacity
  <2> HIDE DEF copy
  <2> QED
    BY <1>0, <2>3, <2>4, <2>5
<1>4. ASSUME NEW t \in Threads, ReadArray(t) \/ ReadSize(t) PROVE LoopType'
  BY <1>0, <1>4 DEF ReadArray, ReadSize
<1>5. ASSUME NEW t \in Threads, Store(t) PROVE LoopType'
  <2>1. <<>> \in Seq(Texts \cup {None})
    OBVIOUS
  <2> QED
    BY <1>0, <1>5, <2>1 DEF Store
<1>6. ASSUME NEW t \in Threads, Visit(t) PROVE LoopType'
  <2>1. at[t] + 1 \in 1 .. Len(elements)
    BY <1>0, <1>6 DEF Visit
  <2>2. elements[at[t] + 1] \in Texts \cup {None}
    BY <1>0, <2>1
  <2> QED
    BY <1>0, <1>6, <2>2 DEF Visit
<1>7. ASSUME NEW t \in Threads, Fails(t) \/ UpdateEnds(t) PROVE LoopType'
  BY <1>2, <1>7 DEF Fails, UpdateEnds
<1>8. ASSUME NEW t \in Threads, Calculation(t) PROVE LoopType'
  BY <1>0, <1>1, <1>8, CalculationFrame
<1> QED
  BY <1>1, <1>3, <1>4, <1>5, <1>6, <1>7, <1>8
     DEF Next, vars, LetterCount, Add, Update, CountCharacter, Grow, WriteSize, StoreThrows,
         VisitThrows, Compare, CompareThrows, BeginCount, EndCount, CountThrows, Assign,
         FindByString, FindsMany, Save, CompleteTask

\* ... the list, the fields and the table ...
LEMMA ListTypeStep == ASSUME IInv, [Next]_vars PROVE ListType'
<1> USE DEF ListType
<1>0. ListType /\ TypeOK /\ LoopType
  BY DEF IInv, TypeOK, LoopType
<1>k. \A t \in Threads : pc[t] \in Lettering => req[t].text \in Texts
  BY DEF IInv, KindInv, Letter
<1>1. ASSUME UNCHANGED letterVars PROVE ListType'
  BY <1>0, <1>1 DEF letterVars, list
<1>2. ASSUME NEW t \in Threads, Grow(t) \/ WriteSize(t) PROVE ListType'
  BY <1>0, <1>2 DEF Grow, WriteSize, LoopType
<1>3. ASSUME NEW t \in Threads, Store(t) PROVE ListType'
  <2>1. req[t].text \in Texts
    BY <1>3, <1>k DEF Store, Goes, Lettering, Adding
  <2>2. elements' \in Seq(Texts \cup {None})
    <3>1. CASE elements' = elements
      BY <1>0, <3>1
    <3>2. CASE elements' = [elements EXCEPT ![at[t] + 1] = req[t].text]
      <4>1. CASE at[t] + 1 \in 1 .. Len(elements)
        BY <1>0, <2>1, <3>2, <4>1, ExceptSeq
      <4>2. CASE at[t] + 1 \notin 1 .. Len(elements)
        <5>1. elements \in [1 .. Len(elements) -> Texts \cup {None}]
          BY <1>0
        <5>2. elements' = elements
          BY <3>2, <4>2, <5>1
        <5> QED
          BY <1>0, <5>2
      <4> QED
        BY <4>1, <4>2
    <3> QED
      BY <1>3, <3>1, <3>2 DEF Store
  <2> QED
    BY <1>0, <1>3, <2>2 DEF Store
<1>4. ASSUME NEW t \in Threads, Assign(t) PROVE ListType'
  BY <1>0, <1>4 DEF Assign, LoopType, list
<1>5. ASSUME NEW t \in Threads, Save(t) PROVE ListType'
  <2>1. req[t].text \in Texts
    BY <1>5, <1>k DEF Save, Goes, Lettering
  <2> QED
    BY <1>0, <1>5, <2>1 DEF Save, list
<1>6. ASSUME NEW t \in Threads, Calculation(t) PROVE ListType'
  BY <1>0, <1>1, <1>6, CalculationFrame
<1> QED
  BY <1>1, <1>2, <1>3, <1>4, <1>5, <1>6
     DEF Next, vars, LetterCount, Add, Update, CountCharacter, EnsureCapacity, ReadArray,
         ReadSize, StoreThrows, Visit, VisitThrows, Compare, CompareThrows, BeginCount,
         EndCount, CountThrows, UpdateEnds, FindByString, FindsMany, CompleteTask, Fails

CalcType ==
    /\ result \in [Threads -> Sum \cup {None}]
    /\ counter \in Int /\ thrown \in Nat
    /\ cache \subseteq [key : Word, value : Sum]

\* ... the counter and the cache: a put leaves old entries there and its own.
LEMMA PutFacts ==
    ASSUME IInv, NEW t \in Threads, PutEnds(t)
    PROVE  /\ RightFor(HashCode(req[t]), result[t])
           /\ \A e \in cache' : e \in [key : Word, value : Sum] /\ RightFor(e.key, e.value)
<1> DEFINE own == [key |-> HashCode(req[t]), value |-> result[t]]
<1>1. pc[t] = "putting"
  BY DEF PutEnds, Goes
<1>2. req[t] \in Sum /\ req[t].first # BadNumber
  BY <1>1 DEF IInv, KindInv, Calculating
<1>3. RightFor(HashCode(req[t]), result[t])
  BY <1>1 DEF IInv, ResultInv
<1>4. own \in [key : Word, value : Sum] /\ RightFor(own.key, own.value)
  BY <1>2, <1>3, HashCodeType DEF RightFor
<1>5. \A e \in cache : e \in [key : Word, value : Sum] /\ RightFor(e.key, e.value)
  BY DEF IInv, TypeOK, CacheInv
<1>6. \A e \in cache' : e \in cache \/ e = own
  BY DEF PutEnds
<1> QED
  BY <1>3, <1>4, <1>5, <1>6

LEMMA CalcTypeStep == ASSUME IInv, [Next]_vars PROVE CalcType'
<1>0. CalcType /\ TypeOK
  BY DEF IInv, TypeOK, CalcType
<1>1. ASSUME UNCHANGED <<result, calcVars>> PROVE CalcType'
  BY <1>0, <1>1 DEF CalcType, calcVars
<1>2. ASSUME NEW t \in Threads, Calculate(t) \/ Leave(t) PROVE CalcType'
  BY <1>0, <1>2 DEF Calculate, Leave, CalcType
<1>3. ASSUME NEW t \in Threads, Throw(t) PROVE CalcType'
  BY <1>0, <1>3 DEF Throw, CalcType
<1>4. ASSUME NEW t \in Threads, Get(t) PROVE CalcType'
  <2>1. \A e \in cache : e.value \in Sum
    BY <1>0 DEF CalcType
  <2>2. PICK e \in Entries(t) : result' = [result EXCEPT ![t] = e.value]
    BY <1>4 DEF Get
  <2>3. e.value \in Sum
    BY <2>1 DEF Entries
  <2> QED
    BY <1>0, <1>4, <2>2, <2>3 DEF Get, calcVars, CalcType
<1>5. ASSUME NEW t \in Threads, Compute(t) PROVE CalcType'
  <2>1. req[t] \in Sum
    BY <1>5 DEF Compute, NotCached, IInv, KindInv, Calculating
  <2> QED
    BY <1>0, <1>5, <2>1 DEF Compute, calcVars, CalcType
<1>6. ASSUME NEW t \in Threads, PutEnds(t) PROVE CalcType'
  <2>1. \A e \in cache' : e \in [key : Word, value : Sum]
    BY <1>6, PutFacts
  <2>2. UNCHANGED <<result, counter, thrown>>
    BY <1>6 DEF PutEnds
  <2> QED
    BY <1>0, <2>1, <2>2 DEF CalcType
<1>7. ASSUME NEW t \in Threads, LetterCount(t) PROVE CalcType'
  BY <1>0, <1>1, <1>7, LetterFrame
<1> QED
  BY <1>1, <1>2, <1>3, <1>4, <1>5, <1>6, <1>7
     DEF Next, vars, Calculation, ParseFails, ContainsKey, GetsNull, WrongAct,
         DividesByZero, PutBegins

---------------------------------------------------------------------------
(***************************************************************************)
(* The cache and the answers.                                              *)
(***************************************************************************)

\* Only results of calculations with a hash are put under it.
LEMMA CacheStep == ASSUME IInv, [Next]_vars PROVE CacheInv'
<1>1. ASSUME UNCHANGED cache PROVE CacheInv'
  BY <1>1 DEF IInv, CacheInv
<1>2. ASSUME NEW t \in Threads, PutEnds(t) PROVE CacheInv'
  BY <1>2, PutFacts DEF CacheInv
<1>3. ASSUME NEW t \in Threads, LetterCount(t) PROVE CacheInv'
  BY <1>1, <1>3, LetterFrame DEF IInv, calcVars
<1> QED
  BY <1>1, <1>2, <1>3
     DEF Next, vars, calcVars, Calculation, Calculate, ParseFails, ContainsKey, Get,
         GetsNull, WrongAct, DividesByZero, Compute, PutBegins, Leave, Throw

\* A thread's result is one for its hash from get or compute to its answer.
LEMMA ResultStep == ASSUME IInv, [Next]_vars PROVE ResultInv'
<1>0. ResultInv /\ TypeOK /\ KindInv
  BY DEF IInv
<1> USE DEF ResultInv
<1>1. CASE UNCHANGED vars
  BY <1>0, <1>1 DEF vars
<1>2. ASSUME NEW t \in Threads, Calculation(t) PROVE ResultInv'
  <2>1. \A u \in Threads \ {t} : /\ pc'[u] = pc[u] /\ req'[u] = req[u] /\ page'[u] = page[u]
                                 /\ result'[u] = result[u]
    BY <1>0, <1>2, CalculationFrame DEF Apart
  <2>2. /\ pc'[t] \in {"put", "putting"} => RightFor(HashCode(req'[t]), result'[t])
        /\ pc'[t] \in {"wrote", "leave", "idle"} /\ page'[t] = "result" =>
              RightFor(HashCode(req'[t]), result'[t])
    <3> USE DEF TypeOK
    <3>1. CASE Calculate(t)
      BY <1>0, <3>1 DEF Calculate, Begins, Goes, Answers
    <3>2. CASE Throw(t)
      BY <1>0, <3>2 DEF Throw, Answers
    <3>3. CASE ContainsKey(t) \/ PutBegins(t) \/ WrongAct(t)
      BY <1>0, <3>3 DEF ContainsKey, PutBegins, WrongAct, Goes, Answers
    <3>4. CASE Get(t)
      <4>1. PICK e \in Entries(t) : result' = [result EXCEPT ![t] = e.value]
        BY <3>4 DEF Get
      <4>2. RightFor(HashCode(req[t]), e.value)
        BY <4>1 DEF IInv, CacheInv, Entries
      <4> QED
        BY <1>0, <3>4, <4>1, <4>2 DEF Get, Goes, Answers
    <3>5. CASE Compute(t)
      <4>1. RightFor(HashCode(req[t]), req[t])
        BY <1>0, <3>5 DEF Compute, NotCached, KindInv, Calculating, RightFor
      <4> QED
        BY <1>0, <3>5, <4>1 DEF Compute
    <3>6. CASE PutEnds(t)
      BY <1>0, <3>6, PutFacts DEF PutEnds, Goes, Answers
    <3>7. CASE Leave(t)
      BY <1>0, <3>7 DEF Leave
    <3> QED
      BY <1>2, <3>1, <3>2, <3>3, <3>4, <3>5, <3>6, <3>7
         DEF Calculation, ParseFails, GetsNull, DividesByZero
  <2> QED
    BY <1>0, <2>1, <2>2
<1>3. ASSUME NEW t \in Threads, LetterCount(t) PROVE ResultInv'
  <2>1. /\ result' = result
        /\ \A u \in Threads \ {t} : pc'[u] = pc[u] /\ req'[u] = req[u] /\ page'[u] = page[u]
    BY <1>0, <1>3, LetterFrame DEF Apart
  <2>2. pc'[t] \notin Calculating
    BY <1>0, <1>3, LetterFrame, PlacesApart DEF Calculating
  <2>3. page'[t] # "result" \/ (pc'[t] = "idle" => FALSE)
    <3>1. CASE CountCharacter(t)
      BY <1>0, <3>1 DEF CountCharacter, Answers, TypeOK
    <3>2. CASE pc'[t] = "idle" /\ ~ CountCharacter(t)
      <4>1. pc[t] # "idle" \/ pc'[t] # pc[t]
        BY <1>0, <1>3, <3>2, LetterFrame, PlacesApart
      <4>2. Fails(t)
        BY <1>0, <1>3, <3>2 DEF LetterCount, Add, EnsureCapacity, Grow, ReadArray,
           ReadSize, WriteSize, Store, StoreThrows, Update, Visit, VisitThrows, Compare,
           CompareThrows, BeginCount, EndCount, CountThrows, Assign, UpdateEnds,
           FindByString, FindsMany, Save, CompleteTask, Goes, TypeOK, Assignment, After,
           Fields
      <4> QED
        BY <1>0, <4>2 DEF Fails, Answers, TypeOK
    <3> QED
      BY <3>1, <3>2
  <2> QED
    BY <1>0, <2>1, <2>2, <2>3 DEF Calculating
<1> QED
  BY <1>1, <1>2, <1>3 DEF Next

\* What is put meanwhile is noticed, or else it is not there.
LEMMA MapStep == ASSUME IInv, [Next]_vars PROVE MapInv'
<1>0. MapInv /\ TypeOK
  BY DEF IInv
<1> DEFINE Before == {"lookup", "get", "put", "putting"}
           Blank(t) == pc[t] \in {"put", "putting"} /\ "cache" \notin raced[t] => Entries(t) = {}
           Alone(t) == pc[t] \in Before /\ "cache" \notin raced[t] =>
                          \A u \in Threads \ {t} : pc[u] # "putting"
<1>a. ASSUME \A t \in Threads : Blank(t)' /\ Alone(t)' PROVE MapInv'
  BY <1>a DEF MapInv
<1>b. \A t \in Threads : Blank(t) /\ Alone(t)
  BY <1>0 DEF MapInv
<1>2. CASE UNCHANGED vars
  <2>1. ASSUME NEW t \in Threads PROVE Blank(t)' /\ Alone(t)'
    <3>1. Entries(t)' = Entries(t)
      BY <1>2 DEF vars, calcVars, Entries
    <3> QED
      BY <1>2, <1>b, <3>1 DEF vars
  <2> QED
    BY <1>a, <2>1
<1>3. ASSUME NEW u \in Threads, UNCHANGED cache, Apart(u), pc'[u] # "putting",
             pc'[u] \in Before => /\ pc[u] \in Before /\ raced'[u] = raced[u]
                                  /\ pc'[u] # "put"
      PROVE  MapInv'
  <2>1. ASSUME NEW t \in Threads PROVE Blank(t)' /\ Alone(t)'
    <3>1. \A v \in Threads : pc'[v] = "putting" => pc[v] = "putting" /\ v # u
      BY <1>3 DEF Apart
    <3>2. CASE t = u
      <4>1. pc'[t] \notin {"put", "putting"}
        BY <1>3, <3>2
      <4>2. ASSUME pc'[t] \in Before, "cache" \notin raced'[t], NEW v \in Threads \ {t}
            PROVE  pc'[v] # "putting"
        BY <1>3, <1>b, <3>1, <3>2, <4>2
      <4> QED
        BY <4>1, <4>2
    <3>3. CASE t # u
      <4>1. pc'[t] = pc[t] /\ req'[t] = req[t] /\ raced[t] \subseteq raced'[t]
        BY <1>3, <3>3 DEF Apart
      <4>2. Entries(t)' = Entries(t)
        BY <1>3, <4>1 DEF Entries
      <4> QED
        BY <1>b, <3>1, <4>1, <4>2
    <3> QED
      BY <3>2, <3>3
  <2> QED
    BY <1>a, <2>1
<1>4. ASSUME NEW u \in Threads, LetterCount(u) PROVE MapInv'
  <2>1. Apart(u) /\ cache' = cache
    BY <1>0, <1>4, LetterFrame DEF calcVars
  <2>2. pc'[u] \notin Before
    BY <1>0, <1>4, LetterFrame, PlacesApart DEF Calculating
  <2> QED
    BY <1>3, <2>1, <2>2
<1>5. ASSUME NEW u \in Threads, Calculation(u) PROVE MapInv'
  <2>f. Apart(u)
    BY <1>0, <1>5, CalculationFrame
  <2> USE DEF TypeOK
  <2>1. CASE Calculate(u)
    <3>1. /\ pc[u] = "idle" /\ pc' = [pc EXCEPT ![u] = "lookup"] /\ cache' = cache
          /\ "cache" \notin raced'[u] => \A v \in Threads : pc[v] # "putting"
      BY <1>0, <2>1 DEF Calculate, Begins, Goes
    <3>2. ASSUME NEW t \in Threads PROVE Blank(t)' /\ Alone(t)'
      <4>1. \A v \in Threads : pc'[v] = "putting" => pc[v] = "putting"
        BY <1>0, <3>1
      <4>2. CASE t = u
        BY <1>0, <3>1, <4>1, <4>2
      <4>3. CASE t # u
        <5>1. pc'[t] = pc[t] /\ req'[t] = req[t] /\ raced[t] \subseteq raced'[t]
          BY <2>f, <4>3 DEF Apart
        <5>2. Entries(t)' = Entries(t)
          BY <3>1, <5>1 DEF Entries
        <5> QED
          BY <1>b, <4>1, <5>1, <5>2
      <4> QED
        BY <4>2, <4>3
    <3> QED
      BY <1>a, <3>2
  <2>2. CASE Throw(u) \/ Leave(u) \/ Get(u) \/ WrongAct(u)
    <3>1. cache' = cache /\ pc'[u] \notin Before
      BY <1>0, <2>2 DEF Throw, Leave, Get, WrongAct, Goes, calcVars
    <3> QED
      BY <1>3, <2>f, <3>1
  <2>3. CASE ContainsKey(u)
    <3>1. /\ cache' = cache /\ pc[u] \in Before /\ pc'[u] = "get" /\ raced' = raced
      BY <1>0, <2>3 DEF ContainsKey, Goes, calcVars
    <3> QED
      BY <1>3, <2>f, <3>1
  <2>4. CASE Compute(u)
    <3>1. /\ pc[u] = "lookup" /\ pc' = [pc EXCEPT ![u] = "put"] /\ UNCHANGED <<cache, raced, req>>
          /\ "cache" \notin raced[u] => Entries(u) = {}
      BY <2>4 DEF Compute, NotCached, Misses, calcVars
    <3>2. ASSUME NEW t \in Threads PROVE Blank(t)' /\ Alone(t)'
      <4>1. Entries(t)' = Entries(t)
        BY <3>1 DEF Entries
      <4>2. \A v \in Threads : pc'[v] = "putting" => pc[v] = "putting"
        BY <1>0, <3>1
      <4>3. pc'[t] \in {"put", "putting"} => pc[t] \in {"put", "putting"} \/ t = u
        BY <1>0, <3>1
      <4>4. pc'[t] \in Before => pc[t] \in Before
        BY <1>0, <3>1
      <4> QED
        BY <1>b, <3>1, <4>1, <4>2, <4>3, <4>4
    <3> QED
      BY <1>a, <3>2
  <2>5. CASE PutBegins(u)
    <3>1. /\ pc[u] = "put" /\ pc' = [pc EXCEPT ![u] = "putting"] /\ UNCHANGED <<cache, req>>
          /\ raced'[u] = raced[u]
          /\ \A v \in Threads \ {u} : pc[v] \in Before => "cache" \in raced'[v]
      BY <2>5 DEF PutBegins, Goes, Races, calcVars
    <3>2. ASSUME NEW t \in Threads PROVE Blank(t)' /\ Alone(t)'
      <4>1. Entries(t)' = Entries(t)
        BY <3>1 DEF Entries
      <4>2. CASE t = u
        <5>1. \A v \in Threads \ {t} : pc'[v] = pc[v]
          BY <1>0, <3>1, <4>2
        <5> QED
          BY <1>b, <3>1, <4>1, <4>2, <5>1
      <4>3. CASE t # u
        BY <1>0, <3>1, <4>3
      <4> QED
        BY <4>2, <4>3
    <3> QED
      BY <1>a, <3>2
  <2>6. CASE PutEnds(u)
    <3>1. pc[u] = "putting" /\ pc' = [pc EXCEPT ![u] = "wrote"] /\ UNCHANGED <<req, raced>>
      BY <2>6 DEF PutEnds, Goes
    <3>2. ASSUME NEW t \in Threads PROVE Blank(t)' /\ Alone(t)'
      <4>1. CASE t = u
        BY <1>0, <3>1, <4>1
      <4>2. CASE t # u
        <5>1. pc'[t] = pc[t] /\ \A v \in Threads : pc'[v] = "putting" => pc[v] = "putting"
          BY <1>0, <3>1, <4>2
        <5>2. pc[t] \in Before => "cache" \in raced[t]
          BY <1>b, <3>1, <4>2
        <5> QED
          BY <3>1, <5>1, <5>2
      <4> QED
        BY <4>1, <4>2
    <3> QED
      BY <1>a, <3>2
  <2> QED
    BY <1>5, <2>1, <2>2, <2>3, <2>4, <2>5, <2>6
       DEF Calculation, ParseFails, GetsNull, DividesByZero
<1> QED
  BY <1>2, <1>4, <1>5 DEF Next

---------------------------------------------------------------------------
(***************************************************************************)
(* The counter and the rows.                                               *)
(***************************************************************************)
Calculators == {t \in Threads : pc[t] \in Calculating}

\* Each way into and out of calculate, with the counter beside it.
LEMMA CounterStep == ASSUME IInv, [Next]_vars PROVE CounterCounts'
<1> DEFINE N == Cardinality(Calculators)
<1>0. /\ counter = N + thrown /\ counter \in Int /\ thrown \in Nat
      /\ IsFiniteSet(Calculators) /\ N \in Nat
      /\ TypeOK /\ pc \in [Threads -> Places]
  <2>1. IsFiniteSet(Calculators)
    BY ServiceAssumption, FS_Subset DEF Calculators
  <2> QED
    BY <2>1, FS_CardinalityType DEF IInv, TypeOK, CounterCounts, Calculators
<1>a. CounterCounts' <=> counter' = N' + thrown'
  BY DEF CounterCounts, Calculators
<1>1. ASSUME UNCHANGED <<pc, counter, thrown>> PROVE CounterCounts'
  BY <1>0, <1>1 DEF CounterCounts, IInv
<1>2. ASSUME Calculators' = Calculators, UNCHANGED <<counter, thrown>> PROVE CounterCounts'
  BY <1>0, <1>a, <1>2
<1>3. ASSUME NEW t \in Threads, Calculate(t) PROVE CounterCounts'
  <2>1. t \notin Calculators /\ Calculators' = Calculators \cup {t}
    BY <1>0, <1>3 DEF Calculate, Begins, Goes, Calculators, Calculating
  <2>2. N' = N + 1
    BY <1>0, <2>1, FS_AddElement
  <2>3. counter' = counter + 1 /\ thrown' = thrown
    BY <1>3 DEF Calculate
  <2> QED
    BY <1>0, <1>a, <2>2, <2>3
<1>4. ASSUME NEW t \in Threads, pc[t] \in Calculating, pc' = [pc EXCEPT ![t] = "idle"]
      PROVE  N' = N - 1
  <2>1. t \in Calculators /\ Calculators' = Calculators \ {t}
    BY <1>0, <1>4 DEF Calculators, Calculating
  <2> QED
    BY <1>0, <2>1, FS_RemoveElement
<1>5. ASSUME NEW t \in Threads, ParseFails(t) \/ GetsNull(t) \/ DividesByZero(t)
      PROVE  CounterCounts'
  <2>1. N' = N - 1
    BY <1>4, <1>5 DEF ParseFails, GetsNull, DividesByZero, NotCached, Throw, Calculating
  <2>2. thrown' = thrown + 1 /\ counter' = counter
    BY <1>5 DEF ParseFails, GetsNull, DividesByZero, Throw
  <2> QED
    BY <1>0, <1>a, <2>1, <2>2
<1>6. ASSUME NEW t \in Threads, Leave(t) PROVE CounterCounts'
  <2>1. N' = N - 1
    BY <1>4, <1>6 DEF Leave, Calculating
  <2>2. counter' = counter - 1 /\ thrown' = thrown
    BY <1>6 DEF Leave
  <2> QED
    BY <1>0, <1>a, <2>1, <2>2
<1>7. ASSUME NEW t \in Threads,
             ContainsKey(t) \/ Get(t) \/ WrongAct(t) \/ Compute(t) \/ PutBegins(t) \/ PutEnds(t)
      PROVE  CounterCounts'
  <2>1. pc[t] \in Calculating /\ \E x \in Calculating : pc' = [pc EXCEPT ![t] = x]
    BY <1>7 DEF ContainsKey, Get, WrongAct, Compute, PutBegins, PutEnds, NotCached, Goes,
                Calculating
  <2>2. Calculators' = Calculators
    BY <1>0, <2>1 DEF Calculators
  <2> QED
    BY <1>2, <1>7, <2>2 DEF ContainsKey, Get, WrongAct, Compute, PutBegins, PutEnds, calcVars
<1>8. ASSUME NEW t \in Threads, LetterCount(t) PROVE CounterCounts'
  <2>1. pc[t] \notin Calculating /\ pc'[t] \notin Calculating
    BY <1>0, <1>8, LetterFrame, PlacesApart DEF Calculating
  <2>2. \A u \in Threads \ {t} : pc'[u] = pc[u]
    BY <1>0, <1>8, LetterFrame DEF Apart
  <2>3. Calculators' = Calculators
    BY <2>1, <2>2 DEF Calculators
  <2> QED
    BY <1>0, <1>2, <1>8, <2>3, LetterFrame DEF calcVars
<1> QED
  BY <1>1, <1>3, <1>5, <1>6, <1>7, <1>8 DEF Next, Calculation, vars, calcVars

\* A thread inserts only after it has seen no row.
LEMMA RowStep == ASSUME IInv, [Next]_vars PROVE RowInv'
<1> DEFINE N == Cardinality(Threads)
           K(x) == Cardinality(Savers(x))
<1>0. /\ IsFiniteSet(Threads) /\ N \in Nat /\ TypeOK
      /\ rows \in [Texts -> Nat]
      /\ pc \in [Threads -> Places]
      /\ \A x \in Texts : rows[x] + K(x) <= N
  BY ServiceAssumption, FS_CardinalityType DEF IInv, TypeOK, RowInv
<1>1. \A S \in SUBSET Threads : IsFiniteSet(S) /\ Cardinality(S) \in Nat /\ Cardinality(S) <= N
  BY <1>0, FS_Subset, FS_CardinalityType
<1>2. \A x : Savers(x) \in SUBSET Threads /\ Savers(x)' \in SUBSET Threads
  BY DEF Savers
<1>3. ASSUME \A x \in Texts : Savers(x)' = Savers(x), rows' = rows PROVE RowInv'
  BY <1>0, <1>3 DEF RowInv
<1>4. ASSUME UNCHANGED vars PROVE RowInv'
  <2>1. \A x \in Texts : Savers(x)' = Savers(x)
    BY <1>4 DEF vars, Savers
  <2> QED
    BY <1>3, <1>4, <2>1 DEF vars, letterVars
<1>5. ASSUME NEW t \in Threads, pc[t] # "save", pc'[t] # "save", Apart(t), rows' = rows
      PROVE  RowInv'
  <2>1. \A x \in Texts : Savers(x)' = Savers(x)
    BY <1>5 DEF Savers, Apart
  <2> QED
    BY <1>3, <1>5, <2>1
<1>6. ASSUME NEW t \in Threads, FindByString(t), rows[req[t].text] = 0,
             Goes(t, "find", "save")
      PROVE  RowInv'
  <2>1. rows' = rows /\ req' = req
    BY <1>6 DEF FindByString, letterVars
  <2>2. ASSUME NEW x \in Texts PROVE rows'[x] + K(x)' <= N
    <3>1. CASE x = req[t].text
      BY <1>0, <1>1, <1>2, <1>6, <2>1, <3>1
    <3>2. CASE x # req[t].text
      <4>1. Savers(x)' = Savers(x)
        BY <1>0, <1>6, <2>1, <3>2 DEF Goes, Savers
      <4> QED
        BY <1>0, <2>1, <4>1
    <3> QED
      BY <3>1, <3>2
  <2> QED
    BY <2>2 DEF RowInv
<1>7. ASSUME NEW t \in Threads, Save(t) PROVE RowInv'
  <2>1. /\ pc[t] = "save" /\ pc' = [pc EXCEPT ![t] = "complete"] /\ req' = req
        /\ rows' = [rows EXCEPT ![req[t].text] = @ + 1]
    BY <1>7 DEF Save, Goes
  <2>2. ASSUME NEW x \in Texts PROVE rows'[x] + K(x)' <= N
    <3>1. CASE x = req[t].text
      <4>1. t \in Savers(x) /\ Savers(x)' = Savers(x) \ {t}
        BY <1>0, <2>1, <3>1 DEF Savers
      <4>2. K(x)' = K(x) - 1 /\ K(x) \in Nat
        BY <1>1, <1>2, <4>1, FS_RemoveElement
      <4>3. rows'[x] = rows[x] + 1 /\ rows[x] \in Nat
        BY <1>0, <2>1, <3>1
      <4> QED
        BY <1>0, <4>2, <4>3
    <3>2. CASE x # req[t].text
      <4>1. Savers(x)' = Savers(x)
        BY <1>0, <2>1, <3>2 DEF Savers
      <4> QED
        BY <1>0, <2>1, <3>2, <4>1
    <3> QED
      BY <3>1, <3>2
  <2> QED
    BY <2>2 DEF RowInv
<1>8. ASSUME NEW t \in Threads, Calculation(t) PROVE RowInv'
  <2>1. pc[t] # "save" /\ pc'[t] # "save"
    BY <1>0, <1>8, CalculationFrame DEF Calculating
  <2> QED
    BY <1>0, <1>5, <1>8, <2>1, CalculationFrame DEF letterVars
<1>9. ASSUME NEW t \in Threads, LetterCount(t), ~ FindByString(t), ~ Save(t) PROVE RowInv'
  <2>1. pc[t] # "save" /\ pc'[t] # "save"
    <3>1. CASE CountCharacter(t)
      <4>1. PICK l \in Letter : Begins(t, l, IF l.single THEN "add" ELSE "idle")
        BY <3>1 DEF CountCharacter
      <4> QED
        BY <1>0, <4>1 DEF Begins, Goes
    <3>2. CASE Add(t)
      BY <1>0, <3>2 DEF Add, EnsureCapacity, Grow, ReadArray, ReadSize, WriteSize, Store,
         StoreThrows, Fails, Goes
    <3>3. CASE Update(t)
      BY <1>0, <3>3 DEF Update, Visit, VisitThrows, Compare, CompareThrows, BeginCount,
         EndCount, CountThrows, Assign, UpdateEnds, Fails, Goes, Assignment, After, Fields
    <3>4. CASE FindsMany(t) \/ CompleteTask(t)
      BY <1>0, <3>4 DEF FindsMany, CompleteTask, Fails
    <3> QED
      BY <1>9, <3>1, <3>2, <3>3, <3>4 DEF LetterCount
  <2>2. rows' = rows
    BY <1>9 DEF LetterCount, CountCharacter, Add, EnsureCapacity, Grow, ReadArray, ReadSize,
       WriteSize, Store, StoreThrows, Update, Visit, VisitThrows, Compare, CompareThrows,
       BeginCount, EndCount, CountThrows, Assign, UpdateEnds, FindsMany, CompleteTask,
       Fails, letterVars
  <2> QED
    BY <1>0, <1>5, <1>9, <2>1, <2>2, LetterFrame
<1>10. ASSUME NEW t \in Threads, FindByString(t), Goes(t, "find", "complete") PROVE RowInv'
  <2>1. pc[t] # "save" /\ pc'[t] # "save" /\ rows' = rows
    BY <1>0, <1>10 DEF FindByString, Goes, letterVars
  <2> QED
    BY <1>0, <1>5, <1>10, <2>1, LetterFrame DEF LetterCount
<1> QED
  BY <1>4, <1>6, <1>7, <1>8, <1>9, <1>10 DEF Next, FindByString

---------------------------------------------------------------------------
(***************************************************************************)
(* The statistics.                                                         *)
(***************************************************************************)
LEMMA FrequencyType ==
    ASSUME TypeOK, NEW x
    PROVE  Frequency(x) \in Nat
<1>1. DOMAIN elements = 1 .. Len(elements) /\ Len(elements) \in Nat
  BY DEF TypeOK
<1>2. IsFiniteSet(DOMAIN elements)
  BY <1>1, FS_Interval
<1>3. {i \in Listed : elements[i] = x} \in SUBSET DOMAIN elements
  BY DEF Listed
<1> QED
  BY <1>2, <1>3, FS_Subset, FS_CardinalityType DEF Frequency

\* What is covered is covered as long as list and fields are the same.
LEMMA CoverFrame ==
    ASSUME UNCHANGED <<list, field>>
    PROVE  /\ \A i : Covered(i)' <=> Covered(i)
           /\ \A x : Frequency(x)' = Frequency(x)
<1>1. UNCHANGED <<elements, size, field>>
  BY DEF list
<1>2. \A x : Frequency(x)' = Frequency(x)
  BY <1>1 DEF Frequency, Listed
<1>3. \A i : Covered(i)' <=> Covered(i)
  BY <1>1, <1>2 DEF Covered, MinCovers, MaxCovers, MostCovers
<1> QED
  BY <1>2, <1>3

\* An assignment of an undisturbed update keeps the part it has been through
\* covered: the field only gets better.
LEMMA AssignKeeps ==
    ASSUME IInv, NEW t \in Threads, Assign(t), "shared" \notin raced[t],
           NEW i \in 1 .. at[t], i # at[t]
    PROVE  Covered(i)'
<1> DEFINE x == string[t]
<1>0. /\ pc[t] \in {"min=", "max=", "popular="}
      /\ pc[t] = "min=" => field' = [field EXCEPT !["min"] = x]
      /\ pc[t] = "max=" => field' = [field EXCEPT !["max"] = x]
      /\ pc[t] = "popular=" => field' = [field EXCEPT !["popular"] = x]
      /\ UNCHANGED list
  <2>1. PICK f \in Fields :
           pc[t] = Assignment[f] /\ field' = [field EXCEPT ![f] = x]
    BY DEF Assign, Goes
  <2>2. UNCHANGED list
    BY DEF Assign
  <2>3. CASE f = "min"
    BY <2>1, <2>2, <2>3 DEF Assignment
  <2>4. CASE f = "max"
    BY <2>1, <2>2, <2>4 DEF Assignment
  <2>5. CASE f = "popular"
    BY <2>1, <2>2, <2>5 DEF Assignment
  <2> QED
    BY <2>3, <2>4, <2>5 DEF Fields
<1>1. /\ at[t] \in 1 .. Len(elements) /\ x = elements[at[t]] /\ Covered(i)
  BY <1>0 DEF IInv, RepairInv, RepairFor, Updating
<1>2. /\ pc[t] = "min=" => Beats(x, "min") /\ (x = None => field["min"] = None)
      /\ pc[t] = "max=" => Beats(x, "max") /\ (x = None => field["max"] = None)
      /\ pc[t] \in {"max=", "popular="} /\ x = None => field["min"] = None
      /\ pc[t] = "popular=" => \/ field["popular"] = None
                               \/ Frequency(x) > Frequency(field["popular"])
  BY <1>0 DEF IInv, RepairInv, RepairFor, Updating, Assignment
<1>3. /\ field \in [Fields -> Texts \cup {None}] /\ x \in Texts \cup {None}
      /\ elements[i] \in Texts \cup {None}
      /\ \A n \in Texts : n \in Nat /\ n # None
  BY <1>1, ServiceAssumption DEF IInv, TypeOK
<1>4. \A y : Frequency(y) \in Nat /\ Frequency(y)' = Frequency(y)
  BY <1>0, FrequencyType DEF IInv, Frequency, Listed, list
<1>5. elements' = elements
  BY <1>0 DEF list
<1>6. CASE elements[i] = None
  BY <1>5, <1>6 DEF Covered
<1>7. CASE elements[i] # None
  <2>1. MinCovers(elements[i]) /\ MaxCovers(elements[i]) /\ MostCovers(elements[i])
    BY <1>1, <1>7 DEF Covered
  <2>2. x # None
    <3>1. field["min"] # None /\ field["max"] # None
      BY <2>1 DEF MinCovers, MaxCovers
    <3> QED
      BY <1>0, <1>2, <3>1
  <2>3. elements[i] \in Nat /\ x \in Nat /\ x # None
    BY <1>3, <1>7, <2>2
  <2>4. /\ field["min"] \in Nat /\ field["max"] \in Nat
        /\ field["min"] <= elements[i] /\ elements[i] <= field["max"]
        /\ field["min"] # None /\ field["max"] # None /\ field["popular"] # None
        /\ Frequency(elements[i]) <= Frequency(field["popular"])
    BY <1>3, <2>1 DEF MinCovers, MaxCovers, MostCovers, Fields
  <2>5. CASE pc[t] = "min="
    <3>1. /\ field'["min"] = x /\ field'["max"] = field["max"]
          /\ field'["popular"] = field["popular"]
      BY <1>0, <1>3, <2>5 DEF Fields
    <3>2. x < field["min"]
      BY <1>2, <2>4, <2>5 DEF Beats
    <3>3. x <= elements[i]
      BY <2>3, <2>4, <3>2
    <3> QED
      BY <1>4, <1>5, <2>3, <2>4, <3>1, <3>3 DEF Covered, MinCovers, MaxCovers, MostCovers
  <2>6. CASE pc[t] = "max="
    <3>1. /\ field'["max"] = x /\ field'["min"] = field["min"]
          /\ field'["popular"] = field["popular"]
      BY <1>0, <1>3, <2>6 DEF Fields
    <3>2. x > field["max"]
      BY <1>2, <2>4, <2>6 DEF Beats
    <3>3. elements[i] <= x
      BY <2>3, <2>4, <3>2
    <3> QED
      BY <1>4, <1>5, <2>3, <2>4, <3>1, <3>3 DEF Covered, MinCovers, MaxCovers, MostCovers
  <2>7. CASE pc[t] = "popular="
    <3>1. /\ field'["popular"] = x /\ field'["min"] = field["min"]
          /\ field'["max"] = field["max"]
      BY <1>0, <1>3, <2>7 DEF Fields
    <3>2. Frequency(x) > Frequency(field["popular"])
      BY <1>2, <2>4, <2>7
    <3>3. Frequency(elements[i]) <= Frequency(x)
      BY <1>4, <2>4, <3>2
    <3> QED
      BY <1>4, <1>5, <2>3, <2>4, <3>1, <3>3 DEF Covered, MinCovers, MaxCovers, MostCovers
  <2> QED
    BY <1>0, <2>5, <2>6, <2>7
<1> QED
  BY <1>6, <1>7

\* What another thread does to list or fields, an update is told of.
LEMMA OthersTell ==
    ASSUME IInv, NEW t \in Threads, NEW u \in Threads \ {t}, LetterCount(u),
           pc[t] \in Updating \cup {"find"}, "shared" \notin raced'[t]
    PROVE  UNCHANGED <<list, field>>
<1>1. CASE Grow(u)
  BY <1>1 DEF Grow
<1>2. CASE WriteSize(u) \/ Assign(u)
  BY <1>2 DEF WriteSize, Assign, Touches, Races
<1>3. CASE Store(u)
  BY <1>3 DEF Store
<1> QED
  BY <1>1, <1>2, <1>3
     DEF LetterCount, CountCharacter, Add, EnsureCapacity, ReadArray, ReadSize, StoreThrows,
         Update, Visit, VisitThrows, Compare, CompareThrows, BeginCount, EndCount,
         CountThrows, UpdateEnds, FindByString, FindsMany, Save, CompleteTask, Fails,
         letterVars, list

\* The steps of the loop, up to its assignments.
LEMMA LoopSteps ==
    ASSUME IInv, NEW t \in Threads, Store(t) \/ Visit(t) \/ Compare(t) \/ BeginCount(t)
                                       \/ EndCount(t) \/ UpdateEnds(t)
    PROVE  RepairFor(t)'
<1>0. /\ RepairFor(t) /\ TypeOK /\ pc \in [Threads -> Places]
      /\ elements \in Seq(Texts \cup {None}) /\ size \in Nat
      /\ raced \in [Threads -> SUBSET {"cache", "array", "modCount", "count", "shared"}]
      /\ at \in [Threads -> Nat] /\ string \in [Threads -> Texts \cup {None}]
      /\ field \in [Fields -> Texts \cup {None}]
      /\ \A n \in Texts : n \in Nat /\ n # None
  BY ServiceAssumption DEF IInv, TypeOK, RepairInv
<1>1. CASE Store(t)
  <2>1. pc'[t] = "visit" /\ at'[t] = 0
    BY <1>0, <1>1 DEF Store, Goes
  <2>2. Len(elements') \in Nat
    BY ListTypeStep DEF ListType, Next, LetterCount, Add
  <2>3. elements' \in Seq(Texts \cup {None})
    BY <1>1, ListTypeStep DEF ListType, Next, LetterCount, Add
  <2> QED
    BY <2>1, <2>3 DEF RepairFor, Updating
<1>2. CASE Visit(t)
  <2>1. /\ pc[t] = "visit" /\ pc'[t] = "min" /\ UNCHANGED <<list, field, raced>>
        /\ at[t] < Len(elements) /\ at'[t] = at[t] + 1
        /\ string'[t] = elements[at[t] + 1]
    BY <1>0, <1>2 DEF Visit, Goes, letterVars
  <2>2. UNCHANGED elements
    BY <2>1 DEF list
  <2>3. at'[t] \in 1 .. Len(elements')
    BY <1>0, <2>1, <2>2
  <2>4. ASSUME "shared" \notin raced'[t], NEW i \in 1 .. at'[t], i # at'[t]
        PROVE  Covered(i)'
    <3>1. i \in 1 .. at[t]
      BY <1>0, <2>1, <2>4
    <3> QED
      BY <1>0, <2>1, <2>4, <3>1, CoverFrame DEF RepairFor
  <2> QED
    BY <2>1, <2>2, <2>3, <2>4 DEF RepairFor, Updating
<1>3. CASE Compare(t)
  <2>1. PICK f \in {"min", "max"} :
           /\ field[f] # None => string[t] # None
           /\ Goes(t, f, IF Beats(string[t], f) THEN Assignment[f] ELSE After[f])
    BY <1>3 DEF Compare
  <2>2. UNCHANGED <<list, field, raced, at, string, elements, size>>
    BY <1>3 DEF Compare, loop, letterVars, list
  <2>3. SUFFICES ASSUME "shared" \notin raced[t]
                 PROVE  RepairFor(t)'
    BY <2>2 DEF RepairFor
  <2>4. /\ at[t] \in 1 .. Len(elements) /\ string[t] = elements[at[t]]
        /\ \A i \in 1 .. at[t] : i # at[t] => Covered(i)
    BY <1>0, <2>1, <2>3 DEF RepairFor, Updating, Goes
  <2>5. CASE f = "min"
    <3>1. pc[t] = "min"
      BY <2>1, <2>5 DEF Goes
    <3>2. CASE Beats(string[t], "min")
      <4>1. pc'[t] = "min="
        BY <1>0, <2>1, <2>5, <3>2 DEF Goes, Assignment
      <4> QED
        BY <2>1, <2>2, <2>4, <2>5, <3>2, <4>1, CoverFrame DEF RepairFor, Updating, Assignment, Beats
    <3>3. CASE ~ Beats(string[t], "min")
      <4>1. pc'[t] = "max"
        BY <1>0, <2>1, <2>5, <3>3 DEF Goes, After
      <4>2. field["min"] # None /\ string[t] # None /\ ~ (string[t] < field["min"])
        BY <2>1, <2>5, <3>3 DEF Beats
      <4>3. MinCovers(string[t])
        BY <1>0, <4>2 DEF MinCovers, Fields
      <4> QED
        BY <2>1, <2>2, <2>4, <4>1, <4>2, <4>3, CoverFrame
           DEF RepairFor, Updating, MinCovers, MaxCovers
    <3> QED
      BY <3>2, <3>3
  <2>6. CASE f = "max"
    <3>1. pc[t] = "max"
      BY <2>1, <2>6 DEF Goes
    <3>2. IF string[t] = None THEN field["min"] = None ELSE MinCovers(string[t])
      BY <1>0, <2>3, <3>1 DEF RepairFor, Updating
    <3>3. CASE Beats(string[t], "max")
      <4>1. pc'[t] = "max="
        BY <1>0, <2>1, <2>6, <3>3 DEF Goes, Assignment
      <4> QED
        BY <2>1, <2>2, <2>4, <2>6, <3>2, <3>3, <4>1, CoverFrame
           DEF RepairFor, Updating, Assignment, Beats, MinCovers
    <3>4. CASE ~ Beats(string[t], "max")
      <4>1. pc'[t] = "popular"
        BY <1>0, <2>1, <2>6, <3>4 DEF Goes, After
      <4>2. field["max"] # None /\ string[t] # None /\ ~ (string[t] > field["max"])
        BY <2>1, <2>6, <3>4 DEF Beats
      <4>3. MaxCovers(string[t])
        BY <1>0, <4>2 DEF MaxCovers, Fields
      <4> QED
        BY <2>2, <2>4, <3>2, <4>1, <4>2, <4>3, CoverFrame
           DEF RepairFor, Updating, MinCovers, MaxCovers
    <3> QED
      BY <3>3, <3>4
  <2> QED
    BY <2>5, <2>6
<1>4. CASE BeginCount(t)
  <2>1. /\ pc[t] = "popular" /\ UNCHANGED <<list, field, at, string, elements, size>>
        /\ pc'[t] = IF field["popular"] = None THEN "popular=" ELSE "counting"
        /\ "shared" \in raced[t] => "shared" \in raced'[t]
    BY <1>0, <1>4 DEF BeginCount, Goes, loop, letterVars, list
  <2>2. CASE pc'[t] = "popular="
    BY <1>0, <2>1, <2>2, CoverFrame DEF RepairFor, Updating, MinCovers, MaxCovers
  <2>3. CASE pc'[t] = "counting"
    BY <1>0, <2>1, <2>3, CoverFrame DEF RepairFor, Updating, MinCovers, MaxCovers
  <2> QED
    BY <2>1, <2>2, <2>3
<1>5. CASE EndCount(t)
  <2>1. PICK better \in BOOLEAN :
           /\ \/ {"count", "shared"} \subseteq raced[t]
              \/ better = (Frequency(string[t]) > Frequency(field["popular"]))
           /\ Goes(t, "counting", IF better THEN "popular=" ELSE "visit")
    BY <1>5 DEF EndCount
  <2>2. UNCHANGED <<list, field, raced, at, string, elements, size>>
    BY <1>5 DEF EndCount, loop, letterVars, list
  <2>3. SUFFICES ASSUME "shared" \notin raced[t]
                 PROVE  RepairFor(t)'
    BY <2>2 DEF RepairFor
  <2>4. better = (Frequency(string[t]) > Frequency(field["popular"]))
    BY <2>1, <2>3
  <2>5. /\ at[t] \in 1 .. Len(elements) /\ string[t] = elements[at[t]]
        /\ \A i \in 1 .. at[t] : i # at[t] => Covered(i)
        /\ IF string[t] = None THEN field["min"] = None ELSE MinCovers(string[t])
        /\ string[t] # None => MaxCovers(string[t])
        /\ field["popular"] # None
    BY <1>0, <2>1, <2>3 DEF RepairFor, Updating, Goes
  <2>6. CASE better
    <3>1. pc'[t] = "popular=" /\ Frequency(string[t]) > Frequency(field["popular"])
      BY <1>0, <2>1, <2>4, <2>6 DEF Goes
    <3> QED
      BY <2>2, <2>5, <3>1, CoverFrame
         DEF RepairFor, Updating, MinCovers, MaxCovers, Frequency, Listed
  <2>7. CASE ~ better
    <3>1. pc'[t] = "visit" /\ ~ (Frequency(string[t]) > Frequency(field["popular"]))
      BY <1>0, <2>1, <2>4, <2>7 DEF Goes
    <3>2. MostCovers(string[t])
      BY <1>0, <2>5, <3>1, FrequencyType DEF MostCovers
    <3>3. Covered(at[t])
      BY <2>5, <3>2 DEF Covered
    <3>4. at[t] <= Len(elements)
      BY <1>0, <2>5
    <3> QED
      BY <2>2, <2>5, <3>1, <3>3, <3>4, CoverFrame DEF RepairFor, Updating
  <2> QED
    BY <2>6, <2>7
<1>6. CASE UpdateEnds(t)
  <2>1. /\ pc[t] = "visit" /\ pc'[t] = "find" /\ at[t] = size
        /\ UNCHANGED <<list, field, raced, size>>
    BY <1>0, <1>6 DEF UpdateEnds, Goes, letterVars, list
  <2> QED
    BY <1>0, <2>1, CoverFrame DEF RepairFor, Updating
<1> QED
  BY <1>1, <1>2, <1>3, <1>4, <1>5, <1>6

\* Its assignments: what is assigned is right for the element it has come to.
LEMMA AssignStep ==
    ASSUME IInv, NEW t \in Threads, Assign(t)
    PROVE  RepairFor(t)'
<1>0. /\ RepairFor(t) /\ TypeOK /\ pc \in [Threads -> Places]
      /\ elements \in Seq(Texts \cup {None})
      /\ raced \in [Threads -> SUBSET {"cache", "array", "modCount", "count", "shared"}]
      /\ at \in [Threads -> Nat] /\ string \in [Threads -> Texts \cup {None}]
      /\ field \in [Fields -> Texts \cup {None}]
      /\ \A n \in Texts : n \in Nat /\ n # None
  BY ServiceAssumption DEF IInv, TypeOK, RepairInv
<1>1. PICK f \in Fields :
         Goes(t, Assignment[f], After[f]) /\ field' = [field EXCEPT ![f] = string[t]]
  BY DEF Assign
<1>2. UNCHANGED <<list, elements, size, at, string>> /\ raced'[t] = raced[t]
  BY <1>0 DEF Assign, Touches, Races, loop, list
<1>3. SUFFICES ASSUME "shared" \notin raced[t]
               PROVE  RepairFor(t)'
  BY <1>2 DEF RepairFor
<1>4. pc[t] = Assignment[f] /\ pc'[t] = After[f]
  BY <1>0, <1>1 DEF Goes
<1>5. /\ at[t] \in 1 .. Len(elements) /\ string[t] = elements[at[t]]
  BY <1>0, <1>3, <1>4 DEF RepairFor, Updating, Assignment, Fields
<1>6. \A i \in 1 .. at[t] : i # at[t] => Covered(i)'
  BY <1>3, AssignKeeps
<1>7. \A y : Frequency(y) \in Nat /\ Frequency(y)' = Frequency(y)
  BY <1>0, <1>2, FrequencyType DEF Frequency, Listed
<1>8. CASE f = "min"
  <2>1. pc'[t] = "max" /\ field'["min"] = string[t]
    BY <1>0, <1>1, <1>4, <1>8 DEF After, Fields
  <2>2. string[t] # None => MinCovers(string[t])'
    BY <1>0, <1>2, <2>1 DEF MinCovers
  <2> QED
    BY <1>2, <1>5, <1>6, <2>1, <2>2 DEF RepairFor, Updating
<1>9. CASE f = "max"
  <2>1. /\ pc[t] = "max=" /\ pc'[t] = "popular"
        /\ field'["max"] = string[t] /\ field'["min"] = field["min"]
    BY <1>0, <1>1, <1>4, <1>9 DEF After, Assignment, Fields
  <2>2. string[t] # None => MaxCovers(string[t])'
    BY <1>0, <1>2, <2>1 DEF MaxCovers
  <2>3. IF string[t] = None THEN field["min"] = None ELSE MinCovers(string[t])
    BY <1>0, <1>3, <2>1 DEF RepairFor, Updating
  <2>4. IF string'[t] = None THEN field'["min"] = None ELSE MinCovers(string[t])'
    BY <1>2, <2>1, <2>3 DEF MinCovers
  <2> QED
    BY <1>2, <1>5, <1>6, <2>1, <2>2, <2>4 DEF RepairFor, Updating
<1>10. CASE f = "popular"
  <2>1. /\ pc[t] = "popular=" /\ pc'[t] = "visit" /\ field'["popular"] = string[t]
        /\ field'["min"] = field["min"] /\ field'["max"] = field["max"]
    BY <1>0, <1>1, <1>4, <1>10 DEF After, Assignment, Fields
  <2>2. string[t] # None => MinCovers(string[t]) /\ MaxCovers(string[t])
    BY <1>0, <1>3, <2>1 DEF RepairFor, Updating
  <2>3. string[t] # None => MinCovers(string[t])' /\ MaxCovers(string[t])'
    BY <1>2, <2>1, <2>2 DEF MinCovers, MaxCovers
  <2>4. string[t] # None => MostCovers(string[t])'
    BY <1>2, <1>7, <2>1 DEF MostCovers
  <2>5. Covered(at[t])'
    BY <1>2, <1>5, <2>3, <2>4 DEF Covered
  <2>6. at[t] <= Len(elements)
    BY <1>0, <1>5
  <2>7. \A i \in 1 .. at[t] : Covered(i)'
    BY <1>2, <1>6, <2>5
  <2> QED
    BY <1>2, <2>1, <2>6, <2>7 DEF RepairFor, Updating
<1> QED
  BY <1>8, <1>9, <1>10 DEF Fields

\* The loop of update carries the best text of the part it has been through.
LEMMA RepairStep == ASSUME IInv, [Next]_vars PROVE RepairInv'
<1> SUFFICES ASSUME NEW t \in Threads PROVE RepairFor(t)'
  BY DEF RepairInv
<1>0. RepairFor(t) /\ TypeOK
  BY DEF IInv, RepairInv
<1>1. ASSUME UNCHANGED <<list, field>>, pc'[t] = pc[t], at'[t] = at[t],
             string'[t] = string[t], raced[t] \subseteq raced'[t]
      PROVE  RepairFor(t)'
  BY <1>0, <1>1, CoverFrame
     DEF RepairFor, list, MinCovers, MaxCovers, Beats, Frequency, Listed
<1>2. ASSUME pc'[t] \notin Updating \cup {"find"} PROVE RepairFor(t)'
  BY <1>2 DEF RepairFor, Updating
<1>3. CASE UNCHANGED vars
  BY <1>1, <1>3 DEF vars, loop, letterVars
<1>4. ASSUME NEW u \in Threads, Calculation(u) PROVE RepairFor(t)'
  <2>1. CASE u = t
    <3>1. pc'[t] \notin Updating \cup {"find"}
      BY <1>0, <1>4, <2>1, CalculationFrame DEF Calculating, Updating
    <3> QED
      BY <1>2, <3>1
  <2>2. CASE u # t
    BY <1>0, <1>1, <1>4, <2>2, CalculationFrame DEF Apart, letterVars
  <2> QED
    BY <2>1, <2>2
<1>5. ASSUME NEW u \in Threads, LetterCount(u), u # t PROVE RepairFor(t)'
  <2>1. /\ pc'[t] = pc[t] /\ at'[t] = at[t] /\ string'[t] = string[t]
        /\ raced[t] \subseteq raced'[t]
    BY <1>0, <1>5, LetterFrame DEF Apart
  <2>2. CASE pc[t] \notin Updating \cup {"find"}
    BY <1>2, <2>1, <2>2
  <2>3. CASE "shared" \in raced'[t]
    BY <2>3 DEF RepairFor
  <2>4. CASE pc[t] \in Updating \cup {"find"} /\ "shared" \notin raced'[t]
    BY <1>1, <1>5, <2>1, <2>4, OthersTell
  <2> QED
    BY <2>2, <2>3, <2>4
<1>6. ASSUME LetterCount(t) PROVE RepairFor(t)'
  <2>1. CASE Store(t) \/ Visit(t) \/ Compare(t) \/ BeginCount(t) \/ EndCount(t) \/ UpdateEnds(t)
    BY <2>1, LoopSteps
  <2>2. CASE Assign(t)
    BY <2>2, AssignStep
  <2>3. CASE Fails(t)
    BY <1>0, <1>2, <2>3 DEF Fails, TypeOK, Updating
  <2>4. CASE CountCharacter(t)
    <3>1. PICK l \in Letter : Begins(t, l, IF l.single THEN "add" ELSE "idle")
      BY <2>4 DEF CountCharacter
    <3> QED
      BY <1>0, <1>2, <3>1 DEF Begins, Goes, TypeOK, Updating
  <2>5. CASE EnsureCapacity(t) \/ Grow(t) \/ ReadArray(t) \/ ReadSize(t) \/ WriteSize(t)
    BY <1>0, <1>2, <2>5 DEF EnsureCapacity, Grow, ReadArray, ReadSize, WriteSize, Goes,
                            TypeOK, Updating
  <2>6. CASE FindByString(t) \/ Save(t)
    BY <1>0, <1>2, <2>6 DEF FindByString, Save, Goes, TypeOK, Updating
  <2> QED
    BY <1>6, <2>1, <2>2, <2>3, <2>4, <2>5, <2>6
       DEF LetterCount, Add, Update, StoreThrows, VisitThrows, CompareThrows, CountThrows,
           FindsMany, CompleteTask
<1> QED
  BY <1>3, <1>4, <1>5, <1>6 DEF Next

---------------------------------------------------------------------------
\* The invariant holds in every reachable state.
THEOREM Invariance == Spec => []IInv
<1>1. IInv /\ [Next]_vars => IInv'
  BY KindStep, PlaceTypeStep, RacedTypeStep, LoopTypeStep, ListTypeStep, CalcTypeStep,
     CacheStep, ResultStep, MapStep, CounterStep, RowStep, RepairStep
     DEF IInv, TypeOK, PlaceType, RacedType, LoopType, ListType, CalcType
<1> QED
  BY InitIInv, <1>1, PTL DEF Spec

\* Whatever the request threads do, hash codes are ints and what is cached, shown
\* and counted is of its type.
THEOREM TypeCorrect == Spec => []TypeOK
  BY Invariance, PTL DEF IInv

\* The counter is off by exactly the requests that have ended in an exception.
THEOREM CounterKept == Spec => []CounterCounts
  BY Invariance, PTL DEF IInv

\* The unsynchronized HashMap never makes /calculate show a result that belongs to
\* no calculation with the hash code of the request.
THEOREM AnswersKept == Spec => []AnswersShareHash
<1>1. IInv => AnswersShareHash
  BY DEF IInv, ResultInv, Answered, RightFor, AnswersShareHash
<1> QED
  BY Invariance, <1>1, PTL

\* A cached answer is only lost or replaced by a put that another one has raced with.
THEOREM CacheKept == Spec => EntriesLast
<1> DEFINE Kept == \A e \in cache \ cache' :
                      \E t \in Threads : pc[t] = "putting" /\ "cache" \in raced[t]
<1>1. IInv /\ [Next]_vars => [Kept]_vars
  <2> SUFFICES ASSUME IInv, [Next]_vars PROVE Kept
    OBVIOUS
  <2>1. ASSUME UNCHANGED cache PROVE Kept
    BY <2>1
  <2>2. ASSUME NEW t \in Threads, PutEnds(t) PROVE Kept
    <3>1. pc[t] = "putting"
      BY <2>2 DEF PutEnds, Goes
    <3>2. CASE "cache" \in raced[t]
      BY <3>1, <3>2
    <3>3. CASE "cache" \notin raced[t]
      <4>1. Entries(t) = {}
        BY <3>1, <3>3 DEF IInv, MapInv
      <4> QED
        BY <2>2, <3>3, <4>1 DEF PutEnds
    <3> QED
      BY <3>2, <3>3
  <2>3. ASSUME NEW t \in Threads, LetterCount(t) PROVE Kept
    BY <2>1, <2>3, LetterFrame DEF IInv, calcVars
  <2> QED
    BY <2>1, <2>2, <2>3
       DEF Next, vars, calcVars, Calculation, Calculate, ParseFails, ContainsKey, Get,
           GetsNull, WrongAct, DividesByZero, Compute, PutBegins, Leave, Throw
<1> QED
  BY Invariance, <1>1, PTL DEF Spec, EntriesLast

\* An update that nobody disturbed, and that has got to its end, leaves minimum,
\* maximum and most popular text right, whatever races have gone before.
THEOREM StatisticsRepaired == Spec => []UpdateRepairs
<1>1. IInv => UpdateRepairs
  BY DEF IInv, RepairInv, RepairFor, Covered, MinCovers, MaxCovers, MostCovers,
         UpdateRepairs
<1> QED
  BY Invariance, <1>1, PTL

\* However many requests bring the same text at once, each thread inserts at most
\* one row for it.
THEOREM RowsKept == Spec => []RowsBounded
<1>1. IInv => RowsBounded
  <2>1. \A x : IsFiniteSet(Savers(x)) /\ Cardinality(Savers(x)) \in Nat
    BY ServiceAssumption, FS_Subset, FS_CardinalityType DEF Savers
  <2>2. Cardinality(Threads) \in Nat
    BY ServiceAssumption, FS_CardinalityType
  <2> QED
    BY <2>1, <2>2 DEF IInv, TypeOK, RowInv, RowsBounded
<1> QED
  BY Invariance, <1>1, PTL
=============================================================================
