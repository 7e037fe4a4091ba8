---------------------------- MODULE WebService ----------------------------
(***************************************************************************)
(* The web service of CPP/Lab8CPP.  One MainController serves all request  *)
(* threads: /calculate answers from a cache of earlier results, /character *)
(* keeps statistics of the texts and a table in a database.  Cache, list   *)
(* and statistics are plain fields; only the counter is synchronized.      *)
(***************************************************************************)
EXTENDS Integers, Sequences, FiniteSets

CONSTANTS
    Threads,        \* the request threads
    Numbers,        \* the doubles of /calculate
    Zeros,          \* those that == 0
    BadNumber,      \* a parameter that Double.parseDouble refuses
    Acts,           \* param3: any text
    DoubleHash,     \* Double.hashCode and ...
    ActHash,        \* ... String.hashCode, as functions
    Texts,          \* texts for /character, by number: compareTo is their order
    DefaultCapacity,        \* of an ArrayList
    None,           \* null
    MaxRequests     \* bound: requests in all

\* An int of Java is a pair of halves of 16 bits.
Half == 65536
Word == (0 .. Half - 1) \X (0 .. Half - 1)

ASSUME ServiceAssumption ==
    /\ IsFiniteSet(Threads)
    /\ Zeros \subseteq Numbers /\ BadNumber \notin Numbers
    /\ DoubleHash \in [Numbers -> Word] /\ ActHash \in [Acts -> Word]
    /\ Texts \subseteq Nat /\ None \notin Nat
    /\ DefaultCapacity \in Nat /\ MaxRequests \in Nat

VARIABLES
    pc,         \* where each thread is in its handler
    req,        \* its request, the last one when it is idle
    result,     \* its local result, by the calculation it is the result of
    page,       \* what the last request was answered with
    raced,      \* what other threads have changed in the meantime
    at,         \* its index in add, or the cursor of its iterator in update
    array,      \* the elementData that it is adding to
    string,     \* its element in Statistic.update
    counter,    \* Counter.number
    thrown,     \* /calculate requests that have ended in an exception
    cache,      \* the entries of hashMap, values by the calculations they are of
    elements, size,         \* the ArrayList Statistic.stat: elementData and size
    field,      \* the other fields of Statistic
    rows,       \* the table: how many rows there are with a text
    served      \* requests so far

calcVars == <<counter, thrown, cache>>
list == <<elements, size>>
letterVars == <<list, field, rows>>
loop == <<at, array, string>>
vars == <<pc, req, result, page, raced, loop, calcVars, letterVars, served>>

Sum == [first : Numbers \cup {BadNumber}, second : Numbers, act : Acts]
Letter == [text : Texts, single : BOOLEAN]
Fields == {"min", "max", "popular"}

Calculating == {"lookup", "get", "put", "putting", "wrote", "leave"}
Adding == {"add", "grow", "ref", "size", "size++", "store"}
Updating == {"visit", "min", "min=", "max", "max=", "popular", "counting", "popular="}
Places == Calculating \cup Adding \cup Updating \cup {"idle", "find", "save", "complete"}

---------------------------------------------------------------------------
\* Fault: the sum is not cut to 32 bits.
Times31Plus_NoMod(x, y) ==
    LET low == 31 * x[2] + y[2]
    IN  <<31 * x[1] + y[1] + low \div Half, low % Half>>

\* 31 * x + y, modulo 2^32.
Times31Plus(x, y) ==
    LET low == 31 * x[2] + y[2]
    IN  <<(31 * x[1] + y[1] + low \div Half) % Half, low % Half>>

\* Objects.hash(firstNumber, secondNumber, act)
HashCode(s) ==
    Times31Plus(
        Times31Plus(Times31Plus(<<0, 1>>, DoubleHash[s.first]), DoubleHash[s.second]),
        ActHash[s.act])

Operations == {"+", "-", "*", "/"}
DividesZero(s) == s.act = "/" /\ s.second \in Zeros
Calculable(s) == s.first # BadNumber /\ s.act \in Operations /\ ~DividesZero(s)

---------------------------------------------------------------------------
TypeOK ==
    /\ pc \in [Threads -> Places]
    /\ req \in [Threads -> Sum \cup Letter \cup {None}]
    /\ result \in [Threads -> Sum \cup {None}]
    /\ page \in [Threads -> {"none", "result", "error", "exception"}]
    /\ raced \in [Threads -> SUBSET {"cache", "array", "modCount", "count", "shared"}]
    /\ at \in [Threads -> Nat]
    /\ array \in [Threads -> Seq(Texts \cup {None})]
    /\ string \in [Threads -> Texts \cup {None}]
    /\ counter \in Int /\ thrown \in Nat
    /\ cache \subseteq [key : Word, value : Sum]
    /\ elements \in Seq(Texts \cup {None}) /\ size \in Nat
    /\ field \in [Fields -> Texts \cup {None}]
    /\ rows \in [Texts -> Nat]
    /\ served \in 0 .. MaxRequests

Init ==
    /\ pc = [t \in Threads |-> "idle"] /\ req = [t \in Threads |-> None]
    /\ result = [t \in Threads |-> None] /\ page = [t \in Threads |-> "none"]
    /\ raced = [t \in Threads |-> {}]
    /\ at = [t \in Threads |-> 0] /\ array = [t \in Threads |-> <<>>]
    /\ string = [t \in Threads |-> None]
    /\ counter = 0 /\ thrown = 0 /\ cache = {}
    /\ elements = <<>> /\ size = 0 /\ field = [f \in Fields |-> None]
    /\ rows = [x \in Texts |-> 0]
    /\ served = 0

Goes(t, from, to) == pc[t] = from /\ pc' = [pc EXCEPT ![t] = to]
Answers(t, p) == page' = [page EXCEPT ![t] = p]

\* A request comes in and is given to an idle thread.
Begins(t, request, to) ==
    /\ served < MaxRequests /\ served' = served + 1
    /\ Goes(t, "idle", to)
    /\ req' = [req EXCEPT ![t] = request]

\* The other threads at one of these places have raced with what t does now.
Races(t, places, what) ==
    raced' = [u \in Threads |-> IF u # t /\ pc[u] \in places
                                THEN raced[u] \cup what ELSE raced[u]]

---------------------------------------------------------------------------
(***************************************************************************)
(* calculate.  The HashMap is not synchronized, but increment and          *)
(* decrement of the counter are: what a thread has put before its          *)
(* decrement is seen by those who increment later.  A thread in whose time *)
(* another one has put something may miss any entry.  Of several that put  *)
(* at the same time a resize may lose any entry, and a value that one of   *)
(* them replaces may be read or kept by the others.                        *)
(***************************************************************************)
Throw(t) ==
    /\ pc' = [pc EXCEPT ![t] = "idle"]
    /\ Answers(t, "exception")
    /\ thrown' = thrown + 1
    /\ raced' = [raced EXCEPT ![t] = {}]
    /\ UNCHANGED <<req, result, counter, cache, loop, letterVars, served>>

\* counter.increment()
Calculate(t) ==
    /\ \E s \in Sum : Begins(t, s, "lookup")
    /\ Answers(t, "none")
    /\ result' = [result EXCEPT ![t] = None]
    /\ counter' = counter + 1
    /\ raced' = [raced EXCEPT ![t] =
                    IF \E u \in Threads : pc[u] \in {"putting", "wrote"}
                    THEN {"cache"} ELSE {}]
    /\ UNCHANGED <<thrown, cache, loop, letterVars>>

Entries(t) == {e \in cache : e.key = HashCode(req[t])}
Sees(t) == Entries(t) # {}
Misses(t) == Entries(t) = {} \/ "cache" \in raced[t]

\* Double.parseDouble
ParseFails(t) ==
    /\ pc[t] = "lookup" /\ req[t].first = BadNumber
    /\ Throw(t)

\* hashMap.containsKey, asked before the operation is looked at.
ContainsKey(t) ==
    /\ Goes(t, "lookup", "get")
    /\ req[t].first # BadNumber /\ Sees(t)
    /\ UNCHANGED <<req, result, page, raced, calcVars, loop, letterVars, served>>

\* hashMap.get, and the unboxing of what it returns.
Get(t) ==
    /\ Goes(t, "get", "leave")
    /\ \E e \in Entries(t) : result' = [result EXCEPT ![t] = e.value]
    /\ Answers(t, "result")
    /\ UNCHANGED <<req, raced, calcVars, loop, letterVars, served>>

GetsNull(t) ==
    /\ pc[t] = "get" /\ Misses(t)
    /\ Throw(t)

\* Fault: the map is not asked.
NotCached_Unasked(t) == pc[t] = "lookup" /\ req[t].first # BadNumber

NotCached(t) == pc[t] = "lookup" /\ req[t].first # BadNumber /\ Misses(t)

\* Fault: the counter is not decremented with the error page.
WrongAct_NotCounted(t) ==
    /\ NotCached(t) /\ req[t].act \notin Operations
    /\ pc' = [pc EXCEPT ![t] = "idle"]
    /\ Answers(t, "error")
    /\ UNCHANGED <<req, result, raced, calcVars, loop, letterVars, served>>

\* "We can't calculate it!"
WrongAct(t) ==
    /\ NotCached(t) /\ req[t].act \notin Operations
    /\ pc' = [pc EXCEPT ![t] = "leave"]
    /\ Answers(t, "error")
    /\ UNCHANGED <<req, result, raced, calcVars, loop, letterVars, served>>

DividesByZero(t) ==
    /\ NotCached(t) /\ DividesZero(req[t])
    /\ Throw(t)

\* Fault: the case of "+" has no break.
Compute_FallsThrough(t) ==
    /\ NotCached(t) /\ Calculable(req[t])
    /\ pc' = [pc EXCEPT ![t] = "put"]
    /\ result' = [result EXCEPT ![t] =
                     IF req[t].act = "+" THEN [req[t] EXCEPT !.act = "/"] ELSE req[t]]
    /\ UNCHANGED <<req, page, raced, calcVars, loop, letterVars, served>>

Compute(t) ==
    /\ NotCached(t) /\ Calculable(req[t])
    /\ pc' = [pc EXCEPT ![t] = "put"]
    /\ result' = [result EXCEPT ![t] = req[t]]
    /\ UNCHANGED <<req, page, raced, calcVars, loop, letterVars, served>>

PutBegins(t) ==
    /\ Goes(t, "put", "putting")
    /\ Races(t, {"lookup", "get", "put", "putting"}, {"cache"})
    /\ UNCHANGED <<req, result, page, calcVars, loop, letterVars, served>>

\* hashMap.put
PutEnds(t) ==
    LET own == {[key |-> HashCode(req[t]), value |-> result[t]]}
    IN
    /\ Goes(t, "putting", "wrote")
    /\ IF "cache" \in raced[t] THEN cache' \in SUBSET (cache \cup own)
                               ELSE cache' = (cache \ Entries(t)) \cup own
    /\ Answers(t, "result")
    /\ UNCHANGED <<req, result, raced, counter, thrown, loop, letterVars, served>>

\* counter.decrement(), and the page.
Leave(t) ==
    /\ pc[t] \in {"wrote", "leave"}
    /\ pc' = [pc EXCEPT ![t] = "idle"]
    /\ counter' = counter - 1
    /\ raced' = [raced EXCEPT ![t] = {}]
    /\ UNCHANGED <<req, result, page, thrown, cache, loop, letterVars, served>>

---------------------------------------------------------------------------
(***************************************************************************)
(* countCharacter.                                                         *)
(***************************************************************************)

\* The locals of add() and update() are gone with them.
LoopEnds(t) ==
    /\ at' = [at EXCEPT ![t] = 0]
    /\ array' = [array EXCEPT ![t] = <<>>]
    /\ string' = [string EXCEPT ![t] = None]

Fails(t) ==
    /\ pc' = [pc EXCEPT ![t] = "idle"]
    /\ Answers(t, "exception")
    /\ raced' = [raced EXCEPT ![t] = {}]
    /\ LoopEnds(t)
    /\ UNCHANGED <<req, result, calcVars, letterVars, served>>

CountCharacter(t) ==
    /\ \E l \in Letter :
        /\ Begins(t, l, IF l.single THEN "add" ELSE "idle")
        /\ Answers(t, IF l.single THEN "none" ELSE "error")
    /\ raced' = [raced EXCEPT ![t] = {}]
    /\ UNCHANGED <<result, calcVars, loop, letterVars>>

(***************************************************************************)
(* getStat().add(text), by the reads and writes of an ArrayList:           *)
(*     modCount++; if (size + 1 > elementData.length)                      *)
(*         elementData = Arrays.copyOf(elementData, ...);                  *)
(*     elementData[size++] = text;                                         *)
(***************************************************************************)
LargestOf(s) == CHOOSE x \in s : \A y \in s : y <= x

NewCapacity ==
    LargestOf({size + 1, Len(elements) + Len(elements) \div 2,
               IF Len(elements) = 0 THEN DefaultCapacity ELSE 0})

\* What another thread changes in the list, the iterators of Statistic.update see.
Touches(t) == Races(t, Updating \cup {"find"}, {"count", "shared"})

\* The list is large enough, or is copied.
EnsureCapacity(t) ==
    /\ \/ Goes(t, "add", "ref") /\ size < Len(elements) /\ array' = array
       \/ /\ Goes(t, "add", "grow") /\ size >= Len(elements)
          /\ array' = [array EXCEPT ![t] =
                 [i \in 1 .. NewCapacity |->
                     IF i <= Len(elements) THEN elements[i] ELSE None]]
    /\ Races(t, Updating, {"modCount", "count"})
    /\ UNCHANGED <<req, result, page, at, string, calcVars, letterVars, served>>

\* The copy takes the place of elementData; what others store into the old one
\* from now on, or have stored since it was copied, is lost.
Grow(t) ==
    /\ Goes(t, "grow", "ref")
    /\ elements' = array[t]
    /\ raced' = [u \in Threads |->
                    IF u = t THEN raced[u]
                    ELSE IF pc[u] \in Updating \cup {"find"}
                    THEN raced[u] \cup {"count", "shared"}
                    ELSE IF pc[u] \in {"size", "size++", "store"}
                    THEN raced[u] \cup {"array"} ELSE raced[u]]
    /\ UNCHANGED <<req, result, page, loop, calcVars, size, field, rows, served>>

ReadArray(t) ==
    /\ Goes(t, "ref", "size")
    /\ array' = [array EXCEPT ![t] = elements]
    /\ UNCHANGED <<req, result, page, raced, at, string, calcVars, letterVars, served>>

ReadSize(t) ==
    /\ Goes(t, "size", "size++")
    /\ at' = [at EXCEPT ![t] = size]
    /\ UNCHANGED <<req, result, page, raced, array, string, calcVars, letterVars, served>>

WriteSize(t) ==
    /\ Goes(t, "size++", "store")
    /\ size' = at[t] + 1
    /\ Touches(t)
    /\ UNCHANGED <<req, result, page, loop, calcVars, elements, field, rows, served>>

\* The element is there, unless the array is no longer that of the list, and
\* the iterator of update() is made.
Store(t) ==
    /\ Goes(t, "store", "visit") /\ at[t] < Len(array[t])
    /\ elements' = IF "array" \in raced[t] THEN elements
                   ELSE [elements EXCEPT ![at[t] + 1] = req[t].text]
    /\ at' = [at EXCEPT ![t] = 0] /\ array' = [array EXCEPT ![t] = <<>>]
    /\ raced' = [u \in Threads |->
                    IF u = t THEN {}
                    ELSE IF pc[u] \in Updating \cup {"find"}
                    THEN raced[u] \cup {"count", "shared"} ELSE raced[u]]
    /\ UNCHANGED <<req, result, page, string, calcVars, size, field, rows, served>>

\* ArrayIndexOutOfBoundsException; the size has been raised.
StoreThrows(t) ==
    /\ pc[t] = "store" /\ at[t] >= Len(array[t])
    /\ Fails(t)

(***************************************************************************)
(* Statistic.update.  modCount is not volatile: that it has changed need   *)
(* not be noticed.                                                         *)
(***************************************************************************)
Visit(t) ==
    /\ Goes(t, "visit", "min")
    /\ at[t] < size /\ at[t] < Len(elements)
    /\ string' = [string EXCEPT ![t] = elements[at[t] + 1]]
    /\ at' = [at EXCEPT ![t] = @ + 1]
    /\ UNCHANGED <<req, result, page, raced, array, calcVars, letterVars, served>>

\* ConcurrentModificationException, or NoSuchElementException when the size has
\* become smaller than the cursor.
VisitThrows(t) ==
    /\ pc[t] = "visit" /\ at[t] # size
    /\ "modCount" \in raced[t] \/ at[t] > size \/ at[t] >= Len(elements)
    /\ Fails(t)

Assignment == [min |-> "min=", max |-> "max=", popular |-> "popular="]
After == [min |-> "max", max |-> "popular", popular |-> "visit"]

Beats(x, f) == field[f] = None \/ (IF f = "min" THEN x < field[f] ELSE x > field[f])

\* field == null || string.compareTo(field) < 0, or > 0
Compare(t) ==
    \E f \in {"min", "max"} :
        /\ field[f] # None => string[t] # None
        /\ Goes(t, f, IF Beats(string[t], f) THEN Assignment[f] ELSE After[f])
        /\ UNCHANGED <<req, result, page, raced, loop, calcVars, letterVars, served>>

\* NullPointerException: of a null in the list, or when the field is set to
\* such a null between its two reads.
CompareThrows(t) ==
    \E f \in {"min", "max"} :
        /\ pc[t] = f /\ field[f] # None
        /\ \/ string[t] = None
           \/ \E u \in Threads : pc[u] = Assignment[f] /\ string[u] = None
        /\ Fails(t)

Listed == {i \in DOMAIN elements : i <= size}
Frequency(x) == Cardinality({i \in Listed : elements[i] = x})

\* popular == null, or else two calls of Collections.frequency begin.
BeginCount(t) ==
    /\ Goes(t, "popular", IF field["popular"] = None THEN "popular=" ELSE "counting")
    /\ raced' = [raced EXCEPT ![t] = @ \ {"count"}]
    /\ UNCHANGED <<req, result, page, loop, calcVars, letterVars, served>>

\* What they return is not told when something is changed meanwhile.
EndCount(t) ==
    /\ \E better \in BOOLEAN :
        /\ \/ {"count", "shared"} \subseteq raced[t]
           \/ better = (Frequency(string[t]) > Frequency(field["popular"]))
        /\ Goes(t, "counting", IF better THEN "popular=" ELSE "visit")
    /\ UNCHANGED <<req, result, page, raced, loop, calcVars, letterVars, served>>

\* They make iterators of their own: ConcurrentModificationException.
CountThrows(t) ==
    /\ pc[t] = "counting" /\ {"modCount", "count"} \subseteq raced[t]
    /\ Fails(t)

\* Fault: the assignments of the minimum and the maximum are swapped.
Assign_Swapped(t) ==
    LET Swapped == [min |-> "max", max |-> "min", popular |-> "popular"]
    IN
    \E f \in Fields :
        /\ Goes(t, Assignment[f], After[f])
        /\ field' = [field EXCEPT ![Swapped[f]] = string[t]]
        /\ Touches(t)
        /\ UNCHANGED <<req, result, page, loop, calcVars, list, rows, served>>

\* The assignment, to a field that others may have changed since.
Assign(t) ==
    \E f \in Fields :
        /\ Goes(t, Assignment[f], After[f])
        /\ field' = [field EXCEPT ![f] = string[t]]
        /\ Touches(t)
        /\ UNCHANGED <<req, result, page, loop, calcVars, list, rows, served>>

UpdateEnds(t) ==
    /\ Goes(t, "visit", "find")
    /\ at[t] = size
    /\ LoopEnds(t)
    /\ UNCHANGED <<req, result, page, raced, calcVars, letterVars, served>>

\* Fault: the row is saved without looking for one.
FindByString_Not(t) ==
    /\ Goes(t, "find", "save")
    /\ UNCHANGED <<req, result, page, raced, calcVars, loop, letterVars, served>>

\* createRequest: a row that is found is saved as it is.
FindByString(t) ==
    /\ pc[t] = "find"
    /\ \/ rows[req[t].text] = 0 /\ Goes(t, "find", "save")
       \/ rows[req[t].text] = 1 /\ Goes(t, "find", "complete")
    /\ UNCHANGED <<req, result, page, raced, calcVars, loop, letterVars, served>>

\* findByString wants at most one row (IncorrectResultSizeDataAccessException).
FindsMany(t) ==
    /\ pc[t] \in {"find", "complete"} /\ rows[req[t].text] > 1
    /\ Fails(t)

Save(t) ==
    /\ Goes(t, "save", "complete")
    /\ rows' = [rows EXCEPT ![req[t].text] = @ + 1]
    /\ UNCHANGED <<req, result, page, raced, calcVars, loop, list, field, served>>

\* completeTask: with its row found, list.add ends in a NullPointerException,
\* since nothing ever makes a list.
CompleteTask(t) ==
    /\ pc[t] = "complete" /\ rows[req[t].text] = 1
    /\ Fails(t)

---------------------------------------------------------------------------
Calculation(t) ==
    \/ Calculate(t) \/ ParseFails(t) \/ ContainsKey(t) \/ Get(t) \/ GetsNull(t)
    \/ WrongAct(t) \/ DividesByZero(t) \/ Compute(t)
    \/ PutBegins(t) \/ PutEnds(t) \/ Leave(t)

Add(t) ==
    \/ EnsureCapacity(t) \/ Grow(t) \/ ReadArray(t) \/ ReadSize(t) \/ WriteSize(t)
    \/ Store(t) \/ StoreThrows(t)

Update(t) ==
    \/ Visit(t) \/ VisitThrows(t) \/ Compare(t) \/ CompareThrows(t)
    \/ BeginCount(t) \/ EndCount(t) \/ CountThrows(t) \/ Assign(t) \/ UpdateEnds(t)

LetterCount(t) ==
    \/ CountCharacter(t) \/ Add(t) \/ Update(t)
    \/ FindByString(t) \/ FindsMany(t) \/ Save(t) \/ CompleteTask(t)

Next == \E t \in Threads : Calculation(t) \/ LetterCount(t)

Spec == Init /\ [][Next]_vars

---------------------------------------------------------------------------
Answered(t) == pc[t] = "idle" /\ page[t] = "result"

\* Whatever the threads do to the HashMap, the result on the page is that of a
\* request with the same hash code which can be calculated, or no result is
\* shown.  It need not be the result of the request itself: 2 + 2 may be 0, and a
\* text that is no operation but has the hash code of one is answered.
AnswersShareHash ==
    \A t \in Threads : Answered(t) =>
        /\ result[t] \in Sum /\ Calculable(result[t])
        /\ HashCode(result[t]) = HashCode(req[t])

\* An answer that has been cached stays as it is, for all who ask with its hash
\* code: the check and the put of a thread can only undo it when another thread
\* has put something in between.
EntriesLast ==
    [][\A e \in cache \ cache' :
          \E t \in Threads : pc[t] = "putting" /\ "cache" \in raced[t]]_vars

\* The counter counts the requests that are being calculated, and for ever
\* those that ended in an exception.
CounterCounts ==
    counter = Cardinality({t \in Threads : pc[t] \in Calculating}) + thrown

\* An update that no other thread has disturbed, and that gets to its end, leaves
\* the statistics of the list right, whatever races have left in them.  It need
\* not get there: a store into an array that has been replaced leaves a null in
\* the list, and every later update throws.
UpdateRepairs ==
    \A t \in Threads :
        pc[t] = "find" /\ "shared" \notin raced[t] =>
            \A i \in 1 .. size : elements[i] # None =>
                /\ field["min"] # None /\ field["min"] <= elements[i]
                /\ field["max"] # None /\ elements[i] <= field["max"]
                /\ field["popular"] # None
                /\ Frequency(elements[i]) <= Frequency(field["popular"])

\* Two requests with the same new text may both insert it, after which every
\* request with that text fails; but there are never more rows than threads
\* that can have looked before the first one was there.
RowsBounded == \A x \in Texts : rows[x] <= Cardinality(Threads)
=============================================================================
