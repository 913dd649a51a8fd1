--------------------------- MODULE EventLogProofs ---------------------------
(***************************************************************************)
(* What the operators of EventLog return, for every capacity.              *)
(***************************************************************************)
EXTENDS EventLog, FiniteSetTheorems, WellFoundedInduction, TLAPS

(* The order of the natural numbers as a set of pairs, the form in which   *)
(* the well-foundedness theorems of the library can be applied.            *)
LessNat == {p \in Nat \X Nat : p[1] < p[2]}

LEMMA LessNatWellFounded == IsWellFoundedOn(LessNat, Nat)
<1>1. OpToRel(<, Nat) = LessNat
  BY DEF OpToRel, LessNat
<1>. QED  BY <1>1, NatLessThanWellFounded

(* The oldest and the newest frame of a store are frames of the store.     *)
LEMMA MinIsMember ==
  ASSUME NEW S \in SUBSET Nat, S # {}
  PROVE  Min(S) \in S /\ \A y \in S : Min(S) <= y
<1>1. PICK x \in S : \A y \in S : ~(<<y, x>> \in LessNat)
  BY LessNatWellFounded, WFMin, Zenon
<1>2. ASSUME NEW y \in S
      PROVE  x <= y
  <2>1. ~(<<y, x>> \in LessNat)
    BY <1>1
  <2>2. y \in Nat /\ x \in Nat /\ <<y, x>> \in Nat \X Nat
    OBVIOUS
  <2>3. ~(y < x)
    BY <2>1, <2>2 DEF LessNat
  <2>. QED  BY <2>2, <2>3
<1>. QED  BY <1>2 DEF Min

LEMMA MaxIsMember ==
  ASSUME NEW S \in SUBSET Nat, S # {}, NEW n \in Nat, \A y \in S : y <= n
  PROVE  Max(S) \in S /\ \A y \in S : Max(S) >= y
<1>. DEFINE T == {n - y : y \in S}
<1>1. T \in SUBSET Nat /\ T # {}
  <2>1. \A y \in S : n - y \in Nat
    OBVIOUS
  <2>2. PICK z \in S : TRUE
    OBVIOUS
  <2>3. n - z \in T
    BY Zenon
  <2>. QED  BY <2>1, <2>3, Zenon
<1>2. PICK d \in T : \A t \in T : d <= t
  BY <1>1, MinIsMember
<1>3. PICK x \in S : d = n - x
  BY <1>2
<1>4. \A y \in S : x >= y
  <2> TAKE y \in S
  <2>1. n - y \in T
    OBVIOUS
  <2>2. n - x <= n - y
    BY <2>1, <1>2, <1>3
  <2>. QED  BY <2>2
<1>. QED  BY <1>4 DEF Max

(* RingBuffer.append and extend keep only frames they were given.          *)
LEMMA NewestSubset ==
  ASSUME NEW S, NEW n
  PROVE  Newest(S, n) \subseteq S
BY DEF Newest

LEMMA LogTailSubset ==
  ASSUME NEW f, NEW sizeOf, NEW n
  PROVE  LogTail(f, sizeOf, n) \subseteq f.lines
BY NewestSubset DEF LogTail, TailWindow

(* A file of frames of I stays one, whatever happens to it.                *)
LEMMA FileOfMore ==
  ASSUME NEW I, NEW J, I \subseteq J, NEW f, IsFile(f, I)
  PROVE  IsFile(f, J)
BY DEF IsFile

LEMMA EmptyFileType == ASSUME NEW I PROVE IsFile(EmptyFile, I)
<1>. DEFINE none == [i \in {} |-> 0]
<1>1. DOMAIN none = {} /\ none \in [{} -> Nat]
  OBVIOUS
<1>. HIDE DEF none
<1>2. EmptyFile = [lines |-> {}, bad |-> none, torn |-> 0, unflushed |-> {}]
  BY DEF EmptyFile, none
<1>. QED  BY <1>1, <1>2 DEF IsFile

LEMMA FlushedType ==
  ASSUME NEW I \in SUBSET Nat, NEW f, IsFile(f, I), NEW ids \in SUBSET I, ids # {}
  PROVE  IsFile(Flushed(f, ids), I)
<1>. DEFINE first == Min(ids)
            glued == [i \in DOMAIN f.bad \cup {first} |->
                        IF i = first THEN f.torn ELSE f.bad[i]]
            bad == IF f.torn = 0 THEN f.bad ELSE glued
<1>1. first \in ids
  BY MinIsMember
<1>2. f.lines \cup ids \subseteq I
  BY DEF IsFile
<1>. HIDE DEF first
<1>3. DOMAIN glued \subseteq f.lines \cup ids /\ glued \in [DOMAIN glued -> Nat]
  BY <1>1 DEF IsFile
<1>. HIDE DEF glued
<1>4. DOMAIN bad \subseteq f.lines \cup ids /\ bad \in [DOMAIN bad -> Nat]
  BY <1>3 DEF IsFile
<1>. HIDE DEF bad
<1>5. Flushed(f, ids) = [lines |-> f.lines \cup ids, bad |-> bad, torn |-> 0, unflushed |-> {}]
  BY DEF Flushed, bad, glued, first
<1>. QED  BY <1>2, <1>4, <1>5 DEF IsFile

LEMMA LogWriteType ==
  ASSUME NEW I \in SUBSET Nat, NEW f, IsFile(f, I), NEW id \in I, NEW units \in Nat
  PROVE  /\ IsFile(LogAppend(f, id), I)
         /\ IsFile(LogAppendFails(f, id), I)
         /\ IsFile(LogCrash(f, units), I)
<1>1. f.unflushed \cup {id} \in SUBSET I /\ f.unflushed \cup {id} # {}
  BY DEF IsFile
<1>2. IsFile(LogAppend(f, id), I)
  BY <1>1, FlushedType DEF LogAppend
<1>3. LogAppendFails(f, id) =
        [lines |-> f.lines, bad |-> f.bad, torn |-> f.torn, unflushed |-> f.unflushed \cup {id}]
  BY DEF LogAppendFails, IsFile
<1>4. LogCrash(f, units) =
        [lines |-> f.lines, bad |-> f.bad, torn |-> f.torn + units, unflushed |-> {}]
  BY DEF LogCrash, IsFile
<1>5. IsFile(LogAppendFails(f, id), I)
  BY <1>1, <1>3 DEF IsFile
<1>6. IsFile(LogCrash(f, units), I)
  BY <1>4 DEF IsFile
<1>. QED  BY <1>2, <1>5, <1>6

(* What happens to a file: the lines `ids` reach it, or none does.  They   *)
(* leave the fragment it ended in where it was, glued to the first of them *)
(* or at the end.                                                          *)
Written(old, new, ids) ==
  /\ new.lines = old.lines \cup ids
  /\ \/ ids = {} /\ new.bad = old.bad /\ old.torn <= new.torn
     \/ ids # {} /\ old.torn = 0 /\ new.bad = old.bad
     \/ /\ ids # {} /\ old.torn # 0
        /\ new.bad = [i \in DOMAIN old.bad \cup {Min(ids)} |->
                        IF i = Min(ids) THEN old.torn ELSE old.bad[i]]

LEMMA FlushedWrites ==
  ASSUME NEW f, NEW ids, ids # {}
  PROVE  Written(f, Flushed(f, ids), ids)
<1>. DEFINE glued == [i \in DOMAIN f.bad \cup {Min(ids)} |->
                        IF i = Min(ids) THEN f.torn ELSE f.bad[i]]
<1>1. /\ Flushed(f, ids).lines = f.lines \cup ids
      /\ Flushed(f, ids).bad = IF f.torn = 0 THEN f.bad ELSE glued
  BY DEF Flushed
<1>. HIDE DEF glued
<1>2. CASE f.torn = 0
  BY <1>1, <1>2 DEF Written
<1>3. CASE f.torn # 0
  BY <1>1, <1>3 DEF Written, glued
<1>. QED  BY <1>2, <1>3

LEMMA StepsWrite ==
  ASSUME NEW I, NEW f, IsFile(f, I), NEW id, NEW units \in Nat
  PROVE  /\ Written(f, LogAppend(f, id), f.unflushed \cup {id})
         /\ Written(f, LogCrash(LogAppend(f, id), units), f.unflushed \cup {id})
         /\ Written(f, LogAppendFails(f, id), {})
         /\ Written(f, LogCrash(f, units), {})
<1>1. f.torn \in Nat
  BY DEF IsFile
<1>2. Written(f, LogAppend(f, id), f.unflushed \cup {id})
  BY FlushedWrites DEF LogAppend
<1>3. /\ LogCrash(LogAppend(f, id), units).lines = LogAppend(f, id).lines
      /\ LogCrash(LogAppend(f, id), units).bad = LogAppend(f, id).bad
  BY DEF LogCrash
<1>4. f.unflushed \cup {id} # {}
  OBVIOUS
<1>5. Written(f, LogCrash(LogAppend(f, id), units), f.unflushed \cup {id})
  BY <1>2, <1>3, <1>4 DEF Written
<1>6. /\ LogAppendFails(f, id).lines = f.lines /\ LogAppendFails(f, id).bad = f.bad
      /\ LogAppendFails(f, id).torn = f.torn
  BY DEF LogAppendFails, IsFile
<1>7. Written(f, LogAppendFails(f, id), {})
  BY <1>1, <1>6 DEF Written
<1>8. /\ LogCrash(f, units).lines = f.lines /\ LogCrash(f, units).bad = f.bad
      /\ LogCrash(f, units).torn = f.torn + units
  BY DEF LogCrash
<1>9. Written(f, LogCrash(f, units), {})
  BY <1>1, <1>8 DEF Written
<1>. QED  BY <1>2, <1>5, <1>7, <1>9

(* If every line still parses every line parsed, and the fragment at the   *)
(* end has not shrunk.                                                     *)
LEMMA WrittenIntact ==
  ASSUME NEW I, NEW old, IsFile(old, I), NEW new, IsFile(new, I), NEW ids,
         Written(old, new, ids), DOMAIN new.bad = {}
  PROVE  DOMAIN old.bad = {} /\ old.torn <= new.torn
<1>1. old.torn \in Nat /\ new.torn \in Nat
  BY DEF IsFile
<1>2. CASE new.bad = old.bad /\ (old.torn <= new.torn \/ old.torn = 0)
  BY <1>1, <1>2
<1>3. CASE new.bad = [i \in DOMAIN old.bad \cup {Min(ids)} |->
                        IF i = Min(ids) THEN old.torn ELSE old.bad[i]]
  <2>1. Min(ids) \in DOMAIN new.bad
    <3>. HIDE DEF Min
    <3>. QED  BY <1>3
  <2>. QED  BY <2>1
<1>. QED  BY <1>2, <1>3 DEF Written

-----------------------------------------------------------------------------
(* The sizes of a set of frames: the sum that the fold computes is the     *)
(* number of units the frames have, and as a cardinality it can be         *)
(* compared without an induction.                                          *)
Total(S, f) == MapThenSumSet(LAMBDA j : f[j], S)

Units(S, f) == {p \in S \X Nat : p[2] < f[p[1]]}

SumFrom(S, f) ==
  CHOOSE g : g = [T \in SUBSET S |->
                    IF T = {} THEN 0
                    ELSE f[CHOOSE x \in T : TRUE] + g[T \ {CHOOSE x \in T : TRUE}]]

(* The recursive function of the fold.                                     *)
LEMMA SumUnfolds ==
  ASSUME NEW S, NEW f
  PROVE  MapThenSumSet(LAMBDA j : f[j], S) = SumFrom(S, f)[S]
BY DEF MapThenSumSet, MapThenFoldSet, SumFrom

LEMMA UnitsOfOne ==
  ASSUME NEW x, NEW f, f[x] \in Nat
  PROVE  /\ Units({x}, f) = {x} \X (0 .. f[x] - 1)
         /\ IsFiniteSet(Units({x}, f)) /\ Cardinality(Units({x}, f)) = f[x]
<1>1. Units({x}, f) = {x} \X (0 .. f[x] - 1)
  BY DEF Units
<1>. DEFINE I == 0 .. f[x] - 1
<1>2. IsFiniteSet({x}) /\ Cardinality({x}) = 1
  BY FS_Singleton, Zenon
<1>3. IsFiniteSet(I) /\ Cardinality(I) = f[x]
  <2>1. 0 \in Int /\ f[x] - 1 \in Int
    OBVIOUS
  <2>2. IsFiniteSet(I) /\ Cardinality(I) = IF 0 > f[x] - 1 THEN 0 ELSE f[x] - 1 - 0 + 1
    BY <2>1, FS_Interval, Zenon
  <2>. QED  BY <2>2
<1>. HIDE DEF I
<1>4. IsFiniteSet({x} \X I) /\ Cardinality({x} \X I) = Cardinality({x}) * Cardinality(I)
  BY <1>2, <1>3, FS_Product
<1>5. Cardinality({x} \X I) = f[x]
  BY <1>2, <1>3, <1>4
<1>. QED  BY <1>1, <1>4, <1>5 DEF I

LEMMA UnitsFinite ==
  ASSUME NEW S, IsFiniteSet(S), NEW f, \A x \in S : f[x] \in Nat
  PROVE  IsFiniteSet(Units(S, f))
<1>. DEFINE F == [x \in S |-> Units({x}, f)]
            R == {F[x] : x \in S}
<1>1. F \in Surjection(S, R)
  BY Zenon DEF Surjection
<1>2. IsFiniteSet(R)
  BY <1>1, FS_Surjection
<1>3. \A T \in R : IsFiniteSet(T)
  BY UnitsOfOne
<1>4. Units(S, f) = UNION R
  BY DEF Units
<1>. QED  BY <1>2, <1>3, <1>4, FS_UNION

LEMMA UnitsRemove ==
  ASSUME NEW S, IsFiniteSet(S), NEW f, \A x \in S : f[x] \in Nat, NEW x \in S
  PROVE  Cardinality(Units(S, f)) = f[x] + Cardinality(Units(S \ {x}, f))
<1>. DEFINE A == Units({x}, f)  B == Units(S \ {x}, f)
<1>1. Units(S, f) = A \cup B /\ A \cap B = {}
  BY DEF Units
<1>2. IsFiniteSet(A) /\ Cardinality(A) = f[x]
  BY UnitsOfOne
<1>3. IsFiniteSet(S \ {x})
  BY FS_RemoveElement
<1>4. IsFiniteSet(B) /\ Cardinality(B) \in Nat
  BY <1>3, UnitsFinite, FS_CardinalityType
<1>. HIDE DEF A, B
<1>5. Cardinality(A \cup B) = Cardinality(A) + Cardinality(B) - Cardinality({})
  <2>1. Cardinality(A \cup B) = Cardinality(A) + Cardinality(B) - Cardinality(A \cap B)
    BY <1>2, <1>4, FS_Union, Zenon
  <2>. QED  BY <1>1, <2>1
<1>6. Cardinality({}) = 0
  BY FS_EmptySet
<1>. QED  BY <1>1, <1>2, <1>4, <1>5, <1>6 DEF B

(* Two functions that satisfy the fold's equation agree: there would be a  *)
(* smallest set on which they do not.                                      *)
LEMMA SumIsUnits ==
  ASSUME NEW S, IsFiniteSet(S), NEW f, \A x \in S : f[x] \in Nat
  PROVE  Total(S, f) = Cardinality(Units(S, f))
<1>. DEFINE pick(T) == CHOOSE x \in T : TRUE
            h == SumFrom(S, f)
            u == [T \in SUBSET S |-> Cardinality(Units(T, f))]
<1>1. \A T \in SUBSET S : T # {} => pick(T) \in T
  OBVIOUS
<1>2. ASSUME NEW T \in SUBSET S
      PROVE  u[T] = IF T = {} THEN 0 ELSE f[pick(T)] + u[T \ {pick(T)}]
  <2>1. CASE T = {}
    <3>1. Units(T, f) = {}
      BY <2>1 DEF Units
    <3>. QED  BY <2>1, <3>1, FS_EmptySet
  <2>2. CASE T # {}
    <3>1. IsFiniteSet(T) /\ pick(T) \in T /\ T \ {pick(T)} \in SUBSET S
      BY <1>1, <2>2, FS_Subset
    <3>. HIDE DEF pick
    <3>2. Cardinality(Units(T, f)) = f[pick(T)] + Cardinality(Units(T \ {pick(T)}, f))
      BY <3>1, UnitsRemove
    <3>. QED  BY <2>2, <3>1, <3>2
  <2>. QED  BY <2>1, <2>2
<1>3. h = [T \in SUBSET S |-> IF T = {} THEN 0 ELSE f[pick(T)] + h[T \ {pick(T)}]]
  <2>1. u = [T \in SUBSET S |-> IF T = {} THEN 0 ELSE f[pick(T)] + u[T \ {pick(T)}]]
    BY <1>2, Zenon
  <2>. HIDE DEF u
  <2>. QED  BY <2>1, Zenon DEF SumFrom
<1>. HIDE DEF h, u
<1>4. ASSUME NEW T \in SUBSET S
      PROVE  h[T] = IF T = {} THEN 0 ELSE f[pick(T)] + h[T \ {pick(T)}]
  BY <1>3, Zenon
<1>5. \A T \in SUBSET S : h[T] = u[T]
  <2>. DEFINE Bad == {T \in SUBSET S : h[T] # u[T]}
  <2>. SUFFICES ASSUME Bad # {} PROVE FALSE
    OBVIOUS
  <2>1. IsWellFoundedOn(StrictSubsetOrdering(S), SUBSET S)
    BY FS_StrictSubsetOrderingWellFounded, FS_FiniteSubsetsOfFinite, Zenon
  <2>2. PICK T \in Bad : \A V \in Bad : ~(<<V, T>> \in StrictSubsetOrdering(S))
    BY <2>1, WFMin, Zenon
  <2>3. T \in SUBSET S /\ T # {}
    BY <1>2, <1>4
  <2>4. pick(T) \in T
    BY <1>1, <2>3
  <2>. HIDE DEF pick
  <2>5. <<T \ {pick(T)}, T>> \in StrictSubsetOrdering(S)
    BY <2>3, <2>4 DEF StrictSubsetOrdering
  <2>6. h[T \ {pick(T)}] = u[T \ {pick(T)}]
    BY <2>2, <2>3, <2>5
  <2>. QED  BY <1>2, <1>4, <2>3, <2>6
<1>. QED  BY <1>5, SumUnfolds DEF h, u, Total

LEMMA SumOfOne ==
  ASSUME NEW x, NEW f, f[x] \in Nat
  PROVE  Total({x}, f) = f[x]
<1>1. IsFiniteSet({x})
  BY FS_Singleton
<1>. QED  BY <1>1, SumIsUnits, UnitsOfOne

(* More frames, or larger ones, are not smaller.                           *)
LEMMA SumGrows ==
  ASSUME NEW S, IsFiniteSet(S), NEW f, \A x \in S : f[x] \in Nat, NEW T \in SUBSET S,
         NEW g, \A x \in T : g[x] \in Nat /\ g[x] <= f[x]
  PROVE  /\ Total(T, g) \in Nat
         /\ Total(S, f) \in Nat
         /\ Total(T, g) <= Total(S, f)
<1>1. IsFiniteSet(T) /\ \A x \in T : g[x] \in Nat
  BY FS_Subset
<1>2. Units(T, g) \in SUBSET Units(S, f)
  <2>1. ASSUME NEW p \in T \X Nat, p[2] < g[p[1]]
        PROVE  p \in S \X Nat /\ p[2] < f[p[1]]
    <3>1. p[1] \in T /\ p[2] \in Nat /\ p \in S \X Nat
      OBVIOUS
    <3>2. g[p[1]] \in Nat /\ f[p[1]] \in Nat /\ g[p[1]] <= f[p[1]]
      BY <3>1
    <3>. QED  BY <2>1, <3>1, <3>2
  <2>. QED  BY <2>1 DEF Units
<1>3. IsFiniteSet(Units(S, f))
  BY UnitsFinite
<1>4. /\ Cardinality(Units(S, f)) \in Nat
      /\ IsFiniteSet(Units(T, g)) /\ Cardinality(Units(T, g)) <= Cardinality(Units(S, f))
  BY <1>2, <1>3, FS_Subset, FS_CardinalityType
<1>5. Cardinality(Units(T, g)) \in Nat
  BY <1>4, FS_CardinalityType
<1>. QED  BY <1>1, <1>4, <1>5, SumIsUnits

LEMMA SumOfMore ==
  ASSUME NEW S, IsFiniteSet(S), NEW f, \A x \in S : f[x] \in Nat, NEW k, k \notin S,
         NEW h, \A x \in S : h[x] = f[x], h[k] \in Nat
  PROVE  Total(S \cup {k}, h) = Total(S, f) + h[k] /\ Total(S, f) \in Nat
<1>1. IsFiniteSet(S \cup {k}) /\ \A x \in S \cup {k} : h[x] \in Nat
  BY FS_AddElement
<1>2. k \in S \cup {k} /\ (S \cup {k}) \ {k} = S
  OBVIOUS
<1>3. Cardinality(Units(S \cup {k}, h)) = h[k] + Cardinality(Units((S \cup {k}) \ {k}, h))
  BY <1>1, <1>2, UnitsRemove
<1>4. Units(S, h) = Units(S, f)
  BY DEF Units
<1>5. Total(S \cup {k}, h) = Cardinality(Units(S \cup {k}, h))
  BY <1>1, SumIsUnits
<1>6. Total(S, f) = Cardinality(Units(S, f)) /\ Cardinality(Units(S, f)) \in Nat
  BY SumIsUnits, UnitsFinite, FS_CardinalityType
<1>7. Cardinality(Units((S \cup {k}) \ {k}, h)) = Cardinality(Units(S, f))
  BY <1>2, <1>4
<1>8. Total(S \cup {k}, h) = h[k] + Total(S, f)
  BY <1>3, <1>5, <1>6, <1>7
<1>9. Total(S, f) \in Nat
  BY <1>6
<1>. QED  BY <1>8, <1>9

-----------------------------------------------------------------------------
(* Stores without a hole.                                                  *)

LEMMA NewestOfInterval ==
  ASSUME NEW m \in Nat, NEW n \in Nat, NEW k \in Int
  PROVE  Newest(m .. n, k) = {i \in m .. n : n - i < k}
<1>1. ASSUME NEW i \in m .. n
      PROVE  Cardinality({j \in m .. n : j > i}) = n - i
  <2>. DEFINE I == (i + 1) .. n
  <2>1. {j \in m .. n : j > i} = I
    OBVIOUS
  <2>2. Cardinality(I) = IF i + 1 > n THEN 0 ELSE n - (i + 1) + 1
    BY FS_Interval
  <2>. HIDE DEF I
  <2>. QED  BY <2>1, <2>2
<1>. QED  BY <1>1 DEF Newest

(* The window of tail() for lines of the given sizes on disk, with a       *)
(* fragment of t units behind them.                                        *)
Window(lines, f, t) ==
  IF lines = {} \/ SizeFrom(lines, f, Min(lines)) + t <= TailSpan
  THEN lines
  ELSE {i \in lines : SizeFrom(lines, f, i) + t < TailSpan}

LEMMA TailWindowIs ==
  ASSUME NEW file, NEW sizeOf
  PROVE  TailWindow(file, sizeOf) = Window(file.lines, OnDisk(file, sizeOf), file.torn)
BY DEF TailWindow, Window, FromEnd

(* In a whole file of n lines these are the last lines, and the line       *)
(* before them would make them too long for it.                            *)
LEMMA WindowOfInterval ==
  ASSUME NEW n \in Nat \ {0}, NEW f, \A i \in 1 .. n : f[i] \in Nat, NEW t \in Nat,
         f[n] + t < TailSpan
  PROVE  \E m \in 1 .. n : /\ Window(1 .. n, f, t) = m .. n
                           /\ m = 1 \/ SizeFrom(1 .. n, f, m - 1) + t >= TailSpan
<1>. DEFINE W == {i \in 1 .. n : SizeFrom(1 .. n, f, i) + t < TailSpan}
<1>0. TailSpan \in Nat
  BY StoreAssumption
<1>1. CASE Window(1 .. n, f, t) = 1 .. n
  BY <1>1
<1>2. CASE Window(1 .. n, f, t) = W
  <2>1. ASSUME NEW i \in 1 .. n
        PROVE  SizeFrom(1 .. n, f, i) \in Nat /\ {j \in 1 .. n : j >= i} = i .. n
    <3>1. {j \in 1 .. n : j >= i} = i .. n
      OBVIOUS
    <3>2. IsFiniteSet(i .. n) /\ \A j \in i .. n : f[j] \in Nat
      <4>1. i \in Int /\ n \in Int /\ \A j \in i .. n : j \in 1 .. n
        OBVIOUS
      <4>2. IsFiniteSet(i .. n)
        BY <4>1, FS_Interval, Zenon
      <4>. QED  BY <4>1, <4>2
    <3>3. Total(i .. n, f) \in Nat
      <4>1. i .. n \in SUBSET (i .. n) /\ \A j \in i .. n : f[j] \in Nat /\ f[j] <= f[j]
        OBVIOUS
      <4>. QED  BY <3>2, <4>1, SumGrows, Zenon
    <3>. QED  BY <3>1, <3>3 DEF SizeFrom, Total
  <2>2. n \in W
    <3>1. {j \in 1 .. n : j >= n} = {n}
      OBVIOUS
    <3>. QED  BY <3>1, SumOfOne DEF SizeFrom, Total
  <2>3. ASSUME NEW i \in W, NEW j \in i .. n
        PROVE  j \in W
    <3>1. j \in 1 .. n /\ j .. n \in SUBSET (i .. n)
      OBVIOUS
    <3>2. IsFiniteSet(i .. n) /\ \A x \in i .. n : f[x] \in Nat
      <4>1. i \in Int /\ n \in Int /\ \A x \in i .. n : x \in 1 .. n
        OBVIOUS
      <4>2. IsFiniteSet(i .. n)
        BY <4>1, FS_Interval, Zenon
      <4>. QED  BY <4>1, <4>2
    <3>3. Total(j .. n, f) <= Total(i .. n, f)
      <4>1. \A x \in j .. n : f[x] \in Nat /\ f[x] <= f[x]
        BY <3>1, <3>2
      <4>. QED  BY <3>1, <3>2, <4>1, SumGrows, Zenon
    <3>4. SizeFrom(1 .. n, f, j) <= SizeFrom(1 .. n, f, i)
      BY <2>1, <3>1, <3>3 DEF SizeFrom, Total
    <3>. QED  BY <1>0, <2>1, <3>1, <3>4
  <2>. HIDE DEF W
  <2>4. W \in SUBSET Nat /\ W \subseteq 1 .. n
    BY DEF W
  <2>5. Min(W) \in W /\ \A y \in W : Min(W) <= y
    BY <2>2, <2>4, MinIsMember
  <2>6. W = Min(W) .. n
    <3>1. ASSUME NEW y \in W PROVE y \in Min(W) .. n
      BY <2>4, <2>5
    <3>. QED  BY <2>3, <2>5, <3>1
  <2>7. Min(W) = 1 \/ SizeFrom(1 .. n, f, Min(W) - 1) + t >= TailSpan
    <3>1. SUFFICES ASSUME Min(W) # 1 PROVE SizeFrom(1 .. n, f, Min(W) - 1) + t >= TailSpan
      OBVIOUS
    <3>2. Min(W) - 1 \in 1 .. n /\ Min(W) - 1 \notin W
      <4>1. Min(W) \in 1 .. n
        BY <2>4, <2>5
      <4>. HIDE DEF Min
      <4>2. ~(Min(W) <= Min(W) - 1)
        BY <4>1
      <4>. QED  BY <2>5, <3>1, <4>1, <4>2
    <3>. QED  BY <1>0, <2>1, <3>2 DEF W
  <2>. QED  BY <1>2, <2>4, <2>5, <2>6, <2>7
<1>. QED  BY <1>1, <1>2 DEF Window

-----------------------------------------------------------------------------
(* What tail() returns of a file that has grown: of the lines L that were  *)
(* there before it returns none it did not return then, and what it leaves *)
(* out of them is older than what it returns.                              *)
Fits(new, old, L) ==
  /\ \A x \in new : x \in L => x \in old
  /\ \A x \in new, j \in old : x \in L /\ j > x => j \in new

LEMMA NewestFits ==
  ASSUME NEW new \in SUBSET Nat, IsFiniteSet(new), NEW old \in SUBSET Nat, NEW L, NEW n \in Nat,
         old \subseteq L, Fits(new, old, L)
  PROVE  Fits(Newest(new, n), Newest(old, n), L)
<1>. DEFINE after(S, x) == {j \in S : j > x}
<1>1. ASSUME NEW x \in new, NEW T \in SUBSET after(new, x), Cardinality(after(new, x)) < n
      PROVE  Cardinality(T) < n
  <2>1. IsFiniteSet(after(new, x))
    <3>1. after(new, x) \subseteq new
      OBVIOUS
    <3>. HIDE DEF after
    <3>. QED  BY <3>1, FS_Subset
  <2>. HIDE DEF after
  <2>2. IsFiniteSet(T) /\ Cardinality(T) <= Cardinality(after(new, x))
    BY <2>1, FS_Subset
  <2>3. Cardinality(T) \in Nat /\ Cardinality(after(new, x)) \in Nat
    BY <2>1, <2>2, FS_CardinalityType
  <2>. QED  BY <1>1, <2>2, <2>3
<1>2. ASSUME NEW x \in Newest(new, n), x \in L
      PROVE  x \in Newest(old, n)
  <2>1. x \in new /\ x \in old /\ Cardinality(after(new, x)) < n
    BY <1>2 DEF Newest, Fits
  <2>2. after(old, x) \in SUBSET after(new, x)
    BY <1>2, <2>1 DEF Fits
  <2>3. Cardinality(after(old, x)) < n
    <3>. HIDE DEF after
    <3>. QED  BY <1>1, <2>1, <2>2
  <2>. QED  BY <2>1, <2>3 DEF Newest
<1>3. ASSUME NEW x \in Newest(new, n), NEW j \in Newest(old, n), x \in L, j > x
      PROVE  j \in Newest(new, n)
  <2>1. x \in new /\ j \in old /\ Cardinality(after(new, x)) < n
    BY DEF Newest
  <2>2. j \in new
    BY <1>3, <2>1 DEF Fits
  <2>3. after(new, j) \in SUBSET after(new, x)
    <3>. SUFFICES ASSUME NEW i \in new, i > j PROVE i > x
      OBVIOUS
    <3>1. x \in Nat /\ j \in Nat /\ i \in Nat
      BY <2>1
    <3>. QED  BY <1>3, <3>1
  <2>4. Cardinality(after(new, j)) < n
    <3>. HIDE DEF after
    <3>. QED  BY <1>1, <2>1, <2>3
  <2>. QED  BY <2>2, <2>4 DEF Newest
<1>. QED  BY <1>2, <1>3 DEF Fits

LEMMA SizeFromGrows ==
  ASSUME NEW K \in SUBSET Nat, IsFiniteSet(K), NEW g, \A x \in K : g[x] \in Nat,
         NEW L \in SUBSET K, NEW f, \A x \in L : f[x] \in Nat /\ f[x] <= g[x],
         NEW i \in Nat, NEW j \in Nat, j <= i
  PROVE  /\ SizeFrom(L, f, i) \in Nat /\ SizeFrom(K, g, j) \in Nat
         /\ SizeFrom(L, f, i) <= SizeFrom(K, g, j)
<1>. DEFINE S == {x \in K : x >= j}
            T == {x \in L : x >= i}
<1>1. IsFiniteSet(S)
  <2>1. S \subseteq K
    OBVIOUS
  <2>. HIDE DEF S
  <2>. QED  BY <2>1, FS_Subset
<1>2. T \in SUBSET S /\ \A x \in S : g[x] \in Nat
  <2>1. ASSUME NEW x \in L, x >= i
        PROVE  x >= j
    <3>1. x \in Nat
      OBVIOUS
    <3>. QED  BY <2>1, <3>1
  <2>. QED  BY <2>1
<1>3. \A x \in T : f[x] \in Nat /\ f[x] <= g[x]
  OBVIOUS
<1>. HIDE DEF S, T
<1>4. Total(T, f) \in Nat /\ Total(S, g) \in Nat /\ Total(T, f) <= Total(S, g)
  BY <1>1, <1>2, <1>3, SumGrows
<1>. QED  BY <1>4 DEF SizeFrom, Total, S, T

(* A file that has grown still has the units of the fragment it ended in:  *)
(* in that fragment, or in front of a line k that was written after it.    *)
Keeps(K, g, t, L, u) == u <= t \/ \E k \in K : u <= g[k] /\ \A x \in L : x < k

LEMMA FromEndGrows ==
  ASSUME NEW K \in SUBSET Nat, IsFiniteSet(K), NEW g, \A x \in K : g[x] \in Nat, NEW t \in Nat,
         NEW L \in SUBSET K, NEW f, \A x \in L : f[x] \in Nat /\ f[x] <= g[x], NEW u \in Nat,
         Keeps(K, g, t, L, u),
         NEW i \in L, NEW j \in Nat, j <= i
  PROVE  /\ SizeFrom(L, f, i) \in Nat /\ SizeFrom(K, g, j) \in Nat
         /\ SizeFrom(L, f, i) + u <= SizeFrom(K, g, j) + t
<1>0. i \in Nat
  OBVIOUS
<1>1. /\ SizeFrom(L, f, i) \in Nat /\ SizeFrom(K, g, j) \in Nat
      /\ SizeFrom(L, f, i) <= SizeFrom(K, g, j)
  BY <1>0, SizeFromGrows
<1>2. CASE u <= t
  BY <1>1, <1>2
<1>3. ASSUME NEW k \in K, u <= g[k], \A x \in L : x < k
      PROVE  SizeFrom(L, f, i) + u <= SizeFrom(K, g, j)
  <2>. DEFINE M == L \cup {k}
              h == [x \in M |-> IF x = k THEN u ELSE f[x]]
              T == {x \in L : x >= i}
  <2>1. k \notin L /\ k \in Nat /\ i < k
    <3>1. k \in Nat /\ i < k
      BY <1>3
    <3>2. k \notin L
      <4>. SUFFICES ASSUME k \in L PROVE FALSE
        OBVIOUS
      <4>1. k < k
        BY <1>3
      <4>. QED  BY <3>1, <4>1
    <3>. QED  BY <3>1, <3>2
  <2>2. \A x \in L : h[x] = f[x]
    BY <2>1
  <2>3. h[k] = u
    OBVIOUS
  <2>4. M \in SUBSET K
    OBVIOUS
  <2>. HIDE DEF h
  <2>5. \A x \in M : h[x] \in Nat /\ h[x] <= g[x]
    BY <1>3, <2>2, <2>3
  <2>6. {x \in M : x >= i} = T \cup {k}
    BY <1>0, <2>1
  <2>7. IsFiniteSet(T) /\ k \notin T /\ T \subseteq L
    <3>1. T \subseteq K /\ T \subseteq L
      OBVIOUS
    <3>. HIDE DEF T
    <3>. QED  BY <2>1, <3>1, FS_Subset
  <2>. HIDE DEF M, T
  <2>8. SizeFrom(M, h, i) <= SizeFrom(K, g, j)
    BY <1>0, <2>4, <2>5, SizeFromGrows
  <2>9. Total(T \cup {k}, h) = Total(T, f) + u
    <3>1. \A x \in T : f[x] \in Nat
      BY <2>7
    <3>2. \A x \in T : h[x] = f[x]
      BY <2>2, <2>7
    <3>3. h[k] \in Nat
      BY <2>3
    <3>4. Total(T \cup {k}, h) = Total(T, f) + h[k]
      <4>1. IsFiniteSet(T) /\ k \notin T
        BY <2>7
      <4>. HIDE DEF M
      <4>. QED  BY <3>1, <3>2, <3>3, <4>1, SumOfMore, Z3
    <3>. QED  BY <2>3, <3>4
  <2>10. SizeFrom(M, h, i) = Total(T \cup {k}, h)
    BY <2>6 DEF SizeFrom, Total
  <2>11. SizeFrom(L, f, i) = Total(T, f)
    BY DEF SizeFrom, Total, T
  <2>. QED  BY <2>8, <2>9, <2>10, <2>11
<1>4. CASE \E k \in K : u <= g[k] /\ \A x \in L : x < k
  <2>1. SizeFrom(L, f, i) + u <= SizeFrom(K, g, j)
    BY <1>3, <1>4
  <2>. QED  BY <1>1, <2>1
<1>. QED  BY <1>1, <1>2, <1>4 DEF Keeps

LEMMA WindowFits ==
  ASSUME NEW K \in SUBSET Nat, IsFiniteSet(K), NEW g, \A x \in K : g[x] \in Nat, NEW t \in Nat,
         NEW L \in SUBSET K, NEW f, \A x \in L : f[x] \in Nat /\ f[x] <= g[x], NEW u \in Nat,
         Keeps(K, g, t, L, u)
  PROVE  Fits(Window(K, g, t), Window(L, f, u), L)
<1>0. TailSpan \in Nat
  BY StoreAssumption
<1>1. Window(K, g, t) \subseteq K /\ Window(L, f, u) \subseteq L
  BY DEF Window
<1>2. ASSUME NEW x \in Window(K, g, t), x \in L
      PROVE  x \in Window(L, f, u)
  <2>1. SUFFICES ASSUME L # {}, ~(SizeFrom(L, f, Min(L)) + u <= TailSpan)
                 PROVE  SizeFrom(L, f, x) + u < TailSpan
    BY <1>2 DEF Window
  <2>2. /\ Min(L) \in L /\ Min(K) \in Nat /\ x \in Nat /\ K # {}
        /\ Min(K) <= Min(L)
    <3>1. L \in SUBSET Nat /\ K # {}
      BY <2>1
    <3>2. Min(L) \in L /\ Min(K) \in K /\ \A y \in K : Min(K) <= y
      BY <2>1, <3>1, MinIsMember
    <3>. HIDE DEF Min
    <3>. QED  BY <1>1, <3>1, <3>2
  <2>. HIDE DEF Min
  <2>3. ~(SizeFrom(K, g, Min(K)) + t <= TailSpan)
    <3>1. /\ SizeFrom(L, f, Min(L)) \in Nat /\ SizeFrom(K, g, Min(K)) \in Nat
          /\ SizeFrom(L, f, Min(L)) + u <= SizeFrom(K, g, Min(K)) + t
      BY <2>2, FromEndGrows
    <3>. QED  BY <1>0, <2>1, <3>1
  <2>4. SizeFrom(K, g, x) + t < TailSpan
    BY <2>2, <2>3 DEF Window
  <2>5. /\ SizeFrom(L, f, x) \in Nat /\ SizeFrom(K, g, x) \in Nat
        /\ SizeFrom(L, f, x) + u <= SizeFrom(K, g, x) + t
    <3>1. x <= x
      BY <2>2
    <3>. QED  BY <1>2, <2>2, <3>1, FromEndGrows
  <2>. QED  BY <1>0, <2>4, <2>5
<1>3. ASSUME NEW x \in Window(K, g, t), NEW j \in Window(L, f, u), j > x
      PROVE  j \in Window(K, g, t)
  <2>1. x \in K /\ j \in K /\ x \in Nat /\ j \in Nat
    BY <1>1
  <2>2. CASE Window(K, g, t) = K
    BY <2>1, <2>2
  <2>3. CASE Window(K, g, t) = {i \in K : SizeFrom(K, g, i) + t < TailSpan}
    <3>1. SizeFrom(K, g, x) + t < TailSpan
      BY <2>3
    <3>2. /\ SizeFrom(K, g, j) \in Nat /\ SizeFrom(K, g, x) \in Nat
          /\ SizeFrom(K, g, j) <= SizeFrom(K, g, x)
      <4>1. K \in SUBSET K /\ \A y \in K : g[y] \in Nat /\ g[y] <= g[y]
        OBVIOUS
      <4>2. x <= j
        BY <1>3, <2>1
      <4>. QED  BY <2>1, <4>1, <4>2, SizeFromGrows
    <3>. QED  BY <1>0, <2>1, <2>3, <3>1, <3>2
  <2>. QED  BY <2>2, <2>3 DEF Window
<1>. QED  BY <1>2, <1>3 DEF Fits

LEMMA TailFits ==
  ASSUME NEW I \in SUBSET Nat, IsFiniteSet(I), NEW n \in Nat \ {0},
         NEW e, IsFile(e, I), NEW g, \A x \in I : g[x] \in Nat,
         NEW d, IsFile(d, I), NEW f, \A x \in d.lines : f[x] = g[x],
         d.lines \subseteq e.lines, DOMAIN d.bad \subseteq DOMAIN e.bad,
         \A x \in DOMAIN d.bad : e.bad[x] = d.bad[x],
         \A x \in d.lines : x \in DOMAIN e.bad => x \in DOMAIN d.bad,
         \/ d.torn <= e.torn
         \/ \E k \in e.lines \cap DOMAIN e.bad :
              d.torn <= e.bad[k] /\ \A x \in d.lines : x < k
  PROVE  \A x \in LogTail(e, g, n) : x \in d.lines => x \in LogTail(d, f, n)
<1>. DEFINE K == e.lines
            L == d.lines
            big == OnDisk(e, g)
            small == OnDisk(d, f)
            W == Window(K, big, e.torn)
            V == Window(L, small, d.torn)
            m == 2 * n - 1
<1>1. K \in SUBSET Nat /\ IsFiniteSet(K) /\ L \in SUBSET K /\ m \in Nat
  <2>1. K \subseteq I /\ L \subseteq K /\ m \in Nat
    BY DEF IsFile
  <2>. HIDE DEF K, L, m
  <2>. QED  BY <2>1, FS_Subset
<1>2. W \subseteq K /\ V \subseteq L
  BY DEF Window
<1>0. e.torn \in Nat /\ d.torn \in Nat
  BY DEF IsFile
<1>3. Fits(W, V, L)
  <2>1. ASSUME NEW x \in K
        PROVE  /\ big[x] \in Nat /\ g[x] \in Nat
               /\ x \in DOMAIN e.bad => e.bad[x] \in Nat /\ big[x] = g[x] + e.bad[x]
               /\ x \notin DOMAIN e.bad => big[x] = g[x]
    <3>1. g[x] \in Nat /\ (x \in DOMAIN e.bad => e.bad[x] \in Nat)
      BY DEF IsFile
    <3>2. big[x] = g[x] + IF x \in DOMAIN e.bad THEN e.bad[x] ELSE 0
      BY DEF OnDisk
    <3>. HIDE DEF big
    <3>. QED  BY <3>1, <3>2
  <2>2. ASSUME NEW x \in L
        PROVE  small[x] \in Nat /\ small[x] <= big[x]
    <3>1. x \in K /\ f[x] = g[x]
      BY <1>1
    <3>2. small[x] = f[x] + IF x \in DOMAIN d.bad THEN d.bad[x] ELSE 0
      BY DEF OnDisk
    <3>3. x \in DOMAIN d.bad => x \in DOMAIN e.bad /\ d.bad[x] = e.bad[x]
      OBVIOUS
    <3>. HIDE DEF big, small
    <3>. QED  BY <2>1, <3>1, <3>2, <3>3
  <2>3. Keeps(K, big, e.torn, L, d.torn)
    <3>1. ASSUME NEW k \in e.lines \cap DOMAIN e.bad, d.torn <= e.bad[k]
          PROVE  d.torn <= big[k]
      <4>1. k \in K
        OBVIOUS
      <4>2. g[k] \in Nat /\ e.bad[k] \in Nat /\ big[k] = g[k] + e.bad[k]
        BY <2>1, <4>1
      <4>. HIDE DEF big
      <4>. QED  BY <1>0, <3>1, <4>2
    <3>. HIDE DEF big
    <3>. QED  BY <3>1 DEF Keeps
  <2>. HIDE DEF K, L, big, small
  <2>. QED  BY <1>0, <1>1, <2>1, <2>2, <2>3, WindowFits DEF W, V
<1>. HIDE DEF W, V, m
<1>4. Fits(Newest(W, m), Newest(V, m), L)
  <2>1. W \in SUBSET Nat /\ V \in SUBSET Nat /\ IsFiniteSet(W)
    <3>. HIDE DEF K, L
    <3>. QED  BY <1>1, <1>2, FS_Subset
  <2>. QED  BY <1>1, <1>2, <1>3, <2>1, NewestFits
<1>. DEFINE X == Newest(W, m) \ DOMAIN e.bad
            Y == Newest(V, m) \ DOMAIN d.bad
<1>5. X \in SUBSET W /\ Y \in SUBSET V
  BY NewestSubset
<1>6. Fits(X, Y, L)
  <2>1. Newest(V, m) \subseteq L
    BY <1>2, NewestSubset
  <2>. QED  BY <1>4, <2>1 DEF Fits
<1>7. Fits(Newest(X, n), Newest(Y, n), L)
  <2>1. X \in SUBSET Nat /\ Y \in SUBSET Nat /\ IsFiniteSet(X) /\ Y \subseteq L
    <3>. HIDE DEF K, L, X, Y
    <3>1. X \subseteq K /\ Y \subseteq L
      BY <1>2, <1>5
    <3>. QED  BY <1>1, <3>1, FS_Subset
  <2>. HIDE DEF X, Y
  <2>. QED  BY <1>6, <2>1, NewestFits
<1>8. LogTail(e, g, n) = Newest(X, n) /\ LogTail(d, f, n) = Newest(Y, n)
  BY TailWindowIs DEF LogTail, W, V, m
<1>. QED  BY <1>7, <1>8 DEF Fits

(* Lines that reach the file bring no older line back into its tail.       *)
LEMMA TailOfWritten ==
  ASSUME NEW I \in SUBSET Nat, IsFiniteSet(I), NEW n \in Nat \ {0},
         NEW new, IsFile(new, I), NEW g, \A x \in I : g[x] \in Nat,
         NEW old, IsFile(old, I), NEW f, \A x \in old.lines : f[x] = g[x],
         NEW ids \in SUBSET Nat, \A x \in old.lines, k \in ids : x < k,
         Written(old, new, ids)
  PROVE  \A x \in LogTail(new, g, n) : x \in LogTail(old, f, n) \/ x \in ids
<1>. DEFINE first == Min(ids)
<1>0. new.lines = old.lines \cup ids
  BY DEF Written
<1>1. old.torn \in Nat /\ new.torn \in Nat /\ DOMAIN old.bad \subseteq old.lines
  BY DEF IsFile
<1>2. CASE new.bad = old.bad /\ old.torn <= new.torn
  <2>1. \A x \in LogTail(new, g, n) : x \in old.lines => x \in LogTail(old, f, n)
    BY <1>0, <1>2, TailFits
  <2>. QED  BY <1>0, <2>1, LogTailSubset
<1>3. CASE /\ ids # {}
           /\ new.bad = [i \in DOMAIN old.bad \cup {first} |->
                           IF i = first THEN old.torn ELSE old.bad[i]]
  <2>1. first \in ids
    BY <1>3, MinIsMember
  <2>. HIDE DEF first
  <2>2. first \in Nat /\ \A x \in old.lines : x < first
    BY <2>1
  <2>3. first \notin old.lines
    <3>. SUFFICES ASSUME first \in old.lines PROVE FALSE
      OBVIOUS
    <3>1. first < first
      BY <2>2
    <3>. QED  BY <2>2, <3>1
  <2>4. /\ DOMAIN new.bad = DOMAIN old.bad \cup {first}
        /\ new.bad[first] = old.torn
        /\ \A x \in DOMAIN old.bad : new.bad[x] = old.bad[x]
    BY <1>1, <1>3, <2>3
  <2>5. /\ DOMAIN old.bad \subseteq DOMAIN new.bad
        /\ \A x \in old.lines : x \in DOMAIN new.bad => x \in DOMAIN old.bad
        /\ first \in new.lines \cap DOMAIN new.bad /\ old.torn <= new.bad[first]
    BY <1>0, <1>1, <2>1, <2>3, <2>4
  <2>6. old.lines \subseteq new.lines
    BY <1>0
  <2>7. \A x \in LogTail(new, g, n) : x \in old.lines => x \in LogTail(old, f, n)
    BY <2>2, <2>4, <2>5, <2>6, TailFits
  <2>. QED  BY <1>0, <2>7, LogTailSubset
<1>4. CASE ids = {} /\ new.bad = old.bad /\ old.torn <= new.torn
  BY <1>2, <1>4
<1>5. CASE ids # {} /\ old.torn = 0 /\ new.bad = old.bad
  BY <1>1, <1>2, <1>5
<1>. QED  BY <1>3, <1>4, <1>5 DEF Written
=============================================================================
