---------------------------- MODULE Inbox_proofs ----------------------------
(***************************************************************************)
(* What keeps the inbox quick and true.  The cache that snapshots are kept in:      *)
(* single flight, freshness and the limit, and what goes first, for any keys,        *)
(* values, times to live, callers and size.  The page over it: the rows on it and     *)
(* what its switches say, for any settings, requests and workers.                       *)
(*                                                                         *)
(* What sweeping and deleting leave is defined by rank (nth).  That the ranks of a  *)
(* finite set of places enumerate it in order is an induction over data; it is     *)
(* made here by the least number that fails, for which the library has a fact   *)
(* without an operator for a parameter.                                        *)
(***************************************************************************)
EXTENDS InMemoryCache, InboxPage, FiniteSetTheorems, SequenceTheorems, WellFoundedInduction, TLAPS

----------------------------------------------------------------------------
(* Enumerating a set of places. *)

LEMMA Least ==
    ASSUME NEW T \in SUBSET Nat, T # {}
    PROVE  \E x \in T : \A y \in T : x <= y
<1>1. \E x \in T : \A y \in T : <<y, x>> \notin OpToRel(<, Nat)
  BY NatLessThanWellFounded, WFMin, Zenon
<1>2. PICK x \in T : \A y \in T : <<y, x>> \notin OpToRel(<, Nat)
  BY <1>1
<1>3. \A y \in T : y \in Nat
  OBVIOUS
<1>4. \A y \in T : ~(y < x)
  BY <1>2, <1>3 DEF OpToRel
<1>5. \A y \in T : x <= y
  BY <1>3, <1>4
<1> QED BY <1>5

\* How many places of I come before i.
Rank(I, i) == Cardinality({j \in I : j < i})

LEMMA RankIsNat ==
    ASSUME NEW I \in SUBSET Nat, IsFiniteSet(I), NEW i
    PROVE  Rank(I, i) \in Nat
BY FS_Subset, FS_CardinalityType DEF Rank

LEMMA RankGrows ==
    ASSUME NEW I \in SUBSET Nat, IsFiniteSet(I), NEW i \in I, NEW k \in I, i < k
    PROVE  Rank(I, i) < Rank(I, k)
<1> DEFINE A == {j \in I : j < i}
           B == {j \in I : j < k}
<1>1. IsFiniteSet(A) /\ IsFiniteSet(B)
  BY FS_Subset
<1>2. i \notin A /\ A \cup {i} \subseteq B
  <2>1. i \in Nat /\ k \in Nat /\ \A j \in I : j \in Nat
    OBVIOUS
  <2>2. ASSUME NEW j \in I, j < i PROVE j < k
    BY <2>1, <2>2
  <2>3. ~(i < i)
    BY <2>1
  <2>4. i \notin A
    BY <2>3
  <2>5. A \cup {i} \subseteq B
    BY <2>2
  <2> QED BY <2>4, <2>5
<1>3. Cardinality(A \cup {i}) = Cardinality(A) + 1 /\ Cardinality(A \cup {i}) <= Cardinality(B)
  BY <1>1, <1>2, FS_AddElement, FS_Subset
<1>4. Cardinality(A) \in Nat /\ Cardinality(B) \in Nat
  BY <1>1, FS_CardinalityType
<1> QED BY <1>3, <1>4 DEF Rank

LEMMA RankIsBelow ==
    ASSUME NEW I \in SUBSET Nat, IsFiniteSet(I), NEW i \in I
    PROVE  Rank(I, i) < Cardinality(I)
<1> DEFINE A == {j \in I : j < i}
<1>1. IsFiniteSet(A) /\ A \cup {i} \subseteq I /\ i \notin A
  BY FS_Subset
<1>2. Cardinality(A \cup {i}) = Cardinality(A) + 1 /\ Cardinality(A \cup {i}) <= Cardinality(I)
  BY <1>1, FS_AddElement, FS_Subset
<1>3. Cardinality(A) \in Nat /\ Cardinality(I) \in Nat
  BY <1>1, FS_CardinalityType
<1> QED BY <1>2, <1>3 DEF Rank

\* Every rank below the set's size is some place's.
LEMMA RanksAreTaken ==
    ASSUME NEW I \in SUBSET Nat, IsFiniteSet(I), NEW n \in Nat, n < Cardinality(I)
    PROVE  \E i \in I : Rank(I, i) = n
<1> DEFINE Untaken == {r \in Nat : r < Cardinality(I) /\ ~\E i \in I : Rank(I, i) = r}
<1>1. SUFFICES ASSUME Untaken # {} PROVE FALSE
  OBVIOUS
<1>2. PICK r \in Untaken : \A q \in Untaken : r <= q
  BY <1>1, Least
<1>3. r \in Nat /\ Cardinality(I) \in Nat /\ \A j \in I : j \in Nat
  BY <1>2, FS_CardinalityType
<1>4. CASE r = 0
  <2>1. I # {}
    BY <1>2, <1>3, <1>4, FS_EmptySet
  <2>2. PICK i \in I : \A j \in I : i <= j
    BY <2>1, Least
  <2>3. \A j \in I : ~(j < i)
    BY <1>3, <2>2
  <2>4. {j \in I : j < i} = {}
    BY <2>3
  <2>5. Rank(I, i) = 0
    BY <2>4, FS_EmptySet DEF Rank
  <2> QED BY <1>2, <1>4, <2>5
<1>5. CASE r # 0
  <2>1. r - 1 \in Nat /\ r - 1 < Cardinality(I) /\ r - 1 \notin Untaken
    BY <1>2, <1>3, <1>5
  <2>2. PICK i \in I : Rank(I, i) = r - 1
    BY <2>1
  <2> DEFINE A == {j \in I : j < i}
             After == {j \in I : j > i}
  <2>3. IsFiniteSet(A) /\ i \notin A /\ Cardinality(A) = r - 1
    BY <2>2, FS_Subset DEF Rank
  <2>4. Cardinality(A \cup {i}) = r
    <3>1. Cardinality(A \cup {i}) = Cardinality(A) + 1
      BY <2>3, FS_AddElement
    <3> QED BY <1>3, <2>3, <3>1
  <2>5. After # {}
    <3>1. SUFFICES ASSUME After = {} PROVE FALSE
      OBVIOUS
    <3>2. \A j \in I : j < i \/ j = i
      BY <1>3, <3>1
    <3>3. I = A \cup {i}
      BY <3>2
    <3> QED BY <1>2, <1>3, <2>4, <3>3
  <2>6. PICK k \in After : \A j \in After : k <= j
    BY <2>5, Least
  <2>7. {j \in I : j < k} = A \cup {i}
    <3>1. \A j \in I : j < k <=> j < i \/ j = i
      BY <1>3, <2>6
    <3> QED BY <3>1
  <2>8. Rank(I, k) = r
    BY <2>4, <2>7 DEF Rank
  <2> QED BY <1>2, <2>6, <2>8
<1> QED BY <1>4, <1>5

\* nth enumerates the places in their order, and leaves none out.
LEMMA NthEnumerates ==
    ASSUME NEW I \in SUBSET Nat, IsFiniteSet(I)
    PROVE  /\ Cardinality(I) \in Nat
           /\ \A n \in 1 .. Cardinality(I) : nth(I, n) \in I
           /\ \A m, n \in 1 .. Cardinality(I) : m < n => nth(I, m) < nth(I, n)
           /\ \A i \in I : \E n \in 1 .. Cardinality(I) : nth(I, n) = i
<1>1. Cardinality(I) \in Nat /\ \A i \in I : i \in Nat
  BY FS_CardinalityType
<1>2. ASSUME NEW n \in 1 .. Cardinality(I)
      PROVE  nth(I, n) \in I /\ Rank(I, nth(I, n)) = n - 1
  <2>1. n - 1 \in Nat /\ n - 1 < Cardinality(I)
    BY <1>1
  <2>2. \E i \in I : Rank(I, i) = n - 1
    BY <2>1, RanksAreTaken
  <2> QED BY <2>2 DEF nth, Rank
<1>3. ASSUME NEW m \in 1 .. Cardinality(I), NEW n \in 1 .. Cardinality(I), m < n
      PROVE  nth(I, m) < nth(I, n)
  <2>1. /\ nth(I, m) \in I /\ nth(I, n) \in I
        /\ Rank(I, nth(I, m)) = m - 1 /\ Rank(I, nth(I, n)) = n - 1
    BY <1>2
  <2>2. nth(I, n) < nth(I, m) => Rank(I, nth(I, n)) < Rank(I, nth(I, m))
    BY <2>1, RankGrows
  <2>3. nth(I, m) \in Nat /\ nth(I, n) \in Nat /\ m \in Nat /\ n \in Nat
    <3>1. nth(I, m) \in Nat /\ nth(I, n) \in Nat
      BY <1>1, <2>1
    <3>2. m \in Nat /\ n \in Nat
      BY <1>1
    <3> QED BY <3>1, <3>2
  <2>4. nth(I, m) # nth(I, n)
    BY <1>3, <2>1, <2>3
  <2>5. ~(nth(I, n) < nth(I, m))
    BY <1>3, <2>1, <2>2, <2>3
  <2> QED BY <2>3, <2>4, <2>5
<1>4. ASSUME NEW i \in I PROVE \E n \in 1 .. Cardinality(I) : nth(I, n) = i
  <2>1. Rank(I, i) \in Nat /\ Rank(I, i) < Cardinality(I)
    BY RankIsNat, RankIsBelow
  <2> DEFINE n == Rank(I, i) + 1
  <2>2. n \in 1 .. Cardinality(I) /\ n - 1 = Rank(I, i)
    BY <1>1, <2>1
  <2>3. nth(I, n) \in I /\ Rank(I, nth(I, n)) = Rank(I, i)
    BY <1>2, <2>2
  <2>4. nth(I, n) < i => Rank(I, nth(I, n)) < Rank(I, i)
    BY <2>3, RankGrows
  <2>5. i < nth(I, n) => Rank(I, i) < Rank(I, nth(I, n))
    BY <2>3, RankGrows
  <2>6. i \in Nat /\ nth(I, n) \in Nat
    BY <1>1, <2>3
  <2>7. nth(I, n) = i
    BY <2>1, <2>3, <2>4, <2>5, <2>6
  <2> QED BY <2>2, <2>7
<1> QED BY <1>1, <1>2, <1>3, <1>4

----------------------------------------------------------------------------
(* Entries in Map order. *)

Entry == [key: Keys, value: Answers, expiresAt: Nat, writtenAt: Nat]

ElementsOf(s) == {s[i] : i \in DOMAIN s}

\* One entry a key, and no entry before one that was written earlier.
Tidy(s) ==
    /\ \A i, j \in DOMAIN s : s[i].key = s[j].key => i = j
    /\ \A i, j \in DOMAIN s : i < j => s[i].writtenAt <= s[j].writtenAt

LEMMA SelectedIs ==
    ASSUME NEW S, NEW s \in Seq(S), NEW I \in SUBSET DOMAIN s
    PROVE  LET t == selected(s, I)
           IN  /\ t \in Seq(S) /\ Len(t) \in Nat /\ Len(t) <= Len(s) /\ DOMAIN t = 1 .. Len(t)
               /\ \A n \in DOMAIN t : nth(I, n) \in I /\ t[n] = s[nth(I, n)]
               /\ \A m, n \in DOMAIN t : m < n => nth(I, m) < nth(I, n)
               /\ \A i \in I : \E n \in DOMAIN t : nth(I, n) = i
<1> DEFINE t == selected(s, I)
<1>1. DOMAIN s = 1 .. Len(s) /\ Len(s) \in Nat /\ \A i \in DOMAIN s : s[i] \in S
  OBVIOUS
<1>2. IsFiniteSet(1 .. Len(s)) /\ Cardinality(1 .. Len(s)) = Len(s)
  <2>1. 1 \in Int /\ Len(s) \in Int
    BY <1>1
  <2>2. /\ IsFiniteSet(1 .. Len(s))
        /\ Cardinality(1 .. Len(s)) = IF 1 > Len(s) THEN 0 ELSE Len(s) - 1 + 1
    BY <2>1, FS_Interval
  <2>3. (IF 1 > Len(s) THEN 0 ELSE Len(s) - 1 + 1) = Len(s)
    BY <1>1
  <2> QED BY <2>2, <2>3
<1>3. IsFiniteSet(I) /\ Cardinality(I) <= Len(s) /\ I \in SUBSET Nat
  <2>1. IsFiniteSet(I) /\ Cardinality(I) <= Len(s)
    BY <1>1, <1>2, FS_Subset
  <2>2. I \subseteq Nat
    BY <1>1
  <2> QED BY <2>1, <2>2
<1>4. /\ Cardinality(I) \in Nat
      /\ \A n \in 1 .. Cardinality(I) : nth(I, n) \in I
      /\ \A m, n \in 1 .. Cardinality(I) : m < n => nth(I, m) < nth(I, n)
      /\ \A i \in I : \E n \in 1 .. Cardinality(I) : nth(I, n) = i
  BY <1>3, NthEnumerates
<1>5. DOMAIN t = 1 .. Cardinality(I) /\ \A n \in 1 .. Cardinality(I) : t[n] = s[nth(I, n)]
  BY DEF selected
<1>6. t \in [1 .. Cardinality(I) -> S]
  BY <1>1, <1>4 DEF selected
<1>7. t \in Seq(S) /\ Len(t) = Cardinality(I)
  BY <1>4, <1>6
<1> HIDE DEF t
<1> QED BY <1>3, <1>4, <1>5, <1>7 DEF t

LEMMA SelectedTidy ==
    ASSUME NEW s \in Seq(Entry), Tidy(s), NEW I \in SUBSET DOMAIN s
    PROVE  Tidy(selected(s, I)) /\ ElementsOf(selected(s, I)) = {s[i] : i \in I}
<1> DEFINE t == selected(s, I)
<1>1. /\ \A n \in DOMAIN t : nth(I, n) \in I /\ t[n] = s[nth(I, n)]
      /\ \A m, n \in DOMAIN t : m < n => nth(I, m) < nth(I, n)
      /\ \A i \in I : \E n \in DOMAIN t : nth(I, n) = i
      /\ DOMAIN t = 1 .. Len(t) /\ Len(t) \in Nat
  BY SelectedIs
<1>2. DOMAIN s \subseteq Nat
  OBVIOUS
<1> HIDE DEF t
<1>3. ASSUME NEW m \in DOMAIN t, NEW n \in DOMAIN t, t[m].key = t[n].key PROVE m = n
  <2>1. nth(I, m) = nth(I, n) /\ nth(I, m) \in Nat
    BY <1>1, <1>2, <1>3 DEF Tidy
  <2>2. ~(m < n) /\ ~(n < m)
    BY <1>1, <2>1
  <2> QED BY <1>1, <2>2
<1>4. ASSUME NEW m \in DOMAIN t, NEW n \in DOMAIN t, m < n PROVE t[m].writtenAt <= t[n].writtenAt
  BY <1>1, <1>4 DEF Tidy
<1>5. Tidy(t)
  BY <1>3, <1>4 DEF Tidy
<1>6. ElementsOf(t) = {s[i] : i \in I}
  BY <1>1 DEF ElementsOf
<1> QED BY <1>5, <1>6 DEF t

\* What is left of entries in which some keys are dropped, or those that have expired.
LEMMA WithoutIs ==
    ASSUME NEW s \in Seq(Entry), Tidy(s), NEW K
    PROVE  LET t == without(s, K)
           IN  /\ t \in Seq(Entry) /\ Len(t) <= Len(s) /\ Tidy(t)
               /\ ElementsOf(t) = {entry \in ElementsOf(s) : entry.key \notin K}
<1> DEFINE I == {i \in DOMAIN s : s[i].key \notin K}
<1>1. ElementsOf(selected(s, I)) = {s[i] : i \in I} /\ Tidy(selected(s, I))
  BY SelectedTidy
<1>2. selected(s, I) \in Seq(Entry) /\ Len(selected(s, I)) <= Len(s)
  BY SelectedIs
<1>3. {s[i] : i \in I} = {entry \in ElementsOf(s) : entry.key \notin K}
  BY DEF ElementsOf
<1> QED BY <1>1, <1>2, <1>3 DEF without

LEMMA SweptIs ==
    ASSUME NEW s \in Seq(Entry), Tidy(s)
    PROVE  LET t == swept(s)
           IN  /\ t \in Seq(Entry) /\ Len(t) <= Len(s) /\ Tidy(t)
               /\ ElementsOf(t) = {entry \in ElementsOf(s) : live(entry)}
<1> DEFINE I == {i \in DOMAIN s : live(s[i])}
<1>1. ElementsOf(selected(s, I)) = {s[i] : i \in I} /\ Tidy(selected(s, I))
  BY SelectedTidy
<1>2. selected(s, I) \in Seq(Entry) /\ Len(selected(s, I)) <= Len(s)
  BY SelectedIs
<1>3. {s[i] : i \in I} = {entry \in ElementsOf(s) : live(entry)}
  BY DEF ElementsOf
<1> QED BY <1>1, <1>2, <1>3 DEF swept

\* The last entries of a sequence.
LEMMA SuffixIs ==
    ASSUME NEW s \in Seq(Entry), Tidy(s), NEW n \in Nat, n <= Len(s)
    PROVE  LET t == SubSeq(s, Len(s) - n + 1, Len(s))
           IN  /\ t \in Seq(Entry) /\ Len(t) = n /\ Tidy(t)
               /\ \A i \in 1 .. n : t[i] = s[Len(s) - n + i]
<1> DEFINE t == SubSeq(s, Len(s) - n + 1, Len(s))
<1>1. Len(s) \in Nat /\ DOMAIN s = 1 .. Len(s) /\ Len(s) - n \in Nat
  OBVIOUS
<1>2. /\ t \in Seq(Entry) /\ Len(t) = n
      /\ \A i \in 1 .. n : t[i] = s[Len(s) - n + i] /\ Len(s) - n + i \in DOMAIN s
  <2> DEFINE first == Len(s) - n + 1
  <2>1. first \in Int /\ Len(s) \in Int /\ first \in Nat /\ first >= 1
        /\ \A i \in first .. Len(s) : s[i] \in Entry
    BY <1>1
  <2>2. /\ t \in Seq(Entry) /\ Len(t) = IF first <= Len(s) THEN Len(s) - first + 1 ELSE 0
        /\ \A i \in 1 .. (Len(s) - first + 1) : t[i] = s[first + i - 1]
    BY <2>1, SubSeqProperties
  <2>3. Len(s) - first + 1 = n /\ (n = 0 <=> ~(first <= Len(s)))
    BY <1>1
  <2>4. \A i \in 1 .. n : first + i - 1 = Len(s) - n + i /\ Len(s) - n + i \in DOMAIN s
    BY <1>1
  <2> QED BY <2>2, <2>3, <2>4
<1>3. DOMAIN t = 1 .. n
  BY <1>2
<1> HIDE DEF t
<1>4. Tidy(t)
  <2>1. ASSUME NEW i \in 1 .. n, NEW j \in 1 .. n, t[i].key = t[j].key PROVE i = j
    <3> DEFINE before == Len(s) - n
    <3>1. before \in Nat /\ i \in Int /\ j \in Int
      BY <1>1
    <3>2. /\ t[i] = s[before + i] /\ t[j] = s[before + j]
          /\ before + i \in DOMAIN s /\ before + j \in DOMAIN s
      BY <1>2
    <3> HIDE DEF before
    <3>3. before + i = before + j
      BY <2>1, <3>2 DEF Tidy
    <3> QED BY <3>1, <3>3
  <2>2. ASSUME NEW i \in 1 .. n, NEW j \in 1 .. n, i < j
        PROVE  t[i].writtenAt <= t[j].writtenAt
    <3>1. Len(s) - n + i < Len(s) - n + j
      BY <1>1, <2>2
    <3> QED BY <1>2, <3>1 DEF Tidy
  <2> QED BY <1>3, <2>1, <2>2 DEF Tidy
<1> QED BY <1>2, <1>4 DEF t

LEMMA AppendTidy ==
    ASSUME NEW s \in Seq(Entry), Tidy(s), NEW e \in Entry,
           \A entry \in ElementsOf(s) : entry.key # e.key /\ entry.writtenAt <= e.writtenAt
    PROVE  LET t == Append(s, e)
           IN  /\ t \in Seq(Entry) /\ Len(t) = Len(s) + 1 /\ Tidy(t) /\ t[Len(t)] = e
               /\ ElementsOf(t) = ElementsOf(s) \cup {e}
<1> DEFINE t == Append(s, e)
<1>1. /\ t \in Seq(Entry) /\ Len(t) = Len(s) + 1 /\ t[Len(s) + 1] = e /\ Len(s) \in Nat
      /\ DOMAIN s = 1 .. Len(s) /\ DOMAIN t = 1 .. (Len(s) + 1)
      /\ \A i \in DOMAIN s : t[i] = s[i]
  OBVIOUS
<1>2. \A i \in DOMAIN t : i \in DOMAIN s \/ i = Len(s) + 1
  BY <1>1
<1>3. \A i \in DOMAIN s : i \in DOMAIN t /\ s[i].key # e.key /\ s[i].writtenAt <= e.writtenAt
  BY <1>1 DEF ElementsOf
<1>4. e.writtenAt <= e.writtenAt
  BY DEF Entry
<1> HIDE DEF t
<1>5. \A i, j \in DOMAIN t : t[i].key = t[j].key => i = j
  BY <1>1, <1>2, <1>3 DEF Tidy
<1>6. \A i, j \in DOMAIN t : i < j => t[i].writtenAt <= t[j].writtenAt
  BY <1>1, <1>2, <1>3, <1>4 DEF Tidy
<1>7. ElementsOf(t) = ElementsOf(s) \cup {e}
  BY <1>1, <1>2, <1>3 DEF ElementsOf
<1> QED BY <1>1, <1>5, <1>6, <1>7 DEF t, Tidy

----------------------------------------------------------------------------
(* The inductive invariant. *)

Types ==
    /\ world \in Worlds
    /\ now \in Nat /\ now <= world.ticks
    /\ entries \in Seq(Entry)
    /\ inFlight \in [Keys -> Callers \cup {NoLoad}]
    /\ loads \in [Callers -> Load \cup {NoLoad}]
    /\ waitsFor \in [Callers -> Callers \cup {NoLoad}]
    /\ served \subseteq [key: Keys, value: Answers]
    /\ source \in [Keys -> Values]
    /\ lastTrue \in [Keys -> [Answers -> Nat]]

\* A load is registered under its key for as long as it runs.
Registered == \A c \in Callers : loads[c] # NoLoad => inFlight[loads[c].key] = c

\* A load takes no longer than it may, and its answer was true after it began.
LoadInTime(load) ==
    /\ load.began <= now /\ now <= load.began + MaxLoad
    /\ load.pc \in {"answered", "resolved"} => load.began <= lastTrue[load.key][load.value]

LoadsInTime == \A c \in Callers : loads[c] # NoLoad => LoadInTime(loads[c])

\* An entry was true when it was written, or no longer before that than a load takes.
Current(entry) ==
    /\ entry.writtenAt <= now /\ entry.expiresAt = entry.writtenAt + Ttl[entry.value]
    /\ \/ source[entry.key] = entry.value
       \/ entry.writtenAt <= lastTrue[entry.key][entry.value] + MaxLoad

EntriesCurrent == \A entry \in ElementsOf(entries) : Current(entry)

IInv == /\ Types /\ Tidy(entries) /\ Len(entries) <= MAX_ENTRIES
        /\ Registered /\ LoadsInTime /\ EntriesCurrent /\ Fresh

NewEntry(k, v) == [key |-> k, value |-> v, expiresAt |-> now + Ttl[v], writtenAt |-> now]

\* What setting a key makes of the entries.
LEMMA AddedIs ==
    ASSUME IInv, NEW k \in Keys, NEW v \in Answers
    PROVE  LET added == Append(without(entries, {k}), NewEntry(k, v))
           IN  /\ NewEntry(k, v) \in Entry /\ added \in Seq(Entry) /\ Tidy(added)
               /\ Len(added) \in Nat \ {0} /\ added[Len(added)] = NewEntry(k, v)
               /\ ElementsOf(added) =
                     {entry \in ElementsOf(entries) : entry.key # k} \cup {NewEntry(k, v)}
<1> DEFINE rest == without(entries, {k})
           e == NewEntry(k, v)
<1>1. /\ rest \in Seq(Entry) /\ Tidy(rest)
      /\ ElementsOf(rest) = {entry \in ElementsOf(entries) : entry.key # k}
  <2>1. {entry \in ElementsOf(entries) : entry.key \notin {k}}
        = {entry \in ElementsOf(entries) : entry.key # k}
    OBVIOUS
  <2>2. /\ rest \in Seq(Entry) /\ Tidy(rest)
        /\ ElementsOf(rest) = {entry \in ElementsOf(entries) : entry.key \notin {k}}
    BY WithoutIs DEF IInv, Types
  <2> QED BY <2>1, <2>2
<1>2. e \in Entry /\ e.key = k /\ e.writtenAt = now
  BY TtlAssumption DEF NewEntry, Entry, IInv, Types
<1>3. \A entry \in ElementsOf(rest) : entry.key # k /\ entry.writtenAt <= now
  BY <1>1 DEF IInv, EntriesCurrent, Current
<1> HIDE DEF rest, e
<1>4. LET t == Append(rest, e)
      IN  /\ t \in Seq(Entry) /\ Len(t) = Len(rest) + 1 /\ Tidy(t) /\ t[Len(t)] = e
          /\ ElementsOf(t) = ElementsOf(rest) \cup {e}
  BY <1>1, <1>2, <1>3, AppendTidy
<1>5. Len(rest) \in Nat /\ Len(Append(rest, e)) \in Nat \ {0}
  BY <1>1, <1>4
<1>6. /\ e \in Entry /\ Append(rest, e) \in Seq(Entry) /\ Tidy(Append(rest, e))
      /\ Len(Append(rest, e)) \in Nat \ {0} /\ Append(rest, e)[Len(Append(rest, e))] = e
      /\ ElementsOf(Append(rest, e)) =
            {entry \in ElementsOf(entries) : entry.key # k} \cup {e}
  BY <1>1, <1>2, <1>4, <1>5
<1> QED BY <1>6 DEF rest, e

LEMMA SetIs ==
    ASSUME IInv, NEW k \in Keys, NEW v \in Answers
    PROVE  LET t == set(k, v)
           IN  /\ t \in Seq(Entry) /\ Tidy(t) /\ Len(t) <= MAX_ENTRIES
               /\ ElementsOf(t) \subseteq ElementsOf(entries) \cup {NewEntry(k, v)}
<1> DEFINE rest == without(entries, {k})
           added == Append(rest, NewEntry(k, v))
           kept == swept(added)
           t == set(k, v)
<1>1. /\ rest \in Seq(Entry) /\ Tidy(rest) /\ Len(rest) <= Len(entries)
      /\ ElementsOf(rest) \subseteq ElementsOf(entries)
  BY WithoutIs DEF IInv, Types
<1>2. /\ added \in Seq(Entry) /\ Tidy(added)
      /\ ElementsOf(added) \subseteq ElementsOf(entries) \cup {NewEntry(k, v)}
  BY AddedIs
<1>3. /\ kept \in Seq(Entry) /\ Tidy(kept) /\ ElementsOf(kept) \subseteq ElementsOf(added)
  BY <1>2, SweptIs
<1>4. Len(entries) \in Nat /\ Len(rest) \in Nat /\ Len(entries) <= MAX_ENTRIES /\ MAX_ENTRIES \in Nat
      /\ Len(kept) \in Nat
  BY <1>1, <1>3, SizeAssumption DEF IInv, Types
<1>5. /\ Ttl[v] = 0 => t = rest
      /\ Ttl[v] # 0 /\ ~(Len(added) > MAX_ENTRIES) => t = added
      /\ Ttl[v] # 0 /\ Len(added) > MAX_ENTRIES => t = evict(added)
  BY DEF set, NewEntry
<1>6. evict(added) = IF Len(kept) <= MAX_ENTRIES THEN kept
                     ELSE SubSeq(kept, Len(kept) - MAX_ENTRIES + 1, Len(kept))
  BY DEF evict
<1>7. Len(added) \in Nat
  BY <1>2
<1> HIDE DEF rest, added, kept, t
<1>8. ASSUME ~(Len(kept) <= MAX_ENTRIES)
      PROVE  LET u == SubSeq(kept, Len(kept) - MAX_ENTRIES + 1, Len(kept))
             IN  /\ u \in Seq(Entry) /\ Len(u) = MAX_ENTRIES /\ Tidy(u)
                 /\ ElementsOf(u) \subseteq ElementsOf(kept)
  <2> DEFINE u == SubSeq(kept, Len(kept) - MAX_ENTRIES + 1, Len(kept))
  <2>1. MAX_ENTRIES <= Len(kept)
    BY <1>4, <1>8
  <2>2. /\ u \in Seq(Entry) /\ Len(u) = MAX_ENTRIES /\ Tidy(u)
        /\ \A i \in 1 .. MAX_ENTRIES : u[i] = kept[Len(kept) - MAX_ENTRIES + i]
    BY <1>3, <1>4, <2>1, SuffixIs
  <2> HIDE DEF u
  <2>3. DOMAIN u = 1 .. MAX_ENTRIES /\ DOMAIN kept = 1 .. Len(kept)
    BY <1>3, <2>2
  <2>4. \A i \in 1 .. MAX_ENTRIES : Len(kept) - MAX_ENTRIES + i \in 1 .. Len(kept)
    BY <1>4, <2>1
  <2>5. ElementsOf(u) \subseteq ElementsOf(kept)
    BY <2>2, <2>3, <2>4 DEF ElementsOf
  <2> QED BY <2>2, <2>5 DEF u
<1>9. Ttl[v] # 0 /\ Len(added) > MAX_ENTRIES =>
         /\ t \in Seq(Entry) /\ Tidy(t) /\ Len(t) <= MAX_ENTRIES
         /\ ElementsOf(t) \subseteq ElementsOf(entries) \cup {NewEntry(k, v)}
  <2>1. CASE Len(kept) <= MAX_ENTRIES
    BY <1>2, <1>3, <1>5, <1>6, <2>1
  <2>2. CASE ~(Len(kept) <= MAX_ENTRIES)
    <3> DEFINE u == SubSeq(kept, Len(kept) - MAX_ENTRIES + 1, Len(kept))
    <3>1. Ttl[v] # 0 /\ Len(added) > MAX_ENTRIES => t = u
      BY <1>5, <1>6, <2>2
    <3>2. /\ u \in Seq(Entry) /\ Len(u) = MAX_ENTRIES /\ Tidy(u)
          /\ ElementsOf(u) \subseteq ElementsOf(kept)
      BY <1>8, <2>2
    <3> HIDE DEF u
    <3>3. Len(u) <= MAX_ENTRIES
      BY <1>4, <3>2
    <3> QED BY <1>2, <1>3, <3>1, <3>2, <3>3
  <2> QED BY <2>1, <2>2
<1>10. /\ t \in Seq(Entry) /\ Tidy(t) /\ Len(t) <= MAX_ENTRIES
       /\ ElementsOf(t) \subseteq ElementsOf(entries) \cup {NewEntry(k, v)}
  BY <1>1, <1>2, <1>4, <1>5, <1>7, <1>9
<1> QED BY <1>10 DEF t

\* Entries that were there, and new ones that are current, with what else stays.
LEMMA EntriesBecome ==
    ASSUME IInv, entries' \in Seq(Entry), Tidy(entries'), Len(entries') <= MAX_ENTRIES,
           \A entry \in ElementsOf(entries') : entry \in ElementsOf(entries) \/ Current(entry),
           served' = {}, UNCHANGED <<world, now, source, lastTrue>>
    PROVE  EntriesCurrent' /\ Fresh'
<1>1. \A entry : Current(entry)' <=> Current(entry)
  BY DEF Current
<1>2. EntriesCurrent'
  BY <1>1 DEF IInv, EntriesCurrent
<1> QED BY <1>2 DEF Fresh

\* What a lookup leaves.
LEMMA AfterReadIs ==
    ASSUME IInv, NEW k
    PROVE  LET t == afterRead(k)
           IN  /\ t \in Seq(Entry) /\ Tidy(t) /\ Len(t) <= MAX_ENTRIES
               /\ ElementsOf(t) \subseteq ElementsOf(entries)
<1>1. /\ entries \in Seq(Entry) /\ Tidy(entries) /\ Len(entries) <= MAX_ENTRIES
      /\ Len(entries) \in Nat /\ MAX_ENTRIES \in Nat
  BY SizeAssumption DEF IInv, Types
<1> DEFINE rest == without(entries, {k})
<1>2. /\ rest \in Seq(Entry) /\ Tidy(rest) /\ Len(rest) <= Len(entries)
      /\ ElementsOf(rest) \subseteq ElementsOf(entries)
  BY <1>1, WithoutIs
<1>3. afterRead(k) \in {entries, rest}
  BY DEF afterRead
<1>4. Len(rest) \in Nat
  BY <1>2
<1> HIDE DEF rest
<1>5. Len(rest) <= MAX_ENTRIES
  BY <1>1, <1>2, <1>4
<1> QED BY <1>1, <1>2, <1>3, <1>5

LEMMA HitIsCurrent ==
    ASSUME IInv, NEW k, hit(k)
    PROVE  LET entry == entryOf(entries, k)
           IN  entry \in Entry /\ entry.key = k /\ Current(entry) /\ entry.expiresAt > now
<1>1. \E i \in DOMAIN entries : entries[i].key = k
  BY DEF hit, keysOf
<1>2. PICK i \in DOMAIN entries : entries[i].key = k /\ entryOf(entries, k) = entries[i]
  BY <1>1 DEF entryOf
<1>3. entries[i] \in Entry /\ entries[i] \in ElementsOf(entries)
  BY DEF IInv, Types, ElementsOf
<1>4. entries[i].expiresAt > now
  BY <1>2 DEF hit, live
<1> QED BY <1>2, <1>3, <1>4 DEF IInv, EntriesCurrent

----------------------------------------------------------------------------
(* The steps. *)

LEMMA InitIInv == ASSUME Init PROVE IInv
<1>1. entries = <<>> /\ served = {} /\ \A c \in Callers : loads[c] = NoLoad
  BY DEF Init
<1>2. entries \in Seq(Entry) /\ Len(entries) <= MAX_ENTRIES /\ DOMAIN entries = {}
  BY <1>1, SizeAssumption
<1>3. Tidy(entries) /\ ElementsOf(entries) = {}
  BY <1>2 DEF Tidy, ElementsOf
<1>4. Types
  BY <1>1, <1>2, WorldsAssumption DEF Init, Types
<1> QED BY <1>1, <1>2, <1>3, <1>4 DEF IInv, Registered, LoadsInTime, EntriesCurrent, Fresh

LEMMA HitIInv == ASSUME IInv, NEW c \in Callers, NEW k \in Keys, wrapHit(c, k) PROVE IInv'
<1> DEFINE entry == entryOf(entries, k)
<1>1. /\ served' = {[key |-> k, value |-> entry.value]}
      /\ UNCHANGED <<world, now, entries, inFlight, loads, waitsFor, source, lastTrue>>
  BY DEF wrapHit
<1>2. entry \in Entry /\ entry.key = k /\ Current(entry) /\ entry.expiresAt > now
  BY HitIsCurrent DEF wrapHit
<1> HIDE DEF entry
<1>3. entry.value \in Answers /\ entry.writtenAt \in Nat
  BY <1>2 DEF Entry
<1>4. /\ Ttl[entry.value] \in Nat /\ lastTrue[k][entry.value] \in Nat /\ now \in Nat
      /\ MaxLoad \in Nat
  BY <1>3, TtlAssumption, MaxLoadAssumption DEF IInv, Types
<1>5. entry.value # source[k] => now - lastTrue[k][entry.value] < Ttl[entry.value] + MaxLoad
  BY <1>2, <1>3, <1>4 DEF Current
<1>6. Fresh'
  <2>1. SUFFICES ASSUME NEW answer \in served', answer.value # source[answer.key]
                 PROVE  /\ now - lastTrue[answer.key][answer.value] <= Ttl[answer.value] + MaxLoad
                        /\ now - lastTrue[answer.key][answer.value] < Ttl[answer.value] + MaxLoad
    BY <1>1 DEF Fresh
  <2>2. answer.key = k /\ answer.value = entry.value
    BY <1>1
  <2> QED BY <1>4, <1>5, <2>1, <2>2
<1>7. Types'
  BY <1>1, <1>3 DEF IInv, Types
<1>8. Registered' /\ LoadsInTime' /\ EntriesCurrent'
  BY <1>1 DEF IInv, Registered, LoadsInTime, LoadInTime, EntriesCurrent, Current
<1> QED BY <1>1, <1>6, <1>7, <1>8 DEF IInv

LEMMA CoalescedIInv ==
    ASSUME IInv, NEW c \in Callers, NEW k \in Keys, wrapCoalesced(c, k) PROVE IInv'
<1>1. /\ entries' = afterRead(k) /\ waitsFor' = [waitsFor EXCEPT ![c] = inFlight[k]] /\ served' = {}
      /\ UNCHANGED <<world, now, inFlight, loads, source, lastTrue>>
  BY DEF wrapCoalesced
<1>2. /\ entries' \in Seq(Entry) /\ Tidy(entries') /\ Len(entries') <= MAX_ENTRIES
      /\ ElementsOf(entries') \subseteq ElementsOf(entries)
  BY <1>1, AfterReadIs
<1>3. EntriesCurrent' /\ Fresh'
  BY <1>1, <1>2, EntriesBecome
<1>4. Types'
  BY <1>1, <1>2 DEF IInv, Types
<1>5. Registered' /\ LoadsInTime'
  BY <1>1 DEF IInv, Registered, LoadsInTime, LoadInTime
<1> QED BY <1>2, <1>3, <1>4, <1>5 DEF IInv

LEMMA MissIInv ==
    ASSUME IInv, NEW c \in Callers, NEW k \in Keys, wrapMiss(c, k) PROVE IInv'
<1>0. PICK load \in Load : load = [key |-> k, pc |-> "asking", value |-> Unknown, began |-> now]
  BY DEF Load, Answers, IInv, Types
<1>1. /\ inFlight[k] = NoLoad /\ loads[c] = NoLoad
      /\ entries' = afterRead(k) /\ loads' = [loads EXCEPT ![c] = load]
      /\ inFlight' = [inFlight EXCEPT ![k] = c] /\ waitsFor' = [waitsFor EXCEPT ![c] = c]
      /\ served' = {} /\ UNCHANGED <<world, now, source, lastTrue>>
  BY <1>0 DEF wrapMiss, Idle
<1>2. /\ entries' \in Seq(Entry) /\ Tidy(entries') /\ Len(entries') <= MAX_ENTRIES
      /\ ElementsOf(entries') \subseteq ElementsOf(entries)
  BY <1>1, AfterReadIs
<1>3. EntriesCurrent' /\ Fresh'
  BY <1>1, <1>2, EntriesBecome
<1>4. load \in Load /\ load # NoLoad /\ load.key = k /\ load.began = now /\ load.pc = "asking"
  BY <1>0, NoLoadAssumption
<1>5. loads'[c] = load /\ \A d \in Callers \ {c} : loads'[d] = loads[d]
  BY <1>1 DEF IInv, Types
<1>6. inFlight'[k] = c /\ \A q \in Keys \ {k} : inFlight'[q] = inFlight[q]
  BY <1>1 DEF IInv, Types
<1>7. Types'
  BY <1>1, <1>2, <1>4 DEF IInv, Types
<1>8. Registered'
  <2>1. SUFFICES ASSUME NEW d \in Callers, loads'[d] # NoLoad
                 PROVE  inFlight'[loads'[d].key] = d
    BY DEF Registered
  <2>2. CASE d = c
    BY <1>4, <1>5, <1>6, <2>2
  <2>3. CASE d # c
    <3>1. loads'[d] = loads[d] /\ loads[d].key \in Keys /\ inFlight[loads[d].key] = d
      BY <1>5, <2>1, <2>3 DEF IInv, Types, Registered, Load
    <3>2. loads[d].key # k
      BY <1>1, <3>1, NoLoadAssumption
    <3> QED BY <1>6, <3>1, <3>2
  <2> QED BY <2>2, <2>3
<1>9. LoadsInTime'
  <2>1. LoadInTime(load)'
    BY <1>1, <1>4, MaxLoadAssumption DEF LoadInTime, IInv, Types
  <2>2. \A d \in Callers \ {c} : loads[d] # NoLoad => LoadInTime(loads[d])
    BY DEF IInv, LoadsInTime
  <2>3. ASSUME NEW d \in Callers, loads'[d] # NoLoad PROVE LoadInTime(loads[d])'
    <3>1. CASE d = c
      BY <1>5, <2>1, <3>1 DEF LoadInTime
    <3>2. CASE d # c
      BY <1>1, <1>5, <2>2, <2>3, <3>2 DEF LoadInTime
    <3> QED BY <3>1, <3>2
  <2> QED BY <2>3 DEF LoadsInTime
<1> QED BY <1>2, <1>3, <1>7, <1>8, <1>9 DEF IInv

LEMMA CameToIs ==
    ASSUME NEW load \in Load, NEW pc \in {"asking", "answered", "resolved", "rejected"},
           NEW v \in Answers
    PROVE  LET l == cameTo(load, pc, v)
           IN  /\ l \in Load /\ l # NoLoad /\ l.key = load.key /\ l.pc = pc /\ l.value = v
               /\ l.began = load.began
BY NoLoadAssumption DEF cameTo, Load

\* Values that were true now, and everything else as it was.
LEMMA TruthsBecome ==
    ASSUME IInv, NEW k \in Keys, NEW v \in Answers, lastTrue' = [lastTrue EXCEPT ![k][v] = now]
    PROVE  /\ lastTrue' \in [Keys -> [Answers -> Nat]] /\ lastTrue'[k][v] = now
           /\ \A q \in Keys, w \in Answers : lastTrue'[q][w] \in {lastTrue[q][w], now}
BY DEF IInv, Types

\* A load that came further: where its answer was true no earlier than it began, all loads are in
\* time still.
LEMMA LoadGoesOn ==
    ASSUME IInv, NEW c \in Callers, loads[c] # NoLoad, NEW l \in Load, l # NoLoad,
           l.key = loads[c].key, l.began = loads[c].began,
           loads' = [loads EXCEPT ![c] = l],
           \A q \in Keys, w \in Answers : lastTrue'[q][w] \in {lastTrue[q][w], now},
           l.pc \in {"answered", "resolved"} => l.began <= lastTrue'[l.key][l.value],
           UNCHANGED <<now, inFlight>>
    PROVE  Registered' /\ LoadsInTime' /\ loads' \in [Callers -> Load \cup {NoLoad}]
<1>1. /\ loads'[c] = l /\ \A d \in Callers \ {c} : loads'[d] = loads[d]
      /\ loads' \in [Callers -> Load \cup {NoLoad}]
  BY DEF IInv, Types
<1>2. Registered'
  BY <1>1 DEF IInv, Registered
<1>3. LoadInTime(loads[c])
  BY DEF IInv, LoadsInTime
<1>4. LoadInTime(l)'
  BY <1>3 DEF LoadInTime
<1>5. ASSUME NEW d \in Callers \ {c}, loads[d] # NoLoad PROVE LoadInTime(loads[d])'
  <2>1. LoadInTime(loads[d]) /\ loads[d].key \in Keys /\ loads[d].value \in Answers
    BY <1>5 DEF IInv, LoadsInTime, Types, Load
  <2>2. lastTrue'[loads[d].key][loads[d].value] \in {lastTrue[loads[d].key][loads[d].value], now}
    BY <2>1
  <2> QED BY <1>1, <2>1, <2>2 DEF LoadInTime
<1>6. ASSUME NEW d \in Callers, loads'[d] # NoLoad PROVE LoadInTime(loads[d])'
  <2>1. CASE d = c
    BY <1>1, <1>4, <2>1 DEF LoadInTime
  <2>2. CASE d # c
    BY <1>1, <1>5, <1>6, <2>2
  <2> QED BY <2>1, <2>2
<1> QED BY <1>1, <1>2, <1>6 DEF LoadsInTime

LEMMA AnsweredIInv == ASSUME IInv, NEW c \in Callers, Answered(c) PROVE IInv'
<1> DEFINE k == loads[c].key
<1>1. /\ loads[c] \in Load /\ loads[c] # NoLoad /\ loads[c].pc = "asking" /\ k \in Keys
      /\ served' = {} /\ UNCHANGED <<world, now, entries, inFlight, waitsFor, source>>
  BY DEF Answered, At, IInv, Types, Load
<1>2. LoadInTime(loads[c])
  BY <1>1 DEF IInv, LoadsInTime
<1>3. /\ lastTrue' \in [Keys -> [Answers -> Nat]]
      /\ \A q \in Keys, w \in Answers : lastTrue'[q][w] \in {lastTrue[q][w], now}
      /\ Registered' /\ LoadsInTime' /\ loads' \in [Callers -> Load \cup {NoLoad}]
  <2>1. CASE \E v \in {source[k], Unknown} :
                /\ loads' = [loads EXCEPT ![c] = cameTo(@, "answered", v)]
                /\ lastTrue' = [lastTrue EXCEPT ![k][v] = now]
    <3>1. PICK v \in {source[k], Unknown} :
                /\ loads' = [loads EXCEPT ![c] = cameTo(@, "answered", v)]
                /\ lastTrue' = [lastTrue EXCEPT ![k][v] = now]
      BY <2>1
    <3>2. v \in Answers
      BY <1>1 DEF Answers, IInv, Types
    <3>3. PICK l \in Load : /\ l = cameTo(loads[c], "answered", v) /\ l # NoLoad
                            /\ l.key = k /\ l.value = v /\ l.began = loads[c].began
      <4> DEFINE came == cameTo(loads[c], "answered", v)
      <4>1. /\ came \in Load /\ came # NoLoad /\ came.key = k /\ came.value = v
            /\ came.began = loads[c].began
        BY <1>1, <3>2, NoLoadAssumption DEF cameTo, Load
      <4> HIDE DEF came
      <4> QED BY <4>1 DEF came
    <3>4. /\ lastTrue' \in [Keys -> [Answers -> Nat]] /\ lastTrue'[k][v] = now
          /\ \A q \in Keys, w \in Answers : lastTrue'[q][w] \in {lastTrue[q][w], now}
      BY <1>1, <3>1, <3>2, TruthsBecome
    <3>5. loads' = [loads EXCEPT ![c] = l]
      BY <3>1, <3>3
    <3>6. l.began <= lastTrue'[l.key][l.value]
      BY <1>2, <3>3, <3>4 DEF LoadInTime
    <3> QED BY <1>1, <3>3, <3>4, <3>5, <3>6, LoadGoesOn
  <2>2. CASE /\ loads' = [loads EXCEPT ![c] = cameTo(@, "rejected", Unknown)]
             /\ UNCHANGED lastTrue
    <3>1. PICK l \in Load : /\ l = cameTo(loads[c], "rejected", Unknown) /\ l # NoLoad
                            /\ l.key = k /\ l.began = loads[c].began /\ l.pc = "rejected"
      BY <1>1, CameToIs DEF Answers
    <3>2. loads' = [loads EXCEPT ![c] = l]
      BY <2>2, <3>1
    <3>3. lastTrue' \in [Keys -> [Answers -> Nat]]
      BY <2>2 DEF IInv, Types
    <3> QED BY <1>1, <2>2, <3>1, <3>2, <3>3, LoadGoesOn
  <2> QED BY <2>1, <2>2 DEF Answered
<1>4. Types'
  BY <1>1, <1>3 DEF IInv, Types
<1>5. EntriesCurrent'
  <2>1. SUFFICES ASSUME NEW entry \in ElementsOf(entries) PROVE Current(entry)'
    BY <1>1 DEF EntriesCurrent
  <2>2. Current(entry) /\ entry \in Entry
    BY DEF IInv, EntriesCurrent, Types, ElementsOf
  <2>3. /\ lastTrue'[entry.key][entry.value] \in {lastTrue[entry.key][entry.value], now}
        /\ entry.writtenAt \in Nat /\ now \in Nat
    BY <1>3, <2>2 DEF Entry, IInv, Types
  <2> QED BY <1>1, <2>2, <2>3, MaxLoadAssumption DEF Current
<1>6. Fresh'
  BY <1>1 DEF Fresh
<1> QED BY <1>1, <1>3, <1>4, <1>5, <1>6 DEF IInv

LEMMA ResolvedIInv == ASSUME IInv, NEW c \in Callers, resolved(c) PROVE IInv'
<1> DEFINE k == loads[c].key
           v == loads[c].value
<1>1. /\ loads[c] \in Load /\ loads[c] # NoLoad /\ loads[c].pc = "answered" /\ k \in Keys
      /\ v \in Answers /\ entries' = set(k, v)
      /\ loads' = [loads EXCEPT ![c] = cameTo(@, "resolved", v)]
      /\ served' = {} /\ UNCHANGED <<world, now, inFlight, waitsFor, source, lastTrue>>
  BY DEF resolved, At, IInv, Types, Load
<1>2. LoadInTime(loads[c])
  BY <1>1 DEF IInv, LoadsInTime
<1>3. PICK l \in Load : /\ l = cameTo(loads[c], "resolved", v) /\ l # NoLoad /\ l.key = k
                        /\ l.value = v /\ l.began = loads[c].began
  <2> DEFINE came == cameTo(loads[c], "resolved", v)
  <2>1. /\ came \in Load /\ came # NoLoad /\ came.key = k /\ came.value = v
        /\ came.began = loads[c].began
    BY <1>1, NoLoadAssumption DEF cameTo, Load
  <2> HIDE DEF came
  <2> QED BY <2>1 DEF came
<1>4. Registered' /\ LoadsInTime' /\ loads' \in [Callers -> Load \cup {NoLoad}]
  <2>1. loads' = [loads EXCEPT ![c] = l]
    BY <1>1, <1>3
  <2>2. l.began <= lastTrue'[l.key][l.value]
    BY <1>1, <1>2, <1>3 DEF LoadInTime
  <2>3. \A q \in Keys, w \in Answers : lastTrue'[q][w] \in {lastTrue[q][w], now}
    BY <1>1
  <2> QED BY <1>1, <1>3, <2>1, <2>2, <2>3, LoadGoesOn
<1>5. /\ entries' \in Seq(Entry) /\ Tidy(entries') /\ Len(entries') <= MAX_ENTRIES
      /\ ElementsOf(entries') \subseteq ElementsOf(entries) \cup {NewEntry(k, v)}
  BY <1>1, SetIs
<1>6. Current(NewEntry(k, v))
  <2>1. /\ now \in Nat /\ Ttl[v] \in Nat /\ MaxLoad \in Nat /\ loads[c].began \in Nat
        /\ lastTrue[k][v] \in Nat
    BY <1>1, TtlAssumption, MaxLoadAssumption DEF IInv, Types, Load
  <2>2. now <= lastTrue[k][v] + MaxLoad
    BY <1>1, <1>2, <2>1 DEF LoadInTime
  <2> QED BY <2>1, <2>2 DEF Current, NewEntry
<1>7. EntriesCurrent' /\ Fresh'
  <2>1. \A entry \in ElementsOf(entries') : entry \in ElementsOf(entries) \/ Current(entry)
    BY <1>5, <1>6
  <2> QED BY <1>1, <1>5, <2>1, EntriesBecome
<1>8. Types'
  BY <1>1, <1>4, <1>5 DEF IInv, Types
<1> QED BY <1>4, <1>5, <1>7, <1>8 DEF IInv

LEMMA FinallyIInv == ASSUME IInv, NEW c \in Callers, finally(c) PROVE IInv'
<1> DEFINE k == loads[c].key
           v == loads[c].value
<1>1. /\ loads[c] \in Load /\ loads[c] # NoLoad /\ loads[c].pc \in {"resolved", "rejected"}
      /\ k \in Keys /\ v \in Answers /\ inFlight' = [inFlight EXCEPT ![k] = NoLoad]
      /\ waitsFor' = [d \in Callers |-> IF waitsFor[d] = c THEN NoLoad ELSE waitsFor[d]]
      /\ served' = IF loads[c].pc = "rejected" THEN {} ELSE {[key |-> k, value |-> v]}
      /\ loads' = [loads EXCEPT ![c] = NoLoad]
      /\ UNCHANGED <<world, now, entries, source, lastTrue>>
  BY DEF finally, hear, At, IInv, Types, Load
<1>2. LoadInTime(loads[c]) /\ inFlight[k] = c
  BY <1>1 DEF IInv, LoadsInTime, Registered
<1>3. loads'[c] = NoLoad /\ \A d \in Callers \ {c} : loads'[d] = loads[d]
  BY <1>1 DEF IInv, Types
<1>4. Registered'
  <2>1. SUFFICES ASSUME NEW d \in Callers, loads'[d] # NoLoad
                 PROVE  inFlight'[loads'[d].key] = d
    BY DEF Registered
  <2>2. d # c /\ loads'[d] = loads[d] /\ inFlight[loads[d].key] = d
    BY <1>3, <2>1 DEF IInv, Registered
  <2>3. loads[d].key # k
    BY <1>2, <2>2
  <2> QED BY <1>1, <2>2, <2>3 DEF IInv, Types
<1>5. LoadsInTime' /\ EntriesCurrent'
  BY <1>1, <1>3 DEF IInv, LoadsInTime, LoadInTime, EntriesCurrent, Current
<1>6. Fresh'
  <2>1. SUFFICES ASSUME NEW answer \in served'
                 PROVE  /\ now - lastTrue[answer.key][answer.value] <= Ttl[answer.value] + MaxLoad
                        /\ Ttl[answer.value] > 0 =>
                              now - lastTrue[answer.key][answer.value] < Ttl[answer.value] + MaxLoad
    BY <1>1 DEF Fresh
  <2>2. answer.key = k /\ answer.value = v /\ loads[c].pc = "resolved"
    BY <1>1
  <2>3. /\ now \in Nat /\ Ttl[v] \in Nat /\ MaxLoad \in Nat /\ loads[c].began \in Nat
        /\ lastTrue[k][v] \in Nat
    BY <1>1, TtlAssumption, MaxLoadAssumption DEF IInv, Types, Load
  <2>4. now - lastTrue[k][v] <= MaxLoad
    BY <1>2, <2>2, <2>3 DEF LoadInTime
  <2> QED BY <2>2, <2>3, <2>4
<1>7. Types'
  <2>1. waitsFor' \in [Callers -> Callers \cup {NoLoad}]
    BY <1>1 DEF IInv, Types
  <2>2. inFlight' \in [Keys -> Callers \cup {NoLoad}] /\ loads' \in [Callers -> Load \cup {NoLoad}]
    BY <1>1 DEF IInv, Types
  <2>3. served' \subseteq [key: Keys, value: Answers]
    BY <1>1
  <2> QED BY <1>1, <2>1, <2>2, <2>3 DEF IInv, Types
<1> QED BY <1>1, <1>4, <1>5, <1>6, <1>7 DEF IInv

LEMMA SetOutrightIInv == ASSUME IInv, NEW k \in world.outsiders, setOutright(k) PROVE IInv'
<1>1. /\ entries' = set(k, source[k]) /\ served' = {}
      /\ UNCHANGED <<world, now, inFlight, loads, waitsFor, source, lastTrue>>
  BY DEF setOutright
<1>2. k \in Keys /\ source[k] \in Answers
  BY WorldsAssumption DEF IInv, Types, Answers
<1>3. /\ entries' \in Seq(Entry) /\ Tidy(entries') /\ Len(entries') <= MAX_ENTRIES
      /\ ElementsOf(entries') \subseteq ElementsOf(entries) \cup {NewEntry(k, source[k])}
  BY <1>1, <1>2, SetIs
<1>4. Current(NewEntry(k, source[k]))
  <2>1. now \in Nat
    BY DEF IInv, Types
  <2> QED BY <2>1 DEF Current, NewEntry
<1>5. EntriesCurrent' /\ Fresh'
  <2>1. \A entry \in ElementsOf(entries') : entry \in ElementsOf(entries) \/ Current(entry)
    BY <1>3, <1>4
  <2> QED BY <1>1, <1>3, <2>1, EntriesBecome
<1>6. Types'
  BY <1>1, <1>3 DEF IInv, Types
<1>7. Registered' /\ LoadsInTime'
  BY <1>1 DEF IInv, Registered, LoadsInTime, LoadInTime
<1> QED BY <1>3, <1>5, <1>6, <1>7 DEF IInv

\* Entries that are only taken away.
LEMMA FewerIInv ==
    ASSUME IInv, entries' \in Seq(Entry), Len(entries') <= Len(entries), Tidy(entries'),
           ElementsOf(entries') \subseteq ElementsOf(entries), served' = {},
           UNCHANGED <<world, now, inFlight, loads, waitsFor, source, lastTrue>>
    PROVE  IInv'
<1>1. Len(entries') <= MAX_ENTRIES
  <2>1. /\ Len(entries) \in Nat /\ Len(entries') \in Nat /\ MAX_ENTRIES \in Nat
        /\ Len(entries) <= MAX_ENTRIES
    BY SizeAssumption DEF IInv, Types
  <2> QED BY <2>1
<1>2. EntriesCurrent' /\ Fresh'
  BY <1>1, EntriesBecome
<1>3. Types'
  BY DEF IInv, Types
<1>4. Registered' /\ LoadsInTime'
  BY DEF IInv, Registered, LoadsInTime, LoadInTime
<1> QED BY <1>1, <1>2, <1>3, <1>4 DEF IInv

LEMMA DeleteIInv == ASSUME IInv, NEW K, deleteByPrefix(K) PROVE IInv'
<1>1. /\ entries' = without(entries, K) /\ served' = {}
      /\ UNCHANGED <<world, now, inFlight, loads, waitsFor, source, lastTrue>>
  BY DEF deleteByPrefix
<1>2. /\ entries' \in Seq(Entry) /\ Len(entries') <= Len(entries) /\ Tidy(entries')
      /\ ElementsOf(entries') \subseteq ElementsOf(entries)
  BY <1>1, WithoutIs DEF IInv, Types
<1> QED BY <1>1, <1>2, FewerIInv

LEMMA SweepIInv == ASSUME IInv, sweep PROVE IInv'
<1>1. /\ entries' = swept(entries) /\ served' = {}
      /\ UNCHANGED <<world, now, inFlight, loads, waitsFor, source, lastTrue>>
  BY DEF sweep
<1>2. /\ entries' \in Seq(Entry) /\ Len(entries') <= Len(entries) /\ Tidy(entries')
      /\ ElementsOf(entries') \subseteq ElementsOf(entries)
  BY <1>1, SweptIs DEF IInv, Types
<1> QED BY <1>1, <1>2, FewerIInv

LEMMA SourceIInv ==
    ASSUME IInv, NEW k \in Keys, NEW v \in Values, SourceChanges(k, v) PROVE IInv'
<1>1. /\ source' = [source EXCEPT ![k] = v]
      /\ lastTrue' = [lastTrue EXCEPT ![k][source[k]] = now] /\ served' = {}
      /\ UNCHANGED <<world, now, entries, inFlight, loads, waitsFor>>
  BY DEF SourceChanges
<1>2. source[k] \in Answers
  BY DEF Answers, IInv, Types
<1>3. /\ lastTrue' \in [Keys -> [Answers -> Nat]] /\ lastTrue'[k][source[k]] = now
      /\ \A q \in Keys, w \in Answers : lastTrue'[q][w] \in {lastTrue[q][w], now}
  BY <1>1, <1>2, TruthsBecome
<1>4. source' \in [Keys -> Values] /\ \A q \in Keys \ {k} : source'[q] = source[q]
  BY <1>1 DEF IInv, Types
<1>5. Types'
  BY <1>1, <1>3, <1>4 DEF IInv, Types
<1>6. Registered'
  BY <1>1 DEF IInv, Registered
<1>7. LoadsInTime'
  <2>1. ASSUME NEW d \in Callers, loads[d] # NoLoad PROVE LoadInTime(loads[d])'
    <3>1. LoadInTime(loads[d]) /\ loads[d].key \in Keys /\ loads[d].value \in Answers
      BY <2>1 DEF IInv, LoadsInTime, Types, Load
    <3>2. lastTrue'[loads[d].key][loads[d].value]
             \in {lastTrue[loads[d].key][loads[d].value], now}
      BY <1>3, <3>1
    <3> QED BY <1>1, <3>1, <3>2 DEF LoadInTime
  <2> QED BY <1>1, <2>1 DEF LoadsInTime
<1>8. EntriesCurrent'
  <2>1. SUFFICES ASSUME NEW entry \in ElementsOf(entries) PROVE Current(entry)'
    BY <1>1 DEF EntriesCurrent
  <2>2. /\ Current(entry) /\ entry.key \in Keys /\ entry.value \in Answers
        /\ entry.writtenAt \in Nat
    <3>1. Current(entry) /\ entry \in Entry
      BY DEF IInv, EntriesCurrent, Types, ElementsOf
    <3> QED BY <3>1 DEF Entry
  <2>3. /\ lastTrue'[entry.key][entry.value] \in {lastTrue[entry.key][entry.value], now}
        /\ entry.writtenAt \in Nat /\ now \in Nat /\ MaxLoad \in Nat
        /\ lastTrue[entry.key][entry.value] \in Nat
    BY <1>3, <2>2, MaxLoadAssumption DEF IInv, Types
  <2>4. \/ source'[entry.key] = entry.value
        \/ entry.writtenAt <= lastTrue'[entry.key][entry.value] + MaxLoad
    <3>1. CASE source[entry.key] = entry.value /\ entry.key = k
      <4>1. lastTrue'[entry.key][entry.value] = now
        BY <1>3, <3>1
      <4> QED BY <2>2, <2>3, <4>1 DEF Current
    <3>2. CASE source[entry.key] = entry.value /\ entry.key # k
      BY <1>4, <2>2, <3>2
    <3>3. CASE source[entry.key] # entry.value
      BY <2>2, <2>3, <3>3 DEF Current
    <3> QED BY <3>1, <3>2, <3>3
  <2> QED BY <1>1, <2>2, <2>4 DEF Current
<1>9. Fresh'
  BY <1>1 DEF Fresh
<1> QED BY <1>1, <1>5, <1>6, <1>7, <1>8, <1>9 DEF IInv

LEMMA TickIInv == ASSUME IInv, Tick PROVE IInv'
<1>1. /\ now < world.ticks /\ now' = now + 1 /\ served' = {}
      /\ \A c \in Callers : loads[c] # NoLoad => now - loads[c].began < MaxLoad
      /\ UNCHANGED <<world, entries, inFlight, loads, waitsFor, source, lastTrue>>
  BY DEF Tick
<1>2. now \in Nat /\ MaxLoad \in Nat /\ world.ticks \in Nat
  BY WorldsAssumption, MaxLoadAssumption DEF IInv, Types
<1>3. Types'
  BY <1>1, <1>2 DEF IInv, Types
<1>4. LoadsInTime'
  <2>1. ASSUME NEW d \in Callers, loads[d] # NoLoad PROVE LoadInTime(loads[d])'
    <3>1. LoadInTime(loads[d]) /\ loads[d].began \in Nat /\ now - loads[d].began < MaxLoad
      BY <1>1, <2>1 DEF IInv, LoadsInTime, Types, Load
    <3> QED BY <1>1, <1>2, <3>1 DEF LoadInTime
  <2> QED BY <1>1, <2>1 DEF LoadsInTime
<1>5. EntriesCurrent'
  <2>1. SUFFICES ASSUME NEW entry \in ElementsOf(entries) PROVE Current(entry)'
    BY <1>1 DEF EntriesCurrent
  <2>2. Current(entry) /\ entry.writtenAt \in Nat
    <3>1. Current(entry) /\ entry \in Entry
      BY DEF IInv, EntriesCurrent, Types, ElementsOf
    <3> QED BY <3>1 DEF Entry
  <2> QED BY <1>1, <1>2, <2>2 DEF Current
<1>6. Registered' /\ Fresh'
  BY <1>1 DEF IInv, Registered, Fresh
<1> QED BY <1>1, <1>3, <1>4, <1>5, <1>6 DEF IInv

LEMMA StutterIInv == ASSUME IInv, UNCHANGED vars PROVE IInv'
<1>1. UNCHANGED <<world, now, entries, inFlight, loads, waitsFor, served, source, lastTrue>>
  BY DEF vars
<1>2. Types' /\ Registered'
  BY <1>1 DEF IInv, Types, Registered
<1>3. LoadsInTime' /\ EntriesCurrent' /\ Fresh'
  BY <1>1 DEF IInv, LoadsInTime, LoadInTime, EntriesCurrent, Current, Fresh
<1> QED BY <1>1, <1>2, <1>3 DEF IInv

LEMMA NextIInv == ASSUME IInv, [Next]_vars PROVE IInv'
<1>1. CASE \E c \in world.callers, k \in world.keys :
              wrapHit(c, k) \/ wrapCoalesced(c, k) \/ wrapMiss(c, k)
  <2>1. world.callers \subseteq Callers /\ world.keys \subseteq Keys
    BY WorldsAssumption DEF IInv, Types
  <2> QED BY <1>1, <2>1, HitIInv, CoalescedIInv, MissIInv
<1>2. CASE \E c \in Callers : LoadStep(c)
  BY <1>2, AnsweredIInv, ResolvedIInv, FinallyIInv DEF LoadStep
<1>3. CASE \E k \in world.outsiders : setOutright(k)
  BY <1>3, SetOutrightIInv
<1>4. CASE \E K \in Prefixes : deleteByPrefix(K)
  BY <1>4, DeleteIInv
<1>5. CASE sweep
  BY <1>5, SweepIInv
<1>6. CASE \E k \in world.keys, v \in Values : SourceChanges(k, v)
  <2>1. world.keys \subseteq Keys
    BY WorldsAssumption DEF IInv, Types
  <2> QED BY <1>6, <2>1, SourceIInv
<1>7. CASE Tick
  BY <1>7, TickIInv
<1>8. CASE UNCHANGED vars
  BY <1>8, StutterIInv
<1> QED BY <1>1, <1>2, <1>3, <1>4, <1>5, <1>6, <1>7, <1>8 DEF Next

\* Every load that runs is the one registered for its key, every entry was true no longer
\* before it was written than a load takes, and entries are in the order they were written
\* (wrap, set, the sweep), in every state.
THEOREM Invariance == Spec => []IInv
<1>1. Init => IInv
  BY InitIInv
<1>2. IInv /\ [Next]_vars => IInv'
  BY NextIInv
<1> QED BY <1>1, <1>2, PTL DEF Spec

LEMMA InvariantGivesSound == IInv => Sound
<1> SUFFICES ASSUME IInv PROVE Sound
  OBVIOUS
<1>1. TypeOK
  <2>1. now \in 0 .. world.ticks
    BY WorldsAssumption DEF IInv, Types
  <2>2. \A i \in DOMAIN entries :
           /\ entries[i].key \in Keys /\ entries[i].value \in Answers
           /\ \A j \in DOMAIN entries : entries[j].key = entries[i].key => j = i
    <3>1. \A i \in DOMAIN entries : entries[i] \in Entry
      BY DEF IInv, Types
    <3> QED BY <3>1 DEF IInv, Tidy, Entry
  <2> QED BY <2>1, <2>2 DEF IInv, Types, TypeOK
<1>2. SingleFlight
  BY DEF IInv, Registered, SingleFlight
<1> QED BY <1>1, <1>2 DEF IInv, Sound

\* The cache stays within its limit with one entry a key, of each key one load is under way, and
\* nobody is answered with what stopped being so longer ago than its time to live and one load,
\* for any keys, values, times to live, callers and limit (InMemoryCacheService).
THEOREM SoundHolds == Spec => []Sound
BY Invariance, InvariantGivesSound, PTL

----------------------------------------------------------------------------
(* What goes first. *)

LEMMA LastSurvives ==
    ASSUME NEW s \in Seq(Entry), Len(s) > 0, live(s[Len(s)])
    PROVE  Len(swept(s)) > 0 /\ swept(s)[Len(swept(s))] = s[Len(s)]
<1> DEFINE I == {i \in DOMAIN s : live(s[i])}
           t == selected(s, I)
<1>1. Len(s) \in Nat /\ DOMAIN s = 1 .. Len(s) /\ Len(s) \in I
  OBVIOUS
<1>2. t = swept(s)
  BY DEF swept
<1>3. /\ Len(t) \in Nat /\ DOMAIN t = 1 .. Len(t)
      /\ \A n \in DOMAIN t : nth(I, n) \in I /\ t[n] = s[nth(I, n)]
      /\ \A m, n \in DOMAIN t : m < n => nth(I, m) < nth(I, n)
      /\ \A i \in I : \E n \in DOMAIN t : nth(I, n) = i
  <2>1. I \in SUBSET DOMAIN s
    OBVIOUS
  <2> HIDE DEF I
  <2> QED BY <2>1, SelectedIs
<1>4. \A i \in I : i \in Nat /\ i <= Len(s)
  BY <1>1
<1> HIDE DEF t, I
<1>5. PICK n \in DOMAIN t : nth(I, n) = Len(s)
  BY <1>1, <1>3
<1>6. n \in Nat /\ n >= 1 /\ n <= Len(t) /\ Len(t) \in DOMAIN t
  BY <1>3, <1>5
<1>7. n = Len(t)
  <2>1. SUFFICES ASSUME n < Len(t) PROVE FALSE
    BY <1>3, <1>6
  <2>2. Len(s) < nth(I, Len(t)) /\ nth(I, Len(t)) \in I
    BY <1>3, <1>5, <1>6, <2>1
  <2> QED BY <1>1, <1>4, <2>2
<1>8. t[Len(t)] = s[Len(s)] /\ Len(t) > 0
  BY <1>3, <1>5, <1>6, <1>7
<1> QED BY <1>2, <1>8

LEMMA RoomIsMadeRightly ==
    ASSUME IInv, NEW k \in Keys, setOutright(k), Ttl[source[k]] > 0
    PROVE  /\ k \in keysOf(entries')
           /\ \A i \in DOMAIN entries :
                 entries[i].key \notin keysOf(entries') \cup {k} /\ live(entries[i]) =>
                    \A j \in DOMAIN entries' :
                        /\ entries'[j].writtenAt >= entries[i].writtenAt
                        /\ entries'[j].expiresAt > now
<1> DEFINE v == source[k]
           e == NewEntry(k, v)
           added == Append(without(entries, {k}), e)
           kept == swept(added)
<1>1. v \in Answers /\ entries' = set(k, v) /\ Ttl[v] # 0
  BY TtlAssumption DEF setOutright, IInv, Types, Answers
<1>2. /\ e \in Entry /\ added \in Seq(Entry) /\ Tidy(added)
      /\ Len(added) \in Nat \ {0} /\ added[Len(added)] = e
      /\ ElementsOf(added) = {entry \in ElementsOf(entries) : entry.key # k} \cup {e}
  BY <1>1, AddedIs
<1>3. e.key = k /\ live(e)
  <2>1. now \in Nat /\ Ttl[v] \in Nat
    BY <1>1, TtlAssumption DEF IInv, Types
  <2> QED BY <2>1 DEF live, NewEntry
<1>4. /\ kept \in Seq(Entry) /\ Tidy(kept)
      /\ ElementsOf(kept) = {entry \in ElementsOf(added) : live(entry)}
  BY <1>2, SweptIs
<1>5. Len(kept) > 0 /\ kept[Len(kept)] = e
  <2>1. Len(added) > 0 /\ live(added[Len(added)])
    BY <1>2, <1>3
  <2> HIDE DEF added
  <2>2. Len(swept(added)) > 0 /\ swept(added)[Len(swept(added))] = added[Len(added)]
    BY <1>2, <2>1, LastSurvives
  <2> QED BY <1>2, <2>2
<1>6. entries' = IF ~(Len(added) > MAX_ENTRIES) THEN added
                 ELSE IF Len(kept) <= MAX_ENTRIES THEN kept
                 ELSE SubSeq(kept, Len(kept) - MAX_ENTRIES + 1, Len(kept))
  BY <1>1 DEF set, evict, NewEntry
<1>7. MAX_ENTRIES \in Nat \ {0} /\ Len(kept) \in Nat /\ DOMAIN kept = 1 .. Len(kept)
  BY <1>4, SizeAssumption
<1>8. \A i \in DOMAIN entries : entries[i].key # k => entries[i] \in ElementsOf(added)
  BY <1>2 DEF ElementsOf
<1>9. \A t : \A x \in ElementsOf(t) : x.key \in keysOf(t)
  BY DEF ElementsOf, keysOf
<1> HIDE DEF v, e, added, kept
<1>10. e \in ElementsOf(added) /\ e \in ElementsOf(kept)
  BY <1>2, <1>3, <1>4
<1>11. CASE ~(Len(added) > MAX_ENTRIES)
  <2>1. entries' = added
    BY <1>6, <1>11
  <2> QED BY <1>3, <1>8, <1>9, <1>10, <2>1
<1>12. CASE Len(added) > MAX_ENTRIES /\ Len(kept) <= MAX_ENTRIES
  <2>1. entries' = kept
    BY <1>6, <1>12
  <2>2. \A i \in DOMAIN entries :
           entries[i].key # k /\ live(entries[i]) => entries[i] \in ElementsOf(kept)
    BY <1>4, <1>8
  <2> QED BY <1>3, <1>9, <1>10, <2>1, <2>2
<1>13. CASE Len(added) > MAX_ENTRIES /\ ~(Len(kept) <= MAX_ENTRIES)
  <2> DEFINE last == SubSeq(kept, Len(kept) - MAX_ENTRIES + 1, Len(kept))
             before == Len(kept) - MAX_ENTRIES
  <2>1. entries' = last
    BY <1>6, <1>13
  <2>2. before \in Nat /\ before + MAX_ENTRIES = Len(kept) /\ MAX_ENTRIES <= Len(kept)
    BY <1>7, <1>13
  <2>3. /\ last \in Seq(Entry) /\ Len(last) = MAX_ENTRIES
        /\ \A i \in 1 .. MAX_ENTRIES : last[i] = kept[before + i]
    BY <1>4, <1>7, <2>2, SuffixIs
  <2>4. DOMAIN last = 1 .. MAX_ENTRIES
    BY <1>7, <2>3
  <2> HIDE DEF last, before
  <2>5. \A n \in 1 .. MAX_ENTRIES : before + n \in DOMAIN kept /\ last[n] \in ElementsOf(kept)
    BY <1>7, <2>2, <2>3 DEF ElementsOf
  <2>6. \A n \in DOMAIN kept : n > before => kept[n] \in ElementsOf(last)
    <3>1. SUFFICES ASSUME NEW n \in DOMAIN kept, n > before PROVE kept[n] \in ElementsOf(last)
      OBVIOUS
    <3>2. n - before \in 1 .. MAX_ENTRIES /\ before + (n - before) = n
      BY <1>7, <2>2, <3>1
    <3> QED BY <2>3, <2>4, <3>2 DEF ElementsOf
  <2>7. k \in keysOf(last)
    <3>1. Len(kept) \in DOMAIN kept /\ Len(kept) > before
      BY <1>5, <1>7, <2>2
    <3> QED BY <1>3, <1>5, <1>9, <2>6, <3>1
  <2>8. ASSUME NEW i \in DOMAIN entries, entries[i].key \notin keysOf(last) \cup {k},
               live(entries[i]), NEW j \in DOMAIN last
        PROVE  last[j].writtenAt >= entries[i].writtenAt /\ last[j].expiresAt > now
    <3>1. PICK n \in DOMAIN kept : kept[n] = entries[i]
      BY <1>4, <1>8, <2>8 DEF ElementsOf
    <3>2. ~(n > before)
      BY <1>9, <2>6, <2>8, <3>1
    <3>3. n < before + j /\ before + j \in DOMAIN kept /\ last[j] = kept[before + j]
      BY <1>7, <2>2, <2>3, <2>4, <2>5, <3>2
    <3>4. kept[n].writtenAt <= kept[before + j].writtenAt
      BY <1>4, <3>3 DEF Tidy
    <3>5. kept[n] \in Entry /\ last[j] \in Entry /\ live(last[j])
      BY <1>4, <2>3, <2>4, <2>5
    <3>6. kept[n].writtenAt \in Nat /\ last[j].writtenAt \in Nat
      BY <3>5 DEF Entry
    <3> QED BY <3>1, <3>3, <3>4, <3>5, <3>6 DEF live
  <2> QED BY <2>1, <2>7, <2>8
<1> QED BY <1>11, <1>12, <1>13

\* What making room takes out: nothing that is live while anything expired is left, nothing
\* younger than anything that stays, and never what the room was made for (set, evict).
THEOREM StalestGoesFirst == Spec => EvictsStalestFirst
<1>1. IInv => \A k \in Keys : MakesRoomFor(k)
  BY RoomIsMadeRightly DEF MakesRoomFor
<1>2. Spec => []IInv
  BY Invariance
<1> QED BY <1>1, <1>2, PTL DEF EvictsStalestFirst, Spec

----------------------------------------------------------------------------
(* The page of the inbox: what its state is. *)

Builds == {s.b : s \in Settings}
Got    == {Blank} \cup [ver : Nat, b : Builds]
Slots  == Calls \cup Workers

Slot ==
    [kind : Kinds \cup {"none", "warm"}, at : {"free", "sent", "asking", "seen", "answered", "failed"},
     here : BOOLEAN, u : Users, f : Settings, token : Nat, got : Got]

ServerTypes ==
    /\ story \in [presses : Nat, moves : Nat, opens : Nat, turns : Nat, kinds : SUBSET STRING,
                  broken : SUBSET Users, sweeps : BOOLEAN]
    /\ truth \in Nat /\ token \in [Users -> Nat] /\ IsFiniteSet(withdrawn)
    /\ age \in [Users -> 0 .. Unused] /\ stored \in [Users -> Settings]
    /\ snapshot \in [Users -> [Builds -> Got]]
    /\ call \in [Slots -> Slot]
    /\ warming \in [on : BOOLEAN, due : SUBSET [u : Users, f : Settings], since : BOOLEAN]

PageTypes ==
    /\ page \in [open : BOOLEAN, visible : BOOLEAN, due : BOOLEAN, app : BOOLEAN]
    /\ rows \in [ver : Nat \cup {-1}, b : Builds, f : Settings]
    /\ newest \in [Kinds -> Calls \cup {Nobody}]
    /\ edited \in Settings \cup {None} /\ agreed \in Settings \cup {None} /\ profile \in Settings \cup {None}

\* An app has read a profile, and a page is one of an app.
ProfileRead == (page.app => profile \in Settings) /\ (page.open => page.app)

\* What a slot holds: the page's are the reader's own, a save is at no step but its own, and an
\* answer with rows has them as built for what was asked.
SoundSlot(c, k) ==
    /\ k.at = "free" => k.kind = "none" /\ k.here
    /\ k.kind = "save" => k.at \in {"sent", "answered", "failed"}
    /\ c \in Calls => k.u = Me /\ k.kind # "warm"
    /\ c \in Workers => k.kind \in {"none", "warm"}
    /\ k.at = "seen" => k.got # Blank
    /\ k.got # Blank => k.got.b = k.f.b

SlotsSound == \A c \in Slots : SoundSlot(c, call[c])

\* A snapshot is filed under what it was built for, and the rows on the page are of such.
SnapshotsBuilt == \A u \in Users, k \in Builds : snapshot[u][k] # Blank => snapshot[u][k].b = k
RowsBuilt == rows.ver # -1 => rows.b = rows.f.b

\* A behaviour in which no save has met what the page cannot see past.
Clean ==
    /\ page.open
    /\ "lost" \notin past /\ "raced" \notin past /\ "revisit" \notin past /\ "reordered" \notin past
    /\ "overlap" \notin past \/ "failed" \notin past

IsSave(c) == c \in Calls /\ call[c].kind = "save"
NewestSave == newest["save"]

\* As long as nothing of the kind happened: saves are this visit's, only presses that overlap leave
\* older ones behind, one that failed is on record; the newest save, while it is under way, is what is
\* on screen, and is stored once it is answered; and what was last agreed to is stored for as long as
\* nothing is under way, or the only save has not arrived.
AsStored == Clean =>
    /\ \A c \in Calls : IsSave(c) => call[c].here /\ NewestSave # Nobody
    /\ \A c \in Calls : IsSave(c) => c = NewestSave \/ "overlap" \in past
    /\ \A c \in Calls : IsSave(c) /\ call[c].at = "failed" => "failed" \in past
    /\ IsSave(NewestSave) => edited = call[NewestSave].f
    /\ IsSave(NewestSave) /\ call[NewestSave].at = "answered" => stored[Me] = call[NewestSave].f
    /\ IsSave(NewestSave) /\ call[NewestSave].at # "answered" /\ "overlap" \notin past => stored[Me] = saved
    /\ ~IsSave(NewestSave) => edited = None /\ stored[Me] = saved

ServerSound == ServerTypes /\ SlotsSound /\ SnapshotsBuilt
PageSound   == PageTypes /\ ProfileRead /\ RowsBuilt
InboxInv    == ServerSound /\ PageSound /\ AsStored

\* No save is begun, answered or given up, and none is stored.
SavesStand ==
    /\ stored' = stored
    /\ \A c \in Calls : call'[c].kind = "save" <=> call[c].kind = "save"
    /\ \A c \in Calls : call[c].kind = "save" => call'[c] = call[c]

----------------------------------------------------------------------------
(* Slots and what is put into them. *)

LEMMA SettingsAre ==
    /\ Settings \subseteq [b : Nat, v : Nat] /\ Default \in Settings /\ None \notin Settings
    /\ \A s \in Settings : s.b \in Builds
    /\ 0 \in Builds /\ -1 \notin Builds /\ Builds \subseteq Nat
<1>1. Settings \subseteq [b : Nat, v : Nat] /\ Default \in Settings
  BY SettingsAssumption DEF Default
<1>2. None \notin [b : Nat, v : Nat]
  <2>1. \A s \in [b : Nat, v : Nat] : s.b \in Nat
    OBVIOUS
  <2>2. None.b = -1 /\ -1 \notin Nat
    BY DEF None
  <2> QED BY <2>1, <2>2
<1>3. Default.b = 0
  BY DEF Default
<1>4. \A s \in Settings : s.b \in Nat
  BY <1>1
<1> QED BY <1>1, <1>2, <1>3, <1>4 DEF Builds

LEMMA BlankIsGot == Blank \in Got /\ Blank.ver = -1 /\ \A g \in Got : g # Blank <=> g.ver # -1
<1>1. \A g \in [ver : Nat, b : Builds] : g.ver \in Nat
  OBVIOUS
<1>2. Blank.ver = -1
  BY DEF Blank
<1>3. \A n \in Nat : n # -1
  OBVIOUS
<1>4. \A g \in Got : g = Blank \/ g \in [ver : Nat, b : Builds]
  BY DEF Got
<1> QED BY <1>1, <1>2, <1>3, <1>4 DEF Got

\* The record of a request that was just asked for.
LEMMA AskedIs ==
    ASSUME NEW kind \in Kinds \cup {"warm"}, NEW u \in Users, NEW f \in Settings
    PROVE  /\ Asked(kind, u, f) \in Slot
           /\ Asked(kind, u, f).kind = kind /\ Asked(kind, u, f).at = "sent" /\ Asked(kind, u, f).here
           /\ Asked(kind, u, f).u = u /\ Asked(kind, u, f).f = f /\ Asked(kind, u, f).got = Blank
<1>1. Free \in Slot
  BY SettingsAre, BlankIsGot, PeopleAssumption DEF Free, Slot
<1>2. PICK a \in Slot : a = Asked(kind, u, f)
  BY <1>1 DEF Asked, Slot, Kinds
<1> QED BY <1>1, <1>2 DEF Asked, Free, Slot, Kinds

LEMMA FreeIs ==
    /\ Free \in Slot /\ Free.kind = "none" /\ Free.at = "free" /\ Free.here /\ Free.u = Me /\ Free.got = Blank
    /\ \A c \in Slots : SoundSlot(c, Free)
<1>1. Free \in Slot
  BY SettingsAre, BlankIsGot, PeopleAssumption DEF Free, Slot
<1>2. Free.kind = "none" /\ Free.at = "free" /\ Free.here /\ Free.u = Me /\ Free.got = Blank
  BY DEF Free
<1> QED BY <1>1, <1>2 DEF SoundSlot

LEMMA AskedSound ==
    ASSUME NEW c \in Calls, NEW kind \in Kinds, NEW f \in Settings
    PROVE  Asked(kind, Me, f) \in Slot /\ SoundSlot(c, Asked(kind, Me, f))
<1>1. c \notin Workers /\ Me \in Users
  BY CallsAssumption, PeopleAssumption
<1> QED BY <1>1, AskedIs DEF SoundSlot, Kinds

\* One slot is given another record, and the others are left alone.
LEMMA SlotChanges ==
    ASSUME ServerTypes, SlotsSound, NEW c \in Slots, NEW k \in Slot, SoundSlot(c, k),
           call' = [call EXCEPT ![c] = k]
    PROVE  /\ call' \in [Slots -> Slot] /\ SlotsSound' /\ call'[c] = k
           /\ \A d \in Slots : d # c => call'[d] = call[d]
<1>1. call \in [Slots -> Slot]
  BY DEF ServerTypes
<1>2. call' \in [Slots -> Slot] /\ call'[c] = k /\ \A d \in Slots : d # c => call'[d] = call[d]
  BY <1>1
<1>3. \A d \in Slots : SoundSlot(d, call'[d])
  BY <1>2 DEF SlotsSound
<1> QED BY <1>2, <1>3 DEF SlotsSound, SoundSlot

LEMMA SlotIs ==
    ASSUME ServerTypes, SlotsSound, NEW c \in Slots
    PROVE  call[c] \in Slot /\ SoundSlot(c, call[c])
BY DEF ServerTypes, SlotsSound

LEMMA BesidesSaves ==
    ASSUME ServerTypes, SlotsSound, NEW c \in Slots, NEW k \in Slot,
           call' = [call EXCEPT ![c] = k], k.kind # "save", call[c].kind # "save", stored' = stored
    PROVE  SavesStand
<1>1. call \in [Slots -> Slot] /\ Calls \subseteq Slots
  BY DEF ServerTypes, Slots
<1>2. call'[c] = k /\ \A d \in Slots : d # c => call'[d] = call[d]
  BY <1>1
<1> QED BY <1>1, <1>2 DEF SavesStand

LEMMA ReadIs ==
    ASSUME ServerSound, NEW u \in Users, NEW f \in Settings
    PROVE  read(u, f) \in Got /\ (read(u, f) # Blank => read(u, f).b = f.b)
BY SettingsAre DEF ServerSound, ServerTypes, SnapshotsBuilt, read, inboxFiltersKey

\* A call's record as it goes on: asking, seen, answered or failed, with what it has by then.
GoneOn(k, at, tok, got) == [k EXCEPT !.at = at, !.token = tok, !.got = got]

LEMMA GoesOn ==
    ASSUME ServerTypes, SlotsSound, NEW c \in Slots, call[c].at # "free",
           NEW at \in {"asking", "seen", "answered", "failed"},
           call[c].kind = "save" => at \in {"answered", "failed"},
           NEW got \in Got, got # Blank => got.b = call[c].f.b, at = "seen" => got # Blank, NEW tok \in Nat
    PROVE  /\ GoneOn(call[c], at, tok, got) \in Slot
           /\ SoundSlot(c, GoneOn(call[c], at, tok, got))
           /\ GoneOn(call[c], at, tok, got).kind = call[c].kind
<1>1. call[c] \in Slot /\ SoundSlot(c, call[c])
  BY SlotIs
<1>2. PICK k \in Slot : k = GoneOn(call[c], at, tok, got)
  BY <1>1 DEF Slot, GoneOn
<1>3. k.at = at /\ k.kind = call[c].kind /\ k.u = call[c].u /\ k.f = call[c].f /\ k.got = got
  BY <1>1, <1>2 DEF Slot, GoneOn
<1>4. SoundSlot(c, k)
  BY <1>1, <1>3 DEF SoundSlot
<1> QED BY <1>2, <1>3, <1>4

\* What answers, fails or asks leaves slots sound, and the saves alone unless it is one.
LEMMA RespondsKeeps ==
    ASSUME ServerTypes, SlotsSound, NEW c \in Slots, call[c].at # "free",
           NEW got \in Got, got # Blank => got.b = call[c].f.b, Responds(c, got)
    PROVE  /\ call' \in [Slots -> Slot] /\ SlotsSound'
           /\ call[c].kind # "save" /\ stored' = stored => SavesStand
           /\ c \in Calls => call'[c] = [call[c] EXCEPT !.at = "answered", !.got = got]
           /\ \A d \in Slots : d # c => call'[d] = call[d]
<1>1. call[c] \in Slot /\ SoundSlot(c, call[c])
  BY SlotIs
<1> DEFINE k == IF call[c].kind = "warm" THEN Free ELSE [call[c] EXCEPT !.at = "answered", !.got = got]
<1>2. [call[c] EXCEPT !.at = "answered", !.got = got] = GoneOn(call[c], "answered", call[c].token, got)
  BY <1>1 DEF Slot, GoneOn
<1>3. call[c].token \in Nat
  BY <1>1 DEF Slot
<1>4. k \in Slot /\ SoundSlot(c, k) /\ (call[c].kind # "save" => k.kind # "save")
  <2> DEFINE r == GoneOn(call[c], "answered", call[c].token, got)
  <2>1. r \in Slot /\ SoundSlot(c, r) /\ r.kind = call[c].kind
    BY <1>3, GoesOn
  <2>2. k = Free \/ k = r
    BY <1>2
  <2>3. Free \in Slot /\ SoundSlot(c, Free) /\ Free.kind # "save"
    BY FreeIs
  <2> QED BY <2>1, <2>2, <2>3
<1>5. call' = [call EXCEPT ![c] = k]
  BY DEF Responds, ServerTypes
<1>6. c \in Calls => k = [call[c] EXCEPT !.at = "answered", !.got = got]
  BY <1>1 DEF SoundSlot
<1> HIDE DEF k
<1>7. call[c].kind # "save" /\ stored' = stored => SavesStand
  BY <1>4, <1>5, BesidesSaves
<1> QED BY <1>4, <1>5, <1>6, <1>7, SlotChanges

LEMMA ThrowsKeeps ==
    ASSUME ServerTypes, SlotsSound, NEW c \in Slots, call[c].at # "free", Throws(c)
    PROVE  /\ call' \in [Slots -> Slot] /\ SlotsSound' /\ UNCHANGED warming
           /\ call[c].kind # "save" /\ stored' = stored => SavesStand
<1>1. call[c] \in Slot /\ SoundSlot(c, call[c])
  BY SlotIs
<1> DEFINE k == IF call[c].kind = "warm" THEN Free ELSE [call[c] EXCEPT !.at = "failed"]
<1>2. [call[c] EXCEPT !.at = "failed"] = GoneOn(call[c], "failed", call[c].token, call[c].got)
  BY <1>1 DEF Slot, GoneOn
<1>3. call[c].token \in Nat /\ call[c].got \in Got /\ (call[c].got # Blank => call[c].got.b = call[c].f.b)
  BY <1>1 DEF Slot, SoundSlot
<1>4. k \in Slot /\ SoundSlot(c, k) /\ (call[c].kind # "save" => k.kind # "save")
  <2> DEFINE r == GoneOn(call[c], "failed", call[c].token, call[c].got)
  <2>1. r \in Slot /\ SoundSlot(c, r) /\ r.kind = call[c].kind
    BY <1>3, GoesOn
  <2>2. k = Free \/ k = r
    BY <1>2
  <2>3. Free \in Slot /\ SoundSlot(c, Free) /\ Free.kind # "save"
    BY FreeIs
  <2> QED BY <2>1, <2>2, <2>3
<1>5. call' = [call EXCEPT ![c] = k] /\ UNCHANGED warming
  BY DEF Throws, ServerTypes
<1> HIDE DEF k
<1>6. call[c].kind # "save" /\ stored' = stored => SavesStand
  BY <1>4, <1>5, BesidesSaves
<1> QED BY <1>4, <1>5, <1>6, SlotChanges

----------------------------------------------------------------------------
(* The server's half: what is filed, and what is answered. *)

\* A step of the server's that leaves alone what is not of calls.
LEMMA OnlyCalls ==
    ASSUME ServerSound, call' \in [Slots -> Slot], SlotsSound', UNCHANGED <<story, serverVars>>
    PROVE  ServerSound'
BY DEF ServerSound, ServerTypes, SnapshotsBuilt, serverVars

LEMMA CallerIs ==
    ASSUME ServerSound, NEW c \in Slots
    PROVE  /\ ServerTypes /\ SlotsSound
           /\ call[c] \in Slot /\ SoundSlot(c, call[c]) /\ call[c].u \in Users /\ call[c].f \in Settings
           /\ call[c].token \in Nat /\ call[c].got \in Got
           /\ call[c].got # Blank => call[c].got.b = call[c].f.b
<1>1. ServerTypes /\ SlotsSound
  BY DEF ServerSound
<1>2. call[c] \in Slot /\ SoundSlot(c, call[c])
  BY <1>1, SlotIs
<1> QED BY <1>1, <1>2 DEF Slot, SoundSlot

LEMMA ReadsKeeps ==
    ASSUME ServerSound, NEW c \in Slots, Reads(c) PROVE ServerSound' /\ SavesStand
<1>1. call[c].at # "free" /\ call[c].kind # "save" /\ UNCHANGED <<story, serverVars>>
      /\ Responds(c, read(call[c].u, call[c].f))
  BY DEF Reads
<1>2. /\ read(call[c].u, call[c].f) \in Got
      /\ read(call[c].u, call[c].f) # Blank => read(call[c].u, call[c].f).b = call[c].f.b
  BY CallerIs, ReadIs
<1>3. stored' = stored
  BY <1>1 DEF serverVars
<1>4. call' \in [Slots -> Slot] /\ SlotsSound' /\ SavesStand
  BY <1>1, <1>2, <1>3, RespondsKeeps, CallerIs
<1> QED BY <1>1, <1>4, OnlyCalls

LEMMA GivesUpKeeps ==
    ASSUME ServerSound, NEW c \in Slots, call[c].at # "free", call[c].kind # "save", GivesUp(c), stored' = stored
    PROVE  call' \in [Slots -> Slot] /\ SlotsSound' /\ SavesStand
<1>1. Responds(c, read(call[c].u, call[c].f))
  BY DEF GivesUp
<1>2. /\ read(call[c].u, call[c].f) \in Got
      /\ read(call[c].u, call[c].f) # Blank => read(call[c].u, call[c].f).b = call[c].f.b
  BY CallerIs, ReadIs
<1> QED BY <1>1, <1>2, RespondsKeeps, CallerIs

\* A call that goes on to ask, or has been answered by GitHub.
LEMMA GoesOnKeeps ==
    ASSUME ServerSound, NEW c \in Slots, call[c].at # "free", call[c].kind # "save", stored' = stored,
           NEW at \in {"asking", "seen"}, NEW tok \in Nat,
           NEW got \in Got, got # Blank => got.b = call[c].f.b, at = "seen" => got # Blank,
           call' = [call EXCEPT ![c] = GoneOn(call[c], at, tok, got)]
    PROVE  call' \in [Slots -> Slot] /\ SlotsSound' /\ SavesStand
<1> DEFINE k == GoneOn(call[c], at, tok, got)
<1>3. ServerTypes /\ SlotsSound
  BY CallerIs
<1>1. k \in Slot /\ SoundSlot(c, k) /\ k.kind # "save"
  <2>1. at \in {"asking", "seen", "answered", "failed"} /\ (call[c].kind = "save" => at \in {"answered", "failed"})
    OBVIOUS
  <2>2. k \in Slot /\ SoundSlot(c, k) /\ k.kind = call[c].kind
    BY <1>3, <2>1, GoesOn
  <2> QED BY <2>2
<1>2. call' = [call EXCEPT ![c] = k]
  OBVIOUS
<1> HIDE DEF k
<1>4. call' \in [Slots -> Slot] /\ SlotsSound'
  BY <1>1, <1>2, <1>3, SlotChanges
<1>5. SavesStand
  BY <1>1, <1>2, <1>3, BesidesSaves
<1> QED BY <1>4, <1>5

LEMMA BeginsKeeps ==
    ASSUME ServerSound, NEW c \in Slots, Begins(c) PROVE ServerSound' /\ SavesStand
<1>1. call[c].at # "free" /\ call[c].kind # "save" /\ recordUse(c)
      /\ UNCHANGED <<story, truth, token, withdrawn, stored, snapshot, warming>>
  BY DEF Begins
<1>2. call' \in [Slots -> Slot] /\ SlotsSound' /\ SavesStand
  <2>1. CASE GivesUp(c)
    BY <1>1, <2>1, GivesUpKeeps
  <2>2. CASE call' = [call EXCEPT ![c] = [@ EXCEPT !.at = "asking", !.token = token[call[c].u]]]
    <3>1. token[call[c].u] \in Nat
      BY CallerIs DEF ServerTypes
    <3>2. call[c] \in Slot /\ call \in [Slots -> Slot]
      BY CallerIs DEF ServerTypes
    <3>3. [call[c] EXCEPT !.at = "asking", !.token = token[call[c].u]]
          = GoneOn(call[c], "asking", token[call[c].u], call[c].got)
      BY <3>2 DEF Slot, GoneOn
    <3>4. call' = [call EXCEPT ![c] = GoneOn(call[c], "asking", token[call[c].u], call[c].got)]
      BY <2>2, <3>2, <3>3
    <3> QED BY <1>1, <3>1, <3>4, GoesOnKeeps, CallerIs
  <2> QED BY <2>1, <2>2 DEF Begins
<1>3. age' \in [Users -> 0 .. Unused]
  BY <1>1, CallerIs DEF recordUse, ServerTypes, Unused
<1> QED BY <1>1, <1>2, <1>3 DEF ServerSound, ServerTypes, SnapshotsBuilt

LEMMA GithubAnswersKeeps ==
    ASSUME ServerSound, NEW c \in Slots, GithubAnswers(c) PROVE ServerSound' /\ SavesStand
<1>1. call[c].at = "asking" /\ UNCHANGED <<story, serverVars>>
      /\ call' = [call EXCEPT ![c] = [@ EXCEPT !.at = "seen", !.got = [ver |-> truth, b |-> call[c].f.b]]]
  BY DEF GithubAnswers
<1>2. call[c] \in Slot /\ call \in [Slots -> Slot] /\ call[c].kind # "save"
  BY <1>1, CallerIs DEF ServerTypes, SoundSlot
<1>3. [ver |-> truth, b |-> call[c].f.b] \in Got /\ [ver |-> truth, b |-> call[c].f.b] # Blank
  <2>1. truth \in Nat /\ call[c].f.b \in Builds
    BY CallerIs, SettingsAre DEF ServerTypes
  <2>2. [ver |-> truth, b |-> call[c].f.b] \in Got
    BY <2>1 DEF Got
  <2> QED BY <2>1, <2>2, BlankIsGot
<1>4. [call[c] EXCEPT !.at = "seen", !.got = [ver |-> truth, b |-> call[c].f.b]]
      = GoneOn(call[c], "seen", call[c].token, [ver |-> truth, b |-> call[c].f.b])
  BY <1>2 DEF Slot, GoneOn
<1>5. call' = [call EXCEPT ![c] = GoneOn(call[c], "seen", call[c].token, [ver |-> truth, b |-> call[c].f.b])]
  BY <1>1, <1>2, <1>4
<1>6. stored' = stored /\ call[c].at # "free"
  BY <1>1 DEF serverVars
<1>7. call' \in [Slots -> Slot] /\ SlotsSound' /\ SavesStand
  BY <1>2, <1>3, <1>5, <1>6, GoesOnKeeps, CallerIs
<1> QED BY <1>1, <1>7, OnlyCalls

LEMMA GithubRefusesKeeps ==
    ASSUME ServerSound, NEW c \in Slots, GithubRefuses(c) PROVE ServerSound' /\ SavesStand
<1>1. call[c].at = "asking" /\ GivesUp(c) /\ token' = [token EXCEPT ![call[c].u] = 0]
      /\ UNCHANGED <<story, truth, withdrawn, age, stored, snapshot, warming>>
  BY DEF GithubRefuses
<1>2. call[c].kind # "save" /\ call[c].at # "free"
  BY <1>1, CallerIs DEF SoundSlot
<1>3. call' \in [Slots -> Slot] /\ SlotsSound' /\ SavesStand
  BY <1>1, <1>2, GivesUpKeeps
<1>4. token' \in [Users -> Nat]
  BY <1>1, CallerIs DEF ServerTypes
<1> QED BY <1>1, <1>3, <1>4 DEF ServerSound, ServerTypes, SnapshotsBuilt

LEMMA TurnIs ==
    ASSUME ServerTypes, NEW kind, Turn(kind)
    PROVE  story' \in [presses : Nat, moves : Nat, opens : Nat, turns : Nat, kinds : SUBSET STRING,
                       broken : SUBSET Users, sweeps : BOOLEAN]
BY DEF ServerTypes, Turn

LEMMA GithubIsUnavailableKeeps ==
    ASSUME ServerSound, NEW c \in Slots, GithubIsUnavailable(c) PROVE ServerSound' /\ SavesStand
<1>1. call[c].at = "asking" /\ GivesUp(c) /\ Turn("unavailable") /\ UNCHANGED serverVars
  BY DEF GithubIsUnavailable
<1>2. call[c].kind # "save" /\ call[c].at # "free" /\ stored' = stored
  BY <1>1, CallerIs DEF SoundSlot, serverVars
<1>3. call' \in [Slots -> Slot] /\ SlotsSound' /\ SavesStand
  BY <1>1, <1>2, GivesUpKeeps
<1>4. story' \in [presses : Nat, moves : Nat, opens : Nat, turns : Nat, kinds : SUBSET STRING,
                  broken : SUBSET Users, sweeps : BOOLEAN]
  BY <1>1, CallerIs, TurnIs
<1> QED BY <1>1, <1>3, <1>4 DEF ServerSound, ServerTypes, SnapshotsBuilt, serverVars

LEMMA BreaksKeeps ==
    ASSUME ServerSound, NEW c \in Slots, Breaks(c) PROVE ServerSound' /\ SavesStand
<1>1. call[c].at = "asking" /\ Throws(c) /\ (UNCHANGED story \/ Turn("throws"))
      /\ UNCHANGED <<truth, token, withdrawn, age, stored, snapshot>>
  BY DEF Breaks
<1>2. call[c].kind # "save" /\ call[c].at # "free"
  BY <1>1, CallerIs DEF SoundSlot
<1>3. call' \in [Slots -> Slot] /\ SlotsSound' /\ SavesStand /\ UNCHANGED warming
  BY <1>1, <1>2, ThrowsKeeps, CallerIs
<1>4. story' \in [presses : Nat, moves : Nat, opens : Nat, turns : Nat, kinds : SUBSET STRING,
                  broken : SUBSET Users, sweeps : BOOLEAN]
  BY <1>1, CallerIs, TurnIs DEF ServerTypes
<1> QED BY <1>1, <1>3, <1>4 DEF ServerSound, ServerTypes, SnapshotsBuilt

LEMMA FilesKeeps ==
    ASSUME ServerSound, NEW c \in Slots, Files(c) PROVE ServerSound' /\ SavesStand
<1>1. call[c].at = "seen" /\ write(call[c].u, call[c].f.b, call[c].got.ver) /\ Responds(c, call[c].got)
      /\ UNCHANGED <<story, truth, token, withdrawn, age, stored, warming>>
  BY DEF Files
<1>2. call[c].kind # "save" /\ call[c].at # "free"
  BY <1>1, CallerIs DEF SoundSlot
<1>3. call' \in [Slots -> Slot] /\ SlotsSound' /\ SavesStand
  BY <1>1, <1>2, RespondsKeeps, CallerIs
<1>4. snapshot' \in [Users -> [Builds -> Got]] /\ SnapshotsBuilt'
  <2> DEFINE u == call[c].u
             b == call[c].f.b
             ver == call[c].got.ver
  <2>1. u \in Users /\ b \in Builds /\ snapshot \in [Users -> [Builds -> Got]]
    BY CallerIs, SettingsAre DEF ServerTypes
  <2>2. PICK s \in [Builds -> Got] : s = [snapshot[u] EXCEPT ![b] = [ver |-> ver, b |-> b]]
    <3>1. [ver |-> ver, b |-> b] \in Got
      <4>1. call[c].got \in Got /\ call[c].got # Blank
        BY <1>1, CallerIs DEF SoundSlot
      <4>2. ver \in Nat
        BY <4>1 DEF Got
      <4> QED BY <2>1, <4>2 DEF Got
    <3> QED BY <2>1, <3>1
  <2>3. snapshot' = [snapshot EXCEPT ![u] = s]
    BY <1>1, <2>1, <2>2 DEF write, inboxFiltersKey
  <2>4. s[b].b = b /\ \A k \in Builds : k # b => s[k] = snapshot[u][k]
    BY <2>1, <2>2
  <2> HIDE DEF u, b, ver
  <2>5. snapshot' \in [Users -> [Builds -> Got]]
    BY <2>1, <2>3
  <2>6. \A w \in Users, k \in Builds : snapshot'[w][k] = IF w = u THEN s[k] ELSE snapshot[w][k]
    BY <2>1, <2>3
  <2>7. \A w \in Users, k \in Builds : snapshot'[w][k] # Blank => snapshot'[w][k].b = k
    BY <2>1, <2>4, <2>6 DEF ServerSound, SnapshotsBuilt
  <2> QED BY <2>5, <2>7 DEF SnapshotsBuilt
<1> QED BY <1>1, <1>3, <1>4 DEF ServerSound, ServerTypes

LEMMA UpdatesKeeps ==
    ASSUME ServerSound, NEW c \in Slots, Updates(c)
    PROVE  /\ ServerSound' /\ IsSave(c) /\ call[c].at = "sent" /\ stored'[Me] = call[c].f
           /\ call'[c].kind = "save" /\ call'[c].at = "answered"
           /\ call'[c].f = call[c].f /\ call'[c].here = call[c].here
           /\ \A d \in Slots : d # c => call'[d] = call[d]
<1>1. call[c].at = "sent" /\ call[c].kind = "save" /\ Responds(c, Blank)
      /\ stored' = [stored EXCEPT ![call[c].u] = call[c].f]
      /\ UNCHANGED <<story, truth, token, withdrawn, age, snapshot, warming>>
  BY DEF Updates
<1>2. c \in Calls /\ call[c].u = Me /\ call[c] \in Slot
  BY <1>1, CallerIs DEF SoundSlot, Slots
<1>3. call' \in [Slots -> Slot] /\ SlotsSound' /\ call'[c] = [call[c] EXCEPT !.at = "answered", !.got = Blank]
      /\ \A d \in Slots : d # c => call'[d] = call[d]
  BY <1>1, <1>2, BlankIsGot, RespondsKeeps, CallerIs
<1>4. stored' \in [Users -> Settings] /\ stored'[Me] = call[c].f
  BY <1>1, <1>2, CallerIs, PeopleAssumption DEF ServerTypes
<1>5. call'[c].kind = "save" /\ call'[c].at = "answered" /\ call'[c].f = call[c].f /\ call'[c].here = call[c].here
  BY <1>1, <1>2, <1>3 DEF Slot
<1>6. ServerSound'
  BY <1>1, <1>3, <1>4 DEF ServerSound, ServerTypes, SnapshotsBuilt
<1> QED BY <1>1, <1>2, <1>3, <1>4, <1>5, <1>6 DEF IsSave

LEMMA ServesKeeps ==
    ASSUME ServerSound, NEW c \in Slots, Serves(c) \/ GithubIsUnavailable(c)
    PROVE  ServerSound' /\ (SavesStand \/ Updates(c))
BY ReadsKeeps, UpdatesKeeps, BeginsKeeps, GithubAnswersKeeps, GithubRefusesKeeps, BreaksKeeps, FilesKeeps,
   GithubIsUnavailableKeeps DEF Serves

\* Nobody's save is touched by a step that leaves the page's slots alone.
LEMMA CallsStand ==
    ASSUME stored' = stored, \A c \in Calls : call'[c] = call[c] PROVE SavesStand
BY DEF SavesStand

LEMMA SweepsKeeps == ASSUME ServerSound, Sweeps PROVE ServerSound' /\ SavesStand
<1>1. UNCHANGED <<story, truth, token, withdrawn, age, stored, snapshot, call>>
      /\ warming' = [warming EXCEPT !.on = TRUE, !.due = readInboxWarmTargets]
  BY DEF Sweeps
<1>2. readInboxWarmTargets \subseteq [u : Users, f : Settings]
  BY DEF readInboxWarmTargets, ServerSound, ServerTypes
<1>3. warming' \in [on : BOOLEAN, due : SUBSET [u : Users, f : Settings], since : BOOLEAN]
  BY <1>1, <1>2 DEF ServerSound, ServerTypes
<1> QED BY <1>1, <1>3, CallsStand DEF ServerSound, ServerTypes, SlotsSound, SnapshotsBuilt

LEMMA TakesKeeps == ASSUME ServerSound, NEW w \in Workers, Takes(w) PROVE ServerSound' /\ SavesStand
<1>1. PICK d \in warming.due : /\ warming' = [warming EXCEPT !.due = @ \ {d}]
                               /\ call' = [call EXCEPT ![w] = Asked("warm", d.u, d.f)]
  BY DEF Takes
<1>2. UNCHANGED <<story, truth, token, withdrawn, age, stored, snapshot>>
  BY DEF Takes
<1>3. w \in Slots /\ w \notin Calls
  BY CallsAssumption DEF Slots
<1>4. d.u \in Users /\ d.f \in Settings
  BY DEF ServerSound, ServerTypes
<1>5. Asked("warm", d.u, d.f) \in Slot /\ SoundSlot(w, Asked("warm", d.u, d.f))
  BY <1>3, <1>4, AskedIs DEF SoundSlot
<1>6. call' \in [Slots -> Slot] /\ SlotsSound' /\ \A e \in Slots : e # w => call'[e] = call[e]
  BY <1>1, <1>3, <1>5, SlotChanges, CallerIs
<1>7. \A c \in Calls : call'[c] = call[c]
  BY <1>3, <1>6 DEF Slots
<1>8. warming' \in [on : BOOLEAN, due : SUBSET [u : Users, f : Settings], since : BOOLEAN]
  BY <1>1 DEF ServerSound, ServerTypes
<1>9. SavesStand
  BY <1>2, <1>7, CallsStand
<1> QED BY <1>2, <1>6, <1>8, <1>9 DEF ServerSound, ServerTypes, SnapshotsBuilt

LEMMA SweepEndsKeeps == ASSUME ServerSound, SweepEnds PROVE ServerSound' /\ SavesStand
<1>1. UNCHANGED <<story, truth, token, withdrawn, age, stored, snapshot, call>>
      /\ warming' \in [on : BOOLEAN, due : SUBSET [u : Users, f : Settings], since : BOOLEAN]
  BY DEF SweepEnds
<1> QED BY <1>1, CallsStand DEF ServerSound, ServerTypes, SlotsSound, SnapshotsBuilt

LEMMA DayPassesKeeps == ASSUME ServerSound, DayPasses PROVE ServerSound' /\ SavesStand
<1>1. UNCHANGED <<story, truth, token, withdrawn, stored, snapshot, call>>
      /\ warming' = [warming EXCEPT !.since = FALSE]
      /\ age' = [u \in Users |-> IF age[u] < Unused THEN age[u] + 1 ELSE Unused]
  BY DEF DayPasses
<1>2. age' \in [Users -> 0 .. Unused]
  BY <1>1 DEF ServerSound, ServerTypes, Unused
<1>3. warming' \in [on : BOOLEAN, due : SUBSET [u : Users, f : Settings], since : BOOLEAN]
  BY <1>1 DEF ServerSound, ServerTypes
<1> QED BY <1>1, <1>2, <1>3, CallsStand DEF ServerSound, ServerTypes, SlotsSound, SnapshotsBuilt

LEMMA ExpiresKeeps == ASSUME ServerSound, Expires PROVE ServerSound' /\ SavesStand
<1>1. PICK u \in Users, k \in Builds :
         Turn("expiry") /\ snapshot' = [snapshot EXCEPT ![u] = [@ EXCEPT ![k] = Blank]]
  BY DEF Expires, Builds
<1>2. UNCHANGED <<truth, token, withdrawn, age, stored, call, warming>>
  BY DEF Expires
<1>3. snapshot \in [Users -> [Builds -> Got]]
  BY DEF ServerSound, ServerTypes
<1>4. PICK s \in [Builds -> Got] : s = [snapshot[u] EXCEPT ![k] = Blank]
  BY <1>3, BlankIsGot
<1>5. snapshot' = [snapshot EXCEPT ![u] = s]
  BY <1>1, <1>3, <1>4
<1>6. snapshot' \in [Users -> [Builds -> Got]]
  BY <1>3, <1>5
<1>7. \A w \in Users, j \in Builds : snapshot'[w][j] = snapshot[w][j] \/ snapshot'[w][j] = Blank
  BY <1>3, <1>4, <1>5
<1>8. SnapshotsBuilt'
  BY <1>7 DEF ServerSound, SnapshotsBuilt
<1>9. story' \in [presses : Nat, moves : Nat, opens : Nat, turns : Nat, kinds : SUBSET STRING,
                  broken : SUBSET Users, sweeps : BOOLEAN]
  BY <1>1, TurnIs DEF ServerSound
<1> QED BY <1>2, <1>6, <1>8, <1>9, CallsStand DEF ServerSound, ServerTypes, SlotsSound

LEMMA RestartsKeeps == ASSUME ServerSound, Restarts PROVE ServerSound' /\ SavesStand
<1>1. UNCHANGED <<truth, token, withdrawn, age, stored>> /\ Turn("restart")
      /\ snapshot' = [u \in Users |-> [k \in Builds |-> Blank]]
      /\ warming' = [on |-> FALSE, due |-> {}, since |-> FALSE]
      /\ call' = [c \in Slots |->
                    IF c \in Workers THEN Free
                    ELSE IF call[c].at \in {"asking", "seen"} THEN [call[c] EXCEPT !.at = "failed"]
                    ELSE call[c]]
  BY DEF Restarts, Builds, Slots
<1>2. ASSUME NEW c \in Slots
      PROVE  call'[c] \in Slot /\ SoundSlot(c, call'[c])
  <2>1. call[c] \in Slot /\ SoundSlot(c, call[c])
    BY CallerIs
  <2> DEFINE k == [call[c] EXCEPT !.at = "failed"]
  <2>2. k \in Slot /\ (call[c].at # "free" => SoundSlot(c, k))
    BY <2>1 DEF Slot, SoundSlot
  <2>3. call'[c] = Free \/ (call[c].at # "free" /\ call'[c] = k) \/ call'[c] = call[c]
    BY <1>1
  <2> QED BY <2>1, <2>2, <2>3, FreeIs
<1>3. call' \in [Slots -> Slot] /\ SlotsSound'
  BY <1>1, <1>2 DEF SlotsSound, SoundSlot
<1>4. ASSUME NEW c \in Calls
      PROVE  (call'[c].kind = "save" <=> call[c].kind = "save") /\ (call[c].kind = "save" => call'[c] = call[c])
  <2>1. c \in Slots /\ c \notin Workers /\ call[c] \in Slot
    BY CallsAssumption, CallerIs DEF Slots
  <2>2. [call[c] EXCEPT !.at = "failed"].kind = call[c].kind
    BY <2>1 DEF Slot
  <2>3. call[c].at \in {"asking", "seen"} => call[c].kind # "save"
    BY <2>1, CallerIs DEF SoundSlot
  <2> QED BY <1>1, <2>1, <2>2, <2>3
<1>5. SavesStand
  BY <1>1, <1>4 DEF SavesStand
<1>6. snapshot' \in [Users -> [Builds -> Got]] /\ SnapshotsBuilt'
  BY <1>1, BlankIsGot DEF SnapshotsBuilt
<1>7. story' \in [presses : Nat, moves : Nat, opens : Nat, turns : Nat, kinds : SUBSET STRING,
                  broken : SUBSET Users, sweeps : BOOLEAN]
  BY <1>1, TurnIs DEF ServerSound
<1> QED BY <1>1, <1>3, <1>5, <1>6, <1>7 DEF ServerSound, ServerTypes

LEMMA GithubKeeps == ASSUME ServerSound, GithubMoves \/ Withdraws \/ LogsIn PROVE ServerSound' /\ SavesStand
<1>1. UNCHANGED <<age, stored, snapshot, call, warming>>
  BY DEF GithubMoves, Withdraws, LogsIn
<1>2. /\ story' \in [presses : Nat, moves : Nat, opens : Nat, turns : Nat, kinds : SUBSET STRING,
                     broken : SUBSET Users, sweeps : BOOLEAN]
      /\ truth' \in Nat /\ token' \in [Users -> Nat] /\ IsFiniteSet(withdrawn')
  <2>1. CASE GithubMoves
    <3>1. story.moves \in Nat /\ story.moves > 0 /\ story' = [story EXCEPT !.moves = story.moves - 1]
      BY <2>1 DEF ServerSound, ServerTypes, GithubMoves
    <3>2. PICK n \in Nat : n = story.moves - 1
      BY <3>1
    <3>4. story' = [story EXCEPT !.moves = n]
      BY <3>1, <3>2
    <3>5. story' \in [presses : Nat, moves : Nat, opens : Nat, turns : Nat, kinds : SUBSET STRING,
                      broken : SUBSET Users, sweeps : BOOLEAN]
      BY <3>4 DEF ServerSound, ServerTypes
    <3>3. UNCHANGED <<token, withdrawn>> /\ truth' = truth + 1
      BY <2>1 DEF GithubMoves
    <3> QED BY <3>3, <3>5 DEF ServerSound, ServerTypes
  <2>2. CASE Withdraws
    BY <2>2, TurnIs, FS_AddElement DEF ServerSound, ServerTypes, Withdraws
  <2>3. CASE LogsIn
    <3>1. Cardinality(Users) \in Nat /\ Cardinality(withdrawn) \in Nat
      BY FS_CardinalityType, PeopleAssumption DEF ServerSound, ServerTypes
    <3>2. token' = [token EXCEPT ![Me] = Cardinality(Users) + Cardinality(withdrawn)] /\ UNCHANGED <<story, truth, withdrawn>>
      BY <2>3 DEF LogsIn
    <3>3. Cardinality(Users) + Cardinality(withdrawn) \in Nat
      BY <3>1
    <3> HIDE <2>3
    <3> QED BY <3>2, <3>3 DEF ServerSound, ServerTypes
  <2> QED BY <2>1, <2>2, <2>3
<1> QED BY <1>1, <1>2, CallsStand DEF ServerSound, ServerTypes, SlotsSound, SnapshotsBuilt

LEMMA WorldKeeps == ASSUME ServerSound, World PROVE ServerSound' /\ SavesStand
BY GithubKeeps, ExpiresKeeps, RestartsKeeps DEF World

----------------------------------------------------------------------------
(* The page: what asking does, and what it cannot disturb. *)

LEMMA NobodyIsNoCall == Nobody \notin Calls /\ Calls \subseteq Slots /\ \A c \in Calls : c \notin Workers
BY CallsAssumption DEF Nobody, Slots

\* As long as saves stand and the page neither opens nor takes an answer to one, nothing changes
\* between what is on screen and what is stored.
LEMMA AsStoredStays ==
    ASSUME AsStored, SavesStand, page'.open => page.open, past \subseteq past',
           newest'["save"] = newest["save"], UNCHANGED <<edited, agreed, profile>>
    PROVE  AsStored'
<1>1. Clean' => Clean
  BY DEF Clean
<1>2. \A c : IsSave(c)' <=> IsSave(c)
  BY DEF IsSave, SavesStand
<1>3. \A c : IsSave(c) => call'[c] = call[c]
  BY DEF IsSave, SavesStand
<1>4. stored' = stored /\ saved' = saved /\ NewestSave' = NewestSave
  BY DEF SavesStand, saved, NewestSave
<1>5. IsSave(NewestSave)' <=> IsSave(NewestSave)
  BY <1>2, <1>4 DEF IsSave
<1>6. IsSave(NewestSave) => call'[NewestSave] = call[NewestSave]
  BY <1>3
<1> QED BY <1>1, <1>2, <1>3, <1>4, <1>5, <1>6 DEF AsStored

Requests == {"nothing", "load", "reread", "refresh"}

LEMMA CostsAre == \A previous, next : Costs(previous, next) \in {"nothing", "reread", "refresh"}
BY DEF Costs

\* What is left after a request is placed over some calls: one slot more is taken, or none.
LEMMA PlacesIs ==
    ASSUME PageTypes, NEW calls \in [Slots -> Slot], \A d \in Slots : SoundSlot(d, calls[d]),
           NEW news \in [Kinds -> Calls \cup {Nobody}], NEW c \in Calls, NEW kind \in Requests, NEW f \in Settings,
           Places(calls, news, c, kind, f)
    PROVE  /\ call' \in [Slots -> Slot] /\ SlotsSound'
           /\ \A d \in Slots : d # c => call'[d] = calls[d]
           /\ call'[c] = calls[c] \/ (call'[c].kind = kind /\ kind \in Kinds \ {"save"} /\ call'[c].at = "sent")
           /\ kind # "nothing" => call'[c].at = "sent"
           /\ newest' \in [Kinds -> Calls \cup {Nobody}] /\ newest'["save"] = news["save"]
           /\ page' \in [open : BOOLEAN, visible : BOOLEAN, due : BOOLEAN, app : BOOLEAN]
           /\ page'.open = page.open /\ page'.app = page.app
<1>1. c \in Slots
  BY NobodyIsNoCall
<1>2. /\ page' \in [open : BOOLEAN, visible : BOOLEAN, due : BOOLEAN, app : BOOLEAN]
      /\ page'.open = page.open /\ page'.app = page.app
  BY DEF Places, PageTypes
<1>3. CASE kind = "nothing"
  <2>1. call' = calls /\ newest' = news
    BY <1>3 DEF Places
  <2> QED BY <1>1, <1>2, <1>3, <2>1 DEF SlotsSound, SoundSlot
<1>4. CASE kind # "nothing"
  <2>1. kind \in Kinds /\ kind # "save"
    BY <1>4 DEF Requests, Kinds
  <2> DEFINE k == Asked(kind, Me, f)
  <2>2. k \in Slot /\ SoundSlot(c, k) /\ k.kind = kind /\ k.at = "sent"
    BY <2>1, AskedSound, AskedIs, PeopleAssumption
  <2>3. call' = [calls EXCEPT ![c] = k] /\ newest' = [news EXCEPT ![kind] = c]
    BY <1>4 DEF Places, With
  <2> HIDE DEF k
  <2>4. call' \in [Slots -> Slot] /\ call'[c] = k /\ \A d \in Slots : d # c => call'[d] = calls[d]
    BY <1>1, <2>2, <2>3
  <2>5. \A d \in Slots : SoundSlot(d, call'[d])
    BY <2>2, <2>4
  <2>6. newest' \in [Kinds -> Calls \cup {Nobody}] /\ newest'["save"] = news["save"]
    BY <2>1, <2>3 DEF Kinds
  <2> QED BY <1>2, <2>1, <2>2, <2>4, <2>5, <2>6 DEF SlotsSound, SoundSlot
<1> QED BY <1>3, <1>4

LEMMA DoneIs ==
    ASSUME ServerTypes, SlotsSound, NEW c \in Calls
    PROVE  /\ Done(c) \in [Slots -> Slot] /\ Done(c)[c] = Free
           /\ \A d \in Slots : SoundSlot(d, Done(c)[d])
           /\ \A d \in Slots : d # c => Done(c)[d] = call[d]
<1>1. c \in Slots /\ call \in [Slots -> Slot]
  BY NobodyIsNoCall DEF ServerTypes
<1>2. Free \in Slot /\ SoundSlot(c, Free)
  BY <1>1, FreeIs
<1>3. /\ Done(c) \in [Slots -> Slot] /\ Done(c)[c] = Free
      /\ \A d \in Slots : d # c => Done(c)[d] = call[d]
  BY <1>1, <1>2 DEF Done
<1> QED BY <1>2, <1>3, SlotIs

\* One slot of the page's, which is no save and holds none afterwards.
LEMMA OneBesidesSaves ==
    ASSUME NEW c \in Calls, call[c].kind # "save", call'[c].kind # "save", stored' = stored,
           \A d \in Slots : d # c => call'[d] = call[d]
    PROVE  SavesStand
BY NobodyIsNoCall DEF SavesStand

LEMMA VacantIs == \A n : \A c \in Vacant(n) : c \in Calls /\ call[c].at = "free"
BY DEF Vacant

LEMMA ShownIs ==
    ASSUME ServerSound, PageSound, page.open PROVE saved \in Settings /\ filters \in Settings
BY SettingsAre DEF PageSound, PageTypes, ProfileRead, saved, filters

----------------------------------------------------------------------------
(* The reader. *)

StoryType == [presses : Nat, moves : Nat, opens : Nat, turns : Nat, kinds : SUBSET STRING,
              broken : SUBSET Users, sweeps : BOOLEAN]

LEMMA CallsAndStory ==
    ASSUME ServerSound, call' \in [Slots -> Slot], SlotsSound', UNCHANGED serverVars, story' \in StoryType
    PROVE  ServerSound' /\ stored' = stored
BY DEF ServerSound, ServerTypes, SnapshotsBuilt, serverVars, StoryType

LEMMA StoryIs == ServerSound => story \in StoryType
BY DEF ServerSound, ServerTypes, StoryType

LEMMA OpensKeeps ==
    ASSUME InboxInv, NEW p \in Settings, NEW calls \in [Slots -> Slot], \A d \in Slots : SoundSlot(d, calls[d]),
           \A d \in Slots : calls[d].kind = call[d].kind, Opens(p, calls)
    PROVE  InboxInv'
<1>1. PICK c \in Vacant(1) : /\ call' = With(calls, c, "load", p)
                             /\ newest' = [k \in Kinds |-> IF k = "load" THEN c ELSE Nobody]
  BY DEF Opens
<1>2. /\ story.opens > 0 /\ story' = [story EXCEPT !.opens = @ - 1]
      /\ profile' = p /\ edited' = None /\ agreed' = None /\ rows' = EMPTY
      /\ page' = [open |-> TRUE, visible |-> TRUE, due |-> FALSE, app |-> TRUE]
      /\ UNCHANGED serverVars
  BY DEF Opens
<1>3. past' = past \cup {m \in {"raced", "revisit"} : IF m = "raced" THEN Saving ELSE p # stored[Me]}
  BY DEF Opens
<1>4. c \in Calls /\ c \in Slots /\ ServerSound /\ PageSound
  BY VacantIs, NobodyIsNoCall DEF InboxInv
<1> DEFINE k == Asked("load", Me, p)
<1>5. k \in Slot /\ SoundSlot(c, k) /\ k.kind = "load"
  BY <1>4, AskedSound, AskedIs, PeopleAssumption DEF Kinds
<1>6. call' = [calls EXCEPT ![c] = k]
  BY <1>1 DEF With
<1> HIDE DEF k
<1>7. call' \in [Slots -> Slot] /\ call'[c] = k /\ \A d \in Slots : d # c => call'[d] = calls[d]
  BY <1>4, <1>5, <1>6
<1>8. SlotsSound'
  BY <1>5, <1>7 DEF SlotsSound, SoundSlot
<1>9. story' \in StoryType
  <2>1. story \in StoryType
    BY <1>4, StoryIs
  <2>2. PICK n \in Nat : n = story.opens - 1
    BY <1>2, <2>1 DEF StoryType
  <2>3. story' = [story EXCEPT !.opens = n]
    BY <1>2, <2>2
  <2> QED BY <2>1, <2>3 DEF StoryType
<1>10. ServerSound' /\ stored' = stored
  BY <1>2, <1>4, <1>7, <1>8, <1>9, CallsAndStory
<1>11. PageSound'
  <2>1. EMPTY \in [ver : Nat \cup {-1}, b : Builds, f : Settings] /\ EMPTY.ver = -1
    BY SettingsAre DEF EMPTY
  <2>2. newest' \in [Kinds -> Calls \cup {Nobody}]
    BY <1>1, <1>4
  <2>3. page' \in [open : BOOLEAN, visible : BOOLEAN, due : BOOLEAN, app : BOOLEAN]
    BY <1>2
  <2> QED BY <1>2, <2>1, <2>2, <2>3 DEF PageSound, PageTypes, ProfileRead, RowsBuilt
<1>12. AsStored'
  <2>1. SUFFICES ASSUME Clean' PROVE AsStored'
    BY DEF AsStored
  <2>2. "raced" \notin past' /\ "revisit" \notin past'
    BY <2>1 DEF Clean
  <2>3. ~Saving /\ p = stored[Me]
    BY <1>3, <2>2
  <2>4. \A d \in Calls : call[d].kind # "save"
    <3>1. \A d \in Calls : SoundSlot(d, call[d])
      BY <1>4, CallerIs, NobodyIsNoCall
    <3> QED BY <2>3, <3>1 DEF Saving, SoundSlot
  <2>5. \A d \in Calls : call'[d].kind # "save"
    BY <1>5, <1>7, <2>4, NobodyIsNoCall
  <2>6. \A d : ~IsSave(d)'
    BY <2>5 DEF IsSave
  <2>7. ~IsSave(NewestSave)'
    BY <2>5 DEF IsSave
  <2>8. edited' = None /\ stored'[Me] = saved'
    BY <1>2, <1>10, <2>3 DEF saved
  <2> QED BY <2>6, <2>7, <2>8 DEF AsStored
<1> QED BY <1>10, <1>11, <1>12 DEF InboxInv

LEMMA OpensColdKeeps == ASSUME InboxInv, OpensCold PROVE InboxInv'
<1>1. ServerSound /\ call \in [Slots -> Slot]
  BY DEF InboxInv, ServerSound, ServerTypes
<1> DEFINE calls == [c \in DOMAIN call |-> [call[c] EXCEPT !.here = call[c].at = "free" \/ c \in Workers]]
<1>2. ASSUME NEW d \in Slots
      PROVE  calls[d] \in Slot /\ SoundSlot(d, calls[d]) /\ calls[d].kind = call[d].kind
  <2>1. call[d] \in Slot /\ SoundSlot(d, call[d])
    BY <1>1, CallerIs
  <2>2. PICK h \in BOOLEAN : h = (call[d].at = "free" \/ d \in Workers)
    OBVIOUS
  <2>3. calls[d] = [call[d] EXCEPT !.here = h]
    BY <1>1, <2>2
  <2>4. calls[d] \in Slot
    BY <2>1, <2>3 DEF Slot
  <2>5. /\ calls[d].kind = call[d].kind /\ calls[d].at = call[d].at /\ calls[d].u = call[d].u
        /\ calls[d].f = call[d].f /\ calls[d].got = call[d].got /\ calls[d].here = h
    BY <2>1, <2>3 DEF Slot
  <2>6. call[d].at = "free" => h
    BY <2>2
  <2> HIDE DEF calls
  <2>7. SoundSlot(d, calls[d])
    BY <2>1, <2>5, <2>6 DEF SoundSlot
  <2> QED BY <2>4, <2>5, <2>7
<1>3. calls \in [Slots -> Slot]
  BY <1>1, <1>2
<1>4. stored[Me] \in Settings
  BY <1>1, PeopleAssumption DEF ServerSound, ServerTypes
<1>5. Opens(stored[Me], calls)
  BY DEF OpensCold
<1> HIDE DEF calls
<1> QED BY <1>2, <1>3, <1>4, <1>5, OpensKeeps

LEMMA OpensFromDashboardKeeps == ASSUME InboxInv, OpensFromDashboard PROVE InboxInv'
<1>1. page.app /\ Opens(profile, call)
  BY DEF OpensFromDashboard
<1>2. ServerSound /\ call \in [Slots -> Slot] /\ profile \in Settings
  BY <1>1 DEF InboxInv, ServerSound, ServerTypes, PageSound, ProfileRead
<1>3. \A d \in Slots : SoundSlot(d, call[d])
  BY <1>2, CallerIs
<1> QED BY <1>1, <1>2, <1>3, OpensKeeps

LEMMA LeavesKeeps == ASSUME InboxInv, Leaves PROVE InboxInv'
<1>1. /\ Turn("leaves") /\ page' = [page EXCEPT !.open = FALSE, !.due = FALSE]
      /\ rows' = EMPTY /\ edited' = None /\ agreed' = None /\ newest' = [k \in Kinds |-> Nobody]
      /\ UNCHANGED <<serverVars, call, profile, past>>
  BY DEF Leaves
<1>2. story' \in StoryType
  BY <1>1, TurnIs DEF InboxInv, ServerSound, StoryType
<1>3. ServerSound'
  BY <1>1, <1>2, CallsAndStory DEF InboxInv, ServerSound, ServerTypes, SlotsSound
<1>4. page' \in [open : BOOLEAN, visible : BOOLEAN, due : BOOLEAN, app : BOOLEAN] /\ ~page'.open /\ page'.app = page.app
  BY <1>1 DEF InboxInv, PageSound, PageTypes
<1>5. EMPTY \in [ver : Nat \cup {-1}, b : Builds, f : Settings] /\ EMPTY.ver = -1
  BY SettingsAre DEF EMPTY
<1>6. PageSound'
  BY <1>1, <1>4, <1>5 DEF InboxInv, PageSound, PageTypes, ProfileRead, RowsBuilt
<1>7. AsStored'
  BY <1>4 DEF AsStored, Clean
<1> QED BY <1>3, <1>6, <1>7 DEF InboxInv

LEMMA PressesKeeps == ASSUME InboxInv, Presses PROVE InboxInv'
<1>1. PICK next \in Settings, c \in Vacant(2), d \in Vacant(2) :
         /\ c < d /\ edited' = next
         /\ Places(With(call, c, "save", next), [newest EXCEPT !["save"] = c], d, Costs(filters, next), next)
  BY DEF Presses
<1>2. /\ page.open /\ story.presses > 0 /\ story' = [story EXCEPT !.presses = @ - 1]
      /\ past' = IF Saving THEN past \cup {"overlap"} ELSE past
      /\ UNCHANGED <<serverVars, rows, agreed, profile>>
  BY DEF Presses
<1>3. c \in Calls /\ d \in Calls /\ c # d /\ call[c].at = "free" /\ call[d].at = "free"
  BY <1>1, VacantIs, CallsAssumption
<1>4. ServerSound /\ PageSound /\ PageTypes /\ ServerTypes /\ SlotsSound /\ call \in [Slots -> Slot]
  BY DEF InboxInv, ServerSound, PageSound, ServerTypes
<1> DEFINE k == Asked("save", Me, next)
           calls == With(call, c, "save", next)
           news == [newest EXCEPT !["save"] = c]
<1>5. k \in Slot /\ SoundSlot(c, k) /\ k.kind = "save" /\ k.at = "sent" /\ k.here /\ k.f = next
  BY <1>3, AskedSound, AskedIs, PeopleAssumption DEF Kinds
<1>6. calls = [call EXCEPT ![c] = k]
  BY DEF With
<1> HIDE DEF k
<1>7. calls \in [Slots -> Slot] /\ calls[c] = k /\ \A e \in Slots : e # c => calls[e] = call[e]
  BY <1>3, <1>4, <1>5, <1>6, NobodyIsNoCall
<1>8. \A e \in Slots : SoundSlot(e, calls[e])
  BY <1>4, <1>5, <1>7, SlotIs
<1>9. news \in [Kinds -> Calls \cup {Nobody}] /\ news["save"] = c
  BY <1>3, <1>4 DEF PageTypes, Kinds
<1>10. Costs(filters, next) \in Requests
  BY CostsAre DEF Requests
<1>11. Places(calls, news, d, Costs(filters, next), next)
  BY <1>1
<1> HIDE DEF calls, news
<1>12. /\ call' \in [Slots -> Slot] /\ SlotsSound'
       /\ \A e \in Slots : e # d => call'[e] = calls[e]
       /\ call'[d] = calls[d] \/ call'[d].kind \in Kinds \ {"save"}
       /\ newest' \in [Kinds -> Calls \cup {Nobody}] /\ newest'["save"] = c
       /\ page' \in [open : BOOLEAN, visible : BOOLEAN, due : BOOLEAN, app : BOOLEAN]
       /\ page'.open = page.open /\ page'.app = page.app
  BY <1>3, <1>4, <1>7, <1>8, <1>9, <1>10, <1>11, PlacesIs
<1>13. story' \in StoryType
  <2>1. story \in StoryType
    BY <1>4, StoryIs
  <2>2. PICK n \in Nat : n = story.presses - 1
    BY <1>2, <2>1 DEF StoryType
  <2>3. story' = [story EXCEPT !.presses = n]
    BY <1>2, <2>2
  <2> QED BY <2>1, <2>3 DEF StoryType
<1>14. ServerSound' /\ stored' = stored
  BY <1>2, <1>4, <1>12, <1>13, CallsAndStory
<1>15. PageSound'
  BY <1>1, <1>2, <1>4, <1>12 DEF PageSound, PageTypes, ProfileRead, RowsBuilt
<1>16. c \in Slots /\ d \in Slots
  BY <1>3, NobodyIsNoCall
<1>17. call[c].kind # "save" /\ call[d].kind # "save"
  BY <1>3, <1>4, <1>16, SlotIs DEF SoundSlot
<1>18. call'[c] = k /\ call'[d].kind # "save"
  BY <1>3, <1>7, <1>12, <1>16, <1>17
<1>19. \A e \in Calls : e # c /\ e # d => call'[e] = call[e]
  BY <1>7, <1>12, NobodyIsNoCall
<1>20. AsStored'
  <2>1. SUFFICES ASSUME Clean' PROVE AsStored'
    BY DEF AsStored
  <2>2. Clean /\ past \subseteq past'
    BY <1>2, <2>1 DEF Clean
  <2>3. \A e \in Calls : IsSave(e)' => e = c \/ (IsSave(e) /\ call'[e] = call[e])
    BY <1>18, <1>19 DEF IsSave
  <2>4. \A e \in Calls : IsSave(e) => Saving
    <3>1. \A e \in Calls : SoundSlot(e, call[e])
      BY <1>4, SlotIs, NobodyIsNoCall
    <3> QED BY <3>1 DEF IsSave, Saving, SoundSlot
  <2>5. NewestSave' = c
    BY <1>12 DEF NewestSave
  <2>6. \A e \in Calls : IsSave(e)' => call'[e].here /\ NewestSave' # Nobody
    BY <1>3, <1>5, <1>18, <2>2, <2>3, <2>5, NobodyIsNoCall DEF AsStored, InboxInv
  <2>7. \A e \in Calls : IsSave(e)' => e = NewestSave' \/ "overlap" \in past'
    BY <1>2, <2>3, <2>4, <2>5
  <2>8. \A e \in Calls : IsSave(e)' /\ call'[e].at = "failed" => "failed" \in past'
    BY <1>5, <1>18, <2>2, <2>3 DEF AsStored, InboxInv
  <2>9. IsSave(NewestSave)' /\ edited' = call'[NewestSave'].f /\ call'[NewestSave'].at = "sent"
    BY <1>1, <1>3, <1>5, <1>18, <2>5 DEF IsSave, NewestSave
  <2>10. "overlap" \notin past' => stored'[Me] = saved'
    <3>1. SUFFICES ASSUME "overlap" \notin past' PROVE stored'[Me] = saved'
      OBVIOUS
    <3>2. ~Saving
      BY <1>2, <3>1
    <3>3. ~IsSave(NewestSave)
      BY <2>4, <3>2 DEF IsSave
    <3>4. stored[Me] = saved
      BY <2>2, <3>3 DEF AsStored, InboxInv
    <3> QED BY <1>2, <1>14, <3>4 DEF saved
  <2> QED BY <2>6, <2>7, <2>8, <2>9, <2>10 DEF AsStored
<1> QED BY <1>14, <1>15, <1>20 DEF InboxInv

LEMMA ViewKeeps == ASSUME InboxInv, Hides \/ Shows \/ MinutePasses PROVE InboxInv'
<1>1. UNCHANGED <<serverVars, call, rows, edited, agreed, profile, newest, past>>
  BY DEF Hides, Shows, MinutePasses
<1>2. /\ page' \in [open : BOOLEAN, visible : BOOLEAN, due : BOOLEAN, app : BOOLEAN]
      /\ page'.open = page.open /\ page'.app = page.app
  BY DEF InboxInv, PageSound, PageTypes, Hides, Shows, MinutePasses
<1>3. story' \in StoryType
  BY TurnIs, StoryIs DEF InboxInv, ServerSound, StoryType, Hides, Shows, MinutePasses
<1>4. ServerSound' /\ stored' = stored
  BY <1>1, <1>3, CallsAndStory DEF InboxInv, ServerSound, ServerTypes, SlotsSound
<1>5. PageSound'
  BY <1>1, <1>2 DEF InboxInv, PageSound, PageTypes, ProfileRead, RowsBuilt
<1>6. SavesStand
  BY <1>1, <1>4, CallsStand
<1>7. AsStored'
  BY <1>1, <1>2, <1>6, AsStoredStays DEF InboxInv
<1> QED BY <1>4, <1>5, <1>7 DEF InboxInv

LEMMA RefreshIfDueKeeps == ASSUME InboxInv, refreshIfDue PROVE InboxInv'
<1>1. PICK c \in Vacant(1) : Places(call, newest, c, "refresh", filters)
  BY DEF refreshIfDue
<1>2. page.open /\ UNCHANGED <<story, serverVars, rows, edited, agreed, profile, past>>
  BY DEF refreshIfDue
<1>3. c \in Calls /\ c \in Slots /\ call[c].at = "free" /\ call \in [Slots -> Slot]
  BY VacantIs, NobodyIsNoCall DEF InboxInv, ServerSound, ServerTypes
<1>4. \A d \in Slots : SoundSlot(d, call[d])
  BY CallerIs DEF InboxInv
<1>5. filters \in Settings
  BY <1>2, ShownIs DEF InboxInv
<1>6. newest \in [Kinds -> Calls \cup {Nobody}] /\ PageTypes /\ "refresh" \in Requests
  BY DEF InboxInv, PageSound, PageTypes, Requests
<1>7. /\ call' \in [Slots -> Slot] /\ SlotsSound'
      /\ \A d \in Slots : d # c => call'[d] = call[d]
      /\ call'[c] = call[c] \/ call'[c].kind \in Kinds \ {"save"}
      /\ newest' \in [Kinds -> Calls \cup {Nobody}] /\ newest'["save"] = newest["save"]
      /\ page' \in [open : BOOLEAN, visible : BOOLEAN, due : BOOLEAN, app : BOOLEAN]
      /\ page'.open = page.open /\ page'.app = page.app
  BY <1>1, <1>3, <1>4, <1>5, <1>6, PlacesIs
<1>8. ServerSound' /\ stored' = stored
  BY <1>2, <1>7, StoryIs, CallsAndStory DEF InboxInv
<1>9. PageSound'
  BY <1>2, <1>7 DEF InboxInv, PageSound, PageTypes, ProfileRead, RowsBuilt
<1>10. call[c].kind # "save" /\ call'[c].kind # "save"
  BY <1>3, <1>4, <1>7 DEF SoundSlot
<1>11. SavesStand
  BY <1>3, <1>7, <1>8, <1>10, OneBesidesSaves
<1>12. AsStored'
  BY <1>2, <1>7, <1>11, AsStoredStays DEF InboxInv
<1> QED BY <1>8, <1>9, <1>12 DEF InboxInv

----------------------------------------------------------------------------
(* What comes back. *)

\* A slot is free again, or taken by what is asked next.
LEMMA ReceivedIs ==
    ASSUME InboxInv, NEW c \in Calls, NEW kind \in Requests, NEW f \in Settings,
           Places(Done(c), newest, c, kind, f), UNCHANGED <<story, serverVars>>
    PROVE  /\ ServerSound' /\ stored' = stored
           /\ \A d \in Slots : d # c => call'[d] = call[d]
           /\ call'[c].kind # "save" /\ call'[c].at # "answered"
           /\ newest' \in [Kinds -> Calls \cup {Nobody}] /\ newest'["save"] = newest["save"]
           /\ page' \in [open : BOOLEAN, visible : BOOLEAN, due : BOOLEAN, app : BOOLEAN]
           /\ page'.open = page.open /\ page'.app = page.app
<1>1. ServerSound /\ ServerTypes /\ SlotsSound /\ PageTypes /\ newest \in [Kinds -> Calls \cup {Nobody}]
  BY DEF InboxInv, ServerSound, PageSound, PageTypes
<1> DEFINE calls == Done(c)
<1>2. /\ calls \in [Slots -> Slot] /\ calls[c] = Free
      /\ \A d \in Slots : SoundSlot(d, calls[d])
      /\ \A d \in Slots : d # c => calls[d] = call[d]
  BY <1>1, DoneIs
<1>3. Places(calls, newest, c, kind, f)
  OBVIOUS
<1> HIDE DEF calls
<1>4. /\ call' \in [Slots -> Slot] /\ SlotsSound'
      /\ \A d \in Slots : d # c => call'[d] = calls[d]
      /\ call'[c] = calls[c] \/ (call'[c].kind = kind /\ kind \in Kinds \ {"save"} /\ call'[c].at = "sent")
      /\ newest' \in [Kinds -> Calls \cup {Nobody}] /\ newest'["save"] = newest["save"]
      /\ page' \in [open : BOOLEAN, visible : BOOLEAN, due : BOOLEAN, app : BOOLEAN]
      /\ page'.open = page.open /\ page'.app = page.app
  BY <1>1, <1>2, <1>3, PlacesIs
<1>5. call'[c].kind # "save" /\ call'[c].at # "answered"
  BY <1>2, <1>4, FreeIs
<1>6. ServerSound' /\ stored' = stored
  BY <1>1, <1>4, StoryIs, CallsAndStory
<1> QED BY <1>2, <1>4, <1>5, <1>6

\* The same where nothing is asked.
LEMMA DoneKeeps ==
    ASSUME InboxInv, NEW c \in Calls, call' = Done(c), UNCHANGED <<story, serverVars>>
    PROVE  /\ ServerSound' /\ stored' = stored
           /\ \A d \in Slots : d # c => call'[d] = call[d]
           /\ call'[c].kind # "save" /\ call'[c].at # "answered"
<1>1. ServerSound /\ ServerTypes /\ SlotsSound
  BY DEF InboxInv, ServerSound
<1> DEFINE calls == Done(c)
<1>2. /\ calls \in [Slots -> Slot] /\ calls[c] = Free
      /\ \A d \in Slots : SoundSlot(d, calls[d])
      /\ \A d \in Slots : d # c => calls[d] = call[d]
  BY <1>1, DoneIs
<1>3. call' = calls
  OBVIOUS
<1> HIDE DEF calls
<1>4. SlotsSound'
  BY <1>2, <1>3 DEF SlotsSound, SoundSlot
<1>5. ServerSound' /\ stored' = stored
  BY <1>1, <1>2, <1>3, <1>4, StoryIs, CallsAndStory
<1> QED BY <1>2, <1>3, <1>5, FreeIs

\* The rows that an answer brings were built as was asked.
LEMMA LandsIs ==
    ASSUME InboxInv, NEW c \in Calls, Lands(c)
    PROVE  /\ rows' \in [ver : Nat \cup {-1}, b : Builds, f : Settings] /\ RowsBuilt'
           /\ rows'.ver = -1 <=> call[c].got = Blank
<1>1. /\ call[c].got \in Got /\ call[c].f \in Settings
      /\ call[c].got # Blank => call[c].got.b = call[c].f.b
  BY CallerIs, NobodyIsNoCall DEF InboxInv
<1>2. call[c].got.ver \in Nat \cup {-1} /\ call[c].got.b \in Builds /\ (call[c].got.ver = -1 <=> call[c].got = Blank)
  BY <1>1, BlankIsGot, SettingsAre DEF Got, Blank
<1>3. rows' = [ver |-> call[c].got.ver, b |-> call[c].got.b, f |-> call[c].f]
  BY DEF Lands
<1> QED BY <1>1, <1>2, <1>3 DEF RowsBuilt

LEMMA LoadedKeeps == ASSUME InboxInv, NEW c \in Calls, Loaded(c) PROVE InboxInv'
<1>1. /\ page.open /\ call[c].kind = "load" /\ Places(Done(c), newest, c, "refresh", filters)
      /\ Lands(c) \/ UNCHANGED rows
      /\ UNCHANGED <<story, serverVars, edited, agreed, profile, past>>
  BY DEF Loaded, Heard
<1>2. filters \in Settings /\ "refresh" \in Requests
  BY <1>1, ShownIs DEF InboxInv, Requests
<1>3. /\ ServerSound' /\ stored' = stored
      /\ \A d \in Slots : d # c => call'[d] = call[d]
      /\ call'[c].kind # "save"
      /\ newest' \in [Kinds -> Calls \cup {Nobody}] /\ newest'["save"] = newest["save"]
      /\ page' \in [open : BOOLEAN, visible : BOOLEAN, due : BOOLEAN, app : BOOLEAN]
      /\ page'.open = page.open /\ page'.app = page.app
  BY <1>1, <1>2, ReceivedIs
<1>4. rows' \in [ver : Nat \cup {-1}, b : Builds, f : Settings] /\ RowsBuilt'
  BY <1>1, LandsIs DEF InboxInv, PageSound, PageTypes, RowsBuilt
<1>5. PageSound'
  BY <1>1, <1>3, <1>4 DEF InboxInv, PageSound, PageTypes, ProfileRead
<1>6. SavesStand
  BY <1>1, <1>3, OneBesidesSaves
<1>7. AsStored'
  BY <1>1, <1>3, <1>6, AsStoredStays DEF InboxInv
<1> QED BY <1>3, <1>5, <1>7 DEF InboxInv

LEMMA RereadKeeps == ASSUME InboxInv, NEW c \in Calls, Reread(c) PROVE InboxInv'
<1>1. /\ page.open /\ call[c].kind = "reread"
      /\ UNCHANGED <<story, serverVars, edited, agreed, profile, past>>
  BY DEF Reread, Heard
<1>2. filters \in Settings /\ "refresh" \in Requests
  BY <1>1, ShownIs DEF InboxInv, Requests
<1>3. \/ Lands(c) /\ call' = Done(c) /\ UNCHANGED <<newest, page>>
      \/ Places(Done(c), newest, c, "refresh", filters) /\ UNCHANGED rows
  BY DEF Reread
<1>4. /\ ServerSound' /\ stored' = stored
      /\ \A d \in Slots : d # c => call'[d] = call[d]
      /\ call'[c].kind # "save"
      /\ newest' \in [Kinds -> Calls \cup {Nobody}] /\ newest'["save"] = newest["save"]
      /\ page' \in [open : BOOLEAN, visible : BOOLEAN, due : BOOLEAN, app : BOOLEAN]
      /\ page'.open = page.open /\ page'.app = page.app
  <2>1. CASE call' = Done(c) /\ UNCHANGED <<newest, page>>
    BY <1>1, <2>1, DoneKeeps DEF InboxInv, PageSound, PageTypes
  <2>2. CASE Places(Done(c), newest, c, "refresh", filters)
    BY <1>1, <1>2, <2>2, ReceivedIs
  <2> QED BY <1>3, <2>1, <2>2
<1>5. rows' \in [ver : Nat \cup {-1}, b : Builds, f : Settings] /\ RowsBuilt'
  BY <1>3, LandsIs DEF InboxInv, PageSound, PageTypes, RowsBuilt
<1>6. PageSound'
  BY <1>1, <1>4, <1>5 DEF InboxInv, PageSound, PageTypes, ProfileRead
<1>7. SavesStand
  BY <1>1, <1>4, OneBesidesSaves
<1>8. AsStored'
  BY <1>1, <1>4, <1>7, AsStoredStays DEF InboxInv
<1> QED BY <1>4, <1>6, <1>8 DEF InboxInv

LEMMA RefreshedKeeps == ASSUME InboxInv, NEW c \in Calls, Refreshed(c) PROVE InboxInv'
<1>1. /\ call[c].kind = "refresh" /\ call' = Done(c) /\ (Lands(c) \/ UNCHANGED rows)
      /\ UNCHANGED <<story, serverVars, page, edited, agreed, profile, newest, past>>
  BY DEF Refreshed
<1>2. /\ ServerSound' /\ stored' = stored /\ call'[c].kind # "save"
      /\ \A d \in Slots : d # c => call'[d] = call[d]
  BY <1>1, DoneKeeps
<1>3. rows' \in [ver : Nat \cup {-1}, b : Builds, f : Settings] /\ RowsBuilt'
  BY <1>1, LandsIs DEF InboxInv, PageSound, PageTypes, RowsBuilt
<1>4. PageSound'
  BY <1>1, <1>3 DEF InboxInv, PageSound, PageTypes, ProfileRead
<1>5. SavesStand
  BY <1>1, <1>2, OneBesidesSaves
<1>6. AsStored'
  BY <1>1, <1>5, AsStoredStays DEF InboxInv
<1> QED BY <1>2, <1>4, <1>6 DEF InboxInv

LEMMA DroppedKeeps == ASSUME InboxInv, NEW c \in Calls, Dropped(c) PROVE InboxInv'
<1>1. /\ ~page.open \/ ~call[c].here \/ Overtaken(c)
      /\ call' = Done(c)
      /\ UNCHANGED <<story, serverVars, page, rows, edited, agreed, profile, newest, past>>
  BY DEF Dropped
<1>2. /\ ServerSound' /\ stored' = stored /\ call'[c].kind # "save"
      /\ \A d \in Slots : d # c => call'[d] = call[d]
  BY <1>1, DoneKeeps
<1>3. PageSound'
  BY <1>1 DEF InboxInv, PageSound, PageTypes, ProfileRead, RowsBuilt
<1>4. AsStored'
  <2>1. CASE call[c].kind # "save"
    <3>1. SavesStand
      BY <1>2, <2>1, OneBesidesSaves
    <3> QED BY <1>1, <3>1, AsStoredStays DEF InboxInv
  <2>2. CASE call[c].kind = "save"
    <3>1. SUFFICES ASSUME Clean' PROVE AsStored'
      BY DEF AsStored
    <3>2. Clean /\ NewestSave' = NewestSave
      BY <1>1, <3>1 DEF Clean, NewestSave
    <3>3. NewestSave # c
      BY <1>1, <2>2, <3>2 DEF InboxInv, AsStored, IsSave, Clean, Overtaken, NewestSave
    <3>4. \A d \in Calls : d # c => call'[d] = call[d]
      BY <1>2, NobodyIsNoCall
    <3>5. \A d : IsSave(d)' => d # c /\ IsSave(d) /\ call'[d] = call[d]
      BY <1>2, <3>4 DEF IsSave
    <3>6. IsSave(NewestSave)' <=> IsSave(NewestSave)
      BY <3>2, <3>3, <3>4 DEF IsSave
    <3>7. IsSave(NewestSave) => call'[NewestSave] = call[NewestSave]
      BY <3>3, <3>4 DEF IsSave
    <3>8. saved' = saved /\ stored' = stored /\ UNCHANGED <<edited, past>>
      BY <1>1, <1>2 DEF saved
    <3> QED BY <3>2, <3>5, <3>6, <3>7, <3>8 DEF InboxInv, AsStored
  <2> QED BY <2>1, <2>2
<1> QED BY <1>2, <1>3, <1>4 DEF InboxInv

LEMMA RefusedKeeps == ASSUME InboxInv, NEW c \in Calls, Refused(c) PROVE InboxInv'
<1>1. /\ page.open /\ call[c].kind = "save" /\ call[c].at = "failed" /\ edited' = None
      /\ Places(Done(c), newest, c, Costs(filters, saved), saved)
      /\ UNCHANGED <<story, serverVars, rows, agreed, profile, past>>
  BY DEF Refused, Heard, HandsOver
<1>2. saved \in Settings /\ Costs(filters, saved) \in Requests
  BY <1>1, ShownIs, CostsAre DEF InboxInv, Requests
<1>3. /\ ServerSound' /\ stored' = stored
      /\ \A d \in Slots : d # c => call'[d] = call[d]
      /\ call'[c].kind # "save"
      /\ newest' \in [Kinds -> Calls \cup {Nobody}] /\ newest'["save"] = newest["save"]
      /\ page' \in [open : BOOLEAN, visible : BOOLEAN, due : BOOLEAN, app : BOOLEAN]
      /\ page'.open = page.open /\ page'.app = page.app
  BY <1>1, <1>2, ReceivedIs
<1>4. PageSound'
  BY <1>1, <1>3 DEF InboxInv, PageSound, PageTypes, ProfileRead, RowsBuilt
<1>5. AsStored'
  <2>1. SUFFICES ASSUME Clean' PROVE AsStored'
    BY DEF AsStored
  <2>2. Clean
    BY <1>1, <2>1 DEF Clean
  <2>3. "overlap" \notin past /\ IsSave(c)
    BY <1>1, <2>2 DEF InboxInv, AsStored, IsSave, Clean
  <2>4. \A d \in Calls : IsSave(d) => d = c
    BY <2>2, <2>3 DEF InboxInv, AsStored
  <2>5. IsSave(NewestSave) /\ NewestSave = c
    BY <2>2, <2>3 DEF InboxInv, AsStored
  <2>6. stored[Me] = saved
    BY <1>1, <2>2, <2>3, <2>5 DEF InboxInv, AsStored
  <2>7. \A d : ~IsSave(d)'
    BY <1>3, <2>4, NobodyIsNoCall DEF IsSave
  <2>8. ~IsSave(NewestSave)'
    BY <1>3, <2>7 DEF IsSave
  <2>9. edited' = None /\ stored'[Me] = saved'
    BY <1>1, <1>3, <2>6 DEF saved
  <2> QED BY <2>7, <2>8, <2>9 DEF AsStored
<1> QED BY <1>3, <1>4, <1>5 DEF InboxInv

LEMMA SavedKeeps == ASSUME InboxInv, NEW c \in Calls, Saved(c) PROVE InboxInv'
<1>1. /\ page.open /\ call[c].kind = "save" /\ call[c].at = "answered" /\ ~Overtaken(c)
      /\ edited' = None /\ agreed' = call[c].f
      /\ Places(Done(c), newest, c, Costs(filters, call[c].f), call[c].f)
      /\ UNCHANGED <<story, serverVars, rows, profile, past>>
  BY DEF Saved, Heard, HandsOver
<1>2. call[c].f \in Settings /\ Costs(filters, call[c].f) \in Requests
  BY CallerIs, NobodyIsNoCall, CostsAre DEF InboxInv, Requests
<1>3. /\ ServerSound' /\ stored' = stored
      /\ \A d \in Slots : d # c => call'[d] = call[d]
      /\ call'[c].kind # "save"
      /\ newest' \in [Kinds -> Calls \cup {Nobody}] /\ newest'["save"] = newest["save"]
      /\ page' \in [open : BOOLEAN, visible : BOOLEAN, due : BOOLEAN, app : BOOLEAN]
      /\ page'.open = page.open /\ page'.app = page.app
  BY <1>1, <1>2, ReceivedIs
<1>4. PageSound'
  BY <1>1, <1>2, <1>3 DEF InboxInv, PageSound, PageTypes, ProfileRead, RowsBuilt
<1>5. AsStored'
  <2>1. SUFFICES ASSUME Clean' PROVE AsStored'
    BY DEF AsStored
  <2>2. Clean
    BY <1>1, <1>3, <2>1 DEF Clean
  <2>3. NewestSave = c /\ NewestSave' = c /\ IsSave(NewestSave)
    BY <1>1, <1>3 DEF NewestSave, Overtaken, IsSave
  <2>4. stored[Me] = call[c].f
    BY <1>1, <2>2, <2>3 DEF InboxInv, AsStored
  <2>5. \A d : IsSave(d)' => d # c /\ IsSave(d) /\ call'[d] = call[d]
    BY <1>3, NobodyIsNoCall DEF IsSave
  <2>6. ~IsSave(NewestSave)'
    BY <1>3, <2>3 DEF IsSave
  <2>7. edited' = None /\ stored'[Me] = saved'
    BY <1>1, <1>2, <1>3, <2>4, SettingsAre DEF saved
  <2> QED BY <1>1, <2>2, <2>3, <2>5, <2>6, <2>7 DEF InboxInv, AsStored
<1> QED BY <1>3, <1>4, <1>5 DEF InboxInv

LEMMA LostKeeps == ASSUME InboxInv, NEW c \in Calls, Lost(c) PROVE InboxInv'
<1>1. /\ call[c].at \in {"sent", "answered"} /\ Turn("lost")
      /\ call' = [call EXCEPT ![c] = [@ EXCEPT !.at = "failed"]]
      /\ past' = IF call[c].kind # "save" THEN past
                 ELSE past \cup (IF call[c].at = "answered" THEN {"lost"} ELSE {"failed"})
      /\ UNCHANGED <<serverVars, page, rows, edited, agreed, profile, newest>>
  BY DEF Lost
<1>2. /\ ServerSound /\ ServerTypes /\ SlotsSound /\ c \in Slots
      /\ call[c] \in Slot /\ SoundSlot(c, call[c]) /\ call \in [Slots -> Slot]
  BY CallerIs, NobodyIsNoCall DEF InboxInv, ServerTypes
<1>3. PICK k \in Slot : k = [call[c] EXCEPT !.at = "failed"]
  BY <1>2 DEF Slot
<1>4. /\ k.at = "failed" /\ k.kind = call[c].kind /\ k.f = call[c].f /\ k.here = call[c].here
      /\ k.u = call[c].u /\ k.got = call[c].got
  BY <1>2, <1>3 DEF Slot
<1>5. SoundSlot(c, k)
  BY <1>1, <1>2, <1>4 DEF SoundSlot
<1>6. call' = [call EXCEPT ![c] = k]
  BY <1>1, <1>2, <1>3
<1>7. call' \in [Slots -> Slot] /\ SlotsSound' /\ call'[c] = k /\ \A d \in Slots : d # c => call'[d] = call[d]
  BY <1>2, <1>5, <1>6, SlotChanges
<1>8. story' \in StoryType
  BY <1>1, <1>2, TurnIs DEF StoryType
<1>9. ServerSound' /\ stored' = stored
  BY <1>1, <1>2, <1>7, <1>8, CallsAndStory
<1>10. PageSound'
  BY <1>1 DEF InboxInv, PageSound, PageTypes, ProfileRead, RowsBuilt
<1>11. AsStored'
  <2>1. CASE call[c].kind # "save"
    <3>1. SavesStand
      BY <1>4, <1>7, <1>9, <2>1, OneBesidesSaves
    <3> QED BY <1>1, <2>1, <3>1, AsStoredStays DEF InboxInv
  <2>2. CASE call[c].kind = "save"
    <3>1. SUFFICES ASSUME Clean' PROVE AsStored'
      BY DEF AsStored
    <3>2. call[c].at = "sent" /\ past' = past \cup {"failed"}
      BY <1>1, <2>2, <3>1 DEF Clean
    <3>3. Clean /\ "overlap" \notin past' /\ "failed" \in past'
      BY <1>1, <3>1, <3>2 DEF Clean
    <3>4. NewestSave' = NewestSave /\ saved' = saved /\ stored' = stored /\ edited' = edited
      BY <1>1, <1>9 DEF NewestSave, saved
    <3>5. \A d \in Calls : d # c => call'[d] = call[d]
      BY <1>7, NobodyIsNoCall
    <3>6. \A d \in Calls : IsSave(d)' => IsSave(d) /\ call'[d].f = call[d].f /\ call'[d].here = call[d].here
      BY <1>4, <1>7, <2>2, <3>5 DEF IsSave
    <3>7. \A d \in Calls : call'[d].at = "answered" => call[d].at = "answered"
      BY <1>4, <1>7, <3>5
    <3>8. \A d \in Calls : call[d].at = "answered" => call'[d].at = "answered"
      BY <3>2, <3>5
    <3>9. IsSave(NewestSave)' <=> IsSave(NewestSave)
      BY <1>4, <1>7, <2>2, <3>4, <3>5 DEF IsSave
    <3>10. IsSave(NewestSave) => NewestSave \in Calls
      BY DEF IsSave
    <3>11. IsSave(NewestSave) => call'[NewestSave].f = call[NewestSave].f
      BY <1>4, <1>7, <3>5 DEF IsSave
    <3>12. "overlap" \notin past
      BY <3>2, <3>3
    <3> QED BY <3>2, <3>3, <3>4, <3>6, <3>7, <3>8, <3>9, <3>10, <3>11, <3>12 DEF InboxInv, AsStored
  <2> QED BY <2>1, <2>2
<1> QED BY <1>9, <1>10, <1>11 DEF InboxInv

LEMMA ServesPageKeeps ==
    ASSUME InboxInv, NEW c \in Slots, Serves(c) \/ GithubIsUnavailable(c),
           past' = IF c \in Calls /\ Reorders(c) THEN past \cup {"reordered"} ELSE past,
           UNCHANGED <<page, rows, busy, edited, agreed, profile, newest>>
    PROVE  InboxInv'
<1>1. ServerSound' /\ (SavesStand \/ Updates(c))
  BY ServesKeeps DEF InboxInv
<1>2. PageSound'
  BY DEF InboxInv, PageSound, PageTypes, ProfileRead, RowsBuilt
<1>3. AsStored'
  <2>1. CASE SavesStand
    BY <2>1, AsStoredStays DEF InboxInv
  <2>2. CASE Updates(c)
    <3>1. /\ IsSave(c) /\ call[c].at = "sent" /\ stored'[Me] = call[c].f
          /\ call'[c].kind = "save" /\ call'[c].at = "answered"
          /\ call'[c].f = call[c].f /\ call'[c].here = call[c].here
          /\ \A d \in Slots : d # c => call'[d] = call[d]
      BY <2>2, UpdatesKeeps DEF InboxInv
    <3>2. SUFFICES ASSUME Clean' PROVE AsStored'
      BY DEF AsStored
    <3>3. Clean /\ (past' = past) /\ NewestSave' = NewestSave /\ edited' = edited /\ c \in Calls
      BY <3>1, <3>2 DEF Clean, NewestSave, IsSave
    <3>4. ~Reorders(c)
      BY <3>2, <3>3 DEF Clean
    <3>5. \A d \in Calls : d # c => call'[d] = call[d]
      BY <3>1, NobodyIsNoCall
    <3>6. \A d \in Calls : IsSave(d)' => IsSave(d) /\ call'[d].here = call[d].here
      BY <3>1, <3>5 DEF IsSave
    <3>7. \A d \in Calls : IsSave(d)' /\ call'[d].at = "failed" => call[d].at = "failed"
      BY <3>1, <3>5
    <3>8. CASE NewestSave = c
      <4>1. IsSave(NewestSave) /\ IsSave(NewestSave)'
        BY <3>1, <3>3, <3>8 DEF IsSave
      <4>2. call'[NewestSave].at = "answered" /\ call'[NewestSave].f = call[NewestSave].f /\ stored'[Me] = call'[NewestSave].f
        BY <3>1, <3>8
      <4> QED BY <3>3, <3>6, <3>7, <4>1, <4>2 DEF InboxInv, AsStored
    <3>9. CASE NewestSave # c
      <4>1. NewestSave # Nobody /\ "overlap" \in past
        BY <3>1, <3>3, <3>9 DEF InboxInv, AsStored
      <4>2. call[NewestSave].kind = "save" /\ call[NewestSave].at = "sent"
        BY <3>1, <3>4, <3>9, <4>1 DEF Reorders, Overtaken, NewestSave, IsSave
      <4>3. NewestSave \in Calls
        BY <4>1 DEF InboxInv, PageSound, PageTypes, NewestSave, Kinds
      <4>4. call'[NewestSave] = call[NewestSave]
        BY <3>5, <3>9, <4>3
      <4>5. IsSave(NewestSave) /\ IsSave(NewestSave)'
        BY <3>3, <4>2, <4>3, <4>4 DEF IsSave
      <4> QED BY <3>3, <3>6, <3>7, <4>1, <4>2, <4>4, <4>5 DEF InboxInv, AsStored
    <3> QED BY <3>8, <3>9
  <2> QED BY <1>1, <2>1, <2>2
<1> QED BY <1>1, <1>2, <1>3 DEF InboxInv

LEMMA ServerKeeps == ASSUME InboxInv, Server PROVE InboxInv'
<1>1. CASE \E c \in Slots : /\ Serves(c) \/ GithubIsUnavailable(c)
                            /\ past' = IF c \in Calls /\ Reorders(c) THEN past \cup {"reordered"} ELSE past
                            /\ UNCHANGED <<page, rows, busy, edited, agreed, profile, newest>>
  BY <1>1, ServesPageKeeps
<1>2. CASE (Sweeps \/ (\E w \in Workers : Takes(w)) \/ SweepEnds \/ DayPasses \/ World) /\ UNCHANGED pageVars
  <2>1. ServerSound' /\ SavesStand
    BY <1>2, SweepsKeeps, TakesKeeps, SweepEndsKeeps, DayPassesKeeps, WorldKeeps DEF InboxInv
  <2>2. UNCHANGED <<page, rows, edited, agreed, profile, newest, past>>
    BY <1>2 DEF pageVars
  <2>3. PageSound'
    BY <2>2 DEF InboxInv, PageSound, PageTypes, ProfileRead, RowsBuilt
  <2>4. AsStored'
    BY <2>1, <2>2, AsStoredStays DEF InboxInv
  <2> QED BY <2>1, <2>3, <2>4 DEF InboxInv
<1> QED BY <1>1, <1>2 DEF Server, Slots

LEMMA PageInitInv == PageInit => InboxInv
<1>1. SUFFICES ASSUME PageInit PROVE InboxInv
  OBVIOUS
<1>2. \A u \in Users : u \in Nat
  BY PeopleAssumption, FS_CardinalityType
<1>3. ServerTypes
  <2>1. story \in StoryType /\ truth = 0 /\ token = [u \in Users |-> u] /\ withdrawn = {}
        /\ age = [u \in Users |-> 0] /\ stored = [u \in Users |-> Default]
        /\ snapshot = [u \in Users |-> [k \in Builds |-> Blank]] /\ call = [c \in Slots |-> Free]
        /\ warming = [on |-> FALSE, due |-> {}, since |-> FALSE]
    BY <1>1, StoriesAssumption DEF PageInit, ServerInit, StoryType, Builds, Slots
  <2>2. token \in [Users -> Nat] /\ age \in [Users -> 0 .. Unused] /\ stored \in [Users -> Settings]
        /\ snapshot \in [Users -> [Builds -> Got]] /\ call \in [Slots -> Slot] /\ IsFiniteSet(withdrawn)
    BY <1>2, <2>1, SettingsAre, BlankIsGot, FreeIs, FS_EmptySet DEF Unused
  <2>3. warming \in [on : BOOLEAN, due : SUBSET [u : Users, f : Settings], since : BOOLEAN]
    BY <2>1
  <2> QED BY <2>1, <2>2, <2>3 DEF ServerTypes, StoryType
<1>4. SlotsSound /\ SnapshotsBuilt
  BY <1>1, FreeIs DEF PageInit, ServerInit, SlotsSound, SnapshotsBuilt, Slots, Builds
<1>5. PageSound
  <2>1. EMPTY \in [ver : Nat \cup {-1}, b : Builds, f : Settings] /\ EMPTY.ver = -1
    BY SettingsAre DEF EMPTY
  <2>2. page = [open |-> FALSE, visible |-> TRUE, due |-> FALSE, app |-> FALSE] /\ rows = EMPTY
        /\ edited = None /\ agreed = None /\ profile = None /\ newest = [k \in Kinds |-> Nobody]
    BY <1>1 DEF PageInit
  <2> QED BY <2>1, <2>2 DEF PageSound, PageTypes, ProfileRead, RowsBuilt
<1>6. AsStored
  BY <1>1 DEF PageInit, AsStored, Clean
<1> QED BY <1>3, <1>4, <1>5, <1>6 DEF InboxInv, ServerSound

LEMMA PageNextInv == ASSUME InboxInv, [PageNext]_inboxVars PROVE InboxInv'
<1>1. CASE Server
  BY <1>1, ServerKeeps
<1>2. CASE Reader
  BY <1>2, OpensColdKeeps, OpensFromDashboardKeeps, LeavesKeeps, PressesKeeps, ViewKeeps DEF Reader
<1>3. CASE MinutePasses \/ refreshIfDue
  BY <1>3, ViewKeeps, RefreshIfDueKeeps
<1>4. CASE \E c \in Calls : Receives(c) \/ Lost(c)
  BY <1>4, DroppedKeeps, LoadedKeeps, RereadKeeps, RefreshedKeeps, RefusedKeeps, SavedKeeps, LostKeeps DEF Receives
<1>5. CASE UNCHANGED inboxVars
  <2>1. UNCHANGED <<story, serverVars, call, page, rows, edited, agreed, profile, newest, past>>
    BY <1>5 DEF inboxVars, pageVars
  <2>2. ServerSound' /\ stored' = stored
    BY <2>1, StoryIs, CallsAndStory DEF InboxInv, ServerSound, ServerTypes, SlotsSound
  <2>3. PageSound'
    BY <2>1 DEF InboxInv, PageSound, PageTypes, ProfileRead, RowsBuilt
  <2>4. SavesStand
    BY <2>1, <2>2, CallsStand
  <2>5. AsStored'
    BY <2>1, <2>4, AsStoredStays DEF InboxInv
  <2> QED BY <2>2, <2>3, <2>5 DEF InboxInv
<1> QED BY <1>1, <1>2, <1>3, <1>4, <1>5 DEF PageNext

\* The page and what is under way for it are as InboxInv says, whatever is pressed, served or lost.
THEOREM PageInvariance == PageSpec => []InboxInv
<1>1. InboxInv /\ [PageNext]_inboxVars => InboxInv'
  BY PageNextInv
<1> QED BY PageInitInv, <1>1, PTL DEF PageSpec

LEMMA InvariantShows == InboxInv => ShownAsSet
<1>1. SUFFICES ASSUME InboxInv PROVE ShownAsSet
  OBVIOUS
<1>2. PageTyped
  <2>1. \A c \in DOMAIN call : call[c].f \in Settings /\ call[c].at \in {"free", "sent", "asking", "seen", "answered", "failed"}
    BY <1>1 DEF InboxInv, ServerSound, ServerTypes, Slot
  <2>2. warming.due \subseteq [u : Users, f : Settings]
    BY <1>1 DEF InboxInv, ServerSound, ServerTypes
  <2> QED BY <1>1, <2>1, <2>2 DEF InboxInv, ServerSound, ServerTypes, PageSound, PageTypes, PageTyped
<1>3. BuiltAsAsked
  BY <1>1 DEF InboxInv, PageSound, RowsBuilt, BuiltAsAsked
<1>4. SettingsAgree
  <2>1. SUFFICES ASSUME page.open, ~Saving,
                        past \cap {"lost", "raced", "revisit", "reordered"} = {}, ~({"overlap", "failed"} \subseteq past)
                 PROVE  filters = stored[Me]
    BY DEF SettingsAgree
  <2>2. Clean
    BY <2>1 DEF Clean
  <2>3. ~IsSave(NewestSave)
    <3>1. \A c \in Calls : SoundSlot(c, call[c])
      BY <1>1, CallerIs, NobodyIsNoCall DEF InboxInv
    <3> QED BY <2>1, <3>1 DEF IsSave, Saving, SoundSlot
  <2>4. edited = None /\ stored[Me] = saved
    BY <1>1, <2>2, <2>3 DEF InboxInv, AsStored
  <2> QED BY <2>4 DEF filters
<1> QED BY <1>2, <1>3, <1>4 DEF ShownAsSet

\* What is on the page is what was asked for (inboxLogic's inbox), and its switches say what is
\* stored (inboxSettingsLogic's filters), for any settings, requests and workers.
THEOREM PageShowsWhatIsSet == PageSpec => []ShownAsSet
BY PageInvariance, InvariantShows, PTL

\* Where a step takes the rows off a page that stays open, what came back did so from above.
BlankComesFromAbove ==
    page.open /\ page'.open /\ rows.ver # -1 /\ rows'.ver = -1
        => \E c \in Calls : call[c].kind \in {"load", "refresh"} /\ call[c].at = "answered" /\ call'[c] # call[c]

LEMMA RowsChangeBy ==
    ASSUME InboxInv, [PageNext]_inboxVars, page.open, page'.open
    PROVE  UNCHANGED rows \/ \E c \in Calls : Loaded(c) \/ Reread(c) \/ Refreshed(c)
<1>1. Server => UNCHANGED rows
  BY DEF Server, pageVars
<1>2. Reader => UNCHANGED rows
  <2>1. ~Leaves
    <3>1. [page EXCEPT !.open = FALSE, !.due = FALSE].open = FALSE
      BY DEF InboxInv, PageSound, PageTypes
    <3> QED BY <3>1 DEF Leaves
  <2>2. ~OpensCold /\ ~OpensFromDashboard
    BY DEF OpensCold, OpensFromDashboard, Opens
  <2> QED BY <2>1, <2>2 DEF Reader, Presses, Hides, Shows
<1>3. MinutePasses \/ refreshIfDue => UNCHANGED rows
  BY DEF MinutePasses, refreshIfDue
<1>4. \A c \in Calls : Lost(c) \/ Dropped(c) \/ Refused(c) \/ Saved(c) => UNCHANGED rows
  BY DEF Lost, Dropped, Refused, Saved, HandsOver
<1>5. UNCHANGED inboxVars => UNCHANGED rows
  BY DEF inboxVars, pageVars
<1> QED BY <1>1, <1>2, <1>3, <1>4, <1>5 DEF PageNext, Receives

LEMMA StepsBlankFromAbove == ASSUME InboxInv, [PageNext]_inboxVars PROVE BlankComesFromAbove
<1>1. SUFFICES ASSUME page.open, page'.open, rows.ver # -1, rows'.ver = -1
               PROVE  \E c \in Calls : call[c].kind \in {"load", "refresh"} /\ call[c].at = "answered" /\ call'[c] # call[c]
  BY DEF BlankComesFromAbove
<1>2. PICK c \in Calls : Loaded(c) \/ Reread(c) \/ Refreshed(c)
  BY <1>1, RowsChangeBy
<1>3. CASE Loaded(c)
  <2>1. call[c].kind = "load" /\ call[c].at = "answered" /\ Places(Done(c), newest, c, "refresh", filters)
        /\ UNCHANGED <<story, serverVars>>
    BY <1>1, <1>3 DEF Loaded
  <2>2. filters \in Settings /\ "refresh" \in Requests
    BY <1>1, ShownIs DEF InboxInv, Requests
  <2>3. call'[c].at # "answered"
    BY <2>1, <2>2, ReceivedIs
  <2> QED BY <2>1, <2>3
<1>4. CASE Reread(c)
  <2>1. Lands(c) /\ call[c].got # Blank
    BY <1>1, <1>4 DEF Reread
  <2> QED BY <1>1, <2>1, LandsIs
<1>5. CASE Refreshed(c)
  <2>1. call[c].kind = "refresh" /\ call[c].at = "answered" /\ call' = Done(c) /\ UNCHANGED <<story, serverVars>>
    BY <1>1, <1>5 DEF Refreshed
  <2>2. call'[c].at # "answered"
    BY <2>1, DoneKeeps
  <2> QED BY <2>1, <2>2
<1> QED BY <1>2, <1>3, <1>4, <1>5

\* Neither a press nor a re-read nor a failure takes the rows off an open page (inboxLogic): the
\* safety part of ComesRightUnblanked.
THEOREM RowsStayOnThePage == PageSpec => BlankedFromAboveOnly
<1>1. InboxInv /\ [PageNext]_inboxVars => [BlankComesFromAbove]_inboxVars
  BY StepsBlankFromAbove
<1> QED BY PageInvariance, <1>1, PTL DEF BlankedFromAboveOnly, PageSpec, BlankComesFromAbove

=============================================================================
