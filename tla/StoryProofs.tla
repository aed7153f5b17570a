---------------------------- MODULE StoryProofs ----------------------------
(***************************************************************************)
(* Theorems about the story and its save documents, for every text,        *)
(* spelling, limit and log of turns: the story is always well-formed, a    *)
(* save is the story and comes back as it, reading a document changes      *)
(* nothing in it but kinds of actions that nobody knows, a change reaches  *)
(* who it is for and no one else, what is forgotten is what is oldest, and *)
(* the prose that is shown is the end of the story.                        *)
(*                                                                         *)
(* The inductive invariant, IsStory, says of every part of the game that   *)
(* it is what normalisation makes of its input.  Normalisation leaves such *)
(* parts as they are, and this is what makes the strict reader accept what *)
(* was written.                                                            *)
(***************************************************************************)
EXTENDS SaveCodec, SequenceTheorems, FiniteSetTheorems, FunctionTheorems, WellFoundedInduction,
        NaturalsInduction, TLAPS

----------------------------------------------------------------------------

(***************************************************************************)
(* Counting, recursion along a sequence, sequences.                        *)
(***************************************************************************)
(* The smallest number of some.                                            *)
LEMMA Smallest ==
    ASSUME NEW T \in SUBSET Nat, T # {}
    PROVE  \E x \in T : \A y \in T : x <= y
<1>1. PICK x \in T : \A y \in T : ~ (<<y, x>> \in OpToRel(<, Nat))
  BY NatLessThanWellFounded, WFMin
<1>2. \A y \in T : y \in Nat /\ x \in Nat /\ ~(y < x)
  BY <1>1, Zenon DEF OpToRel
<1>. QED  BY <1>2

(* What holds of 0, and of a number up to n whenever of the one before.    *)
LEMMA Counting ==
    ASSUME NEW n \in Nat, NEW T, 0 \in T,
           \A k \in 1..n : k - 1 \in T => k \in T
    PROVE  \A k \in 0..n : k \in T
<1>. SUFFICES ASSUME NEW k \in 0..n, k \notin T
              PROVE  FALSE
    OBVIOUS
<1>. DEFINE Bad == {j \in 0..n : j \notin T}
<1>1. PICK m \in Bad : \A j \in Bad : m <= j
    <2>1. Bad \in SUBSET Nat /\ k \in Bad
        OBVIOUS
    <2>. QED BY <2>1, Smallest
<1>. QED BY <1>1

(* One more at the end.                                                    *)
LEMMA Appended ==
    ASSUME NEW S, NEW seq \in Seq(S), NEW e \in S
    PROVE  /\ Append(seq, e) \in Seq(S)
           /\ Len(Append(seq, e)) = Len(seq) + 1
           /\ Append(seq, e)[Len(seq) + 1] = e
           /\ \A i \in 1..Len(seq) : Append(seq, e)[i] = seq[i]
BY AppendProperties

----------------------------------------------------------------------------
(***************************************************************************)
(* What the folds compute, one entry at a time.                            *)
(***************************************************************************)
(* Some looks at one entry after the other.                                *)
LEMMA SomeSteps ==
    ASSUME NEW seq, Len(seq) \in Nat
    PROVE  \E kept :
               /\ kept[0] = <<>>
               /\ \A n \in 1..Len(seq) : kept[n] = Add(kept[n - 1], seq[n])
               /\ Some(seq) = kept[Len(seq)]
<1>. DEFINE Is(f, m) == f = [n \in 0..m |->
                IF n = 0 THEN <<>> ELSE Add(f[n - 1], seq[n])]
            T == {m \in 0..Len(seq) : \E f : Is(f, m)}
<1>1. 0 \in T
  <2>. DEFINE f == [n \in 0..0 |-> <<>>]
  <2>1. \A n \in 0..0 : f[n] = IF n = 0 THEN <<>> ELSE Add(f[n - 1], seq[n])
    OBVIOUS
  <2>2. f = [n \in 0..0 |-> f[n]]
    OBVIOUS
  <2>. HIDE DEF f
  <2>3. Is(f, 0)
    BY <2>1, <2>2
  <2>. QED  BY <2>3
<1>2. ASSUME NEW m \in 1..Len(seq), m - 1 \in T
      PROVE  m \in T
  <2>1. PICK f : Is(f, m - 1)
    BY <1>2
  <2>. DEFINE g == [n \in 0..m |-> IF n = m THEN Add(f[m - 1], seq[m]) ELSE f[n]]
  <2>2. ASSUME NEW n \in 0..m
        PROVE  g[n] = IF n = 0 THEN <<>> ELSE Add(g[n - 1], seq[n])
    BY <2>1
  <2>3. g = [n \in 0..m |-> g[n]]
    OBVIOUS
  <2>. HIDE DEF g
  <2>4. Is(g, m)
    BY <2>2, <2>3
  <2>. HIDE DEF Is
  <2>. QED  BY <2>4
<1>3. PICK found : Is(found, Len(seq))
  <2>. HIDE DEF T
  <2>1. \A k \in 1..Len(seq) : k - 1 \in T => k \in T
    BY <1>2
  <2>2. \A k \in 0..Len(seq) : k \in T
    BY <1>1, <2>1, Counting, Zenon
  <2>3. Len(seq) \in T
    BY <2>2
  <2>. QED  BY <2>3 DEF T
<1>. DEFINE g == CHOOSE f : Is(f, Len(seq))
<1>4. Is(g, Len(seq))
  BY <1>3
<1>5. Some(seq) = g[Len(seq)]
  BY DEF Some
<1>. HIDE DEF g
<1>6. g[0] = <<>>
  BY <1>4
<1>7. \A n \in 1..Len(seq) : g[n] = Add(g[n - 1], seq[n])
  BY <1>4
<1>. HIDE DEF Is, T
<1>. QED  BY <1>5, <1>6, <1>7

(* Distinct looks at one entry after the other.                            *)
LEMMA DistinctSteps ==
    ASSUME NEW seq, Len(seq) \in Nat
    PROVE  \E kept :
               /\ kept[0] = <<>>
               /\ \A n \in 1..Len(seq) : kept[n] = Keep(kept[n - 1], seq[n])
               /\ Distinct(seq) = kept[Len(seq)]
<1>. DEFINE Is(f, m) == f = [n \in 0..m |->
                IF n = 0 THEN <<>> ELSE Keep(f[n - 1], seq[n])]
            T == {m \in 0..Len(seq) : \E f : Is(f, m)}
<1>1. 0 \in T
  <2>. DEFINE f == [n \in 0..0 |-> <<>>]
  <2>1. \A n \in 0..0 : f[n] = IF n = 0 THEN <<>> ELSE Keep(f[n - 1], seq[n])
    OBVIOUS
  <2>2. f = [n \in 0..0 |-> f[n]]
    OBVIOUS
  <2>. HIDE DEF f
  <2>3. Is(f, 0)
    BY <2>1, <2>2
  <2>. QED  BY <2>3
<1>2. ASSUME NEW m \in 1..Len(seq), m - 1 \in T
      PROVE  m \in T
  <2>1. PICK f : Is(f, m - 1)
    BY <1>2
  <2>. DEFINE g == [n \in 0..m |-> IF n = m THEN Keep(f[m - 1], seq[m]) ELSE f[n]]
  <2>2. ASSUME NEW n \in 0..m
        PROVE  g[n] = IF n = 0 THEN <<>> ELSE Keep(g[n - 1], seq[n])
    BY <2>1
  <2>3. g = [n \in 0..m |-> g[n]]
    OBVIOUS
  <2>. HIDE DEF g
  <2>4. Is(g, m)
    BY <2>2, <2>3
  <2>. HIDE DEF Is
  <2>. QED  BY <2>4
<1>3. PICK found : Is(found, Len(seq))
  <2>. HIDE DEF T
  <2>1. \A k \in 1..Len(seq) : k - 1 \in T => k \in T
    BY <1>2
  <2>2. \A k \in 0..Len(seq) : k \in T
    BY <1>1, <2>1, Counting, Zenon
  <2>3. Len(seq) \in T
    BY <2>2
  <2>. QED  BY <2>3 DEF T
<1>. DEFINE g == CHOOSE f : Is(f, Len(seq))
<1>4. Is(g, Len(seq))
  BY <1>3
<1>5. Distinct(seq) = g[Len(seq)]
  BY DEF Distinct
<1>. HIDE DEF g
<1>6. g[0] = <<>>
  BY <1>4
<1>7. \A n \in 1..Len(seq) : g[n] = Keep(g[n - 1], seq[n])
  BY <1>4
<1>. HIDE DEF Is, T
<1>. QED  BY <1>5, <1>6, <1>7

(* EventList looks at one item after the other.                            *)
LEMMA EventListSteps ==
    ASSUME NEW items, Len(items) \in Nat
    PROVE  \E events :
               /\ events[0] = <<>>
               /\ \A n \in 1..Len(items) : events[n] = Tell(events[n - 1], items[n])
               /\ EventList(items) = events[Len(items)]
<1>. DEFINE Is(f, m) == f = [n \in 0..m |->
                IF n = 0 THEN <<>> ELSE Tell(f[n - 1], items[n])]
            T == {m \in 0..Len(items) : \E f : Is(f, m)}
<1>1. 0 \in T
  <2>. DEFINE f == [n \in 0..0 |-> <<>>]
  <2>1. \A n \in 0..0 : f[n] = IF n = 0 THEN <<>> ELSE Tell(f[n - 1], items[n])
    OBVIOUS
  <2>2. f = [n \in 0..0 |-> f[n]]
    OBVIOUS
  <2>. HIDE DEF f
  <2>3. Is(f, 0)
    BY <2>1, <2>2
  <2>. QED  BY <2>3
<1>2. ASSUME NEW m \in 1..Len(items), m - 1 \in T
      PROVE  m \in T
  <2>1. PICK f : Is(f, m - 1)
    BY <1>2
  <2>. DEFINE g == [n \in 0..m |-> IF n = m THEN Tell(f[m - 1], items[m]) ELSE f[n]]
  <2>2. ASSUME NEW n \in 0..m
        PROVE  g[n] = IF n = 0 THEN <<>> ELSE Tell(g[n - 1], items[n])
    BY <2>1
  <2>3. g = [n \in 0..m |-> g[n]]
    OBVIOUS
  <2>. HIDE DEF g
  <2>4. Is(g, m)
    BY <2>2, <2>3
  <2>. HIDE DEF Is
  <2>. QED  BY <2>4
<1>3. PICK found : Is(found, Len(items))
  <2>. HIDE DEF T
  <2>1. \A k \in 1..Len(items) : k - 1 \in T => k \in T
    BY <1>2
  <2>2. \A k \in 0..Len(items) : k \in T
    BY <1>1, <2>1, Counting, Zenon
  <2>3. Len(items) \in T
    BY <2>2
  <2>. QED  BY <2>3 DEF T
<1>. DEFINE g == CHOOSE f : Is(f, Len(items))
<1>4. Is(g, Len(items))
  BY <1>3
<1>5. EventList(items) = g[Len(items)]
  BY DEF EventList
<1>. HIDE DEF g
<1>6. g[0] = <<>>
  BY <1>4
<1>7. \A n \in 1..Len(items) : g[n] = Tell(g[n - 1], items[n])
  BY <1>4
<1>. HIDE DEF Is, T
<1>. QED  BY <1>5, <1>6, <1>7

(* Offered looks at one action after the other.                            *)
LEMMA OfferedSteps ==
    ASSUME NEW actions, Len(actions) \in Nat
    PROVE  \E kept :
               /\ kept[0] = <<>>
               /\ \A n \in 1..Len(actions) : kept[n] = Offer(kept[n - 1], actions[n])
               /\ Offered(actions) = kept[Len(actions)]
<1>. DEFINE Is(f, m) == f = [n \in 0..m |->
                IF n = 0 THEN <<>> ELSE Offer(f[n - 1], actions[n])]
            T == {m \in 0..Len(actions) : \E f : Is(f, m)}
<1>1. 0 \in T
  <2>. DEFINE f == [n \in 0..0 |-> <<>>]
  <2>1. \A n \in 0..0 : f[n] = IF n = 0 THEN <<>> ELSE Offer(f[n - 1], actions[n])
    OBVIOUS
  <2>2. f = [n \in 0..0 |-> f[n]]
    OBVIOUS
  <2>. HIDE DEF f
  <2>3. Is(f, 0)
    BY <2>1, <2>2
  <2>. QED  BY <2>3
<1>2. ASSUME NEW m \in 1..Len(actions), m - 1 \in T
      PROVE  m \in T
  <2>1. PICK f : Is(f, m - 1)
    BY <1>2
  <2>. DEFINE g == [n \in 0..m |-> IF n = m THEN Offer(f[m - 1], actions[m]) ELSE f[n]]
  <2>2. ASSUME NEW n \in 0..m
        PROVE  g[n] = IF n = 0 THEN <<>> ELSE Offer(g[n - 1], actions[n])
    BY <2>1
  <2>3. g = [n \in 0..m |-> g[n]]
    OBVIOUS
  <2>. HIDE DEF g
  <2>4. Is(g, m)
    BY <2>2, <2>3
  <2>. HIDE DEF Is
  <2>. QED  BY <2>4
<1>3. PICK found : Is(found, Len(actions))
  <2>. HIDE DEF T
  <2>1. \A k \in 1..Len(actions) : k - 1 \in T => k \in T
    BY <1>2
  <2>2. \A k \in 0..Len(actions) : k \in T
    BY <1>1, <2>1, Counting, Zenon
  <2>3. Len(actions) \in T
    BY <2>2
  <2>. QED  BY <2>3 DEF T
<1>. DEFINE g == CHOOSE f : Is(f, Len(actions))
<1>4. Is(g, Len(actions))
  BY <1>3
<1>5. Offered(actions) = g[Len(actions)]
  BY DEF Offered
<1>. HIDE DEF g
<1>6. g[0] = <<>>
  BY <1>4
<1>7. \A n \in 1..Len(actions) : g[n] = Offer(g[n - 1], actions[n])
  BY <1>4
<1>. HIDE DEF Is, T
<1>. QED  BY <1>5, <1>6, <1>7

(* NewCast admits one character after the other.                           *)
LEMMA NewCastSteps ==
    ASSUME NEW characters, NEW distinct, distinct = Distinct(characters),
           Len(distinct) \in Nat
    PROVE  \E admitted :
               /\ admitted[0] = [cast |-> <<>>, reserved |-> Ids(distinct)]
               /\ \A n \in 1..Len(distinct) : admitted[n] = Admit(admitted[n - 1], distinct[n])
               /\ NewCast(characters) = admitted[Len(distinct)].cast
<1>. DEFINE Is(f, m) == f = [n \in 0..m |->
                IF n = 0 THEN [cast |-> <<>>, reserved |-> Ids(distinct)]
                  ELSE Admit(f[n - 1], distinct[n])]
            T == {m \in 0..Len(distinct) : \E f : Is(f, m)}
<1>1. 0 \in T
  <2>. DEFINE f == [n \in 0..0 |-> [cast |-> <<>>, reserved |-> Ids(distinct)]]
  <2>1. \A n \in 0..0 : f[n] = IF n = 0 THEN [cast |-> <<>>, reserved |-> Ids(distinct)]
                  ELSE Admit(f[n - 1], distinct[n])
    OBVIOUS
  <2>2. f = [n \in 0..0 |-> f[n]]
    OBVIOUS
  <2>. HIDE DEF f
  <2>3. Is(f, 0)
    BY <2>1, <2>2
  <2>. QED  BY <2>3
<1>2. ASSUME NEW m \in 1..Len(distinct), m - 1 \in T
      PROVE  m \in T
  <2>1. PICK f : Is(f, m - 1)
    BY <1>2
  <2>. DEFINE g == [n \in 0..m |->
                  IF n = m THEN Admit(f[m - 1], distinct[m]) ELSE f[n]]
  <2>2. ASSUME NEW n \in 0..m
        PROVE  g[n] = IF n = 0 THEN [cast |-> <<>>, reserved |-> Ids(distinct)]
                  ELSE Admit(g[n - 1], distinct[n])
    BY <2>1
  <2>3. g = [n \in 0..m |-> g[n]]
    OBVIOUS
  <2>. HIDE DEF g
  <2>4. Is(g, m)
    BY <2>2, <2>3
  <2>. HIDE DEF Is
  <2>. QED  BY <2>4
<1>3. PICK found : Is(found, Len(distinct))
  <2>. HIDE DEF T
  <2>1. \A k \in 1..Len(distinct) : k - 1 \in T => k \in T
    BY <1>2
  <2>2. \A k \in 0..Len(distinct) : k \in T
    BY <1>1, <2>1, Counting, Zenon
  <2>3. Len(distinct) \in T
    BY <2>2
  <2>. QED  BY <2>3 DEF T
<1>. DEFINE g == CHOOSE f : Is(f, Len(distinct))
<1>4. Is(g, Len(distinct))
  BY <1>3
<1>5. NewCast(characters) = g[Len(distinct)].cast
  BY DEF NewCast
<1>. HIDE DEF g
<1>6. g[0] = [cast |-> <<>>, reserved |-> Ids(distinct)]
  BY <1>4
<1>7. \A n \in 1..Len(distinct) : g[n] = Admit(g[n - 1], distinct[n])
  BY <1>4
<1>. HIDE DEF Is, T
<1>. QED  BY <1>5, <1>6, <1>7

(* UpdatedCast applies one change after the other.                         *)
LEMMA UpdatedCastSteps ==
    ASSUME NEW cast, NEW deltas, Len(deltas) \in Nat
    PROVE  \E applied :
               /\ applied[0] = Untouched(cast)
               /\ \A n \in 1..Len(deltas) : applied[n] = Apply(applied[n - 1], deltas[n])
               /\ UpdatedCast(cast, deltas) = applied[Len(deltas)].cast
<1>. DEFINE Is(f, m) == f = [n \in 0..m |->
                IF n = 0 THEN Untouched(cast) ELSE Apply(f[n - 1], deltas[n])]
            T == {m \in 0..Len(deltas) : \E f : Is(f, m)}
<1>1. 0 \in T
  <2>. DEFINE f == [n \in 0..0 |-> Untouched(cast)]
  <2>1. \A n \in 0..0 : f[n] = IF n = 0 THEN Untouched(cast) ELSE Apply(f[n - 1], deltas[n])
    OBVIOUS
  <2>2. f = [n \in 0..0 |-> f[n]]
    OBVIOUS
  <2>. HIDE DEF f
  <2>3. Is(f, 0)
    BY <2>1, <2>2
  <2>. QED  BY <2>3
<1>2. ASSUME NEW m \in 1..Len(deltas), m - 1 \in T
      PROVE  m \in T
  <2>1. PICK f : Is(f, m - 1)
    BY <1>2
  <2>. DEFINE g == [n \in 0..m |-> IF n = m THEN Apply(f[m - 1], deltas[m]) ELSE f[n]]
  <2>2. ASSUME NEW n \in 0..m
        PROVE  g[n] = IF n = 0 THEN Untouched(cast) ELSE Apply(g[n - 1], deltas[n])
    BY <2>1
  <2>3. g = [n \in 0..m |-> g[n]]
    OBVIOUS
  <2>. HIDE DEF g
  <2>4. Is(g, m)
    BY <2>2, <2>3
  <2>. HIDE DEF Is
  <2>. QED  BY <2>4
<1>3. PICK found : Is(found, Len(deltas))
  <2>. HIDE DEF T
  <2>1. \A k \in 1..Len(deltas) : k - 1 \in T => k \in T
    BY <1>2
  <2>2. \A k \in 0..Len(deltas) : k \in T
    BY <1>1, <2>1, Counting, Zenon
  <2>3. Len(deltas) \in T
    BY <2>2
  <2>. QED  BY <2>3 DEF T
<1>. DEFINE g == CHOOSE f : Is(f, Len(deltas))
<1>4. Is(g, Len(deltas))
  BY <1>3
<1>5. UpdatedCast(cast, deltas) = g[Len(deltas)].cast
  BY DEF UpdatedCast
<1>. HIDE DEF g
<1>6. g[0] = Untouched(cast)
  BY <1>4
<1>7. \A n \in 1..Len(deltas) : g[n] = Apply(g[n - 1], deltas[n])
  BY <1>4
<1>. HIDE DEF Is, T
<1>. QED  BY <1>5, <1>6, <1>7

(* InitialCast meets one character after the other.                        *)
LEMMA InitialCastSteps ==
    ASSUME NEW who, NEW npcs, Len(npcs) \in Nat
    PROVE  \E met :
               /\ met[0] = <<Character(Protagonist, who.name, who.details)>>
               /\ \A n \in 1..Len(npcs) : met[n] = Meet(met[n - 1], npcs[n])
               /\ InitialCast(who, npcs) = met[Len(npcs)]
<1>. DEFINE Is(f, m) == f = [n \in 0..m |->
                IF n = 0 THEN <<Character(Protagonist, who.name, who.details)>>
                  ELSE Meet(f[n - 1], npcs[n])]
            T == {m \in 0..Len(npcs) : \E f : Is(f, m)}
<1>1. 0 \in T
  <2>. DEFINE f == [n \in 0..0 |-> <<Character(Protagonist, who.name, who.details)>>]
  <2>1. \A n \in 0..0 : f[n] = IF n = 0 THEN <<Character(Protagonist, who.name, who.details)>>
                  ELSE Meet(f[n - 1], npcs[n])
    OBVIOUS
  <2>2. f = [n \in 0..0 |-> f[n]]
    OBVIOUS
  <2>. HIDE DEF f
  <2>3. Is(f, 0)
    BY <2>1, <2>2
  <2>. QED  BY <2>3
<1>2. ASSUME NEW m \in 1..Len(npcs), m - 1 \in T
      PROVE  m \in T
  <2>1. PICK f : Is(f, m - 1)
    BY <1>2
  <2>. DEFINE g == [n \in 0..m |->
                  IF n = m THEN Meet(f[m - 1], npcs[m]) ELSE f[n]]
  <2>2. ASSUME NEW n \in 0..m
        PROVE  g[n] = IF n = 0 THEN <<Character(Protagonist, who.name, who.details)>>
                  ELSE Meet(g[n - 1], npcs[n])
    BY <2>1
  <2>3. g = [n \in 0..m |-> g[n]]
    OBVIOUS
  <2>. HIDE DEF g
  <2>4. Is(g, m)
    BY <2>2, <2>3
  <2>. HIDE DEF Is
  <2>. QED  BY <2>4
<1>3. PICK found : Is(found, Len(npcs))
  <2>. HIDE DEF T
  <2>1. \A k \in 1..Len(npcs) : k - 1 \in T => k \in T
    BY <1>2
  <2>2. \A k \in 0..Len(npcs) : k \in T
    BY <1>1, <2>1, Counting, Zenon
  <2>3. Len(npcs) \in T
    BY <2>2
  <2>. QED  BY <2>3 DEF T
<1>. DEFINE g == CHOOSE f : Is(f, Len(npcs))
<1>4. Is(g, Len(npcs))
  BY <1>3
<1>5. InitialCast(who, npcs) = g[Len(npcs)]
  BY DEF InitialCast
<1>. HIDE DEF g
<1>6. g[0] = <<Character(Protagonist, who.name, who.details)>>
  BY <1>4
<1>7. \A n \in 1..Len(npcs) : g[n] = Meet(g[n - 1], npcs[n])
  BY <1>4
<1>. HIDE DEF Is, T
<1>. QED  BY <1>5, <1>6, <1>7

(* Chapters visits one turn after the other.                               *)
LEMMA ChaptersSteps ==
    ASSUME NEW turns, Len(turns) \in Nat, turns # <<>>
    PROVE  \E visited :
               /\ visited[0] = [chapters |-> <<>>, start |-> 1]
               /\ \A n \in 1..Len(turns) : visited[n] = Visit(turns, visited[n - 1], n)
               /\ Chapters(turns) = Close(turns, visited[Len(turns)], Len(turns) + 1).chapters
<1>. DEFINE Is(f, m) == f = [n \in 0..m |->
                IF n = 0 THEN [chapters |-> <<>>, start |-> 1]
                  ELSE Visit(turns, f[n - 1], n)]
            T == {m \in 0..Len(turns) : \E f : Is(f, m)}
<1>1. 0 \in T
  <2>. DEFINE f == [n \in 0..0 |-> [chapters |-> <<>>, start |-> 1]]
  <2>1. \A n \in 0..0 : f[n] = IF n = 0 THEN [chapters |-> <<>>, start |-> 1]
                  ELSE Visit(turns, f[n - 1], n)
    OBVIOUS
  <2>2. f = [n \in 0..0 |-> f[n]]
    OBVIOUS
  <2>. HIDE DEF f
  <2>3. Is(f, 0)
    BY <2>1, <2>2
  <2>. QED  BY <2>3
<1>2. ASSUME NEW m \in 1..Len(turns), m - 1 \in T
      PROVE  m \in T
  <2>1. PICK f : Is(f, m - 1)
    BY <1>2
  <2>. DEFINE g == [n \in 0..m |->
                  IF n = m THEN Visit(turns, f[m - 1], m) ELSE f[n]]
  <2>2. ASSUME NEW n \in 0..m
        PROVE  g[n] = IF n = 0 THEN [chapters |-> <<>>, start |-> 1]
                  ELSE Visit(turns, g[n - 1], n)
    BY <2>1
  <2>3. g = [n \in 0..m |-> g[n]]
    OBVIOUS
  <2>. HIDE DEF g
  <2>4. Is(g, m)
    BY <2>2, <2>3
  <2>. HIDE DEF Is
  <2>. QED  BY <2>4
<1>3. PICK found : Is(found, Len(turns))
  <2>. HIDE DEF T
  <2>1. \A k \in 1..Len(turns) : k - 1 \in T => k \in T
    BY <1>2
  <2>2. \A k \in 0..Len(turns) : k \in T
    BY <1>1, <2>1, Counting, Zenon
  <2>3. Len(turns) \in T
    BY <2>2
  <2>. QED  BY <2>3 DEF T
<1>. DEFINE g == CHOOSE f : Is(f, Len(turns))
<1>4. Is(g, Len(turns))
  BY <1>3
<1>5. Chapters(turns) = Close(turns, g[Len(turns)], Len(turns) + 1).chapters
  BY DEF Chapters
<1>. HIDE DEF g
<1>6. g[0] = [chapters |-> <<>>, start |-> 1]
  BY <1>4
<1>7. \A n \in 1..Len(turns) : g[n] = Visit(turns, g[n - 1], n)
  BY <1>4
<1>. HIDE DEF Is, T
<1>. QED  BY <1>5, <1>6, <1>7

----------------------------------------------------------------------------
(***************************************************************************)
(* Text.                                                                   *)
(***************************************************************************)
OptText == Text \cup {None}

(* Text is what trimming leaves alone, and not blank.                      *)
LEMMA Texts ==
    /\ \A t : t \in Text <=> t \in Raw /\ Trim[t] = t /\ t # ""
    /\ None \notin Text
    /\ \A t \in Text : t \in Raw /\ IsNormal(t)
<1>1. ASSUME NEW t \in Text PROVE t \in Raw /\ Trim[t] = t /\ t # ""
  <2>1. PICK raw \in Raw : t = Trim[raw] /\ t # ""
    BY DEF Text
  <2>2. Trim \in [Raw -> Raw] /\ Trim[Trim[raw]] = Trim[raw]
    BY StoryAssumption
  <2>. QED  BY <2>1, <2>2
<1>2. ASSUME NEW t \in Raw, Trim[t] = t, t # "" PROVE t \in Text
  BY <1>2 DEF Text
<1>3. None \notin Text
  BY <1>1, StoryAssumption
<1>. QED  BY <1>1, <1>2, <1>3 DEF IsNormal

(* What becomes of raw text; text stays as it is.                          *)
LEMMA Opts ==
    /\ \A t \in Raw : /\ Opt(t) \in OptText
                      /\ Opt(t) # None <=> Trim[t] # ""
                      /\ Opt(t) # None => Opt(t) = Trim[t]
    /\ \A t \in Text : Opt(t) = t
<1>1. ASSUME NEW t \in Raw
      PROVE  /\ Trim[t] # "" => Trim[t] \in Text
             /\ Trim[t] # None
  BY StoryAssumption DEF Text
<1>2. \A t \in Raw : /\ Opt(t) \in OptText
                     /\ Opt(t) # None <=> Trim[t] # ""
                     /\ Opt(t) # None => Opt(t) = Trim[t]
  BY <1>1 DEF Opt, OptText
<1>3. \A t \in Text : Opt(t) = t
  BY Texts DEF Opt
<1>. QED  BY <1>2, <1>3

(* Fields of text.                                                         *)
LEMMA OptFields ==
    ASSUME NEW F, NEW fields \in [F -> Raw]
    PROVE  OptAll(fields) \in [F -> OptText]
BY Opts DEF OptAll

----------------------------------------------------------------------------
(***************************************************************************)
(* Lists in which everything comes once.                                   *)
(***************************************************************************)
(* One entry more of a prefix.                                             *)
LEMMA PrefixGrows ==
    ASSUME NEW S, NEW seq \in Seq(S), NEW n \in 1..Len(seq)
    PROVE  /\ SubSeq(seq, 1, n - 1) \in Seq(S)
           /\ Len(SubSeq(seq, 1, n - 1)) = n - 1
           /\ \A i \in 1..n - 1 : SubSeq(seq, 1, n - 1)[i] = seq[i]
           /\ Append(SubSeq(seq, 1, n - 1), seq[n]) = SubSeq(seq, 1, n)
OBVIOUS

(* The whole of a sequence, and none of it.                                *)
LEMMA PrefixEnds ==
    ASSUME NEW S, NEW seq \in Seq(S)
    PROVE  SubSeq(seq, 1, 0) = <<>> /\ SubSeq(seq, 1, Len(seq)) = seq
OBVIOUS

(* What is left is something.                                              *)
LEMMA SomeIsSomething ==
    ASSUME NEW S, NEW seq \in Seq(S)
    PROVE  Some(seq) \in Seq(S \ {None})
<1>1. Len(seq) \in Nat
  OBVIOUS
<1>2. PICK kept : /\ kept[0] = <<>>
                  /\ \A n \in 1..Len(seq) : kept[n] = Add(kept[n - 1], seq[n])
                  /\ Some(seq) = kept[Len(seq)]
  BY <1>1, SomeSteps
<1>. DEFINE P(n) == kept[n] \in Seq(S \ {None})
<1>3. P(0)
  BY <1>1, <1>2
<1>4. ASSUME NEW n \in 1..Len(seq), P(n - 1)
      PROVE  P(n)
  <2>1. seq[n] # None => Append(kept[n - 1], seq[n]) \in Seq(S \ {None})
    BY <1>4, Appended
  <2>. QED  BY <1>2, <1>4, <2>1 DEF Add
<1>5. P(Len(seq))
  <2>. DEFINE T == {n \in 0..Len(seq) : P(n)}
  <2>. HIDE DEF P
  <2>1. 0 \in T
    BY <1>1, <1>3
  <2>2. \A n \in 1..Len(seq) : n - 1 \in T => n \in T
    BY <1>4
  <2>. HIDE DEF T
  <2>3. \A n \in 0..Len(seq) : n \in T
    BY <1>1, <2>1, <2>2, Counting, Zenon
  <2>4. Len(seq) \in T
    BY <1>1, <2>3
  <2>. QED  BY <2>4 DEF T
<1>. QED  BY <1>2, <1>5

Once(seq) == \A i, j \in DOMAIN seq : seq[i] = seq[j] => i = j

(* Every entry comes once, and no new one.                                 *)
LEMMA DistinctIsOnce ==
    ASSUME NEW S, NEW seq \in Seq(S)
    PROVE  Distinct(seq) \in Seq(S) /\ Once(Distinct(seq))
<1>1. Len(seq) \in Nat
  OBVIOUS
<1>2. PICK kept : /\ kept[0] = <<>>
                  /\ \A n \in 1..Len(seq) : kept[n] = Keep(kept[n - 1], seq[n])
                  /\ Distinct(seq) = kept[Len(seq)]
  BY <1>1, DistinctSteps
<1>. DEFINE P(n) == kept[n] \in Seq(S) /\ Once(kept[n])
<1>3. P(0)
  BY <1>1, <1>2 DEF Once
<1>4. ASSUME NEW n \in 1..Len(seq), P(n - 1)
      PROVE  P(n)
  <2>. DEFINE before == kept[n - 1]
  <2>1. before \in Seq(S) /\ Once(before)
    BY <1>4
  <2>2. kept[n] = Keep(before, seq[n])
    BY <1>2
  <2>. HIDE DEF before
  <2>. DEFINE e == seq[n]
              more == Append(before, e)
  <2>3. e \in S
    BY <1>1
  <2>. HIDE DEF e
  <2>4. /\ more \in Seq(S)
        /\ Len(more) = Len(before) + 1
        /\ more[Len(before) + 1] = e
        /\ \A i \in 1..Len(before) : more[i] = before[i]
    BY <2>1, <2>3, Appended
  <2>5. CASE Contains(before, e)
    BY <2>1, <2>2, <2>5 DEF Keep, e
  <2>6. CASE ~Contains(before, e)
    <3>1. kept[n] = more
      BY <2>2, <2>6 DEF Keep, e
    <3>. HIDE DEF more
    <3>2. DOMAIN before = 1..Len(before) /\ Len(before) \in Nat
          /\ DOMAIN more = 1..Len(before) + 1
      BY <2>1, <2>4
    <3>3. \A i \in 1..Len(before) : before[i] # e
      BY <2>6 DEF Contains
    <3>4. Once(more)
      BY <2>1, <2>4, <3>2, <3>3 DEF Once
    <3>. QED  BY <2>4, <3>1, <3>4
  <2>. QED  BY <2>5, <2>6
<1>5. P(Len(seq))
  <2>. DEFINE T == {n \in 0..Len(seq) : P(n)}
  <2>. HIDE DEF P
  <2>1. 0 \in T
    BY <1>1, <1>3
  <2>2. \A n \in 1..Len(seq) : n - 1 \in T => n \in T
    BY <1>4
  <2>. HIDE DEF T
  <2>3. \A n \in 0..Len(seq) : n \in T
    BY <1>1, <2>1, <2>2, Counting, Zenon
  <2>4. Len(seq) \in T
    BY <1>1, <2>3
  <2>. QED  BY <2>4 DEF T
<1>. QED  BY <1>2, <1>5

(* Nothing happens to a list in which every entry comes once.              *)
LEMMA DistinctFixes ==
    ASSUME NEW S, NEW seq \in Seq(S), Once(seq)
    PROVE  Distinct(seq) = seq
<1>1. Len(seq) \in Nat
  OBVIOUS
<1>2. PICK kept : /\ kept[0] = <<>>
                  /\ \A n \in 1..Len(seq) : kept[n] = Keep(kept[n - 1], seq[n])
                  /\ Distinct(seq) = kept[Len(seq)]
  BY <1>1, DistinctSteps
<1>. DEFINE P(n) == kept[n] = SubSeq(seq, 1, n)
<1>3. P(0)
  BY <1>1, <1>2, PrefixEnds
<1>4. ASSUME NEW n \in 1..Len(seq), P(n - 1)
      PROVE  P(n)
  <2>1. ~Contains(SubSeq(seq, 1, n - 1), seq[n])
    BY PrefixGrows DEF Contains, Once
  <2>2. kept[n] = Append(SubSeq(seq, 1, n - 1), seq[n])
    BY <1>2, <1>4, <2>1 DEF Keep
  <2>. QED  BY <2>2, PrefixGrows
<1>5. P(Len(seq))
  <2>. DEFINE T == {n \in 0..Len(seq) : P(n)}
  <2>. HIDE DEF P
  <2>1. 0 \in T
    BY <1>1, <1>3
  <2>2. \A n \in 1..Len(seq) : n - 1 \in T => n \in T
    BY <1>4
  <2>. HIDE DEF T
  <2>3. \A n \in 0..Len(seq) : n \in T
    BY <1>1, <2>1, <2>2, Counting, Zenon
  <2>4. Len(seq) \in T
    BY <1>1, <2>3
  <2>. QED  BY <2>4 DEF T
<1>. QED  BY <1>2, <1>5, PrefixEnds

----------------------------------------------------------------------------
(***************************************************************************)
(* Lists of events.                                                        *)
(***************************************************************************)
Events ==
    {events \in Seq(Text) :
        \A i, j \in DOMAIN events : Key[events[i]] = Key[events[j]] => i = j}

(* One more item.                                                          *)
LEMMA Telling ==
    ASSUME NEW events \in Events, NEW item \in Raw
    PROVE  Tell(events, item) \in Events
<1>1. CASE Opt(item) = None \/ IsTold(events, Trim[item])
  BY <1>1 DEF Tell
<1>2. CASE ~(Opt(item) = None \/ IsTold(events, Trim[item]))
  <2>1. Trim[item] \in Text
    BY <1>2, Opts, Texts DEF OptText
  <2>2. Tell(events, item) = Append(events, Trim[item])
    BY <1>2 DEF Tell
  <2>3. events \in Seq(Text) /\ \A i \in DOMAIN events : Key[events[i]] # Key[Trim[item]]
    BY <1>2 DEF Events, IsTold
  <2>. DEFINE more == Append(events, Trim[item])
  <2>4. /\ more \in Seq(Text)
        /\ Len(more) = Len(events) + 1
        /\ more[Len(events) + 1] = Trim[item]
        /\ \A i \in 1..Len(events) : more[i] = events[i]
    BY <2>1, <2>3, Appended
  <2>5. \A i, j \in DOMAIN events : Key[events[i]] = Key[events[j]] => i = j
    BY DEF Events
  <2>. HIDE DEF more
  <2>6. \A i, j \in DOMAIN more : Key[more[i]] = Key[more[j]] => i = j
    BY <2>3, <2>4, <2>5
  <2>7. more \in Events
    BY <2>4, <2>6 DEF Events
  <2>. QED  BY <2>2, <2>7 DEF more
<1>. QED  BY <1>1, <1>2

(* EventList makes a list of events, whatever the items are.               *)
LEMMA EventListIs ==
    ASSUME NEW items \in Seq(Raw)
    PROVE  EventList(items) \in Events
<1>1. Len(items) \in Nat
  OBVIOUS
<1>2. PICK events : /\ events[0] = <<>>
                    /\ \A n \in 1..Len(items) : events[n] = Tell(events[n - 1], items[n])
                    /\ EventList(items) = events[Len(items)]
  BY <1>1, EventListSteps
<1>. DEFINE P(n) == events[n] \in Events
<1>3. P(0)
  BY <1>1, <1>2 DEF Events
<1>4. ASSUME NEW n \in 1..Len(items), P(n - 1)
      PROVE  P(n)
  BY <1>2, <1>4, Telling
<1>5. P(Len(items))
  <2>. DEFINE T == {n \in 0..Len(items) : P(n)}
  <2>. HIDE DEF P
  <2>1. 0 \in T
    BY <1>1, <1>3
  <2>2. \A n \in 1..Len(items) : n - 1 \in T => n \in T
    BY <1>4
  <2>. HIDE DEF T
  <2>3. \A n \in 0..Len(items) : n \in T
    BY <1>1, <2>1, <2>2, Counting, Zenon
  <2>4. Len(items) \in T
    BY <1>1, <2>3
  <2>. QED  BY <2>4 DEF T
<1>. QED  BY <1>2, <1>5

(* It leaves a list of events as it is.                                    *)
LEMMA EventListFixes ==
    ASSUME NEW items \in Events
    PROVE  EventList(items) = items
<1>1. items \in Seq(Text) /\ Len(items) \in Nat
  BY DEF Events
<1>2. PICK events : /\ events[0] = <<>>
                    /\ \A n \in 1..Len(items) : events[n] = Tell(events[n - 1], items[n])
                    /\ EventList(items) = events[Len(items)]
  BY <1>1, EventListSteps
<1>. DEFINE P(n) == events[n] = SubSeq(items, 1, n)
<1>3. P(0)
  BY <1>1, <1>2, PrefixEnds
<1>4. ASSUME NEW n \in 1..Len(items), P(n - 1)
      PROVE  P(n)
  <2>0. items[n] \in Text
    BY <1>1
  <2>1. Trim[items[n]] = items[n] /\ Opt(items[n]) # None
    BY <2>0, Texts, Opts
  <2>2. ~IsTold(SubSeq(items, 1, n - 1), items[n])
    BY <1>1, PrefixGrows DEF IsTold, Events
  <2>3. events[n] = Append(SubSeq(items, 1, n - 1), items[n])
    BY <1>2, <1>4, <2>1, <2>2 DEF Tell
  <2>. QED  BY <1>1, <2>3, PrefixGrows
<1>5. P(Len(items))
  <2>. DEFINE T == {n \in 0..Len(items) : P(n)}
  <2>. HIDE DEF P
  <2>1. 0 \in T
    BY <1>1, <1>3
  <2>2. \A n \in 1..Len(items) : n - 1 \in T => n \in T
    BY <1>4
  <2>. HIDE DEF T
  <2>3. \A n \in 0..Len(items) : n \in T
    BY <1>1, <2>1, <2>2, Counting, Zenon
  <2>4. Len(items) \in T
    BY <1>1, <2>3
  <2>. QED  BY <2>4 DEF T
<1>. QED  BY <1>1, <1>2, <1>5, PrefixEnds

(* The latest events are events, and not too many.                         *)
LEMMA LatestAreEvents ==
    ASSUME NEW events \in Events, NEW limit \in Nat \ {0}
    PROVE  /\ Latest(events, limit) \in Events
           /\ Len(Latest(events, limit)) <= limit
           /\ Len(events) <= limit => Latest(events, limit) = events
<1>1. events \in Seq(Text) /\ Len(events) \in Nat
  BY DEF Events
<1>2. CASE Len(events) <= limit
  BY <1>2 DEF Latest
<1>3. CASE Len(events) > limit
  <2>. DEFINE from == Len(events) - limit
  <2>1. Latest(events, limit) = SubSeq(events, from + 1, Len(events)) /\ from \in Nat
    BY <1>1, <1>3 DEF Latest
  <2>2. /\ SubSeq(events, from + 1, Len(events)) \in Seq(Text)
        /\ Len(SubSeq(events, from + 1, Len(events))) = limit
        /\ \A i \in 1..limit : SubSeq(events, from + 1, Len(events))[i] = events[from + i]
    BY <1>1, <1>3
  <2>. DEFINE rest == SubSeq(events, from + 1, Len(events))
  <2>3. \A i, j \in DOMAIN events : Key[events[i]] = Key[events[j]] => i = j
    BY DEF Events
  <2>4. \A i \in 1..limit : from + i \in DOMAIN events
    BY <1>1, <1>3
  <2>5. ASSUME NEW i \in 1..limit, NEW j \in 1..limit, Key[rest[i]] = Key[rest[j]]
        PROVE  i = j
    <3>1. rest[i] = events[from + i] /\ rest[j] = events[from + j]
      BY <2>2
    <3>2. from + i = from + j
      BY <2>3, <2>4, <2>5, <3>1
    <3>. QED  BY <2>1, <3>2
  <2>6. DOMAIN rest = 1..limit
    BY <2>2
  <2>. HIDE DEF rest
  <2>7. rest \in Events
    BY <2>2, <2>5, <2>6 DEF Events, rest
  <2>. QED  BY <1>1, <1>3, <2>1, <2>2, <2>7 DEF rest
<1>. QED  BY <1>1, <1>2, <1>3

----------------------------------------------------------------------------
(***************************************************************************)
(* Ranks.                                                                  *)
(***************************************************************************)
(* A smaller part of a finite set has fewer members.                       *)
LEMMA PartsAreSmaller ==
    ASSUME NEW S, IsFiniteSet(S), NEW T \in SUBSET S
    PROVE  /\ IsFiniteSet(T)
           /\ Cardinality(T) \in Nat
           /\ Cardinality(S) \in Nat
           /\ Cardinality(T) <= Cardinality(S)
           /\ T # S => Cardinality(T) < Cardinality(S)
           /\ T # {} => Cardinality(T) >= 1
<1>1. /\ IsFiniteSet(T)
      /\ Cardinality(T) <= Cardinality(S)
      /\ T # S => Cardinality(S) # Cardinality(T)
  BY FS_Subset
<1>2. Cardinality(S) \in Nat
  BY FS_CardinalityType
<1>3. Cardinality(T) \in Nat
  BY <1>1, FS_CardinalityType
<1>4. T # {} => Cardinality(T) # 0
  BY <1>1, FS_EmptySet
<1>. QED  BY <1>1, <1>2, <1>3, <1>4

(* The ranks of the members of a finite set are the numbers up to its      *)
(* size, each for one member.                                              *)
LEMMA RanksCount ==
    ASSUME NEW S \in SUBSET Nat, IsFiniteSet(S)
    PROVE  /\ \A i \in S : Rank(S, i) \in 1..Cardinality(S)
           /\ \A i, j \in S : Rank(S, i) = Rank(S, j) => i = j
           /\ \A n \in 1..Cardinality(S) : \E i \in S : Rank(S, i) = n
<1>1. Cardinality(S) \in Nat
  BY FS_CardinalityType
<1>2. ASSUME NEW i \in S
      PROVE  Rank(S, i) \in 1..Cardinality(S)
  <2>. DEFINE upto == {j \in S : j <= i}
  <2>1. upto \in SUBSET S /\ i \in upto
    OBVIOUS
  <2>. HIDE DEF upto
  <2>2. /\ Cardinality(upto) \in Nat
        /\ Cardinality(upto) <= Cardinality(S)
        /\ Cardinality(upto) >= 1
    BY <2>1, PartsAreSmaller
  <2>. QED  BY <1>1, <2>2 DEF Rank, upto
<1>3. ASSUME NEW i \in S, NEW j \in S, i < j
      PROVE  Rank(S, i) < Rank(S, j)
  <2>. DEFINE few == {k \in S : k <= i}
              many == {k \in S : k <= j}
  <2>0. \A k \in S : k \in Nat
    OBVIOUS
  <2>1. few \in SUBSET many /\ many \in SUBSET S /\ j \in many /\ j \notin few
    <3>1. \A k \in S : k <= i => k <= j
      BY <1>3, <2>0
    <3>2. ~(j <= i) /\ j <= j
      BY <1>3, <2>0
    <3>. QED  BY <3>1, <3>2
  <2>. HIDE DEF few, many
  <2>2. IsFiniteSet(many)
    BY <2>1, PartsAreSmaller
  <2>3. Cardinality(few) < Cardinality(many)
    BY <2>1, <2>2, PartsAreSmaller
  <2>. QED  BY <2>3 DEF Rank, few, many
<1>4. \A i, j \in S : Rank(S, i) = Rank(S, j) => i = j
  <2>. SUFFICES ASSUME NEW i \in S, NEW j \in S, i # j
                PROVE  Rank(S, i) # Rank(S, j)
    OBVIOUS
  <2>1. Rank(S, i) \in Nat /\ Rank(S, j) \in Nat
    BY <1>1, <1>2
  <2>2. i < j \/ j < i
    OBVIOUS
  <2>. QED  BY <1>3, <2>1, <2>2
<1>5. \A n \in 1..Cardinality(S) : \E i \in S : Rank(S, i) = n
  <2>. DEFINE rank == [i \in S |-> Rank(S, i)]
              Places == 1..Cardinality(S)
  <2>1. rank \in [S -> Places] /\ \A i, j \in S : rank[i] = rank[j] => i = j
    BY <1>2, <1>4
  <2>2. IsFiniteSet(Places) /\ Cardinality(Places) = Cardinality(S)
    BY <1>1, FS_Interval
  <2>. HIDE DEF rank, Places
  <2>3. rank \in Injection(S, Places)
    BY <2>1, Fun_IsInj
  <2>4. rank \in Surjection(S, Places)
    BY <2>2, <2>3, FS_Injection
  <2>5. \A n \in Places : \E i \in S : rank[i] = n
    BY <2>4, Fun_SurjectionProperties
  <2>. QED  BY <2>5 DEF rank, Places
<1>. QED  BY <1>2, <1>4, <1>5

(* The earliest n members are as many, if there are so many.               *)
LEMMA EarliestCount ==
    ASSUME NEW S \in SUBSET Nat, IsFiniteSet(S), NEW n \in Nat
    PROVE  /\ Earliest(S, n) \in SUBSET S
           /\ IsFiniteSet(Earliest(S, n))
           /\ Cardinality(Earliest(S, n)) =
                  IF n <= Cardinality(S) THEN n ELSE Cardinality(S)
<1>. DEFINE size == IF n <= Cardinality(S) THEN n ELSE Cardinality(S)
            few == Earliest(S, n)
            rank == [i \in few |-> Rank(S, i)]
<1>1. Cardinality(S) \in Nat
  BY FS_CardinalityType
<1>2. size \in Nat /\ size <= Cardinality(S)
  BY <1>1
<1>3. few \in SUBSET S /\ \A i \in S : i \in few <=> Rank(S, i) <= n
  BY DEF Earliest
<1>4. IsFiniteSet(few)
  BY <1>3, PartsAreSmaller
<1>5. rank \in [few -> 1..size]
  <2>1. \A i \in few : Rank(S, i) \in 1..Cardinality(S) /\ Rank(S, i) <= n
    BY <1>3, RanksCount
  <2>. QED  BY <1>1, <2>1
<1>6. \A i, j \in few : rank[i] = rank[j] => i = j
  BY <1>3, RanksCount
<1>7. \A m \in 1..size : \E i \in few : rank[i] = m
  <2>. SUFFICES ASSUME NEW m \in 1..size PROVE \E i \in few : rank[i] = m
    OBVIOUS
  <2>1. m \in 1..Cardinality(S) /\ m <= n
    BY <1>1
  <2>2. PICK i \in S : Rank(S, i) = m
    BY <2>1, RanksCount
  <2>. QED  BY <1>3, <2>1, <2>2
<1>. HIDE DEF rank, few, size
<1>8. rank \in Bijection(few, 1..size)
  BY <1>5, <1>6, <1>7, Fun_IsBij
<1>9. Cardinality(1..size) = Cardinality(few)
  BY <1>4, <1>8, FS_Bijection DEF ExistsBijection
<1>10. Cardinality(1..size) = size
  BY <1>2, FS_Interval
<1>. QED  BY <1>3, <1>4, <1>9, <1>10 DEF few, size

----------------------------------------------------------------------------
(***************************************************************************)
(* Quick actions.                                                          *)
(***************************************************************************)
Acts == [text : Text, kind : Kind]
Offers ==
    {offers \in Seq(Acts) :
        \A i, j \in DOMAIN offers : Key[offers[i].text] = Key[offers[j].text] => i = j}

(* Whatever it says, the kind of an action becomes one that is known.      *)
LEMMA KindsAreKnown ==
    /\ \A kind : KindOf(kind) \in Kind
    /\ \A kind \in Kind : KindOf(kind) = kind
BY DEF KindOf, Kind

(* One more action.                                                        *)
LEMMA Offering ==
    ASSUME NEW offers \in Offers, NEW a \in Acts
    PROVE  Offer(offers, a) \in Offers
<1>. DEFINE known == \E i \in DOMAIN offers : Key[offers[i].text] = Key[a.text]
<1>1. CASE known
  BY <1>1 DEF Offer
<1>2. CASE ~known
  <2>. DEFINE more == Append(offers, a)
  <2>1. Offer(offers, a) = more
    BY <1>2 DEF Offer
  <2>2. offers \in Seq(Acts)
    BY DEF Offers
  <2>3. /\ more \in Seq(Acts)
        /\ Len(more) = Len(offers) + 1
        /\ more[Len(offers) + 1] = a
        /\ \A i \in 1..Len(offers) : more[i] = offers[i]
    BY <2>2, Appended
  <2>4. \A i, j \in DOMAIN offers : Key[offers[i].text] = Key[offers[j].text] => i = j
    BY DEF Offers
  <2>. HIDE DEF more
  <2>5. \A i, j \in DOMAIN more : Key[more[i].text] = Key[more[j].text] => i = j
    BY <1>2, <2>2, <2>3, <2>4
  <2>6. more \in Offers
    BY <2>3, <2>5 DEF Offers
  <2>. QED  BY <2>1, <2>6
<1>. QED  BY <1>1, <1>2

(* Every action is offered once.                                           *)
LEMMA OfferedIs ==
    ASSUME NEW actions \in Seq(Acts)
    PROVE  Offered(actions) \in Offers
<1>1. Len(actions) \in Nat
  OBVIOUS
<1>2. PICK kept : /\ kept[0] = <<>>
                  /\ \A n \in 1..Len(actions) : kept[n] = Offer(kept[n - 1], actions[n])
                  /\ Offered(actions) = kept[Len(actions)]
  BY <1>1, OfferedSteps
<1>. DEFINE P(n) == kept[n] \in Offers
<1>3. P(0)
  BY <1>1, <1>2 DEF Offers
<1>4. ASSUME NEW n \in 1..Len(actions), P(n - 1)
      PROVE  P(n)
  BY <1>2, <1>4, Offering
<1>5. P(Len(actions))
  <2>. DEFINE T == {n \in 0..Len(actions) : P(n)}
  <2>. HIDE DEF P
  <2>1. 0 \in T
    BY <1>1, <1>3
  <2>2. \A n \in 1..Len(actions) : n - 1 \in T => n \in T
    BY <1>4
  <2>. HIDE DEF T
  <2>3. \A n \in 0..Len(actions) : n \in T
    BY <1>1, <2>1, <2>2, Counting, Zenon
  <2>4. Len(actions) \in T
    BY <1>1, <2>3
  <2>. QED  BY <2>4 DEF T
<1>. QED  BY <1>2, <1>5

(* Offers stay as they are.                                                *)
LEMMA OfferedFixes ==
    ASSUME NEW actions \in Offers
    PROVE  Offered(actions) = actions
<1>1. actions \in Seq(Acts) /\ Len(actions) \in Nat
  BY DEF Offers
<1>2. PICK kept : /\ kept[0] = <<>>
                  /\ \A n \in 1..Len(actions) : kept[n] = Offer(kept[n - 1], actions[n])
                  /\ Offered(actions) = kept[Len(actions)]
  BY <1>1, OfferedSteps
<1>. DEFINE P(n) == kept[n] = SubSeq(actions, 1, n)
<1>3. P(0)
  BY <1>1, <1>2, PrefixEnds
<1>4. ASSUME NEW n \in 1..Len(actions), P(n - 1)
      PROVE  P(n)
  <2>1. \A i \in DOMAIN SubSeq(actions, 1, n - 1) :
            Key[SubSeq(actions, 1, n - 1)[i].text] # Key[actions[n].text]
    BY <1>1, PrefixGrows DEF Offers
  <2>2. kept[n] = Append(SubSeq(actions, 1, n - 1), actions[n])
    BY <1>2, <1>4, <2>1 DEF Offer
  <2>. QED  BY <1>1, <2>2, PrefixGrows
<1>5. P(Len(actions))
  <2>. DEFINE T == {n \in 0..Len(actions) : P(n)}
  <2>. HIDE DEF P
  <2>1. 0 \in T
    BY <1>1, <1>3
  <2>2. \A n \in 1..Len(actions) : n - 1 \in T => n \in T
    BY <1>4
  <2>. HIDE DEF T
  <2>3. \A n \in 0..Len(actions) : n \in T
    BY <1>1, <2>1, <2>2, Counting, Zenon
  <2>4. Len(actions) \in T
    BY <1>1, <2>3
  <2>. QED  BY <2>4 DEF T
<1>. QED  BY <1>1, <1>2, <1>5, PrefixEnds

(* If there are too many, three are chosen.                                *)
LEMMA ThreeAreChosen ==
    ASSUME NEW S, NEW offered \in Seq(S), Len(offered) > QuickActionCount
    PROVE  /\ Chosen(offered) \in SUBSET (1..Len(offered))
           /\ IsFiniteSet(Chosen(offered))
           /\ Cardinality(Chosen(offered)) = QuickActionCount
<1>. DEFINE places == 1..Len(offered)
            leads == {i \in places : \A j \in 1..(i - 1) : offered[j].kind # offered[i].kind}
            first == Earliest(leads, QuickActionCount)
            rest == places \ first
            more == QuickActionCount - Cardinality(first)
            then == Earliest(rest, more)
<1>1. Chosen(offered) = first \cup then
  BY DEF Chosen
<1>2. /\ places \in SUBSET Nat
      /\ IsFiniteSet(places)
      /\ Cardinality(places) = Len(offered)
      /\ Len(offered) \in Nat
  BY FS_Interval
<1>3. leads \in SUBSET places
  OBVIOUS
<1>. HIDE DEF places, leads
<1>4. IsFiniteSet(leads) /\ leads \in SUBSET Nat /\ Cardinality(leads) \in Nat
  BY <1>2, <1>3, PartsAreSmaller
<1>5. /\ first \in SUBSET leads
      /\ IsFiniteSet(first)
      /\ Cardinality(first) \in 0..QuickActionCount
  BY <1>4, EarliestCount DEF QuickActionCount
<1>. HIDE DEF first
<1>6. more \in Nat
  BY <1>5 DEF QuickActionCount
<1>7. /\ IsFiniteSet(rest)
      /\ rest \in SUBSET Nat
      /\ Cardinality(rest) = Len(offered) - Cardinality(first)
  <2>1. places \cap first = first
    BY <1>3, <1>5
  <2>2. IsFiniteSet(rest) /\ Cardinality(rest) = Cardinality(places) - Cardinality(places \cap first)
    BY <1>2, FS_Difference
  <2>3. rest \in SUBSET Nat
    BY <1>2
  <2>. QED  BY <1>2, <2>1, <2>2, <2>3
<1>8. more <= Cardinality(rest)
  BY <1>2, <1>5, <1>7 DEF QuickActionCount
<1>. HIDE DEF more
<1>9. /\ then \in SUBSET rest
      /\ IsFiniteSet(then)
      /\ Cardinality(then) = more
  BY <1>6, <1>7, <1>8, EarliestCount
<1>. HIDE DEF then
<1>10. first \cap then = {}
  BY <1>9
<1>11. /\ IsFiniteSet(first \cup then)
       /\ Cardinality(first \cup then) = Cardinality(first) + Cardinality(then) - 0
  BY <1>5, <1>9, <1>10, FS_Union, FS_EmptySet
<1>12. Cardinality(first) + more = QuickActionCount
  BY <1>5 DEF more, QuickActionCount
<1>13. first \cup then \in SUBSET places
  BY <1>3, <1>5, <1>9
<1>14. Cardinality(first \cup then) = QuickActionCount
  BY <1>5, <1>6, <1>9, <1>11, <1>12 DEF QuickActionCount
<1>. QED  BY <1>1, <1>11, <1>13, <1>14 DEF places

(* One to three, every one once.                                           *)
Quick == {actions \in Offers : Len(actions) \in 1..QuickActionCount}

(* The quick actions are so, unless there are none.                        *)
LEMMA QuickActionsAre ==
    ASSUME NEW actions \in Seq(Acts), QuickActions(actions) # <<>>
    PROVE  QuickActions(actions) \in Quick
<1>. DEFINE offered == Offered(actions)
            chosen == Chosen(offered)
            at == [n \in 1..QuickActionCount |-> CHOOSE i \in chosen : Rank(chosen, i) = n]
            picked == [n \in 1..QuickActionCount |-> offered[at[n]]]
<1>1. offered \in Offers /\ offered \in Seq(Acts) /\ Len(offered) \in Nat
  BY OfferedIs DEF Offers
<1>2. CASE Len(offered) <= QuickActionCount
  <2>1. QuickActions(actions) = offered
    BY <1>2 DEF QuickActions
  <2>. HIDE DEF offered
  <2>2. offered # <<>>
    BY <2>1
  <2>3. Len(offered) \in 1..QuickActionCount
    <3>. DEFINE len == Len(offered)
    <3>1. len # 0
      BY <1>1, <2>2, EmptySeq
    <3>2. len \in Nat /\ len <= 3
      BY <1>1, <1>2 DEF QuickActionCount
    <3>. HIDE DEF len
    <3>3. len \in 1..QuickActionCount
      BY <3>1, <3>2 DEF QuickActionCount
    <3>. QED  BY <3>3 DEF len
  <2>. QED  BY <1>1, <2>1, <2>3 DEF Quick
<1>3. CASE Len(offered) > QuickActionCount
  <2>1. QuickActions(actions) = picked
    BY <1>1, <1>3 DEF QuickActions, QuickActionCount
  <2>. HIDE DEF offered
  <2>2. /\ chosen \in SUBSET (1..Len(offered))
        /\ IsFiniteSet(chosen)
        /\ Cardinality(chosen) = QuickActionCount
    BY <1>1, <1>3, ThreeAreChosen
  <2>. HIDE DEF chosen
  <2>3. \A n \in 1..QuickActionCount : at[n] \in chosen /\ Rank(chosen, at[n]) = n
    <3>1. chosen \in SUBSET Nat
      BY <1>1, <2>2
    <3>2. \A n \in 1..QuickActionCount : \E i \in chosen : Rank(chosen, i) = n
      BY <2>2, <3>1, RanksCount
    <3>. QED  BY <3>2
  <2>. HIDE DEF at
  <2>4. \A n \in 1..QuickActionCount : at[n] \in 1..Len(offered)
    BY <2>2, <2>3
  <2>5. picked \in Seq(Acts) /\ Len(picked) = QuickActionCount
    BY <1>1, <2>4 DEF QuickActionCount
  <2>6. ASSUME NEW m \in DOMAIN picked, NEW n \in DOMAIN picked,
               Key[picked[m].text] = Key[picked[n].text]
        PROVE  m = n
    <3>1. m \in 1..QuickActionCount /\ n \in 1..QuickActionCount
      OBVIOUS
    <3>2. at[m] = at[n]
      BY <1>1, <2>4, <2>6, <3>1 DEF Offers
    <3>. QED  BY <2>3, <3>1, <3>2
  <2>. HIDE DEF picked
  <2>7. picked \in Offers
    BY <2>5, <2>6 DEF Offers
  <2>. QED  BY <2>1, <2>5, <2>7 DEF Quick, QuickActionCount
<1>. QED  BY <1>1, <1>2, <1>3 DEF QuickActionCount

(* Choosing again changes nothing.                                         *)
LEMMA QuickActionsFixes ==
    ASSUME NEW actions \in Quick
    PROVE  QuickActions(actions) = actions
<1>1. actions \in Offers /\ Len(actions) <= QuickActionCount
  BY DEF Quick, Offers, QuickActionCount
<1>. QED  BY <1>1, OfferedFixes DEF QuickActions

----------------------------------------------------------------------------
(***************************************************************************)
(* Ids.                                                                    *)
(***************************************************************************)
(* Different suffixes make different ids.                                  *)
LEMMA SuffixesDiffer ==
    ASSUME NEW id \in Id, NEW m \in Nat, NEW n \in Nat
    PROVE  /\ Suffixed(id, n) \in Id
           /\ Suffixed(id, m) = Suffixed(id, n) => m = n
<1>1. id.suffixes \in Seq(Nat)
  BY DEF Id
<1>2. /\ Append(id.suffixes, n) \in Seq(Nat)
      /\ Append(id.suffixes, m) = Append(id.suffixes, n) => m = n
  BY <1>1, AppendInjective, Appended
<1>3. Suffixed(id, n) \in Id
  BY <1>2 DEF Suffixed, Id
<1>4. /\ Suffixed(id, m).suffixes = Append(id.suffixes, m)
      /\ Suffixed(id, n).suffixes = Append(id.suffixes, n)
  BY DEF Suffixed, Id
<1>. QED  BY <1>2, <1>3, <1>4

(* There is always an id that is not taken.                                *)
LEMMA UniqueIsFree ==
    ASSUME NEW id \in Id, NEW taken, IsFiniteSet(taken)
    PROVE  Unique(id, taken) \in Id /\ Unique(id, taken) \notin taken
<1>1. CASE id \notin taken
  BY <1>1 DEF Unique
<1>2. CASE id \in taken
  <2>. DEFINE Places == 2..(Cardinality(taken) + 2)
              Free == {n \in Places : Suffixed(id, n) \notin taken}
              f == [n \in Places |-> Suffixed(id, n)]
  <2>1. Cardinality(taken) \in Nat
    BY FS_CardinalityType
  <2>2. IsFiniteSet(Places) /\ Cardinality(Places) = Cardinality(taken) + 1 /\ Places \in SUBSET Nat
    BY <2>1, FS_Interval
  <2>3. Free # {}
    <3>. SUFFICES ASSUME Free = {} PROVE FALSE
      OBVIOUS
    <3>1. f \in [Places -> taken]
      OBVIOUS
    <3>2. \A m, n \in Places : f[m] = f[n] => m = n
      BY <2>2, SuffixesDiffer
    <3>. HIDE DEF f, Places, Free
    <3>3. Cardinality(taken) < Cardinality(Places)
      BY <2>1, <2>2
    <3>4. \E m, n \in Places : m # n /\ f[m] = f[n]
      BY <2>2, <3>1, <3>3, FS_PigeonHole, Zenon
    <3>. QED  BY <3>2, <3>4
  <2>4. Free \in SUBSET Nat
    BY <2>2
  <2>. HIDE DEF Free
  <2>5. PICK n \in Free : \A m \in Free : n <= m
    BY <2>3, <2>4, Smallest
  <2>6. \A m \in 2..(n - 1) : Suffixed(id, m) \in taken
    BY <2>1, <2>4, <2>5 DEF Free
  <2>7. n \in Places /\ Suffixed(id, n) \notin taken
    BY <2>5 DEF Free
  <2>. DEFINE least == CHOOSE k \in Places :
                           /\ Suffixed(id, k) \notin taken
                           /\ \A m \in 2..(k - 1) : Suffixed(id, m) \in taken
  <2>8. least \in Places /\ Suffixed(id, least) \notin taken
    BY <2>6, <2>7
  <2>9. Unique(id, taken) = Suffixed(id, least)
    BY <1>2 DEF Unique
  <2>. HIDE DEF least
  <2>10. least \in Nat
    BY <2>2, <2>8
  <2>. QED  BY <2>8, <2>9, <2>10, SuffixesDiffer
<1>. QED  BY <1>1, <1>2

(* The ids of a cast.                                                      *)
OneEach(cast) == \A i, j \in DOMAIN cast : cast[i].id = cast[j].id => i = j

(* There are as many as characters if everybody has one of their own.      *)
LEMMA IdsCount ==
    ASSUME NEW S, NEW cast \in Seq(S)
    PROVE  /\ IsFiniteSet(Ids(cast))
           /\ Cardinality(Ids(cast)) = Len(cast) <=> OneEach(cast)
<1>. DEFINE Places == 1..Len(cast)
            f == [i \in Places |-> cast[i].id]
<1>1. /\ Len(cast) \in Nat
      /\ DOMAIN cast = Places
  OBVIOUS
<1>2. IsFiniteSet(Places) /\ Cardinality(Places) = Len(cast)
  BY <1>1, FS_Interval
<1>3. Ids(cast) = {cast[i].id : i \in Places}
  BY <1>1 DEF Ids
<1>4. f \in [Places -> Ids(cast)] /\ \A t \in Ids(cast) : \E i \in Places : f[i] = t
  BY <1>3
<1>5. OneEach(cast) <=> \A i, j \in Places : f[i] = f[j] => i = j
  BY <1>1 DEF OneEach
<1>. HIDE DEF f, Places
<1>6. f \in Surjection(Places, Ids(cast))
  BY <1>4, Fun_IsSurj
<1>7. /\ IsFiniteSet(Ids(cast))
      /\ Cardinality(Ids(cast)) = Cardinality(Places) <=> f \in Injection(Places, Ids(cast))
  BY <1>2, <1>6, FS_Surjection
<1>8. f \in Injection(Places, Ids(cast)) <=> OneEach(cast)
  BY <1>4, <1>5, Fun_IsInj, Fun_InjectionProperties
<1>. QED  BY <1>2, <1>7, <1>8

(* A cast of people with ids of their own is kept as it is.                *)
LEMMA NewCastFixes ==
    ASSUME NEW S, NEW cast \in Seq(S), OneEach(cast),
           \A c \in S : [c EXCEPT !.id = c.id] = c
    PROVE  NewCast(cast) = cast
<1>1. Len(cast) \in Nat /\ \A n \in 1..Len(cast) : cast[n] \in S
  OBVIOUS
<1>2. Distinct(cast) = cast
  <2>1. Once(cast)
    BY DEF Once, OneEach
  <2>. QED  BY <2>1, DistinctFixes
<1>3. PICK admitted :
          /\ admitted[0] = [cast |-> <<>>, reserved |-> Ids(cast)]
          /\ \A n \in 1..Len(cast) : admitted[n] = Admit(admitted[n - 1], cast[n])
          /\ NewCast(cast) = admitted[Len(cast)].cast
  BY <1>1, <1>2, NewCastSteps
<1>. DEFINE P(n) == admitted[n].cast = SubSeq(cast, 1, n)
<1>4. P(0)
  BY <1>1, <1>3, PrefixEnds
<1>5. ASSUME NEW n \in 1..Len(cast), P(n - 1)
      PROVE  P(n)
  <2>. DEFINE before == SubSeq(cast, 1, n - 1)
  <2>1. cast[n] \in S
    BY <1>1
  <2>2. cast[n].id \notin Ids(before)
    <3>1. /\ Len(before) = n - 1 /\ before \in Seq(S)
          /\ \A i \in 1..n - 1 : before[i] = cast[i]
      BY PrefixGrows
    <3>. HIDE DEF before
    <3>2. DOMAIN before = 1..n - 1
      BY <3>1
    <3>3. \A i \in 1..n - 1 : i \in DOMAIN cast /\ n \in DOMAIN cast /\ i # n
      BY <1>1
    <3>. QED  BY <3>1, <3>2, <3>3 DEF Ids, OneEach
  <2>3. [cast[n] EXCEPT !.id = cast[n].id] = cast[n]
    BY <2>1
  <2>. DEFINE acc == admitted[n - 1]
  <2>4. admitted[n] = Admit(acc, cast[n]) /\ acc.cast = before
    BY <1>3, <1>5
  <2>. HIDE DEF acc, before
  <2>5. Admit(acc, cast[n]).cast = Append(before, cast[n])
    BY <2>2, <2>3, <2>4 DEF Admit
  <2>. QED  BY <2>4, <2>5, PrefixGrows DEF before
<1>6. P(Len(cast))
  <2>. DEFINE T == {n \in 0..Len(cast) : P(n)}
  <2>. HIDE DEF P
  <2>1. 0 \in T
    BY <1>1, <1>4
  <2>2. \A n \in 1..Len(cast) : n - 1 \in T => n \in T
    BY <1>5
  <2>. HIDE DEF T
  <2>3. \A n \in 0..Len(cast) : n \in T
    BY <1>1, <2>1, <2>2, Counting, Zenon
  <2>4. Len(cast) \in T
    BY <1>1, <2>3
  <2>. QED  BY <2>4 DEF T
<1>. QED  BY <1>3, <1>6, PrefixEnds

----------------------------------------------------------------------------
(***************************************************************************)
(* Casts.                                                                  *)
(***************************************************************************)
DetailsOf == [Detail -> OptText]
Souls == {c \in [id : Id, name : Text, details : DetailsOf] : HasDetails(c.details)}

(* The protagonist comes first, and everybody has an id of their own.      *)
Casts ==
    {cast \in Seq(Souls) : cast # <<>> /\ cast[1].id = Protagonist /\ OneEach(cast)}

(* The parts of a cast.                                                    *)
LEMMA CastFacts ==
    ASSUME NEW cast \in Casts
    PROVE  /\ cast \in Seq(Souls)
           /\ Len(cast) \in Nat \ {0}
           /\ 1 \in DOMAIN cast
           /\ DOMAIN cast = 1..Len(cast)
           /\ \A i \in 1..Len(cast) : cast[i] \in Souls
           /\ OneEach(cast)
           /\ IsFiniteSet(Ids(cast))
<1>1. cast \in Seq(Souls) /\ OneEach(cast) /\ cast # <<>>
  BY DEF Casts
<1>2. Len(cast) # 0
  BY <1>1, EmptySeq
<1>. QED  BY <1>1, <1>2, IdsCount

(* A cast is kept as it is.                                                *)
LEMMA CastsAreKept ==
    ASSUME NEW cast \in Casts
    PROVE  NewCast(cast) = cast
<1>1. \A c \in Souls : [c EXCEPT !.id = c.id] = c
  BY DEF Souls
<1>. QED  BY <1>1, CastFacts, NewCastFixes

(* A newcomer under an id that nobody has.                                 *)
LEMMA Newcomer ==
    ASSUME NEW cast \in Casts, NEW c \in Souls, c.id \notin Ids(cast)
    PROVE  /\ Append(cast, c) \in Casts
           /\ Len(Append(cast, c)) = Len(cast) + 1
           /\ \A i \in 1..Len(cast) : Append(cast, c)[i] = cast[i]
           /\ Append(cast, c)[Len(cast) + 1] = c
<1>. DEFINE more == Append(cast, c)
<1>1. /\ more \in Seq(Souls)
      /\ Len(more) = Len(cast) + 1
      /\ \A i \in 1..Len(cast) : more[i] = cast[i]
      /\ more[Len(cast) + 1] = c
  BY CastFacts, Appended
<1>. HIDE DEF more
<1>2. \A i \in 1..Len(cast) : cast[i].id # c.id
  BY CastFacts DEF Ids
<1>3. OneEach(more)
  BY <1>1, <1>2, CastFacts DEF OneEach
<1>4. more # <<>> /\ more[1].id = Protagonist
  BY <1>1, CastFacts DEF Casts
<1>. QED  BY <1>1, <1>3, <1>4 DEF Casts, more

Persons ==
    {p \in [name : Text, details : DetailsOf] : \A f \in Durable : p.details[f] # None}

(* The protagonist alone is a cast.                                        *)
LEMMA ProtagonistAlone ==
    ASSUME NEW who \in Persons
    PROVE  <<Character(Protagonist, who.name, who.details)>> \in Casts
<1>. DEFINE c == Character(Protagonist, who.name, who.details)
<1>1. c \in Souls
  <2>1. Protagonist \in Id
    <3>1. "protagonist" \in Words
      BY StoryAssumption
    <3>2. <<>> \in Seq(Nat)
      OBVIOUS
    <3>. QED  BY <3>1, <3>2 DEF Protagonist, Word, Id
  <2>2. who.name \in Text /\ who.details \in DetailsOf /\ HasDetails(who.details)
    BY DEF Persons, HasDetails, Durable
  <2>3. c \in [id : Id, name : Text, details : DetailsOf] /\ c.details = who.details
    BY <2>1, <2>2 DEF Character
  <2>. HIDE DEF c
  <2>. QED  BY <2>2, <2>3 DEF Souls
<1>2. c.id = Protagonist
  BY DEF Character
<1>. HIDE DEF c
<1>3. <<c>> \in Seq(Souls) /\ Len(<<c>>) = 1 /\ <<c>>[1] = c /\ <<c>> # <<>>
  BY <1>1
<1>4. OneEach(<<c>>)
  BY <1>3 DEF OneEach
<1>. QED  BY <1>2, <1>3, <1>4 DEF Casts, c

(* Somebody else is met.                                                   *)
LEMMA Meeting ==
    ASSUME NEW cast \in Casts, NEW npc \in Persons
    PROVE  Meet(cast, npc) \in Casts
<1>. DEFINE id == Unique(IdFor(npc.name), Ids(cast))
            details == [npc.details EXCEPT !.current_state = NotYetMet]
            c == Character(id, npc.name, details)
<1>1. IdFor(npc.name) \in Id
  <2>1. npc.name \in Raw
    BY Texts DEF Persons
  <2>. QED  BY <2>1, StoryAssumption DEF IdFor
<1>2. id \in Id /\ id \notin Ids(cast)
  BY <1>1, CastFacts, UniqueIsFree
<1>3. NotYetMet \in OptText
  BY CodecAssumption DEF OptText
<1>4. details \in DetailsOf /\ HasDetails(details)
  BY <1>3 DEF Persons, DetailsOf, HasDetails, Durable, Detail
<1>. HIDE DEF id, details
<1>5. c \in Souls /\ c.id = id
  <2>1. npc.name \in Text
    BY DEF Persons
  <2>2. /\ c \in [id : Id, name : Text, details : DetailsOf]
        /\ c.details = details /\ c.id = id
    BY <1>2, <1>4, <2>1 DEF Character
  <2>. HIDE DEF c
  <2>. QED  BY <1>4, <2>2 DEF Souls
<1>6. Meet(cast, npc) = Append(cast, c)
  BY DEF Meet, id, details
<1>. HIDE DEF c
<1>. QED  BY <1>2, <1>5, <1>6, Newcomer

(* So is everybody the world knows of.                                     *)
LEMMA InitialCastIs ==
    ASSUME NEW who \in Persons, NEW npcs \in Seq(Persons)
    PROVE  InitialCast(who, npcs) \in Casts
<1>1. Len(npcs) \in Nat
  OBVIOUS
<1>2. PICK met : /\ met[0] = <<Character(Protagonist, who.name, who.details)>>
                 /\ \A n \in 1..Len(npcs) : met[n] = Meet(met[n - 1], npcs[n])
                 /\ InitialCast(who, npcs) = met[Len(npcs)]
  BY <1>1, InitialCastSteps
<1>. DEFINE P(n) == met[n] \in Casts
<1>3. P(0)
  BY <1>2, ProtagonistAlone
<1>4. ASSUME NEW n \in 1..Len(npcs), P(n - 1)
      PROVE  P(n)
  <2>1. npcs[n] \in Persons
    OBVIOUS
  <2>. QED  BY <1>2, <1>4, <2>1, Meeting
<1>5. P(Len(npcs))
  <2>. DEFINE T == {n \in 0..Len(npcs) : P(n)}
  <2>. HIDE DEF P
  <2>1. 0 \in T
    BY <1>1, <1>3
  <2>2. \A n \in 1..Len(npcs) : n - 1 \in T => n \in T
    BY <1>4
  <2>. HIDE DEF T
  <2>3. \A n \in 0..Len(npcs) : n \in T
    BY <1>1, <2>1, <2>2, Counting, Zenon
  <2>4. Len(npcs) \in T
    BY <1>1, <2>3
  <2>. QED  BY <2>4 DEF T
<1>. QED  BY <1>2, <1>5


----------------------------------------------------------------------------
(***************************************************************************)
(* What a turn does to a cast.                                             *)
(***************************************************************************)
Deltas == [id : Id \cup {None}, name : OptText, details : DetailsOf]

(* What is not told again stays as it was.                                 *)
LEMMA Merged ==
    ASSUME NEW new \in DetailsOf, NEW old \in DetailsOf
    PROVE  /\ Or(new, old) \in DetailsOf
           /\ HasDetails(old) => HasDetails(Or(new, old))
<1>1. DOMAIN old = Detail /\ Durable \subseteq Detail
  BY DEF DetailsOf, Durable, Detail
<1>2. \A f \in Detail : Or(new, old)[f] = IF new[f] = None THEN old[f] ELSE new[f]
  BY <1>1 DEF Or
<1>3. Or(new, old) \in DetailsOf
  BY <1>1 DEF Or, DetailsOf
<1>. QED  BY <1>1, <1>2, <1>3 DEF HasDetails

(* A cast that is the same people as another, or those and newcomers.      *)
Continues(cast, before) ==
    /\ cast \in Casts
    /\ Len(cast) >= Len(before)
    /\ \A i \in 1..Len(before) : cast[i].id = before[i].id

(* Somebody changes, and stays who they are.                               *)
LEMMA Changes ==
    ASSUME NEW acc, acc.cast \in Casts, NEW delta \in Deltas, NEW id
    PROVE  Continues(Change(acc, delta, id).cast, acc.cast)
<1>. DEFINE Changed(c) ==
                IF c.id # id THEN c
                ELSE Character(id, IF delta.name = None THEN c.name ELSE delta.name,
                               Or(delta.details, c.details))
            cast == acc.cast
            more == [i \in DOMAIN cast |-> Changed(cast[i])]
<1>1. Change(acc, delta, id).cast = more
  BY DEF Change
<1>2. ASSUME NEW c \in Souls
      PROVE  Changed(c) \in Souls /\ Changed(c).id = c.id
  <2>1. CASE c.id # id
    BY <2>1
  <2>2. CASE c.id = id
    <3>. DEFINE name == IF delta.name = None THEN c.name ELSE delta.name
                details == Or(delta.details, c.details)
    <3>1. c.id \in Id /\ c.name \in Text /\ c.details \in DetailsOf /\ HasDetails(c.details)
      BY DEF Souls
    <3>2. name \in Text /\ delta.details \in DetailsOf
      BY <3>1 DEF Deltas, OptText
    <3>3. details \in DetailsOf /\ HasDetails(details)
      BY <3>1, <3>2, Merged
    <3>4. Changed(c) = Character(id, name, details)
      BY <2>2
    <3>. HIDE DEF Changed, name, details
    <3>5. Character(id, name, details) \in [id : Id, name : Text, details : DetailsOf]
      BY <2>2, <3>1, <3>2, <3>3 DEF Character
    <3>6. /\ Character(id, name, details).details = details
          /\ Character(id, name, details).id = id
      BY DEF Character
    <3>. QED  BY <2>2, <3>3, <3>4, <3>5, <3>6 DEF Souls
  <2>. QED  BY <2>1, <2>2
<1>3. /\ cast \in Seq(Souls)
      /\ Len(cast) \in Nat \ {0}
      /\ DOMAIN cast = 1..Len(cast)
      /\ \A i \in 1..Len(cast) : cast[i] \in Souls
      /\ OneEach(cast)
      /\ cast[1].id = Protagonist
  BY CastFacts DEF Casts
<1>. HIDE DEF Changed, cast
<1>4. \A i \in 1..Len(cast) : more[i] \in Souls /\ more[i].id = cast[i].id
  BY <1>2, <1>3
<1>5. more \in Seq(Souls) /\ Len(more) = Len(cast) /\ DOMAIN more = 1..Len(cast)
  BY <1>3, <1>4
<1>. HIDE DEF more
<1>6. OneEach(more)
  BY <1>3, <1>4, <1>5 DEF OneEach
<1>7. more # <<>> /\ more[1].id = Protagonist
  BY <1>3, <1>4, <1>5
<1>8. more \in Casts
  BY <1>5, <1>6, <1>7 DEF Casts
<1>. QED  BY <1>1, <1>3, <1>4, <1>5, <1>8 DEF Continues, cast

(* Somebody appears.                                                       *)
LEMMA Introductions ==
    ASSUME NEW acc, acc.cast \in Casts, NEW delta \in Deltas,
           delta.name # None, HasDetails(delta.details)
    PROVE  Continues(Introduce(acc, delta).cast, acc.cast)
<1>. DEFINE asked == IF delta.id = None THEN IdFor(delta.name) ELSE delta.id
            id == Unique(asked, Ids(acc.cast))
            c == Character(id, delta.name, delta.details)
<1>1. delta.name \in Text /\ delta.details \in DetailsOf /\ delta.id \in Id \cup {None}
  BY DEF Deltas, OptText
<1>2. IdFor(delta.name) \in Id
  BY <1>1, Texts, StoryAssumption DEF IdFor
<1>3. asked \in Id
  BY <1>1, <1>2
<1>4. id \in Id /\ id \notin Ids(acc.cast)
  BY <1>3, CastFacts, UniqueIsFree
<1>. HIDE DEF id
<1>5. /\ c \in [id : Id, name : Text, details : DetailsOf]
      /\ c.details = delta.details /\ c.id = id
  BY <1>1, <1>4 DEF Character
<1>6. Introduce(acc, delta).cast = Append(acc.cast, c)
  BY DEF Introduce, id
<1>. HIDE DEF c
<1>7. c \in Souls
  BY <1>5 DEF Souls
<1>8. Len(acc.cast) \in Nat
  BY CastFacts
<1>. QED  BY <1>4, <1>5, <1>6, <1>7, <1>8, Newcomer DEF Continues

(* One change more.                                                        *)
LEMMA Applied ==
    ASSUME NEW acc, acc.cast \in Casts, NEW delta \in Deltas
    PROVE  Continues(Apply(acc, delta).cast, acc.cast)
<1>1. Len(acc.cast) \in Nat
  BY CastFacts
<1>2. Continues(acc.cast, acc.cast)
  BY <1>1 DEF Continues
<1>3. \A id : Continues(Change(acc, delta, id).cast, acc.cast)
  BY Changes
<1>4. delta.name # None /\ HasDetails(delta.details) =>
          Continues(Introduce(acc, delta).cast, acc.cast)
  BY Introductions
<1>. QED  BY <1>2, <1>3, <1>4 DEF Apply

(* All of them: the cast continues.                                        *)
LEMMA UpdatedCastIs ==
    ASSUME NEW cast \in Casts, NEW deltas \in Seq(Deltas)
    PROVE  Continues(UpdatedCast(cast, deltas), cast)
<1>1. Len(deltas) \in Nat /\ Len(cast) \in Nat
  BY CastFacts
<1>2. PICK applied : /\ applied[0] = Untouched(cast)
                     /\ \A n \in 1..Len(deltas) :
                            applied[n] = Apply(applied[n - 1], deltas[n])
                     /\ UpdatedCast(cast, deltas) = applied[Len(deltas)].cast
  BY <1>1, UpdatedCastSteps
<1>. DEFINE P(n) == Continues(applied[n].cast, cast)
<1>3. applied[0].cast = cast
  BY <1>2 DEF Untouched
<1>4. P(0)
  BY <1>1, <1>3 DEF Continues
<1>5. ASSUME NEW n \in 1..Len(deltas), P(n - 1)
      PROVE  P(n)
  <2>. DEFINE acc == applied[n - 1]
  <2>1. deltas[n] \in Deltas /\ acc.cast \in Casts
    BY <1>5 DEF Continues
  <2>2. Continues(Apply(acc, deltas[n]).cast, acc.cast)
    BY <2>1, Applied
  <2>3. Len(acc.cast) \in Nat /\ Len(Apply(acc, deltas[n]).cast) \in Nat
    BY <2>1, <2>2, CastFacts DEF Continues
  <2>4. Continues(acc.cast, cast) /\ applied[n] = Apply(acc, deltas[n])
    BY <1>2, <1>5
  <2>. HIDE DEF acc
  <2>5. Continues(Apply(acc, deltas[n]).cast, cast)
    BY <1>1, <2>2, <2>3, <2>4 DEF Continues
  <2>. QED  BY <2>4, <2>5
<1>6. P(Len(deltas))
  <2>. DEFINE T == {n \in 0..Len(deltas) : P(n)}
  <2>. HIDE DEF P
  <2>1. 0 \in T
    BY <1>1, <1>4
  <2>2. \A n \in 1..Len(deltas) : n - 1 \in T => n \in T
    BY <1>5
  <2>. HIDE DEF T
  <2>3. \A n \in 0..Len(deltas) : n \in T
    BY <1>1, <2>1, <2>2, Counting, Zenon
  <2>4. Len(deltas) \in T
    BY <1>1, <2>3
  <2>. QED  BY <2>4 DEF T
<1>. QED  BY <1>2, <1>6

----------------------------------------------------------------------------
(***************************************************************************)
(* Worlds, turns and memory as domain values.                              *)
(***************************************************************************)
GoodWorlds ==
    {w \in [title : Text, description : Text, playable : Seq(Persons), npcs : Seq(Persons)] :
        Once(w.playable) /\ Once(w.npcs) /\ w.playable # <<>>}
Updates ==
    [facts : [Fact -> OptText], deltas : Seq(Deltas), new : Events, consolidated : Events,
     upcoming : Events \cup {None}]
Turns ==
    [narrative : Text, actions : Quick, update : Updates, starts : BOOLEAN, title : OptText]
Majors(limit) == {m \in [events : Events, limit : {limit}] : Len(m.events) <= limit}
Summaries(limit) ==
    [facts : [Fact -> Text], cast : Casts, major : Majors(limit), upcoming : Events]
Records(limit) == [turn : Turns, summary : Summaries(limit)]

(* A sequence of members of a set is one of members of a larger set.       *)
LEMMA SeqOfMore ==
    ASSUME NEW S, NEW T, S \subseteq T, NEW seq \in Seq(S)
    PROVE  seq \in Seq(T)
OBVIOUS

(* What is a sequence by its entries.                                      *)
LEMMA Entries ==
    ASSUME NEW T, NEW n \in Nat, NEW seq, DOMAIN seq = 1..n, \A i \in 1..n : seq[i] \in T,
           seq = [i \in DOMAIN seq |-> seq[i]]
    PROVE  seq \in Seq(T) /\ Len(seq) = n
OBVIOUS

(* The least of two numbers.                                               *)
LEMMA LeastOfTwo ==
    ASSUME NEW a \in Nat, NEW b \in Nat
    PROVE  Min({a, b}) = IF a <= b THEN a ELSE b
<1>1. CASE a <= b
  <2>1. a \in {a, b} /\ \A y \in {a, b} : a <= y
    BY <1>1
  <2>2. \A x \in {a, b} : (\A y \in {a, b} : x <= y) => x = a
    BY <1>1
  <2>. QED  BY <1>1, <2>1, <2>2 DEF Min
<1>2. CASE ~(a <= b)
  <2>1. b \in {a, b} /\ \A y \in {a, b} : b <= y
    BY <1>2
  <2>2. \A x \in {a, b} : (\A y \in {a, b} : x <= y) => x = b
    BY <1>2
  <2>. QED  BY <1>2, <2>1, <2>2 DEF Min
<1>. QED  BY <1>1, <1>2

(* The greatest of two numbers.                                            *)
LEMMA GreatestOfTwo ==
    ASSUME NEW a \in Int, NEW b \in Int
    PROVE  Max({a, b}) = IF a >= b THEN a ELSE b
<1>1. CASE a >= b
  <2>1. a \in {a, b} /\ \A y \in {a, b} : a >= y
    BY <1>1
  <2>2. \A x \in {a, b} : (\A y \in {a, b} : x >= y) => x = a
    BY <1>1
  <2>. QED  BY <1>1, <2>1, <2>2 DEF Max
<1>2. CASE ~(a >= b)
  <2>1. b \in {a, b} /\ \A y \in {a, b} : b >= y
    BY <1>2
  <2>2. \A x \in {a, b} : (\A y \in {a, b} : x >= y) => x = b
    BY <1>2
  <2>. QED  BY <1>2, <2>1, <2>2 DEF Max
<1>. QED  BY <1>1, <1>2

(* People who are usable.                                                  *)
LEMMA PeopleArePersons ==
    ASSUME NEW wires \in Seq(PersonWire)
    PROVE  People(wires) \in Seq(Persons)
<1>1. ASSUME NEW wire \in PersonWire
      PROVE  Person(wire) \in Persons \cup {None}
  <2>1. wire.name \in Raw /\ wire.details \in [Detail -> Raw]
    BY DEF PersonWire
  <2>2. OptAll(wire.details) \in DetailsOf
    BY <2>1, OptFields DEF DetailsOf
  <2>3. Opt(wire.name) # None => Opt(wire.name) \in Text
    BY <2>1, Opts DEF OptText
  <2>. DEFINE details == OptAll(wire.details)
              p == [name |-> Opt(wire.name), details |-> details]
  <2>. HIDE DEF details
  <2>4. CASE Opt(wire.name) = None \/ \E f \in Durable : details[f] = None
    BY <2>4 DEF Person, details
  <2>5. CASE ~(Opt(wire.name) = None \/ \E f \in Durable : details[f] = None)
    <3>1. Person(wire) = p
      BY <2>5 DEF Person, details
    <3>2. p \in [name : Text, details : DetailsOf] /\ p.details = details
      BY <2>2, <2>3, <2>5 DEF details
    <3>. HIDE DEF p
    <3>3. p \in Persons
      BY <2>5, <3>2 DEF Persons
    <3>. QED  BY <3>1, <3>3
  <2>. QED  BY <2>4, <2>5
<1>. DEFINE all == [i \in DOMAIN wires |-> Person(wires[i])]
<1>2. all \in Seq(Persons \cup {None})
  BY <1>1
<1>3. People(wires) = Some(all)
  BY DEF People
<1>. HIDE DEF all
<1>4. Some(all) \in Seq((Persons \cup {None}) \ {None})
  BY <1>2, SomeIsSomething
<1>. QED  BY <1>3, <1>4, SeqOfMore

(* A world that is accepted.                                               *)
LEMMA WorldIs ==
    ASSUME NEW wire \in WorldWire, NEW limits \in Limits, WorldOf(wire, limits) # None
    PROVE  WorldOf(wire, limits) \in GoodWorlds
<1>. DEFINE playable == Distinct(People(wire.characters))
            npcs == Distinct(People(wire.npcs))
            few == SubSeq(npcs, 1, Min({Len(npcs), limits.npcs}))
            w == [title |-> Opt(wire.title), description |-> Opt(wire.description),
                  playable |-> playable, npcs |-> few]
<1>1. /\ wire.title \in Raw /\ wire.description \in Raw
      /\ wire.characters \in Seq(PersonWire) /\ wire.npcs \in Seq(PersonWire)
  BY DEF WorldWire
<1>2. /\ playable \in Seq(Persons) /\ Once(playable)
      /\ npcs \in Seq(Persons) /\ Once(npcs)
  BY <1>1, PeopleArePersons, DistinctIsOnce
<1>3. /\ Opt(wire.title) # None /\ Opt(wire.description) # None
      /\ ~(Len(playable) < limits.playable)
      /\ WorldOf(wire, limits) = w
  BY DEF WorldOf
<1>4. Opt(wire.title) \in Text /\ Opt(wire.description) \in Text
  BY <1>1, <1>3, Opts DEF OptText
<1>. HIDE DEF npcs, playable
<1>5. few \in Seq(Persons) /\ Once(few)
  <2>. DEFINE n == Min({Len(npcs), limits.npcs})
  <2>1. n \in 0..Len(npcs)
    <3>1. Len(npcs) \in Nat /\ limits.npcs \in Nat
      BY <1>2 DEF Limits
    <3>2. n = IF Len(npcs) <= limits.npcs THEN Len(npcs) ELSE limits.npcs
      BY <3>1, LeastOfTwo
    <3>. HIDE DEF n
    <3>. QED  BY <3>1, <3>2
  <2>. HIDE DEF n
  <2>2. /\ SubSeq(npcs, 1, n) \in Seq(Persons)
        /\ Len(SubSeq(npcs, 1, n)) = n
        /\ \A i \in 1..n : SubSeq(npcs, 1, n)[i] = npcs[i]
        /\ DOMAIN SubSeq(npcs, 1, n) = 1..n
        /\ \A i \in 1..n : i \in DOMAIN npcs
    BY <1>2, <2>1
  <2>3. few = SubSeq(npcs, 1, n)
    BY DEF n
  <2>. HIDE DEF few
  <2>. QED  BY <1>2, <2>2, <2>3 DEF Once
<1>. HIDE DEF few
<1>6. playable # <<>>
  <2>1. limits.playable > 0 /\ limits.playable \in Nat
    BY DEF Limits
  <2>. QED  BY <1>2, <1>3, <2>1
<1>7. /\ w \in [title : Text, description : Text, playable : Seq(Persons), npcs : Seq(Persons)]
      /\ w.playable = playable /\ w.npcs = few
  BY <1>2, <1>4, <1>5
<1>. HIDE DEF w
<1>. QED  BY <1>2, <1>3, <1>5, <1>6, <1>7 DEF GoodWorlds

(* An update, whatever arrives.                                            *)
LEMMA UpdateIs ==
    ASSUME NEW wire \in UpdateWire
    PROVE  Update(wire) \in Updates
<1>1. /\ wire.facts \in [Fact -> Raw] /\ wire.deltas \in Seq(DeltaWire)
      /\ wire.new \in Seq(Raw) /\ wire.consolidated \in Seq(Raw)
      /\ wire.upcoming \in Seq(Raw) \cup {None}
  BY DEF UpdateWire
<1>2. ASSUME NEW d \in DeltaWire
      PROVE  Delta(d) \in Deltas
  <2>1. d.id \in Id \cup {None} /\ d.name \in Raw /\ d.details \in [Detail -> Raw]
    BY DEF DeltaWire
  <2>2. Opt(d.name) \in OptText /\ OptAll(d.details) \in DetailsOf
    BY <2>1, Opts, OptFields DEF DetailsOf
  <2>. QED  BY <2>1, <2>2 DEF Delta, Deltas
<1>3. [i \in DOMAIN wire.deltas |-> Delta(wire.deltas[i])] \in Seq(Deltas)
  <2>. DEFINE all == [i \in DOMAIN wire.deltas |-> Delta(wire.deltas[i])]
  <2>1. /\ Len(wire.deltas) \in Nat /\ DOMAIN wire.deltas = 1..Len(wire.deltas)
        /\ \A i \in 1..Len(wire.deltas) : wire.deltas[i] \in DeltaWire
    BY <1>1
  <2>2. \A i \in 1..Len(wire.deltas) : Delta(wire.deltas[i]) \in Deltas
    BY <1>2, <2>1
  <2>3. /\ DOMAIN all = 1..Len(wire.deltas) /\ all = [i \in DOMAIN all |-> all[i]]
        /\ \A i \in 1..Len(wire.deltas) : all[i] \in Deltas
    BY <2>1, <2>2
  <2>. HIDE DEF all
  <2>4. all \in Seq(Deltas)
    BY <2>1, <2>3, Entries, Zenon
  <2>. QED  BY <2>4 DEF all
<1>4. OptAll(wire.facts) \in [Fact -> OptText]
  BY <1>1, OptFields
<1>5. /\ EventList(wire.new) \in Events /\ EventList(wire.consolidated) \in Events
      /\ (IF wire.upcoming = None THEN None ELSE EventList(wire.upcoming)) \in Events \cup {None}
  BY <1>1, EventListIs
<1>. QED  BY <1>3, <1>4, <1>5 DEF Update, Updates

(* A turn that is accepted.                                                *)
LEMMA TurnIs ==
    ASSUME NEW wire \in TurnWire, TurnOf(wire) # None
    PROVE  TurnOf(wire) \in Turns
<1>. DEFINE acts == [i \in DOMAIN wire.actions |-> Action(wire.actions[i])]
            actions == QuickActions(Some(acts))
<1>1. /\ wire.narrative \in Raw /\ wire.actions \in Seq(ActionWire)
      /\ wire.update \in UpdateWire /\ wire.starts \in BOOLEAN /\ wire.title \in Raw
  BY DEF TurnWire
<1>2. ASSUME NEW a \in ActionWire
      PROVE  Action(a) \in Acts \cup {None}
  <2>1. a.text \in Raw
    BY DEF ActionWire
  <2>2. Opt(a.text) # None => Opt(a.text) \in Text
    BY <2>1, Opts DEF OptText
  <2>3. KindOf(a.kind) \in Kind
    BY KindsAreKnown
  <2>4. Opt(a.text) # None => [text |-> Opt(a.text), kind |-> KindOf(a.kind)] \in Acts
    BY <2>2, <2>3 DEF Acts
  <2>. QED  BY <2>4 DEF Action
<1>3. acts \in Seq(Acts \cup {None})
  BY <1>1, <1>2
<1>. HIDE DEF acts
<1>4. Some(acts) \in Seq((Acts \cup {None}) \ {None})
  BY <1>3, SomeIsSomething
<1>5. Some(acts) \in Seq(Acts)
  BY <1>4, SeqOfMore
<1>6. /\ Opt(wire.narrative) # None /\ actions # <<>>
      /\ TurnOf(wire) = [narrative |-> Opt(wire.narrative), actions |-> actions,
                         update |-> Update(wire.update), starts |-> wire.starts,
                         title |-> Opt(wire.title)]
  BY DEF TurnOf, acts
<1>7. actions \in Quick
  BY <1>5, <1>6, QuickActionsAre
<1>. HIDE DEF actions
<1>8. Opt(wire.narrative) \in Text /\ Opt(wire.title) \in OptText
  BY <1>1, <1>6, Opts DEF OptText
<1>9. Update(wire.update) \in Updates
  BY <1>1, UpdateIs
<1>. QED  BY <1>1, <1>6, <1>7, <1>8, <1>9 DEF Turns

(* The latest of a list of events, kept with their limit.                  *)
LEMMA MajorsAre ==
    ASSUME NEW events \in Events, NEW limit \in Nat \ {0}
    PROVE  MajorEvents(events, limit) \in Majors(limit)
<1>. DEFINE m == MajorEvents(events, limit)
<1>1. /\ m \in [events : Events, limit : {limit}]
      /\ m.events = Latest(events, limit)
  BY LatestAreEvents DEF MajorEvents
<1>. HIDE DEF m
<1>. QED  BY <1>1, LatestAreEvents DEF Majors, m

(* Nothing has happened yet.                                               *)
LEMMA NoEvents == <<>> \in Events
BY DEF Events

(* The memory before the first turn.                                       *)
LEMMA InitialSummaryIs ==
    ASSUME NEW g, g.world \in GoodWorlds, g.position \in DOMAIN g.world.playable,
           g.limits \in Limits
    PROVE  InitialSummary(g) \in Summaries(g.limits.major_events)
<1>. DEFINE who == g.world.playable[g.position]
<1>1. /\ g.world.playable \in Seq(Persons) /\ g.world.npcs \in Seq(Persons)
      /\ g.world.description \in Text
  BY DEF GoodWorlds
<1>2. who \in Persons
  BY <1>1
<1>. HIDE DEF who
<1>3. InitialCast(who, g.world.npcs) \in Casts
  BY <1>1, <1>2, InitialCastIs
<1>4. NewCast(InitialCast(who, g.world.npcs)) \in Casts
  BY <1>3, CastsAreKept
<1>5. g.limits.major_events \in Nat \ {0}
  BY DEF Limits
<1>6. MajorEvents(<<>>, g.limits.major_events) \in Majors(g.limits.major_events)
  BY <1>5, MajorsAre, NoEvents
<1>7. [world |-> g.world.description, current_situation |-> NotYetBegun] \in [Fact -> Text]
  <2>. DEFINE facts == [world |-> g.world.description, current_situation |-> NotYetBegun]
  <2>1. DOMAIN facts = Fact /\ facts = [f \in DOMAIN facts |-> facts[f]]
    BY DEF Fact
  <2>2. \A f \in Fact : facts[f] \in Text
    <3>1. NotYetBegun \in Text
      BY CodecAssumption
    <3>2. facts["world"] = g.world.description /\ facts["current_situation"] = NotYetBegun
      OBVIOUS
    <3>. HIDE DEF facts
    <3>. QED  BY <1>1, <3>1, <3>2 DEF Fact
  <2>. HIDE DEF facts
  <2>3. facts \in [Fact -> Text]
    BY <2>1, <2>2
  <2>. QED  BY <2>3 DEF facts
<1>. QED  BY <1>4, <1>6, <1>7, NoEvents DEF InitialSummary, Summaries, who

(* The memory after one more.                                              *)
LEMMA UpdatedIs ==
    ASSUME NEW limit \in Nat \ {0}, NEW s \in Summaries(limit), NEW update \in Updates
    PROVE  Updated(s, update) \in Summaries(limit)
<1>1. /\ s.facts \in [Fact -> Text] /\ s.cast \in Casts /\ s.upcoming \in Events
      /\ s.major.events \in Events /\ s.major.limit = limit
  BY DEF Summaries, Majors
<1>2. /\ update.facts \in [Fact -> OptText] /\ update.deltas \in Seq(Deltas)
      /\ update.new \in Events /\ update.consolidated \in Events
      /\ update.upcoming \in Events \cup {None}
  BY DEF Updates
<1>3. Or(update.facts, s.facts) \in [Fact -> Text]
  BY <1>1, <1>2 DEF Or, OptText
<1>4. UpdatedCast(s.cast, update.deltas) \in Casts
  BY <1>1, <1>2, UpdatedCastIs DEF Continues
<1>5. UpdatedMajor(s.major, update.consolidated, update.new) \in Majors(limit)
  <2>. DEFINE base == IF update.consolidated = <<>> THEN s.major.events
                      ELSE update.consolidated
  <2>1. \A events \in Events : events \in Seq(Raw)
    BY Texts, SeqOfMore DEF Events
  <2>2. base \in Seq(Raw) /\ update.new \in Seq(Raw)
    BY <1>1, <1>2, <2>1
  <2>. HIDE DEF base
  <2>3. base \o update.new \in Seq(Raw)
    BY <2>2
  <2>4. EventList(base \o update.new) \in Events
    BY <2>3, EventListIs
  <2>. QED  BY <1>1, <2>4, MajorsAre DEF UpdatedMajor, base
<1>. QED  BY <1>1, <1>2, <1>3, <1>4, <1>5 DEF Updated, Summaries

----------------------------------------------------------------------------
(***************************************************************************)
(* The game as a domain value, whatever is done with it.                   *)
(***************************************************************************)
Stories(limits) ==
    {g \in [world : GoodWorlds, position : Nat, limits : {limits}, original : Limits,
            turns : Seq(Records(limits.major_events))] :
        g.position \in DOMAIN g.world.playable}

(* The inductive invariant: every part is what it is made to be, and the   *)
(* memory after every turn is within the limits of the game.               *)
IsStory(g) == g.limits \in Limits /\ g \in Stories(g.limits)

(* The parts of a story.                                                   *)
LEMMA StoryFacts ==
    ASSUME NEW g, IsStory(g)
    PROVE  /\ g = [world |-> g.world, position |-> g.position, limits |-> g.limits,
                   original |-> g.original, turns |-> g.turns]
           /\ g.world \in GoodWorlds
           /\ g.position \in Nat /\ g.position \in DOMAIN g.world.playable
           /\ g.limits \in Limits /\ g.original \in Limits
           /\ g.limits.major_events \in Nat \ {0}
           /\ g.turns \in Seq(Records(g.limits.major_events))
           /\ Len(g.turns) \in Nat
           /\ DOMAIN g.turns = 1..Len(g.turns)
<1>1. g.limits \in Limits /\ g \in Stories(g.limits)
  BY DEF IsStory
<1>2. /\ g \in [world : GoodWorlds, position : Nat, limits : {g.limits}, original : Limits,
                turns : Seq(Records(g.limits.major_events))]
      /\ g.position \in DOMAIN g.world.playable
  BY <1>1 DEF Stories
<1>3. g.turns \in Seq(Records(g.limits.major_events))
  BY <1>2
<1>4. g.limits.major_events \in Nat \ {0}
  BY <1>1 DEF Limits
<1>. QED  BY <1>1, <1>2, <1>3, <1>4

(* Parts that make a story.                                                *)
LEMMA StoryOf ==
    ASSUME NEW world \in GoodWorlds, NEW position \in DOMAIN world.playable,
           NEW limits \in Limits, NEW original \in Limits,
           NEW turns \in Seq(Records(limits.major_events))
    PROVE  IsStory([world |-> world, position |-> position, limits |-> limits,
                    original |-> original, turns |-> turns])
<1>. DEFINE g == [world |-> world, position |-> position, limits |-> limits,
                  original |-> original, turns |-> turns]
<1>1. position \in Nat
  <2>1. world.playable \in Seq(Persons)
    BY DEF GoodWorlds
  <2>. QED  BY <2>1
<1>2. /\ g \in [world : GoodWorlds, position : Nat, limits : {limits}, original : Limits,
                turns : Seq(Records(limits.major_events))]
      /\ g.limits = limits /\ g.position = position /\ g.world = world
  BY <1>1
<1>. HIDE DEF g
<1>3. IsStory(g)
  BY <1>2 DEF IsStory, Stories
<1>. QED  BY <1>3 DEF g

(* A story with another log.                                               *)
LEMMA StoryWithTurns ==
    ASSUME NEW g, IsStory(g), NEW turns \in Seq(Records(g.limits.major_events))
    PROVE  IsStory([g EXCEPT !.turns = turns]) /\ [g EXCEPT !.turns = turns].turns = turns
<1>1. PICK world, position, limits, original, log :
          /\ g = [world |-> world, position |-> position, limits |-> limits,
                  original |-> original, turns |-> log]
          /\ world \in GoodWorlds
          /\ position \in DOMAIN world.playable
          /\ limits \in Limits /\ original \in Limits
  <2>1. /\ g = [world |-> g.world, position |-> g.position, limits |-> g.limits,
                original |-> g.original, turns |-> g.turns]
        /\ g.world \in GoodWorlds
        /\ g.position \in DOMAIN g.world.playable
        /\ g.limits \in Limits /\ g.original \in Limits
    BY StoryFacts
  <2>. QED  BY <2>1, Zenon
<1>. DEFINE with == [world |-> world, position |-> position, limits |-> limits,
                     original |-> original, turns |-> turns]
<1>2. [g EXCEPT !.turns = turns] = with
  BY <1>1
<1>3. limits = g.limits
  BY <1>1
<1>4. IsStory(with)
  BY <1>1, <1>3, StoryOf
<1>5. with.turns = turns
  OBVIOUS
<1>. HIDE DEF with
<1>. QED  BY <1>2, <1>4, <1>5

(* The memory at any place of the log.                                     *)
LEMMA SummariesAre ==
    ASSUME NEW g, IsStory(g), NEW n \in 0..Len(g.turns)
    PROVE  SummaryAt(g, n) \in Summaries(g.limits.major_events)
<1>1. CASE n = 0
  <2>1. InitialSummary(g) \in Summaries(g.limits.major_events)
    BY StoryFacts, InitialSummaryIs
  <2>. QED  BY <1>1, <2>1 DEF SummaryAt
<1>2. CASE n # 0
  <2>1. n \in 1..Len(g.turns)
    BY <1>2, StoryFacts
  <2>2. g.turns[n] \in Records(g.limits.major_events)
    BY <2>1, StoryFacts
  <2>. QED  BY <1>2, <2>2 DEF SummaryAt, Records
<1>. QED  BY <1>1, <1>2

(* A new game is a story.                                                  *)
LEMMA Begun ==
    ASSUME Init
    PROVE  IsStory(game)
<1>1. PICK wire \in Worlds, limits \in AllLimits :
          /\ WorldOf(wire, limits) # None
          /\ \E position \in DOMAIN WorldOf(wire, limits).playable :
                 game = Start(WorldOf(wire, limits), position, limits)
  BY DEF Init
<1>2. wire \in WorldWire /\ limits \in Limits
  BY StoryAssumption
<1>. DEFINE world == WorldOf(wire, limits)
<1>3. world \in GoodWorlds
  BY <1>1, <1>2, WorldIs
<1>4. PICK position \in DOMAIN world.playable : game = Start(world, position, limits)
  BY <1>1
<1>. HIDE DEF world
<1>5. <<>> \in Seq(Records(limits.major_events))
  OBVIOUS
<1>6. game = [world |-> world, position |-> position, limits |-> limits,
              original |-> limits, turns |-> <<>>]
  BY <1>4 DEF Start
<1>. QED  BY <1>2, <1>3, <1>5, <1>6, StoryOf

(* A turn makes a story of a story.                                        *)
LEMMA Continued ==
    ASSUME NEW g, IsStory(g), NEW turn \in Turns
    PROVE  /\ IsStory(Commit(g, turn))
           /\ Commit(g, turn).turns =
                  Append(g.turns, [turn |-> turn,
                                   summary |-> Updated(CurrentSummary(g), turn.update)])
<1>. DEFINE r == [turn |-> turn, summary |-> Updated(CurrentSummary(g), turn.update)]
            limit == g.limits.major_events
<1>1. CurrentSummary(g) \in Summaries(limit)
  BY StoryFacts, SummariesAre DEF CurrentSummary
<1>2. limit \in Nat \ {0} /\ turn.update \in Updates
  BY StoryFacts DEF Turns
<1>3. r \in Records(limit)
  BY <1>1, <1>2, UpdatedIs DEF Records
<1>. HIDE DEF r
<1>4. Append(g.turns, r) \in Seq(Records(limit))
  BY <1>3, StoryFacts, Appended
<1>5. Commit(g, turn) = [g EXCEPT !.turns = Append(g.turns, r)]
  BY DEF Commit, r
<1>6. /\ IsStory([g EXCEPT !.turns = Append(g.turns, r)])
      /\ [g EXCEPT !.turns = Append(g.turns, r)].turns = Append(g.turns, r)
  BY <1>4, StoryWithTurns DEF limit
<1>. QED  BY <1>5, <1>6 DEF r

(* So does undoing turns.                                                  *)
LEMMA Undone ==
    ASSUME NEW g, IsStory(g), NEW n \in 0..Len(g.turns)
    PROVE  IsStory([g EXCEPT !.turns = SubSeq(@, 1, n)])
<1>1. SubSeq(g.turns, 1, n) \in Seq(Records(g.limits.major_events))
  BY StoryFacts
<1>. QED  BY <1>1, StoryWithTurns

(* Cutting what is remembered after a turn.                                *)
LEMMA CutIs ==
    ASSUME NEW limit \in Nat \ {0}, NEW r \in Records(limit), NEW other \in Nat \ {0}
    PROVE  /\ Cut(r, other) \in Records(other)
           /\ Cut(r, limit) = r
<1>. DEFINE s == r.summary
<1>1. r.turn \in Turns /\ s \in Summaries(limit) /\ r = [turn |-> r.turn, summary |-> s]
  BY DEF Records
<1>2. /\ s.facts \in [Fact -> Text] /\ s.cast \in Casts /\ s.upcoming \in Events
      /\ s.major \in Majors(limit)
      /\ s = [facts |-> s.facts, cast |-> s.cast, major |-> s.major, upcoming |-> s.upcoming]
  BY <1>1 DEF Summaries
<1>3. /\ s.major.events \in Events /\ Len(s.major.events) <= limit
      /\ s.major = [events |-> s.major.events, limit |-> limit]
  BY <1>2 DEF Majors
<1>4. MajorEvents(s.major.events, limit) = s.major
  BY <1>3 DEF MajorEvents, Latest
<1>5. MajorEvents(s.major.events, other) \in Majors(other)
  BY <1>3, MajorsAre
<1>. HIDE DEF s
<1>6. \A n : Cut(r, n) =
          [turn |-> r.turn,
           summary |-> [facts |-> s.facts, cast |-> s.cast,
                        major |-> MajorEvents(s.major.events, n), upcoming |-> s.upcoming]]
  <2>. TAKE n
  <2>1. Cut(r, n) =
            [turn |-> r.turn,
             summary |-> [s EXCEPT !.major = MajorEvents(s.major.events, n)]]
    BY <1>1 DEF Cut, s
  <2>2. \A m : [s EXCEPT !.major = m] =
            [facts |-> s.facts, cast |-> s.cast, major |-> m, upcoming |-> s.upcoming]
    BY <1>2
  <2>. QED  BY <2>1, <2>2
<1>7. Cut(r, limit) = r
  BY <1>1, <1>2, <1>4, <1>6
<1>8. Cut(r, other) \in Records(other)
  BY <1>1, <1>2, <1>5, <1>6 DEF Records, Summaries
<1>. QED  BY <1>7, <1>8

(* A story under other limits is a story, and under its own it is itself.  *)
LEMMA Restored ==
    ASSUME NEW g, IsStory(g), NEW limits \in Limits
    PROVE  IsStory(Restore(g, limits)) /\ Restore(g, g.limits) = g
<1>. DEFINE cut(l) == [i \in DOMAIN g.turns |-> Cut(g.turns[i], l.major_events)]
            n == Len(g.turns)
<1>1. /\ n \in Nat /\ DOMAIN g.turns = 1..n
      /\ g.limits.major_events \in Nat \ {0}
      /\ g.turns \in Seq(Records(g.limits.major_events))
      /\ limits.major_events \in Nat \ {0}
  BY StoryFacts DEF Limits
<1>2. /\ \A i \in 1..n : g.turns[i] \in Records(g.limits.major_events)
      /\ g.turns = [i \in 1..n |-> g.turns[i]]
  BY <1>1
<1>3. cut(limits) \in Seq(Records(limits.major_events))
  <2>1. \A i \in 1..n : cut(limits)[i] \in Records(limits.major_events)
    BY <1>1, <1>2, CutIs
  <2>2. DOMAIN cut(limits) = 1..n /\ cut(limits) = [i \in DOMAIN cut(limits) |-> cut(limits)[i]]
    BY <1>1
  <2>. HIDE DEF cut
  <2>. QED  BY <1>1, <2>1, <2>2, Entries, Zenon
<1>4. cut(g.limits) = g.turns
  <2>1. \A i \in 1..n : Cut(g.turns[i], g.limits.major_events) = g.turns[i]
    BY <1>1, <1>2, CutIs
  <2>. QED  BY <1>1, <1>2, <2>1
<1>5. \A l : Restore(g, l) =
          [world |-> g.world, position |-> g.position, limits |-> l,
           original |-> g.original, turns |-> cut(l)]
  BY DEF Restore
<1>. HIDE DEF cut
<1>6. /\ g = [world |-> g.world, position |-> g.position, limits |-> g.limits,
              original |-> g.original, turns |-> g.turns]
      /\ g.world \in GoodWorlds /\ g.position \in DOMAIN g.world.playable
      /\ g.original \in Limits
  BY StoryFacts
<1>7. IsStory([world |-> g.world, position |-> g.position, limits |-> limits,
               original |-> g.original, turns |-> cut(limits)])
  BY <1>3, <1>6, StoryOf
<1>. QED  BY <1>4, <1>5, <1>6, <1>7, Zenon

----------------------------------------------------------------------------
(***************************************************************************)
(* Saved and read back: text and people.                                   *)
(***************************************************************************)
(* "" stands for no text, both ways.                                       *)
LEMMA Sentinels ==
    /\ \A t \in OptText : /\ Sentinel(t) \in Raw /\ IsOptional(Sentinel(t))
                          /\ NoneIfEmpty(Sentinel(t)) = t
    /\ \A s \in Raw : IsOptional(s) => /\ NoneIfEmpty(s) \in OptText
                                       /\ Sentinel(NoneIfEmpty(s)) = s
<1>1. "" \in Raw /\ Trim[""] = "" /\ None \notin Raw
  BY StoryAssumption, CodecAssumption
<1>2. ASSUME NEW t \in OptText
      PROVE  /\ Sentinel(t) \in Raw /\ IsOptional(Sentinel(t))
             /\ NoneIfEmpty(Sentinel(t)) = t
  BY <1>1, Texts DEF OptText, Sentinel, NoneIfEmpty, IsOptional
<1>3. ASSUME NEW s \in Raw, IsOptional(s)
      PROVE  NoneIfEmpty(s) \in OptText /\ Sentinel(NoneIfEmpty(s)) = s
  <2>1. s # "" => s \in Text
    BY <1>3, Texts DEF IsOptional
  <2>. QED  BY <1>1, <2>1 DEF OptText, Sentinel, NoneIfEmpty
<1>. QED  BY <1>2, <1>3

(* Fields that are saved are read back.                                    *)
LEMMA FieldsSaved ==
    ASSUME NEW F, NEW fields \in [F -> OptText]
    PROVE  /\ SentinelAll(fields) \in [F -> Raw]
           /\ AllOptional(SentinelAll(fields))
           /\ Optional(SentinelAll(fields)) = fields
<1>1. \A f \in F : fields[f] \in OptText
  OBVIOUS
<1>2. /\ SentinelAll(fields) \in [F -> Raw]
      /\ \A f \in F : SentinelAll(fields)[f] = Sentinel(fields[f])
  BY <1>1, Sentinels DEF SentinelAll
<1>3. AllOptional(SentinelAll(fields))
  BY <1>1, <1>2, Sentinels DEF AllOptional
<1>4. \A f \in F : NoneIfEmpty(SentinelAll(fields)[f]) = fields[f]
  BY <1>1, <1>2, Sentinels
<1>5. Optional(SentinelAll(fields)) = fields
  BY <1>2, <1>4 DEF Optional
<1>. QED  BY <1>2, <1>3, <1>5

(* Fields that are read would be saved as they were.                       *)
LEMMA FieldsRead ==
    ASSUME NEW F, NEW fields \in [F -> Raw], AllOptional(fields)
    PROVE  /\ Optional(fields) \in [F -> OptText]
           /\ SentinelAll(Optional(fields)) = fields
<1>1. \A f \in F : fields[f] \in Raw /\ IsOptional(fields[f])
  BY DEF AllOptional
<1>2. /\ Optional(fields) \in [F -> OptText]
      /\ \A f \in F : Optional(fields)[f] = NoneIfEmpty(fields[f])
  BY <1>1, Sentinels DEF Optional
<1>3. \A f \in F : Sentinel(Optional(fields)[f]) = fields[f]
  BY <1>1, <1>2, Sentinels
<1>4. SentinelAll(Optional(fields)) = fields
  BY <1>2, <1>3 DEF SentinelAll
<1>. QED  BY <1>2, <1>4

SoulDocs == [id : Id, name : Raw, details : [Detail -> Raw]]

(* A member of a cast, there and back.                                     *)
LEMMA SoulsSaved ==
    ASSUME NEW c \in Souls
    PROVE  /\ SaveCharacter(c) \in SoulDocs
           /\ SaveCharacter(c).id = c.id
           /\ IsCharacter(SaveCharacter(c))
           /\ ReadCharacter(SaveCharacter(c)) = c
<1>1. /\ c.id \in Id /\ c.name \in Text /\ c.details \in DetailsOf /\ HasDetails(c.details)
      /\ c = [id |-> c.id, name |-> c.name, details |-> c.details]
  BY DEF Souls
<1>. DEFINE saved == SentinelAll(c.details)
            d == [id |-> c.id, name |-> c.name, details |-> saved]
<1>2. saved \in [Detail -> Raw] /\ AllOptional(saved) /\ Optional(saved) = c.details
  BY <1>1, FieldsSaved DEF DetailsOf
<1>3. SaveCharacter(c) = d
  BY <1>1 DEF SaveCharacter
<1>. HIDE DEF saved
<1>4. c.name \in Raw /\ IsNormal(c.name)
  BY <1>1, Texts
<1>5. d \in SoulDocs /\ d.id = c.id /\ d.name = c.name /\ d.details = saved
  BY <1>1, <1>2, <1>4 DEF SoulDocs
<1>6. ReadCharacter(d) = [id |-> c.id, name |-> c.name, details |-> Optional(saved)]
  BY DEF ReadCharacter
<1>. HIDE DEF d
<1>7. IsCharacter(d)
  BY <1>1, <1>2, <1>4, <1>5 DEF IsCharacter
<1>. QED  BY <1>1, <1>2, <1>3, <1>5, <1>6, <1>7

(* What is read as a member of a cast is saved as it was.                  *)
LEMMA SoulsRead ==
    ASSUME NEW d \in SoulDocs, IsCharacter(d)
    PROVE  /\ ReadCharacter(d) \in Souls
           /\ ReadCharacter(d).id = d.id
           /\ SaveCharacter(ReadCharacter(d)) = d
<1>1. /\ d.id \in Id /\ d.name \in Raw /\ d.details \in [Detail -> Raw]
      /\ d = [id |-> d.id, name |-> d.name, details |-> d.details]
      /\ AllOptional(d.details) /\ IsNormal(d.name) /\ HasDetails(Optional(d.details))
  BY DEF SoulDocs, IsCharacter
<1>. DEFINE read == Optional(d.details)
            c == [id |-> d.id, name |-> d.name, details |-> read]
<1>2. read \in DetailsOf /\ SentinelAll(read) = d.details /\ HasDetails(read)
  BY <1>1, FieldsRead DEF DetailsOf
<1>3. ReadCharacter(d) = c
  BY <1>1 DEF ReadCharacter
<1>. HIDE DEF read
<1>4. d.name \in Text
  BY <1>1, Texts DEF IsNormal
<1>5. c \in [id : Id, name : Text, details : DetailsOf] /\ c.id = d.id /\ c.details = read
  BY <1>1, <1>2, <1>4
<1>6. SaveCharacter(c) = [id |-> d.id, name |-> d.name, details |-> SentinelAll(read)]
  BY DEF SaveCharacter
<1>. HIDE DEF c
<1>7. c \in Souls
  BY <1>2, <1>5 DEF Souls
<1>. QED  BY <1>1, <1>2, <1>3, <1>5, <1>6, <1>7

(* Somebody of the world, there and back.                                  *)
LEMMA PersonsSaved ==
    ASSUME NEW p \in Persons
    PROVE  /\ SavePerson(p) \in PersonWire
           /\ IsPerson(SavePerson(p))
           /\ ReadPerson(SavePerson(p)) = p
<1>1. /\ p.name \in Text /\ p.details \in DetailsOf
      /\ p = [name |-> p.name, details |-> p.details]
      /\ \A f \in Durable : p.details[f] # None
  BY DEF Persons
<1>. DEFINE saved == SentinelAll(p.details)
            d == [name |-> p.name, details |-> saved]
<1>2. saved \in [Detail -> Raw] /\ AllOptional(saved) /\ Optional(saved) = p.details
  BY <1>1, FieldsSaved DEF DetailsOf
<1>3. SavePerson(p) = d
  BY <1>1 DEF SavePerson
<1>4. \A f \in Durable : IsNormal(saved[f])
  <2>. SUFFICES ASSUME NEW f \in Durable
                PROVE  IsNormal(saved[f])
    OBVIOUS
  <2>1. f \in Detail
    BY DEF Durable, Detail
  <2>2. p.details[f] \in Text /\ saved[f] = p.details[f]
    BY <1>1, <2>1 DEF DetailsOf, OptText, SentinelAll, Sentinel
  <2>. QED  BY <2>2, Texts
<1>. HIDE DEF saved
<1>5. p.name \in Raw /\ IsNormal(p.name)
  BY <1>1, Texts
<1>6. d \in PersonWire /\ d.name = p.name /\ d.details = saved
  BY <1>2, <1>5 DEF PersonWire
<1>7. ReadPerson(d) = [name |-> p.name, details |-> Optional(saved)]
  BY DEF ReadPerson
<1>. HIDE DEF d
<1>8. IsPerson(d)
  BY <1>2, <1>4, <1>5, <1>6 DEF IsPerson
<1>. QED  BY <1>1, <1>2, <1>3, <1>6, <1>7, <1>8

(* What is read as somebody of the world is saved as it was.               *)
LEMMA PersonsRead ==
    ASSUME NEW d \in PersonWire, IsPerson(d)
    PROVE  SavePerson(ReadPerson(d)) = d
<1>1. /\ d.details \in [Detail -> Raw] /\ AllOptional(d.details)
      /\ d = [name |-> d.name, details |-> d.details]
  BY DEF PersonWire, IsPerson
<1>2. SentinelAll(Optional(d.details)) = d.details
  BY <1>1, FieldsRead
<1>3. ReadPerson(d) = [name |-> d.name, details |-> Optional(d.details)]
  BY <1>1 DEF ReadPerson
<1>4. SavePerson([name |-> d.name, details |-> Optional(d.details)]) =
          [name |-> d.name, details |-> SentinelAll(Optional(d.details))]
  BY DEF SavePerson
<1>. QED  BY <1>1, <1>2, <1>3, <1>4

DeltaDocs == [id : Id \cup {None}, name : Raw, details : [Detail -> Raw]]

(* A change, there and back.                                               *)
LEMMA DeltasSaved ==
    ASSUME NEW d \in Deltas
    PROVE  /\ SaveDelta(d) \in DeltaDocs
           /\ IsDelta(SaveDelta(d))
           /\ ReadDelta(SaveDelta(d)) = d
<1>1. /\ d.id \in Id \cup {None} /\ d.name \in OptText /\ d.details \in [Detail -> OptText]
      /\ d = [id |-> d.id, name |-> d.name, details |-> d.details]
  BY DEF Deltas, DetailsOf
<1>. DEFINE name == Sentinel(d.name)
            saved == SentinelAll(d.details)
            s == [id |-> d.id, name |-> name, details |-> saved]
<1>2. name \in Raw /\ IsOptional(name) /\ NoneIfEmpty(name) = d.name
  BY <1>1, Sentinels
<1>3. saved \in [Detail -> Raw] /\ AllOptional(saved) /\ Optional(saved) = d.details
  BY <1>1, FieldsSaved
<1>4. SaveDelta(d) = s
  BY DEF SaveDelta
<1>. HIDE DEF saved, name
<1>5. s \in DeltaDocs /\ s.name = name /\ s.details = saved /\ s.id = d.id
  BY <1>1, <1>2, <1>3 DEF DeltaDocs
<1>. HIDE DEF s
<1>6. IsDelta(s) /\ ReadDelta(s) = [id |-> d.id, name |-> d.name, details |-> d.details]
  BY <1>2, <1>3, <1>5 DEF IsDelta, ReadDelta
<1>. QED  BY <1>1, <1>4, <1>5, <1>6

(* What is read as a change is saved as it was.                            *)
LEMMA DeltasRead ==
    ASSUME NEW d \in DeltaDocs, IsDelta(d)
    PROVE  SaveDelta(ReadDelta(d)) = d
<1>1. /\ d.name \in Raw /\ IsOptional(d.name)
      /\ d.details \in [Detail -> Raw] /\ AllOptional(d.details)
      /\ d = [id |-> d.id, name |-> d.name, details |-> d.details]
  BY DEF DeltaDocs, IsDelta
<1>2. /\ SentinelAll(Optional(d.details)) = d.details
      /\ Sentinel(NoneIfEmpty(d.name)) = d.name
  BY <1>1, FieldsRead, Sentinels
<1>3. SaveDelta(ReadDelta(d)) =
          [id |-> d.id, name |-> Sentinel(NoneIfEmpty(d.name)),
           details |-> SentinelAll(Optional(d.details))]
  BY DEF SaveDelta, ReadDelta
<1>. QED  BY <1>1, <1>2, <1>3

----------------------------------------------------------------------------
(***************************************************************************)
(* Saved and read back: lists of people and of changes.                    *)
(***************************************************************************)
(* A sequence with the entries of another is the other.                    *)
LEMMA SameEntries ==
    ASSUME NEW S, NEW seq \in Seq(S), NEW other,
           other = [i \in DOMAIN other |-> other[i]], DOMAIN other = DOMAIN seq,
           \A i \in 1..Len(seq) : other[i] = seq[i]
    PROVE  other = seq
OBVIOUS

(* Such a document is kept by NewCast as it is.                            *)
LEMMA DocsAreKept ==
    ASSUME NEW docs \in Seq(SoulDocs), OneEach(docs)
    PROVE  NewCast(docs) = docs
<1>1. \A c \in SoulDocs : [c EXCEPT !.id = c.id] = c
  BY DEF SoulDocs
<1>. QED  BY <1>1, NewCastFixes

(* A cast is saved as a list the strict reader takes, and comes back.      *)
LEMMA CastsSaved ==
    ASSUME NEW cast \in Casts
    PROVE  LET docs == Each(cast, SaveCharacter) IN
           /\ docs \in Seq(SoulDocs) /\ docs # <<>>
           /\ Cardinality(Ids(docs)) = Len(docs)
           /\ NewCast(docs) = docs
           /\ \A i \in DOMAIN docs : IsCharacter(docs[i])
           /\ NewCast(Each(docs, ReadCharacter)) = cast
<1>. DEFINE docs == Each(cast, SaveCharacter)
            back == Each(docs, ReadCharacter)
            n == Len(cast)
<1>1. /\ cast \in Seq(Souls) /\ n \in Nat \ {0} /\ DOMAIN cast = 1..n
      /\ \A i \in 1..n : cast[i] \in Souls
      /\ OneEach(cast)
  BY CastFacts
<1>2. /\ DOMAIN docs = 1..n /\ docs = [i \in DOMAIN docs |-> docs[i]]
      /\ \A i \in 1..n : docs[i] = SaveCharacter(cast[i])
  BY <1>1 DEF Each
<1>3. /\ DOMAIN back = DOMAIN docs /\ back = [i \in DOMAIN back |-> back[i]]
      /\ \A i \in DOMAIN docs : back[i] = ReadCharacter(docs[i])
  BY DEF Each
<1>. HIDE DEF docs, back
<1>4. \A i \in 1..n : /\ docs[i] \in SoulDocs /\ docs[i].id = cast[i].id
                      /\ IsCharacter(docs[i]) /\ ReadCharacter(docs[i]) = cast[i]
  BY <1>1, <1>2, SoulsSaved
<1>. HIDE DEF n
<1>5. docs \in Seq(SoulDocs) /\ Len(docs) = n
  BY <1>1, <1>2, <1>4, Entries, Zenon
<1>6. OneEach(docs)
  BY <1>1, <1>2, <1>4 DEF OneEach
<1>7. Cardinality(Ids(docs)) = Len(docs)
  BY <1>5, <1>6, IdsCount
<1>8. NewCast(docs) = docs
  BY <1>5, <1>6, DocsAreKept
<1>9. back = cast
  <2>1. \A i \in 1..n : back[i] = cast[i]
    BY <1>2, <1>3, <1>4
  <2>. QED  BY <1>1, <1>2, <1>3, <2>1, SameEntries, Zenon DEF n
<1>10. docs # <<>>
  BY <1>1, <1>5
<1>. QED  BY <1>2, <1>4, <1>5, <1>7, <1>8, <1>9, <1>10, CastsAreKept DEF docs, back

(* A list that is read as a cast is saved as it was.                       *)
LEMMA CastsRead ==
    ASSUME NEW docs \in Seq(SoulDocs), Cardinality(Ids(docs)) = Len(docs),
           \A i \in DOMAIN docs : IsCharacter(docs[i])
    PROVE  Each(NewCast(Each(docs, ReadCharacter)), SaveCharacter) = docs
<1>. DEFINE cast == Each(docs, ReadCharacter)
            back == Each(cast, SaveCharacter)
            n == Len(docs)
<1>1. /\ n \in Nat /\ DOMAIN docs = 1..n
      /\ \A i \in 1..n : docs[i] \in SoulDocs /\ IsCharacter(docs[i])
  OBVIOUS
<1>2. /\ DOMAIN cast = 1..n /\ cast = [i \in DOMAIN cast |-> cast[i]]
      /\ \A i \in 1..n : cast[i] = ReadCharacter(docs[i])
  BY <1>1 DEF Each
<1>3. /\ DOMAIN back = DOMAIN cast /\ back = [i \in DOMAIN back |-> back[i]]
      /\ \A i \in DOMAIN cast : back[i] = SaveCharacter(cast[i])
  BY DEF Each
<1>. HIDE DEF cast, back
<1>4. \A i \in 1..n : /\ cast[i] \in Souls /\ cast[i].id = docs[i].id
                      /\ SaveCharacter(cast[i]) = docs[i]
  BY <1>1, <1>2, SoulsRead
<1>. HIDE DEF n
<1>5. cast \in Seq(Souls)
  BY <1>1, <1>2, <1>4, Entries, Zenon
<1>6. OneEach(docs)
  BY IdsCount
<1>7. OneEach(cast)
  BY <1>1, <1>2, <1>4, <1>6 DEF OneEach
<1>8. \A c \in Souls : [c EXCEPT !.id = c.id] = c
  BY DEF Souls
<1>9. NewCast(cast) = cast
  BY <1>5, <1>7, <1>8, NewCastFixes
<1>10. back = docs
  <2>1. \A i \in 1..n : back[i] = docs[i]
    BY <1>2, <1>3, <1>4
  <2>. QED  BY <1>1, <1>2, <1>3, <2>1, SameEntries, Zenon DEF n
<1>. QED  BY <1>9, <1>10 DEF cast, back

(* The people of a world, there and back.                                  *)
LEMMA PeopleSaved ==
    ASSUME NEW people \in Seq(Persons), Once(people)
    PROVE  LET docs == Each(people, SavePerson) IN
           /\ docs \in Seq(PersonWire) /\ Len(docs) = Len(people)
           /\ \A i \in DOMAIN docs : IsPerson(docs[i])
           /\ Distinct(docs) = docs
           /\ Each(docs, ReadPerson) = people
<1>. DEFINE docs == Each(people, SavePerson)
            back == Each(docs, ReadPerson)
            n == Len(people)
<1>1. /\ n \in Nat /\ DOMAIN people = 1..n
      /\ \A i \in 1..n : people[i] \in Persons
  OBVIOUS
<1>2. /\ DOMAIN docs = 1..n /\ docs = [i \in DOMAIN docs |-> docs[i]]
      /\ \A i \in 1..n : docs[i] = SavePerson(people[i])
  BY <1>1 DEF Each
<1>3. /\ DOMAIN back = DOMAIN docs /\ back = [i \in DOMAIN back |-> back[i]]
      /\ \A i \in DOMAIN docs : back[i] = ReadPerson(docs[i])
  BY DEF Each
<1>. HIDE DEF docs, back
<1>4. \A i \in 1..n : /\ docs[i] \in PersonWire
                      /\ IsPerson(docs[i]) /\ ReadPerson(docs[i]) = people[i]
  BY <1>1, <1>2, PersonsSaved
<1>. HIDE DEF n
<1>5. docs \in Seq(PersonWire) /\ Len(docs) = n
  BY <1>1, <1>2, <1>4, Entries, Zenon
<1>6. Once(docs)
  BY <1>1, <1>2, <1>4 DEF Once
<1>7. Distinct(docs) = docs
  BY <1>5, <1>6, DistinctFixes
<1>8. back = people
  <2>1. \A i \in 1..n : back[i] = people[i]
    BY <1>2, <1>3, <1>4
  <2>. QED  BY <1>1, <1>2, <1>3, <2>1, SameEntries, Zenon DEF n
<1>. QED  BY <1>2, <1>4, <1>5, <1>7, <1>8 DEF docs, back, n

(* What is read as the people of a world is saved as it was.               *)
LEMMA PeopleRead ==
    ASSUME NEW docs \in Seq(PersonWire), \A i \in DOMAIN docs : IsPerson(docs[i])
    PROVE  Each(Each(docs, ReadPerson), SavePerson) = docs
<1>. DEFINE people == Each(docs, ReadPerson)
            back == Each(people, SavePerson)
            n == Len(docs)
<1>1. /\ n \in Nat /\ DOMAIN docs = 1..n
      /\ \A i \in 1..n : docs[i] \in PersonWire /\ IsPerson(docs[i])
  OBVIOUS
<1>2. DOMAIN people = 1..n /\ \A i \in 1..n : people[i] = ReadPerson(docs[i])
  BY <1>1 DEF Each
<1>3. /\ DOMAIN back = DOMAIN people /\ back = [i \in DOMAIN back |-> back[i]]
      /\ \A i \in DOMAIN people : back[i] = SavePerson(people[i])
  BY DEF Each
<1>. HIDE DEF people, back
<1>4. \A i \in 1..n : SavePerson(people[i]) = docs[i]
  BY <1>1, <1>2, PersonsRead
<1>. HIDE DEF n
<1>5. \A i \in 1..n : back[i] = docs[i]
  BY <1>2, <1>3, <1>4
<1>6. back = docs
  BY <1>1, <1>2, <1>3, <1>5, SameEntries, Zenon DEF n
<1>. QED  BY <1>6 DEF people, back

(* Changes, there and back.                                                *)
LEMMA ChangesSaved ==
    ASSUME NEW deltas \in Seq(Deltas)
    PROVE  LET docs == Each(deltas, SaveDelta) IN
           /\ docs \in Seq(DeltaDocs)
           /\ \A i \in DOMAIN docs : IsDelta(docs[i])
           /\ Each(docs, ReadDelta) = deltas
<1>. DEFINE docs == Each(deltas, SaveDelta)
            back == Each(docs, ReadDelta)
            n == Len(deltas)
<1>1. /\ n \in Nat /\ DOMAIN deltas = 1..n
      /\ \A i \in 1..n : deltas[i] \in Deltas
  OBVIOUS
<1>2. /\ DOMAIN docs = 1..n /\ docs = [i \in DOMAIN docs |-> docs[i]]
      /\ \A i \in 1..n : docs[i] = SaveDelta(deltas[i])
  BY <1>1 DEF Each
<1>3. /\ DOMAIN back = DOMAIN docs /\ back = [i \in DOMAIN back |-> back[i]]
      /\ \A i \in DOMAIN docs : back[i] = ReadDelta(docs[i])
  BY DEF Each
<1>. HIDE DEF docs, back
<1>4. \A i \in 1..n : /\ docs[i] \in DeltaDocs
                      /\ IsDelta(docs[i]) /\ ReadDelta(docs[i]) = deltas[i]
  BY <1>1, <1>2, DeltasSaved
<1>. HIDE DEF n
<1>5. docs \in Seq(DeltaDocs)
  BY <1>1, <1>2, <1>4, Entries, Zenon
<1>6. back = deltas
  <2>1. \A i \in 1..n : back[i] = deltas[i]
    BY <1>2, <1>3, <1>4
  <2>. QED  BY <1>1, <1>2, <1>3, <2>1, SameEntries, Zenon DEF n
<1>. QED  BY <1>2, <1>4, <1>5, <1>6 DEF docs, back

(* What is read as changes is saved as it was.                             *)
LEMMA ChangesRead ==
    ASSUME NEW docs \in Seq(DeltaDocs), \A i \in DOMAIN docs : IsDelta(docs[i])
    PROVE  Each(Each(docs, ReadDelta), SaveDelta) = docs
<1>. DEFINE deltas == Each(docs, ReadDelta)
            back == Each(deltas, SaveDelta)
            n == Len(docs)
<1>1. /\ n \in Nat /\ DOMAIN docs = 1..n
      /\ \A i \in 1..n : docs[i] \in DeltaDocs /\ IsDelta(docs[i])
  OBVIOUS
<1>2. DOMAIN deltas = 1..n /\ \A i \in 1..n : deltas[i] = ReadDelta(docs[i])
  BY <1>1 DEF Each
<1>3. /\ DOMAIN back = DOMAIN deltas /\ back = [i \in DOMAIN back |-> back[i]]
      /\ \A i \in DOMAIN deltas : back[i] = SaveDelta(deltas[i])
  BY DEF Each
<1>. HIDE DEF deltas, back
<1>4. \A i \in 1..n : SaveDelta(deltas[i]) = docs[i]
  BY <1>1, <1>2, DeltasRead
<1>. HIDE DEF n
<1>5. \A i \in 1..n : back[i] = docs[i]
  BY <1>2, <1>3, <1>4
<1>6. back = docs
  BY <1>1, <1>2, <1>3, <1>5, SameEntries, Zenon DEF n
<1>. QED  BY <1>6 DEF deltas, back

----------------------------------------------------------------------------
(***************************************************************************)
(* Saved and read back: worlds, turns and memory.                          *)
(***************************************************************************)
WorldDocs ==
    [title : Raw, description : Raw, playable : Seq(PersonWire), npcs : Seq(PersonWire)]
UpdateDocs ==
    [facts : [Fact -> Raw], deltas : Seq(DeltaDocs), new : Seq(Raw),
     consolidated : Seq(Raw), upcoming : Seq(Raw) \cup {None}]
ActionDocs == [text : Raw, kind : Kind \cup Raw \cup {None}]
TurnDocs ==
    [narrative : Raw, actions : Seq(ActionDocs), update : UpdateDocs, starts : BOOLEAN,
     title : Raw \cup {None}]
SummaryDocs ==
    [facts : [Fact -> Raw], cast : Seq(SoulDocs), major : Seq(Raw), upcoming : Seq(Raw)]
RecordDocs == [turn : TurnDocs, summary : SummaryDocs]

(* Events are text, and raw.                                               *)
LEMMA EventsAreRaw ==
    ASSUME NEW events \in Events
    PROVE  events \in Seq(Raw) /\ IsEventList(events)
<1>1. events \in Seq(Raw)
  BY Texts, SeqOfMore DEF Events
<1>. QED  BY <1>1, EventListFixes DEF IsEventList

(* A world, there and back.                                                *)
LEMMA WorldsSaved ==
    ASSUME NEW w \in GoodWorlds
    PROVE  /\ SaveWorld(w) \in WorldDocs
           /\ IsWorld(SaveWorld(w))
           /\ DOMAIN SaveWorld(w).playable = DOMAIN w.playable
           /\ ReadWorld(SaveWorld(w)) = w
           /\ SaveWorld(w).title = w.title
<1>1. /\ w.title \in Text /\ w.description \in Text
      /\ w.playable \in Seq(Persons) /\ Once(w.playable) /\ w.playable # <<>>
      /\ w.npcs \in Seq(Persons) /\ Once(w.npcs)
      /\ w = [title |-> w.title, description |-> w.description, playable |-> w.playable,
              npcs |-> w.npcs]
  BY DEF GoodWorlds
<1>. DEFINE playable == Each(w.playable, SavePerson)
            npcs == Each(w.npcs, SavePerson)
            d == [title |-> w.title, description |-> w.description, playable |-> playable,
                  npcs |-> npcs]
<1>2. /\ playable \in Seq(PersonWire) /\ Len(playable) = Len(w.playable)
      /\ \A i \in DOMAIN playable : IsPerson(playable[i])
      /\ Distinct(playable) = playable
      /\ Each(playable, ReadPerson) = w.playable
  BY <1>1, PeopleSaved
<1>3. /\ npcs \in Seq(PersonWire)
      /\ \A i \in DOMAIN npcs : IsPerson(npcs[i])
      /\ Distinct(npcs) = npcs
      /\ Each(npcs, ReadPerson) = w.npcs
  BY <1>1, PeopleSaved
<1>4. SaveWorld(w) = d
  BY DEF SaveWorld
<1>. HIDE DEF playable, npcs
<1>5. /\ w.title \in Raw /\ IsNormal(w.title)
      /\ w.description \in Raw /\ IsNormal(w.description)
  BY <1>1, Texts
<1>6. playable # <<>> /\ DOMAIN playable = DOMAIN w.playable
  <2>1. Len(w.playable) # 0 /\ Len(w.playable) \in Nat /\ DOMAIN w.playable = 1..Len(w.playable)
    BY <1>1, EmptySeq
  <2>2. DOMAIN playable = 1..Len(playable)
    BY <1>2
  <2>. QED  BY <1>2, <2>1, <2>2
<1>7. /\ d \in WorldDocs /\ d.title = w.title /\ d.description = w.description
      /\ d.playable = playable /\ d.npcs = npcs
  BY <1>2, <1>3, <1>5 DEF WorldDocs
<1>. HIDE DEF d
<1>8. IsWorld(d)
  BY <1>2, <1>3, <1>5, <1>6, <1>7 DEF IsWorld
<1>9. ReadWorld(d) = [title |-> w.title, description |-> w.description,
                      playable |-> Each(playable, ReadPerson), npcs |-> Each(npcs, ReadPerson)]
  BY <1>7 DEF ReadWorld
<1>. QED  BY <1>1, <1>2, <1>3, <1>4, <1>6, <1>7, <1>8, <1>9

(* What is read as a world is saved as it was.                             *)
LEMMA WorldsRead ==
    ASSUME NEW d \in WorldDocs, IsWorld(d)
    PROVE  SaveWorld(ReadWorld(d)) = d
<1>1. /\ d.playable \in Seq(PersonWire) /\ d.npcs \in Seq(PersonWire)
      /\ d = [title |-> d.title, description |-> d.description, playable |-> d.playable,
              npcs |-> d.npcs]
  BY DEF WorldDocs
<1>2. /\ \A i \in DOMAIN d.playable : IsPerson(d.playable[i])
      /\ \A i \in DOMAIN d.npcs : IsPerson(d.npcs[i])
  BY DEF IsWorld
<1>3. /\ Each(Each(d.playable, ReadPerson), SavePerson) = d.playable
      /\ Each(Each(d.npcs, ReadPerson), SavePerson) = d.npcs
  BY <1>1, <1>2, PeopleRead
<1>4. SaveWorld(ReadWorld(d)) =
          [title |-> d.title, description |-> d.description,
           playable |-> Each(Each(d.playable, ReadPerson), SavePerson),
           npcs |-> Each(Each(d.npcs, ReadPerson), SavePerson)]
  BY DEF SaveWorld, ReadWorld
<1>. QED  BY <1>1, <1>3, <1>4

(* An update, there and back.                                              *)
LEMMA UpdatesSaved ==
    ASSUME NEW u \in Updates
    PROVE  /\ SaveUpdate(u) \in UpdateDocs
           /\ IsUpdate(SaveUpdate(u))
           /\ ReadUpdate(SaveUpdate(u)) = u
<1>1. /\ u.facts \in [Fact -> OptText] /\ u.deltas \in Seq(Deltas)
      /\ u.new \in Events /\ u.consolidated \in Events /\ u.upcoming \in Events \cup {None}
      /\ u = [facts |-> u.facts, deltas |-> u.deltas, new |-> u.new,
              consolidated |-> u.consolidated, upcoming |-> u.upcoming]
  BY DEF Updates
<1>. DEFINE facts == SentinelAll(u.facts)
            deltas == Each(u.deltas, SaveDelta)
            d == [facts |-> facts, deltas |-> deltas, new |-> u.new,
                  consolidated |-> u.consolidated, upcoming |-> u.upcoming]
<1>2. facts \in [Fact -> Raw] /\ AllOptional(facts) /\ Optional(facts) = u.facts
  BY <1>1, FieldsSaved
<1>3. /\ deltas \in Seq(DeltaDocs) /\ \A i \in DOMAIN deltas : IsDelta(deltas[i])
      /\ Each(deltas, ReadDelta) = u.deltas
  BY <1>1, ChangesSaved
<1>4. SaveUpdate(u) = d
  BY DEF SaveUpdate
<1>. HIDE DEF facts, deltas
<1>5. /\ u.new \in Seq(Raw) /\ EventList(u.new) = u.new
      /\ u.consolidated \in Seq(Raw) /\ EventList(u.consolidated) = u.consolidated
      /\ u.upcoming # None => u.upcoming \in Seq(Raw) /\ EventList(u.upcoming) = u.upcoming
  BY <1>1, EventsAreRaw DEF IsEventList
<1>6. /\ d \in UpdateDocs /\ d.facts = facts /\ d.deltas = deltas /\ d.new = u.new
      /\ d.consolidated = u.consolidated /\ d.upcoming = u.upcoming
  BY <1>2, <1>3, <1>5 DEF UpdateDocs
<1>. HIDE DEF d
<1>7. IsUpdate(d)
  BY <1>2, <1>3, <1>5, <1>6 DEF IsUpdate, IsEventList
<1>8. ReadUpdate(d) = [facts |-> u.facts, deltas |-> u.deltas, new |-> u.new,
                       consolidated |-> u.consolidated, upcoming |-> u.upcoming]
  BY <1>2, <1>3, <1>5, <1>6 DEF ReadUpdate
<1>. QED  BY <1>1, <1>4, <1>6, <1>7, <1>8

(* What is read as an update is saved as it was.                           *)
LEMMA UpdatesRead ==
    ASSUME NEW d \in UpdateDocs, IsUpdate(d)
    PROVE  SaveUpdate(ReadUpdate(d)) = d
<1>1. /\ d.facts \in [Fact -> Raw] /\ d.deltas \in Seq(DeltaDocs)
      /\ d = [facts |-> d.facts, deltas |-> d.deltas, new |-> d.new,
              consolidated |-> d.consolidated, upcoming |-> d.upcoming]
  BY DEF UpdateDocs
<1>2. /\ AllOptional(d.facts) /\ \A i \in DOMAIN d.deltas : IsDelta(d.deltas[i])
      /\ EventList(d.new) = d.new /\ EventList(d.consolidated) = d.consolidated
      /\ (IF d.upcoming = None THEN None ELSE EventList(d.upcoming)) = d.upcoming
  BY DEF IsUpdate, IsEventList
<1>3. SentinelAll(Optional(d.facts)) = d.facts
  BY <1>1, <1>2, FieldsRead
<1>4. Each(Each(d.deltas, ReadDelta), SaveDelta) = d.deltas
  BY <1>1, <1>2, ChangesRead
<1>5. ReadUpdate(d) =
          [facts |-> Optional(d.facts), deltas |-> Each(d.deltas, ReadDelta), new |-> d.new,
           consolidated |-> d.consolidated, upcoming |-> d.upcoming]
  BY <1>2 DEF ReadUpdate
<1>6. SaveUpdate([facts |-> Optional(d.facts), deltas |-> Each(d.deltas, ReadDelta),
                  new |-> d.new, consolidated |-> d.consolidated,
                  upcoming |-> d.upcoming]) =
          [facts |-> SentinelAll(Optional(d.facts)),
           deltas |-> Each(Each(d.deltas, ReadDelta), SaveDelta), new |-> d.new,
           consolidated |-> d.consolidated, upcoming |-> d.upcoming]
  BY DEF SaveUpdate
<1>. QED  BY <1>1, <1>3, <1>4, <1>5, <1>6

(* Actions that were written are read as they are.                         *)
LEMMA ActionsSaved ==
    ASSUME NEW actions \in Seq(Acts)
    PROVE  ReadActions(actions) = actions
<1>1. \A a \in Acts : ReadAction(a) = a
  BY KindsAreKnown DEF ReadAction, Acts
<1>. DEFINE read == ReadActions(actions)
<1>2. /\ DOMAIN read = DOMAIN actions /\ read = [i \in DOMAIN read |-> read[i]]
      /\ \A i \in 1..Len(actions) : read[i] = actions[i]
  BY <1>1 DEF ReadActions, Each
<1>. HIDE DEF read
<1>3. read = actions
  BY <1>2, SameEntries, Zenon
<1>. QED  BY <1>3 DEF read

(* Actions of any kind are read as they would be written, and then they    *)
(* are read as they are.                                                   *)
LEMMA ActionsRead ==
    ASSUME NEW actions \in Seq(ActionDocs)
    PROVE  /\ Each(actions, WithKind) = ReadActions(actions)
           /\ ReadActions(ReadActions(actions)) = ReadActions(actions)
           /\ ReadActions(actions) \in Seq(ActionDocs)
           /\ Len(ReadActions(actions)) = Len(actions)
           /\ \A i \in 1..Len(actions) : ReadActions(actions)[i].text = actions[i].text
<1>. DEFINE n == Len(actions)
            read == ReadActions(actions)
            written == Each(actions, WithKind)
            again == ReadActions(read)
<1>1. ASSUME NEW a \in ActionDocs
      PROVE  /\ ReadAction(a) \in ActionDocs /\ WithKind(a) = ReadAction(a)
             /\ ReadAction(ReadAction(a)) = ReadAction(a)
             /\ ReadAction(a).text = a.text
  <2>1. a = [text |-> a.text, kind |-> a.kind] /\ a.text \in Raw
    BY DEF ActionDocs
  <2>2. KindOf(a.kind) \in Kind /\ KindOf(KindOf(a.kind)) = KindOf(a.kind)
    BY KindsAreKnown
  <2>3. WithKind(a) = [text |-> a.text, kind |-> KindOf(a.kind)]
    BY <2>1 DEF WithKind, KindOf
  <2>. QED  BY <2>1, <2>2, <2>3 DEF ReadAction, ActionDocs
<1>2. n \in Nat /\ DOMAIN actions = 1..n /\ \A i \in 1..n : actions[i] \in ActionDocs
  OBVIOUS
<1>3. /\ DOMAIN read = 1..n /\ read = [i \in DOMAIN read |-> read[i]]
      /\ \A i \in 1..n : read[i] = ReadAction(actions[i])
  BY <1>2 DEF ReadActions, Each
<1>4. /\ DOMAIN written = 1..n /\ written = [i \in DOMAIN written |-> written[i]]
      /\ \A i \in 1..n : written[i] = WithKind(actions[i])
  BY <1>2 DEF Each
<1>. HIDE DEF read, written
<1>5. /\ DOMAIN again = 1..n /\ again = [i \in DOMAIN again |-> again[i]]
      /\ \A i \in 1..n : again[i] = ReadAction(read[i])
  BY <1>3 DEF ReadActions, Each
<1>. HIDE DEF again, n
<1>6. read \in Seq(ActionDocs) /\ Len(read) = n
  <2>1. \A i \in 1..n : read[i] \in ActionDocs
    BY <1>1, <1>2, <1>3
  <2>. QED  BY <1>2, <1>3, <2>1, Entries, Zenon
<1>7. written = read /\ again = read
  <2>1. \A i \in 1..n : written[i] = read[i] /\ again[i] = read[i]
    BY <1>1, <1>2, <1>3, <1>4, <1>5
  <2>. QED  BY <1>3, <1>4, <1>5, <1>6, <2>1, SameEntries, Zenon
<1>8. \A i \in 1..n : read[i].text = actions[i].text
  BY <1>1, <1>2, <1>3
<1>. QED  BY <1>6, <1>7, <1>8 DEF read, written, again, n

(* A turn, there and back.                                                 *)
LEMMA TurnsSaved ==
    ASSUME NEW t \in Turns
    PROVE  /\ SaveTurn(t) \in TurnDocs
           /\ IsTurn(SaveTurn(t))
           /\ ReadTurn(SaveTurn(t)) = t
           /\ SaveTurn(t).actions # <<>>
<1>1. /\ t.narrative \in Text /\ t.actions \in Quick /\ t.update \in Updates
      /\ t.starts \in BOOLEAN /\ t.title \in OptText
      /\ t = [narrative |-> t.narrative, actions |-> t.actions, update |-> t.update,
              starts |-> t.starts, title |-> t.title]
  BY DEF Turns
<1>. DEFINE update == SaveUpdate(t.update)
            d == [narrative |-> t.narrative, actions |-> t.actions, update |-> update,
                  starts |-> t.starts, title |-> t.title]
<1>2. update \in UpdateDocs /\ IsUpdate(update) /\ ReadUpdate(update) = t.update
  BY <1>1, UpdatesSaved
<1>3. SaveTurn(t) = d
  BY <1>1 DEF SaveTurn
<1>. HIDE DEF update
<1>4. /\ t.narrative \in Raw /\ IsNormal(t.narrative)
      /\ t.title \in Raw \cup {None} /\ (t.title # None => IsNormal(t.title))
  BY <1>1, Texts DEF OptText
<1>5. /\ Len(t.actions) \in 1..QuickActionCount
      /\ t.actions \in Seq(Acts)
      /\ QuickActions(t.actions) = t.actions
      /\ ReadActions(t.actions) = t.actions
  BY <1>1, QuickActionsFixes, ActionsSaved DEF Quick, Offers
<1>6. /\ t.actions \in Seq(ActionDocs)
      /\ \A i \in DOMAIN t.actions : IsNormal(t.actions[i].text)
  <2>1. ASSUME NEW a \in Acts
        PROVE  a \in ActionDocs /\ IsNormal(a.text)
    BY Texts DEF Acts, ActionDocs
  <2>2. t.actions \in Seq(ActionDocs)
    BY <1>5, <2>1, SeqOfMore
  <2>3. \A i \in DOMAIN t.actions : t.actions[i] \in Acts
    BY <1>5
  <2>. QED  BY <2>1, <2>2, <2>3
<1>7. /\ d \in TurnDocs /\ d.narrative = t.narrative /\ d.actions = t.actions
      /\ d.update = update /\ d.starts = t.starts /\ d.title = t.title
  BY <1>1, <1>2, <1>4, <1>6 DEF TurnDocs
<1>. HIDE DEF d
<1>8. IsTurn(d)
  BY <1>2, <1>4, <1>5, <1>6, <1>7 DEF IsTurn
<1>9. ReadTurn(d) = [narrative |-> t.narrative, actions |-> t.actions,
                     update |-> t.update, starts |-> t.starts, title |-> t.title]
  BY <1>2, <1>5, <1>7 DEF ReadTurn
<1>10. d.actions # <<>>
  BY <1>5, <1>7
<1>. QED  BY <1>1, <1>3, <1>7, <1>8, <1>9, <1>10

(* A turn as it is written: with kinds of actions that are known.          *)
Written(t) == [t EXCEPT !.actions = Each(@, WithKind)]

LEMMA TurnsWritten ==
    ASSUME NEW d \in TurnDocs
    PROVE  /\ Written(d) = [narrative |-> d.narrative, actions |-> ReadActions(d.actions),
                            update |-> d.update, starts |-> d.starts, title |-> d.title]
           /\ Written(d) \in TurnDocs
           /\ IsTurn(Written(d)) <=> IsTurn(d)
           /\ ReadTurn(Written(d)) = ReadTurn(d)
<1>. DEFINE actions == ReadActions(d.actions)
            w == [narrative |-> d.narrative, actions |-> actions,
                  update |-> d.update, starts |-> d.starts, title |-> d.title]
<1>1. /\ d.narrative \in Raw /\ d.actions \in Seq(ActionDocs) /\ d.update \in UpdateDocs
      /\ d.starts \in BOOLEAN /\ d.title \in Raw \cup {None}
      /\ d = [narrative |-> d.narrative, actions |-> d.actions, update |-> d.update,
              starts |-> d.starts, title |-> d.title]
  BY DEF TurnDocs
<1>2. /\ Each(d.actions, WithKind) = actions /\ ReadActions(actions) = actions
      /\ actions \in Seq(ActionDocs) /\ Len(actions) = Len(d.actions)
      /\ \A i \in 1..Len(d.actions) : actions[i].text = d.actions[i].text
  BY <1>1, ActionsRead
<1>. HIDE DEF actions
<1>3. Written(d) = w
  BY <1>1, <1>2 DEF Written
<1>4. /\ w.narrative = d.narrative /\ w.actions = actions /\ w.update = d.update
      /\ w.starts = d.starts /\ w.title = d.title
  OBVIOUS
<1>5. w \in TurnDocs
  BY <1>1, <1>2 DEF TurnDocs
<1>. HIDE DEF w
<1>6. ReadTurn(w) = ReadTurn(d)
  BY <1>2, <1>4 DEF ReadTurn, actions
<1>7. DOMAIN actions = 1..Len(d.actions) /\ DOMAIN d.actions = 1..Len(d.actions)
  BY <1>1, <1>2
<1>8. IsTurn(w) <=> IsTurn(d)
  <2>1. (\A i \in DOMAIN w.actions : IsNormal(w.actions[i].text)) <=>
            \A i \in DOMAIN d.actions : IsNormal(d.actions[i].text)
    BY <1>2, <1>4, <1>7
  <2>2. ReadActions(w.actions) = ReadActions(d.actions) /\ Len(w.actions) = Len(d.actions)
    BY <1>2, <1>4 DEF actions
  <2>. QED  BY <1>4, <2>1, <2>2, Zenon DEF IsTurn
<1>. QED  BY <1>3, <1>5, <1>6, <1>8 DEF w, actions

(* What is read as a turn is saved as it was, but for kinds of actions.    *)
LEMMA TurnsRead ==
    ASSUME NEW d \in TurnDocs, IsTurn(d)
    PROVE  SaveTurn(ReadTurn(d)) = Written(d)
<1>. DEFINE actions == ReadActions(d.actions)
<1>1. d.update \in UpdateDocs
  BY DEF TurnDocs
<1>2. IsUpdate(d.update) /\ QuickActions(actions) = actions
  BY DEF IsTurn
<1>3. SaveUpdate(ReadUpdate(d.update)) = d.update
  BY <1>1, <1>2, UpdatesRead
<1>4. Written(d) = [narrative |-> d.narrative, actions |-> actions, update |-> d.update,
                    starts |-> d.starts, title |-> d.title]
  BY TurnsWritten
<1>. HIDE DEF actions
<1>5. ReadTurn(d) =
          [narrative |-> d.narrative, actions |-> actions,
           update |-> ReadUpdate(d.update), starts |-> d.starts, title |-> d.title]
  BY <1>2 DEF ReadTurn, actions
<1>6. SaveTurn([narrative |-> d.narrative, actions |-> actions,
                update |-> ReadUpdate(d.update), starts |-> d.starts, title |-> d.title]) =
          [narrative |-> d.narrative, actions |-> actions,
           update |-> SaveUpdate(ReadUpdate(d.update)), starts |-> d.starts, title |-> d.title]
  BY DEF SaveTurn
<1>. QED  BY <1>3, <1>4, <1>5, <1>6

(* The memory after a turn, there and back.                                *)
LEMMA SummariesSaved ==
    ASSUME NEW limits \in Limits, NEW s \in Summaries(limits.major_events)
    PROVE  /\ SaveSummary(s) \in SummaryDocs
           /\ SaveSummary(s).cast # <<>>
           /\ IsSummary(SaveSummary(s), limits)
           /\ ReadSummary(SaveSummary(s), limits) = s
<1>. DEFINE limit == limits.major_events
            events == s.major.events
            cast == Each(s.cast, SaveCharacter)
            d == [facts |-> s.facts, cast |-> cast, major |-> events, upcoming |-> s.upcoming]
<1>1. /\ s.facts \in [Fact -> Text] /\ s.cast \in Casts /\ s.major \in Majors(limit)
      /\ s.upcoming \in Events
      /\ s = [facts |-> s.facts, cast |-> s.cast, major |-> s.major, upcoming |-> s.upcoming]
  BY DEF Summaries
<1>2. /\ events \in Events /\ Len(events) <= limit
      /\ s.major = [events |-> events, limit |-> limit]
  BY <1>1 DEF Majors
<1>3. /\ cast \in Seq(SoulDocs) /\ cast # <<>>
      /\ Cardinality(Ids(cast)) = Len(cast)
      /\ NewCast(cast) = cast
      /\ \A i \in DOMAIN cast : IsCharacter(cast[i])
      /\ NewCast(Each(cast, ReadCharacter)) = s.cast
  BY <1>1, CastsSaved
<1>4. SaveSummary(s) = d
  BY DEF SaveSummary
<1>. HIDE DEF cast, events
<1>5. /\ events \in Seq(Raw) /\ EventList(events) = events
      /\ s.upcoming \in Seq(Raw) /\ EventList(s.upcoming) = s.upcoming
  BY <1>1, <1>2, EventsAreRaw DEF IsEventList
<1>6. s.facts \in [Fact -> Raw] /\ AllNormal(s.facts)
  BY <1>1, Texts DEF AllNormal
<1>7. MajorEvents(events, limit) = s.major
  BY <1>2 DEF MajorEvents, Latest
<1>8. /\ d \in SummaryDocs /\ d.facts = s.facts /\ d.cast = cast /\ d.major = events
      /\ d.upcoming = s.upcoming
  BY <1>3, <1>5, <1>6 DEF SummaryDocs
<1>. HIDE DEF d
<1>9. IsSummary(d, limits)
  BY <1>2, <1>3, <1>5, <1>6, <1>8 DEF IsSummary, IsEventList
<1>10. ReadSummary(d, limits) =
           [facts |-> s.facts, cast |-> s.cast, major |-> s.major, upcoming |-> s.upcoming]
  BY <1>3, <1>5, <1>7, <1>8 DEF ReadSummary
<1>. QED  BY <1>1, <1>3, <1>4, <1>8, <1>9, <1>10

(* What is read as the memory after a turn is saved as it was.             *)
LEMMA SummariesRead ==
    ASSUME NEW limits \in Limits, NEW d \in SummaryDocs, IsSummary(d, limits)
    PROVE  /\ SaveSummary(ReadSummary(d, limits)) = d
           /\ ReadSummary(d, limits).major = MajorEvents(d.major, limits.major_events)
           /\ ReadSummary(d, limits).major.events = d.major
<1>1. /\ d.cast \in Seq(SoulDocs)
      /\ d = [facts |-> d.facts, cast |-> d.cast, major |-> d.major, upcoming |-> d.upcoming]
  BY DEF SummaryDocs
<1>2. /\ Len(d.major) <= limits.major_events
      /\ EventList(d.major) = d.major /\ EventList(d.upcoming) = d.upcoming
      /\ \A i \in DOMAIN d.cast : IsCharacter(d.cast[i])
      /\ Cardinality(Ids(d.cast)) = Len(d.cast)
  BY DEF IsSummary, IsEventList
<1>3. Each(NewCast(Each(d.cast, ReadCharacter)), SaveCharacter) = d.cast
  BY <1>1, <1>2, CastsRead
<1>4. MajorEvents(d.major, limits.major_events) =
          [events |-> d.major, limit |-> limits.major_events]
  BY <1>2 DEF MajorEvents, Latest
<1>5. ReadSummary(d, limits) =
          [facts |-> d.facts, cast |-> NewCast(Each(d.cast, ReadCharacter)),
           major |-> [events |-> d.major, limit |-> limits.major_events],
           upcoming |-> d.upcoming]
  BY <1>2, <1>4 DEF ReadSummary
<1>6. SaveSummary([facts |-> d.facts, cast |-> NewCast(Each(d.cast, ReadCharacter)),
                   major |-> [events |-> d.major, limit |-> limits.major_events],
                   upcoming |-> d.upcoming]) =
          [facts |-> d.facts,
           cast |-> Each(NewCast(Each(d.cast, ReadCharacter)), SaveCharacter),
           major |-> d.major, upcoming |-> d.upcoming]
  BY DEF SaveSummary
<1>. QED  BY <1>1, <1>3, <1>4, <1>5, <1>6

----------------------------------------------------------------------------
(***************************************************************************)
(* Saved and read back: the whole game.                                    *)
(***************************************************************************)
GameDocs ==
    [world : WorldDocs, position : Nat, original : Limits, limits : Limits,
     turns : Seq(RecordDocs)]

(* A place of the log, there and back; reading it cuts nothing.            *)
LEMMA RecordsSaved ==
    ASSUME NEW limits \in Limits, NEW r \in Records(limits.major_events)
    PROVE  /\ SaveRecord(r) \in RecordDocs
           /\ SaveRecord(r).summary.cast # <<>>
           /\ SaveRecord(r).turn.actions # <<>>
           /\ IsTurn(SaveRecord(r).turn)
           /\ IsSummary(SaveRecord(r).summary, limits)
           /\ ReadRecord(SaveRecord(r), limits) = r
<1>1. /\ r.turn \in Turns /\ r.summary \in Summaries(limits.major_events)
      /\ r = [turn |-> r.turn, summary |-> r.summary]
  BY DEF Records
<1>. DEFINE turn == SaveTurn(r.turn)
            summary == SaveSummary(r.summary)
            d == [turn |-> turn, summary |-> summary]
<1>2. turn \in TurnDocs /\ IsTurn(turn) /\ ReadTurn(turn) = r.turn /\ turn.actions # <<>>
  BY <1>1, TurnsSaved
<1>3. /\ summary \in SummaryDocs /\ summary.cast # <<>>
      /\ IsSummary(summary, limits) /\ ReadSummary(summary, limits) = r.summary
  BY <1>1, SummariesSaved
<1>4. SaveRecord(r) = d
  BY DEF SaveRecord
<1>. HIDE DEF turn, summary
<1>5. d \in RecordDocs /\ d.turn = turn /\ d.summary = summary
  BY <1>2, <1>3 DEF RecordDocs
<1>6. ReadRecord(d, limits) = [turn |-> ReadTurn(turn), summary |-> ReadSummary(summary, limits)]
  BY DEF ReadRecord
<1>. HIDE DEF d
<1>. QED  BY <1>1, <1>2, <1>3, <1>4, <1>5, <1>6

(* A place of the log as it is written.                                    *)
LEMMA RecordsWritten ==
    ASSUME NEW limits \in Limits, NEW d \in RecordDocs
    PROVE  /\ WithKinds(d) = [turn |-> Written(d.turn), summary |-> d.summary]
           /\ WithKinds(d) \in RecordDocs
           /\ IsTurn(WithKinds(d).turn) <=> IsTurn(d.turn)
           /\ WithKinds(d).summary = d.summary
           /\ ReadRecord(WithKinds(d), limits) = ReadRecord(d, limits)
<1>. DEFINE w == [turn |-> Written(d.turn), summary |-> d.summary]
<1>1. /\ d.turn \in TurnDocs /\ d.summary \in SummaryDocs
      /\ d = [turn |-> d.turn, summary |-> d.summary]
  BY DEF RecordDocs
<1>2. WithKinds(d) = w
  BY <1>1 DEF WithKinds, Written
<1>3. /\ Written(d.turn) \in TurnDocs /\ ReadTurn(Written(d.turn)) = ReadTurn(d.turn)
      /\ IsTurn(Written(d.turn)) <=> IsTurn(d.turn)
  BY <1>1, TurnsWritten
<1>4. w.turn = Written(d.turn) /\ w.summary = d.summary
  OBVIOUS
<1>5. w \in RecordDocs
  BY <1>1, <1>3 DEF RecordDocs
<1>. HIDE DEF w
<1>. QED  BY <1>2, <1>3, <1>4, <1>5 DEF ReadRecord, w

(* What is read as a place of the log is saved as it would be written.     *)
LEMMA RecordsRead ==
    ASSUME NEW limits \in Limits, NEW d \in RecordDocs,
           IsTurn(d.turn), IsSummary(d.summary, limits)
    PROVE  SaveRecord(Cut(ReadRecord(d, limits), limits.major_events)) = WithKinds(d)
<1>1. /\ d.turn \in TurnDocs /\ d.summary \in SummaryDocs
      /\ d = [turn |-> d.turn, summary |-> d.summary]
  BY DEF RecordDocs
<1>. DEFINE turn == ReadTurn(d.turn)
            s == ReadSummary(d.summary, limits)
            cut == MajorEvents(s.major.events, limits.major_events)
<1>2. SaveTurn(turn) = Written(d.turn)
  BY <1>1, TurnsRead
<1>3. SaveSummary(s) = d.summary /\ cut = s.major
  BY <1>1, SummariesRead
<1>4. s = [facts |-> s.facts, cast |-> s.cast, major |-> s.major, upcoming |-> s.upcoming]
  BY DEF ReadSummary
<1>5. ReadRecord(d, limits) = [turn |-> turn, summary |-> s]
  BY DEF ReadRecord
<1>. HIDE DEF turn, s
<1>6. PICK facts, cast, major, upcoming :
          s = [facts |-> facts, cast |-> cast, major |-> major, upcoming |-> upcoming]
  BY <1>4, Zenon
<1>7. Cut([turn |-> turn, summary |-> s], limits.major_events) =
          [turn |-> turn, summary |-> [s EXCEPT !.major = cut]]
  BY <1>6 DEF Cut
<1>8. [s EXCEPT !.major = s.major] = s
  BY <1>6
<1>9. SaveRecord([turn |-> turn, summary |-> s]) =
          [turn |-> SaveTurn(turn), summary |-> SaveSummary(s)]
  BY DEF SaveRecord
<1>10. WithKinds(d) = [turn |-> Written(d.turn), summary |-> d.summary]
  BY RecordsWritten
<1>. QED  BY <1>2, <1>3, <1>5, <1>7, <1>8, <1>9, <1>10

(* A game, there and back.                                                 *)
LEMMA GamesSaved ==
    ASSUME NEW g, IsStory(g)
    PROVE  /\ SaveOf(g) \in GameDocs
           /\ SaveOf(g).world.playable # <<>>
           /\ \A i \in DOMAIN SaveOf(g).turns :
                  /\ SaveOf(g).turns[i].summary.cast # <<>>
                  /\ SaveOf(g).turns[i].turn.actions # <<>>
           /\ IsGame(SaveOf(g))
           /\ ReadGame(SaveOf(g)) = g
<1>1. /\ g.world \in GoodWorlds
      /\ g.position \in Nat /\ g.position \in DOMAIN g.world.playable
      /\ g.limits \in Limits /\ g.original \in Limits
      /\ g = [world |-> g.world, position |-> g.position, limits |-> g.limits,
              original |-> g.original, turns |-> g.turns]
  BY StoryFacts
<1>. DEFINE n == Len(g.turns)
            world == SaveWorld(g.world)
            turns == Each(g.turns, SaveRecord)
            d == [world |-> world, position |-> g.position, original |-> g.original,
                  limits |-> g.limits, turns |-> turns]
            back == [i \in DOMAIN turns |-> ReadRecord(turns[i], g.limits)]
<1>2. /\ g.turns \in Seq(Records(g.limits.major_events))
      /\ n \in Nat /\ DOMAIN g.turns = 1..n
  BY StoryFacts
<1>3. /\ world \in WorldDocs /\ IsWorld(world) /\ ReadWorld(world) = g.world
      /\ DOMAIN world.playable = DOMAIN g.world.playable
  BY <1>1, WorldsSaved
<1>4. \A i \in 1..n : g.turns[i] \in Records(g.limits.major_events)
  BY <1>2
<1>5. /\ DOMAIN turns = 1..n /\ turns = [i \in DOMAIN turns |-> turns[i]]
      /\ \A i \in 1..n : turns[i] = SaveRecord(g.turns[i])
  BY <1>2 DEF Each
<1>6. SaveOf(g) = d
  BY DEF SaveOf
<1>. HIDE DEF world, turns
<1>7. \A i \in 1..n : /\ turns[i] \in RecordDocs
                      /\ turns[i].summary.cast # <<>> /\ turns[i].turn.actions # <<>>
                      /\ IsTurn(turns[i].turn) /\ IsSummary(turns[i].summary, g.limits)
                      /\ ReadRecord(turns[i], g.limits) = g.turns[i]
  BY <1>1, <1>4, <1>5, RecordsSaved
<1>. HIDE DEF n
<1>8. turns \in Seq(RecordDocs)
  BY <1>2, <1>5, <1>7, Entries, Zenon
<1>9. back = g.turns
  <2>1. /\ DOMAIN back = DOMAIN g.turns /\ back = [i \in DOMAIN back |-> back[i]]
        /\ \A i \in 1..n : back[i] = g.turns[i]
    BY <1>2, <1>5, <1>7
  <2>. HIDE DEF back
  <2>. QED  BY <1>2, <2>1, SameEntries, Zenon DEF n
<1>10. world.playable # <<>>
  BY <1>3 DEF IsWorld
<1>11. /\ d \in GameDocs /\ d.world = world /\ d.position = g.position
       /\ d.original = g.original /\ d.limits = g.limits /\ d.turns = turns
  BY <1>1, <1>3, <1>8 DEF GameDocs
<1>. HIDE DEF d
<1>12. IsLimits(g.limits) /\ IsLimits(g.original)
  BY <1>1 DEF Limits, IsLimits
<1>13. IsGame(d)
  BY <1>1, <1>3, <1>5, <1>7, <1>11, <1>12 DEF IsGame
<1>14. ReadGame(d) = Restore(g, g.limits)
  BY <1>1, <1>3, <1>9, <1>11 DEF ReadGame
<1>15. Restore(g, g.limits) = g
  BY <1>1, Restored
<1>. QED  BY <1>5, <1>6, <1>7, <1>10, <1>11, <1>13, <1>14, <1>15

(* A game as it is written is read like the one it was written from.       *)
GameWritten(d) == [d EXCEPT !.turns = Each(@, WithKinds)]

LEMMA GamesWritten ==
    ASSUME NEW d \in GameDocs
    PROVE  /\ IsGame(GameWritten(d)) <=> IsGame(d)
           /\ ReadGame(GameWritten(d)) = ReadGame(d)
           /\ GameWritten(d) = [world |-> d.world, position |-> d.position,
                                original |-> d.original, limits |-> d.limits,
                                turns |-> Each(d.turns, WithKinds)]
<1>. DEFINE n == Len(d.turns)
            turns == Each(d.turns, WithKinds)
            w == [world |-> d.world, position |-> d.position, original |-> d.original,
                  limits |-> d.limits, turns |-> turns]
<1>1. /\ d.limits \in Limits /\ d.turns \in Seq(RecordDocs)
      /\ d = [world |-> d.world, position |-> d.position, original |-> d.original,
              limits |-> d.limits, turns |-> d.turns]
  BY DEF GameDocs
<1>2. n \in Nat /\ DOMAIN d.turns = 1..n /\ \A i \in 1..n : d.turns[i] \in RecordDocs
  BY <1>1
<1>3. DOMAIN turns = 1..n /\ \A i \in 1..n : turns[i] = WithKinds(d.turns[i])
  BY <1>2 DEF Each
<1>. HIDE DEF turns
<1>4. GameWritten(d) = w
  BY <1>1 DEF GameWritten, turns
<1>5. /\ w.world = d.world /\ w.position = d.position /\ w.original = d.original
      /\ w.limits = d.limits /\ w.turns = turns
  OBVIOUS
<1>. HIDE DEF w, n
<1>6. \A i \in 1..n :
          /\ IsTurn(turns[i].turn) <=> IsTurn(d.turns[i].turn)
          /\ turns[i].summary = d.turns[i].summary
          /\ ReadRecord(turns[i], d.limits) = ReadRecord(d.turns[i], d.limits)
  <2>. SUFFICES ASSUME NEW i \in 1..n
                PROVE  /\ IsTurn(turns[i].turn) <=> IsTurn(d.turns[i].turn)
                       /\ turns[i].summary = d.turns[i].summary
                       /\ ReadRecord(turns[i], d.limits) = ReadRecord(d.turns[i], d.limits)
    OBVIOUS
  <2>1. d.turns[i] \in RecordDocs /\ turns[i] = WithKinds(d.turns[i])
    BY <1>2, <1>3
  <2>. QED  BY <1>1, <2>1, RecordsWritten
<1>7. (\A i \in 1..n : IsTurn(turns[i].turn) /\ IsSummary(turns[i].summary, d.limits)) <=>
          \A i \in 1..n : IsTurn(d.turns[i].turn) /\ IsSummary(d.turns[i].summary, d.limits)
  BY <1>6
<1>8. IsGame(w) <=> IsGame(d)
  BY <1>2, <1>3, <1>5, <1>7, Zenon DEF IsGame
<1>9. [i \in DOMAIN turns |-> ReadRecord(turns[i], d.limits)] =
          [i \in DOMAIN d.turns |-> ReadRecord(d.turns[i], d.limits)]
  BY <1>2, <1>3, <1>6
<1>10. ReadGame(w) = ReadGame(d)
  BY <1>5, <1>9 DEF ReadGame
<1>. QED  BY <1>4, <1>8, <1>10 DEF w, turns

(* What is read as a game is saved as it would be written.                 *)
LEMMA GamesRead ==
    ASSUME NEW d \in GameDocs, IsGame(d)
    PROVE  SaveOf(ReadGame(d)) = GameWritten(d)
<1>1. /\ d.world \in WorldDocs /\ d.limits \in Limits /\ d.turns \in Seq(RecordDocs)
      /\ d = [world |-> d.world, position |-> d.position, original |-> d.original,
              limits |-> d.limits, turns |-> d.turns]
  BY DEF GameDocs
<1>. DEFINE n == Len(d.turns)
            read == [i \in DOMAIN d.turns |-> ReadRecord(d.turns[i], d.limits)]
            turns == [i \in DOMAIN read |-> Cut(read[i], d.limits.major_events)]
            back == Each(turns, SaveRecord)
<1>2. /\ n \in Nat /\ DOMAIN d.turns = 1..n
      /\ \A i \in 1..n : d.turns[i] \in RecordDocs
  BY <1>1
<1>3. /\ IsWorld(d.world)
      /\ \A i \in 1..n : /\ IsTurn(d.turns[i].turn)
                         /\ IsSummary(d.turns[i].summary, d.limits)
  BY <1>2 DEF IsGame
<1>4. SaveWorld(ReadWorld(d.world)) = d.world
  BY <1>1, <1>3, WorldsRead
<1>5. \A i \in 1..n :
          SaveRecord(Cut(ReadRecord(d.turns[i], d.limits), d.limits.major_events)) =
              WithKinds(d.turns[i])
  BY <1>1, <1>2, <1>3, RecordsRead
<1>6. back = Each(d.turns, WithKinds)
  <2>1. /\ DOMAIN turns = 1..n
        /\ \A i \in 1..n :
               turns[i] = Cut(ReadRecord(d.turns[i], d.limits), d.limits.major_events)
    BY <1>2
  <2>. HIDE DEF read, turns
  <2>2. /\ DOMAIN back = 1..n /\ back = [i \in DOMAIN back |-> back[i]]
        /\ \A i \in 1..n : back[i] = WithKinds(d.turns[i])
    BY <1>2, <1>5, <2>1 DEF Each
  <2>. HIDE DEF back
  <2>. QED  BY <1>2, <2>2 DEF Each
<1>7. ReadGame(d) =
          [world |-> ReadWorld(d.world), position |-> d.position, limits |-> d.limits,
           original |-> d.original, turns |-> turns]
  BY DEF ReadGame, Restore
<1>. HIDE DEF turns
<1>8. SaveOf(ReadGame(d)) =
          [world |-> SaveWorld(ReadWorld(d.world)), position |-> d.position,
           original |-> d.original, limits |-> d.limits, turns |-> back]
  BY <1>7 DEF SaveOf
<1>9. GameWritten(d) = [world |-> d.world, position |-> d.position, original |-> d.original,
                        limits |-> d.limits, turns |-> Each(d.turns, WithKinds)]
  BY GamesWritten
<1>. QED  BY <1>4, <1>6, <1>8, <1>9

(* A game is not what stands for an invalid document.                      *)
LEMMA GamesAreValid ==
    /\ \A g : IsStory(g) => IsValid(g)
    /\ \A g : IsValid(Envelope(g))
<1>1. DOMAIN Invalid = {"invalid"}
  BY DEF Invalid
<1>2. ASSUME NEW g, IsStory(g)
      PROVE  IsValid(g)
  <2>1. g = [world |-> g.world, position |-> g.position, limits |-> g.limits,
             original |-> g.original, turns |-> g.turns]
    BY <1>2, StoryFacts
  <2>2. "world" \in DOMAIN g
    BY <2>1
  <2>. QED  BY <1>1, <2>2 DEF IsValid
<1>3. ASSUME NEW g
      PROVE  IsValid(Envelope(g))
  <2>1. "version" \in DOMAIN Envelope(g)
    BY DEF Envelope
  <2>. QED  BY <1>1, <2>1 DEF IsValid
<1>. QED  BY <1>2, <1>3

(* A story is saved, and the document is read as the story.                *)
LEMMA StoriesAreSaved ==
    ASSUME NEW g, IsStory(g)
    PROVE  Encode(g) = Envelope(g) /\ Decode(Envelope(g)) = g
<1>1. Into(SaveOf(g)) = g
  BY GamesSaved DEF Into
<1>2. Encode(g) = Envelope(g)
  BY <1>1 DEF Encode
<1>. DEFINE doc == Envelope(g)
<1>3. /\ doc.version = Version /\ doc.title = g.world.title
      /\ doc.turn_count = Len(g.turns) /\ doc.game = SaveOf(g)
  BY DEF Envelope
<1>4. IsValid(doc) /\ IsValid(g)
  BY GamesAreValid
<1>. HIDE DEF doc
<1>5. Upgrade(doc) = doc
  BY <1>3 DEF Upgrade
<1>6. Decode(doc) = g
  BY <1>1, <1>3, <1>4, <1>5 DEF Decode
<1>. QED  BY <1>2, <1>6 DEF doc

EnvelopeDocs == [version : Nat, title : Raw, turn_count : Nat, game : GameDocs]

(* A document as it is written is read like the one it was written from.   *)
LEMMA DocumentsWritten ==
    ASSUME NEW doc \in EnvelopeDocs
    PROVE  /\ Canonical(doc) = [version |-> doc.version, title |-> doc.title,
                                turn_count |-> doc.turn_count, game |-> GameWritten(doc.game)]
           /\ Decode(Canonical(doc)) = Decode(doc)
<1>. DEFINE w == [version |-> doc.version, title |-> doc.title,
                  turn_count |-> doc.turn_count, game |-> GameWritten(doc.game)]
<1>1. /\ doc.game \in GameDocs
      /\ doc = [version |-> doc.version, title |-> doc.title, turn_count |-> doc.turn_count,
                game |-> doc.game]
  BY DEF EnvelopeDocs
<1>2. Canonical(doc) = w
  BY <1>1 DEF Canonical, GameWritten
<1>3. /\ w.version = doc.version /\ w.title = doc.title
      /\ w.turn_count = doc.turn_count /\ w.game = GameWritten(doc.game)
  OBVIOUS
<1>4. "version" \in DOMAIN w /\ "version" \in DOMAIN doc /\ "version" \notin DOMAIN Invalid
  <2>1. DOMAIN Invalid = {"invalid"}
    BY DEF Invalid
  <2>. QED  BY <1>1, <2>1
<1>. HIDE DEF w
<1>5. IsValid(w) /\ IsValid(doc) /\ ~IsValid(Invalid)
  BY <1>4 DEF IsValid
<1>6. Into(w.game) = Into(doc.game)
  BY <1>1, <1>3, GamesWritten DEF Into
<1>7. Decode(w) = Decode(doc)
  BY <1>3, <1>5, <1>6 DEF Decode, Upgrade
<1>. QED  BY <1>2, <1>7 DEF w

(* Whatever document is read, the game would be saved as that document.    *)
LEMMA DocumentsAreRead ==
    ASSUME NEW doc \in EnvelopeDocs, IsValid(Decode(doc))
    PROVE  Encode(Decode(doc)) = Canonical(doc)
<1>1. doc.game \in GameDocs
  BY DEF EnvelopeDocs
<1>. DEFINE g == ReadGame(doc.game)
<1>2. ~IsValid(Invalid)
  BY DEF IsValid
<1>3. doc.version = Version
  BY <1>2 DEF Decode, Upgrade
<1>4. /\ IsGame(doc.game) /\ Decode(doc) = g
      /\ doc.title = g.world.title /\ doc.turn_count = Len(g.turns)
  BY <1>2 DEF Decode, Into
<1>5. SaveOf(g) = GameWritten(doc.game)
  BY <1>1, <1>4, GamesRead
<1>6. Into(GameWritten(doc.game)) = g
  BY <1>1, <1>4, GamesWritten DEF Into
<1>. HIDE DEF g
<1>7. Encode(g) = [version |-> Version, title |-> g.world.title,
                   turn_count |-> Len(g.turns), game |-> SaveOf(g)]
  BY <1>5, <1>6 DEF Encode, Envelope
<1>8. Canonical(doc) = [version |-> doc.version, title |-> doc.title,
                        turn_count |-> doc.turn_count, game |-> GameWritten(doc.game)]
  BY DocumentsWritten
<1>. QED  BY <1>3, <1>4, <1>5, <1>7, <1>8

----------------------------------------------------------------------------
(***************************************************************************)
(* The game as it is played.                                               *)
(***************************************************************************)
(* What a step makes of a story.                                           *)
LEMMA StepsOfAStory ==
    ASSUME IsStory(game), Next
    PROVE  \/ \E turn \in Turns : game' = Commit(game, turn)
           \/ \E n \in 0..Len(game.turns) :
                  n < Len(game.turns) /\ game' = [game EXCEPT !.turns = SubSeq(@, 1, n)]
           \/ \E limits \in Limits : game' = Restore(game, limits)
<1>1. CASE TakeTurn
  <2>1. PICK wire \in TurnWires[Len(game.turns) + 1] :
            TurnOf(wire) # None /\ game' = Commit(game, TurnOf(wire))
    BY <1>1 DEF TakeTurn
  <2>2. Len(game.turns) \in Nat /\ Len(game.turns) < Len(TurnWires)
    BY <1>1, StoryFacts DEF TakeTurn
  <2>3. TurnWires \in Seq(SUBSET TurnWire)
    BY StoryAssumption
  <2>4. TurnWires[Len(game.turns) + 1] \in SUBSET TurnWire
    BY <2>2, <2>3
  <2>5. wire \in TurnWire
    BY <2>1, <2>4
  <2>. QED  BY <2>1, <2>5, TurnIs
<1>2. CASE Rewind
  <2>1. PICK count \in 1..Len(game.turns) :
            game' = [game EXCEPT !.turns = SubSeq(@, 1, Len(@) - count)]
    BY <1>2 DEF Rewind
  <2>2. Len(game.turns) \in Nat
    BY StoryFacts
  <2>3. Len(game.turns) - count \in 0..Len(game.turns)
        /\ Len(game.turns) - count < Len(game.turns)
    BY <2>2
  <2>. QED  BY <2>1, <2>3
<1>3. CASE Reload
  <2>1. PICK limits \in AllLimits \cup {game.original} :
            game' = Restore(Decode(Encode(game)), limits)
    BY <1>3 DEF Reload
  <2>2. Decode(Encode(game)) = game
    BY StoriesAreSaved
  <2>3. limits \in Limits
    BY StoryFacts, StoryAssumption
  <2>. QED  BY <2>1, <2>2, <2>3
<1>. QED  BY <1>1, <1>2, <1>3 DEF Next

(* Whatever is done with the game, it is a story: everything in it is      *)
(* normalised, everybody has an id of their own, the protagonist comes     *)
(* first, and the memory after every turn is within the limits.            *)
THEOREM WellFormed == Spec => []IsStory(game)
<1>1. Init => IsStory(game)
  BY Begun
<1>2. IsStory(game) /\ [Next]_game => IsStory(game)'
  <2>. SUFFICES ASSUME IsStory(game), [Next]_game
                PROVE  IsStory(game')
    OBVIOUS
  <2>1. CASE UNCHANGED game
    BY <2>1
  <2>2. ASSUME NEW turn \in Turns, game' = Commit(game, turn)
        PROVE  IsStory(game')
    BY <2>2, Continued
  <2>3. ASSUME NEW n \in 0..Len(game.turns), game' = [game EXCEPT !.turns = SubSeq(@, 1, n)]
        PROVE  IsStory(game')
    BY <2>3, Undone
  <2>4. ASSUME NEW limits \in Limits, game' = Restore(game, limits)
        PROVE  IsStory(game')
    BY <2>4, Restored
  <2>. QED  BY <2>1, <2>2, <2>3, <2>4, StepsOfAStory
<1>. QED  BY <1>1, <1>2, PTL DEF Spec

(* The story can always be saved, and what is read back is the story: no   *)
(* merge of a turn makes what the strict reader refuses or changes.        *)
THEOREM SavedAsItIs == Spec => []StoryCanBeSaved
<1>1. IsStory(game) => StoryCanBeSaved
  BY StoriesAreSaved, GamesAreValid DEF StoryCanBeSaved
<1>. QED  BY <1>1, WellFormed, PTL

----------------------------------------------------------------------------
(***************************************************************************)
(* Documents that somebody spoilt are documents still.                     *)
(***************************************************************************)
(* A sequence with its first entry once more, or backwards.                *)
LEMMA Rearranged ==
    ASSUME NEW S, NEW seq \in Seq(S)
    PROVE  Doubled(seq) \in Seq(S) /\ Reverse(seq) \in Seq(S)
<1>1. Doubled(seq) \in Seq(S)
  <2>1. seq # <<>> => Head(seq) \in S
    OBVIOUS
  <2>. QED  BY <2>1, Appended DEF Doubled
<1>2. Reverse(seq) \in Seq(S)
  <2>. DEFINE n == Len(seq)
  <2>1. n \in Nat /\ \A i \in 1..n : seq[(n - i) + 1] \in S
    OBVIOUS
  <2>2. /\ DOMAIN Reverse(seq) = 1..n
        /\ Reverse(seq) = [i \in DOMAIN Reverse(seq) |-> Reverse(seq)[i]]
        /\ \A i \in 1..n : Reverse(seq)[i] \in S
    BY <2>1 DEF Reverse
  <2>. HIDE DEF n
  <2>. QED  BY <2>1, <2>2, Entries, Zenon
<1>. QED  BY <1>1, <1>2

(* A memory.                                                               *)
LEMMA SpoiltMemory ==
    ASSUME NEW s \in SummaryDocs, s.cast # <<>>
    PROVE  SpoiltSummaries(s) \subseteq SummaryDocs
<1>1. Spoilt \in Raw /\ "" \in Raw
  BY CodecAssumption, StoryAssumption
<1>2. /\ s.facts \in [Fact -> Raw] /\ s.cast \in Seq(SoulDocs)
      /\ s.major \in Seq(Raw) /\ s.upcoming \in Seq(Raw)
  BY DEF SummaryDocs
<1>3. /\ \A x \in [Fact -> Raw] : [s EXCEPT !.facts = x] \in SummaryDocs
      /\ \A x \in Seq(SoulDocs) : [s EXCEPT !.cast = x] \in SummaryDocs
      /\ \A x \in Seq(Raw) : [s EXCEPT !.major = x] \in SummaryDocs
      /\ \A x \in Seq(Raw) : [s EXCEPT !.upcoming = x] \in SummaryDocs
  BY DEF SummaryDocs
<1>. DEFINE first == s.cast[1]
<1>4. 1 \in 1..Len(s.cast) /\ Head(s.cast) = first /\ first \in SoulDocs
  BY <1>2
<1>5. /\ \A x \in Raw : [first EXCEPT !.name = x] \in SoulDocs
      /\ \A x \in [Detail -> Raw] : [first EXCEPT !.details = x] \in SoulDocs
      /\ first.details \in [Detail -> Raw]
  BY <1>4 DEF SoulDocs
<1>6. \A x \in SoulDocs : [s.cast EXCEPT ![1] = x] \in Seq(SoulDocs)
  BY <1>2, <1>4, ExceptSeq
<1>7. [s EXCEPT !.major = Doubled(@)] \in SummaryDocs
  BY <1>2, <1>3, Rearranged
<1>8. [s EXCEPT !.major = Reverse(@)] \in SummaryDocs
  BY <1>2, <1>3, Rearranged
<1>9. [s EXCEPT !.upcoming = Append(@, Spoilt)] \in SummaryDocs
  BY <1>1, <1>2, <1>3, Appended
<1>10. [s EXCEPT !.cast = Doubled(@)] \in SummaryDocs
  BY <1>2, <1>3, Rearranged
<1>11. [s EXCEPT !.cast = Append(@, [Head(@) EXCEPT !.name = s.facts.current_situation])]
           \in SummaryDocs
  <2>1. s.facts.current_situation \in Raw
    BY <1>2 DEF Fact
  <2>2. [Head(s.cast) EXCEPT !.name = s.facts.current_situation] \in SoulDocs
    BY <1>4, <1>5, <2>1
  <2>3. Append(s.cast, [Head(s.cast) EXCEPT !.name = s.facts.current_situation])
            \in Seq(SoulDocs)
    BY <1>2, <2>2, Appended
  <2>. QED  BY <1>3, <2>3
<1>12. [s EXCEPT !.cast[1].name = Spoilt] \in SummaryDocs
  <2>1. [s.cast EXCEPT ![1] = [first EXCEPT !.name = Spoilt]] \in Seq(SoulDocs)
    BY <1>1, <1>5, <1>6
  <2>2. [s EXCEPT !.cast[1].name = Spoilt] =
            [s EXCEPT !.cast = [s.cast EXCEPT ![1] = [first EXCEPT !.name = Spoilt]]]
    OBVIOUS
  <2>. QED  BY <1>3, <2>1, <2>2
<1>13. [s EXCEPT !.cast[1].details.description = ""] \in SummaryDocs
  <2>. DEFINE bare == [first.details EXCEPT !.description = ""]
              someone == [first EXCEPT !.details = bare]
  <2>1. bare \in [Detail -> Raw]
    BY <1>1, <1>5
  <2>2. someone \in SoulDocs
    BY <1>5, <2>1
  <2>3. [s EXCEPT !.cast[1].details.description = ""] =
            [s EXCEPT !.cast = [s.cast EXCEPT ![1] = someone]]
    OBVIOUS
  <2>. HIDE DEF someone
  <2>. QED  BY <1>3, <1>6, <2>2, <2>3
<1>14. [s EXCEPT !.facts.world = ""] \in SummaryDocs
  <2>1. [s.facts EXCEPT !.world = ""] \in [Fact -> Raw]
    BY <1>1, <1>2
  <2>2. [s EXCEPT !.facts.world = ""] = [s EXCEPT !.facts = [s.facts EXCEPT !.world = ""]]
    OBVIOUS
  <2>. QED  BY <1>3, <2>1, <2>2
<1>. QED
  BY <1>7, <1>8, <1>9, <1>10, <1>11, <1>12, <1>13, <1>14, Zenon DEF SpoiltSummaries

(* A turn.                                                                 *)
LEMMA SpoiltTurn ==
    ASSUME NEW t \in TurnDocs, t.actions # <<>>
    PROVE  SpoiltTurns(t) \subseteq TurnDocs
<1>1. Spoilt \in Raw /\ "" \in Raw
  BY CodecAssumption, StoryAssumption
<1>2. t.actions \in Seq(ActionDocs) /\ t.update \in UpdateDocs
  BY DEF TurnDocs
<1>3. /\ \A x \in Seq(ActionDocs) : [t EXCEPT !.actions = x] \in TurnDocs
      /\ \A x \in UpdateDocs : [t EXCEPT !.update = x] \in TurnDocs
      /\ \A x \in Raw : [t EXCEPT !.title = x] \in TurnDocs
  BY DEF TurnDocs
<1>. DEFINE u == t.update
<1>4. /\ u.new \in Seq(Raw) /\ u.facts \in [Fact -> Raw]
      /\ \A x \in Seq(Raw) : [u EXCEPT !.new = x] \in UpdateDocs
      /\ \A x \in [Fact -> Raw] : [u EXCEPT !.facts = x] \in UpdateDocs
  BY <1>2 DEF UpdateDocs
<1>5. [t EXCEPT !.actions = Doubled(@)] \in TurnDocs
  BY <1>2, <1>3, Rearranged
<1>6. [t EXCEPT !.actions = <<>>] \in TurnDocs
  <2>1. <<>> \in Seq(ActionDocs)
    OBVIOUS
  <2>. QED  BY <1>3, <2>1
<1>7. [t EXCEPT !.title = Spoilt] \in TurnDocs /\ [t EXCEPT !.title = ""] \in TurnDocs
  BY <1>1, <1>3
<1>8. [t EXCEPT !.update.new = Doubled(@)] \in TurnDocs
  <2>1. [u EXCEPT !.new = Doubled(u.new)] \in UpdateDocs
    BY <1>4, Rearranged
  <2>2. [t EXCEPT !.update.new = Doubled(@)] =
            [t EXCEPT !.update = [u EXCEPT !.new = Doubled(u.new)]]
    OBVIOUS
  <2>. QED  BY <1>3, <2>1, <2>2
<1>9. [t EXCEPT !.update.facts.world = Spoilt] \in TurnDocs
  <2>1. [u.facts EXCEPT !.world = Spoilt] \in [Fact -> Raw]
    BY <1>1, <1>4
  <2>2. [u EXCEPT !.facts = [u.facts EXCEPT !.world = Spoilt]] \in UpdateDocs
    BY <1>4, <2>1
  <2>3. [t EXCEPT !.update.facts.world = Spoilt] =
            [t EXCEPT !.update = [u EXCEPT !.facts = [u.facts EXCEPT !.world = Spoilt]]]
    OBVIOUS
  <2>. QED  BY <1>3, <2>2, <2>3
<1>10. \A kind \in Raw \cup {None} : [t EXCEPT !.actions[1].kind = kind] \in TurnDocs
  <2>. SUFFICES ASSUME NEW kind \in Raw \cup {None}
                PROVE  [t EXCEPT !.actions[1].kind = kind] \in TurnDocs
    OBVIOUS
  <2>. DEFINE a == t.actions[1]
              spoilt == [a EXCEPT !.kind = kind]
  <2>1. 1 \in 1..Len(t.actions) /\ a \in ActionDocs
    BY <1>2
  <2>2. spoilt \in ActionDocs
    BY <2>1 DEF ActionDocs
  <2>3. [t EXCEPT !.actions[1].kind = kind] = [t EXCEPT !.actions = [t.actions EXCEPT ![1] = spoilt]]
    OBVIOUS
  <2>. HIDE DEF spoilt
  <2>4. [t.actions EXCEPT ![1] = spoilt] \in Seq(ActionDocs)
    BY <1>2, <2>1, <2>2, ExceptSeq
  <2>. QED  BY <1>3, <2>3, <2>4
<1>. QED  BY <1>1, <1>5, <1>6, <1>7, <1>8, <1>9, <1>10, Zenon DEF SpoiltTurns

(* A world.                                                                *)
LEMMA SpoiltWorld ==
    ASSUME NEW w \in WorldDocs, w.playable # <<>>
    PROVE  SpoiltWorlds(w) \subseteq WorldDocs
<1>1. Spoilt \in Raw /\ "" \in Raw
  BY CodecAssumption, StoryAssumption
<1>2. w.playable \in Seq(PersonWire) /\ w.npcs \in Seq(PersonWire)
  BY DEF WorldDocs
<1>3. /\ \A x \in Raw : [w EXCEPT !.title = x] \in WorldDocs
      /\ \A x \in Seq(PersonWire) : [w EXCEPT !.playable = x] \in WorldDocs
      /\ \A x \in Seq(PersonWire) : [w EXCEPT !.npcs = x] \in WorldDocs
  BY DEF WorldDocs
<1>4. [w EXCEPT !.playable = Doubled(@)] \in WorldDocs
  BY <1>2, <1>3, Rearranged
<1>5. [w EXCEPT !.npcs = Doubled(@)] \in WorldDocs
  BY <1>2, <1>3, Rearranged
<1>6. [w EXCEPT !.title = ""] \in WorldDocs
  BY <1>1, <1>3
<1>7. [w EXCEPT !.playable[1].name = Spoilt] \in WorldDocs
  <2>. DEFINE someone == [w.playable[1] EXCEPT !.name = Spoilt]
  <2>1. 1 \in 1..Len(w.playable) /\ w.playable[1] \in PersonWire
    BY <1>2
  <2>2. someone \in PersonWire
    BY <1>1, <2>1 DEF PersonWire
  <2>3. [w EXCEPT !.playable[1].name = Spoilt] =
            [w EXCEPT !.playable = [w.playable EXCEPT ![1] = someone]]
    OBVIOUS
  <2>. HIDE DEF someone
  <2>4. [w.playable EXCEPT ![1] = someone] \in Seq(PersonWire)
    BY <1>2, <2>1, <2>2, ExceptSeq
  <2>. QED  BY <1>3, <2>3, <2>4
<1>. QED  BY <1>4, <1>5, <1>6, <1>7, Zenon DEF SpoiltWorlds

(* A game.                                                                 *)
LEMMA SpoiltGame ==
    ASSUME NEW d \in GameDocs, d.world.playable # <<>>,
           \A i \in DOMAIN d.turns :
               d.turns[i].summary.cast # <<>> /\ d.turns[i].turn.actions # <<>>
    PROVE  SpoiltGames(d) \subseteq GameDocs
<1>. DEFINE n == Len(d.turns)
<1>1. /\ d.world \in WorldDocs /\ d.position \in Nat /\ d.turns \in Seq(RecordDocs)
      /\ n \in Nat
  BY DEF GameDocs
<1>2. /\ \A x \in Limits : [d EXCEPT !.limits = x] \in GameDocs
      /\ \A x \in Nat : [d EXCEPT !.position = x] \in GameDocs
      /\ \A x \in Seq(RecordDocs) : [d EXCEPT !.turns = x] \in GameDocs
      /\ \A x \in WorldDocs : [d EXCEPT !.world = x] \in GameDocs
  BY DEF GameDocs
<1>3. \A limits \in AllLimits : [d EXCEPT !.limits = limits] \in GameDocs
  BY <1>2, StoryAssumption
<1>4. [d EXCEPT !.position = @ + 1] \in GameDocs
  BY <1>1, <1>2
<1>5. [d EXCEPT !.turns = Reverse(@)] \in GameDocs
  BY <1>1, <1>2, Rearranged
<1>6. \A m \in 0..n : [d EXCEPT !.turns = SubSeq(@, 1, m)] \in GameDocs
  <2>1. \A m \in 0..n : SubSeq(d.turns, 1, m) \in Seq(RecordDocs)
    BY <1>1
  <2>. QED  BY <1>2, <2>1
<1>7. \A w \in SpoiltWorlds(d.world) : [d EXCEPT !.world = w] \in GameDocs
  BY <1>1, <1>2, SpoiltWorld
<1>8. ASSUME n # 0
      PROVE  /\ \A t \in SpoiltTurns(d.turns[n].turn) :
                    [d EXCEPT !.turns[n].turn = t] \in GameDocs
             /\ \A s \in SpoiltSummaries(d.turns[n].summary) :
                    [d EXCEPT !.turns[n].summary = s] \in GameDocs
  <2>. DEFINE r == d.turns[n]
  <2>1. n \in 1..Len(d.turns) /\ r \in RecordDocs /\ n \in DOMAIN d.turns
    BY <1>1, <1>8
  <2>2. /\ r.turn \in TurnDocs /\ r.summary \in SummaryDocs
        /\ r.summary.cast # <<>> /\ r.turn.actions # <<>>
    BY <2>1 DEF RecordDocs
  <2>3. /\ \A t \in TurnDocs : [r EXCEPT !.turn = t] \in RecordDocs
        /\ \A s \in SummaryDocs : [r EXCEPT !.summary = s] \in RecordDocs
    BY <2>1 DEF RecordDocs
  <2>4. \A x \in RecordDocs : [d EXCEPT !.turns = [d.turns EXCEPT ![n] = x]] \in GameDocs
    BY <1>1, <1>2, <2>1, ExceptSeq
  <2>5. \A t : [d EXCEPT !.turns[n].turn = t] =
                   [d EXCEPT !.turns = [d.turns EXCEPT ![n] = [r EXCEPT !.turn = t]]]
    OBVIOUS
  <2>6. \A s : [d EXCEPT !.turns[n].summary = s] =
                   [d EXCEPT !.turns = [d.turns EXCEPT ![n] = [r EXCEPT !.summary = s]]]
    OBVIOUS
  <2>7. ASSUME NEW t \in SpoiltTurns(r.turn)
        PROVE  [d EXCEPT !.turns[n].turn = t] \in GameDocs
    <3>1. t \in TurnDocs
      BY <2>2, SpoiltTurn
    <3>. HIDE DEF r, n
    <3>. QED  BY <2>3, <2>4, <2>5, <3>1
  <2>8. ASSUME NEW s \in SpoiltSummaries(r.summary)
        PROVE  [d EXCEPT !.turns[n].summary = s] \in GameDocs
    <3>1. s \in SummaryDocs
      BY <2>2, SpoiltMemory
    <3>. HIDE DEF r, n
    <3>. QED  BY <2>3, <2>4, <2>6, <3>1
  <2>. QED  BY <2>7, <2>8
<1>. QED  BY <1>3, <1>4, <1>5, <1>6, <1>7, <1>8, Zenon DEF SpoiltGames

(* A document.                                                             *)
LEMMA SpoiltDocument ==
    ASSUME NEW g, IsStory(g)
    PROVE  Documents(Envelope(g)) \subseteq EnvelopeDocs
<1>. DEFINE doc == Envelope(g)
<1>1. /\ doc.version = Version /\ doc.title = g.world.title
      /\ doc.turn_count = Len(g.turns) /\ doc.game = SaveOf(g)
      /\ doc = [version |-> doc.version, title |-> doc.title,
                turn_count |-> doc.turn_count, game |-> doc.game]
  BY DEF Envelope
<1>2. Version \in Nat /\ Spoilt \in Raw
  BY CodecAssumption
<1>3. g.world.title \in Raw
  <2>1. g.world \in GoodWorlds
    BY StoryFacts
  <2>2. g.world.title \in Text
    BY <2>1 DEF GoodWorlds
  <2>. QED  BY <2>2, Texts
<1>4. Len(g.turns) \in Nat
  BY StoryFacts
<1>5. SaveOf(g) \in GameDocs /\ SpoiltGames(SaveOf(g)) \subseteq GameDocs
  BY GamesSaved, SpoiltGame
<1>. HIDE DEF doc
<1>6. doc \in EnvelopeDocs
  <2>1. [version |-> doc.version, title |-> doc.title, turn_count |-> doc.turn_count,
         game |-> doc.game] \in EnvelopeDocs
    BY <1>1, <1>2, <1>3, <1>4, <1>5 DEF EnvelopeDocs
  <2>. QED  BY <1>1, <2>1
<1>7. /\ \A x \in Nat : [doc EXCEPT !.version = x] \in EnvelopeDocs
      /\ \A x \in Raw : [doc EXCEPT !.title = x] \in EnvelopeDocs
      /\ \A x \in Nat : [doc EXCEPT !.turn_count = x] \in EnvelopeDocs
  BY <1>6 DEF EnvelopeDocs
<1>8. /\ [doc EXCEPT !.version = @ + 1] \in EnvelopeDocs
      /\ [doc EXCEPT !.title = Spoilt] \in EnvelopeDocs
      /\ [doc EXCEPT !.turn_count = @ + 1] \in EnvelopeDocs
  <2>1. doc.version + 1 \in Nat /\ doc.turn_count + 1 \in Nat
    BY <1>1, <1>2, <1>4
  <2>. QED  BY <1>2, <1>7, <2>1, Zenon
<1>9. ASSUME NEW d \in SpoiltGames(doc.game)
      PROVE  [version |-> doc.version, title |-> doc.title, turn_count |-> Len(d.turns),
              game |-> d] \in EnvelopeDocs
  <2>1. d \in GameDocs
    BY <1>1, <1>5
  <2>2. Len(d.turns) \in Nat
    BY <2>1 DEF GameDocs
  <2>. QED  BY <1>1, <1>2, <1>3, <2>1, <2>2 DEF EnvelopeDocs
<1>10. Documents(doc) \subseteq EnvelopeDocs
  BY <1>8, <1>9, Zenon DEF Documents
<1>. QED  BY <1>10 DEF doc

(* Reading a document changes nothing in it but kinds of actions: it is    *)
(* refused, or the game that comes out of it is saved as the very same     *)
(* document, where a kind that nobody knows, or none, has become "other";  *)
(* and it is read like that document.                                      *)
THEOREM ReadAsItIs == Spec => []LoadLosesNothing
<1>1. IsStory(game) => LoadLosesNothing
  <2>. SUFFICES ASSUME IsStory(game), NEW doc \in Documents(Envelope(game))
                PROVE  /\ Decode(doc) = Decode(Canonical(doc))
                       /\ IsValid(Decode(doc)) => Encode(Decode(doc)) = Canonical(doc)
    BY DEF LoadLosesNothing
  <2>1. doc \in EnvelopeDocs
    BY SpoiltDocument
  <2>. QED  BY <2>1, DocumentsWritten, DocumentsAreRead
<1>. QED  BY <1>1, WellFormed, PTL

----------------------------------------------------------------------------
(* What is remembered: events.                                             *)
(***************************************************************************)
(* An event is told unless somebody told it before.                        *)
LEMMA TellingText ==
    ASSUME NEW events, NEW item \in Text
    PROVE  Tell(events, item) = IF IsTold(events, item) THEN events ELSE Append(events, item)
<1>1. item \in Raw /\ Trim[item] = item /\ Opt(item) # None
  BY Texts, Opts
<1>. QED  BY <1>1 DEF Tell

(* Two sequences, one after the other.                                     *)
LEMMA Joining ==
    ASSUME NEW S, NEW s \in Seq(S), NEW t \in Seq(S)
    PROVE  /\ s \o t \in Seq(S)
           /\ Len(s \o t) = Len(s) + Len(t)
           /\ \A i \in 1..Len(s) : (s \o t)[i] = s[i]
           /\ \A i \in 1..Len(t) : (s \o t)[Len(s) + i] = t[i]
           /\ t = <<>> => s \o t = s
OBVIOUS

(* What was there stays where it was, and after it comes what is news and  *)
(* was not told before.                                                    *)
LEMMA Retelling ==
    ASSUME NEW base \in Events, NEW news \in Events
    PROVE  /\ EventList(base \o news) = base \o Fresh(base, news)
           /\ Fresh(base, news) \in Seq(Text)
<1>. DEFINE items == base \o news
            m == Len(base)
            n == Len(news)
            opt == [i \in DOMAIN news |-> IF IsTold(base, news[i]) THEN None ELSE news[i]]
<1>1. /\ base \in Seq(Text) /\ news \in Seq(Text) /\ m \in Nat /\ n \in Nat
      /\ DOMAIN base = 1..m /\ DOMAIN news = 1..n
      /\ \A i \in 1..m : base[i] \in Text
      /\ \A i \in 1..n : news[i] \in Text
      /\ \A i, j \in 1..m : Key[base[i]] = Key[base[j]] => i = j
      /\ \A i, j \in 1..n : Key[news[i]] = Key[news[j]] => i = j
  BY DEF Events
<1>2. /\ Len(items) = m + n
      /\ \A i \in 1..m : items[i] = base[i]
      /\ \A i \in 1..n : items[m + i] = news[i]
  BY <1>1, Joining
<1>3. PICK events : /\ events[0] = <<>>
                    /\ \A k \in 1..m + n : events[k] = Tell(events[k - 1], items[k])
                    /\ EventList(items) = events[m + n]
  <2>1. Len(items) \in Nat /\ Len(items) = m + n
    BY <1>1, <1>2
  <2>. HIDE DEF items, m, n
  <2>. QED  BY <2>1, EventListSteps
<1>4. Len(opt) = n /\ \A i \in 1..n : opt[i] = IF IsTold(base, news[i]) THEN None ELSE news[i]
  BY <1>1
<1>5. PICK kept : /\ kept[0] = <<>>
                  /\ \A k \in 1..n : kept[k] = Add(kept[k - 1], opt[k])
                  /\ Some(opt) = kept[n]
  <2>. HIDE DEF opt, n
  <2>. QED  BY <1>1, <1>4, SomeSteps
<1>6. Some(opt) = Fresh(base, news)
  BY DEF Fresh
<1>. HIDE DEF items, opt, m, n
<1>. DEFINE Old(k) == events[k] = SubSeq(base, 1, k)
<1>7. \A k \in 0..m : Old(k)
  <2>. DEFINE T == {k \in 0..m : Old(k)}
  <2>1. 0 \in T
    <3>1. SubSeq(base, 1, 0) = <<>> /\ 0 \in 0..m
      BY <1>1, PrefixEnds
    <3>2. Old(0)
      BY <1>3, <3>1, Zenon
    <3>. HIDE DEF Old
    <3>. QED  BY <3>1, <3>2
  <2>2. ASSUME NEW k \in 1..m, k - 1 \in T
        PROVE  k \in T
    <3>. DEFINE before == SubSeq(base, 1, k - 1)
    <3>1. /\ before \in Seq(Text) /\ Len(before) = k - 1 /\ DOMAIN before = 1..k - 1
          /\ \A i \in 1..k - 1 : before[i] = base[i]
      BY <1>1 DEF m
    <3>2. events[k - 1] = before /\ k \in 1..m + n
      BY <1>1, <2>2
    <3>3. SubSeq(base, 1, k) = Append(before, base[k])
      BY <1>1, PrefixGrows DEF m
    <3>. HIDE DEF before
    <3>4. ~IsTold(before, base[k])
      BY <1>1, <3>1 DEF IsTold
    <3>5. events[k] = Append(before, base[k])
      BY <1>1, <1>2, <1>3, <3>2, <3>4, TellingText
    <3>6. Old(k)
      BY <3>3, <3>5
    <3>. HIDE DEF Old
    <3>. QED  BY <3>6
  <2>. HIDE DEF T
  <2>3. \A k \in 0..m : k \in T
    BY <1>1, <2>1, <2>2, Counting
  <2>. QED  BY <2>3 DEF T
<1>8. events[m] = base
  <2>1. SubSeq(base, 1, m) = base /\ m \in 0..m
    BY <1>1 DEF m
  <2>. QED  BY <1>7, <2>1
<1>. HIDE DEF Old
<1>. DEFINE New(k) == /\ events[m + k] = base \o kept[k]
                      /\ kept[k] \in Seq(Text)
                      /\ \A i \in DOMAIN kept[k] : \E j \in 1..k : kept[k][i] = news[j]
<1>9. \A k \in 0..n : New(k)
  <2>. DEFINE T == {k \in 0..n : New(k)}
  <2>1. 0 \in T
    <3>1. 0 \in 0..n /\ m + 0 = m /\ <<>> \in Seq(Text) /\ base \o <<>> = base
      BY <1>1
    <3>2. New(0)
      BY <1>5, <1>8, <3>1
    <3>. QED  BY <3>1, <3>2
  <2>2. ASSUME NEW k \in 1..n, k - 1 \in T
        PROVE  k \in T
    <3>. DEFINE fresh == kept[k - 1]
                e == news[k]
                told == base \o fresh
    <3>1. /\ events[m + (k - 1)] = told /\ fresh \in Seq(Text)
          /\ \A i \in DOMAIN fresh : \E j \in 1..k - 1 : fresh[i] = news[j]
          /\ e \in Text
      BY <1>1, <2>2
    <3>2. /\ events[m + k] = Tell(told, e)
          /\ kept[k] = Add(fresh, opt[k])
      <4>1. m + k \in 1..m + n /\ (m + k) - 1 = m + (k - 1)
        BY <1>1
      <4>. QED  BY <1>2, <1>3, <1>5, <3>1, <4>1
    <3>. HIDE DEF fresh, e
    <3>3. /\ told \in Seq(Text) /\ Len(told) = m + Len(fresh) /\ Len(fresh) \in Nat
          /\ \A i \in 1..m : told[i] = base[i]
          /\ \A i \in 1..Len(fresh) : told[m + i] = fresh[i]
          /\ DOMAIN told = 1..m + Len(fresh)
      BY <1>1, <3>1, Joining DEF m
    <3>4. \A i \in DOMAIN fresh : Key[fresh[i]] # Key[e]
      BY <1>1, <3>1 DEF e
    <3>. HIDE DEF told
    <3>5. IsTold(told, e) <=> IsTold(base, e)
      <4>1. ASSUME NEW i \in DOMAIN told, Key[told[i]] = Key[e]
            PROVE  IsTold(base, e)
        <5>1. CASE i \in 1..m
          BY <1>1, <3>3, <4>1, <5>1 DEF IsTold
        <5>2. CASE i \notin 1..m
          <6>1. i - m \in 1..Len(fresh) /\ i = m + (i - m)
            BY <1>1, <3>3, <5>2
          <6>2. told[i] = fresh[i - m] /\ i - m \in DOMAIN fresh
            BY <3>1, <3>3, <6>1
          <6>. QED  BY <3>4, <4>1, <6>2
        <5>. QED  BY <5>1, <5>2
      <4>2. ASSUME NEW i \in DOMAIN base, Key[base[i]] = Key[e]
            PROVE  IsTold(told, e)
        BY <1>1, <3>3, <4>2 DEF IsTold
      <4>. QED  BY <4>1, <4>2 DEF IsTold
    <3>6. opt[k] = IF IsTold(base, e) THEN None ELSE e
      BY <1>4 DEF e
    <3>7. e # None
      BY <3>1, Texts
    <3>8. CASE IsTold(base, e)
      <4>1. events[m + k] = told /\ kept[k] = fresh
        BY <3>1, <3>2, <3>5, <3>6, <3>8, TellingText DEF Add
      <4>2. \A i \in DOMAIN fresh : \E j \in 1..k : fresh[i] = news[j]
        BY <3>1
      <4>3. New(k)
        BY <3>1, <4>1, <4>2, Zenon DEF told
      <4>. QED  BY <4>3
    <3>9. CASE ~IsTold(base, e)
      <4>. DEFINE more == Append(fresh, e)
      <4>1. events[m + k] = Append(told, e) /\ kept[k] = more
        BY <3>1, <3>2, <3>5, <3>6, <3>7, <3>9, TellingText DEF Add
      <4>2. Append(told, e) = base \o more
        <5>1. base \in Seq(Text) /\ fresh \in Seq(Text) /\ e \in Text
          BY <1>1, <3>1
        <5>2. Append(base \o fresh, e) = base \o Append(fresh, e)
          BY <5>1
        <5>. QED  BY <5>2 DEF told
      <4>3. /\ more \in Seq(Text) /\ Len(more) = Len(fresh) + 1
            /\ more[Len(fresh) + 1] = e
            /\ \A i \in 1..Len(fresh) : more[i] = fresh[i]
        BY <3>1, Appended
      <4>. HIDE DEF more
      <4>4. ASSUME NEW i \in DOMAIN more
            PROVE  \E j \in 1..k : more[i] = news[j]
        <5>1. CASE i = Len(fresh) + 1
          BY <4>3, <5>1 DEF e
        <5>2. CASE i # Len(fresh) + 1
          <6>1. i \in 1..Len(fresh) /\ i \in DOMAIN fresh
            BY <3>1, <3>3, <4>3, <5>2
          <6>2. PICK j \in 1..k - 1 : fresh[i] = news[j]
            BY <3>1, <6>1
          <6>. QED  BY <4>3, <6>1, <6>2
        <5>. QED  BY <5>1, <5>2
      <4>5. New(k)
        BY <4>1, <4>2, <4>3, <4>4
      <4>. QED  BY <4>5
    <3>. QED  BY <3>8, <3>9
  <2>. HIDE DEF T
  <2>3. \A k \in 0..n : k \in T
    BY <1>1, <2>1, <2>2, Counting
  <2>. QED  BY <2>3 DEF T
<1>10. New(n)
  <2>1. n \in 0..n
    BY <1>1
  <2>. HIDE DEF New
  <2>. QED  BY <1>9, <2>1
<1>. QED  BY <1>3, <1>5, <1>6, <1>10 DEF items

(* The latest of some events are their end, as long as the limit allows.   *)
LEMMA LatestIs ==
    ASSUME NEW S, NEW events \in Seq(S), NEW limit \in Nat \ {0}
    PROVE  LET kept == Latest(events, limit) IN
           /\ Len(kept) = Min({limit, Len(events)})
           /\ \A i \in DOMAIN kept : kept[i] = events[Len(events) - Len(kept) + i]
<1>. DEFINE kept == Latest(events, limit)
            n == Len(events)
<1>1. n \in Nat
  OBVIOUS
<1>2. Min({limit, n}) = IF limit <= n THEN limit ELSE n
  BY <1>1, LeastOfTwo
<1>3. CASE n <= limit
  <2>1. kept = events
    BY <1>3 DEF Latest
  <2>2. Min({limit, n}) = n
    BY <1>1, <1>2, <1>3
  <2>3. \A i \in DOMAIN events : (n - n) + i = i
    BY <1>1
  <2>. QED  BY <2>1, <2>2, <2>3
<1>4. CASE ~(n <= limit)
  <2>. DEFINE from == n - limit
              late == SubSeq(events, from + 1, n)
  <2>1. kept = late
    BY <1>4 DEF Latest
  <2>2. Len(late) = limit /\ DOMAIN late = 1..limit /\ \A i \in 1..limit : late[i] = events[from + i]
    BY <1>1, <1>4
  <2>3. Min({limit, n}) = limit
    BY <1>1, <1>2, <1>4
  <2>. HIDE DEF late
  <2>. QED  BY <1>1, <2>1, <2>2, <2>3
<1>. QED  BY <1>3, <1>4

(* The events after a turn.                                                *)
LEMMA EventsKept ==
    ASSUME NEW limit \in Nat \ {0}, NEW events \in Events, NEW update \in Updates
    PROVE  EventsAreKept(events, update,
                         UpdatedMajor([events |-> events, limit |-> limit],
                                      update.consolidated, update.new).events, limit)
<1>. DEFINE old == IF update.consolidated = <<>> THEN events ELSE update.consolidated
            told == old \o Fresh(old, update.new)
<1>1. old \in Events /\ update.new \in Events
  BY DEF Updates
<1>2. EventList(old \o update.new) = told /\ Fresh(old, update.new) \in Seq(Text)
  BY <1>1, Retelling
<1>3. told \in Seq(Text)
  BY <1>1, <1>2, Joining DEF Events
<1>4. UpdatedMajor([events |-> events, limit |-> limit], update.consolidated, update.new).events =
          Latest(told, limit)
  BY <1>2 DEF UpdatedMajor, MajorEvents
<1>. HIDE DEF told
<1>5. /\ Len(Latest(told, limit)) = Min({limit, Len(told)})
      /\ \A i \in DOMAIN Latest(told, limit) :
             Latest(told, limit)[i] = told[Len(told) - Len(Latest(told, limit)) + i]
  BY <1>3, LatestIs
<1>. QED  BY <1>4, <1>5, Zenon DEF EventsAreKept, told

----------------------------------------------------------------------------
(***************************************************************************)
(* What is remembered: people.                                             *)
(***************************************************************************)
(* The greatest number of some.                                            *)
LEMMA Greatest ==
    ASSUME NEW n \in Nat, NEW T \in SUBSET (1..n), T # {}
    PROVE  Max(T) \in T /\ \A y \in T : y <= Max(T)
<1>. DEFINE Distances == {n - y : y \in T}
<1>1. PICK least \in Distances : \A x \in Distances : least <= x
  <2>1. Distances \in SUBSET Nat
    OBVIOUS
  <2>2. Distances # {}
    <3>1. PICK y \in T : TRUE
      OBVIOUS
    <3>2. n - y \in Distances
      BY <3>1
    <3>. QED  BY <3>2
  <2>. HIDE DEF Distances
  <2>. QED  BY <2>1, <2>2, Smallest
<1>2. PICK greatest \in T : least = n - greatest
  BY <1>1
<1>3. \A y \in T : greatest >= y
  <2>. SUFFICES ASSUME NEW y \in T
                PROVE  greatest >= y
    OBVIOUS
  <2>1. n - greatest <= n - y
    BY <1>1, <1>2
  <2>. QED  BY <2>1
<1>4. Max(T) \in T /\ \A y \in T : Max(T) >= y
  BY <1>2, <1>3 DEF Max
<1>. QED  BY <1>4

(* The last one with a name.                                               *)
LastNamed(cast, x, i) ==
    /\ i \in DOMAIN cast /\ Key[cast[i].name] = x
    /\ \A j \in DOMAIN cast : j > i => Key[cast[j].name] # x

(* It is known by that name, and every name is known.                      *)
LEMMA NamesAre ==
    ASSUME NEW cast \in Casts
    PROVE  /\ \A i \in DOMAIN cast : Key[cast[i].name] \in DOMAIN Names(cast)
           /\ \A x \in DOMAIN Names(cast) :
                  \E i \in DOMAIN cast : LastNamed(cast, x, i) /\ Names(cast)[x] = cast[i].id
           /\ \A i \in DOMAIN cast : \A x :
                  LastNamed(cast, x, i) => Names(cast)[x] = cast[i].id
<1>. DEFINE n == Len(cast)
            Places(x) == {i \in DOMAIN cast : Key[cast[i].name] = x}
            names == Names(cast)
<1>1. n \in Nat /\ DOMAIN cast = 1..n
  BY CastFacts
<1>2. /\ DOMAIN names = {Key[cast[i].name] : i \in DOMAIN cast}
      /\ \A x \in DOMAIN names : names[x] = cast[Max(Places(x))].id
  BY DEF Names
<1>. HIDE DEF names
<1>3. ASSUME NEW x \in DOMAIN names
      PROVE  LastNamed(cast, x, Max(Places(x)))
  <2>1. Places(x) \in SUBSET (1..n) /\ Places(x) # {}
    BY <1>1, <1>2
  <2>. HIDE DEF Places
  <2>2. Max(Places(x)) \in Places(x) /\ \A y \in Places(x) : y <= Max(Places(x))
    BY <1>1, <2>1, Greatest
  <2>. DEFINE i == Max(Places(x))
  <2>3. i \in 1..n
    BY <2>1, <2>2
  <2>. HIDE DEF i
  <2>4. i \in DOMAIN cast /\ Key[cast[i].name] = x
    BY <2>2 DEF i, Places
  <2>5. ASSUME NEW j \in DOMAIN cast, j > i
        PROVE  Key[cast[j].name] # x
    <3>1. j \in Places(x) => j <= i
      BY <2>2 DEF i
    <3>. QED  BY <1>1, <2>3, <2>5, <3>1 DEF Places
  <2>. QED  BY <2>4, <2>5 DEF LastNamed, i
<1>4. ASSUME NEW x \in DOMAIN names
      PROVE  \E i \in DOMAIN cast : LastNamed(cast, x, i) /\ names[x] = cast[i].id
  BY <1>2, <1>3 DEF LastNamed
<1>5. ASSUME NEW i \in DOMAIN cast, NEW x, LastNamed(cast, x, i)
      PROVE  names[x] = cast[i].id
  <2>1. x \in DOMAIN names
    BY <1>2, <1>5 DEF LastNamed
  <2>2. PICK j \in DOMAIN cast : LastNamed(cast, x, j) /\ names[x] = cast[j].id
    BY <1>4, <2>1
  <2>3. ~(j > i) /\ ~(i > j)
    BY <1>5, <2>2 DEF LastNamed
  <2>4. i = j
    BY <1>1, <2>3
  <2>. QED  BY <2>2, <2>4
<1>. QED  BY <1>2, <1>4, <1>5 DEF names

(* One of the first n changes gives somebody a name.                       *)
GivenAway(deltas, n, x) ==
    \E j \in 1..n : deltas[j].name # None /\ Key[deltas[j].name] = x

(* After n changes: everybody is still there, ...                          *)
Grown(cast, acc) == Continues(acc.cast, cast) /\ acc.updated \subseteq Ids(acc.cast)

(* ... who was reached is changed as they should be, ...                   *)
Reached(cast, deltas, acc) ==
    \A i \in DOMAIN cast :
        cast[i].id \in acc.updated => IsChanged(cast, deltas, acc.cast, i)

(* ... who was not is as they were, and was not meant, ...                 *)
Waiting(cast, deltas, n, acc) ==
    \A i \in DOMAIN cast :
        cast[i].id \notin acc.updated =>
            /\ acc.cast[i] = cast[i]
            /\ \A k \in 1..n :
                   /\ deltas[k].id # cast[i].id
                   /\ IsFor(deltas[k], cast, i) => IsTaken(deltas, k, acc.cast)

(* ... every name is that of somebody reached, or is still that of who had *)
(* it last before, ...                                                     *)
Heard(cast, deltas, n, acc) ==
    /\ \A x \in DOMAIN acc.names :
           \/ acc.names[x] \in acc.updated
           \/ \E i \in DOMAIN cast : LastNamed(cast, x, i) /\ acc.names[x] = cast[i].id
    /\ \A i \in DOMAIN cast : Key[cast[i].name] \in DOMAIN acc.names
    /\ \A i \in DOMAIN cast : \A x :
           LastNamed(cast, x, i) => acc.names[x] = cast[i].id \/ GivenAway(deltas, n, x)

(* ... and who is new is known, and was introduced as they should be.      *)
Newcomers(cast, deltas, acc) ==
    /\ \A i \in DOMAIN acc.cast \ DOMAIN cast :
           /\ acc.cast[i].id \in acc.updated
           /\ IsIntroduced(cast, deltas, acc.cast[i])
           /\ Key[acc.cast[i].name] \in DOMAIN acc.names
    /\ \A i, j \in DOMAIN acc.cast \ DOMAIN cast :
           Key[acc.cast[i].name] = Key[acc.cast[j].name] => i = j

Merging(cast, deltas, n, acc) ==
    /\ Grown(cast, acc)
    /\ Reached(cast, deltas, acc)
    /\ Waiting(cast, deltas, n, acc)
    /\ Heard(cast, deltas, n, acc)
    /\ Newcomers(cast, deltas, acc)

(* Two casts, one of which continues the other.                            *)
LEMMA GrownFacts ==
    ASSUME NEW cast \in Casts, NEW acc, Grown(cast, acc)
    PROVE  /\ acc.cast \in Casts
           /\ Len(cast) \in Nat /\ Len(acc.cast) \in Nat /\ Len(cast) <= Len(acc.cast)
           /\ DOMAIN cast = 1..Len(cast) /\ DOMAIN acc.cast = 1..Len(acc.cast)
           /\ \A i \in DOMAIN cast : acc.cast[i].id = cast[i].id /\ i \in DOMAIN acc.cast
           /\ Ids(cast) \subseteq Ids(acc.cast)
           /\ Ids(acc.cast) \subseteq Id
           /\ None \notin Id
           /\ None \notin acc.updated
<1>1. /\ acc.cast \in Casts
      /\ Len(acc.cast) >= Len(cast)
      /\ \A i \in 1..Len(cast) : acc.cast[i].id = cast[i].id
      /\ acc.updated \subseteq Ids(acc.cast)
  BY DEF Grown, Continues
<1>2. /\ Len(cast) \in Nat /\ Len(acc.cast) \in Nat
      /\ DOMAIN cast = 1..Len(cast) /\ DOMAIN acc.cast = 1..Len(acc.cast)
  BY <1>1, CastFacts
<1>3. \A i \in DOMAIN cast : acc.cast[i].id = cast[i].id /\ i \in DOMAIN acc.cast
  BY <1>1, <1>2
<1>4. Ids(cast) \subseteq Ids(acc.cast)
  BY <1>3 DEF Ids
<1>5. Ids(acc.cast) \subseteq Id
  <2>1. \A i \in DOMAIN acc.cast : acc.cast[i] \in Souls
    BY <1>1, <1>2, CastFacts
  <2>2. \A i \in DOMAIN acc.cast : acc.cast[i].id \in Id
    BY <2>1 DEF Souls
  <2>. QED  BY <2>2 DEF Ids
<1>6. None \notin Id
  BY StoryAssumption
<1>. QED  BY <1>1, <1>2, <1>3, <1>4, <1>5, <1>6

(* Whom a change is taken to be for.                                       *)
LEMMA Resolving ==
    ASSUME NEW cast \in Casts, NEW deltas \in Seq(Deltas), NEW n \in 1..Len(deltas), NEW acc,
           Merging(cast, deltas, n - 1, acc), NEW id, id = Resolve(acc, deltas[n])
    PROVE  /\ \A i \in DOMAIN cast :
                  cast[i].id \notin acc.updated /\ cast[i].id # id =>
                      /\ deltas[n].id # cast[i].id
                      /\ IsFor(deltas[n], cast, i) => IsTaken(deltas, n, acc.cast)
           /\ id # None /\ id \notin acc.updated =>
                  \E i \in DOMAIN cast : id = cast[i].id /\ IsFor(deltas[n], cast, i)
           /\ id = None =>
                  /\ deltas[n].id \notin Ids(acc.cast)
                  /\ deltas[n].name # None => Key[deltas[n].name] \notin DOMAIN acc.names
<1>. DEFINE d == deltas[n]
<1>1. /\ Grown(cast, acc) /\ Waiting(cast, deltas, n - 1, acc)
      /\ Heard(cast, deltas, n - 1, acc) /\ Newcomers(cast, deltas, acc)
  BY DEF Merging
<1>2. /\ Len(cast) \in Nat /\ Len(acc.cast) \in Nat /\ Len(cast) <= Len(acc.cast)
      /\ DOMAIN cast = 1..Len(cast) /\ DOMAIN acc.cast = 1..Len(acc.cast)
      /\ \A i \in DOMAIN cast : acc.cast[i].id = cast[i].id /\ i \in DOMAIN acc.cast
      /\ Ids(cast) \subseteq Ids(acc.cast)
      /\ None \notin Ids(acc.cast)
      /\ None \notin acc.updated
  BY <1>1, GrownFacts
<1>3. \A i \in DOMAIN cast : cast[i].id \in Ids(acc.cast) /\ cast[i].id \in Ids(cast)
  BY <1>2 DEF Ids
<1>. HIDE DEF d
<1>4. id = IF d.id \in Ids(acc.cast) THEN d.id
           ELSE IF d.name # None /\ Key[d.name] \in DOMAIN acc.names
           THEN acc.names[Key[d.name]]
           ELSE None
  BY DEF Resolve, d
<1>5. ASSUME NEW i \in DOMAIN cast, cast[i].id \notin acc.updated, cast[i].id # id
      PROVE  /\ d.id # cast[i].id
             /\ IsFor(d, cast, i) => IsTaken(deltas, n, acc.cast)
  <2>1. d.id # cast[i].id
    BY <1>3, <1>4, <1>5
  <2>2. ASSUME IsFor(d, cast, i), d.id \notin Ids(acc.cast)
        PROVE  IsTaken(deltas, n, acc.cast)
    <3>. DEFINE x == Key[d.name]
    <3>1. d.name # None /\ LastNamed(cast, x, i)
      BY <2>1, <2>2 DEF IsFor, LastNamed
    <3>2. x \in DOMAIN acc.names
      BY <1>1, <3>1 DEF Heard, LastNamed
    <3>3. id = acc.names[x]
      BY <1>4, <2>2, <3>1, <3>2
    <3>4. acc.names[x] = cast[i].id \/ GivenAway(deltas, n - 1, x)
      BY <1>1, <3>1 DEF Heard
    <3>5. GivenAway(deltas, n - 1, x)
      BY <1>5, <3>3, <3>4
    <3>. QED  BY <3>5 DEF GivenAway, IsTaken, d
  <2>3. d.id \in Ids(acc.cast) => IsTaken(deltas, n, acc.cast)
    BY DEF IsTaken, d
  <2>. QED  BY <2>1, <2>2, <2>3
<1>6. ASSUME id # None, id \notin acc.updated
      PROVE  \E i \in DOMAIN cast : id = cast[i].id /\ IsFor(d, cast, i)
  <2>1. CASE d.id \in Ids(acc.cast)
    <3>1. id = d.id
      BY <1>4, <2>1
    <3>2. PICK j \in DOMAIN acc.cast : acc.cast[j].id = id
      BY <2>1, <3>1 DEF Ids
    <3>3. j \in DOMAIN cast
      BY <1>1, <1>6, <3>2 DEF Newcomers
    <3>4. cast[j].id = id
      BY <1>2, <3>2, <3>3
    <3>5. IsFor(d, cast, j)
      BY <3>1, <3>4 DEF IsFor
    <3>. QED  BY <3>3, <3>4, <3>5
  <2>2. CASE d.id \notin Ids(acc.cast)
    <3>. DEFINE x == Key[d.name]
    <3>1. d.name # None /\ x \in DOMAIN acc.names /\ id = acc.names[x]
      BY <1>4, <1>6, <2>2
    <3>2. PICK i \in DOMAIN cast : LastNamed(cast, x, i) /\ acc.names[x] = cast[i].id
      BY <1>1, <1>6, <3>1 DEF Heard
    <3>3. d.id \notin Ids(cast)
      BY <1>2, <2>2
    <3>4. IsFor(d, cast, i)
      BY <3>1, <3>2, <3>3 DEF IsFor, LastNamed
    <3>. QED  BY <3>1, <3>2, <3>4
  <2>. QED  BY <2>1, <2>2
<1>7. ASSUME id = None
      PROVE  /\ d.id \notin Ids(acc.cast)
             /\ d.name # None => Key[d.name] \notin DOMAIN acc.names
  <2>1. d.id \notin Ids(acc.cast)
    BY <1>2, <1>4, <1>7
  <2>2. ASSUME d.name # None, Key[d.name] \in DOMAIN acc.names
        PROVE  FALSE
    <3>. DEFINE x == Key[d.name]
    <3>1. acc.names[x] = None
      BY <1>4, <1>7, <2>1, <2>2
    <3>2. PICK i \in DOMAIN cast : acc.names[x] = cast[i].id
      BY <1>1, <1>2, <2>2, <3>1 DEF Heard
    <3>. QED  BY <1>2, <1>3, <3>1, <3>2
  <2>. QED  BY <2>1, <2>2
<1>. QED  BY <1>5, <1>6, <1>7 DEF d

(* Who is not reached by one change more is still as they were.            *)
LEMMA StillWaiting ==
    ASSUME NEW cast \in Casts, NEW deltas \in Seq(Deltas), NEW n \in 1..Len(deltas), NEW acc,
           Merging(cast, deltas, n - 1, acc), NEW after,
           acc.updated \subseteq after.updated,
           Ids(acc.cast) \subseteq Ids(after.cast),
           \A i \in DOMAIN cast :
               cast[i].id \notin after.updated =>
                   /\ cast[i].id # Resolve(acc, deltas[n])
                   /\ after.cast[i] = acc.cast[i]
    PROVE  Waiting(cast, deltas, n, after)
<1>. SUFFICES ASSUME NEW i \in DOMAIN cast, cast[i].id \notin after.updated
              PROVE  /\ after.cast[i] = cast[i]
                     /\ \A k \in 1..n :
                            /\ deltas[k].id # cast[i].id
                            /\ IsFor(deltas[k], cast, i) => IsTaken(deltas, k, after.cast)
  BY DEF Waiting
<1>1. cast[i].id \notin acc.updated /\ cast[i].id # Resolve(acc, deltas[n])
  OBVIOUS
<1>2. /\ acc.cast[i] = cast[i]
      /\ \A k \in 1..n - 1 :
             /\ deltas[k].id # cast[i].id
             /\ IsFor(deltas[k], cast, i) => IsTaken(deltas, k, acc.cast)
  BY <1>1 DEF Merging, Waiting
<1>3. /\ deltas[n].id # cast[i].id
      /\ IsFor(deltas[n], cast, i) => IsTaken(deltas, n, acc.cast)
  BY <1>1, Resolving
<1>4. \A k \in 1..n : k \in 1..n - 1 \/ k = n
  OBVIOUS
<1>5. \A k : IsTaken(deltas, k, acc.cast) => IsTaken(deltas, k, after.cast)
  BY DEF IsTaken
<1>. QED  BY <1>2, <1>3, <1>4, <1>5

(* A name is heard.                                                        *)
LEMMA Hearing ==
    ASSUME NEW cast, NEW deltas, NEW n \in Nat \ {0}, NEW acc,
           Heard(cast, deltas, n - 1, acc), NEW after, NEW id,
           after.names = Rename(acc.names, deltas[n], id),
           after.updated = acc.updated \cup {id}
    PROVE  /\ Heard(cast, deltas, n, after)
           /\ DOMAIN acc.names \subseteq DOMAIN after.names
           /\ deltas[n].name # None => Key[deltas[n].name] \in DOMAIN after.names
<1>. DEFINE d == deltas[n]
            new == Key[d.name]
<1>1. /\ d.name = None => after.names = acc.names
      /\ d.name # None => /\ DOMAIN after.names = DOMAIN acc.names \cup {new}
                          /\ after.names[new] = id
                          /\ \A x \in DOMAIN acc.names :
                                 x # new => after.names[x] = acc.names[x]
  <2>. DEFINE old == acc.names
              names == Rename(old, d, id)
  <2>1. after.names = names
    OBVIOUS
  <2>2. /\ d.name = None => names = old
        /\ d.name # None => /\ DOMAIN names = DOMAIN old \cup {new}
                            /\ names[new] = id
                            /\ \A x \in DOMAIN old : x # new => names[x] = old[x]
    <3>. HIDE DEF old, d
    <3>. QED  BY DEF Rename
  <2>. HIDE DEF names, new
  <2>. QED  BY <2>1, <2>2
<1>2. \A x : GivenAway(deltas, n - 1, x) => GivenAway(deltas, n, x)
  BY DEF GivenAway
<1>3. d.name # None => GivenAway(deltas, n, new)
  BY DEF GivenAway
<1>4. /\ \A x \in DOMAIN acc.names :
             \/ acc.names[x] \in acc.updated
             \/ \E i \in DOMAIN cast : LastNamed(cast, x, i) /\ acc.names[x] = cast[i].id
      /\ \A i \in DOMAIN cast : Key[cast[i].name] \in DOMAIN acc.names
      /\ \A i \in DOMAIN cast : \A x :
             LastNamed(cast, x, i) => acc.names[x] = cast[i].id \/ GivenAway(deltas, n - 1, x)
  BY DEF Heard
<1>. HIDE DEF new, d
<1>5. \A x \in DOMAIN after.names :
          \/ after.names[x] = id
          \/ x \in DOMAIN acc.names /\ after.names[x] = acc.names[x]
  BY <1>1
<1>6. DOMAIN acc.names \subseteq DOMAIN after.names
  BY <1>1
<1>7. \A x \in DOMAIN after.names :
          \/ after.names[x] \in after.updated
          \/ \E i \in DOMAIN cast : LastNamed(cast, x, i) /\ after.names[x] = cast[i].id
  BY <1>4, <1>5
<1>8. \A i \in DOMAIN cast : Key[cast[i].name] \in DOMAIN after.names
  BY <1>4, <1>6
<1>9. ASSUME NEW i \in DOMAIN cast, NEW x, LastNamed(cast, x, i)
      PROVE  after.names[x] = cast[i].id \/ GivenAway(deltas, n, x)
  <2>1. x \in DOMAIN acc.names
    BY <1>4, <1>9 DEF LastNamed
  <2>2. after.names[x] = acc.names[x] \/ (d.name # None /\ x = new)
    BY <1>1, <2>1
  <2>3. acc.names[x] = cast[i].id \/ GivenAway(deltas, n - 1, x)
    BY <1>4, <1>9
  <2>. QED  BY <1>2, <1>3, <2>2, <2>3
<1>10. Heard(cast, deltas, n, after)
  BY <1>7, <1>8, <1>9, Zenon DEF Heard
<1>. QED  BY <1>1, <1>6, <1>10 DEF d, new

(* A change that comes too late, or is for nobody.                         *)
LEMMA Ignoring ==
    ASSUME NEW cast \in Casts, NEW deltas \in Seq(Deltas), NEW n \in 1..Len(deltas), NEW acc,
           Merging(cast, deltas, n - 1, acc),
           Resolve(acc, deltas[n]) \in acc.updated \/ Resolve(acc, deltas[n]) = None
    PROVE  Merging(cast, deltas, n, acc)
<1>1. /\ Grown(cast, acc) /\ Reached(cast, deltas, acc)
      /\ Heard(cast, deltas, n - 1, acc) /\ Newcomers(cast, deltas, acc)
  BY DEF Merging
<1>2. /\ Ids(cast) \subseteq Ids(acc.cast)
      /\ Ids(acc.cast) \subseteq Id
      /\ None \notin Id
  BY <1>1, GrownFacts
<1>3. \A i \in DOMAIN cast : cast[i].id \notin acc.updated => cast[i].id # Resolve(acc, deltas[n])
  BY <1>2 DEF Ids
<1>4. Waiting(cast, deltas, n, acc)
  BY <1>3, StillWaiting
<1>5. \A x : GivenAway(deltas, n - 1, x) => GivenAway(deltas, n, x)
  BY DEF GivenAway
<1>6. Heard(cast, deltas, n, acc)
  BY <1>1, <1>5 DEF Heard
<1>. QED  BY <1>1, <1>4, <1>6 DEF Merging

(* A change of who was not reached before.                                 *)
LEMMA Changing ==
    ASSUME NEW cast \in Casts, NEW deltas \in Seq(Deltas), NEW n \in 1..Len(deltas), NEW acc,
           Merging(cast, deltas, n - 1, acc),
           Resolve(acc, deltas[n]) # None, Resolve(acc, deltas[n]) \notin acc.updated
    PROVE  Merging(cast, deltas, n, Change(acc, deltas[n], Resolve(acc, deltas[n])))
<1>. DEFINE d == deltas[n]
            id == Resolve(acc, d)
            after == Change(acc, d, id)
<1>1. /\ Grown(cast, acc) /\ Reached(cast, deltas, acc) /\ Waiting(cast, deltas, n - 1, acc)
      /\ Heard(cast, deltas, n - 1, acc) /\ Newcomers(cast, deltas, acc)
  BY DEF Merging
<1>2. /\ acc.cast \in Casts
      /\ Len(cast) \in Nat /\ Len(acc.cast) \in Nat /\ Len(cast) <= Len(acc.cast)
      /\ DOMAIN cast = 1..Len(cast) /\ DOMAIN acc.cast = 1..Len(acc.cast)
      /\ \A i \in DOMAIN cast : acc.cast[i].id = cast[i].id /\ i \in DOMAIN acc.cast
  BY <1>1, GrownFacts
<1>3. d \in Deltas
  OBVIOUS
<1>4. PICK who \in DOMAIN cast : id = cast[who].id /\ IsFor(d, cast, who)
  BY Resolving
<1>5. Continues(after.cast, acc.cast)
  BY <1>2, <1>3, Changes
<1>6. /\ DOMAIN after.cast = DOMAIN acc.cast
      /\ after.names = Rename(acc.names, d, id)
      /\ after.updated = acc.updated \cup {id}
      /\ \A i \in DOMAIN acc.cast : acc.cast[i].id # id => after.cast[i] = acc.cast[i]
      /\ \A i \in DOMAIN acc.cast :
             acc.cast[i].id = id =>
                 after.cast[i] = Character(id, IF d.name = None THEN acc.cast[i].name ELSE d.name,
                                           Or(d.details, acc.cast[i].details))
  BY DEF Change
<1>. HIDE DEF after, id
<1>7. /\ after.cast \in Casts /\ Len(after.cast) = Len(acc.cast)
      /\ \A i \in DOMAIN acc.cast : after.cast[i].id = acc.cast[i].id
  <2>1. /\ after.cast \in Casts
        /\ \A i \in 1..Len(acc.cast) : after.cast[i].id = acc.cast[i].id
    BY <1>5 DEF Continues
  <2>2. Len(after.cast) \in Nat /\ DOMAIN after.cast = 1..Len(after.cast)
    BY <2>1, CastFacts
  <2>. QED  BY <1>2, <1>6, <2>1, <2>2
<1>8. Ids(acc.cast) = Ids(after.cast)
  BY <1>6, <1>7 DEF Ids
<1>9. Grown(cast, after)
  <2>1. id \in Ids(acc.cast)
    BY <1>2, <1>4 DEF Ids
  <2>2. after.updated \subseteq Ids(after.cast)
    BY <1>1, <1>6, <1>8, <2>1 DEF Grown
  <2>3. Continues(after.cast, cast)
    BY <1>2, <1>7 DEF Continues
  <2>. QED  BY <2>2, <2>3 DEF Grown
<1>10. Reached(cast, deltas, after)
  <2>. SUFFICES ASSUME NEW i \in DOMAIN cast, cast[i].id \in after.updated
                PROVE  IsChanged(cast, deltas, after.cast, i)
    BY DEF Reached
  <2>1. CASE cast[i].id = id
    <3>1. i = who
      BY <1>4, <2>1, CastFacts DEF OneEach
    <3>2. acc.cast[i] = cast[i]
      BY <1>1, <2>1 DEF Waiting, id
    <3>3. after.cast[i] = Character(cast[i].id, IF d.name = None THEN cast[i].name ELSE d.name,
                                    Or(d.details, cast[i].details))
      BY <1>2, <1>6, <2>1, <3>2
    <3>4. n \in DOMAIN deltas /\ IsFor(deltas[n], cast, i)
      BY <1>4, <3>1
    <3>. QED  BY <3>3, <3>4 DEF IsChanged
  <2>2. CASE cast[i].id # id
    <3>1. after.cast[i] = acc.cast[i] /\ cast[i].id \in acc.updated
      BY <1>2, <1>6, <2>2
    <3>2. IsChanged(cast, deltas, acc.cast, i)
      BY <1>1, <3>1 DEF Reached
    <3>. QED  BY <3>1, <3>2 DEF IsChanged
  <2>. QED  BY <2>1, <2>2
<1>11. Waiting(cast, deltas, n, after)
  <2>1. acc.updated \subseteq after.updated /\ Ids(acc.cast) \subseteq Ids(after.cast)
    BY <1>6, <1>8
  <2>2. \A i \in DOMAIN cast :
            cast[i].id \notin after.updated =>
                cast[i].id # Resolve(acc, deltas[n]) /\ after.cast[i] = acc.cast[i]
    BY <1>2, <1>6 DEF id
  <2>. HIDE DEF d
  <2>. QED  BY <2>1, <2>2, StillWaiting, Zenon
<1>12. Heard(cast, deltas, n, after) /\ DOMAIN acc.names \subseteq DOMAIN after.names
  <2>1. n \in Nat \ {0} /\ Heard(cast, deltas, n - 1, acc)
    BY <1>1
  <2>2. /\ after.names = Rename(acc.names, deltas[n], id)
        /\ after.updated = acc.updated \cup {id}
    BY <1>6
  <2>3. /\ Heard(cast, deltas, n, after)
        /\ DOMAIN acc.names \subseteq DOMAIN after.names
        /\ deltas[n].name # None => Key[deltas[n].name] \in DOMAIN after.names
    BY <2>1, <2>2, Hearing, Zenon
  <2>. QED  BY <2>3
<1>13. Newcomers(cast, deltas, after)
  <2>. DEFINE fresh == DOMAIN acc.cast \ DOMAIN cast
  <2>1. /\ \A i \in fresh : /\ acc.cast[i].id \in acc.updated
                            /\ IsIntroduced(cast, deltas, acc.cast[i])
                            /\ Key[acc.cast[i].name] \in DOMAIN acc.names
        /\ \A i, j \in fresh : Key[acc.cast[i].name] = Key[acc.cast[j].name] => i = j
    BY <1>1 DEF Newcomers
  <2>2. \A i \in fresh : after.cast[i] = acc.cast[i]
    <3>1. id \notin acc.updated
      BY DEF id
    <3>. QED  BY <1>6, <2>1, <3>1
  <2>3. fresh = DOMAIN after.cast \ DOMAIN cast
    BY <1>6
  <2>. HIDE DEF fresh
  <2>4. /\ \A i \in fresh : /\ after.cast[i].id \in after.updated
                            /\ IsIntroduced(cast, deltas, after.cast[i])
                            /\ Key[after.cast[i].name] \in DOMAIN after.names
        /\ \A i, j \in fresh : Key[after.cast[i].name] = Key[after.cast[j].name] => i = j
    BY <1>6, <1>12, <2>1, <2>2
  <2>. QED  BY <2>3, <2>4, Zenon DEF Newcomers
<1>. QED  BY <1>9, <1>10, <1>11, <1>12, <1>13 DEF Merging, after, id

(* A change that introduces somebody.                                      *)
LEMMA Introducing ==
    ASSUME NEW cast \in Casts, NEW deltas \in Seq(Deltas), NEW n \in 1..Len(deltas), NEW acc,
           Merging(cast, deltas, n - 1, acc), Resolve(acc, deltas[n]) = None,
           deltas[n].name # None, HasDetails(deltas[n].details)
    PROVE  Merging(cast, deltas, n, Introduce(acc, deltas[n]))
<1>. DEFINE d == deltas[n]
            after == Introduce(acc, d)
            asked == IF d.id = None THEN IdFor(d.name) ELSE d.id
            id == Unique(asked, Ids(acc.cast))
            c == Character(id, d.name, d.details)
            last == Len(acc.cast) + 1
<1>1. /\ Grown(cast, acc) /\ Reached(cast, deltas, acc) /\ Waiting(cast, deltas, n - 1, acc)
      /\ Heard(cast, deltas, n - 1, acc) /\ Newcomers(cast, deltas, acc)
  BY DEF Merging
<1>2. /\ acc.cast \in Casts
      /\ Len(cast) \in Nat /\ Len(acc.cast) \in Nat /\ Len(cast) <= Len(acc.cast)
      /\ DOMAIN cast = 1..Len(cast) /\ DOMAIN acc.cast = 1..Len(acc.cast)
      /\ \A i \in DOMAIN cast : acc.cast[i].id = cast[i].id /\ i \in DOMAIN acc.cast
      /\ Ids(cast) \subseteq Ids(acc.cast)
      /\ Ids(acc.cast) \subseteq Id /\ None \notin Id
  BY <1>1, GrownFacts
<1>3. d \in Deltas
  OBVIOUS
<1>4. /\ d.id \notin Ids(acc.cast)
      /\ Key[d.name] \notin DOMAIN acc.names
  BY Resolving
<1>5. id \in Id /\ id \notin Ids(acc.cast)
  <2>1. d.name \in Text /\ d.id \in Id \cup {None}
    BY <1>3 DEF Deltas, OptText
  <2>2. asked \in Id
    BY <2>1, Texts, StoryAssumption DEF IdFor
  <2>. HIDE DEF asked
  <2>. QED  BY <1>2, <2>2, CastFacts, UniqueIsFree
<1>6. /\ after.cast = Append(acc.cast, c)
      /\ after.names = Rename(acc.names, d, id)
      /\ after.updated = acc.updated \cup {id}
  BY DEF Introduce
<1>7. c.id = id /\ c.name = d.name /\ c = Character(c.id, d.name, d.details)
  BY DEF Character
<1>8. c \in Souls
  <2>1. d.name \in Text /\ d.details \in DetailsOf
    BY <1>3 DEF Deltas, OptText
  <2>. HIDE DEF id
  <2>2. c \in [id : Id, name : Text, details : DetailsOf] /\ c.details = d.details
    BY <1>5, <2>1 DEF Character
  <2>. HIDE DEF c
  <2>. QED  BY <2>2 DEF Souls
<1>. HIDE DEF after, c, id
<1>9. /\ after.cast \in Casts /\ Len(after.cast) = last
      /\ \A i \in DOMAIN acc.cast : after.cast[i] = acc.cast[i]
      /\ after.cast[last] = c
      /\ DOMAIN after.cast = 1..last
  <2>1. /\ Append(acc.cast, c) \in Casts
        /\ Len(Append(acc.cast, c)) = Len(acc.cast) + 1
        /\ \A i \in 1..Len(acc.cast) : Append(acc.cast, c)[i] = acc.cast[i]
        /\ Append(acc.cast, c)[Len(acc.cast) + 1] = c
    BY <1>2, <1>5, <1>7, <1>8, Newcomer
  <2>2. DOMAIN Append(acc.cast, c) = 1..Len(Append(acc.cast, c))
    BY <2>1, CastFacts
  <2>. QED  BY <1>2, <1>6, <2>1, <2>2
<1>10. /\ Ids(acc.cast) \subseteq Ids(after.cast) /\ id \in Ids(after.cast)
       /\ DOMAIN after.cast = DOMAIN acc.cast \cup {last}
       /\ last \notin DOMAIN acc.cast /\ last \notin DOMAIN cast
  <2>1. DOMAIN after.cast = DOMAIN acc.cast \cup {last} /\ last \notin DOMAIN acc.cast
    BY <1>2, <1>9
  <2>. HIDE DEF last
  <2>. QED  BY <1>2, <1>7, <1>9, <2>1 DEF Ids
<1>. HIDE DEF last
<1>11. \A i \in DOMAIN cast : after.cast[i] = acc.cast[i] /\ cast[i].id \in Ids(acc.cast)
  BY <1>2, <1>9 DEF Ids
<1>12. Grown(cast, after)
  <2>1. after.updated \subseteq Ids(after.cast)
    BY <1>1, <1>6, <1>10 DEF Grown
  <2>2. Len(after.cast) >= Len(cast)
    BY <1>2, <1>9 DEF last
  <2>3. \A i \in 1..Len(cast) : after.cast[i].id = cast[i].id
    BY <1>2, <1>11
  <2>. QED  BY <1>9, <2>1, <2>2, <2>3 DEF Grown, Continues
<1>13. Reached(cast, deltas, after)
  <2>. SUFFICES ASSUME NEW i \in DOMAIN cast, cast[i].id \in after.updated
                PROVE  IsChanged(cast, deltas, after.cast, i)
    BY DEF Reached
  <2>1. after.cast[i] = acc.cast[i] /\ cast[i].id \in acc.updated
    BY <1>5, <1>6, <1>11
  <2>2. IsChanged(cast, deltas, acc.cast, i)
    BY <1>1, <2>1 DEF Reached
  <2>. QED  BY <2>1, <2>2 DEF IsChanged
<1>14. Waiting(cast, deltas, n, after)
  <2>1. acc.updated \subseteq after.updated
    BY <1>6
  <2>2. \A i \in DOMAIN cast :
            cast[i].id \notin after.updated =>
                cast[i].id # Resolve(acc, deltas[n]) /\ after.cast[i] = acc.cast[i]
    BY <1>2, <1>11
  <2>. HIDE DEF d
  <2>. QED  BY <1>10, <2>1, <2>2, StillWaiting, Zenon
<1>15. /\ Heard(cast, deltas, n, after) /\ DOMAIN acc.names \subseteq DOMAIN after.names
       /\ Key[d.name] \in DOMAIN after.names
  <2>1. n \in Nat \ {0} /\ Heard(cast, deltas, n - 1, acc)
    BY <1>1
  <2>2. /\ after.names = Rename(acc.names, deltas[n], id)
        /\ after.updated = acc.updated \cup {id}
    BY <1>6
  <2>3. /\ Heard(cast, deltas, n, after)
        /\ DOMAIN acc.names \subseteq DOMAIN after.names
        /\ deltas[n].name # None => Key[deltas[n].name] \in DOMAIN after.names
    BY <2>1, <2>2, Hearing, Zenon
  <2>. QED  BY <2>3
<1>16. Newcomers(cast, deltas, after)
  <2>. DEFINE old == DOMAIN acc.cast \ DOMAIN cast
              new == DOMAIN after.cast \ DOMAIN cast
  <2>1. /\ \A i \in old : /\ acc.cast[i].id \in acc.updated
                          /\ IsIntroduced(cast, deltas, acc.cast[i])
                          /\ Key[acc.cast[i].name] \in DOMAIN acc.names
        /\ \A i, j \in old : Key[acc.cast[i].name] = Key[acc.cast[j].name] => i = j
    BY <1>1 DEF Newcomers
  <2>2. \A i \in new : i \in old \/ i = last
    BY <1>10
  <2>3. \A i \in old : after.cast[i] = acc.cast[i]
    BY <1>9
  <2>4. IsIntroduced(cast, deltas, c)
    <3>1. d.id \notin Ids(cast)
      BY <1>2, <1>4
    <3>2. \A i \in DOMAIN cast : Key[d.name] # Key[cast[i].name]
      BY <1>1, <1>4 DEF Heard
    <3>3. n \in DOMAIN deltas
      OBVIOUS
    <3>. QED  BY <1>7, <3>1, <3>2, <3>3 DEF IsIntroduced
  <2>. HIDE DEF old, new
  <2>5. \A i \in new : /\ after.cast[i].id \in after.updated
                       /\ IsIntroduced(cast, deltas, after.cast[i])
                       /\ Key[after.cast[i].name] \in DOMAIN after.names
    <3>1. \A i \in old : /\ after.cast[i].id \in after.updated
                         /\ IsIntroduced(cast, deltas, after.cast[i])
                         /\ Key[after.cast[i].name] \in DOMAIN after.names
      BY <1>6, <1>15, <2>1, <2>3
    <3>2. /\ after.cast[last].id \in after.updated
          /\ IsIntroduced(cast, deltas, after.cast[last])
          /\ Key[after.cast[last].name] \in DOMAIN after.names
      BY <1>6, <1>7, <1>9, <1>15, <2>4
    <3>. QED  BY <2>2, <3>1, <3>2
  <2>6. \A i \in old : Key[after.cast[i].name] # Key[after.cast[last].name]
    BY <1>4, <1>7, <1>9, <2>1, <2>3
  <2>7. \A i, j \in old : Key[after.cast[i].name] = Key[after.cast[j].name] => i = j
    BY <2>1, <2>3
  <2>8. \A i, j \in new : Key[after.cast[i].name] = Key[after.cast[j].name] => i = j
    BY <2>2, <2>6, <2>7
  <2>. QED  BY <2>5, <2>8, Zenon DEF Newcomers, new
<1>. QED  BY <1>12, <1>13, <1>14, <1>15, <1>16 DEF Merging, after

(* All the changes of a turn: people are kept.                             *)
LEMMA PeopleKept ==
    ASSUME NEW cast \in Casts, NEW deltas \in Seq(Deltas)
    PROVE  PeopleAreKept(cast, deltas, UpdatedCast(cast, deltas))
<1>. DEFINE last == Len(deltas)
            after == UpdatedCast(cast, deltas)
<1>1. last \in Nat /\ DOMAIN deltas = 1..last
  OBVIOUS
<1>2. /\ Len(cast) \in Nat /\ DOMAIN cast = 1..Len(cast)
  BY CastFacts
<1>3. PICK applied : /\ applied[0] = Untouched(cast)
                     /\ \A n \in 1..last : applied[n] = Apply(applied[n - 1], deltas[n])
                     /\ after = applied[last].cast
  BY <1>1, UpdatedCastSteps
<1>. HIDE DEF after
<1>. DEFINE P(n) == Merging(cast, deltas, n, applied[n])
<1>4. P(0)
  <2>. DEFINE acc == Untouched(cast)
  <2>1. acc.cast = cast /\ acc.names = Names(cast) /\ acc.updated = {}
    BY DEF Untouched
  <2>. HIDE DEF acc
  <2>2. Continues(cast, cast)
    BY <1>2 DEF Continues
  <2>3. Grown(cast, acc) /\ Reached(cast, deltas, acc) /\ Waiting(cast, deltas, 0, acc)
    BY <2>1, <2>2 DEF Grown, Reached, Waiting
  <2>4. Heard(cast, deltas, 0, acc)
    BY <2>1, NamesAre DEF Heard
  <2>5. Newcomers(cast, deltas, acc)
    BY <2>1 DEF Newcomers
  <2>. QED  BY <1>3, <2>3, <2>4, <2>5 DEF Merging, acc
<1>5. ASSUME NEW n \in 1..last, P(n - 1)
      PROVE  P(n)
  <2>. DEFINE acc == applied[n - 1]
              d == deltas[n]
              id == Resolve(acc, d)
  <2>1. /\ Merging(cast, deltas, n - 1, acc) /\ n \in 1..Len(deltas)
        /\ applied[n] = Apply(acc, d)
    BY <1>3, <1>5
  <2>2. \/ id \in acc.updated /\ Apply(acc, d) = acc
        \/ id \notin acc.updated /\ id # None /\ Apply(acc, d) = Change(acc, d, id)
        \/ /\ id = None /\ d.name # None /\ HasDetails(d.details)
           /\ Apply(acc, d) = Introduce(acc, d)
        \/ id = None /\ Apply(acc, d) = acc
    BY DEF Apply
  <2>. HIDE DEF acc
  <2>3. CASE id \in acc.updated /\ Apply(acc, d) = acc
    BY <2>1, <2>3, Ignoring
  <2>4. CASE id \notin acc.updated /\ id # None /\ Apply(acc, d) = Change(acc, d, id)
    BY <2>1, <2>4, Changing
  <2>5. CASE /\ id = None /\ d.name # None /\ HasDetails(d.details)
             /\ Apply(acc, d) = Introduce(acc, d)
    BY <2>1, <2>5, Introducing
  <2>6. CASE id = None /\ Apply(acc, d) = acc
    BY <2>1, <2>6, Ignoring
  <2>. QED  BY <2>2, <2>3, <2>4, <2>5, <2>6
<1>6. P(last)
  <2>. DEFINE T == {n \in 0..last : P(n)}
  <2>. HIDE DEF P, last
  <2>1. 0 \in T
    BY <1>1, <1>4
  <2>2. \A n \in 1..last : n - 1 \in T => n \in T
    BY <1>5
  <2>. HIDE DEF T
  <2>3. \A n \in 0..last : n \in T
    BY <1>1, <2>1, <2>2, Counting, Zenon
  <2>4. last \in T
    BY <1>1, <2>3
  <2>. QED  BY <2>4 DEF T
<1>. DEFINE acc == applied[last]
<1>7. /\ after = acc.cast
      /\ Grown(cast, acc) /\ Reached(cast, deltas, acc) /\ Waiting(cast, deltas, last, acc)
      /\ Newcomers(cast, deltas, acc)
  BY <1>3, <1>6 DEF Merging
<1>. HIDE DEF acc, P
<1>8. /\ after \in Casts
      /\ Len(after) \in Nat /\ Len(cast) <= Len(after)
      /\ DOMAIN after = 1..Len(after)
  BY <1>7, GrownFacts
<1>9. /\ Cardinality(Ids(after)) = Len(after)
      /\ \A i \in DOMAIN after : HasDetails(after[i].details)
  <2>1. /\ after \in Seq(Souls) /\ OneEach(after)
        /\ \A i \in DOMAIN after : after[i] \in Souls
    BY <1>8, CastFacts
  <2>2. Cardinality(Ids(after)) = Len(after)
    BY <2>1, IdsCount
  <2>. QED  BY <2>1, <2>2 DEF Souls
<1>10. \A i \in DOMAIN cast : IsChanged(cast, deltas, after, i) \/ IsLeft(cast, deltas, after, i)
  <2>. SUFFICES ASSUME NEW i \in DOMAIN cast, cast[i].id \notin acc.updated
                PROVE  IsLeft(cast, deltas, after, i)
    BY <1>7 DEF Reached
  <2>. QED  BY <1>1, <1>7 DEF Waiting, IsLeft
<1>11. /\ \A i \in DOMAIN after \ DOMAIN cast : IsIntroduced(cast, deltas, after[i])
       /\ \A i, j \in DOMAIN after \ DOMAIN cast :
              Key[after[i].name] = Key[after[j].name] => i = j
  BY <1>7 DEF Newcomers
<1>. QED  BY <1>2, <1>8, <1>9, <1>10, <1>11 DEF PeopleAreKept, after

(* A turn changes the memory as it should.                                 *)
LEMMA TurnsAreRemembered ==
    ASSUME NEW limit \in Nat \ {0}, NEW before \in Summaries(limit), NEW turn \in Turns
    PROVE  LET after == Updated(before, turn.update) IN
           /\ PeopleAreKept(before.cast, turn.update.deltas, after.cast)
           /\ EventsAreKept(before.major.events, turn.update, after.major.events, limit)
<1>. DEFINE u == turn.update
            after == Updated(before, u)
            events == before.major.events
<1>1. /\ before.cast \in Casts /\ events \in Events
      /\ before.major = [events |-> events, limit |-> limit]
  BY DEF Summaries, Majors
<1>2. u \in Updates /\ u.deltas \in Seq(Deltas)
  BY DEF Turns, Updates
<1>3. /\ after.cast = UpdatedCast(before.cast, u.deltas)
      /\ after.major = UpdatedMajor(before.major, u.consolidated, u.new)
  BY DEF Updated
<1>. HIDE DEF after, u, events
<1>4. PeopleAreKept(before.cast, u.deltas, after.cast)
  BY <1>1, <1>2, <1>3, PeopleKept
<1>5. EventsAreKept(events, u, after.major.events, limit)
  BY <1>1, <1>2, <1>3, EventsKept
<1>. QED  BY <1>4, <1>5 DEF after, u, events

(* What a turn does to the memory: nobody is lost, moved, emptied or mixed *)
(* up with another, what just happened is remembered, and what is          *)
(* forgotten is what is oldest.  The protagonist always comes first.       *)
THEOREM NobodyIsLost == Spec => MemoryGrows
<1>. DEFINE First(g) == Head(CurrentSummary(g).cast).id = Protagonist
            Kept(g, h) ==
                Len(h.turns) > Len(g.turns) =>
                    LET before == CurrentSummary(g)
                        update == Last(h.turns).turn.update
                        after == CurrentSummary(h)
                    IN  /\ PeopleAreKept(before.cast, update.deltas, after.cast)
                        /\ EventsAreKept(before.major.events, update, after.major.events,
                                         h.limits.major_events)
<1>1. ASSUME NEW g, IsStory(g)
      PROVE  CurrentSummary(g) \in Summaries(g.limits.major_events) /\ First(g)
  <2>1. Len(g.turns) \in 0..Len(g.turns)
    <3>1. Len(g.turns) \in Nat
      BY <1>1, StoryFacts
    <3>. QED  BY <3>1
  <2>2. CurrentSummary(g) \in Summaries(g.limits.major_events)
    <3>1. SummaryAt(g, Len(g.turns)) \in Summaries(g.limits.major_events)
      BY <1>1, <2>1, SummariesAre
    <3>. QED  BY <3>1 DEF CurrentSummary
  <2>3. CurrentSummary(g).cast \in Casts
    BY <2>2 DEF Summaries
  <2>. DEFINE cast == CurrentSummary(g).cast
  <2>. HIDE DEF cast
  <2>4. cast \in Casts => Head(cast).id = Protagonist
    BY DEF Casts
  <2>. QED  BY <2>2, <2>3, <2>4 DEF cast
<1>2. ASSUME IsStory(game), NEW turn \in Turns, game' = Commit(game, turn)
      PROVE  Kept(game, game')
  <2>. DEFINE before == CurrentSummary(game)
              summary == Updated(before, turn.update)
              limit == game.limits.major_events
              r == [turn |-> turn, summary |-> summary]
  <2>1. game'.turns = Append(game.turns, r)
    BY <1>2, Continued
  <2>2. game.turns \in Seq(Records(limit)) /\ Len(game.turns) \in Nat
        /\ limit \in Nat \ {0}
    BY <1>2, StoryFacts
  <2>3. game'.limits = game.limits
    <3>1. game = [world |-> game.world, position |-> game.position, limits |-> game.limits,
                  original |-> game.original, turns |-> game.turns]
      BY <1>2, StoryFacts DEF IsStory, Stories
    <3>. QED  BY <1>2, <3>1 DEF Commit
  <2>. HIDE DEF r
  <2>4. Len(game'.turns) = Len(game.turns) + 1 /\ game'.turns[Len(game.turns) + 1] = r
    BY <2>1, <2>2
  <2>5. CurrentSummary(game') = r.summary /\ Last(game'.turns).turn = r.turn
    BY <2>2, <2>4 DEF CurrentSummary, SummaryAt, Last
  <2>6. r.summary = summary /\ r.turn = turn
    BY DEF r
  <2>7. before \in Summaries(limit)
    BY <1>1, <1>2
  <2>. HIDE DEF summary, before, limit
  <2>8. /\ PeopleAreKept(before.cast, turn.update.deltas, summary.cast)
        /\ EventsAreKept(before.major.events, turn.update, summary.major.events, limit)
    BY <2>2, <2>7, TurnsAreRemembered DEF summary
  <2>. QED  BY <2>3, <2>5, <2>6, <2>8 DEF before, limit
<1>3. ASSUME IsStory(game), NEW n \in 0..Len(game.turns), n < Len(game.turns),
             game' = [game EXCEPT !.turns = SubSeq(@, 1, n)]
      PROVE  Kept(game, game')
  <2>1. game.turns \in Seq(Records(game.limits.major_events)) /\ Len(game.turns) \in Nat
    BY <1>3, StoryFacts
  <2>2. SubSeq(game.turns, 1, n) \in Seq(Records(game.limits.major_events))
        /\ Len(SubSeq(game.turns, 1, n)) = n
    BY <2>1
  <2>3. game'.turns = SubSeq(game.turns, 1, n)
    BY <1>3, <2>2, StoryWithTurns
  <2>. QED  BY <1>3, <2>1, <2>2, <2>3
<1>4. ASSUME IsStory(game), NEW limits \in Limits, game' = Restore(game, limits)
      PROVE  Kept(game, game')
  <2>1. Len(game.turns) \in Nat /\ DOMAIN game.turns = 1..Len(game.turns)
    BY <1>4, StoryFacts
  <2>2. game'.turns = [i \in DOMAIN game.turns |-> Cut(game.turns[i], limits.major_events)]
    BY <1>4 DEF Restore
  <2>3. Len(game'.turns) = Len(game.turns)
    BY <2>1, <2>2
  <2>. QED  BY <2>1, <2>3
<1>5. ASSUME IsStory(game), IsStory(game)', [Next]_game
      PROVE  [First(game') /\ Kept(game, game')]_game
  <2>1. First(game')
    BY <1>1, <1>5
  <2>. HIDE DEF First, Kept
  <2>2. Next => Kept(game, game')
    BY <1>2, <1>3, <1>4, <1>5, StepsOfAStory
  <2>. QED  BY <1>5, <2>1, <2>2
<1>. HIDE DEF First, Kept
<1>6. [][First(game') /\ Kept(game, game')]_game => MemoryGrows
  <2>1. [First(game') /\ Kept(game, game')]_game =>
            [ /\ Head(CurrentSummary(game').cast).id = Protagonist
              /\ Len(game'.turns) > Len(game.turns) =>
                     LET before == CurrentSummary(game)
                         update == Last(game'.turns).turn.update
                         after == CurrentSummary(game')
                     IN  /\ PeopleAreKept(before.cast, update.deltas, after.cast)
                         /\ EventsAreKept(before.major.events, update, after.major.events,
                                          game'.limits.major_events) ]_game
    BY DEF First, Kept
  <2>. QED  BY <2>1, PTL DEF MemoryGrows
<1>. QED  BY <1>5, <1>6, WellFormed, PTL DEF Spec

----------------------------------------------------------------------------
(***************************************************************************)
(* Chapters, and the prose that is shown.                                  *)
(***************************************************************************)
Then(s, t) == s \o t

(* FlattenSeq, one sequence at a time.                                     *)
LEMMA FlattenSteps ==
    ASSUME NEW seqs, Len(seqs) \in Nat \ {0}
    PROVE  \E flat :
               /\ flat[1] = seqs[1]
               /\ \A n \in 2..Len(seqs) : flat[n] = Then(flat[n - 1], seqs[n])
               /\ FlattenSeq(seqs) = flat[Len(seqs)]
<1>. DEFINE Is(f, m) == f = [i \in 1..m |->
                IF i = 1 THEN seqs[i] ELSE Then(f[i - 1], seqs[i])]
            T == {m \in 0..Len(seqs) : \E f : Is(f, m)}
<1>1. 0 \in T
  <2>1. Is([i \in 1..0 |-> 0], 0)
    OBVIOUS
  <2>. HIDE DEF Is
  <2>. QED  BY <2>1
<1>2. ASSUME NEW m \in 1..Len(seqs), m - 1 \in T
      PROVE  m \in T
  <2>1. PICK f : Is(f, m - 1)
    BY <1>2
  <2>. DEFINE g == [i \in 1..m |-> IF i = m
                        THEN (IF m = 1 THEN seqs[m] ELSE Then(f[m - 1], seqs[m])) ELSE f[i]]
  <2>2. ASSUME NEW i \in 1..m
        PROVE  g[i] = IF i = 1 THEN seqs[i] ELSE Then(g[i - 1], seqs[i])
    BY <2>1
  <2>3. g = [i \in 1..m |-> g[i]]
    OBVIOUS
  <2>. HIDE DEF g
  <2>4. Is(g, m)
    BY <2>2, <2>3
  <2>. HIDE DEF Is
  <2>. QED  BY <2>4
<1>3. PICK found : Is(found, Len(seqs))
  <2>. HIDE DEF T
  <2>1. \A k \in 1..Len(seqs) : k - 1 \in T => k \in T
    BY <1>2
  <2>2. \A k \in 0..Len(seqs) : k \in T
    BY <1>1, <2>1, Counting, Zenon
  <2>3. Len(seqs) \in T
    BY <2>2
  <2>. QED  BY <2>3 DEF T
<1>. DEFINE g == CHOOSE f : Is(f, Len(seqs))
<1>4. Is(g, Len(seqs))
  BY <1>3
<1>5. FlattenSeq(seqs) = g[Len(seqs)]
  BY DEF FlattenSeq, Then
<1>. HIDE DEF g
<1>6. g[1] = seqs[1]
  BY <1>4
<1>7. \A n \in 2..Len(seqs) : g[n] = Then(g[n - 1], seqs[n])
  BY <1>4
<1>. HIDE DEF Is, T
<1>. QED  BY <1>5, <1>6, <1>7

(* One more sequence comes at the end.                                     *)
LEMMA FlattenAppended ==
    ASSUME NEW S, NEW seqs \in Seq(Seq(S)), NEW e \in Seq(S)
    PROVE  FlattenSeq(Append(seqs, e)) = FlattenSeq(seqs) \o e
<1>. DEFINE more == Append(seqs, e)
            n == Len(seqs)
<1>1. /\ n \in Nat
      /\ Len(more) = n + 1
      /\ more[n + 1] = e
      /\ \A i \in 1..n : more[i] = seqs[i]
  BY Appended
<1>2. seqs = <<>> <=> n = 0
  OBVIOUS
<1>. HIDE DEF more, n
<1>3. PICK g : /\ g[1] = more[1]
               /\ \A i \in 2..Len(more) : g[i] = Then(g[i - 1], more[i])
               /\ FlattenSeq(more) = g[Len(more)]
  <2>1. Len(more) \in Nat \ {0}
    BY <1>1
  <2>. QED  BY <2>1, FlattenSteps
<1>4. CASE n = 0
  <2>1. FlattenSeq(seqs) = <<>>
    BY <1>2, <1>4 DEF FlattenSeq, n
  <2>2. FlattenSeq(more) = e
    BY <1>1, <1>3, <1>4
  <2>3. <<>> \o e = e
    OBVIOUS
  <2>. QED  BY <2>1, <2>2, <2>3 DEF more
<1>5. CASE n # 0
  <2>1. PICK f : /\ f[1] = seqs[1]
                 /\ \A i \in 2..n : f[i] = Then(f[i - 1], seqs[i])
                 /\ FlattenSeq(seqs) = f[n]
    <3>1. Len(seqs) \in Nat \ {0}
      BY <1>1, <1>5 DEF n
    <3>. QED  BY <3>1, FlattenSteps DEF n
  <2>. DEFINE T == {k \in 0..n : k = 0 \/ f[k] = g[k]}
  <2>2. 0 \in T
    BY <1>1
  <2>3. ASSUME NEW k \in 1..n, k - 1 \in T
        PROVE  k \in T
    <3>1. CASE k = 1
      BY <1>1, <1>3, <2>1, <3>1
    <3>2. CASE k # 1
      <4>1. k \in 2..n /\ k \in 2..Len(more)
        BY <1>1, <3>2
      <4>2. f[k] = Then(f[k - 1], seqs[k]) /\ g[k] = Then(g[k - 1], more[k]) /\ more[k] = seqs[k]
        BY <1>1, <1>3, <2>1, <4>1
      <4>3. f[k - 1] = g[k - 1]
        BY <1>1, <2>3, <4>1
      <4>. QED  BY <4>2, <4>3
    <3>. QED  BY <3>1, <3>2
  <2>. HIDE DEF T
  <2>4. \A k \in 1..n : k - 1 \in T => k \in T
    BY <2>3
  <2>5. \A k \in 0..n : k \in T
    BY <1>1, <2>2, <2>4, Counting, Zenon
  <2>6. f[n] = g[n]
    BY <1>1, <1>5, <2>5 DEF T
  <2>7. g[n + 1] = Then(g[n], e)
    <3>1. n + 1 \in 2..Len(more) /\ n + 1 - 1 = n
      BY <1>1, <1>5
    <3>. QED  BY <1>1, <1>3, <3>1
  <2>. QED  BY <1>1, <1>3, <2>1, <2>6, <2>7 DEF more, Then
<1>. QED  BY <1>4, <1>5

(* Two pieces of a log that meet.                                          *)
LEMMA Joined ==
    ASSUME NEW S, NEW seq \in Seq(S), NEW a \in 1..Len(seq) + 1, NEW b \in 0..Len(seq),
           NEW m \in a..b + 1
    PROVE  /\ SubSeq(seq, a, m - 1) \o SubSeq(seq, m, b) = SubSeq(seq, a, b)
           /\ SubSeq(seq, a, b) \in Seq(S)
           /\ Len(SubSeq(seq, a, b)) = b - a + 1
           /\ DOMAIN SubSeq(seq, a, b) = 1..b - a + 1
           /\ \A i \in 1..b - a + 1 : SubSeq(seq, a, b)[i] = seq[a + i - 1]
OBVIOUS

(* Looking back for the start of the chapter, one turn at a time.          *)
LEMMA ChapterStartSteps ==
    ASSUME NEW S, NEW turns \in Seq(S), turns # <<>>
    PROVE  \E back :
               /\ back[1] = 1
               /\ \A i \in 2..Len(turns) :
                      back[i] = IF turns[i].turn.starts THEN i ELSE back[i - 1]
               /\ ChapterStart(turns) = back[Len(turns)]
<1>. DEFINE n == Len(turns)
            Is(f, m) == f = [i \in 1..m |->
                IF i = 1 \/ turns[i].turn.starts THEN i ELSE f[i - 1]]
            T == {m \in 0..n : \E f : Is(f, m)}
<1>0. n \in Nat /\ DOMAIN turns = 1..n /\ n # 0
  OBVIOUS
<1>1. 0 \in T
  <2>1. Is([i \in 1..0 |-> 0], 0)
    OBVIOUS
  <2>. HIDE DEF Is
  <2>. QED  BY <1>0, <2>1
<1>2. ASSUME NEW m \in 1..n, m - 1 \in T
      PROVE  m \in T
  <2>1. PICK f : Is(f, m - 1)
    BY <1>2
  <2>. DEFINE g == [i \in 1..m |-> IF i = m
                        THEN (IF m = 1 \/ turns[m].turn.starts THEN m ELSE f[m - 1]) ELSE f[i]]
  <2>2. ASSUME NEW i \in 1..m
        PROVE  g[i] = IF i = 1 \/ turns[i].turn.starts THEN i ELSE g[i - 1]
    BY <2>1
  <2>3. g = [i \in 1..m |-> g[i]]
    OBVIOUS
  <2>. HIDE DEF g
  <2>4. Is(g, m)
    BY <2>2, <2>3
  <2>. HIDE DEF Is
  <2>. QED  BY <2>4
<1>3. PICK found : Is(found, n)
  <2>. HIDE DEF T, n
  <2>1. \A k \in 1..n : k - 1 \in T => k \in T
    BY <1>2
  <2>2. \A k \in 0..n : k \in T
    BY <1>0, <1>1, <2>1, Counting, Zenon
  <2>3. n \in T
    BY <1>0, <2>2
  <2>. QED  BY <2>3 DEF T
<1>. DEFINE g == CHOOSE f : Is(f, n)
<1>4. Is(g, n)
  BY <1>3
<1>5. ChapterStart(turns) = g[n]
  BY <1>0 DEF ChapterStart
<1>. HIDE DEF g
<1>6. g[1] = 1
  BY <1>0, <1>4
<1>7. \A i \in 2..n : g[i] = IF turns[i].turn.starts THEN i ELSE g[i - 1]
  BY <1>0, <1>4
<1>. HIDE DEF Is, T
<1>. QED  BY <1>5, <1>6, <1>7

(* Chapters that are the log up to the turn before next, cut where a turn  *)
(* says so.                                                                *)
Bodies(chapters) == [i \in DOMAIN chapters |-> chapters[i].turns]
NoneStarts(turns, a, b) == \A i \in a..b : ~turns[i].turn.starts
IsChapter(S, c, i) ==
    /\ c.number = i - 1
    /\ c.turns \in Seq(S)
    /\ NoneStarts(c.turns, 2, Len(c.turns))
Cover(turns, S, chapters, next) ==
    /\ \E C : chapters \in Seq(C)
    /\ \A i \in 1..Len(chapters) : IsChapter(S, chapters[i], i)
    /\ FlattenSeq(Bodies(chapters)) = SubSeq(turns, 1, next - 1)

(* Closing a chapter.                                                      *)
LEMMA Closed ==
    ASSUME NEW S, NEW turns \in Seq(S), NEW acc, NEW next \in 1..Len(turns) + 1,
           acc.start \in 1..next, Cover(turns, S, acc.chapters, acc.start),
           NoneStarts(turns, acc.start + 1, next - 1)
    PROVE  /\ Cover(turns, S, Close(turns, acc, next).chapters, next)
           /\ Close(turns, acc, next).start = next
           /\ Close(turns, acc, next).chapters # <<>>
           /\ Last(Close(turns, acc, next).chapters).turns = SubSeq(turns, acc.start, next - 1)
<1>. DEFINE start == acc.start
            chapters == acc.chapters
            n == Len(chapters)
            body == SubSeq(turns, start, next - 1)
            c == [number |-> n, title |-> TitleOf(body), turns |-> body]
            more == Append(chapters, c)
<1>1. PICK C : chapters \in Seq(C)
  BY DEF Cover
<1>2. /\ n \in Nat
      /\ more \in Seq(C \cup {c})
      /\ Len(more) = n + 1
      /\ more[n + 1] = c
      /\ \A i \in 1..n : more[i] = chapters[i]
      /\ DOMAIN more = 1..n + 1 /\ DOMAIN chapters = 1..n
  <2>. HIDE DEF chapters, c
  <2>1. chapters \in Seq(C \cup {c})
    BY <1>1, SeqOfMore
  <2>. QED  BY <2>1, Appended
<1>3. /\ SubSeq(turns, 1, start - 1) \o body = SubSeq(turns, 1, next - 1)
      /\ body \in Seq(S)
      /\ Len(body) = next - start
      /\ \A i \in 1..next - start : body[i] = turns[start + i - 1]
  <2>1. /\ Len(turns) \in Nat
        /\ next - 1 \in 0..Len(turns)
        /\ start \in 1..next - 1 + 1
        /\ start \in 1..Len(turns) + 1
        /\ start \in start..next - 1 + 1
        /\ next - 1 - start + 1 = next - start
        /\ 1 \in 1..Len(turns) + 1
    OBVIOUS
  <2>. HIDE DEF start
  <2>2. SubSeq(turns, 1, start - 1) \o body = SubSeq(turns, 1, next - 1)
    BY <2>1, Joined
  <2>3. /\ body \in Seq(S)
        /\ Len(body) = next - 1 - start + 1
        /\ \A i \in 1..next - 1 - start + 1 : body[i] = turns[start + i - 1]
    BY <2>1, Joined, Zenon
  <2>. HIDE DEF body
  <2>. QED  BY <2>1, <2>2, <2>3
<1>4. Close(turns, acc, next) = [chapters |-> more, start |-> next]
  BY DEF Close
<1>5. c.number = n /\ c.turns = body
  OBVIOUS
<1>6. FlattenSeq(Bodies(chapters)) = SubSeq(turns, 1, start - 1)
  BY DEF Cover
<1>7. \A i \in 1..n : IsChapter(S, chapters[i], i)
  BY DEF Cover
<1>8. start \in 1..next /\ next \in Nat /\ NoneStarts(turns, start + 1, next - 1)
  OBVIOUS
<1>. HIDE DEF more, c, body, n, chapters, start
<1>9. NoneStarts(body, 2, Len(body))
  <2>. SUFFICES ASSUME NEW i \in 2..Len(body)
                PROVE  ~body[i].turn.starts
    BY DEF NoneStarts
  <2>1. i \in 1..next - start /\ start + i - 1 \in start + 1..next - 1
    BY <1>3, <1>8
  <2>. QED  BY <1>3, <1>8, <2>1 DEF NoneStarts
<1>10. ASSUME NEW i \in 1..n + 1
       PROVE  IsChapter(S, more[i], i)
  <2>1. CASE i = n + 1
    BY <1>2, <1>3, <1>5, <1>9, <2>1 DEF IsChapter
  <2>2. CASE i # n + 1
    <3>1. i \in 1..n
      BY <1>2, <2>2
    <3>. QED  BY <1>2, <1>7, <3>1
  <2>. QED  BY <2>1, <2>2
<1>11. Bodies(more) = Append(Bodies(chapters), body) /\ Bodies(chapters) \in Seq(Seq(S))
  <2>1. Bodies(chapters) \in Seq(Seq(S)) /\ Len(Bodies(chapters)) = n
        /\ \A i \in 1..n : Bodies(chapters)[i] = chapters[i].turns
    <3>1. DOMAIN Bodies(chapters) = 1..n
          /\ \A i \in 1..n : Bodies(chapters)[i] = chapters[i].turns
      BY <1>2 DEF Bodies
    <3>2. \A i \in 1..n : Bodies(chapters)[i] \in Seq(S)
      BY <1>7, <3>1 DEF IsChapter
    <3>3. Bodies(chapters) = [i \in DOMAIN Bodies(chapters) |-> Bodies(chapters)[i]]
      BY DEF Bodies
    <3>4. Bodies(chapters) \in Seq(Seq(S)) /\ Len(Bodies(chapters)) = n
      BY <1>2, <3>1, <3>2, <3>3, Entries, Zenon
    <3>. QED  BY <3>1, <3>4
  <2>. DEFINE ext == Append(Bodies(chapters), body)
  <2>2. /\ ext \in Seq(Seq(S))
        /\ Len(ext) = n + 1
        /\ ext[n + 1] = body
        /\ \A i \in 1..n : ext[i] = Bodies(chapters)[i]
    BY <1>3, <2>1, Appended
  <2>. HIDE DEF ext
  <2>3. DOMAIN ext = 1..n + 1
    BY <2>2
  <2>4. DOMAIN Bodies(more) = DOMAIN ext
    BY <1>2, <2>3 DEF Bodies
  <2>5. ASSUME NEW i \in 1..n + 1
        PROVE  Bodies(more)[i] = ext[i]
    <3>1. Bodies(more)[i] = more[i].turns
      BY <1>2 DEF Bodies
    <3>2. CASE i = n + 1
      BY <1>2, <1>5, <2>2, <3>1, <3>2
    <3>3. CASE i # n + 1
      <4>1. i \in 1..n
        BY <1>2, <3>3
      <4>. QED  BY <1>2, <2>1, <2>2, <3>1, <4>1
    <3>. QED  BY <3>2, <3>3
  <2>6. Bodies(more) = [i \in DOMAIN Bodies(more) |-> Bodies(more)[i]]
    BY DEF Bodies
  <2>7. Bodies(more) = ext
    BY <2>2, <2>4, <2>5, <2>6, SameEntries, Zenon
  <2>. QED  BY <2>1, <2>7 DEF ext
<1>12. FlattenSeq(Bodies(more)) = SubSeq(turns, 1, next - 1)
  <2>1. FlattenSeq(Append(Bodies(chapters), body)) = FlattenSeq(Bodies(chapters)) \o body
    BY <1>3, <1>11, FlattenAppended
  <2>. QED  BY <1>3, <1>6, <1>11, <2>1
<1>13. Cover(turns, S, more, next)
  BY <1>2, <1>10, <1>12 DEF Cover
<1>14. more # <<>> /\ Last(more).turns = body
  <2>1. more # <<>>
    BY <1>2
  <2>. QED  BY <1>2, <1>5, <2>1 DEF Last
<1>15. body = SubSeq(turns, acc.start, next - 1)
  BY DEF body, start
<1>. QED  BY <1>4, <1>13, <1>14, <1>15

(* What the pass over the log makes of it, and where looking back from the *)
(* last turn ends: at the start of the last chapter.                       *)
LEMMA ChaptersAre ==
    ASSUME NEW S, NEW turns \in Seq(S), turns # <<>>
    PROVE  /\ ChapterStart(turns) \in 1..Len(turns)
           /\ Cover(turns, S, Chapters(turns), Len(turns) + 1)
           /\ Chapters(turns) # <<>>
           /\ Last(Chapters(turns)).turns = SubSeq(turns, ChapterStart(turns), Len(turns))
<1>. DEFINE n == Len(turns)
<1>1. n \in Nat /\ n # 0
  OBVIOUS
<1>2. PICK visited :
          /\ visited[0] = [chapters |-> <<>>, start |-> 1]
          /\ \A i \in 1..n : visited[i] = Visit(turns, visited[i - 1], i)
          /\ Chapters(turns) = Close(turns, visited[n], n + 1).chapters
  BY <1>1, ChaptersSteps
<1>3. PICK back :
          /\ back[1] = 1
          /\ \A i \in 2..n : back[i] = IF turns[i].turn.starts THEN i ELSE back[i - 1]
          /\ ChapterStart(turns) = back[n]
  BY ChapterStartSteps
<1>. HIDE DEF n
<1>. DEFINE Good(i) ==
                /\ Cover(turns, S, visited[i].chapters, visited[i].start)
                /\ visited[i].start = IF i = 0 THEN 1 ELSE back[i]
                /\ visited[i].start \in 1..(IF i = 0 THEN 1 ELSE i)
                /\ NoneStarts(turns, visited[i].start + 1, i)
            T == {i \in 0..n : Good(i)}
<1>4. Good(0)
  <2>1. visited[0].chapters = <<>> /\ visited[0].start = 1
    BY <1>2
  <2>2. Bodies(<<>>) = <<>>
    BY DEF Bodies
  <2>3. FlattenSeq(<<>>) = <<>>
    BY DEF FlattenSeq
  <2>4. SubSeq(turns, 1, 1 - 1) = <<>>
    OBVIOUS
  <2>5. Cover(turns, S, <<>>, 1)
    <3>1. <<>> \in Seq({})
      OBVIOUS
    <3>2. \E C : <<>> \in Seq(C)
      BY <3>1
    <3>3. \A i \in 1..Len(<<>>) : IsChapter(S, <<>>[i], i)
      OBVIOUS
    <3>. QED  BY <2>2, <2>3, <2>4, <3>2, <3>3 DEF Cover
  <2>6. NoneStarts(turns, 1 + 1, 0)
    BY DEF NoneStarts
  <2>. QED  BY <2>1, <2>5, <2>6
<1>5. ASSUME NEW i \in 1..n, Good(i - 1)
      PROVE  Good(i)
  <2>. DEFINE acc == visited[i - 1]
  <2>1. visited[i] = Visit(turns, acc, i)
    BY <1>2
  <2>2. /\ Cover(turns, S, acc.chapters, acc.start)
        /\ acc.start = IF i = 1 THEN 1 ELSE back[i - 1]
        /\ acc.start \in 1..(IF i = 1 THEN 1 ELSE i - 1)
        /\ NoneStarts(turns, acc.start + 1, i - 1)
    BY <1>1, <1>5
  <2>. HIDE DEF acc
  <2>3. CASE i > 1 /\ turns[i].turn.starts
    <3>1. /\ i \in 1..Len(turns) + 1 /\ acc.start \in 1..i /\ i \in 2..n
          /\ visited[i] = Close(turns, acc, i)
      BY <1>1, <2>1, <2>2, <2>3 DEF n, Visit
    <3>2. Cover(turns, S, visited[i].chapters, i) /\ visited[i].start = i
      BY <2>2, <3>1, Closed
    <3>3. back[i] = i
      BY <1>3, <2>3, <3>1
    <3>4. NoneStarts(turns, i + 1, i)
      BY DEF NoneStarts
    <3>. QED  BY <3>1, <3>2, <3>3, <3>4
  <2>4. CASE ~(i > 1 /\ turns[i].turn.starts)
    <3>1. visited[i] = acc
      BY <2>1, <2>4 DEF Visit
    <3>2. acc.start = back[i] /\ acc.start \in 1..i
      <4>1. CASE i = 1
        BY <1>3, <2>2, <4>1
      <4>2. CASE i # 1
        <5>1. i \in 2..n /\ ~turns[i].turn.starts
          BY <1>1, <2>4, <4>2
        <5>. QED  BY <1>3, <2>2, <4>2, <5>1
      <4>. QED  BY <4>1, <4>2
    <3>3. NoneStarts(turns, acc.start + 1, i)
      <4>. SUFFICES ASSUME NEW j \in acc.start + 1..i
                    PROVE  ~turns[j].turn.starts
        BY DEF NoneStarts
      <4>1. j > 1 /\ (j = i \/ j \in acc.start + 1..i - 1)
        BY <1>1, <3>2
      <4>. QED  BY <2>2, <2>4, <4>1 DEF NoneStarts
    <3>. QED  BY <2>2, <3>1, <3>2, <3>3
  <2>. QED  BY <2>3, <2>4
<1>. HIDE DEF Good
<1>6. \A i \in 1..n : i - 1 \in T => i \in T
  BY <1>5
<1>7. 0 \in T
  BY <1>1, <1>4
<1>. HIDE DEF T
<1>8. \A i \in 0..n : i \in T
  BY <1>1, <1>6, <1>7, Counting, Zenon
<1>9. Good(n)
  BY <1>1, <1>8 DEF T
<1>. DEFINE acc == visited[n]
<1>10. /\ Cover(turns, S, acc.chapters, acc.start)
       /\ acc.start = back[n]
       /\ acc.start \in 1..n
       /\ NoneStarts(turns, acc.start + 1, n)
  BY <1>1, <1>9 DEF Good
<1>11. Chapters(turns) = Close(turns, acc, n + 1).chapters
  BY <1>2
<1>. HIDE DEF acc
<1>12. /\ Cover(turns, S, Close(turns, acc, n + 1).chapters, n + 1)
       /\ Close(turns, acc, n + 1).chapters # <<>>
       /\ Last(Close(turns, acc, n + 1).chapters).turns = SubSeq(turns, acc.start, n)
  <2>. DEFINE next == n + 1
  <2>1. next \in 1..Len(turns) + 1 /\ acc.start \in 1..next /\ next - 1 = n
    BY <1>1, <1>10 DEF n
  <2>. HIDE DEF next
  <2>2. NoneStarts(turns, acc.start + 1, next - 1)
    BY <1>10, <2>1
  <2>. HIDE DEF n
  <2>3. /\ Cover(turns, S, Close(turns, acc, next).chapters, next)
        /\ Close(turns, acc, next).chapters # <<>>
        /\ Last(Close(turns, acc, next).chapters).turns = SubSeq(turns, acc.start, next - 1)
    BY <1>10, <2>1, <2>2, Closed
  <2>. QED  BY <2>1, <2>3 DEF next
<1>. QED  BY <1>3, <1>10, <1>11, <1>12 DEF n

(* The end of a log is a suffix of it.                                     *)
LEMMA EndsAreSuffixes ==
    ASSUME NEW S, NEW seq \in Seq(S), NEW a \in 1..Len(seq)
    PROVE  IsSuffix(SubSeq(seq, a, Len(seq)), seq)
<1>. DEFINE n == Len(seq)
            end == SubSeq(seq, a, n)
            m == Len(end)
<1>1. /\ n \in Nat /\ a \in 1..n
      /\ m = n - a + 1
      /\ \A i \in 1..m : end[i] = seq[a + i - 1]
      /\ end \in Seq(S)
  OBVIOUS
<1>2. /\ Reverse(end) \in Seq(S) /\ Reverse(seq) \in Seq(S)
      /\ Len(Reverse(end)) = m /\ Len(Reverse(seq)) = n
      /\ \A i \in 1..m : Reverse(end)[i] = end[m - i + 1]
      /\ \A i \in 1..n : Reverse(seq)[i] = seq[n - i + 1]
  <2>. HIDE DEF end
  <2>1. \A s \in Seq(S) : /\ Reverse(s) \in Seq(S)
                          /\ Len(Reverse(s)) = Len(s)
                          /\ \A i \in 1..Len(s) : Reverse(s)[i] = s[Len(s) - i + 1]
    BY DEF Reverse
  <2>. QED  BY <1>1, <2>1
<1>. HIDE DEF n, m, end
<1>3. ASSUME NEW i \in 1..m
      PROVE  Reverse(end)[i] = Reverse(seq)[i]
  <2>1. n \in Nat /\ a \in 1..n /\ m = n - a + 1
    BY <1>1
  <2>2. m - i + 1 \in 1..m /\ i \in 1..n /\ a + (m - i + 1) - 1 = n - i + 1
    BY <2>1
  <2>. QED  BY <1>1, <1>2, <2>2
<1>. DEFINE rev == Reverse(end)
            all == Reverse(seq)
<1>4. /\ rev \in Seq(S) /\ all \in Seq(S) /\ Len(rev) = m /\ Len(all) = n
      /\ m \in 0..n /\ \A i \in 1..m : rev[i] = all[i]
  BY <1>1, <1>2, <1>3
<1>. HIDE DEF rev, all
<1>5. IsPrefix(rev, all)
  <2>1. SubSeq(rev, 1, m) = SubSeq(all, 1, m)
    BY <1>4
  <2>. QED  BY <1>4, <2>1 DEF IsPrefix
<1>. QED  BY <1>5 DEF IsSuffix, rev, all, end, n

(* The prose shown: the current chapter, or as many turns as the bridge    *)
(* allows if that is more.                                                 *)
LEMMA ProseIs ==
    ASSUME NEW S, NEW g, g.turns \in Seq(S), g.turns # <<>>, g.limits.bridge \in Nat,
           ChapterStart(g.turns) \in 1..Len(g.turns)
    PROVE  LET context == ProseContext(g)
               n == Len(g.turns)
           IN  /\ context.current = SubSeq(g.turns, ChapterStart(g.turns), n)
               /\ IsSuffix(context.bridge \o context.current, g.turns)
               /\ Len(context.bridge \o context.current) =
                      Max({Len(context.current), Min({n, g.limits.bridge})})
<1>. DEFINE turns == g.turns
            n == Len(turns)
            start == ChapterStart(turns)
            limit == g.limits.bridge
            skipped == Max({0, n - limit})
            bridge == Min({skipped + 1, start})
            current == SubSeq(turns, start, n)
            shown == SubSeq(turns, bridge, start - 1) \o current
<1>0. n \in Nat /\ n # 0 /\ limit \in Nat /\ start \in 1..n
  OBVIOUS
<1>1. turns \in Seq(S) /\ n \in Nat /\ n # 0 /\ limit \in Nat /\ start \in 1..n
  BY <1>0
<1>2. ProseContext(g) = [bridge |-> SubSeq(turns, bridge, start - 1), current |-> current]
  BY <1>1 DEF ProseContext
<1>3. skipped = IF 0 >= n - limit THEN 0 ELSE n - limit
  <2>1. n - limit \in Int /\ 0 \in Int
    BY <1>1
  <2>. QED  BY <2>1, GreatestOfTwo
<1>4. bridge = IF skipped + 1 <= start THEN skipped + 1 ELSE start
  <2>1. skipped + 1 \in Nat /\ start \in Nat
    <3>. HIDE DEF skipped, start, n, limit
    <3>. QED  BY <1>0, <1>3
  <2>. HIDE DEF skipped, start
  <2>. QED  BY <2>1, LeastOfTwo
<1>. HIDE DEF skipped, start, limit
<1>5. bridge \in 1..start
  <2>. HIDE DEF bridge, n
  <2>1. start \in Nat /\ start >= 1 /\ skipped \in Nat
    BY <1>0, <1>3
  <2>. QED  BY <1>4, <2>1
<1>. HIDE DEF bridge
<1>6. /\ shown = SubSeq(turns, bridge, n)
      /\ Len(shown) = n - bridge + 1
      /\ Len(current) = n - start + 1
  <2>. DEFINE before == SubSeq(turns, bridge, start - 1)
  <2>1. /\ bridge \in 1..Len(turns) + 1 /\ n \in 0..Len(turns) /\ start \in bridge..n + 1
        /\ start \in 1..Len(turns) + 1 /\ start \in start..n + 1
    BY <1>0, <1>5
  <2>. HIDE DEF n
  <2>2. before \o current = SubSeq(turns, bridge, n)
    BY <1>1, <2>1, Joined, Zenon
  <2>3. Len(SubSeq(turns, bridge, n)) = n - bridge + 1
    BY <1>1, <2>1, Joined, Zenon
  <2>4. Len(current) = n - start + 1
    BY <1>1, <2>1, Joined, Zenon
  <2>5. shown = before \o current
    OBVIOUS
  <2>. HIDE DEF shown, current, before
  <2>. QED  BY <2>2, <2>3, <2>4, <2>5
<1>7. IsSuffix(shown, turns)
  <2>1. bridge \in 1..Len(turns)
    BY <1>1, <1>5
  <2>2. IsSuffix(SubSeq(turns, bridge, n), turns)
    BY <1>1, <2>1, EndsAreSuffixes
  <2>. HIDE DEF shown
  <2>. QED  BY <1>6, <2>2
<1>. HIDE DEF shown, current, n
<1>8. Len(shown) = Max({Len(current), Min({n, limit})})
  <2>1. Min({n, limit}) = IF n <= limit THEN n ELSE limit
    BY <1>0, LeastOfTwo
  <2>. DEFINE few == Min({n, limit})
              many == Len(current)
  <2>2. few \in Int /\ many \in Int
    BY <1>0, <1>6, <2>1
  <2>. HIDE DEF few, many
  <2>3. Max({many, few}) = IF many >= few THEN many ELSE few
    BY <2>2, GreatestOfTwo
  <2>4. few = (IF n <= limit THEN n ELSE limit) /\ many = n - start + 1
    BY <1>6, <2>1 DEF few, many
  <2>5. Len(shown) = IF many >= few THEN many ELSE few
    BY <1>0, <1>3, <1>4, <1>5, <1>6, <2>4
  <2>. QED  BY <2>3, <2>5 DEF few, many
<1>9. /\ ProseContext(g).current = current
      /\ ProseContext(g).bridge \o ProseContext(g).current = shown
  <2>. DEFINE before == SubSeq(turns, bridge, start - 1)
  <2>. HIDE DEF before
  <2>1. ProseContext(g) = [bridge |-> before, current |-> current]
    BY <1>2 DEF before
  <2>2. ProseContext(g).current = current /\ ProseContext(g).bridge = before
    BY <2>1
  <2>3. shown = before \o current
    BY DEF shown, before
  <2>. QED  BY <2>2, <2>3, Zenon
<1>10. current = SubSeq(g.turns, ChapterStart(g.turns), Len(g.turns))
  BY DEF current, start, n
<1>. QED  BY <1>7, <1>8, <1>9, <1>10 DEF n, limit

(* The chapters are the log, cut where a turn other than the first says;   *)
(* the prose shown is the whole of the last of them and, if that is short, *)
(* just enough turns before it.                                            *)
THEOREM ShownAsItIs == Spec => []ContextIsTheStory
<1>1. IsStory(game) => ContextIsTheStory
  <2>. SUFFICES ASSUME IsStory(game)
                PROVE  ContextIsTheStory
    OBVIOUS
  <2>. DEFINE turns == game.turns
              n == Len(turns)
              S == Records(game.limits.major_events)
              chapters == Chapters(turns)
              context == ProseContext(game)
              shown == context.bridge \o context.current
  <2>1. turns \in Seq(S) /\ n \in Nat /\ game.limits.bridge \in Nat
    BY StoryFacts DEF Limits
  <2>. HIDE DEF S
  <2>2. CASE turns = <<>>
    <3>1. n = 0 /\ chapters = <<>>
      BY <2>2 DEF Chapters
    <3>2. FlattenSeq([i \in DOMAIN <<>> |-> <<>>[i].turns]) = <<>>
      BY DEF FlattenSeq
    <3>3. context = [bridge |-> <<>>, current |-> <<>>]
      BY <3>1 DEF ProseContext
    <3>4. shown = <<>> /\ Len(shown) = 0 /\ Len(context.current) = 0
      BY <3>3
    <3>5. IsSuffix(<<>>, <<>>)
      BY DEF IsSuffix, IsPrefix, Reverse
    <3>6. Max({0, Min({0, game.limits.bridge})}) = 0
      <4>1. Min({0, game.limits.bridge}) = 0
        BY <2>1, LeastOfTwo
      <4>2. Max({0, 0}) = 0
        BY GreatestOfTwo
      <4>. QED  BY <4>1, <4>2
    <3>. QED  BY <2>2, <3>1, <3>2, <3>4, <3>5, <3>6 DEF ContextIsTheStory
  <2>3. CASE turns # <<>>
    <3>1. /\ ChapterStart(turns) \in 1..n
          /\ Cover(turns, S, chapters, n + 1)
          /\ chapters # <<>>
          /\ Last(chapters).turns = SubSeq(turns, ChapterStart(turns), n)
      BY <2>1, <2>3, ChaptersAre
    <3>2. /\ context.current = SubSeq(turns, ChapterStart(turns), n)
          /\ IsSuffix(shown, turns)
          /\ Len(shown) = Max({Len(context.current), Min({n, game.limits.bridge})})
      BY <2>1, <2>3, <3>1, ProseIs, Zenon
    <3>3. FlattenSeq([i \in DOMAIN chapters |-> chapters[i].turns]) = turns
      <4>. DEFINE next == n + 1
      <4>1. SubSeq(turns, 1, next - 1) = turns
        BY <2>1
      <4>2. Cover(turns, S, chapters, next)
        BY <3>1
      <4>. HIDE DEF chapters, next
      <4>3. FlattenSeq(Bodies(chapters)) = SubSeq(turns, 1, next - 1)
        BY <4>2 DEF Cover
      <4>. QED  BY <4>1, <4>3, Zenon DEF Bodies
    <3>. HIDE DEF chapters, context, n
    <3>4. \A i \in DOMAIN chapters :
              /\ chapters[i].number = i - 1
              /\ \A j \in DOMAIN chapters[i].turns :
                     chapters[i].turns[j].turn.starts /\ i > 1 => j = 1
      <4>1. DOMAIN chapters = 1..Len(chapters)
        BY <3>1 DEF Cover
      <4>. SUFFICES ASSUME NEW i \in 1..Len(chapters)
                    PROVE  /\ chapters[i].number = i - 1
                           /\ \A j \in DOMAIN chapters[i].turns :
                                  chapters[i].turns[j].turn.starts => j = 1
        BY <4>1
      <4>. DEFINE body == chapters[i].turns
      <4>2. /\ chapters[i].number = i - 1
            /\ body \in Seq(S)
            /\ NoneStarts(body, 2, Len(body))
        BY <3>1 DEF Cover, IsChapter
      <4>. HIDE DEF body
      <4>3. ASSUME NEW j \in DOMAIN body, j # 1
            PROVE  ~body[j].turn.starts
        <5>1. j \in 2..Len(body)
          BY <4>2, <4>3
        <5>. QED  BY <4>2, <5>1 DEF NoneStarts
      <4>. QED  BY <4>2, <4>3 DEF body
    <3>. QED  BY <3>1, <3>2, <3>3, <3>4 DEF ContextIsTheStory, chapters, context, n
  <2>. QED  BY <2>2, <2>3
<1>. QED  BY <1>1, WellFormed, PTL
=============================================================================
