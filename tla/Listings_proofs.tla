---------------------------- MODULE Listings_proofs ----------------------------
(***************************************************************************)
(* Why the feed is exact and the history misses nothing.                   *)
(*                                                                         *)
(* The rows of a query have ranks 0, 1, 2, ... in the order of their keys  *)
(* (RankOnto), so that a page and the row fetched on top of it are the     *)
(* rows of the first ranks, and the cursor separates what has been shown   *)
(* from what has not (PageFacts).                                          *)
(***************************************************************************)
EXTENDS Listings, FiniteSetTheorems, TLAPS

(* The comparison of rows is a strict order.                               *)
LEMMA AfterOrder ==
  ASSUME NEW k \in Nat \X Nat, NEW l \in Nat \X Nat, NEW m \in Nat \X Nat
  PROVE  /\ ~After(k, k)
         /\ After(k, l) => ~After(l, k)
         /\ After(k, l) /\ After(l, m) => After(k, m)
         /\ ~After(k, l) /\ ~After(l, m) => ~After(k, m)
         /\ k[2] # l[2] => After(k, l) \/ After(l, k)
BY DEF After

(* Keys are pairs of a start and an id.                                    *)
LEMMA KeyType ==
  ASSUME TypeOK, NEW e \in Events
  PROVE  Key(e) \in Starts \X Events /\ Key(e) \in Nat \X Nat /\ Key(e)[2] = e
<1>1. events[e].start \in Starts
  BY DEF TypeOK
<1> QED BY <1>1, ListingAssumption DEF Key

(* So are cursors.                                                         *)
LEMMA CursorType ==
  ASSUME TypeOK, cursor # Nothing
  PROVE  cursor \in Nat \X Nat
BY ListingAssumption DEF TypeOK

-----------------------------------------------------------------------------

(* How many of the rows come before e.                                     *)
Rank(rows, e) == Cardinality({d \in rows : After(Key(e), Key(d))})

(* The order of the ranks is the order of the keys.                        *)
LEMMA RankOrder ==
  ASSUME TypeOK, NEW rows \in SUBSET Events
  PROVE  /\ \A e \in rows : Rank(rows, e) \in 0 .. Cardinality(rows) - 1
         /\ \A d, e \in rows : After(Key(e), Key(d)) <=> Rank(rows, d) < Rank(rows, e)
         /\ \A d, e \in rows : Rank(rows, d) = Rank(rows, e) => d = e
<1> DEFINE Before(e) == {d \in rows : After(Key(e), Key(d))}
<1>1. IsFiniteSet(rows) /\ Cardinality(rows) \in Nat
  BY ListingAssumption, FS_Subset, FS_CardinalityType
<1>2. ASSUME NEW e \in rows
      PROVE  /\ IsFiniteSet(Before(e)) /\ Cardinality(Before(e)) \in Nat
             /\ Cardinality(Before(e)) < Cardinality(rows)
  <2>1. Before(e) \in SUBSET rows /\ e \notin Before(e)
    BY AfterOrder, KeyType
  <2>2. IsFiniteSet(Before(e)) /\ Cardinality(Before(e)) <= Cardinality(rows)
        /\ Cardinality(rows) # Cardinality(Before(e))
    BY <1>1, <2>1, FS_Subset
  <2> QED BY <1>1, <2>2, FS_CardinalityType
<1>3. ASSUME NEW d \in rows, NEW e \in rows, After(Key(e), Key(d))
      PROVE  Cardinality(Before(d)) < Cardinality(Before(e))
  <2>1. ASSUME NEW c \in Before(d) PROVE c \in Before(e)
    <3>1. c \in Events /\ Key(c) \in Nat \X Nat /\ Key(d) \in Nat \X Nat /\ Key(e) \in Nat \X Nat
      BY KeyType
    <3> QED BY <1>3, <3>1, AfterOrder
  <2>2. d \in Before(e) /\ d \notin Before(d)
    BY <1>3, AfterOrder, KeyType
  <2>3. Before(d) \in SUBSET Before(e) /\ Before(d) # Before(e)
    BY <2>1, <2>2
  <2>4. Cardinality(Before(d)) <= Cardinality(Before(e))
        /\ Cardinality(Before(d)) # Cardinality(Before(e))
    BY <1>2, <2>3, FS_Subset
  <2> QED BY <1>2, <2>4
<1>4. ASSUME NEW d \in rows, NEW e \in rows, d # e
      PROVE  After(Key(e), Key(d)) \/ After(Key(d), Key(e))
  BY <1>4, AfterOrder, KeyType
<1>5. ASSUME NEW d \in rows, NEW e \in rows, After(Key(e), Key(d))
      PROVE  Rank(rows, d) < Rank(rows, e)
  BY <1>3, <1>5 DEF Rank
<1>6. ASSUME NEW e \in rows
      PROVE  Rank(rows, e) \in 0 .. Cardinality(rows) - 1 /\ Rank(rows, e) \in Nat
  <2>1. Rank(rows, e) \in Nat /\ Rank(rows, e) < Cardinality(rows)
    BY <1>2 DEF Rank
  <2> QED BY <1>1, <2>1
<1>7. ASSUME NEW d \in rows, NEW e \in rows
      PROVE  /\ After(Key(e), Key(d)) <=> Rank(rows, d) < Rank(rows, e)
             /\ Rank(rows, d) = Rank(rows, e) => d = e
  <2>1. PICK i \in Nat, j \in Nat : i = Rank(rows, d) /\ j = Rank(rows, e)
    BY <1>6
  <2>2. /\ After(Key(e), Key(d)) => i < j
        /\ After(Key(d), Key(e)) => j < i
        /\ d # e => After(Key(e), Key(d)) \/ After(Key(d), Key(e))
        /\ d = e => i = j
    BY <1>4, <1>5, <2>1
  <2>3. /\ After(Key(e), Key(d)) <=> i < j
        /\ i = j => d = e
    BY <2>2
  <2> QED BY <2>1, <2>3
<1> QED BY <1>6, <1>7

(* Every rank is taken.                                                    *)
LEMMA RankOnto ==
  ASSUME TypeOK, NEW rows \in SUBSET Events, NEW k \in 0 .. Cardinality(rows) - 1
  PROVE  \E e \in rows : Rank(rows, e) = k
<1>1. IsFiniteSet(rows) /\ Cardinality(rows) \in Nat
  BY ListingAssumption, FS_Subset, FS_CardinalityType
<1> DEFINE T == 0 .. Cardinality(rows) - 1
           f == [e \in rows |-> Rank(rows, e)]
<1>2. IsFiniteSet(T) /\ Cardinality(T) = Cardinality(rows)
  <2>1. 0 \in Int /\ Cardinality(rows) - 1 \in Int
    BY <1>1
  <2>2. IsFiniteSet(T) /\ Cardinality(T) = IF 0 > Cardinality(rows) - 1 THEN 0 ELSE Cardinality(rows) - 1 - 0 + 1
    BY <2>1, FS_Interval
  <2> QED BY <1>1, <2>2
<1>3. f \in Injection(rows, T)
  BY RankOrder DEF Injection, IsInjective
<1>4. f \in Surjection(rows, T)
  BY <1>2, <1>3, FS_Injection
<1> QED BY <1>4 DEF Surjection

(* The first n of more than n rows are n.                                  *)
LEMMA FirstCount ==
  ASSUME TypeOK, NEW rows \in SUBSET Events, NEW n \in Nat, n <= Cardinality(rows)
  PROVE  Cardinality(First(rows, n)) = n
<1>1. Cardinality(rows) \in Nat
  BY ListingAssumption, FS_Subset, FS_CardinalityType
<1> DEFINE T == 0 .. n - 1
           F == First(rows, n)
           f == [e \in F |-> Rank(rows, e)]
<1>2. F \subseteq rows /\ \A e \in rows : e \in F <=> Rank(rows, e) < n
  BY DEF First, Rank
<1>3. IsFiniteSet(T) /\ Cardinality(T) = n
  <2>1. 0 \in Int /\ n - 1 \in Int
    OBVIOUS
  <2>2. IsFiniteSet(T) /\ Cardinality(T) = IF 0 > n - 1 THEN 0 ELSE n - 1 - 0 + 1
    BY <2>1, FS_Interval
  <2> QED BY <2>2
<1> HIDE DEF F
<1>4. f \in Injection(F, T)
  BY <1>2, RankOrder DEF Injection, IsInjective
<1>5. f \in Surjection(F, T)
  <2>1. ASSUME NEW k \in T PROVE \E e \in F : Rank(rows, e) = k
    <3>1. k \in 0 .. Cardinality(rows) - 1
      BY <1>1
    <3>2. PICK e \in rows : Rank(rows, e) = k
      BY <3>1, RankOnto
    <3> QED BY <1>2, <3>2
  <2> QED BY <1>4, <2>1 DEF Injection, Surjection
<1>6. Cardinality(F) = Cardinality(T)
  BY <1>3, <1>4, <1>5, FS_Injection
<1> QED BY <1>3, <1>6 DEF F

(* What a page shows of the rows that match: all of them when no row is    *)
(* left over, and otherwise those up to the cursor that it hands out.      *)
LEMMA PageFacts ==
  ASSUME TypeOK, NEW rows \in SUBSET Events
  PROVE  LET fetched == First(rows, Limit + 1)
         IN  /\ First(fetched, Limit) \subseteq rows
             /\ Cardinality(fetched) # Limit + 1 => First(fetched, Limit) = rows
             /\ Cardinality(fetched) = Limit + 1 =>
                   /\ \E m \in rows : NextCursor(fetched) = Key(m)
                   /\ \A e \in rows : e \in First(fetched, Limit) <=>
                         ~After(Key(e), NextCursor(fetched))
<1> DEFINE fetched == First(rows, Limit + 1)
           page_ == First(fetched, Limit)
<1>1. Cardinality(rows) \in Nat /\ Limit \in Nat /\ Limit > 0
  <2>1. Cardinality(rows) \in Nat
    BY ListingAssumption, FS_Subset, FS_CardinalityType
  <2>2. Limit \in Nat /\ Limit > 0
    BY ListingAssumption
  <2> QED BY <2>1, <2>2
<1>2. /\ fetched \subseteq rows /\ \A e \in rows : e \in fetched <=> Rank(rows, e) < Limit + 1
      /\ page_ \subseteq fetched /\ \A e \in fetched : e \in page_ <=> Rank(fetched, e) < Limit
  BY DEF First, Rank
<1> HIDE DEF fetched, page_
<1>3. ASSUME NEW e \in rows PROVE Rank(rows, e) \in Nat
  BY <1>1, RankOrder
<1>4. ASSUME NEW e \in fetched PROVE Rank(fetched, e) = Rank(rows, e)
  <2>1. ASSUME NEW d \in rows, After(Key(e), Key(d)) PROVE d \in fetched
    <3>1. Rank(rows, d) < Rank(rows, e)
      BY <1>2, <2>1, RankOrder
    <3> QED BY <1>1, <1>2, <1>3, <3>1
  <2>2. {d \in fetched : After(Key(e), Key(d))} = {d \in rows : After(Key(e), Key(d))}
    BY <1>2, <2>1
  <2> QED BY <2>2 DEF Rank
<1>5. \A e \in rows : e \in page_ <=> Rank(rows, e) < Limit
  BY <1>1, <1>2, <1>3, <1>4
<1>6. ASSUME Cardinality(fetched) # Limit + 1 PROVE page_ = rows
  <2>1. Cardinality(rows) <= Limit
    BY <1>1, <1>6, FirstCount DEF fetched
  <2>2. \A e \in rows : Rank(rows, e) < Limit
    BY <1>1, <2>1, RankOrder
  <2> QED BY <1>2, <1>5, <2>2
<1>7. ASSUME Cardinality(fetched) = Limit + 1
      PROVE  /\ \E m \in rows : NextCursor(fetched) = Key(m)
             /\ \A e \in rows : e \in page_ <=> ~After(Key(e), NextCursor(fetched))
  <2>1. Cardinality(fetched) <= Cardinality(rows)
    BY <1>2, ListingAssumption, FS_Subset
  <2>2. Limit - 1 \in 0 .. Cardinality(rows) - 1
    BY <1>1, <1>7, <2>1
  <2>3. PICK m \in rows : Rank(rows, m) = Limit - 1
    BY <2>2, RankOnto
  <2>4. m \in page_
    BY <1>1, <1>5, <2>3
  <2>5. ASSUME NEW d \in page_ \ {m} PROVE After(Key(m), Key(d))
    <3>1. d \in rows /\ Rank(rows, d) # Rank(rows, m)
      BY <1>2, <2>5, RankOrder
    <3>2. Rank(rows, d) < Rank(rows, m)
      BY <1>1, <1>3, <1>5, <2>3, <3>1
    <3> QED BY <3>1, <3>2, RankOrder
  <2>6. Last(page_) \in page_ /\ \A d \in page_ \ {Last(page_)} : After(Key(Last(page_)), Key(d))
    BY <2>4, <2>5 DEF Last
  <2>7. Last(page_) = m
    <3>1. PICK l \in page_ : l = Last(page_)
      BY <2>6
    <3>2. CASE l # m
      <4>1. After(Key(l), Key(m)) /\ After(Key(m), Key(l))
        BY <2>4, <2>5, <2>6, <3>1, <3>2
      <4> QED BY <4>1, <1>2, <3>1, AfterOrder, KeyType
    <3> QED BY <3>1, <3>2
  <2>8. NextCursor(fetched) = Key(m)
    BY <2>7 DEF NextCursor, page_
  <2>9. ASSUME NEW e \in rows PROVE e \in page_ <=> ~After(Key(e), Key(m))
    <3>1. After(Key(e), Key(m)) <=> Rank(rows, m) < Rank(rows, e)
      BY RankOrder
    <3> QED BY <1>1, <1>3, <1>5, <2>3, <3>1
  <2> QED BY <2>8, <2>9
<1> QED BY <1>2, <1>6, <1>7 DEF fetched, page_

-----------------------------------------------------------------------------

(* What the feed's steps leave alone.                                      *)
LEMMA HistoryStays ==
  ASSUME HistoryInv, UNCHANGED historyVars
  PROVE  HistoryInv'
BY DEF HistoryInv, HistoryMissesNone, Offset, historyVars

(* What the steps of the history leave alone.                              *)
LEMMA FeedStays ==
  ASSUME FeedInv, UNCHANGED feedVars
  PROVE  FeedInv'
BY DEF FeedInv, FeedIsExact, Key, feedVars

(* A page is read: it shows the rows that match up to the new cursor, each *)
(* for the first time unless it was moved meanwhile.                       *)
LEMMA ReadFeedStep ==
  ASSUME ListInv, ReadFeed
  PROVE  ListInv'
<1>1. TypeOK /\ FeedInv /\ HistoryInv /\ UNCHANGED <<events, moved, historyVars>>
  BY DEF ListInv, ReadFeed
<1> PICK rows \in SUBSET Events, page_ \in SUBSET Events, fetched \in SUBSET Events :
      rows = Matching /\ fetched = First(rows, Limit + 1) /\ page_ = First(fetched, Limit)
  <2> PICK rows \in SUBSET Events : rows = Matching
    BY DEF Matching
  <2> First(rows, Limit + 1) \in SUBSET Events /\ First(First(rows, Limit + 1), Limit) \in SUBSET Events
    BY DEF First
  <2> QED OBVIOUS
<1>2. /\ page_ \subseteq rows
      /\ Cardinality(fetched) # Limit + 1 => page_ = rows
      /\ Cardinality(fetched) = Limit + 1 =>
            /\ \E m \in rows : NextCursor(fetched) = Key(m)
            /\ \A e \in rows : e \in page_ <=> ~After(Key(e), NextCursor(fetched))
  BY <1>1, PageFacts
<1>3. \A e \in Events : e \in rows <=>
         events[e].status = "published" /\ (cursor = Nothing \/ After(Key(e), cursor))
  BY DEF Matching
<1>4. /\ feed \in {"new", "reading"}
      /\ shown' = [e \in Events |-> IF e \in page_ THEN shown[e] + 1 ELSE shown[e]]
      /\ cursor' = IF Cardinality(fetched) = Limit + 1 THEN NextCursor(fetched) ELSE cursor
      /\ feed' = IF Cardinality(fetched) = Limit + 1 THEN "reading" ELSE "done"
      /\ steady' = IF feed = "new" THEN {e \in Events : events[e].status = "published"} ELSE steady
  BY <1>1 DEF ReadFeed, TypeOK
<1>5. \A e \in Events : Key(e)' = Key(e) /\ shown[e] \in Nat
  BY <1>1 DEF Key, TypeOK
<1>6. \A e \in Events \ moved :
         \/ shown[e] = 0
         \/ shown[e] = 1 /\ cursor # Nothing /\ ~After(Key(e), cursor)
  BY <1>1, <1>4 DEF FeedInv
<1>7. ASSUME NEW e \in steady'
      PROVE  /\ e \in Events \ moved /\ events[e].status = "published"
             /\ e \in rows \/ shown[e] = 1
  <2>1. CASE feed = "new"
    BY <1>1, <1>3, <1>4, <1>7, <2>1 DEF FeedInv
  <2>2. CASE feed = "reading"
    BY <1>1, <1>3, <1>4, <1>7, <2>2 DEF FeedInv, TypeOK
  <2> QED BY <1>4, <2>1, <2>2
<1>8. \A e \in rows \ moved : shown[e] = 0
  BY <1>3, <1>6
<1>9. ASSUME NEW e \in Events \ moved
      PROVE  shown'[e] = IF e \in page_ THEN 1 ELSE shown[e]
  BY <1>2, <1>4, <1>8
<1>10. CASE Cardinality(fetched) # Limit + 1
  <2>1. feed' = "done" /\ cursor' = cursor /\ page_ = rows
    BY <1>2, <1>4, <1>10
  <2>2. TypeOK'
    BY <1>1, <1>4, <1>5, <2>1 DEF TypeOK, historyVars
  <2>3. FeedIsExact'
    BY <1>1, <1>6, <1>7, <1>9, <2>1, <2>2 DEF FeedIsExact, TypeOK
  <2> QED BY <1>1, <2>1, <2>2, <2>3, HistoryStays DEF ListInv, FeedInv
<1>11. CASE Cardinality(fetched) = Limit + 1
  <2>1. PICK m \in rows : cursor' = Key(m)
    BY <1>2, <1>4, <1>11
  <2>2. feed' = "reading" /\ \A e \in rows : e \in page_ <=> ~After(Key(e), cursor')
    BY <1>2, <1>4, <1>11
  <2>3. cursor' \in Starts \X Events /\ cursor' \in Nat \X Nat /\ cursor' # Nothing
    BY <1>1, <2>1, KeyType, ListingAssumption
  <2>4. TypeOK'
    BY <1>1, <1>4, <1>5, <2>2, <2>3 DEF TypeOK, historyVars
  <2>5. ASSUME NEW e \in Events \ moved
        PROVE  shown'[e] = 0 \/ (shown'[e] = 1 /\ ~After(Key(e), cursor'))
    <3>1. CASE e \in page_
      BY <1>2, <1>9, <2>2, <3>1
    <3>2. CASE e \notin page_ /\ shown[e] # 0
      <4>1. cursor # Nothing /\ ~After(Key(e), cursor) /\ shown'[e] = 1
        BY <1>6, <1>9, <3>2
      <4>2. After(cursor', cursor)
        BY <1>3, <2>1, <4>1
      <4>3. cursor \in Nat \X Nat /\ Key(e) \in Nat \X Nat
        BY <1>1, <4>1, CursorType, KeyType
      <4> QED BY <2>3, <4>1, <4>2, <4>3, AfterOrder
    <3> QED BY <1>9, <3>1, <3>2
  <2>6. ASSUME NEW e \in steady' PROVE After(Key(e), cursor') \/ shown'[e] = 1
    BY <1>7, <1>9, <2>2, <2>6
  <2>7. FeedIsExact'
    BY <1>1, <1>5, <2>2, <2>4, <2>5 DEF FeedIsExact, TypeOK
  <2>8. FeedInv'
    BY <1>1, <1>5, <1>7, <2>2, <2>3, <2>5, <2>6, <2>7 DEF FeedInv
  <2> QED BY <1>1, <2>4, <2>8, HistoryStays DEF ListInv
<1> QED BY <1>10, <1>11

(* A page is refused.                                                      *)
LEMMA FeedFailsStep ==
  ASSUME ListInv, FeedFails
  PROVE  ListInv'
<1>1. /\ TypeOK /\ FeedInv /\ HistoryInv /\ feed' = "failed"
      /\ UNCHANGED <<events, cursor, shown, steady, moved, historyVars>>
      /\ feed \in {"new", "reading"}
  BY DEF ListInv, FeedFails
<1>2. TypeOK'
  BY <1>1 DEF TypeOK, historyVars
<1>3. FeedInv'
  BY <1>1 DEF FeedInv, FeedIsExact
<1> QED BY <1>1, <1>2, <1>3, HistoryStays DEF ListInv

(* A status changes: the event is not on sale the whole time.              *)
LEMMA StatusStep ==
  ASSUME ListInv, NEW e \in Events, NEW from, NEW to \in {"published", "sold_out", "over"},
         SetStatus(e, from, to)
  PROVE  ListInv'
<1>1. /\ TypeOK /\ FeedInv /\ HistoryInv
      /\ events' = [events EXCEPT ![e].status = to] /\ steady' = steady \ {e}
      /\ UNCHANGED <<cursor, shown, feed, moved, historyVars>>
  BY DEF ListInv, SetStatus
<1>2. /\ events' \in [Events -> [status : {"draft", "published", "sold_out", "over"}, start : Starts]]
      /\ \A d \in Events : events'[d].start = events[d].start
      /\ \A d \in Events \ {e} : events'[d] = events[d]
  BY <1>1 DEF TypeOK
<1>3. TypeOK'
  BY <1>1, <1>2 DEF TypeOK, historyVars
<1>4. \A d \in Events : Key(d)' = Key(d)
  BY <1>2 DEF Key
<1>5. steady' \subseteq steady /\ steady \subseteq Events /\ e \notin steady'
  BY <1>1 DEF TypeOK
<1>6. FeedInv'
  BY <1>1, <1>2, <1>4, <1>5 DEF FeedInv, FeedIsExact
<1> QED BY <1>1, <1>3, <1>6, HistoryStays DEF ListInv

(* An event is moved: it may be shown again.                               *)
LEMMA RescheduleStep ==
  ASSUME ListInv, NEW e \in Events, NEW start \in Starts, Reschedule(e, start)
  PROVE  ListInv'
<1>1. /\ TypeOK /\ FeedInv /\ HistoryInv
      /\ events' = [events EXCEPT ![e].start = start] /\ steady' = steady \ {e}
      /\ moved' = IF feed = "reading" THEN moved \cup {e} ELSE moved
      /\ UNCHANGED <<cursor, shown, feed, historyVars>>
  BY DEF ListInv, Reschedule
<1>2. /\ events' \in [Events -> [status : {"draft", "published", "sold_out", "over"}, start : Starts]]
      /\ \A d \in Events \ {e} : events'[d] = events[d]
  BY <1>1 DEF TypeOK
<1>3. steady' \subseteq steady /\ steady \subseteq Events /\ e \notin steady'
      /\ moved \subseteq moved' /\ moved' \subseteq Events
  BY <1>1 DEF TypeOK
<1>4. TypeOK'
  BY <1>1, <1>2, <1>3 DEF TypeOK, historyVars
<1>5. \A d \in Events \ {e} : Key(d)' = Key(d)
  BY <1>2 DEF Key
<1>6. FeedInv'
  BY <1>1, <1>2, <1>3, <1>5 DEF FeedInv, FeedIsExact
<1> QED BY <1>1, <1>4, <1>6, HistoryStays DEF ListInv

-----------------------------------------------------------------------------

(* How many purchases come before p in the history.                        *)
Newer(rows, p) == Cardinality({q \in rows : q > p})

(* They are counted by a number that only grows, and falls short of all.   *)
LEMMA NewerGrows ==
  ASSUME NEW rows \in SUBSET Purchases, NEW more \in SUBSET Purchases, rows \subseteq more,
         NEW p \in rows
  PROVE  /\ Newer(rows, p) \in Nat /\ Newer(more, p) \in Nat
         /\ Newer(rows, p) <= Newer(more, p)
         /\ Cardinality(rows) \in Nat /\ Newer(rows, p) < Cardinality(rows)
<1>1. IsFiniteSet(rows) /\ IsFiniteSet(more)
  BY ListingAssumption, FS_Subset
<1>2. {q \in rows : q > p} \in SUBSET {q \in more : q > p}
  OBVIOUS
<1>3. {q \in rows : q > p} \in SUBSET rows /\ {q \in rows : q > p} # rows
  <2>1. p \in Nat
    BY ListingAssumption
  <2> QED BY <2>1
<1>4. {q \in more : q > p} \in SUBSET more
  OBVIOUS
<1>5. /\ IsFiniteSet({q \in more : q > p}) /\ IsFiniteSet({q \in rows : q > p})
      /\ Newer(rows, p) <= Cardinality(rows) /\ Newer(rows, p) # Cardinality(rows)
  BY <1>1, <1>3, <1>4, FS_Subset DEF Newer
<1>6. Newer(rows, p) <= Newer(more, p)
  BY <1>2, <1>5, FS_Subset DEF Newer
<1>7. Newer(rows, p) \in Nat /\ Newer(more, p) \in Nat /\ Cardinality(rows) \in Nat
  BY <1>1, <1>5, FS_CardinalityType DEF Newer
<1> QED BY <1>5, <1>6, <1>7

(* The pages asked for so far, and the next.                               *)
LEMMA Offsets ==
  ASSUME NEW n \in Nat \ {0}, NEW limit \in Nat
  PROVE  /\ (n - 1) * limit \in Nat /\ n * limit \in Nat
         /\ (n - 1) * limit + limit = n * limit
         /\ ((n + 1) - 1) * limit = n * limit
         /\ n = 1 => (n - 1) * limit = 0
<1>1. (n - 1) * limit + limit = n * limit
  OBVIOUS
<1>2. (n - 1) * limit \in Nat /\ n * limit \in Nat
  OBVIOUS
<1>3. ((n + 1) - 1) * limit = n * limit
  OBVIOUS
<1>4. n = 1 => (n - 1) * limit = 0
  OBVIOUS
<1> QED BY <1>1, <1>2, <1>3, <1>4

(* HistoryInv, in terms of Newer.                                          *)
LEMMA HistoryParts ==
  HistoryInv <=>
     /\ opening \subseteq purchases
     /\ history = "list" =>
            /\ page = 1 => opening = {}
            /\ \A p \in opening \ listed : Newer(purchases, p) >= (page - 1) * Limit
     /\ history = "count" => \A p \in opening \ listed : Newer(purchases, p) >= page * Limit
     /\ history = "done" => opening \subseteq listed
BY DEF HistoryInv, HistoryMissesNone, Newer, Offset

(* A page of the history is listed: what it leaves lies behind it.         *)
LEMMA ListStep ==
  ASSUME ListInv, ListByUser
  PROVE  ListInv'
<1>1. /\ TypeOK /\ FeedInv /\ HistoryInv
      /\ history = "list" /\ history' = "count" /\ listed' = listed \cup Page
      /\ opening' = IF page = 1 THEN purchases ELSE opening
      /\ UNCHANGED <<purchases, page, feedVars>>
  BY DEF ListInv, ListByUser
<1>2. purchases \in SUBSET Purchases /\ opening' \subseteq purchases /\ page \in Nat \ {0} /\ Limit \in Nat
  BY <1>1, HistoryParts, ListingAssumption DEF TypeOK
<1>3. Page = {p \in purchases : (page - 1) * Limit <= Newer(purchases, p)
                               /\ Newer(purchases, p) < (page - 1) * Limit + Limit}
  BY DEF Page, Offset, Newer
<1>4. ASSUME NEW p \in opening' \ listed'
      PROVE  Newer(purchases, p) >= page * Limit
  <2>1. p \in purchases /\ p \notin listed /\ p \notin Page /\ Newer(purchases, p) \in Nat
    BY <1>1, <1>2, <1>4, NewerGrows
  <2>2. Newer(purchases, p) >= (page - 1) * Limit
    <3>1. CASE page = 1
      BY <1>2, <2>1, <3>1, Offsets
    <3>2. CASE page # 1
      BY <1>1, <1>4, <2>1, <3>2, HistoryParts
    <3> QED BY <3>1, <3>2
  <2>3. ~(Newer(purchases, p) < (page - 1) * Limit + Limit)
    BY <1>2, <1>3, <2>1, <2>2, Offsets
  <2> QED BY <1>2, <2>1, <2>3, Offsets
<1>5. TypeOK'
  BY <1>1, <1>3 DEF TypeOK, feedVars
<1>6. HistoryInv'
  <2>1. /\ opening' \subseteq purchases' /\ history' = "count"
        /\ \A p \in opening' \ listed' : Newer(purchases', p) >= page' * Limit
    BY <1>1, <1>2, <1>4
  <2> QED BY <2>1 DEF HistoryInv, HistoryMissesNone, Newer
<1> QED BY <1>1, <1>5, <1>6, FeedStays DEF ListInv

(* The total is counted: nothing lies behind as many rows as there are.    *)
LEMMA CountStep ==
  ASSUME ListInv, CountByUser
  PROVE  ListInv'
<1>1. /\ TypeOK /\ FeedInv /\ HistoryInv /\ history = "count"
      /\ UNCHANGED <<purchases, listed, opening, feedVars>>
      /\ IF page * Limit < Cardinality(purchases)
         THEN history' = "list" /\ page' = page + 1
         ELSE history' = "done" /\ page' = page
  BY DEF ListInv, CountByUser
<1>2. purchases \in SUBSET Purchases /\ page \in Nat \ {0} /\ Limit \in Nat
  BY <1>1, ListingAssumption DEF TypeOK
<1>3. opening \subseteq purchases /\ \A p \in opening \ listed : Newer(purchases, p) >= page * Limit
  BY <1>1, HistoryParts
<1>4. CASE page * Limit < Cardinality(purchases)
  <2>1. page' = page + 1 /\ page' \in Nat \ {0} /\ page' # 1 /\ (page' - 1) * Limit = page * Limit
    BY <1>1, <1>2, <1>4, Offsets
  <2>2. TypeOK'
    BY <1>1, <1>4, <2>1 DEF TypeOK, feedVars
  <2>3. HistoryInv'
    <3>1. /\ history' = "list" /\ page' # 1 /\ opening' \subseteq purchases'
          /\ \A p \in opening' \ listed' : Newer(purchases', p) >= (page' - 1) * Limit
      BY <1>1, <1>3, <1>4, <2>1
    <3> QED BY <3>1 DEF HistoryInv, HistoryMissesNone, Newer, Offset
  <2> QED BY <1>1, <2>2, <2>3, FeedStays DEF ListInv
<1>5. CASE ~(page * Limit < Cardinality(purchases))
  <2>1. TypeOK'
    BY <1>1, <1>5 DEF TypeOK, feedVars
  <2>2. ASSUME NEW p \in opening \ listed PROVE FALSE
    <3>1. /\ Newer(purchases, p) \in Nat /\ Cardinality(purchases) \in Nat
          /\ Newer(purchases, p) < Cardinality(purchases)
      BY <1>2, <1>3, <2>2, NewerGrows
    <3> QED BY <1>2, <1>3, <1>5, <2>2, <3>1, Offsets
  <2>3. HistoryInv'
    BY <1>1, <1>3, <1>5, <2>2 DEF HistoryInv, HistoryMissesNone
  <2> QED BY <1>1, <2>1, <2>3, FeedStays DEF ListInv
<1> QED BY <1>4, <1>5

(* A purchase becomes visible, wherever it sorts: the others move back.    *)
LEMMA BuyStep ==
  ASSUME ListInv, NEW b \in Purchases, Buy(b)
  PROVE  ListInv'
<1>1. /\ TypeOK /\ FeedInv /\ HistoryInv
      /\ purchases' = purchases \cup {b}
      /\ UNCHANGED <<page, listed, opening, history, feedVars>>
  BY DEF ListInv, Buy
<1> PICK more \in SUBSET Purchases : more = purchases'
  BY <1>1 DEF TypeOK
<1>2. purchases \in SUBSET Purchases /\ purchases \subseteq more
      /\ page \in Nat \ {0} /\ Limit \in Nat
  BY <1>1, ListingAssumption DEF TypeOK
<1>3. TypeOK'
  BY <1>1, <1>2 DEF TypeOK, feedVars
<1>4. ASSUME NEW p \in opening, NEW n \in Nat, Newer(purchases, p) >= n
      PROVE  Newer(more, p) >= n
  <2>1. p \in purchases
    BY <1>1, HistoryParts
  <2>2. /\ Newer(purchases, p) \in Nat /\ Newer(more, p) \in Nat
        /\ Newer(purchases, p) <= Newer(more, p)
    BY <1>2, <2>1, NewerGrows
  <2> QED BY <1>4, <2>2
<1>5. HistoryInv'
  <2>1. /\ opening \subseteq more
        /\ history = "list" =>
              /\ page = 1 => opening = {}
              /\ \A p \in opening \ listed : Newer(more, p) >= (page - 1) * Limit
        /\ history = "count" => \A p \in opening \ listed : Newer(more, p) >= page * Limit
        /\ history = "done" => opening \subseteq listed
    BY <1>1, <1>2, <1>4, HistoryParts, Offsets
  <2> QED BY <1>1, <2>1 DEF HistoryInv, HistoryMissesNone, Newer, Offset
<1> QED BY <1>1, <1>3, <1>5, FeedStays DEF ListInv

-----------------------------------------------------------------------------

(* Nothing has been shown yet.                                             *)
LEMMA InitInv == Init => ListInv
<1> SUFFICES ASSUME Init PROVE ListInv
  OBVIOUS
<1>1. TypeOK
  <2>1. events \in [Events -> [status : {"draft", "published", "sold_out", "over"}, start : Starts]]
        /\ purchases \subseteq Purchases
    BY DEF Init
  <2>2. page \in Nat \ {0} /\ shown \in [Events -> Nat]
    BY DEF Init
  <2> QED BY <2>1, <2>2 DEF Init, TypeOK
<1>2. FeedInv
  BY DEF Init, FeedInv, FeedIsExact
<1>3. HistoryInv
  BY DEF Init, HistoryInv, HistoryMissesNone
<1> QED BY <1>1, <1>2, <1>3 DEF ListInv

(* Every step keeps ListInv.                                               *)
LEMMA NextInv == ListInv /\ [Next]_vars => ListInv'
<1> SUFFICES ASSUME ListInv, [Next]_vars PROVE ListInv'
  OBVIOUS
<1>1. ASSUME NEW e \in Events, Publish(e) \/ SellOut(e) \/ Reopen(e) \/ CancelOrEnd(e)
      PROVE  ListInv'
  BY <1>1, StatusStep DEF Publish, SellOut, Reopen, CancelOrEnd
<1>2. CASE UNCHANGED vars
  <2>1. UNCHANGED <<feedVars, historyVars>>
    BY <1>2 DEF vars, feedVars, historyVars
  <2>2. TypeOK'
    BY <2>1 DEF ListInv, TypeOK, feedVars, historyVars
  <2> QED BY <2>1, <2>2, FeedStays, HistoryStays DEF ListInv
<1> QED BY <1>1, <1>2, ReadFeedStep, FeedFailsStep, RescheduleStep, ListStep, CountStep, BuyStep DEF Next

(* ListInv holds always.                                                   *)
THEOREM ListInvariant == Spec => []ListInv
BY InitInv, NextInv, PTL DEF Spec

(* Every variable keeps its type.                                          *)
THEOREM TypeCorrect == Spec => []TypeOK
<1>1. ListInv => TypeOK
  BY DEF ListInv
<1> QED BY <1>1, ListInvariant, PTL

(* An event that is on sale the whole time is shown, and none twice unless *)
(* it was moved meanwhile.                                                 *)
THEOREM FeedShowsOnce == Spec => []FeedIsExact
<1>1. ListInv => FeedIsExact
  BY DEF ListInv, FeedInv
<1> QED BY <1>1, ListInvariant, PTL

(* A client that pages to the end has seen every purchase there was when   *)
(* it began.                                                               *)
THEOREM HistoryIsWhole == Spec => []HistoryMissesNone
<1>1. ListInv => HistoryMissesNone
  BY DEF ListInv, HistoryInv
<1> QED BY <1>1, ListInvariant, PTL

===============================================================================
