--------------------------- MODULE RestListProofs ---------------------------
(***************************************************************************)
(* Proofs about RestList: the type invariant, the loop invariant of the    *)
(* traversal against any server of the model, and, for a server that keeps *)
(* the protocol while records are only added or only removed, that what is *)
(* returned and cached is NetBox's list as it was at one instant, and has  *)
(* what this process created before that instant.                          *)
(***************************************************************************)
EXTENDS RestList, SequenceTheorems, TLAPS

\* The part of a list from one position to another is a list.
LEMMA SubSeqType ==
    ASSUME NEW S, NEW s \in Seq(S), NEW m \in Nat, NEW n \in Nat, n <= Len(s)
    PROVE  /\ SubSeq(s, m + 1, n) \in Seq(S)
           /\ Len(SubSeq(s, m + 1, n)) = IF m <= n THEN n - m ELSE 0
           /\ \A i \in 1 .. (n - m) : SubSeq(s, m + 1, n)[i] = s[m + i]
<1>1. \A i \in (m + 1) .. n : s[i] \in S
  BY ElementOfSeq
<1>2. /\ SubSeq(s, m + 1, n) \in Seq(S)
      /\ Len(SubSeq(s, m + 1, n)) = IF m + 1 <= n THEN n - (m + 1) + 1 ELSE 0
      /\ \A i \in 1 .. (n - (m + 1) + 1) : SubSeq(s, m + 1, n)[i] = s[(m + 1) + i - 1]
  BY <1>1, SubSeqProperties
<1> QED
  BY <1>2

\* What NetBoxAnswer hands out: adjacent parts of a list make up the list.
LEMMA Adjacent ==
    ASSUME NEW S, NEW s \in Seq(S), NEW m \in Nat, NEW n \in Nat, NEW k \in Nat,
           m <= n, n <= k, k <= Len(s)
    PROVE  SubSeq(s, m + 1, n) \o SubSeq(s, n + 1, k) = SubSeq(s, m + 1, k)
<1>1. /\ m + 1 \in 1 .. (Len(s) + 1)
      /\ n \in ((m + 1) - 1) .. Len(s)
      /\ k \in n .. Len(s)
  BY LenProperties
<1> QED
  BY <1>1, ConcatAdjacentSubSeq

\* Joining two lists without repeated records and without common ones.
LEMMA DistinctConcat ==
    ASSUME NEW S, NEW s \in Seq(S), NEW t \in Seq(S),
           Distinct(s), Distinct(t), Elements(t) \cap Elements(s) = {}
    PROVE  Distinct(s \o t)
<1>1. /\ DOMAIN s = 1 .. Len(s) /\ DOMAIN t = 1 .. Len(t)
      /\ DOMAIN (s \o t) = 1 .. (Len(s) + Len(t))
      /\ Len(s) \in Nat /\ Len(t) \in Nat
      /\ \A i \in 1 .. (Len(s) + Len(t)) :
            (s \o t)[i] = IF i <= Len(s) THEN s[i] ELSE t[i - Len(s)]
  BY ConcatProperties, LenProperties
<1>2. \A i \in 1 .. Len(s), j \in 1 .. Len(t) : s[i] # t[j]
  BY <1>1 DEF Elements
<1> SUFFICES ASSUME NEW i \in DOMAIN (s \o t), NEW j \in DOMAIN (s \o t),
                    (s \o t)[i] = (s \o t)[j]
             PROVE  i = j
  BY DEF Distinct
<1>3. CASE i <= Len(s) /\ j <= Len(s)
  BY <1>1, <1>3 DEF Distinct
<1>4. CASE i <= Len(s) /\ ~(j <= Len(s))
  <2>1. j - Len(s) \in 1 .. Len(t) /\ i \in 1 .. Len(s)
    BY <1>1, <1>4
  <2> QED BY <1>1, <1>2, <1>4, <2>1
<1>5. CASE ~(i <= Len(s)) /\ j <= Len(s)
  <2>1. i - Len(s) \in 1 .. Len(t) /\ j \in 1 .. Len(s)
    BY <1>1, <1>5
  <2> QED BY <1>1, <1>2, <1>5, <2>1
<1>6. CASE ~(i <= Len(s)) /\ ~(j <= Len(s))
  <2>1. i - Len(s) \in 1 .. Len(t) /\ j - Len(s) \in 1 .. Len(t)
    BY <1>1, <1>6
  <2>2. t[i - Len(s)] = t[j - Len(s)]
    BY <1>1, <1>6
  <2>3. i - Len(s) = j - Len(s)
    BY <1>1, <2>1, <2>2 DEF Distinct
  <2> QED BY <2>3, <1>1
<1> QED
  BY <1>3, <1>4, <1>5, <1>6

\* The records of two joined lists are those of the two lists.
LEMMA ElementsConcat ==
    ASSUME NEW S, NEW s \in Seq(S), NEW t \in Seq(S)
    PROVE  Elements(s \o t) = Elements(s) \cup Elements(t)
<1>1. /\ DOMAIN s = 1 .. Len(s) /\ DOMAIN t = 1 .. Len(t)
      /\ DOMAIN (s \o t) = 1 .. (Len(s) + Len(t))
      /\ Len(s) \in Nat /\ Len(t) \in Nat
      /\ \A i \in 1 .. (Len(s) + Len(t)) :
            (s \o t)[i] = IF i <= Len(s) THEN s[i] ELSE t[i - Len(s)]
  BY ConcatProperties, LenProperties
<1>2. ASSUME NEW i \in 1 .. (Len(s) + Len(t))
      PROVE  (s \o t)[i] \in Elements(s) \cup Elements(t)
  <2>1. CASE i <= Len(s)
    <3>1. i \in DOMAIN s /\ (s \o t)[i] = s[i]
      BY <1>1, <2>1
    <3> QED BY <3>1 DEF Elements
  <2>2. CASE ~(i <= Len(s))
    <3>1. i - Len(s) \in DOMAIN t /\ (s \o t)[i] = t[i - Len(s)]
      BY <1>1, <2>2
    <3> QED BY <3>1 DEF Elements
  <2> QED BY <2>1, <2>2
<1>3. ASSUME NEW i \in 1 .. Len(s)
      PROVE  s[i] \in Elements(s \o t)
  <2>1. i \in DOMAIN (s \o t) /\ (s \o t)[i] = s[i]
    BY <1>1
  <2> QED BY <2>1 DEF Elements
<1>4. ASSUME NEW i \in 1 .. Len(t)
      PROVE  t[i] \in Elements(s \o t)
  <2>1. Len(s) + i \in DOMAIN (s \o t) /\ (s \o t)[Len(s) + i] = t[i]
    BY <1>1
  <2> QED BY <2>1 DEF Elements
<1> QED
  BY <1>1, <1>2, <1>3, <1>4 DEF Elements

\* Taking a list apart at two places keeps its records apart.
LEMMA SplitDistinct ==
    ASSUME NEW S, NEW s \in Seq(S), NEW m \in Nat, NEW n \in Nat,
           m <= n, n <= Len(s), Distinct(s)
    PROVE  LET u == SubSeq(s, 1, m)
               v == SubSeq(s, n + 1, Len(s))
           IN  /\ u \in Seq(S) /\ v \in Seq(S)
               /\ Len(u) = m /\ Len(v) = Len(s) - n
               /\ Distinct(u) /\ Distinct(v)
               /\ Elements(u) \subseteq Elements(s) /\ Elements(v) \subseteq Elements(s)
               /\ Elements(v) \cap Elements(u) = {}
               /\ m = n => Elements(s) \subseteq Elements(u) \cup Elements(v)
<1> DEFINE u == SubSeq(s, 1, m)
           v == SubSeq(s, n + 1, Len(s))
<1>1. Len(s) \in Nat /\ DOMAIN s = 1 .. Len(s)
  BY LenProperties
<1>2. u \in Seq(S) /\ Len(u) = m /\ \A i \in 1 .. m : u[i] = s[i]
  <2>1. SubSeq(s, 0 + 1, m) \in Seq(S)
        /\ Len(SubSeq(s, 0 + 1, m)) = (IF 0 <= m THEN m - 0 ELSE 0)
        /\ \A i \in 1 .. (m - 0) : SubSeq(s, 0 + 1, m)[i] = s[0 + i]
    BY <1>1, SubSeqType
  <2>2. 0 + 1 = 1 /\ m - 0 = m /\ \A i \in 1 .. m : 0 + i = i
    OBVIOUS
  <2> QED BY <2>1, <2>2
<1>3. v \in Seq(S) /\ Len(v) = Len(s) - n /\ \A i \in 1 .. (Len(s) - n) : v[i] = s[n + i]
  <2>1. /\ SubSeq(s, n + 1, Len(s)) \in Seq(S)
        /\ Len(SubSeq(s, n + 1, Len(s))) = IF n <= Len(s) THEN Len(s) - n ELSE 0
        /\ \A i \in 1 .. (Len(s) - n) : SubSeq(s, n + 1, Len(s))[i] = s[n + i]
    <3>0. PICK k \in Nat : k = Len(s)
      BY <1>1, Zenon
    <3>1. k = Len(s) /\ k <= Len(s)
      BY <3>0
    <3>2. /\ SubSeq(s, n + 1, k) \in Seq(S)
          /\ Len(SubSeq(s, n + 1, k)) = IF n <= k THEN k - n ELSE 0
          /\ \A i \in 1 .. (k - n) : SubSeq(s, n + 1, k)[i] = s[n + i]
      BY <3>1, SubSeqType
    <3> QED BY <3>1, <3>2
  <2> QED BY <2>1
<1>4. DOMAIN u = 1 .. m /\ DOMAIN v = 1 .. (Len(s) - n)
  BY <1>2, <1>3, LenProperties
<1> HIDE DEF u, v
<1>5. Distinct(u) /\ Elements(u) \subseteq Elements(s)
  BY <1>1, <1>2, <1>4 DEF Distinct, Elements
<1>6. ASSUME NEW i \in 1 .. (Len(s) - n)
      PROVE  n + i \in DOMAIN s /\ v[i] = s[n + i]
  BY <1>1, <1>3
<1>7. Distinct(v)
  <2> SUFFICES ASSUME NEW i \in DOMAIN v, NEW j \in DOMAIN v, v[i] = v[j]
               PROVE  i = j
    BY DEF Distinct
  <2>1. n + i = n + j
    BY <1>4, <1>6 DEF Distinct
  <2> QED BY <1>4, <2>1
<1>8. Elements(v) \subseteq Elements(s)
  BY <1>4, <1>6 DEF Elements
<1>9. ASSUME NEW i \in DOMAIN v, NEW j \in DOMAIN u
      PROVE  v[i] # u[j]
  <2>1. j \in DOMAIN s /\ u[j] = s[j] /\ j <= n
    BY <1>1, <1>2, <1>4
  <2>2. n + i \in DOMAIN s /\ v[i] = s[n + i] /\ n + i # j
    BY <1>4, <1>6, <2>1
  <2> QED BY <2>1, <2>2 DEF Distinct
<1>10. Elements(v) \cap Elements(u) = {}
  BY <1>9 DEF Elements
<1>11. ASSUME m = n, NEW i \in DOMAIN s
       PROVE  s[i] \in Elements(u) \cup Elements(v)
  <2>1. CASE i <= m
    <3>1. i \in DOMAIN u /\ u[i] = s[i]
      BY <1>1, <1>2, <1>4, <2>1
    <3> QED BY <3>1 DEF Elements
  <2>2. CASE ~(i <= m)
    <3>1. i - n \in 1 .. (Len(s) - n) /\ n + (i - n) = i
      BY <1>1, <1>11, <2>2
    <3>2. i - n \in DOMAIN v /\ v[i - n] = s[i]
      BY <1>4, <1>6, <3>1
    <3> QED BY <3>2 DEF Elements
  <2> QED BY <2>1, <2>2
<1>12. m = n => Elements(s) \subseteq Elements(u) \cup Elements(v)
  BY <1>11 DEF Elements
<1> QED
  BY <1>2, <1>3, <1>5, <1>7, <1>8, <1>10, <1>12 DEF u, v

\* A record inserted by InsertAt.
LEMMA Inserted ==
    ASSUME NEW S, NEW s \in Seq(S), NEW i \in 0 .. Len(s), NEW r \in S,
           Distinct(s), r \notin Elements(s)
    PROVE  /\ With(s, i, r) \in Seq(S) /\ Distinct(With(s, i, r))
           /\ Len(With(s, i, r)) = Len(s) + 1
           /\ Elements(With(s, i, r)) = Elements(s) \cup {r}
<1> DEFINE u == SubSeq(s, 1, i)
           v == SubSeq(s, i + 1, Len(s))
           x == <<r>>
<1>1. /\ u \in Seq(S) /\ v \in Seq(S)
      /\ Len(u) = i /\ Len(v) = Len(s) - i
      /\ Distinct(u) /\ Distinct(v)
      /\ Elements(u) \subseteq Elements(s) /\ Elements(v) \subseteq Elements(s)
      /\ Elements(v) \cap Elements(u) = {}
      /\ Elements(s) \subseteq Elements(u) \cup Elements(v)
  <2>1. i \in Nat /\ i <= Len(s)
    BY LenProperties
  <2> QED BY <2>1, SplitDistinct
<1>2. x \in Seq(S) /\ Len(x) = 1 /\ Distinct(x) /\ Elements(x) = {r}
  BY DEF Distinct, Elements
<1> HIDE DEF u, v, x
<1>3. /\ u \o x \in Seq(S) /\ Distinct(u \o x)
      /\ Elements(u \o x) = Elements(u) \cup {r}
      /\ Len(u \o x) = i + 1
  <2>1. Elements(x) \cap Elements(u) = {}
    BY <1>1, <1>2
  <2>2. Distinct(u \o x)
    BY <1>1, <1>2, <2>1, DistinctConcat
  <2>3. Elements(u \o x) = Elements(u) \cup Elements(x)
    BY <1>1, <1>2, ElementsConcat
  <2>4. u \in Seq(S) /\ x \in Seq(S)
    BY <1>1, <1>2
  <2>5. u \o x \in Seq(S) /\ Len(u \o x) = Len(u) + Len(x)
    BY <2>4, ConcatProperties
  <2> QED BY <1>1, <1>2, <2>2, <2>3, <2>5
<1>4. Elements(v) \cap Elements(u \o x) = {}
  BY <1>1, <1>3
<1>5. /\ (u \o x) \o v \in Seq(S) /\ Distinct((u \o x) \o v)
      /\ Elements((u \o x) \o v) = Elements(u \o x) \cup Elements(v)
      /\ Len((u \o x) \o v) = (i + 1) + (Len(s) - i)
  <2> DEFINE y == u \o x
  <2> HIDE DEF y
  <2>1. y \in Seq(S) /\ Distinct(y) /\ Len(y) = i + 1 /\ Elements(v) \cap Elements(y) = {}
    BY <1>3, <1>4 DEF y
  <2>2. Distinct(y \o v)
    BY <1>1, <2>1, DistinctConcat
  <2>3. Elements(y \o v) = Elements(y) \cup Elements(v)
    BY <1>1, <2>1, ElementsConcat
  <2>4. y \o v \in Seq(S) /\ Len(y \o v) = Len(y) + Len(v)
    BY <1>1, <2>1, ConcatProperties
  <2>5. y \o v \in Seq(S) /\ Len(y \o v) = (i + 1) + (Len(s) - i)
    BY <1>1, <2>1, <2>4
  <2> QED BY <2>2, <2>3, <2>5 DEF y
<1>6. Elements((u \o x) \o v) = Elements(s) \cup {r}
  BY <1>1, <1>3, <1>5
<1>7. Len((u \o x) \o v) = Len(s) + 1
  BY <1>5, LenProperties
<1>8. (u \o x) \o v = With(s, i, r)
  BY DEF u, v, x, With
<1> QED
  BY <1>5, <1>6, <1>7, <1>8, Zenon

\* A record removed by Delete.
LEMMA Removed ==
    ASSUME NEW S, NEW s \in Seq(S), NEW i \in 1 .. Len(s), Distinct(s)
    PROVE  /\ Without(s, i) \in Seq(S) /\ Distinct(Without(s, i))
           /\ Len(Without(s, i)) = Len(s) - 1
           /\ Elements(Without(s, i)) \subseteq Elements(s)
<1> DEFINE u == SubSeq(s, 1, i - 1)
           v == SubSeq(s, i + 1, Len(s))
<1>1. /\ u \in Seq(S) /\ v \in Seq(S)
      /\ Len(u) = i - 1 /\ Len(v) = Len(s) - i
      /\ Distinct(u) /\ Distinct(v)
      /\ Elements(u) \subseteq Elements(s) /\ Elements(v) \subseteq Elements(s)
      /\ Elements(v) \cap Elements(u) = {}
  <2>1. i - 1 \in Nat /\ i \in Nat /\ i - 1 <= i /\ i <= Len(s)
    BY LenProperties
  <2> QED BY <2>1, SplitDistinct
<1> HIDE DEF u, v
<1>2. /\ u \o v \in Seq(S) /\ Distinct(u \o v)
      /\ Elements(u \o v) = Elements(u) \cup Elements(v)
      /\ Len(u \o v) = (i - 1) + (Len(s) - i)
  <2>1. Distinct(u \o v)
    BY <1>1, DistinctConcat
  <2>2. Elements(u \o v) = Elements(u) \cup Elements(v)
    BY <1>1, ElementsConcat
  <2>3. u \o v \in Seq(S) /\ Len(u \o v) = Len(u) + Len(v)
    BY <1>1, ConcatProperties
  <2> QED BY <1>1, <2>1, <2>2, <2>3
<1>3. Len(u \o v) = Len(s) - 1
  BY <1>2, LenProperties
<1>4. Elements(u \o v) \subseteq Elements(s)
  BY <1>1, <1>2
<1>5. u \o v = Without(s, i)
  BY DEF u, v, Without
<1> QED
  BY <1>2, <1>3, <1>4, <1>5, Zenon

-----------------------------------------------------------------------------
(***************************************************************************)
(* Types and the loop invariant, for any server of the model.              *)
(***************************************************************************)

\* What NetBox and a faulty server send has the type of an answer.
LEMMA AnswersType ==
    ASSUME TypeOK
    PROVE  \A a \in Answers(server, offset) : a \in Answer
<1>1. query.limit \in Nat \ {0}
  BY PagingConstants DEF TypeOK, Query
<1>2. PageEnd(server, offset) \in Nat /\ PageEnd(server, offset) <= Len(server)
  BY <1>1, LenProperties DEF TypeOK, PageEnd
<1>3. SubSeq(server, offset + 1, PageEnd(server, offset)) \in Seq(Records)
  BY <1>2, SubSeqType DEF TypeOK
<1>4. NetBoxAnswer(server, offset) \in Answer
  <2>1. Len(server) \in Nat
    BY LenProperties DEF TypeOK
  <2>2. (IF offset + query.limit < Len(server) THEN offset + query.limit ELSE None) \in Nat \cup {None}
    BY <1>1, <2>1 DEF TypeOK
  <2> QED BY <1>3, <2>1, <2>2 DEF NetBoxAnswer, Answer, Bound
<1>5. FaultyAnswers \subseteq Answer
  <2>1. {<< >>} \cup {<<r>> : r \in Records} \cup {<<r, r>> : r \in Records} \subseteq Seq(Records)
    <3>1. \A r \in Records : <<r>> \in Seq(Records) /\ <<r, r>> \in Seq(Records)
      OBVIOUS
    <3>2. << >> \in Seq(Records)
      BY EmptySeq
    <3> QED BY <3>1, <3>2, Zenon
  <2> QED BY <2>1 DEF FaultyAnswers, Answer, Bound
<1> QED
  BY <1>4, <1>5 DEF Answers

\* Every step keeps the types.
LEMMA TypeStep ==
    ASSUME TypeOK, [Next]_vars
    PROVE  TypeOK'
<1> USE DEF netbox, cursor, creates
<1>1. CASE Reply
  <2>1. answer' \in Answer
    BY <1>1, AnswersType DEF Reply
  <2> QED BY <1>1, <2>1 DEF Reply, TypeOK
<1>2. ASSUME NEW r \in Records \ ever, NEW i \in 0 .. Len(server), InsertAt(i, r)
      PROVE  /\ server' \in Seq(Records) /\ Distinct(server')
             /\ Elements(server') \subseteq ever' /\ ever' \subseteq Records
             /\ workload' \in Workloads /\ edits' \in Nat
             /\ ever' = ever \cup {r}
  <2>1. server \in Seq(Records) /\ Distinct(server) /\ r \notin Elements(server) /\ r \in Records
    BY DEF TypeOK
  <2>2. /\ server' \in Seq(Records) /\ Distinct(server')
        /\ Elements(server') = Elements(server) \cup {r}
    BY <1>2, <2>1, Inserted DEF InsertAt
  <2> QED BY <1>2, <2>2 DEF InsertAt, TypeOK
<1>3. CASE Insert
  <2>1. PICK r \in Records \ ever, i \in 0 .. Len(server) : InsertAt(i, r)
    BY <1>3 DEF Insert
  <2> QED BY <1>2, <1>3, <2>1 DEF Insert, TypeOK
<1>4. CASE Post
  <2>1. PICK r \in Records \ ever, i \in 0 .. Len(server) :
           InsertAt(i, r) /\ posted' = posted \cup {r}
    BY <1>4 DEF Post
  <2> QED BY <1>2, <1>4, <2>1 DEF Post, TypeOK
<1>10. ASSUME NEW r \in Records, CreateAnswered(r) \/ CreateLost(r) PROVE TypeOK'
  BY <1>10 DEF CreateAnswered, CreateLost, TypeOK
<1>5. CASE Delete
  <2>1. PICK i \in 1 .. Len(server) : server' = Without(server, i)
    BY <1>5 DEF Delete
  <2>2. /\ server' \in Seq(Records) /\ Distinct(server')
        /\ Elements(server') \subseteq Elements(server)
    BY <2>1, Removed DEF TypeOK
  <2> QED BY <1>5, <2>2 DEF Delete, TypeOK
<1>6. CASE Begin
  BY <1>6 DEF Begin, TypeOK
<1>7. CASE FetchFails
  BY <1>7 DEF FetchFails, TypeOK
<1>8. CASE Page
  <2>1. /\ answer.results \in Seq(Records) /\ answer.count \in Nat \cup {None}
        /\ answer.next \in Nat \cup {None}
    BY <1>8 DEF Page, TypeOK, Answer, Bound
  <2>2. aggregated \o answer.results \in Seq(Records)
    BY <2>1, ConcatProperties DEF TypeOK
  <2>3. CASE Collect(answer)
    <3>1. /\ UNCHANGED <<netbox, query, first, creates>> /\ answer' = None
          /\ pages' = pages + 1 /\ attempt' = 0 /\ expected' = answer.count
          /\ aggregated' = aggregated \o answer.results
          /\ phase' \in {phase, "done"}
          /\ cached' \in {cached, aggregated'}
          /\ offset' = offset \/ (answer.next # None /\ offset' = answer.next)
      BY <1>8, <2>3 DEF Page, Collect
    <3>2. paginated' \in BOOLEAN
      BY <2>3, Zenon DEF Collect
    <3>3. /\ phase' \in {"start", "fetch", "done", "error"}
          /\ attempt' \in Nat /\ offset' \in Nat /\ pages' \in Nat
          /\ expected' \in Nat \cup {None}
          /\ aggregated' \in Seq(Records)
      BY <2>1, <2>2, <3>1 DEF TypeOK
    <3>4. cached' \in Seq(Records) \cup {None}
      BY <3>1, <3>3 DEF TypeOK
    <3>5. paginated' \in BOOLEAN \cup {None}
      BY <3>2, Zenon
    <3>6. /\ server' = server /\ ever' = ever /\ workload' = workload /\ edits' = edits
          /\ answer' = None /\ query' = query /\ first' = first /\ UNCHANGED creates
      BY <3>1 DEF netbox
    <3> QED BY <3>3, <3>4, <3>5, <3>6, Zenon DEF TypeOK
  <2>4. CASE Refuse(answer)
    BY <1>8, <2>4 DEF Page, Refuse, TypeOK
  <2> QED BY <1>8, <2>3, <2>4 DEF Page
<1>9. CASE UNCHANGED vars
  BY <1>9 DEF vars, TypeOK
<1> QED
  BY <1>1, <1>3, <1>4, <1>5, <1>6, <1>7, <1>8, <1>9, <1>10 DEF Next

\* The initial states have the types.
LEMMA TypeInit ==
    ASSUME Init
    PROVE  TypeOK
<1>1. query.offset \in Nat /\ query \in Queries
  BY PagingConstants DEF Init, Query
<1>2. From(Initial, query.offset) \in Seq(Records)
  <2>1. PICK k \in Nat : k = Len(Initial) /\ k <= Len(Initial)
    BY LenProperties, PagingConstants
  <2>2. SubSeq(Initial, query.offset + 1, k) \in Seq(Records)
    BY <1>1, <2>1, SubSeqType, PagingConstants
  <2> QED BY <2>1, <2>2 DEF From
<1>3. Elements(Initial) \subseteq Records
  BY ElementOfSeq, LenProperties, PagingConstants DEF Elements
<1> QED
  BY <1>1, <1>2, <1>3, EmptySeq, PagingConstants DEF Init, TypeOK

\* The values of the variables have their types in every reachable state.
THEOREM TypeCorrect == Spec => []TypeOK
<1>1. Init => TypeOK
  BY TypeInit
<1>2. TypeOK /\ [Next]_vars => TypeOK'
  BY TypeStep
<1> QED
  BY <1>1, <1>2, PTL DEF Spec

\* The loop invariant of the traversal: before the first request nothing is
\* collected; before every other one the cursor, the records and the limits
\* agree; what is returned is within the caller's limit.
LoopInv ==
    /\ phase = "start" => aggregated = << >> /\ offset = query.offset /\ pages = 0
    /\ phase = "fetch" =>
          /\ offset = query.offset + Len(aggregated)
          /\ Distinct(aggregated)
          /\ pages < HardPages
          /\ Len(aggregated) < HardRecords
          /\ Within(offset, query.maxOffset)
    /\ phase = "done" =>
          /\ pages # 0 => Distinct(aggregated)
          /\ Within(Len(aggregated), query.maxRecords)

\* Every step keeps the loop invariant.
LEMMA LoopStep ==
    ASSUME TypeOK, LoopInv, [Next]_vars
    PROVE  LoopInv'
<1> USE DEF netbox, cursor
<1>0. Len(aggregated) \in Nat /\ query.offset \in Nat
  BY LenProperties, PagingConstants DEF TypeOK, Query
<1>1. CASE Reply \/ Insert \/ Post \/ Delete \/ (\E r \in Records : CreateAnswered(r) \/ CreateLost(r))
           \/ UNCHANGED vars
  BY <1>1 DEF Reply, Insert, Post, CreateAnswered, CreateLost, Delete, InsertAt, vars, LoopInv, Within
<1>2. CASE Begin
  <2>1. Len(<< >>) = 0 /\ Distinct(<< >>)
    BY DEF Distinct
  <2>2. phase' = "fetch" => Within(query.offset, query.maxOffset)
    BY <1>2 DEF Begin
  <2>3. phase' = "done" => Within(Len(aggregated'), query.maxRecords) /\ pages' = 0
    BY <1>2 DEF Begin, LoopInv
  <2> QED BY <1>0, <1>2, <2>1, <2>2, <2>3, PagingConstants DEF Begin, LoopInv, Within
<1>3. CASE FetchFails
  BY <1>3 DEF FetchFails, LoopInv, Within
<1>4. CASE Page
  <2>1. /\ answer.results \in Seq(Records) /\ answer.count \in Nat \cup {None}
        /\ answer.next \in Nat \cup {None}
    BY <1>4 DEF Page, TypeOK, Answer, Bound
  <2>2. CASE Collect(answer)
    <3>1. Len(aggregated') = Len(aggregated) + Len(answer.results) /\ Len(answer.results) \in Nat
      BY <2>1, <2>2, ConcatProperties, LenProperties DEF TypeOK, Collect
    <3>2. Distinct(aggregated')
      BY <1>4, <2>1, <2>2, DistinctConcat DEF TypeOK, Collect, PageFits, LoopInv, Page
    <3>3. CASE answer.next = None
      BY <1>4, <2>2, <3>1, <3>2, <3>3 DEF Collect, PageFits, LoopInv, Within, Page
    <3>4. CASE answer.next # None
      <4>1. phase = "fetch" /\ phase' = "fetch" /\ query' = query
        BY <1>4, <2>2, <3>4 DEF Page, Collect
      <4>2. offset' = answer.next /\ pages' = pages + 1 /\ Continues(answer)
        BY <2>2, <3>4 DEF Collect
      <4>3. /\ answer.next = offset + Len(answer.results)
            /\ Within(answer.next, query.maxOffset)
            /\ Len(aggregated) + Len(answer.results) < HardRecords
            /\ pages + 1 < HardPages
        BY <4>2 DEF Continues
      <4>4. offset' = query.offset + Len(aggregated')
        BY <1>0, <3>1, <4>1, <4>2, <4>3 DEF LoopInv
      <4> QED BY <3>1, <3>2, <4>1, <4>2, <4>3, <4>4 DEF LoopInv, Within
    <3> QED BY <3>3, <3>4
  <2>3. CASE Refuse(answer)
    BY <1>4, <2>3 DEF Page, Refuse, LoopInv
  <2> QED BY <1>4, <2>2, <2>3 DEF Page
<1> QED
  BY <1>1, <1>2, <1>3, <1>4 DEF Next

\* Whatever the server answers: no record twice, and a cursor that is where
\* the records collected so far stop.
THEOREM CollectsOnce == Spec => []CollectedOnce
<1>1. Init => LoopInv
  BY DEF Init, LoopInv
<1>2. TypeOK /\ LoopInv /\ [Next]_vars => LoopInv'
  BY LoopStep
<1>3. LoopInv => CollectedOnce
  BY DEF LoopInv, CollectedOnce
<1> QED
  BY <1>1, <1>2, <1>3, TypeCorrect, PTL DEF Spec

\* Whatever the server answers: no request at or past a limit.
THEOREM StaysWithinLimits == Spec => []WithinLimits
<1>1. Init => LoopInv
  BY DEF Init, LoopInv
<1>2. TypeOK /\ LoopInv /\ [Next]_vars => LoopInv'
  BY LoopStep
<1>3. LoopInv => WithinLimits
  BY DEF LoopInv, WithinLimits
<1> QED
  BY <1>1, <1>2, <1>3, TypeCorrect, PTL DEF Spec

-----------------------------------------------------------------------------
(***************************************************************************)
(* A server that keeps the protocol, with records only added or removed.   *)
(***************************************************************************)

\* The list is the one of the first page as long as its length is.
SameLengthSameList ==
    first # None =>
        /\ Len(server) = Len(first) => server = first
        /\ "delete" \notin workload => Len(first) <= Len(server)
        /\ "delete" \in workload => Len(server) <= Len(first)

\* An answer that declares the length of the first page is an answer that
\* could have been given with it.
AnswerOfSnapshot ==
    answer # None =>
        /\ phase = "fetch" /\ first # None
        /\ answer.count # None
        /\ pages = 0 => answer.count = Len(first)
        /\ answer.count = Len(first) => answer = NetBoxAnswer(first, offset)

\* The records collected are those of the first page's list up to the cursor.
PrefixOfSnapshot ==
    phase = "fetch" =>
        /\ cached = None
        /\ pages = 0 => paginated = None /\ aggregated = << >>
        /\ pages # 0 =>
              /\ first # None
              /\ paginated # None /\ expected = Len(first)
              /\ offset <= Len(first)
              /\ aggregated = SubSeq(first, query.offset + 1, offset)

\* The strengthening of ReturnsSnapshot that every step keeps.
SnapshotInv ==
    /\ phase = "start" =>
          answer = None /\ first = None /\ paginated = None /\ pages = 0 /\ aggregated = << >>
    /\ SameLengthSameList
    /\ AnswerOfSnapshot
    /\ PrefixOfSnapshot
    /\ SnapshotReturned

SnapshotKept == OneWayEdits => SnapshotInv

\* A page that Collect accepts extends the prefix of the snapshot, and the
\* last one completes it.
LEMMA CollectSnapshot ==
    ASSUME TypeOK, LoopInv, SnapshotInv, Page, Collect(answer)
    PROVE  /\ answer.next = None => aggregated' = From(first, query.offset)
           /\ answer.next # None =>
                 /\ offset' <= Len(first)
                 /\ aggregated' = SubSeq(first, query.offset + 1, offset')
           /\ first # None /\ answer.count = Len(first)
<1>1. phase = "fetch" /\ answer # None /\ first # None
  BY DEF Page, SnapshotInv, AnswerOfSnapshot
<1>2. first \in Seq(Records) /\ Len(first) \in Nat /\ offset \in Nat
  BY <1>1, LenProperties DEF TypeOK
<1>3. query.offset \in Nat /\ query.limit \in Nat \ {0}
  BY PagingConstants DEF TypeOK, Query
<1>4. answer.count = Len(first)
  BY <1>1 DEF Collect, SameCollection, SnapshotInv, AnswerOfSnapshot, PrefixOfSnapshot
<1>5. answer = NetBoxAnswer(first, offset)
  BY <1>1, <1>4 DEF SnapshotInv, AnswerOfSnapshot
<1> DEFINE stop == PageEnd(first, offset)
<1>6. /\ answer.results = SubSeq(first, offset + 1, stop)
      /\ answer.next = IF offset + query.limit < Len(first) THEN offset + query.limit ELSE None
  BY <1>5 DEF NetBoxAnswer
<1>7. stop = IF offset + query.limit < Len(first) THEN offset + query.limit ELSE Len(first)
  BY DEF PageEnd
<1>8. stop \in Nat /\ stop <= Len(first)
  BY <1>2, <1>3, <1>7
<1> HIDE DEF stop
<1>9. answer.results \in Seq(Records)
  BY <1>2, <1>6, <1>8, SubSeqType
<1>10. aggregated' = SubSeq(first, query.offset + 1, stop)
  <2>1. aggregated' = aggregated \o answer.results
    BY DEF Collect
  <2>2. CASE pages = 0
    <3>1. aggregated = << >>
      BY <1>1, <2>2 DEF SnapshotInv, PrefixOfSnapshot
    <3>2. offset = query.offset
      BY <1>1, <1>2, <1>3, <3>1 DEF LoopInv
    <3> QED BY <1>6, <1>9, <2>1, <3>1, <3>2, ConcatEmptySeq
  <2>3. CASE pages # 0
    <3>1. aggregated = SubSeq(first, query.offset + 1, offset) /\ offset <= Len(first)
      BY <1>1, <2>3 DEF SnapshotInv, PrefixOfSnapshot
    <3>2. query.offset <= offset
      BY <1>1, <1>3, LenProperties DEF LoopInv, TypeOK
    <3>3. offset <= stop
      BY <1>2, <1>3, <1>7, <3>1
    <3>4. PICK m \in Nat : m = query.offset
      BY <1>3, Zenon
    <3>5. m <= offset /\ offset <= stop /\ stop <= Len(first)
      BY <1>8, <3>2, <3>3, <3>4
    <3>6. SubSeq(first, m + 1, offset) \o SubSeq(first, offset + 1, stop) = SubSeq(first, m + 1, stop)
      BY <1>2, <1>8, <3>5, Adjacent, Zenon
    <3> QED BY <1>6, <2>1, <3>1, <3>4, <3>6
  <2> QED BY <2>2, <2>3
<1>11. answer.next = None => stop = Len(first)
  <2>1. CASE offset + query.limit < Len(first)
    BY <1>2, <1>3, <1>6, <2>1, PagingConstants
  <2>2. CASE ~(offset + query.limit < Len(first))
    BY <1>7, <2>2
  <2> QED BY <2>1, <2>2
<1>12. answer.next # None => stop = answer.next /\ offset' = answer.next
  BY <1>6, <1>7 DEF Collect
<1> QED
  BY <1>1, <1>4, <1>8, <1>10, <1>11, <1>12 DEF From

\* Every step keeps the snapshot invariant.
LEMMA SnapshotStep ==
    ASSUME OneWayEdits, TypeOK, LoopInv, SnapshotInv, [Next]_vars
    PROVE  SnapshotInv'
<1> USE DEF netbox, cursor
<1>0. Len(server) \in Nat /\ (first # None => Len(first) \in Nat)
  BY LenProperties DEF TypeOK
<1>1. CASE Reply
  <2>1. answer' = NetBoxAnswer(server, offset)
    BY <1>1 DEF Reply, Answers, OneWayEdits
  <2>2. answer'.count = Len(server) /\ answer' # None /\ answer'.count # None
    <3>1. answer'.count = Len(server)
      BY <2>1 DEF NetBoxAnswer
    <3>2. answer' # None
      <4>1. answer' \in Answer
        BY <1>1, AnswersType DEF Reply
      <4> QED BY <4>1, PagingConstants
    <3> QED BY <1>0, <3>1, <3>2, PagingConstants
  <2>3. /\ phase = "fetch" /\ phase' = phase /\ UNCHANGED <<netbox, query, cursor, cached>>
        /\ first' = IF pages = 0 THEN server ELSE first
    BY <1>1 DEF Reply
  <2>4. first' # None
    BY <2>3, PagingConstants DEF TypeOK, SnapshotInv, PrefixOfSnapshot
  <2>5. SameLengthSameList'
    BY <1>0, <2>3 DEF SnapshotInv, SameLengthSameList
  <2>6. AnswerOfSnapshot'
    BY <2>1, <2>2, <2>3, <2>4, <2>5 DEF SameLengthSameList, AnswerOfSnapshot, NetBoxAnswer, PageEnd
  <2>7. PrefixOfSnapshot'
    BY <2>3 DEF SnapshotInv, PrefixOfSnapshot
  <2>8. SnapshotReturned'
    BY <2>3 DEF SnapshotInv, PrefixOfSnapshot, SnapshotReturned
  <2> QED BY <2>3, <2>5, <2>6, <2>7, <2>8 DEF SnapshotInv
<1>2. ASSUME NEW r \in Records \ ever, NEW i \in 0 .. Len(server), InsertAt(i, r),
             "delete" \notin workload
      PROVE  SameLengthSameList' \/ first' # first
  <2>1. server \in Seq(Records) /\ Distinct(server) /\ r \notin Elements(server) /\ r \in Records
    BY DEF TypeOK
  <2>2. server' = With(server, i, r)
    BY <1>2 DEF InsertAt
  <2>3. Len(server') = Len(server) + 1
    BY <2>1, <2>2, Inserted
  <2>4. UNCHANGED workload
    BY <1>2 DEF InsertAt
  <2> QED BY <1>0, <1>2, <2>3, <2>4 DEF SnapshotInv, SameLengthSameList
<1>3. CASE Insert
  <2>1. PICK r \in Records \ ever, i \in 0 .. Len(server) : InsertAt(i, r)
    BY <1>3 DEF Insert
  <2>2. "delete" \notin workload
    BY <1>3 DEF Insert, OneWayEdits, TypeOK
  <2>3. SameLengthSameList'
    BY <1>2, <1>3, <2>1, <2>2 DEF Insert
  <2> QED
    BY <1>3, <2>3 DEF Insert, SnapshotInv, AnswerOfSnapshot, PrefixOfSnapshot, SnapshotReturned,
                      NetBoxAnswer, PageEnd, From
<1>4. CASE Post
  <2>1. PICK r \in Records \ ever, i \in 0 .. Len(server) : InsertAt(i, r)
    BY <1>4 DEF Post
  <2>2. "delete" \notin workload
    BY <1>4 DEF Post, OneWayEdits, TypeOK
  <2>3. SameLengthSameList'
    BY <1>2, <1>4, <2>1, <2>2 DEF Post
  <2> QED
    BY <1>4, <2>3 DEF Post, SnapshotInv, AnswerOfSnapshot, PrefixOfSnapshot, SnapshotReturned,
                      NetBoxAnswer, PageEnd, From
<1>10. ASSUME NEW r \in Records, CreateAnswered(r) \/ CreateLost(r) PROVE SnapshotInv'
  BY <1>10 DEF CreateAnswered, CreateLost, SnapshotInv, SameLengthSameList, AnswerOfSnapshot,
               PrefixOfSnapshot, SnapshotReturned, NetBoxAnswer, PageEnd, From
<1>5. CASE Delete
  <2>1. PICK i \in 1 .. Len(server) : server' = Without(server, i)
    BY <1>5 DEF Delete
  <2>2. Len(server') = Len(server) - 1
    BY <2>1, Removed DEF TypeOK
  <2>3. UNCHANGED <<workload, first>> /\ "delete" \in workload
    BY <1>5 DEF Delete
  <2>4. first # None => Len(server') < Len(first)
    BY <1>0, <2>2, <2>3 DEF SnapshotInv, SameLengthSameList
  <2>5. SameLengthSameList'
    BY <1>0, <2>2, <2>3, <2>4 DEF SameLengthSameList
  <2> QED
    BY <1>5, <2>5 DEF Delete, SnapshotInv, AnswerOfSnapshot, PrefixOfSnapshot, SnapshotReturned,
                      NetBoxAnswer, PageEnd, From
<1>6. CASE Begin
  <2>1. /\ phase = "start" /\ phase' # "start"
        /\ UNCHANGED <<netbox, answer, query, offset, expected, paginated, pages, cached, first>>
        /\ answer = None /\ first = None /\ paginated = None /\ pages = 0 /\ aggregated = << >>
    BY <1>6 DEF Begin, SnapshotInv
  <2>2. phase' = "fetch" => cached = None /\ aggregated' = aggregated
    BY <1>6 DEF Begin
  <2> QED
    BY <2>1, <2>2 DEF SnapshotInv, SameLengthSameList, AnswerOfSnapshot, PrefixOfSnapshot,
                      SnapshotReturned, From
<1>7. CASE FetchFails
  BY <1>7 DEF FetchFails, SnapshotInv, SameLengthSameList, AnswerOfSnapshot, PrefixOfSnapshot,
              SnapshotReturned, From
<1>8. CASE Page
  <2>1. /\ phase = "fetch" /\ answer' = None
        /\ UNCHANGED <<netbox, query, first>>
    BY <1>8 DEF Page
  <2>2. SameLengthSameList' /\ AnswerOfSnapshot'
    BY <2>1 DEF SnapshotInv, SameLengthSameList, AnswerOfSnapshot
  <2>3. CASE Collect(answer)
    <3>1. /\ answer.next = None => aggregated' = From(first, query.offset)
          /\ answer.next # None =>
                /\ offset' <= Len(first)
                /\ aggregated' = SubSeq(first, query.offset + 1, offset')
          /\ first # None /\ answer.count = Len(first)
      BY <1>8, <2>3, CollectSnapshot
    <3>2. pages' # 0 /\ expected' = Len(first) /\ paginated' = (answer.count # None)
      BY <2>3, <3>1 DEF Collect, TypeOK
    <3>3. paginated' # None
      <4>1. answer.count # None
        BY <1>8 DEF Page, SnapshotInv, AnswerOfSnapshot
      <4> QED BY <3>2, <4>1, PagingConstants
    <3>4. CASE answer.next = None
      <4>1. phase' = "done" /\ cached' = aggregated'
        BY <2>3, <3>4 DEF Collect
      <4> QED BY <2>1, <2>2, <3>1, <3>4, <4>1 DEF SnapshotInv, PrefixOfSnapshot, SnapshotReturned, From
    <3>5. CASE answer.next # None
      <4>1. phase' = phase /\ cached' = cached
        BY <2>3, <3>5 DEF Collect
      <4>2. PrefixOfSnapshot'
        BY <2>1, <3>1, <3>2, <3>3, <3>5, <4>1 DEF SnapshotInv, PrefixOfSnapshot
      <4> QED BY <2>1, <2>2, <4>1, <4>2 DEF SnapshotInv, PrefixOfSnapshot, SnapshotReturned
    <3> QED BY <3>4, <3>5
  <2>4. CASE Refuse(answer)
    BY <2>1, <2>2, <2>4 DEF Refuse, SnapshotInv, PrefixOfSnapshot, SnapshotReturned, From
  <2> QED BY <1>8, <2>3, <2>4 DEF Page
<1>9. CASE UNCHANGED vars
  BY <1>9 DEF vars, SnapshotInv, SameLengthSameList, AnswerOfSnapshot, PrefixOfSnapshot,
              SnapshotReturned, From, NetBoxAnswer, PageEnd
<1> QED
  BY <1>1, <1>3, <1>4, <1>5, <1>6, <1>7, <1>8, <1>9, <1>10 DEF Next

\* The loop invariant and, where the edits go one way, the snapshot invariant hold.
THEOREM SnapshotInvariant == Spec => [](LoopInv /\ SnapshotKept)
<1>1. Init => LoopInv
  BY DEF Init, LoopInv
<1>2. TypeOK /\ LoopInv /\ [Next]_vars => LoopInv'
  BY LoopStep
<1>3. Init => SnapshotKept
  BY DEF Init, SnapshotKept, SnapshotInv, SameLengthSameList, AnswerOfSnapshot, PrefixOfSnapshot, SnapshotReturned
<1>4. TypeOK /\ LoopInv /\ SnapshotKept /\ [Next]_vars
         => SnapshotKept'
  <2>1. ASSUME [Next]_vars
        PROVE  UNCHANGED workload
    BY <2>1 DEF Next, vars, netbox, Reply, Insert, InsertAt, Post, CreateAnswered, CreateLost, Delete,
                Begin, FetchFails, Page
  <2>2. ASSUME [Next]_vars, OneWayEdits'
        PROVE  OneWayEdits
    BY <2>1, <2>2 DEF OneWayEdits
  <2> QED BY <2>2, SnapshotStep DEF SnapshotKept
<1> QED
  BY <1>1, <1>2, <1>3, <1>4, TypeCorrect, PTL DEF Spec

\* A traversal of a list to which records are only added, or from which they
\* are only removed, returns and caches the list as it was at one instant.
THEOREM SnapshotRead == Spec => []ReturnsSnapshot
<1>1. SnapshotKept => ReturnsSnapshot
  BY DEF SnapshotKept, SnapshotInv, ReturnsSnapshot
<1> QED
  BY <1>1, SnapshotInvariant, PTL

(***************************************************************************)
(* What this process saw created is in the cached list.                    *)
(***************************************************************************)

\* Where nothing is removed, what was posted stays in NetBox's list.
CreatesStay ==
    /\ posted \cup own # {} => "create" \in workload
    /\ "delete" \notin workload => posted \cup own \subseteq Elements(server)

\* The create of a record that the first answer lacked makes the last one be refused.
LastPageTells ==
    OneWayEdits /\ LastPageDue /\ answer.count = Len(first) => own \ raced \subseteq Elements(first)

\* A cached list was there before the traversal asked NetBox, and then no create was
\* acknowledged since, or it is what the traversal read, with what was acknowledged.
CacheAge ==
    /\ phase = "start" => first = None /\ pages = 0
    /\ phase = "fetch" => cached = None
    /\ answer # None => first # None
    /\ phase = "fetch" /\ pages # 0 => first # None
    /\ first = None /\ cached # None => own = {}
    /\ first # None /\ cached # None /\ OneWayEdits =>
          cached = From(first, query.offset) /\ own \ raced \subseteq Elements(first)

\* Every step keeps the created records in NetBox's list.
LEMMA CreatesStayStep ==
    ASSUME TypeOK, CreatesStay, [Next]_vars
    PROVE  CreatesStay'
<1> USE DEF netbox, cursor, creates
<1>1. ASSUME NEW r \in Records \ ever, NEW i \in 0 .. Len(server), InsertAt(i, r)
      PROVE  Elements(server') = Elements(server) \cup {r} /\ UNCHANGED workload
  <2>1. server \in Seq(Records) /\ Distinct(server) /\ r \notin Elements(server) /\ r \in Records
    BY DEF TypeOK
  <2> QED BY <1>1, <2>1, Inserted DEF InsertAt
<1>2. CASE Insert
  <2>1. PICK r \in Records \ ever, i \in 0 .. Len(server) : InsertAt(i, r)
    BY <1>2 DEF Insert
  <2> QED BY <1>1, <1>2, <2>1 DEF Insert, CreatesStay
<1>3. CASE Post
  <2>1. PICK r \in Records \ ever, i \in 0 .. Len(server) :
           InsertAt(i, r) /\ posted' = posted \cup {r}
    BY <1>3 DEF Post
  <2> QED BY <1>1, <1>3, <2>1 DEF Post, CreatesStay
<1>4. ASSUME NEW r \in Records, CreateAnswered(r) \/ CreateLost(r) PROVE CreatesStay'
  BY <1>4 DEF CreateAnswered, CreateLost, CreatesStay, Elements
<1>5. CASE Delete
  BY <1>5 DEF Delete, CreatesStay
<1>6. CASE Reply \/ Begin \/ FetchFails \/ Page \/ UNCHANGED vars
  BY <1>6 DEF Reply, Begin, FetchFails, Page, vars, CreatesStay, Elements
<1> QED
  BY <1>2, <1>3, <1>4, <1>5, <1>6 DEF Next

\* Every step keeps what the answer for the last page tells.
LEMMA LastPageStep ==
    ASSUME TypeOK, CreatesStay, SnapshotKept, SnapshotKept',
           LastPageTells, [Next]_vars
    PROVE  LastPageTells'
<1> USE DEF netbox, cursor, creates
<1>1. CASE Reply
  <2> SUFFICES ASSUME OneWayEdits', answer'.count = Len(first'), NEW r \in own' \ raced'
               PROVE  r \in Elements(first')
    BY DEF LastPageTells
  <2>1. /\ OneWayEdits /\ r \in own \ raced
        /\ UNCHANGED <<netbox, pages>> /\ phase = "fetch"
        /\ first' = IF pages = 0 THEN server ELSE first
    BY <1>1 DEF Reply, OneWayEdits
  <2>2. r \in Elements(server)
    BY <2>1 DEF CreatesStay, OneWayEdits
  <2>3. answer'.count = Len(server)
    BY <1>1, <2>1 DEF Reply, Answers, OneWayEdits, NetBoxAnswer
  <2>4. first' # None
    BY <1>1, <2>1, PagingConstants DEF TypeOK, SnapshotKept, SnapshotInv, PrefixOfSnapshot
  <2>5. server' = first'
    BY <2>1, <2>3, <2>4 DEF SnapshotKept, SnapshotInv, SameLengthSameList
  <2> QED BY <2>1, <2>2, <2>5
<1>2. ASSUME NEW r \in Records, CreateAnswered(r) \/ CreateLost(r) PROVE LastPageTells'
  BY <1>2 DEF CreateAnswered, CreateLost, LastPageTells, LastPageDue, OneWayEdits
<1>3. CASE Insert \/ Post \/ Delete \/ Begin \/ UNCHANGED vars
  BY <1>3 DEF Insert, Post, Delete, Begin, InsertAt, vars, LastPageTells, LastPageDue, OneWayEdits
<1>4. CASE FetchFails \/ Page
  BY <1>4 DEF FetchFails, Page, LastPageTells, LastPageDue
<1> QED
  BY <1>1, <1>2, <1>3, <1>4 DEF Next

\* Every step keeps what is known of the cached list.
LEMMA CacheAgeStep ==
    ASSUME TypeOK, LoopInv, SnapshotKept, SnapshotKept',
           LastPageTells, CacheAge, [Next]_vars
    PROVE  CacheAge'
<1> USE DEF netbox, cursor, creates, CacheAge
<1>1. CASE Reply
  BY <1>1, PagingConstants DEF Reply, TypeOK
<1>2. CASE Insert
  BY <1>2 DEF Insert, InsertAt, OneWayEdits, From
<1>3. CASE Post
  BY <1>3 DEF Post, InsertAt, OneWayEdits, From
<1>9. ASSUME NEW r \in Records, CreateAnswered(r) \/ CreateLost(r) PROVE CacheAge'
  BY <1>9 DEF CreateAnswered, CreateLost, OneWayEdits, From
<1>4. CASE Delete
  BY <1>4 DEF Delete, OneWayEdits, From
<1>5. CASE Begin
  <2>1. /\ phase = "start" /\ phase' # "start" /\ (phase' = "fetch" => cached = None)
        /\ UNCHANGED <<workload, query, answer, pages, cached, first, own, raced>>
    BY <1>5 DEF Begin
  <2> QED BY <2>1 DEF OneWayEdits, From
<1>6. CASE FetchFails
  BY <1>6 DEF FetchFails, OneWayEdits, From
<1>7. CASE Page
  <2>1. /\ phase = "fetch" /\ answer # None /\ answer' = None /\ first # None
        /\ UNCHANGED <<netbox, query, first, own, raced>>
    BY <1>7 DEF Page
  <2>2. CASE Collect(answer) /\ answer.next = None
    <3>1. phase' = "done" /\ cached' = aggregated' /\ pages' # 0
      BY <2>2 DEF Collect, TypeOK
    <3>2. OneWayEdits' => OneWayEdits
      BY <2>1 DEF OneWayEdits
    <3>3. OneWayEdits' => aggregated' = From(first, query.offset) /\ answer.count = Len(first)
      BY <1>7, <2>2, <3>2, CollectSnapshot DEF SnapshotKept
    <3>4. OneWayEdits' => own \ raced \subseteq Elements(first)
      BY <2>1, <2>2, <3>2, <3>3 DEF LastPageTells, LastPageDue
    <3> QED BY <2>1, <3>1, <3>3, <3>4 DEF From
  <2>3. CASE Collect(answer) /\ answer.next # None
    BY <2>1, <2>3 DEF Collect
  <2>4. CASE Refuse(answer)
    BY <2>1, <2>4 DEF Refuse
  <2> QED BY <1>7, <2>2, <2>3, <2>4 DEF Page
<1>8. CASE UNCHANGED vars
  BY <1>8 DEF vars, OneWayEdits, From
<1> QED
  BY <1>1, <1>2, <1>3, <1>4, <1>5, <1>6, <1>7, <1>8, <1>9 DEF Next

\* For every list, query and bound: a record whose create was acknowledged is in the
\* cached list, unless the answer for the last page was on its way at that moment.  The
\* acknowledgement drops the list, what refills it asked NetBox later, and a record that
\* comes between two pages changes the count, which the traversal refuses.
THEOREM OwnWrites == Spec => []OwnWritesSeen
<1>1. Init => CreatesStay /\ LastPageTells /\ CacheAge
  BY DEF Init, CreatesStay, LastPageTells, LastPageDue, CacheAge
<1>2. TypeOK /\ LoopInv /\ SnapshotKept /\ SnapshotKept'
         /\ CreatesStay /\ LastPageTells /\ CacheAge /\ [Next]_vars
         => (CreatesStay /\ LastPageTells /\ CacheAge)'
  <2> SUFFICES ASSUME TypeOK, LoopInv, SnapshotKept, SnapshotKept',
                      CreatesStay, LastPageTells, CacheAge, [Next]_vars
               PROVE  (CreatesStay /\ LastPageTells /\ CacheAge)'
    OBVIOUS
  <2>1. CreatesStay'
    BY CreatesStayStep
  <2>2. LastPageTells'
    BY LastPageStep
  <2>3. CacheAge'
    BY CacheAgeStep
  <2> QED BY <2>1, <2>2, <2>3
<1>3. ASSUME TypeOK, CacheAge, OneWayEdits, cached # None, query.offset = 0
      PROVE  OwnWritesSeen
  <2>1. CASE first = None
    BY <1>3, <2>1 DEF CacheAge, OwnWritesSeen
  <2>2. CASE first # None
    <3>1. first \in Seq(Records) /\ cached = SubSeq(first, 1, Len(first))
      BY <1>3, <2>2 DEF CacheAge, From, TypeOK
    <3>2. cached = first
      BY <3>1
    <3> QED BY <1>3, <2>2, <3>2 DEF OwnWritesSeen, CacheAge
  <2> QED BY <2>1, <2>2
<1>4. TypeOK /\ CacheAge => OwnWritesSeen
  BY <1>3 DEF OwnWritesSeen
<1> QED
  BY <1>1, <1>2, <1>4, TypeCorrect, SnapshotInvariant, PTL DEF Spec

=============================================================================
