---------------------------- MODULE WebDataProofs ----------------------------
(***************************************************************************)
(* The theorems about the data that the web client shows: the messages of  *)
(* a conversation, the tree of a project's documents and the rows of the   *)
(* conversation list, for every length of the log, page and window, every  *)
(* tree and any number of messages.                                        *)
(***************************************************************************)
EXTENDS WebMessages, ProjectDocuments, WebConversationList,
        FunctionTheorems, SequenceTheorems, FiniteSetTheorems, WellFoundedInduction, TLAPS

(***************************************************************************)
(* Theorems about WebMessages. The window is in order and keeps its newest *)
(* message because merging gives an ordered sequence of the messages of    *)
(* both sides, and compaction keeps the new end. Its history stays open    *)
(* because a page without more before it has the first message or is       *)
(* empty, and compaction says that there is more.                          *)
(***************************************************************************)

(* Windows and pages.                                                      *)
Messages == Seq(Message)

-----------------------------------------------------------------------------
\* A nonempty set of naturals has a least element.
LEMMA LeastIn ==
  ASSUME NEW T, T \subseteq Nat, T # {}
  PROVE  \E m \in T : \A j \in T : m <= j
<1>1. PICK m \in T : \A j \in T : <<j, m>> \notin OpToRel(<, Nat)
  BY NatLessThanWellFounded, WFMin
<1>2. \A j \in T : ~(j < m)
  BY <1>1 DEF OpToRel
<1> QED BY <1>2

\* A bounded one has a greatest.
LEMMA GreatestIn ==
  ASSUME NEW n \in Nat, NEW T, T \subseteq 1..n, T # {}
  PROVE  \E m \in T : \A j \in T : j <= m
<1> DEFINE U == {n - j : j \in T}
<1>1. U \subseteq Nat /\ U # {}
  <2>1. \A j \in T : j \in Nat /\ j <= n
    OBVIOUS
  <2>2. \A j \in T : n - j \in Nat
    BY <2>1
  <2>3. PICK j \in T : TRUE
    OBVIOUS
  <2>4. n - j \in U
    BY <2>3
  <2> QED BY <2>2, <2>4
<1>2. PICK m \in U : \A j \in U : m <= j
  BY <1>1, LeastIn
<1>3. PICK k \in T : m = n - k
  BY <1>2
<1>4. \A j \in T : n - k <= n - j
  BY <1>2, <1>3
<1> QED BY <1>4

\* A finite set of naturals has a k-th number for every k up to its size.
LEMMA NthFacts ==
  ASSUME NEW S, S \subseteq Nat, IsFiniteSet(S)
  PROVE  /\ Cardinality(S) \in Nat
         /\ \A k \in 1..Cardinality(S) : Nth(S, k) \in S
         /\ \A n \in S : \E k \in 1..Cardinality(S) : Nth(S, k) = n
         /\ \A j, k \in 1..Cardinality(S) : j < k => Nth(S, j) < Nth(S, k)
<1> DEFINE upTo(n) == {m \in S : m <= n}
<1> DEFINE rank == [n \in S |-> Cardinality(upTo(n))]
<1> DEFINE N == Cardinality(S)
<1>1. N \in Nat
  BY FS_CardinalityType
<1>2. \A n \in S : IsFiniteSet(upTo(n)) /\ Cardinality(upTo(n)) \in Nat
                   /\ Cardinality(upTo(n)) <= N
  <2> TAKE n \in S
  <2>1. upTo(n) \subseteq S
    OBVIOUS
  <2> QED BY <2>1, FS_Subset, FS_CardinalityType
<1>3. \A n \in S : rank[n] \in 1..N
  <2> TAKE n \in S
  <2>1. n \in upTo(n)
    OBVIOUS
  <2>2. Cardinality(upTo(n)) # 0
    BY <1>2, <2>1, FS_EmptySet
  <2> HIDE DEF upTo, N
  <2> QED BY <1>1, <1>2, <2>2
<1>4. \A m, n \in S : m < n => rank[m] < rank[n]
  <2> SUFFICES ASSUME NEW m \in S, NEW n \in S, m < n
               PROVE  rank[m] < rank[n]
    OBVIOUS
  <2>1. upTo(m) \subseteq upTo(n) /\ upTo(m) # upTo(n)
    <3>1. m \in Nat /\ n \in Nat /\ n \in upTo(n) /\ n \notin upTo(m)
      OBVIOUS
    <3>2. \A i \in upTo(m) : i <= n
      <4> TAKE i \in upTo(m)
      <4>1. i \in Nat /\ i <= m
        OBVIOUS
      <4> QED BY <3>1, <4>1
    <3> QED BY <3>1, <3>2
  <2>2. Cardinality(upTo(m)) <= Cardinality(upTo(n))
        /\ Cardinality(upTo(m)) # Cardinality(upTo(n))
    BY <1>2, <2>1, FS_Subset
  <2> HIDE DEF upTo
  <2> QED BY <1>2, <2>2
<1>5. rank \in Injection(S, 1..N)
  <2>1. rank \in [S -> 1..N]
    BY <1>3
  <2>2. \A m, n \in S : rank[m] = rank[n] => m = n
    <3> HIDE DEF rank, N
    <3> QED BY <1>3, <1>4
  <2> HIDE DEF rank, N
  <2> QED BY <2>1, <2>2, Fun_IsInj
<1>6. rank \in Surjection(S, 1..N)
  <2>1. IsFiniteSet(1..N) /\ Cardinality(1..N) = N
    BY <1>1, FS_Interval
  <2> HIDE DEF rank
  <2> QED BY <1>5, <2>1, FS_Injection
<1>7. \A k \in 1..N : Nth(S, k) \in S /\ rank[Nth(S, k)] = k
  <2> TAKE k \in 1..N
  <2>1. \E n \in S : rank[n] = k
    <3> HIDE DEF rank, N
    <3> QED BY <1>6, Zenon DEF Surjection
  <2>2. PICK n \in S : rank[n] = k
    BY <2>1
  <2>3. Cardinality({m \in S : m <= n}) = k
    BY <2>2
  <2>4. /\ Nth(S, k) \in S
        /\ Cardinality({m \in S : m <= Nth(S, k)}) = k
    BY <2>3 DEF Nth
  <2>5. rank[Nth(S, k)] = Cardinality({m \in S : m <= Nth(S, k)})
    BY <2>4
  <2> QED BY <2>4, <2>5
<1> HIDE DEF rank, N
<1>8. \A n \in S : Nth(S, rank[n]) = n
  <2> TAKE n \in S
  <2>1. rank[n] \in 1..N /\ rank[n] \in Nat
    BY <1>3
  <2> DEFINE m == Nth(S, rank[n])
  <2>2. m \in S /\ rank[m] = rank[n]
    BY <1>7, <2>1
  <2>3. m \in Nat /\ n \in Nat
    BY <2>2
  <2>4. ~(m < n) /\ ~(n < m)
    <3> HIDE DEF m
    <3> QED BY <1>4, <2>1, <2>2
  <2> QED BY <2>3, <2>4
<1>9. \A j, k \in 1..N : j < k => Nth(S, j) < Nth(S, k)
  <2> SUFFICES ASSUME NEW j \in 1..N, NEW k \in 1..N, j < k
               PROVE  Nth(S, j) < Nth(S, k)
    OBVIOUS
  <2> DEFINE a == Nth(S, j)
  <2> DEFINE b == Nth(S, k)
  <2>1. a \in S /\ b \in S /\ rank[a] = j /\ rank[b] = k
    BY <1>7
  <2> HIDE DEF a, b
  <2>2. ~(b < a) /\ a # b
    BY <1>1, <1>4, <2>1
  <2>3. a \in Nat /\ b \in Nat
    BY <2>1
  <2>4. a < b
    BY <2>2, <2>3
  <2> QED BY <2>4 DEF a, b
<1>10. \A n \in S : \E k \in 1..N : Nth(S, k) = n
  BY <1>3, <1>8
<1> QED BY <1>1, <1>7, <1>9, <1>10 DEF N

\* The messages of a sequence, their numbers and their latest versions.
LEMMA LatestIsIn ==
  ASSUME NEW s \in Messages, NEW n \in Seqs(s)
  PROVE  /\ LatestOf(s, n) \in Message /\ LatestOf(s, n).seq = n
         /\ LatestOf(s, n) \in Range(s)
<1> DEFINE T == {i \in DOMAIN s : s[i].seq = n}
<1>1. Len(s) \in Nat /\ DOMAIN s = 1..Len(s) /\ \A i \in DOMAIN s : s[i] \in Message
  BY LenProperties DEF Messages
<1>2. T \subseteq 1..Len(s) /\ T # {}
  BY <1>1 DEF Seqs
<1>3. \E i \in T : \A j \in T : j <= i
  BY <1>1, <1>2, GreatestIn
<1>4. \E i \in DOMAIN s :
        s[i].seq = n /\ \A j \in DOMAIN s : s[j].seq = n => j <= i
  BY <1>3
<1> QED BY <1>1, <1>4 DEF LatestOf, Range

\* The numbers of a sequence of messages.
LEMMA SeqsFacts ==
  ASSUME NEW s \in Messages
  PROVE  /\ Seqs(s) \subseteq 1..LastSeq /\ Seqs(s) \subseteq Nat
         /\ IsFiniteSet(Seqs(s))
         /\ s = <<>> <=> Seqs(s) = {}
<1>1. /\ Len(s) \in Nat /\ DOMAIN s = 1..Len(s) /\ \A i \in DOMAIN s : s[i] \in Message
      /\ (s = <<>> <=> Len(s) = 0)
  BY LenProperties, EmptySeq DEF Messages
<1>2. \A m \in Message : m.seq \in 1..LastSeq
  BY DEF Message
<1>3. Seqs(s) \subseteq 1..LastSeq
  BY <1>1, <1>2 DEF Seqs
<1>4. IsFiniteSet(1..LastSeq)
  BY FS_Interval, MessagesAssumption
<1>5. IsFiniteSet(Seqs(s))
  BY <1>3, <1>4, FS_Subset
<1>6. s = <<>> <=> Seqs(s) = {}
  <2>1. CASE Len(s) = 0
    BY <1>1, <2>1 DEF Seqs
  <2>2. CASE Len(s) # 0
    <3>1. 1 \in DOMAIN s
      BY <1>1, <2>2
    <3>2. s[1].seq \in Seqs(s)
      BY <3>1 DEF Seqs
    <3> QED BY <1>1, <2>2, <3>2
  <2> QED BY <2>1, <2>2
<1> QED BY <1>3, <1>5, <1>6, MessagesAssumption

\* Deduplication keeps the numbers and puts them in order.
LEMMA DeduplicateFacts ==
  ASSUME NEW s \in Messages
  PROVE  /\ Deduplicate(s) \in Messages
         /\ Increasing(Deduplicate(s))
         /\ Seqs(Deduplicate(s)) = Seqs(s)
<1> DEFINE S == Seqs(s)
<1> DEFINE N == Cardinality(S)
<1> DEFINE d == Deduplicate(s)
<1>1. /\ N \in Nat
      /\ \A k \in 1..N : Nth(S, k) \in S
      /\ \A n \in S : \E k \in 1..N : Nth(S, k) = n
      /\ \A j, k \in 1..N : j < k => Nth(S, j) < Nth(S, k)
  BY SeqsFacts, NthFacts
<1>2. d = [k \in 1..N |-> LatestOf(s, Nth(S, k))]
  BY DEF Deduplicate
<1> HIDE DEF S, N, d
<1>3. \A k \in 1..N : d[k] \in Message /\ d[k].seq = Nth(S, k)
  BY <1>1, <1>2, LatestIsIn DEF S
<1>4. d \in Messages
  <2>1. d \in [1..N -> Message]
    BY <1>2, <1>3
  <2> QED BY <1>1, <2>1 DEF Messages
<1>5. DOMAIN d = 1..N
  BY <1>2
<1>6. Increasing(d)
  BY <1>1, <1>3, <1>5 DEF Increasing
<1>7. Seqs(d) = S
  BY <1>1, <1>3, <1>5 DEF Seqs
<1> QED BY <1>4, <1>6, <1>7 DEF d, S

\* The ends of a window.
LEMMA EndsFacts ==
  ASSUME NEW s \in Messages, Increasing(s)
  PROVE  /\ Oldest(s) \in 0..LastSeq /\ Newest(s) \in 0..LastSeq
         /\ s = <<>> => Oldest(s) = 0 /\ Newest(s) = 0
         /\ s # <<>> => /\ Oldest(s) \in Seqs(s) /\ Newest(s) \in Seqs(s)
                        /\ \A n \in Seqs(s) : Oldest(s) <= n /\ n <= Newest(s)
<1>1. /\ Len(s) \in Nat /\ DOMAIN s = 1..Len(s) /\ \A i \in DOMAIN s : s[i] \in Message
      /\ (s = <<>> <=> Len(s) = 0)
  BY LenProperties, EmptySeq DEF Messages
<1>2. \A i \in DOMAIN s : s[i].seq \in 1..LastSeq
  BY <1>1 DEF Message
<1>3. CASE s = <<>>
  BY <1>3, MessagesAssumption DEF Oldest, Newest
<1>4. CASE s # <<>>
  <2>1. Oldest(s) = s[1].seq /\ Newest(s) = s[Len(s)].seq
    BY <1>4 DEF Oldest, Newest
  <2>2. 1 \in DOMAIN s /\ Len(s) \in DOMAIN s
    BY <1>1, <1>4
  <2>3. \A i \in DOMAIN s : s[1].seq <= s[i].seq /\ s[i].seq <= s[Len(s)].seq
    BY <1>1, <1>2, <2>2, MessagesAssumption DEF Increasing
  <2> QED BY <1>2, <1>4, <2>1, <2>2, <2>3, MessagesAssumption DEF Seqs
<1> QED BY <1>3, <1>4

\* Two windows, one after the other.
LEMMA ConcatFacts ==
  ASSUME NEW s \in Messages, NEW t \in Messages, Increasing(s), Increasing(t),
         s # <<>>, t # <<>>, Newest(s) < Oldest(t)
  PROVE  /\ s \o t \in Messages /\ Increasing(s \o t)
         /\ Seqs(s \o t) = Seqs(s) \cup Seqs(t)
<1>1. /\ Len(s) \in Nat /\ DOMAIN s = 1..Len(s) /\ \A i \in DOMAIN s : s[i] \in Message
      /\ Len(t) \in Nat /\ DOMAIN t = 1..Len(t) /\ \A i \in DOMAIN t : t[i] \in Message
  BY LenProperties DEF Messages
<1> DEFINE u == s \o t
<1>2. /\ u \in Messages /\ Len(u) = Len(s) + Len(t)
      /\ \A i \in 1..Len(s) + Len(t) :
           u[i] = IF i <= Len(s) THEN s[i] ELSE t[i - Len(s)]
  BY ConcatProperties DEF Messages
<1>3. DOMAIN u = 1..Len(s) + Len(t)
  BY <1>2, LenProperties DEF Messages
<1> HIDE DEF u
<1>4. \A i \in DOMAIN s : i \in DOMAIN u /\ u[i] = s[i]
  BY <1>1, <1>2, <1>3
<1>5. \A i \in DOMAIN t : i + Len(s) \in DOMAIN u /\ u[i + Len(s)] = t[i]
  BY <1>1, <1>2, <1>3
<1>6. \A i \in DOMAIN u : \/ i \in DOMAIN s
                          \/ i - Len(s) \in DOMAIN t /\ i = (i - Len(s)) + Len(s)
  BY <1>1, <1>3
<1>7. Seqs(u) = Seqs(s) \cup Seqs(t)
  BY <1>4, <1>5, <1>6 DEF Seqs
<1>8. \A i \in DOMAIN s, j \in DOMAIN t : s[i].seq < t[j].seq
  <2> TAKE i \in DOMAIN s, j \in DOMAIN t
  <2>1. s[i].seq \in Seqs(s) /\ t[j].seq \in Seqs(t)
    BY DEF Seqs
  <2>2. /\ s[i].seq \in Nat /\ t[j].seq \in Nat
        /\ Newest(s) \in Nat /\ Oldest(t) \in Nat
    BY <1>1, EndsFacts, MessagesAssumption DEF Message
  <2>3. s[i].seq <= Newest(s) /\ Oldest(t) <= t[j].seq
    BY <2>1, EndsFacts
  <2> QED BY <2>2, <2>3
<1>9. Increasing(u)
  <2> SUFFICES ASSUME NEW i \in DOMAIN u, NEW j \in DOMAIN u, i < j
               PROVE  u[i].seq < u[j].seq
    BY DEF Increasing
  <2>1. CASE j \in DOMAIN s
    <3>1. i \in DOMAIN s
      BY <1>1, <1>3, <2>1
    <3> QED BY <1>4, <2>1, <3>1 DEF Increasing
  <2>2. CASE i \in DOMAIN s /\ j \notin DOMAIN s
    <3>1. j - Len(s) \in DOMAIN t /\ u[j] = t[j - Len(s)]
      BY <1>2, <1>3, <1>6, <1>1, <2>2
    <3> QED BY <1>4, <1>8, <2>2, <3>1
  <2>3. CASE i \notin DOMAIN s /\ j \notin DOMAIN s
    <3>1. /\ i - Len(s) \in DOMAIN t /\ u[i] = t[i - Len(s)]
          /\ j - Len(s) \in DOMAIN t /\ u[j] = t[j - Len(s)]
      BY <1>2, <1>3, <1>6, <1>1, <2>3
    <3>2. i - Len(s) < j - Len(s)
      BY <1>1, <1>3
    <3> QED BY <3>1, <3>2 DEF Increasing
  <2> QED BY <2>1, <2>2, <2>3
<1> QED BY <1>2, <1>7, <1>9 DEF u

\* The numbers of two sequences, one after the other.
LEMMA JoinedSeqs ==
  ASSUME NEW s \in Messages, NEW t \in Messages
  PROVE  Seqs(s \o t) = Seqs(s) \cup Seqs(t)
<1> DEFINE u == s \o t
<1>1. /\ Len(s) \in Nat /\ DOMAIN s = 1..Len(s)
      /\ Len(t) \in Nat /\ DOMAIN t = 1..Len(t)
  BY LenProperties DEF Messages
<1>2. /\ u \in Messages /\ Len(u) = Len(s) + Len(t)
      /\ \A i \in 1..Len(s) + Len(t) :
           u[i] = IF i <= Len(s) THEN s[i] ELSE t[i - Len(s)]
  BY ConcatProperties DEF Messages
<1>3. DOMAIN u = 1..Len(s) + Len(t)
  BY <1>2, LenProperties DEF Messages
<1> HIDE DEF u
<1>4. \A i \in DOMAIN s : i \in DOMAIN u /\ u[i] = s[i]
  BY <1>1, <1>2, <1>3
<1>5. \A i \in DOMAIN t : i + Len(s) \in DOMAIN u /\ u[i + Len(s)] = t[i]
  BY <1>1, <1>2, <1>3
<1>6. \A i \in DOMAIN u : \/ i \in DOMAIN s
                          \/ i - Len(s) \in DOMAIN t /\ i = (i - Len(s)) + Len(s)
  BY <1>1, <1>3
<1> QED BY <1>4, <1>5, <1>6 DEF Seqs, u

\* Merging into a window in order gives one with the messages of both.
LEMMA MergeFacts ==
  ASSUME NEW c \in Messages, NEW n \in Messages, Increasing(c)
  PROVE  /\ Merge(c, n) \in Messages /\ Increasing(Merge(c, n))
         /\ Seqs(Merge(c, n)) = Seqs(c) \cup Seqs(n)
<1> DEFINE new == Deduplicate(n)
<1> DEFINE apart == Increasing(c) /\ Seqs(c) \cap Seqs(new) = {}
<1>1. new \in Messages /\ Increasing(new) /\ Seqs(new) = Seqs(n)
  BY DeduplicateFacts
<1>2. Merge(c, n) =
        CASE n = <<>> -> c
          [] n # <<>> /\ c = <<>> -> new
          [] n # <<>> /\ c # <<>> ->
               IF apart /\ Newest(c) <= Oldest(new) THEN c \o new
               ELSE IF apart /\ Newest(new) < Oldest(c) THEN new \o c
               ELSE Deduplicate(c \o new)
  BY DEF Merge
<1> HIDE DEF new
<1>3. CASE n = <<>>
  <2>1. Merge(c, n) = c
    BY <1>2, <1>3
  <2>2. Seqs(n) = {}
    BY <1>3, SeqsFacts
  <2> QED BY <2>1, <2>2
<1>4. CASE n # <<>> /\ c = <<>>
  <2>1. Merge(c, n) = new
    BY <1>2, <1>4
  <2>2. Seqs(c) = {}
    BY <1>4, SeqsFacts
  <2> QED BY <1>1, <2>1, <2>2
<1>5. CASE n # <<>> /\ c # <<>>
  <2>1. Seqs(n) # {} /\ new # <<>>
    BY <1>1, <1>5, SeqsFacts
  <2>2. /\ Newest(c) \in Seqs(c) /\ Oldest(new) \in Seqs(new)
        /\ Newest(c) \in Nat /\ Oldest(new) \in Nat
    BY <1>1, <1>5, <2>1, EndsFacts, MessagesAssumption
  <2>3. CASE apart /\ Newest(c) <= Oldest(new)
    <3>1. Newest(c) < Oldest(new)
      BY <2>2, <2>3
    <3>2. Merge(c, n) = c \o new
      BY <1>2, <1>5, <2>3
    <3> QED BY <1>1, <1>5, <2>1, <3>1, <3>2, ConcatFacts
  <2>4. CASE ~(apart /\ Newest(c) <= Oldest(new)) /\ apart /\ Newest(new) < Oldest(c)
    <3>1. Merge(c, n) = new \o c
      BY <1>2, <1>5, <2>4
    <3> QED BY <1>1, <1>5, <2>1, <2>4, <3>1, ConcatFacts
  <2>5. CASE ~(apart /\ Newest(c) <= Oldest(new)) /\ ~(apart /\ Newest(new) < Oldest(c))
    <3>1. Merge(c, n) = Deduplicate(c \o new)
      BY <1>2, <1>5, <2>5
    <3>2. c \o new \in Messages
      BY <1>1, ConcatProperties DEF Messages
    <3>3. Seqs(c \o new) = Seqs(c) \cup Seqs(new)
      BY <1>1, JoinedSeqs
    <3> QED BY <1>1, <3>1, <3>2, <3>3, DeduplicateFacts
  <2> QED BY <2>3, <2>4, <2>5
<1> QED BY <1>3, <1>4, <1>5

-----------------------------------------------------------------------------
(* The state of a window, and requests on their way.                       *)
Pages == [known : BOOLEAN, more : BOOLEAN, oldest : 0..LastSeq]
States ==
    [loaded : BOOLEAN, loading : BOOLEAN, loadingBefore : BOOLEAN,
     sending : BOOLEAN, msgs : Messages, page : Pages]
Answers == [at : {"served"}, msgs : Messages, more : BOOLEAN]
Requests == {NoRequest} \cup [at : {"left"}, arg : 0..LastSeq] \cup Answers

(* A window in order; more is known before it only if its page is known.   *)
WindowOK(s) ==
    s \in States /\ Increasing(s.msgs) /\ (s.page.more => s.page.known)

(* It can be scrolled back unless it starts with the first message.        *)
Opens(s) == s.msgs # <<>> => Oldest(s.msgs) = 1 \/ s.page.more

(* What an answer to a request of each kind brings.                        *)
Brings(kind, a) ==
    a.at = "served" =>
        /\ kind = "initial" => a.msgs # <<>> /\ (a.more \/ 1 \in Seqs(a.msgs))
        /\ kind = "before" => a.msgs = <<>> \/ a.more \/ 1 \in Seqs(a.msgs)
        /\ kind = "send" => Len(a.msgs) = 1
        /\ kind = "revoke" => Len(a.msgs) = 2

(* The server's log, and what is under way.                                *)
Logs == [last : First..LastSeq, revoked : SUBSET (1..LastSeq)]

LogShape ==
    /\ log \in Logs
    /\ view \in BOOLEAN /\ fetched \in BOOLEAN
    /\ \A e \in notices : e.msg \in Message

FlightShape ==
    /\ flight \in [Kinds -> Requests]
    /\ flight["revoke"].at = "left" => flight["revoke"].arg # 0
    /\ \A kind \in Kinds : Brings(kind, flight[kind])

MessagesShape == LogShape /\ FlightShape

(* The window.                                                             *)
WindowInv == WindowOK(st) /\ (fetched => st.msgs # <<>>) /\ HistoryReachable

MessagesInv == MessagesShape /\ WindowInv

-----------------------------------------------------------------------------
\* Merging keeps the newest message, and the first one if either has it.
LEMMA MergeEnds ==
  ASSUME NEW c \in Messages, NEW n \in Messages, Increasing(c)
  PROVE  /\ Merge(c, n) \in Messages /\ Increasing(Merge(c, n))
         /\ Oldest(Merge(c, n)) \in 0..LastSeq
         /\ Newest(c) <= Newest(Merge(c, n))
         /\ Merge(c, n) = <<>> <=> c = <<>> /\ n = <<>>
         /\ n = <<>> => Merge(c, n) = c
         /\ 1 \in Seqs(n) => Oldest(Merge(c, n)) = 1
         /\ c # <<>> /\ Oldest(c) = 1 => Oldest(Merge(c, n)) = 1
<1> DEFINE m == Merge(c, n)
<1>1. m \in Messages /\ Increasing(m) /\ Seqs(m) = Seqs(c) \cup Seqs(n)
  BY MergeFacts
<1>2. n = <<>> => m = c
  BY DEF Merge
<1> HIDE DEF m
<1>3. m = <<>> <=> c = <<>> /\ n = <<>>
  BY <1>1, SeqsFacts
<1>4. /\ Oldest(m) \in 0..LastSeq /\ Newest(m) \in 0..LastSeq
      /\ Newest(c) \in 0..LastSeq
      /\ m # <<>> => /\ Oldest(m) \in Seqs(m)
                     /\ \A k \in Seqs(m) : Oldest(m) <= k /\ k <= Newest(m)
      /\ c = <<>> => Newest(c) = 0
      /\ c # <<>> => Newest(c) \in Seqs(c) /\ Oldest(c) \in Seqs(c)
  BY <1>1, EndsFacts
<1>5. Newest(c) <= Newest(m)
  BY <1>1, <1>3, <1>4, MessagesAssumption
<1>6. 1 \in Seqs(m) => Oldest(m) = 1
  <2> SUFFICES ASSUME 1 \in Seqs(m) PROVE Oldest(m) = 1
    OBVIOUS
  <2>1. m # <<>>
    BY <1>1, SeqsFacts
  <2>2. Oldest(m) \in 1..LastSeq /\ Oldest(m) <= 1
    BY <1>1, <1>4, <2>1, SeqsFacts
  <2> QED BY <2>2, MessagesAssumption
<1> QED BY <1>1, <1>2, <1>3, <1>4, <1>5, <1>6 DEF m

\* Compaction keeps the new end and says that there is more before.
LEMMA CompactFacts ==
  ASSUME NEW s, WindowOK(s)
  PROVE  /\ WindowOK(Compact(s)) /\ Newest(Compact(s).msgs) = Newest(s.msgs)
         /\ s.msgs # <<>> => Compact(s).msgs # <<>>
         /\ Opens(s) => Opens(Compact(s))
<1> DEFINE n == Len(s.msgs)
<1> DEFINE kept == SubSeq(s.msgs, n - Retained + 1, n)
<1> DEFINE c == [s EXCEPT !.msgs = kept,
                  !.page = [known |-> TRUE, more |-> TRUE, oldest |-> Oldest(kept)]]
<1>1. CASE n <= Retained
  BY <1>1 DEF Compact
<1>2. CASE ~(n <= Retained)
  <2>1. /\ s \in States /\ s.msgs \in Messages /\ Increasing(s.msgs)
        /\ Retained \in Nat \ {0}
    BY MessagesAssumption DEF WindowOK, States
  <2>2. /\ n \in Nat /\ DOMAIN s.msgs = 1..n
        /\ \A i \in 1..n : s.msgs[i] \in Message
    BY <2>1, LenProperties DEF Messages
  <2>3. n - Retained + 1 \in 1..n
    BY <1>2, <2>1, <2>2
  <2>4. /\ kept \in Messages /\ Len(kept) = Retained
        /\ \A i \in 1..Retained : kept[i] = s.msgs[n - Retained + i]
    <3>1. \A i \in n - Retained + 1 .. n : s.msgs[i] \in Message
      BY <2>2, <2>3
    <3>2. /\ kept \in Messages
          /\ Len(kept) = IF n - Retained + 1 <= n THEN n - (n - Retained + 1) + 1 ELSE 0
          /\ \A i \in 1..n - (n - Retained + 1) + 1 :
               kept[i] = s.msgs[n - Retained + 1 + i - 1]
      BY <2>1, <2>2, <2>3, <3>1, SubSeqProperties DEF Messages
    <3>3. n - (n - Retained + 1) + 1 = Retained
      BY <2>1, <2>2
    <3>4. \A i \in 1..Retained : n - Retained + 1 + i - 1 = n - Retained + i
      BY <2>1, <2>2
    <3> HIDE DEF kept, n
    <3> QED BY <2>1, <2>3, <3>2, <3>3, <3>4
  <2>5. DOMAIN kept = 1..Retained
    BY <2>4, LenProperties DEF Messages
  <2> HIDE DEF kept
  <2>6. Increasing(kept)
    <3> SUFFICES ASSUME NEW i \in DOMAIN kept, NEW j \in DOMAIN kept, i < j
                 PROVE  kept[i].seq < kept[j].seq
      BY DEF Increasing
    <3>1. n \in Nat /\ Retained \in Nat /\ n > Retained
      BY <1>2, <2>1, <2>2
    <3>2. i \in 1..Retained /\ j \in 1..Retained
      BY <2>5
    <3> HIDE DEF n
    <3>3. /\ n - Retained + i \in 1..n /\ n - Retained + j \in 1..n
          /\ n - Retained + i < n - Retained + j
      BY <3>1, <3>2
    <3>4. s.msgs[n - Retained + i].seq < s.msgs[n - Retained + j].seq
      BY <2>1, <2>2, <3>3 DEF Increasing
    <3> QED BY <2>4, <3>2, <3>4
  <2>7. kept # <<>> /\ s.msgs # <<>>
    <3>1. Len(kept) # 0 /\ n # 0
      BY <2>1, <2>2, <2>3, <2>4
    <3> QED BY <2>1, <2>4, <3>1, EmptySeq DEF Messages
  <2>8. Newest(kept) = Newest(s.msgs)
    <3>1. kept[Retained] = s.msgs[n]
      <4>1. n - Retained + Retained = n /\ Retained \in 1..Retained
        BY <2>1, <2>2
      <4> QED BY <2>4, <4>1
    <3> QED BY <2>4, <2>7, <3>1 DEF Newest
  <2>9. Compact(s) = c
    BY <1>2 DEF Compact, kept
  <2> DEFINE p == [known |-> TRUE, more |-> TRUE, oldest |-> Oldest(kept)]
  <2>10. p \in Pages
    <3>1. Oldest(kept) \in 0..LastSeq
      BY <2>4, <2>6, EndsFacts
    <3> QED BY <3>1 DEF Pages
  <2>11. c \in States /\ c.msgs = kept /\ c.page = p
    BY <2>1, <2>4, <2>10 DEF States
  <2> HIDE DEF c
  <2> QED BY <2>6, <2>7, <2>8, <2>9, <2>11 DEF WindowOK, Opens
<1> QED BY <1>1, <1>2

\* So does retention.
LEMMA RetainFacts ==
  ASSUME NEW s, WindowOK(s)
  PROVE  /\ WindowOK(Retain(s)) /\ Newest(Retain(s).msgs) = Newest(s.msgs)
         /\ s.msgs # <<>> => Retain(s).msgs # <<>>
         /\ Opens(s) => Opens(Retain(s))
BY CompactFacts DEF Retain

(* What a step makes of a window s: still in order, with its newest        *)
(* message, and open to the past if an initial page has arrived.           *)
Follows(s, hasArrived, x) ==
    /\ WindowOK(x) /\ Newest(s.msgs) <= Newest(x.msgs)
    /\ hasArrived => x.msgs # <<>> /\ Opens(x)

\* Steps that leave the messages and their page alone, or compact them.
LEMMA SameWindow ==
  ASSUME NEW s, NEW x \in States, NEW hasArrived, WindowOK(s),
         x.msgs = s.msgs, x.page = s.page,
         hasArrived => s.msgs # <<>> /\ Opens(s)
  PROVE  /\ Follows(s, hasArrived, x)
         /\ Follows(s, hasArrived, Retain(x))
         /\ Follows(s, hasArrived, Compact(x))
<1>1. WindowOK(x)
  BY DEF WindowOK
<1>2. hasArrived => x.msgs # <<>> /\ Opens(x)
  BY DEF Opens
<1>3. Newest(s.msgs) \in Nat /\ Newest(s.msgs) = Newest(x.msgs)
  <2>1. s.msgs \in Messages /\ Increasing(s.msgs)
    BY DEF WindowOK, States
  <2> QED BY <2>1, EndsFacts, MessagesAssumption
<1>4. Newest(s.msgs) <= Newest(x.msgs)
  BY <1>3
<1> QED BY <1>1, <1>2, <1>3, <1>4, RetainFacts, CompactFacts DEF Follows

\* Steps that merge messages into the window.
LEMMA MergedWindow ==
  ASSUME NEW s, NEW n \in Messages, NEW x \in States, NEW hasArrived, WindowOK(s),
         x.msgs = Merge(s.msgs, n), x.page.more => x.page.known,
         hasArrived => x.msgs # <<>> /\ Opens(x)
  PROVE  /\ Follows(s, hasArrived, x)
         /\ Follows(s, hasArrived, Retain(x))
<1>1. s.msgs \in Messages /\ Increasing(s.msgs)
  BY DEF WindowOK, States
<1>2. /\ x.msgs \in Messages /\ Increasing(x.msgs)
      /\ Newest(s.msgs) <= Newest(x.msgs)
  BY <1>1, MergeEnds
<1>3. WindowOK(x)
  BY <1>2 DEF WindowOK
<1> QED BY <1>2, <1>3, RetainFacts DEF Follows

\* A single message, of an event or of an answer.
LEMMA OneMessage ==
  ASSUME NEW s, NEW m \in Message, NEW isLoaded \in BOOLEAN, NEW hasArrived,
         WindowOK(s), hasArrived => s.msgs # <<>> /\ Opens(s)
  PROVE  LET msgs == Merge(s.msgs, <<m>>)
             x == [s EXCEPT !.msgs = msgs, !.loaded = isLoaded,
                            !.page = PageWith(s.page, msgs)]
         IN  Follows(s, hasArrived, x) /\ Follows(s, hasArrived, Retain(x))
<1> DEFINE msgs == Merge(s.msgs, <<m>>)
<1> DEFINE p == PageWith(s.page, msgs)
<1> DEFINE x == [s EXCEPT !.msgs = msgs, !.loaded = isLoaded, !.page = p]
<1>1. s \in States /\ s.msgs \in Messages /\ Increasing(s.msgs) /\ s.page \in Pages
  BY DEF WindowOK, States
<1>2. <<m>> \in Messages /\ <<m>> # <<>>
  BY DEF Messages
<1>3. /\ msgs \in Messages /\ Oldest(msgs) \in 0..LastSeq /\ msgs # <<>>
      /\ s.msgs # <<>> /\ Oldest(s.msgs) = 1 => Oldest(msgs) = 1
  BY <1>1, <1>2, MergeEnds
<1>4. /\ p \in Pages /\ (p.more => p.known)
      /\ (s.page.more => p.more)
  <2>1. s.page.known \in BOOLEAN /\ s.page.more \in BOOLEAN
    BY <1>1 DEF Pages
  <2>2. (s.page.known /\ s.page.more) \in BOOLEAN
    BY <2>1, Zenon
  <2>3. p = [known |-> TRUE, more |-> s.page.known /\ s.page.more,
             oldest |-> Oldest(msgs)]
    BY DEF PageWith
  <2>4. s.page.more => s.page.known
    BY DEF WindowOK
  <2> HIDE DEF p, msgs
  <2> QED BY <1>3, <2>1, <2>2, <2>3, <2>4 DEF Pages
<1> HIDE DEF p
<1>5. x \in States /\ x.msgs = msgs /\ x.page = p
  <2> HIDE DEF msgs
  <2> QED BY <1>1, <1>3, <1>4 DEF States
<1>6. hasArrived => x.msgs # <<>> /\ Opens(x)
  <2> HIDE DEF msgs, x
  <2> QED BY <1>3, <1>4, <1>5 DEF Opens
<1> HIDE DEF x
<1>7. Follows(s, hasArrived, x) /\ Follows(s, hasArrived, Retain(x))
  BY <1>2, <1>4, <1>5, <1>6, MergedWindow
<1> QED BY <1>7 DEF x, p

\* The same, as the handlers of a message merge it.
LEMMA OneMerged ==
  ASSUME NEW s, NEW m \in Message, NEW isLoaded \in BOOLEAN, NEW hasArrived,
         WindowOK(s), hasArrived => s.msgs # <<>> /\ Opens(s)
  PROVE  Follows(s, hasArrived, MergeOne(s, m, isLoaded))
<1> DEFINE l == s.loaded \/ isLoaded
<1>1. l \in BOOLEAN
  <2>1. s.loaded \in BOOLEAN
    BY DEF WindowOK, States
  <2> QED BY <2>1, Zenon
<1> DEFINE msgs == Merge(s.msgs, <<m>>)
<1> DEFINE x == [s EXCEPT !.msgs = msgs, !.loaded = l, !.page = PageWith(s.page, msgs)]
<1>2. MergeOne(s, m, isLoaded) = Retain(x)
  BY DEF MergeOne
<1> HIDE DEF l
<1>3. Follows(s, hasArrived, Retain(x))
  BY <1>1, OneMessage
<1> HIDE DEF x
<1> QED BY <1>2, <1>3

\* One step after another.
LEMMA FollowsOn ==
  ASSUME NEW s, NEW x, NEW y, NEW hasArrived, WindowOK(s),
         Follows(s, hasArrived, x), Follows(x, hasArrived, y)
  PROVE  Follows(s, hasArrived, y)
<1>1. WindowOK(s) /\ WindowOK(x) /\ WindowOK(y)
  BY DEF Follows
<1>2. ASSUME NEW w, WindowOK(w) PROVE Newest(w.msgs) \in Nat
  <2>1. w.msgs \in Messages /\ Increasing(w.msgs)
    BY <1>2 DEF WindowOK, States
  <2> QED BY <2>1, EndsFacts, MessagesAssumption
<1>3. Newest(s.msgs) \in Nat /\ Newest(x.msgs) \in Nat /\ Newest(y.msgs) \in Nat
  BY <1>1, <1>2
<1> QED BY <1>1, <1>3 DEF Follows

-----------------------------------------------------------------------------
\* The pages that the server answers with.
LEMMA PageAnswers ==
  ASSUME MessagesShape, NEW kind \in {"initial", "before", "after"},
         NEW arg \in 0..LastSeq
  PROVE  /\ PageAnswer(kind, arg) \in Requests
         /\ Brings(kind, PageAnswer(kind, arg))
<1> DEFINE last == log.last
<1>1. /\ last \in 1..LastSeq /\ last \in Nat /\ last <= LastSeq
      /\ LastSeq \in Nat /\ PageLimit \in Nat \ {0}
  BY MessagesAssumption DEF MessagesShape, LogShape, Logs
<1> HIDE DEF last
<1>2. ASSUME NEW lo \in Nat \ {0}, NEW hi \in 0..LastSeq
      PROVE  /\ LogRange(lo, hi) \in Messages
             /\ lo <= hi => LogRange(lo, hi) # <<>>
             /\ lo = 1 => LogRange(lo, hi) = <<>> \/ 1 \in Seqs(LogRange(lo, hi))
  <2> DEFINE n == IF hi < lo THEN 0 ELSE hi - lo + 1
  <2> DEFINE r == [i \in 1..n |-> Now(lo + i - 1)]
  <2>1. n \in Nat /\ (lo <= hi => n # 0) /\ (\A i \in 1..n : lo + i - 1 \in 1..LastSeq)
    BY <1>1
  <2>2. \A k \in 1..LastSeq : Now(k) \in Message /\ Now(k).seq = k
    BY DEF Now, Message
  <2>3. LogRange(lo, hi) = r
    BY DEF LogRange
  <2> HIDE DEF n
  <2>4. r \in [1..n -> Message]
    BY <2>1, <2>2
  <2>5. r \in Messages /\ Len(r) = n
    BY <2>1, <2>4 DEF Messages
  <2>6. lo <= hi => r # <<>>
    <3> HIDE DEF r
    <3> QED BY <2>1, <2>5, EmptySeq DEF Messages
  <2>7. lo = 1 => r = <<>> \/ 1 \in Seqs(r)
    <3> SUFFICES ASSUME lo = 1, r # <<>> PROVE 1 \in Seqs(r)
      OBVIOUS
    <3>1. n # 0
      <4> HIDE DEF r
      <4> QED BY <2>5, EmptySeq DEF Messages
    <3>2. 1 \in 1..n
      BY <2>1, <3>1
    <3>3. lo + 1 - 1 = 1
      BY <1>1
    <3>4. r[1].seq = 1
      BY <1>1, <2>2, <3>2, <3>3, <2>1
    <3>5. DOMAIN r = 1..n
      OBVIOUS
    <3> HIDE DEF r
    <3> QED BY <3>2, <3>4, <3>5 DEF Seqs
  <2> QED BY <2>3, <2>5, <2>6, <2>7
<1> DEFINE hi == CASE kind = "initial" -> last
                   [] kind = "before" -> Above(arg, 1)
                   [] kind = "after" -> IF arg + PageLimit < last
                                        THEN arg + PageLimit ELSE last
<1> DEFINE lo == IF kind = "after" THEN arg + 1 ELSE Above(hi, PageLimit) + 1
<1>3. PageAnswer(kind, arg) = Answer(LogRange(lo, hi), lo > 1)
  BY DEF PageAnswer, last
<1>4. hi \in 0..LastSeq /\ lo \in Nat \ {0}
  <2>1. hi \in 0..LastSeq
    <3>1. CASE kind = "initial"
      BY <1>1, <3>1
    <3>2. CASE kind = "before"
      <4>1. hi = Above(arg, 1)
        BY <3>2
      <4> HIDE DEF hi
      <4> QED BY <1>1, <4>1 DEF Above
    <3>3. CASE kind = "after"
      BY <1>1, <3>3
    <3> QED BY <3>1, <3>2, <3>3
  <2> HIDE DEF hi
  <2> QED BY <1>1, <2>1 DEF Above
<1>5. kind = "initial" => lo <= hi
  <2> SUFFICES ASSUME kind = "initial" PROVE lo <= hi
    OBVIOUS
  <2>1. hi = last /\ lo = Above(last, PageLimit) + 1
    OBVIOUS
  <2> HIDE DEF hi, lo
  <2> QED BY <1>1, <2>1 DEF Above
<1> HIDE DEF hi, lo
<1>6. lo > 1 \/ lo = 1
  BY <1>4
<1> DEFINE a == Answer(LogRange(lo, hi), lo > 1)
<1>7. a.at = "served" /\ a.msgs = LogRange(lo, hi) /\ a.more = (lo > 1)
  BY DEF Answer
<1>8. a \in Requests
  <2>1. (lo > 1) \in BOOLEAN
    OBVIOUS
  <2>2. LogRange(lo, hi) \in Messages
    BY <1>2, <1>4
  <2>3. a \in Answers
    BY <2>1, <2>2 DEF Answers, Answer
  <2> QED BY <2>3 DEF Requests
<1> HIDE DEF a
<1>9. Brings(kind, a)
  <2>1. /\ lo <= hi => a.msgs # <<>>
        /\ lo = 1 => a.msgs = <<>> \/ 1 \in Seqs(a.msgs)
    BY <1>2, <1>4, <1>7
  <2>2. kind # "send" /\ kind # "revoke"
    OBVIOUS
  <2> QED BY <1>5, <1>6, <1>7, <2>1, <2>2 DEF Brings
<1> QED BY <1>3, <1>8, <1>9 DEF a

-----------------------------------------------------------------------------
\* A window that follows keeps the invariant and its newest message.
LEMMA WindowStep ==
  ASSUME Follows(st, fetched', st')
  PROVE  WindowInv' /\ NewestKept
BY DEF Follows, WindowInv, HistoryReachable, NewestKept, Opens

\* What the invariant says of the window.
LEMMA WindowNow ==
  ASSUME MessagesInv
  PROVE  /\ WindowOK(st) /\ st \in States /\ (fetched => st.msgs # <<>> /\ Opens(st))
         /\ st.msgs \in Messages /\ Increasing(st.msgs) /\ st.page \in Pages
         /\ \A i \in DOMAIN st.msgs : st.msgs[i] \in Message
         /\ fetched \in BOOLEAN
<1>1. WindowOK(st) /\ (fetched => st.msgs # <<>> /\ Opens(st)) /\ fetched \in BOOLEAN
  BY DEF MessagesInv, MessagesShape, LogShape, WindowInv, HistoryReachable, Opens
<1>2. st \in States /\ st.msgs \in Messages /\ Increasing(st.msgs) /\ st.page \in Pages
  BY <1>1 DEF WindowOK, States
<1>3. \A i \in DOMAIN st.msgs : st.msgs[i] \in Message
  BY <1>2, LenProperties DEF Messages
<1> QED BY <1>1, <1>2, <1>3

\* What an answer that has been served holds.
LEMMA AnswerNow ==
  ASSUME MessagesInv, NEW kind \in Kinds, Answered(kind)
  PROVE  /\ flight[kind] \in Answers /\ flight[kind].msgs \in Messages
         /\ flight[kind].more \in BOOLEAN
         /\ \A i \in DOMAIN flight[kind].msgs : flight[kind].msgs[i] \in Message
         /\ flight[kind].at = "served" /\ Brings(kind, flight[kind])
<1>1. flight[kind] \in Requests /\ Brings(kind, flight[kind])
      /\ flight[kind].at = "served"
  BY DEF MessagesInv, MessagesShape, FlightShape, Answered
<1>2. flight[kind] \in Answers
  BY <1>1 DEF Requests, NoRequest
<1>3. flight[kind].msgs \in Messages /\ flight[kind].more \in BOOLEAN
  BY <1>2 DEF Answers
<1>4. \A i \in DOMAIN flight[kind].msgs : flight[kind].msgs[i] \in Message
  BY <1>3, LenProperties DEF Messages
<1> QED BY <1>1, <1>2, <1>3, <1>4

\* A step that changes flags only keeps the window, retained or compacted.
LEMMA FlagsOnly ==
  ASSUME MessagesInv, NEW x \in States, x.msgs = st.msgs, x.page = st.page
  PROVE  /\ Follows(st, fetched, x) /\ Follows(st, fetched, Retain(x))
         /\ Follows(st, fetched, Compact(x))
BY WindowNow, SameWindow

\* The initial page: more is before it, or it has the first message.
LEMMA InitialWindow ==
  ASSUME MessagesInv, InitialArrives
  PROVE  Follows(st, fetched', st')
<1> DEFINE a == flight["initial"]
<1> DEFINE msgs == Merge(st.msgs, a.msgs)
<1> DEFINE p == [known |-> TRUE, more |-> a.more, oldest |-> Oldest(a.msgs)]
<1> DEFINE x == [st EXCEPT !.loaded = TRUE, !.loading = FALSE, !.msgs = msgs, !.page = p]
<1>1. Answered("initial") /\ st' = Retain(x) /\ fetched' = TRUE
  BY DEF InitialArrives
<1>2. /\ a.msgs \in Messages /\ a.more \in BOOLEAN /\ a.msgs # <<>>
      /\ a.more \/ 1 \in Seqs(a.msgs)
  BY <1>1, AnswerNow DEF Kinds, Brings
<1>3. /\ msgs \in Messages /\ msgs # <<>>
      /\ 1 \in Seqs(a.msgs) => Oldest(msgs) = 1
  BY <1>2, WindowNow, MergeEnds
<1>4. st \in States /\ WindowOK(st)
  BY WindowNow
<1>5. p \in Pages /\ p.known = TRUE /\ p.more = a.more
  <2>1. Oldest(a.msgs) \in 0..LastSeq
    <3>2. CASE a.msgs = <<>>
      BY <1>2, <3>2
    <3>3. CASE a.msgs # <<>>
      <4>1. /\ Len(a.msgs) \in Nat /\ Len(a.msgs) # 0 /\ DOMAIN a.msgs = 1..Len(a.msgs)
        BY <1>2, LenProperties, EmptySeq DEF Messages
      <4>2. a.msgs[1] \in Message
        BY <1>1, <4>1, AnswerNow DEF Kinds
      <4>3. Oldest(a.msgs) = a.msgs[1].seq
        BY <3>3 DEF Oldest
      <4> HIDE DEF a
      <4> QED BY <4>2, <4>3, MessagesAssumption DEF Message
    <3> QED BY <3>2, <3>3
  <2> HIDE DEF a
  <2> QED BY <1>2, <2>1 DEF Pages
<1> HIDE DEF p, msgs
<1>6. x \in States /\ x.msgs = msgs /\ x.page = p
  BY <1>3, <1>4, <1>5 DEF States
<1> HIDE DEF x, a
<1>7. x.msgs # <<>> /\ Opens(x)
  BY <1>2, <1>3, <1>5, <1>6 DEF Opens
<1>8. x.msgs = Merge(st.msgs, a.msgs)
  BY <1>6 DEF msgs
<1> QED BY <1>1, <1>2, <1>4, <1>5, <1>6, <1>7, <1>8, MergedWindow

\* An older page: more is before it, or it has the first message, or it is
\* empty and the history is open only if the window starts with that message.
LEMMA BeforeWindow ==
  ASSUME MessagesInv, BeforeArrives
  PROVE  Follows(st, fetched', st')
<1> DEFINE a == flight["before"]
<1> DEFINE msgs == Merge(st.msgs, a.msgs)
<1> DEFINE p == [known |-> TRUE, more |-> a.more, oldest |-> Oldest(msgs)]
<1> DEFINE x == [st EXCEPT !.loaded = TRUE, !.loadingBefore = FALSE,
                           !.msgs = msgs, !.page = p]
<1>1. /\ Answered("before") /\ st' = Retain(x)
      /\ fetched' = (fetched /\ (a.msgs = <<>> => Oldest(st.msgs) <= 1))
  BY DEF BeforeArrives
<1>2. /\ a.msgs \in Messages /\ a.more \in BOOLEAN
      /\ a.msgs = <<>> \/ a.more \/ 1 \in Seqs(a.msgs)
  BY <1>1, AnswerNow DEF Kinds, Brings
<1>3. /\ msgs \in Messages /\ Oldest(msgs) \in 0..LastSeq
      /\ msgs = <<>> <=> st.msgs = <<>> /\ a.msgs = <<>>
      /\ a.msgs = <<>> => msgs = st.msgs
      /\ 1 \in Seqs(a.msgs) => Oldest(msgs) = 1
  BY <1>2, WindowNow, MergeEnds
<1>4. st \in States /\ WindowOK(st) /\ (fetched => st.msgs # <<>>)
  BY WindowNow
<1>5. p \in Pages /\ p.known = TRUE /\ p.more = a.more
  <2> HIDE DEF a, msgs
  <2> QED BY <1>2, <1>3 DEF Pages
<1> HIDE DEF p, msgs
<1>6. x \in States /\ x.msgs = msgs /\ x.page = p
  BY <1>3, <1>4, <1>5 DEF States
<1>7. st.msgs # <<>> /\ Oldest(st.msgs) <= 1 => Oldest(st.msgs) = 1
  <2>1. st.msgs # <<>> => Oldest(st.msgs) \in 1..LastSeq
    BY WindowNow, EndsFacts, SeqsFacts
  <2> QED BY <2>1, MessagesAssumption
<1> HIDE DEF x, a
<1>8. fetched' => x.msgs # <<>> /\ Opens(x)
  BY <1>1, <1>2, <1>3, <1>4, <1>5, <1>6, <1>7 DEF Opens
<1>9. x.msgs = Merge(st.msgs, a.msgs)
  BY <1>6 DEF msgs
<1> QED BY <1>1, <1>2, <1>4, <1>5, <1>6, <1>8, <1>9, MergedWindow

\* A newer page: what was before the window still is.
LEMMA AfterWindow ==
  ASSUME MessagesInv, AfterArrives
  PROVE  Follows(st, fetched', st')
<1> DEFINE a == flight["after"]
<1> DEFINE msgs == Merge(st.msgs, a.msgs)
<1> DEFINE more == IF st.page.known THEN st.page.more ELSE a.more
<1> DEFINE p == [known |-> TRUE, more |-> more, oldest |-> Oldest(msgs)]
<1> DEFINE x == [st EXCEPT !.msgs = msgs, !.page = p]
<1>1. Answered("after") /\ st' = Retain(x) /\ fetched' = fetched
  BY DEF AfterArrives
<1>2. a.msgs \in Messages /\ a.more \in BOOLEAN
  BY <1>1, AnswerNow DEF Kinds
<1>3. /\ msgs \in Messages /\ Oldest(msgs) \in 0..LastSeq
      /\ msgs = <<>> <=> st.msgs = <<>> /\ a.msgs = <<>>
      /\ st.msgs # <<>> /\ Oldest(st.msgs) = 1 => Oldest(msgs) = 1
  BY <1>2, WindowNow, MergeEnds
<1>4. /\ st \in States /\ WindowOK(st) /\ (fetched => st.msgs # <<>> /\ Opens(st))
      /\ st.page \in Pages /\ (st.page.more => st.page.known)
  BY WindowNow DEF WindowOK
<1>5. more \in BOOLEAN /\ (st.page.more => more)
  <2> HIDE DEF a
  <2> QED BY <1>2, <1>4 DEF Pages
<1> HIDE DEF more
<1>6. p \in Pages /\ p.known = TRUE /\ p.more = more
  <2> HIDE DEF msgs
  <2> QED BY <1>3, <1>5 DEF Pages
<1> HIDE DEF p, msgs
<1>7. x \in States /\ x.msgs = msgs /\ x.page = p
  BY <1>3, <1>4, <1>6 DEF States
<1> HIDE DEF x, a
<1>8. fetched => x.msgs # <<>> /\ Opens(x)
  BY <1>3, <1>4, <1>5, <1>6, <1>7 DEF Opens
<1>9. x.msgs = Merge(st.msgs, a.msgs)
  BY <1>7 DEF msgs
<1> QED BY <1>1, <1>2, <1>4, <1>6, <1>7, <1>8, <1>9, MergedWindow

\* The answer to a message of the user's own.
LEMMA SendWindow ==
  ASSUME MessagesInv, SendArrives
  PROVE  Follows(st, fetched', st')
<1> DEFINE m == flight["send"].msgs[1]
<1> DEFINE w == MergeOne(st, m, TRUE)
<1> DEFINE x == [w EXCEPT !.sending = FALSE]
<1>1. Answered("send") /\ st' = x /\ fetched' = fetched
  BY DEF SendArrives
<1>2. m \in Message
  <2>1. /\ flight["send"].msgs \in Messages /\ Len(flight["send"].msgs) = 1
        /\ \A i \in DOMAIN flight["send"].msgs : flight["send"].msgs[i] \in Message
    BY <1>1, AnswerNow DEF Kinds, Brings
  <2>2. DOMAIN flight["send"].msgs = 1..1
    BY <2>1, LenProperties DEF Messages
  <2> QED BY <2>1, <2>2
<1> HIDE DEF m
<1>3. WindowOK(st) /\ (fetched => st.msgs # <<>> /\ Opens(st))
  BY WindowNow
<1>4. Follows(st, fetched, w)
  BY <1>2, <1>3, OneMerged
<1> HIDE DEF w
<1>5. w \in States /\ WindowOK(w) /\ (fetched => w.msgs # <<>> /\ Opens(w))
  BY <1>4 DEF Follows, WindowOK
<1>6. x \in States /\ x.msgs = w.msgs /\ x.page = w.page
  BY <1>5 DEF States
<1> HIDE DEF x
<1>7. Follows(w, fetched, x)
  BY <1>5, <1>6, SameWindow
<1> QED BY <1>1, <1>3, <1>4, <1>7, FollowsOn

\* The answer to a revocation: the revoked message and a system message.
LEMMA RevokeWindow ==
  ASSUME MessagesInv, RevokeArrives
  PROVE  Follows(st, fetched', st')
<1> DEFINE a == flight["revoke"].msgs
<1> DEFINE w == MergeOne(st, a[1], TRUE)
<1> DEFINE x == MergeOne(w, a[2], TRUE)
<1>1. Answered("revoke") /\ st' = x /\ fetched' = fetched
  BY DEF RevokeArrives
<1>2. a[1] \in Message /\ a[2] \in Message
  <2>1. /\ a \in Messages /\ Len(a) = 2 /\ \A i \in DOMAIN a : a[i] \in Message
    BY <1>1, AnswerNow DEF Kinds, Brings
  <2>2. DOMAIN a = 1..2
    BY <2>1, LenProperties DEF Messages
  <2> HIDE DEF a
  <2> QED BY <2>1, <2>2
<1> HIDE DEF a
<1>3. WindowOK(st) /\ (fetched => st.msgs # <<>> /\ Opens(st))
  BY WindowNow
<1>4. Follows(st, fetched, w)
  BY <1>2, <1>3, OneMerged
<1> HIDE DEF w
<1>5. WindowOK(w) /\ (fetched => w.msgs # <<>> /\ Opens(w))
  BY <1>4 DEF Follows
<1>6. Follows(w, fetched, x)
  BY <1>2, <1>5, OneMerged
<1> HIDE DEF x
<1> QED BY <1>1, <1>3, <1>4, <1>6, FollowsOn

\* An event.
LEMMA EventWindow ==
  ASSUME MessagesInv, EventArrives
  PROVE  Follows(st, fetched', st')
<1>1. PICK e \in notices :
        /\ IF e.name = "created" THEN OnCreated(e.msg) ELSE OnUpdated(e.msg)
        /\ fetched' = fetched
  BY DEF EventArrives
<1> DEFINE m == e.msg
<1>2. m \in Message
  BY DEF MessagesInv, MessagesShape, LogShape
<1> HIDE DEF m
<1>3. /\ WindowOK(st) /\ st \in States /\ (fetched => st.msgs # <<>> /\ Opens(st))
  BY WindowNow
<1>4. Follows(st, fetched, st)
  BY <1>3, SameWindow
<1>5. CASE e.name = "created"
  <2>1. st' = MergeOne(st, m, FALSE) \/ st' = st
    BY <1>1, <1>5 DEF OnCreated, m
  <2>2. Follows(st, fetched, MergeOne(st, m, FALSE))
    BY <1>2, <1>3, OneMerged
  <2> QED BY <1>1, <1>4, <2>1, <2>2
<1>6. CASE e.name # "created"
  <2> DEFINE msgs == Merge(st.msgs, <<m>>)
  <2> DEFINE p == PageWith(st.page, msgs)
  <2> DEFINE l == st.loaded
  <2> DEFINE x == [st EXCEPT !.msgs = msgs, !.page = p]
  <2> DEFINE y == [st EXCEPT !.msgs = msgs, !.loaded = l, !.page = p]
  <2>1. st' = x \/ st' = st
    BY <1>1, <1>6 DEF OnUpdated, m
  <2>2. l \in BOOLEAN
    BY <1>3 DEF States
  <2>3. x = y
    <3> HIDE DEF p, msgs
    <3> QED BY <1>3 DEF States
  <2> HIDE DEF l
  <2>4. Follows(st, fetched, y)
    BY <1>2, <1>3, <2>2, OneMessage
  <2> HIDE DEF x, y
  <2> QED BY <1>1, <1>4, <2>1, <2>3, <2>4
<1> QED BY <1>5, <1>6

\* A failed request resets the flags of its kind.
LEMMA FailWindow ==
  ASSUME MessagesInv, NEW kind \in Kinds, RequestFails(kind)
  PROVE  Follows(st, fetched', st')
<1> DEFINE i == [st EXCEPT !.loaded = FALSE, !.loading = FALSE]
<1> DEFINE b == [st EXCEPT !.loadingBefore = FALSE]
<1> DEFINE s == [st EXCEPT !.sending = FALSE]
<1>1. st \in States
  BY WindowNow
<1>2. /\ fetched' = fetched
      /\ st' = Retain(i) \/ st' = Retain(b) \/ st' = Retain(s) \/ st' = st
  BY DEF RequestFails
<1>3. i \in States /\ i.msgs = st.msgs /\ i.page = st.page
  BY <1>1 DEF States
<1>4. b \in States /\ b.msgs = st.msgs /\ b.page = st.page
  BY <1>1 DEF States
<1>5. s \in States /\ s.msgs = st.msgs /\ s.page = st.page
  BY <1>1 DEF States
<1> HIDE DEF i, b, s
<1> QED BY <1>1, <1>2, <1>3, <1>4, <1>5, FlagsOnly

\* The requests that leave, and compaction of an open window.
LEMMA OpenWindow ==
  ASSUME MessagesInv,
         OpenView \/ CloseView \/ CompactView \/ LoadBefore \/ SendText
  PROVE  Follows(st, fetched', st')
<1> DEFINE i == [st EXCEPT !.loading = TRUE]
<1> DEFINE b == [st EXCEPT !.loadingBefore = TRUE]
<1> DEFINE s == [st EXCEPT !.sending = TRUE]
<1>1. st \in States
  BY WindowNow
<1>2. /\ fetched' = fetched
      /\ \/ st' = i \/ st' = Retain(b) \/ st' = Retain(s)
         \/ st' = st \/ st' = Compact(st)
  BY DEF OpenView, CloseView, CompactView, LoadBefore, SendText
<1>3. i \in States /\ i.msgs = st.msgs /\ i.page = st.page
  BY <1>1 DEF States
<1>4. b \in States /\ b.msgs = st.msgs /\ b.page = st.page
  BY <1>1 DEF States
<1>5. s \in States /\ s.msgs = st.msgs /\ s.page = st.page
  BY <1>1 DEF States
<1> HIDE DEF i, b, s
<1> QED BY <1>1, <1>2, <1>3, <1>4, <1>5, FlagsOnly

\* Every step keeps the window in order, its newest message and its history.
LEMMA WindowKept ==
  ASSUME MessagesInv, [WebMessagesNext]_wmVars
  PROVE  WindowInv' /\ NewestKept
<1>1. CASE \/ OthersWrite \/ OthersRevoke \/ ServeMessages \/ ServeSend \/ ServeRevoke
           \/ Revoke \/ GoOffline \/ GoOnline \/ UNCHANGED wmVars
  <2>1. st' = st /\ fetched' = fetched
    BY <1>1 DEF OthersWrite, OthersRevoke, ServeMessages, ServeSend, ServeRevoke, Revoke,
         GoOffline, GoOnline, wmVars
  <2>2. Follows(st, fetched, st)
    BY WindowNow, FlagsOnly
  <2>3. Follows(st, fetched', st')
    BY <2>1, <2>2
  <2> QED BY <2>3, WindowStep
<1>2. CASE OpenView \/ CloseView \/ CompactView \/ LoadBefore \/ SendText
  BY <1>2, OpenWindow, WindowStep
<1>3. CASE InitialArrives
  BY <1>3, InitialWindow, WindowStep
<1>4. CASE BeforeArrives
  BY <1>4, BeforeWindow, WindowStep
<1>5. CASE AfterArrives
  BY <1>5, AfterWindow, WindowStep
<1>6. CASE SendArrives
  BY <1>6, SendWindow, WindowStep
<1>7. CASE RevokeArrives
  BY <1>7, RevokeWindow, WindowStep
<1>8. CASE \E kind \in Kinds : RequestFails(kind)
  BY <1>8, FailWindow, WindowStep
<1>9. CASE EventArrives
  BY <1>9, EventWindow, WindowStep
<1> QED BY <1>1, <1>2, <1>3, <1>4, <1>5, <1>6, <1>7, <1>8, <1>9 DEF WebMessagesNext

-----------------------------------------------------------------------------
\* One request changes; the others are what they were.
LEMMA FlightTo ==
  ASSUME MessagesInv, NEW kind \in Kinds, NEW q \in Requests, Brings(kind, q),
         kind = "revoke" /\ q.at = "left" => q.arg # 0,
         flight' = [flight EXCEPT ![kind] = q]
  PROVE  FlightShape'
<1>1. /\ flight \in [Kinds -> Requests]
      /\ flight["revoke"].at = "left" => flight["revoke"].arg # 0
      /\ \A k \in Kinds : Brings(k, flight[k])
  BY DEF MessagesInv, MessagesShape, FlightShape
<1>2. flight' \in [Kinds -> Requests]
  BY <1>1
<1>3. \A k \in Kinds : flight'[k] = IF k = kind THEN q ELSE flight[k]
  BY <1>1
<1>4. flight'["revoke"].at = "left" => flight'["revoke"].arg # 0
  BY <1>1, <1>3 DEF Kinds
<1>5. \A k \in Kinds : Brings(k, flight'[k])
  BY <1>1, <1>3
<1> QED BY <1>2, <1>4, <1>5 DEF FlightShape

\* No request changes.
LEMMA FlightSame ==
  ASSUME MessagesInv, flight' = flight
  PROVE  FlightShape'
BY DEF MessagesInv, MessagesShape, FlightShape

\* A request leaves.
LEMMA FlightLeaves ==
  ASSUME MessagesInv, NEW kind \in Kinds, NEW n \in 0..LastSeq, Leaves(kind, n),
         kind = "revoke" => n # 0
  PROVE  FlightShape'
<1>1. Asked(n) \in Requests /\ Asked(n).at = "left" /\ Asked(n).arg = n
  BY DEF Asked, Requests
<1>2. flight' = [flight EXCEPT ![kind] = Asked(n)]
  BY DEF Leaves
<1>3. Brings(kind, Asked(n))
  BY <1>1 DEF Brings
<1> HIDE DEF Asked
<1> QED BY <1>1, <1>2, <1>3, FlightTo

\* A request ends.
LEMMA FlightEnds ==
  ASSUME MessagesInv, NEW kind \in Kinds, Ends(kind)
  PROVE  FlightShape'
<1>1. /\ NoRequest \in Requests /\ NoRequest.at # "left"
      /\ Brings(kind, NoRequest)
  BY DEF NoRequest, Requests, Brings
<1>2. flight' = [flight EXCEPT ![kind] = NoRequest]
  BY DEF Ends
<1> QED BY <1>1, <1>2, FlightTo

\* Events are handled or lost, and nothing is written.
LEMMA LogSame ==
  ASSUME MessagesInv, view' \in BOOLEAN, fetched' \in BOOLEAN, log' = log,
         notices' \subseteq notices
  PROVE  LogShape'
BY DEF MessagesInv, MessagesShape, LogShape

\* The log grows or a message is revoked, and an event is published.
LEMMA LogTo ==
  ASSUME MessagesInv, log' \in Logs, UNCHANGED <<view, fetched>>,
         NEW M, M \subseteq Message, \A e \in notices' \ notices : e.msg \in M
  PROVE  LogShape'
BY DEF MessagesInv, MessagesShape, LogShape

\* The message that is written next.
LEMMA NextMessage ==
  ASSUME MessagesInv, log.last < LastSeq
  PROVE  /\ log.last + 1 \in First..LastSeq /\ log.last + 1 \in 1..LastSeq
         /\ [seq |-> log.last + 1, revoked |-> FALSE] \in Message
<1>1. log.last + 1 \in First..LastSeq /\ log.last + 1 \in 1..LastSeq
  BY MessagesAssumption DEF MessagesInv, MessagesShape, LogShape, Logs
<1> QED BY <1>1 DEF Message

\* The server carries out a request of the user's own.
LEMMA ShapeServed ==
  ASSUME MessagesInv, ServeSend \/ ServeRevoke
  PROVE  MessagesShape'
<1> DEFINE n == log.last + 1
<1> DEFINE new == [seq |-> n, revoked |-> FALSE]
<1>1. log.last < LastSeq /\ UNCHANGED <<view, fetched>>
  BY DEF ServeSend, ServeRevoke
<1>2. n \in First..LastSeq /\ new \in Message
  BY <1>1, NextMessage
<1> HIDE DEF n, new
<1>3. CASE ServeSend
  <2>1. /\ log' = [log EXCEPT !.last = n]
        /\ notices' \subseteq notices \cup {[name |-> "created", msg |-> new]}
        /\ flight' = [flight EXCEPT !["send"] = Answer(<<new>>, FALSE)]
    BY <1>3 DEF ServeSend, Publish, new, n
  <2>2. log' \in Logs
    BY <1>2, <2>1 DEF MessagesInv, MessagesShape, LogShape, Logs
  <2>3. \A e \in notices' \ notices : e.msg \in {new}
    BY <2>1
  <2>4. LogShape'
    BY <1>1, <1>2, <2>2, <2>3, LogTo
  <2> DEFINE a == Answer(<<new>>, FALSE)
  <2>5. a \in Requests /\ a.at = "served" /\ a.msgs = <<new>>
    BY <1>2 DEF Requests, Answers, Answer, Messages
  <2> HIDE DEF a
  <2>6. Brings("send", a)
    BY <2>5 DEF Brings
  <2>7. FlightShape'
    <3>1. flight' = [flight EXCEPT !["send"] = a]
      BY <2>1 DEF a
    <3> QED BY <2>5, <2>6, <3>1, FlightTo DEF Kinds
  <2> QED BY <2>4, <2>7 DEF MessagesShape
<1>4. CASE ServeRevoke
  <2> DEFINE old == [seq |-> flight["revoke"].arg, revoked |-> TRUE]
  <2> DEFINE updated == [name |-> "updated", msg |-> old]
  <2> DEFINE created == [name |-> "created", msg |-> new]
  <2>1. /\ flight["revoke"].at = "left"
        /\ log' = [last |-> n, revoked |-> log.revoked \cup {old.seq}]
        /\ notices' \subseteq notices \cup {updated, created}
        /\ flight' = [flight EXCEPT !["revoke"] = Answer(<<old, new>>, FALSE)]
    BY <1>4 DEF ServeRevoke, new, n
  <2>2. old \in Message /\ old.seq \in 1..LastSeq
    <3>1. flight["revoke"] \in Requests /\ flight["revoke"].arg # 0
      BY <2>1 DEF MessagesInv, MessagesShape, FlightShape, Kinds
    <3>2. flight["revoke"].arg \in 0..LastSeq
      BY <2>1, <3>1 DEF Requests, NoRequest, Answers
    <3>3. flight["revoke"].arg \in 1..LastSeq
      BY <3>1, <3>2, MessagesAssumption
    <3> QED BY <3>3 DEF Message
  <2> HIDE DEF old
  <2>3. \A e \in notices' \ notices : e.msg \in {old, new}
    BY <2>1
  <2>4. LogShape'
    <3>1. log.revoked \subseteq 1..LastSeq
      BY DEF MessagesInv, MessagesShape, LogShape, Logs
    <3>2. log' \in Logs
      BY <1>2, <2>1, <2>2, <3>1 DEF Logs
    <3> QED BY <1>1, <1>2, <2>2, <2>3, <3>2, LogTo
  <2> DEFINE a == Answer(<<old, new>>, FALSE)
  <2>5. a \in Requests /\ a.at = "served" /\ a.msgs = <<old, new>>
    BY <1>2, <2>2 DEF Requests, Answers, Answer, Messages
  <2>6. Len(<<old, new>>) = 2
    OBVIOUS
  <2> HIDE DEF a
  <2>7. Brings("revoke", a)
    BY <2>5, <2>6 DEF Brings
  <2>8. FlightShape'
    <3>1. flight' = [flight EXCEPT !["revoke"] = a]
      BY <2>1 DEF a
    <3> QED BY <2>5, <2>7, <3>1, FlightTo DEF Kinds
  <2> QED BY <2>4, <2>8 DEF MessagesShape
<1> QED BY <1>3, <1>4

\* Somebody else writes or revokes.
LEMMA ShapeOthers ==
  ASSUME MessagesInv, OthersWrite \/ OthersRevoke
  PROVE  MessagesShape'
<1>1. flight' = flight /\ UNCHANGED <<view, fetched>>
  BY DEF OthersWrite, OthersRevoke
<1>2. log.last \in First..LastSeq /\ log.revoked \subseteq 1..LastSeq /\ log \in Logs
  BY DEF MessagesInv, MessagesShape, LogShape, Logs
<1>3. CASE OthersWrite
  <2> DEFINE n == log.last + 1
  <2> DEFINE new == [seq |-> n, revoked |-> FALSE]
  <2>1. /\ log.last < LastSeq /\ log' = [log EXCEPT !.last = n]
        /\ notices' \subseteq notices \cup {[name |-> "created", msg |-> new]}
    BY <1>3 DEF OthersWrite, Publish
  <2>2. n \in First..LastSeq /\ new \in Message
    BY <2>1, NextMessage
  <2> HIDE DEF n, new
  <2>3. log' \in Logs
    BY <1>2, <2>1, <2>2 DEF Logs
  <2>4. \A e \in notices' \ notices : e.msg \in {new}
    BY <2>1
  <2> QED BY <1>1, <2>2, <2>3, <2>4, LogTo, FlightSame DEF MessagesShape
<1>4. CASE OthersRevoke
  <2>1. PICK n \in (1..log.last) \ log.revoked :
          /\ log' = [log EXCEPT !.revoked = @ \cup {n}]
          /\ notices' = Publish("updated", [seq |-> n, revoked |-> TRUE])
    BY <1>4 DEF OthersRevoke
  <2> DEFINE old == [seq |-> n, revoked |-> TRUE]
  <2>2. n \in 1..LastSeq /\ old \in Message
    BY <1>2, MessagesAssumption DEF Message
  <2>3. notices' \subseteq notices \cup {[name |-> "updated", msg |-> old]}
    BY <2>1 DEF Publish
  <2> HIDE DEF old
  <2>4. log' \in Logs
    BY <1>2, <2>1, <2>2 DEF Logs
  <2>5. \A e \in notices' \ notices : e.msg \in {old}
    BY <2>3
  <2> QED BY <1>1, <2>2, <2>4, <2>5, LogTo, FlightSame DEF MessagesShape
<1> QED BY <1>3, <1>4

\* The requests that leave, and the others that only the client takes.
LEMMA ShapeLeft ==
  ASSUME MessagesInv,
         \/ OpenView \/ CloseView \/ CompactView \/ LoadBefore \/ SendText \/ Revoke
         \/ EventArrives \/ GoOffline \/ GoOnline
  PROVE  MessagesShape'
<1>1. LogShape'
  <2>1. fetched' = fetched /\ log' = log /\ notices' \subseteq notices
    BY DEF OpenView, CloseView, CompactView, LoadBefore, SendText, Revoke, EventArrives,
       GoOffline, GoOnline
  <2>2. view' \in {view, TRUE, FALSE}
    BY DEF OpenView, CloseView, CompactView, LoadBefore, SendText, Revoke, EventArrives,
       GoOffline, GoOnline
  <2>3. view' \in BOOLEAN /\ fetched' \in BOOLEAN
    BY <2>1, <2>2 DEF MessagesInv, MessagesShape, LogShape
  <2> QED BY <2>1, <2>3, LogSame
<1>2. FlightShape'
  <2>1. 0 \in 0..LastSeq /\ Newest(st.msgs) \in 0..LastSeq /\ st.page.oldest \in 0..LastSeq
    BY WindowNow, EndsFacts, MessagesAssumption DEF Pages
  <2>2. CASE flight' = flight
    BY <2>2, FlightSame
  <2>3. CASE \/ Leaves("initial", 0) \/ Leaves("before", st.page.oldest)
             \/ Leaves("send", 0) \/ Leaves("after", Newest(st.msgs))
    BY <2>1, <2>3, FlightLeaves DEF Kinds
  <2>4. CASE Revoke
    <3>1. PICK m \in {st.msgs[i] : i \in DOMAIN st.msgs} : Leaves("revoke", m.seq)
      BY <2>4 DEF Revoke
    <3>2. m \in Message
      BY WindowNow
    <3>3. m.seq \in 0..LastSeq /\ m.seq # 0
      BY <3>2, MessagesAssumption DEF Message
    <3> QED BY <3>1, <3>3, FlightLeaves DEF Kinds
  <2> QED BY <2>2, <2>3, <2>4 DEF OpenView, CloseView, CompactView, LoadBefore, SendText,
             EventArrives, GoOffline, GoOnline, SyncLoaded
<1> QED BY <1>1, <1>2 DEF MessagesShape

\* The requests that end, with an answer or without.
LEMMA ShapeEnded ==
  ASSUME MessagesInv,
         \/ InitialArrives \/ BeforeArrives \/ AfterArrives \/ SendArrives
         \/ RevokeArrives \/ \E kind \in Kinds : RequestFails(kind)
  PROVE  MessagesShape'
<1>1. LogShape'
  <2>1. UNCHANGED <<log, notices, view>>
    BY DEF InitialArrives, BeforeArrives, AfterArrives, SendArrives, RevokeArrives,
       RequestFails, Kept
  <2>2. fetched' \in BOOLEAN
    <3>1. fetched \in BOOLEAN
      BY WindowNow
    <3>2. CASE BeforeArrives
      <4>1. \E b \in BOOLEAN : fetched' = (fetched /\ b)
        <5> DEFINE b == (flight["before"].msgs = <<>> => Oldest(st.msgs) <= 1)
        <5>1. fetched' = (fetched /\ b)
          BY <3>2 DEF BeforeArrives
        <5>2. b \in BOOLEAN
          OBVIOUS
        <5> QED BY <5>1, <5>2
      <4> QED BY <3>1, <4>1
    <3>3. CASE ~BeforeArrives
      <4>1. fetched' = fetched \/ fetched' = TRUE
        BY <3>3 DEF InitialArrives, AfterArrives, SendArrives, RevokeArrives, RequestFails
      <4> QED BY <3>1, <4>1
    <3> QED BY <3>2, <3>3
  <2>3. view' \in BOOLEAN
    BY <2>1 DEF MessagesInv, MessagesShape, LogShape
  <2> QED BY <2>1, <2>2, <2>3, LogSame
<1>2. FlightShape'
  <2>1. \E kind \in Kinds : Ends(kind)
    BY DEF InitialArrives, BeforeArrives, AfterArrives, SendArrives, RevokeArrives,
       RequestFails, Kinds
  <2> QED BY <2>1, FlightEnds
<1> QED BY <1>1, <1>2 DEF MessagesShape

\* The server answers with a page.
LEMMA ShapePage ==
  ASSUME MessagesInv, ServeMessages
  PROVE  MessagesShape'
<1>1. PICK kind \in {"initial", "before", "after"} :
        /\ flight[kind].at = "left"
        /\ flight' = [flight EXCEPT ![kind] = PageAnswer(kind, @.arg)]
  BY DEF ServeMessages
<1>2. UNCHANGED <<log, notices, view, fetched>>
  BY DEF ServeMessages
<1>3. LogShape'
  <2>1. view' \in BOOLEAN /\ fetched' \in BOOLEAN
    BY <1>2 DEF MessagesInv, MessagesShape, LogShape
  <2> QED BY <1>2, <2>1, LogSame
<1>4. kind \in Kinds /\ kind # "revoke" /\ flight[kind].arg \in 0..LastSeq
  <2>1. kind \in Kinds /\ kind # "revoke"
    BY DEF Kinds
  <2>2. flight[kind] \in Requests
    BY <2>1 DEF MessagesInv, MessagesShape, FlightShape
  <2>3. flight[kind].arg \in 0..LastSeq
    BY <1>1, <2>2 DEF Requests, NoRequest, Answers
  <2> QED BY <2>1, <2>3
<1> DEFINE a == PageAnswer(kind, flight[kind].arg)
<1>5. a \in Requests /\ Brings(kind, a)
  <2>1. MessagesShape
    BY DEF MessagesInv
  <2> QED BY <1>4, <2>1, PageAnswers
<1>6. flight' = [flight EXCEPT ![kind] = a]
  BY <1>1
<1> HIDE DEF a
<1>7. FlightShape'
  BY <1>4, <1>5, <1>6, FlightTo
<1> QED BY <1>3, <1>7 DEF MessagesShape

\* Every step keeps the types and what answers bring.
LEMMA ShapeKept ==
  ASSUME MessagesInv, [WebMessagesNext]_wmVars
  PROVE  MessagesShape'
<1>1. CASE UNCHANGED wmVars
  BY <1>1 DEF wmVars, MessagesInv, MessagesShape, LogShape, FlightShape
<1> QED BY <1>1, ShapeServed, ShapeOthers, ShapeLeft, ShapeEnded, ShapePage
        DEF WebMessagesNext

\* The first state.
LEMMA MessagesInitially ==
  ASSUME WebMessagesInit
  PROVE  MessagesInv
<1> DEFINE s == [loaded |-> FALSE, loading |-> FALSE, loadingBefore |-> FALSE,
                 sending |-> FALSE, msgs |-> <<>>, page |-> NoPage]
<1>1. st = s /\ fetched = FALSE
  BY DEF WebMessagesInit
<1>2. NoPage \in Pages /\ NoPage.more = FALSE
  BY MessagesAssumption DEF NoPage, Pages
<1>3. s \in States /\ s.msgs = <<>> /\ s.page = NoPage
  <2>1. <<>> \in Messages
    BY EmptySeq DEF Messages
  <2> HIDE DEF Messages
  <2> QED BY <1>2, <2>1 DEF States
<1>4. Increasing(<<>>)
  <2>1. DOMAIN <<>> = {}
    BY EmptySeq
  <2> QED BY <2>1 DEF Increasing
<1> HIDE DEF s
<1>5. WindowInv
  BY <1>1, <1>2, <1>3, <1>4 DEF WindowInv, WindowOK, HistoryReachable
<1>6. LogShape
  <2>1. First \in First..LastSeq
    BY MessagesAssumption
  <2>2. [last |-> First, revoked |-> {}] \in Logs
    BY <2>1 DEF Logs
  <2>3. log \in Logs /\ notices = {} /\ view = FALSE /\ fetched = FALSE
    BY <2>2 DEF WebMessagesInit
  <2> QED BY <2>3 DEF LogShape
<1>7. FlightShape
  <2>1. flight = [k \in Kinds |-> NoRequest] /\ NoRequest \in Requests
    BY DEF WebMessagesInit, Requests
  <2>2. NoRequest.at = "idle"
    BY DEF NoRequest
  <2>3. \A k \in Kinds : Brings(k, NoRequest)
    BY <2>2 DEF Brings
  <2>4. flight["revoke"] = NoRequest
    BY <2>1 DEF Kinds
  <2> HIDE DEF NoRequest
  <2> QED BY <2>1, <2>2, <2>3, <2>4 DEF FlightShape
<1> QED BY <1>5, <1>6, <1>7 DEF MessagesInv, MessagesShape

\* The invariant from which the two theorems follow.
THEOREM MessagesInductive == WebMessagesSpec => []MessagesInv
<1>1. MessagesInv /\ [WebMessagesNext]_wmVars => MessagesInv'
  BY ShapeKept, WindowKept DEF MessagesInv
<1> QED BY <1>1, MessagesInitially, PTL DEF WebMessagesSpec

\* Once an initial page has arrived, a window that does not start with the first
\* message can be scrolled back, however pages, events, answers, failures and
\* compaction interleave (client-data-state.ts, ClientDataProvider).
THEOREM HistoryStaysOpen == WebMessagesSpec => []HistoryReachable
<1>1. MessagesInv => HistoryReachable
  BY DEF MessagesInv, WindowInv
<1> QED BY <1>1, MessagesInductive, PTL

\* No page, event, answer or compaction takes the newest message out of the window
\* (mergeConversationMessages, compactConversationMessageState).
THEOREM NewestNeverLost == WebMessagesSpec => NewestStays
<1>1. MessagesInv /\ [WebMessagesNext]_wmVars => [NewestKept]_wmVars
  BY WindowKept
<1> QED BY <1>1, MessagesInductive, PTL DEF WebMessagesSpec, NewestStays

-----------------------------------------------------------------------------
(***************************************************************************)
(* Nothing is invented: whatever the window, the answers and the events on *)
(* their way say of a message, the log said before.                        *)
(***************************************************************************)
Logged(l, m) == m.seq <= l.last /\ (m.revoked => m.seq \in l.revoked)
Notices == [name : {"created", "updated"}, msg : Message]

WindowLogged(l, s) ==
    s.page.oldest <= l.last /\ \A m \in Range(s.msgs) : Logged(l, m)
NoticesLogged(l, es) == \A e \in es : e \in Notices /\ Logged(l, e.msg)
RequestLogged(l, q) ==
    /\ q.at = "left" => q.arg <= l.last
    /\ q.at = "served" => \A m \in Range(q.msgs) : Logged(l, m)

LoggedInv ==
    /\ log.revoked \subseteq 1..log.last
    /\ WindowLogged(log, st) /\ NoticesLogged(log, notices)
    /\ \A kind \in Kinds : RequestLogged(log, flight[kind])

(* A window x that is made of s and of messages ms.                        *)
Draws(s, ms, x) ==
    /\ Range(x.msgs) \subseteq Range(s.msgs) \cup ms
    /\ x.page.oldest \in {s.page.oldest, 0} \cup {m.seq : m \in Range(s.msgs) \cup ms}

\* Deduplication keeps some of the representations and adds none.
LEMMA DeduplicatedRange ==
  ASSUME NEW s \in Messages
  PROVE  Range(Deduplicate(s)) \subseteq Range(s)
<1> DEFINE S == Seqs(s)
<1> DEFINE N == Cardinality(S)
<1>1. \A k \in 1..N : Nth(S, k) \in S
  BY SeqsFacts, NthFacts
<1>2. Deduplicate(s) = [k \in 1..N |-> LatestOf(s, Nth(S, k))]
  BY DEF Deduplicate
<1> HIDE DEF N
<1>3. \A k \in 1..N : LatestOf(s, Nth(S, k)) \in Range(s)
  <2> HIDE DEF S
  <2> QED BY <1>1, LatestIsIn DEF S
<1> QED BY <1>2, <1>3 DEF Range

\* Merging adds the representations that arrive, and nothing else.
LEMMA MergedRange ==
  ASSUME NEW c \in Messages, NEW n \in Messages
  PROVE  Range(Merge(c, n)) \subseteq Range(c) \cup Range(n)
<1> DEFINE new == Deduplicate(n)
<1>1. new \in Messages /\ Range(new) \subseteq Range(n)
  BY DeduplicateFacts, DeduplicatedRange
<1>2. Merge(c, n) \in {c, new, c \o new, new \o c, Deduplicate(c \o new)}
  BY DEF Merge
<1> HIDE DEF new
<1>3. /\ c \o new \in Messages
      /\ Range(c \o new) = Range(c) \cup Range(new)
      /\ Range(new \o c) = Range(c) \cup Range(new)
  BY <1>1, ConcatProperties, RangeConcatenation DEF Messages
<1>4. Range(Deduplicate(c \o new)) \subseteq Range(c) \cup Range(new)
  BY <1>3, DeduplicatedRange
<1> QED BY <1>1, <1>2, <1>3, <1>4

\* Where a window starts.
LEMMA OldestIsOne ==
  ASSUME NEW s \in Messages
  PROVE  Oldest(s) \in {0} \cup {m.seq : m \in Range(s)}
<1>1. s # <<>> => 1 \in DOMAIN s
  BY LenProperties, EmptySeq DEF Messages
<1> QED BY <1>1 DEF Oldest, Range

\* One step after another.
LEMMA DrawsOn ==
  ASSUME NEW s, NEW x, NEW y, NEW ms, Draws(s, ms, x), Draws(x, ms, y)
  PROVE  Draws(s, ms, y)
BY DEF Draws

\* Compaction and retention leave messages out.
LEMMA RetainedDraws ==
  ASSUME NEW s, WindowOK(s), NEW ms
  PROVE  Draws(s, ms, s) /\ Draws(s, ms, Compact(s)) /\ Draws(s, ms, Retain(s))
<1> DEFINE n == Len(s.msgs)
<1> DEFINE kept == SubSeq(s.msgs, n - Retained + 1, n)
<1>1. s \in States /\ s.msgs \in Messages /\ Retained \in Nat \ {0}
  BY MessagesAssumption DEF WindowOK, States
<1>2. n \in Nat /\ DOMAIN s.msgs = 1..n /\ \A i \in 1..n : s.msgs[i] \in Message
  BY <1>1, LenProperties DEF Messages
<1>3. Draws(s, ms, s)
  BY DEF Draws
<1>4. CASE n <= Retained
  BY <1>3, <1>4 DEF Compact, Retain
<1>5. CASE ~(n <= Retained)
  <2> DEFINE lo == n - Retained + 1
  <2> DEFINE p == [known |-> TRUE, more |-> TRUE, oldest |-> Oldest(kept)]
  <2>1. Compact(s) = [s EXCEPT !.msgs = kept, !.page = p]
    BY <1>5 DEF Compact
  <2>2. lo \in 1..n
    BY <1>1, <1>2, <1>5
  <2>3. /\ kept \in Messages /\ Len(kept) = IF lo <= n THEN n - lo + 1 ELSE 0
        /\ \A i \in 1..n - lo + 1 : kept[i] = s.msgs[lo + i - 1]
    <3>1. \A i \in lo..n : s.msgs[i] \in Message
      <4> HIDE DEF n, lo
      <4> QED BY <1>2, <2>2
    <3> QED BY <1>1, <1>2, <2>2, <3>1, SubSeqProperties DEF Messages
  <2> HIDE DEF kept, lo, n
  <2>4. DOMAIN kept = 1..n - lo + 1
    <3>1. DOMAIN kept = 1..Len(kept) /\ lo <= n
      BY <1>2, <2>2, <2>3, LenProperties DEF Messages
    <3> QED BY <2>3, <3>1
  <2>5. \A i \in 1..n - lo + 1 : lo + i - 1 \in 1..n
    BY <1>2, <2>2
  <2>6. Range(kept) \subseteq Range(s.msgs)
    BY <1>2, <2>3, <2>4, <2>5 DEF Range
  <2>7. p.oldest \in {0} \cup {m.seq : m \in Range(kept)}
    BY <2>3, OldestIsOne
  <2> HIDE DEF p
  <2>8. Compact(s).msgs = kept /\ Compact(s).page = p
    BY <1>1, <2>1 DEF States
  <2>9. Draws(s, ms, Compact(s))
    BY <2>6, <2>7, <2>8 DEF Draws
  <2> QED BY <1>3, <2>9 DEF Retain
<1> QED BY <1>4, <1>5

\* A window with a page that starts it is made of what is merged.
LEMMA MergedDraws ==
  ASSUME NEW s, WindowOK(s), NEW n \in Messages, NEW ms, Range(n) \subseteq ms,
         NEW x, WindowOK(x), x.msgs = Merge(s.msgs, n),
         x.page.oldest \in {Oldest(x.msgs), Oldest(n)}
  PROVE  Draws(s, ms, x) /\ Draws(s, ms, Retain(x))
<1>1. s.msgs \in Messages /\ x.msgs \in Messages
  BY DEF WindowOK, States
<1>2. Range(x.msgs) \subseteq Range(s.msgs) \cup ms
  BY <1>1, MergedRange
<1>3. /\ Oldest(x.msgs) \in {0} \cup {m.seq : m \in Range(x.msgs)}
      /\ Oldest(n) \in {0} \cup {m.seq : m \in Range(n)}
  BY <1>1, OldestIsOne
<1>4. Draws(s, ms, x)
  BY <1>2, <1>3 DEF Draws
<1>5. Draws(x, ms, Retain(x))
  BY RetainedDraws
<1> QED BY <1>4, <1>5, DrawsOn

\* One message, merged with the page that starts the window.
LEMMA MessageDraws ==
  ASSUME NEW s \in States, NEW m \in Message, NEW ms, m \in ms, NEW l \in BOOLEAN,
         WindowOK(s),
         NEW x, x = [s EXCEPT !.msgs = Merge(s.msgs, <<m>>), !.loaded = l,
                              !.page = PageWith(s.page, Merge(s.msgs, <<m>>))],
         WindowOK(x)
  PROVE  Draws(s, ms, x) /\ Draws(s, ms, Retain(x))
<1> DEFINE msgs == Merge(s.msgs, <<m>>)
<1> DEFINE p == PageWith(s.page, msgs)
<1>1. <<m>> \in Messages /\ Range(<<m>>) \subseteq ms
  BY DEF Messages, Range
<1>2. p.oldest = Oldest(msgs)
  BY DEF PageWith
<1>3. x.msgs = msgs /\ x.page = p
  <2>1. x = [s EXCEPT !.msgs = msgs, !.loaded = l, !.page = p]
    OBVIOUS
  <2> HIDE DEF msgs, p
  <2> QED BY <2>1 DEF States
<1>4. x.page.oldest = Oldest(x.msgs)
  BY <1>2, <1>3
<1> QED BY <1>1, <1>3, <1>4, MergedDraws

\* So is what MergeOne makes of one message, and an update of one that is shown.
LEMMA OneDraws ==
  ASSUME NEW s, NEW m \in Message, NEW ms, m \in ms, NEW isLoaded \in BOOLEAN, WindowOK(s)
  PROVE  Draws(s, ms, MergeOne(s, m, isLoaded))
<1> DEFINE msgs == Merge(s.msgs, <<m>>)
<1> DEFINE p == PageWith(s.page, msgs)
<1> DEFINE l == s.loaded \/ isLoaded
<1> DEFINE x == [s EXCEPT !.msgs = msgs, !.loaded = l, !.page = p]
<1>1. MergeOne(s, m, isLoaded) = Retain(x)
  BY DEF MergeOne
<1>2. s \in States /\ l \in BOOLEAN
  <2>1. s \in States /\ s.loaded \in BOOLEAN
    BY DEF WindowOK, States
  <2> QED BY <2>1, Zenon
<1> HIDE DEF l
<1>3. WindowOK(x)
  <2>1. Follows(s, FALSE, x)
    BY <1>2, OneMessage
  <2> HIDE DEF x
  <2> QED BY <2>1 DEF Follows
<1> QED BY <1>1, <1>2, <1>3, MessageDraws

\* An event about a message that is shown changes nothing else.
LEMMA UpdateDraws ==
  ASSUME NEW s, NEW m \in Message, NEW ms, m \in ms, WindowOK(s)
  PROVE  Draws(s, ms, [s EXCEPT !.msgs = Merge(s.msgs, <<m>>),
                                !.page = PageWith(s.page, Merge(s.msgs, <<m>>))])
<1> DEFINE msgs == Merge(s.msgs, <<m>>)
<1> DEFINE p == PageWith(s.page, msgs)
<1> DEFINE l == s.loaded
<1> DEFINE x == [s EXCEPT !.msgs = msgs, !.page = p]
<1> DEFINE y == [s EXCEPT !.msgs = msgs, !.loaded = l, !.page = p]
<1>1. s \in States /\ l \in BOOLEAN
  BY DEF WindowOK, States
<1>2. x = y
  <2> HIDE DEF p, msgs
  <2> QED BY <1>1 DEF States
<1> HIDE DEF l
<1>3. WindowOK(y)
  <2>1. Follows(s, FALSE, y)
    BY <1>1, OneMessage
  <2> HIDE DEF y
  <2> QED BY <2>1 DEF Follows
<1> HIDE DEF x
<1>4. Draws(s, ms, y)
  BY <1>1, <1>3, MessageDraws
<1> HIDE DEF y
<1>5. Draws(s, ms, x)
  BY <1>2, <1>4
<1> QED BY <1>5 DEF x

\* What the log said it still says when it has grown.
LEMMA LoggedStays ==
  ASSUME NEW l, NEW k, l.last \in Nat, k.last \in Nat, l.last <= k.last,
         l.revoked \subseteq k.revoked
  PROVE  /\ \A m \in Message : Logged(l, m) => Logged(k, m)
         /\ \A n \in Nat : n <= l.last => n <= k.last
<1>1. ASSUME NEW m \in Message, Logged(l, m) PROVE Logged(k, m)
  <2>1. m.seq \in Nat /\ m.seq <= l.last
    BY <1>1, MessagesAssumption DEF Message, Logged
  <2>2. m.seq <= k.last
    BY <2>1
  <2> QED BY <1>1, <2>2 DEF Logged
<1> QED BY <1>1

\* What a request asks for or brings is in the log.
Gained(l, ms, q) ==
    /\ q.at = "left" => q.arg <= l.last
    /\ q.at = "served" => Range(q.msgs) \subseteq ms

\* The invariant after a step: the log grows, and what the window, the notices and
\* the requests have gained is in it.
LEMMA LoggedStep ==
  ASSUME MessagesInv, MessagesInv', LoggedInv,
         log.last <= log'.last, log.revoked \subseteq log'.revoked,
         log'.revoked \subseteq 1..log'.last,
         NEW ms, \A m \in ms : Logged(log', m), Draws(st, ms, st'),
         NoticesLogged(log', notices' \ notices),
         \A kind \in Kinds : flight'[kind] = flight[kind] \/ Gained(log', ms, flight'[kind])
  PROVE  LoggedInv'
<1>1. log.last \in Nat /\ log'.last \in Nat
  BY MessagesAssumption DEF MessagesInv, MessagesShape, LogShape, Logs
<1>2. /\ \A m \in Message : Logged(log, m) => Logged(log', m)
      /\ \A n \in Nat : n <= log.last => n <= log'.last
  BY <1>1, LoggedStays
<1>3. WindowLogged(log', st')
  <2>1. Range(st.msgs) \subseteq Message /\ st.page.oldest \in Nat
    BY WindowNow, MessagesAssumption DEF Range, Pages
  <2>2. /\ \A m \in Range(st.msgs) \cup ms : Logged(log', m)
        /\ st.page.oldest <= log'.last /\ 0 <= log'.last
    BY <1>1, <1>2, <2>1 DEF LoggedInv, WindowLogged
  <2>3. \A m \in Range(st.msgs) \cup ms : m.seq <= log'.last
    BY <2>2 DEF Logged
  <2> QED BY <2>2, <2>3 DEF Draws, WindowLogged
<1>4. NoticesLogged(log', notices')
  BY <1>2 DEF LoggedInv, NoticesLogged, Notices
<1>5. ASSUME NEW kind \in Kinds PROVE RequestLogged(log', flight'[kind])
  <2>1. CASE flight'[kind] = flight[kind]
    <3>1. flight[kind] \in Requests
      BY DEF MessagesInv, MessagesShape, FlightShape
    <3>2. flight[kind].at = "left" => flight[kind].arg \in Nat
      BY <3>1, MessagesAssumption DEF Requests, NoRequest, Answers
    <3>3. flight[kind].at = "served" => Range(flight[kind].msgs) \subseteq Message
      BY AnswerNow DEF Answered, Range
    <3>4. RequestLogged(log, flight[kind])
      BY DEF LoggedInv
    <3> QED BY <1>2, <2>1, <3>2, <3>3, <3>4 DEF RequestLogged
  <2>2. CASE Gained(log', ms, flight'[kind])
    BY <2>2 DEF Gained, RequestLogged
  <2> QED BY <2>1, <2>2
<1> QED BY <1>3, <1>4, <1>5 DEF LoggedInv

\* The same when the window and the requests stay what they are.
LEMMA LoggedNotices ==
  ASSUME MessagesInv, MessagesInv', LoggedInv,
         log.last <= log'.last, log.revoked \subseteq log'.revoked,
         log'.revoked \subseteq 1..log'.last,
         NoticesLogged(log', notices' \ notices), st' = st, flight' = flight
  PROVE  LoggedInv'
<1> DEFINE ms == {}
<1>1. \A m \in ms : Logged(log', m)
  OBVIOUS
<1> HIDE DEF ms
<1>2. Draws(st, ms, st')
  BY DEF Draws
<1> QED BY <1>1, <1>2, LoggedStep

\* One request changes.
LEMMA OneRequest ==
  ASSUME MessagesInv, NEW kind \in Kinds, NEW q, flight' = [flight EXCEPT ![kind] = q]
  PROVE  flight'[kind] = q /\ \A k \in Kinds \ {kind} : flight'[k] = flight[k]
BY DEF MessagesInv, MessagesShape, FlightShape

\* What is written or revoked is in the log, and so are its notices and answers.
LEMMA WritingLogged ==
  ASSUME MessagesInv, MessagesInv', LoggedInv,
         OthersWrite \/ OthersRevoke \/ ServeSend \/ ServeRevoke
  PROVE  LoggedInv'
<1> DEFINE n == log.last + 1
<1> DEFINE new == [seq |-> n, revoked |-> FALSE]
<1> DEFINE created == [name |-> "created", msg |-> new]
<1>1. st' = st /\ \A ms : Draws(st, ms, st')
  BY DEF OthersWrite, OthersRevoke, ServeSend, ServeRevoke, Draws
<1>2. log.last \in Nat /\ log \in Logs /\ log.revoked \subseteq 1..log.last
      /\ n \in Nat /\ log.last <= n
  BY MessagesAssumption DEF MessagesInv, MessagesShape, LogShape, Logs, LoggedInv
<1>3. 1..log.last \subseteq 1..n /\ n \in 1..n
  BY <1>2
<1>4. log.last < LastSeq => created \in Notices
  BY NextMessage DEF Notices
<1>5. new.seq = n /\ new.revoked = FALSE /\ created.msg = new
  OBVIOUS
<1> HIDE DEF n, new, created
<1>6. CASE OthersWrite
  <2>1. /\ log.last < LastSeq /\ log' = [log EXCEPT !.last = n] /\ flight' = flight
        /\ notices' \subseteq notices \cup {created}
    BY <1>6 DEF OthersWrite, Publish, created, new, n
  <2>2. log'.last = n /\ log'.revoked = log.revoked
    BY <1>2, <2>1 DEF Logs
  <2>3. Logged(log', new)
    BY <1>2, <1>5, <2>2 DEF Logged
  <2>4. NoticesLogged(log', notices' \ notices)
    BY <1>4, <1>5, <2>1, <2>3 DEF NoticesLogged
  <2>5. log.last <= log'.last /\ log'.revoked \subseteq 1..log'.last
    BY <1>2, <1>3, <2>2
  <2> QED BY <1>1, <2>1, <2>2, <2>4, <2>5, LoggedNotices
<1>7. CASE OthersRevoke
  <2>1. PICK r \in (1..log.last) \ log.revoked :
          /\ log' = [log EXCEPT !.revoked = @ \cup {r}]
          /\ notices' = Publish("updated", [seq |-> r, revoked |-> TRUE])
    BY <1>7 DEF OthersRevoke
  <2> DEFINE old == [seq |-> r, revoked |-> TRUE]
  <2> DEFINE updated == [name |-> "updated", msg |-> old]
  <2>2. flight' = flight /\ notices' \subseteq notices \cup {updated}
    BY <1>7, <2>1 DEF OthersRevoke, Publish
  <2>3. log'.last = log.last /\ log'.revoked = log.revoked \cup {r}
    BY <1>2, <2>1 DEF Logs
  <2>4. updated \in Notices /\ updated.msg = old
    <3>1. r \in 1..LastSeq
      BY <1>2, <2>1, MessagesAssumption DEF Logs
    <3> QED BY <3>1 DEF Notices, Message
  <2>5. Logged(log', old)
    BY <1>2, <2>1, <2>3 DEF Logged
  <2> HIDE DEF updated, old
  <2>6. NoticesLogged(log', notices' \ notices)
    BY <2>2, <2>4, <2>5 DEF NoticesLogged
  <2>7. log.last <= log'.last /\ log'.revoked \subseteq 1..log'.last
    BY <1>2, <2>1, <2>3
  <2> QED BY <1>1, <2>2, <2>3, <2>6, <2>7, LoggedNotices
<1>8. CASE ServeSend
  <2>1. /\ log.last < LastSeq /\ log' = [log EXCEPT !.last = n]
        /\ notices' \subseteq notices \cup {created}
        /\ flight' = [flight EXCEPT !["send"] = Answer(<<new>>, FALSE)]
    BY <1>8 DEF ServeSend, Publish, created, new, n
  <2>2. log'.last = n /\ log'.revoked = log.revoked
    BY <1>2, <2>1 DEF Logs
  <2>3. Logged(log', new)
    BY <1>2, <1>5, <2>2 DEF Logged
  <2>4. NoticesLogged(log', notices' \ notices)
    BY <1>4, <1>5, <2>1, <2>3 DEF NoticesLogged
  <2>5. Range(Answer(<<new>>, FALSE).msgs) \subseteq {new}
    BY DEF Answer, Range
  <2>6. /\ flight'["send"] = Answer(<<new>>, FALSE)
        /\ \A k \in Kinds \ {"send"} : flight'[k] = flight[k]
    BY <2>1, OneRequest DEF Kinds
  <2> DEFINE ms == {new}
  <2>7. Gained(log', ms, flight'["send"]) /\ \A m \in ms : Logged(log', m)
    BY <2>3, <2>5, <2>6 DEF Gained, Answer
  <2> HIDE DEF ms
  <2>8. log.last <= log'.last /\ log'.revoked \subseteq 1..log'.last
    BY <1>2, <1>3, <2>2
  <2> QED BY <1>1, <2>2, <2>4, <2>6, <2>7, <2>8, LoggedStep
<1>9. CASE ServeRevoke
  <2> DEFINE r == flight["revoke"].arg
  <2> DEFINE old == [seq |-> r, revoked |-> TRUE]
  <2> DEFINE updated == [name |-> "updated", msg |-> old]
  <2>1. /\ flight["revoke"].at = "left" /\ log.last < LastSeq
        /\ log' = [last |-> n, revoked |-> log.revoked \cup {r}]
        /\ notices' \subseteq notices \cup {updated, created}
        /\ flight' = [flight EXCEPT !["revoke"] = Answer(<<old, new>>, FALSE)]
    BY <1>9 DEF ServeRevoke, created, new, n
  <2>2. r \in 1..log.last /\ r \in 1..LastSeq
    <3>1. /\ flight["revoke"] \in Requests /\ flight["revoke"].arg # 0
          /\ flight["revoke"].arg <= log.last
      BY <2>1 DEF MessagesInv, MessagesShape, FlightShape, Kinds, LoggedInv, RequestLogged
    <3>2. flight["revoke"].arg \in 0..LastSeq
      BY <2>1, <3>1 DEF Requests, NoRequest, Answers
    <3> QED BY <1>2, <3>1, <3>2, MessagesAssumption
  <2> HIDE DEF r
  <2>3. log'.last = n /\ log'.revoked = log.revoked \cup {r}
    BY <2>1
  <2>4. updated \in Notices /\ updated.msg = old
    BY <2>2 DEF Notices, Message
  <2>5. r \in Nat /\ r <= n
    BY <1>2, <2>2
  <2>6. Logged(log', old) /\ Logged(log', new)
    BY <1>2, <1>5, <2>3, <2>5 DEF Logged
  <2> HIDE DEF updated
  <2>7. NoticesLogged(log', notices' \ notices)
    BY <1>4, <1>5, <2>1, <2>4, <2>6 DEF NoticesLogged
  <2> DEFINE a == Answer(<<old, new>>, FALSE)
  <2>8. a.at = "served" /\ Range(a.msgs) \subseteq {old, new}
    BY DEF Answer, Range
  <2> HIDE DEF old, a
  <2>9. flight'["revoke"] = a /\ \A k \in Kinds \ {"revoke"} : flight'[k] = flight[k]
    BY <2>1, OneRequest DEF Kinds, a, old
  <2> DEFINE ms == {old, new}
  <2>10. Gained(log', ms, flight'["revoke"]) /\ \A m \in ms : Logged(log', m)
    BY <2>6, <2>8, <2>9 DEF Gained
  <2> HIDE DEF ms
  <2>11. /\ log.last <= log'.last /\ log.revoked \subseteq log'.revoked
         /\ log'.revoked \subseteq 1..log'.last
    BY <1>2, <1>3, <2>2, <2>3
  <2> QED BY <1>1, <2>7, <2>9, <2>10, <2>11, LoggedStep
<1> QED BY <1>6, <1>7, <1>8, <1>9

\* A page has messages of the log, as they are.
LEMMA PageLogged ==
  ASSUME MessagesShape, NEW kind \in {"initial", "before", "after"},
         NEW arg \in Nat, arg <= log.last
  PROVE  /\ PageAnswer(kind, arg).at = "served"
         /\ \A m \in Range(PageAnswer(kind, arg).msgs) : Logged(log, m)
<1> DEFINE last == log.last
<1> DEFINE hi == CASE kind = "initial" -> last
                   [] kind = "before" -> Above(arg, 1)
                   [] kind = "after" -> IF arg + PageLimit < last
                                        THEN arg + PageLimit ELSE last
<1> DEFINE lo == IF kind = "after" THEN arg + 1 ELSE Above(hi, PageLimit) + 1
<1>1. last \in Nat /\ arg <= last /\ PageLimit \in Nat
  BY MessagesAssumption DEF MessagesShape, LogShape, Logs
<1>2. PageAnswer(kind, arg) = Answer(LogRange(lo, hi), lo > 1)
  BY DEF PageAnswer
<1> HIDE DEF last
<1>3. hi \in Nat /\ hi <= last
  <2>1. CASE kind = "before"
    <3>1. hi = Above(arg, 1)
      BY <2>1
    <3> HIDE DEF hi
    <3> QED BY <1>1, <3>1 DEF Above
  <2>2. CASE kind # "before"
    BY <1>1, <2>2
  <2> QED BY <2>1, <2>2
<1>4. lo \in Nat
  <2> HIDE DEF hi
  <2> QED BY <1>1, <1>3 DEF Above
<1> HIDE DEF hi, lo
<1> DEFINE n == IF hi < lo THEN 0 ELSE hi - lo + 1
<1>5. \A i \in 1..n : lo + i - 1 <= last
  BY <1>1, <1>3, <1>4
<1>6. \A k : k <= last => Logged(log, Now(k))
  BY DEF Logged, Now, last
<1>7. LogRange(lo, hi) = [i \in 1..n |-> Now(lo + i - 1)]
  BY DEF LogRange
<1> HIDE DEF n
<1>8. \A m \in Range(LogRange(lo, hi)) : Logged(log, m)
  BY <1>5, <1>6, <1>7 DEF Range
<1> QED BY <1>2, <1>8 DEF Answer

\* The steps that neither write nor publish: the log and what was published stay.
LEMMA LoggedClient ==
  ASSUME MessagesInv, MessagesInv', LoggedInv, log' = log, notices' \subseteq notices,
         NEW ms, \A m \in ms : Logged(log, m), Draws(st, ms, st'),
         \A kind \in Kinds : flight'[kind] = flight[kind] \/ Gained(log, ms, flight'[kind])
  PROVE  LoggedInv'
<1>1. log.last \in Nat /\ log'.last \in Nat
  BY MessagesAssumption DEF MessagesInv, MessagesShape, LogShape, Logs
<1>2. /\ log.last <= log'.last /\ log.revoked \subseteq log'.revoked
      /\ log'.revoked \subseteq 1..log'.last
  BY <1>1 DEF LoggedInv
<1>3. NoticesLogged(log', notices' \ notices)
  BY DEF NoticesLogged
<1> QED BY <1>2, <1>3, LoggedStep

\* The server answers with a page.
LEMMA PagesLogged ==
  ASSUME MessagesInv, MessagesInv', LoggedInv, ServeMessages
  PROVE  LoggedInv'
<1>1. /\ log' = log /\ notices' = notices /\ st' = st
      /\ \A ms : Draws(st, ms, st')
  BY DEF ServeMessages, Draws
<1>2. PICK kind \in {"initial", "before", "after"} :
        /\ flight[kind].at = "left"
        /\ flight' = [flight EXCEPT ![kind] = PageAnswer(kind, @.arg)]
  BY DEF ServeMessages
<1> DEFINE arg == flight[kind].arg
<1>3. kind \in Kinds /\ arg \in Nat /\ arg <= log.last
  <2>1. kind \in Kinds
    BY DEF Kinds
  <2>2. flight[kind] \in Requests /\ arg <= log.last
    BY <1>2, <2>1 DEF MessagesInv, MessagesShape, FlightShape, LoggedInv, RequestLogged
  <2>3. arg \in 0..LastSeq
    BY <1>2, <2>2 DEF Requests, NoRequest, Answers
  <2> QED BY <2>1, <2>2, <2>3, MessagesAssumption
<1> DEFINE a == PageAnswer(kind, arg)
<1> DEFINE ms == Range(a.msgs)
<1>4. flight' = [flight EXCEPT ![kind] = a]
  BY <1>2
<1> HIDE DEF arg
<1>5. a.at = "served" /\ \A m \in ms : Logged(log, m)
  BY <1>3, PageLogged DEF MessagesInv
<1> HIDE DEF a
<1>6. flight'[kind] = a /\ \A k \in Kinds \ {kind} : flight'[k] = flight[k]
  BY <1>3, <1>4, OneRequest
<1>7. Gained(log, ms, a)
  BY <1>5 DEF Gained
<1> HIDE DEF ms
<1> QED BY <1>1, <1>5, <1>6, <1>7, LoggedClient

\* Flags do not change what a window is made of.
LEMMA FlagsDraw ==
  ASSUME NEW s, WindowOK(s), NEW x \in States, x.msgs = s.msgs, x.page = s.page, NEW ms
  PROVE  /\ Draws(s, ms, x) /\ Draws(s, ms, Retain(x)) /\ Draws(s, ms, Compact(x))
         /\ Draws(x, ms, s)
<1>1. WindowOK(x) /\ Draws(s, ms, x) /\ Draws(x, ms, s)
  BY DEF WindowOK, Draws
<1> QED BY <1>1, RetainedDraws, DrawsOn

\* Requests leave; the window is compacted or keeps its messages.
LEMMA LeavingLogged ==
  ASSUME MessagesInv, MessagesInv', LoggedInv,
         \/ OpenView \/ CloseView \/ CompactView \/ LoadBefore \/ SendText \/ Revoke
         \/ GoOffline \/ GoOnline \/ UNCHANGED wmVars
  PROVE  LoggedInv'
<1> DEFINE ms == {}
<1>1. \A m \in ms : Logged(log, m)
  OBVIOUS
<1> HIDE DEF ms
<1>2. log' = log /\ notices' \subseteq notices
  BY DEF OpenView, CloseView, CompactView, LoadBefore, SendText, Revoke,
     GoOffline, GoOnline, wmVars
<1>3. Draws(st, ms, st')
  <2> DEFINE i == [st EXCEPT !.loading = TRUE]
  <2> DEFINE b == [st EXCEPT !.loadingBefore = TRUE]
  <2> DEFINE s == [st EXCEPT !.sending = TRUE]
  <2>1. \/ st' = i \/ st' = Retain(b) \/ st' = Retain(s)
        \/ st' = st \/ st' = Compact(st)
    BY DEF OpenView, CloseView, CompactView, LoadBefore, SendText, Revoke,
       GoOffline, GoOnline, wmVars
  <2>2. st \in States /\ WindowOK(st)
    BY WindowNow
  <2>3. i \in States /\ i.msgs = st.msgs /\ i.page = st.page
    BY <2>2 DEF States
  <2>4. b \in States /\ b.msgs = st.msgs /\ b.page = st.page
    BY <2>2 DEF States
  <2>5. s \in States /\ s.msgs = st.msgs /\ s.page = st.page
    BY <2>2 DEF States
  <2> HIDE DEF i, b, s
  <2> QED BY <2>1, <2>2, <2>3, <2>4, <2>5, FlagsDraw
<1>4. \A kind \in Kinds : flight'[kind] = flight[kind] \/ Gained(log, ms, flight'[kind])
  <2>1. CASE flight' = flight
    BY <2>1
  <2>2. ASSUME NEW kind \in Kinds, NEW n, n <= log.last, Leaves(kind, n)
        PROVE  \A k \in Kinds : flight'[k] = flight[k] \/ Gained(log, ms, flight'[k])
    <3>1. flight'[kind] = Asked(n) /\ \A k \in Kinds \ {kind} : flight'[k] = flight[k]
      BY <2>2, OneRequest DEF Leaves
    <3>2. Gained(log, ms, Asked(n))
      BY <2>2 DEF Gained, Asked
    <3> QED BY <3>1, <3>2
  <2>3. CASE \/ Leaves("initial", 0) \/ Leaves("before", st.page.oldest)
             \/ Leaves("send", 0) \/ Leaves("after", Newest(st.msgs))
    <3>1. 0 <= log.last /\ st.page.oldest <= log.last /\ Newest(st.msgs) <= log.last
      <4>1. log.last \in Nat /\ st.msgs \in Messages
        BY WindowNow, MessagesAssumption DEF MessagesInv, MessagesShape, LogShape, Logs
      <4>2. Newest(st.msgs) \in {0} \cup {m.seq : m \in Range(st.msgs)}
        <5>1. st.msgs # <<>> => Len(st.msgs) \in DOMAIN st.msgs
          BY <4>1, LenProperties, EmptySeq DEF Messages
        <5> QED BY <5>1 DEF Newest, Range
      <4> QED BY <4>1, <4>2 DEF LoggedInv, WindowLogged, Logged
    <3> QED BY <2>2, <2>3, <3>1 DEF Kinds
  <2>4. CASE Revoke
    <3>1. PICK i \in DOMAIN st.msgs : Leaves("revoke", st.msgs[i].seq)
      BY <2>4 DEF Revoke
    <3>2. st.msgs[i].seq <= log.last
      BY DEF LoggedInv, WindowLogged, Logged, Range
    <3> QED BY <2>2, <3>1, <3>2 DEF Kinds
  <2> QED BY <2>1, <2>3, <2>4 DEF OpenView, CloseView, CompactView, LoadBefore, SendText,
             GoOffline, GoOnline, SyncLoaded, wmVars
<1> QED BY <1>1, <1>2, <1>3, <1>4, LoggedClient

\* The answer to a request for a page: the window and the page it gives.
LEMMA AnswerDraws ==
  ASSUME MessagesInv, NEW kind \in Kinds, Answered(kind),
         NEW msgs, msgs = Merge(st.msgs, flight[kind].msgs), NEW more \in BOOLEAN,
         NEW o \in {Oldest(msgs), Oldest(flight[kind].msgs)},
         NEW p, p = [known |-> TRUE, more |-> more, oldest |-> o]
  PROVE  /\ msgs \in Messages /\ p \in Pages
         /\ \A x \in States : x.msgs = msgs /\ x.page = p =>
               Draws(st, Range(flight[kind].msgs), Retain(x))
<1> DEFINE n == flight[kind].msgs
<1>1. /\ WindowOK(st) /\ st.msgs \in Messages /\ Increasing(st.msgs)
      /\ n \in Messages /\ \A i \in DOMAIN n : n[i] \in Message
  BY WindowNow, AnswerNow
<1>2. msgs \in Messages /\ Increasing(msgs) /\ Oldest(msgs) \in 0..LastSeq
  BY <1>1, MergeEnds
<1>3. Oldest(n) \in 0..LastSeq
  <2>1. \A m \in Range(n) : m.seq \in 0..LastSeq
    BY <1>1, MessagesAssumption DEF Range, Message
  <2>2. 0 \in 0..LastSeq
    BY MessagesAssumption
  <2> HIDE DEF n
  <2> QED BY <1>1, <2>1, <2>2, OldestIsOne
<1>4. p \in Pages /\ p.oldest = o /\ p.known = TRUE
  <2>1. o \in 0..LastSeq
    BY <1>2, <1>3
  <2> QED BY <2>1 DEF Pages
<1>5. ASSUME NEW x \in States, x.msgs = msgs, x.page = p
      PROVE  Draws(st, Range(n), Retain(x))
  <2>1. WindowOK(x)
    BY <1>2, <1>4, <1>5 DEF WindowOK
  <2>2. x.msgs = Merge(st.msgs, n) /\ x.page.oldest \in {Oldest(x.msgs), Oldest(n)}
    BY <1>4, <1>5
  <2>3. Range(n) \subseteq Range(n)
    OBVIOUS
  <2> HIDE DEF n
  <2> QED BY <1>1, <2>1, <2>2, <2>3, MergedDraws
<1> QED BY <1>2, <1>4, <1>5

\* The window after each answer.
LEMMA ArrivalsDraw ==
  ASSUME MessagesInv
  PROVE  /\ InitialArrives => Draws(st, Range(flight["initial"].msgs), st')
         /\ BeforeArrives => Draws(st, Range(flight["before"].msgs), st')
         /\ AfterArrives => Draws(st, Range(flight["after"].msgs), st')
         /\ SendArrives => Draws(st, Range(flight["send"].msgs), st')
         /\ RevokeArrives => Draws(st, Range(flight["revoke"].msgs), st')
<1>1. /\ WindowOK(st) /\ st \in States /\ st.page.more \in BOOLEAN
  BY WindowNow DEF Pages
<1>2. ASSUME InitialArrives PROVE Draws(st, Range(flight["initial"].msgs), st')
  <2> DEFINE a == flight["initial"]
  <2> DEFINE msgs == Merge(st.msgs, a.msgs)
  <2> DEFINE p == [known |-> TRUE, more |-> a.more, oldest |-> Oldest(a.msgs)]
  <2> DEFINE x == [st EXCEPT !.loaded = TRUE, !.loading = FALSE, !.msgs = msgs, !.page = p]
  <2>1. st' = Retain(x)
    BY <1>2 DEF InitialArrives
  <2>2. a.more \in BOOLEAN /\ Answered("initial")
    BY <1>2, AnswerNow DEF InitialArrives, Kinds
  <2>3. /\ msgs \in Messages /\ p \in Pages
        /\ \A y \in States : y.msgs = msgs /\ y.page = p => Draws(st, Range(a.msgs), Retain(y))
    BY <2>2, AnswerDraws DEF Kinds
  <2> HIDE DEF msgs, p
  <2>4. x \in States /\ x.msgs = msgs /\ x.page = p
    BY <1>1, <2>3 DEF States
  <2> HIDE DEF x
  <2> QED BY <2>1, <2>3, <2>4
<1>3. ASSUME BeforeArrives PROVE Draws(st, Range(flight["before"].msgs), st')
  <2> DEFINE a == flight["before"]
  <2> DEFINE msgs == Merge(st.msgs, a.msgs)
  <2> DEFINE p == [known |-> TRUE, more |-> a.more, oldest |-> Oldest(msgs)]
  <2> DEFINE x == [st EXCEPT !.loaded = TRUE, !.loadingBefore = FALSE,
                             !.msgs = msgs, !.page = p]
  <2>1. st' = Retain(x)
    BY <1>3 DEF BeforeArrives
  <2>2. a.more \in BOOLEAN /\ Answered("before")
    BY <1>3, AnswerNow DEF BeforeArrives, Kinds
  <2>3. /\ msgs \in Messages /\ p \in Pages
        /\ \A y \in States : y.msgs = msgs /\ y.page = p => Draws(st, Range(a.msgs), Retain(y))
    BY <2>2, AnswerDraws DEF Kinds
  <2> HIDE DEF msgs, p
  <2>4. x \in States /\ x.msgs = msgs /\ x.page = p
    BY <1>1, <2>3 DEF States
  <2> HIDE DEF x
  <2> QED BY <2>1, <2>3, <2>4
<1>4. ASSUME AfterArrives PROVE Draws(st, Range(flight["after"].msgs), st')
  <2> DEFINE a == flight["after"]
  <2> DEFINE msgs == Merge(st.msgs, a.msgs)
  <2> DEFINE mo == IF st.page.known THEN st.page.more ELSE a.more
  <2> DEFINE p == [known |-> TRUE, more |-> mo, oldest |-> Oldest(msgs)]
  <2> DEFINE x == [st EXCEPT !.msgs = msgs, !.page = p]
  <2>1. st' = Retain(x)
    BY <1>4 DEF AfterArrives
  <2>2. mo \in BOOLEAN /\ Answered("after")
    BY <1>1, <1>4, AnswerNow DEF AfterArrives, Kinds
  <2> HIDE DEF mo
  <2>3. /\ msgs \in Messages /\ p \in Pages
        /\ \A y \in States : y.msgs = msgs /\ y.page = p => Draws(st, Range(a.msgs), Retain(y))
    BY <2>2, AnswerDraws DEF Kinds
  <2> HIDE DEF msgs, p
  <2>4. x \in States /\ x.msgs = msgs /\ x.page = p
    BY <1>1, <2>3 DEF States
  <2> HIDE DEF x
  <2> QED BY <2>1, <2>3, <2>4
<1>5. ASSUME SendArrives PROVE Draws(st, Range(flight["send"].msgs), st')
  <2> DEFINE n == flight["send"].msgs
  <2> DEFINE w == MergeOne(st, n[1], TRUE)
  <2> DEFINE x == [w EXCEPT !.sending = FALSE]
  <2>1. st' = x
    BY <1>5 DEF SendArrives
  <2>2. n[1] \in Message /\ n[1] \in Range(n)
    <3>1. n \in Messages /\ Len(n) = 1 /\ \A i \in DOMAIN n : n[i] \in Message
      BY <1>5, AnswerNow DEF SendArrives, Kinds, Brings
    <3>2. DOMAIN n = 1..1
      BY <3>1, LenProperties DEF Messages
    <3> HIDE DEF n
    <3> QED BY <3>1, <3>2 DEF Range
  <2> DEFINE m == n[1]
  <2> HIDE DEF m
  <2>3. Draws(st, Range(n), w) /\ WindowOK(w)
    <3>1. Draws(st, Range(n), MergeOne(st, m, TRUE))
      BY <1>1, <2>2, OneDraws DEF m
    <3>2. Follows(st, FALSE, MergeOne(st, m, TRUE))
      BY <1>1, <2>2, OneMerged DEF m
    <3> QED BY <3>1, <3>2 DEF Follows, m
  <2> HIDE DEF w, n
  <2>4. x \in States /\ x.msgs = w.msgs /\ x.page = w.page
    BY <2>3 DEF WindowOK, States
  <2> HIDE DEF x
  <2>5. Draws(w, Range(n), x)
    BY <2>3, <2>4, FlagsDraw
  <2> QED BY <2>1, <2>3, <2>5, DrawsOn DEF n
<1>6. ASSUME RevokeArrives PROVE Draws(st, Range(flight["revoke"].msgs), st')
  <2> DEFINE n == flight["revoke"].msgs
  <2> DEFINE w == MergeOne(st, n[1], TRUE)
  <2> DEFINE x == MergeOne(w, n[2], TRUE)
  <2>1. st' = x
    BY <1>6 DEF RevokeArrives
  <2>2. n[1] \in Message /\ n[1] \in Range(n) /\ n[2] \in Message /\ n[2] \in Range(n)
    <3>1. n \in Messages /\ Len(n) = 2 /\ \A i \in DOMAIN n : n[i] \in Message
      BY <1>6, AnswerNow DEF RevokeArrives, Kinds, Brings
    <3>2. DOMAIN n = 1..2
      BY <3>1, LenProperties DEF Messages
    <3> HIDE DEF n
    <3> QED BY <3>1, <3>2 DEF Range
  <2> HIDE DEF n
  <2>3. Draws(st, Range(n), w) /\ WindowOK(w)
    <3>1. Follows(st, FALSE, w)
      BY <1>1, <2>2, OneMerged
    <3> QED BY <1>1, <2>2, <3>1, OneDraws DEF Follows
  <2> HIDE DEF w
  <2>4. Draws(w, Range(n), x)
    BY <2>2, <2>3, OneDraws
  <2> HIDE DEF x
  <2> QED BY <2>1, <2>3, <2>4, DrawsOn DEF n
<1> QED BY <1>2, <1>3, <1>4, <1>5, <1>6

\* Answers arrive, or their requests fail.
LEMMA EndingLogged ==
  ASSUME MessagesInv, MessagesInv', LoggedInv,
         \/ InitialArrives \/ BeforeArrives \/ AfterArrives \/ SendArrives
         \/ RevokeArrives \/ \E kind \in Kinds : RequestFails(kind)
  PROVE  LoggedInv'
<1>1. ASSUME NEW kind \in Kinds, Ends(kind), NEW ms,
             \A m \in ms : Logged(log, m), Draws(st, ms, st'),
             log' = log, notices' = notices
      PROVE  LoggedInv'
  <2>1. flight'[kind] = NoRequest /\ \A k \in Kinds \ {kind} : flight'[k] = flight[k]
    BY <1>1, OneRequest DEF Ends
  <2>2. Gained(log, ms, NoRequest)
    BY DEF Gained, NoRequest
  <2>3. \A k \in Kinds : flight'[k] = flight[k] \/ Gained(log, ms, flight'[k])
    BY <2>1, <2>2
  <2> QED BY <1>1, <2>3, LoggedClient
<1>2. ASSUME NEW kind \in Kinds, Answered(kind)
      PROVE  \A m \in Range(flight[kind].msgs) : Logged(log, m)
  BY <1>2 DEF LoggedInv, RequestLogged, Answered
<1>3. CASE InitialArrives
  <2>1. /\ Answered("initial") /\ Ends("initial") /\ log' = log /\ notices' = notices
        /\ "initial" \in Kinds
    BY <1>3 DEF InitialArrives, Kept, Kinds
  <2> QED BY <1>1, <1>2, <1>3, <2>1, ArrivalsDraw
<1>4. CASE BeforeArrives
  <2>1. /\ Answered("before") /\ Ends("before") /\ log' = log /\ notices' = notices
        /\ "before" \in Kinds
    BY <1>4 DEF BeforeArrives, Kept, Kinds
  <2> QED BY <1>1, <1>2, <1>4, <2>1, ArrivalsDraw
<1>5. CASE AfterArrives
  <2>1. /\ Answered("after") /\ Ends("after") /\ log' = log /\ notices' = notices
        /\ "after" \in Kinds
    BY <1>5 DEF AfterArrives, Kept, Kinds
  <2> QED BY <1>1, <1>2, <1>5, <2>1, ArrivalsDraw
<1>6. CASE SendArrives
  <2>1. /\ Answered("send") /\ Ends("send") /\ log' = log /\ notices' = notices
        /\ "send" \in Kinds
    BY <1>6 DEF SendArrives, Kept, Kinds
  <2> QED BY <1>1, <1>2, <1>6, <2>1, ArrivalsDraw
<1>7. CASE RevokeArrives
  <2>1. /\ Answered("revoke") /\ Ends("revoke") /\ log' = log /\ notices' = notices
        /\ "revoke" \in Kinds
    BY <1>7 DEF RevokeArrives, Kept, Kinds
  <2> QED BY <1>1, <1>2, <1>7, <2>1, ArrivalsDraw
<1>8. ASSUME NEW kind \in Kinds, RequestFails(kind) PROVE LoggedInv'
  <2> DEFINE i == [st EXCEPT !.loaded = FALSE, !.loading = FALSE]
  <2> DEFINE b == [st EXCEPT !.loadingBefore = FALSE]
  <2> DEFINE s == [st EXCEPT !.sending = FALSE]
  <2> DEFINE ms == {}
  <2>1. \A m \in ms : Logged(log, m)
    OBVIOUS
  <2>2. /\ Ends(kind) /\ log' = log /\ notices' = notices
        /\ st' = Retain(i) \/ st' = Retain(b) \/ st' = Retain(s) \/ st' = st
    BY <1>8 DEF RequestFails
  <2>3. st \in States /\ WindowOK(st)
    BY WindowNow
  <2>4. i \in States /\ i.msgs = st.msgs /\ i.page = st.page
    BY <2>3 DEF States
  <2>5. b \in States /\ b.msgs = st.msgs /\ b.page = st.page
    BY <2>3 DEF States
  <2>6. s \in States /\ s.msgs = st.msgs /\ s.page = st.page
    BY <2>3 DEF States
  <2> HIDE DEF i, b, s, ms
  <2>7. Draws(st, ms, st')
    BY <2>2, <2>3, <2>4, <2>5, <2>6, FlagsDraw
  <2> QED BY <1>1, <2>1, <2>2, <2>7
<1> QED BY <1>3, <1>4, <1>5, <1>6, <1>7, <1>8

\* An event is handled.
LEMMA EventLogged ==
  ASSUME MessagesInv, MessagesInv', LoggedInv, EventArrives
  PROVE  LoggedInv'
<1>1. PICK e \in notices :
        IF e.name = "created" THEN OnCreated(e.msg) ELSE OnUpdated(e.msg)
  BY DEF EventArrives
<1>2. log' = log /\ notices' \subseteq notices /\ flight' = flight
  BY DEF EventArrives
<1> DEFINE m == e.msg
<1> DEFINE ms == {m}
<1>3. m \in Message /\ m \in ms /\ \A k \in ms : Logged(log, k)
  BY DEF LoggedInv, NoticesLogged, Notices
<1> DEFINE u == [st EXCEPT !.msgs = Merge(st.msgs, <<m>>),
                           !.page = PageWith(st.page, Merge(st.msgs, <<m>>))]
<1>4. st' = st \/ st' = MergeOne(st, m, FALSE) \/ st' = u
  BY <1>1 DEF OnCreated, OnUpdated
<1> HIDE DEF m, ms
<1>5. WindowOK(st)
  BY WindowNow
<1>6. Draws(st, ms, st) /\ Draws(st, ms, MergeOne(st, m, FALSE))
  BY <1>3, <1>5, OneDraws, RetainedDraws
<1>7. Draws(st, ms, u)
  BY <1>3, <1>5, UpdateDraws
<1> HIDE DEF u
<1>8. Draws(st, ms, st')
  BY <1>4, <1>6, <1>7
<1> QED BY <1>2, <1>3, <1>8, LoggedClient

\* Every step keeps the invariant.
LEMMA LoggedKept ==
  ASSUME MessagesInv, MessagesInv', LoggedInv, [WebMessagesNext]_wmVars
  PROVE  LoggedInv'
BY WritingLogged, PagesLogged, LeavingLogged, EndingLogged, EventLogged
   DEF WebMessagesNext

\* The first state shows nothing.
LEMMA LoggedInitially ==
  ASSUME WebMessagesInit
  PROVE  LoggedInv
<1>1. /\ log.last = First /\ log.revoked = {} /\ notices = {}
      /\ st.msgs = <<>> /\ st.page.oldest = 0
  BY DEF WebMessagesInit, NoPage
<1>2. 0 <= First
  BY MessagesAssumption
<1>3. Range(<<>>) = {}
  BY EmptySeq DEF Range
<1>4. \A kind \in Kinds : flight[kind].at = "idle"
  BY DEF WebMessagesInit, NoRequest
<1>5. \A kind \in Kinds : RequestLogged(log, flight[kind])
  BY <1>4 DEF RequestLogged
<1> QED BY <1>1, <1>2, <1>3, <1>5 DEF LoggedInv, WindowLogged, NoticesLogged

\* The invariant from which the two theorems follow.
LEMMA LoggedInvariant == WebMessagesSpec => [](MessagesInv /\ LoggedInv)
<1>1. MessagesInv /\ MessagesInv' /\ LoggedInv /\ [WebMessagesNext]_wmVars => LoggedInv'
  BY LoggedKept
<1> QED BY <1>1, LoggedInitially, MessagesInductive, PTL DEF WebMessagesSpec

(* Every message of the window is in the log, and is shown as revoked only *)
(* if it has been.                                                         *)
ShownWasWritten ==
    \A m \in Range(st.msgs) :
        m.seq \in 1..log.last /\ (m.revoked => m.seq \in log.revoked)

\* However pages, events, answers and failures interleave, the window shows nothing
\* that was not written, and nothing as revoked that was not (client-data-state.ts,
\* ClientDataProvider).
THEOREM NothingUnwritten == WebMessagesSpec => []ShownWasWritten
<1>1. ASSUME MessagesInv, LoggedInv PROVE ShownWasWritten
  <2> SUFFICES ASSUME NEW m \in Range(st.msgs)
               PROVE  m.seq \in 1..log.last /\ (m.revoked => m.seq \in log.revoked)
    BY DEF ShownWasWritten
  <2>1. Logged(log, m) /\ m \in Message
    BY <1>1, WindowNow DEF LoggedInv, WindowLogged, Range
  <2>2. log.last \in Nat /\ m.seq \in 1..LastSeq
    BY <1>1, <2>1, MessagesAssumption DEF MessagesInv, MessagesShape, LogShape, Logs, Message
  <2> QED BY <2>1, <2>2, MessagesAssumption DEF Logged
<1> QED BY <1>1, LoggedInvariant, PTL

(* What the invariants leave out of the types.                             *)
FaultsCounted == faults \in 0..Faults /\ online \in BOOLEAN

\* Every action keeps the bound on faults.
LEMMA FaultsKept ==
  ASSUME Faults \in Nat, FaultsCounted, [WebMessagesNext]_wmVars
  PROVE  FaultsCounted'
<1>1. faults \in Nat /\ faults <= Faults
  BY DEF FaultsCounted
<1>2. faults' = faults \/ (faults < Faults /\ faults' = faults + 1)
  BY DEF WebMessagesNext, wmVars, OthersWrite, OthersRevoke, ServeMessages, ServeSend,
     ServeRevoke, OpenView, CloseView, CompactView, LoadBefore, SendText, Revoke,
     InitialArrives, BeforeArrives, AfterArrives, SendArrives, RevokeArrives, Kept,
     RequestFails, EventArrives, GoOffline, GoOnline
<1>3. online' \in {online, TRUE, FALSE}
  BY DEF WebMessagesNext, wmVars, OthersWrite, OthersRevoke, ServeMessages, ServeSend,
     ServeRevoke, OpenView, CloseView, CompactView, LoadBefore, SendText, Revoke,
     InitialArrives, BeforeArrives, AfterArrives, SendArrives, RevokeArrives, Kept,
     RequestFails, EventArrives, GoOffline, GoOnline
<1>4. faults' \in 0..Faults
  BY <1>1, <1>2
<1> QED BY <1>3, <1>4 DEF FaultsCounted

\* The window, the server's log and what is on its way keep their types: in
\* particular the window stays in order, and only written messages are revoked.
THEOREM WebMessagesTypeCorrect ==
  ASSUME Faults \in Nat
  PROVE  WebMessagesSpec => []WebMessagesTypeOK
<1>1. WebMessagesInit => FaultsCounted
  BY DEF WebMessagesInit, FaultsCounted
<1>2. FaultsCounted /\ [WebMessagesNext]_wmVars => FaultsCounted'
  BY FaultsKept
<1>3. ASSUME MessagesInv, LoggedInv, FaultsCounted PROVE WebMessagesTypeOK
  <2>1. /\ st.msgs \in Seq(Message) /\ Increasing(st.msgs) /\ st.page.oldest \in 0..LastSeq
        /\ st \in States /\ st.page \in Pages /\ fetched \in BOOLEAN
    BY <1>3, WindowNow DEF Pages, Messages
  <2>2. {st.loaded, st.loading, st.loadingBefore, st.sending,
         st.page.known, st.page.more} \subseteq BOOLEAN
    BY <2>1 DEF States, Pages
  <2>3. log.last \in 0..LastSeq /\ log.revoked \subseteq 1..log.last
    BY <1>3, MessagesAssumption DEF MessagesInv, MessagesShape, LogShape, Logs, LoggedInv
  <2>4. view \in BOOLEAN /\ notices \subseteq [name : {"created", "updated"}, msg : Message]
    BY <1>3 DEF MessagesInv, MessagesShape, LogShape, LoggedInv, NoticesLogged, Notices
  <2>5. DOMAIN flight = Kinds /\ \A k \in Kinds : flight[k] \in Requests
    BY <1>3 DEF MessagesInv, MessagesShape, FlightShape
  <2>6. \A q \in Requests : q.at \in {"idle", "left", "served"}
    BY DEF Requests, NoRequest, Answers
  <2> QED BY <1>3, <2>1, <2>2, <2>3, <2>4, <2>5, <2>6 DEF WebMessagesTypeOK, FaultsCounted
<1> QED BY <1>1, <1>2, <1>3, LoggedInvariant, PTL DEF WebMessagesSpec

-----------------------------------------------------------------------------
(***************************************************************************)
(* Theorems about ProjectDocuments: what is dragged lands where the page   *)
(* has shown it, and every node stays in one place.  The argument is one   *)
(* about the indices of a sequence before and after a node has left it.    *)
(***************************************************************************)

\* Element j of a sequence without its element k.
Behind(s, k, j) == IF j < k THEN s[j] ELSE s[j + 1]

\* A node that is at place k of a sequence and nowhere else is dropped from
\* there; one that is at no place, which is the case of k = Len(s) + 1, leaves
\* the sequence as it is.
LEMMA DroppedFacts ==
  ASSUME NEW S, NEW s \in Seq(S), NEW n, NEW k \in 1..(Len(s) + 1),
         \A i \in 1..Len(s) : s[i] = n <=> i = k
  PROVE  /\ Dropped(s, n) \in Seq(S)
         /\ Len(Dropped(s, n)) = IF k <= Len(s) THEN Len(s) - 1 ELSE Len(s)
         /\ \A j \in 1..Len(Dropped(s, n)) : Dropped(s, n)[j] = Behind(s, k, j)
<1> DEFINE L == Len(s)
<1> DEFINE step(f, i) ==
             IF i = 0 THEN <<>> ELSE IF s[i] = n THEN f[i - 1] ELSE Append(f[i - 1], s[i])
<1> DEFINE size(i) == IF i < k THEN i ELSE i - 1
<1> DEFINE g == [i \in 0..L |-> [j \in 1..size(i) |-> Behind(s, k, j)]]
<1> DEFINE kept == CHOOSE f : f = [i \in 0..L |-> step(f, i)]
<1>1. L \in Nat /\ k \in Nat /\ s \in [1..L -> S] /\ DOMAIN s = 1..L
  BY LenProperties
<1>2. \A i \in 0..L : size(i) \in Nat /\ size(i) <= L
  BY <1>1
<1>3. \A i \in 0..L : \A j \in 1..size(i) : Behind(s, k, j) \in S
  BY <1>1 DEF Behind
<1>4. \A i \in 0..L : g[i] \in Seq(S) /\ Len(g[i]) = size(i)
                      /\ \A j \in 1..size(i) : g[i][j] = Behind(s, k, j)
  <2> SUFFICES ASSUME NEW i \in 0..L
               PROVE  /\ g[i] \in Seq(S) /\ Len(g[i]) = size(i)
                      /\ \A j \in 1..size(i) : g[i][j] = Behind(s, k, j)
    OBVIOUS
  <2>1. g[i] = [j \in 1..size(i) |-> Behind(s, k, j)]
    OBVIOUS
  <2> HIDE DEF g, size
  <2>2. g[i] \in [1..size(i) -> S]
    BY <1>3, <2>1
  <2>3. g[i] \in Seq(S)
    BY <1>2, <2>2, SeqDef
  <2>4. Len(g[i]) = size(i)
    <3>1. DOMAIN g[i] = 1..size(i) /\ DOMAIN g[i] = 1..Len(g[i]) /\ Len(g[i]) \in Nat
      BY <2>2, <2>3, LenProperties
    <3> QED BY <1>2, <3>1
  <2> QED BY <2>1, <2>3, <2>4
<1>5. \A i \in 0..L : g[i] = step(g, i)
  <2> SUFFICES ASSUME NEW i \in 0..L PROVE g[i] = step(g, i)
    OBVIOUS
  <2>1. CASE i = 0
    <3>1. size(i) = 0
      BY <1>1, <2>1
    <3> HIDE DEF size, g
    <3> QED BY <1>4, <2>1, <3>1, EmptySeq
  <2>2. CASE i # 0 /\ s[i] = n
    <3>1. i = k /\ i - 1 \in 0..L /\ size(i) = size(i - 1)
      BY <1>1, <2>2
    <3> QED BY <2>2, <3>1
  <2>3. CASE i # 0 /\ s[i] # n
    <3>1. /\ i \in 1..L /\ i # k /\ i - 1 \in 0..L /\ size(i) = size(i - 1) + 1
          /\ Behind(s, k, size(i)) = s[i] /\ s[i] \in S
      BY <1>1, <2>3 DEF Behind
    <3> HIDE DEF g, size
    <3> DEFINE a == Append(g[i - 1], s[i])
    <3>2. /\ a \in Seq(S) /\ Len(a) = Len(g[i - 1]) + 1 /\ a[Len(g[i - 1]) + 1] = s[i]
          /\ \A j \in 1..Len(g[i - 1]) : a[j] = g[i - 1][j]
      BY <1>4, <3>1, AppendProperties
    <3> HIDE DEF a
    <3>3. Len(a) = size(i) /\ \A j \in 1..size(i) : a[j] = Behind(s, k, j)
      <4>1. Len(g[i - 1]) = size(i - 1) /\ size(i - 1) \in Nat
        BY <1>2, <1>4, <3>1
      <4>2. \A j \in 1..size(i) : j = size(i) \/ j \in 1..size(i - 1)
        BY <3>1, <4>1
      <4> QED BY <1>4, <3>1, <3>2, <4>1, <4>2
    <3>4. a = g[i]
      <4>1. /\ g[i] \in Seq(S) /\ Len(g[i]) = Len(a)
            /\ \A j \in 1..Len(a) : a[j] = g[i][j]
        BY <1>4, <3>3
      <4> QED BY <3>2, <4>1, SeqEqual
    <3> QED BY <2>3, <3>4 DEF a
  <2> QED BY <2>1, <2>2, <2>3
<1>6. g = [i \in 0..L |-> step(g, i)]
  <2>1. g = [i \in 0..L |-> g[i]]
    OBVIOUS
  <2> HIDE DEF g, step
  <2> QED BY <1>5, <2>1
<1>7. kept = [i \in 0..L |-> step(kept, i)]
  <2> HIDE DEF g, step
  <2> QED BY <1>6
<1>8. \A i \in 0..L : kept[i] = g[i]
  <2> DEFINE T == {i \in 0..L : kept[i] # g[i]}
  <2> SUFFICES ASSUME T # {} PROVE FALSE
    OBVIOUS
  <2>0. T \subseteq Nat /\ 0..L \subseteq Nat
    BY <1>1
  <2> HIDE DEF T
  <2>1. PICK m \in T : \A j \in T : m <= j
    BY <2>0, LeastIn
  <2> USE DEF T
  <2> HIDE DEF g, kept
  <2>2. m \in 0..L /\ kept[m] # g[m] /\ \A j \in 0..L : j < m => kept[j] = g[j]
    <3> SUFFICES ASSUME NEW j \in 0..L, j < m PROVE kept[j] = g[j]
      BY <2>1
    <3>1. ~(m <= j)
      BY <2>0
    <3> QED BY <2>1, <3>1
  <2> HIDE DEF T
  <2>3. kept[m] = step(kept, m) /\ g[m] = step(g, m)
    BY <1>5, <1>7, <2>2
  <2>4. m # 0 => kept[m - 1] = g[m - 1]
    BY <1>1, <2>2
  <2> QED BY <2>2, <2>3, <2>4
<1>9. Dropped(s, n) = kept[L]
  BY DEF Dropped
<1>10. Dropped(s, n) = g[L] /\ L \in 0..L
  <2> HIDE DEF g, kept
  <2> QED BY <1>1, <1>8, <1>9
<1>11. size(L) = IF k <= L THEN L - 1 ELSE L
  BY <1>1
<1> HIDE DEF g, kept, size
<1> QED BY <1>4, <1>10, <1>11

\* A sequence, and what is left of it before and after a place.
LEMMA PartsOf ==
  ASSUME NEW S, NEW s \in Seq(S), NEW h \in 0..Len(s)
  PROVE  /\ SubSeq(s, 1, h) \in Seq(S) /\ Len(SubSeq(s, 1, h)) = h
         /\ \A i \in 1..h : SubSeq(s, 1, h)[i] = s[i]
         /\ SubSeq(s, h + 1, Len(s)) \in Seq(S)
         /\ Len(SubSeq(s, h + 1, Len(s))) = Len(s) - h
         /\ \A i \in 1..(Len(s) - h) : SubSeq(s, h + 1, Len(s))[i] = s[h + i]
<1>1. Len(s) \in Nat /\ \A i \in 1..Len(s) : s[i] \in S
  BY LenProperties, ElementOfSeq
<1>2. /\ SubSeq(s, 1, h) \in Seq(S)
      /\ Len(SubSeq(s, 1, h)) = IF 1 <= h THEN h - 1 + 1 ELSE 0
      /\ \A i \in 1..(h - 1 + 1) : SubSeq(s, 1, h)[i] = s[1 + i - 1]
  <2>1. 1 \in Int /\ h \in Int /\ \A i \in 1..h : s[i] \in S
    BY <1>1
  <2> QED BY <2>1, SubSeqProperties
<1> DEFINE m == h + 1
<1> DEFINE right == SubSeq(s, m, Len(s))
<1>3. /\ right \in Seq(S)
      /\ Len(right) = IF m <= Len(s) THEN Len(s) - m + 1 ELSE 0
      /\ \A i \in 1..(Len(s) - m + 1) : right[i] = s[m + i - 1]
  <2>1. m \in Int /\ Len(s) \in Int /\ \A i \in m..Len(s) : s[i] \in S
    BY <1>1
  <2> HIDE DEF m
  <2> QED BY <2>1, SubSeqProperties
<1>4. Len(SubSeq(s, 1, h)) = h /\ \A i \in 1..h : SubSeq(s, 1, h)[i] = s[i]
  BY <1>1, <1>2
<1>5. Len(right) = Len(s) - h /\ \A i \in 1..(Len(s) - h) : right[i] = s[h + i]
  <2> HIDE DEF right
  <2> QED BY <1>1, <1>3
<1> QED BY <1>2, <1>3, <1>4, <1>5

\* What is dropped before the place it lands at, or behind it, is dropped from
\* the part of the sequence it is in.
LEMMA DroppedFromPart ==
  ASSUME NEW S, NEW s \in Seq(S), NEW n, NEW k \in 1..(Len(s) + 1), NEW h \in 0..Len(s),
         \A i \in 1..Len(s) : s[i] = n <=> i = k
  PROVE  LET u == Dropped(s, n)
             e == IF k <= h THEN h - 1 ELSE h
         IN  /\ e \in 0..Len(u)
             /\ Dropped(SubSeq(s, 1, h), n) = SubSeq(u, 1, e)
             /\ Dropped(SubSeq(s, h + 1, Len(s)), n) = SubSeq(u, e + 1, Len(u))
<1> DEFINE u == Dropped(s, n)
<1> DEFINE e == IF k <= h THEN h - 1 ELSE h
<1> DEFINE left == SubSeq(s, 1, h)
<1> DEFINE right == SubSeq(s, h + 1, Len(s))
<1> DEFINE kl == IF k <= h THEN k ELSE h + 1
<1> DEFINE kr == IF k <= h THEN Len(s) - h + 1 ELSE k - h
<1>1. Len(s) \in Nat
  BY LenProperties
<1>2. /\ u \in Seq(S) /\ Len(u) = IF k <= Len(s) THEN Len(s) - 1 ELSE Len(s)
      /\ \A j \in 1..Len(u) : u[j] = Behind(s, k, j)
  BY DroppedFacts
<1>3. /\ left \in Seq(S) /\ Len(left) = h /\ \A i \in 1..h : left[i] = s[i]
      /\ right \in Seq(S) /\ Len(right) = Len(s) - h
      /\ \A i \in 1..(Len(s) - h) : right[i] = s[h + i]
  <2>1. left = SubSeq(s, 1, h) /\ right = SubSeq(s, h + 1, Len(s))
    OBVIOUS
  <2> HIDE DEF left, right, u, e, kl, kr
  <2>2. /\ SubSeq(s, h + 1, Len(s)) \in Seq(S)
        /\ Len(SubSeq(s, h + 1, Len(s))) = Len(s) - h
        /\ \A i \in 1..(Len(s) - h) : SubSeq(s, h + 1, Len(s))[i] = s[h + i]
    BY PartsOf
  <2>3. /\ SubSeq(s, 1, h) \in Seq(S) /\ Len(SubSeq(s, 1, h)) = h
        /\ \A i \in 1..h : SubSeq(s, 1, h)[i] = s[i]
    BY PartsOf
  <2> QED BY <2>1, <2>2, <2>3
<1> HIDE DEF left, right, u
<1>4. e \in 0..Len(u) /\ Len(u) \in Nat
  BY <1>1, <1>2
<1>5. /\ SubSeq(u, 1, e) \in Seq(S) /\ Len(SubSeq(u, 1, e)) = e
      /\ \A i \in 1..e : SubSeq(u, 1, e)[i] = u[i]
      /\ SubSeq(u, e + 1, Len(u)) \in Seq(S)
      /\ Len(SubSeq(u, e + 1, Len(u))) = Len(u) - e
      /\ \A i \in 1..(Len(u) - e) : SubSeq(u, e + 1, Len(u))[i] = u[e + i]
  <2> HIDE DEF e
  <2> QED BY <1>2, <1>4, PartsOf
<1>6. Dropped(left, n) = SubSeq(u, 1, e)
  <2> DEFINE a == Dropped(left, n)
  <2>1. kl \in 1..(Len(left) + 1) /\ \A i \in 1..Len(left) : left[i] = n <=> i = kl
    BY <1>1, <1>3
  <2>2. /\ a \in Seq(S) /\ Len(a) = IF kl <= Len(left) THEN Len(left) - 1 ELSE Len(left)
        /\ \A j \in 1..Len(a) : a[j] = Behind(left, kl, j)
    <3> HIDE DEF kl
    <3>1. left \in Seq(S)
      BY <1>3
    <3> QED BY <3>1, <2>1, DroppedFacts
  <2> HIDE DEF a
  <2>3. Len(a) = e
    BY <1>1, <1>3, <2>2
  <2>4. \A j \in 1..e : a[j] = u[j]
    BY <1>1, <1>2, <1>3, <1>4, <2>2, <2>3 DEF Behind
  <2> HIDE DEF e
  <2>5. a = SubSeq(u, 1, e)
    BY <1>5, <2>2, <2>3, <2>4, SeqEqual
  <2> QED BY <2>5 DEF a
<1>7. Dropped(right, n) = SubSeq(u, e + 1, Len(u))
  <2> DEFINE a == Dropped(right, n)
  <2>1. kr \in 1..(Len(right) + 1) /\ \A i \in 1..Len(right) : right[i] = n <=> i = kr
    BY <1>1, <1>3
  <2>2. /\ a \in Seq(S) /\ Len(a) = IF kr <= Len(right) THEN Len(right) - 1 ELSE Len(right)
        /\ \A j \in 1..Len(a) : a[j] = Behind(right, kr, j)
    <3> HIDE DEF kr
    <3>1. right \in Seq(S)
      BY <1>3
    <3> QED BY <3>1, <2>1, DroppedFacts
  <2> HIDE DEF a
  <2>3. Len(a) = Len(u) - e
    <3>1. h \in Nat /\ k \in Nat /\ h <= Len(s) /\ Len(right) = Len(s) - h
      BY <1>1, <1>3
    <3>2. CASE k <= h
      BY <1>1, <1>2, <2>2, <3>1, <3>2
    <3>3. CASE ~(k <= h)
      BY <1>1, <1>2, <2>2, <3>1, <3>3
    <3> QED BY <3>2, <3>3
  <2>4. \A j \in 1..Len(a) : a[j] = u[e + j]
    <3> SUFFICES ASSUME NEW j \in 1..Len(a) PROVE a[j] = u[e + j]
      OBVIOUS
    <3>1. j \in Nat /\ e + j \in 1..Len(u)
      <4> HIDE DEF e
      <4> QED BY <1>4, <2>3
    <3>2. u[e + j] = Behind(s, k, e + j) /\ a[j] = Behind(right, kr, j)
      BY <1>2, <2>2, <3>1
    <3>3. CASE k <= h
      BY <1>1, <1>2, <1>3, <2>3, <3>1, <3>2, <3>3 DEF Behind
    <3>4. CASE ~(k <= h)
      BY <1>1, <1>2, <1>3, <2>3, <3>1, <3>2, <3>4 DEF Behind
    <3> QED BY <3>3, <3>4
  <2> HIDE DEF e
  <2>5. a = SubSeq(u, e + 1, Len(u))
    BY <1>5, <2>2, <2>3, <2>4, SeqEqual
  <2> QED BY <2>5 DEF a
<1> QED BY <1>4, <1>6, <1>7 DEF left, right, u

\* A node that leaves a sequence leaves the others, each in one place.
LEMMA DroppedKeeps ==
  ASSUME NEW S, NEW s \in Seq(S), IsInjective(s), NEW n
  PROVE  /\ \E k \in 1..(Len(s) + 1) : \A i \in 1..Len(s) : s[i] = n <=> i = k
         /\ Dropped(s, n) \in Seq(S) /\ IsInjective(Dropped(s, n))
         /\ \A m : Contains(Dropped(s, n), m) <=> Contains(s, m) /\ m # n
<1> DEFINE u == Dropped(s, n)
<1>1. Len(s) \in Nat
  BY LenProperties
<1>2. \A i, j \in 1..Len(s) : s[i] = s[j] => i = j
  <2>1. DOMAIN s = 1..Len(s)
    BY LenProperties
  <2> QED BY <2>1 DEF IsInjective
<1>3. \E k \in 1..(Len(s) + 1) : \A i \in 1..Len(s) : s[i] = n <=> i = k
  <2>1. CASE \E k \in 1..Len(s) : s[k] = n
    <3>1. PICK k \in 1..Len(s) : s[k] = n
      BY <2>1
    <3>2. \A i \in 1..Len(s) : s[i] = n <=> i = k
      BY <1>2, <3>1
    <3>3. k \in 1..(Len(s) + 1)
      BY <1>1
    <3> QED BY <3>2, <3>3
  <2>2. CASE \A k \in 1..Len(s) : s[k] # n
    <3>1. Len(s) + 1 \in 1..(Len(s) + 1) /\ \A i \in 1..Len(s) : i # Len(s) + 1
      BY <1>1
    <3> QED BY <2>2, <3>1
  <2> QED BY <2>1, <2>2
<1>4. PICK k \in 1..(Len(s) + 1) : \A i \in 1..Len(s) : s[i] = n <=> i = k
  BY <1>3
<1>5. /\ u \in Seq(S) /\ Len(u) = IF k <= Len(s) THEN Len(s) - 1 ELSE Len(s)
      /\ \A j \in 1..Len(u) : u[j] = Behind(s, k, j)
  BY <1>4, DroppedFacts
<1>6. DOMAIN u = 1..Len(u)
  BY <1>5, LenProperties
<1> HIDE DEF u
<1> DEFINE from(j) == IF j < k THEN j ELSE j + 1
<1>7. \A j \in 1..Len(u) : from(j) \in 1..Len(s) /\ from(j) # k /\ u[j] = s[from(j)]
  BY <1>1, <1>5 DEF Behind
<1>8. \A i \in 1..Len(s) : i # k => \E j \in 1..Len(u) : from(j) = i
  <2> SUFFICES ASSUME NEW i \in 1..Len(s), i # k
               PROVE  \E j \in 1..Len(u) : from(j) = i
    OBVIOUS
  <2>1. CASE i < k
    <3>1. i \in 1..Len(u) /\ from(i) = i
      BY <1>1, <1>5, <2>1
    <3> QED BY <3>1
  <2>2. CASE ~(i < k)
    <3>1. i - 1 \in 1..Len(u) /\ from(i - 1) = i
      BY <1>1, <1>5, <2>2
    <3> QED BY <3>1
  <2> QED BY <2>1, <2>2
<1>9. \A i, j \in 1..Len(u) : from(i) = from(j) => i = j
  BY <1>1, <1>5
<1> HIDE DEF from
<1>10. IsInjective(u)
  BY <1>2, <1>6, <1>7, <1>9 DEF IsInjective
<1>11. \A m : Contains(u, m) <=> Contains(s, m) /\ m # n
  <2> TAKE m
  <2>1. Contains(u, m) => Contains(s, m) /\ m # n
    BY <1>4, <1>7 DEF Contains
  <2>2. ASSUME Contains(s, m), m # n PROVE Contains(u, m)
    <3>1. PICK i \in 1..Len(s) : s[i] = m
      BY <2>2 DEF Contains
    <3>2. i # k
      BY <1>4, <2>2, <3>1
    <3>3. PICK j \in 1..Len(u) : from(j) = i
      BY <1>8, <3>2
    <3> QED BY <1>7, <3>1, <3>3 DEF Contains
  <2> QED BY <2>1, <2>2
<1> QED BY <1>3, <1>5, <1>10, <1>11 DEF u

\* A node is put between two parts of a sequence that does not have it.
LEMMA Inserted ==
  ASSUME NEW S, NEW u \in Seq(S), IsInjective(u), NEW n \in S, ~Contains(u, n),
         NEW e \in 0..Len(u)
  PROVE  LET v == SubSeq(u, 1, e) \o <<n>> \o SubSeq(u, e + 1, Len(u))
         IN  /\ v \in Seq(S) /\ IsInjective(v)
             /\ \A m : Contains(v, m) <=> Contains(u, m) \/ m = n
<1> DEFINE left == SubSeq(u, 1, e)
<1> DEFINE right == SubSeq(u, e + 1, Len(u))
<1> DEFINE w == left \o <<n>>
<1> DEFINE v == w \o right
<1>1. Len(u) \in Nat /\ DOMAIN u = 1..Len(u)
  BY LenProperties
<1>2. /\ left \in Seq(S) /\ Len(left) = e /\ \A i \in 1..e : left[i] = u[i]
      /\ right \in Seq(S) /\ Len(right) = Len(u) - e
      /\ \A i \in 1..(Len(u) - e) : right[i] = u[e + i]
  BY PartsOf
<1> HIDE DEF left, right
<1>3. <<n>> \in Seq(S) /\ Len(<<n>>) = 1 /\ <<n>>[1] = n
  OBVIOUS
<1>4. /\ w \in Seq(S) /\ Len(w) = e + 1
      /\ \A i \in 1..(e + 1) : w[i] = IF i <= e THEN u[i] ELSE n
  <2> DEFINE one == <<n>>
  <2>1. one \in Seq(S) /\ Len(one) = 1 /\ one[1] = n
    BY <1>3
  <2> HIDE DEF one
  <2>2. /\ left \o one \in Seq(S) /\ Len(left \o one) = Len(left) + Len(one)
        /\ \A i \in 1..(Len(left) + Len(one)) :
             (left \o one)[i] = IF i <= Len(left) THEN left[i] ELSE one[i - Len(left)]
    BY <1>2, <2>1, ConcatProperties
  <2>3. \A i \in 1..(e + 1) : i <= e \/ i - e = 1
    BY <1>1
  <2>4. w = left \o one
    BY DEF one
  <2> HIDE DEF w
  <2> QED BY <1>1, <1>2, <2>1, <2>2, <2>3, <2>4
<1> HIDE DEF w
<1>5. /\ v \in Seq(S) /\ Len(v) = Len(u) + 1
      /\ \A i \in 1..(Len(u) + 1) :
           v[i] = IF i <= e THEN u[i] ELSE IF i = e + 1 THEN n ELSE u[i - 1]
  <2>1. /\ w \o right \in Seq(S) /\ Len(w \o right) = Len(w) + Len(right)
        /\ \A i \in 1..(Len(w) + Len(right)) :
             (w \o right)[i] = IF i <= Len(w) THEN w[i] ELSE right[i - Len(w)]
    <3>1. w \in Seq(S) /\ right \in Seq(S)
      BY <1>2, <1>4
    <3> QED BY <3>1, ConcatProperties
  <2>2. Len(w) + Len(right) = Len(u) + 1
    BY <1>1, <1>2, <1>4
  <2>3. ASSUME NEW i \in 1..(Len(u) + 1)
        PROVE  v[i] = IF i <= e THEN u[i] ELSE IF i = e + 1 THEN n ELSE u[i - 1]
    <3>1. CASE i <= e + 1
      BY <1>1, <1>4, <2>1, <2>2, <3>1
    <3>2. CASE ~(i <= e + 1)
      <4>1. i - (e + 1) \in 1..(Len(u) - e) /\ e + (i - (e + 1)) = i - 1
        BY <1>1, <3>2
      <4>2. v[i] = right[i - (e + 1)]
        BY <1>1, <1>4, <2>1, <2>2, <3>2
      <4>3. right[i - (e + 1)] = u[i - 1]
        BY <1>2, <4>1
      <4>4. ~(i <= e) /\ i # e + 1
        BY <1>1, <3>2
      <4> QED BY <4>2, <4>3, <4>4
    <3> QED BY <3>1, <3>2
  <2> QED BY <2>1, <2>2, <2>3
<1>6. DOMAIN v = 1..Len(v)
  BY <1>5, LenProperties
<1> HIDE DEF v
<1>7. \A i \in 1..Len(u) : u[i] # n
  BY DEF Contains
<1>8. IsInjective(v)
  <2> SUFFICES ASSUME NEW i \in 1..(Len(u) + 1), NEW j \in 1..(Len(u) + 1), v[i] = v[j]
               PROVE  i = j
    BY <1>5, <1>6 DEF IsInjective
  <2> DEFINE at(x) == IF x <= e THEN x ELSE x - 1
  <2>1. \A x \in 1..(Len(u) + 1) : x # e + 1 => at(x) \in 1..Len(u) /\ v[x] = u[at(x)]
    BY <1>1, <1>5
  <2>2. v[e + 1] = n /\ e + 1 \in 1..(Len(u) + 1)
    BY <1>1, <1>5
  <2>3. i # e + 1 /\ j # e + 1 => at(i) = at(j)
    <3> HIDE DEF at
    <3> QED BY <1>1, <2>1 DEF IsInjective
  <2>4. i = e + 1 <=> j = e + 1
    <3> HIDE DEF at
    <3> QED BY <1>7, <2>1, <2>2
  <2> QED BY <1>1, <2>3, <2>4
<1>9. \A m : Contains(v, m) <=> Contains(u, m) \/ m = n
  <2> TAKE m
  <2>1. Contains(v, m) => Contains(u, m) \/ m = n
    <3> SUFFICES ASSUME NEW i \in 1..(Len(u) + 1), v[i] = m, m # n
                 PROVE  Contains(u, m)
      BY <1>5 DEF Contains
    <3>1. CASE i <= e
      <4>1. i \in 1..Len(u) /\ u[i] = m
        BY <1>1, <1>5, <3>1
      <4> QED BY <4>1 DEF Contains
    <3>2. CASE ~(i <= e)
      <4>1. i - 1 \in 1..Len(u) /\ u[i - 1] = m
        BY <1>1, <1>5, <3>2
      <4> QED BY <4>1 DEF Contains
    <3> QED BY <3>1, <3>2
  <2>2. Contains(v, n)
    <3>1. e + 1 \in 1..Len(v) /\ v[e + 1] = n
      BY <1>1, <1>5
    <3> QED BY <3>1 DEF Contains
  <2>3. Contains(u, m) => Contains(v, m)
    <3> SUFFICES ASSUME NEW i \in 1..Len(u), u[i] = m PROVE Contains(v, m)
      BY DEF Contains
    <3>1. CASE i <= e
      <4>1. i \in 1..Len(v) /\ v[i] = m
        BY <1>1, <1>5, <3>1
      <4> QED BY <4>1 DEF Contains
    <3>2. CASE ~(i <= e)
      <4>1. i + 1 \in 1..Len(v) /\ v[i + 1] = m
        BY <1>1, <1>5, <3>2
      <4> QED BY <4>1 DEF Contains
    <3> QED BY <3>1, <3>2
  <2> QED BY <2>1, <2>2, <2>3
<1> QED BY <1>5, <1>8, <1>9 DEF v, w, left, right

\* The place of a node, as the code finds it.
LEMMA FoundAt ==
  ASSUME Placed(tree), NEW n \in Nodes
  PROVE  /\ ParentOf(n) \in Parents
         /\ \A q \in Parents : Contains(tree[q], n) <=> ParentOf(n) = q
         /\ IndexOf(n) \in Nat /\ IndexOf(n) + 1 \in 1..Len(tree[ParentOf(n)])
         /\ \A i \in 1..Len(tree[ParentOf(n)]) :
              tree[ParentOf(n)][i] = n <=> i = IndexOf(n) + 1
<1>1. PICK p \in Parents : \A q \in Parents : Contains(tree[q], n) <=> p = q
  BY DEF Placed
<1>2. ParentOf(n) = p
  BY <1>1 DEF ParentOf
<1> DEFINE s == tree[p]
<1>3. s \in Seq(Nodes) /\ IsInjective(s) /\ Contains(s, n)
  BY <1>1 DEF Placed
<1>4. DOMAIN s = 1..Len(s)
  BY <1>3, LenProperties
<1> HIDE DEF s
<1> DEFINE i0 == CHOOSE i \in DOMAIN s : s[i] = n
<1>5. i0 \in 1..Len(s) /\ s[i0] = n
  BY <1>3, <1>4 DEF Contains
<1> HIDE DEF i0
<1>6. \A i \in 1..Len(s) : s[i] = n <=> i = i0
  BY <1>3, <1>4, <1>5 DEF IsInjective
<1>7. IndexOf(n) \in Nat /\ IndexOf(n) + 1 = i0
  <2>1. IndexOf(n) = i0 - 1
    BY <1>2 DEF IndexOf, i0, s
  <2> QED BY <1>5, <2>1
<1> QED BY <1>1, <1>2, <1>5, <1>6, <1>7 DEF s

\* The code puts a node where it was shown to land, and no other node moves:
\* the index it computes once the node has left its place is the right one.
LEMMA MovedLands ==
  ASSUME Placed(tree), NEW n \in Nodes, NEW target, target.parent \in Parents,
         target.index \in 0..Len(tree[target.parent])
  PROVE  LET moved == With(Without(n), target.parent, IndexAfterRemoval(n, target), n)
         IN  moved = Landed(n, target) /\ Placed(moved)
<1> DEFINE p == target.parent
<1> DEFINE s == tree[p]
<1> DEFINE h == target.index
<1> DEFINE u == Dropped(s, n)
<1> DEFINE k == IF ParentOf(n) = p THEN IndexOf(n) + 1 ELSE Len(s) + 1
<1> DEFINE e == IF k <= h THEN h - 1 ELSE h
<1> DEFINE landing == SubSeq(u, 1, e) \o <<n>> \o SubSeq(u, e + 1, Len(u))
<1> DEFINE moved == With(Without(n), p, IndexAfterRemoval(n, target), n)
<1>1. \A q \in Parents : tree[q] \in Seq(Nodes) /\ IsInjective(tree[q])
  BY DEF Placed
<1>2. p \in Parents /\ s \in Seq(Nodes) /\ IsInjective(s) /\ h \in 0..Len(s)
  BY <1>1
<1>3. Len(s) \in Nat
  BY <1>2, LenProperties
<1>4. k \in 1..(Len(s) + 1) /\ \A i \in 1..Len(s) : s[i] = n <=> i = k
  <2>1. CASE ParentOf(n) = p
    <3>1. k = IndexOf(n) + 1
      BY <2>1
    <3> HIDE DEF k
    <3> QED BY <1>3, <2>1, <3>1, FoundAt
  <2>2. CASE ParentOf(n) # p
    <3>1. ~Contains(s, n)
      BY <1>2, <2>2, FoundAt
    <3>2. k = Len(s) + 1
      BY <2>2
    <3> HIDE DEF k
    <3> QED BY <1>3, <3>1, <3>2 DEF Contains
  <2> QED BY <2>1, <2>2
<1>5. IndexAfterRemoval(n, target) = e
  <2>1. CASE ParentOf(n) = p
    <3>1. IndexOf(n) + 1 = k
      BY <2>1
    <3>2. IndexOf(n) < h <=> k <= h
      <4>1. IndexOf(n) \in Nat
        BY FoundAt
      <4> HIDE DEF k
      <4> QED BY <1>2, <1>3, <3>1, <4>1
    <3> HIDE DEF k
    <3> QED BY <2>1, <3>2 DEF IndexAfterRemoval
  <2>2. CASE ParentOf(n) # p
    <3>1. ~(k <= h)
      BY <1>2, <1>3, <2>2
    <3> HIDE DEF k
    <3> QED BY <2>2, <3>1 DEF IndexAfterRemoval
  <2> QED BY <2>1, <2>2
<1> HIDE DEF k
<1>6. /\ e \in 0..Len(u)
      /\ Dropped(SubSeq(s, 1, h), n) = SubSeq(u, 1, e)
      /\ Dropped(SubSeq(s, h + 1, Len(s)), n) = SubSeq(u, e + 1, Len(u))
  BY <1>2, <1>4, DroppedFromPart
<1> HIDE DEF e
<1>7. \A q \in Parents : /\ Dropped(tree[q], n) \in Seq(Nodes)
                         /\ IsInjective(Dropped(tree[q], n))
                         /\ \A m : Contains(Dropped(tree[q], n), m) <=>
                                     Contains(tree[q], m) /\ m # n
  BY <1>1, DroppedKeeps
<1>8. u \in Seq(Nodes) /\ IsInjective(u) /\ ~Contains(u, n)
  BY <1>2, <1>7
<1>9. Len(u) \in Nat
  BY <1>8, LenProperties
<1>10. /\ landing \in Seq(Nodes) /\ IsInjective(landing)
       /\ \A m : Contains(landing, m) <=> Contains(u, m) \/ m = n
  <2> HIDE DEF u
  <2> QED BY <1>6, <1>8, Inserted
<1>11. moved = [q \in Parents |-> IF q # p THEN Dropped(tree[q], n) ELSE landing]
  <2>1. Without(n) = [q \in Parents |-> Dropped(tree[q], n)] /\ Without(n)[p] = u
    BY <1>2 DEF Without
  <2>2. (IF e > Len(Without(n)[p]) THEN Len(Without(n)[p]) ELSE e) = e
    <3> HIDE DEF u
    <3> QED BY <1>6, <1>9, <2>1
  <2>3. moved = [Without(n) EXCEPT ![p] = InsertAt(Without(n)[p], e + 1, n)]
    BY <1>5, <2>2 DEF With
  <2>4. InsertAt(u, e + 1, n) = landing
    <3> DEFINE b == e + 1
    <3>1. InsertAt(u, b, n) = SubSeq(u, 1, b - 1) \o <<n>> \o SubSeq(u, b, Len(u))
      BY DEF InsertAt
    <3>2. b - 1 = e
      BY <1>6
    <3> HIDE DEF b
    <3>3. InsertAt(u, b, n) = SubSeq(u, 1, e) \o <<n>> \o SubSeq(u, b, Len(u))
      BY <3>1, <3>2
    <3> QED BY <3>3 DEF b
  <2>5. moved = [[q \in Parents |-> Dropped(tree[q], n)] EXCEPT ![p] = landing]
    BY <2>1, <2>3, <2>4
  <2> HIDE DEF landing, moved, p
  <2> QED BY <2>5
<1>12. Landed(n, target) = [q \in Parents |-> IF q # p THEN Dropped(tree[q], n) ELSE landing]
  <2>1. \A q \in Parents : Without(n)[q] = Dropped(tree[q], n)
    BY DEF Without
  <2>2. landing = Dropped(SubSeq(s, 1, h), n) \o <<n>> \o Dropped(SubSeq(s, h + 1, Len(s)), n)
    BY <1>6
  <2> HIDE DEF landing
  <2> QED BY <2>1, <2>2 DEF Landed
<1> HIDE DEF landing, moved
<1>13. Placed(moved)
  <2>1. moved \in [Parents -> Seq(Nodes)] /\ \A q \in Parents : IsInjective(moved[q])
    BY <1>7, <1>10, <1>11
  <2>2. \A q \in Parents : \A m : Contains(moved[q], m) <=>
          (Contains(tree[q], m) /\ m # n) \/ (m = n /\ q = p)
    BY <1>2, <1>7, <1>10, <1>11
  <2>3. ASSUME NEW m \in Nodes
        PROVE  \E q \in Parents : \A r \in Parents : Contains(moved[r], m) <=> q = r
    <3>1. CASE m = n
      BY <1>2, <2>2, <3>1
    <3>2. CASE m # n
      BY <2>2, <3>2 DEF Placed
    <3> QED BY <3>1, <3>2
  <2> QED BY <2>1, <2>3 DEF Placed
<1> QED BY <1>11, <1>12, <1>13 DEF moved

(* A target is a place between nodes, or a folder, while a node is dragged. *)
DocumentsInv ==
    /\ DocumentsTypeOK
    /\ over # Nothing =>
         /\ dragged \in Nodes /\ over.index \in 0..Len(tree[over.parent])
         /\ over.kind = "folder" => over.parent \in Folders

\* The page offers places only.
LEMMA OfferedPlaces ==
  ASSUME Placed(tree), NEW t \in Lines \cup RowPlaces
  PROVE  /\ t \in Target /\ t.index \in 0..Len(tree[t.parent])
         /\ t.kind = "folder" => t.parent \in Folders
<1>1. \A p \in Parents : Len(tree[p]) \in Nat /\ Len(tree[p]) <= Most
  <2> SUFFICES ASSUME NEW p \in Parents PROVE Len(tree[p]) \in Nat /\ Len(tree[p]) <= Most
    OBVIOUS
  <2> DEFINE s == tree[p]
  <2>1. s \in Seq(Nodes) /\ IsInjective(s)
    BY DEF Placed
  <2>2. s \in [1..Len(s) -> Nodes] /\ Len(s) \in Nat /\ DOMAIN s = 1..Len(s)
    BY <2>1, LenProperties
  <2> HIDE DEF s
  <2>3. s \in Injection(1..Len(s), Nodes)
    BY <2>1, <2>2, Fun_IsInj DEF IsInjective
  <2>4. Cardinality(1..Len(s)) <= Cardinality(Nodes)
    BY <2>3, FS_Injection, DocumentsAssumption
  <2>5. Cardinality(1..Len(s)) = Len(s)
    <3> DEFINE N == Len(s)
    <3>1. N \in Nat
      BY <2>2
    <3> HIDE DEF N
    <3>2. Cardinality(1..N) = IF 1 > N THEN 0 ELSE N - 1 + 1
      BY <3>1, FS_Interval
    <3>3. Cardinality(1..N) = N
      BY <3>1, <3>2
    <3> QED BY <3>3 DEF N
  <2> QED BY <2>2, <2>4, <2>5 DEF Most, s
<1>2. CASE t \in Lines
  <2>1. t \in Target /\ t.kind = "position" /\ t.index <= Len(tree[t.parent])
    BY <1>2 DEF Lines
  <2>2. t.parent \in Parents /\ t.index \in Nat
    BY <2>1 DEF Target
  <2> QED BY <1>1, <2>1, <2>2
<1>3. ASSUME NEW f \in Folders,
             t = [kind |-> "folder", parent |-> f, index |-> Len(tree[f])]
      PROVE  /\ t \in Target /\ t.index \in 0..Len(tree[t.parent])
             /\ t.kind = "folder" => t.parent \in Folders
  <2>1. f \in Parents
    BY DEF Parents
  <2>2. Len(tree[f]) \in 0..Most
    BY <1>1, <2>1, FS_CardinalityType, DocumentsAssumption DEF Most
  <2> QED BY <1>3, <2>1, <2>2 DEF Target
<1>4. ASSUME NEW d \in Documents,
             t = [kind |-> "position", parent |-> ParentOf(d), index |-> IndexOf(d) + 1]
      PROVE  /\ t \in Target /\ t.index \in 0..Len(tree[t.parent])
             /\ t.kind = "folder" => t.parent \in Folders
  <2>1. d \in Nodes
    BY DEF Nodes
  <2>2. ParentOf(d) \in Parents /\ IndexOf(d) + 1 \in 0..Len(tree[ParentOf(d)])
    BY <2>1, FoundAt
  <2>3. IndexOf(d) + 1 \in 0..Most
    BY <1>1, <2>2, FS_CardinalityType, DocumentsAssumption DEF Most
  <2> QED BY <1>4, <2>2, <2>3 DEF Target
<1> QED BY <1>2, <1>3, <1>4 DEF RowPlaces

LEMMA DocumentsStep ==
  ASSUME DocumentsInv, [DocumentsNext]_pdVars
  PROVE  DocumentsInv'
<1> USE DEF DocumentsInv
<1>1. CASE UNCHANGED pdVars
  BY <1>1 DEF pdVars, DocumentsTypeOK, Placed
<1>2. ASSUME NEW n \in Nodes, DragStart(n) PROVE DocumentsInv'
  BY <1>2 DEF DragStart, DocumentsTypeOK, Placed
<1>3. CASE DragOver
  <2>1. dragged \in Nodes /\ UNCHANGED <<tree, expanded, searching, dragged>>
    BY <1>3 DEF DragOver, DocumentsTypeOK
  <2>2. over' # Nothing =>
          /\ over' \in Target /\ over'.index \in 0..Len(tree[over'.parent])
          /\ over'.kind = "folder" => over'.parent \in Folders
    BY <1>3, OfferedPlaces DEF DragOver, DocumentsTypeOK
  <2> QED BY <2>1, <2>2 DEF DocumentsTypeOK, Placed
<1>4. CASE DragEnd
  <2>1. dragged' = Nothing /\ over' = Nothing /\ searching' = searching
    BY <1>4 DEF DragEnd
  <2>2. CASE over = Nothing
    BY <1>4, <2>1, <2>2 DEF DragEnd, DocumentsTypeOK, Placed
  <2>3. CASE over # Nothing
    <3>1. over \in Target /\ over.parent \in Parents
      BY <2>3 DEF DocumentsTypeOK, Target
    <3>2. Placed(tree')
      <4>1. \/ tree' = tree
            \/ tree' = With(Without(dragged), over.parent,
                            IndexAfterRemoval(dragged, over), dragged)
        BY <1>4, <2>3 DEF DragEnd, Moved
      <4> QED BY <2>3, <3>1, <4>1, MovedLands DEF DocumentsTypeOK
    <3>3. expanded' \subseteq Folders
      BY <1>4, <2>3 DEF DragEnd, DocumentsTypeOK
    <3> QED BY <2>1, <3>2, <3>3 DEF DocumentsTypeOK, Placed
  <2> QED BY <2>2, <2>3
<1>5. CASE DragCancel
  BY <1>5 DEF DragCancel, DocumentsTypeOK, Placed
<1>6. ASSUME NEW f \in Folders, ToggleFolder(f) PROVE DocumentsInv'
  <2>1. expanded' \subseteq Folders
    BY <1>6 DEF ToggleFolder, DocumentsTypeOK
  <2> QED BY <1>6, <2>1 DEF ToggleFolder, DocumentsTypeOK, Placed
<1>7. CASE Search
  BY <1>7 DEF Search, DocumentsTypeOK, Placed
<1> QED BY <1>1, <1>2, <1>3, <1>4, <1>5, <1>6, <1>7 DEF DocumentsNext

LEMMA DocumentsInvariant == DocumentsSpec => []DocumentsInv
<1>1. DocumentsInit => DocumentsInv
  BY DocumentsAssumption DEF DocumentsInit, DocumentsInv, DocumentsTypeOK
<1> QED BY <1>1, DocumentsStep, PTL DEF DocumentsSpec

\* However a tree was built, a node or folder that is dragged stands after the
\* drop where the page has shown it, every other one is where it was, and
\* nothing is dropped into itself (moveDocumentNode).
THEOREM LandsAsShown == DocumentsSpec => LandsWhereShown
<1>1. DocumentsInv => LandsRight
  <2> SUFFICES ASSUME DocumentsInv, DragEnd, over # Nothing
               PROVE  tree' = IF over.parent \in Below[dragged] THEN tree
                              ELSE Landed(dragged, over)
    BY DEF LandsRight
  <2>1. /\ Placed(tree) /\ dragged \in Nodes /\ over.parent \in Parents
        /\ over.index \in 0..Len(tree[over.parent])
    BY DEF DocumentsInv, DocumentsTypeOK, Target
  <2>2. tree' = Moved(dragged, over)
    BY DEF DragEnd
  <2> QED BY <2>1, <2>2, MovedLands DEF Moved
<1> QED BY <1>1, DocumentsInvariant, PTL DEF LandsWhereShown

\* No drag loses or doubles a node: each is in one place, and what is open is a
\* folder (ProjectDocumentsTab).
THEOREM EveryNodeInOnePlace == DocumentsSpec => []DocumentsTypeOK
<1>1. DocumentsInv => DocumentsTypeOK
  BY DEF DocumentsInv
<1> QED BY <1>1, DocumentsInvariant, PTL

(***************************************************************************)
(* Theorems about WebConversationList, for any number of messages, changes *)
(* and losses.                                                             *)
(***************************************************************************)

NumberedRow == [last : Nat, read : Nat, unread : Nat, pinned : BOOLEAN, mention : Nat]
RowOK(r) == r = Absent \/ (r \in NumberedRow /\ r.unread <= Beyond(r.last, r.read))

(* What an answer brings, and what an event says.                          *)
AnswerOK(a) ==
    /\ a.to \in RowRequests
    /\ a.to \in {"list", "restore"} => RowOK(a.row)
    /\ a.to = "read" => a.read \in Nat /\ a.unread = 0
    /\ a.to = "send" => a.seq \in Nat
EventOK(e) ==
    /\ e.name \in {"created", "mentioned", "pin_updated", "removed", "restored"}
    /\ e.name \in {"created", "mentioned"} => e.seq \in Nat
    /\ e.name = "pin_updated" => e.pinned \in BOOLEAN

ServerRow == [last : Nat, read : Nat, hidden : Nat, pinned : BOOLEAN, mention : Nat]

ListInv ==
    /\ server \in ServerRow /\ RowOK(row)
    /\ \A a \in answers : AnswerOK(a)
    /\ \A e \in events : EventOK(e)

LEMMA BeyondFacts ==
  ASSUME NEW a \in Nat, NEW b \in Nat
  PROVE  /\ Beyond(a, b) \in Nat
         /\ \A n \in Nat : n > a /\ n > b => Beyond(a, b) + 1 <= Beyond(n, b)
         /\ \A n \in Nat : n >= a => Beyond(a, b) <= Beyond(n, b)
BY DEF Beyond

\* What the server lists counts every message once.
LEMMA ListItemOK == \A s \in ServerRow : RowOK(ListItem(s))
<1> SUFFICES ASSUME NEW s \in ServerRow PROVE RowOK(ListItem(s))
  OBVIOUS
<1>1. s.last \in Nat /\ s.read \in Nat /\ s.pinned \in BOOLEAN /\ s.mention \in Nat
  BY DEF ServerRow
<1>2. Beyond(s.last, s.read) \in Nat
  BY <1>1, BeyondFacts
<1> QED BY <1>1, <1>2 DEF ListItem, RowOK, NumberedRow

\* A message is counted only by a row that has not counted it.
LEMMA WithMessageOK ==
  ASSUME NEW r, RowOK(r), NEW seq \in Nat, NEW countUnread \in BOOLEAN
  PROVE  RowOK(WithMessage(r, seq, countUnread))
<1>1. CASE r = Absent \/ seq < r.last
  BY <1>1 DEF WithMessage
<1>2. CASE r # Absent /\ ~(seq < r.last)
  <2> DEFINE counted == countUnread /\ seq > r.last /\ seq > r.read
  <2> DEFINE unread == IF counted THEN r.unread + 1 ELSE r.unread
  <2>1. r \in NumberedRow /\ r.unread <= Beyond(r.last, r.read)
    BY <1>2 DEF RowOK
  <2>2. r.last \in Nat /\ r.read \in Nat /\ r.unread \in Nat /\ seq >= r.last
    BY <1>2, <2>1 DEF NumberedRow
  <2>3. Beyond(r.last, r.read) \in Nat /\ Beyond(seq, r.read) \in Nat
    BY <2>2, BeyondFacts
  <2>4. unread \in Nat /\ unread <= Beyond(seq, r.read)
    <3>1. CASE counted
      <4>1. Beyond(r.last, r.read) + 1 <= Beyond(seq, r.read)
        BY <2>2, <3>1, BeyondFacts
      <4> QED BY <2>1, <2>2, <2>3, <3>1, <4>1
    <3>2. CASE ~counted
      <4>1. Beyond(r.last, r.read) <= Beyond(seq, r.read)
        BY <2>2, BeyondFacts
      <4> QED BY <2>1, <2>2, <2>3, <3>2, <4>1
    <3> QED BY <3>1, <3>2
  <2>5. WithMessage(r, seq, countUnread) = [r EXCEPT !.last = seq, !.unread = unread]
    BY <1>2 DEF WithMessage
  <2> HIDE DEF unread
  <2> QED BY <2>1, <2>4, <2>5 DEF RowOK, NumberedRow
<1> QED BY <1>1, <1>2

\* Every answer and every event leaves a row that counts no message twice.
LEMMA RowAnsweredOK ==
  ASSUME NEW r, RowOK(r), NEW a, AnswerOK(a)
  PROVE  RowOK(RowAnswered(r, a))
<1>1. CASE a.to \in {"list", "restore"}
  BY <1>1 DEF RowAnswered, AnswerOK
<1>2. CASE a.to = "read"
  <2>1. RowOK(WithRead(r, a.read, a.unread))
    <3>1. CASE r = Absent
      BY <3>1 DEF WithRead, RowOK
    <3>2. CASE r # Absent
      <4>1. r \in NumberedRow /\ a.read \in Nat /\ a.unread = 0
        BY <1>2, <3>2 DEF RowOK, AnswerOK
      <4>2. Beyond(r.last, a.read) \in Nat
        BY <4>1, BeyondFacts DEF NumberedRow
      <4>3. WithRead(r, a.read, a.unread) = [r EXCEPT !.read = a.read, !.unread = 0]
        BY <3>2, <4>1 DEF WithRead
      <4> DEFINE w == [r EXCEPT !.read = a.read, !.unread = 0]
      <4>4. w \in NumberedRow
        BY <4>1 DEF NumberedRow
      <4>5. w.last = r.last /\ w.read = a.read /\ w.unread = 0
        BY <4>1 DEF NumberedRow
      <4>6. w.unread <= Beyond(w.last, w.read)
        BY <4>2, <4>5
      <4> HIDE DEF w
      <4>7. RowOK(w)
        BY <4>4, <4>6 DEF RowOK
      <4> QED BY <4>3, <4>7 DEF w
    <3> QED BY <3>1, <3>2
  <2> QED BY <1>2, <2>1 DEF RowAnswered
<1>3. CASE a.to \in {"pin", "unpin"}
  <2>1. RowOK(WithPin(r, a.to = "pin"))
    BY DEF WithPin, RowOK, NumberedRow
  <2> QED BY <1>3, <2>1 DEF RowAnswered
<1>4. CASE a.to = "dismiss"
  BY <1>4 DEF RowAnswered, RowOK
<1>5. CASE a.to = "send"
  <2>1. RowOK(WithMessage(r, a.seq, FALSE))
    BY <1>5, WithMessageOK DEF AnswerOK
  <2> QED BY <1>5, <2>1 DEF RowAnswered
<1> QED BY <1>1, <1>2, <1>3, <1>4, <1>5 DEF AnswerOK, RowRequests

LEMMA NotifiedOK ==
  ASSUME NEW r, RowOK(r), NEW e, EventOK(e)
  PROVE  RowOK(Notified(r, e))
<1>1. CASE e.name = "created"
  <2> DEFINE count == ~e.own /\ ~open
  <2>1. count \in BOOLEAN /\ e.seq \in Nat
    BY <1>1 DEF EventOK
  <2>2. Notified(r, e) = WithMessage(r, e.seq, count)
    BY <1>1 DEF Notified
  <2> HIDE DEF count
  <2> QED BY <2>1, <2>2, WithMessageOK
<1>2. CASE e.name = "mentioned"
  <2>1. RowOK(WithMention(r, e.seq))
    BY <1>2 DEF WithMention, RowOK, NumberedRow, EventOK, Higher
  <2> QED BY <1>2, <2>1 DEF Notified
<1>3. CASE e.name = "pin_updated"
  <2>1. RowOK(WithPin(r, e.pinned))
    BY <1>3 DEF WithPin, RowOK, NumberedRow, EventOK
  <2> QED BY <1>3, <2>1 DEF Notified
<1>4. CASE e.name \in {"removed", "restored"}
  BY <1>4 DEF Notified, RowOK
<1> QED BY <1>1, <1>2, <1>3, <1>4 DEF EventOK

LEMMA ListInitially == WebListInit => ListInv
<1> SUFFICES ASSUME WebListInit PROVE ListInv
  OBVIOUS
<1>1. server \in ServerRow
  BY DEF WebListInit, ServerRow
<1>2. RowOK(row)
  BY <1>1, ListItemOK DEF WebListInit
<1> QED BY <1>1, <1>2 DEF WebListInit, ListInv

LEMMA PublishedToList ==
  ASSUME NEW es, PublishToList(es), \A e \in events \cup es : EventOK(e)
  PROVE  \A e \in events' : EventOK(e)
BY DEF PublishToList

\* The server writes well-formed rows, answers and events.
LEMMA ServedOK ==
  ASSUME ListInv, NEW request \in RowRequests, Serve(request)
  PROVE  ListInv'
<1>1. /\ server \in ServerRow /\ RowOK(row) /\ row' = row
      /\ \A a \in answers : AnswerOK(a)
      /\ \A e \in events : EventOK(e)
  BY DEF ListInv, Serve
<1>2. server.last \in Nat /\ server.last + 1 \in Nat
  BY <1>1 DEF ServerRow
<1> SUFFICES /\ server' \in ServerRow
             /\ \A a \in answers' : AnswerOK(a)
             /\ \A e \in events' : EventOK(e)
  BY <1>1 DEF ListInv
<1>3. CASE request = "list"
  <2> DEFINE a == [to |-> "list", row |-> ListItem(server)]
  <2>1. AnswerOK(a)
    BY <1>1, ListItemOK DEF AnswerOK, RowRequests
  <2> HIDE DEF a
  <2>2. server' = server /\ events' = events /\ answers' = answers \cup {a}
    BY <1>3 DEF Serve, ServeConversations, a
  <2> QED BY <1>1, <2>1, <2>2
<1>4. CASE request = "read"
  <2> DEFINE a == [to |-> "read", read |-> server.last, unread |-> 0]
  <2>1. AnswerOK(a)
    BY <1>2 DEF AnswerOK, RowRequests
  <2> HIDE DEF a
  <2>2. events' = events /\ answers' = answers \cup {a}
    BY <1>4 DEF Serve, ServeRead, a
  <2>3. server' \in ServerRow
    BY <1>1, <1>2, <1>4 DEF Serve, ServeRead, ServerRow
  <2> QED BY <1>1, <2>1, <2>2, <2>3
<1>5. CASE request \in {"pin", "unpin"}
  <2> DEFINE a == [to |-> request]
             e == [name |-> "pin_updated", pinned |-> request = "pin"]
             es == IF server.pinned = (request = "pin") THEN {} ELSE {e}
  <2>1. AnswerOK(a)
    BY <1>5 DEF AnswerOK, RowRequests
  <2>2. EventOK(e)
    BY DEF EventOK
  <2>3. es \subseteq {e}
    OBVIOUS
  <2>4. ServePin(request)
    BY <1>5 DEF Serve
  <2>5. answers' = answers \cup {a} /\ PublishToList(es)
    BY <2>4 DEF ServePin
  <2>6. server' \in ServerRow
    BY <1>1, <2>4 DEF ServePin, ServerRow
  <2> HIDE DEF a, e, es
  <2>7. \A x \in events' : EventOK(x)
    BY <1>1, <2>2, <2>3, <2>5, PublishedToList
  <2> QED BY <1>1, <2>1, <2>5, <2>6, <2>7
<1>6. CASE request = "dismiss"
  <2> DEFINE a == [to |-> "dismiss"]
             es == {[name |-> "removed"]}
  <2>1. AnswerOK(a) /\ \A e \in es : EventOK(e)
    BY DEF AnswerOK, EventOK, RowRequests
  <2>2. ServeDismiss
    BY <1>6 DEF Serve
  <2>3. answers' = answers \cup {a} /\ PublishToList(es)
    BY <2>2 DEF ServeDismiss
  <2>4. server' \in ServerRow
    BY <1>1, <1>2, <2>2 DEF ServeDismiss, ServerRow
  <2> HIDE DEF a, es
  <2>5. \A x \in events' : EventOK(x)
    BY <1>1, <2>1, <2>3, PublishedToList
  <2> QED BY <1>1, <2>1, <2>3, <2>4, <2>5
<1>7. CASE request = "restore"
  <2> DEFINE a == [to |-> "restore", row |-> ListItem(server')]
             es == IF server.hidden # 0 THEN {[name |-> "restored"]} ELSE {}
  <2>1. ServeRestore
    BY <1>7 DEF Serve
  <2>2. server' \in ServerRow
    BY <1>1, <2>1 DEF ServeRestore, ServerRow
  <2>3. RowOK(ListItem(server'))
    BY <2>2, ListItemOK
  <2>4. AnswerOK(a) /\ \A e \in es : EventOK(e)
    BY <2>3 DEF AnswerOK, EventOK, RowRequests
  <2>5. answers' = answers \cup {a} /\ PublishToList(es)
    BY <2>1 DEF ServeRestore
  <2> HIDE DEF a, es
  <2>6. \A x \in events' : EventOK(x)
    BY <1>1, <2>4, <2>5, PublishedToList
  <2> QED BY <1>1, <2>2, <2>4, <2>5, <2>6
<1>8. CASE request = "send"
  <2> DEFINE a == [to |-> "send", seq |-> server.last + 1]
             es == {[name |-> "created", seq |-> server.last + 1, own |-> TRUE]}
  <2>1. AnswerOK(a) /\ \A e \in es : EventOK(e)
    BY <1>2 DEF AnswerOK, EventOK, RowRequests
  <2>2. ServeMessage
    BY <1>8 DEF Serve
  <2>3. answers' = answers \cup {a} /\ PublishToList(es)
    BY <2>2 DEF ServeMessage
  <2>4. server' \in ServerRow
    BY <1>1, <1>2, <2>2 DEF ServeMessage, ServerRow
  <2> HIDE DEF a, es
  <2>5. \A x \in events' : EventOK(x)
    BY <1>1, <2>1, <2>3, PublishedToList
  <2> QED BY <1>1, <2>1, <2>3, <2>4, <2>5
<1> QED BY <1>3, <1>4, <1>5, <1>6, <1>7, <1>8 DEF RowRequests

LEMMA SomebodyWritesOK ==
  ASSUME ListInv, SomebodyWrites
  PROVE  ListInv'
<1>1. /\ server \in ServerRow /\ RowOK(row) /\ row' = row
      /\ \A a \in answers : AnswerOK(a)
      /\ \A e \in events : EventOK(e)
      /\ answers' = answers
  BY DEF ListInv, SomebodyWrites
<1>2. server.last + 1 \in Nat
  BY <1>1 DEF ServerRow
<1>3. PICK mention \in BOOLEAN :
        /\ server' = [server EXCEPT !.last = @ + 1,
                                    !.mention = IF mention THEN server.last + 1 ELSE @]
        /\ PublishToList(
               {[name |-> "created", seq |-> server.last + 1, own |-> FALSE]}
               \cup (IF mention THEN {[name |-> "mentioned", seq |-> server.last + 1]}
                     ELSE {}))
  BY Zenon DEF SomebodyWrites
<1>4. server' \in ServerRow
  BY <1>1, <1>2, <1>3 DEF ServerRow
<1>5. \A e \in events' : EventOK(e)
  <2> DEFINE es == {[name |-> "created", seq |-> server.last + 1, own |-> FALSE]}
               \cup (IF mention THEN {[name |-> "mentioned", seq |-> server.last + 1]}
                     ELSE {})
  <2>1. \A e \in es : EventOK(e)
    BY <1>2 DEF EventOK
  <2>2. PublishToList(es)
    BY <1>3
  <2> HIDE DEF es
  <2> QED BY <1>1, <2>1, <2>2, PublishedToList
<1> QED BY <1>1, <1>4, <1>5 DEF ListInv

LEMMA ListStep == ListInv /\ [WebListNext]_wlVars => ListInv'
<1> SUFFICES ASSUME ListInv, [WebListNext]_wlVars PROVE ListInv'
  OBVIOUS
<1>1. CASE UNCHANGED wlVars
  BY <1>1 DEF wlVars, ListInv
<1>2. CASE SomebodyWrites
  BY <1>2, SomebodyWritesOK
<1>3. ASSUME NEW request \in RowRequests, Serve(request) PROVE ListInv'
  BY <1>3, ServedOK
<1>4. CASE HandleAnswerTo(RowRequests)
  <2>1. PICK a \in answers : /\ answers' = answers \ {a}
                             /\ row' = RowAnswered(row, a)
                             /\ UNCHANGED <<server, events>>
    BY <1>4 DEF HandleAnswerTo
  <2>2. RowOK(row')
    BY <2>1, RowAnsweredOK DEF ListInv
  <2> QED BY <2>1, <2>2 DEF ListInv
<1>5. CASE HandleEvent
  <2>1. PICK e \in events : /\ events' = events \ {e}
                            /\ row' = Notified(row, e)
                            /\ UNCHANGED <<server, answers>>
    BY <1>5 DEF HandleEvent
  <2>2. RowOK(row')
    BY <2>1, NotifiedOK DEF ListInv
  <2> QED BY <2>1, <2>2 DEF ListInv
<1>6. CASE Disconnect
  BY <1>6 DEF Disconnect, ListInv
<1>7. CASE ListRequestFails
  <2>1. answers' \subseteq answers /\ UNCHANGED <<server, row, events>>
    BY <1>7 DEF ListRequestFails
  <2> QED BY <2>1 DEF ListInv
<1>8. CASE RefreshConversations \/ MarkRead \/ OpenOrClose \/ Reconnect
  BY <1>8 DEF RefreshConversations, MarkRead, OpenOrClose, Reconnect, ListInv
<1>9. ASSUME NEW request \in OtherRequests, Change(request) PROVE ListInv'
  BY <1>9 DEF Change, ListInv
<1> QED BY <1>1, <1>2, <1>3, <1>4, <1>5, <1>6, <1>7, <1>8, <1>9 DEF WebListNext

\* In whatever order refreshes, events and answers arrive, the row's badge
\* counts no message twice and none that is read (applyConversationMessageToList).
THEOREM NothingCountedTwice == WebListSpec => []BadgeCountsOnce
<1>1. ListInv => BadgeCountsOnce
  BY DEF ListInv, RowOK, BadgeCountsOnce, CountsOnce
<1> QED BY <1>1, ListInitially, ListStep, PTL DEF WebListSpec

-----------------------------------------------------------------------------
(***************************************************************************)
(* The row is never ahead of the server: whatever it, the answers and the  *)
(* events on their way name was written, and the bounds follow.            *)
(***************************************************************************)
BehindRow(n, r) == r # Absent => r.last <= n /\ r.read <= n /\ r.mention <= n
BehindAnswer(n, a) ==
    /\ a.to \in {"list", "restore"} => BehindRow(n, a.row)
    /\ a.to = "read" => a.read <= n
    /\ a.to = "send" => a.seq <= n
BehindEvent(n, e) == e.name \in {"created", "mentioned"} => e.seq <= n

ServerBounds(s) ==
    /\ s.last <= MaxWrites + 1 /\ s.read <= s.last
    /\ s.hidden <= s.last /\ s.mention <= s.last
BehindInv ==
    /\ ServerBounds(server) /\ BehindRow(server.last, row)
    /\ \A a \in answers : BehindAnswer(server.last, a)
    /\ \A e \in events : BehindEvent(server.last, e)

\* What is behind the server stays behind when the server goes on.
LEMMA BehindStays ==
  ASSUME NEW n \in Nat, NEW k \in Nat, n <= k
  PROVE  /\ \A r : RowOK(r) /\ BehindRow(n, r) => BehindRow(k, r)
         /\ \A a : AnswerOK(a) /\ BehindAnswer(n, a) => BehindAnswer(k, a)
         /\ \A e : EventOK(e) /\ BehindEvent(n, e) => BehindEvent(k, e)
<1>1. ASSUME NEW r, RowOK(r), BehindRow(n, r) PROVE BehindRow(k, r)
  <2> SUFFICES ASSUME r # Absent PROVE r.last <= k /\ r.read <= k /\ r.mention <= k
    BY DEF BehindRow
  <2>1. r.last \in Nat /\ r.read \in Nat /\ r.mention \in Nat
    BY <1>1 DEF RowOK, NumberedRow
  <2>2. r.last <= n /\ r.read <= n /\ r.mention <= n
    BY <1>1 DEF BehindRow
  <2> QED BY <2>1, <2>2
<1>2. ASSUME NEW a, AnswerOK(a), BehindAnswer(n, a) PROVE BehindAnswer(k, a)
  <2>1. CASE a.to \in {"list", "restore"}
    BY <1>1, <1>2, <2>1 DEF AnswerOK, BehindAnswer
  <2>2. CASE a.to = "read"
    <3>1. a.read \in Nat /\ a.read <= n
      BY <1>2, <2>2 DEF AnswerOK, BehindAnswer
    <3>2. a.read <= k
      BY <3>1
    <3> QED BY <2>2, <3>2 DEF BehindAnswer
  <2>3. CASE a.to = "send"
    <3>1. a.seq \in Nat /\ a.seq <= n
      BY <1>2, <2>3 DEF AnswerOK, BehindAnswer
    <3>2. a.seq <= k
      BY <3>1
    <3> QED BY <2>3, <3>2 DEF BehindAnswer
  <2> QED BY <2>1, <2>2, <2>3 DEF BehindAnswer
<1>3. ASSUME NEW e, EventOK(e), BehindEvent(n, e) PROVE BehindEvent(k, e)
  <2> SUFFICES ASSUME e.name \in {"created", "mentioned"} PROVE e.seq <= k
    BY DEF BehindEvent
  <2>1. e.seq \in Nat /\ e.seq <= n
    BY <1>3 DEF EventOK, BehindEvent
  <2> QED BY <2>1
<1> QED BY <1>1, <1>2, <1>3

\* What the server lists is what it has.
LEMMA ListItemBehind ==
  ASSUME NEW s \in ServerRow, ServerBounds(s)
  PROVE  BehindRow(s.last, ListItem(s))
BY DEF ListItem, BehindRow, ServerBounds, ServerRow

\* A message that the server has leaves a row that is behind.
LEMMA WithMessageBehind ==
  ASSUME NEW n \in Nat, NEW r, RowOK(r), BehindRow(n, r), NEW seq \in Nat, seq <= n,
         NEW countUnread \in BOOLEAN
  PROVE  BehindRow(n, WithMessage(r, seq, countUnread))
<1>1. CASE r = Absent \/ seq < r.last
  BY <1>1 DEF WithMessage
<1>2. CASE r # Absent /\ ~(seq < r.last)
  <2> DEFINE unread == IF countUnread /\ seq > r.last /\ seq > r.read
                       THEN r.unread + 1 ELSE r.unread
  <2>1. WithMessage(r, seq, countUnread) = [r EXCEPT !.last = seq, !.unread = unread]
    BY <1>2 DEF WithMessage
  <2>2. r \in NumberedRow /\ r.read <= n /\ r.mention <= n
    BY <1>2 DEF RowOK, BehindRow
  <2> HIDE DEF unread
  <2> QED BY <2>1, <2>2 DEF BehindRow, NumberedRow
<1> QED BY <1>1, <1>2

\* So does every answer, and every event.
LEMMA AnsweredBehind ==
  ASSUME NEW n \in Nat, NEW r, RowOK(r), BehindRow(n, r),
         NEW a, AnswerOK(a), BehindAnswer(n, a)
  PROVE  BehindRow(n, RowAnswered(r, a))
<1>1. CASE a.to \in {"list", "restore"}
  BY <1>1 DEF RowAnswered, BehindAnswer
<1>2. CASE a.to = "read"
  <2>1. RowAnswered(r, a) = WithRead(r, a.read, a.unread)
    BY <1>2 DEF RowAnswered
  <2>2. a.read <= n
    BY <1>2 DEF BehindAnswer
  <2>3. CASE r = Absent
    BY <2>1, <2>3 DEF WithRead
  <2>4. CASE r # Absent
    <3>1. r \in NumberedRow /\ r.last <= n /\ r.mention <= n
      BY <2>4 DEF RowOK, BehindRow
    <3>2. WithRead(r, a.read, a.unread) = [r EXCEPT !.read = a.read, !.unread = a.unread]
      BY <2>4 DEF WithRead
    <3> QED BY <2>1, <2>2, <3>1, <3>2 DEF BehindRow, NumberedRow
  <2> QED BY <2>3, <2>4
<1>3. CASE a.to \in {"pin", "unpin"}
  <2>1. RowAnswered(r, a) = WithPin(r, a.to = "pin")
    BY <1>3 DEF RowAnswered
  <2> QED BY <2>1 DEF WithPin, BehindRow, RowOK, NumberedRow
<1>4. CASE a.to = "dismiss"
  BY <1>4 DEF RowAnswered, BehindRow
<1>5. CASE a.to = "send"
  <2>1. RowAnswered(r, a) = WithMessage(r, a.seq, FALSE)
    BY <1>5 DEF RowAnswered
  <2> QED BY <1>5, <2>1, WithMessageBehind DEF AnswerOK, BehindAnswer
<1> QED BY <1>1, <1>2, <1>3, <1>4, <1>5 DEF AnswerOK, RowRequests

\* An event leaves the row behind the server it tells of.
LEMMA NotifiedBehind ==
  ASSUME NEW n \in Nat, NEW r, RowOK(r), BehindRow(n, r),
         NEW e, EventOK(e), BehindEvent(n, e)
  PROVE  BehindRow(n, Notified(r, e))
<1>1. CASE e.name = "created"
  <2> DEFINE count == ~e.own /\ ~open
  <2>1. count \in BOOLEAN /\ e.seq \in Nat /\ e.seq <= n
    BY <1>1 DEF EventOK, BehindEvent
  <2>2. Notified(r, e) = WithMessage(r, e.seq, count)
    BY <1>1 DEF Notified
  <2> HIDE DEF count
  <2> QED BY <2>1, <2>2, WithMessageBehind
<1>2. CASE e.name = "mentioned"
  <2>1. Notified(r, e) = WithMention(r, e.seq)
    BY <1>2 DEF Notified
  <2>2. e.seq <= n
    BY <1>2 DEF BehindEvent
  <2> QED BY <2>1, <2>2 DEF WithMention, Higher, BehindRow, RowOK, NumberedRow
<1>3. CASE e.name = "pin_updated"
  <2>1. Notified(r, e) = WithPin(r, e.pinned)
    BY <1>3 DEF Notified
  <2> QED BY <2>1 DEF WithPin, BehindRow, RowOK, NumberedRow
<1>4. CASE e.name \in {"removed", "restored"}
  BY <1>4 DEF Notified, BehindRow
<1> QED BY <1>1, <1>2, <1>3, <1>4 DEF EventOK

\* The invariant after a step: the server goes on, and what is new is behind it.
LEMMA BehindStep ==
  ASSUME ListInv, BehindInv, server'.last \in Nat, server.last <= server'.last,
         ServerBounds(server'), row' = row \/ BehindRow(server'.last, row'),
         \A a \in answers' \ answers : BehindAnswer(server'.last, a),
         \A e \in events' \ events : BehindEvent(server'.last, e)
  PROVE  BehindInv'
<1>1. server.last \in Nat
  BY DEF ListInv, ServerRow
<1>2. /\ \A r : RowOK(r) /\ BehindRow(server.last, r) => BehindRow(server'.last, r)
      /\ \A a : AnswerOK(a) /\ BehindAnswer(server.last, a) => BehindAnswer(server'.last, a)
      /\ \A e : EventOK(e) /\ BehindEvent(server.last, e) => BehindEvent(server'.last, e)
  BY <1>1, BehindStays
<1>3. BehindRow(server'.last, row')
  BY <1>2 DEF ListInv, BehindInv
<1>4. \A a \in answers' : BehindAnswer(server'.last, a)
  BY <1>2 DEF ListInv, BehindInv
<1>5. \A e \in events' : BehindEvent(server'.last, e)
  BY <1>2 DEF ListInv, BehindInv
<1> QED BY <1>3, <1>4, <1>5 DEF BehindInv

\* Published events are the only new ones.
LEMMA OnlyPublished ==
  ASSUME NEW es, PublishToList(es)
  PROVE  events' \ events \subseteq es
BY DEF PublishToList

\* The server writes nothing that it does not have.
LEMMA ServedBehind ==
  ASSUME MaxWrites \in Nat, ListInv, BehindInv, NEW request \in RowRequests, Serve(request)
  PROVE  BehindInv'
<1>1. /\ server \in ServerRow /\ ServerBounds(server) /\ row' = row
      /\ server.last \in Nat /\ server.read \in Nat /\ server.hidden \in Nat
      /\ server.mention \in Nat
  BY DEF ListInv, BehindInv, Serve, ServerRow
<1>2. 0 <= server.last /\ server.last <= server.last
  BY <1>1
<1>3. ASSUME server.last <= MaxWrites
      PROVE  /\ server.last + 1 \in Nat /\ server.last <= server.last + 1
             /\ server.last + 1 <= MaxWrites + 1 /\ server.hidden <= server.last + 1
             /\ server.mention <= server.last + 1 /\ server.read <= server.last + 1
             /\ server.last + 1 <= server.last + 1
  BY <1>1, <1>3 DEF ServerBounds
<1>4. CASE request = "list"
  <2> DEFINE a == [to |-> "list", row |-> ListItem(server)]
  <2>1. BehindAnswer(server.last, a)
    BY <1>1, ListItemBehind DEF BehindAnswer
  <2> HIDE DEF a
  <2>2. server' = server /\ events' = events /\ answers' = answers \cup {a}
    BY <1>4 DEF Serve, ServeConversations, a
  <2> QED BY <1>1, <1>2, <2>1, <2>2, BehindStep
<1>5. CASE request = "read"
  <2> DEFINE a == [to |-> "read", read |-> server.last, unread |-> 0]
  <2>1. BehindAnswer(server.last, a)
    BY <1>2 DEF BehindAnswer
  <2> HIDE DEF a
  <2>2. /\ server' = [server EXCEPT !.read = server.last]
        /\ events' = events /\ answers' = answers \cup {a}
    BY <1>5 DEF Serve, ServeRead, a
  <2>3. server'.last = server.last /\ ServerBounds(server')
    BY <1>1, <1>2, <2>2 DEF ServerRow, ServerBounds
  <2> QED BY <1>1, <1>2, <2>1, <2>2, <2>3, BehindStep
<1>6. CASE request \in {"pin", "unpin"}
  <2> DEFINE a == [to |-> request]
             e == [name |-> "pin_updated", pinned |-> request = "pin"]
             es == IF server.pinned = (request = "pin") THEN {} ELSE {e}
  <2>1. ServePin(request)
    BY <1>6 DEF Serve
  <2>2. BehindAnswer(server.last, a)
    BY <1>6 DEF BehindAnswer
  <2>3. \A x \in es : BehindEvent(server.last, x)
    BY DEF BehindEvent
  <2>4. answers' = answers \cup {a} /\ PublishToList(es)
    BY <2>1 DEF ServePin
  <2>5. server'.last = server.last /\ ServerBounds(server')
    BY <1>1, <2>1 DEF ServePin, ServerRow, ServerBounds
  <2> HIDE DEF a, e, es
  <2>6. events' \ events \subseteq es
    BY <2>4, OnlyPublished
  <2> QED BY <1>1, <1>2, <2>2, <2>3, <2>4, <2>5, <2>6, BehindStep
<1>7. CASE request = "dismiss"
  <2> DEFINE a == [to |-> "dismiss"]
             es == {[name |-> "removed"]}
  <2>1. ServeDismiss
    BY <1>7 DEF Serve
  <2>2. BehindAnswer(server.last, a) /\ \A x \in es : BehindEvent(server.last, x)
    BY DEF BehindAnswer, BehindEvent
  <2>3. answers' = answers \cup {a} /\ PublishToList(es)
    BY <2>1 DEF ServeDismiss
  <2>4. server'.last = server.last /\ ServerBounds(server')
    BY <1>1, <1>2, <2>1 DEF ServeDismiss, ServerRow, ServerBounds
  <2> HIDE DEF a, es
  <2>5. events' \ events \subseteq es
    BY <2>3, OnlyPublished
  <2> QED BY <1>1, <1>2, <2>2, <2>3, <2>4, <2>5, BehindStep
<1>8. CASE request = "restore"
  <2> DEFINE a == [to |-> "restore", row |-> ListItem(server')]
             es == IF server.hidden # 0 THEN {[name |-> "restored"]} ELSE {}
  <2>1. ServeRestore
    BY <1>8 DEF Serve
  <2>2. /\ server'.last = server.last /\ ServerBounds(server')
        /\ server' \in ServerRow
    BY <1>1, <1>2, <2>1 DEF ServeRestore, ServerRow, ServerBounds
  <2>3. BehindRow(server.last, ListItem(server'))
    BY <2>2, ListItemBehind
  <2>4. BehindAnswer(server.last, a) /\ \A x \in es : BehindEvent(server.last, x)
    BY <2>3 DEF BehindAnswer, BehindEvent
  <2>5. answers' = answers \cup {a} /\ PublishToList(es)
    BY <2>1 DEF ServeRestore
  <2> HIDE DEF a, es
  <2>6. events' \ events \subseteq es
    BY <2>5, OnlyPublished
  <2> QED BY <1>1, <1>2, <2>2, <2>4, <2>5, <2>6, BehindStep
<1>9. CASE request = "send"
  <2> DEFINE n == server.last + 1
  <2> DEFINE a == [to |-> "send", seq |-> n]
             es == {[name |-> "created", seq |-> n, own |-> TRUE]}
  <2>1. ServeMessage
    BY <1>9 DEF Serve
  <2>2. server.last <= MaxWrites /\ server' = [server EXCEPT !.last = n, !.read = n]
    BY <2>1 DEF ServeMessage
  <2>3. n <= n
    BY <1>1
  <2>4. BehindAnswer(n, a) /\ \A x \in es : BehindEvent(n, x)
    BY <2>3 DEF BehindAnswer, BehindEvent
  <2>5. answers' = answers \cup {a} /\ PublishToList(es)
    BY <2>1 DEF ServeMessage
  <2>6. /\ n \in Nat /\ server.last <= n /\ n <= MaxWrites + 1 /\ server.hidden <= n
        /\ server.mention <= n
    BY <1>3, <2>2
  <2> HIDE DEF a, es, n
  <2>7. server'.last = n /\ ServerBounds(server')
    BY <1>1, <2>2, <2>3, <2>6 DEF ServerRow, ServerBounds
  <2>8. events' \ events \subseteq es
    BY <2>5, OnlyPublished
  <2> QED BY <1>1, <2>4, <2>5, <2>6, <2>7, <2>8, BehindStep
<1> QED BY <1>4, <1>5, <1>6, <1>7, <1>8, <1>9 DEF RowRequests

\* Somebody else writes.
LEMMA SomebodyWritesBehind ==
  ASSUME MaxWrites \in Nat, ListInv, BehindInv, SomebodyWrites
  PROVE  BehindInv'
<1> DEFINE n == server.last + 1
<1>1. /\ server \in ServerRow /\ ServerBounds(server) /\ row' = row /\ answers' = answers
      /\ server.last \in Nat /\ server.read \in Nat /\ server.hidden \in Nat
      /\ server.mention \in Nat /\ server.last <= MaxWrites
  BY DEF ListInv, BehindInv, SomebodyWrites, ServerRow
<1>2. /\ n \in Nat /\ server.last <= n /\ n <= MaxWrites + 1 /\ server.hidden <= n
      /\ server.mention <= n /\ server.read <= n /\ n <= n
  BY <1>1 DEF ServerBounds
<1>3. PICK mention \in BOOLEAN :
        /\ server' = [server EXCEPT !.last = @ + 1,
                                    !.mention = IF mention THEN server.last + 1 ELSE @]
        /\ PublishToList(
               {[name |-> "created", seq |-> server.last + 1, own |-> FALSE]}
               \cup (IF mention THEN {[name |-> "mentioned", seq |-> server.last + 1]}
                     ELSE {}))
  BY Zenon DEF SomebodyWrites
<1> DEFINE m == IF mention THEN n ELSE server.mention
<1>4. server' = [server EXCEPT !.last = n, !.mention = m] /\ m <= n
  BY <1>2, <1>3
<1> HIDE DEF m
<1>5. \A x \in events' \ events : BehindEvent(n, x)
  <2> DEFINE es == {[name |-> "created", seq |-> n, own |-> FALSE]}
               \cup (IF mention THEN {[name |-> "mentioned", seq |-> n]} ELSE {})
  <2>1. \A x \in es : x.seq = n
    OBVIOUS
  <2>2. \A x \in es : BehindEvent(n, x)
    BY <1>2, <2>1 DEF BehindEvent
  <2>3. PublishToList(es)
    BY <1>3
  <2> HIDE DEF es
  <2>4. events' \ events \subseteq es
    BY <2>3, OnlyPublished
  <2> QED BY <2>2, <2>4
<1> HIDE DEF n
<1>6. server'.last = n /\ ServerBounds(server')
  BY <1>1, <1>2, <1>4 DEF ServerRow, ServerBounds
<1> QED BY <1>1, <1>2, <1>5, <1>6, BehindStep

\* Every step keeps the row, the answers and the events behind the server.
LEMMA BehindKept ==
  ASSUME MaxWrites \in Nat, ListInv, BehindInv, [WebListNext]_wlVars
  PROVE  BehindInv'
<1>1. server.last \in Nat
  BY DEF ListInv, ServerRow
<1>2. CASE SomebodyWrites
  BY <1>2, SomebodyWritesBehind
<1>3. ASSUME NEW request \in RowRequests, Serve(request) PROVE BehindInv'
  BY <1>3, ServedBehind
<1>4. CASE HandleAnswerTo(RowRequests)
  <2>1. PICK a \in answers : /\ answers' = answers \ {a}
                             /\ row' = RowAnswered(row, a)
                             /\ UNCHANGED <<server, events>>
    BY <1>4 DEF HandleAnswerTo
  <2>2. BehindRow(server.last, row')
    BY <1>1, <2>1, AnsweredBehind DEF ListInv, BehindInv
  <2> QED BY <2>1, <2>2 DEF BehindInv
<1>5. CASE HandleEvent
  <2>1. PICK e \in events : /\ events' = events \ {e}
                            /\ row' = Notified(row, e)
                            /\ UNCHANGED <<server, answers>>
    BY <1>5 DEF HandleEvent
  <2>2. BehindRow(server.last, row')
    BY <1>1, <2>1, NotifiedBehind DEF ListInv, BehindInv
  <2> QED BY <2>1, <2>2 DEF BehindInv
<1>6. CASE Disconnect
  BY <1>6 DEF Disconnect, BehindInv
<1>7. CASE ListRequestFails
  <2>1. answers' \subseteq answers /\ UNCHANGED <<server, row, events>>
    BY <1>7 DEF ListRequestFails
  <2> QED BY <2>1 DEF BehindInv
<1>8. CASE RefreshConversations \/ MarkRead \/ OpenOrClose \/ Reconnect \/ UNCHANGED wlVars
  BY <1>8 DEF RefreshConversations, MarkRead, OpenOrClose, Reconnect, wlVars, BehindInv
<1>9. ASSUME NEW request \in OtherRequests, Change(request) PROVE BehindInv'
  BY <1>9 DEF Change, BehindInv
<1> QED BY <1>2, <1>3, <1>4, <1>5, <1>6, <1>7, <1>8, <1>9 DEF WebListNext

\* The first row is the server's.
LEMMA BehindInitially ==
  ASSUME MaxWrites \in Nat, WebListInit
  PROVE  BehindInv
<1>1. server \in ServerRow /\ ServerBounds(server)
  BY DEF WebListInit, ServerRow, ServerBounds
<1>2. BehindRow(server.last, row)
  BY <1>1, ListItemBehind DEF WebListInit
<1> QED BY <1>1, <1>2 DEF WebListInit, BehindInv

\* The invariant from which the theorems follow.
LEMMA ListInvariant ==
  ASSUME MaxWrites \in Nat
  PROVE  WebListSpec => [](ListInv /\ BehindInv)
<1>1. WebListInit => BehindInv
  BY BehindInitially
<1>2. ListInv /\ BehindInv /\ [WebListNext]_wlVars => BehindInv'
  BY BehindKept
<1> QED BY <1>1, <1>2, ListInitially, ListStep, PTL DEF WebListSpec

(* The row names no message, read position or mention beyond the server's. *)
NeverAhead ==
    row # Absent => /\ row.last <= server.last /\ row.read <= server.last
                    /\ row.mention <= server.last

\* In whatever order refreshes, events and answers arrive, the list shows no
\* message, no read position and no mention that the server does not have
\* (ClientDataProvider: refreshConversations, applyConversationMessageToList,
\* markConversationRead, updateConversationLastMentionedSeq).
THEOREM ListNeverAhead ==
  ASSUME MaxWrites \in Nat
  PROVE  WebListSpec => []NeverAhead
<1>1. BehindInv => NeverAhead
  BY DEF BehindInv, BehindRow, NeverAhead
<1> QED BY <1>1, ListInvariant, PTL

(* What the invariants leave out of the types.                             *)
ListCounts ==
    /\ open \in BOOLEAN /\ connected \in BOOLEAN /\ asked \subseteq RowRequests
    /\ changes \in 0..MaxChanges /\ losses \in 0..MaxLosses

\* Every step keeps them.
LEMMA ListCountsKept ==
  ASSUME MaxChanges \in Nat, MaxLosses \in Nat, ListCounts, [WebListNext]_wlVars
  PROVE  ListCounts'
<1>1. changes \in 0..MaxChanges /\ losses \in 0..MaxLosses /\ asked \subseteq RowRequests
  BY DEF ListCounts
<1>2. /\ changes' = changes \/ (changes < MaxChanges /\ changes' = changes + 1)
      /\ losses' = losses \/ (losses < MaxLosses /\ losses' = losses + 1)
  BY DEF WebListNext, wlVars, SomebodyWrites, RefreshConversations, MarkRead, OpenOrClose,
     Serve, Change, HandleAnswerTo, HandleEvent, Disconnect, Reconnect, ListRequestFails
<1>3. open' \in {open, ~open} /\ connected' \in {connected, TRUE, FALSE}
  BY DEF WebListNext, wlVars, SomebodyWrites, RefreshConversations, MarkRead, OpenOrClose,
     Serve, Change, HandleAnswerTo, HandleEvent, Disconnect, Reconnect, ListRequestFails
<1>4. asked' \subseteq asked \cup RowRequests
  <2>1. /\ "list" \in RowRequests /\ "read" \in RowRequests
        /\ \A request \in OtherRequests : request \in RowRequests
    BY DEF RowRequests, OtherRequests
  <2>2. CASE UNCHANGED asked
    BY <2>2
  <2>3. ASSUME NEW request \in RowRequests, Ask(request)
        PROVE  asked' \subseteq asked \cup RowRequests
    BY <2>3 DEF Ask
  <2>4. CASE RefreshConversations \/ MarkRead
    BY <2>1, <2>3, <2>4 DEF RefreshConversations, MarkRead
  <2>5. ASSUME NEW request \in OtherRequests, Change(request)
        PROVE  asked' \subseteq asked \cup RowRequests
    <3>1. request \in RowRequests /\ Ask(request)
      BY <2>1, <2>5 DEF Change
    <3> QED BY <3>1, <2>3
  <2>6. ASSUME NEW request \in RowRequests, Serve(request)
        PROVE  asked' \subseteq asked \cup RowRequests
    BY <2>6 DEF Serve
  <2>7. CASE HandleEvent \/ Reconnect
    BY <2>1, <2>7 DEF HandleEvent, Reconnect
  <2>8. CASE ListRequestFails
    BY <2>8 DEF ListRequestFails
  <2>9. CASE SomebodyWrites \/ OpenOrClose \/ HandleAnswerTo(RowRequests) \/ Disconnect
    BY <2>9 DEF SomebodyWrites, OpenOrClose, HandleAnswerTo, Disconnect
  <2> QED BY <2>2, <2>4, <2>5, <2>6, <2>7, <2>8, <2>9 DEF WebListNext, wlVars
<1>5. changes' \in 0..MaxChanges /\ losses' \in 0..MaxLosses
  BY <1>1, <1>2
<1> QED BY <1>1, <1>3, <1>4, <1>5 DEF ListCounts

\* The row, the server's row, requests and answers keep their types and bounds.
THEOREM WebListTypeCorrect ==
  ASSUME MaxWrites \in Nat, MaxChanges \in Nat, MaxLosses \in Nat
  PROVE  WebListSpec => []WebListTypeOK
<1>1. ASSUME WebListInit PROVE ListCounts
  <2>1. open = FALSE /\ connected = TRUE /\ asked = {} /\ changes = 0 /\ losses = 0
    BY <1>1 DEF WebListInit
  <2>2. changes \in 0..MaxChanges /\ losses \in 0..MaxLosses
    BY <2>1
  <2>3. open \in BOOLEAN /\ connected \in BOOLEAN /\ asked \subseteq RowRequests
    BY <2>1
  <2> QED BY <2>2, <2>3 DEF ListCounts
<1>2. ListCounts /\ [WebListNext]_wlVars => ListCounts'
  BY ListCountsKept
<1>3. ASSUME ListInv, BehindInv, ListCounts PROVE WebListTypeOK
  <2>1. /\ server.last \in Nat /\ server.read \in Nat /\ server.hidden \in Nat
        /\ server.mention \in Nat /\ ServerBounds(server)
    BY <1>3 DEF ListInv, BehindInv, ServerRow
  <2>2. /\ server.last \in RowSeqs /\ server.read \in 0..server.last
        /\ server.hidden \in 0..server.last /\ server.mention \in 0..server.last
    BY <2>1 DEF ServerBounds, RowSeqs
  <2>3. BadgeCountsOnce
    BY <1>3 DEF ListInv, RowOK, BadgeCountsOnce, CountsOnce
  <2>4. row \in Row \cup {Absent}
    <3> SUFFICES ASSUME row # Absent PROVE row \in Row
      OBVIOUS
    <3>1. /\ row \in NumberedRow /\ row.unread <= Beyond(row.last, row.read)
          /\ row.last <= server.last /\ row.read <= server.last /\ row.mention <= server.last
      BY <1>3 DEF ListInv, BehindInv, RowOK, BehindRow
    <3>2. /\ row.last \in Nat /\ row.read \in Nat /\ row.unread \in Nat /\ row.mention \in Nat
      BY <3>1 DEF NumberedRow
    <3>3. Beyond(row.last, row.read) <= row.last
      BY <3>2 DEF Beyond
    <3>4. Beyond(row.last, row.read) \in Nat
      BY <3>2 DEF Beyond
    <3>5. row.last <= MaxWrites + 1 /\ row.read <= MaxWrites + 1
          /\ row.unread <= MaxWrites + 1 /\ row.mention <= MaxWrites + 1
      BY <2>1, <3>1, <3>2, <3>3, <3>4 DEF ServerBounds
    <3>6. row.last \in RowSeqs /\ row.read \in RowSeqs /\ row.unread \in RowSeqs
          /\ row.mention \in RowSeqs
      BY <3>2, <3>5 DEF RowSeqs
    <3> QED BY <3>1, <3>6 DEF NumberedRow, Row
  <2> QED BY <1>3, <2>2, <2>3, <2>4 DEF WebListTypeOK, ListCounts
<1> QED BY <1>1, <1>2, <1>3, ListInvariant, PTL DEF WebListSpec
=============================================================================
