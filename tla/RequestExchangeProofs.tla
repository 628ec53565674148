----------------------- MODULE RequestExchangeProofs ------------------------
(***************************************************************************)
(* The properties of RequestCache and ResultIsOwn and AtMostOncePerRequest *)
(* of RequestExchange, for every set of ids, contents, connections and     *)
(* sizes, and every value of the limits and of the bounds.                 *)
(*                                                                         *)
(* The cache (CacheInv): an execution that is under way is the entry of    *)
(* its id and has one executor (ExecutorsInv), so that neither expiry nor  *)
(* eviction, which take completed entries only, separates it from those    *)
(* who wait for it; and an execution that is not an entry any more was     *)
(* dropped (EntriesInv), so that a second one of the same id comes after   *)
(* that.  Sums of sizes are cardinalities of sets of bytes, so that what   *)
(* leaves and what stays add up by the theorems about finite sets.         *)
(*                                                                         *)
(* The exchange (ExchangeInv): a read loop is in one request at a time and *)
(* what it executes, waits for or has got is an execution of that one      *)
(* (ServingInv); so is every response on its way (MessagesInv) and every   *)
(* response handed to a request (ResponsesInv).  Executions are never      *)
(* rewritten, which is why late and repeated messages do no harm.          *)
(***************************************************************************)
EXTENDS RequestExchange, FiniteSetTheorems, SequenceTheorems, WellFoundedInduction, TLAPS

(* Bytes counts the members of this set.                                   *)
Counted(S, f) == UNION {{e} \X (1..f[e]) : e \in S}

(* A byte is one of a member of S.                                         *)
LEMMA CountedMember ==
  ASSUME NEW S, NEW f, NEW p
  PROVE  p \in Counted(S, f) <=> \E e \in S : p \in {e} \X (1..f[e])
  BY DEF Counted

(* The bytes of finitely many responses are finitely many.                 *)
LEMMA CountedFinite ==
  ASSUME NEW S, IsFiniteSet(S), NEW f, \A e \in S : f[e] \in Nat
  PROVE  IsFiniteSet(Counted(S, f))
  <1> DEFINE F == {{e} \X (1..f[e]) : e \in S}
             g == [e \in S |-> {e} \X (1..f[e])]
  <1>1. g \in Surjection(S, F)
    BY DEF Surjection
  <1>2. IsFiniteSet(F)
    <2> HIDE DEF F, g
    <2> QED BY <1>1, FS_Surjection
  <1>3. ASSUME NEW T \in F PROVE IsFiniteSet(T)
    <2>1. PICK e \in S : T = {e} \X (1..f[e])
      OBVIOUS
    <2>2. IsFiniteSet({e})
      BY FS_Singleton
    <2>3. IsFiniteSet(1..f[e])
      <3>1. 0 \in Int /\ 1 \in Int /\ f[e] \in Int
        OBVIOUS
      <3> QED BY <3>1, FS_Interval
    <2>4. IsFiniteSet({e} \X (1..f[e]))
      BY <2>2, <2>3, FS_Product
    <2> QED BY <2>1, <2>4
  <1>4. IsFiniteSet(UNION F)
    <2> HIDE DEF F
    <2> QED BY <1>2, <1>3, FS_UNION
  <1> QED BY <1>4 DEF Counted

(* The bytes of two sets without a common member add up.                   *)
LEMMA BytesAdd ==
  ASSUME NEW S, IsFiniteSet(S), NEW T, IsFiniteSet(T), S \cap T = {},
         NEW f, \A e \in S \cup T : f[e] \in Nat
  PROVE  /\ Bytes(S, f) \in Nat /\ Bytes(T, f) \in Nat
         /\ Bytes(S \cup T, f) = Bytes(S, f) + Bytes(T, f)
  <1>1. IsFiniteSet(Counted(S, f)) /\ IsFiniteSet(Counted(T, f))
    BY CountedFinite
  <1>2. Counted(S \cup T, f) = Counted(S, f) \cup Counted(T, f)
    BY DEF Counted
  <1>3. Counted(S, f) \cap Counted(T, f) = {}
    <2> SUFFICES ASSUME NEW p \in Counted(S, f), p \in Counted(T, f) PROVE FALSE
      OBVIOUS
    <2>1. PICK d \in S : p \in {d} \X (1..f[d])
      BY CountedMember
    <2>2. PICK e \in T : p \in {e} \X (1..f[e])
      BY CountedMember
    <2>3. p[1] = d /\ p[1] = e
      BY <2>1, <2>2
    <2> QED BY <2>3
  <1>4. Cardinality({}) = 0
    BY FS_EmptySet
  <1>5. Cardinality(Counted(S, f)) \in Nat /\ Cardinality(Counted(T, f)) \in Nat
    BY <1>1, FS_CardinalityType
  <1>6. Cardinality(Counted(S, f) \cup Counted(T, f))
          = Cardinality(Counted(S, f)) + Cardinality(Counted(T, f)) - 0
    BY <1>1, <1>3, <1>4, FS_Union
  <1>7. /\ Bytes(S, f) = Cardinality(Counted(S, f))
        /\ Bytes(T, f) = Cardinality(Counted(T, f))
        /\ Bytes(S \cup T, f) = Cardinality(Counted(S \cup T, f))
    BY DEF Bytes, Counted
  <1>8. Bytes(S \cup T, f) = Bytes(S, f) + Bytes(T, f) - 0
    BY <1>2, <1>6, <1>7, Zenon
  <1>9. Bytes(S, f) \in Nat /\ Bytes(T, f) \in Nat
    BY <1>5, <1>7, Zenon
  <1> HIDE DEF Bytes
  <1> QED BY <1>8, <1>9

(* One response takes its own size.                                        *)
LEMMA BytesOfOne ==
  ASSUME NEW e, NEW f, f[e] \in Nat
  PROVE  Bytes({e}, f) = f[e]
  <1>1. UNION {{d} \X (1..f[d]) : d \in {e}} = {e} \X (1..f[e])
    OBVIOUS
  <1>2. IsFiniteSet({e}) /\ Cardinality({e}) = 1
    BY FS_Singleton
  <1>3. IsFiniteSet(1..f[e]) /\ Cardinality(1..f[e]) = f[e]
    <2> DEFINE N == f[e]
    <2>1. N \in Nat
      OBVIOUS
    <2> HIDE DEF N
    <2>2. IsFiniteSet(1..N) /\ Cardinality(1..N) = N
      <3>1. 1 \in Int /\ N \in Int /\ (IF 1 > N THEN 0 ELSE N - 1 + 1) = N
        BY <2>1
      <3> QED BY <3>1, FS_Interval
    <2> QED BY <2>2 DEF N
  <1>4. Cardinality({e} \X (1..f[e])) = 1 * f[e]
    <2> DEFINE E == {e}
               T == 1..f[e]
    <2>1. IsFiniteSet(E) /\ IsFiniteSet(T) /\ Cardinality(E) = 1 /\ Cardinality(T) = f[e]
      BY <1>2, <1>3
    <2> HIDE DEF E, T
    <2>2. Cardinality(E \X T) = Cardinality(E) * Cardinality(T)
      BY <2>1, FS_Product
    <2>3. Cardinality(E \X T) = 1 * f[e]
      BY <2>1, <2>2
    <2> QED BY <2>3 DEF E, T
  <1> QED BY <1>1, <1>4 DEF Bytes

(* Only the sizes of the members count.                                    *)
LEMMA BytesSame ==
  ASSUME NEW S, NEW f, NEW g, \A e \in S : f[e] = g[e]
  PROVE  Bytes(S, f) = Bytes(S, g)
  <1>1. {{e} \X (1..f[e]) : e \in S} = {{e} \X (1..g[e]) : e \in S}
    OBVIOUS
  <1> QED BY <1>1 DEF Bytes

-----------------------------------------------------------------------------
(* Victims says what it takes away and why in a LET: the same, by name.    *)
OldestFirst(done, order, V) == \A d \in V, e \in done \ V : <<d, e>> \in order
TooMuch(done, sizeOf, total, V) == \/ Cardinality(done \ V) > MaxEntries
                                   \/ Minus(total, Bytes(V, sizeOf)) > MaxBytes
Enough(done, order, sizeOf, total, V) ==
  OldestFirst(done, order, V) /\ (V = done \/ ~TooMuch(done, sizeOf, total, V))

(* The loop of enforceLimitsLocked evicts V.                               *)
Evicts(V, done, order, sizeOf, total) == V = Victims(done, order, sizeOf, total)

(* The loop finds what to evict: a least set of completed entries, oldest  *)
(* first, that is enough.                                                  *)
LEMMA VictimsExist ==
  ASSUME NEW done, IsFiniteSet(done), NEW order, NEW sizeOf, NEW total,
         NEW V, Evicts(V, done, order, sizeOf, total)
  PROVE  /\ V \subseteq done
         /\ Enough(done, order, sizeOf, total, V)
         /\ \A W \in SUBSET V : Enough(done, order, sizeOf, total, W) => W = V
  <1> DEFINE Goal(U) == Enough(done, order, sizeOf, total, U)
             C == {U \in SUBSET done : Goal(U)}
  <1>1. done \in C
    BY DEF Enough, OldestFirst
  <1>2. C \subseteq FiniteSubsetsOf(done)
    BY FS_Subset DEF FiniteSubsetsOf
  <1>3. PICK U \in C : \A W \in C : <<W, U>> \notin StrictSubsetOrdering(done)
    <2> HIDE DEF C
    <2> QED BY <1>1, <1>2, FS_StrictSubsetOrderingWellFounded, WFMin
  <1>4. ASSUME NEW W \in SUBSET U, Goal(W) PROVE W = U
    <2>1. W \in C
      BY <1>4
    <2> QED BY <1>3, <2>1 DEF StrictSubsetOrdering
  <1>5. V = CHOOSE X \in SUBSET done : Goal(X) /\ \A W \in SUBSET X : Goal(W) => W = X
    BY DEF Evicts, Victims, Enough, OldestFirst, TooMuch
  <1>6. U \in SUBSET done /\ Goal(U) /\ \A W \in SUBSET U : Goal(W) => W = U
    BY <1>3, <1>4
  <1> HIDE DEF Goal
  <1>7. V \in SUBSET done /\ Goal(V) /\ \A W \in SUBSET V : Goal(W) => W = V
    BY <1>5, <1>6
  <1> QED BY <1>7 DEF Goal

-----------------------------------------------------------------------------
(* The type of what the cache remembers.                                   *)
Executions == [key : Keys, content : Contents, size : Sizes \cup {0}]

CacheTypes ==
  /\ entry \in [Keys -> 0..MaxRuns]
  /\ runs \in Seq(Executions)
  /\ Len(runs) <= MaxRuns
  /\ stale \subseteq Runs /\ dropped \subseteq Runs
  /\ expiries \in 0..MaxExpiries

(* The type of what the callers are at.                                    *)
CallerTypes ==
  /\ cpc \in [Callers -> {"idle", "executing", "waiting", "answered"}]
  /\ asked \in [Callers -> Contents \cup {NoContent}]
  /\ on \in [Callers -> 0..MaxRuns]
  /\ answer \in [Callers -> 0..MaxRuns \cup {Conflict}]

(* An entry is an execution of its own id, and an execution without an     *)
(* entry was dropped.                                                      *)
EntriesInv ==
  /\ \A k \in Keys : entry[k] # None =>
       entry[k] \in 1..Len(runs) /\ runs[entry[k]].key = k
  /\ \A e \in 1..Len(runs) : e \in Cached \/ e \in dropped

(* An execution under way is the entry of its id and has one executor.     *)
ExecutorsInv ==
  /\ \A c \in Callers : cpc[c] = "executing" =>
       /\ on[c] \in 1..Len(runs) /\ ~Completed(on[c])
       /\ entry[runs[on[c]].key] = on[c]
  /\ \A c, d \in Callers : cpc[c] = "executing" /\ cpc[d] = "executing" /\ on[c] = on[d]
       => c = d
  /\ \A e \in Cached : Completed(e) \/ \E c \in Callers : cpc[c] = "executing" /\ on[c] = e

(* A waiter waits for an execution that has ended or is under way.         *)
WaitersInv ==
  \A c \in Callers : cpc[c] = "waiting" =>
    /\ on[c] \in 1..Len(runs)
    /\ Completed(on[c]) \/ \E d \in Callers : cpc[d] = "executing" /\ on[d] = on[c]

(* An answer is the conflict or a response that is there.                  *)
AnswersInv ==
  \A c \in Callers : cpc[c] = "answered" =>
    answer[c] = Conflict \/ (answer[c] \in 1..Len(runs) /\ Completed(answer[c]))

(* The two properties that need the rest are conjuncts of it.              *)
CacheInv ==
  /\ CacheTypes /\ CallerTypes /\ Orders(older, Cached)
  /\ EntriesInv /\ ExecutorsInv /\ WaitersInv /\ AnswersInv
  /\ WithinLimits /\ AtMostOncePerRequest

-----------------------------------------------------------------------------
(* The answer a is one to the request r of the requester.                  *)
IsOwn(r, a) ==
  a = Conflict \/ /\ a \in 1..Len(runs) /\ Completed(a)
                  /\ runs[a].key = r /\ runs[a].content = Own

(* What the read loop of c is in, for the request r.                       *)
ServesOwn(c, r) ==
  /\ cpc[c] \in {"executing", "waiting"} =>
       runs[on[c]].key = r /\ runs[on[c]].content = Own
  /\ cpc[c] = "answered" => IsOwn(r, answer[c])

(* A read loop in a request serves exactly that one.                       *)
ServingInv ==
  /\ serving \in [Conns -> SUBSET Keys]
  /\ \A c \in Conns : cpc[c] # "idle" => \E r \in Keys : serving[c] = {r} /\ ServesOwn(c, r)

(* So is a response on its way, which names its request.                   *)
OwnMessage(m) == IsOwn(m[1], m[2])

(* Of everything on its way.                                               *)
MessagesInv ==
  /\ toServer \in [Conns -> Seq(Keys)]
  /\ toClient \in [Conns -> Seq(Keys \X Responses)]
  /\ \A c \in Conns : \A i \in 1..Len(toClient[c]) : OwnMessage(toClient[c][i])

(* And of everything that was handed to a request, or returned.            *)
ResponsesInv ==
  /\ respCh \in [Keys -> Responses \cup {None}]
  /\ result \in [Keys -> Responses \cup {None}]
  /\ \A r \in Keys : /\ respCh[r] # None => IsOwn(r, respCh[r])
                     /\ result[r] # None => IsOwn(r, result[r])

(* The type of the requester's and the connections' own state.             *)
RequesterTypes ==
  /\ rpc \in [Keys -> {"new", "sending", "waiting", "done", "failed"}]
  /\ attempt \in [Keys -> 0..MaxRetries]
  /\ current \in Conns \cup {NoConn}
  /\ cliOpen \in [Conns -> BOOLEAN] /\ srvOpen \in [Conns -> BOOLEAN]
  /\ failures \in 0..MaxFailures

(* The exchange needs the cache's invariant: an execution keeps its id     *)
(* and its content, and a waiter is answered by one of its own id.         *)
ExchangeInv ==
  CacheInv /\ ServingInv /\ MessagesInv /\ ResponsesInv /\ RequesterTypes

-----------------------------------------------------------------------------
(* Without entries that leave, the order is one of those that stay.        *)
LEMMA OrdersWithout ==
  ASSUME NEW o, NEW S, NEW T, Orders(o, S)
  PROVE  Orders(Without(o, T), S \ T)
  BY DEF Orders, Without

(* An execution that is touched is in the order, as the last one.          *)
LEMMA OrdersTouched ==
  ASSUME NEW o, NEW S, NEW e, Orders(o, S)
  PROVE  Orders(Touched(o, S, e), S \cup {e})
  <1> DEFINE R == S \cup {e}
             t == Touched(o, S, e)
  <1>1. t \subseteq R \X R
    BY DEF Orders, Touched
  <1>2. ASSUME NEW a \in R, NEW b \in R
        PROVE  <<a, b>> \in t <=> \/ a # e /\ b # e /\ <<a, b>> \in o
                                  \/ a # e /\ b = e
    BY DEF Orders, Touched
  <1> HIDE DEF t
  <1>3. \A a, b \in R : <<a, b>> \in t <=> a # b /\ <<b, a>> \notin t
    BY <1>2 DEF Orders
  <1>4. \A a, b, d \in R : <<a, b>> \in t /\ <<b, d>> \in t => <<a, d>> \in t
    BY <1>2 DEF Orders
  <1> QED BY <1>1, <1>3, <1>4 DEF t, Orders

(* Forgetting S takes exactly S out of the map.                            *)
LEMMA ForgettingCached ==
  ASSUME entry \in [Keys -> 0..MaxRuns], NEW S,
         NEW known, known = Forgetting(S)
  PROVE  /\ known \in [Keys -> 0..MaxRuns]
         /\ {known[k] : k \in Keys} \ {None} = Cached \ S
         /\ \A k \in Keys : IF entry[k] \in S THEN known[k] = None ELSE known[k] = entry[k]
  BY CacheAssumption DEF Forgetting, Cached, None

(* The map holds finitely many executions.                                 *)
LEMMA CachedFinite ==
  ASSUME CacheTypes, EntriesInv
  PROVE  Cached \subseteq 1..Len(runs) /\ IsFiniteSet(1..Len(runs)) /\ IsFiniteSet(Cached)
  <1>1. Cached \subseteq 1..Len(runs)
    BY DEF Cached, EntriesInv
  <1>2. Len(runs) \in Int /\ 1 \in Int
    BY DEF CacheTypes
  <1>3. IsFiniteSet(1..Len(runs))
    BY <1>2, FS_Interval
  <1> QED BY <1>1, <1>3, FS_Subset

(* Every execution has a size, which is 0 until it has ended.              *)
LEMMA SizesTyped ==
  ASSUME CacheTypes
  PROVE  /\ DOMAIN runs = 1..Len(runs)
         /\ \A e \in 1..Len(runs) :
              /\ SizeNow[e] = runs[e].size /\ SizeNow[e] \in Nat
              /\ SizeNow[e] > 0 <=> Completed(e)
  <1>1. runs \in [1..Len(runs) -> Executions]
    BY ElementOfSeq, LenProperties DEF CacheTypes
  <1>2. ASSUME NEW e \in 1..Len(runs) PROVE runs[e].size \in Nat
    <2>1. runs[e] \in Executions
      BY <1>1
    <2>2. runs[e].size \in Sizes \cup {0}
      BY <2>1 DEF Executions
    <2>3. \A n \in Sizes \cup {0} : n \in Nat
      BY CacheAssumption
    <2> QED BY <2>2, <2>3, Zenon
  <1>3. DOMAIN runs = 1..Len(runs)
    BY <1>1
  <1> QED BY <1>2, <1>3 DEF SizeNow, Completed

(* What is subtracted for entries that leave is what they took.            *)
LEMMA MinusExact ==
  ASSUME NEW S, IsFiniteSet(S), NEW T \in SUBSET S, NEW f, \A e \in S : f[e] \in Nat
  PROVE  Minus(Bytes(S, f), Bytes(T, f)) = Bytes(S \ T, f) /\ Bytes(S \ T, f) \in Nat
  <1>1. IsFiniteSet(T) /\ IsFiniteSet(S \ T) /\ T \cap (S \ T) = {} /\ T \cup (S \ T) = S
    BY FS_Subset
  <1>2. \A e \in T \cup (S \ T) : f[e] \in Nat
    OBVIOUS
  <1>3. /\ Bytes(T, f) \in Nat /\ Bytes(S \ T, f) \in Nat
        /\ Bytes(S, f) = Bytes(T, f) + Bytes(S \ T, f)
    <2> DEFINE U == S \ T
    <2>1. IsFiniteSet(U) /\ T \cap U = {} /\ T \cup U = S /\ \A e \in T \cup U : f[e] \in Nat
      BY <1>1, <1>2
    <2> HIDE DEF U
    <2>2. /\ Bytes(T, f) \in Nat /\ Bytes(U, f) \in Nat
          /\ Bytes(T \cup U, f) = Bytes(T, f) + Bytes(U, f)
      BY <1>1, <2>1, BytesAdd
    <2> QED BY <2>1, <2>2 DEF U
  <1> QED BY <1>3 DEF Minus

-----------------------------------------------------------------------------
(* The first half of Lookup: what is left when expired entries have gone.  *)

ExpiryInv(known, left) ==
  /\ known \in [Keys -> 0..MaxRuns]
  /\ left \subseteq Cached /\ {known[k] : k \in Keys} \ {None} = left
  /\ Orders(Without(older, ExpiredNow), left)
  /\ BytesAfterExpiry = Bytes(left, SizeNow)
  /\ BytesAfterExpiry \in Nat /\ BytesAfterExpiry <= MaxBytes
  /\ Cardinality({e \in left : Completed(e)}) <= MaxEntries
  /\ \A k \in Keys : known[k] # None =>
       known[k] = entry[k] /\ known[k] \in 1..Len(runs) /\ runs[known[k]].key = k
  /\ \A e \in 1..Len(runs) : e \in left \/ e \in dropped \cup ExpiredNow
  /\ \A c \in Callers : cpc[c] = "executing" => known[runs[on[c]].key] = on[c]
  /\ ExpiredNow \subseteq Runs

(* removeExpiredLocked leaves the cache within its limits, with every      *)
(* execution under way still in the map.                                   *)
LEMMA AfterExpiry ==
  ASSUME CacheInv
  PROVE  ExpiryInv(Forgetting(ExpiredNow), Cached \ ExpiredNow)
  <1> DEFINE known == Forgetting(ExpiredNow)
             left == Cached \ ExpiredNow
  <1> USE DEF CacheInv
  <1>1. /\ known \in [Keys -> 0..MaxRuns]
        /\ {known[k] : k \in Keys} \ {None} = left
        /\ \A k \in Keys : IF entry[k] \in ExpiredNow THEN known[k] = None
                                                      ELSE known[k] = entry[k]
    <2>1. entry \in [Keys -> 0..MaxRuns]
      BY DEF CacheTypes
    <2> HIDE DEF CacheInv
    <2> QED BY <2>1, ForgettingCached
  <1>2. Orders(Without(older, ExpiredNow), left)
    BY OrdersWithout
  <1>3. /\ Cached \subseteq 1..Len(runs) /\ IsFiniteSet(Cached)
        /\ \A e \in 1..Len(runs) :
             /\ SizeNow[e] = runs[e].size /\ SizeNow[e] \in Nat
             /\ SizeNow[e] > 0 <=> Completed(e)
    BY CachedFinite, SizesTyped
  <1>4. ExpiredNow \in SUBSET Cached
    BY DEF ExpiredNow
  <1>5. BytesAfterExpiry = Bytes(left, SizeNow) /\ Bytes(left, SizeNow) \in Nat
    <2>1. totalBytes = Bytes(Cached, SizeNow)
      BY DEF WithinLimits
    <2>2. \A e \in Cached : SizeNow[e] \in Nat
      BY <1>3
    <2>3. /\ Minus(Bytes(Cached, SizeNow), Bytes(ExpiredNow, SizeNow)) = Bytes(left, SizeNow)
          /\ Bytes(left, SizeNow) \in Nat
      BY <1>3, <1>4, <2>2, MinusExact
    <2> QED BY <2>1, <2>3 DEF BytesAfterExpiry
  <1>6. BytesAfterExpiry <= MaxBytes
    <2>1. totalBytes \in Nat /\ totalBytes <= MaxBytes
      <3>1. Bytes(Cached, SizeNow) \in Nat
        <4>1. Cached = Cached \cup {} /\ Cached \cap {} = {} /\ IsFiniteSet({})
          BY FS_EmptySet
        <4>2. \A e \in Cached \cup {} : SizeNow[e] \in Nat
          BY <1>3
        <4> QED BY <1>3, <4>1, <4>2, BytesAdd
      <3> QED BY <3>1 DEF WithinLimits
    <2>2. Bytes(ExpiredNow, SizeNow) \in Nat
      <3>1. IsFiniteSet(ExpiredNow) /\ IsFiniteSet(left) /\ ExpiredNow \cap left = {}
        BY <1>3, <1>4, FS_Subset
      <3>2. \A e \in ExpiredNow \cup left : SizeNow[e] \in Nat
        BY <1>3, <1>4
      <3> HIDE DEF left
      <3> QED BY <3>1, <3>2, BytesAdd
    <2> QED BY <2>1, <2>2, CacheAssumption DEF BytesAfterExpiry, Minus
  <1>7. Cardinality({e \in left : Completed(e)}) <= MaxEntries
    <2> DEFINE C == {e \in Cached : Completed(e)}
               L == {e \in left : Completed(e)}
    <2>1. L \in SUBSET C /\ C \in SUBSET Cached
      OBVIOUS
    <2>2. Cardinality(C) <= MaxEntries
      BY DEF WithinLimits
    <2> HIDE DEF C, L
    <2>3. IsFiniteSet(C)
      BY <1>3, <2>1, FS_Subset
    <2>4. Cardinality(L) <= Cardinality(C) /\ IsFiniteSet(L)
      BY <2>1, <2>3, FS_Subset
    <2>5. Cardinality(L) \in Nat /\ Cardinality(C) \in Nat
      BY <2>3, <2>4, FS_CardinalityType
    <2> QED BY <2>2, <2>4, <2>5, CacheAssumption DEF L
  <1>8. \A k \in Keys : known[k] # None =>
          known[k] = entry[k] /\ known[k] \in 1..Len(runs) /\ runs[known[k]].key = k
    BY <1>1 DEF EntriesInv
  <1>9. \A e \in 1..Len(runs) : e \in left \/ e \in dropped \cup ExpiredNow
    BY DEF EntriesInv
  <1>10. ASSUME NEW c \in Callers, cpc[c] = "executing"
         PROVE  known[runs[on[c]].key] = on[c]
    <2>1. /\ on[c] \in 1..Len(runs) /\ ~Completed(on[c])
          /\ entry[runs[on[c]].key] = on[c]
      BY <1>10 DEF ExecutorsInv
    <2>2. runs[on[c]].key \in Keys
      <3>1. runs \in [1..Len(runs) -> Executions]
        BY LenProperties DEF CacheTypes
      <3>2. runs[on[c]] \in Executions
        BY <2>1, <3>1
      <3> QED BY <3>2 DEF Executions
    <2>3. on[c] \notin ExpiredNow
      BY <2>1 DEF ExpiredNow
    <2> QED BY <1>1, <2>1, <2>2, <2>3
  <1>11. ExpiredNow \subseteq Runs
    <2>1. Len(runs) \in Nat /\ Len(runs) <= MaxRuns
      BY LenProperties DEF CacheTypes
    <2>2. 1..Len(runs) \subseteq 1..MaxRuns
      BY <2>1, CacheAssumption
    <2> QED BY <1>3, <1>4, <2>2 DEF Runs
  <1> HIDE DEF known, left
  <1>12. left \subseteq Cached
    BY DEF left
  <1>13. BytesAfterExpiry \in Nat
    BY <1>5
  <1>14. ExpiryInv(known, left)
    BY <1>1, <1>2, <1>5, <1>6, <1>7, <1>8, <1>9, <1>10, <1>11, <1>12, <1>13 DEF ExpiryInv
  <1> QED BY <1>14 DEF known, left

(* Executions keep what they are of, and once they have ended they stay so. *)
Grown ==
  /\ Len(runs) <= Len(runs')
  /\ \A e \in 1..Len(runs) :
       /\ runs'[e].key = runs[e].key /\ runs'[e].content = runs[e].content
       /\ Completed(e) => Completed(e)'

(* A new execution leaves the earlier ones as they are.                    *)
LEMMA RunsAppended ==
  ASSUME CacheTypes, NEW k \in Keys, NEW x \in Contents, Len(runs) + 1 <= MaxRuns,
         runs' = Append(runs, [key |-> k, content |-> x, size |-> 0])
  PROVE  /\ runs' \in Seq(Executions)
         /\ Len(runs) \in Nat /\ Len(runs') = Len(runs) + 1
         /\ \A e \in 1..Len(runs) : runs'[e] = runs[e]
         /\ runs'[Len(runs) + 1] = [key |-> k, content |-> x, size |-> 0]
  <1> DEFINE new == [key |-> k, content |-> x, size |-> 0]
  <1>1. new \in Executions
    BY DEF Executions
  <1>2. runs \in Seq(Executions) /\ Len(runs) \in Nat
    BY LenProperties DEF CacheTypes
  <1> HIDE DEF new
  <1>3. /\ Append(runs, new) \in Seq(Executions)
        /\ Len(Append(runs, new)) = Len(runs) + 1
        /\ \A e \in 1..Len(runs) : Append(runs, new)[e] = runs[e]
        /\ Append(runs, new)[Len(runs) + 1] = new
    BY <1>1, <1>2, AppendProperties
  <1> QED BY <1>2, <1>3 DEF new

(* The end of an execution changes its size only.                          *)
LEMMA RunsCompleted ==
  ASSUME CacheTypes, NEW e \in 1..Len(runs), NEW size \in Sizes,
         runs' = [runs EXCEPT ![e].size = size]
  PROVE  /\ runs' \in Seq(Executions)
         /\ Len(runs) \in Nat /\ Len(runs') = Len(runs)
         /\ \A d \in 1..Len(runs) : d # e => runs'[d] = runs[d]
         /\ runs'[e] = [key |-> runs[e].key, content |-> runs[e].content, size |-> size]
  <1>1. runs \in Seq(Executions) /\ Len(runs) \in Nat /\ DOMAIN runs = 1..Len(runs)
        /\ runs \in [1..Len(runs) -> Executions]
    BY LenProperties DEF CacheTypes
  <1>2. runs[e] \in Executions
    BY <1>1
  <1>3. [runs[e] EXCEPT !.size = size]
          = [key |-> runs[e].key, content |-> runs[e].content, size |-> size]
    BY <1>2 DEF Executions
  <1>4. [key |-> runs[e].key, content |-> runs[e].content, size |-> size] \in Executions
    BY <1>2 DEF Executions
  <1>5. runs' = [runs EXCEPT ![e] = [runs[e] EXCEPT !.size = size]]
    OBVIOUS
  <1>6. runs' = [d \in 1..Len(runs) |-> IF d = e THEN [runs[e] EXCEPT !.size = size] ELSE runs[d]]
    BY <1>1, <1>5
  <1>7. runs' \in Seq(Executions)
    <2>1. runs' \in [1..Len(runs) -> Executions]
      BY <1>1, <1>3, <1>4, <1>6
    <2> QED BY <1>1, <2>1, SeqDef
  <1>8. Len(runs') = Len(runs)
    BY <1>1, <1>6, <1>7, LenProperties
  <1> QED BY <1>1, <1>3, <1>6, <1>7, <1>8

(* The three outcomes of Lookup, of which each starts with the expiry.     *)
ExpirySteps(c, x) ==
  /\ totalBytes' = BytesAfterExpiry
  /\ dropped' = dropped \cup ExpiredNow /\ stale' = stale \ ExpiredNow
  /\ asked' = [asked EXCEPT ![c] = x] /\ UNCHANGED expiries

Executes(c, k, x, known, left) ==
  /\ known[k] = None /\ Len(runs) + 1 <= MaxRuns
  /\ runs' = Append(runs, [key |-> k, content |-> x, size |-> 0])
  /\ entry' = [known EXCEPT ![k] = Len(runs) + 1]
  /\ older' = Touched(Without(older, ExpiredNow), left, Len(runs) + 1)
  /\ cpc' = [cpc EXCEPT ![c] = "executing"]
  /\ on' = [on EXCEPT ![c] = Len(runs) + 1]
  /\ UNCHANGED answer

Conflicts(c, k, x, known) ==
  /\ known[k] # None /\ ~SameRequest(known[k], x)
  /\ cpc' = [cpc EXCEPT ![c] = "answered"]
  /\ answer' = [answer EXCEPT ![c] = Conflict]
  /\ entry' = known /\ older' = Without(older, ExpiredNow)
  /\ UNCHANGED <<runs, on>>

Joins(c, k, x, known, left) ==
  /\ known[k] # None /\ SameRequest(known[k], x)
  /\ entry' = known /\ older' = Touched(Without(older, ExpiredNow), left, known[k])
  /\ on' = [on EXCEPT ![c] = known[k]]
  /\ IF Completed(known[k])
       THEN /\ cpc' = [cpc EXCEPT ![c] = "answered"]
            /\ answer' = [answer EXCEPT ![c] = known[k]]
       ELSE cpc' = [cpc EXCEPT ![c] = "waiting"] /\ UNCHANGED answer
  /\ UNCHANGED runs

(* Do executes, refuses or joins, whatever the request.                    *)
LEMMA LookupOutcomes ==
  ASSUME NEW c, NEW k, NEW x, Lookup(c, k, x)
  PROVE  /\ cpc[c] = "idle" /\ ExpirySteps(c, x)
         /\ \/ Executes(c, k, x, Forgetting(ExpiredNow), Cached \ ExpiredNow)
            \/ Conflicts(c, k, x, Forgetting(ExpiredNow))
            \/ Joins(c, k, x, Forgetting(ExpiredNow), Cached \ ExpiredNow)
  BY DEF Lookup, ExpirySteps, Executes, Conflicts, Joins

(* What CacheAssumption says of the constants, one by one.                 *)
LEMMA ConstantsTyped ==
  /\ MaxRuns \in Nat /\ MaxEntries \in Nat /\ MaxBytes \in Nat /\ MaxEntries >= 1
  /\ Conflict \notin Nat /\ Conflict # None /\ NoContent \notin Contents
  /\ \A n \in Sizes : n \in Nat /\ n > 0
  BY CacheAssumption DEF None

(* An unknown id: the new execution is the only one of its id that is not  *)
(* forgotten.                                                              *)
LEMMA ExecutesInv ==
  ASSUME CacheInv, NEW c \in Callers, NEW k \in Keys, NEW x \in Contents,
         NEW known, NEW left, ExpiryInv(known, left),
         cpc[c] = "idle", ExpirySteps(c, x), Executes(c, k, x, known, left)
  PROVE  CacheInv' /\ Grown
  <1> DEFINE new == Len(runs) + 1
  <1>1. /\ runs' \in Seq(Executions)
        /\ Len(runs) \in Nat /\ Len(runs') = new
        /\ \A e \in 1..Len(runs) : runs'[e] = runs[e]
        /\ runs'[new] = [key |-> k, content |-> x, size |-> 0]
    BY RunsAppended DEF CacheInv, Executes
  <1>2. new \in 1..MaxRuns /\ new \notin 1..Len(runs) /\ new # None /\ new \in 0..MaxRuns
        /\ 1..new = 1..Len(runs) \cup {new}
    BY <1>1, ConstantsTyped DEF Executes, None
  <1>3. known \in [Keys -> 0..MaxRuns] /\ {known[j] : j \in Keys} \ {None} = left
        /\ left \subseteq Cached /\ Cached \subseteq 1..Len(runs) /\ IsFiniteSet(Cached)
    BY CachedFinite DEF ExpiryInv, CacheInv
  <1>4. entry' \in [Keys -> 0..MaxRuns]
        /\ \A j \in Keys : entry'[j] = IF j = k THEN new ELSE known[j]
    BY <1>2, <1>3 DEF Executes
  <1>5. Cached' = left \cup {new}
    <2>1. Cached' = {entry'[j] : j \in Keys} \ {None}
      BY DEF Cached
    <2>2. known[k] = None
      BY DEF Executes
    <2> HIDE DEF new
    <2> QED BY <1>2, <1>3, <1>4, <2>1, <2>2
  <1>6. CacheTypes'
    <2>1. stale' \subseteq Runs /\ dropped' \subseteq Runs /\ expiries' \in 0..MaxExpiries
      BY DEF CacheInv, CacheTypes, ExpirySteps, ExpiryInv
    <2> QED BY <1>1, <1>4, <2>1 DEF CacheTypes, Executes
  <1>7. CallerTypes'
    BY <1>2 DEF CacheInv, CallerTypes, ExpirySteps, Executes
  <1>8. Orders(older, Cached)'
    BY <1>5, OrdersTouched DEF Executes, ExpiryInv
  <1>9. \A e \in 1..Len(runs) : Completed(e)' <=> Completed(e)
    BY <1>1 DEF Completed
  <1>10. ~(runs'[new].size > 0)
    BY <1>1
  <1>11. Grown
    BY <1>1, <1>9 DEF Grown
  <1>12. EntriesInv'
    <2>1. ASSUME NEW j \in Keys, entry'[j] # None
          PROVE  entry'[j] \in 1..Len(runs') /\ runs'[entry'[j]].key = j
      <3>1. CASE j = k
        BY <1>1, <1>2, <1>4, <3>1
      <3>2. CASE j # k
        BY <1>1, <1>2, <1>4, <2>1, <3>2 DEF ExpiryInv
      <3> QED BY <3>1, <3>2
    <2>2. ASSUME NEW e \in 1..Len(runs') PROVE e \in Cached' \/ e \in dropped'
      BY <1>1, <1>2, <1>5, <2>2 DEF ExpiryInv, ExpirySteps
    <2> QED BY <2>1, <2>2 DEF EntriesInv
  <1>13. cpc' \in [Callers -> {"idle", "executing", "waiting", "answered"}]
         /\ \A d \in Callers : /\ cpc'[d] = IF d = c THEN "executing" ELSE cpc[d]
                               /\ on'[d] = IF d = c THEN new ELSE on[d]
                               /\ answer'[d] = answer[d]
    BY DEF CacheInv, CallerTypes, Executes
  <1>14. ExecutorsInv'
    <2>1. ASSUME NEW d \in Callers, cpc'[d] = "executing"
          PROVE  /\ on'[d] \in 1..Len(runs') /\ ~Completed(on[d])'
                 /\ entry'[runs'[on'[d]].key] = on'[d]
      <3>1. CASE d = c
        BY <1>1, <1>2, <1>4, <1>10, <1>13, <3>1 DEF Completed
      <3>2. CASE d # c
        <4>1. cpc[d] = "executing" /\ on'[d] = on[d]
          BY <1>13, <2>1, <3>2
        <4>2. on[d] \in 1..Len(runs) /\ ~Completed(on[d])
          BY <4>1 DEF CacheInv, ExecutorsInv
        <4>3. known[runs[on[d]].key] = on[d]
          BY <4>1 DEF ExpiryInv
        <4>4. runs[on[d]].key # k /\ runs[on[d]].key \in Keys
          <5>1. runs \in [1..Len(runs) -> Executions]
            BY LenProperties DEF CacheInv, CacheTypes
          <5>2. runs[on[d]] \in Executions
            BY <4>2, <5>1
          <5>3. runs[on[d]].key \in Keys
            BY <5>2 DEF Executions
          <5> QED BY <4>2, <4>3, <5>3 DEF Executes, None
        <4> QED BY <1>1, <1>2, <1>4, <1>9, <4>1, <4>2, <4>3, <4>4
      <3> QED BY <3>1, <3>2
    <2>2. ASSUME NEW d \in Callers, NEW e \in Callers,
                 cpc'[d] = "executing", cpc'[e] = "executing", on'[d] = on'[e]
          PROVE  d = e
      BY <1>2, <1>13, <2>2 DEF CacheInv, ExecutorsInv
    <2>3. ASSUME NEW e \in Cached' PROVE Completed(e)'
             \/ \E d \in Callers : cpc'[d] = "executing" /\ on'[d] = e
      <3>1. CASE e = new
        BY <1>13, <3>1
      <3>2. CASE e \in left
        <4>1. e \in Cached /\ e \in 1..Len(runs)
          BY <1>3, <3>2
        <4>2. Completed(e) \/ \E d \in Callers : cpc[d] = "executing" /\ on[d] = e
          BY <4>1 DEF CacheInv, ExecutorsInv
        <4> QED BY <1>9, <1>13, <4>1, <4>2
      <3> QED BY <1>5, <3>1, <3>2
    <2> QED BY <2>1, <2>2, <2>3 DEF ExecutorsInv
  <1>15. WaitersInv'
    <2> SUFFICES ASSUME NEW d \in Callers, cpc'[d] = "waiting"
                 PROVE  /\ on'[d] \in 1..Len(runs')
                        /\ Completed(on[d])'
                           \/ \E e \in Callers : cpc'[e] = "executing" /\ on'[e] = on'[d]
      BY DEF WaitersInv
    <2>1. d # c /\ cpc[d] = "waiting" /\ on'[d] = on[d]
      BY <1>13
    <2>2. /\ on[d] \in 1..Len(runs)
          /\ Completed(on[d]) \/ \E e \in Callers : cpc[e] = "executing" /\ on[e] = on[d]
      BY <2>1 DEF CacheInv, WaitersInv
    <2> QED BY <1>1, <1>2, <1>9, <1>13, <2>1, <2>2
  <1>16. AnswersInv'
    <2> SUFFICES ASSUME NEW d \in Callers, cpc'[d] = "answered", answer'[d] # Conflict
                 PROVE  answer'[d] \in 1..Len(runs') /\ Completed(answer[d])'
      BY DEF AnswersInv
    <2>1. d # c /\ cpc[d] = "answered" /\ answer'[d] = answer[d]
      BY <1>13
    <2>2. answer[d] \in 1..Len(runs) /\ Completed(answer[d])
      BY <2>1 DEF CacheInv, AnswersInv
    <2> QED BY <1>1, <1>2, <1>9, <2>1, <2>2
  <1>17. WithinLimits'
    <2>1. totalBytes' = Bytes(left, SizeNow)
      BY DEF ExpirySteps, ExpiryInv
    <2>2. /\ totalBytes' \in Nat /\ totalBytes' <= MaxBytes
      BY DEF ExpirySteps, ExpiryInv
    <2>3. \A e \in left : e \in 1..Len(runs) /\ e \in 1..Len(runs')
      BY <1>1, <1>2, <1>3
    <2>4. /\ \A e \in left : SizeNow'[e] = SizeNow[e] /\ SizeNow'[e] \in Nat
          /\ SizeNow'[new] = 0
      <3>1. CacheTypes
        BY DEF CacheInv
      <3>2. \A e \in 1..Len(runs) : SizeNow[e] = runs[e].size /\ SizeNow[e] \in Nat
        BY <3>1, SizesTyped
      <3>3. \A e \in 1..Len(runs') : SizeNow'[e] = runs'[e].size
        <4>1. DOMAIN runs' = 1..Len(runs')
          BY <1>1, LenProperties
        <4> QED BY <4>1 DEF SizeNow
      <3>4. new \in 1..Len(runs')
        BY <1>1, <1>2
      <3> QED BY <1>1, <2>3, <3>2, <3>3, <3>4
    <2>5. Bytes(left, SizeNow') = Bytes(left, SizeNow)
      BY <2>4, BytesSame
    <2>6. Bytes({new}, SizeNow') = 0
      BY <2>4, BytesOfOne
    <2>7. Bytes(left \cup {new}, SizeNow') = Bytes(left, SizeNow') + Bytes({new}, SizeNow')
      <3>1. IsFiniteSet(left) /\ IsFiniteSet({new})
        BY <1>3, FS_Subset, FS_Singleton
      <3>2. left \cap {new} = {}
        BY <1>2, <1>3
      <3>3. \A e \in left \cup {new} : SizeNow'[e] \in Nat
        BY <2>4
      <3> HIDE DEF new
      <3> QED BY <3>1, <3>2, <3>3, BytesAdd
    <2>8. totalBytes' = Bytes(Cached, SizeNow)'
      <3>1. Bytes(Cached, SizeNow)' = Bytes(Cached', SizeNow')
        BY DEF Bytes
      <3> QED BY <1>5, <2>1, <2>2, <2>5, <2>6, <2>7, <3>1
    <2>9. {e \in Cached : Completed(e)}' = {e \in left : Completed(e)}
      <3>1. {e \in Cached : Completed(e)}' = {e \in Cached' : Completed(e)'}
        OBVIOUS
      <3> QED BY <1>5, <1>9, <1>10, <2>3, <3>1 DEF Completed
    <2>10. Cardinality({e \in Cached : Completed(e)})' <= MaxEntries
      BY <2>9 DEF ExpiryInv
    <2> QED BY <2>2, <2>8, <2>10 DEF WithinLimits
  <1>18. AtMostOncePerRequest'
    <2> SUFFICES ASSUME NEW i \in 1..Len(runs'), NEW j \in 1..Len(runs'),
                        i < j, runs'[i].key = runs'[j].key
                 PROVE  /\ i \in dropped'
                        /\ \A d \in Callers : cpc'[d] = "executing" => on'[d] # i
      <3>1. DOMAIN runs' = 1..Len(runs')
        BY <1>1, LenProperties
      <3> QED BY <3>1 DEF AtMostOncePerRequest
    <2>1. i \in 1..Len(runs)
      BY <1>1
    <2>2. CASE j \in 1..Len(runs)
      <3>1. runs[i].key = runs[j].key
        BY <1>1, <2>1, <2>2
      <3>2. DOMAIN runs = 1..Len(runs)
        BY LenProperties DEF CacheInv, CacheTypes
      <3>3. i \in dropped /\ \A d \in Callers : cpc[d] = "executing" => on[d] # i
        BY <2>1, <2>2, <3>1, <3>2 DEF CacheInv, AtMostOncePerRequest
      <3> QED BY <1>2, <1>13, <2>1, <3>3 DEF ExpirySteps
    <2>3. CASE j = new
      <3>1. runs[i].key = k
        BY <1>1, <2>1, <2>3
      <3>2. i \notin left
        <4> SUFFICES ASSUME i \in left PROVE FALSE
          OBVIOUS
        <4>1. PICK m \in Keys : known[m] = i /\ known[m] # None
          BY <1>3
        <4>2. runs[i].key = m
          BY <4>1 DEF ExpiryInv
        <4> QED BY <3>1, <4>1, <4>2 DEF Executes
      <3>3. i \in dropped'
        BY <2>1, <3>2 DEF ExpiryInv, ExpirySteps
      <3>4. ASSUME NEW d \in Callers, cpc'[d] = "executing", on'[d] = i PROVE FALSE
        <4>1. d # c /\ cpc[d] = "executing" /\ on[d] = i
          BY <1>2, <1>13, <2>1, <3>4
        <4>2. known[k] = i
          BY <3>1, <4>1 DEF ExpiryInv
        <4> QED BY <1>2, <2>1, <4>2 DEF Executes, None
      <3> QED BY <3>3, <3>4
    <2> QED BY <1>1, <1>2, <2>2, <2>3
  <1> QED BY <1>6, <1>7, <1>8, <1>11, <1>12, <1>14, <1>15, <1>16, <1>17, <1>18 DEF CacheInv

(* Callers that execute are the same as before.                            *)
SameExecutors ==
  \A d \in Callers :
    /\ cpc'[d] = "executing" <=> cpc[d] = "executing"
    /\ cpc[d] = "executing" => on'[d] = on[d]

(* A known id leaves the map as the expiry did.                            *)
LEMMA OnlyExpiryInv ==
  ASSUME CacheInv, NEW c, NEW x, NEW known, NEW left, ExpiryInv(known, left),
         ExpirySteps(c, x), entry' = known, runs' = runs, SameExecutors
  PROVE  /\ CacheTypes' /\ Cached' = left /\ EntriesInv' /\ ExecutorsInv'
         /\ WithinLimits' /\ AtMostOncePerRequest'
  <1>1. Cached' = left
    BY DEF Cached, ExpiryInv
  <1>2. CacheTypes'
    BY DEF CacheInv, CacheTypes, ExpirySteps, ExpiryInv
  <1>3. EntriesInv'
    BY <1>1 DEF EntriesInv, ExpiryInv, ExpirySteps
  <1>4. ExecutorsInv'
    <2>1. ASSUME NEW d \in Callers, cpc'[d] = "executing"
          PROVE  /\ on'[d] \in 1..Len(runs') /\ ~Completed(on[d])'
                 /\ entry'[runs'[on'[d]].key] = on'[d]
      BY <2>1 DEF CacheInv, ExecutorsInv, ExpiryInv, SameExecutors, Completed
    <2>2. ASSUME NEW d \in Callers, NEW e \in Callers,
                 cpc'[d] = "executing", cpc'[e] = "executing", on'[d] = on'[e]
          PROVE  d = e
      BY <2>2 DEF CacheInv, ExecutorsInv, SameExecutors
    <2>3. ASSUME NEW e \in Cached' PROVE Completed(e)'
             \/ \E d \in Callers : cpc'[d] = "executing" /\ on'[d] = e
      <3>1. e \in Cached
        BY <1>1 DEF ExpiryInv
      <3>2. Completed(e) \/ \E d \in Callers : cpc[d] = "executing" /\ on[d] = e
        BY <3>1 DEF CacheInv, ExecutorsInv
      <3> QED BY <3>2 DEF SameExecutors, Completed
    <2> QED BY <2>1, <2>2, <2>3 DEF ExecutorsInv
  <1>5. WithinLimits'
    <2>1. totalBytes' = Bytes(Cached, SizeNow)'
      <3>1. Bytes(Cached, SizeNow)' = Bytes(left, SizeNow)
        BY <1>1 DEF Bytes, SizeNow
      <3> QED BY <3>1 DEF ExpirySteps, ExpiryInv
    <2>2. Cardinality({e \in Cached : Completed(e)})' <= MaxEntries
      <3>1. {e \in Cached : Completed(e)}' = {e \in left : Completed(e)}
        BY <1>1 DEF Completed
      <3> QED BY <3>1 DEF ExpiryInv
    <2> QED BY <2>1, <2>2 DEF WithinLimits, ExpirySteps, ExpiryInv
  <1>6. AtMostOncePerRequest'
    BY DEF CacheInv, AtMostOncePerRequest, ExpirySteps, SameExecutors
  <1> QED BY <1>1, <1>2, <1>3, <1>4, <1>5, <1>6

(* A known id with another content.                                        *)
LEMMA ConflictsInv ==
  ASSUME CacheInv, NEW c \in Callers, NEW k \in Keys, NEW x \in Contents,
         NEW known, NEW left, ExpiryInv(known, left),
         cpc[c] = "idle", ExpirySteps(c, x), Conflicts(c, k, x, known)
  PROVE  CacheInv' /\ Grown
  <1>1. \A d \in Callers : /\ cpc'[d] = IF d = c THEN "answered" ELSE cpc[d]
                           /\ answer'[d] = IF d = c THEN Conflict ELSE answer[d]
                           /\ on'[d] = on[d]
    BY DEF CacheInv, CallerTypes, Conflicts
  <1>2. SameExecutors
    BY <1>1 DEF SameExecutors
  <1>3. runs' = runs /\ entry' = known /\ older' = Without(older, ExpiredNow)
    BY DEF Conflicts
  <1>4. /\ CacheTypes' /\ Cached' = left /\ EntriesInv' /\ ExecutorsInv'
        /\ WithinLimits' /\ AtMostOncePerRequest'
    BY <1>2, <1>3, OnlyExpiryInv
  <1>5. CallerTypes'
    BY DEF CacheInv, CallerTypes, ExpirySteps, Conflicts
  <1>6. Orders(older, Cached)'
    BY <1>3, <1>4 DEF ExpiryInv
  <1>7. WaitersInv'
    BY <1>1, <1>3 DEF CacheInv, WaitersInv, Completed
  <1>8. AnswersInv'
    BY <1>1, <1>3 DEF CacheInv, AnswersInv, Completed
  <1>9. Grown
    <2>1. Len(runs) \in Nat
      BY LenProperties DEF CacheInv, CacheTypes
    <2> QED BY <1>3, <2>1 DEF Grown, Completed
  <1> QED BY <1>4, <1>5, <1>6, <1>7, <1>8, <1>9 DEF CacheInv

(* A known id with the same content: the caller gets the response, or      *)
(* waits for somebody who executes.                                        *)
LEMMA JoinsInv ==
  ASSUME CacheInv, NEW c \in Callers, NEW k \in Keys, NEW x \in Contents,
         NEW known, NEW left, ExpiryInv(known, left),
         cpc[c] = "idle", ExpirySteps(c, x), Joins(c, k, x, known, left)
  PROVE  CacheInv' /\ Grown
  <1> DEFINE e == known[k]
  <1>1. e \in 1..Len(runs) /\ e \in left /\ e \in 0..MaxRuns /\ e \in Cached
    BY DEF ExpiryInv, Joins
  <1>2. runs' = runs /\ entry' = known
        /\ older' = Touched(Without(older, ExpiredNow), left, e)
    BY DEF Joins
  <1>3. /\ \A d \in Callers : /\ d # c => cpc'[d] = cpc[d] /\ answer'[d] = answer[d]
                              /\ on'[d] = IF d = c THEN e ELSE on[d]
        /\ Completed(e) => cpc'[c] = "answered" /\ answer'[c] = e
        /\ ~Completed(e) => cpc'[c] = "waiting"
    BY DEF CacheInv, CallerTypes, Joins
  <1>4. SameExecutors
    BY <1>3 DEF SameExecutors
  <1> HIDE DEF e
  <1>5. /\ CacheTypes' /\ Cached' = left /\ EntriesInv' /\ ExecutorsInv'
        /\ WithinLimits' /\ AtMostOncePerRequest'
    BY <1>2, <1>4, OnlyExpiryInv
  <1>6. CallerTypes'
    BY <1>1 DEF CacheInv, CallerTypes, ExpirySteps, Joins, e
  <1>7. Orders(older, Cached)'
    <2>1. left \cup {e} = left
      BY <1>1
    <2>2. Orders(Touched(Without(older, ExpiredNow), left, e), left \cup {e})
      BY OrdersTouched DEF ExpiryInv
    <2> QED BY <1>2, <1>5, <2>1, <2>2
  <1>8. WaitersInv'
    <2> SUFFICES ASSUME NEW d \in Callers, cpc'[d] = "waiting"
                 PROVE  /\ on'[d] \in 1..Len(runs')
                        /\ Completed(on[d])'
                           \/ \E f \in Callers : cpc'[f] = "executing" /\ on'[f] = on'[d]
      BY DEF WaitersInv
    <2>1. CASE d = c
      <3>1. ~Completed(e) /\ on'[d] = e
        BY <1>3, <2>1
      <3>2. PICK f \in Callers : cpc[f] = "executing" /\ on[f] = e
        BY <1>1, <3>1 DEF CacheInv, ExecutorsInv
      <3> QED BY <1>1, <1>2, <1>4, <3>1, <3>2 DEF SameExecutors
    <2>2. CASE d # c
      BY <1>2, <1>3, <1>4, <2>2 DEF CacheInv, WaitersInv, Completed, SameExecutors
    <2> QED BY <2>1, <2>2
  <1>9. AnswersInv'
    BY <1>1, <1>2, <1>3 DEF CacheInv, AnswersInv, Completed
  <1>10. Grown
    <2>1. Len(runs) \in Nat
      BY LenProperties DEF CacheInv, CacheTypes
    <2> QED BY <1>2, <2>1 DEF Grown, Completed
  <1> QED BY <1>5, <1>6, <1>7, <1>8, <1>9, <1>10 DEF CacheInv

(* The first critical section of Do keeps the invariant.                   *)
LEMMA LookupInv ==
  ASSUME CacheInv, NEW c \in Callers, NEW k \in Keys, NEW x \in Contents, Lookup(c, k, x)
  PROVE  CacheInv' /\ Grown
  BY LookupOutcomes, AfterExpiry, ExecutesInv, ConflictsInv, JoinsInv

-----------------------------------------------------------------------------
(* Complete.                                                               *)

(* Executions under way take no bytes.                                     *)
LEMMA BytesOfNothing ==
  ASSUME NEW S, NEW f, \A e \in S : f[e] = 0
  PROVE  Bytes(S, f) = 0
  <1>1. UNION {{e} \X (1..f[e]) : e \in S} = {}
    <2> SUFFICES ASSUME NEW e \in S PROVE {e} \X (1..f[e]) = {}
      OBVIOUS
    <2>1. 1..f[e] = {}
      OBVIOUS
    <2> QED BY <2>1
  <1> QED BY <1>1, FS_EmptySet DEF Bytes

(* The response that was touched last goes last.                          *)
LEMMA FreshNotVictim ==
  ASSUME NEW S, IsFiniteSet(S), NEW o, Orders(o, S), NEW e \in S,
         NEW sizeOf, \A d \in S : sizeOf[d] \in Nat,
         NEW done, done = {d \in S : sizeOf[d] > 0}, sizeOf[e] > 0, sizeOf[e] <= MaxBytes,
         NEW V, Evicts(V, done, Touched(o, S, e), sizeOf, Bytes(S, sizeOf))
  PROVE  e \notin V
  <1> DEFINE order == Touched(o, S, e)
             total == Bytes(S, sizeOf)
  <1> SUFFICES ASSUME e \in V PROVE FALSE
    OBVIOUS
  <1>1. done \in SUBSET S /\ e \in done /\ IsFiniteSet(done)
    BY FS_Subset
  <1>2. /\ V \subseteq done
        /\ Enough(done, order, sizeOf, total, V)
        /\ \A W \in SUBSET V : Enough(done, order, sizeOf, total, W) => W = V
    <2> HIDE DEF order, total
    <2>1. Evicts(V, done, order, sizeOf, total)
      BY DEF order, total
    <2> QED BY <1>1, <2>1, VictimsExist
  <1>3. /\ \A d \in S \ {e} : <<d, e>> \in order
        /\ \A d \in S : <<e, d>> \notin order
    BY DEF Orders, Touched
  <1> HIDE DEF order
  <1>4. V = done
    <2> SUFFICES ASSUME NEW d \in done \ V PROVE FALSE
      BY <1>2
    <2>1. <<e, d>> \in order
      BY <1>2 DEF Enough, OldestFirst
    <2> QED BY <1>1, <1>3, <2>1
  <1> DEFINE W == V \ {e}
  <1>5. W \in SUBSET V /\ W # V /\ done \ W = {e}
    BY <1>1, <1>4
  <1>6. OldestFirst(done, order, W)
    BY <1>1, <1>3, <1>4, <1>5 DEF OldestFirst
  <1>7. Minus(total, Bytes(W, sizeOf)) = sizeOf[e]
    <2>1. IsFiniteSet(W) /\ IsFiniteSet(S \ W) /\ IsFiniteSet(S \ done) /\ W \in SUBSET S
      BY <1>1, <1>4, <1>5, FS_Subset
    <2>2. Minus(total, Bytes(W, sizeOf)) = Bytes(S \ W, sizeOf)
      <3> HIDE DEF W
      <3>1. /\ Minus(Bytes(S, sizeOf), Bytes(W, sizeOf)) = Bytes(S \ W, sizeOf)
            /\ Bytes(S \ W, sizeOf) \in Nat
        BY <2>1, MinusExact
      <3> QED BY <3>1 DEF total
    <2>3. S \ W = {e} \cup (S \ done) /\ {e} \cap (S \ done) = {}
      BY <1>1, <1>4
    <2>4. Bytes(S \ done, sizeOf) = 0
      <3>1. \A d \in S \ done : sizeOf[d] = 0
        OBVIOUS
      <3> QED BY <3>1, BytesOfNothing
    <2>5. Bytes({e}, sizeOf) = sizeOf[e]
      BY BytesOfOne
    <2>6. Bytes({e} \cup (S \ done), sizeOf) = Bytes({e}, sizeOf) + Bytes(S \ done, sizeOf)
      <3> DEFINE R == S \ done
      <3>1. IsFiniteSet({e})
        BY FS_Singleton
      <3>2. /\ {e} \cap R = {} /\ IsFiniteSet(R)
            /\ \A d \in {e} \cup R : sizeOf[d] \in Nat
        BY <2>1, <2>3
      <3> HIDE DEF R
      <3>3. Bytes({e} \cup R, sizeOf) = Bytes({e}, sizeOf) + Bytes(R, sizeOf)
        BY <3>1, <3>2, BytesAdd
      <3> QED BY <3>3 DEF R
    <2> HIDE DEF W, total
    <2>7. Bytes(S \ W, sizeOf) = sizeOf[e] + 0
      BY <2>3, <2>4, <2>5, <2>6
    <2>8. sizeOf[e] + 0 = sizeOf[e]
      OBVIOUS
    <2> QED BY <2>2, <2>7, <2>8
  <1>8. Cardinality(done \ W) = 1
    BY <1>5, FS_Singleton
  <1> HIDE DEF total
  <1>9. ~TooMuch(done, sizeOf, total, W)
    <2>1. ~(1 > MaxEntries) /\ ~(sizeOf[e] > MaxBytes)
      BY ConstantsTyped
    <2> QED BY <1>7, <1>8, <2>1 DEF TooMuch
  <1> QED BY <1>2, <1>5, <1>6, <1>9 DEF Enough

(* What Complete leaves: the victims are completed, and are enough.        *)
Measured(S, sizeOf, done, total) ==
  /\ IsFiniteSet(S) /\ \A d \in S : sizeOf[d] \in Nat
  /\ total = Bytes(S, sizeOf) /\ done = {d \in S : sizeOf[d] > 0}

(* After the eviction the rest is within both limits.                      *)
LEMMA AfterEviction ==
  ASSUME NEW S, NEW o, NEW sizeOf, NEW total, NEW done, Measured(S, sizeOf, done, total),
         NEW V, Evicts(V, done, o, sizeOf, total)
  PROVE  /\ V \subseteq done
         /\ Minus(total, Bytes(V, sizeOf)) = Bytes(S \ V, sizeOf)
         /\ Bytes(S \ V, sizeOf) \in Nat /\ Bytes(S \ V, sizeOf) <= MaxBytes
         /\ Cardinality(done \ V) <= MaxEntries
  <1>0. /\ IsFiniteSet(S) /\ \A d \in S : sizeOf[d] \in Nat
        /\ total = Bytes(S, sizeOf) /\ done = {d \in S : sizeOf[d] > 0}
    BY DEF Measured
  <1>1. done \in SUBSET S /\ IsFiniteSet(done)
    BY <1>0, FS_Subset
  <1>2. V \subseteq done /\ Enough(done, o, sizeOf, total, V)
    BY <1>1, VictimsExist
  <1>3. /\ Minus(total, Bytes(V, sizeOf)) = Bytes(S \ V, sizeOf)
        /\ Bytes(S \ V, sizeOf) \in Nat
    <2>1. V \in SUBSET S
      BY <1>1, <1>2
    <2> QED BY <1>0, <2>1, MinusExact
  <1>4. CASE V = done
    <2>1. Bytes(S \ V, sizeOf) = 0
      <3>1. \A d \in S \ V : sizeOf[d] = 0
        BY <1>0, <1>4
      <3> QED BY <3>1, BytesOfNothing
    <2>2. Cardinality(done \ V) = 0
      BY <1>4, FS_EmptySet
    <2> QED BY <1>2, <1>3, <2>1, <2>2, ConstantsTyped
  <1>5. CASE ~TooMuch(done, sizeOf, total, V)
    <2>1. IsFiniteSet(done \ V)
      BY <1>1, FS_Subset
    <2>2. Cardinality(done \ V) \in Nat
      BY <2>1, FS_CardinalityType
    <2> QED BY <1>2, <1>3, <1>5, <2>2, ConstantsTyped DEF TooMuch
  <1> QED BY <1>2, <1>4, <1>5 DEF Enough

(* Complete, given its executor's execution e, the sizes it compares and   *)
(* the entries it evicts.                                                  *)
Stores(c, size, e, sizeOf, victims) ==
  /\ cpc[c] = "executing" /\ e = on[c]
  /\ sizeOf = [SizeNow EXCEPT ![e] = size]
  /\ victims = Victims({x \in Cached : sizeOf[x] > 0}, Touched(older, Cached, e), sizeOf,
                       totalBytes + size)
  /\ runs' = [runs EXCEPT ![e].size = size]
  /\ older' = Without(Touched(older, Cached, e), victims)
  /\ entry' = Forgetting(victims)
  /\ totalBytes' = Minus(totalBytes + size, Bytes(victims, sizeOf))
  /\ stale' = stale \ victims /\ dropped' = dropped \cup victims
  /\ answer' = [answer EXCEPT ![c] = e]
  /\ cpc' = [cpc EXCEPT ![c] = "answered"]
  /\ UNCHANGED <<expiries, asked, on>>

(* Complete is Stores, of some sizes and some victims.                     *)
LEMMA CompleteStores ==
  ASSUME NEW c, NEW size, Complete(c, size)
  PROVE  \E e, sizeOf, victims : Stores(c, size, e, sizeOf, victims)
  BY DEF Complete, Stores

(* totalBytes and the new response are what all entries take together.     *)
LEMMA StoresSizes ==
  ASSUME CacheInv, NEW c \in Callers, NEW size \in Sizes,
         NEW e, NEW sizeOf, NEW victims, Stores(c, size, e, sizeOf, victims)
  PROVE  /\ e \in Cached /\ e \in 1..Len(runs) /\ ~Completed(e)
         /\ IsFiniteSet(Cached) /\ Cached \subseteq 1..Len(runs)
         /\ \A d \in 1..Len(runs) : /\ sizeOf[d] \in Nat
                                    /\ sizeOf[d] = IF d = e THEN size ELSE SizeNow[d]
         /\ totalBytes + size = Bytes(Cached, sizeOf)
  <1>1. on[c] \in 1..Len(runs) /\ ~Completed(on[c]) /\ entry[runs[on[c]].key] = on[c]
    BY DEF CacheInv, ExecutorsInv, Stores
  <1>2. e \in 1..Len(runs) /\ ~Completed(e) /\ entry[runs[e].key] = e
    BY <1>1 DEF Stores
  <1>3. runs[e].key \in Keys
    <2>1. runs \in [1..Len(runs) -> Executions]
      BY LenProperties DEF CacheInv, CacheTypes
    <2>2. runs[e] \in Executions
      BY <1>2, <2>1
    <2> QED BY <2>2 DEF Executions
  <1>4. e \in Cached
    <2>1. e # None
      BY <1>2 DEF None
    <2> QED BY <1>2, <1>3, <2>1 DEF Cached
  <1>5. Cached \subseteq 1..Len(runs) /\ IsFiniteSet(Cached)
    BY CachedFinite DEF CacheInv
  <1>6. /\ DOMAIN runs = 1..Len(runs)
        /\ \A d \in 1..Len(runs) : SizeNow[d] \in Nat /\ (SizeNow[d] > 0 <=> Completed(d))
    BY SizesTyped DEF CacheInv
  <1>7. size \in Nat
    BY ConstantsTyped
  <1>8. \A d \in 1..Len(runs) : /\ sizeOf[d] \in Nat
                                /\ sizeOf[d] = IF d = e THEN size ELSE SizeNow[d]
    <2>1. SizeNow = [d \in 1..Len(runs) |-> SizeNow[d]]
      BY <1>6 DEF SizeNow
    <2>2. sizeOf = [SizeNow EXCEPT ![e] = size]
      BY DEF Stores
    <2> HIDE DEF SizeNow
    <2> QED BY <1>6, <1>7, <2>1, <2>2
  <1>9. totalBytes + size = Bytes(Cached, sizeOf)
    <2> DEFINE R == Cached \ {e}
               E == {e}
    <2>1. R \cup E = Cached /\ R \cap E = {} /\ IsFiniteSet(R) /\ IsFiniteSet(E)
      BY <1>4, <1>5, FS_Subset, FS_Singleton
    <2>2. /\ \A d \in R \cup E : SizeNow[d] \in Nat
          /\ \A d \in R \cup E : sizeOf[d] \in Nat
      BY <1>4, <1>5, <1>6, <1>8
    <2>3. \A d \in R : SizeNow[d] = sizeOf[d]
      BY <1>5, <1>8
    <2>4. Bytes(E, SizeNow) = 0 /\ Bytes(E, sizeOf) = size
      <3>1. SizeNow[e] = 0 /\ sizeOf[e] = size /\ sizeOf[e] \in Nat
        BY <1>2, <1>6, <1>8
      <3> QED BY <3>1, BytesOfOne
    <2> HIDE DEF R, E
    <2>5. /\ Bytes(R \cup E, SizeNow) = Bytes(R, SizeNow) + Bytes(E, SizeNow)
          /\ Bytes(R, SizeNow) \in Nat
      BY <2>1, <2>2, BytesAdd
    <2>6. Bytes(R \cup E, sizeOf) = Bytes(R, sizeOf) + Bytes(E, sizeOf)
      BY <2>1, <2>2, BytesAdd
    <2>7. Bytes(R, SizeNow) = Bytes(R, sizeOf)
      BY <2>3, BytesSame
    <2>8. totalBytes = Bytes(Cached, SizeNow)
      BY DEF CacheInv, WithinLimits
    <2>9. totalBytes = Bytes(R, SizeNow) + 0 /\ Bytes(Cached, sizeOf) = Bytes(R, SizeNow) + size
      BY <2>1, <2>4, <2>5, <2>6, <2>7, <2>8
    <2> QED BY <1>7, <2>5, <2>9
  <1> QED BY <1>2, <1>4, <1>5, <1>8, <1>9

(* The second critical section keeps the invariant: eviction takes no      *)
(* entry whose execution is under way.                                     *)
LEMMA StoresInv ==
  ASSUME CacheInv, NEW c \in Callers, NEW size \in Sizes,
         NEW e, NEW sizeOf, NEW victims, Stores(c, size, e, sizeOf, victims)
  PROVE  CacheInv' /\ Grown
  <1> DEFINE done == {x \in Cached : sizeOf[x] > 0}
  <1>1. /\ e \in Cached /\ e \in 1..Len(runs) /\ ~Completed(e)
        /\ IsFiniteSet(Cached) /\ Cached \subseteq 1..Len(runs)
        /\ \A d \in 1..Len(runs) : /\ sizeOf[d] \in Nat
                                   /\ sizeOf[d] = IF d = e THEN size ELSE SizeNow[d]
        /\ totalBytes + size = Bytes(Cached, sizeOf)
    BY StoresSizes
  <1>2. /\ victims \subseteq done
        /\ Minus(totalBytes + size, Bytes(victims, sizeOf)) = Bytes(Cached \ victims, sizeOf)
        /\ Bytes(Cached \ victims, sizeOf) \in Nat
        /\ Bytes(Cached \ victims, sizeOf) <= MaxBytes
        /\ Cardinality(done \ victims) <= MaxEntries
    <2> DEFINE o == Touched(older, Cached, e)
               total == totalBytes + size
               S == Cached
    <2>1. Evicts(victims, done, o, sizeOf, total)
      BY DEF Stores, Evicts
    <2>2. Measured(S, sizeOf, done, total)
      BY <1>1 DEF Measured
    <2> HIDE DEF done, S, total, o
    <2>3. /\ victims \subseteq done
          /\ Minus(total, Bytes(victims, sizeOf)) = Bytes(S \ victims, sizeOf)
          /\ Bytes(S \ victims, sizeOf) \in Nat /\ Bytes(S \ victims, sizeOf) <= MaxBytes
          /\ Cardinality(done \ victims) <= MaxEntries
      BY <2>1, <2>2, AfterEviction
    <2> QED BY <2>3 DEF S, total
  <1>3. /\ runs' \in Seq(Executions)
        /\ Len(runs) \in Nat /\ Len(runs') = Len(runs)
        /\ \A d \in 1..Len(runs) : d # e => runs'[d] = runs[d]
        /\ runs'[e] = [key |-> runs[e].key, content |-> runs[e].content, size |-> size]
    <2>1. runs' = [runs EXCEPT ![e].size = size] /\ CacheTypes
      BY DEF Stores, CacheInv
    <2> QED BY <1>1, <2>1, RunsCompleted
  <1>4. /\ entry' \in [Keys -> 0..MaxRuns]
        /\ Cached' = Cached \ victims
        /\ \A k \in Keys : entry'[k] = IF entry[k] \in victims THEN None ELSE entry[k]
    <2>1. entry \in [Keys -> 0..MaxRuns]
      BY DEF CacheInv, CacheTypes
    <2>2. entry' = Forgetting(victims)
      BY DEF Stores
    <2>3. /\ entry' \in [Keys -> 0..MaxRuns]
          /\ {entry'[k] : k \in Keys} \ {None} = Cached \ victims
          /\ \A k \in Keys : IF entry[k] \in victims THEN entry'[k] = None
                                                     ELSE entry'[k] = entry[k]
      BY <2>1, <2>2, ForgettingCached
    <2>4. Cached' = {entry'[k] : k \in Keys} \ {None}
      BY DEF Cached
    <2> QED BY <2>3, <2>4
  <1>5. \A d \in 1..Len(runs) : Completed(d)' <=> (d = e \/ Completed(d))
    BY <1>3, ConstantsTyped DEF Completed
  <1>6. \A d \in 1..Len(runs) :
          /\ runs'[d].key = runs[d].key /\ runs'[d].content = runs[d].content
          /\ sizeOf[d] > 0 <=> Completed(d)'
    <2>1. \A d \in 1..Len(runs) : SizeNow[d] > 0 <=> Completed(d)
      BY SizesTyped DEF CacheInv
    <2>2. size > 0
      BY ConstantsTyped
    <2> QED BY <1>1, <1>3, <1>5, <2>1, <2>2
  <1>7. Grown
    BY <1>3, <1>5, <1>6 DEF Grown
  <1>8. /\ cpc'[c] = "answered" /\ cpc[c] = "executing" /\ on[c] = e /\ answer'[c] = e
        /\ on' = on
        /\ \A d \in Callers : d # c => cpc'[d] = cpc[d] /\ answer'[d] = answer[d]
    BY DEF CacheInv, CallerTypes, Stores
  <1>9. \A d \in victims : d \in Cached /\ d \in 1..Len(runs) /\ (d = e \/ Completed(d))
    BY <1>1, <1>2, <1>5, <1>6
  <1>10. CacheTypes'
    <2>1. \A d \in victims : d \in Runs
      <3>1. Len(runs) <= MaxRuns
        BY DEF CacheInv, CacheTypes
      <3> QED BY <1>3, <1>9, <3>1, ConstantsTyped DEF Runs
    <2>2. stale' \subseteq Runs /\ dropped' \subseteq Runs /\ expiries' \in 0..MaxExpiries
      BY <2>1 DEF CacheInv, CacheTypes, Stores
    <2> QED BY <1>3, <1>4, <2>2 DEF CacheInv, CacheTypes
  <1>11. CallerTypes'
    <2>1. e \in 0..MaxRuns
      BY DEF CacheInv, CallerTypes, Stores
    <2> QED BY <2>1 DEF CacheInv, CallerTypes, Stores
  <1>12. Orders(older, Cached)'
    <2>1. Orders(Touched(older, Cached, e), Cached \cup {e})
      BY OrdersTouched DEF CacheInv
    <2>2. Cached \cup {e} = Cached
      BY <1>1
    <2>3. Orders(Touched(older, Cached, e), Cached)
      BY <2>1, <2>2
    <2>4. Orders(Without(Touched(older, Cached, e), victims), Cached \ victims)
      BY <2>3, OrdersWithout
    <2> QED BY <1>4, <2>4 DEF Stores
  <1>13. EntriesInv'
    <2>1. \A k \in Keys : entry'[k] # None =>
            entry'[k] \in 1..Len(runs') /\ runs'[entry'[k]].key = k
      BY <1>3, <1>4, <1>6 DEF CacheInv, EntriesInv
    <2>2. \A d \in 1..Len(runs') : d \in Cached' \/ d \in dropped'
      BY <1>3, <1>4 DEF CacheInv, EntriesInv, Stores
    <2> QED BY <2>1, <2>2 DEF EntriesInv
  <1>14. \A d \in Callers : cpc'[d] = "executing" =>
           /\ d # c /\ cpc[d] = "executing" /\ on[d] # e
           /\ on[d] \in 1..Len(runs) /\ ~Completed(on[d]) /\ entry[runs[on[d]].key] = on[d]
    BY <1>8 DEF CacheInv, ExecutorsInv
  <1>15. ExecutorsInv'
    <2>1. ASSUME NEW d \in Callers, cpc'[d] = "executing"
          PROVE  /\ on'[d] \in 1..Len(runs') /\ ~Completed(on[d])'
                 /\ entry'[runs'[on'[d]].key] = on'[d]
      <3>1. /\ on[d] # e /\ on[d] \in 1..Len(runs) /\ ~Completed(on[d])
            /\ entry[runs[on[d]].key] = on[d] /\ on'[d] = on[d]
        BY <1>8, <1>14, <2>1
      <3>2. runs[on[d]].key \in Keys
        <4>1. runs \in [1..Len(runs) -> Executions]
          BY LenProperties DEF CacheInv, CacheTypes
        <4>2. runs[on[d]] \in Executions
          BY <3>1, <4>1
        <4> QED BY <4>2 DEF Executions
      <3>3. on[d] \notin victims
        BY <1>9, <3>1
      <3>4. ~(runs'[on[d]].size > 0)
        BY <1>3, <3>1 DEF Completed
      <3> QED BY <1>3, <1>4, <1>6, <3>1, <3>2, <3>3, <3>4 DEF Completed
    <2>2. \A d, f \in Callers :
            cpc'[d] = "executing" /\ cpc'[f] = "executing" /\ on'[d] = on'[f] => d = f
      BY <1>8, <1>14 DEF CacheInv, ExecutorsInv
    <2>3. ASSUME NEW d \in Cached' PROVE Completed(d)'
             \/ \E f \in Callers : cpc'[f] = "executing" /\ on'[f] = d
      <3>1. d \in Cached /\ d \in 1..Len(runs)
        BY <1>1, <1>4
      <3>2. Completed(d) \/ \E f \in Callers : cpc[f] = "executing" /\ on[f] = d
        BY <3>1 DEF CacheInv, ExecutorsInv
      <3> QED BY <1>5, <1>8, <3>1, <3>2
    <2> QED BY <2>1, <2>2, <2>3 DEF ExecutorsInv
  <1>16. WaitersInv'
    <2> SUFFICES ASSUME NEW d \in Callers, cpc'[d] = "waiting"
                 PROVE  /\ on'[d] \in 1..Len(runs')
                        /\ (runs'[on'[d]].size > 0)
                           \/ \E f \in Callers : cpc'[f] = "executing" /\ on'[f] = on'[d]
      BY DEF WaitersInv, Completed
    <2>1. d # c /\ cpc[d] = "waiting" /\ on'[d] = on[d]
      BY <1>8
    <2>2. /\ on[d] \in 1..Len(runs)
          /\ Completed(on[d]) \/ \E f \in Callers : cpc[f] = "executing" /\ on[f] = on[d]
      BY <2>1 DEF CacheInv, WaitersInv
    <2>3. on[d] = e \/ Completed(on[d]) => runs'[on[d]].size > 0
      BY <1>3, <2>2, ConstantsTyped DEF Completed
    <2> QED BY <1>3, <1>8, <2>1, <2>2, <2>3
  <1>17. AnswersInv'
    <2> SUFFICES ASSUME NEW d \in Callers, cpc'[d] = "answered", answer'[d] # Conflict
                 PROVE  answer'[d] \in 1..Len(runs') /\ (runs'[answer'[d]].size > 0)
      BY DEF AnswersInv, Completed
    <2>1. CASE d = c
      BY <1>1, <1>3, <1>8, <2>1, ConstantsTyped
    <2>2. CASE d # c
      <3>1. answer'[d] = answer[d] /\ answer[d] \in 1..Len(runs) /\ Completed(answer[d])
        BY <1>8, <2>2 DEF CacheInv, AnswersInv
      <3> QED BY <1>3, <3>1, ConstantsTyped DEF Completed
    <2> QED BY <2>1, <2>2
  <1>18. WithinLimits'
    <2>1. totalBytes' = Bytes(Cached \ victims, sizeOf)
      BY <1>1, <1>2 DEF Stores
    <2>2. Bytes(Cached \ victims, sizeOf) = Bytes(Cached, SizeNow)'
      <3>1. \A d \in Cached \ victims : sizeOf[d] = SizeNow'[d]
        <4>1. DOMAIN runs' = 1..Len(runs')
          BY <1>3, LenProperties
        <4>2. \A d \in 1..Len(runs) : SizeNow'[d] = runs'[d].size
          BY <1>3, <4>1 DEF SizeNow
        <4>3. \A d \in 1..Len(runs) : SizeNow[d] = runs[d].size
          BY SizesTyped DEF CacheInv
        <4>4. \A d \in 1..Len(runs) : sizeOf[d] = SizeNow'[d]
          BY <1>1, <1>3, <4>2, <4>3
        <4> QED BY <1>1, <4>4
      <3>2. Bytes(Cached \ victims, sizeOf) = Bytes(Cached \ victims, SizeNow')
        BY <3>1, BytesSame
      <3>3. Bytes(Cached, SizeNow)' = Bytes(Cached', SizeNow')
        BY DEF Bytes
      <3> QED BY <1>4, <3>2, <3>3
    <2>3. Cardinality({x \in Cached : Completed(x)})' <= MaxEntries
      <3>1. {x \in Cached : Completed(x)}' = {x \in Cached' : Completed(x)'}
        OBVIOUS
      <3>2. \A x : x \in Cached' /\ Completed(x)' <=> x \in done \ victims
        BY <1>1, <1>4, <1>6
      <3>3. {x \in Cached : Completed(x)}' = done \ victims
        <4> HIDE DEF done
        <4> QED BY <3>1, <3>2
      <3> QED BY <1>2, <3>3
    <2> QED BY <1>2, <2>1, <2>2, <2>3 DEF WithinLimits
  <1>19. AtMostOncePerRequest'
    <2> SUFFICES ASSUME NEW i \in 1..Len(runs'), NEW j \in 1..Len(runs'),
                        i < j, runs'[i].key = runs'[j].key
                 PROVE  /\ i \in dropped'
                        /\ \A d \in Callers : cpc'[d] = "executing" => on'[d] # i
      <3>1. DOMAIN runs' = 1..Len(runs')
        BY <1>3, LenProperties
      <3> QED BY <3>1 DEF AtMostOncePerRequest
    <2>1. DOMAIN runs = 1..Len(runs) /\ runs[i].key = runs[j].key
      BY <1>3, <1>6, LenProperties DEF CacheInv, CacheTypes
    <2>2. i \in dropped /\ \A d \in Callers : cpc[d] = "executing" => on[d] # i
      BY <1>3, <2>1 DEF CacheInv, AtMostOncePerRequest
    <2> QED BY <1>8, <1>14, <2>2 DEF Stores
  <1> QED BY <1>7, <1>10, <1>11, <1>12, <1>13, <1>15, <1>16, <1>17, <1>18, <1>19 DEF CacheInv

(* The same of Complete.                                                   *)
LEMMA CompleteInv ==
  ASSUME CacheInv, NEW c \in Callers, NEW size \in Sizes, Complete(c, size)
  PROVE  CacheInv' /\ Grown
  BY CompleteStores, StoresInv

-----------------------------------------------------------------------------
(* The other steps.                                                        *)

(* A step that leaves the executions alone.                                *)
LEMMA StaysGrown ==
  ASSUME CacheInv, runs' = runs PROVE Grown
  <1>1. Len(runs) \in Nat
    BY LenProperties DEF CacheInv, CacheTypes
  <1> QED BY <1>1 DEF Grown, Completed

(* Steps that leave the cache alone, and the executors.                    *)
LEMMA CallerInv ==
  ASSUME CacheInv, UNCHANGED cacheVars, expiries' \in 0..MaxExpiries, SameExecutors,
         CallerTypes', WaitersInv', AnswersInv'
  PROVE  CacheInv' /\ Grown
  <1> USE DEF CacheInv, cacheVars
  <1>1. Cached' = Cached
    BY DEF Cached
  <1>2. CacheTypes'
    BY DEF CacheTypes
  <1>3. EntriesInv'
    BY <1>1 DEF EntriesInv
  <1>4. ExecutorsInv'
    <2>1. ASSUME NEW d \in Callers, cpc'[d] = "executing"
          PROVE  /\ on'[d] \in 1..Len(runs') /\ ~Completed(on[d])'
                 /\ entry'[runs'[on'[d]].key] = on'[d]
      BY <2>1 DEF ExecutorsInv, SameExecutors, Completed
    <2>2. ASSUME NEW d \in Callers, NEW e \in Callers,
                 cpc'[d] = "executing", cpc'[e] = "executing", on'[d] = on'[e]
          PROVE  d = e
      BY <2>2 DEF ExecutorsInv, SameExecutors
    <2>3. ASSUME NEW e \in Cached' PROVE Completed(e)'
             \/ \E d \in Callers : cpc'[d] = "executing" /\ on'[d] = e
      BY <1>1 DEF ExecutorsInv, SameExecutors, Completed
    <2> QED BY <2>1, <2>2, <2>3 DEF ExecutorsInv
  <1>5. WithinLimits'
    <2>1. SizeNow' = SizeNow /\ {e \in Cached : Completed(e)}' = {e \in Cached : Completed(e)}
      BY <1>1 DEF SizeNow, Completed
    <2> QED BY <1>1, <2>1 DEF WithinLimits, Bytes
  <1>6. AtMostOncePerRequest'
    BY DEF AtMostOncePerRequest, SameExecutors
  <1>7. Orders(older, Cached)'
    BY <1>1
  <1>8. Grown
    BY StaysGrown
  <1> QED BY <1>2, <1>3, <1>4, <1>5, <1>6, <1>7, <1>8

(* A waiter that is woken gets a response that is there.                   *)
LEMMA WakeInv ==
  ASSUME CacheInv, NEW c \in Callers, Wake(c)
  PROVE  CacheInv' /\ Grown
  <1>1. /\ UNCHANGED cacheVars /\ runs' = runs /\ on' = on /\ expiries' \in 0..MaxExpiries
        /\ cpc[c] = "waiting" /\ Completed(on[c])
        /\ \A d \in Callers : /\ cpc'[d] = IF d = c THEN "answered" ELSE cpc[d]
                              /\ answer'[d] = IF d = c THEN on[c] ELSE answer[d]
    BY DEF CacheInv, CacheTypes, CallerTypes, Wake, cacheVars
  <1>2. SameExecutors
    BY <1>1 DEF SameExecutors
  <1>3. CallerTypes'
    BY DEF CacheInv, CallerTypes, Wake
  <1>4. WaitersInv'
    BY <1>1 DEF CacheInv, WaitersInv, Completed
  <1>5. AnswersInv'
    BY <1>1 DEF CacheInv, AnswersInv, WaitersInv, Completed
  <1> QED BY <1>1, <1>2, <1>3, <1>4, <1>5, CallerInv

(* A caller that has its answer leaves.                                    *)
LEMMA ReturnedInv ==
  ASSUME CacheInv, NEW c \in Callers, Returned(c), UNCHANGED <<cacheVars, expiries>>
  PROVE  CacheInv' /\ Grown
  <1>1. /\ UNCHANGED cacheVars /\ runs' = runs /\ expiries' \in 0..MaxExpiries
        /\ cpc[c] = "answered"
        /\ \A d \in Callers : /\ cpc'[d] = IF d = c THEN "idle" ELSE cpc[d]
                              /\ d # c => answer'[d] = answer[d] /\ on'[d] = on[d]
    BY DEF CacheInv, CacheTypes, CallerTypes, Returned, cacheVars
  <1>2. SameExecutors
    BY <1>1 DEF SameExecutors
  <1>3. CallerTypes'
    BY ConstantsTyped DEF CacheInv, CallerTypes, Returned, None
  <1>4. WaitersInv'
    BY <1>1 DEF CacheInv, WaitersInv, Completed
  <1>5. AnswersInv'
    BY <1>1 DEF CacheInv, AnswersInv, Completed
  <1> QED BY <1>1, <1>2, <1>3, <1>4, <1>5, CallerInv

(* A step of something else.                                               *)
LEMMA UnchangedInv ==
  ASSUME CacheInv, UNCHANGED vars
  PROVE  CacheInv' /\ Grown
  <1>1. /\ UNCHANGED cacheVars /\ runs' = runs /\ cpc' = cpc /\ on' = on /\ answer' = answer
        /\ asked' = asked /\ expiries' = expiries
    BY DEF vars, cacheVars, callerVars
  <1>2. SameExecutors
    BY <1>1 DEF SameExecutors
  <1>3. CallerTypes' /\ WaitersInv' /\ AnswersInv' /\ expiries' \in 0..MaxExpiries
    BY <1>1 DEF CacheInv, CallerTypes, WaitersInv, AnswersInv, Completed, CacheTypes
  <1> QED BY <1>1, <1>2, <1>3, CallerInv

(* The time to live of an entry passes, which removes nothing by itself.   *)
LEMMA ExpireInv ==
  ASSUME CacheInv, NEW e \in DOMAIN runs, Expire(e)
  PROVE  CacheInv' /\ Grown
  <1> USE DEF CacheInv
  <1>1. /\ entry' = entry /\ runs' = runs /\ older' = older /\ totalBytes' = totalBytes
        /\ dropped' = dropped /\ cpc' = cpc /\ on' = on /\ answer' = answer /\ asked' = asked
    BY DEF Expire, callerVars
  <1>2. Cached' = Cached
    BY <1>1 DEF Cached
  <1>3. CacheTypes'
    <2>1. e \in Runs
      <3>1. Len(runs) \in Nat /\ Len(runs) <= MaxRuns /\ DOMAIN runs = 1..Len(runs)
        BY LenProperties DEF CacheTypes
      <3> QED BY <3>1, ConstantsTyped DEF Runs
    <2>2. expiries' \in 0..MaxExpiries
      BY CacheAssumption DEF CacheTypes, Expire
    <2> QED BY <1>1, <2>1, <2>2 DEF CacheTypes, Expire
  <1>4. CallerTypes' /\ WaitersInv' /\ AnswersInv'
    BY <1>1 DEF CallerTypes, WaitersInv, AnswersInv, Completed
  <1>5. EntriesInv' /\ AtMostOncePerRequest'
    BY <1>1, <1>2 DEF EntriesInv, AtMostOncePerRequest
  <1>6. ExecutorsInv'
    BY <1>1, <1>2 DEF ExecutorsInv, Completed
  <1>7. WithinLimits'
    <2>1. SizeNow' = SizeNow /\ {d \in Cached : Completed(d)}' = {d \in Cached : Completed(d)}
      BY <1>1, <1>2 DEF SizeNow, Completed
    <2> QED BY <1>1, <1>2, <2>1 DEF WithinLimits, Bytes
  <1>8. Orders(older, Cached)'
    BY <1>1, <1>2
  <1>9. Grown
    BY <1>1, StaysGrown
  <1> QED BY <1>3, <1>4, <1>5, <1>6, <1>7, <1>8, <1>9

(* The cache when it is empty.                                             *)
LEMMA EmptyCache ==
  ASSUME entry = [k \in Keys |-> None], older = {}, totalBytes = 0
  PROVE  Cached = {} /\ Orders(older, Cached) /\ WithinLimits
  <1>1. Cached = {}
    BY DEF Cached
  <1>2. Orders(older, Cached)
    BY <1>1 DEF Orders
  <1>3. Bytes(Cached, SizeNow) = 0
    BY <1>1, BytesOfNothing
  <1>4. Cardinality({e \in Cached : Completed(e)}) = 0
    BY <1>1, FS_EmptySet
  <1> QED BY <1>1, <1>2, <1>3, <1>4, ConstantsTyped DEF WithinLimits

(* The cache is empty at first.                                            *)
LEMMA CacheInit ==
  ASSUME Init PROVE CacheInv
  <1> USE DEF Init
  <1>1. Cached = {} /\ Orders(older, Cached) /\ WithinLimits
    BY EmptyCache
  <1>2. runs \in Seq(Executions) /\ Len(runs) = 0 /\ DOMAIN runs = {}
    BY EmptySeq
  <1>3. CacheTypes /\ CallerTypes
    BY <1>2, CacheAssumption DEF CacheTypes, CallerTypes, None
  <1>4. EntriesInv /\ ExecutorsInv /\ WaitersInv /\ AnswersInv /\ AtMostOncePerRequest
    BY <1>1, <1>2 DEF EntriesInv, ExecutorsInv, WaitersInv, AnswersInv, AtMostOncePerRequest
  <1> QED BY <1>1, <1>3, <1>4 DEF CacheInv

(* Every step of the cache keeps the invariant.                            *)
LEMMA CacheNext ==
  ASSUME CacheInv, [Next]_vars
  PROVE  CacheInv' /\ Grown
  <1>1. CASE \E c \in Callers, k \in Keys, x \in Contents : Lookup(c, k, x)
    BY <1>1, LookupInv
  <1>2. CASE \E c \in Callers, size \in Sizes : Complete(c, size)
    BY <1>2, CompleteInv
  <1>3. CASE \E c \in Callers : Wake(c)
    BY <1>3, WakeInv
  <1>4. CASE \E c \in Callers : Returned(c) /\ UNCHANGED <<cacheVars, expiries>>
    BY <1>4, ReturnedInv
  <1>5. CASE \E e \in DOMAIN runs : Expire(e)
    BY <1>5, ExpireInv
  <1>6. CASE UNCHANGED vars
    BY <1>6, UnchangedInv
  <1> QED BY <1>1, <1>2, <1>3, <1>4, <1>5, <1>6 DEF Next, Exhausted

(* The inductive invariant of the cache.                                   *)
THEOREM CacheInvariant == Spec => []CacheInv
  <1>1. Init => CacheInv
    BY CacheInit
  <1>2. CacheInv /\ [Next]_vars => CacheInv'
    BY CacheNext
  <1> QED BY <1>1, <1>2, PTL DEF Spec

(* Nobody waits for an execution that nobody runs, and the entry of an     *)
(* execution under way is never expired or evicted.                        *)
THEOREM WaitersAreServed == Spec => []WaitersHaveExecutor
  <1>1. CacheInv => WaitersHaveExecutor
    BY DEF CacheInv, ExecutorsInv, WaitersInv, WaitersHaveExecutor
  <1> QED BY <1>1, CacheInvariant, PTL

(* totalBytes is what the cached responses add up to, and neither limit    *)
(* is exceeded, whatever completes, expires and is evicted.                *)
THEOREM CacheStaysWithinLimits == Spec => []WithinLimits
  <1>1. CacheInv => WithinLimits
    BY DEF CacheInv
  <1> QED BY <1>1, CacheInvariant, PTL

(* The sizes add up to a number.                                           *)
LEMMA CacheTyped ==
  ASSUME CacheInv
  PROVE  TypeOK
  <1>1. totalBytes \in Nat
    <2>1. IsFiniteSet(Cached) /\ Cached \subseteq 1..Len(runs)
      BY CachedFinite DEF CacheInv
    <2>2. \A e \in Cached : SizeNow[e] \in Nat
      BY <2>1, SizesTyped DEF CacheInv
    <2>3. Cached \cup {} = Cached /\ Cached \cap {} = {} /\ IsFiniteSet({})
      BY FS_EmptySet
    <2>4. Bytes(Cached, SizeNow) \in Nat
      BY <2>1, <2>2, <2>3, BytesAdd
    <2> QED BY <2>4 DEF CacheInv, WithinLimits
  <1> QED BY <1>1 DEF CacheInv, CacheTypes, CallerTypes, Executions, TypeOK

(* The type of the cache: that the times of use order exactly the cached   *)
(* entries is part of it.                                                  *)
THEOREM CacheTypeCorrect == Spec => []TypeOK
  BY CacheTyped, CacheInvariant, PTL

(* FreshResponseKept of one step.                                          *)
KeepsFresh ==
  \A e \in DOMAIN runs :
    (~Completed(e) /\ Completed(e)' /\ runs'[e].size <= MaxBytes) => entry'[runs[e].key] = e

(* Complete evicts everything else before the response it stored.          *)
LEMMA CompleteKeepsFresh ==
  ASSUME CacheInv, NEW c \in Callers, NEW size \in Sizes, Complete(c, size)
  PROVE  KeepsFresh
  <1>1. PICK e, sizeOf, victims : Stores(c, size, e, sizeOf, victims)
    BY CompleteStores
  <1>2. /\ e \in Cached /\ e \in 1..Len(runs) /\ ~Completed(e)
        /\ IsFiniteSet(Cached) /\ Cached \subseteq 1..Len(runs)
        /\ \A d \in 1..Len(runs) : /\ sizeOf[d] \in Nat
                                   /\ sizeOf[d] = IF d = e THEN size ELSE SizeNow[d]
        /\ totalBytes + size = Bytes(Cached, sizeOf)
    BY <1>1, StoresSizes
  <1>3. /\ \A d \in 1..Len(runs) : d # e => runs'[d] = runs[d]
        /\ runs'[e].size = size /\ DOMAIN runs = 1..Len(runs)
    BY <1>1, <1>2, RunsCompleted, LenProperties DEF Stores, CacheInv, CacheTypes
  <1> SUFFICES ASSUME size <= MaxBytes PROVE entry'[runs[e].key] = e
    BY <1>3 DEF KeepsFresh, Completed
  <1>4. e \notin victims
    <2> DEFINE done == {x \in Cached : sizeOf[x] > 0}
               o == older
               S == Cached
    <2>1. Evicts(victims, done, Touched(o, S, e), sizeOf, Bytes(S, sizeOf))
      BY <1>1, <1>2 DEF Stores, Evicts
    <2>2. /\ IsFiniteSet(S) /\ Orders(o, S) /\ e \in S /\ \A d \in S : sizeOf[d] \in Nat
          /\ done = {d \in S : sizeOf[d] > 0} /\ sizeOf[e] > 0 /\ sizeOf[e] <= MaxBytes
      BY <1>2, ConstantsTyped DEF CacheInv
    <2> HIDE DEF done, o, S
    <2> QED BY <2>1, <2>2, FreshNotVictim
  <1>5. entry[runs[e].key] = e /\ runs[e].key \in Keys
    <2>1. entry[runs[e].key] = e
      BY <1>1 DEF Stores, CacheInv, ExecutorsInv
    <2>2. runs \in [1..Len(runs) -> Executions]
      BY LenProperties DEF CacheInv, CacheTypes
    <2>3. runs[e] \in Executions
      BY <1>2, <2>2
    <2> QED BY <2>1, <2>3 DEF Executions
  <1> QED BY <1>1, <1>4, <1>5 DEF Stores, Forgetting

(* Lookup completes nothing.                                               *)
LEMMA AppendedKeepsFresh ==
  ASSUME CacheInv, NEW c \in Callers, NEW k \in Keys, NEW x \in Contents, Lookup(c, k, x)
  PROVE  KeepsFresh
  <1>1. CASE runs' = runs
    BY <1>1 DEF KeepsFresh, Completed
  <1>2. CASE Len(runs) + 1 <= MaxRuns
             /\ runs' = Append(runs, [key |-> k, content |-> x, size |-> 0])
    <2>1. \A e \in 1..Len(runs) : runs'[e] = runs[e]
      BY <1>2, RunsAppended DEF CacheInv
    <2>2. DOMAIN runs = 1..Len(runs)
      BY LenProperties DEF CacheInv, CacheTypes
    <2> QED BY <2>1, <2>2 DEF KeepsFresh, Completed
  <1> QED BY <1>1, <1>2, LookupOutcomes DEF Executes, Conflicts, Joins

(* A response that was just stored is not the one evicted, unless it is    *)
(* too large on its own.                                                   *)
THEOREM FreshIsKept == Spec => FreshResponseKept
  <1>1. CacheInv /\ [Next]_vars => [KeepsFresh]_vars
    <2> SUFFICES ASSUME CacheInv, Next PROVE KeepsFresh \/ UNCHANGED vars
      OBVIOUS
    <2>1. CASE runs' = runs
      BY <2>1 DEF KeepsFresh, Completed
    <2>2. CASE \E c \in Callers, k \in Keys, x \in Contents : Lookup(c, k, x)
      BY <2>2, AppendedKeepsFresh
    <2>3. CASE \E c \in Callers, size \in Sizes : Complete(c, size)
      BY <2>3, CompleteKeepsFresh
    <2> QED BY <2>1, <2>2, <2>3 DEF Next, Wake, Expire, Exhausted, cacheVars, vars
  <1>2. KeepsFresh <=>
          \A e \in DOMAIN runs :
            (~Completed(e) /\ Completed(e)' /\ runs'[e].size <= MaxBytes)
              => entry'[runs[e].key] = e
    BY DEF KeepsFresh
  <1> QED BY <1>1, <1>2, CacheInvariant, PTL DEF Spec, FreshResponseKept


-----------------------------------------------------------------------------
(* The requester and its connections.                                      *)

(* What is a response to r stays one: also when the cache forgets it.      *)
LEMMA OwnStaysOwn ==
  ASSUME CacheInv, Grown
  PROVE  \A r, a : IsOwn(r, a) => IsOwn(r, a)'
  <1>1. Len(runs) \in Nat
    BY LenProperties DEF CacheInv, CacheTypes
  <1>2. Len(runs') >= Len(runs) /\ \A a \in 1..Len(runs) : a \in 1..Len(runs')
    BY <1>1 DEF Grown
  <1> QED BY <1>2 DEF IsOwn, Grown

(* The read loop of c is where it was.                                     *)
SameCaller(c) == cpc'[c] = cpc[c] /\ on'[c] = on[c] /\ answer'[c] = answer[c]

(* Others' steps leave what a read loop serves as it is.                   *)
LEMMA SameServes ==
  ASSUME CacheInv, Grown, NEW c \in Callers, NEW r \in Keys,
         SameCaller(c), cpc[c] # "idle" => ServesOwn(c, r)
  PROVE  cpc'[c] # "idle" => ServesOwn(c, r)'
  <1> SUFFICES ASSUME cpc'[c] # "idle" PROVE ServesOwn(c, r)'
    OBVIOUS
  <1>1. CASE cpc[c] \in {"executing", "waiting"}
    <2>1. on[c] \in 1..Len(runs)
      BY <1>1 DEF CacheInv, ExecutorsInv, WaitersInv
    <2>2. runs[on[c]].key = r /\ runs[on[c]].content = Own
      BY <1>1 DEF ServesOwn
    <2> QED BY <1>1, <2>1, <2>2 DEF ServesOwn, SameCaller, Grown
  <1>2. CASE cpc[c] = "answered"
    <2>1. IsOwn(r, answer[c])
      BY <1>2 DEF ServesOwn
    <2> DEFINE a == answer[c]
    <2>2. answer'[c] = a /\ cpc'[c] = "answered" /\ IsOwn(r, a)
      BY <1>2, <2>1 DEF SameCaller
    <2>3. PICK b : b = a
      OBVIOUS
    <2>4. IsOwn(r, b)'
      BY <2>2, <2>3, OwnStaysOwn
    <2>5. IsOwn(r, answer[c])'
      BY <2>2, <2>3, <2>4 DEF IsOwn
    <2> QED BY <2>2, <2>5 DEF ServesOwn
  <1> QED BY <1>1, <1>2 DEF SameCaller, CacheInv, CallerTypes

(* A read loop that has looked up its request is in, or done with, that    *)
(* one.                                                                    *)
LEMMA LookupServes ==
  ASSUME CacheInv, NEW c \in Callers, NEW k \in Keys, NEW x \in Contents, Lookup(c, k, x)
  PROVE  /\ x = Own => ServesOwn(c, k)'
         /\ \A d \in Callers : d # c => SameCaller(d)
  <1> DEFINE known == Forgetting(ExpiredNow)
  <1>1. CacheInv' /\ Grown
    BY LookupInv
  <1>2. ASSUME NEW d \in Callers, d # c PROVE SameCaller(d)
    <2>1. CASE Executes(c, k, x, known, Cached \ ExpiredNow)
      BY <1>2, <2>1 DEF Executes, SameCaller, CacheInv, CallerTypes
    <2>2. CASE Conflicts(c, k, x, known)
      BY <1>2, <2>2 DEF Conflicts, SameCaller, CacheInv, CallerTypes
    <2>3. CASE Joins(c, k, x, known, Cached \ ExpiredNow)
      BY <1>2, <2>3 DEF Joins, SameCaller, CacheInv, CallerTypes
    <2> HIDE DEF known
    <2> QED BY <2>1, <2>2, <2>3, LookupOutcomes DEF known
  <1>3. ASSUME x = Own PROVE ServesOwn(c, k)'
    <2>1. CASE Executes(c, k, x, known, Cached \ ExpiredNow)
      <3>1. runs'[Len(runs) + 1] = [key |-> k, content |-> x, size |-> 0]
        BY <2>1, RunsAppended DEF Executes, CacheInv
      <3>2. cpc'[c] = "executing" /\ on'[c] = Len(runs) + 1
        BY <2>1 DEF Executes, CacheInv, CallerTypes
      <3> QED BY <1>3, <3>1, <3>2 DEF ServesOwn
    <2>2. CASE Conflicts(c, k, x, known)
      BY <2>2 DEF Conflicts, CacheInv, CallerTypes, ServesOwn, IsOwn
    <2>3. CASE Joins(c, k, x, known, Cached \ ExpiredNow)
      <3> DEFINE e == known[k]
      <3>1. e \in 1..Len(runs) /\ runs[e].key = k
        BY <2>3, AfterExpiry DEF ExpiryInv, Joins
      <3>2. runs' = runs /\ runs[e].content = x /\ on'[c] = e
            /\ (Completed(e) => cpc'[c] = "answered" /\ answer'[c] = e)
            /\ (~Completed(e) => cpc'[c] = "waiting")
        BY <2>3 DEF Joins, CacheInv, CallerTypes, SameRequest
      <3> HIDE DEF e
      <3> QED BY <1>3, <3>1, <3>2 DEF ServesOwn, IsOwn, Completed
    <2> QED BY <2>1, <2>2, <2>3, LookupOutcomes
  <1> QED BY <1>2, <1>3

(* A response it computes or is woken for is one to its request.           *)
LEMMA CacheStepServes ==
  ASSUME CacheInv, NEW c \in Callers,
         (\E size \in Sizes : Complete(c, size)) \/ Wake(c)
  PROVE  /\ \A r \in Keys : ServesOwn(c, r) => ServesOwn(c, r)'
         /\ cpc[c] # "idle"
         /\ \A d \in Callers : d # c => SameCaller(d)
  <1>1. CASE \E size \in Sizes : Complete(c, size)
    <2>1. PICK size \in Sizes : Complete(c, size)
      BY <1>1
    <2>2. PICK e, sizeOf, victims : Stores(c, size, e, sizeOf, victims)
      BY <2>1, CompleteStores
    <2>3. e \in 1..Len(runs)
      BY <2>2, StoresSizes
    <2>4. /\ Len(runs') = Len(runs)
          /\ runs'[e] = [key |-> runs[e].key, content |-> runs[e].content, size |-> size]
      BY <2>2, <2>3, RunsCompleted DEF Stores, CacheInv
    <2>5. /\ cpc[c] = "executing" /\ on[c] = e /\ cpc'[c] = "answered" /\ answer'[c] = e
          /\ on' = on
          /\ \A d \in Callers : d # c => cpc'[d] = cpc[d] /\ answer'[d] = answer[d]
      BY <2>2 DEF Stores, CacheInv, CallerTypes
    <2>6. ASSUME NEW r \in Keys, ServesOwn(c, r) PROVE ServesOwn(c, r)'
      <3>1. runs[e].key = r /\ runs[e].content = Own
        BY <2>5, <2>6 DEF ServesOwn
      <3> QED BY <2>3, <2>4, <2>5, <3>1, ConstantsTyped DEF ServesOwn, IsOwn, Completed
    <2> QED BY <2>5, <2>6 DEF SameCaller
  <1>2. CASE Wake(c)
    <2>1. /\ cpc[c] = "waiting" /\ Completed(on[c]) /\ runs' = runs
          /\ cpc'[c] = "answered" /\ answer'[c] = on[c] /\ on' = on
          /\ \A d \in Callers : d # c => cpc'[d] = cpc[d] /\ answer'[d] = answer[d]
      BY <1>2 DEF Wake, CacheInv, CallerTypes, cacheVars
    <2>2. on[c] \in 1..Len(runs)
      BY <2>1 DEF CacheInv, WaitersInv
    <2>3. ASSUME NEW r \in Keys, ServesOwn(c, r) PROVE ServesOwn(c, r)'
      BY <2>1, <2>2, <2>3 DEF ServesOwn, IsOwn, Completed
    <2> QED BY <2>1, <2>3 DEF SameCaller
  <1> QED BY <1>1, <1>2
-----------------------------------------------------------------------------
(* The steps of the exchange.                                              *)

(* A step of no connection's read loop.                                    *)
LEMMA ServingKept ==
  ASSUME ExchangeInv, Grown, serving' = serving, \A c \in Conns : SameCaller(c)
  PROVE  ServingInv'
  <1>1. ASSUME NEW c \in Conns, cpc'[c] # "idle"
        PROVE  \E r \in Keys : serving'[c] = {r} /\ ServesOwn(c, r)'
    <2>1. PICK r \in Keys : serving[c] = {r} /\ ServesOwn(c, r)
      BY <1>1 DEF ExchangeInv, ServingInv, SameCaller
    <2>2. c \in Callers
      BY DEF Conns
    <2>3. ServesOwn(c, r)'
      BY <1>1, <2>1, <2>2, SameServes DEF ExchangeInv
    <2> QED BY <2>1, <2>3
  <1> QED BY <1>1 DEF ServingInv, ExchangeInv

(* A step after which the same responses are on their way.                 *)
LEMMA MessagesKept ==
  ASSUME ExchangeInv, Grown, toClient' = toClient, toServer' \in [Conns -> Seq(Keys)]
  PROVE  MessagesInv'
  BY OwnStaysOwn DEF MessagesInv, ExchangeInv, OwnMessage

(* Every message was its request's own before the step.                    *)
LEMMA MessagesOwn ==
  ASSUME ExchangeInv, Grown, toServer' \in [Conns -> Seq(Keys)],
         toClient' \in [Conns -> Seq(Keys \X Responses)],
         \A c \in Conns : \A i \in 1..Len(toClient'[c]) : OwnMessage(toClient'[c][i])
  PROVE  MessagesInv'
  <1>1. ASSUME NEW m, OwnMessage(m) PROVE OwnMessage(m)'
    BY <1>1, OwnStaysOwn DEF OwnMessage, ExchangeInv
  <1>2. \A c \in Conns : \A i \in 1..Len(toClient'[c]) : OwnMessage(toClient[c][i])'
    <2> SUFFICES ASSUME NEW c \in Conns, NEW i \in 1..Len(toClient'[c])
                 PROVE  OwnMessage(toClient[c][i])'
      OBVIOUS
    <2>1. PICK m : m = toClient'[c][i]
      OBVIOUS
    <2>2. OwnMessage(m)'
      BY <1>1, <2>1
    <2> QED BY <2>1, <2>2 DEF OwnMessage, IsOwn
  <1> QED BY <1>2 DEF MessagesInv

(* A step that hands no response to a request.                             *)
LEMMA ResponsesKept ==
  ASSUME ExchangeInv, Grown, respCh' = respCh, result' = result
  PROVE  ResponsesInv'
  BY OwnStaysOwn DEF ResponsesInv, ExchangeInv

(* A step of the client or of a connection.                                *)
LEMMA CacheUntouched ==
  ASSUME ExchangeInv, UNCHANGED vars
  PROVE  CacheInv' /\ Grown /\ \A c \in Callers : SameCaller(c)
  BY UnchangedInv DEF ExchangeInv, vars, callerVars, SameCaller

(* The requester's steps: it returns only what was handed to the request.  *)
LEMMA RequesterInv ==
  ASSUME ExchangeInv, NEW r \in Keys,
         StartRequest(r) \/ Send(r) \/ TakeResponse(r) \/ AttemptFails(r)
  PROVE  ExchangeInv'
  <1> USE DEF ExchangeInv
  <1>1. UNCHANGED vars /\ serving' = serving /\ toClient' = toClient /\ failures' = failures
        /\ current' = current /\ cliOpen' = cliOpen /\ srvOpen' = srvOpen
    BY DEF StartRequest, Send, TakeResponse, AttemptFails, linkVars
  <1>2. CacheInv' /\ Grown /\ \A c \in Callers : SameCaller(c)
    BY <1>1, CacheUntouched
  <1>3. ServingInv'
    BY <1>1, <1>2, ServingKept DEF Conns
  <1>4. toServer' \in [Conns -> Seq(Keys)]
    <2>1. CASE Send(r) /\ srvOpen[current]
      <3>1. current \in Conns /\ toServer[current] \in Seq(Keys)
        BY <2>1 DEF Send, RequesterTypes, MessagesInv
      <3>2. Append(toServer[current], r) \in Seq(Keys)
        BY <3>1, AppendProperties
      <3> QED BY <2>1, <3>1, <3>2 DEF Send, MessagesInv
    <2>2. CASE toServer' = toServer
      BY <2>2 DEF MessagesInv
    <2> QED BY <2>1, <2>2 DEF StartRequest, Send, TakeResponse, AttemptFails, linkVars
  <1>5. MessagesInv'
    BY <1>1, <1>2, <1>4, MessagesKept
  <1>6. ResponsesInv'
    <2>1. CASE TakeResponse(r)
      <3>1. /\ respCh' = [respCh EXCEPT ![r] = None] /\ result' = [result EXCEPT ![r] = respCh[r]]
            /\ respCh[r] # None
        BY <2>1 DEF TakeResponse
      <3>2. None \in Responses \cup {None} /\ respCh[r] \in Responses \cup {None}
        BY DEF ResponsesInv
      <3>3. /\ respCh' \in [Keys -> Responses \cup {None}]
            /\ result' \in [Keys -> Responses \cup {None}]
        BY <3>1, <3>2 DEF ResponsesInv
      <3>4. ASSUME NEW q \in Keys PROVE /\ respCh'[q] # None => IsOwn(q, respCh[q])
                                        /\ result'[q] # None => IsOwn(q, result'[q])
                                        /\ respCh'[q] # None => respCh'[q] = respCh[q]
        BY <3>1 DEF ResponsesInv
      <3> QED BY <1>2, <3>3, <3>4, OwnStaysOwn DEF ResponsesInv
    <2>2. CASE AttemptFails(r) /\ respCh' = [respCh EXCEPT ![r] = None]
      <3>1. result' = result /\ respCh' \in [Keys -> Responses \cup {None}]
        BY <2>2 DEF AttemptFails, ResponsesInv
      <3>2. \A q \in Keys : respCh'[q] # None => respCh'[q] = respCh[q]
        BY <2>2 DEF ResponsesInv
      <3> QED BY <1>2, <3>1, <3>2, OwnStaysOwn DEF ResponsesInv
    <2>3. CASE respCh' = respCh /\ result' = result
      BY <1>2, <2>3, ResponsesKept
    <2> QED BY <2>1, <2>2, <2>3 DEF StartRequest, Send, AttemptFails
  <1>7. RequesterTypes'
    <2>1. rpc' \in [Keys -> {"new", "sending", "waiting", "done", "failed"}]
      BY DEF RequesterTypes, StartRequest, Send, TakeResponse, AttemptFails
    <2>2. attempt' \in [Keys -> 0..MaxRetries]
      <3>1. CASE AttemptFails(r) /\ ~LastAttempt(r)
        BY <3>1, ExchangeAssumption DEF AttemptFails, LastAttempt, RequesterTypes
      <3>2. CASE attempt' = attempt
        BY <3>2 DEF RequesterTypes
      <3> QED BY <3>1, <3>2 DEF StartRequest, Send, TakeResponse, AttemptFails
    <2> QED BY <1>1, <2>1, <2>2 DEF RequesterTypes
  <1> QED BY <1>2, <1>3, <1>5, <1>6, <1>7

(* Connections open and close, and lose what was on its way.               *)
LEMMA LinkInv ==
  ASSUME ExchangeInv, NEW c \in Conns, Connect(c) \/ ClientCloses(c) \/ ServerCloses(c)
  PROVE  ExchangeInv'
  <1> USE DEF ExchangeInv
  <1>1. UNCHANGED vars /\ UNCHANGED clientVars /\ serving' = serving
    BY DEF Connect, ClientCloses, ServerCloses
  <1>2. CacheInv' /\ Grown /\ \A d \in Callers : SameCaller(d)
    BY <1>1, CacheUntouched
  <1>3. ServingInv'
    BY <1>1, <1>2, ServingKept DEF Conns
  <1>4. MessagesInv'
    <2>1. \A T : <<>> \in Seq(T) /\ Len(<<>>) = 0
      BY EmptySeq
    <2>2. toServer' \in [Conns -> Seq(Keys)] /\ toClient' \in [Conns -> Seq(Keys \X Responses)]
      <3>1. <<>> \in Seq(Keys) /\ <<>> \in Seq(Keys \X Responses)
        BY <2>1
      <3>2. CASE Connect(c)
        BY <3>2 DEF MessagesInv, Connect
      <3>3. CASE ClientCloses(c)
        BY <3>1, <3>3 DEF MessagesInv, ClientCloses
      <3>4. CASE ServerCloses(c)
        BY <3>1, <3>4 DEF MessagesInv, ServerCloses
      <3> QED BY <3>2, <3>3, <3>4
    <2>3. ASSUME NEW d \in Conns, NEW i \in 1..Len(toClient'[d])
          PROVE  OwnMessage(toClient'[d][i])
      <3>1. toClient'[d] \in {toClient[d], <<>>}
        BY DEF MessagesInv, Connect, ClientCloses, ServerCloses
      <3>2. toClient'[d] = toClient[d]
        BY <2>1, <2>3, <3>1
      <3> QED BY <2>3, <3>2 DEF MessagesInv
    <2> QED BY <1>2, <2>2, <2>3, MessagesOwn
  <1>5. ResponsesInv'
    BY <1>1, <1>2, ResponsesKept DEF clientVars
  <1>6. RequesterTypes'
    <2>1. rpc' = rpc /\ attempt' = attempt
      BY <1>1 DEF clientVars
    <2>2. failures' \in 0..MaxFailures
      BY ExchangeAssumption DEF RequesterTypes, Connect, ClientCloses, ServerCloses
    <2>3. current' \in Conns \cup {NoConn} /\ cliOpen' \in [Conns -> BOOLEAN]
          /\ srvOpen' \in [Conns -> BOOLEAN]
      BY DEF RequesterTypes, Connect, ClientCloses, ServerCloses
    <2> QED BY <2>1, <2>2, <2>3 DEF RequesterTypes
  <1> QED BY <1>2, <1>3, <1>4, <1>5, <1>6

(* A response is handed to the request it names, and is one to it.         *)
LEMMA ReceiveInv ==
  ASSUME ExchangeInv, NEW c \in Conns, ReceiveResponse(c)
  PROVE  ExchangeInv'
  <1> USE DEF ExchangeInv
  <1>1. UNCHANGED vars /\ serving' = serving /\ toServer' = toServer /\ result' = result
    BY DEF ReceiveResponse
  <1>2. CacheInv' /\ Grown /\ \A d \in Callers : SameCaller(d)
    BY <1>1, CacheUntouched
  <1>3. ServingInv'
    BY <1>1, <1>2, ServingKept DEF Conns
  <1> DEFINE s == toClient[c]
             r == s[1][1]
             a == s[1][2]
  <1>4. s \in Seq(Keys \X Responses) /\ s # <<>> /\ Head(s) = s[1] /\ toClient'[c] = Tail(s)
        /\ \A d \in Conns : d # c => toClient'[d] = toClient[d]
    BY DEF MessagesInv, ReceiveResponse
  <1>5. /\ Len(s) \in Nat /\ Len(s) # 0
        /\ s \in [1..Len(s) -> Keys \X Responses]
    BY <1>4, LenProperties, EmptySeq
  <1>6. 1 \in 1..Len(s) /\ s[1] \in Keys \X Responses
    BY <1>5
  <1>7. r \in Keys /\ a \in Responses /\ IsOwn(r, a)
    BY <1>6 DEF MessagesInv, OwnMessage
  <1>8. Tail(s) \in Seq(Keys \X Responses) /\ Len(Tail(s)) = Len(s) - 1
        /\ \A i \in 1..Len(Tail(s)) : Tail(s)[i] = s[i + 1] /\ i + 1 \in 1..Len(s)
    <2>1. Tail(s) \in Seq(Keys \X Responses) /\ Len(Tail(s)) = Len(s) - 1
          /\ \A i \in 1..Len(Tail(s)) : Tail(s)[i] = s[i + 1]
      BY <1>4, <1>5, HeadTailProperties
    <2> HIDE DEF s
    <2> QED BY <1>5, <2>1
  <1>9. MessagesInv'
    <2>1. toClient' \in [Conns -> Seq(Keys \X Responses)]
      BY <1>4, <1>8 DEF MessagesInv, ReceiveResponse
    <2>2. ASSUME NEW d \in Conns, NEW i \in 1..Len(toClient'[d])
          PROVE  OwnMessage(toClient'[d][i])
      <3>1. CASE d # c
        BY <1>4, <2>2, <3>1 DEF MessagesInv
      <3>2. CASE d = c
        <4>1. toClient'[d][i] = s[i + 1] /\ i + 1 \in 1..Len(s)
          BY <1>4, <1>8, <2>2, <3>2
        <4>2. \A j \in 1..Len(s) : OwnMessage(s[j])
          BY DEF MessagesInv
        <4> HIDE DEF s
        <4> QED BY <4>1, <4>2
      <3> QED BY <3>1, <3>2
    <2>3. toServer' \in [Conns -> Seq(Keys)]
      BY <1>1 DEF MessagesInv
    <2> QED BY <1>2, <2>1, <2>2, <2>3, MessagesOwn
  <1>10. ResponsesInv'
    <2>1. CASE respCh' = respCh
      BY <1>1, <1>2, <2>1, ResponsesKept
    <2>2. CASE respCh' = [respCh EXCEPT ![r] = a]
      <3>1. respCh' \in [Keys -> Responses \cup {None}]
        BY <1>7, <2>2 DEF ResponsesInv
      <3>2. ASSUME NEW q \in Keys, respCh'[q] # None PROVE IsOwn(q, respCh'[q])
        BY <1>7, <2>2, <3>2 DEF ResponsesInv
      <3> QED BY <1>1, <1>2, <3>1, <3>2, OwnStaysOwn DEF ResponsesInv
    <2> QED BY <1>4, <2>1, <2>2 DEF ReceiveResponse, Addressee
  <1>11. RequesterTypes'
    BY DEF ReceiveResponse, RequesterTypes
  <1> QED BY <1>2, <1>3, <1>9, <1>10, <1>11
(* The read loop of c is at, or done with, the request q.                  *)
LEMMA ServingMoved ==
  ASSUME ExchangeInv, Grown, NEW c \in Conns, NEW S, S \in SUBSET Keys,
         serving' = [serving EXCEPT ![c] = S],
         cpc'[c] # "idle" => \E q \in Keys : S = {q} /\ ServesOwn(c, q)',
         \A d \in Callers : d # c => SameCaller(d)
  PROVE  ServingInv'
  <1>1. serving' \in [Conns -> SUBSET Keys]
    BY DEF ExchangeInv, ServingInv
  <1>2. ASSUME NEW d \in Conns, cpc'[d] # "idle"
        PROVE  \E r \in Keys : serving'[d] = {r} /\ ServesOwn(d, r)'
    <2>1. CASE d = c
      BY <1>2, <2>1 DEF ExchangeInv, ServingInv
    <2>2. CASE d # c
      <3>1. d \in Callers /\ SameCaller(d) /\ serving'[d] = serving[d]
        BY <2>2 DEF Conns, ExchangeInv, ServingInv
      <3>2. PICK r \in Keys : serving[d] = {r} /\ ServesOwn(d, r)
        BY <1>2, <3>1 DEF ExchangeInv, ServingInv, SameCaller
      <3>3. ServesOwn(d, r)'
        BY <1>2, <3>1, <3>2, SameServes DEF ExchangeInv
      <3> QED BY <3>1, <3>2, <3>3
    <2> QED BY <2>1, <2>2
  <1> QED BY <1>1, <1>2 DEF ServingInv

(* A read loop takes the next request.                                     *)
LEMMA ReadInv ==
  ASSUME ExchangeInv, NEW c \in Conns, ReadRequest(c)
  PROVE  ExchangeInv'
  <1> USE DEF ExchangeInv
  <1> DEFINE s == toServer[c]
             r == Head(s)
  <1>1. Lookup(c, r, Own) /\ UNCHANGED clientVars /\ toClient' = toClient
        /\ toServer' = [toServer EXCEPT ![c] = Tail(s)]
        /\ serving' = [serving EXCEPT ![c] = {r}]
        /\ current' = current /\ cliOpen' = cliOpen /\ srvOpen' = srvOpen
        /\ failures' = failures
    BY DEF ReadRequest
  <1>2. s \in Seq(Keys) /\ s # <<>>
    BY DEF MessagesInv, ReadRequest
  <1>3. r \in Keys /\ Tail(s) \in Seq(Keys)
    <2> HIDE DEF s
    <2> QED BY <1>2, HeadTailProperties
  <1>4. c \in Callers /\ Own \in Contents
    BY ExchangeAssumption DEF Conns
  <1>5. CacheInv' /\ Grown
    <2> HIDE DEF r
    <2> QED BY <1>1, <1>3, <1>4, LookupInv
  <1>6. PICK q \in Keys : q = r
    BY <1>3
  <1>7. ServingInv'
    <2>1. ServesOwn(c, q)' /\ \A d \in Callers : d # c => SameCaller(d)
      <3> HIDE DEF r
      <3> QED BY <1>1, <1>4, <1>6, LookupServes
    <2>2. serving' = [serving EXCEPT ![c] = {q}] /\ {q} \in SUBSET Keys
      BY <1>1, <1>6
    <2> HIDE DEF r
    <2> QED BY <1>5, <2>1, <2>2, ServingMoved
  <1>8. MessagesInv'
    <2>1. toServer' \in [Conns -> Seq(Keys)]
      BY <1>1, <1>3 DEF MessagesInv
    <2> QED BY <1>1, <1>5, <2>1, MessagesKept
  <1>9. ResponsesInv'
    BY <1>1, <1>5, ResponsesKept DEF clientVars
  <1>10. RequesterTypes'
    BY <1>1 DEF RequesterTypes, clientVars
  <1> QED BY <1>5, <1>7, <1>8, <1>9, <1>10

(* It sends the answer under the id of the request it was in.              *)
LEMMA RespondInv ==
  ASSUME ExchangeInv, NEW c \in Conns, Respond(c)
  PROVE  ExchangeInv'
  <1> USE DEF ExchangeInv
  <1>1. /\ Returned(c) /\ UNCHANGED <<cacheVars, expiries>> /\ UNCHANGED clientVars
        /\ toServer' = toServer /\ serving' = [serving EXCEPT ![c] = {}]
        /\ current' = current /\ cliOpen' = cliOpen /\ srvOpen' = srvOpen
        /\ failures' = failures
    BY DEF Respond
  <1>2. c \in Callers
    BY DEF Conns
  <1>3. CacheInv' /\ Grown
    BY <1>1, <1>2, ReturnedInv
  <1>4. ServingInv'
    <2>1. cpc'[c] = "idle" /\ \A d \in Callers : d # c => SameCaller(d)
      BY <1>1, <1>2 DEF Returned, SameCaller, CacheInv, CallerTypes
    <2> QED BY <1>1, <1>3, <2>1, ServingMoved
  <1>5. MessagesInv'
    <2>1. CASE toClient' = toClient
      BY <1>1, <1>3, <2>1, MessagesKept DEF MessagesInv
    <2> DEFINE q == CHOOSE r \in serving[c] : TRUE
               m == <<q, answer[c]>>
               s == toClient[c]
    <2>2. CASE toClient' = [toClient EXCEPT ![c] = Append(s, m)]
      <3>1. cpc[c] = "answered"
        BY <1>1 DEF Returned
      <3>2. PICK r \in Keys : serving[c] = {r} /\ ServesOwn(c, r)
        BY <3>1 DEF ServingInv
      <3>3. q = r
        BY <3>2
      <3>4. IsOwn(r, answer[c])
        BY <3>1, <3>2 DEF ServesOwn
      <3>5. answer[c] \in Responses
        <4>1. Len(runs) \in Nat /\ Len(runs) <= MaxRuns
          BY LenProperties DEF CacheInv, CacheTypes
        <4> QED BY <3>4, <4>1, ConstantsTyped DEF IsOwn, Responses
      <3>6. m \in Keys \X Responses /\ OwnMessage(m)
        <4>1. m = <<r, answer[c]>>
          BY <3>3
        <4> HIDE DEF m, q
        <4>2. PICK a : a = answer[c]
          OBVIOUS
        <4>3. IsOwn(r, a) /\ a \in Responses
          BY <3>4, <3>5, <4>2
        <4>4. m = <<r, a>> /\ m[1] = r /\ m[2] = a
          BY <4>1, <4>2
        <4>5. OwnMessage(m)
          BY <4>3, <4>4 DEF OwnMessage
        <4> QED BY <4>3, <4>4, <4>5
      <3>7. s \in Seq(Keys \X Responses) /\ \A i \in 1..Len(s) : OwnMessage(s[i])
        BY DEF MessagesInv
      <3> HIDE DEF q, m
      <3>8. /\ Append(s, m) \in Seq(Keys \X Responses)
            /\ \A i \in 1..Len(Append(s, m)) : OwnMessage(Append(s, m)[i])
        <4> HIDE DEF s
        <4>1. /\ Append(s, m) \in Seq(Keys \X Responses) /\ Len(Append(s, m)) = Len(s) + 1
              /\ \A i \in 1..Len(s) : Append(s, m)[i] = s[i]
              /\ Append(s, m)[Len(s) + 1] = m
          BY <3>6, <3>7, AppendProperties
        <4>2. Len(s) \in Nat
          BY <3>7, LenProperties
        <4> QED BY <3>6, <3>7, <4>1, <4>2
      <3>9. toClient' \in [Conns -> Seq(Keys \X Responses)]
        BY <2>2, <3>8 DEF MessagesInv
      <3>10. ASSUME NEW d \in Conns, NEW i \in 1..Len(toClient'[d])
             PROVE  OwnMessage(toClient'[d][i])
        BY <2>2, <3>8, <3>10 DEF MessagesInv
      <3>11. toServer' \in [Conns -> Seq(Keys)]
        BY <1>1 DEF MessagesInv
      <3> QED BY <1>3, <3>9, <3>10, <3>11, MessagesOwn
    <2> QED BY <2>1, <2>2 DEF Respond
  <1>6. ResponsesInv'
    BY <1>1, <1>3, ResponsesKept DEF clientVars
  <1>7. RequesterTypes'
    BY <1>1 DEF RequesterTypes, clientVars
  <1> QED BY <1>3, <1>4, <1>5, <1>6, <1>7

(* A step of the cache or of its callers, as the connections see it.       *)
LEMMA CacheSideInv ==
  ASSUME ExchangeInv, CacheInv', Grown, ServingInv',
         UNCHANGED <<clientVars, current, cliOpen, toClient>>,
         toServer' \in [Conns -> Seq(Keys)], srvOpen' \in [Conns -> BOOLEAN], failures' \in 0..MaxFailures
  PROVE  ExchangeInv'
  <1>1. MessagesInv'
    BY MessagesKept DEF ExchangeInv
  <1>2. ResponsesInv'
    BY ResponsesKept DEF clientVars
  <1>3. RequesterTypes'
    BY DEF RequesterTypes, clientVars, ExchangeInv
  <1> QED BY <1>1, <1>2, <1>3 DEF ExchangeInv

(* What other clients of the application ask.                              *)
LEMMA ForeignInv ==
  ASSUME ExchangeInv, NEW f \in Foreign,
         \/ ForeignAnswered(f)
         \/ \E k \in Keys, x \in Contents : ForeignRequest(f, k, x)
  PROVE  ExchangeInv'
  <1>1. f \in Callers /\ \A c \in Conns : c \in Callers /\ c # f
    BY ExchangeAssumption DEF Conns
  <1>2. UNCHANGED <<clientVars, linkVars, failures>>
    BY DEF ForeignAnswered, ForeignRequest
  <1>3. CacheInv' /\ Grown /\ \A d \in Callers : d # f => SameCaller(d)
    <2>1. CASE ForeignAnswered(f)
      <3>1. CacheInv' /\ Grown
        BY <1>1, <2>1, ReturnedInv DEF ForeignAnswered, ExchangeInv
      <3>2. \A d \in Callers : d # f => SameCaller(d)
        BY <1>1, <2>1 DEF ForeignAnswered, Returned, SameCaller, ExchangeInv, CacheInv, CallerTypes
      <3> QED BY <3>1, <3>2
    <2>2. CASE \E k \in Keys, x \in Contents : ForeignRequest(f, k, x)
      <3>1. PICK k \in Keys, x \in Contents : Lookup(f, k, x)
        BY <2>2 DEF ForeignRequest
      <3> QED BY <1>1, <3>1, LookupInv, LookupServes DEF ExchangeInv
    <2> QED BY <2>1, <2>2
  <1>4. ServingInv'
    BY <1>1, <1>2, <1>3, ServingKept DEF linkVars
  <1> QED BY <1>2, <1>3, <1>4, CacheSideInv
     DEF linkVars, ExchangeInv, RequesterTypes, MessagesInv

(* An execution ends, or a waiter is woken.                                *)
LEMMA CacheStepInv ==
  ASSUME ExchangeInv, NEW c \in Callers, CacheStep(c)
  PROVE  ExchangeInv'
  <1>1. UNCHANGED <<clientVars, linkVars, failures>>
        /\ ((\E size \in Sizes : Complete(c, size)) \/ Wake(c))
    BY DEF CacheStep
  <1>2. CacheInv' /\ Grown
    BY <1>1, CompleteInv, WakeInv DEF ExchangeInv
  <1>3. /\ \A r \in Keys : ServesOwn(c, r) => ServesOwn(c, r)'
        /\ cpc[c] # "idle"
        /\ \A d \in Callers : d # c => SameCaller(d)
    BY <1>1, CacheStepServes DEF ExchangeInv
  <1>4. ServingInv'
    <2>1. CASE c \in Conns
      <3>1. PICK q \in Keys : serving[c] = {q} /\ ServesOwn(c, q)
        BY <1>3, <2>1 DEF ExchangeInv, ServingInv
      <3>2. serving' = [serving EXCEPT ![c] = {q}]
        BY <1>1, <2>1, <3>1 DEF linkVars, ExchangeInv, ServingInv
      <3>3. ServesOwn(c, q)' /\ {q} \in SUBSET Keys
        BY <1>3, <3>1
      <3> QED BY <1>2, <1>3, <2>1, <3>2, <3>3, ServingMoved
    <2>2. CASE c \notin Conns
      <3>1. \A d \in Conns : SameCaller(d)
        BY <1>3, <2>2 DEF Conns
      <3> QED BY <1>1, <1>2, <3>1, ServingKept DEF linkVars
    <2> QED BY <2>1, <2>2
  <1> QED BY <1>1, <1>2, <1>4, CacheSideInv
     DEF linkVars, ExchangeInv, RequesterTypes, MessagesInv

(* An entry becomes stale.                                                 *)
LEMMA ExpireExchangeInv ==
  ASSUME ExchangeInv, NEW e \in DOMAIN runs, Expire(e),
         UNCHANGED <<clientVars, linkVars, failures>>
  PROVE  ExchangeInv'
  <1>1. CacheInv' /\ Grown
    BY ExpireInv DEF ExchangeInv
  <1>2. \A c \in Conns : SameCaller(c)
    BY DEF Expire, callerVars, SameCaller
  <1>3. ServingInv'
    BY <1>1, <1>2, ServingKept DEF linkVars
  <1> QED BY <1>1, <1>3, CacheSideInv
     DEF linkVars, ExchangeInv, RequesterTypes, MessagesInv

(* A restart forgets the cache, and with it every execution, but no        *)
(* response that is on its way or was handed over.                         *)
LEMMA RestartInv ==
  ASSUME ExchangeInv, ServerRestart
  PROVE  ExchangeInv'
  <1> USE DEF ExchangeInv
  <1>1. /\ entry' = [k \in Keys |-> None] /\ older' = {} /\ totalBytes' = 0 /\ stale' = {}
        /\ dropped' = DOMAIN runs /\ runs' = runs /\ expiries' = expiries
        /\ cpc' = [c \in Callers |-> "idle"] /\ asked' = [c \in Callers |-> NoContent]
        /\ on' = [c \in Callers |-> None] /\ answer' = [c \in Callers |-> None]
    BY DEF ServerRestart
  <1>2. DOMAIN runs = 1..Len(runs) /\ Len(runs) \in Nat /\ Len(runs) <= MaxRuns
    BY LenProperties DEF CacheInv, CacheTypes
  <1>3. (Cached = {} /\ Orders(older, Cached) /\ WithinLimits)'
    <2>1. Cached' = {}
      BY <1>1 DEF Cached
    <2>2. Orders(older, Cached)'
      BY <1>1, <2>1 DEF Orders
    <2>3. Bytes(Cached, SizeNow)' = 0
      BY <2>1, BytesOfNothing DEF Bytes
    <2>4. {e \in Cached : Completed(e)}' = {}
      BY <2>1
    <2>5. Cardinality({e \in Cached : Completed(e)})' = 0
      BY <2>4, FS_EmptySet
    <2> QED BY <1>1, <2>1, <2>2, <2>3, <2>5, ConstantsTyped DEF WithinLimits
  <1>4. CacheTypes'
    <2>1. DOMAIN runs \subseteq Runs
      BY <1>2, ConstantsTyped DEF Runs
    <2> QED BY <1>1, <2>1, ConstantsTyped DEF CacheTypes, CacheInv, None
  <1>5. CallerTypes'
    BY <1>1, ConstantsTyped DEF CallerTypes, None
  <1>6. EntriesInv' /\ ExecutorsInv' /\ WaitersInv' /\ AnswersInv' /\ AtMostOncePerRequest'
    <2>1. EntriesInv'
      BY <1>1, <1>2 DEF EntriesInv
    <2>2. ExecutorsInv'
      BY <1>1, <1>3 DEF ExecutorsInv
    <2>3. WaitersInv' /\ AnswersInv' /\ AtMostOncePerRequest'
      BY <1>1 DEF WaitersInv, AnswersInv, AtMostOncePerRequest
    <2> QED BY <2>1, <2>2, <2>3
  <1>7. CacheInv' /\ Grown
    BY <1>1, <1>3, <1>4, <1>5, <1>6, StaysGrown DEF CacheInv
  <1>8. ServingInv'
    BY <1>1 DEF ServingInv, ServerRestart, Conns
  <1>9. srvOpen' \in [Conns -> BOOLEAN] /\ failures' \in 0..MaxFailures
    BY ExchangeAssumption DEF ServerRestart, RequesterTypes
  <1>10. UNCHANGED <<clientVars, current, cliOpen, toClient>>
         /\ toServer' \in [Conns -> Seq(Keys)]
    <2>1. <<>> \in Seq(Keys)
      BY EmptySeq
    <2> QED BY <2>1 DEF ServerRestart
  <1> QED BY <1>7, <1>8, <1>9, <1>10, CacheSideInv

(* At first nothing is on its way.                                         *)
LEMMA ExchangeInit == XInit => ExchangeInv
  <1> SUFFICES ASSUME XInit PROVE ExchangeInv
    OBVIOUS
  <1> USE DEF XInit
  <1>1. CacheInv
    BY CacheInit
  <1>2. ServingInv
    BY DEF ServingInv, Init, Conns
  <1>3. MessagesInv
    <2>1. \A T : <<>> \in Seq(T) /\ Len(<<>>) = 0
      BY EmptySeq
    <2> QED BY <2>1 DEF MessagesInv
  <1>4. ResponsesInv
    BY DEF ResponsesInv
  <1>5. RequesterTypes
    BY ExchangeAssumption DEF RequesterTypes
  <1> QED BY <1>1, <1>2, <1>3, <1>4, <1>5 DEF ExchangeInv

(* Every step of the exchange keeps the invariant.                         *)
LEMMA ExchangeNext ==
  ASSUME ExchangeInv, [XNext]_xvars
  PROVE  ExchangeInv'
  <1>1. CASE \E r \in Keys : StartRequest(r) \/ Send(r) \/ TakeResponse(r) \/ AttemptFails(r)
    BY <1>1, RequesterInv
  <1>2. CASE \E c \in Conns : Connect(c) \/ ClientCloses(c) \/ ServerCloses(c)
    BY <1>2, LinkInv
  <1>3. CASE \E c \in Conns : ReceiveResponse(c)
    BY <1>3, ReceiveInv
  <1>4. CASE \E c \in Conns : ReadRequest(c)
    BY <1>4, ReadInv
  <1>5. CASE \E c \in Conns : Respond(c)
    BY <1>5, RespondInv
  <1>6. CASE \E f \in Foreign :
               ForeignAnswered(f) \/ \E k \in Keys, x \in Contents : ForeignRequest(f, k, x)
    BY <1>6, ForeignInv
  <1>7. CASE \E c \in Callers : CacheStep(c)
    BY <1>7, CacheStepInv
  <1>8. CASE \E e \in DOMAIN runs : Expire(e) /\ UNCHANGED <<clientVars, linkVars, failures>>
    BY <1>8, ExpireExchangeInv
  <1>9. CASE ServerRestart
    BY <1>9, RestartInv
  <1>10. CASE UNCHANGED xvars
    <2>1. UNCHANGED vars /\ UNCHANGED <<clientVars, linkVars, failures>>
      BY <1>10 DEF xvars
    <2>2. CacheInv' /\ Grown /\ \A c \in Callers : SameCaller(c)
      BY <2>1, CacheUntouched
    <2>3. ServingInv'
      BY <2>1, <2>2, ServingKept DEF linkVars, Conns
    <2> QED BY <2>1, <2>2, <2>3, CacheSideInv
     DEF linkVars, ExchangeInv, RequesterTypes, MessagesInv
  <1> QED BY <1>1, <1>2, <1>3, <1>4, <1>5, <1>6, <1>7, <1>8, <1>9, <1>10 DEF XNext, AllOver

(* The inductive invariant of the exchange.                                *)
THEOREM ExchangeInvariant == XSpec => []ExchangeInv
  BY ExchangeInit, ExchangeNext, PTL DEF XSpec

(* What requestEnvelope returns is the conflict or the response of an      *)
(* execution of that very request, whatever is lost, repeated or late.     *)
THEOREM ResultsAreOwn == XSpec => []ResultIsOwn
  <1>1. ExchangeInv => ResultIsOwn
    BY DEF ExchangeInv, ResponsesInv, IsOwn, ResultIsOwn
  <1> QED BY <1>1, ExchangeInvariant, PTL

(* A request is executed again only when the cache has forgotten its       *)
(* execution, and nobody is at it: also across a restart of the server.    *)
THEOREM RetriesExecuteOnce == XSpec => []AtMostOncePerRequest
  <1>1. ExchangeInv => AtMostOncePerRequest
    BY DEF ExchangeInv, CacheInv
  <1> QED BY <1>1, ExchangeInvariant, PTL
(* The type of the exchange, the cache's included.                         *)
THEOREM ExchangeTypeCorrect == XSpec => []XTypeOK
  <1>1. ExchangeInv => XTypeOK
    <2> SUFFICES ASSUME ExchangeInv PROVE XTypeOK
      OBVIOUS
    <2>1. TypeOK
      BY CacheTyped DEF ExchangeInv
    <2>2. toClient \in [Conns -> Seq(Keys \X Responses)] /\ toServer \in [Conns -> Seq(Keys)]
      BY DEF ExchangeInv, MessagesInv
    <2> QED BY <2>1, <2>2 DEF ExchangeInv, ServingInv, ResponsesInv, RequesterTypes, XTypeOK
  <1> QED BY <1>1, ExchangeInvariant, PTL
=============================================================================
