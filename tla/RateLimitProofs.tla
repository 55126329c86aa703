-------------------------- MODULE RateLimitProofs --------------------------
(***************************************************************************)
(* Proofs about RateLimit, for any limit, window and lag and any finite    *)
(* number of requests.                                                     *)
(***************************************************************************)
EXTENDS RateLimit, FiniteSetTheorems, TLAPS

(***************************************************************************)
(* The inductive invariant.  The window bound follows from what the bucket *)
(* still knows: whatever has left it is a whole window older than Redis's  *)
(* clock, hence Window - MaxLag older than any timestamp still in flight.  *)
(***************************************************************************)

\* Only the past is stamped, and a token's stamp is final.
Stamps ==
    /\ \A r \in Requests : ts[r] <= now
    /\ \A r \in admitted : req[r] # "idle"

\* A request in flight is at most MaxLag behind.
Lag == \A r \in Requests : req[r] \in InFlight => now - ts[r] <= MaxLag

\* The sorted set: at most Limit tokens, none of which the key outlives;
\* what left it is out of the window.
Bucket ==
    /\ bucket \subseteq admitted
    /\ Cardinality(bucket) <= Limit
    /\ \A x \in bucket : ts[x] + Window <= expireAt
    /\ \A x \in admitted \ bucket : ts[x] + Window <= now

\* The key is deleted in time, at most a window and the lag after one of its
\* tokens.
Expiry ==
    bucket # {} => /\ now < expireAt
                   /\ \E x \in bucket : expireAt <= ts[x] + Window + MaxLag

Inv == /\ TypeOK /\ Stamps /\ Lag /\ Bucket /\ Expiry
       /\ WindowBound /\ DeniedOnlyWhenFull

-----------------------------------------------------------------------------
\* Sets of requests are finite; a smaller set has a smaller cardinality.
LEMMA Monotone ==
    ASSUME NEW S, NEW T, T \subseteq Requests, S \subseteq T
    PROVE  /\ Cardinality(S) \in Nat
           /\ Cardinality(T) \in Nat
           /\ Cardinality(S) <= Cardinality(T)
<1>1. IsFiniteSet(T)
  BY LimitAssumption, FS_Subset
<1>2. IsFiniteSet(S) /\ Cardinality(S) <= Cardinality(T)
  BY <1>1, FS_Subset
<1> QED BY <1>1, <1>2, FS_CardinalityType

\* A step that stamps no admitted token and changes neither the bucket's
\* history nor any verdict keeps the two counting properties.
LEMMA CountsKept ==
    ASSUME TypeOK, WindowBound, DeniedOnlyWhenFull,
           admitted' = admitted,
           \A x \in admitted : ts'[x] = ts[x],
           \A r \in Requests : req'[r] \in {"denied", "rejected"} =>
              req[r] \in {"denied", "rejected"} /\ ts'[r] = ts[r]
    PROVE  WindowBound' /\ DeniedOnlyWhenFull'
<1>1. WindowBound'
  <2> SUFFICES ASSUME NEW r \in admitted
               PROVE  Cardinality(AdmittedIn(ts[r] - 1, Window - MaxLag)') <= Limit
    BY DEF WindowBound, AdmittedIn
  <2>1. AdmittedIn(ts[r] - 1, Window - MaxLag)'
          = AdmittedIn(ts[r] - 1, Window - MaxLag)
    BY DEF AdmittedIn
  <2> QED BY <2>1 DEF WindowBound
<1>2. DeniedOnlyWhenFull'
  <2> SUFFICES ASSUME NEW r \in Requests, req'[r] \in {"denied", "rejected"}
               PROVE  Cardinality(AdmittedIn(ts[r] - Window, Window + MaxLag)')
                         >= Limit
    BY DEF DeniedOnlyWhenFull, AdmittedIn
  <2>1. AdmittedIn(ts[r] - Window, Window + MaxLag)'
          = AdmittedIn(ts[r] - Window, Window + MaxLag)
    BY DEF AdmittedIn
  <2> QED BY <2>1 DEF DeniedOnlyWhenFull
<1> QED BY <1>1, <1>2

-----------------------------------------------------------------------------
\* Inv holds initially.
LEMMA InitInv == Init => Inv
<1> SUFFICES ASSUME Init PROVE Inv
  OBVIOUS
<1>1. TypeOK
  BY LimitAssumption DEF Init, TypeOK
<1>2. Stamps /\ Lag /\ Expiry
  BY LimitAssumption DEF Init, Stamps, Lag, Expiry, InFlight
<1>3. Bucket
  BY LimitAssumption, FS_EmptySet DEF Init, Bucket
<1>4. WindowBound /\ DeniedOnlyWhenFull
  BY DEF Init, WindowBound, DeniedOnlyWhenFull
<1> QED BY <1>1, <1>2, <1>3, <1>4 DEF Inv

\* The clock: what the key's expiry removes is out of the window.
LEMMA TickInv == Inv /\ Tick => Inv'
<1> SUFFICES ASSUME Inv, Tick PROVE Inv'
  OBVIOUS
<1> USE LimitAssumption DEF Inv
<1>1. TypeOK'
  BY DEF Tick, TypeOK
<1>2. Stamps' /\ Lag'
  BY DEF Tick, TypeOK, Stamps, Lag
<1>3. Bucket'
  <2>1. CASE expireAt <= now + 1
    <3>1. bucket' = {} /\ UNCHANGED <<ts, admitted, expireAt>> /\ now' = now + 1
      BY <2>1 DEF Tick
    <3>2. \A x \in admitted : ts[x] + Window <= now + 1
      BY <2>1 DEF Bucket, TypeOK
    <3> QED BY <3>1, <3>2, FS_EmptySet DEF Bucket
  <2>2. CASE ~(expireAt <= now + 1)
    BY <2>2 DEF Tick, Bucket, TypeOK
  <2> QED BY <2>1, <2>2
<1>4. Expiry'
  BY DEF Tick, Expiry, TypeOK
<1>5. WindowBound' /\ DeniedOnlyWhenFull'
  BY CountsKept DEF Tick
<1> QED BY <1>1, <1>2, <1>3, <1>4, <1>5

\* A new request has a new stamp and no token.
LEMMA ArriveInv == ASSUME NEW r \in Requests PROVE Inv /\ Arrive(r) => Inv'
<1> SUFFICES ASSUME Inv, Arrive(r) PROVE Inv'
  OBVIOUS
<1> USE LimitAssumption DEF Inv
<1>0. r \notin admitted /\ \A x \in Requests : x # r => ts'[x] = ts[x]
  BY DEF Arrive, Stamps, TypeOK
<1>1. TypeOK'
  BY DEF Arrive, TypeOK, InFlight
<1>2. Stamps' /\ Lag'
  BY DEF Arrive, TypeOK, Stamps, Lag, InFlight
<1>3. Bucket' /\ Expiry'
  BY <1>0 DEF Arrive, Bucket, Expiry, TypeOK
<1>4. WindowBound' /\ DeniedOnlyWhenFull'
  BY <1>0, CountsKept DEF Arrive, TypeOK
<1> QED BY <1>1, <1>2, <1>3, <1>4

\* The steps that only move a request on.
LEMMA AnswerInv ==
    ASSUME NEW r \in Requests
    PROVE  Inv /\ (Bypass(r) \/ Reply(r) \/ FailOpen(r)) => Inv'
<1> SUFFICES ASSUME Inv, Bypass(r) \/ Reply(r) \/ FailOpen(r) PROVE Inv'
  OBVIOUS
<1> USE LimitAssumption DEF Inv, InFlight, Final
<1>0. UNCHANGED <<now, bucket, expireAt, ts, attempts, hint, admitted>>
  BY DEF Bypass, Reply, FailOpen
<1>1. TypeOK'
  BY <1>0 DEF Bypass, Reply, FailOpen, TypeOK
<1>2. Stamps' /\ Lag'
  BY <1>0 DEF Bypass, Reply, FailOpen, TypeOK, Stamps, Lag
<1>3. Bucket' /\ Expiry'
  BY <1>0 DEF Bucket, Expiry
<1>4. WindowBound' /\ DeniedOnlyWhenFull'
  BY <1>0, CountsKept DEF Bypass, Reply, FailOpen, TypeOK
<1> QED BY <1>1, <1>2, <1>3, <1>4

-----------------------------------------------------------------------------
\* Retry-After is a natural number of seconds.
LEMMA RetryAfterType ==
    /\ \A t \in Nat : RetryAfter(t) \in Nat
    /\ TypeOK => \A r \in Requests : RetryTicks(r) \subseteq Nat
<1>1. \A t \in Nat : RetryAfter(t) \in Nat
  BY LimitAssumption DEF RetryAfter
<1>2. ASSUME TypeOK PROVE \A r \in Requests : RetryTicks(r) \subseteq Nat
  BY <1>2, LimitAssumption DEF RetryTicks, Oldest, Trimmed, TypeOK
<1> QED BY <1>1, <1>2

\* The script keeps the types.
LEMMA ScriptType ==
    ASSUME TypeOK, NEW r \in Requests, Script(r)
    PROVE  TypeOK'
<1> USE LimitAssumption DEF TypeOK
<1>1. Trimmed(r) \subseteq Requests
  BY DEF Trimmed
<1>2. hint' \in [Requests -> Nat]
  BY RetryAfterType DEF Script
<1>3. attempts' \in [Requests -> 0..MaxAttempts]
  BY DEF Script, HasAttempts
<1>4. req' \in [Requests -> {"idle"} \cup InFlight \cup Final]
  BY DEF Script, InFlight, Final
<1> QED BY <1>1, <1>2, <1>3, <1>4 DEF Script

\* What the script finds in the window is in the history, and what it trims
\* is out of the window.
LEMMA TrimmedFacts ==
    ASSUME Inv, NEW r \in Requests, req[r] \in InFlight
    PROVE  /\ Trimmed(r) \subseteq admitted
           /\ Cardinality(Trimmed(r)) \in Nat
           /\ Cardinality(Trimmed(r)) <= Cardinality(bucket)
           /\ ts[r] <= now /\ now <= ts[r] + MaxLag
           /\ \A x \in admitted \ Trimmed(r) : ts[x] + Window <= now
<1> USE LimitAssumption DEF Inv
<1>1. Trimmed(r) \subseteq bucket /\ bucket \subseteq Requests
  BY DEF Trimmed, TypeOK
<1>2. ts[r] <= now /\ now <= ts[r] + MaxLag
  BY DEF Lag, Stamps, TypeOK
<1>3. \A x \in admitted \ Trimmed(r) : ts[x] + Window <= now
  <2> SUFFICES ASSUME NEW x \in admitted, x \notin Trimmed(r)
               PROVE  ts[x] + Window <= now
    OBVIOUS
  <2>1. CASE x \in bucket
    BY <2>1, <1>2 DEF Trimmed, TypeOK
  <2>2. CASE x \notin bucket
    BY <2>2 DEF Bucket
  <2> QED BY <2>1, <2>2
<1> QED BY <1>1, <1>2, <1>3, Monotone DEF Bucket

\* An execution of the script keeps the invariant.  When it admits r, every
\* earlier token of a window that holds r is still in the bucket, so the
\* bucket's size bounds the window's.
LEMMA ScriptInv ==
    ASSUME NEW r \in Requests, req[r] \in InFlight
    PROVE  Inv /\ Script(r) => Inv'
<1> SUFFICES ASSUME Inv, Script(r) PROVE Inv'
  OBVIOUS
<1> USE LimitAssumption
<1>0. TypeOK /\ Stamps /\ Lag /\ Bucket /\ Expiry /\ WindowBound
      /\ DeniedOnlyWhenFull
  BY DEF Inv
<1>1. TypeOK'
  BY <1>0, ScriptType
<1>2. Stamps' /\ Lag'
  BY <1>0 DEF Script, TypeOK, Stamps, Lag, InFlight
<1>3. CASE Full(Trimmed(r))
  <2>1. /\ bucket' = Trimmed(r)
        /\ req' = [req EXCEPT ![r] = "denied"]
        /\ UNCHANGED <<now, ts, expireAt, admitted>>
    BY <1>3 DEF Script
  <2>2. Bucket'
    <3>1. Cardinality(Trimmed(r)) <= Limit
      <4>1. bucket \subseteq Requests /\ Trimmed(r) \subseteq bucket
        BY <1>0 DEF TypeOK, Trimmed
      <4>2. /\ Cardinality(bucket) \in Nat /\ Cardinality(Trimmed(r)) \in Nat
            /\ Cardinality(Trimmed(r)) <= Cardinality(bucket)
        BY <4>1, Monotone
      <4> QED BY <4>2, <1>0 DEF Bucket
    <3>2. /\ Trimmed(r) \subseteq admitted
          /\ \A x \in admitted \ Trimmed(r) : ts[x] + Window <= now
      BY TrimmedFacts
    <3>3. \A x \in Trimmed(r) : ts[x] + Window <= expireAt
      BY <1>0 DEF Bucket, Trimmed
    <3> QED BY <2>1, <3>1, <3>2, <3>3 DEF Bucket
  <2>3. Expiry'
    <3> SUFFICES ASSUME Trimmed(r) # {}
                 PROVE  /\ now < expireAt
                        /\ \E x \in Trimmed(r) :
                              expireAt <= ts[x] + Window + MaxLag
      BY <2>1 DEF Expiry
    <3>1. bucket # {}
      BY DEF Trimmed
    <3>2. PICK x \in bucket : expireAt <= ts[x] + Window + MaxLag
      BY <3>1, <1>0 DEF Expiry
    <3>3. CASE x \in Trimmed(r)
      BY <3>1, <3>2, <3>3, <1>0 DEF Expiry
    <3>4. CASE x \notin Trimmed(r)
      <4>1. PICK y \in Trimmed(r) : TRUE
        OBVIOUS
      <4>2. ts[x] <= ts[y]
        BY <3>4, <1>0 DEF Trimmed, TypeOK
      <4>3. expireAt <= ts[y] + Window + MaxLag
        BY <3>2, <4>2, <1>0 DEF TypeOK, Trimmed
      <4> QED BY <4>3, <3>1, <1>0 DEF Expiry
    <3> QED BY <3>3, <3>4
  <2>4. WindowBound'
    BY <2>1, <1>0 DEF WindowBound, AdmittedIn
  <2>5. DeniedOnlyWhenFull'
    <3> SUFFICES ASSUME NEW q \in Requests, req'[q] \in {"denied", "rejected"}
                 PROVE  Cardinality(AdmittedIn(ts[q] - Window, Window + MaxLag))
                           >= Limit
      BY <2>1 DEF DeniedOnlyWhenFull, AdmittedIn
    <3>1. CASE q = r
      <4> DEFINE T == AdmittedIn(ts[r] - Window, Window + MaxLag)
      <4>0. \A x \in bucket : ts[x] <= ts[r] + MaxLag
        <5>1. \A x \in bucket : ts[x] \in Nat /\ ts[x] <= now
          BY <1>0 DEF TypeOK, Stamps
        <5>2. now \in Nat /\ ts[r] \in Nat /\ now - ts[r] <= MaxLag
          BY <1>0 DEF TypeOK, Lag
        <5> QED BY <5>1, <5>2
      <4>1. Trimmed(r) \subseteq T /\ T \subseteq Requests
        <5>1. \A x \in bucket : x \in admitted /\ ts[x] \in Nat
          BY <1>0 DEF Bucket, TypeOK
        <5>2. ts[r] \in Nat /\ admitted \subseteq Requests
          BY <1>0 DEF TypeOK
        <5> QED BY <4>0, <5>1, <5>2 DEF Trimmed, AdmittedIn
      <4> HIDE DEF T
      <4>2. Cardinality(T) >= Limit
        BY <4>1, <1>3, Monotone DEF Full
      <4> QED BY <4>2, <3>1 DEF T
    <3>2. CASE q # r
      BY <3>2, <2>1, <1>0 DEF DeniedOnlyWhenFull, TypeOK
    <3> QED BY <3>1, <3>2
  <2> QED BY <1>1, <1>2, <2>2, <2>3, <2>4, <2>5 DEF Inv
<1>4. CASE ~Full(Trimmed(r))
  <2>1. /\ bucket' = Trimmed(r) \cup {r}
        /\ req' = [req EXCEPT ![r] = "allowed"]
        /\ admitted' = admitted \cup {r}
        /\ expireAt' = now + Window
        /\ UNCHANGED <<now, ts>>
    BY <1>4 DEF Script
  <2>2. /\ Trimmed(r) \subseteq admitted /\ admitted' \subseteq Requests
        /\ ts[r] <= now /\ now <= ts[r] + MaxLag
        /\ \A x \in admitted \ Trimmed(r) : ts[x] + Window <= now
    BY <2>1, <1>0, TrimmedFacts DEF TypeOK
  <2>3. Cardinality(bucket') <= Limit
    <3>1. IsFiniteSet(Trimmed(r))
      BY <2>2, <2>1, FS_Subset
    <3>2. Cardinality(Trimmed(r)) \in Nat /\ Cardinality(Trimmed(r)) < Limit
      BY <1>4, TrimmedFacts DEF Full
    <3>3. Cardinality(Trimmed(r) \cup {r})
             = IF r \in Trimmed(r) THEN Cardinality(Trimmed(r))
                                   ELSE Cardinality(Trimmed(r)) + 1
      BY <3>1, FS_AddElement
    <3>4. Cardinality(Trimmed(r) \cup {r}) <= Limit
      BY <3>2, <3>3
    <3> QED BY <2>1, <3>4
  <2>4. Bucket'
    <3>1. \A x \in bucket' : ts[x] + Window <= expireAt'
      BY <2>1, <1>0 DEF Trimmed, Stamps, TypeOK
    <3>2. \A x \in admitted' \ bucket' : ts[x] + Window <= now
      BY <2>1, <2>2
    <3> QED BY <2>1, <2>2, <2>3, <3>1, <3>2 DEF Bucket
  <2>5. Expiry'
    <3>1. now < expireAt' /\ expireAt' <= ts[r] + Window + MaxLag
      BY <2>1, <2>2, <1>0 DEF TypeOK
    <3> QED BY <2>1, <3>1 DEF Expiry
  <2>6. WindowBound'
    <3> DEFINE L == Window - MaxLag
               Win(y) == {x \in admitted' : ts[y] - 1 < ts[x]
                                            /\ ts[x] <= ts[y] - 1 + L}
    <3> SUFFICES ASSUME NEW y \in admitted'
                 PROVE  Cardinality(Win(y)) <= Limit
      BY <2>1 DEF WindowBound, AdmittedIn
    <3>0. y \in Requests /\ ts[y] \in Nat /\ ts[r] \in Nat /\ L \in Int
      BY <2>2, <1>0 DEF TypeOK
    <3>1. CASE r \in Win(y)
      <4>1. Win(y) \subseteq bucket'
        <5> SUFFICES ASSUME NEW x \in Win(y), x \notin bucket' PROVE FALSE
          OBVIOUS
        <5>1. x \in admitted \ Trimmed(r) /\ ts[x] \in Nat
          BY <2>1, <2>2, <1>0 DEF TypeOK
        <5>2. ts[x] + Window <= ts[r] + MaxLag
          BY <5>1, <2>2, <1>0 DEF TypeOK
        <5>3. ts[r] - ts[x] < L
          BY <3>0, <3>1, <5>1
        <5> QED BY <5>1, <5>2, <5>3, <3>0
      <4>2. bucket' \subseteq Requests
        BY <2>1, <2>2
      <4> HIDE DEF Win
      <4>3. Cardinality(Win(y)) <= Cardinality(bucket')
            /\ Cardinality(Win(y)) \in Nat /\ Cardinality(bucket') \in Nat
        BY <4>1, <4>2, Monotone
      <4> QED BY <4>3, <2>3
    <3>2. CASE r \notin Win(y) /\ y = r
      <4>1. L <= 0
        BY <3>0, <3>2, <2>1
      <4>2. Win(y) = {}
        BY <4>1, <3>0, <2>2, <1>0 DEF TypeOK
      <4> QED BY <4>2, FS_EmptySet
    <3>3. CASE r \notin Win(y) /\ y # r
      <4>1. Win(y) = AdmittedIn(ts[y] - 1, Window - MaxLag)
        BY <3>3, <2>1 DEF AdmittedIn
      <4> QED BY <4>1, <3>3, <2>1, <1>0 DEF WindowBound
    <3> QED BY <3>1, <3>2, <3>3
  <2>7. DeniedOnlyWhenFull'
    <3> SUFFICES ASSUME NEW q \in Requests, req'[q] \in {"denied", "rejected"}
                 PROVE  Cardinality(AdmittedIn(ts[q] - Window, Window + MaxLag)')
                           >= Limit
      BY <2>1 DEF DeniedOnlyWhenFull, AdmittedIn
    <3> DEFINE S == AdmittedIn(ts[q] - Window, Window + MaxLag)
               T == AdmittedIn(ts[q] - Window, Window + MaxLag)'
    <3>1. Cardinality(S) >= Limit
      BY <2>1, <1>0 DEF DeniedOnlyWhenFull, TypeOK
    <3>2. S \subseteq T /\ T \subseteq Requests
      BY <2>1, <2>2 DEF AdmittedIn
    <3> HIDE DEF S, T
    <3>3. Cardinality(T) >= Limit
      BY <3>1, <3>2, Monotone
    <3> QED BY <3>3 DEF T
  <2> QED BY <1>1, <1>2, <2>4, <2>5, <2>6, <2>7 DEF Inv
<1> QED BY <1>3, <1>4

\* Every step keeps Inv.
LEMMA InvNext == Inv /\ [Next]_vars => Inv'
<1> SUFFICES ASSUME Inv, [Next]_vars PROVE Inv'
  OBVIOUS
<1>1. CASE Tick
  BY <1>1, TickInv
<1>2. ASSUME NEW r \in Requests, Arrive(r) PROVE Inv'
  BY <1>2, ArriveInv
<1>3. ASSUME NEW r \in Requests, Bypass(r) \/ Reply(r) \/ FailOpen(r) PROVE Inv'
  BY <1>3, AnswerInv
<1>4. ASSUME NEW r \in Requests, Execute(r) \/ Retransmit(r) PROVE Inv'
  <2>1. req[r] \in InFlight /\ Script(r)
    BY <1>4 DEF Execute, Retransmit, InFlight
  <2> QED BY <2>1, ScriptInv
<1>5. CASE UNCHANGED vars
  BY <1>5 DEF vars, Inv, TypeOK, Stamps, Lag, Bucket, Expiry, WindowBound,
              AdmittedIn, DeniedOnlyWhenFull
<1> QED BY <1>1, <1>2, <1>3, <1>4, <1>5 DEF Next

-----------------------------------------------------------------------------
\* Types, in every behaviour of the limiter.
THEOREM TypeCorrect == Spec => []TypeOK
<1>1. Inv => TypeOK
  BY DEF Inv
<1> QED BY InitInv, InvNext, <1>1, PTL DEF Spec

\* At most Limit requests are admitted in any Window - MaxLag ticks, however
\* replicas, delays and retransmissions interleave.
THEOREM AdmissionBounded == Spec => []WindowBound
<1>1. Inv => WindowBound
  BY DEF Inv
<1> QED BY InitInv, InvNext, <1>1, PTL DEF Spec

\* Nobody is denied while the window, with the lag after it, holds fewer than
\* Limit tokens.
THEOREM DenialJustified == Spec => []DeniedOnlyWhenFull
<1>1. Inv => DeniedOnlyWhenFull
  BY DEF Inv
<1> QED BY InitInv, InvNext, <1>1, PTL DEF Spec

\* An idle client's key is deleted.
THEOREM KeysExpire == Spec => []NoStickyKey
<1>1. Inv => NoStickyKey
  <2> SUFFICES ASSUME Inv, bucket # {}
               PROVE  \E x \in bucket : now < ts[x] + Window + MaxLag
    BY DEF NoStickyKey
  <2>1. PICK x \in bucket : expireAt <= ts[x] + Window + MaxLag
    BY DEF Inv, Expiry
  <2>2. now < ts[x] + Window + MaxLag
    BY <2>1, LimitAssumption DEF Inv, Expiry, TypeOK
  <2> QED BY <2>2
<1> QED BY InitInv, InvNext, <1>1, PTL DEF Spec

=============================================================================
