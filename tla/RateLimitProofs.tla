-------------------------- MODULE RateLimitProofs ---------------------------
(* The limit on calls, for every limit, window and number of calls.        *)
EXTENDS RateLimit, FiniteSetTheorems, TLAPS

\* What Redis holds is what it saw ...
StoredSeen == \A s \in zset : \E j \in 1..Len(seen) : seen[j].at = s

\* ... and it lost a reading only when the reading left a window by which others
\* were removed, or the key expired, a window and a second after it.
SeenStored ==
  \A j \in 1..Len(seen) :
    \/ seen[j].at \in zset
    \/ seen[j].at <= latest - Window
    \/ seen[j].at + Window + 1 <= now

\* The key outlives what is in it, and no clock is ahead.
Outlives ==
  /\ \A j \in 1..Len(seen) : seen[j].at + Window + 1 <= expires /\ seen[j].at <= now
  /\ \A r \in Calls : at[r] <= now

\* There is room for the calls promised.
RoomPromised == promised > 0 => Cardinality(Stored) + promised <= Limit

RateInv ==
  /\ RateTypeOK /\ StoredSeen /\ SeenStored /\ Outlives /\ RoomPromised
  /\ LimitKept /\ RefusedOnlyAtLimit /\ RemainingHonest

USE RateAssumption, TimeAssumption

\* Sets of readings are finite.
LEMMA ReadingsFinite ==
  ASSUME NEW S \in SUBSET (0..MaxTime)
  PROVE  IsFiniteSet(S) /\ Cardinality(S) \in Nat
<1>1. IsFiniteSet(0..MaxTime)
  BY FS_Interval
<1>2. IsFiniteSet(S)
  BY <1>1, FS_Subset
<1>3. QED
  BY <1>2, FS_CardinalityType

\* Removal leaves readings.
LEMMA KeptReadings ==
  ASSUME zset \subseteq 0..MaxTime, NEW t
  PROVE  Kept(t) \subseteq Stored /\ Stored \subseteq zset
BY DEF Kept, Stored

\* The initial state.
LEMMA RateInvInit == RateInit => RateInv
<1> SUFFICES ASSUME RateInit PROVE RateInv
  OBVIOUS
<1>1. RateTypeOK
  BY DEF RateInit, RateTypeOK, RPC
<1>2. StoredSeen /\ SeenStored /\ Outlives /\ RoomPromised
  BY DEF RateInit, StoredSeen, SeenStored, Outlives, RoomPromised
<1>3. LimitKept /\ RefusedOnlyAtLimit /\ RemainingHonest
  BY DEF RateInit, LimitKept, RefusedOnlyAtLimit, RemainingHonest
<1>4. QED
  BY <1>1, <1>2, <1>3 DEF RateInv

\* Steps in which Redis sees no call keep what it decided of the calls before.
LEMMA DecisionsKept ==
  ASSUME LimitKept, RefusedOnlyAtLimit, RemainingHonest, seen' = seen
  PROVE  (LimitKept /\ RefusedOnlyAtLimit /\ RemainingHonest)'
BY DEF LimitKept, RefusedOnlyAtLimit, RemainingHonest, InWindow

\* The call Redis sees, and those before it.
LEMMA AskSeen ==
  ASSUME RateInv, NEW r \in Calls, Ask(r)
  PROVE  /\ seen' \in Seq(Call) /\ Len(seen') = Len(seen) + 1
         /\ seen'[Len(seen) + 1]
              = [at |-> at[r], done |-> now, let |-> Cardinality(Kept(at[r])) < Limit,
                 inOrder |-> latest <= at[r], due |-> promised > 0]
         /\ \A j \in 1..Len(seen) : seen'[j] = seen[j]
         /\ \A i \in 1..Len(seen) : InWindow(i)' = InWindow(i)
<1> DEFINE c == [at |-> at[r], done |-> now, let |-> Cardinality(Kept(at[r])) < Limit,
                 inOrder |-> latest <= at[r], due |-> promised > 0]
<1>1. c \in Call
  BY DEF RateInv, RateTypeOK, Call
<1>2. seen \in Seq(Call) /\ seen' = Append(seen, c)
  BY DEF Ask, RateInv, RateTypeOK
<1> HIDE DEF c
<1>3. /\ seen' \in Seq(Call) /\ Len(seen') = Len(seen) + 1 /\ seen'[Len(seen) + 1] = c
      /\ \A j \in 1..Len(seen) : seen'[j] = seen[j]
  BY <1>1, <1>2
<1>4. ASSUME NEW i \in 1..Len(seen) PROVE InWindow(i)' = InWindow(i)
  <2>1. Len(seen) \in Nat
    BY <1>2
  <2>2. \A k \in 1..(i - 1) : seen'[k] = seen[k]
    BY <1>3, <2>1
  <2>3. seen'[i] = seen[i]
    BY <1>3
  <2>4. QED
    BY <2>2, <2>3 DEF InWindow
<1>5. QED
  BY <1>3, <1>4 DEF c

\* The window of the call Redis sees, against what is kept.
LEMMA AskWindow ==
  ASSUME RateInv, NEW r \in Calls, Ask(r), NEW n \in Nat, n = Len(seen)
  PROVE  /\ InWindow(n + 1)' \subseteq 0..MaxTime
         /\ Kept(at[r]) \subseteq InWindow(n + 1)'
         /\ latest <= at[r] /\ now - at[r] <= 1
            => InWindow(n + 1)' \subseteq Kept(at[r])
<1> DEFINE W == {seen[j].at : j \in {k \in 1..n : seen[k].at > at[r] - Window}}
<1>1. \A j \in 1..n : seen[j] \in Call /\ seen[j].at \in 0..MaxTime
  <2>1. seen \in Seq(Call)
    BY DEF RateInv, RateTypeOK
  <2>2. \A j \in 1..n : seen[j] \in Call
    BY <2>1
  <2>3. QED
    BY <2>2 DEF Call
<1>2. InWindow(n + 1)' = W
  <2>1. /\ seen'[n + 1] = [at |-> at[r], done |-> now, let |-> Cardinality(Kept(at[r])) < Limit,
                            inOrder |-> latest <= at[r], due |-> promised > 0]
        /\ \A j \in 1..n : seen'[j] = seen[j]
    BY AskSeen
  <2>2. seen'[n + 1].at = at[r]
    BY <2>1
  <2>3. 1..((n + 1) - 1) = 1..n
    OBVIOUS
  <2>4. QED
    BY <2>1, <2>2, <2>3 DEF InWindow
<1>3. W \subseteq 0..MaxTime
  BY <1>1
<1>4. Kept(at[r]) \subseteq W
  <2> SUFFICES ASSUME NEW s \in Kept(at[r]) PROVE s \in W
    OBVIOUS
  <2>1. s \in zset /\ s > at[r] - Window
    BY DEF Kept, Stored
  <2>2. PICK j \in 1..n : seen[j].at = s
    BY <2>1 DEF RateInv, StoredSeen
  <2>3. QED
    BY <2>1, <2>2
<1>5. ASSUME latest <= at[r], now - at[r] <= 1 PROVE W \subseteq Kept(at[r])
  <2> SUFFICES ASSUME NEW j \in 1..n, seen[j].at > at[r] - Window
               PROVE  seen[j].at \in Kept(at[r])
    OBVIOUS
  <2>1. /\ seen[j].at \in Int /\ at[r] \in Int /\ latest \in Int /\ now \in Int
        /\ expires \in Int /\ Window \in Int
    BY <1>1 DEF RateInv, RateTypeOK
  <2>2. seen[j].at \in zset
    BY <1>5, <2>1 DEF RateInv, SeenStored
  <2>3. now < expires
    BY <1>5, <2>1 DEF RateInv, Outlives
  <2>4. QED
    BY <2>2, <2>3 DEF Kept, Stored
<1>6. QED
  BY <1>2, <1>3, <1>4, <1>5

\* A call is decided as it should be.
LEMMA AskDecides ==
  ASSUME RateInv, NEW r \in Calls, Ask(r)
  PROVE  (LimitKept /\ RefusedOnlyAtLimit /\ RemainingHonest)'
<1>n. PICK n \in Nat : n = Len(seen)
  BY DEF RateInv, RateTypeOK
<1> DEFINE K == Kept(at[r])
<1>1. /\ Len(seen') = n + 1
      /\ seen'[n + 1] = [at |-> at[r], done |-> now, let |-> Cardinality(K) < Limit,
                         inOrder |-> latest <= at[r], due |-> promised > 0]
      /\ \A i \in 1..n : seen'[i] = seen[i] /\ InWindow(i)' = InWindow(i)
  BY <1>n, AskSeen
<1>c. /\ seen'[n + 1].let <=> Cardinality(K) < Limit
      /\ seen'[n + 1].inOrder <=> latest <= at[r]
      /\ seen'[n + 1].due <=> promised > 0
      /\ seen'[n + 1].at = at[r]
      /\ seen'[n + 1].done = now
  <2> DEFINE let == Cardinality(K) < Limit
             inOrder == latest <= at[r]
             due == promised > 0
  <2>1. seen'[n + 1] = [at |-> at[r], done |-> now, let |-> let,
                        inOrder |-> inOrder, due |-> due]
    BY <1>1
  <2> HIDE DEF let, inOrder, due
  <2>2. seen'[n + 1].let = let /\ seen'[n + 1].inOrder = inOrder /\ seen'[n + 1].due = due
    BY <2>1
  <2>3. seen'[n + 1].at = at[r] /\ seen'[n + 1].done = now
    BY <2>1
  <2>4. QED
    BY <2>2, <2>3, Zenon DEF let, inOrder, due
<1>2. /\ K \subseteq 0..MaxTime /\ InWindow(n + 1)' \subseteq 0..MaxTime
      /\ K \subseteq InWindow(n + 1)'
      /\ latest <= at[r] /\ now - at[r] <= 1 => InWindow(n + 1)' \subseteq K
  BY <1>n, AskWindow, KeptReadings DEF RateInv, RateTypeOK
<1>3. /\ IsFiniteSet(K) /\ IsFiniteSet(InWindow(n + 1)')
      /\ Cardinality(K) \in Nat /\ Cardinality(InWindow(n + 1)') \in Nat
  BY <1>2, ReadingsFinite
<1>4. Cardinality(K) <= Cardinality(InWindow(n + 1)')
  BY <1>2, <1>3, FS_Subset
<1>5. latest <= at[r] /\ now - at[r] <= 1
      => Cardinality(InWindow(n + 1)') <= Cardinality(K)
  BY <1>2, <1>3, FS_Subset
<1>6. promised > 0 => Cardinality(K) < Limit
  <2>1. Stored \subseteq 0..MaxTime /\ K \subseteq Stored
    BY KeptReadings DEF RateInv, RateTypeOK
  <2>2. /\ IsFiniteSet(Stored) /\ Cardinality(Stored) \in Nat
        /\ Cardinality(K) <= Cardinality(Stored)
    BY <2>1, ReadingsFinite, FS_Subset
  <2>3. promised \in Nat
    BY DEF RateInv, RateTypeOK
  <2> HIDE DEF K
  <2>4. QED
    BY <1>3, <2>2, <2>3 DEF RateInv, RoomPromised
<1> HIDE DEF K
<1>i. 1..Len(seen)' = 1..n \cup {n + 1}
  BY <1>1
<1>7. LimitKept'
  <2>1. ASSUME NEW i \in 1..n,
               seen'[i].let, seen'[i].inOrder, seen'[i].done - seen'[i].at <= 1
        PROVE  Cardinality(InWindow(i)') < Limit
    BY <1>n, <1>1, <2>1 DEF RateInv, LimitKept
  <2>2. ASSUME seen'[n + 1].let, seen'[n + 1].inOrder,
               seen'[n + 1].done - seen'[n + 1].at <= 1
        PROVE  Cardinality(InWindow(n + 1)') < Limit
    <3>1. Cardinality(K) < Limit /\ latest <= at[r] /\ now - at[r] <= 1
      BY <1>c, <2>2
    <3>2. QED
      BY <1>3, <1>5, <3>1
  <2>3. QED
    BY <1>i, <2>1, <2>2 DEF LimitKept
<1>8. RefusedOnlyAtLimit'
  <2>1. ASSUME NEW i \in 1..n, ~seen'[i].let
        PROVE  Cardinality(InWindow(i)') >= Limit
    BY <1>n, <1>1, <2>1 DEF RateInv, RefusedOnlyAtLimit
  <2>2. ASSUME ~seen'[n + 1].let PROVE Cardinality(InWindow(n + 1)') >= Limit
    <3>1. ~(Cardinality(K) < Limit)
      BY <1>c, <2>2
    <3>2. QED
      BY <1>3, <1>4, <3>1
  <2>3. QED
    BY <1>i, <2>1, <2>2 DEF RefusedOnlyAtLimit
<1>9. RemainingHonest'
  <2>1. ASSUME NEW i \in 1..n, seen'[i].due PROVE seen'[i].let
    BY <1>n, <1>1, <2>1 DEF RateInv, RemainingHonest
  <2>2. seen'[n + 1].due => seen'[n + 1].let
    BY <1>c, <1>6
  <2>3. QED
    BY <1>i, <2>1, <2>2 DEF RemainingHonest
<1>10. QED
  BY <1>7, <1>8, <1>9

\* A set of which nothing is added leaves the room there was.
LEMMA RoomKept ==
  ASSUME RateInv, promised' = promised, Stored' \subseteq Stored
  PROVE  RoomPromised'
<1>1. Stored \subseteq 0..MaxTime /\ Stored' \subseteq 0..MaxTime
  BY KeptReadings DEF RateInv, RateTypeOK
<1>2. /\ IsFiniteSet(Stored) /\ Cardinality(Stored) \in Nat
      /\ Cardinality(Stored') \in Nat
  BY <1>1, ReadingsFinite
<1>3. Cardinality(Stored') <= Cardinality(Stored)
  BY <1>2, FS_Subset
<1>4. promised \in Nat
  BY DEF RateInv, RateTypeOK
<1>5. QED
  BY <1>2, <1>3, <1>4 DEF RateInv, RoomPromised

\* Ask adds a reading, and uses up a promise.
LEMMA AskRoom ==
  ASSUME RateInv, NEW r \in Calls, Ask(r)
  PROVE  RoomPromised'
<1> DEFINE K == Kept(at[r])
<1>1. /\ Stored \subseteq 0..MaxTime /\ K \subseteq Stored /\ K \subseteq 0..MaxTime
      /\ at[r] \in 0..MaxTime
  BY KeptReadings DEF RateInv, RateTypeOK
<1>2. Stored' \subseteq K \cup {at[r]}
  BY DEF Ask, Stored
<1>3. K \cup {at[r]} \subseteq 0..MaxTime /\ Stored' \subseteq 0..MaxTime
  BY <1>1, <1>2
<1>4. /\ IsFiniteSet(Stored) /\ IsFiniteSet(K) /\ IsFiniteSet(K \cup {at[r]})
      /\ Cardinality(Stored) \in Nat /\ Cardinality(K) \in Nat
      /\ Cardinality(K \cup {at[r]}) \in Nat /\ Cardinality(Stored') \in Nat
  BY <1>1, <1>3, ReadingsFinite
<1>5. Cardinality(K) <= Cardinality(Stored)
  BY <1>1, <1>4, FS_Subset
<1>6. Cardinality(Stored') <= Cardinality(K \cup {at[r]})
  BY <1>2, <1>4, FS_Subset
<1>7. Cardinality(K \cup {at[r]}) <= Cardinality(K) + 1
  BY <1>4, FS_AddElement
<1>8. promised \in Nat /\ promised' = IF promised > 0 THEN promised - 1 ELSE 0
  BY DEF RateInv, RateTypeOK, Ask
<1> HIDE DEF K
<1>9. QED
  BY <1>4, <1>5, <1>6, <1>7, <1>8 DEF RateInv, RoomPromised

\* Ask keeps the invariant.
LEMMA AskKeeps ==
  ASSUME RateInv, NEW r \in Calls, Ask(r)
  PROVE  RateInv'
<1>n. PICK n \in Nat : n = Len(seen)
  BY DEF RateInv, RateTypeOK
<1>1. /\ seen' \in Seq(Call) /\ Len(seen') = n + 1
      /\ seen'[n + 1] = [at |-> at[r], done |-> now, let |-> Cardinality(Kept(at[r])) < Limit,
                         inOrder |-> latest <= at[r], due |-> promised > 0]
      /\ \A j \in 1..n : seen'[j] = seen[j]
  BY <1>n, AskSeen
<1>i. 1..Len(seen)' = 1..n \cup {n + 1} /\ seen'[n + 1].at = at[r]
  BY <1>1
<1>j. \A j \in 1..n : seen[j].at \in 0..MaxTime
  <2>1. \A j \in 1..n : seen[j] \in Call
    BY <1>n DEF RateInv, RateTypeOK
  <2>2. QED
    BY <2>1 DEF Call
<1>t. /\ at[r] \in 0..MaxTime /\ now \in 0..MaxTime /\ latest \in 0..MaxTime
      /\ expires \in Nat /\ zset \subseteq 0..MaxTime /\ promised \in 0..Limit
      /\ Window \in Nat /\ MaxTime \in Nat /\ Limit \in Nat
  BY DEF RateInv, RateTypeOK
<1>k. Kept(at[r]) \subseteq zset /\ zset' = Kept(at[r]) \cup {at[r]}
  BY <1>t, KeptReadings DEF Ask
<1>2. RateTypeOK'
  <2>1. now' = now /\ at' = at /\ expires' = now + Window + 1
    BY DEF Ask, Expiry
  <2>2. rpc' \in [Calls -> RPC]
    BY DEF RateInv, RateTypeOK, Ask, RateGoto, RPC
  <2>3. latest' \in 0..MaxTime /\ promised' \in 0..Limit
    BY <1>t DEF Ask, Later
  <2>4. at' \in [Calls -> 0..MaxTime]
    BY <2>1 DEF RateInv, RateTypeOK
  <2>5. zset' \subseteq 0..MaxTime
    BY <1>t, <1>k
  <2>6. now' \in 0..MaxTime /\ expires' \in Nat
    BY <1>t, <2>1
  <2>7. QED
    BY <1>1, <2>2, <2>3, <2>4, <2>5, <2>6 DEF RateTypeOK
<1>3. StoredSeen'
  <2> SUFFICES ASSUME NEW s \in zset' PROVE \E j \in 1..Len(seen)' : seen'[j].at = s
    BY DEF StoredSeen
  <2>1. CASE s = at[r]
    BY <1>i, <2>1
  <2>2. CASE s \in zset
    <3>1. PICK j \in 1..n : seen[j].at = s
      BY <1>n, <2>2 DEF RateInv, StoredSeen
    <3>2. QED
      BY <1>1, <1>i, <3>1
  <2>3. QED
    BY <1>k, <2>1, <2>2
<1>4. SeenStored'
  <2> SUFFICES ASSUME NEW j \in 1..Len(seen)'
               PROVE  \/ seen'[j].at \in zset'
                      \/ seen'[j].at <= latest' - Window
                      \/ seen'[j].at + Window + 1 <= now'
    BY DEF SeenStored
  <2>1. latest' = Later(latest, at[r]) /\ now' = now
    BY DEF Ask
  <2>2. CASE j = n + 1
    BY <1>i, <1>k, <2>2
  <2>3. CASE j \in 1..n
    <3>1. seen'[j] = seen[j] /\ seen[j].at \in 0..MaxTime
      BY <1>1, <1>j, <2>3
    <3>2. seen[j].at + Window + 1 <= expires
      BY <1>n, <2>3 DEF RateInv, Outlives
    <3>3. \/ seen[j].at \in zset
          \/ seen[j].at <= latest - Window
          \/ seen[j].at + Window + 1 <= now
      BY <1>n, <2>3 DEF RateInv, SeenStored
    <3>4. CASE seen[j].at \in zset
      <4>1. CASE now < expires
        <5>1. seen[j].at > at[r] - Window => seen[j].at \in zset'
          BY <1>k, <3>4, <4>1 DEF Kept, Stored
        <5>2. QED
          BY <1>t, <2>1, <3>1, <5>1 DEF Later
      <4>2. CASE ~(now < expires)
        BY <1>t, <2>1, <3>1, <3>2, <4>2
      <4>3. QED
        BY <4>1, <4>2
    <3>5. QED
      BY <1>t, <2>1, <3>1, <3>3, <3>4 DEF Later
  <2>4. QED
    BY <1>i, <2>2, <2>3
<1>5. Outlives'
  <2>1. now' = now /\ at' = at /\ expires' = now + Window + 1 /\ at[r] <= now
    BY DEF Ask, Expiry, RateInv, Outlives
  <2>2. ASSUME NEW j \in 1..n
        PROVE  seen'[j].at + Window + 1 <= expires' /\ seen'[j].at <= now'
    <3>1. seen'[j] = seen[j] /\ seen[j].at \in 0..MaxTime /\ seen[j].at <= now
      BY <1>n, <1>1, <1>j DEF RateInv, Outlives
    <3>2. QED
      BY <1>t, <2>1, <3>1
  <2>3. seen'[n + 1].at + Window + 1 <= expires' /\ seen'[n + 1].at <= now'
    BY <1>i, <1>t, <2>1
  <2>4. \A q \in Calls : at'[q] <= now'
    BY <2>1 DEF RateInv, Outlives
  <2>5. QED
    BY <1>i, <2>2, <2>3, <2>4 DEF Outlives
<1>6. RoomPromised' /\ (LimitKept /\ RefusedOnlyAtLimit /\ RemainingHonest)'
  BY AskRoom, AskDecides
<1>7. QED
  BY <1>2, <1>3, <1>4, <1>5, <1>6 DEF RateInv

\* So does a step that adds no call and no reading, and loses readings only as
\* SeenStored says.
LEMMA OthersKeep ==
  ASSUME RateInv, RateTypeOK', seen' = seen, expires' = expires, SeenStored',
         zset' \subseteq zset, now <= now', \A r \in Calls : at'[r] <= now',
         RoomPromised'
  PROVE  RateInv'
<1>1. StoredSeen'
  BY DEF RateInv, StoredSeen
<1>2. Outlives'
  <2>1. \A j \in 1..Len(seen) : seen[j].at <= now'
    <3>1. now \in Nat /\ now' \in Nat
      BY DEF RateInv, RateTypeOK
    <3>2. \A j \in 1..Len(seen) : seen[j] \in Call
      BY DEF RateInv, RateTypeOK
    <3>3. \A j \in 1..Len(seen) : seen[j].at \in Nat /\ seen[j].at <= now
      BY <3>2 DEF Call, RateInv, Outlives
    <3>4. QED
      BY <3>1, <3>3
  <2>2. QED
    BY <2>1 DEF RateInv, Outlives
<1>3. (LimitKept /\ RefusedOnlyAtLimit /\ RemainingHonest)'
  BY DecisionsKept DEF RateInv
<1>4. QED
  BY <1>1, <1>2, <1>3 DEF RateInv

\* Every step keeps the invariant.
LEMMA RateInvNext == RateInv /\ [RateNext]_<<now, rateLocals>> => RateInv'
<1> SUFFICES ASSUME RateInv, [RateNext]_<<now, rateLocals>> PROVE RateInv'
  OBVIOUS
<1>t. /\ now \in 0..MaxTime /\ latest \in 0..MaxTime /\ expires \in Nat
      /\ zset \subseteq 0..MaxTime /\ promised \in 0..Limit
      /\ rpc \in [Calls -> RPC] /\ at \in [Calls -> 0..MaxTime]
      /\ \A r \in Calls : at[r] \in 0..MaxTime
      /\ Window \in Nat /\ MaxTime \in Nat /\ Limit \in Nat
  BY DEF RateInv, RateTypeOK
<1>s. \A j \in 1..Len(seen) : seen[j].at \in 0..MaxTime
  <2>1. \A j \in 1..Len(seen) : seen[j] \in Call
    BY DEF RateInv, RateTypeOK
  <2>2. QED
    BY <2>1 DEF Call
<1>o. \A r \in Calls : at[r] <= now
  BY DEF RateInv, Outlives
<1>1. ASSUME NEW r \in Calls, AskClock(r) \/ HandledClock(r) PROVE RateInv'
  <2>1. /\ at' = [at EXCEPT ![r] = now]
        /\ \E l \in RPC : rpc' = [rpc EXCEPT ![r] = l]
        /\ UNCHANGED <<now, zset, expires, seen, latest, promised>>
    BY <1>1 DEF AskClock, HandledClock, ReadsClock, RateGoto, RPC
  <2>2. RateTypeOK' /\ \A q \in Calls : at'[q] <= now'
    BY <1>t, <1>o, <2>1 DEF RateInv, RateTypeOK
  <2>3. SeenStored' /\ Stored' \subseteq Stored
    BY <2>1 DEF RateInv, SeenStored, Stored
  <2>4. QED
    BY <1>t, <2>1, <2>2, <2>3, RoomKept, OthersKeep
<1>2. ASSUME NEW r \in Calls, Ask(r) PROVE RateInv'
  BY <1>2, AskKeeps
<1>3. ASSUME NEW r \in Calls, RemoveOld(r) PROVE RateInv'
  <2>1. /\ zset' = Kept(at[r]) /\ Kept(at[r]) \subseteq Stored /\ Stored \subseteq zset
        /\ latest' = Later(latest, at[r])
        /\ rpc' = [rpc EXCEPT ![r] = "counting"]
        /\ UNCHANGED <<now, expires, at, seen, promised>>
    BY <1>3, <1>t, KeptReadings DEF RemoveOld, RateGoto
  <2>2. RateTypeOK' /\ \A q \in Calls : at'[q] <= now'
    BY <1>t, <1>o, <2>1 DEF RateInv, RateTypeOK, Later, RPC
  <2>3. ASSUME NEW j \in 1..Len(seen)
        PROVE  \/ seen[j].at \in zset'
               \/ seen[j].at <= latest' - Window
               \/ seen[j].at + Window + 1 <= now
    <3>1. \/ seen[j].at \in zset
          \/ seen[j].at <= latest - Window
          \/ seen[j].at + Window + 1 <= now
      BY DEF RateInv, SeenStored
    <3>2. seen[j].at + Window + 1 <= expires
      BY DEF RateInv, Outlives
    <3>3. seen[j].at \in zset /\ now < expires /\ seen[j].at > at[r] - Window
          => seen[j].at \in zset'
      BY <2>1 DEF Kept, Stored
    <3>4. seen[j].at \in Int /\ at[r] \in Int /\ now \in Int /\ expires \in Int
          /\ latest \in Int
      BY <1>t, <1>s
    <3>5. QED
      BY <1>t, <2>1, <3>1, <3>2, <3>3, <3>4 DEF Later
  <2>4. SeenStored'
    BY <2>1, <2>3 DEF SeenStored
  <2>5. Stored' \subseteq Stored
    BY <2>1 DEF Stored
  <2>6. zset' \subseteq zset
    BY <2>1
  <2>7. QED
    BY <1>t, <2>1, <2>2, <2>4, <2>5, <2>6, RoomKept, OthersKeep
<1>4. ASSUME NEW r \in Calls, CountLeft(r) PROVE RateInv'
  <2>1. /\ promised' = Later(promised, Remaining(Cardinality(Stored)))
        /\ rpc' = [rpc EXCEPT ![r] = "answered"]
        /\ UNCHANGED <<now, zset, expires, at, seen, latest>>
    BY <1>4 DEF CountLeft, RateGoto
  <2>2. Cardinality(Stored) \in Nat
    <3>1. Stored \subseteq 0..MaxTime
      BY <1>t, KeptReadings
    <3>2. QED
      BY <3>1, ReadingsFinite
  <2>3. Remaining(Cardinality(Stored)) \in 0..Limit
    BY <1>t, <2>2 DEF Remaining
  <2>4. RateTypeOK' /\ \A q \in Calls : at'[q] <= now'
    <3>1. promised' \in 0..Limit
      BY <1>t, <2>1, <2>3 DEF Later
    <3>2. rpc' \in [Calls -> RPC]
      BY <1>t, <2>1 DEF RPC
    <3>3. QED
      BY <1>t, <1>o, <2>1, <3>1, <3>2 DEF RateInv, RateTypeOK
  <2>5. SeenStored' /\ Stored' = Stored
    BY <2>1 DEF RateInv, SeenStored, Stored
  <2>6. RoomPromised'
    BY <1>t, <2>1, <2>2, <2>5 DEF RateInv, RoomPromised, Later, Remaining
  <2>7. QED
    BY <1>t, <2>1, <2>4, <2>5, <2>6, OthersKeep
<1>5. ASSUME Evict PROVE RateInv'
  <2>1. /\ zset' = {} /\ seen' = <<>>
        /\ UNCHANGED <<now, expires, rpc, at, latest, promised>>
    BY <1>5 DEF Evict
  <2>2. RateTypeOK'
    BY <2>1 DEF RateInv, RateTypeOK
  <2>3. (StoredSeen /\ SeenStored /\ LimitKept /\ RefusedOnlyAtLimit /\ RemainingHonest)'
    BY <2>1 DEF StoredSeen, SeenStored, LimitKept, RefusedOnlyAtLimit, RemainingHonest
  <2>4. Outlives'
    BY <2>1 DEF RateInv, Outlives
  <2>5. Stored' \subseteq Stored
    BY <2>1 DEF Stored
  <2>6. QED
    BY <2>1, <2>2, <2>3, <2>4, <2>5, RoomKept DEF RateInv
<1>6. ASSUME Tick, UNCHANGED rateLocals PROVE RateInv'
  <2>1. /\ now' = now + 1 /\ now < MaxTime
        /\ UNCHANGED <<zset, expires, rpc, at, seen, latest, promised>>
    BY <1>6 DEF Tick, rateLocals
  <2>2. RateTypeOK' /\ now <= now' /\ \A q \in Calls : at'[q] <= now'
    BY <1>t, <1>o, <2>1 DEF RateInv, RateTypeOK
  <2>3. SeenStored'
    BY <1>t, <1>s, <2>1 DEF RateInv, SeenStored
  <2>4. Stored' \subseteq Stored
    BY <1>t, <2>1 DEF Stored
  <2>5. QED
    BY <2>1, <2>2, <2>3, <2>4, RoomKept, OthersKeep
<1>7. ASSUME UNCHANGED <<now, rateLocals>> PROVE RateInv'
  <2>1. UNCHANGED <<now, zset, expires, rpc, at, seen, latest, promised>>
    BY <1>7 DEF rateLocals
  <2>2. RateTypeOK' /\ SeenStored' /\ Stored' \subseteq Stored
    BY <2>1 DEF RateInv, RateTypeOK, SeenStored, Stored
  <2>3. QED
    BY <1>t, <1>o, <2>1, <2>2, RoomKept, OthersKeep
<1>8. QED
  BY <1>1, <1>2, <1>3, <1>4, <1>5, <1>6, <1>7 DEF RateNext

\* What the theorems rest on.
LEMMA RateInvAlways == RateSpec => []RateInv
BY RateInvInit, RateInvNext, PTL DEF RateSpec

\* The state of check_rate_limit and rate_limit_remaining is what it is taken
\* for, for every limit, window and number of calls.
THEOREM RateTypeCorrect == RateSpec => []RateTypeOK
<1>1. RateInv => RateTypeOK
  BY DEF RateInv
<1>2. QED
  BY <1>1, RateInvAlways, PTL

\* A call that reaches Redis in order, and in time for EXPIRE's spare second,
\* is let in only below the limit.
THEOREM LimitAlwaysKept == RateSpec => []LimitKept
<1>1. RateInv => LimitKept
  BY DEF RateInv
<1>2. QED
  BY <1>1, RateInvAlways, PTL

\* A call is refused only at the limit, in whatever order calls reach Redis.
THEOREM RefusalsJustified == RateSpec => []RefusedOnlyAtLimit
<1>1. RateInv => RefusedOnlyAtLimit
  BY DEF RateInv
<1>2. QED
  BY <1>1, RateInvAlways, PTL

\* X-RateLimit-Remaining promises no more than check_rate_limit keeps.
THEOREM PromisesKept == RateSpec => []RemainingHonest
<1>1. RateInv => RemainingHonest
  BY DEF RateInv
<1>2. QED
  BY <1>1, RateInvAlways, PTL

=============================================================================
