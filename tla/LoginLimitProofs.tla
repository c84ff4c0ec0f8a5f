-------------------------- MODULE LoginLimitProofs --------------------------
(***************************************************************************)
(* The attempt limit of login, for every number of emails, of logins under *)
(* way and of attempts, and every window.  The invariant relates a deque   *)
(* to the failures since the last success: it holds the latest of them,    *)
(* and those it lost are expired.                                          *)
(***************************************************************************)
EXTENDS LoginLimit, Integers, FiniteSetTheorems, WellFoundedInduction, TLAPS

\* Times do not decrease along the failures of an email, nor exceed the clock.
FailuresSorted ==
  \A e \in Emails : \A i \in 1..Len(failures[e]) :
    /\ failures[e][i] <= now
    /\ \A j \in i..Len(failures[e]) : failures[e][i] <= failures[e][j]

\* The deque q holds the end of f, and what precedes it is expired.
EndOf(q, f) ==
  /\ q \in Seq(0..MaxTime)
  /\ Len(q) <= Len(f)
  /\ \A i \in 1..Len(q) : q[i] = f[Len(f) - Len(q) + i]
  /\ \A i \in 1..(Len(f) - Len(q)) : Expired(f[i])

DequesEnd == \A e \in Emails : EndOf(Deque(e), failures[e])

\* A login that verifies a password has an email, the key of its deque.
VerifyingEmail == \A l \in Logins : doing[l] = "verifying" => email[l] \in Emails

\* The logins of e that verify a password, and so may fail yet.
Verifying(e) == {l \in Logins : doing[l] = "verifying" /\ email[l] = e}

Most == MaxAttempts - 1 + Cardinality(Logins)

\* The failures of e from the i-th on, with those that may follow.
StillBounded ==
  \A e \in Emails : \A i \in 1..Len(failures[e]) :
    ~Expired(failures[e][i])
    => Len(failures[e]) - i + 1 + Cardinality(Verifying(e)) <= Most

LoginInv ==
  /\ LoginTypeOK /\ FailuresSorted /\ DequesEnd /\ VerifyingEmail
  /\ StillBounded /\ FailuresBounded

USE LoginAssumption, TimeAssumption

-----------------------------------------------------------------------------

\* A set of natural numbers that is not empty has a least one.
LEMMA LeastExists ==
  ASSUME NEW S \in SUBSET Nat, S # {}
  PROVE  \E i \in S : \A j \in S : i <= j
<1>1. PICK i \in S : \A j \in S : ~(<<j, i>> \in OpToRel(<, Nat))
  BY WFMin, NatLessThanWellFounded, Zenon
<1>2. ASSUME NEW j \in S PROVE i <= j
  <2>1. ~(j < i)
    BY <1>1 DEF OpToRel
  <2>2. QED
    BY <2>1
<1>3. QED
  BY <1>2

\* What check_login_rate leaves of a deque in the order of time: its end, from
\* the first failure that is not expired.
LEMMA PrunedEnd ==
  ASSUME now \in 0..MaxTime, NEW q \in Seq(0..MaxTime),
         \A i \in 1..Len(q) : \A j \in i..Len(q) : q[i] <= q[j]
  PROVE  /\ EndOf(Pruned(q), q)
         /\ \A i \in 1..Len(Pruned(q)) : ~Expired(Pruned(q)[i])
<1> DEFINE kept == {i \in 1..Len(q) : ~Expired(q[i])}
<1>0. Len(q) \in Nat /\ \A i \in 1..Len(q) : q[i] \in 0..MaxTime
  OBVIOUS
<1>1. CASE kept = {}
  <2>1. Pruned(q) = <<>>
    BY <1>1 DEF Pruned
  <2>2. \A i \in 1..Len(q) : Expired(q[i])
    BY <1>1
  <2>3. QED
    BY <1>0, <2>1, <2>2 DEF EndOf
<1>2. CASE kept # {}
  <2> DEFINE first == CHOOSE i \in kept : \A j \in kept : i <= j
  <2>1. first \in kept /\ \A j \in kept : first <= j
    <3>1. kept \in SUBSET Nat
      BY <1>0
    <3>2. \E i \in kept : \A j \in kept : i <= j
      BY <1>2, <3>1, LeastExists
    <3> HIDE DEF kept
    <3>3. QED
      BY <3>2
  <2>2. Pruned(q) = SubSeq(q, first, Len(q))
    BY <1>2 DEF Pruned
  <2> HIDE DEF first
  <2>3. first \in 1..Len(q) /\ ~Expired(q[first])
    BY <2>1
  <2>4. \A i \in 1..(first - 1) : Expired(q[i])
    <3> SUFFICES ASSUME NEW i \in 1..(first - 1), ~Expired(q[i]) PROVE FALSE
      OBVIOUS
    <3>1. i \in kept /\ i < first
      BY <1>0, <2>3
    <3>2. QED
      BY <1>0, <2>1, <2>3, <3>1
  <2>5. /\ Pruned(q) \in Seq(0..MaxTime)
        /\ Len(Pruned(q)) = Len(q) - first + 1
        /\ \A i \in 1..(Len(q) - first + 1) : Pruned(q)[i] = q[first + i - 1]
    BY <1>0, <2>2, <2>3
  <2>6. \A i \in 1..Len(Pruned(q)) : Pruned(q)[i] = q[Len(q) - Len(Pruned(q)) + i]
    BY <1>0, <2>3, <2>5
  <2>7. \A i \in 1..(Len(q) - Len(Pruned(q))) : Expired(q[i])
    BY <1>0, <2>3, <2>4, <2>5
  <2>8. ASSUME NEW i \in 1..Len(Pruned(q)) PROVE ~Expired(Pruned(q)[i])
    <3>1. first + i - 1 \in first..Len(q) /\ Pruned(q)[i] = q[first + i - 1]
      BY <1>0, <2>3, <2>5
    <3>2. q[first] <= q[first + i - 1] /\ q[first + i - 1] \in 0..MaxTime
      BY <1>0, <2>3, <3>1
    <3>3. /\ q[first] \in Int /\ q[first + i - 1] \in Int
          /\ now \in Int /\ AttemptWindow \in Int
      BY <1>0, <2>3, <3>2
    <3>4. ~(now - q[first] > AttemptWindow)
      BY <2>3 DEF Expired
    <3>5. ~(now - q[first + i - 1] > AttemptWindow)
      <4>1. ASSUME NEW u \in Int, NEW v \in Int, NEW n \in Int, NEW w \in Int,
                   u <= v, ~(n - u > w)
            PROVE  ~(n - v > w)
        BY <4>1
      <4>2. q[first] <= q[first + i - 1]
        BY <3>2
      <4> QED
        BY <3>3, <3>4, <4>1, <4>2, Zenon
    <3>6. QED
      BY <3>1, <3>5 DEF Expired
  <2>9. QED
    BY <1>0, <2>3, <2>5, <2>6, <2>7, <2>8 DEF EndOf
<1>3. QED
  BY <1>1, <1>2

\* The end of an end is an end.
LEMMA EndOfEnd ==
  ASSUME NEW f \in Seq(0..MaxTime), NEW q, NEW p, EndOf(q, f), EndOf(p, q)
  PROVE  EndOf(p, f)
<1>1. /\ q \in Seq(0..MaxTime) /\ p \in Seq(0..MaxTime)
      /\ Len(f) \in Nat /\ Len(q) \in Nat /\ Len(p) \in Nat
      /\ Len(q) <= Len(f) /\ Len(p) <= Len(q)
  BY DEF EndOf
<1>2. ASSUME NEW i \in 1..Len(p) PROVE p[i] = f[Len(f) - Len(p) + i]
  <2>1. p[i] = q[Len(q) - Len(p) + i] /\ Len(q) - Len(p) + i \in 1..Len(q)
    BY <1>1 DEF EndOf
  <2>2. q[Len(q) - Len(p) + i] = f[Len(f) - Len(q) + (Len(q) - Len(p) + i)]
    BY <2>1 DEF EndOf
  <2>3. Len(f) - Len(q) + (Len(q) - Len(p) + i) = Len(f) - Len(p) + i
    BY <1>1
  <2>4. QED
    BY <2>1, <2>2, <2>3
<1>3. ASSUME NEW i \in 1..(Len(f) - Len(p)) PROVE Expired(f[i])
  <2>1. CASE i <= Len(f) - Len(q)
    BY <1>1, <2>1 DEF EndOf
  <2>2. CASE i > Len(f) - Len(q)
    <3> DEFINE j == i - (Len(f) - Len(q))
    <3>1. j \in 1..(Len(q) - Len(p)) /\ j \in 1..Len(q) /\ Len(f) - Len(q) + j = i
      BY <1>1, <2>2
    <3> HIDE DEF j
    <3>2. q[j] = f[Len(f) - Len(q) + j] /\ Expired(q[j])
      BY <3>1 DEF EndOf
    <3>3. QED
      BY <3>1, <3>2
  <2>3. QED
    BY <1>1, <2>1, <2>2
<1>4. QED
  BY <1>1, <1>2, <1>3 DEF EndOf

\* What LoginTypeOK says of one deque.
LEMMA DequeTyped ==
  ASSUME LoginTypeOK, NEW e
  PROVE  Deque(e) \in Seq(0..MaxTime)
<1>1. CASE e \in DOMAIN attempts
  BY <1>1 DEF LoginTypeOK, Deque
<1>2. CASE e \notin DOMAIN attempts
  BY <1>2 DEF Deque
<1>3. QED
  BY <1>1, <1>2

\* An end of times in order is in order.
LEMMA EndSorted ==
  ASSUME NEW f \in Seq(0..MaxTime), NEW q, EndOf(q, f),
         \A i \in 1..Len(f) : \A j \in i..Len(f) : f[i] <= f[j]
  PROVE  \A i \in 1..Len(q) : \A j \in i..Len(q) : q[i] <= q[j]
<1>1. Len(f) \in Nat /\ Len(q) \in Nat /\ Len(q) <= Len(f)
  BY DEF EndOf
<1>2. TAKE i \in 1..Len(q)
<1>3. TAKE j \in i..Len(q)
<1> DEFINE d == Len(f) - Len(q)
<1>4. d + i \in 1..Len(f) /\ d + j \in (d + i)..Len(f) /\ j \in 1..Len(q)
  BY <1>1
<1>5. q[i] = f[d + i] /\ q[j] = f[d + j]
  BY <1>4 DEF EndOf
<1> HIDE DEF d
<1>6. QED
  BY <1>4, <1>5

\* Pruning keeps a deque the end of its email's failures.
LEMMA PrunedDeque ==
  ASSUME LoginInv, NEW e \in Emails
  PROVE  /\ EndOf(Pruned(Deque(e)), failures[e])
         /\ \A i \in 1..Len(Pruned(Deque(e))) : ~Expired(Pruned(Deque(e))[i])
<1>1. failures[e] \in Seq(0..MaxTime) /\ EndOf(Deque(e), failures[e]) /\ now \in 0..MaxTime
  BY DEF LoginInv, LoginTypeOK, DequesEnd
<1>2. Deque(e) \in Seq(0..MaxTime)
  BY DequeTyped DEF LoginInv
<1>3. \A i \in 1..Len(Deque(e)) : \A j \in i..Len(Deque(e)) : Deque(e)[i] <= Deque(e)[j]
  <2>1. \A i \in 1..Len(failures[e]) :
          \A j \in i..Len(failures[e]) : failures[e][i] <= failures[e][j]
    BY DEF LoginInv, FailuresSorted
  <2>2. QED
    BY <1>1, <2>1, EndSorted
<1>4. /\ EndOf(Pruned(Deque(e)), Deque(e))
      /\ \A i \in 1..Len(Pruned(Deque(e))) : ~Expired(Pruned(Deque(e))[i])
  BY <1>1, <1>2, <1>3, PrunedEnd
<1>5. QED
  BY <1>1, <1>4, EndOfEnd

\* check_login_rate passes an email exactly while it is not locked out.
LEMMA PassesUnlessLocked ==
  ASSUME LoginInv, NEW e \in Emails
  PROVE  Passes(Pruned(Deque(e))) <=> ~Promise!LockedOut(e)
<1> DEFINE p == Pruned(Deque(e))
           f == failures[e]
<1>1. EndOf(p, f) /\ \A i \in 1..Len(p) : ~Expired(p[i])
  BY PrunedDeque
<1>2. /\ Len(p) \in Nat /\ Len(f) \in Nat /\ Len(p) <= Len(f)
      /\ MaxAttempts \in Nat /\ MaxAttempts >= 1
  BY <1>1 DEF EndOf, LoginInv, LoginTypeOK
<1>3. /\ Passes(p) <=> Len(p) < MaxAttempts
      /\ Promise!LockedOut(e) <=> /\ Len(f) >= MaxAttempts
                                 /\ now - f[Len(f) - MaxAttempts + 1] <= AttemptWindow
  BY DEF Passes, Promise!LockedOut
<1> HIDE DEF p, f
<1>i. now \in Int /\ AttemptWindow \in Int
  BY DEF LoginInv, LoginTypeOK
<1>4. CASE Len(p) >= MaxAttempts
  <2> DEFINE k == Len(p) - MaxAttempts + 1
  <2>1. k \in 1..Len(p) /\ Len(f) - Len(p) + k = Len(f) - MaxAttempts + 1
    BY <1>2, <1>4
  <2>2. p[k] \in Int
    <3>1. p \in Seq(0..MaxTime)
      BY <1>1 DEF EndOf
    <3>2. QED
      BY <2>1, <3>1
  <2>3. p[k] = f[Len(f) - MaxAttempts + 1] /\ ~(now - p[k] > AttemptWindow)
    BY <1>1, <2>1 DEF EndOf, Expired
  <2> HIDE DEF k
  <2>4. now - f[Len(f) - MaxAttempts + 1] <= AttemptWindow
    BY <1>i, <2>2, <2>3
  <2>5. QED
    BY <1>2, <1>3, <1>4, <2>4 DEF p
<1>5. CASE Len(p) < MaxAttempts
  <2>1. ASSUME Len(f) >= MaxAttempts
        PROVE  ~(now - f[Len(f) - MaxAttempts + 1] <= AttemptWindow)
    <3> DEFINE k == Len(f) - MaxAttempts + 1
    <3>1. k \in 1..(Len(f) - Len(p)) /\ k \in 1..Len(f)
      BY <1>2, <1>5, <2>1
    <3>2. f[k] \in Int
      <4>1. f \in Seq(0..MaxTime)
        BY DEF f, LoginInv, LoginTypeOK
      <4>2. QED
        BY <3>1, <4>1
    <3>3. now - f[k] > AttemptWindow
      BY <1>1, <3>1 DEF EndOf, Expired
    <3>4. QED
      BY <1>i, <3>2, <3>3
  <2>2. QED
    BY <1>3, <1>5, <2>1 DEF p
<1>6. QED
  BY <1>2, <1>4, <1>5

\* A deque of which all is expired may be dropped.
LEMMA DeadDropped ==
  ASSUME LoginInv, NEW e \in DOMAIN attempts, Dead(attempts[e])
  PROVE  EndOf(<<>>, failures[e])
<1> DEFINE q == attempts[e]
           f == failures[e]
<1>1. /\ e \in Emails /\ EndOf(q, f) /\ f \in Seq(0..MaxTime)
      /\ q \in Seq(0..MaxTime)
  BY DEF LoginInv, LoginTypeOK, DequesEnd, Deque
<1>2. \A i \in 1..Len(q) : \A j \in i..Len(q) : q[i] <= q[j]
  <2>1. \A i \in 1..Len(f) : \A j \in i..Len(f) : f[i] <= f[j]
    BY <1>1 DEF LoginInv, FailuresSorted
  <2> HIDE DEF q, f
  <2>2. QED
    BY <1>1, <2>1, EndSorted
<1>3. q = <<>> \/ Expired(q[Len(q)])
  BY DEF Dead
<1>i. now \in Int /\ AttemptWindow \in Int
  BY DEF LoginInv, LoginTypeOK
<1> HIDE DEF q, f
<1>4. \A i \in 1..Len(q) : Expired(q[i])
  <2> SUFFICES ASSUME NEW i \in 1..Len(q) PROVE Expired(q[i])
    OBVIOUS
  <2>1. Len(q) \in i..Len(q) /\ Len(q) \in 1..Len(q) /\ q # <<>>
    BY <1>1
  <2>2. q[i] <= q[Len(q)] /\ q[i] \in Int /\ q[Len(q)] \in Int
    BY <1>1, <1>2, <2>1
  <2>3. now - q[Len(q)] > AttemptWindow
    BY <1>3, <2>1 DEF Expired
  <2>4. now - q[i] > AttemptWindow
    BY <1>i, <2>2, <2>3
  <2>5. QED
    BY <2>4 DEF Expired
<1>5. EndOf(<<>>, q)
  BY <1>1, <1>4 DEF EndOf
<1>6. EndOf(<<>>, f)
  BY <1>1, <1>5, EndOfEnd
<1>7. QED
  BY <1>6 DEF f

\* A failure recorded at the end of both keeps the one the end of the other.
LEMMA EndAppended ==
  ASSUME now \in 0..MaxTime, NEW f \in Seq(0..MaxTime), NEW q, EndOf(q, f)
  PROVE  EndOf(Append(q, now), Append(f, now))
<1>1. /\ q \in Seq(0..MaxTime) /\ Len(q) \in Nat /\ Len(f) \in Nat /\ Len(q) <= Len(f)
      /\ \A i \in 1..Len(q) : q[i] = f[Len(f) - Len(q) + i]
      /\ \A i \in 1..(Len(f) - Len(q)) : Expired(f[i])
  BY DEF EndOf
<1> DEFINE p == Append(q, now)
           g == Append(f, now)
<1>2. /\ p \in Seq(0..MaxTime) /\ Len(p) = Len(q) + 1 /\ Len(g) = Len(f) + 1
      /\ p[Len(q) + 1] = now /\ g[Len(f) + 1] = now
      /\ \A i \in 1..Len(q) : p[i] = q[i]
      /\ \A i \in 1..Len(f) : g[i] = f[i]
  BY <1>1
<1> HIDE DEF p, g
<1>3. Len(g) - Len(p) = Len(f) - Len(q)
  BY <1>1, <1>2
<1>4. ASSUME NEW i \in 1..Len(p) PROVE p[i] = g[Len(g) - Len(p) + i]
  <2>1. CASE i = Len(q) + 1
    <3>1. Len(g) - Len(p) + i = Len(f) + 1
      BY <1>1, <1>2, <2>1
    <3>2. QED
      BY <1>2, <2>1, <3>1
  <2>2. CASE i \in 1..Len(q)
    <3>1. Len(f) - Len(q) + i \in 1..Len(f)
      BY <1>1, <2>2
    <3>2. QED
      BY <1>1, <1>2, <1>3, <2>2, <3>1
  <2>3. QED
    BY <1>1, <1>2, <2>1, <2>2
<1>5. ASSUME NEW i \in 1..(Len(g) - Len(p)) PROVE Expired(g[i])
  <2>1. i \in 1..(Len(f) - Len(q)) /\ i \in 1..Len(f)
    BY <1>1, <1>3
  <2>2. Expired(f[i]) /\ g[i] = f[i]
    BY <1>1, <1>2, <2>1
  <2>3. QED
    BY <2>2 DEF Expired
<1>6. EndOf(p, g)
  BY <1>1, <1>2, <1>4, <1>5 DEF EndOf
<1>7. QED
  BY <1>6 DEF p, g

\* What record_failed_login leaves of a deque, the failed email's and others'.
LEMMA RecordedDeques ==
  ASSUME LoginInv, NEW e \in Emails, attempts' = Recorded(e),
         failures' = [failures EXCEPT ![e] = Append(@, now)], now' = now
  PROVE  DequesEnd' /\ DOMAIN attempts' \subseteq Emails
         /\ \A x \in DOMAIN attempts' : attempts'[x] \in Seq(0..MaxTime)
<1> DEFINE d == Evicted
           old(x) == IF x \in DOMAIN d THEN d[x] ELSE <<>>
<1>1. DOMAIN d \subseteq DOMAIN attempts
  BY DEF Evicted, Without
<1>2. ASSUME NEW x \in Emails PROVE EndOf(old(x), failures[x])
  <2>1. CASE d = attempts
    BY <2>1 DEF LoginInv, DequesEnd, Deque
  <2>2. CASE d = Without(attempts, {y \in DOMAIN attempts : Dead(attempts[y])})
    <3>1. CASE x \in DOMAIN attempts /\ Dead(attempts[x])
      BY <2>2, <3>1, DeadDropped DEF Without
    <3>2. CASE ~(x \in DOMAIN attempts /\ Dead(attempts[x]))
      <4>1. old(x) = Deque(x)
        BY <2>2, <3>2 DEF Without, Deque
      <4>2. QED
        BY <4>1 DEF LoginInv, DequesEnd
    <3>3. QED
      BY <3>1, <3>2
  <2>3. QED
    BY <2>1, <2>2 DEF Evicted
<1>3. attempts' = [x \in DOMAIN d \cup {e} |-> IF x = e THEN Append(old(e), now) ELSE d[x]]
  BY DEF Recorded, With
<1>4. now \in 0..MaxTime /\ failures \in [Emails -> Seq(0..MaxTime)]
      /\ DOMAIN attempts \subseteq Emails
  BY DEF LoginInv, LoginTypeOK
<1> HIDE DEF d
<1>5. ASSUME NEW x \in Emails PROVE EndOf(Deque(x), failures[x])'
  <2>1. CASE x = e
    <3>1. Deque(x)' = Append(old(x), now) /\ failures'[x] = Append(failures[x], now)
      BY <1>3, <1>4, <2>1 DEF Deque
    <3>2. EndOf(Deque(x)', failures'[x])
      BY <1>2, <1>4, <3>1, EndAppended
    <3>3. QED
      BY <3>2 DEF EndOf, Expired
  <2>2. CASE x # e
    <3>1. Deque(x)' = old(x) /\ failures'[x] = failures[x]
      BY <1>3, <1>4, <2>2 DEF Deque
    <3>2. QED
      BY <1>2, <3>1 DEF EndOf, Expired
  <2>3. QED
    BY <2>1, <2>2
<1>6. ASSUME NEW x \in DOMAIN attempts'
      PROVE  x \in Emails /\ attempts'[x] \in Seq(0..MaxTime)
  <2>1. x \in Emails
    BY <1>1, <1>3, <1>4
  <2>2. Deque(x)' = attempts'[x]
    BY DEF Deque
  <2>3. QED
    BY <1>5, <2>1, <2>2 DEF EndOf
<1>7. QED
  BY <1>5, <1>6 DEF DequesEnd

-----------------------------------------------------------------------------

\* The number of logins of an email that verify a password.
LEMMA VerifyingCount ==
  ASSUME NEW e
  PROVE  /\ IsFiniteSet(Verifying(e)) /\ Cardinality(Verifying(e)) \in Nat
         /\ Cardinality(Logins) \in Nat /\ Cardinality(Verifying(e)) <= Cardinality(Logins)
<1>1. Verifying(e) \subseteq Logins
  BY DEF Verifying
<1>2. IsFiniteSet(Verifying(e)) /\ Cardinality(Verifying(e)) <= Cardinality(Logins)
  BY <1>1, FS_Subset
<1>3. QED
  BY <1>2, FS_CardinalityType

\* An email is locked out before the failures that count are too many to let
\* one more login verify.
LEMMA RoomForOne ==
  ASSUME LoginInv, NEW e \in Emails, ~Promise!LockedOut(e),
         NEW i \in 1..Len(failures[e]), ~Expired(failures[e][i])
  PROVE  Len(failures[e]) - i + 1 <= MaxAttempts - 1
<1> DEFINE f == failures[e]
           k == Len(f) - MaxAttempts + 1
<1>1. f \in Seq(0..MaxTime) /\ Len(f) \in Nat
  BY DEF LoginInv, LoginTypeOK
<1>2. \A a \in 1..Len(f) : \A b \in a..Len(f) : f[a] <= f[b]
  BY DEF LoginInv, FailuresSorted
<1>3. ~(Len(f) >= MaxAttempts /\ now - f[k] <= AttemptWindow)
  BY DEF Promise!LockedOut
<1>i. now \in Int /\ AttemptWindow \in Int /\ MaxAttempts \in Nat /\ MaxAttempts >= 1
  BY DEF LoginInv, LoginTypeOK
<1>g. i \in 1..Len(f) /\ ~Expired(f[i])
  OBVIOUS
<1> HIDE DEF f
<1>4. SUFFICES ASSUME Len(f) - i + 1 > MaxAttempts - 1 PROVE FALSE
  BY <1>1, <1>i DEF f
<1>5. Len(f) >= MaxAttempts /\ k \in i..Len(f) /\ k \in 1..Len(f)
  BY <1>1, <1>i, <1>4, <1>g
<1>6. f[i] <= f[k] /\ f[i] \in Int /\ f[k] \in Int
  BY <1>1, <1>2, <1>5, <1>g
<1> HIDE DEF k
<1>7. ~(now - f[i] > AttemptWindow)
  BY <1>g DEF Expired
<1>8. QED
  BY <1>i, <1>3, <1>5, <1>6, <1>7

\* A login that starts to verify leaves room for those that do.
LEMMA CheckBounded ==
  ASSUME LoginInv, NEW l \in Logins, NEW e \in Emails, CheckLogin(l, e)
  PROVE  StillBounded'
<1>1. /\ doing[l] # "verifying" /\ now' = now /\ failures' = failures
      /\ email' = [email EXCEPT ![l] = e]
      /\ doing' = [doing EXCEPT ![l] = IF Passes(Pruned(Deque(e)))
                                       THEN "verifying" ELSE "locked"]
      /\ doing \in [Logins -> Promise!Doing] /\ email \in [Logins -> Emails \cup {NoEmail}]
  BY DEF CheckLogin, LoginInv, LoginTypeOK
<1> SUFFICES ASSUME NEW x \in Emails, NEW i \in 1..Len(failures[x]), ~Expired(failures[x][i])
             PROVE  Len(failures[x]) - i + 1 + Cardinality(Verifying(x)') <= Most
  BY <1>1 DEF StillBounded, Expired, Most
<1>2. /\ Len(failures[x]) - i + 1 + Cardinality(Verifying(x)) <= Most
      /\ Len(failures[x]) \in Nat
  BY DEF LoginInv, LoginTypeOK, StillBounded
<1>3. CASE x = e /\ Passes(Pruned(Deque(e)))
  <2>1. Len(failures[x]) - i + 1 <= MaxAttempts - 1
    BY <1>3, RoomForOne, PassesUnlessLocked
  <2>2. Verifying(x)' \subseteq Logins
    BY DEF Verifying
  <2>3. Cardinality(Verifying(x)') <= Cardinality(Logins)
        /\ Cardinality(Verifying(x)') \in Nat /\ Cardinality(Logins) \in Nat
    BY <2>2, FS_Subset, FS_CardinalityType
  <2>4. QED
    BY <1>2, <2>1, <2>3 DEF Most
<1>4. CASE ~(x = e /\ Passes(Pruned(Deque(e))))
  <2>1. Verifying(x)' = Verifying(x)
    BY <1>1, <1>4 DEF Verifying
  <2>2. QED
    BY <1>2, <2>1
<1>5. QED
  BY <1>3, <1>4

\* A login that fails is one that verified: what it adds it leaves free.
LEMMA FailBounded ==
  ASSUME LoginInv, NEW l \in Logins, Promise!Fail(l)
  PROVE  StillBounded' /\ FailuresBounded'
<1>e. PICK e \in Emails : e = email[l]
  BY DEF Promise!Fail, LoginInv, VerifyingEmail
<1>1. /\ doing[l] = "verifying" /\ now' = now /\ email' = email
      /\ failures' = [failures EXCEPT ![e] = Append(@, now)]
      /\ doing' = [doing EXCEPT ![l] = "idle"]
      /\ doing \in [Logins -> Promise!Doing]
      /\ failures \in [Emails -> Seq(0..MaxTime)] /\ now \in 0..MaxTime
  BY <1>e DEF Promise!Fail, Promise!LoginGoto, LoginInv, LoginTypeOK
<1>2. ASSUME NEW x \in Emails, x # e
      PROVE  failures'[x] = failures[x] /\ Verifying(x)' = Verifying(x)
  BY <1>e, <1>1, <1>2 DEF Verifying
<1>3. Verifying(e)' \subseteq Verifying(e) \ {l} /\ l \in Verifying(e)
  BY <1>e, <1>1 DEF Verifying
<1>4. PICK n \in Nat : n = Len(failures[e])
  BY <1>1
<1>5. /\ failures'[e] \in Seq(0..MaxTime) /\ Len(failures'[e]) = n + 1
      /\ failures'[e][n + 1] = now
      /\ \A i \in 1..n : failures'[e][i] = failures[e][i] /\ failures[e][i] \in Int
  BY <1>1, <1>4
<1>6. PICK v \in Nat : v = Cardinality(Verifying(e))
  BY VerifyingCount
<1>7. PICK w \in Nat : w = Cardinality(Verifying(e)') /\ w + 1 <= v
  <2>1. /\ IsFiniteSet(Verifying(e) \ {l})
        /\ Cardinality(Verifying(e) \ {l}) = v - 1
    BY <1>3, <1>6, VerifyingCount, FS_RemoveElement
  <2>2. IsFiniteSet(Verifying(e)') /\ Cardinality(Verifying(e)') <= v - 1
    BY <1>3, <2>1, FS_Subset
  <2>3. Cardinality(Verifying(e)') \in Nat
    BY <2>2, FS_CardinalityType
  <2>4. QED
    BY <1>6, <2>2, <2>3
<1>8. PICK most \in Nat : most = Most /\ v <= most
  <2>1. v <= Cardinality(Logins) /\ Cardinality(Logins) \in Nat
    BY <1>6, VerifyingCount
  <2>2. QED
    BY <2>1 DEF Most
<1>9. \A i \in 1..n : ~Expired(failures[e][i]) => n - i + 1 + v <= most
  BY <1>4, <1>6, <1>8 DEF LoginInv, StillBounded
<1>10. StillBounded'
  <2> SUFFICES ASSUME NEW x \in Emails, NEW i \in 1..Len(failures'[x]),
                      ~Expired(failures[x][i])'
               PROVE  Len(failures'[x]) - i + 1 + Cardinality(Verifying(x)') <= most
    BY <1>8 DEF StillBounded, Most
  <2>1. CASE x # e
    BY <1>1, <1>2, <1>8, <2>1 DEF LoginInv, StillBounded, Expired
  <2>2. CASE x = e /\ i = n + 1
    BY <1>5, <1>7, <1>8, <2>2
  <2>3. CASE x = e /\ i \in 1..n
    <3>1. ~Expired(failures[e][i])
      BY <1>1, <1>5, <2>3 DEF Expired
    <3>2. n - i + 1 + v <= most
      BY <1>9, <2>3, <3>1
    <3>3. QED
      BY <1>5, <1>7, <2>3, <3>2
  <2>4. QED
    BY <1>5, <2>1, <2>2, <2>3
<1>11. FailuresBounded'
  <2> SUFFICES ASSUME NEW x \in Emails, NEW i \in 1..Len(failures'[x]),
                      i + most <= Len(failures'[x])
               PROVE  failures'[x][i + most] - failures'[x][i] > AttemptWindow
    BY <1>8 DEF FailuresBounded, Most
  <2>1. CASE x # e
    BY <1>2, <1>8, <2>1 DEF LoginInv, FailuresBounded, Most
  <2>2. CASE x = e /\ i + most <= n
    <3>1. i \in 1..n /\ i + most \in 1..n
      BY <1>5, <2>2
    <3>2. failures[e][i + most] - failures[e][i] > AttemptWindow
      BY <1>4, <1>8, <2>2, <3>1 DEF LoginInv, FailuresBounded, Most
    <3>3. QED
      BY <1>5, <2>2, <3>1, <3>2
  <2>3. CASE x = e /\ i + most = n + 1
    <3>1. i \in 1..n /\ ~(n - i + 1 + v <= most)
      BY <1>5, <1>7, <1>8, <2>3
    <3>2. Expired(failures[e][i])
      BY <1>9, <3>1
    <3>3. now - failures[e][i] > AttemptWindow
      BY <3>2 DEF Expired
    <3>4. QED
      BY <1>5, <2>3, <3>1, <3>3
  <2>4. QED
    BY <1>5, <2>1, <2>2, <2>3
<1>12. QED
  BY <1>10, <1>11

\* A step that adds no failure and lets no login verify adds nothing to bound.
LEMMA NothingAdded ==
  ASSUME LoginInv, now' \in 0..MaxTime, now <= now',
         \A e \in Emails : failures'[e] \in {failures[e], <<>>},
         \A e \in Emails : Verifying(e)' \subseteq Verifying(e)
  PROVE  FailuresSorted' /\ StillBounded' /\ FailuresBounded'
<1>1. /\ now \in Int /\ now' \in Int /\ AttemptWindow \in Int
      /\ \A e \in Emails : failures[e] \in Seq(0..MaxTime)
  BY DEF LoginInv, LoginTypeOK
<1>2. \A e \in Emails : \A i \in 1..Len(failures[e]) : failures[e][i] \in Int
  <2> SUFFICES ASSUME NEW e \in Emails, NEW i \in 1..Len(failures[e])
               PROVE  failures[e][i] \in Int
    OBVIOUS
  <2>1. failures[e] \in Seq(0..MaxTime)
    BY <1>1
  <2>2. QED
    BY <2>1
<1>3. FailuresSorted'
  <2> SUFFICES ASSUME NEW e \in Emails, NEW i \in 1..Len(failures'[e])
               PROVE  /\ failures'[e][i] <= now'
                      /\ \A j \in i..Len(failures'[e]) : failures'[e][i] <= failures'[e][j]
    BY DEF FailuresSorted
  <2>1. failures'[e] = failures[e]
    <3>1. failures'[e] # <<>>
      OBVIOUS
    <3>2. QED
      BY <3>1
  <2>2. /\ failures[e][i] <= now
        /\ \A j \in i..Len(failures[e]) : failures[e][i] <= failures[e][j]
    BY <2>1 DEF LoginInv, FailuresSorted
  <2>3. QED
    BY <1>1, <1>2, <2>1, <2>2
<1>4. StillBounded'
  <2> SUFFICES ASSUME NEW e \in Emails, NEW i \in 1..Len(failures'[e]),
                      ~Expired(failures[e][i])'
               PROVE  Len(failures'[e]) - i + 1 + Cardinality(Verifying(e)') <= Most
    BY DEF StillBounded, Most
  <2>1. failures'[e] = failures[e]
    <3>1. failures'[e] # <<>>
      OBVIOUS
    <3>2. QED
      BY <3>1
  <2>2. failures[e][i] \in Int /\ ~(now' - failures[e][i] > AttemptWindow)
    BY <1>2, <2>1 DEF Expired
  <2>3. ~(now - failures[e][i] > AttemptWindow)
    BY <1>1, <2>2
  <2>4. Len(failures[e]) - i + 1 + Cardinality(Verifying(e)) <= Most
    BY <2>1, <2>3 DEF LoginInv, StillBounded, Expired
  <2>5. /\ Cardinality(Verifying(e)') <= Cardinality(Verifying(e))
        /\ Cardinality(Verifying(e)) \in Nat /\ Cardinality(Verifying(e)') \in Nat
        /\ Cardinality(Logins) \in Nat
    BY VerifyingCount, FS_Subset, FS_CardinalityType
  <2>6. Len(failures[e]) \in Nat /\ Most \in Int
    BY <1>1, <2>5 DEF Most
  <2>7. QED
    BY <2>1, <2>4, <2>5, <2>6
<1>5. FailuresBounded'
  <2> SUFFICES ASSUME NEW e \in Emails, NEW i \in 1..Len(failures'[e]),
                      i + Most <= Len(failures'[e])
               PROVE  failures'[e][i + Most] - failures'[e][i] > AttemptWindow
    BY DEF FailuresBounded, Most
  <2>1. failures'[e] = failures[e]
    <3>1. failures'[e] # <<>>
      OBVIOUS
    <3>2. QED
      BY <3>1
  <2>2. QED
    BY <2>1 DEF LoginInv, FailuresBounded, Most
<1>6. QED
  BY <1>3, <1>4, <1>5

\* No deque is the end of no failures.
LEMMA EmptyEnd == EndOf(<<>>, <<>>)
BY DEF EndOf

\* The initial state.
LEMMA LoginInvInit == LoginInit => LoginInv
<1> SUFFICES ASSUME LoginInit PROVE LoginInv
  OBVIOUS
<1>1. /\ attempts = NoAttempts /\ now = 0
      /\ failures = [e \in Emails |-> <<>>]
      /\ doing = [l \in Logins |-> "idle"]
      /\ email = [l \in Logins |-> NoEmail]
  BY DEF LoginInit, Promise!LockInit
<1>2. LoginTypeOK
  BY <1>1 DEF LoginTypeOK, NoAttempts, Promise!Doing
<1>3. \A e \in Emails : failures[e] = <<>> /\ Deque(e) = <<>>
  BY <1>1 DEF Deque, NoAttempts
<1>4. FailuresSorted /\ StillBounded /\ FailuresBounded
  BY <1>3 DEF FailuresSorted, StillBounded, FailuresBounded
<1>5. DequesEnd
  BY <1>3, EmptyEnd DEF DequesEnd
<1>6. VerifyingEmail
  BY <1>1 DEF VerifyingEmail
<1>7. QED
  BY <1>2, <1>4, <1>5, <1>6 DEF LoginInv

\* check_login_rate keeps the invariant.
LEMMA CheckKeeps ==
  ASSUME LoginInv, NEW l \in Logins, NEW e \in Emails, CheckLogin(l, e)
  PROVE  LoginInv'
<1>1. /\ attempts' = With(attempts, e, Pruned(Deque(e)))
      /\ email' = [email EXCEPT ![l] = e]
      /\ doing' = [doing EXCEPT ![l] = IF Passes(Pruned(Deque(e)))
                                       THEN "verifying" ELSE "locked"]
      /\ UNCHANGED <<now, failures>>
  BY DEF CheckLogin
<1>2. EndOf(Pruned(Deque(e)), failures[e])
  BY PrunedDeque
<1>3. DequesEnd'
  <2> SUFFICES ASSUME NEW x \in Emails PROVE EndOf(Deque(x), failures[x])'
    BY DEF DequesEnd
  <2>1. Deque(x)' = IF x = e THEN Pruned(Deque(e)) ELSE Deque(x)
    BY <1>1 DEF Deque, With
  <2>2. EndOf(Deque(x)', failures[x])
    BY <1>2, <2>1 DEF LoginInv, DequesEnd
  <2>3. QED
    BY <1>1, <2>2 DEF EndOf, Expired
<1>4. LoginTypeOK'
  <2>1. Pruned(Deque(e)) \in Seq(0..MaxTime)
    BY <1>2 DEF EndOf
  <2>2. DOMAIN attempts' \subseteq Emails
        /\ \A x \in DOMAIN attempts' : attempts'[x] \in Seq(0..MaxTime)
    BY <1>1, <2>1 DEF With, LoginInv, LoginTypeOK
  <2>3. doing' \in [Logins -> Promise!Doing] /\ email' \in [Logins -> Emails \cup {NoEmail}]
    BY <1>1 DEF LoginInv, LoginTypeOK, Promise!Doing
  <2>4. QED
    BY <1>1, <2>2, <2>3 DEF LoginInv, LoginTypeOK
<1>5. FailuresSorted' /\ FailuresBounded'
  BY <1>1 DEF LoginInv, FailuresSorted, FailuresBounded
<1>6. VerifyingEmail'
  BY <1>1 DEF LoginInv, LoginTypeOK, VerifyingEmail
<1>7. StillBounded'
  BY CheckBounded
<1>8. QED
  BY <1>3, <1>4, <1>5, <1>6, <1>7 DEF LoginInv

\* So does record_failed_login.
LEMMA FailKeeps ==
  ASSUME LoginInv, NEW l \in Logins, FailLogin(l)
  PROVE  LoginInv'
<1>e. PICK e \in Emails : e = email[l]
  BY DEF FailLogin, Promise!Fail, LoginInv, VerifyingEmail
<1>1. /\ attempts' = Recorded(e) /\ now' = now /\ email' = email
      /\ failures' = [failures EXCEPT ![e] = Append(@, now)]
      /\ doing' = [doing EXCEPT ![l] = "idle"]
  BY <1>e DEF FailLogin, Promise!Fail, Promise!LoginGoto
<1>2. /\ DequesEnd' /\ DOMAIN attempts' \subseteq Emails
      /\ \A x \in DOMAIN attempts' : attempts'[x] \in Seq(0..MaxTime)
  BY <1>1, RecordedDeques
<1>t. /\ failures \in [Emails -> Seq(0..MaxTime)] /\ now \in 0..MaxTime
      /\ doing \in [Logins -> Promise!Doing] /\ email \in [Logins -> Emails \cup {NoEmail}]
  BY DEF LoginInv, LoginTypeOK
<1>3. LoginTypeOK'
  <2>1. failures' \in [Emails -> Seq(0..MaxTime)]
    BY <1>1, <1>t
  <2>2. doing' \in [Logins -> Promise!Doing]
    BY <1>1, <1>t DEF Promise!Doing
  <2>3. QED
    BY <1>1, <1>2, <1>t, <2>1, <2>2 DEF LoginTypeOK
<1>4. FailuresSorted'
  <2> SUFFICES ASSUME NEW x \in Emails, NEW i \in 1..Len(failures'[x])
               PROVE  /\ failures'[x][i] <= now
                      /\ \A j \in i..Len(failures'[x]) : failures'[x][i] <= failures'[x][j]
    BY <1>1 DEF FailuresSorted
  <2>1. CASE x # e
    BY <1>1, <1>t, <2>1 DEF LoginInv, FailuresSorted
  <2>2. CASE x = e
    <3>1. PICK n \in Nat : n = Len(failures[e])
      BY <1>t
    <3>2. /\ failures'[e] = Append(failures[e], now) /\ Len(failures'[e]) = n + 1
          /\ failures'[e][n + 1] = now
          /\ \A k \in 1..n : failures'[e][k] = failures[e][k]
      BY <1>1, <1>t, <3>1
    <3>3. \A k \in 1..n : /\ failures[e][k] <= now
                          /\ \A j \in k..n : failures[e][k] <= failures[e][j]
      BY <3>1 DEF LoginInv, FailuresSorted
    <3>4. CASE i = n + 1
      BY <1>t, <2>2, <3>2, <3>4
    <3>5. CASE i \in 1..n
      BY <1>t, <2>2, <3>2, <3>3, <3>5
    <3>6. QED
      BY <2>2, <3>2, <3>4, <3>5
  <2>3. QED
    BY <2>1, <2>2
<1>5. VerifyingEmail'
  BY <1>1, <1>t DEF LoginInv, VerifyingEmail
<1>6. StillBounded' /\ FailuresBounded'
  BY FailBounded DEF FailLogin
<1>7. QED
  BY <1>2, <1>3, <1>4, <1>5, <1>6 DEF LoginInv

\* So does clear_login_attempts.
LEMMA SucceedKeeps ==
  ASSUME LoginInv, NEW l \in Logins, SucceedLogin(l)
  PROVE  LoginInv'
<1>e. PICK e \in Emails : e = email[l]
  BY DEF SucceedLogin, Promise!Succeed, LoginInv, VerifyingEmail
<1>1. /\ attempts' = Without(attempts, {e}) /\ now' = now /\ email' = email
      /\ failures' = [failures EXCEPT ![e] = <<>>]
      /\ doing' = [doing EXCEPT ![l] = "idle"]
  BY <1>e DEF SucceedLogin, Promise!Succeed, Promise!LoginGoto
<1>t. /\ failures \in [Emails -> Seq(0..MaxTime)] /\ now \in 0..MaxTime
      /\ doing \in [Logins -> Promise!Doing] /\ email \in [Logins -> Emails \cup {NoEmail}]
      /\ DOMAIN attempts \subseteq Emails
      /\ \A x \in DOMAIN attempts : attempts[x] \in Seq(0..MaxTime)
  BY DEF LoginInv, LoginTypeOK
<1>2. LoginTypeOK'
  <2>1. DOMAIN attempts' \subseteq Emails
        /\ \A x \in DOMAIN attempts' : attempts'[x] \in Seq(0..MaxTime)
    BY <1>1, <1>t DEF Without
  <2>2. failures' \in [Emails -> Seq(0..MaxTime)] /\ doing' \in [Logins -> Promise!Doing]
    BY <1>1, <1>t DEF Promise!Doing
  <2>3. QED
    BY <1>1, <1>t, <2>1, <2>2 DEF LoginTypeOK
<1>3. DequesEnd'
  <2> SUFFICES ASSUME NEW x \in Emails PROVE EndOf(Deque(x), failures[x])'
    BY DEF DequesEnd
  <2>1. CASE x = e
    <3>1. Deque(x)' = <<>> /\ failures'[x] = <<>>
      BY <1>1, <1>t, <2>1 DEF Deque, Without
    <3>2. QED
      BY <3>1 DEF EndOf
  <2>2. CASE x # e
    <3>1. Deque(x)' = Deque(x) /\ failures'[x] = failures[x]
      BY <1>1, <1>t, <2>2 DEF Deque, Without
    <3>2. EndOf(Deque(x), failures[x])
      BY DEF LoginInv, DequesEnd
    <3>3. QED
      BY <1>1, <3>1, <3>2 DEF EndOf, Expired
  <2>3. QED
    BY <2>1, <2>2
<1>4. VerifyingEmail' /\ \A x \in Emails : Verifying(x)' \subseteq Verifying(x)
  BY <1>1, <1>t DEF LoginInv, VerifyingEmail, Verifying
<1>5. FailuresSorted' /\ StillBounded' /\ FailuresBounded'
  BY <1>1, <1>4, <1>t, NothingAdded
<1>6. QED
  BY <1>2, <1>3, <1>4, <1>5 DEF LoginInv

\* Every step keeps the invariant.
LEMMA LoginInvNext == LoginInv /\ [LoginNext]_<<now, loginLocals>> => LoginInv'
<1> SUFFICES ASSUME LoginInv, [LoginNext]_<<now, loginLocals>> PROVE LoginInv'
  OBVIOUS
<1>t. /\ failures \in [Emails -> Seq(0..MaxTime)] /\ now \in 0..MaxTime
      /\ doing \in [Logins -> Promise!Doing] /\ email \in [Logins -> Emails \cup {NoEmail}]
      /\ MaxTime \in Nat
  BY DEF LoginInv, LoginTypeOK
<1>1. ASSUME NEW l \in Logins, NEW e \in Emails, CheckLogin(l, e) PROVE LoginInv'
  BY <1>1, CheckKeeps
<1>2. ASSUME NEW l \in Logins, FailLogin(l) PROVE LoginInv'
  BY <1>2, FailKeeps
<1>3. ASSUME NEW l \in Logins, SucceedLogin(l) PROVE LoginInv'
  BY <1>3, SucceedKeeps
<1>4. ASSUME NEW l \in Logins, LeaveLogin(l) PROVE LoginInv'
  <2>1. doing' = [doing EXCEPT ![l] = "idle"] /\ UNCHANGED <<now, failures, email, attempts>>
    BY <1>4 DEF LeaveLogin, Promise!Leave, Promise!LoginGoto
  <2>2. LoginTypeOK' /\ VerifyingEmail'
        /\ \A x \in Emails : Verifying(x)' \subseteq Verifying(x)
    BY <1>t, <2>1 DEF LoginInv, LoginTypeOK, VerifyingEmail, Verifying, Promise!Doing
  <2>3. DequesEnd'
    BY <2>1 DEF LoginInv, DequesEnd, Deque, EndOf, Expired
  <2>4. QED
    BY <1>t, <2>1, <2>2, <2>3, NothingAdded DEF LoginInv
<1>5. ASSUME RestartApi PROVE LoginInv'
  <2>1. /\ attempts' = NoAttempts /\ failures' = [e \in Emails |-> <<>>]
        /\ doing' = [l \in Logins |-> "idle"] /\ UNCHANGED <<now, email>>
    BY <1>5 DEF RestartApi, Promise!Forget
  <2>2. LoginTypeOK' /\ VerifyingEmail'
        /\ \A x \in Emails : Verifying(x)' \subseteq Verifying(x)
    BY <1>t, <2>1 DEF LoginTypeOK, VerifyingEmail, Verifying, NoAttempts, Promise!Doing
  <2>3. \A x \in Emails : failures'[x] = <<>> /\ Deque(x)' = <<>>
    BY <2>1 DEF Deque, NoAttempts
  <2>4. DequesEnd'
    <3> SUFFICES ASSUME NEW x \in Emails PROVE EndOf(Deque(x), failures[x])'
      BY DEF DequesEnd
    <3>1. EndOf(<<>>, <<>>)'
      BY DEF EndOf
    <3>2. QED
      BY <2>3, <3>1 DEF EndOf
  <2>5. QED
    BY <1>t, <2>1, <2>2, <2>3, <2>4, NothingAdded DEF LoginInv
<1>6. ASSUME now' \in 0..MaxTime, now <= now', UNCHANGED loginLocals PROVE LoginInv'
  <2>1. UNCHANGED <<attempts, doing, email, failures>>
    BY <1>6 DEF loginLocals
  <2>2. LoginTypeOK' /\ VerifyingEmail' /\ \A x \in Emails : Verifying(x)' \subseteq Verifying(x)
    BY <1>6, <2>1 DEF LoginInv, LoginTypeOK, VerifyingEmail, Verifying
  <2>3. DequesEnd'
    <3> SUFFICES ASSUME NEW e \in Emails PROVE EndOf(Deque(e), failures[e])'
      BY DEF DequesEnd
    <3>1. EndOf(Deque(e), failures[e]) /\ Deque(e)' = Deque(e) /\ failures'[e] = failures[e]
      BY <2>1 DEF LoginInv, DequesEnd, Deque
    <3>2. ASSUME NEW i \in 1..(Len(failures[e]) - Len(Deque(e)))
          PROVE  Expired(failures[e][i])'
      <4>1. now - failures[e][i] > AttemptWindow
        BY <3>1 DEF EndOf, Expired
      <4>2. failures[e] \in Seq(0..MaxTime) /\ Len(Deque(e)) \in Nat
        BY <1>t, <3>1 DEF EndOf
      <4>3. failures[e][i] \in Int /\ now \in Int /\ now' \in Int /\ AttemptWindow \in Int
        BY <1>t, <1>6, <4>2
      <4>4. now' - failures[e][i] > AttemptWindow
        BY <1>6, <4>1, <4>3
      <4>5. QED
        BY <2>1, <4>4 DEF Expired
    <3>3. QED
      BY <2>1, <3>1, <3>2 DEF EndOf
  <2>4. QED
    BY <1>6, <2>1, <2>2, <2>3, NothingAdded DEF LoginInv
<1>7. ASSUME Tick, UNCHANGED loginLocals PROVE LoginInv'
  <2>1. now' \in 0..MaxTime /\ now <= now'
    BY <1>7, <1>t DEF Tick
  <2>2. QED
    BY <1>6, <1>7, <2>1
<1>8. ASSUME UNCHANGED <<now, loginLocals>> PROVE LoginInv'
  <2>1. now' \in 0..MaxTime /\ now <= now' /\ UNCHANGED loginLocals
    BY <1>8, <1>t
  <2>2. QED
    BY <1>6, <2>1
<1>9. QED
  BY <1>1, <1>2, <1>3, <1>4, <1>5, <1>7, <1>8 DEF LoginNext

-----------------------------------------------------------------------------

\* What the theorems rest on.
LEMMA LoginInvAlways == LoginSpec => []LoginInv
BY LoginInvInit, LoginInvNext, PTL DEF LoginSpec

\* The state of the attempt limit is what it is taken for, for every number of
\* emails and logins: no login records a failure without an email.
THEOREM LoginTypeCorrect == LoginSpec => []LoginTypeOK
<1>1. LoginInv => LoginTypeOK
  BY DEF LoginInv
<1>2. QED
  BY <1>1, LoginInvAlways, PTL

\* However many logins of an email verify together, no window holds more of its
\* failures than the limit and their number allow.
THEOREM FailuresAlwaysBounded == LoginSpec => []FailuresBounded
<1>1. LoginInv => FailuresBounded
  BY DEF LoginInv
<1>2. QED
  BY <1>1, LoginInvAlways, PTL

\* Every step of the deques is one of the lockout login promises.
LEMMA LoginStep ==
  LoginInv /\ [LoginNext]_<<now, loginLocals>> => [Promise!LockNext]_(Promise!lockvars)
<1> SUFFICES ASSUME LoginInv, [LoginNext]_<<now, loginLocals>>
             PROVE  [Promise!LockNext]_(Promise!lockvars)
  OBVIOUS
<1>1. ASSUME NEW l \in Logins, NEW e \in Emails, CheckLogin(l, e) PROVE Promise!Try(l, e)
  BY <1>1, PassesUnlessLocked DEF CheckLogin, Promise!Try, Promise!LoginGoto
<1>2. ASSUME NEW l \in Logins, FailLogin(l) \/ SucceedLogin(l) \/ LeaveLogin(l)
      PROVE  Promise!Fail(l) \/ Promise!Succeed(l) \/ Promise!Leave(l)
  BY <1>2 DEF FailLogin, SucceedLogin, LeaveLogin
<1>3. RestartApi => Promise!Forget
  BY DEF RestartApi
<1>4. Tick /\ UNCHANGED loginLocals => Promise!Tick /\ UNCHANGED <<failures, doing, email>>
  BY DEF Tick, Promise!Tick, loginLocals
<1>5. UNCHANGED <<now, loginLocals>> => UNCHANGED Promise!lockvars
  BY DEF loginLocals, Promise!lockvars
<1>6. QED
  BY <1>1, <1>2, <1>3, <1>4, <1>5 DEF LoginNext, Promise!LockNext

\* The deques keep the lockout login promises, for every number of attempts and
\* every window: an email is refused exactly while it is locked out.
THEOREM LoginKeepsPromise == LoginSpec => ImplementsLockout
<1>1. LoginInit => Promise!LockInit
  BY DEF LoginInit
<1>2. QED
  BY <1>1, LoginStep, LoginInvAlways, PTL DEF LoginSpec, ImplementsLockout, Promise!LockSpec

=============================================================================
