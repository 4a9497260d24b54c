--------------------------- MODULE VoiceGateProofs ---------------------------
(***************************************************************************)
(* Proofs about MintBucket and VoiceGate.                                  *)
(*                                                                         *)
(* The bucket.  The argument is an account of the time: the tokens left    *)
(* and the tokens taken, at RefillTime each, are covered by the capacity   *)
(* and by the time up to which the bucket is refilled.  No step of the     *)
(* refill credits more time than has passed, and none is credited twice,   *)
(* because the instant goes forward with the level.                        *)
(*                                                                         *)
(* The gate.  The invariant says of each invocation what it may rely on    *)
(* although everything it read may be stale: its session is nobody else's  *)
(* until its slot is written, the instants it holds are past, and what it  *)
(* read of the meter is no less than the meter was Lag before its hour     *)
(* began.                                                                  *)
(* The live sessions and those being minted are counted together: only the *)
(* count of a mint adds to them, and it adds one to fewer than the cap     *)
(* plus what the other invocations are minting.                            *)
(***************************************************************************)
EXTENDS VoiceGate, FiniteSetTheorems, TLAPS

\* The time spent is accounted for.
Balanced(b) ==
  /\ b.tokens <= Capacity - 1
  /\ born <= b.last /\ b.last <= clock
  /\ RefillTime * (b.tokens + spent) <= RefillTime * Capacity + (b.last - born)

\* What an invocation is about to write is computed from a bucket with a token,
\* and it has attempts left.
Computed(t) ==
  /\ t.pc = "write" /\ t.seen # NoBucket => Available(t.seen, t.now) >= 1
  /\ t.pc \in {"begin", "read", "write"} => t.tries < Attempts

BucketIInv ==
  /\ BucketTypeOK
  /\ IF bucket = NoBucket THEN spent = 0 ELSE Balanced(bucket)
  /\ \A p \in Takers : taker[p].now <= clock /\ Computed(taker[p])

USE BucketAssumption

-----------------------------------------------------------------------------
(***************************************************************************)
(* Arithmetic.                                                             *)
(***************************************************************************)
\* A quotient times its divisor does not exceed the dividend.
LEMMA QuotientBelow ==
  ASSUME NEW n \in Nat
  PROVE  (n \div RefillTime) \in Nat /\ (n \div RefillTime) * RefillTime <= n
  BY Z3

\* What fits a number of times is at most the quotient.
LEMMA QuotientMost ==
  ASSUME NEW n \in Nat, NEW a \in Int, a * RefillTime <= n
  PROVE  a <= n \div RefillTime
  BY Z3

\* Multiplication over a sum of three.
LEMMA Spread ==
  ASSUME NEW a \in Int, NEW b \in Int, NEW c \in Int
  PROVE  RefillTime * (a + b + c) = RefillTime * a + RefillTime * b + c * RefillTime
  BY Z3

-----------------------------------------------------------------------------
(***************************************************************************)
(* One token.                                                              *)
(***************************************************************************)
\* The refill is a number of whole steps, and no more than the time that has
\* passed.
LEMMA StepsPassed ==
  ASSUME NEW b \in Bucket, NEW now \in Nat
  PROVE  /\ Steps(b, now) \in Nat
         /\ now >= b.last => Steps(b, now) * RefillTime <= now - b.last
         /\ now < b.last => Steps(b, now) = 0
  <1>1. CASE now < b.last
    BY <1>1 DEF Steps, Bucket
  <1>2. CASE now >= b.last
    <2>1. now - b.last \in Nat
      BY <1>2 DEF Bucket
    <2>2. Steps(b, now) = (now - b.last) \div RefillTime
      BY <1>2 DEF Steps, Bucket
    <2> QED
      BY <1>2, <2>1, <2>2, QuotientBelow DEF Bucket
  <1> QED
    BY <1>1, <1>2 DEF Bucket

\* Taking a token from a bucket that has one keeps the account.
LEMMA TakenBalanced ==
  ASSUME NEW b \in Bucket, NEW now \in Nat, now <= clock, clock \in Nat,
         born \in Nat, spent \in Nat, Balanced(b), Available(b, now) >= 1
  PROVE  LET n == TakenFrom(b, now) IN
         /\ n \in Bucket
         /\ n.tokens <= Capacity - 1 /\ born <= n.last /\ n.last <= clock
         /\ RefillTime * (n.tokens + spent + 1) <= RefillTime * Capacity + (n.last - born)
  <1> DEFINE k == Steps(b, now)
  <1>1. k \in Nat /\ (now >= b.last => k * RefillTime <= now - b.last)
                  /\ (now < b.last => k = 0)
    BY StepsPassed
  <1>2. /\ b.tokens \in 0..Capacity /\ b.last \in Nat
        /\ b.tokens <= Capacity - 1 /\ born <= b.last /\ b.last <= clock
        /\ RefillTime * (b.tokens + spent) <= RefillTime * Capacity + (b.last - born)
    BY DEF Bucket, Balanced
  <1>3. Available(b, now) = b.tokens + k
    BY DEF Available
  <1>4. k * RefillTime \in Nat
    BY <1>1
  <1>5. RefillTime * (b.tokens + spent) = RefillTime * b.tokens + RefillTime * spent
    BY <1>2, Spread
  <1>6. CASE b.tokens + k >= Capacity
    <2>1. TakenFrom(b, now) = [tokens |-> Capacity - 1, last |-> now]
      BY <1>3, <1>6 DEF TakenFrom
    <2>2. now >= b.last
      BY <1>1, <1>2, <1>6
    <2>3. RefillTime * Capacity <= RefillTime * b.tokens + k * RefillTime
      <3>1. RefillTime * (b.tokens + k) >= RefillTime * Capacity
        BY <1>1, <1>2, <1>6, Z3
      <3>2. RefillTime * (b.tokens + 0 + k) = RefillTime * b.tokens + RefillTime * 0 + k * RefillTime
        BY <1>1, <1>2, Spread
      <3> QED
        BY <3>1, <3>2, <1>1, <1>2
    <2>4. RefillTime * spent <= now - born
      BY <1>1, <1>2, <1>5, <2>2, <2>3
    <2>5. RefillTime * (Capacity - 1 + spent + 1) = RefillTime * Capacity + RefillTime * spent
      BY <1>2, Spread
    <2> QED
      BY <1>2, <2>1, <2>2, <2>4, <2>5 DEF Bucket
  <1>7. CASE ~(b.tokens + k >= Capacity)
    <2>1. TakenFrom(b, now) = [tokens |-> (b.tokens + k) - 1, last |-> b.last + k * RefillTime]
      <3>1. ~(Available(b, now) >= Capacity)
        BY <1>3, <1>7
      <3>2. TakenFrom(b, now) = [tokens |-> Available(b, now) - 1,
                                 last |-> b.last + Steps(b, now) * RefillTime]
        BY <3>1, Zenon DEF TakenFrom
      <3> QED
        BY <3>2 DEF Available
    <2>2. b.last + k * RefillTime <= clock
      BY <1>1, <1>2
    <2>3. RefillTime * (b.tokens + k - 1 + spent + 1)
            = RefillTime * b.tokens + RefillTime * spent + k * RefillTime
      <3>1. b.tokens + k - 1 + spent + 1 = b.tokens + spent + k
        BY <1>1, <1>2
      <3>2. RefillTime * (b.tokens + spent + k)
              = RefillTime * b.tokens + RefillTime * spent + k * RefillTime
        <4>1. b.tokens \in Int /\ spent \in Int /\ k \in Int
          BY <1>1, <1>2
        <4> QED
          BY <4>1, Spread, Zenon
      <3> QED
        BY <3>1, <3>2
    <2> QED
      BY <1>1, <1>2, <1>3, <1>4, <1>5, <1>7, <2>1, <2>2, <2>3 DEF Bucket
  <1> QED
    BY <1>6, <1>7

-----------------------------------------------------------------------------
(***************************************************************************)
(* The invariant.                                                          *)
(***************************************************************************)
LEMMA TakerType ==
  ASSUME BucketTypeOK, NEW p \in Takers
  PROVE  /\ taker[p] \in Taker
         /\ taker[p].now \in 0..MaxTime /\ taker[p].tries \in 0..Attempts
         /\ taker[p].seen \in Bucket \cup {NoBucket}
  BY DEF BucketTypeOK, Taker

\* A state of an invocation, from its parts.
LEMMA AtType ==
  ASSUME NEW pc \in {"idle", "begin", "read", "write", "took", "refused"},
         NEW now \in 0..MaxTime, NEW seen \in Bucket \cup {NoBucket}, NEW tries \in 0..Attempts
  PROVE  /\ At(pc, now, seen, tries) \in Taker
         /\ At(pc, now, seen, tries).now = now /\ At(pc, now, seen, tries).pc = pc
         /\ At(pc, now, seen, tries).seen = seen /\ At(pc, now, seen, tries).tries = tries
  BY DEF At, Taker

\* States in which nothing has been computed.
LEMMA Plain ==
  ASSUME NEW pc \in {"idle", "begin", "read", "took", "refused"}, NEW now \in 0..MaxTime,
         NEW tries \in 0..Attempts, pc \in {"begin", "read"} => tries < Attempts
  PROVE  /\ At(pc, now, NoBucket, tries) \in Taker
         /\ At(pc, now, NoBucket, tries).now = now
         /\ Computed(At(pc, now, NoBucket, tries))
  <1> DEFINE t == At(pc, now, NoBucket, tries)
  <1>1. t \in Taker /\ t.now = now /\ t.pc = pc /\ t.seen = NoBucket /\ t.tries = tries
    BY DEF At, Taker
  <1> HIDE DEF t
  <1>2. Computed(t)
    BY <1>1 DEF Computed
  <1> QED
    BY <1>1, <1>2 DEF t

LEMMA BucketInitially == BucketInit => BucketIInv
  <1> SUFFICES ASSUME BucketInit PROVE BucketIInv
    OBVIOUS
  <1>1. BucketTypeOK
    BY Plain DEF BucketInit, BucketTypeOK, Resting
  <1>2. \A p \in Takers : taker[p].now <= clock /\ Computed(taker[p])
    <2>1. Resting.now = 0 /\ Computed(Resting)
      BY Plain DEF Resting
    <2>2. ASSUME NEW p \in Takers PROVE taker[p] = Resting
      BY DEF BucketInit
    <2>3. 0 <= clock
      BY DEF BucketInit
    <2> QED
      BY <2>1, <2>2, <2>3, Zenon
  <1> QED
    BY <1>1, <1>2 DEF BucketIInv, BucketInit

\* An invocation that changes nothing but what it has read itself.
LEMMA TakerMoves ==
  ASSUME BucketIInv, NEW p \in Takers, NEW t \in Taker,
         Move(p, t), UNCHANGED <<clock, bucket, spent, born>>,
         t.now <= clock, Computed(t)
  PROVE  BucketIInv'
  <1>1. taker' \in [Takers -> Taker] /\ taker' = [taker EXCEPT ![p] = t]
    BY DEF BucketIInv, BucketTypeOK, Move
  <1>2. BucketTypeOK'
    BY <1>1 DEF BucketIInv, BucketTypeOK
  <1>3. (IF bucket = NoBucket THEN spent = 0 ELSE Balanced(bucket))'
    BY DEF BucketIInv, Balanced
  <1>4. \A q \in Takers : taker'[q].now <= clock /\ Computed(taker'[q])
    BY <1>1 DEF BucketIInv, BucketTypeOK
  <1> QED
    BY <1>2, <1>3, <1>4 DEF BucketIInv, Computed, Available, Steps

LEMMA AskKeeps == ASSUME BucketIInv, NEW p \in Takers, Ask(p) PROVE BucketIInv'
  <1> DEFINE t == At("begin", 0, NoBucket, 0)
  <1>1. Move(p, t) /\ UNCHANGED <<clock, bucket, spent, born>>
    BY DEF Ask
  <1>2. t \in Taker /\ t.now = 0 /\ Computed(t)
    BY Plain
  <1>3. 0 <= clock
    BY DEF BucketIInv, BucketTypeOK
  <1> QED
    BY <1>1, <1>2, <1>3, TakerMoves

LEMMA LeaveKeeps == ASSUME BucketIInv, NEW p \in Takers, Leave(p) PROVE BucketIInv'
  <1> DEFINE t == At("idle", 0, NoBucket, 0)
  <1>1. Move(p, t) /\ UNCHANGED <<clock, bucket, spent, born>>
    BY DEF Leave, Resting
  <1>2. t \in Taker /\ t.now = 0 /\ Computed(t)
    BY Plain
  <1>3. 0 <= clock
    BY DEF BucketIInv, BucketTypeOK
  <1> QED
    BY <1>1, <1>2, <1>3, TakerMoves

LEMMA LookAtClockKeeps == ASSUME BucketIInv, NEW p \in Takers, LookAtClock(p) PROVE BucketIInv'
  <1> DEFINE t == At("read", clock, NoBucket, taker[p].tries)
  <1>1. Move(p, t) /\ UNCHANGED <<clock, bucket, spent, born>> /\ taker[p].pc = "begin"
    BY DEF LookAtClock
  <1>2. taker[p].tries < Attempts /\ taker[p].tries \in 0..Attempts /\ clock \in 0..MaxTime
    BY <1>1, TakerType DEF BucketIInv, Computed, BucketTypeOK
  <1>3. t \in Taker /\ t.now = clock /\ Computed(t)
    BY <1>2, Plain
  <1>4. clock <= clock
    BY <1>2
  <1> QED
    BY <1>1, <1>3, <1>4, TakerMoves

\* An invocation that is refused, by an empty bucket or for lack of attempts.
LEMMA Refused ==
  ASSUME BucketIInv, NEW p \in Takers, Move(p, At("refused", 0, NoBucket, 0)),
         UNCHANGED <<clock, bucket, spent, born>>
  PROVE  BucketIInv'
  <1> DEFINE t == At("refused", 0, NoBucket, 0)
  <1>1. t \in Taker /\ t.now = 0 /\ Computed(t)
    BY Plain
  <1>2. 0 <= clock
    BY DEF BucketIInv, BucketTypeOK
  <1> QED
    BY <1>1, <1>2, TakerMoves

LEMMA ReadBucketKeeps == ASSUME BucketIInv, NEW p \in Takers, ReadBucket(p) PROVE BucketIInv'
  <1> DEFINE now == taker[p].now
             tries == taker[p].tries
             t == At("write", now, bucket, tries)
  <1>1. taker[p].pc = "read" /\ UNCHANGED <<clock, bucket, spent, born>>
    BY DEF ReadBucket
  <1>2. /\ tries < Attempts /\ tries \in 0..Attempts /\ now \in 0..MaxTime /\ now <= clock
        /\ bucket \in Bucket \cup {NoBucket}
    BY <1>1, TakerType DEF BucketIInv, Computed, BucketTypeOK
  <1>3. CASE bucket # NoBucket /\ Available(bucket, now) < 1
    BY <1>1, <1>3, Refused DEF ReadBucket
  <1>4. CASE ~(bucket # NoBucket /\ Available(bucket, now) < 1)
    <2>1. Move(p, t)
      BY <1>4 DEF ReadBucket
    <2>2. bucket # NoBucket => Available(bucket, now) \in Int
      BY <1>2, StepsPassed DEF Available, Bucket
    <2>3. bucket # NoBucket => Available(bucket, now) >= 1
      BY <1>4, <2>2
    <2>4. t \in Taker /\ t.now = now /\ t.seen = bucket /\ t.tries = tries
      BY <1>2, AtType
    <2> HIDE DEF t, now, tries
    <2>5. Computed(t)
      BY <1>2, <2>3, <2>4 DEF Computed
    <2> QED
      BY <1>1, <1>2, <2>1, <2>4, <2>5, TakerMoves
  <1> QED
    BY <1>3, <1>4

\* A lost write changes nothing but the number of attempts.
LEMMA AgainKeeps ==
  ASSUME BucketIInv, NEW p \in Takers, taker[p].pc = "write", Again(p), UNCHANGED clock
  PROVE  BucketIInv'
  <1> DEFINE tries == taker[p].tries + 1
             t == At("begin", 0, NoBucket, tries)
  <1>1. taker[p].tries < Attempts /\ tries \in 0..Attempts /\ clock \in 0..MaxTime
    BY TakerType DEF BucketIInv, Computed, BucketTypeOK
  <1>2. UNCHANGED <<clock, bucket, spent, born>>
    BY DEF Again
  <1>3. CASE tries = Attempts
    BY <1>2, <1>3, Refused DEF Again
  <1>4. CASE tries # Attempts
    <2>1. Move(p, t)
      BY <1>4 DEF Again
    <2>2. tries < Attempts
      BY <1>1, <1>4
    <2>3. t \in Taker /\ t.now = 0 /\ Computed(t)
      BY <1>1, <2>2, Plain
    <2>4. 0 <= clock
      BY <1>1
    <2> QED
      BY <1>2, <2>1, <2>3, <2>4, TakerMoves
  <1> QED
    BY <1>3, <1>4

\* What remains of the invariant once a token has been written.
LEMMA Written ==
  ASSUME BucketIInv, NEW p \in Takers, Move(p, At("took", 0, NoBucket, 0)), UNCHANGED clock,
         bucket' \in Bucket, spent' \in Nat, born' \in 0..MaxTime, Balanced(bucket)'
  PROVE  BucketIInv'
  <1> DEFINE t == At("took", 0, NoBucket, 0)
  <1>1. t \in Taker /\ t.now = 0 /\ Computed(t)
    BY Plain
  <1>2. taker' \in [Takers -> Taker] /\ taker' = [taker EXCEPT ![p] = t]
    BY <1>1 DEF BucketIInv, BucketTypeOK, Move
  <1>3. BucketTypeOK'
    BY <1>2 DEF BucketIInv, BucketTypeOK
  <1>4. bucket' # NoBucket
    BY DEF Bucket
  <1>5. 0 <= clock
    BY DEF BucketIInv, BucketTypeOK
  <1>6. \A q \in Takers : taker'[q].now <= clock /\ Computed(taker'[q])
    BY <1>1, <1>2, <1>5 DEF BucketIInv, BucketTypeOK
  <1> QED
    BY <1>3, <1>4, <1>6 DEF BucketIInv, Computed, Available, Steps

LEMMA WriteKeeps == ASSUME BucketIInv, NEW p \in Takers, Write(p) PROVE BucketIInv'
  <1> DEFINE b == taker[p].seen
             now == taker[p].now
             n == TakenFrom(b, now)
  <1>1. taker[p].pc = "write" /\ b # NoBucket /\ UNCHANGED clock
    BY DEF Write
  <1>2. CASE bucket = b
    <2>1. /\ bucket' = n /\ spent' = spent + 1 /\ born' = born
          /\ Move(p, At("took", 0, NoBucket, 0))
      BY <1>2 DEF Write
    <2>2. /\ b \in Bucket /\ now \in Nat /\ now <= clock /\ clock \in Nat /\ born \in Nat
          /\ spent \in Nat /\ Balanced(b) /\ Available(b, now) >= 1
      BY <1>1, <1>2, TakerType DEF BucketIInv, BucketTypeOK, Computed
    <2> HIDE DEF b, now
    <2>3. /\ n \in Bucket
          /\ n.tokens <= Capacity - 1 /\ born <= n.last /\ n.last <= clock
          /\ RefillTime * (n.tokens + spent + 1) <= RefillTime * Capacity + (n.last - born)
      BY <2>2, TakenBalanced
    <2> HIDE DEF n
    <2>4. n.tokens + (spent + 1) = n.tokens + spent + 1
      BY <2>2, <2>3 DEF Bucket
    <2>5. Balanced(bucket)'
      BY <1>1, <2>1, <2>3, <2>4 DEF Balanced
    <2>6. spent' \in Nat /\ born' \in 0..MaxTime
      BY <2>1 DEF BucketIInv, BucketTypeOK
    <2> QED
      BY <1>1, <2>1, <2>3, <2>5, <2>6, Written
  <1>3. CASE bucket # b
    <2>1. Again(p)
      BY <1>3 DEF Write
    <2> QED
      BY <1>1, <2>1, AgainKeeps
  <1> QED
    BY <1>2, <1>3

LEMMA CreateKeeps == ASSUME BucketIInv, NEW p \in Takers, Create(p) PROVE BucketIInv'
  <1>1. taker[p].pc = "write" /\ UNCHANGED clock
    BY DEF Create
  <1>2. CASE bucket = NoBucket
    <2>1. /\ bucket' = [tokens |-> Capacity - 1, last |-> taker[p].now]
          /\ spent' = 1 /\ born' = taker[p].now /\ Move(p, At("took", 0, NoBucket, 0))
      BY <1>2 DEF Create
    <2>2. taker[p].now \in 0..MaxTime /\ taker[p].now <= clock
      BY TakerType DEF BucketIInv
    <2>3. bucket' \in Bucket
      BY <2>1, <2>2 DEF Bucket
    <2>4. RefillTime * (Capacity - 1 + 1) = RefillTime * Capacity
      OBVIOUS
    <2>5. RefillTime * Capacity \in Nat
      OBVIOUS
    <2>6. Balanced(bucket)'
      BY <1>1, <2>1, <2>2, <2>4, <2>5 DEF Balanced, BucketIInv, BucketTypeOK
    <2> QED
      BY <1>1, <2>1, <2>2, <2>3, <2>6, Written
  <1>3. CASE bucket # NoBucket
    <2>1. Again(p)
      BY <1>3 DEF Create
    <2> QED
      BY <1>1, <2>1, AgainKeeps
  <1> QED
    BY <1>2, <1>3

LEMMA ClockTicksKeeps == ASSUME BucketIInv, ClockTicks PROVE BucketIInv'
  <1>1. /\ clock' = clock + 1 /\ clock < MaxTime /\ UNCHANGED <<bucket, taker, spent, born>>
    BY DEF ClockTicks
  <1>2. BucketTypeOK'
    BY <1>1 DEF BucketIInv, BucketTypeOK
  <1>3. \A p \in Takers : (taker[p].now <= clock)' /\ Computed(taker'[p])
    <2> SUFFICES ASSUME NEW p \in Takers PROVE (taker[p].now <= clock)' /\ Computed(taker'[p])
      OBVIOUS
    <2>1. taker[p].now \in Nat /\ clock \in Nat
      BY TakerType DEF BucketIInv, BucketTypeOK
    <2> QED
      BY <1>1, <2>1 DEF BucketIInv
  <1>4. (IF bucket = NoBucket THEN spent = 0 ELSE Balanced(bucket))'
    <2>1. CASE bucket = NoBucket
      BY <1>1, <2>1 DEF BucketIInv
    <2>2. CASE bucket # NoBucket
      <3>1. Balanced(bucket) /\ bucket.last \in Nat /\ clock \in Nat
        BY <2>2 DEF BucketIInv, BucketTypeOK, Bucket
      <3> QED
        BY <1>1, <2>2, <3>1 DEF Balanced
    <2> QED
      BY <2>1, <2>2
  <1> QED
    BY <1>2, <1>3, <1>4 DEF BucketIInv, Computed, Available, Steps

LEMMA BucketStep == BucketIInv /\ [BucketNext]_bucketVars => BucketIInv'
  <1> SUFFICES ASSUME BucketIInv, [BucketNext]_bucketVars PROVE BucketIInv'
    OBVIOUS
  <1>1. CASE ClockTicks
    BY <1>1, ClockTicksKeeps
  <1>2. ASSUME NEW p \in Takers, Ask(p) \/ TakeToken(p) \/ Leave(p)
        PROVE  BucketIInv'
    BY <1>2, AskKeeps, LeaveKeeps, LookAtClockKeeps, ReadBucketKeeps, WriteKeeps, CreateKeeps DEF TakeToken
  <1>3. CASE UNCHANGED bucketVars
    BY <1>3 DEF bucketVars, BucketIInv, BucketTypeOK, Balanced, Computed, Available, Steps
  <1> QED
    BY <1>1, <1>2, <1>3 DEF BucketNext

\* The account implies the rate.
LEMMA RateFromBalance == BucketIInv => SpentWithinRate
  <1> SUFFICES ASSUME BucketIInv, spent > 0
               PROVE  spent <= Capacity + ((clock - born) \div RefillTime)
    BY DEF SpentWithinRate
  <1>1. /\ bucket \in Bucket /\ Balanced(bucket) /\ spent \in Nat /\ clock \in Nat /\ born \in Nat
    BY DEF BucketIInv, BucketTypeOK
  <1>2. /\ bucket.tokens \in Nat /\ bucket.last \in Nat
        /\ born <= bucket.last /\ bucket.last <= clock
        /\ RefillTime * (bucket.tokens + spent) <= RefillTime * Capacity + (bucket.last - born)
    BY <1>1 DEF Bucket, Balanced
  <1>3. clock - born \in Nat
    BY <1>1, <1>2
  <1> DEFINE t == bucket.tokens
  <1> HIDE DEF t
  <1>4. RefillTime * (t + spent) = RefillTime * t + RefillTime * spent
    BY <1>1, <1>2, Spread DEF t
  <1>5. RefillTime * t \in Nat
    BY <1>2 DEF t
  <1>6. RefillTime * spent - RefillTime * Capacity <= clock - born
    BY <1>1, <1>2, <1>4, <1>5 DEF t
  <1>7. (spent - Capacity) * RefillTime = RefillTime * spent - RefillTime * Capacity
    BY <1>1, Z3
  <1>8. spent - Capacity <= (clock - born) \div RefillTime
    BY <1>1, <1>3, <1>6, <1>7, QuotientMost
  <1>9. (clock - born) \div RefillTime \in Nat
    BY <1>3, QuotientBelow
  <1> QED
    BY <1>1, <1>8, <1>9

\* The bucket keeps its type for every capacity and rate, and every number of
\* invocations.
THEOREM BucketTypeCorrect == BucketSpec => []BucketTypeOK
  <1>1. BucketIInv => BucketTypeOK
    BY DEF BucketIInv
  <1> QED
    BY <1>1, BucketInitially, BucketStep, PTL DEF BucketSpec

\* Concurrent invocations never take more tokens than the capacity and the time
\* allow: takeToken's conditional write on the level and the instant is enough,
\* whatever the order of reads and writes and however old the clocks.
THEOREM RateHolds == BucketSpec => []SpentWithinRate
  BY BucketInitially, BucketStep, RateFromBalance, PTL DEF BucketSpec

-----------------------------------------------------------------------------
USE GateAssumption

(***************************************************************************)
(* The invariant of the gate.                                              *)
(***************************************************************************)
GatePcs == {"idle", "bucket", "usage", "burn", "anchor", "suspend", "count", "mint", "record",
            "release", "upgrade", "recheck", "redeem"}
GateWork == [pc : GatePcs, sid : Sids \cup {NoSid}, kind : Kinds \cup {"turn"}, now : 0..MaxTime,
             day : 0..MaxUsed, after : 0..MaxTime]
Slot == [exp : 0..MaxTime + SessionCap, redeemed : BOOLEAN]
Hours == 1..HourOf(MaxTime)
Times == 0..MaxTime

GateTyped == gate \in [Takers -> GateWork]
SlotsTyped ==
  /\ slot \in [Sids -> Slot] /\ opened \in [Sids -> Nat]
  /\ issued \subseteq Sids \X (0..MaxTime) /\ (issued # {} => "bridge" \in Kinds)
ProfileTyped == status \in {"active", "suspended"} /\ validAfter \in 0..MaxTime
MeterTyped ==
  /\ used \in 0..MaxUsed /\ anchors \subseteq [hour : 0..HourOf(MaxTime), start : 0..MaxUsed]
  /\ usedAt \in [Times -> 0..MaxUsed]
GateTyping == BucketTypeOK /\ GateTyped /\ SlotsTyped /\ ProfileTyped /\ MeterTyped

\* The session of a mint is new, and nobody else has it.
Mints(p) == gate[p].pc \in {"mint", "record"}
MintOK(p) ==
  LET s == gate[p].sid IN
  Mints(p) =>
    /\ s \in Sids /\ slot[s] = NoSlot /\ opened[s] = 0
    /\ \A i \in issued : i[1] # s
    /\ \A q \in Takers \ {p} : gate[q].sid # s
HoldOK(p) == gate[p].pc \in {"release", "upgrade", "recheck", "redeem"} => gate[p].sid \in Sids

\* A slot that can be redeemed has not been.
SlotOK(s) == slot[s].exp > 0 /\ ~slot[s].redeemed => opened[s] = 0

SlotsInv ==
  /\ \A p \in Takers : MintOK(p) /\ HoldOK(p)
  /\ \A s \in Sids : SlotOK(s)

\* Instants that were read are past; a session that is let in was issued after
\* the cut-off that was read last.
TimesOK(p) ==
  /\ gate[p].now <= clock /\ gate[p].after <= validAfter
  /\ gate[p].pc = "redeem" => gate[p].now >= gate[p].after

TimesInv ==
  /\ validAfter <= clock /\ \A i \in issued : i[2] <= clock
  /\ \A p \in Takers : TimesOK(p)

\* What a reading of the hour of t can be as low as.
Begun(t) == usedAt[Before(HourBegins(t))]

\* What was read of the day's tokens, and what any anchor holds, is no less than
\* that for the hour it was read in.
ReadOK(p) ==
  /\ gate[p].pc \in {"burn", "anchor", "suspend"} => Begun(gate[p].now) <= gate[p].day
  /\ gate[p].pc = "suspend" => gate[p].day - Begun(gate[p].now) > BurnLimit

\* The day's tokens only grow.
UsedGrows ==
  /\ \A t \in Times : usedAt[t] <= used
  /\ \A t, u \in Times : t <= u /\ u <= clock => usedAt[t] <= usedAt[u]

AnchorsOK ==
  \A a \in anchors, t \in Times :
    a.hour = HourOf(t) => HourBegins(t) <= clock /\ Begun(t) <= a.start

MeterInv == UsedGrows /\ AnchorsOK /\ \A p \in Takers : ReadOK(p)

\* The live sessions, and those that are about to be.
Minting == {s \in Sids : \E p \in Takers : Mints(p) /\ gate[p].sid = s}
Coming == LiveAt(clock) \cup Minting
RoomInv == Cardinality(Coming) <= MaxConcurrent + Cardinality(Takers) - 1

GateIInv == BucketIInv /\ GateTyping /\ SlotsInv /\ TimesInv /\ MeterInv /\ RoomInv

-----------------------------------------------------------------------------
(***************************************************************************)
(* Hours.                                                                  *)
(***************************************************************************)
LEMMA QuotientFits ==
  ASSUME NEW n \in Nat
  PROVE  /\ (n \div HourLength) \in Nat /\ (n \div HourLength) * HourLength <= n
         /\ n < (n \div HourLength) * HourLength + HourLength
  BY Z3

LEMMA HourTyped ==
  ASSUME NEW t \in Nat
  PROVE  HourOf(t) \in Nat \ {0}
  BY QuotientFits DEF HourOf

LEMMA HoursGrow ==
  ASSUME NEW t \in Nat, NEW u \in Nat, t <= u
  PROVE  HourOf(t) <= HourOf(u)
  <1> DEFINE a == t \div HourLength
             b == u \div HourLength
  <1>1. /\ a \in Nat /\ b \in Nat /\ a * HourLength <= t /\ u < b * HourLength + HourLength
    BY QuotientFits
  <1> HIDE DEF a, b
  <1>2. a * HourLength < b * HourLength + HourLength
    <2>1. a * HourLength \in Nat /\ b * HourLength \in Nat
      BY <1>1
    <2> QED
      BY <1>1, <2>1
  <1>3. ~(a >= b + 1)
    <2> SUFFICES ASSUME a >= b + 1 PROVE FALSE
      OBVIOUS
    <2>1. a * HourLength >= (b + 1) * HourLength
      BY <1>1, Z3
    <2>2. (b + 1) * HourLength = b * HourLength + HourLength
      BY <1>1, Z3
    <2>3. a * HourLength \in Nat /\ b * HourLength \in Nat
      BY <1>1
    <2> QED
      BY <1>2, <2>1, <2>2, <2>3
  <1>4. a <= b
    BY <1>1, <1>3
  <1> QED
    BY <1>1, <1>4 DEF HourOf, a, b

LEMMA HourInHours ==
  ASSUME NEW t \in 0..MaxTime
  PROVE  HourOf(t) \in Hours /\ HourOf(t) \in Nat \ {0} /\ HourOf(MaxTime) \in Nat \ {0}
  <1>1. t \in Nat /\ MaxTime \in Nat /\ t <= MaxTime
    BY BucketAssumption
  <1> QED
    BY <1>1, HourTyped, HoursGrow DEF Hours

\* The instants that a reading goes back to.
LEMMA HourTimes ==
  ASSUME NEW t \in Times
  PROVE  /\ HourBegins(t) \in Times /\ HourBegins(t) <= t
         /\ Before(t) \in Times /\ Before(t) <= t
         /\ Before(HourBegins(t)) \in Times /\ Before(HourBegins(t)) <= HourBegins(t)
         /\ Before(HourBegins(t)) <= Before(t)
  <1>1. t \in Nat /\ MaxTime \in Nat /\ t <= MaxTime
    BY BucketAssumption DEF Times
  <1> DEFINE a == t \div HourLength
  <1>2. a \in Nat /\ a * HourLength <= t
    BY <1>1, QuotientFits
  <1>3. HourBegins(t) = a * HourLength
    BY DEF HourBegins
  <1> HIDE DEF a
  <1>4. a * HourLength \in Nat
    BY <1>2
  <1>5. HourBegins(t) \in Nat /\ HourBegins(t) <= t
    BY <1>2, <1>3, <1>4
  <1> QED
    BY <1>1, <1>5 DEF Before, Times

LEMMA HourOne ==
  ASSUME NEW t \in Times, NEW u \in Times, HourOf(t) = HourOf(u)
  PROVE  HourBegins(t) = HourBegins(u)
  <1>1. t \in Nat /\ u \in Nat
    BY BucketAssumption DEF Times
  <1> DEFINE a == t \div HourLength
             b == u \div HourLength
  <1>2. a \in Nat /\ b \in Nat
    BY <1>1, QuotientFits
  <1>3. 1 + a = 1 + b
    BY DEF HourOf
  <1>4. HourBegins(t) = a * HourLength /\ HourBegins(u) = b * HourLength
    BY DEF HourBegins
  <1> HIDE DEF a, b
  <1>5. a = b
    BY <1>2, <1>3
  <1> QED
    BY <1>4, <1>5

-----------------------------------------------------------------------------
(***************************************************************************)
(* How an invocation moves on.                                             *)
(***************************************************************************)
\* p becomes k, and the others stay as they are.
GateMoves(p, k) ==
  /\ k \in GateWork /\ gate'[p] = k
  /\ \A q \in Takers \ {p} : gate'[q] = gate[q]

LEMMA GateSet ==
  ASSUME GateTyped, NEW p \in Takers, NEW k \in GateWork, gate' = [gate EXCEPT ![p] = k]
  PROVE  GateMoves(p, k) /\ GateTyped'
  BY DEF GateTyped, GateMoves

LEMMA GateRead == ASSUME GateTyped, NEW p \in Takers PROVE gate[p] \in GateWork
  BY DEF GateTyped

LEMMA OutTyped ==
  /\ Out \in GateWork /\ Out.pc = "idle" /\ Out.sid = NoSid /\ Out.now = 0 /\ Out.after = 0
  BY BucketAssumption DEF Out, GateWork, GatePcs

\* p goes on to pc, and knows no more than before.
GoesOn(p, pc) ==
  \E k : /\ GateMoves(p, k) /\ k.pc = pc /\ k.sid = gate[p].sid /\ k.now = gate[p].now
         /\ k.day = gate[p].day /\ k.after = gate[p].after

LEMMA GoOnMoves ==
  ASSUME GateTyped, NEW p \in Takers, NEW pc \in GatePcs, GoOn(p, pc)
  PROVE  GateTyped' /\ GoesOn(p, pc)
  <1> DEFINE k == [gate[p] EXCEPT !.pc = pc]
  <1>1. /\ k \in GateWork /\ k.pc = pc /\ k.sid = gate[p].sid /\ k.now = gate[p].now
        /\ k.day = gate[p].day /\ k.after = gate[p].after
    BY GateRead DEF GateWork
  <1>2. gate' = [gate EXCEPT ![p] = k]
    BY DEF GoOn
  <1> HIDE DEF k
  <1> QED
    BY <1>1, <1>2, GateSet DEF GoesOn

\* p leaves.
Leaves(p) == \E k : GateMoves(p, k) /\ k.pc = "idle" /\ k.sid = NoSid /\ k.now = 0 /\ k.after = 0

LEMMA RefuseMoves ==
  ASSUME GateTyped, NEW p \in Takers, Refuse(p)
  PROVE  GateTyped' /\ Leaves(p)
  BY GateSet, OutTyped DEF Refuse, Leaves

-----------------------------------------------------------------------------
(***************************************************************************)
(* The parts of the invariant.                                             *)
(***************************************************************************)
\* p holds a session it had, one that has a token, or none; and begins no mint.
SidKept(p) ==
  /\ gate'[p].sid \in {NoSid, gate[p].sid} \/ \E i \in issued : gate'[p].sid = i[1]
  /\ gate'[p].pc \in {"mint", "record"} => Mints(p) /\ gate'[p].sid = gate[p].sid
  /\ gate'[p].pc \in {"release", "upgrade", "recheck", "redeem"} => gate'[p].sid \in Sids

LEMMA SlotsRest ==
  ASSUME GateTyping, SlotsInv, UNCHANGED <<sessions, opened>>,
         \A p \in Takers : gate'[p] = gate[p] \/ SidKept(p)
  PROVE  SlotsInv'
  <1>1. ASSUME NEW p \in Takers PROVE MintOK(p)'
    <2> SUFFICES ASSUME Mints(p)' PROVE MintOK(p)'
      BY DEF MintOK
    <2>1. Mints(p) /\ gate'[p].sid = gate[p].sid
      BY DEF Mints, SidKept
    <2>2. MintOK(p)
      BY DEF SlotsInv
    <2>3. gate[p].sid \in Sids /\ NoSid \notin Sids
      BY <2>1, <2>2 DEF MintOK
    <2>4. ASSUME NEW q \in Takers \ {p} PROVE gate'[q].sid # gate'[p].sid
      <3>1. gate[q].sid # gate[p].sid
        BY <2>1, <2>2 DEF MintOK
      <3>2. \A i \in issued : i[1] # gate[p].sid
        BY <2>1, <2>2 DEF MintOK
      <3>3. gate'[q] = gate[q] \/ SidKept(q)
        OBVIOUS
      <3> QED
        BY <2>1, <2>3, <3>1, <3>2, <3>3 DEF SidKept
    <2> QED
      BY <2>1, <2>2, <2>4 DEF MintOK, sessions
  <1>2. ASSUME NEW p \in Takers PROVE HoldOK(p)'
    BY DEF SlotsInv, HoldOK, SidKept
  <1>3. \A s \in Sids : SlotOK(s)'
    BY DEF SlotsInv, SlotOK, sessions
  <1> QED
    BY <1>1, <1>2, <1>3 DEF SlotsInv

\* The bound holds where no session comes.
LEMMA RoomRest ==
  ASSUME RoomInv, Coming' \subseteq Coming
  PROVE  RoomInv'
  <1>1. IsFiniteSet(Coming)
    <2>1. Coming \in SUBSET Sids
      BY DEF Coming, LiveAt, Minting
    <2> QED
      BY <2>1, FS_Subset
  <1>2. Cardinality(Coming') <= Cardinality(Coming)
    BY <1>1, FS_Subset
  <1>3. /\ Cardinality(Coming') \in Nat /\ Cardinality(Coming) \in Nat
        /\ Cardinality(Takers) \in Nat
    BY <1>1, FS_Subset, FS_CardinalityType
  <1> QED
    BY <1>2, <1>3 DEF RoomInv

LEMMA RoomQuiet ==
  ASSUME GateTyping, RoomInv, UNCHANGED <<slot, clock>>,
         \A p \in Takers : gate'[p] = gate[p] \/ SidKept(p)
  PROVE  RoomInv'
  <1>1. LiveAt(clock)' = LiveAt(clock)
    BY DEF LiveAt
  <1>2. Minting' \subseteq Minting
    BY DEF Minting, Mints, SidKept
  <1> QED
    BY <1>1, <1>2, RoomRest DEF Coming

\* There are no more sessions than invocations that hold them.
LEMMA SidsOfTakers ==
  ASSUME NEW S \in SUBSET Sids, NEW f, \A x \in S : \E q \in Takers : f[q].sid = x
  PROVE  IsFiniteSet(S) /\ Cardinality(S) <= Cardinality(Takers)
  <1> DEFINE W == {q \in Takers : f[q].sid \in S}
             g == [q \in W |-> f[q].sid]
  <1>1. /\ IsFiniteSet(W) /\ Cardinality(W) <= Cardinality(Takers)
        /\ Cardinality(W) \in Nat /\ Cardinality(Takers) \in Nat
    BY FS_Subset, FS_CardinalityType
  <1>2. g \in Surjection(W, S)
    <2>1. g \in [W -> S]
      OBVIOUS
    <2>2. ASSUME NEW x \in S PROVE \E q \in W : g[q] = x
      <3>1. PICK q \in Takers : f[q].sid = x
        OBVIOUS
      <3>2. q \in W /\ g[q] = x
        BY <3>1
      <3> QED
        BY <3>2
    <2> HIDE DEF g, W
    <2> QED
      BY <2>1, <2>2 DEF Surjection
  <1>3. IsFiniteSet(S) /\ Cardinality(S) <= Cardinality(W)
    BY <1>1, <1>2, FS_Surjection
  <1>4. Cardinality(S) \in Nat
    BY <1>3, FS_CardinalityType
  <1> QED
    BY <1>1, <1>3, <1>4

LEMMA TimesRest ==
  ASSUME GateTyping, TimesInv, UNCHANGED <<clock, validAfter, issued>>,
         \A p \in Takers : gate'[p] = gate[p] \/ TimesOK(p)'
  PROVE  TimesInv'
  BY DEF TimesInv, TimesOK

LEMMA MeterRest ==
  ASSUME GateTyping, MeterInv, UNCHANGED <<clock, anchors, usedAt, used>>,
         \A p \in Takers : gate'[p] = gate[p] \/ ReadOK(p)'
  PROVE  MeterInv'
  BY DEF MeterInv, UsedGrows, AnchorsOK, ReadOK, Begun

-----------------------------------------------------------------------------
(***************************************************************************)
(* Every step keeps the invariant.                                         *)
(***************************************************************************)
LEMMA BucketKept ==
  ASSUME GateIInv, [BucketNext]_bucketVars
  PROVE  BucketIInv' /\ BucketTypeOK'
  <1>1. BucketIInv'
    BY BucketStep DEF GateIInv
  <1> QED
    BY <1>1 DEF BucketIInv

\* A step that changes nothing but what invocations do, and begins no mint.
LEMMA GateQuiet ==
  ASSUME GateIInv, [BucketNext]_bucketVars, UNCHANGED clock, GateTyped',
         UNCHANGED <<profile, meter, sessions, opened>>,
         \A q \in Takers : gate'[q] = gate[q] \/ (SidKept(q) /\ TimesOK(q)' /\ ReadOK(q)')
  PROVE  GateIInv'
  <1>1. GateTyping'
    BY BucketKept DEF GateIInv, GateTyping, SlotsTyped, ProfileTyped, MeterTyped, profile, meter,
                      sessions
  <1>2. SlotsInv'
    BY SlotsRest DEF GateIInv
  <1>3. TimesInv'
    BY TimesRest DEF GateIInv, profile, sessions
  <1>4. MeterInv'
    BY MeterRest DEF GateIInv, meter
  <1>5. RoomInv'
    BY RoomQuiet DEF GateIInv, sessions
  <1> QED
    BY <1>1, <1>2, <1>3, <1>4, <1>5, BucketKept DEF GateIInv

LEMMA BucketMoves ==
  /\ \A p \in Takers : Ask(p) \/ TakeToken(p) \/ Leave(p) => [BucketNext]_bucketVars /\ clock' = clock
  /\ UNCHANGED bucketVars => [BucketNext]_bucketVars /\ clock' = clock
  BY DEF BucketNext, TakeToken, Ask, LookAtClock, ReadBucket, Write, Create, Leave, bucketVars

\* Facts that the steps below need of an invocation.
LEMMA GateFacts ==
  ASSUME GateIInv, NEW p \in Takers
  PROVE  /\ GateTyped /\ gate[p] \in GateWork /\ TimesOK(p) /\ ReadOK(p) /\ HoldOK(p) /\ MintOK(p)
         /\ clock \in 0..MaxTime /\ clock \in Nat /\ validAfter \in Nat /\ validAfter <= clock
         /\ used \in 0..MaxUsed /\ gate[p].now \in Nat /\ gate[p].day \in Nat
  BY GateRead DEF GateIInv, GateTyping, SlotsInv, TimesInv, MeterInv, ProfileTyped, MeterTyped,
                  BucketTypeOK, GateWork

LEMMA CheckSuspendedStep ==
  ASSUME GateIInv, NEW p \in Takers, NEW kind \in Kinds \cup {"turn"}, CheckSuspended(p, kind)
  PROVE  GateIInv'
  <1> DEFINE k == [Out EXCEPT !.pc = "bucket", !.kind = kind]
  <1>1. /\ k \in GateWork /\ k.pc = "bucket" /\ k.sid = NoSid /\ k.now = 0 /\ k.after = 0
    BY OutTyped DEF GateWork, GatePcs
  <1>2. gate' = [gate EXCEPT ![p] = k] /\ Ask(p) /\ UNCHANGED <<profile, meter, sessions, opened>>
    BY DEF CheckSuspended
  <1> HIDE DEF k
  <1>3. GateMoves(p, k) /\ GateTyped'
    BY <1>1, <1>2, GateFacts, GateSet
  <1>4. [BucketNext]_bucketVars /\ clock' = clock
    BY <1>2, BucketMoves
  <1>5. validAfter' = validAfter
    BY <1>2 DEF profile
  <1>6. SidKept(p) /\ TimesOK(p)' /\ ReadOK(p)'
    BY <1>1, <1>3, <1>4, <1>5, GateFacts DEF SidKept, TimesOK, ReadOK, GateMoves
  <1> QED
    BY <1>2, <1>3, <1>4, <1>6, GateQuiet DEF GateMoves

LEMMA TokenTakenStep ==
  ASSUME GateIInv, NEW p \in Takers, TokenTaken(p)
  PROVE  GateIInv'
  <1> DEFINE n == [gate[p] EXCEPT !.pc = "usage", !.now = clock]
  <1>1. /\ n \in GateWork /\ n.pc = "usage" /\ n.sid = gate[p].sid /\ n.now = clock
        /\ n.after = gate[p].after
    BY GateFacts DEF GateWork, GatePcs
  <1>2. /\ gate' = [gate EXCEPT ![p] = IF gate[p].kind = "turn" THEN Out ELSE n]
        /\ Leave(p) /\ UNCHANGED <<profile, meter, sessions, opened>>
    BY DEF TokenTaken
  <1> HIDE DEF n
  <1>3. PICK k \in {Out, n} : gate' = [gate EXCEPT ![p] = k]
    BY <1>2
  <1>4. GateMoves(p, k) /\ GateTyped'
    BY <1>1, <1>3, GateFacts, GateSet, OutTyped
  <1>5. [BucketNext]_bucketVars /\ clock' = clock /\ validAfter' = validAfter
    BY <1>2, BucketMoves DEF profile
  <1>6. SidKept(p) /\ TimesOK(p)' /\ ReadOK(p)'
    <2>1. k.pc \in {"idle", "usage"} /\ k.sid \in {NoSid, gate[p].sid} /\ k.now <= clock
          /\ k.after <= validAfter
      BY <1>1, <1>3, OutTyped, GateFacts DEF TimesOK
    <2> QED
      BY <2>1, <1>4, <1>5 DEF SidKept, TimesOK, ReadOK, GateMoves
  <1> QED
    BY <1>2, <1>4, <1>5, <1>6, GateQuiet DEF GateMoves

LEMMA ReadUsageStep ==
  ASSUME GateIInv, NEW p \in Takers, ReadUsage(p)
  PROVE  GateIInv'
  <1>1. /\ clock \in Times /\ gate[p].now \in Times /\ gate[p].now <= clock
        /\ usedAt \in [Times -> 0..MaxUsed] /\ used \in 0..MaxUsed
    BY GateFacts DEF GateWork, TimesOK, Times, GateIInv, GateTyping, MeterTyped
  <1>2. PICK day \in usedAt[Before(clock)]..used :
          gate' = [gate EXCEPT ![p] = [@ EXCEPT !.pc = "burn", !.day = day]]
    BY DEF ReadUsage
  <1> DEFINE b == Before(HourBegins(gate[p].now))
             c == Before(clock)
  <1>3. b \in Times /\ c \in Times /\ b <= c /\ c <= clock
    <2>1. /\ HourBegins(gate[p].now) \in Times /\ HourBegins(gate[p].now) <= gate[p].now
          /\ b \in Times /\ c \in Times /\ c <= clock
      BY <1>1, HourTimes
    <2>2. clock \in Nat /\ gate[p].now \in Nat /\ HourBegins(gate[p].now) \in Nat
      BY <1>1, <2>1, BucketAssumption DEF Times
    <2>3. b <= c
      BY <1>1, <2>1, <2>2 DEF Before
    <2> QED
      BY <2>1, <2>3
  <1>4. usedAt[b] <= usedAt[c] /\ usedAt[b] \in 0..MaxUsed /\ usedAt[c] \in 0..MaxUsed
    BY <1>1, <1>3 DEF GateIInv, MeterInv, UsedGrows
  <1>5. day \in 0..MaxUsed /\ usedAt[b] <= day
    BY <1>1, <1>2, <1>4
  <1> DEFINE k == [gate[p] EXCEPT !.pc = "burn", !.day = day]
  <1>6. /\ k \in GateWork /\ k.pc = "burn" /\ k.sid = gate[p].sid /\ k.now = gate[p].now
        /\ k.after = gate[p].after /\ k.day = day
    BY <1>5, GateFacts DEF GateWork, GatePcs
  <1>7. gate' = [gate EXCEPT ![p] = k] /\ UNCHANGED <<bucketVars, profile, meter, sessions, opened>>
    BY <1>2 DEF ReadUsage
  <1> HIDE DEF k
  <1>8. GateMoves(p, k) /\ GateTyped'
    BY <1>6, <1>7, GateFacts, GateSet
  <1>9. [BucketNext]_bucketVars /\ clock' = clock /\ validAfter' = validAfter /\ usedAt' = usedAt
    BY <1>7, BucketMoves DEF profile, meter
  <1>10. SidKept(p) /\ TimesOK(p)'
    BY <1>6, <1>8, <1>9, GateFacts DEF SidKept, TimesOK, GateMoves
  <1>11. ReadOK(p)'
    BY <1>5, <1>6, <1>8, <1>9 DEF ReadOK, Begun, GateMoves
  <1> QED
    BY <1>7, <1>8, <1>9, <1>10, <1>11, GateQuiet DEF GateMoves

LEMMA CheckBurnStep ==
  ASSUME GateIInv, NEW p \in Takers, CheckBurn(p)
  PROVE  GateIInv'
  <1>1. PICK anchor \in anchors :
          GoOn(p, BurnVerdict(p, anchor, anchor.hour = HourOf(gate[p].now)
                                         /\ gate[p].day >= anchor.start))
    BY DEF CheckBurn
  <1> DEFINE fits == anchor.hour = HourOf(gate[p].now) /\ gate[p].day >= anchor.start
  <1>2. PICK pc \in {"anchor", "suspend", "count"} :
          GoOn(p, pc) /\ (pc = "suspend" => fits /\ gate[p].day - anchor.start > BurnLimit)
    BY <1>1 DEF BurnVerdict
  <1>3. gate[p].pc = "burn" /\ UNCHANGED <<bucketVars, profile, meter, sessions, opened>>
    BY DEF CheckBurn
  <1>4. GateTyped' /\ GoesOn(p, pc)
    BY <1>2, GateFacts, GoOnMoves DEF GatePcs
  <1>5. [BucketNext]_bucketVars /\ clock' = clock /\ validAfter' = validAfter /\ usedAt' = usedAt
    BY <1>3, BucketMoves DEF profile, meter
  <1>6. ReadOK(p)'
    <2>1. gate[p].now \in Times
      BY GateFacts DEF GateWork, Times
    <2>2. Begun(gate[p].now) <= gate[p].day
      BY <1>3, GateFacts DEF ReadOK
    <2>3. Begun(gate[p].now) \in Nat /\ anchor.start \in Nat
      BY <1>1, <2>1, HourTimes DEF GateIInv, GateTyping, MeterTyped, Begun
    <2>4. fits => Begun(gate[p].now) <= anchor.start
      BY <1>1, <2>1 DEF GateIInv, MeterInv, AnchorsOK
    <2>5. pc = "suspend" => gate[p].day - Begun(gate[p].now) > BurnLimit
      BY <1>2, <2>3, <2>4, GateFacts
    <2> HIDE DEF fits
    <2>6. gate'[p].now = gate[p].now /\ gate'[p].day = gate[p].day /\ gate'[p].pc = pc
      BY <1>4 DEF GoesOn, GateMoves
    <2>7. Begun(gate[p].now)' = Begun(gate[p].now)
      BY <1>5, <2>6 DEF Begun
    <2> QED
      BY <2>2, <2>5, <2>6, <2>7 DEF ReadOK
  <1>7. SidKept(p) /\ TimesOK(p)'
    BY <1>4, <1>5, GateFacts DEF SidKept, TimesOK, GoesOn, GateMoves
  <1> QED
    BY <1>3, <1>4, <1>5, <1>6, <1>7, GateQuiet DEF GoesOn, GateMoves

LEMMA MintStep ==
  ASSUME GateIInv, NEW p \in Takers, Mint(p)
  PROVE  GateIInv'
  <1> DEFINE k == [gate[p] EXCEPT !.pc = "record", !.now = clock]
  <1>1. /\ k \in GateWork /\ k.pc = "record" /\ k.sid = gate[p].sid /\ k.now = clock
        /\ k.after = gate[p].after
    BY GateFacts DEF GateWork, GatePcs
  <1>2. /\ gate[p].pc = "mint" /\ gate' = [gate EXCEPT ![p] = k]
        /\ UNCHANGED <<bucketVars, profile, meter, sessions, opened>>
    BY DEF Mint
  <1> HIDE DEF k
  <1>3. GateMoves(p, k) /\ GateTyped'
    BY <1>1, <1>2, GateFacts, GateSet
  <1>4. [BucketNext]_bucketVars /\ clock' = clock /\ validAfter' = validAfter
    BY <1>2, BucketMoves DEF profile
  <1>5. SidKept(p) /\ TimesOK(p)' /\ ReadOK(p)'
    BY <1>1, <1>2, <1>3, <1>4, GateFacts DEF SidKept, TimesOK, ReadOK, GateMoves, Mints
  <1> QED
    BY <1>2, <1>3, <1>4, <1>5, GateQuiet DEF GateMoves

LEMMA ConnectStep ==
  ASSUME GateIInv, NEW p \in Takers, NEW i \in issued, Connect(p, i)
  PROVE  GateIInv'
  <1> DEFINE s == i[1]
             t == i[2]
             k == [Out EXCEPT !.pc = "upgrade", !.sid = s, !.kind = "bridge", !.now = t]
  <1>1. s \in Sids /\ t \in 0..MaxTime /\ t <= clock /\ "bridge" \in Kinds
    BY DEF GateIInv, GateTyping, SlotsTyped, TimesInv
  <1>2. gate' = [gate EXCEPT ![p] = k] /\ UNCHANGED <<bucketVars, profile, meter, sessions, opened>>
    BY DEF Connect
  <1>3. k \in GateWork /\ k.pc = "upgrade" /\ k.sid = s /\ k.now = t /\ k.after = 0
    <2> HIDE DEF s, t
    <2> QED
      BY <1>1, OutTyped DEF GateWork, GatePcs
  <1>4. k.sid = i[1]
    BY <1>3
  <1> HIDE DEF k, s, t
  <1>5. GateMoves(p, k) /\ GateTyped'
    BY <1>2, <1>3, GateFacts, GateSet
  <1>6. [BucketNext]_bucketVars /\ clock' = clock /\ validAfter' = validAfter
    BY <1>2, BucketMoves DEF profile
  <1>7. SidKept(p) /\ TimesOK(p)' /\ ReadOK(p)'
    BY <1>1, <1>3, <1>4, <1>5, <1>6, GateFacts DEF SidKept, TimesOK, ReadOK, GateMoves
  <1> QED
    BY <1>2, <1>5, <1>6, <1>7, GateQuiet DEF GateMoves

LEMMA UpgradeStep ==
  ASSUME GateIInv, NEW p \in Takers, Upgrade(p)
  PROVE  GateIInv'
  <1> DEFINE k == [gate[p] EXCEPT !.pc = "recheck", !.after = validAfter]
  <1>1. gate[p].pc = "upgrade" /\ gate[p].sid \in Sids /\ validAfter \in 0..MaxTime
    BY GateFacts DEF Upgrade, HoldOK, GateIInv, GateTyping, ProfileTyped
  <1>2. /\ k \in GateWork /\ k.pc = "recheck" /\ k.sid = gate[p].sid /\ k.now = gate[p].now
        /\ k.after = validAfter
    BY <1>1, GateFacts DEF GateWork, GatePcs
  <1>3. gate' = [gate EXCEPT ![p] = k] /\ UNCHANGED <<bucketVars, profile, meter, sessions, opened>>
    BY DEF Upgrade
  <1> HIDE DEF k
  <1>4. GateMoves(p, k) /\ GateTyped'
    BY <1>2, <1>3, GateFacts, GateSet
  <1>5. [BucketNext]_bucketVars /\ clock' = clock /\ validAfter' = validAfter
    BY <1>3, BucketMoves DEF profile
  <1>6. SidKept(p) /\ TimesOK(p)' /\ ReadOK(p)'
    BY <1>1, <1>2, <1>4, <1>5, GateFacts DEF SidKept, TimesOK, ReadOK, GateMoves
  <1> QED
    BY <1>3, <1>4, <1>5, <1>6, GateQuiet DEF GateMoves

LEMMA RecheckStep ==
  ASSUME GateIInv, NEW p \in Takers, Recheck(p)
  PROVE  GateIInv'
  <1>1. /\ gate[p].pc = "recheck" /\ gate[p].sid \in Sids /\ gate[p].now >= validAfter
        /\ GoOn(p, "redeem") /\ UNCHANGED <<bucketVars, profile, meter, sessions, opened>>
    BY GateFacts DEF Recheck, HoldOK, Admits
  <1>2. GateTyped' /\ GoesOn(p, "redeem")
    BY <1>1, GateFacts, GoOnMoves DEF GatePcs
  <1>3. [BucketNext]_bucketVars /\ clock' = clock /\ validAfter' = validAfter
    BY <1>1, BucketMoves DEF profile
  <1>4. gate[p].now >= gate[p].after
    BY <1>1, GateFacts DEF TimesOK, GateWork
  <1>5. SidKept(p) /\ TimesOK(p)' /\ ReadOK(p)'
    BY <1>1, <1>2, <1>3, <1>4, GateFacts DEF SidKept, TimesOK, ReadOK, GoesOn, GateMoves
  <1> QED
    BY <1>1, <1>2, <1>3, <1>5, GateQuiet DEF GoesOn, GateMoves

LEMMA GiveUpStep ==
  ASSUME GateIInv, NEW p \in Takers, GiveUp(p)
  PROVE  GateIInv'
  <1>1. UNCHANGED <<profile, meter, sessions, opened>> /\ (UNCHANGED bucketVars \/ Leave(p))
    BY DEF GiveUp
  <1>2. [BucketNext]_bucketVars /\ clock' = clock /\ validAfter' = validAfter
    BY <1>1, BucketMoves DEF profile
  <1>3. CASE gate[p].pc \in {"recheck", "redeem"} /\ GoOn(p, "release")
    <2>1. GateTyped' /\ GoesOn(p, "release")
      BY <1>3, GateFacts, GoOnMoves DEF GatePcs
    <2>2. gate[p].sid \in Sids
      BY <1>3, GateFacts DEF HoldOK
    <2>3. SidKept(p) /\ TimesOK(p)' /\ ReadOK(p)'
      BY <1>2, <2>1, <2>2, GateFacts DEF SidKept, TimesOK, ReadOK, GoesOn, GateMoves
    <2> QED
      BY <1>1, <1>2, <2>1, <2>3, GateQuiet DEF GoesOn, GateMoves
  <1>4. CASE Refuse(p)
    <2>1. GateTyped' /\ Leaves(p)
      BY <1>4, GateFacts, RefuseMoves
    <2>2. SidKept(p) /\ TimesOK(p)' /\ ReadOK(p)'
      BY <1>2, <2>1, GateFacts DEF SidKept, TimesOK, ReadOK, Leaves, GateMoves
    <2> QED
      BY <1>1, <1>2, <2>1, <2>2, GateQuiet DEF Leaves, GateMoves
  <1> QED
    BY <1>3, <1>4 DEF GiveUp

LEMMA TakeTokenStep ==
  ASSUME GateIInv, NEW p \in Takers, TakeToken(p),
         UNCHANGED <<profile, meter, sessions, gate, opened>>
  PROVE  GateIInv'
  <1>1. [BucketNext]_bucketVars /\ clock' = clock
    BY BucketMoves
  <1>2. GateTyped'
    BY DEF GateIInv, GateTyping, GateTyped
  <1> QED
    BY <1>1, <1>2, GateQuiet

LEMMA PutAnchorStep ==
  ASSUME GateIInv, NEW p \in Takers, PutAnchor(p)
  PROVE  GateIInv'
  <1>1. /\ gate[p].pc = "anchor" /\ GoOn(p, "count")
        /\ anchors' = anchors \cup {[hour |-> HourOf(gate[p].now), start |-> gate[p].day]}
        /\ UNCHANGED <<bucketVars, profile, used, usedAt, sessions, opened>>
    BY DEF PutAnchor
  <1>2. GateTyped' /\ GoesOn(p, "count")
    BY <1>1, GateFacts, GoOnMoves DEF GatePcs
  <1>3. [BucketNext]_bucketVars /\ clock' = clock /\ validAfter' = validAfter
    BY <1>1, BucketMoves DEF profile
  <1>4. gate[p].now \in Times /\ gate[p].now <= clock /\ HourOf(gate[p].now) \in 0..HourOf(MaxTime)
    <2>1. gate[p].now \in 0..MaxTime /\ gate[p].now <= clock
      BY GateFacts DEF GateWork, TimesOK
    <2>2. HourOf(gate[p].now) \in Hours /\ HourOf(MaxTime) \in Nat
      BY <2>1, HourInHours
    <2> QED
      BY <2>1, <2>2 DEF Hours, Times
  <1>5. SidKept(p) /\ TimesOK(p)'
    BY <1>2, <1>3, GateFacts DEF SidKept, TimesOK, GoesOn, GateMoves
  <1>6. \A q \in Takers \ {p} : gate'[q] = gate[q]
    BY <1>2 DEF GoesOn, GateMoves
  <1>7. GateTyping'
    <2>1. anchors' \subseteq [hour : 0..HourOf(MaxTime), start : 0..MaxUsed]
      BY <1>1, <1>4, GateFacts DEF GateWork, GateIInv, GateTyping, MeterTyped
    <2> QED
      BY <1>1, <1>2, <1>3, <2>1, BucketKept DEF GateIInv, GateTyping, SlotsTyped, ProfileTyped,
                                              MeterTyped, profile, sessions
  <1>8. SlotsInv' /\ RoomInv' /\ TimesInv'
    BY <1>1, <1>3, <1>5, <1>6, SlotsRest, RoomQuiet, TimesRest DEF GateIInv, sessions
  <1>9. MeterInv'
    <2>1. Begun(gate[p].now) <= gate[p].day
      BY <1>1, GateFacts DEF ReadOK
    <2>2. ReadOK(p)'
      BY <1>2 DEF ReadOK, GoesOn, GateMoves
    <2>3. \A q \in Takers \ {p} : ReadOK(q)'
      BY <1>1, <1>6 DEF GateIInv, MeterInv, ReadOK, Begun
    <2>4. ASSUME NEW a \in anchors', NEW t \in Times, a.hour = HourOf(t)
          PROVE  HourBegins(t) <= clock /\ Begun(t) <= a.start
      <3>1. CASE a \in anchors
        BY <2>4, <3>1 DEF GateIInv, MeterInv, AnchorsOK
      <3>2. CASE a = [hour |-> HourOf(gate[p].now), start |-> gate[p].day]
        <4>1. HourBegins(t) = HourBegins(gate[p].now)
          BY <1>4, <2>4, <3>2, HourOne
        <4>2. HourBegins(gate[p].now) <= gate[p].now /\ HourBegins(gate[p].now) \in Times
          BY <1>4, HourTimes
        <4>3. HourBegins(gate[p].now) <= clock
          BY <1>4, <4>2, GateFacts, BucketAssumption DEF Times
        <4> QED
          BY <2>1, <3>2, <4>1, <4>3 DEF Begun
      <3> QED
        BY <1>1, <2>4, <3>1, <3>2
    <2>5. AnchorsOK'
      BY <1>1, <1>3, <2>4 DEF AnchorsOK, Begun
    <2>6. UsedGrows'
      BY <1>1, <1>3 DEF GateIInv, MeterInv, UsedGrows
    <2> QED
      BY <2>2, <2>3, <2>5, <2>6 DEF MeterInv
  <1> QED
    BY <1>3, <1>7, <1>8, <1>9, BucketKept DEF GateIInv

LEMMA SuspendStep ==
  ASSUME GateIInv, NEW p \in Takers, Suspend(p)
  PROVE  GateIInv'
  <1>1. /\ Refuse(p) /\ UNCHANGED <<bucketVars, meter, sessions, opened>>
        /\ validAfter' \in {clock, validAfter} /\ status' \in {status, "suspended"}
    BY DEF Suspend, profile
  <1>2. GateTyped' /\ Leaves(p)
    BY <1>1, GateFacts, RefuseMoves
  <1>3. [BucketNext]_bucketVars /\ clock' = clock
    BY <1>1, BucketMoves
  <1>4. validAfter' \in 0..MaxTime /\ validAfter <= validAfter' /\ validAfter' <= clock
        /\ validAfter' \in Nat
    BY <1>1, GateFacts DEF GateIInv, GateTyping, ProfileTyped
  <1>5. SidKept(p) /\ ReadOK(p)'
    BY <1>2 DEF SidKept, ReadOK, Leaves, GateMoves
  <1>6. \A q \in Takers \ {p} : gate'[q] = gate[q]
    BY <1>2 DEF Leaves, GateMoves
  <1>7. GateTyping'
    BY <1>1, <1>2, <1>3, <1>4, BucketKept DEF GateIInv, GateTyping, SlotsTyped, ProfileTyped,
                                              MeterTyped, meter, sessions
  <1>8. SlotsInv' /\ RoomInv' /\ MeterInv'
    BY <1>1, <1>3, <1>5, <1>6, SlotsRest, RoomQuiet, MeterRest DEF GateIInv, sessions, meter
  <1>9. TimesInv'
    <2>1. TimesOK(p)'
      BY <1>2, <1>3, <1>4, GateFacts DEF TimesOK, Leaves, GateMoves
    <2>2. ASSUME NEW q \in Takers \ {p} PROVE TimesOK(q)'
      <3>1. gate[q].after \in Nat /\ TimesOK(q)
        BY GateFacts DEF GateWork
      <3> QED
        BY <1>3, <1>4, <1>6, <3>1, GateFacts DEF TimesOK
    <2> QED
      BY <1>1, <1>3, <1>4, <2>1, <2>2 DEF GateIInv, TimesInv, sessions
  <1> QED
    BY <1>3, <1>7, <1>8, <1>9, BucketKept DEF GateIInv

LEMMA CountSessionsStep ==
  ASSUME GateIInv, NEW p \in Takers, NEW s \in Sids, CountSessions(p, s)
  PROVE  GateIInv'
  <1> DEFINE k == [gate[p] EXCEPT !.pc = "mint", !.sid = s]
  <1>1. /\ k \in GateWork /\ k.pc = "mint" /\ k.sid = s /\ k.now = gate[p].now
        /\ k.after = gate[p].after
    BY GateFacts DEF GateWork, GatePcs
  <1>2. /\ gate' = [gate EXCEPT ![p] = k] /\ Fresh(s)
        /\ Cardinality(LiveAt(gate[p].now)) < MaxConcurrent
        /\ UNCHANGED <<bucketVars, profile, meter, sessions, opened>>
    BY DEF CountSessions
  <1> HIDE DEF k
  <1>3. GateMoves(p, k) /\ GateTyped'
    BY <1>1, <1>2, GateFacts, GateSet
  <1>4. [BucketNext]_bucketVars /\ clock' = clock /\ validAfter' = validAfter
    BY <1>2, BucketMoves DEF profile
  <1>5. TimesOK(p)' /\ ReadOK(p)'
    BY <1>1, <1>3, <1>4, GateFacts DEF TimesOK, ReadOK, GateMoves
  <1>6. \A q \in Takers \ {p} : gate'[q] = gate[q]
    BY <1>3 DEF GateMoves
  <1>7. GateTyping'
    BY <1>2, <1>3, <1>4, BucketKept DEF GateIInv, GateTyping, SlotsTyped, ProfileTyped, MeterTyped,
                                        profile, meter, sessions
  <1>8. TimesInv' /\ MeterInv'
    BY <1>2, <1>4, <1>5, <1>6, TimesRest, MeterRest DEF GateIInv, profile, meter, sessions
  <1>9. SlotsInv'
    <2>1. gate'[p].pc = "mint" /\ gate'[p].sid = s
      BY <1>1, <1>3 DEF GateMoves
    <2>2. MintOK(p)' /\ HoldOK(p)'
      BY <1>2, <1>6, <2>1 DEF MintOK, HoldOK, Fresh, sessions
    <2>3. ASSUME NEW q \in Takers \ {p} PROVE MintOK(q)' /\ HoldOK(q)'
      <3>1. gate'[q] = gate[q] /\ gate[q].sid # s
        BY <1>2, <1>6 DEF Fresh
      <3>2. MintOK(q) /\ HoldOK(q)
        BY GateFacts
      <3> QED
        BY <1>2, <1>6, <2>1, <3>1, <3>2 DEF MintOK, HoldOK, Mints, sessions
    <2>4. \A x \in Sids : SlotOK(x)'
      BY <1>2 DEF GateIInv, SlotsInv, SlotOK, sessions
    <2> QED
      BY <2>2, <2>3, <2>4 DEF SlotsInv
  <1>10. RoomInv'
    <2>1. LiveAt(clock)' \in SUBSET LiveAt(gate[p].now)
      <3> SUFFICES ASSUME NEW x \in Sids, slot[x].exp > clock PROVE slot[x].exp > gate[p].now
        BY <1>2, <1>4 DEF LiveAt, sessions
      <3>1. slot[x].exp \in Nat
        BY BucketAssumption DEF GateIInv, GateTyping, SlotsTyped, Slot
      <3> QED
        BY <3>1, GateFacts DEF TimesOK
    <2>2. /\ IsFiniteSet(LiveAt(clock)') /\ Cardinality(LiveAt(clock)') \in Nat
          /\ Cardinality(LiveAt(clock)') <= MaxConcurrent - 1
      <3>1. IsFiniteSet(LiveAt(gate[p].now))
        BY FS_Subset DEF LiveAt
      <3>2. /\ IsFiniteSet(LiveAt(clock)') /\ Cardinality(LiveAt(clock)') \in Nat
            /\ Cardinality(LiveAt(clock)') <= Cardinality(LiveAt(gate[p].now))
            /\ Cardinality(LiveAt(gate[p].now)) \in Nat
        BY <2>1, <3>1, FS_Subset, FS_CardinalityType
      <3> QED
        BY <1>2, <3>2
    <2>3. /\ IsFiniteSet(Minting') /\ Cardinality(Minting') \in Nat
          /\ Cardinality(Minting') <= Cardinality(Takers) /\ Cardinality(Takers) \in Nat
      <3>1. Minting' \in SUBSET Sids /\ \A x \in Minting' : \E q \in Takers : gate'[q].sid = x
        BY DEF Minting
      <3> QED
        BY <3>1, SidsOfTakers, FS_CardinalityType
    <2>4. /\ Coming' = LiveAt(clock)' \cup Minting'
          /\ Cardinality(Coming')
               = Cardinality(LiveAt(clock)') + Cardinality(Minting')
                 - Cardinality(LiveAt(clock)' \cap Minting')
      BY <2>2, <2>3, FS_Union DEF Coming
    <2>5. Cardinality(LiveAt(clock)' \cap Minting') \in Nat
      BY <2>2, FS_Subset, FS_CardinalityType
    <2> QED
      BY <2>2, <2>3, <2>4, <2>5 DEF RoomInv
  <1> QED
    BY <1>4, <1>7, <1>8, <1>9, <1>10, BucketKept DEF GateIInv

\* A step that changes slots and tokens, and brings no session.
LEMMA GateSlots ==
  ASSUME GateIInv, UNCHANGED <<bucketVars, profile, meter>>, GateTyped', SlotsTyped', SlotsInv',
         Coming' \subseteq Coming, \A i \in issued' : i[2] <= clock,
         \A q \in Takers : gate'[q] = gate[q] \/ (TimesOK(q)' /\ ReadOK(q)')
  PROVE  GateIInv'
  <1>1. [BucketNext]_bucketVars /\ clock' = clock
    BY BucketMoves
  <1>2. GateTyping'
    BY <1>1, BucketKept DEF GateIInv, GateTyping, ProfileTyped, MeterTyped, profile, meter
  <1>3. TimesInv'
    BY <1>1 DEF GateIInv, TimesInv, TimesOK, profile
  <1>4. MeterInv'
    BY <1>1, MeterRest DEF GateIInv, meter
  <1>5. RoomInv'
    BY RoomRest DEF GateIInv
  <1> QED
    BY <1>1, <1>2, <1>3, <1>4, <1>5, BucketKept DEF GateIInv

\* What a mint leaves when its slot is recorded, or could not be: the slot of
\* its session, or none; the token of its session, or none.
Recorded(p, k) ==
  LET s == gate[p].sid IN
  /\ gate' = [gate EXCEPT ![p] = k]
  /\ k \in GateWork /\ k.pc \in {"idle", "recheck", "release"}
  /\ k.sid \in {NoSid, s} /\ (k.pc # "idle" => k.sid = s)
  /\ k.now <= clock /\ k.after <= validAfter
  /\ PutSlot(p) \/ slot' = slot
  /\ issued' = issued \/ (issued' = issued \cup {<<s, gate[p].now>>} /\ "bridge" \in Kinds)
  /\ UNCHANGED <<bucketVars, profile, meter, opened>>

LEMMA RecordMintMoves ==
  ASSUME GateIInv, NEW p \in Takers, RecordMint(p)
  PROVE  \E k : Recorded(p, k)
  <1>1. gate[p] \in GateWork /\ gate[p].pc = "record"
    BY GateFacts DEF RecordMint
  <1>2. UNCHANGED <<bucketVars, profile, meter, opened>>
    BY DEF RecordMint
  <1> DEFINE f == [gate[p] EXCEPT !.pc = "recheck", !.after = validAfter]
             r == [gate[p] EXCEPT !.pc = "release"]
  <1>3. /\ f \in GateWork /\ f.pc = "recheck" /\ f.sid = gate[p].sid /\ f.now = gate[p].now
        /\ f.after = validAfter
    <2>1. validAfter \in 0..MaxTime
      BY DEF GateIInv, GateTyping, ProfileTyped
    <2> QED
      BY <1>1, <2>1 DEF GateWork, GatePcs
  <1>4. /\ r \in GateWork /\ r.pc = "release" /\ r.sid = gate[p].sid /\ r.now = gate[p].now
        /\ r.after = gate[p].after
    BY <1>1 DEF GateWork, GatePcs
  <1>5. /\ \/ gate' = [gate EXCEPT ![p] = f]
           \/ gate' = [gate EXCEPT ![p] = r]
           \/ gate' = [gate EXCEPT ![p] = Out]
        /\ PutSlot(p) \/ slot' = slot
    BY DEF RecordMint, GoOn, Refuse
  <1>6. issued' = issued \/ (issued' = issued \cup {<<gate[p].sid, gate[p].now>>} /\ "bridge" \in Kinds)
    BY <1>1 DEF RecordMint, GateWork
  <1> HIDE DEF f, r
  <1>7. gate[p].now <= clock /\ gate[p].after <= validAfter /\ 0 <= clock /\ 0 <= validAfter
        /\ validAfter <= validAfter
    BY GateFacts DEF TimesOK
  <1>8. PICK k \in {f, r, Out} : gate' = [gate EXCEPT ![p] = k]
    BY <1>5
  <1>9. /\ k \in GateWork /\ k.pc \in {"idle", "recheck", "release"}
        /\ k.sid \in {NoSid, gate[p].sid} /\ (k.pc # "idle" => k.sid = gate[p].sid)
        /\ k.now <= clock /\ k.after <= validAfter
    BY <1>3, <1>4, <1>7, <1>8, OutTyped
  <1> QED
    BY <1>2, <1>5, <1>6, <1>8, <1>9 DEF Recorded

LEMMA RecordMintStep ==
  ASSUME GateIInv, NEW p \in Takers, RecordMint(p)
  PROVE  GateIInv'
  <1> DEFINE s == gate[p].sid
  <1>1. PICK k : Recorded(p, k)
    BY RecordMintMoves
  <1>2. /\ Mints(p) /\ s \in Sids /\ s # NoSid /\ slot[s] = NoSlot /\ opened[s] = 0
        /\ \A i \in issued : i[1] # s
        /\ \A q \in Takers \ {p} : gate[q].sid # s
    <2>1. Mints(p) /\ MintOK(p)
      BY GateFacts DEF RecordMint, Mints
    <2> QED
      BY <2>1 DEF MintOK
  <1>3. GateMoves(p, k) /\ GateTyped'
    BY <1>1, GateFacts, GateSet DEF Recorded
  <1>4. /\ gate'[p].pc \in {"idle", "recheck", "release"} /\ gate'[p].sid \in {NoSid, s}
        /\ (gate'[p].pc # "idle" => gate'[p].sid = s)
        /\ gate'[p].now <= clock /\ gate'[p].after <= validAfter
        /\ \A q \in Takers \ {p} : gate'[q] = gate[q]
    BY <1>1, <1>3 DEF Recorded, GateMoves
  <1>5. UNCHANGED <<bucketVars, profile, meter, opened>>
    BY <1>1 DEF Recorded
  <1>6. clock' = clock /\ validAfter' = validAfter /\ opened' = opened
    BY <1>5, BucketMoves DEF profile
  <1>7. /\ slot' \in [Sids -> Slot] /\ \A x \in Sids : x # s => slot'[x] = slot[x]
    <2>1. slot \in [Sids -> Slot]
      BY DEF GateIInv, GateTyping, SlotsTyped
    <2>2. [exp |-> clock + SessionCap, redeemed |-> FALSE] \in Slot
      BY GateFacts, BucketAssumption DEF Slot
    <2> QED
      BY <1>1, <1>2, <2>1, <2>2 DEF Recorded, PutSlot
  <1>8. issued' \subseteq issued \cup {<<s, gate[p].now>>} /\ (issued' # issued => "bridge" \in Kinds)
    BY <1>1 DEF Recorded
  <1>9. SlotsTyped'
    <2>1. <<s, gate[p].now>> \in Sids \X (0..MaxTime)
      BY <1>2, GateFacts DEF GateWork
    <2> HIDE DEF s
    <2> QED
      BY <1>6, <1>7, <1>8, <2>1 DEF GateIInv, GateTyping, SlotsTyped
  <1>10. \A i \in issued' : i[2] <= clock /\ \A x \in Sids : x # s => (i[1] = x => i \in issued)
    <2>1. gate[p].now <= clock
      BY GateFacts DEF TimesOK
    <2>2. <<s, gate[p].now>>[1] = s /\ <<s, gate[p].now>>[2] = gate[p].now
      OBVIOUS
    <2> HIDE DEF s
    <2> QED
      BY <1>8, <2>1, <2>2 DEF GateIInv, TimesInv
  <1> HIDE DEF s
  <1>11. SlotsInv'
    <2>1. MintOK(p)' /\ HoldOK(p)'
      BY <1>2, <1>4 DEF MintOK, HoldOK, Mints
    <2>2. ASSUME NEW q \in Takers \ {p} PROVE MintOK(q)' /\ HoldOK(q)'
      <3>1. gate'[q] = gate[q] /\ gate[q].sid # s /\ HoldOK(q) /\ MintOK(q)
        BY <1>2, <1>4, GateFacts
      <3>2. HoldOK(q)'
        BY <3>1 DEF HoldOK
      <3>3. ASSUME Mints(q) PROVE MintOK(q)'
        <4>1. /\ gate[q].sid \in Sids /\ gate[q].sid # NoSid /\ slot[gate[q].sid] = NoSlot
              /\ opened[gate[q].sid] = 0 /\ \A i \in issued : i[1] # gate[q].sid
              /\ \A r \in Takers \ {q} : gate[r].sid # gate[q].sid
          BY <3>1, <3>3 DEF MintOK
        <4>2. \A i \in issued' : i[1] # gate[q].sid
          BY <1>10, <3>1, <4>1
        <4>3. \A r \in Takers \ {q} : gate'[r].sid # gate[q].sid
          BY <1>4, <3>1, <4>1
        <4> QED
          BY <1>6, <1>7, <3>1, <4>1, <4>2, <4>3 DEF MintOK
      <3>4. Mints(q)' => Mints(q)
        BY <3>1 DEF Mints
      <3> QED
        BY <3>2, <3>3, <3>4 DEF MintOK
    <2>3. ASSUME NEW x \in Sids PROVE SlotOK(x)'
      BY <1>2, <1>6, <1>7 DEF GateIInv, SlotsInv, SlotOK
    <2> QED
      BY <2>1, <2>2, <2>3 DEF SlotsInv
  <1>12. Coming' \subseteq Coming
    <2>1. s \in Minting
      BY <1>2 DEF Minting, s
    <2>2. LiveAt(clock)' \subseteq LiveAt(clock) \cup {s}
      BY <1>6, <1>7 DEF LiveAt
    <2>3. Minting' \subseteq Minting
      BY <1>4 DEF Minting, Mints
    <2> QED
      BY <2>1, <2>2, <2>3 DEF Coming
  <1>13. TimesOK(p)' /\ ReadOK(p)'
    BY <1>4, <1>6 DEF TimesOK, ReadOK
  <1> QED
    BY <1>3, <1>4, <1>5, <1>9, <1>10, <1>11, <1>12, <1>13, GateSlots

\* A session whose slot is freed cannot be redeemed; what the invocations do
\* brings no session.
LEMMA SlotFreed ==
  ASSUME GateIInv, NEW s \in Sids, slot' = [slot EXCEPT ![s] = NoSlot], GateTyped',
         UNCHANGED <<bucketVars, profile, meter, issued, opened>>,
         \A q \in Takers : gate'[q] = gate[q] \/ (SidKept(q) /\ TimesOK(q)' /\ ReadOK(q)')
  PROVE  GateIInv'
  <1>1. /\ slot \in [Sids -> Slot] /\ NoSlot \in Slot /\ NoSlot.exp = 0
        /\ clock' = clock /\ clock \in Nat
    BY BucketAssumption, BucketMoves DEF GateIInv, GateTyping, BucketTypeOK, SlotsTyped, NoSlot, Slot
  <1>2. slot' \in [Sids -> Slot] /\ slot'[s] = NoSlot /\ \A x \in Sids : x # s => slot'[x] = slot[x]
    BY <1>1
  <1>3. SlotsTyped'
    BY <1>2 DEF GateIInv, GateTyping, SlotsTyped
  <1>4. SlotsInv'
    <2>1. ASSUME NEW q \in Takers PROVE MintOK(q)'
      <3> SUFFICES ASSUME Mints(q)' PROVE MintOK(q)'
        BY DEF MintOK
      <3>1. Mints(q) /\ gate'[q].sid = gate[q].sid /\ MintOK(q)
        BY GateFacts DEF Mints, SidKept
      <3>2. /\ gate[q].sid \in Sids /\ gate[q].sid # NoSid /\ slot[gate[q].sid] = NoSlot
            /\ opened[gate[q].sid] = 0 /\ \A i \in issued : i[1] # gate[q].sid
            /\ \A r \in Takers \ {q} : gate[r].sid # gate[q].sid
        BY <3>1 DEF MintOK
      <3>3. ASSUME NEW r \in Takers \ {q} PROVE gate'[r].sid # gate'[q].sid
        <4>1. gate'[r] = gate[r] \/ SidKept(r)
          OBVIOUS
        <4> QED
          BY <3>1, <3>2, <4>1 DEF SidKept
      <3> QED
        BY <1>2, <3>1, <3>2, <3>3 DEF MintOK
    <2>2. ASSUME NEW q \in Takers PROVE HoldOK(q)'
      BY GateFacts DEF HoldOK, SidKept
    <2>3. ASSUME NEW x \in Sids PROVE SlotOK(x)'
      BY <1>1, <1>2 DEF GateIInv, SlotsInv, SlotOK
    <2> QED
      BY <2>1, <2>2, <2>3 DEF SlotsInv
  <1>5. Coming' \subseteq Coming
    <2>1. LiveAt(clock)' \subseteq LiveAt(clock)
      BY <1>1, <1>2 DEF LiveAt
    <2>2. Minting' \subseteq Minting
      BY DEF Minting, Mints, SidKept
    <2> QED
      BY <2>1, <2>2 DEF Coming
  <1>6. \A i \in issued' : i[2] <= clock
    BY DEF GateIInv, TimesInv
  <1> QED
    BY <1>3, <1>4, <1>5, <1>6, GateSlots

LEMMA ReleaseSlotStep ==
  ASSUME GateIInv, NEW s \in Sids, ReleaseSlot(s)
  PROVE  GateIInv'
  <1>1. /\ slot' = [slot EXCEPT ![s] = NoSlot]
        /\ UNCHANGED <<bucketVars, profile, meter, issued, gate, opened>>
    BY DEF ReleaseSlot
  <1>2. GateTyped'
    BY <1>1 DEF GateIInv, GateTyping, GateTyped
  <1> QED
    BY <1>1, <1>2, SlotFreed

LEMMA ReleasePhoneStep ==
  ASSUME GateIInv, NEW p \in Takers, ReleasePhone(p)
  PROVE  GateIInv'
  <1>1. /\ gate[p].sid \in Sids /\ slot' = [slot EXCEPT ![gate[p].sid] = NoSlot] /\ Refuse(p)
        /\ UNCHANGED <<bucketVars, profile, meter, issued, opened>>
    BY GateFacts DEF ReleasePhone, HoldOK
  <1>2. GateTyped' /\ Leaves(p)
    BY <1>1, GateFacts, RefuseMoves
  <1>3. clock' = clock /\ validAfter' = validAfter
    BY <1>1, BucketMoves DEF profile
  <1>4. SidKept(p) /\ TimesOK(p)' /\ ReadOK(p)'
    BY <1>2, <1>3, GateFacts DEF SidKept, TimesOK, ReadOK, Leaves, GateMoves
  <1> QED
    BY <1>1, <1>2, <1>4, SlotFreed DEF Leaves, GateMoves

LEMMA RedeemStep ==
  ASSUME GateIInv, NEW p \in Takers, Redeem(p)
  PROVE  GateIInv'
  <1> DEFINE s == gate[p].sid
             d == [slot[s] EXCEPT !.redeemed = TRUE]
  <1>1. /\ s \in Sids /\ slot[s].exp > clock /\ ~slot[s].redeemed
        /\ slot' = [slot EXCEPT ![s] = d] /\ opened' = [opened EXCEPT ![s] = @ + 1]
        /\ Refuse(p) /\ UNCHANGED <<bucketVars, profile, meter, issued>>
    BY GateFacts DEF Redeem, HoldOK
  <1>2. /\ slot \in [Sids -> Slot] /\ opened \in [Sids -> Nat]
    BY DEF GateIInv, GateTyping, SlotsTyped
  <1>3. d \in Slot /\ d.exp = slot[s].exp /\ d.redeemed
    <2>1. slot[s] \in Slot
      BY <1>1, <1>2
    <2> QED
      BY <2>1 DEF Slot
  <1> HIDE DEF d
  <1>4. /\ slot' \in [Sids -> Slot] /\ slot'[s] = d /\ \A x \in Sids : x # s => slot'[x] = slot[x]
    BY <1>1, <1>2, <1>3
  <1>5. opened' \in [Sids -> Nat] /\ \A x \in Sids : x # s => opened'[x] = opened[x]
    BY <1>1, <1>2
  <1>6. GateTyped' /\ Leaves(p)
    BY <1>1, GateFacts, RefuseMoves
  <1>7. clock' = clock /\ validAfter' = validAfter
    BY <1>1, BucketMoves DEF profile
  <1>8. SidKept(p) /\ TimesOK(p)' /\ ReadOK(p)'
    BY <1>6, <1>7, GateFacts DEF SidKept, TimesOK, ReadOK, Leaves, GateMoves
  <1>9. gate'[p].pc = "idle" /\ gate'[p].sid = NoSid /\ \A q \in Takers \ {p} : gate'[q] = gate[q]
    BY <1>6 DEF Leaves, GateMoves
  <1>10. SlotsTyped'
    BY <1>1, <1>4, <1>5 DEF GateIInv, GateTyping, SlotsTyped
  <1>11. SlotsInv'
    <2>1. MintOK(p)' /\ HoldOK(p)'
      BY <1>9 DEF MintOK, HoldOK, Mints
    <2>2. ASSUME NEW q \in Takers \ {p} PROVE MintOK(q)' /\ HoldOK(q)'
      <3>1. gate'[q] = gate[q] /\ MintOK(q) /\ HoldOK(q)
        BY <1>9, GateFacts
      <3>2. ASSUME Mints(q)
            PROVE  /\ gate[q].sid \in Sids /\ gate[q].sid # NoSid /\ gate[q].sid # s
                   /\ slot[gate[q].sid] = NoSlot /\ opened[gate[q].sid] = 0
                   /\ \A i \in issued : i[1] # gate[q].sid
                   /\ \A r \in Takers \ {q} : gate[r].sid # gate[q].sid
        BY <3>1, <3>2 DEF MintOK
      <3>3. Mints(q)' => Mints(q)
        BY <3>1 DEF Mints
      <3> HIDE DEF s
      <3> QED
        BY <1>1, <1>4, <1>5, <1>9, <3>1, <3>2, <3>3 DEF MintOK, HoldOK
    <2>3. ASSUME NEW x \in Sids PROVE SlotOK(x)'
      BY <1>3, <1>4, <1>5 DEF GateIInv, SlotsInv, SlotOK
    <2> QED
      BY <2>1, <2>2, <2>3 DEF SlotsInv
  <1>12. Coming' \subseteq Coming
    <2>1. LiveAt(clock)' \subseteq LiveAt(clock)
      BY <1>3, <1>4, <1>7 DEF LiveAt
    <2>2. Minting' \subseteq Minting
      BY <1>9 DEF Minting, Mints
    <2> QED
      BY <2>1, <2>2 DEF Coming
  <1>13. \A i \in issued' : i[2] <= clock
    BY <1>1 DEF GateIInv, TimesInv
  <1> QED
    BY <1>1, <1>6, <1>8, <1>9, <1>10, <1>11, <1>12, <1>13, GateSlots

LEMMA UseStep == ASSUME GateIInv, Use PROVE GateIInv'
  <1>1. /\ used' \in 0..MaxUsed /\ used <= used'
        /\ UNCHANGED <<bucketVars, profile, anchors, usedAt, sessions, gate, opened>>
    BY DEF Use, GateIInv, GateTyping, MeterTyped
  <1>2. [BucketNext]_bucketVars /\ clock' = clock
    BY <1>1, BucketMoves
  <1>3. GateTyping'
    BY <1>1, <1>2, BucketKept DEF GateIInv, GateTyping, GateTyped, SlotsTyped, ProfileTyped,
                                  MeterTyped, profile, sessions
  <1>4. SlotsInv' /\ RoomInv' /\ TimesInv'
    BY <1>1, <1>2, SlotsRest, RoomQuiet, TimesRest DEF GateIInv, profile, sessions
  <1>5. MeterInv'
    <2>1. ASSUME NEW t \in Times PROVE usedAt'[t] <= used'
      <3>1. usedAt[t] <= used /\ usedAt[t] \in Nat /\ used \in Nat /\ used' \in Nat
        BY <1>1 DEF GateIInv, GateTyping, MeterTyped, MeterInv, UsedGrows
      <3> QED
        BY <1>1, <3>1
    <2>2. UsedGrows'
      BY <1>1, <1>2, <2>1 DEF GateIInv, MeterInv, UsedGrows
    <2> QED
      BY <1>1, <1>2, <2>2 DEF GateIInv, MeterInv, AnchorsOK, ReadOK, Begun
  <1> QED
    BY <1>2, <1>3, <1>4, <1>5, BucketKept DEF GateIInv

LEMMA TickStep == ASSUME GateIInv, Tick PROVE GateIInv'
  <1>1. /\ [BucketNext]_bucketVars /\ clock' = clock + 1 /\ clock < MaxTime
        /\ usedAt' = [usedAt EXCEPT ![clock'] = used]
        /\ UNCHANGED <<profile, used, anchors, sessions, gate, opened>>
    BY DEF Tick, ClockTicks, BucketNext
  <1>2. BucketIInv' /\ BucketTypeOK'
    BY <1>1, BucketKept
  <1>3. clock \in Nat /\ clock \in 0..MaxTime /\ clock' \in 0..MaxTime
    BY <1>2 DEF GateIInv, GateTyping, BucketTypeOK
  <1>4. /\ used \in Nat /\ used \in 0..MaxUsed /\ usedAt \in [Times -> 0..MaxUsed]
    BY DEF GateIInv, GateTyping, MeterTyped
  <1>7. /\ usedAt' \in [Times -> 0..MaxUsed] /\ usedAt'[clock'] = used
        /\ \A t \in Times : t # clock' => usedAt'[t] = usedAt[t]
    BY <1>1, <1>3, <1>4 DEF Times
  <1>8. GateTyping'
    BY <1>1, <1>2, <1>7 DEF GateIInv, GateTyping, GateTyped, SlotsTyped, ProfileTyped, MeterTyped,
                            profile, sessions
  <1>9. SlotsInv'
    BY <1>1, SlotsRest DEF GateIInv
  <1>10. RoomInv'
    <2>1. LiveAt(clock)' \subseteq LiveAt(clock)
      <3> SUFFICES ASSUME NEW x \in Sids, slot[x].exp > clock' PROVE slot[x].exp > clock
        BY <1>1 DEF LiveAt, sessions
      <3>1. slot[x].exp \in Nat
        BY BucketAssumption DEF GateIInv, GateTyping, SlotsTyped, Slot
      <3> QED
        BY <1>1, <1>3, <3>1
    <2>2. Minting' = Minting
      BY <1>1 DEF Minting, Mints
    <2> QED
      BY <2>1, <2>2, RoomRest DEF Coming, GateIInv
  <1>11. TimesInv'
    <2>1. validAfter \in Nat /\ validAfter <= clock
      BY DEF GateIInv, GateTyping, ProfileTyped, TimesInv
    <2>2. ASSUME NEW i \in issued PROVE i[2] <= clock'
      <3>1. i[2] \in Nat /\ i[2] <= clock
        BY DEF GateIInv, GateTyping, SlotsTyped, TimesInv
      <3> QED
        BY <1>1, <1>3, <3>1
    <2>3. ASSUME NEW q \in Takers PROVE TimesOK(q)'
      <3>1. gate[q].now \in Nat /\ gate[q].now <= clock /\ TimesOK(q)
        BY GateFacts DEF TimesOK
      <3> QED
        BY <1>1, <1>3, <3>1 DEF TimesOK, profile
    <2> QED
      BY <1>1, <1>3, <2>1, <2>2, <2>3 DEF TimesInv, profile, sessions
  <1>12. \A t \in Times : HourBegins(t) <= clock => Begun(t)' = Begun(t)
    <2> SUFFICES ASSUME NEW t \in Times, HourBegins(t) <= clock
                 PROVE  usedAt'[Before(HourBegins(t))] = usedAt[Before(HourBegins(t))]
      BY DEF Begun
    <2>1. /\ Before(HourBegins(t)) \in Times /\ Before(HourBegins(t)) <= HourBegins(t)
          /\ HourBegins(t) \in Times
      BY HourTimes
    <2>2. Before(HourBegins(t)) # clock'
      BY <1>1, <1>3, <2>1, BucketAssumption DEF Times
    <2> QED
      BY <1>7, <2>1, <2>2
  <1>13. UsedGrows'
    <2>1. ASSUME NEW t \in Times PROVE usedAt'[t] <= used'
      <3>1. usedAt[t] <= used
        BY DEF GateIInv, MeterInv, UsedGrows
      <3> QED
        BY <1>1, <1>4, <1>7, <3>1
    <2>2. ASSUME NEW t \in Times, NEW u \in Times, t <= u, u <= clock'
          PROVE  usedAt'[t] <= usedAt'[u]
      <3>1. CASE u = clock'
        BY <1>1, <1>7, <2>1, <3>1
      <3>2. CASE u # clock'
        <4>1. t \in Nat /\ u \in Nat /\ u <= clock /\ t # clock'
          BY <1>1, <1>3, <2>2, <3>2, BucketAssumption DEF Times
        <4> QED
          BY <1>7, <2>2, <3>2, <4>1 DEF GateIInv, MeterInv, UsedGrows
      <3> QED
        BY <3>1, <3>2
    <2> QED
      BY <2>1, <2>2 DEF UsedGrows
  <1>14. MeterInv'
    <2>1. ASSUME NEW a \in anchors, NEW t \in Times, a.hour = HourOf(t)
          PROVE  HourBegins(t) <= clock' /\ Begun(t)' <= a.start
      <3>1. HourBegins(t) <= clock /\ Begun(t) <= a.start
        BY <2>1 DEF GateIInv, MeterInv, AnchorsOK
      <3>2. HourBegins(t) \in Nat
        BY HourTimes, BucketAssumption DEF Times
      <3> QED
        BY <1>1, <1>3, <1>12, <3>1, <3>2
    <2>2. AnchorsOK'
      BY <1>1, <2>1 DEF AnchorsOK
    <2>3. ASSUME NEW q \in Takers PROVE ReadOK(q)'
      <3>1. gate[q].now \in Times /\ gate[q].now <= clock /\ ReadOK(q)
        BY GateFacts DEF TimesOK, GateWork, Times
      <3>2. HourBegins(gate[q].now) <= clock
        <4>1. HourBegins(gate[q].now) \in Times /\ HourBegins(gate[q].now) <= gate[q].now
          BY <3>1, HourTimes
        <4> QED
          BY <1>3, <3>1, <4>1, BucketAssumption DEF Times
      <3>3. gate' = gate
        BY <1>1
      <3>4. Begun(gate[q].now)' = Begun(gate[q].now)
        BY <1>12, <3>1, <3>2, <3>3 DEF Begun
      <3> QED
        BY <3>1, <3>3, <3>4 DEF ReadOK
    <2> QED
      BY <1>13, <2>2, <2>3 DEF MeterInv
  <1> QED
    BY <1>2, <1>8, <1>9, <1>10, <1>11, <1>14 DEF GateIInv

\* Cutting the sessions off, and reinstating the member, changes the profile only.
LEMMA ProfileStep ==
  ASSUME GateIInv, LogoutAll \/ Reinstate
  PROVE  GateIInv'
  <1>1. /\ UNCHANGED <<bucketVars, meter, sessions, gate, opened>>
        /\ validAfter' \in {clock, validAfter} /\ status' \in {status, "active"}
    BY DEF LogoutAll, Reinstate
  <1>2. [BucketNext]_bucketVars /\ clock' = clock
    BY <1>1, BucketMoves
  <1>3. /\ clock \in 0..MaxTime /\ validAfter \in Nat /\ validAfter <= clock
        /\ validAfter' \in 0..MaxTime /\ validAfter <= validAfter' /\ validAfter' <= clock
    BY <1>1 DEF GateIInv, GateTyping, ProfileTyped, BucketTypeOK, TimesInv
  <1>4. GateTyping'
    BY <1>1, <1>2, <1>3, BucketKept DEF GateIInv, GateTyping, GateTyped, SlotsTyped, ProfileTyped,
                                        MeterTyped, meter, sessions
  <1>5. SlotsInv' /\ RoomInv' /\ MeterInv'
    BY <1>1, <1>2, SlotsRest, RoomQuiet, MeterRest DEF GateIInv, meter, sessions
  <1>6. TimesInv'
    <2>1. ASSUME NEW q \in Takers PROVE TimesOK(q)'
      <3>1. gate[q].after \in Nat /\ TimesOK(q) /\ validAfter' \in Nat
        BY <1>3, GateFacts DEF GateWork
      <3> QED
        BY <1>1, <1>2, <1>3, <3>1 DEF TimesOK
    <2> QED
      BY <1>1, <1>2, <1>3, <2>1 DEF GateIInv, TimesInv, sessions
  <1> QED
    BY <1>2, <1>4, <1>5, <1>6, BucketKept DEF GateIInv

LEMMA GateRests == ASSUME GateIInv, UNCHANGED gateVars PROVE GateIInv'
  <1>1. UNCHANGED <<bucketVars, profile, meter, sessions, gate, opened>>
    BY DEF gateVars
  <1>2. [BucketNext]_bucketVars /\ clock' = clock /\ GateTyped'
    BY <1>1, BucketMoves DEF GateIInv, GateTyping, GateTyped
  <1> QED
    BY <1>1, <1>2, GateQuiet

LEMMA GateStepKeeps ==
  ASSUME GateIInv, NEW p \in Takers, GateStep(p)
  PROVE  GateIInv'
  BY TakeTokenStep, TokenTakenStep, ReadUsageStep, CheckBurnStep, PutAnchorStep, SuspendStep,
     CountSessionsStep, MintStep, RecordMintStep, ReleasePhoneStep, UpgradeStep, RecheckStep,
     RedeemStep, GiveUpStep
  DEF GateStep

LEMMA GateKept == GateIInv /\ [GateNext]_gateVars => GateIInv'
  BY GateStepKeeps, CheckSuspendedStep, ConnectStep, ReleaseSlotStep, UseStep, TickStep,
     ProfileStep, GateRests
  DEF GateNext

LEMMA GateInitially == GateInit => GateIInv
  <1> SUFFICES ASSUME GateInit PROVE GateIInv
    OBVIOUS
  <1>1. /\ clock = 0 /\ status = "active" /\ validAfter = 0 /\ used = 0 /\ anchors = {NoAnchor}
        /\ slot = [s \in Sids |-> NoSlot] /\ issued = {} /\ gate = [p \in Takers |-> Out]
        /\ usedAt = [t \in Times |-> 0] /\ opened = [s \in Sids |-> 0]
    BY DEF GateInit, BucketInit, Times
  <1>2. BucketIInv /\ BucketTypeOK
    BY BucketInitially DEF GateInit, BucketIInv
  <1>3. HourOf(MaxTime) \in Nat \ {0} /\ HourOf(0) \in Nat \ {0} /\ 0 <= SessionCap
    BY HourTyped, BucketAssumption
  <1>4. GateTyping
    <2>1. GateTyped
      BY <1>1, OutTyped DEF GateTyped
    <2>2. SlotsTyped
      BY <1>1, BucketAssumption DEF SlotsTyped, NoSlot, Slot
    <2>3. ProfileTyped
      BY <1>1, BucketAssumption DEF ProfileTyped
    <2>4. MeterTyped
      BY <1>1, <1>3 DEF MeterTyped, NoAnchor
    <2> QED
      BY <1>2, <2>1, <2>2, <2>3, <2>4 DEF GateTyping
  <1>5. SlotsInv
    BY <1>1, OutTyped DEF SlotsInv, MintOK, HoldOK, SlotOK, Mints, NoSlot
  <1>6. TimesInv
    BY <1>1, OutTyped DEF TimesInv, TimesOK
  <1>7. MeterInv
    <2>1. UsedGrows
      BY <1>1 DEF UsedGrows
    <2>2. ASSUME NEW t \in Times PROVE HourOf(t) # NoAnchor.hour
      BY HourInHours DEF NoAnchor, Times
    <2>3. AnchorsOK
      BY <1>1, <2>2 DEF AnchorsOK
    <2> QED
      BY <1>1, <2>1, <2>3, OutTyped DEF MeterInv, ReadOK
  <1>8. RoomInv
    <2>1. Coming = {}
      BY <1>1, OutTyped DEF Coming, LiveAt, Minting, Mints, NoSlot
    <2>2. Cardinality(Coming) = 0 /\ Cardinality(Takers) \in Nat
      BY <2>1, FS_EmptySet, FS_CardinalityType
    <2> QED
      BY <2>2 DEF RoomInv
  <1> QED
    BY <1>2, <1>4, <1>5, <1>6, <1>7, <1>8 DEF GateIInv

-----------------------------------------------------------------------------
(***************************************************************************)
(* The theorems.                                                           *)
(***************************************************************************)
\* The gate keeps its types: a session's slot, a token and the anchor are what
\* the rows of the table can hold.
THEOREM GateTypeCorrect == GateSpec => []GateTypeOK
  <1>1. GateIInv => GateTypeOK
    BY DEF GateIInv, GateTyping, GateTyped, SlotsTyped, ProfileTyped, MeterTyped, GateTypeOK,
           GateWork, GatePcs, Slot, Times
  <1> QED
    BY <1>1, GateInitially, GateKept, PTL DEF GateSpec

\* Sessions that mints count and record without a lock overshoot the cap by at
\* most the other invocations: the live sessions and those being minted are
\* bounded together, so a mint that counts adds itself to what it saw.
THEOREM SessionsStayBounded == GateSpec => []SessionsBounded
  <1>1. GateIInv => SessionsBounded
    <2> SUFFICES ASSUME GateIInv PROVE SessionsBounded
      OBVIOUS
    <2>1. IsFiniteSet(Coming) /\ LiveAt(clock) \in SUBSET Coming
      <3>1. Coming \in SUBSET Sids
        BY DEF Coming, LiveAt, Minting
      <3> QED
        BY <3>1, FS_Subset DEF Coming
    <2>2. /\ Cardinality(LiveAt(clock)) <= Cardinality(Coming)
          /\ Cardinality(LiveAt(clock)) \in Nat /\ Cardinality(Coming) \in Nat
          /\ Cardinality(Takers) \in Nat
      BY <2>1, FS_Subset, FS_CardinalityType
    <2> QED
      BY <2>2 DEF GateIInv, RoomInv, SessionsBounded
  <1> QED
    BY <1>1, GateInitially, GateKept, PTL DEF GateSpec

\* A member is suspended only for more than BurnLimit tokens since Lag before the hour
\* of the mint began: every anchor of that hour, and the day's tokens that were read,
\* are at least what had been used then.
THEOREM SuspensionsAreFair == GateSpec => SuspendedFairly
  <1>1. GateIInv => \A p \in Takers :
          gate[p].pc = "suspend" => gate[p].day - usedAt[Before(HourBegins(gate[p].now))] > BurnLimit
    BY DEF GateIInv, MeterInv, ReadOK, Begun
  <1>2. GateIInv /\ [GateNext]_gateVars =>
          [\A p \in Takers : gate[p].pc = "suspend" /\ status = "active" /\ status' = "suspended"
             => gate[p].day - usedAt[Before(HourBegins(gate[p].now))] > BurnLimit]_gateVars
    BY <1>1
  <1> QED
    BY <1>2, GateInitially, GateKept, PTL DEF GateSpec, SuspendedFairly

\* Only a redemption opens a session.
LEMMA OnlyRedeemOpens ==
  ASSUME GateNext, opened' # opened
  PROVE  \E p \in Takers : Redeem(p)
  BY DEF GateNext, GateStep, CheckSuspended, Connect, ReleaseSlot, Use, Tick, LogoutAll, Reinstate,
         TokenTaken, ReadUsage, CheckBurn, PutAnchor, Suspend, CountSessions, Mint, RecordMint,
         ReleasePhone, Upgrade, Recheck, GiveUp

\* A session is opened once, though slots are freed and written in between, and
\* never by a token issued before the cut-off that was read after the upgrade.
THEOREM SessionsOpenOnce == GateSpec => OpenedOnce
  <1> DEFINE A == \A s \in Sids : opened'[s] # opened[s] =>
                    /\ opened[s] = 0
                    /\ \A p \in Takers : gate[p].sid = s /\ gate[p].pc = "redeem"
                                           /\ gate'[p].pc = "idle"
                         => gate[p].now >= gate[p].after
  <1>1. ASSUME GateIInv, GateNext PROVE A
    <2> SUFFICES ASSUME NEW s \in Sids, opened'[s] # opened[s]
                 PROVE  /\ opened[s] = 0
                        /\ \A p \in Takers : gate[p].pc = "redeem" => gate[p].now >= gate[p].after
      OBVIOUS
    <2>1. PICK r \in Takers : Redeem(r)
      BY <1>1, OnlyRedeemOpens
    <2>2. gate[r].sid = s /\ slot[s].exp > clock /\ ~slot[s].redeemed
      <3>1. opened' = [opened EXCEPT ![gate[r].sid] = @ + 1] /\ opened \in [Sids -> Nat]
        BY <1>1, <2>1 DEF Redeem, GateIInv, GateTyping, SlotsTyped
      <3>2. gate[r].sid = s
        BY <3>1
      <3> QED
        BY <2>1, <3>2 DEF Redeem
    <2>3. slot[s].exp \in Nat /\ clock \in Nat /\ SlotOK(s)
      BY <1>1, BucketAssumption DEF GateIInv, GateTyping, BucketTypeOK, SlotsTyped, Slot, SlotsInv
    <2>4. opened[s] = 0
      BY <2>2, <2>3 DEF SlotOK
    <2> QED
      BY <1>1, <2>4 DEF GateIInv, TimesInv, TimesOK
  <1>2. GateIInv /\ [GateNext]_gateVars => [A]_gateVars
    BY <1>1
  <1> QED
    BY <1>2, GateInitially, GateKept, PTL DEF GateSpec, OpenedOnce

\* The gate takes tokens as the bucket does: no step of a mint takes one that
\* was not there.
THEOREM GateKeepsRate == GateSpec => []SpentWithinRate
  <1>1. GateIInv => SpentWithinRate
    BY RateFromBalance DEF GateIInv
  <1> QED
    BY <1>1, GateInitially, GateKept, PTL DEF GateSpec
===============================================================================
