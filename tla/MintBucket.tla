------------------------------ MODULE MintBucket ------------------------------
(***************************************************************************)
(* The token bucket that limits how often a member may begin a voice       *)
(* session or a fallback turn.  The level and the instant up to which it   *)
(* has been refilled are read, the refill is computed, and the write is    *)
(* conditional on the pair that was read.  Clocks are those of the         *)
(* invocations: the instant is taken before the bucket is read.            *)
(***************************************************************************)
EXTENDS Integers

CONSTANTS
  Takers,       \* concurrent invocations
  Capacity,     \* tokens of a full bucket (6)
  RefillTime,   \* time that makes one token (3 seconds)
  Attempts,     \* conditional writes tried before the caller is refused (4)
  MaxTime,      \* bound on the clock
  NoBucket      \* the member has no bucket yet

ASSUME BucketAssumption ==
  /\ Capacity \in Nat \ {0} /\ RefillTime \in Nat \ {0} /\ Attempts \in Nat \ {0}
  /\ MaxTime \in Nat
  /\ NoBucket \notin [tokens : 0..Capacity, last : Nat]

VARIABLES
  clock,
  bucket,  \* tokens left, and the instant up to which it is refilled
  taker,   \* what each invocation has read
  spent,   \* history: tokens taken
  born     \* history: the instant the bucket was created for

bucketVars == <<clock, bucket, taker, spent, born>>

Bucket == [tokens : 0..Capacity, last : Nat]

Taker == [pc : {"idle", "begin", "read", "write", "took", "refused"},
          now : 0..MaxTime, seen : Bucket \cup {NoBucket}, tries : 0..Attempts]

\* Where an invocation is, and what it has read.
At(pc, now, seen, tries) == [pc |-> pc, now |-> now, seen |-> seen, tries |-> tries]
Resting == At("idle", 0, NoBucket, 0)

BucketTypeOK ==
  /\ clock \in 0..MaxTime
  /\ bucket \in Bucket \cup {NoBucket}
  /\ taker \in [Takers -> Taker]
  /\ spent \in Nat /\ born \in 0..MaxTime

BucketInit ==
  /\ clock = 0
  /\ bucket = NoBucket
  /\ taker = [p \in Takers |-> Resting]
  /\ spent = 0 /\ born = 0

Move(p, t) == taker' = [taker EXCEPT ![p] = t]

-----------------------------------------------------------------------------
\* What is left after one token is taken at an instant from a bucket that was
\* read.  Whole steps are credited, so that the time of an unfinished step is
\* kept; a full bucket keeps none.
Steps(b, now) == IF now < b.last THEN 0 ELSE (now - b.last) \div RefillTime
Available(b, now) == b.tokens + Steps(b, now)
TakenFrom(b, now) ==
  IF Available(b, now) >= Capacity
  THEN [tokens |-> Capacity - 1, last |-> now]
  ELSE [tokens |-> Available(b, now) - 1, last |-> b.last + Steps(b, now) * RefillTime]

Ask(p) ==
  /\ taker[p].pc = "idle"
  /\ Move(p, At("begin", 0, NoBucket, 0))
  /\ UNCHANGED <<clock, bucket, spent, born>>

LookAtClock(p) ==
  /\ taker[p].pc = "begin"
  /\ Move(p, At("read", clock, NoBucket, taker[p].tries))
  /\ UNCHANGED <<clock, bucket, spent, born>>

ReadBucket(p) ==
  /\ taker[p].pc = "read"
  /\ IF bucket # NoBucket /\ Available(bucket, taker[p].now) < 1
     THEN Move(p, At("refused", 0, NoBucket, 0))
     ELSE Move(p, At("write", taker[p].now, bucket, taker[p].tries))
  /\ UNCHANGED <<clock, bucket, spent, born>>

\* A write whose condition fails is tried again from a fresh read.
Again(p) ==
  /\ IF taker[p].tries + 1 = Attempts
     THEN Move(p, At("refused", 0, NoBucket, 0))
     ELSE Move(p, At("begin", 0, NoBucket, taker[p].tries + 1))
  /\ UNCHANGED <<bucket, spent, born>>

\* Mutant: the condition names the level and not the instant.
WriteOnLevel(p) ==
  LET seen == taker[p].seen IN
  /\ taker[p].pc = "write" /\ seen # NoBucket
  /\ IF bucket.tokens = seen.tokens
     THEN /\ bucket' = TakenFrom(seen, taker[p].now)
          /\ spent' = spent + 1
          /\ Move(p, At("took", 0, NoBucket, 0)) /\ UNCHANGED born
     ELSE Again(p)
  /\ UNCHANGED clock

Write(p) ==
  LET seen == taker[p].seen IN
  /\ taker[p].pc = "write" /\ seen # NoBucket
  /\ IF bucket = seen
     THEN /\ bucket' = TakenFrom(seen, taker[p].now)
          /\ spent' = spent + 1
          /\ Move(p, At("took", 0, NoBucket, 0)) /\ UNCHANGED born
     ELSE Again(p)
  /\ UNCHANGED clock

\* The first token: the bucket is created without it.
Create(p) ==
  /\ taker[p].pc = "write" /\ taker[p].seen = NoBucket
  /\ IF bucket = NoBucket
     THEN /\ bucket' = [tokens |-> Capacity - 1, last |-> taker[p].now]
          /\ spent' = 1 /\ born' = taker[p].now
          /\ Move(p, At("took", 0, NoBucket, 0))
     ELSE Again(p)
  /\ UNCHANGED clock

\* The answer: the caller was given a token or is refused; a call of the table
\* that fails ends it as well.
Leave(p) ==
  /\ taker[p].pc # "idle"
  /\ Move(p, Resting)
  /\ UNCHANGED <<clock, bucket, spent, born>>

ClockTicks ==
  /\ clock < MaxTime /\ clock' = clock + 1
  /\ UNCHANGED <<bucket, taker, spent, born>>

TakeToken(p) == LookAtClock(p) \/ ReadBucket(p) \/ Write(p) \/ Create(p)

BucketNext == ClockTicks \/ \E p \in Takers : Ask(p) \/ TakeToken(p) \/ Leave(p)

BucketSpec == BucketInit /\ [][BucketNext]_bucketVars

-----------------------------------------------------------------------------
\* Nobody gets a token that was not there: however the invocations interleave
\* and however old the instants they reckon with, the tokens taken since the
\* bucket was created are its capacity and one for every RefillTime since.
SpentWithinRate == spent > 0 => spent <= Capacity + ((clock - born) \div RefillTime)
===============================================================================
