----------------------------- MODULE PhoneProofs -----------------------------
(***************************************************************************)
(* Proofs about PhoneResearch, for any number of invocations, handlers and *)
(* hotels.                                                                 *)
(*                                                                         *)
(* The calls.  An attempt row that is not over and the shared lock belong  *)
(* together, so there is one such row at a time; the invocation that       *)
(* reserved it is the only one that can dial it, and a call on the line    *)
(* has such a row until its end is known.                                  *)
(*                                                                         *)
(* The commands.  An invocation may act on a command only while a write of *)
(* its copies is not refused.  An invocation that holds the present job    *)
(* and is on its way to a reservation has seen "run" as its command; one   *)
(* that holds the present control row and stops the run keeps the others   *)
(* from being on that way, because they need that row to get there.  So a  *)
(* row that says paused or cancelled was saved when no attempt was open    *)
(* and nobody could open one, and this lasts until the job's command       *)
(* changes.  The views and the job's own status follow the row.            *)
(***************************************************************************)
EXTENDS PhoneResearch, TLAPS

USE PhoneAssumption

-----------------------------------------------------------------------------
(***************************************************************************)
(* The invariant of the calls.                                             *)
(***************************************************************************)
Present == {"creating", "unknown", "live"}

\* A hotel that is not dialed has no call; a call on the line has an attempt that
\* is not over; such an attempt holds the lock.
HotelOK(t) ==
  /\ attempt[t] = "none" => dialed[t] = 0
  /\ attempt[t] \in {"unknown", "live", "ended"} => dialed[t] = 1
  /\ dialed[t] <= 1
  /\ dialed[t] = 0 => line[t] = "none"
  /\ line[t] = "live" => attempt[t] \in Present
  /\ attempt[t] \in Present => lock = t

\* An invocation that has reserved an attempt is the one that dials it.
Reserved(w) == worker[w].pc \in {"recheck", "dial", "revoke", "answer"}

ReservedOK(w) ==
  LET t == worker[w].hotel IN
  /\ worker[w].pc \in {"reserve", "lookup", "terminate"} \/ Reserved(w) => t \in Hotels
  /\ worker[w].pc \in {"recheck", "dial", "revoke"} => attempt[t] = "creating" /\ dialed[t] = 0
  /\ worker[w].pc = "answer" =>
       /\ attempt[t] \in {"creating", "live", "ended"} /\ dialed[t] = 1
       /\ worker[w].answer = "rejected" => attempt[t] = "creating" /\ line[t] = "none"
  /\ worker[w].pc \in {"lookup", "terminate"} => attempt[t] \in {"live", "ended"}
  /\ Reserved(w) => \A v \in Workers \ {w} : Reserved(v) => worker[v].hotel # t

CallsInv ==
  /\ \A t \in Hotels : HotelOK(t)
  /\ \A w \in Workers : ReservedOK(w)
  /\ line[Elsewhere] = "live" => lock = Elsewhere

-----------------------------------------------------------------------------
(***************************************************************************)
(* The invariant of the commands.                                          *)
(***************************************************************************)
RowFresh(w) == "row" \in worker[w].fresh
JobFresh(w) == "job" \in worker[w].fresh

\* An invocation on its way to a reservation, with the present job.
Armed(w) == worker[w].pc \in {"look", "lookup", "choose", "reserve"} /\ JobFresh(w)
NobodyArmed == \A w \in Workers : ~Armed(w)

\* What an invocation knows of the job.
Informed(w) ==
  /\ worker[w].pc \in {"start", "look", "lookup", "choose", "reserve"} /\ JobFresh(w)
       => job.command = "run"
  /\ worker[w].pc \in {"start", "stop"} =>
       /\ worker[w].cv <= job.cv
       /\ worker[w].cv = job.cv => worker[w].command = job.command
  /\ worker[w].pc = "stop" => worker[w].command \in Stops

\* An invocation that stops the run and has the present control row: nobody starts
\* a call before another writes the row.
StoppingOK(w) ==
  worker[w].pc \in {"stop", "stopLook", "terminate", "stopped"} /\ RowFresh(w) =>
    /\ NobodyArmed
    /\ worker[w].pc # "stop" => control.command \in Stops
    /\ worker[w].pc = "terminate" => Active \subseteq {worker[w].hotel}
    /\ worker[w].pc = "stopped" => Active = {}

\* The run is stopped, and so is the command.
Halted == job.command \in Stops /\ Active = {}

ControlOK ==
  /\ control.cv <= job.cv
  /\ control.cv = job.cv => control.command = job.command
  /\ control.status \in {"paused", "cancelled"} =>
       /\ Active = {} /\ NobodyArmed
       /\ control.cv = job.cv /\ job.cv > 0 => Halted
  /\ control.version > 0 => job.cv > 0

SeenOK(h) ==
  seen[h] # NoView =>
    /\ control.version > 0
    /\ seen[h].cv <= job.cv
    /\ seen[h].status \in {"paused", "cancelled"} /\ seen[h].cv = job.cv => Halted

JobOK ==
  /\ job.run = "none" => job.cv = 0
  /\ job.cv = 0 => \A t \in Hotels : attempt[t] = "none"
  /\ job.run # "none" => job.cv > 0
  /\ job.run \in {"paused", "cancelled"} => Halted
  /\ job.run = "succeeded" => \A t \in Hotels : attempt[t] \in Ended

StopInv ==
  /\ \A w \in Workers : Informed(w) /\ StoppingOK(w)
  /\ ControlOK /\ JobOK
  /\ \A h \in Handlers : SeenOK(h)
  /\ \A w \in Workers : worker[w].pc # "idle" => job.cv > 0

PhoneIInv == PhoneTypeOK /\ CallsInv /\ StopInv

-----------------------------------------------------------------------------
(***************************************************************************)
(* How an invocation moves on.                                             *)
(***************************************************************************)
Pcs == {"idle", "control", "authorize", "stop", "stopLook", "terminate", "stopped", "start", "look",
        "lookup", "choose", "reserve", "recheck", "dial", "answer", "revoke", "block", "accepted",
        "succeed", "touch"}

Work == [pc : Pcs, cv : 0..MaxCommands, command : {"run"} \cup Stops, hotel : Hotels \cup {NoHotel},
         answer : {"none", "accepted", "rejected", "ambiguous", "event", "end"},
         fresh : SUBSET {"job", "row"}]

WorkersOK == worker \in [Workers -> Work]

\* w becomes k, and the others stay as they are.
Becomes(w, k) ==
  /\ worker'[w] = k
  /\ \A v \in Workers \ {w} : worker'[v] = worker[v]

LEMMA WorkersTyped == PhoneTypeOK => WorkersOK
  BY DEF PhoneTypeOK, WorkersOK, Work, Pcs

LEMMA StillTyped ==
  /\ Still \in Work
  /\ Still.pc = "idle" /\ Still.command = "run" /\ Still.fresh = {}
  BY DEF Still, Work, Pcs

LEMMA SetBecomes ==
  ASSUME WorkersOK, NEW w \in Workers, NEW k, worker' = [worker EXCEPT ![w] = k]
  PROVE  Becomes(w, k) /\ (k \in Work => WorkersOK')
  BY DEF WorkersOK, Becomes

LEMMA WorkerTyped == ASSUME WorkersOK, NEW w \in Workers PROVE worker[w] \in Work
  BY DEF WorkersOK

\* w goes on to pc, with what it knows of the command.
Moves(w, pc, hotel, answer) ==
  /\ worker'[w].pc = pc /\ worker'[w].hotel = hotel /\ worker'[w].answer = answer
  /\ worker'[w].cv = worker[w].cv /\ worker'[w].command = worker[w].command
  /\ worker'[w].fresh \subseteq worker[w].fresh
  /\ \A v \in Workers \ {w} : worker'[v] = worker[v]

LEMMA ToMoves ==
  ASSUME WorkersOK, NEW w \in Workers, NEW pc \in Pcs, To(w, pc)
  PROVE  WorkersOK' /\ Moves(w, pc, worker[w].hotel, worker[w].answer)
  <1> DEFINE k == [worker[w] EXCEPT !.pc = pc]
  <1>1. /\ k \in Work /\ k.pc = pc /\ k.hotel = worker[w].hotel /\ k.answer = worker[w].answer
        /\ k.cv = worker[w].cv /\ k.command = worker[w].command /\ k.fresh = worker[w].fresh
    BY WorkerTyped DEF Work
  <1>2. worker' = [worker EXCEPT ![w] = k]
    BY DEF To
  <1> HIDE DEF k
  <1> QED
    BY <1>1, <1>2, SetBecomes DEF Becomes, Moves

LEMMA HotelMoves ==
  ASSUME WorkersOK, NEW w \in Workers, NEW pc \in Pcs, NEW t \in Hotels \cup {NoHotel},
         worker' = [worker EXCEPT ![w] = [@ EXCEPT !.pc = pc, !.hotel = t]]
  PROVE  WorkersOK' /\ Moves(w, pc, t, worker[w].answer)
  <1> DEFINE k == [worker[w] EXCEPT !.pc = pc, !.hotel = t]
  <1>1. /\ k \in Work /\ k.pc = pc /\ k.hotel = t /\ k.answer = worker[w].answer
        /\ k.cv = worker[w].cv /\ k.command = worker[w].command /\ k.fresh = worker[w].fresh
    BY WorkerTyped DEF Work
  <1>2. worker' = [worker EXCEPT ![w] = k]
    OBVIOUS
  <1> HIDE DEF k
  <1>3. Becomes(w, k) /\ WorkersOK'
    BY <1>1, <1>2, SetBecomes
  <1> QED
    BY <1>1, <1>3 DEF Becomes, Moves

LEMMA QuitBecomes ==
  ASSUME WorkersOK, NEW w \in Workers, Quit(w)
  PROVE  Becomes(w, Still) /\ WorkersOK'
  BY SetBecomes, StillTyped DEF Quit

\* What is left of an invocation that is about to save the control row.
Leaves(w, pc) ==
  /\ worker'[w].pc = pc /\ worker'[w].fresh \subseteq worker[w].fresh
  /\ pc = "stopped" => worker'[w].command = worker[w].command
  /\ \A v \in Workers \ {w} : worker'[v] = worker[v]

LEMMA ToSaveLeaves ==
  ASSUME WorkersOK, NEW w \in Workers, NEW pc \in Pcs, ToSave(w, pc)
  PROVE  WorkersOK' /\ Leaves(w, pc)
  <1> DEFINE command == IF pc = "stopped" THEN worker[w].command ELSE Still.command
             fresh == worker[w].fresh \ {"job"}
             k == [Still EXCEPT !.pc = pc, !.command = command, !.fresh = fresh]
  <1>1. command \in {"run"} \cup Stops /\ fresh \in SUBSET {"job", "row"}
    BY WorkerTyped, StillTyped DEF Work
  <1>2. (pc = "stopped" => command = worker[w].command) /\ fresh \subseteq worker[w].fresh
    OBVIOUS
  <1>3. worker' = [worker EXCEPT ![w] = k]
    BY DEF ToSave
  <1>4. k \in Work /\ k.pc = pc /\ k.command = command /\ k.fresh = fresh
    <2> HIDE DEF command, fresh
    <2> QED
      BY <1>1, StillTyped DEF Work
  <1> HIDE DEF k, command, fresh
  <1> QED
    BY <1>2, <1>3, <1>4, SetBecomes DEF Becomes, Leaves

LEMMA ToBlockLeaves ==
  ASSUME WorkersOK, NEW w \in Workers, ToBlock(w)
  PROVE  WorkersOK' /\ Leaves(w, "block")
  BY ToSaveLeaves DEF ToBlock, Pcs

\* v keeps all but one of its copies.
Ages(v, copy) ==
  /\ worker'[v].pc = worker[v].pc /\ worker'[v].cv = worker[v].cv
  /\ worker'[v].command = worker[v].command /\ worker'[v].hotel = worker[v].hotel
  /\ worker'[v].answer = worker[v].answer /\ worker'[v].fresh = worker[v].fresh \ {copy}

LEMMA OutdatedTyped ==
  ASSUME NEW k \in Work, NEW copy
  PROVE  /\ Outdated(k, copy) \in Work
         /\ Outdated(k, copy) = [pc |-> k.pc, cv |-> k.cv, command |-> k.command, hotel |-> k.hotel,
                                 answer |-> k.answer, fresh |-> k.fresh \ {copy}]
  BY DEF Outdated, Work

LEMMA SaveBecomes ==
  ASSUME WorkersOK, NEW w \in Workers, NEW c, NEW next \in Work, Save(w, c, next)
  PROVE  /\ WorkersOK'
         /\ \/ /\ RowFresh(w) /\ control.version < MaxVersion
               /\ control' = [c EXCEPT !.version = control.version + 1]
               /\ worker'[w] = next
               /\ \A v \in Workers \ {w} : Ages(v, "row")
            \/ UNCHANGED control /\ Becomes(w, Still)
  <1>1. CASE RowFresh(w)
    <2>1. /\ control.version < MaxVersion /\ control' = [c EXCEPT !.version = control.version + 1]
          /\ worker' = [v \in Workers |-> IF v = w THEN next ELSE Outdated(worker[v], "row")]
      BY <1>1 DEF Save, RowFresh
    <2>2. \A v \in Workers : worker[v] \in Work
      BY DEF WorkersOK
    <2>3. \A v \in Workers \ {w} : Ages(v, "row")
      BY <2>1, <2>2, OutdatedTyped DEF Ages
    <2>4. WorkersOK'
      BY <2>1, <2>2, OutdatedTyped DEF WorkersOK
    <2> QED
      BY <1>1, <2>1, <2>3, <2>4
  <1>2. CASE ~RowFresh(w)
    BY <1>2, QuitBecomes DEF Save, RowFresh
  <1> QED
    BY <1>1, <1>2

LEMMA SetJobAges ==
  ASSUME WorkersOK, NEW j, SetJob(j)
  PROVE  WorkersOK' /\ job' = j /\ \A v \in Workers : Ages(v, "job")
  <1>1. \A v \in Workers : worker[v] \in Work
    BY DEF WorkersOK
  <1> QED
    BY <1>1, OutdatedTyped DEF SetJob, WorkersOK, Ages

LEMMA DispatchMoves ==
  ASSUME PhoneTypeOK, NEW w \in Workers, DispatchPhone(w)
  PROVE  /\ WorkersOK'
         /\ \E k : Becomes(w, k) /\ k.pc = "control"
  <1> DEFINE k == [Still EXCEPT !.pc = "control", !.cv = job.cv]
  <1>1. job.cv \in 0..MaxCommands
    BY DEF PhoneTypeOK
  <1>2. k \in Work /\ k.pc = "control"
    BY <1>1, StillTyped DEF Work, Pcs
  <1>3. worker' = [worker EXCEPT ![w] = k]
    BY DEF DispatchPhone
  <1> HIDE DEF k
  <1> QED
    BY <1>2, <1>3, WorkersTyped, SetBecomes

LEMMA CallbackMoves ==
  ASSUME PhoneTypeOK, NEW w \in Workers, NEW t \in Hotels, Callback(w, t)
  PROVE  /\ WorkersOK'
         /\ \E k : Becomes(w, k) /\ k.pc = "control"
  <1>1. PICK e \in {"event", "end"} :
          worker' = [worker EXCEPT ![w] = [Still EXCEPT !.pc = "control", !.answer = e]]
    BY DEF Callback
  <1> DEFINE k == [Still EXCEPT !.pc = "control", !.answer = e]
  <1>2. k \in Work /\ k.pc = "control"
    BY StillTyped DEF Work, Pcs
  <1>3. worker' = [worker EXCEPT ![w] = k]
    BY <1>1
  <1> HIDE DEF k
  <1> QED
    BY <1>2, <1>3, WorkersTyped, SetBecomes

LEMMA ReadControlMoves ==
  ASSUME PhoneTypeOK, NEW w \in Workers, ReadControl(w)
  PROVE  /\ WorkersOK'
         /\ \E k : Becomes(w, k) /\ k.pc \in {"idle", "touch", "authorize"}
  <1> USE WorkersTyped
  <1> DEFINE read == [worker[w] EXCEPT !.fresh = @ \cup {"row"}]
             stopping == control.status = "blocked" /\ control.command \in Stops
             k == CASE worker[w].answer = "event" /\ ~stopping -> [read EXCEPT !.pc = "touch"]
                    [] worker[w].answer = "end" /\ ~stopping /\ control.status # "running" -> Still
                    [] OTHER -> [read EXCEPT !.pc = "authorize"]
  <1>1. read \in Work
    BY WorkerTyped DEF Work
  <1>2. /\ [read EXCEPT !.pc = "touch"] \in Work /\ [read EXCEPT !.pc = "touch"].pc = "touch"
        /\ [read EXCEPT !.pc = "authorize"] \in Work
        /\ [read EXCEPT !.pc = "authorize"].pc = "authorize"
        /\ Still \in Work /\ Still.pc = "idle"
    <2> HIDE DEF read
    <2> QED
      BY <1>1, StillTyped DEF Work, Pcs, Still
  <1>3. k \in Work /\ k.pc \in {"idle", "touch", "authorize"}
    <2> HIDE DEF read
    <2>1. k \in {[read EXCEPT !.pc = "touch"], [read EXCEPT !.pc = "authorize"], Still}
      OBVIOUS
    <2> QED
      BY <2>1, <1>2
  <1>4. worker' = [worker EXCEPT ![w] = k]
    BY DEF ReadControl
  <1> HIDE DEF k
  <1> QED
    BY <1>3, <1>4, SetBecomes

LEMMA AuthorizeMoves ==
  ASSUME PhoneTypeOK, NEW w \in Workers, Authorize(w)
  PROVE  /\ WorkersOK'
         /\ \E k : /\ Becomes(w, k)
                   /\ \/ k.pc \in {"idle", "block"}
                      \/ /\ k.pc = "stop" /\ job.command # "run"
                         /\ k.cv = job.cv /\ k.command = job.command
                      \/ /\ k.pc = "start" /\ job.command = "run"
                         /\ k.cv = job.cv /\ k.command = job.command
  <1> USE WorkersTyped
  <1>1. CASE Quit(w)
    BY <1>1, QuitBecomes DEF Still
  <1>2. CASE ToBlock(w)
    BY <1>2, ToBlockLeaves DEF Leaves, Becomes
  <1>3. worker[w].fresh \in SUBSET {"job", "row"} /\ job.cv \in 0..MaxCommands
        /\ job.command \in {"run"} \cup Stops
    BY WorkerTyped DEF Work, PhoneTypeOK
  <1> DEFINE go == [Still EXCEPT !.cv = job.cv, !.command = job.command, !.fresh = worker[w].fresh]
  <1>4. go \in Work /\ go.cv = job.cv /\ go.command = job.command /\ go.fresh = worker[w].fresh
    BY <1>3, StillTyped DEF Work
  <1>5. CASE ~Quit(w) /\ ~ToBlock(w)
    <2>1. worker' = [worker EXCEPT ![w] = IF job.command # "run" THEN [go EXCEPT !.pc = "stop"]
                                          ELSE [go EXCEPT !.pc = "start", !.fresh = @ \cup {"job"}]]
      BY <1>5 DEF Authorize
    <2> DEFINE stop == [go EXCEPT !.pc = "stop"]
               start == [go EXCEPT !.pc = "start", !.fresh = @ \cup {"job"}]
    <2>2. /\ stop \in Work /\ stop.pc = "stop"
          /\ stop.cv = job.cv /\ stop.command = job.command
      <3> HIDE DEF go
      <3> QED
        BY <1>4 DEF Work, Pcs
    <2>3. /\ start \in Work /\ start.pc = "start"
          /\ start.cv = job.cv /\ start.command = job.command
      <3> HIDE DEF go
      <3> QED
        BY <1>3, <1>4 DEF Work, Pcs
    <2>4. CASE job.command = "run"
      <3>1. worker' = [worker EXCEPT ![w] = start]
        BY <2>1, <2>4
      <3> HIDE DEF start, stop, go
      <3> QED
        BY <3>1, <2>3, <2>4, SetBecomes
    <2>5. CASE job.command # "run"
      <3>1. worker' = [worker EXCEPT ![w] = stop]
        BY <2>1, <2>5
      <3> HIDE DEF start, stop, go
      <3> QED
        BY <3>1, <2>2, <2>5, SetBecomes
    <2> QED
      BY <2>4, <2>5
  <1> QED
    BY <1>1, <1>2, <1>5

LEMMA ReserveMoves ==
  ASSUME WorkersOK, NEW w \in Workers,
         worker' = [worker EXCEPT ![w] = [Outdated(@, "job") EXCEPT !.pc = "recheck"]]
  PROVE  WorkersOK' /\ Moves(w, "recheck", worker[w].hotel, worker[w].answer)
  <1> DEFINE old == Outdated(worker[w], "job")
             k == [old EXCEPT !.pc = "recheck"]
  <1>1. /\ old \in Work /\ old.hotel = worker[w].hotel /\ old.answer = worker[w].answer
        /\ old.cv = worker[w].cv /\ old.command = worker[w].command
        /\ old.fresh \subseteq worker[w].fresh
    BY WorkerTyped, OutdatedTyped DEF Work
  <1>2. worker' = [worker EXCEPT ![w] = k]
    OBVIOUS
  <1> HIDE DEF old
  <1>3. /\ k \in Work /\ k.pc = "recheck" /\ k.hotel = old.hotel /\ k.answer = old.answer
        /\ k.cv = old.cv /\ k.command = old.command /\ k.fresh = old.fresh
    BY <1>1 DEF Work, Pcs
  <1> HIDE DEF k
  <1>4. Becomes(w, k) /\ WorkersOK'
    BY <1>2, <1>3, SetBecomes
  <1> QED
    BY <1>1, <1>3, <1>4 DEF Becomes, Moves

LEMMA DialMoves ==
  ASSUME WorkersOK, NEW w \in Workers, NEW a \in {"accepted", "rejected", "ambiguous"},
         worker' = [worker EXCEPT ![w] = [@ EXCEPT !.pc = "answer", !.answer = a]]
  PROVE  WorkersOK' /\ Moves(w, "answer", worker[w].hotel, a)
  <1> DEFINE k == [worker[w] EXCEPT !.pc = "answer", !.answer = a]
  <1>1. /\ k \in Work /\ k.pc = "answer" /\ k.hotel = worker[w].hotel /\ k.answer = a
        /\ k.cv = worker[w].cv /\ k.command = worker[w].command /\ k.fresh = worker[w].fresh
    BY WorkerTyped DEF Work, Pcs
  <1>2. worker' = [worker EXCEPT ![w] = k]
    OBVIOUS
  <1> HIDE DEF k
  <1>3. Becomes(w, k) /\ WorkersOK'
    BY <1>1, <1>2, SetBecomes
  <1> QED
    BY <1>1, <1>3 DEF Becomes, Moves

-----------------------------------------------------------------------------
(***************************************************************************)
(* The invariant of the calls is kept.                                     *)
(***************************************************************************)
\* Where an invocation is about a hotel.
Bound == {"reserve", "lookup", "terminate", "recheck", "dial", "revoke", "answer"}
Keeps(w) ==
  /\ worker'[w].pc = worker[w].pc /\ worker'[w].hotel = worker[w].hotel
  /\ worker'[w].answer = worker[w].answer
Loose(w) == worker'[w].pc \notin Bound \/ Keeps(w)

CallsTyped ==
  /\ attempt \in [Hotels -> {"none", "creating", "unknown", "live"} \cup Ended]
  /\ lock \in Calls \cup {NoHotel}
  /\ line \in [Calls -> {"none", "live", "over"}] /\ dialed \in [Hotels -> Nat]

LEMMA CallsRest ==
  ASSUME CallsInv, UNCHANGED calls,
         \A w \in Workers :
           \/ Loose(w)
           \/ worker'[w].pc = "reserve" /\ worker'[w].hotel \in Hotels
           \/ /\ worker'[w].pc \in {"lookup", "terminate"} /\ worker'[w].hotel \in Hotels
              /\ attempt[worker'[w].hotel] = "live"
           \/ /\ worker[w].pc = "recheck" /\ worker'[w].pc \in {"dial", "revoke"}
              /\ worker'[w].hotel = worker[w].hotel
  PROVE  CallsInv'
  <1>1. ASSUME NEW t \in Hotels PROVE HotelOK(t)'
    BY DEF CallsInv, HotelOK, calls, Present
  <1>2. line'[Elsewhere] = "live" => lock' = Elsewhere
    BY DEF CallsInv, calls
  <1>3. ASSUME NEW w \in Workers PROVE ReservedOK(w)'
    <2>1. \A v \in Workers : Reserved(v)' => Reserved(v) /\ worker'[v].hotel = worker[v].hotel
      BY DEF Reserved, Loose, Keeps, Bound
    <2>2. ReservedOK(w)
      BY DEF CallsInv
    <2>3. CASE Loose(w)
      BY <2>1, <2>2, <2>3 DEF ReservedOK, Reserved, Loose, Keeps, Bound, calls
    <2>4. CASE worker'[w].pc = "reserve" /\ worker'[w].hotel \in Hotels
      BY <2>4 DEF ReservedOK, Reserved
    <2>5. CASE /\ worker'[w].pc \in {"lookup", "terminate"} /\ worker'[w].hotel \in Hotels
               /\ attempt[worker'[w].hotel] = "live"
      BY <2>5 DEF ReservedOK, Reserved, calls
    <2>6. CASE /\ worker[w].pc = "recheck" /\ worker'[w].pc \in {"dial", "revoke"}
               /\ worker'[w].hotel = worker[w].hotel
      BY <2>1, <2>2, <2>6 DEF ReservedOK, Reserved, calls
    <2> QED
      BY <2>3, <2>4, <2>5, <2>6
  <1> QED
    BY <1>1, <1>2, <1>3 DEF CallsInv

\* A call that was created ends, on the line and in its attempt row.
LEMMA CallsConclude ==
  ASSUME CallsTyped, CallsInv, NEW t \in Hotels, attempt[t] \in {"live", "ended"} \/ line[t] # "none",
         line' = [line EXCEPT ![t] = "over"], Conclude(t), UNCHANGED dialed,
         \A w \in Workers : Loose(w)
  PROVE  CallsInv'
  <1>1. HotelOK(t) /\ dialed[t] = 1 /\ attempt[t] # "none"
    BY DEF CallsInv, HotelOK, CallsTyped
  <1>2. /\ attempt' = [attempt EXCEPT ![t] = "ended"] /\ t \in Calls /\ t # Elsewhere
        /\ lock' = IF lock = t THEN NoHotel ELSE lock
    BY DEF Conclude, Release, Calls
  <1>3. ASSUME NEW u \in Hotels PROVE HotelOK(u)'
    <2>1. HotelOK(u) /\ u \in Calls
      BY DEF CallsInv, Calls
    <2>2. CASE u = t
      BY <1>1, <1>2, <2>2 DEF HotelOK, CallsTyped, Present
    <2>3. CASE u # t
      BY <1>1, <1>2, <2>1, <2>3 DEF HotelOK, CallsTyped, Present
    <2> QED
      BY <2>2, <2>3
  <1>4. line'[Elsewhere] = "live" => lock' = Elsewhere
    BY <1>2 DEF CallsInv, CallsTyped, Calls
  <1>5. ASSUME NEW w \in Workers PROVE ReservedOK(w)'
    <2>1. \A v \in Workers : Reserved(v)' => Reserved(v) /\ worker'[v].hotel = worker[v].hotel
      BY DEF Reserved, Loose, Keeps, Bound
    <2>2. ReservedOK(w)
      BY DEF CallsInv
    <2>3. CASE worker'[w].pc \notin Bound
      BY <2>3 DEF ReservedOK, Reserved, Bound
    <2>4. CASE Keeps(w) /\ worker[w].hotel = t
      BY <1>1, <1>2, <2>1, <2>2, <2>4 DEF ReservedOK, Reserved, Keeps, CallsTyped
    <2>5. CASE Keeps(w) /\ worker[w].hotel # t
      <3>1. \A u \in Hotels \ {t} : attempt'[u] = attempt[u] /\ line'[u] = line[u] /\ dialed'[u] = dialed[u]
        BY <1>2 DEF CallsTyped, Calls
      <3> QED
        BY <3>1, <2>1, <2>2, <2>5 DEF ReservedOK, Reserved, Keeps
    <2> QED
      BY <2>3, <2>4, <2>5 DEF Loose
  <1> QED
    BY <1>3, <1>4, <1>5 DEF CallsInv

\* A call that was created ends on the line.
LEMMA CallsOver ==
  ASSUME CallsTyped, CallsInv, NEW t \in Hotels, attempt[t] \in {"live", "ended"} \/ line[t] # "none",
         line' = [line EXCEPT ![t] = "over"], UNCHANGED <<attempt, lock, dialed>>,
         \A w \in Workers : Loose(w)
  PROVE  CallsInv'
  <1>1. HotelOK(t) /\ dialed[t] = 1 /\ attempt[t] # "none"
    BY DEF CallsInv, HotelOK, CallsTyped
  <1>2. t \in Calls /\ t # Elsewhere
    BY DEF Calls
  <1>3. ASSUME NEW u \in Hotels PROVE HotelOK(u)'
    <2>1. HotelOK(u) /\ u \in Calls
      BY DEF CallsInv, Calls
    <2> QED
      BY <1>1, <1>2, <2>1 DEF HotelOK, CallsTyped, Present
  <1>4. line'[Elsewhere] = "live" => lock' = Elsewhere
    BY <1>2 DEF CallsInv, CallsTyped, Calls
  <1>5. ASSUME NEW w \in Workers PROVE ReservedOK(w)'
    <2>1. \A v \in Workers : Reserved(v)' => Reserved(v) /\ worker'[v].hotel = worker[v].hotel
      BY DEF Reserved, Loose, Keeps, Bound
    <2>2. ReservedOK(w)
      BY DEF CallsInv
    <2>3. CASE worker'[w].pc \notin Bound
      BY <2>3 DEF ReservedOK, Reserved, Bound
    <2>4. CASE Keeps(w) /\ worker[w].hotel = t
      BY <1>1, <1>2, <2>1, <2>2, <2>4 DEF ReservedOK, Reserved, Keeps, CallsTyped
    <2>5. CASE Keeps(w) /\ worker[w].hotel # t
      <3>1. \A u \in Hotels \ {t} : attempt'[u] = attempt[u] /\ line'[u] = line[u] /\ dialed'[u] = dialed[u]
        BY <1>2 DEF CallsTyped, Calls
      <3> QED
        BY <3>1, <2>1, <2>2, <2>5 DEF ReservedOK, Reserved, Keeps
    <2> QED
      BY <2>3, <2>4, <2>5 DEF Loose
  <1> QED
    BY <1>3, <1>4, <1>5 DEF CallsInv

\* What a change of one hotel's rows leaves alone.
LEMMA OthersKept ==
  ASSUME CallsTyped, CallsInv, NEW t \in Hotels, NEW w \in Workers, NEW v \in Workers \ {w},
         \A x \in Workers \ {w} : worker'[x] = worker[x],
         Reserved(w)' => worker'[w].hotel = t /\ \A x \in Workers \ {w} :
                                                   Reserved(x) => worker[x].hotel # t,
         \A u \in Hotels \ {t} : attempt'[u] = attempt[u] /\ line'[u] = line[u] /\ dialed'[u] = dialed[u],
         worker[v].hotel = t => ReservedOK(v)'
  PROVE  ReservedOK(v)'
  <1>1. worker'[v] = worker[v] /\ ReservedOK(v)
    BY DEF CallsInv
  <1>2. Reserved(v)' => \A x \in Workers \ {v} : Reserved(x)' => worker'[x].hotel # worker'[v].hotel
    BY <1>1 DEF ReservedOK, Reserved
  <1>3. CASE worker[v].hotel # t
    BY <1>1, <1>2, <1>3 DEF ReservedOK, Reserved
  <1> QED
    BY <1>3

LEMMA CallsReserve ==
  ASSUME CallsTyped, CallsInv, NEW w \in Workers, NEW t \in Hotels, worker[w].hotel = t,
         attempt[t] = "none", lock = NoHotel,
         attempt' = [attempt EXCEPT ![t] = "creating"], lock' = t, UNCHANGED <<line, dialed>>,
         Moves(w, "recheck", t, worker[w].answer)
  PROVE  CallsInv'
  <1>1. HotelOK(t) /\ dialed[t] = 0 /\ line[t] = "none"
    BY DEF CallsInv, HotelOK
  <1>2. \A u \in Hotels : attempt[u] \notin Present
    BY DEF CallsInv, HotelOK
  <1>3. \A v \in Workers : Reserved(v) => worker[v].hotel # t
    <2> TAKE v \in Workers
    <2>1. ReservedOK(v)
      BY DEF CallsInv
    <2> QED
      BY <2>1 DEF ReservedOK, Reserved
  <1>4. ASSUME NEW u \in Hotels PROVE HotelOK(u)'
    <2>1. HotelOK(u) /\ u \in Calls
      BY DEF CallsInv, Calls
    <2> QED
      BY <1>1, <1>2, <2>1 DEF HotelOK, CallsTyped, Present
  <1>5. line'[Elsewhere] = "live" => lock' = Elsewhere
    BY DEF CallsInv
  <1>6. ReservedOK(w)'
    BY <1>1, <1>3 DEF ReservedOK, Reserved, Moves, CallsTyped
  <1>7. ASSUME NEW v \in Workers \ {w} PROVE ReservedOK(v)'
    <2>1. worker[v].hotel = t => ReservedOK(v)'
      <3>1. ReservedOK(v) /\ worker'[v] = worker[v]
        BY DEF CallsInv, Moves
      <3> QED
        BY <3>1, <1>3 DEF ReservedOK, Reserved, Moves
    <2>2. \A u \in Hotels \ {t} : attempt'[u] = attempt[u] /\ line'[u] = line[u] /\ dialed'[u] = dialed[u]
      BY DEF CallsTyped
    <2> QED
      BY <1>3, <2>1, <2>2, OthersKept DEF Moves
  <1> QED
    BY <1>4, <1>5, <1>6, <1>7 DEF CallsInv

LEMMA CallsRevoke ==
  ASSUME CallsTyped, CallsInv, NEW w \in Workers, NEW t \in Hotels, worker[w].hotel = t,
         worker[w].pc = "revoke", attempt' = [attempt EXCEPT ![t] = "rejected"], Release(t),
         UNCHANGED <<line, dialed>>, Leaves(w, "block")
  PROVE  CallsInv'
  <1>1. HotelOK(t) /\ dialed[t] = 0 /\ line[t] = "none" /\ attempt[t] = "creating" /\ lock = t
    <2>1. ReservedOK(w) /\ HotelOK(t)
      BY DEF CallsInv
    <2> QED
      BY <2>1 DEF ReservedOK, HotelOK, Present
  <1>2. \A u \in Hotels \ {t} : attempt[u] \notin Present
    BY <1>1 DEF CallsInv, HotelOK
  <1>3. \A v \in Workers \ {w} : Reserved(v) => worker[v].hotel # t
    BY DEF CallsInv, ReservedOK, Reserved
  <1>4. ASSUME NEW u \in Hotels PROVE HotelOK(u)'
    <2>1. HotelOK(u) /\ u \in Calls
      BY DEF CallsInv, Calls
    <2> QED
      BY <1>1, <1>2, <2>1 DEF HotelOK, CallsTyped, Present
  <1>5. line'[Elsewhere] = "live" => lock' = Elsewhere
    BY <1>1 DEF CallsInv
  <1>6. ReservedOK(w)' /\ ~Reserved(w)'
    BY DEF ReservedOK, Reserved, Leaves
  <1>7. ASSUME NEW v \in Workers \ {w} PROVE ReservedOK(v)'
    <2>1. worker[v].hotel = t => ReservedOK(v)'
      <3>1. ReservedOK(v) /\ worker'[v] = worker[v]
        BY DEF CallsInv, Leaves
      <3> QED
        BY <3>1, <1>1, <1>3 DEF ReservedOK, Reserved, Leaves
    <2>2. \A u \in Hotels \ {t} : attempt'[u] = attempt[u] /\ line'[u] = line[u] /\ dialed'[u] = dialed[u]
      BY DEF CallsTyped
    <2> QED
      BY <1>6, <2>1, <2>2, OthersKept DEF Leaves
  <1> QED
    BY <1>4, <1>5, <1>6, <1>7 DEF CallsInv

LEMMA CallsDial ==
  ASSUME CallsTyped, CallsInv, NEW w \in Workers, NEW t \in Hotels, worker[w].hotel = t,
         worker[w].pc = "dial", NEW a \in {"accepted", "rejected", "ambiguous"},
         dialed' = [dialed EXCEPT ![t] = @ + 1],
         \/ a # "rejected" /\ line' = [line EXCEPT ![t] = "live"]
         \/ a # "accepted" /\ UNCHANGED line,
         UNCHANGED <<attempt, lock>>, Moves(w, "answer", t, a)
  PROVE  CallsInv'
  <1>1. HotelOK(t) /\ dialed[t] = 0 /\ line[t] = "none" /\ attempt[t] = "creating" /\ lock = t
    <2>1. ReservedOK(w) /\ HotelOK(t)
      BY DEF CallsInv
    <2> QED
      BY <2>1 DEF ReservedOK, HotelOK, Present
  <1>2. t \in Calls /\ t # Elsewhere /\ dialed'[t] = 1
    BY <1>1 DEF Calls, CallsTyped
  <1>3. \A v \in Workers \ {w} : Reserved(v) => worker[v].hotel # t
    BY DEF CallsInv, ReservedOK, Reserved
  <1>4. ASSUME NEW u \in Hotels PROVE HotelOK(u)'
    <2>1. HotelOK(u) /\ u \in Calls
      BY DEF CallsInv, Calls
    <2>2. CASE u = t
      BY <1>1, <1>2, <2>2 DEF HotelOK, CallsTyped, Present
    <2>3. CASE u # t
      BY <1>2, <2>1, <2>3 DEF HotelOK, CallsTyped, Present
    <2> QED
      BY <2>2, <2>3
  <1>5. line'[Elsewhere] = "live" => lock' = Elsewhere
    BY <1>2 DEF CallsInv, CallsTyped, Calls
  <1>6. ReservedOK(w)' /\ (Reserved(w)' => worker'[w].hotel = t)
    BY <1>1, <1>2, <1>3 DEF ReservedOK, Reserved, Moves
  <1>7. ASSUME NEW v \in Workers \ {w} PROVE ReservedOK(v)'
    <2>1. worker[v].hotel = t => ReservedOK(v)'
      <3>1. ReservedOK(v) /\ worker'[v] = worker[v]
        BY DEF CallsInv, Moves
      <3> QED
        BY <3>1, <1>1, <1>3 DEF ReservedOK, Reserved, Moves
    <2>2. \A u \in Hotels \ {t} : attempt'[u] = attempt[u] /\ line'[u] = line[u] /\ dialed'[u] = dialed[u]
      BY DEF CallsTyped, Calls
    <2> QED
      BY <1>3, <1>6, <2>1, <2>2, OthersKept DEF Moves
  <1> QED
    BY <1>4, <1>5, <1>6, <1>7 DEF CallsInv

\* The answer to the request that creates the call moves the attempt on.
LEMMA CallsAnswered ==
  ASSUME CallsTyped, CallsInv, NEW w \in Workers, NEW t \in Hotels, worker[w].hotel = t,
         worker[w].pc = "answer", NEW pc \in {"accepted", "block"}, Leaves(w, pc),
         UNCHANGED <<line, dialed>>,
         \/ /\ worker[w].answer = "accepted" /\ UNCHANGED lock
            /\ attempt' = [attempt EXCEPT ![t] = IF @ = "ended" THEN @ ELSE "live"]
         \/ /\ worker[w].answer = "rejected" /\ Release(t)
            /\ attempt' = [attempt EXCEPT ![t] = IF @ = "creating" THEN "rejected" ELSE @]
         \/ /\ worker[w].answer = "ambiguous" /\ UNCHANGED lock
            /\ attempt' = [attempt EXCEPT ![t] = IF @ = "creating" THEN "unknown" ELSE @]
  PROVE  CallsInv'
  <1>1. /\ HotelOK(t) /\ dialed[t] = 1 /\ attempt[t] \in {"creating", "live", "ended"}
        /\ worker[w].answer = "rejected" => attempt[t] = "creating" /\ line[t] = "none"
    BY DEF CallsInv, ReservedOK
  <1>2. \A u \in Hotels \ {t} : attempt'[u] = attempt[u] /\ line'[u] = line[u] /\ dialed'[u] = dialed[u]
    BY DEF CallsTyped
  <1>3. \A v \in Workers \ {w} : Reserved(v) => worker[v].hotel # t
    BY DEF CallsInv, ReservedOK, Reserved
  <1>4. ASSUME NEW u \in Hotels PROVE HotelOK(u)'
    <2>1. HotelOK(u)
      BY DEF CallsInv
    <2>2. CASE u = t
      BY <1>1, <2>2 DEF HotelOK, CallsTyped, Present, Release
    <2>3. CASE u # t
      BY <1>1, <1>2, <2>1, <2>3 DEF HotelOK, CallsTyped, Present, Release
    <2> QED
      BY <2>2, <2>3
  <1>5. line'[Elsewhere] = "live" => lock' = Elsewhere
    BY DEF CallsInv, Release
  <1>6. ReservedOK(w)' /\ ~Reserved(w)'
    BY DEF ReservedOK, Reserved, Leaves
  <1>7. ASSUME NEW v \in Workers \ {w} PROVE ReservedOK(v)'
    <2>1. worker[v].hotel = t => ReservedOK(v)'
      <3>1. ReservedOK(v) /\ worker'[v] = worker[v]
        BY DEF CallsInv, Leaves
      <3>2. attempt[t] \in {"live", "ended"} => attempt'[t] \in {"live", "ended"}
        BY <1>1 DEF CallsTyped
      <3> QED
        BY <3>1, <3>2, <1>3 DEF ReservedOK, Reserved
    <2> QED
      BY <1>2, <1>6, <2>1, OthersKept DEF Leaves
  <1> QED
    BY <1>4, <1>5, <1>6, <1>7 DEF CallsInv

\* A report makes the identifier of the call known.
LEMMA CallsReported ==
  ASSUME CallsTyped, CallsInv, NEW t \in Hotels, line[t] # "none",
         attempt' = [attempt EXCEPT ![t] = IF @ \in Ended THEN @ ELSE "live"],
         UNCHANGED <<lock, line, dialed>>, \A w \in Workers : Loose(w)
  PROVE  CallsInv'
  <1>1. HotelOK(t) /\ dialed[t] = 1 /\ attempt[t] # "none"
    BY DEF CallsInv, HotelOK, CallsTyped
  <1>2. \A u \in Hotels \ {t} : attempt'[u] = attempt[u]
    BY DEF CallsTyped
  <1>3. attempt'[t] \in {"live"} \cup Ended /\ (attempt[t] \in Ended => attempt'[t] = attempt[t])
    BY DEF CallsTyped
  <1>4. ASSUME NEW u \in Hotels PROVE HotelOK(u)'
    <2>1. HotelOK(u)
      BY DEF CallsInv
    <2>2. CASE u = t
      BY <1>1, <1>3, <2>2 DEF HotelOK, CallsTyped, Present, Ended
    <2>3. CASE u # t
      BY <1>2, <2>1, <2>3 DEF HotelOK
    <2> QED
      BY <2>2, <2>3
  <1>5. ASSUME NEW w \in Workers PROVE ReservedOK(w)'
    <2>1. \A v \in Workers : Reserved(v)' => Reserved(v) /\ worker'[v].hotel = worker[v].hotel
      BY DEF Reserved, Loose, Keeps, Bound
    <2>2. ReservedOK(w)
      BY DEF CallsInv
    <2>3. CASE worker'[w].pc \notin Bound
      BY <2>3 DEF ReservedOK, Reserved, Bound
    <2>4. CASE Keeps(w) /\ worker[w].hotel = t
      BY <1>1, <1>3, <2>1, <2>2, <2>4 DEF ReservedOK, Reserved, Keeps, Ended
    <2>5. CASE Keeps(w) /\ worker[w].hotel # t
      BY <1>2, <2>1, <2>2, <2>5 DEF ReservedOK, Reserved, Keeps
    <2> QED
      BY <2>3, <2>4, <2>5 DEF Loose
  <1> QED
    BY <1>4, <1>5 DEF CallsInv

LEMMA CallsElsewhere ==
  ASSUME CallsTyped, CallsInv, OtherCall
  PROVE  CallsInv'
  <1>1. UNCHANGED <<attempt, dialed, worker>> /\ Elsewhere \in Calls /\ Elsewhere \notin Hotels
    BY DEF OtherCall, Calls
  <1>2. ASSUME NEW u \in Hotels
        PROVE  line'[u] = line[u] /\ (attempt[u] \in Present => lock' = lock)
    <2>1. u \in Calls /\ u # Elsewhere
      BY <1>1 DEF Calls
    <2>2. line'[u] = line[u]
      BY <1>1, <2>1 DEF OtherCall, CallsTyped
    <2>3. attempt[u] \in Present => lock = u /\ lock # Elsewhere /\ lock # NoHotel
      BY <2>1 DEF CallsInv, HotelOK
    <2> QED
      BY <2>2, <2>3 DEF OtherCall, Release
  <1>3. ASSUME NEW u \in Hotels PROVE HotelOK(u)'
    BY <1>1, <1>2 DEF CallsInv, HotelOK
  <1>4. line'[Elsewhere] = "live" => lock' = Elsewhere
    BY <1>1 DEF CallsInv, CallsTyped, OtherCall
  <1>5. ASSUME NEW w \in Workers PROVE ReservedOK(w)'
    <2>1. ReservedOK(w)
      BY DEF CallsInv
    <2> QED
      BY <2>1, <1>1, <1>2 DEF ReservedOK, Reserved
  <1> QED
    BY <1>3, <1>4, <1>5 DEF CallsInv

-----------------------------------------------------------------------------
(***************************************************************************)
(* The invariant of the commands is kept.                                  *)
(***************************************************************************)
\* Where an invocation runs or stops the calls.
Stopping == {"stop", "stopLook", "terminate", "stopped"}
Tracked == {"start", "look", "lookup", "choose", "reserve"} \cup Stopping

\* w goes on, and is no closer to a reservation than it was.
Onward(w) ==
  /\ job.cv > 0 /\ Informed(w)' /\ (Armed(w)' => Armed(w))
  /\ worker'[w].pc \in Stopping /\ RowFresh(w)' =>
       /\ NobodyArmed
       /\ worker'[w].pc # "stop" => control.command \in Stops
       /\ worker'[w].pc = "terminate" => Active' \subseteq {worker'[w].hotel}
       /\ worker'[w].pc = "stopped" => Active' = {}
Untracked(w) == worker'[w].pc \notin Tracked /\ (worker'[w].pc # "idle" => job.cv > 0)

LEMMA StopRest ==
  ASSUME StopInv, UNCHANGED job,
         control'.cv = control.cv, control'.command = control.command,
         control'.status = control.status,
         control'.version > 0 => job.cv > 0, control.version > 0 => control'.version > 0,
         Active' \subseteq Active, \A t \in Hotels : attempt[t] \in Ended => attempt'[t] \in Ended,
         job.cv = 0 => attempt' = attempt,
         \A h \in Handlers : seen'[h] = seen[h] \/ seen'[h] = NoView,
         \A w \in Workers : worker'[w] = worker[w] \/ Untracked(w) \/ Onward(w)
  PROVE  StopInv'
  <1>1. NobodyArmed => NobodyArmed'
    <2>1. ASSUME NEW w \in Workers, Armed(w)' PROVE Armed(w)
      BY <2>1 DEF Armed, JobFresh, Untracked, Onward, Tracked
    <2> QED
      BY <2>1 DEF NobodyArmed
  <1>2. Halted => Halted'
    BY DEF Halted
  <1>3. ASSUME NEW w \in Workers
        PROVE  Informed(w)' /\ StoppingOK(w)' /\ (worker'[w].pc # "idle" => job'.cv > 0)
    <2>1. Informed(w) /\ StoppingOK(w) /\ (worker[w].pc # "idle" => job.cv > 0)
      BY DEF StopInv
    <2>2. CASE worker'[w] = worker[w]
      BY <1>1, <2>1, <2>2 DEF Informed, StoppingOK, RowFresh, JobFresh
    <2>3. CASE Untracked(w)
      BY <2>3 DEF Informed, StoppingOK, Untracked, Tracked, Stopping
    <2>4. CASE Onward(w)
      BY <1>1, <2>4 DEF Onward, StoppingOK, Stopping
    <2> QED
      BY <2>2, <2>3, <2>4
  <1>4. ControlOK'
    BY <1>1, <1>2 DEF StopInv, ControlOK
  <1>5. JobOK'
    BY <1>2 DEF StopInv, JobOK
  <1>6. \A h \in Handlers : SeenOK(h)'
    BY <1>2 DEF StopInv, SeenOK
  <1> QED
    BY <1>3, <1>4, <1>5, <1>6 DEF StopInv

\* The control row is written: the other invocations have an old copy of it.
LEMMA StopSave ==
  ASSUME StopInv, NEW w \in Workers, UNCHANGED <<job, attempt, seen>>, worker[w].pc # "idle",
         control'.version > 0, \A v \in Workers \ {w} : Ages(v, "row"),
         ControlOK', Informed(w)', StoppingOK(w)'
  PROVE  StopInv'
  <1>1. job.cv > 0
    BY DEF StopInv
  <1>2. ASSUME NEW v \in Workers \ {w}
        PROVE  Informed(v)' /\ StoppingOK(v)'
    <2>1. ~RowFresh(v)'
      BY DEF Ages, RowFresh
    <2> QED
      BY <2>1 DEF StopInv, Informed, StoppingOK, Ages, JobFresh
  <1>3. Active' = Active /\ (Halted <=> Halted') /\ JobOK'
    BY DEF StopInv, Active, Halted, JobOK
  <1>4. \A h \in Handlers : SeenOK(h)'
    BY <1>3 DEF StopInv, SeenOK
  <1> QED
    BY <1>1, <1>2, <1>3, <1>4 DEF StopInv

\* The job is written: nobody has the present copy of it.
LEMMA StopSetJob ==
  ASSUME StopInv, job.cv \in Nat, job'.cv \in Nat, job'.cv >= job.cv,
         \A h \in Handlers : seen[h] # NoView => seen[h].cv \in Nat,
         \A w \in Workers : worker[w].cv \in Nat, control.cv \in Nat,
         job'.cv = job.cv => job'.command = job.command,
         UNCHANGED <<control, attempt>>, \A w \in Workers : Ages(w, "job"),
         \A h \in Handlers : seen'[h] = seen[h] \/ seen'[h] = NoView, JobOK'
  PROVE  StopInv'
  <1>1. ASSUME NEW w \in Workers PROVE ~JobFresh(w)' /\ ~Armed(w)'
    BY DEF Ages, JobFresh, Armed
  <1>2. NobodyArmed' /\ Active' = Active
    BY <1>1 DEF NobodyArmed, Active
  <1>3. job'.cv = job.cv => (Halted => Halted')
    BY <1>2 DEF Halted
  <1>4. ASSUME NEW w \in Workers
        PROVE  Informed(w)' /\ StoppingOK(w)' /\ (worker'[w].pc # "idle" => job'.cv > 0)
    <2>1. /\ Informed(w) /\ StoppingOK(w) /\ (worker[w].pc # "idle" => job.cv > 0)
          /\ Ages(w, "job") /\ worker[w].cv \in Nat
      BY DEF StopInv
    <2>2. Informed(w)'
      BY <1>1, <2>1 DEF Informed, Ages
    <2>3. StoppingOK(w)'
      BY <1>2, <2>1 DEF StoppingOK, Ages, RowFresh
    <2>4. worker'[w].pc # "idle" => job'.cv > 0
      BY <2>1 DEF Ages
    <2> QED
      BY <2>2, <2>3, <2>4
  <1>5. ControlOK'
    <2>1. ControlOK
      BY DEF StopInv
    <2> QED
      BY <1>2, <1>3, <2>1 DEF ControlOK
  <1>6. ASSUME NEW h \in Handlers PROVE SeenOK(h)'
    <2>1. SeenOK(h) /\ (seen[h] # NoView => seen[h].cv \in Nat)
      BY DEF StopInv
    <2> QED
      BY <1>3, <2>1 DEF SeenOK
  <1> QED
    BY <1>4, <1>5, <1>6 DEF StopInv

\* An attempt is reserved with the present job: the run is not stopped, and
\* nobody who stops it has the present control row.
LEMMA StopReserve ==
  ASSUME PhoneTypeOK, StopInv, NEW w \in Workers, NEW t \in Hotels, worker[w].pc = "reserve",
         JobFresh(w), attempt[t] = "none", attempt' = [attempt EXCEPT ![t] = "creating"],
         UNCHANGED <<job, control, seen>>, \A v \in Workers \ {w} : worker'[v] = worker[v],
         worker'[w].pc = "recheck"
  PROVE  StopInv'
  <1>1. Armed(w) /\ ~NobodyArmed
    BY DEF Armed, NobodyArmed
  <1>2. job.command = "run" /\ ~Halted /\ job.cv > 0
    BY DEF StopInv, Informed, Halted, Stops
  <1>3. ASSUME NEW v \in Workers PROVE Informed(v)' /\ StoppingOK(v)' /\ job'.cv > 0
    <2>1. Informed(v) /\ StoppingOK(v)
      BY DEF StopInv
    <2>2. CASE v = w
      BY <1>2, <2>2 DEF Informed, StoppingOK
    <2>3. CASE v # w
      <3>1. worker'[v] = worker[v]
        BY <2>3
      <3> QED
        BY <1>1, <1>2, <2>1, <3>1 DEF Informed, StoppingOK, JobFresh, RowFresh
    <2> QED
      BY <2>2, <2>3
  <1>4. ControlOK'
    BY <1>1 DEF StopInv, ControlOK
  <1>5. JobOK'
    <2>1. job.run \notin {"paused", "cancelled"} /\ job.run # "succeeded"
      BY <1>2 DEF StopInv, JobOK, Ended
    <2> QED
      BY <1>2, <2>1 DEF StopInv, JobOK
  <1>6. \A h \in Handlers : SeenOK(h)'
    BY <1>2 DEF StopInv, SeenOK
  <1> QED
    BY <1>3, <1>4, <1>5, <1>6 DEF StopInv

-----------------------------------------------------------------------------
(***************************************************************************)
(* Every step keeps the invariant.                                         *)
(***************************************************************************)
Statuses == {"running", "blocked", "paused", "cancelled", "succeeded"}
Runs == {"none", "queued", "stopping"} \cup Statuses
JobTyped ==
  job \in [status : {"active", "paused", "cancelled"}, run : Runs, command : {"run"} \cup Stops,
           cv : 0..MaxCommands, pv : 0..MaxVersion]
ControlTyped ==
  control \in [version : 0..MaxVersion, cv : 0..MaxCommands, command : {"run"} \cup Stops,
               status : Statuses]
SeenTyped ==
  seen \in [Handlers -> {NoView} \cup [version : 1..MaxVersion, cv : 0..MaxCommands,
                                       status : Statuses]]
TypeParts == JobTyped /\ ControlTyped /\ CallsTyped /\ WorkersOK /\ SeenTyped

LEMMA TypeSplit == PhoneTypeOK => TypeParts
  BY DEF PhoneTypeOK, TypeParts, JobTyped, ControlTyped, CallsTyped, WorkersOK, SeenTyped, Work,
         Pcs, Statuses, Runs

LEMMA TypeJoin == TypeParts' => PhoneTypeOK'
  BY DEF PhoneTypeOK, TypeParts, JobTyped, ControlTyped, CallsTyped, WorkersOK, SeenTyped, Work,
         Pcs, Statuses, Runs

\* A step that changes nothing but what invocations do, and none is armed by it.
LEMMA WorkersStep ==
  ASSUME PhoneIInv, UNCHANGED <<job, control, calls, seen>>, WorkersOK',
         \A v \in Workers :
           \/ Loose(v)
           \/ worker'[v].pc = "reserve" /\ worker'[v].hotel \in Hotels
           \/ /\ worker'[v].pc \in {"lookup", "terminate"} /\ worker'[v].hotel \in Hotels
              /\ attempt[worker'[v].hotel] = "live"
           \/ /\ worker[v].pc = "recheck" /\ worker'[v].pc \in {"dial", "revoke"}
              /\ worker'[v].hotel = worker[v].hotel,
         \A v \in Workers : worker'[v] = worker[v] \/ Untracked(v) \/ Onward(v)
  PROVE  PhoneIInv'
  <1>1. TypeParts
    BY TypeSplit DEF PhoneIInv
  <1>2. PhoneTypeOK'
    BY <1>1, TypeJoin DEF TypeParts, JobTyped, ControlTyped, CallsTyped, SeenTyped, calls
  <1>3. CallsInv'
    BY CallsRest DEF PhoneIInv
  <1>4. StopInv'
    <2>1. StopInv /\ attempt' = attempt
      BY DEF PhoneIInv, calls
    <2>2. control.version > 0 => job.cv > 0
      BY <2>1 DEF StopInv, ControlOK
    <2> QED
      BY <2>1, <2>2, StopRest DEF Active
  <1> QED
    BY <1>2, <1>3, <1>4 DEF PhoneIInv

LEMMA DispatchStep ==
  ASSUME PhoneIInv, NEW w \in Workers, DispatchPhone(w)
  PROVE  PhoneIInv'
  <1>1. WorkersOK' /\ worker'[w].pc = "control" /\ \A v \in Workers \ {w} : worker'[v] = worker[v]
    BY DispatchMoves DEF PhoneIInv, Becomes
  <1>2. job.cv > 0
    BY DEF DispatchPhone, PhoneIInv, StopInv, JobOK
  <1> QED
    BY <1>1, <1>2, WorkersStep DEF DispatchPhone, Loose, Keeps, Bound, Untracked, Tracked, Stopping

LEMMA QuitStep ==
  ASSUME PhoneIInv, NEW w \in Workers, Quit(w), UNCHANGED <<job, control, calls, seen>>
  PROVE  PhoneIInv'
  <1>1. WorkersOK' /\ worker'[w].pc = "idle" /\ \A v \in Workers \ {w} : worker'[v] = worker[v]
    BY QuitBecomes, WorkersTyped, StillTyped DEF PhoneIInv, Becomes
  <1> QED
    BY <1>1, WorkersStep DEF Loose, Keeps, Bound, Untracked, Tracked, Stopping

LEMMA ToBlockStep ==
  ASSUME PhoneIInv, NEW w \in Workers, worker[w].pc # "idle", ToBlock(w),
         UNCHANGED <<job, control, calls, seen>>
  PROVE  PhoneIInv'
  <1>1. WorkersOK' /\ Leaves(w, "block")
    BY ToBlockLeaves, WorkersTyped DEF PhoneIInv
  <1>2. job.cv > 0
    BY DEF PhoneIInv, StopInv
  <1> QED
    BY <1>1, <1>2, WorkersStep DEF Leaves, Loose, Keeps, Bound, Untracked, Tracked, Stopping

LEMMA AuthorizeStep ==
  ASSUME PhoneIInv, NEW w \in Workers, Authorize(w)
  PROVE  PhoneIInv'
  <1>1. /\ WorkersOK' /\ \A v \in Workers \ {w} : worker'[v] = worker[v]
        /\ \/ worker'[w].pc \in {"idle", "block"}
           \/ /\ worker'[w].pc = "stop" /\ job.command # "run"
              /\ worker'[w].cv = job.cv /\ worker'[w].command = job.command
           \/ /\ worker'[w].pc = "start" /\ job.command = "run"
              /\ worker'[w].cv = job.cv /\ worker'[w].command = job.command
    BY AuthorizeMoves DEF PhoneIInv, Becomes
  <1>2. /\ job.cv > 0 /\ job.cv \in Nat /\ job.command \in {"run"} \cup Stops
        /\ worker[w].pc = "authorize" /\ UNCHANGED <<job, control, calls, seen>>
    BY DEF PhoneIInv, StopInv, Authorize, PhoneTypeOK
  <1>3. Untracked(w) \/ Onward(w)
    <2>1. CASE worker'[w].pc \in {"idle", "block"}
      BY <1>2, <2>1 DEF Untracked, Tracked, Stopping
    <2>2. CASE /\ worker'[w].pc = "stop" /\ job.command # "run"
               /\ worker'[w].cv = job.cv /\ worker'[w].command = job.command
      <3>1. NobodyArmed
        BY <2>2 DEF PhoneIInv, StopInv, NobodyArmed, Armed, Informed
      <3> QED
        BY <1>2, <2>2, <3>1 DEF Onward, Informed, Armed
    <2>3. CASE /\ worker'[w].pc = "start" /\ job.command = "run"
               /\ worker'[w].cv = job.cv /\ worker'[w].command = job.command
      BY <1>2, <2>3 DEF Onward, Informed, Armed, Stopping
    <2> QED
      BY <1>1, <2>1, <2>2, <2>3
  <1> QED
    BY <1>1, <1>2, <1>3, WorkersStep DEF Loose, Keeps, Bound

LEMMA StopLookStep ==
  ASSUME PhoneIInv, NEW w \in Workers, StopLook(w)
  PROVE  PhoneIInv'
  <1>1. /\ worker[w].pc = "stopLook" /\ UNCHANGED <<job, control, calls, seen>> /\ WorkersOK
        /\ job.cv > 0 /\ StoppingOK(w)
    BY WorkersTyped DEF StopLook, PhoneIInv, StopInv
  <1>2. CASE Active = {} /\ ToSave(w, "stopped")
    <2>1. WorkersOK' /\ Leaves(w, "stopped")
      BY <1>1, <1>2, ToSaveLeaves DEF Pcs
    <2>2. Active' = {}
      BY <1>1, <1>2 DEF Active, calls
    <2>3. Onward(w)
      BY <1>1, <2>1, <2>2 DEF Onward, Informed, Armed, StoppingOK, RowFresh, Leaves
    <2> QED
      BY <1>1, <2>1, <2>3, WorkersStep DEF Leaves, Loose, Keeps, Bound
  <1>3. CASE ToBlock(w)
    BY <1>1, <1>3, ToBlockStep
  <1>4. ASSUME NEW t \in Active, attempt[t] = "live",
               worker' = [worker EXCEPT ![w] = [@ EXCEPT !.pc = "terminate", !.hotel = t]]
        PROVE  PhoneIInv'
    <2>1. t \in Hotels
      BY DEF Active
    <2>2. WorkersOK' /\ Moves(w, "terminate", t, worker[w].answer)
      BY <1>1, <1>4, <2>1, HotelMoves DEF Pcs
    <2>3. Active' \subseteq {t}
      <3>1. \A u \in Active : lock = u
        BY DEF Active, PhoneIInv, CallsInv, HotelOK, Present, PhoneTypeOK
      <3> QED
        BY <1>1, <3>1 DEF Active, calls
    <2>4. Onward(w)
      BY <1>1, <2>2, <2>3 DEF Onward, Informed, Armed, StoppingOK, RowFresh, Moves
    <2> QED
      BY <1>1, <1>4, <2>1, <2>2, <2>4, WorkersStep DEF Moves, Loose, Keeps
  <1> QED
    BY <1>2, <1>3, <1>4 DEF StopLook

LEMMA LookStep ==
  ASSUME PhoneIInv, NEW w \in Workers, Look(w)
  PROVE  PhoneIInv'
  <1>1. /\ worker[w].pc = "look" /\ UNCHANGED <<job, control, calls, seen>> /\ WorkersOK
        /\ job.cv > 0 /\ Informed(w)
    BY WorkersTyped DEF Look, PhoneIInv, StopInv
  <1>2. CASE To(w, "choose")
    <2>1. WorkersOK' /\ Moves(w, "choose", worker[w].hotel, worker[w].answer)
      BY <1>1, <1>2, ToMoves DEF Pcs
    <2>2. Onward(w)
      BY <1>1, <2>1 DEF Onward, Informed, Armed, Stopping, JobFresh, Moves
    <2> QED
      BY <1>1, <2>1, <2>2, WorkersStep DEF Moves, Loose, Keeps, Bound
  <1>3. CASE ToBlock(w)
    BY <1>1, <1>3, ToBlockStep
  <1>4. ASSUME NEW t \in Active, attempt[t] = "live",
               worker' = [worker EXCEPT ![w] = [@ EXCEPT !.pc = "lookup", !.hotel = t]]
        PROVE  PhoneIInv'
    <2>1. t \in Hotels
      BY DEF Active
    <2>2. WorkersOK' /\ Moves(w, "lookup", t, worker[w].answer)
      BY <1>1, <1>4, <2>1, HotelMoves DEF Pcs
    <2>3. Onward(w)
      BY <1>1, <2>2 DEF Onward, Informed, Armed, Stopping, JobFresh, Moves
    <2> QED
      BY <1>1, <1>4, <2>1, <2>2, <2>3, WorkersStep DEF Moves, Loose, Keeps
  <1> QED
    BY <1>2, <1>3, <1>4 DEF Look

LEMMA ChooseStep ==
  ASSUME PhoneIInv, NEW w \in Workers, Choose(w)
  PROVE  PhoneIInv'
  <1>1. /\ worker[w].pc = "choose" /\ UNCHANGED <<job, control, calls, seen>> /\ WorkersOK
        /\ job.cv > 0 /\ Informed(w)
    BY WorkersTyped DEF Choose, PhoneIInv, StopInv
  <1>2. CASE ToSave(w, "succeed")
    <2>1. WorkersOK' /\ Leaves(w, "succeed")
      BY <1>1, <1>2, ToSaveLeaves DEF Pcs
    <2> QED
      BY <1>1, <2>1, WorkersStep DEF Leaves, Loose, Keeps, Bound, Untracked, Tracked, Stopping
  <1>3. CASE ToBlock(w)
    BY <1>1, <1>3, ToBlockStep
  <1>4. ASSUME NEW t \in Hotels,
               worker' = [worker EXCEPT ![w] = [@ EXCEPT !.pc = "reserve", !.hotel = t]]
        PROVE  PhoneIInv'
    <2>2. WorkersOK' /\ Moves(w, "reserve", t, worker[w].answer)
      BY <1>1, <1>4, HotelMoves DEF Pcs
    <2>3. Onward(w)
      BY <1>1, <2>2 DEF Onward, Informed, Armed, Stopping, JobFresh, Moves
    <2> QED
      BY <1>1, <2>2, <2>3, WorkersStep DEF Moves, Loose, Keeps
  <1> QED
    BY <1>2, <1>3, <1>4 DEF Choose

LEMMA RecheckStep ==
  ASSUME PhoneIInv, NEW w \in Workers, RecheckCommand(w)
  PROVE  PhoneIInv'
  <1>1. /\ worker[w].pc = "recheck" /\ UNCHANGED <<job, control, calls, seen>> /\ WorkersOK
        /\ job.cv > 0
    BY WorkersTyped DEF RecheckCommand, PhoneIInv, StopInv
  <1>2. PICK pc \in {"dial", "revoke"} : To(w, pc)
    BY DEF RecheckCommand
  <1>3. WorkersOK' /\ Moves(w, pc, worker[w].hotel, worker[w].answer)
    BY <1>1, <1>2, ToMoves DEF Pcs
  <1> QED
    BY <1>1, <1>3, WorkersStep DEF Moves, Loose, Keeps, Untracked, Tracked, Stopping

LEMMA ReadControlStep ==
  ASSUME PhoneIInv, NEW w \in Workers, ReadControl(w)
  PROVE  PhoneIInv'
  <1>1. /\ WorkersOK' /\ worker'[w].pc \in {"idle", "touch", "authorize"}
        /\ \A v \in Workers \ {w} : worker'[v] = worker[v]
    BY ReadControlMoves DEF PhoneIInv, Becomes
  <1>2. TypeParts /\ UNCHANGED <<job, calls, seen>> /\ job.cv > 0
    BY TypeSplit DEF PhoneIInv, StopInv, ReadControl
  <1>3. /\ ControlTyped' /\ control'.cv = control.cv /\ control'.command = control.command
        /\ control'.status = control.status /\ control'.version > 0
    <2>1. CASE control.version = 0
      <3>1. control' = [control EXCEPT !.version = 1] /\ 1 \in 0..MaxVersion
        BY <2>1 DEF ReadControl
      <3> QED
        BY <1>2, <3>1 DEF TypeParts, ControlTyped
    <2>2. CASE control.version # 0
      BY <1>2, <2>2 DEF ReadControl, TypeParts, ControlTyped
    <2> QED
      BY <2>1, <2>2
  <1>4. PhoneTypeOK'
    BY <1>1, <1>2, <1>3, TypeJoin DEF TypeParts, JobTyped, CallsTyped, SeenTyped, calls
  <1>5. CallsInv'
    BY <1>1, <1>2, CallsRest DEF PhoneIInv, Loose, Keeps, Bound
  <1>6. StopInv'
    <2>1. StopInv /\ attempt' = attempt
      BY <1>2 DEF PhoneIInv, calls
    <2>2. \A v \in Workers : worker'[v] = worker[v] \/ Untracked(v)
      BY <1>1, <1>2 DEF Untracked, Tracked, Stopping
    <2> QED
      BY <1>2, <1>3, <2>1, <2>2, StopRest DEF Active
  <1> QED
    BY <1>4, <1>5, <1>6 DEF PhoneIInv

\* The control row is saved, or the copy of it is old.
LEMMA SavedStep ==
  ASSUME PhoneIInv, NEW w \in Workers, worker[w].pc # "idle",
         NEW c \in [version : 0..MaxVersion, cv : 0..MaxCommands, command : {"run"} \cup Stops,
                    status : Statuses],
         NEW next \in Work, next.pc \in {"idle", "look", "stopLook"}, Save(w, c, next),
         UNCHANGED <<job, calls, seen>>,
         RowFresh(w) =>
           /\ c.cv <= job.cv /\ (c.cv = job.cv => c.command = job.command)
           /\ c.status \in {"paused", "cancelled"} =>
                /\ Active = {} /\ NobodyArmed /\ next.pc = "idle"
                /\ c.cv = job.cv /\ job.cv > 0 => Halted
           /\ next.pc = "look" /\ "job" \in next.fresh => job.command = "run"
           /\ next.pc = "stopLook" => NobodyArmed /\ c.command \in Stops
  PROVE  PhoneIInv'
  <1>1. TypeParts /\ job.cv > 0
    BY TypeSplit DEF PhoneIInv, StopInv
  <1>2. CASE UNCHANGED control /\ Quit(w)
    BY <1>2, QuitStep
  <1>3. CASE RowFresh(w)
    <2>1. /\ WorkersOK' /\ control.version < MaxVersion
          /\ control' = [c EXCEPT !.version = control.version + 1]
          /\ worker'[w] = next /\ \A v \in Workers \ {w} : Ages(v, "row")
      <3>1. /\ control.version < MaxVersion /\ control' = [c EXCEPT !.version = control.version + 1]
            /\ worker' = [v \in Workers |-> IF v = w THEN next ELSE Outdated(worker[v], "row")]
        BY <1>3 DEF Save, RowFresh
      <3>2. \A v \in Workers : worker[v] \in Work
        BY <1>1, WorkerTyped DEF TypeParts
      <3>3. WorkersOK' /\ worker'[w] = next /\ \A v \in Workers \ {w} : Ages(v, "row")
        BY <3>1, <3>2, OutdatedTyped DEF Ages, WorkersOK
      <3> QED
        BY <3>1, <3>3
    <2>2. /\ ControlTyped' /\ control'.cv = c.cv /\ control'.command = c.command
          /\ control'.status = c.status /\ control'.version > 0
      <3>1. control.version + 1 \in 1..MaxVersion
        BY <1>1, <2>1 DEF TypeParts, ControlTyped
      <3> QED
        BY <2>1, <3>1 DEF ControlTyped
    <2>3. PhoneTypeOK'
      BY <1>1, <2>1, <2>2, TypeJoin DEF TypeParts, JobTyped, CallsTyped, SeenTyped, calls
    <2>4. CallsInv'
      <3>1. \A v \in Workers : Loose(v)
        BY <2>1 DEF Loose, Keeps, Bound, Ages
      <3> QED
        BY <3>1, CallsRest DEF PhoneIInv
    <2>5. StopInv'
      <3>1. StopInv /\ UNCHANGED <<job, attempt, seen>> /\ Active' = Active /\ Halted' = Halted
        BY DEF PhoneIInv, calls, Active, Halted
      <3>2. NobodyArmed /\ next.pc # "look" => NobodyArmed'
        BY <2>1 DEF NobodyArmed, Armed, JobFresh, Ages
      <3>3. ControlOK'
        BY <1>1, <1>3, <2>2, <3>1, <3>2 DEF ControlOK
      <3>4. Informed(w)'
        BY <1>3, <2>1, <3>1 DEF Informed, JobFresh
      <3>5. StoppingOK(w)'
        BY <1>3, <2>1, <2>2, <3>1, <3>2 DEF StoppingOK
      <3> QED
        BY <2>1, <2>2, <3>1, <3>3, <3>4, <3>5, StopSave
    <2> QED
      BY <2>3, <2>4, <2>5 DEF PhoneIInv
  <1> QED
    BY <1>2, <1>3 DEF Save, RowFresh

\* A save that leaves the command, and says neither paused nor cancelled unless
\* the row said so before.
LEMMA StatusStep ==
  ASSUME PhoneIInv, NEW w \in Workers, worker[w].pc # "idle", NEW c, Save(w, c, Still),
         UNCHANGED <<job, calls, seen>>,
         \/ c = control
         \/ \E status \in Statuses \ {"paused", "cancelled"} : c = [control EXCEPT !.status = status]
  PROVE  PhoneIInv'
  <1>1. ControlTyped /\ ControlOK
    BY TypeSplit DEF PhoneIInv, TypeParts, StopInv
  <1>2. /\ c \in [version : 0..MaxVersion, cv : 0..MaxCommands, command : {"run"} \cup Stops,
                  status : Statuses]
        /\ c.cv = control.cv /\ c.command = control.command
        /\ c.status \in {"paused", "cancelled"} => c.status = control.status
    BY <1>1 DEF ControlTyped
  <1>3. Still \in Work /\ Still.pc = "idle"
    BY StillTyped
  <1> QED
    BY <1>1, <1>2, <1>3, SavedStep DEF ControlOK

LEMMA StopStep ==
  ASSUME PhoneIInv, NEW w \in Workers, Stop(w)
  PROVE  PhoneIInv'
  <1> DEFINE c == Obeying(w, "blocked")
             next == Then(w, "stopLook")
  <1>1. /\ worker[w].pc = "stop" /\ UNCHANGED <<job, calls, seen>> /\ Save(w, c, next)
        /\ TypeParts /\ Informed(w) /\ StoppingOK(w)
    BY TypeSplit DEF PhoneIInv, StopInv, Stop
  <1>2. worker[w] \in Work /\ control \in [version : 0..MaxVersion, cv : 0..MaxCommands,
                                           command : {"run"} \cup Stops, status : Statuses]
    BY <1>1, WorkerTyped DEF TypeParts, ControlTyped
  <1>3. /\ c \in [version : 0..MaxVersion, cv : 0..MaxCommands, command : {"run"} \cup Stops,
                  status : Statuses]
        /\ c.cv = worker[w].cv /\ c.command = worker[w].command /\ c.status = "blocked"
    BY <1>2 DEF Obeying, Statuses, Work
  <1>4. next \in Work /\ next.pc = "stopLook"
    BY <1>2 DEF Then, Work, Pcs
  <1> HIDE DEF c, next
  <1>5. RowFresh(w) => NobodyArmed
    BY <1>1 DEF StoppingOK
  <1> QED
    BY <1>1, <1>3, <1>4, <1>5, SavedStep DEF Informed

LEMMA StartStep ==
  ASSUME PhoneIInv, NEW w \in Workers, Start(w)
  PROVE  PhoneIInv'
  <1> DEFINE c == Obeying(w, "running")
             next == Then(w, "look")
  <1>1. /\ worker[w].pc = "start" /\ UNCHANGED <<job, calls, seen>> /\ TypeParts /\ Informed(w)
    BY TypeSplit DEF PhoneIInv, StopInv, Start
  <1>2. CASE Quit(w) /\ UNCHANGED control
    BY <1>1, <1>2, QuitStep
  <1>3. CASE Save(w, c, next)
    <2>1. worker[w] \in Work /\ control \in [version : 0..MaxVersion, cv : 0..MaxCommands,
                                             command : {"run"} \cup Stops, status : Statuses]
      BY <1>1, WorkerTyped DEF TypeParts, ControlTyped
    <2>2. /\ c \in [version : 0..MaxVersion, cv : 0..MaxCommands, command : {"run"} \cup Stops,
                    status : Statuses]
          /\ c.cv = worker[w].cv /\ c.command = worker[w].command /\ c.status = "running"
      BY <2>1 DEF Obeying, Statuses, Work
    <2>3. next \in Work /\ next.pc = "look" /\ next.fresh = worker[w].fresh
      BY <2>1 DEF Then, Work, Pcs
    <2> HIDE DEF c, next
    <2> QED
      BY <1>1, <1>3, <2>2, <2>3, SavedStep DEF Informed, JobFresh
  <1> QED
    BY <1>2, <1>3 DEF Start

LEMMA StoppedStep ==
  ASSUME PhoneIInv, NEW w \in Workers, Stopped(w)
  PROVE  PhoneIInv'
  <1> DEFINE status == IF worker[w].command = "pause" THEN "paused" ELSE "cancelled"
             c == [control EXCEPT !.status = status]
  <1>1. /\ worker[w].pc = "stopped" /\ UNCHANGED <<job, calls, seen>> /\ Save(w, c, Still)
        /\ TypeParts /\ StoppingOK(w) /\ ControlOK
    BY TypeSplit DEF PhoneIInv, StopInv, Stopped
  <1>2. /\ c \in [version : 0..MaxVersion, cv : 0..MaxCommands, command : {"run"} \cup Stops,
                  status : Statuses]
        /\ c.cv = control.cv /\ c.command = control.command
    BY <1>1 DEF TypeParts, ControlTyped, Statuses
  <1>3. Still \in Work /\ Still.pc = "idle"
    BY StillTyped
  <1> HIDE DEF c, status
  <1>4. RowFresh(w) => Active = {} /\ NobodyArmed /\ (c.cv = job.cv /\ job.cv > 0 => Halted)
    BY <1>1, <1>2 DEF StoppingOK, ControlOK, Halted
  <1> QED
    BY <1>1, <1>2, <1>3, <1>4, SavedStep DEF ControlOK

\* A step of the calls, which starts none.
LEMMA CallsStep ==
  ASSUME PhoneIInv, UNCHANGED <<job, control, seen>>, CallsTyped', WorkersOK', CallsInv',
         Active' \subseteq Active, \A t \in Hotels : attempt[t] \in Ended => attempt'[t] \in Ended,
         job.cv > 0 \/ attempt' = attempt,
         \A v \in Workers : worker'[v] = worker[v] \/ Untracked(v) \/ Onward(v)
  PROVE  PhoneIInv'
  <1>1. TypeParts /\ StopInv /\ (control.version > 0 => job.cv > 0) /\ job.cv \in Nat
    BY TypeSplit DEF PhoneIInv, StopInv, ControlOK, PhoneTypeOK
  <1>2. PhoneTypeOK'
    BY <1>1, TypeJoin DEF TypeParts, JobTyped, ControlTyped, SeenTyped
  <1>3. StopInv'
    BY <1>1, StopRest
  <1> QED
    BY <1>2, <1>3 DEF PhoneIInv

LEMMA TerminateStep ==
  ASSUME PhoneIInv, NEW w \in Workers, Terminate(w)
  PROVE  PhoneIInv'
  <1> DEFINE t == worker[w].hotel
  <1>1. /\ worker[w].pc = "terminate" /\ UNCHANGED <<job, control, dialed, seen>> /\ WorkersOK
        /\ CallsTyped /\ CallsInv /\ job.cv > 0 /\ StoppingOK(w)
    BY WorkersTyped, TypeSplit DEF Terminate, PhoneIInv, StopInv, TypeParts
  <1>2. t \in Hotels /\ attempt[t] \in {"live", "ended"} /\ t \in Calls
    BY <1>1 DEF CallsInv, ReservedOK, Calls
  <1>3. CASE line' = [line EXCEPT ![t] = "over"] /\ Conclude(t) /\ ToSave(w, "stopped")
    <2>1. WorkersOK' /\ Leaves(w, "stopped")
      BY <1>1, <1>3, ToSaveLeaves DEF Pcs
    <2>2. CallsInv'
      BY <1>1, <1>2, <1>3, <2>1, CallsConclude DEF Leaves, Loose, Keeps, Bound
    <2>3. attempt' = [attempt EXCEPT ![t] = "ended"] /\ CallsTyped'
      BY <1>1, <1>2, <1>3 DEF Conclude, Release, CallsTyped, Ended
    <2>4. /\ Active' \subseteq Active \ {t}
          /\ \A u \in Hotels : attempt[u] \in Ended => attempt'[u] \in Ended
      BY <1>1, <1>2, <2>3 DEF CallsTyped, Active, Ended
    <2>5. Onward(w)
      BY <1>1, <2>1, <2>4 DEF Onward, Informed, Armed, StoppingOK, RowFresh, Leaves
    <2> QED
      BY <1>1, <2>1, <2>2, <2>3, <2>4, <2>5, CallsStep DEF Leaves
  <1>4. CASE /\ line' = [line EXCEPT ![t] = "over"] \/ UNCHANGED line
             /\ ToBlock(w) /\ UNCHANGED <<attempt, lock>>
    <2>1. WorkersOK' /\ Leaves(w, "block")
      BY <1>1, <1>4, ToBlockLeaves
    <2>2. CASE line' = [line EXCEPT ![t] = "over"]
      <3>1. CallsInv'
        BY <1>1, <1>2, <1>4, <2>1, <2>2, CallsOver DEF Leaves, Loose, Keeps, Bound
      <3>2. CallsTyped' /\ Active' \subseteq Active
        BY <1>1, <1>2, <1>4, <2>2 DEF CallsTyped, Active
      <3> QED
        BY <1>1, <1>4, <2>1, <3>1, <3>2, CallsStep DEF Leaves, Untracked, Tracked, Stopping
    <2>3. CASE UNCHANGED line
      BY <1>1, <1>4, <2>3, ToBlockStep DEF calls
    <2> QED
      BY <1>4, <2>2, <2>3
  <1> QED
    BY <1>3, <1>4 DEF Terminate

LEMMA LookupStep ==
  ASSUME PhoneIInv, NEW w \in Workers, Lookup(w)
  PROVE  PhoneIInv'
  <1> DEFINE t == worker[w].hotel
  <1>1. /\ worker[w].pc = "lookup" /\ UNCHANGED <<job, control, line, dialed, seen>> /\ WorkersOK
        /\ CallsTyped /\ CallsInv /\ job.cv > 0 /\ Informed(w)
    BY WorkersTyped, TypeSplit DEF Lookup, PhoneIInv, StopInv, TypeParts
  <1>2. t \in Hotels /\ attempt[t] \in {"live", "ended"} /\ t \in Calls
    BY <1>1 DEF CallsInv, ReservedOK, Calls
  <1>3. CASE line[t] = "over"
    <2>1. /\ Conclude(t)
          /\ worker' = [worker EXCEPT ![w] = [@ EXCEPT !.pc = "choose", !.hotel = NoHotel]]
      BY <1>3 DEF Lookup
    <2>2. WorkersOK' /\ Moves(w, "choose", NoHotel, worker[w].answer)
      BY <1>1, <2>1, HotelMoves DEF Pcs
    <2>3. line' = [line EXCEPT ![t] = "over"]
      BY <1>1, <1>2, <1>3 DEF CallsTyped
    <2>4. CallsInv'
      BY <1>1, <1>2, <2>1, <2>2, <2>3, CallsConclude DEF Moves, Loose, Keeps, Bound
    <2>5. attempt' = [attempt EXCEPT ![t] = "ended"] /\ CallsTyped'
      BY <1>1, <1>2, <2>1 DEF Conclude, Release, CallsTyped, Ended
    <2>6. /\ Active' \subseteq Active
          /\ \A u \in Hotels : attempt[u] \in Ended => attempt'[u] \in Ended
      BY <1>1, <1>2, <2>5 DEF CallsTyped, Active, Ended
    <2>7. Onward(w)
      BY <1>1, <2>2 DEF Onward, Informed, Armed, Stopping, JobFresh, Moves
    <2> QED
      BY <1>1, <2>2, <2>4, <2>5, <2>6, <2>7, CallsStep DEF Moves
  <1>4. CASE line[t] # "over"
    BY <1>1, <1>4, QuitStep DEF Lookup, calls
  <1> QED
    BY <1>3, <1>4

LEMMA ReserveStep ==
  ASSUME PhoneIInv, NEW w \in Workers, Reserve(w)
  PROVE  PhoneIInv'
  <1> DEFINE t == worker[w].hotel
  <1>1. /\ worker[w].pc = "reserve" /\ UNCHANGED <<job, control, line, dialed, seen>> /\ WorkersOK
        /\ CallsTyped /\ CallsInv /\ StopInv /\ PhoneTypeOK /\ TypeParts
    BY WorkersTyped, TypeSplit DEF Reserve, PhoneIInv, TypeParts
  <1>2. t \in Hotels
    BY <1>1 DEF CallsInv, ReservedOK
  <1>3. CASE Quit(w) /\ UNCHANGED <<attempt, lock>>
    BY <1>1, <1>3, QuitStep DEF calls
  <1>4. CASE ToBlock(w) /\ UNCHANGED <<attempt, lock>>
    BY <1>1, <1>4, ToBlockStep DEF calls
  <1>5. CASE /\ attempt[t] = "none" /\ lock = NoHotel /\ "job" \in worker[w].fresh
             /\ attempt' = [attempt EXCEPT ![t] = "creating"] /\ lock' = t
             /\ worker' = [worker EXCEPT ![w] = [Outdated(@, "job") EXCEPT !.pc = "recheck"]]
    <2>1. WorkersOK' /\ Moves(w, "recheck", t, worker[w].answer)
      BY <1>1, <1>5, ReserveMoves
    <2>2. CallsInv'
      BY <1>1, <1>2, <1>5, <2>1, CallsReserve
    <2>3. StopInv'
      BY <1>1, <1>2, <1>5, <2>1, StopReserve DEF JobFresh, Moves
    <2>4. CallsTyped'
      BY <1>1, <1>2, <1>5 DEF CallsTyped, Calls
    <2>5. PhoneTypeOK'
      BY <1>1, <2>1, <2>4, TypeJoin DEF TypeParts, JobTyped, ControlTyped, SeenTyped
    <2> QED
      BY <2>2, <2>3, <2>5 DEF PhoneIInv
  <1> QED
    BY <1>3, <1>4, <1>5 DEF Reserve

LEMMA RevokeStep ==
  ASSUME PhoneIInv, NEW w \in Workers, Revoke(w)
  PROVE  PhoneIInv'
  <1> DEFINE t == worker[w].hotel
  <1>1. /\ worker[w].pc = "revoke" /\ UNCHANGED <<job, control, line, dialed, seen>> /\ WorkersOK
        /\ CallsTyped /\ CallsInv /\ job.cv > 0
        /\ attempt' = [attempt EXCEPT ![t] = "rejected"] /\ Release(t) /\ ToBlock(w)
    BY WorkersTyped, TypeSplit DEF Revoke, PhoneIInv, StopInv, TypeParts
  <1>2. t \in Hotels
    BY <1>1 DEF CallsInv, ReservedOK, Reserved
  <1>3. WorkersOK' /\ Leaves(w, "block")
    BY <1>1, ToBlockLeaves
  <1>4. CallsInv'
    BY <1>1, <1>2, <1>3, CallsRevoke
  <1>5. CallsTyped'
    BY <1>1, <1>2 DEF CallsTyped, Release, Ended
  <1>6. /\ Active' \subseteq Active
        /\ \A u \in Hotels : attempt[u] \in Ended => attempt'[u] \in Ended
    BY <1>1, <1>2 DEF CallsTyped, Active, Ended
  <1> QED
    BY <1>1, <1>3, <1>4, <1>5, <1>6, CallsStep DEF Leaves, Untracked, Tracked, Stopping

LEMMA DialStep ==
  ASSUME PhoneIInv, NEW w \in Workers, Dial(w)
  PROVE  PhoneIInv'
  <1> DEFINE t == worker[w].hotel
  <1>1. /\ worker[w].pc = "dial" /\ UNCHANGED <<job, control, attempt, lock, seen>> /\ WorkersOK
        /\ CallsTyped /\ CallsInv /\ job.cv > 0 /\ dialed' = [dialed EXCEPT ![t] = @ + 1]
    BY WorkersTyped, TypeSplit DEF Dial, PhoneIInv, StopInv, TypeParts
  <1>2. t \in Hotels /\ t \in Calls
    BY <1>1 DEF CallsInv, ReservedOK, Reserved, Calls
  <1>3. PICK a \in {"accepted", "rejected", "ambiguous"} :
          /\ \/ a # "rejected" /\ line' = [line EXCEPT ![t] = "live"]
             \/ a # "accepted" /\ UNCHANGED line
          /\ worker' = [worker EXCEPT ![w] = [@ EXCEPT !.pc = "answer", !.answer = a]]
    BY DEF Dial
  <1>4. WorkersOK' /\ Moves(w, "answer", t, a)
    BY <1>1, <1>3, DialMoves
  <1>5. CallsInv'
    BY <1>1, <1>2, <1>3, <1>4, CallsDial
  <1>6. CallsTyped' /\ Active' \subseteq Active
    BY <1>1, <1>2, <1>3 DEF CallsTyped, Active
  <1> QED
    BY <1>1, <1>4, <1>5, <1>6, CallsStep DEF Moves, Untracked, Tracked, Stopping

LEMMA AnsweredStep ==
  ASSUME PhoneIInv, NEW w \in Workers, Answered(w)
  PROVE  PhoneIInv'
  <1> DEFINE t == worker[w].hotel
  <1>1. /\ worker[w].pc = "answer" /\ UNCHANGED <<job, control, line, dialed, seen>> /\ WorkersOK
        /\ CallsTyped /\ CallsInv /\ job.cv > 0
    BY WorkersTyped, TypeSplit DEF Answered, PhoneIInv, StopInv, TypeParts
  <1>2. t \in Hotels /\ attempt[t] \in {"creating", "live", "ended"}
    BY <1>1 DEF CallsInv, ReservedOK, Reserved
  <1>3. PICK pc \in {"accepted", "block"} : ToSave(w, pc)
    BY DEF Answered, ToBlock
  <1>4. WorkersOK' /\ Leaves(w, pc)
    BY <1>1, <1>3, ToSaveLeaves DEF Pcs
  <1>5. \/ /\ worker[w].answer = "accepted" /\ UNCHANGED lock
           /\ attempt' = [attempt EXCEPT ![t] = IF @ = "ended" THEN @ ELSE "live"]
        \/ /\ worker[w].answer = "rejected" /\ Release(t)
           /\ attempt' = [attempt EXCEPT ![t] = IF @ = "creating" THEN "rejected" ELSE @]
        \/ /\ worker[w].answer = "ambiguous" /\ UNCHANGED lock
           /\ attempt' = [attempt EXCEPT ![t] = IF @ = "creating" THEN "unknown" ELSE @]
    BY DEF Answered
  <1>6. CallsInv'
    BY <1>1, <1>2, <1>4, <1>5, CallsAnswered
  <1>7. /\ \A u \in Hotels \ {t} : attempt'[u] = attempt[u]
        /\ attempt'[t] \in {"creating", "unknown", "live", "ended", "rejected"}
        /\ attempt[t] = "ended" => attempt'[t] = "ended"
    BY <1>1, <1>2, <1>5 DEF CallsTyped
  <1>8. attempt' \in [Hotels -> {"none", "creating", "unknown", "live"} \cup Ended]
    BY <1>1, <1>2, <1>5 DEF CallsTyped, Ended
  <1>9. CallsTyped'
    BY <1>1, <1>5, <1>8 DEF CallsTyped, Release
  <1>10. /\ Active' \subseteq Active
         /\ \A u \in Hotels : attempt[u] \in Ended => attempt'[u] \in Ended
    BY <1>2, <1>7 DEF Active, Ended
  <1> QED
    BY <1>1, <1>4, <1>6, <1>9, <1>10, CallsStep DEF Leaves, Untracked, Tracked, Stopping

LEMMA CallEndsStep ==
  ASSUME PhoneIInv, NEW t \in Hotels, CallEnds(t)
  PROVE  PhoneIInv'
  <1>1. /\ line[t] = "live" /\ line' = [line EXCEPT ![t] = "over"] /\ CallsTyped /\ CallsInv
        /\ WorkersOK /\ UNCHANGED <<job, control, attempt, lock, dialed, worker, seen>>
    BY TypeSplit DEF CallEnds, PhoneIInv, TypeParts
  <1>2. CallsInv'
    BY <1>1, CallsOver DEF Loose, Keeps
  <1>3. CallsTyped' /\ Active' \subseteq Active /\ WorkersOK'
    BY <1>1 DEF CallsTyped, Active, WorkersOK
  <1> QED
    BY <1>1, <1>2, <1>3, CallsStep

LEMMA OtherCallStep ==
  ASSUME PhoneIInv, OtherCall
  PROVE  PhoneIInv'
  <1>1. /\ CallsTyped /\ CallsInv /\ WorkersOK
        /\ UNCHANGED <<job, control, attempt, dialed, worker, seen>>
    BY TypeSplit DEF OtherCall, PhoneIInv, TypeParts
  <1>2. CallsInv'
    BY <1>1, CallsElsewhere
  <1>3. CallsTyped' /\ Active' \subseteq Active /\ WorkersOK'
    BY <1>1 DEF OtherCall, CallsTyped, Active, WorkersOK, Release, Calls
  <1> QED
    BY <1>1, <1>2, <1>3, CallsStep

LEMMA CallbackStep ==
  ASSUME PhoneIInv, NEW w \in Workers, NEW t \in Hotels, Callback(w, t)
  PROVE  PhoneIInv'
  <1>1. /\ line[t] # "none" /\ UNCHANGED <<job, control, line, dialed, seen>>
        /\ CallsTyped /\ CallsInv /\ StopInv /\ PhoneTypeOK
    BY TypeSplit DEF Callback, PhoneIInv, TypeParts
  <1>2. /\ WorkersOK' /\ worker'[w].pc = "control"
        /\ \A v \in Workers \ {w} : worker'[v] = worker[v]
    BY <1>1, CallbackMoves DEF Becomes
  <1>3. attempt[t] # "none" /\ job.cv > 0
    <2>1. attempt[t] # "none"
      BY <1>1 DEF CallsInv, HotelOK
    <2> QED
      BY <1>1, <2>1 DEF StopInv, JobOK, PhoneTypeOK
  <1>4. \A v \in Workers : Loose(v) /\ (worker'[v] = worker[v] \/ Untracked(v))
    BY <1>2, <1>3 DEF Loose, Keeps, Bound, Untracked, Tracked, Stopping
  <1>5. CASE UNCHANGED lock /\ attempt' = [attempt EXCEPT ![t] = IF @ \in Ended THEN @ ELSE "live"]
    <2>1. CallsInv'
      BY <1>1, <1>4, <1>5, CallsReported
    <2>2. CallsTyped'
      BY <1>1, <1>5 DEF CallsTyped
    <2>3. /\ Active' \subseteq Active
          /\ \A u \in Hotels : attempt[u] \in Ended => attempt'[u] \in Ended
      BY <1>1, <1>3, <1>5 DEF CallsTyped, Active, Ended
    <2> QED
      BY <1>1, <1>2, <1>3, <1>4, <2>1, <2>2, <2>3, CallsStep
  <1>6. CASE line[t] = "over" /\ Conclude(t)
    <2>1. line' = [line EXCEPT ![t] = "over"]
      BY <1>1, <1>6 DEF CallsTyped, Calls
    <2>2. CallsInv'
      BY <1>1, <1>4, <1>6, <2>1, CallsConclude
    <2>3. attempt' = [attempt EXCEPT ![t] = "ended"] /\ CallsTyped'
      BY <1>1, <1>6 DEF Conclude, Release, CallsTyped, Ended
    <2>4. /\ Active' \subseteq Active
          /\ \A u \in Hotels : attempt[u] \in Ended => attempt'[u] \in Ended
      BY <1>1, <2>3 DEF CallsTyped, Active, Ended
    <2> QED
      BY <1>1, <1>2, <1>3, <1>4, <2>2, <2>3, <2>4, CallsStep
  <1> QED
    BY <1>5, <1>6 DEF Callback

\* The handlers' views.
LEMMA ViewStep ==
  ASSUME PhoneIInv, NEW h \in Handlers, View(h)
  PROVE  PhoneIInv'
  <1> DEFINE v == [version |-> control.version, cv |-> control.cv, status |-> control.status]
  <1>1. /\ UNCHANGED <<job, control, calls, worker>> /\ control.version > 0 /\ TypeParts
        /\ seen' = [seen EXCEPT ![h] = v] /\ CallsInv /\ StopInv
    BY TypeSplit DEF View, PhoneIInv
  <1>2. v \in [version : 1..MaxVersion, cv : 0..MaxCommands, status : Statuses]
    BY <1>1 DEF TypeParts, ControlTyped
  <1>3. v.cv = control.cv /\ v.status = control.status
    OBVIOUS
  <1> HIDE DEF v
  <1>4. SeenTyped' /\ seen'[h] = v /\ \A g \in Handlers \ {h} : seen'[g] = seen[g]
    BY <1>1, <1>2 DEF TypeParts, SeenTyped
  <1>5. PhoneTypeOK'
    BY <1>1, <1>4, TypeJoin DEF TypeParts, JobTyped, ControlTyped, CallsTyped, WorkersOK, calls
  <1>6. CallsInv'
    BY <1>1, CallsRest DEF Loose, Keeps
  <1>7. StopInv'
    <2>1. UNCHANGED <<job, control, attempt, worker>> /\ Active' = Active /\ (Halted <=> Halted')
      BY <1>1 DEF calls, Active, Halted
    <2>2. ASSUME NEW g \in Handlers PROVE SeenOK(g)'
      <3>1. CASE g = h
        BY <1>1, <1>3, <1>4, <2>1, <3>1 DEF StopInv, ControlOK, SeenOK
      <3>2. CASE g # h
        BY <1>1, <1>4, <2>1, <3>2 DEF StopInv, SeenOK
      <3> QED
        BY <3>1, <3>2
    <2>3. (NobodyArmed <=> NobodyArmed')
      BY <2>1 DEF NobodyArmed, Armed, JobFresh
    <2>4. ControlOK' /\ JobOK'
      BY <1>1, <2>1, <2>3 DEF StopInv, ControlOK, JobOK
    <2>5. \A w \in Workers : Informed(w)' /\ StoppingOK(w)' /\ (worker'[w].pc # "idle" => job'.cv > 0)
      BY <1>1, <2>1, <2>3 DEF StopInv, Informed, StoppingOK, RowFresh, JobFresh
    <2> QED
      BY <2>2, <2>4, <2>5 DEF StopInv
  <1> QED
    BY <1>5, <1>6, <1>7 DEF PhoneIInv

LEMMA LoseViewStep ==
  ASSUME PhoneIInv, NEW h \in Handlers, seen' = [seen EXCEPT ![h] = NoView],
         UNCHANGED <<job, control, calls, worker>>
  PROVE  PhoneIInv'
  <1>1. TypeParts /\ CallsInv /\ StopInv /\ (control.version > 0 => job.cv > 0)
    BY TypeSplit DEF PhoneIInv, StopInv, ControlOK
  <1>2. SeenTyped' /\ \A g \in Handlers : seen'[g] = seen[g] \/ seen'[g] = NoView
    BY <1>1 DEF TypeParts, SeenTyped
  <1>3. PhoneTypeOK'
    BY <1>1, <1>2, TypeJoin DEF TypeParts, JobTyped, ControlTyped, CallsTyped, WorkersOK, calls
  <1>4. CallsInv'
    BY <1>1, CallsRest DEF Loose, Keeps
  <1>5. StopInv'
    BY <1>1, <1>2, StopRest DEF calls, Active
  <1> QED
    BY <1>3, <1>4, <1>5 DEF PhoneIInv

\* The job is written by the owner or by a handler, with what goes with it.
LEMMA SetJobStep ==
  ASSUME PhoneIInv, NEW j, SetJob(j), UNCHANGED <<control, calls>>, SeenTyped',
         \A g \in Handlers : seen'[g] = seen[g] \/ seen'[g] = NoView,
         j \in [status : {"active", "paused", "cancelled"}, run : Runs, command : {"run"} \cup Stops,
                cv : 0..MaxCommands, pv : 0..MaxVersion],
         j.cv >= job.cv, j.cv = job.cv => j.command = job.command,
         j.run = "none" <=> j.cv = 0,
         j.run \in {"paused", "cancelled"} => Halted /\ j.command = job.command,
         j.run = "succeeded" => \A t \in Hotels : attempt[t] \in Ended
  PROVE  PhoneIInv'
  <1>1. TypeParts /\ CallsInv /\ StopInv /\ WorkersOK
    BY TypeSplit DEF PhoneIInv, TypeParts
  <1>2. WorkersOK' /\ job' = j /\ \A v \in Workers : Ages(v, "job")
    BY <1>1, SetJobAges
  <1>3. PhoneTypeOK'
    <2>1. JobTyped'
      BY <1>2 DEF JobTyped
    <2> QED
      BY <1>1, <1>2, <2>1, TypeJoin DEF TypeParts, ControlTyped, CallsTyped, calls
  <1>4. CallsInv'
    BY <1>1, <1>2, CallsRest DEF Loose, Keeps, Ages
  <1>5. StopInv'
    <2>1. /\ job.cv \in Nat /\ j.cv \in Nat /\ control.cv \in Nat
          /\ \A w \in Workers : worker[w].cv \in Nat
          /\ \A h \in Handlers : seen[h] # NoView => seen[h].cv \in Nat
      <3>1. \A w \in Workers : worker[w].cv \in Nat
        BY <1>1 DEF WorkersOK, Work
      <3>2. \A h \in Handlers : seen[h] # NoView => seen[h].cv \in Nat
        BY <1>1 DEF TypeParts, SeenTyped
      <3> QED
        BY <1>1, <3>1, <3>2 DEF TypeParts, JobTyped, ControlTyped
    <2>2. attempt' = attempt /\ Active' = Active
      BY DEF calls, Active
    <2>3. j.cv = 0 => \A t \in Hotels : attempt[t] = "none"
      <3>1. j.cv = 0 => job.cv = 0
        BY <2>1
      <3> QED
        BY <1>1, <3>1 DEF StopInv, JobOK
    <2>4. JobOK'
      BY <1>2, <2>1, <2>2, <2>3 DEF JobOK, Halted
    <2> QED
      BY <1>1, <1>2, <2>1, <2>2, <2>4, StopSetJob
  <1> QED
    BY <1>3, <1>4, <1>5 DEF PhoneIInv

LEMMA RunStep ==
  ASSUME PhoneIInv, RunPhoneResearch
  PROVE  PhoneIInv'
  <1> DEFINE j == [job EXCEPT !.run = "queued", !.cv = 1]
  <1>1. /\ JobTyped /\ SeenTyped /\ job.cv = 0 /\ SetJob(j) /\ UNCHANGED <<control, calls, seen>>
    BY TypeSplit DEF PhoneIInv, StopInv, JobOK, RunPhoneResearch, TypeParts
  <1>2. /\ j \in [status : {"active", "paused", "cancelled"}, run : Runs,
                  command : {"run"} \cup Stops, cv : 0..MaxCommands, pv : 0..MaxVersion]
        /\ j.cv = 1 /\ j.run = "queued"
    <2>1. "queued" \in Runs /\ 1 \in 0..MaxCommands
      BY DEF Runs
    <2> QED
      BY <1>1, <2>1 DEF JobTyped
  <1>3. SeenTyped'
    BY <1>1 DEF SeenTyped
  <1> HIDE DEF j
  <1> QED
    BY <1>1, <1>2, <1>3, SetJobStep

LEMMA ActionStep ==
  ASSUME PhoneIInv, NEW action \in {"pause", "resume", "cancel"}, PhoneAction(action)
  PROVE  PhoneIInv'
  <1>1. JobTyped /\ SeenTyped /\ JobOK /\ UNCHANGED <<control, calls, seen>> /\ job.cv < MaxCommands
    BY TypeSplit DEF PhoneIInv, StopInv, PhoneAction, TypeParts
  <1>2. SeenTyped'
    BY <1>1 DEF SeenTyped
  <1>3. PICK status \in {"active", "paused", "cancelled"}, command \in {"run"} \cup Stops :
          SetJob(Commanded([job EXCEPT !.status = status], command))
    BY DEF PhoneAction, Stops
  <1> DEFINE i == [job EXCEPT !.status = status]
             j == Commanded(i, command)
  <1>4. /\ i \in [status : {"active", "paused", "cancelled"}, run : Runs,
                  command : {"run"} \cup Stops, cv : 0..MaxCommands, pv : 0..MaxVersion]
        /\ i.cv = job.cv /\ i.command = job.command /\ i.run = job.run
    BY <1>1 DEF JobTyped
  <1> HIDE DEF i
  <1>5. CASE i.run = "none" \/ Finished(i.run)
    <2>1. j = i
      BY <1>5 DEF Commanded
    <2>2. SetJob(j) /\ job.cv \in Nat
      BY <1>1, <1>3 DEF i, JobTyped
    <2>3. /\ j \in [status : {"active", "paused", "cancelled"}, run : Runs,
                    command : {"run"} \cup Stops, cv : 0..MaxCommands, pv : 0..MaxVersion]
          /\ j.cv = job.cv /\ j.command = job.command /\ j.run = job.run
      BY <1>4, <2>1
    <2>4. /\ job.run = "none" <=> job.cv = 0
          /\ job.run \in {"paused", "cancelled"} => Halted
          /\ job.run = "succeeded" => \A t \in Hotels : attempt[t] \in Ended
      BY <1>1, <2>2 DEF JobOK
    <2> HIDE DEF j
    <2> QED
      BY <1>1, <1>2, <2>2, <2>3, <2>4, SetJobStep
  <1>6. CASE ~(i.run = "none" \/ Finished(i.run))
    <2>1. j = [i EXCEPT !.command = command, !.cv = @ + 1,
                        !.run = IF command = "run" THEN "queued" ELSE "stopping"]
      BY <1>6 DEF Commanded
    <2>2. i.cv + 1 \in 1..MaxCommands
      BY <1>1, <1>4 DEF JobTyped
    <2> DEFINE run == IF command = "run" THEN "queued" ELSE "stopping"
    <2>3. run \in {"queued", "stopping"}
      OBVIOUS
    <2>4. j = [i EXCEPT !.command = command, !.cv = i.cv + 1, !.run = run]
      BY <2>1
    <2> HIDE DEF run
    <2>5. /\ j \in [status : {"active", "paused", "cancelled"}, run : Runs,
                    command : {"run"} \cup Stops, cv : 0..MaxCommands, pv : 0..MaxVersion]
          /\ j.cv = job.cv + 1 /\ j.run \in {"queued", "stopping"}
      <3>1. run \in Runs /\ i.cv + 1 \in 0..MaxCommands
        BY <2>2, <2>3 DEF Runs
      <3> HIDE DEF j
      <3> QED
        BY <1>4, <2>3, <2>4, <3>1
    <2>6. SetJob(j) /\ job.cv \in Nat
      BY <1>1, <1>3 DEF i, JobTyped
    <2> HIDE DEF j
    <2> QED
      BY <1>1, <1>2, <2>5, <2>6, SetJobStep
  <1> QED
    BY <1>5, <1>6

LEMMA ApplyStep ==
  ASSUME PhoneIInv, NEW h \in Handlers, ApplyPhoneResult(h)
  PROVE  PhoneIInv'
  <1> DEFINE v == seen[h]
             status == IF v.status \in {"blocked", "paused"} /\ job.status # "cancelled"
                       THEN "paused" ELSE job.status
             j == [job EXCEPT !.pv = v.version, !.run = v.status, !.status = status]
  <1>1. /\ TypeParts /\ StopInv /\ v # NoView /\ seen' = [seen EXCEPT ![h] = NoView]
        /\ UNCHANGED <<control, calls>>
    BY TypeSplit DEF PhoneIInv, ApplyPhoneResult
  <1>2. SeenTyped' /\ \A g \in Handlers : seen'[g] = seen[g] \/ seen'[g] = NoView
    BY <1>1 DEF TypeParts, SeenTyped
  <1>3. CASE UNCHANGED <<job, worker>>
    BY <1>1, <1>3, LoseViewStep
  <1>4. CASE v.cv = job.cv /\ Coherent(v) /\ SetJob(j)
    <2>1. /\ v.version \in 1..MaxVersion /\ v.status \in Statuses
          /\ status \in {"active", "paused", "cancelled"} /\ job.cv > 0 /\ SeenOK(h)
      BY <1>1 DEF TypeParts, SeenTyped, JobTyped, StopInv, SeenOK, ControlOK
    <2>2. /\ j \in [status : {"active", "paused", "cancelled"}, run : Runs,
                    command : {"run"} \cup Stops, cv : 0..MaxCommands, pv : 0..MaxVersion]
          /\ j.cv = job.cv /\ j.run = v.status /\ j.command = job.command
      <3> HIDE DEF v, status
      <3>1. v.version \in 0..MaxVersion /\ v.status \in Runs
        BY <2>1 DEF Runs
      <3> QED
        BY <1>1, <2>1, <3>1 DEF TypeParts, JobTyped
    <2>3. SetJob(j) /\ v.cv = job.cv
      BY <1>4
    <2>4. v.status = "succeeded" => \A t \in Hotels : attempt[t] \in Ended
      BY <1>4 DEF Coherent
    <2>5. v.status \in {"paused", "cancelled"} => Halted
      BY <1>1, <2>1, <2>3 DEF SeenOK
    <2>6. job.cv \in Nat /\ "none" \notin Statuses
      BY <1>1 DEF TypeParts, JobTyped, Statuses
    <2> HIDE DEF j, v
    <2> QED
      BY <1>1, <1>2, <2>1, <2>2, <2>3, <2>4, <2>5, <2>6, SetJobStep
  <1> QED
    BY <1>3, <1>4 DEF ApplyPhoneResult

-----------------------------------------------------------------------------
LEMMA PhoneStart == PhoneInit => PhoneIInv
  <1> SUFFICES ASSUME PhoneInit PROVE PhoneIInv
    OBVIOUS
  <1>1. \A w \in Workers : worker[w] = Still
    BY DEF PhoneInit
  <1>2. PhoneTypeOK
    <2>1. WorkersOK
      BY StillTyped DEF PhoneInit, WorkersOK
    <2> QED
      BY <2>1 DEF PhoneInit, PhoneTypeOK, WorkersOK, Work, Pcs, Calls, Ended, Stops
  <1>3. CallsInv
    BY <1>1, StillTyped DEF PhoneInit, CallsInv, HotelOK, ReservedOK, Reserved, Calls, Present
  <1>4. StopInv
    BY <1>1, StillTyped DEF PhoneInit, StopInv, Informed, StoppingOK, ControlOK, JobOK, SeenOK,
                            Active, NobodyArmed, Armed
  <1> QED
    BY <1>2, <1>3, <1>4 DEF PhoneIInv

LEMMA PhoneStays == PhoneIInv /\ [PhoneNext]_phoneVars => PhoneIInv'
  <1> SUFFICES ASSUME PhoneIInv, [PhoneNext]_phoneVars PROVE PhoneIInv'
    OBVIOUS
  <1>1. CASE RunPhoneResearch
    BY <1>1, RunStep
  <1>2. ASSUME NEW action \in {"pause", "resume", "cancel"}, PhoneAction(action) PROVE PhoneIInv'
    BY <1>2, ActionStep
  <1>3. ASSUME NEW h \in Handlers, View(h) \/ ApplyPhoneResult(h) \/ LoseView(h) PROVE PhoneIInv'
    BY <1>3, ViewStep, ApplyStep, LoseViewStep DEF LoseView
  <1>4. ASSUME NEW w \in Workers, WorkerStep(w) PROVE PhoneIInv'
    <2>1. CASE Touch(w)
      BY <2>1, StatusStep DEF Touch
    <2>2. CASE Block(w)
      BY <2>2, StatusStep DEF Block, Statuses
    <2>3. CASE Succeed(w)
      BY <2>3, StatusStep DEF Succeed, Statuses
    <2>4. CASE Accepted(w)
      BY <2>4, StatusStep DEF Accepted, Statuses
    <2>5. CASE ReadControl(w) \/ Authorize(w) \/ Stop(w) \/ StopLook(w) \/ Terminate(w) \/ Stopped(w)
      BY <2>5, ReadControlStep, AuthorizeStep, StopStep, StopLookStep, TerminateStep, StoppedStep
    <2>6. CASE Start(w) \/ Look(w) \/ Lookup(w) \/ Choose(w) \/ Reserve(w) \/ RecheckCommand(w)
      BY <2>6, StartStep, LookStep, LookupStep, ChooseStep, ReserveStep, RecheckStep
    <2>7. CASE Revoke(w) \/ Dial(w) \/ Answered(w)
      BY <2>7, RevokeStep, DialStep, AnsweredStep
    <2> QED
      BY <1>4, <2>1, <2>2, <2>3, <2>4, <2>5, <2>6, <2>7 DEF WorkerStep
  <1>5. ASSUME NEW w \in Workers, DispatchPhone(w) \/ WorkerDies(w) PROVE PhoneIInv'
    BY <1>5, DispatchStep, QuitStep DEF WorkerDies
  <1>6. ASSUME NEW w \in Workers, NEW t \in Hotels, Callback(w, t) PROVE PhoneIInv'
    BY <1>6, CallbackStep
  <1>7. ASSUME NEW t \in Hotels, CallEnds(t) PROVE PhoneIInv'
    BY <1>7, CallEndsStep
  <1>8. CASE OtherCall
    BY <1>8, OtherCallStep
  <1>9. CASE UNCHANGED phoneVars
    <2>1. WorkersOK' /\ UNCHANGED <<job, control, calls, worker, seen>>
      BY <1>9, WorkersTyped DEF phoneVars, PhoneIInv, WorkersOK
    <2> QED
      BY <2>1, WorkersStep DEF Loose, Keeps
  <1> QED
    BY <1>1, <1>2, <1>3, <1>4, <1>5, <1>6, <1>7, <1>8, <1>9 DEF PhoneNext

LEMMA PhoneSafe == PhoneIInv => CallsSafe /\ StoppedSilent
  <1> SUFFICES ASSUME PhoneIInv PROVE CallsSafe /\ StoppedSilent
    OBVIOUS
  <1>1. \A t \in OnLine : lock = t /\ (t \in Hotels => t \in Active)
    BY DEF PhoneIInv, CallsInv, HotelOK, OnLine, Calls, Active, Present, Ended
  <1>2. CallsSafe
    BY <1>1 DEF PhoneIInv, CallsInv, HotelOK, CallsSafe
  <1>3. \A w \in Workers : worker[w].pc = "dial" => worker[w].hotel \in Active
    BY DEF PhoneIInv, CallsInv, ReservedOK, Reserved, Active, Ended
  <1>4. Active = {} => Silent
    BY <1>1, <1>3 DEF Silent, OnLine, Calls
  <1>5. control.status \in {"paused", "cancelled"} => Active = {}
    BY DEF PhoneIInv, StopInv, ControlOK
  <1>6. job.run \in {"paused", "cancelled", "succeeded"} => Active = {}
    BY DEF PhoneIInv, StopInv, JobOK, Halted, Active
  <1> QED
    BY <1>2, <1>4, <1>5, <1>6 DEF StoppedSilent

\* The state of a phone-research run, of its provider and of its calls has its
\* types.
THEOREM PhoneTypeCorrect == PhoneSpec => []PhoneTypeOK
  <1>1. PhoneIInv => PhoneTypeOK
    BY DEF PhoneIInv
  <1> QED
    BY PhoneStart, PhoneStays, <1>1, PTL DEF PhoneSpec

\* A hotel is dialed at most once, and at most one call is on the line, which
\* holds the shared voice lock.
THEOREM CallsStaySafe == PhoneSpec => []CallsSafe
  BY PhoneStart, PhoneStays, PhoneSafe, PTL DEF PhoneSpec

\* No call is on the line, and none is about to be dialed, when the provider says
\* paused or cancelled, or the job says paused, cancelled or finished.
THEOREM StoppedStaysSilent == PhoneSpec => []StoppedSilent
  BY PhoneStart, PhoneStays, PhoneSafe, PTL DEF PhoneSpec
===============================================================================
