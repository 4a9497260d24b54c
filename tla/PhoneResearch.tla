---------------------------- MODULE PhoneResearch ----------------------------
(***************************************************************************)
(* One run of a phone-research job.  The owner's commands are committed to *)
(* the job record and then sent to the phone provider, whose invocations   *)
(* keep a control row for the run and an attempt row for every hotel, and  *)
(* dial.  Results come back as views of the control row, late or repeated. *)
(* Rows are compared by version: an invocation may save the control row,   *)
(* or reserve an attempt, while the copy it holds is the present one.      *)
(***************************************************************************)
EXTENDS Naturals, FiniteSets

CONSTANTS
  Workers,     \* concurrent invocations of the provider
  Handlers,    \* handlers of the web application that hold a view
  Hotels,      \* hotels to call, 1..n
  MaxCommands, \* bound on the owner's commands
  MaxVersion,  \* bound on the versions of the control row
  Elsewhere,   \* a call of another kind, which shares the voice lock
  NoView, NoHotel

ASSUME PhoneAssumption ==
  /\ MaxCommands \in Nat \ {0} /\ MaxVersion \in Nat \ {0}
  /\ Elsewhere \notin Hotels /\ NoHotel \notin Hotels \cup {Elsewhere}

VARIABLES
  job,      \* the job, its run and the run's present command
  control,  \* the provider's control row; version 0: there is none
  attempt,  \* the attempt rows
  lock,     \* the call that holds the shared voice lock
  line,     \* the calls as they are on the line
  dialed,   \* history: requests that create a call
  worker,   \* what each invocation of the provider is doing; "fresh" tells which
            \* of its copies, of the job and of the control row, are the present ones
  seen      \* the view each handler holds

calls == <<attempt, lock, line, dialed>>
phoneVars == <<job, control, calls, worker, seen>>

Calls == Hotels \cup {Elsewhere}
Finished(status) == status \in {"succeeded", "cancelled"}
Stops == {"pause", "cancel"}
Ended == {"ended", "rejected"}

Still == [pc |-> "idle", cv |-> 0, command |-> "run", hotel |-> NoHotel, answer |-> "none",
          fresh |-> {}]

PhoneTypeOK ==
  /\ job \in [status : {"active", "paused", "cancelled"},
              run : {"none", "queued", "stopping", "running", "blocked", "paused", "cancelled",
                     "succeeded"},
              command : {"run"} \cup Stops, cv : 0..MaxCommands, pv : 0..MaxVersion]
  /\ control \in [version : 0..MaxVersion, cv : 0..MaxCommands, command : {"run"} \cup Stops,
                  status : {"running", "blocked", "paused", "cancelled", "succeeded"}]
  /\ attempt \in [Hotels -> {"none", "creating", "unknown", "live"} \cup Ended]
  /\ lock \in Calls \cup {NoHotel}
  /\ line \in [Calls -> {"none", "live", "over"}] /\ dialed \in [Hotels -> Nat]
  /\ worker \in [Workers -> [pc : {"idle", "control", "authorize", "stop", "stopLook", "terminate",
                                   "stopped", "start", "look", "lookup", "choose", "reserve",
                                   "recheck", "dial", "answer", "revoke", "block", "accepted",
                                   "succeed", "touch"},
                             cv : 0..MaxCommands, command : {"run"} \cup Stops,
                             hotel : Hotels \cup {NoHotel},
                             answer : {"none", "accepted", "rejected", "ambiguous", "event", "end"},
                             fresh : SUBSET {"job", "row"}]]
  /\ seen \in [Handlers -> {NoView} \cup [version : 1..MaxVersion, cv : 0..MaxCommands,
                 status : {"running", "blocked", "paused", "cancelled", "succeeded"}]]

PhoneInit ==
  /\ job = [status |-> "active", run |-> "none", command |-> "run", cv |-> 0, pv |-> 0]
  /\ control = [version |-> 0, cv |-> 0, command |-> "run", status |-> "paused"]
  /\ attempt = [t \in Hotels |-> "none"] /\ lock = NoHotel
  /\ line = [t \in Calls |-> "none"] /\ dialed = [t \in Hotels |-> 0]
  /\ worker = [w \in Workers |-> Still]
  /\ seen = [h \in Handlers |-> NoView]

To(w, pc) == worker' = [worker EXCEPT ![w].pc = pc]
Quit(w) == worker' = [worker EXCEPT ![w] = Still]
ToSave(w, pc) == worker' = [worker EXCEPT ![w] =
  [Still EXCEPT !.pc = pc, !.command = IF pc = "stopped" THEN worker[w].command ELSE @, !.fresh = worker[w].fresh \ {"job"}]]
ToBlock(w) == ToSave(w, "block")
\* After a write of the job or of the control row, the other copies are old.
Outdated(k, copy) == [k EXCEPT !.fresh = @ \ {copy}]

-----------------------------------------------------------------------------
(***************************************************************************)
(* The owner's commands, and the provider's results.                       *)
(***************************************************************************)
SetJob(j) == job' = j /\ worker' = [w \in Workers |-> Outdated(worker[w], "job")]

RunPhoneResearch ==
  /\ job.status = "active" /\ job.run = "none"
  /\ SetJob([job EXCEPT !.run = "queued", !.cv = 1])
  /\ UNCHANGED <<control, calls, seen>>

\* A command for a run that is not finished goes to the provider.
Commanded(j, command) ==
  IF j.run = "none" \/ Finished(j.run) THEN j
  ELSE [j EXCEPT !.command = command, !.cv = @ + 1,
                 !.run = IF command = "run" THEN "queued" ELSE "stopping"]

PhoneAction(action) ==
  /\ job.cv < MaxCommands
  /\ \/ action = "pause" /\ job.status = "active"
        /\ SetJob(Commanded([job EXCEPT !.status = "paused"], "pause"))
     \/ action = "resume" /\ job.status = "paused"
        /\ SetJob(Commanded([job EXCEPT !.status = "active"], "run"))
     \/ action = "cancel" /\ job.status # "cancelled"
        /\ SetJob(Commanded([job EXCEPT !.status = "cancelled"], "cancel"))
  /\ UNCHANGED <<control, calls, seen>>

\* A view is the control row, and then what the attempt rows say.
View(h) ==
  /\ seen[h] = NoView /\ control.version > 0
  /\ seen' = [seen EXCEPT ![h] = [version |-> control.version, cv |-> control.cv,
                                  status |-> control.status]]
  /\ UNCHANGED <<job, control, calls, worker>>

\* A run does not count as succeeded with an attempt that is not over.  (Attempts
\* end once, and are read after the row: this is the latest moment.)
Coherent(v) == v.status = "succeeded" => \A t \in Hotels : attempt[t] \in Ended

\* A view counts for the command it answers, in the order of its versions, and
\* never against a final outcome.
ApplyPhoneResult(h) ==
  LET v == seen[h] IN
  /\ v # NoView /\ seen' = [seen EXCEPT ![h] = NoView]
  /\ IF v.cv = job.cv /\ v.version > job.pv /\ Coherent(v)
        /\ ~(Finished(job.run) /\ v.status # job.run)
     THEN SetJob([job EXCEPT !.pv = v.version, !.run = v.status,
                    !.status = IF v.status \in {"blocked", "paused"} /\ @ # "cancelled"
                               THEN "paused" ELSE @])
     ELSE UNCHANGED <<job, worker>>
  /\ UNCHANGED <<control, calls>>

\* The handler dies, or its three attempts to write are lost to others.
LoseView(h) ==
  /\ seen[h] # NoView /\ seen' = [seen EXCEPT ![h] = NoView]
  /\ UNCHANGED <<job, control, calls, worker>>

-----------------------------------------------------------------------------
(***************************************************************************)
(* The provider: a command arrives, once or more, and is checked against   *)
(* the job record.                                                         *)
(***************************************************************************)
DispatchPhone(w) ==
  /\ worker[w].pc = "idle" /\ job.run \in {"queued", "stopping"}
  /\ worker' = [worker EXCEPT ![w] = [Still EXCEPT !.pc = "control", !.cv = job.cv]]
  /\ UNCHANGED <<job, control, calls, seen>>

\* A write of the control row; the invocation whose copy is old fails and ends.
Save(w, c, next) ==
  IF "row" \in worker[w].fresh
  THEN /\ control.version < MaxVersion
       /\ control' = [c EXCEPT !.version = control.version + 1]
       /\ worker' = [v \in Workers |-> IF v = w THEN next ELSE Outdated(worker[v], "row")]
  ELSE UNCHANGED control /\ Quit(w)
Then(w, pc) == [worker[w] EXCEPT !.pc = pc]

\* A callback goes on unless it only reports progress or the run is not running.
ReadControl(w) ==
  LET k == worker[w]
      read == [k EXCEPT !.fresh = @ \cup {"row"}]
      stopping == control.status = "blocked" /\ control.command \in Stops
  IN
  /\ k.pc = "control"
  /\ control' = IF control.version = 0 THEN [control EXCEPT !.version = 1] ELSE control
  /\ worker' = [worker EXCEPT ![w] =
       CASE k.answer = "event" /\ ~stopping -> [read EXCEPT !.pc = "touch"]
         [] k.answer = "end" /\ ~stopping /\ control.status # "running" -> Still
         [] OTHER -> [read EXCEPT !.pc = "authorize"]]
  /\ UNCHANGED <<job, calls, seen>>

\* A progress report of a call changes nothing but the version.
Touch(w) ==
  /\ worker[w].pc = "touch" /\ Save(w, control, Still)
  /\ UNCHANGED <<job, calls, seen>>

Runnable == job.command # "run" \/ (job.status = "active" /\ ~Finished(job.run))

\* A refused command ends; a refused callback blocks the run.
Authorize(w) ==
  LET k == worker[w]
      go == [Still EXCEPT !.cv = job.cv, !.command = job.command, !.fresh = k.fresh]
  IN
  /\ k.pc = "authorize"
  /\ IF ~(Runnable /\ (k.answer # "none" \/ k.cv = job.cv))
     THEN IF k.answer # "none" THEN ToBlock(w) ELSE Quit(w)
     ELSE worker' = [worker EXCEPT ![w] =
            IF job.command # "run" THEN [go EXCEPT !.pc = "stop"]
            ELSE [go EXCEPT !.pc = "start", !.fresh = @ \cup {"job"}]]
  /\ UNCHANGED <<job, control, calls, seen>>

Block(w) ==
  /\ worker[w].pc = "block"
  /\ Save(w, [control EXCEPT !.status = "blocked"], Still)
  /\ UNCHANGED <<job, calls, seen>>

Obeying(w, status) ==
  [control EXCEPT !.command = worker[w].command, !.cv = worker[w].cv, !.status = status]

-----------------------------------------------------------------------------
(***************************************************************************)
(* Pause and cancel.                                                       *)
(***************************************************************************)
Stop(w) ==
  /\ worker[w].pc = "stop" /\ Save(w, Obeying(w, "blocked"), Then(w, "stopLook"))
  /\ UNCHANGED <<job, calls, seen>>

\* Mutant: a call whose creation is unknown does not count.
ActiveKnown == {t \in Hotels : attempt[t] = "live"}

\* The attempt that is not over; without a call identifier nothing can be done.
Active == {t \in Hotels : attempt[t] \notin Ended \cup {"none"}}

StopLook(w) ==
  /\ worker[w].pc = "stopLook"
  /\ \/ Active = {} /\ ToSave(w, "stopped")
     \/ \E t \in Active : attempt[t] # "live" /\ ToBlock(w)
     \/ \E t \in Active :
          /\ attempt[t] = "live"
          /\ worker' = [worker EXCEPT ![w] = [@ EXCEPT !.pc = "terminate", !.hotel = t]]
  /\ UNCHANGED <<job, control, calls, seen>>

Release(t) == lock' = IF lock = t THEN NoHotel ELSE lock
Conclude(t) ==
  /\ attempt' = [attempt EXCEPT ![t] = "ended"]
  /\ Release(t)

\* The request that ends the call may fail, before or after its effect.
Terminate(w) ==
  LET t == worker[w].hotel IN
  /\ worker[w].pc = "terminate"
  /\ \/ line' = [line EXCEPT ![t] = "over"] /\ Conclude(t) /\ ToSave(w, "stopped")
     \/ /\ line' = [line EXCEPT ![t] = "over"] \/ UNCHANGED line
        /\ ToBlock(w) /\ UNCHANGED <<attempt, lock>>
  /\ UNCHANGED <<job, control, dialed, seen>>

Stopped(w) ==
  /\ worker[w].pc = "stopped"
  /\ Save(w, [control EXCEPT !.status = IF worker[w].command = "pause" THEN "paused"
                                        ELSE "cancelled"], Still)
  /\ UNCHANGED <<job, calls, seen>>

-----------------------------------------------------------------------------
(***************************************************************************)
(* Run: the next hotel is dialed unless something stands against it.       *)
(***************************************************************************)
\* A blocked run waits for another command.
Start(w) ==
  /\ worker[w].pc = "start"
  /\ IF "row" \in worker[w].fresh /\ control.status = "blocked" /\ control.cv = worker[w].cv
     THEN Quit(w) /\ UNCHANGED control
     ELSE Save(w, Obeying(w, "running"), Then(w, "look"))
  /\ UNCHANGED <<job, calls, seen>>

Look(w) ==
  /\ worker[w].pc = "look"
  /\ \/ Active = {} /\ To(w, "choose")
     \/ \E t \in Active : attempt[t] # "live" /\ ToBlock(w)
     \/ \E t \in Active :
          /\ attempt[t] = "live"
          /\ worker' = [worker EXCEPT ![w] = [@ EXCEPT !.pc = "lookup", !.hotel = t]]
  /\ UNCHANGED <<job, control, calls, seen>>

Lookup(w) ==
  LET t == worker[w].hotel IN
  /\ worker[w].pc = "lookup"
  /\ IF line[t] = "over"
     THEN Conclude(t) /\ worker' = [worker EXCEPT ![w] = [@ EXCEPT !.pc = "choose", !.hotel = NoHotel]]
     ELSE Quit(w) /\ UNCHANGED <<attempt, lock>>
  /\ UNCHANGED <<job, control, line, dialed, seen>>

\* Hours, expiry, the configuration or the lock may stand against a call.
Choose(w) ==
  LET remaining == {t \in Hotels : attempt[t] = "none"} IN
  /\ worker[w].pc = "choose"
  /\ \/ remaining = {} /\ ToSave(w, "succeed")
     \/ remaining # {} /\ ToBlock(w)
     \/ \E t \in remaining :
          /\ \A u \in remaining : t <= u
          /\ lock = NoHotel
          /\ worker' = [worker EXCEPT ![w] = [@ EXCEPT !.pc = "reserve", !.hotel = t]]
  /\ UNCHANGED <<job, control, calls, seen>>

Succeed(w) ==
  /\ worker[w].pc = "succeed" /\ Save(w, [control EXCEPT !.status = "succeeded"], Still)
  /\ UNCHANGED <<job, calls, seen>>

\* Mutant: the voice lock is not part of the transaction.
ReserveUnlocked(w) ==
  LET t == worker[w].hotel IN
  /\ worker[w].pc = "reserve"
  /\ \/ attempt[t] # "none" /\ Quit(w) /\ UNCHANGED <<attempt, lock>>
     \/ /\ attempt[t] = "none" /\ "job" \in worker[w].fresh
        /\ attempt' = [attempt EXCEPT ![t] = "creating"] /\ lock' = t
        /\ worker' = [worker EXCEPT ![w] = [Outdated(@, "job") EXCEPT !.pc = "recheck"]]
     \/ /\ attempt[t] = "none" /\ "job" \notin worker[w].fresh
        /\ ToBlock(w) /\ UNCHANGED <<attempt, lock>>
  /\ UNCHANGED <<job, control, line, dialed, seen>>

\* One transaction: the attempt is new, the lock is free, the job unchanged.
Reserve(w) ==
  LET t == worker[w].hotel IN
  /\ worker[w].pc = "reserve"
  /\ \/ attempt[t] # "none" /\ Quit(w) /\ UNCHANGED <<attempt, lock>>
     \/ /\ attempt[t] = "none" /\ lock = NoHotel /\ "job" \in worker[w].fresh
        /\ attempt' = [attempt EXCEPT ![t] = "creating"] /\ lock' = t
        /\ worker' = [worker EXCEPT ![w] = [Outdated(@, "job") EXCEPT !.pc = "recheck"]]
     \/ /\ attempt[t] = "none" /\ (lock # NoHotel \/ "job" \notin worker[w].fresh)
        /\ ToBlock(w) /\ UNCHANGED <<attempt, lock>>
  /\ UNCHANGED <<job, control, line, dialed, seen>>

\* The command is read once more, after the reservation.
RecheckCommand(w) ==
  /\ worker[w].pc = "recheck"
  /\ \/ Runnable /\ worker[w].cv = job.cv /\ lock = worker[w].hotel /\ To(w, "dial")
     \/ To(w, "revoke")
  /\ UNCHANGED <<job, control, calls, seen>>

Revoke(w) ==
  LET t == worker[w].hotel IN
  /\ worker[w].pc = "revoke"
  /\ attempt' = [attempt EXCEPT ![t] = "rejected"] /\ Release(t)
  /\ ToBlock(w)
  /\ UNCHANGED <<job, control, line, dialed, seen>>

\* The request that creates the call, and what the invocation learns of it.
Dial(w) ==
  LET t == worker[w].hotel IN
  /\ worker[w].pc = "dial"
  /\ dialed' = [dialed EXCEPT ![t] = @ + 1]
  /\ \E answer \in {"accepted", "rejected", "ambiguous"} :
       /\ \/ answer # "rejected" /\ line' = [line EXCEPT ![t] = "live"]
          \/ answer # "accepted" /\ UNCHANGED line
       /\ worker' = [worker EXCEPT ![w] = [@ EXCEPT !.pc = "answer", !.answer = answer]]
  /\ UNCHANGED <<job, control, attempt, lock, seen>>

\* A late answer does not move an attempt backwards; an ambiguous one keeps the
\* lock.
Answered(w) ==
  LET t == worker[w].hotel
      answer == worker[w].answer
  IN
  /\ worker[w].pc = "answer"
  /\ \/ answer = "accepted"
        /\ attempt' = [attempt EXCEPT ![t] = IF @ = "ended" THEN @ ELSE "live"]
        /\ ToSave(w, "accepted") /\ UNCHANGED lock
     \/ answer = "rejected"
        /\ attempt' = [attempt EXCEPT ![t] = IF @ = "creating" THEN "rejected" ELSE @]
        /\ ToBlock(w) /\ Release(t)
     \/ answer = "ambiguous"
        /\ attempt' = [attempt EXCEPT ![t] = IF @ = "creating" THEN "unknown" ELSE @]
        /\ ToBlock(w) /\ UNCHANGED lock
  /\ UNCHANGED <<job, control, line, dialed, seen>>

Accepted(w) ==
  /\ worker[w].pc = "accepted" /\ Save(w, [control EXCEPT !.status = "running"], Still)
  /\ UNCHANGED <<job, calls, seen>>

-----------------------------------------------------------------------------
(***************************************************************************)
(* The line: a call ends by itself, and the telephone service reports.     *)
(***************************************************************************)
CallEnds(t) ==
  /\ line[t] = "live" /\ line' = [line EXCEPT ![t] = "over"]
  /\ UNCHANGED <<job, control, attempt, lock, dialed, worker, seen>>

\* A report names the call, so that its identifier becomes known; reports may
\* be late or repeated, and go on with the run.
Callback(w, t) ==
  /\ worker[w].pc = "idle" /\ line[t] # "none"
  /\ \E event \in {"event", "end"} :
       /\ \/ event = "event" /\ UNCHANGED lock
             /\ attempt' = [attempt EXCEPT ![t] = IF @ \in Ended THEN @ ELSE "live"]
          \/ event = "end" /\ line[t] = "over" /\ Conclude(t)
       /\ worker' = [worker EXCEPT ![w] = [Still EXCEPT !.pc = "control", !.answer = event]]
  /\ UNCHANGED <<job, control, line, dialed, seen>>

\* Calls of another kind take the same lock, and give it back.
OtherCall ==
  /\ \/ lock = NoHotel /\ lock' = Elsewhere /\ line' = [line EXCEPT ![Elsewhere] = "live"]
     \/ /\ line[Elsewhere] = "live" /\ line' = [line EXCEPT ![Elsewhere] = "none"]
        /\ Release(Elsewhere)
  /\ UNCHANGED <<job, control, attempt, dialed, worker, seen>>

WorkerDies(w) ==
  /\ worker[w].pc # "idle" /\ Quit(w)
  /\ UNCHANGED <<job, control, calls, seen>>

WorkerStep(w) ==
  \/ ReadControl(w) \/ Touch(w) \/ Authorize(w) \/ Block(w)
  \/ Stop(w) \/ StopLook(w) \/ Terminate(w) \/ Stopped(w)
  \/ Start(w) \/ Look(w) \/ Lookup(w) \/ Choose(w) \/ Succeed(w) \/ Reserve(w) \/ RecheckCommand(w)
  \/ Revoke(w) \/ Dial(w) \/ Answered(w) \/ Accepted(w)

PhoneNext ==
  \/ RunPhoneResearch \/ \E action \in {"pause", "resume", "cancel"} : PhoneAction(action)
  \/ \E h \in Handlers : View(h) \/ ApplyPhoneResult(h) \/ LoseView(h)
  \/ \E w \in Workers : DispatchPhone(w) \/ WorkerStep(w) \/ WorkerDies(w)
                          \/ \E t \in Hotels : Callback(w, t)
  \/ \E t \in Hotels : CallEnds(t)
  \/ OtherCall

PhoneSpec == PhoneInit /\ [][PhoneNext]_phoneVars

-----------------------------------------------------------------------------
(***************************************************************************)
(* Properties.                                                             *)
(***************************************************************************)
OnLine == {t \in Calls : line[t] = "live"}

\* A hotel is dialed at most once, whatever is repeated, resumed or unknown; one
\* call is on the line at a time, and it holds the shared voice lock.
CallsSafe ==
  /\ \A t \in Hotels : dialed[t] <= 1
  /\ OnLine # {} => OnLine = {lock}

\* When the provider says that the run is paused or cancelled, and when the job
\* says that it is paused, cancelled or finished, no call is on the line and none
\* is about to be dialed.  (The provider's own "succeeded" says less: an
\* invocation that finds every hotel reserved saves it while another dials.)
Silent == OnLine \subseteq {Elsewhere} /\ \A w \in Workers : worker[w].pc # "dial"
StoppedSilent ==
  /\ control.status \in {"paused", "cancelled"} => Silent
  /\ job.run \in {"paused", "cancelled", "succeeded"} => Silent
===============================================================================
