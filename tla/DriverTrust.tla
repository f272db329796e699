---------------------------- MODULE DriverTrust ----------------------------
(***************************************************************************)
(* What the layer believes of a driver, and how it finds out               *)
(* (src/layer/src/main/cpp/core/driver_trust.cpp, core/driver_trust.h,     *)
(* core/driver_trust_probe.cpp, core/driver_probe_process.cpp).            *)
(*                                                                         *)
(* The first thread that asks about a device probes it, the others wait.   *)
(* Push descriptors and tiler budgets are measured in worker processes: a  *)
(* control that avoids the suspected defect, the subject, the control      *)
(* again.  A worker that hangs in the kernel is killed at a deadline.      *)
(***************************************************************************)
EXTENDS Naturals, FiniteSets

CONSTANTS
    Callers,    \* threads that ask
    Identities, \* devices with driver, version and provider
    Capacity,   \* DriverTrustCache::capacity_
    None

Parts == {"push", "tiler"}

VARIABLES
    defective, \* the truth about each driver
    entry,     \* DriverTrustCache::entries_: owner and future
    caller,    \* the locals of each thread
    worker     \* the child process of each prober, as its parent can see it

vars == <<defective, entry, caller, worker>>

Verdicts == {"inconclusive", "healthy", "repair"}
Reports == [Parts -> Verdicts]
Entries == [owner : Callers, report : Reports \cup {None}]

Unmeasured == [p \in Parts |-> "inconclusive"]
Idle == [pc |-> "idle", id |-> None, part |-> None, run |-> None, subject |-> None, out |-> {},
         report |-> Unmeasured, excused |-> {}]
NoWorker == [state |-> "none", pipe |-> {}]

Init ==
    /\ defective \in [Identities -> SUBSET Parts]
    /\ entry = [i \in Identities |-> None]
    /\ caller = [t \in Callers |-> Idle]
    /\ worker = [t \in Callers |-> NoWorker]

Known == {i \in Identities : entry[i] # None}
Pending(i) == i \in Known /\ entry[i].report = None

(* DriverTrustCache::get -------------------------------------------------- *)
\* Mutant: the prober is not told from the threads that may wait.
LookupAnyOwner(t, i) ==
    CASE i \in Known -> "wait"
      [] i \notin Known /\ Cardinality(Known) >= Capacity -> "empty"
      [] i \notin Known /\ Cardinality(Known) < Capacity -> "probe"
Lookup(t, i) ==
    CASE Pending(i) /\ entry[i].owner = t -> "empty"
      [] i \in Known /\ ~(Pending(i) /\ entry[i].owner = t) -> "wait"
      [] i \notin Known /\ Cardinality(Known) >= Capacity -> "empty"
      [] OTHER -> "probe"

Ask(t, i) ==
    /\ caller[t].pc = "idle"
    /\ LET next == Lookup(t, i) IN
       /\ caller' = [caller EXCEPT ![t] =
                        [Idle EXCEPT !.id = i,
                                     !.pc = IF next = "probe" THEN "native"
                                            ELSE IF next = "wait" THEN "wait" ELSE "done"]]
       /\ entry' = IF next = "probe"
                   THEN [entry EXCEPT ![i] = [owner |-> t, report |-> None]] ELSE entry
    /\ UNCHANGED <<defective, worker>>

\* The probe's own calls come back to the layer and ask again.
Reenter(t) ==
    /\ caller[t].pc \in {"native", "launch"}
    /\ caller' = [caller EXCEPT ![t].pc = IF Lookup(t, caller[t].id) = "wait" THEN "wait" ELSE @]
    /\ UNCHANGED <<defective, entry, worker>>

Wait(t) ==
    /\ caller[t].pc = "wait" /\ ~Pending(caller[t].id)
    /\ caller' = [caller EXCEPT ![t].pc = "done", ![t].report = entry[caller[t].id].report]
    /\ UNCHANGED <<defective, entry, worker>>

Publish(t) ==
    /\ caller[t].pc = "publish"
    /\ entry' = [entry EXCEPT ![caller[t].id].report = caller[t].report]
    /\ caller' = [caller EXCEPT ![t].pc = "done"]
    /\ UNCHANGED <<defective, worker>>

Return(t) ==
    /\ caller[t].pc = "done"
    /\ caller' = [caller EXCEPT ![t] = Idle]
    /\ UNCHANGED <<defective, entry, worker>>

(* The probe -------------------------------------------------------------- *)
\* The measurements on a device of the process, and whether the driver knows
\* push descriptors.  An exception ends the probe; work that did not complete
\* leaves the parts unmeasured.
Native(t) ==
    /\ caller[t].pc = "native"
    /\ \E first \in {"push", "tiler", "none"} :
         caller' = [caller EXCEPT
            ![t].pc = IF first = "none" THEN "publish" ELSE "launch",
            ![t].part = IF first = "none" THEN None ELSE first,
            ![t].run = "before",
            ![t].excused = IF first = "push" THEN {}
                           ELSE IF first = "tiler" THEN {"push"} ELSE Parts]
    /\ UNCHANGED <<defective, entry, worker>>

Assess(subject, after) ==
    CASE after # "passed" -> "inconclusive"
      [] after = "passed" /\ subject = "passed" -> "healthy"
      [] after = "passed" /\ subject \in {"mismatch", "crashed"} -> "repair"
      [] after = "passed" /\ subject \in {"unavailable", "timedout"} -> "inconclusive"

NextPart(c, verdict) ==
    [c EXCEPT !.report[c.part] = verdict, !.run = "before", !.subject = None, !.out = {},
              !.part = IF @ = "push" THEN "tiler" ELSE None,
              !.pc = IF c.part = "push" THEN "launch" ELSE "publish"]

\* What the prober does with the status of a run.
Result(c, status) ==
    CASE c.run = "before" /\ status # "passed" -> NextPart(c, "inconclusive")
      [] c.run = "before" /\ status = "passed" ->
            [c EXCEPT !.run = "subject", !.pc = "launch", !.out = {}]
      [] c.run = "subject" ->
            [c EXCEPT !.run = "after", !.pc = "launch", !.out = {}, !.subject = status]
      [] c.run = "after" -> NextPart(c, Assess(c.subject, status))

(* run_driver_probe_process ----------------------------------------------- *)
Excuse(c) == [c EXCEPT !.excused = @ \cup {c.part}]

Launch(t) ==
    /\ caller[t].pc = "launch"
    /\ \/ /\ worker' = [worker EXCEPT ![t] = [state |-> "setup", pipe |-> {}]]
          /\ caller' = [caller EXCEPT ![t].pc = "loop"]
       \/ \* no worker, no pipe or no process
          /\ caller' = [caller EXCEPT ![t] = Result(Excuse(@), "unavailable")]
          /\ UNCHANGED worker
    /\ UNCHANGED <<defective, entry>>

ReadOutput(t) ==
    /\ caller[t].pc = "loop"
    /\ caller' = [caller EXCEPT ![t].pc = "check", ![t].out = @ \cup worker[t].pipe]
    /\ worker' = [worker EXCEPT ![t].pipe = {}]
    /\ UNCHANGED <<defective, entry>>

Exited == {"exit0", "exit2", "exit3", "signal"}
CheckExit(t) ==
    /\ caller[t].pc = "check"
    /\ caller' = [caller EXCEPT ![t].pc = IF worker[t].state \in Exited THEN "exited" ELSE "loop"]
    /\ UNCHANGED <<defective, entry, worker>>

\* Somebody else of the process has waited for the worker.
Unwaitable(t) ==
    /\ caller[t].pc = "check"
    /\ worker' = [worker EXCEPT ![t] = NoWorker]
    /\ caller' = [caller EXCEPT ![t] = Result(Excuse(@), "unavailable")]
    /\ UNCHANGED <<defective, entry>>

\* The deadline is past when the loop looks at the clock: the worker is killed,
\* and its end is left to a detached thread.
Expire(t) ==
    /\ caller[t].pc = "loop"
    /\ worker' = [worker EXCEPT ![t] = NoWorker]
    /\ caller' = [caller EXCEPT ![t] = Result(Excuse(@), "timedout")]
    /\ UNCHANGED <<defective, entry>>

\* Mutant: a worker that is killed by a signal shows a defect, ready or not.
ClassifyAnySignal(state, out) ==
    CASE state = "signal" -> "crashed"
      [] state = "exit0" /\ "pass" \in out -> "passed"
      [] state = "exit3" /\ {"ready", "mismatch"} \subseteq out -> "mismatch"
      [] OTHER -> "unavailable"
Classify(state, out) ==
    CASE state = "signal" /\ "ready" \in out -> "crashed"
      [] state = "exit0" /\ "pass" \in out -> "passed"
      [] state = "exit3" /\ {"ready", "mismatch"} \subseteq out -> "mismatch"
      [] OTHER -> "unavailable"

\* What the worker said last is read once more.
Finish(t) ==
    /\ caller[t].pc = "exited"
    /\ caller' = [caller EXCEPT
          ![t] = Result(@, Classify(worker[t].state, @.out \cup worker[t].pipe))]
    /\ worker' = [worker EXCEPT ![t] = NoWorker]
    /\ UNCHANGED <<defective, entry>>

(* The worker process ----------------------------------------------------- *)
Subject(t) == caller[t].run = "subject"
Bad(t) == Subject(t) /\ caller[t].part \in defective[caller[t].id]

Say(t, state, words) ==
    worker' = [worker EXCEPT ![t] = [state |-> state, pipe |-> @.pipe \cup words]]

\* Identity, resources and pipelines are there.
Ready(t) ==
    /\ worker[t].state = "setup"
    /\ Say(t, "measuring", {"ready"})
    /\ UNCHANGED <<defective, entry, caller>>

\* The subject shows a defect exactly if there is one; it may do so by dying.
Measure(t) ==
    /\ worker[t].state = "measuring"
    /\ IF Bad(t) THEN Say(t, "exit3", {"mismatch"}) \/ Say(t, "signal", {})
                 ELSE Say(t, "exit0", {"pass"})
    /\ UNCHANGED <<defective, entry, caller>>

\* Setup fails, by an exit or by a signal, and so may anything in a control.
Fail(t) ==
    /\ \/ /\ worker[t].state = "setup"
          /\ Say(t, "exit2", {}) \/ Say(t, "signal", {})
       \/ /\ worker[t].state = "measuring"
          /\ \/ Say(t, "exit2", {})
             \/ /\ ~Subject(t)
                /\ Say(t, "exit3", {"mismatch"}) \/ Say(t, "signal", {})
    /\ caller' = [caller EXCEPT ![t] = Excuse(@)]
    /\ UNCHANGED <<defective, entry>>

-----------------------------------------------------------------------------

Prober(t) ==
    \/ Wait(t) \/ Publish(t) \/ Return(t)
    \/ Native(t) \/ Launch(t) \/ ReadOutput(t) \/ CheckExit(t) \/ Finish(t)

Next ==
    \E t \in Callers :
       \/ \E i \in Identities : Ask(t, i)
       \/ Reenter(t) \/ Prober(t) \/ Expire(t) \/ Unwaitable(t)
       \/ Ready(t) \/ Measure(t) \/ Fail(t)

Spec == Init /\ [][Next]_vars

\* Threads run and deadlines pass; nothing is expected of a worker.
Fairness == \A t \in Callers : WF_vars(Prober(t)) /\ SF_vars(Expire(t))

(* Properties ------------------------------------------------------------- *)
Probing == {"native", "launch", "loop", "check", "exited", "publish"}

\* One thread probes a device, and it never waits for itself; a report calls
\* a driver defective or healthy only if it is, and does not know only if
\* some part of the measurement failed; and who asked has the one report of
\* the device, or none.
TrustSound ==
    \A t \in Callers :
       LET c == caller[t] IN
       /\ c.pc \in Probing => Pending(c.id) /\ entry[c.id].owner = t
       /\ c.pc = "wait" /\ Pending(c.id) => entry[c.id].owner # t
       /\ \A p \in Parts : c.pc \in {"publish", "done"} =>
             /\ c.report[p] = "repair" => p \in defective[c.id]
             /\ c.report[p] = "healthy" => p \notin defective[c.id]
             /\ c.pc = "publish" /\ c.report[p] = "inconclusive" => p \in c.excused
       /\ c.pc = "done" =>
             \/ c.report = Unmeasured
             \/ c.id \in Known /\ c.report = entry[c.id].report

\* Whatever the workers do, and if they hang for ever, everybody who asks is
\* answered ("Never wait indefinitely for a broken GPU kernel's process
\* teardown").
TrustReturns == \A t \in Callers : caller[t].pc # "idle" ~> caller[t].pc = "idle"
=============================================================================
